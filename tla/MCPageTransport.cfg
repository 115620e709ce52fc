SPECIFICATION Spec
CONSTANTS
    None = None
    Page = {p1, p2}
    Request = {r1, r2, r3}
    AcknowledgePages = TRUE
    RecoveryEnabled = TRUE
    MaxErrors = 2
SYMMETRY Symmetry
INVARIANTS
    TypeOK
    DeliveredInOrder
    CompleteMeansAll
    NothingDropped
    NoInvalidSequenceId
PROPERTY ImplementsStream
