SPECIFICATION Spec
CONSTANTS
    None = None
    Page = {p1}
    Request = {r1, r2}
    AcknowledgePages = TRUE
    RecoveryEnabled = FALSE
    MaxErrors = 2
SYMMETRY Symmetry
INVARIANT NoPagesAfterCompleted
