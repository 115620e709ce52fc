SPECIFICATION FairSpec
CONSTANTS
    None = None
    Page = {p1, p2}
    Request = {r1, r2}
    AcknowledgePages = FALSE
    RecoveryEnabled = FALSE
    MaxErrors = 2
PROPERTIES
    ImplementsFairStream
    EventuallyDelivered
