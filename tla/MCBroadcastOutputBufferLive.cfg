SPECIFICATION FairSpec
CONSTANTS
    None = None
    Id = {c1, c2}
    Page = {}
    Driver = {d1}
PROPERTY EventuallyFinished
CHECK_DEADLOCK FALSE
