SPECIFICATION Spec
CONSTANTS
    None = None
    Id = {c1}
    Page = {p1}
    Driver = {d1}
INVARIANT NoCompleteBufferLacksPages
CHECK_DEADLOCK FALSE
