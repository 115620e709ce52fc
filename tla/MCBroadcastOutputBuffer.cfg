SPECIFICATION Spec
CONSTANTS
    None = None
    Id = {c1, c2}
    Page = {p1, p2}
    Driver = {d1}
SYMMETRY Symmetry
INVARIANTS
    TypeOK
    EveryBufferGetsEveryPage
    ReferencesCounted
    NoPageLeaks
    BothEndsMeanFlushing
PROPERTY FinishedMeansConsumed
CHECK_DEADLOCK FALSE
