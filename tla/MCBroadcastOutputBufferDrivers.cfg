SPECIFICATION Spec
CONSTANTS
    None = None
    Id = {c1}
    Page = {p1, p2, p3}
    Driver = {d1, d2}
SYMMETRY Symmetry
INVARIANTS
    EveryBufferGetsEveryPage
    ReferencesCounted
CHECK_DEADLOCK FALSE
