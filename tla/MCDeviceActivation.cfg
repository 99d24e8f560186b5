CONSTANTS
    p1 = p1
    p2 = p2
    c1 = c1
    c2 = c2
    None = None
    NoClient = NoClient
    ACs = {p1, p2, c1}
    NeedsCarrier = {p1, p2}
    DeactivateAsync = FALSE
    LinkFaults = {"down"}
    Kind <- KindOf
SYMMETRY Symmetry
SPECIFICATION Spec
INVARIANTS TypeOK NoneForgotten DeadIsEnded RequestFollowsDevice NothingOutlivesItsState AnsweredOnce
