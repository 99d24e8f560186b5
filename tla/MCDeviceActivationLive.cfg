CONSTANTS
    p1 = p1
    p2 = p2
    c1 = c1
    c2 = c2
    None = None
    NoClient = NoClient
    ACs = {c1, c2}
    NeedsCarrier = {c1}
    DeactivateAsync = TRUE
    LinkFaults = {"refused"}
    Kind <- KindOf
SPECIFICATION Spec
PROPERTIES DeactivationEnds QueuedIsServed
