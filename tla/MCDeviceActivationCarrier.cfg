CONSTANTS
    p1 = p1
    p2 = p2
    c1 = c1
    c2 = c2
    None = None
    NoClient = NoClient
    ACs = {p1}
    NeedsCarrier = {p1}
    DeactivateAsync = FALSE
    LinkFaults = {}
    Kind <- KindOf
SPECIFICATION Spec
PROPERTIES DeactivatesWithoutCarrier
