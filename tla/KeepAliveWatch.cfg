CONSTANTS
    Clients = {c1, c2}
    NoClient = NoClient
    MaxWatches = 3
SPECIFICATION Spec
INVARIANT AliveIsCurrent
INVARIANT PresentClientKeepsAlive
PROPERTY FrozenOnceDisarmed
PROPERTY DepartureNoticed
