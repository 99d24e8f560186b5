CONSTANTS
    eth = eth
    vlan = vlan
    p1 = p1
    p2 = p2
    None = None
    Devices = {eth, vlan}
    Software = {vlan}
    Profiles = {p1, p2}
    Iface <- IfaceOf
    FlagChoices <- FewFlags
    MaxCheckpoints = 2
    MaxEdits = 1
    MaxVersions = 2
    MaxEvents = 2
CHECK_DEADLOCK FALSE
SPECIFICATION Spec
INVARIANTS TypeOK TrackedIsReal OverlapOnlyOnPurpose RollbackRestores
PROPERTY RollbackSpares
