---------------------------- MODULE MCCheckpoint ----------------------------
EXTENDS Checkpoint

CONSTANTS eth, vlan, p1, p2

\* p1 is a profile of the ethernet device, p2 one of the VLAN.
IfaceOf == [p \in Profiles |-> IF p = p1 THEN eth ELSE vlan]

FewFlags == {{}, {"destroy_all"}, {"allow_overlapping"},
             {"delete_new_connections", "disconnect_new_devices", "allow_overlapping"}}
=============================================================================
