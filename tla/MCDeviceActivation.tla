------------------------- MODULE MCDeviceActivation -------------------------
EXTENDS DeviceActivation, TLC

CONSTANTS p1, p2, c1, c2

AllACs == ACs
KindOf == [x \in AllACs |-> IF x \in {c1, c2} THEN "client" ELSE "profile"]

\* The two requests for the profile are interchangeable: a step that tells both
\* of a change of its visibility comes to the same in either order.
Symmetry == Permutations({p1, p2})
=============================================================================
