--------------------------- MODULE MCSecretAgents ---------------------------
(* An instance of SecretAgents for TLC. *)
EXTENDS SecretAgents

CONSTANTS a1, a2, a3, c1, c2

(* A connection that registers twice, and another of the same user. *)
MCAgents == {a1, a2, a3}
MCConnections == {c1, c2}
MCOwner == [a \in MCAgents |-> IF a = a3 THEN c2 ELSE c1]
MCIdentifier == [a \in MCAgents |-> IF a = a2 THEN "other" ELSE "applet"]

Kind(type, flags, existing, needs) ==
    [type |-> type, flags |-> flags, existing |-> existing, needs |-> needs,
     system |-> FALSE, acl |-> MCConnections, same_uid |-> MCConnections]

Interactive == Kind("get", {"ALLOW_INTERACTION", "NO_ERRORS"}, "setting", TRUE)
OnlySystem == Kind("get", {"ONLY_SYSTEM"}, "other", TRUE)
Save == [Kind("save", {}, "NULL", FALSE) EXCEPT !.same_uid = {c1}]
Delete == Kind("del", {}, "NULL", FALSE)

MCKinds == <<{Interactive, OnlySystem}, {Interactive, Save, Delete}>>

(* The privileged connection c1 before and behind the other one. *)
MCRanks == {[a \in MCAgents |-> CASE a = a1 -> 1 [] a = a2 -> 3 [] a = a3 -> 2]}
=============================================================================
