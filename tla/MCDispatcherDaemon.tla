------------------------ MODULE MCDispatcherDaemon ------------------------
(* Instances of DispatcherDaemon for TLC. *)
EXTENDS DispatcherDaemon

(* No script, one of each kind, and two of which at least one waits. *)
WaitingLists == {<< >>, <<TRUE>>, <<FALSE>>, <<FALSE, TRUE>>, <<TRUE, FALSE>>, <<TRUE, TRUE>>}
=============================================================================
