----------------------------- MODULE MCDmiTable -----------------------------
(* Tables for checking DmiTable with TLC. *)
EXTENDS DmiTable, SequencesExt

(* Pieces of tables: structures without strings and with two that hold     *)
(* unprintable characters, the end-of-table marker, and pieces that are    *)
(* too short, too long or cut off.                                         *)
Pieces ==
  {<<1, 4, 1, 0, 0, 0>>,
   <<2, 5, 2, 0, 9, 65, 7, 0, 200, 0, 0>>,
   <<127, 4, 3, 1, 0, 0>>,
   <<1, 3, 0, 0>>,
   <<2, 9, 1, 0, 0>>,
   <<1, 4, 0, 0, 65>>,
   <<2, 255, 0, 0, 0, 0>>}

Joined == {FlattenSeq(p) : p \in UNION {[1 .. n -> Pieces] : n \in 0 .. 3}}

(* Every table of a few bytes. *)
Small == UNION {[1 .. n -> {0, 1, 4}] : n \in 0 .. 7}

MCTables == Joined \union Small

MCSearches ==
  {[kind |-> "user", target |-> 0], [kind |-> "type", target |-> 2],
   [kind |-> "handle", target |-> 259]}
=============================================================================
