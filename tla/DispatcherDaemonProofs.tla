----------------------- MODULE DispatcherDaemonProofs -----------------------
(***************************************************************************)
(* Proofs about DispatcherDaemon, for any number of requests and any lists *)
(* of scripts.  Inv is the inductive invariant: what holds of each request *)
(* by itself (RequestInv), how the requests, the queue and the current     *)
(* request fit together (QueueInv), and the counters, the timer and the    *)
(* assertions that depend on both.                                         *)
(***************************************************************************)
EXTENDS DispatcherDaemon, FiniteSetTheorems, SequenceTheorems, WellFoundedInduction, TLAPS

-----------------------------------------------------------------------------
(* The inductive invariant.                                                *)

Running(q)       == {i \in Scripts(q) : q.state[i] = "running"}
RunningNoWait(q) == {i \in Scripts(q) : ~q.wait[i] /\ q.state[i] = "running"}
OverScripts(q)   == {i \in Scripts(q) : Over(q, i)}

(* A request between two callbacks: its counters agree with its scripts,   *)
(* every "no-wait" script was dispatched, idx separates the "wait" scripts *)
(* dispatched from the others, none of which is dispatched before the      *)
(* "no-wait" ones are over, and only the last of them may be running.      *)
Consistent(q) ==
  /\ q.num_scripts_done = Cardinality(OverScripts(q))
  /\ q.num_scripts_nowait = Cardinality(RunningNoWait(q))
  /\ \A i \in Scripts(q) : ~q.wait[i] => q.state[i] # "new"
  /\ \A i \in Scripts(q) : q.wait[i] => (q.state[i] = "new" <=> i >= q.idx)
  /\ \A i \in Scripts(q) : q.wait[i] /\ q.state[i] = "running" => i + 1 = q.idx
  /\ q.num_scripts_nowait > 0 => q.idx = 1

AllOver(q) == \A i \in Scripts(q) : Over(q, i)

RequestInv ==
  \A r \in Requests :
    /\ Len(req[r].wait) = Len(req[r].state)
    /\ replies[r] <= 1
    /\ r > request_id_counter => req[r] = NullRequest /\ replies[r] = 0
    /\ replies[r] = 1 => AllOver(req[r])
    /\ Pending(r) => Consistent(req[r]) /\ ~AllOver(req[r])
    /\ Pending(r) /\ r # current_request => \A i \in Running(req[r]) : ~req[r].wait[i]
    /\ Pending(r) /\ r # current_request /\ HasWait(req[r]) => req[r].idx = 1

QueueInv ==
  /\ current_request # NoRequest =>
       /\ Pending(current_request)
       /\ HasWait(req[current_request])
       /\ Running(req[current_request]) # {}
       /\ \A k \in DOMAIN requests_waiting : current_request < requests_waiting[k]
  /\ current_request = NoRequest => requests_waiting = <<>>
  /\ \A k \in DOMAIN requests_waiting :
       /\ Pending(requests_waiting[k])
       /\ HasWait(req[requests_waiting[k]])
       /\ \A l \in DOMAIN requests_waiting : k < l => requests_waiting[k] < requests_waiting[l]
  /\ loop # "exited" => \A r \in Requests :
       Pending(r) /\ HasWait(req[r]) /\ r # current_request =>
         \E k \in DOMAIN requests_waiting : requests_waiting[k] = r
  /\ \A r, s \in Requests :
       /\ s < r /\ r <= request_id_counter
       /\ HasWait(req[r]) /\ HasWait(req[s])
       /\ Pending(s)
       => Pending(r) /\ r # current_request

ProcessInv == \A p \in alive : p[2] \in Running(req[p[1]])

CountInv == num_requests_pending = Cardinality({r \in Requests : Pending(r)})

TimerInv == /\ quit_id => ~Persist /\ \A r \in Requests : ~Pending(r)
            /\ IdleTimerArmedIffIdle

Inv == /\ TypeOK /\ RequestInv /\ QueueInv /\ ProcessInv
       /\ CountInv /\ TimerInv /\ NoAssertionFails

-----------------------------------------------------------------------------
(* Facts about sets of numbers and cardinalities.                          *)

(* A nonempty set of naturals has a least element: the first script that   *)
(* can be spawned, the first queued request at which the queue stops.      *)
LEMMA LeastNatural ==
  ASSUME NEW S \in SUBSET Nat, S # {}
  PROVE  \E x \in S : \A y \in S : x <= y
<1> DEFINE R == {ss \in Nat \X Nat : ss[1] < ss[2]}
<1>1. OpToRel(<, Nat) = R
  BY DEF OpToRel
<1>2. IsWellFoundedOn(R, Nat)
  BY <1>1, NatLessThanWellFounded
<1>3. PICK x \in S : \A y \in S : ~(<<y, x>> \in R)
  <2> HIDE DEF R
  <2> QED BY <1>2, WFMin, Zenon
<1>4. ASSUME NEW y \in S
      PROVE  x <= y
  <2>1. x \in Nat /\ y \in Nat
    OBVIOUS
  <2>2. y < x => <<y, x>> \in R
    BY <2>1
  <2>3. <<y, x>> \notin R
    <3> HIDE DEF R
    <3> QED BY <1>3
  <2> HIDE DEF R
  <2> QED BY <2>1, <2>2, <2>3
<1> QED BY <1>4

(* Min() of FiniteSetsExt returns that element. *)
LEMMA MinProperties ==
  ASSUME NEW S \in SUBSET Nat, S # {}
  PROVE  Min(S) \in S /\ \A k \in S : Min(S) <= k
BY LeastNatural DEF Min

(* Disjoint finite sets add up. *)
LEMMA CardinalityDisjointUnion ==
  ASSUME NEW S, IsFiniteSet(S), NEW T, IsFiniteSet(T), S \intersect T = {}
  PROVE  Cardinality(S \union T) = Cardinality(S) + Cardinality(T)
<1>1. Cardinality(S) \in Nat /\ Cardinality(T) \in Nat
  BY FS_CardinalityType
<1>2. Cardinality(S \union T) = Cardinality(S) + Cardinality(T) - Cardinality(S \intersect T)
  BY FS_Union
<1>3. Cardinality(S \intersect T) = 0
  BY FS_EmptySet
<1> QED BY <1>1, <1>2, <1>3

(* The scripts of a request are an interval; sets of them can be counted.  *)
LEMMA ScriptSets ==
  ASSUME NEW q \in RequestRecords
  PROVE  /\ Len(q.state) \in Nat
         /\ Scripts(q) = 1 .. Len(q.state)
         /\ IsFiniteSet(Scripts(q))
         /\ Cardinality(Scripts(q)) = Len(q.state)
         /\ \A S \in SUBSET Scripts(q) :
              /\ IsFiniteSet(S)
              /\ Cardinality(S) \in Nat
              /\ Cardinality(S) <= Len(q.state)
              /\ Cardinality(S) = Len(q.state) => S = Scripts(q)
<1>1. q.state \in Seq(ScriptStates)
  BY DEF RequestRecords
<1>2. Len(q.state) \in Nat /\ Scripts(q) = 1 .. Len(q.state)
  BY <1>1 DEF Scripts
<1>3. IsFiniteSet(Scripts(q)) /\ Cardinality(Scripts(q)) = Len(q.state)
  BY <1>2, FS_Interval
<1>4. ASSUME NEW S \in SUBSET Scripts(q)
      PROVE  /\ IsFiniteSet(S)
             /\ Cardinality(S) \in Nat
             /\ Cardinality(S) <= Len(q.state)
             /\ Cardinality(S) = Len(q.state) => S = Scripts(q)
  BY <1>3, FS_Subset, FS_CardinalityType
<1> QED BY <1>2, <1>3, <1>4

-----------------------------------------------------------------------------
(* dispatch_one_script()                                                   *)

(* The result of dispatch_one_script() is a request again, with the same   *)
(* scripts, whatever fails to spawn.                                       *)
LEMMA DispatchType ==
  ASSUME NEW q \in RequestRecords, NEW bad
  PROVE  LET d == DispatchOneScript(q, bad)
         IN  /\ d.ret \in BOOLEAN
             /\ d.q \in RequestRecords
             /\ Scripts(d.q) = Scripts(q)
             /\ Len(d.q.state) = Len(q.state)
             /\ d.q.wait = q.wait
             /\ d.spawned \subseteq Scripts(q)
<1> DEFINE spawned == Spawned(q, bad)
           failed  == SpawnFailed(q, bad)
           state   == ScriptDispatch(q.state, failed, spawned)
           idx     == IF spawned # {} THEN 1 + CHOOSE i \in spawned : TRUE
                      ELSE IF q.idx > Len(q.state) THEN q.idx ELSE Len(q.state) + 1
<1>1. q.state \in Seq(ScriptStates) /\ q.idx \in Nat \ {0}
  BY DEF RequestRecords
<1>2. Len(q.state) \in Nat /\ Scripts(q) = 1 .. Len(q.state)
  BY ScriptSets
<1>3. spawned \subseteq Scripts(q) /\ failed \subseteq Scripts(q)
  BY DEF Spawned, SpawnFailed, Todo
<1> HIDE DEF spawned, failed
<1>4. state \in Seq(ScriptStates) /\ Len(state) = Len(q.state) /\ DOMAIN state = Scripts(q)
  BY <1>1, <1>2 DEF ScriptDispatch, ScriptStates, Results, Scripts
<1>5. idx \in Nat \ {0}
  <2>1. spawned # {} => (CHOOSE i \in spawned : TRUE) \in 1 .. Len(q.state)
    BY <1>2, <1>3
  <2> QED BY <2>1, <1>1, <1>2
<1>6. Cardinality(failed) \in Nat
  BY ScriptSets, <1>3
<1> HIDE DEF state, idx
<1>7. CASE BlockedByNoWait(q)
  BY <1>7 DEF DispatchOneScript
<1>8. CASE ~BlockedByNoWait(q)
  <2> DEFINE q2 == [wait |-> q.wait, state |-> state, idx |-> idx,
                    num_scripts_done |-> q.num_scripts_done + Cardinality(failed),
                    num_scripts_nowait |-> q.num_scripts_nowait]
  <2>1. DispatchOneScript(q, bad) = [ret |-> spawned # {}, spawned |-> spawned, q |-> q2]
    BY <1>8 DEF DispatchOneScript, idx, state, spawned, failed
  <2>2. q2 \in RequestRecords
    BY <1>4, <1>5, <1>6 DEF RequestRecords
  <2> QED BY <2>1, <2>2, <1>3, <1>4 DEF Scripts, RequestRecords
<1> QED BY <1>7, <1>8

(* dispatch_one_script() on a request none of whose "wait" scripts runs:   *)
(* if it returns FALSE every script is over, and request_free() may be     *)
(* called; if it returns TRUE the counters still agree and a script runs,  *)
(* whose end will bring the daemon back to this request.                   *)
LEMMA DispatchEffect ==
  ASSUME NEW q \in RequestRecords, NEW bad,
         Len(q.wait) = Len(q.state),
         Consistent(q),
         \A i \in Running(q) : ~q.wait[i]
  PROVE  LET d == DispatchOneScript(q, bad)
         IN  /\ ~d.ret => AllOver(d.q) /\ FreeAsserts(d.q)
             /\ d.ret  => Consistent(d.q) /\ Running(d.q) # {}
             /\ Running(d.q) = Running(q) \union d.spawned
             /\ d.spawned # {} => d.ret /\ HasWait(q)
<1> DEFINE d == DispatchOneScript(q, bad)
           spawned == Spawned(q, bad)
           failed  == SpawnFailed(q, bad)
<1>0. /\ q.state \in Seq(ScriptStates) /\ q.wait \in Seq(BOOLEAN)
      /\ q.idx \in Nat /\ q.num_scripts_done \in Int /\ q.num_scripts_nowait \in Int
  BY DEF RequestRecords
<1>1. Len(q.state) \in Nat /\ Scripts(q) = 1 .. Len(q.state)
  BY ScriptSets
<1>2. \A S \in SUBSET Scripts(q) : IsFiniteSet(S) /\ Cardinality(S) \in Nat
  BY ScriptSets
<1>3. CASE BlockedByNoWait(q)
  <2>1. d = [ret |-> TRUE, q |-> q, spawned |-> {}]
    BY <1>3 DEF DispatchOneScript
  <2>2. RunningNoWait(q) # {}
    <3>1. Cardinality(RunningNoWait(q)) # 0
      BY <1>3 DEF BlockedByNoWait, Consistent
    <3> QED BY <3>1, FS_EmptySet
  <2> QED BY <2>1, <2>2 DEF RunningNoWait, Running
<1>4. CASE ~BlockedByNoWait(q)
  <2>1. q.num_scripts_nowait = 0 /\ RunningNoWait(q) = {} /\ Running(q) = {}
    <3>1. q.num_scripts_nowait = 0
      BY <1>4, <1>2, <1>0 DEF BlockedByNoWait, Consistent, RunningNoWait
    <3>2. RunningNoWait(q) = {}
      BY <3>1, <1>2, FS_EmptySet DEF Consistent, RunningNoWait
    <3> QED BY <3>1, <3>2 DEF Running, RunningNoWait
  <2>2. Todo(q) = {i \in Scripts(q) : q.state[i] = "new"}
    BY <1>0, <1>1 DEF Todo, Consistent
  <2>3. \A i \in Scripts(q) : i \in Todo(q) \/ Over(q, i)
    BY <2>1, <2>2, <1>0, <1>1 DEF Running, Over, ScriptStates
  <2>4. /\ spawned \subseteq Todo(q) /\ failed \subseteq Todo(q)
        /\ spawned \intersect failed = {}
        /\ \A i, k \in spawned : i = k
    BY <1>1 DEF Spawned, SpawnFailed, Todo
  <2>5. spawned = {} => failed = Todo(q)
    <3>1. Todo(q) \ bad # {} => spawned # {}
      <4>1. Todo(q) \ bad \in SUBSET Nat
        BY <1>1 DEF Todo
      <4>2. Todo(q) \ bad # {} => \E x \in Todo(q) \ bad : \A y \in Todo(q) \ bad : x <= y
        BY <4>1, LeastNatural
      <4> QED BY <4>2 DEF Spawned
    <3> QED BY <3>1 DEF SpawnFailed
  <2>6. /\ d.ret = (spawned # {}) /\ d.spawned = spawned
        /\ d.q.wait = q.wait
        /\ d.q.state = ScriptDispatch(q.state, failed, spawned)
        /\ d.q.num_scripts_done = q.num_scripts_done + Cardinality(failed)
        /\ d.q.num_scripts_nowait = 0
        /\ spawned # {} => d.q.idx = 1 + CHOOSE i \in spawned : TRUE
    BY <1>4, <2>1 DEF DispatchOneScript
  <2>7. /\ Scripts(d.q) = Scripts(q) /\ Len(d.q.state) = Len(q.state)
        /\ \A i \in Scripts(q) :
             d.q.state[i] = IF i \in failed THEN "EXEC_FAILED"
                            ELSE IF i \in spawned THEN "running" ELSE q.state[i]
    BY <2>6, <1>0, <1>1 DEF ScriptDispatch, Scripts
  <2> HIDE DEF d, spawned, failed
  <2>8. Running(d.q) = spawned
    BY <2>7, <2>4, <2>1, <2>3 DEF Running, Todo
  <2>9. OverScripts(d.q) = OverScripts(q) \union failed
    BY <2>7, <2>4, <2>2 DEF OverScripts, Over, Todo, Results
  <2>10. OverScripts(q) \intersect failed = {}
    BY <2>4, <2>2 DEF OverScripts, Over, Todo, Results
  <2>11. d.q.num_scripts_done = Cardinality(OverScripts(d.q))
    <3>1. OverScripts(q) \subseteq Scripts(q) /\ failed \subseteq Scripts(q)
      BY <2>4 DEF OverScripts, Todo
    <3>2. Cardinality(OverScripts(q) \union failed) = Cardinality(OverScripts(q)) + Cardinality(failed)
      BY <3>1, <1>2, <2>10, CardinalityDisjointUnion
    <3> QED BY <3>2, <2>6, <2>9 DEF Consistent
  <2>12. CASE spawned = {}
    <3>1. AllOver(d.q)
      BY <2>12, <2>5, <2>3, <2>7 DEF AllOver, Over, Results
    <3>2. OverScripts(d.q) = Scripts(q)
      BY <3>1, <2>7 DEF OverScripts, AllOver
    <3>3. FreeAsserts(d.q)
      BY <3>2, <2>11, <2>6, <2>7, ScriptSets DEF FreeAsserts
    <3> QED BY <3>1, <3>3, <2>12, <2>6, <2>8, <2>1 DEF d
  <2>13. CASE spawned # {}
    <3>1. PICK s \in spawned : spawned = {s}
      BY <2>13, <2>4
    <3>2. (CHOOSE i \in spawned : TRUE) = s
      BY <3>1
    <3>3. s \in Scripts(q) /\ q.wait[s] /\ s >= q.idx
      BY <3>1, <2>4, <2>2, <1>0, <1>1 DEF Todo, Consistent
    <3>4. d.q.idx = s + 1
      <4>1. d.q.idx = 1 + s
        BY <2>6, <2>13, <3>2, Zenon
      <4> QED BY <4>1, <3>3, <1>1
    <3>5. RunningNoWait(d.q) = {}
      BY <2>8, <3>1, <3>3, <2>6 DEF RunningNoWait, Running
    <3>6. \A i \in Scripts(q) : q.wait[i] => (d.q.state[i] = "new" <=> i >= s + 1)
      <4> SUFFICES ASSUME NEW i \in Scripts(q), q.wait[i]
                   PROVE  d.q.state[i] = "new" <=> i >= s + 1
        OBVIOUS
      <4>1. CASE i >= s + 1
        <5>1. i \in Todo(q)
          BY <4>1, <3>3, <1>0, <1>1 DEF Todo, Consistent
        <5>2. i \notin failed /\ i \notin spawned
          BY <4>1, <3>1, <3>3, <1>1 DEF failed, SpawnFailed, spawned
        <5> QED BY <5>1, <5>2, <4>1, <2>7 DEF Todo
      <4>2. CASE i = s
        BY <4>2, <3>1, <3>3, <2>7, <2>4, <1>1
      <4>3. CASE i < s
        <5>1. i \in Todo(q) => i \in failed
          <6>1. i \in Todo(q) => i \in bad
            BY <4>3, <3>1, <3>3, <1>1 DEF spawned, Spawned
          <6> QED BY <6>1, <4>3, <3>1 DEF failed, SpawnFailed, spawned
        <5> QED BY <5>1, <4>3, <3>3, <2>7, <2>3, <1>1, SMTT(30) DEF Over, Results
      <4> QED BY <4>1, <4>2, <4>3, <3>3, <1>1
    <3>7. Consistent(d.q)
      <4>1. d.q.num_scripts_nowait = Cardinality(RunningNoWait(d.q))
        BY <3>5, <2>6, FS_EmptySet
      <4>2. \A i \in Scripts(q) : ~q.wait[i] => d.q.state[i] # "new"
        BY <2>7 DEF Consistent
      <4>3. \A i \in Scripts(q) : d.q.state[i] = "running" => i = s
        BY <2>8, <3>1, <2>7 DEF Running
      <4> QED BY <4>1, <4>2, <4>3, <3>6, <3>4, <2>6, <2>7, <2>11 DEF Consistent
    <3> QED BY <3>7, <3>3, <2>13, <2>6, <2>8, <2>1 DEF HasWait, d
  <2> QED BY <2>12, <2>13
<1> QED BY <1>3, <1>4

-----------------------------------------------------------------------------
(* The other helpers on one request.                                       *)

(* The test of complete_request() finds out whether every script is over,  *)
(* and then what request_free() asserts holds.                             *)
LEMMA DoneIffAllOver ==
  ASSUME NEW q \in RequestRecords, Consistent(q)
  PROVE  /\ AllScriptsDone(q) <=> AllOver(q)
         /\ AllOver(q) => FreeAsserts(q)
         /\ AllOver(q) => Running(q) = {}
<1>1. OverScripts(q) \in SUBSET Scripts(q) /\ RunningNoWait(q) \in SUBSET Scripts(q)
  BY DEF OverScripts, RunningNoWait
<1>2. AllOver(q) <=> OverScripts(q) = Scripts(q)
  BY DEF AllOver, OverScripts
<1>3. q.num_scripts_done = Cardinality(OverScripts(q)) /\ q.num_scripts_done \in Nat
  BY <1>1, ScriptSets DEF Consistent
<1>4. AllScriptsDone(q) <=> AllOver(q)
  BY <1>1, <1>2, <1>3, ScriptSets DEF AllScriptsDone
<1>5. ASSUME AllOver(q)
      PROVE  RunningNoWait(q) = {} /\ Running(q) = {}
  BY <1>5 DEF AllOver, Over, Results, RunningNoWait, Running
<1>6. AllOver(q) => FreeAsserts(q)
  BY <1>2, <1>3, <1>5, ScriptSets, FS_EmptySet DEF FreeAsserts, Consistent
<1> QED BY <1>4, <1>5, <1>6

(* What script_watch_cb() and script_timeout_cb() record keeps the request *)
(* consistent, and leaves none of its "wait" scripts running.              *)
LEMMA ScriptOverEffect ==
  ASSUME NEW q \in RequestRecords, NEW i \in Running(q), NEW result \in Results,
         Len(q.wait) = Len(q.state), Consistent(q)
  PROVE  LET o == ScriptOver(q, i, result)
         IN  /\ o \in RequestRecords
             /\ Scripts(o) = Scripts(q)
             /\ Len(o.state) = Len(q.state)
             /\ o.wait = q.wait
             /\ o.idx = q.idx
             /\ Running(o) = Running(q) \ {i}
             /\ Consistent(o)
             /\ \A k \in Running(o) : ~q.wait[k]
<1> DEFINE o == ScriptOver(q, i, result)
<1>1. /\ q.state \in Seq(ScriptStates) /\ q.wait \in Seq(BOOLEAN)
      /\ q.idx \in Nat /\ q.num_scripts_done \in Int /\ q.num_scripts_nowait \in Int
  BY DEF RequestRecords
<1>2. Len(q.state) \in Nat /\ Scripts(q) = 1 .. Len(q.state)
  BY ScriptSets
<1>3. i \in Scripts(q) /\ q.state[i] = "running"
  BY DEF Running
<1>4. o \in RequestRecords
  BY <1>1, <1>2, <1>3 DEF ScriptOver, RequestRecords, ScriptStates, Scripts
<1>5. /\ o.wait = q.wait /\ o.idx = q.idx
      /\ o.num_scripts_done = q.num_scripts_done + 1
      /\ o.num_scripts_nowait = IF q.wait[i] THEN q.num_scripts_nowait ELSE q.num_scripts_nowait - 1
  BY DEF ScriptOver
<1>6. /\ Scripts(o) = Scripts(q) /\ Len(o.state) = Len(q.state)
      /\ \A k \in Scripts(q) : o.state[k] = IF k = i THEN result ELSE q.state[k]
  BY <1>1, <1>2, <1>3 DEF ScriptOver, Scripts
<1> HIDE DEF o
<1>7. Running(o) = Running(q) \ {i}
  BY <1>6, <1>3 DEF Running, Results
<1>8. OverScripts(o) = OverScripts(q) \union {i} /\ i \notin OverScripts(q)
  BY <1>6, <1>3 DEF OverScripts, Over, Results
<1>9. o.num_scripts_done = Cardinality(OverScripts(o))
  <2>1. IsFiniteSet(OverScripts(q))
    BY ScriptSets DEF OverScripts
  <2> QED BY <1>8, <1>5, <2>1, FS_AddElement DEF Consistent
<1>10. RunningNoWait(o) = RunningNoWait(q) \ {i}
  BY <1>6, <1>5, <1>3 DEF RunningNoWait, Results
<1>11. o.num_scripts_nowait = Cardinality(RunningNoWait(o))
  <2>1. IsFiniteSet(RunningNoWait(q))
    BY ScriptSets DEF RunningNoWait
  <2>2. i \in RunningNoWait(q) <=> ~q.wait[i]
    BY <1>3 DEF RunningNoWait
  <2>3. Cardinality(RunningNoWait(q) \ {i}) =
          IF i \in RunningNoWait(q) THEN Cardinality(RunningNoWait(q)) - 1
          ELSE Cardinality(RunningNoWait(q))
    BY <2>1, FS_RemoveElement
  <2> QED BY <1>10, <1>5, <2>2, <2>3 DEF Consistent
<1>12. ASSUME NEW k \in Running(o), q.wait[k]
       PROVE  FALSE
  <2>1. k \in Scripts(q) /\ q.state[k] = "running" /\ k # i
    BY <1>7 DEF Running
  <2>2. k + 1 = q.idx /\ ~(q.num_scripts_nowait > 0)
    BY <2>1, <1>12, <1>2 DEF Consistent
  <2>3. CASE q.wait[i]
    BY <2>1, <2>2, <2>3, <1>1, <1>2, <1>3 DEF Consistent
  <2>4. CASE ~q.wait[i]
    <3>1. i \in RunningNoWait(q)
      BY <2>4, <1>3 DEF RunningNoWait
    <3>2. Cardinality(RunningNoWait(q)) # 0 /\ Cardinality(RunningNoWait(q)) \in Nat
      BY <3>1, ScriptSets, FS_EmptySet DEF RunningNoWait
    <3> QED BY <3>2, <2>2 DEF Consistent
  <2> QED BY <2>3, <2>4
<1>13. Consistent(o)
  <2>1. \A k \in Scripts(q) : ~q.wait[k] => o.state[k] # "new"
    BY <1>6 DEF Consistent, Results
  <2>2. \A k \in Scripts(q) : q.wait[k] => (o.state[k] = "new" <=> k >= q.idx)
    BY <1>6, <1>3 DEF Consistent, Results
  <2>3. \A k \in Scripts(q) : ~(q.wait[k] /\ o.state[k] = "running")
    BY <1>12, <1>6 DEF Running
  <2>4. o.num_scripts_nowait > 0 => o.idx = 1
    BY <1>1, <1>5 DEF Consistent
  <2> QED BY <1>5, <1>6, <1>9, <1>11, <2>1, <2>2, <2>3, <2>4 DEF Consistent
<1>14. \A k \in Running(o) : ~q.wait[k]
  BY <1>12
<1> QED BY <1>4, <1>5, <1>6, <1>7, <1>13, <1>14 DEF o

(* A new request after _method_call_action() has dispatched its "no-wait"  *)
(* scripts.                                                                *)
LEMMA DispatchNoWaitEffect ==
  ASSUME NEW list \in Seq(BOOLEAN), NEW bad
  PROVE  LET q == DispatchNoWait(list, bad)
         IN  /\ q \in RequestRecords
             /\ Len(q.wait) = Len(q.state)
             /\ q.wait = list
             /\ Scripts(q) = DOMAIN list
             /\ q.idx = 1
             /\ Consistent(q)
             /\ \A i \in Running(q) : ~q.wait[i]
             /\ HasWait(q) => ~AllOver(q)
<1> DEFINE q == DispatchNoWait(list, bad)
           nowait == {i \in DOMAIN list : ~list[i]}
           failed == nowait \intersect bad
           spawned == nowait \ bad
<1>1. Len(list) \in Nat /\ DOMAIN list = 1 .. Len(list) /\ \A i \in DOMAIN list : list[i] \in BOOLEAN
  OBVIOUS
<1>2. /\ IsFiniteSet(failed) /\ Cardinality(failed) \in Nat
      /\ IsFiniteSet(spawned) /\ Cardinality(spawned) \in Nat
  <2>1. IsFiniteSet(DOMAIN list)
    BY <1>1, FS_Interval
  <2> QED BY <2>1, FS_Subset, FS_CardinalityType
<1>3. q = [wait |-> list, state |-> q.state, idx |-> 1, num_scripts_done |-> Cardinality(failed),
           num_scripts_nowait |-> Cardinality(spawned)]
  BY DEF DispatchNoWait, NullRequest
<1>4. q.state = [i \in DOMAIN list |-> IF i \in failed THEN "EXEC_FAILED"
                                       ELSE IF i \in spawned THEN "running" ELSE "new"]
  BY DEF DispatchNoWait, ScriptDispatch
<1> HIDE DEF q, failed, spawned
<1>5. q.state \in [1 .. Len(list) -> ScriptStates]
  BY <1>1, <1>4 DEF ScriptStates, Results
<1>6. q.state \in Seq(ScriptStates) /\ Len(q.state) = Len(list) /\ Scripts(q) = DOMAIN list
  BY <1>1, <1>5 DEF Scripts
<1>7. q \in RequestRecords
  <2>1. ASSUME NEW st \in Seq(ScriptStates)
        PROVE  [wait |-> list, state |-> st, idx |-> 1, num_scripts_done |-> Cardinality(failed),
                num_scripts_nowait |-> Cardinality(spawned)] \in RequestRecords
    BY <1>2 DEF RequestRecords
  <2> QED BY <2>1, <1>3, <1>6, Zenon
<1>8. OverScripts(q) = failed
  BY <1>4, <1>6 DEF OverScripts, Over, Results, failed
<1>9. RunningNoWait(q) = spawned /\ Running(q) = spawned
  BY <1>4, <1>6, <1>3 DEF RunningNoWait, Running, spawned, failed
<1>10. \A i \in Scripts(q) : q.state[i] = "new" <=> list[i]
  BY <1>4, <1>6 DEF spawned, failed
<1>11. Consistent(q)
  <2>1. q.num_scripts_done = Cardinality(OverScripts(q)) /\ q.num_scripts_nowait = Cardinality(RunningNoWait(q))
    BY <1>3, <1>8, <1>9
  <2>2. q.wait = list /\ q.idx = 1
    BY <1>3
  <2>3. \A i \in Scripts(q) : i >= q.idx
    BY <2>2, <1>6, <1>1
  <2> QED BY <2>1, <2>2, <2>3, <1>10 DEF Consistent
<1>12. HasWait(q) => ~AllOver(q)
  BY <1>10, <1>3 DEF HasWait, AllOver, Over, Results
<1>13. \A i \in Running(q) : ~q.wait[i]
  BY <1>9, <1>3 DEF spawned
<1> QED BY <1>3, <1>6, <1>7, <1>11, <1>12, <1>13 DEF q

-----------------------------------------------------------------------------
(* complete_request(), for the requests that a callback tries.             *)

(* The part of TypeOK that CompleteRequests establishes. *)
QueueTypeOK ==
  /\ req \in [Requests -> RequestRecords]
  /\ current_request \in Requests \union {NoRequest}
  /\ requests_waiting \in Seq(Requests)
  /\ num_requests_pending \in Int
  /\ quit_id \in BOOLEAN
  /\ replies \in [Requests -> Nat]
  /\ asserts \in BOOLEAN

(* The requests that complete_request() frees among those that it tries. *)
Gone(tried, rq) == {tried[k] : k \in {l \in DOMAIN tried : AllScriptsDone(rq[tried[l]])}}

(* If no request is tried twice, each one that is gone is answered and     *)
(* counted off once.                                                       *)
LEMMA CompleteEffect ==
  ASSUME TypeOK,
         NEW tried \in Seq(Requests), NEW rq \in [Requests -> RequestRecords],
         NEW cur \in Requests \union {NoRequest}, NEW queue \in Seq(Requests),
         NEW pending \in Int,
         \A k, l \in DOMAIN tried : tried[k] = tried[l] => k = l,
         CompleteRequests(tried, rq, cur, queue, pending, FALSE, TRUE)
  PROVE  LET gone == Gone(tried, rq)
         IN  /\ QueueTypeOK'
             /\ gone \in SUBSET Requests
             /\ req' = rq
             /\ \A r \in Requests :
                  replies'[r] = replies[r] + (IF r \in gone THEN 1 ELSE 0)
             /\ current_request' = cur
             /\ requests_waiting' = queue
             /\ num_requests_pending' = pending - Cardinality(gone)
             /\ quit_id' = (gone # {} /\ num_requests_pending' <= 0 /\ ~Persist)
             /\ asserts' = (/\ asserts
                            /\ \A r \in gone : FreeAsserts(rq[r])
                            /\ gone # {} /\ num_requests_pending' <= 0 =>
                                 /\ num_requests_pending' = 0
                                 /\ tried[Len(tried)] \in gone
                                 /\ cur = NoRequest
                                 /\ queue = <<>>)
<1> DEFINE done == {k \in DOMAIN tried : AllScriptsDone(rq[tried[k]])}
           gone == Gone(tried, rq)
           left == pending - Cardinality(done)
<1>1. Len(tried) \in Nat /\ DOMAIN tried = 1 .. Len(tried) /\ \A k \in DOMAIN tried : tried[k] \in Requests
  OBVIOUS
<1>2. gone = {tried[k] : k \in done}
  BY DEF Gone
<1>3. gone \in SUBSET Requests
  BY <1>1, <1>2
<1>4. IsFiniteSet(done) /\ Cardinality(done) \in Nat
  <2>1. IsFiniteSet(1 .. Len(tried))
    BY <1>1, FS_Interval
  <2>2. done \in SUBSET (1 .. Len(tried))
    BY <1>1
  <2>3. IsFiniteSet(done)
    BY <2>1, <2>2, FS_Subset
  <2> QED BY <2>3, FS_CardinalityType
<1>5. Cardinality(gone) = Cardinality(done)
  <2> DEFINE f == [k \in done |-> tried[k]]
  <2>1. f \in Bijection(done, gone)
    BY <1>2 DEF Bijection, Injection, Surjection, IsInjective
  <2>2. ExistsBijection(done, gone)
    BY <2>1 DEF ExistsBijection
  <2> QED BY <2>2, <1>4, FS_Bijection
<1>6. ASSUME NEW r \in Requests
      PROVE  Cardinality({k \in done : tried[k] = r}) = IF r \in gone THEN 1 ELSE 0
  <2>1. CASE r \in gone
    <3>1. PICK k \in done : {l \in done : tried[l] = r} = {k}
      BY <2>1, <1>2
    <3> QED BY <3>1, <2>1, FS_Singleton
  <2>2. CASE r \notin gone
    <3>1. {l \in done : tried[l] = r} = {}
      BY <2>2, <1>2
    <3> QED BY <3>1, <2>2, FS_EmptySet
  <2> QED BY <2>1, <2>2
<1>7. /\ req' = rq
      /\ replies' = [r \in Requests |-> replies[r] + Cardinality({k \in done : tried[k] = r})]
      /\ current_request' = cur
      /\ requests_waiting' = queue
      /\ num_requests_pending' = left
      /\ quit_id' = (done # {} /\ Rearmed(left))
      /\ asserts' = (/\ asserts
                     /\ \A k \in done : FreeAsserts(rq[tried[k]])
                     /\ done # {} /\ left <= 0 => /\ left = 0
                                                  /\ Len(tried) \in done
                                                  /\ cur = NoRequest
                                                  /\ queue = <<>>)
  BY DEF CompleteRequests
<1> HIDE DEF gone, left, done
<1>8. ASSUME NEW r \in Requests
      PROVE  /\ replies'[r] = replies[r] + (IF r \in gone THEN 1 ELSE 0)
             /\ replies'[r] \in Nat
  <2>1. replies[r] \in Nat
    BY DEF TypeOK
  <2>2. replies'[r] = replies[r] + Cardinality({k \in done : tried[k] = r})
    BY <1>7
  <2>3. Cardinality({k \in done : tried[k] = r}) = IF r \in gone THEN 1 ELSE 0
    BY <1>6, Zenon
  <2>4. replies'[r] = replies[r] + (IF r \in gone THEN 1 ELSE 0)
    BY <2>2, <2>3, Zenon
  <2>5. replies'[r] \in Nat
    BY <2>1, <2>4
  <2> QED BY <2>4, <2>5
<1>10. done # {} <=> gone # {}
  BY <1>2
<1>11. left \in Int /\ left = pending - Cardinality(gone)
  BY <1>4, <1>5 DEF left
<1>12. quit_id' = (gone # {} /\ num_requests_pending' <= 0 /\ ~Persist)
  BY <1>7, <1>10 DEF Rearmed
<1>13. (\A k \in done : FreeAsserts(rq[tried[k]])) <=> \A r \in gone : FreeAsserts(rq[r])
  BY <1>2
<1>14. gone # {} => (Len(tried) \in done <=> tried[Len(tried)] \in gone)
  <2>1. gone # {} => Len(tried) \in DOMAIN tried
    BY <1>1, <1>2 DEF done
  <2>2. done \subseteq DOMAIN tried
    BY DEF done
  <2> QED BY <2>1, <2>2, <1>2
<1>15. asserts' =
         (/\ asserts
          /\ \A r \in gone : FreeAsserts(rq[r])
          /\ gone # {} /\ num_requests_pending' <= 0 =>
               /\ num_requests_pending' = 0
               /\ tried[Len(tried)] \in gone
               /\ cur = NoRequest
               /\ queue = <<>>)
  BY <1>7, <1>10, <1>13, <1>14
<1>16. QueueTypeOK'
  <2>1. replies' \in [Requests -> Nat]
    BY <1>7, <1>8
  <2>2. quit_id' \in BOOLEAN /\ asserts' \in BOOLEAN
    BY <1>12, <1>15
  <2> QED BY <1>7, <1>11, <2>1, <2>2 DEF QueueTypeOK
<1> QED BY <1>3, <1>7, <1>8, <1>11, <1>12, <1>15, <1>16 DEF gone

(* Whether request r is held after a callback that leaves the counter at c *)
(* and completes the requests of the set gone.                             *)
Held(r, c, gone) == r <= c /\ replies[r] = 0 /\ r \notin gone

(* RequestInv and QueueInv after such a callback, in terms of the request  *)
(* structures rq, the current request and the queue that it leaves.        *)
RequestsSettled(c, gone, rq, cur) ==
  \A r \in Requests :
    /\ Len(rq[r].wait) = Len(rq[r].state)
    /\ r > c => rq[r] = NullRequest /\ replies[r] = 0
    /\ replies[r] = 1 => AllOver(rq[r])
    /\ r \in gone => /\ r <= c /\ replies[r] = 0
                     /\ AllOver(rq[r]) /\ FreeAsserts(rq[r])
    /\ Held(r, c, gone) => Consistent(rq[r]) /\ ~AllOver(rq[r])
    /\ Held(r, c, gone) /\ r # cur => \A i \in Running(rq[r]) : ~rq[r].wait[i]
    /\ Held(r, c, gone) /\ r # cur /\ HasWait(rq[r]) => rq[r].idx = 1

QueueSettled(c, gone, rq, cur, queue) ==
  /\ cur # NoRequest =>
       /\ Held(cur, c, gone)
       /\ HasWait(rq[cur])
       /\ Running(rq[cur]) # {}
       /\ \A k \in DOMAIN queue : cur < queue[k]
  /\ cur = NoRequest => queue = <<>>
  /\ \A k \in DOMAIN queue :
       /\ Held(queue[k], c, gone)
       /\ HasWait(rq[queue[k]])
       /\ \A l \in DOMAIN queue : k < l => queue[k] < queue[l]
  /\ \A r \in Requests :
       Held(r, c, gone) /\ HasWait(rq[r]) /\ r # cur => \E k \in DOMAIN queue : queue[k] = r
  /\ \A r, s \in Requests :
       /\ s < r /\ r <= c
       /\ HasWait(rq[r]) /\ HasWait(rq[s])
       /\ Held(s, c, gone)
       => Held(r, c, gone) /\ r # cur

(* The end of a callback re-establishes the invariant: complete_request()  *)
(* answers the requests that are over, keeps num_requests_pending right,   *)
(* arms the idle timer exactly when nothing is left, and none of its       *)
(* assertions fails.                                                       *)
LEMMA Settle ==
  ASSUME Inv, loop # "exited",
         NEW c \in 0 .. MaxRequests, NEW tried \in Seq(Requests),
         NEW rq \in [Requests -> RequestRecords],
         NEW cur \in Requests \union {NoRequest}, NEW queue \in Seq(Requests),
         NEW pending, NEW procs \in SUBSET (Requests \X (Nat \ {0})),
         \A k, l \in DOMAIN tried : tried[k] = tried[l] => k = l,
         Gone(tried, rq) # {} => tried[Len(tried)] \in Gone(tried, rq),
         CompleteRequests(tried, rq, cur, queue, pending, FALSE, TRUE),
         request_id_counter' = c, alive' = procs,
         UNCHANGED loop,
         RequestsSettled(c, Gone(tried, rq), rq, cur),
         QueueSettled(c, Gone(tried, rq), rq, cur, queue),
         \A p \in procs : p[2] \in Running(rq[p[1]]),
         pending = Cardinality({r \in Requests : r <= c /\ replies[r] = 0}),
         \E r \in Requests : r <= c /\ replies[r] = 0
  PROVE  Inv'
<1> DEFINE gone == Gone(tried, rq)
           before == {r \in Requests : r <= c /\ replies[r] = 0}
           after  == {r \in Requests : Held(r, c, gone)}
<1>1. TypeOK /\ RequestInv /\ asserts
  BY DEF Inv, NoAssertionFails
<1>2. \A r \in Requests : replies[r] \in Nat /\ replies[r] <= 1
  BY <1>1 DEF TypeOK, RequestInv
<1>3. IsFiniteSet(before) /\ Cardinality(before) \in Nat
  <2>1. IsFiniteSet(Requests)
    BY BoundsAssumption, FS_Interval DEF Requests
  <2>2. IsFiniteSet(before)
    BY <2>1, FS_Subset
  <2> QED BY <2>2, FS_CardinalityType
<1>4. /\ QueueTypeOK'
      /\ req' = rq
      /\ gone \in SUBSET Requests
      /\ \A r \in Requests : replies'[r] = replies[r] + (IF r \in gone THEN 1 ELSE 0)
      /\ current_request' = cur
      /\ requests_waiting' = queue
      /\ num_requests_pending' = pending - Cardinality(gone)
      /\ quit_id' = (gone # {} /\ num_requests_pending' <= 0 /\ ~Persist)
      /\ (/\ asserts
          /\ \A r \in gone : FreeAsserts(rq[r])
          /\ gone # {} /\ num_requests_pending' <= 0 =>
               /\ num_requests_pending' = 0
               /\ tried[Len(tried)] \in gone
               /\ cur = NoRequest
               /\ queue = <<>>) => asserts'
  <2>1. pending \in Int
    BY <1>3
  <2> QED BY <1>1, <2>1, CompleteEffect
<1> HIDE DEF gone
<1>5. RequestsSettled(c, gone, rq, cur) /\ QueueSettled(c, gone, rq, cur, queue)
  BY DEF gone
<1>6. \A r \in Requests : Pending(r)' <=> Held(r, c, gone)
  BY <1>2, <1>4 DEF Pending, Held
<1>7. before = after \union gone /\ after = before \ gone /\ after \intersect gone = {}
  BY <1>4, <1>5 DEF Held, RequestsSettled
<1>8. /\ num_requests_pending' = Cardinality(after) /\ Cardinality(after) \in Nat
      /\ Cardinality(after) = 0 <=> after = {}
  <2>1. after \in SUBSET before /\ gone \in SUBSET before
    BY <1>7
  <2>2. IsFiniteSet(after) /\ IsFiniteSet(gone)
    BY <2>1, <1>3, FS_Subset
  <2> HIDE DEF before, after
  <2>3. Cardinality(after) \in Nat /\ Cardinality(gone) \in Nat
    BY <2>2, FS_CardinalityType
  <2>4. Cardinality(before) = Cardinality(after) + Cardinality(gone)
    BY <2>2, <1>7, CardinalityDisjointUnion
  <2>5. pending = Cardinality(before)
    BY DEF before
  <2> QED BY <1>4, <2>2, <2>3, <2>4, <2>5, FS_EmptySet
<1>9. TypeOK'
  BY <1>1, <1>4 DEF TypeOK, QueueTypeOK
<1>10. RequestInv'
  <2> SUFFICES ASSUME NEW r \in Requests
               PROVE  /\ Len(rq[r].wait) = Len(rq[r].state)
                      /\ replies'[r] <= 1
                      /\ r > c => rq[r] = NullRequest /\ replies'[r] = 0
                      /\ replies'[r] = 1 => AllOver(rq[r])
                      /\ Held(r, c, gone) => Consistent(rq[r]) /\ ~AllOver(rq[r])
                      /\ Held(r, c, gone) /\ r # cur => \A i \in Running(rq[r]) : ~rq[r].wait[i]
                      /\ Held(r, c, gone) /\ r # cur /\ HasWait(rq[r]) => rq[r].idx = 1
    BY <1>4, <1>6 DEF RequestInv
  <2>1. replies'[r] = replies[r] + (IF r \in gone THEN 1 ELSE 0) /\ replies[r] \in Nat /\ replies[r] <= 1
    BY <1>2, <1>4
  <2>2. c \in Int /\ r \in Int
    BY DEF Requests
  <2> QED BY <2>1, <2>2, <1>5 DEF RequestsSettled
<1>11. QueueInv'
  <2>1. cur # NoRequest => cur \in Requests
    OBVIOUS
  <2>2. \A k \in DOMAIN queue : queue[k] \in Requests
    OBVIOUS
  <2> QED BY <2>1, <2>2, <1>4, <1>5, <1>6 DEF QueueInv, QueueSettled
<1>12. ProcessInv'
  BY <1>4 DEF ProcessInv
<1>13. CountInv'
  BY <1>6, <1>8 DEF CountInv
<1>14. gone = {} => after # {}
  BY <1>7
<1>15. TimerInv'
  <2>1. quit_id' <=> ~Persist /\ after = {}
    <3> HIDE DEF after
    <3>1. num_requests_pending' <= 0 <=> after = {}
      BY <1>8
    <3>2. quit_id' = (gone # {} /\ num_requests_pending' <= 0 /\ ~Persist)
      BY <1>4
    <3> QED BY <3>1, <3>2, <1>14, Zenon
  <2>2. after = {} <=> \A r \in Requests : ~Pending(r)'
    BY <1>6
  <2> QED BY <2>1, <2>2 DEF TimerInv, IdleTimerArmedIffIdle
<1>16. NoAssertionFails'
  <2>1. \A r \in gone : FreeAsserts(rq[r])
    BY <1>4, <1>5 DEF RequestsSettled
  <2>2. ASSUME num_requests_pending' <= 0
        PROVE  num_requests_pending' = 0 /\ cur = NoRequest /\ queue = <<>>
    <3>1. num_requests_pending' = 0 /\ after = {}
      BY <2>2, <1>8
    <3>2. cur = NoRequest
      BY <3>1, <1>5 DEF QueueSettled
    <3> QED BY <3>1, <3>2, <1>5 DEF QueueSettled
  <2>3. gone # {} => tried[Len(tried)] \in gone
    BY DEF gone
  <2> QED BY <1>1, <1>4, <2>1, <2>2, <2>3 DEF NoAssertionFails
<1> QED BY <1>9, <1>10, <1>11, <1>12, <1>13, <1>15, <1>16 DEF Inv

(* The same for a callback that completes no request. *)
LEMMA SettleNone ==
  ASSUME Inv, loop # "exited",
         NEW c \in 0 .. MaxRequests,
         NEW rq \in [Requests -> RequestRecords],
         NEW cur \in Requests \union {NoRequest}, NEW queue \in Seq(Requests),
         NEW pending, NEW procs \in SUBSET (Requests \X (Nat \ {0})),
         CompleteRequests(<<>>, rq, cur, queue, pending, FALSE, TRUE),
         request_id_counter' = c, alive' = procs,
         UNCHANGED loop,
         RequestsSettled(c, {}, rq, cur),
         QueueSettled(c, {}, rq, cur, queue),
         \A p \in procs : p[2] \in Running(rq[p[1]]),
         pending = Cardinality({r \in Requests : r <= c /\ replies[r] = 0}),
         \E r \in Requests : r <= c /\ replies[r] = 0
  PROVE  Inv'
<1> DEFINE tried == <<>>
<1>1. tried \in Seq(Requests) /\ \A k, l \in DOMAIN tried : tried[k] = tried[l] => k = l
  OBVIOUS
<1>2. Gone(tried, rq) = {}
  BY DEF Gone
<1>3. CompleteRequests(tried, rq, cur, queue, pending, FALSE, TRUE)
  OBVIOUS
<1> HIDE DEF tried
<1>4. /\ Gone(tried, rq) # {} => tried[Len(tried)] \in Gone(tried, rq)
      /\ RequestsSettled(c, Gone(tried, rq), rq, cur)
      /\ QueueSettled(c, Gone(tried, rq), rq, cur, queue)
  BY <1>2
<1> QED BY <1>1, <1>3, <1>4, Settle

-----------------------------------------------------------------------------
(* next_request() and the drain of the queue.                              *)

(* What is known of a queued request: dispatch_one_script() may be called  *)
(* for it and has the effect of DispatchEffect.                            *)
LEMMA QueuedRequest ==
  ASSUME Inv, NEW k \in DOMAIN requests_waiting, NEW rq, NEW fail,
         rq[requests_waiting[k]] = req[requests_waiting[k]]
  PROVE  LET x == requests_waiting[k]
             d == Dispatch(rq, x, fail)
         IN  /\ x \in Requests
             /\ x # current_request
             /\ d.ret \in BOOLEAN
             /\ d.q \in RequestRecords
             /\ Len(d.q.wait) = Len(d.q.state)
             /\ d.q.wait = req[x].wait
             /\ Scripts(d.q) = Scripts(req[x])
             /\ d.spawned \in SUBSET Scripts(req[x])
             /\ ~d.ret => AllOver(d.q) /\ FreeAsserts(d.q)
             /\ d.ret  => Consistent(d.q) /\ Running(d.q) # {}
             /\ Running(d.q) = Running(req[x]) \union d.spawned
<1> DEFINE x == requests_waiting[k]
           bad == {i \in Scripts(req[x]) : <<x, i>> \in fail}
<1>1. TypeOK /\ RequestInv /\ QueueInv
  BY DEF Inv
<1>2. x \in Requests /\ req[x] \in RequestRecords
  BY <1>1 DEF TypeOK
<1>3. Pending(x) /\ HasWait(req[x]) /\ x # current_request
  <2>1. current_request # NoRequest
    BY <1>1 DEF QueueInv, TypeOK
  <2>2. current_request \in Requests /\ current_request < x
    BY <1>1, <2>1 DEF QueueInv, TypeOK
  <2> QED BY <1>1, <1>2, <2>2 DEF QueueInv, Requests
<1>4. /\ Len(req[x].wait) = Len(req[x].state)
      /\ Consistent(req[x])
      /\ \A i \in Running(req[x]) : ~req[x].wait[i]
  BY <1>1, <1>2, <1>3 DEF RequestInv
<1> HIDE DEF bad
<1>5. LET d == DispatchOneScript(req[x], bad)
      IN  /\ d.ret \in BOOLEAN
          /\ d.q \in RequestRecords
          /\ Scripts(d.q) = Scripts(req[x])
          /\ Len(d.q.state) = Len(req[x].state)
          /\ d.q.wait = req[x].wait
          /\ d.spawned \subseteq Scripts(req[x])
  <2> HIDE DEF x
  <2> QED BY <1>2, DispatchType
<1>6. LET d == DispatchOneScript(req[x], bad)
      IN  /\ ~d.ret => AllOver(d.q) /\ FreeAsserts(d.q)
          /\ d.ret  => Consistent(d.q) /\ Running(d.q) # {}
          /\ Running(d.q) = Running(req[x]) \union d.spawned
  <2> HIDE DEF x
  <2> QED BY <1>2, <1>4, DispatchEffect
<1>7. Dispatch(rq, x, fail) = DispatchOneScript(req[x], bad)
  BY DEF Dispatch, bad
<1> QED BY <1>2, <1>3, <1>4, <1>5, <1>6, <1>7

(* The part of a queue before position `stop', after request r. *)
LEMMA QueueBefore ==
  ASSUME NEW S, NEW Q \in Seq(S), NEW r \in S, NEW stop \in 1 .. Len(Q) + 1
  PROVE  LET t == <<r>> \o SubSeq(Q, 1, stop - 1)
         IN  /\ t \in Seq(S)
             /\ Len(t) = stop
             /\ DOMAIN t = 1 .. stop
             /\ \A k \in 1 .. stop : t[k] = IF k = 1 THEN r ELSE Q[k - 1]
<1> DEFINE u == SubSeq(Q, 1, stop - 1)
           t == <<r>> \o u
<1>1. Len(Q) \in Nat /\ stop \in Int /\ stop >= 1 /\ \A k \in 1 .. stop - 1 : Q[k] \in S
  OBVIOUS
<1>2. u \in Seq(S) /\ Len(u) = stop - 1 /\ \A k \in 1 .. stop - 1 : u[k] = Q[k]
  BY <1>1
<1> HIDE DEF u
<1>3. <<r>> \in Seq(S) /\ Len(<<r>>) = 1 /\ <<r>>[1] = r
  OBVIOUS
<1>4. t \in Seq(S) /\ Len(t) = stop
  BY <1>1, <1>2, <1>3
<1>5. ASSUME NEW k \in 1 .. stop
      PROVE  t[k] = IF k = 1 THEN r ELSE Q[k - 1]
  BY <1>1, <1>2, <1>3
<1> HIDE DEF t
<1>6. DOMAIN t = 1 .. stop
  BY <1>4
<1> QED BY <1>4, <1>5, <1>6 DEF t, u

(* The part of a queue after position `stop'. *)
LEMMA QueueAfter ==
  ASSUME NEW S, NEW Q \in Seq(S), NEW stop \in 1 .. Len(Q) + 1
  PROVE  LET u == SubSeq(Q, stop + 1, Len(Q))
         IN  /\ u \in Seq(S)
             /\ Len(u) = IF stop > Len(Q) THEN 0 ELSE Len(Q) - stop
             /\ DOMAIN u = 1 .. Len(u)
             /\ \A k \in DOMAIN u : u[k] = Q[stop + k] /\ stop + k \in 1 .. Len(Q)
             /\ \A k \in 1 .. Len(Q) : k > stop => k - stop \in DOMAIN u /\ u[k - stop] = Q[k]
<1> DEFINE u == SubSeq(Q, stop + 1, Len(Q))
<1>1. Len(Q) \in Nat /\ stop \in Int /\ stop >= 1 /\ \A k \in stop + 1 .. Len(Q) : Q[k] \in S
  OBVIOUS
<1>2. /\ u \in Seq(S)
      /\ Len(u) = IF stop > Len(Q) THEN 0 ELSE Len(Q) - stop
      /\ \A k \in 1 .. Len(Q) - stop : u[k] = Q[stop + k]
  BY <1>1
<1> HIDE DEF u
<1>3. DOMAIN u = 1 .. Len(u)
  BY <1>2
<1>4. \A k \in DOMAIN u : u[k] = Q[stop + k] /\ stop + k \in 1 .. Len(Q)
  BY <1>1, <1>2, <1>3
<1>5. ASSUME NEW k \in 1 .. Len(Q), k > stop
      PROVE  k - stop \in DOMAIN u /\ u[k - stop] = Q[k]
  <2>1. k - stop \in DOMAIN u /\ stop + (k - stop) = k
    BY <1>1, <1>2, <1>3, <1>5
  <2> QED BY <2>1, <1>4
<1> QED BY <1>2, <1>3, <1>4, <1>5 DEF u

(* After the current request r is over, the loop over the queue preserves  *)
(* the invariant: it ends with a current request that has a script         *)
(* running, or with an empty queue.                                        *)
LEMMA NextRequestsInv ==
  ASSUME Inv, loop # "exited",
         NEW r \in Requests, current_request = r,
         NEW rq \in [Requests -> RequestRecords], NEW procs \in SUBSET alive, NEW fail,
         \A x \in Requests \ {r} : rq[x] = req[x],
         Len(rq[r].wait) = Len(rq[r].state),
         AllOver(rq[r]), FreeAsserts(rq[r]),
         \A p \in procs : p[1] # r,
         UNCHANGED <<request_id_counter, loop>>,
         NextRequests(r, rq, procs, fail, TRUE)
  PROVE  Inv'
<1> DEFINE Q     == requests_waiting
           n     == Len(Q)
           d(x)  == Dispatch(rq, x, fail)
           stops == {k \in 1 .. n : d(Q[k]).ret}
           stop  == IF stops = {} THEN n + 1 ELSE Min(stops)
           taken == {Q[k] : k \in {l \in 1 .. n : l <= stop}}
           tried == <<r>> \o SubSeq(Q, 1, stop - 1)
           rq2   == [x \in Requests |-> IF x \in taken THEN d(x).q ELSE rq[x]]
           cur   == IF stops = {} THEN NoRequest ELSE Q[stop]
           queue == SubSeq(Q, stop + 1, n)
           procs2 == procs \union UNION {{x} \X d(x).spawned : x \in taken}
           gone  == {r} \union {Q[k] : k \in {l \in 1 .. n : l < stop}}
<1>1. TypeOK /\ RequestInv /\ QueueInv /\ ProcessInv /\ CountInv /\ TimerInv
  BY DEF Inv
<1>2. /\ Q \in Seq(Requests) /\ n \in Nat /\ DOMAIN Q = 1 .. n
      /\ \A k \in 1 .. n : Q[k] \in Requests
      /\ request_id_counter \in 0 .. MaxRequests
      /\ req \in [Requests -> RequestRecords]
      /\ replies \in [Requests -> Nat]
      /\ r \in Int /\ r # NoRequest /\ \A x \in Requests : x \in Int /\ x # NoRequest
  BY <1>1, BoundsAssumption DEF TypeOK, Requests
<1>3. /\ Pending(r) /\ HasWait(req[r])
      /\ \A k \in 1 .. n : Pending(Q[k]) /\ HasWait(req[Q[k]]) /\ r < Q[k]
      /\ \A k, l \in 1 .. n : k < l => Q[k] < Q[l]
      /\ \A x \in Requests : Pending(x) /\ HasWait(req[x]) /\ x # r => \E k \in 1 .. n : Q[k] = x
  BY <1>1, <1>2 DEF QueueInv
<1>4. \A k, l \in 1 .. n : Q[k] = Q[l] => k = l
  <2> SUFFICES ASSUME NEW k \in 1 .. n, NEW l \in 1 .. n, Q[k] = Q[l], k < l
               PROVE  FALSE
    BY <1>2
  <2>1. Q[k] < Q[l] /\ Q[k] \in Int
    BY <1>2, <1>3
  <2> QED BY <2>1
<1>5. ASSUME NEW k \in 1 .. n
      PROVE  /\ Q[k] # r
             /\ d(Q[k]).ret \in BOOLEAN
             /\ d(Q[k]).q \in RequestRecords
             /\ Len(d(Q[k]).q.wait) = Len(d(Q[k]).q.state)
             /\ d(Q[k]).q.wait = req[Q[k]].wait
             /\ Scripts(d(Q[k]).q) = Scripts(req[Q[k]])
             /\ d(Q[k]).spawned \in SUBSET Scripts(req[Q[k]])
             /\ ~d(Q[k]).ret => AllOver(d(Q[k]).q) /\ FreeAsserts(d(Q[k]).q)
             /\ d(Q[k]).ret  => Consistent(d(Q[k]).q) /\ Running(d(Q[k]).q) # {}
             /\ Running(d(Q[k]).q) = Running(req[Q[k]]) \union d(Q[k]).spawned
  <2>1. Q[k] # r /\ k \in DOMAIN requests_waiting
    BY <1>2, <1>3
  <2>2. rq[requests_waiting[k]] = req[requests_waiting[k]]
    BY <2>1, <1>2
  <2> QED BY <2>1, <2>2, QueuedRequest
<1> HIDE DEF d
<1>6. /\ stop \in 1 .. n + 1
      /\ stop <= n <=> stops # {}
      /\ stops # {} => d(Q[stop]).ret
      /\ \A k \in 1 .. n : k < stop => ~d(Q[k]).ret
  <2>1. CASE stops = {}
    <3>1. stop = n + 1
      BY <2>1
    <3> QED BY <3>1, <2>1, <1>2
  <2>2. CASE stops # {}
    <3>1. stops \in SUBSET Nat
      BY <1>2
    <3>2. Min(stops) \in stops /\ \A k \in stops : Min(stops) <= k
      <4> HIDE DEF stops
      <4> QED BY <3>1, <2>2, MinProperties
    <3>3. stop \in stops /\ \A k \in stops : stop <= k
      BY <3>2, <2>2
    <3> HIDE DEF stop
    <3> QED BY <3>3, <2>2, <1>2
  <2> QED BY <2>1, <2>2
<1> HIDE DEF stop, stops
<1>7. /\ queue \in Seq(Requests)
      /\ Len(queue) = IF stop > n THEN 0 ELSE n - stop
      /\ DOMAIN queue = 1 .. Len(queue)
      /\ \A k \in DOMAIN queue : queue[k] = Q[stop + k] /\ stop + k \in 1 .. n
      /\ \A k \in 1 .. n : k > stop => k - stop \in DOMAIN queue /\ queue[k - stop] = Q[k]
  <2>1. stop \in 1 .. Len(Q) + 1 /\ Q \in Seq(Requests)
    BY <1>2, <1>6
  <2> HIDE DEF Q
  <2> QED BY <2>1, QueueAfter, Zenon
<1> HIDE DEF queue
<1>8. /\ tried \in Seq(Requests)
      /\ Len(tried) = stop /\ DOMAIN tried = 1 .. stop
      /\ \A k \in 1 .. stop : tried[k] = IF k = 1 THEN r ELSE Q[k - 1]
  BY <1>2, <1>6, QueueBefore
<1> HIDE DEF tried
<1>9. \A k, l \in DOMAIN tried : tried[k] = tried[l] => k = l
  <2> SUFFICES ASSUME NEW k \in 1 .. stop, NEW l \in 1 .. stop, tried[k] = tried[l]
               PROVE  k = l
    BY <1>8
  <2>1. k # 1 => k - 1 \in 1 .. n /\ tried[k] = Q[k - 1]
    BY <1>8, <1>6, <1>2
  <2>2. l # 1 => l - 1 \in 1 .. n /\ tried[l] = Q[l - 1]
    BY <1>8, <1>6, <1>2
  <2>3. (k = 1 => tried[k] = r) /\ (l = 1 => tried[l] = r)
    BY <1>8
  <2>4. \A m \in 1 .. n : Q[m] # r
    BY <1>5
  <2>5. CASE k # 1 /\ l # 1
    <3>1. k - 1 = l - 1
      BY <2>5, <2>1, <2>2, <1>4
    <3> QED BY <3>1, <1>6, <1>2
  <2> QED BY <2>1, <2>2, <2>3, <2>4, <2>5
<1>10. /\ rq2 \in [Requests -> RequestRecords]
       /\ rq2[r] = rq[r]
       /\ \A k \in 1 .. n : k <= stop => rq2[Q[k]] = d(Q[k]).q
       /\ \A x \in Requests : rq2[x] = IF x \in taken THEN d(x).q ELSE rq[x]
  <2>1. \A x \in taken : d(x).q \in RequestRecords
    BY <1>5
  <2>2. r \notin taken
    BY <1>5
  <2>3. \A k \in 1 .. n : k <= stop => Q[k] \in taken
    OBVIOUS
  <2> HIDE DEF taken
  <2> QED BY <2>1, <2>2, <2>3, <1>2
<1> HIDE DEF rq2
<1>11. ASSUME NEW x \in gone
       PROVE  /\ x \in Requests /\ Pending(x) /\ HasWait(req[x])
              /\ AllOver(rq2[x]) /\ FreeAsserts(rq2[x]) /\ AllScriptsDone(rq2[x])
  <2>1. CASE x = r
    <3>1. AllOver(rq2[x]) /\ FreeAsserts(rq2[x])
      BY <2>1, <1>10
    <3> QED BY <2>1, <3>1, <1>3, <1>10, ScriptSets DEF FreeAsserts, AllScriptsDone
  <2>2. CASE x # r
    <3>1. PICK k \in 1 .. n : x = Q[k] /\ k < stop
      BY <2>2
    <3>2. rq2[x] = d(x).q /\ ~d(x).ret
      BY <3>1, <1>6, <1>10, <1>2
    <3>3. AllOver(rq2[x]) /\ FreeAsserts(rq2[x])
      BY <3>1, <3>2, <1>5
    <3> QED BY <3>1, <3>3, <1>2, <1>3, <1>10, ScriptSets DEF FreeAsserts, AllScriptsDone
  <2> QED BY <2>1, <2>2
<1>12. Gone(tried, rq2) = gone
  <2>1. \A k \in DOMAIN tried : tried[k] \in gone
    <3> SUFFICES ASSUME NEW k \in 1 .. stop PROVE tried[k] \in gone
      BY <1>8
    <3>1. k # 1 => k - 1 \in 1 .. n /\ k - 1 < stop /\ tried[k] = Q[k - 1]
      BY <1>8, <1>6, <1>2
    <3>2. k = 1 => tried[k] = r
      BY <1>8
    <3> QED BY <3>1, <3>2
  <2>2. \A x \in gone : \E k \in DOMAIN tried : tried[k] = x
    <3> SUFFICES ASSUME NEW x \in gone PROVE \E k \in 1 .. stop : tried[k] = x
      BY <1>8
    <3>1. CASE x = r
      BY <3>1, <1>8, <1>6
    <3>2. CASE x # r
      <4>1. PICK k \in 1 .. n : x = Q[k] /\ k < stop
        BY <3>2
      <4>2. k + 1 \in 1 .. stop /\ k + 1 # 1 /\ (k + 1) - 1 = k
        BY <4>1, <1>6, <1>2
      <4> QED BY <4>1, <4>2, <1>8
    <3> QED BY <3>1, <3>2
  <2>3. \A k \in DOMAIN tried : AllScriptsDone(rq2[tried[k]])
    BY <2>1, <1>11
  <2> HIDE DEF gone
  <2> QED BY <2>1, <2>2, <2>3 DEF Gone
<1>13. tried[Len(tried)] \in Gone(tried, rq2)
  <2>1. Len(tried) \in DOMAIN tried
    BY <1>8, <1>6
  <2>2. \A k \in DOMAIN tried : tried[k] \in gone
    <3> SUFFICES ASSUME NEW k \in 1 .. stop PROVE tried[k] \in gone
      BY <1>8
    <3>1. k # 1 => k - 1 \in 1 .. n /\ k - 1 < stop /\ tried[k] = Q[k - 1]
      BY <1>8, <1>6, <1>2
    <3>2. k = 1 => tried[k] = r
      BY <1>8
    <3> QED BY <3>1, <3>2
  <2> QED BY <2>1, <2>2, <1>12
<1> DEFINE c == request_id_counter
<1>14. \A x \in Requests : Held(x, c, gone) <=> Pending(x) /\ x \notin gone
  BY DEF Held, Pending
<1>15. \A x \in Requests : rq2[x].wait = IF x = r THEN rq[r].wait ELSE req[x].wait
  <2> SUFFICES ASSUME NEW x \in Requests, x # r PROVE rq2[x].wait = req[x].wait
    BY <1>10
  <2>1. CASE x \in taken
    BY <2>1, <1>5, <1>10
  <2>2. CASE x \notin taken
    BY <2>2, <1>10
  <2> QED BY <2>1, <2>2
<1>16. \A x \in Requests : x # r => (HasWait(rq2[x]) <=> HasWait(req[x]))
  <2> SUFFICES ASSUME NEW x \in Requests, x # r PROVE HasWait(rq2[x]) <=> HasWait(req[x])
    OBVIOUS
  <2>1. Scripts(rq2[x]) = Scripts(req[x])
    <3>1. CASE x \in taken
      BY <3>1, <1>5, <1>10
    <3>2. CASE x \notin taken
      BY <3>2, <1>10
    <3> QED BY <3>1, <3>2
  <2> QED BY <2>1, <1>15 DEF HasWait
<1>17. /\ stops # {} => Q[stop] \in Requests \ gone /\ stop \in 1 .. n
       /\ \A k \in 1 .. n : k > stop => Q[k] \notin gone /\ Q[k] \notin taken /\ Q[k] # Q[stop]
       /\ \A k \in 1 .. n : k < stop => Q[k] \in gone
       /\ r \in gone
  <2>1. \A k, l \in 1 .. n : k # l => Q[k] # Q[l]
    BY <1>4
  <2>2. \A k \in 1 .. n : Q[k] # r
    BY <1>5
  <2>3. stop \in Int /\ stop >= 1 /\ (stops # {} => stop \in 1 .. n)
    BY <1>6, <1>2
  <2>4. ASSUME NEW k \in 1 .. n, k > stop
        PROVE  Q[k] \notin gone /\ Q[k] \notin taken /\ Q[k] # Q[stop]
    <3>1. \A l \in 1 .. n : l <= stop => Q[k] # Q[l]
      BY <2>1, <2>3, <2>4
    <3>2. stop \in 1 .. n
      BY <2>3, <2>4, <1>2
    <3> QED BY <3>1, <3>2, <2>2, <2>3
  <2>5. stops # {} => Q[stop] \in Requests \ gone
    <3> SUFFICES ASSUME stops # {} PROVE Q[stop] \in Requests \ gone
      OBVIOUS
    <3>1. \A l \in 1 .. n : l < stop => Q[l] # Q[stop]
      BY <2>1, <2>3
    <3> QED BY <3>1, <2>2, <2>3, <1>2
  <2> QED BY <2>3, <2>4, <2>5
<1>18. RequestsSettled(c, gone, rq2, cur)
  <2> SUFFICES ASSUME NEW x \in Requests
               PROVE  /\ Len(rq2[x].wait) = Len(rq2[x].state)
                      /\ x > c => rq2[x] = NullRequest /\ replies[x] = 0
                      /\ replies[x] = 1 => AllOver(rq2[x])
                      /\ x \in gone => /\ x <= c /\ replies[x] = 0
                                       /\ AllOver(rq2[x]) /\ FreeAsserts(rq2[x])
                      /\ Held(x, c, gone) => Consistent(rq2[x]) /\ ~AllOver(rq2[x])
                      /\ Held(x, c, gone) /\ x # cur => \A i \in Running(rq2[x]) : ~rq2[x].wait[i]
                      /\ Held(x, c, gone) /\ x # cur /\ HasWait(rq2[x]) => rq2[x].idx = 1
    BY DEF RequestsSettled
  <2>1. CASE x \in gone
    <3>1. AllOver(rq2[x]) /\ FreeAsserts(rq2[x]) /\ Pending(x)
      BY <2>1, <1>11
    <3>2. x <= c /\ replies[x] = 0 /\ ~(x > c)
      BY <3>1, <1>2 DEF Pending
    <3>3. Len(rq2[x].wait) = Len(rq2[x].state)
      <4>1. CASE x = r
        BY <4>1, <1>10
      <4>2. CASE x # r
        <5>1. PICK k \in 1 .. n : x = Q[k] /\ k < stop
          BY <4>2, <2>1
        <5>2. rq2[x] = d(x).q
          BY <5>1, <1>6, <1>10, <1>2
        <5> QED BY <5>1, <5>2, <1>5
      <4> QED BY <4>1, <4>2
    <3> QED BY <2>1, <3>1, <3>2, <3>3 DEF Held
  <2>2. CASE stops # {} /\ x = Q[stop]
    <3>1. stop \in 1 .. n /\ rq2[x] = d(x).q /\ d(x).ret /\ cur = x /\ x \notin gone
      BY <2>2, <1>6, <1>10, <1>17, <1>2
    <3>2. Len(rq2[x].wait) = Len(rq2[x].state) /\ Consistent(rq2[x]) /\ Running(rq2[x]) # {}
      BY <3>1, <2>2, <1>5
    <3>3. ~AllOver(rq2[x])
      BY <3>2 DEF Running, AllOver, Over, Results
    <3>4. x <= c /\ replies[x] = 0
      BY <2>2, <3>1, <1>3 DEF Pending
    <3> QED BY <3>1, <3>2, <3>3, <3>4, <1>2
  <2>3. CASE x \notin gone /\ ~(stops # {} /\ x = Q[stop])
    <3>1. x # r /\ x \notin taken
      <4>1. x # r
        BY <2>3
      <4>2. \A k \in 1 .. n : k <= stop => Q[k] # x
        BY <2>3, <1>6, <1>17, <1>2
      <4> QED BY <4>1, <4>2
    <3>2. rq2[x] = req[x]
      BY <3>1, <1>10
    <3> QED BY <2>3, <3>1, <3>2, <1>1, <1>14 DEF RequestInv
  <2> QED BY <2>1, <2>2, <2>3
<1>19. QueueSettled(c, gone, rq2, cur, queue)
  <2>1. ASSUME NEW k \in DOMAIN queue
        PROVE  /\ queue[k] \in Requests
               /\ Held(queue[k], c, gone)
               /\ HasWait(rq2[queue[k]])
               /\ stops # {} /\ cur < queue[k]
               /\ \A l \in DOMAIN queue : k < l => queue[k] < queue[l]
    <3>0. k \in Int /\ k >= 1 /\ stop \in Int /\ stop >= 1
      <4>1. DOMAIN queue = 1 .. Len(queue)
        BY <1>7
      <4>2. stop \in Int /\ stop >= 1
        BY <1>6, <1>2
      <4> QED BY <4>1, <4>2
    <3>1. queue[k] = Q[stop + k] /\ stop + k \in 1 .. n /\ stop + k > stop /\ stop \in 1 .. n
      <4>1. queue[k] = Q[stop + k] /\ stop + k \in 1 .. n
        BY <1>7
      <4> QED BY <4>1, <3>0, <1>2
    <3>2. Held(queue[k], c, gone)
      BY <3>1, <1>3, <1>14, <1>17, <1>2
    <3>3. HasWait(rq2[queue[k]])
      BY <3>1, <1>3, <1>16, <1>5, <1>2
    <3>4. stops # {} /\ cur < queue[k]
      BY <3>1, <1>6, <1>3, <1>2
    <3>5. ASSUME NEW l \in DOMAIN queue, k < l PROVE queue[k] < queue[l]
      <4>1. queue[l] = Q[stop + l] /\ stop + l \in 1 .. n /\ stop + k < stop + l
        <5>1. l \in Int
          BY <1>7
        <5> QED BY <5>1, <3>0, <3>5, <1>7
      <4> QED BY <4>1, <3>1, <1>3
    <3> QED BY <3>1, <3>2, <3>3, <3>4, <3>5, <1>2
  <2>2. cur # NoRequest => /\ Held(cur, c, gone)
                           /\ HasWait(rq2[cur])
                           /\ Running(rq2[cur]) # {}
    <3> SUFFICES ASSUME stops # {}
                 PROVE  /\ Held(Q[stop], c, gone)
                        /\ HasWait(rq2[Q[stop]])
                        /\ Running(rq2[Q[stop]]) # {}
      OBVIOUS
    <3>1. stop \in 1 .. n /\ Q[stop] \in Requests /\ Q[stop] \notin gone /\ Q[stop] # r
      BY <1>17, <1>5
    <3>2. rq2[Q[stop]] = d(Q[stop]).q /\ d(Q[stop]).ret
      BY <3>1, <1>6, <1>10, <1>2
    <3> QED BY <3>1, <3>2, <1>3, <1>5, <1>14, <1>16
  <2>3. cur = NoRequest => queue = <<>>
    <3> SUFFICES ASSUME cur = NoRequest PROVE queue = <<>>
      OBVIOUS
    <3>1. stops = {}
      BY <1>17, <1>2
    <3>2. stop > n
      BY <3>1, <1>6, <1>2
    <3>3. Len(queue) = 0
      BY <3>2, <1>7
    <3> QED BY <3>3, <1>7
  <2>4. ASSUME NEW x \in Requests, Held(x, c, gone), HasWait(rq2[x]), x # cur
        PROVE  \E k \in DOMAIN queue : queue[k] = x
    <3>1. Pending(x) /\ x \notin gone /\ x # r
      BY <2>4, <1>14, <1>17
    <3>2. PICK k \in 1 .. n : Q[k] = x
      BY <3>1, <2>4, <1>16, <1>3
    <3>3. k > stop
      <4>1. k \in Int /\ stop \in Int /\ ~(k < stop)
        BY <3>1, <3>2, <1>6, <1>17, <1>2
      <4>2. k # stop
        <5>1. CASE stops = {}
          BY <5>1, <1>6, <1>2
        <5>2. CASE stops # {}
          BY <5>2, <3>2, <2>4
        <5> QED BY <5>1, <5>2
      <4> QED BY <4>1, <4>2
    <3> QED BY <3>2, <3>3, <1>7
  <2>5. ASSUME NEW x \in Requests, NEW y \in Requests, y < x, x <= c,
               HasWait(rq2[x]), HasWait(rq2[y]), Held(y, c, gone)
        PROVE  Held(x, c, gone) /\ x # cur
    <3>1. Pending(y) /\ y \notin gone /\ y # r /\ HasWait(req[y])
      BY <2>5, <1>14, <1>16, <1>17
    <3>2. PICK k \in 1 .. n : Q[k] = y
      BY <3>1, <1>3
    <3>3. r < y /\ x # r
      BY <3>2, <1>3, <1>2, <2>5
    <3>4. Pending(x)
      BY <3>1, <3>3, <2>5, <1>16, <1>1, <1>2 DEF QueueInv
    <3>5. PICK l \in 1 .. n : Q[l] = x
      BY <3>3, <3>4, <2>5, <1>16, <1>3
    <3>6. k < l
      <4>1. ~(l < k)
        <5>1. SUFFICES ASSUME l < k PROVE FALSE
          OBVIOUS
        <5>2. Q[l] < Q[k]
          BY <5>1, <1>3
        <5> QED BY <5>2, <3>2, <3>5, <2>5 DEF Requests
      <4>2. l # k
        <5>1. y \in Nat /\ x \in Nat
          BY DEF Requests
        <5> QED BY <5>1, <3>2, <3>5, <2>5
      <4> QED BY <4>1, <4>2
    <3>7. k >= stop
      BY <3>1, <3>2, <1>17, <1>6
    <3>8. l > stop
      BY <3>6, <3>7, <1>6
    <3>9. x \notin gone /\ x # Q[stop]
      BY <3>8, <3>5, <1>17
    <3>10. x # cur
      BY <3>9, <1>2
    <3> QED BY <3>4, <3>9, <3>10, <1>14
  <2> HIDE DEF cur, gone
  <2> QED BY <2>1, <2>2, <2>3, <2>4, <2>5 DEF QueueSettled
<1>20. /\ procs2 \in SUBSET (Requests \X (Nat \ {0}))
       /\ \A p \in procs2 : p[2] \in Running(rq2[p[1]])
  <2> SUFFICES ASSUME NEW p \in procs2
               PROVE  p \in Requests \X (Nat \ {0}) /\ p[2] \in Running(rq2[p[1]])
    OBVIOUS
  <2>1. CASE p \in procs
    <3>1. p \in alive /\ p \in Requests \X (Nat \ {0}) /\ p[2] \in Running(req[p[1]]) /\ p[1] # r
      BY <2>1, <1>1 DEF ProcessInv, TypeOK
    <3>2. CASE p[1] \in taken
      <4>1. PICK k \in 1 .. n : p[1] = Q[k] /\ k <= stop
        BY <3>2
      <4>2. rq2[Q[k]] = d(Q[k]).q
        BY <4>1, <1>10
      <4> QED BY <4>1, <4>2, <3>1, <1>5
    <3>3. CASE p[1] \notin taken
      BY <3>1, <3>3, <1>10
    <3> QED BY <3>1, <3>2, <3>3
  <2>2. CASE p \notin procs
    <3>1. PICK x \in taken : p \in {x} \X d(x).spawned
      BY <2>2
    <3>2. x \in Requests /\ d(x).spawned \in SUBSET Scripts(req[x]) /\ d(x).spawned \subseteq Running(rq2[x])
      BY <3>1, <1>5, <1>10, <1>2
    <3>3. Scripts(req[x]) \subseteq Nat \ {0}
      <4>1. req[x] \in RequestRecords
        BY <3>2, <1>2
      <4>2. Len(req[x].state) \in Nat /\ Scripts(req[x]) = 1 .. Len(req[x].state)
        BY <4>1, ScriptSets
      <4> QED BY <4>2
    <3> QED BY <3>1, <3>2, <3>3
  <2> QED BY <2>1, <2>2
<1>21. num_requests_pending = Cardinality({x \in Requests : x <= c /\ replies[x] = 0})
  BY <1>1 DEF CountInv, Pending
<1>22. quit_id = FALSE
  BY <1>1, <1>3 DEF TimerInv, TypeOK
<1>23. CompleteRequests(tried, rq2, cur, queue, num_requests_pending, FALSE, TRUE) /\ alive' = procs2
  BY <1>22 DEF NextRequests, tried, rq2, queue, stop, stops, d
<1>24. cur \in Requests \union {NoRequest}
  BY <1>17
<1>25. \E x \in Requests : x <= c /\ replies[x] = 0
  BY <1>3 DEF Pending
<1>26. c \in 0 .. MaxRequests /\ request_id_counter' = c
  BY <1>2
<1> HIDE DEF cur, gone, procs2, c
<1> QED
  BY <1>7, <1>8, <1>9, <1>10, <1>12, <1>13, <1>18, <1>19, <1>20, <1>21, <1>23, <1>24, <1>25, <1>26, Settle

-----------------------------------------------------------------------------
(* complete_script()                                                       *)

(* A request that has a script running is pending: no event source refers  *)
(* to a request that was freed.                                            *)
LEMMA RunningIsPending ==
  ASSUME Inv, NEW r \in Requests, NEW i \in Running(req[r])
  PROVE  /\ Pending(r) /\ quit_id = FALSE
         /\ req[r] \in RequestRecords
         /\ Len(req[r].wait) = Len(req[r].state)
         /\ Consistent(req[r])
         /\ i \in Scripts(req[r]) /\ req[r].state[i] = "running"
         /\ req[r].wait[i] => r = current_request
<1>1. TypeOK /\ RequestInv /\ TimerInv
  BY DEF Inv
<1>2. req[r] # NullRequest /\ ~AllOver(req[r])
  BY DEF Running, NullRequest, Scripts, AllOver, Over, Results
<1>3. Pending(r)
  BY <1>1, <1>2 DEF RequestInv, TypeOK, Pending, Requests
<1> QED BY <1>1, <1>3 DEF RequestInv, TimerInv, TypeOK, Running

(* complete_script() preserves the invariant, whether it resumes the       *)
(* current request, moves on to the queue or completes a "no-wait" request *)
(* beside it.  Both callbacks of a running script end in it.               *)
LEMMA CompleteScriptInv ==
  ASSUME Inv, loop # "exited",
         NEW r \in Requests, NEW i \in Running(req[r]), NEW result \in Results, NEW fail,
         CompleteScript(r, i, [req EXCEPT ![r] = ScriptOver(req[r], i, result)],
                        alive \ {<<r, i>>}, fail),
         UNCHANGED <<request_id_counter, loop>>
  PROVE  Inv'
<1> DEFINE c     == request_id_counter
           o     == ScriptOver(req[r], i, result)
           rq    == [req EXCEPT ![r] = o]
           wait  == req[r].wait[i]
           step  == Dispatch(rq, r, fail)
           rq2   == [rq EXCEPT ![r] = step.q]
           procs == alive \ {<<r, i>>}
           goOn  == wait \/ ResumesCurrent(r, o)
<1>1. TypeOK /\ RequestInv /\ QueueInv /\ ProcessInv /\ CountInv
  BY DEF Inv
<1>2. /\ Pending(r) /\ quit_id = FALSE
      /\ req[r] \in RequestRecords
      /\ Len(req[r].wait) = Len(req[r].state)
      /\ Consistent(req[r])
      /\ i \in Scripts(req[r]) /\ req[r].state[i] = "running"
      /\ wait => r = current_request
  BY RunningIsPending
<1>3. /\ o \in RequestRecords
      /\ Scripts(o) = Scripts(req[r])
      /\ Len(o.state) = Len(req[r].state)
      /\ o.wait = req[r].wait
      /\ o.idx = req[r].idx
      /\ Running(o) = Running(req[r]) \ {i}
      /\ Consistent(o)
      /\ \A k \in Running(o) : ~req[r].wait[k]
  BY <1>2, ScriptOverEffect
<1> HIDE DEF o
<1>4. /\ req \in [Requests -> RequestRecords]
      /\ rq \in [Requests -> RequestRecords]
      /\ rq[r] = o
      /\ \A x \in Requests \ {r} : rq[x] = req[x]
      /\ c \in 0 .. MaxRequests
      /\ current_request \in Requests \union {NoRequest}
      /\ requests_waiting \in Seq(Requests)
      /\ \A k \in DOMAIN requests_waiting : requests_waiting[k] \in Requests
      /\ \A x \in Requests : x # NoRequest
  BY <1>1, <1>3, BoundsAssumption DEF TypeOK, Requests
<1>5. CompleteScript(r, i, rq, procs, fail)
  BY DEF o
<1> HIDE DEF rq
<1>6. LET d == Dispatch(rq, r, fail)
      IN  /\ d.ret \in BOOLEAN
          /\ d.q \in RequestRecords
          /\ Scripts(d.q) = Scripts(req[r])
          /\ Len(d.q.state) = Len(d.q.wait)
          /\ d.q.wait = req[r].wait
          /\ d.spawned \subseteq Scripts(req[r])
          /\ ~d.ret => AllOver(d.q) /\ FreeAsserts(d.q)
          /\ d.ret  => Consistent(d.q) /\ Running(d.q) # {}
          /\ Running(d.q) = Running(o) \union d.spawned
  <2> DEFINE bad == {k \in Scripts(o) : <<r, k>> \in fail}
  <2>1. Dispatch(rq, r, fail) = DispatchOneScript(o, bad)
    BY <1>4 DEF Dispatch
  <2> HIDE DEF bad
  <2>2. Len(o.wait) = Len(o.state) /\ \A k \in Running(o) : ~o.wait[k]
    BY <1>2, <1>3
  <2>3. LET d == DispatchOneScript(o, bad)
        IN  /\ d.ret \in BOOLEAN
            /\ d.q \in RequestRecords
            /\ Scripts(d.q) = Scripts(o)
            /\ Len(d.q.state) = Len(o.state)
            /\ d.q.wait = o.wait
            /\ d.spawned \subseteq Scripts(o)
    BY <1>3, DispatchType
  <2>4. LET d == DispatchOneScript(o, bad)
        IN  /\ ~d.ret => AllOver(d.q) /\ FreeAsserts(d.q)
            /\ d.ret  => Consistent(d.q) /\ Running(d.q) # {}
            /\ Running(d.q) = Running(o) \union d.spawned
    BY <1>3, <2>2, DispatchEffect
  <2> QED BY <2>1, <2>2, <2>3, <2>4, <1>2, <1>3
<1>7. goOn => r = current_request
  BY <1>2 DEF ResumesCurrent
<1>8. /\ rq2 \in [Requests -> RequestRecords]
      /\ rq2[r] = step.q
      /\ \A x \in Requests \ {r} : rq2[x] = req[x]
  BY <1>4, <1>6
<1>9. /\ procs \in SUBSET alive
      /\ procs \in SUBSET (Requests \X (Nat \ {0}))
      /\ \A p \in procs : p[2] \in Running(rq[p[1]])
  <2> SUFFICES ASSUME NEW p \in procs
               PROVE  p \in Requests \X (Nat \ {0}) /\ p[2] \in Running(rq[p[1]])
    OBVIOUS
  <2>1. p \in Requests \X (Nat \ {0}) /\ p[2] \in Running(req[p[1]]) /\ p # <<r, i>>
    BY <1>1 DEF TypeOK, ProcessInv
  <2>2. CASE p[1] = r
    BY <2>1, <2>2, <1>3, <1>4
  <2>3. CASE p[1] # r
    BY <2>1, <2>3, <1>4
  <2> QED BY <2>1, <2>2, <2>3
<1>10. num_requests_pending = Cardinality({x \in Requests : x <= c /\ replies[x] = 0})
  BY <1>1 DEF CountInv, Pending
<1>11. \E x \in Requests : x <= c /\ replies[x] = 0
  BY <1>2 DEF Pending
<1>12. ASSUME NEW q, q.wait = req[r].wait, Scripts(q) = Scripts(req[r])
       PROVE  HasWait(q) <=> HasWait(req[r])
  BY <1>12 DEF HasWait
<1> HIDE DEF rq2
<1>13. CASE goOn /\ step.ret
  <2> DEFINE procs2 == procs \union ({r} \X step.spawned)
  <2>1. CompleteRequests(<<>>, rq2, current_request, requests_waiting,
                         num_requests_pending, FALSE, TRUE) /\ alive' = procs2
    BY <1>13, <1>5, <1>2, <1>3, <1>4 DEF CompleteScript, rq2
  <2>3. HasWait(rq2[r]) <=> HasWait(req[r])
    BY <1>6, <1>8, <1>12
  <2>4. Consistent(rq2[r]) /\ Running(rq2[r]) # {} /\ ~AllOver(rq2[r]) /\ Len(rq2[r].wait) = Len(rq2[r].state)
    BY <1>13, <1>6, <1>8 DEF AllOver, Running, Over, Results
  <2>5. \A x \in Requests : Held(x, c, {}) <=> Pending(x)
    BY DEF Held, Pending
  <2>6. RequestsSettled(c, {}, rq2, current_request)
    <3> SUFFICES ASSUME NEW x \in Requests
                 PROVE  /\ Len(rq2[x].wait) = Len(rq2[x].state)
                        /\ x > c => rq2[x] = NullRequest /\ replies[x] = 0
                        /\ replies[x] = 1 => AllOver(rq2[x])
                        /\ Pending(x) => Consistent(rq2[x]) /\ ~AllOver(rq2[x])
                        /\ Pending(x) /\ x # current_request =>
                             \A k \in Running(rq2[x]) : ~rq2[x].wait[k]
                        /\ Pending(x) /\ x # current_request /\ HasWait(rq2[x]) => rq2[x].idx = 1
      BY <2>5 DEF RequestsSettled
    <3>1. CASE x = r
      <4>1. x = current_request /\ ~(x > c) /\ replies[x] # 1
        BY <3>1, <1>13, <1>7, <1>2, <1>4 DEF Pending, Requests
      <4> QED BY <3>1, <4>1, <2>4
    <3>2. CASE x # r
      BY <3>2, <1>8, <1>1 DEF RequestInv
    <3> QED BY <3>1, <3>2
  <2>7. \A x \in Requests : HasWait(rq2[x]) <=> HasWait(req[x])
    BY <2>3, <1>8
  <2>8. QueueSettled(c, {}, rq2, current_request, requests_waiting)
    <3>1. current_request = r
      BY <1>13, <1>7
    <3> QED BY <3>1, <2>4, <2>5, <2>7, <1>1, <1>4 DEF QueueSettled, QueueInv
  <2>9. /\ procs2 \in SUBSET (Requests \X (Nat \ {0}))
        /\ \A p \in procs2 : p[2] \in Running(rq2[p[1]])
    <3>1. step.spawned \subseteq Nat \ {0}
      <4>1. Len(req[r].state) \in Nat /\ Scripts(req[r]) = 1 .. Len(req[r].state)
        BY <1>2, ScriptSets
      <4> QED BY <4>1, <1>6
    <3>2. Running(rq2[r]) = Running(rq[r]) \union step.spawned
      BY <1>4, <1>6, <1>8
    <3>3. ASSUME NEW p \in procs PROVE p[2] \in Running(rq2[p[1]])
      <4>1. p[1] \in Requests /\ p[2] \in Running(rq[p[1]])
        BY <1>9
      <4>2. CASE p[1] = r
        <5>1. p[2] \in Running(rq[r])
          BY <4>1, <4>2
        <5> HIDE DEF procs, step
        <5> QED BY <5>1, <4>2, <3>2, Zenon
      <4>3. CASE p[1] # r
        <5>1. rq2[p[1]] = rq[p[1]]
          BY <4>1, <4>3, <1>4, <1>8
        <5> QED BY <5>1, <4>1, Zenon
      <4> QED BY <4>2, <4>3
    <3> HIDE DEF step, procs
    <3> QED BY <3>1, <3>2, <3>3, <1>9
  <2>2. request_id_counter' = c
    OBVIOUS
  <2> HIDE DEF procs2, c
  <2> QED BY <2>1, <2>2, <2>6, <2>8, <2>9, <1>4, <1>8, <1>10, <1>11, SettleNone
<1>14. CASE goOn /\ ~step.ret
  <2>1. AllScriptsDone(step.q) /\ Running(step.q) = {}
    <3>1. AllOver(step.q) /\ FreeAsserts(step.q)
      BY <1>14, <1>6
    <3> QED BY <3>1, <1>6, ScriptSets DEF FreeAsserts, AllScriptsDone, AllOver, Running, Over, Results
  <2>2. (wait => current_request = r /\ AllScriptsDone(step.q)) = TRUE
    BY <2>1, <1>2
  <2>3. NextRequests(r, rq2, procs, fail, wait => current_request = r /\ AllScriptsDone(step.q))
    BY <1>14, <1>5, <1>3, <1>4 DEF CompleteScript, rq2
  <2>4. NextRequests(r, rq2, procs, fail, TRUE)
    BY <2>2, <2>3
  <2>5. \A p \in procs : p[1] # r
    <3>1. Running(rq[r]) = {}
      BY <2>1, <1>4, <1>6
    <3> QED BY <3>1, <1>9
  <2> HIDE DEF procs
  <2> QED BY <2>4, <2>5, <1>6, <1>7, <1>8, <1>9, <1>14, NextRequestsInv
<1>15. CASE ~goOn
  <2> DEFINE cur == IF current_request = r /\ AllScriptsDone(rq[r])
                    THEN NoRequest ELSE current_request
             gone == Gone(<<r>>, rq)
  <2>1. CompleteRequests(<<r>>, rq, cur, requests_waiting, num_requests_pending, FALSE, TRUE) /\ alive' = procs
    BY <1>15, <1>5, <1>2, <1>3, <1>4 DEF CompleteScript
  <2>2. AllScriptsDone(o) <=> AllOver(o)
    BY <1>3, DoneIffAllOver
  <2>3. gone = IF AllOver(o) THEN {r} ELSE {}
    BY <2>2, <1>4 DEF Gone
  <2>4. HasWait(rq[r]) <=> HasWait(req[r])
    BY <1>3, <1>4, <1>12
  <2>5. AllOver(o) => ~HasWait(req[r])
    <3> SUFFICES ASSUME AllOver(o), NEW k \in Scripts(req[r]), req[r].wait[k] PROVE FALSE
      BY DEF HasWait
    <3>1. ~req[r].wait[i]
      BY <1>15
    <3>2. i \in RunningNoWait(req[r])
      BY <3>1, <1>2 DEF RunningNoWait
    <3>3. Cardinality(RunningNoWait(req[r])) \in Nat \ {0}
      BY <3>2, <1>2, ScriptSets, FS_EmptySet DEF RunningNoWait
    <3>4. req[r].idx = 1
      BY <3>3, <1>2 DEF Consistent
    <3>5. o.state[k] = "new"
      <4>1. k >= o.idx
        BY <3>4, <1>2, <1>3, ScriptSets
      <4> QED BY <4>1, <1>3 DEF Consistent
    <3> QED BY <3>5, <1>3 DEF AllOver, Over, Results
  <2>6. AllOver(o) => current_request # r
    BY <2>5, <1>1, <1>4 DEF QueueInv
  <2>7. cur = current_request
    BY <2>2, <2>6, <1>4
  <2>8. AllOver(o) => FreeAsserts(o)
    BY <1>3, DoneIffAllOver
  <2>9. \A x \in Requests : Held(x, c, gone) <=> Pending(x) /\ (x = r => ~AllOver(o))
    BY <2>3 DEF Held, Pending
  <2>10. RequestsSettled(c, gone, rq, current_request)
    <3> SUFFICES ASSUME NEW x \in Requests
                 PROVE  /\ Len(rq[x].wait) = Len(rq[x].state)
                        /\ x > c => rq[x] = NullRequest /\ replies[x] = 0
                        /\ replies[x] = 1 => AllOver(rq[x])
                        /\ x \in gone => /\ x <= c /\ replies[x] = 0
                                         /\ AllOver(rq[x]) /\ FreeAsserts(rq[x])
                        /\ Held(x, c, gone) => Consistent(rq[x]) /\ ~AllOver(rq[x])
                        /\ Held(x, c, gone) /\ x # current_request =>
                             \A k \in Running(rq[x]) : ~rq[x].wait[k]
                        /\ Held(x, c, gone) /\ x # current_request /\ HasWait(rq[x]) => rq[x].idx = 1
      BY DEF RequestsSettled
    <3>1. CASE x = r
      <4>1. rq[x] = o /\ Consistent(o) /\ Len(o.wait) = Len(o.state)
        BY <3>1, <1>2, <1>3, <1>4
      <4>2. x <= c /\ ~(x > c) /\ replies[x] = 0
        BY <3>1, <1>2, <1>4 DEF Pending, Requests
      <4>3. \A k \in Running(o) : ~o.wait[k]
        BY <1>3
      <4>4. x # current_request /\ HasWait(o) => o.idx = 1
        BY <3>1, <2>4, <1>1, <1>2, <1>3, <1>4 DEF RequestInv
      <4> QED BY <3>1, <4>1, <4>2, <4>3, <4>4, <2>3, <2>8, <2>9
    <3>2. CASE x # r
      <4>1. rq[x] = req[x] /\ x \notin gone
        BY <3>2, <2>3, <1>4
      <4> QED BY <3>2, <4>1, <2>9, <1>1 DEF RequestInv
    <3> QED BY <3>1, <3>2
  <2>11. \A x \in Requests : HasWait(rq[x]) <=> HasWait(req[x])
    BY <2>4, <1>4
  <2>12. current_request # NoRequest => Running(rq[current_request]) # {}
    <3>1. CASE current_request = r
      <4>1. ~AllScriptsDone(o) /\ o.num_scripts_nowait # 0
        BY <3>1, <1>15, <2>2, <2>6 DEF ResumesCurrent
      <4>2. RunningNoWait(o) # {}
        BY <4>1, <1>3, FS_EmptySet DEF Consistent
      <4> QED BY <4>2, <3>1, <1>4 DEF RunningNoWait, Running
    <3>2. CASE current_request # r
      BY <3>2, <1>1, <1>4 DEF QueueInv
    <3> QED BY <3>1, <3>2
  <2>13. QueueSettled(c, gone, rq, current_request, requests_waiting)
    <3>1. \A x \in Requests : HasWait(req[x]) => (Held(x, c, gone) <=> Pending(x))
      BY <2>5, <2>9
    <3> HIDE DEF gone
    <3> QED BY <3>1, <2>11, <2>12, <2>9, <1>1, <1>4 DEF QueueSettled, QueueInv
  <2>14. /\ <<r>> \in Seq(Requests) /\ \A k, l \in DOMAIN <<r>> : <<r>>[k] = <<r>>[l] => k = l
         /\ gone # {} => <<r>>[Len(<<r>>)] \in gone
    BY <2>3
  <2>15. request_id_counter' = c
    OBVIOUS
  <2>16. CompleteRequests(<<r>>, rq, current_request, requests_waiting, num_requests_pending, FALSE, TRUE)
    BY <2>1, <2>7
  <2> HIDE DEF procs, c
  <2> QED BY <2>1, <2>10, <2>13, <2>14, <2>15, <2>16, <1>4, <1>9, <1>10, <1>11, Settle
<1> QED BY <1>6, <1>13, <1>14, <1>15

-----------------------------------------------------------------------------
(* _method_call_action()                                                   *)

(* The request that _method_call_action() creates is a new one, with a     *)
(* higher id than every request that the daemon holds, and the daemon      *)
(* holds one request more than before.                                     *)
LEMMA NewRequest ==
  ASSUME Inv, request_id_counter < MaxRequests,
         NEW q2 \in RequestRecords
  PROVE  LET id == request_id_counter + 1
             rq == [req EXCEPT ![id] = q2]
         IN  /\ id \in Requests /\ id \in 0 .. MaxRequests /\ id # NoRequest
             /\ replies[id] = 0
             /\ rq \in [Requests -> RequestRecords]
             /\ rq[id] = q2
             /\ \A x \in Requests \ {id} :
                  /\ rq[x] = req[x]
                  /\ x <= id <=> x <= request_id_counter
                  /\ x <= id => x < id
                  /\ x <= id /\ replies[x] = 0 <=> Pending(x)
             /\ \A x \in Requests : Pending(x) => x # id
             /\ \A p \in alive : p[1] # id
             /\ num_requests_pending + 1 = Cardinality({x \in Requests : x <= id /\ replies[x] = 0})
             /\ \E x \in Requests : x <= id /\ replies[x] = 0
<1> DEFINE id == request_id_counter + 1
           rq == [req EXCEPT ![id] = q2]
           held == {x \in Requests : Pending(x)}
<1>1. TypeOK /\ RequestInv /\ QueueInv /\ ProcessInv /\ CountInv
  BY DEF Inv
<1>2. id \in Requests /\ id \in 0 .. MaxRequests /\ id # NoRequest /\ request_id_counter \in Nat
  BY <1>1, BoundsAssumption DEF TypeOK, Requests
<1>3. replies[id] = 0 /\ req[id] = NullRequest
  BY <1>1, <1>2 DEF RequestInv
<1>4. rq \in [Requests -> RequestRecords] /\ rq[id] = q2
  BY <1>1, <1>2 DEF TypeOK
<1>5. ASSUME NEW x \in Requests \ {id}
      PROVE  /\ rq[x] = req[x]
             /\ x <= id <=> x <= request_id_counter
             /\ x <= id => x < id
             /\ x <= id /\ replies[x] = 0 <=> Pending(x)
  BY <1>1, <1>2 DEF TypeOK, Requests, Pending
<1>6. \A x \in Requests : Pending(x) => x # id
  BY <1>2 DEF Pending
<1>7. \A p \in alive : p[1] # id
  BY <1>1, <1>3 DEF ProcessInv, Running, Scripts, NullRequest
<1>8. {x \in Requests : x <= id /\ replies[x] = 0} = held \union {id} /\ id \notin held
  BY <1>2, <1>3, <1>5, <1>6
<1>9. IsFiniteSet(held)
  <2>1. IsFiniteSet(Requests)
    BY BoundsAssumption, FS_Interval DEF Requests
  <2> QED BY <2>1, FS_Subset
<1>10. num_requests_pending = Cardinality(held)
  BY <1>1 DEF CountInv
<1>11. num_requests_pending + 1 = Cardinality({x \in Requests : x <= id /\ replies[x] = 0})
  <2> HIDE DEF held
  <2> QED BY <1>8, <1>9, <1>10, FS_AddElement
<1> QED BY <1>2, <1>3, <1>4, <1>5, <1>6, <1>7, <1>8, <1>11

(* RequestInv after _method_call_action(): the other requests are as they  *)
(* were, so that only the new one matters.                                 *)
LEMMA NewRequestSettled ==
  ASSUME Inv, request_id_counter < MaxRequests,
         NEW q2 \in RequestRecords, Len(q2.wait) = Len(q2.state),
         NEW gone \in SUBSET {request_id_counter + 1},
         NEW cur, current_request # NoRequest => cur = current_request,
         gone # {} => AllOver(q2) /\ FreeAsserts(q2),
         gone = {} => Consistent(q2) /\ ~AllOver(q2),
         gone = {} /\ cur # request_id_counter + 1 =>
           /\ \A i \in Running(q2) : ~q2.wait[i]
           /\ q2.idx = 1
  PROVE  RequestsSettled(request_id_counter + 1, gone,
                         [req EXCEPT ![request_id_counter + 1] = q2], cur)
<1> DEFINE id == request_id_counter + 1
           rq == [req EXCEPT ![id] = q2]
<1>1. RequestInv /\ TypeOK
  BY DEF Inv
<1>2. /\ id \in Requests /\ id # NoRequest
      /\ replies[id] = 0
      /\ rq[id] = q2
      /\ \A x \in Requests \ {id} :
           /\ rq[x] = req[x]
           /\ x <= id <=> x <= request_id_counter
           /\ x <= id /\ replies[x] = 0 <=> Pending(x)
  BY NewRequest
<1>3. id \in Int /\ request_id_counter \in Int /\ \A x \in Requests : x \in Int /\ x # NoRequest
  BY <1>1, BoundsAssumption DEF TypeOK, Requests
<1> HIDE DEF id, rq
<1> SUFFICES ASSUME NEW x \in Requests
             PROVE  /\ Len(rq[x].wait) = Len(rq[x].state)
                    /\ x > id => rq[x] = NullRequest /\ replies[x] = 0
                    /\ replies[x] = 1 => AllOver(rq[x])
                    /\ x \in gone => /\ x <= id /\ replies[x] = 0
                                     /\ AllOver(rq[x]) /\ FreeAsserts(rq[x])
                    /\ Held(x, id, gone) => Consistent(rq[x]) /\ ~AllOver(rq[x])
                    /\ Held(x, id, gone) /\ x # cur => \A i \in Running(rq[x]) : ~rq[x].wait[i]
                    /\ Held(x, id, gone) /\ x # cur /\ HasWait(rq[x]) => rq[x].idx = 1
  BY DEF RequestsSettled, id, rq
<1>4. CASE x = id
  <2>1. ~(x > id) /\ x <= id /\ replies[x] = 0 /\ rq[x] = q2
    BY <1>2, <1>3, <1>4
  <2>2. Held(x, id, gone) => gone = {}
    BY <1>4 DEF Held, id
  <2>3. x # cur => cur # request_id_counter + 1
    BY <1>4 DEF id
  <2> QED BY <2>1, <2>2, <2>3
<1>5. CASE x # id
  <2>1. x \notin gone /\ rq[x] = req[x] /\ (x > id => x > request_id_counter)
    BY <1>5, <1>2, <1>3 DEF id
  <2>2. Held(x, id, gone) => Pending(x)
    BY <1>5, <1>2 DEF Held
  <2>3. x # cur => x # current_request
    BY <1>3
  <2> QED BY <2>1, <2>2, <2>3, <1>1 DEF RequestInv
<1> QED BY <1>4, <1>5

(* ProcessInv after _method_call_action(): it adds processes of the new    *)
(* request only, whose scripts are running.                                *)
LEMMA NewProcesses ==
  ASSUME Inv, request_id_counter < MaxRequests,
         NEW q2 \in RequestRecords, NEW procs,
         \A p \in procs : p \in alive \/ \E i \in Running(q2) : p = <<request_id_counter + 1, i>>
  PROVE  LET rq == [req EXCEPT ![request_id_counter + 1] = q2]
         IN  /\ procs \in SUBSET (Requests \X (Nat \ {0}))
             /\ \A p \in procs : p[2] \in Running(rq[p[1]])
<1> DEFINE id == request_id_counter + 1
           rq == [req EXCEPT ![id] = q2]
<1>1. TypeOK /\ ProcessInv
  BY DEF Inv
<1>2. /\ id \in Requests
      /\ rq[id] = q2
      /\ \A x \in Requests \ {id} : rq[x] = req[x]
      /\ \A p \in alive : p[1] # id
  BY NewRequest
<1>3. Running(q2) \subseteq Nat \ {0}
  <2>1. Len(q2.state) \in Nat /\ Scripts(q2) = 1 .. Len(q2.state)
    BY ScriptSets
  <2> QED BY <2>1 DEF Running
<1> HIDE DEF id, rq
<1> SUFFICES ASSUME NEW p \in procs
             PROVE  p \in Requests \X (Nat \ {0}) /\ p[2] \in Running(rq[p[1]])
  BY DEF id, rq
<1>4. CASE p \in alive
  <2>1. p \in Requests \X (Nat \ {0}) /\ p[1] # id /\ p[2] \in Running(req[p[1]])
    BY <1>4, <1>1, <1>2 DEF TypeOK, ProcessInv
  <2> QED BY <2>1, <1>2
<1>5. CASE \E i \in Running(q2) : p = <<id, i>>
  BY <1>5, <1>2, <1>3
<1> QED BY <1>4, <1>5 DEF id

(* _method_call_action() preserves the invariant, whether the request is   *)
(* queued, becomes the current one, fails to spawn every script at once or *)
(* has only "no-wait" scripts.                                             *)
LEMMA MethodCallActionInv ==
  ASSUME Inv, NEW list \in ScriptLists, NEW bad, MethodCallAction(list, bad)
  PROVE  Inv'
<1> DEFINE id    == request_id_counter + 1
           q     == DispatchNoWait(list, bad)
           step  == DispatchOneScript(q, bad)
           procs == alive \union {<<id, i>> : i \in {k \in Scripts(q) : q.state[k] = "running"}}
           rq(q2) == [req EXCEPT ![id] = q2]
<1>1. TypeOK /\ RequestInv /\ QueueInv /\ ProcessInv /\ CountInv
  BY DEF Inv
<1>2. /\ loop # "exited" /\ request_id_counter < MaxRequests
      /\ request_id_counter' = id
      /\ UNCHANGED loop
  BY DEF MethodCallAction
<1>3. list \in Seq(BOOLEAN)
  BY BoundsAssumption
<1>4. /\ q \in RequestRecords
      /\ Len(q.wait) = Len(q.state)
      /\ q.idx = 1
      /\ Consistent(q)
      /\ \A i \in Running(q) : ~q.wait[i]
      /\ HasWait(q) => ~AllOver(q)
  BY <1>3, DispatchNoWaitEffect
<1>5. ASSUME HasWait(q), current_request # NoRequest,
             CompleteRequests(<<>>, rq(q), current_request, PushTail(requests_waiting, id),
                              num_requests_pending + 1, FALSE, TRUE),
             alive' = procs
      PROVE  Inv'
  <2> DEFINE queue == Append(requests_waiting, id)
  <2>1. /\ id \in Requests /\ id \in 0 .. MaxRequests /\ id # NoRequest
        /\ replies[id] = 0
        /\ rq(q) \in [Requests -> RequestRecords]
        /\ rq(q)[id] = q
        /\ \A x \in Requests \ {id} :
             /\ rq(q)[x] = req[x]
             /\ x <= id <=> x <= request_id_counter
             /\ x <= id => x < id
             /\ x <= id /\ replies[x] = 0 <=> Pending(x)
        /\ \A x \in Requests : Pending(x) => x # id
        /\ num_requests_pending + 1 = Cardinality({x \in Requests : x <= id /\ replies[x] = 0})
        /\ \E x \in Requests : x <= id /\ replies[x] = 0
    BY <1>2, <1>4, NewRequest
  <2>2. RequestsSettled(id, {}, rq(q), current_request)
    BY <1>2, <1>4, <1>5, NewRequestSettled
  <2>3. /\ procs \in SUBSET (Requests \X (Nat \ {0}))
        /\ \A p \in procs : p[2] \in Running(rq(q)[p[1]])
    <3>1. \A p \in procs : p \in alive \/ \E i \in Running(q) : p = <<id, i>>
      BY DEF Running
    <3> HIDE DEF procs, q
    <3> QED BY <3>1, <1>2, <1>4, NewProcesses
  <2>4. /\ requests_waiting \in Seq(Requests) /\ Len(requests_waiting) \in Nat
        /\ DOMAIN requests_waiting = 1 .. Len(requests_waiting)
        /\ \A k \in DOMAIN requests_waiting : requests_waiting[k] \in Requests
    BY <1>1 DEF TypeOK
  <2>5. /\ queue \in Seq(Requests)
        /\ DOMAIN queue = 1 .. Len(requests_waiting) + 1
        /\ \A k \in DOMAIN requests_waiting : queue[k] = requests_waiting[k]
        /\ queue[Len(requests_waiting) + 1] = id
    BY <2>1, <2>4, AppendProperties
  <2>6. CompleteRequests(<<>>, rq(q), current_request, queue, num_requests_pending + 1, FALSE, TRUE)
    BY <1>5 DEF PushTail
  <2> DEFINE r2 == rq(q)
  <2>7. QueueSettled(id, {}, r2, current_request, queue)
    <3>1. \A x \in Requests \ {id} : /\ Held(x, id, {}) <=> Pending(x)
                                     /\ r2[x] = req[x]
                                     /\ x <= id => x < id
                                     /\ x <= id <=> x <= request_id_counter
      BY <2>1 DEF Held
    <3>2. Held(id, id, {}) /\ HasWait(r2[id]) /\ \A x \in Requests : x \in Int
      BY <2>1, <1>5 DEF Held, Requests
    <3>3. /\ current_request \in Requests \ {id}
          /\ Pending(current_request) /\ HasWait(req[current_request]) /\ Running(req[current_request]) # {}
          /\ \A k \in DOMAIN requests_waiting : current_request < requests_waiting[k]
      BY <1>1, <1>5, <2>1 DEF QueueInv, TypeOK
    <3>4. \A k \in DOMAIN requests_waiting :
            /\ requests_waiting[k] \in Requests \ {id}
            /\ Pending(requests_waiting[k]) /\ HasWait(req[requests_waiting[k]])
            /\ \A l \in DOMAIN requests_waiting : k < l => requests_waiting[k] < requests_waiting[l]
      BY <1>1, <2>1, <2>4 DEF QueueInv
    <3>5. \A x \in Requests : Pending(x) => x < id
      BY <2>1, <3>1 DEF Pending
    <3> HIDE DEF r2, queue, id, q
    <3>6. \A k \in DOMAIN queue : k \in DOMAIN requests_waiting \/ (k = Len(requests_waiting) + 1 /\ queue[k] = id)
      BY <2>4, <2>5
    <3>7. Len(requests_waiting) + 1 \in DOMAIN queue
      BY <2>4, <2>5
    <3>8. /\ Held(current_request, id, {}) /\ HasWait(r2[current_request])
          /\ Running(r2[current_request]) # {}
          /\ \A k \in DOMAIN queue : current_request < queue[k]
      BY <3>1, <3>3, <3>5, <3>6, <2>5
    <3>9. ASSUME NEW k \in DOMAIN queue
          PROVE  /\ Held(queue[k], id, {}) /\ HasWait(r2[queue[k]])
                 /\ \A l \in DOMAIN queue : k < l => queue[k] < queue[l]
      <4>1. CASE k \in DOMAIN requests_waiting
        BY <4>1, <3>1, <3>4, <3>5, <3>6, <2>5
      <4>2. CASE k = Len(requests_waiting) + 1
        BY <4>2, <3>2, <2>4, <2>5
      <4> QED BY <4>1, <4>2, <3>6
    <3>10. ASSUME NEW x \in Requests, Held(x, id, {}), HasWait(r2[x]), x # current_request
           PROVE  \E k \in DOMAIN queue : queue[k] = x
      <4>1. CASE x = id
        BY <4>1, <3>7, <2>5
      <4>2. CASE x # id
        <5>1. \E k \in DOMAIN requests_waiting : requests_waiting[k] = x
          BY <4>2, <3>1, <3>10, <1>1, <1>2 DEF QueueInv
        <5> QED BY <5>1, <2>4, <2>5
      <4> QED BY <4>1, <4>2
    <3>11. ASSUME NEW x \in Requests, NEW y \in Requests, y < x, x <= id,
                  HasWait(r2[x]), HasWait(r2[y]), Held(y, id, {})
           PROVE  Held(x, id, {}) /\ x # current_request
      <4>1. CASE x = id
        BY <4>1, <3>2, <3>3
      <4>2. CASE x # id
        <5>1. y # id
          BY <4>2, <3>11, <3>1, <3>2, <2>1
        <5> QED BY <4>2, <5>1, <3>1, <3>11, <1>1 DEF QueueInv
      <4> QED BY <4>1, <4>2
    <3> QED BY <3>3, <3>8, <3>9, <3>10, <3>11, <1>5 DEF QueueSettled
  <2> HIDE DEF procs, queue, id, q
  <2> QED BY <2>1, <2>2, <2>3, <2>5, <2>6, <2>7, <1>1, <1>2, <1>5, SettleNone DEF TypeOK
<1>6. ASSUME HasWait(q), current_request = NoRequest, step.ret,
             CompleteRequests(<<>>, rq(step.q), id, requests_waiting,
                              num_requests_pending + 1, FALSE, TRUE),
             alive' = procs \union ({id} \X step.spawned)
      PROVE  Inv'
  <2> HIDE DEF q
  <2>a. /\ step.q \in RequestRecords
        /\ Len(step.q.wait) = Len(step.q.state)
        /\ HasWait(step.q)
        /\ step.ret => Consistent(step.q) /\ Running(step.q) # {} /\ ~AllOver(step.q)
        /\ ~step.ret => AllOver(step.q) /\ FreeAsserts(step.q)
        /\ Running(step.q) = Running(q) \union step.spawned
    <3>1. /\ step.q \in RequestRecords /\ Len(step.q.state) = Len(q.state)
          /\ step.q.wait = q.wait /\ Scripts(step.q) = Scripts(q)
      BY <1>4, DispatchType
    <3>2. /\ step.ret => Consistent(step.q) /\ Running(step.q) # {}
          /\ ~step.ret => AllOver(step.q) /\ FreeAsserts(step.q)
          /\ Running(step.q) = Running(q) \union step.spawned
      BY <1>4, DispatchEffect
    <3> HIDE DEF step
    <3> QED BY <3>1, <3>2, <1>4, <1>6 DEF HasWait, Running, AllOver, Over, Results
  <2>b. requests_waiting = <<>> /\ \A x \in Requests : Pending(x) => ~HasWait(req[x])
    <3>1. \A x \in Requests : x # NoRequest
      BY BoundsAssumption DEF Requests
    <3> QED BY <3>1, <1>1, <1>2, <1>6 DEF QueueInv
  <2>1. /\ id \in Requests /\ id \in 0 .. MaxRequests /\ id # NoRequest
        /\ replies[id] = 0
        /\ rq(step.q) \in [Requests -> RequestRecords]
        /\ rq(step.q)[id] = step.q
        /\ \A x \in Requests \ {id} :
             /\ rq(step.q)[x] = req[x]
             /\ x <= id <=> x <= request_id_counter
             /\ x <= id => x < id
             /\ x <= id /\ replies[x] = 0 <=> Pending(x)
        /\ \A x \in Requests : Pending(x) => x # id
        /\ num_requests_pending + 1 = Cardinality({x \in Requests : x <= id /\ replies[x] = 0})
        /\ \E x \in Requests : x <= id /\ replies[x] = 0
    BY <1>2, <2>a, NewRequest
  <2> DEFINE r2 == rq(step.q)
             procs2 == procs \union ({id} \X step.spawned)
  <2>2. RequestsSettled(id, {}, r2, id)
    BY <1>2, <1>6, <2>a, NewRequestSettled
  <2>3. /\ procs2 \in SUBSET (Requests \X (Nat \ {0}))
        /\ \A p \in procs2 : p[2] \in Running(r2[p[1]])
    <3>1. \A p \in procs2 : p \in alive \/ \E i \in Running(step.q) : p = <<id, i>>
      BY <2>a DEF Running
    <3> HIDE DEF procs2, step
    <3> QED BY <3>1, <1>2, <2>a, NewProcesses
  <2>4. QueueSettled(id, {}, r2, id, requests_waiting)
    <3>1. \A x \in Requests \ {id} : /\ Held(x, id, {}) <=> Pending(x)
                                     /\ r2[x] = req[x]
      BY <2>1 DEF Held
    <3>2. Held(id, id, {}) /\ HasWait(r2[id]) /\ Running(r2[id]) # {}
      BY <2>1, <2>a, <1>6 DEF Held, Requests
    <3>3. \A x \in Requests : x # id => ~(Held(x, id, {}) /\ HasWait(r2[x]))
      BY <3>1, <2>b
    <3>4. \A x \in Requests : ~(id < x /\ x <= id)
      BY <2>1 DEF Requests
    <3> HIDE DEF r2, id
    <3> QED BY <3>2, <3>3, <3>4, <2>b, <2>1 DEF QueueSettled
  <2>5. requests_waiting \in Seq(Requests) /\ id \in Requests \union {NoRequest}
    BY <1>1, <2>1 DEF TypeOK
  <2>6. CompleteRequests(<<>>, r2, id, requests_waiting, num_requests_pending + 1, FALSE, TRUE) /\ alive' = procs2
    BY <1>6
  <2>7. r2 \in [Requests -> RequestRecords]
    BY <2>1
  <2> HIDE DEF procs2, id, r2
  <2> QED BY <2>1, <2>2, <2>3, <2>4, <2>5, <2>6, <2>7, <1>2, SettleNone
<1>7. ASSUME HasWait(q), current_request = NoRequest, ~step.ret,
             CompleteRequests(<<id>>, rq(step.q), NoRequest, requests_waiting,
                              num_requests_pending + 1, FALSE, requests_waiting = <<>>),
             alive' = procs
      PROVE  Inv'
  <2> HIDE DEF q
  <2>a. /\ step.q \in RequestRecords
        /\ Len(step.q.wait) = Len(step.q.state)
        /\ HasWait(step.q)
        /\ step.ret => Consistent(step.q) /\ Running(step.q) # {} /\ ~AllOver(step.q)
        /\ ~step.ret => AllOver(step.q) /\ FreeAsserts(step.q)
        /\ Running(step.q) = Running(q) \union step.spawned
    <3>1. /\ step.q \in RequestRecords /\ Len(step.q.state) = Len(q.state)
          /\ step.q.wait = q.wait /\ Scripts(step.q) = Scripts(q)
      BY <1>4, DispatchType
    <3>2. /\ step.ret => Consistent(step.q) /\ Running(step.q) # {}
          /\ ~step.ret => AllOver(step.q) /\ FreeAsserts(step.q)
          /\ Running(step.q) = Running(q) \union step.spawned
      BY <1>4, DispatchEffect
    <3> HIDE DEF step
    <3> QED BY <3>1, <3>2, <1>4, <1>7 DEF HasWait, Running, AllOver, Over, Results
  <2>b. requests_waiting = <<>> /\ \A x \in Requests : Pending(x) => ~HasWait(req[x])
    <3>1. \A x \in Requests : x # NoRequest
      BY BoundsAssumption DEF Requests
    <3> QED BY <3>1, <1>1, <1>2, <1>7 DEF QueueInv
  <2>1. /\ id \in Requests /\ id \in 0 .. MaxRequests /\ id # NoRequest
        /\ replies[id] = 0
        /\ rq(step.q) \in [Requests -> RequestRecords]
        /\ rq(step.q)[id] = step.q
        /\ \A x \in Requests \ {id} :
             /\ rq(step.q)[x] = req[x]
             /\ x <= id <=> x <= request_id_counter
             /\ x <= id => x < id
             /\ x <= id /\ replies[x] = 0 <=> Pending(x)
        /\ \A x \in Requests : Pending(x) => x # id
        /\ num_requests_pending + 1 = Cardinality({x \in Requests : x <= id /\ replies[x] = 0})
        /\ \E x \in Requests : x <= id /\ replies[x] = 0
    BY <1>2, <2>a, NewRequest
  <2> DEFINE r2 == rq(step.q)
             tried == <<id>>
  <2>2. RequestsSettled(id, {id}, r2, NoRequest)
    BY <1>2, <1>7, <2>a, NewRequestSettled
  <2>3. /\ procs \in SUBSET (Requests \X (Nat \ {0}))
        /\ \A p \in procs : p[2] \in Running(r2[p[1]])
    <3>1. \A p \in procs : p \in alive \/ \E i \in Running(step.q) : p = <<id, i>>
      BY <2>a DEF Running
    <3> HIDE DEF procs, step
    <3> QED BY <3>1, <1>2, <2>a, NewProcesses
  <2>4. QueueSettled(id, {id}, r2, NoRequest, requests_waiting)
    <3>1. \A x \in Requests \ {id} : /\ Held(x, id, {id}) <=> Pending(x)
                                     /\ r2[x] = req[x]
      BY <2>1 DEF Held
    <3>2. \A x \in Requests : ~(Held(x, id, {id}) /\ HasWait(r2[x]))
      BY <3>1, <2>b DEF Held
    <3>3. DOMAIN requests_waiting = {}
      BY <2>b
    <3> DEFINE gone == {id}
    <3>4. \A x \in Requests : ~(Held(x, id, gone) /\ HasWait(r2[x]))
      BY <3>2
    <3>5. QueueSettled(id, gone, r2, NoRequest, requests_waiting)
      <4> HIDE DEF r2, id, gone
      <4> QED BY <3>3, <3>4, <2>b DEF QueueSettled
    <3> QED BY <3>5
  <2>5. requests_waiting \in Seq(Requests) /\ NoRequest \in Requests \union {NoRequest}
    BY <1>1 DEF TypeOK
  <2>6. CompleteRequests(tried, r2, NoRequest, requests_waiting, num_requests_pending + 1, FALSE, TRUE)
        /\ alive' = procs
    BY <1>7, <2>b
  <2>7. r2 \in [Requests -> RequestRecords]
    BY <2>1
  <2>8. /\ tried \in Seq(Requests)
        /\ \A k, l \in DOMAIN tried : tried[k] = tried[l] => k = l
        /\ tried[Len(tried)] \in {id}
    BY <2>1
  <2>9. Gone(tried, r2) = {id}
    <3>1. AllScriptsDone(r2[id])
      BY <2>1, <2>a, <1>7, ScriptSets DEF FreeAsserts, AllScriptsDone
    <3> QED BY <3>1, <2>8 DEF Gone
  <2>10. /\ RequestsSettled(id, Gone(tried, r2), r2, NoRequest)
         /\ QueueSettled(id, Gone(tried, r2), r2, NoRequest, requests_waiting)
         /\ tried[Len(tried)] \in Gone(tried, r2)
    <3> HIDE DEF r2, tried, id
    <3> QED BY <2>2, <2>4, <2>8, <2>9
  <2> HIDE DEF procs, id, r2, tried
  <2> QED BY <2>1, <2>3, <2>5, <2>6, <2>7, <2>8, <2>10, <1>2, Settle, ZenonT(40)
<1>8. ASSUME ~HasWait(q),
             CompleteRequests(<<id>>, rq(q), current_request, requests_waiting,
                              num_requests_pending + 1, FALSE, TRUE),
             alive' = procs
      PROVE  Inv'
  <2> HIDE DEF q
  <2>1. /\ id \in Requests /\ id \in 0 .. MaxRequests /\ id # NoRequest
        /\ replies[id] = 0
        /\ rq(q) \in [Requests -> RequestRecords]
        /\ rq(q)[id] = q
        /\ \A x \in Requests \ {id} :
             /\ rq(q)[x] = req[x]
             /\ x <= id <=> x <= request_id_counter
             /\ x <= id => x < id
             /\ x <= id /\ replies[x] = 0 <=> Pending(x)
        /\ \A x \in Requests : Pending(x) => x # id
        /\ num_requests_pending + 1 = Cardinality({x \in Requests : x <= id /\ replies[x] = 0})
        /\ \E x \in Requests : x <= id /\ replies[x] = 0
    BY <1>2, <1>4, NewRequest
  <2> DEFINE r2 == rq(q)
             tried == <<id>>
             gone  == Gone(tried, r2)
  <2>2. gone = IF AllOver(q) THEN {id} ELSE {}
    <3>1. AllScriptsDone(q) <=> AllOver(q)
      BY <1>4, DoneIffAllOver
    <3> QED BY <3>1, <2>1 DEF Gone
  <2>3. RequestsSettled(id, gone, r2, current_request)
    <3>1. AllOver(q) => FreeAsserts(q)
      BY <1>4, DoneIffAllOver
    <3>2. /\ gone \in SUBSET {id}
          /\ gone # {} => AllOver(q) /\ FreeAsserts(q)
          /\ gone = {} => Consistent(q) /\ ~AllOver(q)
      BY <3>1, <2>2, <1>4
    <3> HIDE DEF gone
    <3> QED BY <3>2, <1>2, <1>4, NewRequestSettled
  <2>4. /\ procs \in SUBSET (Requests \X (Nat \ {0}))
        /\ \A p \in procs : p[2] \in Running(r2[p[1]])
    <3>1. \A p \in procs : p \in alive \/ \E i \in Running(q) : p = <<id, i>>
      BY DEF Running
    <3> HIDE DEF procs
    <3> QED BY <3>1, <1>2, <1>4, NewProcesses
  <2>5. /\ requests_waiting \in Seq(Requests) /\ current_request \in Requests \union {NoRequest}
        /\ \A k \in DOMAIN requests_waiting : requests_waiting[k] \in Requests
    BY <1>1 DEF TypeOK
  <2>6. QueueSettled(id, gone, r2, current_request, requests_waiting)
    <3>1. \A x \in Requests \ {id} : /\ Held(x, id, gone) <=> Pending(x)
                                     /\ HasWait(r2[x]) <=> HasWait(req[x])
                                     /\ r2[x] = req[x]
                                     /\ x <= id <=> x <= request_id_counter
      BY <2>1, <2>2 DEF Held
    <3>2. ~HasWait(r2[id])
      BY <2>1, <1>8
    <3>3. \A x \in Requests : Pending(x) => x \in Requests \ {id}
      BY <2>1
    <3> HIDE DEF r2, id, gone
    <3> QED BY <3>1, <3>2, <3>3, <2>5, <1>1, <1>2 DEF QueueSettled, QueueInv
  <2>7. CompleteRequests(tried, r2, current_request, requests_waiting, num_requests_pending + 1, FALSE, TRUE)
        /\ alive' = procs
    BY <1>8
  <2>8. r2 \in [Requests -> RequestRecords]
    BY <2>1
  <2>9. /\ tried \in Seq(Requests)
        /\ \A k, l \in DOMAIN tried : tried[k] = tried[l] => k = l
        /\ gone # {} => tried[Len(tried)] \in gone
    BY <2>1, <2>2
  <2> HIDE DEF procs, id, r2, tried
  <2> QED BY <2>1, <2>3, <2>4, <2>5, <2>6, <2>7, <2>8, <2>9, <1>2, Settle, ZenonT(40)
<1> QED BY <1>5, <1>6, <1>7, <1>8 DEF MethodCallAction

(* A call that starts no script is answered at once: the daemon holds what *)
(* it held before.                                                         *)
LEMMA MethodCallNoScriptsInv ==
  ASSUME Inv, MethodCallNoScripts
  PROVE  Inv'
<1> DEFINE id == request_id_counter + 1
<1>1. TypeOK /\ RequestInv /\ QueueInv /\ ProcessInv /\ CountInv /\ TimerInv /\ NoAssertionFails
  BY DEF Inv
<1>2. /\ request_id_counter' = id
      /\ replies' = [replies EXCEPT ![id] = @ + 1]
      /\ UNCHANGED <<req, current_request, requests_waiting, num_requests_pending,
                     quit_id, alive, loop, asserts>>
  BY DEF MethodCallNoScripts
<1>3. /\ request_id_counter \in Nat /\ id \in 0 .. MaxRequests /\ id \in Requests
      /\ \A x \in Requests : x \in Nat
  BY <1>1, BoundsAssumption DEF TypeOK, Requests, MethodCallNoScripts
<1>4. req[id] = NullRequest /\ replies[id] = 0
  BY <1>1, <1>3 DEF RequestInv
<1>5. /\ replies' \in [Requests -> Nat]
      /\ replies'[id] = 1
      /\ \A x \in Requests \ {id} : replies'[x] = replies[x]
  BY <1>1, <1>2, <1>3, <1>4 DEF TypeOK
<1>6. ~HasWait(req[id]) /\ AllOver(req[id]) /\ Len(req[id].wait) = Len(req[id].state)
  BY <1>4 DEF NullRequest, HasWait, Scripts, AllOver
<1>7. \A x \in Requests : Pending(x)' <=> Pending(x)
  BY <1>2, <1>3, <1>5 DEF Pending
<1>8. ~Pending(id)
  BY <1>3 DEF Pending
<1> HIDE DEF id
<1>9. TypeOK'
  BY <1>1, <1>2, <1>3, <1>5 DEF TypeOK
<1>10. RequestInv'
  <2> SUFFICES ASSUME NEW r \in Requests
               PROVE  /\ Len(req[r].wait) = Len(req[r].state)
                      /\ replies'[r] <= 1
                      /\ r > id => req[r] = NullRequest /\ replies'[r] = 0
                      /\ replies'[r] = 1 => AllOver(req[r])
                      /\ Pending(r) => Consistent(req[r]) /\ ~AllOver(req[r])
                      /\ Pending(r) /\ r # current_request =>
                           \A i \in Running(req[r]) : ~req[r].wait[i]
                      /\ Pending(r) /\ r # current_request /\ HasWait(req[r]) => req[r].idx = 1
    BY <1>2, <1>7 DEF RequestInv
  <2>1. CASE r = id
    BY <2>1, <1>3, <1>5, <1>6, <1>8
  <2>2. CASE r # id
    <3>1. r > id => r > request_id_counter
      BY <1>3 DEF id
    <3> QED BY <2>2, <3>1, <1>1, <1>5 DEF RequestInv
  <2> QED BY <2>1, <2>2
<1>11. QueueInv'
  <2>1. /\ current_request # NoRequest => current_request \in Requests
        /\ \A k \in DOMAIN requests_waiting : requests_waiting[k] \in Requests
    BY <1>1 DEF TypeOK
  <2>2. \A r \in Requests : r <= id /\ HasWait(req[r]) => r <= request_id_counter
    <3> SUFFICES ASSUME NEW r \in Requests, r <= id, HasWait(req[r])
                 PROVE  r <= request_id_counter
      OBVIOUS
    <3>1. r # id
      BY <1>6
    <3> QED BY <3>1, <1>3 DEF id
  <2> QED BY <2>1, <2>2, <1>1, <1>2, <1>7 DEF QueueInv
<1>12. ProcessInv' /\ NoAssertionFails'
  BY <1>1, <1>2 DEF ProcessInv, NoAssertionFails
<1>13. CountInv' /\ TimerInv'
  BY <1>1, <1>2, <1>7 DEF CountInv, TimerInv, IdleTimerArmedIffIdle
<1> QED BY <1>9, <1>10, <1>11, <1>12, <1>13 DEF Inv

-----------------------------------------------------------------------------
(* The invariant.                                                          *)

(* The steps that leave the requests alone: the timer, the signals, the    *)
(* end of the main loop and of a script process.                           *)
LEMMA OtherStepsInv ==
  ASSUME Inv,
         \/ QuitTimeoutCb \/ SignalHandler \/ OnNameLost \/ MainDone
         \/ \E p \in alive : ScriptExits(p[1], p[2])
         \/ UNCHANGED vars
  PROVE  Inv'
<1>1. TypeOK /\ RequestInv /\ QueueInv /\ ProcessInv /\ CountInv /\ TimerInv /\ NoAssertionFails
  BY DEF Inv
<1>2. /\ UNCHANGED <<request_id_counter, req, current_request, num_requests_pending, replies, asserts>>
      /\ alive' \subseteq alive
      /\ requests_waiting' = requests_waiting \/ (requests_waiting' = <<>> /\ loop' = "exited")
      /\ loop = "exited" => loop' = "exited"
      /\ quit_id' = quit_id \/ (quit_id' = FALSE /\ loop' # "running")
      /\ loop' = "running" => loop = "running"
      /\ loop' \in {"running", "quitting", "exited"}
  BY <1>1 DEF QuitTimeoutCb, SignalHandler, OnNameLost, MainDone, ScriptExits,
              MainLoopQuit, vars, queueVars, TypeOK
<1>3. \A r : Pending(r)' <=> Pending(r)
  BY <1>2 DEF Pending
<1>4. TypeOK'
  <2>1. requests_waiting' \in Seq(Requests)
    <3>1. requests_waiting \in Seq(Requests)
      BY <1>1 DEF TypeOK
    <3>2. CASE requests_waiting' = requests_waiting
      BY <3>1, <3>2, Zenon
    <3>3. CASE requests_waiting' = <<>>
      BY <3>3
    <3> QED BY <3>2, <3>3, <1>2
  <2>3. quit_id' \in BOOLEAN
    BY <1>1, <1>2, Zenon DEF TypeOK
  <2>2. alive' \subseteq Requests \X (Nat \ {0})
    BY <1>1, <1>2 DEF TypeOK
  <2> QED BY <2>1, <2>2, <2>3, <1>1, <1>2 DEF TypeOK
<1>5. RequestInv' /\ ProcessInv' /\ CountInv' /\ NoAssertionFails'
  BY <1>1, <1>2, <1>3 DEF RequestInv, ProcessInv, CountInv, NoAssertionFails
<1>6. QueueInv'
  BY <1>1, <1>2, <1>3 DEF QueueInv
<1>7. TimerInv'
  BY <1>1, <1>2, <1>3 DEF TimerInv, IdleTimerArmedIffIdle
<1> QED BY <1>4, <1>5, <1>6, <1>7 DEF Inv

(* The invariant holds when main() enters its loop. *)
LEMMA InitInv == Init => Inv
<1> SUFFICES ASSUME Init PROVE Inv
  OBVIOUS
<1>1. NullRequest \in RequestRecords
  BY DEF NullRequest, RequestRecords
<1>2. \A r \in Requests : r \in Nat /\ r > 0 /\ req[r] = NullRequest /\ replies[r] = 0 /\ ~Pending(r)
  BY DEF Init, Requests, Pending
<1>3. TypeOK
  BY <1>1, BoundsAssumption DEF TypeOK, Init
<1>4. RequestInv
  BY <1>2 DEF RequestInv, NullRequest, AllOver, Scripts
<1>5. QueueInv
  BY <1>2 DEF QueueInv, Init
<1>6. CountInv
  <2>1. {r \in Requests : Pending(r)} = {}
    BY <1>2
  <2> QED BY <2>1, FS_EmptySet DEF CountInv, Init
<1>7. ProcessInv /\ TimerInv /\ NoAssertionFails
  BY <1>2 DEF ProcessInv, TimerInv, IdleTimerArmedIffIdle, NoAssertionFails, Init
<1> QED BY <1>3, <1>4, <1>5, <1>6, <1>7 DEF Inv

(* Every callback of the daemon preserves the invariant. *)
LEMMA NextInv == Inv /\ [Next]_vars => Inv'
<1> SUFFICES ASSUME Inv, [Next]_vars PROVE Inv'
  OBVIOUS
<1>1. CASE MethodCallNoScripts
  BY <1>1, MethodCallNoScriptsInv
<1>2. ASSUME NEW list \in ScriptLists, NEW bad \in SUBSET DOMAIN list, MethodCallAction(list, bad)
      PROVE  Inv'
  BY <1>2, MethodCallActionInv
<1>3. ASSUME NEW r \in Requests, NEW i \in Scripts(req[r]), NEW fail \in SUBSET Undispatched,
             ScriptWatchCb(r, i, fail)
      PROVE  Inv'
  <2>1. i \in Running(req[r]) /\ alive = alive \ {<<r, i>>} /\ "EXITED" \in Results
    BY <1>3 DEF ScriptWatchCb, Running, Results
  <2>2. /\ loop # "exited"
        /\ CompleteScript(r, i, [req EXCEPT ![r] = ScriptOver(req[r], i, "EXITED")], alive, fail)
        /\ UNCHANGED <<request_id_counter, loop>>
    BY <1>3 DEF ScriptWatchCb
  <2>3. CompleteScript(r, i, [req EXCEPT ![r] = ScriptOver(req[r], i, "EXITED")],
                       alive \ {<<r, i>>}, fail)
    BY <2>1, <2>2
  <2> QED BY <2>1, <2>2, <2>3, CompleteScriptInv
<1>4. ASSUME NEW r \in Requests, NEW i \in Scripts(req[r]), NEW fail \in SUBSET Undispatched,
             ScriptTimeoutCb(r, i, fail)
      PROVE  Inv'
  <2>1. i \in Running(req[r]) /\ "TIMEOUT" \in Results
    BY <1>4 DEF ScriptTimeoutCb, Running, Results
  <2>2. /\ loop # "exited"
        /\ CompleteScript(r, i, [req EXCEPT ![r] = ScriptOver(req[r], i, "TIMEOUT")],
                          alive \ {<<r, i>>}, fail)
        /\ UNCHANGED <<request_id_counter, loop>>
    BY <1>4 DEF ScriptTimeoutCb
  <2> QED BY <2>1, <2>2, CompleteScriptInv
<1>5. CASE \/ QuitTimeoutCb \/ SignalHandler \/ OnNameLost \/ MainDone
           \/ \E p \in alive : ScriptExits(p[1], p[2])
           \/ UNCHANGED vars
  BY <1>5, OtherStepsInv
<1> QED BY <1>1, <1>2, <1>3, <1>4, <1>5 DEF Next

(* Inv holds in every reachable state of the daemon. *)
THEOREM Invariance == Spec => []Inv
BY InitInv, NextInv, PTL DEF Spec

-----------------------------------------------------------------------------
(* What the invariant says.                                                *)

(* The daemon's structures keep their types. *)
THEOREM TypeCorrectness == Spec => []TypeOK
BY Invariance, PTL DEF Inv

(* No assertion of the daemon ever fails. *)
THEOREM AssertionsHold == Spec => []NoAssertionFails
BY Invariance, PTL DEF Inv

(* While the main loop runs, the idle timer is armed exactly when the      *)
(* daemon holds no request.                                                *)
THEOREM IdleTimer == Spec => []IdleTimerArmedIffIdle
<1>1. Inv => IdleTimerArmedIffIdle
  BY DEF Inv, TimerInv
<1> QED BY <1>1, Invariance, PTL

(* num_requests_pending and the counters of every request are exact. *)
THEOREM Counters == Spec => []CountersAgree
<1>1. Inv => CountersAgree
  BY DEF Inv, CountInv, RequestInv, CountersAgree, Consistent, OverScripts, RunningNoWait
<1> QED BY <1>1, Invariance, PTL

(* A request is answered at most once, when all its scripts are over and   *)
(* nothing refers to it any more.                                          *)
THEOREM Replies == Spec => []RepliesOnceWhenOver
<1>1. ASSUME Inv PROVE RepliesOnceWhenOver
  <2>1. TypeOK /\ RequestInv /\ ProcessInv
    BY <1>1 DEF Inv
  <2> SUFFICES ASSUME NEW r \in Requests
               PROVE  /\ replies[r] <= 1
                      /\ replies[r] > 0 => /\ \A i \in Scripts(req[r]) : Over(req[r], i)
                                           /\ \A p \in alive : p[1] # r
    BY DEF RepliesOnceWhenOver
  <2>2. replies[r] \in Nat /\ replies[r] <= 1 /\ (replies[r] = 1 => AllOver(req[r]))
    BY <2>1 DEF TypeOK, RequestInv
  <2>3. AllOver(req[r]) => \A p \in alive : p[1] # r
    BY <2>1 DEF ProcessInv, Running, AllOver, Over, Results
  <2> QED BY <2>2, <2>3 DEF AllOver
<1> QED BY <1>1, Invariance, PTL

(* At most one "wait" script process is alive, of the current request, and *)
(* no other script of that request beside it.                              *)
THEOREM Serialisation == Spec => []WaitScriptsSerialised
<1>1. ASSUME Inv PROVE WaitScriptsSerialised
  <2>1. TypeOK /\ ProcessInv
    BY <1>1 DEF Inv
  <2>2. ASSUME NEW p \in alive
        PROVE  /\ p[1] \in Requests /\ p = <<p[1], p[2]>> /\ p[2] \in Running(req[p[1]])
               /\ p[2] \in Nat
    BY <2>1 DEF TypeOK, ProcessInv
  <2>3. ASSUME NEW p \in alive, req[p[1]].wait[p[2]]
        PROVE  /\ current_request = p[1]
               /\ p[2] + 1 = req[p[1]].idx
               /\ RunningNoWait(req[p[1]]) = {}
    <3> DEFINE q == req[p[1]]
    <3>1. /\ q \in RequestRecords /\ Consistent(q)
          /\ p[2] \in Scripts(q) /\ q.state[p[2]] = "running"
          /\ p[1] = current_request
      BY <1>1, <2>2, <2>3, RunningIsPending
    <3>2. p[2] + 1 = q.idx /\ p[2] \in Nat \ {0}
      BY <3>1, <2>3, ScriptSets DEF Consistent
    <3>3. Cardinality(RunningNoWait(q)) = 0
      <4>1. Cardinality(RunningNoWait(q)) \in Nat
        BY <3>1, ScriptSets DEF RunningNoWait
      <4> QED BY <4>1, <3>1, <3>2 DEF Consistent
    <3>4. RunningNoWait(q) = {}
      BY <3>1, <3>3, ScriptSets, FS_EmptySet DEF RunningNoWait
    <3> QED BY <3>1, <3>2, <3>4
  <2> SUFFICES ASSUME NEW p \in alive, req[p[1]].wait[p[2]], NEW o \in alive \ {p}
               PROVE  current_request = p[1] /\ o[1] # p[1] /\ ~req[o[1]].wait[o[2]]
    BY <2>3 DEF WaitScriptsSerialised
  <2>4. ~(o[1] = p[1] /\ req[o[1]].wait[o[2]])
    <3> SUFFICES ASSUME o[1] = p[1], req[o[1]].wait[o[2]] PROVE FALSE
      OBVIOUS
    <3>1. o[2] + 1 = p[2] + 1
      BY <2>3
    <3>2. o[2] = p[2]
      BY <3>1, <2>2
    <3> QED BY <3>2, <2>2
  <2>5. o[1] # p[1]
    BY <2>2, <2>3, <2>4 DEF RunningNoWait, Running
  <2> QED BY <2>3, <2>5
<1> QED BY <1>1, Invariance, PTL

(* "Wait" scripts start in the order of the list and of the calls. *)
THEOREM Ordering == Spec => []WaitScriptsInOrder
<1>1. ASSUME Inv PROVE WaitScriptsInOrder
  <2>1. TypeOK /\ RequestInv /\ QueueInv
    BY <1>1 DEF Inv
  <2> SUFFICES ASSUME NEW r \in Requests, NEW i \in Scripts(req[r]),
                      req[r].wait[i], req[r].state[i] # "new",
                      NEW s \in 1 .. r, NEW j \in Scripts(req[s]),
                      req[s].wait[j], s < r \/ j < i
               PROVE  Over(req[s], j)
    BY DEF WaitScriptsInOrder
  <2>2. s \in Requests /\ HasWait(req[r]) /\ HasWait(req[s]) /\ r \in Nat /\ s \in Nat
    BY BoundsAssumption DEF Requests, HasWait
  <2>3. ASSUME NEW x \in Requests, HasWait(req[x])
        PROVE  x <= request_id_counter /\ replies[x] \in {0, 1}
    <3>1. x \in Int /\ request_id_counter \in Int /\ replies[x] \in Nat /\ replies[x] <= 1
      <4>1. x \in Int /\ request_id_counter \in Int
        BY <2>1 DEF TypeOK, Requests
      <4>2. replies[x] \in Nat
        BY <2>1 DEF TypeOK
      <4>3. replies[x] <= 1
        BY <2>1 DEF RequestInv
      <4> QED BY <4>1, <4>2, <4>3
    <3>2. req[x] # NullRequest
      BY <2>3 DEF HasWait, NullRequest, Scripts
    <3> QED BY <3>1, <3>2, <2>1 DEF RequestInv
  <2>4. \A x \in Requests : /\ req[x] \in RequestRecords
                            /\ Scripts(req[x]) = 1 .. Len(req[x].state) /\ Len(req[x].state) \in Nat
                            /\ req[x].idx \in Nat
                            /\ \A k \in Scripts(req[x]) : req[x].state[k] \in ScriptStates
    <3> SUFFICES ASSUME NEW x \in Requests
                 PROVE  /\ req[x] \in RequestRecords
                        /\ Scripts(req[x]) = 1 .. Len(req[x].state) /\ Len(req[x].state) \in Nat
                        /\ req[x].idx \in Nat
                        /\ \A k \in Scripts(req[x]) : req[x].state[k] \in ScriptStates
      OBVIOUS
    <3>1. req[x] \in RequestRecords
      BY <2>1 DEF TypeOK
    <3>2. req[x].idx \in Nat /\ req[x].state \in Seq(ScriptStates)
      BY <3>1 DEF RequestRecords
    <3>3. Scripts(req[x]) = 1 .. Len(req[x].state) /\ Len(req[x].state) \in Nat
      BY <3>1, ScriptSets
    <3> QED BY <3>1, <3>2, <3>3
  <2>5. CASE ~Pending(s)
    BY <2>5, <2>1, <2>2, <2>3 DEF Pending, RequestInv, AllOver
  <2>6. CASE Pending(s) /\ s < r
    <3>1. Pending(r) /\ r # current_request
      BY <2>6, <2>1, <2>2, <2>3 DEF QueueInv
    <3>2. req[r].idx = 1 /\ Consistent(req[r])
      BY <3>1, <2>1, <2>2 DEF RequestInv
    <3>3. i >= req[r].idx
      BY <3>2, <2>4
    <3> QED BY <3>2, <3>3 DEF Consistent
  <2>7. CASE Pending(s) /\ s = r
    <3>1. Consistent(req[r]) /\ j < i /\ i \in Nat /\ j \in Nat
      BY <2>7, <2>1, <2>2, <2>4 DEF RequestInv
    <3>2. i < req[r].idx
      BY <3>1, <2>4 DEF Consistent
    <3>3. req[r].state[j] # "new"
      BY <3>1, <3>2, <2>4, <2>7 DEF Consistent
    <3>4. req[r].state[j] # "running"
      BY <3>1, <3>2, <2>4, <2>7 DEF Consistent
    <3> QED BY <3>3, <3>4, <2>4, <2>7 DEF Over, ScriptStates
  <2> QED BY <2>2, <2>5, <2>6, <2>7
<1> QED BY <1>1, Invariance, PTL

(* A request that the daemon holds has a script running, or waits in the   *)
(* queue behind a current request that has one: the daemon never forgets   *)
(* a request.                                                              *)
THEOREM NothingStranded == Spec => []NoRequestStranded
<1>1. ASSUME Inv PROVE NoRequestStranded
  <2>1. TypeOK /\ RequestInv /\ QueueInv
    BY <1>1 DEF Inv
  <2> SUFFICES ASSUME loop # "exited", NEW r \in Requests, Pending(r), Running(req[r]) = {}
               PROVE  /\ \E k \in DOMAIN requests_waiting : requests_waiting[k] = r
                      /\ current_request \notin {NoRequest, r}
    BY DEF NoRequestStranded, Running
  <2>2. r # NoRequest
    BY BoundsAssumption DEF Requests
  <2>3. r # current_request
    BY <2>1, <2>2 DEF QueueInv
  <2>4. HasWait(req[r])
    <3>1. req[r] \in RequestRecords /\ Consistent(req[r]) /\ ~AllOver(req[r])
      BY <2>1 DEF RequestInv, TypeOK
    <3>2. PICK i \in Scripts(req[r]) : ~Over(req[r], i)
      BY <3>1 DEF AllOver
    <3>3. req[r].state[i] \in ScriptStates
      BY <3>1 DEF RequestRecords, Scripts
    <3>4. req[r].state[i] = "new"
      BY <3>2, <3>3 DEF Running, Over, ScriptStates
    <3>5. req[r].wait[i]
      BY <3>1, <3>4 DEF Consistent
    <3> QED BY <3>5 DEF HasWait
  <2>5. PICK k \in DOMAIN requests_waiting : requests_waiting[k] = r
    BY <2>1, <2>3, <2>4 DEF QueueInv
  <2>6. current_request # NoRequest
    BY <2>1, <2>5 DEF QueueInv
  <2> QED BY <2>3, <2>5, <2>6
<1> QED BY <1>1, Invariance, PTL
-----------------------------------------------------------------------------
(* The daemon implements DispatcherService.                                *)

(* What a callback does to the requests, as seen from the service: which   *)
(* scripts wait is decided when the request is created, and replies are    *)
(* only added.                                                             *)
KeepsWaitLists == \A x \in Requests : req'[x].wait = req[x].wait
OnlyAddsReplies == \A x \in Requests : replies'[x] >= replies[x]

(* CompleteRequests only adds replies. *)
LEMMA CompleteAddsReplies ==
  ASSUME TypeOK, NEW tried \in Seq(Requests), NEW rq, NEW cur, NEW queue, NEW pending,
         NEW armed, NEW ok,
         CompleteRequests(tried, rq, cur, queue, pending, armed, ok)
  PROVE  OnlyAddsReplies /\ req' = rq
<1> DEFINE done == {k \in DOMAIN tried : AllScriptsDone(rq[tried[k]])}
<1>1. replies' = [r \in Requests |-> replies[r] + Cardinality({k \in done : tried[k] = r})]
  BY DEF CompleteRequests
<1>2. ASSUME NEW x \in Requests
      PROVE  replies'[x] >= replies[x]
  <2> DEFINE C == {k \in done : tried[k] = x}
  <2>1. IsFiniteSet(DOMAIN tried)
    BY FS_Interval
  <2>2. C \subseteq DOMAIN tried
    OBVIOUS
  <2> HIDE DEF C
  <2>3. Cardinality(C) \in Nat
    BY <2>1, <2>2, FS_Subset, FS_CardinalityType
  <2>4. replies'[x] = replies[x] + Cardinality(C)
    BY <1>1 DEF C
  <2>5. replies[x] \in Nat
    BY DEF TypeOK
  <2> QED BY <2>3, <2>4, <2>5
<1> QED BY <1>2 DEF OnlyAddsReplies, CompleteRequests

(* dispatch_one_script() does not touch the "wait" flags. *)
LEMMA DispatchKeepsWait ==
  ASSUME NEW rq, NEW x, NEW fail
  PROVE  Dispatch(rq, x, fail).q.wait = rq[x].wait
BY DEF Dispatch, DispatchOneScript

(* complete_script() keeps the "wait" flags and only adds replies. *)
LEMMA CompleteScriptKeeps ==
  ASSUME Inv, NEW r \in Requests, NEW i \in Running(req[r]), NEW result \in Results, NEW fail,
         NEW procs,
         CompleteScript(r, i, [req EXCEPT ![r] = ScriptOver(req[r], i, result)], procs, fail)
  PROVE  KeepsWaitLists /\ OnlyAddsReplies
<1> DEFINE rq   == [req EXCEPT ![r] = ScriptOver(req[r], i, result)]
           step == Dispatch(rq, r, fail)
           rq2  == [rq EXCEPT ![r] = step.q]
<1>1. TypeOK /\ requests_waiting \in Seq(Requests) /\ DOMAIN req = Requests
  BY DEF Inv, TypeOK
<1>2. \A x \in Requests : rq[x].wait = req[x].wait
  BY <1>1 DEF ScriptOver
<1>3. \A x \in Requests : rq2[x].wait = req[x].wait
  <2>1. step.q.wait = rq[r].wait
    BY DispatchKeepsWait
  <2>2. DOMAIN rq = Requests
    BY <1>1
  <2> HIDE DEF rq, step
  <2> QED BY <1>2, <2>1, <2>2
<1>4. CompleteScript(r, i, rq, procs, fail)
  OBVIOUS
<1> HIDE DEF rq
<1>5. CASE \/ CompleteRequests(<<>>, rq2, current_request, requests_waiting,
                               num_requests_pending, quit_id, TRUE)
  <2>1. <<>> \in Seq(Requests)
    OBVIOUS
  <2>2. OnlyAddsReplies /\ req' = rq2
    BY <1>1, <1>5, <2>1, CompleteAddsReplies
  <2> QED BY <1>3, <2>2 DEF KeepsWaitLists
<1>6. ASSUME NEW ok, NextRequests(r, rq2, procs, fail, ok)
      PROVE  KeepsWaitLists /\ OnlyAddsReplies
  <2> DEFINE n     == Len(requests_waiting)
             stops == {k \in 1 .. n : Dispatch(rq2, requests_waiting[k], fail).ret}
             stop  == IF stops = {} THEN n + 1 ELSE Min(stops)
             taken == {requests_waiting[k] : k \in {l \in 1 .. n : l <= stop}}
             tried == <<r>> \o SubSeq(requests_waiting, 1, stop - 1)
             rq3   == [x \in Requests |-> IF x \in taken THEN Dispatch(rq2, x, fail).q
                                          ELSE rq2[x]]
  <2>1. \A x \in Requests : rq3[x].wait = req[x].wait
    <3> HIDE DEF rq2, taken
    <3> QED BY <1>3, DispatchKeepsWait
  <2>2. stop \in 1 .. n + 1
    <3>1. n \in Nat
      BY <1>1
    <3>2. stops \in SUBSET Nat /\ stops \subseteq 1 .. n
      OBVIOUS
    <3> HIDE DEF stops, n
    <3>3. CASE stops = {}
      BY <3>1, <3>3
    <3>4. CASE stops # {}
      <4>1. Min(stops) \in stops
        BY <3>2, <3>4, MinProperties
      <4>2. Min(stops) \in 1 .. n
        BY <4>1, <3>2
      <4>3. stop = Min(stops)
        BY <3>4
      <4> HIDE DEF stop
      <4> QED BY <3>1, <4>2, <4>3
    <3> QED BY <3>3, <3>4
  <2>3. tried \in Seq(Requests)
    <3> HIDE DEF stop
    <3> QED BY <1>1, <2>2, QueueBefore
  <2>4. CompleteRequests(tried, rq3,
                         IF stops = {} THEN NoRequest ELSE requests_waiting[stop],
                         SubSeq(requests_waiting, stop + 1, n),
                         num_requests_pending, quit_id, ok)
    BY <1>6 DEF NextRequests
  <2> HIDE DEF tried, rq3, stops, stop, n
  <2>5. OnlyAddsReplies /\ req' = rq3
    BY <1>1, <2>3, <2>4, CompleteAddsReplies
  <2> QED BY <2>1, <2>5 DEF KeepsWaitLists
<1>7. ASSUME NEW cur, CompleteRequests(<<r>>, rq, cur, requests_waiting,
                                       num_requests_pending, quit_id, TRUE)
      PROVE  KeepsWaitLists /\ OnlyAddsReplies
  <2>1. <<r>> \in Seq(Requests)
    OBVIOUS
  <2>2. OnlyAddsReplies /\ req' = rq
    BY <1>1, <1>7, <2>1, CompleteAddsReplies
  <2> QED BY <1>2, <2>2 DEF KeepsWaitLists
<1> QED BY <1>4, <1>5, <1>6, <1>7 DEF CompleteScript
(* What a step of the daemon is to the service: a call, or the answer to   *)
(* some requests, or its end.                                              *)
CallStep ==
  /\ loop # "exited" /\ request_id_counter < MaxRequests
  /\ request_id_counter' = request_id_counter + 1
  /\ loop' = loop
  /\ \A x \in Requests : x # request_id_counter + 1 =>
       req'[x].wait = req[x].wait /\ replies'[x] = replies[x]

AnswerStep ==
  /\ loop # "exited" /\ loop' # "exited"
  /\ request_id_counter' = request_id_counter
  /\ KeepsWaitLists /\ OnlyAddsReplies

CloseStep ==
  /\ loop # "exited" /\ loop' = "exited"
  /\ UNCHANGED <<request_id_counter, req, replies>>

(* A new request is the only one that _method_call_action() touches. *)
LEMMA CallIsCallStep ==
  ASSUME Inv, NEW list \in ScriptLists, NEW bad, MethodCallAction(list, bad)
  PROVE  CallStep
<1> DEFINE id == request_id_counter + 1
<1>1. TypeOK /\ DOMAIN req = Requests
  BY DEF Inv, TypeOK
<1>2. /\ loop # "exited" /\ request_id_counter < MaxRequests
      /\ request_id_counter' = id
      /\ loop' = loop
  BY DEF MethodCallAction
<1>3. PICK q2, tried, cur, queue, ok :
        /\ tried = <<>> \/ tried = <<id>>
        /\ CompleteRequests(tried, [req EXCEPT ![id] = q2], cur, queue,
                            num_requests_pending + 1, FALSE, ok)
  BY DEF MethodCallAction
<1>4. /\ req' = [req EXCEPT ![id] = q2]
      /\ replies' = [x \in Requests |-> replies[x] +
           Cardinality({k \in {l \in DOMAIN tried : AllScriptsDone([req EXCEPT ![id] = q2][tried[l]])} :
                          tried[k] = x})]
  BY <1>3 DEF CompleteRequests
<1> HIDE DEF id
<1>5. ASSUME NEW x \in Requests, x # id
      PROVE  req'[x].wait = req[x].wait /\ replies'[x] = replies[x]
  <2> DEFINE C == {k \in {l \in DOMAIN tried : AllScriptsDone([req EXCEPT ![id] = q2][tried[l]])} :
                     tried[k] = x}
  <2>1. C = {}
    <3>1. \A k \in DOMAIN tried : tried[k] = id
      BY <1>3
    <3> QED BY <3>1, <1>5
  <2>2. replies'[x] = replies[x] + Cardinality(C)
    BY <1>4
  <2> HIDE DEF C
  <2>3. Cardinality(C) = 0 /\ replies[x] \in Nat
    BY <2>1, FS_EmptySet, <1>1 DEF TypeOK
  <2>4. req'[x] = req[x]
    BY <1>1, <1>4, <1>5
  <2> QED BY <2>2, <2>3, <2>4
<1> QED BY <1>2, <1>5 DEF CallStep, id

(* Every step of the daemon is one of the three, or does not concern the   *)
(* service.                                                                *)
LEMMA StepShape ==
  ASSUME Inv, [Next]_vars
  PROVE  \/ CallStep \/ AnswerStep \/ CloseStep
         \/ UNCHANGED <<request_id_counter, req, replies, loop>>
<1>1. TypeOK
  BY DEF Inv
<1>2. CASE MethodCallNoScripts
  BY <1>1, <1>2 DEF MethodCallNoScripts, CallStep, TypeOK, Requests
<1>3. ASSUME NEW list \in ScriptLists, NEW bad \in SUBSET DOMAIN list, MethodCallAction(list, bad)
      PROVE  CallStep
  BY <1>3, CallIsCallStep
<1>4. ASSUME NEW r \in Requests, NEW i \in Scripts(req[r]), NEW fail \in SUBSET Undispatched,
             ScriptWatchCb(r, i, fail) \/ ScriptTimeoutCb(r, i, fail)
      PROVE  AnswerStep
  <2>1. i \in Running(req[r]) /\ "EXITED" \in Results /\ "TIMEOUT" \in Results
    BY <1>4 DEF ScriptWatchCb, ScriptTimeoutCb, Running, Results
  <2>2. /\ loop # "exited" /\ loop' = loop
        /\ request_id_counter' = request_id_counter
        /\ \/ CompleteScript(r, i, [req EXCEPT ![r] = ScriptOver(req[r], i, "EXITED")], alive, fail)
           \/ CompleteScript(r, i, [req EXCEPT ![r] = ScriptOver(req[r], i, "TIMEOUT")],
                             alive \ {<<r, i>>}, fail)
    BY <1>4 DEF ScriptWatchCb, ScriptTimeoutCb
  <2>3. KeepsWaitLists /\ OnlyAddsReplies
    BY <2>1, <2>2, CompleteScriptKeeps
  <2> QED BY <2>2, <2>3 DEF AnswerStep
<1>5. CASE \E p \in alive : ScriptExits(p[1], p[2])
  BY <1>5 DEF ScriptExits, queueVars
<1>6. CASE QuitTimeoutCb \/ SignalHandler \/ OnNameLost
  <2>1. /\ loop # "exited" /\ loop' # "exited"
        /\ UNCHANGED <<request_id_counter, req, replies>>
    BY <1>6 DEF QuitTimeoutCb, SignalHandler, OnNameLost, MainLoopQuit, queueVars
  <2>2. \A x \in Requests : replies[x] \in Nat
    BY <1>1 DEF TypeOK
  <2> QED BY <2>1, <2>2 DEF AnswerStep, KeepsWaitLists, OnlyAddsReplies
<1>7. CASE MainDone
  BY <1>7 DEF MainDone, CloseStep
<1>8. CASE UNCHANGED vars
  BY <1>8 DEF vars, queueVars
<1> QED BY <1>2, <1>3, <1>4, <1>5, <1>6, <1>7, <1>8 DEF Next
HeldSet    == {r \in Requests : Pending(r)}
SerialSet  == {r \in Requests : Pending(r) /\ HasWait(req[r])}
ServingSet == {r \in Requests : \E i \in Scripts(req[r]) :
                                  req[r].wait[i] /\ req[r].state[i] = "running"}

(* Between two callbacks only the oldest serial request is served, serial  *)
(* requests are held in the order of the calls, and whether a request is   *)
(* serial depends on its "wait" flags only.                                *)
ServiceFacts ==
  /\ request_id_counter \in Nat
  /\ \A r \in Requests : r \in Nat /\ replies[r] \in {0, 1}
  /\ \A r \in ServingSet : r \in SerialSet /\ \A t \in SerialSet : r <= t
  /\ \A r, t \in Requests :
       t \in SerialSet /\ t < r /\ HasWait(req[r]) /\ r <= request_id_counter => r \in SerialSet
  /\ \A r \in Requests : HasWait(req[r]) <=> \E i \in DOMAIN req[r].wait : req[r].wait[i]
  /\ \A r \in Requests : r > request_id_counter => ~HasWait(req[r]) /\ replies[r] = 0

\* The invariant gives what the refinement mapping needs.
LEMMA InvServiceFacts == Inv => ServiceFacts
<1> SUFFICES ASSUME Inv PROVE ServiceFacts
  OBVIOUS
<1>1. TypeOK /\ RequestInv /\ QueueInv
  BY DEF Inv
<1>2. \A r \in Requests : r \in Nat /\ replies[r] \in {0, 1}
  BY <1>1 DEF TypeOK, RequestInv, Requests
<1>3. ASSUME NEW r \in Requests
      PROVE  HasWait(req[r]) <=> \E i \in DOMAIN req[r].wait : req[r].wait[i]
  <2>1. Len(req[r].wait) = Len(req[r].state) /\ req[r] \in RequestRecords
    BY <1>1 DEF RequestInv, TypeOK
  <2>2. DOMAIN req[r].wait = DOMAIN req[r].state
    BY <2>1 DEF RequestRecords
  <2> QED BY <2>2 DEF HasWait, Scripts
<1>4. \A r, t \in Requests :
        t \in SerialSet /\ t < r /\ HasWait(req[r]) /\ r <= request_id_counter =>
          r \in SerialSet /\ r # current_request
  BY <1>1 DEF QueueInv, SerialSet
<1>5. ASSUME NEW r \in ServingSet
      PROVE  r \in SerialSet /\ \A t \in SerialSet : r <= t
  <2>1. PICK i \in Scripts(req[r]) : req[r].wait[i] /\ req[r].state[i] = "running"
    BY DEF ServingSet
  <2>2. r \in Requests /\ i \in Running(req[r]) /\ HasWait(req[r])
    BY <2>1 DEF ServingSet, Running, HasWait
  <2>3. Pending(r) /\ r = current_request
    BY <2>1, <2>2, RunningIsPending
  <2>4. r \in SerialSet
    BY <2>2, <2>3 DEF SerialSet
  <2>5. ASSUME NEW t \in SerialSet
        PROVE  r <= t
    <3>1. t \in Requests /\ t \in Nat /\ r \in Nat /\ r <= request_id_counter
      BY <1>2, <2>2, <2>3 DEF SerialSet, Pending
    <3>2. ~(t < r)
      BY <1>4, <2>2, <2>3, <3>1
    <3> QED BY <3>1, <3>2
  <2> QED BY <2>4, <2>5
<1>6. \A r \in Requests : r > request_id_counter => ~HasWait(req[r]) /\ replies[r] = 0
  BY <1>1 DEF RequestInv, NullRequest, HasWait, Scripts
<1> QED BY <1>1, <1>2, <1>3, <1>4, <1>5, <1>6 DEF ServiceFacts, TypeOK

(* A call of the daemon is a call of the service. *)
LEMMA CallRefines ==
  ASSUME ServiceFacts, ServiceFacts', CallStep
  PROVE  Service!Call
<1> DEFINE id == request_id_counter + 1
<1>1. id \in Nat /\ request_id_counter' = id
  BY DEF ServiceFacts, CallStep
<1>2. /\ loop # "exited" /\ loop' # "exited" /\ (loop' # "exited") = (loop # "exited")
      /\ request_id_counter < MaxRequests
  BY DEF CallStep
<1>3. ASSUME NEW x \in Requests, x # id
      PROVE  /\ Pending(x)' <=> Pending(x)
             /\ HasWait(req[x])' <=> HasWait(req[x])
  <2>1. req'[x].wait = req[x].wait /\ replies'[x] = replies[x]
    BY <1>3 DEF CallStep
  <2>2. x \in Nat /\ request_id_counter \in Nat
    BY DEF ServiceFacts
  <2>3. x <= request_id_counter' <=> x <= request_id_counter
    BY <1>1, <1>3, <2>2
  <2>4. HasWait(req[x]) <=> \E i \in DOMAIN req[x].wait : req[x].wait[i]
    BY DEF ServiceFacts
  <2>5. HasWait(req[x])' <=> \E i \in DOMAIN req'[x].wait : req'[x].wait[i]
    BY DEF ServiceFacts
  <2> QED BY <2>1, <2>3, <2>4, <2>5 DEF Pending
<1>4. ~Pending(id)
  BY DEF Pending, ServiceFacts
<1>5. \/ HeldSet' = HeldSet /\ SerialSet' = SerialSet
      \/ HeldSet' = HeldSet \union {id} /\ SerialSet' = SerialSet
      \/ HeldSet' = HeldSet \union {id} /\ SerialSet' = SerialSet \union {id}
  <2>1. id \in Requests
    BY <1>1, <1>2, BoundsAssumption DEF Requests, ServiceFacts
  <2>2. CASE ~Pending(id)'
    BY <1>3, <1>4, <2>1, <2>2 DEF HeldSet, SerialSet
  <2>3. CASE Pending(id)' /\ ~HasWait(req[id])'
    BY <1>3, <1>4, <2>1, <2>3 DEF HeldSet, SerialSet
  <2>4. CASE Pending(id)' /\ HasWait(req[id])'
    BY <1>3, <1>4, <2>1, <2>4 DEF HeldSet, SerialSet
  <2> QED BY <2>2, <2>3, <2>4
<1>6. ServingSet' \in SUBSET Service!Oldest(SerialSet')
  BY DEF ServiceFacts, Service!Oldest
<1> QED BY <1>1, <1>2, <1>5, <1>6 DEF Service!Call, HeldSet, SerialSet, ServingSet

(* The end of a callback answers the requests that are no longer held: the *)
(* serial ones among them in the order of the calls.                       *)
LEMMA AnswerRefines ==
  ASSUME ServiceFacts, ServiceFacts', AnswerStep
  PROVE  \E s \in SUBSET HeldSet : Service!Answer(s)
<1>0. PICK s : s = HeldSet \ HeldSet'
  OBVIOUS
<1>1. /\ loop # "exited" /\ loop' # "exited" /\ (loop' # "exited") = (loop # "exited")
      /\ request_id_counter' = request_id_counter
  BY DEF AnswerStep
<1>2. ASSUME NEW x \in Requests
      PROVE  /\ Pending(x)' => Pending(x)
             /\ HasWait(req[x])' <=> HasWait(req[x])
  <2>1. req'[x].wait = req[x].wait /\ replies'[x] >= replies[x]
    BY DEF AnswerStep, KeepsWaitLists, OnlyAddsReplies
  <2>2. replies[x] \in {0, 1} /\ replies'[x] \in {0, 1}
    BY DEF ServiceFacts
  <2>4. HasWait(req[x]) <=> \E i \in DOMAIN req[x].wait : req[x].wait[i]
    BY DEF ServiceFacts
  <2>5. HasWait(req[x])' <=> \E i \in DOMAIN req'[x].wait : req'[x].wait[i]
    BY DEF ServiceFacts
  <2> QED BY <1>1, <2>1, <2>2, <2>4, <2>5 DEF Pending
<1>3. HeldSet' = HeldSet \ s
  BY <1>0, <1>2 DEF HeldSet
<1>4. SerialSet' = SerialSet \ s
  BY <1>0, <1>2 DEF HeldSet, SerialSet
<1>5. ASSUME NEW r \in s \intersect SerialSet, NEW t \in SerialSet, t < r
      PROVE  t \in s
  <2>1. /\ r \in Requests /\ t \in Requests
        /\ HasWait(req[r])' /\ r <= request_id_counter' /\ r \notin SerialSet'
    BY <1>1, <1>2, <1>4 DEF SerialSet, Pending
  <2>2. t \notin SerialSet'
    BY <1>5, <2>1 DEF ServiceFacts
  <2> QED BY <2>2, <1>4
<1>6. ServingSet' \in SUBSET Service!Oldest(SerialSet')
  BY DEF ServiceFacts, Service!Oldest
<1>7. s \in SUBSET HeldSet
  BY <1>0
<1>8. Service!Answer(s)
  BY <1>1, <1>3, <1>4, <1>5, <1>6 DEF Service!Answer, HeldSet, SerialSet, ServingSet
<1> QED BY <1>7, <1>8

(* ImplementsService: for any number of requests and any lists of scripts, *)
(* what the daemon does is what the service may do.                        *)
THEOREM Refinement == Spec => ImplementsService
<1>1. Init => Service!Init
  <2> SUFFICES ASSUME Init PROVE Service!Init
    OBVIOUS
  <2>1. \A r \in Requests : ~Pending(r)
    BY DEF Init, Pending, Requests
  <2>2. \A r \in Requests : Scripts(req[r]) = {}
    BY DEF Init, NullRequest, Scripts
  <2> QED BY <2>1, <2>2 DEF Init, Service!Init
<1>2. Inv /\ Inv' /\ [Next]_vars => [Service!Next]_(Service!serviceVars)
  <2> SUFFICES ASSUME Inv, Inv', [Next]_vars PROVE [Service!Next]_(Service!serviceVars)
    OBVIOUS
  <2>1. ServiceFacts
    BY InvServiceFacts
  <2>2. ServiceFacts'
    BY InvServiceFacts, PTL
  <2>3. CASE CallStep
    BY <2>1, <2>2, <2>3, CallRefines DEF Service!Next
  <2>4. CASE AnswerStep
    <3>1. \E s \in SUBSET HeldSet : Service!Answer(s)
      BY <2>1, <2>2, <2>4, AnswerRefines
    <3> QED BY <3>1 DEF Service!Next, HeldSet
  <2>5. CASE CloseStep
    BY <2>5 DEF CloseStep, Service!Next, Service!Close, Pending
  <2>6. CASE UNCHANGED <<request_id_counter, req, replies, loop>>
    BY <2>6 DEF Service!serviceVars, Pending
  <2> QED BY <2>3, <2>4, <2>5, <2>6, StepShape
<1> QED BY <1>1, <1>2, Invariance, PTL DEF Spec, ImplementsService, Service!Spec
=============================================================================
