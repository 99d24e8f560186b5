----------------------- MODULE DeviceActivationProofs -----------------------
(***************************************************************************)
(* What holds of the activation of a device for any set of requests, of    *)
(* which any may need a carrier, in every order of events.                 *)
(*                                                                         *)
(* The functions of the program are chains of calls on a world: the device *)
(* and the active connections.  Core says what each of them may rely on    *)
(* and must leave: the device is sound by itself (Dev), and its requests   *)
(* follow it (FollowsDevice).  Kept says what no function undoes: an       *)
(* active connection only proceeds to its end, and its answer is given     *)
(* once.  Remembers says that nobody who waits for the device is lost.     *)
(* Between two calls of the main loop a world is Sound; within the call    *)
(* that accepts a request this one is excepted until it is answered.       *)
(***************************************************************************)
EXTENDS DeviceActivation, FoldProofs, SequenceTheorems, TLAPS

USE DEF UNMANAGED, UNAVAILABLE, DISCONNECTED, PREPARE, CONFIG, IP_CONFIG, IP_CHECK, SECONDARIES,
        ACTIVATED, DEACTIVATING, FAILED, AC_UNKNOWN, AC_ACTIVATING, AC_ACTIVATED,
        AC_DEACTIVATING, AC_DEACTIVATED

\* e is in the sequence q.
In(q, e) == \E i \in DOMAIN q : q[i] = e

\* A queue of idle sources: at most three of them, each once.
LEMMA QueueIs ==
    ASSUME NEW q
    PROVE  q \in IdleQueues <=>
             \E n \in 0 .. 3 : q \in [1 .. n -> Sources] /\ \A i, j \in 1 .. n : q[i] = q[j] => i = j
<1>1. q \in UNION {[1 .. n -> Sources] : n \in 0 .. 3} <=> \E n \in 0 .. 3 : q \in [1 .. n -> Sources]
  OBVIOUS
<1>2. ASSUME NEW n \in 0 .. 3, q \in [1 .. n -> Sources]
      PROVE  DOMAIN q = 1 .. n
  BY <1>2
<1> QED  BY <1>1, <1>2 DEF IdleQueues

\* A queue of idle sources as a sequence.
LEMMA QueueShape ==
    ASSUME NEW q \in IdleQueues
    PROVE  /\ Len(q) \in 0 .. 3 /\ DOMAIN q = 1 .. Len(q) /\ q \in [1 .. Len(q) -> Sources]
           /\ q \in Seq(Sources)
           /\ \A i, j \in 1 .. Len(q) : q[i] = q[j] => i = j
<1>1. PICK n \in 0 .. 3 : q \in [1 .. n -> Sources] /\ \A i, j \in 1 .. n : q[i] = q[j] => i = j
  BY QueueIs
<1>2. q \in Seq(Sources) /\ Len(q) = n
  BY <1>1
<1> QED  BY <1>1, <1>2

\* Removing the only source of a kind
LEMMA WithoutIs ==
    ASSUME NEW q \in IdleQueues, NEW S,
           \A i, j \in DOMAIN q : q[i] \in S /\ q[j] \in S => i = j
    PROVE  /\ Without(q, S) \in IdleQueues
           /\ \A e : In(Without(q, S), e) <=> In(q, e) /\ e \notin S
<1> DEFINE found == {i \in DOMAIN q : q[i] \in S}
           k == CHOOSE i \in found : TRUE
           r == [i \in 1 .. Len(q) - 1 |-> IF i < k THEN q[i] ELSE q[i + 1]]
<1>1. /\ Len(q) \in 0 .. 3 /\ DOMAIN q = 1 .. Len(q) /\ q \in [1 .. Len(q) -> Sources]
      /\ \A i, j \in 1 .. Len(q) : q[i] = q[j] => i = j
  BY QueueShape
<1>2. CASE found = {}
  <2>1. Without(q, S) = q
    BY <1>2 DEF Without
  <2> QED  BY <1>2, <2>1 DEF In
<1>3. CASE found # {}
  <2>1. Without(q, S) = r
    BY <1>3 DEF Without
  <2>2. k \in DOMAIN q /\ q[k] \in S
    BY <1>3
  <2> HIDE DEF k
  <2>3. \A i \in DOMAIN q : q[i] \in S <=> i = k
    BY <2>2
  <2>4. Len(q) - 1 \in 0 .. 3 /\ r \in [1 .. Len(q) - 1 -> Sources]
    BY <1>1, <2>2
  <2>5. \A i, j \in 1 .. Len(q) - 1 : r[i] = r[j] => i = j
    BY <1>1, <2>2
  <2>6. r \in IdleQueues
    BY <2>4, <2>5, QueueIs
  <2>7. ASSUME NEW e
        PROVE  In(r, e) <=> In(q, e) /\ e \notin S
    <3>1. ASSUME NEW i \in 1 .. Len(q) - 1, r[i] = e
          PROVE  In(q, e) /\ e \notin S
      <4>1. CASE i < k
        BY <1>1, <2>3, <3>1, <4>1 DEF In
      <4>2. CASE ~(i < k)
        <5>1. i + 1 \in DOMAIN q /\ i + 1 # k /\ q[i + 1] = e
          BY <1>1, <2>2, <3>1, <4>2
        <5> QED  BY <2>3, <5>1 DEF In
      <4> QED  BY <4>1, <4>2
    <3>2. ASSUME NEW i \in 1 .. Len(q), q[i] = e, e \notin S
          PROVE  In(r, e)
      <4>1. i # k
        BY <1>1, <2>3, <3>2
      <4>2. CASE i < k
        <5>1. i \in 1 .. Len(q) - 1 /\ r[i] = e
          BY <1>1, <2>2, <3>2, <4>2
        <5> QED  BY <5>1 DEF In
      <4>3. CASE ~(i < k)
        <5>1. i - 1 \in 1 .. Len(q) - 1 /\ r[i - 1] = q[(i - 1) + 1] /\ (i - 1) + 1 = i
          BY <1>1, <2>2, <3>2, <4>1, <4>3
        <5>2. r[i - 1] = e
          BY <3>2, <5>1
        <5> QED  BY <5>1, <5>2 DEF In
      <4> QED  BY <4>2, <4>3
    <3>3. DOMAIN r = 1 .. Len(q) - 1
      OBVIOUS
    <3> HIDE DEF r
    <3> QED  BY <1>1, <3>1, <3>2, <3>3 DEF In
  <2> HIDE DEF r
  <2> QED  BY <2>1, <2>6, <2>7
<1> QED  BY <1>2, <1>3

\* Adding a source that is not there; the stages exclude each other.
LEMMA AppendIs ==
    ASSUME NEW q \in IdleQueues, NEW s \in Sources, ~In(q, s),
           ~(In(q, "stage1") /\ In(q, "stage3")),
           s = "stage1" => ~In(q, "stage3"), s = "stage3" => ~In(q, "stage1")
    PROVE  /\ Append(q, s) \in IdleQueues
           /\ \A e : In(Append(q, s), e) <=> In(q, e) \/ e = s
<1>1. /\ Len(q) \in 0 .. 3 /\ DOMAIN q = 1 .. Len(q) /\ q \in [1 .. Len(q) -> Sources]
      /\ \A i, j \in 1 .. Len(q) : q[i] = q[j] => i = j
      /\ q \in Seq(Sources)
  BY QueueShape
<1> DEFINE r == Append(q, s)
<1>2. /\ r \in [1 .. Len(q) + 1 -> Sources] /\ r[Len(q) + 1] = s
      /\ \A i \in 1 .. Len(q) : r[i] = q[i]
  <2>1. /\ r \in Seq(Sources) /\ Len(r) = Len(q) + 1 /\ r[Len(q) + 1] = s
        /\ \A i \in 1 .. Len(q) : r[i] = q[i]
    BY <1>1, AppendProperties
  <2> HIDE DEF r
  <2>2. r \in [1 .. Len(r) -> Sources]
    BY <2>1, LenProperties
  <2> QED  BY <2>1, <2>2
<1> HIDE DEF r
<1>3. Len(q) # 3
  <2> SUFFICES ASSUME Len(q) = 3
               PROVE  FALSE
    OBVIOUS
  <2>1. /\ q[1] \in Sources /\ q[2] \in Sources /\ q[3] \in Sources
        /\ q[1] # q[2] /\ q[1] # q[3] /\ q[2] # q[3]
        /\ q[1] # s /\ q[2] # s /\ q[3] # s
    BY <1>1 DEF In
  <2>2. In(q, q[1]) /\ In(q, q[2]) /\ In(q, q[3])
    BY <1>1 DEF In
  <2> HIDE DEF In
  <2> QED  BY <2>1, <2>2 DEF Sources
<1>4. \A i, j \in 1 .. Len(q) + 1 : r[i] = r[j] => i = j
  BY <1>1, <1>2 DEF In
<1>5. r \in IdleQueues
  <2>1. Len(q) + 1 \in 0 .. 3
    BY <1>1, <1>3
  <2> QED  BY <1>2, <1>4, <2>1, QueueIs
<1>6. ASSUME NEW e
      PROVE  In(r, e) <=> In(q, e) \/ e = s
  BY <1>1, <1>2 DEF In
<1> QED  BY <1>5, <1>6 DEF r

\* The main loop takes the first source.
LEMMA TailIs ==
    ASSUME NEW q \in IdleQueues, q # << >>
    PROVE  /\ Tail(q) \in IdleQueues /\ Head(q) \in Sources /\ In(q, Head(q))
           /\ \A e : In(Tail(q), e) <=> In(q, e) /\ e # Head(q)
<1>1. /\ Len(q) \in 0 .. 3 /\ DOMAIN q = 1 .. Len(q) /\ q \in [1 .. Len(q) -> Sources]
      /\ \A i, j \in 1 .. Len(q) : q[i] = q[j] => i = j
      /\ q \in Seq(Sources)
  BY QueueShape
<1>2. Len(q) >= 1 /\ Head(q) = q[1]
  BY <1>1
<1> DEFINE r == Tail(q)
<1>3. r \in [1 .. Len(q) - 1 -> Sources] /\ \A i \in 1 .. Len(q) - 1 : r[i] = q[i + 1]
  <2>1. r \in Seq(Sources) /\ Len(r) = Len(q) - 1 /\ \A i \in 1 .. Len(r) : r[i] = q[i + 1]
    BY <1>1, HeadTailProperties
  <2> HIDE DEF r
  <2>2. r \in [1 .. Len(r) -> Sources]
    BY <2>1, LenProperties
  <2> QED  BY <2>1, <2>2
<1> HIDE DEF r
<1>4. \A i, j \in 1 .. Len(q) - 1 : r[i] = r[j] => i = j
  BY <1>1, <1>3
<1>5. r \in IdleQueues
  <2>1. Len(q) - 1 \in 0 .. 3
    BY <1>1, <1>2
  <2> QED  BY <1>3, <1>4, <2>1, QueueIs
<1>6. ASSUME NEW e
      PROVE  In(r, e) <=> In(q, e) /\ e # Head(q)
  <2>1. ASSUME NEW i \in 1 .. Len(q) - 1, r[i] = e
        PROVE  In(q, e) /\ e # q[1]
    <3>1. i + 1 \in 1 .. Len(q) /\ i + 1 # 1 /\ q[i + 1] = e /\ 1 \in 1 .. Len(q)
      BY <1>1, <1>3, <2>1
    <3> QED  BY <1>1, <3>1 DEF In
  <2>2. ASSUME NEW i \in 1 .. Len(q), q[i] = e, e # q[1]
        PROVE  In(r, e)
    <3>1. i - 1 \in 1 .. Len(q) - 1 /\ (i - 1) + 1 = i
      BY <1>1, <2>2
    <3>2. r[i - 1] = e
      BY <1>3, <2>2, <3>1
    <3> QED  BY <1>3, <3>1, <3>2 DEF In
  <2> QED  BY <1>1, <1>2, <1>3, <2>1, <2>2 DEF In
<1> QED  BY <1>1, <1>2, <1>5, <1>6 DEF r, In

-----------------------------------------------------------------------------
(* The device *)

\* At most one stage is pending, and a state is queued if its source is there.
Sane(d) ==
    /\ ~(Pending(d, "stage1") /\ Pending(d, "stage3"))
    /\ Pending(d, "state") <=> d.queued_state # 0

Devs == {d \in Devices : Sane(d)}

\* The devices differ in what is queued only.
Alike(d, e) ==
    /\ e.state = d.state /\ e.managed = d.managed
    /\ e.act_request = d.act_request /\ e.queued_act_request = d.queued_act_request
    /\ e.waiting_for_carrier = d.waiting_for_carrier
    /\ e.fw = d.fw /\ e.ping = d.ping /\ e.call = d.call /\ e.deactivating = d.deactivating
    /\ e.carrier = d.carrier /\ e.carrier_wait = d.carrier_wait
    /\ e.carrier_defer = d.carrier_defer

\* A source is pending if it is in the queue of the device.
LEMMA PendingIsIn == \A d, e : Pending(d, e) <=> In(d.idle, e)
BY DEF Pending, In

\* The queue of a device: not two stages, and a state if and only if one is queued.
LEMMA IdleOf ==
    ASSUME NEW d \in Devs
    PROVE  /\ d \in Devices /\ d.idle \in IdleQueues
           /\ ~(In(d.idle, "stage1") /\ In(d.idle, "stage3"))
           /\ In(d.idle, "state") <=> d.queued_state # 0
BY PendingIsIn DEF Devs, Devices, Sane

\* A device with another queue and another queued state
LEMMA Requeued ==
    ASSUME NEW d \in Devs, NEW q \in IdleQueues, NEW s \in DeviceStates \cup {0},
           ~(In(q, "stage1") /\ In(q, "stage3")), In(q, "state") <=> s # 0,
           NEW e, e = [d EXCEPT !.queued_state = s, !.idle = q]
    PROVE  /\ e \in Devs /\ Alike(d, e) /\ e.queued_state = s
           /\ \A x : Pending(e, x) <=> In(q, x)
<1>1. d \in Devices
  BY DEF Devs
<1>2. e \in Devices /\ e.idle = q /\ e.queued_state = s
  BY <1>1 DEF Devices
<1>3. Alike(d, e)
  BY <1>1 DEF Devices, Alike
<1>4. \A x : Pending(e, x) <=> In(q, x)
  BY <1>2, PendingIsIn
<1>5. e \in Devs
  BY <1>2, <1>4 DEF Devs, Sane
<1> QED  BY <1>2, <1>3, <1>4, <1>5

\* A device with another queue that has the queued state as before
LEMMA Reordered ==
    ASSUME NEW d \in Devs, NEW q \in IdleQueues,
           ~(In(q, "stage1") /\ In(q, "stage3")), In(q, "state") <=> In(d.idle, "state"),
           NEW e, e = [d EXCEPT !.idle = q]
    PROVE  /\ e \in Devs /\ Alike(d, e) /\ e.queued_state = d.queued_state
           /\ \A x : Pending(e, x) <=> In(q, x)
<1>1. d \in Devices
  BY DEF Devs
<1>2. e \in Devices /\ e.idle = q /\ e.queued_state = d.queued_state
  BY <1>1 DEF Devices
<1>3. Alike(d, e)
  BY <1>1 DEF Devices, Alike
<1>4. \A x : Pending(e, x) <=> In(q, x)
  BY <1>2, PendingIsIn
<1>5. e \in Devs
  BY <1>2, <1>4, IdleOf DEF Devs, Sane
<1> QED  BY <1>2, <1>3, <1>4, <1>5

\* g_source_remove() on the queued state leaves the other sources.
LEMMA WithoutState ==
    ASSUME NEW d \in Devs
    PROVE  /\ Without(d.idle, {"state"}) \in IdleQueues
           /\ \A x : In(Without(d.idle, {"state"}), x) <=> In(d.idle, x) /\ x # "state"
<1>1. d.idle \in IdleQueues
  BY IdleOf
<1>2. \A i, j \in DOMAIN d.idle : d.idle[i] \in {"state"} /\ d.idle[j] \in {"state"} => i = j
  BY <1>1, QueueShape
<1> QED  BY <1>1, <1>2, WithoutIs

\* g_source_remove() on the stages leaves the other sources.
LEMMA WithoutStages ==
    ASSUME NEW d \in Devs
    PROVE  /\ Without(d.idle, {"stage1", "stage3"}) \in IdleQueues
           /\ \A x : In(Without(d.idle, {"stage1", "stage3"}), x) <=>
                        In(d.idle, x) /\ x \notin {"stage1", "stage3"}
<1>1. d.idle \in IdleQueues /\ ~(In(d.idle, "stage1") /\ In(d.idle, "stage3"))
  BY IdleOf
<1>2. \A i, j \in DOMAIN d.idle : d.idle[i] \in {"stage1", "stage3"} /\ d.idle[j] \in {"stage1", "stage3"} => i = j
  BY <1>1, QueueShape DEF In
<1> QED  BY <1>1, <1>2, WithoutIs

\* nm_device_queue_state: one state is queued, the last one.
LEMMA QueueStateIs ==
    ASSUME NEW d \in Devs, NEW s \in DeviceStates
    PROVE  /\ QueueState(d, s) \in Devs /\ Alike(d, QueueState(d, s))
           /\ QueueState(d, s).queued_state = s
           /\ \A x : x # "state" => (Pending(QueueState(d, s), x) <=> Pending(d, x))
<1> DEFINE q == Append(Without(d.idle, {"state"}), "state")
<1>1. CASE d.queued_state = s
  <2>1. QueueState(d, s) = d
    BY <1>1 DEF QueueState
  <2> QED  BY <1>1, <2>1 DEF Alike
<1>2. CASE d.queued_state # s
  <2>1. QueueState(d, s) = [d EXCEPT !.queued_state = s, !.idle = q]
    BY <1>2 DEF QueueState
  <2>2. q \in IdleQueues /\ \A x : In(q, x) <=> In(d.idle, x) \/ x = "state"
    BY IdleOf, WithoutState, AppendIs DEF Sources
  <2>3. s # 0
    BY DEF DeviceStates
  <2> HIDE DEF q
  <2>4. /\ ~(In(q, "stage1") /\ In(q, "stage3")) /\ (In(q, "state") <=> s # 0)
        /\ s \in DeviceStates \cup {0}
    BY <2>2, <2>3, IdleOf
  <2> DEFINE e == QueueState(d, s)
  <2> HIDE DEF e
  <2>5. e \in Devs /\ Alike(d, e) /\ e.queued_state = s /\ \A x : Pending(e, x) <=> In(q, x)
    BY <2>1, <2>2, <2>4, Requeued DEF e
  <2> QED  BY <2>2, <2>5, PendingIsIn DEF e
<1> QED  BY <1>1, <1>2

\* queued_state_clear: no state is queued, and its source is gone.
LEMMA QueuedStateClearIs ==
    ASSUME NEW d \in Devs
    PROVE  /\ QueuedStateClear(d) \in Devs /\ Alike(d, QueuedStateClear(d))
           /\ QueuedStateClear(d).queued_state = 0
           /\ \A x : x # "state" => (Pending(QueuedStateClear(d), x) <=> Pending(d, x))
<1> DEFINE q == Without(d.idle, {"state"})
<1>1. QueuedStateClear(d) = [d EXCEPT !.queued_state = 0, !.idle = q]
  BY DEF QueuedStateClear
<1>2. q \in IdleQueues /\ \A x : In(q, x) <=> In(d.idle, x) /\ x # "state"
  BY WithoutState
<1> HIDE DEF q
<1>3. ~(In(q, "stage1") /\ In(q, "stage3")) /\ (In(q, "state") <=> 0 # 0)
  BY <1>2, IdleOf
<1> DEFINE e == QueuedStateClear(d)
<1> HIDE DEF e
<1>4. e \in Devs /\ Alike(d, e) /\ e.queued_state = 0 /\ \A x : Pending(e, x) <=> In(q, x)
  BY <1>1, <1>2, <1>3, Requeued DEF e
<1> QED  BY <1>2, <1>4, PendingIsIn DEF e

\* activation_source_schedule: one stage is pending, the last one.
LEMMA ScheduleIs ==
    ASSUME NEW d \in Devs, NEW g \in {"stage1", "stage3"}
    PROVE  /\ Schedule(d, g) \in Devs /\ Alike(d, Schedule(d, g))
           /\ Schedule(d, g).queued_state = d.queued_state
           /\ Pending(Schedule(d, g), g)
           /\ \A x \in {"stage1", "stage3"} : x # g => ~Pending(Schedule(d, g), x)
<1> DEFINE q == Append(Without(d.idle, {"stage1", "stage3"}), g)
<1>1. CASE Pending(d, g)
  <2>1. Schedule(d, g) = d
    BY <1>1 DEF Schedule
  <2> QED  BY <1>1, <2>1 DEF Alike, Devs, Sane
<1>2. CASE ~Pending(d, g)
  <2>1. Schedule(d, g) = [d EXCEPT !.idle = q]
    BY <1>2 DEF Schedule
  <2>2. q \in IdleQueues /\ \A x : In(q, x) <=> (In(d.idle, x) /\ x \notin {"stage1", "stage3"}) \/ x = g
    BY IdleOf, WithoutStages, AppendIs DEF Sources
  <2> HIDE DEF q
  <2>3. ~(In(q, "stage1") /\ In(q, "stage3")) /\ (In(q, "state") <=> In(d.idle, "state"))
    BY <2>2, IdleOf
  <2> DEFINE e == Schedule(d, g)
  <2> HIDE DEF e
  <2>4. e = [d EXCEPT !.idle = q]
    BY <2>1 DEF e
  <2>5. /\ e \in Devs /\ Alike(d, e) /\ e.queued_state = d.queued_state
        /\ \A x : Pending(e, x) <=> In(q, x)
    BY <2>2, <2>3, <2>4, Reordered
  <2> QED  BY <2>2, <2>5 DEF e
<1> QED  BY <1>1, <1>2

\* nm_device_queue_recheck_available adds its source and nothing else.
LEMMA QueueRecheckIs ==
    ASSUME NEW d \in Devs
    PROVE  /\ QueueRecheckAvailable(d) \in Devs /\ Alike(d, QueueRecheckAvailable(d))
           /\ QueueRecheckAvailable(d).queued_state = d.queued_state
           /\ \A x : x # "recheck" => (Pending(QueueRecheckAvailable(d), x) <=> Pending(d, x))
<1> DEFINE q == Append(d.idle, "recheck")
<1>1. CASE Pending(d, "recheck")
  <2>1. QueueRecheckAvailable(d) = d
    BY <1>1 DEF QueueRecheckAvailable
  <2> QED  BY <2>1 DEF Alike
<1>2. CASE ~Pending(d, "recheck")
  <2>1. QueueRecheckAvailable(d) = [d EXCEPT !.idle = q]
    BY <1>2 DEF QueueRecheckAvailable
  <2>2. q \in IdleQueues /\ \A x : In(q, x) <=> In(d.idle, x) \/ x = "recheck"
    BY <1>2, IdleOf, AppendIs, PendingIsIn DEF Sources
  <2> HIDE DEF q
  <2>3. ~(In(q, "stage1") /\ In(q, "stage3")) /\ (In(q, "state") <=> In(d.idle, "state"))
    BY <2>2, IdleOf
  <2> DEFINE e == QueueRecheckAvailable(d)
  <2> HIDE DEF e
  <2>4. e = [d EXCEPT !.idle = q]
    BY <2>1 DEF e
  <2>5. /\ e \in Devs /\ Alike(d, e) /\ e.queued_state = d.queued_state
        /\ \A x : Pending(e, x) <=> In(q, x)
    BY <2>2, <2>3, <2>4, Reordered
  <2> QED  BY <2>2, <2>5, PendingIsIn DEF e
<1> QED  BY <1>1, <1>2

\* The main loop takes the first source, a queued state with it.
LEMMA TailTaken ==
    ASSUME NEW d \in Devs, d.idle # << >>, NEW s \in DeviceStates \cup {0},
           s = IF Head(d.idle) = "state" THEN 0 ELSE d.queued_state,
           NEW e, e = [d EXCEPT !.queued_state = s, !.idle = Tail(d.idle)]
    PROVE  /\ e \in Devs /\ Alike(d, e) /\ e.queued_state = s
           /\ \A x : Pending(e, x) <=> Pending(d, x) /\ x # Head(d.idle)
           /\ Pending(d, Head(d.idle)) /\ Head(d.idle) \in Sources
<1> DEFINE q == Tail(d.idle)
<1>1. /\ q \in IdleQueues /\ Head(d.idle) \in Sources /\ In(d.idle, Head(d.idle))
      /\ \A x : In(q, x) <=> In(d.idle, x) /\ x # Head(d.idle)
  BY IdleOf, TailIs
<1>2. e = [d EXCEPT !.queued_state = s, !.idle = q]
  OBVIOUS
<1> HIDE DEF q
<1>3. ~(In(q, "stage1") /\ In(q, "stage3")) /\ (In(q, "state") <=> s # 0)
  BY <1>1, IdleOf
<1>4. q \in IdleQueues
  BY <1>1
<1>5. ~(In(q, "stage1") /\ In(q, "stage3"))
  BY <1>3
<1>6. In(q, "state") <=> s # 0
  BY <1>3
<1>7. e \in Devs
  BY <1>2, <1>4, <1>5, <1>6, Requeued
<1>8. Alike(d, e)
  BY <1>2, <1>4, <1>5, <1>6, Requeued
<1>9. e.queued_state = s
  BY <1>2, IdleOf DEF Devices
<1>10. \A x : Pending(e, x) <=> In(q, x)
  BY <1>2, <1>4, <1>5, <1>6, Requeued
<1> QED  BY <1>1, <1>7, <1>8, <1>9, <1>10, PendingIsIn

\* A device with other fields and the same queue
LEMMA Adjusted ==
    ASSUME NEW d \in Devs, NEW e \in Devices,
           e.idle = d.idle, e.queued_state = d.queued_state
    PROVE  e \in Devs /\ \A x : Pending(e, x) <=> Pending(d, x)
<1>1. \A x : Pending(e, x) <=> Pending(d, x)
  BY DEF Pending
<1> QED  BY <1>1 DEF Devs, Sane

\* The stages are not pending and nobody else moves the activation along.
Quiet(d) ==
    /\ ~Pending(d, "stage1") /\ ~Pending(d, "stage3")
    /\ d.fw \notin {"wait_stage_3", "wait_ip_config"} /\ ~d.ping

\* _cancel_activation: no stage, firewall call or ping is left.
LEMMA CancelIs ==
    ASSUME NEW d \in Devs, NEW e, e = CancelActivation(d)
    PROVE  /\ e \in Devs /\ Quiet(e)
           /\ e.state = d.state /\ e.managed = d.managed
           /\ e.act_request = d.act_request /\ e.queued_act_request = d.queued_act_request
           /\ e.waiting_for_carrier = d.waiting_for_carrier
           /\ e.call = d.call /\ e.deactivating = d.deactivating
           /\ e.carrier = d.carrier /\ e.carrier_wait = d.carrier_wait
           /\ e.queued_state = d.queued_state
<1> DEFINE q == Without(d.idle, {"stage1", "stage3"})
           fw == IF d.fw \in {"wait_stage_3", "wait_ip_config"} THEN "initialized" ELSE d.fw
           c == [d EXCEPT !.fw = fw, !.ping = FALSE]
<1>1. d \in Devices
  BY DEF Devs
<1>2. q \in IdleQueues /\ \A x : In(q, x) <=> In(d.idle, x) /\ x \notin {"stage1", "stage3"}
  BY WithoutStages
<1>3. fw \in {"unmanaged", "initialized"}
  BY <1>1 DEF Devices
<1>4. e = [d EXCEPT !.fw = fw, !.ping = FALSE, !.idle = q]
  BY DEF CancelActivation
<1> HIDE DEF q, fw
<1>5. /\ c \in Devices /\ c.idle = d.idle /\ c.queued_state = d.queued_state
      /\ c.state = d.state /\ c.managed = d.managed
      /\ c.act_request = d.act_request /\ c.queued_act_request = d.queued_act_request
      /\ c.waiting_for_carrier = d.waiting_for_carrier
      /\ c.call = d.call /\ c.deactivating = d.deactivating
      /\ c.carrier = d.carrier /\ c.carrier_wait = d.carrier_wait
      /\ c.fw = fw /\ c.ping = FALSE
  BY <1>1, <1>3 DEF Devices
<1>6. e = [c EXCEPT !.idle = q]
  BY <1>1, <1>4 DEF Devices
<1> HIDE DEF c
<1>7. c \in Devs
  BY <1>5, Adjusted
<1>8. ~(In(q, "stage1") /\ In(q, "stage3")) /\ (In(q, "state") <=> In(c.idle, "state"))
  BY <1>2, <1>5
<1>9. /\ e \in Devs /\ Alike(c, e) /\ e.queued_state = c.queued_state
      /\ \A x : Pending(e, x) <=> In(q, x)
  BY <1>2, <1>6, <1>7, <1>8, Reordered
<1> QED  BY <1>2, <1>3, <1>5, <1>9 DEF Alike, Quiet

\* nm_device_cleanup: also no queued state, and the request is dropped.
LEMMA CleanupIs ==
    ASSUME NEW d \in Devs, NEW e, e = Cleanup(d)
    PROVE  /\ e \in Devs /\ Quiet(e)
           /\ e.state = d.state /\ e.managed = d.managed
           /\ e.act_request = None /\ e.queued_act_request = d.queued_act_request
           /\ e.waiting_for_carrier = d.waiting_for_carrier
           /\ e.call = d.call /\ e.deactivating = d.deactivating
           /\ e.carrier = d.carrier /\ e.carrier_wait = d.carrier_wait
           /\ e.queued_state = 0
<1> DEFINE a == CancelActivation(d)
           b == QueuedStateClear(a)
<1>1. a \in Devs /\ Quiet(a)
      /\ a.state = d.state /\ a.managed = d.managed
      /\ a.queued_act_request = d.queued_act_request
      /\ a.waiting_for_carrier = d.waiting_for_carrier
      /\ a.call = d.call /\ a.deactivating = d.deactivating
      /\ a.carrier = d.carrier /\ a.carrier_wait = d.carrier_wait
  <2> HIDE DEF a
  <2>1. a = CancelActivation(d)
    BY DEF a
  <2> QED  BY <2>1, CancelIs
<1> HIDE DEF a
<1>2. /\ b \in Devs /\ Alike(a, b) /\ b.queued_state = 0
      /\ \A x : x # "state" => (Pending(b, x) <=> Pending(a, x))
  BY <1>1, QueuedStateClearIs
<1>3. e = [b EXCEPT !.fw = "unmanaged", !.act_request = None]
  BY DEF Cleanup, a
<1> HIDE DEF b
<1>4. b \in Devices
  BY <1>2 DEF Devs
<1>5. /\ e \in Devices /\ e.idle = b.idle /\ e.queued_state = b.queued_state
      /\ e.state = b.state /\ e.managed = b.managed
      /\ e.act_request = None /\ e.queued_act_request = b.queued_act_request
      /\ e.waiting_for_carrier = b.waiting_for_carrier
      /\ e.call = b.call /\ e.deactivating = b.deactivating
      /\ e.carrier = b.carrier /\ e.carrier_wait = b.carrier_wait
      /\ e.fw = "unmanaged" /\ e.ping = b.ping
  BY <1>3, <1>4 DEF Devices
<1>6. e \in Devs /\ \A x : Pending(e, x) <=> Pending(b, x)
  BY <1>2, <1>5, Adjusted
<1> QED  BY <1>1, <1>2, <1>5, <1>6 DEF Alike, Quiet

\* e is the device d at the begin of its new state s.
Entered(d, s, e) ==
    /\ e \in Devs
    /\ e.state = s /\ e.managed = d.managed
    /\ e.act_request = d.act_request /\ e.queued_act_request = d.queued_act_request
    /\ e.waiting_for_carrier = d.waiting_for_carrier
    /\ e.call = "none" /\ e.deactivating = FALSE
    /\ e.carrier = d.carrier /\ e.carrier_wait = d.carrier_wait
    /\ e.queued_state = 0
    /\ e.fw = d.fw /\ e.ping = d.ping
    /\ \A x : x # "state" => (Pending(e, x) <=> Pending(d, x))

\* The begin of _set_state_full puts the device into its new state.
LEMMA EnterIs ==
    ASSUME NEW d \in Devs, NEW s \in DeviceStates, NEW e, e = Enter(d, s)
    PROVE  Entered(d, s, e)
<1> DEFINE b == QueuedStateClear(d)
<1>2. /\ b \in Devs /\ Alike(d, b) /\ b.queued_state = 0
      /\ \A x : x # "state" => (Pending(b, x) <=> Pending(d, x))
  BY QueuedStateClearIs
<1>3. e = [b EXCEPT !.state = s, !.call = "none", !.deactivating = FALSE]
  BY DEF Enter
<1> HIDE DEF b
<1>4. b \in Devices
  BY <1>2 DEF Devs
<1>5. /\ e \in Devices /\ e.idle = b.idle /\ e.queued_state = b.queued_state
      /\ e.state = s /\ e.managed = b.managed
      /\ e.act_request = b.act_request /\ e.queued_act_request = b.queued_act_request
      /\ e.waiting_for_carrier = b.waiting_for_carrier
      /\ e.call = "none" /\ e.deactivating = FALSE
      /\ e.carrier = b.carrier /\ e.carrier_wait = b.carrier_wait
      /\ e.fw = b.fw /\ e.ping = b.ping
  BY <1>3, <1>4 DEF Devices
<1>6. e \in Devs /\ \A x : Pending(e, x) <=> Pending(b, x)
  BY <1>2, <1>5, Adjusted
<1> QED  BY <1>2, <1>5, <1>6 DEF Alike, Entered

\* A stage, a call or a timer serves the state that started it.
Serves(d) ==
    /\ Pending(d, "stage1") => d.state = DISCONNECTED /\ d.act_request # None
    /\ Pending(d, "stage3") => d.state = CONFIG /\ d.fw # "wait_stage_3"
    /\ d.fw = "wait_stage_3" => d.state = CONFIG
    /\ d.fw = "wait_ip_config" => d.state = IP_CHECK /\ ~d.ping
    /\ d.ping => d.state = IP_CHECK
    /\ d.call = "pre-up" => d.state = IP_CHECK /\ ~d.ping /\ d.fw # "wait_ip_config"
    /\ d.call = "pre-down" \/ d.deactivating => d.state = DEACTIVATING

\* The queued state is one that may follow the state of the device.
Queues(d) ==
    /\ d.queued_state \in {0, UNMANAGED, UNAVAILABLE, DISCONNECTED, SECONDARIES, ACTIVATED}
    /\ d.queued_state = UNAVAILABLE => d.state >= DISCONNECTED \/ d.state = UNMANAGED
    /\ d.queued_state = DISCONNECTED => d.state \in {UNAVAILABLE, DEACTIVATING, FAILED}
    /\ d.queued_state = SECONDARIES => d.state = IP_CHECK /\ ~d.ping /\ d.fw # "wait_ip_config"
    /\ d.queued_state = ACTIVATED => d.state = SECONDARIES

\* The device has a request while it is activated, and not the queued one.
Holds(d) ==
    /\ d.state < DISCONNECTED => d.act_request = None
    /\ d.state > DISCONNECTED => d.act_request # None
    /\ d.act_request # None => d.act_request # d.queued_act_request

Dev(d) == d \in Devs /\ Serves(d) /\ Queues(d) /\ Holds(d)

\* The types of the fields of a device.
LEMMA StatesAre ==
    ASSUME NEW d \in Devs
    PROVE  /\ d.state \in DeviceStates /\ d.state \in Nat
           /\ d.act_request \in ACs \cup {None} /\ d.queued_act_request \in ACs \cup {None}
           /\ d.queued_state \in DeviceStates \cup {0}
           /\ d.managed \in BOOLEAN /\ d.waiting_for_carrier \in BOOLEAN
           /\ d.fw \in {"unmanaged", "wait_stage_3", "wait_ip_config", "initialized"}
           /\ d.call \in {"none", "pre-up", "pre-down"}
           /\ d.carrier \in BOOLEAN /\ d.carrier_wait \in BOOLEAN /\ d.carrier_defer \in BOOLEAN
           /\ d.ping \in BOOLEAN /\ d.deactivating \in BOOLEAN
<1>1. d \in Devices
  BY DEF Devs
<1>2. d.state \in DeviceStates
  BY <1>1 DEF Devices
<1>3. d.state \in Nat
  BY <1>2 DEF DeviceStates
<1> QED  BY <1>1, <1>2, <1>3 DEF Devices

\* The same stages are pending.
SameStages(d, e) ==
    /\ Pending(e, "stage1") <=> Pending(d, "stage1")
    /\ Pending(e, "stage3") <=> Pending(d, "stage3")

\* A device stays sound when only a queued state that may follow comes or goes.
LEMMA StillServes ==
    ASSUME NEW d, Dev(d), NEW e \in Devs, Alike(d, e), SameStages(d, e), Queues(e)
    PROVE  Dev(e)
<1>1. Serves(e)
  BY DEF Dev, Serves, Alike, SameStages
<1>2. Holds(e)
  BY DEF Dev, Holds, Alike
<1> QED  BY <1>1, <1>2 DEF Dev

\* The states that the program queues, and when
MayQueue(d, s) ==
    \/ s = UNMANAGED
    \/ s = UNAVAILABLE /\ (d.state >= DISCONNECTED \/ d.state = UNMANAGED)
    \/ s = DISCONNECTED /\ d.state \in {UNAVAILABLE, DEACTIVATING, FAILED}
    \/ s = SECONDARIES /\ d.state = IP_CHECK /\ ~d.ping /\ d.fw # "wait_ip_config"
    \/ s = ACTIVATED /\ d.state = SECONDARIES

\* A queued state that may be queued may follow.
LEMMA MayBeQueued ==
    ASSUME NEW e \in Devs, MayQueue(e, e.queued_state)
    PROVE  Queues(e)
<1>1. e.state \in DeviceStates
  BY StatesAre
<1>2. CASE e.queued_state \in {UNMANAGED, UNAVAILABLE}
  BY <1>2 DEF Queues, MayQueue
<1>3. CASE e.queued_state = DISCONNECTED
  BY <1>3 DEF Queues, MayQueue
<1>4. CASE e.queued_state = SECONDARIES
  BY <1>4 DEF Queues, MayQueue
<1>5. CASE e.queued_state = ACTIVATED
  BY <1>5 DEF Queues, MayQueue
<1> QED  BY <1>2, <1>3, <1>4, <1>5 DEF MayQueue

\* Queueing a state that may follow keeps a device sound.
LEMMA Queued ==
    ASSUME NEW d, Dev(d), NEW s, MayQueue(d, s), NEW e, e = QueueState(d, s)
    PROVE  Dev(e) /\ Alike(d, e) /\ SameStages(d, e)
<1>1. d \in Devs
  BY DEF Dev
<1>2. s \in DeviceStates
  BY DEF MayQueue, DeviceStates
<1>3. /\ e \in Devs /\ Alike(d, e) /\ e.queued_state = s
      /\ \A x : x # "state" => (Pending(e, x) <=> Pending(d, x))
  BY <1>1, <1>2, QueueStateIs
<1>4. MayQueue(e, s)
  BY <1>3 DEF MayQueue, Alike
<1>5. Queues(e)
  BY <1>3, <1>4, MayBeQueued
<1>6. SameStages(d, e)
  BY <1>3 DEF SameStages
<1> QED  BY <1>3, <1>5, <1>6, StillServes

\* Clearing the queued state keeps a device sound.
LEMMA Cleared ==
    ASSUME NEW d, Dev(d), NEW e, e = QueuedStateClear(d)
    PROVE  Dev(e) /\ Alike(d, e) /\ SameStages(d, e)
<1>1. d \in Devs
  BY DEF Dev
<1>2. /\ e \in Devs /\ Alike(d, e) /\ e.queued_state = 0
      /\ \A x : x # "state" => (Pending(e, x) <=> Pending(d, x))
  BY <1>1, QueuedStateClearIs
<1>3. Queues(e)
  BY <1>2 DEF Queues
<1>4. SameStages(d, e)
  BY <1>2 DEF SameStages
<1> QED  BY <1>2, <1>3, <1>4, StillServes

\* carrier_changed: whatever it queues may follow the state of the device.
LEMMA CarrierChangedIs ==
    ASSUME NEW d, Dev(d), NEW c \in BOOLEAN, NEW e, e = CarrierChanged(d, c)
    PROVE  Dev(e) /\ Alike(d, e) /\ SameStages(d, e)
<1>1. d \in Devs /\ d.state \in DeviceStates
  BY StatesAre DEF Dev
<1>2. \/ e = d
      \/ d.state = UNAVAILABLE /\ e = QueueState(d, DISCONNECTED)
      \/ d.state > UNAVAILABLE /\ e = QueueState(d, UNAVAILABLE)
      \/ e = QueuedStateClear(d)
  BY <1>1 DEF CarrierChanged, DeviceStates
<1>3. CASE e = d
  BY <1>3 DEF Alike, SameStages
<1>4. CASE d.state = UNAVAILABLE /\ e = QueueState(d, DISCONNECTED)
  <2>1. DISCONNECTED \in DeviceStates
    BY DEF DeviceStates
  <2> QED  BY <1>4, <2>1, Queued DEF MayQueue
<1>5. CASE d.state > UNAVAILABLE /\ e = QueueState(d, UNAVAILABLE)
  <2>1. UNAVAILABLE \in DeviceStates /\ d.state >= DISCONNECTED
    BY <1>1, <1>5 DEF DeviceStates
  <2> QED  BY <1>5, <2>1, Queued DEF MayQueue
<1>6. CASE e = QueuedStateClear(d)
  BY <1>6, Cleared
<1> QED  BY <1>2, <1>3, <1>4, <1>5, <1>6

\* recheck_available: whatever it queues may follow the state.
LEMMA RecheckIs ==
    ASSUME NEW d, Dev(d), NEW e, e = RecheckAvailable(d)
    PROVE  Dev(e) /\ Alike(d, e)
<1>1. UNAVAILABLE \in DeviceStates /\ DISCONNECTED \in DeviceStates
  BY DEF DeviceStates
<1>2. \/ e = d
      \/ d.state = UNAVAILABLE /\ e = QueueState(d, DISCONNECTED)
      \/ d.state >= DISCONNECTED /\ e = QueueState(d, UNAVAILABLE)
  BY DEF RecheckAvailable
<1>3. CASE e = d
  BY <1>3 DEF Alike
<1>4. CASE d.state = UNAVAILABLE /\ e = QueueState(d, DISCONNECTED)
  BY <1>1, <1>4, Queued DEF MayQueue
<1>5. CASE d.state >= DISCONNECTED /\ e = QueueState(d, UNAVAILABLE)
  BY <1>1, <1>5, Queued DEF MayQueue
<1> QED  BY <1>2, <1>3, <1>4, <1>5

\* The third stage waits for the firewall or is scheduled, never both.
LEMMA ScheduleStage3Is ==
    ASSUME NEW d, Dev(d), d.state = CONFIG, ~Pending(d, "stage3"), NEW e, e = ScheduleStage3(d)
    PROVE  /\ Dev(e) /\ e.state = CONFIG
           /\ e.act_request = d.act_request /\ e.queued_act_request = d.queued_act_request
           /\ e.waiting_for_carrier = d.waiting_for_carrier /\ e.managed = d.managed
           /\ e.carrier = d.carrier /\ e.carrier_wait = d.carrier_wait
<1>1. d \in Devs
  BY DEF Dev
<1>2. d \in Devices
  BY <1>1 DEF Devs
<1>3. CASE d.fw = "unmanaged"
  <2>1. e = [d EXCEPT !.fw = "wait_stage_3"]
    BY <1>3 DEF ScheduleStage3
  <2>2. /\ e \in Devices /\ e.idle = d.idle /\ e.queued_state = d.queued_state
        /\ e.fw = "wait_stage_3" /\ e.state = d.state /\ e.ping = d.ping /\ e.call = d.call
        /\ e.deactivating = d.deactivating
        /\ e.act_request = d.act_request /\ e.queued_act_request = d.queued_act_request
        /\ e.waiting_for_carrier = d.waiting_for_carrier /\ e.managed = d.managed
        /\ e.carrier = d.carrier /\ e.carrier_wait = d.carrier_wait
    BY <1>2, <2>1 DEF Devices
  <2>3. e \in Devs /\ \A x : Pending(e, x) <=> Pending(d, x)
    BY <1>1, <2>2, Adjusted
  <2>4. Serves(e)
    BY <1>3, <2>2, <2>3 DEF Serves, Dev
  <2>5. Queues(e)
    BY <2>2 DEF Queues, Dev
  <2>6. Holds(e)
    BY <2>2 DEF Holds, Dev
  <2> QED  BY <2>2, <2>3, <2>4, <2>5, <2>6 DEF Dev
<1>4. CASE d.fw = "wait_stage_3"
  BY <1>4 DEF ScheduleStage3
<1>5. CASE d.fw \notin {"unmanaged", "wait_stage_3"}
  <2>1. e = Schedule(d, "stage3")
    BY <1>5 DEF ScheduleStage3
  <2>2. /\ e \in Devs /\ Alike(d, e) /\ e.queued_state = d.queued_state
        /\ Pending(e, "stage3") /\ ~Pending(e, "stage1")
    BY <1>1, <2>1, ScheduleIs
  <2>3. Serves(e)
    BY <1>5, <2>2 DEF Serves, Dev, Alike
  <2>4. Queues(e)
    BY <2>2 DEF Queues, Dev, Alike
  <2>5. Holds(e)
    BY <2>2 DEF Holds, Dev, Alike
  <2> QED  BY <2>2, <2>3, <2>4, <2>5 DEF Dev, Alike
<1> QED  BY <1>3, <1>4, <1>5

-----------------------------------------------------------------------------
(* The keep-alive objects and the active connections *)

\* _notify_alive keeps a keep-alive object well-formed.
LEMMA NotifyAliveIs ==
    ASSUME NEW k \in KeepAlives, NEW v \in BOOLEAN
    PROVE  NotifyAlive(k, v) \in KeepAlives
<1>1. IsAlive(k, v) \in BOOLEAN /\ AsksOwner(k) \in BOOLEAN
  BY DEF IsAlive, AsksOwner
<1>2. CASE k.disarmed
  BY <1>2 DEF NotifyAlive
<1>3. CASE ~k.disarmed
  <2> DEFINE c == k.dbus_client_confirmed \/ AsksOwner(k)
             n == IF AsksOwner(k) THEN k.subscription_id ELSE k.confirm_call
             a == IsAlive(k, v)
  <2>1. NotifyAlive(k, v) = [k EXCEPT !.alive = a, !.dbus_client_confirmed = c, !.confirm_call = n]
    BY <1>3 DEF NotifyAlive
  <2>2. c \in BOOLEAN /\ a \in BOOLEAN
    BY <1>1
  <2>3. n \in {0, 1}
    BY DEF KeepAlives
  <2> HIDE DEF c, n, a
  <2> QED  BY <2>1, <2>2, <2>3 DEF KeepAlives
<1> QED  BY <1>2, <1>3

\* cleanup_dbus_watch keeps it well-formed and as alive as it was.
LEMMA CleanupDbusWatchIs ==
    ASSUME NEW k \in KeepAlives
    PROVE  /\ CleanupDbusWatch(k) \in KeepAlives
           /\ CleanupDbusWatch(k).alive = k.alive
BY DEF CleanupDbusWatch, KeepAlives

\* nm_keep_alive_disarm keeps it well-formed and as alive as it was.
LEMMA DisarmIs ==
    ASSUME NEW k \in KeepAlives
    PROVE  Disarm(k) \in KeepAlives /\ Disarm(k).alive = k.alive
<1> DEFINE j == [k EXCEPT !.disarmed = TRUE, !.connection = FALSE]
<1>1. j \in KeepAlives /\ j.alive = k.alive
  BY DEF KeepAlives
<1>2. Disarm(k) = CleanupDbusWatch(j)
  BY DEF Disarm
<1> HIDE DEF j
<1> QED  BY <1>1, <1>2, CleanupDbusWatchIs

\* nm_keep_alive_arm keeps it well-formed.
LEMMA ArmIs ==
    ASSUME NEW k \in KeepAlives, NEW v \in BOOLEAN
    PROVE  Arm(k, v) \in KeepAlives
<1> DEFINE j == [k EXCEPT !.armed = TRUE]
<1>1. j \in KeepAlives
  BY DEF KeepAlives
<1>2. Arm(k, v) = k \/ Arm(k, v) = NotifyAlive(j, v)
  BY DEF Arm
<1> HIDE DEF j
<1> QED  BY <1>1, <1>2, NotifyAliveIs

\* The bus client leaving keeps it well-formed.
LEMMA ClientGoneIs ==
    ASSUME NEW k \in KeepAlives, NEW v \in BOOLEAN
    PROVE  ClientGone(k, v) \in KeepAlives
BY CleanupDbusWatchIs, NotifyAliveIs DEF ClientGone

\* connection_flags_changed keeps it well-formed.
LEMMA FlagsChangedIs ==
    ASSUME NEW k \in KeepAlives, NEW v \in BOOLEAN
    PROVE  FlagsChanged(k, v) \in KeepAlives
<1> DEFINE s == k.connection_was_visible \/ v
           j == [k EXCEPT !.connection_was_visible = s]
<1>1. s \in BOOLEAN
  OBVIOUS
<1>2. FlagsChanged(k, v) = NotifyAlive(j, v)
  BY DEF FlagsChanged
<1> HIDE DEF s
<1>3. j \in KeepAlives
  BY <1>1 DEF KeepAlives
<1> HIDE DEF j
<1> QED  BY <1>2, <1>3, NotifyAliveIs

\* nm_keep_alive_set_settings_connection_watch_visible keeps it well-formed.
LEMMA WatchVisibleIs ==
    ASSUME NEW k \in KeepAlives, NEW v \in BOOLEAN
    PROVE  WatchVisible(k, TRUE, v) \in KeepAlives
<1> DEFINE j == [k EXCEPT !.connection = TRUE, !.connection_was_visible = v]
           i == [k EXCEPT !.connection = FALSE, !.connection_was_visible = k.connection_was_visible]
<1>1. j \in KeepAlives /\ i \in KeepAlives
  BY DEF KeepAlives
<1>2. k.disarmed \in BOOLEAN /\ k.connection \in BOOLEAN
  BY DEF KeepAlives
<1>3. CASE k.connection = TRUE
  BY <1>3 DEF WatchVisible
<1>4. CASE k.connection # TRUE /\ k.disarmed
  <2>1. (TRUE /\ ~k.disarmed) = FALSE
    BY <1>4
  <2>2. SetConnection(k, TRUE, v) = i
    BY <1>4, <2>1 DEF SetConnection
  <2> HIDE DEF i
  <2>3. WatchVisible(k, TRUE, v) = NotifyAlive(i, v)
    BY <1>4, <2>2 DEF WatchVisible
  <2> QED  BY <1>1, <2>3, NotifyAliveIs
<1>5. CASE k.connection # TRUE /\ ~k.disarmed
  <2>1. (TRUE /\ ~k.disarmed) = TRUE
    BY <1>5
  <2>2. SetConnection(k, TRUE, v) = j
    BY <1>5, <2>1 DEF SetConnection
  <2> HIDE DEF j
  <2>3. WatchVisible(k, TRUE, v) = NotifyAlive(j, v)
    BY <1>5, <2>2 DEF WatchVisible
  <2> QED  BY <1>1, <2>3, NotifyAliveIs
<1> QED  BY <1>2, <1>3, <1>4, <1>5

\* nm_keep_alive_set_dbus_client_watch keeps it well-formed.
LEMMA SetDbusClientWatchIs ==
    ASSUME NEW k \in KeepAlives, NEW v \in BOOLEAN, NEW x \in ACs
    PROVE  SetDbusClientWatch(k, x, 1, v) \in KeepAlives
<1> DEFINE c == CleanupDbusWatch(k)
           j == [c EXCEPT !.dbus_client = x, !.dbus_client_watching = TRUE,
                          !.dbus_client_confirmed = FALSE, !.subscription_id = 1]
<1>1. x # NoClient
  BY RequestAssumption
<1>2. SetDbusClientWatch(k, x, 1, v) = k \/ SetDbusClientWatch(k, x, 1, v) = NotifyAlive(j, v)
  BY <1>1 DEF SetDbusClientWatch
<1>3. c \in KeepAlives
  BY CleanupDbusWatchIs
<1> HIDE DEF c
<1>4. j \in KeepAlives
  BY <1>3 DEF KeepAlives
<1> HIDE DEF j
<1> QED  BY <1>2, <1>4, NotifyAliveIs

\* What a function of the program may do to an active connection that it does
\* not add to or remove from the list: it may end, which answers its request
\* if that is still being authorized, and an end is final.
Evolves(c, e) ==
    /\ e.listed = c.listed /\ e.ka.alive = c.ka.alive
    /\ \/ e.phase = c.phase /\ e.replies = c.replies
       \/ c.phase = "auth" /\ e.phase = "done" /\ e.replies = c.replies + 1
    /\ c.state >= AC_DEACTIVATING => e.state >= AC_DEACTIVATING
    /\ c.state = AC_DEACTIVATED => e.state = AC_DEACTIVATED

\* An active connection whose request is not answered before its time
Conns == {c \in Connections : c.phase = "auth" => c.replies = 0}

\* The types of the fields of an active connection.
LEMMA ConnIs ==
    ASSUME NEW c \in Conns
    PROVE  /\ c \in Connections /\ c.state \in 0 .. 4 /\ c.replies \in 0 .. 2
           /\ c.phase \in {"none", "auth", "add", "done", "gone"}
           /\ c.listed \in BOOLEAN /\ c.ka \in KeepAlives
           /\ c.phase = "auth" => c.replies = 0
BY DEF Conns, Connections

\* Nothing happens to an active connection.
LEMMA EvolvesReflexive == ASSUME NEW c PROVE Evolves(c, c)
BY DEF Evolves

\* What two calls do one call may do.
LEMMA EvolvesTransitive ==
    ASSUME NEW c, NEW d, NEW e, Evolves(c, d), Evolves(d, e)
    PROVE  Evolves(c, e)
BY DEF Evolves

\* nm_active_connection_set_state: the new state, unless the old one is the last.
LEMMA AcSetStateIs ==
    ASSUME NEW c \in Conns, NEW n \in 0 .. 4,
           c.state >= AC_DEACTIVATING => n >= AC_DEACTIVATING,
           NEW e, e = AcSetState(c, n)
    PROVE  /\ e \in Conns /\ Evolves(c, e)
           /\ e.state = IF c.state = AC_DEACTIVATED THEN AC_DEACTIVATED ELSE n
<1>1. /\ c \in Connections /\ c.state \in 0 .. 4 /\ c.replies \in 0 .. 2 /\ c.ka \in KeepAlives
      /\ c.phase \in {"none", "auth", "add", "done", "gone"} /\ (c.phase = "auth" => c.replies = 0)
  BY ConnIs
<1>2. CASE c.state = n \/ c.state = AC_DEACTIVATED
  <2>1. e = c
    BY <1>2 DEF AcSetState
  <2> QED  BY <1>2, <2>1, EvolvesReflexive
<1>3. CASE ~(c.state = n \/ c.state = AC_DEACTIVATED)
  <2> DEFINE k == IF n > AC_ACTIVATED THEN Disarm(c.ka) ELSE c.ka
             p == IF n = AC_DEACTIVATED /\ c.phase = "auth" THEN "done" ELSE c.phase
             r == IF n = AC_DEACTIVATED /\ c.phase = "auth" THEN c.replies + 1 ELSE c.replies
  <2>1. e = [c EXCEPT !.state = n, !.ka = k, !.phase = p, !.replies = r]
    BY <1>3 DEF AcSetState
  <2>2. k \in KeepAlives /\ k.alive = c.ka.alive
    BY <1>1, DisarmIs
  <2>3. /\ p \in {"none", "auth", "add", "done", "gone"} /\ r \in 0 .. 2
        /\ (p = c.phase /\ r = c.replies) \/ (c.phase = "auth" /\ p = "done" /\ r = c.replies + 1)
    BY <1>1
  <2> HIDE DEF k, p, r
  <2>4. /\ e \in Connections /\ e.state = n /\ e.ka = k /\ e.phase = p /\ e.replies = r
        /\ e.listed = c.listed
    BY <1>1, <2>1, <2>2, <2>3 DEF Connections
  <2>5. Evolves(c, e)
    BY <1>1, <1>3, <2>2, <2>3, <2>4 DEF Evolves
  <2>6. e \in Conns
    BY <1>1, <2>3, <2>4 DEF Conns
  <2> QED  BY <1>3, <2>4, <2>5, <2>6
<1> QED  BY <1>2, <1>3

\* nm_active_connection_set_state_fail: the active connection is over.
LEMMA SetStateFailIs ==
    ASSUME NEW c \in Conns, NEW e, e = SetStateFail(c)
    PROVE  e \in Conns /\ Evolves(c, e) /\ e.state = AC_DEACTIVATED
<1> DEFINE b == IF c.state \in {AC_ACTIVATING, AC_ACTIVATED}
                THEN AcSetState(c, AC_DEACTIVATING) ELSE c
<1>1. e = AcSetState(b, AC_DEACTIVATED)
  BY DEF SetStateFail
<1>2. b \in Conns /\ Evolves(c, b)
  <2>1. CASE c.state \in {AC_ACTIVATING, AC_ACTIVATED}
    <3>1. b = AcSetState(c, AC_DEACTIVATING)
      BY <2>1
    <3> HIDE DEF b
    <3> QED  BY <3>1, AcSetStateIs
  <2>2. CASE c.state \notin {AC_ACTIVATING, AC_ACTIVATED}
    BY <2>2, EvolvesReflexive
  <2> QED  BY <2>1, <2>2
<1> HIDE DEF b
<1>3. e \in Conns /\ Evolves(b, e) /\ e.state = AC_DEACTIVATED
  BY <1>1, <1>2, AcSetStateIs
<1> QED  BY <1>2, <1>3, EvolvesTransitive

-----------------------------------------------------------------------------
(* Worlds *)

Worlds == [dev : Devs, acs : [ACs -> Conns], link : Links]

\* The state of the current request for a state of the device
Matches(s, a) ==
    /\ s < ACTIVATED /\ s # DISCONNECTED => a = AC_ACTIVATING
    /\ s = DISCONNECTED => a = AC_UNKNOWN
    /\ s = ACTIVATED => a = AC_ACTIVATED
    /\ s > ACTIVATED => a >= AC_DEACTIVATING

\* The requests that the device has are accepted ones, the current one follows
\* the device, and every other one has not begun or has ended.
FollowsDevice(d, cs) ==
    /\ \A x \in ACs : x \in {d.act_request, d.queued_act_request} => cs[x].phase = "done"
    /\ \A x \in ACs : x # d.act_request => cs[x].state \in {AC_UNKNOWN, AC_DEACTIVATED}
    /\ \A x \in ACs : x = d.act_request => Matches(d.state, cs[x].state)
    /\ \A x \in ACs : cs[x].listed => cs[x].phase = "done"

Core(w) == w \in Worlds /\ Dev(w.dev) /\ FollowsDevice(w.dev, w.acs)

\* The queued request waits for a carrier only if it needs one and while one
\* may come, and a current request that has not begun does not need one.
Waits(d) ==
    d.queued_act_request # None /\ d.waiting_for_carrier =>
        /\ ~d.carrier /\ d.carrier_wait /\ d.queued_act_request \in NeedsCarrier
        /\ d.state = DISCONNECTED => d.act_request \notin NeedsCarrier

Lives(c) == c.listed /\ c.state < AC_DEACTIVATED

\* A request that waited for the carrier may have taken the place of x.
Overtakable(cs, x) == x \notin NeedsCarrier /\ \E y \in NeedsCarrier : cs[y].phase = "done"

\* Every active connection but those of X is ended, known to the device or overtaken.
Known(d, cs, X) ==
    \A x \in ACs \ X : Lives(cs[x]) =>
        x \in {d.act_request, d.queued_act_request} \/ Overtakable(cs, x)

Remembers(w, X) == Waits(w.dev) /\ Known(w.dev, w.acs, X)

\* Who may have been overtaken stays so.
LEMMA OvertakableKept ==
    ASSUME NEW cs, NEW bs, \A y \in ACs : cs[y].phase = "done" => bs[y].phase = "done"
    PROVE  \A x : Overtakable(cs, x) => Overtakable(bs, x)
BY RequestAssumption DEF Overtakable

\* Nothing that an active connection goes through undoes it.
LEMMA OvertakableEvolves ==
    ASSUME NEW cs, NEW bs, \A y \in ACs : Evolves(cs[y], bs[y])
    PROVE  \A x : Overtakable(cs, x) => Overtakable(bs, x)
<1>1. \A y \in ACs : cs[y].phase = "done" => bs[y].phase = "done"
  BY DEF Evolves
<1> QED  BY <1>1, OvertakableKept

\* What any function of the program keeps
Kept(w, v) ==
    /\ v.link = w.link
    /\ \A x \in ACs : Evolves(w.acs[x], v.acs[x])
    /\ {v.dev.act_request, v.dev.queued_act_request} \subseteq
         {w.dev.act_request, w.dev.queued_act_request, None}

\* The parts of a sound world, and their types.
LEMMA CoreIs ==
    ASSUME NEW w, Core(w)
    PROVE  /\ w \in Worlds /\ w.dev \in Devs /\ Dev(w.dev) /\ w.link \in Links
           /\ w.acs \in [ACs -> Conns] /\ (\A x \in ACs : w.acs[x] \in Conns)
           /\ w.dev.state \in DeviceStates
           /\ w.dev.act_request \in ACs \cup {None} /\ w.dev.queued_act_request \in ACs \cup {None}
<1>1. w \in Worlds /\ Dev(w.dev)
  BY DEF Core
<1>2. w.dev \in Devs /\ w.acs \in [ACs -> Conns] /\ w.link \in Links
  BY <1>1 DEF Worlds
<1> QED  BY <1>1, <1>2, StatesAre

\* A call that does nothing keeps everything.
LEMMA KeptReflexive == ASSUME NEW w PROVE Kept(w, w)
BY EvolvesReflexive DEF Kept

\* What two calls keep both keep together.
LEMMA KeptTransitive ==
    ASSUME NEW u, NEW v, NEW w, Kept(u, v), Kept(v, w)
    PROVE  Kept(u, w)
<1>1. \A x \in ACs : Evolves(u.acs[x], w.acs[x])
  BY EvolvesTransitive DEF Kept
<1> QED  BY <1>1 DEF Kept

\* A device with the same requests in the same state
LEMMA WithDevIs ==
    ASSUME NEW w, Core(w), NEW d, Dev(d), d.state = w.dev.state,
           d.act_request = w.dev.act_request,
           d.queued_act_request = w.dev.queued_act_request,
           NEW v, v = WithDev(w, d)
    PROVE  /\ Core(v) /\ Kept(w, v) /\ v.dev = d /\ v.acs = w.acs /\ v.link = w.link
<1>1. v.dev = d /\ v.acs = w.acs /\ v.link = w.link
  BY DEF WithDev
<1>2. d \in Devs
  BY DEF Dev
<1>3. v \in Worlds
  BY <1>2, CoreIs DEF Worlds, WithDev
<1>4. FollowsDevice(v.dev, v.acs)
  BY <1>1 DEF Core, FollowsDevice
<1>5. Kept(w, v)
  BY <1>1, EvolvesReflexive DEF Kept
<1>6. Dev(v.dev)
  BY <1>1
<1> QED  BY <1>1, <1>3, <1>4, <1>5, <1>6 DEF Core

\* An active connection that is not the current one ends.
LEMMA FailIs ==
    ASSUME NEW w, Core(w), NEW y \in ACs, y # w.dev.act_request,
           NEW v, v = Fail(w, y)
    PROVE  /\ Core(v) /\ Kept(w, v) /\ v.dev = w.dev /\ v.acs[y].state = AC_DEACTIVATED
           /\ \A x \in ACs : x # y => v.acs[x] = w.acs[x]
<1> DEFINE c == SetStateFail(w.acs[y])
<1>1. w.acs[y] \in Conns /\ w.acs \in [ACs -> Conns]
  BY CoreIs
<1>2. c \in Conns /\ Evolves(w.acs[y], c) /\ c.state = AC_DEACTIVATED
  BY <1>1, SetStateFailIs
<1>3. v = [dev |-> w.dev, acs |-> [w.acs EXCEPT ![y] = c], link |-> w.link]
  BY DEF Fail, WithAc
<1> HIDE DEF c
<1>4. /\ v.dev = w.dev /\ v.link = w.link /\ v.acs[y] = c
      /\ \A x \in ACs : x # y => v.acs[x] = w.acs[x]
      /\ v.acs \in [ACs -> Conns]
  BY <1>1, <1>2, <1>3
<1>5. v \in Worlds
  BY <1>2, <1>3, <1>4, CoreIs DEF Worlds
<1>6. \A x \in ACs : Evolves(w.acs[x], v.acs[x])
  BY <1>2, <1>4, EvolvesReflexive
<1>7. FollowsDevice(v.dev, v.acs)
  <2>1. \A x \in ACs : w.acs[x].phase = "done" => v.acs[x].phase = "done"
    BY <1>6 DEF Evolves
  <2>2. \A x \in ACs : v.acs[x].listed = w.acs[x].listed
    BY <1>6 DEF Evolves
  <2> QED  BY <1>2, <1>4, <2>1, <2>2 DEF Core, FollowsDevice
<1>8. Kept(w, v)
  BY <1>4, <1>6 DEF Kept
<1>9. Dev(v.dev)
  BY <1>4 DEF Core
<1> QED  BY <1>2, <1>4, <1>5, <1>7, <1>8, <1>9 DEF Core

\* A failed active connection need not be known to the device.
LEMMA FailKnown ==
    ASSUME NEW w, Core(w), NEW y \in ACs, y # w.dev.act_request,
           NEW v, v = Fail(w, y), NEW X
    PROVE  /\ Known(w.dev, w.acs, X \cup {y}) => Known(v.dev, v.acs, X)
           /\ Remembers(w, X \cup {y}) => Remembers(v, X)
<1>1. /\ v.dev = w.dev /\ v.acs[y].state = AC_DEACTIVATED /\ Kept(w, v)
      /\ \A x \in ACs : x # y => v.acs[x] = w.acs[x]
  BY FailIs
<1>2. \A x : Overtakable(w.acs, x) => Overtakable(v.acs, x)
  BY <1>1, OvertakableEvolves DEF Kept
<1>3. ASSUME Known(w.dev, w.acs, X \cup {y})
      PROVE  Known(v.dev, v.acs, X)
  BY <1>1, <1>2, <1>3 DEF Known, Lives
<1> QED  BY <1>1, <1>3 DEF Remembers

\* What holds outside a set of active connections holds outside a larger one.
LEMMA KnownMore ==
    ASSUME NEW d, NEW cs, NEW X, NEW Y, X \subseteq Y, Known(d, cs, X)
    PROVE  Known(d, cs, Y)
BY DEF Known

\* The device without its queued request
LEMMA WithoutQueuedIs ==
    ASSUME NEW d, Dev(d), NEW e, e = [d EXCEPT !.queued_act_request = None]
    PROVE  /\ Dev(e) /\ e.queued_act_request = None
           /\ e.state = d.state /\ e.managed = d.managed /\ e.act_request = d.act_request
           /\ e.waiting_for_carrier = d.waiting_for_carrier
           /\ e.carrier = d.carrier /\ e.carrier_wait = d.carrier_wait
           /\ e.fw = d.fw /\ e.ping = d.ping /\ e.call = d.call
           /\ e.deactivating = d.deactivating /\ e.queued_state = d.queued_state
           /\ SameStages(d, e)
<1>1. d \in Devs /\ d \in Devices
  BY DEF Dev, Devs
<1>2. /\ e \in Devices /\ e.idle = d.idle /\ e.queued_state = d.queued_state
      /\ e.queued_act_request = None
      /\ e.state = d.state /\ e.managed = d.managed /\ e.act_request = d.act_request
      /\ e.waiting_for_carrier = d.waiting_for_carrier
      /\ e.carrier = d.carrier /\ e.carrier_wait = d.carrier_wait
      /\ e.fw = d.fw /\ e.ping = d.ping /\ e.call = d.call
      /\ e.deactivating = d.deactivating
  BY <1>1 DEF Devices
<1>3. e \in Devs /\ \A x : Pending(e, x) <=> Pending(d, x)
  BY <1>1, <1>2, Adjusted
<1>4. Serves(e)
  BY <1>2, <1>3 DEF Serves, Dev
<1>5. Queues(e)
  BY <1>2 DEF Queues, Dev
<1>6. Holds(e)
  BY <1>2 DEF Holds, Dev
<1> QED  BY <1>2, <1>3, <1>4, <1>5, <1>6 DEF Dev, SameStages

\* What a step on the queued request leaves alone
SameDevice(d, e) ==
    /\ e.state = d.state /\ e.managed = d.managed
    /\ e.waiting_for_carrier = d.waiting_for_carrier
    /\ e.carrier = d.carrier /\ e.carrier_wait = d.carrier_wait
    /\ e.fw = d.fw /\ e.ping = d.ping /\ e.call = d.call
    /\ e.deactivating = d.deactivating /\ e.queued_state = d.queued_state

\* The pointer to the queued request can be dropped.
LEMMA DropQueuedIs ==
    ASSUME NEW w, Core(w), NEW u, u = WithoutQueued(w)
    PROVE  /\ Core(u) /\ u.acs = w.acs /\ u.link = w.link
           /\ u.dev.queued_act_request = None /\ u.dev.act_request = w.dev.act_request
           /\ SameDevice(w.dev, u.dev) /\ SameStages(w.dev, u.dev)
<1> DEFINE e == [w.dev EXCEPT !.queued_act_request = None]
<1>1. u.dev = e /\ u.acs = w.acs /\ u.link = w.link /\ u = [dev |-> e, acs |-> w.acs, link |-> w.link]
  BY DEF WithoutQueued, WithDev
<1>2. Dev(w.dev)
  BY DEF Core
<1>3. /\ Dev(e) /\ e.queued_act_request = None /\ e.act_request = w.dev.act_request
      /\ SameDevice(w.dev, e) /\ SameStages(w.dev, e)
  BY <1>2, WithoutQueuedIs DEF SameDevice
<1> HIDE DEF e
<1>4. u \in Worlds
  BY <1>1, <1>3, CoreIs DEF Worlds, Dev
<1>5. FollowsDevice(u.dev, u.acs)
  BY <1>1, <1>3, RequestAssumption DEF Core, FollowsDevice, SameDevice
<1> QED  BY <1>1, <1>3, <1>4, <1>5 DEF Core

\* _clear_queued_act_request fails the queued request and nobody else.
LEMMA ClearQueuedIs ==
    ASSUME NEW w, Core(w), NEW v, v = ClearQueuedActRequest(w)
    PROVE  /\ Core(v) /\ Kept(w, v) /\ v.dev.queued_act_request = None
           /\ v.dev.act_request = w.dev.act_request
           /\ SameDevice(w.dev, v.dev) /\ SameStages(w.dev, v.dev)
           /\ w.dev.queued_act_request # None =>
                v.acs[w.dev.queued_act_request].state = AC_DEACTIVATED
           /\ \A x \in ACs : x # w.dev.queued_act_request => v.acs[x] = w.acs[x]
<1>1. CASE w.dev.queued_act_request = None
  <2>1. v = w
    BY <1>1 DEF ClearQueuedActRequest
  <2> QED  BY <1>1, <2>1, KeptReflexive DEF SameStages, SameDevice
<1>2. CASE w.dev.queued_act_request # None
  <2> DEFINE y == w.dev.queued_act_request
             u == WithoutQueued(w)
  <2>1. y \in ACs /\ y # w.dev.act_request
    BY <1>2, CoreIs DEF Core, Dev, Holds
  <2>2. v = Fail(u, y)
    BY <1>2 DEF ClearQueuedActRequest
  <2>3. /\ Core(u) /\ u.acs = w.acs /\ u.link = w.link
        /\ u.dev.queued_act_request = None /\ u.dev.act_request = w.dev.act_request
        /\ SameDevice(w.dev, u.dev) /\ SameStages(w.dev, u.dev)
    BY DropQueuedIs
  <2> HIDE DEF y, u
  <2>4. y # u.dev.act_request
    BY <2>1, <2>3
  <2>5. /\ Core(v) /\ Kept(u, v) /\ v.dev = u.dev
        /\ v.acs[y].state = AC_DEACTIVATED
        /\ \A x \in ACs : x # y => v.acs[x] = u.acs[x]
    BY <2>1, <2>2, <2>3, <2>4, FailIs
  <2>6. Kept(w, v)
    BY <2>3, <2>5 DEF Kept
  <2> QED  BY <2>3, <2>5, <2>6 DEF y
<1> QED  BY <1>1, <1>2

\* After _clear_queued_act_request nobody is forgotten.
LEMMA ClearQueuedKnown ==
    ASSUME NEW w, Core(w), NEW v, v = ClearQueuedActRequest(w), NEW X,
           Known(w.dev, w.acs, X)
    PROVE  Known(v.dev, v.acs, X)
<1>1. /\ v.dev.act_request = w.dev.act_request
      /\ w.dev.queued_act_request # None =>
            v.acs[w.dev.queued_act_request].state = AC_DEACTIVATED
      /\ \A x \in ACs : x # w.dev.queued_act_request => v.acs[x] = w.acs[x]
      /\ Kept(w, v)
  BY ClearQueuedIs
<1>2. None \notin ACs
  BY RequestAssumption
<1>3. \A x : Overtakable(w.acs, x) => Overtakable(v.acs, x)
  BY <1>1, OvertakableEvolves DEF Kept
<1> QED  BY <1>1, <1>2, <1>3 DEF Known, Lives

Evolved(w, v) == v.link = w.link /\ \A x \in ACs : Evolves(w.acs[x], v.acs[x])

\* _device_activate: the request becomes the current one, or it fails.
LEMMA DeviceActivateIs ==
    ASSUME NEW w, Core(w), NEW y \in ACs, y # w.dev.act_request, y # w.dev.queued_act_request,
           w.acs[y].phase = "done", w.dev.state = DISCONNECTED,
           NEW v, v = DeviceActivate(w, y)
    PROVE  /\ Core(v) /\ Evolved(w, v)
           /\ v.dev.act_request \in {w.dev.act_request, y}
           /\ v.dev.queued_act_request = w.dev.queued_act_request
           /\ v.dev.state = DISCONNECTED /\ v.dev.managed = w.dev.managed
           /\ v.dev.waiting_for_carrier = w.dev.waiting_for_carrier
           /\ v.dev.carrier = w.dev.carrier /\ v.dev.carrier_wait = w.dev.carrier_wait
           /\ v.acs[y].state < AC_DEACTIVATED => v.dev.act_request = y
           /\ \A x \in ACs : x # y => v.acs[x] = w.acs[x]
<1>0. Dev(w.dev) /\ w.acs[y] \in Conns /\ w.acs \in [ACs -> Conns] /\ w.link \in Links
  BY CoreIs
<1>1. w.acs[y].state \in {AC_UNKNOWN, AC_DEACTIVATED}
  BY DEF Core, FollowsDevice
<1>2. CASE w.acs[y].state >= AC_DEACTIVATING
  <2>1. v = w
    BY <1>2 DEF DeviceActivate
  <2> QED  BY <1>1, <1>2, <2>1, EvolvesReflexive DEF Evolved
<1>3. CASE w.acs[y].state < AC_DEACTIVATING /\ ~w.dev.managed
  <2>1. v = Fail(w, y)
    BY <1>1, <1>3 DEF DeviceActivate
  <2>2. /\ Core(v) /\ Kept(w, v) /\ v.dev = w.dev /\ v.acs[y].state = AC_DEACTIVATED
        /\ \A x \in ACs : x # y => v.acs[x] = w.acs[x]
    BY <2>1, FailIs
  <2> QED  BY <2>2 DEF Evolved, Kept
<1>4. CASE w.acs[y].state < AC_DEACTIVATING /\ w.dev.managed
  <2> DEFINE d == [w.dev EXCEPT !.act_request = y]
             e == Schedule(d, "stage1")
  <2>1. v = [dev |-> e, acs |-> w.acs, link |-> w.link]
    BY <1>1, <1>4 DEF DeviceActivate, WithDev
  <2>2. w.dev \in Devs /\ w.dev \in Devices
    BY <1>0 DEF Dev, Devs
  <2>3. /\ d \in Devices /\ d.idle = w.dev.idle /\ d.queued_state = w.dev.queued_state
        /\ d.act_request = y /\ d.queued_act_request = w.dev.queued_act_request
        /\ SameDevice(w.dev, d)
    BY <2>2 DEF Devices, SameDevice
  <2> HIDE DEF d
  <2>4. d \in Devs /\ \A x : Pending(d, x) <=> Pending(w.dev, x)
    BY <2>2, <2>3, Adjusted
  <2>5. /\ e \in Devs /\ Alike(d, e) /\ e.queued_state = d.queued_state
        /\ Pending(e, "stage1") /\ ~Pending(e, "stage3")
    BY <2>4, ScheduleIs
  <2> HIDE DEF e
  <2>6. /\ e.act_request = y /\ e.queued_act_request = w.dev.queued_act_request
        /\ SameDevice(w.dev, e)
    BY <2>3, <2>5 DEF Alike, SameDevice
  <2>7. y # None
    BY RequestAssumption
  <2>8. Dev(e)
    <3>1. Serves(e)
      BY <1>0, <2>5, <2>6, <2>7 DEF Serves, Dev, SameDevice
    <3>2. Queues(e)
      BY <1>0, <2>5, <2>6 DEF Queues, Dev, SameDevice
    <3>3. Holds(e)
      BY <1>0, <2>5, <2>6 DEF Holds, Dev, SameDevice
    <3> QED  BY <2>5, <3>1, <3>2, <3>3 DEF Dev
  <2>9. v.dev = e /\ v.acs = w.acs /\ v.link = w.link
    BY <2>1
  <2>10. v \in Worlds
    BY <1>0, <2>1, <2>5 DEF Worlds
  <2>11. FollowsDevice(e, w.acs)
    <3>1. e.state = DISCONNECTED
      BY <2>6 DEF SameDevice
    <3>2. \A x \in ACs : x # y => w.acs[x].state \in {AC_UNKNOWN, AC_DEACTIVATED}
      BY DEF Core, FollowsDevice, Matches
    <3>3. Matches(e.state, w.acs[y].state)
      BY <1>1, <1>4, <3>1 DEF Matches
    <3> QED  BY <2>6, <3>2, <3>3 DEF Core, FollowsDevice
  <2>12. Core(v)
    BY <2>8, <2>9, <2>10, <2>11 DEF Core
  <2>13. Evolved(w, v)
    BY <2>9, EvolvesReflexive DEF Evolved
  <2> QED  BY <2>6, <2>9, <2>12, <2>13 DEF SameDevice
<1> QED  BY <1>1, <1>2, <1>3, <1>4

\* The queued request becomes the current one, or it fails.
LEMMA ActivateQueuedIs ==
    ASSUME NEW w, Core(w), w.dev.queued_act_request # None, w.dev.state = DISCONNECTED,
           NEW v, v = ActivateQueued(w)
    PROVE  /\ Core(v) /\ Kept(w, v)
           /\ v.dev.queued_act_request = None
           /\ v.dev.state = DISCONNECTED /\ v.dev.managed = w.dev.managed
           /\ v.dev.waiting_for_carrier = w.dev.waiting_for_carrier
           /\ v.dev.carrier = w.dev.carrier /\ v.dev.carrier_wait = w.dev.carrier_wait
           /\ v.acs[w.dev.queued_act_request].state < AC_DEACTIVATED =>
                v.dev.act_request = w.dev.queued_act_request
           /\ \A x \in ACs : x # w.dev.queued_act_request => v.acs[x] = w.acs[x]
<1> DEFINE y == w.dev.queued_act_request
           u == WithoutQueued(w)
<1>1. y \in ACs /\ y # w.dev.act_request
  BY CoreIs DEF Core, Dev, Holds
<1>2. w.acs[y].phase = "done"
  BY <1>1 DEF Core, FollowsDevice
<1>3. v = DeviceActivate(u, y)
  BY DEF ActivateQueued
<1>4. /\ Core(u) /\ u.acs = w.acs /\ u.link = w.link
      /\ u.dev.queued_act_request = None /\ u.dev.act_request = w.dev.act_request
      /\ SameDevice(w.dev, u.dev)
  BY DropQueuedIs
<1> HIDE DEF y, u
<1>5. y # u.dev.act_request /\ y # u.dev.queued_act_request /\ u.acs[y].phase = "done" /\ u.dev.state = DISCONNECTED
  BY <1>1, <1>2, <1>4, RequestAssumption DEF SameDevice
<1>6. /\ Core(v) /\ Evolved(u, v)
      /\ v.dev.act_request \in {u.dev.act_request, y}
      /\ v.dev.queued_act_request = u.dev.queued_act_request
      /\ v.dev.state = DISCONNECTED /\ v.dev.managed = u.dev.managed
      /\ v.dev.waiting_for_carrier = u.dev.waiting_for_carrier
      /\ v.dev.carrier = u.dev.carrier /\ v.dev.carrier_wait = u.dev.carrier_wait
      /\ v.acs[y].state < AC_DEACTIVATED => v.dev.act_request = y
      /\ \A x \in ACs : x # y => v.acs[x] = u.acs[x]
  BY <1>1, <1>3, <1>4, <1>5, DeviceActivateIs
<1>7. Kept(w, v)
  BY <1>4, <1>6 DEF Kept, Evolved, y
<1> QED  BY <1>4, <1>6, <1>7 DEF SameDevice, y

\* No current request is in the way of the queued one, or it may be overtaken.
Yields(d) ==
    \/ d.act_request = None
    \/ d.queued_act_request \in NeedsCarrier /\ d.act_request \notin NeedsCarrier

\* Activating the queued request forgets nobody if the current one yields.
LEMMA ActivateQueuedKnown ==
    ASSUME NEW w, Core(w), w.dev.queued_act_request # None, w.dev.state = DISCONNECTED,
           Yields(w.dev),
           NEW v, v = ActivateQueued(w), NEW X, Known(w.dev, w.acs, X)
    PROVE  Known(v.dev, v.acs, X)
<1>1. /\ v.acs[w.dev.queued_act_request].state < AC_DEACTIVATED =>
            v.dev.act_request = w.dev.queued_act_request
      /\ \A x \in ACs : x # w.dev.queued_act_request => v.acs[x] = w.acs[x]
      /\ Kept(w, v)
  BY ActivateQueuedIs
<1>2. None \notin ACs
  BY RequestAssumption
<1>3. \A x : Overtakable(w.acs, x) => Overtakable(v.acs, x)
  BY <1>1, OvertakableEvolves DEF Kept
<1>4. w.dev.act_request \in ACs => Overtakable(w.acs, w.dev.act_request)
  <2>1. w.dev.queued_act_request \in ACs
    BY CoreIs
  <2>2. w.acs[w.dev.queued_act_request].phase = "done"
    BY <2>1 DEF Core, FollowsDevice
  <2> QED  BY <1>2, <2>2 DEF Overtakable, Yields
<1>5. ASSUME NEW x \in ACs \ X, Lives(v.acs[x])
      PROVE  x \in {v.dev.act_request, v.dev.queued_act_request} \/ Overtakable(v.acs, x)
  <2>1. CASE x = w.dev.queued_act_request
    BY <1>1, <1>5, <2>1 DEF Lives
  <2>2. CASE x # w.dev.queued_act_request
    <3>1. x = w.dev.act_request \/ Overtakable(w.acs, x)
      BY <1>1, <1>5, <2>2 DEF Known
    <3> QED  BY <1>3, <1>4, <3>1
  <2> QED  BY <2>1, <2>2
<1> QED  BY <1>5 DEF Known

\* The device differs in flags that no callback depends on.
FlagsOnly(d, e) ==
    /\ e \in Devices /\ e.idle = d.idle /\ e.queued_state = d.queued_state /\ e.state = d.state
    /\ e.act_request = d.act_request /\ e.queued_act_request = d.queued_act_request
    /\ e.fw = d.fw /\ e.ping = d.ping /\ e.call = d.call /\ e.deactivating = d.deactivating

\* Flags that no callback depends on keep a device sound.
LEMMA FlagsOnlyIs ==
    ASSUME NEW d, Dev(d), NEW e, FlagsOnly(d, e)
    PROVE  Dev(e) /\ SameStages(d, e)
<1>1. d \in Devs
  BY DEF Dev
<1>2. e \in Devs /\ \A x : Pending(e, x) <=> Pending(d, x)
  BY <1>1, Adjusted DEF FlagsOnly
<1>3. Serves(e)
  BY <1>2 DEF Serves, Dev, FlagsOnly
<1>4. Queues(e)
  BY DEF Queues, Dev, FlagsOnly
<1>5. Holds(e)
  BY DEF Holds, Dev, FlagsOnly
<1> QED  BY <1>2, <1>3, <1>4, <1>5 DEF Dev, SameStages

\* What a change of the carrier leaves alone unless the device is DISCONNECTED
Undisturbed(d, e) ==
    /\ e.state = d.state /\ e.managed = d.managed
    /\ d.state # DISCONNECTED =>
        e.act_request = d.act_request /\ SameStages(d, e) /\ e.fw = d.fw

\* What two calls leave alone both leave alone together.
LEMMA UndisturbedTransitive ==
    ASSUME NEW d, NEW e, NEW f, Undisturbed(d, e), Undisturbed(e, f)
    PROVE  Undisturbed(d, f)
BY DEF Undisturbed, SameStages

\* _carrier_wait_check_queued_act_request: nobody waits in vain for the carrier afterwards.
LEMMA CarrierWaitCheckIs ==
    ASSUME NEW w, Core(w), NEW v, v = CarrierWaitCheck(w)
    PROVE  /\ Core(v) /\ Kept(w, v) /\ Undisturbed(w.dev, v.dev) /\ Waits(v.dev)
           /\ v.dev.carrier = w.dev.carrier /\ v.dev.carrier_wait = w.dev.carrier_wait
<1> DEFINE d == [w.dev EXCEPT !.waiting_for_carrier = FALSE]
           u == WithDev(w, d)
<1>1. Dev(w.dev) /\ w.dev \in Devices
  BY CoreIs DEF Devs
<1>2. /\ FlagsOnly(w.dev, d) /\ d.managed = w.dev.managed /\ d.carrier = w.dev.carrier
      /\ d.carrier_wait = w.dev.carrier_wait /\ d.waiting_for_carrier = FALSE
  BY <1>1 DEF Devices, FlagsOnly
<1>3. \/ v = w /\ (w.dev.queued_act_request = None \/ ~w.dev.waiting_for_carrier)
      \/ v = ClearQueuedActRequest(u)
      \/ v = ActivateQueued(u) /\ w.dev.queued_act_request # None /\ w.dev.state = DISCONNECTED
      \/ v = u
  BY DEF CarrierWaitCheck
<1> HIDE DEF d
<1>4. Dev(d) /\ SameStages(w.dev, d)
  BY <1>1, <1>2, FlagsOnlyIs
<1>5. d.state = w.dev.state /\ d.act_request = w.dev.act_request /\ d.queued_act_request = w.dev.queued_act_request
  BY <1>2 DEF FlagsOnly
<1>6. Core(u) /\ Kept(w, u) /\ u.dev = d /\ u.acs = w.acs /\ u.link = w.link
  BY <1>4, <1>5, WithDevIs
<1> HIDE DEF u
<1>7. Undisturbed(w.dev, d)
  BY <1>2, <1>4, <1>5 DEF Undisturbed, FlagsOnly
<1>8. CASE v = w /\ (w.dev.queued_act_request = None \/ ~w.dev.waiting_for_carrier)
  BY <1>8, KeptReflexive DEF Undisturbed, SameStages, Waits
<1>9. CASE v = ClearQueuedActRequest(u)
  <2>1. /\ Core(v) /\ Kept(u, v) /\ v.dev.queued_act_request = None
        /\ v.dev.act_request = u.dev.act_request
        /\ SameDevice(u.dev, v.dev) /\ SameStages(u.dev, v.dev)
    BY <1>6, <1>9, ClearQueuedIs
  <2>2. Kept(w, v)
    BY <1>6, <2>1, KeptTransitive
  <2>3. Undisturbed(u.dev, v.dev)
    BY <2>1 DEF Undisturbed, SameDevice
  <2>4. Undisturbed(w.dev, v.dev)
    BY <1>6, <1>7, <2>3, UndisturbedTransitive
  <2> QED  BY <1>2, <1>6, <2>1, <2>2, <2>4 DEF SameDevice, Waits
<1>10. CASE v = ActivateQueued(u) /\ w.dev.queued_act_request # None /\ w.dev.state = DISCONNECTED
  <2>1. u.dev.queued_act_request # None /\ u.dev.state = DISCONNECTED
    BY <1>5, <1>6, <1>10
  <2>2. /\ Core(v) /\ Kept(u, v) /\ v.dev.queued_act_request = None
        /\ v.dev.state = DISCONNECTED /\ v.dev.managed = u.dev.managed
        /\ v.dev.carrier = u.dev.carrier /\ v.dev.carrier_wait = u.dev.carrier_wait
    BY <1>6, <1>10, <2>1, ActivateQueuedIs
  <2>3. Kept(w, v)
    BY <1>6, <2>2, KeptTransitive
  <2> QED  BY <1>2, <1>6, <1>10, <2>2, <2>3 DEF Waits, Undisturbed
<1>11. CASE v = u
  BY <1>2, <1>6, <1>7, <1>11 DEF Waits
<1> QED  BY <1>3, <1>8, <1>9, <1>10, <1>11

\* Ending the wait for the carrier forgets nobody if the current request yields.
LEMMA CarrierWaitCheckKnown ==
    ASSUME NEW w, Core(w), NEW v, v = CarrierWaitCheck(w), NEW X, Known(w.dev, w.acs, X),
           w.dev.queued_act_request # None /\ w.dev.waiting_for_carrier
             /\ w.dev.state = DISCONNECTED => Yields(w.dev)
    PROVE  Known(v.dev, v.acs, X)
<1> DEFINE d == [w.dev EXCEPT !.waiting_for_carrier = FALSE]
           u == WithDev(w, d)
<1>1. Dev(w.dev) /\ w.dev \in Devices
  BY CoreIs DEF Devs
<1>2. FlagsOnly(w.dev, d)
  BY <1>1 DEF Devices, FlagsOnly
<1>3. \/ v = w
      \/ v = ClearQueuedActRequest(u)
      \/ /\ v = ActivateQueued(u) /\ w.dev.queued_act_request # None /\ w.dev.state = DISCONNECTED
         /\ w.dev.waiting_for_carrier
      \/ v = u
  BY DEF CarrierWaitCheck
<1> HIDE DEF d
<1>4. Dev(d)
  BY <1>1, <1>2, FlagsOnlyIs
<1>5. d.state = w.dev.state /\ d.act_request = w.dev.act_request /\ d.queued_act_request = w.dev.queued_act_request
  BY <1>2 DEF FlagsOnly
<1>6. Core(u) /\ u.dev = d /\ u.acs = w.acs
  BY <1>4, <1>5, WithDevIs
<1> HIDE DEF u
<1>7. Known(u.dev, u.acs, X)
  BY <1>5, <1>6 DEF Known
<1>8. CASE v = ClearQueuedActRequest(u)
  BY <1>6, <1>7, <1>8, ClearQueuedKnown
<1>9. CASE /\ v = ActivateQueued(u) /\ w.dev.queued_act_request # None /\ w.dev.state = DISCONNECTED
           /\ w.dev.waiting_for_carrier
  <2>1. u.dev.queued_act_request # None /\ u.dev.state = DISCONNECTED /\ Yields(u.dev)
    BY <1>5, <1>6, <1>9 DEF Yields
  <2> QED  BY <1>6, <1>7, <1>9, <2>1, ActivateQueuedKnown
<1> QED  BY <1>3, <1>7, <1>8, <1>9

\* The device after the carrier has changed, before a waiting request is looked at
CarrierSet(d, c, e) ==
    \/ c = TRUE /\ e = CarrierChanged([d EXCEPT !.carrier = TRUE, !.carrier_defer = FALSE], TRUE)
    \/ c = FALSE /\ e = CarrierChanged([d EXCEPT !.carrier = FALSE], FALSE)
    \/ c = FALSE /\ e = [d EXCEPT !.carrier = FALSE, !.carrier_defer = TRUE]

\* A device whose carrier has changed is sound.
LEMMA CarrierSetIs ==
    ASSUME NEW d, Dev(d), NEW c \in BOOLEAN, NEW e, CarrierSet(d, c, e)
    PROVE  /\ Dev(e) /\ SameStages(d, e) /\ e.state = d.state /\ e.managed = d.managed
           /\ e.act_request = d.act_request /\ e.queued_act_request = d.queued_act_request
           /\ e.waiting_for_carrier = d.waiting_for_carrier /\ e.fw = d.fw
           /\ e.carrier = c /\ e.carrier_wait = d.carrier_wait
<1>1. d \in Devices
  BY DEF Dev, Devs
<1>2. ASSUME NEW b, NEW a \in BOOLEAN, FlagsOnly(d, b), b.managed = d.managed,
             b.waiting_for_carrier = d.waiting_for_carrier,
             b.carrier = c, b.carrier_wait = d.carrier_wait,
             e = b \/ e = CarrierChanged(b, a)
      PROVE  /\ Dev(e) /\ SameStages(d, e) /\ e.state = d.state /\ e.managed = d.managed
             /\ e.act_request = d.act_request /\ e.queued_act_request = d.queued_act_request
             /\ e.waiting_for_carrier = d.waiting_for_carrier /\ e.fw = d.fw
             /\ e.carrier = c /\ e.carrier_wait = d.carrier_wait
  <2>1. Dev(b) /\ SameStages(d, b)
    BY <1>2, FlagsOnlyIs
  <2>2. CASE e = b
    BY <1>2, <2>1, <2>2 DEF FlagsOnly
  <2>3. CASE e = CarrierChanged(b, a)
    <3>1. Dev(e) /\ Alike(b, e) /\ SameStages(b, e)
      BY <2>1, <2>3, CarrierChangedIs
    <3> QED  BY <1>2, <2>1, <3>1 DEF FlagsOnly, Alike, SameStages
  <2> QED  BY <1>2, <2>2, <2>3
<1>3. CASE c = TRUE /\ e = CarrierChanged([d EXCEPT !.carrier = TRUE, !.carrier_defer = FALSE], TRUE)
  <2> DEFINE b == [d EXCEPT !.carrier = TRUE, !.carrier_defer = FALSE]
  <2>1. /\ FlagsOnly(d, b) /\ b.managed = d.managed
        /\ b.waiting_for_carrier = d.waiting_for_carrier
        /\ b.carrier = c /\ b.carrier_wait = d.carrier_wait
    BY <1>1, <1>3 DEF Devices, FlagsOnly
  <2>2. e = CarrierChanged(b, TRUE) /\ TRUE \in BOOLEAN
    BY <1>3
  <2> HIDE DEF b
  <2> QED  BY <1>2, <2>1, <2>2
<1>4. CASE c = FALSE /\ e = CarrierChanged([d EXCEPT !.carrier = FALSE], FALSE)
  <2> DEFINE b == [d EXCEPT !.carrier = FALSE]
  <2>1. /\ FlagsOnly(d, b) /\ b.managed = d.managed
        /\ b.waiting_for_carrier = d.waiting_for_carrier
        /\ b.carrier = c /\ b.carrier_wait = d.carrier_wait
    BY <1>1, <1>4 DEF Devices, FlagsOnly
  <2>2. e = CarrierChanged(b, FALSE) /\ FALSE \in BOOLEAN
    BY <1>4
  <2> HIDE DEF b
  <2> QED  BY <1>2, <2>1, <2>2
<1>5. CASE c = FALSE /\ e = [d EXCEPT !.carrier = FALSE, !.carrier_defer = TRUE]
  <2>1. /\ FlagsOnly(d, e) /\ e.managed = d.managed
        /\ e.waiting_for_carrier = d.waiting_for_carrier
        /\ e.carrier = c /\ e.carrier_wait = d.carrier_wait
    BY <1>1, <1>5 DEF Devices, FlagsOnly
  <2> QED  BY <1>2, <2>1
<1> QED  BY <1>3, <1>4, <1>5 DEF CarrierSet

\* nm_device_set_carrier: nothing, a change, or a change and the check after it.
LEMMA SetCarrierCases ==
    ASSUME NEW w, Core(w), NEW c \in BOOLEAN
    PROVE  \/ SetCarrier(w, c) = w
           \/ \E e : /\ w.dev.carrier # c /\ CarrierSet(w.dev, c, e)
                     /\ \/ /\ SetCarrier(w, c) = WithDev(w, e)
                           /\ c => ~w.dev.carrier_wait
                        \/ /\ SetCarrier(w, c) = CarrierWaitCheck(WithDev(w, e)) /\ c
<1>1. w.dev \in Devices /\ w.dev.carrier_wait \in BOOLEAN /\ w.dev.carrier \in BOOLEAN
  BY CoreIs, StatesAre DEF Devs
<1> DEFINE d == [w.dev EXCEPT !.carrier = c]
<1>2. d.carrier_wait = w.dev.carrier_wait
  BY <1>1 DEF Devices
<1>3. CASE w.dev.carrier = c
  BY <1>3 DEF SetCarrier
<1>4. CASE w.dev.carrier # c /\ c = TRUE
  <2> DEFINE f == [d EXCEPT !.carrier_defer = FALSE]
             e == CarrierChanged(f, TRUE)
  <2>1. SetCarrier(w, c) = IF w.dev.carrier_wait THEN CarrierWaitCheck(WithDev(w, e)) ELSE WithDev(w, e)
    BY <1>2, <1>4 DEF SetCarrier
  <2>2. f = [w.dev EXCEPT !.carrier = TRUE, !.carrier_defer = FALSE]
    BY <1>1, <1>4 DEF Devices
  <2>3. CarrierSet(w.dev, c, e)
    BY <1>4, <2>2 DEF CarrierSet
  <2> HIDE DEF e
  <2> QED  BY <1>1, <1>4, <2>1, <2>3
<1>5. CASE w.dev.carrier # c /\ c = FALSE
  <2> DEFINE f == [d EXCEPT !.carrier_defer = TRUE]
             e == CarrierChanged(d, FALSE)
  <2>1. SetCarrier(w, c) = WithDev(w, e) \/ SetCarrier(w, c) = WithDev(w, f)
    BY <1>5 DEF SetCarrier
  <2>2. f = [w.dev EXCEPT !.carrier = FALSE, !.carrier_defer = TRUE]
    BY <1>1, <1>5 DEF Devices
  <2>3. CarrierSet(w.dev, c, e) /\ CarrierSet(w.dev, c, f)
    BY <1>5, <2>2 DEF CarrierSet
  <2> HIDE DEF e, f
  <2> QED  BY <1>5, <2>1, <2>3
<1> QED  BY <1>3, <1>4, <1>5

\* nm_device_set_carrier keeps the world sound and forgets nobody.
LEMMA SetCarrierIs ==
    ASSUME NEW w, Core(w), NEW c \in BOOLEAN, NEW v, v = SetCarrier(w, c)
    PROVE  /\ Core(v) /\ Kept(w, v) /\ Undisturbed(w.dev, v.dev)
           /\ \A X : Remembers(w, X) => Remembers(v, X)
<1>0. Dev(w.dev)
  BY DEF Core
<1>1. CASE v = w
  BY <1>1, KeptReflexive DEF Undisturbed, SameStages
<1>2. ASSUME NEW e, w.dev.carrier # c, CarrierSet(w.dev, c, e),
             \/ v = WithDev(w, e) /\ (c => ~w.dev.carrier_wait)
             \/ v = CarrierWaitCheck(WithDev(w, e)) /\ c
      PROVE  /\ Core(v) /\ Kept(w, v) /\ Undisturbed(w.dev, v.dev)
             /\ \A X : Remembers(w, X) => Remembers(v, X)
  <2> DEFINE u == WithDev(w, e)
  <2>1. /\ Dev(e) /\ SameStages(w.dev, e) /\ e.state = w.dev.state /\ e.managed = w.dev.managed
        /\ e.act_request = w.dev.act_request /\ e.queued_act_request = w.dev.queued_act_request
        /\ e.waiting_for_carrier = w.dev.waiting_for_carrier /\ e.fw = w.dev.fw
        /\ e.carrier = c /\ e.carrier_wait = w.dev.carrier_wait
    BY <1>0, <1>2, CarrierSetIs
  <2>2. Core(u) /\ Kept(w, u) /\ u.dev = e /\ u.acs = w.acs /\ u.link = w.link
    BY <2>1, WithDevIs
  <2>3. (v = u /\ (c => ~w.dev.carrier_wait)) \/ (v = CarrierWaitCheck(u) /\ c)
    BY <1>2
  <2> HIDE DEF u
  <2>4. Undisturbed(w.dev, u.dev)
    BY <2>1, <2>2 DEF Undisturbed
  <2>5. \A X : Known(w.dev, w.acs, X) => Known(u.dev, u.acs, X)
    BY <2>1, <2>2 DEF Known
  <2>6. CASE v = u /\ (c => ~w.dev.carrier_wait)
    <3>1. ASSUME Waits(w.dev) PROVE Waits(u.dev)
      <4>1. ~(e.queued_act_request # None /\ e.waiting_for_carrier)
        <5>1. w.dev.carrier \in BOOLEAN
          BY CoreIs, StatesAre
        <5> QED  BY <1>2, <2>1, <2>6, <3>1, <5>1 DEF Waits
      <4> QED  BY <2>2, <4>1 DEF Waits
    <3>2. \A X : Remembers(w, X) => Remembers(u, X)
      BY <2>5, <3>1 DEF Remembers
    <3> QED  BY <2>2, <2>4, <2>6, <3>2
  <2>7. CASE v = CarrierWaitCheck(u) /\ c
    <3>1. Core(v) /\ Kept(u, v) /\ Undisturbed(u.dev, v.dev) /\ Waits(v.dev)
      BY <2>2, <2>7, CarrierWaitCheckIs
    <3>2. ASSUME NEW X, Remembers(w, X)
          PROVE  Known(v.dev, v.acs, X)
      <4>1. u.dev.queued_act_request # None /\ u.dev.waiting_for_carrier
              /\ u.dev.state = DISCONNECTED => Yields(u.dev)
        BY <2>1, <2>2, <3>2 DEF Remembers, Waits, Yields
      <4>2. Known(u.dev, u.acs, X)
        BY <2>5, <3>2 DEF Remembers
      <4> QED  BY <2>2, <2>7, <4>1, <4>2, CarrierWaitCheckKnown
    <3>3. \A X : Remembers(w, X) => Remembers(v, X)
      BY <3>1, <3>2 DEF Remembers
    <3>4. Kept(w, v)
      BY <2>2, <3>1, KeptTransitive
    <3>5. Undisturbed(w.dev, v.dev)
      BY <2>4, <3>1, UndisturbedTransitive
    <3> QED  BY <3>1, <3>3, <3>4, <3>5
  <2> QED  BY <2>3, <2>6, <2>7
<1> QED  BY <1>1, <1>2, SetCarrierCases

\* nm_device_bring_up keeps the world sound and forgets nobody.
LEMMA BringUpIs ==
    ASSUME NEW w, Core(w), NEW v, v = BringUp(w)
    PROVE  /\ Core(v) /\ Kept(w, v) /\ Undisturbed(w.dev, v.dev)
           /\ \A X : Remembers(w, X) => Remembers(v, X)
<1> DEFINE u == SetCarrier(w, w.link.carrier)
           d == [u.dev EXCEPT !.carrier_wait = TRUE]
<1>1. w.link.carrier \in BOOLEAN
  BY CoreIs DEF Links
<1>2. /\ Core(u) /\ Kept(w, u) /\ Undisturbed(w.dev, u.dev)
      /\ \A X : Remembers(w, X) => Remembers(u, X)
  BY <1>1, SetCarrierIs
<1>3. v = w \/ v = u \/ v = WithDev(u, d)
  BY DEF BringUp
<1> HIDE DEF u
<1>4. u.dev \in Devices /\ Dev(u.dev)
  BY <1>2, CoreIs DEF Devs
<1>5. /\ FlagsOnly(u.dev, d) /\ d.managed = u.dev.managed /\ d.carrier = u.dev.carrier
      /\ d.carrier_wait = TRUE /\ d.waiting_for_carrier = u.dev.waiting_for_carrier
  BY <1>4 DEF Devices, FlagsOnly
<1> HIDE DEF d
<1>6. Dev(d) /\ SameStages(u.dev, d)
  BY <1>4, <1>5, FlagsOnlyIs
<1>7. d.state = u.dev.state /\ d.act_request = u.dev.act_request /\ d.queued_act_request = u.dev.queued_act_request
  BY <1>5 DEF FlagsOnly
<1>8. CASE v = WithDev(u, d)
  <2>1. Core(v) /\ Kept(u, v) /\ v.dev = d /\ v.acs = u.acs
    BY <1>2, <1>6, <1>7, <1>8, WithDevIs
  <2>2. \A X : Known(u.dev, u.acs, X) => Known(v.dev, v.acs, X)
    BY <1>7, <2>1 DEF Known
  <2>3. Waits(u.dev) => Waits(v.dev)
    BY <1>5, <1>7, <2>1 DEF Waits
  <2>4. \A X : Remembers(u, X) => Remembers(v, X)
    BY <2>2, <2>3 DEF Remembers
  <2>5. Undisturbed(u.dev, v.dev)
    BY <1>5, <1>6, <1>7, <2>1 DEF Undisturbed, FlagsOnly
  <2>6. Kept(w, v) /\ Undisturbed(w.dev, v.dev)
    BY <1>2, <2>1, <2>5, KeptTransitive, UndisturbedTransitive
  <2> QED  BY <1>2, <2>1, <2>4, <2>6
<1>9. CASE v = w
  BY <1>9, KeptReflexive DEF Undisturbed, SameStages
<1> QED  BY <1>2, <1>3, <1>8, <1>9

-----------------------------------------------------------------------------
(* The state machine *)

\* No connection that is ending is told to go on.
NotRevived(h, new) ==
    new < PREPARE \/ new > ACTIVATED
    \/ \A x \in ACs : x = h.dev.act_request => h.acs[x].state < AC_DEACTIVATING

\* The handlers of state-changed: each active connection that follows the device
\* is told, each other one is as before.
LEMMA EmitIs ==
    ASSUME NEW h, h.acs \in [ACs -> Conns], NEW new \in DeviceStates, NEW old, NotRevived(h, new),
           NEW t, t = EmitStateChanged(h, new, old)
    PROVE  /\ t = [dev |-> h.dev, acs |-> t.acs, link |-> h.link]
           /\ t.dev = h.dev /\ t.link = h.link /\ t.acs \in [ACs -> Conns]
           /\ \A x \in ACs : Evolves(h.acs[x], t.acs[x])
           /\ \A x \in ACs :
                IF Follows(h.acs[x], h.dev.act_request = x, new, old)
                THEN t.acs[x].state = AcStateFor(new) ELSE t.acs[x] = h.acs[x]
<1> DEFINE F(x) == Follows(h.acs[x], h.dev.act_request = x, new, old)
           cs == [x \in ACs |-> IF F(x) THEN AcSetState(h.acs[x], AcStateFor(new)) ELSE h.acs[x]]
<1>1. t = [dev |-> h.dev, link |-> h.link, acs |-> cs]
  BY DEF EmitStateChanged
<1>2. AcStateFor(new) \in 0 .. 4 /\ (new < PREPARE \/ new > ACTIVATED => AcStateFor(new) >= AC_DEACTIVATING)
  BY DEF AcStateFor, DeviceStates
<1>3. ASSUME NEW x \in ACs
      PROVE  /\ cs[x] \in Conns /\ Evolves(h.acs[x], cs[x])
             /\ IF F(x) THEN cs[x].state = AcStateFor(new) ELSE cs[x] = h.acs[x]
  <2>1. h.acs[x] \in Conns
    OBVIOUS
  <2>2. CASE ~F(x)
    BY <2>1, <2>2, EvolvesReflexive
  <2>3. CASE F(x)
    <3>1. h.acs[x].state < AC_DEACTIVATED /\ (x = h.dev.act_request \/ new < PREPARE)
      BY <2>3 DEF Follows
    <3>2. cs[x] = AcSetState(h.acs[x], AcStateFor(new))
      BY <2>3
    <3> HIDE DEF cs, F
    <3>3. h.acs[x].state >= AC_DEACTIVATING => AcStateFor(new) >= AC_DEACTIVATING
      <4>1. h.acs[x].state \in 0 .. 4
        BY <2>1, ConnIs
      <4>2. CASE new < PREPARE \/ new > ACTIVATED
        BY <1>2, <4>2
      <4>3. CASE \A y \in ACs : y = h.dev.act_request => h.acs[y].state < AC_DEACTIVATING
        <5>1. new < PREPARE \/ h.acs[x].state < AC_DEACTIVATING
          BY <3>1, <4>3
        <5> QED  BY <1>2, <4>1, <5>1
      <4> QED  BY <4>2, <4>3 DEF NotRevived
    <3>4. /\ cs[x] \in Conns /\ Evolves(h.acs[x], cs[x])
          /\ cs[x].state = IF h.acs[x].state = AC_DEACTIVATED THEN AC_DEACTIVATED ELSE AcStateFor(new)
      BY <1>2, <2>1, <3>2, <3>3, AcSetStateIs
    <3>5. h.acs[x].state \in 0 .. 4
      BY <2>1, ConnIs
    <3>6. cs[x].state = AcStateFor(new)
      BY <3>1, <3>4, <3>5
    <3> QED  BY <2>3, <3>4, <3>6
  <2> QED  BY <2>2, <2>3
<1>4. t.acs = cs /\ t.dev = h.dev /\ t.link = h.link
  BY <1>1
<1>5. cs \in [ACs -> Conns]
  BY <1>3
<1> HIDE DEF cs
<1> QED  BY <1>1, <1>3, <1>4, <1>5

\* The same requests are known to the device; connections may have ended.
LEMMA KnownKept ==
    ASSUME NEW d, NEW cs, NEW e, NEW bs, NEW X, Known(d, cs, X),
           e.act_request = d.act_request, e.queued_act_request = d.queued_act_request,
           cs \in [ACs -> Conns], bs \in [ACs -> Conns],
           \A x \in ACs : Evolves(cs[x], bs[x])
    PROVE  Known(e, bs, X)
<1>1. ASSUME NEW x \in ACs, Lives(bs[x])
      PROVE  Lives(cs[x])
  <2>1. cs[x].state \in 0 .. 4 /\ bs[x].state \in 0 .. 4
    BY ConnIs
  <2>2. cs[x].listed
    BY <1>1, Zenon DEF Lives, Evolves
  <2>3. bs[x].state < AC_DEACTIVATED
    BY <1>1 DEF Lives
  <2>4. cs[x].state = AC_DEACTIVATED => bs[x].state = AC_DEACTIVATED
    BY DEF Evolves
  <2>5. \A a, b \in 0 .. 4 : b < 4 /\ (a = 4 => b = 4) => a < 4
    OBVIOUS
  <2>6. cs[x].state < AC_DEACTIVATED
    BY <2>1, <2>3, <2>4, <2>5
  <2> QED  BY <2>2, <2>6 DEF Lives
<1>2. \A x : Overtakable(cs, x) => Overtakable(bs, x)
  BY OvertakableEvolves
<1> QED  BY <1>1, <1>2 DEF Known

\* Only the current request follows a device that does not go down.
LEMMA ToldCurrent ==
    ASSUME NEW w, Core(w), NEW new \in DeviceStates, new >= PREPARE,
           w.dev.state >= DISCONNECTED, w.dev.act_request # None,
           new > ACTIVATED \/ w.dev.state <= ACTIVATED,
           NEW e, e.act_request = w.dev.act_request,
           e.queued_act_request = w.dev.queued_act_request,
           NEW t, t = EmitStateChanged(WithDev(w, e), new, w.dev.state)
    PROVE  /\ t = [dev |-> e, acs |-> t.acs, link |-> w.link] /\ t.dev = e /\ t.link = w.link
           /\ t.acs \in [ACs -> Conns]
           /\ \A x \in ACs : Evolves(w.acs[x], t.acs[x])
           /\ \A d : d.state = new /\ d.act_request = w.dev.act_request
                     /\ d.queued_act_request = w.dev.queued_act_request
                     => FollowsDevice(d, t.acs)
<1> DEFINE h == WithDev(w, e)
<1>1. h.dev = e /\ h.acs = w.acs /\ h.link = w.link
  BY DEF WithDev
<1>2. /\ w.acs \in [ACs -> Conns] /\ w.dev.act_request \in ACs /\ w.dev.state \in DeviceStates
      /\ \A x \in ACs : w.acs[x] \in Conns
  BY CoreIs
<1>3. \A x \in ACs : x = w.dev.act_request => Matches(w.dev.state, w.acs[x].state) /\ w.acs[x].phase = "done"
  BY DEF Core, FollowsDevice
<1>4. NotRevived(h, new)
  BY <1>1, <1>2, <1>3 DEF Matches, DeviceStates, NotRevived
<1>5. h.acs \in [ACs -> Conns] /\ t = EmitStateChanged(h, new, w.dev.state)
  BY <1>1, <1>2
<1> HIDE DEF h
<1>6. /\ t = [dev |-> h.dev, acs |-> t.acs, link |-> h.link]
      /\ t.dev = h.dev /\ t.link = h.link /\ t.acs \in [ACs -> Conns]
      /\ \A x \in ACs : Evolves(h.acs[x], t.acs[x])
      /\ \A x \in ACs :
            IF Follows(h.acs[x], h.dev.act_request = x, new, w.dev.state)
            THEN t.acs[x].state = AcStateFor(new) ELSE t.acs[x] = h.acs[x]
  BY <1>4, <1>5, EmitIs
<1>7. \A x \in ACs : x # w.dev.act_request => t.acs[x] = w.acs[x]
  BY <1>1, <1>6 DEF Follows, DeviceStates
<1>8. ASSUME NEW x \in ACs, x = w.dev.act_request
      PROVE  Matches(new, t.acs[x].state)
  <2>1. w.acs[x].state \in 0 .. 4
    BY <1>2, ConnIs
  <2>2. CASE w.acs[x].state < AC_DEACTIVATED
    <3>1. Follows(h.acs[x], h.dev.act_request = x, new, w.dev.state)
      BY <1>1, <1>3, <1>8, <2>2 DEF Follows
    <3>2. t.acs[x].state = AcStateFor(new)
      BY <1>6, <3>1
    <3> QED  BY <3>2 DEF Matches, AcStateFor, DeviceStates
  <2>3. CASE w.acs[x].state = AC_DEACTIVATED
    <3>1. ~Follows(h.acs[x], h.dev.act_request = x, new, w.dev.state)
      BY <1>1, <2>3 DEF Follows
    <3>2. t.acs[x].state = AC_DEACTIVATED
      BY <1>1, <1>6, <2>3, <3>1
    <3>3. new > ACTIVATED
      BY <1>2, <1>3, <1>8, <2>3 DEF Matches, DeviceStates
    <3> QED  BY <3>2, <3>3 DEF Matches, DeviceStates
  <2> QED  BY <2>1, <2>2, <2>3
<1>9. \A x \in ACs : Evolves(w.acs[x], t.acs[x])
  BY <1>1, <1>6
<1>10. ASSUME NEW d, d.state = new, d.act_request = w.dev.act_request,
              d.queued_act_request = w.dev.queued_act_request
       PROVE  FollowsDevice(d, t.acs)
  <2>1. \A x \in ACs : w.acs[x].phase = "done" => t.acs[x].phase = "done"
    BY <1>9 DEF Evolves
  <2>2. \A x \in ACs : t.acs[x].listed = w.acs[x].listed
    BY <1>9 DEF Evolves
  <2>3. \A x \in ACs : t.acs[x].listed => t.acs[x].phase = "done"
    BY <2>1, <2>2 DEF Core, FollowsDevice
  <2>4. \A x \in ACs : x \in {d.act_request, d.queued_act_request} => t.acs[x].phase = "done"
    BY <1>10, <2>1 DEF Core, FollowsDevice
  <2>5. \A x \in ACs : x # d.act_request => t.acs[x].state \in {AC_UNKNOWN, AC_DEACTIVATED}
    BY <1>7, <1>10 DEF Core, FollowsDevice
  <2>6. \A x \in ACs : x = d.act_request => Matches(d.state, t.acs[x].state)
    BY <1>8, <1>10
  <2> QED  BY <2>3, <2>4, <2>5, <2>6 DEF FollowsDevice
<1> QED  BY <1>1, <1>6, <1>9, <1>10

\* The world after a step upwards or the begin of the end: f is the device.
LEMMA Moved ==
    ASSUME NEW w, Core(w), NEW new \in DeviceStates, new >= PREPARE,
           w.dev.state >= DISCONNECTED, w.dev.act_request # None,
           new > ACTIVATED \/ w.dev.state <= ACTIVATED,
           NEW e, e.act_request = w.dev.act_request,
           e.queued_act_request = w.dev.queued_act_request,
           NEW f, Dev(f), f.state = new, f.act_request = w.dev.act_request,
           f.queued_act_request = w.dev.queued_act_request,
           f.waiting_for_carrier = w.dev.waiting_for_carrier,
           f.carrier = w.dev.carrier, f.carrier_wait = w.dev.carrier_wait,
           NEW v, v = WithDev(EmitStateChanged(WithDev(w, e), new, w.dev.state), f)
    PROVE  /\ Core(v) /\ Kept(w, v) /\ v.dev = f
           /\ \A X : Remembers(w, X) => Remembers(v, X)
<1> DEFINE t == EmitStateChanged(WithDev(w, e), new, w.dev.state)
<1>1. v = [dev |-> f, acs |-> t.acs, link |-> t.link]
  BY DEF WithDev
<1>2. /\ t.dev = e /\ t.link = w.link /\ t.acs \in [ACs -> Conns]
      /\ \A x \in ACs : Evolves(w.acs[x], t.acs[x])
      /\ \A d : d.state = new /\ d.act_request = w.dev.act_request
                /\ d.queued_act_request = w.dev.queued_act_request
                => FollowsDevice(d, t.acs)
  BY ToldCurrent
<1> HIDE DEF t
<1>3. v.dev = f /\ v.acs = t.acs /\ v.link = w.link
  BY <1>1, <1>2
<1>4. w.acs \in [ACs -> Conns] /\ w.link \in Links
  BY CoreIs
<1>5. v \in Worlds
  BY <1>1, <1>2, <1>4 DEF Worlds, Dev
<1>6. FollowsDevice(v.dev, v.acs)
  BY <1>2, <1>3
<1>7. Core(v)
  BY <1>3, <1>5, <1>6 DEF Core
<1>8. Kept(w, v)
  BY <1>2, <1>3 DEF Kept
<1>9. ASSUME NEW X, Remembers(w, X)
      PROVE  Waits(v.dev) /\ Known(v.dev, v.acs, X)
  <2>1. Known(w.dev, w.acs, X) /\ Waits(w.dev)
    BY <1>9 DEF Remembers
  <2>2. Known(f, t.acs, X)
    BY <1>2, <1>4, <2>1, KnownKept
  <2>3. f.state # DISCONNECTED
    BY DEF DeviceStates
  <2>4. Waits(f)
    BY <2>1, <2>3 DEF Waits
  <2> QED  BY <1>3, <2>2, <2>4
<1> QED  BY <1>3, <1>7, <1>8, <1>9 DEF Remembers

\* The device is set twice.
LEMMA WithDevTwice ==
    ASSUME NEW w, NEW d, NEW e
    PROVE  /\ WithDev(WithDev(w, d), e) = WithDev(w, e)
           /\ WithDev(w, d).dev = d /\ WithDev(w, d).acs = w.acs /\ WithDev(w, d).link = w.link
BY DEF WithDev

\* The handlers of state-changed leave the device alone.
LEMMA EmittedSelf ==
    ASSUME NEW h, NEW new, NEW old, NEW t, t = EmitStateChanged(h, new, old)
    PROVE  t = WithDev(t, h.dev) /\ t.dev = h.dev
BY DEF EmitStateChanged, WithDev

\* The stations of _set_state_full
LEMMA SetStateIs ==
    ASSUME NEW w, NEW new, new # w.dev.state,
           NEW h, h = WithDev(w, Enter(w.dev, new)),
           NEW g, g = GivesUpQueued(h, new, w.dev.state),
           NEW k, k = Handle(g, new, w.dev.state),
           NEW t, t = EmitStateChanged(k, new, w.dev.state)
    PROVE  SetState(w, new) = Proceed(PolicyStateChanged(t, new), new)
BY DEF SetState

\* What the end of _set_state_full does in each state.
LEMMA ProceedIs ==
    ASSUME NEW u
    PROVE  /\ Proceed(u, UNMANAGED) = u
           /\ Proceed(u, UNAVAILABLE) =
                IF u.dev.carrier THEN WithDev(u, QueueRecheckAvailable(u.dev)) ELSE u
           /\ Proceed(u, DISCONNECTED) =
                IF u.dev.queued_act_request # None /\ ~u.dev.waiting_for_carrier
                THEN ActivateQueued(u) ELSE u
           /\ Proceed(u, IP_CHECK) = WithDev(u, [u.dev EXCEPT !.fw = "wait_ip_config"])
           /\ Proceed(u, SECONDARIES) = WithDev(u, [u.dev EXCEPT !.ping = FALSE])
           /\ Proceed(u, DEACTIVATING) =
                WithDev(u, [CancelActivation(u.dev) EXCEPT !.call = "pre-down"])
           /\ Proceed(u, FAILED) =
                WithDev(u, QueueState(CancelActivation(u.dev), DISCONNECTED))
BY DEF Proceed

UpStates == {PREPARE, CONFIG, IP_CONFIG, IP_CHECK, SECONDARIES, ACTIVATED}

\* _set_state_full one state up: the current request follows.
LEMMA SetStateUp ==
    ASSUME NEW w, Core(w), NEW new \in UpStates, w.dev.state # new,
           w.dev.state >= DISCONNECTED, w.dev.state <= ACTIVATED,
           w.dev.act_request # None, Quiet(w.dev),
           NEW v, v = SetState(w, new)
    PROVE  /\ Core(v) /\ Kept(w, v)
           /\ v.dev.state = new /\ v.dev.act_request = w.dev.act_request
           /\ new # IP_CHECK => Quiet(v.dev)
           /\ \A X : Remembers(w, X) => Remembers(v, X)
<1> DEFINE e == Enter(w.dev, new)
           h == WithDev(w, e)
           t == EmitStateChanged(h, new, w.dev.state)
           q == QueueState(e, ACTIVATED)
<1>1. new \in DeviceStates /\ new \in Nat /\ new >= PREPARE /\ new <= ACTIVATED
  BY DEF UpStates, DeviceStates
<1>2. Dev(w.dev) /\ w.dev \in Devs
  BY CoreIs
<1>3. Entered(w.dev, new, e)
  BY <1>1, <1>2, EnterIs
<1>4. GivesUpQueued(h, new, w.dev.state) = h
  BY <1>1 DEF GivesUpQueued
<1>5. Handle(h, new, w.dev.state) = h
  BY <1>1 DEF Handle
<1>6. v = Proceed(PolicyStateChanged(t, new), new)
  BY <1>4, <1>5, SetStateIs
<1>7. t = WithDev(t, e) /\ t.dev = e
  BY EmittedSelf, WithDevTwice
<1> HIDE DEF e
<1>8. Quiet(e)
  BY <1>3 DEF Quiet, Entered
<1>9. Dev(e)
  <2>1. Serves(e)
    BY <1>3, <1>8 DEF Serves, Quiet, Entered
  <2>2. Queues(e)
    BY <1>3 DEF Queues, Entered
  <2>3. Holds(e)
    BY <1>1, <1>2, <1>3 DEF Holds, Dev, Entered
  <2> QED  BY <1>3, <2>1, <2>2, <2>3 DEF Dev, Entered
<1> HIDE DEF t, h, q
<1>10. ASSUME NEW f, Dev(f), f.state = new, f.act_request = w.dev.act_request,
              f.queued_act_request = w.dev.queued_act_request,
              f.waiting_for_carrier = w.dev.waiting_for_carrier,
              f.carrier = w.dev.carrier, f.carrier_wait = w.dev.carrier_wait,
              new # IP_CHECK => Quiet(f), v = WithDev(t, f)
       PROVE  /\ Core(v) /\ Kept(w, v)
              /\ v.dev.state = new /\ v.dev.act_request = w.dev.act_request
              /\ new # IP_CHECK => Quiet(v.dev)
              /\ \A X : Remembers(w, X) => Remembers(v, X)
  <2>1. v = WithDev(EmitStateChanged(WithDev(w, e), new, w.dev.state), f)
    BY <1>10 DEF t, h
  <2>2. Core(v) /\ Kept(w, v) /\ v.dev = f /\ \A X : Remembers(w, X) => Remembers(v, X)
    BY <1>1, <1>3, <1>10, <2>1, Moved DEF Entered
  <2> QED  BY <1>10, <2>2
<1>11. CASE new \notin {IP_CHECK, SECONDARIES}
  <2>1. v = t
    BY <1>1, <1>6, <1>11 DEF Proceed, PolicyStateChanged
  <2> QED  BY <1>3, <1>7, <1>8, <1>9, <1>10, <2>1 DEF Entered
<1>12. CASE new = IP_CHECK
  <2> DEFINE f == [e EXCEPT !.fw = "wait_ip_config"]
  <2>1. v = WithDev(t, f)
    BY <1>6, <1>7, <1>12 DEF Proceed, PolicyStateChanged
  <2>2. e \in Devices
    BY <1>3 DEF Devs, Entered
  <2>3. /\ f \in Devices /\ f.idle = e.idle /\ f.queued_state = e.queued_state
        /\ f.state = e.state /\ f.act_request = e.act_request
        /\ f.queued_act_request = e.queued_act_request
        /\ f.waiting_for_carrier = e.waiting_for_carrier
        /\ f.carrier = e.carrier /\ f.carrier_wait = e.carrier_wait
        /\ f.fw = "wait_ip_config" /\ f.ping = e.ping /\ f.call = e.call
        /\ f.deactivating = e.deactivating
    BY <2>2 DEF Devices
  <2> HIDE DEF f
  <2>4. f \in Devs /\ \A x : Pending(f, x) <=> Pending(e, x)
    BY <1>3, <2>3, Adjusted DEF Entered
  <2>5. Serves(f)
    BY <1>3, <1>8, <1>12, <2>3, <2>4 DEF Serves, Quiet, Entered
  <2>6. Queues(f)
    BY <1>3, <2>3 DEF Queues, Entered
  <2>7. Holds(f)
    BY <1>9, <2>3 DEF Holds, Dev
  <2>8. Dev(f)
    BY <2>4, <2>5, <2>6, <2>7 DEF Dev
  <2> QED  BY <1>3, <1>10, <1>12, <2>1, <2>3, <2>8 DEF Entered
<1>13. CASE new = SECONDARIES
  <2> DEFINE f == [q EXCEPT !.ping = FALSE]
  <2>1. v = WithDev(t, f)
    <3>1. PolicyStateChanged(t, new) = WithDev(t, q)
      BY <1>7, <1>13 DEF PolicyStateChanged, q
    <3> DEFINE u == WithDev(t, q)
    <3>2. v = Proceed(u, SECONDARIES)
      BY <1>6, <1>13, <3>1
    <3>3. u.dev = q /\ \A d : WithDev(u, d) = WithDev(t, d)
      BY WithDevTwice
    <3> HIDE DEF u
    <3>4. v = WithDev(u, [u.dev EXCEPT !.ping = FALSE])
      BY <3>2, ProceedIs
    <3> QED  BY <3>3, <3>4
  <2>2. Dev(q) /\ Alike(e, q) /\ SameStages(e, q)
    BY <1>3, <1>9, <1>13, Queued DEF MayQueue, q, Entered
  <2>3. q \in Devices
    BY <2>2 DEF Dev, Devs
  <2>4. q.ping = FALSE
    <3>1. e.ping = FALSE
      BY <1>3, <1>8, StatesAre DEF Quiet, Entered
    <3> QED  BY <2>2, <3>1 DEF Alike
  <2>5. /\ FlagsOnly(q, f)
        /\ f.waiting_for_carrier = q.waiting_for_carrier
        /\ f.carrier = q.carrier /\ f.carrier_wait = q.carrier_wait
    BY <2>3, <2>4 DEF Devices, FlagsOnly
  <2> HIDE DEF f
  <2>6. Dev(f) /\ SameStages(q, f)
    BY <2>2, <2>5, FlagsOnlyIs
  <2>7. Quiet(f)
    BY <1>8, <2>2, <2>5, <2>6 DEF Quiet, SameStages, FlagsOnly, Alike
  <2>8. /\ f.state = new /\ f.act_request = w.dev.act_request
        /\ f.queued_act_request = w.dev.queued_act_request
        /\ f.waiting_for_carrier = w.dev.waiting_for_carrier
        /\ f.carrier = w.dev.carrier /\ f.carrier_wait = w.dev.carrier_wait
    BY <1>3, <2>2, <2>5 DEF FlagsOnly, Alike, Entered
  <2> QED  BY <1>10, <2>1, <2>6, <2>7, <2>8
<1> QED  BY <1>11, <1>12, <1>13

\* _set_state_full to DEACTIVATING or FAILED: the current request is ending, and
\* the queued one stays.
LEMMA SetStateEnding ==
    ASSUME NEW w, Core(w), NEW new \in {DEACTIVATING, FAILED},
           w.dev.state >= DISCONNECTED, w.dev.act_request # None,
           NEW v, v = SetState(w, new)
    PROVE  /\ Core(v) /\ Kept(w, v)
           /\ v.dev.state = new /\ v.dev.act_request = w.dev.act_request
           /\ v.dev.queued_act_request = w.dev.queued_act_request
           /\ v.dev.waiting_for_carrier = w.dev.waiting_for_carrier
           /\ v.dev.carrier = w.dev.carrier /\ v.dev.carrier_wait = w.dev.carrier_wait
           /\ \A X : Remembers(w, X) => Remembers(v, X)
<1>1. CASE w.dev.state = new
  <2>1. v = w
    BY <1>1 DEF SetState
  <2> QED  BY <1>1, <2>1, KeptReflexive
<1>2. CASE w.dev.state # new
  <2> DEFINE e == Enter(w.dev, new)
             h == WithDev(w, e)
             t == EmitStateChanged(h, new, w.dev.state)
             c == CancelActivation(e)
  <2>1. new \in DeviceStates /\ new \in Nat /\ new >= PREPARE /\ new > ACTIVATED
    BY DEF DeviceStates
  <2>2. Dev(w.dev) /\ w.dev \in Devs
    BY CoreIs
  <2>3. Entered(w.dev, new, e)
    BY <2>1, <2>2, EnterIs
  <2>4. GivesUpQueued(h, new, w.dev.state) = h
    BY <2>1 DEF GivesUpQueued
  <2>5. Handle(h, new, w.dev.state) = h
    BY <2>1 DEF Handle
  <2>6. v = Proceed(PolicyStateChanged(t, new), new)
    BY <1>2, <2>4, <2>5, SetStateIs
  <2>7. PolicyStateChanged(t, new) = t
    BY <2>1 DEF PolicyStateChanged
  <2>8. t.dev = e
    BY EmittedSelf, WithDevTwice
  <2> HIDE DEF e
  <2>9. /\ c \in Devs /\ Quiet(c)
        /\ c.state = e.state /\ c.managed = e.managed
        /\ c.act_request = e.act_request /\ c.queued_act_request = e.queued_act_request
        /\ c.waiting_for_carrier = e.waiting_for_carrier
        /\ c.call = e.call /\ c.deactivating = e.deactivating
        /\ c.carrier = e.carrier /\ c.carrier_wait = e.carrier_wait
        /\ c.queued_state = e.queued_state
    <3>1. e \in Devs /\ c = CancelActivation(e)
      BY <2>3 DEF Entered
    <3> HIDE DEF c
    <3> QED  BY <3>1, CancelIs
  <2>10. t = EmitStateChanged(WithDev(w, e), new, w.dev.state)
    OBVIOUS
  <2>11. v = Proceed(t, new)
    BY <2>6, <2>7
  <2> HIDE DEF c, t, h
  <2>12. ASSUME NEW f, Dev(f), f.state = new, f.act_request = w.dev.act_request,
                f.queued_act_request = w.dev.queued_act_request,
                f.waiting_for_carrier = w.dev.waiting_for_carrier,
                f.carrier = w.dev.carrier, f.carrier_wait = w.dev.carrier_wait,
                v = WithDev(t, f)
         PROVE  /\ Core(v) /\ Kept(w, v)
                /\ v.dev.state = new /\ v.dev.act_request = w.dev.act_request
                /\ v.dev.queued_act_request = w.dev.queued_act_request
                /\ v.dev.waiting_for_carrier = w.dev.waiting_for_carrier
                /\ v.dev.carrier = w.dev.carrier /\ v.dev.carrier_wait = w.dev.carrier_wait
                /\ \A X : Remembers(w, X) => Remembers(v, X)
    <3>1. v = WithDev(EmitStateChanged(WithDev(w, e), new, w.dev.state), f)
      BY <2>10, <2>12
    <3>2. Core(v) /\ Kept(w, v) /\ v.dev = f /\ \A X : Remembers(w, X) => Remembers(v, X)
      BY <2>1, <2>3, <2>12, <3>1, Moved DEF Entered
    <3> QED  BY <2>12, <3>2
  <2>13. Dev(c)
    <3>1. Serves(c)
      BY <2>3, <2>9 DEF Serves, Quiet, Entered
    <3>2. Queues(c)
      BY <2>3, <2>9 DEF Queues, Entered
    <3>3. Holds(c)
      BY <2>1, <2>2, <2>3, <2>9 DEF Holds, Dev, Entered
    <3> QED  BY <2>9, <3>1, <3>2, <3>3 DEF Dev
  <2>14. CASE new = DEACTIVATING
    <3> DEFINE f == [c EXCEPT !.call = "pre-down"]
    <3>1. v = WithDev(t, f)
      BY <2>8, <2>11, <2>14, ProceedIs DEF c
    <3>2. c \in Devices
      BY <2>9 DEF Devs
    <3>3. /\ f \in Devices /\ f.idle = c.idle /\ f.queued_state = c.queued_state
          /\ f.state = c.state /\ f.act_request = c.act_request
          /\ f.queued_act_request = c.queued_act_request
          /\ f.waiting_for_carrier = c.waiting_for_carrier
          /\ f.carrier = c.carrier /\ f.carrier_wait = c.carrier_wait
          /\ f.fw = c.fw /\ f.ping = c.ping /\ f.call = "pre-down"
          /\ f.deactivating = c.deactivating
      BY <3>2 DEF Devices
    <3> HIDE DEF f
    <3>4. f \in Devs /\ \A x : Pending(f, x) <=> Pending(c, x)
      BY <2>9, <3>3, Adjusted
    <3>5. Serves(f)
      BY <2>3, <2>9, <2>14, <3>3, <3>4 DEF Serves, Quiet, Entered
    <3>6. Queues(f)
      BY <2>13, <3>3 DEF Queues, Dev
    <3>7. Holds(f)
      BY <2>13, <3>3 DEF Holds, Dev
    <3>8. Dev(f)
      BY <3>4, <3>5, <3>6, <3>7 DEF Dev
    <3>9. /\ f.state = new /\ f.act_request = w.dev.act_request
          /\ f.queued_act_request = w.dev.queued_act_request
          /\ f.waiting_for_carrier = w.dev.waiting_for_carrier
          /\ f.carrier = w.dev.carrier /\ f.carrier_wait = w.dev.carrier_wait
      BY <2>3, <2>9, <3>3 DEF Entered
    <3> QED  BY <2>12, <3>1, <3>8, <3>9
  <2>15. CASE new = FAILED
    <3> DEFINE f == QueueState(c, DISCONNECTED)
    <3>1. v = WithDev(t, f)
      BY <2>8, <2>11, <2>15, ProceedIs DEF c
    <3>2. MayQueue(c, DISCONNECTED)
      BY <2>3, <2>9, <2>15 DEF MayQueue, Entered
    <3>3. Dev(f) /\ Alike(c, f)
      BY <2>13, <3>2, Queued
    <3> HIDE DEF f
    <3>4. /\ f.state = new /\ f.act_request = w.dev.act_request
          /\ f.queued_act_request = w.dev.queued_act_request
          /\ f.waiting_for_carrier = w.dev.waiting_for_carrier
          /\ f.carrier = w.dev.carrier /\ f.carrier_wait = w.dev.carrier_wait
      BY <2>3, <2>9, <3>3 DEF Entered, Alike
    <3> QED  BY <2>12, <3>1, <3>3, <3>4
  <2> QED  BY <2>14, <2>15
<1> QED  BY <1>1, <1>2

\* The device has let go of its request and nothing serves it any more.
LetGo(d, new) ==
    /\ d \in Devs /\ Quiet(d) /\ d.state = new /\ d.act_request = None
    /\ d.call = "none" /\ d.deactivating = FALSE /\ d.queued_state = 0

\* A device that has let go of its request is sound.
LEMMA LetGoIs ==
    ASSUME NEW d, NEW new \in {UNMANAGED, UNAVAILABLE, DISCONNECTED}, LetGo(d, new)
    PROVE  Dev(d)
<1>1. Serves(d)
  BY DEF Serves, LetGo, Quiet
<1>2. Queues(d)
  BY DEF Queues, LetGo
<1>3. Holds(d)
  BY DEF Holds, LetGo
<1> QED  BY <1>1, <1>2, <1>3 DEF Dev, LetGo

\* A device that has no request has nothing pending.
LEMMA NothingPending ==
    ASSUME NEW d, Dev(d), d.act_request = None
    PROVE  Quiet(d) /\ d.state <= DISCONNECTED
<1>1. d.state \in Nat
  BY StatesAre DEF Dev
<1>2. d.state <= DISCONNECTED
  BY <1>1 DEF Dev, Holds
<1> QED  BY <1>2 DEF Dev, Serves, Quiet

\* Entering a state without a request, or leaving the request behind
LEMMA EnteredLetsGo ==
    ASSUME NEW d, Dev(d), NEW s \in DeviceStates, NEW e, Entered(d, s, e),
           NEW f, f = Cleanup(e) \/ (f = e /\ d.act_request = None)
    PROVE  /\ LetGo(f, s)
           /\ f.queued_act_request = e.queued_act_request /\ f.managed = e.managed
           /\ f.waiting_for_carrier = e.waiting_for_carrier
           /\ f.carrier = e.carrier /\ f.carrier_wait = e.carrier_wait
<1>1. CASE f = Cleanup(e)
  <2>1. e \in Devs
    BY DEF Entered
  <2>2. /\ f \in Devs /\ Quiet(f)
        /\ f.state = e.state /\ f.managed = e.managed
        /\ f.act_request = None /\ f.queued_act_request = e.queued_act_request
        /\ f.waiting_for_carrier = e.waiting_for_carrier
        /\ f.call = e.call /\ f.deactivating = e.deactivating
        /\ f.carrier = e.carrier /\ f.carrier_wait = e.carrier_wait
        /\ f.queued_state = 0
    BY <1>1, <2>1, CleanupIs
  <2> QED  BY <2>2 DEF LetGo, Entered
<1>2. CASE f = e /\ d.act_request = None
  <2>1. Quiet(d)
    BY <1>2, NothingPending
  <2>2. Quiet(e)
    BY <2>1 DEF Quiet, Entered
  <2> QED  BY <1>2, <2>2 DEF LetGo, Entered
<1> QED  BY <1>1, <1>2

\* Everybody whose activation has begun is told that the device disconnects.
LEMMA ToldDisconnected ==
    ASSUME NEW w, Core(w), w.dev.state >= UNAVAILABLE, w.dev.state # DISCONNECTED,
           NEW d, LetGo(d, DISCONNECTED),
           d.queued_act_request = w.dev.queued_act_request,
           NEW t, t = EmitStateChanged(WithDev(w, d), DISCONNECTED, w.dev.state)
    PROVE  /\ Core(t) /\ Kept(w, t) /\ t.dev = d
           /\ \A X : Known(w.dev, w.acs, X) => Known(t.dev, t.acs, X)
<1> DEFINE h == WithDev(w, d)
<1>1. h.dev = d /\ h.acs = w.acs /\ h.link = w.link
  BY DEF WithDev
<1>2. /\ w.acs \in [ACs -> Conns] /\ w.dev.state \in DeviceStates /\ w.link \in Links
      /\ \A x \in ACs : w.acs[x] \in Conns
  BY CoreIs
<1>3. /\ NotRevived(h, DISCONNECTED) /\ DISCONNECTED \in DeviceStates
      /\ h.acs \in [ACs -> Conns] /\ t = EmitStateChanged(h, DISCONNECTED, w.dev.state)
  BY <1>1, <1>2 DEF NotRevived, DeviceStates
<1> HIDE DEF h
<1>4. /\ t = [dev |-> h.dev, acs |-> t.acs, link |-> h.link]
      /\ t.dev = h.dev /\ t.link = h.link /\ t.acs \in [ACs -> Conns]
      /\ \A x \in ACs : Evolves(h.acs[x], t.acs[x])
      /\ \A x \in ACs :
            IF Follows(h.acs[x], h.dev.act_request = x, DISCONNECTED, w.dev.state)
            THEN t.acs[x].state = AcStateFor(DISCONNECTED) ELSE t.acs[x] = h.acs[x]
  BY <1>3, EmitIs
<1>5. AcStateFor(DISCONNECTED) = AC_DEACTIVATED
  BY DEF AcStateFor
<1>6. d.act_request = None /\ d.state = DISCONNECTED /\ None \notin ACs
  BY RequestAssumption DEF LetGo
<1>7. ASSUME NEW x \in ACs
      PROVE  /\ t.acs[x].state \in {AC_UNKNOWN, AC_DEACTIVATED}
             /\ x = w.dev.act_request => t.acs[x].state = AC_DEACTIVATED
  <2>1. w.acs[x].state \in 0 .. 4
    BY <1>2, ConnIs
  <2>2. CASE x # w.dev.act_request
    <3>1. w.acs[x].state \in {AC_UNKNOWN, AC_DEACTIVATED}
      BY <2>2 DEF Core, FollowsDevice
    <3>2. h.acs[x] = w.acs[x] /\ h.dev.act_request # x
      BY <1>1, <1>6
    <3>3. t.acs[x].state = AC_DEACTIVATED \/ t.acs[x] = h.acs[x]
      BY <1>4, <1>5
    <3> QED  BY <2>2, <3>1, <3>2, <3>3
  <2>3. CASE x = w.dev.act_request
    <3>1. w.dev.act_request # None
      BY <1>6, <2>3
    <3>2. w.dev.state > DISCONNECTED
      <4>1. ~(w.dev.state < DISCONNECTED)
        BY <3>1 DEF Core, Dev, Holds
      <4> QED  BY <1>2, <4>1 DEF DeviceStates
    <3>3. w.acs[x].phase = "done" /\ w.acs[x].state >= AC_ACTIVATING
      <4>1. Matches(w.dev.state, w.acs[x].state) /\ w.acs[x].phase = "done"
        BY <2>3 DEF Core, FollowsDevice
      <4> QED  BY <1>2, <2>1, <3>2, <4>1 DEF Matches, DeviceStates
    <3>4. h.acs[x] = w.acs[x]
      BY <1>1
    <3>5. CASE w.acs[x].state < AC_DEACTIVATED
      <4>1. Follows(h.acs[x], h.dev.act_request = x, DISCONNECTED, w.dev.state)
        BY <1>2, <3>2, <3>3, <3>4, <3>5 DEF Follows, DeviceStates
      <4> QED  BY <1>4, <1>5, <4>1
    <3>6. CASE w.acs[x].state = AC_DEACTIVATED
      <4>1. t.acs[x].state = AC_DEACTIVATED \/ t.acs[x] = h.acs[x]
        BY <1>4, <1>5
      <4> QED  BY <3>4, <3>6, <4>1
    <3> QED  BY <2>1, <3>5, <3>6
  <2> QED  BY <2>2, <2>3
<1>8. \A x \in ACs : Evolves(w.acs[x], t.acs[x])
  BY <1>1, <1>4
<1>9. FollowsDevice(t.dev, t.acs)
  <2>1. \A x \in ACs : w.acs[x].phase = "done" => t.acs[x].phase = "done"
    BY <1>8 DEF Evolves
  <2>2. \A x \in ACs : t.acs[x].listed = w.acs[x].listed
    BY <1>8 DEF Evolves
  <2>3. \A x \in ACs : t.acs[x].listed => t.acs[x].phase = "done"
    BY <2>1, <2>2 DEF Core, FollowsDevice
  <2>4. \A x \in ACs : x \in {d.act_request, d.queued_act_request} => t.acs[x].phase = "done"
    BY <1>6, <2>1 DEF Core, FollowsDevice
  <2>5. \A x \in ACs : x # d.act_request
    BY <1>6
  <2> QED  BY <1>1, <1>4, <1>7, <2>3, <2>4, <2>5 DEF FollowsDevice
<1>10. Dev(d) /\ d \in Devs
  BY LetGoIs DEF LetGo
<1>11. t \in Worlds
  BY <1>1, <1>2, <1>4, <1>10 DEF Worlds
<1>12. Core(t)
  BY <1>1, <1>4, <1>9, <1>10, <1>11 DEF Core
<1>13. Kept(w, t)
  BY <1>1, <1>4, <1>6, <1>8 DEF Kept
<1>14. ASSUME NEW X, Known(w.dev, w.acs, X)
       PROVE  Known(t.dev, t.acs, X)
  <2> SUFFICES ASSUME NEW x \in ACs \ X, Lives(t.acs[x])
               PROVE  x = w.dev.queued_act_request \/ Overtakable(w.acs, x)
    <3>1. \A x \in ACs : Overtakable(w.acs, x) => Overtakable(t.acs, x)
      BY <1>8, OvertakableEvolves
    <3> QED  BY <1>1, <1>4, <3>1 DEF Known
  <2>1. t.acs[x].state # AC_DEACTIVATED
    BY DEF Lives
  <2>2. x # w.dev.act_request
    BY <1>7, <2>1
  <2>3. t.acs[x].state = AC_UNKNOWN
    BY <1>7, <2>1
  <2>4. w.acs[x].state # AC_DEACTIVATED /\ w.acs[x].listed
    BY <1>8, <2>1, Zenon DEF Evolves, Lives
  <2>5. w.acs[x].state = AC_UNKNOWN
    BY <2>2, <2>4 DEF Core, FollowsDevice
  <2>6. Lives(w.acs[x])
    BY <2>4, <2>5 DEF Lives
  <2> QED  BY <1>14, <2>2, <2>6 DEF Known
<1> QED  BY <1>1, <1>4, <1>12, <1>13, <1>14

\* _set_state_full to DISCONNECTED: the current request is over, and the queued
\* one is activated, waits or has failed.
LEMMA SetStateDisconnected ==
    ASSUME NEW w, Core(w), w.dev.state >= UNAVAILABLE, w.dev.state # DISCONNECTED,
           NEW v, v = SetState(w, DISCONNECTED)
    PROVE  /\ Core(v) /\ Kept(w, v)
           /\ v.dev.state = DISCONNECTED /\ v.dev.managed = w.dev.managed
           /\ \A X : Remembers(w, X) => Remembers(v, X)
<1> DEFINE e == Enter(w.dev, DISCONNECTED)
           h == WithDev(w, e)
           f == IF w.dev.state > DISCONNECTED THEN Cleanup(e) ELSE e
           k == WithDev(w, f)
           t == EmitStateChanged(k, DISCONNECTED, w.dev.state)
<1>1. DISCONNECTED \in DeviceStates
  BY DEF DeviceStates
<1>2. Dev(w.dev) /\ w.dev \in Devs /\ w.dev.state \in DeviceStates
  BY CoreIs
<1>3. Entered(w.dev, DISCONNECTED, e)
  BY <1>1, <1>2, EnterIs
<1>4. GivesUpQueued(h, DISCONNECTED, w.dev.state) = h
  BY DEF GivesUpQueued
<1>5. Handle(h, DISCONNECTED, w.dev.state) = k
  BY DEF Handle, CleanedUp, WithDev
<1>6. v = Proceed(PolicyStateChanged(t, DISCONNECTED), DISCONNECTED)
  BY <1>4, <1>5, SetStateIs
<1>7. PolicyStateChanged(t, DISCONNECTED) = t
  BY DEF PolicyStateChanged
<1>8. f = Cleanup(e) \/ (f = e /\ w.dev.act_request = None)
  <2>1. w.dev.state <= DISCONNECTED => w.dev.state < DISCONNECTED
    BY <1>2 DEF DeviceStates
  <2>2. w.dev.state < DISCONNECTED => w.dev.act_request = None
    BY <1>2 DEF Dev, Holds
  <2>3. w.dev.state > DISCONNECTED \/ w.dev.state <= DISCONNECTED
    BY <1>2 DEF DeviceStates
  <2> HIDE DEF e
  <2> QED  BY <2>1, <2>2, <2>3
<1> HIDE DEF e, f
<1>9. /\ LetGo(f, DISCONNECTED)
      /\ f.queued_act_request = e.queued_act_request /\ f.managed = e.managed
      /\ f.waiting_for_carrier = e.waiting_for_carrier
      /\ f.carrier = e.carrier /\ f.carrier_wait = e.carrier_wait
  BY <1>1, <1>2, <1>3, <1>8, EnteredLetsGo
<1>10. f.queued_act_request = w.dev.queued_act_request
  BY <1>3, <1>9 DEF Entered
<1>11. /\ Core(t) /\ Kept(w, t) /\ t.dev = f
       /\ \A X : Known(w.dev, w.acs, X) => Known(t.dev, t.acs, X)
  BY <1>9, <1>10, ToldDisconnected
<1>12. v = IF t.dev.queued_act_request # None /\ ~t.dev.waiting_for_carrier
           THEN ActivateQueued(t) ELSE t
  BY <1>6, <1>7, ProceedIs
<1> HIDE DEF t, k, h
<1>13. t.dev.state = DISCONNECTED /\ t.dev.act_request = None
  BY <1>9, <1>11 DEF LetGo
<1>14. ASSUME Waits(w.dev)
       PROVE  Waits(t.dev)
  BY <1>3, <1>9, <1>10, <1>11, <1>13, <1>14, RequestAssumption DEF Waits, Entered
<1>15. t.dev.managed = w.dev.managed
  BY <1>3, <1>9, <1>11 DEF Entered
<1>16. CASE v = t
  BY <1>11, <1>13, <1>14, <1>15, <1>16 DEF Remembers
<1>17. CASE t.dev.queued_act_request # None /\ v = ActivateQueued(t)
  <2>1. /\ Core(v) /\ Kept(t, v) /\ v.dev.queued_act_request = None
        /\ v.dev.state = DISCONNECTED /\ v.dev.managed = t.dev.managed
    BY <1>11, <1>13, <1>17, ActivateQueuedIs
  <2>2. \A X : Known(t.dev, t.acs, X) => Known(v.dev, v.acs, X)
    BY <1>11, <1>13, <1>17, ActivateQueuedKnown DEF Yields
  <2>3. Waits(v.dev)
    BY <2>1 DEF Waits
  <2>4. Kept(w, v)
    BY <1>11, <2>1, KeptTransitive
  <2> QED  BY <1>11, <1>15, <2>1, <2>2, <2>3, <2>4 DEF Remembers
<1> QED  BY <1>12, <1>16, <1>17

\* Giving up the queued request on entering a state is giving it up before.
LEMMA GivesUpIs ==
    ASSUME NEW w, Core(w), NEW new, NEW e, Entered(w.dev, new, e),
           NEW c, c = ClearQueuedActRequest(w),
           NEW g, g = ClearQueuedActRequest(WithDev(w, e))
    PROVE  /\ Entered(c.dev, new, g.dev)
           /\ \A f : WithDev(g, f) = WithDev(c, f)
           /\ g = WithDev(c, g.dev)
<1> DEFINE y == w.dev.queued_act_request
           u == WithDev(w, e)
<1>0. Core(c) /\ SameDevice(w.dev, c.dev) /\ SameStages(w.dev, c.dev)
  BY ClearQueuedIs
<1>1. u.dev = e /\ u.acs = w.acs /\ u.link = w.link /\ e.queued_act_request = y
  BY DEF WithDev, Entered
<1>2. CASE y = None
  <2>1. c = w
    BY <1>2 DEF ClearQueuedActRequest
  <2>2. g = u
    BY <1>1, <1>2 DEF ClearQueuedActRequest
  <2>3. g = WithDev(c, e) /\ g.dev = e
    BY <1>1, <2>1, <2>2
  <2> QED  BY <2>1, <2>3, WithDevTwice
<1>3. CASE y # None
  <2> DEFINE b == [e EXCEPT !.queued_act_request = None]
             d == [w.dev EXCEPT !.queued_act_request = None]
             cs == [w.acs EXCEPT ![y] = SetStateFail(w.acs[y])]
  <2>1. c = [dev |-> d, acs |-> cs, link |-> w.link]
    BY <1>3 DEF ClearQueuedActRequest, Fail, WithAc, WithoutQueued, WithDev
  <2>2. g = [dev |-> b, acs |-> cs, link |-> w.link]
    <3>1. g = Fail(WithoutQueued(u), y)
      BY <1>1, <1>3 DEF ClearQueuedActRequest
    <3>2. WithoutQueued(u) = [dev |-> b, acs |-> w.acs, link |-> w.link]
      BY <1>1 DEF WithoutQueued, WithDev
    <3> QED  BY <3>1, <3>2 DEF Fail, WithAc
  <2>3. e \in Devs /\ e \in Devices /\ w.dev \in Devices
    BY CoreIs DEF Entered, Devs
  <2>4. /\ b \in Devices /\ b.idle = e.idle /\ b.queued_state = e.queued_state
        /\ b.state = e.state /\ b.managed = e.managed
        /\ b.act_request = e.act_request /\ b.queued_act_request = None
        /\ b.waiting_for_carrier = e.waiting_for_carrier
        /\ b.call = e.call /\ b.deactivating = e.deactivating
        /\ b.carrier = e.carrier /\ b.carrier_wait = e.carrier_wait
        /\ b.fw = e.fw /\ b.ping = e.ping
    BY <2>3 DEF Devices
  <2>5. /\ d.idle = w.dev.idle /\ d.managed = w.dev.managed
        /\ d.act_request = w.dev.act_request /\ d.queued_act_request = None
        /\ d.waiting_for_carrier = w.dev.waiting_for_carrier
        /\ d.carrier = w.dev.carrier /\ d.carrier_wait = w.dev.carrier_wait
        /\ d.fw = w.dev.fw /\ d.ping = w.dev.ping
    BY <2>3 DEF Devices
  <2> HIDE DEF b, d, cs
  <2>6. b \in Devs /\ \A x : Pending(b, x) <=> Pending(e, x)
    BY <2>3, <2>4, Adjusted
  <2>7. \A x : Pending(d, x) <=> Pending(w.dev, x)
    BY <2>5 DEF Pending
  <2>8. Entered(d, new, b)
    BY <2>4, <2>5, <2>6, <2>7 DEF Entered
  <2>9. c.dev = d /\ g.dev = b /\ c.acs = g.acs /\ c.link = g.link /\ g = [dev |-> b, acs |-> c.acs, link |-> c.link]
    BY <2>1, <2>2
  <2> QED  BY <2>8, <2>9 DEF WithDev
<1> QED  BY <1>2, <1>3

\* Everybody is told that the device goes away.
LEMMA ToldGone ==
    ASSUME NEW c, Core(c), c.dev.state >= DISCONNECTED, c.dev.queued_act_request = None,
           NEW new \in {UNMANAGED, UNAVAILABLE},
           NEW d, LetGo(d, new), d.queued_act_request = None,
           NEW t, t = EmitStateChanged(WithDev(c, d), new, c.dev.state)
    PROVE  /\ Core(t) /\ Kept(c, t) /\ t.dev = d
           /\ \A X : Remembers(t, X)
<1> DEFINE h == WithDev(c, d)
<1>1. h.dev = d /\ h.acs = c.acs /\ h.link = c.link
  BY DEF WithDev
<1>2. /\ c.acs \in [ACs -> Conns] /\ c.dev.state \in DeviceStates /\ c.link \in Links
      /\ \A x \in ACs : c.acs[x] \in Conns
  BY CoreIs
<1>3. /\ NotRevived(h, new) /\ new \in DeviceStates
      /\ h.acs \in [ACs -> Conns] /\ t = EmitStateChanged(h, new, c.dev.state)
  BY <1>1, <1>2 DEF NotRevived, DeviceStates
<1> HIDE DEF h
<1>4. /\ t = [dev |-> h.dev, acs |-> t.acs, link |-> h.link]
      /\ t.dev = h.dev /\ t.link = h.link /\ t.acs \in [ACs -> Conns]
      /\ \A x \in ACs : Evolves(h.acs[x], t.acs[x])
      /\ \A x \in ACs :
            IF Follows(h.acs[x], h.dev.act_request = x, new, c.dev.state)
            THEN t.acs[x].state = AcStateFor(new) ELSE t.acs[x] = h.acs[x]
  BY <1>3, EmitIs
<1>5. AcStateFor(new) = AC_DEACTIVATED
  BY DEF AcStateFor
<1>6. d.act_request = None /\ d.state = new /\ None \notin ACs
  BY RequestAssumption DEF LetGo
<1>7. ASSUME NEW x \in ACs
      PROVE  /\ t.acs[x].state \in {AC_UNKNOWN, AC_DEACTIVATED}
             /\ c.acs[x].phase = "done" => t.acs[x].state = AC_DEACTIVATED
  <2>1. c.acs[x].state \in 0 .. 4
    BY <1>2, ConnIs
  <2>2. h.acs[x] = c.acs[x]
    BY <1>1
  <2>3. t.acs[x].state = AC_DEACTIVATED \/ t.acs[x] = c.acs[x]
    BY <1>4, <1>5, <2>2
  <2>4. CASE c.acs[x].phase = "done"
    <3>1. CASE c.acs[x].state < AC_DEACTIVATED
      <4>1. Follows(h.acs[x], h.dev.act_request = x, new, c.dev.state)
        BY <1>2, <2>2, <2>4, <3>1 DEF Follows, DeviceStates
      <4> QED  BY <1>4, <1>5, <4>1
    <3>2. CASE c.acs[x].state = AC_DEACTIVATED
      BY <2>3, <3>2
    <3> QED  BY <2>1, <3>1, <3>2
  <2>5. CASE c.acs[x].phase # "done"
    <3>1. x # c.dev.act_request
      BY <2>5 DEF Core, FollowsDevice
    <3>2. c.acs[x].state \in {AC_UNKNOWN, AC_DEACTIVATED}
      BY <3>1 DEF Core, FollowsDevice
    <3> QED  BY <2>3, <2>5, <3>2
  <2> QED  BY <2>4, <2>5
<1>8. \A x \in ACs : Evolves(c.acs[x], t.acs[x])
  BY <1>1, <1>4
<1>9. \A x \in ACs : t.acs[x].listed => t.acs[x].phase = "done" /\ t.acs[x].state = AC_DEACTIVATED
  <2> SUFFICES ASSUME NEW x \in ACs, t.acs[x].listed
               PROVE  t.acs[x].phase = "done" /\ t.acs[x].state = AC_DEACTIVATED
    OBVIOUS
  <2>1. t.acs[x].listed = c.acs[x].listed
    BY <1>8 DEF Evolves
  <2>2. c.acs[x].phase = "done"
    BY <2>1 DEF Core, FollowsDevice
  <2>3. t.acs[x].phase = "done"
    BY <1>8, <2>2 DEF Evolves
  <2> QED  BY <1>7, <2>2, <2>3
<1>10. FollowsDevice(d, t.acs)
  BY <1>6, <1>7, <1>9 DEF FollowsDevice
<1>11. Dev(d) /\ d \in Devs
  BY LetGoIs DEF LetGo
<1>12. t \in Worlds
  BY <1>1, <1>2, <1>4, <1>11 DEF Worlds
<1>13. Core(t)
  BY <1>1, <1>4, <1>10, <1>11, <1>12 DEF Core
<1>14. Kept(c, t)
  BY <1>1, <1>4, <1>6, <1>8 DEF Kept
<1>15. \A X : Known(t.dev, t.acs, X)
  BY <1>9 DEF Known, Lives
<1>16. Waits(t.dev)
  BY <1>1, <1>4 DEF Waits
<1> QED  BY <1>1, <1>4, <1>13, <1>14, <1>15, <1>16 DEF Remembers

\* The recheck at the end of entering UNAVAILABLE forgets nobody.
LEMMA Rechecked ==
    ASSUME NEW w, Core(w), NEW v, v = Proceed(w, UNAVAILABLE)
    PROVE  /\ Core(v) /\ Kept(w, v)
           /\ v.dev.state = w.dev.state /\ v.dev.managed = w.dev.managed
           /\ \A X : Remembers(w, X) => Remembers(v, X)
<1> DEFINE e == QueueRecheckAvailable(w.dev)
<1>1. v = w \/ v = WithDev(w, e)
  BY ProceedIs
<1>2. Dev(w.dev) /\ w.dev \in Devs
  BY CoreIs
<1>3. /\ e \in Devs /\ Alike(w.dev, e) /\ e.queued_state = w.dev.queued_state
      /\ \A x : x # "recheck" => (Pending(e, x) <=> Pending(w.dev, x))
  BY <1>2, QueueRecheckIs
<1> HIDE DEF e
<1>4. Queues(e)
  BY <1>2, <1>3 DEF Queues, Alike, Dev
<1>5. SameStages(w.dev, e)
  BY <1>3 DEF SameStages
<1>6. Dev(e)
  BY <1>2, <1>3, <1>4, <1>5, StillServes
<1>7. CASE v = w
  BY <1>7, KeptReflexive
<1>8. CASE v = WithDev(w, e)
  <2>1. /\ e.state = w.dev.state /\ e.act_request = w.dev.act_request
        /\ e.queued_act_request = w.dev.queued_act_request
        /\ e.waiting_for_carrier = w.dev.waiting_for_carrier /\ e.managed = w.dev.managed
        /\ e.carrier = w.dev.carrier /\ e.carrier_wait = w.dev.carrier_wait
    BY <1>3 DEF Alike
  <2>2. Core(v) /\ Kept(w, v) /\ v.dev = e /\ v.acs = w.acs
    BY <1>6, <1>8, <2>1, WithDevIs
  <2>3. \A X : Known(w.dev, w.acs, X) => Known(v.dev, v.acs, X)
    BY <2>1, <2>2 DEF Known
  <2>4. Waits(w.dev) => Waits(v.dev)
    BY <2>1, <2>2 DEF Waits
  <2> QED  BY <2>1, <2>2, <2>3, <2>4 DEF Remembers
<1> QED  BY <1>1, <1>7, <1>8

\* _set_state_full to UNMANAGED or UNAVAILABLE from above: all requests are over.
LEMMA SetStateGone ==
    ASSUME NEW w, Core(w), w.dev.state >= DISCONNECTED,
           NEW new \in {UNMANAGED, UNAVAILABLE}, NEW v, v = SetState(w, new)
    PROVE  /\ Core(v) /\ Kept(w, v)
           /\ v.dev.state = new /\ v.dev.managed = w.dev.managed
           /\ \A X : Remembers(v, X)
<1> DEFINE e == Enter(w.dev, new)
           h == WithDev(w, e)
           c == ClearQueuedActRequest(w)
           g == ClearQueuedActRequest(h)
           f == IF new = UNMANAGED /\ g.dev.act_request = None THEN g.dev ELSE Cleanup(g.dev)
           k == WithDev(c, f)
           t == EmitStateChanged(k, new, w.dev.state)
<1>1. new \in DeviceStates /\ new # w.dev.state
  <2>1. w.dev.state \in DeviceStates
    BY CoreIs
  <2> QED  BY <2>1 DEF DeviceStates
<1>2. Dev(w.dev) /\ w.dev \in Devs /\ w.dev.state \in DeviceStates
  BY CoreIs
<1>3. Entered(w.dev, new, e)
  BY <1>1, <1>2, EnterIs
<1>4. GivesUpQueued(h, new, w.dev.state) = g
  BY <1>2 DEF GivesUpQueued, DeviceStates
<1>5. /\ Core(c) /\ Kept(w, c) /\ c.dev.queued_act_request = None
      /\ c.dev.act_request = w.dev.act_request /\ SameDevice(w.dev, c.dev)
  BY ClearQueuedIs
<1> HIDE DEF e
<1>6. /\ Entered(c.dev, new, g.dev) /\ g = WithDev(c, g.dev)
      /\ \A b : WithDev(g, b) = WithDev(c, b)
  BY <1>3, GivesUpIs
<1> HIDE DEF c, g
<1>7. Handle(g, new, w.dev.state) = k
  <2>1. CASE new = UNMANAGED
    <3>1. Handle(g, new, w.dev.state) = IF g.dev.act_request # None THEN CleanedUp(g) ELSE g
      BY <2>1 DEF Handle
    <3>2. CleanedUp(g) = WithDev(c, Cleanup(g.dev))
      BY <1>6 DEF CleanedUp
    <3>3. CASE g.dev.act_request = None
      BY <1>6, <2>1, <3>1, <3>3
    <3>4. CASE g.dev.act_request # None
      BY <2>1, <3>1, <3>2, <3>4
    <3> QED  BY <3>3, <3>4
  <2>2. CASE new = UNAVAILABLE
    <3>1. w.dev.state # UNMANAGED
      BY <1>2 DEF DeviceStates
    <3>2. Handle(g, new, w.dev.state) = CleanedUp(g)
      BY <2>2, <3>1 DEF Handle
    <3> QED  BY <1>6, <2>2, <3>2 DEF CleanedUp
  <2> QED  BY <2>1, <2>2
<1>8. v = Proceed(PolicyStateChanged(t, new), new)
  <2> HIDE DEF k
  <2> QED  BY <1>1, <1>4, <1>7, SetStateIs DEF e
<1>9. PolicyStateChanged(t, new) = t
  BY DEF PolicyStateChanged
<1>10. f = Cleanup(g.dev) \/ (f = g.dev /\ c.dev.act_request = None)
  BY <1>6 DEF Entered
<1> HIDE DEF f
<1>11. /\ LetGo(f, new)
       /\ f.queued_act_request = g.dev.queued_act_request /\ f.managed = g.dev.managed
  <2>1. Dev(c.dev)
    BY <1>5 DEF Core
  <2> QED  BY <1>1, <1>6, <1>10, <2>1, EnteredLetsGo
<1>12. f.queued_act_request = None /\ f.managed = w.dev.managed
  BY <1>5, <1>6, <1>11 DEF Entered, SameDevice
<1>13. c.dev.state = w.dev.state
  BY <1>5 DEF SameDevice
<1>14. Core(t) /\ Kept(c, t) /\ t.dev = f /\ \A X : Remembers(t, X)
  <2>1. t = EmitStateChanged(WithDev(c, f), new, c.dev.state)
    BY <1>13
  <2>2. c.dev.state >= DISCONNECTED
    BY <1>13
  <2> HIDE DEF t
  <2>3. Core(c)
    BY <1>5
  <2>4. c.dev.queued_act_request = None
    BY <1>5
  <2>5. LetGo(f, new)
    BY <1>11
  <2>6. f.queued_act_request = None
    BY <1>12
  <2> HIDE DEF h, k
  <2>7. Core(t)
    BY <2>1, <2>2, <2>3, <2>4, <2>5, <2>6, ToldGone
  <2>8. Kept(c, t)
    BY <2>1, <2>2, <2>3, <2>4, <2>5, <2>6, ToldGone
  <2>9. t.dev = f
    BY <2>1, <2>2, <2>3, <2>4, <2>5, <2>6, ToldGone
  <2>10. \A X : Remembers(t, X)
    BY <2>1, <2>2, <2>3, <2>4, <2>5, <2>6, ToldGone, ZenonT(60)
  <2> QED  BY <2>7, <2>8, <2>9, <2>10
<1>15. t.dev.state = new /\ t.dev.managed = w.dev.managed
  BY <1>11, <1>12, <1>14 DEF LetGo
<1> HIDE DEF t
<1>16. Kept(w, t)
  BY <1>5, <1>14, KeptTransitive
<1>17. CASE new = UNMANAGED
  <2>1. v = t
    BY <1>8, <1>9, <1>17, ProceedIs
  <2> QED  BY <1>14, <1>15, <1>16, <2>1
<1>18. CASE new = UNAVAILABLE
  <2>1. v = Proceed(t, UNAVAILABLE)
    BY <1>8, <1>9, <1>18
  <2>2. /\ Core(v) /\ Kept(t, v) /\ v.dev.state = t.dev.state /\ v.dev.managed = t.dev.managed
        /\ \A X : Remembers(t, X) => Remembers(v, X)
    BY <1>14, <2>1, Rechecked
  <2>3. Kept(w, v)
    BY <1>16, <2>2, KeptTransitive
  <2> QED  BY <1>14, <1>15, <2>2, <2>3
<1> QED  BY <1>17, <1>18

\* Below DISCONNECTED nobody follows the device.
LEMMA ToldNobody ==
    ASSUME NEW h, h \in Worlds, NEW new, NEW old \in {UNMANAGED, UNAVAILABLE},
           NEW t, t = EmitStateChanged(h, new, old)
    PROVE  t = h
<1>1. \A x \in ACs : ~Follows(h.acs[x], h.dev.act_request = x, new, old)
  BY DEF Follows
<1>2. /\ h = [dev |-> h.dev, link |-> h.link, acs |-> h.acs]
      /\ h.acs \in [ACs -> Conns]
  BY DEF Worlds
<1>3. t = [dev |-> h.dev, link |-> h.link, acs |-> [x \in ACs |-> h.acs[x]]]
  BY <1>1 DEF EmitStateChanged
<1>4. h.acs = [x \in ACs |-> h.acs[x]]
  BY <1>2
<1> QED  BY <1>2, <1>3, <1>4

\* A device without a request, whose state is changed
LEMMA Rested ==
    ASSUME NEW w, Core(w), w.dev.act_request = None, NEW new \in {UNMANAGED, UNAVAILABLE},
           NEW f, LetGo(f, new), f.queued_act_request = w.dev.queued_act_request,
           f.waiting_for_carrier = w.dev.waiting_for_carrier,
           f.carrier = w.dev.carrier, f.carrier_wait = w.dev.carrier_wait,
           NEW v, v = WithDev(w, f)
    PROVE  /\ Core(v) /\ Kept(w, v) /\ v.dev = f
           /\ \A X : Remembers(w, X) => Remembers(v, X)
<1>1. v.dev = f /\ v.acs = w.acs /\ v.link = w.link
  BY DEF WithDev
<1>2. Dev(f) /\ f \in Devs /\ f.act_request = None /\ f.state = new
  BY LetGoIs DEF LetGo
<1>3. v \in Worlds
  BY <1>2, CoreIs DEF Worlds, WithDev
<1>4. FollowsDevice(v.dev, v.acs)
  BY <1>1, <1>2, RequestAssumption DEF Core, FollowsDevice
<1>5. Kept(w, v)
  BY <1>1, <1>2, EvolvesReflexive DEF Kept
<1>6. \A X : Known(w.dev, w.acs, X) => Known(v.dev, v.acs, X)
  BY <1>1, <1>2 DEF Known
<1>7. Waits(w.dev) => Waits(v.dev)
  BY <1>1, <1>2 DEF Waits
<1>8. Dev(v.dev)
  BY <1>1, <1>2
<1> QED  BY <1>1, <1>3, <1>4, <1>5, <1>6, <1>7, <1>8 DEF Core, Remembers

\* _set_state_full between UNMANAGED and UNAVAILABLE: there is nobody to tell.
LEMMA SetStateStart ==
    ASSUME NEW w, Core(w), w.dev.state < DISCONNECTED,
           NEW new \in {UNMANAGED, UNAVAILABLE}, NEW v, v = SetState(w, new)
    PROVE  /\ Core(v) /\ Kept(w, v)
           /\ v.dev.state = new /\ v.dev.managed = w.dev.managed
           /\ \A X : Remembers(w, X) => Remembers(v, X)
<1>1. CASE w.dev.state = new
  <2>1. v = w
    BY <1>1 DEF SetState
  <2> QED  BY <1>1, <2>1, KeptReflexive
<1>2. CASE w.dev.state # new
  <2> DEFINE e == Enter(w.dev, new)
             h == WithDev(w, e)
  <2>1. new \in DeviceStates /\ w.dev.state \in {UNMANAGED, UNAVAILABLE}
    BY CoreIs DEF DeviceStates
  <2>2. Dev(w.dev) /\ w.dev \in Devs /\ w.dev.act_request = None
    BY CoreIs DEF Dev, Holds
  <2>3. Entered(w.dev, new, e)
    BY <2>1, <2>2, EnterIs
  <2>4. GivesUpQueued(h, new, w.dev.state) = h
    BY <2>1 DEF GivesUpQueued
  <2>5. h = WithDev(w, Enter(w.dev, new))
    OBVIOUS
  <2> HIDE DEF e
  <2>6. LetGo(e, new)
    BY <2>1, <2>2, <2>3, EnteredLetsGo
  <2>7. /\ Core(h) /\ Kept(w, h) /\ h.dev = e
        /\ \A X : Remembers(w, X) => Remembers(h, X)
    BY <2>2, <2>3, <2>6, Rested DEF Entered
  <2>8. h.dev.state = new /\ h.dev.managed = w.dev.managed /\ h.dev.act_request = None
    BY <2>3, <2>6, <2>7 DEF Entered, LetGo
  <2> HIDE DEF h
  <2>9. CASE new = UNMANAGED
    <3>1. Handle(h, new, w.dev.state) = h
      BY <2>8, <2>9 DEF Handle
    <3>2. EmitStateChanged(h, new, w.dev.state) = h
      BY <2>1, <2>7, ToldNobody DEF Core
    <3>3. v = Proceed(PolicyStateChanged(h, new), new)
      BY <1>2, <2>4, <2>5, <3>1, <3>2, SetStateIs
    <3>4. PolicyStateChanged(h, new) = h
      BY <2>9 DEF PolicyStateChanged
    <3>5. v = h
      BY <2>9, <3>3, <3>4, ProceedIs
    <3> QED  BY <2>7, <2>8, <3>5
  <2>10. CASE new = UNAVAILABLE
    <3> DEFINE b == BringUp(h)
               f == Cleanup(b.dev)
               k == WithDev(b, f)
    <3>1. w.dev.state = UNMANAGED
      BY <1>2, <2>1, <2>10
    <3>2. Handle(h, new, w.dev.state) = k
      BY <2>10, <3>1 DEF Handle, CleanedUp
    <3>3. /\ Core(b) /\ Kept(h, b) /\ Undisturbed(h.dev, b.dev)
          /\ \A X : Remembers(h, X) => Remembers(b, X)
      BY <2>7, BringUpIs
    <3> HIDE DEF b
    <3>4. b.dev.state = UNAVAILABLE /\ b.dev.managed = w.dev.managed /\ b.dev \in Devs /\ Dev(b.dev)
      BY <2>8, <2>10, <3>3, CoreIs DEF Undisturbed
    <3>5. b.dev.act_request = None
      BY <3>4 DEF Dev, Holds
    <3>6. b.dev.call = "none" /\ b.dev.deactivating = FALSE
      <4>1. b.dev.call \in {"none", "pre-up", "pre-down"} /\ b.dev.deactivating \in BOOLEAN
        BY <3>4, StatesAre
      <4>2. b.dev.call # "pre-up" /\ b.dev.call # "pre-down" /\ ~b.dev.deactivating
        BY <3>4 DEF Dev, Serves
      <4> QED  BY <4>1, <4>2
    <3>7. /\ f \in Devs /\ Quiet(f)
          /\ f.state = b.dev.state /\ f.managed = b.dev.managed
          /\ f.act_request = None /\ f.queued_act_request = b.dev.queued_act_request
          /\ f.waiting_for_carrier = b.dev.waiting_for_carrier
          /\ f.call = b.dev.call /\ f.deactivating = b.dev.deactivating
          /\ f.carrier = b.dev.carrier /\ f.carrier_wait = b.dev.carrier_wait
          /\ f.queued_state = 0
      <4>1. f = Cleanup(b.dev)
        OBVIOUS
      <4> HIDE DEF f
      <4> QED  BY <3>4, <4>1, CleanupIs
    <3> HIDE DEF f
    <3>8. LetGo(f, new)
      BY <2>10, <3>4, <3>6, <3>7 DEF LetGo
    <3>9. /\ Core(k) /\ Kept(b, k) /\ k.dev = f
          /\ \A X : Remembers(b, X) => Remembers(k, X)
      BY <3>3, <3>5, <3>7, <3>8, Rested
    <3> HIDE DEF k
    <3>10. EmitStateChanged(k, new, w.dev.state) = k
      BY <2>1, <3>9, ToldNobody DEF Core
    <3>11. v = Proceed(PolicyStateChanged(k, new), new)
      BY <1>2, <2>4, <2>5, <3>2, <3>10, SetStateIs
    <3>12. v = Proceed(k, UNAVAILABLE)
      BY <2>10, <3>11 DEF PolicyStateChanged
    <3>13. /\ Core(v) /\ Kept(k, v) /\ v.dev.state = k.dev.state /\ v.dev.managed = k.dev.managed
           /\ \A X : Remembers(k, X) => Remembers(v, X)
      BY <3>9, <3>12, Rechecked
    <3>14. Kept(w, v)
      BY <2>7, <3>3, <3>9, <3>13, KeptTransitive
    <3>15. \A X : Remembers(w, X) => Remembers(v, X)
      BY <2>7, <3>3, <3>9, <3>13
    <3> QED  BY <2>10, <3>4, <3>7, <3>9, <3>13, <3>14, <3>15
  <2> QED  BY <2>9, <2>10
<1> QED  BY <1>1, <1>2

\* _set_state_full to UNMANAGED or UNAVAILABLE from any state.
LEMMA SetStateLow ==
    ASSUME NEW w, Core(w), NEW new \in {UNMANAGED, UNAVAILABLE}, NEW v, v = SetState(w, new)
    PROVE  /\ Core(v) /\ Kept(w, v)
           /\ v.dev.state = new /\ v.dev.managed = w.dev.managed
           /\ \A X : Remembers(w, X) => Remembers(v, X)
<1>1. w.dev.state < DISCONNECTED \/ w.dev.state >= DISCONNECTED
  BY CoreIs DEF DeviceStates
<1>2. CASE w.dev.state < DISCONNECTED
  BY <1>2, SetStateStart
<1>3. CASE w.dev.state >= DISCONNECTED
  BY <1>3, SetStateGone
<1> QED  BY <1>1, <1>2, <1>3

-----------------------------------------------------------------------------
(* Requests *)

\* The active connections whose keep-alive object is dead are being ended.
Ended(cs, X) ==
    \A x \in ACs \ X : cs[x].listed /\ ~cs[x].ka.alive => cs[x].state >= AC_DEACTIVATING

\* The requests outside X are answered when they are through and not before.
Answered(cs, X) ==
    \A x \in ACs \ X : cs[x].replies = IF cs[x].phase \in {"done", "gone"} THEN 1 ELSE 0

\* What holds between any two calls, where X are the requests being accepted
Sound(w, X) == Core(w) /\ Remembers(w, X) /\ Ended(w.acs, X) /\ Answered(w.acs, X)

\* What every function keeps, it keeps of the active connections.
LEMMA EndedKept ==
    ASSUME NEW cs \in [ACs -> Conns], NEW bs \in [ACs -> Conns],
           \A x \in ACs : Evolves(cs[x], bs[x]), NEW X, Ended(cs, X), Answered(cs, X)
    PROVE  Ended(bs, X) /\ Answered(bs, X)
<1> SUFFICES ASSUME NEW x \in ACs \ X
             PROVE  /\ bs[x].listed /\ ~bs[x].ka.alive => bs[x].state >= AC_DEACTIVATING
                    /\ bs[x].replies = IF bs[x].phase \in {"done", "gone"} THEN 1 ELSE 0
  BY DEF Ended, Answered
<1>1. cs[x] \in Conns /\ bs[x] \in Conns /\ Evolves(cs[x], bs[x])
  OBVIOUS
<1>2. bs[x].listed = cs[x].listed /\ bs[x].ka.alive = cs[x].ka.alive
      /\ (cs[x].state >= AC_DEACTIVATING => bs[x].state >= AC_DEACTIVATING)
  BY <1>1 DEF Evolves
<1>3. bs[x].listed /\ ~bs[x].ka.alive => bs[x].state >= AC_DEACTIVATING
  BY <1>2 DEF Ended
<1>4. cs[x].replies = IF cs[x].phase \in {"done", "gone"} THEN 1 ELSE 0
  BY DEF Answered
<1>5. CASE bs[x].phase = cs[x].phase /\ bs[x].replies = cs[x].replies
  BY <1>3, <1>4, <1>5
<1>6. CASE cs[x].phase = "auth" /\ bs[x].phase = "done" /\ bs[x].replies = cs[x].replies + 1
  <2>1. cs[x].replies = 0
    BY <1>4, <1>6
  <2> QED  BY <1>3, <1>6, <2>1
<1> QED  BY <1>1, <1>5, <1>6 DEF Evolves

\* What keeps the active connections keeps their ends and their answers.
LEMMA SoundKept ==
    ASSUME NEW w, NEW X, Sound(w, X), NEW v, Core(v), Kept(w, v),
           Remembers(w, X) => Remembers(v, X)
    PROVE  Sound(v, X)
<1>1. w.acs \in [ACs -> Conns] /\ v.acs \in [ACs -> Conns]
  BY CoreIs DEF Sound
<1>2. Ended(w.acs, X) /\ Answered(w.acs, X) /\ \A x \in ACs : Evolves(w.acs[x], v.acs[x])
  BY DEF Sound, Kept
<1>3. Ended(v.acs, X) /\ Answered(v.acs, X)
  BY <1>1, <1>2, EndedKept
<1> QED  BY <1>3 DEF Sound

\* A request that has ended or that the device has need not be excepted.
LEMMA Accounted ==
    ASSUME NEW w, NEW x, Remembers(w, {x}),
           x \in {w.dev.act_request, w.dev.queued_act_request} \/ ~Lives(w.acs[x])
    PROVE  Remembers(w, {})
BY DEF Remembers, Known

\* What the active connection x may become, other than by its own functions
MayBecome(w, x, e) ==
    /\ e.state = w.acs[x].state \/ (x # w.dev.act_request /\ e.state = AC_DEACTIVATED)
    /\ x \in {w.dev.act_request, w.dev.queued_act_request} \/ e.listed => e.phase = "done"
    /\ w.acs[x].phase = "done" => e.phase = "done"

\* One active connection changes and the world stays sound.
LEMMA AcChanged ==
    ASSUME NEW w, Core(w), NEW x \in ACs, NEW e \in Conns, NEW v, v = WithAc(w, x, e),
           MayBecome(w, x, e)
    PROVE  /\ Core(v) /\ v.dev = w.dev /\ v.link = w.link /\ v.acs[x] = e
           /\ \A y \in ACs : y # x => v.acs[y] = w.acs[y]
           /\ \A y : Overtakable(w.acs, y) => Overtakable(v.acs, y)
<1>1. /\ w \in Worlds /\ w.acs \in [ACs -> Conns] /\ w.dev \in Devs /\ w.link \in Links
      /\ FollowsDevice(w.dev, w.acs) /\ Dev(w.dev)
  BY CoreIs DEF Core
<1>2. v.dev = w.dev /\ v.link = w.link /\ v.acs = [w.acs EXCEPT ![x] = e]
  BY DEF WithAc
<1>3. v.acs[x] = e /\ \A y \in ACs : y # x => v.acs[y] = w.acs[y]
  BY <1>1, <1>2
<1>4. v.acs \in [ACs -> Conns]
  BY <1>1, <1>2
<1>5. v \in Worlds
  BY <1>1, <1>2, <1>4 DEF Worlds, WithAc
<1>6. FollowsDevice(v.dev, v.acs)
  <2>1. \A y \in ACs : y \in {w.dev.act_request, w.dev.queued_act_request} => v.acs[y].phase = "done"
    BY <1>1, <1>3 DEF FollowsDevice, MayBecome
  <2>2. \A y \in ACs : y # w.dev.act_request => v.acs[y].state \in {AC_UNKNOWN, AC_DEACTIVATED}
    BY <1>1, <1>3 DEF FollowsDevice, MayBecome
  <2>3. \A y \in ACs : y = w.dev.act_request => Matches(w.dev.state, v.acs[y].state)
    BY <1>1, <1>3 DEF FollowsDevice, MayBecome
  <2>4. \A y \in ACs : v.acs[y].listed => v.acs[y].phase = "done"
    BY <1>1, <1>3 DEF FollowsDevice, MayBecome
  <2> QED  BY <1>2, <2>1, <2>2, <2>3, <2>4 DEF FollowsDevice
<1>7. Dev(v.dev)
  BY <1>1, <1>2
<1>8. \A y : Overtakable(w.acs, y) => Overtakable(v.acs, y)
  <2>1. \A y \in ACs : w.acs[y].phase = "done" => v.acs[y].phase = "done"
    BY <1>3 DEF MayBecome
  <2> QED  BY <2>1, OvertakableKept
<1> QED  BY <1>2, <1>3, <1>5, <1>6, <1>7, <1>8 DEF Core

\* One active connection changes; it alone is excepted afterwards.
LEMMA AcChangedSound ==
    ASSUME NEW w, NEW X, Sound(w, X), NEW x \in ACs, NEW e \in Conns, NEW v, v = WithAc(w, x, e),
           MayBecome(w, x, e)
    PROVE  Sound(v, X \cup {x})
<1>1. /\ Core(v) /\ v.dev = w.dev /\ v.acs[x] = e
      /\ \A y \in ACs : y # x => v.acs[y] = w.acs[y]
      /\ \A y : Overtakable(w.acs, y) => Overtakable(v.acs, y)
  BY AcChanged DEF Sound
<1>2. Remembers(v, X \cup {x})
  BY <1>1 DEF Sound, Remembers, Known
<1>3. Ended(v.acs, X \cup {x})
  BY <1>1 DEF Sound, Ended
<1>4. Answered(v.acs, X \cup {x})
  BY <1>1 DEF Sound, Answered
<1> QED  BY <1>1, <1>2, <1>3, <1>4 DEF Sound

\* A request is no longer excepted.
LEMMA SoundAgain ==
    ASSUME NEW w, NEW x \in ACs, Sound(w, {x}),
           x \in {w.dev.act_request, w.dev.queued_act_request} \/ ~Lives(w.acs[x]),
           w.acs[x].listed /\ ~w.acs[x].ka.alive => w.acs[x].state >= AC_DEACTIVATING,
           w.acs[x].replies = IF w.acs[x].phase \in {"done", "gone"} THEN 1 ELSE 0
    PROVE  Sound(w, {})
<1>1. Remembers(w, {})
  BY Accounted DEF Sound
<1>2. Ended(w.acs, {})
  BY DEF Sound, Ended
<1>3. Answered(w.acs, {})
  BY DEF Sound, Answered
<1> QED  BY <1>1, <1>2, <1>3 DEF Sound

\* Whatever the request is, it is ended or ending afterwards.
LEMMA DisconnectIs ==
    ASSUME NEW w, Core(w), NEW y \in ACs, NEW v, v = Disconnect(w, y)
    PROVE  /\ Core(v) /\ Kept(w, v) /\ v.acs[y].state >= AC_DEACTIVATING
           /\ \A X : Remembers(w, X) => Remembers(v, X)
<1>1. /\ Dev(w.dev) /\ w.dev \in Devs /\ w.dev.state \in DeviceStates /\ w.dev.state \in Nat
      /\ y # None /\ w.acs[y] \in Conns /\ FollowsDevice(w.dev, w.acs)
  BY CoreIs, StatesAre, RequestAssumption DEF Core
<1>2. CASE w.acs[y].state = AC_DEACTIVATED
  <2>1. v = w
    BY <1>2 DEF Disconnect
  <2> QED  BY <1>2, <2>1, KeptReflexive
<1>3. CASE w.acs[y].state # AC_DEACTIVATED /\ w.dev.queued_act_request = y
  <2>1. v = ClearQueuedActRequest(w)
    BY <1>3 DEF Disconnect
  <2>2. /\ Core(v) /\ Kept(w, v) /\ v.dev.queued_act_request = None
        /\ v.acs[y].state = AC_DEACTIVATED
    BY <1>1, <1>3, <2>1, ClearQueuedIs
  <2>3. Waits(v.dev)
    BY <2>2 DEF Waits
  <2>4. ASSUME NEW X, Remembers(w, X)
        PROVE  Remembers(v, X)
    BY <2>1, <2>3, <2>4, ClearQueuedKnown DEF Remembers
  <2> QED  BY <2>2, <2>4
<1>4. CASE /\ w.acs[y].state # AC_DEACTIVATED /\ w.dev.queued_act_request # y
           /\ w.dev.act_request = y /\ w.dev.state < DEACTIVATING
  <2>1. v = SetState(w, DEACTIVATING)
    BY <1>4 DEF Disconnect
  <2>2. w.dev.state >= DISCONNECTED
    BY <1>1, <1>4 DEF Dev, Holds
  <2>3. /\ Core(v) /\ Kept(w, v) /\ v.dev.state = DEACTIVATING /\ v.dev.act_request = y
        /\ \A X : Remembers(w, X) => Remembers(v, X)
    <3>1. w.dev.act_request # None
      BY <1>1, <1>4
    <3>2. v = SetState(w, DEACTIVATING) /\ DEACTIVATING \in {DEACTIVATING, FAILED}
      BY <2>1
    <3> QED  BY <1>4, <2>2, <3>1, <3>2, SetStateEnding
  <2>4. v.acs[y].state >= AC_DEACTIVATING
    BY <2>3 DEF Core, FollowsDevice, Matches
  <2> QED  BY <2>3, <2>4
<1>5. CASE /\ w.acs[y].state # AC_DEACTIVATED /\ w.dev.queued_act_request # y
           /\ w.dev.act_request = y /\ w.dev.state >= DEACTIVATING
  <2>1. ~(w.dev.state < DEACTIVATING)
    BY <1>1, <1>5
  <2>2. v = w
    BY <1>5, <2>1 DEF Disconnect
  <2>3. Matches(w.dev.state, w.acs[y].state)
    BY <1>1, <1>5 DEF FollowsDevice
  <2>4. w.acs[y].state >= AC_DEACTIVATING
    BY <1>1, <1>5, <2>3 DEF Matches
  <2> QED  BY <2>2, <2>4, KeptReflexive
<1>6. CASE /\ w.acs[y].state # AC_DEACTIVATED /\ w.dev.queued_act_request # y
           /\ w.dev.act_request # y
  <2>1. v = Fail(w, y)
    BY <1>6 DEF Disconnect
  <2>2. Core(v) /\ Kept(w, v) /\ v.dev = w.dev /\ v.acs[y].state = AC_DEACTIVATED
    BY <1>6, <2>1, FailIs
  <2>3. ASSUME NEW X, Remembers(w, X)
        PROVE  Remembers(v, X)
    <3>1. Remembers(w, X \cup {y})
      BY <2>3, KnownMore DEF Remembers
    <3> QED  BY <1>6, <2>1, <3>1, FailKnown
  <2> QED  BY <2>2, <2>3
<1>7. w.dev.state < DEACTIVATING \/ w.dev.state >= DEACTIVATING
  BY <1>1
<1> QED  BY <1>2, <1>3, <1>4, <1>5, <1>6, <1>7

\* A request that is being accepted and that the device has not got
InFlight(w, x) ==
    /\ w.acs[x].phase = "done" /\ w.acs[x].replies = 0
    /\ x \notin {w.dev.act_request, w.dev.queued_act_request}

\* A request that is being accepted stays one during other calls.
LEMMA InFlightKept ==
    ASSUME NEW w, NEW x \in ACs, InFlight(w, x), NEW v, Kept(w, v)
    PROVE  InFlight(v, x)
<1>1. Evolves(w.acs[x], v.acs[x]) /\ x # None
  BY RequestAssumption DEF Kept
<1>2. v.acs[x].phase = "done" /\ v.acs[x].replies = 0
  BY <1>1 DEF InFlight, Evolves
<1> QED  BY <1>1, <1>2 DEF InFlight, Kept

\* Ending a request that the device has not got leaves the device alone.
LEMMA DisconnectInFlight ==
    ASSUME NEW w, Core(w), NEW x \in ACs, InFlight(w, x), NEW v, v = Disconnect(w, x)
    PROVE  v.dev = w.dev
<1>1. v = w \/ v = Fail(w, x)
  BY DEF Disconnect, InFlight
<1>2. Fail(w, x).dev = w.dev
  BY DEF Fail, WithAc
<1> QED  BY <1>1, <1>2

\* NMPolicy ends the active connection whose keep-alive object has died.
LEMMA KeepAliveChangedIs ==
    ASSUME NEW w, NEW x \in ACs, Sound(w, {x}), NEW v, v = KeepAliveChanged(w, x)
    PROVE  /\ Sound(v, {x}) /\ Kept(w, v)
           /\ ~v.acs[x].ka.alive => v.acs[x].state >= AC_DEACTIVATING
           /\ InFlight(w, x) => v.dev = w.dev
           /\ \A X : Remembers(w, X) => Remembers(v, X)
<1>1. Core(w) /\ w.acs[x] \in Conns
  BY CoreIs DEF Sound
<1>2. CASE w.acs[x].ka.alive \/ w.acs[x].state > AC_ACTIVATED
  <2>1. v = w
    BY <1>2 DEF KeepAliveChanged
  <2>2. w.acs[x].state > AC_ACTIVATED => w.acs[x].state >= AC_DEACTIVATING
    BY <1>1, ConnIs
  <2> QED  BY <1>2, <2>1, <2>2, KeptReflexive
<1>3. CASE ~(w.acs[x].ka.alive \/ w.acs[x].state > AC_ACTIVATED)
  <2>1. v = Disconnect(w, x)
    BY <1>3 DEF KeepAliveChanged
  <2>2. /\ Core(v) /\ Kept(w, v) /\ v.acs[x].state >= AC_DEACTIVATING
        /\ \A X : Remembers(w, X) => Remembers(v, X)
    BY <1>1, <2>1, DisconnectIs
  <2>3. InFlight(w, x) => v.dev = w.dev
    BY <1>1, <2>1, DisconnectInFlight
  <2>4. Sound(v, {x})
    BY <2>2, SoundKept
  <2> QED  BY <2>2, <2>3, <2>4
<1> QED  BY <1>2, <1>3

\* f is the loop of DisconnectAll over each subset.
DisconnectRec(f, w, S) ==
    f = [s \in SUBSET S |-> IF s = {} THEN w ELSE Disconnect(f[s \ {Pick(s)}], Pick(s))]

\* The loop that ends the other activations of the same profile.
LEMMA DisconnectLoop ==
    ASSUME NEW w, NEW X, Sound(w, X), NEW S \in SUBSET ACs
    PROVE  Sound(DisconnectAll(w, S), X) /\ Kept(w, DisconnectAll(w, S))
<1> DEFINE W == {v \in Worlds : Sound(v, X) /\ Kept(w, v)}
           op == [a \in S \X W |-> Disconnect(a[2], a[1])]
<1>1. IsFiniteSet(S)
  BY RequestAssumption, FS_Subset
<1>2. w \in W
  BY KeptReflexive DEF Sound, Core
<1>3. ASSUME NEW y \in S, NEW v \in W
      PROVE  Disconnect(v, y) \in W
  <2>1. Sound(v, X) /\ Kept(w, v) /\ Core(v) /\ y \in ACs
    BY DEF Sound
  <2> DEFINE u == Disconnect(v, y)
  <2>2. u = Disconnect(v, y)
    OBVIOUS
  <2> HIDE DEF u
  <2>3. Core(u) /\ Kept(v, u) /\ \A Y : Remembers(v, Y) => Remembers(u, Y)
    BY <2>1, <2>2, DisconnectIs
  <2>4. Sound(u, X)
    BY <2>1, <2>3, SoundKept
  <2>5. Kept(w, u)
    BY <2>1, <2>3, KeptTransitive
  <2> QED  BY <2>2, <2>4, <2>5, <2>3 DEF Core
<1>4. op \in [S \X W -> W]
  BY <1>3
<1>5. PICK f : Folds(f, S, W, op, w)
  <2> HIDE DEF W, op
  <2> QED  BY <1>1, <1>2, <1>4, FoldExists
<1>6. \A s \in SUBSET S : s # {} => Pick(s) \in S /\ s \ {Pick(s)} \in SUBSET S
  BY DEF Pick
<1>7. DisconnectRec(f, w, S)
  <2>1. f \in [SUBSET S -> W] /\ f[{}] = w
    BY <1>5 DEF Folds
  <2>2. ASSUME NEW s \in SUBSET S, s # {}
        PROVE  f[s] = Disconnect(f[s \ {Pick(s)}], Pick(s))
    <3>1. f[s] = op[<<Pick(s), f[s \ {Pick(s)}]>>]
      <4> HIDE DEF op, W
      <4> QED  BY <1>5, <2>2 DEF Folds
    <3>2. <<Pick(s), f[s \ {Pick(s)}]>> \in S \X W
      <4> HIDE DEF W
      <4> QED  BY <1>6, <2>1, <2>2
    <3> QED  BY <3>1, <3>2
  <2> HIDE DEF W
  <2> QED  BY <2>1, <2>2 DEF DisconnectRec
<1> DEFINE h == CHOOSE g : DisconnectRec(g, w, S)
<1>8. DisconnectRec(h, w, S)
  BY <1>7
<1>9. DisconnectAll(w, S) = h[S]
  BY DEF DisconnectAll, FoldSet, MapThenFoldSet, Pick, DisconnectRec
<1> DEFINE Q == {s \in SUBSET S : h[s] \in W}
<1> HIDE DEF h
<1>10. h[{}] = w /\ \A s \in SUBSET S : s # {} => h[s] = Disconnect(h[s \ {Pick(s)}], Pick(s))
  BY <1>8 DEF DisconnectRec
<1>11. {} \in Q
  BY <1>2, <1>10
<1>12. ASSUME NEW s \in SUBSET S, s # {}, s \ {Pick(s)} \in Q
       PROVE  s \in Q
  <2>1. h[s \ {Pick(s)}] \in W /\ Pick(s) \in S
    BY <1>6, <1>12
  <2>2. h[s] \in W
    <3> HIDE DEF W
    <3> QED  BY <1>3, <1>10, <1>12, <2>1
  <2> QED  BY <2>2
<1>13. S \in Q
  <2> HIDE DEF Q
  <2> QED  BY <1>1, <1>11, <1>12, FoldInduction
<1> QED  BY <1>9, <1>13

\* The device becomes managed and DISCONNECTED unless it is active.
LEMMA UnmanagedToDisconnectedIs ==
    ASSUME NEW w, NEW X, Sound(w, X), NEW v, v = UnmanagedToDisconnected(w)
    PROVE  /\ Sound(v, X) /\ Kept(w, v) /\ v.dev.state >= DISCONNECTED
<1> DEFINE d == [w.dev EXCEPT !.managed = TRUE]
           m == WithDev(w, d)
           u == IF w.dev.state = UNMANAGED THEN SetState(m, UNAVAILABLE) ELSE m
<1>1. /\ Core(w) /\ Dev(w.dev) /\ w.dev \in Devs /\ w.dev \in Devices
      /\ w.dev.state \in DeviceStates
  BY CoreIs DEF Sound, Devs
<1>2. FlagsOnly(w.dev, d)
  BY <1>1 DEF FlagsOnly, Devices
<1>3. /\ d.waiting_for_carrier = w.dev.waiting_for_carrier /\ d.carrier = w.dev.carrier
      /\ d.carrier_wait = w.dev.carrier_wait
  BY <1>1 DEF Devices
<1>4. v = IF u.dev.state = UNAVAILABLE THEN SetState(u, DISCONNECTED) ELSE u
  BY DEF UnmanagedToDisconnected
<1> HIDE DEF d
<1>5. /\ Core(m) /\ Kept(w, m) /\ m.dev = d /\ m.acs = w.acs /\ d.state = w.dev.state
      /\ d.act_request = w.dev.act_request /\ d.queued_act_request = w.dev.queued_act_request
  <2>1. Dev(d)
    BY <1>1, <1>2, FlagsOnlyIs
  <2> QED  BY <1>1, <1>2, <2>1, WithDevIs DEF FlagsOnly
<1>6. Sound(m, X)
  <2>1. Remembers(w, X) => Remembers(m, X)
    BY <1>3, <1>5 DEF Remembers, Waits, Known
  <2> QED  BY <1>5, <2>1, SoundKept
<1> HIDE DEF m
<1>7. Sound(u, X) /\ Kept(w, u) /\ u.dev.state \in DeviceStates /\ u.dev.state # UNMANAGED
  <2>1. CASE w.dev.state = UNMANAGED
    <3>1. u = SetState(m, UNAVAILABLE) /\ UNAVAILABLE \in {UNMANAGED, UNAVAILABLE}
      BY <2>1
    <3> HIDE DEF u
    <3>2. /\ Core(u) /\ Kept(m, u) /\ u.dev.state = UNAVAILABLE
          /\ \A Y : Remembers(m, Y) => Remembers(u, Y)
      BY <1>5, <3>1, SetStateLow
    <3>3. Sound(u, X)
      BY <1>6, <3>2, SoundKept
    <3> QED  BY <1>5, <3>2, <3>3, KeptTransitive DEF DeviceStates
  <2>2. CASE w.dev.state # UNMANAGED
    BY <1>1, <1>5, <1>6, <2>2
  <2> QED  BY <2>1, <2>2
<1> HIDE DEF u
<1>8. CASE u.dev.state = UNAVAILABLE
  <2>1. v = SetState(u, DISCONNECTED) /\ Core(u) /\ u.dev.state >= UNAVAILABLE
        /\ u.dev.state # DISCONNECTED
    BY <1>4, <1>7, <1>8 DEF Sound
  <2>2. /\ Core(v) /\ Kept(u, v) /\ v.dev.state = DISCONNECTED
        /\ \A Y : Remembers(u, Y) => Remembers(v, Y)
    BY <2>1, SetStateDisconnected
  <2>3. Sound(v, X)
    BY <1>7, <2>2, SoundKept
  <2> QED  BY <1>7, <2>2, <2>3, KeptTransitive
<1>9. CASE u.dev.state # UNAVAILABLE
  BY <1>4, <1>7, <1>9 DEF DeviceStates
<1> QED  BY <1>8, <1>9

\* The queued request fails and the new one takes its place.
LEMMA SupersedeIs ==
    ASSUME NEW w, NEW x \in ACs, Sound(w, {x}), InFlight(w, x), w.dev.state >= DISCONNECTED,
           NEW v, v = Supersede(w, x)
    PROVE  /\ Core(v) /\ Evolved(w, v)
           /\ Known(w.dev, w.acs, {x}) => Known(v.dev, v.acs, {})
           /\ v.dev.state = w.dev.state /\ v.dev.act_request = w.dev.act_request
           /\ v.dev.queued_act_request = x
           /\ v.dev.waiting_for_carrier = MustQueue(w.dev, x)
           /\ v.dev.carrier = w.dev.carrier /\ v.dev.carrier_wait = w.dev.carrier_wait
<1> DEFINE c == ClearQueuedActRequest(w)
           d == [c.dev EXCEPT !.queued_act_request = x,
                              !.waiting_for_carrier = MustQueue(w.dev, x)]
<1>1. v = WithDev(c, d)
  BY DEF Supersede
<1>2. Core(w) /\ x # None
  BY RequestAssumption DEF Sound
<1>3. /\ Core(c) /\ Kept(w, c) /\ c.dev.queued_act_request = None
      /\ c.dev.act_request = w.dev.act_request /\ SameDevice(w.dev, c.dev)
      /\ Known(w.dev, w.acs, {x}) => Known(c.dev, c.acs, {x})
  <2>1. c = ClearQueuedActRequest(w)
    OBVIOUS
  <2> HIDE DEF c
  <2>2. /\ Core(c) /\ Kept(w, c) /\ c.dev.queued_act_request = None
        /\ c.dev.act_request = w.dev.act_request /\ SameDevice(w.dev, c.dev)
    BY <1>2, <2>1, ClearQueuedIs
  <2>3. Known(w.dev, w.acs, {x}) => Known(c.dev, c.acs, {x})
    BY <1>2, <2>1, ClearQueuedKnown
  <2> QED  BY <2>2, <2>3
<1> HIDE DEF c
<1>4. /\ c \in Worlds /\ c.dev \in Devs /\ Dev(c.dev) /\ c.dev \in Devices
      /\ c.acs \in [ACs -> Conns] /\ c.link \in Links /\ FollowsDevice(c.dev, c.acs)
  BY <1>3, CoreIs DEF Core, Devs
<1>5. MustQueue(w.dev, x) \in BOOLEAN
  BY DEF MustQueue
<1>6. InFlight(c, x)
  BY <1>3, InFlightKept
<1>7. /\ d \in Devices /\ d.idle = c.dev.idle /\ d.queued_state = c.dev.queued_state
      /\ d.state = c.dev.state /\ d.act_request = c.dev.act_request
      /\ d.queued_act_request = x /\ d.waiting_for_carrier = MustQueue(w.dev, x)
      /\ d.fw = c.dev.fw /\ d.ping = c.dev.ping /\ d.call = c.dev.call
      /\ d.deactivating = c.dev.deactivating
      /\ d.carrier = c.dev.carrier /\ d.carrier_wait = c.dev.carrier_wait
  BY <1>4, <1>5 DEF Devices
<1> HIDE DEF d
<1>8. d \in Devs /\ \A y : Pending(d, y) <=> Pending(c.dev, y)
  BY <1>4, <1>7, Adjusted
<1>9. Dev(d)
  <2>1. Serves(d)
    BY <1>4, <1>7, <1>8 DEF Dev, Serves
  <2>2. Queues(d)
    BY <1>4, <1>7 DEF Dev, Queues
  <2>3. Holds(d)
    BY <1>4, <1>6, <1>7 DEF Dev, Holds, InFlight
  <2> QED  BY <1>8, <2>1, <2>2, <2>3 DEF Dev
<1>10. v.dev = d /\ v.acs = c.acs /\ v.link = c.link /\ v \in Worlds
  BY <1>1, <1>4, <1>8 DEF WithDev, Worlds
<1>11. FollowsDevice(v.dev, v.acs)
  <2>1. \A y \in ACs : y \in {d.act_request, d.queued_act_request} => c.acs[y].phase = "done"
    BY <1>4, <1>6, <1>7 DEF FollowsDevice, InFlight
  <2> QED  BY <1>4, <1>7, <1>10, <2>1 DEF FollowsDevice
<1>12. Core(v)
  BY <1>9, <1>10, <1>11 DEF Core
<1>13. Known(c.dev, c.acs, {x}) => Known(v.dev, v.acs, {})
  BY <1>3, <1>7, <1>10, RequestAssumption DEF Known
<1>14. Evolved(w, v)
  BY <1>3, <1>10 DEF Evolved, Kept
<1>15. /\ v.dev.state = w.dev.state /\ v.dev.act_request = w.dev.act_request
       /\ v.dev.queued_act_request = x
       /\ v.dev.waiting_for_carrier = MustQueue(w.dev, x)
       /\ v.dev.carrier = w.dev.carrier /\ v.dev.carrier_wait = w.dev.carrier_wait
  BY <1>3, <1>7, <1>10 DEF SameDevice
<1> QED  BY <1>3, <1>12, <1>13, <1>14, <1>15

\* A request that the device starts at once passes one that waits only if it
\* needs no carrier itself.
LEMMA StartedAtOnce ==
    ASSUME NEW w, NEW x \in ACs, Sound(w, {x}), InFlight(w, x), w.dev.state >= DISCONNECTED,
           w.dev.act_request = None, ~MustQueue(w.dev, x), NEW v, v = DeviceActivate(w, x)
    PROVE  Core(v) /\ Evolved(w, v) /\ Remembers(v, {})
<1>1. Core(w) /\ x # None /\ Remembers(w, {x}) /\ w.dev.state \in DeviceStates /\ Dev(w.dev)
  BY RequestAssumption, CoreIs DEF Sound
<1>2. w.dev.state = DISCONNECTED
  BY <1>1 DEF Dev, Holds, DeviceStates
<1>3. /\ Core(v) /\ Evolved(w, v)
      /\ v.dev.act_request \in {w.dev.act_request, x}
      /\ v.dev.queued_act_request = w.dev.queued_act_request
      /\ v.dev.waiting_for_carrier = w.dev.waiting_for_carrier
      /\ v.dev.carrier = w.dev.carrier /\ v.dev.carrier_wait = w.dev.carrier_wait
      /\ v.acs[x].state < AC_DEACTIVATED => v.dev.act_request = x
      /\ \A y \in ACs : y # x => v.acs[y] = w.acs[y]
  BY <1>1, <1>2, DeviceActivateIs DEF InFlight
<1>4. Waits(w.dev) /\ Known(w.dev, w.acs, {x})
  BY <1>1 DEF Remembers
<1>5. Known(v.dev, v.acs, {})
  <2> SUFFICES ASSUME NEW y \in ACs, Lives(v.acs[y])
               PROVE  y \in {v.dev.act_request, v.dev.queued_act_request} \/ Overtakable(v.acs, y)
    BY DEF Known
  <2>1. CASE y = x
    BY <1>3, <2>1 DEF Lives
  <2>2. CASE y # x
    <3>1. Lives(w.acs[y]) /\ y # None
      BY <1>3, <2>2, RequestAssumption
    <3>2. y = w.dev.queued_act_request \/ Overtakable(w.acs, y)
      BY <1>4, <2>2, <3>1 DEF Known
    <3>3. Overtakable(w.acs, y) => Overtakable(v.acs, y)
      BY <1>3, OvertakableEvolves DEF Evolved
    <3> QED  BY <1>3, <3>2, <3>3
  <2> QED  BY <2>1, <2>2
<1>6. Waits(v.dev)
  <2> SUFFICES ASSUME w.dev.queued_act_request # None, w.dev.waiting_for_carrier
               PROVE  v.dev.act_request \notin NeedsCarrier
    BY <1>3, <1>4 DEF Waits
  <2>1. ~w.dev.carrier /\ w.dev.carrier_wait
    BY <1>4 DEF Waits
  <2>2. x \notin NeedsCarrier
    BY <2>1 DEF MustQueue
  <2> QED  BY <1>3, <2>2, RequestAssumption
<1> QED  BY <1>3, <1>5, <1>6 DEF Remembers

\* nm_device_queue_activation: the request is current or queued, and the one
\* whose place it takes has failed.
LEMMA QueueActivationIs ==
    ASSUME NEW w, NEW x \in ACs, Sound(w, {x}), InFlight(w, x), w.dev.state >= DISCONNECTED,
           NEW v, v = QueueActivation(w, x)
    PROVE  Core(v) /\ Evolved(w, v) /\ Remembers(v, {})
<1>1. /\ Core(w) /\ x # None /\ Remembers(w, {x}) /\ w.dev.state \in DeviceStates
      /\ w.acs[x] \in Conns
  BY RequestAssumption, CoreIs DEF Sound
<1>2. CASE w.acs[x].state >= AC_DEACTIVATING
  <2>1. v = w
    BY <1>2 DEF QueueActivation
  <2>2. w.acs[x].state \in {AC_UNKNOWN, AC_DEACTIVATED}
    BY <1>1 DEF InFlight, Core, FollowsDevice
  <2>3. ~Lives(w.acs[x])
    BY <1>2, <2>2 DEF Lives
  <2>4. Remembers(w, {})
    BY <1>1, <2>3, Accounted
  <2> QED  BY <1>1, <2>1, <2>4, EvolvesReflexive DEF Evolved
<1>3. CASE /\ ~(w.acs[x].state >= AC_DEACTIVATING)
           /\ w.dev.act_request = None /\ ~MustQueue(w.dev, x)
  <2>1. v = DeviceActivate(w, x)
    BY <1>3 DEF QueueActivation
  <2> QED  BY <1>3, <2>1, StartedAtOnce
<1> DEFINE s == Supersede(w, x)
<1>4. s = Supersede(w, x)
  OBVIOUS
<1> HIDE DEF s
<1>5. /\ Core(s) /\ Evolved(w, s)
      /\ Known(w.dev, w.acs, {x}) => Known(s.dev, s.acs, {})
      /\ s.dev.state = w.dev.state /\ s.dev.act_request = w.dev.act_request
      /\ s.dev.queued_act_request = x
      /\ s.dev.waiting_for_carrier = MustQueue(w.dev, x)
      /\ s.dev.carrier = w.dev.carrier /\ s.dev.carrier_wait = w.dev.carrier_wait
  BY <1>4, SupersedeIs
<1>6. CASE /\ ~(w.acs[x].state >= AC_DEACTIVATING)
           /\ w.dev.act_request = None /\ MustQueue(w.dev, x)
  <2>1. v = s
    BY <1>4, <1>6 DEF QueueActivation
  <2>2. Waits(s.dev)
    BY <1>5, <1>6, RequestAssumption DEF Waits, MustQueue
  <2>3. Remembers(s, {})
    BY <1>1, <1>5, <2>2 DEF Remembers
  <2> QED  BY <1>5, <2>1, <2>3
<1>7. CASE ~(w.acs[x].state >= AC_DEACTIVATING) /\ w.dev.act_request # None
  <2>1. v = SetState(s, DEACTIVATING) /\ DEACTIVATING \in {DEACTIVATING, FAILED}
    BY <1>4, <1>7 DEF QueueActivation
  <2>2. s.dev.state >= DISCONNECTED /\ s.dev.act_request # None
    BY <1>5, <1>7
  <2>3. /\ Core(v) /\ Kept(s, v)
        /\ v.dev.state = DEACTIVATING /\ v.dev.act_request = s.dev.act_request
        /\ v.dev.queued_act_request = s.dev.queued_act_request
        /\ v.dev.waiting_for_carrier = s.dev.waiting_for_carrier
        /\ v.dev.carrier = s.dev.carrier /\ v.dev.carrier_wait = s.dev.carrier_wait
    BY <1>5, <2>1, <2>2, SetStateEnding
  <2>4. Known(s.dev, s.acs, {}) => Known(v.dev, v.acs, {})
    <3>1. s.acs \in [ACs -> Conns] /\ v.acs \in [ACs -> Conns]
          /\ \A y \in ACs : Evolves(s.acs[y], v.acs[y])
      BY <1>5, <2>3, CoreIs DEF Kept
    <3> QED  BY <2>3, <3>1, KnownKept
  <2>5. Waits(v.dev)
    <3>1. v.dev.waiting_for_carrier = MustQueue(w.dev, x)
      BY <1>5, <2>3
    <3>2. v.dev.waiting_for_carrier => ~w.dev.carrier /\ w.dev.carrier_wait /\ x \in NeedsCarrier
      BY <3>1 DEF MustQueue
    <3>3. v.dev.carrier = w.dev.carrier /\ v.dev.carrier_wait = w.dev.carrier_wait
      BY <1>5, <2>3
    <3> QED  BY <1>5, <2>3, <3>2, <3>3 DEF Waits
  <2>6. Remembers(v, {})
    BY <1>1, <1>5, <2>4, <2>5 DEF Remembers
  <2>7. Evolved(w, v)
    BY <1>5, <2>3, EvolvesTransitive DEF Evolved, Kept
  <2> QED  BY <2>3, <2>6, <2>7
<1> QED  BY <1>2, <1>3, <1>6, <1>7

\* The active connection is listed; NMPolicy looks at its keep-alive object.
LEMMA ActiveConnectionAddIs ==
    ASSUME NEW w, NEW x \in ACs, Sound(w, {x}), InFlight(w, x), NEW seen \in BOOLEAN,
           NEW v, v = ActiveConnectionAdd(w, x, seen)
    PROVE  /\ Sound(v, {x}) /\ InFlight(v, x) /\ v.dev = w.dev /\ v.link = w.link
           /\ ~v.acs[x].ka.alive => v.acs[x].state >= AC_DEACTIVATING
<1> DEFINE e == [w.acs[x] EXCEPT !.listed = TRUE, !.ka = Arm(@, seen)]
           l == WithAc(w, x, e)
<1>1. v = KeepAliveChanged(l, x)
  BY DEF ActiveConnectionAdd, Listed
<1>2. w.acs[x] \in Conns /\ w.acs[x] \in Connections /\ Arm(w.acs[x].ka, seen) \in KeepAlives
  BY CoreIs, ConnIs, ArmIs DEF Sound
<1>3. /\ e \in Conns /\ e.state = w.acs[x].state /\ e.phase = "done" /\ e.replies = 0
  BY <1>2 DEF Conns, Connections, InFlight
<1> HIDE DEF e
<1>20. MayBecome(w, x, e)
  BY <1>3 DEF MayBecome
<1>4. /\ Core(l) /\ l.dev = w.dev /\ l.link = w.link /\ l.acs[x] = e
  BY <1>3, <1>20, AcChanged DEF Sound
<1>5. Sound(l, {x})
  <2>1. Sound(l, {x} \cup {x})
    BY <1>3, <1>20, AcChangedSound
  <2>2. {x} \cup {x} = {x}
    OBVIOUS
  <2> QED  BY <2>1, <2>2
<1>6. InFlight(l, x)
  BY <1>3, <1>4 DEF InFlight
<1> HIDE DEF l
<1>7. /\ Sound(v, {x}) /\ Kept(l, v)
      /\ ~v.acs[x].ka.alive => v.acs[x].state >= AC_DEACTIVATING
      /\ InFlight(l, x) => v.dev = l.dev
  BY <1>1, <1>5, KeepAliveChangedIs
<1>8. InFlight(v, x)
  BY <1>6, <1>7, InFlightKept
<1>9. v.link = l.link
  BY <1>7 DEF Kept
<1> QED  BY <1>4, <1>6, <1>7, <1>8, <1>9

\* The answer makes the request one like the others.
LEMMA RepliedIs ==
    ASSUME NEW w, NEW x \in ACs, Sound(w, {x}), Remembers(w, {}),
           w.acs[x].phase = "done", w.acs[x].replies = 0,
           w.acs[x].listed /\ ~w.acs[x].ka.alive => w.acs[x].state >= AC_DEACTIVATING,
           NEW v, v = Replied(w, x)
    PROVE  Sound(v, {}) /\ v.link = w.link
<1> DEFINE e == [w.acs[x] EXCEPT !.replies = @ + 1]
<1>1. v = WithAc(w, x, e)
  BY DEF Replied
<1>2. w.acs[x] \in Conns /\ w.acs[x] \in Connections
  BY CoreIs, ConnIs DEF Sound
<1>3. /\ e \in Conns /\ e.state = w.acs[x].state /\ e.phase = "done" /\ e.replies = 1
      /\ e.listed = w.acs[x].listed /\ e.ka = w.acs[x].ka
  BY <1>2 DEF Conns, Connections
<1> HIDE DEF e
<1>20. MayBecome(w, x, e)
  BY <1>3 DEF MayBecome
<1>4. /\ Core(v) /\ v.dev = w.dev /\ v.link = w.link /\ v.acs[x] = e
      /\ \A y \in ACs : y # x => v.acs[y] = w.acs[y]
      /\ \A y : Overtakable(w.acs, y) => Overtakable(v.acs, y)
  BY <1>1, <1>3, <1>20, AcChanged DEF Sound
<1>5. Remembers(v, {})
  <2>1. \A y \in ACs : Lives(v.acs[y]) => Lives(w.acs[y])
    BY <1>3, <1>4 DEF Lives
  <2> QED  BY <1>4, <2>1 DEF Remembers, Known
<1>6. Ended(v.acs, {})
  BY <1>3, <1>4 DEF Sound, Ended
<1>7. Answered(v.acs, {})
  BY <1>3, <1>4 DEF Sound, Answered
<1> QED  BY <1>4, <1>5, <1>6, <1>7 DEF Sound

\* A request that was accepted fails and is answered.
LEMMA FailedNow ==
    ASSUME NEW w, NEW x \in ACs, Sound(w, {x}), InFlight(w, x), NEW v, v = Replied(Fail(w, x), x)
    PROVE  Sound(v, {}) /\ v.link = w.link
<1> DEFINE f == Fail(w, x)
<1>1. x # w.dev.act_request /\ Core(w)
  BY DEF InFlight, Sound
<1>2. Core(f) /\ Kept(w, f) /\ f.acs[x].state = AC_DEACTIVATED
  BY <1>1, FailIs
<1>3. Remembers(f, {})
  <2>1. Remembers(w, {} \cup {x})
    BY DEF Sound, Remembers, Known
  <2> QED  BY <1>1, <2>1, FailKnown
<1>4. v = Replied(f, x)
  OBVIOUS
<1> HIDE DEF f
<1>5. Remembers(f, {x})
  BY <1>3 DEF Remembers, Known
<1>6. Sound(f, {x})
  BY <1>2, <1>5, SoundKept
<1>7. InFlight(f, x)
  BY <1>2, InFlightKept
<1>8. Sound(v, {}) /\ v.link = f.link
  BY <1>2, <1>3, <1>4, <1>6, <1>7, RepliedIs DEF InFlight
<1> QED  BY <1>2, <1>8 DEF Kept

\* _internal_activate_device: the accepted request is listed and answered, and
\* the device has it, or it has ended.
LEMMA InternalActivateIs ==
    ASSUME NEW w, NEW x \in ACs, Sound(w, {x}), InFlight(w, x), ~w.acs[x].listed,
           NEW seen \in BOOLEAN, NEW o \in BOOLEAN, NEW v, v = InternalActivate(w, x, seen, o)
    PROVE  Sound(v, {}) /\ v.link = w.link
<1> DEFINE S == SameProfile(w, x)
           a == DisconnectAll(w, S)
           r == UnmanagedToDisconnected(a)
           l == ActiveConnectionAdd(r, x, seen)
           q == QueueActivation(l, x)
<1>1. \/ v = Replied(q, x)
      \/ v = Replied(Fail(w, x), x) \/ v = Replied(Fail(a, x), x)
  BY DEF InternalActivate
<1>2. Sound(a, {x}) /\ Kept(w, a)
  <2>1. S \in SUBSET ACs
    BY DEF SameProfile
  <2> HIDE DEF S
  <2> QED  BY <2>1, DisconnectLoop
<1> HIDE DEF S, a
<1>3. Sound(r, {x}) /\ Kept(a, r) /\ r.dev.state >= DISCONNECTED
  BY <1>2, UnmanagedToDisconnectedIs
<1> HIDE DEF r
<1>10. InFlight(a, x)
  BY <1>2, InFlightKept
<1>4. InFlight(r, x) /\ r.link = w.link
  <2>1. InFlight(r, x)
    BY <1>3, <1>10, InFlightKept
  <2> QED  BY <1>2, <1>3, <2>1 DEF Kept
<1>5. /\ Sound(l, {x}) /\ InFlight(l, x) /\ l.dev = r.dev /\ l.link = r.link
      /\ ~l.acs[x].ka.alive => l.acs[x].state >= AC_DEACTIVATING
  BY <1>3, <1>4, ActiveConnectionAddIs
<1> HIDE DEF l
<1>6. Core(q) /\ Evolved(l, q) /\ Remembers(q, {})
  BY <1>3, <1>5, QueueActivationIs
<1> HIDE DEF q
<1>7. CASE v = Replied(q, x)
  <2>1. Evolves(l.acs[x], q.acs[x]) /\ q.link = l.link
    BY <1>6 DEF Evolved
  <2>2. q.acs[x].phase = "done" /\ q.acs[x].replies = 0
    BY <1>5, <2>1 DEF Evolves, InFlight
  <2>3. ~q.acs[x].ka.alive => q.acs[x].state >= AC_DEACTIVATING
    BY <1>5, <2>1 DEF Evolves
  <2>4. Ended(q.acs, {x}) /\ Answered(q.acs, {x})
    <3>1. l.acs \in [ACs -> Conns] /\ q.acs \in [ACs -> Conns]
      BY <1>5, <1>6, CoreIs DEF Sound
    <3>2. /\ Ended(l.acs, {x}) /\ Answered(l.acs, {x})
          /\ \A y \in ACs : Evolves(l.acs[y], q.acs[y])
      BY <1>5, <1>6 DEF Sound, Evolved
    <3> QED  BY <3>1, <3>2, EndedKept
  <2>5. Remembers(q, {x})
    BY <1>6 DEF Remembers, Known
  <2>6. Sound(q, {x})
    BY <1>6, <2>4, <2>5 DEF Sound
  <2>7. Sound(v, {}) /\ v.link = q.link
    BY <1>6, <1>7, <2>2, <2>3, <2>6, RepliedIs
  <2> QED  BY <1>4, <1>5, <2>1, <2>7
<1>8. CASE v = Replied(Fail(w, x), x)
  BY <1>8, FailedNow
<1>9. CASE v = Replied(Fail(a, x), x)
  <2>1. Sound(v, {}) /\ v.link = a.link
    BY <1>2, <1>9, <1>10, FailedNow
  <2> QED  BY <1>2, <2>1 DEF Kept
<1> QED  BY <1>1, <1>7, <1>8, <1>9

\* A keep-alive object changes, and NMPolicy is told when it dies.
LEMMA KeepAliveBecomesIs ==
    ASSUME NEW w, NEW x \in ACs, Sound(w, {}), NEW k \in KeepAlives,
           NEW v, v = KeepAliveBecomes(w, x, k)
    PROVE  Sound(v, {}) /\ v.link = w.link
<1> DEFINE e == [w.acs[x] EXCEPT !.ka = k]
           u == WithAc(w, x, e)
           told == w.acs[x].listed /\ k.alive # w.acs[x].ka.alive
<1>1. v = IF told THEN KeepAliveChanged(u, x) ELSE u
  BY DEF KeepAliveBecomes
<1>2. /\ Core(w) /\ w.acs[x] \in Conns /\ w.acs[x] \in Connections
      /\ FollowsDevice(w.dev, w.acs)
  BY CoreIs, ConnIs DEF Sound, Core
<1>3. /\ e \in Conns /\ e.state = w.acs[x].state /\ e.phase = w.acs[x].phase
      /\ e.replies = w.acs[x].replies /\ e.listed = w.acs[x].listed /\ e.ka = k
  BY <1>2 DEF Conns, Connections
<1> HIDE DEF e
<1>4. MayBecome(w, x, e)
  BY <1>2, <1>3 DEF MayBecome, FollowsDevice
<1>5. /\ Core(u) /\ u.dev = w.dev /\ u.link = w.link /\ u.acs[x] = e
      /\ \A y \in ACs : y # x => u.acs[y] = w.acs[y]
      /\ \A y : Overtakable(w.acs, y) => Overtakable(u.acs, y)
  BY <1>2, <1>3, <1>4, AcChanged
<1>6. Sound(u, {x})
  <2>1. Sound(u, {} \cup {x})
    BY <1>3, <1>4, AcChangedSound
  <2>2. {} \cup {x} = {x}
    OBVIOUS
  <2> QED  BY <2>1, <2>2
<1>7. Remembers(u, {})
  <2>1. \A y \in ACs : Lives(u.acs[y]) => Lives(w.acs[y])
    BY <1>3, <1>5 DEF Lives
  <2> QED  BY <1>5, <2>1 DEF Sound, Remembers, Known
<1>8. Answered(u.acs, {})
  BY <1>3, <1>5 DEF Sound, Answered
<1>9. CASE ~told
  <2>1. v = u
    BY <1>1, <1>9
  <2>2. Ended(u.acs, {})
    <3>1. u.acs[x].listed /\ ~u.acs[x].ka.alive => u.acs[x].state >= AC_DEACTIVATING
      BY <1>3, <1>5, <1>9 DEF Sound, Ended
    <3> QED  BY <1>5, <3>1 DEF Sound, Ended
  <2> QED  BY <1>5, <1>7, <1>8, <2>1, <2>2 DEF Sound
<1>10. CASE told
  <2>1. v = KeepAliveChanged(u, x)
    BY <1>1, <1>10
  <2> HIDE DEF u
  <2>2. /\ Sound(v, {x}) /\ Kept(u, v)
        /\ ~v.acs[x].ka.alive => v.acs[x].state >= AC_DEACTIVATING
        /\ \A X : Remembers(u, X) => Remembers(v, X)
    BY <1>6, <2>1, KeepAliveChangedIs
  <2>3. Remembers(v, {})
    BY <1>7, <2>2
  <2>4. Ended(v.acs, {})
    BY <2>2 DEF Sound, Ended
  <2>5. Answered(v.acs, {})
    <3>1. /\ u.acs \in [ACs -> Conns] /\ v.acs \in [ACs -> Conns]
          /\ \A y \in ACs : Evolves(u.acs[y], v.acs[y])
      BY <1>5, <2>2, CoreIs DEF Sound, Kept
    <3>3. v.acs[x].replies = IF v.acs[x].phase \in {"done", "gone"} THEN 1 ELSE 0
      <4>1. u.acs[x].replies = IF u.acs[x].phase \in {"done", "gone"} THEN 1 ELSE 0
        BY <1>8 DEF Answered
      <4>2. Evolves(u.acs[x], v.acs[x])
        BY <3>1
      <4>3. CASE v.acs[x].phase = u.acs[x].phase /\ v.acs[x].replies = u.acs[x].replies
        BY <4>1, <4>3
      <4>4. CASE /\ u.acs[x].phase = "auth" /\ v.acs[x].phase = "done"
                 /\ v.acs[x].replies = u.acs[x].replies + 1
        <5>1. u.acs[x].replies = 0
          BY <4>1, <4>4
        <5> QED  BY <4>4, <5>1
      <4> QED  BY <4>2, <4>3, <4>4 DEF Evolves
    <3> QED  BY <2>2, <3>3 DEF Sound, Answered
  <2>6. v.link = u.link
    BY <2>2 DEF Kept
  <2> QED  BY <1>5, <2>2, <2>3, <2>4, <2>5, <2>6 DEF Sound
<1> QED  BY <1>9, <1>10

\* f is the loop of FlagsChangedForAll over each subset.
FlagsRec(f, w, S, seen) ==
    f = [s \in SUBSET S |->
            IF s = {} THEN w
            ELSE KeepAliveBecomes(f[s \ {Pick(s)}], Pick(s),
                                  FlagsChanged(f[s \ {Pick(s)}].acs[Pick(s)].ka, seen))]

\* Every keep-alive object is told of the visibility, one after the other.
LEMMA FlagsLoop ==
    ASSUME NEW w, Sound(w, {}), NEW S \in SUBSET ACs, NEW seen \in BOOLEAN
    PROVE  /\ Sound(FlagsChangedForAll(w, S, seen), {})
           /\ FlagsChangedForAll(w, S, seen).link = w.link
<1> DEFINE W == {v \in Worlds : Sound(v, {}) /\ v.link = w.link}
           Told(v, x) == KeepAliveBecomes(v, x, FlagsChanged(v.acs[x].ka, seen))
           op == [a \in S \X W |-> Told(a[2], a[1])]
<1>1. IsFiniteSet(S)
  BY RequestAssumption, FS_Subset
<1>2. w \in W
  BY DEF Sound, Core
<1>3. ASSUME NEW y \in S, NEW v \in W
      PROVE  Told(v, y) \in W
  <2>1. Sound(v, {}) /\ v.link = w.link /\ y \in ACs /\ v.acs[y] \in Conns
    BY CoreIs DEF Sound
  <2> DEFINE k == FlagsChanged(v.acs[y].ka, seen)
             u == KeepAliveBecomes(v, y, k)
  <2>2. k \in KeepAlives
    BY <2>1, ConnIs, FlagsChangedIs
  <2> HIDE DEF k
  <2>3. u = KeepAliveBecomes(v, y, k)
    OBVIOUS
  <2> HIDE DEF u
  <2>4. Sound(u, {}) /\ u.link = v.link
    BY <2>1, <2>2, <2>3, KeepAliveBecomesIs
  <2>5. u \in W
    BY <2>1, <2>4 DEF Sound, Core
  <2> QED  BY <2>5 DEF u, k
<1>4. op \in [S \X W -> W]
  <2> HIDE DEF Told, W
  <2> QED  BY <1>3
<1>5. PICK f : Folds(f, S, W, op, w)
  <2> HIDE DEF W, op
  <2> QED  BY <1>1, <1>2, <1>4, FoldExists
<1>6. \A s \in SUBSET S : s # {} => Pick(s) \in S /\ s \ {Pick(s)} \in SUBSET S
  BY DEF Pick
<1>7. FlagsRec(f, w, S, seen)
  <2>1. f \in [SUBSET S -> W] /\ f[{}] = w
    BY <1>5 DEF Folds
  <2>2. ASSUME NEW s \in SUBSET S, s # {}
        PROVE  f[s] = Told(f[s \ {Pick(s)}], Pick(s))
    <3>1. f[s] = op[<<Pick(s), f[s \ {Pick(s)}]>>]
      <4> HIDE DEF op, W
      <4> QED  BY <1>5, <2>2 DEF Folds
    <3>2. <<Pick(s), f[s \ {Pick(s)}]>> \in S \X W
      <4> HIDE DEF W
      <4> QED  BY <1>6, <2>1, <2>2
    <3> HIDE DEF Told, W
    <3> QED  BY <3>1, <3>2
  <2> HIDE DEF W
  <2> QED  BY <2>1, <2>2 DEF FlagsRec
<1> DEFINE h == CHOOSE g : FlagsRec(g, w, S, seen)
<1>8. FlagsRec(h, w, S, seen)
  BY <1>7
<1>9. FlagsChangedForAll(w, S, seen) = h[S]
  BY DEF FlagsChangedForAll, FoldSet, MapThenFoldSet, Pick, FlagsRec
<1> DEFINE Q == {s \in SUBSET S : h[s] \in W}
<1> HIDE DEF h
<1>10. h[{}] = w /\ \A s \in SUBSET S : s # {} => h[s] = Told(h[s \ {Pick(s)}], Pick(s))
  BY <1>8 DEF FlagsRec
<1> HIDE DEF Told
<1>11. {} \in Q
  BY <1>2, <1>10
<1>12. ASSUME NEW s \in SUBSET S, s # {}, s \ {Pick(s)} \in Q
       PROVE  s \in Q
  <2>1. h[s \ {Pick(s)}] \in W /\ Pick(s) \in S
    BY <1>6, <1>12
  <2>2. h[s] \in W
    <3> HIDE DEF W
    <3> QED  BY <1>3, <1>10, <1>12, <2>1
  <2> QED  BY <2>2
<1>13. S \in Q
  <2> HIDE DEF Q
  <2> QED  BY <1>1, <1>11, <1>12, FoldInduction
<1> QED  BY <1>9, <1>13

-----------------------------------------------------------------------------
(* Steps *)

Inv == Sound(World, {}) /\ visible \in BOOLEAN

\* A step to a sound world keeps the invariant.
LEMMA Stepped ==
    ASSUME NEW v, Sound(v, {}), Becomes(v), v.link = link', visible' \in BOOLEAN
    PROVE  Inv'
<1>1. v = [dev |-> v.dev, acs |-> v.acs, link |-> v.link]
  BY DEF Sound, Core, Worlds
<1>2. World' = v
  BY <1>1 DEF World, Becomes
<1> QED  BY <1>2 DEF Inv

\* The parts of the invariant, and the types that follow.
LEMMA InvIs ==
    ASSUME Inv
    PROVE  /\ Sound(World, {}) /\ Core(World) /\ visible \in BOOLEAN /\ link \in Links
           /\ Dev(dev) /\ dev \in Devs /\ dev \in Devices /\ dev.state \in DeviceStates
           /\ acs \in [ACs -> Conns] /\ (\A x \in ACs : acs[x] \in Conns)
           /\ FollowsDevice(dev, acs) /\ Answered(acs, {}) /\ Ended(acs, {}) /\ Remembers(World, {})
           /\ World.dev = dev /\ World.acs = acs /\ World.link = link
<1>1. World.dev = dev /\ World.acs = acs /\ World.link = link
  BY DEF World
<1>2. Sound(World, {}) /\ Core(World) /\ visible \in BOOLEAN
  BY DEF Inv, Sound
<1> HIDE DEF World
<1>3. /\ Dev(dev) /\ dev \in Devs /\ dev.state \in DeviceStates /\ link \in Links
      /\ acs \in [ACs -> Conns] /\ (\A x \in ACs : acs[x] \in Conns)
  BY <1>1, <1>2, CoreIs
<1>4. FollowsDevice(dev, acs) /\ Answered(acs, {}) /\ Ended(acs, {}) /\ Remembers(World, {})
  BY <1>1, <1>2 DEF Sound, Core
<1> QED  BY <1>1, <1>2, <1>3, <1>4 DEF Devs

\* What a step of the device leaves alone that changes neither its state nor
\* its requests
SameRequests(d, e) ==
    /\ e.state = d.state /\ e.act_request = d.act_request
    /\ e.queued_act_request = d.queued_act_request

SameWait(d, e) ==
    /\ e.waiting_for_carrier = d.waiting_for_carrier
    /\ e.carrier = d.carrier /\ e.carrier_wait = d.carrier_wait

\* A device in the same state with the same requests; who waits, waits rightly.
LEMMA DevChanged ==
    ASSUME NEW w, NEW X, Sound(w, X), NEW d, Dev(d), SameRequests(w.dev, d),
           Waits(w.dev) => Waits(d), NEW v, v = WithDev(w, d)
    PROVE  Sound(v, X) /\ Kept(w, v) /\ v.dev = d /\ v.acs = w.acs /\ v.link = w.link
<1>1. Core(w)
  BY DEF Sound
<1>2. Core(v) /\ Kept(w, v) /\ v.dev = d /\ v.acs = w.acs /\ v.link = w.link
  BY <1>1, WithDevIs DEF SameRequests
<1>3. Remembers(w, X) => Remembers(v, X)
  BY <1>2 DEF Remembers, Known, SameRequests
<1>4. Sound(v, X)
  BY <1>2, <1>3, SoundKept
<1> QED  BY <1>2, <1>4

\* The same for a device that waits as before.
LEMMA DevMoved ==
    ASSUME NEW w, NEW X, Sound(w, X), NEW d, Dev(d), SameRequests(w.dev, d), SameWait(w.dev, d),
           NEW v, v = WithDev(w, d)
    PROVE  Sound(v, X) /\ Kept(w, v) /\ v.dev = d /\ v.acs = w.acs /\ v.link = w.link
<1>1. Waits(w.dev) => Waits(d)
  BY DEF Waits, SameRequests, SameWait
<1> QED  BY <1>1, DevChanged

\* A step that changes nothing but such things
LEMMA DevStep ==
    ASSUME Inv, NEW d, Dev(d), SameRequests(dev, d), SameWait(dev, d),
           dev' = d, UNCHANGED <<acs, link, visible>>
    PROVE  Inv'
<1> DEFINE v == WithDev(World, d)
<1>1. Sound(World, {}) /\ World.dev = dev /\ World.acs = acs /\ World.link = link
      /\ visible \in BOOLEAN
  BY InvIs
<1>2. Sound(v, {}) /\ v.dev = d /\ v.acs = acs /\ v.link = link
  BY <1>1, DevMoved
<1> HIDE DEF v
<1> QED  BY <1>1, <1>2, Stepped DEF Becomes

\* impl_manager_activate_connection: a request begins.
LEMMA RequestStep ==
    ASSUME Inv, NEW x \in ACs, Request(x)
    PROVE  Inv'
<1> DEFINE k == IF Kind[x] = "profile" THEN WatchVisible(acs[x].ka, TRUE, visible)
                ELSE Arm(SetDbusClientWatch(acs[x].ka, x, 1, visible), visible)
           e == [acs[x] EXCEPT
                    !.phase = "auth",
                    !.ka = IF Kind[x] = "profile" THEN WatchVisible(@, TRUE, visible)
                           ELSE Arm(SetDbusClientWatch(@, x, 1, visible), visible)]
           v == WithAc(World, x, e)
<1>1. /\ Sound(World, {}) /\ Core(World) /\ World.dev = dev /\ World.acs = acs /\ World.link = link
      /\ visible \in BOOLEAN /\ acs[x] \in Conns /\ acs[x] \in Connections
      /\ FollowsDevice(dev, acs) /\ Answered(acs, {}) /\ acs \in [ACs -> Conns]
  BY InvIs, ConnIs
<1>2. acs[x].phase = "none" /\ UNCHANGED <<dev, link, visible>>
  BY DEF Request
<1>3. acs' = [acs EXCEPT ![x] = e]
  BY DEF Request
<1>4. k \in KeepAlives
  <2>1. acs[x].ka \in KeepAlives
    BY <1>1, ConnIs
  <2>2. WatchVisible(acs[x].ka, TRUE, visible) \in KeepAlives
    BY <1>1, <2>1, WatchVisibleIs
  <2>3. SetDbusClientWatch(acs[x].ka, x, 1, visible) \in KeepAlives
    BY <1>1, <2>1, SetDbusClientWatchIs
  <2>4. Arm(SetDbusClientWatch(acs[x].ka, x, 1, visible), visible) \in KeepAlives
    BY <1>1, <2>3, ArmIs
  <2> QED  BY <2>2, <2>4
<1>20. e = [acs[x] EXCEPT !.phase = "auth", !.ka = k]
  BY <1>1 DEF Connections
<1> HIDE DEF k, e
<1>5. x \notin {dev.act_request, dev.queued_act_request} /\ ~acs[x].listed
  BY <1>1, <1>2 DEF FollowsDevice
<1>6. acs[x].replies = 0
  BY <1>1, <1>2 DEF Answered
<1>7. /\ e \in Conns /\ e.state = acs[x].state /\ e.phase = "auth" /\ e.replies = 0
      /\ e.listed = acs[x].listed
  BY <1>1, <1>4, <1>6, <1>20 DEF Conns, Connections
<1>8. MayBecome(World, x, e)
  BY <1>1, <1>2, <1>5, <1>7 DEF MayBecome
<1>9. /\ v.dev = dev /\ v.link = link /\ v.acs[x] = e
  BY <1>1, <1>7, <1>8, AcChanged
<1>10. Sound(v, {x})
  <2>1. Sound(v, {} \cup {x})
    BY <1>1, <1>7, <1>8, AcChangedSound
  <2>2. {} \cup {x} = {x}
    OBVIOUS
  <2> QED  BY <2>1, <2>2
<1>11. Becomes(v)
  BY <1>1, <1>2, <1>3 DEF Becomes, WithAc
<1> HIDE DEF v
<1>12. Sound(v, {})
  <2>1. ~Lives(v.acs[x])
    BY <1>5, <1>7, <1>9 DEF Lives
  <2> QED  BY <1>5, <1>7, <1>9, <1>10, <2>1, SoundAgain
<1> QED  BY <1>1, <1>2, <1>9, <1>11, <1>12, Stepped

\* A request that is not through is neither listed nor known to the device.
LEMMA NotThrough ==
    ASSUME Inv, NEW x \in ACs, acs[x].phase \in {"none", "auth", "add"}
    PROVE  /\ x \notin {dev.act_request, dev.queued_act_request} /\ ~acs[x].listed
           /\ acs[x].replies = 0 /\ acs[x].state \in {AC_UNKNOWN, AC_DEACTIVATED}
           /\ acs[x] \in Conns /\ acs[x] \in Connections
<1>1. FollowsDevice(dev, acs) /\ Answered(acs, {}) /\ acs[x] \in Conns
  BY InvIs
<1>2. x \notin {dev.act_request, dev.queued_act_request} /\ ~acs[x].listed
  BY <1>1 DEF FollowsDevice
<1>3. acs[x].replies = 0
  BY <1>1 DEF Answered
<1>4. acs[x].state \in {AC_UNKNOWN, AC_DEACTIVATED}
  BY <1>1, <1>2 DEF FollowsDevice
<1> QED  BY <1>1, <1>2, <1>3, <1>4, ConnIs

\* What an active connection that is not through may become
Unseen(c, e) == e \in Conns /\ e.state \in {c.state, AC_DEACTIVATED} /\ ~e.listed

AnsweredIs(e) == e.replies = IF e.phase \in {"done", "gone"} THEN 1 ELSE 0

\* A request that is not through changes; it alone is excepted afterwards.
LEMMA Unlisted ==
    ASSUME NEW w, Sound(w, {}), NEW x \in ACs, w.acs[x].phase # "done",
           NEW e, Unseen(w.acs[x], e), NEW v, v = WithAc(w, x, e)
    PROVE  Sound(v, {x}) /\ v.dev = w.dev /\ v.link = w.link /\ v.acs[x] = e
<1>1. Core(w) /\ FollowsDevice(w.dev, w.acs)
  BY DEF Sound, Core
<1>2. x \notin {w.dev.act_request, w.dev.queued_act_request}
  BY <1>1 DEF FollowsDevice
<1>3. MayBecome(w, x, e)
  BY <1>1, <1>2 DEF MayBecome, Unseen
<1>4. v.dev = w.dev /\ v.link = w.link /\ v.acs[x] = e
  BY <1>1, <1>3, AcChanged DEF Unseen
<1>5. Sound(v, {x})
  <2>1. Sound(v, {} \cup {x})
    BY <1>3, AcChangedSound DEF Unseen
  <2>2. {} \cup {x} = {x}
    OBVIOUS
  <2> QED  BY <2>1, <2>2
<1> QED  BY <1>4, <1>5

\* A request that is not through changes and is answered as it should be.
LEMMA UnlistedAnswered ==
    ASSUME NEW w, Sound(w, {}), NEW x \in ACs, w.acs[x].phase # "done",
           NEW e, Unseen(w.acs[x], e), AnsweredIs(e), NEW v, v = WithAc(w, x, e)
    PROVE  Sound(v, {}) /\ v.dev = w.dev /\ v.link = w.link
<1>1. Sound(v, {x}) /\ v.dev = w.dev /\ v.link = w.link /\ v.acs[x] = e
  BY Unlisted
<1>2. ~Lives(v.acs[x])
  BY <1>1 DEF Lives, Unseen
<1>3. Sound(v, {})
  BY <1>1, <1>2, SoundAgain DEF AnsweredIs, Unseen
<1> QED  BY <1>1, <1>3

\* The request leaves polkit or the settings.
LEMMA Accepted ==
    ASSUME Inv, NEW x \in ACs, acs[x].phase \in {"auth", "add"}, NEW w, w = InPhase(x, "done")
    PROVE  Sound(w, {x}) /\ InFlight(w, x) /\ ~w.acs[x].listed /\ w.link = link
<1> DEFINE e == [acs[x] EXCEPT !.phase = "done"]
<1>1. /\ x \notin {dev.act_request, dev.queued_act_request} /\ ~acs[x].listed
      /\ acs[x].replies = 0 /\ acs[x] \in Conns /\ acs[x] \in Connections
  BY NotThrough
<1>2. /\ e \in Conns /\ e.state = acs[x].state /\ ~e.listed /\ e.phase = "done" /\ e.replies = 0
  BY <1>1 DEF Conns, Connections
<1>3. w = WithAc(World, x, e)
  BY DEF InPhase
<1> HIDE DEF e
<1>4. Sound(w, {x}) /\ w.dev = dev /\ w.link = link /\ w.acs[x] = e
  <2>1. /\ Sound(World, {}) /\ World.dev = dev /\ World.acs = acs /\ World.link = link
        /\ World.acs[x].phase # "done"
    BY InvIs
  <2>2. Unseen(World.acs[x], e)
    BY <1>2, <2>1 DEF Unseen
  <2> QED  BY <1>3, <2>1, <2>2, Unlisted
<1> QED  BY <1>1, <1>2, <1>4 DEF InFlight

\* The authorization of a request succeeds.
LEMMA AuthorizedStep ==
    ASSUME Inv, NEW x \in ACs, Authorized(x)
    PROVE  Inv'
<1>1. acs[x].phase = "auth" /\ UNCHANGED <<link, visible>> /\ visible \in BOOLEAN
  BY InvIs DEF Authorized
<1>2. CASE Kind[x] = "profile"
  <2> DEFINE w == InPhase(x, "done")
  <2>1. Sound(w, {x}) /\ InFlight(w, x) /\ ~w.acs[x].listed /\ w.link = link
    BY <1>1, Accepted
  <2>2. PICK o \in BOOLEAN : Becomes(InternalActivate(w, x, visible, o))
    BY <1>2 DEF Authorized
  <2> HIDE DEF w
  <2> DEFINE v == InternalActivate(w, x, visible, o)
  <2>3. Sound(v, {}) /\ v.link = w.link
    BY <1>1, <2>1, InternalActivateIs
  <2>4. Becomes(v)
    BY <2>2
  <2> HIDE DEF v
  <2> QED  BY <1>1, <2>1, <2>3, <2>4, Stepped
<1>3. CASE Kind[x] # "profile"
  <2> DEFINE e == [acs[x] EXCEPT !.phase = "add"]
             v == WithAc(World, x, e)
  <2>1. acs[x].replies = 0 /\ ~acs[x].listed /\ acs[x] \in Conns /\ acs[x] \in Connections
    BY <1>1, NotThrough
  <2>2. /\ e \in Conns /\ e.state = acs[x].state /\ ~e.listed /\ e.phase = "add" /\ e.replies = 0
    BY <2>1 DEF Conns, Connections
  <2>3. Becomes(v)
    BY <1>3 DEF Authorized, InPhase
  <2> HIDE DEF e
  <2>4. Sound(v, {}) /\ v.link = link
    <3>1. /\ Sound(World, {}) /\ World.dev = dev /\ World.acs = acs /\ World.link = link
          /\ World.acs[x].phase # "done"
      BY <1>1, InvIs
    <3>2. Unseen(World.acs[x], e) /\ AnsweredIs(e)
      BY <2>2, <3>1 DEF Unseen, AnsweredIs
    <3>3. v = WithAc(World, x, e)
      OBVIOUS
    <3> HIDE DEF v
    <3> QED  BY <3>1, <3>2, <3>3, UnlistedAnswered
  <2> HIDE DEF v
  <2> QED  BY <1>1, <2>3, <2>4, Stepped
<1> QED  BY <1>2, <1>3

WithAnswer(c, p, e) == e = [c EXCEPT !.phase = p, !.replies = @ + 1]

\* An answer that is the first is the only one.
LEMMA AnsweredNow ==
    ASSUME NEW c \in Connections, c.replies = 0, ~c.listed, NEW p \in {"done", "gone"},
           NEW e, WithAnswer(c, p, e)
    PROVE  /\ e \in Conns /\ e.phase = p /\ e.replies = 1 /\ ~e.listed /\ e.state = c.state
<1>1. e = [c EXCEPT !.phase = p, !.replies = 1]
  BY DEF WithAnswer
<1>2. e = [phase |-> p, state |-> c.state, listed |-> c.listed, replies |-> 1, ka |-> c.ka]
  BY <1>1 DEF Connections
<1>3. e \in Connections /\ e.phase = p /\ e.replies = 1 /\ e.listed = c.listed /\ e.state = c.state
  BY <1>2 DEF Connections
<1> QED  BY <1>3 DEF Conns

\* The authorization of a request fails.
LEMMA RefusedStep ==
    ASSUME Inv, NEW x \in ACs, Refused(x)
    PROVE  Inv'
<1> DEFINE d == [acs[x] EXCEPT !.phase = "done", !.replies = @ + 1]
           g == [acs[x] EXCEPT !.phase = "gone", !.replies = @ + 1]
           f == SetStateFail(d)
           e == IF Kind[x] = "profile" THEN f ELSE g
           v == WithAc(World, x, e)
<1>1. acs[x].phase = "auth" /\ UNCHANGED <<dev, link, visible>> /\ visible \in BOOLEAN
      /\ acs' = [acs EXCEPT ![x] = e]
  BY InvIs DEF Refused
<1>2. acs[x].replies = 0 /\ ~acs[x].listed /\ acs[x] \in Conns /\ acs[x] \in Connections
  BY <1>1, NotThrough
<1>3. /\ d \in Conns /\ d.phase = "done" /\ d.replies = 1 /\ ~d.listed
      /\ g \in Conns /\ g.phase = "gone" /\ g.replies = 1 /\ ~g.listed /\ g.state = acs[x].state
  <2>1. WithAnswer(acs[x], "done", d) /\ WithAnswer(acs[x], "gone", g)
    BY DEF WithAnswer
  <2> HIDE DEF d, g
  <2>2. d \in Conns /\ d.phase = "done" /\ d.replies = 1 /\ ~d.listed
    BY <1>2, <2>1, AnsweredNow
  <2>3. g \in Conns /\ g.phase = "gone" /\ g.replies = 1 /\ ~g.listed /\ g.state = acs[x].state
    BY <1>2, <2>1, AnsweredNow
  <2> QED  BY <2>2, <2>3
<1> HIDE DEF d, g
<1>4. f \in Conns /\ Evolves(d, f) /\ f.state = AC_DEACTIVATED
  BY <1>3, SetStateFailIs
<1> HIDE DEF f
<1>5. f.phase = "done" /\ f.replies = 1 /\ ~f.listed
  BY <1>3, <1>4 DEF Evolves
<1>6. /\ e \in Conns /\ e.state \in {acs[x].state, AC_DEACTIVATED} /\ ~e.listed
      /\ e.phase \in {"done", "gone"} /\ e.replies = 1
  BY <1>3, <1>4, <1>5
<1> HIDE DEF e
<1>7. Sound(v, {}) /\ v.link = link /\ v.dev = dev
  <2>1. /\ Sound(World, {}) /\ World.dev = dev /\ World.acs = acs /\ World.link = link
        /\ World.acs[x].phase # "done"
    BY <1>1, InvIs
  <2>2. Unseen(World.acs[x], e) /\ AnsweredIs(e)
    BY <1>6, <2>1 DEF Unseen, AnsweredIs
  <2>3. v = WithAc(World, x, e)
    OBVIOUS
  <2> HIDE DEF v
  <2> QED  BY <2>1, <2>2, <2>3, UnlistedAnswered
<1>8. Becomes(v)
  BY <1>1 DEF Becomes, WithAc, World
<1> HIDE DEF v
<1> QED  BY <1>1, <1>7, <1>8, Stepped

\* The settings have added the profile of a request.
LEMMA AddDoneStep ==
    ASSUME Inv, NEW x \in ACs, AddDone(x)
    PROVE  Inv'
<1> DEFINE w == InPhase(x, "done")
           r == Replied(Fail(w, x), x)
<1>1. acs[x].phase = "add" /\ UNCHANGED <<link, visible>> /\ visible \in BOOLEAN
      /\ ((\E o \in BOOLEAN : Becomes(InternalActivate(w, x, visible, o))) \/ Becomes(r))
  BY InvIs DEF AddDone
<1>2. Sound(w, {x}) /\ InFlight(w, x) /\ ~w.acs[x].listed /\ w.link = link
  BY <1>1, Accepted
<1> HIDE DEF w
<1>3. ASSUME NEW o \in BOOLEAN, Becomes(InternalActivate(w, x, visible, o))
      PROVE  Inv'
  <2> DEFINE v == InternalActivate(w, x, visible, o)
  <2>1. Sound(v, {}) /\ v.link = w.link
    BY <1>1, <1>2, InternalActivateIs
  <2>2. Becomes(v)
    BY <1>3
  <2> HIDE DEF v
  <2> QED  BY <1>1, <1>2, <2>1, <2>2, Stepped
<1>4. CASE Becomes(r)
  <2>1. Sound(r, {}) /\ r.link = w.link
    BY <1>2, FailedNow
  <2> HIDE DEF r
  <2> QED  BY <1>1, <1>2, <1>4, <2>1, Stepped
<1> QED  BY <1>1, <1>3, <1>4

\* _active_connection_cleanup drops those that have ended.
LEMMA CleanupStep ==
    ASSUME Inv, ActiveConnectionCleanup
    PROVE  Inv'
<1> DEFINE bs == [x \in ACs |-> IF acs[x].state = AC_DEACTIVATED
                                THEN [acs[x] EXCEPT !.listed = FALSE] ELSE acs[x]]
           v == [dev |-> dev, acs |-> bs, link |-> link]
<1>1. /\ Sound(World, {}) /\ visible \in BOOLEAN /\ link \in Links /\ dev \in Devs /\ Dev(dev)
      /\ acs \in [ACs -> Conns] /\ FollowsDevice(dev, acs) /\ Answered(acs, {}) /\ Ended(acs, {})
      /\ Remembers(World, {}) /\ World.dev = dev /\ World.acs = acs
  BY InvIs
<1>2. acs' = bs /\ UNCHANGED <<dev, link, visible>>
  BY DEF ActiveConnectionCleanup
<1>3. ASSUME NEW x \in ACs
      PROVE  /\ bs[x] \in Conns /\ bs[x].phase = acs[x].phase /\ bs[x].state = acs[x].state
             /\ bs[x].replies = acs[x].replies /\ bs[x].ka = acs[x].ka
             /\ bs[x].listed => acs[x].listed
  <2>1. acs[x] \in Conns /\ acs[x] \in Connections
    BY <1>1, ConnIs
  <2>2. CASE acs[x].state = AC_DEACTIVATED
    <3> DEFINE e == [acs[x] EXCEPT !.listed = FALSE]
    <3>1. bs[x] = e
      BY <2>2
    <3>2. /\ e \in Conns /\ e.phase = acs[x].phase /\ e.state = acs[x].state
          /\ e.replies = acs[x].replies /\ e.ka = acs[x].ka /\ e.listed = FALSE
      BY <2>1 DEF Conns, Connections
    <3> HIDE DEF e, bs
    <3> QED  BY <3>1, <3>2
  <2>3. CASE acs[x].state # AC_DEACTIVATED
    <3>1. bs[x] = acs[x]
      BY <2>3
    <3> HIDE DEF bs
    <3> QED  BY <2>1, <3>1
  <2> QED  BY <2>2, <2>3
<1>4. bs \in [ACs -> Conns]
  BY <1>3
<1> HIDE DEF bs
<1>5. v \in Worlds /\ v.dev = dev /\ v.acs = bs /\ v.link = link
  BY <1>1, <1>4 DEF Worlds
<1>6. FollowsDevice(dev, bs)
  BY <1>1, <1>3 DEF FollowsDevice
<1>7. Core(v)
  BY <1>1, <1>5, <1>6 DEF Core
<1>8. Ended(bs, {})
  BY <1>1, <1>3 DEF Ended
<1>9. Answered(bs, {})
  BY <1>1, <1>3 DEF Answered
<1>10. Remembers(v, {})
  <2>1. \A x \in ACs : Lives(bs[x]) => Lives(acs[x])
    BY <1>3 DEF Lives
  <2>2. \A x : Overtakable(acs, x) => Overtakable(bs, x)
    BY <1>3, OvertakableKept
  <2> QED  BY <1>1, <1>5, <2>1, <2>2 DEF Remembers, Known
<1>11. Sound(v, {}) /\ Becomes(v)
  BY <1>2, <1>5, <1>7, <1>8, <1>9, <1>10 DEF Sound, Becomes
<1> HIDE DEF v
<1> QED  BY <1>1, <1>2, <1>5, <1>11, Stepped

\* A step that is one call of a function
LEMMA CallStep ==
    ASSUME Inv, NEW v, Core(v), Kept(World, v), Remembers(World, {}) => Remembers(v, {}),
           Becomes(v), UNCHANGED <<link, visible>>
    PROVE  Inv'
<1>1. Sound(World, {}) /\ World.link = link /\ visible \in BOOLEAN
  BY InvIs
<1>2. Sound(v, {}) /\ v.link = link
  BY <1>1, SoundKept DEF Kept
<1> QED  BY <1>1, <1>2, Stepped

\* impl_manager_deactivate_connection
LEMMA DeactivateConnectionStep ==
    ASSUME Inv, NEW x \in ACs, DeactivateConnection(x)
    PROVE  Inv'
<1> DEFINE v == Disconnect(World, x)
<1>1. Core(World)
  BY InvIs
<1>2. Core(v) /\ Kept(World, v) /\ \A X : Remembers(World, X) => Remembers(v, X)
  BY <1>1, DisconnectIs
<1>3. Becomes(v) /\ UNCHANGED <<link, visible>>
  BY DEF DeactivateConnection
<1> HIDE DEF v
<1> QED  BY <1>2, <1>3, CallStep

\* A step that makes the device DEACTIVATING or FAILED.
LEMMA EndingStep ==
    ASSUME Inv, dev.state > DISCONNECTED, NEW new \in {DEACTIVATING, FAILED},
           Becomes(SetState(World, new)), UNCHANGED <<link, visible>>
    PROVE  Inv'
<1> DEFINE v == SetState(World, new)
<1>1. Core(World) /\ World.dev = dev /\ Dev(dev) /\ dev.state \in DeviceStates
  BY InvIs
<1>2. World.dev.state >= DISCONNECTED /\ World.dev.act_request # None
  BY <1>1 DEF Dev, Holds, DeviceStates
<1>3. v = SetState(World, new) /\ Becomes(v)
  OBVIOUS
<1> HIDE DEF v
<1>4. Core(v) /\ Kept(World, v) /\ \A X : Remembers(World, X) => Remembers(v, X)
  BY <1>1, <1>2, <1>3, SetStateEnding
<1> QED  BY <1>3, <1>4, CallStep

\* disconnect_cb
LEMMA DisconnectCbStep ==
    ASSUME Inv, DisconnectCb
    PROVE  Inv'
BY EndingStep DEF DisconnectCb

\* nm_device_set_unmanaged_by_flags, in both directions.
LEMMA SetManagedStep ==
    ASSUME Inv, NEW m \in BOOLEAN, NEW now \in BOOLEAN, SetManaged(m, now)
    PROVE  Inv'
<1> DEFINE d == [dev EXCEPT !.managed = m]
           w == WithDev(World, d)
           v == IF ~m THEN Transition(w, UNMANAGED, now)
                ELSE IF dev.state = UNMANAGED THEN Transition(w, UNAVAILABLE, now) ELSE w
<1>1. Becomes(v) /\ UNCHANGED <<link, visible>>
  BY DEF SetManaged
<1>2. /\ Sound(World, {}) /\ World.dev = dev /\ World.link = link /\ Dev(dev) /\ dev \in Devices
      /\ visible \in BOOLEAN
  BY InvIs
<1>3. FlagsOnly(dev, d) /\ SameWait(dev, d)
  BY <1>2 DEF FlagsOnly, SameWait, Devices
<1> HIDE DEF d
<1>4. Dev(d) /\ SameRequests(dev, d)
  BY <1>2, <1>3, FlagsOnlyIs DEF FlagsOnly, SameRequests
<1>5. Sound(w, {}) /\ w.link = link /\ w.dev = d
  BY <1>2, <1>3, <1>4, DevMoved
<1> HIDE DEF w
<1>6. \/ v = w
      \/ \E new \in {UNMANAGED, UNAVAILABLE} :
            (new = UNAVAILABLE => dev.state = UNMANAGED) /\ v = Transition(w, new, now)
  OBVIOUS
<1> HIDE DEF v
<1>7. CASE v = w
  BY <1>1, <1>2, <1>5, <1>7, Stepped
<1>8. ASSUME NEW new \in {UNMANAGED, UNAVAILABLE}, v = Transition(w, new, now),
             new = UNAVAILABLE => dev.state = UNMANAGED
      PROVE  Inv'
  <2>1. CASE v = SetState(w, new)
    <3>1. Core(w)
      BY <1>5 DEF Sound
    <3>2. Core(v) /\ Kept(w, v) /\ \A X : Remembers(w, X) => Remembers(v, X)
      BY <2>1, <3>1, SetStateLow
    <3>3. Sound(v, {}) /\ v.link = link
      BY <1>5, <3>2, SoundKept DEF Kept
    <3> QED  BY <1>1, <1>2, <3>3, Stepped
  <2>2. CASE v = WithDev(w, QueueState(d, new))
    <3> DEFINE e == QueueState(d, new)
    <3>1. MayQueue(d, new)
      BY <1>4, <1>8 DEF MayQueue, SameRequests
    <3>2. Dev(e) /\ Alike(d, e)
      BY <1>4, <3>1, Queued
    <3>3. v = WithDev(w, e)
      BY <2>2
    <3> HIDE DEF e
    <3>4. SameRequests(w.dev, e) /\ SameWait(w.dev, e)
      BY <1>5, <3>2 DEF Alike, SameRequests, SameWait
    <3>5. Sound(v, {}) /\ v.link = link
      BY <1>5, <3>2, <3>3, <3>4, DevMoved
    <3> QED  BY <1>1, <1>2, <3>5, Stepped
  <2> QED  BY <1>5, <1>8, <2>1, <2>2 DEF Transition
<1> QED  BY <1>6, <1>7, <1>8

\* The client that a keep-alive object watches leaves the bus.
LEMMA ClientLeavesStep ==
    ASSUME Inv, NEW x \in ACs, ClientLeaves(x)
    PROVE  Inv'
<1> DEFINE k == ClientGone(acs[x].ka, visible)
           v == KeepAliveBecomes(World, x, k)
<1>1. /\ Sound(World, {}) /\ World.acs = acs /\ World.link = link /\ acs[x] \in Conns
      /\ visible \in BOOLEAN
  BY InvIs
<1>2. Becomes(v) /\ UNCHANGED <<link, visible>>
  BY DEF ClientLeaves
<1>3. k \in KeepAlives
  BY <1>1, ConnIs, ClientGoneIs
<1>4. v = KeepAliveBecomes(World, x, k)
  OBVIOUS
<1> HIDE DEF k, v
<1>5. Sound(v, {}) /\ v.link = link
  BY <1>1, <1>3, <1>4, KeepAliveBecomesIs
<1> QED  BY <1>1, <1>2, <1>5, Stepped

\* The visibility of the profile changes.
LEMMA VisibilityStep ==
    ASSUME Inv, VisibilityChanges
    PROVE  Inv'
<1> DEFINE S == {x \in ACs : acs[x].ka.connection}
           v == FlagsChangedForAll(World, S, ~visible)
<1>1. Sound(World, {}) /\ World.link = link /\ visible \in BOOLEAN
  BY InvIs
<1>2. Becomes(v) /\ visible' = ~visible /\ UNCHANGED link
  BY DEF VisibilityChanges
<1>3. S \in SUBSET ACs /\ (~visible) \in BOOLEAN
  OBVIOUS
<1> HIDE DEF S
<1>4. Sound(v, {}) /\ v.link = link
  BY <1>1, <1>3, FlagsLoop
<1> HIDE DEF v
<1> QED  BY <1>2, <1>4, Stepped

\* The link goes up or down, of which the device is told later.
LEMMA LinkStep ==
    ASSUME Inv, LinkChanges
    PROVE  Inv'
<1> DEFINE v == [dev |-> dev, acs |-> acs, link |-> link']
<1>1. /\ Core(World) /\ visible \in BOOLEAN /\ dev \in Devs /\ Dev(dev)
      /\ acs \in [ACs -> Conns] /\ FollowsDevice(dev, acs) /\ Answered(acs, {}) /\ Ended(acs, {})
      /\ Remembers(World, {}) /\ World.dev = dev /\ World.acs = acs
  BY InvIs
<1>2. link' \in Links /\ UNCHANGED <<dev, acs, visible>>
  BY DEF LinkChanges
<1>3. v \in Worlds /\ v.dev = dev /\ v.acs = acs /\ v.link = link'
  BY <1>1, <1>2 DEF Worlds
<1> HIDE DEF v
<1>4. Remembers(v, {})
  BY <1>1, <1>3 DEF Remembers
<1>5. Sound(v, {}) /\ Becomes(v)
  BY <1>1, <1>2, <1>3, <1>4 DEF Sound, Core, Becomes
<1> QED  BY <1>1, <1>2, <1>3, <1>5, Stepped

\* The device is told of its link.
LEMMA CarrierEventStep ==
    ASSUME Inv, CarrierEvent
    PROVE  Inv'
<1> DEFINE v == SetCarrier(World, link.carrier)
<1>1. Core(World) /\ link.carrier \in BOOLEAN
  BY InvIs DEF Links
<1>2. Core(v) /\ Kept(World, v) /\ \A X : Remembers(World, X) => Remembers(v, X)
  BY <1>1, SetCarrierIs
<1>3. Becomes(v) /\ UNCHANGED <<link, visible>>
  BY DEF CarrierEvent
<1> HIDE DEF v
<1> QED  BY <1>2, <1>3, CallStep

\* carrier_disconnected_action_cb
LEMMA DeferStep ==
    ASSUME Inv, CarrierDeferTimeout
    PROVE  Inv'
<1> DEFINE d == [dev EXCEPT !.carrier_defer = FALSE]
           e == CarrierChanged(d, FALSE)
<1>1. Dev(dev) /\ dev \in Devices
  BY InvIs
<1>2. dev' = e /\ UNCHANGED <<acs, link, visible>>
  BY DEF CarrierDeferTimeout
<1>3. FlagsOnly(dev, d) /\ SameWait(dev, d)
  BY <1>1 DEF FlagsOnly, SameWait, Devices
<1> HIDE DEF d
<1>4. Dev(d) /\ SameRequests(dev, d)
  BY <1>1, <1>3, FlagsOnlyIs DEF FlagsOnly, SameRequests
<1>5. Dev(e) /\ Alike(d, e)
  BY <1>4, CarrierChangedIs
<1> HIDE DEF e
<1>6. SameRequests(dev, e) /\ SameWait(dev, e)
  BY <1>3, <1>4, <1>5 DEF Alike, SameRequests, SameWait
<1> QED  BY <1>2, <1>5, <1>6, DevStep

\* The wait for the carrier is over: nothing waits afterwards.
LEMMA WaitStep ==
    ASSUME Inv, CarrierWaitTimeout
    PROVE  Inv'
<1> DEFINE d == [dev EXCEPT !.carrier_wait = FALSE]
           w == WithDev(World, d)
           v == IF dev.carrier THEN w ELSE CarrierWaitCheck(w)
<1>1. Becomes(v) /\ UNCHANGED <<link, visible>>
  BY DEF CarrierWaitTimeout
<1>2. /\ Sound(World, {}) /\ Core(World) /\ World.dev = dev /\ World.link = link /\ World.acs = acs
      /\ Dev(dev) /\ dev \in Devices /\ visible \in BOOLEAN /\ Remembers(World, {})
  BY InvIs
<1>3. /\ FlagsOnly(dev, d) /\ d.waiting_for_carrier = dev.waiting_for_carrier
      /\ d.carrier = dev.carrier
  BY <1>2 DEF FlagsOnly, Devices
<1> HIDE DEF d
<1>4. Dev(d) /\ SameRequests(dev, d)
  BY <1>2, <1>3, FlagsOnlyIs DEF FlagsOnly, SameRequests
<1>5. Core(w) /\ Kept(World, w) /\ w.dev = d /\ w.acs = acs /\ w.link = link
  BY <1>2, <1>4, WithDevIs DEF SameRequests
<1>6. Known(dev, acs, {}) => Known(w.dev, w.acs, {})
  BY <1>4, <1>5 DEF Known, SameRequests
<1> HIDE DEF w
<1>7. CASE dev.carrier
  <2>1. v = w
    BY <1>7
  <2> HIDE DEF v
  <2>2. Waits(dev) => Waits(d)
    BY <1>3, <1>4, <1>7 DEF Waits, SameRequests
  <2>3. Remembers(w, {})
    BY <1>2, <1>5, <1>6, <2>2 DEF Remembers
  <2> QED  BY <1>1, <1>5, <2>1, <2>3, CallStep
<1>8. CASE ~dev.carrier
  <2>1. v = CarrierWaitCheck(w)
    BY <1>8
  <2> HIDE DEF v
  <2>2. Core(v) /\ Kept(w, v) /\ Waits(v.dev)
    BY <1>5, <2>1, CarrierWaitCheckIs
  <2>3. Kept(World, v)
    BY <1>5, <2>2, KeptTransitive
  <2>4. Remembers(World, {}) => Remembers(v, {})
    <3> SUFFICES ASSUME Remembers(World, {})
                 PROVE  Known(v.dev, v.acs, {})
      BY <2>2 DEF Remembers
    <3>1. Waits(dev) /\ Known(dev, acs, {})
      BY <1>2 DEF Remembers
    <3>2. w.dev.queued_act_request # None /\ w.dev.waiting_for_carrier
             /\ w.dev.state = DISCONNECTED => Yields(w.dev)
      BY <1>3, <1>4, <1>5, <3>1 DEF Waits, Yields, SameRequests
    <3> QED  BY <1>5, <1>6, <2>1, <3>1, <3>2, CarrierWaitCheckKnown
  <2> QED  BY <1>1, <2>2, <2>3, <2>4, CallStep
<1> QED  BY <1>7, <1>8

\* What the device may adjust: its calls and timers
Calls(d, e) ==
    /\ e \in Devices /\ e.idle = d.idle /\ e.queued_state = d.queued_state
    /\ SameRequests(d, e) /\ SameWait(d, e)

\* A device without one of its calls or timers is sound.
LEMMA CallsIs ==
    ASSUME NEW d, Dev(d), NEW e, Calls(d, e)
    PROVE  e \in Devs /\ Holds(e) /\ SameStages(d, e)
<1>1. d \in Devs
  BY DEF Dev
<1>2. e \in Devs /\ \A x : Pending(e, x) <=> Pending(d, x)
  BY <1>1, Adjusted DEF Calls
<1>3. Holds(e)
  BY DEF Dev, Holds, Calls, SameRequests
<1> QED  BY <1>2, <1>3 DEF SameStages

\* fw_change_zone_cb
LEMMA FirewallStep ==
    ASSUME Inv, FirewallAnswers
    PROVE  Inv'
<1> DEFINE d == [dev EXCEPT !.fw = "initialized"]
<1>1. Dev(dev) /\ dev \in Devices /\ Serves(dev) /\ Queues(dev)
  BY InvIs DEF Dev
<1>2. dev.fw \in {"wait_stage_3", "wait_ip_config"} /\ UNCHANGED <<acs, link, visible>>
  BY DEF FirewallAnswers
<1>3. IF dev.fw = "wait_stage_3" THEN dev' = ScheduleStage3(d)
      ELSE \E ping \in BOOLEAN : dev' = StartIpCheck(d, ping)
  BY DEF FirewallAnswers
<1>4. /\ d.fw = "initialized" /\ d.ping = dev.ping /\ d.call = dev.call
      /\ d.deactivating = dev.deactivating /\ d.state = dev.state
      /\ d.act_request = dev.act_request /\ Calls(dev, d)
  BY <1>1 DEF Calls, SameRequests, SameWait, Devices
<1> HIDE DEF d
<1>5. d \in Devs /\ Holds(d) /\ SameStages(dev, d)
  BY <1>1, <1>4, CallsIs
<1>6. Serves(d)
  BY <1>1, <1>4, <1>5 DEF Serves, SameStages
<1>7. Queues(d)
  BY <1>1, <1>4 DEF Queues, Calls
<1>8. Dev(d)
  BY <1>5, <1>6, <1>7 DEF Dev
<1>9. CASE dev.fw = "wait_stage_3"
  <2> DEFINE e == ScheduleStage3(d)
  <2>1. d.state = CONFIG /\ ~Pending(d, "stage3")
    BY <1>1, <1>4, <1>5, <1>9 DEF Serves, SameStages
  <2>2. /\ Dev(e) /\ e.state = CONFIG
        /\ e.act_request = d.act_request /\ e.queued_act_request = d.queued_act_request
        /\ e.waiting_for_carrier = d.waiting_for_carrier
        /\ e.carrier = d.carrier /\ e.carrier_wait = d.carrier_wait
    BY <1>8, <2>1, ScheduleStage3Is
  <2>3. dev' = e
    BY <1>3, <1>9
  <2> HIDE DEF e
  <2>4. SameRequests(dev, e) /\ SameWait(dev, e)
    BY <1>4, <2>1, <2>2 DEF Calls, SameRequests, SameWait
  <2> QED  BY <1>2, <2>2, <2>3, <2>4, DevStep
<1>10. CASE dev.fw = "wait_ip_config"
  <2>1. PICK ping \in BOOLEAN : dev' = StartIpCheck(d, ping)
    BY <1>3, <1>10
  <2>2. d.state = IP_CHECK /\ d.ping = FALSE
    <3>1. dev.ping \in BOOLEAN
      BY <1>1 DEF Devices
    <3> QED  BY <1>1, <1>4, <1>10, <3>1 DEF Serves
  <2>3. d \in Devices
    BY <1>4 DEF Calls
  <2>4. CASE ping
    <3> DEFINE e == [d EXCEPT !.ping = TRUE]
    <3>1. dev' = e
      BY <2>1, <2>4 DEF StartIpCheck
    <3>2. /\ e.fw = "initialized" /\ e.ping = TRUE /\ e.call = d.call
          /\ e.deactivating = d.deactivating /\ e.state = d.state
          /\ e.act_request = d.act_request /\ Calls(d, e)
      BY <1>4, <2>3 DEF Calls, SameRequests, SameWait, Devices
    <3> HIDE DEF e
    <3>3. d.call # "pre-up" /\ d.queued_state # SECONDARIES
      BY <1>1, <1>4, <1>10 DEF Serves, Queues, Calls
    <3>4. e \in Devs /\ Holds(e) /\ SameStages(d, e)
      BY <1>8, <3>2, CallsIs
    <3>5. Serves(e)
      BY <1>6, <2>2, <3>2, <3>3, <3>4 DEF Serves, SameStages
    <3>6. Queues(e)
      BY <1>7, <3>2, <3>3 DEF Queues, Calls
    <3>7. Dev(e) /\ SameRequests(dev, e) /\ SameWait(dev, e)
      BY <1>4, <3>2, <3>4, <3>5, <3>6 DEF Dev, Calls, SameRequests, SameWait
    <3> QED  BY <1>2, <3>1, <3>7, DevStep
  <2>5. CASE ~ping
    <3> DEFINE e == [d EXCEPT !.call = "pre-up"]
    <3>1. dev' = e
      BY <2>1, <2>5 DEF StartIpCheck
    <3>2. /\ e.fw = "initialized" /\ e.ping = d.ping /\ e.call = "pre-up"
          /\ e.deactivating = d.deactivating /\ e.state = d.state
          /\ e.act_request = d.act_request /\ Calls(d, e)
      BY <1>4, <2>3 DEF Calls, SameRequests, SameWait, Devices
    <3> HIDE DEF e
    <3>3. e \in Devs /\ Holds(e) /\ SameStages(d, e)
      BY <1>8, <3>2, CallsIs
    <3>4. Serves(e)
      BY <1>6, <2>2, <3>2, <3>3 DEF Serves, SameStages
    <3>5. Queues(e)
      BY <1>4, <1>7, <3>2 DEF Queues, Calls
    <3>6. Dev(e) /\ SameRequests(dev, e) /\ SameWait(dev, e)
      BY <1>4, <3>2, <3>3, <3>4, <3>5 DEF Dev, Calls, SameRequests, SameWait
    <3> QED  BY <1>2, <3>1, <3>6, DevStep
  <2> QED  BY <2>4, <2>5
<1> QED  BY <1>2, <1>9, <1>10

\* The end of the ping of the gateway.
LEMMA PingStep ==
    ASSUME Inv, PingEnds
    PROVE  Inv'
<1> DEFINE e == [dev EXCEPT !.ping = FALSE, !.call = "pre-up"]
<1>1. Dev(dev) /\ dev \in Devices /\ Serves(dev) /\ Queues(dev)
  BY InvIs DEF Dev
<1>2. dev.ping /\ dev' = e /\ UNCHANGED <<acs, link, visible>>
  BY DEF PingEnds
<1>3. /\ e.fw = dev.fw /\ e.ping = FALSE /\ e.call = "pre-up"
      /\ e.deactivating = dev.deactivating /\ e.state = dev.state
      /\ e.act_request = dev.act_request /\ Calls(dev, e)
  BY <1>1 DEF Calls, SameRequests, SameWait, Devices
<1> HIDE DEF e
<1>4. e \in Devs /\ Holds(e) /\ SameStages(dev, e)
  BY <1>1, <1>3, CallsIs
<1>5. dev.state = IP_CHECK /\ dev.fw # "wait_ip_config" /\ dev.queued_state # SECONDARIES
  BY <1>1, <1>2 DEF Serves, Queues
<1>6. Serves(e)
  BY <1>1, <1>3, <1>4, <1>5 DEF Serves, SameStages
<1>7. Queues(e)
  BY <1>1, <1>3, <1>5 DEF Queues, Calls
<1>8. Dev(e) /\ SameRequests(dev, e) /\ SameWait(dev, e)
  BY <1>3, <1>4, <1>6, <1>7 DEF Dev, Calls
<1> QED  BY <1>2, <1>8, DevStep

\* A call of the device has ended: e is the device without it.
LEMMA CallEnded ==
    ASSUME NEW d, Dev(d), NEW e, Calls(d, e), e.fw = d.fw, e.ping = d.ping, e.call = "none",
           e.deactivating => d.deactivating
    PROVE  Dev(e)
<1>1. e \in Devs /\ Holds(e) /\ SameStages(d, e)
  BY CallsIs
<1>2. Serves(e)
  BY <1>1 DEF Dev, Serves, SameStages, Calls, SameRequests
<1>3. Queues(e)
  BY DEF Dev, Queues, Calls, SameRequests
<1> QED  BY <1>1, <1>2, <1>3 DEF Dev

\* A state is queued on the device e, which is dev without a call.
LEMMA QueueStep ==
    ASSUME Inv, NEW e, Dev(e), Calls(dev, e), NEW s, MayQueue(e, s),
           dev' = QueueState(e, s), UNCHANGED <<acs, link, visible>>
    PROVE  Inv'
<1> DEFINE f == QueueState(e, s)
<1>1. Dev(f) /\ Alike(e, f)
  BY Queued
<1> HIDE DEF f
<1>2. SameRequests(dev, f) /\ SameWait(dev, f)
  BY <1>1 DEF Alike, Calls, SameRequests, SameWait
<1> QED  BY <1>1, <1>2, DevStep DEF f

\* The dispatcher has run the scripts for pre-up.
LEMMA PreUpStep ==
    ASSUME Inv, PreUpDone
    PROVE  Inv'
<1> DEFINE e == [dev EXCEPT !.call = "none"]
<1>1. Dev(dev) /\ dev \in Devices /\ Serves(dev)
  BY InvIs DEF Dev
<1>2. dev.call = "pre-up" /\ dev' = QueueState(e, SECONDARIES) /\ UNCHANGED <<acs, link, visible>>
  BY DEF PreUpDone
<1>3. /\ Calls(dev, e) /\ e.fw = dev.fw /\ e.ping = dev.ping /\ e.call = "none"
      /\ e.deactivating = dev.deactivating /\ e.state = dev.state
  BY <1>1 DEF Calls, SameRequests, SameWait, Devices
<1> HIDE DEF e
<1>4. Dev(e)
  BY <1>1, <1>3, CallEnded
<1>5. MayQueue(e, SECONDARIES)
  BY <1>1, <1>2, <1>3 DEF Serves, MayQueue
<1> QED  BY <1>2, <1>3, <1>4, <1>5, QueueStep

\* The dispatcher has run the scripts for pre-down.
LEMMA PreDownStep ==
    ASSUME Inv, PreDownDone
    PROVE  Inv'
<1>1. Dev(dev) /\ dev \in Devices /\ Serves(dev) /\ Queues(dev)
  BY InvIs DEF Dev
<1>2. dev.call = "pre-down" /\ UNCHANGED <<acs, link, visible>> /\ dev.state = DEACTIVATING
  BY <1>1 DEF PreDownDone, Serves
<1>3. CASE DeactivateAsync
  <2> DEFINE e == [dev EXCEPT !.call = "none", !.deactivating = TRUE]
  <2>1. dev' = e
    BY <1>3 DEF PreDownDone
  <2>2. /\ Calls(dev, e) /\ e.fw = dev.fw /\ e.ping = dev.ping /\ e.call = "none"
        /\ e.state = dev.state /\ e.act_request = dev.act_request
    BY <1>1 DEF Calls, SameRequests, SameWait, Devices
  <2> HIDE DEF e
  <2>3. e \in Devs /\ Holds(e) /\ SameStages(dev, e)
    BY <1>1, <2>2, CallsIs
  <2>4. Serves(e)
    BY <1>1, <1>2, <2>2, <2>3 DEF Serves, SameStages
  <2>5. Queues(e)
    BY <1>1, <2>2 DEF Queues, Calls
  <2>6. Dev(e) /\ SameRequests(dev, e) /\ SameWait(dev, e)
    BY <2>2, <2>3, <2>4, <2>5 DEF Dev, Calls
  <2> QED  BY <1>2, <2>1, <2>6, DevStep
<1>4. CASE ~DeactivateAsync
  <2> DEFINE e == [dev EXCEPT !.call = "none"]
  <2>1. dev' = QueueState(e, DISCONNECTED)
    BY <1>4 DEF PreDownDone
  <2>2. /\ Calls(dev, e) /\ e.fw = dev.fw /\ e.ping = dev.ping /\ e.call = "none"
        /\ e.deactivating = dev.deactivating /\ e.state = dev.state
    BY <1>1 DEF Calls, SameRequests, SameWait, Devices
  <2> HIDE DEF e
  <2>3. Dev(e)
    BY <1>1, <2>2, CallEnded
  <2>4. MayQueue(e, DISCONNECTED)
    BY <1>2, <2>2 DEF MayQueue
  <2> QED  BY <1>2, <2>1, <2>2, <2>3, <2>4, QueueStep
<1> QED  BY <1>3, <1>4

\* deactivate_async_ready
LEMMA AsyncReadyStep ==
    ASSUME Inv, DeactivateAsyncReady
    PROVE  Inv'
<1> DEFINE e == [dev EXCEPT !.deactivating = FALSE]
<1>1. Dev(dev) /\ dev \in Devices /\ Serves(dev) /\ Queues(dev)
  BY InvIs DEF Dev
<1>2. /\ dev.deactivating /\ dev' = QueueState(e, DISCONNECTED)
      /\ UNCHANGED <<acs, link, visible>> /\ dev.state = DEACTIVATING
  BY <1>1 DEF DeactivateAsyncReady, Serves
<1>3. /\ Calls(dev, e) /\ e.fw = dev.fw /\ e.ping = dev.ping /\ e.call = dev.call
      /\ e.deactivating = FALSE /\ e.state = dev.state /\ e.act_request = dev.act_request
  BY <1>1 DEF Calls, SameRequests, SameWait, Devices
<1> HIDE DEF e
<1>4. e \in Devs /\ Holds(e) /\ SameStages(dev, e)
  BY <1>1, <1>3, CallsIs
<1>5. Serves(e)
  BY <1>1, <1>3, <1>4 DEF Serves, SameStages
<1>6. Queues(e)
  BY <1>1, <1>3 DEF Queues, Calls
<1>7. Dev(e)
  BY <1>4, <1>5, <1>6 DEF Dev
<1>8. MayQueue(e, DISCONNECTED)
  BY <1>2, <1>3 DEF MayQueue
<1> QED  BY <1>2, <1>3, <1>7, <1>8, QueueStep

\* The device goes on to another state of the activation.
LEMMA UpStep ==
    ASSUME NEW w, Sound(w, {}), NEW new \in UpStates, w.dev.state # new,
           w.dev.state >= DISCONNECTED, w.dev.state <= ACTIVATED, w.dev.act_request # None,
           Quiet(w.dev), NEW v, v = SetState(w, new)
    PROVE  /\ Sound(v, {}) /\ v.link = w.link /\ v.dev.state = new
           /\ v.dev.act_request # None /\ (new # IP_CHECK => Quiet(v.dev))
<1>1. Core(w)
  BY DEF Sound
<1>2. /\ Core(v) /\ Kept(w, v) /\ v.dev.state = new /\ v.dev.act_request = w.dev.act_request
      /\ new # IP_CHECK => Quiet(v.dev)
      /\ \A X : Remembers(w, X) => Remembers(v, X)
  BY <1>1, SetStateUp
<1>3. Sound(v, {})
  BY <1>2, SoundKept
<1> QED  BY <1>2, <1>3 DEF Kept

\* A device that fails keeps the world sound.
LEMMA FailStep ==
    ASSUME NEW w, Sound(w, {}), w.dev.state >= DISCONNECTED, w.dev.act_request # None,
           NEW v, v = SetState(w, FAILED)
    PROVE  Sound(v, {}) /\ v.link = w.link
<1>1. Core(w) /\ FAILED \in {DEACTIVATING, FAILED}
  BY DEF Sound
<1>2. Core(v) /\ Kept(w, v) /\ \A X : Remembers(w, X) => Remembers(v, X)
  BY <1>1, SetStateEnding
<1>3. Sound(v, {})
  BY <1>2, SoundKept
<1> QED  BY <1>2, <1>3 DEF Kept

\* In these states the device has nothing under way.
LEMMA QuietIn ==
    ASSUME NEW d, Dev(d), d.state \in {PREPARE, IP_CONFIG, SECONDARIES, ACTIVATED}
    PROVE  Quiet(d)
BY DEF Dev, Serves, Quiet

\* IP configuration succeeds or fails.
LEMMA IpConfigStep ==
    ASSUME Inv, IpConfigEnds
    PROVE  Inv'
<1>1. /\ Sound(World, {}) /\ World.dev = dev /\ World.link = link /\ Dev(dev) /\ visible \in BOOLEAN
  BY InvIs
<1>2. PICK new \in {IP_CHECK, SECONDARIES, FAILED} : Becomes(SetState(World, new))
  BY DEF IpConfigEnds
<1>3. dev.state = IP_CONFIG /\ UNCHANGED <<link, visible>>
  BY DEF IpConfigEnds
<1>4. dev.act_request # None /\ Quiet(dev)
  BY <1>1, <1>3, QuietIn DEF Dev, Holds
<1> DEFINE v == SetState(World, new)
<1>5. v = SetState(World, new)
  OBVIOUS
<1> HIDE DEF v
<1>6. Sound(v, {}) /\ v.link = link
  <2>1. CASE new = FAILED
    BY <1>1, <1>3, <1>4, <1>5, <2>1, FailStep
  <2>2. CASE new # FAILED
    <3>1. new \in UpStates /\ World.dev.state # new
      BY <1>1, <1>2, <1>3, <2>2 DEF UpStates
    <3> QED  BY <1>1, <1>3, <1>4, <1>5, <3>1, UpStep
  <2> QED  BY <2>1, <2>2
<1> QED  BY <1>1, <1>2, <1>3, <1>5, <1>6, Stepped

\* IP configuration is lost after it was there.
LEMMA IpConfigLostStep ==
    ASSUME Inv, IpConfigLost
    PROVE  Inv'
<1>1. dev.state > DISCONNECTED
  BY InvIs DEF IpConfigLost, DeviceStates
<1>2. FAILED \in {DEACTIVATING, FAILED}
  OBVIOUS
<1> QED  BY <1>1, <1>2, EndingStep DEF IpConfigLost

\* The device e is d after its first idle source has been taken.
Took(d, e) ==
    /\ e \in Devs /\ Alike(d, e)
    /\ e.queued_state = IF Head(d.idle) = "state" THEN 0 ELSE d.queued_state
    /\ \A x : Pending(e, x) <=> Pending(d, x) /\ x # Head(d.idle)
    /\ Pending(d, Head(d.idle)) /\ Head(d.idle) \in Sources

\* A source that is not the queued state is taken.
LEMMA TookSource ==
    ASSUME NEW d, Dev(d), d.idle # << >>, Head(d.idle) # "state",
           NEW e, e = [d EXCEPT !.idle = Tail(@)]
    PROVE  Took(d, e)
<1>1. d \in Devs /\ d \in Devices /\ d.queued_state \in DeviceStates \cup {0}
  BY StatesAre DEF Dev, Devs
<1>2. e = [d EXCEPT !.queued_state = d.queued_state, !.idle = Tail(d.idle)]
  BY <1>1 DEF Devices
<1>3. /\ e \in Devs /\ Alike(d, e) /\ e.queued_state = d.queued_state
      /\ \A x : Pending(e, x) <=> Pending(d, x) /\ x # Head(d.idle)
      /\ Pending(d, Head(d.idle)) /\ Head(d.idle) \in Sources
  BY <1>1, <1>2, TailTaken
<1> QED  BY <1>3 DEF Took

\* The queued state is taken.
LEMMA TookState ==
    ASSUME NEW d, Dev(d), d.idle # << >>, Head(d.idle) = "state",
           NEW e, e = [[d EXCEPT !.idle = Tail(@)] EXCEPT !.queued_state = 0]
    PROVE  Took(d, e)
<1>1. d \in Devs /\ d \in Devices
  BY DEF Dev, Devs
<1>2. e = [d EXCEPT !.queued_state = 0, !.idle = Tail(d.idle)]
  BY <1>1 DEF Devices
<1>3. /\ e \in Devs /\ Alike(d, e) /\ e.queued_state = 0
      /\ \A x : Pending(e, x) <=> Pending(d, x) /\ x # Head(d.idle)
      /\ Pending(d, Head(d.idle)) /\ Head(d.idle) \in Sources
  BY <1>1, <1>2, TailTaken
<1> QED  BY <1>3 DEF Took

\* A device whose first source has been taken is sound.
LEMMA TookIs ==
    ASSUME NEW d, Dev(d), NEW e, Took(d, e)
    PROVE  Dev(e) /\ SameRequests(d, e) /\ SameWait(d, e)
<1>1. Serves(e)
  BY DEF Dev, Serves, Took, Alike
<1>2. Queues(e)
  BY DEF Dev, Queues, Took, Alike
<1>3. Holds(e)
  BY DEF Dev, Holds, Took, Alike
<1> QED  BY <1>1, <1>2, <1>3 DEF Dev, Took, Alike, SameRequests, SameWait

\* The queued state is entered.
LEMMA StateSource ==
    ASSUME NEW w, Sound(w, {}), NEW d, Dev(d), Took(d, w.dev), Head(d.idle) = "state",
           NEW v, v = SetState(w, d.queued_state)
    PROVE  Sound(v, {}) /\ v.link = w.link
<1> DEFINE s == d.queued_state
<1>1. /\ Core(w) /\ Dev(w.dev) /\ w.dev.state \in DeviceStates /\ w.dev.state = d.state
      /\ w.dev.fw = d.fw /\ w.dev.ping = d.ping
  BY CoreIs DEF Sound, Took, Alike
<1>2. s \in {UNMANAGED, UNAVAILABLE, DISCONNECTED, SECONDARIES, ACTIVATED}
  <2>1. s # 0
    BY DEF Took, Dev, Devs, Sane
  <2>2. s \in {0, UNMANAGED, UNAVAILABLE, DISCONNECTED, SECONDARIES, ACTIVATED}
    BY DEF Dev, Queues
  <2> QED  BY <2>1, <2>2
<1>3. v = SetState(w, s)
  OBVIOUS
<1>4. CASE s \in {UNMANAGED, UNAVAILABLE}
  <2> HIDE DEF s
  <2>2. Core(v) /\ Kept(w, v) /\ \A X : Remembers(w, X) => Remembers(v, X)
    BY <1>1, <1>3, <1>4, SetStateLow
  <2> QED  BY <2>2, SoundKept DEF Kept
<1>5. CASE s = DISCONNECTED
  <2>1. v = SetState(w, DISCONNECTED) /\ w.dev.state >= UNAVAILABLE /\ w.dev.state # DISCONNECTED
    BY <1>1, <1>3, <1>5 DEF Dev, Queues
  <2>2. Core(v) /\ Kept(w, v) /\ \A X : Remembers(w, X) => Remembers(v, X)
    BY <1>1, <2>1, SetStateDisconnected
  <2> QED  BY <2>2, SoundKept DEF Kept
<1>6. CASE s \in {SECONDARIES, ACTIVATED}
  <2>1. /\ s \in UpStates /\ w.dev.state # s /\ w.dev.state >= DISCONNECTED
        /\ w.dev.state <= ACTIVATED /\ w.dev.act_request # None
    BY <1>1, <1>6 DEF Dev, Queues, Holds, UpStates
  <2>2. Quiet(w.dev)
    <3>1. CASE s = ACTIVATED
      BY <1>1, <3>1, QuietIn DEF Dev, Queues
    <3>2. CASE s = SECONDARIES
      <4>1. w.dev.state = IP_CHECK /\ ~w.dev.ping /\ w.dev.fw # "wait_ip_config"
        BY <1>1, <3>2 DEF Dev, Queues
      <4> QED  BY <1>1, <4>1 DEF Dev, Serves, Quiet
    <3> QED  BY <1>6, <3>1, <3>2
  <2> HIDE DEF s
  <2> QED  BY <1>3, <2>1, <2>2, UpStep
<1> QED  BY <1>2, <1>4, <1>5, <1>6

\* The first two stages, each of which may fail
LEMMA StageSource ==
    ASSUME NEW w, Sound(w, {}), w.dev.state = DISCONNECTED, w.dev.act_request # None,
           Quiet(w.dev), NEW v, v \in Stage1(w)
    PROVE  Sound(v, {}) /\ v.link = w.link
<1> DEFINE p == SetState(w, PREPARE)
           c == SetState(p, CONFIG)
           b == BringUp(c)
           e == ScheduleStage3(b.dev)
<1>1. \/ v = SetState(p, FAILED) \/ v = SetState(c, FAILED) \/ v = SetState(b, FAILED)
      \/ v = WithDev(b, e)
  BY DEF Stage1, Stage2
<1>2. PREPARE \in UpStates /\ CONFIG \in UpStates
  BY DEF UpStates
<1>3. /\ Sound(p, {}) /\ p.link = w.link /\ p.dev.state = PREPARE
      /\ p.dev.act_request # None /\ Quiet(p.dev)
  BY <1>2, UpStep
<1> HIDE DEF p
<1>4. /\ Sound(c, {}) /\ c.link = w.link /\ c.dev.state = CONFIG
      /\ c.dev.act_request # None /\ Quiet(c.dev)
  BY <1>2, <1>3, UpStep
<1> HIDE DEF c
<1>5. /\ Sound(b, {}) /\ b.link = w.link /\ b.dev.state = CONFIG
      /\ b.dev.act_request # None /\ ~Pending(b.dev, "stage3") /\ Dev(b.dev)
  <2>1. Core(c)
    BY <1>4 DEF Sound
  <2>2. /\ Core(b) /\ Kept(c, b) /\ Undisturbed(c.dev, b.dev)
        /\ \A X : Remembers(c, X) => Remembers(b, X)
    BY <2>1, BringUpIs
  <2> HIDE DEF b
  <2>3. Sound(b, {}) /\ b.link = c.link
    BY <1>4, <2>2, SoundKept DEF Kept
  <2>4. b.dev.state = CONFIG /\ b.dev.act_request # None /\ ~Pending(b.dev, "stage3")
    BY <1>4, <2>2 DEF Undisturbed, SameStages, Quiet
  <2> QED  BY <1>4, <2>2, <2>3, <2>4 DEF Core
<1> HIDE DEF b
<1>6. CASE v = SetState(p, FAILED)
  BY <1>3, <1>6, FailStep
<1>7. CASE v = SetState(c, FAILED)
  BY <1>4, <1>7, FailStep
<1>8. CASE v = SetState(b, FAILED)
  BY <1>5, <1>8, FailStep
<1>9. CASE v = WithDev(b, e)
  <2>1. /\ Dev(e) /\ e.state = CONFIG
        /\ e.act_request = b.dev.act_request /\ e.queued_act_request = b.dev.queued_act_request
        /\ e.waiting_for_carrier = b.dev.waiting_for_carrier
        /\ e.carrier = b.dev.carrier /\ e.carrier_wait = b.dev.carrier_wait
    BY <1>5, ScheduleStage3Is
  <2> HIDE DEF e
  <2>2. SameRequests(b.dev, e) /\ SameWait(b.dev, e)
    BY <1>5, <2>1 DEF SameRequests, SameWait
  <2> QED  BY <1>5, <1>9, <2>1, <2>2, DevMoved
<1> QED  BY <1>1, <1>6, <1>7, <1>8, <1>9

\* The main loop runs the first idle source: a stage, a queued state, a recheck.
LEMMA IdleStep ==
    ASSUME Inv, IdleSource
    PROVE  Inv'
<1> DEFINE d == [dev EXCEPT !.idle = Tail(@)]
           z == [d EXCEPT !.queued_state = 0]
           w == WithDev(World, d)
           u == WithDev(World, z)
<1>1. /\ Sound(World, {}) /\ World.dev = dev /\ World.link = link /\ Dev(dev)
      /\ visible \in BOOLEAN
  BY InvIs
<1>2. dev.idle # << >> /\ UNCHANGED <<link, visible>>
  BY DEF IdleSource
<1>3. \/ Head(dev.idle) = "state" /\ Becomes(SetState(u, dev.queued_state))
      \/ Head(dev.idle) = "recheck" /\ Becomes(WithDev(World, RecheckAvailable(d)))
      \/ Head(dev.idle) = "stage1" /\ \E v \in Stage1(w) : Becomes(v)
      \/ Head(dev.idle) = "stage3" /\ Becomes(SetState(w, IP_CONFIG))
  BY DEF IdleSource
<1>4. CASE Head(dev.idle) = "state" /\ Becomes(SetState(u, dev.queued_state))
  <2> DEFINE v == SetState(u, dev.queued_state)
  <2>1. Took(dev, z)
    BY <1>1, <1>2, <1>4, TookState
  <2> HIDE DEF d, z, w
  <2>2. Dev(z) /\ SameRequests(dev, z) /\ SameWait(dev, z)
    BY <1>1, <2>1, TookIs
  <2>3. Sound(u, {}) /\ u.dev = z /\ u.link = link
    BY <1>1, <2>2, DevMoved
  <2>4. Becomes(v)
    BY <1>4
  <2> HIDE DEF u
  <2>5. Sound(v, {}) /\ v.link = u.link
    BY <1>1, <1>4, <2>1, <2>3, StateSource
  <2> HIDE DEF v
  <2> QED  BY <1>1, <1>2, <2>3, <2>4, <2>5, Stepped
<1> HIDE DEF z, u
<1>5. ASSUME Head(dev.idle) # "state"
      PROVE  /\ Took(dev, d) /\ Dev(d) /\ SameRequests(dev, d) /\ SameWait(dev, d)
             /\ Sound(w, {}) /\ w.dev = d /\ w.link = link
  <2>1. Took(dev, d)
    BY <1>1, <1>2, <1>5, TookSource
  <2> HIDE DEF d
  <2>2. Dev(d) /\ SameRequests(dev, d) /\ SameWait(dev, d)
    BY <1>1, <2>1, TookIs
  <2>3. Sound(w, {}) /\ w.dev = d /\ w.link = link
    BY <1>1, <2>2, DevMoved
  <2> QED  BY <2>1, <2>2, <2>3
<1> HIDE DEF d
<1>6. CASE Head(dev.idle) = "recheck" /\ Becomes(WithDev(World, RecheckAvailable(d)))
  <2> DEFINE e == RecheckAvailable(d)
             v == WithDev(World, e)
  <2>1. Dev(d) /\ SameRequests(dev, d) /\ SameWait(dev, d)
    BY <1>5, <1>6
  <2>2. Dev(e) /\ Alike(d, e)
    BY <2>1, RecheckIs
  <2>3. Becomes(v)
    BY <1>6
  <2> HIDE DEF e
  <2>4. SameRequests(dev, e) /\ SameWait(dev, e)
    BY <2>1, <2>2 DEF SameRequests, SameWait, Alike
  <2>5. Sound(v, {}) /\ v.link = link
    BY <1>1, <2>2, <2>4, DevMoved
  <2> HIDE DEF v
  <2> QED  BY <1>1, <1>2, <2>3, <2>5, Stepped
<1> HIDE DEF w
<1>7. CASE Head(dev.idle) = "stage1" /\ \E v \in Stage1(w) : Becomes(v)
  <2>1. PICK v \in Stage1(w) : Becomes(v)
    BY <1>7
  <2>2. Took(dev, d) /\ Dev(d) /\ Sound(w, {}) /\ w.dev = d /\ w.link = link
    BY <1>5, <1>7
  <2>3. d.state = DISCONNECTED /\ d.act_request # None
    BY <1>1, <1>7, <2>2 DEF Took, Dev, Serves, Alike
  <2>4. ~Pending(d, "stage1")
    BY <1>7, <2>2 DEF Took
  <2>5. Quiet(d)
    BY <2>2, <2>3, <2>4 DEF Quiet, Dev, Serves
  <2>6. Sound(v, {}) /\ v.link = w.link
    BY <2>1, <2>2, <2>3, <2>5, StageSource
  <2> QED  BY <1>1, <1>2, <2>1, <2>2, <2>6, Stepped
<1>8. CASE Head(dev.idle) = "stage3" /\ Becomes(SetState(w, IP_CONFIG))
  <2> DEFINE v == SetState(w, IP_CONFIG)
  <2>1. Took(dev, d) /\ Dev(d) /\ Sound(w, {}) /\ w.dev = d /\ w.link = link
    BY <1>5, <1>8
  <2>2. d.state = CONFIG /\ d.fw # "wait_stage_3"
    BY <1>1, <1>8, <2>1 DEF Took, Dev, Serves, Alike
  <2>3. ~Pending(d, "stage3") /\ d.act_request # None
    BY <1>8, <2>1, <2>2 DEF Took, Dev, Holds
  <2>4. Quiet(d)
    BY <2>1, <2>2, <2>3 DEF Quiet, Dev, Serves
  <2>5. IP_CONFIG \in UpStates /\ Becomes(v)
    BY <1>8 DEF UpStates
  <2>6. Sound(v, {}) /\ v.link = w.link
    BY <2>1, <2>2, <2>3, <2>4, <2>5, UpStep
  <2> HIDE DEF v
  <2> QED  BY <1>1, <1>2, <2>1, <2>5, <2>6, Stepped
<1> QED  BY <1>3, <1>4, <1>6, <1>7, <1>8

-----------------------------------------------------------------------------
(* The specification *)

\* The device is unmanaged and nobody has asked for anything.
LEMMA InitInv == ASSUME Init PROVE Inv
<1>1. dev \in Devices /\ dev.idle = << >> /\ dev.state = UNMANAGED /\ dev.act_request = None
      /\ dev.queued_act_request = None /\ dev.queued_state = 0 /\ dev.fw = "unmanaged"
      /\ dev.ping = FALSE /\ dev.call = "none" /\ dev.deactivating = FALSE
  <2>1. << >> \in IdleQueues
    <3>1. << >> \in [1 .. 0 -> Sources]
      OBVIOUS
    <3>2. 0 \in 0 .. 3 /\ \A i, j \in 1 .. 0 : << >>[i] = << >>[j] => i = j
      OBVIOUS
    <3>3. \E n \in 0 .. 3 : /\ << >> \in [1 .. n -> Sources]
                            /\ \A i, j \in 1 .. n : << >>[i] = << >>[j] => i = j
      BY <3>1, <3>2
    <3>4. \A q : q = << >> => q \in IdleQueues
      BY <3>3, QueueIs
    <3> QED  BY <3>4
  <2> QED  BY <2>1 DEF Init, Devices, DeviceStates
<1>2. \A x : ~Pending(dev, x)
  BY <1>1 DEF Pending
<1>3. Dev(dev)
  BY <1>1, <1>2 DEF Dev, Devs, Sane, Serves, Queues, Holds
<1>4. NewKeepAlive \in KeepAlives
  BY DEF NewKeepAlive, KeepAlives
<1>5. \A x \in ACs : /\ acs[x] \in Conns /\ acs[x].phase = "none" /\ acs[x].state = AC_UNKNOWN
                     /\ acs[x].listed = FALSE /\ acs[x].replies = 0
  BY <1>4 DEF Init, Conns, Connections
<1>6. acs \in [ACs -> Conns]
  BY <1>5 DEF Init
<1>7. World \in Worlds /\ World.dev = dev /\ World.acs = acs
  BY <1>3, <1>6 DEF World, Worlds, Dev, Init
<1>8. FollowsDevice(dev, acs)
  BY <1>1, <1>5, RequestAssumption DEF FollowsDevice
<1>9. Core(World)
  BY <1>3, <1>7, <1>8 DEF Core
<1>10. Remembers(World, {})
  BY <1>1, <1>5, <1>7 DEF Remembers, Waits, Known, Lives
<1>11. Ended(World.acs, {})
  BY <1>5, <1>7 DEF Ended
<1>12. Answered(World.acs, {})
  BY <1>5, <1>7 DEF Answered
<1> QED  BY <1>9, <1>10, <1>11, <1>12 DEF Inv, Sound, Init

\* Every action keeps the invariant.
LEMMA NextInv == ASSUME Inv, [Next]_vars PROVE Inv'
<1>1. CASE UNCHANGED vars
  <2>1. World' = World /\ visible' = visible
    BY <1>1 DEF vars, World
  <2> QED  BY <2>1 DEF Inv
<1>2. ASSUME NEW x \in ACs, Request(x) \/ Authorized(x) \/ Refused(x) \/ AddDone(x)
                            \/ DeactivateConnection(x) \/ ClientLeaves(x)
      PROVE  Inv'
  BY <1>2, RequestStep, AuthorizedStep, RefusedStep, AddDoneStep, DeactivateConnectionStep,
     ClientLeavesStep
<1>3. CASE VisibilityChanges
  BY <1>3, VisibilityStep
<1>4. CASE ActiveConnectionCleanup
  BY <1>4, CleanupStep
<1>5. CASE DisconnectCb
  BY <1>5, DisconnectCbStep
<1>6. ASSUME NEW m \in BOOLEAN, NEW now \in BOOLEAN, SetManaged(m, now) PROVE Inv'
  BY <1>6, SetManagedStep
<1>7. CASE IdleSource
  BY <1>7, IdleStep
<1>8. CASE IpConfigEnds \/ IpConfigLost \/ FirewallAnswers \/ PingEnds
  BY <1>8, IpConfigStep, IpConfigLostStep, FirewallStep, PingStep
<1>9. CASE PreUpDone \/ PreDownDone \/ DeactivateAsyncReady
  BY <1>9, PreUpStep, PreDownStep, AsyncReadyStep
<1>10. CASE LinkChanges \/ CarrierEvent \/ CarrierDeferTimeout \/ CarrierWaitTimeout
  BY <1>10, LinkStep, CarrierEventStep, DeferStep, WaitStep
<1> QED  BY <1>1, <1>2, <1>3, <1>4, <1>5, <1>6, <1>7, <1>8, <1>9, <1>10 DEF Next

\* The inductive invariant holds whatever happens in whatever order: the device,
\* its two requests and every active connection agree, for any set of requests
\* (nm-device.c: _set_state_full, nm_device_queue_activation; nm-manager.c:
\* _internal_activate_device; nm-policy.c).
THEOREM Invariance == Spec => []Inv
<1>1. Init => Inv
  BY InitInv
<1>2. Inv /\ [Next]_vars => Inv'
  BY NextInv
<1> QED  BY <1>1, <1>2, PTL DEF Spec

\* The invariant contains the types.
LEMMA InvTypeOK == ASSUME Inv PROVE TypeOK
<1>1. \A x \in ACs : acs[x] \in Connections
  BY InvIs, ConnIs
<1> QED  BY <1>1, InvIs DEF TypeOK

\* The fields of the device and of the active connections have their types; in
\* particular the queue of idle sources never holds a source twice and never
\* more than three (activation_source_schedule, nm_device_queue_state).
THEOREM TypeCorrect == Spec => []TypeOK
<1>1. Inv => TypeOK
  BY InvTypeOK
<1> QED  BY <1>1, Invariance, PTL

\* Each caller of ActivateConnection gets one answer, and only when its request
\* is through: however the active connection ends while polkit or the settings
\* are still asked (_activation_auth_done and the handlers after it).
THEOREM AnswersOnce == Spec => []AnsweredOnce
<1>1. Inv => AnsweredOnce
  BY InvIs DEF Answered, AnsweredOnce
<1> QED  BY <1>1, Invariance, PTL

\* An active connection whose keep-alive object is dead is being ended: NMPolicy
\* sees the death however it comes about (nm-policy.c, active_connection_added and
\* active_connection_keep_alive_changed).
THEOREM DeadAreEnded == Spec => []DeadIsEnded
<1>1. Inv => DeadIsEnded
  BY InvIs DEF Ended, DeadIsEnded
<1> QED  BY <1>1, Invariance, PTL

\* A device above DISCONNECTED has a request, and the state of its active
\* connection is that of the device, however the state was reached
\* (nm-act-request.c, device_state_changed).
THEOREM RequestsFollow == Spec => []RequestFollowsDevice
<1>1. ASSUME Inv PROVE RequestFollowsDevice
  <2> SUFFICES ASSUME dev.state > DISCONNECTED
               PROVE  /\ dev.act_request # None
                      /\ LET state == acs[dev.act_request].state IN
                         /\ dev.state < ACTIVATED => state = AC_ACTIVATING
                         /\ dev.state = ACTIVATED => state = AC_ACTIVATED
                         /\ dev.state > ACTIVATED => state >= AC_DEACTIVATING
    BY DEF RequestFollowsDevice
  <2>1. /\ Dev(dev) /\ dev \in Devs /\ FollowsDevice(dev, acs) /\ dev.state \in DeviceStates
    BY <1>1, InvIs
  <2>2. dev.act_request # None /\ dev.act_request \in ACs
    BY <2>1, StatesAre DEF Dev, Holds
  <2>3. Matches(dev.state, acs[dev.act_request].state)
    BY <2>1, <2>2 DEF FollowsDevice
  <2> QED  BY <2>1, <2>2, <2>3 DEF Matches, DeviceStates
<1> QED  BY <1>1, Invariance, PTL

\* A stage, a firewall call, a ping or a dispatcher call is pending only in the
\* state that started it: each way out of a state cancels what it started
\* (nm-device.c, _cancel_activation).
THEOREM NothingOutlives == Spec => []NothingOutlivesItsState
<1>1. ASSUME Inv PROVE NothingOutlivesItsState
  <2>1. Serves(dev)
    BY <1>1, InvIs DEF Dev
  <2> QED  BY <2>1 DEF Serves, NothingOutlivesItsState
<1> QED  BY <1>1, Invariance, PTL

\* An active connection that is listed and not over is the current or the queued
\* request of the device, whatever each profile needs and however the link and the
\* requests alternate.  The one exception is the one the code makes: a request that
\* needs no carrier and whose first stage has not run is dropped without a word
\* when one that waited for the carrier is activated over it (nm-device.c:12571,
\* _carrier_wait_check_queued_act_request).
THEOREM NobodyForgotten == Spec => []NoneForgotten
<1>1. ASSUME Inv PROVE NoneForgotten
  <2> SUFFICES ASSUME NEW x \in ACs, Live(x),
                      x \notin {dev.act_request, dev.queued_act_request}
               PROVE  Overtaken(x)
    BY DEF NoneForgotten
  <2>1. Remembers(World, {}) /\ World.dev = dev /\ World.acs = acs /\ FollowsDevice(dev, acs)
    BY <1>1, InvIs
  <2>2. Known(dev, acs, {})
    BY <2>1 DEF Remembers
  <2>3. Overtakable(acs, x)
    BY <2>2 DEF Known, Lives, Live
  <2> QED  BY <2>1, <2>3 DEF Overtakable, Overtaken, FollowsDevice, Live
<1> QED  BY <1>1, Invariance, PTL
====
