------------------------- MODULE SecretAgentsProofs -------------------------
(***************************************************************************)
(* The safety properties of SecretAgents hold for any agents, connections, *)
(* kinds of requests, orders and number of requests.  What a single        *)
(* request keeps to itself (QInv) is proved operator by operator; what it  *)
(* has to do with the table of agents (Track) likewise; the actions only   *)
(* put these lemmas together.                                              *)
(***************************************************************************)
EXTENDS SecretAgents, WellFoundedInduction, TLAPS

PrivilegedAgents == {a \in Agents : Owner[a] \in Privileged}

(* The one thing a request waits for. *)
Waits(q) ==
    IF q.listed
    THEN \/ q.idle /\ q.chains = {} /\ ~q.call /\ q.current = None
         \/ ~q.idle /\ q.chains = {q.current} /\ ~q.call /\ q.current # None
         \/ ~q.idle /\ q.chains = {} /\ q.call /\ q.current # None
    ELSE ~q.idle /\ q.chains = {} /\ ~q.call /\ q.current = None

Once(q) == q.kind.type = "get" => q.callbacks = IF q.listed THEN 0 ELSE 1

(* has_modify is about the agent that is being called. *)
Secret(q) ==
    /\ q.shown \subseteq PrivilegedAgents
    /\ q.by # None /\ q.has_modify => q.by \in PrivilegedAgents
    /\ q.listed => q.by = None
    /\ q.chains # {} => ~q.has_modify
    /\ q.call /\ q.has_modify => q.current \in PrivilegedAgents

(* What a request guarantees by itself. *)
QInv(q) == q \in RequestRecords /\ Waits(q) /\ Once(q) /\ Secret(q)

(* A request that is about to turn to its next agent. *)
Ready(q) ==
    /\ q \in RequestRecords
    /\ q.listed /\ ~q.idle /\ q.chains = {}
    /\ q.kind.type = "get" => q.callbacks = 0
    /\ q.shown \subseteq PrivilegedAgents /\ q.by = None

(* Every non-empty set of natural numbers has a least element. *)
LEMMA LeastOf ==
    ASSUME NEW S \in SUBSET Nat, S # {}
    PROVE  \E x \in S : \A y \in S : x <= y
<1> DEFINE R == {p \in Nat \X Nat : p[1] < p[2]}
<1>1. OpToRel(<, Nat) = R
  BY DEF OpToRel
<1>2. IsWellFoundedOn(R, Nat)
  BY <1>1, NatLessThanWellFounded
<1>3. PICK x \in S : \A y \in S : ~(<<y, x>> \in R)
  <2> HIDE DEF R
  <2> QED BY <1>2, WFMin, Zenon
<1>4. ASSUME NEW y \in S
      PROVE  x <= y
  <2>1. x \in Nat /\ y \in Nat
    OBVIOUS
  <2>2. y < x => <<y, x>> \in R
    BY <2>1
  <2>3. <<y, x>> \notin R
    <3> HIDE DEF R
    <3> QED BY <1>3
  <2> HIDE DEF R
  <2> QED BY <2>1, <2>2, <2>3
<1> QED BY <1>4

(* The next agent of a request with pending agents is one of them. *)
LEMMA FirstIsPending ==
    ASSUME NEW q, q.pending \subseteq Agents, q.rank \in [Agents -> Nat], q.pending # {}
    PROVE  First(q) \in q.pending
<1> DEFINE S == {q.rank[a] : a \in q.pending}
<1>1. S \in SUBSET Nat /\ S # {}
  OBVIOUS
<1>2. PICK x \in S : \A y \in S : x <= y
  <2> HIDE DEF S
  <2> QED BY <1>1, LeastOf
<1>3. PICK a \in q.pending : x = q.rank[a]
  BY <1>2
<1>4. \A b \in q.pending : q.rank[a] <= q.rank[b]
  BY <1>2, <1>3
<1> QED BY <1>3, <1>4 DEF First

-----------------------------------------------------------------------------
(* What completing, asking and turning to the next agent do to a request. *)

\* A completed request (req_complete, request_free) has let go of everything
\* it waited for, and a get has called back once more.
LEMMA CompleteEffect ==
    ASSUME NEW q \in RequestRecords, NEW by \in Agents \cup {None}
    PROVE  LET p == Complete(q, by) IN
           /\ p \in RequestRecords
           /\ ~p.listed /\ ~p.idle /\ p.pending = {} /\ p.current = None
           /\ p.chains = {} /\ ~p.call /\ p.by = by /\ p.shown = {} /\ p.asked = {}
           /\ p.kind = q.kind /\ p.has_modify = (q.has_modify /\ by # None)
           /\ q.kind.type = "get" => p.callbacks = q.callbacks + 1
<1> DEFINE p == Complete(q, by)
<1> DEFINE n == IF q.kind.type = "get" THEN q.callbacks + 1 ELSE q.callbacks
<1> DEFINE m == q.has_modify /\ by # None
<1>1. n \in Nat /\ m \in BOOLEAN
  BY DEF RequestRecords
<1>2. p = [q EXCEPT !.listed = FALSE, !.idle = FALSE, !.pending = {}, !.current = None,
                    !.chains = {}, !.call = FALSE, !.by = by, !.asked = {}, !.shown = {},
                    !.has_modify = m, !.callbacks = n]
  BY Zenon DEF Complete
<1>3. q.kind.type = "get" => n = q.callbacks + 1
  OBVIOUS
<1> HIDE DEF p, n, m
<1>4. /\ p \in RequestRecords
      /\ ~p.listed /\ ~p.idle /\ p.pending = {} /\ p.current = None
      /\ p.chains = {} /\ ~p.call /\ p.by = by /\ p.shown = {} /\ p.asked = {}
      /\ p.kind = q.kind /\ p.has_modify = m /\ p.callbacks = n
  BY <1>1, <1>2 DEF RequestRecords
<1> QED BY <1>3, <1>4, Zenon DEF p, m

\* Completing keeps the invariant of a request whose callback was not called
\* yet; has_modify is only reported with a privileged agent.
LEMMA CompleteOK ==
    ASSUME NEW q \in RequestRecords, NEW by \in Agents \cup {None},
           q.kind.type = "get" => q.callbacks = 0,
           by # None /\ q.has_modify => by \in PrivilegedAgents
    PROVE  QInv(Complete(q, by))
<1> DEFINE p == Complete(q, by)
<1>1. /\ p \in RequestRecords
      /\ ~p.listed /\ ~p.idle /\ p.pending = {} /\ p.current = None
      /\ p.chains = {} /\ ~p.call /\ p.by = by /\ p.shown = {} /\ p.asked = {}
      /\ p.kind = q.kind /\ p.has_modify = (q.has_modify /\ by # None)
      /\ q.kind.type = "get" => p.callbacks = q.callbacks + 1
  BY CompleteEffect
<1> HIDE DEF p
<1>2. Waits(p)
  BY <1>1 DEF Waits
<1>3. Once(p)
  BY <1>1 DEF Once
<1>4. Secret(p)
  BY <1>1 DEF Secret
<1> QED BY <1>1, <1>2, <1>3, <1>4 DEF QInv, p

\* Sending the call to the current agent: system secrets are shown to nobody
\* else.
LEMMA ProceedEffect ==
    ASSUME NEW q \in RequestRecords, NEW inc \in BOOLEAN, q.current \in Agents
    PROVE  LET p == Proceed(q, inc) IN
           /\ p \in RequestRecords
           /\ p.listed = q.listed /\ p.idle = q.idle /\ p.pending = q.pending
           /\ p.current = q.current /\ p.chains = q.chains /\ p.call
           /\ p.by = q.by /\ p.kind = q.kind /\ p.has_modify = q.has_modify
           /\ p.callbacks = q.callbacks /\ p.asked = q.asked \cup {q.current}
           /\ p.shown = q.shown \/ (inc /\ p.shown = q.shown \cup {q.current})
<1> DEFINE p == Proceed(q, inc)
<1> DEFINE s == IF inc /\ q.kind.existing # "NULL" THEN q.shown \cup {q.current} ELSE q.shown
<1>0. q.shown \subseteq Agents
  BY DEF RequestRecords
<1>1. s \in SUBSET Agents /\ (s = q.shown \/ (inc /\ s = q.shown \cup {q.current}))
  BY <1>0
<1>2. p = [q EXCEPT !.call = TRUE, !.asked = @ \cup {q.current}, !.shown = s]
  BY Zenon DEF Proceed
<1> HIDE DEF p, s
<1>3. /\ p \in RequestRecords
      /\ p.listed = q.listed /\ p.idle = q.idle /\ p.pending = q.pending
      /\ p.current = q.current /\ p.chains = q.chains /\ p.call
      /\ p.by = q.by /\ p.kind = q.kind /\ p.has_modify = q.has_modify
      /\ p.callbacks = q.callbacks /\ p.asked = q.asked \cup {q.current} /\ p.shown = s
  BY <1>1, <1>2 DEF RequestRecords
<1> QED BY <1>1, <1>3, Zenon DEF p

(* The request with agent a as its current one, before a is asked. *)
Turned(q, a) == [q EXCEPT !.call = FALSE, !.current = a, !.pending = @ \ {a}]

\* Turning to a pending agent leaves the request with one thing to wait for,
\* the call or polkit.
LEMMA StartEffect ==
    ASSUME NEW q, Ready(q), NEW a \in q.pending
    PROVE  LET p == StartCurrent(Turned(q, a)) IN
           /\ QInv(p)
           /\ p.listed /\ p.kind = q.kind /\ p.current = a
           /\ p.pending = q.pending \ {a} /\ q.asked \subseteq p.asked
           /\ p.call => a \in p.asked
<1> DEFINE t == Turned(q, a)
<1> DEFINE u == [t EXCEPT !.has_modify = FALSE]
<1> DEFINE v == [t EXCEPT !.has_modify = FALSE, !.chains = @ \cup {t.current}]
<1>0. q \in RequestRecords /\ a \in Agents /\ a # None
  BY AgentAssumption DEF Ready, RequestRecords
<1>1. /\ u \in RequestRecords
      /\ u.listed /\ ~u.idle /\ u.chains = {} /\ ~u.call /\ u.current = a
      /\ u.pending = q.pending \ {a} /\ u.kind = q.kind /\ ~u.has_modify
      /\ u.callbacks = q.callbacks /\ u.by = None /\ u.shown = q.shown /\ u.asked = q.asked
  BY <1>0 DEF Ready, RequestRecords, Turned
<1>2. /\ v \in RequestRecords
      /\ v.listed /\ ~v.idle /\ v.chains = {a} /\ ~v.call /\ v.current = a
      /\ v.pending = q.pending \ {a} /\ v.kind = q.kind /\ ~v.has_modify
      /\ v.callbacks = q.callbacks /\ v.by = None /\ v.shown = q.shown /\ v.asked = q.asked
  BY <1>0 DEF Ready, RequestRecords, Turned
<1>3. StartCurrent(t) = IF NeedsModify(t.kind) THEN v ELSE Proceed(u, FALSE)
  BY DEF StartCurrent
<1>4. CASE NeedsModify(t.kind)
  <2> HIDE DEF v, t
  <2>1. QInv(v)
    BY <1>0, <1>2 DEF QInv, Waits, Once, Secret, Ready
  <2> QED BY <1>2, <1>3, <1>4, <2>1 DEF t
<1>5. CASE ~NeedsModify(t.kind)
  <2> DEFINE p == Proceed(u, FALSE)
  <2> HIDE DEF u
  <2>1. /\ p \in RequestRecords
        /\ p.listed = u.listed /\ p.idle = u.idle /\ p.pending = u.pending
        /\ p.current = u.current /\ p.chains = u.chains /\ p.call
        /\ p.by = u.by /\ p.kind = u.kind /\ p.has_modify = u.has_modify
        /\ p.callbacks = u.callbacks /\ p.asked = u.asked \cup {u.current}
        /\ p.shown = u.shown
    BY <1>0, <1>1, ProceedEffect
  <2> HIDE DEF p, t
  <2>2. QInv(p)
    BY <1>0, <1>1, <2>1 DEF QInv, Waits, Once, Secret, Ready
  <2> QED BY <1>1, <1>3, <1>5, <2>1, <2>2 DEF t, p
<1> QED BY <1>4, <1>5

(***************************************************************************)
(* A request that turns to the next agent is completed if there is none;   *)
(* otherwise that agent becomes the current one.                           *)
(***************************************************************************)
LEMMA NextAgentEffect ==
    ASSUME NEW q, Ready(q)
    PROVE  LET p == NextAgent(q) IN
           /\ QInv(p) /\ p.kind = q.kind
           /\ \/ q.pending = {} /\ ~p.listed
              \/ \E a \in q.pending :
                   /\ p.listed /\ p.current = a /\ p.pending = q.pending \ {a}
                   /\ q.asked \subseteq p.asked /\ (p.call => a \in p.asked)
<1>0. q \in RequestRecords
  BY DEF Ready
<1>1. CASE q.pending = {}
  <2>1. QInv(Complete(q, None))
    BY <1>0, CompleteOK DEF Ready
  <2>2. ~Complete(q, None).listed /\ Complete(q, None).kind = q.kind
    BY <1>0, CompleteEffect
  <2>3. NextAgent(q) = Complete(q, None)
    BY <1>1 DEF NextAgent
  <2> QED BY <1>1, <2>1, <2>2, <2>3
<1>2. CASE q.pending # {}
  <2>1. First(q) \in q.pending
    BY <1>0, <1>2, FirstIsPending DEF RequestRecords
  <2>2. NextAgent(q) = StartCurrent(Turned(q, First(q)))
    BY <1>2 DEF NextAgent, Turned
  <2>3. /\ QInv(NextAgent(q)) /\ NextAgent(q).listed /\ NextAgent(q).kind = q.kind
        /\ NextAgent(q).current = First(q) /\ NextAgent(q).pending = q.pending \ {First(q)}
        /\ q.asked \subseteq NextAgent(q).asked
        /\ NextAgent(q).call => First(q) \in NextAgent(q).asked
    BY <2>1, <2>2, StartEffect
  <2> QED BY <2>1, <2>3
<1> QED BY <1>1, <1>2

-----------------------------------------------------------------------------
(* A request and the table of agents. *)

Ahead(q) == q.pending \cup ({q.current} \ {None})

OnlySystem(kind) == kind.type = "get" /\ "ONLY_SYSTEM" \in kind.flags

(* Of a request in the list, with the registered and the displaced agents. *)
Track(q, reg, rep) ==
    q.listed =>
      /\ q.current \notin q.pending
      /\ Ahead(q) \subseteq reg \cup rep
      /\ OnlySystem(q.kind) \/ {a \in reg : Allowed(q.kind, a)} \subseteq Ahead(q) \cup q.asked
      /\ q.call => q.current \in q.asked

(* Turning to the next agent keeps track if the current one is dealt with. *)
LEMMA NextAgentTracks ==
    ASSUME NEW q, Ready(q), NEW reg \in SUBSET Agents, NEW rep,
           q.pending \subseteq reg \cup rep,
           OnlySystem(q.kind) \/ {a \in reg : Allowed(q.kind, a)} \subseteq q.pending \cup q.asked
    PROVE  QInv(NextAgent(q)) /\ Track(NextAgent(q), reg, rep)
<1> DEFINE p == NextAgent(q)
<1>1. /\ QInv(p) /\ p.kind = q.kind
      /\ \/ q.pending = {} /\ ~p.listed
         \/ \E a \in q.pending :
              /\ p.listed /\ p.current = a /\ p.pending = q.pending \ {a}
              /\ q.asked \subseteq p.asked /\ (p.call => a \in p.asked)
  BY NextAgentEffect
<1>2. q.pending \subseteq Agents
  BY DEF Ready, RequestRecords
<1> HIDE DEF p
<1>3. CASE ~p.listed
  BY <1>1, <1>3 DEF Track, p
<1>4. ASSUME NEW a \in q.pending,
             p.listed /\ p.current = a /\ p.pending = q.pending \ {a},
             q.asked \subseteq p.asked /\ (p.call => a \in p.asked)
      PROVE  Track(p, reg, rep)
  <2>1. a # None
    BY <1>2, AgentAssumption
  <2>2. Ahead(p) = q.pending
    BY <1>4, <2>1 DEF Ahead
  <2> QED BY <1>1, <1>4, <2>2 DEF Track
<1> QED BY <1>1, <1>3, <1>4 DEF p

\* request_remove_agent keeps a request in step with the table from which the
\* agent was taken.
LEMMA RemoveTracks ==
    ASSUME NEW q, QInv(q), NEW a \in Agents, NEW reg \in SUBSET Agents, NEW rep,
           Track(q, reg, rep)
    PROVE  LET p == RequestRemoveAgent(q, a) IN QInv(p) /\ Track(p, reg \ {a}, rep)
<1>0. q \in RequestRecords /\ a # None
  BY AgentAssumption DEF QInv
<1>1. CASE ~q.listed
  BY <1>1 DEF RequestRemoveAgent, Track
<1>2. CASE q.listed /\ q.current = a
  <2> DEFINE t == [q EXCEPT !.chains = {}]
  <2>1. /\ t \in RequestRecords /\ t.chains = {} /\ t.listed = q.listed /\ t.idle = q.idle
        /\ t.kind = q.kind /\ t.callbacks = q.callbacks /\ t.shown = q.shown /\ t.by = q.by
        /\ t.pending = q.pending /\ t.asked = q.asked
    BY <1>0 DEF RequestRecords
  <2>2. RequestRemoveAgent(q, a) = NextAgent(t)
    BY <1>2 DEF RequestRemoveAgent
  <2> HIDE DEF t
  <2>3. Ready(t)
    BY <1>0, <1>2, <2>1 DEF Ready, QInv, Waits, Once, Secret
  <2>4. t.pending \subseteq (reg \ {a}) \cup rep
    BY <1>0, <1>2, <2>1 DEF Track, Ahead
  <2>5. OnlySystem(t.kind) \/
          {b \in reg \ {a} : Allowed(t.kind, b)} \subseteq t.pending \cup t.asked
    BY <1>2, <2>1 DEF Track, Ahead
  <2> QED BY <2>2, <2>3, <2>4, <2>5, NextAgentTracks
<1>3. CASE q.listed /\ q.current # a
  <2> DEFINE t == [q EXCEPT !.pending = @ \ {a}]
  <2>1. /\ t \in RequestRecords /\ t.chains = q.chains /\ t.listed = q.listed /\ t.idle = q.idle
        /\ t.kind = q.kind /\ t.callbacks = q.callbacks /\ t.shown = q.shown /\ t.by = q.by
        /\ t.pending = q.pending \ {a} /\ t.asked = q.asked /\ t.current = q.current
        /\ t.call = q.call /\ t.has_modify = q.has_modify
    BY <1>0 DEF RequestRecords
  <2>2. RequestRemoveAgent(q, a) = t
    BY <1>3 DEF RequestRemoveAgent
  <2> HIDE DEF t
  <2>3. QInv(t)
    BY <2>1, Zenon DEF QInv, Waits, Once, Secret
  <2>4. Ahead(t) = Ahead(q) \ {a}
    BY <1>0, <1>3, <2>1 DEF Ahead
  <2>5. Track(t, reg \ {a}, rep)
    BY <1>3, <2>1, <2>4 DEF Track
  <2> QED BY <2>2, <2>3, <2>5
<1> QED BY <1>1, <1>2, <1>3

\* The idle source of a request either ends it or turns it to an agent.
LEMMA StartTracks ==
    ASSUME NEW q, QInv(q), NEW reg \in SUBSET Agents, NEW rep, Track(q, reg, rep),
           q.listed, q.idle
    PROVE  QInv(Started(q)) /\ Track(Started(q), reg, rep)
<1>0. q \in RequestRecords
  BY DEF QInv
<1> DEFINE early == q.kind.type = "get" /\ (q.kind.existing = "invalid" \/ CompletesEarly(q))
<1>1. CASE early
  <2>1. Started(q) = Complete(q, None)
    BY <1>1 DEF Started
  <2>2. QInv(Complete(q, None))
    BY <1>0, CompleteOK DEF QInv, Once
  <2>3. ~Complete(q, None).listed
    BY <1>0, CompleteEffect
  <2> QED BY <2>1, <2>2, <2>3 DEF Track
<1>2. CASE ~early
  <2> DEFINE t == [q EXCEPT !.idle = FALSE]
  <2>1. /\ t \in RequestRecords /\ t.chains = q.chains /\ t.listed = q.listed /\ ~t.idle
        /\ t.kind = q.kind /\ t.callbacks = q.callbacks /\ t.shown = q.shown /\ t.by = q.by
        /\ t.pending = q.pending /\ t.asked = q.asked
    BY <1>0 DEF RequestRecords
  <2>2. Started(q) = NextAgent(t)
    BY <1>2 DEF Started
  <2> HIDE DEF t, early
  <2>3. Ready(t)
    BY <2>1 DEF Ready, QInv, Waits, Once, Secret
  <2>4. Ahead(q) = q.pending
    BY DEF QInv, Waits, Ahead
  <2>5. t.pending \subseteq reg \cup rep
    BY <2>1, <2>4 DEF Track
  <2>6. OnlySystem(t.kind) \/ {b \in reg : Allowed(t.kind, b)} \subseteq t.pending \cup t.asked
    BY <2>1, <2>4 DEF Track
  <2> QED BY <2>2, <2>3, <2>5, <2>6, NextAgentTracks
<1> QED BY <1>1, <1>2

\* The end of the call to an agent, whatever its outcome, keeps the request
\* in step with the table.
LEMMA DoneTracks ==
    ASSUME NEW q, QInv(q), NEW reg \in SUBSET Agents, NEW rep, Track(q, reg, rep),
           q.listed, q.call, NEW outcome \in Outcomes
    PROVE  QInv(Done(q, outcome)) /\ Track(Done(q, outcome), reg, rep)
<1> DEFINE t == [q EXCEPT !.call = FALSE]
<1>0. q \in RequestRecords /\ q.current \in Agents
  BY DEF QInv, Waits, RequestRecords
<1>1. /\ t \in RequestRecords /\ t.chains = q.chains /\ t.listed = q.listed /\ t.idle = q.idle
      /\ t.kind = q.kind /\ t.callbacks = q.callbacks /\ t.shown = q.shown /\ t.by = q.by
      /\ t.pending = q.pending /\ t.asked = q.asked /\ t.has_modify = q.has_modify
  BY <1>0 DEF RequestRecords
<1>2. \/ Done(q, outcome) = Complete(t, q.current)
      \/ Done(q, outcome) = Complete(t, None)
      \/ Done(q, outcome) = NextAgent(t)
  BY DEF Done
<1> HIDE DEF t
<1>3. t.kind.type = "get" => t.callbacks = 0
  BY <1>1 DEF QInv, Once
<1>4. ASSUME NEW by \in {q.current, None}
      PROVE  QInv(Complete(t, by)) /\ Track(Complete(t, by), reg, rep)
  <2>1. by # None /\ t.has_modify => by \in PrivilegedAgents
    BY <1>1 DEF QInv, Secret
  <2>2. QInv(Complete(t, by))
    BY <1>0, <1>1, <1>3, <2>1, CompleteOK
  <2>3. ~Complete(t, by).listed
    BY <1>0, <1>1, CompleteEffect
  <2> QED BY <2>2, <2>3 DEF Track
<1>5. QInv(NextAgent(t)) /\ Track(NextAgent(t), reg, rep)
  <2>1. Ready(t)
    BY <1>0, <1>1, <1>3 DEF Ready, QInv, Waits, Secret
  <2>2. t.pending \subseteq reg \cup rep
    BY <1>1 DEF Track, Ahead
  <2>3. OnlySystem(t.kind) \/ {b \in reg : Allowed(t.kind, b)} \subseteq t.pending \cup t.asked
    BY <1>1 DEF Track, Ahead
  <2> QED BY <2>1, <2>2, <2>3, NextAgentTracks
<1> QED BY <1>2, <1>4, <1>5

\* polkit's answer about the current agent keeps the request in step with the
\* table.
LEMMA AnswerTracks ==
    ASSUME NEW q, QInv(q), NEW reg \in SUBSET Agents, NEW rep, Track(q, reg, rep),
           q.listed, NEW a \in q.chains
    PROVE  QInv(Answered(q, a)) /\ Track(Answered(q, a), reg, rep)
<1> DEFINE modify == q.has_modify \/ Owner[a] \in Privileged
<1> DEFINE t == [q EXCEPT !.chains = @ \ {a}, !.has_modify = modify]
<1> DEFINE p == Proceed(t, modify)
<1>0. /\ q \in RequestRecords /\ a = q.current /\ a \in Agents /\ q.chains = {a}
      /\ ~q.idle /\ ~q.call /\ a # None
  BY AgentAssumption DEF QInv, Waits, RequestRecords
<1>1. modify \in BOOLEAN /\ (modify => a \in PrivilegedAgents)
  BY <1>0 DEF QInv, Secret, PrivilegedAgents, RequestRecords
<1>2. Answered(q, a) = p
  BY DEF Answered
<1> HIDE DEF modify
<1>3. /\ t \in RequestRecords /\ t.chains = {} /\ t.listed = q.listed /\ t.idle = q.idle
      /\ t.kind = q.kind /\ t.callbacks = q.callbacks /\ t.shown = q.shown /\ t.by = q.by
      /\ t.pending = q.pending /\ t.asked = q.asked /\ t.current = a
      /\ t.has_modify = modify
  BY <1>0, <1>1 DEF RequestRecords
<1> HIDE DEF t
<1>10. t \in RequestRecords /\ t.current \in Agents /\ modify \in BOOLEAN
  BY <1>0, <1>1, <1>3
<1>4. /\ p \in RequestRecords
      /\ p.listed = t.listed /\ p.idle = t.idle /\ p.pending = t.pending
      /\ p.current = t.current /\ p.chains = t.chains /\ p.call
      /\ p.by = t.by /\ p.kind = t.kind /\ p.has_modify = t.has_modify
      /\ p.callbacks = t.callbacks /\ p.asked = t.asked \cup {t.current}
      /\ p.shown = t.shown \/ (modify /\ p.shown = t.shown \cup {t.current})
  BY <1>10, ProceedEffect, Zenon
<1> HIDE DEF p
<1>5. Waits(p)
  BY <1>0, <1>3, <1>4 DEF Waits
<1>6. Once(p)
  BY <1>3, <1>4 DEF QInv, Once
<1>7. Secret(p)
  BY <1>0, <1>1, <1>3, <1>4 DEF QInv, Secret
<1>8. Ahead(p) = Ahead(q)
  BY <1>0, <1>3, <1>4 DEF Ahead
<1>9. Track(p, reg, rep)
  BY <1>0, <1>3, <1>4, <1>8 DEF Track
<1> QED BY <1>2, <1>4, <1>5, <1>6, <1>7, <1>9 DEF QInv

\* Cancelling ends the request.
LEMMA CancelTracks ==
    ASSUME NEW q, QInv(q), NEW reg, NEW rep, q.listed
    PROVE  QInv(Complete(q, None)) /\ Track(Complete(q, None), reg, rep)
<1>0. q \in RequestRecords
  BY DEF QInv
<1>1. QInv(Complete(q, None))
  BY <1>0, CompleteOK DEF QInv, Once
<1>2. ~Complete(q, None).listed
  BY <1>0, CompleteEffect
<1> QED BY <1>1, <1>2 DEF Track

(* A newly registered agent: reg and rep become reg2 and rep2. *)
LEMMA AddTracks ==
    ASSUME NEW q, QInv(q), NEW reg, NEW rep, Track(q, reg, rep),
           NEW a \in Agents, a \notin reg \cup rep,
           NEW reg2, reg2 \subseteq reg \cup {a}, a \in reg2,
           NEW rep2, reg \cup rep \subseteq reg2 \cup rep2
    PROVE  LET p == IF q.listed /\ Allowed(q.kind, a)
                    THEN [q EXCEPT !.pending = @ \cup {a}] ELSE q
           IN QInv(p) /\ Track(p, reg2, rep2)
<1>0. q \in RequestRecords /\ a # None
  BY AgentAssumption DEF QInv
<1>1. CASE q.listed /\ Allowed(q.kind, a)
  <2> DEFINE t == [q EXCEPT !.pending = @ \cup {a}]
  <2>1. /\ t \in RequestRecords /\ t.chains = q.chains /\ t.listed = q.listed /\ t.idle = q.idle
        /\ t.kind = q.kind /\ t.callbacks = q.callbacks /\ t.shown = q.shown /\ t.by = q.by
        /\ t.pending = q.pending \cup {a} /\ t.asked = q.asked /\ t.current = q.current
        /\ t.call = q.call /\ t.has_modify = q.has_modify
    BY <1>0 DEF RequestRecords
  <2> HIDE DEF t
  <2>2. QInv(t)
    BY <2>1, Zenon DEF QInv, Waits, Once, Secret
  <2>3. Ahead(t) = Ahead(q) \cup {a}
    BY <1>0, <2>1 DEF Ahead
  <2>4. q.current # a
    BY <1>0, <1>1 DEF Track, Ahead
  <2>5. Track(t, reg2, rep2)
    BY <1>1, <2>1, <2>3, <2>4 DEF Track
  <2> QED BY <1>1, <2>2, <2>5 DEF t
<1>2. CASE ~(q.listed /\ Allowed(q.kind, a))
  BY <1>2 DEF Track
<1> QED BY <1>1, <1>2

\* A new request holds every registered agent it may ask, none if only system
\* secrets are wanted.
LEMMA NewTracks ==
    ASSUME NEW kind \in KindRecords, NEW rank \in [Agents -> Nat], NEW reg \in SUBSET Agents,
           NEW rep,
           NEW pending, pending = IF kind.type = "get" /\ "ONLY_SYSTEM" \in kind.flags THEN {}
                                  ELSE {a \in reg : Allowed(kind, a)}
    PROVE  LET p == NewRequestRecord(kind, rank, pending) IN QInv(p) /\ Track(p, reg, rep)
<1> DEFINE p == NewRequestRecord(kind, rank, pending)
<1>0. pending \subseteq reg /\ (OnlySystem(kind) \/ pending = {a \in reg : Allowed(kind, a)})
  BY Zenon DEF OnlySystem
<1>6. pending \in SUBSET Agents /\ 0 \in Nat
  BY <1>0
<1>1. /\ p \in RequestRecords /\ p.chains = {} /\ p.listed /\ p.idle
      /\ p.kind = kind /\ p.callbacks = 0 /\ p.shown = {} /\ p.by = None
      /\ p.pending = pending /\ p.asked = {} /\ p.current = None
      /\ ~p.call /\ ~p.has_modify
  BY <1>6 DEF RequestRecords, NewRequestRecord
<1> HIDE DEF p
<1>2. QInv(p)
  BY <1>1 DEF QInv, Waits, Once, Secret
<1>3. None \notin pending
  BY <1>0, AgentAssumption
<1>4. Ahead(p) = pending
  BY <1>1 DEF Ahead
<1>5. Track(p, reg, rep)
  BY <1>0, <1>1, <1>3, <1>4 DEF Track
<1> QED BY <1>2, <1>5 DEF p

-----------------------------------------------------------------------------
(* The inductive invariant. *)

AllTrack(reqs, reg, rep) ==
    /\ reqs \in Seq(RequestRecords) /\ Len(reqs) <= MaxRequests
    /\ \A r \in DOMAIN reqs : QInv(reqs[r]) /\ Track(reqs[r], reg, rep)

TableInv ==
    /\ connected \subseteq Connections
    /\ made \subseteq Agents /\ checking \subseteq made
    /\ watching \subseteq made /\ replaced \subseteq made
    /\ agents \in [Connections -> made \cup {None}]
    /\ \A c \in Connections : agents[c] # None => Owner[agents[c]] = c
    /\ checking \cap (Registered \cup replaced) = {}

Inv == TableInv /\ AllTrack(req, Registered, replaced)

\* No agents and no requests.
LEMMA InitInv ==
    ASSUME Init
    PROVE  Inv
<1>1. Registered = {}
  BY AgentAssumption DEF Init, Registered
<1>2. TableInv
  BY <1>1 DEF Init, TableInv
<1>3. AllTrack(req, Registered, replaced)
  BY AgentAssumption DEF Init, AllTrack
<1> QED BY <1>2, <1>3 DEF Inv

(* A sequence of requests that is changed element by element. *)
LEMMA ChangeEach ==
    ASSUME NEW s, NEW reg, NEW rep, AllTrack(s, reg, rep),
           NEW t, t = [r \in DOMAIN s |-> t[r]], NEW reg2, NEW rep2,
           \A r \in DOMAIN s : QInv(t[r]) /\ Track(t[r], reg2, rep2)
    PROVE  AllTrack(t, reg2, rep2)
<1>1. s \in Seq(RequestRecords) /\ DOMAIN s = 1 .. Len(s) /\ Len(s) \in Nat
  BY DEF AllTrack
<1>2. DOMAIN t = 1 .. Len(s)
  BY <1>1, Zenon
<1>3. \A r \in 1 .. Len(s) : t[r] \in RequestRecords
  BY <1>1 DEF QInv
<1>4. t \in Seq(RequestRecords) /\ Len(t) = Len(s)
  BY <1>1, <1>2, <1>3
<1> QED BY <1>1, <1>2, <1>4 DEF AllTrack

(* One request of the sequence is changed. *)
LEMMA ChangeOne ==
    ASSUME NEW s, NEW reg, NEW rep, AllTrack(s, reg, rep), NEW r \in DOMAIN s,
           NEW q, QInv(q) /\ Track(q, reg, rep)
    PROVE  AllTrack([s EXCEPT ![r] = q], reg, rep)
<1>1. s \in Seq(RequestRecords) /\ DOMAIN s = 1 .. Len(s) /\ Len(s) \in Nat
  BY DEF AllTrack
<1>2. q \in RequestRecords
  BY DEF QInv
<1>3. /\ [s EXCEPT ![r] = q] \in Seq(RequestRecords) /\ Len([s EXCEPT ![r] = q]) = Len(s)
      /\ DOMAIN [s EXCEPT ![r] = q] = DOMAIN s
  BY <1>1, <1>2
<1>4. \A k \in DOMAIN s : QInv([s EXCEPT ![r] = q][k]) /\ Track([s EXCEPT ![r] = q][k], reg, rep)
  BY <1>1 DEF AllTrack
<1> QED BY <1>3, <1>4 DEF AllTrack

(* remove_agent, whatever the caller did to the requests before. *)
LEMMA RemoveAgentInv ==
    ASSUME TableInv, NEW c \in Connections,
           NEW reqs, AllTrack(reqs, Registered, replaced), RemoveAgent(c, reqs),
           made' = made, checking' = checking, replaced' = replaced, connected' = connected,
           watching' \subseteq watching
    PROVE  Inv'
<1>1. Registered' = Registered \ {agents[c]}
  BY AgentAssumption DEF RemoveAgent, Registered, TableInv
<1>2. TableInv'
  BY <1>1 DEF TableInv, RemoveAgent
<1>3. Registered \in SUBSET Agents
  BY DEF Registered
<1>4. CASE agents[c] = None
  <2>1. Registered' = Registered
    BY <1>1, <1>4, AgentAssumption DEF Registered
  <2> QED BY <1>2, <1>4, <2>1 DEF Inv, RemoveAgent
<1>5. CASE agents[c] # None
  <2>1. agents[c] \in Agents
    BY <1>5 DEF TableInv
  <2>2. req' = [r \in DOMAIN reqs |-> RequestRemoveAgent(reqs[r], agents[c])]
    BY <1>5 DEF RemoveAgent
  <2>3. \A r \in DOMAIN reqs : QInv(reqs[r]) /\ Track(reqs[r], Registered, replaced)
    BY DEF AllTrack
  <2>4. \A r \in DOMAIN reqs : QInv(req'[r]) /\ Track(req'[r], Registered', replaced')
    BY <1>1, <1>3, <2>1, <2>2, <2>3, RemoveTracks
  <2>5. req' = [r \in DOMAIN reqs |-> req'[r]]
    BY <2>2
  <2>6. AllTrack(req', Registered', replaced')
    BY <2>4, <2>5, ChangeEach
  <2> QED BY <1>2, <2>6 DEF Inv
<1> QED BY <1>4, <1>5

\* Register only makes the object and starts the permission check.
LEMMA RegisterInv ==
    ASSUME Inv, NEW a \in Agents, Register(a)
    PROVE  Inv'
<1>1. Registered' = Registered
  BY DEF Register, Registered
<1>2. Registered \subseteq made
  BY AgentAssumption DEF Inv, TableInv, Registered
<1>3. TableInv'
  BY <1>1, <1>2 DEF Inv, TableInv, Register
<1> QED BY <1>1, <1>3 DEF Inv, Register

\* Entering an agent adds it to every request and may displace another of its
\* connection.
LEMMA PermissionsDoneInv ==
    ASSUME Inv, NEW a \in Agents, PermissionsDone(a)
    PROVE  Inv'
<1> DEFINE old == {agents[Owner[a]]} \ {None}
<1>0. Owner[a] \in Connections /\ a # None /\ a \in checking /\ Registered \subseteq Agents
  BY AgentAssumption DEF PermissionsDone, Registered
<1>1. Registered' = (Registered \ old) \cup {a}
  BY <1>0, AgentAssumption DEF PermissionsDone, Registered, Inv, TableInv
<1>2. TableInv'
  <2>1. old \subseteq Registered
    BY <1>0, AgentAssumption DEF Inv, TableInv, Registered
  <2>2. Registered \subseteq made
    BY AgentAssumption DEF Inv, TableInv, Registered
  <2>3. checking' \cap (Registered' \cup replaced') = {}
    BY <1>1, <2>1 DEF PermissionsDone, Inv, TableInv
  <2>4. replaced' \subseteq made'
    BY <2>1, <2>2 DEF PermissionsDone, Inv, TableInv
  <2>5. agents' \in [Connections -> made' \cup {None}]
    BY <1>0 DEF PermissionsDone, Inv, TableInv
  <2>6. \A c \in Connections : agents'[c] # None => Owner[agents'[c]] = c
    BY <1>0 DEF PermissionsDone, Inv, TableInv
  <2> QED BY <2>3, <2>4, <2>5, <2>6 DEF PermissionsDone, Inv, TableInv
<1>3. AllTrack(req, Registered, replaced) /\ a \notin Registered \cup replaced
  BY <1>0 DEF Inv, TableInv
<1>4. \A r \in DOMAIN req : QInv(req'[r]) /\ Track(req'[r], Registered', replaced')
  <2> TAKE r \in DOMAIN req
  <2>1. req'[r] = IF req[r].listed /\ Allowed(req[r].kind, a)
                  THEN [req[r] EXCEPT !.pending = @ \cup {a}] ELSE req[r]
    BY DEF PermissionsDone
  <2>2. QInv(req[r]) /\ Track(req[r], Registered, replaced)
    BY <1>3 DEF AllTrack
  <2>3. /\ Registered' \subseteq Registered \cup {a} /\ a \in Registered'
        /\ Registered \cup replaced \subseteq Registered' \cup replaced'
    BY <1>1 DEF PermissionsDone
  <2> QED BY <1>3, <2>1, <2>2, <2>3, AddTracks
<1>5. req' = [r \in DOMAIN req |-> req'[r]]
  BY DEF PermissionsDone
<1>6. AllTrack(req', Registered', replaced')
  BY <1>3, <1>4, <1>5, ChangeEach
<1> QED BY <1>2, <1>6 DEF Inv

(* An action that only changes one request. *)
LEMMA OneRequestInv ==
    ASSUME Inv, NEW r \in DOMAIN req, NEW q, QInv(q), Track(q, Registered, replaced),
           req' = [req EXCEPT ![r] = q],
           UNCHANGED <<connected, made, checking, watching, agents, replaced>>
    PROVE  Inv'
<1>1. Registered' = Registered
  BY DEF Registered
<1>2. AllTrack([req EXCEPT ![r] = q], Registered, replaced)
  BY ChangeOne DEF Inv
<1>3. TableInv'
  BY <1>1 DEF Inv, TableInv
<1> QED BY <1>1, <1>2, <1>3 DEF Inv

\* A new request starts in step with the table.
LEMMA NewRequestInv ==
    ASSUME Inv, NEW r \in 1 .. MaxRequests, NEW kind \in Kinds[r], NEW rank \in Ranks,
           NewRequest(r, kind, rank)
    PROVE  Inv'
<1> DEFINE pending == IF kind.type = "get" /\ "ONLY_SYSTEM" \in kind.flags THEN {}
                      ELSE {a \in Registered : Allowed(kind, a)}
<1> DEFINE q == NewRequestRecord(kind, rank, pending)
<1>1. kind \in KindRecords /\ rank \in [Agents -> Nat]
  BY KindAssumption, AgentAssumption
<1>2. Registered \in SUBSET Agents /\ Registered' = Registered
  BY DEF Registered, NewRequest
<1>3. QInv(q) /\ Track(q, Registered, replaced)
  BY <1>1, <1>2, NewTracks
<1>4. req' = Append(req, q) /\ r = Len(req) + 1
  BY DEF NewRequest
<1> HIDE DEF q
<1>5. AllTrack(Append(req, q), Registered, replaced)
  <2>1. /\ req \in Seq(RequestRecords)
        /\ \A k \in DOMAIN req : QInv(req[k]) /\ Track(req[k], Registered, replaced)
    BY DEF Inv, AllTrack
  <2>2. q \in RequestRecords
    BY <1>3 DEF QInv
  <2>3. /\ Append(req, q) \in Seq(RequestRecords) /\ Len(Append(req, q)) = r
        /\ DOMAIN Append(req, q) = 1 .. r /\ r <= MaxRequests
        /\ \A k \in 1 .. r : IF k = r THEN Append(req, q)[k] = q
                               ELSE k \in DOMAIN req /\ Append(req, q)[k] = req[k]
    BY <1>4, <2>1, <2>2, AgentAssumption
  <2> QED BY <1>3, <2>1, <2>3 DEF AllTrack
<1>6. TableInv'
  BY <1>2 DEF Inv, TableInv, NewRequest
<1> QED BY <1>2, <1>4, <1>5, <1>6 DEF Inv, NewRequest

\* A reply advances the request first and removes a failed agent from the
\* table and all requests afterwards.
LEMMA ReplyInv ==
    ASSUME Inv, NEW r \in 1 .. MaxRequests, NEW outcome \in Outcomes, Reply(r, outcome)
    PROVE  Inv'
<1> DEFINE q == Done(req[r], outcome)
<1> DEFINE reqs == [req EXCEPT ![r] = q]
<1>0. Registered \in SUBSET Agents
  BY DEF Registered
<1>1. r \in DOMAIN req /\ req[r].listed /\ req[r].call
  BY DEF Reply
<1>2. QInv(req[r]) /\ Track(req[r], Registered, replaced)
  BY <1>1 DEF Inv, AllTrack
<1>3. QInv(q) /\ Track(q, Registered, replaced)
  BY <1>0, <1>1, <1>2, DoneTracks
<1>4. AllTrack(reqs, Registered, replaced)
  <2> HIDE DEF q
  <2> QED BY <1>1, <1>3, ChangeOne DEF Inv
<1>5. Owner[req[r].current] \in Connections
  BY <1>1, <1>2, AgentAssumption DEF QInv, Waits, RequestRecords
<1>6. \/ RemoveAgent(Owner[req[r].current], reqs)
      \/ req' = reqs /\ UNCHANGED agents
  BY DEF Reply
<1>7. UNCHANGED <<connected, made, checking, watching, replaced>>
  BY DEF Reply
<1> HIDE DEF q
<1>8. CASE RemoveAgent(Owner[req[r].current], reqs)
  <2> HIDE DEF reqs
  <2> QED BY <1>4, <1>5, <1>7, <1>8, RemoveAgentInv DEF Inv
<1>9. CASE req' = reqs /\ UNCHANGED agents
  BY <1>1, <1>3, <1>7, <1>9, OneRequestInv
<1> QED BY <1>6, <1>8, <1>9

\* Every action keeps the invariant.
LEMMA NextInv ==
    ASSUME Inv, [Next]_vars
    PROVE  Inv'
<1>0. Registered \in SUBSET Agents
  BY DEF Registered
<1>a. ASSUME NEW r \in DOMAIN req
      PROVE  QInv(req[r]) /\ Track(req[r], Registered, replaced)
  BY DEF Inv, AllTrack
<1>1. ASSUME NEW a \in Agents, Register(a)
      PROVE  Inv'
  BY <1>1, RegisterInv
<1>2. ASSUME NEW a \in Agents, PermissionsDone(a)
      PROVE  Inv'
  BY <1>2, PermissionsDoneInv
<1>3. ASSUME NEW a \in Agents, NameOwnerLost(a)
      PROVE  Inv'
  <2>1. Owner[a] \in Connections
    BY AgentAssumption
  <2> QED BY <1>3, <2>1, RemoveAgentInv DEF Inv, NameOwnerLost
<1>4. ASSUME NEW c \in Connections, Leaves(c)
      PROVE  Inv'
  <2>1. Registered' = Registered
    BY <1>4 DEF Leaves, Registered
  <2> QED BY <1>4, <2>1 DEF Leaves, Inv, TableInv
<1>5. ASSUME NEW c \in Connections, Unregister(c)
      PROVE  Inv'
  BY <1>5, RemoveAgentInv DEF Inv, Unregister
<1>6. ASSUME NEW r \in 1 .. MaxRequests, NEW kind \in Kinds[r], NEW rank \in Ranks,
             NewRequest(r, kind, rank)
      PROVE  Inv'
  BY <1>6, NewRequestInv
<1>7. ASSUME NEW r \in 1 .. MaxRequests, RequestStart(r)
      PROVE  Inv'
  <2>1. r \in DOMAIN req /\ req[r].listed /\ req[r].idle
    BY <1>7 DEF RequestStart
  <2>2. QInv(Started(req[r])) /\ Track(Started(req[r]), Registered, replaced)
    BY <1>0, <1>a, <2>1, StartTracks
  <2> QED BY <1>7, <2>1, <2>2, OneRequestInv DEF RequestStart
<1>8. ASSUME NEW r \in 1 .. MaxRequests, Validated(r)
      PROVE  Inv'
  <2>1. r \in DOMAIN req /\ req[r].listed
    BY <1>8 DEF Validated
  <2>2. PICK a \in req[r].chains : req' = [req EXCEPT ![r] = Answered(req[r], a)]
    BY <1>8 DEF Validated
  <2>3. QInv(Answered(req[r], a)) /\ Track(Answered(req[r], a), Registered, replaced)
    BY <1>0, <1>a, <2>1, AnswerTracks
  <2>4. UNCHANGED <<connected, made, checking, watching, agents, replaced>>
    BY <1>8 DEF Validated
  <2> QED BY <2>1, <2>2, <2>3, <2>4, OneRequestInv
<1>9. ASSUME NEW r \in 1 .. MaxRequests, ReplyAny(r)
      PROVE  Inv'
  BY <1>9, ReplyInv DEF ReplyAny
<1>10. ASSUME NEW r \in 1 .. MaxRequests, Cancel(r)
      PROVE  Inv'
  <2>1. r \in DOMAIN req /\ req[r].listed
    BY <1>10 DEF Cancel
  <2>2. QInv(Complete(req[r], None)) /\ Track(Complete(req[r], None), Registered, replaced)
    BY <1>a, <2>1, CancelTracks
  <2> QED BY <1>10, <2>1, <2>2, OneRequestInv DEF Cancel
<1>11. CASE UNCHANGED vars
  <2>1. Registered' = Registered
    BY <1>11 DEF vars, Registered
  <2> QED BY <1>11, <2>1 DEF vars, Inv, TableInv, AllTrack
<1> QED BY <1>1, <1>2, <1>3, <1>4, <1>5, <1>6, <1>7, <1>8, <1>9, <1>10, <1>11, Zenon DEF Next

-----------------------------------------------------------------------------
(***************************************************************************)
(* The invariant holds in every reachable state of the agent manager.      *)
(***************************************************************************)
THEOREM Invariance == Spec => []Inv
<1>1. Init => Inv
  BY InitInv
<1>2. Inv /\ [Next]_vars => Inv'
  BY NextInv
<1> QED BY <1>1, <1>2, PTL DEF Spec

(* The manager's variables keep their types. *)
THEOREM TypeCorrectness == Spec => []TypeOK
<1>1. Inv => TypeOK
  BY DEF Inv, TableInv, AllTrack, TypeOK
<1> QED BY <1>1, Invariance, PTL

(***************************************************************************)
(* The callback given to nm_agent_manager_get_secrets is called exactly    *)
(* once, when the request ends, whatever happens to agents and calls.      *)
(***************************************************************************)
THEOREM CallbackOnce == Spec => []CalledBackOnce
<1>1. Inv => CalledBackOnce
  BY DEF Inv, AllTrack, QInv, Once, CalledBackOnce
<1> QED BY <1>1, Invariance, PTL

(* A request in the list waits for its idle source, polkit or one agent. *)
THEOREM OneThing == Spec => []WaitsForOneThing
<1>1. Inv => WaitsForOneThing
  BY DEF Inv, AllTrack, QInv, Waits, WaitsForOneThing
<1> QED BY <1>1, Invariance, PTL

(* System secrets only reach agents that have the MODIFY permission. *)
THEOREM SecretsStay == Spec => []SystemSecretsStay
<1>1. Inv => SystemSecretsStay
  BY DEF Inv, AllTrack, QInv, Secret, SystemSecretsStay, PrivilegedAgents
<1> QED BY <1>1, Invariance, PTL

(***************************************************************************)
(* Requests and the table of agents agree: no registered agent is missed,  *)
(* and none is asked that is neither registered nor displaced.             *)
(***************************************************************************)
THEOREM TracksAgents == Spec => []RequestsTrackAgents
<1>1. Inv => RequestsTrackAgents
  BY DEF Inv, AllTrack, Track, Ahead, OnlySystem, RequestsTrackAgents
<1> QED BY <1>1, Invariance, PTL
=============================================================================
