--------------------------- MODULE KeepAliveProofs ---------------------------
(***************************************************************************)
(* The keep-alive object and the bus: the safety properties of             *)
(* KeepAliveWatch hold for any set of clients and any number of watches.   *)
(*                                                                         *)
(* The object part Obj ties the flags to the client given last; the bus    *)
(* part says that whatever is still under way about the current            *)
(* subscription names the current client, and that every notice of absence *)
(* is about a client that is gone, which is stable because unique names    *)
(* are not used again.                                                     *)
(***************************************************************************)
EXTENDS KeepAliveWatch, TLAPS

\* The object k, for visibility v, last given client b and w watches so far.
Obj(k, v, b, w) ==
    /\ k \in KeepAlives /\ v \in BOOLEAN
    /\ b \in Clients \cup {NoClient} /\ w \in 0 .. MaxWatches
    /\ ~k.disarmed => k.alive = IsAlive(k, v)
    /\ k.dbus_client = NoClient => k.subscription_id = 0 /\ k.confirm_call = 0
    /\ k.dbus_client # NoClient => k.dbus_client = b /\ k.subscription_id = w /\ w # 0
    /\ k.confirm_call \in {0, k.subscription_id}
    /\ k.disarmed => k.dbus_client = NoClient
    /\ ~k.disarmed => (k.dbus_client_watching <=> b # NoClient)

\* Requests and messages that may be under way for the object k.
GoodRequests(k, w) ==
    {q \in Requests : /\ q.id <= w
                      /\ q.id = k.subscription_id => q.client = k.dbus_client}
GoodMessages(k, w, p, f) ==
    {q \in Messages : /\ q.id <= w
                      /\ q.m # "NameOwnerChanged" /\ q.id = k.subscription_id
                            => q.client = k.dbus_client
                      /\ q.m # "owner" => q.client \notin p \/ (q.m = "error" /\ q.id \in f)}

Inv ==
    /\ Obj(ka, visible, bound, watches)
    /\ ~ka.disarmed /\ bound \in present /\ watches \notin failed => ka.dbus_client = bound
    /\ failed \subseteq 1 .. watches
    /\ present \subseteq Clients
    /\ matches \subseteq Rules
    /\ \A r \in matches : r.id <= watches
    /\ toBus \in Seq(GoodRequests(ka, watches))
    /\ fromBus \in Seq(GoodMessages(ka, watches, present, failed))

\* Sequences over a set are sequences over a larger one.
LEMMA SeqOfSubset ==
    ASSUME NEW A, NEW B, NEW s \in Seq(A), \A x \in A : x \in B
    PROVE  s \in Seq(B)
  OBVIOUS

\* Appending keeps a sequence over its set.
LEMMA AppendIn ==
    ASSUME NEW A, NEW s \in Seq(A), NEW x \in A PROVE Append(s, x) \in Seq(A)
  OBVIOUS

\* What a call of the object may do to its subscription.
Keeps(k, n) == n.dbus_client = k.dbus_client /\ n.subscription_id = k.subscription_id
Drops(n) == n.dbus_client = NoClient /\ n.subscription_id = 0

\* _notify_alive restores the object part from everything but the flag.
LEMMA NotifyRestores ==
    ASSUME NEW k, NEW v, NEW b, NEW w, k \in KeepAlives, v \in BOOLEAN,
           b \in Clients \cup {NoClient}, w \in 0 .. MaxWatches,
           k.dbus_client = NoClient => k.subscription_id = 0 /\ k.confirm_call = 0,
           k.dbus_client # NoClient => k.dbus_client = b /\ k.subscription_id = w /\ w # 0,
           k.confirm_call \in {0, k.subscription_id},
           k.disarmed => k.dbus_client = NoClient,
           ~k.disarmed => (k.dbus_client_watching <=> b # NoClient)
    PROVE  /\ Obj(NotifyAlive(k, v), v, b, w)
           /\ Keeps(k, NotifyAlive(k, v))
           /\ NotifyAlive(k, v).disarmed = k.disarmed
  <1> DEFINE n == NotifyAlive(k, v)
  <1>0. /\ IsAlive(k, v) \in BOOLEAN /\ AsksOwner(k) \in BOOLEAN
        /\ k.dbus_client_confirmed \/ AsksOwner(k) \in BOOLEAN
    BY DEF IsAlive, AsksOwner, KeepAlives
  <1>1. CASE k.disarmed
    BY <1>1 DEF NotifyAlive, Obj, Keeps
  <1>2. CASE ~k.disarmed
    <2>1. n = [k EXCEPT !.alive = IsAlive(k, v),
                   !.dbus_client_confirmed = @ \/ AsksOwner(k),
                   !.confirm_call = IF AsksOwner(k) THEN k.subscription_id ELSE @]
      BY <1>2 DEF NotifyAlive
    <2>2. n \in KeepAlives
      BY <2>1, <1>0 DEF KeepAlives
    <2>3. /\ n.alive = IsAlive(k, v)
          /\ n.disarmed = k.disarmed /\ n.armed = k.armed
          /\ n.dbus_client = k.dbus_client /\ n.subscription_id = k.subscription_id
          /\ n.dbus_client_watching = k.dbus_client_watching
          /\ n.connection = k.connection
          /\ n.connection_was_visible = k.connection_was_visible
          /\ n.confirm_call = IF AsksOwner(k) THEN k.subscription_id ELSE k.confirm_call
      BY <2>1 DEF KeepAlives
    <2>4. IsAlive(n, v) = IsAlive(k, v)
      BY <2>3 DEF IsAlive
    <2>5. n.confirm_call \in {0, n.subscription_id}
      BY <2>3
    <2>6. n.dbus_client = NoClient => n.subscription_id = 0 /\ n.confirm_call = 0
      BY <2>3
    <2> HIDE DEF n
    <2>7. Obj(n, v, b, w)
      BY <2>2, <2>3, <2>4, <2>5, <2>6, <1>2 DEF Obj
    <2> QED BY <2>3, <2>7 DEF Keeps, n
  <1> QED BY <1>1, <1>2

\* cleanup_dbus_watch drops subscription and call and changes nothing else
\* the invariant is about.
LEMMA CleanupDrops ==
    ASSUME NEW k \in KeepAlives
    PROVE  /\ CleanupDbusWatch(k) \in KeepAlives
           /\ Drops(CleanupDbusWatch(k))
           /\ CleanupDbusWatch(k).confirm_call = 0
           /\ CleanupDbusWatch(k).disarmed = k.disarmed
           /\ CleanupDbusWatch(k).alive = k.alive
           /\ CleanupDbusWatch(k).dbus_client_watching = k.dbus_client_watching
  <1>1. 0 \in 0 .. MaxWatches BY ClientAssumption
  <1>2. CleanupDbusWatch(k) \in KeepAlives BY <1>1 DEF CleanupDbusWatch, KeepAlives
  <1> QED BY <1>2 DEF CleanupDbusWatch, KeepAlives, Drops

\* A client that has gone is no longer watched; the object stays consistent.
LEMMA ClientGoneObj ==
    ASSUME NEW k, NEW v, NEW b, NEW w, Obj(k, v, b, w)
    PROVE  /\ Obj(ClientGone(k, v), v, b, w)
           /\ Drops(ClientGone(k, v))
           /\ ClientGone(k, v).disarmed = k.disarmed
  <1> DEFINE c == CleanupDbusWatch(k)
  <1>1. k \in KeepAlives BY DEF Obj
  <1>2. /\ c \in KeepAlives /\ Drops(c) /\ c.confirm_call = 0 /\ c.disarmed = k.disarmed
        /\ c.dbus_client_watching = k.dbus_client_watching
    BY <1>1, CleanupDrops
  <1> HIDE DEF c
  <1>3. /\ Obj(NotifyAlive(c, v), v, b, w) /\ Keeps(c, NotifyAlive(c, v))
        /\ NotifyAlive(c, v).disarmed = c.disarmed
    <2>1. /\ v \in BOOLEAN /\ b \in Clients \cup {NoClient} /\ w \in 0 .. MaxWatches
          /\ ~c.disarmed => (c.dbus_client_watching <=> b # NoClient)
          /\ c.dbus_client = NoClient /\ c.subscription_id = 0 /\ c.confirm_call = 0
      BY <1>2 DEF Obj, Drops
    <2> QED BY <1>2, <2>1, NotifyRestores
  <1>4. NotifyAlive(c, v) = ClientGone(k, v) BY DEF c, ClientGone
  <1> QED BY <1>2, <1>3, <1>4 DEF Keeps, Drops

\* Arming keeps the subscription.
LEMMA ArmObj ==
    ASSUME NEW k, NEW v, NEW b, NEW w, Obj(k, v, b, w)
    PROVE  /\ Obj(Arm(k, v), v, b, w) /\ Keeps(k, Arm(k, v))
           /\ Arm(k, v).disarmed = k.disarmed
  <1>1. CASE k.armed BY <1>1 DEF Arm, Keeps
  <1>2. CASE ~k.armed
    <2> DEFINE c == [k EXCEPT !.armed = TRUE]
    <2>1. /\ c \in KeepAlives /\ Keeps(k, c) /\ c.confirm_call = k.confirm_call
          /\ c.disarmed = k.disarmed /\ c.dbus_client_watching = k.dbus_client_watching
      BY DEF Obj, KeepAlives, Keeps
    <2>2. Arm(k, v) = NotifyAlive(c, v) BY <1>2 DEF Arm
    <2> HIDE DEF c
    <2>3. /\ Obj(NotifyAlive(c, v), v, b, w) /\ Keeps(c, NotifyAlive(c, v))
          /\ NotifyAlive(c, v).disarmed = c.disarmed
      <3>1. /\ v \in BOOLEAN /\ b \in Clients \cup {NoClient} /\ w \in 0 .. MaxWatches
            /\ c.dbus_client = NoClient => c.subscription_id = 0 /\ c.confirm_call = 0
            /\ c.dbus_client # NoClient => c.dbus_client = b /\ c.subscription_id = w /\ w # 0
            /\ c.confirm_call \in {0, c.subscription_id}
            /\ c.disarmed => c.dbus_client = NoClient
            /\ ~c.disarmed => (c.dbus_client_watching <=> b # NoClient)
        BY <2>1 DEF Obj, Keeps
      <3> QED BY <2>1, <3>1, NotifyRestores
    <2> QED BY <2>1, <2>2, <2>3 DEF Keeps
  <1> QED BY <1>1, <1>2

\* Watching the profile keeps the subscription.
LEMMA WatchVisibleObj ==
    ASSUME NEW k, NEW v, NEW b, NEW w, Obj(k, v, b, w), NEW watch \in BOOLEAN
    PROVE  /\ Obj(WatchVisible(k, watch, v), v, b, w)
           /\ Keeps(k, WatchVisible(k, watch, v))
           /\ WatchVisible(k, watch, v).disarmed = k.disarmed
  <1>1. CASE k.connection = watch BY <1>1 DEF WatchVisible, Keeps
  <1>2. CASE k.connection # watch
    <2> DEFINE c == SetConnection(k, watch, v)
    <2>1. /\ c \in KeepAlives /\ Keeps(k, c) /\ c.confirm_call = k.confirm_call
          /\ c.disarmed = k.disarmed /\ c.dbus_client_watching = k.dbus_client_watching
      <3>1. v \in BOOLEAN /\ k \in KeepAlives BY DEF Obj
      <3>2. (watch /\ ~k.disarmed) \in BOOLEAN OBVIOUS
      <3>3. (IF watch /\ ~k.disarmed THEN v ELSE k.connection_was_visible) \in BOOLEAN
        BY <3>1 DEF KeepAlives
      <3>4. c = [k EXCEPT !.connection = watch /\ ~k.disarmed,
                   !.connection_was_visible =
                        IF watch /\ ~k.disarmed THEN v ELSE @]
        BY <1>2 DEF SetConnection
      <3> HIDE DEF c
      <3> QED BY <3>1, <3>2, <3>3, <3>4 DEF KeepAlives, Keeps
    <2>2. WatchVisible(k, watch, v) = NotifyAlive(c, v) BY <1>2 DEF WatchVisible
    <2> HIDE DEF c
    <2>3. /\ Obj(NotifyAlive(c, v), v, b, w) /\ Keeps(c, NotifyAlive(c, v))
          /\ NotifyAlive(c, v).disarmed = c.disarmed
      <3>1. /\ v \in BOOLEAN /\ b \in Clients \cup {NoClient} /\ w \in 0 .. MaxWatches
            /\ c.dbus_client = NoClient => c.subscription_id = 0 /\ c.confirm_call = 0
            /\ c.dbus_client # NoClient => c.dbus_client = b /\ c.subscription_id = w /\ w # 0
            /\ c.confirm_call \in {0, c.subscription_id}
            /\ c.disarmed => c.dbus_client = NoClient
            /\ ~c.disarmed => (c.dbus_client_watching <=> b # NoClient)
        BY <2>1 DEF Obj, Keeps
      <3> QED BY <2>1, <3>1, NotifyRestores
    <2> QED BY <2>1, <2>2, <2>3 DEF Keeps
  <1> QED BY <1>1, <1>2

\* The visibility changes to v while the object watches the profile.
LEMMA FlagsChangedObj ==
    ASSUME NEW k, NEW u, NEW v \in BOOLEAN, NEW b, NEW w, Obj(k, u, b, w)
    PROVE  /\ Obj(FlagsChanged(k, v), v, b, w) /\ Keeps(k, FlagsChanged(k, v))
           /\ FlagsChanged(k, v).disarmed = k.disarmed
  <1> DEFINE c == [k EXCEPT !.connection_was_visible = @ \/ v]
  <1>1. /\ c \in KeepAlives /\ Keeps(k, c) /\ c.confirm_call = k.confirm_call
        /\ c.disarmed = k.disarmed /\ c.dbus_client_watching = k.dbus_client_watching
    <2>1. (k.connection_was_visible \/ v) \in BOOLEAN OBVIOUS
    <2> QED BY <2>1 DEF Obj, KeepAlives, Keeps
  <1>2. FlagsChanged(k, v) = NotifyAlive(c, v) BY DEF FlagsChanged
  <1> HIDE DEF c
  <1>3. /\ Obj(NotifyAlive(c, v), v, b, w) /\ Keeps(c, NotifyAlive(c, v))
        /\ NotifyAlive(c, v).disarmed = c.disarmed
    <2>1. /\ b \in Clients \cup {NoClient} /\ w \in 0 .. MaxWatches
          /\ c.dbus_client = NoClient => c.subscription_id = 0 /\ c.confirm_call = 0
          /\ c.dbus_client # NoClient => c.dbus_client = b /\ c.subscription_id = w /\ w # 0
          /\ c.confirm_call \in {0, c.subscription_id}
          /\ c.disarmed => c.dbus_client = NoClient
          /\ ~c.disarmed => (c.dbus_client_watching <=> b # NoClient)
      BY <1>1 DEF Obj, Keeps
    <2> QED BY <1>1, <2>1, NotifyRestores
  <1> QED BY <1>1, <1>2, <1>3 DEF Keeps

\* Disarming drops the subscription and leaves the flag.
LEMMA DisarmObj ==
    ASSUME NEW k, NEW v, NEW b, NEW w, Obj(k, v, b, w)
    PROVE  /\ Obj(Disarm(k), v, b, w) /\ Drops(Disarm(k)) /\ Disarm(k).disarmed
           /\ Disarm(k).alive = k.alive
  <1> DEFINE c == [k EXCEPT !.disarmed = TRUE, !.connection = FALSE]
  <1>1. c \in KeepAlives /\ c.disarmed /\ c.alive = k.alive BY DEF Obj, KeepAlives
  <1>2. Disarm(k) = CleanupDbusWatch(c) BY DEF Disarm
  <1> HIDE DEF c
  <1>3. /\ CleanupDbusWatch(c) \in KeepAlives /\ Drops(CleanupDbusWatch(c))
        /\ CleanupDbusWatch(c).confirm_call = 0 /\ CleanupDbusWatch(c).disarmed = c.disarmed
        /\ CleanupDbusWatch(c).alive = c.alive
    BY <1>1, CleanupDrops
  <1> QED BY <1>1, <1>2, <1>3 DEF Obj, Drops

\* Binding to a client replaces the subscription by a new one.
LEMMA WatchClientObj ==
    ASSUME NEW k, NEW v, NEW b, NEW w, Obj(k, v, b, w), ~k.disarmed,
           NEW client \in Clients \cup {NoClient}, w < MaxWatches
    PROVE  LET n == SetDbusClientWatch(k, client, w + 1, v) IN
           /\ Obj(n, v, client, w + 1) /\ ~n.disarmed
           /\ n.dbus_client = client
           /\ n.subscription_id = IF client = NoClient THEN 0 ELSE w + 1
  <1> DEFINE c == CleanupDbusWatch(k)
             n == SetDbusClientWatch(k, client, w + 1, v)
             d == IF client # NoClient
                  THEN [c EXCEPT !.dbus_client = client,
                               !.dbus_client_watching = TRUE,
                               !.dbus_client_confirmed = FALSE,
                               !.subscription_id = w + 1]
                  ELSE [c EXCEPT !.dbus_client_watching = FALSE]
  <1>1. k \in KeepAlives /\ w \in 0 .. MaxWatches /\ w + 1 \in 0 .. MaxWatches
        /\ v \in BOOLEAN /\ w + 1 \in 1 .. (w + 1) /\ 0 # w + 1
    BY ClientAssumption DEF Obj
  <1>2. /\ c \in KeepAlives /\ Drops(c) /\ c.confirm_call = 0 /\ ~c.disarmed
    BY <1>1, CleanupDrops
  <1>3. n = NotifyAlive(d, v) BY DEF SetDbusClientWatch
  <1> HIDE DEF c, n
  <1>4. /\ d \in KeepAlives /\ d.dbus_client = client /\ ~d.disarmed
        /\ d.confirm_call = 0
        /\ d.subscription_id = IF client = NoClient THEN 0 ELSE w + 1
        /\ d.dbus_client_watching <=> client # NoClient
    <2>1. CASE client # NoClient
      BY <2>1, <1>1, <1>2 DEF KeepAlives, Drops
    <2>2. CASE client = NoClient
      BY <2>2, <1>1, <1>2 DEF KeepAlives, Drops
    <2> QED BY <2>1, <2>2
  <1> HIDE DEF d
  <1>5. /\ Obj(NotifyAlive(d, v), v, client, w + 1) /\ Keeps(d, NotifyAlive(d, v))
        /\ NotifyAlive(d, v).disarmed = d.disarmed
    <2>1. /\ d.dbus_client = NoClient => d.subscription_id = 0 /\ d.confirm_call = 0
          /\ d.dbus_client # NoClient => d.dbus_client = client /\ d.subscription_id = w + 1 /\ w + 1 # 0
          /\ d.confirm_call \in {0, d.subscription_id}
          /\ d.disarmed => d.dbus_client = NoClient
          /\ ~d.disarmed => (d.dbus_client_watching <=> client # NoClient)
      BY <1>1, <1>4
    <2> QED BY <1>1, <1>4, <2>1, NotifyRestores
  <1>6. /\ Obj(n, v, client, w + 1) /\ ~n.disarmed /\ n.dbus_client = client
        /\ n.subscription_id = IF client = NoClient THEN 0 ELSE w + 1
    BY <1>3, <1>4, <1>5 DEF Keeps
  <1> QED BY <1>6 DEF n

-----------------------------------------------------------------------------
(***************************************************************************)
(* What is sent names the subscription and the client before or after the  *)
(* call, so that it is good for the object afterwards: the old number is   *)
(* kept with its client, dropped, or smaller than the new one.             *)
(***************************************************************************)
LEMMA SendsGood ==
    ASSUME NEW k, NEW v, NEW b, NEW w, Obj(k, v, b, w),
           NEW n, NEW u, NEW c, NEW x, Obj(n, u, c, x), w <= x,
           n.dbus_client # NoClient /\ n.subscription_id = k.subscription_id
               => n.dbus_client = k.dbus_client
    PROVE  Sends(k, n) \in Seq(GoodRequests(n, x))
  <1> DEFINE A == IF k.dbus_client # NoClient /\ n.subscription_id # k.subscription_id
                  THEN <<Request("RemoveMatch", k.dbus_client, k.subscription_id)>> ELSE << >>
             B == IF n.dbus_client # NoClient /\ n.subscription_id # k.subscription_id
                  THEN <<Request("AddMatch", n.dbus_client, n.subscription_id)>> ELSE << >>
             C == IF n.dbus_client # NoClient /\ n.confirm_call # 0 /\ n.confirm_call # k.confirm_call
                  THEN <<Request("GetNameOwner", n.dbus_client, n.confirm_call)>> ELSE << >>
             G == GoodRequests(n, x)
  <1>0. /\ k \in KeepAlives /\ n \in KeepAlives /\ w \in 0 .. MaxWatches /\ x \in 0 .. MaxWatches
        /\ k.dbus_client # NoClient => k.subscription_id \in 1 .. w
        /\ n.dbus_client # NoClient => n.subscription_id \in 1 .. x
        /\ n.confirm_call \in {0, n.subscription_id}
        /\ MaxWatches \in Nat
    BY ClientAssumption DEF Obj
  <1>1. A \in Seq(G)
    <2>1. CASE k.dbus_client # NoClient /\ n.subscription_id # k.subscription_id
      <3>1. Request("RemoveMatch", k.dbus_client, k.subscription_id) \in G
        BY <1>0, <2>1 DEF GoodRequests, Requests, Request, Ids, KeepAlives
      <3> QED BY <3>1, <2>1
    <2> QED BY <2>1
  <1>2. B \in Seq(G)
    <2>1. CASE n.dbus_client # NoClient /\ n.subscription_id # k.subscription_id
      <3>1. Request("AddMatch", n.dbus_client, n.subscription_id) \in G
        BY <1>0, <2>1 DEF GoodRequests, Requests, Request, Ids, KeepAlives
      <3> QED BY <3>1, <2>1
    <2> QED BY <2>1
  <1>3. C \in Seq(G)
    <2>1. CASE n.dbus_client # NoClient /\ n.confirm_call # 0 /\ n.confirm_call # k.confirm_call
      <3>1. Request("GetNameOwner", n.dbus_client, n.confirm_call) \in G
        BY <1>0, <2>1 DEF GoodRequests, Requests, Request, Ids, KeepAlives
      <3> QED BY <3>1, <2>1
    <2> QED BY <2>1
  <1>4. Sends(k, n) = (A \o B) \o C BY DEF Sends
  <1> HIDE DEF A, B, C, G
  <1>5. (A \o B) \o C \in Seq(G) BY <1>1, <1>2, <1>3
  <1> QED BY <1>4, <1>5 DEF G

\* Messages under way stay harmless when the object keeps or drops its
\* subscription.
LEMMA OldStaysGood ==
    ASSUME NEW k, NEW n, NEW w \in Nat, NEW x \in Nat, w <= x, NEW p, NEW f,
           \/ Keeps(k, n)
           \/ Drops(n)
           \/ w < x /\ n.subscription_id = x
    PROVE  /\ \A q \in GoodRequests(k, w) : q \in GoodRequests(n, x)
           /\ \A q \in GoodMessages(k, w, p, f) : q \in GoodMessages(n, x, p, f)
  <1>1. ASSUME NEW q \in GoodRequests(k, w) PROVE q \in GoodRequests(n, x)
    <2>1. /\ q \in Requests /\ q.id \in 1 .. MaxWatches /\ q.id <= w
          /\ q.id = k.subscription_id => q.client = k.dbus_client
      BY DEF GoodRequests, Requests, Ids
    <2>2. q.id <= x BY <2>1, ClientAssumption
    <2>3. q.id = n.subscription_id => q.client = n.dbus_client
      BY <2>1, ClientAssumption DEF Keeps, Drops
    <2> QED BY <2>1, <2>2, <2>3 DEF GoodRequests
  <1>2. ASSUME NEW q \in GoodMessages(k, w, p, f) PROVE q \in GoodMessages(n, x, p, f)
    <2>1. /\ q \in Messages /\ q.id \in 1 .. MaxWatches /\ q.id <= w
          /\ q.m # "NameOwnerChanged" /\ q.id = k.subscription_id => q.client = k.dbus_client
          /\ q.m # "owner" => q.client \notin p \/ (q.m = "error" /\ q.id \in f)
      BY DEF GoodMessages, Messages, Ids
    <2>2. q.id <= x BY <2>1, ClientAssumption
    <2>3. q.m # "NameOwnerChanged" /\ q.id = n.subscription_id => q.client = n.dbus_client
      BY <2>1, ClientAssumption DEF Keeps, Drops
    <2> QED BY <2>1, <2>2, <2>3 DEF GoodMessages
  <1> QED BY <1>1, <1>2

\* A new object, watching nothing, with an idle bus.
LEMMA InitInv == Init => Inv
  <1> SUFFICES ASSUME Init PROVE Inv OBVIOUS
  <1>1. 0 \in 0 .. MaxWatches BY ClientAssumption
  <1>2. NewKeepAlive \in KeepAlives BY <1>1 DEF NewKeepAlive, KeepAlives
  <1>3. NewKeepAlive.alive = TRUE /\ IsAlive(NewKeepAlive, visible) = TRUE
    BY DEF NewKeepAlive, IsAlive
  <1>4. Obj(ka, visible, bound, watches)
    BY <1>1, <1>2, <1>3 DEF Init, Obj, NewKeepAlive
  <1>5. bound \notin present BY ClientAssumption DEF Init
  <1> QED BY <1>4, <1>5 DEF Init, Inv

\* A step of the object, with w watches and client b afterwards, that leaves
\* the bus otherwise alone keeps the bus part.
LEMMA BecomesKeepsBus ==
    ASSUME Inv, NEW n, NEW v, NEW b, NEW w, Obj(n, v, b, w), watches <= w,
           Becomes(n), watches' = w, matches' = matches, present' = present, failed' = failed,
           \/ Keeps(ka, n)
           \/ Drops(n)
           \/ watches < w /\ n.subscription_id = w,
           NEW f \in Seq(GoodMessages(ka, watches, present, failed)), fromBus' = f
    PROVE  /\ present' \subseteq Clients /\ failed' \subseteq 1 .. watches'
           /\ matches' \subseteq Rules
           /\ \A r \in matches' : r.id <= watches'
           /\ toBus' \in Seq(GoodRequests(ka', watches'))
           /\ fromBus' \in Seq(GoodMessages(ka', watches', present', failed'))
  <1>0. watches \in Nat /\ w \in Nat /\ ka' = n /\ toBus' = toBus \o Sends(ka, n)
        /\ Obj(ka, visible, bound, watches)
    BY ClientAssumption DEF Inv, Obj, Becomes
  <1>1. n.dbus_client # NoClient /\ n.subscription_id = ka.subscription_id
            => n.dbus_client = ka.dbus_client
    <2>1. ka.subscription_id \in 0 .. watches
      BY <1>0, ClientAssumption DEF Obj
    <2> QED BY <2>1, <1>0 DEF Keeps, Drops
  <1>2. Sends(ka, n) \in Seq(GoodRequests(n, w))
    BY <1>0, <1>1, SendsGood
  <1>3. /\ \A q \in GoodRequests(ka, watches) : q \in GoodRequests(n, w)
        /\ \A q \in GoodMessages(ka, watches, present, failed) : q \in GoodMessages(n, w, present, failed)
    BY <1>0, OldStaysGood
  <1>4. toBus \in Seq(GoodRequests(n, w))
    BY <1>3, SeqOfSubset DEF Inv
  <1>5. toBus \o Sends(ka, n) \in Seq(GoodRequests(n, w))
    BY <1>2, <1>4
  <1>6. f \in Seq(GoodMessages(n, w, present, failed))
    BY <1>3, SeqOfSubset
  <1>7. \A r \in matches : r.id <= w
    <2> TAKE r \in matches
    <2>1. r.id \in 1 .. MaxWatches BY DEF Inv, Rules, Ids
    <2> QED BY <2>1, <1>0 DEF Inv
  <1>8. failed \subseteq 1 .. w
    BY <1>0 DEF Inv
  <1> QED BY <1>0, <1>5, <1>6, <1>7, <1>8 DEF Inv

\* Every action keeps the invariant.
LEMMA Step == Inv /\ [Next]_vars => Inv'
  <1> SUFFICES ASSUME Inv, [Next]_vars PROVE Inv' OBVIOUS
  <1>o. Obj(ka, visible, bound, watches) /\ watches \in Nat /\ watches <= watches
        /\ fromBus \in Seq(GoodMessages(ka, watches, present, failed))
    BY ClientAssumption DEF Inv, Obj
  <1>1. CASE ArmIt
    <2> PICK n : n = Arm(ka, visible) OBVIOUS
    <2>1. Obj(n, visible, bound, watches) /\ Keeps(ka, n) /\ n.disarmed = ka.disarmed
      BY <1>o, ArmObj
    <2>2. Becomes(n) /\ Unbound BY <1>1 DEF ArmIt
    <2>3. /\ present' \subseteq Clients /\ failed' \subseteq 1 .. watches' /\ matches' \subseteq Rules
          /\ \A r \in matches' : r.id <= watches'
          /\ toBus' \in Seq(GoodRequests(ka', watches'))
          /\ fromBus' \in Seq(GoodMessages(ka', watches', present', failed'))
      BY <1>o, <2>1, <2>2, BecomesKeepsBus DEF Unbound
    <2> QED BY <2>1, <2>2, <2>3 DEF Inv, Unbound, Becomes, Keeps
  <1>2. CASE DisarmIt
    <2> PICK n : n = Disarm(ka) OBVIOUS
    <2>1. Obj(n, visible, bound, watches) /\ Drops(n) /\ n.disarmed
      BY <1>o, DisarmObj
    <2>2. Becomes(n) /\ Unbound BY <1>2 DEF DisarmIt
    <2>3. /\ present' \subseteq Clients /\ failed' \subseteq 1 .. watches' /\ matches' \subseteq Rules
          /\ \A r \in matches' : r.id <= watches'
          /\ toBus' \in Seq(GoodRequests(ka', watches'))
          /\ fromBus' \in Seq(GoodMessages(ka', watches', present', failed'))
      BY <1>o, <2>1, <2>2, BecomesKeepsBus DEF Unbound
    <2> QED BY <2>1, <2>2, <2>3 DEF Inv, Unbound, Becomes
  <1>3. ASSUME NEW watch \in BOOLEAN, WatchProfile(watch) PROVE Inv'
    <2> PICK n : n = WatchVisible(ka, watch, visible) OBVIOUS
    <2>1. Obj(n, visible, bound, watches) /\ Keeps(ka, n) /\ n.disarmed = ka.disarmed
      BY <1>o, WatchVisibleObj
    <2>2. Becomes(n) /\ Unbound BY <1>3 DEF WatchProfile
    <2>3. /\ present' \subseteq Clients /\ failed' \subseteq 1 .. watches' /\ matches' \subseteq Rules
          /\ \A r \in matches' : r.id <= watches'
          /\ toBus' \in Seq(GoodRequests(ka', watches'))
          /\ fromBus' \in Seq(GoodMessages(ka', watches', present', failed'))
      BY <1>o, <2>1, <2>2, BecomesKeepsBus DEF Unbound
    <2> QED BY <2>1, <2>2, <2>3 DEF Inv, Unbound, Becomes, Keeps
  <1>4. ASSUME NEW client \in Clients \cup {NoClient}, WatchClient(client) PROVE Inv'
    <2> PICK n : n = SetDbusClientWatch(ka, client, watches + 1, visible) OBVIOUS
    <2>1. /\ Becomes(n) /\ watches < MaxWatches /\ watches' = watches + 1
          /\ visible' = visible /\ present' = present /\ matches' = matches /\ failed' = failed
          /\ fromBus' = fromBus
          /\ bound' = IF ka.disarmed THEN bound ELSE client
      BY <1>4 DEF WatchClient
    <2>a. CASE ka.disarmed
      <3>1. n = ka BY <2>a DEF SetDbusClientWatch
      <3>2. Obj(n, visible, bound, watches + 1) /\ Keeps(ka, n)
        <4>1. ka.dbus_client = NoClient /\ watches + 1 \in 0 .. MaxWatches
          BY <2>a, <1>o, <2>1, ClientAssumption DEF Obj
        <4> QED BY <3>1, <4>1, <1>o DEF Obj, Keeps
      <3>3. watches <= watches + 1 BY <1>o
      <3>4. /\ present' \subseteq Clients /\ failed' \subseteq 1 .. watches' /\ matches' \subseteq Rules
            /\ \A r \in matches' : r.id <= watches'
            /\ toBus' \in Seq(GoodRequests(ka', watches'))
            /\ fromBus' \in Seq(GoodMessages(ka', watches', present', failed'))
        BY <1>o, <2>1, <3>2, <3>3, BecomesKeepsBus
      <3> QED BY <2>a, <2>1, <3>1, <3>2, <3>4 DEF Inv, Becomes
    <2>b. CASE ~ka.disarmed
      <3>2. /\ Obj(n, visible, client, watches + 1) /\ ~n.disarmed /\ n.dbus_client = client
            /\ n.subscription_id = IF client = NoClient THEN 0 ELSE watches + 1
        BY <2>b, <1>o, <2>1, WatchClientObj
      <3>3. watches <= watches + 1 /\ watches < watches + 1 BY <1>o
      <3>4. Drops(n) \/ (watches < watches + 1 /\ n.subscription_id = watches + 1)
        <4>1. CASE client = NoClient BY <3>2, <4>1 DEF Drops
        <4>2. CASE client # NoClient BY <3>2, <3>3, <4>2
        <4> QED BY <4>1, <4>2
      <3>5. /\ present' \subseteq Clients /\ failed' \subseteq 1 .. watches' /\ matches' \subseteq Rules
            /\ \A r \in matches' : r.id <= watches'
            /\ toBus' \in Seq(GoodRequests(ka', watches'))
            /\ fromBus' \in Seq(GoodMessages(ka', watches', present', failed'))
        BY <1>o, <2>1, <3>2, <3>3, <3>4, BecomesKeepsBus
      <3> QED BY <2>b, <2>1, <3>2, <3>5 DEF Inv, Becomes
    <2> QED BY <2>a, <2>b
  <1>5. CASE VisibilityChanges
    <2>0. visible \in BOOLEAN BY <1>o DEF Obj
    <2>1. visible' = ~visible /\ UNCHANGED <<watches, bound, failed, present, matches, fromBus>>
      BY <1>5 DEF VisibilityChanges
    <2>a. CASE ka.connection
      <3> PICK n : n = FlagsChanged(ka, ~visible) OBVIOUS
      <3> PICK v \in BOOLEAN : v = ~visible OBVIOUS
      <3>1. Obj(n, v, bound, watches) /\ Keeps(ka, n) /\ n.disarmed = ka.disarmed
        BY <1>o, FlagsChangedObj
      <3>2. Becomes(n) BY <1>5, <2>a DEF VisibilityChanges
      <3>3. /\ present' \subseteq Clients /\ failed' \subseteq 1 .. watches' /\ matches' \subseteq Rules
            /\ \A r \in matches' : r.id <= watches'
            /\ toBus' \in Seq(GoodRequests(ka', watches'))
            /\ fromBus' \in Seq(GoodMessages(ka', watches', present', failed'))
        BY <1>o, <2>1, <3>1, <3>2, BecomesKeepsBus
      <3> QED BY <2>1, <3>1, <3>2, <3>3 DEF Inv, Becomes, Keeps
    <2>b. CASE ~ka.connection
      <3>1. ka' = ka /\ toBus' = toBus BY <1>5, <2>b DEF VisibilityChanges
      <3>2. IsAlive(ka, ~visible) = IsAlive(ka, visible) BY <2>b DEF IsAlive
      <3>3. Obj(ka, ~visible, bound, watches) BY <3>2, <2>0, <1>o DEF Obj
      <3> QED BY <2>1, <3>1, <3>3 DEF Inv
    <2> QED BY <2>a, <2>b
  <1>6. ASSUME NEW client \in Clients, Leaves(client) PROVE Inv'
    <2>1. /\ present' = present \ {client} /\ UNCHANGED <<ka, visible, watches, bound, failed, toBus, matches>>
      BY <1>6 DEF Leaves
    <2>2. \A q \in GoodMessages(ka, watches, present, failed) : q \in GoodMessages(ka, watches, present', failed)
      BY <2>1 DEF GoodMessages
    <2>3. fromBus \in Seq(GoodMessages(ka, watches, present', failed))
      BY <1>o, <2>2, SeqOfSubset
    <2>4. fromBus' \in Seq(GoodMessages(ka, watches, present', failed))
      <3>1. CASE \E r \in matches : r.client = client
        <4> PICK x : x = (CHOOSE r \in matches : r.client = client) OBVIOUS
        <4>1. x \in matches /\ x.client = client BY <3>1
        <4>2. x.id \in Ids /\ x.id <= watches BY <4>1 DEF Inv, Rules
        <4>3. fromBus' = Append(fromBus, Request("NameOwnerChanged", client, x.id))
          BY <1>6, <3>1 DEF Leaves
        <4>4. Request("NameOwnerChanged", client, x.id) \in GoodMessages(ka, watches, present', failed)
          BY <2>1, <4>2 DEF Request, GoodMessages, Messages
        <4> QED BY <2>3, <4>3, <4>4
      <3>2. CASE ~ \E r \in matches : r.client = client
        BY <1>6, <2>3, <3>2 DEF Leaves
      <3> QED BY <3>1, <3>2
    <2> QED BY <2>1, <2>4, <1>o DEF Inv
  <1>7. CASE DaemonHandles
    <2>1. /\ toBus # << >> /\ toBus' = Tail(toBus)
          /\ UNCHANGED <<ka, visible, watches, bound, present>>
      BY <1>7 DEF DaemonHandles
    <2> PICK q : q = Head(toBus) OBVIOUS
    <2>2. q \in GoodRequests(ka, watches) /\ Tail(toBus) \in Seq(GoodRequests(ka, watches))
      BY <2>1 DEF Inv
    <2>3. /\ q \in Requests /\ q.id <= watches /\ q.client \in Clients /\ q.id \in Ids
          /\ q.id = ka.subscription_id => q.client = ka.dbus_client
      BY <2>2 DEF GoodRequests, Requests
    <2>4. matches' \subseteq matches \cup {[client |-> q.client, id |-> q.id]}
      BY <1>7 DEF DaemonHandles
    <2>5. matches' \subseteq Rules /\ \A r \in matches' : r.id <= watches
      <3>1. [client |-> q.client, id |-> q.id] \in Rules
            /\ [client |-> q.client, id |-> q.id].id <= watches
        BY <2>3 DEF Rules
      <3> QED BY <2>4, <3>1 DEF Inv
    <2>6. /\ fromBus' \in Seq(GoodMessages(ka, watches, present, failed'))
          /\ failed \subseteq failed' /\ failed' \subseteq failed \cup {q.id}
      <3>1. CASE q.m # "GetNameOwner" BY <1>7, <3>1, <1>o DEF DaemonHandles
      <3>2. CASE q.m = "GetNameOwner"
        <4>1. PICK m \in Answers(q) :
                 /\ fromBus' = Append(fromBus, Request(m, q.client, q.id))
                 /\ failed' = IF m = "error" THEN failed \cup {q.id} ELSE failed
          BY <1>7, <3>2 DEF DaemonHandles
        <4>2. failed \subseteq failed' /\ failed' \subseteq failed \cup {q.id} BY <4>1
        <4>3. Request(m, q.client, q.id) \in GoodMessages(ka, watches, present, failed')
          BY <2>3, <4>1 DEF Answers, Request, GoodMessages, Messages
        <4>4. \A x \in GoodMessages(ka, watches, present, failed) :
                    x \in GoodMessages(ka, watches, present, failed')
          BY <4>2 DEF GoodMessages
        <4>5. fromBus \in Seq(GoodMessages(ka, watches, present, failed'))
          BY <1>o, <4>4, SeqOfSubset
        <4> PICK a : a = Request(m, q.client, q.id) OBVIOUS
        <4>6. Append(fromBus, a) \in Seq(GoodMessages(ka, watches, present, failed'))
          BY <4>3, <4>5, AppendIn
        <4> QED BY <4>1, <4>2, <4>6, Zenon
      <3> QED BY <3>1, <3>2
    <2>7. failed' \subseteq 1 .. watches
      BY <2>3, <2>6, ClientAssumption DEF Inv, Ids
    <2> QED BY <2>1, <2>2, <2>5, <2>6, <2>7, <1>o DEF Inv
  <1>8. CASE Dispatch
    <2>1. /\ fromBus # << >> /\ fromBus' = Tail(fromBus)
          /\ NameOwnerChangedCb(Head(fromBus)) \/ GetNameOwnerCb(Head(fromBus))
          /\ UNCHANGED <<visible, watches, bound, failed, present, matches>>
      BY <1>8 DEF Dispatch
    <2> PICK q : q = Head(fromBus) OBVIOUS
    <2>2. q \in GoodMessages(ka, watches, present, failed)
          /\ Tail(fromBus) \in Seq(GoodMessages(ka, watches, present, failed))
      BY <1>o, <2>1
    <2>3. /\ q.client \in Clients /\ q.id \in 1 .. MaxWatches
          /\ q.m # "NameOwnerChanged" /\ q.id = ka.subscription_id => q.client = ka.dbus_client
          /\ q.m # "owner" => q.client \notin present \/ (q.m = "error" /\ q.id \in failed)
      BY <2>2 DEF GoodMessages, Messages, Ids
    <2>4. \/ ka' = ka /\ toBus' = toBus
          \/ /\ Becomes(ClientGone(ka, visible)) /\ ka.dbus_client # NoClient
             /\ ka.dbus_client \notin present \/ ka.subscription_id \in failed
      <3>1. CASE NameOwnerChangedCb(q)
        BY <3>1, <2>3, ClientAssumption DEF NameOwnerChangedCb, Subscribed
      <3>2. CASE GetNameOwnerCb(q)
        <4>1. ka.confirm_call = q.id => q.id = ka.subscription_id /\ q.client = ka.dbus_client
          <5>1. ka.confirm_call \in {0, ka.subscription_id} BY <1>o DEF Obj
          <5>2. q.m # "NameOwnerChanged" BY <3>2 DEF GetNameOwnerCb
          <5>3. q.id # 0 BY <2>3
          <5> QED BY <5>1, <5>2, <5>3, <2>3
        <4> QED BY <3>2, <4>1, <2>3, ClientAssumption DEF GetNameOwnerCb, NotCancelled
      <3> QED BY <3>1, <3>2, <2>1
    <2>a. CASE ka' = ka /\ toBus' = toBus
      BY <2>a, <2>1, <2>2 DEF Inv
    <2>b. CASE /\ Becomes(ClientGone(ka, visible)) /\ ka.dbus_client # NoClient
               /\ ka.dbus_client \notin present \/ ka.subscription_id \in failed
      <3> PICK n : n = ClientGone(ka, visible) OBVIOUS
      <3>1. Obj(n, visible, bound, watches) /\ Drops(n) /\ n.disarmed = ka.disarmed
        BY <1>o, ClientGoneObj
      <3>2. Becomes(n) BY <2>b
      <3>3. /\ present' \subseteq Clients /\ failed' \subseteq 1 .. watches' /\ matches' \subseteq Rules
            /\ \A r \in matches' : r.id <= watches'
            /\ toBus' \in Seq(GoodRequests(ka', watches'))
            /\ fromBus' \in Seq(GoodMessages(ka', watches', present', failed'))
        BY <1>o, <2>1, <2>2, <3>1, <3>2, BecomesKeepsBus
      <3>4. bound \notin present \/ watches \in failed BY <2>b, <1>o DEF Obj
      <3> QED BY <2>1, <3>1, <3>2, <3>3, <3>4 DEF Inv, Becomes
    <2> QED BY <2>4, <2>a, <2>b
  <1>9. CASE UNCHANGED vars
    BY <1>9 DEF Inv, vars
  <1> QED BY <1>1, <1>2, <1>3, <1>4, <1>5, <1>6, <1>7, <1>8, <1>9 DEF Next

\* The invariant of a keep-alive object (nm-keep-alive.c) with everything
\* about it that is under way on the bus.
THEOREM Invariance == Spec => []Inv
  BY InitInv, Step, PTL DEF Spec

-----------------------------------------------------------------------------
\* The objects of the model keep their types.
THEOREM TypeCorrectness == Spec => []TypeOK
  <1>1. Inv => TypeOK
    <2> SUFFICES ASSUME Inv PROVE TypeOK OBVIOUS
    <2>1. toBus \in Seq(Requests)
      <3>1. \A q \in GoodRequests(ka, watches) : q \in Requests BY DEF GoodRequests
      <3> QED BY <3>1, SeqOfSubset DEF Inv
    <2>2. fromBus \in Seq(Messages)
      <3>1. \A q \in GoodMessages(ka, watches, present, failed) : q \in Messages BY DEF GoodMessages
      <3> QED BY <3>1, SeqOfSubset DEF Inv
    <2>3. failed \subseteq Ids BY ClientAssumption DEF Inv, Obj, Ids
    <2> QED BY <2>1, <2>2, <2>3 DEF Inv, Obj, TypeOK
  <1> QED BY <1>1, Invariance, PTL

\* The alive flag is never stale (_notify_alive).
THEOREM AliveCurrent == Spec => []AliveIsCurrent
  <1>1. Inv => AliveIsCurrent BY DEF Inv, Obj, AliveIsCurrent
  <1> QED BY <1>1, Invariance, PTL

\* A client on the bus keeps the object alive, whatever the bus still delivers
\* about other clients and whatever the visibility of the profile.
THEOREM ClientKeepsAlive == Spec => []PresentClientKeepsAlive
  <1>1. Inv => PresentClientKeepsAlive
    <2> SUFFICES ASSUME Inv, ~ka.disarmed, bound # NoClient, bound \in present,
                        watches \notin failed
                 PROVE  ka.alive
      BY DEF PresentClientKeepsAlive
    <2>1. ka.dbus_client = bound /\ ka.dbus_client_watching BY DEF Inv, Obj
    <2>2. IsAlive(ka, visible) = TRUE BY <2>1 DEF IsAlive
    <2>3. ka.alive = IsAlive(ka, visible) BY DEF Inv, Obj
    <2> QED BY <2>2, <2>3
  <1> QED BY <1>1, Invariance, PTL

\* get_name_owner_cb finds the client that its call asked about.
THEOREM AnswerMatches == Spec => []AnswerFindsItsClient
  <1>1. Inv => AnswerFindsItsClient
    <2> SUFFICES ASSUME Inv, NEW i \in DOMAIN fromBus,
                        fromBus[i].m # "NameOwnerChanged", NotCancelled(fromBus[i].id)
                 PROVE  ka.dbus_client = fromBus[i].client
      BY DEF AnswerFindsItsClient
    <2> PICK q : q = fromBus[i] OBVIOUS
    <2>1. fromBus \in Seq(GoodMessages(ka, watches, present, failed)) BY DEF Inv
    <2>2. q \in GoodMessages(ka, watches, present, failed) BY <2>1
    <2>3. /\ q.id \in 1 .. MaxWatches
          /\ q.m # "NameOwnerChanged" /\ q.id = ka.subscription_id => q.client = ka.dbus_client
      BY <2>2 DEF GoodMessages, Messages, Ids
    <2>4. q.id # 0 BY <2>3
    <2>5. ka.confirm_call \in {0, ka.subscription_id} BY DEF Inv, Obj
    <2> QED BY <2>3, <2>4, <2>5 DEF NotCancelled
  <1> QED BY <1>1, Invariance, PTL

\* Nothing that is called on a disarmed object changes its alive flag.
LEMMA DisarmedStays ==
    ASSUME Inv, ka.disarmed, Next PROVE ka'.disarmed /\ ka'.alive = ka.alive
  <1>o. ka \in KeepAlives /\ Obj(ka, visible, bound, watches) BY DEF Inv, Obj
  <1>1. CASE ArmIt
    <2>1. Arm(ka, visible) = ka \/ Arm(ka, visible) = [ka EXCEPT !.armed = TRUE]
      BY <1>o DEF Arm, NotifyAlive, KeepAlives
    <2> QED BY <1>1, <2>1, <1>o DEF ArmIt, Becomes, KeepAlives
  <1>2. CASE DisarmIt
    BY <1>2, <1>o, DisarmObj DEF DisarmIt, Becomes
  <1>3. ASSUME NEW watch \in BOOLEAN, WatchProfile(watch)
        PROVE  ka'.disarmed /\ ka'.alive = ka.alive
    <2> DEFINE c == SetConnection(ka, watch, visible)
    <2>1. c.disarmed = ka.disarmed /\ c.alive = ka.alive BY <1>o DEF SetConnection, KeepAlives
    <2> HIDE DEF c
    <2>2. WatchVisible(ka, watch, visible) \in {ka, c}
      BY <2>1 DEF WatchVisible, NotifyAlive, c
    <2> QED BY <1>3, <2>1, <2>2 DEF WatchProfile, Becomes
  <1>4. ASSUME NEW client \in Clients \cup {NoClient}, WatchClient(client)
        PROVE  ka'.disarmed /\ ka'.alive = ka.alive
    BY <1>4 DEF WatchClient, Becomes, SetDbusClientWatch
  <1>5. CASE VisibilityChanges
    <2> DEFINE c == [ka EXCEPT !.connection_was_visible = @ \/ ~visible]
    <2>1. c.disarmed = ka.disarmed /\ c.alive = ka.alive BY <1>o DEF KeepAlives
    <2>2. FlagsChanged(ka, ~visible) = NotifyAlive(c, ~visible) BY DEF FlagsChanged
    <2> HIDE DEF c
    <2>3. NotifyAlive(c, ~visible) = c BY <2>1 DEF NotifyAlive
    <2>4. ka' \in {ka, c} BY <1>5, <2>2, <2>3 DEF VisibilityChanges, Becomes
    <2> QED BY <2>1, <2>4
  <1>6. ASSUME NEW client \in Clients, Leaves(client)
        PROVE  ka'.disarmed /\ ka'.alive = ka.alive
    BY <1>6 DEF Leaves
  <1>7. CASE DaemonHandles
    BY <1>7 DEF DaemonHandles
  <1>8. CASE Dispatch
    <2> DEFINE c == CleanupDbusWatch(ka)
    <2>1. c.disarmed = ka.disarmed /\ c.alive = ka.alive BY <1>o, CleanupDrops
    <2>2. ClientGone(ka, visible) = NotifyAlive(c, visible) BY DEF ClientGone
    <2> HIDE DEF c
    <2>3. NotifyAlive(c, visible) = c BY <2>1 DEF NotifyAlive
    <2>4. ka' \in {ka, c}
      BY <1>8, <2>2, <2>3 DEF Dispatch, NameOwnerChangedCb, GetNameOwnerCb, Becomes
    <2> QED BY <2>1, <2>4
  <1> QED BY <1>1, <1>2, <1>3, <1>4, <1>5, <1>6, <1>7, <1>8 DEF Next

\* Disarming freezes the object for good (nm_keep_alive_disarm).
THEOREM Frozen == Spec => FrozenOnceDisarmed
  <1>1. Inv /\ [Next]_vars => [ka.disarmed => ka'.disarmed /\ ka'.alive = ka.alive]_vars
    <2> SUFFICES ASSUME Inv, Next, ka.disarmed PROVE ka'.disarmed /\ ka'.alive = ka.alive
      OBVIOUS
    <2> QED BY DisarmedStays
  <1> QED BY <1>1, Invariance, PTL DEF Spec, FrozenOnceDisarmed
=============================================================================
