--------------------------- MODULE KeepAliveWatch ---------------------------
(***************************************************************************)
(* A keep-alive object with the message bus behind it: NetworkManager      *)
(* subscribes to NameOwnerChanged of the client and asks GetNameOwner, the *)
(* bus daemon handles these requests in their order but later, and the     *)
(* client may leave before, between and after them.  Unique bus names are  *)
(* never used again, so a client that left does not return, and a          *)
(* NameOwnerChanged with a new owner, which name_owner_changed_cb ignores, *)
(* does not occur for a client that has already made a call.               *)
(***************************************************************************)
EXTENDS KeepAlive, Sequences

CONSTANTS Clients,      \* unique names of D-Bus clients
          MaxWatches    \* bound on the calls of set_dbus_client_watch

ASSUME ClientAssumption == NoClient \notin Clients /\ MaxWatches \in Nat

VARIABLES
    ka,         \* the NMKeepAlive object
    visible,    \* NM_SETTINGS_CONNECTION_INT_FLAGS_VISIBLE of the profile
    watches,    \* subscriptions made so far
    bound,      \* history: the client given last, NoClient if none
    failed,     \* history: the subscriptions whose GetNameOwner call failed
    present,    \* clients connected to the bus
    toBus,      \* requests sent to the bus daemon, in order
    matches,    \* match rules the daemon holds
    fromBus     \* messages from the daemon that are not dispatched yet

vars == <<ka, visible, watches, bound, failed, present, toBus, matches, fromBus>>

Ids == 1 .. MaxWatches
Rules == [client : Clients, id : Ids]
Requests == [m : {"AddMatch", "RemoveMatch", "GetNameOwner"}, client : Clients, id : Ids]
Messages == [m : {"NameOwnerChanged", "owner", "NameHasNoOwner", "error"}, client : Clients, id : Ids]

KeepAlives ==
    [armed : BOOLEAN, disarmed : BOOLEAN, alive : BOOLEAN,
     dbus_client : Clients \cup {NoClient},
     dbus_client_watching : BOOLEAN, dbus_client_confirmed : BOOLEAN,
     subscription_id : 0 .. MaxWatches, confirm_call : 0 .. MaxWatches,
     connection : BOOLEAN, connection_was_visible : BOOLEAN]

TypeOK ==
    /\ ka \in KeepAlives
    /\ visible \in BOOLEAN
    /\ watches \in 0 .. MaxWatches
    /\ bound \in Clients \cup {NoClient}
    /\ failed \subseteq Ids
    /\ present \subseteq Clients
    /\ toBus \in Seq(Requests)
    /\ matches \subseteq Rules
    /\ fromBus \in Seq(Messages)

Init ==
    /\ ka = NewKeepAlive
    /\ visible \in BOOLEAN
    /\ watches = 0 /\ bound = NoClient /\ failed = {}
    /\ present = Clients
    /\ toBus = << >> /\ matches = {} /\ fromBus = << >>

Request(m, client, id) == [m |-> m, client |-> client, id |-> id]

(***************************************************************************)
(* What changing the object from k to its new value sends to the bus: the  *)
(* rule of a dropped subscription is removed, that of a new one added, and *)
(* the owner of the name asked for if the new object waits for an answer.  *)
(***************************************************************************)
Sends(k, new) ==
    (IF k.dbus_client # NoClient /\ new.subscription_id # k.subscription_id
     THEN <<Request("RemoveMatch", k.dbus_client, k.subscription_id)>> ELSE << >>)
    \o (IF new.dbus_client # NoClient /\ new.subscription_id # k.subscription_id
        THEN <<Request("AddMatch", new.dbus_client, new.subscription_id)>> ELSE << >>)
    \o (IF new.dbus_client # NoClient /\ new.confirm_call # 0 /\ new.confirm_call # k.confirm_call
        THEN <<Request("GetNameOwner", new.dbus_client, new.confirm_call)>> ELSE << >>)

Becomes(new) ==
    /\ ka' = new
    /\ toBus' = toBus \o Sends(ka, new)

Unbound == UNCHANGED <<visible, watches, bound, failed, present, matches, fromBus>>

-----------------------------------------------------------------------------
(* The owner's calls *)

ArmIt == Becomes(Arm(ka, visible)) /\ Unbound

DisarmIt == Becomes(Disarm(ka)) /\ Unbound

WatchProfile(watch) == Becomes(WatchVisible(ka, watch, visible)) /\ Unbound

WatchClient(client) ==
    /\ watches < MaxWatches
    /\ Becomes(SetDbusClientWatch(ka, client, watches + 1, visible))
    /\ watches' = watches + 1
    /\ bound' = IF ka.disarmed THEN bound ELSE client
    /\ UNCHANGED <<visible, failed, present, matches, fromBus>>

\* The profile appears or disappears; the signal reaches a connected object.
VisibilityChanges ==
    /\ visible' = ~visible
    /\ IF ka.connection THEN Becomes(FlagsChanged(ka, ~visible))
                        ELSE UNCHANGED <<ka, toBus>>
    /\ UNCHANGED <<watches, bound, failed, present, matches, fromBus>>

-----------------------------------------------------------------------------
(* The bus *)

\* A client leaves; the daemon tells whoever has a rule for it by then.
Leaves(client) ==
    /\ client \in present
    /\ present' = present \ {client}
    /\ fromBus' = IF \E r \in matches : r.client = client
                  THEN Append(fromBus, Request("NameOwnerChanged", client,
                                (CHOOSE r \in matches : r.client = client).id))
                  ELSE fromBus
    /\ UNCHANGED <<ka, visible, watches, bound, failed, toBus, matches>>

\* A GetNameOwner call is answered, or ends with an error of the connection.
Answers(q) == {IF q.client \in present THEN "owner" ELSE "NameHasNoOwner", "error"}

DaemonHandles ==
    /\ toBus # << >>
    /\ toBus' = Tail(toBus)
    /\ LET q == Head(toBus) IN
       \/ /\ q.m # "GetNameOwner"
          /\ matches' = IF q.m = "AddMatch" THEN matches \cup {[client |-> q.client, id |-> q.id]}
                        ELSE matches \ {[client |-> q.client, id |-> q.id]}
          /\ UNCHANGED <<fromBus, failed>>
       \/ /\ q.m = "GetNameOwner"
          /\ \E m \in Answers(q) :
                /\ fromBus' = Append(fromBus, Request(m, q.client, q.id))
                /\ failed' = IF m = "error" THEN failed \cup {q.id} ELSE failed
          /\ UNCHANGED matches
    /\ UNCHANGED <<ka, visible, watches, bound, present>>

\* Plausible bug: the subscription does not filter on the client's name.
SubscribedAny(client) == ka.dbus_client # NoClient

(***************************************************************************)
(* The subscription filters on the name of the client.  GDBus looks the    *)
(* subscription up when the signal is received and checks that it still    *)
(* exists when the signal is dispatched, so that a signal sent under an    *)
(* earlier subscription for the same client may be delivered or dropped.   *)
(***************************************************************************)
Subscribed(client) == ka.dbus_client = client

\* name_owner_changed_cb
NameOwnerChangedCb(msg) ==
    /\ msg.m = "NameOwnerChanged"
    /\ \/ Subscribed(msg.client) /\ Becomes(ClientGone(ka, visible))
       \/ (Subscribed(msg.client) => msg.id # ka.subscription_id) /\ UNCHANGED <<ka, toBus>>

\* A call that was cancelled ends with G_IO_ERROR_CANCELLED, answered or not.
NotCancelled(id) == ka.confirm_call = id

\* get_name_owner_cb: any error other than that of the cancellation counts as
\* the absence of the client.
GetNameOwnerCb(msg) ==
    /\ msg.m \in {"owner", "NameHasNoOwner", "error"}
    /\ IF NotCancelled(msg.id) /\ ~(msg.m = "owner" /\ msg.client = ka.dbus_client)
       THEN Becomes(ClientGone(ka, visible)) ELSE UNCHANGED <<ka, toBus>>

Dispatch ==
    /\ fromBus # << >>
    /\ fromBus' = Tail(fromBus)
    /\ NameOwnerChangedCb(Head(fromBus)) \/ GetNameOwnerCb(Head(fromBus))
    /\ UNCHANGED <<visible, watches, bound, failed, present, matches>>

-----------------------------------------------------------------------------
Next ==
    \/ ArmIt
    \/ DisarmIt
    \/ \E watch \in BOOLEAN : WatchProfile(watch)
    \/ \E client \in Clients \cup {NoClient} : WatchClient(client)
    \/ VisibilityChanges
    \/ \E client \in Clients : Leaves(client)
    \/ DaemonHandles
    \/ Dispatch

\* The daemon reads its socket and the main loop dispatches what it receives.
Fairness == WF_vars(DaemonHandles) /\ WF_vars(Dispatch)

Spec == Init /\ [][Next]_vars /\ Fairness

-----------------------------------------------------------------------------
(* Properties *)

(***************************************************************************)
(* While it is not frozen, the alive flag is the evaluation of the         *)
(* conditions: no path through arming, re-binding, visibility changes and  *)
(* bus callbacks leaves it stale (_notify_alive, src/nm-keep-alive.c:105). *)
(***************************************************************************)
AliveIsCurrent == ~ka.disarmed => ka.alive = IsAlive(ka, visible)

(***************************************************************************)
(* A client that is still on the bus keeps the object alive: neither the   *)
(* visibility of the profile nor a signal, a late answer or a late error   *)
(* about an earlier client or subscription ends it (get_name_owner_cb,     *)
(* name_owner_changed_cb).  Only an error of the call that asks about this *)
(* very subscription, which the callback takes for an absence (line 219),  *)
(* is excepted; the subscription made last has the number `watches'.       *)
(***************************************************************************)
PresentClientKeepsAlive ==
    ~ka.disarmed /\ bound # NoClient /\ bound \in present /\ watches \notin failed => ka.alive

(***************************************************************************)
(* The callback of a GetNameOwner call that was not cancelled finds the    *)
(* client it asked about: get_name_owner_cb (line 213) compares the answer *)
(* with priv->dbus_client, which must not be NULL or another name.         *)
(***************************************************************************)
AnswerFindsItsClient ==
    \A i \in DOMAIN fromBus :
        fromBus[i].m # "NameOwnerChanged" /\ NotCancelled(fromBus[i].id)
            => ka.dbus_client = fromBus[i].client

(***************************************************************************)
(* Once disarmed the object never changes its alive flag again, whatever   *)
(* is called on it and whatever the bus still delivers (the contract of    *)
(* nm_keep_alive_disarm, src/nm-keep-alive.c:348).                         *)
(***************************************************************************)
FrozenOnceDisarmed == [][ka.disarmed => ka'.disarmed /\ ka'.alive = ka.alive]_vars

(***************************************************************************)
(* The departure of a bound client is noticed even when it left before the *)
(* subscription reached the bus: an armed object ends up dead, frozen or   *)
(* bound anew (_is_alive_dbus_client, src/nm-keep-alive.c:225).            *)
(***************************************************************************)
DepartureNoticed ==
    (ka.armed /\ bound # NoClient /\ bound \notin present)
        ~> (~ka.alive \/ ka.disarmed \/ bound = NoClient \/ bound \in present)
=============================================================================
