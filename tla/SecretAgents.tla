---------------------------- MODULE SecretAgents ----------------------------
(***************************************************************************)
(* The agent manager of NetworkManager: secret agents register over the    *)
(* bus, and requests to get, save and delete the secrets of a profile ask  *)
(* them one after the other.  Agents come, leave and unregister while they *)
(* are asked and while polkit still checks them.                           *)
(*                                                                         *)
(* A member of Agents is an NMSecretAgent object, made by one Register     *)
(* call of the connection Owner[a]; a connection can make several.  The    *)
(* sorted list of a request is a set with a rank: agent_compare_func is    *)
(* applied when an agent is inserted, each is inserted once, and agents in *)
(* the list keep their order, so that some fixed rank describes any list.  *)
(***************************************************************************)
EXTENDS Naturals, Sequences, FiniteSets

CONSTANTS
    Agents,        \* NMSecretAgent objects
    None,          \* no agent, NULL
    Connections,   \* bus connections of the agents' processes
    Owner,         \* dbus_owner of an agent
    Identifier,    \* identifier and user of an agent
    Privileged,    \* connections that polkit grants MODIFY
    MaxRequests,   \* bound on the requests made to the manager
    Kinds,         \* what the n-th request may be, see KindRecords
    Ranks          \* orders in which a request may ask the agents

Flags == {"ALLOW_INTERACTION", "REQUEST_NEW", "ONLY_SYSTEM", "NO_ERRORS"}

(***************************************************************************)
(* existing: the system secrets given with a request are NULL, without the *)
(* setting that is asked for, with it, or not accepted by the profile.     *)
(* needs: the profile still needs secrets when they are applied.  system:  *)
(* it has secrets that the system should own.  acl: the profile is visible *)
(* to the users of these connections.  same_uid: these belong to the user  *)
(* who made the request (all of them if it is NetworkManager itself).      *)
(***************************************************************************)
KindRecords ==
    [type : {"get", "save", "del"}, flags : SUBSET Flags,
     existing : {"NULL", "other", "setting", "invalid"}, needs : BOOLEAN, system : BOOLEAN,
     acl : SUBSET Connections, same_uid : SUBSET Connections]

ASSUME KindAssumption == Kinds \in [1 .. MaxRequests -> SUBSET KindRecords]
ASSUME AgentAssumption ==
    /\ None \notin Agents
    /\ Owner \in [Agents -> Connections]
    /\ Privileged \subseteq Connections
    /\ Ranks \subseteq [Agents -> Nat]
    /\ MaxRequests \in Nat

VARIABLES
    connected,   \* connections that are on the bus
    made,        \* agents for which Register was called
    checking,    \* agents whose permissions polkit checks
    watching,    \* agents subscribed to NameOwnerChanged
    agents,      \* priv->agents: the agent registered for a connection
    replaced,    \* history: agents displaced from that table by another
    req          \* priv->requests and those that ended, in the order they were made

vars == <<connected, made, checking, watching, agents, replaced, req>>

Registered == {a \in Agents : agents[Owner[a]] = a}

-----------------------------------------------------------------------------
(* A request. *)

(***************************************************************************)
(* listed: it is in priv->requests; pending, current, idle and has_modify  *)
(* are its fields; chains are the agents for whose MODIFY authorization    *)
(* polkit has been asked, call is whether the current agent has.  The      *)
(* rest is history: calls of the callback, the agent whose secrets it got, *)
(* the agents that were asked and those that were shown system secrets.    *)
(***************************************************************************)
RequestRecords ==
    [listed : BOOLEAN, kind : KindRecords, rank : [Agents -> Nat],
     idle : BOOLEAN, pending : SUBSET Agents, current : Agents \cup {None},
     chains : SUBSET Agents, call : BOOLEAN, has_modify : BOOLEAN,
     callbacks : Nat, by : Agents \cup {None}, asked : SUBSET Agents, shown : SUBSET Agents]

(* request_add_agent: may this agent be asked? *)
Allowed(kind, a) ==
    /\ kind.type = "get" => Owner[a] \in kind.acl
    /\ Owner[a] \in kind.same_uid

NewRequestRecord(kind, rank, pending) ==
    [listed |-> TRUE, kind |-> kind, rank |-> rank, idle |-> TRUE, pending |-> pending,
     current |-> None, chains |-> {}, call |-> FALSE, has_modify |-> FALSE, callbacks |-> 0,
     by |-> None, asked |-> {}, shown |-> {}]

(* The callback of a get, with the secrets of an agent or without; then request_free. *)
Complete(q, by) ==
    [q EXCEPT !.listed = FALSE, !.idle = FALSE, !.pending = {}, !.current = None,
              !.chains = {}, !.call = FALSE, !.by = by, !.asked = {}, !.shown = {},
              !.has_modify = @ /\ by # None,
              !.callbacks = IF q.kind.type = "get" THEN @ + 1 ELSE @]

(* The profile sent to the agent has the system secrets or none at all. *)
Proceed(q, include_system_secrets) ==
    [q EXCEPT !.call = TRUE, !.asked = @ \cup {q.current},
              !.shown = IF include_system_secrets /\ q.kind.existing # "NULL"
                        THEN @ \cup {q.current} ELSE @]

NeedsModify(kind) ==
    /\ kind.type = "get"
    /\ kind.flags # {}
    /\ kind.existing # "NULL" \/ kind.system

(* Plausible bug: what the last agent was allowed is not forgotten. *)
StartCurrentKeepsModify(q) ==
    IF NeedsModify(q.kind)
    THEN [q EXCEPT !.chains = @ \cup {q.current}]
    ELSE Proceed(q, FALSE)

(* _con_get_request_start and its counterparts for save and delete. *)
StartCurrent(q) ==
    IF NeedsModify(q.kind)
    THEN [q EXCEPT !.has_modify = FALSE, !.chains = @ \cup {q.current}]
    ELSE Proceed([q EXCEPT !.has_modify = FALSE], FALSE)

First(q) == CHOOSE a \in q.pending : \A b \in q.pending : q.rank[a] <= q.rank[b]

(* The call to the current agent is cancelled and the next one asked. *)
NextAgent(q) ==
    IF q.pending = {}
    THEN Complete(q, None)
    ELSE StartCurrent([q EXCEPT !.call = FALSE, !.current = First(q),
                                !.pending = @ \ {First(q)}])

(* Plausible bug: the authorization of the removed agent stays pending. *)
RemoveKeepsChain(q, a) ==
    IF ~q.listed THEN q
    ELSE IF q.current = a THEN NextAgent(q)
    ELSE [q EXCEPT !.pending = @ \ {a}]

(* request_remove_agent *)
RequestRemoveAgent(q, a) ==
    IF ~q.listed THEN q
    ELSE IF q.current = a THEN NextAgent([q EXCEPT !.chains = {}])
    ELSE [q EXCEPT !.pending = @ \ {a}]

(* Are the system secrets enough, or at least all that can be had? *)
CompletesEarly(q) ==
    /\ q.kind.existing = "setting"
    /\ \/ "ONLY_SYSTEM" \in q.kind.flags
       \/ ~q.kind.needs /\ "REQUEST_NEW" \notin q.kind.flags
       \/ "NO_ERRORS" \in q.kind.flags /\ q.pending = {}

(* Plausible bug: a request without agents waits for one. *)
StartedOnceAgents(q) ==
    IF q.kind.type = "get" /\ (q.kind.existing = "invalid" \/ CompletesEarly(q))
    THEN Complete(q, None)
    ELSE IF q.pending = {} THEN q
    ELSE NextAgent([q EXCEPT !.idle = FALSE])

(* request_start with _con_get_try_complete_early *)
Started(q) ==
    IF q.kind.type = "get" /\ (q.kind.existing = "invalid" \/ CompletesEarly(q))
    THEN Complete(q, None)
    ELSE NextAgent([q EXCEPT !.idle = FALSE])

(* polkit has answered about agent a; the current agent is asked then. *)
Answered(q, a) ==
    LET modify == q.has_modify \/ Owner[a] \in Privileged
    IN Proceed([q EXCEPT !.chains = @ \ {a}, !.has_modify = modify], modify)

(***************************************************************************)
(* The done callbacks.  An agent answers a get with secrets, with nothing  *)
(* for the setting or that the user canceled; any call can fail, and fails *)
(* as "gone" when the connection has left the bus.  A delete asks all.     *)
(***************************************************************************)
Outcomes == {"secrets", "nothing", "canceled", "failed", "gone"}

Done(q, outcome) ==
    LET p == [q EXCEPT !.call = FALSE] IN
    IF outcome = "secrets" /\ q.kind.type # "del" THEN Complete(p, q.current)
    ELSE IF outcome = "canceled" /\ q.kind.type = "get" THEN Complete(p, None)
    ELSE NextAgent(p)

-----------------------------------------------------------------------------
(* The manager. *)

Init ==
    /\ connected = Connections
    /\ made = {} /\ checking = {} /\ watching = {} /\ replaced = {}
    /\ agents = [c \in Connections |-> None]
    /\ req = << >>

(* Plausible bug: requests are not told that an agent is gone. *)
RemoveAgentSilently(c, reqs) ==
    /\ agents' = [agents EXCEPT ![c] = None]
    /\ req' = reqs

(* remove_agent, applied to the requests as the caller leaves them. *)
RemoveAgent(c, reqs) ==
    /\ agents' = [agents EXCEPT ![c] = None]
    /\ req' = IF agents[c] = None THEN reqs
              ELSE [r \in DOMAIN reqs |-> RequestRemoveAgent(reqs[r], agents[c])]

(* Register: only one agent for each identifier and user. *)
Register(a) ==
    /\ a \notin made /\ Owner[a] \in connected
    /\ made' = made \cup {a}
    /\ \/ /\ \E b \in Registered : Identifier[b] = Identifier[a]
          /\ UNCHANGED <<checking, watching>>
       \/ /\ \A b \in Registered : Identifier[b] # Identifier[a]
          /\ checking' = checking \cup {a}
          /\ watching' = watching \cup {a}
    /\ UNCHANGED <<connected, agents, replaced, req>>

(* agent_register_permissions_done: the agent joins the running requests. *)
PermissionsDone(a) ==
    /\ a \in checking
    /\ checking' = checking \ {a}
    /\ agents' = [agents EXCEPT ![Owner[a]] = a]
    /\ replaced' = replaced \cup ({agents[Owner[a]]} \ {None})
    /\ req' = [r \in DOMAIN req |->
                 IF req[r].listed /\ Allowed(req[r].kind, a)
                 THEN [req[r] EXCEPT !.pending = @ \cup {a}] ELSE req[r]]
    /\ UNCHANGED <<connected, made, watching>>

Leaves(c) ==
    /\ c \in connected
    /\ connected' = connected \ {c}
    /\ UNCHANGED <<made, checking, watching, agents, replaced, req>>

(* The object is referenced, so that its subscription still works. *)
Alive(a) ==
    \/ a \in checking \cup Registered
    \/ \E r \in DOMAIN req : req[r].listed /\ a \in req[r].pending \cup {req[r].current}

(* name_owner_changed and agent_disconnected_cb *)
NameOwnerLost(a) ==
    /\ a \in watching /\ Alive(a) /\ Owner[a] \notin connected
    /\ watching' = watching \ {a}
    /\ RemoveAgent(Owner[a], req)
    /\ UNCHANGED <<connected, made, checking, replaced>>

Unregister(c) ==
    /\ c \in connected /\ agents[c] # None
    /\ RemoveAgent(c, req)
    /\ UNCHANGED <<connected, made, checking, watching, replaced>>

(* nm_agent_manager_get_secrets, _save_secrets and _delete_secrets *)
NewRequest(r, kind, rank) ==
    /\ r = Len(req) + 1
    /\ LET pending == IF kind.type = "get" /\ "ONLY_SYSTEM" \in kind.flags THEN {}
                      ELSE {a \in Registered : Allowed(kind, a)}
       IN req' = Append(req, NewRequestRecord(kind, rank, pending))
    /\ UNCHANGED <<connected, made, checking, watching, agents, replaced>>

RequestStart(r) ==
    /\ r \in DOMAIN req /\ req[r].listed /\ req[r].idle
    /\ req' = [req EXCEPT ![r] = Started(@)]
    /\ UNCHANGED <<connected, made, checking, watching, agents, replaced>>

(* _con_get_request_start_validated *)
Validated(r) ==
    /\ r \in DOMAIN req /\ req[r].listed
    /\ \E a \in req[r].chains : req' = [req EXCEPT ![r] = Answered(@, a)]
    /\ UNCHANGED <<connected, made, checking, watching, agents, replaced>>

(* Plausible bug: an agent that is gone is removed before the next is asked. *)
ReplyRemovesFirst(r, outcome) ==
    LET q == req[r]
        c == Owner[q.current]
        known == outcome = "gone" /\ agents[c] # None
        without == IF known THEN [s \in DOMAIN req |-> RequestRemoveAgent(req[s], agents[c])]
                   ELSE req
    IN /\ r \in DOMAIN req /\ q.listed /\ q.call
       /\ outcome = "gone" => c \notin connected
       /\ agents' = IF known THEN [agents EXCEPT ![c] = None] ELSE agents
       /\ req' = [without EXCEPT ![r] = Done(@, outcome)]
       /\ UNCHANGED <<connected, made, checking, watching, replaced>>

(* The done callbacks, then maybe_remove_agent_on_error. *)
Reply(r, outcome) ==
    /\ r \in DOMAIN req /\ req[r].listed /\ req[r].call
    /\ LET reqs == [req EXCEPT ![r] = Done(@, outcome)]
           c == Owner[req[r].current]
       IN \/ /\ outcome = "gone" /\ c \notin connected
             /\ RemoveAgent(c, reqs)
          \/ /\ outcome # "gone"
             /\ req' = reqs
             /\ UNCHANGED agents
    /\ UNCHANGED <<connected, made, checking, watching, replaced>>

(* nm_agent_manager_cancel_secrets *)
Cancel(r) ==
    /\ r \in DOMAIN req /\ req[r].listed /\ req[r].kind.type = "get"
    /\ req' = [req EXCEPT ![r] = Complete(@, None)]
    /\ UNCHANGED <<connected, made, checking, watching, agents, replaced>>

ReplyAny(r) == \E outcome \in Outcomes : Reply(r, outcome)

Next ==
    \/ \E a \in Agents : Register(a) \/ PermissionsDone(a) \/ NameOwnerLost(a)
    \/ \E c \in Connections : Leaves(c) \/ Unregister(c)
    \/ \E r \in 1 .. MaxRequests :
         \/ \E kind \in Kinds[r], rank \in Ranks : NewRequest(r, kind, rank)
         \/ RequestStart(r) \/ Validated(r) \/ ReplyAny(r) \/ Cancel(r)

Spec == Init /\ [][Next]_vars

(***************************************************************************)
(* The main loop runs idle sources, polkit answers, and a call to an agent *)
(* ends with an answer, an error or its timeout of one or two minutes.     *)
(* Nothing is assumed of agents and clients.                               *)
(***************************************************************************)
Fairness ==
    \A r \in 1 .. MaxRequests : WF_vars(RequestStart(r)) /\ WF_vars(Validated(r)) /\ WF_vars(ReplyAny(r))

FairSpec == Spec /\ Fairness

-----------------------------------------------------------------------------
(* Properties *)

TypeOK ==
    /\ connected \subseteq Connections
    /\ made \subseteq Agents /\ checking \subseteq made
    /\ watching \subseteq made /\ replaced \subseteq made
    /\ agents \in [Connections -> made \cup {None}]
    /\ req \in Seq(RequestRecords) /\ Len(req) <= MaxRequests

(***************************************************************************)
(* "it will always be invoked exactly once": the callback of a get is      *)
(* called when the request ends and never before or again, whatever is     *)
(* cancelled, removed or answered in whichever order.                      *)
(***************************************************************************)
CalledBackOnce ==
    \A r \in DOMAIN req : req[r].kind.type = "get" =>
        req[r].callbacks = IF req[r].listed THEN 0 ELSE 1

(***************************************************************************)
(* A request in the list waits for exactly one thing: its idle source,     *)
(* polkit's answer about its current agent, or that agent's reply.  With   *)
(* none it would hang; with two it would ask two agents at once.           *)
(***************************************************************************)
WaitsForOneThing ==
    \A r \in DOMAIN req :
        LET q == req[r] IN
        IF q.listed
        THEN \/ q.idle /\ q.chains = {} /\ ~q.call /\ q.current = None
             \/ ~q.idle /\ q.chains = {q.current} /\ ~q.call /\ q.current # None
             \/ ~q.idle /\ q.chains = {} /\ q.call /\ q.current # None
        ELSE ~q.idle /\ q.chains = {} /\ ~q.call /\ q.current = None

(***************************************************************************)
(* "We shouldn't leak system-owned secrets to unprivileged users": system  *)
(* secrets are only sent to agents with the MODIFY permission, and secrets *)
(* are only returned as those of such an agent (current_has_modify) when   *)
(* one with the permission gave them.                                      *)
(***************************************************************************)
SystemSecretsStay ==
    \A r \in DOMAIN req :
        LET q == req[r] IN
        /\ \A a \in q.shown : Owner[a] \in Privileged
        /\ q.by # None /\ q.has_modify => Owner[q.by] \in Privileged

(***************************************************************************)
(* Requests and the table of agents agree: every registered agent that may *)
(* be asked has been, is being or will be asked; and a request has no      *)
(* agent before it that is not registered, except one that another         *)
(* registration of the same connection has displaced from the table.      *)
(***************************************************************************)
RequestsTrackAgents ==
    \A r \in DOMAIN req :
        LET q == req[r]
            ahead == q.pending \cup ({q.current} \ {None})
        IN q.listed =>
             /\ q.current \notin q.pending
             /\ ahead \subseteq Registered \cup replaced
             /\ \/ q.kind.type = "get" /\ "ONLY_SYSTEM" \in q.kind.flags
                \/ {a \in Registered : Allowed(q.kind, a)} \subseteq ahead \cup q.asked

(* Every request ends, however agents come and go while it is served. *)
EveryRequestEnds ==
    \A r \in 1 .. MaxRequests : []<>(r \in DOMAIN req => ~req[r].listed)
=============================================================================
