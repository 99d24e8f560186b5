-------------------------- MODULE DeviceActivation --------------------------
(***************************************************************************)
(* The life of activations on one device: NMManager accepts the requests,  *)
(* NMDevice (src/devices/nm-device.c) carries one of them out and may hold *)
(* another one queued, NMActiveConnection and NMActRequest follow the      *)
(* device, and NMPolicy ends an activation whose keep-alive object dies.   *)
(*                                                                         *)
(* The device is real, has carrier detection and no ignore-carrier, is     *)
(* neither master nor slave, and its profiles are wired ones without       *)
(* 802.1X, PPPoE, DCB and SR-IOV, so that no stage is postponed.  All of   *)
(* this runs in one thread; what interleaves are idle sources, timers,     *)
(* answers of polkit, firewalld and the dispatcher, carrier changes and    *)
(* D-Bus calls.  A function of the program that changes the state is an    *)
(* operator from worlds to worlds, w.dev being the device, w.acs the       *)
(* active connections and w.link the kernel's link, because the functions  *)
(* call each other within one step.                                        *)
(***************************************************************************)
EXTENDS KeepAlive, Sequences, FiniteSets, FiniteSetsExt

CONSTANTS ACs,            \* the activation requests
          None,           \* NULL
          Kind,           \* "profile": bound to the visibility of its profile
                          \* "client": AddAndActivate bound to its D-Bus client
          NeedsCarrier,   \* requests for which connection_requires_carrier()
          DeactivateAsync,\* whether the class has a deactivate_async()
          LinkFaults      \* how setting the link up may fail: "refused" by the
                          \* kernel, or the link is "down" nevertheless

ASSUME RequestAssumption ==
    /\ IsFiniteSet(ACs) /\ None \notin ACs /\ NoClient \notin ACs /\ NeedsCarrier \subseteq ACs
    /\ Kind \in [ACs -> {"profile", "client"}] /\ DeactivateAsync \in BOOLEAN
    /\ LinkFaults \subseteq {"refused", "down"}

VARIABLES dev, acs,
          link,     \* the link as the kernel has it
          visible   \* whether the profile is visible to a session

vars == <<dev, acs, link, visible>>

\* NMDeviceState; 0 is used where nothing is queued.
UNMANAGED == 10
UNAVAILABLE == 20
DISCONNECTED == 30
PREPARE == 40
CONFIG == 50
IP_CONFIG == 70
IP_CHECK == 80
SECONDARIES == 90
ACTIVATED == 100
DEACTIVATING == 110
FAILED == 120
DeviceStates == {10, 20, 30, 40, 50, 70, 80, 90, 100, 110, 120}

\* NMActiveConnectionState
AC_UNKNOWN == 0
AC_ACTIVATING == 1
AC_ACTIVATED == 2
AC_DEACTIVATING == 3
AC_DEACTIVATED == 4

Sources == {"stage1", "stage3", "state", "recheck"}

\* Pending idle sources, in the order in which the main loop runs them
IdleQueues ==
    {q \in UNION {[1 .. n -> Sources] : n \in 0 .. 3} : \A i, j \in DOMAIN q : q[i] = q[j] => i = j}

Devices ==
    [state : DeviceStates, managed : BOOLEAN,
     act_request : ACs \cup {None}, queued_act_request : ACs \cup {None},
     waiting_for_carrier : BOOLEAN,
     queued_state : DeviceStates \cup {0},
     idle : IdleQueues,
     fw : {"unmanaged", "wait_stage_3", "wait_ip_config", "initialized"},
     ping : BOOLEAN, call : {"none", "pre-up", "pre-down"},
     deactivating : BOOLEAN,
     carrier : BOOLEAN, carrier_wait : BOOLEAN, carrier_defer : BOOLEAN]

KeepAlives ==
    [armed : BOOLEAN, disarmed : BOOLEAN, alive : BOOLEAN,
     dbus_client : {NoClient} \cup ACs,
     dbus_client_watching : BOOLEAN, dbus_client_confirmed : BOOLEAN,
     subscription_id : {0, 1}, confirm_call : {0, 1},
     connection : BOOLEAN, connection_was_visible : BOOLEAN]

\* Whether there is a carrier, and what setting the link up leads to.  Only a
\* link that is up has a carrier.
Links == {l \in [carrier : BOOLEAN, up : {"up"} \cup LinkFaults] : l.carrier => l.up = "up"}

Connections ==
    [phase : {"none", "auth", "add", "done", "gone"},
     state : 0 .. 4, listed : BOOLEAN, replies : 0 .. 2, ka : KeepAlives]

TypeOK ==
    /\ dev \in Devices
    /\ acs \in [ACs -> Connections]
    /\ link \in Links /\ visible \in BOOLEAN

\* The device has been discovered and is not handled yet.
Init ==
    /\ dev = [state |-> UNMANAGED, managed |-> FALSE,
              act_request |-> None, queued_act_request |-> None,
              waiting_for_carrier |-> FALSE, queued_state |-> 0,
              idle |-> << >>, fw |-> "unmanaged", ping |-> FALSE,
              call |-> "none", deactivating |-> FALSE,
              carrier |-> FALSE, carrier_wait |-> FALSE, carrier_defer |-> FALSE]
    /\ acs = [x \in ACs |-> [phase |-> "none", state |-> AC_UNKNOWN, listed |-> FALSE,
                             replies |-> 0, ka |-> NewKeepAlive]]
    /\ link \in Links
    /\ visible = TRUE

WithDev(w, d) == [dev |-> d, acs |-> w.acs, link |-> w.link]

WithAc(w, x, c) == [dev |-> w.dev, acs |-> [w.acs EXCEPT ![x] = c], link |-> w.link]

-----------------------------------------------------------------------------
(* NMActiveConnection *)

\* Plausible bug: the callback of the authorization is not cleared.
AcSetStateKeepsAuth(c, new) ==
    IF c.state = new \/ c.state = AC_DEACTIVATED THEN c
    ELSE [c EXCEPT !.state = new,
                   !.ka = IF new > AC_ACTIVATED THEN Disarm(@) ELSE @,
                   !.replies = IF new = AC_DEACTIVATED /\ c.phase = "auth" THEN @ + 1 ELSE @]

\* nm_active_connection_set_state: above ACTIVATED the keep-alive object is
\* frozen, and DEACTIVATED ends a pending authorization with an error.
AcSetState(c, new) ==
    IF c.state = new \/ c.state = AC_DEACTIVATED THEN c
    ELSE [c EXCEPT !.state = new,
                   !.ka = IF new > AC_ACTIVATED THEN Disarm(@) ELSE @,
                   !.phase = IF new = AC_DEACTIVATED /\ @ = "auth" THEN "done" ELSE @,
                   !.replies = IF new = AC_DEACTIVATED /\ c.phase = "auth" THEN @ + 1 ELSE @]

\* nm_active_connection_set_state_fail
SetStateFail(c) ==
    AcSetState(IF c.state \in {AC_ACTIVATING, AC_ACTIVATED}
               THEN AcSetState(c, AC_DEACTIVATING) ELSE c, AC_DEACTIVATED)

Fail(w, x) == WithAc(w, x, SetStateFail(w.acs[x]))

\* NMActRequest's device_state_changed: the state that follows from the device's
AcStateFor(state) ==
    IF state \in PREPARE .. SECONDARIES THEN AC_ACTIVATING
    ELSE IF state = ACTIVATED THEN AC_ACTIVATED
    ELSE IF state = DEACTIVATING THEN AC_DEACTIVATING
    ELSE AC_DEACTIVATED

\* device_state_changed of NMActiveConnection and of NMActRequest: whether the
\* active connection c, current on the device or not, reacts at all
Follows(c, current, new, old) ==
    /\ c.phase \notin {"none", "gone"} /\ c.state < AC_DEACTIVATED
    /\ old >= DISCONNECTED
    /\ \/ current
       \/ new < PREPARE /\ (new = DISCONNECTED => c.state >= AC_ACTIVATING)

\* NM_DEVICE_STATE_CHANGED as the active connections see it
EmitStateChanged(w, new, old) ==
    [dev |-> w.dev, link |-> w.link,
     acs |-> [x \in ACs |-> IF Follows(w.acs[x], w.dev.act_request = x, new, old)
                            THEN AcSetState(w.acs[x], AcStateFor(new)) ELSE w.acs[x]]]

-----------------------------------------------------------------------------
(* NMDevice: idle sources and the queued state *)

Pending(d, source) == \E i \in DOMAIN d.idle : d.idle[i] = source

\* The program has one id for the stages and one for the state: at most one of
\* the sources is there.
Without(idle, sources) ==
    LET found == {i \in DOMAIN idle : idle[i] \in sources}
        k == CHOOSE i \in found : TRUE
    IN IF found = {} THEN idle
       ELSE [i \in 1 .. Len(idle) - 1 |-> IF i < k THEN idle[i] ELSE idle[i + 1]]

\* Plausible bug: the source of the replaced state is not removed.
QueueStateTwice(d, state) ==
    IF d.queued_state = state THEN d
    ELSE [d EXCEPT !.queued_state = state, !.idle = Append(@, "state")]

\* nm_device_queue_state: a different state replaces the queued one.
QueueState(d, state) ==
    IF d.queued_state = state THEN d
    ELSE [d EXCEPT !.queued_state = state,
                   !.idle = Append(Without(@, {"state"}), "state")]

\* queued_state_clear
QueuedStateClear(d) ==
    [d EXCEPT !.queued_state = 0, !.idle = Without(@, {"state"})]

\* activation_source_schedule; a source scheduled again keeps its place.
Schedule(d, stage) ==
    IF Pending(d, stage) THEN d
    ELSE [d EXCEPT !.idle = Append(Without(@, {"stage1", "stage3"}), stage)]

\* nm_device_queue_recheck_available
QueueRecheckAvailable(d) ==
    IF Pending(d, "recheck") THEN d
    ELSE [d EXCEPT !.idle = Append(@, "recheck")]

\* Plausible bug: the scheduled stage is not cleared.
CancelKeepsSource(d) ==
    [d EXCEPT !.fw = IF @ \in {"wait_stage_3", "wait_ip_config"} THEN "initialized" ELSE @,
              !.ping = FALSE]

\* _cancel_activation
CancelActivation(d) ==
    [d EXCEPT !.fw = IF @ \in {"wait_stage_3", "wait_ip_config"} THEN "initialized" ELSE @,
              !.ping = FALSE,
              !.idle = Without(@, {"stage1", "stage3"})]

\* nm_device_cleanup with _cleanup_generic_pre and _cleanup_generic_post
Cleanup(d) ==
    [QueuedStateClear(CancelActivation(d)) EXCEPT
        !.fw = "unmanaged", !.act_request = None]

CleanedUp(w) == WithDev(w, Cleanup(w.dev))

WithoutQueued(w) == WithDev(w, [w.dev EXCEPT !.queued_act_request = None])

\* _clear_queued_act_request
ClearQueuedActRequest(w) ==
    IF w.dev.queued_act_request = None THEN w
    ELSE Fail(WithoutQueued(w), w.dev.queued_act_request)

\* _device_activate
DeviceActivate(w, x) ==
    IF w.acs[x].state >= AC_DEACTIVATING THEN w
    ELSE IF ~w.dev.managed THEN Fail(w, x)
    ELSE WithDev(w, Schedule([w.dev EXCEPT !.act_request = x], "stage1"))

\* The queued request is taken from its place and activated.
ActivateQueued(w) ==
    DeviceActivate(WithoutQueued(w), w.dev.queued_act_request)

-----------------------------------------------------------------------------
(* NMDevice: carrier *)

\* carrier_changed, for a device that does not ignore carrier
CarrierChanged(d, carrier) ==
    IF d.state <= UNMANAGED THEN d
    ELSE IF carrier
    THEN IF d.state = UNAVAILABLE THEN QueueState(d, DISCONNECTED) ELSE d
    ELSE IF d.state # UNAVAILABLE THEN QueueState(d, UNAVAILABLE)
    ELSE IF d.queued_state >= DISCONNECTED THEN QueuedStateClear(d) ELSE d

\* Plausible bug: a request that waits is not looked at when the wait ends.
WaitCheckDropped(w) == WithDev(w, [w.dev EXCEPT !.waiting_for_carrier = FALSE])

\* _carrier_wait_check_queued_act_request
CarrierWaitCheck(w) ==
    LET v == WithDev(w, [w.dev EXCEPT !.waiting_for_carrier = FALSE]) IN
    IF w.dev.queued_act_request = None \/ ~w.dev.waiting_for_carrier THEN w
    ELSE IF ~w.dev.carrier THEN ClearQueuedActRequest(v)
    ELSE IF w.dev.state = DISCONNECTED THEN ActivateQueued(v) ELSE v

\* nm_device_set_carrier: a loss is acted upon at once only if nothing is
\* active or queued, and after a few seconds otherwise.
SetCarrier(w, carrier) ==
    LET d == [w.dev EXCEPT !.carrier = carrier]
        up == WithDev(w, CarrierChanged([d EXCEPT !.carrier_defer = FALSE], TRUE))
    IN
    IF w.dev.carrier = carrier THEN w
    ELSE IF carrier THEN IF d.carrier_wait THEN CarrierWaitCheck(up) ELSE up
    ELSE IF d.state <= DISCONNECTED /\ d.queued_act_request = None
    THEN WithDev(w, CarrierChanged(d, FALSE))
    ELSE WithDev(w, [d EXCEPT !.carrier_defer = TRUE])

\* nm_device_bring_up reads the carrier anew and starts the grace period.  It
\* fails before that if the link cannot be set up, and in between if the link
\* is not up then.
BringUp(w) ==
    LET v == SetCarrier(w, w.link.carrier) IN
    IF w.link.up = "refused" THEN w
    ELSE IF w.link.up = "down" THEN v
    ELSE WithDev(v, [v.dev EXCEPT !.carrier_wait = TRUE])

-----------------------------------------------------------------------------
(* NMDevice: the state machine *)

\* The first lines of _set_state_full: whatever the old state was waiting for,
\* a queued state, a dispatcher call or an asynchronous deactivation, ends.
Enter(d, new) ==
    [QueuedStateClear(d) EXCEPT !.state = new, !.call = "none", !.deactivating = FALSE]

\* _set_state_full: a device that becomes unavailable gives up the queued request.
GivesUpQueued(w, new, old) ==
    IF new <= UNAVAILABLE /\ old > UNAVAILABLE THEN ClearQueuedActRequest(w) ELSE w

\* _set_state_full, the first switch: what is done before anybody is told
Handle(w, new, old) ==
    IF new = UNMANAGED
    THEN IF w.dev.act_request # None THEN CleanedUp(w) ELSE w
    ELSE IF new = UNAVAILABLE
    THEN CleanedUp(IF old = UNMANAGED THEN BringUp(w) ELSE w)
    ELSE IF new = DISCONNECTED /\ old > DISCONNECTED THEN CleanedUp(w)
    ELSE w

\* NMPolicy's device_state_changed: the profiles have no secondary connections.
PolicyStateChanged(w, new) ==
    IF new = SECONDARIES THEN WithDev(w, QueueState(w.dev, ACTIVATED)) ELSE w

\* _set_state_full, the second switch: what follows from the new state
Proceed(w, new) ==
    IF new = UNAVAILABLE
    THEN IF w.dev.carrier THEN WithDev(w, QueueRecheckAvailable(w.dev)) ELSE w
    ELSE IF new = DEACTIVATING
    THEN WithDev(w, [CancelActivation(w.dev) EXCEPT !.call = "pre-down"])
    ELSE IF new = DISCONNECTED
    THEN IF w.dev.queued_act_request # None /\ ~w.dev.waiting_for_carrier
         THEN ActivateQueued(w) ELSE w
    ELSE IF new = FAILED
    THEN WithDev(w, QueueState(CancelActivation(w.dev), DISCONNECTED))
    ELSE IF new = IP_CHECK THEN WithDev(w, [w.dev EXCEPT !.fw = "wait_ip_config"])
    ELSE IF new = SECONDARIES THEN WithDev(w, [w.dev EXCEPT !.ping = FALSE])
    ELSE w

\* _set_state_full
SetState(w, new) ==
    LET old == w.dev.state
        entered == GivesUpQueued(WithDev(w, Enter(w.dev, new)), new, old)
        told == EmitStateChanged(Handle(entered, new, old), new, old)
    IN IF new = old THEN w ELSE Proceed(PolicyStateChanged(told, new), new)

-----------------------------------------------------------------------------
(* NMDevice and NMManager: requests *)

\* nm_device_disconnect_active_connection
Disconnect(w, x) ==
    IF w.acs[x].state = AC_DEACTIVATED THEN w   \* its device is NULL by now
    ELSE IF w.dev.queued_act_request = x THEN ClearQueuedActRequest(w)
    ELSE IF w.dev.act_request = x
    THEN IF w.dev.state < DEACTIVATING THEN SetState(w, DEACTIVATING) ELSE w
    ELSE Fail(w, x)

\* _carrier_wait_check_act_request_must_queue
MustQueue(d, x) == ~d.carrier /\ d.carrier_wait /\ x \in NeedsCarrier

\* Plausible bug: a newer request replaces the queued one without failing it.
SupersedeSilently(w, x) ==
    WithDev(w, [w.dev EXCEPT !.queued_act_request = x,
                             !.waiting_for_carrier = MustQueue(w.dev, x)])

\* nm_device_queue_activation: the request supersedes the one queued before.
Supersede(w, x) ==
    LET v == ClearQueuedActRequest(w) IN
    WithDev(v, [v.dev EXCEPT !.queued_act_request = x,
                             !.waiting_for_carrier = MustQueue(w.dev, x)])

\* Plausible bug: a request that has ended meanwhile is started.
QueueActivationUnchecked(w, x) ==
    IF w.dev.act_request = None /\ ~MustQueue(w.dev, x)
    THEN WithDev(w, Schedule([w.dev EXCEPT !.act_request = x], "stage1"))
    ELSE IF w.dev.act_request = None THEN Supersede(w, x)
    ELSE SetState(Supersede(w, x), DEACTIVATING)

\* nm_device_queue_activation
QueueActivation(w, x) ==
    IF w.acs[x].state >= AC_DEACTIVATING THEN w
    ELSE IF w.dev.act_request = None /\ ~MustQueue(w.dev, x) THEN DeviceActivate(w, x)
    ELSE IF w.dev.act_request = None THEN Supersede(w, x)
    ELSE SetState(Supersede(w, x), DEACTIVATING)

\* active_connection_keep_alive_changed of NMPolicy
KeepAliveChanged(w, x) ==
    IF w.acs[x].ka.alive \/ w.acs[x].state > AC_ACTIVATED THEN w ELSE Disconnect(w, x)

Listed(w, x, seen) ==
    WithAc(w, x, [w.acs[x] EXCEPT !.listed = TRUE, !.ka = Arm(@, seen)])

\* Plausible bug: only later changes of the keep-alive object are handled.
AddUnchecked(w, x, seen) == Listed(w, x, seen)

\* active_connection_add with NMPolicy's active_connection_added
ActiveConnectionAdd(w, x, seen) == KeepAliveChanged(Listed(w, x, seen), x)

\* unmanaged_to_disconnected: a request of a user overrules an unmanaged device.
UnmanagedToDisconnected(w) ==
    LET managed == WithDev(w, [w.dev EXCEPT !.managed = TRUE])
        up == IF w.dev.state = UNMANAGED THEN SetState(managed, UNAVAILABLE) ELSE managed
    IN IF up.dev.state = UNAVAILABLE THEN SetState(up, DISCONNECTED) ELSE up

\* nm_device_check_connection_available for a request of a user
CheckConnectionAvailable(d, x) ==
    d.carrier \/ x \notin NeedsCarrier \/ d.carrier_wait

\* The active connections of the same profile, which has multi-connect "single"
SameProfile(w, x) ==
    {y \in ACs \ {x} : /\ Kind[y] = "profile" /\ Kind[x] = "profile"
                       /\ w.acs[y].listed /\ w.acs[y].state <= AC_ACTIVATED}

DisconnectAll(w, xs) == FoldSet(LAMBDA y, v : Disconnect(v, y), w, xs)

Replied(w, x) == WithAc(w, x, [w.acs[x] EXCEPT !.replies = @ + 1])

\* _internal_activate_generic and _internal_activate_device with the answer to
\* the client; the profile of an AddAndActivate is always a new one.  A request
\* overrules an unmanaged device or, if something other than the user keeps the
\* device unmanaged, is refused after those of the same profile have been ended.
InternalActivate(w, x, seen, overrules) ==
    LET free == DisconnectAll(w, SameProfile(w, x)) IN
    Replied(IF ~(w.acs[x].state < AC_DEACTIVATING /\ CheckConnectionAvailable(w.dev, x))
            THEN Fail(w, x)
            ELSE IF ~w.dev.managed /\ ~overrules THEN Fail(free, x)
            ELSE QueueActivation(ActiveConnectionAdd(UnmanagedToDisconnected(free), x, seen), x),
            x)

-----------------------------------------------------------------------------
(* Steps *)

World == [dev |-> dev, acs |-> acs, link |-> link]

\* The step leads to the world w, which is computed once.
Becomes(w) == \E v \in {w} : dev' = v.dev /\ acs' = v.acs

InPhase(x, phase) == WithAc(World, x, [acs[x] EXCEPT !.phase = phase])

\* impl_manager_activate_connection and AddAndActivateConnection2: the request
\* is created and its authorization started.
Request(x) ==
    /\ acs[x].phase = "none"
    /\ acs' = [acs EXCEPT ![x] =
            [acs[x] EXCEPT !.phase = "auth",
                           !.ka = IF Kind[x] = "profile" THEN WatchVisible(@, TRUE, visible)
                                  ELSE Arm(SetDbusClientWatch(@, x, 1, visible), visible)]]
    /\ UNCHANGED <<dev, link, visible>>

\* auth_done: authorization is granted.  A profile is activated, that of an
\* AddAndActivate has to be added to the settings first.
Authorized(x) ==
    /\ acs[x].phase = "auth"
    /\ IF Kind[x] = "profile"
       THEN \E overrules \in BOOLEAN :
                Becomes(InternalActivate(InPhase(x, "done"), x, visible, overrules))
       ELSE Becomes(InPhase(x, "add"))
    /\ UNCHANGED <<link, visible>>

\* auth_done: authorization is refused.  _activation_auth_done fails the active
\* connection, _add_and_activate_auth_done just drops the last reference to it.
Refused(x) ==
    /\ acs[x].phase = "auth"
    /\ acs' = [acs EXCEPT ![x] =
            IF Kind[x] = "profile"
            THEN SetStateFail([acs[x] EXCEPT !.phase = "done", !.replies = @ + 1])
            ELSE [acs[x] EXCEPT !.phase = "gone", !.replies = @ + 1]]
    /\ UNCHANGED <<dev, link, visible>>

\* activation_add_done
AddDone(x) ==
    /\ acs[x].phase = "add"
    /\ \/ \E overrules \in BOOLEAN :
              Becomes(InternalActivate(InPhase(x, "done"), x, visible, overrules))
       \/ Becomes(Replied(Fail(InPhase(x, "done"), x), x))
    /\ UNCHANGED <<link, visible>>

\* _active_connection_cleanup
ActiveConnectionCleanup ==
    /\ \E x \in ACs : acs[x].listed /\ acs[x].state = AC_DEACTIVATED
    /\ acs' = [x \in ACs |-> IF acs[x].state = AC_DEACTIVATED
                             THEN [acs[x] EXCEPT !.listed = FALSE] ELSE acs[x]]
    /\ UNCHANGED <<dev, link, visible>>

\* nm_manager_deactivate_connection, called over D-Bus
DeactivateConnection(x) ==
    /\ acs[x].listed
    /\ Becomes(Disconnect(World, x))
    /\ UNCHANGED <<link, visible>>

\* disconnect_cb: the method Disconnect of the device
DisconnectCb ==
    /\ dev.state > DISCONNECTED
    /\ Becomes(SetState(World, DEACTIVATING))
    /\ UNCHANGED <<link, visible>>

\* The change of state that follows, now or queued
Transition(w, new, now) == IF now THEN SetState(w, new) ELSE WithDev(w, QueueState(w.dev, new))

\* _set_unmanaged_flags
SetManaged(managed, now) ==
    /\ dev.managed # managed
    /\ LET w == WithDev(World, [dev EXCEPT !.managed = managed]) IN
       Becomes(IF ~managed THEN Transition(w, UNMANAGED, now)
               ELSE IF dev.state = UNMANAGED THEN Transition(w, UNAVAILABLE, now) ELSE w)
    /\ UNCHANGED <<link, visible>>

\* A keep-alive object dies or comes back; who is listed is told of it.
KeepAliveBecomes(w, x, new) ==
    LET v == WithAc(w, x, [w.acs[x] EXCEPT !.ka = new]) IN
    IF w.acs[x].listed /\ new.alive # w.acs[x].ka.alive THEN KeepAliveChanged(v, x) ELSE v

\* name_owner_changed_cb of the keep-alive object
ClientLeaves(x) ==
    /\ acs[x].phase \notin {"none", "gone"} /\ acs[x].ka.dbus_client # NoClient
    /\ Becomes(KeepAliveBecomes(World, x, ClientGone(acs[x].ka, visible)))
    /\ UNCHANGED <<link, visible>>

FlagsChangedForAll(w, xs, seen) ==
    FoldSet(LAMBDA x, v : KeepAliveBecomes(v, x, FlagsChanged(v.acs[x].ka, seen)), w, xs)

\* connection_flags_changed: the profile is shown to or hidden from sessions,
\* which every keep-alive object that watches it learns in one emission.
\* Changes that nothing watches are left out.
VisibilityChanges ==
    /\ \E x \in ACs : acs[x].ka.connection
    /\ visible' = ~visible
    /\ Becomes(FlagsChangedForAll(World, {x \in ACs : acs[x].ka.connection}, ~visible))
    /\ UNCHANGED link

\* recheck_available
RecheckAvailable(d) ==
    IF d.state = UNAVAILABLE /\ d.carrier THEN QueueState(d, DISCONNECTED)
    ELSE IF d.state >= DISCONNECTED /\ ~d.carrier THEN QueueState(d, UNAVAILABLE)
    ELSE d

\* nm_device_activate_schedule_stage3_ip_config_start
ScheduleStage3(d) ==
    IF d.fw = "unmanaged" THEN [d EXCEPT !.fw = "wait_stage_3"]
    ELSE IF d.fw = "wait_stage_3" THEN d ELSE Schedule(d, "stage3")

\* activate_stage2_device_config: one of its steps fails, before or after the
\* device is brought up or in bringing it up, or the next stage is scheduled.
Stage2(w) ==
    UNION {LET up == BringUp(v) IN
           {SetState(v, FAILED), SetState(up, FAILED)}
           \cup (IF v.link.up = "up" THEN {WithDev(up, ScheduleStage3(up.dev))} ELSE {})
           : v \in {SetState(w, CONFIG)}}

\* activate_stage1_device_prepare
Stage1(w) ==
    UNION {{SetState(v, FAILED)} \cup Stage2(v) : v \in {SetState(w, PREPARE)}}

\* The first idle source of the main loop that belongs to the device
IdleSource ==
    /\ dev.idle # << >>
    /\ LET e == Head(dev.idle)
           d == [dev EXCEPT !.idle = Tail(@)]
           w == WithDev(World, d)
       IN \/ /\ e = "state"
             /\ Becomes(SetState(WithDev(World, [d EXCEPT !.queued_state = 0]), dev.queued_state))
          \/ e = "recheck" /\ Becomes(WithDev(World, RecheckAvailable(d)))
          \/ e = "stage1" /\ \E v \in Stage1(w) : Becomes(v)
          \/ e = "stage3" /\ Becomes(SetState(w, IP_CONFIG))
    /\ UNCHANGED <<link, visible>>

\* check_ip_state: IP configuration succeeds, fails although it may fail, or
\* fails.
IpConfigEnds ==
    /\ dev.state = IP_CONFIG
    /\ \E new \in {IP_CHECK, SECONDARIES, FAILED} : Becomes(SetState(World, new))
    /\ UNCHANGED <<link, visible>>

\* check_ip_state without full_state_update: the configuration is lost later.
IpConfigLost ==
    /\ dev.state \in IP_CHECK .. ACTIVATED
    /\ Becomes(SetState(World, FAILED))
    /\ UNCHANGED <<link, visible>>

\* nm_device_start_ip_check: the gateway is pinged, or pre-up follows at once.
StartIpCheck(d, ping) ==
    IF ping THEN [d EXCEPT !.ping = TRUE] ELSE [d EXCEPT !.call = "pre-up"]

\* fw_change_zone_cb
FirewallAnswers ==
    /\ dev.fw \in {"wait_stage_3", "wait_ip_config"}
    /\ LET d == [dev EXCEPT !.fw = "initialized"] IN
       IF dev.fw = "wait_stage_3" THEN dev' = ScheduleStage3(d)
       ELSE \E ping \in BOOLEAN : dev' = StartIpCheck(d, ping)
    /\ UNCHANGED <<acs, link, visible>>

\* ip_check_ping_watch_cb with success, ip_check_ping_timeout_cb
PingEnds ==
    /\ dev.ping
    /\ dev' = [dev EXCEPT !.ping = FALSE, !.call = "pre-up"]
    /\ UNCHANGED <<acs, link, visible>>

\* dispatcher_complete_proceed_state
PreUpDone ==
    /\ dev.call = "pre-up"
    /\ dev' = QueueState([dev EXCEPT !.call = "none"], SECONDARIES)
    /\ UNCHANGED <<acs, link, visible>>

\* deactivate_dispatcher_complete
PreDownDone ==
    /\ dev.call = "pre-down"
    /\ dev' = IF DeactivateAsync
              THEN [dev EXCEPT !.call = "none", !.deactivating = TRUE]
              ELSE QueueState([dev EXCEPT !.call = "none"], DISCONNECTED)
    /\ UNCHANGED <<acs, link, visible>>

\* Plausible bug: an error ends the deactivation as a cancellation does.
AsyncFailureIgnored ==
    /\ dev.deactivating
    /\ dev' = [dev EXCEPT !.deactivating = FALSE]
    /\ UNCHANGED <<acs, link, visible>>

\* deactivate_async_ready with deactivate_ready
DeactivateAsyncReady ==
    /\ dev.deactivating
    /\ dev' = QueueState([dev EXCEPT !.deactivating = FALSE], DISCONNECTED)
    /\ UNCHANGED <<acs, link, visible>>

\* The cable is plugged or pulled, or the driver begins or ceases to fail.
LinkChanges ==
    /\ link' \in Links \ {link}
    /\ UNCHANGED <<dev, acs, visible>>

\* nm_device_set_carrier_from_platform on the notification of the kernel
CarrierEvent ==
    /\ dev.carrier # link.carrier
    /\ Becomes(SetCarrier(World, link.carrier))
    /\ UNCHANGED <<link, visible>>

\* carrier_disconnected_action_cb
CarrierDeferTimeout ==
    /\ dev.carrier_defer
    /\ dev' = CarrierChanged([dev EXCEPT !.carrier_defer = FALSE], FALSE)
    /\ UNCHANGED <<acs, link, visible>>

\* carrier_wait_timeout
CarrierWaitTimeout ==
    /\ dev.carrier_wait
    /\ LET w == WithDev(World, [dev EXCEPT !.carrier_wait = FALSE]) IN
       Becomes(IF dev.carrier THEN w ELSE CarrierWaitCheck(w))
    /\ UNCHANGED <<link, visible>>

-----------------------------------------------------------------------------
Next ==
    \/ \E x \in ACs : \/ Request(x) \/ Authorized(x) \/ Refused(x) \/ AddDone(x)
                      \/ DeactivateConnection(x) \/ ClientLeaves(x)
    \/ VisibilityChanges
    \/ ActiveConnectionCleanup
    \/ DisconnectCb
    \/ \E managed, now \in BOOLEAN : SetManaged(managed, now)
    \/ IdleSource
    \/ IpConfigEnds \/ IpConfigLost \/ FirewallAnswers \/ PingEnds
    \/ PreUpDone \/ PreDownDone \/ DeactivateAsyncReady
    \/ LinkChanges \/ CarrierEvent \/ CarrierDeferTimeout \/ CarrierWaitTimeout

\* What the device waits for; at most one of these is enabled.
Answer ==
    IpConfigEnds \/ FirewallAnswers \/ PingEnds \/ PreUpDone \/ PreDownDone
    \/ DeactivateAsyncReady

(***************************************************************************)
(* The main loop runs idle sources, fires timers and dispatches events of  *)
(* the kernel; firewalld and the dispatcher answer or their calls time     *)
(* out; DHCP ends with a lease or a timeout.  The first conjunct is        *)
(* WF_vars(IdleSource), written out because IdleSource is enabled exactly  *)
(* when a source is pending and TLC is slow to find that out.              *)
(***************************************************************************)
Fairness ==
    /\ []<>(dev.idle = << >>) \/ []<><<IdleSource>>_vars
    /\ WF_vars(Answer) /\ WF_vars(CarrierEvent)
    /\ WF_vars(CarrierDeferTimeout) /\ WF_vars(CarrierWaitTimeout)

Spec == Init /\ [][Next]_vars /\ Fairness

-----------------------------------------------------------------------------
(* Properties *)

\* An active connection that is going on
Live(x) == acs[x].listed /\ acs[x].state < AC_DEACTIVATED

(***************************************************************************)
(* No active connection is forgotten: one that clients see and that has    *)
(* not ended is the current or the queued request of the device, whatever  *)
(* superseded it, failed, was unplugged or unmanaged in between.  There is *)
(* one exception, which the code has (src/devices/nm-device.c:12571): a    *)
(* request that waited for the carrier takes the place of one that needs   *)
(* no carrier and whose first stage has not run.                           *)
(***************************************************************************)
Overtaken(x) ==
    /\ x \notin NeedsCarrier /\ acs[x].state = AC_UNKNOWN
    /\ \E y \in NeedsCarrier : acs[y].phase = "done"

NoneForgotten ==
    \A x \in ACs : Live(x) => x \in {dev.act_request, dev.queued_act_request} \/ Overtaken(x)

(***************************************************************************)
(* An activation whose keep-alive object is dead is being ended, also when *)
(* the client left while the request was still being authorized or added   *)
(* (active_connection_added, src/nm-policy.c:2229).                        *)
(***************************************************************************)
DeadIsEnded ==
    \A x \in ACs : acs[x].listed /\ ~acs[x].ka.alive => acs[x].state >= AC_DEACTIVATING

(***************************************************************************)
(* The state of the current request agrees with that of the device: the    *)
(* device is past DISCONNECTED only with a request, which is activating    *)
(* while the device is and ends when the device begins to end.             *)
(***************************************************************************)
RequestFollowsDevice ==
    dev.state > DISCONNECTED =>
        /\ dev.act_request # None
        /\ LET state == acs[dev.act_request].state IN
           /\ dev.state < ACTIVATED => state = AC_ACTIVATING
           /\ dev.state = ACTIVATED => state = AC_ACTIVATED
           /\ dev.state > ACTIVATED => state >= AC_DEACTIVATING

(***************************************************************************)
(* Nothing outlives the state that started it: a stage, a call to          *)
(* firewalld, a ping, a dispatcher call or an asynchronous deactivation is *)
(* pending only in the state whose activation or deactivation it serves,   *)
(* so that its callback cannot move another activation along.              *)
(***************************************************************************)
NothingOutlivesItsState ==
    /\ Pending(dev, "stage1") => dev.state = DISCONNECTED /\ dev.act_request # None
    /\ Pending(dev, "stage3") => dev.state = CONFIG
    /\ dev.fw = "wait_stage_3" => dev.state = CONFIG
    /\ dev.fw = "wait_ip_config" \/ dev.ping \/ dev.call = "pre-up" => dev.state = IP_CHECK
    /\ dev.call = "pre-down" \/ dev.deactivating => dev.state = DEACTIVATING

(***************************************************************************)
(* A request over D-Bus is answered exactly once: never twice, and not at  *)
(* all only as long as polkit or the settings have it.                     *)
(***************************************************************************)
AnsweredOnce ==
    \A x \in ACs : acs[x].replies = IF acs[x].phase \in {"done", "gone"} THEN 1 ELSE 0

(***************************************************************************)
(* A device that is going down gets there: it never stays in DEACTIVATING  *)
(* or FAILED, whichever of the dispatcher, the device class and the queued *)
(* state has to move it on (deactivate_dispatcher_complete,                *)
(* src/devices/nm-device.c:15539).                                         *)
(***************************************************************************)
DeactivationEnds == []<>(dev.state \notin {DEACTIVATING, FAILED})

(***************************************************************************)
(* A queued request does not stay queued: it is activated, superseded or   *)
(* it fails, so that the place is free again once requests stop coming.    *)
(* The exception of NoneForgotten has a counterpart here: a request that   *)
(* waited for the carrier stays queued as long as one that needs none and  *)
(* was faster is active (src/devices/nm-device.c:12568).                   *)
(***************************************************************************)
KeptQueued ==
    /\ dev.queued_act_request \in NeedsCarrier
    /\ dev.act_request \in ACs \ NeedsCarrier

QueuedIsServed == []<>(dev.queued_act_request = None \/ KeptQueued)

(***************************************************************************)
(* NetworkManager "will deactivate the device if carrier drops for more    *)
(* than a few seconds" (man/NetworkManager.conf.xml:976).                  *)
(***************************************************************************)
DeactivatesWithoutCarrier ==
    ~dev.carrier /\ dev.state > DISCONNECTED ~> dev.carrier \/ dev.state <= DISCONNECTED
=============================================================================
