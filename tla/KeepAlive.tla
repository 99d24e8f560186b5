------------------------------ MODULE KeepAlive ------------------------------
(***************************************************************************)
(* NMKeepAlive (src/nm-keep-alive.c): the object that says for how long an *)
(* active connection is wanted.  It is bound to a D-Bus client, to the     *)
(* visibility of a profile, to both or to neither.                         *)
(*                                                                         *)
(* The object is a record, and every function of the file is an operator   *)
(* from records to records, so that the modules that own keep-alive        *)
(* objects can call it within their own steps.  The flag VISIBLE of the    *)
(* profile belongs to NMSettingsConnection and is passed as an argument.   *)
(* A subscription has a number; the GetNameOwner call that confirms a      *)
(* client carries the number of its subscription, and 0 stands for NULL.   *)
(***************************************************************************)
EXTENDS Naturals

CONSTANT NoClient

\* nm_keep_alive_init
NewKeepAlive ==
    [armed |-> FALSE, disarmed |-> FALSE, alive |-> TRUE,
     dbus_client |-> NoClient, dbus_client_watching |-> FALSE,
     dbus_client_confirmed |-> FALSE, subscription_id |-> 0,
     confirm_call |-> 0, connection |-> FALSE, connection_was_visible |-> FALSE]

\* _is_alive: a D-Bus client watch overrules the visibility of the profile.
IsAlive(k, visible) ==
    \/ ~k.armed
    \/ k.dbus_client_watching /\ k.dbus_client # NoClient
    \/ /\ ~k.dbus_client_watching
       /\ ~(k.connection /\ k.connection_was_visible /\ ~visible)

\* Plausible bug: the owner is only asked for once, whatever client comes next.
AsksOwnerOnce(k) ==
    /\ ~k.disarmed /\ k.armed /\ k.dbus_client_watching
    /\ k.dbus_client # NoClient /\ k.subscription_id = 1 /\ ~k.dbus_client_confirmed

\* _is_alive_dbus_client: being asked for the first time, it asks the bus.
AsksOwner(k) ==
    /\ ~k.disarmed /\ k.armed /\ k.dbus_client_watching
    /\ k.dbus_client # NoClient /\ ~k.dbus_client_confirmed

\* Plausible bug: the flag is evaluated for a disarmed object as well.
NotifyAliveAlways(k, visible) ==
    [k EXCEPT !.alive = IsAlive(k, visible),
              !.dbus_client_confirmed = @ \/ AsksOwner(k),
              !.confirm_call = IF AsksOwner(k) THEN k.subscription_id ELSE @]

\* _notify_alive
NotifyAlive(k, visible) ==
    IF k.disarmed THEN k
    ELSE [k EXCEPT !.alive = IsAlive(k, visible),
                   !.dbus_client_confirmed = @ \/ AsksOwner(k),
                   !.confirm_call = IF AsksOwner(k) THEN k.subscription_id ELSE @]

\* cleanup_dbus_watch: cancels the call and drops the subscription.
CleanupDbusWatch(k) ==
    [k EXCEPT !.dbus_client = NoClient, !.subscription_id = 0,
              !.confirm_call = 0]

\* _set_settings_connection_watch_visible, for the one profile of the owner
SetConnection(k, watch, visible) ==
    IF k.connection = watch THEN k
    ELSE [k EXCEPT !.connection = watch /\ ~k.disarmed,
                   !.connection_was_visible =
                        IF watch /\ ~k.disarmed THEN visible ELSE @]

\* nm_keep_alive_set_settings_connection_watch_visible; an unchanged
\* connection returns before the notification.
WatchVisible(k, watch, visible) ==
    IF k.connection = watch THEN k
    ELSE NotifyAlive(SetConnection(k, watch, visible), visible)

\* nm_keep_alive_set_dbus_client_watch; id is the number of the subscription.
SetDbusClientWatch(k, client, id, visible) ==
    LET c == CleanupDbusWatch(k) IN
    IF k.disarmed THEN k
    ELSE IF client # NoClient
    THEN NotifyAlive([c EXCEPT !.dbus_client = client,
                               !.dbus_client_watching = TRUE,
                               !.dbus_client_confirmed = FALSE,
                               !.subscription_id = id], visible)
    ELSE NotifyAlive([c EXCEPT !.dbus_client_watching = FALSE], visible)

\* nm_keep_alive_arm
Arm(k, visible) ==
    IF k.armed THEN k ELSE NotifyAlive([k EXCEPT !.armed = TRUE], visible)

\* nm_keep_alive_disarm
Disarm(k) ==
    CleanupDbusWatch([k EXCEPT !.disarmed = TRUE, !.connection = FALSE])

\* name_owner_changed_cb and the failing branch of get_name_owner_cb
ClientGone(k, visible) == NotifyAlive(CleanupDbusWatch(k), visible)

\* Plausible bug: the visibility is remembered without a new evaluation.
FlagsRemembered(k, visible) == [k EXCEPT !.connection_was_visible = @ \/ visible]

\* connection_flags_changed
FlagsChanged(k, visible) ==
    NotifyAlive([k EXCEPT !.connection_was_visible = @ \/ visible], visible)
=============================================================================
