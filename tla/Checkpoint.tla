----------------------------- MODULE Checkpoint -----------------------------
(***************************************************************************)
(* Checkpoints: NMCheckpointManager (src/nm-checkpoint-manager.c) keeps    *)
(* them in the order of their creation, NMCheckpoint (src/nm-checkpoint.c) *)
(* remembers the devices and rolls them back, when a client asks for it or *)
(* when its timeout expires.  Meanwhile clients reconfigure the devices,   *)
(* edit and delete profiles, and links come and go.                        *)
(*                                                                         *)
(* Devices are interfaces; every profile belongs to one of them.  An       *)
(* NMDevice that is removed leaves every checkpoint, so that an entry in   *)
(* the table of a checkpoint can only mean the NMDevice that exists now,   *)
(* and one that appears again is in no table.  The stages of an activation *)
(* are those of DeviceActivation: here a device that is activating or      *)
(* activated is active, and next to it there is at most one activation     *)
(* that is still being authorized (_internal_activate_device has not run,  *)
(* so that the active connection is not listed).                           *)
(***************************************************************************)
EXTENDS Integers, FiniteSets, FiniteSetsExt

CONSTANTS Devices, Software, Profiles, None,
          Iface,            \* the device a profile is for
          FlagChoices,      \* the flags that clients create checkpoints with
          MaxCheckpoints,   \* checkpoints created in a behaviour
          MaxEdits,         \* contents of a profile
          MaxVersions,      \* activations in a behaviour
          MaxEvents         \* other changes of devices and profiles

Flags == {"destroy_all", "delete_new_connections", "disconnect_new_devices",
          "allow_overlapping"}

ASSUME CheckpointAssumption ==
    /\ FlagChoices \subseteq SUBSET Flags
    /\ IsFiniteSet(Devices) /\ IsFiniteSet(Profiles)
    /\ Software \subseteq Devices /\ Iface \in [Profiles -> Devices] /\ None \notin Profiles
    /\ MaxCheckpoints \in Nat /\ MaxEdits \in Nat /\ MaxVersions \in Nat /\ MaxEvents \in Nat

VARIABLES device,        \* the devices of NMManager
          settings,      \* the profiles of NMSettings
          checkpoints,   \* checkpoints_lst_head; the ids give its order
          next_id,       \* the number of the next checkpoint's D-Bus path
          next_version,  \* the next version id of an active connection
          reply,         \* what the rollback that has just ended reports
          events         \* counts what MaxEvents bounds

vars == <<device, settings, checkpoints, next_id, next_version, reply, events>>

\* "active" stands for the states above DISCONNECTED and below DEACTIVATING,
\* "deactivating" for those above.
States == {"unmanaged", "disconnected", "active", "deactivating"}

DeviceRecords ==
    [place : {"absent", "unrealized", "real"}, state : States, unmanaged_explicit : BOOLEAN,
     act : Profiles \cup {None}, version : Nat, pending : Profiles \cup {None}]

Entries ==
    [state : States, unmanaged_explicit : BOOLEAN, profile : Profiles \cup {None},
     content : Nat, version : Nat]

Checkpoints ==
    [id : Nat, devices : SUBSET Devices, removed_devices : SUBSET Devices,
     saved : [Devices -> Entries], flags : SUBSET Flags,
     connection_uuids : SUBSET Profiles]

\* stale is not reported: the devices whose profile could not be updated.
Replies == [of : Checkpoints, ok : SUBSET Devices, stale : SUBSET Devices]

NoReply == [of |-> None, ok |-> {}, stale |-> {}]

Gone == [place |-> "absent", state |-> "unmanaged", unmanaged_explicit |-> FALSE,
         act |-> None, version |-> 0, pending |-> None]

Plugged == [Gone EXCEPT !.place = "real", !.state = "disconnected"]

\* Nothing goes on on a device that is absent.
TypeOK ==
    /\ device \in [Devices -> DeviceRecords]
    /\ \A d \in Devices : device[d].place = "absent" => device[d] = Gone
    /\ settings \in [Profiles -> [exists : BOOLEAN, content : Nat]]
    /\ checkpoints \subseteq Checkpoints
    /\ next_id \in Nat /\ next_version \in Nat /\ events \in Nat
    /\ reply = NoReply \/ reply \in Replies

Init ==
    /\ device = [d \in Devices |-> Plugged]
    /\ settings = [p \in Profiles |-> [exists |-> TRUE, content |-> 0]]
    /\ checkpoints = {} /\ next_id = 0 /\ next_version = 1
    /\ reply = NoReply /\ events = 0

-----------------------------------------------------------------------------
(* The table of a checkpoint *)

\* device_checkpoint_create; every device that is taken up is real.
DeviceCheckpoint(d) ==
    LET r == device[d] IN
    [state |-> r.state, unmanaged_explicit |-> r.unmanaged_explicit, profile |-> r.act,
     content |-> IF r.act = None THEN 0 ELSE settings[r.act].content,
     version |-> r.version]

\* Plausible bug: the checkpoint does not learn that the device is removed.
MoveNothing(c, d) == c

\* _move_dev_to_removed_devices
MoveToRemoved(c, d) ==
    IF d \in c.devices
    THEN [id |-> c.id, devices |-> c.devices \ {d},
          removed_devices |-> c.removed_devices \cup {d}, saved |-> c.saved,
          flags |-> c.flags, connection_uuids |-> c.connection_uuids]
    ELSE c

\* nm_checkpoint_includes_devices and nm_checkpoint_includes_devices_of
IncludesDevices(c, ds) == c.devices \cap ds # {}

\* nm_checkpoint_new
NewCheckpoint(ds, flags) ==
    [id |-> next_id, devices |-> ds, removed_devices |-> {},
     saved |-> [d \in Devices |->
                IF d \in ds THEN DeviceCheckpoint(d)
                ELSE [state |-> "unmanaged", unmanaged_explicit |-> FALSE, profile |-> None,
                      content |-> 0, version |-> 0]],
     flags |-> flags,
     connection_uuids |-> IF "delete_new_connections" \in flags
                          THEN {p \in Profiles : settings[p].exists} ELSE {}]

-----------------------------------------------------------------------------
(* Rollback.  w.device and w.settings are the state so far, w.ok the       *)
(* devices that are reported with NM_ROLLBACK_RESULT_OK, w.stale those     *)
(* whose profile could not be updated.  For the devices of bad.write the   *)
(* profile cannot be written, for those of bad.activate it cannot be       *)
(* activated.                                                              *)

World == [device |-> device, settings |-> settings, ok |-> {}, stale |-> {}]

WithDevice(w, d, r) ==
    [device |-> [w.device EXCEPT ![d] = r], settings |-> w.settings, ok |-> w.ok,
     stale |-> w.stale]

WithProfile(w, p, content) ==
    [device |-> w.device,
     settings |-> [w.settings EXCEPT ![p] = [exists |-> TRUE, content |-> content]],
     ok |-> w.ok, stale |-> w.stale]

Reported(w, d) ==
    [device |-> w.device, settings |-> w.settings, ok |-> w.ok \cup {d}, stale |-> w.stale]

NotUpdated(w, d) ==
    [device |-> w.device, settings |-> w.settings, ok |-> w.ok, stale |-> w.stale \cup {d}]

\* nm_settings_connection_update, if the profile has changed; its error is
\* ignored.
UpdateConnection(w, e, d, bad) ==
    IF w.settings[e.profile].content # e.content /\ d \in bad.write
    THEN NotUpdated(w, d) ELSE WithProfile(w, e.profile, e.content)

\* nm_settings_add_connection creates the unrealized device of a profile.
AddConnection(w, p, content) ==
    LET v == WithProfile(w, p, content)
        d == Iface[p]
    IN IF d \in Software /\ w.device[d].place = "absent"
       THEN WithDevice(v, d, [Gone EXCEPT !.place = "unrealized"]) ELSE v

\* nm_device_state_changed to DEACTIVATING, of a device that is active
Deactivate(r) == IF r.state = "active" THEN [r EXCEPT !.state = "deactivating"] ELSE r

\* Plausible bug: an activation made since the checkpoint goes unnoticed.
NeedActivationByProfile(w, e, d) ==
    LET p == e.profile IN
    \/ ~w.settings[p].exists \/ w.settings[p].content # e.content
    \/ w.device[d].act # p

\* find_settings_connection: whether the profile has to be activated again.
\* An active connection counts as long as it is listed, deactivating or not.
NeedActivation(w, e, d) ==
    LET p == e.profile IN
    \/ ~w.settings[p].exists \/ w.settings[p].content # e.content
    \/ w.device[d].act # p \/ w.device[d].version # e.version

\* Plausible bug: the interface is supposed to exist once its profile does.
FoundByProfile(w, d, known, added) == known \/ added

\* restore_and_activate_connection: whether there is an NMDevice to activate.
\* One that the entry has lost is looked for only after the profile was added.
Found(w, d, known, added) ==
    known \/ (added /\ d \in Software /\ w.device[d].place # "absent")

\* restore_and_activate_connection; known tells whether the entry still has
\* its NMDevice.
RestoreAndActivate(w, e, d, known, bad) ==
    LET p == e.profile
        exists == w.settings[p].exists
        v == IF exists THEN UpdateConnection(w, e, d, bad) ELSE AddConnection(w, p, e.content)
        r == Deactivate(v.device[d])
    IN
    IF ~exists /\ d \in bad.write THEN w
    ELSE IF ~Found(v, d, known, ~exists) THEN v
    ELSE IF ~NeedActivation(w, e, d) THEN Reported(v, d)
    ELSE IF d \in bad.activate THEN WithDevice(v, d, r)
    ELSE Reported(WithDevice(v, d, [r EXCEPT !.pending = p]), d)

\* nm_checkpoint_rollback, a device of removed_devices
RollbackRemoved(w, e, d, bad) ==
    IF e.profile = None THEN Reported(w, d)
    ELSE RestoreAndActivate(w, e, d, FALSE, bad)

\* The flag USER_EXPLICIT is given back; the change of state is queued.
RestoreManaged(r, e) ==
    IF r.unmanaged_explicit /\ ~e.unmanaged_explicit
    THEN [r EXCEPT !.unmanaged_explicit = FALSE] ELSE r

\* nm_checkpoint_rollback, a device that is still there
RollbackDevice(w, e, d, bad) ==
    LET r == RestoreManaged(w.device[d], e)
        unmanage == r.state # "unmanaged" \/ e.unmanaged_explicit
    IN
    IF e.state = "unmanaged"
    THEN Reported(WithDevice(w, d, [r EXCEPT !.unmanaged_explicit = @ \/ unmanage]), d)
    ELSE IF e.profile # None THEN RestoreAndActivate(WithDevice(w, d, r), e, d, TRUE, bad)
    ELSE Reported(WithDevice(w, d, Deactivate(r)), d)

\* What becomes of a device when its profile p is deleted: _deactivate_if_active
\* of NMPolicy, and an unrealized device without a profile goes away.  An
\* activation of p that is being authorized is not listed, and goes on.
WithoutProfile(w, p, d) ==
    LET r == IF w.device[d].act = p THEN Deactivate(w.device[d]) ELSE w.device[d]
    IN IF r.place = "unrealized" /\ ~\E x \in Profiles \ {p} : Iface[x] = d /\ w.settings[x].exists
       THEN Gone ELSE r

\* nm_settings_connection_delete
DeleteConnection(w, p) ==
    [device |-> [d \in Devices |-> WithoutProfile(w, p, d)],
     settings |-> [w.settings EXCEPT ![p] = [@ EXCEPT !.exists = FALSE]],
     ok |-> w.ok, stale |-> w.stale]

\* Plausible bug: every profile that was not active is taken for a new one.
DeleteUnsaved(w, c) ==
    FoldSet(LAMBDA p, v : DeleteConnection(v, p), w,
            {p \in Profiles : w.settings[p].exists /\ \A d \in c.devices : c.saved[d].profile # p})

\* nm_checkpoint_rollback, DELETE_NEW_CONNECTIONS
DeleteNew(w, c) ==
    FoldSet(LAMBDA p, v : DeleteConnection(v, p), w,
            {p \in Profiles : w.settings[p].exists /\ p \notin c.connection_uuids})

\* nm_checkpoint_rollback, DISCONNECT_NEW_DEVICES
DisconnectNew(w, c) ==
    [device |-> [d \in Devices |->
                 IF d \in c.devices THEN w.device[d] ELSE Deactivate(w.device[d])],
     settings |-> w.settings, ok |-> w.ok, stale |-> w.stale]

\* nm_checkpoint_rollback, the two loops over the devices
RollbackAllRemoved(w, c, bad) ==
    FoldSet(LAMBDA d, v : RollbackRemoved(v, c.saved[d], d, bad), w, c.removed_devices)

RollbackAllDevices(w, c, bad) ==
    FoldSet(LAMBDA d, v : RollbackDevice(v, c.saved[d], d, bad), w, c.devices)

\* nm_checkpoint_rollback
RollbackWorld(c, bad) ==
    LET restored == RollbackAllDevices(RollbackAllRemoved(World, c, bad), c, bad)
        deleted == IF "delete_new_connections" \in c.flags
                   THEN DeleteNew(restored, c) ELSE restored
    IN IF "disconnect_new_devices" \in c.flags THEN DisconnectNew(deleted, c) ELSE deleted

\* rollback_checkpoint: the younger checkpoints that are destroyed with c
Obsolete(c) == {x \in checkpoints : x.id > c.id /\ IncludesDevices(x, c.devices)}

-----------------------------------------------------------------------------
(* Operations on checkpoints, after their authorization *)

Silent == reply' = NoReply

\* Plausible bug: a checkpoint is in the way only if it has all the devices.
AdmitsUnlessAll(ds) == \A c \in checkpoints : ~(ds \subseteq c.devices)

\* nm_checkpoint_manager_create: whether ds overlap no checkpoint
Admits(ds) == \A c \in checkpoints : ~IncludesDevices(c, ds)

\* nm_checkpoint_manager_create; all stands for the empty list of paths.
Create(ds, all, flags) ==
    /\ next_id < MaxCheckpoints
    /\ ds # {} /\ \A d \in ds : device[d].place = "real"
    /\ all => ds = {d \in Devices : device[d].place = "real"}
    /\ "disconnect_new_devices" \in flags => all
    /\ {"destroy_all", "allow_overlapping"} \cap flags = {} => Admits(ds)
    /\ checkpoints' = (IF "destroy_all" \in flags THEN {} ELSE checkpoints)
                        \cup {NewCheckpoint(ds, flags)}
    /\ next_id' = next_id + 1
    /\ Silent /\ UNCHANGED <<device, settings, next_version, events>>

\* nm_checkpoint_manager_destroy for one path
Destroy(c) ==
    /\ checkpoints' = checkpoints \ {c}
    /\ Silent /\ UNCHANGED <<device, settings, next_id, next_version, events>>

\* nm_checkpoint_manager_destroy_all
DestroyAll ==
    /\ checkpoints # {} /\ checkpoints' = {}
    /\ Silent /\ UNCHANGED <<device, settings, next_id, next_version, events>>

\* rollback_checkpoint
RollbackCheckpoint(c, bad) ==
    LET w == RollbackWorld(c, bad) IN
    /\ device' = w.device /\ settings' = w.settings
    /\ checkpoints' = checkpoints \ (Obsolete(c) \cup {c})
    /\ reply' = [of |-> c, ok |-> w.ok, stale |-> w.stale]
    /\ UNCHANGED <<next_id, next_version, events>>

\* nm_checkpoint_manager_rollback, or _timeout_cb with rollback_timeout_cb: a
\* timeout may be any number of seconds and be adjusted or switched off, so
\* that a rollback can come at any time or never.
Rollback(c) ==
    LET all == {d \in c.devices \cup c.removed_devices : c.saved[d].profile # None} IN
    \E bad \in [write : SUBSET all, activate : SUBSET all] : RollbackCheckpoint(c, bad)

\* nm_checkpoint_adjust_rollback_timeout: the timer, and the property
\* RollbackTimeout of a checkpoint that is age_ms old
MaxUint32 == (256 * 256) * (256 * 256) - 1
AtMostMaxUint32(n) == IF n <= MaxUint32 THEN n ELSE MaxUint32

TimerMs(add_timeout) == AtMostMaxUint32(add_timeout * 1000)

AdjustedTimeout(age_ms, add_timeout) ==
    AtMostMaxUint32((age_ms + add_timeout * 1000 + 500) \div 1000)

-----------------------------------------------------------------------------
(* What happens to devices and profiles meanwhile *)

Event == events < MaxEvents /\ events' = events + 1

Changes(d, r) ==
    /\ device' = [device EXCEPT ![d] = r]
    /\ Silent /\ UNCHANGED <<settings, checkpoints, next_id>>

\* The device d activates p, with a version id nobody had before; pending is
\* what is still being authorized.
Activated(d, p, pending) ==
    /\ next_version <= MaxVersions
    /\ Changes(d, [device[d] EXCEPT !.place = "real", !.state = "active", !.act = p,
                                    !.version = next_version, !.pending = pending])
    /\ next_version' = next_version + 1 /\ UNCHANGED events

\* A client activates a profile, or applies the active one again.
Activate(p) ==
    /\ settings[p].exists
    /\ \/ device[Iface[p]].place = "unrealized"
       \/ device[Iface[p]].state \in {"disconnected", "active"}
    /\ Activated(Iface[p], p, device[Iface[p]].pending)

\* An activation that a rollback has asked for is authorized and carried out,
\* or it fails.  Nothing looks whether its profile is still there.
PendingEnds(d) ==
    /\ device[d].pending # None
    /\ \/ Activated(d, device[d].pending, None)
       \/ /\ Changes(d, [device[d] EXCEPT !.pending = None])
          /\ UNCHANGED <<next_version, events>>

\* The device has gone down.
DeactivationEnds(d) ==
    /\ device[d].state = "deactivating"
    /\ Changes(d, [device[d] EXCEPT !.state = "disconnected", !.act = None, !.version = 0])
    /\ UNCHANGED <<next_version, events>>

\* A client disconnects the device, or its activation fails.
Disconnect(d) ==
    /\ device[d].state = "active"
    /\ Changes(d, Deactivate(device[d]))
    /\ Event /\ UNCHANGED next_version

\* The property Managed is written, or the queued change of state comes.
SetManaged(d, managed) ==
    /\ device[d].place = "real"
    /\ IF managed THEN device[d].unmanaged_explicit \/ device[d].state = "unmanaged"
       ELSE device[d].state # "unmanaged"
    /\ Changes(d, IF managed
                  THEN [device[d] EXCEPT !.unmanaged_explicit = FALSE,
                                         !.state = IF @ = "unmanaged" THEN "disconnected" ELSE @]
                  ELSE [Gone EXCEPT !.place = "real", !.unmanaged_explicit = TRUE])
    /\ Event /\ UNCHANGED next_version

\* A client edits a profile, deletes it or adds it again (a profile that is
\* still in use is not added by another name of the same uuid).
EditProfile(p) ==
    /\ settings[p].exists /\ settings[p].content < MaxEdits
    /\ settings' = [settings EXCEPT ![p].content = @ + 1]
    /\ Event /\ Silent /\ UNCHANGED <<device, checkpoints, next_id, next_version>>

DeleteProfile(p) ==
    LET w == DeleteConnection(World, p) IN
    /\ settings[p].exists
    /\ device' = w.device /\ settings' = w.settings
    /\ Event /\ Silent /\ UNCHANGED <<checkpoints, next_id, next_version>>

AddProfile(p) ==
    LET w == AddConnection(World, p, 0) IN
    /\ ~settings[p].exists /\ \A d \in Devices : p \notin {device[d].act, device[d].pending}
    /\ device' = w.device /\ settings' = w.settings
    /\ Event /\ Silent /\ UNCHANGED <<checkpoints, next_id, next_version>>

\* The link of d is gone: remove_device, or nm_device_unrealize for a software
\* device, which stays as long as there is a profile for it.  Both emit
\* NM_MANAGER_DEVICE_REMOVED.
LinkGone(d) ==
    /\ device[d].place = "real"
    /\ device' = [device EXCEPT ![d] =
            IF d \in Software /\ \E p \in Profiles : Iface[p] = d /\ settings[p].exists
            THEN [Gone EXCEPT !.place = "unrealized"] ELSE Gone]
    /\ checkpoints' = {MoveToRemoved(c, d) : c \in checkpoints}
    /\ Event /\ Silent /\ UNCHANGED <<settings, next_id, next_version>>

LinkAppears(d) ==
    /\ device[d].place # "real"
    /\ Changes(d, [Plugged EXCEPT !.pending = device[d].pending])
    /\ Event /\ UNCHANGED next_version

-----------------------------------------------------------------------------
Next ==
    \/ \E ds \in SUBSET Devices, all \in BOOLEAN, flags \in FlagChoices :
            Create(ds, all, flags)
    \/ \E c \in checkpoints : Destroy(c) \/ Rollback(c)
    \/ DestroyAll
    \/ \E p \in Profiles : Activate(p) \/ EditProfile(p) \/ DeleteProfile(p) \/ AddProfile(p)
    \/ \E d \in Devices :
        \/ PendingEnds(d) \/ DeactivationEnds(d) \/ Disconnect(d)
        \/ \E managed \in BOOLEAN : SetManaged(d, managed)
        \/ LinkGone(d) \/ LinkAppears(d)

Spec == Init /\ [][Next]_vars

-----------------------------------------------------------------------------
(* Properties *)

(***************************************************************************)
(* The table of a checkpoint holds only devices that exist: whichever way  *)
(* a device goes and however many checkpoints have it, each of them has    *)
(* moved it to removed_devices (_move_dev_to_removed_devices,              *)
(* src/nm-checkpoint.c:480), so that a rollback never takes another        *)
(* NMDevice of the same name for it.                                       *)
(***************************************************************************)
TrackedIsReal ==
    \A c \in checkpoints :
        /\ \A d \in c.devices : device[d].place = "real"
        /\ c.devices \cap c.removed_devices = {}

(***************************************************************************)
(* Two checkpoints have a device in common only if the younger one was     *)
(* created with ALLOW_OVERLAPPING, however devices have come and gone and  *)
(* other checkpoints ended since (nm_checkpoint_manager_create,            *)
(* src/nm-checkpoint-manager.c:170).                                       *)
(***************************************************************************)
OverlapOnlyOnPurpose ==
    \A c, x \in checkpoints :
        x.id > c.id /\ IncludesDevices(x, c.devices) => "allow_overlapping" \in x.flags

(***************************************************************************)
(* What NM_ROLLBACK_RESULT_OK means for a device that had a profile        *)
(* active, whatever happened since and whichever steps failed for it and   *)
(* for others.  The device still has the same activation or is going to    *)
(* activate the profile.  The profile is there, unless it did not exist    *)
(* any more when the checkpoint was created (its device was going down):   *)
(* then DELETE_NEW_CONNECTIONS deletes it again after it was restored, and *)
(* OK is reported all the same.  It has its old content unless the update  *)
(* failed, an error that src/nm-checkpoint.c:229 ignores.                  *)
(***************************************************************************)
RollbackRestores ==
    reply # NoReply =>
        \A d \in reply.ok \cap reply.of.devices :
            LET e == reply.of.saved[d]
                p == e.profile
                new == /\ "delete_new_connections" \in reply.of.flags
                       /\ p \notin reply.of.connection_uuids
            IN e.state # "unmanaged" /\ p # None
               => /\ \/ device[d].pending = p
                     \/ device[d].act = p /\ device[d].version = e.version
                  /\ new => ~settings[p].exists
                  /\ ~new => settings[p].exists
                  /\ d \notin reply.stale => settings[p].content = e.content

\* The device d and its profile are what the entry e says.
AsSaved(e, d) ==
    /\ e.profile # None /\ settings[e.profile] = [exists |-> TRUE, content |-> e.content]
    /\ device[d].act = e.profile /\ device[d].version = e.version

\* A reason of the rollback to c for taking the device d down
MayTakeDown(c, d) ==
    \/ d \in c.devices \cup c.removed_devices /\ ~AsSaved(c.saved[d], d)
    \/ d \notin c.devices /\ "disconnect_new_devices" \in c.flags
    \/ "delete_new_connections" \in c.flags /\ device[d].act \notin c.connection_uuids

(***************************************************************************)
(* A rollback spares what it has no business with: a profile that the      *)
(* checkpoint knows and that still exists is there afterwards, and a       *)
(* device goes down only if it differs from what the checkpoint has saved  *)
(* of it, if it is new and new devices are to be disconnected, or if its   *)
(* profile is new and new profiles are to be deleted                       *)
(* (src/nm-checkpoint.c:280, 409, 421, 449).                               *)
(***************************************************************************)
RollbackSpares ==
    [][reply' # reply /\ reply' # NoReply =>
        /\ \A p \in reply'.of.connection_uuids : settings[p].exists => settings'[p].exists
        /\ \A d \in Devices : device[d].state = "active" /\ device'[d].state # "active"
                             => MayTakeDown(reply'.of, d)]_vars

(***************************************************************************)
(* "NM_ROLLBACK_RESULT_OK: the rollback succeeded"                         *)
(* (libnm-core/nm-dbus-interface.h:957): a device that was active is       *)
(* active again or about to be.                                            *)
(***************************************************************************)
RolledBackIsUp ==
    reply # NoReply =>
        \A d \in reply.ok \cap reply.of.devices :
            reply.of.saved[d].state = "active" =>
                device[d].state = "active" \/ device[d].pending # None
=============================================================================
