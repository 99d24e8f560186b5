-------------------------- MODULE CheckpointProofs --------------------------
(***************************************************************************)
(* What holds of checkpoints for every set of devices and profiles, every  *)
(* number of checkpoints and every choice of flags.                        *)
(***************************************************************************)
EXTENDS Checkpoint, FoldProofs, TLAPS

(* Which checkpoints there are *)

\* c has the fields of a checkpoint, whatever they hold.
Shaped(c) ==
    c = [id |-> c.id, devices |-> c.devices, removed_devices |-> c.removed_devices,
         saved |-> c.saved, flags |-> c.flags, connection_uuids |-> c.connection_uuids]

\* The number of a checkpoint's path is smaller than those still to come.
Numbered ==
    next_id \in Nat /\ \A c \in checkpoints : Shaped(c) /\ c.id \in Nat /\ c.id < next_id

Inv == Numbered /\ OverlapOnlyOnPurpose

\* A removed device leaves the number and the flags of a checkpoint alone and
\* can only shrink its table (_move_dev_to_removed_devices).
LEMMA MoveShrinks ==
    ASSUME NEW c, NEW d, Shaped(c)
    PROVE  /\ Shaped(MoveToRemoved(c, d))
           /\ MoveToRemoved(c, d).id = c.id
           /\ MoveToRemoved(c, d).flags = c.flags
           /\ MoveToRemoved(c, d).devices \subseteq c.devices
<1>1. CASE d \in c.devices
  <2> DEFINE m == [id |-> c.id, devices |-> c.devices \ {d},
                   removed_devices |-> c.removed_devices \cup {d},
                   saved |-> c.saved, flags |-> c.flags,
                   connection_uuids |-> c.connection_uuids]
  <2>1. MoveToRemoved(c, d) = m
    BY <1>1 DEF MoveToRemoved, Shaped
  <2>2. Shaped(m) /\ m.id = c.id /\ m.flags = c.flags /\ m.devices \subseteq c.devices
    BY DEF Shaped
  <2> QED  BY <2>1, <2>2
<1>2. CASE d \notin c.devices
  BY <1>2 DEF MoveToRemoved
<1> QED  BY <1>1, <1>2

\* A step that only drops checkpoints keeps the invariant.
LEMMA FewerCheckpoints ==
    ASSUME Inv, checkpoints' \subseteq checkpoints, next_id' = next_id
    PROVE  Inv'
BY DEF Inv, Numbered, OverlapOnlyOnPurpose, IncludesDevices

\* No checkpoints at the start.
LEMMA InitInv == Init => Inv
BY DEF Init, Inv, Numbered, OverlapOnlyOnPurpose

\* nm_checkpoint_manager_create: the new checkpoint is the youngest one.
LEMMA CreateInv ==
    ASSUME Inv, NEW ds, NEW all, NEW flags, Create(ds, all, flags)
    PROVE  Inv'
<1> DEFINE n == NewCheckpoint(ds, flags)
<1>1. Shaped(n) /\ n.id = next_id /\ n.devices = ds /\ n.flags = flags
  BY DEF NewCheckpoint, Shaped
<1>2. \A c \in checkpoints' : c = n \/ (c \in checkpoints /\ "destroy_all" \notin flags)
  BY DEF Create
<1>3. next_id' = next_id + 1 /\ next_id \in Nat
  BY DEF Create, Inv, Numbered
<1> HIDE DEF n
<1>4. Numbered'
  BY <1>1, <1>2, <1>3 DEF Inv, Numbered
<1>5. \A c \in checkpoints : "destroy_all" \notin flags /\ IncludesDevices(n, c.devices) =>
                                "allow_overlapping" \in n.flags
  BY <1>1 DEF Create, Admits, IncludesDevices
<1>6. OverlapOnlyOnPurpose'
  <2> SUFFICES ASSUME NEW c \in checkpoints', NEW x \in checkpoints',
                      x.id > c.id, IncludesDevices(x, c.devices)
               PROVE  "allow_overlapping" \in x.flags
    BY DEF OverlapOnlyOnPurpose
  <2>1. CASE c = n
    <3>1. x # n /\ x \in checkpoints
      BY <2>1, <1>1, <1>2, <1>3
    <3> QED  BY <2>1, <3>1, <1>1, <1>3 DEF Inv, Numbered
  <2>2. CASE c # n /\ x = n
    BY <2>2, <1>2, <1>5
  <2>3. CASE c # n /\ x # n
    BY <2>3, <1>2 DEF Inv, OverlapOnlyOnPurpose
  <2> QED  BY <2>1, <2>2, <2>3
<1> QED  BY <1>4, <1>6 DEF Inv

\* remove_device and nm_device_unrealize: every table shrinks.
LEMMA LinkGoneInv ==
    ASSUME Inv, NEW d, LinkGone(d)
    PROVE  Inv'
<1>1. next_id' = next_id /\ checkpoints' = {MoveToRemoved(c, d) : c \in checkpoints}
  BY DEF LinkGone
<1>2. \A m \in checkpoints' : \E c \in checkpoints :
            /\ Shaped(m) /\ m.id = c.id /\ m.flags = c.flags /\ m.devices \subseteq c.devices
  BY <1>1, MoveShrinks DEF Inv, Numbered
<1>3. Numbered'
  BY <1>1, <1>2 DEF Inv, Numbered
<1>4. OverlapOnlyOnPurpose'
  <2> SUFFICES ASSUME NEW m \in checkpoints', NEW y \in checkpoints',
                      y.id > m.id, IncludesDevices(y, m.devices)
               PROVE  "allow_overlapping" \in y.flags
    BY DEF OverlapOnlyOnPurpose
  <2>1. PICK c \in checkpoints : m.id = c.id /\ m.devices \subseteq c.devices
    BY <1>2
  <2>2. PICK x \in checkpoints : y.id = x.id /\ y.flags = x.flags /\ y.devices \subseteq x.devices
    BY <1>2
  <2>3. x.id > c.id /\ IncludesDevices(x, c.devices)
    BY <2>1, <2>2 DEF IncludesDevices
  <2> QED  BY <2>2, <2>3 DEF Inv, OverlapOnlyOnPurpose
<1> QED  BY <1>3, <1>4 DEF Inv

\* Every step keeps the invariant.
LEMMA NextInv ==
    ASSUME Inv, [Next]_vars
    PROVE  Inv'
<1>1. ASSUME NEW ds \in SUBSET Devices, NEW all \in BOOLEAN, NEW flags \in FlagChoices,
             Create(ds, all, flags)
      PROVE  Inv'
  BY <1>1, CreateInv
<1>2. ASSUME NEW c \in checkpoints, Destroy(c)
      PROVE  Inv'
  BY <1>2, FewerCheckpoints DEF Destroy
<1>3. ASSUME NEW c \in checkpoints, Rollback(c)
      PROVE  Inv'
  <2>1. checkpoints' \subseteq checkpoints /\ next_id' = next_id
    BY <1>3 DEF Rollback, RollbackCheckpoint
  <2> QED  BY <2>1, FewerCheckpoints
<1>4. CASE DestroyAll
  BY <1>4, FewerCheckpoints DEF DestroyAll
<1>5. ASSUME NEW p \in Profiles,
             Activate(p) \/ EditProfile(p) \/ DeleteProfile(p) \/ AddProfile(p)
      PROVE  Inv'
  BY <1>5, FewerCheckpoints
     DEF Activate, Activated, Changes, EditProfile, DeleteProfile, AddProfile
<1>6. ASSUME NEW d \in Devices,
             PendingEnds(d) \/ DeactivationEnds(d) \/ Disconnect(d) \/ LinkAppears(d)
      PROVE  Inv'
  BY <1>6, FewerCheckpoints
     DEF PendingEnds, Activated, DeactivationEnds, Disconnect, LinkAppears, Changes
<1>7. ASSUME NEW d \in Devices, NEW managed \in BOOLEAN, SetManaged(d, managed)
      PROVE  Inv'
  <2>1. checkpoints' = checkpoints /\ next_id' = next_id
    BY <1>7 DEF SetManaged, Changes
  <2> QED  BY <2>1, FewerCheckpoints
<1>8. ASSUME NEW d \in Devices, LinkGone(d)
      PROVE  Inv'
  BY <1>8, LinkGoneInv
<1>9. CASE UNCHANGED vars
  BY <1>9, FewerCheckpoints DEF vars
<1> QED  BY <1>1, <1>2, <1>3, <1>4, <1>5, <1>6, <1>7, <1>8, <1>9 DEF Next

(***************************************************************************)
(* Checkpoints that share a device were meant to: whatever devices came    *)
(* and went and whichever checkpoints ended, the younger of two that       *)
(* overlap was created with ALLOW_OVERLAPPING                              *)
(* (nm_checkpoint_manager_create).                                         *)
(***************************************************************************)
THEOREM NoAccidentalOverlap == Spec => []OverlapOnlyOnPurpose
<1>1. Inv => OverlapOnlyOnPurpose
  BY DEF Inv
<1> QED  BY InitInv, NextInv, <1>1, PTL DEF Spec

(* G_MAXUINT32 *)
LEMMA MaxUint32Positive == MaxUint32 \in Nat /\ MaxUint32 >= 1
<1>1. PICK half \in Nat : half = 256 * 256 /\ half >= 2
  OBVIOUS
<1>2. half * half \in Nat /\ half * half >= 2
  <2>1. half * half >= 2 * half
    BY <1>1
  <2> QED  BY <1>1, <2>1
<1> QED  BY <1>1, <1>2 DEF MaxUint32

(***************************************************************************)
(* nm_checkpoint_adjust_rollback_timeout, with its 64-bit arithmetic and   *)
(* its 32-bit results: the new RollbackTimeout is not the 0 that means     *)
(* "never" (the assertion at src/nm-checkpoint.c:599), and counted from    *)
(* the creation it names the moment at which the timer fires up to half a  *)
(* second, unless one of the two had to be cut to 32 bits.                 *)
(***************************************************************************)
THEOREM AdjustedTimeoutIsExact ==
    ASSUME NEW age_ms \in Nat, NEW add_timeout \in 1 .. MaxUint32
    PROVE  /\ AdjustedTimeout(age_ms, add_timeout) \in 1 .. MaxUint32
           /\ /\ add_timeout * 1000 <= MaxUint32
              /\ AdjustedTimeout(age_ms, add_timeout) < MaxUint32
              => /\ AdjustedTimeout(age_ms, add_timeout) * 1000
                        <= age_ms + TimerMs(add_timeout) + 500
                 /\ AdjustedTimeout(age_ms, add_timeout) * 1000
                        > age_ms + TimerMs(add_timeout) - 500
<1>1. MaxUint32 \in Nat /\ MaxUint32 >= 1
  BY MaxUint32Positive
<1>2. add_timeout \in Nat /\ add_timeout >= 1
  BY <1>1
<1>3. PICK t : t = age_ms + add_timeout * 1000 + 500
  OBVIOUS
<1>4. PICK q : q = t \div 1000
  OBVIOUS
<1>5. t \in Nat /\ t >= 1500
  BY <1>2, <1>3
<1>6. /\ q \in Nat
      /\ q * 1000 <= t
      /\ t < q * 1000 + 1000
      /\ q >= 1
  BY <1>4, <1>5
<1>7. AdjustedTimeout(age_ms, add_timeout) = AtMostMaxUint32(q)
  BY <1>3, <1>4 DEF AdjustedTimeout
<1>8. AtMostMaxUint32(q) \in 1 .. MaxUint32
  BY <1>1, <1>6 DEF AtMostMaxUint32
<1>9. ASSUME add_timeout * 1000 <= MaxUint32, AtMostMaxUint32(q) < MaxUint32
      PROVE  /\ AtMostMaxUint32(q) * 1000 <= age_ms + TimerMs(add_timeout) + 500
             /\ AtMostMaxUint32(q) * 1000 > age_ms + TimerMs(add_timeout) - 500
  <2>1. AtMostMaxUint32(q) = q
    BY <1>1, <1>6, <1>9 DEF AtMostMaxUint32
  <2>2. TimerMs(add_timeout) = add_timeout * 1000
    BY <1>9 DEF TimerMs, AtMostMaxUint32
  <2> QED  BY <1>2, <1>3, <1>5, <1>6, <2>1, <2>2
<1> QED  BY <1>7, <1>8, <1>9

-----------------------------------------------------------------------------
(* The worlds that a rollback goes through *)

Settings == [Profiles -> [exists : BOOLEAN, content : Nat]]

Worlds == [device : [Devices -> DeviceRecords], settings : Settings, ok : SUBSET Devices,
           stale : SUBSET Devices]

\* The record r of device d is sound
Fit(r, d) ==
    /\ r.place = "absent" => r = Gone
    /\ r.state = "active" => r.place = "real"
    /\ r.act # None => Iface[r.act] = d
    /\ r.pending # None => Iface[r.pending] = d

Sound(w) == \A d \in Devices : Fit(w.device[d], d)

\* A rollback has taken down the device d between w and v.
TakenDown(w, v, d) == w.device[d].state = "active" /\ v.device[d].state # "active"

\* In w, the device d and its profile are what the entry e says.
SavedIn(w, e, d) ==
    /\ e.profile # None /\ w.settings[e.profile] = [exists |-> TRUE, content |-> e.content]
    /\ w.device[d].act = e.profile /\ w.device[d].version = e.version

\* A device that has gone away
LEMMA GoneIsFit ==
    ASSUME NEW d
    PROVE  /\ Gone \in DeviceRecords /\ Fit(Gone, d)
           /\ [Gone EXCEPT !.place = "unrealized"] \in DeviceRecords
           /\ [Gone EXCEPT !.place = "unrealized"].place = "unrealized"
           /\ Fit([Gone EXCEPT !.place = "unrealized"], d)
BY DEF Gone, DeviceRecords, Fit, States

\* nm_device_state_changed to DEACTIVATING changes nothing but the state.
LEMMA DeactivateKeeps ==
    ASSUME NEW r \in DeviceRecords
    PROVE  /\ Deactivate(r) \in DeviceRecords
           /\ Deactivate(r).place = r.place /\ Deactivate(r).act = r.act
           /\ Deactivate(r).version = r.version /\ Deactivate(r).pending = r.pending
           /\ Deactivate(r).state # "active"
           /\ r = Gone => Deactivate(r) = Gone
<1>1. CASE r.state = "active"
  <2>1. Deactivate(r) = [r EXCEPT !.state = "deactivating"] /\ r # Gone
    BY <1>1 DEF Deactivate, Gone
  <2> QED  BY <2>1 DEF DeviceRecords, States
<1>2. CASE r.state # "active"
  BY <1>2 DEF Deactivate
<1> QED  BY <1>1, <1>2

\* A device that goes down still fits.
LEMMA FitDeactivate ==
    ASSUME NEW r \in DeviceRecords, NEW d, Fit(r, d)
    PROVE  Fit(Deactivate(r), d)
BY DeactivateKeeps DEF Fit

\* What is read from a world after one device was replaced.
LEMMA WithDeviceIs ==
    ASSUME NEW w \in Worlds, NEW d \in Devices, NEW r \in DeviceRecords
    PROVE  /\ WithDevice(w, d, r) \in Worlds
           /\ WithDevice(w, d, r).settings = w.settings
           /\ WithDevice(w, d, r).ok = w.ok /\ WithDevice(w, d, r).stale = w.stale
           /\ WithDevice(w, d, r).device[d] = r
           /\ \A x \in Devices \ {d} : WithDevice(w, d, r).device[x] = w.device[x]
BY DEF WithDevice, Worlds

\* What is read from a world after one profile was written.
LEMMA WithProfileIs ==
    ASSUME NEW w \in Worlds, NEW p \in Profiles, NEW content \in Nat
    PROVE  /\ WithProfile(w, p, content) \in Worlds
           /\ WithProfile(w, p, content).device = w.device
           /\ WithProfile(w, p, content).ok = w.ok /\ WithProfile(w, p, content).stale = w.stale
           /\ WithProfile(w, p, content).settings[p] = [exists |-> TRUE, content |-> content]
           /\ \A x \in Profiles \ {p} : WithProfile(w, p, content).settings[x] = w.settings[x]
BY DEF WithProfile, Worlds, Settings

\* What is read from a world after one device was reported.
LEMMA ReportedIs ==
    ASSUME NEW w \in Worlds, NEW d \in Devices
    PROVE  /\ Reported(w, d) \in Worlds
           /\ Reported(w, d).device = w.device
           /\ Reported(w, d).settings = w.settings
           /\ Reported(w, d).ok = w.ok \cup {d} /\ Reported(w, d).stale = w.stale
BY DEF Reported, Worlds

\* What is read from a world after an update has failed.
LEMMA NotUpdatedIs ==
    ASSUME NEW w \in Worlds, NEW d \in Devices
    PROVE  /\ NotUpdated(w, d) \in Worlds
           /\ NotUpdated(w, d).device = w.device
           /\ NotUpdated(w, d).settings = w.settings
           /\ NotUpdated(w, d).ok = w.ok /\ NotUpdated(w, d).stale = w.stale \cup {d}
BY DEF NotUpdated, Worlds

\* A device that fits can be put into a sound world.
LEMMA SoundWithDevice ==
    ASSUME NEW w \in Worlds, Sound(w), NEW d \in Devices, NEW r \in DeviceRecords,
           Fit(r, d)
    PROVE  Sound(WithDevice(w, d, r))
<1> DEFINE v == WithDevice(w, d, r)
<1>1. v.settings = w.settings /\ v.device[d] = r /\ \A x \in Devices \ {d} : v.device[x] = w.device[x]
  BY WithDeviceIs
<1> HIDE DEF v
<1>2. Sound(v)
  BY <1>1 DEF Sound
<1> QED  BY <1>2 DEF v

\* Writing a profile leaves the devices alone.
LEMMA SoundWithProfile ==
    ASSUME NEW w \in Worlds, Sound(w), NEW p \in Profiles, NEW content \in Nat
    PROVE  Sound(WithProfile(w, p, content))
<1> DEFINE v == WithProfile(w, p, content)
<1>1. /\ v.device = w.device /\ v.settings[p] = [exists |-> TRUE, content |-> content]
      /\ \A x \in Profiles \ {p} : v.settings[x] = w.settings[x]
  BY WithProfileIs
<1> HIDE DEF v
<1>3. Sound(v)
  BY <1>1 DEF Sound
<1> QED  BY <1>3 DEF v

-----------------------------------------------------------------------------
(* One round of the loops *)

\* What a round for the device d may change
Round(w, v, d) ==
    /\ v \in Worlds /\ Sound(v)
    /\ \A x \in Devices \ {d} : v.device[x] = w.device[x]
    /\ \A q \in Profiles : Iface[q] # d => v.settings[q] = w.settings[q]
    /\ \A q \in Profiles : w.settings[q].exists => v.settings[q].exists
    /\ w.device[d].place = "real" => v.device[d].place = "real"
    /\ v.device[d].act = w.device[d].act
    /\ v.ok \subseteq w.ok \cup {d}
    /\ w.stale \subseteq v.stale

\* What the report of d promises
Restored(w, e, d) ==
    /\ w.settings[e.profile].exists
    /\ d \notin w.stale => w.settings[e.profile].content = e.content
    /\ \/ w.device[d].pending = e.profile
       \/ w.device[d].act = e.profile /\ w.device[d].version = e.version

\* Two changes for the same device make one round.
LEMMA RoundTrans ==
    ASSUME NEW u \in Worlds, NEW w, NEW v, NEW d \in Devices, Round(u, w, d), Round(w, v, d)
    PROVE  Round(u, v, d)
BY DEF Round

\* Replacing the device of the round
LEMMA RoundWithDevice ==
    ASSUME NEW w \in Worlds, Sound(w), NEW d \in Devices, NEW r \in DeviceRecords,
           Fit(r, d), w.device[d].place = "real" => r.place = "real",
           r.act = w.device[d].act
    PROVE  Round(w, WithDevice(w, d, r), d)
<1> DEFINE v == WithDevice(w, d, r)
<1>1. /\ v \in Worlds /\ v.settings = w.settings /\ v.device[d] = r /\ v.ok = w.ok
      /\ v.stale = w.stale
      /\ \A x \in Devices \ {d} : v.device[x] = w.device[x]
  BY WithDeviceIs
<1>2. Sound(v)
  BY SoundWithDevice
<1> HIDE DEF v
<1>3. Round(w, v, d)
  BY <1>1, <1>2 DEF Round
<1> QED  BY <1>3 DEF v

\* Reporting the device of the round
LEMMA RoundReported ==
    ASSUME NEW w \in Worlds, Sound(w), NEW d \in Devices
    PROVE  Round(w, Reported(w, d), d)
<1> DEFINE v == Reported(w, d)
<1>1. /\ v \in Worlds /\ v.settings = w.settings /\ v.device = w.device /\ v.ok = w.ok \cup {d}
      /\ v.stale = w.stale
  BY ReportedIs
<1> HIDE DEF v
<1>2. Round(w, v, d)
  BY <1>1 DEF Round, Sound
<1> QED  BY <1>2 DEF v

\* An update for the device of the round fails.
LEMMA RoundNotUpdated ==
    ASSUME NEW w \in Worlds, Sound(w), NEW d \in Devices
    PROVE  Round(w, NotUpdated(w, d), d)
<1> DEFINE v == NotUpdated(w, d)
<1>1. /\ v \in Worlds /\ v.settings = w.settings /\ v.device = w.device /\ v.ok = w.ok
      /\ v.stale = w.stale \cup {d}
  BY NotUpdatedIs
<1> HIDE DEF v
<1>2. Round(w, v, d)
  BY <1>1 DEF Round, Sound
<1> QED  BY <1>2 DEF v

\* Writing a profile of the device of the round
LEMMA RoundWithProfile ==
    ASSUME NEW w \in Worlds, Sound(w), NEW p \in Profiles, NEW content \in Nat
    PROVE  Round(w, WithProfile(w, p, content), Iface[p])
<1> DEFINE v == WithProfile(w, p, content)
<1>1. /\ v \in Worlds /\ v.device = w.device /\ v.ok = w.ok /\ v.stale = w.stale
      /\ v.settings[p] = [exists |-> TRUE, content |-> content]
      /\ \A x \in Profiles \ {p} : v.settings[x] = w.settings[x]
  BY WithProfileIs
<1>2. Sound(v)
  BY SoundWithProfile
<1> HIDE DEF v
<1>3. Round(w, v, Iface[p])
  BY <1>1, <1>2 DEF Round
<1> QED  BY <1>3 DEF v

\* nm_settings_add_connection touches the device of the profile only.
LEMMA RoundAddConnection ==
    ASSUME NEW w \in Worlds, Sound(w), NEW p \in Profiles, NEW content \in Nat
    PROVE  /\ Round(w, AddConnection(w, p, content), Iface[p])
           /\ AddConnection(w, p, content).settings[p] = [exists |-> TRUE, content |-> content]
           /\ AddConnection(w, p, content).ok = w.ok
           /\ ~TakenDown(w, AddConnection(w, p, content), Iface[p])
<1> DEFINE v == WithProfile(w, p, content)
           d == Iface[p]
           g == [Gone EXCEPT !.place = "unrealized"]
<1>1. d \in Devices
  BY CheckpointAssumption
<1>2. /\ v \in Worlds /\ v.device = w.device /\ v.ok = w.ok
      /\ v.settings[p] = [exists |-> TRUE, content |-> content]
  BY WithProfileIs
<1>3. Round(w, v, d) /\ Sound(v)
  BY RoundWithProfile, SoundWithProfile
<1>4. CASE d \in Software /\ w.device[d].place = "absent"
  <2>1. AddConnection(w, p, content) = WithDevice(v, d, g)
    BY <1>4 DEF AddConnection
  <2>2. g \in DeviceRecords /\ Fit(g, d) /\ g.act = None
    BY GoneIsFit DEF Gone
  <2>a. w.device[d].act = None /\ w.device[d].state # "active"
    BY <1>1, <1>4 DEF Sound, Fit, Gone
  <2> HIDE DEF v, d, g
  <2>3. v.device[d].place # "real" /\ v.device[d].act = None
    BY <1>2, <1>4, <2>a
  <2>4. Round(v, WithDevice(v, d, g), d)
    BY <1>1, <1>2, <1>3, <2>2, <2>3, RoundWithDevice
  <2>5. WithDevice(v, d, g).settings = v.settings /\ WithDevice(v, d, g).ok = v.ok
    BY <1>1, <1>2, <2>2, WithDeviceIs
  <2>6. Round(w, WithDevice(v, d, g), d)
    BY <1>1, <1>3, <2>4, RoundTrans
  <2> QED  BY <1>2, <2>1, <2>5, <2>6, <2>a DEF d, TakenDown
<1>5. CASE ~(d \in Software /\ w.device[d].place = "absent")
  <2>1. AddConnection(w, p, content) = v
    BY <1>5 DEF AddConnection
  <2> HIDE DEF v, d
  <2> QED  BY <1>2, <1>3, <2>1 DEF d, TakenDown
<1> QED  BY <1>4, <1>5

\* The NMDevice that restore_and_activate_connection goes on with exists.
LEMMA FoundIsThere ==
    ASSUME NEW w, NEW d, NEW added, NEW known \in BOOLEAN,
           known => w.device[d].place # "absent", Found(w, d, known, added)
    PROVE  w.device[d].place # "absent"
BY Zenon DEF Found

\* nm_settings_connection_update, or nothing in its place
LEMMA RoundUpdate ==
    ASSUME NEW w \in Worlds, Sound(w), NEW e \in Entries, NEW d \in Devices, NEW bad,
           e.profile # None, Iface[e.profile] = d, w.settings[e.profile].exists
    PROVE  LET v == UpdateConnection(w, e, d, bad) IN
           /\ Round(w, v, d) /\ v.ok = w.ok /\ v.device = w.device
           /\ v.settings[e.profile].exists
           /\ d \notin v.stale => v.settings[e.profile].content = e.content
<1> DEFINE v == UpdateConnection(w, e, d, bad)
<1>1. e.profile \in Profiles /\ e.content \in Nat
  BY DEF Entries
<1>2. CASE w.settings[e.profile].content # e.content /\ d \in bad.write
  <2>1. v = NotUpdated(w, d)
    BY <1>2 DEF UpdateConnection
  <2> HIDE DEF v
  <2>2. /\ Round(w, v, d) /\ v.ok = w.ok /\ v.device = w.device
        /\ v.settings = w.settings /\ d \in v.stale
    BY <2>1, NotUpdatedIs, RoundNotUpdated
  <2> QED  BY <2>2 DEF v
<1>3. CASE ~(w.settings[e.profile].content # e.content /\ d \in bad.write)
  <2>1. v = WithProfile(w, e.profile, e.content)
    BY <1>3 DEF UpdateConnection
  <2> HIDE DEF v
  <2>2. /\ Round(w, v, d) /\ v.ok = w.ok /\ v.device = w.device
        /\ v.settings[e.profile] = [exists |-> TRUE, content |-> e.content]
    BY <1>1, <2>1, WithProfileIs, RoundWithProfile
  <2> QED  BY <2>2 DEF v
<1> QED  BY <1>2, <1>3

\* restore_and_activate_connection stays with its own device and profile, a
\* device it reports has what it had, and one that is as it was stays up.
LEMMA RoundRestore ==
    ASSUME NEW w \in Worlds, Sound(w), NEW e \in Entries, NEW d \in Devices, NEW bad,
           e.profile # None, Iface[e.profile] = d,
           NEW known \in BOOLEAN, known => w.device[d].place # "absent"
    PROVE  /\ Round(w, RestoreAndActivate(w, e, d, known, bad), d)
           /\ d \in RestoreAndActivate(w, e, d, known, bad).ok \ w.ok
              => Restored(RestoreAndActivate(w, e, d, known, bad), e, d)
           /\ TakenDown(w, RestoreAndActivate(w, e, d, known, bad), d) => ~SavedIn(w, e, d)
<1> DEFINE p == e.profile
           v == IF w.settings[p].exists THEN UpdateConnection(w, e, d, bad)
                ELSE AddConnection(w, p, e.content)
           r == Deactivate(v.device[d])
           q == [r EXCEPT !.pending = p]
           x == RestoreAndActivate(w, e, d, known, bad)
<1>1. p \in Profiles /\ e.content \in Nat
  BY DEF Entries
<1>2. /\ Round(w, v, d) /\ v.ok = w.ok
      /\ v.settings[p].exists /\ (d \notin v.stale => v.settings[p].content = e.content)
      /\ ~TakenDown(w, v, d)
      /\ w.settings[p].exists \/ w.device[d].place # "absent" => v.device = w.device
  <2>1. CASE w.settings[p].exists
    <3>1. v = UpdateConnection(w, e, d, bad)
      BY <2>1
    <3> HIDE DEF v
    <3> QED  BY <2>1, <3>1, RoundUpdate DEF TakenDown
  <2>2. CASE ~w.settings[p].exists
    <3>1. v = AddConnection(w, p, e.content)
      BY <2>2
    <3>2. w.device[d].place # "absent" => v = WithProfile(w, p, e.content)
      BY <3>1 DEF AddConnection
    <3>3. WithProfile(w, p, e.content).device = w.device
      BY <1>1, WithProfileIs
    <3> HIDE DEF v
    <3>4. /\ Round(w, v, d) /\ v.ok = w.ok /\ ~TakenDown(w, v, d)
          /\ v.settings[p] = [exists |-> TRUE, content |-> e.content]
      BY <1>1, <3>1, RoundAddConnection
    <3> QED  BY <2>2, <3>2, <3>3, <3>4
  <2> QED  BY <2>1, <2>2
<1>3. v \in Worlds /\ Sound(v)
  BY <1>2 DEF Round
<1>4. \/ x = w
      \/ x = v
      \/ x = Reported(v, d) /\ ~NeedActivation(w, e, d)
      \/ x = WithDevice(v, d, r) /\ NeedActivation(w, e, d)
      \/ /\ x = Reported(WithDevice(v, d, q), d) /\ Found(v, d, known, ~w.settings[p].exists)
         /\ NeedActivation(w, e, d)
  BY DEF RestoreAndActivate
<1>5. Found(v, d, known, ~w.settings[p].exists) => v.device[d].place # "absent"
  <2> HIDE DEF v, p, x
  <2>1. w.device[d].place # "absent" => v.device[d].place # "absent"
    BY <1>2
  <2>2. known => w.device[d].place # "absent"
    BY Zenon
  <2>3. known => v.device[d].place # "absent"
    BY <2>1, <2>2, Zenon
  <2> QED  BY <2>3, FoundIsThere
<1>6. v.device[d] \in DeviceRecords /\ Fit(v.device[d], d)
  BY <1>3 DEF Worlds, Sound
<1>7. /\ r \in DeviceRecords /\ Fit(r, d) /\ r.place = v.device[d].place
      /\ r.act = v.device[d].act /\ r.state # "active"
  BY <1>6, DeactivateKeeps, FitDeactivate
<1>a. NeedActivation(w, e, d) => ~SavedIn(w, e, d)
  BY DEF NeedActivation, SavedIn
<1>8. CASE x = w
  BY <1>8 DEF Round, TakenDown
<1>9. CASE x = v
  BY <1>2, <1>9
<1>10. CASE x = Reported(v, d) /\ ~NeedActivation(w, e, d)
  <2>1. w.device[d].act = p /\ w.device[d].version = e.version /\ w.settings[p].exists
    BY <1>10 DEF NeedActivation
  <2> HIDE DEF v, x
  <2>2. v.device = w.device
    BY <1>2, <2>1
  <2>3. x.device = v.device /\ x.settings = v.settings /\ x.stale = v.stale
    BY <1>3, <1>10, ReportedIs
  <2>4. Restored(x, e, d)
    BY <1>2, <2>1, <2>2, <2>3 DEF Restored
  <2>5. Round(v, x, d)
    BY <1>3, <1>10, RoundReported
  <2>6. ~TakenDown(w, x, d)
    BY <2>2, <2>3 DEF TakenDown
  <2> QED  BY <1>2, <2>4, <2>5, <2>6, RoundTrans DEF x
<1>11. CASE x = WithDevice(v, d, r) /\ NeedActivation(w, e, d)
  <2> HIDE DEF v, r, x
  <2>1. Round(v, x, d)
    BY <1>3, <1>7, <1>11, RoundWithDevice
  <2>2. x.ok = w.ok
    BY <1>2, <1>3, <1>7, <1>11, WithDeviceIs
  <2> QED  BY <1>2, <1>a, <1>11, <2>1, <2>2, RoundTrans DEF x
<1>12. CASE /\ x = Reported(WithDevice(v, d, q), d) /\ Found(v, d, known, ~w.settings[p].exists)
            /\ NeedActivation(w, e, d)
  <2>1. r.place # "absent"
    BY <1>5, <1>7, <1>12
  <2> HIDE DEF v, r, x
  <2>2. /\ q \in DeviceRecords /\ q.place = r.place /\ q.act = r.act /\ q.pending = p
        /\ q.state = r.state
    BY <1>1, <1>7 DEF DeviceRecords
  <2>3. Fit(q, d)
    BY <1>2, <1>7, <2>1, <2>2 DEF Fit
  <2> DEFINE y == WithDevice(v, d, q)
  <2> HIDE DEF q
  <2>4. Round(v, y, d)
    BY <1>3, <1>7, <2>2, <2>3, RoundWithDevice
  <2>5. y \in Worlds /\ y.settings = v.settings /\ y.device[d] = q /\ y.stale = v.stale
    BY <1>3, <2>2, WithDeviceIs
  <2>6. Sound(y) /\ x = Reported(y, d)
    BY <1>12, <2>4 DEF Round
  <2> HIDE DEF y
  <2>7. Round(y, x, d) /\ x.settings = y.settings /\ x.device = y.device /\ x.stale = y.stale
    BY <2>5, <2>6, RoundReported, ReportedIs
  <2>8. Restored(x, e, d)
    BY <1>2, <2>2, <2>5, <2>7 DEF Restored
  <2>9. Round(w, x, d)
    BY <1>2, <1>3, <2>4, <2>7, RoundTrans
  <2> QED  BY <1>a, <1>12, <2>8, <2>9 DEF x
<1> QED  BY <1>4, <1>8, <1>9, <1>10, <1>11, <1>12

\* An entry of the table names a profile of its own device.
Owns(e, d) == e.profile # None => Iface[e.profile] = d

\* One round of the loop over removed_devices
LEMMA RoundRemoved ==
    ASSUME NEW w \in Worlds, Sound(w), NEW e \in Entries, NEW d \in Devices, Owns(e, d), NEW bad
    PROVE  /\ Round(w, RollbackRemoved(w, e, d, bad), d)
           /\ TakenDown(w, RollbackRemoved(w, e, d, bad), d) => ~SavedIn(w, e, d)
<1>1. CASE e.profile = None
  BY <1>1, RoundReported DEF RollbackRemoved, SavedIn
<1>2. CASE e.profile # None
  <2>1. RollbackRemoved(w, e, d, bad) = RestoreAndActivate(w, e, d, FALSE, bad)
    BY <1>2 DEF RollbackRemoved
  <2>2. Iface[e.profile] = d /\ FALSE \in BOOLEAN /\ (FALSE => w.device[d].place # "absent")
    BY <1>2 DEF Owns
  <2> QED  BY <1>2, <2>1, <2>2, RoundRestore
<1> QED  BY <1>1, <1>2

\* Giving USER_EXPLICIT back changes nothing else of the device.
LEMMA RestoreManagedKeeps ==
    ASSUME NEW r \in DeviceRecords, NEW e
    PROVE  /\ RestoreManaged(r, e) \in DeviceRecords
           /\ RestoreManaged(r, e).place = r.place /\ RestoreManaged(r, e).act = r.act
           /\ RestoreManaged(r, e).version = r.version
           /\ RestoreManaged(r, e).pending = r.pending
           /\ RestoreManaged(r, e).state = r.state
<1>1. CASE r.unmanaged_explicit /\ ~e.unmanaged_explicit
  BY <1>1 DEF RestoreManaged, DeviceRecords
<1>2. CASE ~(r.unmanaged_explicit /\ ~e.unmanaged_explicit)
  BY <1>2 DEF RestoreManaged
<1> QED  BY <1>1, <1>2

\* One round of the loop over devices
LEMMA RoundDevice ==
    ASSUME NEW w \in Worlds, Sound(w), NEW e \in Entries, NEW d \in Devices, Owns(e, d), NEW bad,
           w.device[d].place = "real"
    PROVE  /\ Round(w, RollbackDevice(w, e, d, bad), d)
           /\ /\ d \in RollbackDevice(w, e, d, bad).ok \ w.ok
              /\ e.state # "unmanaged" /\ e.profile # None
              => Restored(RollbackDevice(w, e, d, bad), e, d)
           /\ TakenDown(w, RollbackDevice(w, e, d, bad), d) => ~SavedIn(w, e, d)
<1> DEFINE r == RestoreManaged(w.device[d], e)
           b == r.unmanaged_explicit \/ (r.state # "unmanaged" \/ e.unmanaged_explicit)
           u == [r EXCEPT !.unmanaged_explicit = b]
           v == WithDevice(w, d, r)
<1>1. w.device[d] \in DeviceRecords /\ Fit(w.device[d], d)
  BY DEF Worlds, Sound
<1>2. /\ r \in DeviceRecords /\ r.place = "real"
      /\ r.act = w.device[d].act /\ r.pending = w.device[d].pending
      /\ r.state = w.device[d].state /\ r.version = w.device[d].version
  BY <1>1, RestoreManagedKeeps
<1>3. Fit(r, d)
  BY <1>1, <1>2 DEF Fit
<1>4. CASE e.state = "unmanaged"
  <2>1. RollbackDevice(w, e, d, bad) = Reported(WithDevice(w, d, u), d)
    BY <1>4 DEF RollbackDevice
  <2> HIDE DEF r
  <2>2. b \in BOOLEAN
    BY <1>2 DEF DeviceRecords, Entries
  <2> HIDE DEF b
  <2>3. /\ u \in DeviceRecords /\ u.place = r.place /\ u.act = r.act /\ u.pending = r.pending
        /\ u.state = r.state
    BY <1>2, <2>2 DEF DeviceRecords
  <2> HIDE DEF u
  <2>4. Fit(u, d)
    BY <1>2, <1>3, <2>3 DEF Fit
  <2> DEFINE y == WithDevice(w, d, u)
  <2>5. Round(w, y, d) /\ y.device[d] = u
    BY <1>2, <2>3, <2>4, RoundWithDevice, WithDeviceIs
  <2> HIDE DEF y
  <2>6. Round(y, Reported(y, d), d) /\ Reported(y, d).device = y.device
    BY <2>5, RoundReported, ReportedIs DEF Round
  <2>7. Round(w, Reported(y, d), d)
    BY <2>5, <2>6, RoundTrans
  <2>8. ~TakenDown(w, Reported(y, d), d)
    BY <1>2, <2>3, <2>5, <2>6 DEF TakenDown
  <2> QED  BY <1>4, <2>1, <2>7, <2>8 DEF y
<1>5. CASE e.state # "unmanaged" /\ e.profile # None
  <2>1. RollbackDevice(w, e, d, bad) = RestoreAndActivate(v, e, d, TRUE, bad)
    BY <1>5 DEF RollbackDevice
  <2>2. Iface[e.profile] = d /\ TRUE \in BOOLEAN
    BY <1>5 DEF Owns
  <2> HIDE DEF r
  <2>3. Round(w, v, d)
    BY <1>2, <1>3, RoundWithDevice
  <2>4. v \in Worlds /\ Sound(v) /\ v.ok = w.ok /\ v.device[d] = r /\ v.settings = w.settings
    BY <1>2, <2>3, WithDeviceIs DEF Round
  <2> HIDE DEF v
  <2>5. v.device[d].place # "absent"
    BY <1>2, <2>4
  <2> DEFINE x == RestoreAndActivate(v, e, d, TRUE, bad)
  <2>6. /\ Round(v, x, d) /\ (d \in x.ok \ v.ok => Restored(x, e, d))
        /\ TakenDown(v, x, d) => ~SavedIn(v, e, d)
    BY <1>5, <2>2, <2>4, <2>5, RoundRestore
  <2> HIDE DEF x
  <2>7. Round(w, x, d)
    BY <2>3, <2>6, RoundTrans
  <2>8. TakenDown(w, x, d) => ~SavedIn(w, e, d)
    BY <1>2, <2>4, <2>6 DEF TakenDown, SavedIn
  <2> QED  BY <2>1, <2>4, <2>6, <2>7, <2>8 DEF x
<1>6. CASE e.state # "unmanaged" /\ e.profile = None
  <2> DEFINE y == WithDevice(w, d, Deactivate(r))
  <2>1. RollbackDevice(w, e, d, bad) = Reported(y, d)
    BY <1>6 DEF RollbackDevice
  <2> HIDE DEF r
  <2>2. /\ Deactivate(r) \in DeviceRecords /\ Deactivate(r).place = "real"
        /\ Fit(Deactivate(r), d) /\ Deactivate(r).act = w.device[d].act
    BY <1>2, <1>3, DeactivateKeeps, FitDeactivate
  <2>3. Round(w, y, d)
    BY <2>2, RoundWithDevice
  <2> HIDE DEF y
  <2>4. Round(y, Reported(y, d), d)
    BY <2>3, RoundReported DEF Round
  <2>5. Round(w, Reported(y, d), d)
    BY <2>3, <2>4, RoundTrans
  <2> QED  BY <1>6, <2>1, <2>5 DEF SavedIn
<1> QED  BY <1>4, <1>5, <1>6

-----------------------------------------------------------------------------
(* The loops *)

\* What every world between w and the end of the rollback keeps
Kept(w, v) ==
    /\ v \in Worlds /\ Sound(v)
    /\ \A d \in Devices : w.device[d].place = "real" => v.device[d].place = "real"
    /\ \A q \in Profiles : w.settings[q].exists => v.settings[q].exists

\* What the rounds for the devices of s leave of w
Left(w, v, c, s) ==
    /\ \A d \in Devices \ s : v.device[d] = w.device[d]
    /\ \A q \in Profiles : Iface[q] \notin s => v.settings[q] = w.settings[q]
    /\ \A d \in Devices : v.device[d].act = w.device[d].act
    /\ \A d \in s : TakenDown(w, v, d) => ~SavedIn(w, c.saved[d], d)

\* One more round
LEMMA LeftRound ==
    ASSUME NEW w \in Worlds, NEW t, NEW v, NEW c, NEW s \in SUBSET Devices, NEW d \in s,
           c.saved[d] \in Entries, Owns(c.saved[d], d),
           Left(w, t, c, s \ {d}), Round(t, v, d),
           TakenDown(t, v, d) => ~SavedIn(t, c.saved[d], d)
    PROVE  Left(w, v, c, s)
<1>1. \A x \in Devices \ s : v.device[x] = w.device[x]
  BY DEF Left, Round
<1>2. \A q \in Profiles : Iface[q] \notin s => v.settings[q] = w.settings[q]
  BY CheckpointAssumption DEF Left, Round
<1>3. \A x \in Devices : v.device[x].act = w.device[x].act
  BY DEF Left, Round
<1>4. ASSUME NEW x \in s, TakenDown(w, v, x)
      PROVE  ~SavedIn(w, c.saved[x], x)
  <2>1. CASE x = d
    <3>1. t.device[d] = w.device[d] /\ \A q \in Profiles : Iface[q] = d => t.settings[q] = w.settings[q]
      BY DEF Left
    <3>2. SavedIn(w, c.saved[d], d) => SavedIn(t, c.saved[d], d)
      BY <3>1 DEF SavedIn, Owns, Entries
    <3> QED  BY <1>4, <2>1, <3>1, <3>2 DEF TakenDown
  <2>2. CASE x # d
    BY <1>4, <2>2 DEF Left, Round, TakenDown
  <2> QED  BY <2>1, <2>2
<1> QED  BY <1>1, <1>2, <1>3, <1>4 DEF Left

\* A round keeps what the rollback keeps.
LEMMA RoundKept ==
    ASSUME NEW w \in Worlds, NEW u, NEW v, NEW d \in Devices, Kept(w, u), Round(u, v, d)
    PROVE  Kept(w, v)
BY DEF Kept, Round

\* g is the function that the loop over removed_devices defines.
RemovedRec(g, w, c, bad) ==
    g = [s \in SUBSET c.removed_devices |->
            IF s = {} THEN w
            ELSE RollbackRemoved(g[s \ {Pick(s)}], c.saved[Pick(s)], Pick(s), bad)]

\* The loop over removed_devices keeps the world sound and reports only the
\* devices it was about.
LEMMA RemovedLoop ==
    ASSUME NEW w \in Worlds, Sound(w), NEW bad, NEW c,
           c.removed_devices \in SUBSET Devices, c.saved \in [Devices -> Entries],
           \A d \in Devices : Owns(c.saved[d], d)
    PROVE  /\ Kept(w, RollbackAllRemoved(w, c, bad))
           /\ RollbackAllRemoved(w, c, bad).ok \subseteq w.ok \cup c.removed_devices
           /\ Left(w, RollbackAllRemoved(w, c, bad), c, c.removed_devices)
<1> DEFINE S == c.removed_devices
           W == {v \in Worlds : Kept(w, v)}
           op == [a \in S \X W |-> RollbackRemoved(a[2], c.saved[a[1]], a[1], bad)]
<1>1. IsFiniteSet(S)
  BY CheckpointAssumption, FS_Subset
<1>2. w \in W
  BY DEF Kept
<1>3. \A d \in S, v \in W :
        /\ Round(v, RollbackRemoved(v, c.saved[d], d, bad), d)
        /\ RollbackRemoved(v, c.saved[d], d, bad) \in W
        /\ TakenDown(v, RollbackRemoved(v, c.saved[d], d, bad), d) => ~SavedIn(v, c.saved[d], d)
  <2> SUFFICES ASSUME NEW d \in S, NEW v \in W
               PROVE  /\ Round(v, RollbackRemoved(v, c.saved[d], d, bad), d)
                      /\ RollbackRemoved(v, c.saved[d], d, bad) \in W
                      /\ TakenDown(v, RollbackRemoved(v, c.saved[d], d, bad), d)
                         => ~SavedIn(v, c.saved[d], d)
    OBVIOUS
  <2>1. d \in Devices /\ v \in Worlds /\ Kept(w, v) /\ Sound(v)
    BY DEF Kept
  <2>2. c.saved[d] \in Entries /\ Owns(c.saved[d], d)
    BY <2>1
  <2>3. /\ Round(v, RollbackRemoved(v, c.saved[d], d, bad), d)
        /\ TakenDown(v, RollbackRemoved(v, c.saved[d], d, bad), d) => ~SavedIn(v, c.saved[d], d)
    BY <2>1, <2>2, RoundRemoved
  <2>4. Kept(w, RollbackRemoved(v, c.saved[d], d, bad))
    BY <2>1, <2>3, RoundKept
  <2> QED  BY <2>3, <2>4 DEF Kept
<1>4. op \in [S \X W -> W]
  BY <1>3
<1>5. PICK f : Folds(f, S, W, op, w)
  <2> HIDE DEF S, W, op
  <2> QED  BY <1>1, <1>2, <1>4, FoldExists
<1>6. \A s \in SUBSET S : s # {} => Pick(s) \in S /\ s \ {Pick(s)} \in SUBSET S
  BY DEF Pick
<1>7. RemovedRec(f, w, c, bad)
  <2>1. f \in [SUBSET S -> W] /\ f[{}] = w
    BY <1>5 DEF Folds
  <2>2. ASSUME NEW s \in SUBSET S, s # {}
        PROVE  f[s] = RollbackRemoved(f[s \ {Pick(s)}], c.saved[Pick(s)], Pick(s), bad)
    <3>1. f[s] = op[<<Pick(s), f[s \ {Pick(s)}]>>]
      <4> HIDE DEF op, W
      <4> QED  BY <1>5, <2>2 DEF Folds
    <3>2. <<Pick(s), f[s \ {Pick(s)}]>> \in S \X W
      <4> HIDE DEF W, S
      <4> QED  BY <1>6, <2>1, <2>2
    <3> QED  BY <3>1, <3>2
  <2> HIDE DEF W
  <2> QED  BY <2>1, <2>2 DEF RemovedRec
<1> DEFINE h == CHOOSE g : RemovedRec(g, w, c, bad)
<1>8. RemovedRec(h, w, c, bad)
  BY <1>7
<1>9. RollbackAllRemoved(w, c, bad) = h[S]
  BY DEF RollbackAllRemoved, FoldSet, MapThenFoldSet, Pick, RemovedRec
<1> DEFINE Q == {s \in SUBSET S : h[s] \in W /\ h[s].ok \subseteq w.ok \cup s
                                /\ Left(w, h[s], c, s)}
<1> HIDE DEF h
<1>10. h[{}] = w /\ \A s \in SUBSET S : s # {} =>
            h[s] = RollbackRemoved(h[s \ {Pick(s)}], c.saved[Pick(s)], Pick(s), bad)
  BY <1>8 DEF RemovedRec
<1>11. {} \in Q
  BY <1>2, <1>10 DEF Left
<1>12. ASSUME NEW s \in SUBSET S, s # {}, s \ {Pick(s)} \in Q
       PROVE  s \in Q
  <2> DEFINE t == h[s \ {Pick(s)}]
             v == RollbackRemoved(t, c.saved[Pick(s)], Pick(s), bad)
  <2>1. /\ t \in W /\ t.ok \subseteq w.ok \cup s /\ Pick(s) \in S
        /\ Left(w, t, c, s \ {Pick(s)})
    BY <1>6, <1>12
  <2>2. h[s] = v
    BY <1>10, <1>12
  <2>3. /\ Round(t, v, Pick(s)) /\ v \in W
        /\ TakenDown(t, v, Pick(s)) => ~SavedIn(t, c.saved[Pick(s)], Pick(s))
    <3> HIDE DEF t, W, S
    <3> QED  BY <1>3, <2>1
  <2>4. Pick(s) \in s
    BY <1>12 DEF Pick
  <2>5. v.ok \subseteq w.ok \cup s
    <3> HIDE DEF t, v, W, S
    <3> QED  BY <2>1, <2>3, <2>4 DEF Round
  <2>l. Left(w, v, c, s)
    <3>1. s \in SUBSET Devices /\ c.saved[Pick(s)] \in Entries /\ Owns(c.saved[Pick(s)], Pick(s))
      BY <2>4
    <3> HIDE DEF t, v, W, S
    <3> QED  BY <2>1, <2>3, <2>4, <3>1, LeftRound
  <2> QED  BY <2>2, <2>3, <2>5, <2>l
<1>13. S \in Q
  <2> HIDE DEF Q, S
  <2> QED  BY <1>1, <1>11, <1>12, FoldInduction
<1> QED  BY <1>9, <1>13

\* What the rollback owes to the device d of the table of c, if it reports it
Promised(w, c, d) ==
    d \in w.ok /\ c.saved[d].state # "unmanaged" /\ c.saved[d].profile # None
    => Restored(w, c.saved[d], d)

\* g is the function that the loop over devices defines.
DevicesRec(g, w, c, bad) ==
    g = [s \in SUBSET c.devices |->
            IF s = {} THEN w
            ELSE RollbackDevice(g[s \ {Pick(s)}], c.saved[Pick(s)], Pick(s), bad)]

\* The loop over devices: what a round has promised, no later one undoes.
LEMMA DevicesLoop ==
    ASSUME NEW w \in Worlds, Sound(w), NEW bad, NEW c,
           c.devices \in SUBSET Devices, c.saved \in [Devices -> Entries],
           \A d \in Devices : Owns(c.saved[d], d),
           \A d \in c.devices : w.device[d].place = "real" /\ d \notin w.ok
    PROVE  /\ Kept(w, RollbackAllDevices(w, c, bad))
           /\ \A d \in c.devices : Promised(RollbackAllDevices(w, c, bad), c, d)
           /\ Left(w, RollbackAllDevices(w, c, bad), c, c.devices)
<1> DEFINE S == c.devices
           W == {v \in Worlds : Kept(w, v)}
           op == [a \in S \X W |-> RollbackDevice(a[2], c.saved[a[1]], a[1], bad)]
<1>1. IsFiniteSet(S)
  BY CheckpointAssumption, FS_Subset
<1>2. w \in W
  BY DEF Kept
<1>3. \A d \in S, v \in W :
        /\ Round(v, RollbackDevice(v, c.saved[d], d, bad), d)
        /\ RollbackDevice(v, c.saved[d], d, bad) \in W
        /\ TakenDown(v, RollbackDevice(v, c.saved[d], d, bad), d) => ~SavedIn(v, c.saved[d], d)
  <2> SUFFICES ASSUME NEW d \in S, NEW v \in W
               PROVE  /\ Round(v, RollbackDevice(v, c.saved[d], d, bad), d)
                      /\ RollbackDevice(v, c.saved[d], d, bad) \in W
                      /\ TakenDown(v, RollbackDevice(v, c.saved[d], d, bad), d)
                         => ~SavedIn(v, c.saved[d], d)
    OBVIOUS
  <2>1. /\ d \in Devices /\ v \in Worlds /\ Kept(w, v) /\ Sound(v)
        /\ v.device[d].place = "real"
    BY DEF Kept
  <2>2. c.saved[d] \in Entries /\ Owns(c.saved[d], d)
    BY <2>1
  <2>3. /\ Round(v, RollbackDevice(v, c.saved[d], d, bad), d)
        /\ TakenDown(v, RollbackDevice(v, c.saved[d], d, bad), d) => ~SavedIn(v, c.saved[d], d)
    BY <2>1, <2>2, RoundDevice
  <2>4. Kept(w, RollbackDevice(v, c.saved[d], d, bad))
    BY <2>1, <2>3, RoundKept
  <2> QED  BY <2>3, <2>4 DEF Kept
<1>4. op \in [S \X W -> W]
  BY <1>3
<1>5. PICK f : Folds(f, S, W, op, w)
  <2> HIDE DEF S, W, op
  <2> QED  BY <1>1, <1>2, <1>4, FoldExists
<1>6. \A s \in SUBSET S : s # {} => Pick(s) \in S /\ s \ {Pick(s)} \in SUBSET S
  BY DEF Pick
<1>7. DevicesRec(f, w, c, bad)
  <2>1. f \in [SUBSET S -> W] /\ f[{}] = w
    BY <1>5 DEF Folds
  <2>2. ASSUME NEW s \in SUBSET S, s # {}
        PROVE  f[s] = RollbackDevice(f[s \ {Pick(s)}], c.saved[Pick(s)], Pick(s), bad)
    <3>1. f[s] = op[<<Pick(s), f[s \ {Pick(s)}]>>]
      <4> HIDE DEF op, W
      <4> QED  BY <1>5, <2>2 DEF Folds
    <3>2. <<Pick(s), f[s \ {Pick(s)}]>> \in S \X W
      <4> HIDE DEF W, S
      <4> QED  BY <1>6, <2>1, <2>2
    <3> QED  BY <3>1, <3>2
  <2> HIDE DEF W
  <2> QED  BY <2>1, <2>2 DEF DevicesRec
<1> DEFINE h == CHOOSE g : DevicesRec(g, w, c, bad)
<1>8. DevicesRec(h, w, c, bad)
  BY <1>7
<1>9. RollbackAllDevices(w, c, bad) = h[S]
  BY DEF RollbackAllDevices, FoldSet, MapThenFoldSet, Pick, DevicesRec
<1> DEFINE Q == {s \in SUBSET S : h[s] \in W /\ h[s].ok \subseteq w.ok \cup s
                                /\ (\A d \in s : Promised(h[s], c, d))
                                /\ Left(w, h[s], c, s)}
<1> HIDE DEF h
<1>10. h[{}] = w /\ \A s \in SUBSET S : s # {} =>
            h[s] = RollbackDevice(h[s \ {Pick(s)}], c.saved[Pick(s)], Pick(s), bad)
  BY <1>8 DEF DevicesRec
<1>11. {} \in Q
  BY <1>2, <1>10 DEF Left
<1>12. ASSUME NEW s \in SUBSET S, s # {}, s \ {Pick(s)} \in Q
       PROVE  s \in Q
  <2> DEFINE t == h[s \ {Pick(s)}]
             v == RollbackDevice(t, c.saved[Pick(s)], Pick(s), bad)
  <2>1. /\ t \in W /\ t.ok \subseteq w.ok \cup (s \ {Pick(s)}) /\ Pick(s) \in S
        /\ \A d \in s \ {Pick(s)} : Promised(t, c, d)
        /\ Left(w, t, c, s \ {Pick(s)})
    BY <1>6, <1>12
  <2>2. h[s] = v
    BY <1>10, <1>12
  <2>3. /\ Round(t, v, Pick(s)) /\ v \in W
        /\ TakenDown(t, v, Pick(s)) => ~SavedIn(t, c.saved[Pick(s)], Pick(s))
    <3> HIDE DEF t, W, S
    <3> QED  BY <1>3, <2>1
  <2>4. Pick(s) \in s
    BY <1>12 DEF Pick
  <2>5. v.ok \subseteq w.ok \cup s
    <3> HIDE DEF t, v, W, S
    <3> QED  BY <2>1, <2>3, <2>4 DEF Round
  <2>6. ASSUME NEW d \in s
        PROVE  Promised(v, c, d)
    <3>1. /\ d \in S /\ d \in Devices /\ d \notin w.ok
          /\ c.saved[d] \in Entries /\ Owns(c.saved[d], d)
      OBVIOUS
    <3>2. CASE d = Pick(s)
      <4>1. t \in Worlds /\ Sound(t) /\ t.device[d].place = "real" /\ d \notin t.ok
        <5> HIDE DEF t
        <5> QED  BY <2>1, <3>1, <3>2 DEF Kept
      <4> HIDE DEF t
      <4> QED  BY <3>1, <3>2, <4>1, RoundDevice DEF Promised
    <3>3. CASE d # Pick(s)
      <4> HIDE DEF t, v, S, W
      <4>1. /\ Promised(t, c, d) /\ (d \in v.ok => d \in t.ok) /\ v.device[d] = t.device[d]
            /\ t.stale \subseteq v.stale
        BY <2>1, <2>3, <3>1, <3>3 DEF Round
      <4>2. c.saved[d].profile # None => v.settings[c.saved[d].profile] = t.settings[c.saved[d].profile]
        BY <2>3, <3>1, <3>3 DEF Round, Owns, Entries
      <4> QED  BY <4>1, <4>2 DEF Promised, Restored
    <3> QED  BY <3>2, <3>3
  <2>l. Left(w, v, c, s)
    <3>1. s \in SUBSET Devices /\ c.saved[Pick(s)] \in Entries /\ Owns(c.saved[Pick(s)], Pick(s))
      BY <2>4
    <3> HIDE DEF t, v, W, S
    <3> QED  BY <2>1, <2>3, <2>4, <3>1, LeftRound
  <2> QED  BY <2>2, <2>3, <2>5, <2>6, <2>l
<1>13. S \in Q
  <2> HIDE DEF Q, S
  <2> QED  BY <1>1, <1>11, <1>12, FoldInduction
<1> QED  BY <1>9, <1>13

\* What is left of w when the profiles of D are deleted
Spared(w, v, D) ==
    /\ v \in Worlds /\ Sound(v) /\ v.ok = w.ok /\ v.stale = w.stale
    /\ \A q \in Profiles \ D : v.settings[q] = w.settings[q]
    /\ \A q \in D : ~v.settings[q].exists
    /\ \A q \in Profiles : v.settings[q].content = w.settings[q].content
    /\ \A d \in Devices : w.device[d].place = "real" =>
            /\ v.device[d].place = "real"
            /\ v.device[d].act = w.device[d].act /\ v.device[d].version = w.device[d].version
            /\ v.device[d].pending = w.device[d].pending
    /\ \A d \in Devices : TakenDown(w, v, d) => w.device[d].act \in D

\* What the deletion of p leaves of a device
LEMMA WithoutProfileIs ==
    ASSUME NEW w \in Worlds, Sound(w), NEW p \in Profiles, NEW d \in Devices
    PROVE  /\ WithoutProfile(w, p, d) \in DeviceRecords
           /\ WithoutProfile(w, p, d).place = "absent" => WithoutProfile(w, p, d) = Gone
           /\ WithoutProfile(w, p, d).act \in {w.device[d].act, None}
           /\ WithoutProfile(w, p, d).pending \in {w.device[d].pending, None}
           /\ WithoutProfile(w, p, d).state = "active" => WithoutProfile(w, p, d).place = "real"
           /\ w.device[d].place = "real" =>
                /\ WithoutProfile(w, p, d).place = "real"
                /\ WithoutProfile(w, p, d).act = w.device[d].act
                /\ WithoutProfile(w, p, d).version = w.device[d].version
                /\ WithoutProfile(w, p, d).pending = w.device[d].pending
           /\ w.device[d].state = "active" /\ WithoutProfile(w, p, d).state # "active"
              => w.device[d].act = p
<1> DEFINE r == IF w.device[d].act = p THEN Deactivate(w.device[d]) ELSE w.device[d]
<1>1. w.device[d] \in DeviceRecords /\ Fit(w.device[d], d)
  BY DEF Worlds, Sound
<1>2. /\ r \in DeviceRecords /\ r.place = w.device[d].place /\ r.act = w.device[d].act
      /\ r.version = w.device[d].version /\ r.pending = w.device[d].pending
      /\ r.place = "absent" => r = Gone
      /\ r.state = "active" => r.place = "real"
      /\ w.device[d].act # p => r = w.device[d]
  <2>1. CASE w.device[d].act = p
    BY <1>1, <2>1, DeactivateKeeps DEF Fit
  <2>2. CASE w.device[d].act # p
    BY <1>1, <2>2 DEF Fit
  <2> QED  BY <2>1, <2>2
<1>3. WithoutProfile(w, p, d) = r \/ (WithoutProfile(w, p, d) = Gone /\ r.place = "unrealized")
  BY DEF WithoutProfile
<1> HIDE DEF r
<1>4. CASE WithoutProfile(w, p, d) = r
  BY <1>2, <1>4
<1>5. CASE WithoutProfile(w, p, d) = Gone /\ r.place = "unrealized"
  <2>1. /\ Gone \in DeviceRecords /\ Gone.act = None /\ Gone.pending = None
        /\ Gone.state # "active"
    BY GoneIsFit DEF Gone
  <2>2. w.device[d].place # "real" /\ w.device[d].state # "active"
    BY <1>1, <1>2, <1>5 DEF Fit
  <2> QED  BY <1>5, <2>1, <2>2
<1> QED  BY <1>3, <1>4, <1>5

\* nm_settings_connection_delete spares all but p.
LEMMA DeleteConnectionSpares ==
    ASSUME NEW w \in Worlds, Sound(w), NEW p \in Profiles
    PROVE  Spared(w, DeleteConnection(w, p), {p})
<1> DEFINE v == DeleteConnection(w, p)
<1>1. v.device = [d \in Devices |-> WithoutProfile(w, p, d)] /\ v.ok = w.ok /\ v.stale = w.stale
  BY DEF DeleteConnection
<1>2. v.settings = [w.settings EXCEPT ![p] = [@ EXCEPT !.exists = FALSE]]
  BY DEF DeleteConnection
<1>3. /\ v.settings \in Settings /\ \A q \in Profiles \ {p} : v.settings[q] = w.settings[q]
      /\ ~v.settings[p].exists /\ v.settings[p].content = w.settings[p].content
  BY <1>2 DEF Worlds, Settings
<1>4. v.device \in [Devices -> DeviceRecords] /\ \A d \in Devices : v.device[d] = WithoutProfile(w, p, d)
  BY <1>1, WithoutProfileIs
<1>5. v \in Worlds
  BY <1>1, <1>3, <1>4 DEF DeleteConnection, Worlds
<1> HIDE DEF v
<1>6. ASSUME NEW d \in Devices
      PROVE  Fit(v.device[d], d)
  <2>1. Fit(w.device[d], d) /\ w.device[d].pending \in Profiles \cup {None}
    BY DEF Sound, Worlds, DeviceRecords
  <2>2. /\ v.device[d].place = "absent" => v.device[d] = Gone
        /\ v.device[d].act \in {w.device[d].act, None}
        /\ v.device[d].pending \in {w.device[d].pending, None}
        /\ v.device[d].state = "active" => v.device[d].place = "real"
    BY <1>4, WithoutProfileIs
  <2> QED  BY <1>3, <2>1, <2>2 DEF Fit
<1>7. \A d \in Devices : w.device[d].place = "real" =>
            /\ v.device[d].place = "real"
            /\ v.device[d].act = w.device[d].act /\ v.device[d].version = w.device[d].version
            /\ v.device[d].pending = w.device[d].pending
  BY <1>4, WithoutProfileIs
<1>a. \A d \in Devices : TakenDown(w, v, d) => w.device[d].act = p
  BY <1>4, WithoutProfileIs DEF TakenDown
<1>8. Spared(w, v, {p})
  BY <1>1, <1>3, <1>5, <1>6, <1>7, <1>a DEF Spared, Sound
<1> QED  BY <1>8 DEF v

\* g is the function that the loop over the new profiles defines.
DeleteRec(g, w, D) ==
    g = [s \in SUBSET D |-> IF s = {} THEN w ELSE DeleteConnection(g[s \ {Pick(s)}], Pick(s))]

\* DELETE_NEW_CONNECTIONS spares the profiles that the checkpoint knows.
LEMMA DeleteLoop ==
    ASSUME NEW w \in Worlds, Sound(w), NEW c
    PROVE  Spared(w, DeleteNew(w, c),
                  {p \in Profiles : w.settings[p].exists /\ p \notin c.connection_uuids})
<1> DEFINE S == {p \in Profiles : w.settings[p].exists /\ p \notin c.connection_uuids}
           W == {v \in Worlds : Sound(v)}
           op == [a \in S \X W |-> DeleteConnection(a[2], a[1])]
<1>1. IsFiniteSet(S)
  BY CheckpointAssumption, FS_Subset
<1>2. w \in W
  OBVIOUS
<1>3. \A p \in S, v \in W : Spared(v, DeleteConnection(v, p), {p}) /\ DeleteConnection(v, p) \in W
  <2> SUFFICES ASSUME NEW p \in S, NEW v \in W
               PROVE  Spared(v, DeleteConnection(v, p), {p}) /\ DeleteConnection(v, p) \in W
    OBVIOUS
  <2>1. Spared(v, DeleteConnection(v, p), {p})
    BY DeleteConnectionSpares
  <2> QED  BY <2>1 DEF Spared
<1>4. op \in [S \X W -> W]
  BY <1>3
<1>5. PICK f : Folds(f, S, W, op, w)
  <2> HIDE DEF S, W, op
  <2> QED  BY <1>1, <1>2, <1>4, FoldExists
<1>6. \A s \in SUBSET S : s # {} => Pick(s) \in S /\ s \ {Pick(s)} \in SUBSET S
  BY DEF Pick
<1>7. DeleteRec(f, w, S)
  <2>1. f \in [SUBSET S -> W] /\ f[{}] = w
    BY <1>5 DEF Folds
  <2>2. ASSUME NEW s \in SUBSET S, s # {}
        PROVE  f[s] = DeleteConnection(f[s \ {Pick(s)}], Pick(s))
    <3>1. f[s] = op[<<Pick(s), f[s \ {Pick(s)}]>>]
      <4> HIDE DEF op, W
      <4> QED  BY <1>5, <2>2 DEF Folds
    <3>2. <<Pick(s), f[s \ {Pick(s)}]>> \in S \X W
      <4> HIDE DEF W, S
      <4> QED  BY <1>6, <2>1, <2>2
    <3> QED  BY <3>1, <3>2
  <2> HIDE DEF W, S
  <2> QED  BY <2>1, <2>2 DEF DeleteRec
<1> DEFINE h == CHOOSE g : DeleteRec(g, w, S)
<1>8. DeleteRec(h, w, S)
  BY <1>7
<1>9. DeleteNew(w, c) = h[S]
  BY DEF DeleteNew, FoldSet, MapThenFoldSet, Pick, DeleteRec
<1> DEFINE Q == {s \in SUBSET S : Spared(w, h[s], s)}
<1> HIDE DEF h
<1>10. h[{}] = w /\ \A s \in SUBSET S : s # {} => h[s] = DeleteConnection(h[s \ {Pick(s)}], Pick(s))
  BY <1>8 DEF DeleteRec
<1>11. {} \in Q
  BY <1>10 DEF Spared, TakenDown
<1>12. ASSUME NEW s \in SUBSET S, s # {}, s \ {Pick(s)} \in Q
       PROVE  s \in Q
  <2> DEFINE t == h[s \ {Pick(s)}]
             v == DeleteConnection(t, Pick(s))
  <2>1. Spared(w, t, s \ {Pick(s)})
    BY <1>12
  <2>2. h[s] = v
    BY <1>10, <1>12
  <2>3. t \in W
    BY <2>1 DEF Spared
  <2>4. Spared(t, v, {Pick(s)}) /\ Pick(s) \in s
    <3> HIDE DEF t, W, S
    <3> QED  BY <1>3, <1>6, <1>12, <2>3 DEF Pick
  <2>5. Spared(w, v, s)
    <3> HIDE DEF t, v, S
    <3>1. \A d \in Devices : TakenDown(w, v, d) => w.device[d].act \in s
      <4> SUFFICES ASSUME NEW d \in Devices, TakenDown(w, v, d)
                   PROVE  w.device[d].act \in s
        OBVIOUS
      <4>1. w.device[d].place = "real"
        BY DEF TakenDown, Sound, Fit
      <4>2. t.device[d].act = w.device[d].act
        BY <2>1, <4>1 DEF Spared
      <4> QED  BY <2>1, <2>4, <4>2 DEF Spared, TakenDown
    <3>2. \A d \in Devices : w.device[d].place = "real" =>
            /\ v.device[d].place = "real"
            /\ v.device[d].act = w.device[d].act /\ v.device[d].version = w.device[d].version
            /\ v.device[d].pending = w.device[d].pending
      BY <2>1, <2>4 DEF Spared
    <3>3. /\ \A q \in Profiles \ s : v.settings[q] = w.settings[q]
          /\ \A q \in Profiles : v.settings[q].content = w.settings[q].content
      BY <2>1, <2>4 DEF Spared
    <3>4. \A q \in s : ~v.settings[q].exists
      <4>1. s \in SUBSET Profiles
        BY DEF S
      <4> QED  BY <2>1, <2>4, <4>1 DEF Spared
    <3> QED  BY <2>1, <2>4, <3>1, <3>2, <3>3, <3>4 DEF Spared
  <2> QED  BY <2>2, <2>5
<1>13. S \in Q
  <2> HIDE DEF Q, S
  <2> QED  BY <1>1, <1>11, <1>12, FoldInduction
<1> QED  BY <1>9, <1>13

\* DISCONNECT_NEW_DEVICES spares the devices of the checkpoint.
LEMMA DisconnectSpares ==
    ASSUME NEW w \in Worlds, Sound(w), NEW c
    PROVE  LET v == DisconnectNew(w, c) IN
           /\ v \in Worlds /\ Sound(v) /\ v.ok = w.ok /\ v.settings = w.settings
           /\ v.stale = w.stale
           /\ \A d \in Devices : v.device[d].place = w.device[d].place
           /\ \A d \in c.devices \cap Devices : v.device[d] = w.device[d]
<1> DEFINE v == DisconnectNew(w, c)
<1>1. /\ v.device = [d \in Devices |-> IF d \in c.devices THEN w.device[d] ELSE Deactivate(w.device[d])]
      /\ v.settings = w.settings /\ v.ok = w.ok /\ v.stale = w.stale
  BY DEF DisconnectNew
<1>2. \A d \in Devices : w.device[d] \in DeviceRecords /\ Fit(w.device[d], d)
  BY DEF Worlds, Sound
<1>3. \A d \in Devices : /\ v.device[d] \in DeviceRecords /\ Fit(v.device[d], d)
                         /\ v.device[d].place = w.device[d].place
                         /\ d \in c.devices => v.device[d] = w.device[d]
  <2> HIDE DEF v
  <2> QED  BY <1>1, <1>2, DeactivateKeeps, FitDeactivate
<1>4. v.device \in [Devices -> DeviceRecords]
  <2> HIDE DEF v
  <2> QED  BY <1>1, <1>3
<1>5. v \in Worlds
  BY <1>1, <1>4 DEF DisconnectNew, Worlds
<1> HIDE DEF v
<1>6. Sound(v)
  BY <1>1, <1>3 DEF Sound
<1>7. /\ v \in Worlds /\ Sound(v) /\ v.ok = w.ok /\ v.settings = w.settings
      /\ v.stale = w.stale
      /\ \A d \in Devices : v.device[d].place = w.device[d].place
      /\ \A d \in c.devices \cap Devices : v.device[d] = w.device[d]
  BY <1>1, <1>3, <1>5, <1>6
<1> QED  BY <1>7 DEF v

\* The checkpoint c belongs to the state: its devices are there and its
\* entries are about them.
Usable(c, w) ==
    /\ c \in Checkpoints
    /\ \A d \in c.devices : w.device[d].place = "real"
    /\ c.devices \cap c.removed_devices = {}
    /\ \A d \in Devices : Owns(c.saved[d], d)

\* DELETE_NEW_CONNECTIONS takes p for a new profile.
IsNew(c, p) == "delete_new_connections" \in c.flags /\ p \notin c.connection_uuids

\* What the whole rollback owes to the device d of the table of c
Settled(w, c, d) ==
    LET p == c.saved[d].profile IN
    d \in w.ok /\ c.saved[d].state # "unmanaged" /\ p # None
    => /\ \/ w.device[d].pending = p
          \/ w.device[d].act = p /\ w.device[d].version = c.saved[d].version
       /\ IsNew(c, p) => ~w.settings[p].exists
       /\ ~IsNew(c, p) => w.settings[p].exists
       /\ d \notin w.stale => w.settings[p].content = c.saved[d].content

\* nm_checkpoint_rollback as a whole
LEMMA RollbackOutcome ==
    ASSUME World \in Worlds, Sound(World), NEW c, Usable(c, World), NEW bad
    PROVE  LET v == RollbackWorld(c, bad) IN
           /\ v \in Worlds /\ Sound(v)
           /\ \A d \in Devices : World.device[d].place = "real" => v.device[d].place = "real"
           /\ \A q \in c.connection_uuids : World.settings[q].exists => v.settings[q].exists
           /\ \A d \in c.devices : Settled(v, c, d)
           /\ \A d \in Devices : TakenDown(World, v, d) => MayTakeDown(c, d)
<1> DEFINE a == RollbackAllRemoved(World, c, bad)
           b == RollbackAllDevices(a, c, bad)
           D == {p \in Profiles : b.settings[p].exists /\ p \notin c.connection_uuids}
           x == IF "delete_new_connections" \in c.flags THEN DeleteNew(b, c) ELSE b
           v == IF "disconnect_new_devices" \in c.flags THEN DisconnectNew(x, c) ELSE x
<1>1. RollbackWorld(c, bad) = v
  BY DEF RollbackWorld
<1>2. /\ c.devices \in SUBSET Devices /\ c.removed_devices \in SUBSET Devices
      /\ c.saved \in [Devices -> Entries] /\ c.connection_uuids \in SUBSET Profiles
  BY DEF Usable, Checkpoints
<1>3. World.ok = {}
  BY DEF World
<1>4. Kept(World, a) /\ a.ok \subseteq c.removed_devices /\ Left(World, a, c, c.removed_devices)
  <2>1. /\ Kept(World, a) /\ a.ok \subseteq World.ok \cup c.removed_devices
        /\ Left(World, a, c, c.removed_devices)
    BY <1>2, RemovedLoop DEF Usable
  <2> QED  BY <1>3, <2>1
<1> HIDE DEF a
<1>5. /\ a \in Worlds /\ Sound(a)
      /\ \A d \in c.devices : a.device[d].place = "real" /\ d \notin a.ok
  BY <1>2, <1>4 DEF Usable, Kept
<1>6. Kept(a, b) /\ Left(a, b, c, c.devices) /\ \A d \in c.devices : Promised(b, c, d)
  BY <1>2, <1>5, DevicesLoop DEF Usable
<1> HIDE DEF b
<1>7. b \in Worlds /\ Sound(b)
  BY <1>6 DEF Kept
<1>8. Spared(b, x, IF "delete_new_connections" \in c.flags THEN D ELSE {})
  <2>1. CASE "delete_new_connections" \in c.flags
    <3>1. x = DeleteNew(b, c)
      BY <2>1
    <3>2. Spared(b, DeleteNew(b, c), D)
      BY <1>7, DeleteLoop
    <3> HIDE DEF D, x
    <3> QED  BY <2>1, <3>1, <3>2
  <2>2. CASE "delete_new_connections" \notin c.flags
    <3>1. x = b
      BY <2>2
    <3>2. Spared(b, b, {})
      BY <1>7 DEF Spared, TakenDown
    <3> HIDE DEF D, x
    <3> QED  BY <2>2, <3>1, <3>2
  <2> QED  BY <2>1, <2>2
<1> DEFINE E == IF "delete_new_connections" \in c.flags THEN D ELSE {}
<1>9. E \in SUBSET Profiles /\ E \cap c.connection_uuids = {}
  OBVIOUS
<1>10. /\ \A p \in Profiles : ~IsNew(c, p) => p \notin E
       /\ \A p \in Profiles : IsNew(c, p) /\ b.settings[p].exists => p \in E
       /\ \A p \in E : IsNew(c, p)
  BY DEF IsNew
<1> HIDE DEF x, E
<1>11. x \in Worlds /\ Sound(x) /\ x.ok = b.ok /\ x.stale = b.stale
  BY <1>8 DEF Spared
<1>12. /\ v \in Worlds /\ Sound(v) /\ v.ok = x.ok /\ v.settings = x.settings
       /\ v.stale = x.stale
       /\ \A d \in Devices : v.device[d].place = x.device[d].place
       /\ \A d \in c.devices \cap Devices : v.device[d] = x.device[d]
       /\ "disconnect_new_devices" \notin c.flags => v = x
  <2>1. CASE "disconnect_new_devices" \in c.flags
    <3>1. v = DisconnectNew(x, c)
      BY <2>1
    <3> HIDE DEF v
    <3> QED  BY <1>11, <2>1, <3>1, DisconnectSpares
  <2>2. CASE "disconnect_new_devices" \notin c.flags
    <3>1. v = x
      BY <2>2
    <3> HIDE DEF v
    <3> QED  BY <1>11, <3>1
  <2> QED  BY <2>1, <2>2
<1> HIDE DEF v
<1>13. Spared(b, x, E)
  BY <1>8 DEF E
<1>14. \A d \in Devices : World.device[d].place = "real" => v.device[d].place = "real"
  BY <1>4, <1>6, <1>12, <1>13 DEF Kept, Spared
<1>15. \A q \in c.connection_uuids : World.settings[q].exists => v.settings[q].exists
  BY <1>2, <1>4, <1>6, <1>9, <1>12, <1>13 DEF Kept, Spared
<1>16. ASSUME NEW d \in c.devices
       PROVE  Settled(v, c, d)
  <2> DEFINE p == c.saved[d].profile
  <2> SUFFICES ASSUME d \in v.ok, c.saved[d].state # "unmanaged", p # None
               PROVE  /\ \/ v.device[d].pending = p
                         \/ v.device[d].act = p /\ v.device[d].version = c.saved[d].version
                      /\ IsNew(c, p) => ~v.settings[p].exists
                      /\ ~IsNew(c, p) => v.settings[p].exists
                      /\ d \notin v.stale => v.settings[p].content = c.saved[d].content
    BY DEF Settled
  <2>1. p \in Profiles /\ d \in Devices
    BY <1>2 DEF Entries
  <2>2. Restored(b, c.saved[d], d)
    BY <1>6, <1>11, <1>12 DEF Promised
  <2>3. b.device[d].place = "real"
    BY <1>5, <1>6, <2>1 DEF Kept
  <2>4. v.device[d] = x.device[d]
    BY <1>12, <2>1
  <2>5. /\ x.device[d].act = b.device[d].act /\ x.device[d].version = b.device[d].version
        /\ x.device[d].pending = b.device[d].pending
    BY <1>13, <2>1, <2>3 DEF Spared
  <2>6. IsNew(c, p) => ~v.settings[p].exists
    BY <1>10, <1>12, <1>13, <2>1, <2>2 DEF Spared, Restored
  <2>7. ~IsNew(c, p) => v.settings[p].exists
    BY <1>10, <1>12, <1>13, <2>1, <2>2 DEF Spared, Restored
  <2>8. d \notin v.stale => v.settings[p].content = c.saved[d].content
    BY <1>11, <1>12, <1>13, <2>1, <2>2 DEF Spared, Restored
  <2> QED  BY <2>2, <2>4, <2>5, <2>6, <2>7, <2>8 DEF Restored
<1>17. ASSUME NEW d \in Devices, TakenDown(World, v, d)
       PROVE  MayTakeDown(c, d)
  <2>1. World.device = device /\ World.settings = settings
    BY DEF World
  <2>2. \A e : SavedIn(World, e, d) <=> AsSaved(e, d)
    BY <2>1 DEF SavedIn, AsSaved
  <2>3. CASE TakenDown(World, a, d)
    BY <1>4, <2>2, <2>3 DEF Left, TakenDown, MayTakeDown
  <2>4. CASE TakenDown(a, b, d)
    <3>1. d \in c.devices /\ ~SavedIn(a, c.saved[d], d)
      BY <1>6, <2>4 DEF Left, TakenDown
    <3>2. d \notin c.removed_devices
      BY <3>1 DEF Usable
    <3>3. a.device[d] = World.device[d]
      BY <1>4, <3>2 DEF Left
    <3>4. c.saved[d].profile # None => a.settings[c.saved[d].profile] = World.settings[c.saved[d].profile]
      BY <1>2, <1>4, <3>2 DEF Left, Usable, Owns, Entries
    <3>5. ~SavedIn(World, c.saved[d], d)
      BY <3>1, <3>3, <3>4 DEF SavedIn
    <3> QED  BY <2>2, <3>1, <3>5 DEF MayTakeDown
  <2>5. CASE TakenDown(b, x, d)
    <3>1. b.device[d].act \in E
      BY <1>13, <2>5 DEF Spared
    <3>2. b.device[d].act = device[d].act
      BY <1>4, <1>6, <2>1 DEF Left
    <3> QED  BY <1>10, <3>1, <3>2 DEF IsNew, MayTakeDown
  <2>6. CASE TakenDown(x, v, d)
    <3>1. d \notin c.devices /\ "disconnect_new_devices" \in c.flags
      BY <1>12, <2>6 DEF TakenDown
    <3> QED  BY <3>1 DEF MayTakeDown
  <2> QED  BY <1>17, <2>3, <2>4, <2>5, <2>6 DEF TakenDown
<1>18. /\ v \in Worlds /\ Sound(v)
       /\ \A d \in Devices : World.device[d].place = "real" => v.device[d].place = "real"
       /\ \A q \in c.connection_uuids : World.settings[q].exists => v.settings[q].exists
       /\ \A d \in c.devices : Settled(v, c, d)
       /\ \A d \in Devices : TakenDown(World, v, d) => MayTakeDown(c, d)
  BY <1>12, <1>14, <1>15, <1>16, <1>17
<1> QED  BY <1>1, <1>18

-----------------------------------------------------------------------------
(* The steps *)

\* The inductive invariant
StateInv ==
    /\ TypeOK /\ Sound(World) /\ RollbackRestores
    /\ \A c \in checkpoints : Usable(c, World)

\* The world that a rollback starts from is the state.
LEMMA WorldIs ==
    /\ World.device = device /\ World.settings = settings
    /\ World.ok = {} /\ World.stale = {}
BY DEF World

\* The invariant makes it a sound one.
LEMMA StateWorld ==
    ASSUME StateInv
    PROVE  World \in Worlds /\ Sound(World)
BY DEF StateInv, TypeOK, World, Worlds, Settings

\* A step to a sound world that keeps real devices real and makes no checkpoint
LEMMA WorldStep ==
    ASSUME StateInv, NEW w \in Worlds, Sound(w),
           \A d \in Devices : device[d].place = "real" => w.device[d].place = "real",
           device' = w.device, settings' = w.settings, checkpoints' \subseteq checkpoints,
           next_id' \in Nat, next_version' \in Nat, events' \in Nat,
           reply' = NoReply \/ reply' \in Replies, RollbackRestores'
    PROVE  StateInv'
<1>1. w.device \in [Devices -> DeviceRecords] /\ w.settings \in Settings
  BY DEF Worlds
<1>2. \A d \in Devices : w.device[d].place = "absent" => w.device[d] = Gone
  BY DEF Sound, Fit
<1>3. TypeOK'
  BY <1>1, <1>2 DEF StateInv, TypeOK, Settings
<1>4. World'.device = w.device /\ World'.settings = w.settings
  BY DEF World
<1>5. Sound(World)'
  BY <1>4 DEF Sound, World
<1>6. \A c \in checkpoints : Usable(c, World')
  <2> SUFFICES ASSUME NEW c \in checkpoints
               PROVE  Usable(c, World')
    OBVIOUS
  <2>1. Usable(c, World) /\ c.devices \in SUBSET Devices
    BY DEF StateInv, Usable, Checkpoints
  <2> QED  BY <1>4, <2>1, WorldIs DEF Usable
<1>7. (\A c \in checkpoints : Usable(c, World))'
  BY <1>6
<1> QED  BY <1>3, <1>5, <1>7 DEF StateInv

\* A step of one device that stays real if it was
LEMMA DeviceStep ==
    ASSUME StateInv, NEW d \in Devices, NEW r \in DeviceRecords, Fit(r, d),
           device[d].place = "real" => r.place = "real", Changes(d, r),
           next_version' \in Nat, events' \in Nat
    PROVE  StateInv'
<1> DEFINE w == WithDevice(World, d, r)
<1>1. World \in Worlds /\ Sound(World) /\ World.device = device /\ World.settings = settings
  BY StateWorld, WorldIs
<1>2. /\ device' = [device EXCEPT ![d] = r] /\ settings' = settings /\ reply' = NoReply
      /\ checkpoints' = checkpoints /\ next_id' = next_id
  BY DEF Changes, Silent
<1>3. w.device = [World.device EXCEPT ![d] = r] /\ w.settings = World.settings
  BY DEF WithDevice
<1>4. w \in Worlds /\ Sound(w)
  BY <1>1, WithDeviceIs, SoundWithDevice
<1> HIDE DEF w
<1>5. device' = w.device /\ settings' = w.settings
  BY <1>1, <1>2, <1>3
<1>6. \A x \in Devices : device[x].place = "real" => w.device[x].place = "real"
  BY <1>1, <1>3 DEF Worlds
<1>7. RollbackRestores'
  BY <1>2 DEF RollbackRestores
<1>8. next_id' \in Nat
  BY <1>2 DEF StateInv, TypeOK
<1> QED  BY <1>2, <1>4, <1>5, <1>6, <1>7, <1>8, WorldStep

\* An activation that has been carried out
LEMMA ActivatedStep ==
    ASSUME StateInv, NEW d \in Devices, NEW p \in Profiles, Iface[p] = d,
           NEW pending \in Profiles \cup {None}, pending # None => Iface[pending] = d,
           Activated(d, p, pending)
    PROVE  StateInv'
<1> DEFINE r == [device[d] EXCEPT !.place = "real", !.state = "active", !.act = p,
                                  !.version = next_version, !.pending = pending]
<1>1. device[d] \in DeviceRecords /\ next_version \in Nat /\ events \in Nat
  BY DEF StateInv, TypeOK
<1>2. /\ r \in DeviceRecords /\ r.place = "real" /\ r.act = p /\ r.pending = pending
  BY <1>1 DEF DeviceRecords, States
<1>3. Changes(d, r) /\ next_version' \in Nat /\ events' \in Nat
  BY <1>1 DEF Activated
<1> HIDE DEF r
<1>4. Fit(r, d)
  BY <1>2 DEF Fit
<1> QED  BY <1>2, <1>3, <1>4, DeviceStep

\* The rest of what happens to a device
LEMMA DeviceEvents ==
    ASSUME StateInv, NEW d \in Devices,
           PendingEnds(d) \/ DeactivationEnds(d) \/ Disconnect(d) \/ LinkAppears(d)
    PROVE  StateInv'
<1>1. /\ device[d] \in DeviceRecords /\ next_version \in Nat /\ events \in Nat
      /\ Fit(device[d], d)
  BY WorldIs DEF StateInv, TypeOK, Sound
<1>2. CASE PendingEnds(d) /\ Activated(d, device[d].pending, None)
  <2>1. device[d].pending \in Profiles /\ Iface[device[d].pending] = d
    BY <1>1, <1>2 DEF PendingEnds, DeviceRecords, Fit
  <2> QED  BY <1>2, <2>1, ActivatedStep
<1>3. CASE PendingEnds(d) /\ ~Activated(d, device[d].pending, None)
  <2> DEFINE r == [device[d] EXCEPT !.pending = None]
  <2>1. Changes(d, r) /\ next_version' \in Nat /\ events' \in Nat
    BY <1>1, <1>3 DEF PendingEnds
  <2>2. /\ r \in DeviceRecords /\ r.place = device[d].place /\ r.act = device[d].act
        /\ r.pending = None /\ r.state = device[d].state
    BY <1>1 DEF DeviceRecords
  <2>3. device[d] # Gone
    BY <1>3 DEF PendingEnds, Gone
  <2> HIDE DEF r
  <2>4. Fit(r, d)
    BY <1>1, <2>2, <2>3 DEF Fit
  <2> QED  BY <2>1, <2>2, <2>4, DeviceStep
<1>4. CASE DeactivationEnds(d)
  <2> DEFINE r == [device[d] EXCEPT !.state = "disconnected", !.act = None, !.version = 0]
  <2>1. Changes(d, r) /\ next_version' \in Nat /\ events' \in Nat
    BY <1>1, <1>4 DEF DeactivationEnds
  <2>2. /\ r \in DeviceRecords /\ r.place = device[d].place /\ r.act = None
        /\ r.pending = device[d].pending /\ r.state = "disconnected"
    BY <1>1 DEF DeviceRecords, States
  <2>3. device[d] # Gone
    BY <1>4 DEF DeactivationEnds, Gone
  <2> HIDE DEF r
  <2>4. Fit(r, d)
    BY <1>1, <2>2, <2>3 DEF Fit
  <2> QED  BY <2>1, <2>2, <2>4, DeviceStep
<1>5. CASE Disconnect(d)
  <2>1. Changes(d, Deactivate(device[d])) /\ next_version' \in Nat /\ events' \in Nat
    BY <1>1, <1>5 DEF Disconnect, Event
  <2>2. /\ Deactivate(device[d]) \in DeviceRecords
        /\ Deactivate(device[d]).place = device[d].place
        /\ Fit(Deactivate(device[d]), d)
    BY <1>1, DeactivateKeeps, FitDeactivate
  <2> QED  BY <2>1, <2>2, DeviceStep
<1>6. CASE LinkAppears(d)
  <2> DEFINE r == [Plugged EXCEPT !.pending = device[d].pending]
  <2>1. Changes(d, r) /\ next_version' \in Nat /\ events' \in Nat
    BY <1>1, <1>6 DEF LinkAppears, Event
  <2>2. /\ r \in DeviceRecords /\ r.place = "real" /\ r.act = None
        /\ r.pending = device[d].pending
    BY <1>1 DEF DeviceRecords, States, Plugged, Gone
  <2> HIDE DEF r
  <2>3. Fit(r, d)
    BY <1>1, <2>2 DEF Fit
  <2> QED  BY <2>1, <2>2, <2>3, DeviceStep
<1> QED  BY <1>2, <1>3, <1>4, <1>5, <1>6

\* _set_unmanaged_flags
LEMMA ManagedStep ==
    ASSUME StateInv, NEW d \in Devices, NEW managed \in BOOLEAN, SetManaged(d, managed)
    PROVE  StateInv'
<1>1. /\ device[d] \in DeviceRecords /\ next_version \in Nat /\ events \in Nat
      /\ Fit(device[d], d)
  BY WorldIs DEF StateInv, TypeOK, Sound
<1>2. /\ device[d].place = "real" /\ next_version' \in Nat /\ events' \in Nat
  BY <1>1 DEF SetManaged, Event
<1>3. CASE managed
  <2> DEFINE new == IF device[d].state = "unmanaged" THEN "disconnected" ELSE device[d].state
             r == [device[d] EXCEPT !.unmanaged_explicit = FALSE, !.state = new]
  <2>1. Changes(d, r)
    BY <1>3 DEF SetManaged
  <2>2. new \in States
    BY <1>1 DEF DeviceRecords, States
  <2> HIDE DEF new
  <2>3. /\ r \in DeviceRecords /\ r.place = device[d].place /\ r.act = device[d].act
        /\ r.pending = device[d].pending
    BY <1>1, <2>2 DEF DeviceRecords
  <2> HIDE DEF r
  <2>4. Fit(r, d)
    BY <1>1, <1>2, <2>3 DEF Fit
  <2> QED  BY <1>2, <2>1, <2>3, <2>4, DeviceStep
<1>4. CASE ~managed
  <2> DEFINE r == [Gone EXCEPT !.place = "real", !.unmanaged_explicit = TRUE]
  <2>1. Changes(d, r)
    BY <1>4 DEF SetManaged
  <2>2. r \in DeviceRecords /\ r.place = "real" /\ r.act = None /\ r.pending = None
    BY DEF DeviceRecords, States, Gone
  <2> HIDE DEF r
  <2>3. Fit(r, d)
    BY <2>2 DEF Fit
  <2> QED  BY <1>2, <2>1, <2>2, <2>3, DeviceStep
<1> QED  BY <1>3, <1>4

\* What clients do to profiles
LEMMA ProfileEvents ==
    ASSUME StateInv, NEW p \in Profiles,
           Activate(p) \/ EditProfile(p) \/ DeleteProfile(p) \/ AddProfile(p)
    PROVE  StateInv'
<1>1. /\ World \in Worlds /\ Sound(World) /\ World.device = device /\ World.settings = settings
      /\ settings[p].content \in Nat
      /\ next_id \in Nat /\ next_version \in Nat /\ events \in Nat
  BY StateWorld, WorldIs DEF StateInv, TypeOK
<1>2. CASE Activate(p)
  <2>1. Iface[p] \in Devices
    BY CheckpointAssumption
  <2>2. /\ device[Iface[p]].pending \in Profiles \cup {None}
        /\ device[Iface[p]].pending # None => Iface[device[Iface[p]].pending] = Iface[p]
    BY <1>1, <2>1 DEF Sound, Fit, Worlds, DeviceRecords
  <2> QED  BY <1>2, <2>1, <2>2, ActivatedStep DEF Activate
<1>3. CASE EditProfile(p)
  <2> DEFINE w == WithProfile(World, p, settings[p].content + 1)
  <2>1. /\ w \in Worlds /\ Sound(w) /\ w.device = device
        /\ w.settings[p] = [exists |-> TRUE, content |-> settings[p].content + 1]
    BY <1>1, WithProfileIs, SoundWithProfile
  <2>2. /\ device' = device /\ checkpoints' = checkpoints /\ reply' = NoReply
        /\ next_id' \in Nat /\ next_version' \in Nat /\ events' \in Nat
    BY <1>1, <1>3 DEF EditProfile, Event, Silent
  <2>3. w.settings = [settings EXCEPT ![p] = [exists |-> TRUE, content |-> settings[p].content + 1]]
    BY <1>1 DEF WithProfile
  <2>4. settings[p] \in [exists : BOOLEAN, content : Nat] /\ settings[p].exists
    BY <1>1, <1>3 DEF EditProfile, StateInv, TypeOK
  <2>5. settings' = w.settings
    <3>1. settings' = [settings EXCEPT ![p] = [settings[p] EXCEPT !.content = settings[p].content + 1]]
      BY <1>3 DEF EditProfile
    <3>2. ASSUME NEW s \in [exists : BOOLEAN, content : Nat], NEW n \in Nat, s.exists
          PROVE  [s EXCEPT !.content = n] = [exists |-> TRUE, content |-> n]
      <4>1. [s EXCEPT !.content = n] = [exists |-> s.exists, content |-> n]
        OBVIOUS
      <4>2. s.exists \in BOOLEAN
        OBVIOUS
      <4>3. s.exists = TRUE
        BY <3>2, <4>2
      <4> QED  BY <4>1, <4>3
    <3>3. [settings[p] EXCEPT !.content = settings[p].content + 1]
          = [exists |-> TRUE, content |-> settings[p].content + 1]
      BY <1>1, <2>4, <3>2
    <3> QED  BY <2>3, <3>1, <3>3
  <2> HIDE DEF w
  <2>6. RollbackRestores'
    BY <2>2 DEF RollbackRestores
  <2> QED  BY <2>1, <2>2, <2>5, <2>6, WorldStep
<1>4. CASE DeleteProfile(p)
  <2> DEFINE w == DeleteConnection(World, p)
  <2>1. /\ device' = w.device /\ settings' = w.settings /\ checkpoints' = checkpoints
        /\ reply' = NoReply /\ next_id' \in Nat /\ next_version' \in Nat /\ events' \in Nat
    BY <1>1, <1>4 DEF DeleteProfile, Event, Silent
  <2>2. Spared(World, w, {p})
    BY <1>1, DeleteConnectionSpares
  <2> HIDE DEF w
  <2>3. /\ w \in Worlds /\ Sound(w)
        /\ \A d \in Devices : device[d].place = "real" => w.device[d].place = "real"
    BY <1>1, <2>2 DEF Spared
  <2>4. RollbackRestores'
    BY <2>1 DEF RollbackRestores
  <2> QED  BY <2>1, <2>3, <2>4, WorldStep
<1>5. CASE AddProfile(p)
  <2> DEFINE w == AddConnection(World, p, 0)
  <2>1. /\ device' = w.device /\ settings' = w.settings /\ checkpoints' = checkpoints
        /\ reply' = NoReply /\ next_id' \in Nat /\ next_version' \in Nat /\ events' \in Nat
    BY <1>1, <1>5 DEF AddProfile, Event, Silent
  <2>2. Round(World, w, Iface[p]) /\ Iface[p] \in Devices
    BY <1>1, RoundAddConnection, CheckpointAssumption
  <2> HIDE DEF w
  <2>3. /\ w \in Worlds /\ Sound(w)
        /\ \A d \in Devices : device[d].place = "real" => w.device[d].place = "real"
    BY <1>1, <2>2 DEF Round
  <2>4. RollbackRestores'
    BY <2>1 DEF RollbackRestores
  <2> QED  BY <2>1, <2>3, <2>4, WorldStep
<1> QED  BY <1>2, <1>3, <1>4, <1>5

\* nm_checkpoint_manager_destroy and nm_checkpoint_manager_destroy_all
LEMMA DestroyStep ==
    ASSUME StateInv, (\E c \in checkpoints : Destroy(c)) \/ DestroyAll
    PROVE  StateInv'
<1>1. /\ World \in Worlds /\ Sound(World) /\ World.device = device /\ World.settings = settings
      /\ next_id \in Nat /\ next_version \in Nat /\ events \in Nat
  BY StateWorld, WorldIs DEF StateInv, TypeOK
<1>2. /\ device' = device /\ settings' = settings /\ checkpoints' \subseteq checkpoints
      /\ reply' = NoReply /\ next_id' = next_id /\ next_version' = next_version
      /\ events' = events
  BY DEF Destroy, DestroyAll, Silent
<1>3. RollbackRestores'
  BY <1>2 DEF RollbackRestores
<1> QED  BY <1>1, <1>2, <1>3, WorldStep

\* nm_checkpoint_new takes up real devices with their own profiles.
LEMMA NewCheckpointIs ==
    ASSUME StateInv, NEW ds \in SUBSET Devices, NEW flags \in SUBSET Flags,
           \A d \in ds : device[d].place = "real"
    PROVE  Usable(NewCheckpoint(ds, flags), World)
<1> DEFINE none == [state |-> "unmanaged", unmanaged_explicit |-> FALSE, profile |-> None,
                    content |-> 0, version |-> 0]
           sv == [d \in Devices |-> IF d \in ds THEN DeviceCheckpoint(d) ELSE none]
           uu == IF "delete_new_connections" \in flags
                 THEN {p \in Profiles : settings[p].exists} ELSE {}
           n == NewCheckpoint(ds, flags)
<1>1. n = [id |-> next_id, devices |-> ds, removed_devices |-> {}, saved |-> sv, flags |-> flags,
           connection_uuids |-> uu]
  BY DEF NewCheckpoint
<1>2. none \in Entries /\ none.profile = None
  BY DEF Entries, States
<1>3. ASSUME NEW d \in Devices
      PROVE  DeviceCheckpoint(d) \in Entries /\ Owns(DeviceCheckpoint(d), d)
  <2>1. device[d] \in DeviceRecords /\ Fit(device[d], d)
    BY WorldIs DEF StateInv, TypeOK, Sound
  <2>2. \A p \in Profiles : settings[p].content \in Nat
    BY DEF StateInv, TypeOK
  <2> DEFINE content == IF device[d].act = None THEN 0 ELSE settings[device[d].act].content
  <2>3. content \in Nat
    BY <2>1, <2>2 DEF DeviceRecords
  <2>4. DeviceCheckpoint(d) =
            [state |-> device[d].state, unmanaged_explicit |-> device[d].unmanaged_explicit,
             profile |-> device[d].act, content |-> content, version |-> device[d].version]
    BY DEF DeviceCheckpoint
  <2> HIDE DEF content
  <2>5. DeviceCheckpoint(d) \in Entries /\ DeviceCheckpoint(d).profile = device[d].act
    BY <2>1, <2>3, <2>4 DEF Entries, DeviceRecords
  <2> QED  BY <2>1, <2>5 DEF Owns, Fit
<1> HIDE DEF none
<1>4. sv \in [Devices -> Entries] /\ \A d \in Devices : Owns(sv[d], d)
  BY <1>2, <1>3 DEF Owns
<1>5. uu \in SUBSET Profiles /\ next_id \in Nat
  BY DEF StateInv, TypeOK
<1> HIDE DEF sv, uu, n
<1>6. n \in Checkpoints
  BY <1>1, <1>4, <1>5 DEF Checkpoints
<1>7. n.devices = ds /\ n.removed_devices = {} /\ n.saved = sv
  BY <1>1
<1>8. Usable(n, World)
  BY <1>4, <1>6, <1>7, WorldIs DEF Usable
<1> QED  BY <1>8 DEF n

\* nm_checkpoint_manager_create
LEMMA CreateStep ==
    ASSUME StateInv, NEW ds \in SUBSET Devices, NEW all, NEW flags \in FlagChoices,
           Create(ds, all, flags)
    PROVE  StateInv'
<1> DEFINE n == NewCheckpoint(ds, flags)
<1>1. Usable(n, World)
  BY NewCheckpointIs, CheckpointAssumption DEF Create
<1>2. /\ device' = device /\ settings' = settings /\ reply' = NoReply
      /\ next_id' = next_id + 1 /\ next_version' = next_version /\ events' = events
      /\ checkpoints' \subseteq checkpoints \cup {n}
  BY DEF Create, Silent
<1> HIDE DEF n
<1>3. World' = World
  BY <1>2 DEF World
<1>4. \A c \in checkpoints' : Usable(c, World)
  BY <1>1, <1>2 DEF StateInv
<1>5. checkpoints' \subseteq Checkpoints
  BY <1>4 DEF Usable
<1>6. TypeOK'
  BY <1>2, <1>5 DEF StateInv, TypeOK
<1>7. RollbackRestores'
  BY <1>2 DEF RollbackRestores
<1>8. Sound(World)'
  BY <1>3 DEF StateInv, Sound
<1>9. (\A c \in checkpoints : Usable(c, World))'
  BY <1>3, <1>4
<1> QED  BY <1>6, <1>7, <1>8, <1>9 DEF StateInv

\* rollback_checkpoint leaves a sound state and keeps its promises.
LEMMA RollbackStep ==
    ASSUME StateInv, NEW c \in checkpoints, Rollback(c)
    PROVE  /\ StateInv'
           /\ reply'.of = c
           /\ \A q \in c.connection_uuids : settings[q].exists => settings'[q].exists
           /\ \A d \in Devices : device[d].state = "active" /\ device'[d].state # "active"
                                => MayTakeDown(c, d)
<1>1. PICK bad : RollbackCheckpoint(c, bad)
  BY DEF Rollback
<1> DEFINE v == RollbackWorld(c, bad)
<1>2. /\ World \in Worlds /\ Sound(World) /\ World.device = device /\ World.settings = settings
      /\ next_id \in Nat /\ next_version \in Nat /\ events \in Nat /\ Usable(c, World)
  BY StateWorld, WorldIs DEF StateInv, TypeOK
<1>3. /\ device' = v.device /\ settings' = v.settings /\ checkpoints' \subseteq checkpoints
      /\ reply' = [of |-> c, ok |-> v.ok, stale |-> v.stale]
      /\ next_id' = next_id /\ next_version' = next_version /\ events' = events
  BY <1>1 DEF RollbackCheckpoint
<1>4. /\ v \in Worlds /\ Sound(v)
      /\ \A d \in Devices : World.device[d].place = "real" => v.device[d].place = "real"
      /\ \A q \in c.connection_uuids : World.settings[q].exists => v.settings[q].exists
      /\ \A d \in c.devices : Settled(v, c, d)
      /\ \A d \in Devices : TakenDown(World, v, d) => MayTakeDown(c, d)
  BY <1>2, RollbackOutcome
<1> HIDE DEF v
<1>5. c \in Checkpoints /\ v.ok \in SUBSET Devices /\ v.stale \in SUBSET Devices
  BY <1>2, <1>4 DEF Usable, Worlds
<1>6. reply' \in Replies /\ reply'.of = c /\ reply'.ok = v.ok /\ reply'.stale = v.stale
  BY <1>3, <1>5 DEF Replies
<1>7. RollbackRestores'
  BY <1>3, <1>4, <1>6 DEF RollbackRestores, Settled, IsNew
<1>8. StateInv'
  BY <1>2, <1>3, <1>4, <1>6, <1>7, WorldStep
<1> QED  BY <1>2, <1>3, <1>4, <1>6, <1>8 DEF TakenDown

\* remove_device and nm_device_unrealize: the tables follow the device.
LEMMA LinkGoneStep ==
    ASSUME StateInv, NEW d \in Devices, LinkGone(d)
    PROVE  StateInv'
<1> DEFINE g == IF d \in Software /\ \E p \in Profiles : Iface[p] = d /\ settings[p].exists
                THEN [Gone EXCEPT !.place = "unrealized"] ELSE Gone
<1>1. /\ device' = [device EXCEPT ![d] = g] /\ settings' = settings /\ reply' = NoReply
      /\ next_id' = next_id /\ next_version' = next_version /\ events' = events + 1
      /\ checkpoints' = {MoveToRemoved(c, d) : c \in checkpoints}
  BY DEF LinkGone, Event, Silent
<1>2. g \in DeviceRecords /\ Fit(g, d)
  BY GoneIsFit
<1> HIDE DEF g
<1>3. World \in Worlds /\ Sound(World) /\ World.device = device /\ World.settings = settings
  BY StateWorld, WorldIs
<1> DEFINE w == WithDevice(World, d, g)
<1>4. /\ w \in Worlds /\ w.device = device' /\ w.settings = settings'
      /\ \A x \in Devices \ {d} : w.device[x] = device[x]
  BY <1>1, <1>2, <1>3, WithDeviceIs DEF WithDevice
<1>5. Sound(w)
  BY <1>2, <1>3, SoundWithDevice
<1> HIDE DEF w
<1>6. World'.device = w.device /\ World'.settings = w.settings
  BY <1>4 DEF World
<1>7. ASSUME NEW c \in checkpoints
      PROVE  Usable(MoveToRemoved(c, d), World')
  <2>1. Usable(c, World) /\ c.devices \in SUBSET Devices
    BY DEF StateInv, Usable, Checkpoints
  <2>2. CASE d \in c.devices
    <3> DEFINE m == [id |-> c.id, devices |-> c.devices \ {d},
                     removed_devices |-> c.removed_devices \cup {d},
                     saved |-> c.saved, flags |-> c.flags,
                     connection_uuids |-> c.connection_uuids]
    <3>1. MoveToRemoved(c, d) = m
      BY <2>2 DEF MoveToRemoved
    <3>2. m \in Checkpoints
      BY <2>1 DEF Usable, Checkpoints
    <3>3. m.devices = c.devices \ {d} /\ m.removed_devices = c.removed_devices \cup {d} /\ m.saved = c.saved
      OBVIOUS
    <3> HIDE DEF m
    <3> QED  BY <1>3, <1>4, <1>6, <2>1, <3>1, <3>2, <3>3 DEF Usable
  <2>3. CASE d \notin c.devices
    <3>1. MoveToRemoved(c, d) = c
      BY <2>3 DEF MoveToRemoved
    <3> QED  BY <1>3, <1>4, <1>6, <2>1, <2>3, <3>1 DEF Usable
  <2> QED  BY <2>2, <2>3
<1>8. \A c \in checkpoints' : Usable(c, World')
  BY <1>1, <1>7
<1>9. checkpoints' \subseteq Checkpoints
  BY <1>8 DEF Usable
<1>10. TypeOK'
  <2>1. w.device \in [Devices -> DeviceRecords] /\ w.settings \in Settings
    BY <1>4 DEF Worlds
  <2>2. \A x \in Devices : w.device[x].place = "absent" => w.device[x] = Gone
    BY <1>5 DEF Sound, Fit
  <2> QED  BY <1>1, <1>4, <1>9, <2>1, <2>2 DEF StateInv, TypeOK, Settings
<1>11. RollbackRestores'
  BY <1>1 DEF RollbackRestores
<1>12. Sound(World)'
  BY <1>5, <1>6 DEF Sound, World
<1>13. (\A c \in checkpoints : Usable(c, World))'
  BY <1>8
<1> QED  BY <1>10, <1>11, <1>12, <1>13 DEF StateInv

\* Every device is plugged in at the start.
LEMMA StateInit == Init => StateInv
<1> SUFFICES ASSUME Init
             PROVE  StateInv
  OBVIOUS
<1>1. Plugged \in DeviceRecords /\ \A d : Fit(Plugged, d)
  BY DEF Plugged, Gone, DeviceRecords, States, Fit
<1>2. Plugged.place = "real"
  BY DEF Plugged, Gone
<1>3. \A d \in Devices : device[d] = Plugged
  BY DEF Init
<1>4. TypeOK
  BY <1>1, <1>2 DEF Init, TypeOK
<1>5. Sound(World)
  BY <1>1, <1>3, WorldIs DEF Sound
<1>6. RollbackRestores
  BY DEF Init, RollbackRestores
<1> QED  BY <1>4, <1>5, <1>6 DEF Init, StateInv

\* Every step keeps the invariant.
LEMMA StateNext ==
    ASSUME StateInv, [Next]_vars
    PROVE  StateInv'
<1>1. ASSUME NEW ds \in SUBSET Devices, NEW all \in BOOLEAN, NEW flags \in FlagChoices,
             Create(ds, all, flags)
      PROVE  StateInv'
  BY <1>1, CreateStep
<1>2. ASSUME NEW c \in checkpoints, Destroy(c)
      PROVE  StateInv'
  BY <1>2, DestroyStep
<1>3. ASSUME NEW c \in checkpoints, Rollback(c)
      PROVE  StateInv'
  BY <1>3, RollbackStep
<1>4. CASE DestroyAll
  BY <1>4, DestroyStep
<1>5. ASSUME NEW p \in Profiles,
             Activate(p) \/ EditProfile(p) \/ DeleteProfile(p) \/ AddProfile(p)
      PROVE  StateInv'
  BY <1>5, ProfileEvents
<1>6. ASSUME NEW d \in Devices,
             PendingEnds(d) \/ DeactivationEnds(d) \/ Disconnect(d) \/ LinkAppears(d)
      PROVE  StateInv'
  BY <1>6, DeviceEvents
<1>7. ASSUME NEW d \in Devices, NEW managed \in BOOLEAN, SetManaged(d, managed)
      PROVE  StateInv'
  BY <1>7, ManagedStep
<1>8. ASSUME NEW d \in Devices, LinkGone(d)
      PROVE  StateInv'
  BY <1>8, LinkGoneStep
<1>9. CASE UNCHANGED vars
  BY <1>9 DEF vars, StateInv, TypeOK, Sound, World, RollbackRestores, Usable
<1> QED  BY <1>1, <1>2, <1>3, <1>4, <1>5, <1>6, <1>7, <1>8, <1>9 DEF Next

\* The inductive invariant holds of every behaviour.
LEMMA StateAlways == Spec => []StateInv
BY StateInit, StateNext, PTL DEF Spec

(***************************************************************************)
(* Whatever a rollback does, the state keeps its type: in particular       *)
(* nothing goes on on a device that is absent, although                    *)
(* restore_and_activate_connection looks devices up that the checkpoint    *)
(* has lost (src/nm-checkpoint.c:256).                                     *)
(***************************************************************************)
THEOREM TypeCorrect == Spec => []TypeOK
<1>1. StateInv => TypeOK
  BY DEF StateInv
<1> QED  BY <1>1, StateAlways, PTL

(***************************************************************************)
(* The table of a checkpoint holds only devices that exist, whichever way  *)
(* devices come and go (_move_dev_to_removed_devices,                      *)
(* src/nm-checkpoint.c:480), also while other checkpoints are rolled back. *)
(***************************************************************************)
THEOREM TablesAreReal == Spec => []TrackedIsReal
<1>1. StateInv => TrackedIsReal
  BY WorldIs DEF StateInv, Usable, TrackedIsReal
<1> QED  BY <1>1, StateAlways, PTL

(***************************************************************************)
(* What NM_ROLLBACK_RESULT_OK means, for any number of devices in any      *)
(* order and whichever steps fail: neither the later rounds of the loops   *)
(* nor the deletion of new profiles nor the disconnection of new devices   *)
(* take back the activation that the device has kept or was promised.  The *)
(* profile is deleted again only if it was gone when the checkpoint was    *)
(* created, and differs from the saved one only if its update has failed   *)
(* (nm_checkpoint_rollback, src/nm-checkpoint.c:310).                      *)
(***************************************************************************)
THEOREM RollbackKeepsItsWord == Spec => []RollbackRestores
<1>1. StateInv => RollbackRestores
  BY DEF StateInv
<1> QED  BY <1>1, StateAlways, PTL

\* Only a rollback reports anything.
LEMMA SilentUnlessRollback ==
    ASSUME StateInv, Next, reply' # NoReply
    PROVE  \E c \in checkpoints : Rollback(c)
<1>1. ASSUME NEW ds \in SUBSET Devices, NEW all \in BOOLEAN, NEW flags \in FlagChoices,
             Create(ds, all, flags)
      PROVE  FALSE
  BY <1>1 DEF Create, Silent
<1>2. ASSUME NEW c \in checkpoints, Destroy(c)  PROVE  FALSE
  BY <1>2 DEF Destroy, Silent
<1>3. ASSUME DestroyAll  PROVE  FALSE
  BY <1>3 DEF DestroyAll, Silent
<1>4. ASSUME NEW p \in Profiles,
             Activate(p) \/ EditProfile(p) \/ DeleteProfile(p) \/ AddProfile(p)
      PROVE  FALSE
  BY <1>4 DEF Activate, Activated, EditProfile, DeleteProfile, AddProfile, Changes, Silent
<1>5. ASSUME NEW d \in Devices, PendingEnds(d) \/ DeactivationEnds(d) \/ Disconnect(d)
      PROVE  FALSE
  BY <1>5 DEF PendingEnds, Activated, DeactivationEnds, Disconnect, Changes, Silent
<1>6. ASSUME NEW d \in Devices,
             (\E managed \in BOOLEAN : SetManaged(d, managed)) \/ LinkGone(d) \/ LinkAppears(d)
      PROVE  FALSE
  BY <1>6 DEF SetManaged, LinkGone, LinkAppears, Changes, Silent
<1> QED  BY <1>1, <1>2, <1>3, <1>4, <1>5, <1>6 DEF Next

(***************************************************************************)
(* A rollback never deletes a profile that its checkpoint knows, and takes *)
(* a device down only for a reason that the checkpoint or its flags give:  *)
(* never because of what it does for other devices                         *)
(* (src/nm-checkpoint.c:280, 409, 421, 449).                               *)
(***************************************************************************)
THEOREM RollbackSparesWhatItKnows == Spec => RollbackSpares
<1> DEFINE A == reply' # reply /\ reply' # NoReply =>
                /\ \A p \in reply'.of.connection_uuids : settings[p].exists => settings'[p].exists
                /\ \A d \in Devices : device[d].state = "active" /\ device'[d].state # "active"
                                     => MayTakeDown(reply'.of, d)
<1>1. ASSUME StateInv, [Next]_vars
      PROVE  [A]_vars
  <2> SUFFICES ASSUME Next, reply' # NoReply
               PROVE  A
    BY <1>1
  <2>1. PICK c \in checkpoints : Rollback(c)
    BY <1>1, SilentUnlessRollback
  <2>2. /\ reply'.of = c
        /\ \A q \in c.connection_uuids : settings[q].exists => settings'[q].exists
        /\ \A d \in Devices : device[d].state = "active" /\ device'[d].state # "active"
                             => MayTakeDown(c, d)
    BY <1>1, <2>1, RollbackStep
  <2> QED  BY <2>2
<1> QED  BY <1>1, StateAlways, PTL DEF Spec, RollbackSpares
=============================================================================
