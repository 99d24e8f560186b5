# Verification of third_party_modify

TLA+ models of the parts of this repository that hold logic of their own, the
TLC runs that check them, and TLAPS proofs about them. Paths are relative to
the repository (`src/NetworkManager/...`, `src/dmidecode/...`);
`PROJECT.json` maps every definition to the lines it models.

## The system

The repository holds NetworkManager 1.22.10, whose command line client `nmcli`
was turned into a shared library (libnmcli), and dmidecode 3.2 with an
extension (`dmi_ext`) that walks an SMBIOS table with callbacks.

| Component | State | Operations | Hard parts | What makes it correct |
|---|---|---|---|---|
| Dispatcher daemon `dispatcher/nm-dispatcher.c` | queue of requests, current request, scripts with their processes and timeouts, idle timer, counters | `Action` call, exit or timeout of a script, idle timer, signals, lost bus name | every order of events; spawns that fail in the middle of a callback; requests freed in callbacks | scripts one at a time and in order, each request answered once, nothing stranded, no assertion fails, idle exit |
| libnmcli `clients/cli/` | the global `nm_cli`, the main loop, the event sources of the default main context, the caller's argument vector | `nmcli_execute()`, `nmcli_execute_with_output()`, callbacks of the commands, signals | the global and the main context survive a call; late replies, timeouts, retries | a call is independent of earlier ones and returns |
| dmi_ext `dmidecode/dmi_ext/` | position in a table that callbacks may write to | walk, two searches, `dmi_string()` | bytes that are arbitrary; off-by-one at the end; writes during the walk | reads in bounds, complete and contiguous deliveries, first match, termination |
| Keep-alive `src/nm-keep-alive.c` | conditions, armed, disarmed, alive, subscription and pending call to the bus | arm, disarm, bind to a client or a profile, bus signals and answers | a client that leaves before it is watched; answers about an earlier client | alive exactly as long as a condition holds; frozen once disarmed |
| Activation of a device `src/devices/nm-device.c`, `src/nm-act-request.c`, `src/nm-active-connection.c` | state, queued state, current and queued request, carrier and its timers, idle sources, calls to firewalld and the dispatcher | stages, IP configuration, deactivation, carrier changes, (un)managing | a queued state replaced or dropped; late answers; requests that supersede each other | the device and its active connections agree, no request is forgotten, deactivation ends |
| Manager and policy `src/nm-manager.c`, `src/nm-policy.c` | active connections, authorization in progress | `ActivateConnection`, `AddAndActivateConnection2`, `DeactivateConnection`, end of a keep-alive object | a device or client that goes while polkit or the settings are asked | each call answered once; an activation whose reason is gone ends |
| Checkpoints `src/nm-checkpoint*.c` | checkpoints, the devices and profiles they saved | create, destroy, roll back, timeout, adjust | overlap, devices that go and come, profiles edited meanwhile | a rollback restores what it reports as restored and spares the rest |
| Secret agents `src/settings/nm-agent-manager.c`, `nm-secret-agent.c` | registered agents, requests with the agents still to ask, polkit checks | register, unregister, get, save, delete, cancel, replies | agents that come and leave while asked or checked | callbacks once, nothing hangs, system secrets stay with privileged agents |
| Dispatcher client `src/nm-dispatcher.c` | calls in flight | call, reply, cancel | two timeouts of ten minutes that race | each call is completed once |
| VPN, DNS, connectivity | object graphs around other processes | bus calls, timers | restarts, cancellation | per state machine |
| libnm, platform, supplicant, settings, tools, vendored code | - | - | translation and I/O | not modelled |

NetworkManager calls the daemon over the bus, and a device in `IP_CHECK` or
`DEACTIVATING` waits for its answer. The manager authorizes requests and hands
them to the device; the policy listens to the keep-alive object of each active
connection; a checkpoint uses the manager to activate and disconnect; an
activation that needs secrets waits for the agent manager. libnmcli talks to
NetworkManager over the bus through libnm; dmi_ext stands alone.

## Plan

Done, in this order: the daemon with its proofs; libnmcli for the frame and
eight commands; dmi_ext with its proofs; the service that the daemon
implements; keep-alive with the bus and its proofs; the activation of a device,
which uses the operators of keep-alive; checkpoints and secret agents, each with
its main invariants proved; every safety property of checkpoints and of the
activation proved, after a small theory of loops over finite sets; the strings of
dmi_ext and every safety property of libnmcli proved. Each invariant and each
safety action property that a run checks is now a theorem as well.

Left:

1. The dispatcher client composed with the daemon: `CALL_TIMEOUT` against the
   timeouts of the scripts, and late replies.
2. `find_scripts()` and `script_must_wait()` as operators, against a reference.
3. `connection up` and `connection down` in `NmcliLibrary`; secrets
   (`NEED_AUTH`) in `DeviceActivation`, composed with `SecretAgents`.
4. The connectivity check, VPN connections, and the rate limit of the DNS
   manager.

## Modules

`DispatcherDaemon` - one action per GLib callback of the daemon, which is
single threaded: `MethodCallAction` and `MethodCallNoScripts`
(`_method_call_action()`), `ScriptWatchCb`, `ScriptTimeoutCb`, `QuitTimeoutCb`,
`SignalHandler`, `OnNameLost`, `MainDone` (the end of `main()`), and
`ScriptExits` of the environment. A request is a record of the wait flags that
`find_scripts()` found, the state of each script and the two counters. Each
callback runs to its end in one step, with the loops of
`dispatch_one_script()` and `complete_script()` inside; which spawns fail is
chosen anew by each callback. `asserts` becomes FALSE when an assertion of the
code would fail.

`DispatcherService` - the daemon without scripts, processes, queue and counters:
calls are held and answered once, serial ones in the order of the calls and one
at a time. `DispatcherDaemon` instantiates it: held calls are the requests that
were not answered, serial ones those with a wait script, and the one that is
served is the current request.

`NmcliCommandLine` - `process_command_line()`, `matches_arg()`, `next_arg()` and
`nmc_do_cmd()` as operators from one parse state to the next. A word is a record
(option or plain, text, value after "="); abbreviations are resolved, except
for "h", which stands for two commands. The caller's vector is part of the
result, since the code writes to it.

`NmcliLibrary` - `Call` and `Retry` are the program that uses the library; `Poll`
and `Dispatch` are the main loop; `Return` is the end of a call. The global
`nm_cli` is a record. `sources` are the timeouts, pending replies and signal
handlers in the default main context; each carries the number of the call that
added it, and so does `touched`, which remembers whose sources the loop of the
current call has run. The callbacks of the commands have one action each. SIGTERM
ends the process where it is dispatched (`nmc_exit()` calls `exit()`): what was
ready with it is not dispatched any more. A `device connect` with pretty output
adds `progress_cb()`, which stays when it is dispatched; `progress_id` is a field
of the record, and `DispatchedAndQuit` is the `quit()` of `devices.c`, which removes
the source that it names. The handlers of `g_unix_signal_add()`, which each call adds
again, are not counted as sources: signals are an action of the environment.

`DmiTable` - the two nested loops of `dmi_table_decode_ext()`, a step per round;
`AfterCallback` is what `dmi_string()` may have written to the table when a callback
has asked for any set of strings of its structure.

`KeepAlive` - the functions of `nm-keep-alive.c` as operators from one object to
the next: an `NMKeepAlive` is a record, `subscription_id` and `confirm_call` are
0 or the number of the binding they belong to. `KeepAliveWatch` adds the bus:
requests reach the daemon in order, its signals and answers are dispatched in
order, clients leave at any time; a cancelled call is answered and ignored. A
`GetNameOwner` call may also end with another error, which the code takes for the
absence of the client; `failed` remembers the bindings whose call did.

`DeviceActivation` - functions of the program that change state call each other in
one step, so they are operators from worlds to worlds (`w.dev` the device, `w.acs`
the active connections with the keep-alive object of each, `w.link` what the kernel
has: the carrier, and whether the link can be set up): `SetState` is
`_set_state_full()` with its cleanup and the signals that active connections follow.
Actions are what the main loop dispatches: idle sources in their order
(`IdleSource`), timers, carrier events, answers of polkit, firewalld, the dispatcher
and the settings, bus calls, and clients and profiles that vanish. The device is one
of the class ethernet, and profiles are plain wired ones: without 802.1X, PPPoE, DCB
and SR-IOV no stage is postponed.

`Checkpoint` - `Create`, `Destroy`, `DestroyAll` and `Rollback` (by call or
timeout) over devices and profiles. `RollbackWorld` follows
`nm_checkpoint_rollback()`: each device in turn, then new profiles, then new
devices. Clients activate, disconnect, (un)manage, edit, delete and add; links
come and go. A device that is anywhere between `DISCONNECTED` and `DEACTIVATING` is
`active`, with its request; an activation that a rollback has asked for and that is
still being authorized is `pending`, which the device does not know of: it survives
whatever happens to its profile meanwhile. A rollback chooses for which devices
writing the profile (an update or an addition) and activating it fail.
`AdjustedTimeout` is the arithmetic of the timer.

`SecretAgents` - a member of `Agents` is one `NMSecretAgent`, of which a
connection can make several. `Register` starts the check of its permissions,
`PermissionsDone` enters it in the table and in all running requests; it goes by
`Unregister`, `NameOwnerLost` or a failing call. A request (`NewRequest`,
`RequestStart`, `Validated`, `Reply`, `Cancel`) has the fields of the code; its
sorted list of agents is a set with a rank. Callbacks, agents asked and agents
that were shown system secrets are history.

`MC...` modules hold the instances, `...Proofs` modules the proofs. An operator
marked as a mutant or a plausible bug is used by nothing: it is the altered form
of a definition that a property has been shown to catch.

## Runs

| Run | Shows |
|---|---|
| `dispatcher` | no assertion fails, wait scripts never overlap, requests are answered once and when they are over, none is stranded; the daemon implements `DispatcherService`; each request is answered unless the daemon was told to quit, and an idle daemon exits |
| `nmcli_tidy` | commands that remove their sources leave nothing, options are the call's own, calls return |
| `nmcli_leaving` | an undisturbed call leaves nothing behind but its timeout, the idle source that the timeout overtook, and a progress source that `progress_id` has forgotten; no handler runs twice, and success means that the handler has run |
| `nmcli_hang` | finding: a call that never returns |
| `dmi_walk` | reads in bounds, complete deliveries, first match, strings inside of their structure, termination |
| `keep_alive` | the flag is current, a client on the bus keeps the object alive, a disarmed object is frozen, a departure is noticed even when it comes before the subscription |
| `activation` | no active connection is forgotten (but for the exception under Findings), one whose keep-alive object is dead is ended, requests follow their device, nothing outlives the state that started it, each call is answered once |
| `activation_liveness` | a device does not stay in `DEACTIVATING` or `FAILED`; a queued request does not stay queued, unless it waited for the carrier and one that needs none is active |
| `activation_carrier` | finding: a device that stays activated without carrier |
| `checkpoints` | checkpoints hold only devices that exist, overlap only on purpose, a device that a rollback reports as OK has or gets its activation and its profile as far as the code sees to it, and what the rollback has no business with is spared |
| `checkpoint_up` | finding: a rollback that reports OK leaves the device down |
| `agents` | callbacks once, a request waits for exactly one thing, system secrets stay with privileged agents, requests and the table of agents agree, every request ends |

### Bounds

Daemon: three requests are needed for a current one, a queued one and one that
arrives or is next in the queue; two scripts for a no-wait and a wait script, or
two wait scripts, of one request. Lists with two no-wait scripts are left out to
stay small (about 365 000 states). The proofs cover any number of both.

libnmcli: two calls let the first disturb the second; the run that hangs needs
a third. One signal in `nmcli_leaving`. The vectors cover each option, with and
without "=", valid and not, a completion, and each modelled command.
`MCNmcliLibrary` also evaluates that the vectors of `nmcli_tidy` meet the
assumption of the theorem about tidy programs. Two calls with one signal
are about 850 000 states; three calls do not finish in a few minutes. A pretty
`device connect` is among the vectors of `nmcli_leaving`.

dmi_ext: tables of up to seven bytes over {0, 1, 4} reach every branch at the end
of a table; concatenations of up to three structures reach several deliveries,
strings, the marker and truncation. String numbers up to 4 are more than any
structure of the run has; about 155 000 states.

Keep-alive: two clients and three bindings let an object be bound to another
client, or to the same one again, while messages of the first binding are under
way; about 158 000 states.

Activation: three requests (current, queued, and one that supersedes the queued
one), two of them for a profile that needs a carrier and one bound to its client
that needs none, and a link that may not be up after it was set up; 2.7 million
states up to the exchange of the two requests for one profile, which nothing in the
model tells apart. The liveness run has two requests bound to clients, one of which
needs a carrier, a link that may refuse to be set up and a device class with
`deactivate_async()`; about 240 000 states.

Checkpoints: a hardware and a software device with a profile each, two
checkpoints (for overlap), one edit of a profile, two activations and two other
events; about 800 000 states.

Agents: three objects of two connections (one registers twice, one is not
privileged, two share an identifier) and two requests at the same time, of all
three types; about 480 000 states.

Deadlock is not checked where the system may stop: the daemon exits, the program
makes a bounded number of calls, the walk returns, and the bounds on
checkpoints, events, agents and requests are used up. It is checked for
`keep_alive` and `activation`, where the profile's visibility, the link or a bus
call can always change.

### Fairness

Daemon: the callbacks of a running script happen, because each script has a
timeout source and the loop serves its sources; the idle timer fires, and the
loop ends once it was told to. Nothing is assumed of scripts, callers and
signals. (The first part is stated as: a script is not running for ever while the loop
is there. The callbacks of a script are enabled exactly while it is running, so this
is their weak fairness.)

libnmcli: weak fairness of the loop as a whole. The loop runs while a source is
ready, and each source gets ready in the end: calls over the bus are answered or
time out, timeouts expire. Which source comes first is left open.

dmi_ext: weak fairness of `Next`, a sequential program.

Keep-alive: the bus daemon handles what it is sent, and the main loop dispatches
what arrives. Nothing is assumed of clients.

Activation: idle sources, carrier events and timers are served by the main loop;
firewalld, the ping, the dispatcher, the device class and IP configuration answer
or time out. Nothing is assumed of polkit, clients, the cable or the settings. (Weak
fairness of the idle sources is written out: the queue is empty again and again, or
one of them runs again and again.)

Agents: idle sources run, polkit answers, and a call to an agent ends with a
reply, an error or its timeout (`nm_secret_agent_get_secrets()` gives 120 s, the
others 60 s). Nothing is assumed of agents and clients.

Checkpoints: none; the run checks safety only.

## Findings

* `nmcli_hang`: the timeout of `device connect` and `general permissions` is never
  removed and ends a later call. When that call's client is still being created,
  the late `got_client()` makes `should_wait` of a third call negative, and that
  call never returns.
* `activation_carrier`: the manual says that a device is deactivated if its carrier
  drops for more than a few seconds. A loss in `DISCONNECTED` queues `UNAVAILABLE`;
  if the first stage of an activation is scheduled already, it runs first and
  drops the queued state, and the device is activated without a carrier.
* `checkpoint_up`: a rollback that comes while the device is being disconnected
  takes the activation for an unchanged one, reports OK, and the device ends up
  disconnected.

Met while modelling, and part of the models, but without a document that says
otherwise or a run of their own:

* libnmcli: `--overview` is not reset between calls; a call cuts "=value" off the
  options in the caller's strings, so that a retry with the same vector runs
  another command line; `help` after a command is taken for its argument;
  `device connect` succeeds although the activation failed. A pretty `device connect`
  of a device without a profile starts a second `progress_cb()` and forgets the id of
  the first (`devices.c:1945`), which is then called every 120 ms by the loops of all
  later calls, with a device that is gone with its client.
* Daemon: requests can be pending at exit without SIGTERM, when the bus name is
  lost or a call is dispatched after the idle timer in one iteration of the loop.
* dmi_ext: a truncated structure is counted in the result.
* Activation: a request that waited for the carrier takes the place of another
  one whose first stage has not run, if only the former needs a carrier
  (`nm-device.c:12571`); the latter stays listed for ever. `NoneForgotten` excepts
  exactly this. A request that waits for the carrier stays queued while one that
  needs none is active (`nm-device.c:12568`), which `QueuedIsServed` excepts. A
  queued `UNMANAGED` is not taken back when the device becomes managed again before
  it is dispatched, and another queued state replaces it.
* Checkpoints: a software device that was removed while its profile stayed cannot
  be restored; an error of `nm_settings_connection_update()` is ignored, and OK is
  reported for a device whose profile kept its new content. A profile that was
  deleted already when the checkpoint was created (its device was going down) is
  restored by the rollback and, with `DELETE_NEW_CONNECTIONS`, deleted again, while
  OK is reported; the activation just requested goes on without it, since it is
  still being authorized and `_deactivate_if_active()` sees listed active connections
  only. `RollbackRestores` says both. Timeouts
  of more than 49 days are cut for the timer but reported in full.
* Agents: two `Register` calls with one identifier that overlap both succeed,
  although `AgentManager.xml` says that only one agent may use it; a second
  registration of a connection displaces the first from the table, after which
  `Unregister` no longer takes the first from running requests; an agent that
  disconnects during the check of its permissions is registered nevertheless
  and goes with the first call to it, which fails; a request for system secrets
  only gets the agents that register before its idle source runs.

## Proofs

`DispatcherDaemonProofs` proves every safety invariant of the daemon for every
value of the constants that `BoundsAssumption` allows (any number of requests,
any script lists), also those that the run leaves to the proof (`TypeOK`,
`CountersAgree`, `WaitScriptsInOrder`, `IdleTimerArmedIffIdle`). The invariants
are not inductive: that no assertion fails depends on the queue being empty when
there is no current request, this on the current request always having a script
running, and this on the counters of every request. `Inv` puts together
`TypeOK`, `RequestInv` (each request by itself: counters, the index that
separates dispatched from other wait scripts, an answered request is over),
`QueueInv` (current request and queue are pending, ordered, and hold every
pending request with a wait script), `ProcessInv`, `CountInv`, `TimerInv` and
`NoAssertionFails`. The lemmas follow the code: what `DispatchOneScript` does to
a request, what `CompleteRequests` leaves when the requests tried are done or
not, and the loop of `NextRequests`; then one lemma per action. `Refinement`
proves that the daemon implements `DispatcherService`: from the invariant, each
action maps to a call, an answer to a set of calls, the end of the service, or a
stutter.

`DmiTableProofs` proves, for every table (`TableAssumption`: tables are sequences of
bytes), that reads are in bounds, deliveries complete and contiguous, headers
counted once, the first match found, and that `dmi_string()` stays in its
structure for every string number. `Inv` adds `WalkInv`: in the inner loop
the header is in the table and `next` is behind the formatted part; until the
walk returns, everything delivered lies before `data`. The key lemma,
`CallbackEffect`, says that `dmi_string()` writes no byte before the strings of
its structure and neither makes nor removes a NUL, so that what was delivered
stays complete and what matched still matches. `StringsStayInStructure` rests on
`DeliveredComplete`: a structure ends with two NULs, and by induction over the
rounds of `dmi_string()` each string starts in front of the second one, where the
empty string stops the search.

`KeepAliveProofs` proves the safety properties of `keep_alive`, and that an answer
that was not cancelled is about the client the object is bound to, for any clients
and bindings. The invariant is about the object (`Obj`: subscription and call belong
to the current binding) and about every message under way (`GoodRequests`,
`GoodMessages`): one of the current binding says the truth about its client, or is
the error of a call that is in `failed`, and the others have other numbers; the
subscription of a bound object is the one made last. Each function of the object
either keeps its subscription or drops it, which leaves old messages harmless.

`NmcliLibraryProofs` proves every safety property of libnmcli, for any vectors of
words, any number of calls, retries and signals, and every order in which replies,
timeouts, signals and leftovers are dispatched. It has four parts.

- Parsing. `CommandLineEnds`: the loop of `process_command_line()` takes a word a
  round, so it ends with a command or a return for every vector. Two globals that
  agree in all but `overview` and `use_colors` are parsed to the same result, and
  what `nmcli_execute()` resets makes the global agree in this way with that of a
  program that has just started. So each call is parsed as if it were the first.
- Effects. Each handler and each callback is shown to do one of a few things: wait
  for a reply that it has asked for, give up the wait, end the loop, leave a timeout;
  and to the progress nothing, or removing, forgetting or replacing what
  `progress_id` names.
- `Inv`, kept by these effects. `TypeInv` has the types; `WaitInv` says that each
  call waits for at most one client, so that `should_wait` is at most 1 and at least
  the number of awaited clients minus that of the calls; `RanInv`, that a handler
  whose client is awaited has not run. `OwnInv` speaks of a call in whose loop
  nothing foreign was dispatched: while a reply of its own is pending, the loop runs
  on and `should_wait` is positive, and its command waits for one thing at a time; a
  progress source of its own is the one that `progress_id` names, and then the loop
  runs on, or it is that of `do_device_connect()`. `HandlerInv`: its handler has
  run, its client is awaited, or the result is not success. `ResultsInv` and
  `OptionsInv` are about results and options. `LeavesOnlyItsTimeout` and
  `HandlerRunsOnce` are not inductive alone: a call leaves no reply behind because
  its loop does not end while one is pending, and this depends on what every command
  does to `should_wait`.
- `TidyProgramsLeaveNothing` is `NothingLeftBehind` for programs that receive no
  signal and whose vectors lie in a set `V` that is `Tidy`: no vector of it asks for
  `general permissions` or `device connect`, and parsing one, which cuts the values
  of its options off, leads to another of the set. Without this assumption the
  property is false, which is the finding of `nmcli_hang`; `TidyVectorsAreTidy` in
  `MCNmcliLibrary` shows that the sixteen command lines of `nmcli_tidy` meet it. The
  other theorems have no such assumption.

The proofs have corrected the model twice. `HandlerRunsOnce` was stated for
completions too, which return success when the client cannot be created and the
handler never runs; the run had no completion among its vectors, and now it has.
And a SIGTERM left the other ready sources to be dispatched after `exit()`.

`FoldProofs` has what other modules need of loops: induction over an interval for
loops that count, and `FoldSet`, with which the models
write loops over tables whose order does not matter. Among any subsets of a
finite set there is a minimal one, so a property that holds for the empty set and
passes from a set without its chosen element to the set holds for the whole:
this is induction, stated about a set of subsets and not about a predicate. From
it follow that the recursion behind `FoldSet` has exactly one solution, and that
what one round of a loop preserves holds at its end.

`CheckpointProofs` proves all safety properties of `checkpoints`, for any
devices, profiles and checkpoints. For `OverlapOnlyOnPurpose` the invariant adds
that the numbers of checkpoints are below `next_id` and differ, since the
younger of two is told by its number. The others rest on `StateInv`: the types,
a sound world (what a device has active or is about to activate is a profile for
it), that every checkpoint can be used in this world, and
`RollbackRestores` itself, which speaks of the last reply and has to survive
nothing but its own step. A rollback has four parts, for removed devices,
devices, new profiles and new devices, with a lemma on one round and one on the
loop where it is one: what was restored for one device stays restored while the
others are, new profiles and new devices are taken away only where the
checkpoint does not know them. Deleting a profile touches neither what is pending
nor the contents of others, so `RollbackRestores` holds for profiles that are deleted
again, too. `RollbackSpares` is an action property: `Left` says that the loops over
the devices leave alone those they have not come to, and take one down only if it is
not as it was saved; `Spared`, that deleting profiles takes down only devices that
have one of them active. `AdjustedTimeoutIsExact` says that the reported
timeout is never 0 and agrees with the timer up to half a second unless one of
them is cut to 32 bits.

`DeviceActivationProofs` proves all safety properties of `activation`, for any set
of requests and any choice of those that need a carrier. `Inv` is `Sound` of the
current world and nobody excepted; `Sound` has four parts:

- `Core`: the device is consistent by itself (`Dev`: at most one stage is pending,
  what is pending serves the state, the queued state may follow the state, there is
  a request while there has to be one, and it is not the queued one), and
  `FollowsDevice`: its requests are accepted ones, the active connection of the
  current one has the state that goes with the device, and every other active
  connection has not begun or has ended.
- `Remembers`: each active connection that has not ended is the current or the queued
  request, or may have been overtaken; and a request waits for the carrier only if it
  needs one, while it may come, and behind no current request that needs one itself
  and has not begun.
- `Ended`: an active connection whose keep-alive object is dead is being ended.
- `Answered`: a request has been answered if and only if it is through.

None of the properties is inductive alone. That the request follows the device
depends on every callback serving the state it was started in, this on each state
cancelling what the one before has started, and that nobody is forgotten on what
`_set_state_full()` does with the queued request. The functions of the program call
each other inside one step, so the lemmas are about functions from worlds to worlds:
each keeps `Core`, and what it does to the active connections is at most `Kept`
(they proceed to their ends, which are final, and an end answers a request that is
still being authorized). `SetState` has a lemma for each way up or down. While
`_internal_activate_device()` runs, the request it accepts is neither known to the
device nor answered, so `Sound` excepts a set of requests, which is empty between
two callbacks. Then there is one lemma per action. `NobodyForgotten` holds for any
mixture of requests: the only place where a current request is overwritten is
`_carrier_wait_check_queued_act_request()`, and by the second half of `Remembers` the
one that is lost there needs no carrier and has not begun.

`SecretAgentsProofs` proves the four safety properties of `agents` and the types,
for any agents, kinds of requests and orders. `QInv` is about one request: a
running one waits for one thing, the agents asked and shown are as they should
be, and `has_modify` is only set for a privileged agent; `Track` relates it to
the agents in the table. There is one lemma per function for a single request
and one per action for all of them.

Only model-checked: all liveness (`IdlesOut`, `EveryRequestAnswered`,
`EveryCallReturns`, `WalkReturns`, `DepartureNoticed`, `DeactivationEnds`,
`QueuedIsServed`, `EveryRequestEnds`), which is out of the prover's reach.

## Not modelled

Of the daemon: names, order and permissions of scripts (only the wait flags are
kept), environments, logging, process ids and their reuse. Of libnmcli: the other
commands, prompts and readline, polkit and secret agents, palette and output text
(the text of the progress display too; its event source is modelled), the sources of
`g_unix_signal_add()`, disconnecting several devices at once, a vector that is not
NULL terminated. Of dmi_ext: the string for number 0 and `is_printable()`, which
touch no state. Of keep-alive: the owner pointer and the destructor.

Of the activation: secrets, masters and slaves, unrealized, external and assumed
devices, autoconnection, sleep, missing firmware, and IP configuration itself, which
succeeds or fails. A stage of a profile with PPPoE, 802.1X or SR-IOV parameters is
postponed (`NM_ACT_STAGE_RETURN_POSTPONE`) and resumed by a timer, the supplicant or
the kernel; these need a model of their own, since their callbacks are not cancelled
with the other sources of an activation (the timer `pppoe_wait_id` is removed by
`deactivate()` only, `nm-device-ethernet.c:1445`). Of the checkpoints: the clock; a
timeout may expire at any time, and the arithmetic is an operator by itself. Of the
agents: the permissions for Wi-Fi sharing, the message that tells an agent to stop
asking, and the end of the manager, which outlives its requests.

The dispatcher client, VPN, DNS and the connectivity check are planned. The rest
of NetworkManager is left out for good: the platform, supplicant, ppp, ovs,
bluetooth, wwan and team code translates between messages and objects, settings
and configuration are file formats, libnm and libnm-core are a client library and
a data model, and `shared/` is vendored. dmidecode itself is unchanged third-party
code. libnm, GLib, the bus, polkit, firewalld and the script processes appear only
as the environment of what is modelled.
