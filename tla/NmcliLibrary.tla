---------------------------- MODULE NmcliLibrary ----------------------------
(***************************************************************************)
(* libnmcli: nmcli_execute() and nmcli_execute_with_output(), called again *)
(* and again by one program (clients/cli/nmcli.c), with the commands of    *)
(* clients/cli/general.c and clients/cli/devices.c that the tables of      *)
(* NmcliCommandLine list.                                                  *)
(*                                                                         *)
(* Every call resets parts of the global nm_cli, parses the command line   *)
(* and runs a new main loop until something calls g_main_loop_quit().  The *)
(* loops of all calls run the one default main context, so an event source *)
(* that a call does not remove is dispatched by the loop of a later call.  *)
(* `sources' holds the event sources of that context and the callbacks     *)
(* that wait for the bus.  An iteration of the loop (Poll) takes the       *)
(* sources that are ready and dispatches each of them, also after one of   *)
(* them has quit the loop.                                                 *)
(***************************************************************************)
EXTENDS NmcliCommandLine, Functions

CONSTANTS
  Vectors,     \* the argument vectors that the program passes
  MaxCalls,    \* bound: the calls that the program makes, retries included
  MaxSignals,  \* bound: the signals that the process receives
  Terminal     \* whether standard output is a terminal that takes colours

ASSUME LibraryAssumption ==
  /\ MaxCalls \in Nat
  /\ MaxSignals \in Nat
  /\ Terminal \in BOOLEAN
  /\ Vectors \subseteq Seq([dash : BOOLEAN, text : STRING, val : STRING]) \ {<<>>}

VARIABLES
  nm_cli,       \* the global nm_cli
  loop,         \* "none" between calls, "running", "quit", or "exited"
  sources,      \* the event sources of the default main context
  ready,        \* the sources that the current iteration has still to dispatch
  argv,         \* the vector of the current or last call, as it is now
  call,         \* the number of the current or last call
  frame,        \* that call: its function and the vector passed
  signals,      \* number of signals received
  stdout_open,  \* FALSE once nmc_cleanup() has closed stdout
  results,      \* what the calls have returned
  ran,          \* how often the handler of each call's command was called
  touched       \* the calls whose sources this call's loop has dispatched

history == <<results, ran, touched>>
vars == <<nm_cli, loop, sources, ready, argv, call, frame, signals, stdout_open,
          results, ran, touched>>

-----------------------------------------------------------------------------
(* Event sources.                                                          *)

(* Signal handlers of objects that belong to the NMClient: they are gone   *)
(* with its last reference.                                                *)
Subscriptions == {"permission_changed", "connected_state_cb", "disconnect_state_cb"}

DisconnectKinds == {"disconnect_device_cb", "disconnect_state_cb", "device_op_timeout_cb"}

(* general.c and devices.c each have a timeout_cb() and a quit(). *)
Kinds == Subscriptions \union DisconnectKinds \union
         {"command_done", "got_client", "save_hostname_cb", "print_permissions",
          "general_timeout_cb", "timeout_cb", "connect_device_cb", "add_and_activate_cb",
          "progress_cb", "SIGINT", "SIGTERM"}

(* `level' tells the tasks of the two nested nmc_do_cmd() apart, `code' is *)
(* the result of a task, the rest is the CmdCall of got_client().  `p' of  *)
(* a progress_cb() is the id of the source.                                *)
Source(kind, c) ==
  [kind |-> kind, call |-> c, level |-> "none", code |-> SUCCESS,
   handler |-> <<>>, argv |-> <<>>, p |-> 0]

Task(level, c, code) ==
  [Source("command_done", c) EXCEPT !.level = level, !.code = code]

CmdCall(h, c, s) ==
  [Source("got_client", c) EXCEPT !.handler = h, !.argv = s.argv, !.p = s.p]

(* The n-th progress_cb() of call c, n being 0 or 1, and its id. *)
ProgressId(c, n) == 2 * c + n
Progress(c, n) == [Source("progress_cb", c) EXCEPT !.p = ProgressId(c, n)]

(* Pretty output shows the progress. *)
ShowsProgress(nm) == nm.print_output = "pretty"

-----------------------------------------------------------------------------
(* The handlers of the commands: the outcomes that one call can have, each *)
(* with nm_cli (the returned code in return_value), the sources added and  *)
(* whether the loop was quit.                                              *)

Outcome(nm, new, quit) == [nm |-> nm, new |-> new, quit |-> quit]
Returns(nm, code) == Outcome([nm EXCEPT !.return_value = code], {}, FALSE)

BadFields(nm) == nm.required_fields = "bogus"

SpawnPager(nm) ==
  [nm EXCEPT !.pager = @ \/ (nm.use_colors /\ nm.print_output # "terse")]

(* show_nm_status() *)
DoGeneralStatus(s) ==
  {Returns(s.nm, IF BadFields(s.nm) THEN ERROR_USER_INPUT ELSE s.nm.return_value)}

DoOverview(s) == {Returns(SpawnPager(s.nm), SUCCESS)}

DoDevicesStatus(s) ==
  {Returns(s.nm, IF Argc(s) > 0 \/ BadFields(s.nm) THEN ERROR_USER_INPUT ELSE SUCCESS)}

(* Without an argument the hostname is printed, with one it is set. *)
DoGeneralHostname(s, c) ==
  IF Argc(s) = 0 THEN {Outcome(s.nm, {}, FALSE)}
  ELSE {Outcome([NextArg(s).nm EXCEPT !.should_wait = @ + 1],
                {Source("save_hostname_cb", c)}, FALSE)}

PrintPermissions(nm) ==
  Outcome([SpawnPager(nm) EXCEPT
             !.return_value = IF BadFields(nm) THEN ERROR_USER_INPUT ELSE @], {}, TRUE)

DefaultTimeout(nm, seconds) ==
  [nm EXCEPT !.timeout = IF @ = -1 THEN seconds ELSE @]

(* The permissions are there already, or are waited for with a timeout     *)
(* that nothing removes.                                                   *)
DoGeneralPermissions(s, c) ==
  {PrintPermissions(s.nm),
   Outcome([DefaultTimeout(s.nm, 10) EXCEPT !.should_wait = @ + 1],
           {Source("permission_changed", c), Source("general_timeout_cb", c)}, FALSE)}

(* The Reload call is synchronous. *)
DoGeneralReload(s) ==
  IF Argc(s) > 1 \/ (Argc(s) = 1 /\ Current(s).text # "conf")
  THEN {Returns(s.nm, ERROR_USER_INPUT)}
  ELSE {Returns(s.nm, s.nm.return_value), Returns(s.nm, ERROR_UNKNOWN)}

Waits(nm) == [nm EXCEPT !.nowait_flag = (nm.timeout = 0), !.should_wait = @ + 1]

(* The connection is asked for, and the progress shown until it is there. *)
Connects(nm, c) ==
  IF ShowsProgress(nm)
  THEN Outcome([Waits(nm) EXCEPT !.progress_id = ProgressId(c, 0)],
               {Source("connect_device_cb", c), Progress(c, 0)}, FALSE)
  ELSE Outcome(Waits(nm), {Source("connect_device_cb", c)}, FALSE)

(* get_device() is without a device to find or does not find it; nothing   *)
(* may follow the interface.                                               *)
DoDeviceConnect(s, c) ==
  LET nm == DefaultTimeout(s.nm, 90)
      t  == NextArg([s EXCEPT !.nm = nm])
  IN  IF Argc(s) = 0 THEN {Returns(nm, ERROR_USER_INPUT)}
      ELSE {Returns(t.nm, ERROR_NOT_FOUND),
            IF Argc(t) > 0 THEN Returns(t.nm, ERROR_USER_INPUT)
            ELSE Connects(t.nm, c)}

(* With one interface on the command line.  The timeout is added for a     *)
(* positive number of seconds only.                                        *)
DoDevicesDisconnect(s, c) ==
  LET nm == DefaultTimeout(s.nm, 10)
  IN  IF Argc(s) = 0 THEN {Returns(nm, ERROR_USER_INPUT)}
      ELSE {Returns(nm, ERROR_NOT_FOUND),
            Outcome(Waits(nm),
                    {Source(k, c) : k \in IF nm.timeout > 0 THEN DisconnectKinds
                                          ELSE DisconnectKinds \ {"device_op_timeout_cb"}},
                    FALSE)}

(* cmd->func() for the words of `src'.  In completion the handlers only    *)
(* print candidates.                                                       *)
RunHandler(h, nm, words, p, c) ==
  LET s == NextArg(ParseAt(nm, words, p))
  IN  IF nm.complete THEN {Outcome(s.nm, {}, FALSE)}
      ELSE IF h = <<"nmcli", "overview">> THEN DoOverview(s)
      ELSE IF h = <<"general", "status">> THEN DoGeneralStatus(s)
      ELSE IF h = <<"general", "hostname">> THEN DoGeneralHostname(s, c)
      ELSE IF h = <<"general", "permissions">> THEN DoGeneralPermissions(s, c)
      ELSE IF h = <<"general", "reload">> THEN DoGeneralReload(s)
      ELSE IF h = <<"device", "status">> THEN DoDevicesStatus(s)
      ELSE IF h = <<"device", "connect">> THEN DoDeviceConnect(s, c)
      ELSE DoDevicesDisconnect(s, c)

NeedsClient(h) == h # <<"general", "reload">>

-----------------------------------------------------------------------------
(* A call, up to its main loop.                                            *)

(* nmc_cleanup() on nm_cli. *)
NmcCleanup(nm) ==
  [nm EXCEPT !.client = FALSE, !.required_fields = NoValue, !.pager = FALSE]

(* Mutant: the output mode of the last call stays. *)
ReinitializeKeepsOutput(nm) ==
  [InitialNmCli EXCEPT !.overview = nm.overview, !.use_colors = nm.use_colors,
                       !.print_output = nm.print_output, !.progress_id = nm.progress_id]

(* What a call sets again in nm_cli before it parses the command line.     *)
(* overview, use_colors and progress_id are not among it.                  *)
Reinitialize(nm) ==
  [NmcCleanup(nm) EXCEPT
     !.return_value = SUCCESS, !.timeout = -1, !.should_wait = 0,
     !.nowait_flag = TRUE, !.print_output = "normal", !.multiline_output = FALSE,
     !.mode_specified = FALSE, !.escape_values = TRUE, !.ask = FALSE,
     !.complete = FALSE, !.show_secrets = FALSE]

(* nmc_do_cmd() for the top table and, through do_general() or             *)
(* do_devices(), for the table of the group: the position at which the     *)
(* handler runs, the handler, if any, and the tasks that have returned.    *)
DispatchCommand(s, c) ==
  LET top   == DoCmd(s, nmcli_cmds)
      inner == NextArg(s)
      sub   == DoCmd(inner, IF top.handler = <<"nmcli", "general">>
                            THEN general_cmds ELSE device_cmds)
      group == top.handler \in {<<"nmcli", "general">>, <<"nmcli", "device">>}
  IN  IF group
      THEN [s |-> inner, handler |-> sub.handler,
            tasks |-> {Task("outer", c, SUCCESS)} \union
                      IF sub.handler = <<>> THEN {Task("inner", c, sub.code)} ELSE {}]
      ELSE [s |-> s, handler |-> top.handler,
            tasks |-> IF top.handler = <<>> THEN {Task("outer", c, top.code)} ELSE {}]

(* Mutant: the pending client is not counted. *)
CallCmdNoWait(h, s, c) ==
  IF NeedsClient(h) THEN {Outcome(s.nm, {CmdCall(h, c, s)}, FALSE)}
  ELSE {[o EXCEPT !.new = @ \union {Task("inner", c, SUCCESS)}] :
          o \in RunHandler(h, s.nm, s.argv, s.p, c)}

(* call_cmd() before the loop runs: the client is yet to be created. *)
CallCmd(h, s, c) ==
  IF NeedsClient(h)
  THEN {Outcome([s.nm EXCEPT !.should_wait = @ + 1], {CmdCall(h, c, s)}, FALSE)}
  ELSE {[o EXCEPT !.new = @ \union {Task("inner", c, SUCCESS)}] :
          o \in RunHandler(h, s.nm, s.argv, s.p, c)}

Handlers == {<<"nmcli", "overview">>} \union
            {Handler(cmds, c) : cmds \in {general_cmds}, c \in general_cmds.commands} \union
            {Handler(cmds, c) : cmds \in {device_cmds}, c \in device_cmds.commands}

(* The handler that a vector asks for in a program that has just started. *)
HandlerFor(words) ==
  LET s == ProcessCommandLine(InitialNmCli, words, Terminal)
  IN  IF s.status = "stop" THEN <<>> ELSE DispatchCommand(s, 1).handler

(* The vector asks for the completions of its last word. *)
IsCompletion(words) == ProcessCommandLine(InitialNmCli, words, Terminal).nm.complete

Result(value) ==
  [entry |-> frame.entry, passed |-> frame.passed, value |-> value, touched |-> touched]

(* nmcli_execute_with_output() has redirected standard output to a file. *)
IsTerminal(entry) == Terminal /\ entry = "nmcli_execute"

(* nmcli_execute() up to g_main_loop_run(), which is not called when       *)
(* process_command_line() returns FALSE.                                   *)
Execute(entry, words) ==
  LET c == call + 1
      s == ProcessCommandLine(Reinitialize(nm_cli), words, IsTerminal(entry))
      d == DispatchCommand(s, c)
  IN  /\ argv' = s.argv
      /\ IF s.status = "stop"
         THEN /\ nm_cli' = s.nm
              /\ loop' = "quit"
              /\ UNCHANGED <<sources, ran>>
         ELSE /\ loop' = "running"
              /\ IF d.handler = <<>>
                 THEN /\ nm_cli' = d.s.nm
                      /\ sources' = sources \union d.tasks
                      /\ UNCHANGED ran
                 ELSE \E o \in CallCmd(d.handler, d.s, c) :
                        /\ nm_cli' = o.nm
                        /\ sources' = sources \union d.tasks \union o.new
                        /\ ran' = [ran EXCEPT ![c] = IF NeedsClient(d.handler) THEN @ ELSE @ + 1]
      /\ UNCHANGED results

(* nmcli_execute_with_output() cannot create its files. *)
OpenFails(words) ==
  /\ nm_cli' = Reinitialize(nm_cli)
  /\ argv' = words
  /\ results' = Append(results, [entry |-> "nmcli_execute_with_output", passed |-> words,
                                 value |-> ERROR_UNKNOWN, touched |-> {}])
  /\ UNCHANGED <<loop, sources, ran>>

Enter(entry, words) ==
  /\ loop = "none"
  /\ call < MaxCalls
  /\ call' = call + 1
  /\ frame' = [entry |-> entry, passed |-> words]
  /\ touched' = {}
  /\ \/ Execute(entry, words)
     \/ entry = "nmcli_execute_with_output" /\ OpenFails(words)
  /\ UNCHANGED <<ready, signals, stdout_open>>

(* The program calls the library with a new vector. *)
Call(entry, words) == Enter(entry, words)

(* It calls again with a larger buffer and the same vector, as             *)
(* nmcli-example.c does.                                                   *)
Retry ==
  /\ results # <<>>
  /\ results[Len(results)].value = ERROR_BUFFER_TOO_SMALL
  /\ Enter("nmcli_execute_with_output", argv)

-----------------------------------------------------------------------------
(* The main loop.                                                          *)

(* An iteration finds some sources ready.  Tasks that have returned always *)
(* are; an idle source is only dispatched when nothing else is ready.      *)
Poll ==
  /\ loop = "running"
  /\ ready = {}
  /\ \E r \in SUBSET sources \ {{}} :
       /\ {src \in sources : src.kind = "command_done"} \subseteq r
       /\ (\E src \in r : src.kind = "print_permissions")
            => \A src \in r : src.kind = "print_permissions"
       /\ ready' = r
  /\ UNCHANGED <<nm_cli, loop, sources, argv, call, frame, signals, stdout_open, history>>

(* The callback of `src' runs: it leaves nm_cli as `nm', removes the       *)
(* sources `gone', adds `new' and quits the loop if `quit'.                *)
Dispatched(src, nm, gone, new, quit) ==
  /\ src \in ready
  /\ nm_cli' = nm
  /\ sources' = (sources \ ({src} \union gone)) \union new
  /\ ready' = ready \ ({src} \union gone)
  /\ loop' = IF quit THEN "quit" ELSE loop
  /\ touched' = touched \union {src.call}
  /\ UNCHANGED <<argv, call, frame, signals, stdout_open, results>>

(* The process ends: what was still to dispatch is not dispatched. *)
ProcessEnds(src) ==
  /\ src \in ready
  /\ loop' = "exited"
  /\ ready' = {}
  /\ UNCHANGED <<nm_cli, sources, argv, call, frame, signals, stdout_open, history>>

(* Mutant: the progress goes on being shown. *)
ProgressGoesOn(nm) == {}

(* The source that progress_id names. *)
ProgressOf(nm) == {x \in sources : x.kind = "progress_cb" /\ x.p = nm.progress_id}

(* A callback of devices.c that calls the quit() there, which removes the  *)
(* source that progress_id names.  The others quit the loop only.          *)
DispatchedAndQuit(src, nm, gone, new) ==
  Dispatched(src, [nm EXCEPT !.progress_id = 0], gone \union ProgressOf(nm), new, TRUE)

(* command_done() quits the loop when nothing waits any more. *)
TaskQuits(nm) == nm.should_wait = 0

CommandDone(src) ==
  LET nm == IF src.code = SUCCESS THEN nm_cli ELSE [nm_cli EXCEPT !.return_value = src.code]
  IN  /\ src.kind = "command_done"
      /\ Dispatched(src, nm, {}, {}, TaskQuits(nm))
      /\ UNCHANGED ran

(* got_client(): no client, NetworkManager is not running, or the handler  *)
(* runs.  The task was created in an earlier iteration, so that            *)
(* command_done() is called at once.                                       *)
GotClientFails(src, nm, code) ==
  LET after == [nm EXCEPT !.client = code # ERROR_UNKNOWN, !.return_value = code]
  IN  Dispatched(src, after, {}, {}, TaskQuits(after)) /\ UNCHANGED ran

(* Mutant: the client goes on being waited for. *)
ClientStillAwaited(nm) == [nm EXCEPT !.client = TRUE]

ClientArrived(nm) == [nm EXCEPT !.should_wait = @ - 1, !.client = TRUE]

GotClient(src) ==
  LET nm == ClientArrived(nm_cli)
  IN  /\ src.kind = "got_client"
      /\ \/ \E code \in {ERROR_UNKNOWN, ERROR_NM_NOT_RUNNING} : GotClientFails(src, nm, code)
         \/ /\ \E o \in RunHandler(src.handler, nm, src.argv, src.p, src.call) :
                 Dispatched(src, o.nm, {}, o.new, o.quit \/ TaskQuits(o.nm))
            /\ ran' = [ran EXCEPT ![src.call] = @ + 1]

SaveHostnameCb(src) ==
  /\ src.kind = "save_hostname_cb"
  /\ \E code \in {nm_cli.return_value, ERROR_UNKNOWN} :
       Dispatched(src, [nm_cli EXCEPT !.return_value = code], {}, {}, TRUE)
  /\ UNCHANGED ran

(* permission_changed() leaves the printing to an idle source, which       *)
(* replaces one that is there already.                                     *)
PermissionChanged(src) ==
  /\ src.kind = "permission_changed"
  /\ Dispatched(src, nm_cli, {old \in sources : old.kind = "print_permissions"},
                {Source("print_permissions", src.call)}, FALSE)
  /\ UNCHANGED ran

PrintPermissionsCb(src) ==
  /\ src.kind = "print_permissions"
  /\ Dispatched(src, PrintPermissions(nm_cli).nm, {}, {}, TRUE)
  /\ UNCHANGED ran

TimeoutExpired == [nm_cli EXCEPT !.return_value = ERROR_TIMEOUT_EXPIRED]

GeneralTimeoutCb(src) ==
  /\ src.kind = "general_timeout_cb"
  /\ Dispatched(src, TimeoutExpired, {}, {}, TRUE)
  /\ UNCHANGED ran

TimeoutCb(src) ==
  /\ src.kind = "timeout_cb"
  /\ DispatchedAndQuit(src, TimeoutExpired, {}, {})
  /\ UNCHANGED ran

(* progress_cb() is called again and again.  The NMDevice that it prints   *)
(* is gone with the NMClient of its call; what a later call reads there    *)
(* may end the process.                                                    *)
ProgressCb(src) ==
  /\ src.kind = "progress_cb"
  /\ \/ Dispatched(src, nm_cli, {}, {src}, FALSE)
     \/ src.call # call /\ ProcessEnds(src)
  /\ UNCHANGED ran

(* The connection is being activated: connected_state_cb() is called once, *)
(* and again on changes when the activation still goes on; in each case a  *)
(* timeout is added after it.  nm and new are the global and the source of *)
(* the progress until then.                                                *)
ActivationStarted(src, nm, new) ==
  LET timeout == Source("timeout_cb", src.call)
      watch   == Source("connected_state_cb", src.call)
  IN  \/ Dispatched(src, nm, {}, {watch, timeout} \union new, FALSE)
      \/ DispatchedAndQuit(src, nm, {}, {timeout})

(* connect_device_cb() and add_and_activate_cb() without waiting *)
ActivationRequested(src) ==
  nm_cli.nowait_flag /\ DispatchedAndQuit(src, nm_cli, {}, {})

ActivationError(src) ==
  DispatchedAndQuit(src, [nm_cli EXCEPT !.return_value = ERROR_CON_ACTIVATION], {}, {})

(* A device without a connection gets one, which is then activated. *)
ConnectDeviceCb(src) ==
  /\ src.kind = "connect_device_cb"
  /\ \/ Dispatched(src, nm_cli, {}, {Source("add_and_activate_cb", src.call)}, FALSE)
     \/ ActivationError(src)
     \/ ActivationRequested(src)
     \/ ~ nm_cli.nowait_flag /\ ActivationStarted(src, nm_cli, {})
  /\ UNCHANGED ran

(* add_and_activate_cb() shows the progress anew: progress_id forgets the  *)
(* source of do_device_connect(), which nothing removes any more.          *)
AddAndActivateCb(src) ==
  /\ src.kind = "add_and_activate_cb"
  /\ \/ ActivationError(src)
     \/ ActivationRequested(src)
     \/ /\ ~ nm_cli.nowait_flag
        /\ IF ShowsProgress(nm_cli)
           THEN ActivationStarted(src, [nm_cli EXCEPT !.progress_id = ProgressId(src.call, 1)],
                                  {Progress(src.call, 1)})
           ELSE ActivationStarted(src, nm_cli, {})
  /\ UNCHANGED ran

(* The activation is over, with or without success; return_value is not    *)
(* set in either case.                                                     *)
ConnectedStateCb(src) ==
  /\ src.kind = "connected_state_cb"
  /\ DispatchedAndQuit(src, nm_cli, {}, {})
  /\ UNCHANGED ran

(* Mutant: the timeout is left behind. *)
DeviceCbInfoKeepsTimeout(c) ==
  {src \in sources : src.call = c /\ src.kind \in DisconnectKinds \ {"device_op_timeout_cb"}}

(* device_cb_info_finish() for the last device: the timeout and the signal *)
(* handlers are gone, and the pending call is cancelled.  The callback of  *)
(* a cancelled call returns at once and is left out.                       *)
DeviceCbInfo(c) == {src \in sources : src.call = c /\ src.kind \in DisconnectKinds}

(* The reply: an error, done, or the device has still to change its state. *)
DisconnectDeviceCb(src) ==
  /\ src.kind = "disconnect_device_cb"
  /\ \/ DispatchedAndQuit(src, [nm_cli EXCEPT !.return_value = ERROR_DEV_DISCONNECT],
                          DeviceCbInfo(src.call), {})
     \/ DispatchedAndQuit(src, nm_cli, DeviceCbInfo(src.call), {})
     \/ ~ nm_cli.nowait_flag /\ Dispatched(src, nm_cli, {}, {}, FALSE)
  /\ UNCHANGED ran

(* disconnect_state_cb() or device_removed_cb(): the device is down. *)
DisconnectStateCb(src) ==
  /\ src.kind = "disconnect_state_cb"
  /\ DispatchedAndQuit(src, nm_cli, DeviceCbInfo(src.call), {})
  /\ UNCHANGED ran

DeviceOpTimeoutCb(src) ==
  /\ src.kind = "device_op_timeout_cb"
  /\ DispatchedAndQuit(src, TimeoutExpired, DeviceCbInfo(src.call), {})
  /\ UNCHANGED ran

(* signal_handler(), outside of readline. *)
SigintHandler(src) ==
  /\ src.kind = "SIGINT"
  /\ Dispatched(src, [nm_cli EXCEPT !.return_value = TERMINATED_SIGINT], {}, {}, TRUE)
  /\ UNCHANGED ran

SigtermHandler(src) ==
  /\ src.kind = "SIGTERM"
  /\ ProcessEnds(src)

Dispatch(src) ==
  \/ CommandDone(src) \/ GotClient(src) \/ SaveHostnameCb(src)
  \/ PermissionChanged(src) \/ PrintPermissionsCb(src)
  \/ GeneralTimeoutCb(src) \/ TimeoutCb(src) \/ ProgressCb(src)
  \/ ConnectDeviceCb(src) \/ AddAndActivateCb(src) \/ ConnectedStateCb(src)
  \/ DisconnectDeviceCb(src) \/ DisconnectStateCb(src) \/ DeviceOpTimeoutCb(src)
  \/ SigintHandler(src) \/ SigtermHandler(src)

(* The handlers that g_unix_signal_add() installed stay installed between  *)
(* calls.                                                                  *)
SignalArrives(kind) ==
  /\ call > 0
  /\ loop # "exited"
  /\ signals < MaxSignals
  /\ signals' = signals + 1
  /\ sources' = sources \union {Source(kind, 0)}
  /\ UNCHANGED <<nm_cli, loop, ready, argv, call, frame, stdout_open, history>>

(* Completion runs report no errors. *)
ExitCode(nm) ==
  IF nm.complete /\ nm.return_value < COMPLETE_FILE THEN SUCCESS ELSE nm.return_value

(* The end of nmcli_execute() and, if that was called by                   *)
(* nmcli_execute_with_output(), of the latter: the output does or does not *)
(* fit into the buffer.                                                    *)
Return ==
  /\ loop = "quit"
  /\ ready = {}
  /\ loop' = "none"
  /\ nm_cli' = NmcCleanup([nm_cli EXCEPT !.return_value = ExitCode(nm_cli)])
  /\ stdout_open' = (stdout_open /\ ~ nm_cli.pager)
  /\ sources' = {src \in sources : src.kind \notin Subscriptions}
  /\ \/ results' = Append(results, Result(ExitCode(nm_cli)))
     \/ /\ frame.entry = "nmcli_execute_with_output"
        /\ results' = Append(results, Result(ERROR_BUFFER_TOO_SMALL))
  /\ UNCHANGED <<ready, argv, call, frame, signals, ran, touched>>

-----------------------------------------------------------------------------
Entries == {"nmcli_execute", "nmcli_execute_with_output"}

Init ==
  /\ nm_cli = InitialNmCli
  /\ loop = "none"
  /\ sources = {}
  /\ ready = {}
  /\ argv = <<>>
  /\ call = 0
  /\ frame = [entry |-> "nmcli_execute", passed |-> <<>>]
  /\ signals = 0
  /\ stdout_open = TRUE
  /\ results = <<>>
  /\ ran = [i \in 1 .. MaxCalls |-> 0]
  /\ touched = {}

LoopStep == Poll \/ (\E src \in ready : Dispatch(src)) \/ Return

Next ==
  \/ \E entry \in Entries, words \in Vectors : Call(entry, words)
  \/ Retry
  \/ \E kind \in {"SIGINT", "SIGTERM"} : SignalArrives(kind)
  \/ LoopStep

Spec == Init /\ [][Next]_vars

(* g_main_loop_run() goes on as long as there is something to dispatch.    *)
(* Every call over the bus is answered in the end, with an error after the *)
(* timeout of the bus if nothing else, and timeouts expire.  That this     *)
(* suffices takes vectors without a pretty `device connect', whose         *)
(* progress_cb() could be dispatched for ever instead.                     *)
FairSpec == Spec /\ WF_vars(LoopStep)
-----------------------------------------------------------------------------
(* Properties.                                                             *)

(* Nothing but the current call has been dispatched in its loop: no signal *)
(* and no source of an earlier call.                                       *)
Undisturbed == touched \subseteq {call}

(* The words that the program passes, and what becomes of them. *)
Given == UNION {Range(v) : v \in Vectors}

Words == Given \union {[w EXCEPT !.val = NoValue] : w \in Given}

IsVector(v) == \A i \in DOMAIN v : v[i] \in Words

(* Every variable has values of its type. *)
TypeOK ==
  /\ nm_cli.return_value \in {SUCCESS, ERROR_UNKNOWN, ERROR_USER_INPUT,
       ERROR_TIMEOUT_EXPIRED, ERROR_CON_ACTIVATION, ERROR_DEV_DISCONNECT,
       ERROR_NM_NOT_RUNNING, ERROR_NOT_FOUND, 128 + 2}
  /\ nm_cli.should_wait \in -MaxCalls .. MaxCalls + 1
  /\ nm_cli.progress_id \in Nat
  /\ nm_cli.print_output \in {"normal", "terse", "pretty"}
  /\ \A f \in {"client", "nowait_flag", "multiline_output", "mode_specified",
               "escape_values", "ask", "complete", "show_secrets", "overview",
               "use_colors", "pager"} : nm_cli[f] \in BOOLEAN
  /\ loop \in {"none", "running", "quit", "exited"}
  /\ \A src \in sources :
       /\ src.kind \in Kinds
       /\ src.call \in 0 .. call
       /\ src.handler \in Handlers \union {<<>>}
       /\ IsVector(src.argv)
  /\ ready \subseteq sources
  /\ IsVector(argv) /\ IsVector(frame.passed)
  /\ call \in 0 .. MaxCalls
  /\ signals \in 0 .. MaxSignals
  /\ stdout_open \in BOOLEAN
  /\ Len(results) \in {call, call - 1}
  /\ touched \subseteq 0 .. call

(* A set of vectors none of which asks for a command that leaves a timeout *)
(* behind, not even after it has been parsed once and is passed again.     *)
Tidy(V) ==
  \A v \in V :
    /\ HandlerFor(v) \notin {<<"general", "permissions">>, <<"device", "connect">>}
    /\ ProcessCommandLine(InitialNmCli, v, Terminal).argv \in V

(* Between calls nothing is left in the default main context: no timeout,  *)
(* no pending reply and no task of a call that has returned.               *)
NothingLeftBehind == loop = "none" => sources = {}

(* A call in whose loop nothing foreign was dispatched leaves nothing      *)
(* behind but a timeout_cb() that its command never removes, the idle      *)
(* print_permissions() that was overtaken by it, and, of the two           *)
(* progress_cb() of a pretty `device connect', the one that                *)
(* do_device_connect() has added, when progress_id does not name it any    *)
(* more (add_and_activate_cb() overwrites it, devices.c:1945, and quit()   *)
(* removes the other one, devices.c:926).  No reply of its own can arrive  *)
(* in the loop of a later call.                                            *)
LeavesOnlyItsTimeout ==
  loop = "none" /\ Undisturbed =>
    \A src \in sources : src.call = call =>
      \/ src.kind \in {"timeout_cb", "general_timeout_cb", "print_permissions"}
      \/ src = Progress(call, 0) /\ nm_cli.progress_id # src.p

(* No sequence of calls, retries, signals and leftovers calls the handler  *)
(* of a call's command twice; and a call that was not disturbed, is not    *)
(* for completion (which reports no errors) and returns NMC_RESULT_SUCCESS *)
(* has called the handler that its command line asks for.                  *)
HandlerRunsOnce ==
  /\ \A i \in 1 .. call : ran[i] <= 1
  /\ \A i \in DOMAIN results :
       LET r == results[i]
       IN  /\ r.value = SUCCESS
           /\ r.touched \subseteq {i}
           /\ HandlerFor(r.passed) # <<>>
           /\ ~ IsCompletion(r.passed)
           => ran[i] = 1

(* The options in force while the call runs are those of its own command   *)
(* line: nmcli_execute() resets, or process_command_line() sets, every     *)
(* one of them (--overview apart, which nothing resets).                   *)
OptionsAreOwn ==
  loop \in {"running", "quit"} =>
    LET fresh == ProcessCommandLine(InitialNmCli, frame.passed, Terminal)
    IN  \A f \in {"print_output", "multiline_output", "mode_specified", "escape_values",
                  "required_fields", "complete"} : nm_cli[f] = fresh.nm[f]

(* Every call returns (or the process is ended by SIGTERM). *)
EveryCallReturns ==
  loop \in {"running", "quit"} ~> loop \in {"none", "exited"}
=============================================================================
