-------------------------- MODULE DispatcherDaemon --------------------------
(***************************************************************************)
(* The nm-dispatcher daemon (dispatcher/nm-dispatcher.c).                  *)
(*                                                                         *)
(* NetworkManager calls the D-Bus method Action; the daemon runs the       *)
(* scripts of dispatcher.d for it and replies when all of them are over.   *)
(* "no-wait" scripts are spawned at once and in parallel.  "wait" scripts  *)
(* are serialised: one request at a time is gl.current_request, the other  *)
(* requests that have "wait" scripts are in gl.requests_waiting, and the   *)
(* current request runs its "wait" scripts one after the other, once its   *)
(* "no-wait" scripts are over.                                             *)
(*                                                                         *)
(* The daemon is single threaded: each GLib source (method call, child     *)
(* watch, timeout, signal) is one action that runs its callback to the     *)
(* end.  Spawning can fail for any script; the set `fail' that the actions *)
(* quantify over holds the scripts whose g_spawn_async() fails in this     *)
(* callback.  Script names, environments and log messages are left out.    *)
(***************************************************************************)
EXTENDS Integers, Sequences, FiniteSetsExt

CONSTANTS
  MaxRequests,  \* bound: number of Action calls that the daemon receives
  MaxScripts,   \* bound: number of scripts in dispatcher.d
  ScriptLists,  \* what find_scripts() may find: sequences of "wait" flags
  Persist,      \* gl.persist, the option --persist
  NoRequest     \* the NULL request

Requests == 1 .. MaxRequests

ASSUME BoundsAssumption ==
  /\ MaxRequests \in Nat
  /\ MaxScripts \in Nat
  /\ ScriptLists \subseteq {list \in Seq(BOOLEAN) : Len(list) <= MaxScripts}
  /\ Persist \in BOOLEAN
  /\ NoRequest \notin Nat

VARIABLES
  request_id_counter,    \* gl.request_id_counter
  req,                   \* the Request structures, by request_id
  current_request,       \* gl.current_request
  requests_waiting,      \* gl.requests_waiting
  num_requests_pending,  \* gl.num_requests_pending
  quit_id,               \* whether the idle timer gl.quit_id is armed
  replies,               \* number of D-Bus replies sent, by request_id
  alive,                 \* the script processes alive, as <<request_id, index>>
  loop,                  \* gl.loop: "running", "quitting" or "exited"
  asserts                \* FALSE once an assertion of the code has failed

queueVars == <<request_id_counter, req, current_request, requests_waiting,
               num_requests_pending, replies, asserts>>

vars == <<queueVars, quit_id, alive, loop>>

-----------------------------------------------------------------------------
(* Requests and scripts.                                                   *)

(* The DispatchResults other than DISPATCH_RESULT_UNKNOWN.  "EXITED" stands *)
(* for both SUCCESS and FAILED, which the daemon only passes on.           *)
Results == {"EXITED", "EXEC_FAILED", "TIMEOUT"}

(* ScriptInfo: `dispatched' is state # "new"; a script that is "running"   *)
(* has its child watch and its timeout installed and no result yet; the    *)
(* other states are its result.                                            *)
ScriptStates == {"new", "running"} \union Results

RequestRecords ==
  [wait : Seq(BOOLEAN), state : Seq(ScriptStates), idx : Nat \ {0},
   num_scripts_done : Int, num_scripts_nowait : Int]

(* A structure that g_slice_new0() has just allocated (idx counts from 1). *)
NullRequest == [wait |-> <<>>, state |-> <<>>, idx |-> 1, num_scripts_done |-> 0,
                num_scripts_nowait |-> 0]

Scripts(q) == DOMAIN q.state

Over(q, i) == q.state[i] \in Results

HasWait(q) == \E i \in Scripts(q) : q.wait[i]

(* A request that the daemon holds: complete_request() frees it when it    *)
(* replies.                                                                *)
Pending(r) == r <= request_id_counter /\ replies[r] = 0

-----------------------------------------------------------------------------
(* Mutant: one "no-wait" script may still run. *)
BlockedBySecondNoWait(q) == q.num_scripts_nowait > 1

(* The guard of dispatch_one_script(). *)
BlockedByNoWait(q) == q.num_scripts_nowait > 0

(* The scripts that the loop of dispatch_one_script() has left to try, the *)
(* one at which it stops because its spawn succeeds, and those before it.  *)
(* `bad' are the indices whose spawn fails.                                *)
Todo(q) == {i \in Scripts(q) : i >= q.idx /\ q.state[i] = "new"}
Spawned(q, bad) == {i \in Todo(q) \ bad : \A k \in Todo(q) \ bad : i <= k}
SpawnFailed(q, bad) == {i \in Todo(q) \intersect bad : \A k \in Spawned(q, bad) : i < k}

(* script_dispatch() for the scripts of the set `failed', whose spawn      *)
(* fails, and of the set `spawned'.                                        *)
ScriptDispatch(state, failed, spawned) ==
  [i \in DOMAIN state |-> IF i \in failed THEN "EXEC_FAILED"
                          ELSE IF i \in spawned THEN "running" ELSE state[i]]

(* dispatch_one_script(): `ret' tells whether the caller must wait, `q' is *)
(* the request afterwards, `spawned' the script that it started.           *)
DispatchOneScript(q, bad) ==
  IF BlockedByNoWait(q)
  THEN [ret |-> TRUE, q |-> q, spawned |-> {}]
  ELSE LET failed  == SpawnFailed(q, bad)
           spawned == Spawned(q, bad)
       IN  [ret |-> spawned # {},
            spawned |-> spawned,
            q |-> [wait  |-> q.wait,
                   state |-> ScriptDispatch(q.state, failed, spawned),
                   idx   |-> IF spawned # {} THEN 1 + CHOOSE i \in spawned : TRUE
                             ELSE IF q.idx > Len(q.state) THEN q.idx ELSE Len(q.state) + 1,
                   num_scripts_done   |-> q.num_scripts_done + Cardinality(failed),
                   num_scripts_nowait |-> q.num_scripts_nowait]]

(* The loop of _method_call_action() that dispatches the no-wait scripts. *)
DispatchNoWait(list, bad) ==
  LET nowait == {i \in DOMAIN list : ~list[i]}
  IN  [wait  |-> list,
       state |-> ScriptDispatch([i \in DOMAIN list |-> "new"],
                                nowait \intersect bad, nowait \ bad),
       idx   |-> NullRequest.idx,
       num_scripts_done   |-> Cardinality(nowait \intersect bad),
       num_scripts_nowait |-> Cardinality(nowait \ bad)]

(* Mutants: one script too few is enough; no "no-wait" script runs. *)
AllButOneDone(q) == q.num_scripts_done + 1 >= Len(q.state)
AllNoWaitDone(q) == q.num_scripts_nowait = 0

(* The test of complete_request(): no script is pending. *)
AllScriptsDone(q) == q.num_scripts_done >= Len(q.state)

(* What request_free() asserts. *)
FreeAsserts(q) == q.num_scripts_done = Len(q.state) /\ q.num_scripts_nowait = 0

(* Mutant: the timer is not armed when the last request goes. *)
RearmedBelowZero(left) == left < 0 /\ ~Persist

(* The end of complete_request() and quit_timeout_reschedule(): whether    *)
(* the idle timer is armed when `left' requests are pending.               *)
Rearmed(left) == left <= 0 /\ ~Persist

(* The end of every callback that handles requests.  complete_request() is *)
(* called for the requests of the sequence `tried', in this order, and     *)
(* does nothing for those that still have pending scripts.  It replies,    *)
(* frees the request, counts it off and arms the idle timer when none is   *)
(* pending.  rq, pending and armed are req, num_requests_pending and       *)
(* quit_id before these calls; cur and queue are current_request and       *)
(* requests_waiting afterwards; ok is what the callback asserted before.   *)
CompleteRequests(tried, rq, cur, queue, pending, armed, ok) ==
  LET done == {k \in DOMAIN tried : AllScriptsDone(rq[tried[k]])}
      left == pending - Cardinality(done)
  IN  /\ req' = rq
      /\ replies' = [r \in Requests |->
                       replies[r] + Cardinality({k \in done : tried[k] = r})]
      /\ current_request' = cur
      /\ requests_waiting' = queue
      /\ num_requests_pending' = left
      /\ quit_id' = (armed \/ (done # {} /\ Rearmed(left)))
      /\ asserts' = (/\ asserts
                     /\ ok
                     /\ \A k \in done : FreeAsserts(rq[tried[k]])
                     /\ done # {} /\ left <= 0 => /\ left = 0
                                                  /\ Len(tried) \in done
                                                  /\ cur = NoRequest
                                                  /\ queue = <<>>)

(* dispatch_one_script() for request x when the spawns in `fail' fail. *)
Dispatch(rq, x, fail) ==
  DispatchOneScript(rq[x], {i \in Scripts(rq[x]) : <<x, i>> \in fail})

(* The loop "while (next_request (NULL))" of complete_script(), entered    *)
(* after complete_request(r): the queue is taken up to the first request   *)
(* that must wait, the requests before it having failed to spawn every     *)
(* script they had left.  rq is req, procs the processes alive before.     *)
NextRequests(r, rq, procs, fail, ok) ==
  LET n     == Len(requests_waiting)
      stops == {k \in 1 .. n : Dispatch(rq, requests_waiting[k], fail).ret}
      stop  == IF stops = {} THEN n + 1 ELSE Min(stops)
      taken == {requests_waiting[k] : k \in {l \in 1 .. n : l <= stop}}
  IN  /\ CompleteRequests(<<r>> \o SubSeq(requests_waiting, 1, stop - 1),
                          [x \in Requests |-> IF x \in taken THEN Dispatch(rq, x, fail).q
                                              ELSE rq[x]],
                          IF stops = {} THEN NoRequest ELSE requests_waiting[stop],
                          SubSeq(requests_waiting, stop + 1, n),
                          num_requests_pending, quit_id, ok)
      /\ alive' = procs \union UNION {{x} \X Dispatch(rq, x, fail).spawned : x \in taken}

(* Mutant: the count is compared as it was before this script ended. *)
ResumesTooEarly(r, q) ==
  ~AllScriptsDone(q) /\ current_request = r /\ q.num_scripts_nowait = 1

(* The test of complete_script() after a "no-wait" script of r, now q: it  *)
(* was the last one of the current request, whose "wait" scripts can run.  *)
ResumesCurrent(r, q) ==
  ~AllScriptsDone(q) /\ current_request = r /\ q.num_scripts_nowait = 0

(* complete_script() for script i of request r, which is over in rq.       *)
CompleteScript(r, i, rq, procs, fail) ==
  LET wait == rq[r].wait[i]
      step == Dispatch(rq, r, fail)
      rq2  == [rq EXCEPT ![r] = step.q]
      goOn == wait \/ ResumesCurrent(r, rq[r])
  IN  \/ /\ goOn
         /\ step.ret
         /\ CompleteRequests(<<>>, rq2, current_request, requests_waiting,
                             num_requests_pending, quit_id, TRUE)
         /\ alive' = procs \union ({r} \X step.spawned)
      \/ /\ goOn
         /\ ~step.ret
         /\ NextRequests(r, rq2, procs, fail,
                         wait => current_request = r /\ AllScriptsDone(step.q))
      \/ /\ ~goOn
         /\ CompleteRequests(<<r>>, rq,
                             IF current_request = r /\ AllScriptsDone(rq[r])
                             THEN NoRequest ELSE current_request,
                             requests_waiting, num_requests_pending, quit_id, TRUE)
         /\ alive' = procs

(* What both callbacks of a running script record before complete_script(). *)
ScriptOver(q, i, result) ==
  [wait  |-> q.wait,
   state |-> [q.state EXCEPT ![i] = result],
   idx   |-> q.idx,
   num_scripts_done   |-> q.num_scripts_done + 1,
   num_scripts_nowait |-> IF q.wait[i] THEN q.num_scripts_nowait
                          ELSE q.num_scripts_nowait - 1]

-----------------------------------------------------------------------------
(* The callbacks.  The main loop dispatches every source that was ready    *)
(* when its iteration began, so they also run while it is "quitting".      *)

(* Mutant: the request goes to the head of the queue. *)
PushHead(queue, r) == <<r>> \o queue

(* g_queue_push_tail() in next_request(). *)
PushTail(queue, r) == Append(queue, r)

(* _method_call_action() for a call that is malformed or finds no script:  *)
(* an empty reply, and the idle timer stays as it is.                      *)
MethodCallNoScripts ==
  /\ loop # "exited" /\ request_id_counter < MaxRequests
  /\ request_id_counter' = request_id_counter + 1
  /\ replies' = [replies EXCEPT ![request_id_counter + 1] = @ + 1]
  /\ UNCHANGED <<req, current_request, requests_waiting, num_requests_pending,
                 quit_id, alive, loop, asserts>>

(* _method_call_action() for a call that finds the scripts `list'. *)
MethodCallAction(list, bad) ==
  LET id    == request_id_counter + 1
      q     == DispatchNoWait(list, bad)
      step  == DispatchOneScript(q, bad)
      procs == alive \union {<<id, i>> : i \in {k \in Scripts(q) : q.state[k] = "running"}}
      Finish(tried, q2, cur, queue, ok) ==
        CompleteRequests(tried, [req EXCEPT ![id] = q2], cur, queue,
                         num_requests_pending + 1, FALSE, ok)
  IN  /\ loop # "exited" /\ request_id_counter < MaxRequests
      /\ list # <<>>
      /\ request_id_counter' = id
      /\ UNCHANGED loop
      /\ \/ /\ HasWait(q) /\ current_request # NoRequest
            /\ Finish(<<>>, q, current_request, PushTail(requests_waiting, id), TRUE)
            /\ alive' = procs
         \/ /\ HasWait(q) /\ current_request = NoRequest /\ step.ret
            /\ Finish(<<>>, step.q, id, requests_waiting, TRUE)
            /\ alive' = procs \union ({id} \X step.spawned)
         \/ /\ HasWait(q) /\ current_request = NoRequest /\ ~step.ret
            /\ Finish(<<id>>, step.q, NoRequest, requests_waiting, requests_waiting = <<>>)
            /\ alive' = procs
         \/ /\ ~HasWait(q)
            /\ Finish(<<id>>, q, current_request, requests_waiting, TRUE)
            /\ alive' = procs

(* script_watch_cb(): the child watch reports that the process is gone.    *)
ScriptWatchCb(r, i, fail) ==
  /\ loop # "exited"
  /\ i \in Scripts(req[r]) /\ req[r].state[i] = "running"
  /\ <<r, i>> \notin alive
  /\ CompleteScript(r, i, [req EXCEPT ![r] = ScriptOver(req[r], i, "EXITED")], alive, fail)
  /\ UNCHANGED <<request_id_counter, loop>>

(* script_timeout_cb(): SCRIPT_TIMEOUT expires first; the process is       *)
(* killed and waited for, unless it is gone already.                       *)
ScriptTimeoutCb(r, i, fail) ==
  /\ loop # "exited"
  /\ i \in Scripts(req[r]) /\ req[r].state[i] = "running"
  /\ CompleteScript(r, i, [req EXCEPT ![r] = ScriptOver(req[r], i, "TIMEOUT")], alive \ {<<r, i>>}, fail)
  /\ UNCHANGED <<request_id_counter, loop>>

(* g_main_loop_quit(), which changes nothing in a loop that is quitting. *)
MainLoopQuit == loop' = "quitting"

(* quit_timeout_cb() *)
QuitTimeoutCb ==
  /\ loop # "exited" /\ quit_id
  /\ quit_id' = FALSE
  /\ MainLoopQuit
  /\ UNCHANGED <<queueVars, alive>>

(* signal_handler(), for SIGTERM and SIGINT. *)
SignalHandler ==
  /\ loop # "exited"
  /\ MainLoopQuit
  /\ UNCHANGED <<queueVars, quit_id, alive>>

(* on_name_lost() *)
OnNameLost ==
  /\ loop # "exited"
  /\ MainLoopQuit
  /\ UNCHANGED <<queueVars, quit_id, alive>>

(* main() after g_main_loop_run(): the queue and the timer are released,   *)
(* the pending requests are only reported.                                 *)
MainDone ==
  /\ loop = "quitting"
  /\ loop' = "exited"
  /\ requests_waiting' = <<>>
  /\ quit_id' = FALSE
  /\ UNCHANGED <<request_id_counter, req, current_request, num_requests_pending,
                 replies, asserts, alive>>

(* The environment: a script process ends by itself. *)
ScriptExits(r, i) ==
  /\ loop # "exited"
  /\ <<r, i>> \in alive
  /\ alive' = alive \ {<<r, i>>}
  /\ UNCHANGED <<queueVars, quit_id, loop>>

-----------------------------------------------------------------------------
Init ==
  /\ request_id_counter = 0
  /\ req = [r \in Requests |-> NullRequest]
  /\ current_request = NoRequest
  /\ requests_waiting = <<>>
  /\ num_requests_pending = 0
  /\ quit_id = ~Persist
  /\ replies = [r \in Requests |-> 0]
  /\ alive = {}
  /\ loop = "running"
  /\ asserts = TRUE

(* The scripts that a callback might try to spawn. *)
Undispatched ==
  UNION {{r} \X {i \in Scripts(req[r]) : req[r].state[i] = "new"} : r \in Requests}

Next ==
  \/ MethodCallNoScripts
  \/ \E list \in ScriptLists : \E bad \in SUBSET DOMAIN list : MethodCallAction(list, bad)
  \/ \E r \in Requests : \E i \in Scripts(req[r]), fail \in SUBSET Undispatched :
       \/ ScriptWatchCb(r, i, fail)
       \/ ScriptTimeoutCb(r, i, fail)
  \/ \E p \in alive : ScriptExits(p[1], p[2])
  \/ QuitTimeoutCb
  \/ SignalHandler
  \/ OnNameLost
  \/ MainDone

Spec == Init /\ [][Next]_vars

(* The event sources of the daemon fire: the timeout of a running script   *)
(* (or its child watch before it), the idle timer, and the end of the main *)
(* loop once it was told to quit.  The first conjunct is weak fairness of  *)
(* the callbacks of a script: they are enabled exactly as long as it is    *)
(* running and the loop has not exited, and they end that.  Nothing is     *)
(* assumed of the scripts, the signals and the callers.                    *)
Fairness ==
  /\ \A r \in Requests, i \in 1 .. MaxScripts :
       []<>~(loop # "exited" /\ i \in Scripts(req[r]) /\ req[r].state[i] = "running")
  /\ WF_vars(QuitTimeoutCb)
  /\ WF_vars(MainDone)

FairSpec == Spec /\ Fairness

-----------------------------------------------------------------------------
(* Properties.                                                             *)

(* Types of the variables (struct gl, Request and ScriptInfo). *)
TypeOK ==
  /\ request_id_counter \in 0 .. MaxRequests
  /\ req \in [Requests -> RequestRecords]
  /\ current_request \in Requests \union {NoRequest}
  /\ requests_waiting \in Seq(Requests)
  /\ num_requests_pending \in Int
  /\ quit_id \in BOOLEAN
  /\ replies \in [Requests -> Nat]
  /\ alive \subseteq Requests \X (Nat \ {0})
  /\ loop \in {"running", "quitting", "exited"}
  /\ asserts \in BOOLEAN

(* No assertion of the code fails: request_free() frees a request whose    *)
(* scripts are all done, complete_request() counts no request twice and    *)
(* leaves nothing current or queued at zero, complete_script() finds the   *)
(* request of a "wait" script current and completes it, and                *)
(* _method_call_action() never finds a queue behind a request that it made *)
(* current (g_assert_not_reached).                                         *)
NoAssertionFails == asserts

(* "Dispatcher scripts are run one at a time": at most one "wait" script   *)
(* process is alive over all requests, it belongs to the current request,  *)
(* and no "no-wait" script of that request is alive beside it              *)
(* (next_request(), dispatch_one_script()).                                *)
WaitScriptsSerialised ==
  \A p \in alive :
    req[p[1]].wait[p[2]] =>
      /\ current_request = p[1]
      /\ \A o \in alive \ {p} : o[1] # p[1] /\ ~req[o[1]].wait[o[2]]

(* "Wait" scripts run in the order of the list inside a request, and in    *)
(* the order of the calls across requests: once one has been dispatched,   *)
(* those before it in its request and in earlier requests are over         *)
(* (dispatch_one_script() and the queue of next_request()).                *)
WaitScriptsInOrder ==
  \A r \in Requests : \A i \in Scripts(req[r]) :
    req[r].wait[i] /\ req[r].state[i] # "new" =>
      \A s \in 1 .. r : \A j \in Scripts(req[s]) :
        req[s].wait[j] /\ (s < r \/ j < i) => Over(req[s], j)

(* A request is answered at most once, and only when each of its scripts   *)
(* has a result and none of its processes or event sources is left that    *)
(* would touch the freed request (complete_request(), request_free()).     *)
RepliesOnceWhenOver ==
  \A r \in Requests :
    /\ replies[r] <= 1
    /\ replies[r] > 0 => /\ \A i \in Scripts(req[r]) : Over(req[r], i)
                         /\ \A p \in alive : p[1] # r

(* num_requests_pending, num_scripts_done and num_scripts_nowait count the *)
(* requests held, the scripts over and the "no-wait" scripts running: the  *)
(* callbacks keep them in step with the structures.                        *)
CountersAgree ==
  /\ num_requests_pending = Cardinality({r \in Requests : Pending(r)})
  /\ \A r \in Requests : Pending(r) =>
       /\ req[r].num_scripts_done = Cardinality({i \in Scripts(req[r]) : Over(req[r], i)})
       /\ req[r].num_scripts_nowait =
            Cardinality({i \in Scripts(req[r]) : ~req[r].wait[i] /\ req[r].state[i] = "running"})

(* No request is stranded: a request that is held is queued behind a       *)
(* current request, or has a script whose end will resume it.  So the      *)
(* queue is never left without a script running for its current request.   *)
NoRequestStranded ==
  loop # "exited" =>
    \A r \in Requests : Pending(r) =>
      \/ \E i \in Scripts(req[r]) : req[r].state[i] = "running"
      \/ /\ \E k \in DOMAIN requests_waiting : requests_waiting[k] = r
         /\ current_request \notin {NoRequest, r}

(* While the loop runs, the idle timer is armed exactly when the daemon    *)
(* may idle out and holds no request, so that it neither quits under a     *)
(* request nor stays for ever (_method_call_action(), complete_request()). *)
IdleTimerArmedIffIdle ==
  loop = "running" =>
    (quit_id <=> ~Persist /\ \A r \in Requests : ~Pending(r))

(* The daemon as a DispatcherService: a request is held until its reply,   *)
(* it is serial if it has "wait" scripts, and it is served while one of    *)
(* them runs.                                                              *)
Service == INSTANCE DispatcherService WITH
  MaxCalls <- MaxRequests,
  calls    <- request_id_counter,
  held     <- {r \in Requests : Pending(r)},
  serial   <- {r \in Requests : Pending(r) /\ HasWait(req[r])},
  serving  <- {r \in Requests : \E i \in Scripts(req[r]) :
                                  req[r].wait[i] /\ req[r].state[i] = "running"},
  open     <- loop # "exited"

(* The daemon implements the service: every callback, also one that ends   *)
(* several requests at once, answers each request once, answers those with *)
(* "wait" scripts in the order of the calls, and runs "wait" scripts only  *)
(* for the oldest request that has some (next_request(),                   *)
(* complete_script(), complete_request()).                                 *)
ImplementsService == Service!Spec

(* Every request is answered, or the daemon was told to quit: a script     *)
(* that hangs is killed by its timeout and never blocks those behind it.   *)
EveryRequestAnswered ==
  \A r \in Requests :
    (r <= request_id_counter) ~> (replies[r] = 1 \/ loop # "running")

(* Without --persist the daemon exits in the end: whatever the order in    *)
(* which scripts end, the idle timer gets armed again after the last one.  *)
IdlesOut == <>(loop = "exited")
=============================================================================
