----------------------------- MODULE SessionOpen -----------------------------
(***************************************************************************)
(* One airece command from main() to exit: the cancellation token guard,   *)
(* AnalysisSession::open with its deadline watchdog thread, the use of the *)
(* opened session, and the destructors that run in reverse order.          *)
(*                                                                         *)
(* Three actors interleave: the command thread (pc), the watchdog thread   *)
(* (worker) and the process's SIGINT handler.  They share two cancellation *)
(* tokens (the guard's "global" one and the one a session "owned" when its *)
(* caller gave none), the global pointer, and the watchdog's mutex and     *)
(* finished_ flag.                                                         *)
(***************************************************************************)
EXTENDS Naturals

CONSTANT MaxSignals          \* bound on the SIGINTs delivered in one run
ASSUME MaxSignalsAssumption == MaxSignals \in Nat

Tokens == {"global", "owned"}

(***************************************************************************)
(* What a session holds.  Needs gives, for each part, the parts it keeps a *)
(* reference or a pointer to.                                              *)
(***************************************************************************)
Parts == {"binary", "decode", "cfg", "expression", "variable", "compact",
          "symbolic"}

Needs == [part \in Parts |->
            CASE part \in {"decode", "cfg"}         -> {"binary"}
              [] part \in {"expression", "variable"} -> {"cfg"}
              [] part = "compact"                  -> {"cfg", "binary"}
              [] OTHER                             -> {}]

VARIABLES
  pc,            \* the command thread
  worker,        \* the watchdog thread
  lock,          \* DeadlineWatchdog::mutex_ held by the worker across a request
  finished,      \* DeadlineWatchdog::finished_
  deadline,      \* the option max_wall_time_ms is not 0
  buildIr,       \* the option build_ir
  life,          \* each token: "none", "live" or "destroyed"
  requested,     \* the tokens on which cancellation was requested
  globalPtr,     \* global_cancel_token is not null
  handler,       \* request_cancellation is the SIGINT handler
  sessionToken,  \* the session's options_.cancellation
  live,          \* the parts the session holds
  loaded,        \* loader_result_.state is XAIR_ANALYSIS_COMPLETE
  complete,      \* SessionCompleteness::complete
  result,        \* the SessionOpenResult
  exit,          \* the command's exit code, or "none"
  signals,       \* SIGINTs so far
  inFlight,      \* handlers that found the pointer set and have yet to request
  answer,        \* history: how the command's own work ended
  firedAt,       \* history: where pc was when the watchdog requested
  misuse         \* history: who requested a destroyed token

mainVars   == <<pc, life, globalPtr, handler, sessionToken, live, loaded,
                complete, result, exit, answer>>
workerVars == <<worker, lock, firedAt>>
signalVars == <<signals, inFlight, misuse>>
inputs     == <<deadline, buildIr>>
vars == <<pc, worker, lock, finished, deadline, buildIr, life, requested,
          globalPtr, handler, sessionToken, live, loaded, complete, result,
          exit, signals, inFlight, answer, firedAt, misuse>>

PCs == {"start", "construct", "watch", "load", "cfg", "inventory", "stop",
        "notify", "join", "drop", "use", "close", "guard", "nulling",
        "restoring", "done"}

WorkerStates == {"none", "started", "waiting", "woken", "timedout",
                 "expired", "ended"}
Active == {"started", "waiting", "woken", "timedout", "expired"}

TypeOK ==
  /\ pc \in PCs
  /\ worker \in WorkerStates
  /\ lock \in {"free", "worker"}
  /\ finished \in BOOLEAN /\ deadline \in BOOLEAN /\ buildIr \in BOOLEAN
  /\ globalPtr \in BOOLEAN /\ handler \in BOOLEAN
  /\ loaded \in BOOLEAN /\ complete \in BOOLEAN
  /\ life \in [Tokens -> {"none", "live", "destroyed"}]
  /\ requested \subseteq Tokens
  /\ sessionToken \in Tokens \cup {"null"}
  /\ live \subseteq Parts
  /\ result \in {"pending", "nothing", "partial", "session"}
  /\ exit \in {"none", "complete", "failure", "usage", "partial"}
  /\ signals \in 0 .. MaxSignals /\ inFlight \in 0 .. MaxSignals
  /\ answer \in {"none", "whole", "short", "canceled", "refused"}
  /\ firedAt \in PCs \cup {"never"}
  /\ misuse \subseteq {"worker", "signal"}

Init ==
  /\ pc = "start" /\ worker = "none" /\ lock = "free" /\ finished = FALSE
  /\ deadline \in BOOLEAN /\ buildIr \in BOOLEAN
  /\ life = [t \in Tokens |-> "none"] /\ requested = {}
  /\ globalPtr = FALSE /\ handler = FALSE /\ sessionToken = "null"
  /\ live = {} /\ loaded = FALSE /\ complete = FALSE
  /\ result = "pending" /\ exit = "none"
  /\ signals = 0 /\ inFlight = 0 /\ answer = "none" /\ firedAt = "never" /\ misuse = {}

-----------------------------------------------------------------------------
(* The command thread.  Go moves pc from one place to another.             *)

Go(from, to) == pc = from /\ pc' = to

\* CancelTokenGuard's constructor: creating the token may fail, and then
\* neither the pointer nor the handler is set.
CreateGuard ==
  /\ Go("start", "construct")
  /\ \/ /\ life' = [life EXCEPT !["global"] = "live"]
        /\ globalPtr' = TRUE /\ handler' = TRUE
     \/ UNCHANGED <<life, globalPtr, handler>>
  /\ UNCHANGED <<loaded, workerVars, inputs, finished, requested, sessionToken,
                 live, complete, result, exit, answer, signalVars>>

\* Help, the version, a command that is refused or a bad option: an exit code
\* without a session.
AnswerDirectly ==
  /\ Go("construct", "guard")
  /\ exit' \in {"complete", "usage"}
  /\ UNCHANGED <<loaded, workerVars, inputs, finished, requested, life,
                 globalPtr, handler, sessionToken, live, complete, result,
                 answer, signalVars>>

\* Variant of CallerToken: no token under a name no reader knows.
CallerTokenUnnamed == IF globalPtr THEN "global" ELSE "none"

CallerToken == IF globalPtr THEN "global" ELSE "null"

\* The session's constructor: a token of its own when there is a deadline and
\* the caller gave none.
ConstructSession ==
  /\ Go("construct", "watch")
  /\ \/ /\ deadline /\ CallerToken = "null"
        /\ life' = [life EXCEPT !["owned"] = "live"]
        /\ sessionToken' = "owned"
     \/ /\ sessionToken' = CallerToken      \* also when creating one failed
        /\ UNCHANGED life
  /\ UNCHANGED <<loaded, workerVars, inputs, finished, requested, globalPtr,
                 handler, live, complete, result, exit, answer, signalVars>>

StartWatchdog ==
  /\ Go("watch", "load")
  /\ worker' = IF sessionToken # "null" /\ deadline THEN "started" ELSE "none"
  /\ UNCHANGED <<loaded, lock, firedAt, inputs, finished, requested, life,
                 globalPtr, handler, sessionToken, live, complete, result, exit,
                 answer, signalVars>>

\* The loader is given the caller's token, not the session's.  When it stops for
\* a requested token, and with what state, is the library's: it may fail, or
\* succeed with a result that is complete or not.
LoadBinary ==
  /\ pc = "load"
  /\ \/ /\ pc' = "cfg" /\ loaded' \in BOOLEAN
        /\ live' = live \cup {"binary", "decode"}
        /\ UNCHANGED result
     \/ /\ pc' = "stop" /\ result' = "nothing"
        /\ UNCHANGED <<live, loaded>>
  /\ UNCHANGED <<workerVars, inputs, finished, requested, life, globalPtr,
                 handler, sessionToken, complete, exit, answer, signalVars>>

\* Variant of BuildToken: the caller's options are used.
BuildTokenOfCaller == CallerToken

\* The token build_cfg polls: the session's own options, not the caller's.
BuildToken == sessionToken

\* A failure leaves whatever was built (a CFG that failed verification stays)
\* and yields a partial session, whose completeness was never set.  A CFG
\* build that was cancelled is not complete.
BuildCfg ==
  /\ pc = "cfg"
  /\ \/ /\ pc' = "inventory"
        /\ live' = live \cup {"cfg"} \cup (IF buildIr THEN {"expression"} ELSE {})
        /\ complete' \in {FALSE, loaded /\ BuildToken \notin requested}
        /\ UNCHANGED result
     \/ /\ pc' = "stop" /\ result' = "partial"
        /\ live' \in {live, live \cup {"cfg"}}
        /\ UNCHANGED complete
  /\ UNCHANGED <<loaded, workerVars, inputs, finished, requested, life,
                 globalPtr, handler, sessionToken, exit, answer, signalVars>>

\* build_inventory never polls a token; an invalid function record loses the
\* session altogether.
BuildInventory ==
  /\ Go("inventory", "stop")
  /\ \/ /\ result' = "session"
        /\ live' = live \cup (IF buildIr THEN {"variable", "compact"} ELSE {})
     \/ result' = "nothing" /\ UNCHANGED live
  /\ UNCHANGED <<loaded, workerVars, inputs, finished, requested, life,
                 globalPtr, handler, sessionToken, complete, exit, answer,
                 signalVars>>

\* ~DeadlineWatchdog: finished_ under the mutex, then notify, then join.
SetFinished ==
  /\ Go("stop", "notify")
  /\ lock = "free"
  /\ finished' = TRUE
  /\ UNCHANGED <<loaded, workerVars, inputs, life, requested, globalPtr,
                 handler, sessionToken, live, complete, result, exit, answer,
                 signalVars>>

\* Variant of Notify: the destructor joins without waking the worker.
NotifyNobody ==
  /\ Go("notify", "join")
  /\ UNCHANGED <<loaded, workerVars, inputs, finished, requested, life,
                 globalPtr, handler, sessionToken, live, complete, result, exit,
                 answer, signalVars>>

Notify ==
  /\ Go("notify", "join")
  /\ worker' = IF worker = "waiting" THEN "woken" ELSE worker
  /\ UNCHANGED <<loaded, lock, firedAt, inputs, finished, requested, life,
                 globalPtr, handler, sessionToken, live, complete, result, exit,
                 answer, signalVars>>

\* Variant of Joined: the thread is detached.
JoinedDetached == TRUE

Joined == worker \notin Active

\* open() returns; the session it did not hand over is destroyed here.
Join ==
  /\ Joined
  /\ Go("join", IF result = "nothing" THEN "drop" ELSE "use")
  /\ UNCHANGED <<loaded, workerVars, inputs, finished, requested, life,
                 globalPtr, handler, sessionToken, live, complete, result, exit,
                 answer, signalVars>>

\* inspect prints what a session has, also a partial one; functions, calls, xrefs,
\* evidence and slice print what is found in a session.  No token is polled.
ShowSession ==
  /\ answer' = "whole"
  /\ UNCHANGED live

\* expr, vars and fn: the text may be cut by its own limits.
ShowView ==
  /\ result = "session"
  /\ answer' \in {"whole", "short"}
  /\ UNCHANGED live

\* Variant of QueryToken: the token of the session's options.
QueryTokenOfSession == sessionToken

\* The token a query polls is the guard's, whatever token the session made itself.
QueryToken == CallerToken

\* flow, taint, path and fn's enrichment: a query may stop at one of its own
\* limits or not reach its goal ("path unknown"), it polls its token and may miss a
\* request, and it may create the symbolic context.
Query ==
  /\ result = "session"
  /\ \/ answer' \in {"whole", "short"}
     \/ answer' = "canceled" /\ QueryToken \in requested
  /\ live' \in {live, live \cup {"symbolic"}}

\* What was asked for is not there, or only inspect takes a partial session.
Refuse ==
  /\ answer' = "refused"
  /\ live' \in {live} \cup
       (IF result = "session" THEN {live \cup {"symbolic"}} ELSE {})

\* Exit code 0 needs a complete session and a whole answer.
UseSession ==
  /\ Go("use", "close")
  /\ ShowSession \/ ShowView \/ Query \/ Refuse
  /\ exit' = CASE answer' = "refused" -> "failure"
               [] answer' = "whole" /\ complete -> "complete"
               [] OTHER -> "partial"
  /\ UNCHANGED <<loaded, workerVars, inputs, finished, requested, life,
                 globalPtr, handler, sessionToken, complete, result,
                 signalVars>>

-----------------------------------------------------------------------------
(* Destructors.  ~AnalysisSession releases the parts in the order of its   *)
(* body; decode_cache_ is a member and goes after the body.                *)

\* Variant of ReleaseOrder: the order of construction.
ReleaseOrderForward == <<"binary", "cfg", "expression", "variable", "compact",
                         "symbolic">>

ReleaseOrder == <<"symbolic", "compact", "variable", "expression", "cfg",
                  "binary">>

\* The next part of the order still held, or "none".
NextRelease ==
  LET held == {i \in 1 .. 6 : ReleaseOrder[i] \in live}
  IN  IF held = {} THEN "none"
      ELSE ReleaseOrder[CHOOSE i \in held : \A j \in held : i <= j]

ReleasePart ==
  /\ pc \in {"drop", "close"}
  /\ NextRelease # "none"
  /\ live' = live \ {NextRelease}
  /\ UNCHANGED <<pc, loaded, workerVars, inputs, finished, requested, life,
                 globalPtr, handler, sessionToken, complete, result, exit,
                 answer, signalVars>>

\* Variant of FinishRelease: the owned token is forgotten.
FinishReleaseLeaking ==
  /\ pc \in {"drop", "close"}
  /\ NextRelease = "none"
  /\ pc' = "guard"
  /\ live' = live \ {"decode"}
  /\ exit' = IF exit = "none" THEN "failure" ELSE exit
  /\ UNCHANGED <<loaded, workerVars, inputs, finished, requested, life,
                 globalPtr, handler, sessionToken, complete, result, answer,
                 signalVars>>

\* The owned token after the body's parts, then the members.
FinishRelease ==
  /\ pc \in {"drop", "close"}
  /\ NextRelease = "none"
  /\ pc' = "guard"
  /\ live' = live \ {"decode"}
  /\ life' = IF life["owned"] = "live"
             THEN [life EXCEPT !["owned"] = "destroyed"] ELSE life
  /\ exit' = IF exit = "none" THEN "failure" ELSE exit
  /\ UNCHANGED <<loaded, workerVars, inputs, finished, requested, globalPtr,
                 handler, sessionToken, complete, result, answer, signalVars>>

\* ~CancelTokenGuard, statement by statement: a SIGINT can fall in between.
DestroyGlobal ==
  /\ Go("guard", IF globalPtr THEN "nulling" ELSE "restoring")
  /\ life' = IF globalPtr THEN [life EXCEPT !["global"] = "destroyed"] ELSE life
  /\ UNCHANGED <<loaded, workerVars, inputs, finished, requested, globalPtr,
                 handler, sessionToken, live, complete, result, exit, answer,
                 signalVars>>

\* Variant of NullGlobal: the pointer keeps the destroyed token.
NullGlobalMissing ==
  /\ Go("nulling", "restoring")
  /\ UNCHANGED <<loaded, workerVars, inputs, finished, requested, life,
                 globalPtr, handler, sessionToken, live, complete, result, exit,
                 answer, signalVars>>

NullGlobal ==
  /\ Go("nulling", "restoring")
  /\ globalPtr' = FALSE
  /\ UNCHANGED <<loaded, workerVars, inputs, finished, requested, life, handler,
                 sessionToken, live, complete, result, exit, answer,
                 signalVars>>

RestoreHandler ==
  /\ Go("restoring", "done")
  /\ handler' = FALSE
  /\ UNCHANGED <<loaded, workerVars, inputs, finished, requested, life,
                 globalPtr, sessionToken, live, complete, result, exit, answer,
                 signalVars>>

-----------------------------------------------------------------------------
(* The watchdog thread: wait_for(lock, timeout, finished_).                *)

\* The predicate is tested before the first wait and after every wake-up.
WorkerBegin ==
  /\ worker = "started" /\ lock = "free"
  /\ worker' = IF finished THEN "ended" ELSE "waiting"
  /\ UNCHANGED <<mainVars, lock, firedAt, inputs, finished, requested,
                 signalVars>>

WorkerWake ==                                   \* a spurious wake-up
  /\ worker = "waiting" /\ worker' = "woken"
  /\ UNCHANGED <<mainVars, lock, firedAt, inputs, finished, requested,
                 signalVars>>

WorkerTimeout ==
  /\ worker \in {"waiting", "woken"} /\ worker' = "timedout"
  /\ UNCHANGED <<mainVars, lock, firedAt, inputs, finished, requested,
                 signalVars>>

\* Variant of WorkerRecheck: a timeout is believed without the predicate.
WorkerRecheckTimeoutOnly ==
  /\ worker \in {"woken", "timedout"} /\ lock = "free"
  /\ worker' = IF worker = "timedout" THEN "expired"
               ELSE IF finished THEN "ended" ELSE "waiting"
  /\ lock' = IF worker' = "expired" THEN "worker" ELSE "free"
  /\ UNCHANGED <<mainVars, firedAt, inputs, finished, requested, signalVars>>

\* Woken or timed out, the worker takes the mutex again and tests finished_.
\* After a timeout it keeps the mutex for the request.
WorkerRecheck ==
  /\ worker \in {"woken", "timedout"} /\ lock = "free"
  /\ worker' = IF finished THEN "ended"
               ELSE IF worker = "timedout" THEN "expired" ELSE "waiting"
  /\ lock' = IF worker' = "expired" THEN "worker" ELSE "free"
  /\ UNCHANGED <<mainVars, firedAt, inputs, finished, requested, signalVars>>

WorkerRequest ==
  /\ worker = "expired"
  /\ worker' = "ended" /\ lock' = "free" /\ firedAt' = pc
  /\ requested' = requested \cup {sessionToken}
  /\ misuse' = IF life[sessionToken] = "live" THEN misuse
               ELSE misuse \cup {"worker"}
  /\ UNCHANGED <<mainVars, inputs, finished, signals, inFlight>>

-----------------------------------------------------------------------------
\* SIGINT while request_cancellation is installed: the handler tests the pointer,
\* on the command thread, another one or one of its own.
SignalTest ==
  /\ handler /\ signals < MaxSignals
  /\ signals' = signals + 1
  /\ inFlight' = IF globalPtr THEN inFlight + 1 ELSE inFlight
  /\ UNCHANGED <<mainVars, workerVars, inputs, finished, requested, misuse>>

\* It then requests what the pointer names.  If the pointer has been cleared since,
\* which the code does not exclude, the value it uses is the one it tested or null.
SignalRequest ==
  /\ inFlight > 0 /\ inFlight' = inFlight - 1
  /\ \/ /\ requested' = requested \cup {"global"}
        /\ misuse' = IF life["global"] = "live" THEN misuse
                     ELSE misuse \cup {"signal"}
     \/ ~ globalPtr /\ UNCHANGED <<requested, misuse>>
  /\ UNCHANGED <<mainVars, workerVars, inputs, finished, signals>>

Signal == SignalTest \/ SignalRequest

Opening   == \/ CreateGuard \/ AnswerDirectly \/ ConstructSession \/ StartWatchdog \/ LoadBinary
             \/ BuildCfg \/ BuildInventory
Stopping  == SetFinished \/ Notify \/ Join
Releasing == ReleasePart \/ FinishRelease
GuardExit == DestroyGlobal \/ NullGlobal \/ RestoreHandler

Main   == Opening \/ Stopping \/ UseSession \/ Releasing \/ GuardExit
Worker == WorkerBegin \/ WorkerWake \/ WorkerTimeout \/ WorkerRecheck
          \/ WorkerRequest

Terminated == pc = "done" /\ UNCHANGED vars

Next == Main \/ Worker \/ Signal \/ Terminated

(***************************************************************************)
(* The command thread runs, and a worker that can take the mutex or is     *)
(* about to request does so.  Nothing forces a spurious wake-up, and       *)
(* nothing forces the deadline to pass: it may be hours away.              *)
(***************************************************************************)
Fairness == /\ WF_vars(Main)
            /\ WF_vars(WorkerBegin \/ WorkerRecheck \/ WorkerRequest)

Spec == Init /\ [][Next]_vars /\ Fairness

-----------------------------------------------------------------------------
(* Properties.                                                             *)

\* While the watchdog thread can still request cancellation, the token it
\* holds is alive: the watchdog is joined before the session that may own the
\* token is destroyed, on every return path of open().
WorkerTokenAlive ==
  worker \in Active => sessionToken # "null" /\ life[sessionToken] = "live"

\* Once open() has told the watchdog to stop, no deadline cancels a token: a later
\* query is only cancelled by a SIGINT's handler.
NoLateCancel ==
  [][finished => requested' = requested \/ inFlight' < inFlight]_vars

\* A destroyed token is requested only by a handler that tested the pointer before
\* ~CancelTokenGuard cleared it, which may be long before its request: once the
\* pointer is cleared no handler gets past its test.
DestroyedTokenWindow ==
  [][/\ misuse' # misuse =>
          pc \in {"nulling", "restoring", "done"} /\ inFlight' < inFlight
     /\ pc \in {"restoring", "done"} => inFlight' <= inFlight]_vars

\* A part of a session outlives every part that refers to it, in every order
\* of construction, failure and destruction.  The decode cache is the exception,
\* against the comment of its class: its view of the binary is destroyed in the
\* destructor's body, the cache itself after it.  It is then all that is left of the
\* session, and its implicit destructor reads nothing through the pointer.
DependenciesHeld ==
  /\ \A part \in live \ {"decode"} : Needs[part] \subseteq live
  /\ "decode" \in live =>
       \/ Needs["decode"] \subseteq live
       \/ pc \in {"drop", "close"} /\ live = {"decode"}

\* Nothing the command created is left at its end, whatever failed on the way.
NothingLeaked ==
  pc = "done" => live = {} /\ \A t \in Tokens : life[t] # "live"

\* A deadline that fires before the CFG is built leaves no session that claims
\* to be complete, also when the token is the session's own, which the loader
\* is not given.  An answer of a complete session that is partial either fell short
\* by itself, or was cancelled by the user, or by a deadline that passed after the
\* CFG was complete and before the watchdog was stopped: the session stays complete
\* and its token, the guard's, is spent.  A deadline on a token of the session's own
\* never cancels a query.
CompletenessExplained ==
  /\ firedAt \in {"load", "cfg"} => ~ (result = "session" /\ complete)
  /\ exit = "partial" /\ complete /\ answer # "short" =>
       \/ signals > 0
       \/ firedAt \in {"inventory", "stop"} /\ sessionToken = "global"

\* Stopping the watchdog never waits for the deadline: the command ends even
\* when the deadline never passes.
CommandEnds == <>(pc = "done")

=============================================================================
