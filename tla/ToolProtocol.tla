---------------------------- MODULE ToolProtocol ----------------------------
(***************************************************************************)
(* One model session of the benchmark harness: a job of the runner talks   *)
(* to a model through LMStudioAdapter and lets it call an analyzer through *)
(* Backend.execute (benchmarks/airece_bench/lmstudio.py, backends.py and   *)
(* the job's part of runner.py).                                           *)
(*                                                                         *)
(* The model may answer anything.  A tool request is a member of Requests: *)
(* the canonical key of name, arguments and track that the backend caches  *)
(* results by.  A text is only told apart by what validation and           *)
(* normalisation make of it, a result by the request it answers, and the   *)
(* wall clock by whether the task's time is used up.  A prompt that is too *)
(* long shows a result only by its hash and its size: the bytes of a       *)
(* prompt are not modelled, so which results it shows whole is left open.  *)
(***************************************************************************)
EXTENDS Naturals, Sequences, FiniteSets

CONSTANTS
    Requests,        \* canonical tool requests a model can make
    Baseline,        \* the request the runner itself makes in the native track
    MaxToolCalls,    \* budgets.max_tool_calls
    MaxParallel,     \* function calls considered in one response (a bound)
    Transports       \* the transports considered, of AllTransports

AllTransports == {"direct", "json", "responses"}

\* Stands for no request where the log of a session has none.
NoRequest == "none"

ASSUME ProtocolAssumption ==
    /\ Baseline \in Requests /\ NoRequest \notin Requests
    /\ IsFiniteSet(Requests)
    /\ MaxToolCalls \in Nat
    /\ MaxParallel \in Nat \ {0}
    /\ Transports \subseteq AllTransports

VARIABLES
    mode,            \* the job: transport, track and final generation
    pc,              \* where the session is
    wire,            \* the request in flight: what for, and the attempt
    expired,         \* self.timeout has passed since the session started
    turns,           \* turns / response_turns
    executed,        \* executed_calls
    forceFinal,      \* a duplicate closed the tool selection
    pending,         \* function calls of the last response still to handle
    backend,         \* Backend: _calls (0 = absent) and _call_number
    events,          \* tool_events
    transcript,      \* what the model was answered: the request whose result
                     \* it got, or NoRequest
    listed,          \* requests whose result some prompt has contained, whole
                     \* or by the hash and the size that stand for it
    compliance,      \* lengths of protocol_errors and protocol_recoveries
    answer,          \* the texts of the final generation
    outcome          \* "open", "answer" or the reason of the failure

vars == <<mode, pc, wire, expired, turns, executed, forceFinal, pending,
          backend, events, transcript, listed, compliance, answer, outcome>>

selection == <<turns, executed, forceFinal, pending, backend, events,
               transcript, listed, compliance>>

\* What _validate_direct_final and _normalize_direct_final make of a text:
\* valid and untouched, valid but rewritten, made valid, or not to be saved.
Texts == {"clean", "tidied", "wrapped", "broken"}
RawValid(text) == text \in {"clean", "tidied"}
Rewritten(text) == text \in {"tidied", "wrapped"}
FinalValid(text) == text # "broken"

-----------------------------------------------------------------------------
\* The modes the runner and validate_protocol.py start a session in: the single
\* track is direct, only the other tracks can be native, and the session
\* without a validator is the protocol check of validate_protocol.py.
Modes ==
    {m \in [transport : Transports, native : BOOLEAN,
            separate : BOOLEAN, validated : BOOLEAN] :
        /\ m.transport = "direct" => ~m.native /\ m.separate /\ m.validated
        /\ m.transport = "responses" => ~m.separate /\ m.validated
        /\ ~m.validated => ~m.native}

Json == mode.transport = "json"

\* Mutant of Closed: a duplicate does not close the selection.
ClosedByBudget == executed >= MaxToolCalls

Closed == executed >= MaxToolCalls \/ forceFinal

\* run_json_protocol is given the initial tool events; run_tools is not.
InitialContext == Json /\ mode.native

Event(request, ran, duplicate) ==
    [request |-> request, executed |-> ran, duplicate |-> duplicate]

Cached(request) == backend.calls[request] # 0

\* Backend.execute: a call always takes a number, a repeated key is answered
\* from the cache, and only a call that returned is cached.
Executed(request) ==
    [calls |-> IF Cached(request) THEN backend.calls
               ELSE [backend.calls EXCEPT ![request] = backend.number + 1],
     number |-> backend.number + 1]

\* Mutant of Raised: the call is cached before it is known to return.
RaisedCached(request) == Executed(request)

Raised(request) == [backend EXCEPT !.number = @ + 1]

Init ==
    /\ mode \in Modes
    /\ pc = "setup"
    /\ wire = [for |-> "select", attempt |-> 0]
    /\ expired = FALSE
    /\ turns = 0 /\ executed = 0 /\ forceFinal = FALSE /\ pending = 0
    /\ backend = [calls |-> [r \in Requests |-> 0], number |-> 0]
    /\ events = <<>> /\ transcript = <<>> /\ listed = {}
    /\ compliance = [errors |-> 0, recoveries |-> 0]
    /\ answer = [attempts |-> 0, raw |-> "none", final |-> "none",
                 normalized |-> FALSE]
    /\ outcome = "open"

Fail(reason) ==
    /\ pc' = "failed"
    /\ outcome' = reason

TimeMayPass == expired' \in {expired, TRUE}

-----------------------------------------------------------------------------
\* The runner opens the backend and, in the native and the single track, makes
\* the first call itself.  Time starts with the session, after this.
Setup ==
    /\ pc = "setup"
    /\ UNCHANGED <<mode, wire, expired, turns, executed, forceFinal, pending,
                   transcript, listed, compliance, answer>>
    /\ \/ /\ Fail("backend")
          /\ backend' \in {backend, Raised(Baseline)}
          /\ UNCHANGED events
       \/ /\ UNCHANGED outcome
          /\ pc' = IF mode.transport = "direct" THEN "final" ELSE "turn"
          /\ IF mode.native \/ mode.transport = "direct"
               THEN backend' = Executed(Baseline)
               ELSE UNCHANGED backend
          /\ events' = IF InitialContext \/ mode.transport = "direct"
                         THEN <<Event(Baseline, TRUE, FALSE)>> ELSE <<>>

\* Mutant of TurnLimit: one turn fewer.
TurnLimitShort == IF Json THEN MaxToolCalls + 2 ELSE MaxToolCalls + 1

TurnLimit == IF Json THEN MaxToolCalls + 3 ELSE MaxToolCalls + 2

\* The results the request of a new turn contains.  The compaction loop puts a
\* hash in the place of the oldest long ones until the payload fits; it works
\* on a copy, so the transcript keeps them.
TurnLists ==
    ({transcript[i] : i \in DOMAIN transcript} \ {NoRequest})
      \cup (IF InitialContext THEN {Baseline} ELSE {})

\* The top of the turn loop: the turn budget, the byte budgets, the wall
\* clock, then the request.  The task alone, or the texts of the model, may not
\* fit whatever is compacted.
StartTurn ==
    /\ pc = "turn"
    /\ turns' = turns + 1
    /\ UNCHANGED <<mode, expired, executed, forceFinal, pending, backend,
                   events, transcript, compliance, answer>>
    /\ \/ /\ turns' > TurnLimit
          /\ Fail("turn_budget")
          /\ UNCHANGED <<wire, listed>>
       \/ /\ turns' <= TurnLimit
          /\ \/ Fail("byte_budget")
             \/ expired /\ Fail("wall_clock")
          /\ UNCHANGED <<wire, listed>>
       \/ /\ turns' <= TurnLimit
          /\ ~expired
          /\ pc' = "wire"
          /\ wire' = [for |-> "select", attempt |-> 1]
          /\ listed' = listed \cup TurnLists
          /\ UNCHANGED outcome

\* Mutant of StartFinal: the repairs are not counted.
StartFinalUncounted ==
    /\ pc = "final"
    /\ ~expired
    /\ pc' = "wire"
    /\ wire' = [for |-> "final", attempt |-> 1]
    /\ UNCHANGED <<mode, expired, selection, answer, outcome>>

\* run_direct_final, and direct_final inside run_json_protocol: one request,
\* and a second one to repair an invalid answer.
StartFinal ==
    /\ pc = "final"
    /\ UNCHANGED <<mode, expired, selection>>
    /\ \/ Fail("byte_budget") /\ UNCHANGED <<wire, answer>>
       \/ expired /\ Fail("wall_clock") /\ UNCHANGED <<wire, answer>>
       \/ /\ ~expired
          /\ pc' = "wire"
          /\ wire' = [for |-> "final", attempt |-> 1]
          /\ answer' = [answer EXCEPT !.attempts = @ + 1]
          /\ UNCHANGED outcome

-----------------------------------------------------------------------------
\* LMStudioAdapter._request: two attempts, the second one only for an error
\* that may pass, and only if the request's time is not used up.
Deliver ==
    /\ pc = "wire"
    /\ pc' = "reply"
    /\ TimeMayPass
    /\ UNCHANGED <<mode, wire, selection, answer, outcome>>

Retry ==
    /\ pc = "wire"
    /\ wire.attempt = 1
    /\ wire' = [wire EXCEPT !.attempt = 2]
    /\ TimeMayPass
    /\ UNCHANGED <<mode, pc, selection, answer, outcome>>

RequestFails ==
    /\ pc = "wire"
    /\ Fail("request")
    /\ TimeMayPass
    /\ UNCHANGED <<mode, wire, selection, answer>>

\* A response whose status is neither completed nor incomplete.
BadStatus ==
    /\ pc = "reply"
    /\ Fail("response_status")
    /\ UNCHANGED <<mode, wire, expired, selection, answer>>

-----------------------------------------------------------------------------
\* direct_final: with separate generation the text is only a draft; otherwise
\* it is the answer, normalised without being counted as a normalisation.
Conclude ==
    IF mode.separate
      THEN pc' = "final" /\ UNCHANGED <<answer, outcome>>
      ELSE \E text \in Texts :
             /\ pc' = "done"
             /\ outcome' = "answer"
             /\ answer' = [answer EXCEPT !.raw = text, !.final = text]

SelectReply == pc = "reply" /\ wire.for = "select"

\* Non-empty text outside the protocol, and anything that is not a final once
\* the selection is closed, is taken as the final answer.
TakeAsFinal ==
    /\ SelectReply /\ Json
    /\ compliance' = [compliance EXCEPT !.recoveries = @ + 1]
    /\ Conclude
    /\ UNCHANGED <<mode, wire, expired, turns, executed, forceFinal, pending,
                   backend, events, transcript, listed>>

\* {"action":"final", ...}
Final ==
    /\ SelectReply /\ Json
    /\ Conclude
    /\ UNCHANGED <<mode, wire, expired, selection>>

\* Only an empty text is a protocol error: it costs a turn.
ProtocolError ==
    /\ SelectReply /\ Json /\ ~Closed
    /\ compliance' = [compliance EXCEPT !.errors = @ + 1]
    /\ transcript' = Append(transcript, NoRequest)
    /\ pc' = "turn"
    /\ UNCHANGED <<mode, wire, expired, turns, executed, forceFinal, pending,
                   backend, events, listed, answer, outcome>>

\* A tool request without a name or an argument object: an event, and a turn.
MalformedTool ==
    /\ SelectReply /\ Json /\ ~Closed
    /\ events' = Append(events, Event(NoRequest, FALSE, FALSE))
    /\ transcript' = Append(transcript, NoRequest)
    /\ pc' = "turn"
    /\ UNCHANGED <<mode, wire, expired, turns, executed, forceFinal, pending,
                   backend, listed, compliance, answer, outcome>>

\* A tool request that is executed; a duplicate closes the selection.
CallTool ==
    /\ SelectReply /\ Json /\ ~Closed
    /\ TimeMayPass
    /\ \E r \in Requests :
         /\ backend' = Executed(r)
         /\ executed' = executed + 1
         /\ forceFinal' = Cached(r)
         /\ events' = Append(events, Event(r, TRUE, Cached(r)))
         /\ transcript' = Append(transcript,
                                 IF Cached(r) THEN NoRequest ELSE r)
    /\ pc' = "turn"
    /\ UNCHANGED <<mode, wire, turns, pending, listed, compliance, answer,
                   outcome>>

\* The executor raises (a missing or unreadable argument, no analyzer): the
\* protocol does not catch it.
ToolRaises ==
    /\ SelectReply /\ Json /\ ~Closed
    /\ TimeMayPass
    /\ \E r \in Requests : ~Cached(r) /\ backend' = Raised(r)
    /\ Fail("executor")
    /\ UNCHANGED <<mode, wire, turns, executed, forceFinal, pending, events,
                   transcript, listed, compliance, answer>>

-----------------------------------------------------------------------------
\* run_tools: a response without function calls is the answer, and the runner
\* normalises it; one with calls has them handled in their order.
NativeAnswer ==
    /\ SelectReply /\ mode.transport = "responses"
    /\ \E text \in Texts :
         answer' = [answer EXCEPT !.raw = text, !.final = text,
                                  !.normalized = Rewritten(text)]
    /\ pc' = "done"
    /\ outcome' = "answer"
    /\ UNCHANGED <<mode, wire, expired, selection>>

NativeCalls ==
    /\ SelectReply /\ mode.transport = "responses"
    /\ pending' \in 1 .. MaxParallel
    /\ pc' = "calls"
    /\ UNCHANGED <<mode, wire, expired, turns, executed, forceFinal, backend,
                   events, transcript, listed, compliance, answer, outcome>>

CallHandled ==
    /\ pc = "calls"
    /\ pending' = pending - 1
    /\ pc' = IF pending = 1 THEN "turn" ELSE "calls"
    /\ UNCHANGED <<mode, wire, turns, forceFinal, listed, compliance, answer,
                   outcome>>

\* The budget is used up: the call is refused.
NativeRefused ==
    /\ CallHandled
    /\ executed >= MaxToolCalls
    /\ events' = Append(events, Event(NoRequest, FALSE, FALSE))
    /\ transcript' = Append(transcript, NoRequest)
    /\ UNCHANGED <<expired, executed, backend>>

\* Mutant of NativeExecuted: the budget is only tested between the turns.
NativeExecutedUnbudgeted ==
    /\ CallHandled
    /\ executed' = executed + 1
    /\ TimeMayPass
    /\ \E r \in Requests :
         /\ backend' = Executed(r)
         /\ events' = Append(events, Event(r, TRUE, Cached(r)))
         /\ transcript' = Append(transcript, r)

\* The call is executed, or its arguments are not an object, or the executor
\* raises an error that run_tools turns into a result: all count as executed.
NativeExecuted ==
    /\ CallHandled
    /\ executed < MaxToolCalls
    /\ executed' = executed + 1
    /\ TimeMayPass
    /\ \/ \E r \in Requests :
            /\ backend' = Executed(r)
            /\ events' = Append(events, Event(r, TRUE, Cached(r)))
            /\ transcript' = Append(transcript,
                                    IF Cached(r) THEN NoRequest ELSE r)
       \/ /\ \/ UNCHANGED backend
             \/ \E r \in Requests : ~Cached(r) /\ backend' = Raised(r)
          /\ events' = Append(events, Event(NoRequest, TRUE, FALSE))
          /\ transcript' = Append(transcript, NoRequest)

\* Any other exception of the executor ends the session.
NativeRaises ==
    /\ pc = "calls"
    /\ executed < MaxToolCalls
    /\ TimeMayPass
    /\ \E r \in Requests : ~Cached(r) /\ backend' = Raised(r)
    /\ Fail("executor")
    /\ UNCHANGED <<mode, wire, turns, executed, forceFinal, pending, events,
                   transcript, listed, compliance, answer>>

-----------------------------------------------------------------------------
FinalAttempts == IF mode.validated THEN 2 ELSE 1

\* The answer to a final request: the first text is kept as the raw one, each
\* is normalised, and only an invalid one is repaired, once.
FinalReply ==
    /\ pc = "reply" /\ wire.for = "final"
    /\ \E text \in Texts :
         LET last == ~mode.validated \/ FinalValid(text)
                     \/ answer.attempts = FinalAttempts
         IN /\ answer' = [answer EXCEPT
                  !.raw = IF answer.attempts = 1 THEN text ELSE @,
                  !.final = text,
                  !.normalized = @ \/ (mode.validated /\ Rewritten(text))]
            /\ pc' = IF last THEN "done" ELSE "final"
            /\ outcome' = IF last THEN "answer" ELSE outcome
    /\ UNCHANGED <<mode, wire, expired, selection>>

Stopped == pc \in {"done", "failed"}

\* A session that is over stays as it is.
Over == Stopped /\ UNCHANGED vars

Next ==
    \/ Setup
    \/ StartTurn \/ StartFinal
    \/ Deliver \/ Retry \/ RequestFails \/ BadStatus
    \/ TakeAsFinal \/ Final \/ ProtocolError
    \/ MalformedTool \/ CallTool \/ ToolRaises
    \/ NativeAnswer \/ NativeCalls
    \/ NativeRefused \/ NativeExecuted \/ NativeRaises
    \/ FinalReply
    \/ Over

Spec == Init /\ [][Next]_vars

\* The session is one thread, and everything it waits for is bounded: a request
\* by urlopen's timeout, an analyzer by subprocess.run's.
FairSpec == Spec /\ WF_vars(Next)

-----------------------------------------------------------------------------
\* Types, and the counters against the logs they count.
TypeOK ==
    /\ mode \in Modes
    /\ pc \in {"setup", "turn", "wire", "reply", "calls", "final", "done",
              "failed"}
    /\ wire \in [for : {"select", "final"}, attempt : 0 .. 2]
    /\ expired \in BOOLEAN
    /\ turns \in 0 .. MaxToolCalls + 4
    /\ executed \in 0 .. MaxToolCalls
    /\ forceFinal \in BOOLEAN
    /\ pending \in 0 .. MaxParallel
    /\ backend \in [calls : [Requests -> Nat], number : Nat]
    /\ \A r \in Requests : backend.calls[r] <= backend.number
    /\ events \in Seq([request : Requests \cup {NoRequest},
                      executed : BOOLEAN, duplicate : BOOLEAN])
    /\ transcript \in Seq(Requests \cup {NoRequest})
    /\ listed \subseteq Requests
    /\ compliance \in [errors : Nat, recoveries : 0 .. 1]
    /\ answer \in [attempts : 0 .. 2, raw : Texts \cup {"none"},
                   final : Texts \cup {"none"}, normalized : BOOLEAN]
    /\ outcome \in {"open", "answer", "backend", "turn_budget", "byte_budget",
                   "wall_clock", "request", "response_status", "executor"}

DuplicateReported == Json /\ \E i \in DOMAIN events : events[i].duplicate

\* Once the call budget is used, or a call was answered as a duplicate, no
\* further call reaches the analyzer, whatever the model asks for
\* (lmstudio.py:720, :759 and :425).
ClosedRunsNothing ==
    [][pc # "setup" /\ (executed >= MaxToolCalls \/ DuplicateReported)
         => backend' = backend]_vars

\* Turns that brought no result: refused or malformed requests and protocol
\* errors.
Fruitless ==
    compliance.errors + Cardinality({i \in DOMAIN events : ~events[i].executed})

\* A session is only ended by the turn budget after three turns without a
\* result (two refused calls with native tools): a model whose every turn
\* makes an executable request always reaches the turn in which it is asked
\* for its answer (lmstudio.py:638 and :386).
TurnBudgetNeedsWaste ==
    outcome = "turn_budget" => Fruitless >= IF Json THEN 3 ELSE 2

\* A request is only called a duplicate, which in the JSON protocol closes the
\* selection for it, when an earlier call of this session brought its result:
\* a call that failed can be made again.  In the JSON protocol a prompt has
\* listed that result by then, whole or compacted.  The one exception is the
\* runner's own call, which run_tools never passes on (backends.py:153-160,
\* lmstudio.py:654 and :759, runner.py:673; see DigestSupplied).
DuplicateHasResult ==
    \A i \in DOMAIN events : events[i].duplicate =>
        /\ \/ \E j \in 1 .. i - 1 :
                events[j] = Event(events[i].request, TRUE, FALSE)
           \/ mode.native /\ ~Json /\ events[i].request = Baseline
        /\ Json => events[i].request \in listed

\* Whatever the model, the network and the analyzer do, a session ends: with
\* an answer, or with the failure its record keeps.
SessionEnds == <>Stopped

\* "The controller supplies the target function's bounded agent digest before
\* the first tool-selection turn" (docs/benchmark-tool-instructions.md:59).
DigestSupplied ==
    mode.native /\ turns >= 1 /\ pc = "wire" => Baseline \in listed
=============================================================================
