-------------------------- MODULE ToolProtocolProofs --------------------------
(***************************************************************************)
(* Proofs about ToolProtocol, for every set of requests, every call budget *)
(* and every number of function calls in a response.                       *)
(***************************************************************************)
EXTENDS ToolProtocol, FiniteSetTheorems, TLAPS

\* The session is still choosing tools: in a turn, or in the request, the
\* response or the calls of one.
Selecting ==
    \/ pc \in {"turn", "calls"}
    \/ pc \in {"wire", "reply"} /\ wire.for = "select"

Finishing == pc \in {"wire", "reply"} /\ wire.for = "final"

\* Nothing has happened before the first turn.
Fresh ==
    /\ turns = 0 /\ executed = 0 /\ ~forceFinal
    /\ events = <<>> /\ transcript = <<>>
    /\ compliance.errors = 0
    /\ \A r \in Requests : ~Cached(r)

\* Where the session can be in which mode, and what it has counted by then.
PhaseScope ==
    /\ pc = "setup" => Fresh
    /\ pc = "setup" \/ Selecting =>
         answer.attempts = 0 /\ compliance.recoveries = 0
    /\ Selecting => mode.transport # "direct"
    /\ pc = "calls" => mode.transport = "responses" /\ pending >= 1
    /\ pc = "final" => answer.attempts < FinalAttempts
    /\ Finishing => answer.attempts \in 1 .. FinalAttempts
    /\ pc # "failed" => turns <= TurnLimit /\ outcome # "turn_budget"

\* A turn that is over executed a call, or brought nothing.
TurnsCounted ==
    /\ pc = "turn" => turns <= executed + Fruitless
    /\ Selecting => turns <= executed + Fruitless + 1
    /\ TurnBudgetNeedsWaste

\* In the JSON protocol a duplicate in the log has closed the selection.
DuplicateCloses == DuplicateReported => forceFinal

\* What the runner called itself in the native track and run_tools never logs.
Unlogged(request) == mode.native /\ ~Json /\ request = Baseline

Logged(log, request) == \E j \in DOMAIN log : log[j] = Event(request, TRUE, FALSE)

\* A call the backend has cached is in the log as the one that brought its
\* result.
CachedIsLogged ==
    \A r \in Requests : Cached(r) => Logged(events, r) \/ Unlogged(r)

DuplicateIsLogged ==
    \A i \in DOMAIN events : events[i].duplicate =>
        \/ \E j \in 1 .. i - 1 : events[j] = Event(events[i].request, TRUE, FALSE)
        \/ Unlogged(events[i].request)

\* In the JSON protocol the result of a cached call was in some prompt, or will
\* be in the next one.
CachedIsListed ==
    /\ Json /\ Selecting =>
         \A r \in Requests : Cached(r) => r \in listed \/ (pc = "turn" /\ r \in TurnLists)
    /\ Json => \A i \in DOMAIN events :
                 events[i].duplicate => events[i].request \in listed

Events == [request : Requests \cup {NoRequest}, executed : BOOLEAN,
           duplicate : BOOLEAN]

Wires == [for : {"select", "final"}, attempt : 0 .. 2]
Backends == [calls : [Requests -> Nat], number : Nat]
Compliances == [errors : Nat, recoveries : 0 .. 1]
Answers == [attempts : 0 .. 2, raw : Texts \cup {"none"},
            final : Texts \cup {"none"}, normalized : BOOLEAN]

\* The parts of the types: where the session is, what it has
\* learnt, and what it says in the end.
ControlTypes ==
    /\ mode \in Modes
    /\ pc \in {"setup", "turn", "wire", "reply", "calls", "final", "done",
              "failed"}
    /\ wire \in Wires
    /\ turns \in 0 .. MaxToolCalls + 4
    /\ executed \in 0 .. MaxToolCalls
    /\ pending \in 0 .. MaxParallel
    /\ outcome \in {"open", "answer", "backend", "turn_budget", "byte_budget",
                   "wall_clock", "request", "response_status", "executor"}

FlagTypes == expired \in BOOLEAN /\ forceFinal \in BOOLEAN

DataTypes ==
    /\ backend \in Backends
    /\ \A r \in Requests : backend.calls[r] <= backend.number
    /\ events \in Seq(Events)
    /\ transcript \in Seq(Requests \cup {NoRequest})
    /\ listed \subseteq Requests

AnswerTypes == compliance \in Compliances /\ answer \in Answers

ProtocolInv ==
    /\ TypeOK /\ PhaseScope /\ TurnsCounted /\ DuplicateCloses
    /\ CachedIsLogged /\ DuplicateIsLogged /\ CachedIsListed

-----------------------------------------------------------------------------
\* The indices of the events that were not executed: finitely many, and one
\* more after such an event.
Waste(log) == {i \in DOMAIN log : ~log[i].executed}

LEMMA WasteOfAppend ==
  ASSUME NEW S, NEW log \in Seq(S), NEW e \in S, e.executed \in BOOLEAN
  PROVE  /\ Cardinality(Waste(log)) \in Nat
         /\ e.executed =>
              Cardinality(Waste(Append(log, e))) = Cardinality(Waste(log))
         /\ ~e.executed =>
              Cardinality(Waste(Append(log, e))) = Cardinality(Waste(log)) + 1
<1> DEFINE k == Len(log) + 1
<1>1. IsFiniteSet(Waste(log)) /\ Cardinality(Waste(log)) \in Nat
  <2>1. Waste(log) \in SUBSET (1 .. Len(log)) /\ Len(log) \in Nat
    BY DEF Waste
  <2>2. IsFiniteSet(1 .. Len(log))
    BY <2>1, FS_Interval
  <2> QED
    BY <2>1, <2>2, FS_Subset, FS_CardinalityType
<1>2. DOMAIN Append(log, e) = DOMAIN log \cup {k} /\ k \notin DOMAIN log
  OBVIOUS
<1>3. Append(log, e)[k] = e /\ \A i \in DOMAIN log : Append(log, e)[i] = log[i]
  OBVIOUS
<1>4. k \notin Waste(log)
  BY <1>2 DEF Waste
<1>5. CASE e.executed
  <2>1. Waste(Append(log, e)) = Waste(log)
    BY <1>2, <1>3, <1>5 DEF Waste
  <2> QED
    BY <1>1, <1>5, <2>1
<1>6. CASE ~e.executed
  <2>1. Waste(Append(log, e)) = Waste(log) \cup {k}
    BY <1>2, <1>3, <1>6 DEF Waste
  <2> HIDE DEF k
  <2>2. Cardinality(Waste(log) \cup {k}) = Cardinality(Waste(log)) + 1
    BY <1>1, <1>4, FS_AddElement
  <2> QED
    BY <1>1, <1>6, <2>1, <2>2
<1> QED
  BY <1>5, <1>6

\* What the number of turns without a result is, and what an event and a
\* protocol error add to it.
LEMMA FruitlessSteps ==
  ASSUME TypeOK
  PROVE  /\ Fruitless \in Nat
         /\ UNCHANGED events /\ compliance'.errors = compliance.errors =>
              Fruitless' = Fruitless
         /\ UNCHANGED events /\ compliance'.errors = compliance.errors + 1 =>
              Fruitless' = Fruitless + 1
         /\ \A r \in Requests \cup {NoRequest}, dup \in BOOLEAN :
              UNCHANGED compliance /\ events' = Append(events, Event(r, TRUE, dup)) =>
                Fruitless' = Fruitless
         /\ \A r \in Requests \cup {NoRequest}, dup \in BOOLEAN :
              UNCHANGED compliance /\ events' = Append(events, Event(r, FALSE, dup)) =>
                Fruitless' = Fruitless + 1
<1> DEFINE W == Cardinality(Waste(events))
<1>1. events \in Seq(Events) /\ compliance.errors \in Nat
  BY DEF TypeOK, Events
<1>2. W \in Nat
  <2>1. Event(NoRequest, TRUE, TRUE) \in Events /\ Event(NoRequest, TRUE, TRUE).executed
    BY DEF Event, Events
  <2> QED
    BY <1>1, <2>1, WasteOfAppend
<1>3. ASSUME NEW r \in Requests \cup {NoRequest}, NEW dup \in BOOLEAN
      PROVE  /\ events' = Append(events, Event(r, TRUE, dup)) => W' = W
             /\ events' = Append(events, Event(r, FALSE, dup)) => W' = W + 1
  <2>1. /\ Event(r, TRUE, dup) \in Events /\ Event(r, TRUE, dup).executed = TRUE
        /\ Event(r, FALSE, dup) \in Events /\ Event(r, FALSE, dup).executed = FALSE
    BY DEF Event, Events
  <2>2. Cardinality(Waste(Append(events, Event(r, TRUE, dup)))) = W
    BY <1>1, <2>1, WasteOfAppend
  <2>3. Cardinality(Waste(Append(events, Event(r, FALSE, dup)))) = W + 1
    BY <1>1, <2>1, WasteOfAppend
  <2> QED
    BY <2>2, <2>3
<1>4. Fruitless = compliance.errors + W /\ Fruitless' = compliance'.errors + W'
  BY DEF Fruitless, Waste
<1>5. UNCHANGED events => W' = W
  OBVIOUS
<1>6. UNCHANGED compliance => compliance'.errors = compliance.errors
  OBVIOUS
<1> HIDE DEF W
<1>7. Fruitless \in Nat
  BY <1>1, <1>2, <1>4
<1>8. UNCHANGED events =>
        /\ compliance'.errors = compliance.errors => Fruitless' = Fruitless
        /\ compliance'.errors = compliance.errors + 1 => Fruitless' = Fruitless + 1
  BY <1>1, <1>2, <1>4, <1>5
<1>9. ASSUME NEW r \in Requests \cup {NoRequest}, NEW dup \in BOOLEAN, UNCHANGED compliance
      PROVE  /\ events' = Append(events, Event(r, TRUE, dup)) => Fruitless' = Fruitless
             /\ events' = Append(events, Event(r, FALSE, dup)) => Fruitless' = Fruitless + 1
  <2>1. events' = Append(events, Event(r, TRUE, dup)) => W' = W
    BY <1>3
  <2>2. events' = Append(events, Event(r, FALSE, dup)) => W' = W + 1
    BY <1>3
  <2>3. compliance'.errors = compliance.errors
    BY <1>6, <1>9
  <2>4. (W' = W => Fruitless' = Fruitless) /\ (W' = W + 1 => Fruitless' = Fruitless + 1)
    BY <1>1, <1>2, <1>4, <2>3
  <2> QED
    BY <2>1, <2>2, <2>4, Zenon
<1> QED
  BY <1>7, <1>8, <1>9, Zenon

-----------------------------------------------------------------------------
\* The invariant holds when the runner has chosen the mode.
LEMMA InitProtocolInv == Init => ProtocolInv
<1> SUFFICES ASSUME Init PROVE ProtocolInv
  OBVIOUS
<1>1. TypeOK
  <2>1. backend \in [calls : [Requests -> Nat], number : Nat]
        /\ \A r \in Requests : backend.calls[r] <= backend.number
    BY DEF Init
  <2>2. wire \in [for : {"select", "final"}, attempt : 0 .. 2]
        /\ compliance \in [errors : Nat, recoveries : 0 .. 1]
        /\ answer \in [attempts : 0 .. 2, raw : Texts \cup {"none"},
                       final : Texts \cup {"none"}, normalized : BOOLEAN]
    BY DEF Init
  <2>3. turns \in 0 .. MaxToolCalls + 4 /\ executed \in 0 .. MaxToolCalls
        /\ pending \in 0 .. MaxParallel
    BY ProtocolAssumption DEF Init, ProtocolAssumption
  <2>4. events = <<>> /\ transcript = <<>> /\ listed = {}
        /\ expired \in BOOLEAN /\ forceFinal \in BOOLEAN
        /\ mode \in Modes /\ pc = "setup" /\ outcome = "open"
    BY DEF Init
  <2> QED
    BY <2>1, <2>2, <2>3, <2>4 DEF TypeOK
<1>2. Fresh
  BY DEF Init, Fresh, Cached
<1>3. PhaseScope
  BY <1>2, ProtocolAssumption
  DEF Init, PhaseScope, Selecting, Finishing, TurnLimit, ProtocolAssumption
<1>4. TurnsCounted
  BY DEF Init, TurnsCounted, Selecting, TurnBudgetNeedsWaste
<1>5. DuplicateCloses /\ CachedIsListed
  BY DEF Init, DuplicateCloses, DuplicateReported, CachedIsListed, Selecting
<1>6. CachedIsLogged /\ DuplicateIsLogged
  <2>1. \A r \in Requests : ~Cached(r)
    BY <1>2 DEF Fresh
  <2>2. DOMAIN events = {}
    BY DEF Init
  <2> QED
    BY <2>1, <2>2, Zenon DEF CachedIsLogged, DuplicateIsLogged
<1> QED
  BY <1>1, <1>3, <1>4, <1>5, <1>6 DEF ProtocolInv

LEMMA TypeParts == TypeOK <=> ControlTypes /\ FlagTypes /\ DataTypes /\ AnswerTypes
BY Zenon
   DEF TypeOK, ControlTypes, FlagTypes, DataTypes, AnswerTypes, Events, Wires,
       Backends, Compliances, Answers

\* What Backend.execute does to its cache keeps the backend's types.
LEMMA BackendTypes ==
  ASSUME DataTypes
  PROVE  /\ \A r \in Requests :
              /\ Executed(r) \in Backends
              /\ \A q \in Requests : Executed(r).calls[q] <= Executed(r).number
         /\ \A r \in Requests :
              /\ Raised(r) \in Backends
              /\ \A q \in Requests : Raised(r).calls[q] <= Raised(r).number
              /\ Raised(r).calls = backend.calls
<1>1. /\ backend \in [calls : [Requests -> Nat], number : Nat]
      /\ \A r \in Requests : backend.calls[r] <= backend.number
  BY DEF DataTypes, Backends
<1>2. ASSUME NEW r \in Requests
      PROVE  /\ Executed(r) \in [calls : [Requests -> Nat], number : Nat]
             /\ \A q \in Requests : Executed(r).calls[q] <= Executed(r).number
  BY <1>1 DEF Executed
<1>3. \A r : Raised(r) = [calls |-> backend.calls, number |-> backend.number + 1]
  BY <1>1 DEF Raised
<1>4. \A r : Raised(r) \in Backends /\ \A q \in Requests : Raised(r).calls[q] <= Raised(r).number
  BY <1>1, <1>3 DEF Backends
<1> QED
  BY <1>2, <1>3, <1>4 DEF Backends

\* Every request, response, call and retry keeps the types of the control state.
LEMMA StepControlTypes == ProtocolInv /\ [Next]_vars => ControlTypes'
<1> SUFFICES ASSUME ProtocolInv, [Next]_vars PROVE ControlTypes'
  OBVIOUS
<1>0. /\ ControlTypes
      /\ MaxToolCalls \in Nat /\ MaxParallel \in Nat \ {0}
  BY TypeParts, ProtocolAssumption DEF ProtocolInv, ProtocolAssumption
<1> USE <1>0 DEF ControlTypes, selection
<1>1. CASE Setup
  BY <1>1 DEF Setup, Fail
<1>2. CASE StartTurn
  <2>1. turns <= MaxToolCalls + 3
    <3>1. pc = "turn"
      BY <1>2 DEF StartTurn
    <3>2. turns <= TurnLimit
      BY <3>1 DEF ProtocolInv, PhaseScope
    <3> QED
      BY <3>2 DEF TurnLimit
  <2>2. /\ turns' = turns + 1
        /\ UNCHANGED <<mode, executed, pending>>
        /\ pc' \in {"failed", "wire"}
        /\ outcome' \in {outcome, "turn_budget", "byte_budget", "wall_clock"}
    BY <1>2, Zenon DEF StartTurn, Fail
  <2>3. wire' = wire \/ wire' = [for |-> "select", attempt |-> 1]
    BY <1>2, Zenon DEF StartTurn, Fail
  <2>4. wire' \in Wires
    BY <2>3 DEF Wires
  <2> QED
    BY <2>1, <2>2, <2>4
<1>3. CASE StartFinal
  <2>1. wire' = wire \/ wire' = [for |-> "final", attempt |-> 1]
    BY <1>3, Zenon DEF StartFinal, Fail
  <2>2. wire' \in Wires
    BY <2>1 DEF Wires
  <2> QED
    BY <1>3, <2>2 DEF StartFinal, Fail
<1>4. CASE Deliver
  BY <1>4 DEF Deliver, TimeMayPass
<1>5. CASE Retry
  <2>1. wire' = [wire EXCEPT !.attempt = 2]
    BY <1>5 DEF Retry
  <2>2. wire' \in Wires
    BY <2>1 DEF Wires
  <2> QED
    BY <1>5, <2>2 DEF Retry, TimeMayPass
<1>6. CASE RequestFails
  BY <1>6 DEF RequestFails, TimeMayPass, Fail
<1>7. CASE BadStatus
  BY <1>7 DEF BadStatus, Fail
<1>8. CASE TakeAsFinal
  BY <1>8 DEF TakeAsFinal, SelectReply, Conclude
<1>9. CASE Final
  BY <1>9 DEF Final, SelectReply, Conclude
<1>10. CASE ProtocolError
  BY <1>10 DEF ProtocolError, SelectReply
<1>11. CASE MalformedTool
  BY <1>11 DEF MalformedTool, SelectReply
<1>12. CASE CallTool
  <2>1. /\ executed' = executed + 1 /\ ~(executed >= MaxToolCalls)
        /\ pc' = "turn" /\ UNCHANGED <<mode, wire, turns, pending, outcome>>
    BY <1>12, Zenon DEF CallTool, Closed
  <2> QED
    BY <2>1
<1>13. CASE ToolRaises
  BY <1>13 DEF ToolRaises, SelectReply, TimeMayPass, Fail
<1>14. CASE NativeAnswer
  BY <1>14 DEF NativeAnswer, SelectReply
<1>15. CASE NativeCalls
  BY <1>15 DEF NativeCalls, SelectReply
<1>16. CASE NativeRefused
  <2>1. pc = "calls"
    BY <1>16 DEF NativeRefused, CallHandled
  <2>2. pending >= 1
    BY <2>1 DEF ProtocolInv, PhaseScope
  <2>3. /\ pending' = pending - 1 /\ pc' \in {"turn", "calls"}
        /\ UNCHANGED <<mode, wire, turns, executed, outcome>>
    BY <1>16, Zenon DEF NativeRefused, CallHandled
  <2> QED
    BY <2>2, <2>3
<1>17. CASE NativeExecuted
  <2>1. pc = "calls"
    BY <1>17 DEF NativeExecuted, CallHandled
  <2>2. pending >= 1
    BY <2>1 DEF ProtocolInv, PhaseScope
  <2>3. /\ pending' = pending - 1 /\ pc' \in {"turn", "calls"}
        /\ executed < MaxToolCalls /\ executed' = executed + 1
        /\ UNCHANGED <<mode, wire, turns, outcome>>
    BY <1>17, Zenon DEF NativeExecuted, CallHandled
  <2> QED
    BY <2>2, <2>3
<1>18. CASE NativeRaises
  BY <1>18 DEF NativeRaises, TimeMayPass, Fail
<1>19. CASE FinalReply
  BY <1>19 DEF FinalReply
<1>20. CASE Over
  BY <1>20 DEF Over, vars
<1>21. CASE UNCHANGED vars
  BY <1>21 DEF vars
<1> QED
  BY <1>1, <1>2, <1>3, <1>4, <1>5, <1>6, <1>7, <1>8, <1>9, <1>10, <1>11,
     <1>12, <1>13, <1>14, <1>15, <1>16, <1>17, <1>18, <1>19, <1>20,
     <1>21 DEF Next

LEMMA StepFlagTypes == ProtocolInv /\ [Next]_vars => FlagTypes'
<1> SUFFICES ASSUME ProtocolInv, [Next]_vars PROVE FlagTypes'
  OBVIOUS
<1>0. FlagTypes
  BY TypeParts DEF ProtocolInv
<1> USE <1>0 DEF FlagTypes, selection
<1>1. CASE Setup
  BY <1>1, Zenon DEF Setup, Fail
<1>2. CASE StartTurn
  BY <1>2, Zenon DEF StartTurn, Fail
<1>3. CASE StartFinal
  BY <1>3, Zenon DEF StartFinal, Fail
<1>4. CASE Deliver
  BY <1>4, Zenon DEF Deliver, TimeMayPass
<1>5. CASE Retry
  BY <1>5, Zenon DEF Retry, TimeMayPass
<1>6. CASE RequestFails
  BY <1>6, Zenon DEF RequestFails, TimeMayPass, Fail
<1>7. CASE BadStatus
  BY <1>7, Zenon DEF BadStatus, Fail
<1>8. CASE TakeAsFinal
  BY <1>8, Zenon DEF TakeAsFinal, SelectReply, Conclude
<1>9. CASE Final
  BY <1>9, Zenon DEF Final, SelectReply, Conclude
<1>10. CASE ProtocolError
  BY <1>10, Zenon DEF ProtocolError, SelectReply
<1>11. CASE MalformedTool
  BY <1>11, Zenon DEF MalformedTool, SelectReply
<1>12. CASE CallTool
  BY <1>12, Zenon DEF CallTool, TimeMayPass, Cached
<1>13. CASE ToolRaises
  BY <1>13, Zenon DEF ToolRaises, SelectReply, TimeMayPass, Fail
<1>14. CASE NativeAnswer
  BY <1>14, Zenon DEF NativeAnswer, SelectReply
<1>15. CASE NativeCalls
  BY <1>15, Zenon DEF NativeCalls, SelectReply
<1>16. CASE NativeRefused
  BY <1>16, Zenon DEF NativeRefused, CallHandled
<1>17. CASE NativeExecuted
  BY <1>17, Zenon DEF NativeExecuted, CallHandled, TimeMayPass
<1>18. CASE NativeRaises
  BY <1>18, Zenon DEF NativeRaises, TimeMayPass, Fail
<1>19. CASE FinalReply
  BY <1>19, Zenon DEF FinalReply
<1>20. CASE Over
  BY <1>20, Zenon DEF Over, vars
<1>21. CASE UNCHANGED vars
  BY <1>21, Zenon DEF vars
<1> QED
  BY <1>1, <1>2, <1>3, <1>4, <1>5, <1>6, <1>7, <1>8, <1>9, <1>10, <1>11,
     <1>12, <1>13, <1>14, <1>15, <1>16, <1>17, <1>18, <1>19, <1>20,
     <1>21 DEF Next

\* ... of what was asked and answered ...
LEMMA StepDataTypes == ProtocolInv /\ [Next]_vars => DataTypes'
<1> SUFFICES ASSUME ProtocolInv, [Next]_vars PROVE DataTypes'
  OBVIOUS
<1>0. DataTypes
  BY TypeParts DEF ProtocolInv
<1>a. /\ <<>> \in Seq(Events) /\ <<>> \in Seq(Requests \cup {NoRequest})
       /\ \A e \in Events : <<e>> \in Seq(Events) /\ Append(events, e) \in Seq(Events)
       /\ \A r \in Requests \cup {NoRequest} :
            Append(transcript, r) \in Seq(Requests \cup {NoRequest})
  BY <1>0 DEF DataTypes
<1>c. \A r \in Requests \cup {NoRequest}, ran, dup \in BOOLEAN : Event(r, ran, dup) \in Events
  BY DEF Event, Events
<1>b. Baseline \in Requests
  BY ProtocolAssumption DEF ProtocolAssumption
<1> USE <1>0, <1>a, <1>b, <1>c DEF DataTypes, selection
<1>1. CASE Setup
  <2>1. backend' \in {backend, Raised(Baseline), Executed(Baseline)}
    BY <1>1 DEF Setup
  <2>2. events' \in {events, <<>>, <<Event(Baseline, TRUE, FALSE)>>}
    BY <1>1, Zenon DEF Setup
  <2>3. UNCHANGED <<transcript, listed>>
    BY <1>1 DEF Setup
  <2> QED
    BY <2>1, <2>2, <2>3, BackendTypes
<1>2. CASE StartTurn
  <2>1. TurnLists \subseteq Requests
    BY DEF TurnLists
  <2> QED
    BY <1>2, <2>1 DEF StartTurn
<1>3. CASE StartFinal
  BY <1>3 DEF StartFinal, Fail
<1>4. CASE Deliver
  BY <1>4 DEF Deliver, TimeMayPass
<1>5. CASE Retry
  BY <1>5 DEF Retry, TimeMayPass
<1>6. CASE RequestFails
  BY <1>6 DEF RequestFails, TimeMayPass, Fail
<1>7. CASE BadStatus
  BY <1>7 DEF BadStatus, Fail
<1>8. CASE TakeAsFinal
  BY <1>8 DEF TakeAsFinal, SelectReply, Conclude
<1>9. CASE Final
  BY <1>9 DEF Final, SelectReply, Conclude
<1>10. CASE ProtocolError
  BY <1>10 DEF ProtocolError, SelectReply
<1>11. CASE MalformedTool
  BY <1>11 DEF MalformedTool, SelectReply
<1>12. CASE CallTool
  <2>1. PICK r \in Requests :
          /\ backend' = Executed(r)
          /\ events' = Append(events, Event(r, TRUE, Cached(r)))
          /\ transcript' = Append(transcript, IF Cached(r) THEN NoRequest ELSE r)
    BY <1>12 DEF CallTool
  <2>2. Cached(r) \in BOOLEAN
    BY Zenon DEF Cached
  <2>3. events' \in Seq(Events)
    BY <2>1, <2>2, Zenon
  <2>4. transcript' \in Seq(Requests \cup {NoRequest}) /\ listed' = listed
    BY <1>12, <2>1 DEF CallTool
  <2> QED
    BY <2>1, <2>3, <2>4, BackendTypes
<1>13. CASE ToolRaises
  BY <1>13, BackendTypes DEF ToolRaises
<1>14. CASE NativeAnswer
  BY <1>14 DEF NativeAnswer, SelectReply
<1>15. CASE NativeCalls
  BY <1>15 DEF NativeCalls, SelectReply
<1>16. CASE NativeRefused
  BY <1>16 DEF NativeRefused, CallHandled
<1>17. CASE NativeExecuted
  <2>1. listed' = listed
    BY <1>17 DEF NativeExecuted, CallHandled
  <2>2. CASE \E r \in Requests :
            /\ backend' = Executed(r)
            /\ events' = Append(events, Event(r, TRUE, Cached(r)))
            /\ transcript' = Append(transcript,
                                    IF Cached(r) THEN NoRequest ELSE r)
    <3>1. PICK r \in Requests :
            /\ backend' = Executed(r)
            /\ events' = Append(events, Event(r, TRUE, Cached(r)))
            /\ transcript' = Append(transcript, IF Cached(r) THEN NoRequest ELSE r)
      BY <2>2
    <3>2. Cached(r) \in BOOLEAN
      BY Zenon DEF Cached
    <3>3. events' \in Seq(Events)
      BY <3>1, <3>2, Zenon
    <3>4. transcript' \in Seq(Requests \cup {NoRequest})
      BY <3>1
    <3> QED
      BY <2>1, <3>1, <3>3, <3>4, BackendTypes
  <2>3. CASE /\ \/ UNCHANGED backend
                \/ \E r \in Requests : ~Cached(r) /\ backend' = Raised(r)
             /\ events' = Append(events, Event(NoRequest, TRUE, FALSE))
             /\ transcript' = Append(transcript, NoRequest)
    <3>1. events' \in Seq(Events) /\ transcript' \in Seq(Requests \cup {NoRequest})
      BY <2>3
    <3> QED
      BY <2>1, <2>3, <3>1, BackendTypes
  <2> QED
    BY <1>17, <2>2, <2>3 DEF NativeExecuted
<1>18. CASE NativeRaises
  BY <1>18, BackendTypes DEF NativeRaises
<1>19. CASE FinalReply
  BY <1>19 DEF FinalReply
<1>20. CASE Over
  BY <1>20 DEF Over, vars
<1>21. CASE UNCHANGED vars
  BY <1>21 DEF vars
<1> QED
  BY <1>1, <1>2, <1>3, <1>4, <1>5, <1>6, <1>7, <1>8, <1>9, <1>10, <1>11,
     <1>12, <1>13, <1>14, <1>15, <1>16, <1>17, <1>18, <1>19, <1>20,
     <1>21 DEF Next

\* ... and of the answer.
LEMMA StepAnswerTypes == ProtocolInv /\ [Next]_vars => AnswerTypes'
<1> SUFFICES ASSUME ProtocolInv, [Next]_vars PROVE AnswerTypes'
  OBVIOUS
<1>0. AnswerTypes /\ PhaseScope
  BY TypeParts DEF ProtocolInv
<1> USE <1>0 DEF AnswerTypes, selection
<1>1. CASE Setup
  BY <1>1 DEF Setup, Fail
<1>2. CASE StartTurn
  BY <1>2 DEF StartTurn, Fail
<1>3. CASE StartFinal
  <2>1. pc = "final" /\ UNCHANGED compliance
    BY <1>3 DEF StartFinal
  <2>2. answer' = answer \/ answer' = [answer EXCEPT !.attempts = @ + 1]
    BY <1>3, Zenon DEF StartFinal
  <2>3. answer.attempts < FinalAttempts
    BY <2>1, Zenon DEF PhaseScope
  <2>4. FinalAttempts \in {1, 2}
    BY Zenon DEF FinalAttempts
  <2> QED
    BY <2>1, <2>2, <2>3, <2>4 DEF Answers
<1>4. CASE Deliver
  BY <1>4 DEF Deliver, TimeMayPass
<1>5. CASE Retry
  BY <1>5 DEF Retry, TimeMayPass
<1>6. CASE RequestFails
  BY <1>6 DEF RequestFails, TimeMayPass, Fail
<1>7. CASE BadStatus
  BY <1>7 DEF BadStatus, Fail
<1>8. CASE TakeAsFinal
  <2>1. compliance.recoveries = 0
    BY <1>8 DEF TakeAsFinal, SelectReply, PhaseScope, Selecting
  <2>2. compliance' \in Compliances
    BY <1>8, <2>1 DEF TakeAsFinal, Compliances
  <2>3. answer' = answer \/ \E text \in Texts : answer' = [answer EXCEPT !.raw = text, !.final = text]
    BY <1>8, Zenon DEF TakeAsFinal, Conclude
  <2>4. answer' \in Answers
    BY <2>3 DEF Answers
  <2> QED
    BY <2>2, <2>4
<1>9. CASE Final
  <2>1. UNCHANGED compliance
    BY <1>9 DEF Final
  <2>2. answer' = answer \/ \E text \in Texts : answer' = [answer EXCEPT !.raw = text, !.final = text]
    BY <1>9, Zenon DEF Final, Conclude
  <2>3. answer' \in Answers
    BY <2>2 DEF Answers
  <2> QED
    BY <2>1, <2>3
<1>10. CASE ProtocolError
  <2>1. compliance' \in Compliances
    BY <1>10 DEF ProtocolError, Compliances
  <2> QED
    BY <1>10, <2>1 DEF ProtocolError
<1>11. CASE MalformedTool
  BY <1>11 DEF MalformedTool, SelectReply
<1>12. CASE CallTool
  BY <1>12 DEF CallTool, SelectReply, TimeMayPass
<1>13. CASE ToolRaises
  BY <1>13 DEF ToolRaises, SelectReply, TimeMayPass, Fail
<1>14. CASE NativeAnswer
  <2>1. PICK text \in Texts :
          answer' = [answer EXCEPT !.raw = text, !.final = text,
                                   !.normalized = Rewritten(text)]
    BY <1>14 DEF NativeAnswer
  <2>2. Rewritten(text) \in BOOLEAN
    BY DEF Rewritten
  <2>3. answer' \in Answers
    BY <2>1, <2>2 DEF Answers
  <2> QED
    BY <1>14, <2>3 DEF NativeAnswer
<1>15. CASE NativeCalls
  BY <1>15 DEF NativeCalls, SelectReply
<1>16. CASE NativeRefused
  BY <1>16 DEF NativeRefused, CallHandled
<1>17. CASE NativeExecuted
  BY <1>17 DEF NativeExecuted, CallHandled, TimeMayPass
<1>18. CASE NativeRaises
  BY <1>18 DEF NativeRaises, TimeMayPass, Fail
<1>19. CASE FinalReply
  <2>1. PICK text \in Texts, flag \in BOOLEAN, first \in Texts \cup {"none"} :
          answer' = [answer EXCEPT !.raw = first, !.final = text, !.normalized = flag]
    BY <1>19 DEF FinalReply, Answers
  <2>2. answer' \in Answers
    BY <2>1 DEF Answers
  <2> QED
    BY <1>19, <2>2 DEF FinalReply
<1>20. CASE Over
  BY <1>20 DEF Over, vars
<1>21. CASE UNCHANGED vars
  BY <1>21 DEF vars
<1> QED
  BY <1>1, <1>2, <1>3, <1>4, <1>5, <1>6, <1>7, <1>8, <1>9, <1>10, <1>11,
     <1>12, <1>13, <1>14, <1>15, <1>16, <1>17, <1>18, <1>19, <1>20,
     <1>21 DEF Next

LEMMA TypesNext == ProtocolInv /\ [Next]_vars => TypeOK'
BY TypeParts, StepControlTypes, StepFlagTypes, StepDataTypes, StepAnswerTypes, PTL
DEF TypeOK, ControlTypes, FlagTypes, DataTypes, AnswerTypes, Events, Wires,
    Backends, Compliances, Answers

\* A session's mode is chosen once.
LEMMA ModeConstant == [Next]_vars => mode' = mode
BY Zenon
DEF Next, vars, Setup, StartTurn, StartFinal, Deliver, Retry, RequestFails, BadStatus,
    TakeAsFinal, Final, ProtocolError, MalformedTool, CallTool, ToolRaises, NativeAnswer,
    NativeCalls, NativeRefused, NativeExecuted, CallHandled, NativeRaises, FinalReply,
    Over

\* The phases follow one another, each with what it has counted.
LEMMA StepPhaseScope == ProtocolInv /\ [Next]_vars => PhaseScope'
<1> SUFFICES ASSUME ProtocolInv, [Next]_vars PROVE PhaseScope'
  OBVIOUS
<1>0. PhaseScope /\ TurnLimit' = TurnLimit /\ FinalAttempts' = FinalAttempts /\ mode' = mode
  BY ModeConstant DEF ProtocolInv, TurnLimit, FinalAttempts, Json
<1> USE <1>0 DEF PhaseScope, Selecting, Finishing, selection
<1>1. CASE Setup
  <2>1. Fresh /\ turns' = turns /\ UNCHANGED <<answer, compliance, wire>>
    BY <1>1 DEF Setup
  <2>2. \/ pc' = "failed"
        \/ pc' = (IF mode.transport = "direct" THEN "final" ELSE "turn") /\ outcome' = outcome
    BY <1>1, Zenon DEF Setup, Fail
  <2>3. FinalAttempts \in {1, 2}
    BY DEF FinalAttempts
  <2> QED
    BY <1>1, <2>1, <2>2, <2>3 DEF Setup
<1>2. CASE StartTurn
  BY <1>2 DEF StartTurn, Fail
<1>3. CASE StartFinal
  <2>1. \/ pc' = "failed"
        \/ /\ pc' = "wire" /\ wire' = [for |-> "final", attempt |-> 1] /\ outcome' = outcome
           /\ answer' = [answer EXCEPT !.attempts = @ + 1]
    BY <1>3, Zenon DEF StartFinal, Fail
  <2>2. pc = "final" /\ turns' = turns
    BY <1>3 DEF StartFinal
  <2>3. FinalAttempts \in {1, 2} /\ answer \in Answers
    BY TypeParts DEF FinalAttempts, ProtocolInv, AnswerTypes
  <2> QED
    BY <2>1, <2>2, <2>3 DEF Answers
<1>4. CASE Deliver
  BY <1>4 DEF Deliver, TimeMayPass
<1>5. CASE Retry
  BY <1>5 DEF Retry, TimeMayPass
<1>6. CASE RequestFails
  BY <1>6 DEF RequestFails, TimeMayPass, Fail
<1>7. CASE BadStatus
  BY <1>7 DEF BadStatus, Fail
<1>8. CASE TakeAsFinal
  <2>1. \/ pc' = "final" /\ answer' = answer /\ outcome' = outcome
        \/ pc' = "done" /\ outcome' = "answer"
    BY <1>8, Zenon DEF TakeAsFinal, Conclude
  <2>2. pc = "reply" /\ wire.for = "select" /\ turns' = turns
    BY <1>8 DEF TakeAsFinal, SelectReply
  <2>3. FinalAttempts \in {1, 2}
    BY DEF FinalAttempts
  <2> QED
    BY <2>1, <2>2, <2>3
<1>9. CASE Final
  <2>1. \/ pc' = "final" /\ answer' = answer /\ outcome' = outcome
        \/ pc' = "done" /\ outcome' = "answer"
    BY <1>9, Zenon DEF Final, Conclude
  <2>2. pc = "reply" /\ wire.for = "select" /\ turns' = turns
    BY <1>9 DEF Final, SelectReply
  <2>3. FinalAttempts \in {1, 2}
    BY DEF FinalAttempts
  <2> QED
    BY <2>1, <2>2, <2>3
<1>10. CASE ProtocolError
  BY <1>10 DEF ProtocolError, SelectReply
<1>11. CASE MalformedTool
  BY <1>11 DEF MalformedTool, SelectReply
<1>12. CASE CallTool
  BY <1>12 DEF CallTool, SelectReply, TimeMayPass
<1>13. CASE ToolRaises
  BY <1>13 DEF ToolRaises, SelectReply, TimeMayPass, Fail
<1>14. CASE NativeAnswer
  BY <1>14 DEF NativeAnswer, SelectReply
<1>15. CASE NativeCalls
  BY <1>15 DEF NativeCalls, SelectReply
<1>16. CASE NativeRefused
  <2>1. pc' \in {"turn", "calls"} /\ pc = "calls" /\ (pc' = "calls" => pending # 1)
    BY <1>16, Zenon DEF NativeRefused, CallHandled
  <2>2. pending' = pending - 1 /\ UNCHANGED <<turns, answer, compliance, outcome>>
    BY <1>16, Zenon DEF NativeRefused, CallHandled
  <2>3. pending \in Nat
    BY TypeParts, ProtocolAssumption DEF ProtocolInv, ControlTypes, ProtocolAssumption
  <2> QED
    BY <2>1, <2>2, <2>3
<1>17. CASE NativeExecuted
  <2>1. pc' \in {"turn", "calls"} /\ pc = "calls" /\ (pc' = "calls" => pending # 1)
    BY <1>17, Zenon DEF NativeExecuted, CallHandled
  <2>2. pending' = pending - 1 /\ UNCHANGED <<turns, answer, compliance, outcome>>
    BY <1>17, Zenon DEF NativeExecuted, CallHandled
  <2>3. pending \in Nat
    BY TypeParts, ProtocolAssumption DEF ProtocolInv, ControlTypes, ProtocolAssumption
  <2> QED
    BY <2>1, <2>2, <2>3
<1>18. CASE NativeRaises
  BY <1>18 DEF NativeRaises, TimeMayPass, Fail
<1>19. CASE FinalReply
  <2>1. \/ pc' = "done" /\ outcome' = "answer"
        \/ /\ pc' = "final" /\ outcome' = outcome /\ answer.attempts # FinalAttempts
    BY <1>19, Zenon DEF FinalReply
  <2>2. Finishing /\ turns' = turns
    BY <1>19 DEF FinalReply
  <2>3. answer'.attempts = answer.attempts /\ FinalAttempts \in {1, 2}
    <3>1. answer \in Answers
      BY TypeParts DEF ProtocolInv, AnswerTypes
    <3>2. PICK text \in Texts :
            answer' = [answer EXCEPT
                !.raw = IF answer.attempts = 1 THEN text ELSE @,
                !.final = text,
                !.normalized = @ \/ (mode.validated /\ Rewritten(text))]
      BY <1>19, Zenon DEF FinalReply
    <3>3. answer'.attempts = answer.attempts
      BY <3>1, <3>2 DEF Answers
    <3> QED
      BY <3>3 DEF FinalAttempts
  <2> QED
    BY <2>1, <2>2, <2>3
<1>20. CASE Over
  BY <1>20 DEF Over, vars, Fresh, Cached
<1>21. CASE UNCHANGED vars
  BY <1>21 DEF vars, Fresh, Cached
<1> QED
  BY <1>1, <1>2, <1>3, <1>4, <1>5, <1>6, <1>7, <1>8, <1>9, <1>10, <1>11,
     <1>12, <1>13, <1>14, <1>15, <1>16, <1>17, <1>18, <1>19, <1>20,
     <1>21 DEF Next

\* The number of turns without a result is a number.
LEMMA FruitlessNat == TypeOK => Fruitless \in Nat
BY FruitlessSteps

LEMMA FruitlessNext == ProtocolInv /\ [Next]_vars => (Fruitless \in Nat)'
BY TypesNext, FruitlessNat, PTL

\* A turn executes a call or brings nothing, and the turn budget leaves room for
\* three turns of the second kind (two with native tools) after the last call.
LEMMA StepTurnsCounted == ProtocolInv /\ [Next]_vars => TurnsCounted'
<1> SUFFICES ASSUME ProtocolInv, [Next]_vars PROVE TurnsCounted'
  OBVIOUS
<1>0. /\ TurnsCounted
      /\ Fruitless \in Nat /\ turns \in Nat /\ executed \in Nat
      /\ MaxToolCalls \in Nat /\ executed <= MaxToolCalls
  BY TypeParts, FruitlessNat, ProtocolAssumption
  DEF ProtocolInv, ControlTypes, ProtocolAssumption
<1>m. mode' = mode /\ (Json' <=> Json)
  BY ModeConstant DEF Json
<1>p. pc # "failed" => outcome # "turn_budget"
  BY DEF ProtocolInv, PhaseScope
<1>f. /\ UNCHANGED events /\ compliance'.errors = compliance.errors =>
           Fruitless' = Fruitless
      /\ UNCHANGED events /\ compliance'.errors = compliance.errors + 1 =>
           Fruitless' = Fruitless + 1
      /\ \A r \in Requests \cup {NoRequest}, dup \in BOOLEAN :
           UNCHANGED compliance /\ events' = Append(events, Event(r, TRUE, dup)) =>
             Fruitless' = Fruitless
      /\ \A r \in Requests \cup {NoRequest}, dup \in BOOLEAN :
           UNCHANGED compliance /\ events' = Append(events, Event(r, FALSE, dup)) =>
             Fruitless' = Fruitless + 1
  BY FruitlessSteps DEF ProtocolInv
<1>u. UNCHANGED <<events, compliance>> => Fruitless' = Fruitless
  BY <1>f
<1> USE <1>0, <1>m, <1>p, <1>u DEF TurnsCounted, TurnBudgetNeedsWaste, Selecting, selection
<1>1. CASE Setup
  <2>1. Fresh /\ turns' = turns /\ executed' = executed /\ outcome' \in {outcome, "backend"}
        /\ UNCHANGED compliance /\ outcome # "turn_budget"
    BY <1>1, Zenon DEF Setup, Fail, PhaseScope, ProtocolInv
  <2>2. pc' \in {"failed", "final", "turn"}
    BY <1>1, Zenon DEF Setup, Fail
  <2>3. Fruitless' \in Nat
    BY FruitlessNext
  <2>4. turns' = 0 /\ executed' = 0
    BY <2>1 DEF Fresh
  <2>5. outcome' # "turn_budget"
    BY <2>1
  <2>6. turns' <= executed' + Fruitless' /\ turns' <= executed' + Fruitless' + 1
    <3>1. \A k \in Nat : 0 <= 0 + k /\ 0 <= 0 + k + 1
      OBVIOUS
    <3> QED
      BY <2>3, <2>4, <3>1, Zenon
  <2> QED
    BY <2>5, <2>6
<1>2. CASE StartTurn
  <2>1. pc = "turn" /\ turns' = turns + 1 /\ executed' = executed /\ Fruitless' = Fruitless
        /\ turns <= executed + Fruitless
    BY <1>2, <1>f DEF StartTurn
  <2>2. CASE turns' > TurnLimit
    <3>1. Fruitless >= IF Json THEN 3 ELSE 2
      BY <1>0, <2>1, <2>2 DEF TurnLimit
    <3>2. ~(turns' <= TurnLimit)
      BY <1>0, <2>1, <2>2 DEF TurnLimit
    <3>3. pc' = "failed"
      BY <1>2, <3>2, Zenon DEF StartTurn, Fail
    <3> QED
      BY <1>m, <2>1, <3>1, <3>3
  <2>3. CASE ~(turns' > TurnLimit)
    <3>1. pc' \in {"failed", "wire"} /\ outcome' \in {outcome, "byte_budget", "wall_clock"}
      BY <1>2, <2>3, Zenon DEF StartTurn, Fail
    <3> QED
      BY <1>m, <2>1, <3>1
  <2> QED
    BY <2>2, <2>3
<1>3. CASE StartFinal
  BY <1>3 DEF StartFinal, Fail
<1>4. CASE Deliver
  BY <1>4 DEF Deliver, TimeMayPass
<1>5. CASE Retry
  BY <1>5 DEF Retry, TimeMayPass
<1>6. CASE RequestFails
  BY <1>6 DEF RequestFails, TimeMayPass, Fail
<1>7. CASE BadStatus
  BY <1>7 DEF BadStatus, Fail
<1>8. CASE TakeAsFinal
  BY <1>8 DEF TakeAsFinal, SelectReply, Conclude
<1>9. CASE Final
  BY <1>9 DEF Final, SelectReply, Conclude
<1>10. CASE ProtocolError
  <2>1. Fruitless' = Fruitless + 1
    BY <1>10, <1>0, <1>f DEF ProtocolError, Compliances
  <2>2. Selecting /\ pc' = "turn" /\ turns' = turns /\ executed' = executed /\ outcome' = outcome
    BY <1>10 DEF ProtocolError, SelectReply
  <2> QED
    BY <1>0, <1>m, <2>1, <2>2
<1>11. CASE MalformedTool
  <2>1. Fruitless' = Fruitless + 1
    BY <1>11, <1>f, Zenon DEF MalformedTool
  <2>2. Selecting /\ pc' = "turn" /\ turns' = turns /\ executed' = executed /\ outcome' = outcome
    BY <1>11 DEF MalformedTool, SelectReply
  <2> QED
    BY <1>0, <1>m, <2>1, <2>2
<1>12. CASE CallTool
  <2>1. \E r \in Requests : events' = Append(events, Event(r, TRUE, Cached(r)))
    BY <1>12, Zenon DEF CallTool
  <2>2. \A r \in Requests : Cached(r) \in BOOLEAN
    BY Zenon DEF Cached
  <2>3. UNCHANGED compliance
    BY <1>12, Zenon DEF CallTool
  <2>4. Fruitless' = Fruitless
    BY <1>f, <2>1, <2>2, <2>3, Zenon
  <2>5. Selecting /\ pc' = "turn" /\ turns' = turns /\ executed' = executed + 1 /\ outcome' = outcome
    BY <1>12, Zenon DEF CallTool, SelectReply
  <2> QED
    BY <1>0, <1>m, <2>4, <2>5
<1>13. CASE ToolRaises
  BY <1>13 DEF ToolRaises, SelectReply, TimeMayPass, Fail
<1>14. CASE NativeAnswer
  BY <1>14 DEF NativeAnswer, SelectReply
<1>15. CASE NativeCalls
  BY <1>15 DEF NativeCalls, SelectReply
<1>16. CASE NativeRefused
  <2>1. Fruitless' = Fruitless + 1
    BY <1>16, <1>f, Zenon DEF NativeRefused, CallHandled
  <2>2. Selecting /\ pc' \in {"turn", "calls"} /\ turns' = turns /\ executed' = executed /\ outcome' = outcome
    BY <1>16, Zenon DEF NativeRefused, CallHandled
  <2> QED
    BY <1>0, <1>m, <2>1, <2>2
<1>17. CASE NativeExecuted
  <2>1. \E r \in Requests \cup {NoRequest}, dup \in BOOLEAN : events' = Append(events, Event(r, TRUE, dup))
    <3>1. \A r \in Requests : Cached(r) \in BOOLEAN
      BY Zenon DEF Cached
    <3>2. \/ \E r \in Requests : events' = Append(events, Event(r, TRUE, Cached(r)))
          \/ events' = Append(events, Event(NoRequest, TRUE, FALSE))
      BY <1>17, Zenon DEF NativeExecuted
    <3> QED
      BY <3>1, <3>2, Zenon
  <2>2. UNCHANGED compliance
    BY <1>17, Zenon DEF NativeExecuted, CallHandled
  <2>3. Fruitless' = Fruitless
    BY <1>f, <2>1, <2>2, Zenon
  <2>4. /\ Selecting /\ pc' \in {"turn", "calls"}
        /\ turns' = turns /\ executed' = executed + 1 /\ outcome' = outcome
    BY <1>17, Zenon DEF NativeExecuted, CallHandled
  <2> QED
    BY <1>0, <1>m, <2>3, <2>4
<1>18. CASE NativeRaises
  BY <1>18 DEF NativeRaises, TimeMayPass, Fail
<1>19. CASE FinalReply
  BY <1>19 DEF FinalReply
<1>20. CASE Over
  BY <1>20 DEF Over, vars
<1>21. CASE UNCHANGED vars
  BY <1>21 DEF vars
<1> QED
  BY <1>1, <1>2, <1>3, <1>4, <1>5, <1>6, <1>7, <1>8, <1>9, <1>10, <1>11,
     <1>12, <1>13, <1>14, <1>15, <1>16, <1>17, <1>18, <1>19, <1>20,
     <1>21 DEF Next

\* A duplicate is only logged by the call that closes the selection, and a
\* selection that is closed stays so.
LEMMA StepDuplicateCloses == ProtocolInv /\ [Next]_vars => DuplicateCloses'
<1> SUFFICES ASSUME ProtocolInv, [Next]_vars, Json, DuplicateReported' PROVE forceFinal'
  BY ModeConstant DEF DuplicateCloses, DuplicateReported, Json
<1>0. (\E i \in DOMAIN events : events[i].duplicate) => forceFinal
  BY DEF ProtocolInv, DuplicateCloses, DuplicateReported
<1>d. \E i \in DOMAIN events' : events'[i].duplicate
  BY DEF DuplicateReported
<1>a. events \in Seq(Events)
  BY TypeParts DEF ProtocolInv, DataTypes
<1>j. mode.transport = "json"
  BY DEF Json
<1>c. pc # "calls"
  BY <1>j DEF ProtocolInv, PhaseScope
<1> USE <1>0, <1>d, <1>j DEF selection
<1>1. CASE Setup
  <2>1. events = <<>> /\ forceFinal' = forceFinal
    BY <1>1 DEF Setup, ProtocolInv, PhaseScope, Fresh
  <2>2. events' \in {events, <<>>, <<Event(Baseline, TRUE, FALSE)>>}
    BY <1>1, Zenon DEF Setup
  <2>3. \A i \in DOMAIN events' : ~events'[i].duplicate
    BY <2>1, <2>2 DEF Event
  <2> QED
    BY <2>3
<1>2. CASE StartTurn
  BY <1>2 DEF StartTurn, Fail
<1>3. CASE StartFinal
  BY <1>3 DEF StartFinal, Fail
<1>4. CASE Deliver
  BY <1>4 DEF Deliver, TimeMayPass
<1>5. CASE Retry
  BY <1>5 DEF Retry, TimeMayPass
<1>6. CASE RequestFails
  BY <1>6 DEF RequestFails, TimeMayPass, Fail
<1>7. CASE BadStatus
  BY <1>7 DEF BadStatus, Fail
<1>8. CASE TakeAsFinal
  BY <1>8 DEF TakeAsFinal, SelectReply, Conclude
<1>9. CASE Final
  BY <1>9 DEF Final, SelectReply, Conclude
<1>10. CASE ProtocolError
  BY <1>10 DEF ProtocolError, SelectReply
<1>11. CASE MalformedTool
  <2>1. events' = Append(events, Event(NoRequest, FALSE, FALSE)) /\ forceFinal' = forceFinal
    BY <1>11 DEF MalformedTool
  <2> QED
    BY <1>a, <2>1 DEF Event
<1>12. CASE CallTool
  <2>1. PICK r \in Requests :
          /\ forceFinal' = Cached(r)
          /\ events' = Append(events, Event(r, TRUE, Cached(r)))
    BY <1>12, Zenon DEF CallTool
  <2>2. \A i \in DOMAIN events : ~events[i].duplicate
    BY <1>12, Zenon DEF CallTool, Closed
  <2>3. Cached(r) => forceFinal'
    BY <2>1, Zenon
  <2>4. CASE ~Cached(r)
    <3>1. ~Event(r, TRUE, Cached(r)).duplicate
      BY <2>4, Zenon DEF Event
    <3>2. ASSUME NEW i \in DOMAIN events' PROVE ~events'[i].duplicate
      <4> DEFINE e == Event(r, TRUE, Cached(r))
      <4>1. events' = Append(events, e) /\ ~e.duplicate
        BY <2>1, <3>1
      <4> HIDE DEF e
      <4>2. events'[i] = e \/ (i \in DOMAIN events /\ events'[i] = events[i])
        BY <1>a, <3>2, <4>1
      <4> QED
        BY <2>2, <4>1, <4>2
    <3> QED
      BY <1>d, <3>2
  <2> QED
    BY <2>3, <2>4, Zenon
<1>13. CASE ToolRaises
  BY <1>13 DEF ToolRaises, SelectReply, TimeMayPass, Fail
<1>14. CASE NativeAnswer
  BY <1>14 DEF NativeAnswer, SelectReply
<1>15. CASE NativeCalls
  BY <1>15 DEF NativeCalls, SelectReply
<1>16. CASE NativeRefused
  BY <1>16, <1>c DEF NativeRefused, CallHandled
<1>17. CASE NativeExecuted
  BY <1>17, <1>c DEF NativeExecuted, CallHandled
<1>18. CASE NativeRaises
  BY <1>18 DEF NativeRaises, TimeMayPass, Fail
<1>19. CASE FinalReply
  BY <1>19 DEF FinalReply
<1>20. CASE Over
  BY <1>20 DEF Over, vars
<1>21. CASE UNCHANGED vars
  BY <1>21 DEF vars
<1> QED
  BY <1>1, <1>2, <1>3, <1>4, <1>5, <1>6, <1>7, <1>8, <1>9, <1>10, <1>11,
     <1>12, <1>13, <1>14, <1>15, <1>16, <1>17, <1>18, <1>19, <1>20,
     <1>21 DEF Next

\* What a step after the setup does to the cache and to the log: a call that
\* returns is cached and logged, everything else leaves the cache as it is and
\* logs at most that nothing was called.
LEMMA CallSteps ==
  ASSUME ProtocolInv, [Next]_vars, pc # "setup"
  PROVE  \/ backend'.calls = backend.calls /\ events' = events
         \/ /\ backend'.calls = backend.calls
            /\ \E ran \in BOOLEAN : events' = Append(events, Event(NoRequest, ran, FALSE))
         \/ \E r \in Requests :
              backend' = Executed(r) /\ events' = Append(events, Event(r, TRUE, Cached(r)))
<1>0. \A r \in Requests : Raised(r).calls = backend.calls
  BY TypeParts, BackendTypes DEF ProtocolInv
<1>1. CASE StartTurn \/ StartFinal \/ Deliver \/ Retry \/ RequestFails \/ BadStatus
  BY <1>1 DEF StartTurn, StartFinal, Deliver, Retry, RequestFails, BadStatus, selection
<1>2. CASE TakeAsFinal \/ Final \/ ProtocolError \/ NativeAnswer \/ NativeCalls \/ FinalReply
  BY <1>2 DEF TakeAsFinal, Final, ProtocolError, NativeAnswer, NativeCalls, FinalReply,
              selection
<1>3. CASE MalformedTool \/ NativeRefused
  <2>1. UNCHANGED backend /\ events' = Append(events, Event(NoRequest, FALSE, FALSE))
    BY <1>3, Zenon DEF MalformedTool, NativeRefused
  <2> QED
    BY <2>1, Zenon
<1>4. CASE CallTool
  BY <1>4, Zenon DEF CallTool
<1>5. CASE ToolRaises \/ NativeRaises
  <2>1. events' = events /\ \E r \in Requests : backend' = Raised(r)
    BY <1>5 DEF ToolRaises, NativeRaises
  <2>2. backend'.calls = backend.calls
    BY <1>0, <2>1
  <2> QED
    BY <2>1, <2>2, Zenon
<1>6. CASE NativeExecuted
  <2>1. \/ \E r \in Requests :
             backend' = Executed(r) /\ events' = Append(events, Event(r, TRUE, Cached(r)))
        \/ /\ UNCHANGED backend \/ \E r \in Requests : backend' = Raised(r)
           /\ events' = Append(events, Event(NoRequest, TRUE, FALSE))
    BY <1>6, Zenon DEF NativeExecuted
  <2>2. CASE /\ UNCHANGED backend \/ \E r \in Requests : backend' = Raised(r)
             /\ events' = Append(events, Event(NoRequest, TRUE, FALSE))
    <3>1. backend'.calls = backend.calls
      BY <1>0, <2>2
    <3> QED
      BY <2>2, <3>1, Zenon
  <2> QED
    BY <2>1, <2>2, Zenon
<1>7. CASE Over \/ UNCHANGED vars
  BY <1>7 DEF Over, vars
<1> QED
  BY <1>1, <1>2, <1>3, <1>4, <1>5, <1>6, <1>7 DEF Next, Setup

\* What the setup does to them.
LEMMA SetupSteps ==
  ASSUME ProtocolInv, Setup
  PROVE  /\ events = <<>> /\ \A q \in Requests : ~Cached(q)
         /\ \/ backend'.calls = backend.calls /\ events' = events
            \/ backend' = backend /\ ~Json /\ events' = events
            \/ backend' = Executed(Baseline) /\ mode.native /\ ~Json /\ events' = <<>>
            \/ backend' = Executed(Baseline) /\ events' = <<Event(Baseline, TRUE, FALSE)>>
<1>0. Baseline \in Requests
  BY ProtocolAssumption DEF ProtocolAssumption
<1>1. Raised(Baseline).calls = backend.calls
  BY <1>0, TypeParts, BackendTypes DEF ProtocolInv
<1>2. pc = "setup"
  BY DEF Setup
<1>3. events = <<>> /\ \A q \in Requests : ~Cached(q)
  BY <1>2 DEF ProtocolInv, PhaseScope, Fresh
<1>4. mode.transport # "direct" \/ ~mode.native
  BY TypeParts DEF ProtocolInv, ControlTypes, Modes
<1>5. \/ backend' \in {backend, Raised(Baseline)} /\ events' = events
      \/ /\ backend' = IF mode.native \/ mode.transport = "direct" THEN Executed(Baseline) ELSE backend
         /\ events' = IF InitialContext \/ mode.transport = "direct"
                        THEN <<Event(Baseline, TRUE, FALSE)>> ELSE <<>>
  BY Zenon DEF Setup
<1>6. InitialContext <=> mode.transport = "json" /\ mode.native
  BY DEF InitialContext, Json
<1> QED
  BY <1>1, <1>3, <1>4, <1>5, <1>6 DEF Json

\* The log after one more event.
LEMMA LogAppend ==
  ASSUME NEW e \in Events, events \in Seq(Events), events' = Append(events, e)
  PROVE  /\ DOMAIN events' = 1 .. Len(events) + 1
         /\ DOMAIN events = 1 .. Len(events) /\ Len(events) \in Nat
         /\ \A j \in 1 .. Len(events) : events'[j] = events[j]
         /\ events'[Len(events) + 1] = e
OBVIOUS

\* A call is cached only with the event that logs its result, in the same step.
LEMMA StepCachedIsLogged == ProtocolInv /\ [Next]_vars => CachedIsLogged'
<1> SUFFICES ASSUME ProtocolInv, [Next]_vars, NEW q \in Requests, Cached(q)'
             PROVE  (Logged(events, q) \/ Unlogged(q))'
  BY DEF CachedIsLogged
<1>a. /\ events \in Seq(Events)
      /\ backend.calls \in [Requests -> Nat] /\ backend.number \in Nat
  BY TypeParts DEF ProtocolInv, DataTypes, Backends
<1>b. Baseline \in Requests /\ mode' = mode
  BY ProtocolAssumption, ModeConstant DEF ProtocolAssumption
<1>c. \A r \in Requests : backend' = Executed(r) => Cached(q) \/ q = r
  BY <1>a DEF Executed, Cached
<1>d. backend'.calls = backend.calls => Cached(q)
  BY DEF Cached
<1>e. Unlogged(q)' <=> Unlogged(q)
  BY <1>b DEF Unlogged, Json
<1>f. \A r \in Requests \cup {NoRequest}, ran, dup \in BOOLEAN : Event(r, ran, dup) \in Events
  BY DEF Event, Events
<1>g. Cached(q) => Logged(events, q) \/ Unlogged(q)
  BY DEF ProtocolInv, CachedIsLogged
<1>1. CASE Setup
  <2>1. /\ ~Cached(q)
        /\ \/ backend' = Executed(Baseline) /\ mode.native /\ ~Json
           \/ backend' = Executed(Baseline) /\ events' = <<Event(Baseline, TRUE, FALSE)>>
    BY <1>1, <1>d, SetupSteps
  <2>2. q = Baseline
    BY <2>1, <1>b, <1>c
  <2>3. CASE mode.native /\ ~Json
    BY <1>e, <2>2, <2>3 DEF Unlogged
  <2>4. CASE events' = <<Event(Baseline, TRUE, FALSE)>>
    <3>1. 1 \in DOMAIN events' /\ events'[1] = Event(q, TRUE, FALSE)
      BY <2>2, <2>4
    <3> QED
      BY <3>1, Zenon DEF Logged
  <2> QED
    BY <2>1, <2>3, <2>4
<1>2. CASE ~Setup
  <2>0. pc # "setup" \/ UNCHANGED <<backend, events>>
    BY <1>2 DEF Next, vars, StartTurn, StartFinal, Deliver, Retry, RequestFails, BadStatus,
      TakeAsFinal, Final, ProtocolError, MalformedTool, CallTool, ToolRaises, NativeAnswer,
      NativeCalls, NativeRefused, NativeExecuted, NativeRaises, CallHandled, FinalReply,
      SelectReply, Over
  <2>1. ASSUME NEW e \in Events, events' = Append(events, e), Logged(events, q)
        PROVE  Logged(events, q)'
    <3>1. PICK j \in DOMAIN events : events[j] = Event(q, TRUE, FALSE)
      BY <2>1 DEF Logged
    <3>2. /\ DOMAIN events = 1 .. Len(events) /\ Len(events) \in Nat
          /\ DOMAIN events' = 1 .. Len(events) + 1
          /\ \A k \in 1 .. Len(events) : events'[k] = events[k]
      BY <1>a, <2>1, LogAppend
    <3>3. j \in DOMAIN events' /\ events'[j] = events[j]
      BY <3>2
    <3> QED
      BY <3>1, <3>3, Zenon DEF Logged
  <2>2. CASE backend'.calls = backend.calls /\ events' = events
    BY <1>d, <1>e, <1>g, <2>2 DEF Logged
  <2>3. CASE /\ backend'.calls = backend.calls
             /\ \E ran \in BOOLEAN : events' = Append(events, Event(NoRequest, ran, FALSE))
    BY <1>d, <1>e, <1>f, <1>g, <2>1, <2>3
  <2>4. CASE \E r \in Requests :
               backend' = Executed(r) /\ events' = Append(events, Event(r, TRUE, Cached(r)))
    <3>1. PICK r \in Requests :
            backend' = Executed(r) /\ events' = Append(events, Event(r, TRUE, Cached(r)))
      BY <2>4
    <3>2. Event(r, TRUE, Cached(r)) \in Events
      BY <1>f, Zenon DEF Cached
    <3>3. CASE Cached(q)
      BY <1>e, <1>g, <2>1, <3>1, <3>2, <3>3
    <3>4. CASE ~Cached(q)
      <4>1. q = r
        BY <1>c, <3>1, <3>4
      <4>2. Event(r, TRUE, Cached(r)) = Event(q, TRUE, FALSE)
        BY <3>4, <4>1, Zenon DEF Event, Cached
      <4>4. /\ DOMAIN events' = 1 .. Len(events) + 1 /\ Len(events) \in Nat
            /\ events'[Len(events) + 1] = Event(r, TRUE, Cached(r))
        <5> DEFINE e == Event(r, TRUE, Cached(r))
        <5>1. e \in Events /\ events' = Append(events, e)
          BY <3>1, <3>2
        <5> HIDE DEF e
        <5>2. /\ DOMAIN events' = 1 .. Len(events) + 1 /\ Len(events) \in Nat
              /\ events'[Len(events) + 1] = e
          BY <1>a, <5>1, LogAppend
        <5> QED
          BY <5>2 DEF e
      <4>3. /\ Len(events) + 1 \in DOMAIN events'
            /\ events'[Len(events) + 1] = Event(q, TRUE, FALSE)
        <5>1. Len(events) + 1 \in DOMAIN events'
          BY <4>4
        <5> QED
          BY <4>2, <4>4, <5>1, Zenon
      <4> QED
        BY <4>3, Zenon DEF Logged
    <3> QED
      BY <3>3, <3>4
  <2> QED
    BY <2>0, <2>2, <2>3, <2>4, CallSteps
<1> QED
  BY <1>1, <1>2

\* Only a cached call is logged as a duplicate, and by then the log has the one
\* that brought its result.
LEMMA StepDuplicateIsLogged == ProtocolInv /\ [Next]_vars => DuplicateIsLogged'
<1> SUFFICES ASSUME ProtocolInv, [Next]_vars, NEW i \in DOMAIN events', events'[i].duplicate
             PROVE  \/ \E j \in 1 .. i - 1 : events'[j] = Event(events'[i].request, TRUE, FALSE)
                    \/ Unlogged(events'[i].request)
  BY ModeConstant, Zenon DEF DuplicateIsLogged, Unlogged, Json
<1>a. events \in Seq(Events)
  BY TypeParts DEF ProtocolInv, DataTypes
<1>e. \A q : Unlogged(q)' <=> Unlogged(q)
  BY ModeConstant DEF Unlogged, Json
<1>f. \A r \in Requests \cup {NoRequest}, ran, dup \in BOOLEAN : Event(r, ran, dup) \in Events
  BY DEF Event, Events
<1>g. \A k \in DOMAIN events : events[k].duplicate =>
        \/ \E j \in 1 .. k - 1 : events[j] = Event(events[k].request, TRUE, FALSE)
        \/ Unlogged(events[k].request)
  BY DEF ProtocolInv, DuplicateIsLogged
<1>h. \A q \in Requests : Cached(q) => Logged(events, q) \/ Unlogged(q)
  BY DEF ProtocolInv, CachedIsLogged
<1>s. \A q, dup : Event(q, TRUE, dup).duplicate = dup /\ Event(q, TRUE, dup).request = q
  BY Zenon DEF Event
<1>1. CASE events' = events
  BY <1>1, <1>e, <1>g
<1>2. ASSUME NEW e \in Events, events' = Append(events, e), i \in DOMAIN events
      PROVE  \/ \E j \in 1 .. i - 1 : events'[j] = Event(events'[i].request, TRUE, FALSE)
             \/ Unlogged(events'[i].request)
  <2>1. /\ DOMAIN events = 1 .. Len(events) /\ Len(events) \in Nat
        /\ \A j \in 1 .. Len(events) : events'[j] = events[j]
    BY <1>a, <1>2, LogAppend
  <2>2. \A j \in 1 .. i - 1 : j \in 1 .. Len(events)
    BY <1>2, <2>1
  <2> QED
    BY <1>2, <1>e, <1>g, <2>1, <2>2
<1>3. ASSUME NEW e \in Events, events' = Append(events, e), i \notin DOMAIN events
      PROVE  i = Len(events) + 1 /\ events'[i] = e
  BY <1>a, <1>3, LogAppend
<1>4. CASE Setup
  <2>1. events' = events \/ events' = <<>> \/ events' = <<Event(Baseline, TRUE, FALSE)>>
    BY <1>4, SetupSteps
  <2>2. CASE events' = <<Event(Baseline, TRUE, FALSE)>>
    <3>1. i = 1 /\ events'[1] = Event(Baseline, TRUE, FALSE)
      BY <2>2
    <3>2. ~events'[i].duplicate
      BY <1>s, <3>1, Zenon
    <3> QED
      BY <3>2
  <2>3. CASE events' = <<>>
    <3>1. DOMAIN events' = {}
      BY <2>3
    <3> QED
      BY <3>1
  <2>4. CASE events' = events
    BY <1>1, <2>4, Zenon
  <2> QED
    BY <2>1, <2>2, <2>3, <2>4, Zenon
<1>5. CASE pc # "setup"
  <2>1. CASE \E ran \in BOOLEAN : events' = Append(events, Event(NoRequest, ran, FALSE))
    <3>1. PICK ran \in BOOLEAN : events' = Append(events, Event(NoRequest, ran, FALSE))
      BY <2>1
    <3>2. ~Event(NoRequest, ran, FALSE).duplicate /\ Event(NoRequest, ran, FALSE) \in Events
      BY <1>f, Zenon DEF Event
    <3>3. i \in DOMAIN events
      BY <1>3, <3>1, <3>2
    <3> QED
      BY <1>2, <3>1, <3>2, <3>3
  <2>2. CASE \E r \in Requests : events' = Append(events, Event(r, TRUE, Cached(r)))
    <3>1. PICK r \in Requests : events' = Append(events, Event(r, TRUE, Cached(r)))
      BY <2>2
    <3>2. Event(r, TRUE, Cached(r)) \in Events
      BY <1>f, Zenon DEF Cached
    <3>3. CASE i \notin DOMAIN events
      <4>1. i = Len(events) + 1 /\ events'[i] = Event(r, TRUE, Cached(r))
        BY <1>3, <3>1, <3>2, <3>3
      <4>2. Cached(r) /\ events'[i].request = r
        <5> DEFINE e == Event(r, TRUE, Cached(r))
        <5>1. e.duplicate => Cached(r)
          BY Zenon DEF Event
        <5>2. e.request = r
          BY Zenon DEF Event
        <5>3. events'[i] = e
          BY <4>1
        <5> HIDE DEF e
        <5> QED
          BY <5>1, <5>2, <5>3
      <4>3. CASE Unlogged(r)
        BY <1>e, <4>2, <4>3
      <4>4. CASE Logged(events, r)
        <5>1. PICK j \in DOMAIN events : events[j] = Event(r, TRUE, FALSE)
          BY <4>4 DEF Logged
        <5>2. /\ DOMAIN events = 1 .. Len(events) /\ Len(events) \in Nat
              /\ \A k \in 1 .. Len(events) : events'[k] = events[k]
          <6> DEFINE e == Event(r, TRUE, Cached(r))
          <6>1. e \in Events /\ events' = Append(events, e)
            BY <3>1, <3>2
          <6> HIDE DEF e
          <6> QED
            BY <1>a, <6>1, LogAppend
        <5>4. i = Len(events) + 1
          BY <4>1
        <5>3. j \in 1 .. i - 1 /\ events'[j] = events[j]
          BY <5>2, <5>4
        <5> QED
          BY <4>2, <5>1, <5>3, Zenon
      <4> QED
        BY <1>h, <4>2, <4>3, <4>4
    <3> QED
      BY <1>2, <3>1, <3>2, <3>3
  <2> QED
    BY <1>1, <1>5, <2>1, <2>2, CallSteps
<1> QED
  BY <1>1, <1>4, <1>5
  DEF Next, vars, StartTurn, StartFinal, Deliver, Retry, RequestFails, BadStatus,
      TakeAsFinal, Final, ProtocolError, MalformedTool, CallTool, ToolRaises, NativeAnswer,
      NativeCalls, NativeRefused, NativeExecuted, NativeRaises, CallHandled, FinalReply,
      SelectReply, Over

\* Before a request for a turn is sent, every cached result is in its prompt or
\* was in an earlier one.
LEMMA StepCachedIsListed == ProtocolInv /\ [Next]_vars => CachedIsListed'
<1> SUFFICES ASSUME ProtocolInv, [Next]_vars, Json PROVE CachedIsListed'
  BY ModeConstant DEF CachedIsListed, Json
<1>0. /\ Selecting =>
           \A r \in Requests : Cached(r) =>
              r \in listed \/ (pc = "turn" /\ r \in TurnLists)
      /\ \A i \in DOMAIN events : events[i].duplicate => events[i].request \in listed
  BY DEF ProtocolInv, CachedIsListed
<1>j. mode.transport = "json"
  BY DEF Json
<1>c. pc # "calls"
  BY <1>j DEF ProtocolInv, PhaseScope
<1>a. /\ events \in Seq(Events) /\ transcript \in Seq(Requests \cup {NoRequest})
      /\ backend.calls \in [Requests -> Nat] /\ backend.number \in Nat
  BY TypeParts DEF ProtocolInv, DataTypes, Backends
<1>b. Baseline \in Requests
  BY ProtocolAssumption DEF ProtocolAssumption
<1>k. \A q, r \in Requests : backend' = Executed(r) /\ Cached(q)' => Cached(q) \/ q = r
  BY <1>a DEF Executed, Cached
<1>l. /\ (InitialContext => Baseline \in TurnLists)'
      /\ UNCHANGED transcript => TurnLists' = TurnLists
      /\ \A r \in Requests \cup {NoRequest} : transcript' = Append(transcript, r) =>
            /\ TurnLists \subseteq TurnLists'
            /\ r # NoRequest => r \in TurnLists'
  <2>1. InitialContext' <=> InitialContext
    BY ModeConstant DEF InitialContext, Json
  <2>2. (InitialContext => Baseline \in TurnLists)'
    BY DEF TurnLists
  <2>3. UNCHANGED transcript => TurnLists' = TurnLists
    BY <2>1 DEF TurnLists
  <2>4. ASSUME NEW r \in Requests \cup {NoRequest}, transcript' = Append(transcript, r)
        PROVE  /\ {transcript[i] : i \in DOMAIN transcript}
                     \subseteq {transcript'[i] : i \in DOMAIN transcript'}
               /\ r \in {transcript'[i] : i \in DOMAIN transcript'}
    BY <1>a, <2>4
  <2> QED
    BY <2>1, <2>2, <2>3, <2>4 DEF TurnLists
<1>e. /\ UNCHANGED backend => \A q \in Requests : Cached(q)' <=> Cached(q)
      /\ InitialContext' <=> InitialContext
  BY ModeConstant DEF Cached, InitialContext, Json
<1> USE <1>0, <1>e DEF CachedIsListed, Selecting, selection
<1>1. CASE Setup
  <2>1. \A q \in Requests : ~Cached(q)
    BY <1>1 DEF Setup, ProtocolInv, PhaseScope, Fresh
  <2>2. events' \in {events, <<>>, <<Event(Baseline, TRUE, FALSE)>>} /\ events = <<>>
    BY <1>1, Zenon DEF Setup, ProtocolInv, PhaseScope, Fresh
  <2>3. \A i \in DOMAIN events' : ~events'[i].duplicate
    BY <2>2 DEF Event
  <2>4. \/ pc' = "failed"
        \/ pc' = "turn" /\ backend' = backend
        \/ pc' = "turn" /\ mode.native /\ backend' = Executed(Baseline)
    BY <1>1, <1>j DEF Setup, Fail
  <2>5. CASE pc' = "turn" /\ mode.native /\ backend' = Executed(Baseline)
    <3>1. InitialContext'
      BY <2>5, <1>e DEF InitialContext
    <3>2. \A q \in Requests : Cached(q)' => q = Baseline
      BY <2>1, <2>5, <1>k, <1>b
    <3> QED
      BY <2>3, <2>5, <3>1, <3>2, <1>l
  <2> QED
    BY <2>1, <2>3, <2>4, <2>5
<1>2. CASE StartTurn
  <2>1. pc = "turn" /\ UNCHANGED <<backend, events, transcript>>
    BY <1>2 DEF StartTurn
  <2>2. \/ pc' = "failed" /\ UNCHANGED <<wire, listed>>
        \/ pc' = "wire" /\ listed' = listed \cup TurnLists
    BY <1>2, Zenon DEF StartTurn, Fail
  <2> QED
    BY <2>1, <2>2
<1>3. CASE StartFinal
  BY <1>3 DEF StartFinal, Fail
<1>4. CASE Deliver
  BY <1>4 DEF Deliver, TimeMayPass
<1>5. CASE Retry
  BY <1>5 DEF Retry, TimeMayPass
<1>6. CASE RequestFails
  BY <1>6 DEF RequestFails, TimeMayPass, Fail
<1>7. CASE BadStatus
  BY <1>7 DEF BadStatus, Fail
<1>8. CASE TakeAsFinal
  BY <1>8 DEF TakeAsFinal, SelectReply, Conclude
<1>9. CASE Final
  BY <1>9 DEF Final, SelectReply, Conclude
<1>10. CASE ProtocolError
  <2>1. /\ pc = "reply" /\ wire.for = "select" /\ pc' = "turn"
        /\ UNCHANGED <<backend, events, listed>>
        /\ transcript' = Append(transcript, NoRequest)
    BY <1>10 DEF ProtocolError, SelectReply
  <2> QED
    BY <2>1, <1>l
<1>11. CASE MalformedTool
  <2>1. /\ pc = "reply" /\ wire.for = "select" /\ pc' = "turn"
        /\ events' = Append(events, Event(NoRequest, FALSE, FALSE))
        /\ transcript' = Append(transcript, NoRequest)
        /\ UNCHANGED <<backend, listed>>
    BY <1>11 DEF MalformedTool, SelectReply
  <2>2. ASSUME NEW i \in DOMAIN events', events'[i].duplicate
        PROVE  events'[i].request \in listed
    <3> DEFINE e == Event(NoRequest, FALSE, FALSE)
    <3>1. events' = Append(events, e) /\ ~e.duplicate
      BY <2>1 DEF Event
    <3> HIDE DEF e
    <3>2. events'[i] = e \/ (i \in DOMAIN events /\ events'[i] = events[i])
      BY <1>a, <2>2, <3>1
    <3> QED
      BY <2>2, <3>1, <3>2
  <2> QED
    BY <2>1, <2>2, <1>l
<1>12. CASE CallTool
  <2>1. PICK r \in Requests :
          /\ backend' = Executed(r)
          /\ events' = Append(events, Event(r, TRUE, Cached(r)))
          /\ transcript' = Append(transcript, IF Cached(r) THEN NoRequest ELSE r)
    BY <1>12, Zenon DEF CallTool
  <2>2. pc = "reply" /\ wire.for = "select" /\ pc' = "turn" /\ listed' = listed
    BY <1>12, Zenon DEF CallTool, SelectReply
  <2>3. \A q \in Requests : Cached(q) => q \in listed
    BY <2>2
  <2>4. ASSUME NEW q \in Requests, Cached(q)'
        PROVE  q \in listed' \/ q \in TurnLists'
    <3>1. CASE Cached(q)
      BY <2>2, <2>3, <3>1
    <3>2. CASE ~Cached(q)
      <4>1. q = r
        BY <2>1, <2>4, <3>2, <1>k
      <4>2. transcript' = Append(transcript, r)
        BY <2>1, <3>2, <4>1
      <4>3. q # NoRequest
        BY ProtocolAssumption DEF ProtocolAssumption
      <4> QED
        BY <1>l, <4>1, <4>2, <4>3
    <3> QED
      BY <3>1, <3>2
  <2>5. ASSUME NEW i \in DOMAIN events', events'[i].duplicate
        PROVE  events'[i].request \in listed
    <3> DEFINE e == Event(r, TRUE, Cached(r))
    <3>1. events' = Append(events, e) /\ e.request = r
      BY <2>1 DEF Event
    <3>2. e.duplicate => Cached(r)
      BY Zenon DEF Event
    <3> HIDE DEF e
    <3>3. events'[i] = e \/ (i \in DOMAIN events /\ events'[i] = events[i])
      BY <1>a, <2>5, <3>1
    <3> QED
      BY <2>3, <2>5, <3>1, <3>2, <3>3
  <2> QED
    BY <2>2, <2>4, <2>5
<1>13. CASE ToolRaises
  BY <1>13 DEF ToolRaises, SelectReply, TimeMayPass, Fail
<1>14. CASE NativeAnswer
  BY <1>14 DEF NativeAnswer, SelectReply
<1>15. CASE NativeCalls
  BY <1>15, <1>j DEF NativeCalls
<1>16. CASE NativeRefused
  BY <1>16, <1>c DEF NativeRefused, CallHandled
<1>17. CASE NativeExecuted
  BY <1>17, <1>c DEF NativeExecuted, CallHandled
<1>18. CASE NativeRaises
  BY <1>18 DEF NativeRaises, TimeMayPass, Fail
<1>19. CASE FinalReply
  BY <1>19 DEF FinalReply
<1>20. CASE Over
  BY <1>20, <1>l DEF Over, vars
<1>21. CASE UNCHANGED vars
  BY <1>21, <1>l DEF vars
<1> QED
  BY <1>1, <1>2, <1>3, <1>4, <1>5, <1>6, <1>7, <1>8, <1>9, <1>10, <1>11,
     <1>12, <1>13, <1>14, <1>15, <1>16, <1>17, <1>18, <1>19, <1>20,
     <1>21 DEF Next

-----------------------------------------------------------------------------
LEMMA ProtocolInvariance == Spec => []ProtocolInv
<1>1. ProtocolInv /\ [Next]_vars => ProtocolInv'
  BY TypesNext, StepPhaseScope, StepTurnsCounted, StepDuplicateCloses,
     StepCachedIsLogged, StepDuplicateIsLogged, StepCachedIsListed DEF ProtocolInv
<1> QED
  BY <1>1, InitProtocolInv, PTL DEF Spec

\* The types, whatever the model, the network and the analyzer answer.
THEOREM ProtocolTypes == Spec => []TypeOK
<1>1. ProtocolInv => TypeOK
  BY DEF ProtocolInv
<1> QED
  BY <1>1, ProtocolInvariance, PTL

\* The turn budget ends a session only after three turns without a result (two
\* with native tools), for every budget of calls and every number of calls in a
\* response.
THEOREM ProtocolTurnBudget == Spec => []TurnBudgetNeedsWaste
<1>1. ProtocolInv => TurnBudgetNeedsWaste
  BY DEF ProtocolInv, TurnsCounted
<1> QED
  BY <1>1, ProtocolInvariance, PTL

\* A request is only called a duplicate when an earlier call brought its result,
\* for every set of requests, whatever calls fail; in the JSON protocol a
\* prompt has listed the result by then.
THEOREM ProtocolDuplicateHasResult == Spec => []DuplicateHasResult
<1>1. ProtocolInv => DuplicateHasResult
  BY DEF ProtocolInv, DuplicateIsLogged, CachedIsListed, DuplicateHasResult, Unlogged
<1> QED
  BY <1>1, ProtocolInvariance, PTL

\* No call reaches the analyzer once the budget is used or a duplicate was
\* reported.
THEOREM ProtocolClosedRunsNothing == Spec => ClosedRunsNothing
<1>1. ProtocolInv /\ [Next]_vars =>
        (pc # "setup" /\ (executed >= MaxToolCalls \/ DuplicateReported)
           => backend' = backend)
  <2> SUFFICES ASSUME ProtocolInv, [Next]_vars, pc # "setup",
                      executed >= MaxToolCalls \/ DuplicateReported
               PROVE  backend' = backend
    OBVIOUS
  <2>0. executed \in Nat /\ MaxToolCalls \in Nat
    BY TypeParts, ProtocolAssumption DEF ProtocolInv, ControlTypes, ProtocolAssumption
  <2>1. Closed
    BY DEF ProtocolInv, DuplicateCloses, Closed
  <2>2. CASE pc = "calls"
    <3>1. ~Json
      BY <2>2 DEF ProtocolInv, PhaseScope, Json
    <3>2. ~(executed < MaxToolCalls)
      BY <2>0, <3>1 DEF DuplicateReported
    <3>3. CASE NativeRefused
      BY <3>3 DEF NativeRefused
    <3>4. CASE UNCHANGED vars
      BY <3>4 DEF vars
    <3>5. ~NativeExecuted /\ ~NativeRaises
      BY <3>2 DEF NativeExecuted, NativeRaises
    <3> QED
      BY <2>2, <3>3, <3>4, <3>5
      DEF Next, Setup, StartTurn, StartFinal, Deliver, Retry, RequestFails, BadStatus,
          TakeAsFinal, Final, ProtocolError, MalformedTool, CallTool, ToolRaises,
          NativeAnswer, NativeCalls, SelectReply, FinalReply, Over
  <2>3. CASE pc # "calls"
    <3>1. ~CallTool /\ ~ToolRaises
      BY <2>1 DEF CallTool, ToolRaises
    <3>2. ~NativeRefused /\ ~NativeExecuted /\ ~NativeRaises
      BY <2>3 DEF NativeRefused, NativeExecuted, NativeRaises, CallHandled
    <3> QED
      BY <3>1, <3>2
      DEF Next, vars, selection, Setup, StartTurn, StartFinal, Deliver, Retry,
          RequestFails, BadStatus, TakeAsFinal, Final, ProtocolError, MalformedTool,
          NativeAnswer, NativeCalls, FinalReply, Over
  <2> QED
    BY <2>2, <2>3
<1> QED
  BY <1>1, ProtocolInvariance, PTL DEF Spec, ClosedRunsNothing
=============================================================================
