------------------------------ MODULE Enrichment ------------------------------
(***************************************************************************)
(* enrich_function() and the exit code of the command that calls it.  It   *)
(* asks the solver about the branches that are listed and carries taint    *)
(* from the calls that read input to those that use it, in four loops that *)
(* a cancel or the clock may interrupt between any two steps.              *)
(*                                                                         *)
(* The module knows a function by what the loops read of it: the listed    *)
(* statements and the operations in the order of their blocks, with the    *)
(* numbers of the values they take and give.                               *)
(***************************************************************************)
EXTENDS Integers, Sequences

VARIABLES
  call,                \* what the function is enriched for
  phase,               \* "idle", "called", the loop that runs, or "done"
  place,                \* the position in what the loop visits
  completion, queries, states,
  asked,               \* statements of branches that have an answer
  taints,              \* pairs of a value and a source call it is tainted by
  flows,               \* pairs of a source call and a sink call that are reported
  unmarked,            \* sources that the taint library did not take
  unheard,             \* pairs of a sink call and an input it did not take
  raised,              \* whether the caller's token and the clock say to stop
  exit

lost == <<unmarked, unheard>>
enrichment == <<completion, queries, states, asked, taints, flows, lost>>
enrichVars == <<call, phase, place, enrichment, raised, exit>>

\* An operation; written has what a call that reads input taints.  A statement is a
\* branch on a constant or on another condition, or none with a condition.
Operations == [code : {"call", "other"}, roles : SUBSET {"source", "sink"},
               inputs : Seq(Nat), outputs : SUBSET Nat, written : SUBSET Nat]
Statements == {"constant", "condition", "other"}

\* The options, the view they are for, and what of it is complete.
Requests == [enrich : SUBSET {"symbolic", "taint"},
             view : {"compact", "taint", "agent", "disassembly"},
             complete : SUBSET {"session", "listing"}, queries : Nat, states : Nat,
             statements : Seq(Statements), ops : Seq(Operations)]

LoopPhases == {"branches", "sources", "transforms", "sinks"}
Length == IF phase = "branches" THEN Len(call.statements) ELSE Len(call.ops)
Ended == place > Length

Untouched == UNCHANGED <<call, raised, exit>>

EnrichInit ==
  /\ call = "none" /\ phase = "idle" /\ place = 1 /\ completion = "complete" /\ queries = 0
  /\ states = 0 /\ asked = {} /\ taints = {} /\ flows = {} /\ unmarked = {} /\ unheard = {}
  /\ raised = {} /\ exit = "none"

\* The command has its view of the function.
TakeRequest(request) ==
  /\ phase = "idle" /\ phase' = "called" /\ call' = request
  /\ UNCHANGED <<place, enrichment, raised, exit>>

\* The caller's token and the clock.
Cancel ==
  /\ phase \in LoopPhases /\ "canceled" \notin raised /\ raised' = raised \cup {"canceled"}
  /\ UNCHANGED <<call, phase, place, enrichment, exit>>
Expire ==
  /\ phase \in LoopPhases /\ "timeout" \notin raised /\ raised' = raised \cup {"timeout"}
  /\ UNCHANGED <<call, phase, place, enrichment, exit>>

\* A loop is left early; the loops after it are entered all the same.
Break(cause) ==
  /\ completion' = cause /\ place' = Length + 1
  /\ UNCHANGED <<phase, queries, states, asked, taints, flows, lost>>

\* The session cannot create its symbolic context.
NoSolver ==
  /\ phase = "called" /\ call.enrich # {} /\ phase' = "done" /\ exit' = "failure"
  /\ UNCHANGED <<call, place, enrichment, raised>>

\* enrich_function up to its first loop.  The models of the process or the state of
\* the solver may not be available.
StartEnrichment ==
  /\ phase = "called" /\ call.enrich # {} /\ phase' = "branches"
  /\ \/ /\ completion' \in {"complete", "unknown"}
        /\ place' = IF "symbolic" \in call.enrich THEN 1 ELSE Len(call.statements) + 1
     \/ /\ "symbolic" \in call.enrich /\ completion' = "unknown"
        /\ place' = Len(call.statements) + 1
  /\ UNCHANGED <<queries, states, asked, taints, flows, lost>> /\ Untouched

OutOfQueries == call.queries # 0 /\ queries >= call.queries

\* What becomes of the question: a constant or an expression the solver does not
\* know are answered without a query.
Answer ==
  /\ \/ UNCHANGED <<queries, completion>>
     \/ /\ call.statements[place] # "constant" /\ queries' = queries + 1
        /\ completion' \in {completion, "timeout", "unknown"}
  /\ asked' = asked \cup {place} /\ place' = place + 1
  /\ UNCHANGED <<phase, states, taints, flows, lost>>

AskBranch ==
  /\ phase = "branches" /\ ~ Ended
  /\ LET question == call.statements[place] # "other"
     IN \/ "canceled" \in raised /\ Break("canceled")
        \/ question /\ raised = {"timeout"} /\ Break("timeout")
        \/ raised = {} /\ question /\ OutOfQueries /\ Break("limited")
        \/ /\ "canceled" \notin raised /\ ~ question /\ place' = place + 1
           /\ UNCHANGED <<phase, enrichment>>
        \/ raised = {} /\ question /\ ~ OutOfQueries /\ Answer
  /\ Untouched

\* Variant of Begin: a loop starts with a clean record.
BeginAfresh(loop) ==
  /\ phase' = loop /\ place' = 1 /\ completion' = "complete"
  /\ UNCHANGED <<queries, states, asked, taints, flows, lost>>

Begin(loop) == phase' = loop /\ place' = 1 /\ UNCHANGED enrichment

NextLoop ==
  /\ phase \in {"branches", "sources", "transforms"} /\ Ended /\ "taint" \in call.enrich
  /\ Begin(CASE phase = "branches" -> "sources"
             [] phase = "sources" -> "transforms"
             [] phase = "transforms" -> "sinks")
  /\ Untouched

OutOfStates == call.states # 0 /\ states >= call.states
IsSource(op) == op.code = "call" /\ "source" \in op.roles
IsSink(op) == op.code = "call" /\ "sink" \in op.roles

\* Whatever the values were tainted by before.
Taint(values, sources) ==
  /\ taints' = {t \in taints : t[1] \notin values} \cup (values \X sources)
  /\ states' = states + 1

\* The first taint loop: each call that reads input.  One that the library does not
\* take as a source is passed over, and the completion says nothing of it.
MarkSource ==
  /\ phase = "sources" /\ ~ Ended
  /\ \/ "canceled" \in raised /\ Break("canceled")
     \/ raised = {"timeout"} /\ Break("timeout")
     \/ raised = {} /\ OutOfStates /\ Break("limited")
     \/ /\ raised = {} /\ ~ OutOfStates /\ place' = place + 1
        /\ \/ /\ IsSource(call.ops[place]) /\ Taint(call.ops[place].written, {place})
              /\ UNCHANGED unmarked
           \/ /\ IsSource(call.ops[place]) /\ unmarked' = unmarked \cup {place}
              /\ UNCHANGED <<taints, states>>
           \/ ~ IsSource(call.ops[place]) /\ UNCHANGED <<taints, states, unmarked>>
        /\ UNCHANGED <<phase, completion, queries, asked, flows, unheard>>
  /\ Untouched

Inputs(op) == {op.inputs[k] : k \in DOMAIN op.inputs}

\* What taints some values, and which of them are tainted.
Brought(values) == {t[2] : t \in {t \in taints : t[1] \in values}}
Tainted(values) == {v \in values : \E t \in taints : t[1] = v}

\* Variant of Carried: only the first input counts.
CarriedByFirst(op) == IF op.inputs = << >> THEN {} ELSE Brought({op.inputs[1]})

Carried(op) == Brought(Inputs(op))

\* The second: what any other operation is given it gives on, or some of it where
\* the library joins no more.  Nobody looks at the clock.
Transform ==
  /\ phase = "transforms" /\ ~ Ended
  /\ LET op == call.ops[place]
         given == IF op.code = "call" THEN {} ELSE Carried(op)
     IN \/ "canceled" \in raised /\ Break("canceled")
        \/ "canceled" \notin raised /\ OutOfStates /\ Break("limited")
        \/ /\ "canceled" \notin raised /\ ~ OutOfStates /\ place' = place + 1
           /\ \/ \E joined \in (SUBSET given) \ {{}} : Taint(op.outputs, joined)
              \/ given = {} /\ UNCHANGED <<taints, states>>
           /\ UNCHANGED <<phase, completion, queries, asked, flows, lost>>
  /\ Untouched

\* The third: what the calls that use input are given, but for the inputs the library
\* does not take, of which the completion says nothing.
MarkSink ==
  /\ phase = "sinks" /\ ~ Ended
  /\ \/ "canceled" \in raised /\ Break("canceled")
     \/ raised = {"timeout"} /\ Break("timeout")
     \/ /\ raised = {} /\ place' = place + 1
        /\ \/ /\ IsSink(call.ops[place])
              /\ \E missed \in SUBSET Tainted(Inputs(call.ops[place])) :
                   /\ flows' = flows \cup
                        (Brought(Inputs(call.ops[place]) \ missed) \X {place})
                   /\ unheard' = unheard \cup ({place} \X missed)
           \/ ~ IsSink(call.ops[place]) /\ UNCHANGED <<flows, unheard>>
        /\ UNCHANGED <<phase, completion, queries, states, asked, taints, unmarked>>
  /\ Untouched

\* The exit code of the command, by its view; the text may have been cut.
IsComplete(text) ==
  /\ "session" \in call.complete
  /\ call.view \in {"agent", "compact"} => "listing" \in call.complete
  /\ call.view = "compact" => text # "cut"
  /\ call.view = "taint" \/ (call.view = "compact" /\ call.enrich # {}) => completion = "complete"

AnswerCommand ==
  /\ \/ phase = "called" /\ call.enrich = {}
     \/ phase = "branches" /\ Ended /\ "taint" \notin call.enrich
     \/ phase = "sinks" /\ Ended
  /\ \E text \in {"whole", "cut"} : exit' = IF IsComplete(text) THEN "complete" ELSE "partial"
  /\ phase' = "done"
  /\ UNCHANGED <<call, place, enrichment, raised>>

EnrichStep ==
  \/ NoSolver \/ StartEnrichment \/ AskBranch \/ NextLoop \/ MarkSource \/ Transform \/ MarkSink
  \/ Cancel \/ Expire \/ AnswerCommand
EnrichNext == (\E request \in Requests : TakeRequest(request)) \/ EnrichStep

EnrichSpec == EnrichInit /\ [][EnrichNext]_enrichVars

-----------------------------------------------------------------------------
(* Properties.                                                             *)

Sources == {k \in DOMAIN call.ops : IsSource(call.ops[k])}
Sinks == {k \in DOMAIN call.ops : IsSink(call.ops[k])}

\* The values that operations, taken in their order, make of what a source has
\* written, in front of an operation: those of the last one before it.
Before(chain, k) == {j \in chain : j < k}
Latest(links) == CHOOSE j \in links : \A i \in links : i <= j
Given(source, chain, k) ==
  IF Before(chain, k) = {} THEN call.ops[source].written
  ELSE call.ops[Latest(Before(chain, k))].outputs

\* Each of the operations takes a value of the one before it.
IsChain(source, chain) ==
  \A k \in chain : /\ call.ops[k].code # "call"
                   /\ Given(source, chain, k) \cap Inputs(call.ops[k]) # {}
Made(source, chain) == Given(source, chain, Len(call.ops) + 1)
Reaches(source, values) ==
  \E chain \in SUBSET DOMAIN call.ops :
    IsChain(source, chain) /\ Made(source, chain) \cap values # {}
InOrder(source, sink) == Reaches(source, Inputs(call.ops[sink]))

\* The inputs of a sink that the library took, or was not asked to.
Heard(sink) == {v \in Inputs(call.ops[sink]) : <<sink, v>> \notin unheard}

\* Solver queries and taint states stay within their bounds.  Every flow that is
\* reported is a chain of operations from what a source has written to what a sink
\* takes.  An answer that is given as complete with an enrichment that was asked for
\* has one for each listed branch, and a flow into each sink that such a chain leads
\* to: no loop was left before its end, whatever the loops after it did, and no taint
\* was lost when a value was tainted anew (enrichment.cpp:127-369, main.cpp:732-770).
\* What the taint library refuses is the exception: a source, or an input of a sink,
\* that it did not take is missing from an answer that is complete all the same
\* (enrichment.cpp:277 and :355), but it takes nothing else along.  Operations of a
\* block that cannot be read are not among those of the function (:246).
EnrichmentAccounted ==
  /\ phase # "idle" => call \in Requests
  /\ phase # "idle" /\ call.states # 0 => states <= call.states
  /\ phase # "idle" /\ call.queries # 0 => queries <= call.queries
  /\ \A flow \in flows : flow[1] \in Sources /\ flow[2] \in Sinks /\ InOrder(flow[1], flow[2])
  /\ exit = "complete" /\ call.view \in {"compact", "taint"} =>
       /\ "symbolic" \in call.enrich =>
            \A k \in DOMAIN call.statements : call.statements[k] # "other" => k \in asked
       /\ "taint" \in call.enrich => \A sink \in Sinks :
            (\E source \in Sources \ unmarked : Reaches(source, Heard(sink)))
            => \E source \in Sources : <<source, sink>> \in flows
=============================================================================
