----------------------------- MODULE DirectedFlow -----------------------------
(***************************************************************************)
(* The control of directed_flow(): resolve the selectors, propagate taint, *)
(* search candidate paths per source/target pair, check the candidates     *)
(* with the solver, and answer with a verdict, a completion and (from the  *)
(* command) an exit code.  TagPropagation and PathSearch model the two     *)
(* middle phases in detail; here they are what they can hand over.         *)
(*                                                                         *)
(* A fact <<pair, 0>> says that the pair's source reaches its target as a  *)
(* value, <<pair, k>> that the source taints a branch condition of the     *)
(* pair's k-th path.  facts and feasible are the ground truth: what the    *)
(* taint fixpoint contains and which paths the solver could satisfy.       *)
(***************************************************************************)
EXTENDS Naturals, Sequences, FiniteSets

CONSTANTS
  PathCount,     \* for each pair, the bounded context-sensitive paths it has
  Limits,        \* the values --max-paths may resolve to
  Budgets        \* the values --max-queries may have, 0 for no limit

ASSUME FlowAssumption ==
  /\ PathCount \in Seq(Nat) /\ PathCount # <<>>
  /\ Limits \subseteq Nat \ {0}
  /\ Budgets \subseteq Nat

NumPairs == Len(PathCount)
Pairs == 1 .. NumPairs
Facts == UNION {{q} \X (0 .. PathCount[q]) : q \in Pairs}
Paths == {f \in Facts : f[2] # 0}

Modes == {"taint", "taint_symbolic", "symbolic"}
Completions == {"complete", "limited", "timeout", "canceled", "unknown", "failed"}
Verdicts == {"may_flow", "feasible_flow", "infeasible", "no_flow", "unknown"}

VARIABLES
  pc,            \* the phase of directed_flow
  mode, reach, limit, budget,  \* the query: mode, pairs with a reach target, bounds
  whole,         \* session.completeness().complete
  facts,         \* the facts a full taint fixpoint has
  feasible,      \* the paths whose conditions are satisfiable
  canceled,      \* the cancellation token was requested
  late,          \* max_time_ms has passed
  full,          \* result.states has reached max_states
  tags,          \* the facts the taint pass did find
  influences,    \* pairs with an entry in result.influences
  pair, found, quota,  \* find_paths: its pair, paths found, and its max_paths
  seen,          \* history: paths found by the search
  candidates,    \* candidate_paths
  checked,       \* candidates taken by the checking loop
  queries,       \* result.queries
  sawUnknown,    \* saw_unknown
  refuted,       \* history: candidates the solver found unsatisfiable
  evidence,      \* the paths that result.path, constraints and witnesses are from
  completion, verdict, exit

query  == <<mode, reach, limit, budget, whole, facts, feasible>>
clocks == <<canceled, late>>
search == <<pair, found, quota, seen, candidates>>
check  == <<checked, queries, sawUnknown, refuted, evidence>>
vars == <<pc, mode, reach, limit, budget, whole, facts, feasible, canceled, late,
          full, tags, influences, pair, found, quota, seen, candidates, checked,
          queries, sawUnknown, refuted, evidence, completion, verdict, exit>>

PCs == {"resolve", "taint", "search", "judge", "check", "answer", "done"}

TypeOK ==
  /\ pc \in PCs
  /\ mode \in Modes /\ reach \subseteq Pairs /\ limit \in Limits /\ budget \in Budgets
  /\ whole \in BOOLEAN /\ canceled \in BOOLEAN /\ late \in BOOLEAN
  /\ full \in BOOLEAN /\ sawUnknown \in BOOLEAN
  /\ tags \subseteq facts /\ facts \subseteq Facts /\ feasible \subseteq Paths
  /\ influences \subseteq Pairs
  /\ pair \in 1 .. NumPairs + 1 /\ found \in Nat /\ quota \in Nat
  /\ seen \subseteq Paths /\ candidates \in Seq(Paths)
  /\ checked \in 0 .. Len(candidates) /\ queries \in 0 .. checked
  /\ refuted \subseteq Paths /\ evidence \subseteq Paths
  /\ completion \in Completions /\ verdict \in Verdicts
  /\ exit \in {"none", "complete", "failure", "partial"}

\* A fact is about a reach target's conditions or another target's value.
Init ==
  /\ pc = "resolve"
  /\ mode \in Modes /\ reach \in SUBSET Pairs
  /\ limit \in Limits /\ budget \in Budgets /\ whole \in BOOLEAN
  /\ facts \in SUBSET {f \in Facts : (f[2] = 0) <=> (f[1] \notin reach)}
  /\ feasible \in SUBSET Paths
  /\ canceled = FALSE /\ late = FALSE /\ full = FALSE
  /\ tags = {} /\ influences = {}
  /\ pair = 1 /\ found = 0 /\ quota = 0 /\ seen = {} /\ candidates = <<>>
  /\ checked = 0 /\ queries = 0 /\ sawUnknown = FALSE /\ refuted = {}
  /\ evidence = {}
  /\ completion = "complete" /\ verdict = "unknown" /\ exit = "none"

-----------------------------------------------------------------------------
\* stopped(): the first reason that holds is the one reported.
Stopped == canceled \/ late \/ full
StopReason == IF canceled THEN "canceled" ELSE IF late THEN "timeout" ELSE "limited"

\* The token and the clock change under directed_flow at any time before it
\* answers; neither goes back.
Cancel ==
  /\ pc \notin {"answer", "done"} /\ ~ canceled /\ canceled' = TRUE
  /\ UNCHANGED <<query, search, check, pc, late, full, tags, influences,
                 completion, verdict, exit>>

Expire ==
  /\ pc \notin {"answer", "done"} /\ ~ late /\ late' = TRUE
  /\ UNCHANGED <<query, search, check, pc, canceled, full, tags, influences,
                 completion, verdict, exit>>

-----------------------------------------------------------------------------
\* No source, target or module, or a selector that resolves to nothing, ends
\* the query; a selector longer than max_taint_bytes limits it.
Resolve ==
  /\ pc = "resolve"
  /\ \/ pc' = "answer" /\ completion' = "failed"
     \/ pc' = "taint" /\ completion' \in {"complete", "limited"}
  /\ UNCHANGED <<query, clocks, search, check, full, tags, influences, verdict,
                 exit>>

\* The pairs whose target value carries a tag of the source.
ValuePairs(found_facts) == {q \in Pairs : <<q, 0>> \in found_facts}

\* Variant of Enough: one candidate too late.
EnoughLate == Len(candidates) > limit

\* The candidates of all pairs are enough: tested before each source and each target,
\* and after each candidate.
Enough == Len(candidates) >= limit

\* What the search may still add for a pair that starts now.  find_paths takes a
\* quota of 0 for the limit's default, at least one path: Enough keeps it from that.
Quota == IF Len(candidates) < limit THEN limit - Len(candidates) ELSE 1

\* The propagation loop ends because a pass changed nothing.
TaintFixpoint ==
  /\ pc = "taint" /\ pc' = "search"
  /\ tags' = facts /\ influences' = ValuePairs(facts)
  /\ quota' = Quota
  /\ UNCHANGED <<query, clocks, check, full, pair, found, seen, candidates,
                 completion, verdict, exit>>

\* It ends because stopped() said so, with the tags it has by then.
TaintStopped ==
  /\ pc = "taint" /\ pc' = "search"
  /\ full' \in BOOLEAN /\ UNCHANGED clocks
  /\ Stopped'
  /\ tags' \in SUBSET facts /\ influences' = ValuePairs(tags')
  /\ completion' = StopReason'
  /\ quota' = Quota
  /\ UNCHANGED <<query, check, pair, found, seen, candidates, verdict, exit>>

-----------------------------------------------------------------------------
\* A path whose conditions carry the source's tag is an influence on a reach
\* target; a path is a candidate when its pair has an influence by then.
Influences(path) ==
  IF path[1] \in reach /\ mode # "symbolic" /\ path \in tags
  THEN influences \cup {path[1]} ELSE influences

SearchOver == canceled \/ late

\* find_paths takes the pair's next path.
FindPath ==
  /\ pc = "search" /\ ~ SearchOver
  /\ found < PathCount[pair] /\ found < quota /\ ~ Enough
  /\ LET path == <<pair, found + 1>>
     IN  /\ influences' = Influences(path)
         /\ candidates' = IF mode = "symbolic" \/ pair \in influences'
                          THEN Append(candidates, path) ELSE candidates
         /\ seen' = seen \cup {path}
  /\ found' = found + 1
  /\ UNCHANGED <<query, clocks, check, pc, full, tags, pair, quota, completion,
                 verdict, exit>>

NextPair ==
  /\ pair' = pair + 1 /\ found' = 0 /\ quota' = Quota
  /\ pc' = IF pair = NumPairs \/ Enough THEN "judge" ELSE "search"

\* find_paths returns: its queue is empty, it has max_paths paths, or the token
\* or the clock stopped it; or the candidates are enough.  None of these touches
\* the completion.
EndSearch ==
  /\ pc = "search"
  /\ found = PathCount[pair] \/ found = quota \/ SearchOver \/ Enough
  /\ NextPair
  /\ UNCHANGED <<query, clocks, check, full, tags, influences, seen, candidates,
                 completion, verdict, exit>>

\* find_paths returns because it used max_states search states.
LimitSearch ==
  /\ pc = "search" /\ found < quota /\ ~ SearchOver
  /\ completion' = IF completion = "complete" THEN "limited" ELSE completion
  /\ NextPair
  /\ UNCHANGED <<query, clocks, check, full, tags, influences, seen, candidates,
                 verdict, exit>>

-----------------------------------------------------------------------------
\* An incomplete session makes a complete answer unknown.
\* Variant of Judged: the session's completeness is not consulted.
JudgedBlindly == completion

Judged == IF completion = "complete" /\ ~ whole THEN "unknown" ELSE completion

\* Variant of OrUnknown: the verdict does not depend on the completion.
OrUnknownNever(v) == v

OrUnknown(v) == IF Judged = "complete" THEN v ELSE "unknown"

\* Every answer that needs no solver.
Judge ==
  /\ pc = "judge"
  /\ \/ /\ mode = "taint"
        /\ verdict' = IF influences # {} THEN "may_flow" ELSE OrUnknown("no_flow")
        /\ completion' = Judged /\ pc' = "answer"
     \/ /\ mode = "taint_symbolic" /\ influences = {}
        /\ verdict' = OrUnknown("no_flow")
        /\ completion' = Judged /\ pc' = "answer"
     \/ /\ mode = "taint_symbolic" /\ influences # {} /\ candidates = <<>>
        /\ verdict' = "unknown" /\ completion' = "unknown" /\ pc' = "answer"
     \/ /\ mode = "symbolic" /\ candidates = <<>>
        /\ verdict' = OrUnknown("infeasible")
        /\ completion' = Judged /\ pc' = "answer"
     \/ /\ mode # "taint" /\ candidates # <<>>
        /\ mode = "taint_symbolic" => influences # {}
        /\ completion' = Judged /\ pc' = "check"
        /\ UNCHANGED verdict
  /\ UNCHANGED <<query, clocks, search, check, full, tags, influences, exit>>

-----------------------------------------------------------------------------
(* The checking loop over candidate_paths.                                 *)

BudgetSpent == budget # 0 /\ queries >= budget
Continues == pc = "check" /\ checked < Len(candidates) /\ ~ Stopped /\ ~ BudgetSpent

\* Variant of TakeCandidate: what the last candidate left is kept.
TakeCandidateKeeping ==
  /\ checked' = checked + 1
  /\ evidence' = evidence \cup {candidates[checked + 1]}

\* The loop materialises the next candidate and clears what the last one left.
TakeCandidate ==
  /\ checked' = checked + 1
  /\ evidence' = {candidates[checked + 1]}

\* Variant of CheckUntranslatable: the completion is left alone.
CheckUntranslatableSilent ==
  /\ Continues /\ TakeCandidate
  /\ sawUnknown' = (sawUnknown \/ verdict = "unknown")
  /\ UNCHANGED <<query, clocks, search, pc, full, tags, influences, queries,
                 refuted, completion, verdict, exit>>

\* run_symbolic returns before its query: no solver context, no entry block, no
\* path state, or a condition it cannot translate.  It leaves the verdict as
\* the last candidate left it.
CheckUntranslatable ==
  /\ Continues /\ TakeCandidate
  /\ completion' = "unknown"
  /\ sawUnknown' = (sawUnknown \/ verdict = "unknown")
  /\ UNCHANGED <<query, clocks, search, pc, full, tags, influences, queries,
                 refuted, verdict, exit>>

\* Variant of CheckUnknown: the loop forgets that it saw one.
CheckUnknownForgotten ==
  /\ Continues /\ TakeCandidate
  /\ queries' = queries + 1
  /\ completion' \in {"timeout", "unknown"}
  /\ verdict' = "unknown"
  /\ UNCHANGED <<query, clocks, search, pc, full, tags, influences, sawUnknown,
                 refuted, exit>>

\* The solver gives no answer: its time ran out, or it failed or did not know.
CheckUnknown ==
  /\ Continues /\ TakeCandidate
  /\ queries' = queries + 1
  /\ completion' \in {"timeout", "unknown"}
  /\ verdict' = "unknown" /\ sawUnknown' = TRUE
  /\ UNCHANGED <<query, clocks, search, pc, full, tags, influences, refuted, exit>>

CheckUnsat ==
  /\ Continues /\ TakeCandidate
  /\ candidates[checked + 1] \notin feasible
  /\ queries' = queries + 1
  /\ verdict' = "infeasible"
  /\ refuted' = refuted \cup {candidates[checked + 1]}
  /\ UNCHANGED <<query, clocks, search, pc, full, tags, influences, sawUnknown,
                 completion, exit>>

\* Variant of CheckSat: a query is counted before and after it is made.
CheckSatCounted ==
  /\ Continues /\ TakeCandidate
  /\ candidates[checked + 1] \in feasible
  /\ queries' = queries + 2
  /\ verdict' = "feasible_flow" /\ pc' = "answer"
  /\ UNCHANGED <<query, clocks, search, full, tags, influences, sawUnknown,
                 refuted, completion, exit>>

\* The first satisfiable candidate ends the loop.
CheckSat ==
  /\ Continues /\ TakeCandidate
  /\ candidates[checked + 1] \in feasible
  /\ queries' = queries + 1
  /\ verdict' = "feasible_flow" /\ pc' = "answer"
  /\ UNCHANGED <<query, clocks, search, full, tags, influences, sawUnknown,
                 refuted, completion, exit>>

\* Variant of EndCheck: a loop that was not stopped is complete.
EndCheckComplete ==
  /\ pc = "check" /\ ~ Continues
  /\ completion' = IF checked < Len(candidates) /\ Stopped THEN StopReason
                   ELSE IF sawUnknown THEN completion ELSE "complete"
  /\ verdict' = IF sawUnknown THEN "unknown" ELSE "infeasible"
  /\ pc' = "answer"
  /\ UNCHANGED <<query, clocks, search, check, full, tags, influences, exit>>

\* The loop ran out of candidates, was stopped, or has no query left; without a
\* feasible candidate the verdict is unknown only if one was seen unknown.
EndCheck ==
  /\ pc = "check" /\ ~ Continues
  /\ completion' = IF checked < Len(candidates) /\ Stopped THEN StopReason
                   ELSE completion
  /\ verdict' = IF sawUnknown THEN "unknown" ELSE "infeasible"
  /\ pc' = "answer"
  /\ UNCHANGED <<query, clocks, search, check, full, tags, influences, exit>>

\* The flow command's exit code.
Exit ==
  /\ pc = "answer" /\ pc' = "done"
  /\ exit' = CASE completion = "failed"   -> "failure"
               [] completion = "complete" -> "complete"
               [] OTHER                   -> "partial"
  /\ UNCHANGED <<query, clocks, search, check, full, tags, influences,
                 completion, verdict>>

Phases == \/ Resolve \/ TaintFixpoint \/ TaintStopped \/ FindPath \/ EndSearch
          \/ LimitSearch \/ Judge
Checks == \/ CheckUntranslatable \/ CheckUnknown \/ CheckUnsat \/ CheckSat
          \/ EndCheck
Terminated == pc = "done" /\ UNCHANGED vars

Next == Phases \/ Checks \/ Exit \/ Cancel \/ Expire \/ Terminated

Spec == Init /\ [][Next]_vars

-----------------------------------------------------------------------------
(* Properties.                                                             *)

Candidates == {candidates[i] : i \in 1 .. Len(candidates)}

\* A feasible verdict comes with one satisfiable candidate, and the path, the
\* constraints and the witnesses of the answer are all that candidate's: none
\* is left over from a candidate checked before it.
FeasibleHasEvidence ==
  verdict = "feasible_flow" =>
    \E path \in Candidates \cap feasible : evidence = {path}

\* An infeasible verdict never hides a query the solver left unanswered: every
\* query that was made came back unsatisfiable.
InfeasibleQueriesRefuted ==
  pc = "done" /\ verdict = "infeasible" => queries = Cardinality(refuted)

\* What an infeasible answer with exit code 0 can be relied on for: unless the
\* query budget was used up, no path the search saw is feasible, or in the
\* taint-symbolic mode none that carries the source's taint to the target or in
\* its conditions.  No path was lost between the search, the influences and the
\* checking loop.
InfeasibleTrusted ==
  exit = "complete" /\ verdict = "infeasible" /\ ~ BudgetSpent =>
    \A path \in seen \cap feasible :
      mode # "symbolic" /\ path \notin facts /\ <<path[1], 0>> \notin facts

\* A no-flow answer is wrong at most about the conditions of paths the search
\* did not reach.
NoFlowTrusted == verdict = "no_flow" => facts \subseteq Paths \ seen

\* Exit code 0 means the session was complete and the taint pass reached its
\* fixpoint, whichever phase was interrupted.
CompleteIsFixpoint == exit = "complete" => whole /\ tags = facts

\* Max-paths bounds the candidates of all pairs together, although each search is
\* given a quota of its own and a quota of 0 would be none.
CandidatesBounded == Len(candidates) <= limit

\* No phase makes an answer complete again once another one degraded it.
CompletionSticks == [][completion # "complete" => completion' # "complete"]_vars

-----------------------------------------------------------------------------
\* The query as its caller sees it: the phases are work, the exit is the reply.
Answer == INSTANCE FlowAnswer WITH
  known <- tags, asked <- queries, degraded <- (completion # "complete"),
  reply <- IF pc = "done" THEN [verdict |-> verdict, exit |-> exit]
           ELSE [verdict |-> "none", exit |-> "none"]

\* The five phases, interrupted anywhere, keep what the caller is promised: each
\* verdict and exit code is justified by what the finished work found out, and
\* no work is undone (directed_flow.cpp:1612-1813).
ImplementsFlowAnswer == Answer!Spec

-----------------------------------------------------------------------------
(* Statements of the repository's documents that the code does not keep.   *)

\* README.md:256: exit code 0 is a "Complete result", and benchmark-tool-instructions
\* .md:82: "Exit 0 means complete": an infeasible answer given with it is the same as
\* the solver's for every bounded path, a no-flow answer means the fixpoint has none.
CompleteIsDecided ==
  exit = "complete" => /\ verdict = "infeasible" => feasible = {}
                       /\ verdict = "no_flow" => facts = {}
=============================================================================
