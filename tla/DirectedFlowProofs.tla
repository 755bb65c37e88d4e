-------------------------- MODULE DirectedFlowProofs --------------------------
(***************************************************************************)
(* Proofs about DirectedFlow, for every number of source/target pairs, of  *)
(* paths per pair, and for all values of the limits.                       *)
(***************************************************************************)
EXTENDS DirectedFlow, FiniteSetTheorems, TLAPS

\* A path has a pair and a positive number within the pair's count.
LEMMA PathFacts ==
  /\ NumPairs \in Nat \ {0}
  /\ \A q \in Pairs : PathCount[q] \in Nat
  /\ \A q \in Pairs : \A k \in 0 .. PathCount[q] : <<q, k>> \in Facts
  /\ \A q \in Pairs : \A k \in 1 .. PathCount[q] : <<q, k>> \in Paths
  /\ \A f \in Facts : f[1] \in Pairs
  /\ Paths \subseteq Facts
<1>1. NumPairs \in Nat \ {0} /\ \A q \in Pairs : PathCount[q] \in Nat
  BY FlowAssumption DEF FlowAssumption, NumPairs, Pairs
<1>2. \A q \in Pairs : \A k \in 0 .. PathCount[q] : <<q, k>> \in Facts
  BY DEF Facts
<1>3. \A q \in Pairs : \A k \in 1 .. PathCount[q] : <<q, k>> \in Paths
  <2> SUFFICES ASSUME NEW q \in Pairs, NEW k \in 1 .. PathCount[q]
               PROVE  <<q, k>> \in Paths
    OBVIOUS
  <2>1. k \in 0 .. PathCount[q] /\ k # 0 /\ <<q, k>>[2] = k
    BY <1>1
  <2> QED
    BY <1>2, <2>1 DEF Paths
<1>4. \A f \in Facts : f[1] \in Pairs
  BY DEF Facts
<1> QED
  BY <1>1, <1>2, <1>3, <1>4 DEF Paths

-----------------------------------------------------------------------------
\* The Boolean part of the types.
Flags ==
  /\ whole \in BOOLEAN /\ canceled \in BOOLEAN /\ late \in BOOLEAN
  /\ full \in BOOLEAN /\ sawUnknown \in BOOLEAN

\* The search is inside the pairs, and what it has found and may still find
\* for its pair stays within the limit.
SearchScope ==
  /\ pc = "search" => pair \in Pairs
  /\ pair \notin Pairs => pc \notin {"resolve", "taint", "search"}
  /\ pc \in {"resolve", "taint"} => pair = 1 /\ found = 0 /\ candidates = <<>>
  /\ pc = "search" => found <= quota /\ Len(candidates) + quota <= limit + found
  /\ CandidatesBounded

\* Nothing is degraded before the taint phase, and a degraded completion never
\* reaches the exit code as complete.
Degradation ==
  /\ pc = "resolve" => completion = "complete"
  /\ pc \in {"search", "judge"} /\ completion = "complete" => tags = facts
  /\ pc \in {"check", "answer", "done"} /\ completion = "complete" =>
       whole /\ tags = facts
  /\ exit = "complete" => pc = "done" /\ completion = "complete"

\* A feasible verdict ends the query with its candidate's evidence.
Evidence ==
  /\ FeasibleHasEvidence
  /\ verdict = "feasible_flow" => pc \in {"answer", "done"}

FlowInv == TypeOK /\ SearchScope /\ Degradation /\ Evidence

-----------------------------------------------------------------------------
\* The invariant holds initially.
LEMMA InitFlowInv == Init => FlowInv
<1> SUFFICES ASSUME Init PROVE FlowInv
  OBVIOUS
<1> USE FlowAssumption, PathFacts DEF FlowAssumption, Init
<1>1. TypeOK
  <2>1. facts \subseteq Facts
    OBVIOUS
  <2>2. candidates \in Seq(Paths) /\ Len(candidates) = 0
    OBVIOUS
  <2>3. Flags
    BY Zenon DEF Flags
  <2>4. limit \in Limits /\ budget \in Budgets /\ feasible \subseteq Paths
    OBVIOUS
  <2> QED
    BY <2>1, <2>2, <2>3, <2>4 DEF TypeOK, Flags, PCs, Completions, Verdicts
<1>2. SearchScope
  BY DEF SearchScope, CandidatesBounded, Pairs
<1>3. Degradation /\ Evidence
  BY DEF Degradation, Evidence, FeasibleHasEvidence
<1> QED
  BY <1>1, <1>2, <1>3 DEF FlowInv

\* What appending a path makes of the candidates.
LEMMA AppendPath ==
  ASSUME NEW s \in Seq(Paths), NEW path \in Paths, NEW t \in {s, Append(s, path)}
  PROVE  /\ t \in Seq(Paths)
         /\ Len(s) \in Nat /\ Len(t) \in {Len(s), Len(s) + 1}
OBVIOUS

\* The types are kept.
LEMMA StepFlowTypes == FlowInv /\ [Next]_vars => TypeOK'
<1> SUFFICES ASSUME FlowInv, [Next]_vars PROVE TypeOK'
  OBVIOUS
<1> USE FlowAssumption, PathFacts
    DEF FlowAssumption, FlowInv, TypeOK, SearchScope, PCs, Completions, Verdicts,
        query, clocks, search, check
<1>a. ASSUME NextPair, pc = "search", UNCHANGED candidates
      PROVE  /\ pair' \in 1 .. NumPairs + 1 /\ found' \in Nat /\ quota' \in Nat
             /\ pc' \in {"judge", "search"}
  <2>1. Len(candidates) \in Nat /\ Len(candidates) <= limit /\ limit \in Nat
    BY DEF CandidatesBounded
  <2>2. pair \in 1 .. NumPairs
    BY <1>a DEF Pairs
  <2> QED
    BY <1>a, <2>1, <2>2 DEF NextPair, Quota, Enough
<1>1. CASE Cancel
  BY <1>1 DEF Cancel
<1>2. CASE Expire
  BY <1>2 DEF Expire
<1>3. CASE Resolve
  BY <1>3 DEF Resolve
<1>4. CASE TaintFixpoint
  BY <1>4 DEF TaintFixpoint, Quota, Enough, ValuePairs
<1>5. CASE TaintStopped
  BY <1>5 DEF TaintStopped, Quota, Enough, ValuePairs, StopReason
<1>6. CASE FindPath
  <2> DEFINE path == <<pair, found + 1>>
  <2>1. path \in Paths /\ path[1] \in Pairs
    <3>1. pair \in Pairs /\ found < PathCount[pair]
      BY <1>6 DEF FindPath
    <3>2. found \in Nat /\ PathCount[pair] \in Nat
      BY <3>1
    <3>3. found + 1 \in 1 .. PathCount[pair]
      BY <3>1, <3>2
    <3> QED
      BY <3>1, <3>3
  <2>2. Influences(path) \subseteq Pairs
    BY <2>1 DEF Influences
  <2> HIDE DEF path
  <2>3. influences' \subseteq Pairs /\ seen' \subseteq Paths
    BY <1>6, <2>1, <2>2 DEF FindPath, path
  <2>4. /\ candidates' \in Seq(Paths)
        /\ Len(candidates) \in Nat /\ Len(candidates') \in {Len(candidates), Len(candidates) + 1}
    <3>1. candidates' \in {candidates, Append(candidates, path)}
      BY <1>6 DEF FindPath, path
    <3> QED
      BY <2>1, <3>1, AppendPath
  <2>5. checked' \in 0 .. Len(candidates') /\ queries' \in 0 .. checked'
    BY <1>6, <2>4 DEF FindPath
  <2>6. found' \in Nat /\ tags' = tags /\ facts' = facts /\ Flags'
    BY <1>6 DEF FindPath, Flags
  <2>7. UNCHANGED <<query, clocks, check, pc, full, tags, pair, quota, completion,
                    verdict, exit>>
    BY <1>6 DEF FindPath
  <2> QED
    BY <2>3, <2>4, <2>5, <2>6, <2>7
<1>7. CASE EndSearch
  <2>1. NextPair /\ pc = "search" /\ UNCHANGED candidates
    BY <1>7 DEF EndSearch
  <2>2. /\ pair' \in 1 .. NumPairs + 1 /\ found' \in Nat /\ quota' \in Nat
        /\ pc' \in PCs
    BY <1>a, <2>1
  <2>3. UNCHANGED <<query, clocks, check, full, tags, influences, seen, candidates,
                    completion, verdict, exit>>
    BY <1>7 DEF EndSearch
  <2> QED
    BY <2>2, <2>3
<1>8. CASE LimitSearch
  <2>1. NextPair /\ pc = "search" /\ UNCHANGED candidates
    BY <1>8 DEF LimitSearch
  <2>2. /\ pair' \in 1 .. NumPairs + 1 /\ found' \in Nat /\ quota' \in Nat
        /\ pc' \in PCs
    BY <1>a, <2>1
  <2> QED
    BY <1>8, <2>1, <2>2 DEF LimitSearch
<1>9. CASE Judge
  BY <1>9 DEF Judge, Judged, OrUnknown
<1>10. CASE CheckUntranslatable
  BY <1>10 DEF CheckUntranslatable, TakeCandidate, Continues
<1>11. CASE CheckUnknown
  BY <1>11 DEF CheckUnknown, TakeCandidate, Continues
<1>12. CASE CheckUnsat
  BY <1>12 DEF CheckUnsat, TakeCandidate, Continues
<1>13. CASE CheckSat
  BY <1>13 DEF CheckSat, TakeCandidate, Continues
<1>14. CASE EndCheck
  BY <1>14 DEF EndCheck, StopReason
<1>15. CASE Exit
  BY <1>15 DEF Exit
<1>16. CASE UNCHANGED vars
  BY <1>16 DEF vars
<1> QED
  BY <1>1, <1>2, <1>3, <1>4, <1>5, <1>6, <1>7, <1>8, <1>9, <1>10, <1>11, <1>12,
     <1>13, <1>14, <1>15, <1>16
  DEF Next, Phases, Checks, Terminated

\* The search stays within its pairs and its limit.
LEMMA StepSearch == FlowInv /\ [Next]_vars => SearchScope'
<1> SUFFICES ASSUME FlowInv, [Next]_vars PROVE SearchScope'
  OBVIOUS
<1>a. /\ limit \in Nat \ {0} /\ quota \in Nat /\ found \in Nat
      /\ candidates \in Seq(Paths) /\ pair \in 1 .. NumPairs + 1 /\ pc \in PCs
  BY FlowAssumption DEF FlowAssumption, FlowInv, TypeOK
<1>b. Pairs = 1 .. NumPairs /\ NumPairs \in Nat \ {0}
  BY PathFacts DEF Pairs
<1> USE <1>a, <1>b DEF FlowInv, SearchScope, CandidatesBounded, PCs,
        query, clocks, search, check
<1>1. CASE Cancel
  BY <1>1 DEF Cancel
<1>2. CASE Expire
  BY <1>2 DEF Expire
<1>3. CASE Resolve
  BY <1>3 DEF Resolve
<1>4. CASE TaintFixpoint
  BY <1>4 DEF TaintFixpoint, Quota, Enough, ValuePairs
<1>5. CASE TaintStopped
  BY <1>5 DEF TaintStopped, Quota, Enough, ValuePairs, StopReason
<1>6. CASE FindPath
  BY <1>6, PathFacts DEF FindPath, Influences
<1>7. CASE EndSearch
  BY <1>7 DEF EndSearch, NextPair, Quota, Enough
<1>8. CASE LimitSearch
  BY <1>8 DEF LimitSearch, NextPair, Quota, Enough
<1>9. CASE Judge
  BY <1>9 DEF Judge, Judged, OrUnknown
<1>10. CASE CheckUntranslatable
  BY <1>10 DEF CheckUntranslatable, TakeCandidate, Continues
<1>11. CASE CheckUnknown
  BY <1>11 DEF CheckUnknown, TakeCandidate, Continues
<1>12. CASE CheckUnsat
  BY <1>12 DEF CheckUnsat, TakeCandidate, Continues
<1>13. CASE CheckSat
  BY <1>13 DEF CheckSat, TakeCandidate, Continues
<1>14. CASE EndCheck
  BY <1>14 DEF EndCheck, StopReason
<1>15. CASE Exit
  BY <1>15 DEF Exit
<1>16. CASE UNCHANGED vars
  BY <1>16 DEF vars
<1> QED
  BY <1>1, <1>2, <1>3, <1>4, <1>5, <1>6, <1>7, <1>8, <1>9, <1>10, <1>11, <1>12,
     <1>13, <1>14, <1>15, <1>16
  DEF Next, Phases, Checks, Terminated

\* A degraded completion stays degraded.
LEMMA StepDegradation == FlowInv /\ [Next]_vars => Degradation'
<1> SUFFICES ASSUME FlowInv, [Next]_vars PROVE Degradation'
  OBVIOUS
<1> USE DEF FlowInv, Degradation, query, clocks, search, check
<1>1. CASE Cancel
  BY <1>1 DEF Cancel
<1>2. CASE Expire
  BY <1>2 DEF Expire
<1>3. CASE Resolve
  BY <1>3 DEF Resolve
<1>4. CASE TaintFixpoint
  BY <1>4 DEF TaintFixpoint, Quota, Enough, ValuePairs
<1>5. CASE TaintStopped
  BY <1>5 DEF TaintStopped, Quota, Enough, ValuePairs, StopReason
<1>6. CASE FindPath
  BY <1>6 DEF FindPath, Influences
<1>7. CASE EndSearch
  BY <1>7 DEF EndSearch, NextPair, Quota, Enough
<1>8. CASE LimitSearch
  BY <1>8 DEF LimitSearch, NextPair, Quota, Enough
<1>9. CASE Judge
  BY <1>9 DEF Judge, Judged, OrUnknown
<1>10. CASE CheckUntranslatable
  BY <1>10 DEF CheckUntranslatable, TakeCandidate, Continues
<1>11. CASE CheckUnknown
  BY <1>11 DEF CheckUnknown, TakeCandidate, Continues
<1>12. CASE CheckUnsat
  BY <1>12 DEF CheckUnsat, TakeCandidate, Continues
<1>13. CASE CheckSat
  BY <1>13 DEF CheckSat, TakeCandidate, Continues
<1>14. CASE EndCheck
  BY <1>14 DEF EndCheck, StopReason
<1>15. CASE Exit
  BY <1>15 DEF Exit
<1>16. CASE UNCHANGED vars
  BY <1>16 DEF vars
<1> QED
  BY <1>1, <1>2, <1>3, <1>4, <1>5, <1>6, <1>7, <1>8, <1>9, <1>10, <1>11, <1>12,
     <1>13, <1>14, <1>15, <1>16
  DEF Next, Phases, Checks, Terminated

\* Evidence is the feasible candidate's.
LEMMA StepEvidence == FlowInv /\ [Next]_vars => Evidence'
<1> SUFFICES ASSUME FlowInv, [Next]_vars PROVE Evidence'
  OBVIOUS
<1> USE DEF FlowInv, Evidence, FeasibleHasEvidence, Candidates, query, clocks, search, check
<1>1. CASE Cancel
  BY <1>1 DEF Cancel
<1>2. CASE Expire
  BY <1>2 DEF Expire
<1>3. CASE Resolve
  BY <1>3 DEF Resolve
<1>4. CASE TaintFixpoint
  BY <1>4 DEF TaintFixpoint, Quota, Enough, ValuePairs
<1>5. CASE TaintStopped
  BY <1>5 DEF TaintStopped, Quota, Enough, ValuePairs, StopReason
<1>6. CASE FindPath
  BY <1>6 DEF FindPath, Influences
<1>7. CASE EndSearch
  BY <1>7 DEF EndSearch, NextPair, Quota, Enough
<1>8. CASE LimitSearch
  BY <1>8 DEF LimitSearch, NextPair, Quota, Enough
<1>9. CASE Judge
  BY <1>9 DEF Judge, Judged, OrUnknown
<1>10. CASE CheckUntranslatable
  BY <1>10 DEF CheckUntranslatable, TakeCandidate, Continues
<1>11. CASE CheckUnknown
  BY <1>11 DEF CheckUnknown, TakeCandidate, Continues
<1>12. CASE CheckUnsat
  BY <1>12 DEF CheckUnsat, TakeCandidate, Continues
<1>13. CASE CheckSat
  <2>1. checked \in Nat /\ candidates \in Seq(Paths) /\ checked < Len(candidates)
    BY <1>13 DEF CheckSat, Continues, TypeOK
  <2>2. checked + 1 \in 1 .. Len(candidates)
    BY <2>1
  <2>3. candidates[checked + 1] \in Candidates \cap feasible
    BY <1>13, <2>2 DEF CheckSat
  <2>4. UNCHANGED <<candidates, feasible>> /\ evidence' = {candidates[checked + 1]}
    BY <1>13 DEF CheckSat, TakeCandidate
  <2>5. pc' = "answer"
    BY <1>13 DEF CheckSat
  <2> QED
    BY <2>3, <2>4, <2>5
<1>14. CASE EndCheck
  BY <1>14 DEF EndCheck, StopReason
<1>15. CASE Exit
  BY <1>15 DEF Exit
<1>16. CASE UNCHANGED vars
  BY <1>16 DEF vars
<1> QED
  BY <1>1, <1>2, <1>3, <1>4, <1>5, <1>6, <1>7, <1>8, <1>9, <1>10, <1>11, <1>12,
     <1>13, <1>14, <1>15, <1>16
  DEF Next, Phases, Checks, Terminated

\* Together: a step keeps the invariant.
LEMMA StepFlowInv == FlowInv /\ [Next]_vars => FlowInv'
  BY StepFlowTypes, StepSearch, StepDegradation, StepEvidence DEF FlowInv

\* Every reachable state satisfies it.
LEMMA FlowInvariance == Spec => []FlowInv
  BY InitFlowInv, StepFlowInv, PTL DEF Spec

-----------------------------------------------------------------------------
\* The types hold of every reachable state.
THEOREM FlowTypeCorrect == Spec => []TypeOK
  BY FlowInvariance, PTL DEF FlowInv

\* The candidates of all pairs together never exceed the resolved --max-paths.
THEOREM CandidatesWithinLimit == Spec => []CandidatesBounded
  BY FlowInvariance, PTL DEF FlowInv, SearchScope

\* A feasible verdict has one satisfiable candidate, and only its evidence.
THEOREM FeasibleEvidence == Spec => []FeasibleHasEvidence
  BY FlowInvariance, PTL DEF FlowInv, Evidence

\* Exit code 0 implies a complete session and a taint pass at its fixpoint.
THEOREM ExitZeroIsFixpoint == Spec => []CompleteIsFixpoint
<1>1. FlowInv => CompleteIsFixpoint
  BY DEF FlowInv, Degradation, CompleteIsFixpoint
<1> QED
  BY <1>1, FlowInvariance, PTL

\* A completion that is not complete never becomes complete again.
THEOREM DegradedStays == Spec => CompletionSticks
<1>1. FlowInv /\ [Next]_vars => [completion # "complete" => completion' # "complete"]_vars
  <2> SUFFICES ASSUME FlowInv, Next, completion # "complete"
               PROVE  completion' # "complete"
    BY DEF vars
  <2>1. CASE Phases
    BY <2>1 DEF Phases, Resolve, TaintFixpoint, TaintStopped, StopReason, FindPath,
       EndSearch, LimitSearch, Judge, Judged, FlowInv, Degradation
  <2>2. CASE Checks
    BY <2>2 DEF Checks, CheckUntranslatable, CheckUnknown, CheckUnsat, CheckSat,
       EndCheck, StopReason
  <2>3. CASE Exit \/ Cancel \/ Expire \/ Terminated
    BY <2>3 DEF Exit, Cancel, Expire, Terminated, vars
  <2> QED
    BY <2>1, <2>2, <2>3 DEF Next
<1> QED
  BY <1>1, FlowInvariance, PTL DEF Spec, CompletionSticks

-----------------------------------------------------------------------------
(* What an answer without a path can be relied on for.                     *)

\* A fact is about a reach target's conditions or another target's value.
FactShape == \A f \in facts : f[2] = 0 <=> f[1] \notin reach

\* A tag that reached its target is an influence, and a path that was found and
\* is relevant to the mode is a candidate.
Tracked ==
  /\ pc \in {"resolve", "taint"} => seen = {} /\ tags = {}
  /\ pc \notin {"resolve", "taint"} => ValuePairs(tags) \subseteq influences
  /\ mode # "symbolic" => \A path \in seen \cap tags : path[1] \in influences
  /\ \A path \in seen :
       mode = "symbolic" \/ <<path[1], 0>> \in tags \/ path \in tags
         => path \in Candidates

\* A no-flow verdict is given without influences, over the fixpoint.
NoFlowGround ==
  verdict = "no_flow" =>
    /\ pc \in {"answer", "done"} /\ mode # "symbolic"
    /\ influences = {} /\ tags = facts

\* While the completion is complete every checked candidate was refuted.
Refuted ==
  /\ pc \in {"resolve", "taint", "search", "judge"} => checked = 0
  /\ pc = "check" /\ completion = "complete" =>
       \A i \in 1 .. checked : candidates[i] \notin feasible
  /\ /\ pc \in {"answer", "done"} /\ completion = "complete"
     /\ verdict = "infeasible" /\ ~ BudgetSpent
     => Candidates \cap feasible = {}

TrustInv == FactShape /\ Tracked /\ NoFlowGround /\ Refuted

\* They hold initially.
LEMMA InitTrustInv == Init => TrustInv
<1> SUFFICES ASSUME Init PROVE TrustInv
  OBVIOUS
<1> USE DEF Init
<1>1. FactShape /\ NoFlowGround
  BY DEF FactShape, NoFlowGround
<1>2. Tracked /\ Refuted
  BY DEF Tracked, Refuted
<1> QED
  BY <1>1, <1>2 DEF TrustInv

\* The facts and the targets are inputs.
LEMMA StepFactShape == FactShape /\ [Next]_vars => FactShape'
  BY DEF FactShape, Next, Phases, Checks, Terminated, vars, query, Cancel, Expire,
     Resolve, TaintFixpoint, TaintStopped, FindPath, EndSearch, LimitSearch, Judge,
     CheckUntranslatable, CheckUnknown, CheckUnsat, CheckSat, EndCheck, Exit

\* Influences and candidates keep up with the search.
LEMMA StepTracked == FlowInv /\ FactShape /\ Tracked /\ [Next]_vars => Tracked'
<1> SUFFICES ASSUME FlowInv, FactShape, Tracked, [Next]_vars PROVE Tracked'
  OBVIOUS
<1> USE DEF Tracked, Candidates, ValuePairs, query, clocks, search, check
<1>1. CASE Cancel
  BY <1>1 DEF Cancel
<1>2. CASE Expire
  BY <1>2 DEF Expire
<1>3. CASE Resolve
  BY <1>3 DEF Resolve
<1>4. CASE TaintFixpoint
  BY <1>4 DEF TaintFixpoint, ValuePairs
<1>5. CASE TaintStopped
  BY <1>5 DEF TaintStopped, ValuePairs, StopReason
<1>6. CASE FindPath
  <2> DEFINE path == <<pair, found + 1>>
  <2>a. /\ pc = "search" /\ pc' = pc /\ tags' = tags /\ mode' = mode
        /\ influences' = Influences(path) /\ seen' = seen \cup {path}
        /\ candidates' = IF mode = "symbolic" \/ pair \in influences'
                          THEN Append(candidates, path) ELSE candidates
    BY <1>6 DEF FindPath
  <2>b. candidates \in Seq(Paths) /\ tags \subseteq facts /\ found \in Nat /\ pair \in Nat
    BY DEF FlowInv, TypeOK
  <2>1. influences \subseteq influences'
    BY <2>a DEF Influences
  <2>2. mode # "symbolic" /\ path \in tags => pair \in influences'
    <3> SUFFICES ASSUME mode # "symbolic", path \in tags PROVE pair \in influences'
      OBVIOUS
    <3>1. path \in facts /\ path[1] = pair /\ path[2] # 0
      BY <2>b
    <3>2. pair \in reach
      BY <3>1 DEF FactShape
    <3> QED
      BY <2>a, <3>1, <3>2 DEF Influences
  <2>3. <<pair, 0>> \in tags => pair \in influences'
    <3> SUFFICES ASSUME <<pair, 0>> \in tags PROVE pair \in influences'
      OBVIOUS
    <3>1. pair \in Pairs
      BY <2>a DEF FlowInv, SearchScope
    <3> QED
      BY <2>1, <2>a, <3>1
  <2>4. Candidates \subseteq Candidates'
    <3>1. CASE candidates' = candidates
      BY <3>1
    <3>2. CASE candidates' = Append(candidates, path)
      BY <2>b, <3>2
    <3> QED
      BY <2>a, <3>1, <3>2
  <2>5. mode = "symbolic" \/ pair \in influences' => path \in Candidates'
    <3> SUFFICES ASSUME mode = "symbolic" \/ pair \in influences'
                 PROVE  path \in Candidates'
      OBVIOUS
    <3>1. candidates' = Append(candidates, path)
      BY <2>a
    <3>2. /\ Len(candidates') = Len(candidates) + 1 /\ Len(candidates) \in Nat
          /\ candidates'[Len(candidates) + 1] = path
      BY <2>b, <3>1
    <3> QED
      BY <3>2
  <2>6. \A p \in seen' :
          mode = "symbolic" \/ <<p[1], 0>> \in tags \/ p \in tags => p \in Candidates'
    <3> SUFFICES ASSUME NEW p \in seen',
                        mode = "symbolic" \/ <<p[1], 0>> \in tags \/ p \in tags
                 PROVE  p \in Candidates'
      OBVIOUS
    <3>1. CASE p \in seen
      BY <3>1, <2>4
    <3>2. CASE p = path
      <4>1. path[1] = pair
        OBVIOUS
      <4> QED
        BY <4>1, <3>2, <2>2, <2>3, <2>5
    <3> QED
      BY <2>a, <3>1, <3>2
  <2>7. mode # "symbolic" => \A p \in seen' \cap tags : p[1] \in influences'
    <3> SUFFICES ASSUME mode # "symbolic", NEW p \in seen' \cap tags
                 PROVE  p[1] \in influences'
      OBVIOUS
    <3>1. CASE p \in seen
      BY <3>1, <2>1
    <3>2. CASE p = path
      <4>1. path[1] = pair
        OBVIOUS
      <4> QED
        BY <4>1, <3>2, <2>2
    <3> QED
      BY <2>a, <3>1, <3>2
  <2>8. ValuePairs(tags) \subseteq influences
    BY <2>a
  <2> QED
    BY <2>a, <2>1, <2>6, <2>7, <2>8
<1>7. CASE EndSearch
  BY <1>7 DEF EndSearch, NextPair
<1>8. CASE LimitSearch
  BY <1>8 DEF LimitSearch, NextPair
<1>9. CASE Judge
  BY <1>9 DEF Judge, Judged, OrUnknown
<1>10. CASE CheckUntranslatable
  BY <1>10 DEF CheckUntranslatable, TakeCandidate, Continues
<1>11. CASE CheckUnknown
  BY <1>11 DEF CheckUnknown, TakeCandidate, Continues
<1>12. CASE CheckUnsat
  BY <1>12 DEF CheckUnsat, TakeCandidate, Continues
<1>13. CASE CheckSat
  BY <1>13 DEF CheckSat, TakeCandidate, Continues
<1>14. CASE EndCheck
  BY <1>14 DEF EndCheck, StopReason
<1>15. CASE Exit
  BY <1>15 DEF Exit
<1>16. CASE UNCHANGED vars
  BY <1>16 DEF vars
<1> QED
  BY <1>1, <1>2, <1>3, <1>4, <1>5, <1>6, <1>7, <1>8, <1>9, <1>10, <1>11, <1>12,
     <1>13, <1>14, <1>15, <1>16
  DEF Next, Phases, Checks, Terminated

\* A no-flow verdict keeps its ground.
LEMMA StepNoFlow == FlowInv /\ NoFlowGround /\ [Next]_vars => NoFlowGround'
<1> SUFFICES ASSUME FlowInv, NoFlowGround, [Next]_vars PROVE NoFlowGround'
  OBVIOUS
<1> USE DEF NoFlowGround, FlowInv, Degradation, query, clocks, search, check
<1>1. CASE Cancel
  BY <1>1 DEF Cancel
<1>2. CASE Expire
  BY <1>2 DEF Expire
<1>3. CASE Resolve
  BY <1>3 DEF Resolve
<1>4. CASE TaintFixpoint
  BY <1>4 DEF TaintFixpoint, ValuePairs
<1>5. CASE TaintStopped
  BY <1>5 DEF TaintStopped, ValuePairs, StopReason
<1>6. CASE FindPath
  BY <1>6 DEF FindPath, Influences
<1>7. CASE EndSearch
  BY <1>7 DEF EndSearch, NextPair
<1>8. CASE LimitSearch
  BY <1>8 DEF LimitSearch, NextPair
<1>9. CASE Judge
  BY <1>9 DEF Judge, Judged, OrUnknown
<1>10. CASE CheckUntranslatable
  BY <1>10 DEF CheckUntranslatable, TakeCandidate, Continues
<1>11. CASE CheckUnknown
  BY <1>11 DEF CheckUnknown, TakeCandidate, Continues
<1>12. CASE CheckUnsat
  BY <1>12 DEF CheckUnsat, TakeCandidate, Continues
<1>13. CASE CheckSat
  BY <1>13 DEF CheckSat, TakeCandidate, Continues
<1>14. CASE EndCheck
  BY <1>14 DEF EndCheck, StopReason
<1>15. CASE Exit
  BY <1>15 DEF Exit
<1>16. CASE UNCHANGED vars
  BY <1>16 DEF vars
<1> QED
  BY <1>1, <1>2, <1>3, <1>4, <1>5, <1>6, <1>7, <1>8, <1>9, <1>10, <1>11, <1>12,
     <1>13, <1>14, <1>15, <1>16
  DEF Next, Phases, Checks, Terminated

\* Candidates are refuted one by one.
LEMMA StepRefuted == FlowInv /\ Refuted /\ [Next]_vars => Refuted'
<1> SUFFICES ASSUME FlowInv, Refuted, [Next]_vars PROVE Refuted'
  OBVIOUS
<1>a. checked \in 0 .. Len(candidates) /\ candidates \in Seq(Paths) /\ queries \in Nat
      /\ pc \in PCs
  BY DEF FlowInv, TypeOK
<1> USE <1>a DEF Refuted, BudgetSpent, Candidates, PCs, query, clocks, search, check
<1>1. CASE Cancel
  BY <1>1 DEF Cancel
<1>2. CASE Expire
  BY <1>2 DEF Expire
<1>3. CASE Resolve
  BY <1>3 DEF Resolve
<1>4. CASE TaintFixpoint
  BY <1>4 DEF TaintFixpoint, ValuePairs
<1>5. CASE TaintStopped
  BY <1>5 DEF TaintStopped, ValuePairs, StopReason
<1>6. CASE FindPath
  BY <1>6 DEF FindPath, Influences
<1>7. CASE EndSearch
  BY <1>7 DEF EndSearch, NextPair
<1>8. CASE LimitSearch
  BY <1>8 DEF LimitSearch, NextPair
<1>9. CASE Judge
  BY <1>9 DEF Judge, Judged, OrUnknown
<1>10. CASE CheckUntranslatable
  BY <1>10 DEF CheckUntranslatable, TakeCandidate, Continues
<1>11. CASE CheckUnknown
  BY <1>11 DEF CheckUnknown, TakeCandidate, Continues
<1>12. CASE CheckUnsat
  BY <1>12 DEF CheckUnsat, TakeCandidate, Continues
<1>13. CASE CheckSat
  BY <1>13 DEF CheckSat, TakeCandidate, Continues
<1>14. CASE EndCheck
  <2>1. /\ pc = "check" /\ pc' = "answer" /\ ~ Continues
        /\ UNCHANGED <<candidates, feasible, checked, budget, queries>>
    BY <1>14 DEF EndCheck
  <2>2. completion' = "complete" => ~ (checked < Len(candidates) /\ Stopped)
    BY <1>14 DEF EndCheck, StopReason
  <2>3. completion' = "complete" => completion = "complete"
    BY <1>14 DEF EndCheck, StopReason
  <2>4. completion' = "complete" /\ ~ BudgetSpent => checked = Len(candidates)
    BY <2>1, <2>2 DEF Continues
  <2>5. completion' = "complete" /\ ~ BudgetSpent => Candidates \cap feasible = {}
    BY <2>1, <2>3, <2>4
  <2> QED
    BY <2>1, <2>5
<1>15. CASE Exit
  BY <1>15 DEF Exit
<1>16. CASE UNCHANGED vars
  BY <1>16 DEF vars
<1> QED
  BY <1>1, <1>2, <1>3, <1>4, <1>5, <1>6, <1>7, <1>8, <1>9, <1>10, <1>11, <1>12,
     <1>13, <1>14, <1>15, <1>16
  DEF Next, Phases, Checks, Terminated

\* Every reachable state satisfies them.
LEMMA TrustInvariance == Spec => []TrustInv
<1>1. FlowInv /\ TrustInv /\ [Next]_vars => TrustInv'
  BY StepFactShape, StepTracked, StepNoFlow, StepRefuted DEF TrustInv
<1> QED
  BY <1>1, InitTrustInv, FlowInvariance, PTL DEF Spec

\* A no-flow answer is wrong at most about paths the search did not reach.
THEOREM NoFlowIsTrusted == Spec => []NoFlowTrusted
<1>1. FlowInv /\ TrustInv => NoFlowTrusted
  <2> SUFFICES ASSUME FlowInv, TrustInv, verdict = "no_flow", NEW f \in facts
               PROVE  f \in Paths \ seen
    BY DEF NoFlowTrusted
  <2>1. influences = {} /\ tags = facts /\ mode # "symbolic" /\ pc \in {"answer", "done"}
    BY DEF TrustInv, NoFlowGround
  <2>2. f \in Facts /\ f = <<f[1], f[2]>> /\ f[1] \in Pairs
    BY DEF FlowInv, TypeOK, Facts
  <2>3. f[2] # 0
    BY <2>1, <2>2 DEF TrustInv, Tracked, ValuePairs
  <2>4. f \notin seen
    BY <2>1 DEF TrustInv, Tracked
  <2> QED
    BY <2>2, <2>3, <2>4 DEF Paths
<1> QED
  BY <1>1, FlowInvariance, TrustInvariance, PTL

\* An infeasible answer with exit code 0 and query budget left overlooks no
\* relevant path the search saw.
THEOREM InfeasibleIsTrusted == Spec => []InfeasibleTrusted
<1>1. FlowInv /\ TrustInv => InfeasibleTrusted
  BY DEF InfeasibleTrusted, FlowInv, TrustInv, Degradation, Tracked, Refuted
<1> QED
  BY <1>1, FlowInvariance, TrustInvariance, PTL

-----------------------------------------------------------------------------
(* The queries made and the candidates refuted.                            *)

\* The search numbers its paths: none is a candidate twice.
Distinct ==
  /\ \A p \in seen : p[1] < pair \/ (p[1] = pair /\ p[2] <= found)
  /\ \A i \in 1 .. Len(candidates) : candidates[i] \in seen
  /\ \A i, j \in 1 .. Len(candidates) : candidates[i] = candidates[j] => i = j

\* Each query either refuted a candidate of its own or was seen as unknown.
QueriesCounted ==
  /\ IsFiniteSet(refuted)
  /\ \A path \in refuted : \E i \in 1 .. checked : path = candidates[i]
  /\ pc \in {"resolve", "taint", "search", "judge"} =>
       queries = 0 /\ refuted = {}
  /\ pc = "check" /\ ~ sawUnknown => queries = Cardinality(refuted)
  /\ pc \in {"answer", "done"} /\ verdict = "infeasible" =>
       queries = Cardinality(refuted)

\* They hold initially.
LEMMA InitCounted == Init => Distinct /\ QueriesCounted
  BY FS_EmptySet DEF Init, Distinct, QueriesCounted

\* The search keeps its candidates distinct.
LEMMA StepDistinct == FlowInv /\ Distinct /\ [Next]_vars => Distinct'
<1> SUFFICES ASSUME FlowInv, Distinct, [Next]_vars PROVE Distinct'
  OBVIOUS
<1>a. /\ candidates \in Seq(Paths) /\ pair \in Nat /\ found \in Nat
      /\ seen \subseteq Paths /\ \A p \in Paths : p[1] \in Nat /\ p[2] \in Nat
  BY DEF FlowInv, TypeOK, Paths, Facts, Pairs
<1> USE <1>a DEF Distinct, query, clocks, search, check
<1>1. CASE Cancel
  BY <1>1 DEF Cancel
<1>2. CASE Expire
  BY <1>2 DEF Expire
<1>3. CASE Resolve
  BY <1>3 DEF Resolve
<1>4. CASE TaintFixpoint
  BY <1>4 DEF TaintFixpoint
<1>5. CASE TaintStopped
  BY <1>5 DEF TaintStopped
<1>6. CASE FindPath
  <2> DEFINE path == <<pair, found + 1>>
  <2>1. /\ candidates' \in {candidates, Append(candidates, path)}
        /\ seen' = seen \cup {path} /\ pair' = pair /\ found' = found + 1
    BY <1>6 DEF FindPath
  <2>2. path[1] = pair /\ path[2] = found + 1
    OBVIOUS
  <2>3. path \notin seen
    BY <1>a, <2>2
  <2>4. \A p \in seen' : p[1] < pair' \/ (p[1] = pair' /\ p[2] <= found')
    BY <1>a, <2>1, <2>2
  <2>5. CASE candidates' = candidates
    BY <2>1, <2>4, <2>5
  <2>6. CASE candidates' = Append(candidates, path)
    <3>1. /\ Len(candidates') = Len(candidates) + 1 /\ Len(candidates) \in Nat
          /\ candidates'[Len(candidates) + 1] = path
          /\ \A i \in 1 .. Len(candidates) : candidates'[i] = candidates[i]
      BY <1>a, <2>6
    <3>2. \A i \in 1 .. Len(candidates) : candidates[i] # path
      BY <2>3
    <3>3. \A i \in 1 .. Len(candidates') : candidates'[i] \in seen'
      <4> SUFFICES ASSUME NEW i \in 1 .. Len(candidates') PROVE candidates'[i] \in seen'
        OBVIOUS
      <4>1. CASE i \in 1 .. Len(candidates)
        BY <4>1, <3>1, <2>1
      <4>2. CASE i = Len(candidates) + 1
        BY <4>2, <3>1, <2>1
      <4> QED
        BY <3>1, <4>1, <4>2
    <3>4. \A i, j \in 1 .. Len(candidates') : candidates'[i] = candidates'[j] => i = j
      <4> SUFFICES ASSUME NEW i \in 1 .. Len(candidates'), NEW j \in 1 .. Len(candidates'),
                          candidates'[i] = candidates'[j]
                   PROVE  i = j
        OBVIOUS
      <4>1. CASE i \in 1 .. Len(candidates) /\ j \in 1 .. Len(candidates)
        <5>1. candidates[i] = candidates[j]
          BY <4>1, <3>1
        <5> QED
          BY <5>1, <4>1
      <4>2. CASE i = Len(candidates) + 1 /\ j \in 1 .. Len(candidates)
        BY <4>2, <3>1, <3>2
      <4>3. CASE j = Len(candidates) + 1 /\ i \in 1 .. Len(candidates)
        BY <4>3, <3>1, <3>2
      <4> QED
        BY <3>1, <4>1, <4>2, <4>3
    <3> QED
      BY <2>4, <3>3, <3>4
  <2> QED
    BY <2>1, <2>5, <2>6
<1>7. CASE EndSearch
  BY <1>7 DEF EndSearch, NextPair
<1>8. CASE LimitSearch
  BY <1>8 DEF LimitSearch, NextPair
<1>9. CASE Judge
  BY <1>9 DEF Judge, Judged, OrUnknown
<1>10. CASE CheckUntranslatable
  BY <1>10 DEF CheckUntranslatable, TakeCandidate, Continues
<1>11. CASE CheckUnknown
  BY <1>11 DEF CheckUnknown, TakeCandidate, Continues
<1>12. CASE CheckUnsat
  BY <1>12 DEF CheckUnsat, TakeCandidate, Continues
<1>13. CASE CheckSat
  BY <1>13 DEF CheckSat, TakeCandidate, Continues
<1>14. CASE EndCheck
  BY <1>14 DEF EndCheck
<1>15. CASE Exit
  BY <1>15 DEF Exit
<1>16. CASE UNCHANGED vars
  BY <1>16 DEF vars
<1> QED
  BY <1>1, <1>2, <1>3, <1>4, <1>5, <1>6, <1>7, <1>8, <1>9, <1>10, <1>11, <1>12,
     <1>13, <1>14, <1>15, <1>16
  DEF Next, Phases, Checks, Terminated

\* The count is kept.
LEMMA StepCounted ==
  FlowInv /\ Distinct /\ QueriesCounted /\ [Next]_vars => QueriesCounted'
<1> SUFFICES ASSUME FlowInv, Distinct, QueriesCounted, [Next]_vars PROVE QueriesCounted'
  OBVIOUS
<1>a. /\ candidates \in Seq(Paths) /\ checked \in 0 .. Len(candidates)
      /\ queries \in Nat /\ pc \in PCs /\ sawUnknown \in BOOLEAN
  BY DEF FlowInv, TypeOK
<1>b. Cardinality({}) = 0
  BY FS_EmptySet
<1> USE <1>a, <1>b DEF QueriesCounted, PCs, query, clocks, search, check
<1>1. CASE Cancel
  BY <1>1 DEF Cancel
<1>2. CASE Expire
  BY <1>2 DEF Expire
<1>3. CASE Resolve
  BY <1>3 DEF Resolve
<1>4. CASE TaintFixpoint
  BY <1>4 DEF TaintFixpoint
<1>5. CASE TaintStopped
  BY <1>5 DEF TaintStopped
<1>6. CASE FindPath
  BY <1>6 DEF FindPath
<1>7. CASE EndSearch
  BY <1>7 DEF EndSearch, NextPair
<1>8. CASE LimitSearch
  BY <1>8 DEF LimitSearch, NextPair
<1>9. CASE Judge
  BY <1>9 DEF Judge, Judged, OrUnknown
<1>10. CASE CheckUntranslatable
  BY <1>10 DEF CheckUntranslatable, TakeCandidate, Continues
<1>11. CASE CheckUnknown
  BY <1>11 DEF CheckUnknown, TakeCandidate, Continues
<1>12. CASE CheckUnsat
  <2>1. /\ checked \in Nat /\ checked + 1 \in 1 .. Len(candidates) /\ pc = "check"
        /\ checked' = checked + 1 /\ queries' = queries + 1
        /\ refuted' = refuted \cup {candidates[checked + 1]}
        /\ UNCHANGED <<pc, candidates, sawUnknown>>
    BY <1>12, <1>a DEF CheckUnsat, TakeCandidate, Continues
  <2>2. candidates[checked + 1] \notin refuted
    BY <2>1 DEF Distinct
  <2>3. /\ IsFiniteSet(refuted')
        /\ Cardinality(refuted') = Cardinality(refuted) + 1
    BY <2>1, <2>2, FS_AddElement
  <2>4. \A path \in refuted' : \E i \in 1 .. checked' : path = candidates[i]
    BY <2>1
  <2> QED
    BY <2>1, <2>3, <2>4
<1>13. CASE CheckSat
  BY <1>13 DEF CheckSat, TakeCandidate, Continues
<1>14. CASE EndCheck
  BY <1>14 DEF EndCheck
<1>15. CASE Exit
  BY <1>15 DEF Exit
<1>16. CASE UNCHANGED vars
  BY <1>16 DEF vars
<1> QED
  BY <1>1, <1>2, <1>3, <1>4, <1>5, <1>6, <1>7, <1>8, <1>9, <1>10, <1>11, <1>12,
     <1>13, <1>14, <1>15, <1>16
  DEF Next, Phases, Checks, Terminated

\* An infeasible verdict hides no unanswered query: each came back
\* unsatisfiable, for a candidate of its own.
THEOREM NoHiddenQuery == Spec => []InfeasibleQueriesRefuted
<1>1. QueriesCounted => InfeasibleQueriesRefuted
  BY DEF QueriesCounted, InfeasibleQueriesRefuted
<1>2. Spec => [](Distinct /\ QueriesCounted)
  BY InitCounted, StepDistinct, StepCounted, FlowInvariance, PTL DEF Spec
<1> QED
  BY <1>1, <1>2, PTL

-----------------------------------------------------------------------------
(* The query implements FlowAnswer.                                        *)

\* What the promises rest on beyond the invariants above: the solver refutes no
\* satisfiable path, an influence has a fact behind it, and the answers that
\* claim a flow or its absence are final.
AnswerInv ==
  /\ refuted \cap feasible = {}
  /\ influences # {} => tags # {}
  /\ verdict = "may_flow" => influences # {} /\ pc \in {"answer", "done"}
  /\ verdict = "no_flow" => completion = "complete" /\ pc \in {"answer", "done"}
  /\ pc = "done" => exit = IF completion = "failed" THEN "failure"
                           ELSE IF completion = "complete" THEN "complete"
                           ELSE "partial"

\* They hold initially.
LEMMA InitAnswerInv == Init => AnswerInv
  BY DEF Init, AnswerInv

\* Every step keeps them.
LEMMA StepAnswerInv == FlowInv /\ AnswerInv /\ [Next]_vars => AnswerInv'
<1> SUFFICES ASSUME FlowInv, AnswerInv, [Next]_vars PROVE AnswerInv'
  OBVIOUS
<1> USE DEF AnswerInv, query, clocks, search, check
<1>1. CASE Cancel \/ Expire \/ Resolve
  BY <1>1 DEF Cancel, Expire, Resolve
<1>2. CASE TaintFixpoint \/ TaintStopped
  BY <1>2 DEF TaintFixpoint, TaintStopped, ValuePairs
<1>3. CASE FindPath
  BY <1>3 DEF FindPath, Influences
<1>4. CASE EndSearch \/ LimitSearch
  BY <1>4 DEF EndSearch, LimitSearch, NextPair
<1>5. CASE Judge
  BY <1>5 DEF Judge, OrUnknown
<1>6. CASE CheckUntranslatable \/ CheckUnknown \/ CheckUnsat \/ CheckSat \/ EndCheck
  BY <1>6 DEF CheckUntranslatable, CheckUnknown, CheckUnsat, CheckSat, EndCheck,
     Continues, TakeCandidate
<1>7. CASE Exit
  BY <1>7 DEF Exit
<1>8. CASE UNCHANGED vars
  BY <1>8 DEF vars
<1> QED
  BY <1>1, <1>2, <1>3, <1>4, <1>5, <1>6, <1>7, <1>8 DEF Next, Phases, Checks, Terminated

\* The initial states of the query are initial states of its promise.
LEMMA InitAnswer == Init => Answer!Init
  BY DEF Init, Answer!Init, Answer!None

\* Every step is work, the reply, or nothing.
LEMMA StepAnswer ==
  FlowInv /\ TrustInv /\ InfeasibleQueriesRefuted' /\ AnswerInv /\ AnswerInv' /\ [Next]_vars
    => [Answer!Next]_(Answer!vars)
<1> SUFFICES ASSUME FlowInv, TrustInv, InfeasibleQueriesRefuted', AnswerInv, AnswerInv',
                    [Next]_vars
             PROVE  Answer!Learn \/ Answer!Reply \/ UNCHANGED Answer!vars
  BY DEF Answer!Next
<1> USE DEF query, clocks, search, check
<1>1. CASE Cancel \/ Expire
  BY <1>1 DEF Cancel, Expire, Answer!vars
<1>2. CASE Resolve
  BY <1>2 DEF Resolve, Answer!Learn, Answer!None, FlowInv, TypeOK, Degradation
<1>3. CASE TaintFixpoint \/ TaintStopped
  <2>1. tags = {}
    BY <1>3 DEF TaintFixpoint, TaintStopped, TrustInv, Tracked
  <2> QED
    BY <1>3, <2>1 DEF TaintFixpoint, TaintStopped, StopReason, Answer!Learn, Answer!None
<1>4. CASE FindPath \/ EndSearch
  BY <1>4 DEF FindPath, EndSearch, NextPair, Answer!vars
<1>5. CASE LimitSearch
  BY <1>5 DEF LimitSearch, NextPair, Answer!Learn, Answer!None, FlowInv, TypeOK
<1>6. CASE Judge
  BY <1>6 DEF Judge, Judged, Answer!Learn, Answer!None, FlowInv, TypeOK
<1>7. CASE CheckUntranslatable
  BY <1>7 DEF CheckUntranslatable, Continues, TakeCandidate, Answer!Learn, Answer!None,
     FlowInv, TypeOK
<1>8. CASE CheckUnknown
  BY <1>8 DEF CheckUnknown, Continues, TakeCandidate, Answer!Learn, Answer!None,
     FlowInv, TypeOK
<1>9. CASE CheckUnsat
  <2>1. candidates[checked + 1] \in Paths \ feasible
    BY <1>9 DEF CheckUnsat, Continues, FlowInv, TypeOK
  <2> QED
    BY <1>9, <2>1 DEF CheckUnsat, Continues, Answer!Learn, Answer!None, FlowInv, TypeOK
<1>10. CASE CheckSat
  BY <1>10 DEF CheckSat, Continues, TakeCandidate, Answer!Learn, Answer!None,
     FlowInv, TypeOK
<1>11. CASE EndCheck
  BY <1>11 DEF EndCheck, StopReason, Answer!Learn, Answer!None, FlowInv, TypeOK
<1>12. CASE Exit
  <2>1. /\ pc = "answer" /\ pc' = "done"
        /\ UNCHANGED <<facts, feasible, tags, queries, refuted, completion, verdict>>
    BY <1>12 DEF Exit
  <2>2. exit' = "complete" <=> completion = "complete"
    BY <2>1 DEF AnswerInv
  <2>3. completion = "complete" => tags = facts
    BY <2>1 DEF FlowInv, Degradation
  <2>4. verdict = "may_flow" => tags # {}
    BY DEF AnswerInv
  <2>5. verdict = "feasible_flow" => feasible \ refuted # {}
    BY DEF AnswerInv, FlowInv, Evidence, FeasibleHasEvidence
  <2>6. verdict = "infeasible" => queries = Cardinality(refuted)
    BY <2>1 DEF InfeasibleQueriesRefuted
  <2>7. verdict = "no_flow" => completion = "complete" /\ facts \subseteq Paths
    <3> SUFFICES ASSUME verdict = "no_flow", NEW f \in facts PROVE f \in Paths
      BY DEF AnswerInv
    <3>1. influences = {} /\ tags = facts
      BY DEF TrustInv, NoFlowGround
    <3>2. f \in Facts /\ f = <<f[1], f[2]>> /\ f[1] \in Pairs
      BY DEF FlowInv, TypeOK, Facts
    <3>3. f[2] # 0
      BY <2>1, <3>1, <3>2 DEF TrustInv, Tracked, ValuePairs
    <3> QED
      BY <3>2, <3>3 DEF Paths
  <2>8. verdict # "none"
    BY DEF FlowInv, TypeOK, Verdicts
  <2> DEFINE reply == IF pc = "done" THEN [verdict |-> verdict, exit |-> exit]
                      ELSE [verdict |-> "none", exit |-> "none"]
             answer == [verdict |-> verdict, exit |-> exit']
  <2>9. reply = Answer!None /\ reply' = answer
    BY <2>1 DEF Answer!None
  <2>10. answer # Answer!None
    BY <2>8 DEF Answer!None
  <2>11. Answer!Justified(answer)
    <3>1. answer.exit = exit' /\ answer.verdict = verdict
      OBVIOUS
    <3> HIDE DEF answer
    <3>2. answer.exit = "complete" <=> ~ (completion # "complete")
      BY <2>2, <3>1
    <3>3. answer.exit = "complete" => tags = facts
      BY <2>2, <2>3, <3>1
    <3>4. answer.verdict = "may_flow" => tags # {}
      BY <2>4, <3>1
    <3>5. answer.verdict = "feasible_flow" => feasible \ refuted # {}
      BY <2>5, <3>1
    <3>6. answer.verdict = "infeasible" => queries = Cardinality(refuted)
      BY <2>6, <3>1
    <3>7. answer.verdict = "no_flow" => ~ (completion # "complete") /\ facts \subseteq Paths
      BY <2>7, <3>1
    <3> QED
      BY <3>2, <3>3, <3>4, <3>5, <3>6, <3>7, Zenon
      DEF Answer!Justified, Cardinality, Answer!Cardinality
  <2>12. Answer!Justified(reply')
    <3> HIDE DEF answer, reply
    <3> QED
      BY <2>9, <2>11
  <2> QED
    BY <2>1, <2>9, <2>10, <2>12 DEF Answer!Reply
<1>13. CASE UNCHANGED vars
  BY <1>13 DEF vars, Answer!vars
<1> QED
  BY <1>1, <1>2, <1>3, <1>4, <1>5, <1>6, <1>7, <1>8, <1>9, <1>10, <1>11, <1>12, <1>13
  DEF Next, Phases, Checks, Terminated

\* The five phases of directed_flow implement the one-step promise.
THEOREM FlowImplementsAnswer == Spec => ImplementsFlowAnswer
<1>1. Spec => []AnswerInv
  <2>1. FlowInv /\ AnswerInv /\ [Next]_vars => AnswerInv'
    BY StepAnswerInv
  <2> QED
    BY <2>1, InitAnswerInv, FlowInvariance, PTL DEF Spec
<1>2. Init => Answer!Init
  BY InitAnswer
<1>3. FlowInv /\ TrustInv /\ InfeasibleQueriesRefuted' /\ AnswerInv /\ AnswerInv' /\ [Next]_vars
        => [Answer!Next]_(Answer!vars)
  BY StepAnswer
<1> QED
  BY <1>1, <1>2, <1>3, FlowInvariance, TrustInvariance, NoHiddenQuery, PTL
  DEF Spec, ImplementsFlowAnswer, Answer!Spec
=============================================================================
