------------------------------ MODULE FlowAnswer ------------------------------
(***************************************************************************)
(* What directed_flow() and its command promise, without phases: while the *)
(* query is open it learns facts and has paths refuted, its result may be  *)
(* degraded and never restored, and the one reply it gives says no more    *)
(* than what was learned.  DirectedFlow implements this.                   *)
(***************************************************************************)
EXTENDS Naturals, FiniteSets

CONSTANTS
  Facts,         \* what taint propagation can find
  Paths          \* the facts that are about the conditions of a path

VARIABLES
  facts, feasible,  \* the ground truth: all facts, and the satisfiable paths
  known,         \* the facts found
  asked, refuted,  \* queries made, and the paths shown unsatisfiable
  degraded,      \* the completion is not complete
  reply

vars == <<facts, feasible, known, asked, refuted, degraded, reply>>

None == [verdict |-> "none", exit |-> "none"]

Init ==
  /\ facts \in SUBSET Facts /\ feasible \in SUBSET Paths
  /\ known = {} /\ asked = 0 /\ refuted = {} /\ degraded = FALSE
  /\ reply = None

\* Work on the query: nothing is unlearned, and a query of the solver adds at
\* most its own path.
Learn ==
  /\ reply = None
  /\ known \subseteq known' /\ known' \subseteq facts
  /\ \/ asked' = asked /\ refuted' = refuted
     \/ /\ asked' = asked + 1
        /\ \/ refuted' = refuted
           \/ \E path \in Paths \ feasible : refuted' = refuted \cup {path}
  /\ degraded => degraded'
  /\ UNCHANGED <<facts, feasible, reply>>

\* What a verdict and an exit code say.
Justified(answer) ==
  /\ answer.exit = "complete" <=> ~ degraded
  /\ answer.exit = "complete" => known = facts
  /\ answer.verdict = "may_flow" => known # {}
  /\ answer.verdict = "feasible_flow" => feasible \ refuted # {}
  /\ answer.verdict = "infeasible" => asked = Cardinality(refuted)
  /\ answer.verdict = "no_flow" => ~ degraded /\ facts \subseteq Paths

Reply ==
  /\ reply = None
  /\ Justified(reply') /\ reply' # None
  /\ UNCHANGED <<facts, feasible, known, asked, refuted, degraded>>

Next == Learn \/ Reply

Spec == Init /\ [][Next]_vars
=============================================================================
