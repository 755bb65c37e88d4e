---------------------------- MODULE EnrichmentProofs ----------------------------
(***************************************************************************)
(* Enrichment keeps its account for every function and every request: what *)
(* it reports is a chain of operations from a source to a sink, and what   *)
(* it calls complete misses no listed branch and no sink that such a chain *)
(* leads to, but for what the taint library refused.                       *)
(***************************************************************************)
EXTENDS Enrichment, NaturalsInduction, WellFoundedInduction, TLAPS

(* The inductive invariant.                                                *)

TypesOK ==
  /\ phase \in LoopPhases \cup {"idle", "called", "done"} /\ place \in Nat
  /\ phase # "idle" => call \in Requests
  /\ phase \in LoopPhases => place \in 1 .. Length + 1
  /\ completion \in {"complete", "unknown", "timeout", "limited", "canceled"}
  /\ queries \in Nat /\ states \in Nat
  /\ taints \in SUBSET (Nat \X Nat) /\ flows \in SUBSET (Nat \X Nat)
  /\ unmarked \in SUBSET Nat /\ unheard \in SUBSET (Nat \X Nat)
  /\ exit \in {"none", "complete", "partial", "failure"} /\ (exit # "none" => phase = "done")

\* What the phases begin with and end with: nothing is recorded before the loops,
\* there is taint only if it is asked for, and the exit code tells of the enrichment
\* where the view shows it.
PhasesOK ==
  /\ phase \in {"idle", "called", "branches"} => taints = {} /\ flows = {} /\ states = 0
  /\ phase \in {"idle", "called"} => completion = "complete" /\ queries = 0
  /\ phase \in {"sources", "transforms", "sinks"} => "taint" \in call.enrich
  /\ exit = "complete" /\ call.view \in {"compact", "taint"} /\ call.enrich # {} =>
       completion = "complete"

WithinBudgets ==
  phase # "idle" =>
    /\ call.states # 0 => states <= call.states
    /\ call.queries # 0 => queries <= call.queries

\* The loops ran, and none of them was left early.
Ran == phase \in LoopPhases \/ exit \in {"complete", "partial"}
Whole == Ran /\ completion = "complete"

\* The questions up to the place of the loop have an answer.
BranchesAsked ==
  Whole /\ "symbolic" \in call.enrich =>
    \A k \in DOMAIN call.statements :
      call.statements[k] # "other" /\ (phase = "branches" => k < place) => k \in asked

\* The operations that have given on what they were given.
Linked == CASE phase = "sources" -> {}
            [] phase = "transforms" -> {k \in DOMAIN call.ops : k < place}
            [] OTHER -> DOMAIN call.ops

\* The sources, but for the refused ones, and sinks up to the place of their loop.
Marked == {k \in Sources \ unmarked : phase = "sources" => k < place}
Visited == {k \in Sinks : phase = "sinks" => k < place}

\* What is tainted was made, from what a source has written, by operations that had
\* their turn.
TaintsMade ==
  \A t \in taints :
    /\ t[2] \in Sources
    /\ \E chain \in SUBSET Linked : IsChain(t[2], chain) /\ t[1] \in Made(t[2], chain)

\* And all that they make is tainted, by one source or another.
TaintsSpread ==
  Whole /\ phase \in {"sources", "transforms", "sinks"} =>
    \A source \in Marked : \A chain \in SUBSET Linked :
      IsChain(source, chain) => \A v \in Made(source, chain) : \E t \in taints : t[1] = v

FlowsMade ==
  \A flow \in flows : flow[1] \in Sources /\ flow[2] \in Sinks /\ InOrder(flow[1], flow[2])

\* The sinks up to the place of the loop have their flows.
FlowsFound ==
  Whole /\ phase \in {"sinks", "done"} /\ "taint" \in call.enrich =>
    \A sink \in Visited :
      (\E source \in Sources \ unmarked : Reaches(source, Heard(sink)))
      => \E source \in Sources : <<source, sink>> \in flows

EnrichInv ==
  /\ TypesOK /\ PhasesOK /\ WithinBudgets /\ BranchesAsked
  /\ TaintsMade /\ TaintsSpread /\ FlowsMade /\ FlowsFound

-----------------------------------------------------------------------------
(* What a request is made of.                                              *)

\* The parts of a request that the loops read.
LEMMA RequestParts ==
  ASSUME call \in Requests
  PROVE  /\ call.enrich \in SUBSET {"symbolic", "taint"} /\ call.queries \in Nat
         /\ call.states \in Nat
         /\ Len(call.statements) \in Nat /\ DOMAIN call.statements = 1 .. Len(call.statements)
         /\ Len(call.ops) \in Nat /\ DOMAIN call.ops = 1 .. Len(call.ops)
BY DEF Requests

\* The parts of an operation of a request.
LEMMA OperationParts ==
  ASSUME call \in Requests, NEW k \in DOMAIN call.ops
  PROVE  /\ k \in Nat /\ k <= Len(call.ops) /\ 1 <= k
         /\ call.ops[k].outputs \in SUBSET Nat /\ call.ops[k].written \in SUBSET Nat
         /\ Inputs(call.ops[k]) \in SUBSET Nat
<1>1. call.ops \in Seq(Operations)
  BY DEF Requests
<1>2. call.ops[k] \in Operations /\ k \in 1 .. Len(call.ops)
  BY <1>1
<1>3. call.ops[k].inputs \in Seq(Nat)
  BY <1>2 DEF Operations
<1>4. Inputs(call.ops[k]) \in SUBSET Nat
  BY <1>3 DEF Inputs
<1> QED
  BY <1>1, <1>2, <1>4 DEF Operations

\* A request that stays the same has the same chains.
LEMMA SameChains ==
  ASSUME call' = call
  PROVE  /\ Sources' = Sources /\ Sinks' = Sinks
         /\ \A source, chain : /\ IsChain(source, chain)' = IsChain(source, chain)
                               /\ Made(source, chain)' = Made(source, chain)
         /\ \A source, values : Reaches(source, values)' = Reaches(source, values)
         /\ \A source, sink : InOrder(source, sink)' = InOrder(source, sink)
         /\ UNCHANGED unheard => \A sink : Heard(sink)' = Heard(sink)
<1>1. \A source, chain, k : Given(source, chain, k)' = Given(source, chain, k)
  BY DEF Given
<1>2. \A op : IsSource(op)' = IsSource(op) /\ IsSink(op)' = IsSink(op) /\ Inputs(op)' = Inputs(op)
  BY DEF IsSource, IsSink, Inputs
<1>3. \A source, chain : /\ IsChain(source, chain)' = IsChain(source, chain)
                         /\ Made(source, chain)' = Made(source, chain)
  BY <1>1, <1>2 DEF IsChain, Made, Inputs
<1>6. \A source, values : Reaches(source, values)' = Reaches(source, values)
  BY <1>3 DEF Reaches
<1>4. \A source, sink : InOrder(source, sink)' = InOrder(source, sink)
  BY <1>2, <1>6 DEF InOrder, Inputs
<1>7. UNCHANGED unheard => \A sink : Heard(sink)' = Heard(sink)
  BY DEF Heard, Inputs
<1>5. Sources' = Sources /\ Sinks' = Sinks
  BY DEF Sources, Sinks, IsSource, IsSink
<1> QED
  BY <1>3, <1>4, <1>5, <1>6, <1>7

-----------------------------------------------------------------------------
(* Chains.                                                                 *)

\* A set of natural numbers that is not empty has a least element.
LEMMA LeastNatural ==
  ASSUME NEW T \in SUBSET Nat, T # {}
  PROVE  \E n \in T : \A m \in T : n <= m
<1>1. PICK n \in T : \A m \in T : <<m, n>> \notin OpToRel(<, Nat)
  <2>1. IsWellFoundedOn(OpToRel(<, Nat), Nat)
    BY NatLessThanWellFounded
  <2> QED
    BY <2>1, WFMin
<1>2. ASSUME NEW m \in T PROVE n <= m
  <2>1. ~(m < n)
    BY <1>1 DEF OpToRel
  <2> QED
    BY <2>1
<1> QED
  BY <1>2

\* A bounded set of positions has a last one.
LEMMA LatestIs ==
  ASSUME NEW links \in SUBSET Nat, links # {}, NEW n \in Nat, \A i \in links : i <= n
  PROVE  Latest(links) \in links /\ \A i \in links : i <= Latest(links)
<1> DEFINE Room == {n - i : i \in links}
<1>1. Room \in SUBSET Nat /\ Room # {}
  <2>1. ASSUME NEW i \in links
        PROVE  n - i \in Nat
    OBVIOUS
  <2> QED
    BY <2>1
<1>2. PICK least \in Room : \A r \in Room : least <= r
  <2> HIDE DEF Room
  <2> QED
    BY <1>1, LeastNatural
<1>3. PICK j \in links : least = n - j
  OBVIOUS
<1>4. \A i \in links : i <= j
  BY <1>2, <1>3
<1> QED
  BY <1>4 DEF Latest

\* Only the links in front of an operation matter for what it is given.
LEMMA SameBefore ==
  ASSUME NEW source, NEW chain, NEW other, NEW j, NEW k, Before(chain, j) = Before(other, k)
  PROVE  Given(source, chain, j) = Given(source, other, k)
BY DEF Given

\* Without a link it is what the source has written.
LEMMA NoLinks ==
  ASSUME NEW source
  PROVE  IsChain(source, {}) /\ Made(source, {}) = call.ops[source].written
BY DEF IsChain, Made, Given, Before

\* An operation that follows all links of a chain is given what the chain makes.
LEMMA GivenIsMade ==
  ASSUME call \in Requests, NEW source, NEW k \in DOMAIN call.ops,
         NEW chain \in SUBSET {j \in DOMAIN call.ops : j < k}
  PROVE  Given(source, chain, k) = Made(source, chain)
<1>1. DOMAIN call.ops = 1 .. Len(call.ops) /\ Len(call.ops) \in Nat
  BY RequestParts
<1>2. Before(chain, k) = chain /\ Before(chain, Len(call.ops) + 1) = chain
  BY <1>1 DEF Before
<1> QED
  BY <1>2, SameBefore DEF Made

\* The last link of a chain makes what the chain makes.
LEMMA LastMakes ==
  ASSUME call \in Requests, NEW source, NEW k \in DOMAIN call.ops,
         NEW chain \in SUBSET {j \in DOMAIN call.ops : j <= k}, k \in chain
  PROVE  Made(source, chain) = call.ops[k].outputs
<1>1. DOMAIN call.ops = 1 .. Len(call.ops) /\ Len(call.ops) \in Nat
  BY RequestParts
<1>2. Before(chain, Len(call.ops) + 1) = chain
  BY <1>1 DEF Before
<1>3. chain \in SUBSET Nat /\ k \in Nat /\ \A j \in chain : j <= k
  BY <1>1
<1>4. Latest(chain) \in chain /\ \A j \in chain : j <= Latest(chain)
  BY <1>3, LatestIs
<1>5. Latest(chain) = k
  BY <1>3, <1>4
<1> QED
  BY <1>2, <1>5 DEF Made, Given

\* A chain goes on with an operation that takes what it makes.
LEMMA ChainExtends ==
  ASSUME call \in Requests, NEW source, NEW k \in DOMAIN call.ops, call.ops[k].code # "call",
         NEW chain \in SUBSET {j \in DOMAIN call.ops : j < k}, IsChain(source, chain),
         Made(source, chain) \cap Inputs(call.ops[k]) # {}
  PROVE  /\ IsChain(source, chain \cup {k})
         /\ Made(source, chain \cup {k}) = call.ops[k].outputs
<1> DEFINE longer == chain \cup {k}
<1>1. DOMAIN call.ops = 1 .. Len(call.ops) /\ Len(call.ops) \in Nat
  BY RequestParts
<1>2. longer \in SUBSET {j \in DOMAIN call.ops : j <= k}
  BY <1>1
<1>3. ASSUME NEW j \in longer
      PROVE  Given(source, longer, j) = Given(source, chain, j)
  <2>1. Before(longer, j) = Before(chain, j)
    BY <1>1, <1>2 DEF Before
  <2> QED
    BY <2>1, SameBefore
<1>4. Given(source, chain, k) = Made(source, chain)
  BY GivenIsMade
<1>5. IsChain(source, longer)
  BY <1>3, <1>4 DEF IsChain
<1>6. Made(source, longer) = call.ops[k].outputs
  BY <1>2, LastMakes
<1> QED
  BY <1>5, <1>6

\* And without its last link it is a chain that makes what that link takes.
LEMMA ChainShortens ==
  ASSUME call \in Requests, NEW source, NEW k \in DOMAIN call.ops,
         NEW chain \in SUBSET {j \in DOMAIN call.ops : j <= k}, k \in chain,
         IsChain(source, chain)
  PROVE  /\ chain \ {k} \in SUBSET {j \in DOMAIN call.ops : j < k}
         /\ IsChain(source, chain \ {k}) /\ call.ops[k].code # "call"
         /\ Made(source, chain \ {k}) \cap Inputs(call.ops[k]) # {}
         /\ Made(source, chain) = call.ops[k].outputs
<1> DEFINE shorter == chain \ {k}
<1>1. DOMAIN call.ops = 1 .. Len(call.ops) /\ Len(call.ops) \in Nat
  BY RequestParts
<1>2. shorter \in SUBSET {j \in DOMAIN call.ops : j < k}
  BY <1>1
<1>3. ASSUME NEW j \in chain
      PROVE  Given(source, chain, j) = Given(source, shorter, j)
  <2>1. Before(chain, j) = Before(shorter, j)
    BY <1>1 DEF Before
  <2> QED
    BY <2>1, SameBefore
<1>4. Given(source, shorter, k) = Made(source, shorter)
  BY <1>2, GivenIsMade
<1>5. IsChain(source, shorter)
  BY <1>3 DEF IsChain
<1>6. call.ops[k].code # "call" /\ Made(source, shorter) \cap Inputs(call.ops[k]) # {}
  BY <1>3, <1>4 DEF IsChain
<1>7. Made(source, chain) = call.ops[k].outputs
  BY LastMakes
<1> QED
  BY <1>2, <1>5, <1>6, <1>7
-----------------------------------------------------------------------------
(* The steps.                                                              *)

USE DEF LoopPhases

\* Before the command there is nothing to account for.
LEMMA EnrichInitKeeps == EnrichInit => EnrichInv
BY DEF EnrichInit, EnrichInv, TypesOK, PhasesOK, WithinBudgets, BranchesAsked, TaintsMade,
       TaintsSpread, FlowsMade, FlowsFound, Whole, Ran

\* Facts of a state in which a loop runs.
LEMMA LoopFacts ==
  ASSUME EnrichInv, phase \in LoopPhases
  PROVE  /\ call \in Requests /\ place \in Nat /\ place >= 1 /\ place <= Length + 1
         /\ Length \in Nat /\ Ran /\ exit = "none"
         /\ phase # "branches" => Length = Len(call.ops)
         /\ phase = "branches" => Length = Len(call.statements)
         /\ ~ Ended /\ phase = "branches" => place \in DOMAIN call.statements
         /\ ~ Ended /\ phase # "branches" => place \in DOMAIN call.ops
<1>1. call \in Requests /\ place \in 1 .. Length + 1 /\ exit = "none"
  BY DEF EnrichInv, TypesOK
<1>2. Length \in Nat
  BY <1>1, RequestParts DEF Length
<1> QED
  BY <1>1, <1>2, RequestParts DEF Length, Ran, Ended

\* The request is all there is.
LEMMA TakeRequestKeeps ==
  ASSUME EnrichInv, NEW request \in Requests, TakeRequest(request)
  PROVE  EnrichInv'
<1>1. /\ phase = "idle" /\ phase' = "called" /\ call' \in Requests
      /\ UNCHANGED <<place, completion, queries, states, asked, taints, flows, lost, exit>>
  BY DEF TakeRequest, enrichment
<1>2. taints' = {} /\ flows' = {} /\ states' = 0 /\ queries' = 0 /\ exit' = "none"
  BY <1>1 DEF EnrichInv, TypesOK, PhasesOK
<1>3. TypesOK' /\ PhasesOK'
  BY <1>1, <1>2 DEF EnrichInv, TypesOK, PhasesOK, lost
<1>4. WithinBudgets'
  BY <1>1, <1>2, RequestParts DEF WithinBudgets, Requests
<1>5. ~ Whole'
  BY <1>1, <1>2 DEF Whole, Ran
<1>6. TaintsMade' /\ FlowsMade'
  BY <1>2 DEF TaintsMade, FlowsMade
<1> QED
  BY <1>3, <1>4, <1>5, <1>6 DEF EnrichInv, BranchesAsked, TaintsSpread, FlowsFound

\* A loop that is left early leaves an answer that is not whole.
LEMMA BreakKeeps ==
  ASSUME EnrichInv, phase \in LoopPhases, NEW cause \in {"timeout", "limited", "canceled"},
         Break(cause), Untouched
  PROVE  EnrichInv'
<1>1. /\ completion' = cause /\ place' = Length + 1
      /\ UNCHANGED <<call, phase, queries, states, asked, taints, flows, unmarked, unheard, exit>>
  BY DEF Break, Untouched, lost
<1>2. call \in Requests /\ Length \in Nat /\ place \in Nat /\ place <= Length + 1
  BY LoopFacts
<1>3. TypesOK' /\ PhasesOK' /\ WithinBudgets'
  BY <1>1, <1>2 DEF EnrichInv, TypesOK, PhasesOK, WithinBudgets, Length
<1>4. ~ Whole'
  BY <1>1 DEF Whole
<1>5. Linked \subseteq Linked'
  <2>1. DOMAIN call.ops = 1 .. Len(call.ops) /\ Len(call.ops) \in Nat
    BY <1>2, RequestParts
  <2> QED
    BY <1>1, <1>2, <2>1 DEF Linked
<1>6. TaintsMade'
  BY <1>1, <1>5, SameChains DEF EnrichInv, TaintsMade
<1>7. FlowsMade'
  BY <1>1, SameChains DEF EnrichInv, FlowsMade
<1> QED
  BY <1>3, <1>4, <1>6, <1>7 DEF EnrichInv, BranchesAsked, TaintsSpread, FlowsFound


\* Nothing moves on when a signal comes.
LEMMA SameKeeps ==
  ASSUME EnrichInv, UNCHANGED <<call, phase, place, enrichment, exit>>
  PROVE  EnrichInv'
<1>1. UNCHANGED <<completion, queries, states, asked, taints, flows, unmarked, unheard>>
  BY DEF enrichment, lost
<1>2. TypesOK' /\ PhasesOK' /\ WithinBudgets'
  BY <1>1 DEF EnrichInv, TypesOK, PhasesOK, WithinBudgets, Length
<1>3. Whole' = Whole /\ Linked' = Linked /\ Marked' = Marked /\ Visited' = Visited
  BY <1>1, SameChains DEF Whole, Ran, Linked, Marked, Visited
<1>4. BranchesAsked'
  BY <1>1, <1>3 DEF EnrichInv, BranchesAsked
<1>5. TaintsMade' /\ FlowsMade'
  BY <1>1, <1>3, SameChains DEF EnrichInv, TaintsMade, FlowsMade
<1>6. TaintsSpread'
  BY <1>1, <1>3, SameChains DEF EnrichInv, TaintsSpread
<1>7. FlowsFound'
  BY <1>1, <1>3, SameChains DEF EnrichInv, FlowsFound
<1> QED
  BY <1>2, <1>4, <1>5, <1>6, <1>7 DEF EnrichInv

\* A command that fails calls nothing complete.
LEMMA NoSolverKeeps ==
  ASSUME EnrichInv, NoSolver
  PROVE  EnrichInv'
<1>1. /\ phase = "called" /\ phase' = "done" /\ exit' = "failure"
      /\ UNCHANGED <<call, place, completion, queries, states, asked, taints, flows, unmarked,
                     unheard>>
  BY DEF NoSolver, enrichment, lost
<1>2. taints' = {} /\ flows' = {}
  BY <1>1 DEF EnrichInv, PhasesOK
<1>3. TypesOK' /\ PhasesOK' /\ WithinBudgets'
  BY <1>1 DEF EnrichInv, TypesOK, PhasesOK, WithinBudgets
<1>4. ~ Whole'
  BY <1>1 DEF Whole, Ran
<1>5. TaintsMade' /\ FlowsMade'
  BY <1>2 DEF TaintsMade, FlowsMade
<1> QED
  BY <1>3, <1>4, <1>5 DEF EnrichInv, BranchesAsked, TaintsSpread, FlowsFound

\* The first loop is skipped only with an answer that is not whole.
LEMMA StartEnrichmentKeeps ==
  ASSUME EnrichInv, StartEnrichment
  PROVE  EnrichInv'
<1>1. /\ phase = "called" /\ phase' = "branches" /\ completion' \in {"complete", "unknown"}
      /\ place' \in {1, Len(call.statements) + 1}
      /\ completion' = "complete" /\ "symbolic" \in call.enrich => place' = 1
      /\ UNCHANGED <<call, queries, states, asked, taints, flows, unmarked, unheard, exit>>
  BY DEF StartEnrichment, Untouched, lost
<1>2. call \in Requests /\ Len(call.statements) \in Nat
  BY <1>1, RequestParts DEF EnrichInv, TypesOK
<1>3. taints' = {} /\ flows' = {} /\ states' = 0 /\ queries' = 0 /\ exit' = "none"
  BY <1>1 DEF EnrichInv, PhasesOK, TypesOK
<1>4. TypesOK' /\ PhasesOK'
  BY <1>1, <1>2, <1>3 DEF EnrichInv, TypesOK, PhasesOK, Length
<1>5. WithinBudgets'
  BY <1>1, <1>2, <1>3, RequestParts DEF WithinBudgets
<1>6. BranchesAsked'
  <2>1. DOMAIN call.statements = 1 .. Len(call.statements)
    BY <1>2, RequestParts
  <2> QED
    BY <1>1, <1>2, <2>1 DEF BranchesAsked, Whole
<1>7. TaintsMade' /\ FlowsMade'
  BY <1>3 DEF TaintsMade, FlowsMade
<1> QED
  BY <1>1, <1>4, <1>5, <1>6, <1>7 DEF EnrichInv, TaintsSpread, FlowsFound

\* Steps of the first loop other than leaving it early.
LEMMA BranchVisited ==
  ASSUME EnrichInv, phase = "branches", ~ Ended,
         UNCHANGED <<call, phase, states, taints, flows, unmarked, unheard, exit>>,
         place' = place + 1, completion' \in {completion, "timeout", "unknown"},
         asked \subseteq asked', call.statements[place] # "other" => place \in asked',
         queries' \in Nat, call.queries # 0 => queries' <= call.queries
  PROVE  EnrichInv'
<1>1. /\ call \in Requests /\ place \in Nat /\ Length \in Nat /\ place <= Length
      /\ Length = Len(call.statements) /\ place \in DOMAIN call.statements
      /\ exit = "none" /\ Ran
  BY LoopFacts DEF Ended
<1>2. TypesOK' /\ PhasesOK' /\ WithinBudgets'
  BY <1>1 DEF EnrichInv, TypesOK, PhasesOK, WithinBudgets, Length
<1>3. taints' = {} /\ flows' = {}
  BY DEF EnrichInv, PhasesOK
<1>4. BranchesAsked'
  <2> SUFFICES ASSUME completion' = "complete", "symbolic" \in call.enrich,
                      NEW k \in DOMAIN call.statements, call.statements[k] # "other",
                      k < place + 1
               PROVE  k \in asked'
    BY DEF BranchesAsked, Whole
  <2>1. completion = "complete"
    OBVIOUS
  <2>2. CASE k < place
    BY <1>1, <2>1, <2>2 DEF EnrichInv, BranchesAsked, Whole
  <2>3. CASE k = place
    BY <2>3
  <2>4. k \in Nat
    BY <1>1, RequestParts
  <2> QED
    BY <1>1, <2>2, <2>3, <2>4
<1>5. TaintsMade' /\ FlowsMade'
  BY <1>3 DEF TaintsMade, FlowsMade
<1> QED
  BY <1>2, <1>4, <1>5 DEF EnrichInv, TaintsSpread, FlowsFound

\* The first loop passes no question without an answer.
LEMMA AskBranchKeeps ==
  ASSUME EnrichInv, AskBranch
  PROVE  EnrichInv'
<1> DEFINE question == call.statements[place] # "other"
<1>1. /\ phase = "branches" /\ ~ Ended /\ Untouched
      /\ \/ \E cause \in {"timeout", "limited", "canceled"} : Break(cause)
         \/ ~ question /\ place' = place + 1 /\ UNCHANGED <<phase, enrichment>>
         \/ question /\ ~ OutOfQueries /\ Answer
  BY DEF AskBranch
<1>2. CASE \E cause \in {"timeout", "limited", "canceled"} : Break(cause)
  BY <1>1, <1>2, BreakKeeps
<1>3. queries \in Nat /\ (call.queries # 0 => queries <= call.queries) /\ call.queries \in Nat
  BY <1>1, LoopFacts, RequestParts DEF EnrichInv, TypesOK, WithinBudgets
<1>4. CASE ~ question /\ place' = place + 1 /\ UNCHANGED <<phase, enrichment>>
  <2>1. UNCHANGED <<call, phase, states, taints, flows, unmarked, unheard, exit, asked, queries,
                    completion>>
    BY <1>1, <1>4 DEF Untouched, enrichment, lost
  <2> QED
    BY <1>1, <1>3, <1>4, <2>1, BranchVisited
<1>5. CASE question /\ ~ OutOfQueries /\ Answer
  <2>1. /\ UNCHANGED <<call, phase, states, taints, flows, unmarked, unheard, exit>>
        /\ place' = place + 1
        /\ asked' = asked \cup {place} /\ completion' \in {completion, "timeout", "unknown"}
        /\ queries' \in {queries, queries + 1}
    BY <1>1, <1>5 DEF Untouched, Answer, lost
  <2>2. queries' \in Nat /\ (call.queries # 0 => queries' <= call.queries)
    BY <1>3, <1>5, <2>1 DEF OutOfQueries
  <2> QED
    BY <1>1, <2>1, <2>2, BranchVisited
<1> QED
  BY <1>1, <1>2, <1>4, <1>5


\* A loop begins when the one before has visited all, or was left.
LEMMA NextLoopKeeps ==
  ASSUME EnrichInv, NextLoop
  PROVE  EnrichInv'
<1>1. /\ phase \in {"branches", "sources", "transforms"} /\ Ended /\ "taint" \in call.enrich
      /\ place' = 1 /\ phase' \in {"sources", "transforms", "sinks"}
      /\ phase = "branches" => phase' = "sources"
      /\ phase = "sources" => phase' = "transforms"
      /\ phase = "transforms" => phase' = "sinks"
      /\ UNCHANGED <<call, completion, queries, states, asked, taints, flows, unmarked, unheard,
                     exit>>
  BY DEF NextLoop, Begin, Untouched, enrichment, lost
<1>2. /\ call \in Requests /\ place \in Nat /\ Length \in Nat /\ place = Length + 1
      /\ phase # "branches" => Length = Len(call.ops)
      /\ phase = "branches" => Length = Len(call.statements)
      /\ exit = "none" /\ Ran
  BY <1>1, LoopFacts DEF Ended
<1>3. /\ DOMAIN call.ops = 1 .. Len(call.ops) /\ Len(call.ops) \in Nat
      /\ DOMAIN call.statements = 1 .. Len(call.statements)
  BY <1>2, RequestParts
<1>4. TypesOK' /\ PhasesOK' /\ WithinBudgets'
  BY <1>1, <1>2, <1>3 DEF EnrichInv, TypesOK, PhasesOK, WithinBudgets, Length
<1>5. Whole' => Whole
  BY <1>1, <1>2 DEF Whole
<1>6. BranchesAsked'
  BY <1>1, <1>2, <1>3, <1>5 DEF EnrichInv, BranchesAsked
<1>7. CASE phase = "branches"
  <2>1. taints' = {} /\ flows' = {}
    BY <1>1, <1>7 DEF EnrichInv, PhasesOK
  <2>2. Sources \subseteq DOMAIN call.ops /\ Sources' = Sources
    BY <1>1, SameChains DEF Sources
  <2>3. Marked' = {}
    BY <1>1, <1>3, <1>7, <2>2 DEF Marked
  <2>4. TaintsMade' /\ FlowsMade' /\ TaintsSpread'
    BY <2>1, <2>3 DEF TaintsMade, FlowsMade, TaintsSpread
  <2>5. FlowsFound'
    BY <1>1, <1>7 DEF FlowsFound
  <2> QED
    BY <1>4, <1>6, <2>4, <2>5 DEF EnrichInv
<1>8. CASE phase \in {"sources", "transforms"}
  <2>1. Linked' = Linked
    <3>1. CASE phase = "sources"
      BY <1>1, <1>3, <3>1 DEF Linked
    <3>2. CASE phase = "transforms"
      <4>1. {k \in DOMAIN call.ops : k < place} = DOMAIN call.ops
        BY <1>2, <1>3, <3>2
      <4> QED
        BY <1>1, <3>2, <4>1 DEF Linked
    <3> QED
      BY <1>8, <3>1, <3>2
  <2>2. Marked' = Marked
    BY <1>1, <1>2, <1>3, <1>8, SameChains DEF Marked, Sources
  <2>3. TaintsMade' /\ FlowsMade'
    BY <1>1, <2>1, SameChains DEF EnrichInv, TaintsMade, FlowsMade
  <2>4. TaintsSpread'
    BY <1>1, <1>5, <1>8, <2>1, <2>2, SameChains DEF EnrichInv, TaintsSpread
  <2>5. phase' = "sinks" => Visited' = {}
    BY <1>1, <1>3, SameChains DEF Visited, Sinks
  <2>6. FlowsFound'
    BY <1>1, <2>5 DEF FlowsFound
  <2> QED
    BY <1>4, <1>6, <2>3, <2>4, <2>6 DEF EnrichInv
<1> QED
  BY <1>1, <1>7, <1>8

\* Tainting values anew takes no value its taint.
LEMMA TaintFacts ==
  ASSUME NEW values \in SUBSET Nat, NEW sources \in SUBSET Nat, sources # {},
         taints \in SUBSET (Nat \X Nat), Taint(values, sources)
  PROVE  /\ taints' \in SUBSET (Nat \X Nat)
         /\ \A t \in taints' : t \in taints \/ (t[1] \in values /\ t[2] \in sources)
         /\ \A v : (v \in values \/ \E t \in taints : t[1] = v) => \E t \in taints' : t[1] = v
<1>1. taints' = {t \in taints : t[1] \notin values} \cup (values \X sources)
  BY DEF Taint
<1>2. ASSUME NEW v \in values
      PROVE  \E t \in taints' : t[1] = v
  <2>1. PICK s \in sources : TRUE
    OBVIOUS
  <2>2. <<v, s>> \in taints'
    BY <1>1
  <2> QED
    BY <2>2
<1>3. ASSUME NEW v, NEW t \in taints, t[1] = v, v \notin values
      PROVE  \E u \in taints' : u[1] = v
  BY <1>1, <1>3
<1> QED
  BY <1>1, <1>2, <1>3

\* Steps of the taint loops other than leaving them early.
LEMMA OperationVisited ==
  ASSUME EnrichInv, phase \in {"sources", "transforms", "sinks"}, ~ Ended,
         UNCHANGED <<call, phase, completion, queries, asked, exit>>, place' = place + 1,
         taints' \in SUBSET (Nat \X Nat), flows' \in SUBSET (Nat \X Nat),
         unmarked' \in SUBSET Nat, unheard' \in SUBSET (Nat \X Nat), states' \in Nat, call.states # 0 => states' <= call.states
  PROVE  TypesOK' /\ PhasesOK' /\ WithinBudgets' /\ BranchesAsked'
<1>1. /\ call \in Requests /\ place \in Nat /\ Length \in Nat /\ place <= Length
      /\ Length = Len(call.ops) /\ exit = "none" /\ Ran
  BY LoopFacts DEF Ended
<1>2. TypesOK' /\ PhasesOK' /\ WithinBudgets'
  BY <1>1 DEF EnrichInv, TypesOK, PhasesOK, WithinBudgets, Length
<1>3. BranchesAsked'
  BY DEF EnrichInv, BranchesAsked, Whole, Ran
<1> QED
  BY <1>2, <1>3

\* A state is counted only while the budget has room.
LEMMA StatesCounted ==
  ASSUME EnrichInv, phase \in LoopPhases, ~ OutOfStates, states' \in {states, states + 1}
  PROVE  states' \in Nat /\ (call.states # 0 => states' <= call.states)
<1>1. states \in Nat /\ call.states \in Nat /\ (call.states # 0 => states <= call.states)
  BY LoopFacts, RequestParts DEF EnrichInv, TypesOK, WithinBudgets
<1> QED
  BY <1>1 DEF OutOfStates


\* A source taints what it writes, the chain without a link.
LEMMA MarkSourceKeeps ==
  ASSUME EnrichInv, MarkSource
  PROVE  EnrichInv'
<1> DEFINE op == call.ops[place]
<1>1. /\ phase = "sources" /\ ~ Ended /\ Untouched
      /\ \/ \E cause \in {"timeout", "limited", "canceled"} : Break(cause)
         \/ /\ ~ OutOfStates /\ place' = place + 1
            /\ \/ IsSource(op) /\ Taint(op.written, {place}) /\ UNCHANGED unmarked
               \/ /\ IsSource(op) /\ unmarked' = unmarked \cup {place}
                  /\ UNCHANGED <<taints, states>>
               \/ ~ IsSource(op) /\ UNCHANGED <<taints, states, unmarked>>
            /\ UNCHANGED <<phase, completion, queries, asked, flows, unheard>>
  BY DEF MarkSource
<1>2. CASE \E cause \in {"timeout", "limited", "canceled"} : Break(cause)
  BY <1>1, <1>2, BreakKeeps
<1>3. CASE /\ ~ OutOfStates /\ place' = place + 1
           /\ \/ IsSource(op) /\ Taint(op.written, {place}) /\ UNCHANGED unmarked
              \/ /\ IsSource(op) /\ unmarked' = unmarked \cup {place}
                 /\ UNCHANGED <<taints, states>>
              \/ ~ IsSource(op) /\ UNCHANGED <<taints, states, unmarked>>
           /\ UNCHANGED <<phase, completion, queries, asked, flows, unheard>>
  <2>1. /\ call \in Requests /\ place \in Nat /\ place \in DOMAIN call.ops /\ exit = "none" /\ Ran
        /\ op.written \in SUBSET Nat /\ UNCHANGED <<call, phase, exit>>
        /\ DOMAIN call.ops = 1 .. Len(call.ops) /\ Len(call.ops) \in Nat
    <3>1. call \in Requests /\ place \in Nat /\ place \in DOMAIN call.ops /\ exit = "none" /\ Ran
      BY <1>1, LoopFacts
    <3>2. UNCHANGED <<call, phase, exit>>
      BY <1>1, <1>3 DEF Untouched
    <3>3. op.written \in SUBSET Nat
      BY <3>1, OperationParts
    <3> QED
      BY <3>1, <3>2, <3>3, RequestParts
  <2>2. /\ taints \in SUBSET (Nat \X Nat) /\ flows \in SUBSET (Nat \X Nat)
        /\ unmarked \in SUBSET Nat /\ unheard \in SUBSET (Nat \X Nat)
    BY DEF EnrichInv, TypesOK
  <2>11. /\ unmarked' \in {unmarked, unmarked \cup {place}} /\ unmarked' \in SUBSET Nat
         /\ IsSource(op) \/ unmarked' = unmarked
    BY <1>3, <2>1, <2>2
  <2>3. states' \in {states, states + 1}
    BY <1>3 DEF Taint
  <2>4. /\ taints' \in SUBSET (Nat \X Nat)
        /\ \A t \in taints' : \/ t \in taints
                              \/ IsSource(op) /\ t[1] \in op.written /\ t[2] = place
        /\ \A v : (\/ \E t \in taints : t[1] = v
                   \/ IsSource(op) /\ place \notin unmarked' /\ v \in op.written) => \E t \in taints' : t[1] = v
    <3>1. CASE IsSource(op) /\ Taint(op.written, {place}) /\ UNCHANGED unmarked
      <4>1. op.written \in SUBSET Nat /\ {place} \in SUBSET Nat /\ {place} # {}
        BY <2>1
      <4> HIDE DEF op
      <4>2. /\ taints' \in SUBSET (Nat \X Nat)
            /\ \A t \in taints' : t \in taints \/ (t[1] \in op.written /\ t[2] \in {place})
            /\ \A v : (v \in op.written \/ \E t \in taints : t[1] = v)
                     => \E t \in taints' : t[1] = v
        BY <2>2, <3>1, <4>1, TaintFacts
      <4> QED
        BY <3>1, <4>2
    <3>2. CASE ~ IsSource(op) /\ UNCHANGED <<taints, states, unmarked>>
      BY <2>2, <3>2
    <3>3. CASE /\ IsSource(op) /\ unmarked' = unmarked \cup {place}
               /\ UNCHANGED <<taints, states>>
      BY <2>2, <3>3
    <3> QED
      BY <1>3, <3>1, <3>2, <3>3
  <2>5. TypesOK' /\ PhasesOK' /\ WithinBudgets' /\ BranchesAsked'
    BY <1>1, <1>3, <2>1, <2>2, <2>3, <2>4, <2>11, StatesCounted, OperationVisited
  <2>6. Linked = {} /\ Linked' = {}
    BY <1>1, <2>1 DEF Linked
  <2>7. TaintsMade'
    <3>1. \A t \in taints : /\ t[2] \in Sources
                            /\ IsChain(t[2], {}) /\ t[1] \in Made(t[2], {})
      BY <2>6 DEF EnrichInv, TaintsMade
    <3>2. \A t \in taints' : /\ t[2] \in Sources
                             /\ IsChain(t[2], {}) /\ t[1] \in Made(t[2], {})
      BY <2>1, <2>4, <3>1, NoLinks DEF Sources
    <3> QED
      BY <2>1, <2>6, <3>2, SameChains DEF TaintsMade
  <2>8. TaintsSpread'
    <3> SUFFICES ASSUME Whole', NEW source \in Marked', NEW v \in Made(source, {})
                 PROVE  \E t \in taints' : t[1] = v
      <4>1. \A source \in Marked' : Made(source, {})' = Made(source, {})
        BY <2>1, SameChains
      <4>2. \A chain \in SUBSET Linked' : chain = {}
        BY <2>6
      <4> QED
        BY <4>1, <4>2 DEF TaintsSpread
    <3>1. v \in call.ops[source].written
      BY NoLinks
    <3>2. /\ source \in Sources /\ source < place + 1 /\ source \in Nat
          /\ source \notin unmarked' /\ source \notin unmarked
      BY <1>1, <1>3, <2>1, <2>11, SameChains DEF Marked, Sources
    <3>3. CASE source = place
      BY <2>4, <3>1, <3>2, <3>3 DEF Sources
    <3>4. CASE source < place
      <4>1. Whole /\ source \in Marked
        BY <1>3, <2>1, <3>2, <3>4 DEF Whole, Marked
      <4>2. \E t \in taints : t[1] = v
        BY <1>1, <2>6, <4>1, NoLinks DEF EnrichInv, TaintsSpread
      <4> QED
        BY <2>4, <4>2
    <3>5. source < place \/ source = place
      BY <2>1, <3>2
    <3> QED
      BY <3>3, <3>4, <3>5
  <2>9. FlowsMade'
    BY <1>3, <2>1, SameChains DEF EnrichInv, FlowsMade
  <2>10. FlowsFound'
    BY <1>1, <2>1 DEF FlowsFound
  <2> QED
    BY <2>5, <2>7, <2>8, <2>9, <2>10 DEF EnrichInv
<1> QED
  BY <1>1, <1>2, <1>3

\* A sink gets a flow from each source whose chains lead to it.
LEMMA MarkSinkKeeps ==
  ASSUME EnrichInv, MarkSink
  PROVE  EnrichInv'
<1> DEFINE op == call.ops[place]
<1>1. /\ phase = "sinks" /\ ~ Ended /\ Untouched
      /\ \/ \E cause \in {"timeout", "limited", "canceled"} : Break(cause)
         \/ /\ place' = place + 1
            /\ \/ /\ IsSink(op)
                  /\ \E missed \in SUBSET Tainted(Inputs(op)) :
                       /\ flows' = flows \cup (Brought(Inputs(op) \ missed) \X {place})
                       /\ unheard' = unheard \cup ({place} \X missed)
               \/ ~ IsSink(op) /\ UNCHANGED <<flows, unheard>>
            /\ UNCHANGED <<phase, completion, queries, states, asked, taints, unmarked>>
  BY DEF MarkSink
<1>2. CASE \E cause \in {"timeout", "limited", "canceled"} : Break(cause)
  BY <1>1, <1>2, BreakKeeps
<1>3. CASE /\ place' = place + 1
           /\ \/ /\ IsSink(op)
                 /\ \E missed \in SUBSET Tainted(Inputs(op)) :
                      /\ flows' = flows \cup (Brought(Inputs(op) \ missed) \X {place})
                      /\ unheard' = unheard \cup ({place} \X missed)
              \/ ~ IsSink(op) /\ UNCHANGED <<flows, unheard>>
           /\ UNCHANGED <<phase, completion, queries, states, asked, taints, unmarked>>
  <2>1. /\ call \in Requests /\ place \in Nat /\ place \in DOMAIN call.ops /\ exit = "none" /\ Ran
        /\ UNCHANGED <<call, phase, exit>> /\ Inputs(op) \in SUBSET Nat
        /\ DOMAIN call.ops = 1 .. Len(call.ops) /\ Len(call.ops) \in Nat
    <3>1. call \in Requests /\ place \in Nat /\ place \in DOMAIN call.ops /\ exit = "none" /\ Ran
      BY <1>1, LoopFacts
    <3>2. UNCHANGED <<call, phase, exit>>
      BY <1>1, <1>3 DEF Untouched
    <3>3. Inputs(op) \in SUBSET Nat
      BY <3>1, OperationParts
    <3> QED
      BY <3>1, <3>2, <3>3, RequestParts
  <2>2. /\ taints \in SUBSET (Nat \X Nat) /\ flows \in SUBSET (Nat \X Nat)
        /\ unmarked \in SUBSET Nat /\ unheard \in SUBSET (Nat \X Nat)
        /\ states \in Nat /\ (call.states # 0 => states <= call.states)
    BY <1>1 DEF EnrichInv, TypesOK, WithinBudgets
  <2>3. /\ \A flow \in flows' : \/ flow \in flows
                                \/ /\ IsSink(op) /\ flow[2] = place
                                   /\ \E t \in taints : t[1] \in Inputs(op) /\ t[2] = flow[1]
        /\ IsSink(op) =>
             \A t \in taints : t[1] \in Inputs(op) =>
               <<t[2], place>> \in flows' \/ <<place, t[1]>> \in unheard'
        /\ flows \subseteq flows' /\ flows' \in SUBSET (Nat \X Nat)
        /\ unheard \subseteq unheard' /\ unheard' \in SUBSET (Nat \X Nat)
    <3>1. CASE IsSink(op)
      <4>1. PICK missed \in SUBSET Tainted(Inputs(op)) :
              /\ flows' = flows \cup (Brought(Inputs(op) \ missed) \X {place})
              /\ unheard' = unheard \cup ({place} \X missed)
        BY <1>3, <3>1
      <4>2. missed \in SUBSET Nat
        BY <2>1 DEF Tainted
      <4> HIDE DEF op
      <4>3. /\ Brought(Inputs(op) \ missed) \in SUBSET Nat
            /\ \A s \in Brought(Inputs(op) \ missed) :
                 \E t \in taints : t[1] \in Inputs(op) /\ t[2] = s
            /\ \A t \in taints : t[1] \in Inputs(op) =>
                 t[2] \in Brought(Inputs(op) \ missed) \/ t[1] \in missed
        BY <2>2 DEF Brought
      <4>4. place \in Nat
        BY <2>1
      <4> QED
        BY <2>2, <3>1, <4>1, <4>2, <4>3, <4>4
    <3>2. CASE ~ IsSink(op) /\ UNCHANGED <<flows, unheard>>
      BY <2>2, <3>2
    <3> QED
      BY <1>3, <3>1, <3>2
  <2>4. TypesOK' /\ PhasesOK' /\ WithinBudgets' /\ BranchesAsked'
    BY <1>1, <1>3, <2>1, <2>2, <2>3, OperationVisited
  <2>0. phase = "sinks" /\ UNCHANGED unmarked
    BY <1>1, <1>3
  <2>5. Linked = DOMAIN call.ops /\ Linked' = DOMAIN call.ops /\ Marked' = Marked
    BY <2>0, <2>1, SameChains DEF Linked, Marked
  <2>6. TaintsMade'
    BY <1>3, <2>1, <2>5, SameChains DEF EnrichInv, TaintsMade
  <2>7. Whole' = Whole
    BY <1>3, <2>1 DEF Whole, Ran
  <2>8. TaintsSpread'
    BY <1>3, <2>1, <2>5, <2>7, SameChains DEF EnrichInv, TaintsSpread
  <2>9. FlowsMade'
    <3>1. ASSUME NEW t \in taints, t[1] \in Inputs(op)
          PROVE  t[2] \in Sources /\ InOrder(t[2], place)
      <4>1. PICK chain \in SUBSET DOMAIN call.ops : IsChain(t[2], chain) /\ t[1] \in Made(t[2], chain)
        BY <2>5 DEF EnrichInv, TaintsMade
      <4> QED
        BY <3>1, <4>1 DEF EnrichInv, TaintsMade, InOrder, Reaches
    <3>2. IsSink(op) => place \in Sinks
      BY <2>1 DEF Sinks
    <3>3. \A flow \in flows' : /\ flow[1] \in Sources /\ flow[2] \in Sinks
                               /\ InOrder(flow[1], flow[2])
      BY <2>3, <3>1, <3>2 DEF EnrichInv, FlowsMade
    <3> QED
      BY <2>1, <3>3, SameChains DEF FlowsMade
  <2>10. FlowsFound'
    <3> SUFFICES ASSUME Whole, "taint" \in call.enrich, NEW sink \in Visited',
                        NEW source \in Sources \ unmarked, Reaches(source, Heard(sink)')
                 PROVE  \E s \in Sources : <<s, sink>> \in flows'
      <4>1. \A source, sink : Reaches(source, Heard(sink))' <=> Reaches(source, Heard(sink)')
        BY <2>1, SameChains DEF Reaches
      <4> QED
        BY <1>3, <2>1, <2>7, <4>1, SameChains DEF FlowsFound
    <3>0. PICK chain \in SUBSET DOMAIN call.ops :
            IsChain(source, chain) /\ Made(source, chain) \cap Heard(sink)' # {}
      BY DEF Reaches
    <3>5. /\ Heard(sink)' \subseteq Heard(sink) /\ Heard(sink)' \subseteq Inputs(call.ops[sink])
          /\ \A v \in Heard(sink)' : <<sink, v>> \notin unheard'
      BY <2>1, <2>3 DEF Heard, Inputs
    <3>1. sink \in Sinks /\ sink < place + 1 /\ sink \in Nat
      BY <1>1, <1>3, <2>1, SameChains DEF Visited, Sinks
    <3>2. CASE sink < place
      <4>1. sink \in Visited
        BY <3>1, <3>2 DEF Visited
      <4>2. Reaches(source, Heard(sink))
        BY <3>0, <3>5 DEF Reaches
      <4> QED
        BY <1>1, <2>3, <4>1, <4>2 DEF EnrichInv, FlowsFound
    <3>3. CASE sink = place
      <4>2. PICK v \in Made(source, chain) : v \in Heard(sink)'
        BY <3>0
      <4>3. source \in Marked
        BY <1>1 DEF Marked
      <4>4. PICK t \in taints : t[1] = v
        BY <1>1, <2>5, <3>0, <4>3 DEF EnrichInv, TaintsSpread
      <4>5. t[2] \in Sources
        BY DEF EnrichInv, TaintsMade
      <4>6. IsSink(op)
        BY <3>1, <3>3 DEF Sinks
      <4> QED
        BY <2>3, <3>3, <3>5, <4>2, <4>4, <4>5, <4>6
    <3>4. sink < place \/ sink = place
      BY <2>1, <3>1
    <3> QED
      BY <3>2, <3>3, <3>4
  <2> QED
    BY <2>4, <2>6, <2>8, <2>9, <2>10 DEF EnrichInv
<1> QED
  BY <1>1, <1>2, <1>3


\* An operation makes the chains that lead to it longer by itself.
LEMMA TransformKeeps ==
  ASSUME EnrichInv, Transform
  PROVE  EnrichInv'
<1> DEFINE op == call.ops[place]
           given == IF op.code = "call" THEN {} ELSE Carried(op)
<1>1. /\ phase = "transforms" /\ ~ Ended /\ Untouched
      /\ \/ \E cause \in {"timeout", "limited", "canceled"} : Break(cause)
         \/ /\ ~ OutOfStates /\ place' = place + 1
            /\ \/ \E joined \in (SUBSET given) \ {{}} : Taint(op.outputs, joined)
               \/ given = {} /\ UNCHANGED <<taints, states>>
            /\ UNCHANGED <<phase, completion, queries, asked, flows, lost>>
  BY DEF Transform
<1>2. CASE \E cause \in {"timeout", "limited", "canceled"} : Break(cause)
  BY <1>1, <1>2, BreakKeeps
<1>3. CASE /\ ~ OutOfStates /\ place' = place + 1
           /\ \/ \E joined \in (SUBSET given) \ {{}} : Taint(op.outputs, joined)
              \/ given = {} /\ UNCHANGED <<taints, states>>
           /\ UNCHANGED <<phase, completion, queries, asked, flows, lost>>
  <2>1. /\ call \in Requests /\ place \in Nat /\ place \in DOMAIN call.ops /\ exit = "none" /\ Ran
        /\ op.outputs \in SUBSET Nat /\ UNCHANGED <<call, phase, exit, unmarked, unheard>>
        /\ DOMAIN call.ops = 1 .. Len(call.ops) /\ Len(call.ops) \in Nat
    <3>1. call \in Requests /\ place \in Nat /\ place \in DOMAIN call.ops /\ exit = "none" /\ Ran
      BY <1>1, LoopFacts
    <3>2. UNCHANGED <<call, phase, exit, unmarked, unheard>>
      BY <1>1, <1>3 DEF Untouched, lost
    <3>3. op.outputs \in SUBSET Nat
      BY <3>1, OperationParts
    <3> QED
      BY <3>1, <3>2, <3>3, RequestParts
  <2>2. /\ taints \in SUBSET (Nat \X Nat) /\ flows \in SUBSET (Nat \X Nat)
        /\ unmarked \in SUBSET Nat /\ unheard \in SUBSET (Nat \X Nat)
    BY DEF EnrichInv, TypesOK
  <2>3. states' \in {states, states + 1}
    BY <1>3 DEF Taint
  <2>4. given \in SUBSET Nat
    BY <2>2 DEF Carried, Brought
  <2>5. /\ taints' \in SUBSET (Nat \X Nat)
        /\ \A t \in taints' : t \in taints \/ (t[1] \in op.outputs /\ t[2] \in given)
        /\ \A v : (\/ \E t \in taints : t[1] = v
                   \/ given # {} /\ v \in op.outputs) => \E t \in taints' : t[1] = v
    <3>1. CASE \E joined \in (SUBSET given) \ {{}} : Taint(op.outputs, joined)
      <4>0. PICK joined \in SUBSET given : joined # {} /\ Taint(op.outputs, joined)
        BY <3>1
      <4>1. op.outputs \in SUBSET Nat /\ joined \in SUBSET Nat
        BY <2>1, <2>4
      <4> HIDE DEF op, given
      <4>2. /\ taints' \in SUBSET (Nat \X Nat)
            /\ \A t \in taints' : t \in taints \/ (t[1] \in op.outputs /\ t[2] \in joined)
            /\ \A v : (v \in op.outputs \/ \E t \in taints : t[1] = v)
                     => \E t \in taints' : t[1] = v
        BY <2>2, <4>0, <4>1, TaintFacts
      <4> QED
        BY <4>2
    <3>2. CASE given = {} /\ UNCHANGED <<taints, states>>
      BY <2>2, <3>2
    <3> QED
      BY <1>3, <3>1, <3>2
  <2>6. TypesOK' /\ PhasesOK' /\ WithinBudgets' /\ BranchesAsked'
    BY <1>1, <1>3, <2>1, <2>2, <2>3, <2>5, StatesCounted, OperationVisited
  <2>7. /\ Linked = {k \in DOMAIN call.ops : k < place}
        /\ Linked' = {k \in DOMAIN call.ops : k <= place}
    <3>1. {k \in DOMAIN call.ops : k < place + 1} = {k \in DOMAIN call.ops : k <= place}
      BY <2>1
    <3> QED
      BY <1>1, <1>3, <2>1, <3>1 DEF Linked
  <2>8. Linked \subseteq Linked' /\ place \in Linked'
    BY <2>1, <2>7
  <2>9. op.code # "call" => \A t \in taints : t[1] \in Inputs(op) => t[2] \in given
    BY DEF Carried, Brought
  <2>10. \A s \in given : op.code # "call" /\ \E t \in taints : t[1] \in Inputs(op) /\ t[2] = s
    BY DEF Carried, Brought
  <2> HIDE DEF given
  <2>11. TaintsMade'
    <3>1. ASSUME NEW t \in taints'
          PROVE  /\ t[2] \in Sources
                 /\ \E chain \in SUBSET Linked' : IsChain(t[2], chain) /\ t[1] \in Made(t[2], chain)
      <4>1. CASE t \in taints
        BY <2>8, <4>1 DEF EnrichInv, TaintsMade
      <4>2. CASE t[1] \in op.outputs /\ t[2] \in given
        <5>1. op.code # "call"
          BY <2>10, <4>2
        <5>2. PICK u \in taints : u[1] \in Inputs(op) /\ u[2] = t[2]
          BY <2>10, <4>2
        <5>3. u[2] \in Sources
          BY DEF EnrichInv, TaintsMade
        <5>4. PICK chain \in SUBSET Linked : IsChain(u[2], chain) /\ u[1] \in Made(u[2], chain)
          BY DEF EnrichInv, TaintsMade
        <5>5. /\ IsChain(t[2], chain \cup {place})
              /\ Made(t[2], chain \cup {place}) = op.outputs
          BY <2>1, <2>7, <5>1, <5>2, <5>4, ChainExtends
        <5>6. chain \cup {place} \in SUBSET Linked'
          BY <2>8, <5>4
        <5> QED
          BY <4>2, <5>2, <5>3, <5>5, <5>6
      <4> QED
        BY <2>5, <4>1, <4>2
    <3> QED
      BY <2>1, <3>1, SameChains DEF TaintsMade
  <2>12. Whole' = Whole /\ Marked' = Marked
    BY <1>1, <1>3, <2>1, SameChains DEF Whole, Ran, Marked
  <2>13. TaintsSpread'
    <3>1. ASSUME Whole, NEW source \in Marked, NEW chain \in SUBSET Linked',
                 IsChain(source, chain), NEW v \in Made(source, chain)
          PROVE  \E t \in taints' : t[1] = v
      <4>1. CASE place \notin chain
        <5>1. chain \in SUBSET Linked
          BY <2>1, <2>7, <4>1
        <5>2. \E t \in taints : t[1] = v
          BY <1>1, <3>1, <5>1 DEF EnrichInv, TaintsSpread
        <5> QED
          BY <2>5, <5>2
      <4>2. CASE place \in chain
        <5>1. /\ chain \ {place} \in SUBSET Linked /\ IsChain(source, chain \ {place})
              /\ op.code # "call" /\ Made(source, chain \ {place}) \cap Inputs(op) # {}
              /\ Made(source, chain) = op.outputs
          <6>1. /\ chain \in SUBSET {j \in DOMAIN call.ops : j <= place}
                /\ place \in DOMAIN call.ops /\ call \in Requests
            BY <2>1, <2>7
          <6> HIDE DEF op
          <6>2. /\ chain \ {place} \in SUBSET {j \in DOMAIN call.ops : j < place}
                /\ IsChain(source, chain \ {place}) /\ call.ops[place].code # "call"
                /\ Made(source, chain \ {place}) \cap Inputs(call.ops[place]) # {}
                /\ Made(source, chain) = call.ops[place].outputs
            BY <3>1, <4>2, <6>1, ChainShortens
          <6> QED
            BY <2>7, <6>2 DEF op
        <5>2. PICK w \in Made(source, chain \ {place}) : w \in Inputs(op)
          BY <5>1
        <5>3. PICK t \in taints : t[1] = w
          BY <1>1, <3>1, <5>1, <5>2 DEF EnrichInv, TaintsSpread
        <5>4. given # {}
          BY <2>9, <5>1, <5>2, <5>3
        <5> QED
          BY <2>5, <5>1, <5>4
      <4> QED
        BY <4>1, <4>2
    <3> QED
      BY <2>1, <2>12, <3>1, SameChains DEF TaintsSpread
  <2>14. FlowsMade'
    BY <1>3, <2>1, SameChains DEF EnrichInv, FlowsMade
  <2>15. FlowsFound'
    BY <1>1, <2>1 DEF FlowsFound
  <2> QED
    BY <2>6, <2>11, <2>13, <2>14, <2>15 DEF EnrichInv
<1> QED
  BY <1>1, <1>2, <1>3

\* The answer comes after the last loop.
LEMMA AnswerCommandKeeps ==
  ASSUME EnrichInv, AnswerCommand
  PROVE  EnrichInv'
<1>1. /\ \/ phase = "called" /\ call.enrich = {}
         \/ phase = "branches" /\ Ended /\ "taint" \notin call.enrich
         \/ phase = "sinks" /\ Ended
      /\ phase' = "done" /\ exit' \in {"complete", "partial"}
      /\ exit' = "complete" /\ call.view \in {"compact", "taint"} /\ call.enrich # {} =>
           completion = "complete"
      /\ UNCHANGED <<call, place, completion, queries, states, asked, taints, flows, unmarked,
                     unheard>>
  BY DEF AnswerCommand, enrichment, lost, IsComplete
<1>2. TypesOK' /\ PhasesOK' /\ WithinBudgets'
  BY <1>1 DEF EnrichInv, TypesOK, PhasesOK, WithinBudgets
<1>3. call \in Requests
  BY <1>1 DEF EnrichInv, TypesOK
<1>4. /\ DOMAIN call.ops = 1 .. Len(call.ops) /\ Len(call.ops) \in Nat
      /\ DOMAIN call.statements = 1 .. Len(call.statements) /\ Len(call.statements) \in Nat
  BY <1>3, RequestParts
<1>5. phase \in LoopPhases =>
        /\ Ran /\ place \in Nat /\ place > Length
        /\ phase = "branches" => Length = Len(call.statements)
        /\ phase # "branches" => Length = Len(call.ops)
  BY <1>1, LoopFacts DEF Ended
<1>6. BranchesAsked'
  <2> SUFFICES ASSUME completion = "complete", "symbolic" \in call.enrich,
                      NEW k \in DOMAIN call.statements, call.statements[k] # "other"
               PROVE  k \in asked
    BY <1>1 DEF BranchesAsked, Whole
  <2>1. Whole /\ (phase = "branches" => k < place)
    BY <1>1, <1>4, <1>5 DEF Whole
  <2> QED
    BY <2>1 DEF EnrichInv, BranchesAsked
<1>7. Linked \subseteq Linked'
  BY <1>1 DEF Linked
<1>8. TaintsMade' /\ FlowsMade'
  BY <1>1, <1>7, SameChains DEF EnrichInv, TaintsMade, FlowsMade
<1>9. TaintsSpread'
  BY <1>1 DEF TaintsSpread
<1>10. FlowsFound'
  <2> SUFFICES ASSUME completion = "complete", "taint" \in call.enrich, NEW sink \in Sinks,
                      NEW source \in Sources \ unmarked, Reaches(source, Heard(sink))
               PROVE  \E s \in Sources : <<s, sink>> \in flows
    <3>1. \A source, sink : Reaches(source, Heard(sink))' <=> Reaches(source, Heard(sink))
      BY <1>1, SameChains DEF Reaches
    <3> QED
      BY <1>1, <3>1, SameChains DEF FlowsFound, Whole, Visited
  <2>1. phase = "sinks" /\ Whole
    BY <1>1, <1>5 DEF Whole
  <2>2. sink \in Visited
    BY <1>4, <1>5, <2>1 DEF Visited, Sinks
  <2> QED
    BY <2>1, <2>2 DEF EnrichInv, FlowsFound
<1> QED
  BY <1>2, <1>6, <1>8, <1>9, <1>10 DEF EnrichInv


\* The invariant is inductive.
LEMMA EnrichNextKeeps == EnrichInv /\ [EnrichNext]_enrichVars => EnrichInv'
<1> SUFFICES ASSUME EnrichInv, [EnrichNext]_enrichVars
             PROVE  EnrichInv'
  OBVIOUS
<1>1. ASSUME NEW request \in Requests, TakeRequest(request)
      PROVE  EnrichInv'
  BY <1>1, TakeRequestKeeps
<1>2. CASE NoSolver
  BY <1>2, NoSolverKeeps
<1>3. CASE StartEnrichment
  BY <1>3, StartEnrichmentKeeps
<1>4. CASE AskBranch
  BY <1>4, AskBranchKeeps
<1>5. CASE NextLoop
  BY <1>5, NextLoopKeeps
<1>6. CASE MarkSource
  BY <1>6, MarkSourceKeeps
<1>7. CASE Transform
  BY <1>7, TransformKeeps
<1>8. CASE MarkSink
  BY <1>8, MarkSinkKeeps
<1>9. CASE Cancel \/ Expire
  BY <1>9, SameKeeps DEF Cancel, Expire
<1>10. CASE AnswerCommand
  BY <1>10, AnswerCommandKeeps
<1>11. CASE UNCHANGED enrichVars
  BY <1>11, SameKeeps DEF enrichVars
<1> QED
  BY <1>1, <1>2, <1>3, <1>4, <1>5, <1>6, <1>7, <1>8, <1>9, <1>10, <1>11 DEF EnrichNext, EnrichStep

-----------------------------------------------------------------------------
(* The theorems.                                                           *)

\* The inductive invariant holds throughout.
LEMMA EnrichInvHolds == EnrichSpec => []EnrichInv
<1>1. EnrichInit => EnrichInv
  BY EnrichInitKeeps
<1>2. EnrichInv /\ [EnrichNext]_enrichVars => EnrichInv'
  BY EnrichNextKeeps
<1> QED
  BY <1>1, <1>2, PTL DEF EnrichSpec

\* The invariant implies the account.
LEMMA InvAccounts == EnrichInv => EnrichmentAccounted
<1> SUFFICES ASSUME EnrichInv
             PROVE  EnrichmentAccounted
  OBVIOUS
<1>1. ASSUME exit = "complete", call.view \in {"compact", "taint"}, call.enrich # {}
      PROVE  Whole /\ phase = "done"
  BY <1>1 DEF EnrichInv, PhasesOK, TypesOK, Whole, Ran
<1>2. ASSUME exit = "complete", call.view \in {"compact", "taint"}, "symbolic" \in call.enrich
      PROVE  \A k \in DOMAIN call.statements : call.statements[k] # "other" => k \in asked
  BY <1>1, <1>2 DEF EnrichInv, BranchesAsked
<1>3. ASSUME exit = "complete", call.view \in {"compact", "taint"}, "taint" \in call.enrich,
             NEW sink \in Sinks,
             \E source \in Sources \ unmarked : Reaches(source, Heard(sink))
      PROVE  \E source \in Sources : <<source, sink>> \in flows
  <2>1. Whole /\ phase = "done" /\ sink \in Visited
    BY <1>1, <1>3 DEF Visited
  <2> QED
    BY <1>3, <2>1 DEF EnrichInv, FlowsFound
<1> QED
  BY <1>2, <1>3 DEF EnrichInv, TypesOK, WithinBudgets, FlowsMade, EnrichmentAccounted

\* For every function and request, however the signals and the solver interfere: the
\* budgets hold, every flow that is reported is a chain of operations from a source
\* to a sink, and an answer that is given as complete asked about each listed branch
\* and found each sink that such a chain leads to, unless the library refused the
\* source or each of the sink's inputs that the chain leads to
\* (enrichment.cpp:127-369, main.cpp:732-770).
THEOREM EnrichmentAccountedAlways == EnrichSpec => []EnrichmentAccounted
<1>1. EnrichInv => EnrichmentAccounted
  BY InvAccounts
<1> QED
  BY <1>1, EnrichInvHolds, PTL

\* Types, for every function and request.
THEOREM EnrichmentTypes == EnrichSpec => []TypesOK
<1>1. EnrichInv => TypesOK
  BY DEF EnrichInv
<1> QED
  BY <1>1, EnrichInvHolds, PTL

CutShortStays ==
  phase \in LoopPhases /\ completion # "complete" => completion' # "complete"

\* Once a loop was left early, or the solver did not answer, no later loop makes the
\* answer whole again (enrichment.cpp:249-334).
THEOREM CutShortIsFinal == EnrichSpec => [][CutShortStays]_enrichVars
<1>1. ASSUME EnrichNext, phase \in LoopPhases, completion # "complete"
      PROVE  completion' # "complete"
  <2>1. ASSUME NEW request \in Requests, TakeRequest(request)
        PROVE  completion' # "complete"
    BY <1>1, <2>1 DEF TakeRequest
  <2>2. CASE NoSolver \/ StartEnrichment \/ AnswerCommand
    BY <1>1, <2>2 DEF NoSolver, StartEnrichment, AnswerCommand, enrichment
  <2>3. CASE AskBranch
    BY <1>1, <2>3 DEF AskBranch, Break, Answer, enrichment
  <2>4. CASE NextLoop
    BY <1>1, <2>4 DEF NextLoop, Begin, enrichment
  <2>5. CASE MarkSource
    BY <1>1, <2>5 DEF MarkSource, Break
  <2>6. CASE Transform
    BY <1>1, <2>6 DEF Transform, Break
  <2>7. CASE MarkSink
    BY <1>1, <2>7 DEF MarkSink, Break
  <2>8. CASE Cancel \/ Expire
    BY <1>1, <2>8 DEF Cancel, Expire, enrichment
  <2> QED
    BY <1>1, <2>1, <2>2, <2>3, <2>4, <2>5, <2>6, <2>7, <2>8 DEF EnrichNext, EnrichStep
<1>2. [EnrichNext]_enrichVars => [CutShortStays]_enrichVars
  BY <1>1 DEF CutShortStays
<1> QED
  BY <1>2, PTL DEF EnrichSpec
=============================================================================
