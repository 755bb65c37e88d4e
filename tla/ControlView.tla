------------------------------ MODULE ControlView ------------------------------
(***************************************************************************)
(* ControlRecovery: the regions a function is read as, loops, selections   *)
(* and sequences, and one transfer for each edge of its control flow graph.*)
(***************************************************************************)
EXTENDS VariableView

Region(kind, header, nodes) ==
  [kind |-> kind, header |-> header, nodes |-> nodes, condition |-> 0, conditionNode |-> 0,
   join |-> 0, complete |-> FALSE, induction |-> {}]

\* A jump table splits its function into fragments: its targets are taken back in.
NodeSet(m) ==
  FoldLeft(LAMBDA S, b : LET t == m.blocks[b].term
                         IN IF b \in S /\ t.kind = "switch"
                            THEN S \cup ((ToSet(t.cases) \cup {t.default}) \cap DOMAIN m.blocks)
                            ELSE S,
           ToSet(m.scope), [b \in DOMAIN m.blocks |-> b])

\* Variant of BlockOrder: what the analysis does not reach is dropped.
ReachedOrder(m, g) == g.order

\* Nodes the analysis g does not order follow by address.
BlockOrder(m, g) ==
  g.order \o SetToSortSeq(NodeSet(m) \ ToSet(g.order), LAMBDA a, b : a < b)

ControlEdges(m) ==
  LET nodes == SetToSortSeq(NodeSet(m), LAMBDA a, b : a < b)
  IN FlattenSeq([k \in DOMAIN nodes |-> EdgesOf(m, nodes[k])])
Outgoing(m, b) == SelectSeq(EdgesOf(m, b), LAMBDA e : ~ IsCall(e))
Conditionals(m, b) == SelectSeq(EdgesOf(m, b), IsConditional)
\* Variant of Incoming: whatever else goes to a node is overlooked.
IncomingOnce(m, b) == 1
Incoming(m, b) == Cardinality({k \in DOMAIN ControlEdges(m) : ControlEdges(m)[k].dst = b})
Loops(g) == DOMAIN g.members
Latches(g, header) ==
  SetToSortSeq({e[1] : e \in {e \in g.back : e[2] = header}}, LAMBDA a, b : a < b)

-----------------------------------------------------------------------------
(* What a loop counts.                                                     *)

RECURSIVE DependsOn(_, _, _, _)
DependsOn(m, v, needle, depth) ==
  \/ v = needle
  \/ /\ depth < Depth /\ DefinitionOf(m, v) # 0
     /\ \E k \in DOMAIN m.ops[DefinitionOf(m, v)].ins :
          DependsOn(m, m.ops[DefinitionOf(m, v)].ins[k], needle, depth + 1)

Conversions == {"zext", "sext", "trunc", "extract"}

\* Variant of InductionStep: a subtraction counts up.
RECURSIVE InductionStepUp(_, _, _)
InductionStepUp(m, update, v) ==
  LET op == m.ops[DefinitionOf(m, update)]
  IN CASE CodeOf(m, update) \in Conversions -> InductionStepUp(m, op.ins[1], v)
       [] CodeOf(m, update) \in Sums ->
            {n \in (IF DependsOn(m, op.ins[1], v, 0) /\ IsConstant(m, op.ins[2])
                    THEN {Immediate(m, op.ins[2])} ELSE {}) : n # 0}
       [] OTHER -> {}

\* The step of a counter, or nothing: the outermost constant that is added to
\* whatever depends on it.
RECURSIVE InductionStep(_, _, _)
InductionStep(m, update, v) ==
  LET op == m.ops[DefinitionOf(m, update)]
  IN CASE CodeOf(m, update) \in Conversions -> InductionStep(m, op.ins[1], v)
       [] CodeOf(m, update) \in Sums ->
            {n \in (IF DependsOn(m, op.ins[1], v, 0) /\ IsConstant(m, op.ins[2])
                    THEN {Signed(op.code, Immediate(m, op.ins[2]))}
                    ELSE IF op.code = "add" /\ DependsOn(m, op.ins[2], v, 0)
                              /\ IsConstant(m, op.ins[1])
                    THEN {Immediate(m, op.ins[1])} ELSE {}) : n # 0}
       [] OTHER -> {}

\* The offset from the stack or the frame pointer, whichever it is.
RECURSIVE StackOffset(_, _, _)
StackOffset(m, v, depth) ==
  LET op == m.ops[DefinitionOf(m, v)]
  IN CASE depth >= Depth -> {}
       [] depth < Depth /\ m.name[v] \in StackPointers \cup FramePointers -> {0}
       [] CodeOf(m, v) \in Casts -> StackOffset(m, op.ins[1], depth + 1)
       [] CodeOf(m, v) \in Sums /\ IsConstant(m, op.ins[2]) ->
            {n + Signed(op.code, Immediate(m, op.ins[2])) :
               n \in StackOffset(m, op.ins[1], depth + 1)}
       [] OTHER -> {}

RECURSIVE FindLoad(_, _)
FindLoad(m, v) ==
  CASE CodeOf(m, v) = "load" -> {v}
    [] CodeOf(m, v) \in Conversions -> FindLoad(m, m.ops[DefinitionOf(m, v)].ins[1])
    [] OTHER -> {}

OffsetOfLoad(m, v) == StackOffset(m, m.ops[DefinitionOf(m, v)].ins[1], 0)

RECURSIVE StoredStep(_, _, _)
StoredStep(m, v, offset) ==
  LET op == m.ops[DefinitionOf(m, v)]
      Loads(k) == \E l \in FindLoad(m, op.ins[k]) : offset \in OffsetOfLoad(m, l)
      sides == {k \in 1 .. 2 : /\ Loads(k) /\ IsConstant(m, op.ins[3 - k])
                               /\ op.code = "sub" => k = 1}
  IN CASE CodeOf(m, v) \in Conversions -> StoredStep(m, op.ins[1], offset)
       [] CodeOf(m, v) \in Sums /\ sides # {} ->
            {Signed(op.code, Immediate(m, op.ins[3 - Min(sides)]))} \ {0}
       [] OTHER -> {}

\* The operands of the comparison a condition is made of.  The sense it is taken
\* in is not kept.
RECURSIVE ComparisonOperands(_, _)
ComparisonOperands(m, v) ==
  LET op == m.ops[DefinitionOf(m, v)]
      code == CodeOf(m, v)
      Boolean(k) == IsConstant(m, op.ins[k]) /\ m.width[op.ins[k]] = 1
      flags == op.ins[1]
  IN CASE code \in {"eq", "ne", "xor"} /\ (Boolean(1) \/ Boolean(2)) ->
            ComparisonOperands(m, op.ins[IF Boolean(2) THEN 1 ELSE 2])
       [] \/ code \in {"ult", "ule", "slt", "sle"}
          \/ code \in {"eq", "ne"} /\ ~ Boolean(1) /\ ~ Boolean(2) ->
            {<<code, op.ins[1], op.ins[2]>>}
       [] code \in {"flag_zf", "flag_cf"} /\ CodeOf(m, flags) = "flags_sub" ->
            {<<IF code = "flag_cf" THEN "ult" ELSE "eq",
               m.ops[DefinitionOf(m, flags)].ins[1], m.ops[DefinitionOf(m, flags)].ins[2]>>}
       [] OTHER -> {}

\* What a block passes to a parameter of the target, the edge taken when true first.
EdgeArgument(m, source, target, k) ==
  LET t == TermOf(m, source)
  IN CASE t.onTrue = target /\ k <= Len(t.trueArgs) -> {t.trueArgs[k]}
       [] t.onTrue # target /\ t.onFalse = target /\ k <= Len(t.falseArgs) -> {t.falseArgs[k]}
       [] OTHER -> {}

Induction(variable, initial, bound, step, comparison) ==
  [variable |-> variable, initial |-> initial, bound |-> bound, step |-> step,
   comparison |-> comparison]

\* The first parameter of the header that one side of the condition depends on and
\* that counts, with the update of the last latch; or else a stack slot that does.
RecoverInduction(m, g, header, condition) ==
  LET members == g.members[header]
      Arguments0(sources, k) ==
        FoldLeft(LAMBDA last, s : LET a == EdgeArgument(m, s, header, k)
                                  IN IF a = {} THEN last ELSE a, {}, sources)
      outside == SelectSeq(SetToSortSeq(NodeSet(m), LAMBDA a, b : a < b),
                           LAMBDA b : b \notin members)
      Counted(c, k) ==
        LET v == m.blocks[header].params[k]
            left == DependsOn(m, c[2], v, 0)
            initial == Arguments0(outside, k) \cup {0}
        IN IF left = DependsOn(m, c[3], v, 0) THEN {}
           ELSE {Induction(v, Max(initial), IF left THEN c[3] ELSE c[2], step, c[1]) :
                   step \in UNION {InductionStep(m, u, v) :
                                     u \in Arguments0(Latches(g, header), k)}}
      InParameter(c) ==
        LET found == {k \in DOMAIN m.blocks[header].params : Counted(c, k) # {}}
        IN IF found = {} THEN {} ELSE Counted(c, Min(found))
      stores == {i \in DOMAIN m.ops : m.ops[i].code = "store" /\ m.ops[i].block \in members}
      InSlot(c, side) ==
        {Induction(l, 0, c[5 - side], step, c[1]) :
           l \in FindLoad(m, c[side]),
           step \in UNION {UNION {StoredStep(m, m.ops[i].ins[2], n) :
                                    n \in StackOffset(m, m.ops[i].ins[1], 0)
                                          \cap UNION {OffsetOfLoad(m, l) : l \in FindLoad(m, c[side])}} :
                             i \in stores}}
      Found(c) == CASE InParameter(c) # {} -> InParameter(c)
                    [] InParameter(c) = {} /\ InSlot(c, 2) # {} -> InSlot(c, 2)
                    [] OTHER -> InSlot(c, 3)
      all == IF condition = 0 THEN {} ELSE UNION {Found(c) : c \in ComparisonOperands(m, condition)}
  IN IF all = {} THEN {} ELSE {CHOOSE i \in all : TRUE}

-----------------------------------------------------------------------------
(* Regions, in the order they are found.                                   *)

LoopRegion(m, g, header) ==
  LET members == g.members[header]
      leaving == SelectSeq(Conditionals(m, header), LAMBDA e : e.dst \notin members)
      \* A latch that decides anything takes the condition over.
      latches == SelectSeq(Latches(g, header), LAMBDA s : s # header /\ Conditionals(m, s) # << >>)
      fromLatch == FlattenSeq([k \in DOMAIN latches |->
                     SelectSeq(Outgoing(m, latches[k]), LAMBDA e : e.dst \notin members)])
      joins == (IF leaving = << >> THEN << >> ELSE <<Last(leaving)>>) \o fromLatch
      decider == IF latches # << >> THEN Last(latches) ELSE header
      condition == IF latches # << >> THEN Last(Conditionals(m, decider)).condition
                   ELSE IF leaving # << >> THEN Last(leaving).condition ELSE 0
      kind == CASE leaving = << >> /\ latches # << >> -> "do_while_loop"
                [] OTHER -> "while_loop"
  IN [Region(kind, header, SetToSortSeq(members, LAMBDA a, b : a < b))
        EXCEPT !.condition = condition, !.conditionNode = decider,
               !.join = IF joins = << >> THEN 0 ELSE Last(joins).dst,
               !.induction = RecoverInduction(m, g, header, condition)]

\* Variant of TableComplete: targets outside the function are overlooked.
TableCompleteAnywhere(m, t) == t.cases # << >> /\ t.span = Len(t.cases) /\ ~ t.unsafe

\* Every value of the switched expression has a case, and every case is a node of
\* the function.
TableComplete(m, t) ==
  /\ t.cases # << >> /\ t.span = Len(t.cases) /\ ~ t.unsafe
  /\ ToSet(t.cases) \subseteq NodeSet(m) /\ t.default \in NodeSet(m) \cup {0}

SwitchRegion(m, g, b) ==
  LET t == m.blocks[b].term
      known == t.kind = "switch"
  IN [Region("switch", b, <<b>>)
        EXCEPT !.conditionNode = b,
               !.condition = IF known THEN t.condition ELSE 0,
               !.join = IF known /\ b \in g.reached THEN g.postdominator[b] ELSE 0,
               !.complete = known /\ TableComplete(m, t)]

TerminalNode(m, b) ==
  b \in DOMAIN m.blocks /\ TermOf(m, b).kind \in {"return", "trap"}

BranchRegion(m, g, b) ==
  LET two == Conditionals(m, b)
      join == IF b \in g.reached THEN g.postdominator[b] ELSE 0
      returns == TerminalNode(m, two[1].dst) # TerminalNode(m, two[2].dst)
      kind == CASE returns -> "early_return"
                [] ~ returns /\ join # 0 -> "if_else"
                [] OTHER -> "terminal_if"
  IN [Region(kind, b, <<b>>) EXCEPT !.condition = two[1].condition, !.conditionNode = b,
                                    !.join = IF returns THEN 0 ELSE join]

IsSwitch(m, b) == Len(Outgoing(m, b)) >= 3 \/ m.blocks[b].term.kind = "switch"
IsBranch(m, g, b) ==
  /\ ~ IsSwitch(m, b) /\ b \notin Loops(g)
  /\ Len(Conditionals(m, b)) = 2 /\ Conditionals(m, b)[1].dst # Conditionals(m, b)[2].dst

\* Runs of blocks that only go to each other.
SequenceRegions(m, g, order, covered) ==
  LET Joined(k) ==
        /\ k < Len(order) /\ order[k] \notin covered /\ Len(Outgoing(m, order[k])) = 1
        /\ Outgoing(m, order[k])[1].dst = order[k + 1] /\ Incoming(m, order[k + 1]) = 1
        /\ <<order[k], order[k + 1]>> \notin g.back
      starts == SelectSeq([k \in DOMAIN order |-> k],
                          LAMBDA k : Joined(k) /\ (k = 1 \/ ~ Joined(k - 1)))
      End(k) == Min({j \in k .. Len(order) : ~ Joined(j)})
  IN [k \in DOMAIN starts |->
        Region("sequence", order[starts[k]], SubSeq(order, starts[k], End(starts[k])))]

Entry(m, order) == IF m.entry \in ToSet(m.scope) THEN m.entry ELSE order[1]

LoopRegions(m, g) ==
  LET headers == SetToSortSeq(Loops(g), LAMBDA a, b : a < b)
  IN [k \in DOMAIN headers |-> LoopRegion(m, g, headers[k])]

\* Where the order comes to a block that decides.
DecisionRegions(m, g, order) ==
  LET deciding == SelectSeq(order, LAMBDA b : IsSwitch(m, b) \/ IsBranch(m, g, b))
  IN [k \in DOMAIN deciding |-> IF IsSwitch(m, deciding[k]) THEN SwitchRegion(m, g, deciding[k])
                                ELSE BranchRegion(m, g, deciding[k])]

Covered(regions) == UNION {ToSet(regions[k].nodes) : k \in DOMAIN regions}
WithSequences(m, g, order, regions) ==
  regions \o SequenceRegions(m, g, order, Covered(regions))

\* The region of an irreducible function covers nothing by itself.
WithRest(m, g, order, regions) ==
  LET left == SelectSeq(order, LAMBDA b : b \notin Covered(regions))
  IN regions
     \o (IF g.irreducible THEN <<Region("irreducible", Entry(m, order), order)>> ELSE << >>)
     \o [k \in DOMAIN left |-> Region("sequence", left[k], <<left[k]>>)]

Regions(m, g, order) ==
  WithRest(m, g, order,
    WithSequences(m, g, order, LoopRegions(m, g) \o DecisionRegions(m, g, order)))

TransferKind(g, edge) ==
  LET leaves == \E h \in Loops(g) : edge.src \in g.members[h] /\ edge.dst \notin g.members[h]
  IN CASE IsCall(edge) -> "call_target"
       [] edge.kind = "return" -> "return"
       [] OTHER ->
            CASE <<edge.src, edge.dst>> \in g.back -> "continue_loop"
              [] leaves -> "break_loop"
              [] OTHER -> CASE IsConditional(edge) -> "branch"
                            [] edge.kind = "indirect" -> "switch_case"
                            [] OTHER -> "goto_label"

\* What is kept of a list within a budget, 0 being none.
Kept(seq, budget) == IF budget = 0 THEN seq ELSE SubSeq(seq, 1, Min({budget, Len(seq)}))

\* build_uncached, once the function is analysed as g.
ControlOf(m, o, g, order, regions, edges) ==
  LET kept == Kept(edges, o.transfers)
      omitted == [regions |-> Len(regions) - Len(Kept(regions, o.regions)),
                  transfers |-> Len(edges) - Len(kept)]
  IN [graph |-> g, order |-> order, regions |-> Kept(regions, o.regions),
      transfers |-> [k \in DOMAIN kept |-> [edge |-> kept[k], kind |-> TransferKind(g, kept[k])]],
      omitted |-> omitted,
      fallback |-> \/ ~ m.analysed \/ g.irreducible \/ omitted.regions + omitted.transfers > 0
                   \/ ToSet(order) # g.reached]
Control(m, o, g) ==
  ControlOf(m, o, g, BlockOrder(m, g), Regions(m, g, BlockOrder(m, g)), ControlEdges(m))
=============================================================================
