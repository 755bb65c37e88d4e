----------------------------- MODULE FunctionViews -----------------------------
(***************************************************************************)
(* What a session shows of one function: an expression, or its variables,  *)
(* control regions and statements, recovered one from the other.  The      *)
(* function then runs, on words of a few bits, so that what a reader is    *)
(* told of its values can be compared with the values it computes.         *)
(***************************************************************************)
EXTENDS CompactView

CONSTANTS Problems,     \* records of a module and the options it is viewed with
          MaxBlocks     \* how many blocks a run of the function enters

VARIABLES m, o, stage, text, variables, control, names, offsets, listing, frame

vars == <<m, o, stage, text, variables, control, names, offsets, listing, frame>>
views == <<text, variables, control, names, offsets, listing>>

None == [at |-> "nowhere"]

Init ==
  /\ \E problem \in Problems : m = problem.m /\ o = problem.o
  /\ stage = "opened" /\ text = None /\ variables = << >> /\ control = None
  /\ names = << >> /\ offsets = << >> /\ listing = None /\ frame = None

\* AnalysisSession::expression.
ShowExpression ==
  /\ stage = "opened" /\ o.root # 0
  /\ text' = Expression(m, o.root, o) /\ stage' = "shown"
  /\ UNCHANGED <<m, o, variables, control, names, offsets, listing, frame>>

\* AnalysisSession::compact_view, which asks for all variables.
RecoverVariables ==
  /\ stage = "opened" /\ o.root = 0
  /\ variables' = Variables(m, [o EXCEPT !.variables = 0]).variables
  /\ stage' = "variables"
  /\ UNCHANGED <<m, o, text, control, names, offsets, listing, frame>>

RecoverControl ==
  /\ stage = "variables" /\ control' = Control(m, o, Analysis(m)) /\ stage' = "control"
  /\ UNCHANGED <<m, o, text, variables, names, offsets, listing, frame>>

NamedLoads(sources, found, walk) ==
  NameLoads(m, sources, CarryNames(m, sources, VariableNames(m, variables), walk), found, walk)

NameValues ==
  /\ stage = "control"
  /\ \E walk \in SetToSeqs(NodeSet(m)) :
       /\ offsets' = StorageOffsets(m, walk)
       /\ names' = NamedLoads(CopySources(m), StorageOffsets(m, walk), walk)
  /\ stage' = "named"
  /\ UNCHANGED <<m, o, text, variables, control, listing, frame>>

ListStatements ==
  /\ stage = "named" /\ listing' = Listing(m, names, o, variables, control, m.complete)
  /\ stage' = "listed"
  /\ UNCHANGED <<m, o, text, variables, control, names, offsets, frame>>

-----------------------------------------------------------------------------
(* The function runs.                                                      *)

\* A cell of memory holds so many bits, and a word as many cells as it needs, the
\* lowest first; addresses wrap around.
CellBits == 2
Cells(width) == (width + CellBits - 1) \div CellBits
CellAt(memory, address) == address % Cardinality(DOMAIN memory)
Fetched(memory, address, width) ==
  Word(FoldLeft(LAMBDA sum, k : sum + memory[CellAt(memory, address + k - 1)] * 2 ^ (CellBits * (k - 1)),
                0, [k \in 1 .. Cells(width) |-> k]), width)
Written(memory, address, value, width) ==
  [c \in DOMAIN memory |->
     LET k == CellAt(memory, c - address)
     IN IF k < Cells(width) THEN Word(value \div 2 ^ (CellBits * k), CellBits) ELSE memory[c]]

\* start has the values at the entry, before those before the block was entered.
Frame(block, from, regs, memory, before, start, n) ==
  [at |-> "block", block |-> block, from |-> from, rest |-> Body(m, block), regs |-> regs,
   memory |-> memory, before |-> before, start |-> start, blocks |-> n]

Enter ==
  /\ stage = "listed" /\ stage' = "running"
  /\ \E regs \in m.inputs, memory \in m.memories :
       frame' = Frame(m.entry, 0, regs, memory, regs, regs, 1)
  /\ UNCHANGED <<m, o, views>>

Value(op) ==
  LET r == frame.regs
      w == IF op.out = 0 THEN 0 ELSE m.width[op.out]
      from == r[op.ins[1]]
      flags == m.ops[DefinitionOf(m, op.ins[1])]
  IN CASE op.code = "const" -> {Word(op.imm, w)}
       [] op.code \in DOMAIN TokenOf -> {Apply(op.code, r[op.ins[1]], r[op.ins[2]], w)}
       [] op.code = "sext" ->
            {Word(IF from < 2 ^ (m.width[op.ins[1]] - 1) THEN from ELSE from - 2 ^ m.width[op.ins[1]], w)}
       [] op.code \in Casts \ {"sext"} -> {Word(from, w)}
       [] op.code = "load" -> {Fetched(frame.memory, from, w)}
       [] op.code = "flag_zf" -> {Truth(r[flags.ins[1]] = r[flags.ins[2]])}
       [] op.code = "flag_cf" -> {Truth(r[flags.ins[1]] < r[flags.ins[2]])}
       [] op.code = "call" -> {0, 1}
       [] OTHER -> {0}

Operate ==
  /\ stage = "running" /\ frame.rest # << >>
  /\ LET op == m.ops[Head(frame.rest)]
         memories == CASE op.code = "store" ->
                            {Written(frame.memory, frame.regs[op.ins[1]], frame.regs[op.ins[2]],
                                     m.width[op.ins[2]])}
                       [] op.code = "call" -> {frame.memory} \cup m.memories
                       [] OTHER -> {frame.memory}
     IN \E value \in Value(op), memory \in memories :
          frame' = [frame EXCEPT
                      !.rest = Tail(@), !.memory = memory,
                      !.regs = IF op.out = 0 THEN @ ELSE [@ EXCEPT ![op.out] = value]]
  /\ UNCHANGED <<m, o, stage, views>>

\* The parameters of the next block take their arguments at once.
GoTo(target, args) ==
  LET params == m.blocks[target].params
      Received(v) == CHOOSE k \in DOMAIN params : params[k] = v
      regs == [v \in Values(m) |->
                 IF v \in ToSet(params) /\ Received(v) <= Len(args)
                 THEN frame.regs[args[Received(v)]] ELSE frame.regs[v]]
  IN IF target \notin NodeSet(m) \/ frame.blocks = MaxBlocks
     THEN stage' = "returned" /\ UNCHANGED frame
     ELSE /\ frame' = Frame(target, frame.block, regs, frame.memory, frame.regs, frame.start,
                            frame.blocks + 1)
          /\ UNCHANGED stage

\* Where a jump table goes: to what was found of it, and out of the function when
\* that may not be all.
Jumps(t) == ToSet(t.cases) \cup (IF t.span = Len(t.cases) /\ ~ t.unsafe THEN {} ELSE {0})

Leave ==
  /\ stage = "running" /\ frame.rest = << >>
  /\ LET t == m.blocks[frame.block].term
     IN \/ t.kind = "cbranch" /\ frame.regs[t.condition] = 1 /\ GoTo(t.onTrue, t.trueArgs)
        \/ t.kind = "cbranch" /\ frame.regs[t.condition] = 0 /\ GoTo(t.onFalse, t.falseArgs)
        \/ t.kind = "jump" /\ GoTo(t.onTrue, t.trueArgs)
        \/ t.kind = "switch" /\ \E target \in Jumps(t) : GoTo(target, << >>)
        \/ t.kind \in {"return", "trap"} /\ stage' = "returned" /\ UNCHANGED frame
  /\ UNCHANGED <<m, o, views>>

Next ==
  \/ ShowExpression \/ RecoverVariables \/ RecoverControl \/ NameValues \/ ListStatements
  \/ Enter \/ Operate \/ Leave

Spec == Init /\ [][Next]_vars

-----------------------------------------------------------------------------
TypeOK ==
  /\ stage \in {"opened", "shown", "variables", "control", "named", "listed", "running",
               "returned"}
  /\ stage = "shown" => text.omitted \in Nat /\ text.nodes <= Max({1, o.nodes})
  /\ \A k \in DOMAIN variables : /\ variables[k].kind \in ToSet(Kinds)
                                  /\ variables[k].values \subseteq Values(m)
  /\ frame # None => frame.block \in NodeSet(m) /\ frame.blocks \in 1 .. MaxBlocks

\* The text of a value, read with the precedences of its operators and with the
\* memory as it is where the value is computed, says what the value is; and a text
\* that reports nothing omitted is the one without any budget.  Texts in which the
\* code negates a comparison that contains another, or selects by a selection, are
\* left out: those it gets wrong.
TextFaithful ==
  stage = "shown" =>
    /\ ~ text.unclear => ReadsAs(m, o.root, text.text, Len(m.ops))
    /\ text.omitted = 0 =>
         text.text = Expression(m, o.root, [o EXCEPT !.depth = m.count, !.nodes = 2 ^ m.count,
                                                     !.tokens = 2 ^ m.count]).text

\* The values a value flows into within so many blocks.
FlowsTo(v, n) ==
  FoldLeft(LAMBDA S, k : S \cup {e[2] : e \in {e \in ToSet(PassedIn(m, m.scope)) : e[1] \in S}},
           {v}, [k \in 1 .. n |-> k])
RegisterArguments ==
  {k \in DOMAIN variables : "argument" \in variables[k].roles /\ ~ IsStorage(variables[k])}
Parameters(index) ==
  {p \in ToSet(m.blocks[m.entry].params) : AbiArgumentIndex(m, p) = index}

\* What is shown as an argument has come from the register of that argument; a
\* register whose value is put to use, within as many blocks as the passes cover, is
\* an argument unless one before it is not; and no two variables share a name.
VariablesSound ==
  stage = "variables" =>
    LET passes == Len(m.scope) + 1
        shown == {variables[k].index : k \in RegisterArguments}
    IN /\ \A j, k \in DOMAIN variables : variables[j].name = variables[k].name => j = k
       /\ \A k \in RegisterArguments : \A v \in variables[k].values :
            \E p \in Parameters(variables[k].index) : v \in FlowsTo(p, m.count)
       /\ \A index \in 0 .. 3 : \A p \in Parameters(index) :
            /\ FlowsTo(p, passes) \cap DirectlyRelevant(m) # {}
            /\ 0 .. index - 1 \subseteq shown
            => index \in shown

Running == stage \in {"running", "returned"} /\ frame # None
IsLoopOf(region, header, member) ==
  region.kind \in {"while_loop", "do_while_loop"} /\ region.header = header
  /\ member \in ToSet(region.nodes)

\* Every block of the function has a place in the order and, unless the budget cut
\* them, in a region.  Unless it cut them too, the function goes from block to block
\* by the transfers that are shown, and continues a loop by one that says so; and it
\* never leaves by a jump table that is called complete.
RegionsCover ==
  /\ stage = "control" =>
       /\ ToSet(control.order) = NodeSet(m) /\ Len(control.order) = Cardinality(NodeSet(m))
       /\ control.omitted.regions = 0 =>
            NodeSet(m) = UNION {ToSet(control.regions[k].nodes) : k \in DOMAIN control.regions}
  /\ Running /\ frame.from # 0 /\ control.omitted.transfers + control.omitted.regions = 0 =>
       \E k \in DOMAIN control.transfers :
         LET t == control.transfers[k]
         IN /\ t.edge.src = frame.from /\ t.edge.dst = frame.block /\ t.kind # "call_target"
            /\ (t.kind = "continue_loop") =
                 (\E j \in DOMAIN control.regions :
                    IsLoopOf(control.regions[j], frame.block, frame.from))
  /\ stage = "returned" /\ frame.blocks < MaxBlocks =>
       \A k \in DOMAIN control.regions :
         control.regions[k].complete => control.regions[k].header # frame.block

\* The calls of a page, or all of them.
PageOf(calls) ==
  SubSeq(calls, o.callOffset + 1, IF o.calls = 0 THEN Len(calls)
                                  ELSE Min({Len(calls), o.callOffset + o.calls}))

\* Every call is shown or counted as omitted, and the calls that are shown are those
\* of the page, one after the other, up to where the budget cut the statements.  The
\* statements follow the blocks with each terminal one last, and a listing that is
\* called complete has every operation that matters exactly once and the condition of
\* every lifted block that branches, of what the library lets it read.
ListingAccounted ==
  stage = "listed" =>
    LET s == listing.statements
        At(node) == CHOOSE k \in DOMAIN control.order : control.order[k] = node
        calls == SelectSeq(s, LAMBDA t : t.kind = "call")
        page == PageOf(CallsIn(m, control.order))
    IN /\ Len(calls) + listing.omitted.calls = listing.totalCalls
       /\ [k \in DOMAIN calls |-> calls[k].op] = SubSeq(page, 1, Len(calls))
       /\ listing.omitted.statements = 0 => Len(calls) = Len(page)
       /\ \A j, k \in DOMAIN s : j < k =>
            /\ At(s[j].node) <= At(s[k].node)
            /\ s[j].node = s[k].node => ~ Terminal(s[j].kind)
            /\ s[j].op # 0 /\ s[k].op # 0 => s[j].op # s[k].op
       /\ listing.complete =>
            /\ \A i \in ToSet(OpsIn(m, control.order)) :
                 StatementKind(m, m.ops[i]) # "none" => \E k \in DOMAIN s : s[k].op = i
            /\ \A b \in NodeSet(m) :
                 m.blocks[b].lifted /\ TermOf(m, b).kind = "cbranch" =>
                 \E k \in DOMAIN s : /\ s[k].kind = "branch" /\ s[k].node = b
                                     /\ s[k].values = <<m.blocks[b].term.condition>>

\* The values the current block has computed so far.
Computed ==
  ToSet(m.blocks[frame.block].params)
  \cup ({m.ops[i].out : i \in ToSet(Body(m, frame.block)) \ ToSet(frame.rest)} \ {0})

\* Every argument of a parameter that has a name or an offset has the same.
Settled ==
  \A edge \in ToSet(PassedIn(m, control.order)) :
    /\ offsets[edge[2]] # {} => offsets[edge[1]] = offsets[edge[2]]
    /\ names[edge[2]] # NoName /\ names[edge[2]][1] = "arg" => names[edge[1]] = names[edge[2]]
KnownStores == \A op \in ToSet(m.ops) : op.code = "store" => offsets[op.ins[1]] # {}

\* No slot is accessed in parts, in two widths or at two offsets, and nothing that is
\* stored has gone through a conversion that changes it.
Changing == {"trunc", "sext", "extract"}
WholeSlots ==
  LET accesses == {op \in ToSet(m.ops) : IsAccess(op)}
      stored == {op.ins[2] : op \in {op \in accesses : op.code = "store"}}
  IN /\ \A p, q \in accesses : \A j \in offsets[p.ins[1]], k \in offsets[q.ins[1]] :
          IF j = k THEN m.width[Accessed(p)] = m.width[Accessed(q)]
          ELSE Word(j - k, m.width[p.ins[1]]) >= Cells(m.width[Accessed(q)])
     /\ \A v \in Values(m) : CodeOf(m, v) \in Changing => FlowsTo(v, m.count) \cap stored = {}

ArgumentNameHolds ==
  Running => \A v \in Computed : \A index \in 0 .. 3 :
    names[v] = <<"arg", index>> => \E p \in Parameters(index) : frame.regs[v] = frame.start[p]

\* In a function in which the names agree where paths meet, and which stores only to
\* known slots of its stack and each of them whole, a value that is named for an
\* argument has its value, through all the stores and loads of the slots, whichever
\* order the blocks are visited in; and an offset is the distance from the stack
\* pointer at the entry.  Elsewhere it need not: the code takes a store to be to the
\* same place, and the value stored to be the same, whatever their widths
\* (compact_view.cpp:596-656), and at a join the name that is carried last stays.
NamesHold ==
  Running /\ Settled /\ KnownStores /\ WholeSlots =>
    /\ ArgumentNameHolds
    /\ \A v \in Computed : \A n \in offsets[v] :
         frame.regs[v] = Word(frame.start[EntryStackPointer(m)] + n, m.width[v])

\* Each time round, the counter of a loop has changed by its step, when the loop has
\* one latch and the update is the counter plus a constant.
InductionStepHolds ==
  Running /\ frame.rest = Body(m, frame.block) =>
    \A k \in DOMAIN control.regions : \A i \in control.regions[k].induction :
      LET header == control.regions[k].header
          v == i.variable
          place == CHOOSE p \in DOMAIN m.blocks[header].params : m.blocks[header].params[p] = v
          updates == {m.ops[DefinitionOf(m, u)] : u \in EdgeArgument(m, frame.from, header, place)}
      IN /\ frame.block = header /\ Latches(control.graph, header) = <<frame.from>>
         /\ v \in ToSet(m.blocks[header].params)
         /\ \A op \in updates : v \in ToSet(op.ins)
         => frame.regs[v] = Word(frame.before[v] + i.step, m.width[v])

\* The blocks of a sequence run one after the other: none is entered or left in
\* between.
SequencesRunThrough ==
  Running /\ frame.from # 0 =>
    \A k \in DOMAIN control.regions :
      LET nodes == control.regions[k].nodes
      IN control.regions[k].kind = "sequence" =>
           \A j \in 1 .. Len(nodes) - 1 :
             (frame.from = nodes[j]) = (frame.block = nodes[j + 1])

\* What a statement shows of its operands reads as their values where it stands.
StatementTextCurrent ==
  stage = "listed" => \A k \in DOMAIN listing.statements :
    LET s == listing.statements[k]
    IN \A j \in DOMAIN s.values :
         ReadsAs(m, s.values[j], s.texts[j], IF s.op = 0 THEN Len(m.ops) + 1 ELSE s.op)
=============================================================================
