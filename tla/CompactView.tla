------------------------------ MODULE CompactView ------------------------------
(***************************************************************************)
(* CompactRecovery: the statements a function is listed as.  The names of  *)
(* the variables are carried to the values they flow into, through block   *)
(* parameters and through stores and loads of one stack slot; each         *)
(* operation that matters becomes a statement; budgets cut the list.       *)
(*                                                                         *)
(* The code walks the blocks in the order of a hash table, which the       *)
(* language leaves open: walk is that order.                               *)
(***************************************************************************)
EXTENDS ControlView, ExpressionView

NoName == << >>
Address(name) == <<"&">> \o name
IsAddress(name) == name # NoName /\ name[1] = "&"

\* The names of the variables, a later variable taking a value over.
VariableNames(m, variables) ==
  LET Give(names, var) ==
        LET shown == IF IsStorage(var) THEN var.addresses ELSE var.values
        IN [v \in Values(m) |->
              IF v \in shown \cup {var.primary}
              THEN IF IsStorage(var) THEN Address(var.name) ELSE var.name
              ELSE names[v]]
  IN FoldLeft(Give, [v \in Values(m) |-> NoName], variables)

\* The value a parameter is a copy of: the one all blocks of the function pass.
CopySources(m) ==
  LET edges == UNION {ToSet(Passed(m, b, NodeSet(m))) : b \in NodeSet(m)}
  IN [v \in Values(m) |-> {e[1] : e \in {e \in edges : e[2] = v}}]
IsCopy(sources, v) == Cardinality(sources[v]) = 1

RECURSIVE ResolveCopy(_, _, _)
ResolveCopy(sources, v, seen) ==
  IF v \in seen \/ ~ IsCopy(sources, v) THEN v
  ELSE ResolveCopy(sources, CHOOSE a \in sources[v] : TRUE, seen \cup {v})
Resolve(sources, v) == ResolveCopy(sources, v, {})

CarryNames(m, sources, names, walk) ==
  LET Step(n, edge) == LET name == n[Resolve(sources, edge[1])]
                       IN IF name = NoName THEN n ELSE [n EXCEPT ![edge[2]] = name]
  IN Repeat(Len(walk) + 1, names, LAMBDA n : FoldLeft(Step, n, PassedIn(m, walk)))

\* Distances from the stack pointer at the entry.  The first found stays.
OffsetPasses == 32
StorageOffsets(m, walk) ==
  LET Start0 == [v \in Values(m) |->
                   IF v \in ToSet(m.blocks[m.entry].params) /\ m.name[v] \in StackPointers
                   THEN {0} ELSE {}]
      Learn(offsets, v, found) == IF offsets[v] = {} THEN [offsets EXCEPT ![v] = found] ELSE offsets
      Operate(offsets, i) ==
        LET op == m.ops[i]
        IN CASE op.code \in Casts -> Learn(offsets, op.out, offsets[op.ins[1]])
             [] op.code \in Sums /\ IsConstant(m, op.ins[2]) ->
                  Learn(offsets, op.out, {n + Signed(op.code, Immediate(m, op.ins[2])) :
                                            n \in offsets[op.ins[1]]})
             [] OTHER -> offsets
      Block(offsets, b) ==
        FoldLeft(LAMBDA f, edge : Learn(f, edge[2], f[edge[1]]),
                 FoldLeft(Operate, offsets, OpsOf(m, b)), Passed(m, b, ToSet(walk)))
  IN Repeat(OffsetPasses, Start0, LAMBDA f : FoldLeft(Block, f, walk))

\* Variant of SameStorageAddress: the last store is taken to be to the same place.
SameStorageAlways(sources, offsets, names, v, w) == TRUE

SameStorageAddress(sources, offsets, names, v, w) ==
  \/ Resolve(sources, v) = Resolve(sources, w)
  \/ offsets[v] # {} /\ offsets[v] = offsets[w]
  \/ IsAddress(names[v]) /\ names[v] = names[w]

\* What was last stored where a load reads: back over stores to other places, and
\* no further than a block whose predecessors hand it different memories.
RECURSIVE StoredValue(_, _, _, _, _, _, _)
StoredValue(m, sources, offsets, names, memory, address, seen) ==
  LET at == Resolve(sources, memory)
      writers == {i \in DOMAIN m.ops : /\ m.ops[i].next = at /\ m.ops[i].code = "store"
                                       /\ <<"op", i>> \notin m.unread}
      op == m.ops[CHOOSE i \in writers : TRUE]
  IN IF memory \in seen \/ writers = {} THEN {}
     ELSE IF SameStorageAddress(sources, offsets, names, op.ins[1], address) THEN {op.ins[2]}
     ELSE StoredValue(m, sources, offsets, names, op.memory, address, seen \cup {memory})

RECURSIVE ResolveIdentity(_, _, _, _)
ResolveIdentity(m, sources, v, seen) ==
  LET at == Resolve(sources, v)
  IN IF v \in seen THEN v
     ELSE IF CodeOf(m, at) \in Casts \cup {"extract"}
     THEN ResolveIdentity(m, sources, m.ops[DefinitionOf(m, at)].ins[1], seen \cup {v})
     ELSE at

\* A load is named for the value that was stored, or else for the place it reads.
NameLoads(m, sources, names, offsets, walk) ==
  LET Name1(n, i) ==
        LET op == m.ops[i]
            stored == {ResolveIdentity(m, sources, v, {}) :
                         v \in StoredValue(m, sources, offsets, n, op.memory, op.ins[1], {})}
            given == {n[v] : v \in stored} \ {NoName}
        IN CASE op.code # "load" -> n
             [] op.code = "load" /\ \E name \in given : ~ IsAddress(name) ->
                  [n EXCEPT ![op.out] = CHOOSE name \in given : TRUE]
             [] OTHER -> IF IsAddress(n[op.ins[1]])
                         THEN [n EXCEPT ![op.out] = Tail(n[op.ins[1]]) \o <<"_value">>]
                         ELSE n
  IN FoldLeft(Name1, names, OpsIn(m, walk))

-----------------------------------------------------------------------------
(* Statements.  A text is kept for each operand a statement shows.         *)

Unresolved == {"unknown", "undef", "opaque", "opaque_effect"}
Statement(kind, node, op, values, texts) ==
  [kind |-> kind, node |-> node, op |-> op, values |-> values, texts |-> texts]

TextOptions(o) == [depth |-> o.depth, nodes |-> 64, tokens |-> 96, characters |-> 384,
                   single |-> TRUE, loads |-> TRUE]
ValueText(m, names, o, v) ==
  IF names[v] # NoName THEN <<Name(v)>> ELSE Expression(m, v, TextOptions(o)).text

\* The kind of statement an operation is listed as, if it is.
StatementKind(m, op) ==
  CASE op.code \in {"call", "load", "store"} -> op.code
    [] op.code \in Unresolved -> "unresolved"
    [] op.code \in {"barrier", "intrinsic"} -> "effect"
    [] op.code = "const" /\ op.imm \notin {0, 1} ->
         IF op.imm \in m.loaded THEN "global_reference" ELSE "constant"
    [] OTHER -> IF op.effects # {} /\ op.code # "const" THEN "effect" ELSE "none"

OperationStatement(m, names, o, i) ==
  LET op == m.ops[i]
      kind == StatementKind(m, op)
      shown == CASE kind = "call" -> op.ins
                 [] kind = "load" -> <<op.ins[1]>>
                 [] kind = "store" -> op.ins
                 [] OTHER -> << >>
  IN Statement(kind, op.block, i, shown,
               [k \in DOMAIN shown |-> ValueText(m, names, o, shown[k])])

\* What a return shows: the first value the variables take for the result, as the
\* value it is a copy of and without the name of the result itself.
TerminatorStatement(m, sources, names, o, returned, b) ==
  LET t == TermOf(m, b)
      given == SelectSeq(t.trueArgs, LAMBDA v : v \in returned)
      shown == CASE t.kind = "cbranch" -> <<t.condition>>
                 [] t.kind = "return" /\ given # << >> -> <<Resolve(sources, given[1])>>
                 [] OTHER -> << >>
      plain == [v \in Values(m) |->
                  IF /\ t.kind = "return" /\ v \in ToSet(shown)
                     /\ names[v] # NoName /\ names[v][1] = "return_value"
                  THEN NoName ELSE names[v]]
      kind == CASE t.kind \in {"cbranch", "jump"} -> "branch"
                [] t.kind \in {"return", "trap"} -> t.kind
                [] OTHER -> "none"
  IN Statement(kind, b, 0, shown, [k \in DOMAIN shown |-> ValueText(m, plain, o, shown[k])])

\* Variant of OnPage: each page shows the calls one before its own.
OnPageEarly(o, n) == n >= o.callOffset /\ (o.calls = 0 \/ n - o.callOffset < o.calls)

\* A call counts for the page whether it is shown or not.
OnPage(o, n) == n > o.callOffset /\ (o.calls = 0 \/ n - o.callOffset <= o.calls)

CallsIn(m, order) == SelectSeq(OpsIn(m, order), LAMBDA i : m.ops[i].code = "call")
CallNumber(m, order, i) == CHOOSE n \in DOMAIN CallsIn(m, order) : CallsIn(m, order)[n] = i

\* The statements of a block: one if it could not be lifted, and else those of its
\* operations and terminator, of which nothing says that they could not be read.
BlockStatements(m, sources, names, o, returned, order, b) ==
  LET listed == SelectSeq(OpsOf(m, b), LAMBDA i :
                  /\ StatementKind(m, m.ops[i]) # "none"
                  /\ m.ops[i].code = "call" => OnPage(o, CallNumber(m, order, i)))
  IN IF ~ m.blocks[b].lifted THEN <<Statement("unresolved", b, 0, << >>, << >>)>>
     ELSE SelectSeq([k \in DOMAIN listed |-> OperationStatement(m, names, o, listed[k])]
                      \o <<TerminatorStatement(m, sources, names, o, returned, b)>>,
                    LAMBDA s : s.kind # "none")

\* One record for each jump table and each call through a pointer, in whatever order
\* they were resolved.
IndirectStatements(m, names, o) ==
  LET switches == SelectSeq([b \in DOMAIN m.blocks |-> b],
                            LAMBDA b : b \in NodeSet(m) /\ m.blocks[b].term.kind = "switch")
      Make(b) ==
        LET t == m.blocks[b].term
        IN Statement(IF t.cases = << >> THEN "unresolved" ELSE "indirect_target", b, 0,
                     <<t.condition>>, <<ValueText(m, names, o, t.condition)>>)
      pointers == SelectSeq([i \in DOMAIN m.ops |-> i], LAMBDA i :
                    i \in DOMAIN m.indirect /\ m.ops[i].block \in NodeSet(m))
      Through(i) == Statement(IF m.indirect[i] = 0 THEN "unresolved" ELSE "indirect_target",
                              m.ops[i].block, 0, << >>, << >>)
  IN [k \in DOMAIN switches |-> Make(switches[k])]
     \o [k \in DOMAIN pointers |-> Through(pointers[k])]

Terminal(kind) == kind \in {"return", "trap"}

\* Variant of Ordered: records that are found late stay behind.
AsFound(material, order) == material

\* Source order again, with the terminal statement of each node behind the rest.
Ordered(material, order) ==
  FlattenSeq([k \in DOMAIN order |->
    SelectSeq(material, LAMBDA s : s.node = order[k] /\ ~ Terminal(s.kind))
    \o SelectSeq(material, LAMBDA s : s.node = order[k] /\ Terminal(s.kind))])

Found(m, sources, names, o, variables, order) ==
  LET returns == {k \in DOMAIN variables : "return" \in variables[k].roles}
      returned == UNION {variables[k].values \cup {variables[k].primary} : k \in returns}
  IN FlattenSeq([k \in DOMAIN order |->
       BlockStatements(m, sources, names, o, returned, order, order[k])])
     \o IndirectStatements(m, names, o)

\* Budgets cut the list behind what they allow.
Limited(material, o, calls, control, complete) ==
  LET kept == Kept(material, o.statements)
      cut == SubSeq(material, Len(kept) + 1, Len(material))
      Count(seq, kind) == Cardinality({k \in DOMAIN seq : seq[k].kind = kind})
      evidence == IF o.evidence = 0 THEN Len(kept) ELSE Min({o.evidence, Len(kept)})
      omitted == [statements |-> Len(cut), branches |-> Count(cut, "branch"),
                  calls |-> calls - Count(material, "call") + Count(cut, "call"),
                  evidence |-> Len(kept) - evidence,
                  regions |-> control.omitted.regions, transfers |-> control.omitted.transfers]
  IN [statements |-> kept, totalCalls |-> calls, omitted |-> omitted,
      complete |-> complete /\ \A part \in DOMAIN omitted : omitted[part] = 0]

\* build_uncached, from the names on.
Listing(m, names, o, variables, control, complete) ==
  Limited(Ordered(Found(m, CopySources(m), names, o, variables, control.order), control.order),
          o, Len(CallsIn(m, control.order)), control, complete)
=============================================================================
