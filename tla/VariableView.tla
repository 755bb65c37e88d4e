----------------------------- MODULE VariableView -----------------------------
(***************************************************************************)
(* VariableRecovery: the variables a function is presented with.  Values   *)
(* that play a role become variables, memory that is accessed at one       *)
(* provable place becomes a variable of its own, and entry arguments keep  *)
(* their identity through the parameters of blocks.                        *)
(***************************************************************************)
EXTENDS XairModule

NoIndex == -1
Symbol(origin, value, address, name) ==
  [origin |-> origin, value |-> value, address |-> address, name |-> name]

\* arg0, arg1, ...: as many as the modules name.
ExplicitArgument == [arg0 |-> 0, arg1 |-> 1, arg2 |-> 2]

AbiArgumentIndex(m, v) ==
  LET registers == m.convention.registers
  IN CASE m.name[v] \in DOMAIN ExplicitArgument -> ExplicitArgument[m.name[v]]
       [] m.name[v] \in ToSet(registers) -> CHOOSE k \in 0 .. 3 : registers[k + 1] = m.name[v]
       [] OTHER -> NoIndex

StackArgumentIndex(convention, offset) ==
  LET past == offset - convention.base
  IN IF past < 0 \/ past % convention.stride # 0 THEN NoIndex
     ELSE convention.first + past \div convention.stride

Sums == {"add", "sub"}
Casts == {"int_to_addr", "addr_to_int", "zext", "sext", "trunc"}
StackPointers == {"rsp", "esp"}
FramePointers == {"rbp", "ebp"}
IsConstant(m, v) == CodeOf(m, v) = "const"
Immediate(m, v) == m.ops[DefinitionOf(m, v)].imm
\* The constant as a signed number of its width, which is below that of an offset.
SignedImmediate(m, v) ==
  LET n == Word(Immediate(m, v), m.width[v])
  IN IF n >= 2 ^ (m.width[v] - 1) THEN n - 2 ^ m.width[v] ELSE n
Signed(code, n) == IF code = "sub" THEN - n ELSE n
Depth == 16

\* A stack or frame pointer plus a constant, or nothing.  Offsets do not come
\* near the limits of a word.
RECURSIVE AffineStack(_, _, _)
AffineStack(m, v, depth) ==
  LET op == m.ops[DefinitionOf(m, v)]
      Base(k) == AffineStack(m, op.ins[k], depth + 1)
      Plus(k, constant) ==
        {[base |-> b.base,
          offset |-> b.offset + Signed(op.code, SignedImmediate(m, op.ins[constant]))] : b \in Base(k)}
  IN CASE depth > Depth -> {}
       [] depth <= Depth /\ m.name[v] \in StackPointers \cup FramePointers ->
            {[base |-> v, offset |-> 0]}
       [] CodeOf(m, v) \in Casts -> Base(1)
       [] CodeOf(m, v) \in Sums ->
            IF IsConstant(m, op.ins[2]) /\ Base(1) # {} THEN Plus(1, 2)
            ELSE IF op.code = "add" /\ IsConstant(m, op.ins[1]) THEN Plus(2, 1)
            ELSE {}
       [] OTHER -> {}

\* The number a value always is, or nothing.
RECURSIVE ConstantAddress(_, _, _)
ConstantAddress(m, v, depth) ==
  LET op == m.ops[DefinitionOf(m, v)]
      In(k) == ConstantAddress(m, op.ins[k], depth + 1)
  IN CASE depth > Depth -> {}
       [] depth <= Depth /\ IsConstant(m, v) -> {op.imm}
       [] CodeOf(m, v) \in Casts \ {"sext"} -> In(1)
       [] CodeOf(m, v) \in Sums -> {a + Signed(op.code, b) : a \in In(1), b \in In(2)}
       [] OTHER -> {}

SymbolsAt(m, address) == SelectSeq(m.symbols, LAMBDA s : s.address = address /\ address # 0)
SymbolsOf(m, v) == SelectSeq(m.symbols, LAMBDA s : s.value = v)
\* The first of the symbols of the strongest origin.
Best(symbols) ==
  symbols[CHOOSE i \in DOMAIN symbols :
            \A j \in DOMAIN symbols :
              \/ symbols[i].origin < symbols[j].origin
              \/ symbols[i].origin = symbols[j].origin /\ i <= j]
KnownAddress(m, v) ==
  {a \in ConstantAddress(m, v, 0) : a \in m.loaded \/ SymbolsAt(m, a) # << >>}

IsAccess(op) == op.code \in {"load", "store"}
Accessed(op) == IF op.code = "load" THEN op.out ELSE op.ins[2]

\* Where an access goes, when that is proved: a stack slot <<"stack", base, offset,
\* width>> or a global <<"global", 0, address, width>>.
Place(m, op) ==
  LET width == m.width[Accessed(op)]
      stack == AffineStack(m, op.ins[1], 0)
  IN IF stack # {} THEN {<<"stack", s.base, s.offset, width>> : s \in stack}
     ELSE {<<"global", 0, a, width>> : a \in KnownAddress(m, op.ins[1])}

-----------------------------------------------------------------------------
(* What the scan of the blocks in scope finds out about each value.        *)

ScopeOps(m) == {m.ops[i] : i \in ToSet(OpsIn(m, m.scope))}
Terms(m) == {TermOf(m, b) : b \in ToSet(m.scope)}
Argument(term, v) == v \in ToSet(term.trueArgs) \cup ToSet(term.falseArgs)

\* The value a function returns: the first that is neither memory nor flags.
Returned(m, term) ==
  LET values == SelectSeq(term.trueArgs, LAMBDA v : m.kind[v] \notin {"mem", "flags"})
  IN IF term.kind = "return" /\ values # << >> THEN {values[1]} ELSE {}

UsesInScope(m, v) ==
  LET Count(seq) == Cardinality({i \in DOMAIN seq : seq[i] = v})
      ops == OpsIn(m, m.scope)
  IN FoldLeft(LAMBDA n, i : n + Count(m.ops[i].ins), 0, ops)
     + FoldLeft(LAMBDA n, b : LET t == TermOf(m, b)
                              IN n + Count(<<t.condition>> \o t.trueArgs \o t.falseArgs),
                0, m.scope)

InScope(m, v) ==
  \/ \E b \in ToSet(m.scope) : v \in ToSet(m.blocks[b].params)
  \/ \E op \in ScopeOps(m) : v = op.out \/ v \in ToSet(op.ins)
  \/ \E t \in Terms(m) : v = t.condition \/ Argument(t, v)

IsPlaceAddress(m, v) ==
  \E op \in ScopeOps(m) : IsAccess(op) /\ op.ins[1] = v /\ Place(m, op) # {}
IsKnownGlobal(m, v) == m.kind[v] = "addr" /\ CodeOf(m, v) # "param" /\ KnownAddress(m, v) # {}

\* The roles a value has by its uses alone.
ScanRoles(m, o, v) ==
  LET Used(code) == {op \in ScopeOps(m) : op.code = code /\ op.ins # << >>}
  IN {role \in {"call_result", "function_pointer", "buffer", "global", "return", "repeated"} :
        CASE role = "call_result" -> \E op \in ScopeOps(m) : op.code = "call" /\ op.out = v
          [] role = "function_pointer" -> \E op \in Used("call") : op.imm = 0 /\ Last(op.ins) = v
          [] role = "buffer" ->
               o.buffers /\ \E op \in ScopeOps(m) :
                              IsAccess(op) /\ op.ins[1] = v /\ Place(m, op) = {}
          [] role = "global" -> IsKnownGlobal(m, v) /\ \E op \in ScopeOps(m) : op.out = v
          [] role = "return" -> \E t \in Terms(m) : v \in Returned(m, t)
          [] role = "repeated" ->
               /\ o.repeated /\ o.threshold # 0 /\ UsesInScope(m, v) >= o.threshold
               /\ m.kind[v] \notin {"mem", "flags"} /\ ~ IsConstant(m, v)}

\* A use that only a call makes does not count: its operands are speculative.
DirectlyRelevant(m) ==
  {v \in Values(m) :
     \/ \E op \in ScopeOps(m) : op.code # "call" /\ v \in ToSet(op.ins)
     \/ \E t \in Terms(m) : v = t.condition \/ v \in Returned(m, t)}

\* As many passes over the edges as there are blocks, and one more.
Passes(m, st, Step(_, _)) ==
  LET edges == PassedIn(m, m.scope)
  IN Repeat(Len(m.scope) + 1, st, LAMBDA s : FoldLeft(Step, s, edges))

\* Variant of Relevant: one pass.
RelevantOnePass(m) ==
  FoldLeft(LAMBDA S, edge : IF edge[2] \in S THEN S \cup {edge[1]} ELSE S,
           DirectlyRelevant(m), PassedIn(m, m.scope))

\* A value handed to a relevant parameter is relevant.
Relevant(m) ==
  Passes(m, DirectlyRelevant(m),
         LAMBDA S, edge : IF edge[2] \in S THEN S \cup {edge[1]} ELSE S)

\* The arguments the entry block receives.
EntryArguments(m) ==
  LET relevant == Relevant(m)
  IN [v \in Values(m) |->
        IF v \in ToSet(m.blocks[m.entry].params)
           /\ (AbiArgumentIndex(m, v) = 0 \/ v \in relevant)
        THEN AbiArgumentIndex(m, v) ELSE NoIndex]

\* The argument each value is taken for.  A parameter that receives several is
\* the one that is passed last.
ArgumentIndexes(m) ==
  Passes(m, EntryArguments(m),
         LAMBDA index, edge : IF index[edge[1]] # NoIndex
                              THEN [index EXCEPT ![edge[2]] = index[edge[1]]] ELSE index)

EntryStackPointer(m) ==
  LET pointers == SelectSeq(m.blocks[m.entry].params, LAMBDA v : m.name[v] \in StackPointers)
  IN IF pointers = << >> THEN 0 ELSE Last(pointers)

-----------------------------------------------------------------------------
(* Variables.  A name is a tuple of its parts.                             *)

NameOf(m, v, roles, index) ==
  CASE SymbolsOf(m, v) # << >> -> Best(SymbolsOf(m, v)).name
    [] OTHER ->
       CASE "call_result" \in roles -> <<"call", m.ops[DefinitionOf(m, v)].imm>>
         [] "call_result" \notin roles /\ "global" \in roles ->
              LET a == CHOOSE a \in ConstantAddress(m, v, 0) : TRUE
              IN IF SymbolsAt(m, a) # << >> THEN Best(SymbolsAt(m, a)).name ELSE <<"global", a>>
         [] OTHER ->
              CASE "argument" \in roles -> <<"arg", index>>
                [] "argument" \notin roles /\ "return" \in roles -> <<"return_value">>
                [] OTHER ->
                   CASE "function_pointer" \in roles -> <<"function_ptr", v>>
                     [] "function_pointer" \notin roles /\ "buffer" \in roles -> <<"buffer", v>>
                     [] OTHER -> <<"tmp", v>>

\* How variables are ordered, and which role decides the kind.
Kinds == <<"argument", "return_value", "stack_slot", "global", "call_result", "buffer",
           "repeated_value", "temporary">>
KindOf == <<"global", "argument", "call_result", "return", "buffer", "repeated">>
PrimaryKind(roles) ==
  LET shown == SelectSeq(KindOf, LAMBDA r : r \in roles)
  IN CASE shown = << >> -> "temporary"
       [] shown # << >> /\ shown[1] = "return" -> "return_value"
       [] shown # << >> /\ shown[1] = "repeated" -> "repeated_value"
       [] OTHER -> shown[1]

Contexts == [signed |-> {"sdiv", "srem", "slt", "sle", "ashr", "sext"},
             unsigned |-> {"udiv", "urem", "ult", "ule", "lshr", "zext"}]
InContext(m, v, sign) ==
  \E op \in ScopeOps(m) : op.code \in Contexts[sign] /\ (v = op.out \/ v \in ToSet(op.ins))
TypeOf(m, v, roles) ==
  LET signs == {sign \in DOMAIN Contexts : InContext(m, v, sign)}
  IN CASE "function_pointer" \in roles -> "function_ptr"
       [] "function_pointer" \notin roles /\ "buffer" \in roles -> "ptr<u8>"
       [] OTHER -> CASE m.width[v] = 1 -> "bool"
                     [] m.width[v] # 1 /\ m.kind[v] = "int" /\ Cardinality(signs) = 1 ->
                          CHOOSE sign \in signs : TRUE
                     [] OTHER -> IF m.kind[v] = "addr" THEN "addr" ELSE "unknown"

Variable(id, kind, roles, index, primary, values, addresses, name, type) ==
  [id |-> id, kind |-> kind, roles |-> roles, index |-> index, primary |-> primary,
   values |-> values, addresses |-> addresses, name |-> name, type |-> type]
IsStorage(var) == var.id[1] # "value"

\* A value that only serves as the address of a place is not shown beside it.
ShownRoles(m, roles, v) ==
  LET suppressed == IsPlaceAddress(m, v) \/ IsKnownGlobal(m, v)
      left == IF suppressed THEN roles \ {"buffer"} ELSE roles
  IN IF suppressed /\ left \subseteq {"global", "repeated"} THEN {} ELSE left

AllRoles(m, o, index) ==
  [v \in Values(m) |->
     ScanRoles(m, o, v) \cup (IF index[v] # NoIndex THEN {"argument"} ELSE {})]

\* A value with a symbol is shown, whatever roles are left to it.
MakeVariables(m, index, all, roles) ==
  LET named == {v \in Values(m) : SymbolsOf(m, v) # << >> /\ InScope(m, v)}
      shown == SelectSeq([v \in Values(m) |-> v], LAMBDA v : v \in named \/ roles[v] # {})
      Roles(v) == IF v \in named /\ roles[v] = {} THEN all[v] \ {"buffer"} ELSE roles[v]
      Make(v) == Variable(<<"value", 0, v, 0>>, PrimaryKind(Roles(v)), Roles(v), index[v], v,
                          {v}, {}, NameOf(m, v, Roles(v), index[v]), TypeOf(m, v, Roles(v)))
      \* The values of one argument are one variable, under the name of the first.
      Add(vars, v) ==
        LET same == {k \in DOMAIN vars : "argument" \in vars[k].roles /\ vars[k].index = index[v]}
        IN IF "argument" \in Roles(v) /\ same # {}
           THEN LET k == CHOOSE k \in same : TRUE
                IN [vars EXCEPT ![k].values = @ \cup {v}, ![k].roles = @ \cup Roles(v)]
           ELSE Append(vars, Make(v))
  IN FoldLeft(Add, << >>, shown)
VariablesWith(m, index, all) ==
  MakeVariables(m, index, all, [v \in Values(m) |-> ShownRoles(m, all[v], v)])
ValueVariables(m, o, index) == VariablesWith(m, index, AllRoles(m, o, index))

Bytes(width) == (width + 7) \div 8
Overlap(p, q) ==
  /\ p # q /\ p[1] = "stack" /\ q[1] = "stack" /\ p[2] = q[2]
  /\ p[3] < q[3] + Bytes(q[4]) /\ q[3] < p[3] + Bytes(p[4])

StorageVariables(m) ==
  LET accesses == SelectSeq(OpsIn(m, m.scope), LAMBDA i : IsAccess(m.ops[i]))
      places == UNION {Place(m, m.ops[i]) : i \in ToSet(accesses)}
      \* Stack slots and then globals, each by place and width.
      Before(p, q) ==
        \/ p[1] = "stack" /\ q[1] = "global"
        \/ p[1] = q[1] /\ \E k \in 2 .. 4 : p[k] < q[k] /\ \A j \in 2 .. k - 1 : p[j] = q[j]
      At(p) == SelectSeq(accesses, LAMBDA i : p \in Place(m, m.ops[i]))
      Make(p) ==
        LET argument == IF p[1] = "stack" /\ p[2] = EntryStackPointer(m)
                        THEN StackArgumentIndex(m.convention, p[3]) ELSE NoIndex
            addresses == {m.ops[i].ins[1] : i \in ToSet(At(p))}
            name == CASE argument # NoIndex -> <<"arg", argument>>
                      [] p[1] = "stack" /\ argument = NoIndex -> <<"stack", p[3]>>
                      [] p[1] = "global" -> IF SymbolsAt(m, p[3]) # << >>
                                            THEN Best(SymbolsAt(m, p[3])).name
                                            ELSE <<"global", p[3]>>
        IN Variable(p, CASE argument # NoIndex -> "argument" [] p[1] = "global" -> "global"
                         [] OTHER -> "stack_slot",
                    IF argument # NoIndex THEN {"stack_slot", "argument"}
                    ELSE IF p[1] = "stack" THEN {"stack_slot"} ELSE {"global"},
                    argument, m.ops[At(p)[1]].ins[1],
                    addresses \cup {Accessed(m.ops[i]) : i \in ToSet(At(p))}, addresses,
                    IF \E q \in places : Overlap(p, q) THEN name \o <<"_", p[4]>> ELSE name,
                    TypeOf(m, Accessed(m.ops[At(p)[1]]), {}))
  IN LET order == SetToSortSeq(places, Before) IN [k \in DOMAIN order |-> Make(order[k])]

\* Argument registers after a gap are temporaries of the compiler.
DropAfterGap(vars) ==
  LET IsRegister(var) == "argument" \in var.roles /\ ~ IsStorage(var)
      indices == {vars[k].index : k \in {k \in DOMAIN vars : IsRegister(vars[k])}}
  IN SelectSeq(vars, LAMBDA var : IsRegister(var) => 0 .. var.index \subseteq indices)

SortVariables(vars) ==
  LET Rank(kind) == CHOOSE k \in DOMAIN Kinds : Kinds[k] = kind
      Argument0(var) == IF var.kind = "argument" THEN var.index ELSE 0
      Class(var) == CHOOSE k \in 1 .. 3 : <<"global", "stack", "value">>[k] = var.id[1]
      Key(var) == <<Rank(var.kind), Argument0(var), var.primary, Class(var), var.id[4]>>
      Before(p, q) == \E k \in DOMAIN Key(p) : /\ Key(p)[k] < Key(q)[k]
                                               /\ \A j \in 1 .. k - 1 : Key(p)[j] = Key(q)[j]
  IN SortSeq(vars, Before)

\* Variant of UniqueNames: a name made unique is not remembered.
UniqueNamesForgotten(vars) ==
  LET Add(acc, var) ==
        IF var.name \notin acc.names
        THEN [names |-> acc.names \cup {var.name}, vars |-> Append(acc.vars, var)]
        ELSE [acc EXCEPT !.vars = Append(@, [var EXCEPT !.name = @ \o <<"v", var.primary>>])]
  IN FoldLeft(Add, [names |-> {}, vars |-> << >>], vars).vars

UniqueNames(vars) ==
  LET Add(acc, var) ==
        LET numbered == {n \in 3 .. Len(vars) + 3 : var.name \o <<"_", n>> \notin acc.names}
            name == CASE var.name \notin acc.names -> var.name
                      [] var.name \in acc.names
                           /\ var.name \o <<"v", var.primary>> \notin acc.names ->
                           var.name \o <<"v", var.primary>>
                      [] OTHER -> var.name \o <<"_", Min(numbered)>>
        IN [names |-> acc.names \cup {name},
            vars |-> Append(acc.vars, [var EXCEPT !.name = name])]
  IN FoldLeft(Add, [names |-> {}, vars |-> << >>], vars).vars

Cut(vars, limit) ==
  LET keep == IF limit = 0 THEN Len(vars) ELSE Min({limit, Len(vars)})
  IN [variables |-> SubSeq(vars, 1, keep), omitted |-> Len(vars) - keep]

\* build_uncached.
Variables(m, o) ==
  Cut(UniqueNames(SortVariables(DropAfterGap(
        ValueVariables(m, o, ArgumentIndexes(m)) \o StorageVariables(m)))), o.variables)
=============================================================================
