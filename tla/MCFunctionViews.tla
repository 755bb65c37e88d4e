---------------------------- MODULE MCFunctionViews ----------------------------
(***************************************************************************)
(* The functions that are viewed: straight-line code for the texts of      *)
(* values; four blocks in many shapes for regions and statements; loops    *)
(* that count; functions that keep arguments in stack slots; functions     *)
(* that hand them from block to block; and functions that read input in a  *)
(* call and use it in another.                                             *)
(***************************************************************************)
EXTENDS FunctionCommand, TLC

I(code, ins, width) == [code |-> code, ins |-> ins, width |-> width, imm |-> 0, memory |-> 0,
                        next |-> 0, effects |-> {}, block |-> 1, out |-> 0]
Const(n, width) == [I("const", << >>, width) EXCEPT !.imm = n]

Term(kind) == [kind |-> kind, condition |-> 0, onTrue |-> 0, trueArgs |-> << >>, onFalse |-> 0,
               falseArgs |-> << >>, cases |-> << >>, default |-> 0, span |-> 0, unsafe |-> FALSE]
Jump(target, args) == [Term("jump") EXCEPT !.onTrue = target, !.trueArgs = args]
Branch(condition, t, targs, f, fargs) ==
  [Term("cbranch") EXCEPT !.condition = condition, !.onTrue = t, !.trueArgs = targs,
                          !.onFalse = f, !.falseArgs = fargs]
Return(args) == [Term("return") EXCEPT !.trueArgs = args]
Block(params, term) == [params |-> params, term |-> term, lifted |-> TRUE]

Windows == [registers |-> <<"rcx", "rdx", "r8", "r9">>, base |-> 40, stride |-> 8, first |-> 4]
Module(ops, blocks, width, name, kind, scope) ==
  [ops |-> ops, blocks |-> blocks, width |-> width, name |-> name, kind |-> kind,
   count |-> Len(width), scope |-> scope, entry |-> 1, convention |-> Windows, loaded |-> {},
   symbols |-> << >>, analysed |-> TRUE, complete |-> TRUE, inputs |-> {}, memories |-> {},
   api |-> << >>, unread |-> {}, indirect |-> << >>]

Options == [root |-> 0, depth |-> 6, nodes |-> 64, tokens |-> 96, characters |-> 0,
            single |-> TRUE, loads |-> TRUE, variables |-> 0, threshold |-> 2, repeated |-> TRUE,
            buffers |-> TRUE, regions |-> 0, transfers |-> 0, statements |-> 0, calls |-> 0,
            callOffset |-> 0, evidence |-> 0,
            view |-> "compact", enrich |-> {}, queries |-> 0, states |-> 0]

-----------------------------------------------------------------------------
(* Straight-line programs of five operations on the words 1 and 2 and the   *)
(* truth value 3: operation k defines the value 3 + k.                      *)

Slot1 == {Const(0, 1), Const(1, 1)}
Slot2 == {I("ult", <<1, 2>>, 1), I("load", <<1>>, 2), I("add", <<1, 2>>, 2),
          I("flags_sub", <<1, 2>>, 2), I("eq", <<1, 2>>, 1), I("select", <<3, 1, 2>>, 2)}
Slot3 == {I("store", <<1, 2>>, 0), I("sub", <<1, 5>>, 2), I("sub", <<5, 2>>, 2),
          I("eq", <<4, 5>>, 1), I("eq", <<5, 1>>, 1), I("flag_zf", <<5>>, 1),
          I("flag_cf", <<5>>, 1), I("flags_add", <<5, 1>>, 2), I("xor", <<3, 5>>, 1)}
Slot4 == {I("ult", <<6, 1>>, 1), I("ult", <<1, 6>>, 1), I("ne", <<6, 4>>, 1),
          I("flag_sf", <<6>>, 1), I("mul", <<6, 5>>, 2), I("select", <<6, 5, 1>>, 2),
          I("call", <<6, 5>>, 2), I("trunc", <<6>>, 1), I("sub", <<2, 5>>, 2)}
Slot5 == {I("eq", <<7, 4>>, 1), I("ne", <<4, 7>>, 1), I("xor", <<6, 7>>, 1),
          I("sub", <<1, 7>>, 2), I("select", <<7, 1, 2>>, 2), I("mul", <<7, 6>>, 2),
          I("load", <<7>>, 2)}

Widths(p) == [v \in 1 .. 3 + Len(p) |-> IF v < 3 THEN 2 ELSE IF v = 3 THEN 1 ELSE p[v - 3].width]
FlagsOf == {"flags_add", "flags_sub", "flags_logic"}
WellTyped(p) ==
  LET width == Widths(p)
      Code(v) == IF v > 3 THEN p[v - 3].code ELSE "param"
  IN \A i \in DOMAIN p : \A k \in DOMAIN p[i].ins :
       LET w == width[p[i].ins[k]]
       IN /\ w # 0
          /\ (Code(p[i].ins[k]) \in FlagsOf) = (p[i].code \in {"flag_zf", "flag_cf", "flag_sf"})
          /\ CASE p[i].code \in {"add", "sub", "mul", "store", "load", "call", "trunc",
                             "flags_add", "flags_sub"} -> w = 2
               [] p[i].code = "select" -> k = 1 => w = 1
               [] p[i].code = "xor" -> w = 1
               [] p[i].code \in {"eq", "ne", "ult"} -> w = width[p[i].ins[1]]
               [] OTHER -> TRUE

\* Memory is the value 9 at first, and another after each operation that writes it.
Straight(p) ==
  LET Version(i) == 9 + Cardinality({j \in 1 .. i : MayWrite(p[j])})
  IN Module([i \in DOMAIN p |-> [p[i] EXCEPT !.out = 3 + i, !.memory = Version(i - 1),
                                             !.next = IF MayWrite(p[i]) THEN Version(i) ELSE 0]],
            <<Block(<<1, 2, 3>>, Return(<<8>>))>>,
            [v \in 1 .. 14 |-> IF v < 9 THEN Widths(p)[v] ELSE 0], [v \in 1 .. 14 |-> ""],
            [v \in 1 .. 14 |-> IF v < 9 THEN "int" ELSE "mem"], <<1>>)
Programs == {p \in Slot1 \X Slot2 \X Slot3 \X Slot4 \X Slot5 : WellTyped(p)}
TextProblems ==
  {[m |-> Straight(p), o |-> [Options EXCEPT !.root = 8, !.depth = d, !.nodes = n]] :
     p \in Programs, d \in {8}, n \in {3, 64}}

\* Such programs with their statements, where nothing is negated or selected.
Plain(p) == \A i \in DOMAIN p : p[i].code \notin {"xor", "select", "eq", "ne"}
StatementProblems ==
  LET programs == Slot1 \X Slot2 \X Slot3 \X (Slot4 \cup {[I("call", <<2, 5>>, 2) EXCEPT !.imm = 1]}) \X Slot5
  IN {[m |-> Straight(p), o |-> Options] : p \in {p \in programs : Plain(p) /\ WellTyped(p)}}

-----------------------------------------------------------------------------
(* Four blocks that branch on what a call returns.  The last may belong to  *)
(* another function, or be out of reach of the lifter.                      *)

Shapes ==
  {<<t1, t2, t3, t4>> :
     t1 \in {Jump(2, << >>), Branch(1, 2, << >>, 3, << >>),
             [Term("switch") EXCEPT !.condition = 1, !.cases = <<2, 4, 2>>, !.span = 3,
                                    !.default = 3]},
     t2 \in {Return(<< >>), Jump(3, << >>), Jump(1, << >>), Branch(2, 3, << >>, 4, << >>),
             Branch(2, 1, << >>, 4, << >>)},
     t3 \in {Return(<< >>), Jump(4, << >>), Jump(2, << >>), Branch(3, 2, << >>, 4, << >>), Term("trap")},
     t4 \in {Return(<< >>), Jump(1, << >>), Jump(3, << >>)}}
Calls(n) == [k \in 1 .. n |-> [I("call", << >>, 1) EXCEPT !.block = k, !.out = k]]
Shaped(t, scope) ==
  [Module(Calls(3), [k \in 1 .. 4 |-> Block(<< >>, t[k])], [v \in 1 .. 3 |-> 1],
          [v \in 1 .. 3 |-> ""], [v \in 1 .. 3 |-> "int"], scope)
     EXCEPT !.inputs = {[v \in 1 .. 3 |-> 0]}, !.memories = {[c \in 0 .. 0 |-> 0]}]
Tight == [Options EXCEPT !.regions = 2, !.transfers = 3, !.statements = 4, !.evidence = 2]
Paged == [Options EXCEPT !.calls = 1, !.callOffset = 1]

\* A jump table of which not all is known, or which leaves the function.
Tables ==
  LET whole == [Term("switch") EXCEPT !.condition = 1, !.cases = <<2, 4, 2>>, !.span = 3]
  IN {whole, [whole EXCEPT !.cases = <<2, 4, 0>>], [whole EXCEPT !.span = 4],
      [whole EXCEPT !.unsafe = TRUE], [whole EXCEPT !.cases = << >>, !.span = 1]}
TableShapes ==
  {<<t1, t2, Return(<< >>), t4>> :
     t1 \in Tables, t2 \in {Return(<< >>), Jump(3, << >>)}, t4 \in {Return(<< >>), Jump(1, << >>)}}
\* What the library may not give out.
Losses == {{<<"block", 2>>}, {<<"end", 2>>}, {<<"op", 2>>}, {<<"end", 1>>, <<"op", 3>>}}
LossShapes == {t \in Shapes : t[1].kind = "cbranch" /\ t[4].kind = "return"}

ShapeProblems ==
  {[m |-> Shaped(t, <<1, 2, 3, 4>>), o |-> options] : t \in Shapes, options \in {Options, Tight, Paged}}
  \cup {[m |-> Shaped(t, <<1, 2, 3>>), o |-> Options] : t \in Shapes}
  \cup {[m |-> [Shaped(t, <<1, 2, 3, 4>>) EXCEPT !.analysed = FALSE, !.blocks[4].lifted = FALSE],
         o |-> Options] : t \in {t \in Shapes : t[4].kind = "return"}}
  \cup {[m |-> [Shaped(t, <<1, 2, 3, 4>>) EXCEPT !.indirect = (1 :> 2 @@ 2 :> 0)], o |-> Options] :
         t \in TableShapes}
  \cup {[m |-> [Shaped(t, <<1, 2, 3, 4>>) EXCEPT !.unread = loss], o |-> Options] :
         t \in LossShapes, loss \in Losses}

-----------------------------------------------------------------------------
(* A counter 5 from the argument 1 to the argument 2 by the constant 3, and *)
(* the stack pointer 4: the header is block 2, the latch block 3.           *)

Updates == {I("add", <<5, 3>>, 3), I("sub", <<5, 3>>, 3), I("add", <<3, 5>>, 3)}
Conditions == {<<I("ult", <<5, 2>>, 1), I("eq", <<5, 2>>, 1)>>,
               <<I("flags_sub", <<2, 5>>, 3), I("flag_zf", <<6>>, 1)>>,
               <<I("ult", <<2, 5>>, 1), I("eq", <<6, 9>>, 1)>>}
Counting(update, c, latch) ==
  [Module(<<[Const(2, 3) EXCEPT !.out = 3],
            [Const(0, 1) EXCEPT !.out = 9],
            [c[1] EXCEPT !.block = 2, !.out = 6],
            [c[2] EXCEPT !.block = 2, !.out = 7],
            [update EXCEPT !.block = 3, !.out = 8]>>,
          <<Block(<<1, 2, 4>>, Jump(2, <<1>>)), Block(<<5>>, Branch(7, 3, << >>, 4, << >>)),
            Block(<< >>, latch), Block(<< >>, Return(<<5>>))>>,
          [v \in 1 .. 9 |-> IF v \in {7, 9} \/ (v = 6 /\ c[1].code = "ult") THEN 1 ELSE 3],
          <<"rcx", "rdx", "", "rsp", "", "", "", "", "">>, [v \in 1 .. 9 |-> "int"], <<1, 2, 3, 4>>)
     EXCEPT !.inputs = {[v \in 1 .. 9 |-> CASE v = 1 -> a [] v = 2 -> 4 [] OTHER -> 0] : a \in {0, 6}},
            !.memories = {[cell \in 0 .. 0 |-> 0]}]
LoopProblems ==
  {[m |-> Counting(u, c, latch), o |-> Options] :
     u \in Updates, c \in Conditions, latch \in {Jump(2, <<8>>), Branch(7, 2, <<8>>, 4, << >>)}}

-----------------------------------------------------------------------------
(* Arguments 1 and 2, the stack pointer 3 and the memory 4; two writes, a   *)
(* branch, and loads of the slot 6 in both of the blocks it goes to.        *)

Memory(op, memory, next) == [op EXCEPT !.memory = memory, !.next = next]
FirstWrites == {I("store", <<6, 1>>, 0), I("store", <<2, 1>>, 0)}
SecondWrites == {I("store", <<6, 2>>, 0), I("store", <<3, 2>>, 0), I("store", <<2, 2>>, 0),
                 I("call", <<1>>, 4)}
SlotFunction(w1, w2, x, leaving, last) ==
  LET second == Memory(w2, 7, 8)
  IN [Module(<<[Const(2, 4) EXCEPT !.out = 5],
               [I("sub", <<3, 5>>, 4) EXCEPT !.out = 6],
               Memory(w1, 4, 7),
               IF w2.code = "call" THEN [second EXCEPT !.out = 9, !.imm = 7] ELSE second,
               [I("ult", <<1, 2>>, 1) EXCEPT !.out = 10],
               [I("sub", <<12, 5>>, 4) EXCEPT !.block = 2, !.out = 14],
               [Memory(I("load", <<14>>, 4), 13, 0) EXCEPT !.block = 2, !.out = 15],
               [Memory(I("load", <<6>>, 4), 17, 0) EXCEPT !.block = 3, !.out = 18]>>,
             <<Block(<<1, 2, 3, 4>>, Branch(10, 2, <<x, 3, 8>>, 3, <<x, 8>>)),
               Block(<<11, 12, 13>>, leaving), Block(<<16, 17>>, Return(<<last>>))>>,
             [v \in 1 .. 18 |-> IF v = 10 THEN 1 ELSE 4],
             [v \in 1 .. 18 |-> CASE v = 1 -> "rcx" [] v = 2 -> "rdx" [] v = 3 -> "rsp" [] OTHER -> ""],
             [v \in 1 .. 18 |-> IF v \in {4, 7, 8, 13, 17} THEN "mem" ELSE "int"], <<1, 2, 3>>)
        EXCEPT !.inputs = {[v \in 1 .. 18 |-> CASE v = 1 -> a [] v = 2 -> b [] v = 3 -> 8 [] OTHER -> 0] :
                             a \in {0, 5}, b \in {3, 6}},
               !.memories = {[cell \in 0 .. 15 |-> 2]}]
\* The first write is of a conversion 19 of the argument 1, with room for it, and the
\* loads are of so many bits.
Converted(cast, wide, w2, bits) ==
  LET f == SlotFunction(I("store", <<6, 19>>, 0), w2, 1, Jump(3, <<15, 13>>), 18)
  IN [f EXCEPT !.ops = <<[I(cast, <<1>>, wide) EXCEPT !.out = 19]>> \o [@ EXCEPT ![1].imm = 4],
               !.count = 19,
               !.width = [@ EXCEPT ![18] = bits, ![15] = bits] \o <<wide>>,
               !.name = @ \o <<"">>, !.kind = @ \o <<"int">>,
               !.inputs = {[v \in 1 .. 19 |-> IF v = 19 THEN 0 ELSE regs[v]] : regs \in @}]
SlotProblems ==
  {[m |-> SlotFunction(w1, w2, x, leaving, last), o |-> Options] :
     w1 \in FirstWrites, w2 \in SecondWrites, x \in {1, 2},
     leaving \in {Jump(3, <<11, 13>>), Jump(3, <<15, 13>>), Branch(10, 2, <<15, 12, 13>>, 3, <<11, 13>>),
               Branch(10, 2, <<11, 14, 13>>, 3, <<11, 13>>)},
     last \in {16, 18}}
  \cup {[m |-> Converted(cast[1], cast[2], w2, bits), o |-> Options] :
         cast \in {<<"zext", 8>>, <<"trunc", 2>>, <<"sext", 8>>, <<"int_to_addr", 4>>},
         w2 \in {I("store", <<3, 2>>, 0), I("call", <<1>>, 4)}, bits \in {2, 4, 8}}

-----------------------------------------------------------------------------
(* Arguments 1, 2 and 3 that reach the parameter 6 through one or two       *)
(* blocks, or a loop that exchanges them; a global that is read in three    *)
(* widths; and two calls of one import.                                     *)

Spread(a, b, c, used) ==
  [Module(<<[Const(9, 8) EXCEPT !.out = 7],
            [Memory(I("load", <<7>>, 4), 14, 0) EXCEPT !.out = 8],
            [Memory(I("load", <<7>>, 8), 14, 0) EXCEPT !.out = 9],
            [Memory(I("load", <<7>>, 16), 14, 0) EXCEPT !.out = 10],
            [I("call", <<1>>, 1) EXCEPT !.out = 11, !.imm = 1],
            [I("call", <<5>>, 8) EXCEPT !.block = 2, !.out = 12, !.imm = 1],
            [I("ult", <<6, used>>, 1) EXCEPT !.block = 3, !.out = 13]>>,
          <<Block(<<1, 2, 3, 14>>, Jump(2, a)), Block(<<4, 5>>, Branch(11, 3, b, 2, c)),
            Block(<<6>>, Return(<<12>>))>>,
          [v \in 1 .. 14 |-> CASE v = 9 -> 8 [] v = 10 -> 16 [] v \in {11, 13} -> 1 [] OTHER -> 4],
          [v \in 1 .. 14 |-> CASE v = 1 -> "rcx" [] v = 2 -> "rdx" [] v = 3 -> "r8" [] OTHER -> ""],
          [v \in 1 .. 14 |-> CASE v = 7 -> "addr" [] v = 14 -> "mem" [] OTHER -> "int"], <<1, 2, 3>>)
     EXCEPT !.loaded = {9}]
SpreadProblems ==
  {[m |-> Spread(a, b, c, used), o |-> Options] :
     a \in {<<1, 2>>, <<2, 1>>, <<3, 2>>, <<2, 3>>}, b \in {<<4>>, <<5>>},
     c \in {<<4, 5>>, <<5, 4>>}, used \in {1, 2, 3, 6}}

-----------------------------------------------------------------------------
(* The call 1 reads input into the value 3 and what its argument 1 points   *)
(* to; the call 6 uses the value 7.  What was read may come to it through   *)
(* memory, an operation, an argument of block 2, or block 3.                *)

Import(role, writes) == [roles |-> {role}, writes |-> writes]
Imports == <<Import("source", {}), Import("source", {1}), Import("sink", {})>>
Tainting(read, stored, x, use, third, scope) ==
  [Module(<<Memory([I("call", <<1>>, 2) EXCEPT !.imm = read, !.out = 3], 2, 9),
            Memory(I("store", <<12, stored>>, 0), 9, 10),
            [I("add", <<12, 3>>, 2) EXCEPT !.out = 4],
            [I("ult", <<12, 3>>, 1) EXCEPT !.out = 5],
            [(IF use.code = "load" THEN Memory(use, 10, 0) ELSE use) EXCEPT !.block = 2, !.out = 7],
            [I("call", <<7>>, 2) EXCEPT !.imm = 3, !.block = 2, !.out = 8],
            [I("add", <<3, 12>>, 2) EXCEPT !.block = 3, !.out = 11]>>,
          <<Block(<<1, 2, 12>>, Branch(5, 2, <<x>>, 3, << >>)), Block(<<6>>, Return(<< >>)),
            Block(<< >>, third)>>,
          [v \in 1 .. 12 |-> IF v = 5 THEN 1 ELSE 2], [v \in 1 .. 12 |-> ""],
          [v \in 1 .. 12 |-> IF v \in {2, 9, 10} THEN "mem" ELSE "int"], scope)
     EXCEPT !.api = Imports]
Enriched(kinds, view) == [Options EXCEPT !.enrich = kinds, !.view = view]
Both == {"symbolic", "taint"}
Commands ==
  {Enriched({"taint"}, "taint"), [Enriched(Both, "taint") EXCEPT !.states = 2],
   Enriched({"symbolic"}, "compact"), [Enriched(Both, "compact") EXCEPT !.queries = 1],
   [Enriched(Both, "compact") EXCEPT !.states = 4, !.statements = 4],
   Enriched(Both, "agent"), Enriched({"taint"}, "disassembly")}
Readings == {I("add", <<6, 12>>, 2), I("add", <<12, 4>>, 2), I("load", <<12>>, 2)}
CommandProblems ==
  {[m |-> Tainting(input[1], input[2], x, use, third, scope), o |-> command] :
     input \in {<<1, 1>>, <<2, 1>>, <<1, 3>>}, x \in {12, 4}, use \in Readings,
     third \in {Return(<< >>), Branch(5, 2, <<11>>, 2, <<12>>)},
     scope \in {<<1, 2, 3>>, <<1, 3, 2>>}, command \in Commands}
  \cup {[m |-> [Tainting(1, 1, 4, use, Jump(2, <<11>>), <<1, 2, 3>>) EXCEPT !.complete = FALSE],
         o |-> Enriched({"taint"}, "taint")] : use \in Readings}
  \cup {[m |-> [Tainting(1, 1, 4, use, Jump(2, <<11>>), <<1, 2, 3>>) EXCEPT !.unread = loss],
         o |-> command] : use \in Readings, loss \in Losses, command \in Commands}

MCProblems == TextProblems \cup ShapeProblems \cup LoopProblems \cup SlotProblems
              \cup SpreadProblems \cup CommandProblems
=============================================================================
