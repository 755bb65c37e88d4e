------------------------------ MODULE XairModule ------------------------------
(***************************************************************************)
(* The part of a lifted XAIR module that the recovery layers read: blocks  *)
(* of operations in static single assignment form, block parameters that   *)
(* the terminators of the predecessors give arguments for, and one memory  *)
(* state that operations thread through.  XAIR is a library outside the    *)
(* repository: this is what src/src/semantic uses of it.                   *)
(*                                                                         *)
(* A module m has m.ops, the operations of all blocks in order; m.blocks,  *)
(* for each block its parameters and terminator; m.width, m.kind and       *)
(* m.name, total on the values 1 .. m.count; and one function, its blocks  *)
(* m.scope in the order of its nodes, of which m.entry is the entry.       *)
(* m.api gives, by the imports that calls name, what the model of an API   *)
(* says of it, and m.complete whether the session is complete.  m.unread   *)
(* has what the library does not give out when it is asked: <<"block", b>> *)
(* for what is in a block, <<"end", b>> for its terminator alone and       *)
(* <<"op", i>> for one operation.  m.indirect gives, by the operations     *)
(* that call through a pointer, how many targets were found.               *)
(***************************************************************************)
EXTENDS Integers, Sequences, FiniteSets, SequencesExt

Values(m) == 1 .. m.count

\* xair_value_definition: the operation that defines a value, 0 for a parameter.
DefinitionOf(m, v) ==
  IF \E i \in DOMAIN m.ops : m.ops[i].out = v /\ <<"op", i>> \notin m.unread
  THEN CHOOSE i \in DOMAIN m.ops : m.ops[i].out = v
  ELSE 0

CodeOf(m, v) ==
  IF DefinitionOf(m, v) = 0 THEN "param" ELSE m.ops[DefinitionOf(m, v)].code

\* xair_block_terminator: how a block ends, as far as can be read.
Unended == [kind |-> "none", condition |-> 0, onTrue |-> 0, trueArgs |-> << >>, onFalse |-> 0,
            falseArgs |-> << >>]
TermOf(m, block) ==
  IF {<<"block", block>>, <<"end", block>>} \cap m.unread # {} THEN Unended
  ELSE m.blocks[block].term

\* The values a terminator passes to the parameters of its targets within a set of
\* blocks, in the order the recovery layers visit them: pairs of an argument and the
\* parameter that receives it.
Passed(m, block, within) ==
  LET Pairs(target, args) ==
        IF target \notin within THEN << >>
        ELSE LET params == m.blocks[target].params
             IN [i \in 1 .. Min({Len(args), Len(params)}) |-> <<args[i], params[i]>>]
      term == TermOf(m, block)
  IN Pairs(term.onTrue, term.trueArgs) \o Pairs(term.onFalse, term.falseArgs)

\* The operations of a block, in order, as positions in m.ops; and those of them
\* that can be read.
Body(m, block) == SelectSeq([i \in DOMAIN m.ops |-> i], LAMBDA i : m.ops[i].block = block)
OpsOf(m, block) ==
  SelectSeq(Body(m, block),
            LAMBDA i : {<<"block", block>>, <<"op", i>>} \cap m.unread = {})

\* The same for all blocks visited in the given order.
PassedIn(m, blocks) ==
  FlattenSeq([k \in DOMAIN blocks |-> Passed(m, blocks[k], ToSet(blocks))])
OpsIn(m, blocks) == FlattenSeq([k \in DOMAIN blocks |-> OpsOf(m, blocks[k])])

\* So many passes, or those until one changes nothing.
Repeat(n, st, Pass(_)) ==
  LET RECURSIVE After(_, _)
      After(s, left) == LET next == Pass(s)
                        IN IF left = 0 \/ s = next THEN s ELSE After(next, left - 1)
  IN After(st, n)

\* Memory changes at these operations, whatever they write.
MayWrite(op) == op.code \in {"store", "call", "opaque_effect", "barrier"}
                \/ op.effects \cap {"write", "volatile", "atomic", "barrier"} # {}

\* What an operation does to its inputs, on words of two bits.  A load reads the
\* memory as it was changed so often.
Word(n, width) == n % (2 ^ width)
Truth(b) == IF b THEN 1 ELSE 0
Apply(code, a, b, width) ==
  CASE code = "add" -> Word(a + b, width)
    [] code = "sub" -> Word(a - b, width)
    [] code = "mul" -> Word(a * b, width)
    [] code = "xor" -> ((a + b) % 2) + 2 * ((a \div 2 + b \div 2) % 2)
    [] code = "eq" -> Truth(a = b)
    [] code = "ne" -> Truth(a # b)
    [] code = "ult" -> Truth(a < b)
    [] code = "ule" -> Truth(a <= b)
    [] code = "ugt" -> Truth(a > b)
    [] code = "uge" -> Truth(a >= b)

Writes(m, position) ==
  Cardinality({i \in DOMAIN m.ops : i < position /\ MayWrite(m.ops[i])})
ReadMemory(env, writes, address, width) == Word(env.memory[writes] + address, width)

-----------------------------------------------------------------------------
(* The control flow graph of the function: a node is a block, and its start *)
(* address is its number.  Targets that are no block of the module are 0.   *)

Edge(src, dst, kind, condition) ==
  [src |-> src, dst |-> dst, kind |-> kind, condition |-> condition]

\* The outgoing edges of a block: one for each call it makes and one for each way
\* its terminator goes.
EdgesOf(m, b) ==
  LET t == m.blocks[b].term
      calls == SelectSeq(Body(m, b), LAMBDA i : m.ops[i].code = "call")
  IN [k \in DOMAIN calls |-> Edge(b, 0, "call", 0)] \o
     CASE t.kind = "cbranch" -> <<Edge(b, t.onTrue, "true", t.condition),
                                  Edge(b, t.onFalse, "false", t.condition)>>
       [] t.kind = "jump" -> <<Edge(b, t.onTrue, "jump", 0)>>
       [] t.kind = "return" -> <<Edge(b, 0, "return", 0)>>
       [] t.kind = "switch" -> [k \in DOMAIN t.cases |-> Edge(b, t.cases[k], "indirect", 0)]
       [] OTHER -> << >>
IsCall(edge) == edge.kind = "call"
IsConditional(edge) == edge.kind \in {"true", "false"}

\* xair_cfg_analyze_function: it follows the nodes the function owns.
Successors(m, b) ==
  {EdgesOf(m, b)[k].dst : k \in DOMAIN EdgesOf(m, b)} \cap ToSet(m.scope)
ReachableFrom(m, from, avoid) ==
  FoldLeft(LAMBDA S, k : S \cup (UNION {Successors(m, b) : b \in S} \ avoid), from \ avoid, m.scope)
Reached(m) == ReachableFrom(m, {m.entry}, {})
\* The edges back to a node that dominates their source.
BackEdges(m, reached) ==
  {e \in reached \X reached : /\ e[2] \in Successors(m, e[1])
                              /\ e[1] \notin ReachableFrom(m, {m.entry}, {e[2]})}
LoopMembers(m, reached, back, header) ==
  {b \in reached :
     b = header \/ \E e \in back : e[2] = header /\ e[1] \in ReachableFrom(m, {b}, {header})}
ForwardPredecessors(m, reached, back) ==
  [b \in reached |-> {p \in reached : b \in Successors(m, p) /\ <<p, b>> \notin back}]
\* An order of the reached nodes that goes forward wherever it can.
ReversePostorder(reached, forward) ==
  LET Add(order, k) ==
        LET left == reached \ ToSet(order)
            ready == {b \in left : forward[b] \subseteq ToSet(order)}
        IN Append(order, Min(IF ready # {} THEN ready ELSE left))
  IN FoldLeft(Add, << >>, [k \in 1 .. Cardinality(reached) |-> k])
IsIrreducible(order, forward) ==
  LET At(b) == CHOOSE k \in DOMAIN order : order[k] = b
  IN \E b \in ToSet(order) : \E p \in forward[b] : At(p) >= At(b)
Postdominators(m, reached) ==
  LET Exits(from, avoid) ==
        {x \in ReachableFrom(m, {from}, avoid) \cap reached : Successors(m, x) = {}}
  IN [b \in reached |->
        {p \in reached \ {b} : Exits(b, {}) # {} /\ Exits(b, {p}) = {}}]
ImmediatePostdominator(postdominators, b) ==
  LET all == postdominators[b]
      first == {p \in all : all \ {p} \subseteq postdominators[p]}
  IN IF first = {} THEN 0 ELSE CHOOSE p \in first : TRUE

\* What the analysis of a function comes to; nothing, when it fails.
Analysed(m, reached, back, forward, order, postdominators) ==
  [reached |-> reached, back |-> back, order |-> order,
   members |-> [h \in {e[2] : e \in back} |-> LoopMembers(m, reached, back, h)],
   irreducible |-> IsIrreducible(order, forward),
   postdominator |-> [b \in reached |-> ImmediatePostdominator(postdominators, b)]]
Analysis(m) ==
  LET reached == IF m.analysed THEN Reached(m) ELSE {}
      back == BackEdges(m, reached)
      forward == ForwardPredecessors(m, reached, back)
  IN Analysed(m, reached, back, forward, ReversePostorder(reached, forward),
              Postdominators(m, reached))
=============================================================================
