---------------------------- MODULE ExpressionView ----------------------------
(***************************************************************************)
(* ExpressionRecovery: the text of a value as a reader sees it.  A text is *)
(* a sequence of tokens; a name, a number and the head of a call are one   *)
(* token each.  A value is expanded into its operation as far as the       *)
(* budgets and the safety of moving it allow, and is a name otherwise.     *)
(***************************************************************************)
EXTENDS XairModule

Op(token)      == <<"operator", token>>
Name(v)        == <<"name", v>>
Number(n)      == <<"number", n>>
Cast(width)    == <<"cast", width>>
Load(width)    == <<"load", width>>
SignBit(width) == <<"signbit", width>>
Callee(v)        == <<"result", v>>      \* a call, an intrinsic or another flag

\* The operators, and how tightly the printer takes each to bind.
TokenOf == [add |-> "+", sub |-> "-", mul |-> "*", xor |-> "^",
            eq |-> "==", ne |-> "!=", ult |-> "u<", ule |-> "u<="]
Precedence(token) ==
  CASE token = "?" -> 1
    [] token \in {"==", "!=", "u<", "u<=", "u>", "u>="} -> 2
    [] token = "^" -> 4
    [] token \in {"+", "-"} -> 7
    [] token = "*" -> 8
    [] token = "!" -> 9
Select == 1
Comparison == 2
Atom == 10

\* The operators negate_boolean turns around, in the order it looks for them.
Inverses == << <<"==", "!=">>, <<"!=", "==">>, <<"u<", "u>=">>, <<"u<=", "u>">> >>

\* What a rendering has come to: the text, how tightly its outermost operator
\* binds, and the counters of the whole expression.  omitted counts what a budget
\* cut; it is raised wherever the code sets truncated.  unclear is history: a
\* comparison inside another was negated, or a selection decides a selection.
Rendered(text, precedence, st) == [text |-> text, precedence |-> precedence, st |-> st]
Start == [nodes |-> 0, omitted |-> 0, unclear |-> FALSE]

Parenthesize(r, precedence) ==
  IF r.precedence < precedence THEN <<Op("(")>> \o r.text \o <<Op(")")>> ELSE r.text

Uses(m, v) ==
  LET Count(seq) == Cardinality({i \in DOMAIN seq : seq[i] = v})
      Sum(seqs) == FoldLeft(LAMBDA total, seq : total + Count(seq), 0, seqs)
      blocks == [b \in DOMAIN m.blocks |-> b]
      ops == OpsIn(m, blocks)
  IN Sum([i \in DOMAIN ops |-> m.ops[ops[i]].ins])
     + Sum([b \in DOMAIN blocks |-> <<TermOf(m, b).condition>> \o TermOf(m, b).trueArgs
                                    \o TermOf(m, b).falseArgs])

LoadIsSafe(m, load, horizon) ==
  \/ load = horizon
  \/ /\ load < horizon /\ m.ops[load].block = m.ops[horizon].block
     /\ m.ops[load].effects \cap {"volatile", "atomic"} = {}
     /\ \A i \in load + 1 .. horizon - 1 : ~ MayWrite(m.ops[i])

\* Variant of OverBudget: one node too many.
OverBudgetLate(o, depth, st) ==
  depth > 0 /\ (depth >= o.depth \/ st.nodes > o.nodes \/ st.nodes >= o.tokens)

OverBudget(o, depth, st) ==
  depth > 0 /\ (depth >= o.depth \/ st.nodes >= o.nodes \/ st.nodes >= o.tokens)

\* Variant of CanExpand: a load is moved over anything.
CanExpandAnyLoad(m, o, horizon, v, depth) ==
  LET op == m.ops[DefinitionOf(m, v)]
  IN depth = 0 \/ op.code \notin {"store", "call", "opaque", "opaque_effect", "barrier"}

\* Only the root has depth 0, and it is always expanded.
CanExpand(m, o, horizon, v, depth) ==
  LET op == m.ops[DefinitionOf(m, v)]
  IN \/ depth = 0 \/ op.code \in {"const", "unknown"}
     \/ /\ op.code = "load" /\ o.loads
        /\ Uses(m, v) <= 1 /\ LoadIsSafe(m, DefinitionOf(m, v), horizon)
     \/ /\ op.code \notin {"load", "store", "call", "opaque", "opaque_effect", "barrier"}
        /\ op.effects = {}
        /\ o.single /\ Uses(m, v) <= 1

ConstantBoolean(m, v) == m.width[v] = 1 /\ CodeOf(m, v) = "const"

\* The input of a boolean equation that is a constant, the second one first.
ConstantInput(m, ins) ==
  CASE ConstantBoolean(m, ins[2]) -> 2
    [] ConstantBoolean(m, ins[1]) -> 1
    [] OTHER -> 0

Comparisons(text) ==
  {i \in DOMAIN text : \E k \in DOMAIN Inverses : text[i] = Op(Inverses[k][1])}

\* Variant of Negate: every comparison is turned around by a leading mark that
\* binds no tighter than it.
NegateLoose(r) == Rendered(<<Op("!")>> \o r.text, Precedence("!"), r.st)

\* The first token of the first kind there is, wherever in the text it stands.
Negate(r) ==
  LET Places(k) == {i \in DOMAIN r.text : r.text[i] = Op(Inverses[k][1])}
      kinds == {k \in DOMAIN Inverses : Places(k) # {}}
      kind == CHOOSE k \in kinds : \A j \in kinds : k <= j
      place == CHOOSE i \in Places(kind) : \A j \in Places(kind) : i <= j
      unclear == r.st.unclear \/ Cardinality(Comparisons(r.text)) > 1
  IN IF r.precedence = Comparison /\ kinds # {}
     THEN [r EXCEPT !.text[place] = Op(Inverses[kind][2]), !.st.unclear = unclear]
     ELSE Rendered(<<Op("!")>> \o Parenthesize(r, Precedence("!")), Precedence("!"), r.st)

RECURSIVE Render(_, _, _, _, _, _), Operation(_, _, _, _, _, _), Arguments(_, _, _, _, _, _)

\* render_value.  The operations of a module have no cycles, so the set of active
\* values the code keeps is left out.
Render(m, o, horizon, v, depth, st) ==
  LET leaf == Rendered(<<Name(v)>>, Atom, st)
  IN CASE DefinitionOf(m, v) = 0 -> leaf
       [] DefinitionOf(m, v) # 0 /\ OverBudget(o, depth, st) -> [leaf EXCEPT !.st.omitted = @ + 1]
       [] DefinitionOf(m, v) # 0 /\ ~ OverBudget(o, depth, st) ->
            IF CanExpand(m, o, horizon, v, depth)
            THEN Operation(m, o, horizon, m.ops[DefinitionOf(m, v)], depth,
                           [st EXCEPT !.nodes = @ + 1])
            ELSE leaf

Arguments(m, o, horizon, ins, depth, st) ==
  IF ins = << >> THEN Rendered(<< >>, Atom, st)
  ELSE LET init == Arguments(m, o, horizon, Front(ins), depth, st)
           last == Render(m, o, horizon, Last(ins), depth + 1, init.st)
       IN Rendered(init.text \o (IF init.text = << >> THEN << >> ELSE <<Op(",")>>) \o last.text,
                   Atom, last.st)

Operand(m, o, horizon, v, depth, st) == Render(m, o, horizon, v, depth + 1, st)

Call(m, o, horizon, head, ins, depth, st) ==
  LET args == Arguments(m, o, horizon, ins, depth, st)
  IN Rendered(<<head, Op("(")>> \o args.text \o <<Op(")")>>, Atom, args.st)

Binary(m, o, horizon, ins, token, depth, st) ==
  LET left == Operand(m, o, horizon, ins[1], depth, st)
      right == Operand(m, o, horizon, ins[2], depth, left.st)
      p == Precedence(token)
  IN Rendered(Parenthesize(left, p) \o <<Op(token)>> \o Parenthesize(right, p + 1), p, right.st)

\* An equation with a constant truth value is the other side, or its negation.
IsTruthEquation(m, op) ==
  op.code \in {"eq", "ne", "xor"} /\ ConstantInput(m, op.ins) # 0 /\ m.width[op.out] = 1
TruthEquation(m, o, horizon, op, depth, st) ==
  LET k == ConstantInput(m, op.ins)
      constant == m.ops[DefinitionOf(m, op.ins[k])].imm
      other == Operand(m, o, horizon, op.ins[3 - k], depth, st)
  IN IF (op.code = "eq") # (constant = 1) THEN Negate(other) ELSE other

FlagsOperations == {"flags_add", "flags_sub", "flags_logic"}
FlagOperations == {"flag_zf", "flag_cf", "flag_sf", "flag_of"}
Flag(m, o, horizon, op, depth, st) ==
  LET flags == m.ops[DefinitionOf(m, op.ins[1])]
      from == CodeOf(m, op.ins[1])
      Pair(token) == Binary(m, o, horizon, flags.ins, token, depth, st)
      result == CASE from = "flags_logic" -> Operand(m, o, horizon, flags.ins[1], depth, st)
                  [] from = "flags_add" -> Pair("+")
                  [] from = "flags_sub" -> Pair("-")
      Of(head) == Rendered(<<head, Op("(")>> \o result.text \o <<Op(")")>>, Atom, result.st)
  IN CASE from \notin FlagsOperations ->
            Rendered(<<Callee(op.out), Op("("), Name(op.ins[1]), Op(")")>>, Atom, st)
       [] from = "flags_sub" /\ op.code = "flag_zf" -> Pair("==")
       [] from = "flags_sub" /\ op.code = "flag_cf" -> Pair("u<")
       [] from \in {"flags_add", "flags_logic"} /\ op.code = "flag_zf" ->
            Rendered(Parenthesize(result, Comparison) \o <<Op("=="), Number(0)>>,
                     Comparison, result.st)
       [] from \in FlagsOperations /\ op.code = "flag_sf" -> Of(SignBit(m.width[flags.ins[1]]))
       [] OTHER -> Of(Callee(op.out))

Selection(m, o, horizon, ins, depth, st) ==
  LET condition == Operand(m, o, horizon, ins[1], depth, st)
      whenTrue == Operand(m, o, horizon, ins[2], depth, condition.st)
      whenFalse == Operand(m, o, horizon, ins[3], depth, whenTrue.st)
  IN Rendered(condition.text \o <<Op("?")>> \o whenTrue.text \o <<Op(":")>> \o whenFalse.text,
              Select, [whenFalse.st EXCEPT !.unclear = @ \/ condition.precedence = Select])

\* No cast is shown where the types agree, also through a truncated extension.
Conversion(m, o, horizon, op, depth, st) ==
  LET inner == IF CodeOf(m, op.ins[1]) = "zext" /\ op.code = "trunc"
               THEN m.ops[DefinitionOf(m, op.ins[1])].ins[1] ELSE op.ins[1]
      Same(v) == m.width[v] = m.width[op.out]
  IN CASE Same(op.ins[1]) -> Operand(m, o, horizon, op.ins[1], depth, st)
       [] ~ Same(op.ins[1]) /\ Same(inner) -> Operand(m, o, horizon, inner, depth, st)
       [] OTHER -> Call(m, o, horizon, Cast(m.width[op.out]), op.ins, depth, st)

\* render_operation.
Operation(m, o, horizon, op, depth, st) ==
  CASE op.code = "const" -> Rendered(<<Number(op.imm)>>, Atom, st)
    [] IsTruthEquation(m, op) -> TruthEquation(m, o, horizon, op, depth, st)
    [] op.code \in DOMAIN TokenOf /\ ~ IsTruthEquation(m, op) ->
         Binary(m, o, horizon, op.ins, TokenOf[op.code], depth, st)
    [] op.code \in FlagOperations -> Flag(m, o, horizon, op, depth, st)
    [] op.code = "select" -> Selection(m, o, horizon, op.ins, depth, st)
    [] op.code \in {"zext", "trunc"} -> Conversion(m, o, horizon, op, depth, st)
    [] op.code = "load" -> Call(m, o, horizon, Load(m.width[op.out]), op.ins, depth, st)
    [] OTHER -> Call(m, o, horizon, Callee(op.out), op.ins, depth, st)

\* build_uncached, without the cache of results by value and options: the limit
\* of characters is one of tokens, and the last token of a cut text is "...".
Shortened(o, r) ==
  LET cut == o.characters # 0 /\ Len(r.text) > o.characters
  IN [text    |-> IF cut THEN SubSeq(r.text, 1, o.characters - 1) \o <<Op("...")>> ELSE r.text,
      omitted |-> r.st.omitted + Truth(cut),
      nodes   |-> r.st.nodes,
      unclear |-> r.st.unclear]
Expression(m, v, o) == Shortened(o, Render(m, o, DefinitionOf(m, v), v, 0, Start))

-----------------------------------------------------------------------------
(* What a value is, and what a reader takes a text to be.  env.leaf has the *)
(* values nothing is known of, env.memory the content of memory after each  *)
(* number of writes.                                                        *)

RECURSIVE Denotation(_, _, _)
Denotation(m, env, v) ==
  LET op == m.ops[DefinitionOf(m, v)]
      In(k) == Denotation(m, env, op.ins[k])
      Opaque(args) == Word(env.leaf[v] + FoldLeft(LAMBDA a, b : a + b, 0, args), m.width[v])
      All(ins) == [k \in DOMAIN ins |-> Denotation(m, env, ins[k])]
      flags == m.ops[DefinitionOf(m, op.ins[1])]
      FlagOf(from) ==
        LET F(k) == Denotation(m, env, flags.ins[k])
            w == m.width[flags.ins[1]]
            result == CASE from = "flags_logic" -> F(1)
                        [] from = "flags_add" -> Apply("add", F(1), F(2), w)
                        [] from = "flags_sub" -> Apply("sub", F(1), F(2), w)
        IN CASE op.code = "flag_zf" -> Truth(result = 0)
             [] op.code = "flag_cf" /\ from = "flags_sub" -> Truth(F(1) < F(2))
             [] op.code = "flag_sf" -> result \div 2 ^ (w - 1)
             [] OTHER -> Opaque(<<result>>)
  IN CASE DefinitionOf(m, v) = 0 -> Word(env.leaf[v], m.width[v])
       [] DefinitionOf(m, v) # 0 ->
            CASE op.code = "const" -> op.imm
              [] op.code \in DOMAIN TokenOf -> Apply(op.code, In(1), In(2), m.width[v])
              [] op.code = "select" -> IF In(1) = 1 THEN In(2) ELSE In(3)
              [] op.code \in {"zext", "trunc"} -> Word(In(1), m.width[v])
              [] op.code = "load" ->
                   ReadMemory(env, Writes(m, DefinitionOf(m, v)), In(1), m.width[v])
              [] op.code \in FlagOperations /\ CodeOf(m, op.ins[1]) \in FlagsOperations ->
                   FlagOf(CodeOf(m, op.ins[1]))
              [] OTHER -> Opaque(All(op.ins))

\* The positions outside all parentheses.
Top(text) ==
  {i \in DOMAIN text :
     Cardinality({j \in 1 .. i - 1 : text[j] = Op("(")}) =
     Cardinality({j \in 1 .. i - 1 : text[j] = Op(")")})}
Binaries == {"==", "!=", "u<", "u<=", "u>", "u>=", "^", "+", "-", "*"}
OperationOf(token) ==
  CASE token = "u>" -> "ugt" [] token = "u>=" -> "uge"
    [] OTHER -> CHOOSE code \in DOMAIN TokenOf : TokenOf[code] = token

\* A reader takes the operators of one strength from left to right, a selection
\* from right to left, and a load to read the memory as it is written by then.
RECURSIVE Meaning(_, _, _, _), Meanings(_, _, _, _)
Meaning(m, env, writes, text) ==
  LET Part(i, j) == Meaning(m, env, writes, SubSeq(text, i, j))
      At(tokens) == {i \in Top(text) : text[i] \in {Op(t) : t \in tokens}}
      questions == At({"?"})
      question == CHOOSE i \in questions : \A j \in questions : i <= j
      \* The colon of a question is the first with as many questions before it.
      colons == {c \in At({":"}) : Cardinality({i \in questions : i < c}) =
                                   Cardinality({i \in At({":"}) : i <= c})}
      colon == CHOOSE c \in colons : \A d \in colons : c <= d
      weakest == {i \in At(Binaries) :
                    \A j \in At(Binaries) : Precedence(text[i][2]) <= Precedence(text[j][2])}
      last == CHOOSE i \in weakest : \A j \in weakest : j <= i
      args == Meanings(m, env, writes, SubSeq(text, 3, Len(text) - 1))
  IN CASE questions # {} -> IF Part(1, question - 1) = 1 THEN Part(question + 1, colon - 1)
                            ELSE Part(colon + 1, Len(text))
       [] questions = {} /\ weakest # {} ->
            Apply(OperationOf(text[last][2]), Part(1, last - 1), Part(last + 1, Len(text)), 2)
       [] questions = {} /\ weakest = {} ->
            CASE text[1] = Op("!") -> 1 - Part(2, Len(text))
              [] text[1] = Op("(") -> Part(2, Len(text) - 1)
              [] text[1][1] = "name" -> Denotation(m, env, text[1][2])
              [] text[1][1] = "number" -> text[1][2]
              [] text[1][1] = "cast" -> Word(args[1], text[1][2])
              [] text[1][1] = "load" -> ReadMemory(env, writes, args[1], text[1][2])
              [] text[1][1] = "signbit" -> args[1] \div 2 ^ (text[1][2] - 1)
              [] text[1][1] = "result" ->
                   Word(env.leaf[text[1][2]] + FoldLeft(LAMBDA a, b : a + b, 0, args),
                        m.width[text[1][2]])

\* The values of the arguments of a call.
Meanings(m, env, writes, text) ==
  LET commas == {i \in Top(text) : text[i] = Op(",")}
      last == CHOOSE i \in commas : \A j \in commas : j <= i
  IN CASE text = << >> -> << >>
       [] text # << >> /\ commas = {} -> <<Meaning(m, env, writes, text)>>
       [] text # << >> /\ commas # {} ->
            Meanings(m, env, writes, SubSeq(text, 1, last - 1))
            \o <<Meaning(m, env, writes, SubSeq(text, last + 1, Len(text)))>>

\* Any words in the parameters of the entry, and something else in memory after
\* each write.
Environments(m) ==
  LET params == ToSet(m.blocks[m.entry].params)
  IN {[leaf |-> [v \in Values(m) |-> IF v \in params THEN word[v] ELSE 1],
       memory |-> [k \in 0 .. Len(m.ops) |-> (3 * k) % 4]] :
        word \in {[v \in params |-> Word(w[v], m.width[v])] : w \in [params -> 0 .. 3]}}

\* A text read where the value is computed says what the value is.
ReadsAs(m, v, text, position) ==
  \A env \in Environments(m) :
    Meaning(m, env, Writes(m, position), text) = Denotation(m, env, v)
=============================================================================
