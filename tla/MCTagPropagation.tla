--------------------------- MODULE MCTagPropagation ---------------------------
\* Programs of three operations over six values: 1 is a source, 2 and 3 are
\* scalars (a callee's parameters are 2), 4 a loaded or returned scalar, 5 and
\* 6 memory states.  Every order of operations that defines a value once, with
\* the block arguments of a straight line, of a loop and of a memory loop.
EXTENDS TagPropagation

Op(kind, ins, outs, at, delta) ==
  [kind |-> kind, ins |-> ins, outs |-> outs, at |-> at, delta |-> delta,
   args |-> <<>>, returns |-> <<>>]
Call(ins, outs, args, returns) ==
  [Op("call", ins, outs, {}, {}) EXCEPT !.args = args, !.returns = returns]

Menu == {
  Op("add", <<2>>, <<3>>, {}, {1}), Op("add", <<2>>, <<3>>, {}, {-1}),
  Op("add", <<2>>, <<3>>, {}, {}), Op("add", <<1>>, <<2>>, {}, {2}),
  Op("load", <<5, 3>>, <<4>>, {}, {}), Op("load", <<6, 1>>, <<4>>, {8}, {}),
  Op("store", <<5, 1, 3>>, <<6>>, {8}, {}), Op("store", <<5, 3, 2>>, <<6>>, {16}, {}),
  Op("other", <<2>>, <<3>>, {}, {}),
  Call(<<1>>, <<4>>, << <<1, 2>> >>, << <<3, 4>> >>),
  Call(<<3>>, <<4>>, << <<3, 2>> >>, <<>>),
  Call(<<4>>, <<6>>, << <<4, 2>> >>, << <<2, 6>> >>)}

Blocks == {<< >>, << <<1, 2>>, <<3, 2>> >>, << <<4, 2>>, <<1, 5>> >>, << <<6, 5>>, <<1, 2>> >>}

Source(form) == [source |-> 1, form |-> form, storage |-> FALSE, at |-> {},
                 begin |-> 0, end |-> 0, exact |-> form = "pointer", depth |-> 0]

Defines(op) == ToSet(op.outs)
OnceDefined(ops, blocks) ==
  /\ \A i, j \in DOMAIN ops : i # j => Defines(ops[i]) \cap Defines(ops[j]) = {}
  /\ \A i \in DOMAIN ops : Defines(ops[i]) \cap {b[2] : b \in ToSet(blocks)} = {}

Shapes == {s \in [ops : [1 .. 3 -> Menu], blocks : Blocks] : OnceDefined(s.ops, s.blocks)}

MCPrograms == {[seeds |-> {<<1, Source(form)>>}, ops |-> s.ops, blocks |-> s.blocks] :
                 s \in Shapes, form \in {"value", "pointer"}}
=============================================================================
