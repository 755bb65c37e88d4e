----------------------------- MODULE MCPathSearch -----------------------------
\* Two functions, main (nodes 1, 2, 3) and callee (4, 5), in every combination
\* of a few shapes per node: branches and a loop, a second call of the same
\* callee, a call that never returns, tail calls, direct and mutual recursion.
EXTENDS PathSearch

E(kind, dst) == [kind |-> kind, dst |-> dst]
Call(dst, next) == <<E("call", dst), E("callreturn", next)>>
Return == <<E("return", 0)>>

Shapes ==
  << {Call(4, 2), <<E("jump", 2), E("jump", 3)>>, <<E("call", 4)>>},
     {<<E("jump", 1), E("jump", 3)>>, Call(4, 3)},
     {Return, <<E("tail", 4)>>, Call(1, 2)},
     {<<E("jump", 5)>>, <<E("tail", 5)>>, Call(4, 5)},
     {Return, Call(1, 4)} >>

MCGraphs == {g \in [1 .. 5 -> UNION {Shapes[n] : n \in 1 .. 5}] :
               \A n \in 1 .. 5 : g[n] \in Shapes[n]}
=============================================================================
