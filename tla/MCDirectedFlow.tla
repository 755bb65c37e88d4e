---------------------------- MODULE MCDirectedFlow ----------------------------
\* Two source/target pairs, the first with one bounded path and the second
\* with two.
EXTENDS DirectedFlow

MCPathCount == <<1, 2>>
MCLimits    == {1, 2, 3}
MCBudgets   == {0, 1}
=============================================================================
