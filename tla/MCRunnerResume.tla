--------------------------- MODULE MCRunnerResume ---------------------------
(***************************************************************************)
(* RunnerResume with two cases, two contents a binary can have and one     *)
(* variant; cases and builds are interchangeable.                          *)
(***************************************************************************)
EXTENDS RunnerResume, TLC

Symmetry == Permutations(Cases) \cup Permutations(Builds)
=============================================================================
