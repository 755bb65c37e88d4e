---------------------------- MODULE TagPropagation ----------------------------
(***************************************************************************)
(* The taint phase of directed_flow(): seeds, then passes over all         *)
(* operations in order and over the block arguments, until a pass reports  *)
(* no change or stopped() ends the loop.                                   *)
(*                                                                         *)
(* A program gives the seeds, the operations and the block arguments.  A   *)
(* value carries the tags that reached it.  A tag is merged into the tag   *)
(* of the same key; only the merge of its range or call depth counts as a  *)
(* change.                                                                 *)
(***************************************************************************)
EXTENDS Integers, Sequences, FiniteSets, FiniteSetsExt, SequencesExt

CONSTANTS
  Values,        \* the XAIR values, scalars and memory states
  Programs,      \* the programs to propagate through
  Depths,        \* the values of --function-depth
  StateLimits,   \* the values of --max-states, 0 for no limit
  Length,        \* the length of a buffer source, within --max-taint-bytes
  Width          \* the bytes a load reads

ASSUME TagAssumption ==
  /\ IsFiniteSet(Values)
  /\ Depths \subseteq Nat /\ StateLimits \subseteq Nat
  /\ Length \in Nat \ {0} /\ Width \in Nat \ {0}

VARIABLES
  program, functionDepth, maxStates,  \* the propagation's inputs
  stopping,      \* "no", or why the token or the clock stops it
  tags,          \* Tags: the tags of each value
  states,        \* result.states
  deepest,       \* result.deepest_call
  next,          \* the operation of the pass that is next
  changed,       \* changed
  passes,        \* history: the passes begun
  completion, pc

inputs == <<program, functionDepth, maxStates>>
vars == <<inputs, stopping, tags, states, deepest, next, changed, passes, completion, pc>>

Forms == {"value", "pointer", "bytes"}

\* A tag's form: the source's value, a pointer into a buffer source, or bytes
\* loaded from one.  A tag in storage was stored at offset at ({} when the
\* address is not a known stack slot), which it keeps when it is loaded.
Tag == [source : Nat, form : Forms, storage : BOOLEAN,
        at : SUBSET Int, begin : Nat, end : Nat, exact : BOOLEAN, depth : Nat]

Key(tag) == <<tag.source, tag.form, tag.storage, tag.at>>

\* An operation reads ins and defines outs.  at is the slot of its address, delta
\* the constant it adds ({} for neither); a call of a known callee copies from its
\* arguments to the parameters and from the returns to its results.
Operation == [kind : {"add", "load", "store", "call", "other"},
              ins : Seq(Values), outs : Seq(Values), at : SUBSET Int, delta : SUBSET Int,
              args : Seq(Values \X Values), returns : Seq(Values \X Values)]

ASSUME ProgramAssumption ==
  \A p \in Programs :
    /\ IsFiniteSet(p.seeds) /\ p.seeds \subseteq Values \X Tag
    /\ \A s \in p.seeds : s[2].depth = 0
    /\ p.ops \in Seq(Operation)
    /\ \A i \in DOMAIN p.ops : p.ops[i].kind = "store" => Len(p.ops[i].ins) = 3
    /\ p.blocks \in Seq(Values \X Values)

\* One tag per key and value, and as many as result.states says: never more
\* than max_states.
StatesCounted ==
  /\ states = FoldSet(LAMBDA v, n : n + Cardinality(tags[v]), 0, Values)
  /\ maxStates # 0 => states <= maxStates
  /\ \A v \in Values : \A t, u \in tags[v] : Key(t) = Key(u) => t = u

\* The loop's state, and the count that stopped() compares with max_states.
TypeOK ==
  /\ functionDepth \in Depths /\ maxStates \in StateLimits
  /\ stopping \in {"no", "canceled", "timeout"}
  /\ DOMAIN tags = Values /\ \A v \in Values : \A t \in tags[v] : t \in Tag
  /\ states \in Nat /\ deepest \in 0 .. functionDepth
  /\ next \in 1 .. Len(program.ops) + 1 /\ changed \in BOOLEAN /\ passes \in Nat
  /\ completion \in {"complete", "limited", "timeout", "canceled"}
  /\ pc \in {"seed", "loop", "pass", "done"}
  /\ StatesCounted

-----------------------------------------------------------------------------
(* add_tag, on an accumulator [tags, states, changed, deepest].            *)

Merge(existing, incoming) ==
  LET begin == Min({existing.begin, incoming.begin})
      end   == Max({existing.end, incoming.end})
  IN  [existing EXCEPT !.begin = begin, !.end = end,
         !.depth = Min({existing.depth, incoming.depth}),
         !.exact = existing.exact /\ incoming.exact /\ begin = end]

\* Variants of Moved: the call depth or the range is forgotten, or every merge
\* counts as a change.
MovedRange(old, new) == <<old.begin, old.end>> # <<new.begin, new.end>>
MovedDepth(old, new) == old.depth # new.depth
MovedAlways(old, new) == TRUE

Moved(old, new) ==
  <<old.begin, old.end, old.depth>> # <<new.begin, new.end, new.depth>>

\* Variant of AddTag: a refused tag is counted.
AddTagCounting(acc, value, incoming) ==
  LET same == {t \in acc.tags[value] : Key(t) = Key(incoming)}
  IN  IF same # {}
      THEN LET old == CHOOSE t \in same : TRUE
               new == Merge(old, incoming)
           IN  [acc EXCEPT !.tags[value] = (@ \ {old}) \cup {new},
                           !.changed = @ \/ Moved(old, new)]
      ELSE IF maxStates # 0 /\ acc.states >= maxStates
      THEN [acc EXCEPT !.states = @ + 1]
      ELSE [acc EXCEPT !.tags[value] = @ \cup {incoming},
                       !.states = @ + 1, !.changed = TRUE]

AddTag(acc, value, incoming) ==
  LET same == {t \in acc.tags[value] : Key(t) = Key(incoming)}
  IN  IF same # {}
      THEN LET old == CHOOSE t \in same : TRUE
               new == Merge(old, incoming)
           IN  [acc EXCEPT !.tags[value] = (@ \ {old}) \cup {new},
                           !.changed = @ \/ Moved(old, new)]
      ELSE IF maxStates # 0 /\ acc.states >= maxStates THEN acc
      ELSE [acc EXCEPT !.tags[value] = @ \cup {incoming},
                       !.states = @ + 1, !.changed = TRUE]

AddAll(acc, value, incoming) ==
  FoldSet(LAMBDA t, a : AddTag(a, value, t), acc, incoming)

-----------------------------------------------------------------------------
(* propagate_operation.  A load reads memory ins[1] at address ins[2], a    *)
(* store writes value ins[3] to memory ins[1] at address ins[2].           *)

Stored(tag, op) == [tag EXCEPT !.storage = TRUE, !.at = op.at]

\* The tags an operation takes from its inputs: not from a store's address.
Taken(op, of) ==
  IF op.kind = "store"
  THEN of[op.ins[1]] \cup {Stored(t, op) : t \in of[op.ins[3]]}
  ELSE UNION {of[op.ins[i]] : i \in DOMAIN op.ins}

\* A load of one known slot does not see what was stored at another.
Seen(op, taken) ==
  IF op.kind = "load"
  THEN {t \in taken : ~ (t.storage /\ {} \notin {t.at, op.at} /\ t.at # op.at)}
  ELSE taken

Loaded(tag) ==
  IF tag.storage THEN [tag EXCEPT !.storage = FALSE]
  ELSE IF tag.form # "pointer" THEN tag
  ELSE IF tag.exact
  THEN [tag EXCEPT !.form = "bytes",
                   !.end = Min({Length - 1, tag.begin + Width - 1})]
  ELSE [tag EXCEPT !.form = "bytes", !.begin = 0, !.end = Length - 1]

\* Pointer arithmetic by a constant moves the offset; by anything else, or
\* below the buffer's begin, the offset is no longer exact.
Shifted(tag, op) ==
  IF tag.form # "pointer" THEN tag
  ELSE IF op.delta = {} THEN [tag EXCEPT !.exact = FALSE]
  ELSE LET moved == tag.begin + (CHOOSE d \in op.delta : TRUE)
       IN  IF moved < 0 THEN [tag EXCEPT !.exact = FALSE, !.end = tag.begin]
           ELSE [tag EXCEPT !.begin = moved, !.end = moved]

Transfer(op, of) ==
  LET seen == Seen(op, Taken(op, of))
  IN  CASE op.kind = "load" -> {Loaded(t) : t \in seen}
        [] op.kind = "add"  -> {Shifted(t, op) : t \in seen}
        [] OTHER            -> seen

\* Variant of Cross: the limit itself may be crossed.
CrossTooDeep(these) ==
  {[t EXCEPT !.depth = t.depth + 1] : t \in {u \in these : u.depth <= functionDepth}}

\* Crossing a call is one level deeper, for an argument and for a return; a tag
\* at the depth limit does not cross.
Cross(these) ==
  {[t EXCEPT !.depth = t.depth + 1] : t \in {u \in these : u.depth < functionDepth}}

\* deepest_call counts a crossing even when its tag is merged or refused.
CopyAcross(acc, pairs) ==
  FoldLeft(LAMBDA a, p :
             LET crossing == Cross(a.tags[p[1]])
             IN  [AddAll(a, p[2], crossing) EXCEPT
                    !.deepest = Max({@} \cup {t.depth : t \in crossing})],
           acc, pairs)

\* A callee without recovered returns keeps the summary of an unknown call.
Summarised(op) == op.kind # "call" \/ op.returns = <<>>

Propagate(acc, op) ==
  LET called == IF op.kind = "call"
                THEN CopyAcross(CopyAcross(acc, op.args), op.returns) ELSE acc
      add(a, v) == AddAll(a, v, Transfer(op, called.tags))
  IN  IF Summarised(op) THEN FoldLeft(add, called, op.outs) ELSE called

\* propagate_block_arguments: each argument's tags reach the parameter.
PropagateBlocks(acc) ==
  FoldLeft(LAMBDA a, p : AddAll(a, p[2], a.tags[p[1]]), acc, program.blocks)

-----------------------------------------------------------------------------
Init ==
  /\ program \in Programs /\ functionDepth \in Depths /\ maxStates \in StateLimits
  /\ stopping = "no"
  /\ tags = [v \in Values |-> {}] /\ states = 0 /\ deepest = 0
  /\ next = 1 /\ changed = TRUE /\ passes = 0 /\ completion = "complete" /\ pc = "seed"

\* The token or the clock, at any time.
Stop ==
  /\ pc # "done" /\ stopping = "no"
  /\ stopping' \in {"canceled", "timeout"}
  /\ UNCHANGED <<inputs, tags, states, deepest, next, changed, passes, completion, pc>>

Acc == [tags |-> tags, states |-> states, changed |-> changed, deepest |-> deepest]

Commit(acc) ==
  /\ tags' = acc.tags /\ states' = acc.states /\ changed' = acc.changed
  /\ deepest' = acc.deepest

Seed ==
  /\ pc = "seed" /\ pc' = "loop"
  /\ Commit(FoldSet(LAMBDA s, a : AddTag(a, s[1], s[2]), Acc, program.seeds))
  /\ UNCHANGED <<inputs, stopping, next, passes, completion>>

\* stopped(): the token and the clock come before max_states.
Full == maxStates # 0 /\ states >= maxStates
Stopped == stopping # "no" \/ Full
StopReason == IF stopping # "no" THEN stopping ELSE "limited"

BeginPass ==
  /\ pc = "loop" /\ changed /\ ~ Stopped
  /\ pc' = "pass" /\ changed' = FALSE /\ next' = 1
  /\ passes' = passes + 1
  /\ UNCHANGED <<inputs, stopping, tags, states, deepest, completion>>

Operate ==
  /\ pc = "pass" /\ ~ Stopped /\ next <= Len(program.ops)
  /\ Commit(Propagate(Acc, program.ops[next]))
  /\ next' = next + 1
  /\ UNCHANGED <<inputs, stopping, passes, completion, pc>>

BlockArguments ==
  /\ pc = "pass" /\ ~ Stopped /\ next > Len(program.ops)
  /\ Commit(PropagateBlocks(Acc))
  /\ pc' = "loop"
  /\ UNCHANGED <<inputs, stopping, next, passes, completion>>

\* A whole pass changed nothing: nobody asks stopped() any more.
Converge ==
  /\ pc = "loop" /\ ~ changed /\ pc' = "done"
  /\ UNCHANGED <<inputs, stopping, tags, states, deepest, next, changed, passes,
                 completion>>

\* stopped() ends the loop between two passes or two operations of a pass.
StopEarly ==
  /\ pc = "pass" \/ (pc = "loop" /\ changed)
  /\ Stopped
  /\ completion' = StopReason /\ pc' = "done"
  /\ UNCHANGED <<inputs, stopping, tags, states, deepest, next, changed, passes>>

Step == Seed \/ BeginPass \/ Operate \/ BlockArguments \/ Converge \/ StopEarly
Terminated == pc = "done" /\ UNCHANGED vars
Next == Step \/ Stop \/ Terminated

Spec == Init /\ [][Next]_vars

-----------------------------------------------------------------------------
(* Properties.                                                             *)

\* How a key gets through an operation, said once more without the tags: what
\* every output gets of the key k of input i.
Through(op, i, k) ==
  LET hidden == k[3] /\ {} \notin {k[4], op.at} /\ k[4] # op.at
  IN  CASE op.kind = "store" /\ i = 2 -> {}
        [] op.kind = "store" /\ i = 3 -> {<<k[1], k[2], TRUE, op.at>>}
        [] op.kind = "load" /\ hidden -> {}
        [] op.kind = "load" /\ k[3] /\ ~ hidden -> {<<k[1], k[2], FALSE, k[4]>>}
        [] op.kind = "load" /\ ~ k[3] /\ k[2] = "pointer" -> {<<k[1], "bytes", FALSE, k[4]>>}
        [] OTHER -> {k}

\* Where the key k of the value v gets by one operation, and the levels it
\* crosses: <<value, key, levels>>.
Flows(op, v, k) ==
  LET crossing  == IF op.kind # "call" THEN {}
                   ELSE {p[2] : p \in {q \in ToSet(op.args \o op.returns) : q[1] = v}}
      through   == IF ~ Summarised(op) THEN {}
                   ELSE UNION {Through(op, i, k) : i \in {j \in DOMAIN op.ins : op.ins[j] = v}}
  IN  {<<w, k, 1>> : w \in crossing} \cup {<<w, j, 0>> : w \in ToSet(op.outs), j \in through}

Successors(v, k) ==
  (UNION {Flows(program.ops[i], v, k) : i \in DOMAIN program.ops})
    \cup {<<p[2], k, 0>> : p \in {q \in ToSet(program.blocks) : q[1] = v}}

\* What is one move further, within the depth: <<value, key, depth>>.
Moves(x) == {<<s[1], s[2], x[3] + s[3]>> : s \in Successors(x[1], x[2])}
Onward(known) ==
  known \cup {y \in UNION {Moves(x) : x \in known} : y[3] <= functionDepth}

Within[n \in Nat] ==
  IF n = 0 THEN {<<s[1], Key(s[2]), 0>> : s \in program.seeds} ELSE Onward(Within[n - 1])

\* Where a tag could get at all.
Positions ==
  LET seeded == {Key(s[2]) : s \in program.seeds}
      slots  == {k[4] : k \in seeded} \cup {program.ops[i].at : i \in DOMAIN program.ops}
  IN  Values \X ({k[1] : k \in seeded} \X Forms \X BOOLEAN \X slots) \X (0 .. functionDepth)

\* Everything reachable from the seeds: the moves until none leads further.
Reachable ==
  Within[CHOOSE n \in 0 .. Cardinality(Positions) : Onward(Within[n]) = Within[n]]

\* When the propagation is complete, a value has exactly the tags that reach it
\* within the depth limit, each at the least number of calls crossed, whatever
\* the order of the operations and of the merges.
DepthsExact ==
  pc = "done" /\ completion = "complete" =>
    LET reach == Reachable
    IN  UNION {{<<v, Key(t), t.depth>> : t \in tags[v]} : v \in Values}
          = {x \in reach : \A y \in reach : y[1] = x[1] /\ y[2] = x[2] => x[3] <= y[3]}

\* And one more pass would widen no range: each output covers what its inputs
\* give it.  Only a pointer whose offset is no longer exact is left out: that it
\* stopped being exact does not count as a change, so a load that was already
\* passed keeps the range it had.
RangesCovered ==
  pc = "done" /\ completion = "complete" =>
    LET exact == [v \in Values |-> {t \in tags[v] : t.form = "pointer" => t.exact}]
    IN  \A i \in DOMAIN program.ops :
          LET op == program.ops[i]
          IN  Summarised(op) =>
                \A v \in ToSet(op.outs), t \in Transfer(op, exact) :
                  \E u \in tags[v] : Key(u) = Key(t) /\ u.begin <= t.begin /\ u.end >= t.end

\* The fixpoint: all tags that reach a value and no others, each as shallow and as
\* wide as the program makes it (propagate_operation, propagate_block_arguments).
FixpointExact == DepthsExact /\ RangesCovered

\* The loop ends by itself, and early: a tag that is merged again and again around a
\* loop of the program, or whose offset moves there, does not keep the passes
\* changing.  So early only where a loop that steps a pointer back does not start far
\* into the buffer, as in the instance; TagPassesEnd bounds the passes of every program.
PassesBounded == passes <= Cardinality(Values) + functionDepth

=============================================================================
