------------------------- MODULE TagTerminationProofs -------------------------
(***************************************************************************)
(* The taint loop ends by itself, for every program and without a limit on *)
(* its states: each pass but the last adds a tag or makes one shallower or *)
(* wider, and there is only so much to add.  That offsets stay below a     *)
(* bound is what has to be shown for it, as arithmetic on pointers moves   *)
(* them in every pass around a loop of the program.                        *)
(***************************************************************************)
EXTENDS TagPropagationProofs

(* What operations make of ranges.                                         *)

\* How far an operation moves an offset, if its constant is known.
Shift(op) == CHOOSE d \in op.delta : TRUE

\* From one rung of the ladder to the next an operation may move an offset.
Climbs(L, op) == op.delta # {} => \A n \in Nat : L[n] + Shift(op) <= L[n + 1]

LEMMA LadderSteps ==
  ASSUME NEW L \in Ladders, NEW n \in Nat
  PROVE  /\ L[0] \in Nat /\ L[n] \in Nat /\ L[n + 1] \in Nat
         /\ L[0] <= L[n] /\ L[n] <= L[n + 1] /\ L[0] <= L[n + 1]
<1>1. 0 \in Nat /\ n + 1 \in Nat /\ 0 <= n /\ n <= n + 1 /\ 0 <= n + 1
  OBVIOUS
<1> QED
  BY <1>1 DEF Ladders

\* The tags of a value fit, and so do those that cross a call.
LEMMA NarrowFits ==
  ASSUME NEW a \in Accs, NEW L \in Ladders, Narrow(a, L), NEW v \in Values
  PROVE  Fits(a, L, a.tags[v])
<1> SUFFICES ASSUME NEW t \in a.tags[v]
             PROVE  t.begin <= L[a.states + 1] /\ t.end <= L[a.states + 1]
  BY DEF Fits
<1>1. a.states \in Nat /\ t \in Tag
  BY AccFields
<1>2. t.begin \in Nat /\ t.begin <= L[a.states] /\ t.end <= L[a.states + 1]
  BY <1>1, TagFields DEF Narrow
<1> DEFINE low == L[a.states]
           high == L[a.states + 1]
<1>3. low \in Nat /\ high \in Nat /\ low <= high
  BY <1>1, LadderSteps
<1> HIDE DEF low, high
<1>4. t.begin <= low => t.begin <= high
  BY <1>2, <1>3
<1> QED
  BY <1>2, <1>4 DEF low, high

LEMMA CrossFits ==
  ASSUME NEW a, NEW L, NEW T \in SUBSET Tag, Fits(a, L, T)
  PROVE  Fits(a, L, Cross(T))
<1> SUFFICES ASSUME NEW u \in Cross(T)
             PROVE  u.begin <= L[a.states + 1] /\ u.end <= L[a.states + 1]
  BY DEF Fits
<1>1. PICK t \in T : u = [t EXCEPT !.depth = t.depth + 1]
  BY DEF Cross
<1>2. t \in Tag
  OBVIOUS
<1>3. u.begin = t.begin /\ u.end = t.end
  BY <1>1, <1>2 DEF Tag
<1> QED
  BY <1>3 DEF Fits

\* An operation moves a range by its constant, or makes it one of bytes of the buffer.
LEMMA CarriedNear ==
  ASSUME NEW op, Sensible(op), NEW i, NEW t \in Tag, NEW x \in Carried(op, i, t),
         NEW low \in Nat, NEW high \in Nat, low <= high, Length <= high,
         t.begin <= low, t.end <= high, op.delta # {} => low + Shift(op) <= high
  PROVE  x.begin <= high /\ x.end <= high
<1>1. /\ t.begin \in Nat /\ t.end \in Nat /\ Length \in Nat /\ Width \in Nat /\ 1 <= Length
      /\ t.begin <= high
  BY Constants, TagFields
<1>2. CASE x = t
  BY <1>1, <1>2
<1>3. CASE op.kind = "store" /\ x # t
  <2>1. x = Stored(t, op)
    BY <1>3 DEF Carried
  <2>2. x.begin = t.begin /\ x.end = t.end
    BY <2>1 DEF Stored, Tag
  <2> QED
    BY <1>1, <2>2
<1>4. CASE op.kind = "load"
  <2>1. x = Loaded(t)
    BY <1>4 DEF Carried
  <2>2. CASE t.storage \/ t.form # "pointer"
    BY <1>1, <2>1, <2>2, LoadedFacts
  <2>3. CASE ~ t.storage /\ t.form = "pointer" /\ t.exact
    <3>1. x.begin = t.begin /\ x.end = Reached(t.begin)
      BY <2>1, <2>3, LoadedFacts
    <3>2. Reached(t.begin) <= Length - 1 /\ Reached(t.begin) \in Int
      <4> DEFINE p == Length - 1
                 q == t.begin + Width - 1
      <4>1. p \in Int /\ q \in Int
        BY <1>1
      <4>2. Reached(t.begin) = Min({p, q})
        BY DEF Reached
      <4> HIDE DEF p, q
      <4>3. Reached(t.begin) = IF p <= q THEN p ELSE q
        BY <4>1, <4>2, MinMaxOfTwo
      <4>4. Reached(t.begin) <= p /\ Reached(t.begin) \in Int
        BY <4>1, <4>3
      <4> QED
        BY <4>4 DEF p
    <3> DEFINE last == Reached(t.begin)
    <3> HIDE DEF last
    <3>3. last <= high
      BY <1>1, <3>2 DEF last
    <3>4. x.begin = t.begin /\ x.end = last
      BY <3>1 DEF last
    <3> QED
      BY <1>1, <3>3, <3>4
  <2>4. CASE ~ t.storage /\ t.form = "pointer" /\ ~ t.exact
    <3> DEFINE last == Length - 1
    <3>1. x = [t EXCEPT !.form = "bytes", !.begin = 0, !.end = last]
      BY <2>1, <2>4 DEF Loaded
    <3> HIDE DEF last
    <3>2. x.begin = 0 /\ x.end = last
      BY <3>1 DEF Tag
    <3> QED
      BY <1>1, <3>2 DEF last
  <2> QED
    BY <2>2, <2>3, <2>4
<1>5. CASE op.kind = "add"
  <2> DEFINE moved == t.begin + (CHOOSE d \in op.delta : TRUE)
  <2>1. x = Shifted(t, op)
    BY <1>5 DEF Carried
  <2>2. /\ x.begin = IF t.form = "pointer" /\ op.delta # {} /\ moved >= 0 THEN moved ELSE t.begin
        /\ x.end = IF t.form = "pointer" /\ op.delta # {}
                   THEN IF moved >= 0 THEN moved ELSE t.begin
                   ELSE t.end
    BY <2>1, ShiftedFacts
  <2>3. op.delta # {} => moved <= high
    <3> SUFFICES ASSUME op.delta # {} PROVE moved <= high
      OBVIOUS
    <3>1. op.delta \in SUBSET Int
      BY OperationFields
    <3>2. Shift(op) \in Int
      BY <3>1 DEF Shift
    <3>3. moved = t.begin + Shift(op)
      BY DEF Shift
    <3> HIDE DEF moved
    <3> QED
      BY <1>1, <3>2, <3>3
  <2> HIDE DEF moved
  <2> QED
    BY <1>1, <2>2, <2>3
<1>6. CASE op.kind \in {"call", "other"}
  <2>1. x = t
    BY <1>6 DEF Carried
  <2> QED
    BY <1>2, <2>1
<1> QED
  BY <1>2, <1>3, <1>4, <1>5, <1>6, OperationFields

\* What an operation hands on of tags within the bound fits.
LEMMA TransferFits ==
  ASSUME NEW op, Sensible(op), NEW a \in Accs, NEW L \in Ladders, Narrow(a, L),
         Climbs(L, op), Length <= L[0]
  PROVE  Fits(a, L, Transfer(op, a.tags))
<1> SUFFICES ASSUME NEW x \in Transfer(op, a.tags)
             PROVE  x.begin <= L[a.states + 1] /\ x.end <= L[a.states + 1]
  BY DEF Fits
<1>1. PICK i \in DOMAIN op.ins : \E t \in a.tags[op.ins[i]] : x \in Carried(op, i, t)
  BY TransferIs
<1>2. PICK t \in a.tags[op.ins[i]] : x \in Carried(op, i, t)
  BY <1>1
<1>3. op.ins[i] \in Values
  BY InsAreValues
<1>4. a.states \in Nat /\ t \in Tag
  BY <1>3, AccFields
<1> DEFINE low == L[a.states]
           high == L[a.states + 1]
<1>5. L[0] \in Nat /\ low \in Nat /\ high \in Nat /\ low <= high /\ L[0] <= high
  BY <1>4, LadderSteps
<1>6. t.begin <= low /\ t.end <= high
  BY <1>3 DEF Narrow
<1>7. op.delta # {} => low + Shift(op) <= high
  BY <1>4 DEF Climbs
<1>8. Length \in Nat
  BY Constants
<1> HIDE DEF low, high
<1>9. Length <= high
  BY <1>5, <1>8
<1>10. x.begin <= high /\ x.end <= high
  BY <1>2, <1>4, <1>5, <1>6, <1>7, <1>9, CarriedNear
<1> QED
  BY <1>10 DEF high


-----------------------------------------------------------------------------
(* The steps keep the ranges within the bound.                             *)

LEMMA RunNarrow ==
  ASSUME NEW n \in Nat, NEW h, NEW at, NEW with, Run(h, n, at, with), NEW L \in Ladders,
         Narrow(h[0], L),
         \A k \in 1 .. n : Narrow(h[k - 1], L) => Fits(h[k - 1], L, with[k])
  PROVE  Narrow(h[n], L)
<1> DEFINE Q == {k \in Nat : k <= n => Narrow(h[k], L)}
<1>1. 0 \in Q
  OBVIOUS
<1>2. ASSUME NEW j \in Nat, j \in Q PROVE j + 1 \in Q
  <2> SUFFICES ASSUME j + 1 <= n PROVE Narrow(h[j + 1], L)
    OBVIOUS
  <2>1. j + 1 \in 1 .. n /\ (j + 1) - 1 = j /\ Narrow(h[j], L)
    BY <1>2
  <2>2. Adds(h[j], h[j + 1], at[j + 1], with[j + 1]) /\ Fits(h[j], L, with[j + 1])
    BY <2>1 DEF Run
  <2> QED
    BY <2>1, <2>2 DEF Adds
<1> HIDE DEF Q
<1>3. Nat \subseteq Q
  BY <1>1, <1>2, NaturalsOf
<1>4. n \in Q
  BY <1>3
<1> QED
  BY <1>4 DEF Q

LEMMA CopyNarrow ==
  ASSUME Limits, NEW a, Proper(a), NEW pairs \in Seq(Values \X Values),
         NEW b, b = CopyAcross(a, pairs), NEW L \in Ladders, Narrow(a, L)
  PROVE  Narrow(b, L)
<1> DEFINE n == Len(pairs)
<1>1. PICK h : CopySteps(h, a, pairs, b)
  BY CopyRuns
<1> DEFINE at == [k \in 1 .. n |-> pairs[k][2]]
           with == [k \in 1 .. n |-> Cross(h[k - 1].tags[pairs[k][1]])]
<1>2. h[0] = a /\ h[n] = b /\ Run(h, n, at, with)
  BY <1>1 DEF CopySteps
<1>3. n \in Nat /\ \A k \in 1 .. n : pairs[k][1] \in Values
  OBVIOUS
<1>4. \A k \in 1 .. n : with[k] = Cross(h[k - 1].tags[pairs[k][1]])
  OBVIOUS
<1> HIDE DEF n, at, with
<1>5. ASSUME NEW k \in 1 .. n, Narrow(h[k - 1], L) PROVE Fits(h[k - 1], L, with[k])
  <2> DEFINE c == h[k - 1]
             T == c.tags[pairs[k][1]]
  <2>1. k - 1 \in 0 .. n
    BY <1>3
  <2>2. c \in Accs
    BY <1>2, <1>3, <2>1, RunGrows
  <2>3. T \in SUBSET Tag
    BY <1>3, <2>2, AccFields
  <2>4. Fits(c, L, T)
    <3> HIDE DEF c
    <3> QED
      BY <1>3, <1>5, <2>2, NarrowFits DEF c
  <2>5. with[k] = Cross(T)
    BY <1>4
  <2> HIDE DEF c, T
  <2>6. Fits(c, L, Cross(T))
    BY <2>3, <2>4, CrossFits
  <2> QED
    BY <2>5, <2>6 DEF c
<1>6. Narrow(h[n], L)
  BY <1>2, <1>3, <1>5, RunNarrow
<1> QED
  BY <1>2, <1>6

LEMMA OutsNarrow ==
  ASSUME Limits, NEW a, Proper(a), NEW outs \in Seq(Values), NEW X, Addable(X),
         NEW b, b = AddToAll(a, outs, X), NEW L \in Ladders, Narrow(a, L), Fits(a, L, X)
  PROVE  Narrow(b, L)
<1> DEFINE n == Len(outs)
<1>1. PICK h : AddSteps(h, a, outs, X, b)
  BY AddRuns
<1> DEFINE at == [k \in 1 .. n |-> outs[k]]
           with == [k \in 1 .. n |-> X]
<1>2. h[0] = a /\ h[n] = b /\ Run(h, n, at, with)
  BY <1>1 DEF AddSteps
<1>3. n \in Nat /\ \A k \in 1 .. n : with[k] = X
  OBVIOUS
<1> HIDE DEF n, at, with
<1>4. ASSUME NEW k \in 1 .. n PROVE Fits(h[k - 1], L, with[k])
  <2> DEFINE c == h[k - 1]
  <2>1. k - 1 \in 0 .. n /\ 0 \in 0 .. k - 1 /\ 0 \in 0 .. n
    BY <1>3
  <2>2. a \in Accs /\ c \in Accs /\ Grows(a, c)
    BY <1>2, <1>3, <2>1, RunGrows
  <2>3. X \in SUBSET Tag
    BY DEF Addable
  <2> HIDE DEF c
  <2>4. Fits(c, L, X)
    BY <2>2, <2>3, FitsLater
  <2> QED
    BY <1>3, <2>4 DEF c
<1>5. Narrow(h[n], L)
  BY <1>2, <1>3, <1>4, RunNarrow
<1> QED
  BY <1>2, <1>5

\* An operation that the ladder leaves room for.
LEMMA PropagateNarrow ==
  ASSUME Limits, NEW a, Proper(a), NEW op, Sensible(op), NEW b, b = Propagate(a, op),
         NEW L \in Ladders, Narrow(a, L), Climbs(L, op), Length <= L[0]
  PROVE  Narrow(b, L)
<1> DEFINE c == Called(a, op)
           X == Transfer(op, c.tags)
<1>1. op.args \in Seq(Values \X Values) /\ op.returns \in Seq(Values \X Values)
      /\ op.outs \in Seq(Values)
  BY OperationFields
<1>2. b = IF Summarised(op) THEN AddToAll(c, op.outs, X) ELSE c
  BY PropagateIs
<1>3. Narrow(c, L)
  <2>1. CASE op.kind # "call"
    BY <2>1 DEF Called
  <2>2. CASE op.kind = "call"
    <3> DEFINE m == CopyAcross(a, op.args)
    <3>1. Proper(m) /\ Narrow(m, L)
      <4>1. Proper(m)
        BY <1>1, CopyFacts
      <4>2. Narrow(m, L)
        BY <1>1, CopyNarrow
      <4> QED
        BY <4>1, <4>2
    <3>2. c = CopyAcross(m, op.returns)
      BY <2>2 DEF Called
    <3> HIDE DEF m, c
    <3> QED
      BY <1>1, <3>1, <3>2, CopyNarrow
  <2> QED
    BY <2>1, <2>2
<1>4. Proper(c)
  BY CalledFacts
<1> HIDE DEF c
<1>5. c \in Accs /\ c.tags \in [Values -> SUBSET Tag] /\ Kept(c.tags)
  BY <1>4, AccFields DEF Proper
<1>6. Addable(X)
  BY <1>5, TransferAddable
<1>7. Fits(c, L, X)
  BY <1>3, <1>5, TransferFits
<1> HIDE DEF X
<1>8. CASE Summarised(op)
  <2>1. b = AddToAll(c, op.outs, X)
    BY <1>2, <1>8
  <2> QED
    BY <1>1, <1>3, <1>4, <1>6, <1>7, <2>1, OutsNarrow
<1>9. CASE ~ Summarised(op)
  BY <1>2, <1>3, <1>9
<1> QED
  BY <1>8, <1>9

LEMMA BlocksNarrow ==
  ASSUME Limits, NEW a, Proper(a), program.blocks \in Seq(Values \X Values),
         NEW b, b = PropagateBlocks(a), NEW L \in Ladders, Narrow(a, L)
  PROVE  Narrow(b, L)
<1> DEFINE pairs == program.blocks
           n == Len(pairs)
<1>1. PICK h : BlockSteps(h, a, pairs, b)
  BY BlockRuns
<1> DEFINE at == [k \in 1 .. n |-> pairs[k][2]]
           with == [k \in 1 .. n |-> h[k - 1].tags[pairs[k][1]]]
<1>2. h[0] = a /\ h[n] = b /\ Run(h, n, at, with)
  BY <1>1 DEF BlockSteps
<1>3. n \in Nat /\ \A k \in 1 .. n : pairs[k][1] \in Values
  OBVIOUS
<1>4. \A k \in 1 .. n : with[k] = h[k - 1].tags[pairs[k][1]]
  OBVIOUS
<1> HIDE DEF pairs, n, at, with
<1>5. ASSUME NEW k \in 1 .. n, Narrow(h[k - 1], L) PROVE Fits(h[k - 1], L, with[k])
  <2> DEFINE c == h[k - 1]
  <2>1. k - 1 \in 0 .. n
    BY <1>3
  <2>2. c \in Accs
    BY <1>2, <1>3, <2>1, RunGrows
  <2>3. with[k] = c.tags[pairs[k][1]] /\ pairs[k][1] \in Values /\ Narrow(c, L)
    BY <1>3, <1>4, <1>5
  <2> HIDE DEF c
  <2>4. Fits(c, L, with[k])
    BY <2>2, <2>3, NarrowFits
  <2> QED
    BY <2>4 DEF c
<1>6. Narrow(h[n], L)
  BY <1>2, <1>3, <1>5, RunNarrow
<1> QED
  BY <1>2, <1>6

\* The seeds are within the lowest rung.
LEMMA SeedsNarrow ==
  ASSUME Limits, NEW a, Proper(a), NEW seeds, Seeds(seeds), NEW b, b = SeedAll(a, seeds),
         NEW L \in Ladders, Narrow(a, L),
         \A s \in seeds : s[2].begin <= L[0] /\ s[2].end <= L[0]
  PROVE  Narrow(b, L)
<1>1. PICK g : /\ g[{}] = a /\ g[seeds] = b
               /\ \A s \in SUBSET seeds : Proper(g[s])
               /\ \A s \in SUBSET seeds : s # {} => \E x \in s : g[s] = SeedOne(g[s \ {x}], x)
  <2>1. SeedGoes(a, seeds, b)
    BY SeedSteps
  <2> QED
    BY <2>1 DEF SeedGoes
<1>2. \A s \in seeds : s[1] \in Values /\ s[2] \in Tag
  BY DEF Seeds
<1> DEFINE Q == {r \in SUBSET seeds : Narrow(g[r], L)}
<1>3. {} \in Q
  BY <1>1
<1>4. \A r \in SUBSET seeds : r # {} => \E x \in r : r \ {x} \in Q => r \in Q
  <2> SUFFICES ASSUME NEW r \in SUBSET seeds, r # {}
               PROVE  \E x \in r : r \ {x} \in Q => r \in Q
    OBVIOUS
  <2>1. PICK x \in r : g[r] = SeedOne(g[r \ {x}], x)
    BY <1>1
  <2> DEFINE p == g[r \ {x}]
  <2>2. x \in seeds /\ r \ {x} \in SUBSET seeds
    OBVIOUS
  <2>3. Proper(p) /\ p \in Accs
    BY <1>1, <2>2 DEF Proper
  <2>4. ASSUME Narrow(p, L) PROVE Narrow(g[r], L)
    <3> HIDE DEF p
    <3>1. Adds(p, SeedOne(p, x), x[1], {x[2]})
      BY <2>2, <2>3, SeedOneAdds
    <3>2. Fits(p, L, {x[2]})
      <4>1. p.states \in Nat /\ x[2] \in Tag
        BY <1>2, <2>2, <2>3, AccFields
      <4>2. x[2].begin \in Nat /\ x[2].end \in Nat
        BY <4>1, TagFields
      <4> DEFINE high == L[p.states + 1]
      <4>3. L[0] \in Nat /\ high \in Nat /\ L[0] <= high
        BY <4>1, LadderSteps
      <4>4. x[2].begin <= L[0] /\ x[2].end <= L[0]
        BY <2>2
      <4> HIDE DEF high
      <4>5. x[2].begin <= high /\ x[2].end <= high
        BY <4>2, <4>3, <4>4
      <4> QED
        BY <4>5 DEF Fits, high
    <3>3. g[r] = SeedOne(p, x)
      BY <2>1 DEF p
    <3> QED
      BY <2>4, <3>1, <3>2, <3>3 DEF Adds
  <2> QED
    BY <2>2, <2>4
<1> HIDE DEF Q
<1>5. IsFiniteSet(seeds)
  BY DEF Seeds
<1>6. SUBSET seeds \subseteq Q
  BY <1>3, <1>4, <1>5, SubsetsOf
<1>7. seeds \in Q
  BY <1>6
<1> QED
  BY <1>1, <1>7 DEF Q

-----------------------------------------------------------------------------
(* The bound: what the program, the depth and the number of keys make it.  *)

\* The furthest that one operation moves an offset up.
Shifts == {Shift(program.ops[i]) : i \in {j \in DOMAIN program.ops : program.ops[j].delta # {}}}
Furthest == Max({0} \cup (Shifts \cap Nat))

\* The widest range before any operation: the buffer's and the seeds'.
Starts == {Length} \cup {s[2].begin : s \in program.seeds} \cup {s[2].end : s \in program.seeds}
Widest == Max(Starts)

\* One tag per key and value.
TagLimit == Cardinality(Values) * Cardinality(Keyed)

Ladder == [n \in Nat |-> Widest + n * Furthest]
OffsetLimit == Ladder[TagLimit + 1]

\* All there is for a tag to be or to cover: <<value, key, depth, begin, end>>.
PassRoom ==
  Values \X Keyed \X (0 .. functionDepth) \X ((0 .. OffsetLimit) \X (0 .. OffsetLimit))

\* What the tags cover of it.
Done(T) ==
  {x \in PassRoom : \E u \in T[x[1]] : /\ Key(u) = x[2] /\ u.depth <= x[3]
                                       /\ u.begin <= x[4][1] /\ x[4][2] <= u.end}

LEMMA LargestOfFinite ==
  ASSUME NEW S \in SUBSET Nat, IsFiniteSet(S), S # {}
  PROVE  Max(S) \in S /\ \A m \in S : m <= Max(S)
<1> DEFINE Q == {s \in SUBSET S : \E n \in Nat : s \subseteq 0 .. n}
<1>1. {} \in Q
  OBVIOUS
<1>2. \A s \in SUBSET S : s # {} => \E x \in s : s \ {x} \in Q => s \in Q
  <2> SUFFICES ASSUME NEW s \in SUBSET S, s # {}
               PROVE  \E x \in s : s \ {x} \in Q => s \in Q
    OBVIOUS
  <2>1. PICK x \in s : TRUE
    OBVIOUS
  <2>2. ASSUME NEW n \in Nat, s \ {x} \subseteq 0 .. n
        PROVE  s \subseteq 0 .. (n + x) /\ n + x \in Nat
    BY <2>1, <2>2
  <2> QED
    BY <2>1, <2>2
<1> HIDE DEF Q
<1>3. SUBSET S \subseteq Q
  BY <1>1, <1>2, SubsetsOf
<1>4. PICK n \in Nat : S \subseteq 0 .. n
  BY <1>3 DEF Q
<1> QED
  BY <1>4, LargestNatural

LEMMA FurthestFacts ==
  ASSUME program \in Programs
  PROVE  /\ Furthest \in Nat
         /\ \A i \in DOMAIN program.ops : program.ops[i].delta # {} =>
              Shift(program.ops[i]) \in Int /\ Shift(program.ops[i]) <= Furthest
<1> DEFINE D == {j \in DOMAIN program.ops : program.ops[j].delta # {}}
           S == {0} \cup (Shifts \cap Nat)
<1>1. \A i \in D : Shift(program.ops[i]) \in Int
  <2> SUFFICES ASSUME NEW i \in D PROVE Shift(program.ops[i]) \in Int
    OBVIOUS
  <2>1. Sensible(program.ops[i]) /\ program.ops[i].delta # {}
    BY ProgramFacts
  <2>2. program.ops[i].delta \in SUBSET Int
    BY <2>1, OperationFields
  <2> QED
    BY <2>1, <2>2 DEF Shift
<1>2. IsFiniteSet(Shifts)
  <2> DEFINE f == [i \in D |-> Shift(program.ops[i])]
  <2>1. IsFiniteSet(D)
    <3>1. Len(program.ops) \in Nat /\ DOMAIN program.ops = 1 .. Len(program.ops)
      BY ProgramFacts
    <3>2. IsFiniteSet(DOMAIN program.ops)
      BY <3>1, UpToFinite
    <3> QED
      BY <3>2, FS_Subset
  <2>2. Shifts = {f[i] : i \in D}
    BY DEF Shifts
  <2> HIDE DEF f, D
  <2> QED
    BY <2>1, <2>2, ImageFinite
<1>3. IsFiniteSet(S) /\ S \in SUBSET Nat /\ S # {} /\ 0 \in S
  <2>1. IsFiniteSet(Shifts \cap Nat) /\ IsFiniteSet({0})
    BY <1>2, FS_Subset, FS_Singleton
  <2>2. IsFiniteSet(S)
    BY <2>1, FS_Union
  <2> QED
    BY <2>2
<1>4. Furthest = Max(S)
  BY DEF Furthest
<1> HIDE DEF S
<1>5. Furthest \in Nat /\ \A m \in S : m <= Furthest
  BY <1>3, <1>4, LargestOfFinite
<1>6. ASSUME NEW i \in D PROVE Shift(program.ops[i]) <= Furthest
  <2> DEFINE d == Shift(program.ops[i])
  <2>1. d \in Int /\ d \in Shifts
    BY <1>1 DEF Shifts
  <2>2. d \in Nat => d \in S
    BY <2>1 DEF S
  <2> HIDE DEF d
  <2>3. d <= Furthest
    BY <1>5, <2>1, <2>2
  <2> QED
    BY <2>3 DEF d
<1> QED
  BY <1>1, <1>5, <1>6

LEMMA WidestFacts ==
  ASSUME program \in Programs
  PROVE  /\ Widest \in Nat /\ Length <= Widest
         /\ \A s \in program.seeds : s[2].begin <= Widest /\ s[2].end <= Widest
<1>1. IsFiniteSet(program.seeds) /\ \A s \in program.seeds : s[2] \in Tag
  BY ProgramFacts DEF Seeds
<1> DEFINE begins == {s[2].begin : s \in program.seeds}
           ends == {s[2].end : s \in program.seeds}
           f == [s \in program.seeds |-> s[2].begin]
           g == [s \in program.seeds |-> s[2].end]
<1>2. begins = {f[s] : s \in program.seeds} /\ ends = {g[s] : s \in program.seeds}
  OBVIOUS
<1>3. \A s \in program.seeds : s[2].begin \in Nat /\ s[2].end \in Nat
  BY <1>1, TagFields
<1>4. Starts = {Length} \cup begins \cup ends
  BY DEF Starts
<1>5. begins \in SUBSET Nat /\ ends \in SUBSET Nat
  BY <1>3
<1>6. \A s \in program.seeds : s[2].begin \in begins /\ s[2].end \in ends
  OBVIOUS
<1> HIDE DEF f, g
<1>7. IsFiniteSet({f[s] : s \in program.seeds}) /\ IsFiniteSet({g[s] : s \in program.seeds})
  BY <1>1, ImageFinite
<1>8. IsFiniteSet(begins) /\ IsFiniteSet(ends)
  BY <1>2, <1>7
<1> HIDE DEF begins, ends
<1>9. IsFiniteSet(Starts)
  BY <1>4, <1>8, FS_Singleton, FS_Union
<1>10. Starts \in SUBSET Nat /\ Starts # {} /\ Length \in Starts
  BY <1>4, <1>5, Constants
<1>11. Widest \in Starts /\ \A m \in Starts : m <= Widest
  BY <1>9, <1>10, LargestOfFinite DEF Widest
<1> QED
  BY <1>4, <1>6, <1>10, <1>11

\* The rungs rise by as much as an operation moves an offset.
LEMMA LadderFacts ==
  ASSUME program \in Programs
  PROVE  /\ Ladder \in Ladders /\ Length <= Ladder[0]
         /\ \A i \in DOMAIN program.ops : Climbs(Ladder, program.ops[i])
         /\ \A s \in program.seeds : s[2].begin <= Ladder[0] /\ s[2].end <= Ladder[0]
<1>1. Widest \in Nat /\ Furthest \in Nat
  BY FurthestFacts, WidestFacts
<1>2. Ladder \in Ladders
  <2>1. \A n \in Nat : Ladder[n] = Widest + n * Furthest /\ Ladder[n] \in Nat
    BY <1>1 DEF Ladder
  <2>2. ASSUME NEW m \in Nat, NEW n \in Nat, m <= n PROVE Ladder[m] <= Ladder[n]
    <3>1. n - m \in Nat /\ n = m + (n - m)
      BY <2>2
    <3>2. (n - m) * Furthest \in Nat
      BY <1>1, <3>1
    <3>3. n * Furthest = m * Furthest + (n - m) * Furthest
      BY <1>1
    <3>4. m * Furthest \in Nat /\ n * Furthest \in Nat
      BY <1>1
    <3> QED
      BY <1>1, <2>1, <3>2, <3>3, <3>4
  <2>3. Ladder \in [Nat -> Nat]
    BY <2>1 DEF Ladder
  <2> QED
    BY <2>2, <2>3 DEF Ladders
<1>3. Ladder[0] = Widest
  BY <1>1 DEF Ladder
<1>4. \A n \in Nat : Ladder[n + 1] = Ladder[n] + Furthest
  <2> SUFFICES ASSUME NEW n \in Nat PROVE Ladder[n + 1] = Ladder[n] + Furthest
    OBVIOUS
  <2>1. Ladder[n] = Widest + n * Furthest /\ Ladder[n + 1] = Widest + (n + 1) * Furthest
    BY DEF Ladder
  <2>2. (n + 1) * Furthest = n * Furthest + Furthest /\ n * Furthest \in Nat
    BY <1>1
  <2> QED
    BY <1>1, <2>1, <2>2
<1>5. \A i \in DOMAIN program.ops : Climbs(Ladder, program.ops[i])
  <2> SUFFICES ASSUME NEW i \in DOMAIN program.ops, program.ops[i].delta # {}, NEW n \in Nat
               PROVE  Ladder[n] + Shift(program.ops[i]) <= Ladder[n + 1]
    BY DEF Climbs
  <2>1. Shift(program.ops[i]) \in Int /\ Shift(program.ops[i]) <= Furthest
    BY FurthestFacts
  <2>2. Ladder[n] \in Nat
    BY <1>2 DEF Ladders
  <2> QED
    BY <1>1, <1>4, <2>1, <2>2
<1> QED
  BY <1>2, <1>3, <1>5, WidestFacts

-----------------------------------------------------------------------------
(* As many tags as values have keys.                                       *)

\* The tags of the keys that can be.
KeyedTags(T) == \A v \in Values : \A t \in T[v] : Key(t) \in Keyed

LEMMA ReachedKeyed ==
  ASSUME program \in Programs, Limits, NEW T, Sound(T, Reachable)
  PROVE  KeyedTags(T)
<1> SUFFICES ASSUME NEW v \in Values, NEW t \in T[v]
             PROVE  Key(t) \in Keyed
  BY DEF KeyedTags
<1>1. Reachable \subseteq Positions
  BY ReachableClosed, WithinPositions
<1> DEFINE k == Key(t)
           d == t.depth
<1>2. <<v, k, d>> \in Reachable
  BY DEF Sound
<1> HIDE DEF k, d
<1>3. <<v, k, d>> \in Values \X Keyed \X (0 .. functionDepth)
  BY <1>1, <1>2, PositionsAre
<1>4. k \in Keyed
  BY <1>3
<1> QED
  BY <1>4 DEF k

LEMMA OnePerKey ==
  ASSUME program \in Programs, NEW T, Kept(T), KeyedTags(T), NEW v \in Values
  PROVE  Cardinality(T[v]) \in Nat /\ Cardinality(T[v]) <= Cardinality(Keyed)
<1> DEFINE f == [t \in T[v] |-> Key(t)]
<1>1. f \in Injection(T[v], Keyed)
  <2>1. \A t, u \in T[v] : f[t] = f[u] => t = u
    BY DEF Kept
  <2>2. f \in [T[v] -> Keyed]
    BY DEF KeyedTags
  <2> HIDE DEF f
  <2> QED
    BY <2>1, <2>2 DEF Injection, IsInjective
<1> HIDE DEF f
<1>2. Cardinality(T[v]) <= Cardinality(Keyed)
  BY <1>1, KeyedFinite, FS_Injection
<1> QED
  BY <1>2, FS_CardinalityType DEF Kept

LEMMA TagsWithin ==
  ASSUME program \in Programs, NEW T, Kept(T), KeyedTags(T)
  PROVE  TagLimit \in Nat /\ Total(T) \in Nat /\ Total(T) <= TagLimit
<1> DEFINE size == Cardinality(Keyed)
<1>1. size \in Nat
  BY KeyedFinite, FS_CardinalityType
<1>2. \A v \in Values : Cardinality(T[v]) \in Nat /\ Cardinality(T[v]) <= size
  BY OnePerKey
<1>3. PICK f \in [SUBSET Values -> Nat] :
        /\ f[{}] = 0 /\ f[Values] = Total(T)
        /\ \A s \in SUBSET Values : s # {} =>
             f[s] = f[s \ {CHOOSE x \in s : TRUE}] + Cardinality(T[CHOOSE x \in s : TRUE])
  BY <1>2, TotalSteps
<1> DEFINE Q == {s \in SUBSET Values : f[s] <= Cardinality(s) * size}
<1>4. {} \in Q
  <2>1. Cardinality({}) = 0 /\ 0 * size = 0
    BY <1>1, FS_EmptySet
  <2> QED
    BY <1>3, <2>1
<1>5. \A s \in SUBSET Values : s # {} => \E x \in s : s \ {x} \in Q => s \in Q
  <2> SUFFICES ASSUME NEW s \in SUBSET Values, s # {}
               PROVE  \E x \in s : s \ {x} \in Q => s \in Q
    OBVIOUS
  <2> DEFINE x == CHOOSE x \in s : TRUE
             rest == s \ {x}
             a == Cardinality(T[x])
             n == Cardinality(rest)
  <2>1. x \in s /\ x \in Values
    OBVIOUS
  <2>2. IsFiniteSet(s) /\ IsFiniteSet(rest)
    BY ValuesFinite, FS_Subset
  <2>3. n \in Nat /\ Cardinality(s) \in Nat
    BY <2>2, FS_CardinalityType
  <2>4. Cardinality(rest) = Cardinality(s) - 1
    <3> HIDE DEF x
    <3> QED
      BY <2>1, <2>2, FS_RemoveElement
  <2>5. f[s] = f[rest] + a
    BY <1>3
  <2>6. a \in Nat /\ a <= size
    BY <1>2, <2>1
  <2>7. f[rest] \in Nat /\ rest \in SUBSET Values
    BY <1>3
  <2>8. ASSUME f[rest] <= n * size PROVE f[s] <= Cardinality(s) * size
    <3>1. Cardinality(s) = n + 1
      BY <2>3, <2>4
    <3> HIDE DEF a, n, rest, x, size
    <3>2. (n + 1) * size = n * size + size /\ n * size \in Nat
      BY <1>1, <2>3
    <3>3. f[rest] + a <= n * size + size
      BY <1>1, <2>6, <2>7, <2>8, <3>2
    <3> QED
      BY <2>5, <3>1, <3>2, <3>3
  <2> QED
    BY <2>1, <2>7, <2>8
<1> HIDE DEF Q
<1>6. SUBSET Values \subseteq Q
  BY <1>4, <1>5, ValueSets
<1>7. f[Values] <= Cardinality(Values) * size
  <2>1. Values \in Q
    BY <1>6
  <2> QED
    BY <2>1 DEF Q
<1>8. Cardinality(Values) \in Nat
  BY ValuesFinite, FS_CardinalityType
<1>9. TagLimit = Cardinality(Values) * size
  BY DEF TagLimit
<1>10. f[Values] \in Nat
  BY <1>3
<1> HIDE DEF size
<1>11. Cardinality(Values) * size \in Nat
  BY <1>1, <1>8
<1> QED
  BY <1>3, <1>7, <1>9, <1>10, <1>11

-----------------------------------------------------------------------------
(* What a pass that changes something adds.                                *)

LEMMA OffsetLimitIs ==
  ASSUME program \in Programs, NEW n \in Nat, n <= TagLimit, TagLimit \in Nat
  PROVE  /\ OffsetLimit \in Nat /\ Ladder[n] \in Nat /\ Ladder[n + 1] \in Nat
         /\ Ladder[n] <= OffsetLimit /\ Ladder[n + 1] <= OffsetLimit
<1> DEFINE m == TagLimit + 1
<1>1. Ladder \in Ladders
  BY LadderFacts
<1>2. m \in Nat /\ n + 1 \in Nat /\ n <= m /\ n + 1 <= m
  OBVIOUS
<1> HIDE DEF m
<1>3. /\ Ladder[m] \in Nat /\ Ladder[n] \in Nat /\ Ladder[n + 1] \in Nat
      /\ Ladder[n] <= Ladder[m] /\ Ladder[n + 1] <= Ladder[m]
  BY <1>1, <1>2 DEF Ladders
<1> QED
  BY <1>3 DEF OffsetLimit, m

LEMMA PassRoomFinite ==
  ASSUME program \in Programs, Limits, OffsetLimit \in Nat
  PROVE  IsFiniteSet(PassRoom)
<1>1. IsFiniteSet(0 .. functionDepth) /\ IsFiniteSet(0 .. OffsetLimit)
  BY FS_Interval DEF Limits
<1>2. IsFiniteSet((0 .. OffsetLimit) \X (0 .. OffsetLimit))
  BY <1>1, FS_Product
<1>3. IsFiniteSet(Keyed)
  BY KeyedFinite
<1> QED
  BY <1>1, <1>2, <1>3, ValuesFinite, ProductOfFour DEF PassRoom

LEMMA InPassRoom ==
  ASSUME NEW v \in Values, NEW k \in Keyed, NEW d \in 0 .. functionDepth,
         NEW m \in 0 .. OffsetLimit, NEW n \in 0 .. OffsetLimit
  PROVE  /\ <<v, k, d, <<m, n>>>> \in PassRoom
         /\ \A T : <<v, k, d, <<m, n>>>> \in Done(T) <=>
              \E u \in T[v] : Key(u) = k /\ u.depth <= d /\ u.begin <= m /\ n <= u.end
<1> DEFINE x == <<v, k, d, <<m, n>>>>
<1>1. x \in PassRoom
  BY DEF PassRoom
<1>2. x[1] = v /\ x[2] = k /\ x[3] = d /\ x[4][1] = m /\ x[4][2] = n
  OBVIOUS
<1> HIDE DEF x
<1>3. \A T : x \in Done(T) <=>
        \E u \in T[v] : Key(u) = k /\ u.depth <= d /\ u.begin <= m /\ n <= u.end
  BY <1>1, <1>2 DEF Done
<1> QED
  BY <1>1, <1>3 DEF x

LEMMA DoneGrows ==
  ASSUME NEW a \in Accs, NEW b \in Accs, Grows(a, b)
  PROVE  Done(a.tags) \subseteq Done(b.tags)
<1> SUFFICES ASSUME NEW x \in Done(a.tags)
             PROVE  x \in Done(b.tags)
  OBVIOUS
<1>1. x \in PassRoom /\ \E u \in a.tags[x[1]] : /\ Key(u) = x[2] /\ u.depth <= x[3]
                                               /\ u.begin <= x[4][1] /\ x[4][2] <= u.end
  BY DEF Done
<1>2. PICK u \in a.tags[x[1]] : /\ Key(u) = x[2] /\ u.depth <= x[3]
                                /\ u.begin <= x[4][1] /\ x[4][2] <= u.end
  BY <1>1
<1>3. x[1] \in Values /\ x[3] \in Int /\ x[4][1] \in Int /\ x[4][2] \in Int
  BY <1>1 DEF PassRoom
<1>4. PICK w \in b.tags[x[1]] : Covers(u, w)
  BY <1>2, <1>3 DEF Grows, Covered
<1>5. u \in Tag /\ w \in Tag
  BY <1>2, <1>3, <1>4, AccFields
<1>6. /\ u.depth \in Nat /\ u.begin \in Nat /\ u.end \in Nat
      /\ w.depth \in Nat /\ w.begin \in Nat /\ w.end \in Nat
  BY <1>5, TagFields
<1>7. Key(u) = Key(w) /\ w.depth <= u.depth /\ w.begin <= u.begin /\ u.end <= w.end
  BY <1>4 DEF Covers
<1> DEFINE d == x[3]
           m == x[4][1]
           n == x[4][2]
<1>8. w.depth <= d /\ w.begin <= m /\ n <= w.end
  <2>1. u.depth <= d /\ u.begin <= m /\ n <= u.end
    BY <1>2
  <2>2. d \in Int /\ m \in Int /\ n \in Int
    BY <1>3
  <2> HIDE DEF d, m, n
  <2> QED
    BY <1>6, <1>7, <2>1, <2>2
<1>9. Key(w) = x[2]
  BY <1>2, <1>7
<1> HIDE DEF d, m, n
<1> QED
  BY <1>1, <1>8, <1>9 DEF Done, d, m, n

\* A new tag covers what none did.
LEMMA DoneFresh ==
  ASSUME program \in Programs, Limits, NEW a \in Accs, NEW b, Proper(b),
         Narrow(b, Ladder), KeyedTags(b.tags), Fresh(a.tags, b.tags)
  PROVE  \E x \in Done(b.tags) : x \notin Done(a.tags)
<1>1. PICK v \in Values : \E u \in b.tags[v] : ~ Covered(a.tags, v, u)
  BY DEF Fresh
<1>2. PICK u \in b.tags[v] : ~ Covered(a.tags, v, u)
  BY <1>1
<1>3. b \in Accs /\ u \in Tag /\ b.states \in Nat /\ u.depth <= functionDepth
  BY <1>2, AccFields DEF Proper, Kept
<1>4. u.depth \in Nat /\ u.begin \in Nat /\ u.end \in Nat
  BY <1>3, TagFields
<1>5. TagLimit \in Nat /\ b.states <= TagLimit
  BY TagsWithin DEF Proper
<1>6. /\ OffsetLimit \in Nat /\ Ladder[b.states] \in Nat /\ Ladder[b.states + 1] \in Nat
      /\ Ladder[b.states] <= OffsetLimit /\ Ladder[b.states + 1] <= OffsetLimit
  BY <1>3, <1>5, OffsetLimitIs
<1>7. u.begin <= Ladder[b.states] /\ u.end <= Ladder[b.states + 1]
  BY <1>2 DEF Narrow
<1> DEFINE low == Ladder[b.states]
           high == Ladder[b.states + 1]
           k == Key(u)
           d == u.depth
           m == u.begin
           n == u.end
<1>8. d \in 0 .. functionDepth /\ m \in 0 .. OffsetLimit /\ n \in 0 .. OffsetLimit
  <2>1. /\ OffsetLimit \in Nat /\ low \in Nat /\ high \in Nat
        /\ low <= OffsetLimit /\ high <= OffsetLimit
        /\ m <= low /\ n <= high /\ m \in Nat /\ n \in Nat
        /\ d \in Nat /\ d <= functionDepth
    BY <1>3, <1>4, <1>6, <1>7
  <2> HIDE DEF low, high, d, m, n
  <2> QED
    BY <2>1 DEF Limits
<1>9. k \in Keyed
  BY <1>2 DEF KeyedTags
<1>10. Key(u) = k /\ u.depth <= d /\ u.begin <= m /\ n <= u.end
  BY <1>4
<1>11. ~ \E t \in a.tags[v] : Key(t) = k /\ t.depth <= d /\ t.begin <= m /\ n <= t.end
  BY <1>2 DEF Covered, Covers
<1> HIDE DEF k, d, m, n
<1>12. <<v, k, d, <<m, n>>>> \in Done(b.tags) /\ <<v, k, d, <<m, n>>>> \notin Done(a.tags)
  BY <1>2, <1>8, <1>9, <1>10, <1>11, InPassRoom
<1> QED
  BY <1>12

-----------------------------------------------------------------------------
(* The loop ends.                                                          *)

\* The ranges stay within the ladder.
InLadder == Narrow(Acc, Ladder)

\* A pass that is over and changed something has covered more; one may be under way,
\* or the last.
PassCount ==
  /\ changed => passes <= Cardinality(Done(tags))
  /\ passes <= Cardinality(Done(tags)) + 1

LEMMA BoundKept ==
  ASSUME UNCHANGED inputs
  PROVE  /\ Ladder' = Ladder /\ TagLimit' = TagLimit /\ OffsetLimit' = OffsetLimit
         /\ PassRoom' = PassRoom /\ Done(tags)' = Done(tags')
<1>1. program' = program /\ functionDepth' = functionDepth
  BY DEF inputs
<1>2. Keyed' = Keyed
  BY <1>1 DEF Keyed, Slots, Seeded, Key
<1>3. Furthest' = Furthest /\ Widest' = Widest
  BY <1>1 DEF Furthest, Shifts, Shift, Widest, Starts
<1>4. Ladder' = Ladder
  BY <1>3 DEF Ladder
<1>5. TagLimit' = TagLimit
  BY <1>2 DEF TagLimit
<1>6. OffsetLimit' = OffsetLimit
  BY <1>4, <1>5 DEF OffsetLimit
<1>7. PassRoom' = PassRoom
  BY <1>1, <1>2, <1>6 DEF PassRoom
<1>8. Done(tags)' = Done(tags')
  BY <1>7 DEF Done, Key
<1> QED
  BY <1>4, <1>5, <1>6, <1>7, <1>8

LEMMA InLadderNext ==
  ASSUME Typed, InLadder, [Next]_vars
  PROVE  Narrow(Acc', Ladder)
<1>1. Limits /\ Proper(Acc) /\ program \in Programs
  BY LimitsHold DEF Typed
<1>2. Ladder \in Ladders /\ Narrow(Acc, Ladder)
  BY <1>1, LadderFacts DEF InLadder
<1>3. CASE Seed
  <2> DEFINE b == SeedAll(Acc, program.seeds)
  <2>1. Seeds(program.seeds)
    BY <1>1, ProgramFacts
  <2>2. Narrow(b, Ladder)
    BY <1>1, <1>2, <2>1, LadderFacts, SeedsNarrow
  <2>3. Proper(b)
    BY <1>1, <2>1, SeedFacts
  <2>4. Commit(b)
    BY <1>3 DEF Seed, SeedAll
  <2> HIDE DEF b
  <2>5. Acc' = b
    BY <2>3, <2>4, CommitIs DEF Proper
  <2> QED
    BY <2>2, <2>5
<1>4. CASE Operate
  <2> DEFINE op == program.ops[next]
             b == Propagate(Acc, op)
  <2>1. next \in DOMAIN program.ops
    BY <1>4, OperateStep
  <2>2. Sensible(op) /\ Climbs(Ladder, op) /\ Length <= Ladder[0]
    BY <1>1, <2>1, ProgramFacts, LadderFacts
  <2>3. Commit(b)
    BY <1>4 DEF Operate
  <2> HIDE DEF op
  <2>4. Narrow(b, Ladder)
    BY <1>1, <1>2, <2>2, PropagateNarrow
  <2>5. Proper(b)
    BY <1>1, <2>2, PropagateFacts
  <2> HIDE DEF b
  <2>6. Acc' = b
    BY <2>3, <2>5, CommitIs DEF Proper
  <2> QED
    BY <2>4, <2>6
<1>5. CASE BlockArguments
  <2> DEFINE b == PropagateBlocks(Acc)
  <2>1. program.blocks \in Seq(Values \X Values)
    BY <1>1, ProgramFacts
  <2>2. Narrow(b, Ladder)
    BY <1>1, <1>2, <2>1, BlocksNarrow
  <2>3. Proper(b)
    BY <1>1, <2>1, BlockFacts
  <2>4. Commit(b)
    BY <1>5 DEF BlockArguments
  <2> HIDE DEF b
  <2>5. Acc' = b
    BY <2>3, <2>4, CommitIs DEF Proper
  <2> QED
    BY <2>2, <2>5
<1>6. CASE BeginPass \/ Converge \/ StopEarly \/ Stop \/ UNCHANGED vars
  <2>1. tags' = tags /\ states' = states
    BY <1>6 DEF BeginPass, Converge, StopEarly, Stop, vars
  <2>2. Acc'.tags = Acc.tags /\ Acc'.states = Acc.states
    BY <2>1 DEF Acc
  <2> QED
    BY <1>2, <2>2 DEF Narrow
<1> QED
  BY <1>3, <1>4, <1>5, <1>6 DEF Next, Step, Terminated

\* What the loop's invariant gives the count.
Ends == LoopInv /\ InLadder /\ PassCount

LEMMA DoneFinite ==
  ASSUME LoopInv
  PROVE  /\ OffsetLimit \in Nat /\ IsFiniteSet(PassRoom) /\ KeyedTags(tags)
         /\ Cardinality(PassRoom) \in Nat
         /\ \A T : IsFiniteSet(Done(T)) /\ Cardinality(Done(T)) \in Nat
                   /\ Cardinality(Done(T)) <= Cardinality(PassRoom)
<1>1. program \in Programs /\ Limits /\ Proper(Acc)
  BY LimitsHold DEF LoopInv, Typed
<1>2. Sound(tags, Reachable)
  BY <1>1, ReachableContains DEF LoopInv, OnlyReached
<1>3. KeyedTags(tags)
  BY <1>1, <1>2, ReachedKeyed
<1>4. Kept(tags)
  BY <1>1, AccIs DEF Proper
<1>5. TagLimit \in Nat
  BY <1>1, <1>3, <1>4, TagsWithin
<1>6. OffsetLimit \in Nat
  BY <1>1, <1>5, OffsetLimitIs
<1>7. IsFiniteSet(PassRoom)
  BY <1>1, <1>6, PassRoomFinite
<1>8. Cardinality(PassRoom) \in Nat
  BY <1>7, FS_CardinalityType
<1>9. ASSUME NEW T
      PROVE  /\ IsFiniteSet(Done(T)) /\ Cardinality(Done(T)) \in Nat
             /\ Cardinality(Done(T)) <= Cardinality(PassRoom)
  <2>1. Done(T) \in SUBSET PassRoom
    BY DEF Done
  <2>2. IsFiniteSet(Done(T)) /\ Cardinality(Done(T)) <= Cardinality(PassRoom)
    BY <1>7, <2>1, FS_Subset
  <2> QED
    BY <2>2, FS_CardinalityType
<1> QED
  BY <1>3, <1>6, <1>7, <1>8, <1>9

LEMMA PassCountNext ==
  ASSUME Ends, [Next]_vars, LoopInv', Narrow(Acc', Ladder)
  PROVE  PassCount'
<1>1. UNCHANGED inputs /\ program \in Programs /\ Limits /\ Typed
  BY ShapeNext, LimitsHold DEF Ends, LoopInv, Typed, Shape
<1>2. Done(tags)' = Done(tags')
  BY <1>1, BoundKept
<1>3. /\ changed => passes <= Cardinality(Done(tags))
      /\ passes <= Cardinality(Done(tags)) + 1
  BY DEF Ends, PassCount
<1>4. \A T : IsFiniteSet(Done(T)) /\ Cardinality(Done(T)) \in Nat
  BY DoneFinite DEF Ends
<1>5. passes \in Nat
  BY <1>1 DEF Typed
<1> DEFINE old == Cardinality(Done(tags))
           new == Cardinality(Done(tags'))
<1>6. SUFFICES /\ changed' => passes' <= new
               /\ passes' <= new + 1
  BY <1>2 DEF PassCount
<1>7. old \in Nat /\ new \in Nat
  BY <1>4
<1>8. CASE BeginPass
  <2>1. changed /\ ~ changed' /\ tags' = tags /\ passes' = passes + 1
    BY <1>8 DEF BeginPass
  <2>2. passes <= old /\ new = old
    BY <1>3, <2>1
  <2> HIDE DEF old, new
  <2>3. passes' <= new + 1
    BY <1>5, <1>7, <2>1, <2>2
  <2> QED
    BY <2>1, <2>3
<1>9. CASE ~ BeginPass
  <2>1. passes' = passes
    BY <1>9 DEF Next, Step, Seed, Operate, BlockArguments, Converge, StopEarly, Stop,
                Terminated, vars
  <2>2. Acc \in Accs /\ Acc' \in Accs /\ Grows(Acc, Acc')
    BY <1>1, <1>9, StepGrows
  <2>3. Acc.tags = tags /\ Acc'.tags = tags' /\ Acc.changed = changed /\ Acc'.changed = changed'
    BY DEF Acc
  <2>4. Done(tags) \subseteq Done(tags')
    BY <2>2, <2>3, DoneGrows
  <2>5. old <= new
    <3>1. Done(tags) \in SUBSET Done(tags')
      BY <2>4
    <3> QED
      BY <1>4, <3>1, FS_Subset
  <2>6. CASE changed' /\ ~ changed
    <3>1. Fresh(Acc.tags, Acc'.tags)
      BY <2>2, <2>3, <2>6 DEF Grows
    <3>2. Proper(Acc')
      <4>1. Proper(Acc)'
        BY DEF LoopInv, Typed
      <4> QED
        BY <1>1, <4>1 DEF Proper, Kept, inputs
    <3>3. KeyedTags(Acc'.tags)
      <4>1. Sound(tags, Reachable) /\ KeepsAll(Reachable)
        BY <1>1, ReachableContains DEF Ends, LoopInv, OnlyReached
      <4>2. Sound(tags', Reachable)
        BY <1>1, <2>3, <4>1, AccNext DEF Added
      <4> QED
        BY <1>1, <2>3, <4>2, ReachedKeyed
    <3>4. PICK x \in Done(tags') : x \notin Done(tags)
      BY <1>1, <2>2, <2>3, <3>1, <3>2, <3>3, DoneFresh
    <3>5. old # new
      BY <1>4, <2>4, <3>4, FS_Subset
    <3> HIDE DEF old, new
    <3>6. passes <= new /\ passes <= new + 1
      BY <1>3, <1>5, <1>7, <2>5, <3>5 DEF old
    <3> QED
      BY <2>1, <3>6
  <2>7. CASE ~ changed'
    <3>1. passes <= old + 1
      BY <1>3
    <3> HIDE DEF old, new
    <3>2. passes <= new + 1
      BY <1>5, <1>7, <2>5, <3>1
    <3> QED
      BY <2>1, <2>7, <3>2
  <2>8. CASE changed
    <3>1. passes <= old
      BY <1>3, <2>8
    <3> HIDE DEF old, new
    <3>2. passes <= new /\ passes <= new + 1
      BY <1>5, <1>7, <2>5, <3>1
    <3> QED
      BY <2>1, <3>2
  <2> QED
    BY <2>6, <2>7, <2>8
<1> QED
  BY <1>8, <1>9

LEMMA EndsHolds == Spec => []Ends
<1>1. Init => Ends
  <2> SUFFICES ASSUME Init
               PROVE  Ends
    OBVIOUS
  <2>1. LoopInv
    BY StartLoopInv
  <2>2. InLadder
    BY DEF Init, InLadder, Narrow, Acc
  <2>3. PassCount
    <3>1. Cardinality(Done(tags)) \in Nat
      BY <2>1, DoneFinite
    <3>2. passes = 0
      BY DEF Init
    <3> QED
      BY <3>1, <3>2 DEF PassCount
  <2> QED
    BY <2>1, <2>2, <2>3 DEF Ends
<1>2. Ends /\ [Next]_vars /\ LoopInv' => Ends'
  <2> SUFFICES ASSUME Ends, [Next]_vars, LoopInv'
               PROVE  Ends'
    OBVIOUS
  <2>1. Typed
    BY DEF Ends, LoopInv
  <2>2. Narrow(Acc', Ladder)
    BY <2>1, InLadderNext DEF Ends
  <2>3. PassCount'
    BY <2>2, PassCountNext
  <2>4. InLadder'
    <3>1. UNCHANGED inputs
      BY <2>1, ShapeNext DEF Typed, Shape
    <3>2. Ladder' = Ladder
      BY <3>1, BoundKept
    <3> QED
      BY <2>2, <3>2 DEF InLadder, Narrow
  <2> QED
    BY <2>3, <2>4 DEF Ends
<1> QED
  BY <1>1, <1>2, LoopInvHolds, PTL DEF Spec

\* There is only so much that tags can be or cover, and each pass but the last adds to
\* what they do.
PassesEnd == IsFiniteSet(PassRoom) /\ passes <= Cardinality(PassRoom) + 1

\* The taint loop ends by itself, for every program and also without max_states: its
\* passes are no more than a number that the program and --function-depth fix, although
\* pointer arithmetic around a loop of the program moves an offset in every pass
\* (directed_flow.cpp:1669-1681, propagate_operation, add_tag).
THEOREM TagPassesEnd == Spec => []PassesEnd
<1>1. Ends => PassesEnd
  <2> SUFFICES ASSUME Ends
               PROVE  PassesEnd
    OBVIOUS
  <2>1. /\ IsFiniteSet(PassRoom) /\ Cardinality(PassRoom) \in Nat
        /\ Cardinality(Done(tags)) \in Nat
        /\ Cardinality(Done(tags)) <= Cardinality(PassRoom)
    BY DoneFinite DEF Ends
  <2>2. passes \in Nat /\ passes <= Cardinality(Done(tags)) + 1
    BY DEF Ends, LoopInv, Typed, PassCount
  <2> DEFINE done == Cardinality(Done(tags))
             room == Cardinality(PassRoom)
  <2> HIDE DEF done, room
  <2>3. passes <= room + 1
    BY <2>1, <2>2 DEF done, room
  <2> QED
    BY <2>1, <2>3 DEF PassesEnd, room
<1> QED
  BY <1>1, EndsHolds, PTL

\* What a step leaves of the tags: each of them, or a tag of its key as shallow and as
\* wide.
TagsKept == \A v \in Values : \A t \in tags[v] : Covered(tags', v, t)

\* No step takes a tag back, makes it deeper or its range narrower, whatever the
\* operation and when the loop is stopped (add_tag, propagate_operation).
THEOREM TagsOnlyGrow == Spec => [][TagsKept]_vars
<1>1. Typed /\ [Next]_vars => [TagsKept]_vars
  <2> SUFFICES ASSUME Typed, [Next]_vars
               PROVE  TagsKept
    OBVIOUS
  <2>1. Acc \in Accs /\ Acc.tags = tags /\ Acc'.tags = tags'
    BY DEF Typed, Proper, Acc
  <2>2. CASE ~ BeginPass
    BY <2>1, <2>2, StepGrows DEF Grows, TagsKept
  <2>3. CASE BeginPass
    <3>1. tags' = tags
      BY <2>3 DEF BeginPass
    <3> QED
      BY <2>1, <3>1, GrowsSelf DEF Grows, TagsKept
  <2> QED
    BY <2>2, <2>3
<1> QED
  BY <1>1, TypedHolds, PTL DEF Spec
=============================================================================
