------------------------- MODULE TagPropagationProofs -------------------------
(***************************************************************************)
(* Proofs about TagPropagation, for every program, call depth and limit.   *)
(* The folds of the model are reasoned about through the sequence of       *)
(* accumulators they go through (FoldExists, FoldTyped, FoldOrdered).      *)
(***************************************************************************)
EXTENDS TagPropagation, FiniteSetTheorems, NaturalsInduction, TLAPS

-----------------------------------------------------------------------------
(* Natural numbers, finite sets and folds.                                 *)

\* A set of natural numbers that is not empty has a least element.
LEMMA LeastNatural ==
  ASSUME NEW T \in SUBSET Nat, T # {}
  PROVE  \E n \in T : \A m \in T : n <= m
<1>1. PICK n \in T : \A m \in T : <<m, n>> \notin OpToRel(<, Nat)
  <2>1. IsWellFoundedOn(OpToRel(<, Nat), Nat)
    BY NatLessThanWellFounded
  <2> QED
    BY <2>1, WFMin
<1>2. ASSUME NEW m \in T PROVE n <= m
  <2>1. ~(m < n)
    BY <1>1 DEF OpToRel
  <2> QED
    BY <2>1
<1> QED
  BY <1>2

\* Induction over the numbers, for a set of numbers.
LEMMA NaturalsOf ==
  ASSUME NEW Q, 0 \in Q, \A n \in Nat : n \in Q => n + 1 \in Q
  PROVE  Nat \subseteq Q
<1> DEFINE bad == Nat \ Q
<1> SUFFICES ASSUME bad # {} PROVE FALSE
  OBVIOUS
<1>1. PICK n \in bad : \A m \in bad : n <= m
  <2>1. bad \in SUBSET Nat
    OBVIOUS
  <2> HIDE DEF bad
  <2> QED
    BY <2>1, LeastNatural
<1>2. n \in Nat /\ n # 0 /\ n \notin Q
  OBVIOUS
<1>3. n - 1 \in Nat /\ n - 1 \notin bad /\ (n - 1) + 1 = n
  <2> HIDE DEF bad
  <2> QED
    BY <1>1, <1>2
<1> QED
  BY <1>2, <1>3

\* Induction over the subsets of a finite set, for a set of subsets.
LEMMA SubsetsOf ==
  ASSUME NEW S, IsFiniteSet(S), NEW Q, {} \in Q,
         \A s \in SUBSET S : s # {} => \E x \in s : s \ {x} \in Q => s \in Q
  PROVE  SUBSET S \subseteq Q
<1> DEFINE N == {n \in Nat : \A s \in SUBSET S : Cardinality(s) = n => s \in Q}
<1>1. \A s \in SUBSET S : IsFiniteSet(s) /\ Cardinality(s) \in Nat
  BY FS_Subset, FS_CardinalityType
<1>2. 0 \in N
  BY <1>1, FS_EmptySet
<1>3. ASSUME NEW n \in Nat, n \in N PROVE n + 1 \in N
  <2> SUFFICES ASSUME NEW s \in SUBSET S, Cardinality(s) = n + 1 PROVE s \in Q
    OBVIOUS
  <2>1. s # {}
    BY FS_EmptySet
  <2>2. PICK x \in s : s \ {x} \in Q => s \in Q
    BY <2>1
  <2>3. s \ {x} \in SUBSET S /\ Cardinality(s \ {x}) = n
    <3>1. IsFiniteSet(s)
      BY <1>1
    <3>2. Cardinality(s \ {x}) = Cardinality(s) - 1
      BY <3>1, FS_RemoveElement
    <3> QED
      BY <3>2
  <2> QED
    BY <1>3, <2>2, <2>3
<1> HIDE DEF N
<1>4. Nat \subseteq N
  BY <1>2, <1>3, NaturalsOf
<1> QED
  BY <1>1, <1>4 DEF N

LEMMA ImageFinite ==
  ASSUME NEW S, IsFiniteSet(S), NEW f
  PROVE  IsFiniteSet({f[x] : x \in S})
<1> DEFINE T == {f[x] : x \in S}
           g == [x \in S |-> f[x]]
<1>1. g \in Surjection(S, T)
  BY DEF Surjection
<1> QED
  BY <1>1, FS_Surjection

\* The recursion that a fold over the set S is: pick chooses the element that is
\* taken next, F[<<x, a>>] is what becomes of the accumulator a.
FoldData(S, P, base, pick, F) ==
  /\ IsFiniteSet(S) /\ base \in P
  /\ \A s \in SUBSET S : s # {} => pick[s] \in s
  /\ \A x \in S, a \in P : F[<<x, a>>] \in P

FoldSolved(S, P, base, pick, F) ==
  \E f \in [SUBSET S -> P] :
    /\ f[{}] = base
    /\ \A s \in SUBSET S : s # {} => f[s] = F[<<pick[s], f[s \ {pick[s]}]>>]

\* A recursion over the subsets of a finite set has a solution.
LEMMA FoldExists ==
  ASSUME NEW S, NEW P, NEW base, NEW pick, NEW F, FoldData(S, P, base, pick, F)
  PROVE  FoldSolved(S, P, base, pick, F)
<1> USE DEF FoldData, FoldSolved
<1> DEFINE Small(n) == {s \in SUBSET S : Cardinality(s) <= n}
           Solves(f, n) == /\ f \in [Small(n) -> P]
                           /\ f[{}] = base
                           /\ \A s \in Small(n) :
                                s # {} => f[s] = F[<<pick[s], f[s \ {pick[s]}]>>]
           N == {n \in Nat : \E f : Solves(f, n)}
<1>1. \A s \in SUBSET S : IsFiniteSet(s) /\ Cardinality(s) \in Nat
  BY FS_Subset, FS_CardinalityType
<1>2. 0 \in N
  <2> DEFINE f == [s \in Small(0) |-> base]
  <2>1. \A s \in Small(0) : s = {}
    BY <1>1, FS_EmptySet
  <2>2. {} \in Small(0)
    BY FS_EmptySet
  <2>3. Solves(f, 0)
    BY <2>1, <2>2
  <2> HIDE DEF Solves, f
  <2> QED
    BY <2>3
<1>3. ASSUME NEW n \in Nat, n \in N PROVE n + 1 \in N
  <2>1. PICK f : Solves(f, n)
    BY <1>3
  <2> DEFINE g == [s \in Small(n + 1) |->
                     IF s = {} THEN base ELSE F[<<pick[s], f[s \ {pick[s]}]>>]]
  <2>2. ASSUME NEW s \in Small(n + 1), s # {}
        PROVE  /\ pick[s] \in S /\ s \ {pick[s]} \in Small(n) /\ s \ {pick[s]} \in Small(n + 1)
               /\ g[s \ {pick[s]}] = f[s \ {pick[s]}]
    <3>1. pick[s] \in s
      BY <2>2
    <3>2. Cardinality(s \ {pick[s]}) = Cardinality(s) - 1
      BY <1>1, <3>1, FS_RemoveElement
    <3>3. s \ {pick[s]} \in Small(n) /\ s \ {pick[s]} \in Small(n + 1)
      BY <1>1, <3>2
    <3>4. g[s \ {pick[s]}] = f[s \ {pick[s]}]
      BY <2>1, <3>3
    <3> QED
      BY <3>1, <3>3, <3>4
  <2>3. {} \in Small(n + 1)
    BY FS_EmptySet
  <2>4. g \in [Small(n + 1) -> P]
    BY <2>1, <2>2
  <2>5. Solves(g, n + 1)
    <3> HIDE DEF Small
    <3>1. g[{}] = base
      BY <2>3
    <3>2. \A s \in Small(n + 1) : s # {} => g[s] = F[<<pick[s], f[s \ {pick[s]}]>>]
      OBVIOUS
    <3> HIDE DEF g
    <3> QED
      BY <2>2, <2>4, <3>1, <3>2
  <2> HIDE DEF Solves, g
  <2> QED
    BY <2>5
<1> HIDE DEF N
<1>4. Cardinality(S) \in N
  BY <1>1, <1>2, <1>3, NaturalsOf
<1>5. PICK f : Solves(f, Cardinality(S))
  BY <1>4 DEF N
<1>6. Small(Cardinality(S)) = SUBSET S
  BY FS_Subset
<1> HIDE DEF Small
<1> QED
  BY <1>5, <1>6


\* g follows the recursion as long as it stays in P.
FoldFollowed(S, P, base, pick, F, g) ==
  /\ g[{}] = base
  /\ \A s \in SUBSET S : s # {} /\ g[s \ {pick[s]}] \in P =>
       g[s] = F[<<pick[s], g[s \ {pick[s]}]>>]

\* What follows the recursion from accumulators of P stays in P.
LEMMA FoldTyped ==
  ASSUME NEW S, NEW P, NEW base, NEW pick, NEW F, FoldData(S, P, base, pick, F),
         NEW g, FoldFollowed(S, P, base, pick, F, g)
  PROVE  \A s \in SUBSET S : g[s] \in P
<1> USE DEF FoldFollowed
<1> DEFINE Q == {s \in SUBSET S : g[s] \in P}
<1>1. {} \in Q
  BY DEF FoldData
<1>2. \A s \in SUBSET S : s # {} => \E x \in s : s \ {x} \in Q => s \in Q
  <2> SUFFICES ASSUME NEW s \in SUBSET S, s # {}
               PROVE  \E x \in s : s \ {x} \in Q => s \in Q
    OBVIOUS
  <2>1. pick[s] \in s /\ pick[s] \in S
    BY DEF FoldData
  <2>2. s \ {pick[s]} \in Q => s \in Q
    BY <2>1 DEF FoldData
  <2> QED
    BY <2>1, <2>2
<1> HIDE DEF Q
<1>3. IsFiniteSet(S)
  BY DEF FoldData
<1>4. SUBSET S \subseteq Q
  BY <1>1, <1>2, <1>3, SubsetsOf
<1> QED
  BY <1>4 DEF Q

\* The largest element of a set of numbers that has a bound.
LEMMA LargestNatural ==
  ASSUME NEW n \in Nat, NEW T \in SUBSET (0 .. n), T # {}
  PROVE  Max(T) \in T /\ \A m \in T : m <= Max(T)
<1> DEFINE R == {m \in Nat : m <= n /\ n - m \in T}
<1>1. R # {}
  <2>1. PICK t \in T : TRUE
    OBVIOUS
  <2>2. n - t \in Nat /\ n - t <= n /\ n - (n - t) = t
    OBVIOUS
  <2> QED
    BY <2>1, <2>2
<1>2. PICK r \in R : \A m \in R : r <= m
  <2>1. R \in SUBSET Nat
    OBVIOUS
  <2> HIDE DEF R
  <2> QED
    BY <1>1, <2>1, LeastNatural
<1>3. r \in Nat /\ r <= n /\ n - r \in T
  BY <1>2
<1>4. ASSUME NEW m \in T PROVE m <= n - r
  <2>1. m \in Nat /\ m <= n /\ n - m \in Nat /\ n - m <= n /\ n - (n - m) = m
    OBVIOUS
  <2>2. n - m \in R
    BY <2>1
  <2>3. r <= n - m
    BY <1>2, <2>2
  <2> QED
    BY <1>3, <2>1, <2>3
<1> DEFINE best == n - r
<1>5. best \in T /\ \A m \in T : best >= m
  BY <1>3, <1>4
<1> HIDE DEF best, R
<1>6. \E x \in T : \A y \in T : x >= y
  BY <1>5
<1>7. Max(T) \in T /\ \A y \in T : Max(T) >= y
  BY <1>6 DEF Max
<1>8. \A y \in T : y \in Nat
  OBVIOUS
<1> QED
  BY <1>7, <1>8

LEMMA MinMaxOfTwo ==
  ASSUME NEW a \in Int, NEW b \in Int
  PROVE  /\ Min({a, b}) = IF a <= b THEN a ELSE b
         /\ Max({a, b}) = IF a <= b THEN b ELSE a
<1>1. \E x \in {a, b} : \A y \in {a, b} : x <= y
  OBVIOUS
<1>2. Min({a, b}) \in {a, b} /\ \A y \in {a, b} : Min({a, b}) <= y
  BY <1>1 DEF Min
<1>3. \E x \in {a, b} : \A y \in {a, b} : x >= y
  OBVIOUS
<1>4. Max({a, b}) \in {a, b} /\ \A y \in {a, b} : Max({a, b}) >= y
  BY <1>3 DEF Max
<1> QED
  BY <1>2, <1>4

-----------------------------------------------------------------------------
(* Tags and their merge.                                                   *)

LEMMA Constants ==
  /\ IsFiniteSet(Values) /\ Depths \subseteq Nat /\ StateLimits \subseteq Nat
  /\ Length \in Nat \ {0} /\ Width \in Nat \ {0}
BY TagAssumption DEF TagAssumption

LEMMA ValuesFinite == IsFiniteSet(Values)
BY Constants

LEMMA TagFields ==
  ASSUME NEW t \in Tag
  PROVE  /\ t.source \in Nat /\ t.form \in Forms /\ t.storage \in BOOLEAN
         /\ t.at \in SUBSET Int /\ t.begin \in Nat /\ t.end \in Nat
         /\ t.exact \in BOOLEAN /\ t.depth \in Nat
BY DEF Tag

\* Two tags agree in everything but the exactness, which the second may lack.
Like(t, u) ==
  /\ Key(t) = Key(u) /\ t.begin = u.begin /\ t.end = u.end /\ t.depth = u.depth
  /\ u.exact => t.exact

\* The second tag is the first one's, as shallow and as wide.
Covers(t, u) ==
  /\ Key(t) = Key(u) /\ u.depth <= t.depth /\ u.begin <= t.begin /\ t.end <= u.end

LEMMA MergeFacts ==
  ASSUME NEW old \in Tag, NEW t \in Tag, Key(old) = Key(t)
  PROVE  LET new == Merge(old, t)
         IN  /\ new \in Tag /\ Key(new) = Key(t)
             /\ Covers(old, new) /\ Covers(t, new)
             /\ new.depth = old.depth \/ new.depth = t.depth
             /\ Moved(old, new) \/ Like(old, new)
             /\ Moved(old, new) => ~ Covers(new, old)
             /\ new.begin <= old.begin /\ (new.end = old.end \/ new.end = t.end)
<1> DEFINE new == Merge(old, t)
           begin == Min({old.begin, t.begin})
           end == Max({old.end, t.end})
           depth == Min({old.depth, t.depth})
           exact == old.exact /\ t.exact /\ begin = end
<1>1. /\ begin = IF old.begin <= t.begin THEN old.begin ELSE t.begin
      /\ end = IF old.end <= t.end THEN t.end ELSE old.end
      /\ depth = IF old.depth <= t.depth THEN old.depth ELSE t.depth
  <2>1. \A x \in {old, t} : x.begin \in Int /\ x.end \in Int /\ x.depth \in Int
    BY TagFields
  <2>2. begin = IF old.begin <= t.begin THEN old.begin ELSE t.begin
    BY <2>1, MinMaxOfTwo
  <2>3. end = IF old.end <= t.end THEN t.end ELSE old.end
    BY <2>1, MinMaxOfTwo
  <2>4. depth = IF old.depth <= t.depth THEN old.depth ELSE t.depth
    BY <2>1, MinMaxOfTwo
  <2> QED
    BY <2>2, <2>3, <2>4
<1>2. exact \in BOOLEAN
  OBVIOUS
<1>3. new = [old EXCEPT !.begin = begin, !.end = end, !.depth = depth, !.exact = exact]
  BY DEF Merge
<1> HIDE DEF begin, end, depth, exact, new
<1>4. begin \in Nat /\ end \in Nat /\ depth \in Nat
  BY <1>1, TagFields
<1>5. /\ new \in Tag
      /\ new.begin = begin /\ new.end = end /\ new.depth = depth /\ new.exact = exact
      /\ new.source = old.source /\ new.form = old.form /\ new.storage = old.storage
      /\ new.at = old.at
  BY <1>2, <1>3, <1>4 DEF Tag
<1>6. Key(new) = Key(old)
  BY <1>5 DEF Key
<1>7. new.depth = old.depth \/ new.depth = t.depth
  BY <1>1, <1>5
<1>8. Covers(old, new) /\ Covers(t, new)
  BY <1>1, <1>5, <1>6, TagFields DEF Covers
<1>9. new.exact => old.exact
  BY <1>5 DEF exact
<1>10. Moved(old, new) \/ Like(old, new)
  BY <1>6, <1>9 DEF Moved, Like
<1>11. new.begin <= old.begin /\ old.end <= new.end /\ new.depth <= old.depth
       /\ (new.end = old.end \/ new.end = t.end)
  BY <1>1, <1>5, TagFields
<1>12. Moved(old, new) => ~ Covers(new, old)
  <2>1. \A x \in {old, new} : x.begin \in Nat /\ x.end \in Nat /\ x.depth \in Nat
    BY <1>5, TagFields
  <2> QED
    BY <1>11, <2>1 DEF Moved, Covers
<1> QED
  BY <1>5, <1>6, <1>7, <1>8, <1>10, <1>11, <1>12 DEF new



-----------------------------------------------------------------------------
(* The number of tags.                                                     *)

Total(T) == FoldSet(LAMBDA v, n : n + Cardinality(T[v]), 0, Values)

LEMMA ValueSets ==
  ASSUME NEW Q, {} \in Q,
         \A s \in SUBSET Values : s # {} => \E x \in s : s \ {x} \in Q => s \in Q
  PROVE  SUBSET Values \subseteq Q
BY ValuesFinite, SubsetsOf, ZenonT(30)

LEMMA TotalSteps ==
  ASSUME NEW T, \A v \in Values : Cardinality(T[v]) \in Nat
  PROVE  \E f \in [SUBSET Values -> Nat] :
           /\ f[{}] = 0 /\ f[Values] = Total(T)
           /\ \A s \in SUBSET Values : s # {} =>
                f[s] = f[s \ {CHOOSE x \in s : TRUE}] + Cardinality(T[CHOOSE x \in s : TRUE])
<1> DEFINE Body(f) == [s \in SUBSET Values |->
             IF s = {} THEN 0
             ELSE f[s \ {CHOOSE x \in s : TRUE}] + Cardinality(T[CHOOSE x \in s : TRUE])]
           pick == [s \in SUBSET Values |-> CHOOSE x \in s : TRUE]
           F == [q \in Values \X Nat |-> q[2] + Cardinality(T[q[1]])]
<1>1. \A s \in SUBSET Values : s # {} => pick[s] \in s
  OBVIOUS
<1>2. \A x \in Values, a \in Nat : F[<<x, a>>] = a + Cardinality(T[x]) /\ F[<<x, a>>] \in Nat
  OBVIOUS
<1> HIDE DEF F, pick
<1>3. PICK f \in [SUBSET Values -> Nat] :
        /\ f[{}] = 0
        /\ \A s \in SUBSET Values : s # {} => f[s] = F[<<pick[s], f[s \ {pick[s]}]>>]
  <2>1. FoldData(Values, Nat, 0, pick, F)
    BY <1>1, <1>2, ValuesFinite DEF FoldData
  <2>2. FoldSolved(Values, Nat, 0, pick, F)
    BY <2>1, FoldExists
  <2> QED
    BY <2>2 DEF FoldSolved
<1>4. ASSUME NEW s \in SUBSET Values, s # {}
      PROVE  f[s] = f[s \ {CHOOSE x \in s : TRUE}] + Cardinality(T[CHOOSE x \in s : TRUE])
  <2>1. pick[s] \in Values /\ f[s \ {pick[s]}] \in Nat /\ pick[s] = CHOOSE x \in s : TRUE
    BY <1>1, <1>4 DEF pick
  <2>2. f[s] = f[s \ {pick[s]}] + Cardinality(T[pick[s]])
    BY <1>2, <1>3, <1>4, <2>1
  <2> QED
    BY <2>1, <2>2
<1>5. f = Body(f)
  <2>1. f = [s \in SUBSET Values |-> f[s]]
    OBVIOUS
  <2>2. \A s \in SUBSET Values : f[s] = IF s = {} THEN 0
             ELSE f[s \ {CHOOSE x \in s : TRUE}] + Cardinality(T[CHOOSE x \in s : TRUE])
    BY <1>3, <1>4
  <2> QED
    BY <2>1, <2>2
<1> DEFINE g == CHOOSE h : h = Body(h)
<1>6. g = Body(g)
  BY <1>5
<1>7. Total(T) = g[Values]
  BY DEF Total, FoldSet, MapThenFoldSet
<1> HIDE DEF g
<1>8. DOMAIN g = SUBSET Values /\ g[{}] = 0
  BY <1>6
<1>9. \A s \in SUBSET Values : s # {} =>
        g[s] = g[s \ {CHOOSE x \in s : TRUE}] + Cardinality(T[CHOOSE x \in s : TRUE])
  BY <1>6
<1>10. g \in [SUBSET Values -> Nat]
  <2> DEFINE Q == {s \in SUBSET Values : g[s] \in Nat}
  <2>1. {} \in Q
    BY <1>8
  <2>2. \A s \in SUBSET Values : s # {} => \E x \in s : s \ {x} \in Q => s \in Q
    <3> SUFFICES ASSUME NEW s \in SUBSET Values, s # {}
                 PROVE  \E x \in s : s \ {x} \in Q => s \in Q
      OBVIOUS
    <3> DEFINE x == CHOOSE x \in s : TRUE
    <3>1. x \in s /\ x \in Values
      OBVIOUS
    <3>2. g[s] = g[s \ {x}] + Cardinality(T[x])
      BY <1>9
    <3> HIDE DEF x
    <3>3. s \ {x} \in Q => s \in Q
      BY <3>1, <3>2
    <3> QED
      BY <3>1, <3>3
  <2> HIDE DEF Q
  <2>3. SUBSET Values \subseteq Q
    BY <2>1, <2>2, ValueSets
  <2>4. \A s \in SUBSET Values : g[s] \in Nat
    BY <2>3 DEF Q
  <2>5. g = [s \in SUBSET Values |-> g[s]]
    BY <1>6
  <2> QED
    BY <2>4, <2>5
<1> QED
  BY <1>7, <1>8, <1>9, <1>10

\* The number of tags follows the change of one value's.
LEMMA TotalAdds ==
  ASSUME NEW T, \A v \in Values : Cardinality(T[v]) \in Nat,
         NEW value \in Values, NEW d \in Nat,
         NEW U, Cardinality(U[value]) = Cardinality(T[value]) + d,
         \A v \in Values \ {value} : U[v] = T[v]
  PROVE  Total(T) \in Nat /\ Total(U) = Total(T) + d
<1>1. PICK f \in [SUBSET Values -> Nat] :
        /\ f[{}] = 0 /\ f[Values] = Total(T)
        /\ \A s \in SUBSET Values : s # {} =>
             f[s] = f[s \ {CHOOSE x \in s : TRUE}] + Cardinality(T[CHOOSE x \in s : TRUE])
  BY TotalSteps
<1>2. \A v \in Values : Cardinality(U[v]) \in Nat
  OBVIOUS
<1>3. PICK g \in [SUBSET Values -> Nat] :
        /\ g[{}] = 0 /\ g[Values] = Total(U)
        /\ \A s \in SUBSET Values : s # {} =>
             g[s] = g[s \ {CHOOSE x \in s : TRUE}] + Cardinality(U[CHOOSE x \in s : TRUE])
  BY <1>2, TotalSteps
<1> DEFINE Q == {s \in SUBSET Values : g[s] = f[s] + (IF value \in s THEN d ELSE 0)}
<1>4. {} \in Q
  BY <1>1, <1>3
<1>5. \A s \in SUBSET Values : s # {} => \E x \in s : s \ {x} \in Q => s \in Q
  <2> SUFFICES ASSUME NEW s \in SUBSET Values, s # {}
               PROVE  \E x \in s : s \ {x} \in Q => s \in Q
    OBVIOUS
  <2> DEFINE x == CHOOSE x \in s : TRUE
  <2>1. x \in s /\ x \in Values
    OBVIOUS
  <2>2. f[s] = f[s \ {x}] + Cardinality(T[x]) /\ g[s] = g[s \ {x}] + Cardinality(U[x])
    BY <1>1, <1>3
  <2> HIDE DEF x
  <2>3. /\ s \ {x} \in SUBSET Values /\ f[s \ {x}] \in Nat /\ g[s \ {x}] \in Nat
        /\ Cardinality(T[x]) \in Nat /\ Cardinality(U[x]) \in Nat
    BY <1>2, <2>1
  <2>4. ASSUME s \ {x} \in Q PROVE s \in Q
    <3>1. CASE x = value
      <4>1. g[s \ {x}] = f[s \ {x}] /\ value \in s
        BY <2>1, <2>3, <2>4, <3>1
      <4> QED
        BY <2>2, <2>3, <3>1, <4>1
    <3>2. CASE x # value
      <4>1. g[s \ {x}] = f[s \ {x}] + (IF value \in s THEN d ELSE 0) /\ U[x] = T[x]
        BY <2>1, <2>4, <3>2
      <4> QED
        BY <2>2, <2>3, <4>1
    <3> QED
      BY <3>1, <3>2
  <2> QED
    BY <2>1, <2>4
<1> HIDE DEF Q
<1>6. SUBSET Values \subseteq Q
  BY <1>4, <1>5, ValueSets
<1>7. Values \in Q
  BY <1>6
<1> QED
  BY <1>1, <1>3, <1>7 DEF Q

-----------------------------------------------------------------------------
(* Accumulators and what adding a tag does to them.                        *)

Limits == functionDepth \in Nat /\ maxStates \in Nat

Accs == [tags : [Values -> SUBSET Tag], states : Nat, changed : BOOLEAN, deepest : Nat]

\* What holds of the tags: finitely many, one per key, within the call depth.
Kept(T) ==
  \A v \in Values :
    /\ IsFiniteSet(T[v])
    /\ \A t, u \in T[v] : Key(t) = Key(u) => t = u
    /\ \A t \in T[v] : t.depth <= functionDepth

Proper(a) ==
  /\ a \in Accs /\ Kept(a.tags)
  /\ a.deepest <= functionDepth
  /\ a.states = Total(a.tags)
  /\ maxStates # 0 => a.states <= maxStates

Room(a) == maxStates # 0 => a.states < maxStates

\* The tag t, or a better one of its key, is among the tags of v.
Covered(T, v, t) == \E u \in T[v] : Covers(t, u)

\* The tags agree but for the exactness, which may be lost.
Same(T, U) ==
  \A v \in Values : /\ \A t \in T[v] : \E u \in U[v] : Like(t, u)
                    /\ \A u \in U[v] : \E t \in T[v] : Like(t, u)

\* A tag of U is new to T, or better than what T has of its key.
Fresh(T, U) == \E v \in Values : \E u \in U[v] : ~ Covered(T, v, u)

\* Nothing gets lost; that something changed is told exactly if it is not as it was.
Grows(a, b) ==
  /\ a.states <= b.states /\ (a.changed => b.changed)
  /\ b.changed => a.changed \/ Fresh(a.tags, b.tags)
  /\ \A v \in Values : \A t \in a.tags[v] : Covered(b.tags, v, t)
  /\ ~ b.changed => a.states = b.states /\ Same(a.tags, b.tags)

\* Two tags have one key and one depth.
Level(t, u) == Key(t) = Key(u) /\ t.depth = u.depth

\* A bound for the ranges of the tags that rises with their number: a range of which
\* the tag is there stays, one that comes with another tag may be a step further.
Ladders == {L \in [Nat -> Nat] : \A m, n \in Nat : m <= n => L[m] <= L[n]}
Narrow(a, L) ==
  \A v \in Values : \A t \in a.tags[v] : t.begin <= L[a.states] /\ t.end <= L[a.states + 1]
Fits(a, L, these) ==
  \A t \in these : t.begin <= L[a.states + 1] /\ t.end <= L[a.states + 1]

\* From a to b, the tags these were added to value, and no others.
Adds(a, b, value, these) ==
  /\ Proper(b) /\ Grows(a, b)
  /\ \A L \in Ladders : Narrow(a, L) /\ Fits(a, L, these) => Narrow(b, L)
  /\ Room(b) => \A t \in these : Covered(b.tags, value, t)
  /\ \A v \in Values : \A u \in b.tags[v] :
       \/ \E t \in a.tags[v] : Level(t, u)
       \/ v = value /\ \E t \in these : Level(t, u)

LEMMA AccFields ==
  ASSUME NEW a \in Accs
  PROVE  /\ a.tags \in [Values -> SUBSET Tag] /\ a.states \in Nat
         /\ a.changed \in BOOLEAN /\ a.deepest \in Nat
BY DEF Accs

LEMMA CoversSelf ==
  ASSUME NEW t \in Tag
  PROVE  Covers(t, t) /\ Like(t, t) /\ Level(t, t)
BY TagFields DEF Covers, Like, Level

LEMMA CoversTransitive ==
  ASSUME NEW t \in Tag, NEW u \in Tag, NEW w \in Tag, Covers(t, u), Covers(u, w)
  PROVE  Covers(t, w)
<1>1. \A x \in {t, u, w} : x.depth \in Nat /\ x.begin \in Nat /\ x.end \in Nat
  BY TagFields
<1> QED
  BY <1>1 DEF Covers

LEMMA LikeTransitive ==
  ASSUME NEW t, NEW u, NEW w, Like(t, u), Like(u, w)
  PROVE  Like(t, w)
BY DEF Like

LEMMA SameSelf ==
  ASSUME NEW T \in [Values -> SUBSET Tag]
  PROVE  Same(T, T)
<1>1. \A v \in Values : \A t \in T[v] : Like(t, t)
  BY CoversSelf
<1> QED
  BY <1>1 DEF Same

LEMMA SameTransitive ==
  ASSUME NEW T, NEW U, NEW W, Same(T, U), Same(U, W)
  PROVE  Same(T, W)
<1> SUFFICES ASSUME NEW v \in Values
             PROVE  /\ \A t \in T[v] : \E w \in W[v] : Like(t, w)
                    /\ \A w \in W[v] : \E t \in T[v] : Like(t, w)
  BY DEF Same
<1>1. ASSUME NEW t \in T[v] PROVE \E w \in W[v] : Like(t, w)
  <2>1. PICK u \in U[v] : Like(t, u)
    BY DEF Same
  <2>2. PICK w \in W[v] : Like(u, w)
    BY DEF Same
  <2> QED
    BY <2>1, <2>2, LikeTransitive
<1>2. ASSUME NEW w \in W[v] PROVE \E t \in T[v] : Like(t, w)
  <2>1. PICK u \in U[v] : Like(u, w)
    BY DEF Same
  <2>2. PICK t \in T[v] : Like(t, u)
    BY DEF Same
  <2> QED
    BY <2>1, <2>2, LikeTransitive
<1> QED
  BY <1>1, <1>2

LEMMA GrowsSelf ==
  ASSUME NEW a \in Accs
  PROVE  Grows(a, a)
<1>1. \A v \in Values : \A t \in a.tags[v] : Covered(a.tags, v, t)
  BY AccFields, CoversSelf DEF Covered
<1>2. Same(a.tags, a.tags)
  BY AccFields, SameSelf
<1>3. a.states <= a.states
  BY AccFields
<1> QED
  BY <1>1, <1>2, <1>3 DEF Grows

\* What is new to T stays new to it when more is added.
LEMMA FreshGrows ==
  ASSUME NEW T \in [Values -> SUBSET Tag], NEW b \in Accs, NEW c \in Accs, Grows(b, c),
         Fresh(T, b.tags)
  PROVE  Fresh(T, c.tags)
<1>1. PICK v \in Values : \E u \in b.tags[v] : ~ Covered(T, v, u)
  BY DEF Fresh
<1>2. PICK u \in b.tags[v] : ~ Covered(T, v, u)
  BY <1>1
<1>3. PICK w \in c.tags[v] : Covers(u, w)
  BY <1>2 DEF Grows, Covered
<1>4. u \in Tag /\ w \in Tag /\ \A t \in T[v] : t \in Tag
  BY <1>2, <1>3, AccFields
<1>5. ~ Covered(T, v, w)
  BY <1>2, <1>3, <1>4, CoversTransitive DEF Covered
<1> QED
  BY <1>3, <1>5 DEF Fresh

\* What is new to b is new to what b was made of.
LEMMA FreshBefore ==
  ASSUME NEW a \in Accs, NEW b \in Accs, Grows(a, b), NEW U \in [Values -> SUBSET Tag],
         Fresh(b.tags, U)
  PROVE  Fresh(a.tags, U)
<1>1. PICK v \in Values : \E u \in U[v] : ~ Covered(b.tags, v, u)
  BY DEF Fresh
<1>2. PICK u \in U[v] : ~ Covered(b.tags, v, u)
  BY <1>1
<1>3. u \in Tag
  BY <1>2
<1>4. ASSUME Covered(a.tags, v, u) PROVE FALSE
  <2>1. PICK t \in a.tags[v] : Covers(u, t)
    BY <1>4 DEF Covered
  <2>2. PICK w \in b.tags[v] : Covers(t, w)
    BY DEF Grows, Covered
  <2>3. t \in Tag /\ w \in Tag
    BY AccFields
  <2>4. Covers(u, w)
    BY <1>3, <2>1, <2>2, <2>3, CoversTransitive
  <2> QED
    BY <1>2, <2>4 DEF Covered
<1> QED
  BY <1>2, <1>4 DEF Fresh

LEMMA GrowsTransitive ==
  ASSUME NEW a \in Accs, NEW b \in Accs, NEW c \in Accs, Grows(a, b), Grows(b, c)
  PROVE  Grows(a, c)
<1>1. a.states <= c.states
  BY AccFields DEF Grows
<1>2. a.changed => c.changed
  BY DEF Grows
<1>3. ASSUME NEW v \in Values, NEW t \in a.tags[v] PROVE Covered(c.tags, v, t)
  <2>1. PICK u \in b.tags[v] : Covers(t, u)
    BY DEF Grows, Covered
  <2>2. PICK w \in c.tags[v] : Covers(u, w)
    BY DEF Grows, Covered
  <2>3. t \in Tag /\ u \in Tag /\ w \in Tag
    BY AccFields
  <2> QED
    BY <2>1, <2>2, <2>3, CoversTransitive DEF Covered
<1>4. ASSUME ~ c.changed PROVE a.states = c.states /\ Same(a.tags, c.tags)
  BY <1>4, SameTransitive DEF Grows
<1>5. ASSUME c.changed, ~ a.changed PROVE Fresh(a.tags, c.tags)
  <2>1. CASE b.changed
    <3>1. Fresh(a.tags, b.tags)
      BY <1>5, <2>1 DEF Grows
    <3>2. a.tags \in [Values -> SUBSET Tag]
      BY AccFields
    <3> QED
      BY <3>1, <3>2, FreshGrows
  <2>2. CASE ~ b.changed
    <3>1. Fresh(b.tags, c.tags)
      BY <1>5, <2>2 DEF Grows
    <3>2. c.tags \in [Values -> SUBSET Tag]
      BY AccFields
    <3> QED
      BY <3>1, <3>2, FreshBefore
  <2> QED
    BY <2>1, <2>2
<1> QED
  BY <1>1, <1>2, <1>3, <1>4, <1>5 DEF Grows

\* What was covered stays covered.
LEMMA CoveredGrows ==
  ASSUME NEW a \in Accs, NEW b \in Accs, Grows(a, b), NEW v \in Values, NEW t \in Tag,
         Covered(a.tags, v, t)
  PROVE  Covered(b.tags, v, t)
<1>1. PICK u \in a.tags[v] : Covers(t, u)
  BY DEF Covered
<1>2. PICK w \in b.tags[v] : Covers(u, w)
  BY DEF Grows, Covered
<1>3. u \in Tag /\ w \in Tag
  BY AccFields
<1> QED
  BY <1>1, <1>2, <1>3, CoversTransitive DEF Covered

\* What fits fits later.
LEMMA FitsLater ==
  ASSUME NEW a \in Accs, NEW b \in Accs, Grows(a, b), NEW L \in Ladders,
         NEW these \in SUBSET Tag, Fits(a, L, these)
  PROVE  Fits(b, L, these)
<1> SUFFICES ASSUME NEW t \in these
             PROVE  t.begin <= L[b.states + 1] /\ t.end <= L[b.states + 1]
  BY DEF Fits
<1>1. a.states \in Nat /\ b.states \in Nat /\ a.states <= b.states
  BY AccFields DEF Grows
<1> DEFINE m == a.states + 1
           n == b.states + 1
<1>2. m \in Nat /\ n \in Nat /\ m <= n
  BY <1>1
<1>3. t.begin <= L[m] /\ t.end <= L[m]
  BY DEF Fits
<1>4. t.begin \in Nat /\ t.end \in Nat
  BY TagFields
<1> HIDE DEF m, n
<1>5. L[m] \in Nat /\ L[n] \in Nat /\ L[m] <= L[n]
  BY <1>2 DEF Ladders
<1>6. t.begin <= L[n] /\ t.end <= L[n]
  BY <1>3, <1>4, <1>5
<1> QED
  BY <1>6 DEF n

LEMMA RoomBefore ==
  ASSUME Limits, NEW a \in Accs, NEW b \in Accs, Grows(a, b), Room(b)
  PROVE  Room(a)
<1>1. a.states \in Nat /\ b.states \in Nat /\ a.states <= b.states /\ maxStates \in Nat
  BY AccFields DEF Grows, Limits
<1> QED
  BY <1>1 DEF Room

-----------------------------------------------------------------------------
(* AddTag and AddAll.                                                      *)

\* The incoming tag is merged with the tag old of its key.
LEMMA AddMerged ==
  ASSUME Limits, NEW a, Proper(a), NEW value \in Values, NEW t \in Tag,
         NEW old \in a.tags[value], Key(old) = Key(t), t.depth <= functionDepth,
         NEW new, new = Merge(old, t),
         NEW b, b = [a EXCEPT !.tags[value] = (@ \ {old}) \cup {new},
                              !.changed = @ \/ Moved(old, new)]
  PROVE  Adds(a, b, value, {t})
<1>1. a \in Accs /\ Kept(a.tags) /\ a.deepest <= functionDepth /\ a.states = Total(a.tags)
      /\ (maxStates # 0 => a.states <= maxStates)
  BY DEF Proper
<1>2. /\ a.tags \in [Values -> SUBSET Tag] /\ a.states \in Nat /\ a.changed \in BOOLEAN
      /\ a.deepest \in Nat
  BY <1>1, AccFields
<1>3. old \in Tag
  BY <1>2
<1>4. /\ new \in Tag /\ Key(new) = Key(t) /\ Covers(old, new) /\ Covers(t, new)
      /\ (new.depth = old.depth \/ new.depth = t.depth)
      /\ (Moved(old, new) \/ Like(old, new)) /\ (Moved(old, new) => ~ Covers(new, old))
      /\ new.begin <= old.begin /\ (new.end = old.end \/ new.end = t.end)
  BY <1>3, MergeFacts
<1> DEFINE U == [a.tags EXCEPT ![value] = (a.tags[value] \ {old}) \cup {new}]
<1>5. /\ b.tags = U /\ b.states = a.states /\ b.deepest = a.deepest
      /\ b.changed = (a.changed \/ Moved(old, new))
  BY <1>1 DEF Accs
<1>6. /\ U \in [Values -> SUBSET Tag] /\ U[value] = (a.tags[value] \ {old}) \cup {new}
      /\ \A v \in Values \ {value} : U[v] = a.tags[v]
  BY <1>2, <1>4
<1>7. b \in Accs
  <2> DEFINE moved == a.changed \/ Moved(old, new)
  <2>1. b = [tags |-> U, states |-> a.states, changed |-> moved, deepest |-> a.deepest]
    BY <1>1 DEF Accs
  <2>2. moved \in BOOLEAN
    OBVIOUS
  <2> HIDE DEF U, moved
  <2> QED
    BY <1>2, <1>6, <2>1, <2>2 DEF Accs
<1> HIDE DEF U
<1>8. Kept(U)
  <2>1. ASSUME NEW v \in Values, v # value
        PROVE  /\ IsFiniteSet(U[v]) /\ (\A x, y \in U[v] : Key(x) = Key(y) => x = y)
               /\ \A x \in U[v] : x.depth <= functionDepth
    BY <1>1, <1>6, <2>1 DEF Kept
  <2>2. IsFiniteSet(a.tags[value])
    BY <1>1 DEF Kept
  <2>3. IsFiniteSet(a.tags[value] \ {old})
    BY <2>2, FS_RemoveElement
  <2>4. IsFiniteSet(U[value])
    BY <1>6, <2>3, FS_AddElement
  <2>5. \A x, y \in U[value] : Key(x) = Key(y) => x = y
    BY <1>1, <1>4, <1>6 DEF Kept
  <2>6. new.depth <= functionDepth
    BY <1>1, <1>4 DEF Kept
  <2>7. \A x \in U[value] : x.depth <= functionDepth
    BY <1>1, <1>6, <2>6 DEF Kept
  <2> QED
    BY <2>1, <2>4, <2>5, <2>7 DEF Kept
<1>9. Total(U) = Total(a.tags)
  <2>1. \A v \in Values : IsFiniteSet(a.tags[v]) /\ Cardinality(a.tags[v]) \in Nat
    BY <1>1, FS_CardinalityType DEF Kept
  <2>2. IsFiniteSet(a.tags[value] \ {old})
    BY <2>1, FS_RemoveElement
  <2>3. Cardinality(a.tags[value] \ {old}) = Cardinality(a.tags[value]) - 1
    BY <2>1, FS_RemoveElement
  <2>4. new \notin a.tags[value] \ {old}
    BY <1>1, <1>4 DEF Kept
  <2>5. Cardinality(U[value]) = Cardinality(a.tags[value] \ {old}) + 1
    BY <1>6, <2>2, <2>4, FS_AddElement
  <2>6. Cardinality(U[value]) = Cardinality(a.tags[value]) + 0
    BY <2>1, <2>3, <2>5
  <2>7. \A v \in Values : Cardinality(a.tags[v]) \in Nat
    BY <2>1
  <2>8. Total(a.tags) \in Nat /\ Total(U) = Total(a.tags) + 0
    <3>1. 0 \in Nat /\ \A v \in Values \ {value} : U[v] = a.tags[v]
      BY <1>6
    <3> QED
      BY <2>6, <2>7, <3>1, TotalAdds
  <2> QED
    BY <2>8
<1>10. Proper(b)
  BY <1>1, <1>5, <1>7, <1>8, <1>9 DEF Proper
<1>11. \A v \in Values : \A x \in a.tags[v] : Covered(b.tags, v, x)
  <2> SUFFICES ASSUME NEW v \in Values, NEW x \in a.tags[v] PROVE \E y \in U[v] : Covers(x, y)
    BY <1>5 DEF Covered
  <2>1. CASE v = value /\ x = old
    BY <1>4, <1>6, <2>1
  <2>2. CASE ~(v = value /\ x = old)
    <3>1. x \in U[v]
      BY <1>6, <2>2
    <3>2. x \in Tag
      BY <1>2
    <3> QED
      BY <3>1, <3>2, CoversSelf
  <2> QED
    BY <2>1, <2>2
<1>12. ASSUME ~ b.changed PROVE Same(a.tags, b.tags)
  <2>1. Like(old, new)
    BY <1>4, <1>5, <1>12
  <2>2. ASSUME NEW v \in Values
        PROVE  /\ \A x \in a.tags[v] : \E y \in U[v] : Like(x, y)
               /\ \A y \in U[v] : \E x \in a.tags[v] : Like(x, y)
    <3>1. \A x \in a.tags[v] : Like(x, x)
      BY <1>2, CoversSelf
    <3>2. CASE v = value
      BY <1>6, <2>1, <3>1, <3>2
    <3>3. CASE v # value
      BY <1>6, <3>1, <3>3
    <3> QED
      BY <3>2, <3>3
  <2> QED
    BY <1>5, <2>2 DEF Same
<1>13. Grows(a, b)
  <2>1. a.states <= b.states /\ a.states = b.states
    BY <1>2, <1>5
  <2>2. a.changed => b.changed
    BY <1>5
  <2>3. ASSUME b.changed, ~ a.changed PROVE Fresh(a.tags, b.tags)
    <3>1. ~ Covers(new, old)
      BY <1>4, <1>5, <2>3
    <3>2. \A x \in a.tags[value] : Covers(new, x) => x = old
      BY <1>1, <1>4 DEF Kept, Covers
    <3>3. ~ Covered(a.tags, value, new) /\ new \in b.tags[value]
      BY <1>5, <1>6, <3>1, <3>2 DEF Covered
    <3> QED
      BY <3>3 DEF Fresh
  <2> QED
    BY <1>11, <1>12, <2>1, <2>2, <2>3 DEF Grows
<1>14. Covered(b.tags, value, t)
  BY <1>4, <1>5, <1>6 DEF Covered
<1>15. \A v \in Values : \A u \in b.tags[v] :
         \/ \E x \in a.tags[v] : Level(x, u)
         \/ v = value /\ Level(t, u)
  <2> SUFFICES ASSUME NEW v \in Values, NEW u \in U[v]
               PROVE  \/ \E x \in a.tags[v] : Level(x, u)
                      \/ v = value /\ Level(t, u)
    BY <1>5
  <2>1. CASE u \in a.tags[v]
    <3>1. u \in Tag
      BY <1>2, <2>1
    <3> QED
      BY <2>1, <3>1, CoversSelf
  <2>2. CASE u \notin a.tags[v]
    <3>1. v = value /\ u = new
      BY <1>6, <2>2
    <3> QED
      BY <1>4, <3>1 DEF Level
  <2> QED
    BY <2>1, <2>2
<1>16. ASSUME NEW L \in Ladders, Narrow(a, L), Fits(a, L, {t}) PROVE Narrow(b, L)
  <2>1. old.begin <= L[a.states] /\ old.end <= L[a.states + 1] /\ t.end <= L[a.states + 1]
    BY <1>16 DEF Narrow, Fits
  <2>2. L[a.states] \in Nat /\ old.begin \in Nat /\ new.begin \in Nat
    BY <1>2, <1>3, <1>4, TagFields DEF Ladders
  <2>3. new.begin <= L[a.states] /\ new.end <= L[a.states + 1]
    BY <1>4, <2>1, <2>2
  <2>4. ASSUME NEW v \in Values, NEW u \in U[v]
        PROVE  u.begin <= L[a.states] /\ u.end <= L[a.states + 1]
    <3>1. u \in a.tags[v] \/ u = new
      BY <1>6
    <3> QED
      BY <1>16, <2>3, <3>1 DEF Narrow
  <2> QED
    BY <1>5, <2>4 DEF Narrow
<1> QED
  BY <1>10, <1>13, <1>14, <1>15, <1>16 DEF Adds

Extended(a, value, t) ==
  [a EXCEPT !.tags[value] = @ \cup {t}, !.states = @ + 1, !.changed = TRUE]

\* The incoming tag has a key of its own and there is room for it.
LEMMA AddNew ==
  ASSUME Limits, NEW a, Proper(a), NEW value \in Values, NEW t \in Tag,
         \A u \in a.tags[value] : Key(u) # Key(t), t.depth <= functionDepth, Room(a),
         NEW b, b = Extended(a, value, t)
  PROVE  Adds(a, b, value, {t})
<1>1. a \in Accs /\ Kept(a.tags) /\ a.deepest <= functionDepth /\ a.states = Total(a.tags)
      /\ (maxStates # 0 => a.states <= maxStates)
  BY DEF Proper
<1>2. /\ a.tags \in [Values -> SUBSET Tag] /\ a.states \in Nat /\ a.changed \in BOOLEAN
      /\ a.deepest \in Nat
  BY <1>1, AccFields
<1> DEFINE U == [a.tags EXCEPT ![value] = a.tags[value] \cup {t}]
<1>3. b = [tags |-> U, states |-> a.states + 1, changed |-> TRUE, deepest |-> a.deepest]
  BY <1>1 DEF Accs, Extended
<1>4. /\ U \in [Values -> SUBSET Tag] /\ U[value] = a.tags[value] \cup {t}
      /\ \A v \in Values \ {value} : U[v] = a.tags[v]
  BY <1>2
<1> HIDE DEF U
<1>5. b \in Accs /\ b.tags = U /\ b.states = a.states + 1 /\ b.deepest = a.deepest
  <2> DEFINE count == a.states + 1
             yes == TRUE
  <2>1. b = [tags |-> U, states |-> count, changed |-> yes, deepest |-> a.deepest]
    BY <1>3
  <2>2. count \in Nat /\ yes \in BOOLEAN
    BY <1>2
  <2> HIDE DEF count, yes
  <2>3. b \in Accs
    BY <1>2, <1>4, <2>1, <2>2 DEF Accs
  <2>4. b.tags = U /\ b.states = count /\ b.deepest = a.deepest
    BY <2>1
  <2> QED
    BY <2>3, <2>4 DEF count
<1>6. b.changed
  BY <1>3
<1>7. Kept(U)
  <2>1. ASSUME NEW v \in Values, v # value
        PROVE  /\ IsFiniteSet(U[v]) /\ (\A x, y \in U[v] : Key(x) = Key(y) => x = y)
               /\ \A x \in U[v] : x.depth <= functionDepth
    BY <1>1, <1>4, <2>1 DEF Kept
  <2>2. IsFiniteSet(a.tags[value])
    BY <1>1 DEF Kept
  <2>3. IsFiniteSet(U[value])
    BY <1>4, <2>2, FS_AddElement
  <2>4. \A x, y \in U[value] : Key(x) = Key(y) => x = y
    BY <1>1, <1>4 DEF Kept
  <2>5. \A x \in U[value] : x.depth <= functionDepth
    BY <1>1, <1>4 DEF Kept
  <2> QED
    BY <2>1, <2>3, <2>4, <2>5 DEF Kept
<1>8. Total(U) = a.states + 1
  <2>1. \A v \in Values : IsFiniteSet(a.tags[v]) /\ Cardinality(a.tags[v]) \in Nat
    BY <1>1, FS_CardinalityType DEF Kept
  <2>2. t \notin a.tags[value]
    OBVIOUS
  <2>3. Cardinality(U[value]) = Cardinality(a.tags[value]) + 1
    BY <1>4, <2>1, <2>2, FS_AddElement
  <2>4. \A v \in Values : Cardinality(a.tags[v]) \in Nat
    BY <2>1
  <2>5. 1 \in Nat /\ \A v \in Values \ {value} : U[v] = a.tags[v]
    BY <1>4
  <2>6. Total(a.tags) \in Nat /\ Total(U) = Total(a.tags) + 1
    BY <2>3, <2>4, <2>5, TotalAdds
  <2> QED
    BY <1>1, <2>6
<1>9. maxStates # 0 => b.states <= maxStates
  BY <1>2, <1>5 DEF Room, Limits
<1>10. Proper(b)
  BY <1>1, <1>5, <1>7, <1>8, <1>9 DEF Proper
<1>11. \A v \in Values : \A x \in a.tags[v] : Covered(b.tags, v, x)
  <2> SUFFICES ASSUME NEW v \in Values, NEW x \in a.tags[v] PROVE \E y \in U[v] : Covers(x, y)
    BY <1>5 DEF Covered
  <2>1. x \in U[v] /\ x \in Tag
    BY <1>2, <1>4
  <2> QED
    BY <2>1, CoversSelf
<1>12. Grows(a, b)
  <2>1. a.states <= b.states
    BY <1>2, <1>5
  <2>2. t \in b.tags[value] /\ ~ Covered(a.tags, value, t)
    BY <1>4, <1>5 DEF Covered, Covers
  <2>3. Fresh(a.tags, b.tags)
    BY <2>2 DEF Fresh
  <2> QED
    BY <1>6, <1>11, <2>1, <2>3 DEF Grows
<1>13. Covered(b.tags, value, t)
  <2>1. t \in U[value] /\ Covers(t, t)
    BY <1>4, CoversSelf
  <2> QED
    BY <1>5, <2>1 DEF Covered
<1>14. \A v \in Values : \A u \in b.tags[v] :
         \/ \E x \in a.tags[v] : Level(x, u)
         \/ v = value /\ Level(t, u)
  <2> SUFFICES ASSUME NEW v \in Values, NEW u \in U[v]
               PROVE  \/ \E x \in a.tags[v] : Level(x, u)
                      \/ v = value /\ Level(t, u)
    BY <1>5
  <2>1. u \in Tag
    BY <1>4
  <2>2. Level(u, u)
    BY <2>1, CoversSelf
  <2>3. u \in a.tags[v] \/ (v = value /\ u = t)
    BY <1>4
  <2> QED
    BY <2>2, <2>3
<1>15. ASSUME NEW L \in Ladders, Narrow(a, L), Fits(a, L, {t}) PROVE Narrow(b, L)
  <2> DEFINE n == a.states
  <2>1. n \in Nat /\ n + 1 \in Nat /\ n + 2 \in Nat /\ n <= n + 1 /\ n + 1 <= n + 2
        /\ (n + 1) + 1 = n + 2
    BY <1>2
  <2>2. L[n] \in Nat /\ L[n + 1] \in Nat /\ L[n + 2] \in Nat
        /\ L[n] <= L[n + 1] /\ L[n + 1] <= L[n + 2]
    BY <2>1 DEF Ladders
  <2>3. ASSUME NEW v \in Values, NEW u \in U[v]
        PROVE  u.begin <= L[n + 1] /\ u.end <= L[n + 2]
    <3>1. u \in Tag
      BY <1>4
    <3>2. u.begin \in Nat /\ u.end \in Nat
      BY <3>1, TagFields
    <3>3. u \in a.tags[v] \/ u = t
      BY <1>4
    <3>4. CASE u \in a.tags[v]
      <4>1. u.begin <= L[n] /\ u.end <= L[n + 1]
        BY <1>15, <3>4 DEF Narrow
      <4> HIDE DEF n
      <4> QED
        BY <2>2, <3>2, <4>1
    <3>5. CASE u = t
      <4>1. u.begin <= L[n + 1] /\ u.end <= L[n + 1]
        BY <1>15, <3>5 DEF Fits
      <4> HIDE DEF n
      <4> QED
        BY <2>2, <3>2, <4>1
    <3> QED
      BY <3>3, <3>4, <3>5
  <2> QED
    BY <1>5, <2>1, <2>3 DEF Narrow
<1> QED
  BY <1>10, <1>12, <1>13, <1>14, <1>15 DEF Adds

\* Nothing is added: the tag is refused.
LEMMA AddNothing ==
  ASSUME NEW a, Proper(a), NEW value \in Values, NEW these, ~ Room(a) \/ these = {}
  PROVE  Adds(a, a, value, these)
<1>1. a \in Accs
  BY DEF Proper
<1>2. \A v \in Values : \A u \in a.tags[v] : Level(u, u)
  BY <1>1, AccFields, CoversSelf
<1>3. Grows(a, a)
  BY <1>1, GrowsSelf
<1> QED
  BY <1>2, <1>3 DEF Adds

LEMMA AddTagAdds ==
  ASSUME Limits, NEW a, Proper(a), NEW value \in Values, NEW t \in Tag,
         t.depth <= functionDepth
  PROVE  Adds(a, AddTag(a, value, t), value, {t})
<1> DEFINE same == {u \in a.tags[value] : Key(u) = Key(t)}
           old == CHOOSE u \in same : TRUE
           new == Merge(old, t)
           merged == [a EXCEPT !.tags[value] = (@ \ {old}) \cup {new},
                               !.changed = @ \/ Moved(old, new)]
           added == Extended(a, value, t)
<1>1. AddTag(a, value, t) = IF same # {} THEN merged
                            ELSE IF maxStates # 0 /\ a.states >= maxStates THEN a ELSE added
  BY DEF AddTag, Extended
<1>2. CASE same # {}
  <2>1. old \in same
    BY <1>2
  <2>2. old \in a.tags[value] /\ Key(old) = Key(t)
    BY <2>1
  <2> DEFINE b == merged
  <2>3. b = [a EXCEPT !.tags[value] = (@ \ {old}) \cup {new},
                      !.changed = @ \/ Moved(old, new)] /\ new = Merge(old, t)
    OBVIOUS
  <2>4. AddTag(a, value, t) = b
    BY <1>1, <1>2
  <2> HIDE DEF b, new, old
  <2> QED
    BY <2>2, <2>3, <2>4, AddMerged
<1>3. CASE same = {} /\ Room(a)
  <2>1. a.states \in Nat /\ maxStates \in Nat
    BY AccFields DEF Proper, Limits
  <2>2. AddTag(a, value, t) = added
    BY <1>1, <1>3, <2>1 DEF Room
  <2>3. \A u \in a.tags[value] : Key(u) # Key(t)
    BY <1>3
  <2> QED
    BY <1>3, <2>2, <2>3, AddNew
<1>4. CASE same = {} /\ ~ Room(a)
  <2>1. a.states \in Nat /\ maxStates \in Nat
    BY AccFields DEF Proper, Limits
  <2>2. AddTag(a, value, t) = a
    BY <1>1, <1>4, <2>1 DEF Room
  <2> QED
    BY <1>4, <2>2, AddNothing
<1> QED
  BY <1>2, <1>3, <1>4

Propers == {a \in Accs : Proper(a)}

Addable(these) ==
  these \in SUBSET Tag /\ IsFiniteSet(these) /\ \A t \in these : t.depth <= functionDepth

\* The accumulators that AddAll goes through: one for each set of tags it has
\* added, each from a smaller one.
AddAllGoes(a, value, these) ==
  \E g : /\ g[{}] = a /\ g[these] = AddAll(a, value, these)
         /\ \A s \in SUBSET these : Proper(g[s])
         /\ \A s \in SUBSET these : s # {} =>
              \E x \in s : g[s] = AddTag(g[s \ {x}], value, x)

LEMMA AddAllSteps ==
  ASSUME Limits, NEW a, Proper(a), NEW value \in Values,
         NEW these, Addable(these)
  PROVE  AddAllGoes(a, value, these)
<1> USE DEF Addable, AddAllGoes
<1> DEFINE pick == [s \in SUBSET these |-> CHOOSE x \in s : TRUE]
           F == [q \in these \X Propers |-> AddTag(q[2], value, q[1])]
           Body(f) == [s \in SUBSET these |->
             IF s = {} THEN a
             ELSE AddTag(f[s \ {CHOOSE x \in s : TRUE}], value, CHOOSE x \in s : TRUE)]
           g == CHOOSE h : h = Body(h)
<1>1. \A b \in Propers : b \in Accs /\ Proper(b)
  BY DEF Propers
<1>2. a \in Propers
  BY DEF Propers, Proper
<1>3. \A s \in SUBSET these : s # {} => pick[s] \in s /\ pick[s] = CHOOSE x \in s : TRUE
  OBVIOUS
<1>4. ASSUME NEW x \in these, NEW b \in Propers
      PROVE  F[<<x, b>>] = AddTag(b, value, x) /\ F[<<x, b>>] \in Propers
  <2>1. F[<<x, b>>] = AddTag(b, value, x)
    OBVIOUS
  <2>2. x \in Tag /\ Proper(b)
    BY <1>1
  <2>3. Adds(b, AddTag(b, value, x), value, {x})
    BY <2>2, AddTagAdds
  <2>4. AddTag(b, value, x) \in Propers
    BY <2>3 DEF Adds, Proper, Propers
  <2> QED
    BY <2>1, <2>4
<1> HIDE DEF F, pick
<1>5. FoldData(these, Propers, a, pick, F)
  BY <1>2, <1>3, <1>4 DEF FoldData
<1>6. PICK f \in [SUBSET these -> Propers] :
        /\ f[{}] = a
        /\ \A s \in SUBSET these : s # {} => f[s] = F[<<pick[s], f[s \ {pick[s]}]>>]
  <2>1. FoldSolved(these, Propers, a, pick, F)
    BY <1>5, FoldExists
  <2> QED
    BY <2>1 DEF FoldSolved
<1>7. ASSUME NEW s \in SUBSET these, s # {}
      PROVE  f[s] = AddTag(f[s \ {CHOOSE x \in s : TRUE}], value, CHOOSE x \in s : TRUE)
  <2>1. pick[s] \in these /\ f[s \ {pick[s]}] \in Propers /\ pick[s] = CHOOSE x \in s : TRUE
    BY <1>3, <1>6, <1>7
  <2>2. f[s] = AddTag(f[s \ {pick[s]}], value, pick[s])
    BY <1>4, <1>6, <1>7, <2>1
  <2> QED
    BY <2>1, <2>2
<1>8. f = Body(f)
  <2>1. f = [s \in SUBSET these |-> f[s]]
    OBVIOUS
  <2> QED
    BY <1>6, <1>7, <2>1
<1>9. g = Body(g)
  BY <1>8
<1>10. g[these] = AddAll(a, value, these)
  BY DEF AddAll, FoldSet, MapThenFoldSet
<1> HIDE DEF g
<1>11. /\ g[{}] = a
       /\ \A s \in SUBSET these : s # {} =>
            g[s] = AddTag(g[s \ {CHOOSE x \in s : TRUE}], value, CHOOSE x \in s : TRUE)
  BY <1>9
<1>12. \A s \in SUBSET these : s # {} /\ g[s \ {pick[s]}] \in Propers =>
         g[s] = F[<<pick[s], g[s \ {pick[s]}]>>]
  <2> SUFFICES ASSUME NEW s \in SUBSET these, s # {}, g[s \ {pick[s]}] \in Propers
               PROVE  g[s] = F[<<pick[s], g[s \ {pick[s]}]>>]
    OBVIOUS
  <2>1. pick[s] \in these
    BY <1>3
  <2>2. g[s] = AddTag(g[s \ {pick[s]}], value, pick[s])
    BY <1>3, <1>11
  <2> QED
    BY <1>4, <2>1, <2>2
<1>13. \A s \in SUBSET these : g[s] \in Propers
  <2>1. FoldFollowed(these, Propers, a, pick, F, g)
    BY <1>11, <1>12 DEF FoldFollowed
  <2> QED
    BY <1>5, <2>1, FoldTyped
<1>14. \A s \in SUBSET these : s # {} => \E x \in s : g[s] = AddTag(g[s \ {x}], value, x)
  <2> SUFFICES ASSUME NEW s \in SUBSET these, s # {}
               PROVE  \E x \in s : g[s] = AddTag(g[s \ {x}], value, x)
    OBVIOUS
  <2>1. pick[s] \in s
    BY <1>3
  <2>2. g[s] = AddTag(g[s \ {pick[s]}], value, pick[s])
    BY <1>3, <1>11
  <2> QED
    BY <2>1, <2>2
<1>15. g[{}] = a /\ \A s \in SUBSET these : Proper(g[s])
  BY <1>1, <1>11, <1>13
<1> QED
  BY <1>10, <1>14, <1>15

LEMMA AddsThen ==
  ASSUME Limits, NEW a, Proper(a), NEW b, NEW c, NEW value \in Values,
         NEW X \in SUBSET Tag, NEW Y \in SUBSET Tag,
         Adds(a, b, value, X), Adds(b, c, value, Y)
  PROVE  Adds(a, c, value, X \cup Y)
<1>1. a \in Accs /\ b \in Accs /\ c \in Accs /\ Proper(b) /\ Proper(c)
  BY DEF Adds, Proper
<1>2. Grows(a, b) /\ Grows(b, c)
  BY DEF Adds
<1>3. Grows(a, c)
  BY <1>1, <1>2, GrowsTransitive
<1>4. ASSUME Room(c), NEW t \in X \cup Y PROVE Covered(c.tags, value, t)
  <2>1. CASE t \in Y
    BY <1>4, <2>1 DEF Adds
  <2>2. CASE t \in X
    <3>1. Room(b)
      BY <1>1, <1>2, <1>4, RoomBefore
    <3>2. Covered(b.tags, value, t)
      BY <2>2, <3>1 DEF Adds
    <3>3. t \in Tag
      BY <2>2
    <3> QED
      BY <1>1, <1>2, <3>2, <3>3, CoveredGrows
  <2> QED
    BY <2>1, <2>2
<1>5. ASSUME NEW v \in Values, NEW u \in c.tags[v]
      PROVE  \/ \E t \in a.tags[v] : Level(t, u)
             \/ v = value /\ \E t \in X \cup Y : Level(t, u)
  <2>1. CASE \E t \in b.tags[v] : Level(t, u)
    <3>1. PICK t \in b.tags[v] : Level(t, u)
      BY <2>1
    <3>2. \/ \E x \in a.tags[v] : Level(x, t)
          \/ v = value /\ \E x \in X : Level(x, t)
      BY DEF Adds
    <3>3. \A x : Level(x, t) => Level(x, u)
      BY <3>1 DEF Level
    <3> QED
      BY <3>2, <3>3
  <2>2. CASE v = value /\ \E t \in Y : Level(t, u)
    BY <2>2
  <2> QED
    BY <2>1, <2>2 DEF Adds
<1>6. ASSUME NEW L \in Ladders, Narrow(a, L), Fits(a, L, X \cup Y) PROVE Narrow(c, L)
  <2>1. Fits(a, L, X) /\ Fits(a, L, Y)
    BY <1>6 DEF Fits
  <2>2. Narrow(b, L)
    BY <1>6, <2>1 DEF Adds
  <2>3. Fits(b, L, Y)
    BY <1>1, <1>2, <2>1, FitsLater
  <2> QED
    BY <2>2, <2>3 DEF Adds
<1> QED
  BY <1>1, <1>3, <1>4, <1>5, <1>6 DEF Adds

\* Adding a set of tags adds these tags.
LEMMA AddAllAdds ==
  ASSUME Limits, NEW a, Proper(a), NEW value \in Values,
         NEW these, Addable(these)
  PROVE  Adds(a, AddAll(a, value, these), value, these)
<1>1. PICK g : /\ g[{}] = a /\ g[these] = AddAll(a, value, these)
               /\ \A s \in SUBSET these : Proper(g[s])
               /\ \A s \in SUBSET these : s # {} =>
                    \E x \in s : g[s] = AddTag(g[s \ {x}], value, x)
  <2>1. AddAllGoes(a, value, these)
    BY AddAllSteps
  <2> QED
    BY <2>1 DEF AddAllGoes
<1> USE DEF Addable
<1> DEFINE Q == {s \in SUBSET these : Adds(a, g[s], value, s)}
<1>2. {} \in Q
  <2>1. Adds(a, a, value, {})
    BY AddNothing
  <2> QED
    BY <1>1, <2>1
<1>3. \A s \in SUBSET these : s # {} => \E x \in s : s \ {x} \in Q => s \in Q
  <2> SUFFICES ASSUME NEW s \in SUBSET these, s # {}
               PROVE  \E x \in s : s \ {x} \in Q => s \in Q
    OBVIOUS
  <2>1. PICK x \in s : g[s] = AddTag(g[s \ {x}], value, x)
    BY <1>1
  <2> DEFINE b == g[s \ {x}]
             before == s \ {x}
  <2>2. x \in Tag /\ x.depth <= functionDepth /\ Proper(b) /\ before \in SUBSET Tag
        /\ before \in SUBSET these /\ {x} \in SUBSET Tag /\ s = before \cup {x}
    BY <1>1
  <2>3. Adds(b, g[s], value, {x})
    <3>1. g[s] = AddTag(b, value, x)
      BY <2>1
    <3> HIDE DEF b
    <3> QED
      BY <2>2, <3>1, AddTagAdds
  <2>4. ASSUME before \in Q PROVE s \in Q
    <3>1. Adds(a, b, value, before)
      BY <2>4
    <3> DEFINE c == g[s]
    <3>2. Adds(b, c, value, {x})
      BY <2>3
    <3> HIDE DEF b, c, before
    <3>3. Adds(a, c, value, before \cup {x})
      BY <2>2, <3>1, <3>2, AddsThen
    <3> QED
      BY <2>2, <3>3 DEF c
  <2> QED
    BY <2>4
<1> HIDE DEF Q
<1>4. these \in Q
  <2>1. SUBSET these \subseteq Q
    BY <1>2, <1>3, SubsetsOf
  <2> QED
    BY <2>1
<1> QED
  BY <1>1, <1>4 DEF Q

-----------------------------------------------------------------------------
(* Folds over a sequence: one addition after the other.                    *)

\* The accumulators a fold over the positions 1 .. n goes through, from base to b.
Ordered(n, P, base, F, b) ==
  \E h : /\ h[0] = base /\ h[n] = b
         /\ \A k \in 0 .. n : h[k] \in P
         /\ \A k \in 1 .. n : h[k] = F[<<k, h[k - 1]>>]

LEMMA UpToFinite ==
  ASSUME NEW n \in Nat
  PROVE  IsFiniteSet(1 .. n)
<1>1. 1 \in Int /\ n \in Int
  OBVIOUS
<1> QED
  BY <1>1, FS_Interval, ZenonT(20)

Latest(n) == [s \in SUBSET (1 .. n) |-> Max(s)]

LEMMA LatestIn ==
  ASSUME NEW n \in Nat
  PROVE  \A s \in SUBSET (1 .. n) : s # {} => Latest(n)[s] \in s /\ Latest(n)[s] = Max(s)
<1> SUFFICES ASSUME NEW s \in SUBSET (1 .. n), s # {} PROVE Max(s) \in s
  BY DEF Latest
<1>1. s \in SUBSET (0 .. n)
  OBVIOUS
<1> QED
  BY <1>1, LargestNatural

LEMMA FoldOrdered ==
  ASSUME NEW n \in Nat, NEW P, NEW base, NEW F, NEW g,
         FoldData(1 .. n, P, base, Latest(n), F),
         FoldFollowed(1 .. n, P, base, Latest(n), F, g)
  PROVE  Ordered(n, P, base, F, g[1 .. n])
<1> DEFINE S == 1 .. n
           pick == Latest(n)
<1>1. FoldData(S, P, base, pick, F) /\ FoldFollowed(S, P, base, pick, F, g)
  OBVIOUS
<1>2. \A s \in SUBSET S : s # {} => pick[s] \in s /\ pick[s] = Max(s)
  BY LatestIn
<1>3. \A s \in SUBSET S : g[s] \in P
  <2> HIDE DEF S, pick
  <2> QED
    BY <1>1, FoldTyped
<1>4. g[{}] = base
  BY <1>1 DEF FoldFollowed
<1>5. \A s \in SUBSET S : s # {} => g[s] = F[<<Max(s), g[s \ {Max(s)}]>>]
  <2> SUFFICES ASSUME NEW s \in SUBSET S, s # {}
               PROVE  g[s] = F[<<Max(s), g[s \ {Max(s)}]>>]
    OBVIOUS
  <2>1. pick[s] = Max(s) /\ s \ {pick[s]} \in SUBSET S
    BY <1>2
  <2>2. g[s \ {pick[s]}] \in P
    BY <1>3, <2>1
  <2> HIDE DEF S, pick
  <2> QED
    BY <1>1, <2>1, <2>2 DEF FoldFollowed
<1> DEFINE h == [k \in 0 .. n |-> g[1 .. k]]
<1>6. h[0] = base /\ h[n] = g[S]
  <2>1. 1 .. 0 = {} /\ 0 \in 0 .. n /\ n \in 0 .. n
    OBVIOUS
  <2> QED
    BY <1>4, <2>1
<1>7. ASSUME NEW k \in 0 .. n PROVE h[k] \in P
  <2>1. 1 .. k \in SUBSET S
    OBVIOUS
  <2> QED
    BY <1>3, <2>1
<1>8. ASSUME NEW k \in 1 .. n PROVE h[k] = F[<<k, h[k - 1]>>]
  <2>1. /\ 1 .. k \in SUBSET S /\ 1 .. k # {} /\ k \in 0 .. n /\ k - 1 \in 0 .. n
        /\ k \in 1 .. k /\ \A j \in 1 .. k : j <= k /\ j \in Nat
    OBVIOUS
  <2>2. Max(1 .. k) = k
    <3>1. 1 .. k \in SUBSET (0 .. n) /\ 1 .. k # {}
      OBVIOUS
    <3>2. Max(1 .. k) \in 1 .. k /\ \A j \in 1 .. k : j <= Max(1 .. k)
      BY <3>1, LargestNatural
    <3> QED
      BY <2>1, <3>2
  <2>3. (1 .. k) \ {k} = 1 .. k - 1
    OBVIOUS
  <2>4. g[1 .. k] = F[<<k, g[1 .. k - 1]>>]
    BY <1>5, <2>1, <2>2, <2>3
  <2> QED
    BY <2>1, <2>4
<1> HIDE DEF h
<1>9. \A k \in 0 .. n : h[k] \in P
  BY <1>7
<1>10. \A k \in 1 .. n : h[k] = F[<<k, h[k - 1]>>]
  BY <1>8
<1> QED
  BY <1>6, <1>9, <1>10 DEF Ordered

\* From h[0] on, the tags with[k] are added to the value at[k].
Run(h, n, at, with) ==
  /\ Proper(h[0])
  /\ \A k \in 1 .. n : /\ at[k] \in Values /\ with[k] \in SUBSET Tag
                       /\ Adds(h[k - 1], h[k], at[k], with[k])

\* All tags are those of R: with their values, their keys and their depths.
Sound(T, R) == \A v \in Values : \A t \in T[v] : <<v, Key(t), t.depth>> \in R

LEMMA RunGrows ==
  ASSUME NEW n \in Nat, NEW h, NEW at, NEW with, Run(h, n, at, with)
  PROVE  /\ \A k \in 0 .. n : h[k] \in Accs /\ Proper(h[k])
         /\ \A j \in 0 .. n : \A i \in 0 .. j : Grows(h[i], h[j])
<1>1. ASSUME NEW k \in 0 .. n PROVE h[k] \in Accs /\ Proper(h[k])
  <2>1. Proper(h[k])
    <3>1. CASE k = 0
      BY <3>1 DEF Run
    <3>2. CASE k \in 1 .. n
      BY <3>2 DEF Run, Adds
    <3> QED
      BY <3>1, <3>2
  <2> QED
    BY <2>1 DEF Proper
<1> DEFINE Q == {j \in Nat : j <= n => \A i \in 0 .. j : Grows(h[i], h[j])}
<1>2. 0 \in Q
  <2>1. 0 \in 0 .. n /\ \A i \in 0 .. 0 : i = 0
    OBVIOUS
  <2>2. Grows(h[0], h[0])
    BY <1>1, <2>1, GrowsSelf
  <2> QED
    BY <2>1, <2>2
<1>3. ASSUME NEW j \in Nat, j \in Q PROVE j + 1 \in Q
  <2> SUFFICES ASSUME j + 1 <= n, NEW i \in 0 .. j + 1 PROVE Grows(h[i], h[j + 1])
    OBVIOUS
  <2>1. j + 1 \in 1 .. n /\ j + 1 \in 0 .. n /\ j \in 0 .. n /\ i \in 0 .. n /\ (j + 1) - 1 = j
    OBVIOUS
  <2>2. Grows(h[j], h[j + 1])
    BY <2>1 DEF Run, Adds
  <2>3. h[i] \in Accs /\ h[j] \in Accs /\ h[j + 1] \in Accs
    BY <1>1, <2>1
  <2>4. CASE i = j + 1
    BY <2>3, <2>4, GrowsSelf
  <2>5. CASE i \in 0 .. j
    <3>1. Grows(h[i], h[j])
      BY <1>3, <2>1, <2>5
    <3> QED
      BY <2>2, <2>3, <3>1, GrowsTransitive
  <2> QED
    BY <2>4, <2>5
<1> HIDE DEF Q
<1>4. Nat \subseteq Q
  BY <1>2, <1>3, NaturalsOf
<1>5. \A j \in 0 .. n : j \in Nat /\ j \in Q
  BY <1>4
<1> QED
  BY <1>1, <1>5 DEF Q

LEMMA RunCovers ==
  ASSUME Limits, NEW n \in Nat, NEW h, NEW at, NEW with, Run(h, n, at, with), Room(h[n])
  PROVE  \A k \in 1 .. n : \A t \in with[k] : Covered(h[n].tags, at[k], t)
<1> SUFFICES ASSUME NEW k \in 1 .. n, NEW t \in with[k] PROVE Covered(h[n].tags, at[k], t)
  OBVIOUS
<1>1. k \in 0 .. n /\ n \in 0 .. n
  OBVIOUS
<1>2. Grows(h[k], h[n]) /\ h[k] \in Accs /\ h[n] \in Accs
  BY <1>1, RunGrows
<1>3. Room(h[k])
  BY <1>2, RoomBefore
<1>4. at[k] \in Values /\ t \in Tag /\ Covered(h[k].tags, at[k], t)
  BY <1>3 DEF Run, Adds
<1> QED
  BY <1>2, <1>4, CoveredGrows

LEMMA RunSound ==
  ASSUME NEW n \in Nat, NEW h, NEW at, NEW with, Run(h, n, at, with), NEW R,
         Sound(h[0].tags, R),
         \A k \in 1 .. n : Sound(h[k - 1].tags, R) =>
           \A t \in with[k] : <<at[k], Key(t), t.depth>> \in R
  PROVE  Sound(h[n].tags, R)
<1> DEFINE Q == {k \in Nat : k <= n => Sound(h[k].tags, R)}
<1>1. 0 \in Q
  OBVIOUS
<1>2. ASSUME NEW j \in Nat, j \in Q PROVE j + 1 \in Q
  <2> SUFFICES ASSUME j + 1 <= n PROVE Sound(h[j + 1].tags, R)
    OBVIOUS
  <2>1. j + 1 \in 1 .. n /\ (j + 1) - 1 = j /\ Sound(h[j].tags, R)
    BY <1>2
  <2>2. /\ Adds(h[j], h[j + 1], at[j + 1], with[j + 1])
        /\ \A t \in with[j + 1] : <<at[j + 1], Key(t), t.depth>> \in R
    BY <2>1 DEF Run
  <2> SUFFICES ASSUME NEW v \in Values, NEW u \in h[j + 1].tags[v]
               PROVE  <<v, Key(u), u.depth>> \in R
    BY DEF Sound
  <2>3. \/ \E t \in h[j].tags[v] : Level(t, u)
        \/ v = at[j + 1] /\ \E t \in with[j + 1] : Level(t, u)
    BY <2>2 DEF Adds
  <2> QED
    BY <2>1, <2>2, <2>3 DEF Sound, Level
<1> HIDE DEF Q
<1>3. n \in Q
  <2>1. Nat \subseteq Q
    BY <1>1, <1>2, NaturalsOf
  <2> QED
    BY <2>1
<1> QED
  BY <1>3 DEF Q

-----------------------------------------------------------------------------
(* Calls.                                                                  *)

LEMMA CrossFacts ==
  ASSUME Limits, NEW T \in SUBSET Tag, IsFiniteSet(T)
  PROVE  /\ Addable(Cross(T))
         /\ \A t \in T : t.depth < functionDepth =>
              \E u \in Cross(T) : Key(u) = Key(t) /\ u.depth = t.depth + 1
         /\ \A u \in Cross(T) : \E t \in T :
              t.depth < functionDepth /\ Key(u) = Key(t) /\ u.depth = t.depth + 1
<1> DEFINE over == {t \in T : t.depth < functionDepth}
           deeper == [t \in over |-> [t EXCEPT !.depth = t.depth + 1]]
<1>1. Cross(T) = {deeper[t] : t \in over}
  BY DEF Cross
<1>2. ASSUME NEW t \in over
      PROVE  /\ deeper[t] \in Tag /\ Key(deeper[t]) = Key(t)
             /\ deeper[t].depth = t.depth + 1 /\ deeper[t].depth <= functionDepth
  <2> DEFINE d == t.depth + 1
             u == [t EXCEPT !.depth = d]
  <2>1. deeper[t] = u /\ t \in Tag /\ t.depth < functionDepth
    OBVIOUS
  <2>2. d \in Nat /\ d = t.depth + 1 /\ d <= functionDepth
    BY <2>1, TagFields DEF Limits
  <2> HIDE DEF d, over, deeper
  <2>3. /\ u \in Tag /\ u.depth = d
        /\ u.source = t.source /\ u.form = t.form /\ u.storage = t.storage /\ u.at = t.at
    BY <2>1, <2>2 DEF Tag
  <2>4. Key(u) = Key(t)
    BY <2>3 DEF Key
  <2> QED
    BY <2>1, <2>2, <2>3, <2>4
<1>3. IsFiniteSet(over)
  BY FS_Subset
<1> HIDE DEF deeper, over
<1>4. IsFiniteSet(Cross(T))
  BY <1>1, <1>3, ImageFinite
<1>5. Addable(Cross(T))
  BY <1>1, <1>2, <1>4 DEF Addable
<1>6. ASSUME NEW t \in T, t.depth < functionDepth
      PROVE  \E u \in Cross(T) : Key(u) = Key(t) /\ u.depth = t.depth + 1
  <2>1. t \in over
    BY <1>6 DEF over
  <2> QED
    BY <1>1, <1>2, <2>1
<1>7. ASSUME NEW u \in Cross(T)
      PROVE  \E t \in T : t.depth < functionDepth /\ Key(u) = Key(t) /\ u.depth = t.depth + 1
  <2>1. PICK t \in over : u = deeper[t]
    BY <1>1
  <2>2. t \in T /\ t.depth < functionDepth
    BY DEF over
  <2> QED
    BY <1>2, <2>1, <2>2
<1> QED
  BY <1>5, <1>6, <1>7

\* deepest_call follows the crossings and stays within the depth.
LEMMA DeepestWithin ==
  ASSUME Limits, NEW d \in Nat, d <= functionDepth, NEW X \in SUBSET Tag,
         \A t \in X : t.depth <= functionDepth
  PROVE  Max({d} \cup {t.depth : t \in X}) \in 0 .. functionDepth
<1> DEFINE D == {d} \cup {t.depth : t \in X}
<1>1. functionDepth \in Nat /\ \A t \in X : t.depth \in Nat
  BY TagFields DEF Limits
<1>2. D \in SUBSET (0 .. functionDepth) /\ D # {}
  BY <1>1
<1> HIDE DEF D
<1>3. Max(D) \in D
  BY <1>1, <1>2, LargestNatural
<1> QED
  BY <1>2, <1>3 DEF D

LEMMA AddsDeepest ==
  ASSUME NEW a, NEW b, NEW value \in Values, NEW these, Adds(a, b, value, these),
         NEW d \in Nat, d <= functionDepth
  PROVE  Adds(a, [b EXCEPT !.deepest = d], value, these)
<1> DEFINE c == [b EXCEPT !.deepest = d]
<1>1. b \in Accs
  BY DEF Adds, Proper
<1>2. /\ b.tags \in [Values -> SUBSET Tag] /\ b.states \in Nat /\ b.changed \in BOOLEAN
      /\ c = [tags |-> b.tags, states |-> b.states, changed |-> b.changed, deepest |-> d]
  BY <1>1 DEF Accs
<1>3. c.tags = b.tags /\ c.states = b.states /\ c.changed = b.changed /\ c.deepest = d
  BY <1>2
<1>4. c \in Accs
  BY <1>2 DEF Accs
<1> HIDE DEF c
<1>5. Proper(c)
  BY <1>3, <1>4 DEF Proper, Adds
<1>6. Grows(a, c)
  BY <1>3 DEF Grows, Adds
<1>7. Room(c) => Room(b)
  BY <1>3 DEF Room
<1>8. \A L : Narrow(b, L) => Narrow(c, L)
  BY <1>3 DEF Narrow
<1>9. Adds(a, c, value, these)
  BY <1>3, <1>5, <1>6, <1>7, <1>8 DEF Adds
<1> QED
  BY <1>9 DEF c

CopyOne(a, p) ==
  LET crossing == Cross(a.tags[p[1]])
  IN  [AddAll(a, p[2], crossing) EXCEPT
         !.deepest = Max({@} \cup {t.depth : t \in crossing})]

LEMMA CopyOneAdds ==
  ASSUME Limits, NEW a, Proper(a), NEW p \in Values \X Values
  PROVE  Adds(a, CopyOne(a, p), p[2], Cross(a.tags[p[1]]))
<1> DEFINE crossing == Cross(a.tags[p[1]])
           b == AddAll(a, p[2], crossing)
           d == Max({b.deepest} \cup {t.depth : t \in crossing})
<1>1. p[1] \in Values /\ p[2] \in Values
  OBVIOUS
<1>2. a.tags[p[1]] \in SUBSET Tag /\ IsFiniteSet(a.tags[p[1]])
  BY <1>1, AccFields DEF Proper, Kept
<1>3. Addable(crossing)
  BY <1>2, CrossFacts
<1>4. CopyOne(a, p) = [b EXCEPT !.deepest = d]
  BY DEF CopyOne
<1> HIDE DEF crossing
<1>5. Adds(a, b, p[2], crossing)
  BY <1>1, <1>3, AddAllAdds
<1>6. b.deepest \in Nat /\ b.deepest <= functionDepth
  BY <1>5, AccFields DEF Adds, Proper
<1>7. crossing \in SUBSET Tag /\ \A t \in crossing : t.depth <= functionDepth
  BY <1>3 DEF Addable
<1> HIDE DEF b
<1>8. d \in 0 .. functionDepth
  BY <1>6, <1>7, DeepestWithin
<1> HIDE DEF d
<1>9. d \in Nat /\ d <= functionDepth
  BY <1>8 DEF Limits
<1>10. Adds(a, [b EXCEPT !.deepest = d], p[2], crossing)
  BY <1>1, <1>5, <1>9, AddsDeepest
<1> QED
  BY <1>4, <1>10 DEF crossing

CopySteps(h, a, pairs, b) ==
  LET n == Len(pairs)
      at == [k \in 1 .. n |-> pairs[k][2]]
      with == [k \in 1 .. n |-> Cross(h[k - 1].tags[pairs[k][1]])]
  IN  h[0] = a /\ h[n] = b /\ Run(h, n, at, with)

\* CopyAcross is a run: one addition for each pair, of what crosses then.
LEMMA CopyRuns ==
  ASSUME Limits, NEW a, Proper(a), NEW pairs \in Seq(Values \X Values)
  PROVE  \E h : CopySteps(h, a, pairs, CopyAcross(a, pairs))
<1> DEFINE n == Len(pairs)
           S == 1 .. n
           F == [q \in S \X Propers |-> CopyOne(q[2], pairs[q[1]])]
           Body(f) == [s \in SUBSET S |->
             IF s = {} THEN a ELSE CopyOne(f[s \ {Max(s)}], pairs[Max(s)])]
           g == CHOOSE f : f = Body(f)
<1>1. n \in Nat /\ DOMAIN pairs = S /\ \A k \in S : pairs[k] \in Values \X Values
  OBVIOUS
<1>2. IsFiniteSet(S)
  BY <1>1, UpToFinite
<1>3. a \in Propers
  BY DEF Propers, Proper
<1>4. \A b \in Propers : Proper(b)
  BY DEF Propers
<1>5. ASSUME NEW k \in S, NEW b \in Propers
      PROVE  F[<<k, b>>] = CopyOne(b, pairs[k]) /\ F[<<k, b>>] \in Propers
  <2>1. F[<<k, b>>] = CopyOne(b, pairs[k])
    OBVIOUS
  <2>2. Adds(b, CopyOne(b, pairs[k]), pairs[k][2], Cross(b.tags[pairs[k][1]]))
    BY <1>1, <1>4, CopyOneAdds
  <2> QED
    BY <2>1, <2>2 DEF Adds, Proper, Propers
<1>6. \A s \in SUBSET S : s # {} => Latest(n)[s] \in s /\ Latest(n)[s] = Max(s)
  BY <1>1, LatestIn
<1> HIDE DEF F
<1>7. FoldData(S, Propers, a, Latest(n), F)
  BY <1>2, <1>3, <1>5, <1>6 DEF FoldData
<1>8. PICK f \in [SUBSET S -> Propers] :
        /\ f[{}] = a
        /\ \A s \in SUBSET S : s # {} => f[s] = F[<<Latest(n)[s], f[s \ {Latest(n)[s]}]>>]
  <2>1. FoldSolved(S, Propers, a, Latest(n), F)
    BY <1>7, FoldExists
  <2> QED
    BY <2>1 DEF FoldSolved
<1>9. ASSUME NEW s \in SUBSET S, s # {}
      PROVE  f[s] = CopyOne(f[s \ {Max(s)}], pairs[Max(s)])
  <2>1. Latest(n)[s] \in S /\ Latest(n)[s] = Max(s) /\ s \ {Max(s)} \in SUBSET S
    BY <1>6, <1>9
  <2>2. f[s \ {Max(s)}] \in Propers
    BY <1>8, <2>1
  <2> QED
    BY <1>5, <1>8, <1>9, <2>1, <2>2
<1>10. f = Body(f)
  <2>1. f = [s \in SUBSET S |-> f[s]]
    OBVIOUS
  <2> QED
    BY <1>8, <1>9, <2>1
<1>11. g = Body(g)
  BY <1>10
<1>12. g[S] = CopyAcross(a, pairs)
  BY <1>1 DEF CopyAcross, CopyOne, FoldLeft, MapThenFoldSet
<1> HIDE DEF g
<1>13. FoldFollowed(S, Propers, a, Latest(n), F, g)
  <2>1. g[{}] = a /\ \A s \in SUBSET S : s # {} =>
          g[s] = CopyOne(g[s \ {Max(s)}], pairs[Max(s)])
    BY <1>11
  <2> SUFFICES ASSUME NEW s \in SUBSET S, s # {}, g[s \ {Latest(n)[s]}] \in Propers
               PROVE  g[s] = F[<<Latest(n)[s], g[s \ {Latest(n)[s]}]>>]
    BY <2>1 DEF FoldFollowed
  <2>2. Latest(n)[s] \in S /\ Latest(n)[s] = Max(s)
    BY <1>6
  <2> QED
    BY <1>5, <2>1, <2>2
<1>14. Ordered(n, Propers, a, F, g[S])
  BY <1>1, <1>7, <1>13, FoldOrdered
<1>15. PICK h : /\ h[0] = a /\ h[n] = g[S]
                /\ \A k \in 0 .. n : h[k] \in Propers
                /\ \A k \in 1 .. n : h[k] = F[<<k, h[k - 1]>>]
  BY <1>14 DEF Ordered
<1> DEFINE at == [k \in S |-> pairs[k][2]]
           with == [k \in S |-> Cross(h[k - 1].tags[pairs[k][1]])]
<1>16. ASSUME NEW k \in S
       PROVE  /\ at[k] \in Values /\ with[k] \in SUBSET Tag
              /\ Adds(h[k - 1], h[k], at[k], with[k])
  <2> DEFINE b == h[k - 1]
  <2>1. b \in Propers /\ Proper(b)
    <3>1. k - 1 \in 0 .. n
      BY <1>1
    <3> QED
      BY <1>4, <1>15, <3>1
  <2>2. h[k] = CopyOne(b, pairs[k])
    BY <1>5, <1>15, <2>1
  <2>3. pairs[k] \in Values \X Values
    BY <1>1
  <2> HIDE DEF b
  <2>4. Adds(b, h[k], pairs[k][2], Cross(b.tags[pairs[k][1]]))
    BY <2>1, <2>2, <2>3, CopyOneAdds
  <2>5. Cross(b.tags[pairs[k][1]]) \in SUBSET Tag
    <3>1. b.tags[pairs[k][1]] \in SUBSET Tag /\ IsFiniteSet(b.tags[pairs[k][1]])
      BY <2>1, <2>3, AccFields DEF Proper, Kept
    <3> QED
      BY <3>1, CrossFacts DEF Addable
  <2> QED
    BY <2>3, <2>4, <2>5 DEF b
<1> HIDE DEF at, with, S
<1>17. Run(h, n, at, with)
  BY <1>15, <1>16 DEF Run, S
<1> QED
  BY <1>12, <1>15, <1>17 DEF CopySteps, at, with, S

-----------------------------------------------------------------------------
(* What an operation hands on.                                             *)

Sensible(op) == op \in Operation /\ (op.kind = "store" => Len(op.ins) = 3)

LEMMA OperationFields ==
  ASSUME NEW op, Sensible(op)
  PROVE  /\ op.kind \in {"add", "load", "store", "call", "other"}
         /\ op.ins \in Seq(Values) /\ op.outs \in Seq(Values)
         /\ op.at \in SUBSET Int /\ op.delta \in SUBSET Int
         /\ op.args \in Seq(Values \X Values) /\ op.returns \in Seq(Values \X Values)
         /\ op.kind = "store" => Len(op.ins) = 3
BY DEF Sensible, Operation

Hidden(op, t) == t.storage /\ {} \notin {t.at, op.at} /\ t.at # op.at

\* What the operation makes of the tag t of its input i.
Carried(op, i, t) ==
  IF op.kind = "store"
  THEN IF i = 2 THEN {} ELSE IF i = 3 THEN {Stored(t, op)} ELSE {t}
  ELSE IF op.kind = "load" THEN IF Hidden(op, t) THEN {} ELSE {Loaded(t)}
  ELSE IF op.kind = "add" THEN {Shifted(t, op)}
  ELSE {t}

\* Transfer is what the operation makes of each tag of each input.
LEMMA TransferIs ==
  ASSUME NEW op, Sensible(op), NEW T
  PROVE  \A x : x \in Transfer(op, T) <=>
           \E i \in DOMAIN op.ins : \E t \in T[op.ins[i]] : x \in Carried(op, i, t)
<1>1. op.kind \in {"add", "load", "store", "call", "other"} /\ op.ins \in Seq(Values)
      /\ (op.kind = "store" => Len(op.ins) = 3)
  BY OperationFields
<1>2. CASE op.kind = "store"
  <2>1. DOMAIN op.ins = {1, 2, 3}
    BY <1>1, <1>2
  <2>2. Transfer(op, T) = T[op.ins[1]] \cup {Stored(t, op) : t \in T[op.ins[3]]}
    BY <1>2 DEF Transfer, Seen, Taken
  <2>3. \A i, t : Carried(op, i, t) = IF i = 2 THEN {} ELSE IF i = 3 THEN {Stored(t, op)} ELSE {t}
    BY <1>2 DEF Carried
  <2> QED
    BY <2>1, <2>2, <2>3
<1> DEFINE taken == UNION {T[op.ins[i]] : i \in DOMAIN op.ins}
<1>3. \A t : t \in taken <=> \E i \in DOMAIN op.ins : t \in T[op.ins[i]]
  OBVIOUS
<1>4. op.kind # "store" => Taken(op, T) = taken
  BY DEF Taken
<1> HIDE DEF taken
<1>5. CASE op.kind = "load"
  <2>1. Transfer(op, T) = {Loaded(t) : t \in {u \in taken : ~ Hidden(op, u)}}
    BY <1>4, <1>5 DEF Transfer, Seen, Hidden
  <2>2. \A i, t : Carried(op, i, t) = IF Hidden(op, t) THEN {} ELSE {Loaded(t)}
    BY <1>5 DEF Carried
  <2> QED
    BY <1>3, <2>1, <2>2
<1>6. CASE op.kind = "add"
  <2>1. Transfer(op, T) = {Shifted(t, op) : t \in taken}
    BY <1>4, <1>6 DEF Transfer, Seen
  <2>2. \A i, t : Carried(op, i, t) = {Shifted(t, op)}
    BY <1>6 DEF Carried
  <2> QED
    BY <1>3, <2>1, <2>2
<1>7. CASE op.kind \in {"call", "other"}
  <2>1. Transfer(op, T) = taken
    BY <1>4, <1>7 DEF Transfer, Seen
  <2>2. \A x, i, t : x \in Carried(op, i, t) <=> x = t
    BY <1>7 DEF Carried
  <2> QED
    BY <1>3, <2>1, <2>2
<1> QED
  BY <1>1, <1>2, <1>5, <1>6, <1>7

Made(source, form, storage, at, begin, end, exact, depth) ==
  [source |-> source, form |-> form, storage |-> storage, at |-> at, begin |-> begin,
   end |-> end, exact |-> exact, depth |-> depth]

LEMMA MadeTag ==
  ASSUME NEW source \in Nat, NEW form \in Forms, NEW storage \in BOOLEAN,
         NEW at \in SUBSET Int, NEW begin \in Nat, NEW end \in Nat,
         NEW exact \in BOOLEAN, NEW depth \in Nat,
         NEW t, t = Made(source, form, storage, at, begin, end, exact, depth)
  PROVE  /\ t \in Tag /\ Key(t) = <<source, form, storage, at>>
         /\ t.begin = begin /\ t.end = end /\ t.depth = depth
<1>1. t \in Tag
  BY DEF Made, Tag
<1>2. /\ t.source = source /\ t.form = form /\ t.storage = storage /\ t.at = at
      /\ t.begin = begin /\ t.end = end /\ t.depth = depth
  BY DEF Made
<1> QED
  BY <1>1, <1>2 DEF Key

LEMMA StoredFacts ==
  ASSUME NEW op, Sensible(op), NEW t \in Tag
  PROVE  LET x == Stored(t, op)
         IN  /\ x \in Tag /\ Key(x) = <<t.source, t.form, TRUE, op.at>>
             /\ x.begin = t.begin /\ x.end = t.end /\ x.depth = t.depth
<1> DEFINE x == Stored(t, op)
           yes == TRUE
<1>1. x = Made(t.source, t.form, yes, op.at, t.begin, t.end, t.exact, t.depth)
  <2>1. x = [t EXCEPT !.storage = yes, !.at = op.at]
    BY DEF Stored
  <2> HIDE DEF x, yes
  <2> QED
    BY <2>1 DEF Made, Tag
<1>2. op.at \in SUBSET Int
  BY OperationFields
<1>3. yes \in BOOLEAN
  OBVIOUS
<1> HIDE DEF x, yes
<1>4. /\ x \in Tag /\ Key(x) = <<t.source, t.form, yes, op.at>>
      /\ x.begin = t.begin /\ x.end = t.end /\ x.depth = t.depth
  BY <1>1, <1>2, <1>3, TagFields, MadeTag
<1> QED
  BY <1>4 DEF x, yes

\* The bytes that are loaded over an exact pointer.
Reached(begin) == Min({Length - 1, begin + Width - 1})

LEMMA LoadedFacts ==
  ASSUME NEW t \in Tag
  PROVE  LET x == Loaded(t)
         IN  /\ x \in Tag /\ x.depth = t.depth
             /\ Key(x) = IF t.storage THEN <<t.source, t.form, FALSE, t.at>>
                         ELSE IF t.form = "pointer" THEN <<t.source, "bytes", FALSE, t.at>>
                         ELSE Key(t)
             /\ t.storage \/ t.form # "pointer" => x.begin = t.begin /\ x.end = t.end
             /\ ~ t.storage /\ t.form = "pointer" /\ t.exact =>
                  x.begin = t.begin /\ x.end = Reached(t.begin)
<1> DEFINE x == Loaded(t)
<1>1. "bytes" \in Forms /\ FALSE \in BOOLEAN
  BY DEF Forms
<1>2. CASE t.storage
  <2> DEFINE no == FALSE
  <2>1. x = Made(t.source, t.form, no, t.at, t.begin, t.end, t.exact, t.depth)
    <3>1. x = [t EXCEPT !.storage = no]
      BY <1>2 DEF Loaded
    <3> HIDE DEF x, no
    <3> QED
      BY <3>1 DEF Made, Tag
  <2>2. no \in BOOLEAN
    OBVIOUS
  <2> HIDE DEF x, no
  <2>3. /\ x \in Tag /\ Key(x) = <<t.source, t.form, no, t.at>>
        /\ x.begin = t.begin /\ x.end = t.end /\ x.depth = t.depth
    BY <2>1, <2>2, TagFields, MadeTag
  <2> QED
    BY <1>2, <2>3 DEF x, no
<1>3. CASE ~ t.storage /\ t.form # "pointer"
  <2>1. x = t
    BY <1>3 DEF Loaded
  <2> QED
    BY <1>3, <2>1
<1>4. CASE ~ t.storage /\ t.form = "pointer"
  <2>1. t.storage = FALSE
    BY <1>4, TagFields
  <2>2. CASE t.exact
    <3>1. x = Made(t.source, "bytes", t.storage, t.at, t.begin, Reached(t.begin), t.exact, t.depth)
      BY <1>4, <2>2 DEF Loaded, Made, Tag, Reached
    <3>2. Reached(t.begin) \in Nat
      <4>1. t.begin \in Nat /\ Length \in Nat \ {0} /\ Width \in Nat \ {0}
        BY TagFields, Constants
      <4>2. Length - 1 \in Nat /\ t.begin + Width - 1 \in Nat
        BY <4>1
      <4>3. Reached(t.begin) \in {Length - 1, t.begin + Width - 1}
        BY <4>2, MinMaxOfTwo DEF Reached
      <4> QED
        BY <4>2, <4>3
    <3> HIDE DEF x
    <3>3. /\ x \in Tag /\ Key(x) = <<t.source, "bytes", t.storage, t.at>>
          /\ x.begin = t.begin /\ x.end = Reached(t.begin) /\ x.depth = t.depth
      BY <1>1, <3>1, <3>2, TagFields, MadeTag
    <3> QED
      BY <1>4, <2>1, <3>3 DEF x
  <2>3. CASE ~ t.exact
    <3>1. x = Made(t.source, "bytes", t.storage, t.at, 0, Length - 1, t.exact, t.depth)
      BY <1>4, <2>3 DEF Loaded, Made, Tag
    <3>2. 0 \in Nat /\ Length - 1 \in Nat
      BY Constants
    <3> HIDE DEF x
    <3>3. x \in Tag /\ Key(x) = <<t.source, "bytes", t.storage, t.at>> /\ x.depth = t.depth
      BY <1>1, <3>1, <3>2, TagFields, MadeTag
    <3> QED
      BY <1>4, <2>1, <2>3, <3>3 DEF x
  <2> QED
    BY <2>2, <2>3
<1> QED
  BY <1>2, <1>3, <1>4

LEMMA ShiftedFacts ==
  ASSUME NEW op, Sensible(op), NEW t \in Tag
  PROVE  LET x == Shifted(t, op)
             moved == t.begin + (CHOOSE d \in op.delta : TRUE)
         IN  /\ x \in Tag /\ x.depth = t.depth /\ Key(x) = Key(t)
             /\ x.begin = IF t.form = "pointer" /\ op.delta # {} /\ moved >= 0
                          THEN moved ELSE t.begin
             /\ x.end = IF t.form = "pointer" /\ op.delta # {}
                        THEN IF moved >= 0 THEN moved ELSE t.begin
                        ELSE t.end
<1> DEFINE x == Shifted(t, op)
           moved == t.begin + (CHOOSE d \in op.delta : TRUE)
           no == FALSE
<1>1. no \in BOOLEAN /\ Key(t) = <<t.source, t.form, t.storage, t.at>>
  BY DEF Key
<1>2. CASE t.form # "pointer"
  <2>1. x = t
    BY <1>2 DEF Shifted
  <2> QED
    BY <1>2, <2>1
<1>3. CASE t.form = "pointer" /\ op.delta = {}
  <2>1. x = Made(t.source, t.form, t.storage, t.at, t.begin, t.end, no, t.depth)
    <3>1. x = [t EXCEPT !.exact = no]
      BY <1>3 DEF Shifted
    <3> HIDE DEF x, no
    <3> QED
      BY <3>1 DEF Made, Tag
  <2> HIDE DEF x, no
  <2>2. /\ x \in Tag /\ Key(x) = <<t.source, t.form, t.storage, t.at>>
        /\ x.begin = t.begin /\ x.end = t.end /\ x.depth = t.depth
    BY <1>1, <2>1, TagFields, MadeTag
  <2> QED
    BY <1>1, <1>3, <2>2 DEF x
<1>4. CASE t.form = "pointer" /\ op.delta # {}
  <2>1. moved \in Int
    <3>1. op.delta \in SUBSET Int
      BY OperationFields
    <3>2. (CHOOSE d \in op.delta : TRUE) \in Int
      BY <1>4, <3>1
    <3>3. t.begin \in Nat
      BY TagFields
    <3> QED
      BY <3>2, <3>3
  <2>2. CASE moved >= 0
    <3>1. ~ (moved < 0) /\ moved \in Nat
      BY <2>1, <2>2
    <3>2. x = [t EXCEPT !.begin = moved, !.end = moved]
      BY <1>4, <3>1 DEF Shifted
    <3> HIDE DEF x, no, moved
    <3>3. x = Made(t.source, t.form, t.storage, t.at, moved, moved, t.exact, t.depth)
      BY <3>2 DEF Made, Tag
    <3>4. /\ x \in Tag /\ Key(x) = <<t.source, t.form, t.storage, t.at>>
          /\ x.begin = moved /\ x.end = moved /\ x.depth = t.depth
      BY <3>1, <3>3, TagFields, MadeTag
    <3> QED
      BY <1>1, <1>4, <2>2, <3>4 DEF x, moved
  <2>3. CASE ~ (moved >= 0)
    <3>1. moved < 0
      BY <2>1, <2>3
    <3>2. x = [t EXCEPT !.exact = no, !.end = t.begin]
      BY <1>4, <3>1 DEF Shifted
    <3> HIDE DEF x, no, moved
    <3>3. x = Made(t.source, t.form, t.storage, t.at, t.begin, t.begin, no, t.depth)
      BY <3>2 DEF Made, Tag
    <3>4. /\ x \in Tag /\ Key(x) = <<t.source, t.form, t.storage, t.at>>
          /\ x.begin = t.begin /\ x.end = t.begin /\ x.depth = t.depth
      BY <1>1, <3>3, TagFields, MadeTag
    <3> QED
      BY <1>1, <1>4, <2>3, <3>4 DEF x, moved
  <2> QED
    BY <2>2, <2>3
<1> QED
  BY <1>2, <1>3, <1>4

\* What becomes of a tag keeps its depth, and its key is what Through says.
LEMMA CarriedFacts ==
  ASSUME NEW op, Sensible(op), NEW i \in DOMAIN op.ins, NEW t \in Tag
  PROVE  /\ \A x \in Carried(op, i, t) :
              x \in Tag /\ x.depth = t.depth /\ Key(x) \in Through(op, i, Key(t))
         /\ \A k \in Through(op, i, Key(t)) : \E x \in Carried(op, i, t) : Key(x) = k
<1> DEFINE k == Key(t)
           P(these, keys) ==
             /\ \A x \in these : x \in Tag /\ x.depth = t.depth /\ Key(x) \in keys
             /\ \A j \in keys : \E x \in these : Key(x) = j
<1>1. k[1] = t.source /\ k[2] = t.form /\ k[3] = t.storage /\ k[4] = t.at
      /\ k = <<t.source, t.form, t.storage, t.at>>
  BY DEF Key
<1>2. t \in Tag /\ t.storage \in BOOLEAN /\ t.depth = t.depth
  BY TagFields
<1>3. op.kind \in {"add", "load", "store", "call", "other"}
  BY OperationFields
<1>4. (k[3] /\ {} \notin {k[4], op.at} /\ k[4] # op.at) <=> Hidden(op, t)
  BY <1>1 DEF Hidden
<1> HIDE DEF k
<1>5. P({}, {})
  OBVIOUS
<1>6. P({t}, {k})
  BY <1>2 DEF k
<1>7. CASE op.kind = "store" /\ i = 2
  <2>1. Carried(op, i, t) = {} /\ Through(op, i, k) = {}
    BY <1>7 DEF Carried, Through
  <2> QED
    BY <2>1, <1>5 DEF k
<1>8. CASE op.kind = "store" /\ i = 3
  <2>1. Carried(op, i, t) = {Stored(t, op)} /\ Through(op, i, k) = {<<k[1], k[2], TRUE, op.at>>}
    BY <1>8 DEF Carried, Through
  <2>2. /\ Stored(t, op) \in Tag /\ Key(Stored(t, op)) = <<k[1], k[2], TRUE, op.at>>
        /\ Stored(t, op).depth = t.depth
    BY <1>1, StoredFacts
  <2> QED
    BY <2>1, <2>2 DEF k
<1>9. CASE op.kind = "store" /\ i # 2 /\ i # 3
  <2>1. Carried(op, i, t) = {t} /\ Through(op, i, k) = {k}
    BY <1>9 DEF Carried, Through
  <2> QED
    BY <2>1, <1>6 DEF k
<1>10. CASE op.kind = "load" /\ Hidden(op, t)
  <2>1. Carried(op, i, t) = {} /\ Through(op, i, k) = {}
    BY <1>4, <1>10 DEF Carried, Through
  <2> QED
    BY <2>1, <1>5 DEF k
<1>11. CASE op.kind = "load" /\ ~ Hidden(op, t)
  <2>1. Carried(op, i, t) = {Loaded(t)}
    BY <1>11 DEF Carried
  <2>2. Through(op, i, k) = {IF k[3] THEN <<k[1], k[2], FALSE, k[4]>>
                             ELSE IF k[2] = "pointer" THEN <<k[1], "bytes", FALSE, k[4]>>
                             ELSE k}
    <3>1. op.kind # "store" /\ op.kind = "load"
      BY <1>11
    <3>2. ~ (k[3] /\ {} \notin {k[4], op.at} /\ k[4] # op.at)
      BY <1>4, <1>11
    <3>3. CASE k[3]
      BY <3>1, <3>2, <3>3 DEF Through
    <3>4. CASE ~ k[3] /\ k[2] = "pointer"
      BY <3>1, <3>4 DEF Through
    <3>5. CASE ~ k[3] /\ k[2] # "pointer"
      BY <3>1, <3>5 DEF Through
    <3> QED
      BY <3>3, <3>4, <3>5
  <2>3. /\ Loaded(t) \in Tag /\ Loaded(t).depth = t.depth
        /\ Through(op, i, k) = {Key(Loaded(t))}
    <3>1. /\ Loaded(t) \in Tag /\ Loaded(t).depth = t.depth
          /\ Key(Loaded(t)) = IF k[3] THEN <<k[1], k[2], FALSE, k[4]>>
                              ELSE IF k[2] = "pointer" THEN <<k[1], "bytes", FALSE, k[4]>>
                              ELSE k
      BY <1>1, LoadedFacts DEF k
    <3> QED
      BY <2>2, <3>1
  <2> QED
    BY <2>1, <2>3 DEF k
<1>12. CASE op.kind = "add"
  <2>1. Carried(op, i, t) = {Shifted(t, op)} /\ Through(op, i, k) = {k}
    BY <1>12 DEF Carried, Through
  <2>2. Shifted(t, op) \in Tag /\ Key(Shifted(t, op)) = k /\ Shifted(t, op).depth = t.depth
    BY ShiftedFacts DEF k
  <2> QED
    BY <2>1, <2>2 DEF k
<1>13. CASE op.kind \in {"call", "other"}
  <2>1. Carried(op, i, t) = {t} /\ Through(op, i, k) = {k}
    BY <1>13 DEF Carried, Through
  <2> QED
    BY <2>1, <1>6 DEF k
<1> QED
  BY <1>3, <1>7, <1>8, <1>9, <1>10, <1>11, <1>12, <1>13

Sharp(t) == t.form = "pointer" => t.exact

LEMMA CarriedLike ==
  ASSUME NEW op, Sensible(op), NEW i \in DOMAIN op.ins, NEW t \in Tag, NEW u \in Tag,
         Like(t, u), NEW x \in Carried(op, i, u)
  PROVE  \E y \in Carried(op, i, t) :
           Level(y, x) /\ (Sharp(u) => y.begin = x.begin /\ y.end = x.end)
<1>1. /\ t.source = u.source /\ t.form = u.form /\ t.storage = u.storage /\ t.at = u.at
      /\ Key(t) = Key(u) /\ t.begin = u.begin /\ t.end = u.end /\ t.depth = u.depth
  BY DEF Like, Key
<1>2. Hidden(op, t) <=> Hidden(op, u)
  BY <1>1 DEF Hidden
<1>3. Sharp(u) /\ u.form = "pointer" => u.exact /\ t.exact
  BY DEF Sharp, Like
<1>4. CASE x = u /\ t \in Carried(op, i, t)
  BY <1>1, <1>4 DEF Level
<1>5. CASE x = Stored(u, op) /\ Stored(t, op) \in Carried(op, i, t)
  <2> DEFINE y == Stored(t, op)
  <2>1. /\ Key(x) = <<u.source, u.form, TRUE, op.at>> /\ x.begin = u.begin /\ x.end = u.end
        /\ x.depth = u.depth
    BY <1>5, StoredFacts
  <2>2. /\ Key(y) = <<t.source, t.form, TRUE, op.at>> /\ y.begin = t.begin /\ y.end = t.end
        /\ y.depth = t.depth
    BY StoredFacts
  <2> HIDE DEF y
  <2>3. Level(y, x) /\ y.begin = x.begin /\ y.end = x.end
    BY <1>1, <2>1, <2>2 DEF Level
  <2> QED
    BY <1>5, <2>3 DEF y
<1>6. CASE x = Loaded(u) /\ Loaded(t) \in Carried(op, i, t)
  <2> DEFINE y == Loaded(t)
  <2>1. /\ Key(x) = (IF u.storage THEN <<u.source, u.form, FALSE, u.at>>
                     ELSE IF u.form = "pointer" THEN <<u.source, "bytes", FALSE, u.at>>
                     ELSE Key(u))
        /\ x.depth = u.depth
        /\ (u.storage \/ u.form # "pointer" => x.begin = u.begin /\ x.end = u.end)
        /\ (~ u.storage /\ u.form = "pointer" /\ u.exact =>
              x.begin = u.begin /\ x.end = Reached(u.begin))
    BY <1>6, LoadedFacts
  <2>2. /\ Key(y) = (IF t.storage THEN <<t.source, t.form, FALSE, t.at>>
                     ELSE IF t.form = "pointer" THEN <<t.source, "bytes", FALSE, t.at>>
                     ELSE Key(t))
        /\ y.depth = t.depth
        /\ (t.storage \/ t.form # "pointer" => y.begin = t.begin /\ y.end = t.end)
        /\ (~ t.storage /\ t.form = "pointer" /\ t.exact =>
              y.begin = t.begin /\ y.end = Reached(t.begin))
    BY LoadedFacts
  <2> HIDE DEF y
  <2>3. Level(y, x)
    BY <1>1, <2>1, <2>2 DEF Level
  <2>4. Sharp(u) => y.begin = x.begin /\ y.end = x.end
    BY <1>1, <1>3, <2>1, <2>2
  <2> QED
    BY <1>6, <2>3, <2>4 DEF y
<1>7. CASE x = Shifted(u, op) /\ Shifted(t, op) \in Carried(op, i, t)
  <2> DEFINE y == Shifted(t, op)
             step == CHOOSE d \in op.delta : TRUE
  <2>1. /\ x.depth = u.depth /\ Key(x) = Key(u)
        /\ x.begin = IF u.form = "pointer" /\ op.delta # {} /\ u.begin + step >= 0
                     THEN u.begin + step ELSE u.begin
        /\ x.end = IF u.form = "pointer" /\ op.delta # {}
                   THEN IF u.begin + step >= 0 THEN u.begin + step ELSE u.begin
                   ELSE u.end
    BY <1>7, ShiftedFacts
  <2>2. /\ y.depth = t.depth /\ Key(y) = Key(t)
        /\ y.begin = IF t.form = "pointer" /\ op.delta # {} /\ t.begin + step >= 0
                     THEN t.begin + step ELSE t.begin
        /\ y.end = IF t.form = "pointer" /\ op.delta # {}
                   THEN IF t.begin + step >= 0 THEN t.begin + step ELSE t.begin
                   ELSE t.end
    BY ShiftedFacts
  <2> HIDE DEF y, step
  <2>3. Level(y, x)
    BY <1>1, <2>1, <2>2 DEF Level
  <2>4. y.begin = x.begin /\ y.end = x.end
    BY <1>1, <2>1, <2>2
  <2> QED
    BY <1>7, <2>3, <2>4 DEF y
<1>8. \/ x = u /\ t \in Carried(op, i, t)
      \/ x = Stored(u, op) /\ Stored(t, op) \in Carried(op, i, t)
      \/ x = Loaded(u) /\ Loaded(t) \in Carried(op, i, t)
      \/ x = Shifted(u, op) /\ Shifted(t, op) \in Carried(op, i, t)
  BY <1>2 DEF Carried
<1> QED
  BY <1>4, <1>5, <1>6, <1>7, <1>8

\* The tags without the pointers whose offset is not exact.
Exact(T) == [v \in Values |-> {t \in T[v] : Sharp(t)}]

LEMMA InsAreValues ==
  ASSUME NEW op, Sensible(op)
  PROVE  \A i \in DOMAIN op.ins : op.ins[i] \in Values
BY OperationFields

\* What an operation hands on of tags that agree, agrees.
LEMMA TransferAgrees ==
  ASSUME NEW op, Sensible(op), NEW T \in [Values -> SUBSET Tag],
         NEW U \in [Values -> SUBSET Tag], Same(T, U)
  PROVE  /\ \A x \in Transfer(op, U) : \E y \in Transfer(op, T) : Level(y, x)
         /\ \A x \in Transfer(op, Exact(U)) : \E y \in Transfer(op, Exact(T)) :
              Key(y) = Key(x) /\ y.begin = x.begin /\ y.end = x.end
<1>1. ASSUME NEW x \in Transfer(op, U) PROVE \E y \in Transfer(op, T) : Level(y, x)
  <2>1. PICK i \in DOMAIN op.ins : \E u \in U[op.ins[i]] : x \in Carried(op, i, u)
    BY TransferIs
  <2>2. PICK u \in U[op.ins[i]] : x \in Carried(op, i, u)
    BY <2>1
  <2>3. op.ins[i] \in Values
    BY InsAreValues
  <2>4. PICK t \in T[op.ins[i]] : Like(t, u)
    BY <2>3 DEF Same
  <2>5. t \in Tag /\ u \in Tag
    BY <2>3
  <2>6. PICK y \in Carried(op, i, t) : Level(y, x)
    BY <2>2, <2>4, <2>5, CarriedLike
  <2>7. y \in Transfer(op, T)
    BY TransferIs
  <2> QED
    BY <2>6, <2>7
<1>2. ASSUME NEW x \in Transfer(op, Exact(U))
      PROVE  \E y \in Transfer(op, Exact(T)) :
               Key(y) = Key(x) /\ y.begin = x.begin /\ y.end = x.end
  <2>1. PICK i \in DOMAIN op.ins : \E u \in Exact(U)[op.ins[i]] : x \in Carried(op, i, u)
    BY TransferIs
  <2>2. PICK u \in Exact(U)[op.ins[i]] : x \in Carried(op, i, u)
    BY <2>1
  <2>3. op.ins[i] \in Values
    BY InsAreValues
  <2>4. u \in U[op.ins[i]] /\ Sharp(u)
    BY <2>3 DEF Exact
  <2>5. PICK t \in T[op.ins[i]] : Like(t, u)
    BY <2>3, <2>4 DEF Same
  <2>6. t \in Tag /\ u \in Tag
    BY <2>3, <2>4
  <2>7. PICK y \in Carried(op, i, t) :
          Level(y, x) /\ (Sharp(u) => y.begin = x.begin /\ y.end = x.end)
    BY <2>2, <2>5, <2>6, CarriedLike
  <2>8. Sharp(t)
    BY <2>4, <2>5 DEF Sharp, Like, Key
  <2>9. t \in Exact(T)[op.ins[i]]
    BY <2>3, <2>8 DEF Exact
  <2>10. y \in Transfer(op, Exact(T))
    BY <2>9, TransferIs
  <2> QED
    BY <2>4, <2>7, <2>10 DEF Level
<1> QED
  BY <1>1, <1>2

\* What an operation hands on can be added.
LEMMA TransferAddable ==
  ASSUME Limits, NEW op, Sensible(op), NEW T \in [Values -> SUBSET Tag], Kept(T)
  PROVE  Addable(Transfer(op, T))
<1>1. ASSUME NEW x \in Transfer(op, T) PROVE x \in Tag /\ x.depth <= functionDepth
  <2>1. PICK i \in DOMAIN op.ins : \E t \in T[op.ins[i]] : x \in Carried(op, i, t)
    BY TransferIs
  <2>2. PICK t \in T[op.ins[i]] : x \in Carried(op, i, t)
    BY <2>1
  <2>3. op.ins[i] \in Values
    BY InsAreValues
  <2>4. t \in Tag /\ t.depth <= functionDepth
    BY <2>3 DEF Kept
  <2> QED
    BY <2>2, <2>4, CarriedFacts
<1>2. \A i \in DOMAIN op.ins : IsFiniteSet(T[op.ins[i]])
  BY InsAreValues DEF Kept
<1>3. IsFiniteSet(DOMAIN op.ins)
  <2>1. DOMAIN op.ins = 1 .. Len(op.ins) /\ Len(op.ins) \in Nat
    BY OperationFields
  <2> QED
    BY <2>1, UpToFinite
<1> DEFINE f == [x \in Tag |-> IF op.kind = "load" THEN Loaded(x)
                              ELSE IF op.kind = "add" THEN Shifted(x, op)
                              ELSE Stored(x, op)]
<1>4. IsFiniteSet(Taken(op, T))
  <2>1. CASE op.kind = "store"
    <3>1. 1 \in DOMAIN op.ins /\ 3 \in DOMAIN op.ins
      BY <2>1, OperationFields
    <3> DEFINE S == T[op.ins[3]]
    <3>2. IsFiniteSet(S) /\ IsFiniteSet(T[op.ins[1]]) /\ S \in SUBSET Tag
      BY <1>2, <3>1, InsAreValues
    <3> HIDE DEF f
    <3>3. IsFiniteSet({f[x] : x \in S})
      BY <3>2, ImageFinite
    <3>4. {f[x] : x \in S} = {Stored(x, op) : x \in S}
      BY <2>1, <3>2 DEF f
    <3>5. IsFiniteSet(T[op.ins[1]] \cup {Stored(x, op) : x \in S})
      BY <3>2, <3>3, <3>4, FS_Union
    <3> QED
      BY <2>1, <3>5 DEF Taken
  <2>2. CASE op.kind # "store"
    <3> DEFINE g == [i \in DOMAIN op.ins |-> T[op.ins[i]]]
    <3>1. IsFiniteSet({g[i] : i \in DOMAIN op.ins})
      <4> HIDE DEF g
      <4> QED
        BY <1>3, ImageFinite
    <3>2. \A s \in {g[i] : i \in DOMAIN op.ins} : IsFiniteSet(s)
      BY <1>2
    <3>3. IsFiniteSet(UNION {g[i] : i \in DOMAIN op.ins})
      <4> HIDE DEF g
      <4> QED
        BY <3>1, <3>2, FS_UNION
    <3>4. {g[i] : i \in DOMAIN op.ins} = {T[op.ins[i]] : i \in DOMAIN op.ins}
      OBVIOUS
    <3> QED
      BY <2>2, <3>3, <3>4 DEF Taken
  <2> QED
    BY <2>1, <2>2
<1> DEFINE seen == Seen(op, Taken(op, T))
<1>5. IsFiniteSet(seen)
  <2>1. seen \subseteq Taken(op, T)
    BY DEF Seen
  <2> QED
    BY <1>4, <2>1, FS_Subset
<1>6. IsFiniteSet(Transfer(op, T))
  <2>1. CASE op.kind \in {"load", "add"}
    <3>1. seen \in SUBSET Tag
      <4>1. op.kind # "store"
        BY <2>1
      <4>2. Taken(op, T) \in SUBSET Tag
        BY <4>1, InsAreValues DEF Taken
      <4> QED
        BY <4>2 DEF Seen
    <3> HIDE DEF seen, f
    <3>2. IsFiniteSet({f[x] : x \in seen})
      BY <1>5, ImageFinite
    <3>3. CASE op.kind = "load"
      <4>1. {f[x] : x \in seen} = {Loaded(x) : x \in seen}
        BY <3>1, <3>3 DEF f
      <4>2. Transfer(op, T) = {Loaded(x) : x \in seen}
        BY <3>3 DEF Transfer, seen
      <4> QED
        BY <3>2, <4>1, <4>2
    <3>4. CASE op.kind = "add"
      <4>1. {f[x] : x \in seen} = {Shifted(x, op) : x \in seen}
        BY <3>1, <3>4 DEF f
      <4>2. Transfer(op, T) = {Shifted(x, op) : x \in seen}
        BY <3>4 DEF Transfer, seen
      <4> QED
        BY <3>2, <4>1, <4>2
    <3> QED
      BY <2>1, <3>3, <3>4
  <2>2. CASE op.kind \notin {"load", "add"}
    <3>1. Transfer(op, T) = seen
      BY <2>2 DEF Transfer
    <3> QED
      BY <1>5, <3>1
  <2> QED
    BY <2>1, <2>2
<1> QED
  BY <1>1, <1>6 DEF Addable

-----------------------------------------------------------------------------
(* The outputs of an operation, and the block arguments.                   *)

AddToAll(a, outs, X) == FoldLeft(LAMBDA b, v : AddAll(b, v, X), a, outs)

AddStep(X, b, v) == AddAll(b, v, X)

LEMMA AddStepAdds ==
  ASSUME Limits, NEW X, Addable(X), NEW b, Proper(b), NEW v \in Values
  PROVE  Adds(b, AddStep(X, b, v), v, X) /\ X \in SUBSET Tag
BY AddAllAdds DEF AddStep, Addable

AddSteps(h, a, outs, X, b) ==
  LET n == Len(outs)
      at == [k \in 1 .. n |-> outs[k]]
      with == [k \in 1 .. n |-> X]
  IN  h[0] = a /\ h[n] = b /\ Run(h, n, at, with)

\* The same tags are added to one output after the other.
LEMMA AddRuns ==
  ASSUME Limits, NEW a, Proper(a), NEW outs \in Seq(Values), NEW X, Addable(X)
  PROVE  \E h : AddSteps(h, a, outs, X, AddToAll(a, outs, X))
<1> DEFINE n == Len(outs)
           S == 1 .. n
           F == [q \in S \X Propers |-> AddStep(X, q[2], outs[q[1]])]
           Body(f) == [s \in SUBSET S |->
             IF s = {} THEN a ELSE AddStep(X, f[s \ {Max(s)}], outs[Max(s)])]
           g == CHOOSE f : f = Body(f)
<1>1. n \in Nat /\ DOMAIN outs = S /\ \A k \in S : outs[k] \in Values
  OBVIOUS
<1>2. IsFiniteSet(S)
  BY <1>1, UpToFinite
<1>3. a \in Propers
  BY DEF Propers, Proper
<1>4. \A b \in Propers : Proper(b)
  BY DEF Propers
<1>5. ASSUME NEW k \in S, NEW b \in Propers
      PROVE  F[<<k, b>>] = AddStep(X, b, outs[k]) /\ F[<<k, b>>] \in Propers
  <2>1. F[<<k, b>>] = AddStep(X, b, outs[k])
    OBVIOUS
  <2>2. Adds(b, AddStep(X, b, outs[k]), outs[k], X)
    BY <1>1, <1>4, AddStepAdds
  <2> QED
    BY <2>1, <2>2 DEF Adds, Proper, Propers
<1>6. \A s \in SUBSET S : s # {} => Latest(n)[s] \in s /\ Latest(n)[s] = Max(s)
  BY <1>1, LatestIn
<1> HIDE DEF F
<1>7. FoldData(S, Propers, a, Latest(n), F)
  BY <1>2, <1>3, <1>5, <1>6 DEF FoldData
<1>8. PICK f \in [SUBSET S -> Propers] :
        /\ f[{}] = a
        /\ \A s \in SUBSET S : s # {} => f[s] = F[<<Latest(n)[s], f[s \ {Latest(n)[s]}]>>]
  <2>1. FoldSolved(S, Propers, a, Latest(n), F)
    BY <1>7, FoldExists
  <2> QED
    BY <2>1 DEF FoldSolved
<1>9. ASSUME NEW s \in SUBSET S, s # {}
      PROVE  f[s] = AddStep(X, f[s \ {Max(s)}], outs[Max(s)])
  <2>1. Latest(n)[s] \in S /\ Latest(n)[s] = Max(s) /\ s \ {Max(s)} \in SUBSET S
    BY <1>6, <1>9
  <2>2. f[s \ {Max(s)}] \in Propers
    BY <1>8, <2>1
  <2> QED
    BY <1>5, <1>8, <1>9, <2>1, <2>2
<1>10. f = Body(f)
  <2>1. f = [s \in SUBSET S |-> f[s]]
    OBVIOUS
  <2> QED
    BY <1>8, <1>9, <2>1
<1>11. g = Body(g)
  BY <1>10
<1>12. g[S] = AddToAll(a, outs, X)
  BY <1>1 DEF AddToAll, AddStep, FoldLeft, MapThenFoldSet
<1> HIDE DEF g
<1>13. FoldFollowed(S, Propers, a, Latest(n), F, g)
  <2>1. g[{}] = a /\ \A s \in SUBSET S : s # {} =>
          g[s] = AddStep(X, g[s \ {Max(s)}], outs[Max(s)])
    BY <1>11
  <2> SUFFICES ASSUME NEW s \in SUBSET S, s # {}, g[s \ {Latest(n)[s]}] \in Propers
               PROVE  g[s] = F[<<Latest(n)[s], g[s \ {Latest(n)[s]}]>>]
    BY <2>1 DEF FoldFollowed
  <2>2. Latest(n)[s] \in S /\ Latest(n)[s] = Max(s)
    BY <1>6
  <2> QED
    BY <1>5, <2>1, <2>2
<1>14. Ordered(n, Propers, a, F, g[S])
  BY <1>1, <1>7, <1>13, FoldOrdered
<1>15. PICK h : /\ h[0] = a /\ h[n] = g[S]
                /\ \A k \in 0 .. n : h[k] \in Propers
                /\ \A k \in 1 .. n : h[k] = F[<<k, h[k - 1]>>]
  BY <1>14 DEF Ordered
<1> DEFINE at == [k \in S |-> outs[k]]
           with == [k \in S |-> X]
<1>16. ASSUME NEW k \in S
       PROVE  /\ at[k] \in Values /\ with[k] \in SUBSET Tag
              /\ Adds(h[k - 1], h[k], at[k], with[k])
  <2> DEFINE b == h[k - 1]
  <2>1. b \in Propers /\ Proper(b)
    <3>1. k - 1 \in 0 .. n
      BY <1>1
    <3> QED
      BY <1>4, <1>15, <3>1
  <2>2. h[k] = AddStep(X, b, outs[k])
    BY <1>5, <1>15, <2>1
  <2>3. outs[k] \in Values
    BY <1>1
  <2> HIDE DEF b
  <2>4. Adds(b, h[k], outs[k], X)
    BY <2>1, <2>2, <2>3, AddStepAdds
  <2>5. X \in SUBSET Tag
    BY <2>1, <2>3, AddStepAdds
  <2> QED
    BY <2>3, <2>4, <2>5 DEF b
<1> HIDE DEF at, with, S
<1>17. Run(h, n, at, with)
  BY <1>15, <1>16 DEF Run, S
<1> QED
  BY <1>12, <1>15, <1>17 DEF AddSteps, at, with, S

BlockStep(a, p) == AddAll(a, p[2], a.tags[p[1]])

LEMMA BlockStepAdds ==
  ASSUME Limits, NEW a, Proper(a), NEW p \in Values \X Values
  PROVE  Adds(a, BlockStep(a, p), p[2], a.tags[p[1]]) /\ a.tags[p[1]] \in SUBSET Tag
<1>1. p[1] \in Values /\ p[2] \in Values
  OBVIOUS
<1>2. Addable(a.tags[p[1]])
  BY <1>1, AccFields DEF Proper, Kept, Addable
<1> QED
  BY <1>1, <1>2, AddAllAdds DEF BlockStep, Addable

BlockSteps(h, a, pairs, b) ==
  LET n == Len(pairs)
      at == [k \in 1 .. n |-> pairs[k][2]]
      with == [k \in 1 .. n |-> h[k - 1].tags[pairs[k][1]]]
  IN  h[0] = a /\ h[n] = b /\ Run(h, n, at, with)

LEMMA BlockRuns ==
  ASSUME Limits, NEW a, Proper(a), program.blocks \in Seq(Values \X Values)
  PROVE  \E h : BlockSteps(h, a, program.blocks, PropagateBlocks(a))
<1> DEFINE pairs == program.blocks
<1> DEFINE n == Len(pairs)
           S == 1 .. n
           F == [q \in S \X Propers |-> BlockStep(q[2], pairs[q[1]])]
           Body(f) == [s \in SUBSET S |->
             IF s = {} THEN a ELSE BlockStep(f[s \ {Max(s)}], pairs[Max(s)])]
           g == CHOOSE f : f = Body(f)
<1>1. n \in Nat /\ DOMAIN pairs = S /\ \A k \in S : pairs[k] \in Values \X Values
  OBVIOUS
<1>2. IsFiniteSet(S)
  BY <1>1, UpToFinite
<1>3. a \in Propers
  BY DEF Propers, Proper
<1>4. \A b \in Propers : Proper(b)
  BY DEF Propers
<1>5. ASSUME NEW k \in S, NEW b \in Propers
      PROVE  F[<<k, b>>] = BlockStep(b, pairs[k]) /\ F[<<k, b>>] \in Propers
  <2>1. F[<<k, b>>] = BlockStep(b, pairs[k])
    OBVIOUS
  <2>2. Adds(b, BlockStep(b, pairs[k]), pairs[k][2], b.tags[pairs[k][1]])
    BY <1>1, <1>4, BlockStepAdds
  <2> QED
    BY <2>1, <2>2 DEF Adds, Proper, Propers
<1>6. \A s \in SUBSET S : s # {} => Latest(n)[s] \in s /\ Latest(n)[s] = Max(s)
  BY <1>1, LatestIn
<1> HIDE DEF F
<1>7. FoldData(S, Propers, a, Latest(n), F)
  BY <1>2, <1>3, <1>5, <1>6 DEF FoldData
<1>8. PICK f \in [SUBSET S -> Propers] :
        /\ f[{}] = a
        /\ \A s \in SUBSET S : s # {} => f[s] = F[<<Latest(n)[s], f[s \ {Latest(n)[s]}]>>]
  <2>1. FoldSolved(S, Propers, a, Latest(n), F)
    BY <1>7, FoldExists
  <2> QED
    BY <2>1 DEF FoldSolved
<1>9. ASSUME NEW s \in SUBSET S, s # {}
      PROVE  f[s] = BlockStep(f[s \ {Max(s)}], pairs[Max(s)])
  <2>1. Latest(n)[s] \in S /\ Latest(n)[s] = Max(s) /\ s \ {Max(s)} \in SUBSET S
    BY <1>6, <1>9
  <2>2. f[s \ {Max(s)}] \in Propers
    BY <1>8, <2>1
  <2> QED
    BY <1>5, <1>8, <1>9, <2>1, <2>2
<1>10. f = Body(f)
  <2>1. f = [s \in SUBSET S |-> f[s]]
    OBVIOUS
  <2> QED
    BY <1>8, <1>9, <2>1
<1>11. g = Body(g)
  BY <1>10
<1>12. g[S] = PropagateBlocks(a)
  BY <1>1 DEF PropagateBlocks, BlockStep, FoldLeft, MapThenFoldSet
<1> HIDE DEF g
<1>13. FoldFollowed(S, Propers, a, Latest(n), F, g)
  <2>1. g[{}] = a /\ \A s \in SUBSET S : s # {} =>
          g[s] = BlockStep(g[s \ {Max(s)}], pairs[Max(s)])
    BY <1>11
  <2> SUFFICES ASSUME NEW s \in SUBSET S, s # {}, g[s \ {Latest(n)[s]}] \in Propers
               PROVE  g[s] = F[<<Latest(n)[s], g[s \ {Latest(n)[s]}]>>]
    BY <2>1 DEF FoldFollowed
  <2>2. Latest(n)[s] \in S /\ Latest(n)[s] = Max(s)
    BY <1>6
  <2> QED
    BY <1>5, <2>1, <2>2
<1>14. Ordered(n, Propers, a, F, g[S])
  BY <1>1, <1>7, <1>13, FoldOrdered
<1>15. PICK h : /\ h[0] = a /\ h[n] = g[S]
                /\ \A k \in 0 .. n : h[k] \in Propers
                /\ \A k \in 1 .. n : h[k] = F[<<k, h[k - 1]>>]
  BY <1>14 DEF Ordered
<1> DEFINE at == [k \in S |-> pairs[k][2]]
           with == [k \in S |-> h[k - 1].tags[pairs[k][1]]]
<1>16. ASSUME NEW k \in S
       PROVE  /\ at[k] \in Values /\ with[k] \in SUBSET Tag
              /\ Adds(h[k - 1], h[k], at[k], with[k])
  <2> DEFINE b == h[k - 1]
  <2>1. b \in Propers /\ Proper(b)
    <3>1. k - 1 \in 0 .. n
      BY <1>1
    <3> QED
      BY <1>4, <1>15, <3>1
  <2>2. h[k] = BlockStep(b, pairs[k])
    BY <1>5, <1>15, <2>1
  <2>3. pairs[k] \in Values \X Values
    BY <1>1
  <2> HIDE DEF b
  <2>4. Adds(b, h[k], pairs[k][2], b.tags[pairs[k][1]])
    BY <2>1, <2>2, <2>3, BlockStepAdds
  <2>5. b.tags[pairs[k][1]] \in SUBSET Tag
    BY <2>1, <2>3, BlockStepAdds
  <2> QED
    BY <2>3, <2>4, <2>5 DEF b
<1> HIDE DEF at, with, S
<1>17. Run(h, n, at, with)
  BY <1>15, <1>16 DEF Run, S
<1> QED
  BY <1>12, <1>15, <1>17 DEF BlockSteps, at, with, S

-----------------------------------------------------------------------------
(* One operation of a pass: what it completes and what it adds.            *)

\* The tags have crossed from the first value of each pair to the second.
Crosses(T, pairs) ==
  \A k \in DOMAIN pairs : \A t \in T[pairs[k][1]] : t.depth < functionDepth =>
    \E u \in T[pairs[k][2]] : Key(u) = Key(t) /\ u.depth <= t.depth + 1

\* Every output has what the operation hands on, as shallow and, but for the
\* pointers that are no longer exact, as wide.
HandsOn(T, op) ==
  \A k \in DOMAIN op.outs :
    /\ \A t \in Transfer(op, T) : \E u \in T[op.outs[k]] :
         Key(u) = Key(t) /\ u.depth <= t.depth
    /\ \A t \in Transfer(op, Exact(T)) : \E u \in T[op.outs[k]] :
         Key(u) = Key(t) /\ u.begin <= t.begin /\ t.end <= u.end

OpClosed(T, op) ==
  /\ op.kind = "call" => Crosses(T, op.args) /\ Crosses(T, op.returns)
  /\ Summarised(op) => HandsOn(T, op)

LEMMA OutsAreValues ==
  ASSUME NEW op, Sensible(op)
  PROVE  /\ \A k \in DOMAIN op.outs : op.outs[k] \in Values
         /\ \A k \in DOMAIN op.args : op.args[k] \in Values \X Values
         /\ \A k \in DOMAIN op.returns : op.returns[k] \in Values \X Values
BY OperationFields

LEMMA CrossesSame ==
  ASSUME NEW T, NEW U, Same(T, U), NEW pairs,
         \A k \in DOMAIN pairs : pairs[k] \in Values \X Values, Crosses(T, pairs)
  PROVE  Crosses(U, pairs)
<1> SUFFICES ASSUME NEW k \in DOMAIN pairs, NEW u \in U[pairs[k][1]], u.depth < functionDepth
             PROVE  \E w \in U[pairs[k][2]] : Key(w) = Key(u) /\ w.depth <= u.depth + 1
  BY DEF Crosses
<1>1. pairs[k][1] \in Values /\ pairs[k][2] \in Values
  OBVIOUS
<1>2. PICK t \in T[pairs[k][1]] : Like(t, u)
  BY <1>1 DEF Same
<1>3. Key(t) = Key(u) /\ t.depth = u.depth
  BY <1>2 DEF Like
<1>4. PICK x \in T[pairs[k][2]] : Key(x) = Key(t) /\ x.depth <= t.depth + 1
  BY <1>3 DEF Crosses
<1>5. PICK w \in U[pairs[k][2]] : Like(x, w)
  BY <1>1 DEF Same
<1>6. Key(w) = Key(x) /\ w.depth = x.depth
  BY <1>5 DEF Like
<1> QED
  BY <1>3, <1>4, <1>6

LEMMA HandsOnSame ==
  ASSUME NEW op, Sensible(op), NEW T \in [Values -> SUBSET Tag],
         NEW U \in [Values -> SUBSET Tag], Same(T, U), HandsOn(T, op)
  PROVE  HandsOn(U, op)
<1> SUFFICES ASSUME NEW k \in DOMAIN op.outs
             PROVE  /\ \A t \in Transfer(op, U) : \E u \in U[op.outs[k]] :
                         Key(u) = Key(t) /\ u.depth <= t.depth
                    /\ \A t \in Transfer(op, Exact(U)) : \E u \in U[op.outs[k]] :
                         Key(u) = Key(t) /\ u.begin <= t.begin /\ t.end <= u.end
  BY DEF HandsOn
<1>1. op.outs[k] \in Values
  BY OutsAreValues
<1>2. ASSUME NEW x \in T[op.outs[k]]
      PROVE  \E u \in U[op.outs[k]] : Key(u) = Key(x) /\ u.begin = x.begin /\ u.end = x.end
                                      /\ u.depth = x.depth
  <2>1. PICK u \in U[op.outs[k]] : Like(x, u)
    BY <1>1 DEF Same
  <2> QED
    BY <2>1 DEF Like
<1>3. ASSUME NEW t \in Transfer(op, U)
      PROVE  \E u \in U[op.outs[k]] : Key(u) = Key(t) /\ u.depth <= t.depth
  <2>1. PICK y \in Transfer(op, T) : Level(y, t)
    BY TransferAgrees
  <2>2. PICK x \in T[op.outs[k]] : Key(x) = Key(y) /\ x.depth <= y.depth
    BY DEF HandsOn
  <2>3. PICK u \in U[op.outs[k]] : Key(u) = Key(x) /\ u.depth = x.depth
    BY <1>2
  <2> QED
    BY <2>1, <2>2, <2>3 DEF Level
<1>4. ASSUME NEW t \in Transfer(op, Exact(U))
      PROVE  \E u \in U[op.outs[k]] : Key(u) = Key(t) /\ u.begin <= t.begin /\ t.end <= u.end
  <2>1. PICK y \in Transfer(op, Exact(T)) : Key(y) = Key(t) /\ y.begin = t.begin /\ y.end = t.end
    BY TransferAgrees
  <2>2. PICK x \in T[op.outs[k]] : Key(x) = Key(y) /\ x.begin <= y.begin /\ y.end <= x.end
    BY DEF HandsOn
  <2>3. PICK u \in U[op.outs[k]] : Key(u) = Key(x) /\ u.begin = x.begin /\ u.end = x.end
    BY <1>2
  <2> QED
    BY <2>1, <2>2, <2>3
<1> QED
  BY <1>3, <1>4

\* What an operation has completed stays so while the tags agree.
LEMMA OpClosedSame ==
  ASSUME NEW op, Sensible(op), NEW T \in [Values -> SUBSET Tag],
         NEW U \in [Values -> SUBSET Tag], Same(T, U), OpClosed(T, op)
  PROVE  OpClosed(U, op)
<1>1. op.kind = "call" => Crosses(U, op.args) /\ Crosses(U, op.returns)
  BY OutsAreValues, CrossesSame DEF OpClosed
<1>2. Summarised(op) => HandsOn(U, op)
  BY HandsOnSame DEF OpClosed
<1> QED
  BY <1>1, <1>2 DEF OpClosed

\* R has what crosses from each pair's first value to its second.
CrossesIn(R, pairs) ==
  \A k \in DOMAIN pairs : \A key : \A d \in Nat :
    <<pairs[k][1], key, d>> \in R /\ d < functionDepth => <<pairs[k][2], key, d + 1>> \in R

LEMMA CopyFacts ==
  ASSUME Limits, NEW a, Proper(a), NEW pairs \in Seq(Values \X Values),
         NEW b, b = CopyAcross(a, pairs)
  PROVE  /\ Proper(b) /\ Grows(a, b)
         /\ Room(b) /\ ~ b.changed => Crosses(b.tags, pairs)
         /\ \A R : Sound(a.tags, R) /\ CrossesIn(R, pairs) => Sound(b.tags, R)
<1> DEFINE n == Len(pairs)
<1>1. PICK h : CopySteps(h, a, pairs, b)
  BY CopyRuns
<1> DEFINE at == [k \in 1 .. n |-> pairs[k][2]]
           with == [k \in 1 .. n |-> Cross(h[k - 1].tags[pairs[k][1]])]
<1>2. h[0] = a /\ h[n] = b /\ Run(h, n, at, with)
  BY <1>1 DEF CopySteps
<1>3. /\ n \in Nat /\ DOMAIN pairs = 1 .. n
      /\ \A k \in 1 .. n : pairs[k][1] \in Values /\ pairs[k][2] \in Values
  OBVIOUS
<1>4. \A k \in 1 .. n : at[k] = pairs[k][2] /\ with[k] = Cross(h[k - 1].tags[pairs[k][1]])
  OBVIOUS
<1> HIDE DEF n, at, with
<1>5. /\ \A k \in 0 .. n : h[k] \in Accs /\ Proper(h[k])
      /\ \A j \in 0 .. n : \A i \in 0 .. j : Grows(h[i], h[j])
  BY <1>2, <1>3, RunGrows
<1>6. 0 \in 0 .. n /\ n \in 0 .. n /\ b \in Accs
  BY <1>2, <1>3, <1>5
<1>7. Proper(b) /\ Grows(a, b)
  BY <1>2, <1>5, <1>6
<1>8. ASSUME NEW k \in 1 .. n
      PROVE  /\ h[k - 1] \in Accs /\ Proper(h[k - 1]) /\ Grows(h[k - 1], b)
             /\ h[k - 1].tags[pairs[k][1]] \in SUBSET Tag
             /\ IsFiniteSet(h[k - 1].tags[pairs[k][1]])
  <2>1. k - 1 \in 0 .. n
    BY <1>3
  <2>2. h[k - 1] \in Accs /\ Proper(h[k - 1]) /\ Grows(h[k - 1], b)
    BY <1>2, <1>5, <1>6, <2>1
  <2> QED
    BY <1>3, <2>2, AccFields DEF Proper, Kept
<1>9. ASSUME Room(b), ~ b.changed PROVE Crosses(b.tags, pairs)
  <2> SUFFICES ASSUME NEW k \in 1 .. n, NEW u \in b.tags[pairs[k][1]], u.depth < functionDepth
               PROVE  \E w \in b.tags[pairs[k][2]] : Key(w) = Key(u) /\ w.depth <= u.depth + 1
    BY <1>3 DEF Crosses
  <2> DEFINE c == h[k - 1]
             T == c.tags[pairs[k][1]]
  <2>1. Same(c.tags, b.tags)
    BY <1>8, <1>9 DEF Grows
  <2>2. PICK t \in T : Like(t, u)
    BY <1>3, <2>1 DEF Same
  <2>3. Key(t) = Key(u) /\ t.depth = u.depth
    BY <2>2 DEF Like
  <2>4. T \in SUBSET Tag /\ IsFiniteSet(T)
    BY <1>8
  <2> HIDE DEF T
  <2>5. PICK x \in Cross(T) : Key(x) = Key(t) /\ x.depth = t.depth + 1
    BY <2>3, <2>4, CrossFacts
  <2>6. Covered(b.tags, pairs[k][2], x)
    <3>1. x \in with[k] /\ at[k] = pairs[k][2]
      BY <1>4, <2>5 DEF T
    <3>2. Room(h[n]) /\ h[n] = b
      BY <1>2, <1>9
    <3> QED
      BY <1>2, <1>3, <3>1, <3>2, RunCovers
  <2>7. PICK w \in b.tags[pairs[k][2]] : Covers(x, w)
    BY <2>6 DEF Covered
  <2> QED
    BY <2>3, <2>5, <2>7 DEF Covers
<1>10. ASSUME NEW R, Sound(a.tags, R), CrossesIn(R, pairs) PROVE Sound(b.tags, R)
  <2>1. ASSUME NEW k \in 1 .. n, Sound(h[k - 1].tags, R), NEW u \in with[k]
        PROVE  <<at[k], Key(u), u.depth>> \in R
    <3> DEFINE T == h[k - 1].tags[pairs[k][1]]
    <3>1. T \in SUBSET Tag /\ IsFiniteSet(T) /\ u \in Cross(T)
      BY <1>4, <1>8
    <3>2. \A t \in T : <<pairs[k][1], Key(t), t.depth>> \in R
      BY <1>3, <2>1 DEF Sound
    <3> HIDE DEF T
    <3>3. PICK t \in T : t.depth < functionDepth /\ Key(u) = Key(t) /\ u.depth = t.depth + 1
      BY <3>1, CrossFacts
    <3>4. t.depth \in Nat /\ <<pairs[k][1], Key(t), t.depth>> \in R
      BY <3>1, <3>2, TagFields
    <3>5. <<pairs[k][2], Key(t), t.depth + 1>> \in R
      BY <1>3, <1>10, <3>3, <3>4 DEF CrossesIn
    <3> QED
      BY <1>4, <3>3, <3>5
  <2>2. Sound(h[0].tags, R)
    BY <1>2, <1>10
  <2>3. Sound(h[n].tags, R)
    BY <1>2, <1>3, <2>1, <2>2, RunSound
  <2> QED
    BY <1>2, <2>3
<1> QED
  BY <1>7, <1>9, <1>10

LEMMA OutsFacts ==
  ASSUME Limits, NEW a, Proper(a), NEW outs \in Seq(Values), NEW X, Addable(X),
         NEW b, b = AddToAll(a, outs, X)
  PROVE  /\ Proper(b) /\ Grows(a, b)
         /\ Room(b) => \A k \in DOMAIN outs : \A t \in X : Covered(b.tags, outs[k], t)
         /\ \A R : /\ Sound(a.tags, R)
                   /\ \A k \in DOMAIN outs : \A t \in X : <<outs[k], Key(t), t.depth>> \in R
                   => Sound(b.tags, R)
<1> DEFINE n == Len(outs)
<1>1. PICK h : AddSteps(h, a, outs, X, b)
  BY AddRuns
<1> DEFINE at == [k \in 1 .. n |-> outs[k]]
           with == [k \in 1 .. n |-> X]
<1>2. h[0] = a /\ h[n] = b /\ Run(h, n, at, with)
  BY <1>1 DEF AddSteps
<1>3. n \in Nat /\ DOMAIN outs = 1 .. n
  OBVIOUS
<1>4. \A k \in 1 .. n : at[k] = outs[k] /\ with[k] = X
  OBVIOUS
<1> HIDE DEF n, at, with
<1>5. 0 \in 0 .. n /\ n \in 0 .. n
  BY <1>3
<1>6. Proper(b) /\ Grows(a, b)
  BY <1>2, <1>3, <1>5, RunGrows
<1>7. ASSUME Room(b), NEW k \in 1 .. n, NEW t \in X PROVE Covered(b.tags, outs[k], t)
  <2>1. Room(h[n]) /\ t \in with[k]
    BY <1>2, <1>4, <1>7
  <2> QED
    BY <1>2, <1>3, <1>4, <2>1, RunCovers
<1>8. ASSUME NEW R, Sound(a.tags, R),
             \A k \in 1 .. n : \A t \in X : <<outs[k], Key(t), t.depth>> \in R
      PROVE  Sound(b.tags, R)
  <2>1. \A k \in 1 .. n : Sound(h[k - 1].tags, R) =>
          \A t \in with[k] : <<at[k], Key(t), t.depth>> \in R
    BY <1>4, <1>8
  <2>2. Sound(h[0].tags, R)
    BY <1>2, <1>8
  <2>3. Sound(h[n].tags, R)
    BY <1>2, <1>3, <2>1, <2>2, RunSound
  <2> QED
    BY <1>2, <2>3
<1> QED
  BY <1>3, <1>6, <1>7, <1>8

\* R has what the operation makes of its members, within the call depth.
OpKeeps(R, op) ==
  /\ op.kind = "call" => CrossesIn(R, op.args) /\ CrossesIn(R, op.returns)
  /\ Summarised(op) =>
       \A i \in DOMAIN op.ins : \A key : \A d \in 0 .. functionDepth :
         <<op.ins[i], key, d>> \in R =>
           \A j \in Through(op, i, key) : \A k \in DOMAIN op.outs : <<op.outs[k], j, d>> \in R

Called(a, op) ==
  IF op.kind = "call" THEN CopyAcross(CopyAcross(a, op.args), op.returns) ELSE a

LEMMA CalledFacts ==
  ASSUME Limits, NEW a, Proper(a), NEW op, Sensible(op), NEW c, c = Called(a, op)
  PROVE  /\ Proper(c) /\ Grows(a, c)
         /\ Room(c) /\ ~ c.changed /\ op.kind = "call" =>
              Crosses(c.tags, op.args) /\ Crosses(c.tags, op.returns)
         /\ \A R : Sound(a.tags, R) /\ OpKeeps(R, op) => Sound(c.tags, R)
<1>1. a \in Accs
  BY DEF Proper
<1>2. CASE op.kind # "call"
  <2>1. c = a
    BY <1>2 DEF Called
  <2> QED
    BY <1>1, <1>2, <2>1, GrowsSelf
<1>3. CASE op.kind = "call"
  <2> DEFINE m == CopyAcross(a, op.args)
  <2>1. c = CopyAcross(m, op.returns)
    BY <1>3 DEF Called
  <2>2. op.args \in Seq(Values \X Values) /\ op.returns \in Seq(Values \X Values)
    BY OperationFields
  <2>3. /\ Proper(m) /\ Grows(a, m)
        /\ Room(m) /\ ~ m.changed => Crosses(m.tags, op.args)
        /\ \A R : Sound(a.tags, R) /\ CrossesIn(R, op.args) => Sound(m.tags, R)
    BY <2>2, CopyFacts
  <2> HIDE DEF m
  <2>4. /\ Proper(c) /\ Grows(m, c)
        /\ Room(c) /\ ~ c.changed => Crosses(c.tags, op.returns)
        /\ \A R : Sound(m.tags, R) /\ CrossesIn(R, op.returns) => Sound(c.tags, R)
    BY <2>1, <2>2, <2>3, CopyFacts
  <2>5. m \in Accs /\ c \in Accs
    BY <2>3, <2>4 DEF Proper
  <2>6. Grows(a, c)
    BY <1>1, <2>3, <2>4, <2>5, GrowsTransitive
  <2>7. ASSUME Room(c), ~ c.changed PROVE Crosses(c.tags, op.args)
    <3>1. Room(m)
      BY <2>4, <2>5, <2>7, RoomBefore
    <3>2. ~ m.changed /\ Same(m.tags, c.tags)
      BY <2>4, <2>7 DEF Grows
    <3>3. Crosses(m.tags, op.args)
      BY <2>3, <3>1, <3>2
    <3>4. \A k \in DOMAIN op.args : op.args[k] \in Values \X Values
      BY OutsAreValues
    <3> QED
      BY <3>2, <3>3, <3>4, CrossesSame
  <2>8. \A R : Sound(a.tags, R) /\ OpKeeps(R, op) => Sound(c.tags, R)
    BY <1>3, <2>3, <2>4 DEF OpKeeps
  <2> QED
    BY <2>4, <2>6, <2>7, <2>8
<1> QED
  BY <1>2, <1>3

LEMMA PropagateIs ==
  ASSUME NEW a, NEW op
  PROVE  Propagate(a, op) = IF Summarised(op)
                            THEN AddToAll(Called(a, op), op.outs, Transfer(op, Called(a, op).tags))
                            ELSE Called(a, op)
BY DEF Propagate, AddToAll, Called

\* An operation adds tags, only what follows from the tags there are, and if it
\* changed nothing it has nothing left to add.
LEMMA PropagateFacts ==
  ASSUME Limits, NEW a, Proper(a), NEW op, Sensible(op), NEW b, b = Propagate(a, op)
  PROVE  /\ Proper(b) /\ Grows(a, b)
         /\ Room(b) /\ ~ b.changed => OpClosed(b.tags, op)
         /\ \A R : Sound(a.tags, R) /\ OpKeeps(R, op) => Sound(b.tags, R)
<1> DEFINE c == Called(a, op)
           X == Transfer(op, c.tags)
<1>1. a \in Accs
  BY DEF Proper
<1>2. b = IF Summarised(op) THEN AddToAll(c, op.outs, X) ELSE c
  BY PropagateIs
<1>3. /\ Proper(c) /\ Grows(a, c)
      /\ Room(c) /\ ~ c.changed /\ op.kind = "call" =>
           Crosses(c.tags, op.args) /\ Crosses(c.tags, op.returns)
      /\ \A R : Sound(a.tags, R) /\ OpKeeps(R, op) => Sound(c.tags, R)
  BY CalledFacts
<1> HIDE DEF c
<1>4. c \in Accs /\ c.tags \in [Values -> SUBSET Tag] /\ Kept(c.tags)
  BY <1>3, AccFields DEF Proper
<1>5. Addable(X)
  BY <1>4, TransferAddable
<1>6. op.outs \in Seq(Values)
  BY OperationFields
<1>7. CASE ~ Summarised(op)
  BY <1>2, <1>3, <1>7 DEF OpClosed
<1>8. CASE Summarised(op)
  <2>1. b = AddToAll(c, op.outs, X)
    BY <1>2, <1>8
  <2>2. /\ Proper(b) /\ Grows(c, b)
        /\ Room(b) => \A k \in DOMAIN op.outs : \A t \in X : Covered(b.tags, op.outs[k], t)
        /\ \A R : /\ Sound(c.tags, R)
                  /\ \A k \in DOMAIN op.outs : \A t \in X : <<op.outs[k], Key(t), t.depth>> \in R
                  => Sound(b.tags, R)
    <3> HIDE DEF X
    <3> QED
      BY <1>3, <1>5, <1>6, <2>1, OutsFacts
  <2>3. b \in Accs /\ b.tags \in [Values -> SUBSET Tag]
    BY <2>2, AccFields DEF Proper
  <2>4. Grows(a, b)
    BY <1>1, <1>3, <1>4, <2>2, <2>3, GrowsTransitive
  <2>5. ASSUME Room(b), ~ b.changed PROVE OpClosed(b.tags, op)
    <3>1. ~ c.changed /\ Same(c.tags, b.tags)
      BY <2>2, <2>5 DEF Grows
    <3>2. Room(c)
      BY <1>4, <2>2, <2>3, <2>5, RoomBefore
    <3>3. op.kind = "call" => Crosses(b.tags, op.args) /\ Crosses(b.tags, op.returns)
      <4>1. op.kind = "call" => Crosses(c.tags, op.args) /\ Crosses(c.tags, op.returns)
        BY <1>3, <3>1, <3>2
      <4> QED
        BY <3>1, <4>1, OutsAreValues, CrossesSame
    <3>4. ASSUME NEW k \in DOMAIN op.outs, NEW x \in X
          PROVE  \E u \in b.tags[op.outs[k]] :
                   /\ Key(u) = Key(x) /\ u.depth <= x.depth
                   /\ u.begin <= x.begin /\ x.end <= u.end
      BY <2>2, <2>5 DEF Covered, Covers
    <3>5. ASSUME NEW k \in DOMAIN op.outs, NEW t \in Transfer(op, b.tags)
          PROVE  \E u \in b.tags[op.outs[k]] : Key(u) = Key(t) /\ u.depth <= t.depth
      <4>1. PICK x \in X : Level(x, t)
        BY <1>4, <2>3, <3>1, TransferAgrees
      <4>2. PICK u \in b.tags[op.outs[k]] : Key(u) = Key(x) /\ u.depth <= x.depth
        BY <3>4
      <4> QED
        BY <4>1, <4>2 DEF Level
    <3>6. ASSUME NEW k \in DOMAIN op.outs, NEW t \in Transfer(op, Exact(b.tags))
          PROVE  \E u \in b.tags[op.outs[k]] :
                   Key(u) = Key(t) /\ u.begin <= t.begin /\ t.end <= u.end
      <4>1. PICK x \in Transfer(op, Exact(c.tags)) :
              Key(x) = Key(t) /\ x.begin = t.begin /\ x.end = t.end
        BY <1>4, <2>3, <3>1, TransferAgrees
      <4>2. x \in X
        <5>1. PICK i \in DOMAIN op.ins : \E y \in Exact(c.tags)[op.ins[i]] : x \in Carried(op, i, y)
          BY TransferIs
        <5>2. PICK y \in Exact(c.tags)[op.ins[i]] : x \in Carried(op, i, y)
          BY <5>1
        <5>3. y \in c.tags[op.ins[i]]
          BY InsAreValues DEF Exact
        <5> QED
          BY <5>2, <5>3, TransferIs
      <4>3. PICK u \in b.tags[op.outs[k]] :
              Key(u) = Key(x) /\ u.begin <= x.begin /\ x.end <= u.end
        BY <3>4, <4>2
      <4> QED
        BY <4>1, <4>3
    <3> QED
      BY <3>3, <3>5, <3>6 DEF OpClosed, HandsOn
  <2>6. ASSUME NEW R, Sound(a.tags, R), OpKeeps(R, op) PROVE Sound(b.tags, R)
    <3>1. Sound(c.tags, R)
      BY <1>3, <2>6
    <3>2. ASSUME NEW k \in DOMAIN op.outs, NEW x \in X
          PROVE  <<op.outs[k], Key(x), x.depth>> \in R
      <4>1. PICK i \in DOMAIN op.ins : \E t \in c.tags[op.ins[i]] : x \in Carried(op, i, t)
        BY TransferIs
      <4>2. PICK t \in c.tags[op.ins[i]] : x \in Carried(op, i, t)
        BY <4>1
      <4>3. op.ins[i] \in Values /\ t \in Tag /\ t.depth <= functionDepth
        BY <1>4, InsAreValues DEF Kept
      <4>4. x.depth = t.depth /\ Key(x) \in Through(op, i, Key(t))
        BY <4>2, <4>3, CarriedFacts
      <4>5. <<op.ins[i], Key(t), t.depth>> \in R /\ t.depth \in 0 .. functionDepth
        BY <3>1, <4>3, TagFields DEF Sound, Limits
      <4> QED
        BY <1>8, <2>6, <4>4, <4>5 DEF OpKeeps
    <3> QED
      BY <2>2, <3>1, <3>2
  <2> QED
    BY <2>2, <2>4, <2>5, <2>6
<1> QED
  BY <1>7, <1>8

-----------------------------------------------------------------------------
(* The block arguments and the seeds.                                      *)

BlocksClosed(T, pairs) ==
  \A k \in DOMAIN pairs : \A t \in T[pairs[k][1]] :
    \E u \in T[pairs[k][2]] : Key(u) = Key(t) /\ u.depth <= t.depth

BlocksKeep(R, pairs) ==
  \A k \in DOMAIN pairs : \A key : \A d \in 0 .. functionDepth :
    <<pairs[k][1], key, d>> \in R => <<pairs[k][2], key, d>> \in R

LEMMA BlocksClosedSame ==
  ASSUME NEW T, NEW U, Same(T, U), NEW pairs,
         \A k \in DOMAIN pairs : pairs[k] \in Values \X Values, BlocksClosed(T, pairs)
  PROVE  BlocksClosed(U, pairs)
<1> SUFFICES ASSUME NEW k \in DOMAIN pairs, NEW u \in U[pairs[k][1]]
             PROVE  \E w \in U[pairs[k][2]] : Key(w) = Key(u) /\ w.depth <= u.depth
  BY DEF BlocksClosed
<1>1. pairs[k][1] \in Values /\ pairs[k][2] \in Values
  OBVIOUS
<1>2. PICK t \in T[pairs[k][1]] : Like(t, u)
  BY <1>1 DEF Same
<1>3. PICK x \in T[pairs[k][2]] : Key(x) = Key(t) /\ x.depth <= t.depth
  BY DEF BlocksClosed
<1>4. PICK w \in U[pairs[k][2]] : Like(x, w)
  BY <1>1 DEF Same
<1> QED
  BY <1>2, <1>3, <1>4 DEF Like

LEMMA BlockFacts ==
  ASSUME Limits, NEW a, Proper(a), program.blocks \in Seq(Values \X Values),
         NEW b, b = PropagateBlocks(a)
  PROVE  /\ Proper(b) /\ Grows(a, b)
         /\ Room(b) /\ ~ b.changed => BlocksClosed(b.tags, program.blocks)
         /\ \A R : Sound(a.tags, R) /\ BlocksKeep(R, program.blocks) => Sound(b.tags, R)
<1> DEFINE pairs == program.blocks
           n == Len(pairs)
<1>1. PICK h : BlockSteps(h, a, pairs, b)
  BY BlockRuns
<1> DEFINE at == [k \in 1 .. n |-> pairs[k][2]]
           with == [k \in 1 .. n |-> h[k - 1].tags[pairs[k][1]]]
<1>2. h[0] = a /\ h[n] = b /\ Run(h, n, at, with)
  BY <1>1 DEF BlockSteps
<1>3. /\ n \in Nat /\ DOMAIN pairs = 1 .. n
      /\ \A k \in 1 .. n : pairs[k][1] \in Values /\ pairs[k][2] \in Values
  OBVIOUS
<1>4. \A k \in 1 .. n : at[k] = pairs[k][2] /\ with[k] = h[k - 1].tags[pairs[k][1]]
  OBVIOUS
<1> HIDE DEF pairs, n, at, with
<1>5. /\ \A k \in 0 .. n : h[k] \in Accs /\ Proper(h[k])
      /\ \A j \in 0 .. n : \A i \in 0 .. j : Grows(h[i], h[j])
  BY <1>2, <1>3, RunGrows
<1>6. 0 \in 0 .. n /\ n \in 0 .. n /\ b \in Accs
  BY <1>2, <1>3, <1>5
<1>7. Proper(b) /\ Grows(a, b)
  BY <1>2, <1>5, <1>6
<1>8. ASSUME NEW k \in 1 .. n
      PROVE  h[k - 1] \in Accs /\ Proper(h[k - 1]) /\ Grows(h[k - 1], b)
  <2>1. k - 1 \in 0 .. n
    BY <1>3
  <2> QED
    BY <1>2, <1>5, <1>6, <2>1
<1>9. ASSUME Room(b), ~ b.changed PROVE BlocksClosed(b.tags, pairs)
  <2> SUFFICES ASSUME NEW k \in 1 .. n, NEW u \in b.tags[pairs[k][1]]
               PROVE  \E w \in b.tags[pairs[k][2]] : Key(w) = Key(u) /\ w.depth <= u.depth
    BY <1>3 DEF BlocksClosed
  <2>1. Same(h[k - 1].tags, b.tags)
    BY <1>8, <1>9 DEF Grows
  <2>2. PICK t \in h[k - 1].tags[pairs[k][1]] : Like(t, u)
    BY <1>3, <2>1 DEF Same
  <2>3. Covered(b.tags, pairs[k][2], t)
    <3>1. t \in with[k] /\ at[k] = pairs[k][2]
      BY <1>4, <2>2
    <3>2. Room(h[n]) /\ h[n] = b
      BY <1>2, <1>9
    <3> QED
      BY <1>2, <1>3, <3>1, <3>2, RunCovers
  <2>4. PICK w \in b.tags[pairs[k][2]] : Covers(t, w)
    BY <2>3 DEF Covered
  <2> QED
    BY <2>2, <2>4 DEF Covers, Like
<1>10. ASSUME NEW R, Sound(a.tags, R), BlocksKeep(R, pairs) PROVE Sound(b.tags, R)
  <2>1. ASSUME NEW k \in 1 .. n, Sound(h[k - 1].tags, R), NEW u \in with[k]
        PROVE  <<at[k], Key(u), u.depth>> \in R
    <3>1. u \in h[k - 1].tags[pairs[k][1]] /\ pairs[k][1] \in Values /\ at[k] = pairs[k][2]
      BY <1>3, <1>4, <2>1
    <3>2. u \in Tag /\ u.depth <= functionDepth
      BY <1>8, <3>1, AccFields DEF Proper, Kept
    <3>3. u.depth \in 0 .. functionDepth
      BY <3>2, TagFields DEF Limits
    <3>4. <<pairs[k][1], Key(u), u.depth>> \in R
      BY <2>1, <3>1 DEF Sound
    <3> QED
      BY <1>3, <1>10, <3>1, <3>3, <3>4 DEF BlocksKeep
  <2>2. Sound(h[0].tags, R)
    BY <1>2, <1>10
  <2>3. Sound(h[n].tags, R)
    BY <1>2, <1>3, <2>1, <2>2, RunSound
  <2> QED
    BY <1>2, <2>3
<1> QED
  BY <1>7, <1>9, <1>10 DEF pairs

SeedOne(b, s) == AddTag(b, s[1], s[2])

SeedAll(a, seeds) == FoldSet(LAMBDA s, b : AddTag(b, s[1], s[2]), a, seeds)

Seeds(seeds) ==
  /\ IsFiniteSet(seeds) /\ seeds \subseteq Values \X Tag
  /\ \A s \in seeds : s[2].depth = 0

SeedGoes(a, seeds, b) ==
  \E g : /\ g[{}] = a /\ g[seeds] = b
         /\ \A s \in SUBSET seeds : Proper(g[s])
         /\ \A s \in SUBSET seeds : s # {} => \E x \in s : g[s] = SeedOne(g[s \ {x}], x)

LEMMA SeedOneAdds ==
  ASSUME Limits, NEW a, Proper(a), NEW seeds, Seeds(seeds), NEW s \in seeds
  PROVE  Adds(a, SeedOne(a, s), s[1], {s[2]})
<1>1. s[1] \in Values /\ s[2] \in Tag /\ s[2].depth <= functionDepth
  BY DEF Seeds, Limits
<1> QED
  BY <1>1, AddTagAdds DEF SeedOne

\* The accumulators that the seeding goes through.
LEMMA SeedSteps ==
  ASSUME Limits, NEW a, Proper(a), NEW seeds, Seeds(seeds)
  PROVE  SeedGoes(a, seeds, SeedAll(a, seeds))
<1> DEFINE pick == [s \in SUBSET seeds |-> CHOOSE x \in s : TRUE]
           F == [q \in seeds \X Propers |-> SeedOne(q[2], q[1])]
           Body(f) == [s \in SUBSET seeds |->
             IF s = {} THEN a
             ELSE SeedOne(f[s \ {CHOOSE x \in s : TRUE}], CHOOSE x \in s : TRUE)]
           g == CHOOSE h : h = Body(h)
<1>1. \A b \in Propers : b \in Accs /\ Proper(b)
  BY DEF Propers
<1>2. a \in Propers
  BY DEF Propers, Proper
<1>3. \A s \in SUBSET seeds : s # {} => pick[s] \in s /\ pick[s] = CHOOSE x \in s : TRUE
  OBVIOUS
<1>4. ASSUME NEW x \in seeds, NEW b \in Propers
      PROVE  F[<<x, b>>] = SeedOne(b, x) /\ F[<<x, b>>] \in Propers
  <2>1. F[<<x, b>>] = SeedOne(b, x)
    OBVIOUS
  <2>2. Adds(b, SeedOne(b, x), x[1], {x[2]})
    BY <1>1, SeedOneAdds
  <2>3. SeedOne(b, x) \in Propers
    BY <2>2 DEF Adds, Proper, Propers
  <2> QED
    BY <2>1, <2>3
<1> HIDE DEF F, pick
<1>5. FoldData(seeds, Propers, a, pick, F)
  BY <1>2, <1>3, <1>4 DEF FoldData, Seeds
<1>6. PICK f \in [SUBSET seeds -> Propers] :
        /\ f[{}] = a
        /\ \A s \in SUBSET seeds : s # {} => f[s] = F[<<pick[s], f[s \ {pick[s]}]>>]
  <2>1. FoldSolved(seeds, Propers, a, pick, F)
    BY <1>5, FoldExists
  <2> QED
    BY <2>1 DEF FoldSolved
<1>7. ASSUME NEW s \in SUBSET seeds, s # {}
      PROVE  f[s] = SeedOne(f[s \ {CHOOSE x \in s : TRUE}], CHOOSE x \in s : TRUE)
  <2>1. pick[s] \in seeds /\ f[s \ {pick[s]}] \in Propers /\ pick[s] = CHOOSE x \in s : TRUE
    BY <1>3, <1>6, <1>7
  <2>2. f[s] = SeedOne(f[s \ {pick[s]}], pick[s])
    BY <1>4, <1>6, <1>7, <2>1
  <2> QED
    BY <2>1, <2>2
<1>8. f = Body(f)
  <2>1. f = [s \in SUBSET seeds |-> f[s]]
    OBVIOUS
  <2> QED
    BY <1>6, <1>7, <2>1
<1>9. g = Body(g)
  BY <1>8
<1>10. g[seeds] = SeedAll(a, seeds)
  BY DEF SeedAll, SeedOne, FoldSet, MapThenFoldSet
<1> HIDE DEF g
<1>11. /\ g[{}] = a
       /\ \A s \in SUBSET seeds : s # {} =>
            g[s] = SeedOne(g[s \ {CHOOSE x \in s : TRUE}], CHOOSE x \in s : TRUE)
  BY <1>9
<1>12. FoldFollowed(seeds, Propers, a, pick, F, g)
  <2> SUFFICES ASSUME NEW s \in SUBSET seeds, s # {}, g[s \ {pick[s]}] \in Propers
               PROVE  g[s] = F[<<pick[s], g[s \ {pick[s]}]>>]
    BY <1>11 DEF FoldFollowed
  <2>1. pick[s] \in seeds
    BY <1>3
  <2>2. g[s] = SeedOne(g[s \ {pick[s]}], pick[s])
    BY <1>3, <1>11
  <2> QED
    BY <1>4, <2>1, <2>2
<1>13. \A s \in SUBSET seeds : g[s] \in Propers
  BY <1>5, <1>12, FoldTyped
<1>14. \A s \in SUBSET seeds : s # {} => \E x \in s : g[s] = SeedOne(g[s \ {x}], x)
  <2> SUFFICES ASSUME NEW s \in SUBSET seeds, s # {}
               PROVE  \E x \in s : g[s] = SeedOne(g[s \ {x}], x)
    OBVIOUS
  <2>1. pick[s] \in s
    BY <1>3
  <2>2. g[s] = SeedOne(g[s \ {pick[s]}], pick[s])
    BY <1>3, <1>11
  <2> QED
    BY <2>1, <2>2
<1>15. g[{}] = a /\ \A s \in SUBSET seeds : Proper(g[s])
  BY <1>1, <1>11, <1>13
<1> QED
  BY <1>10, <1>14, <1>15 DEF SeedGoes

LEMMA SeedFacts ==
  ASSUME Limits, NEW a, Proper(a), NEW seeds, Seeds(seeds), NEW b, b = SeedAll(a, seeds)
  PROVE  /\ Proper(b) /\ Grows(a, b)
         /\ Room(b) => \A s \in seeds : Covered(b.tags, s[1], s[2])
         /\ \A R : /\ Sound(a.tags, R)
                   /\ \A s \in seeds : <<s[1], Key(s[2]), s[2].depth>> \in R
                   => Sound(b.tags, R)
<1>1. PICK g : /\ g[{}] = a /\ g[seeds] = b
               /\ \A s \in SUBSET seeds : Proper(g[s])
               /\ \A s \in SUBSET seeds : s # {} => \E x \in s : g[s] = SeedOne(g[s \ {x}], x)
  <2>1. SeedGoes(a, seeds, b)
    BY SeedSteps
  <2> QED
    BY <2>1 DEF SeedGoes
<1>2. ASSUME NEW s \in SUBSET seeds, s # {}
      PROVE  \E x \in s : /\ s \ {x} \in SUBSET seeds
                          /\ Adds(g[s \ {x}], g[s], x[1], {x[2]})
  <2>1. PICK x \in s : g[s] = SeedOne(g[s \ {x}], x)
    BY <1>1, <1>2
  <2>2. s \ {x} \in SUBSET seeds /\ x \in seeds
    OBVIOUS
  <2>3. Proper(g[s \ {x}])
    BY <1>1, <2>2
  <2>4. Adds(g[s \ {x}], SeedOne(g[s \ {x}], x), x[1], {x[2]})
    BY <2>2, <2>3, SeedOneAdds
  <2> QED
    BY <2>1, <2>2, <2>4
<1>3. \A s \in SUBSET seeds : g[s] \in Accs
  BY <1>1 DEF Proper
<1>4. IsFiniteSet(seeds) /\ \A s \in seeds : s[1] \in Values /\ s[2] \in Tag
  BY DEF Seeds
<1>5. ASSUME NEW s \in SUBSET seeds
      PROVE  Grows(a, g[s]) /\ (Room(g[s]) => \A x \in s : Covered(g[s].tags, x[1], x[2]))
  <2> DEFINE Q == {r \in SUBSET seeds :
                     /\ Grows(a, g[r])
                     /\ Room(g[r]) => \A x \in r : Covered(g[r].tags, x[1], x[2])}
  <2>1. {} \in Q
    <3>1. Grows(a, g[{}])
      BY <1>1, <1>3, GrowsSelf
    <3> QED
      BY <3>1
  <2>2. \A r \in SUBSET seeds : r # {} => \E x \in r : r \ {x} \in Q => r \in Q
    <3> SUFFICES ASSUME NEW r \in SUBSET seeds, r # {}
                 PROVE  \E x \in r : r \ {x} \in Q => r \in Q
      OBVIOUS
    <3>1. PICK x \in r : /\ r \ {x} \in SUBSET seeds
                         /\ Adds(g[r \ {x}], g[r], x[1], {x[2]})
      BY <1>2
    <3> DEFINE p == g[r \ {x}]
               q == g[r]
    <3>2. a \in Accs /\ p \in Accs /\ q \in Accs /\ Grows(p, q)
      BY <1>1, <1>3, <3>1 DEF Adds, Proper
    <3>3. ASSUME r \ {x} \in Q PROVE r \in Q
      <4>1. Grows(a, p) /\ (Room(p) => \A y \in r \ {x} : Covered(p.tags, y[1], y[2]))
        BY <3>3
      <4>2. Grows(a, q)
        <5> HIDE DEF p, q
        <5> QED
          BY <3>2, <4>1, GrowsTransitive
      <4>3. ASSUME Room(q), NEW y \in r PROVE Covered(q.tags, y[1], y[2])
        <5>1. CASE y = x
          BY <3>1, <4>3, <5>1 DEF Adds
        <5>2. CASE y # x
          <6> HIDE DEF p, q
          <6>1. Room(p)
            BY <3>2, <4>3, RoomBefore
          <6>2. Covered(p.tags, y[1], y[2])
            BY <4>1, <5>2, <6>1
          <6>3. y[1] \in Values /\ y[2] \in Tag
            BY <1>4
          <6> QED
            BY <3>2, <6>2, <6>3, CoveredGrows
        <5> QED
          BY <5>1, <5>2
      <4> QED
        BY <4>2, <4>3
    <3> QED
      BY <3>3
  <2> HIDE DEF Q
  <2>3. SUBSET seeds \subseteq Q
    BY <1>4, <2>1, <2>2, SubsetsOf
  <2> QED
    BY <2>3 DEF Q
<1>6. ASSUME NEW R, Sound(a.tags, R), \A s \in seeds : <<s[1], Key(s[2]), s[2].depth>> \in R
      PROVE  Sound(b.tags, R)
  <2> DEFINE Q == {r \in SUBSET seeds : Sound(g[r].tags, R)}
  <2>1. {} \in Q
    BY <1>1, <1>6
  <2>2. \A r \in SUBSET seeds : r # {} => \E x \in r : r \ {x} \in Q => r \in Q
    <3> SUFFICES ASSUME NEW r \in SUBSET seeds, r # {}
                 PROVE  \E x \in r : r \ {x} \in Q => r \in Q
      OBVIOUS
    <3>1. PICK x \in r : /\ r \ {x} \in SUBSET seeds
                         /\ Adds(g[r \ {x}], g[r], x[1], {x[2]})
      BY <1>2
    <3>2. ASSUME Sound(g[r \ {x}].tags, R) PROVE Sound(g[r].tags, R)
      <4> SUFFICES ASSUME NEW v \in Values, NEW u \in g[r].tags[v]
                   PROVE  <<v, Key(u), u.depth>> \in R
        BY DEF Sound
      <4>1. \/ \E t \in g[r \ {x}].tags[v] : Level(t, u)
            \/ v = x[1] /\ Level(x[2], u)
        BY <3>1 DEF Adds
      <4>2. <<x[1], Key(x[2]), x[2].depth>> \in R
        BY <1>6
      <4> QED
        BY <3>2, <4>1, <4>2 DEF Sound, Level
    <3> QED
      BY <3>1, <3>2
  <2> HIDE DEF Q
  <2>3. SUBSET seeds \subseteq Q
    BY <1>4, <2>1, <2>2, SubsetsOf
  <2>4. seeds \in Q
    BY <2>3
  <2> QED
    BY <1>1, <2>4 DEF Q
<1>7. seeds \in SUBSET seeds
  OBVIOUS
<1> QED
  BY <1>1, <1>5, <1>6, <1>7

-----------------------------------------------------------------------------
(* The loop: its state and what it has.                                    *)

\* The types, and what the accumulator holds.
Typed ==
  /\ program \in Programs /\ functionDepth \in Depths /\ maxStates \in StateLimits
  /\ stopping \in {"no", "canceled", "timeout"}
  /\ next \in 1 .. Len(program.ops) + 1 /\ passes \in Nat
  /\ completion \in {"complete", "limited", "timeout", "canceled"}
  /\ pc \in {"seed", "loop", "pass", "done"}
  /\ Proper(Acc)

LEMMA ProgramFacts ==
  ASSUME program \in Programs
  PROVE  /\ Seeds(program.seeds)
         /\ program.ops \in Seq(Operation) /\ \A i \in DOMAIN program.ops : Sensible(program.ops[i])
         /\ program.blocks \in Seq(Values \X Values)
<1>1. /\ IsFiniteSet(program.seeds) /\ program.seeds \subseteq Values \X Tag
      /\ \A s \in program.seeds : s[2].depth = 0
      /\ program.ops \in Seq(Operation)
      /\ \A i \in DOMAIN program.ops :
           program.ops[i].kind = "store" => Len(program.ops[i].ins) = 3
      /\ program.blocks \in Seq(Values \X Values)
  BY ProgramAssumption DEF ProgramAssumption
<1>2. \A i \in DOMAIN program.ops : program.ops[i] \in Operation
  BY <1>1
<1> QED
  BY <1>1, <1>2 DEF Seeds, Sensible

LEMMA LimitsHold ==
  ASSUME functionDepth \in Depths, maxStates \in StateLimits
  PROVE  Limits
BY Constants DEF Limits

LEMMA CommitIs ==
  ASSUME NEW a \in Accs, Commit(a)
  PROVE  Acc' = a
<1>1. a = [tags |-> a.tags, states |-> a.states, changed |-> a.changed, deepest |-> a.deepest]
  BY DEF Accs
<1> QED
  BY <1>1 DEF Commit, Acc

LEMMA AccIs == Acc.tags = tags /\ Acc.states = states /\ Acc.deepest = deepest
BY DEF Acc

LEMMA AccChanged == Acc.changed = changed
BY DEF Acc

LEMMA ProperNext ==
  ASSUME NEW a, Proper(a), UNCHANGED inputs, Acc' = a
  PROVE  Proper(Acc)'
BY DEF Proper, Kept, inputs

\* R has the seeds and all that the operations and the block arguments make of
\* its members.
KeepsAll(R) ==
  /\ \A s \in program.seeds : <<s[1], Key(s[2]), 0>> \in R
  /\ \A i \in DOMAIN program.ops : OpKeeps(R, program.ops[i])
  /\ BlocksKeep(R, program.blocks)

\* The tags are those of every such R, so of the least.
OnlyReached == \A R : KeepsAll(R) => Sound(tags, R)

\* The three steps that add tags: what each makes of the accumulator.
Added(a, b) ==
  /\ Proper(b) /\ Grows(a, b)
  /\ \A R : Sound(a.tags, R) /\ KeepsAll(R) => Sound(b.tags, R)

LEMMA SeedStep ==
  ASSUME Typed, Seed
  PROVE  /\ Added(Acc, Acc')
         /\ Room(Acc') => \A s \in program.seeds : Covered(tags', s[1], s[2])
<1> DEFINE b == SeedAll(Acc, program.seeds)
<1>1. Limits /\ Proper(Acc) /\ Seeds(program.seeds)
  BY LimitsHold, ProgramFacts DEF Typed
<1>2. /\ Proper(b) /\ Grows(Acc, b)
      /\ Room(b) => \A s \in program.seeds : Covered(b.tags, s[1], s[2])
      /\ \A R : /\ Sound(Acc.tags, R)
                /\ \A s \in program.seeds : <<s[1], Key(s[2]), s[2].depth>> \in R
                => Sound(b.tags, R)
  BY <1>1, SeedFacts
<1>3. Commit(b)
  BY DEF Seed, SeedAll
<1> HIDE DEF b
<1>4. Acc' = b
  BY <1>2, <1>3, CommitIs DEF Proper
<1>5. b.tags = tags'
  BY <1>3 DEF Commit
<1>6. \A R : KeepsAll(R) => \A s \in program.seeds : <<s[1], Key(s[2]), s[2].depth>> \in R
  BY <1>1 DEF KeepsAll, Seeds
<1> QED
  BY <1>2, <1>4, <1>5, <1>6 DEF Added

LEMMA OperateStep ==
  ASSUME Typed, Operate
  PROVE  /\ Added(Acc, Acc') /\ next \in DOMAIN program.ops
         /\ Room(Acc') /\ ~ changed' => OpClosed(tags', program.ops[next])
<1> DEFINE b == Propagate(Acc, program.ops[next])
<1>1. Limits /\ Proper(Acc)
  BY LimitsHold DEF Typed
<1>2. next \in DOMAIN program.ops
  BY ProgramFacts DEF Typed, Operate
<1>3. Sensible(program.ops[next])
  BY <1>2, ProgramFacts DEF Typed
<1>4. /\ Proper(b) /\ Grows(Acc, b)
      /\ Room(b) /\ ~ b.changed => OpClosed(b.tags, program.ops[next])
      /\ \A R : Sound(Acc.tags, R) /\ OpKeeps(R, program.ops[next]) => Sound(b.tags, R)
  BY <1>1, <1>3, PropagateFacts
<1>5. Commit(b)
  BY DEF Operate
<1> HIDE DEF b
<1>6. Acc' = b
  BY <1>4, <1>5, CommitIs DEF Proper
<1>7. b.tags = tags' /\ (b.changed <=> changed')
  BY <1>5 DEF Commit
<1>8. \A R : KeepsAll(R) => OpKeeps(R, program.ops[next])
  BY <1>2 DEF KeepsAll
<1> QED
  BY <1>2, <1>4, <1>6, <1>7, <1>8 DEF Added

LEMMA BlockStepTaken ==
  ASSUME Typed, BlockArguments
  PROVE  /\ Added(Acc, Acc')
         /\ Room(Acc') /\ ~ changed' => BlocksClosed(tags', program.blocks)
<1> DEFINE b == PropagateBlocks(Acc)
<1>1. Limits /\ Proper(Acc) /\ program.blocks \in Seq(Values \X Values)
  BY LimitsHold, ProgramFacts DEF Typed
<1>2. /\ Proper(b) /\ Grows(Acc, b)
      /\ Room(b) /\ ~ b.changed => BlocksClosed(b.tags, program.blocks)
      /\ \A R : Sound(Acc.tags, R) /\ BlocksKeep(R, program.blocks) => Sound(b.tags, R)
  BY <1>1, BlockFacts
<1>3. Commit(b)
  BY DEF BlockArguments
<1> HIDE DEF b
<1>4. Acc' = b
  BY <1>2, <1>3, CommitIs DEF Proper
<1>5. b.tags = tags' /\ (b.changed <=> changed')
  BY <1>3 DEF Commit
<1>6. \A R : KeepsAll(R) => BlocksKeep(R, program.blocks)
  BY DEF KeepsAll
<1> QED
  BY <1>2, <1>4, <1>5, <1>6 DEF Added

LEMMA StartTyped ==
  ASSUME Init
  PROVE  Typed
<1>2. \A v \in Values : tags[v] = {}
  BY DEF Init
<1>3. Total(tags) = 0
  <2>1. \A v \in Values : Cardinality(tags[v]) \in Nat
    BY <1>2, FS_EmptySet
  <2>2. PICK f \in [SUBSET Values -> Nat] :
          /\ f[{}] = 0 /\ f[Values] = Total(tags)
          /\ \A s \in SUBSET Values : s # {} =>
               f[s] = f[s \ {CHOOSE x \in s : TRUE}] + Cardinality(tags[CHOOSE x \in s : TRUE])
    BY <2>1, TotalSteps
  <2> DEFINE Q == {s \in SUBSET Values : f[s] = 0}
  <2>3. {} \in Q
    BY <2>2
  <2>4. \A s \in SUBSET Values : s # {} => \E x \in s : s \ {x} \in Q => s \in Q
    <3> SUFFICES ASSUME NEW s \in SUBSET Values, s # {}
                 PROVE  \E x \in s : s \ {x} \in Q => s \in Q
      OBVIOUS
    <3> DEFINE x == CHOOSE x \in s : TRUE
    <3>1. x \in s /\ x \in Values
      OBVIOUS
    <3>2. f[s] = f[s \ {x}] + Cardinality(tags[x])
      BY <2>2
    <3> HIDE DEF x
    <3>3. Cardinality(tags[x]) = 0
      BY <1>2, <3>1, FS_EmptySet
    <3>4. s \ {x} \in Q => s \in Q
      BY <3>2, <3>3
    <3> QED
      BY <3>1, <3>4
  <2> HIDE DEF Q
  <2>5. Values \in Q
    <3>1. SUBSET Values \subseteq Q
      BY <2>3, <2>4, ValueSets
    <3> QED
      BY <3>1
  <2> QED
    BY <2>2, <2>5 DEF Q
<1>4. Limits
  BY LimitsHold DEF Init
<1>5. Acc \in Accs
  <2>1. tags \in [Values -> SUBSET Tag] /\ states \in Nat /\ deepest \in Nat
    BY DEF Init
  <2>2. changed \in BOOLEAN
    BY DEF Init
  <2> QED
    BY <2>1, <2>2 DEF Acc, Accs
<1>6. Kept(Acc.tags)
  <2>1. \A v \in Values : IsFiniteSet(tags[v])
    BY <1>2, FS_EmptySet
  <2> QED
    BY <1>2, <2>1, AccIs DEF Kept
<1>7. /\ Acc.deepest <= functionDepth /\ Acc.states = Total(Acc.tags)
      /\ maxStates # 0 => Acc.states <= maxStates
  BY <1>3, <1>4, AccIs DEF Limits, Init
<1>8. Proper(Acc)
  BY <1>5, <1>6, <1>7 DEF Proper
<1>9. Len(program.ops) \in Nat
  BY ProgramFacts DEF Init
<1> QED
  BY <1>8, <1>9 DEF Init, Typed

\* All of Typed but the accumulator.
Shape ==
  /\ program \in Programs /\ functionDepth \in Depths /\ maxStates \in StateLimits
  /\ stopping \in {"no", "canceled", "timeout"}
  /\ next \in 1 .. Len(program.ops) + 1 /\ passes \in Nat
  /\ completion \in {"complete", "limited", "timeout", "canceled"}
  /\ pc \in {"seed", "loop", "pass", "done"}

LEMMA ShapeNext ==
  ASSUME Shape, [Next]_vars
  PROVE  Shape' /\ UNCHANGED inputs
<1>1. UNCHANGED inputs
  BY DEF Next, Step, Seed, BeginPass, Operate, BlockArguments, Converge, StopEarly, Stop,
         Terminated, vars, inputs
<1>2. stopping' \in {"no", "canceled", "timeout"}
  BY DEF Shape, Next, Step, Seed, BeginPass, Operate, BlockArguments, Converge, StopEarly,
         Stop, Terminated, vars
<1>3. pc' \in {"seed", "loop", "pass", "done"}
  BY DEF Shape, Next, Step, Seed, BeginPass, Operate, BlockArguments, Converge, StopEarly,
         Stop, Terminated, vars
<1>4. completion' \in {"complete", "limited", "timeout", "canceled"}
  BY DEF Shape, Next, Step, Seed, BeginPass, Operate, BlockArguments, Converge, StopEarly,
         Stop, Terminated, vars, StopReason
<1>5. passes' \in Nat
  <2>1. passes' = passes \/ passes' = passes + 1
    BY DEF Next, Step, Seed, BeginPass, Operate, BlockArguments, Converge, StopEarly, Stop,
           Terminated, vars
  <2> QED
    BY <2>1 DEF Shape
<1>6. Len(program.ops) \in Nat
  BY ProgramFacts DEF Shape
<1>7. next' \in 1 .. Len(program.ops) + 1
  <2>1. next' = next \/ next' = 1 \/ (next' = next + 1 /\ next <= Len(program.ops))
    BY DEF Next, Step, Seed, BeginPass, Operate, BlockArguments, Converge, StopEarly,
           Stop, Terminated, vars
  <2> QED
    BY <1>6, <2>1 DEF Shape
<1> QED
  BY <1>1, <1>2, <1>3, <1>4, <1>5, <1>7 DEF Shape, inputs

\* The accumulator goes on by one of the three additions, or stays but for
\* changed.
LEMMA AccNext ==
  ASSUME Typed, [Next]_vars
  PROVE  \/ Added(Acc, Acc')
         \/ /\ tags' = tags /\ states' = states /\ deepest' = deepest
            /\ changed' = FALSE \/ changed' = changed
<1>1. CASE Seed
  BY <1>1, SeedStep
<1>2. CASE Operate
  BY <1>2, OperateStep
<1>3. CASE BlockArguments
  BY <1>3, BlockStepTaken
<1>4. CASE BeginPass
  BY <1>4 DEF BeginPass
<1>5. CASE Converge \/ StopEarly \/ Stop \/ UNCHANGED vars
  BY <1>5 DEF Converge, StopEarly, Stop, vars
<1> QED
  BY <1>1, <1>2, <1>3, <1>4, <1>5 DEF Next, Step, Terminated

LEMMA ProperKept ==
  ASSUME Proper(Acc), tags' = tags, states' = states, deepest' = deepest,
         changed' = FALSE \/ changed' = changed
  PROVE  Proper(Acc')
<1>1. Acc.changed \in BOOLEAN /\ Acc.tags \in [Values -> SUBSET Tag]
      /\ Acc.states \in Nat /\ Acc.deepest \in Nat
  BY AccFields DEF Proper
<1>2. changed' \in BOOLEAN
  BY <1>1, AccChanged
<1>3. Acc' \in Accs
  <2>1. tags' \in [Values -> SUBSET Tag] /\ states' \in Nat /\ deepest' \in Nat
    BY <1>1, AccIs
  <2> QED
    BY <1>2, <2>1 DEF Acc, Accs
<1>4. Acc'.tags = Acc.tags /\ Acc'.states = Acc.states /\ Acc'.deepest = Acc.deepest
  BY DEF Acc
<1> QED
  BY <1>3, <1>4 DEF Proper

LEMMA TypedNext ==
  ASSUME Typed, [Next]_vars
  PROVE  Typed'
<1>1. Shape' /\ UNCHANGED inputs
  BY ShapeNext DEF Typed, Shape
<1>2. Proper(Acc')
  BY AccNext, ProperKept DEF Typed, Added
<1>3. Proper(Acc)'
  BY <1>1, <1>2, ProperNext
<1> QED
  BY <1>1, <1>3 DEF Typed, Shape

LEMMA TypedHolds == Spec => []Typed
<1>1. Init => Typed
  BY StartTyped
<1>2. Typed /\ [Next]_vars => Typed'
  BY TypedNext
<1> QED
  BY <1>1, <1>2, PTL DEF Spec

\* The types of the loop's state; that every value has one tag per key, and that
\* result.states is the number of tags and never above max_states (add_tag).
THEOREM TagTypes == Spec => []TypeOK
<1>1. Typed => TypeOK
  <2> SUFFICES ASSUME Typed
               PROVE  TypeOK
    OBVIOUS
  <2>1. /\ Acc.tags \in [Values -> SUBSET Tag] /\ Acc.states \in Nat
        /\ Acc.changed \in BOOLEAN /\ Acc.deepest \in Nat
    BY AccFields DEF Typed, Proper
  <2>2. Limits
    BY LimitsHold DEF Typed
  <2>3. DOMAIN tags = Values /\ \A v \in Values : \A t \in tags[v] : t \in Tag
    BY <2>1, AccIs
  <2>4. states \in Nat /\ deepest \in 0 .. functionDepth
    BY <2>1, <2>2, AccIs DEF Typed, Proper, Limits
  <2>5. changed \in BOOLEAN
    BY <2>1, AccChanged
  <2>6. states = Total(tags) /\ (maxStates # 0 => states <= maxStates)
    BY AccIs DEF Typed, Proper
  <2>7. Kept(tags)
    BY AccIs DEF Typed, Proper
  <2>8. StatesCounted
    <3>1. states = FoldSet(LAMBDA v, n : n + Cardinality(tags[v]), 0, Values)
      BY <2>6 DEF Total
    <3> QED
      BY <2>6, <2>7, <3>1 DEF Kept, StatesCounted
  <2> QED
    BY <2>3, <2>4, <2>5, <2>8 DEF Typed, TypeOK
<1> QED
  BY <1>1, TypedHolds, PTL

-----------------------------------------------------------------------------
(* What holds while the passes run.                                        *)

\* The phases: seeding counts as a change, and the loop ends complete only after
\* a pass without one.
Phases ==
  /\ pc = "seed" => changed
  /\ completion # "complete" => pc = "done"
  /\ pc = "done" /\ completion = "complete" => ~ changed

\* Unless result.states is at its limit, no seed was refused or lost.
SeedsKept ==
  pc # "seed" /\ Room(Acc) => \A s \in program.seeds : Covered(tags, s[1], s[2])

\* Nothing changed since the pass began, or in all of the last one.
Quiet == ~ changed /\ (pc = "done" => completion = "complete")

\* What the pass has gone through without a change is closed.
PassSettled ==
  Quiet =>
    /\ Room(Acc)
    /\ \A i \in DOMAIN program.ops :
         (pc = "pass" => i < next) => OpClosed(tags, program.ops[i])
    /\ pc # "pass" => BlocksClosed(tags, program.blocks)

LoopInv == Typed /\ Phases /\ OnlyReached /\ SeedsKept /\ PassSettled

LEMMA ContainsNext ==
  ASSUME NEW R, UNCHANGED inputs
  PROVE  KeepsAll(R)' <=> KeepsAll(R)
BY DEF KeepsAll, OpKeeps, BlocksKeep, CrossesIn, Summarised, Through, inputs

LEMMA RoomNext ==
  ASSUME UNCHANGED inputs
  PROVE  Room(Acc)' <=> Room(Acc')
BY DEF Room, inputs

LEMMA PhasesNext ==
  ASSUME Typed, Phases, [Next]_vars
  PROVE  Phases'
<1>1. CASE Seed
  <2>1. Acc.changed => Acc'.changed
    BY <1>1, SeedStep DEF Added, Grows
  <2>2. changed'
    BY <1>1, <2>1 DEF Seed, Phases, Acc
  <2> QED
    BY <1>1, <2>2 DEF Seed, Phases
<1>2. CASE Operate
  BY <1>2 DEF Operate, Phases
<1>3. CASE BlockArguments
  BY <1>3 DEF BlockArguments, Phases
<1>4. CASE BeginPass
  BY <1>4 DEF BeginPass, Phases
<1>5. CASE Converge
  BY <1>5 DEF Converge, Phases
<1>6. CASE StopEarly
  <2>1. completion' # "complete"
    BY <1>6 DEF StopEarly, StopReason, Typed
  <2> QED
    BY <1>6, <2>1 DEF StopEarly, Phases
<1>7. CASE Stop \/ UNCHANGED vars
  BY <1>7 DEF Stop, vars, Phases
<1> QED
  BY <1>1, <1>2, <1>3, <1>4, <1>5, <1>6, <1>7 DEF Next, Step, Terminated

LEMMA OnlyReachedNext ==
  ASSUME Typed, OnlyReached, [Next]_vars
  PROVE  OnlyReached'
<1>1. UNCHANGED inputs
  BY ShapeNext DEF Typed, Shape
<1>2. ASSUME NEW R, KeepsAll(R)
      PROVE  Sound(tags', R)
  <2>1. Sound(tags, R)
    BY <1>2 DEF OnlyReached
  <2>2. Acc.tags = tags /\ Acc'.tags = tags'
    BY DEF Acc
  <2> QED
    BY <1>2, <2>1, <2>2, AccNext DEF Added
<1>3. \A R : KeepsAll(R)' => KeepsAll(R)
  BY <1>1, ContainsNext
<1> QED
  BY <1>2, <1>3 DEF OnlyReached

\* What a step makes of the accumulator, as the invariants need it.
LEMMA StepGrows ==
  ASSUME Typed, [Next]_vars, ~ BeginPass
  PROVE  /\ UNCHANGED inputs /\ Limits
         /\ Acc \in Accs /\ Acc' \in Accs /\ Grows(Acc, Acc')
<1>1. UNCHANGED inputs /\ Limits
  BY ShapeNext, LimitsHold DEF Typed, Shape
<1>2. Acc \in Accs
  BY DEF Typed, Proper
<1>3. CASE Added(Acc, Acc')
  BY <1>1, <1>2, <1>3 DEF Added, Proper
<1>4. CASE Acc' = Acc
  BY <1>1, <1>2, <1>4, GrowsSelf
<1>5. Added(Acc, Acc') \/ Acc' = Acc
  <2>1. CASE Seed \/ Operate \/ BlockArguments
    BY <2>1, SeedStep, OperateStep, BlockStepTaken
  <2>2. CASE Converge \/ StopEarly \/ Stop \/ UNCHANGED vars
    BY <2>2 DEF Converge, StopEarly, Stop, vars, Acc
  <2> QED
    BY <2>1, <2>2 DEF Next, Step, Terminated
<1> QED
  BY <1>1, <1>3, <1>4, <1>5

LEMMA SeedsKeptNext ==
  ASSUME Typed, SeedsKept, [Next]_vars
  PROVE  SeedsKept'
<1>1. UNCHANGED inputs
  BY ShapeNext DEF Typed, Shape
<1>2. SUFFICES ASSUME pc' # "seed", Room(Acc'), NEW s \in program.seeds
               PROVE  Covered(tags', s[1], s[2])
  <2>1. Room(Acc)' => Room(Acc')
    BY <1>1, RoomNext
  <2>2. program' = program
    BY <1>1 DEF inputs
  <2> QED
    BY <2>1, <2>2 DEF SeedsKept, Covered, Covers
<1>3. CASE Seed
  BY <1>2, <1>3, SeedStep
<1>4. CASE BeginPass
  <2>1. tags' = tags /\ states' = states /\ pc # "seed"
    BY <1>4 DEF BeginPass
  <2>2. Room(Acc)
    BY <1>2, <2>1 DEF Room, Acc
  <2> QED
    BY <1>2, <2>1, <2>2 DEF SeedsKept
<1>5. CASE ~ Seed /\ ~ BeginPass
  <2>1. pc # "seed"
    BY <1>2, <1>5 DEF Next, Step, Operate, BlockArguments, Converge, StopEarly, Stop,
                      Terminated, vars
  <2>2. Limits /\ Acc \in Accs /\ Acc' \in Accs /\ Grows(Acc, Acc')
    BY <1>5, StepGrows
  <2>3. Room(Acc)
    BY <1>2, <2>2, RoomBefore
  <2>4. Covered(Acc.tags, s[1], s[2])
    BY <1>2, <2>1, <2>3, AccIs DEF SeedsKept
  <2>5. s[1] \in Values /\ s[2] \in Tag
    BY ProgramFacts DEF Typed, Seeds
  <2>6. Covered(Acc'.tags, s[1], s[2])
    BY <2>2, <2>4, <2>5, CoveredGrows
  <2> QED
    BY <2>6 DEF Acc
<1> QED
  BY <1>3, <1>4, <1>5

\* What was closed stays so without a change.
LEMMA QuietStep ==
  ASSUME Typed, [Next]_vars, ~ BeginPass, ~ changed', Room(Acc)
  PROVE  /\ ~ changed /\ Room(Acc')
         /\ \A i \in DOMAIN program.ops :
              OpClosed(tags, program.ops[i]) => OpClosed(tags', program.ops[i])
         /\ BlocksClosed(tags, program.blocks) => BlocksClosed(tags', program.blocks)
<1>1. Acc \in Accs /\ Acc' \in Accs /\ Grows(Acc, Acc')
  BY StepGrows
<1>2. /\ Acc.tags = tags /\ Acc'.tags = tags' /\ Acc.changed = changed
      /\ Acc'.changed = changed'
  BY DEF Acc
<1>3. ~ Acc'.changed
  BY <1>2
<1>4. ~ changed
  BY <1>1, <1>2, <1>3 DEF Grows
<1>5. Acc.states = Acc'.states /\ Same(tags, tags')
  BY <1>1, <1>2, <1>3 DEF Grows
<1>6. Room(Acc')
  BY <1>5 DEF Room
<1>7. tags \in [Values -> SUBSET Tag] /\ tags' \in [Values -> SUBSET Tag]
  BY <1>1, <1>2, AccFields
<1>8. /\ \A i \in DOMAIN program.ops : Sensible(program.ops[i])
      /\ program.blocks \in Seq(Values \X Values)
  BY ProgramFacts DEF Typed
<1>9. ASSUME NEW i \in DOMAIN program.ops, OpClosed(tags, program.ops[i])
      PROVE  OpClosed(tags', program.ops[i])
  BY <1>5, <1>7, <1>8, <1>9, OpClosedSame
<1>10. ASSUME BlocksClosed(tags, program.blocks)
       PROVE  BlocksClosed(tags', program.blocks)
  <2>1. \A k \in DOMAIN program.blocks : program.blocks[k] \in Values \X Values
    BY <1>8
  <2> QED
    BY <1>5, <1>10, <2>1, BlocksClosedSame
<1> QED
  BY <1>4, <1>6, <1>9, <1>10

\* PassSettled after a step, with the inputs as they were.
Settles ==
  Quiet' =>
    /\ Room(Acc')
    /\ \A i \in DOMAIN program.ops :
         (pc' = "pass" => i < next') => OpClosed(tags', program.ops[i])
    /\ pc' # "pass" => BlocksClosed(tags', program.blocks)

LEMMA SettlesNext ==
  ASSUME UNCHANGED inputs, Settles
  PROVE  PassSettled'
<1>1. Room(Acc') => Room(Acc)'
  BY RoomNext
<1>2. \A i \in DOMAIN program.ops : OpClosed(tags', program.ops[i]) => OpClosed(tags, program.ops[i])'
  BY DEF OpClosed, Crosses, inputs, HandsOn, Exact, Sharp, Summarised
<1>3. BlocksClosed(tags', program.blocks) => BlocksClosed(tags, program.blocks)'
  BY DEF BlocksClosed, inputs
<1>4. DOMAIN program.ops = DOMAIN program'.ops
  BY DEF inputs
<1> QED
  BY <1>1, <1>2, <1>3, <1>4 DEF PassSettled, Settles

LEMMA SettlesHolds ==
  ASSUME Typed, Phases, PassSettled, [Next]_vars
  PROVE  Settles
<1>1. Len(program.ops) \in Nat /\ DOMAIN program.ops = 1 .. Len(program.ops)
  BY ProgramFacts DEF Typed
<1>2. next \in Nat
  BY <1>1 DEF Typed
<1>3. CASE BeginPass
  <2>1. pc' = "pass" /\ next' = 1 /\ tags' = tags /\ states' = states
    BY <1>3 DEF BeginPass
  <2>2. Room(Acc')
    <3>1. Limits /\ Acc.states \in Nat
      BY LimitsHold, AccFields DEF Typed, Proper
    <3>2. ~ Full
      BY <1>3 DEF BeginPass, Stopped
    <3>3. Acc'.states = states /\ Acc.states = states
      BY <2>1 DEF Acc
    <3> QED
      BY <3>1, <3>2, <3>3 DEF Full, Room, Limits
  <2> QED
    BY <1>1, <2>1, <2>2 DEF Settles
<1>4. CASE ~ BeginPass
  <2> SUFFICES ASSUME Quiet'
               PROVE  /\ Room(Acc')
                      /\ \A i \in DOMAIN program.ops :
                           (pc' = "pass" => i < next') => OpClosed(tags', program.ops[i])
                      /\ pc' # "pass" => BlocksClosed(tags', program.blocks)
    BY DEF Settles
  <2>1. ~ changed
    <3>1. Acc.changed => Acc'.changed
      BY <1>4, StepGrows DEF Grows
    <3> QED
      BY <3>1 DEF Quiet, Acc
  <2>2. Quiet
    <3>1. ASSUME pc = "done"
          PROVE  pc' = pc /\ completion' = completion
      BY <3>1 DEF Next, Step, Seed, BeginPass, Operate, BlockArguments, Converge, StopEarly,
                  Stop, Terminated, vars
    <3> QED
      BY <2>1, <3>1 DEF Quiet
  <2>3. Room(Acc) /\ ~ changed'
    BY <2>2 DEF PassSettled, Quiet
  <2>4. /\ Room(Acc')
        /\ \A i \in DOMAIN program.ops :
             OpClosed(tags, program.ops[i]) => OpClosed(tags', program.ops[i])
        /\ BlocksClosed(tags, program.blocks) => BlocksClosed(tags', program.blocks)
    BY <1>4, <2>3, QuietStep
  <2>5. /\ \A i \in DOMAIN program.ops :
             (pc = "pass" => i < next) => OpClosed(tags', program.ops[i])
        /\ pc # "pass" => BlocksClosed(tags', program.blocks)
    BY <2>2, <2>4 DEF PassSettled
  <2>6. CASE Seed
    BY <2>1, <2>6 DEF Seed, Phases
  <2>7. CASE Operate
    <3>1. pc = "pass" /\ pc' = "pass" /\ next' = next + 1
      BY <2>7 DEF Operate
    <3>2. OpClosed(tags', program.ops[next])
      BY <2>3, <2>4, <2>7, OperateStep
    <3>3. ASSUME NEW i \in DOMAIN program.ops, i < next'
          PROVE  OpClosed(tags', program.ops[i])
      <4>1. i < next \/ i = next
        BY <1>1, <1>2, <3>1, <3>3
      <4> QED
        BY <2>5, <3>1, <3>2, <4>1
    <3> QED
      BY <2>4, <3>1, <3>3
  <2>8. CASE BlockArguments
    <3>1. pc = "pass" /\ pc' = "loop" /\ next > Len(program.ops)
      BY <2>8 DEF BlockArguments
    <3>2. \A i \in DOMAIN program.ops : i < next
      BY <1>1, <1>2, <3>1
    <3>3. BlocksClosed(tags', program.blocks)
      BY <2>3, <2>4, <2>8, BlockStepTaken
    <3> QED
      BY <2>4, <2>5, <3>1, <3>2, <3>3
  <2>9. CASE Converge
    <3>1. pc = "loop" /\ pc' = "done"
      BY <2>9 DEF Converge
    <3> QED
      BY <2>4, <2>5, <3>1
  <2>10. CASE StopEarly
    <3>1. completion' # "complete" /\ pc' = "done"
      BY <2>10 DEF StopEarly, StopReason, Typed
    <3> QED
      BY <3>1 DEF Quiet
  <2>11. CASE Stop \/ UNCHANGED vars
    <3>1. pc' = pc /\ next' = next
      BY <2>11 DEF Stop, vars
    <3> QED
      BY <2>4, <2>5, <3>1
  <2> QED
    BY <1>4, <2>6, <2>7, <2>8, <2>9, <2>10, <2>11 DEF Next, Step, Terminated
<1> QED
  BY <1>3, <1>4

LEMMA StartLoopInv ==
  ASSUME Init
  PROVE  LoopInv
<1>1. Typed
  BY StartTyped
<1>2. Phases /\ SeedsKept /\ PassSettled
  BY DEF Init, Phases, SeedsKept, PassSettled, Quiet
<1>3. OnlyReached
  BY DEF Init, OnlyReached, Sound
<1> QED
  BY <1>1, <1>2, <1>3 DEF LoopInv

LEMMA LoopInvHolds == Spec => []LoopInv
<1>1. Init => LoopInv
  BY StartLoopInv
<1>2. LoopInv /\ [Next]_vars => LoopInv'
  <2> SUFFICES ASSUME LoopInv, [Next]_vars
               PROVE  LoopInv'
    OBVIOUS
  <2>1. Typed' /\ Phases' /\ OnlyReached' /\ SeedsKept'
    BY TypedNext, PhasesNext, OnlyReachedNext, SeedsKeptNext DEF LoopInv
  <2>2. PassSettled'
    <3>1. UNCHANGED inputs
      BY ShapeNext DEF LoopInv, Typed, Shape
    <3>2. Settles
      BY SettlesHolds DEF LoopInv
    <3> QED
      BY <3>1, <3>2, SettlesNext
  <2> QED
    BY <2>1, <2>2 DEF LoopInv
<1> QED
  BY <1>1, <1>2, PTL DEF Spec

-----------------------------------------------------------------------------
(* What can be reached from the seeds, as the properties define it.        *)

LEMMA ProductOfThree ==
  ASSUME NEW A, IsFiniteSet(A), NEW B, IsFiniteSet(B), NEW C, IsFiniteSet(C)
  PROVE  IsFiniteSet(A \X B \X C)
<1> DEFINE S == A \X (B \X C)
           f == [x \in S |-> <<x[1], x[2][1], x[2][2]>>]
<1>1. IsFiniteSet(S)
  BY FS_Product
<1>2. A \X B \X C \subseteq {f[x] : x \in S}
  <2> SUFFICES ASSUME NEW y \in A \X B \X C
               PROVE  y \in {f[x] : x \in S}
    OBVIOUS
  <2>1. <<y[1], <<y[2], y[3]>>>> \in S
    OBVIOUS
  <2>2. f[<<y[1], <<y[2], y[3]>>>>] = y
    BY <2>1
  <2> HIDE DEF f, S
  <2> QED
    BY <2>1, <2>2
<1> HIDE DEF f, S
<1>3. IsFiniteSet({f[x] : x \in S})
  BY <1>1, ImageFinite
<1> QED
  BY <1>2, <1>3, FS_Subset

LEMMA ProductOfFour ==
  ASSUME NEW A, IsFiniteSet(A), NEW B, IsFiniteSet(B), NEW C, IsFiniteSet(C),
         NEW D, IsFiniteSet(D)
  PROVE  IsFiniteSet(A \X B \X C \X D)
<1> DEFINE S == A \X B \X (C \X D)
           f == [x \in S |-> <<x[1], x[2], x[3][1], x[3][2]>>]
<1>1. IsFiniteSet(S)
  BY FS_Product, ProductOfThree
<1>2. A \X B \X C \X D \subseteq {f[x] : x \in S}
  <2> SUFFICES ASSUME NEW y \in A \X B \X C \X D
               PROVE  y \in {f[x] : x \in S}
    OBVIOUS
  <2>1. <<y[1], y[2], <<y[3], y[4]>>>> \in S
    OBVIOUS
  <2>2. f[<<y[1], y[2], <<y[3], y[4]>>>>] = y
    BY <2>1
  <2> HIDE DEF f, S
  <2> QED
    BY <2>1, <2>2
<1> HIDE DEF f, S
<1>3. IsFiniteSet({f[x] : x \in S})
  BY <1>1, ImageFinite
<1> QED
  BY <1>2, <1>3, FS_Subset

Started == {<<s[1], Key(s[2]), 0>> : s \in program.seeds}

\* The first m sets of moves, as a function: what Within is defined to be, on 0 .. m.
Approximates(g, m) ==
  /\ DOMAIN g = 0 .. m
  /\ g[0] = Started
  /\ \A k \in 1 .. m : g[k] = Onward(g[k - 1])

LEMMA ApproximationExists == \A m \in Nat : \E g : Approximates(g, m)
<1> DEFINE Q == {m \in Nat : \E g : Approximates(g, m)}
<1>1. 0 \in Q
  <2> DEFINE g == [k \in 0 .. 0 |-> Started]
  <2>1. DOMAIN g = 0 .. 0 /\ g[0] = Started /\ 1 .. 0 = {}
    OBVIOUS
  <2> HIDE DEF g
  <2> QED
    BY <2>1 DEF Approximates
<1>2. ASSUME NEW n \in Nat, n \in Q
      PROVE  n + 1 \in Q
  <2>1. PICK g : Approximates(g, n)
    BY <1>2
  <2> DEFINE m == n + 1
             h == [k \in 0 .. m |-> IF k = m THEN Onward(g[n]) ELSE g[k]]
  <2>2. DOMAIN h = 0 .. m /\ h[m] = Onward(g[n]) /\ \A k \in 0 .. n : h[k] = g[k]
    OBVIOUS
  <2> HIDE DEF h
  <2>3. h[0] = Started
    BY <2>1, <2>2 DEF Approximates
  <2>4. ASSUME NEW k \in 1 .. m
        PROVE  h[k] = Onward(h[k - 1])
    <3>1. CASE k = m
      <4>1. k - 1 = n /\ n \in 0 .. n
        BY <3>1
      <4> QED
        BY <2>2, <3>1, <4>1
    <3>2. CASE k # m
      <4>1. k \in 1 .. n /\ k \in 0 .. n /\ k - 1 \in 0 .. n
        BY <3>2
      <4> QED
        BY <2>1, <2>2, <4>1 DEF Approximates
    <3> QED
      BY <3>1, <3>2
  <2>5. Approximates(h, m)
    BY <2>2, <2>3, <2>4 DEF Approximates
  <2> QED
    BY <2>5
<1> HIDE DEF Q
<1>3. Nat \subseteq Q
  BY <1>1, <1>2, NaturalsOf
<1> QED
  BY <1>3 DEF Q

LEMMA ApproximationsAgree ==
  ASSUME NEW m \in Nat, NEW n \in Nat, m <= n,
         NEW g, Approximates(g, m), NEW h, Approximates(h, n)
  PROVE  \A k \in 0 .. m : g[k] = h[k]
<1> DEFINE Q == {k \in Nat : k <= m => g[k] = h[k]}
<1>1. 0 \in Q
  BY DEF Approximates
<1>2. ASSUME NEW k \in Nat, k \in Q
      PROVE  k + 1 \in Q
  <2> SUFFICES ASSUME k + 1 <= m
               PROVE  g[k + 1] = h[k + 1]
    OBVIOUS
  <2>1. k <= m /\ k + 1 \in 1 .. m /\ k + 1 \in 1 .. n /\ (k + 1) - 1 = k
    OBVIOUS
  <2>2. g[k] = h[k]
    BY <1>2, <2>1
  <2>3. g[k + 1] = Onward(g[k]) /\ h[k + 1] = Onward(h[k])
    BY <2>1 DEF Approximates
  <2> QED
    BY <2>2, <2>3
<1> HIDE DEF Q
<1>3. Nat \subseteq Q
  BY <1>1, <1>2, NaturalsOf
<1> QED
  BY <1>3 DEF Q

\* Within is what its definition says.
LEMMA WithinSteps ==
  /\ Within[0] = Started
  /\ \A n \in Nat : Within[n + 1] = Onward(Within[n])
<1> DEFINE G(n) == CHOOSE g : Approximates(g, n)
           F == [n \in Nat |-> G(n)[n]]
           Body(f) == [n \in Nat |-> IF n = 0 THEN Started ELSE Onward(f[n - 1])]
<1>1. \A n \in Nat : Approximates(G(n), n)
  BY ApproximationExists
<1>2. \A n \in Nat : F[n] = G(n)[n]
  OBVIOUS
<1> HIDE DEF G, F
<1>3. F[0] = Started
  BY <1>1, <1>2 DEF Approximates
<1>4. ASSUME NEW n \in Nat \ {0} PROVE F[n] = Onward(F[n - 1])
  <2>1. n - 1 \in Nat /\ n - 1 <= n /\ n \in 1 .. n /\ n - 1 \in 0 .. n - 1
    OBVIOUS
  <2>2. G(n)[n] = Onward(G(n)[n - 1])
    BY <1>1, <2>1 DEF Approximates
  <2>3. G(n - 1)[n - 1] = G(n)[n - 1]
    BY <1>1, <2>1, ApproximationsAgree
  <2> QED
    BY <1>2, <2>1, <2>2, <2>3
<1>5. F = Body(F)
  <2>1. F = [n \in Nat |-> F[n]]
    BY DEF F
  <2>2. \A n \in Nat : F[n] = IF n = 0 THEN Started ELSE Onward(F[n - 1])
    BY <1>3, <1>4
  <2> QED
    BY <2>1, <2>2
<1>6. Within = CHOOSE f : f = Body(f)
  BY DEF Within, Started
<1>7. Within = Body(Within)
  BY <1>5, <1>6
<1> HIDE DEF Body
<1>8. \A n \in Nat : Within[n] = IF n = 0 THEN Started ELSE Onward(Within[n - 1])
  BY <1>7 DEF Body
<1>9. \A n \in Nat : n + 1 \in Nat /\ n + 1 # 0 /\ (n + 1) - 1 = n
  OBVIOUS
<1> QED
  BY <1>8, <1>9

LEMMA Joined ==
  ASSUME NEW S, NEW s \in Seq(S), NEW t \in Seq(S)
  PROVE  \A p : p \in ToSet(s \o t) <=> p \in ToSet(s) \/ p \in ToSet(t)
<1> DEFINE n == Len(s)
           m == Len(t)
           u == s \o t
<1>1. n \in Nat /\ m \in Nat /\ DOMAIN s = 1 .. n /\ DOMAIN t = 1 .. m
  OBVIOUS
<1>2. DOMAIN u = 1 .. n + m
  OBVIOUS
<1>3. \A i \in 1 .. n + m : u[i] = IF i <= n THEN s[i] ELSE t[i - n]
  OBVIOUS
<1> HIDE DEF n, m, u
<1>4. ASSUME NEW i \in 1 .. n
      PROVE  i \in DOMAIN u /\ u[i] = s[i]
  BY <1>1, <1>2, <1>3
<1>5. ASSUME NEW i \in 1 .. m
      PROVE  i + n \in DOMAIN u /\ u[i + n] = t[i]
  BY <1>1, <1>2, <1>3
<1>6. ASSUME NEW i \in DOMAIN u
      PROVE  (i \in 1 .. n /\ u[i] = s[i]) \/ (i - n \in 1 .. m /\ u[i] = t[i - n])
  BY <1>1, <1>2, <1>3
<1>7. \A p : p \in ToSet(u) <=> p \in ToSet(s) \/ p \in ToSet(t)
  BY <1>1, <1>4, <1>5, <1>6 DEF ToSet
<1> QED
  BY <1>7 DEF u

\* How the key k of the value v gets further by an operation, pair by pair and
\* output by output.
CrossesTo(pairs, v, k, s) == \E q \in DOMAIN pairs : pairs[q][1] = v /\ s = <<pairs[q][2], k, 1>>
GetsThrough(op, v, k, s) ==
  \E i \in DOMAIN op.ins : op.ins[i] = v
    /\ \E j \in Through(op, i, k) : \E o \in DOMAIN op.outs : s = <<op.outs[o], j, 0>>

LEMMA FlowsAre ==
  ASSUME NEW op, Sensible(op), NEW v, NEW k, NEW s
  PROVE  s \in Flows(op, v, k) <=>
           \/ op.kind = "call" /\ (CrossesTo(op.args, v, k, s) \/ CrossesTo(op.returns, v, k, s))
           \/ Summarised(op) /\ GetsThrough(op, v, k, s)
<1> DEFINE pairs == op.args \o op.returns
           crossing == IF op.kind # "call" THEN {}
                       ELSE {p[2] : p \in {q \in ToSet(pairs) : q[1] = v}}
           ways == {j \in DOMAIN op.ins : op.ins[j] = v}
           through == IF ~ Summarised(op) THEN {} ELSE UNION {Through(op, i, k) : i \in ways}
<1>1. Flows(op, v, k) = {<<w, k, 1>> : w \in crossing}
                          \cup {<<w, j, 0>> : w \in ToSet(op.outs), j \in through}
  BY DEF Flows
<1>2. op.args \in Seq(Values \X Values) /\ op.returns \in Seq(Values \X Values)
  BY OperationFields
<1>3. \A p : p \in ToSet(pairs) <=> (\E q \in DOMAIN op.args : p = op.args[q])
                                    \/ (\E q \in DOMAIN op.returns : p = op.returns[q])
  <2>1. \A p : p \in ToSet(pairs) <=> p \in ToSet(op.args) \/ p \in ToSet(op.returns)
    BY <1>2, Joined
  <2> HIDE DEF pairs
  <2>2. /\ \A p : p \in ToSet(op.args) <=> \E q \in DOMAIN op.args : p = op.args[q]
        /\ \A p : p \in ToSet(op.returns) <=> \E q \in DOMAIN op.returns : p = op.returns[q]
    BY DEF ToSet
  <2> QED
    BY <2>1, <2>2
<1>4. \A w : w \in crossing <=>
        op.kind = "call" /\ ((\E q \in DOMAIN op.args : op.args[q][1] = v /\ w = op.args[q][2])
                             \/ (\E q \in DOMAIN op.returns : op.returns[q][1] = v /\ w = op.returns[q][2]))
  <2> HIDE DEF pairs
  <2> QED
    BY <1>3
<1>5. \A j : j \in through <=>
        Summarised(op) /\ \E i \in DOMAIN op.ins : op.ins[i] = v /\ j \in Through(op, i, k)
  OBVIOUS
<1>6. \A w : w \in ToSet(op.outs) <=> \E o \in DOMAIN op.outs : w = op.outs[o]
  BY DEF ToSet
<1> HIDE DEF crossing, through, pairs
<1>7. s \in {<<w, k, 1>> : w \in crossing} <=>
        op.kind = "call" /\ (CrossesTo(op.args, v, k, s) \/ CrossesTo(op.returns, v, k, s))
  BY <1>4 DEF CrossesTo
<1>8. s \in {<<w, j, 0>> : w \in ToSet(op.outs), j \in through} <=>
        Summarised(op) /\ GetsThrough(op, v, k, s)
  BY <1>5, <1>6 DEF GetsThrough
<1> QED
  BY <1>1, <1>7, <1>8

LEMMA ThroughKeys ==
  ASSUME NEW S, NEW L, NEW op, op.at \in L, NEW i, NEW k \in S \X Forms \X BOOLEAN \X L,
         NEW j \in Through(op, i, k)
  PROVE  j \in S \X Forms \X BOOLEAN \X L
<1> DEFINE yes == TRUE
           no == FALSE
<1>1. yes \in BOOLEAN /\ no \in BOOLEAN
  OBVIOUS
<1>2. \/ j = k \/ j = <<k[1], k[2], yes, op.at>> \/ j = <<k[1], k[2], no, k[4]>>
      \/ j = <<k[1], "bytes", no, k[4]>>
  <2> DEFINE hidden == k[3] /\ {} \notin {k[4], op.at} /\ k[4] # op.at
  <2> HIDE DEF hidden
  <2>1. CASE op.kind = "store" /\ i = 2
    BY <2>1 DEF Through
  <2>2. CASE op.kind = "store" /\ i = 3
    BY <2>2 DEF Through
  <2>3. CASE op.kind = "store" /\ i # 2 /\ i # 3
    BY <2>3 DEF Through
  <2>4. CASE op.kind = "load"
    BY <2>4 DEF Through
  <2>5. CASE op.kind # "store" /\ op.kind # "load"
    BY <2>5 DEF Through
  <2> QED
    BY <2>1, <2>2, <2>3, <2>4, <2>5
<1> HIDE DEF yes, no
<1>3. k[1] \in S /\ k[2] \in Forms /\ k[4] \in L
  OBVIOUS
<1>4. "bytes" \in Forms
  BY DEF Forms
<1> QED
  BY <1>1, <1>2, <1>3, <1>4

\* One move further from x, by a call, to an output or by a block argument.
ByPair(pairs, x, y, levels) ==
  \E q \in DOMAIN pairs : pairs[q][1] = x[1] /\ y = <<pairs[q][2], x[2], x[3] + levels>>
ByOutput(op, x, y) ==
  \E i \in DOMAIN op.ins : op.ins[i] = x[1]
    /\ \E j \in Through(op, i, x[2]) : \E o \in DOMAIN op.outs : y = <<op.outs[o], j, x[3] + 0>>
ByOperation(op, x, y) ==
  \/ op.kind = "call" /\ (ByPair(op.args, x, y, 1) \/ ByPair(op.returns, x, y, 1))
  \/ Summarised(op) /\ ByOutput(op, x, y)

LEMMA SuccessorsAre ==
  ASSUME NEW v, NEW k
  PROVE  \A s : s \in Successors(v, k) <=>
           \/ \E i \in DOMAIN program.ops : s \in Flows(program.ops[i], v, k)
           \/ \E q \in DOMAIN program.blocks :
                program.blocks[q][1] = v /\ s = <<program.blocks[q][2], k, 0>>
<1> DEFINE flows == UNION {Flows(program.ops[i], v, k) : i \in DOMAIN program.ops}
           blocks == {<<p[2], k, 0>> : p \in {q \in ToSet(program.blocks) : q[1] = v}}
<1>1. Successors(v, k) = flows \cup blocks
  BY DEF Successors
<1>2. \A s : s \in flows <=> \E i \in DOMAIN program.ops : s \in Flows(program.ops[i], v, k)
  OBVIOUS
<1>3. \A s : s \in blocks <=> \E q \in DOMAIN program.blocks :
              program.blocks[q][1] = v /\ s = <<program.blocks[q][2], k, 0>>
  BY DEF ToSet
<1> HIDE DEF flows, blocks
<1> QED
  BY <1>1, <1>2, <1>3

LEMMA MovesAre ==
  ASSUME program \in Programs, NEW x, NEW y
  PROVE  y \in Moves(x) <=> \/ \E i \in DOMAIN program.ops : ByOperation(program.ops[i], x, y)
                            \/ ByPair(program.blocks, x, y, 0)
<1> DEFINE To(s) == <<s[1], s[2], x[3] + s[3]>>
           blocks == {<<p[2], x[2], 0>> : p \in {q \in ToSet(program.blocks) : q[1] = x[1]}}
<1>1. \A s : s \in Successors(x[1], x[2]) <=>
        (\E i \in DOMAIN program.ops : s \in Flows(program.ops[i], x[1], x[2])) \/ s \in blocks
  <2>1. \A s : s \in blocks <=> \E q \in DOMAIN program.blocks :
                program.blocks[q][1] = x[1] /\ s = <<program.blocks[q][2], x[2], 0>>
    BY DEF ToSet
  <2> HIDE DEF blocks
  <2> QED
    BY <2>1, SuccessorsAre
<1>2. y \in Moves(x) <=> \E s \in Successors(x[1], x[2]) : y = To(s)
  BY DEF Moves
<1>6. \A a, k, n : To(<<a, k, n>>) = <<a, k, x[3] + n>>
  OBVIOUS
<1>7. \A s : s \in blocks <=> \E q \in DOMAIN program.blocks :
              program.blocks[q][1] = x[1] /\ s = <<program.blocks[q][2], x[2], 0>>
  BY DEF ToSet
<1> HIDE DEF To, blocks
<1>3. ASSUME NEW op, Sensible(op)
      PROVE  (\E s \in Flows(op, x[1], x[2]) : y = To(s)) <=> ByOperation(op, x, y)
  <2>1. \A s : s \in Flows(op, x[1], x[2]) <=>
           \/ op.kind = "call" /\ (CrossesTo(op.args, x[1], x[2], s) \/ CrossesTo(op.returns, x[1], x[2], s))
           \/ Summarised(op) /\ GetsThrough(op, x[1], x[2], s)
    BY <1>3, FlowsAre
  <2>2. ASSUME NEW pairs
        PROVE  (\E s : CrossesTo(pairs, x[1], x[2], s) /\ y = To(s)) <=> ByPair(pairs, x, y, 1)
    <3>1. ASSUME NEW s, CrossesTo(pairs, x[1], x[2], s), y = To(s)
          PROVE  ByPair(pairs, x, y, 1)
      <4>1. PICK q \in DOMAIN pairs : pairs[q][1] = x[1] /\ s = <<pairs[q][2], x[2], 1>>
        BY <3>1 DEF CrossesTo
      <4>2. y = <<pairs[q][2], x[2], x[3] + 1>>
        BY <1>6, <3>1, <4>1
      <4> QED
        BY <4>1, <4>2 DEF ByPair
    <3>2. ASSUME ByPair(pairs, x, y, 1)
          PROVE  \E s : CrossesTo(pairs, x[1], x[2], s) /\ y = To(s)
      <4>1. PICK q \in DOMAIN pairs : pairs[q][1] = x[1] /\ y = <<pairs[q][2], x[2], x[3] + 1>>
        BY <3>2 DEF ByPair
      <4>2. y = To(<<pairs[q][2], x[2], 1>>)
        BY <1>6, <4>1
      <4>3. CrossesTo(pairs, x[1], x[2], <<pairs[q][2], x[2], 1>>)
        BY <4>1 DEF CrossesTo
      <4> QED
        BY <4>2, <4>3
    <3> QED
      BY <3>1, <3>2
  <2>3. (\E s : GetsThrough(op, x[1], x[2], s) /\ y = To(s)) <=> ByOutput(op, x, y)
    <3>1. ASSUME NEW s, GetsThrough(op, x[1], x[2], s), y = To(s)
          PROVE  ByOutput(op, x, y)
      <4>1. PICK i \in DOMAIN op.ins : op.ins[i] = x[1]
               /\ \E j \in Through(op, i, x[2]) : \E o \in DOMAIN op.outs : s = <<op.outs[o], j, 0>>
        BY <3>1 DEF GetsThrough
      <4>2. PICK j \in Through(op, i, x[2]), o \in DOMAIN op.outs : s = <<op.outs[o], j, 0>>
        BY <4>1
      <4>3. y = <<op.outs[o], j, x[3] + 0>>
        BY <1>6, <3>1, <4>2
      <4> QED
        BY <4>1, <4>3 DEF ByOutput
    <3>2. ASSUME ByOutput(op, x, y)
          PROVE  \E s : GetsThrough(op, x[1], x[2], s) /\ y = To(s)
      <4>1. PICK i \in DOMAIN op.ins : op.ins[i] = x[1]
               /\ \E j \in Through(op, i, x[2]) : \E o \in DOMAIN op.outs :
                    y = <<op.outs[o], j, x[3] + 0>>
        BY <3>2 DEF ByOutput
      <4>2. PICK j \in Through(op, i, x[2]), o \in DOMAIN op.outs :
              y = <<op.outs[o], j, x[3] + 0>>
        BY <4>1
      <4>3. y = To(<<op.outs[o], j, 0>>)
        BY <1>6, <4>2
      <4>4. GetsThrough(op, x[1], x[2], <<op.outs[o], j, 0>>)
        BY <4>1 DEF GetsThrough
      <4> QED
        BY <4>3, <4>4
    <3> QED
      BY <3>1, <3>2
  <2> QED
    BY <2>1, <2>2, <2>3 DEF ByOperation
<1>4. (\E s \in blocks : y = To(s)) <=> ByPair(program.blocks, x, y, 0)
  <2>1. ASSUME NEW s \in blocks, y = To(s)
        PROVE  ByPair(program.blocks, x, y, 0)
    <3>1. PICK q \in DOMAIN program.blocks :
            program.blocks[q][1] = x[1] /\ s = <<program.blocks[q][2], x[2], 0>>
      BY <1>7
    <3>2. y = <<program.blocks[q][2], x[2], x[3] + 0>>
      BY <1>6, <2>1, <3>1
    <3> QED
      BY <3>1, <3>2 DEF ByPair
  <2>2. ASSUME ByPair(program.blocks, x, y, 0)
        PROVE  \E s \in blocks : y = To(s)
    <3>1. PICK q \in DOMAIN program.blocks :
            program.blocks[q][1] = x[1] /\ y = <<program.blocks[q][2], x[2], x[3] + 0>>
      BY <2>2 DEF ByPair
    <3>2. y = To(<<program.blocks[q][2], x[2], 0>>)
      BY <1>6, <3>1
    <3>3. <<program.blocks[q][2], x[2], 0>> \in blocks
      BY <1>7, <3>1
    <3> QED
      BY <3>2, <3>3
  <2> QED
    BY <2>1, <2>2
<1>5. \A i \in DOMAIN program.ops : Sensible(program.ops[i])
  BY ProgramFacts
<1> QED
  BY <1>1, <1>2, <1>3, <1>4, <1>5

\* The keys a tag could get.
Seeded == {Key(s[2]) : s \in program.seeds}
Slots == {k[4] : k \in Seeded} \cup {program.ops[i].at : i \in DOMAIN program.ops}
Keyed == {k[1] : k \in Seeded} \X Forms \X BOOLEAN \X Slots

LEMMA PositionsAre == Positions = Values \X Keyed \X (0 .. functionDepth)
BY DEF Positions, Keyed, Slots, Seeded

LEMMA KeyedFinite ==
  ASSUME program \in Programs
  PROVE  IsFiniteSet(Keyed)
<1>1. IsFiniteSet(Seeded)
  <2> DEFINE f == [s \in program.seeds |-> Key(s[2])]
  <2>1. IsFiniteSet(program.seeds)
    BY ProgramFacts DEF Seeds
  <2>2. Seeded = {f[s] : s \in program.seeds}
    BY DEF Seeded
  <2> HIDE DEF f
  <2> QED
    BY <2>1, <2>2, ImageFinite
<1>2. IsFiniteSet({k[1] : k \in Seeded}) /\ IsFiniteSet({k[4] : k \in Seeded})
  <2> DEFINE f == [k \in Seeded |-> k[1]]
             g == [k \in Seeded |-> k[4]]
  <2>1. {k[1] : k \in Seeded} = {f[k] : k \in Seeded} /\ {k[4] : k \in Seeded} = {g[k] : k \in Seeded}
    OBVIOUS
  <2> HIDE DEF f, g
  <2>2. IsFiniteSet({f[k] : k \in Seeded}) /\ IsFiniteSet({g[k] : k \in Seeded})
    BY <1>1, ImageFinite
  <2> QED
    BY <2>1, <2>2
<1>3. IsFiniteSet({program.ops[i].at : i \in DOMAIN program.ops})
  <2> DEFINE D == DOMAIN program.ops
             f == [i \in D |-> program.ops[i].at]
  <2>1. Len(program.ops) \in Nat /\ D = 1 .. Len(program.ops)
    BY ProgramFacts
  <2>2. IsFiniteSet(D)
    BY <2>1, UpToFinite
  <2>3. {program.ops[i].at : i \in DOMAIN program.ops} = {f[i] : i \in D}
    OBVIOUS
  <2> HIDE DEF f, D
  <2> QED
    BY <2>2, <2>3, ImageFinite
<1>4. IsFiniteSet(Slots)
  BY <1>2, <1>3, FS_Union DEF Slots
<1>5. IsFiniteSet(Forms) /\ IsFiniteSet(BOOLEAN)
  <2>1. Forms = {"value"} \cup {"pointer"} \cup {"bytes"} /\ BOOLEAN = {TRUE} \cup {FALSE}
    BY DEF Forms
  <2>2. IsFiniteSet({"value"} \cup {"pointer"} \cup {"bytes"}) /\ IsFiniteSet({TRUE} \cup {FALSE})
    BY FS_Singleton, FS_Union
  <2> QED
    BY <2>1, <2>2
<1> QED
  BY <1>2, <1>4, <1>5, ProductOfFour DEF Keyed

LEMMA PositionsFinite ==
  ASSUME program \in Programs, Limits
  PROVE  IsFiniteSet(Positions)
<1>1. IsFiniteSet(Keyed)
  BY KeyedFinite
<1>2. IsFiniteSet(0 .. functionDepth)
  BY FS_Interval DEF Limits
<1> QED
  BY <1>1, <1>2, ValuesFinite, PositionsAre, ProductOfThree

LEMMA InFour ==
  ASSUME NEW A, NEW B, NEW C, NEW D, NEW a \in A, NEW b \in B, NEW c \in C, NEW d \in D
  PROVE  <<a, b, c, d>> \in A \X B \X C \X D /\ <<a, b, c, d>>[1] = a /\ <<a, b, c, d>>[4] = d
OBVIOUS

LEMMA StartedIn ==
  ASSUME program \in Programs, Limits
  PROVE  Started \subseteq Positions
<1> SUFFICES ASSUME NEW s \in program.seeds
             PROVE  <<s[1], Key(s[2]), 0>> \in Positions
  BY DEF Started
<1>1. s[1] \in Values /\ s[2] \in Tag
  BY ProgramFacts DEF Seeds
<1> DEFINE t == s[2]
<1>2. t.source \in Nat /\ t.form \in Forms /\ t.storage \in BOOLEAN /\ t.at \in SUBSET Int
  BY <1>1, TagFields
<1>3. Key(t) \in Seeded
  BY DEF Seeded
<1>4. Key(t)[1] = t.source /\ Key(t)[4] = t.at
  BY <1>2, InFour DEF Key
<1>5. t.source \in {k[1] : k \in Seeded} /\ t.at \in Slots
  BY <1>3, <1>4 DEF Slots
<1>6. Key(t) \in Keyed
  BY <1>2, <1>5, InFour DEF Key, Keyed
<1>7. 0 \in 0 .. functionDepth
  BY DEF Limits
<1> HIDE DEF t
<1>8. <<s[1], Key(t), 0>> \in Values \X Keyed \X (0 .. functionDepth)
  BY <1>1, <1>6, <1>7
<1> QED
  BY <1>8, PositionsAre DEF t

LEMMA MoveTyped ==
  ASSUME program \in Programs, Limits, NEW x \in Positions, NEW y \in Moves(x),
         y[3] <= functionDepth
  PROVE  y \in Positions
<1>1. x[1] \in Values /\ x[2] \in Keyed /\ x[3] \in 0 .. functionDepth
  BY PositionsAre
<1>2. ASSUME NEW pairs, \A q \in DOMAIN pairs : pairs[q] \in Values \X Values,
             NEW n \in {0, 1}, ByPair(pairs, x, y, n)
      PROVE  y \in Values \X Keyed \X (0 .. functionDepth)
  <2>1. PICK q \in DOMAIN pairs : y = <<pairs[q][2], x[2], x[3] + n>>
    BY <1>2 DEF ByPair
  <2>2. pairs[q][2] \in Values
    BY <1>2
  <2>3. y[3] = x[3] + n
    BY <2>1
  <2>4. x[3] + n \in 0 .. functionDepth
    BY <1>1, <2>3 DEF Limits
  <2> QED
    BY <1>1, <2>1, <2>2, <2>4
<1>3. ASSUME NEW i \in DOMAIN program.ops, ByOutput(program.ops[i], x, y)
      PROVE  y \in Values \X Keyed \X (0 .. functionDepth)
  <2> DEFINE op == program.ops[i]
  <2>1. Sensible(op)
    BY ProgramFacts
  <2>2. op.at \in Slots
    BY DEF Slots
  <2> HIDE DEF op
  <2>3. ByOutput(op, x, y)
    BY <1>3 DEF op
  <2>4. PICK n \in DOMAIN op.ins : \E j \in Through(op, n, x[2]) : \E o \in DOMAIN op.outs :
           y = <<op.outs[o], j, x[3] + 0>>
    BY <2>3 DEF ByOutput
  <2>5. PICK j \in Through(op, n, x[2]), o \in DOMAIN op.outs : y = <<op.outs[o], j, x[3] + 0>>
    BY <2>4
  <2>6. j \in Keyed
    BY <1>1, <2>2, ThroughKeys DEF Keyed
  <2>7. op.outs[o] \in Values
    BY <2>1, OutsAreValues
  <2>8. x[3] + 0 \in 0 .. functionDepth
    BY <1>1
  <2> QED
    BY <2>5, <2>6, <2>7, <2>8
<1>4. /\ \A i \in DOMAIN program.ops : Sensible(program.ops[i])
      /\ \A q \in DOMAIN program.blocks : program.blocks[q] \in Values \X Values
  <2>1. program.blocks \in Seq(Values \X Values)
    BY ProgramFacts
  <2> QED
    BY <2>1, ProgramFacts
<1>5. \/ \E i \in DOMAIN program.ops : ByOperation(program.ops[i], x, y)
      \/ ByPair(program.blocks, x, y, 0)
  BY MovesAre
<1>6. ASSUME NEW i \in DOMAIN program.ops, ByOperation(program.ops[i], x, y)
      PROVE  y \in Values \X Keyed \X (0 .. functionDepth)
  <2>1. /\ \A q \in DOMAIN program.ops[i].args : program.ops[i].args[q] \in Values \X Values
        /\ \A q \in DOMAIN program.ops[i].returns : program.ops[i].returns[q] \in Values \X Values
    BY <1>4, OutsAreValues
  <2>2. 1 \in {0, 1}
    OBVIOUS
  <2> QED
    BY <1>2, <1>3, <1>6, <2>1, <2>2 DEF ByOperation
<1>7. 0 \in {0, 1}
  OBVIOUS
<1> QED
  BY <1>2, <1>4, <1>5, <1>6, <1>7, PositionsAre

LEMMA WithinPositions ==
  ASSUME program \in Programs, Limits
  PROVE  \A n \in Nat : Within[n] \subseteq Positions /\ Started \subseteq Within[n]
<1> DEFINE Q == {n \in Nat : Within[n] \subseteq Positions /\ Started \subseteq Within[n]}
<1>1. 0 \in Q
  BY WithinSteps, StartedIn
<1>2. ASSUME NEW n \in Nat, n \in Q
      PROVE  n + 1 \in Q
  <2>1. Within[n + 1] = Onward(Within[n])
    BY WithinSteps
  <2>2. Within[n] \subseteq Positions /\ Started \subseteq Within[n]
    BY <1>2
  <2>3. Onward(Within[n]) \subseteq Positions
    <3>1. \A x \in Within[n] : \A y \in Moves(x) : y[3] <= functionDepth => y \in Positions
      BY <2>2, MoveTyped
    <3> QED
      BY <2>2, <3>1 DEF Onward
  <2>4. Within[n] \subseteq Onward(Within[n])
    BY DEF Onward
  <2>5. n + 1 \in Nat
    OBVIOUS
  <2> QED
    BY <2>1, <2>2, <2>3, <2>4, <2>5
<1> HIDE DEF Q
<1>3. Nat \subseteq Q
  BY <1>1, <1>2, NaturalsOf
<1> QED
  BY <1>3 DEF Q

\* The moves come to an end: there are only so many positions.
LEMMA ReachableClosed ==
  ASSUME program \in Programs, Limits
  PROVE  /\ \E n \in Nat : Reachable = Within[n]
         /\ Onward(Reachable) = Reachable
<1> DEFINE size == Cardinality(Positions)
           ended == {n \in 0 .. size : Onward(Within[n]) = Within[n]}
<1>1. IsFiniteSet(Positions) /\ size \in Nat
  BY PositionsFinite, FS_CardinalityType
<1>2. \A n \in Nat : IsFiniteSet(Within[n]) /\ Cardinality(Within[n]) \in Nat
                     /\ Cardinality(Within[n]) <= size
  <2>1. \A n \in Nat : Within[n] \in SUBSET Positions
    BY WithinPositions
  <2>2. \A n \in Nat : IsFiniteSet(Within[n]) /\ Cardinality(Within[n]) <= size
    BY <1>1, <2>1, FS_Subset
  <2> QED
    BY <2>2, FS_CardinalityType
<1>3. ended # {}
  <2> SUFFICES ASSUME \A n \in 0 .. size : Onward(Within[n]) # Within[n]
               PROVE  FALSE
    OBVIOUS
  <2> DEFINE Q == {n \in Nat : n <= size + 1 => n <= Cardinality(Within[n])}
  <2> HIDE DEF size, ended
  <2>1. 0 \in Q
    BY <1>2
  <2>2. ASSUME NEW n \in Nat, n \in Q
        PROVE  n + 1 \in Q
    <3> SUFFICES ASSUME n + 1 <= size + 1
                 PROVE  n + 1 <= Cardinality(Within[n + 1])
      OBVIOUS
    <3>1. n \in 0 .. size /\ n <= size + 1 /\ n + 1 \in Nat
      BY <1>1
    <3>2. Within[n + 1] = Onward(Within[n]) /\ Within[n + 1] # Within[n]
      BY <3>1, WithinSteps
    <3>3. Within[n] \in SUBSET Within[n + 1]
      BY <3>2 DEF Onward
    <3>4. Cardinality(Within[n]) <= Cardinality(Within[n + 1])
          /\ Cardinality(Within[n]) # Cardinality(Within[n + 1])
      <4>1. IsFiniteSet(Within[n + 1])
        BY <1>2, <3>1
      <4> QED
        BY <3>2, <3>3, <4>1, FS_Subset
    <3>5. n <= Cardinality(Within[n])
      BY <2>2, <3>1
    <3>6. Cardinality(Within[n]) \in Nat /\ Cardinality(Within[n + 1]) \in Nat
      BY <1>2, <3>1
    <3> QED
      BY <3>4, <3>5, <3>6
  <2> HIDE DEF Q
  <2>3. Nat \subseteq Q
    BY <2>1, <2>2, NaturalsOf
  <2>4. size + 1 \in Nat
    BY <1>1
  <2>5. size + 1 <= Cardinality(Within[size + 1])
    BY <2>3, <2>4 DEF Q
  <2> QED
    BY <1>1, <1>2, <2>4, <2>5
<1> DEFINE n == CHOOSE n \in 0 .. size : Onward(Within[n]) = Within[n]
<1>4. n \in 0 .. size /\ Onward(Within[n]) = Within[n]
  BY <1>3
<1>5. Reachable = Within[n]
  BY DEF Reachable
<1> HIDE DEF n, size
<1>6. n \in Nat
  BY <1>1, <1>4
<1> QED
  BY <1>4, <1>5, <1>6

LEMMA ReachableMoves ==
  ASSUME program \in Programs, Limits, NEW v, NEW k, NEW d, <<v, k, d>> \in Reachable
  PROVE  /\ d \in 0 .. functionDepth
         /\ \A y \in Moves(<<v, k, d>>) : y[3] <= functionDepth => y \in Reachable
<1>1. Reachable \subseteq Positions
  BY ReachableClosed, WithinPositions
<1>2. <<v, k, d>> \in Values \X Keyed \X (0 .. functionDepth)
  BY <1>1, PositionsAre
<1>3. Onward(Reachable) = Reachable
  BY ReachableClosed
<1>4. \A y \in Moves(<<v, k, d>>) : y[3] <= functionDepth => y \in Onward(Reachable)
  BY DEF Onward
<1> QED
  BY <1>2, <1>3, <1>4

\* Reachable has the seeds and is closed under the operations.
LEMMA ReachableContains ==
  ASSUME program \in Programs, Limits
  PROVE  KeepsAll(Reachable)
<1> DEFINE R == Reachable
<1> HIDE DEF R
<1>1. \A v, k, d : <<v, k, d>> \in R =>
        /\ d \in 0 .. functionDepth
        /\ \A y \in Moves(<<v, k, d>>) : y[3] <= functionDepth => y \in R
  BY ReachableMoves DEF R
<1>2. \A s \in program.seeds : <<s[1], Key(s[2]), 0>> \in R
  <2>1. Started \subseteq R
    BY ReachableClosed, WithinPositions DEF R
  <2> QED
    BY <2>1 DEF Started
<1>3. ASSUME NEW i \in DOMAIN program.ops, program.ops[i].kind = "call",
             NEW pairs, pairs = program.ops[i].args \/ pairs = program.ops[i].returns
      PROVE  CrossesIn(R, pairs)
  <2> SUFFICES ASSUME NEW q \in DOMAIN pairs, NEW key, NEW d \in Nat,
                      <<pairs[q][1], key, d>> \in R, d < functionDepth
               PROVE  <<pairs[q][2], key, d + 1>> \in R
    BY DEF CrossesIn
  <2> DEFINE x == <<pairs[q][1], key, d>>
             y == <<pairs[q][2], key, d + 1>>
  <2>1. x[1] = pairs[q][1] /\ x[2] = key /\ x[3] = d /\ y[3] = d + 1
    OBVIOUS
  <2>2. y = <<pairs[q][2], x[2], x[3] + 1>>
    BY <2>1
  <2>3. d + 1 <= functionDepth
    BY DEF Limits
  <2>4. x \in R
    OBVIOUS
  <2>5. \A z \in Moves(x) : z[3] <= functionDepth => z \in R
    BY <1>1
  <2> HIDE DEF x, y
  <2>6. ByPair(pairs, x, y, 1)
    BY <2>1, <2>2 DEF ByPair
  <2>7. ByOperation(program.ops[i], x, y)
    BY <1>3, <2>6 DEF ByOperation
  <2>8. y \in Moves(x)
    BY <2>7, MovesAre
  <2>9. y \in R
    BY <2>1, <2>3, <2>5, <2>8
  <2> QED
    BY <2>9 DEF y
<1>4. ASSUME NEW i \in DOMAIN program.ops, Summarised(program.ops[i]),
             NEW n \in DOMAIN program.ops[i].ins, NEW key, NEW d \in 0 .. functionDepth,
             <<program.ops[i].ins[n], key, d>> \in R, NEW j \in Through(program.ops[i], n, key),
             NEW k \in DOMAIN program.ops[i].outs
      PROVE  <<program.ops[i].outs[k], j, d>> \in R
  <2> DEFINE op == program.ops[i]
             x == <<op.ins[n], key, d>>
             y == <<op.outs[k], j, d>>
  <2>1. x[1] = op.ins[n] /\ x[2] = key /\ x[3] = d /\ y[3] = d
    OBVIOUS
  <2>2. y = <<op.outs[k], j, x[3] + 0>>
    BY <2>1
  <2>3. d <= functionDepth
    BY DEF Limits
  <2>4. \A z \in Moves(x) : z[3] <= functionDepth => z \in R
    BY <1>1, <1>4
  <2>5. n \in DOMAIN op.ins /\ j \in Through(op, n, key) /\ k \in DOMAIN op.outs
    OBVIOUS
  <2> HIDE DEF x, y
  <2>6. ByOutput(op, x, y)
    <3>1. j \in Through(op, n, x[2])
      BY <2>1, <2>5
    <3> HIDE DEF op
    <3> QED
      BY <2>1, <2>2, <2>5, <3>1 DEF ByOutput
  <2>7. ByOperation(op, x, y)
    BY <1>4, <2>6 DEF ByOperation
  <2>8. y \in Moves(x)
    BY <2>7, MovesAre
  <2>9. y \in R
    BY <2>1, <2>3, <2>4, <2>8
  <2> QED
    BY <2>9 DEF y
<1>5. ASSUME NEW q \in DOMAIN program.blocks, NEW key, NEW d \in 0 .. functionDepth,
             <<program.blocks[q][1], key, d>> \in R
      PROVE  <<program.blocks[q][2], key, d>> \in R
  <2> DEFINE x == <<program.blocks[q][1], key, d>>
             y == <<program.blocks[q][2], key, d>>
  <2>1. x[1] = program.blocks[q][1] /\ x[2] = key /\ x[3] = d /\ y[3] = d
    OBVIOUS
  <2>2. y = <<program.blocks[q][2], x[2], x[3] + 0>>
    BY <2>1
  <2>3. d <= functionDepth
    BY DEF Limits
  <2>4. \A z \in Moves(x) : z[3] <= functionDepth => z \in R
    BY <1>1, <1>5
  <2> HIDE DEF x, y
  <2>5. ByPair(program.blocks, x, y, 0)
    BY <2>1, <2>2 DEF ByPair
  <2>6. y \in Moves(x)
    BY <2>5, MovesAre
  <2>7. y \in R
    BY <2>1, <2>3, <2>4, <2>6
  <2> QED
    BY <2>7 DEF y
<1>6. \A i \in DOMAIN program.ops : OpKeeps(R, program.ops[i])
  BY <1>3, <1>4 DEF OpKeeps
<1>7. BlocksKeep(R, program.blocks)
  BY <1>5 DEF BlocksKeep
<1> QED
  BY <1>2, <1>6, <1>7 DEF KeepsAll, R

\* And nothing else: it is within every other such set.
LEMMA ReachableLeast ==
  ASSUME program \in Programs, Limits, NEW R, KeepsAll(R)
  PROVE  Reachable \subseteq R
<1> DEFINE Q == {n \in Nat : Within[n] \subseteq R}
<1>1. 0 \in Q
  BY WithinSteps DEF KeepsAll, Started
<1>2. ASSUME NEW x \in Positions, x \in R, NEW y \in Moves(x), y[3] <= functionDepth
      PROVE  y \in R
  <2>1. x = <<x[1], x[2], x[3]>> /\ x[3] \in 0 .. functionDepth /\ x[3] \in Nat
    BY PositionsAre DEF Limits
  <2>2. \/ \E i \in DOMAIN program.ops : ByOperation(program.ops[i], x, y)
        \/ ByPair(program.blocks, x, y, 0)
    BY MovesAre
  <2>3. ASSUME NEW pairs, CrossesIn(R, pairs), ByPair(pairs, x, y, 1)
        PROVE  y \in R
    <3>1. PICK q \in DOMAIN pairs : pairs[q][1] = x[1] /\ y = <<pairs[q][2], x[2], x[3] + 1>>
      BY <2>3 DEF ByPair
    <3>2. y[3] = x[3] + 1
      BY <3>1
    <3>3. x[3] < functionDepth
      BY <1>2, <2>1, <3>2 DEF Limits
    <3>4. <<pairs[q][1], x[2], x[3]>> \in R
      BY <1>2, <2>1, <3>1
    <3> QED
      BY <2>1, <2>3, <3>1, <3>3, <3>4 DEF CrossesIn
  <2>4. ASSUME ByPair(program.blocks, x, y, 0)
        PROVE  y \in R
    <3>1. PICK q \in DOMAIN program.blocks :
            program.blocks[q][1] = x[1] /\ y = <<program.blocks[q][2], x[2], x[3] + 0>>
      BY <2>4 DEF ByPair
    <3>2. x[3] + 0 = x[3]
      BY <2>1
    <3>3. <<program.blocks[q][1], x[2], x[3]>> \in R
      BY <1>2, <2>1, <3>1
    <3> QED
      BY <2>1, <3>1, <3>2, <3>3 DEF KeepsAll, BlocksKeep
  <2>5. ASSUME NEW i \in DOMAIN program.ops, ByOperation(program.ops[i], x, y)
        PROVE  y \in R
    <3> DEFINE op == program.ops[i]
    <3>1. OpKeeps(R, op) /\ ByOperation(op, x, y)
      BY <2>5 DEF KeepsAll
    <3> HIDE DEF op
    <3>2. CASE op.kind = "call" /\ (ByPair(op.args, x, y, 1) \/ ByPair(op.returns, x, y, 1))
      BY <2>3, <3>1, <3>2 DEF OpKeeps
    <3>3. CASE Summarised(op) /\ ByOutput(op, x, y)
      <4>1. PICK n \in DOMAIN op.ins : op.ins[n] = x[1]
               /\ \E j \in Through(op, n, x[2]) : \E o \in DOMAIN op.outs :
                    y = <<op.outs[o], j, x[3] + 0>>
        BY <3>3 DEF ByOutput
      <4>2. PICK j \in Through(op, n, x[2]), o \in DOMAIN op.outs :
              y = <<op.outs[o], j, x[3] + 0>>
        BY <4>1
      <4>3. x[3] + 0 = x[3]
        BY <2>1
      <4>4. <<op.ins[n], x[2], x[3]>> \in R
        BY <1>2, <2>1, <4>1
      <4>5. <<op.outs[o], j, x[3]>> \in R
        BY <2>1, <3>1, <3>3, <4>2, <4>4 DEF OpKeeps
      <4> QED
        BY <4>2, <4>3, <4>5
    <3> QED
      BY <3>1, <3>2, <3>3 DEF ByOperation
  <2> QED
    BY <2>2, <2>4, <2>5
<1>3. ASSUME NEW n \in Nat, n \in Q
      PROVE  n + 1 \in Q
  <2>1. Within[n + 1] = Onward(Within[n]) /\ n + 1 \in Nat
    BY WithinSteps
  <2>2. Within[n] \subseteq Positions /\ Within[n] \subseteq R
    BY <1>3, WithinPositions
  <2>3. Onward(Within[n]) \subseteq R
    BY <1>2, <2>2 DEF Onward
  <2> QED
    BY <2>1, <2>3
<1> HIDE DEF Q
<1>4. Nat \subseteq Q
  BY <1>1, <1>3, NaturalsOf
<1> QED
  BY <1>4, ReachableClosed DEF Q

-----------------------------------------------------------------------------
(* The fixpoint.                                                           *)

\* The positions that have a tag as shallow.
Held(T) ==
  {x \in {<<v, Key(t), d>> : v \in Values, t \in Tag, d \in Nat} :
     \E u \in T[x[1]] : Key(u) = x[2] /\ u.depth <= x[3]}

LEMMA HeldIs ==
  ASSUME NEW T \in [Values -> SUBSET Tag], NEW v \in Values, NEW k, NEW d \in Nat
  PROVE  <<v, k, d>> \in Held(T) <=> \E u \in T[v] : Key(u) = k /\ u.depth <= d
<1> DEFINE x == <<v, k, d>>
<1>1. x[1] = v /\ x[2] = k /\ x[3] = d
  OBVIOUS
<1>2. ASSUME NEW u \in T[v], Key(u) = k
      PROVE  x \in {<<w, Key(t), e>> : w \in Values, t \in Tag, e \in Nat}
  <2>1. u \in Tag
    OBVIOUS
  <2> QED
    BY <1>2, <2>1
<1>3. x \in Held(T) <=> x \in {<<w, Key(t), e>> : w \in Values, t \in Tag, e \in Nat}
                        /\ \E u \in T[x[1]] : Key(u) = x[2] /\ u.depth <= x[3]
  BY DEF Held
<1> HIDE DEF x
<1>4. x \in Held(T) <=> \E u \in T[v] : Key(u) = k /\ u.depth <= d
  BY <1>1, <1>2, <1>3
<1> QED
  BY <1>4 DEF x

\* All that the loop has to do is done.
Fixed(T) ==
  /\ \A s \in program.seeds : Covered(T, s[1], s[2])
  /\ \A i \in DOMAIN program.ops : OpClosed(T, program.ops[i])
  /\ BlocksClosed(T, program.blocks)

LEMMA HeldContains ==
  ASSUME program \in Programs, Limits, NEW T \in [Values -> SUBSET Tag], Fixed(T)
  PROVE  KeepsAll(Held(T))
<1> DEFINE R == Held(T)
<1>1. \A v \in Values : \A k : \A d \in Nat :
        <<v, k, d>> \in R <=> \E u \in T[v] : Key(u) = k /\ u.depth <= d
  BY HeldIs
<1> HIDE DEF R
<1>2. \A v \in Values : \A u \in T[v] : u \in Tag /\ u.depth \in Nat
  BY TagFields
<1>3. \A d \in 0 .. functionDepth : d \in Nat
  BY DEF Limits
<1>4. ASSUME NEW s \in program.seeds
      PROVE  <<s[1], Key(s[2]), 0>> \in R
  <2>1. s[1] \in Values /\ s[2] \in Tag /\ s[2].depth = 0
    BY ProgramFacts DEF Seeds
  <2>2. PICK u \in T[s[1]] : Key(s[2]) = Key(u) /\ u.depth <= s[2].depth
    BY DEF Fixed, Covered, Covers
  <2> QED
    BY <1>1, <2>1, <2>2
<1>5. ASSUME NEW pairs, \A q \in DOMAIN pairs : pairs[q] \in Values \X Values, Crosses(T, pairs)
      PROVE  CrossesIn(R, pairs)
  <2> SUFFICES ASSUME NEW q \in DOMAIN pairs, NEW key, NEW d \in Nat,
                      <<pairs[q][1], key, d>> \in R, d < functionDepth
               PROVE  <<pairs[q][2], key, d + 1>> \in R
    BY DEF CrossesIn
  <2>1. pairs[q][1] \in Values /\ pairs[q][2] \in Values
    BY <1>5
  <2>2. PICK t \in T[pairs[q][1]] : Key(t) = key /\ t.depth <= d
    BY <1>1, <2>1
  <2>3. t.depth \in Nat /\ t.depth < functionDepth
    BY <1>2, <2>1, <2>2 DEF Limits
  <2>4. PICK u \in T[pairs[q][2]] : Key(u) = Key(t) /\ u.depth <= t.depth + 1
    BY <1>5, <2>3 DEF Crosses
  <2>5. u.depth <= d + 1 /\ d + 1 \in Nat
    BY <1>2, <2>1, <2>2, <2>3, <2>4
  <2> QED
    BY <1>1, <2>1, <2>2, <2>4, <2>5
<1>6. ASSUME NEW op, Sensible(op), HandsOn(T, op),
             NEW i \in DOMAIN op.ins, NEW key, NEW d \in 0 .. functionDepth,
             <<op.ins[i], key, d>> \in R, NEW j \in Through(op, i, key),
             NEW k \in DOMAIN op.outs
      PROVE  <<op.outs[k], j, d>> \in R
  <2>1. op.ins[i] \in Values /\ op.outs[k] \in Values /\ d \in Nat
    BY <1>3, <1>6, InsAreValues, OutsAreValues
  <2>2. PICK t \in T[op.ins[i]] : Key(t) = key /\ t.depth <= d
    BY <1>1, <1>6, <2>1
  <2>3. t \in Tag /\ t.depth \in Nat
    BY <1>2, <2>1
  <2>4. \A n \in Through(op, i, Key(t)) : \E x \in Carried(op, i, t) : Key(x) = n
    BY <1>6, <2>3, CarriedFacts
  <2>5. PICK x \in Carried(op, i, t) : Key(x) = j
    BY <2>2, <2>4
  <2>6. x.depth = t.depth
    BY <1>6, <2>3, CarriedFacts
  <2>7. x \in Transfer(op, T)
    BY <1>6, <2>5, TransferIs
  <2>8. PICK u \in T[op.outs[k]] : Key(u) = Key(x) /\ u.depth <= x.depth
    BY <1>6, <2>7 DEF HandsOn
  <2>9. u.depth <= d
    BY <1>2, <2>1, <2>2, <2>3, <2>6, <2>8
  <2> QED
    BY <1>1, <2>1, <2>5, <2>8, <2>9
<1>7. ASSUME NEW i \in DOMAIN program.ops
      PROVE  OpKeeps(R, program.ops[i])
  <2> DEFINE op == program.ops[i]
  <2>1. Sensible(op) /\ OpClosed(T, op)
    BY ProgramFacts DEF Fixed
  <2> HIDE DEF op
  <2>2. op.kind = "call" => CrossesIn(R, op.args) /\ CrossesIn(R, op.returns)
    BY <1>5, <2>1, OutsAreValues DEF OpClosed
  <2>3. Summarised(op) =>
          \A n \in DOMAIN op.ins : \A key : \A d \in 0 .. functionDepth :
            <<op.ins[n], key, d>> \in R =>
              \A j \in Through(op, n, key) : \A k \in DOMAIN op.outs : <<op.outs[k], j, d>> \in R
    BY <1>6, <2>1 DEF OpClosed
  <2>4. OpKeeps(R, op)
    BY <2>2, <2>3 DEF OpKeeps
  <2> QED
    BY <2>4 DEF op
<1>8. ASSUME NEW q \in DOMAIN program.blocks, NEW key, NEW d \in 0 .. functionDepth,
             <<program.blocks[q][1], key, d>> \in R
      PROVE  <<program.blocks[q][2], key, d>> \in R
  <2>1. program.blocks \in Seq(Values \X Values)
    BY ProgramFacts
  <2>2. program.blocks[q][1] \in Values /\ program.blocks[q][2] \in Values /\ d \in Nat
    BY <1>3, <2>1
  <2>3. PICK t \in T[program.blocks[q][1]] : Key(t) = key /\ t.depth <= d
    BY <1>1, <1>8, <2>2
  <2>4. PICK u \in T[program.blocks[q][2]] : Key(u) = Key(t) /\ u.depth <= t.depth
    BY DEF Fixed, BlocksClosed
  <2>5. u.depth <= d
    BY <1>2, <2>2, <2>3, <2>4
  <2> QED
    BY <1>1, <2>2, <2>3, <2>4, <2>5
<1> QED
  BY <1>4, <1>7, <1>8 DEF KeepsAll, BlocksKeep, R

\* At the end of a complete propagation the tags are fixed and only what reaches.
LEMMA AtTheEnd ==
  ASSUME LoopInv, pc = "done", completion = "complete"
  PROVE  /\ program \in Programs /\ Limits
         /\ tags \in [Values -> SUBSET Tag] /\ Kept(tags)
         /\ Fixed(tags) /\ OnlyReached
<1>1. program \in Programs /\ Limits
  BY LimitsHold DEF LoopInv, Typed
<1>2. tags \in [Values -> SUBSET Tag] /\ Kept(tags)
  BY AccFields, AccIs DEF LoopInv, Typed, Proper
<1>3. Quiet
  BY DEF LoopInv, Phases, Quiet
<1>4. /\ Room(Acc)
      /\ \A i \in DOMAIN program.ops : OpClosed(tags, program.ops[i])
      /\ BlocksClosed(tags, program.blocks)
  BY <1>3 DEF LoopInv, PassSettled
<1>5. \A s \in program.seeds : Covered(tags, s[1], s[2])
  BY <1>4 DEF LoopInv, SeedsKept
<1>6. OnlyReached
  BY DEF LoopInv
<1>7. Fixed(tags)
  BY <1>4, <1>5 DEF Fixed
<1> QED
  BY <1>1, <1>2, <1>6, <1>7

LEMMA DepthsAreExact ==
  ASSUME LoopInv
  PROVE  DepthsExact
<1> DEFINE R == Reachable
           A == UNION {{<<v, Key(t), t.depth>> : t \in tags[v]} : v \in Values}
           B == {x \in R : \A y \in R : y[1] = x[1] /\ y[2] = x[2] => x[3] <= y[3]}
<1> SUFFICES ASSUME pc = "done", completion = "complete"
             PROVE  A = B
  BY DEF DepthsExact
<1>1. /\ program \in Programs /\ Limits
      /\ tags \in [Values -> SUBSET Tag] /\ Kept(tags) /\ Fixed(tags) /\ OnlyReached
  BY AtTheEnd
<1>2. R \subseteq Held(tags)
  <2>1. KeepsAll(Held(tags))
    BY <1>1, HeldContains
  <2> QED
    BY <1>1, <2>1, ReachableLeast
<1>3. R \subseteq Values \X Keyed \X (0 .. functionDepth)
  BY <1>1, ReachableClosed, WithinPositions, PositionsAre
<1>4. \A v \in Values : \A t \in tags[v] : <<v, Key(t), t.depth>> \in R
  BY <1>1, ReachableContains DEF OnlyReached, Sound
<1> HIDE DEF R
<1>5. \A v \in Values : \A t \in tags[v] : t \in Tag /\ t.depth \in Nat
  BY <1>1, TagFields
<1>6. ASSUME NEW y \in R
      PROVE  /\ y = <<y[1], y[2], y[3]>> /\ y[1] \in Values /\ y[3] \in Nat
             /\ \E u \in tags[y[1]] : Key(u) = y[2] /\ u.depth <= y[3]
  <2>1. y = <<y[1], y[2], y[3]>> /\ y[1] \in Values /\ y[3] \in Nat
    BY <1>1, <1>3 DEF Limits
  <2>2. <<y[1], y[2], y[3]>> \in Held(tags)
    BY <1>2, <2>1
  <2> QED
    BY <1>1, <2>1, <2>2, HeldIs
<1>7. ASSUME NEW v \in Values, NEW t \in tags[v]
      PROVE  <<v, Key(t), t.depth>> \in B
  <2> DEFINE x == <<v, Key(t), t.depth>>
  <2>1. x \in R /\ x[1] = v /\ x[2] = Key(t) /\ x[3] = t.depth
    BY <1>4
  <2>2. ASSUME NEW y \in R, y[1] = v, y[2] = Key(t)
        PROVE  t.depth <= y[3]
    <3>1. PICK u \in tags[v] : Key(u) = Key(t) /\ u.depth <= y[3]
      BY <1>6, <2>2
    <3>2. u = t
      BY <1>1, <3>1 DEF Kept
    <3> QED
      BY <3>1, <3>2
  <2> HIDE DEF x
  <2>3. x \in B
    BY <2>1, <2>2
  <2> QED
    BY <2>3 DEF x
<1>8. ASSUME NEW x \in B
      PROVE  \E v \in Values : \E t \in tags[v] : x = <<v, Key(t), t.depth>>
  <2>1. /\ x \in R /\ x = <<x[1], x[2], x[3]>> /\ x[1] \in Values /\ x[3] \in Nat
        /\ \E u \in tags[x[1]] : Key(u) = x[2] /\ u.depth <= x[3]
    BY <1>6
  <2>2. PICK u \in tags[x[1]] : Key(u) = x[2] /\ u.depth <= x[3]
    BY <2>1
  <2>3. <<x[1], Key(u), u.depth>> \in R
    BY <1>4, <2>1
  <2>4. x[3] <= u.depth
    <3> DEFINE y == <<x[1], Key(u), u.depth>>
    <3>1. y \in R /\ y[1] = x[1] /\ y[2] = x[2] /\ y[3] = u.depth
      BY <2>2, <2>3
    <3> HIDE DEF y
    <3>2. x[3] <= y[3]
      BY <3>1
    <3> QED
      BY <3>1, <3>2
  <2>5. x[3] = u.depth
    BY <1>5, <2>1, <2>2, <2>4
  <2> QED
    BY <2>1, <2>2, <2>5
<1>9. A \subseteq B
  BY <1>7
<1>10. B \subseteq A
  BY <1>8
<1> QED
  BY <1>9, <1>10

LEMMA RangesAreCovered ==
  ASSUME LoopInv
  PROVE  RangesCovered
<1> SUFFICES ASSUME pc = "done", completion = "complete"
             PROVE  \A i \in DOMAIN program.ops :
                      Summarised(program.ops[i]) =>
                        \A v \in ToSet(program.ops[i].outs) :
                          \A t \in Transfer(program.ops[i], Exact(tags)) :
                            \E u \in tags[v] : Key(u) = Key(t) /\ u.begin <= t.begin /\ u.end >= t.end
  BY DEF RangesCovered, Exact, Sharp
<1> SUFFICES ASSUME NEW i \in DOMAIN program.ops, Summarised(program.ops[i]),
                    NEW v \in ToSet(program.ops[i].outs),
                    NEW t \in Transfer(program.ops[i], Exact(tags))
             PROVE  \E u \in tags[v] : Key(u) = Key(t) /\ u.begin <= t.begin /\ u.end >= t.end
  OBVIOUS
<1> DEFINE op == program.ops[i]
<1>1. program \in Programs /\ tags \in [Values -> SUBSET Tag] /\ Fixed(tags)
  BY AtTheEnd
<1>2. Sensible(op) /\ HandsOn(tags, op)
  BY <1>1, ProgramFacts DEF Fixed, OpClosed
<1> HIDE DEF op
<1>3. PICK k \in DOMAIN op.outs : v = op.outs[k]
  BY DEF ToSet, op
<1>4. PICK u \in tags[op.outs[k]] : Key(u) = Key(t) /\ u.begin <= t.begin /\ t.end <= u.end
  BY <1>2 DEF HandsOn, op
<1>5. u.end >= t.end
  <2>1. Exact(tags) \in [Values -> SUBSET Tag]
    BY <1>1 DEF Exact
  <2>2. PICK n \in DOMAIN op.ins : \E s \in Exact(tags)[op.ins[n]] : t \in Carried(op, n, s)
    BY <1>2, TransferIs DEF op
  <2>3. PICK s \in Exact(tags)[op.ins[n]] : t \in Carried(op, n, s)
    BY <2>2
  <2>4. op.ins[n] \in Values
    BY <1>2, InsAreValues
  <2>5. s \in Tag
    BY <2>1, <2>4
  <2>6. t \in Tag
    BY <1>2, <2>3, <2>5, CarriedFacts
  <2>7. u \in Tag
    BY <1>1, <1>2, OutsAreValues
  <2> QED
    BY <1>4, <2>6, <2>7, TagFields
<1> QED
  BY <1>3, <1>4, <1>5

\* A complete propagation is a fixpoint and the least one: a value has exactly the
\* tags that reach it within the call depth, each at the least number of calls
\* crossed, and every output covers the range that its inputs give it, whatever
\* the order of the operations and of the merges (propagate_operation,
\* propagate_block_arguments and the loop of directed_flow).
THEOREM TagFixpointExact == Spec => []FixpointExact
<1>1. LoopInv => FixpointExact
  BY DepthsAreExact, RangesAreCovered DEF FixpointExact
<1> QED
  BY <1>1, LoopInvHolds, PTL

\* Every tag reaches its value from a seed, within the call depth, in a way that
\* crosses as many calls as the tag says.
NoneMadeUp == \A v \in Values : \A t \in tags[v] : <<v, Key(t), t.depth>> \in Reachable

\* At any time, so also when the token, the clock or max_states ends it early, the
\* propagation has made up no tag.
THEOREM TagsAllReach == Spec => []NoneMadeUp
<1>1. LoopInv => NoneMadeUp
  <2> SUFFICES ASSUME LoopInv
               PROVE  NoneMadeUp
    OBVIOUS
  <2>1. program \in Programs /\ Limits
    BY LimitsHold DEF LoopInv, Typed
  <2> QED
    BY <2>1, ReachableContains DEF LoopInv, OnlyReached, Sound, NoneMadeUp
<1> QED
  BY <1>1, LoopInvHolds, PTL
=============================================================================
