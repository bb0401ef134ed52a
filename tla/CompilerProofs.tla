---------------------------- MODULE CompilerProofs ----------------------------
(***************************************************************************)
(* Two parts of the compiler, proved for programs of any size.             *)
(*                                                                         *)
(* Storage layout.  The compiler finds every collision: a list of fields   *)
(* it accepts keeps its fields apart in storage.                           *)
(*                                                                         *)
(* The optimizer.  Handed single-assignment code the validator accepts,    *)
(* the pass manager has such code in hand after every pass, and where it   *)
(* stops no pass has more to do.  Values still come before their uses      *)
(* after every pass but fhe_fold, and after that one too in code whose     *)
(* encryptions are along paths.                                            *)
(*                                                                         *)
(* Both are about loops over data, which are functions here: what those    *)
(* compute comes first, by induction over finite sets.                     *)
(***************************************************************************)
EXTENDS StorageLayout, Optimizer, FiniteSetTheorems, WellFoundedInduction, TLAPS

-----------------------------------------------------------------------------
(***************************************************************************)
(* Finite sets and numbers.                                                *)
(***************************************************************************)

\* Induction over the subsets of a finite set, as a statement about sets.
LEMMA SubsetInduction ==
  ASSUME NEW S, IsFiniteSet(S), NEW G,
         \A T \in SUBSET S : (\A U \in SUBSET T : U # T => U \in G) => T \in G
  PROVE  \A T \in SUBSET S : T \in G
  <1> DEFINE Bad == {T \in SUBSET S : T \notin G}
  <1>1. SUFFICES ASSUME Bad # {} PROVE FALSE
    OBVIOUS
  <1>2. Bad \subseteq FiniteSubsetsOf(S)
    BY FS_FiniteSubsetsOfFinite
  <1>3. IsWellFoundedOn(StrictSubsetOrdering(S), FiniteSubsetsOf(S))
    BY FS_StrictSubsetOrderingWellFounded
  <1> HIDE DEF Bad
  <1>4. PICK T \in Bad : \A U \in Bad : ~ (<<U, T>> \in StrictSubsetOrdering(S))
    BY <1>1, <1>2, <1>3, WFMin
  <1>5. T \in SUBSET S /\ T \notin G
    BY DEF Bad
  <1>6. ASSUME NEW U \in SUBSET T, U # T PROVE U \in G
    <2>1. U \in SUBSET S /\ <<U, T>> \in StrictSubsetOrdering(S)
      BY <1>5, <1>6 DEF StrictSubsetOrdering
    <2> QED BY <1>4, <2>1 DEF Bad
  <1> QED BY <1>5, <1>6

\* Induction over the prefixes of a list.
LEMMA PrefixInduction ==
  ASSUME NEW n \in Nat, NEW G, 0 \in G, \A k \in 0 .. n - 1 : k \in G => k + 1 \in G
  PROVE  \A k \in 0 .. n : k \in G
  <1> DEFINE H == {T \in SUBSET (1 .. n) : Cardinality(T) \in G}
  <1>0. IsFiniteSet(1 .. n) /\ Cardinality(1 .. n) = n
    BY FS_Interval
  <1>1. ASSUME NEW T \in SUBSET (1 .. n), \A U \in SUBSET T : U # T => U \in H
        PROVE  T \in H
    <2>0. IsFiniteSet(T) /\ Cardinality(T) \in Nat /\ Cardinality(T) <= n
      BY <1>0, FS_Subset, FS_CardinalityType
    <2>1. CASE T = {}
      BY <2>1, FS_EmptySet
    <2>2. CASE T # {}
      <3>1. PICK x \in T : TRUE
        BY <2>2
      <3>2. Cardinality(T \ {x}) = Cardinality(T) - 1 /\ Cardinality(T \ {x}) \in Nat
        BY <2>0, FS_RemoveElement, FS_CardinalityType
      <3>3. Cardinality(T) - 1 \in G
        BY <1>1, <3>1, <3>2
      <3> QED BY <2>0, <3>2, <3>3
    <2> QED BY <2>1, <2>2
  <1> HIDE DEF H
  <1>2. \A T \in SUBSET (1 .. n) : T \in H
    BY <1>0, <1>1, SubsetInduction
  <1>3. ASSUME NEW k \in 0 .. n PROVE k \in G
    <2>1. 1 .. k \in SUBSET (1 .. n) /\ Cardinality(1 .. k) = k
      BY FS_Interval
    <2> QED BY <1>2, <2>1 DEF H
  <1> QED BY <1>3

(* The n-th of a set of numbers. *)
Rank(S, x) == Cardinality({y \in S : y <= x})

\* A member's rank is one of the ranks, and grows with the member.
LEMMA RankGrows ==
  ASSUME NEW S \in SUBSET Nat, IsFiniteSet(S), NEW x \in S, NEW y \in S
  PROVE  /\ Rank(S, x) \in 1 .. Cardinality(S) /\ Rank(S, x) \in Nat /\ Rank(S, y) \in Nat
         /\ x < y => Rank(S, x) < Rank(S, y)
         /\ Rank(S, x) = Rank(S, y) => x = y
  <1> DEFINE UpTo(z) == {k \in S : k <= z}
  <1>1. ASSUME NEW z \in S
        PROVE  IsFiniteSet(UpTo(z)) /\ Rank(S, z) = Cardinality(UpTo(z)) /\ Rank(S, z) \in Nat
               /\ Rank(S, z) <= Cardinality(S) /\ Rank(S, z) # 0 /\ Cardinality(S) \in Nat
    <2>1. UpTo(z) \subseteq S /\ z \in UpTo(z)
      OBVIOUS
    <2>2. Rank(S, z) = Cardinality(UpTo(z))
      BY DEF Rank
    <2> HIDE DEF UpTo
    <2>3. IsFiniteSet(UpTo(z)) /\ Cardinality(UpTo(z)) <= Cardinality(S)
      BY <2>1, FS_Subset
    <2>4. Cardinality(UpTo(z)) # 0 /\ Cardinality(UpTo(z)) \in Nat /\ Cardinality(S) \in Nat
      BY <2>1, <2>3, FS_EmptySet, FS_CardinalityType
    <2> QED BY <2>2, <2>3, <2>4
  <1>2. ASSUME NEW v \in S, NEW w \in S, v < w PROVE Rank(S, v) < Rank(S, w)
    <2>1. UpTo(v) \subseteq UpTo(w) /\ w \in UpTo(w) /\ w \notin UpTo(v)
      <3>1. v \in Nat /\ w \in Nat
        OBVIOUS
      <3>2. ASSUME NEW k \in S, k <= v PROVE k <= w
        <4>1. k \in Nat
          OBVIOUS
        <4> QED BY <1>2, <3>1, <3>2, <4>1
      <3>3. w <= w /\ ~ (w <= v)
        BY <1>2, <3>1
      <3> QED BY <3>2, <3>3
    <2>2. /\ IsFiniteSet(UpTo(w)) /\ Rank(S, v) = Cardinality(UpTo(v))
          /\ Rank(S, w) = Cardinality(UpTo(w)) /\ Rank(S, v) \in Nat /\ Rank(S, w) \in Nat
      BY <1>1
    <2> HIDE DEF UpTo
    <2>3. Cardinality(UpTo(v)) <= Cardinality(UpTo(w))
          /\ (Cardinality(UpTo(v)) = Cardinality(UpTo(w)) => UpTo(v) = UpTo(w))
      BY <2>1, <2>2, FS_Subset
    <2> QED BY <2>1, <2>2, <2>3
  <1> HIDE DEF UpTo
  <1>3. Rank(S, x) \in Nat /\ Rank(S, y) \in Nat /\ Rank(S, x) \in 1 .. Cardinality(S)
    BY <1>1
  <1>4. x < y => Rank(S, x) < Rank(S, y)
    BY <1>2
  <1>5. y < x => Rank(S, y) < Rank(S, x)
    BY <1>2
  <1>6. x < y \/ y < x \/ x = y
    OBVIOUS
  <1> QED BY <1>3, <1>4, <1>5, <1>6

\* Every rank is some member's: the n-th member has rank n.
LEMMA NthOf ==
  ASSUME NEW S \in SUBSET Nat, IsFiniteSet(S), NEW n \in 1 .. Cardinality(S)
  PROVE  Nth(S, n) \in S /\ Rank(S, Nth(S, n)) = n
  <1> DEFINE N == Cardinality(S)
             rank == [x \in S |-> Rank(S, x)]
  <1>0. N \in Nat
    BY FS_CardinalityType
  <1>1. rank \in Injection(S, 1 .. N)
    <2>1. \A x \in S : rank[x] \in 1 .. N
      BY RankGrows
    <2>2. \A x, y \in S : rank[x] = rank[y] => x = y
      BY RankGrows
    <2>3. rank \in [S -> 1 .. N]
      BY <2>1
    <2> HIDE DEF rank, N
    <2> QED BY <2>2, <2>3 DEF Injection, IsInjective
  <1>2. IsFiniteSet(1 .. N) /\ Cardinality(1 .. N) = N
    BY <1>0, FS_Interval
  <1>3. \A x \in S : rank[x] = Rank(S, x)
    OBVIOUS
  <1> HIDE DEF rank
  <1>4. rank \in Surjection(S, 1 .. N)
    BY <1>1, <1>2, FS_Injection
  <1>5. PICK x \in S : rank[x] = n
    BY <1>4 DEF Surjection
  <1>6. \E y \in S : Cardinality({z \in S : z <= y}) = n
    BY <1>3, <1>5 DEF Rank
  <1> QED BY <1>6, Zenon DEF Nth, Rank

\* A member is the one that has its rank.
LEMMA NthRank ==
  ASSUME NEW S \in SUBSET Nat, IsFiniteSet(S), NEW x \in S
  PROVE  Rank(S, x) \in 1 .. Cardinality(S) /\ Nth(S, Rank(S, x)) = x
  <1>1. Rank(S, x) \in 1 .. Cardinality(S)
    BY RankGrows
  <1>2. Nth(S, Rank(S, x)) \in S /\ Rank(S, Nth(S, Rank(S, x))) = Rank(S, x)
    BY <1>1, NthOf
  <1> QED BY <1>1, <1>2, RankGrows

\* The k-th of 1 .. n is k.
LEMMA NthOfPrefix ==
  ASSUME NEW n \in Nat, NEW k \in 1 .. n
  PROVE  Nth(1 .. n, k) = k
  <1>1. {y \in 1 .. n : y <= k} = 1 .. k
    OBVIOUS
  <1>2. IsFiniteSet(1 .. n) /\ Cardinality(1 .. k) = k /\ 1 .. n \in SUBSET Nat
    BY FS_Interval
  <1>3. Rank(1 .. n, k) = k
    BY <1>1, <1>2 DEF Rank
  <1> QED BY <1>2, <1>3, NthRank

\* A finite set of numbers has a greatest one.
LEMMA MaxIsGreatest ==
  ASSUME NEW S \in SUBSET Nat, IsFiniteSet(S), S # {}
  PROVE  Max(S) \in S /\ \A y \in S : y <= Max(S)
  <1>1. Cardinality(S) \in Nat /\ Cardinality(S) # 0
    BY FS_CardinalityType, FS_EmptySet
  <1>2. PICK x \in S : Rank(S, x) = Cardinality(S)
    <2>1. Cardinality(S) \in 1 .. Cardinality(S)
      BY <1>1
    <2> QED BY <2>1, NthOf
  <1>3. {y \in S : y <= x} = S
    <2> DEFINE T == {y \in S : y <= x}
    <2>1. T \subseteq S /\ Cardinality(T) = Cardinality(S)
      BY <1>2 DEF Rank
    <2> HIDE DEF T
    <2>2. T = S
      BY <2>1, FS_Subset
    <2> QED BY <2>2 DEF T
  <1>4. \E m \in S : \A y \in S : m >= y
    <2>1. \A y \in S : x >= y
      BY <1>3
    <2> QED BY <2>1
  <1>5. Max(S) \in S /\ \A y \in S : Max(S) >= y
    BY <1>4, Zenon DEF Max
  <1>6. \A y \in S : y <= Max(S)
    BY <1>5
  <1> QED BY <1>5, <1>6

\* The largest index of a prefix, and what is left without it.
LEMMA LastOfPrefix ==
  ASSUME NEW k \in Nat
  PROVE  Max(1 .. (k + 1)) = k + 1
  <1>1. /\ k + 1 \in 1 .. (k + 1) /\ \A y \in 1 .. (k + 1) : k + 1 >= y
        /\ \A x \in 1 .. (k + 1) : (\A y \in 1 .. (k + 1) : x >= y) => x = k + 1
    OBVIOUS
  <1> QED BY <1>1 DEF Max

\* A prefix without its last index is the prefix before it.
LEMMA BeforeLast ==
  ASSUME NEW k \in Nat
  PROVE  (1 .. (k + 1)) \ {k + 1} = 1 .. k
  OBVIOUS

\* It is not empty.
LEMMA PrefixNonEmpty ==
  ASSUME NEW k \in Nat
  PROVE  1 .. (k + 1) # {}
  <1>1. k + 1 \in 1 .. (k + 1)
    OBVIOUS
  <1> QED BY <1>1, Zenon

\* A set of indices has a largest one.
LEMMA MaxIsMember ==
  ASSUME NEW n \in Nat, NEW T \in SUBSET (1 .. n), T # {}
  PROVE  Max(T) \in T
  <1>1. IsFiniteSet(1 .. n) /\ T \in SUBSET Nat
    BY FS_Interval
  <1>2. IsFiniteSet(T)
    BY <1>1, FS_Subset
  <1> QED BY <1>1, <1>2, MaxIsGreatest

-----------------------------------------------------------------------------
(***************************************************************************)
(* Storage layout: slot_for_global and detect_slot_collisions are two loops*)
(* over the same list that must keep the same cursor.  Each is a fold.     *)
(***************************************************************************)

\* g is the fold of step over S.
IsFoldOf(g, S, base, step, pick) ==
  \A T \in SUBSET S :
    g[T] = IF T = {} THEN base ELSE step[<<pick[T], g[T \ {pick[T]}]>>]
\* The same on the subsets of at most n elements.
Upto(g, S, base, step, pick, n) ==
  \A T \in SUBSET S : Cardinality(T) <= n =>
    g[T] = IF T = {} THEN base ELSE step[<<pick[T], g[T \ {pick[T]}]>>]

\* A recursion that takes one element away at a time is well defined on the
\* subsets of a finite set.
LEMMA FoldExists ==
  ASSUME NEW S, IsFiniteSet(S), NEW base, NEW step,
         NEW pick, \A T \in SUBSET S : T # {} => pick[T] \in T
  PROVE  \E g : IsFoldOf(g, S, base, step, pick)
  <1> DEFINE G == {T \in SUBSET S :
                     \E g : Upto(g, S, base, step, pick, Cardinality(T))}
  <1>0. ASSUME NEW U \in SUBSET S
        PROVE  /\ IsFiniteSet(U) /\ Cardinality(U) \in Nat
               /\ U = {} <=> Cardinality(U) = 0
               /\ U # {} => /\ U \ {pick[U]} \in SUBSET S
                            /\ Cardinality(U \ {pick[U]}) = Cardinality(U) - 1
    BY FS_Subset, FS_EmptySet, FS_CardinalityType, FS_RemoveElement
  <1>1. ASSUME NEW T \in SUBSET S, \A U \in SUBSET T : U # T => U \in G
        PROVE  T \in G
    <2>1. CASE T = {}
      <3> DEFINE g == [U \in SUBSET S |-> base]
      <3>1. ASSUME NEW U \in SUBSET S, Cardinality(U) <= Cardinality(T)
            PROVE  U = {}
        <4>1. Cardinality(T) = 0 /\ Cardinality(U) \in Nat
          BY <1>0, <2>1
        <4>2. Cardinality(U) = 0
          BY <3>1, <4>1
        <4> QED BY <1>0, <4>2
      <3>2. Upto(g, S, base, step, pick, Cardinality(T))
        BY <3>1 DEF Upto
      <3> QED BY <3>2
    <2>2. CASE T # {}
      <3> DEFINE n == Cardinality(T)
      <3>1. n \in Nat /\ Cardinality(T \ {pick[T]}) = n - 1 /\ pick[T] \in T
        BY <1>0, <2>2
      <3>2. PICK g : Upto(g, S, base, step, pick, n - 1)
        BY <1>1, <3>1
      <3> DEFINE h == [U \in SUBSET S |->
                         IF Cardinality(U) <= n - 1 THEN g[U]
                         ELSE step[<<pick[U], g[U \ {pick[U]}]>>]]
      <3> HIDE DEF n
      <3>3. ASSUME NEW U \in SUBSET S, Cardinality(U) <= n
            PROVE  h[U] = IF U = {} THEN base ELSE step[<<pick[U], h[U \ {pick[U]}]>>]
        <4>1. CASE U = {}
          <5>1. Cardinality(U) <= n - 1
            <6>1. Cardinality(U) = 0 /\ n # 0
              BY <1>0, <2>2, <4>1 DEF n
            <6> QED BY <3>1, <6>1
          <5> QED BY <3>2, <4>1, <5>1 DEF Upto
        <4>2. CASE U # {}
          <5> DEFINE V == U \ {pick[U]}
          <5>1. /\ V \in SUBSET S /\ Cardinality(U) \in Nat
                /\ Cardinality(V) = Cardinality(U) - 1
            BY <1>0, <4>2
          <5>2. h[V] = g[V]
            BY <3>1, <3>3, <5>1
          <5>3. CASE Cardinality(U) <= n - 1
            <6>1. h[U] = g[U]
              BY <5>3
            <6>2. g[U] = step[<<pick[U], g[V]>>]
              BY <3>2, <4>2, <5>3 DEF Upto
            <6> QED BY <4>2, <5>2, <6>1, <6>2
          <5>4. CASE ~ (Cardinality(U) <= n - 1)
            BY <4>2, <5>2, <5>4
          <5> QED BY <5>3, <5>4
        <4> QED BY <4>1, <4>2
      <3>4. Upto(h, S, base, step, pick, n)
        BY <3>3 DEF Upto
      <3> QED BY <3>4 DEF n
    <2> QED BY <2>1, <2>2
  <1> HIDE DEF G
  <1>2. S \in G
    BY <1>1, SubsetInduction
  <1>3. PICK g : Upto(g, S, base, step, pick, Cardinality(S))
    BY <1>2 DEF G
  <1>4. ASSUME NEW T \in SUBSET S
        PROVE  g[T] = IF T = {} THEN base ELSE step[<<pick[T], g[T \ {pick[T]}]>>]
    <2>1. Cardinality(T) <= Cardinality(S)
      BY FS_Subset
    <2> QED BY <1>3, <2>1 DEF Upto
  <1> QED BY <1>4 DEF IsFoldOf

-----------------------------------------------------------------------------
\* The two loops.
AsCursors(g, fields) ==
  g = [T \in SUBSET DOMAIN fields |->
         IF T = {} THEN 0 ELSE CursorAfter(g[T \ {Max(T)}], fields[Max(T)])]
AsLayouts(g, fields) ==
  g = [T \in SUBSET DOMAIN fields |->
         IF T = {} THEN Unoccupied ELSE Occupy(g[T \ {Max(T)}], fields[Max(T)])]
Cursors(fields) == CHOOSE g : AsCursors(g, fields)
Layouts(fields) == CHOOSE g : AsLayouts(g, fields)

\* What the parser makes of the fields: each has a list of annotations, and
\* every slot it asks for is a number.
Fields(fields) ==
  /\ \E Field : fields \in Seq(Field)
  /\ \A i \in DOMAIN fields :
       /\ \E Annotation : fields[i].annotations \in Seq(Annotation)
       /\ explicit_slot(fields[i]) \subseteq Nat
Layout == [used : SUBSET Nat, next : Nat, ok : BOOLEAN]

\* slot_for_global's loop, and
LEMMA CursorIsFold ==
  ASSUME NEW fields
  PROVE  FoldLeft(CursorAfter, 0, fields) = Cursors(fields)[DOMAIN fields]
  BY Zenon DEF FoldLeft, MapThenFoldSet, Cursors, AsCursors

\* detect_slot_collisions' loop, are those functions at the set of all fields.
LEMMA LayoutIsFold ==
  ASSUME NEW fields
  PROVE  FoldLeft(Occupy, Unoccupied, fields) = Layouts(fields)[DOMAIN fields]
  BY Zenon DEF FoldLeft, MapThenFoldSet, Layouts, AsLayouts

\* The cursor stays a number, and
LEMMA CursorAfterType ==
  ASSUME NEW c \in Nat, NEW f
  PROVE  CursorAfter(c, f) \in Nat
  BY DEF CursorAfter, slot_advance

\* the layout a layout, field after field.
LEMMA OccupyType ==
  ASSUME NEW layout \in Layout, NEW f, explicit_slot(f) \subseteq Nat
  PROVE  Occupy(layout, f) \in Layout
  <1>1. CursorAfter(layout.next, f) \in Nat
    BY CursorAfterType DEF Layout
  <1> QED BY <1>1 DEF Occupy, Layout

\* Each loop has a value for every set of fields.
LEMMA CursorsDefined ==
  ASSUME NEW fields, Fields(fields)
  PROVE  AsCursors(Cursors(fields), fields)
  <1> DEFINE S == DOMAIN fields
             pick == [T \in SUBSET S |-> Max(T)]
             step == [p \in S \X Nat |-> CursorAfter(p[2], fields[p[1]])]
  <1>1. S = 1 .. Len(fields) /\ Len(fields) \in Nat
    BY DEF Fields
  <1>2. IsFiniteSet(S)
    BY <1>1, FS_Interval
  <1>c. \A T \in SUBSET S : T # {} => pick[T] \in T
    BY <1>1, MaxIsMember
  <1>3. \A T \in SUBSET S : T # {} => pick[T] \in T /\ pick[T] = Max(T)
    BY <1>c
  <1> HIDE DEF S
  <1>4. PICK g : \A T \in SUBSET S :
          g[T] = IF T = {} THEN 0 ELSE step[<<pick[T], g[T \ {pick[T]}]>>]
    <2> HIDE DEF step, pick
    <2>1. PICK g : IsFoldOf(g, S, 0, step, pick)
      BY <1>2, <1>c, FoldExists, Zenon
    <2> QED BY <2>1, Zenon DEF IsFoldOf
  <1> DEFINE G == {T \in SUBSET S : g[T] \in Nat}
  <1>5. ASSUME NEW T \in SUBSET S, \A U \in SUBSET T : U # T => U \in G
        PROVE  /\ T \in G
               /\ T # {} => g[T] = CursorAfter(g[T \ {Max(T)}], fields[Max(T)])
    <2>1. CASE T = {}
      <3>1. g[T] = 0
        BY <1>4, <2>1
      <3> QED BY <2>1, <3>1
    <2>2. CASE T # {}
      <3>1. Max(T) \in S /\ g[T \ {Max(T)}] \in Nat
        BY <1>3, <1>5, <2>2
      <3>2. g[T] = step[<<Max(T), g[T \ {Max(T)}]>>]
        BY <1>3, <1>4, <2>2
      <3>3. g[T] = CursorAfter(g[T \ {Max(T)}], fields[Max(T)])
        BY <3>1, <3>2
      <3> QED BY <3>1, <3>3, CursorAfterType
    <2> QED BY <2>1, <2>2
  <1>6. \A T \in SUBSET S : T \in G
    <2> HIDE DEF G
    <2> QED BY <1>2, <1>5, SubsetInduction
  <1> DEFINE h == [T \in SUBSET S |-> g[T]]
  <1>7. ASSUME NEW T \in SUBSET S
        PROVE  g[T] = IF T = {} THEN 0 ELSE CursorAfter(h[T \ {Max(T)}], fields[Max(T)])
    <2>1. T # {} => g[T] = CursorAfter(g[T \ {Max(T)}], fields[Max(T)])
      BY <1>5, <1>6
    <2>2. h[T \ {Max(T)}] = g[T \ {Max(T)}]
      OBVIOUS
    <2>3. T = {} => g[T] = 0
      BY <1>4
    <2> QED BY <2>1, <2>2, <2>3
  <1>8. AsCursors(h, fields)
    BY <1>7, Zenon DEF AsCursors, S
  <1> QED BY <1>8, Zenon DEF Cursors

\* The same for the layouts, whose values stay layouts.
LEMMA LayoutsDefined ==
  ASSUME NEW fields, Fields(fields)
  PROVE  /\ AsLayouts(Layouts(fields), fields)
         /\ \A T \in SUBSET DOMAIN fields : Layouts(fields)[T] \in Layout
  <1> DEFINE S == DOMAIN fields
             pick == [T \in SUBSET S |-> Max(T)]
             step == [p \in S \X Layout |-> Occupy(p[2], fields[p[1]])]
  <1>1. S = 1 .. Len(fields) /\ Len(fields) \in Nat
    BY DEF Fields
  <1>2. IsFiniteSet(S)
    BY <1>1, FS_Interval
  <1>c. \A T \in SUBSET S : T # {} => pick[T] \in T
    BY <1>1, MaxIsMember
  <1>3. \A T \in SUBSET S : T # {} => pick[T] \in T /\ pick[T] = Max(T)
    BY <1>c
  <1>a. Unoccupied \in Layout
    BY DEF Unoccupied, Layout
  <1>b. \A i \in S : explicit_slot(fields[i]) \subseteq Nat
    BY DEF Fields
  <1> HIDE DEF S
  <1>4. ASSUME NEW g,
               \A T \in SUBSET S :
                 T # {} /\ g[T \ {Max(T)}] \in Layout =>
                   g[T] = Occupy(g[T \ {Max(T)}], fields[Max(T)]),
               g[{}] = Unoccupied
        PROVE  \A T \in SUBSET S : g[T] \in Layout
    <2> DEFINE G == {T \in SUBSET S : g[T] \in Layout}
    <2>1. ASSUME NEW T \in SUBSET S, \A U \in SUBSET T : U # T => U \in G
          PROVE  T \in G
      <3>1. CASE T = {}
        BY <1>4, <1>a, <3>1
      <3>2. CASE T # {}
        <4>1. Max(T) \in S /\ g[T \ {Max(T)}] \in Layout
          BY <1>3, <2>1, <3>2
        <4>2. g[T] = Occupy(g[T \ {Max(T)}], fields[Max(T)])
          BY <1>4, <3>2, <4>1
        <4> QED BY <1>b, <4>1, <4>2, OccupyType
      <3> QED BY <3>1, <3>2
    <2>2. \A T \in SUBSET S : T \in G
      <3> HIDE DEF G
      <3> QED BY <1>2, <2>1, SubsetInduction
    <2> QED BY <2>2
  <1>5. PICK g : \A T \in SUBSET S :
          g[T] = IF T = {} THEN Unoccupied ELSE step[<<pick[T], g[T \ {pick[T]}]>>]
    <2> HIDE DEF step, pick
    <2>1. PICK g : IsFoldOf(g, S, Unoccupied, step, pick)
      BY <1>2, <1>c, FoldExists, Zenon
    <2> QED BY <2>1, Zenon DEF IsFoldOf
  <1>6. ASSUME NEW T \in SUBSET S, T # {}, g[T \ {Max(T)}] \in Layout
        PROVE  g[T] = Occupy(g[T \ {Max(T)}], fields[Max(T)])
    <2>1. g[T] = step[<<Max(T), g[T \ {Max(T)}]>>]
      BY <1>3, <1>5, <1>6
    <2>2. Max(T) \in S
      BY <1>3, <1>6
    <2> QED BY <1>6, <2>1, <2>2
  <1>7. \A T \in SUBSET S : g[T] \in Layout
    <2>1. g[{}] = Unoccupied
      BY <1>5
    <2> QED BY <1>4, <1>6, <2>1
  <1> DEFINE h == [T \in SUBSET S |-> g[T]]
  <1>8. ASSUME NEW T \in SUBSET S
        PROVE  g[T] = IF T = {} THEN Unoccupied
                      ELSE Occupy(h[T \ {Max(T)}], fields[Max(T)])
    <2>1. T # {} => g[T] = Occupy(g[T \ {Max(T)}], fields[Max(T)])
      BY <1>6, <1>7
    <2>2. h[T \ {Max(T)}] = g[T \ {Max(T)}]
      OBVIOUS
    <2>3. T = {} => g[T] = Unoccupied
      BY <1>5
    <2> QED BY <2>1, <2>2, <2>3
  <1>9. AsLayouts(h, fields)
    BY <1>8, Zenon DEF AsLayouts, S
  <1>10. AsLayouts(Layouts(fields), fields)
    BY <1>9, Zenon DEF Layouts
  <1> DEFINE L == Layouts(fields)
  <1>11. /\ L[{}] = Unoccupied
         /\ \A T \in SUBSET S : T # {} => L[T] = Occupy(L[T \ {Max(T)}], fields[Max(T)])
    <2>1. L = [T \in SUBSET S |-> IF T = {} THEN Unoccupied
                                  ELSE Occupy(L[T \ {Max(T)}], fields[Max(T)])]
      BY <1>10, Zenon DEF AsLayouts, S
    <2> HIDE DEF L
    <2> QED BY <2>1
  <1>12. \A T \in SUBSET S : L[T] \in Layout
    <2> HIDE DEF L
    <2> QED BY <1>4, <1>11
  <1> QED BY <1>10, <1>12 DEF S

\* Field by field.
LEMMA CursorSteps ==
  ASSUME NEW fields, Fields(fields)
  PROVE  /\ Cursors(fields)[1 .. 0] = 0
         /\ \A k \in 0 .. Len(fields) - 1 :
              Cursors(fields)[1 .. (k + 1)]
                = CursorAfter(Cursors(fields)[1 .. k], fields[k + 1])
  <1> DEFINE C == Cursors(fields)
  <1>1. C = [T \in SUBSET DOMAIN fields |->
               IF T = {} THEN 0 ELSE CursorAfter(C[T \ {Max(T)}], fields[Max(T)])]
    BY CursorsDefined, Zenon DEF AsCursors
  <1>2. DOMAIN fields = 1 .. Len(fields) /\ Len(fields) \in Nat
    BY DEF Fields
  <1> HIDE DEF C
  <1>3. C[1 .. 0] = 0
    <2>1. 1 .. 0 = {}
      OBVIOUS
    <2> QED BY <1>1, <2>1
  <1>4. ASSUME NEW k \in 0 .. Len(fields) - 1
        PROVE  C[1 .. (k + 1)] = CursorAfter(C[1 .. k], fields[k + 1])
    <2>1. k \in Nat /\ 1 .. (k + 1) \in SUBSET DOMAIN fields
      BY <1>2
    <2> DEFINE T == 1 .. (k + 1)
    <2>2. Max(T) = k + 1 /\ T \ {Max(T)} = 1 .. k /\ T # {}
      BY <2>1, LastOfPrefix, BeforeLast, PrefixNonEmpty, Zenon
    <2>3. T \in SUBSET DOMAIN fields
      BY <2>1
    <2> HIDE DEF T
    <2>4. C[T] = CursorAfter(C[T \ {Max(T)}], fields[Max(T)])
      BY <1>1, <2>2, <2>3
    <2>5. C[T] = CursorAfter(C[1 .. k], fields[k + 1])
      BY <2>2, <2>4, Zenon
    <2> QED BY <2>5 DEF T
  <1> QED BY <1>3, <1>4 DEF C

\* One field more for the layout is one step of detect_slot_collisions.
LEMMA LayoutSteps ==
  ASSUME NEW fields, Fields(fields)
  PROVE  /\ Layouts(fields)[1 .. 0] = Unoccupied
         /\ \A k \in 0 .. Len(fields) : Layouts(fields)[1 .. k] \in Layout
         /\ \A k \in 0 .. Len(fields) - 1 :
              Layouts(fields)[1 .. (k + 1)] = Occupy(Layouts(fields)[1 .. k], fields[k + 1])
  <1> DEFINE L == Layouts(fields)
  <1>1. L = [T \in SUBSET DOMAIN fields |->
               IF T = {} THEN Unoccupied ELSE Occupy(L[T \ {Max(T)}], fields[Max(T)])]
    BY LayoutsDefined, Zenon DEF AsLayouts
  <1>2. DOMAIN fields = 1 .. Len(fields) /\ Len(fields) \in Nat
    BY DEF Fields
  <1>3. ASSUME NEW k \in 0 .. Len(fields) PROVE L[1 .. k] \in Layout
    <2>1. 1 .. k \in SUBSET DOMAIN fields
      BY <1>2
    <2> QED BY <2>1, LayoutsDefined
  <1> HIDE DEF L
  <1>4. L[1 .. 0] = Unoccupied
    <2>1. 1 .. 0 = {}
      OBVIOUS
    <2> QED BY <1>1, <2>1
  <1>5. ASSUME NEW k \in 0 .. Len(fields) - 1
        PROVE  L[1 .. (k + 1)] = Occupy(L[1 .. k], fields[k + 1])
    <2>1. k \in Nat /\ 1 .. (k + 1) \in SUBSET DOMAIN fields
      BY <1>2
    <2> DEFINE T == 1 .. (k + 1)
    <2>2. Max(T) = k + 1 /\ T \ {Max(T)} = 1 .. k /\ T # {}
      BY <2>1, LastOfPrefix, BeforeLast, PrefixNonEmpty, Zenon
    <2>3. T \in SUBSET DOMAIN fields
      BY <2>1
    <2> HIDE DEF T
    <2>4. L[T] = Occupy(L[T \ {Max(T)}], fields[Max(T)])
      BY <1>1, <2>2, <2>3
    <2>5. L[T] = Occupy(L[1 .. k], fields[k + 1])
      BY <2>2, <2>4, Zenon
    <2> QED BY <2>5 DEF T
  <1> QED BY <1>3, <1>4, <1>5 DEF L

-----------------------------------------------------------------------------
\* The two loops keep the same cursor.
LEMMA SameCursor ==
  ASSUME NEW fields, Fields(fields), NEW k \in 0 .. Len(fields)
  PROVE  FoldLeft(CursorAfter, 0, SubSeq(fields, 1, k)) = Layouts(fields)[1 .. k].next
  <1> DEFINE fs == SubSeq(fields, 1, k)
             C == Cursors(fs)
             L == Layouts(fields)
             G == {j \in 0 .. k : C[1 .. j] = L[1 .. j].next}
  <1>0. PICK Field : fields \in Seq(Field)
    BY DEF Fields
  <1>1. /\ fs \in Seq(Field) /\ Len(fs) = k /\ DOMAIN fs = 1 .. k
        /\ \A i \in 1 .. k : fs[i] = fields[i] /\ i \in DOMAIN fields
    BY <1>0
  <1> HIDE DEF fs
  <1>2. Fields(fs)
    BY <1>1 DEF Fields
  <1>3. /\ C[1 .. 0] = 0
        /\ \A j \in 0 .. k - 1 : C[1 .. (j + 1)] = CursorAfter(C[1 .. j], fs[j + 1])
    BY <1>1, <1>2, CursorSteps
  <1>4. /\ L[1 .. 0] = Unoccupied
        /\ \A j \in 0 .. k - 1 : L[1 .. (j + 1)] = Occupy(L[1 .. j], fields[j + 1])
    <2>1. Len(fields) \in Nat
      BY <1>0
    <2> QED BY <2>1, LayoutSteps
  <1>5. FoldLeft(CursorAfter, 0, fs) = C[1 .. k]
    BY <1>1, CursorIsFold
  <1> HIDE DEF C, L
  <1>6. 0 \in G
    BY <1>3, <1>4 DEF Unoccupied
  <1>7. ASSUME NEW j \in 0 .. k - 1, j \in G PROVE j + 1 \in G
    <2>1. C[1 .. (j + 1)] = CursorAfter(L[1 .. j].next, fields[j + 1])
      BY <1>1, <1>3, <1>7
    <2>2. L[1 .. (j + 1)].next = CursorAfter(L[1 .. j].next, fields[j + 1])
      <3>1. L[1 .. (j + 1)] = Occupy(L[1 .. j], fields[j + 1])
        BY <1>4
      <3>2. Occupy(L[1 .. j], fields[j + 1]).next = CursorAfter(L[1 .. j].next, fields[j + 1])
        BY DEF Occupy
      <3> QED BY <3>1, <3>2
    <2> QED BY <2>1, <2>2
  <1>8. k \in Nat
    OBVIOUS
  <1> HIDE DEF G
  <1>9. \A j \in 0 .. k : j \in G
    BY <1>6, <1>7, <1>8, PrefixInduction
  <1>10. k \in G
    BY <1>8, <1>9
  <1> QED BY <1>5, <1>10 DEF G, L, fs

\* A field asks for one slot at most.
LEMMA OneSlot ==
  ASSUME NEW f, slots_valid(f), NEW Annotation, f.annotations \in Seq(Annotation)
  PROVE  explicit_slot(f) = {} \/ \E n : explicit_slot(f) = {n}
  <1> DEFINE ext == extract_slot_annotation(f)
  <1>1. DOMAIN f.annotations \subseteq {1} /\ DOMAIN ext = DOMAIN f.annotations
    BY DEF slots_valid, extract_slot_annotation
  <1>2. \A i \in DOMAIN ext : ext[i] = {} \/ \E n : ext[i] = {n}
    BY DEF extract_slot_annotation
  <1> HIDE DEF ext
  <1>3. explicit_slot(f) = UNION {ext[i] : i \in DOMAIN ext}
    BY DEF explicit_slot, Range, ext
  <1>4. CASE 1 \in DOMAIN ext
    <2>1. explicit_slot(f) = ext[1]
      BY <1>1, <1>3, <1>4
    <2> QED BY <1>2, <1>4, <2>1
  <1>5. CASE 1 \notin DOMAIN ext
    BY <1>1, <1>3, <1>5
  <1> QED BY <1>4, <1>5

\* The slots of the first k fields are those the second loop has seen, the
\* cursor has not passed k, and as long as no two fields met the slots are
\* all different and none is reserved.
SlotsUpTo(fields, k) == {slot_for_global(fields, i) : i \in 1 .. k}
Separate(fields, k) ==
  /\ \A i, j \in 1 .. k : slot_for_global(fields, i) = slot_for_global(fields, j) => i = j
  /\ SlotsUpTo(fields, k) \cap Reserved = {}
Seen(fields, layout, k) ==
  /\ layout.next \in 0 .. k
  /\ layout.used = SlotsUpTo(fields, k)
  /\ layout.ok => Separate(fields, k)

\* What one more field does to it.
LEMMA SeenStep ==
  ASSUME NEW fields, NEW k \in Nat, NEW layout \in Layout, Seen(fields, layout, k),
         NEW slot, slot_for_global(fields, k + 1) = slot,
         Pinned(fields[k + 1]) => explicit_slot(fields[k + 1]) = {slot},
         ~ Pinned(fields[k + 1]) => slot = layout.next,
         k < DEPLOYER_SLOT
  PROVE  Seen(fields, Occupy(layout, fields[k + 1]), k + 1)
  <1> DEFINE f == fields[k + 1]
             after == Occupy(layout, f)
  <1>1. SlotsUpTo(fields, k + 1) = SlotsUpTo(fields, k) \cup {slot}
    <2>1. 1 .. (k + 1) = (1 .. k) \cup {k + 1}
      OBVIOUS
    <2> QED BY <2>1 DEF SlotsUpTo
  <1>2. /\ after.used = layout.used \cup {slot}
        /\ after.ok => layout.ok /\ slot \notin layout.used
        /\ after.ok /\ Pinned(f) => slot \notin Reserved
        /\ after.next = CursorAfter(layout.next, f)
    <2>1. (IF Pinned(f) THEN explicit_slot(f) ELSE {layout.next}) = {slot}
      OBVIOUS
    <2>2. Pinned(f) => explicit_slot(f) = {slot}
      OBVIOUS
    <2> HIDE DEF f
    <2> QED BY <2>1, <2>2 DEF Occupy
  <1>3. after.next \in 0 .. (k + 1)
    <2>1. layout.next \in 0 .. k
      BY DEF Seen
    <2>2. CursorAfter(layout.next, f) \in {layout.next, layout.next + 1}
      BY DEF CursorAfter, slot_advance
    <2> HIDE DEF after, f
    <2> QED BY <1>2, <2>1, <2>2
  <1>4. after.used = SlotsUpTo(fields, k + 1)
    BY <1>1, <1>2 DEF Seen
  <1>5. ASSUME after.ok PROVE Separate(fields, k + 1)
    <2>1. Separate(fields, k) /\ slot \notin SlotsUpTo(fields, k)
      BY <1>2, <1>5 DEF Seen
    <2>2. slot \notin Reserved
      <3>1. CASE Pinned(f)
        BY <1>2, <1>5, <3>1
      <3>2. CASE ~ Pinned(f)
        <4>1. slot \in 0 .. k
          BY <3>2 DEF Seen
        <4> QED BY <4>1, SlotAssumption DEF Reserved, DEPLOYER_SLOT, REENTRANT_LOCK_SLOT
      <3> QED BY <3>1, <3>2
    <2>3. ASSUME NEW i \in 1 .. (k + 1), NEW j \in 1 .. (k + 1),
                 slot_for_global(fields, i) = slot_for_global(fields, j)
          PROVE  i = j
      <3>1. \A m \in 1 .. k : slot_for_global(fields, m) # slot
        BY <2>1 DEF SlotsUpTo
      <3>2. CASE i \in 1 .. k /\ j \in 1 .. k
        BY <2>1, <2>3, <3>2 DEF Separate
      <3>3. CASE i \notin 1 .. k
        <4>1. i = k + 1
          BY <3>3
        <4> QED BY <2>3, <3>1, <4>1
      <3>4. CASE j \notin 1 .. k
        <4>1. j = k + 1
          BY <3>4
        <4> QED BY <2>3, <3>1, <4>1
      <3> QED BY <3>2, <3>3, <3>4
    <2>4. SlotsUpTo(fields, k + 1) \cap Reserved = {}
      BY <1>1, <2>1, <2>2 DEF Separate
    <2> QED BY <2>3, <2>4 DEF Separate
  <1> HIDE DEF after
  <1>6. Seen(fields, after, k + 1)
    BY <1>3, <1>4, <1>5 DEF Seen
  <1> QED BY <1>6 DEF after

\* detect_slot_collisions is complete (storage.rs): whatever a contract's
\* fields are and however many, when it reports nothing no two of them share a
\* slot and none has the slot of the deployer or of the reentrancy lock.  The
\* fields must fit below those two, for the fields that are not pinned are not
\* compared with them.
THEOREM LayoutSound ==
  ASSUME NEW fields, Fields(fields),
         \A i \in DOMAIN fields : slots_valid(fields[i]),
         Len(fields) <= DEPLOYER_SLOT,
         ~ detect_slot_collisions(fields)
  PROVE  KeptApart(fields)
  <1> DEFINE n == Len(fields)
             L == Layouts(fields)
             G == {k \in 0 .. n : Seen(fields, L[1 .. k], k)}
  <1>1. n \in Nat /\ DOMAIN fields = 1 .. n
    BY DEF Fields
  <1>2. L[1 .. n].ok
    BY <1>1, LayoutIsFold DEF detect_slot_collisions
  <1>3. 0 \in G
    <2>1. Seen(fields, Unoccupied, 0)
      BY DEF Seen, Separate, SlotsUpTo, Unoccupied
    <2>2. L[1 .. 0] = Unoccupied /\ 0 \in 0 .. n
      BY <1>1, LayoutSteps
    <2> QED BY <2>1, <2>2
  <1>4. ASSUME NEW k \in 0 .. n - 1, k \in G PROVE k + 1 \in G
    <2> DEFINE f == fields[k + 1]
               slot == slot_for_global(fields, k + 1)
    <2>1. /\ k \in Nat /\ k \in 0 .. n /\ k + 1 \in 0 .. n /\ k + 1 \in DOMAIN fields
          /\ (k + 1) - 1 = k
      BY <1>1
    <2>2. /\ L[1 .. k] \in Layout
          /\ L[1 .. (k + 1)] = Occupy(L[1 .. k], f)
      BY <2>1, LayoutSteps
    <2>3. FoldLeft(CursorAfter, 0, SubSeq(fields, 1, k)) = L[1 .. k].next
      BY <2>1, SameCursor
    <2>4. ~ Pinned(f) => slot = L[1 .. k].next
      BY <2>1, <2>3, Zenon DEF slot_for_global
    <2>5. Pinned(f) => explicit_slot(f) = {slot}
      <3>1. explicit_slot(f) = {} \/ \E m : explicit_slot(f) = {m}
        BY <2>1, OneSlot DEF Fields
      <3>2. Pinned(f) => slot = CHOOSE m \in explicit_slot(f) : TRUE
        BY Zenon DEF slot_for_global
      <3> HIDE DEF f, slot
      <3> QED BY <3>1, <3>2 DEF Pinned
    <2>6. k < DEPLOYER_SLOT
      BY <1>1, SlotAssumption DEF DEPLOYER_SLOT
    <2>7. Seen(fields, L[1 .. k], k)
      BY <1>4
    <2> HIDE DEF L, slot
    <2>8. Seen(fields, Occupy(L[1 .. k], f), k + 1)
      BY <2>1, <2>2, <2>4, <2>5, <2>6, <2>7, SeenStep DEF slot
    <2> QED BY <2>1, <2>2, <2>8
  <1>5. \A k \in 0 .. n : k \in G
    <2> HIDE DEF G, n
    <2> QED BY <1>1, <1>3, <1>4, PrefixInduction
  <1>6. Separate(fields, n)
    <2>1. n \in G
      BY <1>1, <1>5
    <2>2. Seen(fields, L[1 .. n], n)
      BY <2>1
    <2> QED BY <1>2, <2>2 DEF Seen
  <1> QED BY <1>1, <1>6 DEF KeptApart, Separate, SlotsUpTo, IsInjective, Range

-----------------------------------------------------------------------------
(***************************************************************************)
(* The optimizer: what leads where.  Reached is computed in rounds; it is  *)
(* the least set closed under its edges, which is all that dominance needs.*)
(***************************************************************************)

More(next, X) == X \cup UNION {next[x] : x \in X \cap DOMAIN next}
AsRounds(g, next, start) ==
  g = [n \in 0 .. Cardinality(DOMAIN next) |->
         IF n = 0 THEN start
         ELSE g[n - 1] \cup UNION {next[x] : x \in g[n - 1] \cap DOMAIN next}]
Rounds(next, start) == CHOOSE g : AsRounds(g, next, start)
UptoRound(g, next, start, k) ==
  \A n \in 0 .. k : g[n] = IF n = 0 THEN start ELSE More(next, g[n - 1])
ClosedUnder(next, X) == \A x \in X \cap DOMAIN next : next[x] \subseteq X

\* What Reached gives is the last round.
LEMMA ReachedIsRound ==
  ASSUME NEW next, NEW start
  PROVE  Reached(next, start) = Rounds(next, start)[Cardinality(DOMAIN next)]
  BY Zenon DEF Reached, Rounds, AsRounds

\* There are as many rounds as anybody asks for.
LEMMA RoundsDefined ==
  ASSUME NEW next, IsFiniteSet(DOMAIN next), NEW start
  PROVE  UptoRound(Rounds(next, start), next, start, Cardinality(DOMAIN next))
  <1> DEFINE N == Cardinality(DOMAIN next)
             G == {k \in 0 .. N : \E g : UptoRound(g, next, start, k)}
  <1>1. N \in Nat
    BY FS_CardinalityType
  <1> HIDE DEF N
  <1>2. 0 \in G
    <2> DEFINE g == [n \in {0} |-> start]
    <2>1. UptoRound(g, next, start, 0)
      BY DEF UptoRound
    <2> HIDE DEF g
    <2> QED BY <1>1, <2>1
  <1>3. ASSUME NEW k \in 0 .. N - 1, k \in G PROVE k + 1 \in G
    <2>1. PICK g : UptoRound(g, next, start, k)
      BY <1>3
    <2> DEFINE h == [n \in 0 .. k + 1 |-> IF n <= k THEN g[n] ELSE More(next, g[k])]
    <2>2. UptoRound(h, next, start, k + 1)
      <3>1. ASSUME NEW n \in 0 .. k + 1
            PROVE  h[n] = IF n = 0 THEN start ELSE More(next, h[n - 1])
        <4>1. CASE n = 0
          <5>1. h[n] = g[0] /\ g[0] = start
            BY <1>1, <2>1, <4>1 DEF UptoRound
          <5> HIDE DEF h
          <5> QED BY <4>1, <5>1
        <4>2. CASE n # 0 /\ n <= k
          <5>1. h[n] = g[n] /\ h[n - 1] = g[n - 1] /\ n \in 0 .. k
            BY <1>1, <4>2
          <5>2. g[n] = More(next, g[n - 1])
            BY <2>1, <4>2, <5>1 DEF UptoRound
          <5> HIDE DEF h
          <5> QED BY <4>2, <5>1, <5>2
        <4>3. CASE n = k + 1
          <5>1. h[n] = More(next, g[k]) /\ h[n - 1] = g[k] /\ n # 0
            BY <1>1, <4>3
          <5> HIDE DEF h
          <5> QED BY <5>1
        <4> QED BY <1>1, <4>1, <4>2, <4>3
      <3> HIDE DEF h
      <3> QED BY <3>1 DEF UptoRound
    <2> HIDE DEF h
    <2> QED BY <1>1, <2>2
  <1> HIDE DEF G
  <1>4. N \in G
    BY <1>1, <1>2, <1>3, PrefixInduction
  <1>5. PICK g : UptoRound(g, next, start, N)
    BY <1>4 DEF G
  <1> DEFINE h == [n \in 0 .. N |-> g[n]]
  <1>6. AsRounds(h, next, start)
    <2>1. ASSUME NEW n \in 0 .. N
          PROVE  g[n] = IF n = 0 THEN start
                        ELSE h[n - 1] \cup UNION {next[x] : x \in h[n - 1] \cap DOMAIN next}
      <3>1. CASE n = 0
        BY <1>5, <3>1 DEF UptoRound
      <3>2. CASE n # 0
        <4>1. h[n - 1] = g[n - 1]
          BY <1>1, <3>2
        <4>2. g[n] = More(next, g[n - 1])
          BY <1>5, <3>2 DEF UptoRound
        <4> QED BY <3>2, <4>1, <4>2 DEF More
      <3> QED BY <3>1, <3>2
    <2> QED BY <2>1, Zenon DEF AsRounds, N
  <1>7. AsRounds(Rounds(next, start), next, start)
    BY <1>6, Zenon DEF Rounds
  <1> DEFINE R == Rounds(next, start)
  <1>8. R = [n \in 0 .. N |-> IF n = 0 THEN start
               ELSE R[n - 1] \cup UNION {next[x] : x \in R[n - 1] \cap DOMAIN next}]
    BY <1>7, Zenon DEF AsRounds, N
  <1> HIDE DEF R
  <1>9. UptoRound(R, next, start, N)
    BY <1>8 DEF UptoRound, More
  <1> QED BY <1>9 DEF R, N

\* Reached is the least set that has what it started from and what comes after.
LEMMA ReachedLeast ==
  ASSUME NEW next, IsFiniteSet(DOMAIN next), NEW start,
         NEW X, start \subseteq X, ClosedUnder(next, X)
  PROVE  Reached(next, start) \subseteq X
  <1> DEFINE N == Cardinality(DOMAIN next)
             R == Rounds(next, start)
             G == {k \in 0 .. N : R[k] \subseteq X}
  <1>1. N \in Nat /\ UptoRound(R, next, start, N) /\ Reached(next, start) = R[N]
    BY FS_CardinalityType, RoundsDefined, ReachedIsRound
  <1> HIDE DEF N, R
  <1>2. 0 \in G
    BY <1>1 DEF UptoRound
  <1>3. ASSUME NEW k \in 0 .. N - 1, k \in G PROVE k + 1 \in G
    <2>1. k + 1 \in 0 .. N /\ k + 1 # 0 /\ (k + 1) - 1 = k
      BY <1>1
    <2>2. R[k + 1] = More(next, R[k])
      BY <1>1, <2>1 DEF UptoRound
    <2>3. More(next, R[k]) \subseteq X
      BY <1>3 DEF More, ClosedUnder
    <2> QED BY <2>1, <2>2, <2>3
  <1> HIDE DEF G
  <1>4. N \in G
    BY <1>1, <1>2, <1>3, PrefixInduction
  <1> QED BY <1>1, <1>4 DEF G

\* It has both: after one round for each place to leave from nothing new is found.
LEMMA ReachedClosed ==
  ASSUME NEW next, IsFiniteSet(DOMAIN next), NEW start
  PROVE  start \subseteq Reached(next, start) /\ ClosedUnder(next, Reached(next, start))
  <1> DEFINE D == DOMAIN next
             N == Cardinality(D)
             R == Rounds(next, start)
             G == {k \in 0 .. N : /\ start \subseteq R[k]
                                  /\ ClosedUnder(next, R[k]) \/ Cardinality(R[k] \cap D) >= k + 1}
  <1>1. N \in Nat /\ UptoRound(R, next, start, N) /\ Reached(next, start) = R[N]
    BY FS_CardinalityType, RoundsDefined, ReachedIsRound
  <1>2. \A X : IsFiniteSet(X \cap D) /\ Cardinality(X \cap D) \in Nat /\ Cardinality(X \cap D) <= N
    BY FS_Subset, FS_CardinalityType
  <1>e. \A x \in D : D # {}
    OBVIOUS
  <1>c. ClosedUnder(next, {}) /\ IsFiniteSet(D)
    BY DEF ClosedUnder
  <1> HIDE DEF N, R
  <1>3. 0 \in G
    <2>1. R[0] = start
      BY <1>1 DEF UptoRound
    <2>2. CASE R[0] \cap D = {}
      <3>1. ClosedUnder(next, R[0])
        BY <2>2 DEF ClosedUnder
      <3> QED BY <1>1, <2>1, <3>1
    <2>3. CASE R[0] \cap D # {}
      <3>1. Cardinality(R[0] \cap D) # 0
        BY <1>2, <2>3, FS_EmptySet
      <3>2. Cardinality(R[0] \cap D) >= 0 + 1
        BY <1>2, <3>1
      <3> QED BY <1>1, <2>1, <3>2
    <2> QED BY <2>2, <2>3
  <1>4. ASSUME NEW k \in 0 .. N - 1, k \in G PROVE k + 1 \in G
    <2>1. k + 1 \in 0 .. N /\ k + 1 # 0 /\ (k + 1) - 1 = k /\ k \in Nat
      BY <1>1
    <2>2. R[k + 1] = More(next, R[k])
      BY <1>1, <2>1 DEF UptoRound
    <2>3. R[k] \subseteq R[k + 1] /\ start \subseteq R[k + 1]
      BY <1>4, <2>2 DEF More
    <2>4. CASE ClosedUnder(next, R[k])
      <3>1. R[k + 1] = R[k]
        BY <2>2, <2>4 DEF More, ClosedUnder
      <3> QED BY <2>1, <2>3, <2>4, <3>1
    <2>5. CASE Cardinality(R[k] \cap D) >= k + 1 /\ R[k + 1] \cap D = R[k] \cap D
      <3>1. ClosedUnder(next, R[k + 1])
        BY <2>2, <2>5 DEF More, ClosedUnder
      <3> QED BY <2>1, <2>3, <3>1
    <2>6. CASE Cardinality(R[k] \cap D) >= k + 1 /\ R[k + 1] \cap D # R[k] \cap D
      <3>1. R[k] \cap D \subseteq R[k + 1] \cap D
        BY <2>3
      <3>2. Cardinality(R[k] \cap D) < Cardinality(R[k + 1] \cap D)
        <4> DEFINE S == R[k] \cap D
                   T == R[k + 1] \cap D
        <4>1. IsFiniteSet(T) /\ S \subseteq T /\ S # T
          BY <1>2, <2>6, <3>1
        <4> HIDE DEF S, T
        <4>2. Cardinality(S) <= Cardinality(T) /\ (Cardinality(S) = Cardinality(T) => S = T)
          BY <4>1, FS_Subset
        <4>3. Cardinality(S) \in Nat /\ Cardinality(T) \in Nat
          BY <4>1, FS_Subset, FS_CardinalityType
        <4>4. Cardinality(S) < Cardinality(T)
          BY <4>1, <4>2, <4>3
        <4> QED BY <4>4 DEF S, T
      <3>3. Cardinality(R[k + 1] \cap D) >= (k + 1) + 1
        <4>1. Cardinality(R[k] \cap D) \in Nat /\ Cardinality(R[k + 1] \cap D) \in Nat
          BY <1>2
        <4> HIDE DEF D
        <4> QED BY <4>1, <2>1, <2>6, <3>2
      <3> QED BY <2>1, <2>3, <3>3
    <2> QED BY <1>4, <2>4, <2>5, <2>6
  <1> HIDE DEF G
  <1>5. N \in G
    BY <1>1, <1>3, <1>4, PrefixInduction
  <1>6. ~ (Cardinality(R[N] \cap D) >= N + 1)
    BY <1>1, <1>2
  <1> QED BY <1>1, <1>5, <1>6 DEF G

FollowedBy(f, avoid) == [b \in DOMAIN f.blocks |-> Targets(f.blocks[b].term) \ avoid]

\* The entry is reached, and so is the target of what is reached.
LEMMA ReachStep ==
  ASSUME NEW f, IsFiniteSet(DOMAIN f.blocks), NEW avoid
  PROVE  /\ Entry \in Reach(f, avoid)
         /\ \A b \in Reach(f, avoid) \cap DOMAIN f.blocks :
              \A t \in Targets(f.blocks[b].term) : t \notin avoid => t \in Reach(f, avoid)
  <1> DEFINE next == FollowedBy(f, avoid)
  <1>1. DOMAIN next = DOMAIN f.blocks
        /\ \A b \in DOMAIN f.blocks : next[b] = Targets(f.blocks[b].term) \ avoid
    BY DEF FollowedBy
  <1>2. Reach(f, avoid) = Reached(next, {Entry})
    BY DEF Reach, FollowedBy
  <1> HIDE DEF next
  <1>3. {Entry} \subseteq Reached(next, {Entry}) /\ ClosedUnder(next, Reached(next, {Entry}))
    BY <1>1, ReachedClosed
  <1> QED BY <1>1, <1>2, <1>3 DEF ClosedUnder

\* Nothing else is.
LEMMA ReachLeast ==
  ASSUME NEW f, IsFiniteSet(DOMAIN f.blocks), NEW avoid, NEW X, Entry \in X,
         \A b \in X \cap DOMAIN f.blocks :
           \A t \in Targets(f.blocks[b].term) : t \notin avoid => t \in X
  PROVE  Reach(f, avoid) \subseteq X
  <1> DEFINE next == FollowedBy(f, avoid)
  <1>1. DOMAIN next = DOMAIN f.blocks
        /\ \A b \in DOMAIN f.blocks : next[b] = Targets(f.blocks[b].term) \ avoid
    BY DEF FollowedBy
  <1>2. Reach(f, avoid) = Reached(next, {Entry})
    BY DEF Reach, FollowedBy
  <1> HIDE DEF next
  <1>3. ClosedUnder(next, X)
    BY <1>1 DEF ClosedUnder
  <1> QED BY <1>1, <1>2, <1>3, ReachedLeast

\* What avoids a block reaches no more than what does not.
LEMMA AvoidingReachesLess ==
  ASSUME NEW f, IsFiniteSet(DOMAIN f.blocks), NEW avoid
  PROVE  Reach(f, avoid) \subseteq reachable_blocks(f)
  <1> DEFINE X == reachable_blocks(f)
  <1>1. Entry \in X /\ \A b \in X \cap DOMAIN f.blocks : \A t \in Targets(f.blocks[b].term) : t \in X
    BY ReachStep DEF reachable_blocks
  <1> HIDE DEF X
  <1>2. Reach(f, avoid) \subseteq X
    BY <1>1, ReachLeast
  <1> QED BY <1>2 DEF X

\* Dominance is transitive,
LEMMA DominanceTransitive ==
  ASSUME NEW f, IsFiniteSet(DOMAIN f.blocks), NEW a, NEW d \in Dominated(f, a), NEW b \in Dominated(f, d)
  PROVE  b \in Dominated(f, a)
  <1> DEFINE A == Reach(f, {a})
             D == Reach(f, {d})
  <1>1. /\ Entry \in A /\ Entry \in D
        /\ \A x \in A \cap DOMAIN f.blocks : \A t \in Targets(f.blocks[x].term) : t # a => t \in A
        /\ \A x \in D \cap DOMAIN f.blocks : \A t \in Targets(f.blocks[x].term) : t # d => t \in D
    BY ReachStep
  <1>2. CASE a = Entry
    BY <1>2 DEF Dominated
  <1>3. CASE a # Entry
    <2>1. d \notin A
      BY <1>3 DEF Dominated
    <2>2. d # Entry
      BY <2>1, <1>1
    <2>3. b \in DOMAIN f.blocks /\ b \notin D
      BY <2>2 DEF Dominated
    <2>4. A \subseteq A \cap D
      <3> HIDE DEF D
      <3>1. \A x \in (A \cap D) \cap DOMAIN f.blocks :
              \A t \in Targets(f.blocks[x].term) : t \notin {a} => t \in A \cap D
        BY <1>1, <2>1
      <3> QED BY <1>1, <3>1, ReachLeast
    <2> QED BY <1>3, <2>3, <2>4 DEF Dominated
  <1> QED BY <1>2, <1>3

\* no two reachable blocks dominate each other,
LEMMA DominanceAntisymmetric ==
  ASSUME NEW f, IsFiniteSet(DOMAIN f.blocks), NEW a \in reachable_blocks(f), NEW d,
         d \in Dominated(f, a), a \in Dominated(f, d)
  PROVE  a = d
  <1> SUFFICES ASSUME a # d PROVE FALSE
    OBVIOUS
  <1> DEFINE A == Reach(f, {a})
             D == Reach(f, {d})
  <1>1. /\ Entry \in A /\ Entry \in D
        /\ \A x \in A \cap DOMAIN f.blocks : \A t \in Targets(f.blocks[x].term) : t # a => t \in A
        /\ \A x \in D \cap DOMAIN f.blocks : \A t \in Targets(f.blocks[x].term) : t # d => t \in D
    BY ReachStep
  <1>2. a # Entry => d \notin A
    BY DEF Dominated
  <1>3. d # Entry => a \notin D
    BY DEF Dominated
  <1>4. d \notin A /\ a \notin D
    BY <1>1, <1>2, <1>3
  <1>5. Reach(f, {}) \subseteq A \cap D
    <2> HIDE DEF A, D
    <2>1. \A x \in (A \cap D) \cap DOMAIN f.blocks :
            \A t \in Targets(f.blocks[x].term) : t \notin {} => t \in A \cap D
      BY <1>1, <1>4
    <2> QED BY <1>1, <2>1, ReachLeast
  <1> QED BY <1>4, <1>5 DEF reachable_blocks

\* and what dominates a reachable block is reachable.
LEMMA DominatorReachable ==
  ASSUME NEW f, IsFiniteSet(DOMAIN f.blocks), NEW d, NEW b \in reachable_blocks(f),
         b \in Dominated(f, d)
  PROVE  d \in reachable_blocks(f)
  <1> SUFFICES ASSUME d \notin reachable_blocks(f) PROVE FALSE
    OBVIOUS
  <1> DEFINE R == Reach(f, {})
             D == Reach(f, {d})
  <1>1. /\ Entry \in R /\ Entry \in D
        /\ \A x \in R \cap DOMAIN f.blocks : \A t \in Targets(f.blocks[x].term) : t \in R
        /\ \A x \in D \cap DOMAIN f.blocks : \A t \in Targets(f.blocks[x].term) : t # d => t \in D
    BY ReachStep
  <1>2. d \notin R /\ b \in R
    BY DEF reachable_blocks
  <1>3. d # Entry
    BY <1>1, <1>2
  <1>4. R \subseteq R \cap D
    <2> HIDE DEF D
    <2>1. \A x \in (R \cap D) \cap DOMAIN f.blocks :
            \A t \in Targets(f.blocks[x].term) : t \notin {} => t \in R \cap D
      BY <1>1, <1>2
    <2> QED BY <1>1, <2>1, ReachLeast
  <1> QED BY <1>2, <1>3, <1>4 DEF Dominated

\* Where the edges are the same, so is what is reached.
LEMMA SameReach ==
  ASSUME NEW f, NEW g, DOMAIN g.blocks = DOMAIN f.blocks,
         \A b \in DOMAIN f.blocks : Targets(g.blocks[b].term) = Targets(f.blocks[b].term),
         NEW avoid
  PROVE  Reach(g, avoid) = Reach(f, avoid)
  <1>1. [b \in DOMAIN g.blocks |-> Targets(g.blocks[b].term) \ avoid]
        = [b \in DOMAIN f.blocks |-> Targets(f.blocks[b].term) \ avoid]
    OBVIOUS
  <1> QED BY <1>1, Zenon DEF Reach

\* Nothing that is reached is lost with the unreachable blocks.
LEMMA PrunedReach ==
  ASSUME NEW f, IsFiniteSet(DOMAIN f.blocks),
         NEW g, DOMAIN g.blocks = reachable_blocks(f) \cap DOMAIN f.blocks,
         \A b \in DOMAIN g.blocks : Targets(g.blocks[b].term) = Targets(f.blocks[b].term),
         NEW avoid
  PROVE  Reach(g, avoid) = Reach(f, avoid)
  <1> DEFINE F == Reach(f, avoid)
             H == Reach(g, avoid)
  <1>1. IsFiniteSet(DOMAIN g.blocks)
    BY FS_Subset
  <1>2. /\ Entry \in F
        /\ \A x \in F \cap DOMAIN f.blocks : \A t \in Targets(f.blocks[x].term) : t \notin avoid => t \in F
    BY ReachStep
  <1>3. /\ Entry \in H
        /\ \A x \in H \cap DOMAIN g.blocks : \A t \in Targets(g.blocks[x].term) : t \notin avoid => t \in H
    BY <1>1, ReachStep
  <1>4. F \subseteq reachable_blocks(f)
    BY AvoidingReachesLess
  <1>5. H \subseteq F
    <2> HIDE DEF F
    <2>1. \A x \in F \cap DOMAIN g.blocks : \A t \in Targets(g.blocks[x].term) : t \notin avoid => t \in F
      BY <1>2
    <2> QED BY <1>1, <1>2, <2>1, ReachLeast
  <1>6. F \subseteq H
    <2> HIDE DEF H
    <2>1. \A x \in (F \cap H) \cap DOMAIN f.blocks :
            \A t \in Targets(f.blocks[x].term) : t \notin avoid => t \in F \cap H
      BY <1>2, <1>3, <1>4
    <2>2. F \subseteq F \cap H
      BY <1>2, <1>3, <2>1, ReachLeast
    <2> QED BY <2>2
  <1> QED BY <1>5, <1>6

\* Dominance is the same in functions that reach the same.
LEMMA SameDominated ==
  ASSUME NEW f, NEW g, \A avoid : Reach(g, avoid) = Reach(f, avoid), NEW d, NEW b,
         b \in DOMAIN f.blocks, b \in DOMAIN g.blocks
  PROVE  b \in Dominated(g, d) <=> b \in Dominated(f, d)
  BY DEF Dominated

-----------------------------------------------------------------------------
(***************************************************************************)
(* What code looks like.                                                   *)
(***************************************************************************)

\* A block has parameters, instructions and a terminator.
LEMMA BlockTypes ==
  ASSUME NEW f, IsCode(f), NEW b \in DOMAIN f.blocks
  PROVE  /\ b \in Nat
         /\ f.blocks[b] = [params |-> f.blocks[b].params, instrs |-> f.blocks[b].instrs,
                           term |-> f.blocks[b].term]
         /\ f.blocks[b].params \in Seq(Nat)
         /\ f.blocks[b].instrs \in Seq(Instrs)
         /\ f.blocks[b].term \in Terms
         /\ Len(f.blocks[b].instrs) \in Nat
         /\ DOMAIN f.blocks[b].instrs = 1 .. Len(f.blocks[b].instrs)
         /\ \A i \in DOMAIN f.blocks[b].instrs : f.blocks[b].instrs[i] \in Instrs
  <1>1. f.blocks[b] \in Blocks /\ b \in Nat
    BY DEF IsCode
  <1>2. f.blocks[b] = [params |-> f.blocks[b].params, instrs |-> f.blocks[b].instrs,
                       term |-> f.blocks[b].term]
        /\ f.blocks[b].params \in Seq(Nat) /\ f.blocks[b].instrs \in Seq(Instrs) /\ f.blocks[b].term \in Terms
    BY <1>1 DEF Blocks
  <1> DEFINE s == f.blocks[b].instrs
  <1>3. s \in Seq(Instrs)
    BY <1>2
  <1> HIDE DEF s
  <1>4. Len(s) \in Nat /\ DOMAIN s = 1 .. Len(s) /\ \A i \in DOMAIN s : s[i] \in Instrs
    BY <1>3
  <1> QED BY <1>1, <1>2, <1>4 DEF s

\* A place is a block and a position in it,
LEMMA PlaceMembers ==
  ASSUME NEW f, IsCode(f)
  PROVE  \A p : p \in Places(f) <=>
           \E b \in DOMAIN f.blocks : \E i \in DOMAIN f.blocks[b].instrs : p = <<b, i>>
  BY DEF Places

\* both numbers, with an instruction that has a type of value or none as result,
LEMMA PlaceTypes ==
  ASSUME NEW f, IsCode(f), NEW p \in Places(f)
  PROVE  /\ p = <<p[1], p[2]>> /\ p[1] \in DOMAIN f.blocks /\ p[1] \in Nat /\ p[2] \in Nat \ {0}
         /\ p[2] \in DOMAIN f.blocks[p[1]].instrs
         /\ p[2] \in 1 .. Len(f.blocks[p[1]].instrs)
         /\ InstrAt(f, p) = f.blocks[p[1]].instrs[p[2]]
         /\ InstrAt(f, p) \in Instrs
         /\ InstrAt(f, p).res \in DOMAIN f.types \cup {0}
  <1>1. PICK b \in DOMAIN f.blocks : \E i \in DOMAIN f.blocks[b].instrs : p = <<b, i>>
    BY PlaceMembers
  <1>2. PICK i \in DOMAIN f.blocks[b].instrs : p = <<b, i>>
    BY <1>1
  <1>3. p[1] = b /\ p[2] = i
    BY <1>2
  <1>4. i \in 1 .. Len(f.blocks[b].instrs) /\ Len(f.blocks[b].instrs) \in Nat /\ b \in Nat
        /\ f.blocks[b].instrs[i] \in Instrs
    BY BlockTypes
  <1>5. i \in Nat \ {0}
    BY <1>4
  <1>6. InstrAt(f, p).res \in DOMAIN f.types \cup {0}
    BY DEF IsCode
  <1>7. InstrAt(f, p) = f.blocks[b].instrs[i]
    BY <1>3 DEF InstrAt
  <1> QED BY <1>2, <1>3, <1>4, <1>5, <1>6, <1>7

\* and every such pair is a place.
LEMMA PlaceIs ==
  ASSUME NEW f, IsCode(f), NEW b \in DOMAIN f.blocks, NEW i \in DOMAIN f.blocks[b].instrs
  PROVE  /\ <<b, i>> \in Places(f) /\ InstrAt(f, <<b, i>>) = f.blocks[b].instrs[i]
         /\ <<b, i>>[1] = b /\ <<b, i>>[2] = i
  BY PlaceMembers DEF InstrAt

\* A function on a finite set has finitely many values.
LEMMA FiniteImage ==
  ASSUME NEW g, IsFiniteSet(DOMAIN g)
  PROVE  IsFiniteSet({g[x] : x \in DOMAIN g})
  <1> DEFINE T == {g[x] : x \in DOMAIN g}
             h == [x \in DOMAIN g |-> g[x]]
  <1>1. h \in [DOMAIN g -> T]
    OBVIOUS
  <1>2. \A t \in T : \E x \in DOMAIN g : h[x] = t
    OBVIOUS
  <1> HIDE DEF h, T
  <1>3. h \in Surjection(DOMAIN g, T)
    BY <1>1, <1>2 DEF Surjection
  <1> QED BY <1>3, FS_Surjection DEF T

\* There are finitely many places.
LEMMA FinitePlaces ==
  ASSUME NEW f, IsCode(f) PROVE IsFiniteSet(Places(f))
  <1> DEFINE PlacesOf(b) == {b} \X DOMAIN f.blocks[b].instrs
             All == {PlacesOf(b) : b \in DOMAIN f.blocks}
  <1>1. ASSUME NEW b \in DOMAIN f.blocks PROVE IsFiniteSet(PlacesOf(b))
    <2>1. IsFiniteSet(DOMAIN f.blocks[b].instrs)
      <3>1. Len(f.blocks[b].instrs) \in Nat
            /\ DOMAIN f.blocks[b].instrs = 1 .. Len(f.blocks[b].instrs)
        BY BlockTypes
      <3> QED BY <3>1, FS_Interval
    <2>2. IsFiniteSet({b})
      BY FS_Singleton
    <2> QED BY <2>1, <2>2, FS_Product
  <1>2. IsFiniteSet(DOMAIN f.blocks)
    BY DEF IsCode
  <1>3. IsFiniteSet(All)
    <2> DEFINE g == [b \in DOMAIN f.blocks |-> PlacesOf(b)]
    <2>1. DOMAIN g = DOMAIN f.blocks /\ All = {g[x] : x \in DOMAIN g}
      OBVIOUS
    <2> HIDE DEF g, All
    <2> QED BY <1>2, <2>1, FiniteImage
  <1>4. \A S \in All : IsFiniteSet(S)
    BY <1>1
  <1>5. IsFiniteSet(UNION All)
    <2> HIDE DEF All
    <2> QED BY <1>3, <1>4, FS_UNION
  <1> QED BY <1>5 DEF Places

\* What is read is read by an instruction or by a terminator.
LEMMA UseMembers ==
  ASSUME NEW f
  PROVE  \A v : v \in Uses(f) <=>
           \E b \in DOMAIN f.blocks :
              \/ \E i \in DOMAIN f.blocks[b].instrs : v \in ToSet(f.blocks[b].instrs[i].args)
              \/ v \in TermUses(f.blocks[b].term)
  <1> DEFINE Args(b, i) == ToSet(f.blocks[b].instrs[i].args)
             I(b) == DOMAIN f.blocks[b].instrs
             T(b) == TermUses(f.blocks[b].term)
  <1>1. Uses(f) = UNION {T(b) \cup UNION {Args(b, i) : i \in I(b)} : b \in DOMAIN f.blocks}
    BY Zenon DEF Uses
  <1>2. \A v : (\E b \in DOMAIN f.blocks : (\E i \in I(b) : v \in Args(b, i)) \/ v \in T(b))
             <=> \E b \in DOMAIN f.blocks :
                   \/ \E i \in DOMAIN f.blocks[b].instrs : v \in ToSet(f.blocks[b].instrs[i].args)
                   \/ v \in TermUses(f.blocks[b].term)
    OBVIOUS
  <1> HIDE DEF Args, I, T
  <1>3. \A v : v \in Uses(f) <=> \E b \in DOMAIN f.blocks : (\E i \in I(b) : v \in Args(b, i)) \/ v \in T(b)
    <2> DEFINE Of(b) == T(b) \cup UNION {Args(b, i) : i \in I(b)}
    <2>1. ASSUME NEW v, NEW b PROVE v \in Of(b) <=> (\E i \in I(b) : v \in Args(b, i)) \/ v \in T(b)
      OBVIOUS
    <2>2. Uses(f) = UNION {Of(b) : b \in DOMAIN f.blocks}
      BY <1>1
    <2> HIDE DEF Of
    <2> QED BY <2>1, <2>2
  <1> QED BY <1>2, <1>3

-----------------------------------------------------------------------------
(***************************************************************************)
(* Dominance, one use at a time: a place comes before a position, and a value*)
(* is available at it.                                                     *)
(***************************************************************************)

Before(f, p, b, i) ==
  \/ p[1] = b /\ p[2] < i
  \/ p[1] # b /\ b \in Dominated(f, p[1])
Param(f, v, b) ==
  \/ v \in ToSet(f.blocks[b].params)
  \/ \E d \in DOMAIN f.blocks : /\ d # b /\ b \in Dominated(f, d)
                                /\ v \in ToSet(f.blocks[d].params)
Available(f, v, b, i) ==
  \/ v \in Everywhere(f)
  \/ Param(f, v, b)
  \/ \E p \in Places(f) : InstrAt(f, p).res = v /\ Before(f, p, b, i)
UsesAvailable(f, b) ==
  /\ \A i \in DOMAIN f.blocks[b].instrs :
       \A v \in ToSet(f.blocks[b].instrs[i].args) : Available(f, v, b, i)
  /\ \A v \in TermUses(f.blocks[b].term) : Available(f, v, b, Whole(f, b))

Below(f) == [d \in DOMAIN f.blocks |-> Dominated(f, d) \ {d}]
Above(f, b) == {e \in DOMAIN f.blocks : b \in Dominated(f, e) \ {e}}
Known(f, b) == Everywhere(f) \cup UNION {DefinedIn(f, d, Whole(f, d)) : d \in Above(f, b)}
KnownAt(f, b, i) == Known(f, b) \cup DefinedIn(f, b, i)

\* What DefsDominateUses lets a position read is what is available there.
LEMMA KnownIsAvailable ==
  ASSUME NEW f, IsCode(f), NEW b \in DOMAIN f.blocks, NEW i \in 1 .. Whole(f, b), NEW v
  PROVE  v \in KnownAt(f, b, i) <=> Available(f, v, b, i)
  <1>0. i \in Nat /\ Len(f.blocks[b].instrs) \in Nat /\ Whole(f, b) \in Nat
    BY BlockTypes DEF Whole
  <1>1. ASSUME v \in KnownAt(f, b, i) PROVE Available(f, v, b, i)
    <2>1. CASE v \in Everywhere(f)
      BY <2>1 DEF Available
    <2>2. CASE v \in UNION {DefinedIn(f, d, Whole(f, d)) : d \in Above(f, b)}
      <3>1. PICK d \in Above(f, b) : v \in DefinedIn(f, d, Whole(f, d))
        BY <2>2
      <3>2. d \in DOMAIN f.blocks /\ b \in Dominated(f, d) /\ d # b
        BY DEF Above
      <3>3. CASE v \in ToSet(f.blocks[d].params)
        BY <3>2, <3>3 DEF Available, Param
      <3>4. CASE v \notin ToSet(f.blocks[d].params)
        <4>1. PICK j \in 1 .. Whole(f, d) - 1 : f.blocks[d].instrs[j].res = v
          BY <3>1, <3>4 DEF DefinedIn
        <4>2. j \in DOMAIN f.blocks[d].instrs
          BY <3>2, BlockTypes DEF Whole
        <4>3. <<d, j>> \in Places(f) /\ InstrAt(f, <<d, j>>).res = v /\ <<d, j>>[1] = d
          BY <3>2, <4>1, <4>2, PlaceIs
        <4>4. Before(f, <<d, j>>, b, i)
          BY <3>2, <4>3 DEF Before
        <4> QED BY <4>3, <4>4 DEF Available
      <3> QED BY <3>3, <3>4
    <2>3. CASE v \in DefinedIn(f, b, i)
      <3>1. CASE v \in ToSet(f.blocks[b].params)
        BY <3>1 DEF Available, Param
      <3>2. CASE v \notin ToSet(f.blocks[b].params)
        <4>1. PICK j \in 1 .. i - 1 : f.blocks[b].instrs[j].res = v
          BY <2>3, <3>2 DEF DefinedIn
        <4>2. j \in DOMAIN f.blocks[b].instrs /\ j < i
          BY <1>0, BlockTypes DEF Whole
        <4>3. <<b, j>> \in Places(f) /\ InstrAt(f, <<b, j>>).res = v /\ <<b, j>>[1] = b /\ <<b, j>>[2] = j
          BY <4>1, <4>2, PlaceIs
        <4>4. Before(f, <<b, j>>, b, i)
          BY <4>2, <4>3 DEF Before
        <4> QED BY <4>3, <4>4 DEF Available
      <3> QED BY <3>1, <3>2
    <2> QED BY <1>1, <2>1, <2>2, <2>3 DEF KnownAt, Known
  <1>2. ASSUME Available(f, v, b, i) PROVE v \in KnownAt(f, b, i)
    <2>1. CASE v \in Everywhere(f)
      BY <2>1 DEF KnownAt, Known
    <2>2. CASE Param(f, v, b)
      <3>1. CASE v \in ToSet(f.blocks[b].params)
        BY <3>1 DEF KnownAt, DefinedIn
      <3>2. CASE v \notin ToSet(f.blocks[b].params)
        <4>1. PICK d \in DOMAIN f.blocks : d # b /\ b \in Dominated(f, d) /\ v \in ToSet(f.blocks[d].params)
          BY <2>2, <3>2 DEF Param
        <4>2. d \in Above(f, b) /\ v \in DefinedIn(f, d, Whole(f, d))
          BY <4>1 DEF Above, DefinedIn
        <4> QED BY <4>2 DEF KnownAt, Known
      <3> QED BY <3>1, <3>2
    <2>3. ASSUME NEW p \in Places(f), InstrAt(f, p).res = v, Before(f, p, b, i)
          PROVE  v \in KnownAt(f, b, i)
      <3>1. p[1] \in DOMAIN f.blocks /\ p[2] \in 1 .. Len(f.blocks[p[1]].instrs)
            /\ f.blocks[p[1]].instrs[p[2]].res = v /\ p[2] \in Nat
        BY <2>3, PlaceTypes
      <3>2. CASE p[1] = b /\ p[2] < i
        <4>1. p[2] \in 1 .. i - 1
          BY <1>0, <3>1, <3>2
        <4>2. v \in DefinedIn(f, b, i)
          BY <3>1, <3>2, <4>1 DEF DefinedIn
        <4> QED BY <4>2 DEF KnownAt
      <3>3. CASE p[1] # b /\ b \in Dominated(f, p[1])
        <4>1. p[2] \in 1 .. Whole(f, p[1]) - 1
          BY <3>1, BlockTypes DEF Whole
        <4>2. v \in DefinedIn(f, p[1], Whole(f, p[1]))
          BY <3>1, <4>1 DEF DefinedIn
        <4>3. p[1] \in Above(f, b)
          BY <3>1, <3>3 DEF Above
        <4> QED BY <4>2, <4>3 DEF KnownAt, Known
      <3> QED BY <2>3, <3>2, <3>3 DEF Before
    <2> QED BY <1>2, <2>1, <2>2, <2>3 DEF Available
  <1> QED BY <1>1, <1>2

\* So dominance is the availability of each operand.
LEMMA DominancePointwise ==
  ASSUME NEW f, IsCode(f)
  PROVE  DefsDominateUses(f) <=>
           \A b \in reachable_blocks(f) \cap DOMAIN f.blocks : UsesAvailable(f, b)
  <1> DEFINE Fine(b) ==
        /\ \A i \in DOMAIN f.blocks[b].instrs :
             ToSet(f.blocks[b].instrs[i].args) \subseteq KnownAt(f, b, i)
        /\ TermUses(f.blocks[b].term) \subseteq KnownAt(f, b, Whole(f, b))
  <1>1. DefsDominateUses(f) <=> \A b \in reachable_blocks(f) \cap DOMAIN f.blocks : Fine(b)
    <2>1. ASSUME NEW b PROVE {e \in DOMAIN f.blocks : b \in Below(f)[e]} = Above(f, b)
      BY DEF Below, Above
    <2>2. DefsDominateUses(f) <=>
            \A b \in reachable_blocks(f) \cap DOMAIN f.blocks :
              LET known == Everywhere(f) \cup UNION {DefinedIn(f, d, Whole(f, d)) :
                              d \in {e \in DOMAIN f.blocks : b \in Below(f)[e]}} IN
              /\ \A i \in DOMAIN f.blocks[b].instrs :
                   ToSet(f.blocks[b].instrs[i].args) \subseteq known \cup DefinedIn(f, b, i)
              /\ TermUses(f.blocks[b].term) \subseteq known \cup DefinedIn(f, b, Whole(f, b))
      BY Zenon DEF DefsDominateUses, Below
    <2> QED BY <2>1, <2>2 DEF KnownAt, Known
  <1>2. ASSUME NEW b \in DOMAIN f.blocks PROVE Fine(b) <=> UsesAvailable(f, b)
    <2>1. Whole(f, b) \in 1 .. Whole(f, b)
      BY BlockTypes DEF Whole
    <2>2. \A i \in DOMAIN f.blocks[b].instrs : i \in 1 .. Whole(f, b)
      <3>1. Len(f.blocks[b].instrs) \in Nat
            /\ DOMAIN f.blocks[b].instrs = 1 .. Len(f.blocks[b].instrs)
        BY BlockTypes
      <3> QED BY <3>1 DEF Whole
    <2>3. \A i \in 1 .. Whole(f, b) : \A v : v \in KnownAt(f, b, i) <=> Available(f, v, b, i)
      BY KnownIsAvailable
    <2> QED BY <2>1, <2>2, <2>3 DEF UsesAvailable
  <1> HIDE DEF Fine
  <1> QED BY <1>1, <1>2

-----------------------------------------------------------------------------
(***************************************************************************)
(* Code that differs from other code in its operands only.                 *)
(***************************************************************************)

SameTerm(s, t) ==
  t.t = s.t /\ t.to = s.to /\ t.else = s.else /\ Len(t.args) = Len(s.args) /\ Len(t.eargs) = Len(s.eargs)
SameInstr(i, j) ==
  j.op = i.op /\ j.imm = i.imm /\ j.res = i.res /\ j.lift = i.lift /\ Len(j.args) = Len(i.args)
SameBlock(a, b) ==
  /\ b.params = a.params /\ SameTerm(a.term, b.term)
  /\ DOMAIN b.instrs = DOMAIN a.instrs
  /\ \A i \in DOMAIN a.instrs : SameInstr(a.instrs[i], b.instrs[i])
SameShape(f, g) ==
  /\ g.params = f.params
  /\ DOMAIN g.blocks = DOMAIN f.blocks
  /\ \A b \in DOMAIN f.blocks : SameBlock(f.blocks[b], g.blocks[b])

\* Such code reaches the same blocks,
LEMMA ShapeReach ==
  ASSUME NEW f, NEW g, SameShape(f, g), NEW avoid
  PROVE  Reach(g, avoid) = Reach(f, avoid)
  <1>1. \A b \in DOMAIN f.blocks : Targets(g.blocks[b].term) = Targets(f.blocks[b].term)
    BY DEF SameShape, SameBlock, SameTerm, Targets
  <1>2. DOMAIN g.blocks = DOMAIN f.blocks
    BY DEF SameShape
  <1> QED BY <1>1, <1>2, SameReach

\* has them in the same order,
LEMMA ShapeReachableFirst ==
  ASSUME NEW f, NEW g, SameShape(f, g)
  PROVE  ReachableFirst(g) <=> ReachableFirst(f)
  <1>1. DOMAIN g.blocks = DOMAIN f.blocks
    BY DEF SameShape
  <1>2. reachable_blocks(g) = reachable_blocks(f)
    BY ShapeReach DEF reachable_blocks
  <1> QED BY <1>1, <1>2 DEF ReachableFirst

\* has targets that fit the validator alike,
LEMMA ShapeTarget ==
  ASSUME NEW f, NEW g, SameShape(f, g), NEW to, NEW args, NEW margs, Len(margs) = Len(args),
         validate_target(f, to, args), NthBlock(f, to) \in DOMAIN f.blocks
  PROVE  validate_target(g, to, margs)
  <1>1. DOMAIN g.blocks = DOMAIN f.blocks
        /\ \A b \in DOMAIN f.blocks : g.blocks[b].params = f.blocks[b].params
    BY DEF SameShape, SameBlock
  <1>2. NthBlock(g, to) = NthBlock(f, to)
    BY <1>1 DEF NthBlock
  <1> QED BY <1>1, <1>2 DEF validate_target

\* has the same places with instructions of the same shape,
LEMMA ShapePlaces ==
  ASSUME NEW f, IsCode(f), NEW g, SameShape(f, g)
  PROVE  /\ Places(g) = Places(f)
         /\ \A p \in Places(f) : SameInstr(InstrAt(f, p), InstrAt(g, p))
  <1>1. ASSUME NEW b \in DOMAIN f.blocks
        PROVE  DOMAIN g.blocks[b].instrs = DOMAIN f.blocks[b].instrs
    BY DEF SameShape, SameBlock
  <1>2. DOMAIN g.blocks = DOMAIN f.blocks
    BY DEF SameShape
  <1>3. {{b} \X DOMAIN g.blocks[b].instrs : b \in DOMAIN g.blocks}
        = {{b} \X DOMAIN f.blocks[b].instrs : b \in DOMAIN f.blocks}
    BY <1>1, <1>2
  <1>4. Places(g) = Places(f)
    BY <1>3, Zenon DEF Places
  <1>5. ASSUME NEW p \in Places(f) PROVE SameInstr(InstrAt(f, p), InstrAt(g, p))
    <2>1. p[1] \in DOMAIN f.blocks /\ p[2] \in DOMAIN f.blocks[p[1]].instrs
      BY PlaceTypes
    <2> QED BY <2>1 DEF SameShape, SameBlock, InstrAt
  <1> QED BY <1>4, <1>5

\* the same effects,
LEMMA ShapeVoid ==
  ASSUME NEW f, IsCode(f), NEW g, SameShape(f, g), VoidHasEffect(f)
  PROVE  VoidHasEffect(g)
  <1>1. Places(g) = Places(f) /\ \A p \in Places(f) : SameInstr(InstrAt(f, p), InstrAt(g, p))
    BY ShapePlaces
  <1> QED BY <1>1 DEF VoidHasEffect, SameInstr

\* The values that come in with a block.
AllParams(f) == UNION {ToSet(f.blocks[b].params) : b \in DOMAIN f.blocks}

\* and the same parameters.
LEMMA ShapeParams ==
  ASSUME NEW f, NEW g, SameShape(f, g)
  PROVE  AllParams(g) = AllParams(f)
  BY DEF SameShape, SameBlock, AllParams

\* Constants that are no value of the code can be added.
LEMMA ShapeDefinedOnce ==
  ASSUME NEW f, IsCode(f), DefinedOnce(f), NEW g, SameShape(f, g),
         \A p \in Places(f) : InstrAt(f, p).res # 0 =>
            (InstrAt(f, p).res \in DOMAIN g.consts => InstrAt(f, p).res \in DOMAIN f.consts)
  PROVE  DefinedOnce(g)
  <1>1. Places(g) = Places(f) /\ \A p \in Places(f) : SameInstr(InstrAt(f, p), InstrAt(g, p))
    BY ShapePlaces
  <1>2. AllParams(g) = AllParams(f)
    BY ShapeParams
  <1>3. g.params = f.params
    BY DEF SameShape
  <1>4. ASSUME NEW p \in Places(f), InstrAt(f, p).res # 0
        PROVE  /\ InstrAt(f, p).res \notin Everywhere(f) \cup AllParams(f)
               /\ \A q \in Places(f) : InstrAt(f, q).res = InstrAt(f, p).res => q = p
    BY <1>4 DEF DefinedOnce, AllParams
  <1>5. ASSUME NEW p \in Places(g), InstrAt(g, p).res # 0
        PROVE  /\ InstrAt(g, p).res \notin Everywhere(g) \cup AllParams(g)
               /\ \A q \in Places(g) : InstrAt(g, q).res = InstrAt(g, p).res => q = p
    BY <1>1, <1>2, <1>3, <1>4, <1>5 DEF SameInstr, Everywhere
  <1> QED BY <1>5 DEF DefinedOnce, AllParams

\* Where a value could be used it still can.
LEMMA ShapeBefore ==
  ASSUME NEW f, NEW g, SameShape(f, g), NEW p, NEW b \in DOMAIN f.blocks, NEW i
  PROVE  Before(g, p, b, i) <=> Before(f, p, b, i)
  <1>1. \A avoid : Reach(g, avoid) = Reach(f, avoid)
    BY ShapeReach
  <1>2. b \in DOMAIN g.blocks
    BY DEF SameShape
  <1> QED BY <1>1, <1>2, SameDominated DEF Before

\* What was available still is.
LEMMA ShapeAvailable ==
  ASSUME NEW f, IsCode(f), NEW g, SameShape(f, g), DOMAIN f.consts \subseteq DOMAIN g.consts,
         NEW v, NEW b \in DOMAIN f.blocks, NEW i, Available(f, v, b, i)
  PROVE  Available(g, v, b, i)
  <1>1. Places(g) = Places(f) /\ \A p \in Places(f) : SameInstr(InstrAt(f, p), InstrAt(g, p))
    BY ShapePlaces
  <1>2. CASE v \in Everywhere(f)
    BY <1>2 DEF Available, Everywhere, SameShape
  <1>3. CASE Param(f, v, b)
    <2>1. \A d : b \in Dominated(g, d) <=> b \in Dominated(f, d)
      <3>1. \A avoid : Reach(g, avoid) = Reach(f, avoid)
        BY ShapeReach
      <3> QED BY <3>1, SameDominated DEF SameShape
    <2>2. \A d \in DOMAIN f.blocks : d \in DOMAIN g.blocks /\ g.blocks[d].params = f.blocks[d].params
      BY DEF SameShape, SameBlock
    <2> QED BY <1>3, <2>1, <2>2 DEF Available, Param
  <1>4. CASE \E p \in Places(f) : InstrAt(f, p).res = v /\ Before(f, p, b, i)
    BY <1>1, <1>4, ShapeBefore DEF Available, SameInstr
  <1> QED BY <1>2, <1>3, <1>4 DEF Available

-----------------------------------------------------------------------------
(***************************************************************************)
(* What apply_replacements changes.                                        *)
(***************************************************************************)

Rewritten(f, map) == apply_replacements(f, map).f
RewritesTo(f, map, h) ==
  /\ SameShape(f, h)
  /\ \A b \in DOMAIN f.blocks :
       /\ \A i \in DOMAIN f.blocks[b].instrs :
            ToSet(h.blocks[b].instrs[i].args) \subseteq
              {Renamed(map, v) : v \in ToSet(f.blocks[b].instrs[i].args)}
       /\ TermUses(h.blocks[b].term) \subseteq {Renamed(map, v) : v \in TermUses(f.blocks[b].term)}

\* A list is renamed element by element,
LEMMA RenamedList ==
  ASSUME NEW map, \A v \in DOMAIN map : map[v] \in Nat, NEW vs \in Seq(Nat)
  PROVE  /\ RenamedAll(map, vs) \in Seq(Nat)
         /\ Len(RenamedAll(map, vs)) = Len(vs)
         /\ ToSet(RenamedAll(map, vs)) = {Renamed(map, v) : v \in ToSet(vs)}
  <1>1. DOMAIN vs = 1 .. Len(vs) /\ Len(vs) \in Nat /\ \A i \in DOMAIN vs : vs[i] \in Nat
    OBVIOUS
  <1>2. \A v \in Nat : Renamed(map, v) \in Nat
    BY DEF Renamed
  <1> DEFINE ws == RenamedAll(map, vs)
  <1>3. DOMAIN ws = 1 .. Len(vs) /\ \A i \in 1 .. Len(vs) : ws[i] = Renamed(map, vs[i]) /\ ws[i] \in Nat
    BY <1>1, <1>2 DEF RenamedAll
  <1>4. ws = [i \in 1 .. Len(vs) |-> ws[i]]
    BY <1>1 DEF RenamedAll
  <1> HIDE DEF ws
  <1>5. ws \in Seq(Nat) /\ Len(ws) = Len(vs)
    BY <1>1, <1>3, <1>4
  <1>6. ToSet(ws) = {Renamed(map, v) : v \in ToSet(vs)}
    BY <1>1, <1>3 DEF ToSet
  <1> QED BY <1>5, <1>6 DEF ws

\* a terminator stays one of its kind and reads the renamed values,
LEMMA RenamedTermIs ==
  ASSUME NEW map, \A v \in DOMAIN map : map[v] \in Nat, 0 \notin DOMAIN map, NEW t \in Terms
  PROVE  /\ RenamedTerm(map, t) \in Terms
         /\ SameTerm(t, RenamedTerm(map, t))
         /\ TermUses(RenamedTerm(map, t)) \subseteq {Renamed(map, v) : v \in TermUses(t)}
  <1> DEFINE u == RenamedTerm(map, t)
  <1>1. t.v \in Nat /\ t.args \in Seq(Nat) /\ t.eargs \in Seq(Nat)
    BY DEF Terms
  <1>3. u = [t |-> t.t, v |-> Renamed(map, t.v), to |-> t.to, args |-> RenamedAll(map, t.args),
             else |-> t.else, eargs |-> RenamedAll(map, t.eargs)]
    <2>1. t = [t |-> t.t, v |-> t.v, to |-> t.to, args |-> t.args, else |-> t.else, eargs |-> t.eargs]
      BY DEF Terms
    <2> DEFINE v1 == Renamed(map, t.v)
               a1 == RenamedAll(map, t.args)
               e1 == RenamedAll(map, t.eargs)
               t1 == [t EXCEPT !.v = v1]
               t2 == [t1 EXCEPT !.args = a1]
    <2>2. u = [t2 EXCEPT !.eargs = e1]
      BY DEF RenamedTerm
    <2> HIDE DEF u, v1, a1, e1
    <2>3. t1 = [t |-> t.t, v |-> v1, to |-> t.to, args |-> t.args, else |-> t.else, eargs |-> t.eargs]
      BY <2>1
    <2> HIDE DEF t1
    <2>4. t2 = [t |-> t.t, v |-> v1, to |-> t.to, args |-> a1, else |-> t.else, eargs |-> t.eargs]
      BY <2>3
    <2> HIDE DEF t2
    <2>5. u = [t |-> t.t, v |-> v1, to |-> t.to, args |-> a1, else |-> t.else, eargs |-> e1]
      BY <2>2, <2>4
    <2> QED BY <2>5 DEF v1, a1, e1
  <1> HIDE DEF u
  <1>2. /\ u.t = t.t /\ u.to = t.to /\ u.else = t.else /\ u.v = Renamed(map, t.v)
        /\ u.args = RenamedAll(map, t.args) /\ u.eargs = RenamedAll(map, t.eargs)
    BY <1>3
  <1>4. u.args \in Seq(Nat) /\ Len(u.args) = Len(t.args)
        /\ ToSet(u.args) = {Renamed(map, v) : v \in ToSet(t.args)}
    BY <1>1, <1>2, RenamedList
  <1>5. u.eargs \in Seq(Nat) /\ Len(u.eargs) = Len(t.eargs)
        /\ ToSet(u.eargs) = {Renamed(map, v) : v \in ToSet(t.eargs)}
    BY <1>1, <1>2, RenamedList
  <1>6. u.v \in Nat
    BY <1>1, <1>2 DEF Renamed
  <1>7. t.t \in {"Jump", "Branch", "Return", "Revert", "Unreachable"} /\ t.to \in Nat /\ t.else \in Nat
    BY DEF Terms
  <1>8. u \in Terms
    BY <1>2, <1>3, <1>4, <1>5, <1>6, <1>7 DEF Terms
  <1>9. SameTerm(t, u)
    BY <1>2, <1>4, <1>5 DEF SameTerm
  <1>10. TermUses(u) \subseteq {Renamed(map, v) : v \in TermUses(t)}
    <2>1. t.v = 0 => u.v = 0
      BY <1>2 DEF Renamed
    <2> QED BY <1>2, <1>4, <1>5, <2>1 DEF TermUses
  <1> QED BY <1>8, <1>9, <1>10 DEF u

\* so does an instruction,
LEMMA RenamedInstrIs ==
  ASSUME NEW map, \A v \in DOMAIN map : map[v] \in Nat, NEW ins \in Instrs
  PROVE  LET j == RewrittenInstr(map, ins) IN
         /\ j \in Instrs /\ SameInstr(ins, j)
         /\ ToSet(j.args) = {Renamed(map, v) : v \in ToSet(ins.args)}
  <1> DEFINE j == RewrittenInstr(map, ins)
  <1>1. ins.args \in Seq(Nat) /\ ins.op \in STRING /\ ins.imm \in STRING /\ ins.res \in Nat /\ ins.lift \in BOOLEAN
    BY DEF Instrs
  <1>2. j.op = ins.op /\ j.imm = ins.imm /\ j.res = ins.res /\ j.lift = ins.lift
        /\ j.args = RenamedAll(map, ins.args)
    BY DEF Instrs, RewrittenInstr
  <1>3. j = [op |-> j.op, imm |-> j.imm, args |-> j.args, res |-> j.res, lift |-> j.lift]
    BY DEF Instrs, RewrittenInstr
  <1> HIDE DEF j
  <1>4. j.args \in Seq(Nat) /\ Len(j.args) = Len(ins.args)
        /\ ToSet(j.args) = {Renamed(map, v) : v \in ToSet(ins.args)}
    BY <1>1, <1>2, RenamedList
  <1>5. j \in Instrs
    BY <1>1, <1>2, <1>3, <1>4 DEF Instrs
  <1>6. SameInstr(ins, j)
    BY <1>2, <1>4 DEF SameInstr
  <1> QED BY <1>4, <1>5, <1>6 DEF j

\* so does a block.
LEMMA RewrittenBlockIs ==
  ASSUME NEW map, \A v \in DOMAIN map : map[v] \in Nat, 0 \notin DOMAIN map,
         NEW f, IsCode(f), NEW b \in DOMAIN f.blocks
  PROVE  LET a == f.blocks[b]
             r == RewrittenBlock(map, a) IN
         /\ r \in Blocks /\ SameBlock(a, r)
         /\ \A i \in DOMAIN a.instrs :
              ToSet(r.instrs[i].args) \subseteq {Renamed(map, v) : v \in ToSet(a.instrs[i].args)}
         /\ TermUses(r.term) \subseteq {Renamed(map, v) : v \in TermUses(a.term)}
  <1> DEFINE a == f.blocks[b]
             r == RewrittenBlock(map, a)
             New(i) == RewrittenInstr(map, a.instrs[i])
  <1>1. /\ a = [params |-> a.params, instrs |-> a.instrs, term |-> a.term]
        /\ a.params \in Seq(Nat) /\ a.term \in Terms /\ Len(a.instrs) \in Nat
        /\ DOMAIN a.instrs = 1 .. Len(a.instrs)
        /\ \A i \in DOMAIN a.instrs : a.instrs[i] \in Instrs
    BY BlockTypes
  <1> HIDE DEF a
  <1>2. /\ r = [params |-> a.params, instrs |-> [i \in DOMAIN a.instrs |-> New(i)],
                term |-> RenamedTerm(map, a.term)]
    <2> DEFINE is == [i \in DOMAIN a.instrs |-> New(i)]
               tt == RenamedTerm(map, a.term)
               a1 == [a EXCEPT !.instrs = is]
    <2>1. r = [a1 EXCEPT !.term = tt]
      BY DEF RewrittenBlock
    <2> HIDE DEF r, is, tt
    <2>2. a1 = [params |-> a.params, instrs |-> is, term |-> a.term]
      BY <1>1
    <2> HIDE DEF a1
    <2>3. r = [params |-> a.params, instrs |-> is, term |-> tt]
      BY <2>1, <2>2
    <2> QED BY <2>3 DEF is, tt
  <1>3. \A i \in DOMAIN a.instrs : /\ New(i) \in Instrs /\ SameInstr(a.instrs[i], New(i))
                                   /\ ToSet(New(i).args) = {Renamed(map, v) : v \in ToSet(a.instrs[i].args)}
    BY <1>1, RenamedInstrIs
  <1>4. /\ RenamedTerm(map, a.term) \in Terms /\ SameTerm(a.term, RenamedTerm(map, a.term))
        /\ TermUses(RenamedTerm(map, a.term)) \subseteq {Renamed(map, v) : v \in TermUses(a.term)}
    BY <1>1, RenamedTermIs
  <1> HIDE DEF r, New
  <1>5. /\ r.params = a.params /\ r.term = RenamedTerm(map, a.term)
        /\ DOMAIN r.instrs = DOMAIN a.instrs /\ \A i \in DOMAIN a.instrs : r.instrs[i] = New(i)
    BY <1>2
  <1>6. r.instrs \in Seq(Instrs)
    <2>1. r.instrs = [i \in 1 .. Len(a.instrs) |-> New(i)]
      BY <1>1, <1>2
    <2> QED BY <1>1, <1>3, <2>1
  <1>7. r \in Blocks
    <2>1. r = [params |-> r.params, instrs |-> r.instrs, term |-> r.term]
      BY <1>2
    <2>2. r.params \in Seq(Nat) /\ r.term \in Terms
      BY <1>1, <1>4, <1>5
    <2> QED BY <1>6, <2>1, <2>2 DEF Blocks
  <1>8. SameBlock(a, r)
    BY <1>3, <1>4, <1>5 DEF SameBlock
  <1>9. \A i \in DOMAIN a.instrs :
              ToSet(r.instrs[i].args) \subseteq {Renamed(map, v) : v \in ToSet(a.instrs[i].args)}
    BY <1>3, <1>5
  <1>10. TermUses(r.term) \subseteq {Renamed(map, v) : v \in TermUses(a.term)}
    BY <1>4, <1>5
  <1> QED BY <1>7, <1>8, <1>9, <1>10 DEF a, r

\* A rewriting to values that have a type reads only values that have one.
LEMMA RewrittenUses ==
  ASSUME NEW f, NEW map, NEW h, RewritesTo(f, map, h), Uses(f) \subseteq DOMAIN f.types,
         \A v \in DOMAIN map : map[v] \in DOMAIN f.types
  PROVE  Uses(h) \subseteq DOMAIN f.types
  <1>1. \A v \in DOMAIN f.types : Renamed(map, v) \in DOMAIN f.types
    BY DEF Renamed
  <1>2. DOMAIN h.blocks = DOMAIN f.blocks
        /\ \A b \in DOMAIN f.blocks : DOMAIN h.blocks[b].instrs = DOMAIN f.blocks[b].instrs
    BY DEF RewritesTo, SameShape, SameBlock
  <1>3. ASSUME NEW b \in DOMAIN h.blocks, NEW i \in DOMAIN h.blocks[b].instrs
        PROVE  ToSet(h.blocks[b].instrs[i].args) \subseteq DOMAIN f.types
    <2>1. ToSet(f.blocks[b].instrs[i].args) \subseteq DOMAIN f.types
      BY <1>2, UseMembers
    <2>2. ToSet(h.blocks[b].instrs[i].args) \subseteq
            {Renamed(map, v) : v \in ToSet(f.blocks[b].instrs[i].args)}
      BY <1>2 DEF RewritesTo
    <2> QED BY <1>1, <2>1, <2>2
  <1>4. ASSUME NEW b \in DOMAIN h.blocks
        PROVE  TermUses(h.blocks[b].term) \subseteq DOMAIN f.types
    <2>1. TermUses(f.blocks[b].term) \subseteq DOMAIN f.types
      BY <1>2, UseMembers
    <2>2. TermUses(h.blocks[b].term) \subseteq {Renamed(map, v) : v \in TermUses(f.blocks[b].term)}
      BY <1>2 DEF RewritesTo
    <2> QED BY <1>1, <2>1, <2>2
  <1> QED BY <1>3, <1>4, UseMembers

\* apply_replacements leaves code of the same shape, its operands renamed.
LEMMA RewrittenIs ==
  ASSUME NEW f, IsCode(f), NEW map, \A v \in DOMAIN map : map[v] \in DOMAIN f.types,
         0 \notin DOMAIN map
  PROVE  LET h == Rewritten(f, map) IN
         /\ RewritesTo(f, map, h) /\ IsCode(h)
         /\ h.consts = f.consts /\ h.types = f.types
  <1> DEFINE h == Rewritten(f, map)
             New(b) == RewrittenBlock(map, f.blocks[b])
  <1>1. f = [params |-> f.params, blocks |-> f.blocks, consts |-> f.consts, types |-> f.types]
    BY DEF IsCode
  <1>2. h = [params |-> f.params, blocks |-> [b \in DOMAIN f.blocks |-> New(b)],
             consts |-> f.consts, types |-> f.types]
    BY <1>1 DEF Rewritten, apply_replacements, Pass
  <1>0. \A v \in DOMAIN map : map[v] \in Nat
    BY DEF IsCode
  <1> HIDE DEF h
  <1>3. ASSUME NEW b \in DOMAIN f.blocks
        PROVE  /\ New(b) \in Blocks /\ SameBlock(f.blocks[b], New(b))
               /\ \A i \in DOMAIN f.blocks[b].instrs :
                    ToSet(New(b).instrs[i].args) \subseteq
                      {Renamed(map, v) : v \in ToSet(f.blocks[b].instrs[i].args)}
               /\ TermUses(New(b).term) \subseteq {Renamed(map, v) : v \in TermUses(f.blocks[b].term)}
    BY <1>0, RewrittenBlockIs
  <1> HIDE DEF New
  <1>4. /\ DOMAIN h.blocks = DOMAIN f.blocks /\ h.params = f.params
        /\ h.consts = f.consts /\ h.types = f.types
        /\ \A b \in DOMAIN f.blocks : h.blocks[b] = New(b)
    BY <1>2
  <1>5. SameShape(f, h)
    BY <1>3, <1>4 DEF SameShape
  <1>6. RewritesTo(f, map, h)
    BY <1>3, <1>4, <1>5 DEF RewritesTo
  <1>7. IsCode(h)
    <2>1. h = [params |-> h.params, blocks |-> h.blocks, consts |-> h.consts, types |-> h.types]
      BY <1>2
    <2>2. h.blocks \in [DOMAIN h.blocks -> Blocks]
      BY <1>2, <1>3
    <2>3. \A p \in Places(h) : InstrAt(h, p).res \in DOMAIN h.types \cup {0}
      <3>1. Places(h) = Places(f) /\ \A p \in Places(f) : SameInstr(InstrAt(f, p), InstrAt(h, p))
        BY <1>5, ShapePlaces
      <3> QED BY <1>4, <3>1, PlaceTypes DEF SameInstr
    <2>4. Uses(h) \subseteq DOMAIN h.types
      BY <1>4, <1>6, RewrittenUses DEF IsCode
    <2> QED BY <1>4, <2>1, <2>2, <2>3, <2>4 DEF IsCode
  <1> QED BY <1>4, <1>6, <1>7 DEF h

\* Renaming is sound when a value gives way to one that can be used wherever
\* it could.
LEMMA RenamingKeepsDominance ==
  ASSUME NEW f, IsCode(f), DefsDominateUses(f), NEW h, IsCode(h), NEW map, RewritesTo(f, map, h),
         DOMAIN f.consts \subseteq DOMAIN h.consts,
         \A v \in DOMAIN map : \A b \in reachable_blocks(f) \cap DOMAIN f.blocks : \A i \in Nat :
            Available(f, v, b, i) => Available(h, map[v], b, i)
  PROVE  DefsDominateUses(h)
  <1>1. SameShape(f, h) /\ DOMAIN h.blocks = DOMAIN f.blocks
    BY DEF RewritesTo, SameShape
  <1>2. reachable_blocks(h) = reachable_blocks(f)
    BY <1>1, ShapeReach DEF reachable_blocks
  <1>3. ASSUME NEW b \in reachable_blocks(f) \cap DOMAIN f.blocks, NEW i \in Nat, NEW v, Available(f, v, b, i)
        PROVE  Available(h, Renamed(map, v), b, i)
    <2>1. CASE v \in DOMAIN map
      BY <1>3, <2>1 DEF Renamed
    <2>2. CASE v \notin DOMAIN map
      BY <1>1, <1>3, <2>2, ShapeAvailable DEF Renamed
    <2> QED BY <2>1, <2>2
  <1>4. ASSUME NEW b \in reachable_blocks(f) \cap DOMAIN f.blocks PROVE UsesAvailable(h, b)
    <2>1. UsesAvailable(f, b)
      BY DominancePointwise
    <2>2. /\ Whole(f, b) \in Nat /\ Whole(h, b) = Whole(f, b)
          /\ DOMAIN h.blocks[b].instrs = DOMAIN f.blocks[b].instrs
          /\ DOMAIN f.blocks[b].instrs \subseteq Nat
      <3>1. DOMAIN h.blocks[b].instrs = DOMAIN f.blocks[b].instrs
        BY <1>1 DEF SameShape, SameBlock
      <3>2. Len(f.blocks[b].instrs) \in Nat /\ DOMAIN f.blocks[b].instrs = 1 .. Len(f.blocks[b].instrs)
        BY BlockTypes
      <3>3. Len(h.blocks[b].instrs) \in Nat /\ DOMAIN h.blocks[b].instrs = 1 .. Len(h.blocks[b].instrs)
        BY <1>1, BlockTypes
      <3>4. Len(h.blocks[b].instrs) = Len(f.blocks[b].instrs)
        <4> DEFINE m == Len(h.blocks[b].instrs)
                   n == Len(f.blocks[b].instrs)
        <4>1. m \in Nat /\ n \in Nat /\ 1 .. m = 1 .. n
          BY <3>1, <3>2, <3>3
        <4> HIDE DEF m, n
        <4>2. m = n
          BY <4>1, FS_Interval
        <4> QED BY <4>2 DEF m, n
      <3> QED BY <3>1, <3>2, <3>4 DEF Whole
    <2>3. ASSUME NEW i \in DOMAIN h.blocks[b].instrs, NEW w \in ToSet(h.blocks[b].instrs[i].args)
          PROVE  Available(h, w, b, i)
      <3>1. PICK v \in ToSet(f.blocks[b].instrs[i].args) : w = Renamed(map, v)
        BY <2>2 DEF RewritesTo
      <3>2. Available(f, v, b, i) /\ i \in Nat
        BY <2>1, <2>2 DEF UsesAvailable
      <3> QED BY <1>3, <3>1, <3>2
    <2>4. ASSUME NEW w \in TermUses(h.blocks[b].term) PROVE Available(h, w, b, Whole(h, b))
      <3>1. PICK v \in TermUses(f.blocks[b].term) : w = Renamed(map, v)
        BY DEF RewritesTo
      <3>2. Available(f, v, b, Whole(f, b)) /\ Whole(f, b) \in Nat
        BY <2>1, <2>2 DEF UsesAvailable
      <3> QED BY <1>3, <2>2, <3>1, <3>2
    <2> QED BY <2>3, <2>4 DEF UsesAvailable
  <1> QED BY <1>1, <1>2, <1>4, DominancePointwise

\* A set of numbers has a least one.
LEMMA LeastNat ==
  ASSUME NEW S \in SUBSET Nat, S # {}
  PROVE  \E m \in S : \A k \in S : m <= k
  <1> SUFFICES ASSUME \A m \in S : \E k \in S : k < m PROVE FALSE
    OBVIOUS
  <1>1. PICK n \in S : TRUE
    OBVIOUS
  <1> DEFINE G == {k \in 0 .. n : \A j \in 0 .. k : j \notin S}
  <1>2. 0 \in G
    OBVIOUS
  <1>3. \A k \in 0 .. n - 1 : k \in G => k + 1 \in G
    OBVIOUS
  <1> HIDE DEF G
  <1>4. n \in G
    <2>1. n \in Nat /\ n \in 0 .. n
      OBVIOUS
    <2> QED BY <2>1, <1>2, <1>3, PrefixInduction
  <1> QED BY <1>4 DEF G

-----------------------------------------------------------------------------
(***************************************************************************)
(* Merging: fhe_fold, sload_coalesce and cse redirect the uses of a value to*)
(* the first place with the same key.                                      *)
(***************************************************************************)

\* Of the places with a key there is a first one.
LEMMA FirstOfKey ==
  ASSUME NEW f, IsCode(f), NEW kept \in SUBSET Places(f), NEW key, NEW p \in kept
  PROVE  LET q == FirstWith(kept, key, p) IN
         q \in kept /\ key[q] = key[p] /\ (q # p => Earlier(q, p))
  <1> DEFINE Same == {q \in kept : key[q] = key[p]}
             Bs == {q[1] : q \in Same}
  <1>0. \A q \in Same : q[1] \in Nat /\ q[2] \in Nat /\ q = <<q[1], q[2]>>
    BY PlaceTypes
  <1>1. PICK b \in Bs : \A k \in Bs : b <= k
    <2>1. Bs \in SUBSET Nat /\ Bs # {}
      BY <1>0
    <2> HIDE DEF Bs
    <2> QED BY <2>1, LeastNat
  <1> DEFINE Is == {q[2] : q \in {r \in Same : r[1] = b}}
  <1>2. PICK i \in Is : \A k \in Is : i <= k
    <2>1. Is \in SUBSET Nat /\ Is # {}
      BY <1>0
    <2> HIDE DEF Is
    <2> QED BY <2>1, LeastNat
  <1>3. PICK q \in Same : q[1] = b /\ q[2] = i
    OBVIOUS
  <1>4. ASSUME NEW r \in Same PROVE ~ Earlier(r, q)
    <2>1. r[1] \in Bs /\ b <= r[1]
      BY <1>1
    <2>2. r[1] = b => r[2] \in Is
      OBVIOUS
    <2>3. r[1] = b => i <= r[2]
      BY <1>2, <2>2
    <2> HIDE DEF Is, Bs
    <2> QED BY <1>0, <1>3, <2>1, <2>3 DEF Earlier
  <1> DEFINE first == FirstWith(kept, key, p)
             IsFirst(s) == key[s] = key[p] /\ \A r \in kept : key[r] = key[p] => ~ Earlier(r, s)
  <1>5. \E s \in kept : IsFirst(s)
    BY <1>4
  <1>6. first \in kept /\ IsFirst(first)
    BY <1>5, Zenon DEF FirstWith
  <1>7. first \in Same /\ ~ Earlier(p, first)
    BY <1>6
  <1>8. first # p => Earlier(first, p)
    <2> HIDE DEF first
    <2>1. p \in Same
      OBVIOUS
    <2> QED BY <1>0, <1>7, <2>1 DEF Earlier
  <1> QED BY <1>6, <1>8

\* Merging: what gives way is a result, and what it gives way to is the result
\* of an earlier place with the same key.
LEMMA MergesToEarlier ==
  ASSUME NEW f, IsCode(f), NEW kept \in SUBSET Places(f), NEW key
  PROVE  LET map == SameAsEarlier(f, kept, key) IN
         /\ map = [v \in DOMAIN map |-> map[v]]
         /\ \A v \in DOMAIN map :
              \E p, q \in kept : /\ InstrAt(f, p).res = v /\ InstrAt(f, q).res = map[v]
                                 /\ key[p] = key[q] /\ Earlier(q, p)
  <1> DEFINE first == [p \in kept |-> FirstWith(kept, key, p)]
             again == {p \in kept : first[p] # p}
             From(v) == CHOOSE p \in again : InstrAt(f, p).res = v
             map == SameAsEarlier(f, kept, key)
  <1>1. map = [v \in {InstrAt(f, p).res : p \in again} |-> InstrAt(f, first[From(v)]).res]
    BY Zenon DEF SameAsEarlier
  <1> HIDE DEF map
  <1>2. ASSUME NEW v \in DOMAIN map
        PROVE  \E p, q \in kept : /\ InstrAt(f, p).res = v /\ InstrAt(f, q).res = map[v]
                                  /\ key[p] = key[q] /\ Earlier(q, p)
    <2>1. \E p \in again : InstrAt(f, p).res = v
      BY <1>1
    <2> DEFINE p == From(v)
               q == first[p]
    <2>2. p \in again /\ InstrAt(f, p).res = v
      BY <2>1
    <2>3. map[v] = InstrAt(f, q).res
      BY <1>1
    <2>4. p \in kept /\ q = FirstWith(kept, key, p) /\ q # p
      BY <2>2
    <2> HIDE DEF p, q
    <2>5. q \in kept /\ key[q] = key[p] /\ Earlier(q, p)
      BY <2>4, FirstOfKey
    <2> QED BY <2>2, <2>3, <2>4, <2>5
  <1>3. map = [v \in DOMAIN map |-> map[v]]
    BY <1>1
  <1> QED BY <1>2, <1>3 DEF map

\* A merge is sound when the first place is on every way to the others.
EarlierOnTheWay(f, p, q) ==
  \/ q[1] = p[1] /\ q[2] < p[2]
  \/ q[1] # p[1] /\ p[1] \in Dominated(f, q[1])

\* Where the later of two such places could be read, the earlier one can.
LEMMA EarlierIsAvailable ==
  ASSUME NEW f, IsCode(f), NEW p \in Places(f), NEW q \in Places(f), EarlierOnTheWay(f, p, q),
         NEW b \in reachable_blocks(f), NEW i \in Nat, Before(f, p, b, i)
  PROVE  Before(f, q, b, i)
  <1>0. p[1] \in Nat /\ p[2] \in Nat /\ q[1] \in Nat /\ q[2] \in Nat /\ IsFiniteSet(DOMAIN f.blocks)
    BY PlaceTypes DEF IsCode
  <1>1. CASE p[1] = b /\ p[2] < i
    BY <1>0, <1>1 DEF Before, EarlierOnTheWay
  <1>2. CASE p[1] # b /\ b \in Dominated(f, p[1])
    <2>1. CASE q[1] = p[1]
      BY <1>2, <2>1 DEF Before
    <2>2. CASE q[1] # p[1] /\ p[1] \in Dominated(f, q[1])
      <3>1. b \in Dominated(f, q[1])
        BY <1>0, <1>2, <2>2, DominanceTransitive
      <3>2. q[1] # b
        BY <1>0, <1>2, <2>2, DominanceAntisymmetric
      <3> QED BY <3>1, <3>2 DEF Before
    <2> QED BY <2>1, <2>2 DEF EarlierOnTheWay
  <1> QED BY <1>1, <1>2 DEF Before

\* Merging leaves code that differs in its operands only,
LEMMA MergingKeepsCode ==
  ASSUME NEW f, IsCode(f), NEW kept \in SUBSET Places(f), NEW key,
         \A p \in kept : InstrAt(f, p).res # 0
  PROVE  LET map == SameAsEarlier(f, kept, key)
             h == Rewritten(f, map) IN
         RewritesTo(f, map, h) /\ SameShape(f, h) /\ IsCode(h) /\ h.consts = f.consts
  <1> DEFINE map == SameAsEarlier(f, kept, key)
             h == Rewritten(f, map)
  <1>1. \A v \in DOMAIN map :
          \E p, q \in kept : /\ InstrAt(f, p).res = v /\ InstrAt(f, q).res = map[v]
                             /\ key[p] = key[q] /\ Earlier(q, p)
    BY MergesToEarlier
  <1> HIDE DEF map
  <1>2. 0 \notin DOMAIN map /\ \A v \in DOMAIN map : map[v] \in DOMAIN f.types
    <2>1. \A q \in kept : InstrAt(f, q).res \in DOMAIN f.types
      BY PlaceTypes
    <2> QED BY <1>1, <2>1
  <1>3. RewritesTo(f, map, h) /\ IsCode(h) /\ h.consts = f.consts
    BY <1>2, RewrittenIs
  <1> HIDE DEF h
  <1>4. SameShape(f, h)
    BY <1>3 DEF RewritesTo
  <1> QED BY <1>3, <1>4 DEF h, map

\* in which every use still comes after what it uses.
LEMMA MergingKeepsDominance ==
  ASSUME NEW f, IsCode(f), DefinedOnce(f), DefsDominateUses(f),
         NEW kept \in SUBSET Places(f), NEW key,
         \A p \in kept : InstrAt(f, p).res # 0,
         \A p, q \in kept : key[p] = key[q] /\ Earlier(q, p) /\ p[1] \in reachable_blocks(f)
                            => EarlierOnTheWay(f, p, q)
  PROVE  DefsDominateUses(Rewritten(f, SameAsEarlier(f, kept, key)))
  <1> DEFINE map == SameAsEarlier(f, kept, key)
             h == Rewritten(f, map)
  <1>0. IsFiniteSet(DOMAIN f.blocks)
    BY DEF IsCode
  <1>1. \A v \in DOMAIN map :
          \E p, q \in kept : /\ InstrAt(f, p).res = v /\ InstrAt(f, q).res = map[v]
                             /\ key[p] = key[q] /\ Earlier(q, p)
    BY MergesToEarlier
  <1>2. RewritesTo(f, map, h) /\ SameShape(f, h) /\ IsCode(h) /\ h.consts = f.consts
    BY MergingKeepsCode
  <1> HIDE DEF h, map
  <1>3. ASSUME NEW v \in DOMAIN map, NEW b \in reachable_blocks(f) \cap DOMAIN f.blocks,
               NEW i \in Nat, Available(f, v, b, i)
        PROVE  Available(h, map[v], b, i)
    <2>1. PICK p \in kept, q \in kept : /\ InstrAt(f, p).res = v /\ InstrAt(f, q).res = map[v]
                                        /\ key[p] = key[q] /\ Earlier(q, p)
      BY <1>1
    <2>2. InstrAt(f, p).res # 0 /\ p \in Places(f) /\ q \in Places(f)
      OBVIOUS
    <2>3. Before(f, p, b, i)
      <3>1. v \notin Everywhere(f) /\ v \notin AllParams(f)
            /\ \A r \in Places(f) : InstrAt(f, r).res = v => r = p
        BY <2>1, <2>2 DEF DefinedOnce, AllParams
      <3>2. ~ Param(f, v, b)
        BY <3>1 DEF Param, AllParams
      <3> QED BY <1>3, <3>1, <3>2 DEF Available
    <2>4. p[1] \in reachable_blocks(f)
      BY <1>0, <2>3, DominatorReachable DEF Before
    <2>5. EarlierOnTheWay(f, p, q)
      BY <2>1, <2>4
    <2>6. Before(f, q, b, i)
      BY <2>2, <2>3, <2>5, EarlierIsAvailable
    <2>7. Available(f, map[v], b, i)
      BY <2>1, <2>2, <2>6 DEF Available
    <2> QED BY <1>2, <2>7, ShapeAvailable
  <1>4. DefsDominateUses(h)
    BY <1>2, <1>3, RenamingKeepsDominance
  <1> QED BY <1>4 DEF h, map

\* cse merges within a block, where the first is before the others.
LEMMA CseKeepsCode ==
  ASSUME NEW f, IsCode(f)
  PROVE  /\ IsCode(cse(f).f) /\ SameShape(f, cse(f).f) /\ cse(f).f.consts = f.consts
         /\ DefinedOnce(f) /\ DefsDominateUses(f) => DefsDominateUses(cse(f).f)
  <1> DEFINE kept == Eligible(f)
             key == Fingerprint(f)
  <1>1. kept \in SUBSET Places(f) /\ \A p \in kept : InstrAt(f, p).res # 0
    BY DEF Eligible
  <1>2. \A p \in kept : key[p] = <<p[1], InstrAt(f, p).op, InstrAt(f, p).imm, InstrAt(f, p).args>>
    BY DEF Fingerprint
  <1>3. cse(f).f = Rewritten(f, SameAsEarlier(f, kept, key))
    BY DEF cse, Rewritten
  <1> HIDE DEF kept, key
  <1>4. ASSUME NEW p \in kept, NEW q \in kept, key[p] = key[q], Earlier(q, p)
        PROVE  EarlierOnTheWay(f, p, q)
    <2>1. p[1] = q[1]
      BY <1>2, <1>4
    <2>2. p[1] \in Nat /\ p[2] \in Nat /\ q[2] \in Nat
      BY <1>1, PlaceTypes
    <2> QED BY <1>4, <2>1, <2>2 DEF Earlier, EarlierOnTheWay
  <1>5. IsCode(cse(f).f) /\ SameShape(f, cse(f).f) /\ cse(f).f.consts = f.consts
    BY <1>1, <1>3, MergingKeepsCode
  <1>6. DefinedOnce(f) /\ DefsDominateUses(f) => DefsDominateUses(cse(f).f)
    BY <1>1, <1>3, <1>4, MergingKeepsDominance
  <1> QED BY <1>5, <1>6

\* sload_coalesce merges within a block, like cse.
LEMMA SloadCoalesceKeepsCode ==
  ASSUME NEW f, IsCode(f)
  PROVE  /\ IsCode(sload_coalesce(f).f) /\ SameShape(f, sload_coalesce(f).f)
         /\ sload_coalesce(f).f.consts = f.consts
         /\ DefinedOnce(f) /\ DefsDominateUses(f) => DefsDominateUses(sload_coalesce(f).f)
  <1> DEFINE kept == Loads(f)
             key == LoadKey(f)
  <1>1. kept \in SUBSET Places(f) /\ \A p \in kept : InstrAt(f, p).res # 0
    BY DEF Loads
  <1>2. \A p, q \in kept : key[p] = key[q] => p[1] = q[1]
    BY DEF LoadKey
  <1>3. sload_coalesce(f).f = Rewritten(f, SameAsEarlier(f, kept, key))
    BY DEF sload_coalesce, Rewritten
  <1> HIDE DEF kept, key
  <1>4. ASSUME NEW p \in kept, NEW q \in kept, key[p] = key[q], Earlier(q, p)
        PROVE  EarlierOnTheWay(f, p, q)
    <2>1. p[1] = q[1]
      BY <1>2, <1>4
    <2>2. p[1] \in Nat /\ p[2] \in Nat /\ q[2] \in Nat
      BY <1>1, PlaceTypes
    <2> QED BY <1>4, <2>1, <2>2 DEF Earlier, EarlierOnTheWay
  <1>5. IsCode(sload_coalesce(f).f) /\ SameShape(f, sload_coalesce(f).f)
        /\ sload_coalesce(f).f.consts = f.consts
    BY <1>1, <1>3, MergingKeepsCode
  <1>6. DefinedOnce(f) /\ DefsDominateUses(f) => DefsDominateUses(sload_coalesce(f).f)
    BY <1>1, <1>3, <1>4, MergingKeepsDominance
  <1> QED BY <1>5, <1>6

\* fhe_fold keeps dominance on a condition of its own.
LEMMA FheFoldKeepsCode ==
  ASSUME NEW f, IsCode(f)
  PROVE  /\ IsCode(fhe_fold(f).f) /\ SameShape(f, fhe_fold(f).f) /\ fhe_fold(f).f.consts = f.consts
         /\ DefinedOnce(f) /\ DefsDominateUses(f) /\ EncryptedAlongPaths(f)
              => DefsDominateUses(fhe_fold(f).f)
  <1> DEFINE kept == Encryptions(f)
             key == EncryptionKey(f)
  <1>1. kept \in SUBSET Places(f) /\ \A p \in kept : InstrAt(f, p).res # 0
    BY DEF Encryptions
  <1>2. fhe_fold(f).f = Rewritten(f, SameAsEarlier(f, kept, key))
    BY DEF fhe_fold, Rewritten
  <1>3. EncryptedAlongPaths(f) =>
          \A p, q \in kept : key[p] = key[q] /\ q[1] < p[1] /\ p[1] \in reachable_blocks(f)
                             => p[1] \in Dominated(f, q[1])
    <2>1. \A p \in kept : /\ p \in Places(f) /\ InstrAt(f, p).op = "FheEncryptTrivial"
                          /\ key[p] = <<f.consts[InstrAt(f, p).args[1]], InstrAt(f, p).lift,
                                        f.types[InstrAt(f, p).res]>>
      BY DEF Encryptions, EncryptionKey
    <2> HIDE DEF kept, key
    <2>2. \A p, q \in kept : key[p] = key[q] => InstrAt(f, p).lift = InstrAt(f, q).lift
      BY <2>1
    <2> QED BY <2>1, <2>2 DEF EncryptedAlongPaths
  <1> HIDE DEF kept, key
  <1>4. ASSUME EncryptedAlongPaths(f),
               NEW p \in kept, NEW q \in kept, key[p] = key[q], Earlier(q, p),
               p[1] \in reachable_blocks(f)
        PROVE  EarlierOnTheWay(f, p, q)
    <2>1. p[1] \in Nat /\ p[2] \in Nat /\ q[1] \in Nat /\ q[2] \in Nat
      BY <1>1, PlaceTypes
    <2>2. CASE q[1] = p[1]
      BY <1>4, <2>1, <2>2 DEF Earlier, EarlierOnTheWay
    <2>3. CASE q[1] # p[1]
      <3>1. q[1] < p[1]
        BY <1>4, <2>1, <2>3 DEF Earlier
      <3> QED BY <1>3, <1>4, <2>3, <3>1 DEF EarlierOnTheWay
    <2> QED BY <2>2, <2>3
  <1>5. IsCode(fhe_fold(f).f) /\ SameShape(f, fhe_fold(f).f) /\ fhe_fold(f).f.consts = f.consts
    BY <1>1, <1>2, MergingKeepsCode
  <1>6. DefinedOnce(f) /\ DefsDominateUses(f) /\ EncryptedAlongPaths(f)
          => DefsDominateUses(fhe_fold(f).f)
    BY <1>1, <1>2, <1>4, MergingKeepsDominance
  <1> QED BY <1>5, <1>6

-----------------------------------------------------------------------------
(***************************************************************************)
(* What the validator asks for: it looks blocks up by position.            *)
(***************************************************************************)

\* With the blocks numbered from 1 the n-th is block n.
LEMMA BlocksInOrder ==
  ASSUME NEW f, IsCode(f), ReachableFirst(f)
  PROVE  LET N == Cardinality(DOMAIN f.blocks) IN
         /\ N \in Nat /\ DOMAIN f.blocks = 1 .. N
         /\ \A k \in DOMAIN f.blocks : NthBlock(f, k) = k
  <1> DEFINE N == Cardinality(DOMAIN f.blocks)
  <1>1. N \in Nat /\ DOMAIN f.blocks = 1 .. N
    BY FS_CardinalityType DEF IsCode, ReachableFirst
  <1> HIDE DEF N
  <1>2. \A k \in 1 .. N : Nth(1 .. N, k) = k
    BY <1>1, NthOfPrefix
  <1>3. \A k \in DOMAIN f.blocks : NthBlock(f, k) = k
    BY <1>1, <1>2 DEF NthBlock
  <1> QED BY <1>1, <1>3 DEF N

\* The validator accepts code of the same shape.
LEMMA ShapeValid ==
  ASSUME NEW f, IsCode(f), NEW g, SameShape(f, g), Valid(f)
  PROVE  Valid(g)
  <1>1. ReachableFirst(f) /\ validate_function(f) /\ ReachableFirst(g)
    BY ShapeReachableFirst DEF Valid
  <1>2. \A k \in DOMAIN f.blocks : NthBlock(f, k) \in DOMAIN f.blocks
    BY <1>1, BlocksInOrder
  <1>3. DOMAIN g.blocks = DOMAIN f.blocks /\ \A b \in DOMAIN f.blocks : SameBlock(f.blocks[b], g.blocks[b])
    BY DEF SameShape
  <1>4. ASSUME NEW b \in DOMAIN g.blocks
        PROVE  LET term == g.blocks[b].term IN
               /\ \A i \in DOMAIN g.blocks[b].instrs :
                    LET ins == g.blocks[b].instrs[i] IN Len(ins.args) \in Arity(ins.op)
               /\ term.t \in {"Jump", "Branch"} => validate_target(g, term.to, term.args)
               /\ term.t = "Branch" => validate_target(g, term.else, term.eargs)
    <2> DEFINE s == f.blocks[b].term
               t == g.blocks[b].term
    <2>1. /\ \A i \in DOMAIN f.blocks[b].instrs :
               Len(f.blocks[b].instrs[i].args) \in Arity(f.blocks[b].instrs[i].op)
          /\ s.t \in {"Jump", "Branch"} => validate_target(f, s.to, s.args)
          /\ s.t = "Branch" => validate_target(f, s.else, s.eargs)
      BY <1>1, <1>3 DEF validate_function
    <2>2. SameBlock(f.blocks[b], g.blocks[b])
      BY <1>3
    <2>3. SameTerm(s, t)
      BY <2>2 DEF SameBlock
    <2>4. \A i \in DOMAIN g.blocks[b].instrs :
            Len(g.blocks[b].instrs[i].args) \in Arity(g.blocks[b].instrs[i].op)
      BY <2>1, <2>2 DEF SameBlock, SameInstr
    <2> HIDE DEF s, t
    <2>5. \A to, args, margs : validate_target(f, to, args) /\ Len(margs) = Len(args)
                               => validate_target(g, to, margs)
      <3> SUFFICES ASSUME NEW to, NEW args, NEW margs, validate_target(f, to, args), Len(margs) = Len(args)
                   PROVE  validate_target(g, to, margs)
        OBVIOUS
      <3>1. to \in DOMAIN f.blocks
        BY DEF validate_target
      <3> QED BY <1>2, <3>1, ShapeTarget
    <2>6. t.t \in {"Jump", "Branch"} => validate_target(g, t.to, t.args)
      BY <2>1, <2>3, <2>5 DEF SameTerm
    <2>7. t.t = "Branch" => validate_target(g, t.else, t.eargs)
      BY <2>1, <2>3, <2>5 DEF SameTerm
    <2> QED BY <2>4, <2>6, <2>7 DEF t
  <1>5. Entry \in DOMAIN g.blocks
    BY <1>1, <1>3 DEF validate_function
  <1>6. validate_function(g)
    BY <1>4, <1>5 DEF validate_function
  <1> QED BY <1>1, <1>6 DEF Valid

-----------------------------------------------------------------------------
(***************************************************************************)
(* constant_fold: it numbers its results after every value there is.       *)
(***************************************************************************)

\* What it makes of the folded places of a function.
Turn(f, p) == Cardinality({q \in Folds(f) : q = p \/ Earlier(q, p)})
Fresh(f) == [p \in Folds(f) |-> fresh_const(f, Turn(f, p))]
FreshSet(f) == {Fresh(f)[p] : p \in Folds(f)}
FoldOf(f, v) == InstrAt(f, CHOOSE p \in Folds(f) : Fresh(f)[p] = v)
Grown(f) ==
  [f EXCEPT !.consts = Over([v \in FreshSet(f) |-> try_fold(f, FoldOf(f, v))], @),
            !.types  = Over([v \in FreshSet(f) |-> f.types[FoldOf(f, v).res]], @)]
FoldMap(f) ==
  [r \in {InstrAt(f, p).res : p \in Folds(f)} |->
     Fresh(f)[CHOOSE p \in Folds(f) : InstrAt(f, p).res = r]]

\* constant_fold is the rewriting by that map of the code with the constants added.
LEMMA FoldIs ==
  ASSUME NEW f PROVE constant_fold(f) = apply_replacements(Grown(f), FoldMap(f))
  BY Zenon DEF constant_fold, Grown, FoldMap, FoldOf, FreshSet, Fresh, Turn

\* A folded result's number is no value's yet.
LEMMA FreshIsNew ==
  ASSUME NEW f, IsCode(f), NEW p \in Folds(f)
  PROVE  Fresh(f)[p] \in Nat \ {0} /\ Fresh(f)[p] \notin DOMAIN f.types
  <1>1. p \in Places(f) /\ InstrAt(f, p).res # 0
    BY DEF Folds
  <1>2. DOMAIN f.types # {} /\ DOMAIN f.types \in SUBSET Nat /\ IsFiniteSet(DOMAIN f.types)
    BY <1>1, PlaceTypes DEF IsCode
  <1>3. Max(DOMAIN f.types) \in Nat /\ \A y \in DOMAIN f.types : y \in Nat /\ y <= Max(DOMAIN f.types)
    BY <1>2, MaxIsGreatest
  <1>4. Turn(f, p) \in Nat \ {0}
    <2> DEFINE T == {q \in Folds(f) : q = p \/ Earlier(q, p)}
    <2>1. T \subseteq Places(f) /\ p \in T
      BY DEF Folds
    <2>2. IsFiniteSet(T)
      BY <2>1, FinitePlaces, FS_Subset
    <2> HIDE DEF T
    <2>3. Cardinality(T) \in Nat /\ Cardinality(T) # 0
      BY <2>1, <2>2, FS_CardinalityType, FS_EmptySet
    <2> QED BY <2>3 DEF T, Turn
  <1>5. Fresh(f)[p] = Max(DOMAIN f.types) + Turn(f, p)
    BY DEF Fresh, fresh_const
  <1> QED BY <1>3, <1>4, <1>5

\* The code with the constants added is code.
LEMMA GrownIs ==
  ASSUME NEW f, IsCode(f)
  PROVE  /\ IsCode(Grown(f))
         /\ Grown(f).blocks = f.blocks /\ Grown(f).params = f.params
         /\ DOMAIN Grown(f).consts = FreshSet(f) \cup DOMAIN f.consts
         /\ DOMAIN Grown(f).types = FreshSet(f) \cup DOMAIN f.types
  <1> DEFINE g == Grown(f)
             c == Over([v \in FreshSet(f) |-> try_fold(f, FoldOf(f, v))], f.consts)
             t == Over([v \in FreshSet(f) |-> f.types[FoldOf(f, v).res]], f.types)
             f1 == [f EXCEPT !.consts = c]
  <1>1. f = [params |-> f.params, blocks |-> f.blocks, consts |-> f.consts, types |-> f.types]
    BY DEF IsCode
  <1>2. DOMAIN c = FreshSet(f) \cup DOMAIN f.consts /\ DOMAIN t = FreshSet(f) \cup DOMAIN f.types
    BY DEF Over
  <1>3. g = [f1 EXCEPT !.types = t]
    BY DEF Grown
  <1> HIDE DEF g, c, t
  <1>4. f1 = [params |-> f.params, blocks |-> f.blocks, consts |-> c, types |-> f.types]
    BY <1>1
  <1> HIDE DEF f1
  <1>5. g = [params |-> f.params, blocks |-> f.blocks, consts |-> c, types |-> t]
    BY <1>3, <1>4
  <1>6. g.params = f.params /\ g.blocks = f.blocks /\ g.consts = c /\ g.types = t
    BY <1>5
  <1>7. IsFiniteSet(FreshSet(f)) /\ FreshSet(f) \subseteq Nat \ {0}
    <2>1. IsFiniteSet(Folds(f))
      BY FinitePlaces, FS_Subset DEF Folds
    <2>2. DOMAIN Fresh(f) = Folds(f)
      BY DEF Fresh
    <2>3. IsFiniteSet(FreshSet(f))
      BY <2>1, <2>2, FiniteImage DEF FreshSet
    <2>4. FreshSet(f) \subseteq Nat \ {0}
      BY FreshIsNew DEF FreshSet
    <2> QED BY <2>3, <2>4
  <1>8. Places(g) = Places(f) /\ \A p : InstrAt(g, p) = InstrAt(f, p)
    BY <1>6 DEF Places, InstrAt
  <1>9. IsCode(g)
    <2>1. g = [params |-> g.params, blocks |-> g.blocks, consts |-> g.consts, types |-> g.types]
      BY <1>5
    <2>2. /\ f.blocks \in [DOMAIN f.blocks -> Blocks]
          /\ DOMAIN f.blocks \subseteq Nat /\ IsFiniteSet(DOMAIN f.blocks)
          /\ DOMAIN f.types \subseteq Nat \ {0} /\ IsFiniteSet(DOMAIN f.types)
          /\ DOMAIN f.consts \subseteq DOMAIN f.types
          /\ \A p \in Places(f) : InstrAt(f, p).res \in DOMAIN f.types \cup {0}
      BY DEF IsCode
    <2>3. IsFiniteSet(DOMAIN g.types) /\ DOMAIN g.types \subseteq Nat \ {0}
      <3>1. DOMAIN g.types = FreshSet(f) \cup DOMAIN f.types
        BY <1>2, <1>6
      <3>2. IsFiniteSet(FreshSet(f) \cup DOMAIN f.types)
        BY <1>7, <2>2, FS_Union
      <3> QED BY <1>7, <2>2, <3>1, <3>2
    <2>4. DOMAIN g.consts \subseteq DOMAIN g.types
      BY <1>2, <1>6, <2>2
    <2>5. \A p \in Places(g) : InstrAt(g, p).res \in DOMAIN g.types \cup {0}
      BY <1>2, <1>6, <1>8, <2>2
    <2>6. Uses(g) \subseteq DOMAIN g.types
      BY <1>2, <1>6 DEF Uses, IsCode
    <2> QED BY <1>6, <2>1, <2>2, <2>3, <2>4, <2>5, <2>6 DEF IsCode
  <1> QED BY <1>2, <1>6, <1>9 DEF g

\* Every replacement of constant_fold is by a fresh constant.
LEMMA FoldMapIs ==
  ASSUME NEW f, IsCode(f), NEW v \in DOMAIN FoldMap(f)
  PROVE  v # 0 /\ FoldMap(f)[v] \in FreshSet(f)
  <1>1. v \in {InstrAt(f, p).res : p \in Folds(f)}
    BY DEF FoldMap
  <1>2. \E p \in Folds(f) : InstrAt(f, p).res = v
    BY <1>1
  <1> DEFINE p == CHOOSE p \in Folds(f) : InstrAt(f, p).res = v
  <1>3. p \in Folds(f) /\ InstrAt(f, p).res = v
    BY <1>2
  <1>4. FoldMap(f)[v] = Fresh(f)[p]
    BY <1>1 DEF FoldMap
  <1> HIDE DEF p
  <1> QED BY <1>3, <1>4 DEF FreshSet, Folds

\* constant_fold leaves code of the same shape in which values come before their uses.
LEMMA ConstantFoldKeepsCode ==
  ASSUME NEW f, IsCode(f)
  PROVE  LET h == constant_fold(f).f IN
         /\ IsCode(h) /\ SameShape(f, h)
         /\ DOMAIN h.consts \cap DOMAIN f.types \subseteq DOMAIN f.consts
         /\ DefsDominateUses(f) => DefsDominateUses(h)
  <1> DEFINE g == Grown(f)
             map == FoldMap(f)
             h == Rewritten(g, map)
  <1>1. /\ IsCode(g) /\ g.blocks = f.blocks /\ g.params = f.params
        /\ DOMAIN g.consts = FreshSet(f) \cup DOMAIN f.consts
        /\ FreshSet(f) \subseteq DOMAIN g.types
    BY GrownIs
  <1>2. \A v \in DOMAIN map : v # 0 /\ map[v] \in FreshSet(f)
    BY FoldMapIs
  <1>3. FreshSet(f) \subseteq Nat \ {0} /\ FreshSet(f) \cap DOMAIN f.types = {}
    BY FreshIsNew DEF FreshSet
  <1>4. constant_fold(f).f = h
    BY FoldIs DEF Rewritten
  <1> HIDE DEF g, map
  <1>5. 0 \notin DOMAIN map /\ \A v \in DOMAIN map : map[v] \in DOMAIN g.types
    BY <1>1, <1>2
  <1>6. RewritesTo(g, map, h) /\ IsCode(h) /\ h.consts = g.consts
    BY <1>1, <1>5, RewrittenIs
  <1> HIDE DEF h
  <1>7. RewritesTo(f, map, h) /\ SameShape(f, h)
    BY <1>1, <1>6 DEF RewritesTo, SameShape
  <1>8. DOMAIN h.consts \cap DOMAIN f.types \subseteq DOMAIN f.consts
    BY <1>1, <1>3, <1>6
  <1>9. ASSUME DefsDominateUses(f) PROVE DefsDominateUses(h)
    <2>1. \A v \in DOMAIN map : map[v] \in DOMAIN h.consts
      BY <1>1, <1>2, <1>6
    <2>2. \A v \in DOMAIN map : \A b \in reachable_blocks(f) \cap DOMAIN f.blocks : \A i \in Nat :
            Available(f, v, b, i) => Available(h, map[v], b, i)
      BY <2>1 DEF Available, Everywhere
    <2>3. DOMAIN f.consts \subseteq DOMAIN h.consts
      BY <1>1, <1>6
    <2> QED BY <1>6, <1>7, <1>9, <2>2, <2>3, RenamingKeepsDominance
  <1> QED BY <1>4, <1>6, <1>7, <1>8, <1>9

-----------------------------------------------------------------------------
(***************************************************************************)
(* dce, in two steps.                                                      *)
(***************************************************************************)

\* The unreachable blocks go,
Pruned(f) == [f EXCEPT !.blocks = [b \in reachable_blocks(f) \cap DOMAIN @ |-> @[b]]]
\* and then the instructions nothing needs.
Stays(g, b, i) == \/ must_keep(g, b, i)
                  \/ g.blocks[b].instrs[i].res \in compute_live_set(g) \cup {0}
Kept(g, b) == {i \in DOMAIN g.blocks[b].instrs : Stays(g, b, i)}
Left(g, b) == [n \in 1 .. Cardinality(Kept(g, b)) |-> g.blocks[b].instrs[Nth(Kept(g, b), n)]]
Swept(g) == [g EXCEPT !.blocks = [b \in DOMAIN @ |-> [@[b] EXCEPT !.instrs = Left(g, b)]]]

\* dce is these two steps (dce.rs:29).
LEMMA DceIs ==
  ASSUME NEW f PROVE dce(f).f = Swept(Pruned(f))
  BY Zenon DEF dce, Pass, Swept, Pruned, Left, Kept, Stays

\* The pruned code is the code of the reachable blocks, which reach what they reached.
LEMMA PrunedIs ==
  ASSUME NEW f, IsCode(f)
  PROVE  LET g == Pruned(f) IN
         /\ IsCode(g)
         /\ g.params = f.params /\ g.consts = f.consts /\ g.types = f.types
         /\ DOMAIN g.blocks = reachable_blocks(f) \cap DOMAIN f.blocks
         /\ \A b \in DOMAIN g.blocks : g.blocks[b] = f.blocks[b]
         /\ \A p : p \in Places(g) <=> p \in Places(f) /\ p[1] \in reachable_blocks(f)
         /\ \A p \in Places(g) : InstrAt(g, p) = InstrAt(f, p)
         /\ \A avoid : Reach(g, avoid) = Reach(f, avoid)
  <1> DEFINE g == Pruned(f)
             bs == [b \in reachable_blocks(f) \cap DOMAIN f.blocks |-> f.blocks[b]]
  <1>1. f = [params |-> f.params, blocks |-> f.blocks, consts |-> f.consts, types |-> f.types]
    BY DEF IsCode
  <1>2. g = [f EXCEPT !.blocks = bs]
    BY DEF Pruned
  <1> HIDE DEF g
  <1>3. g = [params |-> f.params, blocks |-> bs, consts |-> f.consts, types |-> f.types]
    <2> HIDE DEF bs
    <2> QED BY <1>1, <1>2
  <1>4. /\ g.params = f.params /\ g.consts = f.consts /\ g.types = f.types /\ g.blocks = bs
    BY <1>3
  <1>5. /\ DOMAIN g.blocks = reachable_blocks(f) \cap DOMAIN f.blocks
        /\ \A b \in DOMAIN g.blocks : g.blocks[b] = f.blocks[b]
    BY <1>4
  <1>6. ASSUME NEW p
        PROVE  p \in Places(g) <=> p \in Places(f) /\ p[1] \in reachable_blocks(f)
    <2>1. ASSUME p \in Places(g) PROVE p \in Places(f) /\ p[1] \in reachable_blocks(f)
      <3>1. PICK b \in DOMAIN g.blocks : p \in {b} \X DOMAIN g.blocks[b].instrs
        BY <2>1 DEF Places
      <3>2. b \in DOMAIN f.blocks /\ p \in {b} \X DOMAIN f.blocks[b].instrs /\ p[1] = b
        BY <1>5, <3>1
      <3> QED BY <1>5, <3>1, <3>2 DEF Places
    <2>2. ASSUME p \in Places(f), p[1] \in reachable_blocks(f) PROVE p \in Places(g)
      <3>1. PICK b \in DOMAIN f.blocks : p \in {b} \X DOMAIN f.blocks[b].instrs
        BY <2>2 DEF Places
      <3>2. p[1] = b
        BY <3>1
      <3>3. b \in DOMAIN g.blocks /\ g.blocks[b] = f.blocks[b]
        BY <1>5, <2>2, <3>2
      <3> QED BY <3>1, <3>3 DEF Places
    <2> QED BY <2>1, <2>2
  <1>7. ASSUME NEW p \in Places(g) PROVE InstrAt(g, p) = InstrAt(f, p)
    <2>1. p[1] \in DOMAIN f.blocks /\ p[1] \in reachable_blocks(f)
      BY <1>6, PlaceTypes
    <2> QED BY <1>5, <2>1 DEF InstrAt
  <1>8. IsFiniteSet(DOMAIN f.blocks)
    BY DEF IsCode
  <1>9. \A avoid : Reach(g, avoid) = Reach(f, avoid)
    BY <1>5, <1>8, PrunedReach
  <1>10. IsCode(g)
    <2>1. g = [params |-> g.params, blocks |-> g.blocks, consts |-> g.consts, types |-> g.types]
      BY <1>3
    <2>2. /\ \A b \in DOMAIN f.blocks : f.blocks[b] \in Blocks
          /\ DOMAIN f.blocks \subseteq Nat
          /\ DOMAIN f.types \subseteq Nat \ {0} /\ IsFiniteSet(DOMAIN f.types)
          /\ DOMAIN f.consts \subseteq DOMAIN f.types
          /\ \A p \in Places(f) : InstrAt(f, p).res \in DOMAIN f.types \cup {0}
      BY DEF IsCode
    <2>3. g.blocks \in [DOMAIN g.blocks -> Blocks]
      <3>1. \A b \in DOMAIN bs : bs[b] \in Blocks
        BY <2>2
      <3>2. bs \in [DOMAIN bs -> Blocks]
        BY <3>1
      <3> QED BY <1>4, <3>2
    <2>4. IsFiniteSet(DOMAIN g.blocks)
      BY <1>5, <1>8, FS_Subset
    <2>5. \A p \in Places(g) : InstrAt(g, p).res \in DOMAIN g.types \cup {0}
      BY <1>4, <1>6, <1>7, <2>2
    <2>6. DOMAIN g.blocks \subseteq Nat
      BY <1>5, <2>2
    <2>7. Uses(g) \subseteq DOMAIN g.types
      <3>1. Uses(g) \subseteq Uses(f)
        BY <1>5 DEF Uses
      <3> QED BY <1>4, <3>1 DEF IsCode
    <2> HIDE DEF bs
    <2> QED BY <1>4, <2>1, <2>2, <2>3, <2>4, <2>5, <2>6, <2>7 DEF IsCode
  <1> HIDE DEF bs
  <1> QED BY <1>4, <1>5, <1>6, <1>7, <1>9, <1>10 DEF g

\* What is computed once and before its uses still is.
LEMMA PruningKeepsSSA ==
  ASSUME NEW f, SingleAssignment(f)
  PROVE  /\ SingleAssignment(Pruned(f))
         /\ DefsDominateUses(f) => DefsDominateUses(Pruned(f))
  <1> DEFINE g == Pruned(f)
  <1>0. IsCode(f) /\ VoidHasEffect(f) /\ DefinedOnce(f) /\ IsFiniteSet(DOMAIN f.blocks)
    BY DEF SingleAssignment, IsCode
  <1>1. /\ IsCode(g)
        /\ g.params = f.params /\ g.consts = f.consts /\ g.types = f.types
        /\ DOMAIN g.blocks = reachable_blocks(f) \cap DOMAIN f.blocks
        /\ \A b \in DOMAIN g.blocks : g.blocks[b] = f.blocks[b]
        /\ \A p : p \in Places(g) <=> p \in Places(f) /\ p[1] \in reachable_blocks(f)
        /\ \A p \in Places(g) : InstrAt(g, p) = InstrAt(f, p)
        /\ \A avoid : Reach(g, avoid) = Reach(f, avoid)
    BY <1>0, PrunedIs
  <1> HIDE DEF g
  <1>2. VoidHasEffect(g)
    BY <1>0, <1>1 DEF VoidHasEffect
  <1>3. Everywhere(g) = Everywhere(f) /\ AllParams(g) \subseteq AllParams(f)
    BY <1>1 DEF Everywhere, AllParams
  <1>4. DefinedOnce(g)
    <2>1. ASSUME NEW p \in Places(f), InstrAt(f, p).res # 0
          PROVE  /\ InstrAt(f, p).res \notin Everywhere(f) \cup AllParams(f)
                 /\ \A q \in Places(f) : InstrAt(f, q).res = InstrAt(f, p).res => q = p
      BY <1>0, <2>1 DEF DefinedOnce, AllParams
    <2>2. ASSUME NEW p \in Places(g), InstrAt(g, p).res # 0
          PROVE  /\ InstrAt(g, p).res \notin Everywhere(g) \cup AllParams(g)
                 /\ \A q \in Places(g) : InstrAt(g, q).res = InstrAt(g, p).res => q = p
      BY <1>1, <1>3, <2>1, <2>2
    <2> QED BY <2>2 DEF DefinedOnce, AllParams
  <1>5. reachable_blocks(g) = reachable_blocks(f)
    BY <1>1 DEF reachable_blocks
  <1>6. ASSUME NEW b \in reachable_blocks(f) \cap DOMAIN f.blocks, NEW d
        PROVE  b \in Dominated(g, d) <=> b \in Dominated(f, d)
    BY <1>1, SameDominated
  <1>7. ASSUME NEW b \in reachable_blocks(f) \cap DOMAIN f.blocks, NEW i, NEW v, Available(f, v, b, i)
        PROVE  Available(g, v, b, i)
    <2>1. CASE v \in Everywhere(f)
      BY <1>3, <2>1 DEF Available
    <2>2. CASE Param(f, v, b)
      <3>1. \A d \in DOMAIN f.blocks : b \in Dominated(f, d) => d \in DOMAIN g.blocks
        BY <1>0, <1>1, DominatorReachable
      <3>2. b \in DOMAIN g.blocks
        BY <1>1
      <3>3. Param(g, v, b)
        BY <1>1, <1>6, <2>2, <3>1, <3>2 DEF Param
      <3> QED BY <3>3 DEF Available
    <2>3. ASSUME NEW p \in Places(f), InstrAt(f, p).res = v, Before(f, p, b, i)
          PROVE  Available(g, v, b, i)
      <3>1. p[1] \in reachable_blocks(f)
        BY <1>0, <2>3, DominatorReachable DEF Before
      <3>2. p \in Places(g) /\ InstrAt(g, p).res = v
        BY <1>1, <2>3, <3>1
      <3>3. Before(g, p, b, i)
        BY <1>6, <2>3 DEF Before
      <3> QED BY <3>2, <3>3 DEF Available
    <2> QED BY <1>7, <2>1, <2>2, <2>3 DEF Available
  <1>8. ASSUME DefsDominateUses(f), NEW b \in reachable_blocks(g) \cap DOMAIN g.blocks
        PROVE  UsesAvailable(g, b)
    <2>1. b \in reachable_blocks(f) \cap DOMAIN f.blocks /\ g.blocks[b] = f.blocks[b]
      BY <1>1
    <2>2. UsesAvailable(f, b)
      BY <1>0, <1>8, <2>1, DominancePointwise
    <2> QED BY <1>7, <2>1, <2>2 DEF UsesAvailable, Whole
  <1>9. DefsDominateUses(f) => DefsDominateUses(g)
    BY <1>1, <1>8, DominancePointwise
  <1> QED BY <1>1, <1>2, <1>4, <1>9 DEF SingleAssignment, g

\* What the entry leads to is there, if the targets are.
LEMMA ReachableIsThere ==
  ASSUME NEW f, IsCode(f), validate_function(f)
  PROVE  reachable_blocks(f) \subseteq DOMAIN f.blocks
  <1>1. Entry \in DOMAIN f.blocks
    BY DEF validate_function
  <1>2. \A b \in DOMAIN f.blocks : \A t \in Targets(f.blocks[b].term) : t \in DOMAIN f.blocks
    BY DEF validate_function, validate_target, Targets
  <1>3. IsFiniteSet(DOMAIN f.blocks)
    BY DEF IsCode
  <1>4. Reach(f, {}) \subseteq DOMAIN f.blocks
    BY <1>1, <1>2, <1>3, ReachLeast
  <1> QED BY <1>4 DEF reachable_blocks

\* The validator accepts the pruned code: with the reachable blocks first, the
\* block it looks up by position (validate.rs:122) is still the one a target names.
LEMMA PruningKeepsValid ==
  ASSUME NEW f, IsCode(f), Valid(f) PROVE Valid(Pruned(f))
  <1> DEFINE g == Pruned(f)
             R == reachable_blocks(f)
  <1>0. validate_function(f) /\ ReachableFirst(f) /\ IsFiniteSet(DOMAIN f.blocks)
    BY DEF Valid, IsCode
  <1>1. /\ IsCode(g)
        /\ DOMAIN g.blocks = R \cap DOMAIN f.blocks
        /\ \A b \in DOMAIN g.blocks : g.blocks[b] = f.blocks[b]
        /\ \A avoid : Reach(g, avoid) = Reach(f, avoid)
    BY PrunedIs
  <1>2. R \subseteq DOMAIN f.blocks
    BY <1>0, ReachableIsThere
  <1>3. DOMAIN g.blocks = R /\ reachable_blocks(g) = R
    BY <1>1, <1>2 DEF reachable_blocks
  <1>4. Entry \in R /\ \A b \in R : \A t \in Targets(f.blocks[b].term) : t \in R
    BY <1>0, <1>2, ReachStep DEF reachable_blocks
  <1> HIDE DEF g
  <1>5. ReachableFirst(g)
    BY <1>0, <1>3 DEF ReachableFirst
  <1>6. /\ \A k \in DOMAIN f.blocks : NthBlock(f, k) = k
        /\ \A k \in DOMAIN g.blocks : NthBlock(g, k) = k
        /\ Cardinality(DOMAIN g.blocks) \in Nat
        /\ DOMAIN g.blocks = 1 .. Cardinality(DOMAIN g.blocks)
    BY <1>0, <1>1, <1>5, BlocksInOrder
  <1>7. ASSUME NEW to \in R, NEW args, validate_target(f, to, args)
        PROVE  validate_target(g, to, args)
    <2>1. to \in DOMAIN g.blocks /\ to <= Cardinality(DOMAIN g.blocks)
      BY <1>3, <1>6
    <2>2. NthBlock(g, to) = to /\ NthBlock(f, to) = to /\ g.blocks[to] = f.blocks[to]
      BY <1>1, <1>2, <1>3, <1>6
    <2> QED BY <1>7, <2>1, <2>2 DEF validate_target
  <1>8. ASSUME NEW b \in DOMAIN g.blocks
        PROVE  LET term == g.blocks[b].term IN
               /\ \A i \in DOMAIN g.blocks[b].instrs :
                    LET ins == g.blocks[b].instrs[i] IN Len(ins.args) \in Arity(ins.op)
               /\ term.t \in {"Jump", "Branch"} => validate_target(g, term.to, term.args)
               /\ term.t = "Branch" => validate_target(g, term.else, term.eargs)
    <2> DEFINE s == f.blocks[b].term
    <2>1. b \in DOMAIN f.blocks /\ b \in R /\ g.blocks[b] = f.blocks[b]
      BY <1>1, <1>3
    <2>2. /\ \A i \in DOMAIN f.blocks[b].instrs :
               Len(f.blocks[b].instrs[i].args) \in Arity(f.blocks[b].instrs[i].op)
          /\ s.t \in {"Jump", "Branch"} => validate_target(f, s.to, s.args)
          /\ s.t = "Branch" => validate_target(f, s.else, s.eargs)
      BY <1>0, <2>1 DEF validate_function
    <2>3. s.t \in {"Jump", "Branch"} => s.to \in Targets(s)
      BY DEF Targets
    <2>4. s.t = "Branch" => s.else \in Targets(s)
      BY DEF Targets
    <2>5. \A t \in Targets(s) : t \in R
      BY <1>4, <2>1
    <2> HIDE DEF s
    <2>6. s.t \in {"Jump", "Branch"} => validate_target(g, s.to, s.args)
      BY <1>7, <2>2, <2>3, <2>5
    <2>7. s.t = "Branch" => validate_target(g, s.else, s.eargs)
      BY <1>7, <2>2, <2>4, <2>5
    <2> QED BY <2>1, <2>2, <2>6, <2>7 DEF s
  <1>9. validate_function(g)
    BY <1>3, <1>4, <1>8 DEF validate_function
  <1> QED BY <1>5, <1>9 DEF Valid, g

\* Where what stands at a place of the swept code stood before.
Origin(g, p) == <<p[1], Nth(Kept(g, p[1]), p[2])>>

\* The positions that are kept are positions of the block.
LEMMA KeptPositions ==
  ASSUME NEW g, IsCode(g), NEW b \in DOMAIN g.blocks
  PROVE  /\ Kept(g, b) \in SUBSET Nat /\ IsFiniteSet(Kept(g, b)) /\ Cardinality(Kept(g, b)) \in Nat
         /\ Kept(g, b) \subseteq DOMAIN g.blocks[b].instrs
  <1>1. Kept(g, b) \subseteq DOMAIN g.blocks[b].instrs
    BY DEF Kept
  <1>2. DOMAIN g.blocks[b].instrs = 1 .. Len(g.blocks[b].instrs) /\ Len(g.blocks[b].instrs) \in Nat
    BY BlockTypes
  <1>3. IsFiniteSet(1 .. Len(g.blocks[b].instrs)) /\ 1 .. Len(g.blocks[b].instrs) \subseteq Nat
    <2> DEFINE n == Len(g.blocks[b].instrs)
    <2>1. n \in Nat
      BY <1>2
    <2> HIDE DEF n
    <2>2. IsFiniteSet(1 .. n) /\ 1 .. n \subseteq Nat
      BY <2>1, FS_Interval
    <2> QED BY <2>2 DEF n
  <1>4. IsFiniteSet(Kept(g, b)) /\ Kept(g, b) \subseteq Nat
    BY <1>1, <1>2, <1>3, FS_Subset
  <1> QED BY <1>1, <1>4, FS_CardinalityType

\* The instructions left are the kept ones, in their order.
LEMMA LeftIs ==
  ASSUME NEW g, IsCode(g), NEW b \in DOMAIN g.blocks
  PROVE  /\ Left(g, b) \in Seq(Instrs) /\ Len(Left(g, b)) = Cardinality(Kept(g, b))
         /\ DOMAIN Left(g, b) = 1 .. Cardinality(Kept(g, b))
         /\ \A n \in DOMAIN Left(g, b) : /\ Nth(Kept(g, b), n) \in Kept(g, b)
                                         /\ Left(g, b)[n] = g.blocks[b].instrs[Nth(Kept(g, b), n)]
  <1> DEFINE K == Cardinality(Kept(g, b))
             At(n) == g.blocks[b].instrs[Nth(Kept(g, b), n)]
  <1>1. /\ Kept(g, b) \in SUBSET Nat /\ IsFiniteSet(Kept(g, b)) /\ K \in Nat
        /\ Kept(g, b) \subseteq DOMAIN g.blocks[b].instrs
    BY KeptPositions
  <1>2. \A n \in 1 .. K : Nth(Kept(g, b), n) \in Kept(g, b)
    BY <1>1, NthOf
  <1>3. \A n \in 1 .. K : At(n) \in Instrs
    BY <1>1, <1>2, BlockTypes
  <1>4. Left(g, b) = [n \in 1 .. K |-> At(n)]
    BY DEF Left
  <1> HIDE DEF At, K
  <1>5. Left(g, b) \in Seq(Instrs) /\ Len(Left(g, b)) = K /\ DOMAIN Left(g, b) = 1 .. K
    BY <1>1, <1>3, <1>4
  <1>6. \A n \in 1 .. K : Left(g, b)[n] = At(n)
    BY <1>4
  <1> QED BY <1>2, <1>5, <1>6 DEF At, K

\* A sweep changes nothing but the instructions of the blocks.
LEMMA SweptIs ==
  ASSUME NEW g, IsCode(g)
  PROVE  LET h == Swept(g) IN
         /\ h = [params |-> h.params, blocks |-> h.blocks, consts |-> h.consts, types |-> h.types]
         /\ h.params = g.params /\ h.consts = g.consts /\ h.types = g.types
         /\ DOMAIN h.blocks = DOMAIN g.blocks
         /\ \A b \in DOMAIN g.blocks : /\ h.blocks[b].params = g.blocks[b].params
                                       /\ h.blocks[b].term = g.blocks[b].term
                                       /\ h.blocks[b].instrs = Left(g, b)
         /\ h.blocks \in [DOMAIN h.blocks -> Blocks]
         /\ \A avoid : Reach(h, avoid) = Reach(g, avoid)
  <1> DEFINE h == Swept(g)
             New(b) == [g.blocks[b] EXCEPT !.instrs = Left(g, b)]
             bs == [b \in DOMAIN g.blocks |-> New(b)]
  <1>1. g = [params |-> g.params, blocks |-> g.blocks, consts |-> g.consts, types |-> g.types]
    BY DEF IsCode
  <1>2. h = [g EXCEPT !.blocks = bs]
    BY DEF Swept
  <1>3. ASSUME NEW b \in DOMAIN g.blocks
        PROVE  New(b) = [params |-> g.blocks[b].params, instrs |-> Left(g, b), term |-> g.blocks[b].term]
               /\ New(b) \in Blocks
    <2> DEFINE a == g.blocks[b]
    <2>1. a = [params |-> a.params, instrs |-> a.instrs, term |-> a.term]
          /\ a.params \in Seq(Nat) /\ a.term \in Terms
      BY BlockTypes
    <2>2. Left(g, b) \in Seq(Instrs)
      BY LeftIs
    <2> HIDE DEF a
    <2>3. [a EXCEPT !.instrs = Left(g, b)] = [params |-> a.params, instrs |-> Left(g, b), term |-> a.term]
      BY <2>1
    <2>4. [params |-> a.params, instrs |-> Left(g, b), term |-> a.term] \in Blocks
      BY <2>1, <2>2 DEF Blocks
    <2> QED BY <2>3, <2>4 DEF a
  <1> HIDE DEF h, New
  <1>4. DOMAIN bs = DOMAIN g.blocks /\ (\A b \in DOMAIN g.blocks : bs[b] = New(b))
        /\ bs \in [DOMAIN g.blocks -> Blocks]
    BY <1>3
  <1> HIDE DEF bs
  <1>5. h = [params |-> g.params, blocks |-> bs, consts |-> g.consts, types |-> g.types]
    BY <1>1, <1>2
  <1>6. h = [params |-> h.params, blocks |-> h.blocks, consts |-> h.consts, types |-> h.types]
        /\ h.params = g.params /\ h.consts = g.consts /\ h.types = g.types /\ h.blocks = bs
    BY <1>5
  <1>7. DOMAIN h.blocks = DOMAIN g.blocks
        /\ \A b \in DOMAIN g.blocks : /\ h.blocks[b].params = g.blocks[b].params
                                       /\ h.blocks[b].term = g.blocks[b].term
                                       /\ h.blocks[b].instrs = Left(g, b)
    BY <1>3, <1>4, <1>6
  <1>8. h.blocks \in [DOMAIN h.blocks -> Blocks]
    BY <1>4, <1>6
  <1>9. \A avoid : Reach(h, avoid) = Reach(g, avoid)
    BY <1>7, SameReach
  <1> QED BY <1>6, <1>7, <1>8, <1>9 DEF h

\* What stands at a place stood at a kept place of the same block,
LEMMA SweptPlaces ==
  ASSUME NEW g, IsCode(g)
  PROVE  LET h == Swept(g) IN
         \A p \in Places(h) :
            /\ p = <<p[1], p[2]>> /\ p[1] \in DOMAIN g.blocks
            /\ p[2] \in 1 .. Cardinality(Kept(g, p[1]))
            /\ Origin(g, p) \in Places(g) /\ Origin(g, p)[1] = p[1]
            /\ Origin(g, p)[2] = Nth(Kept(g, p[1]), p[2]) /\ Origin(g, p)[2] \in Kept(g, p[1])
            /\ InstrAt(h, p) = InstrAt(g, Origin(g, p))
  <1> DEFINE h == Swept(g)
  <1>1. /\ DOMAIN h.blocks = DOMAIN g.blocks
        /\ \A b \in DOMAIN g.blocks : h.blocks[b].instrs = Left(g, b)
    BY SweptIs
  <1> HIDE DEF h
  <1>2. ASSUME NEW p \in Places(h)
        PROVE  /\ p = <<p[1], p[2]>> /\ p[1] \in DOMAIN g.blocks
               /\ p[2] \in 1 .. Cardinality(Kept(g, p[1]))
               /\ Origin(g, p) \in Places(g) /\ Origin(g, p)[1] = p[1]
               /\ Origin(g, p)[2] = Nth(Kept(g, p[1]), p[2]) /\ Origin(g, p)[2] \in Kept(g, p[1])
               /\ InstrAt(h, p) = InstrAt(g, Origin(g, p))
    <2>1. PICK b \in DOMAIN g.blocks : p \in {b} \X DOMAIN Left(g, b)
      BY <1>1 DEF Places
    <2>2. p = <<p[1], p[2]>> /\ p[1] = b /\ p[2] \in DOMAIN Left(g, b)
      BY <2>1
    <2> DEFINE i == Nth(Kept(g, b), p[2])
    <2>3. /\ DOMAIN Left(g, b) = 1 .. Cardinality(Kept(g, b))
          /\ i \in Kept(g, b) /\ Left(g, b)[p[2]] = g.blocks[b].instrs[i]
      BY <2>2, LeftIs
    <2>4. i \in DOMAIN g.blocks[b].instrs
      BY <2>3, KeptPositions
    <2>5. Origin(g, p) = <<b, i>>
      BY <2>2 DEF Origin
    <2> HIDE DEF i
    <2>6. Origin(g, p)[1] = b /\ Origin(g, p)[2] = i
      BY <2>5
    <2>7. <<b, i>> \in Places(g) /\ InstrAt(g, <<b, i>>) = g.blocks[b].instrs[i]
      BY <2>4, PlaceIs
    <2>8. InstrAt(h, p) = Left(g, b)[p[2]]
      BY <1>1, <2>2 DEF InstrAt
    <2> QED BY <2>2, <2>3, <2>5, <2>6, <2>7, <2>8 DEF i
  <1> QED BY <1>2 DEF h

\* and what stood at a kept place stands at the place of its rank.
LEMMA SweptKeeps ==
  ASSUME NEW g, IsCode(g), NEW q \in Places(g), q[2] \in Kept(g, q[1])
  PROVE  LET h == Swept(g)
             p == <<q[1], Rank(Kept(g, q[1]), q[2])>> IN
         /\ p \in Places(h) /\ InstrAt(h, p) = InstrAt(g, q)
         /\ p[1] = q[1] /\ p[2] = Rank(Kept(g, q[1]), q[2])
         /\ p[2] \in 1 .. Cardinality(Kept(g, q[1]))
  <1> DEFINE h == Swept(g)
             b == q[1]
             n == Rank(Kept(g, b), q[2])
             p == <<b, n>>
  <1>1. /\ DOMAIN h.blocks = DOMAIN g.blocks
        /\ \A c \in DOMAIN g.blocks : h.blocks[c].instrs = Left(g, c)
    BY SweptIs
  <1>2. b \in DOMAIN g.blocks /\ InstrAt(g, q) = g.blocks[b].instrs[q[2]]
    BY PlaceTypes
  <1>3. n \in 1 .. Cardinality(Kept(g, b)) /\ Nth(Kept(g, b), n) = q[2]
    BY <1>2, KeptPositions, NthRank
  <1> HIDE DEF h, n
  <1>4. n \in DOMAIN Left(g, b) /\ Left(g, b)[n] = g.blocks[b].instrs[q[2]]
    BY <1>2, <1>3, LeftIs
  <1>5. p[1] = b /\ p[2] = n
    OBVIOUS
  <1>6. p \in {b} \X DOMAIN h.blocks[b].instrs
    BY <1>1, <1>2, <1>4
  <1>7. p \in Places(h)
    BY <1>1, <1>2, <1>6 DEF Places
  <1>8. InstrAt(h, p) = InstrAt(g, q)
    BY <1>1, <1>2, <1>4, <1>5 DEF InstrAt
  <1> QED BY <1>3, <1>5, <1>7, <1>8 DEF h, n

\* What is live has live operands.
LEMMA LiveClosed ==
  ASSUME NEW g, IsCode(g)
  PROVE  /\ LiveSeed(g) \subseteq compute_live_set(g)
         /\ \A q \in Places(g) : InstrAt(g, q).res \in compute_live_set(g) =>
              ToSet(InstrAt(g, q).args) \subseteq compute_live_set(g)
  <1> DEFINE next == Feeds(g)
             live == compute_live_set(g)
             results == {InstrAt(g, p).res : p \in Places(g)}
             Defs(v) == {q \in Places(g) : InstrAt(g, q).res = v}
  <1>1. DOMAIN next = results
        /\ \A v \in results : next[v] = UNION {ToSet(InstrAt(g, p).args) : p \in Defs(v)}
    BY DEF Feeds
  <1>2. IsFiniteSet(DOMAIN next)
    <2> DEFINE r == [p \in Places(g) |-> InstrAt(g, p).res]
    <2>1. DOMAIN r = Places(g) /\ results = {r[p] : p \in DOMAIN r}
      OBVIOUS
    <2>2. IsFiniteSet(Places(g))
      BY FinitePlaces
    <2> HIDE DEF r, results, next
    <2> QED BY <1>1, <2>1, <2>2, FiniteImage
  <1>3. live = Reached(next, LiveSeed(g))
    BY DEF compute_live_set
  <1> HIDE DEF next, live
  <1>4. LiveSeed(g) \subseteq live /\ ClosedUnder(next, live)
    BY <1>2, <1>3, ReachedClosed
  <1>5. ASSUME NEW q \in Places(g), InstrAt(g, q).res \in live
        PROVE  ToSet(InstrAt(g, q).args) \subseteq live
    <2> DEFINE v == InstrAt(g, q).res
    <2>1. v \in results /\ q \in Defs(v)
      OBVIOUS
    <2>2. ToSet(InstrAt(g, q).args) \subseteq next[v]
      BY <1>1, <2>1
    <2>3. next[v] \subseteq live
      BY <1>1, <1>4, <1>5, <2>1 DEF ClosedUnder
    <2> QED BY <2>2, <2>3
  <1> QED BY <1>4, <1>5 DEF live

\* What a kept instruction or a terminator reads is kept.
LEMMA ReadIsKept ==
  ASSUME NEW g, IsCode(g), VoidHasEffect(g), NEW b \in DOMAIN g.blocks, NEW v,
         \/ \E i \in Kept(g, b) : v \in ToSet(g.blocks[b].instrs[i].args)
         \/ v \in TermUses(g.blocks[b].term),
         NEW p \in Places(g), InstrAt(g, p).res = v
  PROVE  p[2] \in Kept(g, p[1])
  <1>1. v \in compute_live_set(g) \cup {0}
    <2>1. CASE v \in TermUses(g.blocks[b].term)
      <3>1. v \in LiveSeed(g)
        BY <2>1 DEF LiveSeed
      <3> QED BY <3>1, LiveClosed
    <2>2. ASSUME NEW i \in Kept(g, b), v \in ToSet(g.blocks[b].instrs[i].args)
          PROVE  v \in compute_live_set(g)
      <3>1. i \in DOMAIN g.blocks[b].instrs /\ Stays(g, b, i)
        BY DEF Kept
      <3>2. <<b, i>> \in Places(g) /\ InstrAt(g, <<b, i>>) = g.blocks[b].instrs[i]
        BY <3>1, PlaceIs
      <3>3. CASE must_keep(g, b, i)
        <4>1. v \in LiveSeed(g)
          BY <2>2, <3>1, <3>3 DEF LiveSeed
        <4> QED BY <4>1, LiveClosed
      <3>4. CASE g.blocks[b].instrs[i].res \in compute_live_set(g)
        BY <2>2, <3>2, <3>4, LiveClosed
      <3>5. CASE g.blocks[b].instrs[i].res = 0
        <4>1. effect_of(InstrAt(g, <<b, i>>).op) = "State"
          BY <3>2, <3>5 DEF VoidHasEffect
        <4>2. must_keep(g, b, i)
          BY <3>2, <4>1 DEF must_keep
        <4> QED BY <3>3, <4>2
      <3> QED BY <3>1, <3>3, <3>4, <3>5 DEF Stays
    <2> QED BY <2>1, <2>2
  <1>2. p[1] \in DOMAIN g.blocks /\ p[2] \in DOMAIN g.blocks[p[1]].instrs
        /\ InstrAt(g, p) = g.blocks[p[1]].instrs[p[2]]
    BY PlaceTypes
  <1> QED BY <1>1, <1>2 DEF Kept, Stays

\* The swept code is code,
LEMMA SweepingKeepsCode ==
  ASSUME NEW g, IsCode(g) PROVE IsCode(Swept(g))
  <1> DEFINE h == Swept(g)
  <1>1. /\ h = [params |-> h.params, blocks |-> h.blocks, consts |-> h.consts, types |-> h.types]
        /\ h.consts = g.consts /\ h.types = g.types
        /\ DOMAIN h.blocks = DOMAIN g.blocks
        /\ h.blocks \in [DOMAIN h.blocks -> Blocks]
        /\ \A b \in DOMAIN g.blocks : /\ h.blocks[b].term = g.blocks[b].term
                                      /\ h.blocks[b].instrs = Left(g, b)
    BY SweptIs
  <1>2. \A p \in Places(h) : Origin(g, p) \in Places(g) /\ InstrAt(h, p) = InstrAt(g, Origin(g, p))
    BY SweptPlaces
  <1> HIDE DEF h
  <1>3. \A p \in Places(h) : InstrAt(h, p).res \in DOMAIN h.types \cup {0}
    BY <1>1, <1>2, PlaceTypes
  <1>5. Uses(h) \subseteq DOMAIN h.types
    <2>1. ASSUME NEW b \in DOMAIN g.blocks
          PROVE  TermUses(h.blocks[b].term) \subseteq Uses(g)
      BY <1>1, <2>1, UseMembers
    <2>2. ASSUME NEW b \in DOMAIN g.blocks, NEW n \in DOMAIN h.blocks[b].instrs
          PROVE  ToSet(h.blocks[b].instrs[n].args) \subseteq Uses(g)
      <3>1. n \in DOMAIN Left(g, b) /\ h.blocks[b].instrs[n] = Left(g, b)[n]
        BY <1>1
      <3> DEFINE i == Nth(Kept(g, b), n)
      <3>2. i \in DOMAIN g.blocks[b].instrs /\ h.blocks[b].instrs[n] = g.blocks[b].instrs[i]
        BY <3>1, LeftIs, KeptPositions
      <3> HIDE DEF i
      <3> QED BY <3>2, UseMembers
    <2>3. Uses(h) \subseteq Uses(g)
      BY <1>1, <2>1, <2>2, UseMembers
    <2> QED BY <1>1, <2>3 DEF IsCode
  <1>4. IsCode(h)
    BY <1>1, <1>3, <1>5 DEF IsCode
  <1> QED BY <1>4 DEF h

\* in which values are computed once and come before their uses,
LEMMA SweepingKeepsSSA ==
  ASSUME NEW g, SingleAssignment(g)
  PROVE  /\ SingleAssignment(Swept(g))
         /\ DefsDominateUses(g) => DefsDominateUses(Swept(g))
  <1> DEFINE h == Swept(g)
  <1>0. IsCode(g) /\ VoidHasEffect(g) /\ DefinedOnce(g)
    BY DEF SingleAssignment
  <1>1. /\ h = [params |-> h.params, blocks |-> h.blocks, consts |-> h.consts, types |-> h.types]
        /\ h.params = g.params /\ h.consts = g.consts /\ h.types = g.types
        /\ DOMAIN h.blocks = DOMAIN g.blocks
        /\ \A b \in DOMAIN g.blocks : /\ h.blocks[b].params = g.blocks[b].params
                                      /\ h.blocks[b].term = g.blocks[b].term
                                      /\ h.blocks[b].instrs = Left(g, b)
        /\ h.blocks \in [DOMAIN h.blocks -> Blocks]
        /\ \A avoid : Reach(h, avoid) = Reach(g, avoid)
    BY <1>0, SweptIs
  <1>2. \A p \in Places(h) :
            /\ p = <<p[1], p[2]>> /\ p[1] \in DOMAIN g.blocks
            /\ p[2] \in 1 .. Cardinality(Kept(g, p[1]))
            /\ Origin(g, p) \in Places(g) /\ Origin(g, p)[1] = p[1]
            /\ Origin(g, p)[2] = Nth(Kept(g, p[1]), p[2]) /\ Origin(g, p)[2] \in Kept(g, p[1])
            /\ InstrAt(h, p) = InstrAt(g, Origin(g, p))
    BY <1>0, SweptPlaces
  <1>3. \A q \in Places(g) : q[2] \in Kept(g, q[1]) =>
          LET p == <<q[1], Rank(Kept(g, q[1]), q[2])>> IN
          /\ p \in Places(h) /\ InstrAt(h, p) = InstrAt(g, q)
          /\ p[1] = q[1] /\ p[2] = Rank(Kept(g, q[1]), q[2])
          /\ p[2] \in 1 .. Cardinality(Kept(g, q[1]))
    BY <1>0, SweptKeeps
  <1>4. IsCode(h)
    BY <1>0, SweepingKeepsCode
  <1> HIDE DEF h
  <1>5. VoidHasEffect(h)
    BY <1>0, <1>2 DEF VoidHasEffect
  <1>6. Everywhere(h) = Everywhere(g) /\ AllParams(h) = AllParams(g)
    BY <1>1 DEF Everywhere, AllParams
  <1>7. DefinedOnce(h)
    <2>1. ASSUME NEW p \in Places(g), InstrAt(g, p).res # 0
          PROVE  /\ InstrAt(g, p).res \notin Everywhere(g) \cup AllParams(g)
                 /\ \A q \in Places(g) : InstrAt(g, q).res = InstrAt(g, p).res => q = p
      BY <1>0, <2>1 DEF DefinedOnce, AllParams
    <2>2. ASSUME NEW p \in Places(h), NEW q \in Places(h), Origin(g, q) = Origin(g, p)
          PROVE  q = p
      <3> DEFINE K == Kept(g, p[1])
      <3>1. q[1] = p[1] /\ Nth(K, q[2]) = Nth(K, p[2])
        BY <1>2, <2>2
      <3>2. p[2] \in 1 .. Cardinality(K) /\ q[2] \in 1 .. Cardinality(K)
        BY <1>2, <3>1
      <3>3. K \in SUBSET Nat /\ IsFiniteSet(K)
        BY <1>0, <1>2, KeptPositions
      <3> HIDE DEF K
      <3>4. Rank(K, Nth(K, q[2])) = q[2] /\ Rank(K, Nth(K, p[2])) = p[2]
        BY <3>2, <3>3, NthOf
      <3> QED BY <1>2, <3>1, <3>4
    <2>3. ASSUME NEW p \in Places(h), InstrAt(h, p).res # 0
          PROVE  /\ InstrAt(h, p).res \notin Everywhere(h) \cup AllParams(h)
                 /\ \A q \in Places(h) : InstrAt(h, q).res = InstrAt(h, p).res => q = p
      <3>1. Origin(g, p) \in Places(g) /\ InstrAt(h, p) = InstrAt(g, Origin(g, p))
        BY <1>2
      <3>2. ASSUME NEW q \in Places(h), InstrAt(h, q).res = InstrAt(h, p).res PROVE q = p
        <4>1. Origin(g, q) \in Places(g) /\ InstrAt(h, q) = InstrAt(g, Origin(g, q))
          BY <1>2
        <4> QED BY <2>1, <2>2, <2>3, <3>1, <3>2, <4>1
      <3> QED BY <1>6, <2>1, <2>3, <3>1, <3>2
    <2> QED BY <2>3 DEF DefinedOnce, AllParams
  <1>8. reachable_blocks(h) = reachable_blocks(g)
    BY <1>1 DEF reachable_blocks
  <1>9. ASSUME NEW b \in DOMAIN g.blocks, NEW d PROVE b \in Dominated(h, d) <=> b \in Dominated(g, d)
    BY <1>1, SameDominated
  <1>10. ASSUME NEW b \in DOMAIN g.blocks, NEW v, NEW i, NEW n, Available(g, v, b, i),
                \A p \in Places(g) : InstrAt(g, p).res = v => p[2] \in Kept(g, p[1]),
                \A j \in Kept(g, b) : j < i => Rank(Kept(g, b), j) < n
         PROVE  Available(h, v, b, n)
    <2>1. CASE v \in Everywhere(g)
      BY <1>6, <2>1 DEF Available
    <2>2. CASE Param(g, v, b)
      <3>1. Param(h, v, b)
        BY <1>1, <1>9, <2>2 DEF Param
      <3> QED BY <3>1 DEF Available
    <2>3. ASSUME NEW q \in Places(g), InstrAt(g, q).res = v, Before(g, q, b, i)
          PROVE  Available(h, v, b, n)
      <3>1. q[2] \in Kept(g, q[1])
        BY <1>10, <2>3
      <3> DEFINE p == <<q[1], Rank(Kept(g, q[1]), q[2])>>
      <3>2. /\ p \in Places(h) /\ InstrAt(h, p) = InstrAt(g, q)
            /\ p[1] = q[1] /\ p[2] = Rank(Kept(g, q[1]), q[2])
        BY <1>3, <3>1
      <3> HIDE DEF p
      <3>3. Before(h, p, b, n)
        <4>1. CASE q[1] = b /\ q[2] < i
          BY <1>10, <3>1, <3>2, <4>1 DEF Before
        <4>2. CASE q[1] # b /\ b \in Dominated(g, q[1])
          BY <1>9, <3>2, <4>2 DEF Before
        <4> QED BY <2>3, <4>1, <4>2 DEF Before
      <3> QED BY <2>3, <3>2, <3>3 DEF Available
    <2> QED BY <1>10, <2>1, <2>2, <2>3 DEF Available
  <1>11. ASSUME DefsDominateUses(g), NEW b \in reachable_blocks(h) \cap DOMAIN h.blocks
         PROVE  UsesAvailable(h, b)
    <2>1. b \in DOMAIN g.blocks /\ UsesAvailable(g, b)
      BY <1>0, <1>1, <1>11, <1>8, DominancePointwise
    <2> DEFINE K == Kept(g, b)
    <2>2. K \in SUBSET Nat /\ IsFiniteSet(K) /\ Cardinality(K) \in Nat /\ K \subseteq DOMAIN g.blocks[b].instrs
      BY <1>0, <2>1, KeptPositions
    <2>3. /\ DOMAIN h.blocks[b].instrs = 1 .. Cardinality(K) /\ Whole(h, b) = Cardinality(K) + 1
          /\ \A n \in 1 .. Cardinality(K) : h.blocks[b].instrs[n] = g.blocks[b].instrs[Nth(K, n)]
      BY <1>0, <1>1, <2>1, LeftIs DEF Whole
    <2>4. ASSUME NEW n \in DOMAIN h.blocks[b].instrs, NEW v \in ToSet(h.blocks[b].instrs[n].args)
          PROVE  Available(h, v, b, n)
      <3> DEFINE i == Nth(K, n)
      <3>1. i \in K /\ Rank(K, i) = n
        BY <2>2, <2>3, NthOf
      <3>2. h.blocks[b].instrs[n] = g.blocks[b].instrs[i]
        BY <2>3
      <3> HIDE DEF i
      <3>3. Available(g, v, b, i)
        BY <2>1, <2>2, <3>1, <3>2 DEF UsesAvailable
      <3>4. \A p \in Places(g) : InstrAt(g, p).res = v => p[2] \in Kept(g, p[1])
        BY <1>0, <2>1, <3>1, <3>2, ReadIsKept
      <3>5. \A j \in K : j < i => Rank(K, j) < n
        BY <2>2, <3>1, RankGrows
      <3> QED BY <1>10, <2>1, <3>3, <3>4, <3>5
    <2>5. ASSUME NEW v \in TermUses(h.blocks[b].term) PROVE Available(h, v, b, Whole(h, b))
      <3>1. v \in TermUses(g.blocks[b].term)
        BY <1>1, <2>1
      <3>2. Available(g, v, b, Whole(g, b))
        BY <2>1, <3>1 DEF UsesAvailable
      <3>3. \A p \in Places(g) : InstrAt(g, p).res = v => p[2] \in Kept(g, p[1])
        BY <1>0, <2>1, <3>1, ReadIsKept
      <3>4. \A j \in K : Rank(K, j) < Whole(h, b)
        <4>1. \A j \in K : Rank(K, j) \in 1 .. Cardinality(K)
          BY <2>2, NthRank
        <4> HIDE DEF K
        <4> QED BY <2>2, <2>3, <4>1
      <3> QED BY <1>10, <2>1, <3>2, <3>3, <3>4
    <2> QED BY <2>4, <2>5 DEF UsesAvailable
  <1>12. DefsDominateUses(g) => DefsDominateUses(h)
    BY <1>4, <1>11, DominancePointwise
  <1> QED BY <1>4, <1>5, <1>7, <1>12 DEF SingleAssignment, h

\* and the validator accepts it.
LEMMA SweepingKeepsValid ==
  ASSUME NEW g, IsCode(g), Valid(g) PROVE Valid(Swept(g))
  <1> DEFINE h == Swept(g)
  <1>0. validate_function(g) /\ ReachableFirst(g)
    BY DEF Valid
  <1>1. /\ DOMAIN h.blocks = DOMAIN g.blocks
        /\ \A b \in DOMAIN g.blocks : /\ h.blocks[b].params = g.blocks[b].params
                                      /\ h.blocks[b].term = g.blocks[b].term
                                      /\ h.blocks[b].instrs = Left(g, b)
        /\ \A avoid : Reach(h, avoid) = Reach(g, avoid)
    BY SweptIs
  <1> HIDE DEF h
  <1>2. ReachableFirst(h)
    BY <1>0, <1>1 DEF ReachableFirst, reachable_blocks
  <1>3. \A k \in DOMAIN g.blocks : NthBlock(g, k) = k
    BY <1>0, BlocksInOrder
  <1>4. \A k : NthBlock(h, k) = NthBlock(g, k)
    BY <1>1 DEF NthBlock
  <1>5. ASSUME NEW to, NEW args, validate_target(g, to, args) PROVE validate_target(h, to, args)
    BY <1>1, <1>3, <1>4, <1>5 DEF validate_target
  <1>6. ASSUME NEW b \in DOMAIN h.blocks
        PROVE  LET term == h.blocks[b].term IN
               /\ \A i \in DOMAIN h.blocks[b].instrs :
                    LET ins == h.blocks[b].instrs[i] IN Len(ins.args) \in Arity(ins.op)
               /\ term.t \in {"Jump", "Branch"} => validate_target(h, term.to, term.args)
               /\ term.t = "Branch" => validate_target(h, term.else, term.eargs)
    <2> DEFINE s == g.blocks[b].term
    <2>1. /\ \A i \in DOMAIN g.blocks[b].instrs :
               Len(g.blocks[b].instrs[i].args) \in Arity(g.blocks[b].instrs[i].op)
          /\ s.t \in {"Jump", "Branch"} => validate_target(g, s.to, s.args)
          /\ s.t = "Branch" => validate_target(g, s.else, s.eargs)
      BY <1>0, <1>1 DEF validate_function
    <2>2. h.blocks[b].term = s /\ h.blocks[b].instrs = Left(g, b) /\ b \in DOMAIN g.blocks
      BY <1>1
    <2>3. \A n \in DOMAIN Left(g, b) : /\ Nth(Kept(g, b), n) \in DOMAIN g.blocks[b].instrs
                                       /\ Left(g, b)[n] = g.blocks[b].instrs[Nth(Kept(g, b), n)]
      BY <2>2, LeftIs, KeptPositions
    <2> HIDE DEF s
    <2> QED BY <1>5, <2>1, <2>2, <2>3
  <1>7. validate_function(h)
    BY <1>0, <1>1, <1>6 DEF validate_function
  <1> QED BY <1>2, <1>7 DEF Valid, h

\* So dce keeps single assignment, dominance and validity.
LEMMA DceKeepsSSA ==
  ASSUME NEW f, SingleAssignment(f)
  PROVE  /\ SingleAssignment(dce(f).f)
         /\ DefsDominateUses(f) => DefsDominateUses(dce(f).f)
         /\ Valid(f) => Valid(dce(f).f)
  <1>1. dce(f).f = Swept(Pruned(f))
    BY DceIs
  <1>2. IsCode(f) /\ IsCode(Pruned(f))
    BY PrunedIs DEF SingleAssignment
  <1>3. SingleAssignment(Pruned(f)) /\ (DefsDominateUses(f) => DefsDominateUses(Pruned(f)))
    BY PruningKeepsSSA
  <1>4. /\ SingleAssignment(dce(f).f)
        /\ DefsDominateUses(f) => DefsDominateUses(dce(f).f)
    BY <1>1, <1>3, SweepingKeepsSSA
  <1>5. Valid(f) => Valid(dce(f).f)
    BY <1>1, <1>2, PruningKeepsValid, SweepingKeepsValid
  <1> QED BY <1>4, <1>5

\* Code that differs in its operands only keeps what does not look at them.
LEMMA ShapeKeeps ==
  ASSUME NEW f, NEW h, SingleAssignment(f), Valid(f), SameShape(f, h), IsCode(h),
         DOMAIN h.consts \cap DOMAIN f.types \subseteq DOMAIN f.consts
  PROVE  SingleAssignment(h) /\ Valid(h)
  <1>1. IsCode(f) /\ VoidHasEffect(f) /\ DefinedOnce(f)
    BY DEF SingleAssignment
  <1>2. \A p \in Places(f) : InstrAt(f, p).res # 0 =>
            (InstrAt(f, p).res \in DOMAIN h.consts => InstrAt(f, p).res \in DOMAIN f.consts)
    BY <1>1, PlaceTypes
  <1>3. DefinedOnce(h)
    BY <1>1, <1>2, ShapeDefinedOnce
  <1>4. VoidHasEffect(h) /\ Valid(h)
    BY <1>1, ShapeVoid, ShapeValid
  <1> QED BY <1>3, <1>4 DEF SingleAssignment

\* The passes that rewrite keep single assignment and validity.
LEMMA PassesKeep ==
  ASSUME NEW f, SingleAssignment(f), Valid(f)
  PROVE  /\ SingleAssignment(constant_fold(f).f) /\ Valid(constant_fold(f).f)
         /\ SingleAssignment(fhe_fold(f).f) /\ Valid(fhe_fold(f).f)
         /\ SingleAssignment(sload_coalesce(f).f) /\ Valid(sload_coalesce(f).f)
         /\ SingleAssignment(cse(f).f) /\ Valid(cse(f).f)
  <1>1. IsCode(f)
    BY DEF SingleAssignment
  <1>2. \A c : c = f.consts => c = f.consts /\ DOMAIN c \cap DOMAIN f.types \subseteq DOMAIN f.consts
    OBVIOUS
  <1>3. SingleAssignment(constant_fold(f).f) /\ Valid(constant_fold(f).f)
    BY <1>1, ConstantFoldKeepsCode, ShapeKeeps
  <1>4. SingleAssignment(fhe_fold(f).f) /\ Valid(fhe_fold(f).f)
    BY <1>1, <1>2, FheFoldKeepsCode, ShapeKeeps
  <1>5. SingleAssignment(sload_coalesce(f).f) /\ Valid(sload_coalesce(f).f)
    BY <1>1, <1>2, SloadCoalesceKeepsCode, ShapeKeeps
  <1>6. SingleAssignment(cse(f).f) /\ Valid(cse(f).f)
    BY <1>1, <1>2, CseKeepsCode, ShapeKeeps
  <1> QED BY <1>3, <1>4, <1>5, <1>6

\* Encryptions stay along paths in code that differs in its operands only,
LEMMA ShapeKeepsPaths ==
  ASSUME NEW f, IsCode(f), EncryptedAlongPaths(f), NEW h, SameShape(f, h)
  PROVE  EncryptedAlongPaths(h)
  <1>1. Places(h) = Places(f) /\ \A p \in Places(f) : SameInstr(InstrAt(f, p), InstrAt(h, p))
    BY ShapePlaces
  <1>2. \A p \in Places(f) : InstrAt(h, p).op = InstrAt(f, p).op /\ InstrAt(h, p).lift = InstrAt(f, p).lift
    BY <1>1 DEF SameInstr
  <1>3. \A avoid : Reach(h, avoid) = Reach(f, avoid)
    BY ShapeReach
  <1>4. reachable_blocks(h) = reachable_blocks(f)
    BY <1>3 DEF reachable_blocks
  <1>5. \A p \in Places(f) : p[1] \in DOMAIN f.blocks /\ p[1] \in DOMAIN h.blocks
    BY PlaceTypes DEF SameShape
  <1>6. ASSUME NEW p \in Places(h), NEW q \in Places(h),
               InstrAt(h, p).op = "FheEncryptTrivial", InstrAt(h, q).op = "FheEncryptTrivial",
               InstrAt(h, p).lift = InstrAt(h, q).lift, q[1] < p[1], p[1] \in reachable_blocks(h)
        PROVE  p[1] \in Dominated(h, q[1])
    <2>1. p[1] \in Dominated(f, q[1])
      BY <1>1, <1>2, <1>4, <1>6 DEF EncryptedAlongPaths
    <2> QED BY <1>1, <1>3, <1>5, <2>1, SameDominated
  <1> QED BY <1>6 DEF EncryptedAlongPaths

\* in code with the same ways whose every place holds what a place of the block held,
LEMMA FewerPlacesKeepPaths ==
  ASSUME NEW f, IsCode(f), EncryptedAlongPaths(f), NEW h,
         \A avoid : Reach(h, avoid) = Reach(f, avoid),
         NEW from,
         \A p \in Places(h) : /\ p[1] \in DOMAIN h.blocks
                              /\ from[p] \in Places(f) /\ from[p][1] = p[1]
                              /\ InstrAt(h, p) = InstrAt(f, from[p])
  PROVE  EncryptedAlongPaths(h)
  <1>1. reachable_blocks(h) = reachable_blocks(f)
    BY DEF reachable_blocks
  <1>2. ASSUME NEW p \in Places(h), NEW q \in Places(h),
               InstrAt(h, p).op = "FheEncryptTrivial", InstrAt(h, q).op = "FheEncryptTrivial",
               InstrAt(h, p).lift = InstrAt(h, q).lift, q[1] < p[1], p[1] \in reachable_blocks(h)
        PROVE  p[1] \in Dominated(h, q[1])
    <2>1. from[p][1] \in Dominated(f, from[q][1])
      BY <1>1, <1>2 DEF EncryptedAlongPaths
    <2>2. p[1] \in Dominated(f, q[1])
      BY <2>1
    <2>3. p[1] \in DOMAIN f.blocks
      BY PlaceTypes
    <2> QED BY <2>2, <2>3, SameDominated
  <1> QED BY <1>2 DEF EncryptedAlongPaths

\* and so in what dce leaves.
LEMMA DceKeepsPaths ==
  ASSUME NEW f, IsCode(f), EncryptedAlongPaths(f)
  PROVE  EncryptedAlongPaths(dce(f).f)
  <1> DEFINE g == Pruned(f)
             h == Swept(g)
  <1>1. /\ IsCode(g) /\ \A avoid : Reach(g, avoid) = Reach(f, avoid)
        /\ \A p : p \in Places(g) <=> p \in Places(f) /\ p[1] \in reachable_blocks(f)
        /\ \A p \in Places(g) : InstrAt(g, p) = InstrAt(f, p)
    BY PrunedIs
  <1> HIDE DEF g
  <1>2. \A p \in Places(g) : p[1] \in DOMAIN g.blocks
    BY <1>1, PlaceTypes
  <1>3. EncryptedAlongPaths(g)
    <2> DEFINE same == [p \in Places(g) |-> p]
    <2>1. \A p \in Places(g) : /\ p[1] \in DOMAIN g.blocks
                               /\ same[p] \in Places(f) /\ same[p][1] = p[1]
                               /\ InstrAt(g, p) = InstrAt(f, same[p])
      BY <1>1, <1>2
    <2> HIDE DEF same
    <2> QED BY <1>1, <2>1, FewerPlacesKeepPaths
  <1>4. /\ DOMAIN h.blocks = DOMAIN g.blocks
        /\ \A avoid : Reach(h, avoid) = Reach(g, avoid)
    BY <1>1, SweptIs
  <1>5. \A p \in Places(h) : /\ p[1] \in DOMAIN g.blocks
                             /\ Origin(g, p) \in Places(g) /\ Origin(g, p)[1] = p[1]
                             /\ InstrAt(h, p) = InstrAt(g, Origin(g, p))
    BY <1>1, SweptPlaces
  <1> HIDE DEF h
  <1>6. EncryptedAlongPaths(h)
    <2> DEFINE origin == [p \in Places(h) |-> Origin(g, p)]
    <2>1. \A p \in Places(h) : /\ p[1] \in DOMAIN h.blocks
                               /\ origin[p] \in Places(g) /\ origin[p][1] = p[1]
                               /\ InstrAt(h, p) = InstrAt(g, origin[p])
      BY <1>4, <1>5
    <2> HIDE DEF origin
    <2> QED BY <1>1, <1>3, <1>4, <2>1, FewerPlacesKeepPaths
  <1> QED BY <1>6, DceIs DEF g, h

-----------------------------------------------------------------------------
(***************************************************************************)
(* The manager.                                                            *)
(***************************************************************************)

ManagerTypes ==
  /\ pass \in Steps
  /\ iteration \in 0 .. max_iterations
  /\ changed \in BOOLEAN
  /\ pass \notin {"idle", "round", "done", "gave_up"} => iteration < max_iterations

\* The names of the passes, spelled out.
LEMMA PassNames ==
  /\ Head(Passes) = "precompute"
  /\ Steps = {"idle", "round", "rounded", "done", "gave_up", "precompute", "constant_fold",
              "fhe_fold", "sload_coalesce", "cse", "dce"}
  <1>1. ToSet(Passes) = {"precompute", "constant_fold", "fhe_fold", "sload_coalesce", "cse", "dce"}
    BY DEF Passes, ToSet
  <1> QED BY <1>1 DEF Steps, Passes

\* The manager goes through its passes in order and completes at most
\* max_iterations rounds (manager.rs:18), for any code it is handed.
THEOREM ManagerIsTyped == OptimizerSpec => []ManagerTypes
  <1>1. Idle => ManagerTypes
    <2>1. 0 \in 0 .. max_iterations /\ "idle" \in Steps
      BY RoundsAreBounded, PassNames
    <2> QED BY <2>1 DEF Idle, ManagerTypes
  <1>2. ManagerTypes /\ [StartAny \/ Optimize]_manager => ManagerTypes'
    <2> SUFFICES ASSUME ManagerTypes, [StartAny \/ Optimize]_manager PROVE ManagerTypes'
      OBVIOUS
    <2>1. CASE StartAny
      BY <2>1, PassNames DEF ManagerTypes, StartAny, Start
    <2>2. CASE BeginRound
      BY <2>2, PassNames DEF ManagerTypes, BeginRound
    <2>3. CASE EndRound
      BY <2>3, RoundsAreBounded, PassNames DEF ManagerTypes, EndRound
    <2>4. ASSUME NEW next \in {"constant_fold", "fhe_fold", "sload_coalesce", "cse", "dce", "rounded"},
                 NEW result, Ran(next, result), result.changed \in BOOLEAN,
                 pass \in {"precompute", "constant_fold", "fhe_fold", "sload_coalesce", "cse", "dce"}
          PROVE  ManagerTypes'
      BY <2>4, PassNames DEF ManagerTypes, Ran
    <2>5. CASE Precompute
      BY <2>4, <2>5 DEF Precompute, precompute, Pass
    <2>6. CASE ConstantFold
      <3>1. constant_fold(ir).changed \in BOOLEAN
        BY DEF constant_fold, apply_replacements, Pass
      <3> QED BY <2>4, <2>6, <3>1 DEF ConstantFold
    <2>7. CASE FheFold
      <3>1. fhe_fold(ir).changed \in BOOLEAN
        BY DEF fhe_fold, apply_replacements, Pass
      <3> QED BY <2>4, <2>7, <3>1 DEF FheFold
    <2>8. CASE SloadCoalesce
      <3>1. sload_coalesce(ir).changed \in BOOLEAN
        BY DEF sload_coalesce, apply_replacements, Pass
      <3> QED BY <2>4, <2>8, <3>1 DEF SloadCoalesce
    <2>9. CASE Cse
      <3>1. cse(ir).changed \in BOOLEAN
        BY DEF cse, apply_replacements, Pass
      <3> QED BY <2>4, <2>9, <3>1 DEF Cse
    <2>10. CASE Dce
      <3>1. dce(ir).changed \in BOOLEAN
        BY DEF dce, Pass
      <3> QED BY <2>4, <2>10, <3>1 DEF Dce
    <2>11. CASE UNCHANGED manager
      BY <2>11 DEF manager, ManagerTypes
    <2> QED BY <2>1, <2>2, <2>3, <2>5, <2>6, <2>7, <2>8, <2>9, <2>10, <2>11 DEF Optimize
  <1> QED BY <1>1, <1>2, PTL DEF OptimizerSpec

\* Nothing is in hand before the manager starts; what is in hand from then on
\* is single-assignment code the validator accepts.
CodeIsSound ==
  /\ pass = "idle" => ~ Compiled
  /\ pass # "idle" => SingleAssignment(ir) /\ Valid(ir)

\* From the code it is handed on, what the manager has in hand is single-assignment
\* code the validator accepts, after every pass of every round: a value is computed
\* in one place, and the block a target names is where the validator looks.
THEOREM PassesKeepCodeSound == OptimizerSpec => []CodeIsSound
  <1>1. Idle => CodeIsSound
    BY DEF Idle, CodeIsSound, Compiled
  <1>2. CodeIsSound /\ [StartAny \/ Optimize]_manager => CodeIsSound'
    <2> SUFFICES ASSUME CodeIsSound, [StartAny \/ Optimize]_manager PROVE CodeIsSound'
      OBVIOUS
    <2>1. CASE StartAny
      BY <2>1 DEF StartAny, Start, CodeIsSound, Compiled, InSSA
    <2>2. ASSUME pass # "idle", pass' # "idle", UNCHANGED ir PROVE CodeIsSound'
      BY <2>2 DEF CodeIsSound
    <2>3. CASE BeginRound
      BY <2>2, <2>3 DEF BeginRound, Passes
    <2>4. CASE EndRound
      BY <2>2, <2>4 DEF EndRound
    <2>5. CASE Precompute
      BY <2>2, <2>5 DEF Precompute, precompute, Pass, Ran
    <2>6. CASE ConstantFold
      BY <2>6, PassesKeep DEF ConstantFold, Ran, CodeIsSound
    <2>7. CASE FheFold
      BY <2>7, PassesKeep DEF FheFold, Ran, CodeIsSound
    <2>8. CASE SloadCoalesce
      BY <2>8, PassesKeep DEF SloadCoalesce, Ran, CodeIsSound
    <2>9. CASE Cse
      BY <2>9, PassesKeep DEF Cse, Ran, CodeIsSound
    <2>10. CASE Dce
      BY <2>10, DceKeepsSSA DEF Dce, Ran, CodeIsSound
    <2>11. CASE UNCHANGED manager
      BY <2>11 DEF manager, CodeIsSound, Compiled
    <2> QED BY <2>1, <2>3, <2>4, <2>5, <2>6, <2>7, <2>8, <2>9, <2>10, <2>11 DEF Optimize
  <1> QED BY <1>1, <1>2, PTL DEF OptimizerSpec

\* The structural validator accepts what every pass leaves behind (lib.rs:20,
\* "covenant_ir::validate(&module) still passes"), for any code of any size.
THEOREM ValidatorAlwaysAccepts == OptimizerSpec => []ValidatorAccepts
  <1>1. CodeIsSound => ValidatorAccepts
    BY DEF CodeIsSound, ValidatorAccepts
  <1> QED BY <1>1, PassesKeepCodeSound, PTL

UsesAfterDefs == pass # "idle" => DefsDominateUses(ir)

\* A pass that is not fhe_fold keeps values before their uses.
LEMMA OtherStepsKeepDominance ==
  ASSUME CodeIsSound, UsesAfterDefs, pass # "fhe_fold", [StartAny \/ Optimize]_manager
  PROVE  UsesAfterDefs'
  <1>0. pass # "idle" => SingleAssignment(ir) /\ IsCode(ir) /\ DefinedOnce(ir)
    BY DEF CodeIsSound, SingleAssignment
  <1>1. CASE StartAny
    BY <1>1 DEF StartAny, Start, UsesAfterDefs, InSSA
  <1>2. ASSUME pass # "idle", UNCHANGED ir PROVE UsesAfterDefs'
    BY <1>2 DEF UsesAfterDefs
  <1>3. CASE BeginRound
    BY <1>2, <1>3 DEF BeginRound
  <1>4. CASE EndRound
    BY <1>2, <1>4 DEF EndRound
  <1>5. CASE Precompute
    BY <1>2, <1>5 DEF Precompute, precompute, Pass, Ran
  <1>6. CASE ConstantFold
    BY <1>0, <1>6, ConstantFoldKeepsCode DEF ConstantFold, Ran, UsesAfterDefs
  <1>7. CASE FheFold
    BY <1>7 DEF FheFold
  <1>8. CASE SloadCoalesce
    BY <1>0, <1>8, SloadCoalesceKeepsCode DEF SloadCoalesce, Ran, UsesAfterDefs
  <1>9. CASE Cse
    BY <1>0, <1>9, CseKeepsCode DEF Cse, Ran, UsesAfterDefs
  <1>10. CASE Dce
    BY <1>0, <1>10, DceKeepsSSA DEF Dce, Ran, UsesAfterDefs
  <1>11. CASE UNCHANGED manager
    BY <1>11 DEF manager, UsesAfterDefs
  <1> QED BY <1>1, <1>3, <1>4, <1>5, <1>6, <1>7, <1>8, <1>9, <1>10, <1>11 DEF Optimize

\* A step that is not fhe_fold's takes code in which a value is computed once and
\* on every way to its uses to such code.
DominanceSurvives == pass # "fhe_fold" /\ DominanceHolds => DominanceHolds'

\* Whatever the manager is handed, no pass but fhe_fold breaks the promise of
\* lib.rs:16, "SSA dominance still holds".
THEOREM OnlyFheFoldBreaksDominance == OptimizerSpec => [][DominanceSurvives]_manager
  <1>1. CodeIsSound /\ CodeIsSound' /\ [StartAny \/ Optimize]_manager => [DominanceSurvives]_manager
    <2> SUFFICES ASSUME CodeIsSound, CodeIsSound', [StartAny \/ Optimize]_manager,
                        pass # "fhe_fold", DominanceHolds
                 PROVE  DominanceHolds'
      BY DEF DominanceSurvives
    <2>1. UsesAfterDefs
      <3>1. pass # "idle" => Compiled
        BY DEF CodeIsSound, Compiled, NoCode, SingleAssignment, IsCode
      <3> QED BY <3>1 DEF UsesAfterDefs, DominanceHolds, InSSA
    <2>2. UsesAfterDefs'
      BY <2>1, OtherStepsKeepDominance
    <2> QED BY <2>2 DEF CodeIsSound, UsesAfterDefs, DominanceHolds, InSSA
  <1> QED BY <1>1, PassesKeepCodeSound, PTL DEF OptimizerSpec

EncryptsAlongPaths == pass # "idle" => EncryptedAlongPaths(ir)

\* Handed code in which encryptions in different blocks are along paths, the first on
\* every way to the others, every pass of every round keeps the code so and
\* keeps the promise of lib.rs:16: a value is computed in one place and only
\* used where a block on every way there has computed it.
THEOREM DominanceIsKept == AlongPathsSpec => []DominanceHolds
  <1>1. Idle => UsesAfterDefs /\ EncryptsAlongPaths
    BY DEF Idle, UsesAfterDefs, EncryptsAlongPaths
  <1>2. CodeIsSound /\ EncryptsAlongPaths /\ [StartAlongPaths \/ Optimize]_manager
        => EncryptsAlongPaths'
    <2> SUFFICES ASSUME CodeIsSound, EncryptsAlongPaths, [StartAlongPaths \/ Optimize]_manager
                 PROVE  EncryptsAlongPaths'
      OBVIOUS
    <2>0. pass # "idle" => IsCode(ir) /\ EncryptedAlongPaths(ir)
      BY DEF CodeIsSound, SingleAssignment, EncryptsAlongPaths
    <2>1. CASE StartAlongPaths
      BY <2>1 DEF StartAlongPaths, Start, EncryptsAlongPaths
    <2>2. ASSUME pass # "idle", UNCHANGED ir PROVE EncryptsAlongPaths'
      BY <2>2 DEF EncryptsAlongPaths
    <2>3. CASE BeginRound
      BY <2>2, <2>3 DEF BeginRound
    <2>4. CASE EndRound
      BY <2>2, <2>4 DEF EndRound
    <2>5. CASE Precompute
      BY <2>2, <2>5 DEF Precompute, precompute, Pass, Ran
    <2>6. CASE ConstantFold
      BY <2>0, <2>6, ConstantFoldKeepsCode, ShapeKeepsPaths DEF ConstantFold, Ran, EncryptsAlongPaths
    <2>7. CASE FheFold
      BY <2>0, <2>7, FheFoldKeepsCode, ShapeKeepsPaths DEF FheFold, Ran, EncryptsAlongPaths
    <2>8. CASE SloadCoalesce
      BY <2>0, <2>8, SloadCoalesceKeepsCode, ShapeKeepsPaths DEF SloadCoalesce, Ran, EncryptsAlongPaths
    <2>9. CASE Cse
      BY <2>0, <2>9, CseKeepsCode, ShapeKeepsPaths DEF Cse, Ran, EncryptsAlongPaths
    <2>10. CASE Dce
      BY <2>0, <2>10, DceKeepsPaths DEF Dce, Ran, EncryptsAlongPaths
    <2>11. CASE UNCHANGED manager
      BY <2>11 DEF manager, EncryptsAlongPaths
    <2> QED BY <2>1, <2>3, <2>4, <2>5, <2>6, <2>7, <2>8, <2>9, <2>10, <2>11 DEF Optimize
  <1>3. StartAlongPaths => StartAny
    BY DEF StartAlongPaths, StartAny
  <1>4. CodeIsSound /\ EncryptsAlongPaths /\ UsesAfterDefs /\ [StartAlongPaths \/ Optimize]_manager
        => UsesAfterDefs'
    <2> SUFFICES ASSUME CodeIsSound, EncryptsAlongPaths, UsesAfterDefs,
                        [StartAlongPaths \/ Optimize]_manager
                 PROVE  UsesAfterDefs'
      OBVIOUS
    <2>1. [StartAny \/ Optimize]_manager
      BY <1>3
    <2>2. CASE pass # "fhe_fold"
      BY <2>1, <2>2, OtherStepsKeepDominance
    <2>3. CASE pass = "fhe_fold" /\ FheFold
      <3>1. IsCode(ir) /\ DefinedOnce(ir) /\ DefsDominateUses(ir) /\ EncryptedAlongPaths(ir)
        BY <2>3 DEF CodeIsSound, SingleAssignment, EncryptsAlongPaths, UsesAfterDefs
      <3> QED BY <2>3, <3>1, FheFoldKeepsCode DEF FheFold, Ran, UsesAfterDefs
    <2>4. CASE UNCHANGED manager
      BY <2>4 DEF manager, UsesAfterDefs
    <2>5. pass = "fhe_fold" => FheFold \/ UNCHANGED manager
      BY DEF StartAlongPaths, Start, Optimize, BeginRound, EndRound, Precompute, ConstantFold,
             SloadCoalesce, Cse, Dce
    <2> QED BY <2>2, <2>3, <2>4, <2>5
  <1>5. CodeIsSound /\ UsesAfterDefs => DominanceHolds
    BY DEF CodeIsSound, UsesAfterDefs, DominanceHolds, InSSA
  <1>6. [StartAlongPaths \/ Optimize]_manager => [StartAny \/ Optimize]_manager
    BY <1>3
  <1>7. AlongPathsSpec => OptimizerSpec
    BY <1>6, PTL DEF AlongPathsSpec, OptimizerSpec
  <1> QED BY <1>1, <1>2, <1>4, <1>5, <1>7, PassesKeepCodeSound, PTL DEF AlongPathsSpec

-----------------------------------------------------------------------------
(***************************************************************************)
(* What a pass that reports no change leaves: the code it was given, but for*)
(* the constants constant_fold adds.                                       *)
(***************************************************************************)

\* A rewriting that replaces nothing a list has does not change it.
LEMMA QuietList ==
  ASSUME NEW map, NEW vs \in Seq(Nat), DOMAIN map \cap ToSet(vs) = {}
  PROVE  RenamedAll(map, vs) = vs
  <1>1. DOMAIN vs = 1 .. Len(vs) /\ Len(vs) \in Nat /\ vs = [i \in DOMAIN vs |-> vs[i]]
    OBVIOUS
  <1>2. \A i \in DOMAIN vs : Renamed(map, vs[i]) = vs[i]
    BY DEF Renamed, ToSet
  <1>3. RenamedAll(map, vs) = [i \in DOMAIN vs |-> vs[i]]
    BY <1>2 DEF RenamedAll
  <1> QED BY <1>1, <1>3

\* Nor does it change a terminator,
LEMMA QuietTerm ==
  ASSUME NEW map, 0 \notin DOMAIN map, NEW t \in Terms, DOMAIN map \cap TermUses(t) = {}
  PROVE  RenamedTerm(map, t) = t
  <1>1. t.v \in Nat /\ t.args \in Seq(Nat) /\ t.eargs \in Seq(Nat)
        /\ t = [t |-> t.t, v |-> t.v, to |-> t.to, args |-> t.args, else |-> t.else, eargs |-> t.eargs]
    BY DEF Terms
  <1>2. DOMAIN map \cap ToSet(t.args) = {} /\ DOMAIN map \cap ToSet(t.eargs) = {}
        /\ t.v \notin DOMAIN map
    BY DEF TermUses
  <1>3. RenamedAll(map, t.args) = t.args /\ RenamedAll(map, t.eargs) = t.eargs /\ Renamed(map, t.v) = t.v
    BY <1>1, <1>2, QuietList DEF Renamed
  <1> DEFINE v1 == Renamed(map, t.v)
             a1 == RenamedAll(map, t.args)
             e1 == RenamedAll(map, t.eargs)
             t1 == [t EXCEPT !.v = v1]
             t2 == [t1 EXCEPT !.args = a1]
  <1>4. RenamedTerm(map, t) = [t2 EXCEPT !.eargs = e1]
    BY DEF RenamedTerm
  <1>5. v1 = t.v /\ a1 = t.args /\ e1 = t.eargs
    BY <1>3
  <1> HIDE DEF v1, a1, e1
  <1>6. t1 = t
    BY <1>1, <1>5
  <1> HIDE DEF t1
  <1>7. t2 = t
    BY <1>1, <1>5, <1>6
  <1> HIDE DEF t2
  <1> QED BY <1>1, <1>4, <1>5, <1>7

\* a block,
LEMMA QuietBlock ==
  ASSUME NEW map, 0 \notin DOMAIN map, NEW f, IsCode(f), DOMAIN map \cap Uses(f) = {},
         NEW b \in DOMAIN f.blocks
  PROVE  RewrittenBlock(map, f.blocks[b]) = f.blocks[b]
  <1> DEFINE a == f.blocks[b]
  <1>1. /\ a = [params |-> a.params, instrs |-> a.instrs, term |-> a.term]
        /\ a.term \in Terms /\ Len(a.instrs) \in Nat
        /\ DOMAIN a.instrs = 1 .. Len(a.instrs) /\ a.instrs \in Seq(Instrs)
        /\ \A i \in DOMAIN a.instrs : a.instrs[i] \in Instrs
    BY BlockTypes
  <1>2. /\ DOMAIN map \cap TermUses(a.term) = {}
        /\ \A i \in DOMAIN a.instrs : DOMAIN map \cap ToSet(a.instrs[i].args) = {}
    BY UseMembers
  <1> HIDE DEF a
  <1>3. RenamedTerm(map, a.term) = a.term
    BY <1>1, <1>2, QuietTerm
  <1>4. ASSUME NEW i \in DOMAIN a.instrs PROVE RewrittenInstr(map, a.instrs[i]) = a.instrs[i]
    <2> DEFINE ins == a.instrs[i]
    <2>1. ins \in Instrs /\ DOMAIN map \cap ToSet(ins.args) = {}
      BY <1>1, <1>2
    <2> HIDE DEF ins
    <2>2. ins.args \in Seq(Nat)
          /\ ins = [op |-> ins.op, imm |-> ins.imm, args |-> ins.args, res |-> ins.res, lift |-> ins.lift]
      BY <2>1 DEF Instrs
    <2>3. RenamedAll(map, ins.args) = ins.args
      BY <2>1, <2>2, QuietList
    <2>4. RewrittenInstr(map, ins) = ins
      BY <2>2, <2>3 DEF RewrittenInstr
    <2> QED BY <2>4 DEF ins
  <1> DEFINE is == [i \in DOMAIN a.instrs |-> RewrittenInstr(map, a.instrs[i])]
             tt == RenamedTerm(map, a.term)
             a1 == [a EXCEPT !.instrs = is]
  <1>5. RewrittenBlock(map, a) = [a1 EXCEPT !.term = tt]
    BY DEF RewrittenBlock
  <1>6. is = a.instrs
    <2>1. is = [i \in DOMAIN a.instrs |-> a.instrs[i]]
      BY <1>4
    <2> HIDE DEF is
    <2> QED BY <1>1, <2>1
  <1> HIDE DEF is
  <1>7. a1 = a
    BY <1>1, <1>6
  <1>8. tt = a.term
    BY <1>3
  <1> HIDE DEF a1, tt
  <1>9. RewrittenBlock(map, a) = a
    BY <1>1, <1>5, <1>7, <1>8
  <1> QED BY <1>9 DEF a

\* or the code.
LEMMA QuietRewriting ==
  ASSUME NEW map, 0 \notin DOMAIN map, NEW f, IsCode(f), ~ apply_replacements(f, map).changed
  PROVE  apply_replacements(f, map).f = f
  <1>1. DOMAIN map \cap Uses(f) = {}
    BY DEF apply_replacements, Pass
  <1> DEFINE bs == [b \in DOMAIN f.blocks |-> RewrittenBlock(map, f.blocks[b])]
  <1>2. f = [params |-> f.params, blocks |-> f.blocks, consts |-> f.consts, types |-> f.types]
        /\ f.blocks = [b \in DOMAIN f.blocks |-> f.blocks[b]]
    BY DEF IsCode
  <1>3. apply_replacements(f, map).f = [f EXCEPT !.blocks = bs]
    BY DEF apply_replacements, Pass
  <1>4. \A b \in DOMAIN f.blocks : RewrittenBlock(map, f.blocks[b]) = f.blocks[b]
    BY <1>1, QuietBlock
  <1>5. bs = f.blocks
    BY <1>2, <1>4
  <1> HIDE DEF bs
  <1> QED BY <1>2, <1>3, <1>5

\* So a merge that reports no change makes none,
LEMMA QuietMerging ==
  ASSUME NEW f, IsCode(f), NEW kept \in SUBSET Places(f), \A p \in kept : InstrAt(f, p).res # 0, NEW key,
         ~ apply_replacements(f, SameAsEarlier(f, kept, key)).changed
  PROVE  apply_replacements(f, SameAsEarlier(f, kept, key)).f = f
  <1>1. 0 \notin DOMAIN SameAsEarlier(f, kept, key)
    BY DEF SameAsEarlier
  <1> QED BY <1>1, QuietRewriting

\* which is what the three merging passes are,
LEMMA QuietMerges ==
  ASSUME NEW f, IsCode(f)
  PROVE  /\ ~ fhe_fold(f).changed => fhe_fold(f).f = f
         /\ ~ sload_coalesce(f).changed => sload_coalesce(f).f = f
         /\ ~ cse(f).changed => cse(f).f = f
  <1>1. Encryptions(f) \in SUBSET Places(f) /\ \A p \in Encryptions(f) : InstrAt(f, p).res # 0
    BY DEF Encryptions
  <1>2. Loads(f) \in SUBSET Places(f) /\ \A p \in Loads(f) : InstrAt(f, p).res # 0
    BY DEF Loads
  <1>3. Eligible(f) \in SUBSET Places(f) /\ \A p \in Eligible(f) : InstrAt(f, p).res # 0
    BY DEF Eligible
  <1>4. ~ fhe_fold(f).changed => fhe_fold(f).f = f
    BY <1>1, QuietMerging DEF fhe_fold
  <1>5. ~ sload_coalesce(f).changed => sload_coalesce(f).f = f
    BY <1>2, QuietMerging DEF sload_coalesce
  <1>6. ~ cse(f).changed => cse(f).f = f
    BY <1>3, QuietMerging DEF cse
  <1> QED BY <1>4, <1>5, <1>6

\* and when dce reports none its two steps removed nothing.
LEMMA QuietDce ==
  ASSUME NEW f, IsCode(f), ~ dce(f).changed
  PROVE  dce(f).f = f
  <1> DEFINE g == Pruned(f)
             h == Swept(g)
  <1>1. dce(f).f = h
    BY DceIs
  <1>2. dce(f).f.blocks = f.blocks
    BY Zenon DEF dce, Pass
  <1>3. IsCode(g) /\ g.params = f.params /\ g.consts = f.consts /\ g.types = f.types
    BY PrunedIs
  <1> HIDE DEF g
  <1>4. /\ h = [params |-> h.params, blocks |-> h.blocks, consts |-> h.consts, types |-> h.types]
        /\ h.params = g.params /\ h.consts = g.consts /\ h.types = g.types
    BY <1>3, SweptIs
  <1>5. f = [params |-> f.params, blocks |-> f.blocks, consts |-> f.consts, types |-> f.types]
    BY DEF IsCode
  <1> HIDE DEF h
  <1> QED BY <1>1, <1>2, <1>3, <1>4, <1>5

\* The constants it adds are none of the values of the code.
LEMMA GrownConstants ==
  ASSUME NEW f, IsCode(f), NEW v \in DOMAIN f.types
  PROVE  /\ v \in DOMAIN Grown(f).consts <=> v \in DOMAIN f.consts
         /\ v \in DOMAIN f.consts => Grown(f).consts[v] = f.consts[v]
  <1>1. v \notin FreshSet(f)
    BY FreshIsNew DEF FreshSet
  <1>2. DOMAIN Grown(f).consts = FreshSet(f) \cup DOMAIN f.consts
    BY GrownIs
  <1> DEFINE new == [w \in FreshSet(f) |-> try_fold(f, FoldOf(f, w))]
             c == Over(new, f.consts)
             t == Over([w \in FreshSet(f) |-> f.types[FoldOf(f, w).res]], f.types)
             f1 == [f EXCEPT !.consts = c]
  <1>3. Grown(f).consts = c
    <2>1. f = [params |-> f.params, blocks |-> f.blocks, consts |-> f.consts, types |-> f.types]
      BY DEF IsCode
    <2>2. Grown(f) = [f1 EXCEPT !.types = t]
      BY DEF Grown
    <2> HIDE DEF c, t
    <2>3. f1 = [params |-> f.params, blocks |-> f.blocks, consts |-> c, types |-> f.types]
      BY <2>1
    <2> HIDE DEF f1
    <2> QED BY <2>2, <2>3
  <1>4. DOMAIN new = FreshSet(f)
    OBVIOUS
  <1> HIDE DEF new
  <1>5. v \in DOMAIN f.consts => c[v] = f.consts[v]
    BY <1>1, <1>4 DEF Over
  <1> HIDE DEF c
  <1> QED BY <1>1, <1>2, <1>3, <1>5

\* An instruction that can be folded has the operands its opcode asks for, all of
\* them values of the code.
LEMMA Operands ==
  ASSUME NEW f, IsCode(f), Valid(f), NEW p \in Places(f)
  PROVE  /\ InstrAt(f, p).op \in Arithmetic \cup Comparison => Len(InstrAt(f, p).args) = 2
         /\ InstrAt(f, p).op = "LogicalNot" => Len(InstrAt(f, p).args) = 1
         /\ \A i \in 1 .. Len(InstrAt(f, p).args) : InstrAt(f, p).args[i] \in DOMAIN f.types
  <1> DEFINE ins == InstrAt(f, p)
             b == p[1]
             i == p[2]
  <1>1. b \in DOMAIN f.blocks /\ i \in DOMAIN f.blocks[b].instrs /\ ins = f.blocks[b].instrs[i]
        /\ ins \in Instrs
    BY PlaceTypes
  <1>2. Len(ins.args) \in Arity(ins.op)
    BY <1>1 DEF Valid, validate_function
  <1>3. ToSet(ins.args) \subseteq DOMAIN f.types
    <2>1. ToSet(f.blocks[b].instrs[i].args) \subseteq Uses(f)
      BY <1>1, UseMembers
    <2> QED BY <1>1, <2>1 DEF IsCode
  <1>4. ins.args \in Seq(Nat)
    BY <1>1 DEF Instrs
  <1> HIDE DEF ins
  <1>5. ins.op \in Arithmetic \cup Comparison => Len(ins.args) = 2
    BY <1>2 DEF Arity, Arithmetic, Comparison
  <1>6. ins.op = "LogicalNot" => Len(ins.args) = 1
    BY <1>2 DEF Arity
  <1>7. \A k \in 1 .. Len(ins.args) : ins.args[k] \in DOMAIN f.types
    BY <1>3, <1>4 DEF ToSet
  <1> QED BY <1>5, <1>6, <1>7 DEF ins

\* What could be folded still can, and nothing else.
LEMMA FoldsSettle ==
  ASSUME NEW f, IsCode(f), Valid(f)
  PROVE  Folds(Grown(f)) = Folds(f)
  <1> DEFINE g == Grown(f)
  <1>1. g.blocks = f.blocks
    BY GrownIs
  <1>2. \A v \in DOMAIN f.types : /\ v \in DOMAIN g.consts <=> v \in DOMAIN f.consts
                                  /\ v \in DOMAIN f.consts => g.consts[v] = f.consts[v]
    BY GrownConstants
  <1> HIDE DEF g
  <1>3. Places(g) = Places(f) /\ \A p : InstrAt(g, p) = InstrAt(f, p)
    BY <1>1 DEF Places, InstrAt
  <1>4. ASSUME NEW p \in Places(f) PROVE Foldable(g, InstrAt(f, p)) <=> Foldable(f, InstrAt(f, p))
    <2> DEFINE ins == InstrAt(f, p)
    <2>1. /\ ins.op \in Arithmetic \cup Comparison => Len(ins.args) = 2
          /\ ins.op = "LogicalNot" => Len(ins.args) = 1
          /\ \A i \in 1 .. Len(ins.args) : ins.args[i] \in DOMAIN f.types
      BY Operands
    <2> HIDE DEF ins
    <2>2. \A v \in DOMAIN f.types : as_int(g, v) <=> as_int(f, v)
      BY <1>2 DEF as_int
    <2>3. CASE ins.op \in Arithmetic \cup Comparison
      <3>1. ins.args[1] \in DOMAIN f.types /\ ins.args[2] \in DOMAIN f.types
        BY <2>1, <2>3
      <3>2. \A i \in 1 .. 2 : as_int(g, ins.args[i]) <=> as_int(f, ins.args[i])
        BY <2>2, <3>1
      <3>3. as_int(f, ins.args[1]) => g.consts[ins.args[1]] = f.consts[ins.args[1]]
        BY <1>2, <3>1 DEF as_int
      <3>4. as_int(f, ins.args[2]) => g.consts[ins.args[2]] = f.consts[ins.args[2]]
        BY <1>2, <3>1 DEF as_int
      <3>5. ins.op # "LogicalNot"
        BY <2>3 DEF Arithmetic, Comparison
      <3>6. (\A i \in 1 .. 2 : as_int(f, ins.args[i])) =>
              (int2(ins.op, g.consts[ins.args[1]].n, g.consts[ins.args[2]].n)
                 <=> int2(ins.op, f.consts[ins.args[1]].n, f.consts[ins.args[2]].n))
        BY <3>3, <3>4
      <3> DEFINE Ints(c) == \A i \in 1 .. 2 : as_int(c, ins.args[i])
                 Fits(c) == int2(ins.op, c.consts[ins.args[1]].n, c.consts[ins.args[2]].n)
      <3>7. \A c : Foldable(c, ins) <=> Ints(c) /\ Fits(c)
        BY <2>3, <3>5 DEF Foldable
      <3>8. (Ints(g) <=> Ints(f)) /\ (Ints(f) => (Fits(g) <=> Fits(f)))
        BY <3>2, <3>6
      <3> HIDE DEF Ints, Fits
      <3> QED BY <3>7, <3>8 DEF ins
    <2>4. CASE ins.op = "LogicalNot"
      <3>1. ins.args[1] \in DOMAIN f.types
        BY <2>1, <2>4
      <3>2. ins.op \notin Arithmetic \cup Comparison
        BY <2>4 DEF Arithmetic, Comparison
      <3> DEFINE Bool(c) == ins.args[1] \in DOMAIN c.consts /\ c.consts[ins.args[1]].kind = "bool"
      <3>3. \A c : Foldable(c, ins) <=> Bool(c)
        BY <2>4, <3>2 DEF Foldable
      <3>4. Bool(g) <=> Bool(f)
        BY <1>2, <3>1
      <3> HIDE DEF Bool
      <3> QED BY <3>3, <3>4 DEF ins
    <2>5. CASE ins.op \notin Arithmetic \cup Comparison /\ ins.op # "LogicalNot"
      <3>1. \A c : ~ Foldable(c, ins)
        BY <2>5 DEF Foldable
      <3> QED BY <3>1 DEF ins
    <2> QED BY <2>3, <2>4, <2>5 DEF ins
  <1>5. Folds(g) = Folds(f)
    BY <1>3, <1>4 DEF Folds
  <1> QED BY <1>5 DEF g

\* constant_fold reports a change when a folded result was read.
LEMMA FoldingChanges ==
  ASSUME NEW f, IsCode(f)
  PROVE  constant_fold(f).changed <=> {InstrAt(f, p).res : p \in Folds(f)} \cap Uses(f) # {}
  <1>1. constant_fold(f) = apply_replacements(Grown(f), FoldMap(f))
    BY FoldIs
  <1>2. DOMAIN FoldMap(f) = {InstrAt(f, p).res : p \in Folds(f)}
    BY DEF FoldMap
  <1>3. Uses(Grown(f)) = Uses(f)
    BY GrownIs DEF Uses
  <1> DEFINE g == Grown(f)
             map == FoldMap(f)
  <1> HIDE DEF g, map
  <1>4. apply_replacements(g, map).changed <=> DOMAIN map \cap Uses(g) # {}
    BY DEF apply_replacements, Pass
  <1> QED BY <1>1, <1>2, <1>3, <1>4 DEF g, map

\* Having reported none it will report none, although it added constants.
LEMMA QuietFolding ==
  ASSUME NEW f, IsCode(f), Valid(f), ~ constant_fold(f).changed
  PROVE  ~ constant_fold(constant_fold(f).f).changed
  <1> DEFINE g == Grown(f)
  <1>1. IsCode(g) /\ g.blocks = f.blocks
    BY GrownIs
  <1>2. constant_fold(f) = apply_replacements(g, FoldMap(f))
    BY FoldIs
  <1>3. 0 \notin DOMAIN FoldMap(f)
    BY FoldMapIs
  <1>4. Folds(g) = Folds(f)
    BY FoldsSettle
  <1> HIDE DEF g
  <1>5. constant_fold(f).f = g
    BY <1>1, <1>2, <1>3, QuietRewriting
  <1>6. Uses(g) = Uses(f) /\ \A p : InstrAt(g, p) = InstrAt(f, p)
    BY <1>1 DEF Uses, InstrAt
  <1>7. {InstrAt(g, p).res : p \in Folds(g)} = {InstrAt(f, p).res : p \in Folds(f)}
    BY <1>4, <1>6
  <1> QED BY <1>1, <1>5, <1>6, <1>7, FoldingChanges

\* What the passes that ran so far would report now, if none of them reported
\* a change in this round.
QuietSoFar ==
  ~ changed =>
    /\ pass \in {"fhe_fold", "sload_coalesce", "cse", "dce", "rounded", "done"}
         => ~ constant_fold(ir).changed
    /\ pass \in {"sload_coalesce", "cse", "dce", "rounded", "done"} => ~ fhe_fold(ir).changed
    /\ pass \in {"cse", "dce", "rounded", "done"} => ~ sload_coalesce(ir).changed
    /\ pass \in {"dce", "rounded", "done"} => ~ cse(ir).changed
    /\ pass \in {"rounded", "done"} => ~ dce(ir).changed
Settling == QuietSoFar /\ (pass = "done" => ~ changed)

\* When the manager stops of itself (manager.rs:11) none of its passes would report
\* a change on the code it leaves: that a round without a report is a fixpoint holds
\* although constant_fold adds its constants whether it reports or not.
THEOREM DoneIsAFixpoint == OptimizerSpec => []StopsAtFixpoint
  <1>1. Idle => Settling
    BY DEF Idle, Settling, QuietSoFar
  <1>2. ManagerTypes /\ CodeIsSound /\ Settling /\ [StartAny \/ Optimize]_manager => Settling'
    <2> SUFFICES ASSUME ManagerTypes, CodeIsSound, Settling, [StartAny \/ Optimize]_manager
                 PROVE  Settling'
      OBVIOUS
    <2>0. pass # "idle" => IsCode(ir) /\ Valid(ir)
      BY DEF CodeIsSound, SingleAssignment
    <2>1. CASE StartAny
      BY <2>1 DEF StartAny, Start, Settling, QuietSoFar
    <2>2. CASE BeginRound
      BY <2>2, PassNames DEF BeginRound, Settling, QuietSoFar
    <2>3. CASE EndRound
      BY <2>3 DEF EndRound, Settling, QuietSoFar
    <2>4. CASE Precompute
      BY <2>4 DEF Precompute, Ran, Settling, QuietSoFar
    <2>5. CASE ConstantFold
      <3>1. pass = "constant_fold" /\ pass' = "fhe_fold" /\ ir' = constant_fold(ir).f
            /\ changed' = (changed \/ constant_fold(ir).changed)
        BY <2>5 DEF ConstantFold, Ran
      <3>2. ~ constant_fold(ir).changed => ~ constant_fold(ir').changed
        BY <2>0, <3>1, QuietFolding
      <3> QED BY <3>1, <3>2 DEF Settling, QuietSoFar
    <2>6. ASSUME NEW result, ~ result.changed => result.f = ir, NEW next, Ran(next, result)
          PROVE  ~ changed' => ~ changed /\ ~ result.changed /\ ir' = ir /\ pass' = next
      BY <2>6 DEF Ran
    <2>7. CASE FheFold
      <3>1. pass = "fhe_fold" /\ pass' = "sload_coalesce" /\ Ran("sload_coalesce", fhe_fold(ir))
        BY <2>7 DEF FheFold, Ran
      <3>2. ~ changed' => ~ changed /\ ~ fhe_fold(ir).changed /\ ir' = ir
        BY <2>0, <2>6, <3>1, QuietMerges
      <3> QED BY <3>1, <3>2 DEF Settling, QuietSoFar
    <2>8. CASE SloadCoalesce
      <3>1. pass = "sload_coalesce" /\ pass' = "cse" /\ Ran("cse", sload_coalesce(ir))
        BY <2>8 DEF SloadCoalesce, Ran
      <3>2. ~ changed' => ~ changed /\ ~ sload_coalesce(ir).changed /\ ir' = ir
        BY <2>0, <2>6, <3>1, QuietMerges
      <3> QED BY <3>1, <3>2 DEF Settling, QuietSoFar
    <2>9. CASE Cse
      <3>1. pass = "cse" /\ pass' = "dce" /\ Ran("dce", cse(ir))
        BY <2>9 DEF Cse, Ran
      <3>2. ~ changed' => ~ changed /\ ~ cse(ir).changed /\ ir' = ir
        BY <2>0, <2>6, <3>1, QuietMerges
      <3> QED BY <3>1, <3>2 DEF Settling, QuietSoFar
    <2>10. CASE Dce
      <3>1. pass = "dce" /\ pass' = "rounded" /\ Ran("rounded", dce(ir))
        BY <2>10 DEF Dce, Ran
      <3>2. ~ changed' => ~ changed /\ ~ dce(ir).changed /\ ir' = ir
        BY <2>0, <2>6, <3>1, QuietDce
      <3> QED BY <3>1, <3>2 DEF Settling, QuietSoFar
    <2>11. CASE UNCHANGED manager
      BY <2>11 DEF manager, Settling, QuietSoFar
    <2> QED BY <2>1, <2>2, <2>3, <2>4, <2>5, <2>7, <2>8, <2>9, <2>10, <2>11 DEF Optimize
  <1>3. Settling => StopsAtFixpoint
    BY DEF Settling, QuietSoFar, StopsAtFixpoint, precompute, Pass
  <1> QED BY <1>1, <1>2, <1>3, ManagerIsTyped, PassesKeepCodeSound, PTL DEF OptimizerSpec
=============================================================================
