--------------------------- MODULE ERC20TokenProofs ---------------------------
(***************************************************************************)
(* The plain token, for any set of accounts, any supply and any width; and *)
(* before it, what sums over a finite set are, which the proofs about both *)
(* fungible tokens rest on.                                                *)
(***************************************************************************)
EXTENDS ERC20Token, FiniteSetTheorems, WellFoundedInduction, TLAPS

\* Induction over the subsets of a finite set, as a statement about sets: what
\* holds of every T whose proper subsets it all holds of, holds of every T.
LEMMA SubsetInduction ==
  ASSUME NEW S, IsFiniteSet(S), NEW G,
         \A T \in SUBSET S : (\A U \in SUBSET T : U # T => U \in G) => T \in G
  PROVE  \A T \in SUBSET S : T \in G
  <1> DEFINE Bad == {T \in SUBSET S : T \notin G}
  <1>1. SUFFICES ASSUME Bad # {} PROVE FALSE
    OBVIOUS
  <1>2. Bad \subseteq FiniteSubsetsOf(S)
    BY FS_FiniteSubsetsOfFinite
  <1>3. IsWellFoundedOn(StrictSubsetOrdering(S), FiniteSubsetsOf(S))
    BY FS_StrictSubsetOrderingWellFounded
  <1> HIDE DEF Bad
  <1>4. PICK T \in Bad : \A U \in Bad : ~ (<<U, T>> \in StrictSubsetOrdering(S))
    BY <1>1, <1>2, <1>3, WFMin
  <1>5. T \in SUBSET S /\ T \notin G
    BY DEF Bad
  <1>6. ASSUME NEW U \in SUBSET T, U # T PROVE U \in G
    <2>1. U \in SUBSET S /\ <<U, T>> \in StrictSubsetOrdering(S)
      BY <1>5, <1>6 DEF StrictSubsetOrdering
    <2> QED BY <1>4, <2>1 DEF Bad
  <1> QED BY <1>5, <1>6

\* The recursion behind SumFunctionOnSet: which element is taken away next,
\* and the equation it solves.
Pick(T) == CHOOSE x \in T : TRUE
IsSum(g, f, S) ==
  g = [T \in SUBSET S |-> IF T = {} THEN 0 ELSE f[Pick(T)] + g[T \ {Pick(T)}]]

\* SumFunctionOnSet is the solution the fold of the community modules chooses.
LEMMA SumIsFold ==
  ASSUME NEW f, NEW S
  PROVE SumFunctionOnSet(f, S) = (CHOOSE g : IsSum(g, f, S))[S]
  BY Zenon DEF SumFunctionOnSet, FoldFunctionOnSet, MapThenFoldSet, IsSum, Pick

\* A function that satisfies the equation on the subsets of at most n elements.
Upto(g, f, S, n) ==
  \A T \in SUBSET S : Cardinality(T) <= n =>
    g[T] = IF T = {} THEN 0 ELSE f[Pick(T)] + g[T \ {Pick(T)}]

\* Taking an element away from a set leaves a smaller one.
LEMMA PickRemoved ==
  ASSUME NEW S, IsFiniteSet(S), NEW T \in SUBSET S, T # {}
  PROVE  /\ Pick(T) \in T
         /\ T \ {Pick(T)} \in SUBSET S
         /\ IsFiniteSet(T)
         /\ Cardinality(T) \in Nat
         /\ Cardinality(T \ {Pick(T)}) = Cardinality(T) - 1
  <1>1. Pick(T) \in T
    BY DEF Pick
  <1>2. IsFiniteSet(T)
    BY FS_Subset
  <1> QED BY <1>1, <1>2, FS_RemoveElement, FS_CardinalityType

\* The recursion is well defined on the subsets of a finite set.
LEMMA SumExists ==
  ASSUME NEW S, IsFiniteSet(S), NEW f
  PROVE  \E g : IsSum(g, f, S)
  <1> DEFINE G == {T \in SUBSET S : \E g : Upto(g, f, S, Cardinality(T))}
  <1>1. ASSUME NEW T \in SUBSET S, \A U \in SUBSET T : U # T => U \in G
        PROVE  T \in G
    <2>1. CASE T = {}
      <3> DEFINE g == [U \in SUBSET S |-> 0]
      <3>1. \A U \in SUBSET S : Cardinality(U) <= Cardinality(T) => U = {}
        <4> SUFFICES ASSUME NEW U \in SUBSET S, Cardinality(U) <= Cardinality(T)
                     PROVE  U = {}
          OBVIOUS
        <4>1. IsFiniteSet(U) /\ Cardinality(U) \in Nat /\ Cardinality(T) = 0
          BY <2>1, FS_Subset, FS_EmptySet, FS_CardinalityType
        <4>2. Cardinality(U) = 0
          BY <4>1
        <4> QED BY <4>1, <4>2, FS_EmptySet
      <3>2. Upto(g, f, S, Cardinality(T))
        BY <3>1 DEF Upto
      <3> QED BY <3>2
    <2>2. CASE T # {}
      <3> DEFINE n == Cardinality(T)
      <3>1. n \in Nat /\ Cardinality(T \ {Pick(T)}) = n - 1 /\ Pick(T) \in T
        BY <2>2, PickRemoved
      <3>2. PICK g : Upto(g, f, S, n - 1)
        BY <1>1, <3>1
      <3> DEFINE h == [U \in SUBSET S |->
                         IF Cardinality(U) <= n - 1 THEN g[U]
                         ELSE f[Pick(U)] + g[U \ {Pick(U)}]]
      <3> HIDE DEF n
      <3>3. ASSUME NEW U \in SUBSET S, Cardinality(U) <= n
            PROVE  h[U] = IF U = {} THEN 0 ELSE f[Pick(U)] + h[U \ {Pick(U)}]
        <4>1. CASE U = {}
          <5>1. Cardinality(U) <= n - 1
            <6>1. Cardinality(U) = 0 /\ Cardinality(T) # 0 /\ IsFiniteSet(T)
              BY <4>1, <2>2, FS_EmptySet, FS_Subset
            <6> QED BY <6>1, <3>1 DEF n
          <5> QED BY <3>2, <4>1, <5>1 DEF Upto
        <4>2. CASE U # {}
          <5> DEFINE V == U \ {Pick(U)}
          <5>1. /\ V \in SUBSET S /\ Cardinality(U) \in Nat
                /\ Cardinality(V) = Cardinality(U) - 1
            BY <4>2, PickRemoved
          <5>2. h[V] = g[V]
            BY <3>1, <3>3, <5>1
          <5>3. CASE Cardinality(U) <= n - 1
            <6>1. h[U] = g[U]
              BY <5>3
            <6>2. g[U] = f[Pick(U)] + g[V]
              BY <3>2, <4>2, <5>3 DEF Upto
            <6> QED BY <4>2, <5>2, <6>1, <6>2
          <5>4. CASE ~ (Cardinality(U) <= n - 1)
            BY <4>2, <5>2, <5>4
          <5> QED BY <5>3, <5>4
        <4> QED BY <4>1, <4>2
      <3>4. Upto(h, f, S, n)
        BY <3>3 DEF Upto
      <3> QED BY <3>4 DEF n
    <2> QED BY <2>1, <2>2
  <1> HIDE DEF G
  <1>2. S \in G
    BY <1>1, SubsetInduction
  <1>3. PICK g : Upto(g, f, S, Cardinality(S))
    BY <1>2 DEF G
  <1> DEFINE h == [T \in SUBSET S |-> g[T]]
  <1>4. ASSUME NEW T \in SUBSET S
        PROVE  h[T] = IF T = {} THEN 0 ELSE f[Pick(T)] + h[T \ {Pick(T)}]
    BY <1>3, FS_Subset DEF Upto
  <1>5. h = [T \in SUBSET S |-> IF T = {} THEN 0 ELSE f[Pick(T)] + h[T \ {Pick(T)}]]
    BY <1>4
  <1> QED BY <1>5 DEF IsSum

\* The recursion, a function of the subsets of S.
PartialSums(f, S) == CHOOSE g : IsSum(g, f, S)

\* The fold satisfies its equation.
OneByOne(f, S) ==
  \A T \in SUBSET S : T # {} =>
    PartialSums(f, S)[T] = f[Pick(T)] + PartialSums(f, S)[T \ {Pick(T)}]
LEMMA SumEquation ==
  ASSUME NEW S, IsFiniteSet(S), NEW f
  PROVE  /\ SumFunctionOnSet(f, S) = PartialSums(f, S)[S]
         /\ PartialSums(f, S)[{}] = 0
         /\ OneByOne(f, S)
  <1>1. IsSum(PartialSums(f, S), f, S)
    BY SumExists DEF PartialSums
  <1> HIDE DEF PartialSums
  <1>2. SumFunctionOnSet(f, S) = PartialSums(f, S)[S]
    BY SumIsFold DEF PartialSums
  <1> QED BY <1>1, <1>2 DEF IsSum, OneByOne

\* The sum of numbers is a number.
LEMMA SumIsNat ==
  ASSUME NEW S, IsFiniteSet(S), NEW f \in [S -> Nat]
  PROVE  SumFunctionOnSet(f, S) \in Nat
  <1>0. \A T \in SUBSET S : T # {} =>
          PartialSums(f, S)[T] = f[Pick(T)] + PartialSums(f, S)[T \ {Pick(T)}]
    <2>1. OneByOne(f, S)
      BY SumEquation
    <2> QED BY <2>1 DEF OneByOne
  <1> DEFINE G == {T \in SUBSET S : PartialSums(f, S)[T] \in Nat}
  <1>1. ASSUME NEW T \in SUBSET S, \A U \in SUBSET T : U # T => U \in G
        PROVE  T \in G
    <2>1. CASE T = {}
      BY <2>1, SumEquation
    <2>2. CASE T # {}
      <3>1. Pick(T) \in T
        BY <2>2, PickRemoved
      <3>2. PartialSums(f, S)[T \ {Pick(T)}] \in Nat
        BY <1>1, <3>1
      <3>3. PartialSums(f, S)[T] = f[Pick(T)] + PartialSums(f, S)[T \ {Pick(T)}]
        BY <1>0, <2>2
      <3>4. f[Pick(T)] \in Nat
        BY <3>1
      <3> QED BY <3>2, <3>3, <3>4
    <2> QED BY <2>1, <2>2
  <1> HIDE DEF G
  <1>2. S \in G
    BY <1>1, SubsetInduction
  <1> QED BY <1>2, SumEquation DEF G

\* The sum of zeros is zero.
LEMMA SumOfZeros ==
  ASSUME NEW S, IsFiniteSet(S), NEW f, \A x \in S : f[x] = 0
  PROVE  SumFunctionOnSet(f, S) = 0
  <1>0. \A T \in SUBSET S : T # {} =>
          PartialSums(f, S)[T] = f[Pick(T)] + PartialSums(f, S)[T \ {Pick(T)}]
    <2>1. OneByOne(f, S)
      BY SumEquation
    <2> QED BY <2>1 DEF OneByOne
  <1> DEFINE G == {T \in SUBSET S : PartialSums(f, S)[T] = 0}
  <1>1. ASSUME NEW T \in SUBSET S, \A U \in SUBSET T : U # T => U \in G
        PROVE  T \in G
    <2>1. CASE T = {}
      BY <2>1, SumEquation
    <2>2. CASE T # {}
      <3>1. Pick(T) \in T
        BY <2>2, PickRemoved
      <3>2. PartialSums(f, S)[T \ {Pick(T)}] = 0
        BY <1>1, <3>1
      <3>3. PartialSums(f, S)[T] = f[Pick(T)] + PartialSums(f, S)[T \ {Pick(T)}]
        BY <1>0, <2>2
      <3> QED BY <3>1, <3>2, <3>3
    <2> QED BY <2>1, <2>2
  <1> HIDE DEF G
  <1>2. S \in G
    BY <1>1, SubsetInduction
  <1> QED BY <1>2, SumEquation DEF G

\* Changing one summand changes the sum by as much.
LEMMA SumChanged ==
  ASSUME NEW S, IsFiniteSet(S), NEW f \in [S -> Nat], NEW g \in [S -> Nat],
         NEW a \in S, \A x \in S \ {a} : g[x] = f[x]
  PROVE  SumFunctionOnSet(g, S) + f[a] = SumFunctionOnSet(f, S) + g[a]
  <1>f. \A T \in SUBSET S : T # {} =>
          PartialSums(f, S)[T] = f[Pick(T)] + PartialSums(f, S)[T \ {Pick(T)}]
    <2>1. OneByOne(f, S)
      BY SumEquation
    <2> QED BY <2>1 DEF OneByOne
  <1>g. \A T \in SUBSET S : T # {} =>
          PartialSums(g, S)[T] = g[Pick(T)] + PartialSums(g, S)[T \ {Pick(T)}]
    <2>1. OneByOne(g, S)
      BY SumEquation
    <2> QED BY <2>1 DEF OneByOne
  <1> DEFINE G == {T \in SUBSET S :
                     /\ PartialSums(f, S)[T] \in Int
                     /\ PartialSums(g, S)[T] \in Int
                     /\ PartialSums(g, S)[T] = PartialSums(f, S)[T] +
                          (IF a \in T THEN g[a] - f[a] ELSE 0)}
  <1>1. ASSUME NEW T \in SUBSET S, \A U \in SUBSET T : U # T => U \in G
        PROVE  T \in G
    <2>1. CASE T = {}
      BY <2>1, SumEquation
    <2>2. CASE T # {}
      <3> DEFINE p == Pick(T)
      <3> DEFINE U == T \ {p}
      <3>1. p \in T
        BY <2>2, PickRemoved
      <3>2. U \in G
        BY <1>1, <3>1
      <3>3. /\ PartialSums(f, S)[T] = f[p] + PartialSums(f, S)[U]
            /\ PartialSums(g, S)[T] = g[p] + PartialSums(g, S)[U]
        BY <1>f, <1>g, <2>2
      <3>4. f[p] \in Nat /\ g[p] \in Nat /\ f[a] \in Nat /\ g[a] \in Nat
        BY <3>1
      <3>5. CASE p = a
        <4>1. a \notin U /\ a \in T
          BY <3>1, <3>5
        <4> QED BY <3>2, <3>3, <3>4, <3>5, <4>1
      <3>6. CASE p # a
        <4>1. g[p] = f[p] /\ (a \in U <=> a \in T)
          BY <3>1, <3>6
        <4> QED BY <3>2, <3>3, <3>4, <4>1
      <3> QED BY <3>5, <3>6
    <2> QED BY <2>1, <2>2
  <1> HIDE DEF G
  <1>2. S \in G
    BY <1>1, SubsetInduction
  <1> QED BY <1>2, SumEquation DEF G

-----------------------------------------------------------------------------
\* A transfer that passes its three checks keeps balances in range, and takes
\* from nobody but `from`, and from it no more than value.
LEMMA MoveTypes ==
  ASSUME ERC20TypeOK, NEW from \in Address, NEW to \in Address,
         NEW value \in Amount, Move(from, to, value)
  PROVE  /\ balances' \in [Address -> Amount]
         /\ \A a \in Address :
              balances'[a] < balances[a] =>
                a = from /\ balances[a] - balances'[a] = value
  <1>1. Width \in Nat /\ value \in 0 .. Width - 1
    BY ERC20Assumption DEF Amount
  <1>2. balances \in [Address -> 0 .. Width - 1]
    BY DEF ERC20TypeOK, Amount
  <1>3. balances[from] >= value
    BY DEF Move
  <1> DEFINE debited == Debited(from, value)
  <1>4. /\ debited \in [Address -> 0 .. Width - 1]
        /\ debited[from] = balances[from] - value
        /\ \A a \in Address \ {from} : debited[a] = balances[a]
    <2>1. debited = [balances EXCEPT ![from] = balances[from] - value]
      BY <1>2 DEF Debited
    <2>2. balances[from] - value \in 0 .. Width - 1
      BY <1>1, <1>2, <1>3
    <2> QED BY <1>2, <2>1, <2>2
  <1>5. balances' = [debited EXCEPT ![to] = debited[to] + value]
    BY <1>4 DEF Move
  <1>6. debited[to] + value \in 0 .. Width - 1
    <2>1. debited[to] + value < Width
      BY DEF Move, AddFits
    <2> QED BY <1>1, <1>4, <2>1
  <1> HIDE DEF debited
  <1>7. balances' \in [Address -> 0 .. Width - 1]
    BY <1>4, <1>5, <1>6
  <1>8. ASSUME NEW a \in Address, balances'[a] < balances[a]
        PROVE  a = from /\ balances[a] - balances'[a] = value
    <2>1. CASE a = to
      <3>1. balances'[a] = debited[a] + value
        BY <1>4, <1>5, <2>1
      <3>2. CASE a = from
        BY <1>1, <1>2, <1>4, <1>8, <3>1, <3>2
      <3>3. CASE a # from
        BY <1>1, <1>2, <1>4, <1>8, <3>1, <3>3
      <3> QED BY <3>2, <3>3
    <2>2. CASE a # to
      <3>1. balances'[a] = debited[a]
        BY <1>4, <1>5, <2>2
      <3>2. CASE a = from
        BY <1>1, <1>2, <1>4, <3>1, <3>2
      <3>3. CASE a # from
        BY <1>2, <1>4, <1>8, <3>1, <3>3
      <3> QED BY <3>2, <3>3
    <2> QED BY <2>1, <2>2
  <1> QED BY <1>7, <1>8 DEF Amount

\* Spending takes value from the one allowance, which covered it.
LEMMA SpendTypes ==
  ASSUME ERC20TypeOK, NEW from \in Address, NEW sender \in Address,
         NEW value \in Amount, Spend(from, sender, value)
  PROVE  /\ allowances' \in [Address \X Address -> Amount]
         /\ allowances[<<from, sender>>] - allowances'[<<from, sender>>] = value
  <1>1. Width \in Nat /\ value \in 0 .. Width - 1
    BY ERC20Assumption DEF Amount
  <1>2. allowances \in [Address \X Address -> 0 .. Width - 1]
    BY DEF ERC20TypeOK, Amount
  <1> DEFINE key == <<from, sender>>
  <1>3. key \in Address \X Address
    OBVIOUS
  <1>4. /\ allowances[key] >= value
        /\ allowances' = [allowances EXCEPT ![key] = allowances[key] - value]
    BY DEF Spend
  <1> HIDE DEF key
  <1>5. allowances[key] - value \in 0 .. Width - 1
    BY <1>1, <1>2, <1>3, <1>4
  <1>6. /\ allowances' \in [Address \X Address -> 0 .. Width - 1]
        /\ allowances'[key] = allowances[key] - value
    BY <1>2, <1>3, <1>4, <1>5
  <1>7. allowances[key] - allowances'[key] = value
    BY <1>1, <1>2, <1>3, <1>6
  <1> QED BY <1>6, <1>7 DEF key, Amount

\* The constructor seeds the token within range.
LEMMA InitTypes == Init => ERC20TypeOK
  <1>1. 0 \in Amount /\ supply \in Amount /\ deployer \in Address
    BY ERC20Assumption DEF Amount
  <1> QED BY <1>1 DEF Init, ERC20TypeOK

\* Every transaction keeps the types, and debits only with authority.
LEMMA StepAuthorized ==
  ASSUME ERC20TypeOK, [Next]_vars
  PROVE  /\ ERC20TypeOK'
         /\ \A a \in Address :
              balances'[a] < balances[a] =>
                \/ caller' = a
                \/ allowances[<<a, caller'>>] - allowances'[<<a, caller'>>]
                     = balances[a] - balances'[a]
  <1> DEFINE Authorized ==
        \A a \in Address :
          balances'[a] < balances[a] =>
            \/ caller' = a
            \/ allowances[<<a, caller'>>] - allowances'[<<a, caller'>>]
                 = balances[a] - balances'[a]
  <1>0. Width \in Nat /\ balances \in [Address -> 0 .. Width - 1]
    BY ERC20Assumption DEF ERC20TypeOK, Amount
  <1>1. balances' = balances => Authorized
    <2> SUFFICES ASSUME balances' = balances, NEW a \in Address
                 PROVE  ~(balances'[a] < balances[a])
      OBVIOUS
    <2>1. balances[a] \in Int
      BY <1>0
    <2> QED BY <2>1
  <1>2. ASSUME NEW sender \in Address, NEW to \in Address, NEW value \in Amount,
               transfer(sender, to, value)
        PROVE  ERC20TypeOK' /\ Authorized
    <2>1. Move(sender, to, value) /\ caller' = sender
          /\ total_supply' = total_supply /\ allowances' = allowances
      BY <1>2 DEF transfer
    <2>2. balances' \in [Address -> Amount]
      BY <2>1, MoveTypes
    <2>3. \A a \in Address : balances'[a] < balances[a] => a = sender
      BY <2>1, MoveTypes
    <2>4. ERC20TypeOK'
      BY <2>1, <2>2 DEF ERC20TypeOK
    <2>5. Authorized
      BY <2>1, <2>3
    <2> QED BY <2>4, <2>5
  <1>3. ASSUME NEW sender \in Address, NEW to \in Address, NEW value \in Amount,
               approve(sender, to, value)
        PROVE  ERC20TypeOK' /\ Authorized
    <2>1. ERC20TypeOK'
      BY <1>3 DEF approve, ERC20TypeOK
    <2>2. balances' = balances
      BY <1>3 DEF approve
    <2> QED BY <1>1, <2>1, <2>2
  <1>4. ASSUME NEW sender \in Address, NEW to \in Address, NEW value \in Amount,
               NEW from \in Address, transferFrom(sender, from, to, value)
        PROVE  ERC20TypeOK' /\ Authorized
    <2>1. /\ Spend(from, sender, value) /\ Move(from, to, value)
          /\ caller' = sender /\ total_supply' = total_supply
      BY <1>4 DEF transferFrom
    <2>2. /\ balances' \in [Address -> Amount]
          /\ \A a \in Address :
               balances'[a] < balances[a] =>
                 a = from /\ balances[a] - balances'[a] = value
      BY <2>1, MoveTypes
    <2>3. /\ allowances' \in [Address \X Address -> Amount]
          /\ allowances[<<from, sender>>] - allowances'[<<from, sender>>] = value
      BY <2>1, SpendTypes
    <2>4. ERC20TypeOK'
      BY <2>1, <2>2, <2>3 DEF ERC20TypeOK
    <2>5. Authorized
      BY <2>1, <2>2, <2>3
    <2> QED BY <2>4, <2>5
  <1>5. CASE UNCHANGED vars
    <2>1. ERC20TypeOK' /\ balances' = balances
      BY <1>5 DEF vars, ERC20TypeOK
    <2> QED BY <1>1, <2>1
  <1> HIDE DEF Authorized
  <1>6. CASE Next
    <2>1. PICK sender \in Address, to \in Address, value \in Amount :
            \/ transfer(sender, to, value)
            \/ approve(sender, to, value)
            \/ \E from \in Address : transferFrom(sender, from, to, value)
      BY <1>6 DEF Next
    <2>2. ERC20TypeOK' /\ Authorized
      BY <2>1, <1>2, <1>3, <1>4
    <2> QED BY <2>2 DEF Authorized
  <1> QED BY <1>5, <1>6 DEF Authorized

\* Amounts stay in range, for any supply and width: no checked operation of
\* the template ever lets a value through that does not fit.
THEOREM TypeCorrect == Spec => []ERC20TypeOK
  <1>1. ERC20TypeOK /\ [Next]_vars => ERC20TypeOK'
    BY StepAuthorized
  <1> QED BY <1>1, InitTypes, PTL DEF Spec

\* A balance falls only with authority, for any number of accounts.
THEOREM Authority == Spec => OnlyAuthorizedDebits
  <1>1. ERC20TypeOK /\ [Next]_vars =>
          [\A a \in Address :
             balances'[a] < balances[a] =>
               \/ caller' = a
               \/ allowances[<<a, caller'>>] - allowances'[<<a, caller'>>]
                    = balances[a] - balances'[a]]_vars
    BY StepAuthorized
  <1> QED BY <1>1, TypeCorrect, PTL DEF Spec, OnlyAuthorizedDebits

\* A transfer, to oneself included, neither creates nor destroys tokens.
LEMMA MoveKeepsSum ==
  ASSUME ERC20TypeOK, NEW from \in Address, NEW to \in Address,
         NEW value \in Amount, Move(from, to, value)
  PROVE  SumFunctionOnSet(balances', Address) = SumFunctionOnSet(balances, Address)
  <1>1. Width \in Nat /\ value \in 0 .. Width - 1 /\ IsFiniteSet(Address)
    BY ERC20Assumption DEF Amount
  <1>2. balances \in [Address -> Nat] /\ balances' \in [Address -> Nat]
    BY <1>1, MoveTypes DEF ERC20TypeOK, Amount
  <1> DEFINE debited == Debited(from, value)
  <1>3. /\ debited \in [Address -> Nat]
        /\ debited[from] = balances[from] - value
        /\ \A a \in Address \ {from} : debited[a] = balances[a]
    <2>1. balances[from] >= value /\ balances[from] - value \in Nat
      BY <1>1, <1>2 DEF Move
    <2> QED BY <1>2, <2>1 DEF Debited
  <1>4. balances' = [debited EXCEPT ![to] = debited[to] + value]
    BY <1>3 DEF Move
  <1> HIDE DEF debited
  <1>5. /\ balances'[to] = debited[to] + value
        /\ \A a \in Address \ {to} : balances'[a] = debited[a]
    BY <1>3, <1>4
  <1>6. /\ SumFunctionOnSet(balances, Address) \in Nat
        /\ SumFunctionOnSet(debited, Address) \in Nat
        /\ SumFunctionOnSet(balances', Address) \in Nat
    BY <1>1, <1>2, <1>3, SumIsNat
  <1>7. SumFunctionOnSet(debited, Address) + balances[from]
          = SumFunctionOnSet(balances, Address) + debited[from]
    BY <1>1, <1>2, <1>3, SumChanged
  <1>8. SumFunctionOnSet(balances', Address) + debited[to]
          = SumFunctionOnSet(debited, Address) + balances'[to]
    BY <1>1, <1>2, <1>3, <1>5, SumChanged
  <1>9. balances[from] \in Nat /\ debited[to] \in Nat /\ value \in Nat
    BY <1>1, <1>2, <1>3
  <1>10. SumFunctionOnSet(debited, Address) + value = SumFunctionOnSet(balances, Address)
    BY <1>3, <1>6, <1>7, <1>9
  <1>11. SumFunctionOnSet(balances', Address) = SumFunctionOnSet(debited, Address) + value
    BY <1>5, <1>6, <1>8, <1>9
  <1> QED BY <1>10, <1>11

\* The constructor seeds one balance with the whole supply.
LEMMA InitSupply == Init => SupplyIsSumOfBalances
  <1> SUFFICES ASSUME Init PROVE SumFunctionOnSet(balances, Address) = total_supply
    BY DEF SupplyIsSumOfBalances
  <1>1. IsFiniteSet(Address) /\ deployer \in Address /\ supply \in Nat
    BY ERC20Assumption DEF Amount
  <1> DEFINE zeros == [a \in Address |-> 0]
  <1>2. zeros \in [Address -> Nat] /\ \A a \in Address : zeros[a] = 0
    OBVIOUS
  <1>3. /\ balances \in [Address -> Nat] /\ balances[deployer] = supply
        /\ \A a \in Address \ {deployer} : balances[a] = zeros[a]
        /\ total_supply = supply
    BY <1>1 DEF Init
  <1> HIDE DEF zeros
  <1>4. SumFunctionOnSet(zeros, Address) = 0
    BY <1>1, <1>2, SumOfZeros
  <1>5. SumFunctionOnSet(balances, Address) \in Nat
    BY <1>1, <1>3, SumIsNat
  <1>6. SumFunctionOnSet(balances, Address) + zeros[deployer]
          = SumFunctionOnSet(zeros, Address) + balances[deployer]
    BY <1>1, <1>2, <1>3, SumChanged
  <1> QED BY <1>1, <1>2, <1>3, <1>4, <1>5, <1>6

\* No transaction changes the sum or the supply.
LEMMA StepKeepsSupply ==
  ASSUME ERC20TypeOK, SupplyIsSumOfBalances, [Next]_vars
  PROVE  SupplyIsSumOfBalances'
  <1> SUFFICES /\ SumFunctionOnSet(balances', Address) = SumFunctionOnSet(balances, Address)
               /\ total_supply' = total_supply
    BY DEF SupplyIsSumOfBalances
  <1>1. ASSUME NEW sender \in Address, NEW to \in Address, NEW value \in Amount,
               transfer(sender, to, value)
        PROVE  /\ SumFunctionOnSet(balances', Address) = SumFunctionOnSet(balances, Address)
               /\ total_supply' = total_supply
    BY <1>1, MoveKeepsSum DEF transfer
  <1>2. ASSUME NEW sender \in Address, NEW to \in Address, NEW value \in Amount,
               approve(sender, to, value)
        PROVE  /\ SumFunctionOnSet(balances', Address) = SumFunctionOnSet(balances, Address)
               /\ total_supply' = total_supply
    BY <1>2 DEF approve
  <1>3. ASSUME NEW sender \in Address, NEW to \in Address, NEW value \in Amount,
               NEW from \in Address, transferFrom(sender, from, to, value)
        PROVE  /\ SumFunctionOnSet(balances', Address) = SumFunctionOnSet(balances, Address)
               /\ total_supply' = total_supply
    BY <1>3, MoveKeepsSum DEF transferFrom
  <1>4. CASE UNCHANGED vars
    BY <1>4 DEF vars
  <1> QED BY <1>1, <1>2, <1>3, <1>4 DEF Next

\* The public supply is the sum of all balances, for any number of accounts
\* and after any sequence of transactions: the check of conform.rs holds.
THEOREM Supply == Spec => []SupplyIsSumOfBalances
  <1>1. ERC20TypeOK /\ SupplyIsSumOfBalances /\ [Next]_vars => SupplyIsSumOfBalances'
    BY StepKeepsSupply
  <1> QED BY <1>1, InitSupply, TypeCorrect, PTL DEF Spec
=============================================================================
