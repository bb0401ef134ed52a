-------------------------- MODULE SecretTokenProofs --------------------------
(***************************************************************************)
(* The confidential token, for any set of accounts, any supply, width and  *)
(* heap bound, and whatever words clients name: its balances are live      *)
(* ciphertexts.  A transaction whose amount is no handle it mints itself   *)
(* keeps their sum and debits with authority only, and one that gives no   *)
(* stored word a value either, nor moves anything from an account to       *)
(* itself, is a transaction of the plain token.                            *)
(***************************************************************************)
EXTENDS SecretToken, FiniteSetTheorems, TLAPS

\* What the ciphertexts encrypt.
PlainBalances   == [a \in Address |-> balanceOf(a)]
PlainAllowances == [k \in Address \X Address |-> resolve_fhe(precompiles, allowances[k])]

\* The plain token on what the ciphertexts encrypt, and what is proved of it.
Ledger == INSTANCE ERC20TokenProofs WITH
  total_supply <- totalSupply,
  balances <- PlainBalances,
  allowances <- PlainAllowances,
  caller <- receipt.caller

-----------------------------------------------------------------------------
\* Arithmetic modulo Width.
LEMMA WidthIsNat == Width \in Nat /\ 2 <= Width /\ Width \in Nat \ {0}
  BY FheAssumption

LEMMA Multiple ==
  ASSUME NEW W \in Nat \ {0}, NEW d \in Int,
         NEW r \in 0 .. W - 1, NEW s \in 0 .. W - 1, W * d = r - s
  PROVE  r = s
  <1>0. ASSUME NEW n \in Int, n >= 1 PROVE W * n >= W
    BY <1>0
  <1>1. CASE d >= 1
    BY <1>0, <1>1
  <1>2. CASE d <= -1
    <2>1. W * (-d) >= W
      BY <1>0, <1>2
    <2>2. W * (-d) = s - r
      OBVIOUS
    <2> QED BY <2>1, <2>2
  <1>3. CASE d = 0
    BY <1>3
  <1> QED BY <1>1, <1>2, <1>3

\* A number and a multiple of W more have the same remainder.
LEMMA SameRemainder ==
  ASSUME NEW W \in Nat \ {0}, NEW x \in Nat, NEW k \in Nat
  PROVE  (x + k * W) % W = x % W
  <1>0. ASSUME NEW z \in Int
        PROVE  z = W * (z \div W) + (z % W) /\ z % W \in 0 .. W - 1 /\ z \div W \in Int
    OBVIOUS
  <1> DEFINE y == x + k * W
  <1>1. y \in Int /\ y = x + k * W
    OBVIOUS
  <1> HIDE DEF y
  <1>2. x = W * (x \div W) + (x % W) /\ x % W \in 0 .. W - 1 /\ x \div W \in Int
    BY <1>0
  <1>3. y = W * (y \div W) + (y % W) /\ y % W \in 0 .. W - 1 /\ y \div W \in Int
    BY <1>0, <1>1
  <1> DEFINE q == x \div W
             p == y \div W
             r == x % W
             s == y % W
  <1>4. /\ x = W * q + r /\ q \in Int /\ r \in 0 .. W - 1
        /\ y = W * p + s /\ p \in Int /\ s \in 0 .. W - 1
    BY <1>2, <1>3
  <1> HIDE DEF q, p, r, s
  <1>5. W * (q + k - p) = s - r
    BY <1>1, <1>4
  <1>6. s = r
    BY <1>4, <1>5, Multiple
  <1> QED BY <1>6 DEF s, r, y

-----------------------------------------------------------------------------
\* Heaps.  Handles are numbered from 1 without a gap.
HeapOK(h) ==
  /\ h.fhe_nonce \in Nat
  /\ DOMAIN h.fhe_handles = 1 .. h.fhe_nonce
  /\ \A k \in 1 .. h.fhe_nonce : h.fhe_handles[k] \in Plain

\* The handles g has and h has not.
Fresh(g, h) == Minted(h) + 1 .. Minted(g)

\* g is h after some mints: every word but the handles minted resolves to what
\* it did, words that are no ciphertext yet included.
Grown(g, h) ==
  /\ HeapOK(g)
  /\ Minted(h) <= Minted(g)
  /\ \A k : k \notin Fresh(g, h) => resolve_fhe(g, k) = resolve_fhe(h, k)

\* Every word resolves to a plaintext.
LEMMA Resolved ==
  ASSUME NEW h, HeapOK(h), NEW k
  PROVE  resolve_fhe(h, k) \in Plain
  BY WidthIsNat DEF HeapOK, resolve_fhe, Plain

\* A mint adds one handle, which resolves to its plaintext, and changes no
\* other.
LEMMA Mint ==
  ASSUME NEW h, HeapOK(h), NEW p \in Plain
  PROVE  /\ Grown(mint_fhe(h, p), h)
         /\ Minted(mint_fhe(h, p)) = Minted(h) + 1
         /\ resolve_fhe(mint_fhe(h, p), Minted(h) + 1) = p
  <1> DEFINE g == mint_fhe(h, p)
             n == h.fhe_nonce
  <1>1. /\ n \in Nat
        /\ g.fhe_nonce = n + 1
        /\ g.fhe_handles = [k \in DOMAIN h.fhe_handles \cup {n + 1} |->
                              IF k = n + 1 THEN p ELSE h.fhe_handles[k]]
    BY DEF HeapOK, mint_fhe
  <1>2. DOMAIN h.fhe_handles = 1 .. n /\ \A k \in 1 .. n : h.fhe_handles[k] \in Plain
    BY DEF HeapOK
  <1> HIDE DEF g, n
  <1>3. (1 .. n) \cup {n + 1} = 1 .. (n + 1)
    BY <1>1
  <1>4. /\ DOMAIN g.fhe_handles = 1 .. (n + 1)
        /\ g.fhe_handles[n + 1] = p
        /\ \A k \in 1 .. n : g.fhe_handles[k] = h.fhe_handles[k]
    BY <1>1, <1>2, <1>3
  <1>5. HeapOK(g)
    BY <1>1, <1>2, <1>4 DEF HeapOK
  <1>6. ASSUME NEW k, k # n + 1
        PROVE  resolve_fhe(g, k) = resolve_fhe(h, k)
    <2>1. k \in 1 .. (n + 1) <=> k \in 1 .. n
      BY <1>3, <1>6
    <2> QED BY <1>2, <1>4, <2>1 DEF resolve_fhe
  <1>7. resolve_fhe(g, n + 1) = p
    BY <1>1, <1>4 DEF resolve_fhe
  <1>8. Minted(h) = n /\ Minted(g) = n + 1
    BY <1>1 DEF Minted, n
  <1>9. n + 1 \in Fresh(g, h)
    BY <1>1, <1>8 DEF Fresh
  <1> QED BY <1>1, <1>5, <1>6, <1>7, <1>8, <1>9 DEF Grown, g

\* Growing twice is growing.
LEMMA GrownTwice ==
  ASSUME NEW h, NEW g, NEW f, HeapOK(h), Grown(g, h), Grown(f, g)
  PROVE  Grown(f, h)
  <1>1. Minted(h) \in Nat /\ Minted(g) \in Nat /\ Minted(f) \in Nat
    BY DEF Grown, HeapOK, Minted
  <1>2. Minted(h) <= Minted(g) /\ Minted(g) <= Minted(f)
    BY DEF Grown
  <1>3. Fresh(g, h) \subseteq Fresh(f, h) /\ Fresh(f, g) \subseteq Fresh(f, h)
    BY <1>1, <1>2 DEF Fresh
  <1> QED BY <1>1, <1>2, <1>3 DEF Grown

\* A word keeps its meaning through two heaps if it does not turn into a
\* ciphertext on the way.
LEMMA KeptTwice ==
  ASSUME NEW h, NEW g, NEW f, HeapOK(h), Grown(g, h), Grown(f, g),
         NEW w, w \notin Fresh(f, h)
  PROVE  /\ resolve_fhe(g, w) = resolve_fhe(h, w)
         /\ resolve_fhe(f, w) = resolve_fhe(h, w)
         /\ w \notin Fresh(g, h) /\ w \notin Fresh(f, g)
  <1>1. Minted(h) \in Nat /\ Minted(g) \in Nat /\ Minted(f) \in Nat
    BY DEF Grown, HeapOK, Minted
  <1>2. Fresh(g, h) \subseteq Fresh(f, h) /\ Fresh(f, g) \subseteq Fresh(f, h)
    BY <1>1 DEF Fresh, Grown
  <1> QED BY <1>2 DEF Grown

\* A word the heap had keeps its meaning.
LEMMA OldIsKept ==
  ASSUME NEW h, NEW g, HeapOK(h), Grown(g, h), NEW w \in 0 .. Minted(h)
  PROVE  w \notin Fresh(g, h) /\ resolve_fhe(g, w) = resolve_fhe(h, w)
  BY DEF Grown, Fresh, HeapOK, Minted

\* The comparison behind AssertEncrypted decides whether a covers b.
LEMMA Compared ==
  ASSUME NEW h, HeapOK(h), NEW a, NEW b
  PROVE  /\ Grown(CheckGe(h, a, b), h)
         /\ Minted(CheckGe(h, a, b)) = Minted(h) + 1
         /\ Passed(CheckGe(h, a, b)) <=> resolve_fhe(h, a) >= resolve_fhe(h, b)
  <1> DEFINE p == IF resolve_fhe(h, a) >= resolve_fhe(h, b) THEN 1 ELSE 0
  <1>1. p \in Plain /\ CheckGe(h, a, b) = mint_fhe(h, p)
    BY WidthIsNat DEF CheckGe, FHE_CMP_GE, Plain
  <1>2. p # 0 <=> resolve_fhe(h, a) >= resolve_fhe(h, b)
    OBVIOUS
  <1> HIDE DEF p
  <1>3. /\ Grown(mint_fhe(h, p), h)
        /\ Minted(mint_fhe(h, p)) = Minted(h) + 1
        /\ resolve_fhe(mint_fhe(h, p), Minted(h) + 1) = p
    BY <1>1, Mint
  <1> QED BY <1>1, <1>2, <1>3 DEF Passed, FHE_THRESHOLD_DECRYPT_BOOL

\* The difference, exact when there is no borrow.
LEMMA Subtracted ==
  ASSUME NEW h, HeapOK(h), NEW a, NEW b
  PROVE  /\ Grown(FHE_SUB(h, a, b), h)
         /\ Minted(FHE_SUB(h, a, b)) = Minted(h) + 1
         /\ resolve_fhe(h, b) <= resolve_fhe(h, a) =>
              resolve_fhe(FHE_SUB(h, a, b), Minted(h) + 1)
                = resolve_fhe(h, a) - resolve_fhe(h, b)
  <1> DEFINE x == resolve_fhe(h, a)
             y == resolve_fhe(h, b)
  <1>1. x \in 0 .. Width - 1 /\ y \in 0 .. Width - 1
    BY Resolved DEF Plain
  <1>2. FHE_SUB(h, a, b) = mint_fhe(h, (x + Width - y) % Width)
    BY DEF FHE_SUB
  <1> HIDE DEF x, y
  <1>3. (x + Width - y) % Width \in Plain
    BY <1>1, WidthIsNat DEF Plain
  <1>4. y <= x => (x + Width - y) % Width = x - y
    BY <1>1, WidthIsNat
  <1> QED BY <1>2, <1>3, <1>4, Mint DEF x, y

\* The sum, which wraps.
LEMMA Added ==
  ASSUME NEW h, HeapOK(h), NEW a, NEW b
  PROVE  /\ Grown(FHE_ADD(h, a, b), h)
         /\ Minted(FHE_ADD(h, a, b)) = Minted(h) + 1
         /\ resolve_fhe(FHE_ADD(h, a, b), Minted(h) + 1)
              = (resolve_fhe(h, a) + resolve_fhe(h, b)) % Width
  <1> DEFINE x == resolve_fhe(h, a)
             y == resolve_fhe(h, b)
  <1>1. x \in 0 .. Width - 1 /\ y \in 0 .. Width - 1
    BY Resolved DEF Plain
  <1>2. FHE_ADD(h, a, b) = mint_fhe(h, (x + y) % Width)
    BY DEF FHE_ADD
  <1> HIDE DEF x, y
  <1>3. (x + y) % Width \in Plain
    BY <1>1, WidthIsNat DEF Plain
  <1> QED BY <1>2, <1>3, Mint DEF x, y
-----------------------------------------------------------------------------
\* What a transaction does to what the ciphertexts encrypt.

\* value leaves from and reaches to, where the sum may wrap.  An account's
\* transfer to itself adds: its balance is read once, and the write to `to`
\* overwrites the write to `from`.
Moved(from, to, value) ==
  /\ value <= PlainBalances[from]
  /\ \A a \in Address \ {from, to} : PlainBalances'[a] = PlainBalances[a]
  /\ from # to => PlainBalances'[from] = PlainBalances[from] - value
  /\ PlainBalances'[to] = (PlainBalances[to] + value) % Width
  /\ selfAdded' = selfAdded + (IF from = to THEN value ELSE 0)

\* A word the step does not turn into a ciphertext.
Settled(w) == w \notin Fresh(precompiles', precompiles)

\* The allowances whose key is not in K encrypt what they did, unless the step
\* turned them into ciphertexts.
AllowancesKept(K) ==
  \A k \in (Address \X Address) \ K :
    Settled(allowances[k]) => PlainAllowances'[k] = PlainAllowances[k]

\* No balance changed.
Quiet ==
  /\ PlainBalances' = PlainBalances
  /\ selfAdded' = selfAdded
  /\ AllowancesKept({})

\* The heap of a typed state.
LEMMA TypedHeap ==
  ASSUME TokenTypeOK
  PROVE  /\ HeapOK(precompiles)
         /\ Minted(precompiles) = precompiles.fhe_nonce
         /\ balances \in [Address -> 0 .. Minted(precompiles)]
         /\ allowances \in [Address \X Address -> 0 .. MaxHandles]
         /\ PlainBalances \in [Address -> Plain]
         /\ PlainAllowances \in [Address \X Address -> Plain]
  <1>1. HeapOK(precompiles)
    BY TokenAssumption DEF TokenTypeOK, HeapOK
  <1>2. \A k : resolve_fhe(precompiles, k) \in Plain
    BY <1>1, Resolved
  <1> QED
    BY <1>1, <1>2
    DEF TokenTypeOK, Minted, PlainBalances, PlainAllowances, balanceOf

\* As long as the heap only grows, balances nobody writes keep their meaning.
LEMMA BalancesKept ==
  ASSUME TokenTypeOK, Grown(precompiles', precompiles), balances' = balances
  PROVE  PlainBalances' = PlainBalances
  <1>1. \A a \in Address :
          resolve_fhe(precompiles', balances[a]) = resolve_fhe(precompiles, balances[a])
    BY TypedHeap, OldIsKept
  <1> QED BY <1>1 DEF PlainBalances, balanceOf

\* An allowance nobody writes keeps its meaning once it is settled.
LEMMA AllowancesUnwritten ==
  ASSUME Grown(precompiles', precompiles), NEW K,
         \A k \in (Address \X Address) \ K : allowances'[k] = allowances[k]
  PROVE  AllowancesKept(K)
  BY DEF AllowancesKept, PlainAllowances, Settled, Grown

\* Both new balances are computed from the old ones before either is written.
LEMMA MoveEffect ==
  ASSUME TokenTypeOK, NEW heap, Grown(heap, precompiles),
         NEW from \in Address, NEW to \in Address, NEW amount,
         MoveEncrypted(heap, from, to, amount)
  PROVE  /\ Grown(precompiles', precompiles) /\ Grown(precompiles', heap)
         /\ Minted(precompiles') = Minted(heap) + 2
         /\ balances' \in [Address -> 0 .. Minted(precompiles')]
         /\ selfAdded' \in Nat
         /\ /\ Settled(amount)
            /\ resolve_fhe(precompiles, amount) <= PlainBalances[from]
            => Moved(from, to, resolve_fhe(precompiles, amount))
  <1> DEFINE value == resolve_fhe(precompiles, amount)
             n == Minted(heap)
             subbed == FHE_SUB(heap, balances[from], amount)
             added == FHE_ADD(subbed, balances[to], amount)
  <1>1. /\ HeapOK(precompiles) /\ HeapOK(heap) /\ n \in Nat
        /\ Minted(precompiles) \in Nat /\ Minted(precompiles) <= n
        /\ \A a \in Address : balances[a] \in 0 .. Minted(precompiles)
        /\ balances \in [Address -> 0 .. Minted(precompiles)]
    BY TypedHeap DEF Grown, HeapOK, Minted
  <1>2. /\ Grown(subbed, heap) /\ Minted(subbed) = n + 1
        /\ resolve_fhe(heap, amount) <= resolve_fhe(heap, balances[from]) =>
             resolve_fhe(subbed, n + 1)
               = resolve_fhe(heap, balances[from]) - resolve_fhe(heap, amount)
    BY <1>1, Subtracted
  <1>3. /\ Grown(added, subbed) /\ Minted(added) = n + 2
        /\ resolve_fhe(added, n + 2)
             = (resolve_fhe(subbed, balances[to]) + resolve_fhe(subbed, amount)) % Width
    <2>1. HeapOK(subbed)
      BY <1>2 DEF Grown
    <2> HIDE DEF subbed
    <2>2. /\ Grown(added, subbed) /\ Minted(added) = Minted(subbed) + 1
          /\ resolve_fhe(added, Minted(subbed) + 1)
               = (resolve_fhe(subbed, balances[to]) + resolve_fhe(subbed, amount)) % Width
      BY <2>1, Added
    <2>3. Minted(subbed) + 1 = n + 2
      BY <1>1, <1>2
    <2> QED BY <2>2, <2>3
  <1>4. /\ precompiles' = added
        /\ balances' = [[balances EXCEPT ![from] = n + 1] EXCEPT ![to] = n + 2]
        /\ selfAdded' = IF from = to
                          THEN selfAdded + resolve_fhe(heap, amount) ELSE selfAdded
    <2>1. /\ precompiles' = added
          /\ balances' = [[balances EXCEPT ![from] = Minted(subbed)] EXCEPT ![to] = Minted(added)]
          /\ selfAdded' = IF from = to
                            THEN selfAdded + resolve_fhe(heap, amount) ELSE selfAdded
      BY DEF MoveEncrypted
    <2> HIDE DEF subbed, added
    <2> QED BY <1>2, <1>3, <2>1
  <1> HIDE DEF subbed, added
  <1>5. Grown(added, heap) /\ Grown(subbed, precompiles) /\ Grown(added, precompiles)
    <2>1. Grown(added, heap) /\ Grown(subbed, precompiles)
      BY <1>1, <1>2, <1>3, GrownTwice
    <2> QED BY <1>1, <1>3, <2>1, GrownTwice
  <1>6. balances' \in [Address -> 0 .. n + 2]
    <2>1. balances \in [Address -> 0 .. n + 2]
      BY <1>1
    <2>2. n + 1 \in 0 .. n + 2 /\ n + 2 \in 0 .. n + 2
      BY <1>1
    <2> QED BY <1>4, <2>1, <2>2
  <1>7. selfAdded' \in Nat
    <2>1. resolve_fhe(heap, amount) \in Nat /\ selfAdded \in Nat
      BY <1>1, Resolved, WidthIsNat DEF TokenTypeOK, Plain
    <2> QED BY <1>4, <2>1
  <1>8. ASSUME Settled(amount), value <= PlainBalances[from]
        PROVE  Moved(from, to, value)
    <2>1. amount \notin Fresh(added, precompiles)
      BY <1>4, <1>8 DEF Settled
    <2>2. /\ resolve_fhe(subbed, amount) = value
          /\ amount \notin Fresh(subbed, precompiles)
      BY <1>1, <1>3, <1>5, <2>1, KeptTwice
    <2>3. resolve_fhe(heap, amount) = value
      BY <1>1, <1>2, <2>2, KeptTwice
    <2>4. \A a \in Address :
            /\ resolve_fhe(heap, balances[a]) = PlainBalances[a]
            /\ resolve_fhe(subbed, balances[a]) = PlainBalances[a]
            /\ resolve_fhe(added, balances[a]) = PlainBalances[a]
      BY <1>1, <1>5, OldIsKept DEF PlainBalances, balanceOf
    <2>5. resolve_fhe(subbed, n + 1) = PlainBalances[from] - value
      BY <1>2, <1>8, <2>3, <2>4
    <2>6. resolve_fhe(added, n + 1) = PlainBalances[from] - value
      <3>1. n + 1 \in 0 .. Minted(subbed) /\ HeapOK(subbed)
        BY <1>1, <1>2 DEF Grown
      <3> QED BY <1>3, <2>5, <3>1, OldIsKept
    <2>7. resolve_fhe(added, n + 2) = (PlainBalances[to] + value) % Width
      BY <1>3, <2>2, <2>4
    <2>8. \A a \in Address : PlainBalances'[a] = resolve_fhe(added, balances'[a])
      BY <1>4 DEF PlainBalances, balanceOf
    <2>9. /\ balances'[to] = n + 2
          /\ from # to => balances'[from] = n + 1
          /\ \A a \in Address \ {from, to} : balances'[a] = balances[a]
      BY <1>1, <1>4
    <2>10. selfAdded' = selfAdded + (IF from = to THEN value ELSE 0)
      <3>1. selfAdded \in Nat /\ value \in Nat
        BY <1>1, Resolved, WidthIsNat DEF TokenTypeOK, Plain
      <3> HIDE DEF value
      <3> QED BY <1>4, <2>3, <3>1
    <2> HIDE DEF value
    <2> QED BY <1>8, <2>4, <2>6, <2>7, <2>8, <2>9, <2>10 DEF Moved
  <1> QED BY <1>3, <1>4, <1>5, <1>6, <1>7, <1>8 DEF value

\* The types after a step that grew the heap within its bound.
LEMMA TypesKept ==
  ASSUME TokenTypeOK, Grown(precompiles', precompiles),
         Minted(precompiles') <= MaxHandles,
         balances' \in [Address -> 0 .. Minted(precompiles')],
         allowances' \in [Address \X Address -> 0 .. MaxHandles],
         selfAdded' \in Nat
  PROVE  TokenTypeOK'
  <1>1. /\ precompiles'.fhe_nonce \in Nat
        /\ DOMAIN precompiles'.fhe_handles = 1 .. precompiles'.fhe_nonce
        /\ \A h \in 1 .. precompiles'.fhe_nonce : precompiles'.fhe_handles[h] \in Plain
        /\ Minted(precompiles') = precompiles'.fhe_nonce
    BY DEF Grown, HeapOK, Minted
  <1>2. precompiles'.fhe_nonce \in 0 .. MaxHandles
    BY <1>1, TokenAssumption
  <1> QED BY <1>1, <1>2 DEF TokenTypeOK

\* Balances nobody writes are still handles of the heap.
LEMMA WordsKept ==
  ASSUME TokenTypeOK, Grown(precompiles', precompiles)
  PROVE  /\ Minted(precompiles) \in Nat /\ Minted(precompiles') \in Nat
         /\ balances \in [Address -> 0 .. Minted(precompiles')]
  <1>1. /\ Minted(precompiles) \in Nat /\ Minted(precompiles') \in Nat
        /\ Minted(precompiles) <= Minted(precompiles')
    BY TypedHeap DEF Grown, HeapOK, Minted
  <1> QED BY <1>1, TypedHeap

-----------------------------------------------------------------------------
\* The kinds of step, on what the ciphertexts encrypt.
Approved(caller, spender, amount) ==
  /\ receipt' = Receipt(caller, amount, TRUE)
  /\ PlainBalances' = PlainBalances
  /\ selfAdded' = selfAdded
  /\ PlainAllowances' =
       [PlainAllowances EXCEPT ![<<caller, spender>>] = resolve_fhe(precompiles, amount)]

Transferred(caller, to, amount) ==
  /\ receipt' = Receipt(caller, amount, TRUE)
  /\ AllowancesKept({})
  /\ Settled(amount) => Moved(caller, to, resolve_fhe(precompiles, amount))

\* value is spent from the allowance of key.
Spent(key, value) ==
  /\ value <= PlainAllowances[key]
  /\ Settled(allowances[key]) =>
       PlainAllowances'[key] = PlainAllowances[key] - value

TransferredFrom(caller, from, to, amount) ==
  /\ receipt' = Receipt(caller, amount, TRUE)
  /\ AllowancesKept({<<from, caller>>})
  /\ Settled(amount) =>
       /\ Spent(<<from, caller>>, resolve_fhe(precompiles, amount))
       /\ Moved(from, to, resolve_fhe(precompiles, amount))

Effect ==
  \/ Quiet
  \/ \E caller, to \in Address, amount \in Words :
       \/ Approved(caller, to, amount)
       \/ Transferred(caller, to, amount)
       \/ \E from \in Address : TransferredFrom(caller, from, to, amount)

\* A transaction that reverts keeps the storage; what it minted stays.
LEMMA RevertedEffect ==
  ASSUME TokenTypeOK, NEW heap, Grown(heap, precompiles), NEW caller, NEW amount,
         Minted(heap) <= MaxHandles, Reverted(heap, caller, amount)
  PROVE  TokenTypeOK' /\ Effect
  <1>1. /\ Grown(precompiles', precompiles) /\ Minted(precompiles') <= MaxHandles
        /\ UNCHANGED <<balances, allowances, selfAdded>>
    BY DEF Reverted
  <1>2. TokenTypeOK'
    BY <1>1, WordsKept, TypesKept DEF TokenTypeOK
  <1>3. Quiet
    BY <1>1, BalancesKept, AllowancesUnwritten DEF Quiet
  <1> QED BY <1>2, <1>3 DEF Effect

LEMMA MintEffect ==
  ASSUME TokenTypeOK, NEW p \in Amounts, mint_handle(p)
  PROVE  TokenTypeOK' /\ Effect
  <1>1. /\ precompiles' = mint_fhe(precompiles, p)
        /\ UNCHANGED <<balances, allowances, receipt, selfAdded>>
        /\ precompiles.fhe_nonce + 1 <= MaxHandles
    BY DEF mint_handle, HeapHasRoom
  <1>2. Grown(precompiles', precompiles) /\ Minted(precompiles') = Minted(precompiles) + 1
    BY <1>1, TypedHeap, TokenAssumption, Mint
  <1>3. Minted(precompiles') <= MaxHandles
    BY <1>1, <1>2, TypedHeap
  <1>4. TokenTypeOK'
    BY <1>1, <1>2, <1>3, WordsKept, TypesKept DEF TokenTypeOK
  <1>5. Quiet
    BY <1>1, <1>2, BalancesKept, AllowancesUnwritten DEF Quiet
  <1> QED BY <1>4, <1>5 DEF Effect

LEMMA ApproveEffect ==
  ASSUME TokenTypeOK, NEW caller \in Address, NEW spender \in Address,
         NEW amount \in Words, approveEncrypted(caller, spender, amount)
  PROVE  TokenTypeOK' /\ Effect
  <1> DEFINE key == <<caller, spender>>
  <1>1. /\ allowances' = [allowances EXCEPT ![key] = amount]
        /\ receipt' = Receipt(caller, amount, TRUE)
        /\ UNCHANGED <<precompiles, balances, selfAdded>>
    BY DEF approveEncrypted
  <1>2. key \in Address \X Address
    OBVIOUS
  <1> HIDE DEF key
  <1>3. TokenTypeOK'
    BY <1>1, <1>2, TokenAssumption DEF TokenTypeOK
  <1>4. PlainAllowances' = [PlainAllowances EXCEPT ![key] = resolve_fhe(precompiles, amount)]
    BY <1>1, <1>2, TypedHeap DEF PlainAllowances
  <1>5. PlainBalances' = PlainBalances
    BY <1>1 DEF PlainBalances, balanceOf
  <1>6. Approved(caller, spender, amount)
    BY <1>1, <1>4, <1>5 DEF Approved, key
  <1> QED BY <1>3, <1>6 DEF Effect

LEMMA TransferEffect ==
  ASSUME TokenTypeOK, NEW caller \in Address, NEW to \in Address,
         NEW amount \in Words, transferEncrypted(caller, to, amount)
  PROVE  TokenTypeOK' /\ Effect
  <1> DEFINE checked == CheckGe(precompiles, balances[caller], amount)
             value == resolve_fhe(precompiles, amount)
  <1>1. /\ Grown(checked, precompiles)
        /\ Minted(checked) = Minted(precompiles) + 1
        /\ Passed(checked) <=> PlainBalances[caller] >= value
    BY TypedHeap, Compared DEF PlainBalances, balanceOf
  <1>2. /\ Minted(precompiles) \in Nat
        /\ Minted(precompiles) + 3 <= MaxHandles
    BY TypedHeap DEF transferEncrypted, HeapHasRoom, HeapOK, Minted
  <1>3. value \in Plain
    BY TypedHeap, Resolved
  <1>4. CASE ~ Passed(checked)
    <2>1. Reverted(checked, caller, amount)
      BY <1>4 DEF transferEncrypted
    <2> HIDE DEF checked
    <2>2. Minted(checked) <= MaxHandles
      BY <1>1, <1>2, TokenAssumption
    <2> QED BY <1>1, <2>1, <2>2, RevertedEffect
  <1>5. CASE Passed(checked)
    <2>1. /\ MoveEncrypted(checked, caller, to, amount)
          /\ receipt' = Receipt(caller, amount, TRUE)
          /\ UNCHANGED allowances
      BY <1>5 DEF transferEncrypted
    <2> HIDE DEF checked
    <2>2. value <= PlainBalances[caller]
      BY <1>1, <1>3, <1>5, TypedHeap, WidthIsNat DEF Plain
    <2>3. /\ Grown(precompiles', precompiles)
          /\ Minted(precompiles') = Minted(checked) + 2
          /\ balances' \in [Address -> 0 .. Minted(precompiles')]
          /\ selfAdded' \in Nat
          /\ Settled(amount) => Moved(caller, to, value)
      BY <1>1, <2>1, <2>2, MoveEffect
    <2>4. Minted(precompiles') <= MaxHandles
      BY <1>1, <1>2, <2>3, TokenAssumption
    <2>5. TokenTypeOK'
      BY <2>1, <2>3, <2>4, TypesKept DEF TokenTypeOK
    <2>6. AllowancesKept({})
      BY <2>1, <2>3, AllowancesUnwritten
    <2>7. Transferred(caller, to, amount)
      BY <2>1, <2>3, <2>6 DEF Transferred
    <2> QED BY <2>5, <2>7 DEF Effect
  <1> QED BY <1>4, <1>5

LEMMA TransferFromEffect ==
  ASSUME TokenTypeOK, NEW caller \in Address, NEW from \in Address,
         NEW to \in Address, NEW amount \in Words,
         transferFromEncrypted(caller, from, to, amount)
  PROVE  TokenTypeOK' /\ Effect
  <1> DEFINE key == <<from, caller>>
             allowed == CheckGe(precompiles, allowances[key], amount)
             funded == CheckGe(allowed, balances[from], amount)
             spent == FHE_SUB(funded, allowances[key], amount)
             value == resolve_fhe(precompiles, amount)
             n == Minted(precompiles)
  <1>1. /\ HeapOK(precompiles) /\ n \in Nat /\ n + 5 <= MaxHandles
        /\ key \in Address \X Address
        /\ balances[from] \in 0 .. n
        /\ resolve_fhe(precompiles, allowances[key]) = PlainAllowances[key]
        /\ resolve_fhe(precompiles, balances[from]) = PlainBalances[from]
        /\ PlainAllowances[key] \in Plain /\ PlainBalances[from] \in Plain
    BY TypedHeap
    DEF transferFromEncrypted, HeapHasRoom, HeapOK, Minted, PlainAllowances,
        PlainBalances, balanceOf
  <1>2. value \in Plain
    BY TypedHeap, Resolved
  <1>3. \/ ~Passed(allowed) /\ Reverted(allowed, caller, amount)
        \/ Passed(allowed) /\ ~Passed(funded) /\ Reverted(funded, caller, amount)
        \/ /\ Passed(allowed) /\ Passed(funded)
           /\ allowances' = [allowances EXCEPT ![key] = Minted(spent)]
           /\ MoveEncrypted(spent, from, to, amount)
           /\ receipt' = Receipt(caller, amount, TRUE)
    BY DEF transferFromEncrypted
  <1>4. /\ Grown(allowed, precompiles) /\ Minted(allowed) = n + 1
        /\ Passed(allowed) <=> PlainAllowances[key] >= value
    <2> HIDE DEF key
    <2> QED BY <1>1, Compared
  <1> HIDE DEF key, allowed
  <1>5. HeapOK(allowed)
    BY <1>4 DEF Grown
  <1>6. /\ Grown(funded, allowed) /\ Minted(funded) = n + 2
        /\ Passed(funded) <=>
             resolve_fhe(allowed, balances[from]) >= resolve_fhe(allowed, amount)
    <2>1. /\ Grown(funded, allowed) /\ Minted(funded) = Minted(allowed) + 1
          /\ Passed(funded) <=>
               resolve_fhe(allowed, balances[from]) >= resolve_fhe(allowed, amount)
      BY <1>5, Compared
    <2> HIDE DEF funded
    <2> QED BY <1>1, <1>4, <2>1
  <1> HIDE DEF funded
  <1>7. HeapOK(funded) /\ Grown(funded, precompiles)
    BY <1>1, <1>4, <1>6, GrownTwice DEF Grown
  <1>8. CASE ~Passed(allowed)
    <2>1. Minted(allowed) <= MaxHandles
      BY <1>1, <1>4, TokenAssumption
    <2> QED BY <1>3, <1>4, <1>8, <2>1, RevertedEffect
  <1>9. CASE Passed(allowed) /\ ~Passed(funded)
    <2>1. Minted(funded) <= MaxHandles
      BY <1>1, <1>6, TokenAssumption
    <2> QED BY <1>3, <1>7, <1>9, <2>1, RevertedEffect
  <1>10. CASE Passed(allowed) /\ Passed(funded)
    <2>1. /\ Grown(spent, funded) /\ Minted(spent) = n + 3
          /\ resolve_fhe(funded, amount) <= resolve_fhe(funded, allowances[key]) =>
               resolve_fhe(spent, n + 3)
                 = resolve_fhe(funded, allowances[key]) - resolve_fhe(funded, amount)
      <3>1. /\ Grown(spent, funded) /\ Minted(spent) = Minted(funded) + 1
            /\ resolve_fhe(funded, amount) <= resolve_fhe(funded, allowances[key]) =>
                 resolve_fhe(spent, Minted(funded) + 1)
                   = resolve_fhe(funded, allowances[key]) - resolve_fhe(funded, amount)
        BY <1>7, Subtracted
      <3>2. Minted(funded) + 1 = n + 3
        BY <1>1, <1>6
      <3> HIDE DEF spent
      <3> QED BY <3>1, <3>2
    <2>2. Grown(spent, precompiles)
      BY <1>1, <1>7, <2>1, GrownTwice
    <2>3. /\ allowances' = [allowances EXCEPT ![key] = n + 3]
          /\ MoveEncrypted(spent, from, to, amount)
          /\ receipt' = Receipt(caller, amount, TRUE)
      BY <1>3, <1>10, <2>1
    <2> HIDE DEF spent
    <2>4. /\ Grown(precompiles', precompiles) /\ Grown(precompiles', spent)
          /\ Minted(precompiles') = Minted(spent) + 2
          /\ balances' \in [Address -> 0 .. Minted(precompiles')]
          /\ selfAdded' \in Nat
          /\ Settled(amount) /\ value <= PlainBalances[from] => Moved(from, to, value)
      BY <2>2, <2>3, MoveEffect
    <2> HIDE DEF n
    <2>5. Minted(precompiles') <= MaxHandles /\ n + 3 \in 0 .. MaxHandles
      BY <1>1, <2>1, <2>4, TokenAssumption
    <2>6. allowances' \in [Address \X Address -> 0 .. MaxHandles]
      BY <2>3, <2>5, TypedHeap
    <2>7. TokenTypeOK'
      BY <2>3, <2>4, <2>5, <2>6, TypesKept
    <2>8. AllowancesKept({key})
      <3>1. \A k \in (Address \X Address) \ {key} : allowances'[k] = allowances[k]
        BY <2>3, TypedHeap
      <3> QED BY <2>4, <3>1, AllowancesUnwritten
    <2>9. ASSUME Settled(amount)
          PROVE  Spent(key, value) /\ Moved(from, to, value)
      <3>1. /\ amount \notin Fresh(spent, precompiles)
        BY <1>1, <2>2, <2>4, <2>9, KeptTwice DEF Settled
      <3>2. /\ resolve_fhe(funded, amount) = value
            /\ amount \notin Fresh(funded, precompiles)
        BY <1>1, <1>7, <2>1, <3>1, KeptTwice
      <3>3. resolve_fhe(allowed, amount) = value
        BY <1>1, <1>4, <1>6, <3>2, KeptTwice
      <3>4. resolve_fhe(allowed, balances[from]) = PlainBalances[from]
        BY <1>1, <1>4, OldIsKept DEF n
      <3> HIDE DEF value
      <3>5. value <= PlainBalances[from] /\ value <= PlainAllowances[key]
        BY <1>1, <1>2, <1>4, <1>6, <1>10, <3>3, <3>4, WidthIsNat DEF Plain
      <3>6. ASSUME Settled(allowances[key])
            PROVE  PlainAllowances'[key] = PlainAllowances[key] - value
        <4>1. /\ allowances[key] \notin Fresh(spent, precompiles)
          BY <1>1, <2>2, <2>4, <3>6, KeptTwice DEF Settled
        <4>2. resolve_fhe(funded, allowances[key]) = PlainAllowances[key]
          BY <1>1, <1>7, <2>1, <4>1, KeptTwice
        <4>3. resolve_fhe(spent, n + 3) = PlainAllowances[key] - value
          BY <2>1, <3>2, <3>5, <4>2
        <4>4. n + 3 \in 0 .. Minted(spent) /\ HeapOK(spent)
          BY <1>1, <2>1 DEF Grown
        <4>5. resolve_fhe(precompiles', n + 3) = PlainAllowances[key] - value
          BY <2>4, <4>3, <4>4, OldIsKept
        <4>6. allowances'[key] = n + 3
          BY <1>1, <2>3, TypedHeap
        <4> QED BY <1>1, <4>5, <4>6 DEF PlainAllowances
      <3> QED BY <2>4, <2>9, <3>5, <3>6 DEF Spent
    <2>10. TransferredFrom(caller, from, to, amount)
      BY <2>3, <2>8, <2>9 DEF TransferredFrom, key, value
    <2> QED BY <2>7, <2>10 DEF Effect
  <1> QED BY <1>8, <1>9, <1>10

\* Every step is one of them.
LEMMA NextEffect ==
  ASSUME TokenTypeOK, [Next]_vars
  PROVE  TokenTypeOK' /\ Effect
  <1>1. CASE UNCHANGED vars
    <2>1. UNCHANGED <<precompiles, balances, allowances, selfAdded>>
      BY <1>1 DEF vars
    <2>2. TokenTypeOK'
      BY <2>1 DEF TokenTypeOK
    <2>3. Quiet
      BY <2>1 DEF Quiet, AllowancesKept, PlainBalances, PlainAllowances, balanceOf
    <2> QED BY <2>2, <2>3 DEF Effect
  <1>2. ASSUME NEW caller \in Address, NEW to \in Address, NEW amount \in Words,
               \/ transferEncrypted(caller, to, amount)
               \/ approveEncrypted(caller, to, amount)
               \/ \E from \in Address : transferFromEncrypted(caller, from, to, amount)
        PROVE  TokenTypeOK' /\ Effect
    BY <1>2, ApproveEffect, TransferEffect, TransferFromEffect
  <1> QED BY <1>1, <1>2, MintEffect DEF Next

\* The constructor mints the genesis amount for the deployer.
LEMMA InitTypes ==
  ASSUME Init
  PROVE  /\ TokenTypeOK
         /\ PlainBalances = [a \in Address |-> IF a = deployer THEN supply ELSE 0]
         /\ PlainAllowances = [k \in Address \X Address |-> 0]
         /\ selfAdded = 0
  <1> DEFINE genesis == FHE_ENCRYPT_TRIVIAL(EmptyHeap, supply)
  <1>1. HeapOK(EmptyHeap) /\ Minted(EmptyHeap) = 0
    BY DEF HeapOK, EmptyHeap, Minted
  <1>2. /\ HeapOK(genesis) /\ Minted(genesis) = 1
        /\ resolve_fhe(genesis, 1) = supply
    BY <1>1, Mint, TokenAssumption DEF FHE_ENCRYPT_TRIVIAL, Grown
  <1>3. resolve_fhe(genesis, 0) = 0
    BY <1>2 DEF HeapOK, Minted, resolve_fhe
  <1>4. /\ precompiles = genesis
        /\ balances = [a \in Address |-> IF a = deployer THEN 1 ELSE 0]
        /\ allowances = [k \in Address \X Address |-> 0]
        /\ selfAdded = 0
    BY <1>2 DEF Init, NULL
  <1> HIDE DEF genesis
  <1>5. TokenTypeOK
    <2>1. /\ precompiles.fhe_nonce = 1
          /\ DOMAIN precompiles.fhe_handles = 1 .. 1
          /\ \A h \in 1 .. 1 : precompiles.fhe_handles[h] \in Plain
      BY <1>2, <1>4 DEF HeapOK, Minted
    <2>2. 1 \in 0 .. MaxHandles
      BY TokenAssumption
    <2>3. /\ balances \in [Address -> 0 .. 1]
          /\ allowances \in [Address \X Address -> 0 .. MaxHandles]
          /\ selfAdded \in Nat
      BY <1>4, TokenAssumption
    <2> QED BY <2>1, <2>2, <2>3 DEF TokenTypeOK
  <1>6. PlainBalances = [a \in Address |-> IF a = deployer THEN supply ELSE 0]
    BY <1>2, <1>3, <1>4 DEF PlainBalances, balanceOf
  <1>7. PlainAllowances = [k \in Address \X Address |-> 0]
    BY <1>2, <1>3, <1>4 DEF PlainAllowances
  <1> QED BY <1>4, <1>5, <1>6, <1>7

\* A balance is a live ciphertext or unset, whatever words clients name and
\* whatever handles reverted transactions left behind.
THEOREM TypeCorrect == Spec => []TokenTypeOK
  <1>1. TokenTypeOK /\ [Next]_vars => TokenTypeOK'
    BY NextEffect
  <1>2. Init => TokenTypeOK
    BY InitTypes
  <1> QED BY <1>1, <1>2, PTL DEF Spec

-----------------------------------------------------------------------------
\* The sum of the balances.

\* What the lemmas about the plain token assume of its constants, and that
\* finite sets and sums are the same there and here.
LEMMA LedgerAssumed == Ledger!ERC20Assumption /\ Ledger!IsFiniteSet(Address)
  BY TokenAssumption, WidthIsNat
  DEF Ledger!ERC20Assumption, Ledger!Amount, Plain, IsFiniteSet, Ledger!IsFiniteSet

LEMMA SameSums ==
  ASSUME NEW f, NEW S
  PROVE  Ledger!SumFunctionOnSet(f, S) = SumFunctionOnSet(f, S)
  BY DEF SumFunctionOnSet, FoldFunctionOnSet, MapThenFoldSet,
         Ledger!SumFunctionOnSet, Ledger!FoldFunctionOnSet, Ledger!MapThenFoldSet

LEMMA SumOfNats ==
  ASSUME NEW f \in [Address -> Nat]
  PROVE  SumFunctionOnSet(f, Address) \in Nat
  BY LedgerAssumed, SameSums, Ledger!SumIsNat

LEMMA SumOfOneChange ==
  ASSUME NEW f \in [Address -> Nat], NEW g \in [Address -> Nat],
         NEW a \in Address, \A x \in Address \ {a} : g[x] = f[x]
  PROVE  SumFunctionOnSet(g, Address) + f[a] = SumFunctionOnSet(f, Address) + g[a]
  BY LedgerAssumed, SameSums, Ledger!SumChanged

\* The sum a run checks is the fold over what the ciphertexts encrypt.
BalancesAdd ==
  /\ PlainBalances \in [Address -> Nat]
  /\ SumOfBalances = SumFunctionOnSet(PlainBalances, Address)
  /\ SumOfBalances \in Nat

LEMMA BalanceSum == TokenTypeOK => BalancesAdd
  <1> SUFFICES ASSUME TokenTypeOK PROVE BalancesAdd
    OBVIOUS
  <1>1. PlainBalances \in [Address -> Nat]
    BY TypedHeap, WidthIsNat DEF Plain
  <1>2. SumOfBalances = SumFunctionOnSet(PlainBalances, Address)
    BY DEF SumOfBalances, PlainBalances
  <1> HIDE DEF PlainBalances
  <1> QED BY <1>1, <1>2, SumOfNats DEF BalancesAdd

\* A sum of two plaintexts wraps at most once.
LEMMA Wraps ==
  ASSUME NEW x \in Plain, NEW y \in Plain
  PROVE  \E w \in {0, Width} : ((x + y) % Width) + w = x + y
  <1>1. CASE x + y < Width
    BY <1>1, WidthIsNat DEF Plain
  <1>2. CASE ~(x + y < Width)
    <2>1. (x + y) % Width = x + y - Width
      BY <1>2, WidthIsNat DEF Plain
    <2> QED BY <2>1, WidthIsNat DEF Plain
  <1> QED BY <1>1, <1>2

\* A move keeps the sum up to what an account added to itself, and up to one
\* wrap of the credited balance.
LEMMA MovedSum ==
  ASSUME TokenTypeOK, TokenTypeOK', NEW from \in Address, NEW to \in Address,
         NEW value \in Plain, Moved(from, to, value)
  PROVE  \E w \in {0, Width} :
           /\ PlainBalances'[to] + w = PlainBalances[to] + value
           /\ SumOfBalances' + w = SumOfBalances + (IF from = to THEN value ELSE 0)
  <1> DEFINE old == PlainBalances
             new == PlainBalances'
             debited == IF from = to THEN old ELSE [old EXCEPT ![from] = old[from] - value]
  <1>1. /\ old \in [Address -> Plain] /\ old \in [Address -> Nat]
        /\ SumOfBalances = SumFunctionOnSet(old, Address) /\ SumOfBalances \in Nat
    BY TypedHeap, BalanceSum DEF BalancesAdd
  <1>2. /\ new \in [Address -> Nat]
        /\ SumOfBalances' = SumFunctionOnSet(new, Address) /\ SumOfBalances' \in Nat
    <2>1. BalancesAdd'
      BY BalanceSum, PTL
    <2> QED BY <2>1 DEF BalancesAdd
  <1>3. /\ value <= old[from]
        /\ \A a \in Address \ {from, to} : new[a] = old[a]
        /\ from # to => new[from] = old[from] - value
        /\ new[to] = (old[to] + value) % Width
    BY DEF Moved
  <1> HIDE DEF old, new
  <1>4. PICK w \in {0, Width} : new[to] + w = old[to] + value
    BY <1>1, <1>3, Wraps
  <1>5. /\ value \in Nat /\ w \in Nat
        /\ old[from] \in Nat /\ old[to] \in Nat /\ new[to] \in Nat
    BY <1>1, <1>2, WidthIsNat DEF Plain
  <1>6. /\ debited \in [Address -> Nat]
        /\ \A a \in Address \ {from} : debited[a] = old[a]
        /\ debited[from] = old[from] - (IF from = to THEN 0 ELSE value)
        /\ \A a \in Address \ {to} : new[a] = debited[a]
        /\ debited[to] = old[to]
    BY <1>1, <1>2, <1>3, <1>5
  <1> HIDE DEF debited
  <1>7. SumFunctionOnSet(debited, Address) \in Nat
    BY <1>6, SumOfNats
  <1>8. SumFunctionOnSet(debited, Address) + old[from] = SumOfBalances + debited[from]
    BY <1>1, <1>6, SumOfOneChange
  <1>9. SumOfBalances' + debited[to] = SumFunctionOnSet(debited, Address) + new[to]
    BY <1>2, <1>6, SumOfOneChange
  <1>10. SumFunctionOnSet(debited, Address)
           = SumOfBalances - (IF from = to THEN 0 ELSE value)
    BY <1>1, <1>5, <1>6, <1>7, <1>8
  <1>11. SumOfBalances' + w = SumFunctionOnSet(debited, Address) + value
    BY <1>2, <1>4, <1>5, <1>6, <1>7, <1>9
  <1>12. SumOfBalances' + w = SumOfBalances + (IF from = to THEN value ELSE 0)
    BY <1>1, <1>5, <1>10, <1>11
  <1> QED BY <1>4, <1>12 DEF old, new

\* The effect of a transaction with a settled amount on the sum: what it added
\* to itself, less one wrap or none.
LEMMA EffectOnSum ==
  ASSUME TokenTypeOK, TokenTypeOK', Effect, Settled(receipt'.amount)
  PROVE  \E w \in {0, Width} :
           SumOfBalances' + w = SumOfBalances + selfAdded' - selfAdded
  <1>1. /\ SumOfBalances \in Nat /\ SumOfBalances' \in Nat
        /\ selfAdded \in Nat /\ selfAdded' \in Nat
        /\ 0 \in {0, Width}
    <2>1. BalancesAdd /\ BalancesAdd'
      BY BalanceSum, PTL
    <2> QED BY <2>1 DEF BalancesAdd, TokenTypeOK
  <1>2. PlainBalances' = PlainBalances => SumOfBalances' = SumOfBalances
    <2>1. BalancesAdd /\ BalancesAdd'
      BY BalanceSum, PTL
    <2> QED BY <2>1 DEF BalancesAdd
  <1>3. ASSUME PlainBalances' = PlainBalances, selfAdded' = selfAdded
        PROVE  SumOfBalances' + 0 = SumOfBalances + selfAdded' - selfAdded
    BY <1>1, <1>2, <1>3
  <1>4. ASSUME NEW from \in Address, NEW to \in Address, NEW value \in Plain,
               Moved(from, to, value)
        PROVE  \E w \in {0, Width} :
                 SumOfBalances' + w = SumOfBalances + selfAdded' - selfAdded
    <2>1. PICK w \in {0, Width} :
            SumOfBalances' + w = SumOfBalances + (IF from = to THEN value ELSE 0)
      BY <1>4, MovedSum
    <2>2. selfAdded' = selfAdded + (IF from = to THEN value ELSE 0)
      BY <1>4 DEF Moved
    <2>3. (IF from = to THEN value ELSE 0) \in Nat
      BY WidthIsNat DEF Plain
    <2>4. SumOfBalances' + w = SumOfBalances + selfAdded' - selfAdded
      BY <1>1, <2>1, <2>2, <2>3
    <2> QED BY <2>4
  <1>5. CASE Quiet
    BY <1>1, <1>3, <1>5 DEF Quiet
  <1>6. ASSUME NEW caller \in Address, NEW to \in Address, NEW amount \in Words,
               \/ Approved(caller, to, amount)
               \/ Transferred(caller, to, amount)
               \/ \E from \in Address : TransferredFrom(caller, from, to, amount)
        PROVE  \E w \in {0, Width} :
                 SumOfBalances' + w = SumOfBalances + selfAdded' - selfAdded
    <2>1. Settled(amount) /\ resolve_fhe(precompiles, amount) \in Plain
      <3>1. receipt' = Receipt(caller, amount, TRUE)
        BY <1>6 DEF Approved, Transferred, TransferredFrom
      <3> QED BY <3>1, TypedHeap, Resolved DEF Receipt
    <2>2. CASE Approved(caller, to, amount)
      BY <1>1, <1>3, <2>2 DEF Approved
    <2>3. CASE Transferred(caller, to, amount)
      BY <1>4, <2>1, <2>3 DEF Transferred
    <2>4. CASE \E from \in Address : TransferredFrom(caller, from, to, amount)
      BY <1>4, <2>1, <2>4 DEF TransferredFrom
    <2> QED BY <1>6, <2>2, <2>3, <2>4
  <1> QED BY <1>5, <1>6 DEF Effect

\* What the properties call settled.
LEMMA SettledAmount ==
  ASSUME TokenTypeOK, TokenTypeOK'
  PROVE  AmountSettled <=> Settled(receipt'.amount)
  BY DEF AmountSettled, Settled, Fresh, Minted

\* The body of SupplyAccounted.
KeepsSum ==
  AmountSettled =>
    SumOfBalances' % Width = (SumOfBalances + selfAdded' - selfAdded) % Width

LEMMA StepKeepsSum ==
  ASSUME TokenTypeOK, TokenTypeOK', Effect
  PROVE  KeepsSum
  <1> SUFFICES ASSUME AmountSettled
               PROVE  SumOfBalances' % Width
                        = (SumOfBalances + selfAdded' - selfAdded) % Width
    BY DEF KeepsSum
  <1>1. PICK w \in {0, Width} :
          SumOfBalances' + w = SumOfBalances + selfAdded' - selfAdded
    BY SettledAmount, EffectOnSum
  <1>2. SumOfBalances' \in Nat /\ Width \in Nat \ {0}
    <2>1. BalancesAdd'
      BY BalanceSum, PTL
    <2> QED BY <2>1, WidthIsNat DEF BalancesAdd
  <1>3. (SumOfBalances' + w) % Width = SumOfBalances' % Width
    <2>1. CASE w = 0
      BY <1>2, <2>1
    <2>2. CASE w = Width
      <3>1. w = 1 * Width
        BY <1>2, <2>2
      <3> QED BY <1>2, <3>1, SameRemainder
    <2> QED BY <2>1, <2>2
  <1> QED BY <1>1, <1>3

\* Every transaction with a settled amount keeps the sum of the encrypted
\* balances modulo the width, but for what an account's transfer to itself
\* adds, for any accounts, any width and whatever words clients name.
THEOREM SupplyKept == Spec => SupplyAccounted
  <1>1. TokenTypeOK /\ TokenTypeOK' /\ [Next]_vars => KeepsSum
    BY NextEffect, StepKeepsSum
  <1>2. TokenTypeOK /\ TokenTypeOK' /\ [Next]_vars =>
          [AmountSettled =>
             SumOfBalances' % Width = (SumOfBalances + selfAdded' - selfAdded) % Width]_vars
    BY <1>1 DEF KeepsSum
  <1> QED BY <1>2, TypeCorrect, PTL DEF Spec, SupplyAccounted

-----------------------------------------------------------------------------
LEMMA NoRoomToWrap ==
  ASSUME NEW W \in Nat, NEW w \in {0, W}, NEW x \in Nat, x + w < W
  PROVE  w = 0
  OBVIOUS

\* While the balances fit a word together, no credit wraps.
LEMMA NoWrap ==
  ASSUME TokenTypeOK, TokenTypeOK', NEW from \in Address, NEW to \in Address,
         NEW value \in Plain, Moved(from, to, value),
         SumOfBalances + selfAdded' - selfAdded < Width
  PROVE  PlainBalances'[to] = PlainBalances[to] + value
  <1>1. PICK w \in {0, Width} :
          /\ PlainBalances'[to] + w = PlainBalances[to] + value
          /\ SumOfBalances' + w = SumOfBalances + (IF from = to THEN value ELSE 0)
    BY MovedSum
  <1> DEFINE d == IF from = to THEN value ELSE 0
  <1>2. selfAdded' = selfAdded + d /\ SumOfBalances' + w = SumOfBalances + d
    BY <1>1 DEF Moved
  <1>3. /\ SumOfBalances \in Nat /\ SumOfBalances' \in Nat
        /\ selfAdded \in Nat /\ Width \in Nat /\ d \in Nat /\ value \in Nat
        /\ PlainBalances[to] \in Nat /\ PlainBalances'[to] \in Nat
    <2>1. BalancesAdd /\ BalancesAdd'
      BY BalanceSum, PTL
    <2> QED BY <2>1, WidthIsNat DEF BalancesAdd, TokenTypeOK, Plain
  <1> HIDE DEF d
  <1>4. SumOfBalances' + w < Width
    <2>1. SumOfBalances + selfAdded' - selfAdded = SumOfBalances + d
      BY <1>2, <1>3
    <2>2. SumOfBalances + d < Width
      BY <2>1
    <2> QED BY <1>2, <2>2
  <1>5. w = 0
    BY <1>3, <1>4, NoRoomToWrap
  <1> QED BY <1>1, <1>3, <1>5

\* The body of OnlyAuthorizedDebits.
Authorized ==
  \A a \in Address :
    /\ AmountSettled
    /\ SumOfBalances + selfAdded' - selfAdded < Width
    /\ balanceOf(a)' < balanceOf(a)
    => /\ receipt'.ok
       /\ \/ receipt'.caller = a
          \/ \E spender \in Address :
               /\ receipt'.caller = spender
               /\ allowanceOf(a, spender) - allowanceOf(a, spender)'
                    = balanceOf(a) - balanceOf(a)'

\* What a move debits.
LEMMA OnlyFromFalls ==
  ASSUME TokenTypeOK, TokenTypeOK', NEW from \in Address, NEW to \in Address,
         NEW value \in Plain, Moved(from, to, value),
         SumOfBalances + selfAdded' - selfAdded < Width,
         NEW a \in Address, PlainBalances'[a] < PlainBalances[a]
  PROVE  a = from /\ PlainBalances[a] - PlainBalances'[a] = value /\ 0 < value
  <1>1. PlainBalances'[to] = PlainBalances[to] + value
    BY NoWrap
  <1>2. /\ PlainBalances[a] \in Nat /\ PlainBalances[to] \in Nat /\ value \in Nat
    BY TypedHeap, WidthIsNat DEF Plain
  <1>3. a # to
    BY <1>1, <1>2
  <1>4. a = from
    BY <1>2, <1>3 DEF Moved
  <1> QED BY <1>2, <1>3, <1>4 DEF Moved

\* A word that encrypts something is a ciphertext, which no step changes.
LEMMA NonzeroIsSettled ==
  ASSUME TokenTypeOK, NEW w, resolve_fhe(precompiles, w) # 0
  PROVE  Settled(w)
  <1>1. w \in 1 .. Minted(precompiles) /\ Minted(precompiles) \in Nat
    BY TypedHeap DEF resolve_fhe, HeapOK, Minted
  <1> QED BY <1>1 DEF Settled, Fresh

LEMMA StepAuthorized ==
  ASSUME TokenTypeOK, TokenTypeOK', Effect
  PROVE  Authorized
  <1> SUFFICES ASSUME NEW a \in Address, AmountSettled,
                      SumOfBalances + selfAdded' - selfAdded < Width,
                      balanceOf(a)' < balanceOf(a)
               PROVE  /\ receipt'.ok
                      /\ \/ receipt'.caller = a
                         \/ \E spender \in Address :
                              /\ receipt'.caller = spender
                              /\ allowanceOf(a, spender) - allowanceOf(a, spender)'
                                   = balanceOf(a) - balanceOf(a)'
    BY DEF Authorized
  <1>1. balanceOf(a) = PlainBalances[a] /\ balanceOf(a)' = PlainBalances'[a]
    BY DEF PlainBalances
  <1>2. \A s \in Address :
          /\ allowanceOf(a, s) = PlainAllowances[<<a, s>>]
          /\ allowanceOf(a, s)' = PlainAllowances'[<<a, s>>]
    BY DEF PlainAllowances, allowanceOf
  <1>3. PlainBalances'[a] < PlainBalances[a] /\ PlainBalances[a] \in Nat
    BY <1>1, TypedHeap, WidthIsNat DEF Plain
  <1>4. PlainBalances' # PlainBalances
    BY <1>3
  <1>5. PICK caller \in Address, to \in Address, amount \in Words :
          \/ Transferred(caller, to, amount)
          \/ \E from \in Address : TransferredFrom(caller, from, to, amount)
    BY <1>4 DEF Effect, Quiet, Approved
  <1> DEFINE value == resolve_fhe(precompiles, amount)
  <1>6. /\ receipt' = Receipt(caller, amount, TRUE)
        /\ receipt'.ok /\ receipt'.caller = caller
        /\ Settled(amount)
    <2>1. receipt' = Receipt(caller, amount, TRUE)
      BY <1>5 DEF Transferred, TransferredFrom
    <2> QED BY <2>1, SettledAmount DEF Receipt
  <1>7. value \in Plain
    BY TypedHeap, Resolved
  <1>8. CASE Transferred(caller, to, amount)
    <2>1. Moved(caller, to, value)
      BY <1>6, <1>8 DEF Transferred
    <2> HIDE DEF value
    <2>2. a = caller
      BY <1>3, <1>7, <2>1, OnlyFromFalls
    <2> QED BY <1>6, <2>2
  <1>9. ASSUME NEW from \in Address, TransferredFrom(caller, from, to, amount)
        PROVE  PlainAllowances[<<a, caller>>] - PlainAllowances'[<<a, caller>>]
                 = PlainBalances[a] - PlainBalances'[a]
    <2>1. Moved(from, to, value) /\ Spent(<<from, caller>>, value)
      BY <1>6, <1>9 DEF TransferredFrom
    <2> HIDE DEF value
    <2>2. a = from /\ PlainBalances[a] - PlainBalances'[a] = value /\ 0 < value
      BY <1>3, <1>7, <2>1, OnlyFromFalls
    <2>3. PlainAllowances[<<a, caller>>] \in Nat /\ value \in Nat
      BY <1>7, TypedHeap, WidthIsNat DEF Plain
    <2>4. Settled(allowances[<<a, caller>>])
      <3>1. PlainAllowances[<<a, caller>>] # 0
        BY <2>1, <2>2, <2>3 DEF Spent
      <3> QED BY <3>1, NonzeroIsSettled DEF PlainAllowances
    <2> QED BY <2>1, <2>2, <2>3, <2>4 DEF Spent
  <1>10. CASE \E from \in Address : TransferredFrom(caller, from, to, amount)
    <2>1. PlainAllowances[<<a, caller>>] - PlainAllowances'[<<a, caller>>]
            = PlainBalances[a] - PlainBalances'[a]
      BY <1>9, <1>10
    <2> QED BY <1>1, <1>2, <1>6, <2>1
  <1> QED BY <1>5, <1>8, <1>10

\* With a settled amount an encrypted balance falls only with authority, for
\* any number of accounts: no reverted transaction, stale handle, reused
\* ciphertext or allowance that was no ciphertext when it was given takes from
\* anybody.
THEOREM Authority == Spec => OnlyAuthorizedDebits
  <1>1. TokenTypeOK /\ TokenTypeOK' /\ [Next]_vars => Authorized
    BY NextEffect, StepAuthorized
  <1>2. TokenTypeOK /\ TokenTypeOK' /\ [Next]_vars =>
          [\A a \in Address :
             /\ AmountSettled
             /\ SumOfBalances + selfAdded' - selfAdded < Width
             /\ balanceOf(a)' < balanceOf(a)
             => /\ receipt'.ok
                /\ \/ receipt'.caller = a
                   \/ \E spender \in Address :
                        /\ receipt'.caller = spender
                        /\ allowanceOf(a, spender) - allowanceOf(a, spender)'
                             = balanceOf(a) - balanceOf(a)']_vars
    BY <1>1 DEF Authorized
  <1> QED BY <1>2, TypeCorrect, PTL DEF Spec, OnlyAuthorizedDebits

-----------------------------------------------------------------------------
\* No word the transaction reads or the token stores turns into a ciphertext
\* while it runs.
AllSettled ==
  /\ AmountSettled
  /\ \A k \in Address \X Address :
       allowances[k] \notin precompiles.fhe_nonce + 1 .. precompiles'.fhe_nonce

\* While the balances fit a word together, a transaction in which all words
\* are settled and which moves nothing from an account to itself is one of the
\* plain token, also with a ciphertext somebody else encrypted, or changes no
\* plaintext (one that reverts, and an encryption).
ActsAsPlainToken ==
  [][AllSettled /\ selfAdded' = selfAdded /\ SumOfBalances < Width =>
       \/ receipt'.ok /\ Ledger!Next
       \/ UNCHANGED <<PlainBalances, PlainAllowances>>]_vars

\* A move nobody made to himself is the plain token's.
LEMMA MoveIsPlain ==
  ASSUME TokenTypeOK, TokenTypeOK', NEW from \in Address, NEW to \in Address,
         NEW value \in Plain, Moved(from, to, value),
         selfAdded' = selfAdded, SumOfBalances < Width
  PROVE  Ledger!Move(from, to, value)
  <1> DEFINE old == PlainBalances
             new == PlainBalances'
  <1>1. /\ old \in [Address -> Plain] /\ value \in Nat /\ Width \in Nat
        /\ \A a \in Address : old[a] \in Nat
        /\ SumOfBalances \in Nat /\ selfAdded \in Nat
    BY TypedHeap, BalanceSum, WidthIsNat DEF Plain, BalancesAdd, TokenTypeOK
  <1>2. new[to] = old[to] + value
    <2>1. SumOfBalances + selfAdded' - selfAdded < Width
      BY <1>1
    <2> QED BY <2>1, NoWrap
  <1>3. new[to] < Width /\ new \in [Address -> Nat]
    <2>1. BalancesAdd'
      BY BalanceSum, PTL
    <2>2. new[to] = (old[to] + value) % Width
      BY DEF Moved
    <2> HIDE DEF old, new
    <2>3. old[to] + value \in Nat
      BY <1>1
    <2> QED BY <1>1, <2>1, <2>2, <2>3, WidthIsNat DEF BalancesAdd, new
  <1>4. /\ value <= old[from]
        /\ \A a \in Address \ {from, to} : new[a] = old[a]
        /\ from # to => new[from] = old[from] - value
        /\ from = to => value = 0
    <2>1. selfAdded' = selfAdded + (IF from = to THEN value ELSE 0)
      BY DEF Moved
    <2>2. from = to => value = 0
      BY <1>1, <2>1
    <2> QED BY <2>2 DEF Moved
  <1> HIDE DEF old, new
  <1>5. new = [[old EXCEPT ![from] = old[from] - value] EXCEPT ![to] = @ + value]
    BY <1>1, <1>2, <1>3, <1>4
  <1> QED
    BY <1>1, <1>2, <1>3, <1>4, <1>5
    DEF Ledger!Move, Ledger!Debited, Ledger!AddFits, Ledger!SubFits, old, new

\* With every word settled, an allowance nobody writes is kept and the others
\* with it.
LEMMA SpendIsPlain ==
  ASSUME TokenTypeOK, NEW from \in Address, NEW caller \in Address, NEW value \in Plain,
         Spent(<<from, caller>>, value), AllowancesKept({<<from, caller>>}),
         \A k \in Address \X Address : Settled(allowances[k])
  PROVE  Ledger!Spend(from, caller, value)
  <1> DEFINE key == <<from, caller>>
  <1>1. /\ key \in Address \X Address
        /\ PlainAllowances \in [Address \X Address -> Plain]
        /\ PlainAllowances[key] \in Nat /\ value \in Nat
    BY TypedHeap, WidthIsNat DEF Plain
  <1>2. /\ value <= PlainAllowances[key]
        /\ PlainAllowances'[key] = PlainAllowances[key] - value
        /\ \A k \in (Address \X Address) \ {key} : PlainAllowances'[k] = PlainAllowances[k]
    BY <1>1 DEF Spent, AllowancesKept
  <1>3. PlainAllowances' = [k \in Address \X Address |-> PlainAllowances'[k]]
    BY DEF PlainAllowances
  <1> HIDE DEF key
  <1>4. PlainAllowances' = [PlainAllowances EXCEPT ![key] = @ - value]
    BY <1>1, <1>2, <1>3
  <1> QED BY <1>1, <1>2, <1>4 DEF Ledger!Spend, Ledger!SubFits, key

LEMMA AllowancesAreKept ==
  ASSUME TokenTypeOK, AllowancesKept({}),
         \A k \in Address \X Address : Settled(allowances[k])
  PROVE  PlainAllowances' = PlainAllowances
  <1>1. \A k \in Address \X Address : PlainAllowances'[k] = PlainAllowances[k]
    BY DEF AllowancesKept
  <1>2. PlainAllowances' = [k \in Address \X Address |-> PlainAllowances'[k]]
    BY DEF PlainAllowances
  <1> QED BY <1>1, <1>2, TypedHeap

LEMMA StepActsAsPlain ==
  ASSUME TokenTypeOK, TokenTypeOK', Effect,
         AllSettled, selfAdded' = selfAdded, SumOfBalances < Width
  PROVE  \/ receipt'.ok /\ Ledger!Next
         \/ UNCHANGED <<PlainBalances, PlainAllowances>>
  <1>1. /\ Settled(receipt'.amount)
        /\ \A k \in Address \X Address : Settled(allowances[k])
    BY SettledAmount DEF AllSettled, Settled, Fresh, Minted
  <1>2. CASE Quiet
    BY <1>1, <1>2, AllowancesAreKept DEF Quiet
  <1>3. ASSUME NEW caller \in Address, NEW to \in Address, NEW amount \in Words,
               \/ Approved(caller, to, amount)
               \/ Transferred(caller, to, amount)
               \/ \E from \in Address : TransferredFrom(caller, from, to, amount)
        PROVE  receipt'.ok /\ Ledger!Next
    <2> DEFINE value == resolve_fhe(precompiles, amount)
    <2>1. /\ value \in Plain /\ value \in Ledger!Amount
          /\ totalSupply' = totalSupply
      BY TypedHeap, Resolved DEF Ledger!Amount, Plain, totalSupply
    <2>2. receipt'.ok /\ receipt'.caller = caller /\ Settled(amount)
      <3>1. receipt' = Receipt(caller, amount, TRUE)
        BY <1>3 DEF Approved, Transferred, TransferredFrom
      <3> QED BY <1>1, <3>1 DEF Receipt
    <2>3. CASE Approved(caller, to, amount)
      <3>1. Ledger!approve(caller, to, value)
        BY <2>1, <2>2, <2>3 DEF Ledger!approve, Approved
      <3> QED BY <2>1, <2>2, <3>1 DEF Ledger!Next
    <2>4. CASE Transferred(caller, to, amount)
      <3>1. Moved(caller, to, value) /\ PlainAllowances' = PlainAllowances
        BY <1>1, <2>2, <2>4, AllowancesAreKept DEF Transferred
      <3> HIDE DEF value
      <3>2. Ledger!Move(caller, to, value)
        BY <2>1, <3>1, MoveIsPlain
      <3>3. Ledger!transfer(caller, to, value)
        BY <2>1, <2>2, <3>1, <3>2 DEF Ledger!transfer
      <3> QED BY <2>1, <2>2, <3>3 DEF Ledger!Next
    <2>5. ASSUME NEW from \in Address, TransferredFrom(caller, from, to, amount)
          PROVE  receipt'.ok /\ Ledger!Next
      <3>1. /\ Moved(from, to, value) /\ Spent(<<from, caller>>, value)
            /\ AllowancesKept({<<from, caller>>})
        BY <2>2, <2>5 DEF TransferredFrom
      <3> HIDE DEF value
      <3>2. Ledger!Move(from, to, value) /\ Ledger!Spend(from, caller, value)
        BY <1>1, <2>1, <3>1, MoveIsPlain, SpendIsPlain
      <3>3. Ledger!transferFrom(caller, from, to, value)
        BY <2>1, <2>2, <3>2 DEF Ledger!transferFrom
      <3> QED BY <2>1, <2>2, <3>3 DEF Ledger!Next
    <2> QED BY <1>3, <2>3, <2>4, <2>5
  <1> QED BY <1>2, <1>3 DEF Effect

\* The confidential token starts as the plain one, and every step of it acts as
\* the plain one but for three: one that gives a word it reads or stores a
\* value, one from an account to itself, and one that wraps.
THEOREM PlainWhileSettled == Spec => Ledger!Init /\ ActsAsPlainToken
  <1>1. Init => Ledger!Init
    <2> SUFFICES ASSUME Init PROVE Ledger!Init
      OBVIOUS
    <2>1. receipt.caller = deployer
      BY DEF Init, Receipt
    <2> QED BY <2>1, InitTypes DEF Ledger!Init, totalSupply
  <1>2. TokenTypeOK /\ TokenTypeOK' /\ [Next]_vars =>
          [AllSettled /\ selfAdded' = selfAdded /\ SumOfBalances < Width =>
             \/ receipt'.ok /\ Ledger!Next
             \/ UNCHANGED <<PlainBalances, PlainAllowances>>]_vars
    BY NextEffect, StepActsAsPlain
  <1> QED BY <1>1, <1>2, TypeCorrect, PTL DEF Spec, ActsAsPlainToken
=============================================================================
