----------------------------- MODULE SecretToken -----------------------------
(***************************************************************************)
(* The ERC-8227 confidential token the compiler synthesizes                *)
(* (crates/covenant-stdlib/src/erc8227.rs), running on the mock chain:     *)
(* balances and allowances are ciphertext handles, every homomorphic       *)
(* operation mints a new one.                                              *)
(*                                                                         *)
(* One step is one transaction.  A transaction whose AssertEncrypted fails *)
(* reverts the token's storage, but the handles it minted before stay in   *)
(* the heap of the precompiles, which is outside the contract's storage.   *)
(*                                                                         *)
(* An `encryptedAmount` is any bytes32 of the calldata: nothing asks that  *)
(* it is a ciphertext.  A handle is the hash of a counter, so a client can *)
(* name one before it is minted; it reads 0 until then.                    *)
(***************************************************************************)
EXTENDS FhePrecompiles, FiniteSetsExt

CONSTANTS
  Address,      \* the accounts
  deployer,     \* the account that deployed the token
  supply,       \* `supply: N to deployer`
  Amounts,      \* the amounts clients encrypt
  MaxHandles,   \* bound on the heap
  Words         \* the words clients pass: handles, minted or not, and NULL
                \* for the words that never are one

ASSUME TokenAssumption ==
  /\ IsFiniteSet(Address)
  /\ deployer \in Address
  /\ supply \in Plain
  /\ Amounts \subseteq Plain
  /\ MaxHandles \in Nat \ {0}    \* the constructor mints one
  /\ Words \subseteq 0 .. MaxHandles

VARIABLES
  precompiles,  \* the heap of ciphertexts
  balances,     \* address -> handle
  allowances,   \* keccak(owner, spender) -> handle
  receipt,      \* the last transaction: who sent it, which amount it named,
                \* and did it succeed
  selfAdded     \* history: what transfers from an account to itself added

vars == <<precompiles, balances, allowances, receipt, selfAdded>>

\* What anyone reading the heap through a reveal sees.
balanceOf(a) == resolve_fhe(precompiles, balances[a])
allowanceOf(owner, spender) == resolve_fhe(precompiles, allowances[<<owner, spender>>])
totalSupply == supply

Receipt(caller, amount, ok) == [caller |-> caller, amount |-> amount, ok |-> ok]

-----------------------------------------------------------------------------
\* The constructor: the genesis amount is encrypted for the deployer.
Init ==
  LET heap == FHE_ENCRYPT_TRIVIAL(EmptyHeap, supply) IN
    /\ precompiles = heap
    /\ balances = [a \in Address |-> IF a = deployer THEN Minted(heap) ELSE NULL]
    /\ allowances = [k \in Address \X Address |-> NULL]
    /\ receipt = Receipt(deployer, NULL, TRUE)
    /\ selfAdded = 0

HeapHasRoom(n) == precompiles.fhe_nonce + n <= MaxHandles

\* AssertEncrypted(FheCmpGe(a, b)) on a heap: the heap with the comparison.
\* Mutant: the operands are swapped.
CheckLe(heap, a, b) == FHE_CMP_GE(heap, b, a)
CheckGe(heap, a, b) == FHE_CMP_GE(heap, a, b)
Passed(heap) == FHE_THRESHOLD_DECRYPT_BOOL(heap, Minted(heap))

Reverted(heap, caller, amount) ==
  /\ precompiles' = heap
  /\ receipt' = Receipt(caller, amount, FALSE)
  /\ UNCHANGED <<balances, allowances, selfAdded>>

\* Mutant of MoveEncrypted: the write to `from` comes last.
MoveFromLast(heap, from, to, amount) ==
  LET subbed == FHE_SUB(heap, balances[from], amount)
      added == FHE_ADD(subbed, balances[to], amount)
  IN  /\ precompiles' = added
      /\ balances' =
           [[balances EXCEPT ![to] = Minted(added)] EXCEPT ![from] = Minted(subbed)]
      /\ selfAdded' = IF from = to
                        THEN selfAdded + resolve_fhe(heap, amount)
                        ELSE selfAdded

\* Mutant of MoveEncrypted: a first credit keeps the word the client named.
MoveKeepsAmount(heap, from, to, amount) ==
  LET subbed == FHE_SUB(heap, balances[from], amount)
      added == FHE_ADD(subbed, balances[to], amount)
      credit == IF balances[to] = NULL THEN amount ELSE Minted(added)
  IN  /\ precompiles' = added
      /\ balances' =
           [[balances EXCEPT ![from] = Minted(subbed)] EXCEPT ![to] = credit]
      /\ selfAdded' = IF from = to
                        THEN selfAdded + resolve_fhe(heap, amount)
                        ELSE selfAdded

\* Both balances are read, both new balances computed, and then both written:
\* the write to `to` comes last.  Each operation resolves the amount anew, in
\* the heap the operations before it left.
MoveEncrypted(heap, from, to, amount) ==
  LET subbed == FHE_SUB(heap, balances[from], amount)
      added == FHE_ADD(subbed, balances[to], amount)
  IN  /\ precompiles' = added
      /\ balances' =
           [[balances EXCEPT ![from] = Minted(subbed)] EXCEPT ![to] = Minted(added)]
      /\ selfAdded' = IF from = to
                        THEN selfAdded + resolve_fhe(heap, amount)
                        ELSE selfAdded

transferEncrypted(caller, to, amount) ==
  LET checked == CheckGe(precompiles, balances[caller], amount) IN
    /\ HeapHasRoom(3)
    /\ \/ /\ ~Passed(checked)
          /\ Reverted(checked, caller, amount)
       \/ /\ Passed(checked)
          /\ MoveEncrypted(checked, caller, to, amount)
          /\ receipt' = Receipt(caller, amount, TRUE)
          /\ UNCHANGED allowances

transferFromEncrypted(caller, from, to, amount) ==
  LET allowed == CheckGe(precompiles, allowances[<<from, caller>>], amount)
      funded == CheckGe(allowed, balances[from], amount)
      spent == FHE_SUB(funded, allowances[<<from, caller>>], amount)
  IN
    /\ HeapHasRoom(5)
    /\ \/ /\ ~Passed(allowed)
          /\ Reverted(allowed, caller, amount)
       \/ /\ Passed(allowed) /\ ~Passed(funded)
          /\ Reverted(funded, caller, amount)
       \/ /\ Passed(allowed) /\ Passed(funded)
          /\ allowances' = [allowances EXCEPT ![<<from, caller>>] = Minted(spent)]
          /\ MoveEncrypted(spent, from, to, amount)
          /\ receipt' = Receipt(caller, amount, TRUE)

approveEncrypted(caller, spender, amount) ==
  /\ allowances' = [allowances EXCEPT ![<<caller, spender>>] = amount]
  /\ receipt' = Receipt(caller, amount, TRUE)
  /\ UNCHANGED <<precompiles, balances, selfAdded>>

\* A client encrypts an amount off chain to pass it as an argument, as the
\* scenarios of covenant-testing/tests/secret_coin.rs do.
mint_handle(plaintext) ==
  /\ HeapHasRoom(1)
  /\ precompiles' = mint_fhe(precompiles, plaintext)
  /\ UNCHANGED <<balances, allowances, receipt, selfAdded>>

Next ==
  \/ \E p \in Amounts : mint_handle(p)
  \/ \E caller, to \in Address, amount \in Words :
       \/ transferEncrypted(caller, to, amount)
       \/ approveEncrypted(caller, to, amount)
       \/ \E from \in Address : transferFromEncrypted(caller, from, to, amount)

Spec == Init /\ [][Next]_vars

\* The VIEW of the run: no action reads the receipt or the history, and the
\* properties only ask what the step made of them.
Stored == <<precompiles, balances, allowances>>
-----------------------------------------------------------------------------
SumOfBalances == SumFunctionOnSet([a \in Address |-> balanceOf(a)], Address)

\* The types.  Whatever words clients name, a balance is unset or a ciphertext
\* that was minted: never a word that a later mint could give a value.  An
\* allowance is the word its holder named.
TokenTypeOK ==
  /\ precompiles.fhe_nonce \in 0 .. MaxHandles
  /\ DOMAIN precompiles.fhe_handles = 1 .. precompiles.fhe_nonce
  /\ \A h \in DOMAIN precompiles.fhe_handles : precompiles.fhe_handles[h] \in Plain
  /\ balances \in [Address -> 0 .. precompiles.fhe_nonce]
  /\ allowances \in [Address \X Address -> 0 .. MaxHandles]
  /\ selfAdded \in Nat

\* The amount the transaction named is not a handle the transaction itself
\* minted: it read the same in every operation, a word that is no ciphertext
\* or is minted only later included.
AmountSettled ==
  receipt'.amount \notin precompiles.fhe_nonce + 1 .. precompiles'.fhe_nonce

\* A transaction with a settled amount keeps the sum of what the balances
\* encrypt, modulo 2^256, up to what an account's transfer to itself adds:
\* no such transfer, approval, failed transfer, spent allowance that was no
\* ciphertext when it was given, or reused handle (an amount that is somebody's
\* balance) creates or destroys tokens.
SupplyAccounted ==
  [][AmountSettled =>
       SumOfBalances' % Width = (SumOfBalances + selfAdded' - selfAdded) % Width]_vars

\* With a settled amount a balance falls only in a transaction of its holder,
\* or of a spender whose allowance from that holder fell by as much.  (When
\* the balances exceed a U256 together, a credit that wraps can lower one.)
OnlyAuthorizedDebits ==
  [][\A a \in Address :
       /\ AmountSettled
       /\ SumOfBalances + selfAdded' - selfAdded < Width
       /\ balanceOf(a)' < balanceOf(a)
       => /\ receipt'.ok
          /\ \/ receipt'.caller = a
             \/ \E spender \in Address :
                  /\ receipt'.caller = spender
                  /\ allowanceOf(a, spender) - allowanceOf(a, spender)'
                       = balanceOf(a) - balanceOf(a)']_vars

-----------------------------------------------------------------------------
\* crates/covenant-stdlib/src/conform.rs:122 and diag.rs:151 treat
\* `totalSupply() == sum(balances)` as what a token must satisfy.
TotalSupplyIsSumOfBalances == SumOfBalances = totalSupply
=============================================================================
