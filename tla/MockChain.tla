------------------------------- MODULE MockChain -------------------------------
(***************************************************************************)
(* The in-memory chain of the playground                                   *)
(* (crates/covenant-evm-runtime/src/chain.rs): contracts, the clock, the   *)
(* transaction log and one precompile heap shared by every contract.       *)
(*                                                                         *)
(* A deploy or a call lends the interpreter a fresh host state that holds  *)
(* one contract's storage, and keeps what it wrote only on success; the    *)
(* heap is lent itself, so what a reverted call minted stays.  A static    *)
(* call lends a clone of the heap and keeps nothing.  The chain runs one   *)
(* transaction at a time.                                                  *)
(*                                                                         *)
(* Account balances never change (no value moves between accounts), and    *)
(* the address of a new contract, keccak256(deployer || nonce), is taken   *)
(* as the pair it hashes.                                                  *)
(***************************************************************************)
EXTENDS EvmExecute, FiniteSets

CONSTANTS
  Account,    \* the accounts that send transactions
  BlockTime,  \* DEFAULT_BLOCK_TIME_SECS
  MaxU64,     \* u64::MAX, where clock and block number saturate
  MaxTx       \* bound on the transaction log

ASSUME MockChainAssumption ==
  /\ BlockTime \in Nat
  /\ MaxU64 \in Nat \ {0}
  /\ MaxTx \in Nat
  /\ NoEnv \notin [kind : {"Deploy", "Call", "StaticCall"}, caller : Account,
                     address : Account \X Nat, is_static : BOOLEAN]

VARIABLES
  contracts,      \* address -> storage of the contract deployed there
  deploy_nonces,  \* deploys attempted by each account
  clock,
  block_number,
  tx_log,         \* receipts of deploys and calls
  heap            \* Chain.precompiles

chainVars == <<contracts, deploy_nonces, clock, block_number, tx_log, heap>>
vars == <<chainVars, execVars>>

derive_create_address(deployer, nonce) == <<deployer, nonce>>
ContractAddress == Account \X Nat

Init ==
  /\ contracts = [a \in {} |-> NoStorage]
  /\ deploy_nonces = [a \in Account |-> 0]
  /\ clock = 0
  /\ block_number = 1
  /\ tx_log = <<>>
  /\ heap = EmptyHeap
  /\ env = NoEnv
  /\ storage = [a \in {} |-> NoStorage]
  /\ logs = <<>>
  /\ precompiles = EmptyHeap
  /\ word = NULL
  /\ steps = 0
  /\ result = Running

Idle == env = NoEnv

\* The host state and the heap lent to the call that starts.
Lend(hostStorage, lentHeap) ==
  /\ storage' = hostStorage
  /\ logs' = <<>>
  /\ precompiles' = lentHeap

CallEnv(kind, from, address) ==
  [kind |-> kind, caller |-> from, address |-> address,
   is_static |-> kind = "StaticCall"]

\* A receipt's time and block number are left out: nothing below reads them.
Receipt(kind, from, to, status, op, events) ==
  [kind |-> kind, from |-> from, to |-> to, status |-> status, op |-> op,
   logs |-> events]

finalize_receipt(receipt) == tx_log' = Append(tx_log, receipt)

-----------------------------------------------------------------------------
\* The nonce is consumed whether or not the constructor succeeds.  Mutant: it
\* is not.
NonceKept(deployer) == UNCHANGED deploy_nonces
ConsumeNonce(deployer) ==
  deploy_nonces' = [deploy_nonces EXCEPT ![deployer] = @ + 1]

DeployStart(deployer) ==
  LET address == derive_create_address(deployer, deploy_nonces[deployer]) IN
    /\ Len(tx_log) < MaxTx
    /\ ConsumeNonce(deployer)
    /\ Enter(CallEnv("Deploy", deployer, address))
    /\ Lend([a \in {} |-> NoStorage], heap)
    /\ UNCHANGED <<contracts, clock, block_number, tx_log, heap>>

\* The heap a call runs on.  Mutant: every call gets a clone.
LentClone(kind) == CloneHeap(heap)
LentHeap(kind) == IF kind = "StaticCall" THEN CloneHeap(heap) ELSE heap

CallStart(kind, from, to) ==
  /\ Len(tx_log) < MaxTx
  /\ to \in DOMAIN contracts
  /\ Enter(CallEnv(kind, from, to))
  /\ Lend([a \in {to} |-> contracts[to]], LentHeap(kind))
  /\ UNCHANGED chainVars

\* A call to an address without a contract is a reverted transaction; the
\* static form returns a receipt that is not logged.
CallNobody(from, to) ==
  /\ Idle
  /\ Len(tx_log) < MaxTx
  /\ to \notin DOMAIN contracts
  /\ finalize_receipt(Receipt("Call", from, to, "Reverted", "no contract", <<>>))
  /\ UNCHANGED <<contracts, deploy_nonces, clock, block_number, heap, execVars>>

Interpreting == Interpret /\ UNCHANGED chainVars

Status(kind) == CASE kind = "Ok" -> "Success"
                  [] kind = "Revert" -> "Reverted"
                  [] kind = "Abort" -> "Aborted"

\* The host state is dropped with the stack frame.
Drop ==
  /\ Leave
  /\ storage' = [a \in {} |-> NoStorage]
  /\ logs' = <<>>
  /\ precompiles' = EmptyHeap
  /\ word' = NULL
  /\ steps' = 0
  /\ result' = Running

\* The heap was lent itself, so what the call minted stays.  Mutant: the chain
\* forgets it.
ForgetMints == UNCHANGED heap
KeepMints == heap' = precompiles

\* Storage is written back on success only.  Mutant: always.
AlwaysCommits == TRUE
Commits == result.kind = "Ok"

\* What the constructor wrote becomes the contract's storage; on a revert or
\* an abort there is no contract and the receipt names no address.
DeployEnd ==
  /\ Drop
  /\ env.kind = "Deploy"
  /\ KeepMints
  /\ contracts' =
       IF Commits
         THEN [a \in DOMAIN contracts \cup {env.address} |->
                 IF a = env.address
                   THEN [k \in Slot |-> sload(a, k)]
                   ELSE contracts[a]]
         ELSE contracts
  /\ finalize_receipt(
       IF result.kind = "Ok"
         THEN Receipt("Deploy", env.caller, env.address, "Success", result.op, logs)
         ELSE Receipt("Deploy", env.caller, NULL, Status(result.kind), result.op, <<>>))
  /\ UNCHANGED <<deploy_nonces, clock, block_number>>

CallEnd ==
  /\ Drop
  /\ env.kind = "Call"
  /\ KeepMints
  /\ contracts' =
       IF Commits
         THEN [contracts EXCEPT ![env.address] = storage[env.address]]
         ELSE contracts
  /\ finalize_receipt(
       Receipt("Call", env.caller, env.address, Status(result.kind), result.op,
               IF result.kind = "Ok" THEN logs ELSE <<>>))
  /\ UNCHANGED <<deploy_nonces, clock, block_number>>

\* The scratch heap and the host state are dropped, nothing is logged.
StaticCallEnd ==
  /\ Drop
  /\ env.kind = "StaticCall"
  /\ UNCHANGED chainVars

\* Mutant: the addition wraps.
Wrapping(x) == x % (MaxU64 + 1)
Saturating(x) == IF x > MaxU64 THEN MaxU64 ELSE x

advance_time(seconds) ==
  /\ Idle
  /\ clock' = Saturating(clock + seconds)
  /\ UNCHANGED <<contracts, deploy_nonces, block_number, tx_log, heap, execVars>>

mine_block ==
  /\ Idle
  /\ block_number' = Saturating(block_number + 1)
  /\ clock' = Saturating(clock + BlockTime)
  /\ UNCHANGED <<contracts, deploy_nonces, tx_log, heap, execVars>>

\* The addresses a client can name: every one a deploy has been given.
Named == {derive_create_address(a, n) : a \in Account, n \in 0 .. MaxTx - 1}

Next ==
  \/ \E a \in Account : DeployStart(a)
  \/ \E kind \in {"Call", "StaticCall"}, a \in Account, to \in Named :
       CallStart(kind, a, to)
  \/ \E a \in Account, to \in Named : CallNobody(a, to)
  \/ Interpreting
  \/ DeployEnd \/ CallEnd \/ StaticCallEnd
  \/ advance_time(1)
  \/ mine_block

Spec == Init /\ [][Next]_vars
-----------------------------------------------------------------------------
Resolves(w) == w = NULL \/ w \in DOMAIN heap.fhe_handles \cup Given

ReceiptOf(kind, a) ==
  {i \in DOMAIN tx_log : tx_log[i].kind = kind /\ tx_log[i].from = a}

ChainTypeOK ==
  /\ DOMAIN contracts \subseteq ContractAddress
  /\ \A a \in DOMAIN contracts : contracts[a] \in [Slot -> Word]
  /\ deploy_nonces \in [Account -> Nat]
  /\ clock \in 0 .. MaxU64
  /\ block_number \in 1 .. MaxU64
  /\ heap.fhe_nonce \in Word
  /\ DOMAIN heap.fhe_handles = 1 .. heap.fhe_nonce
  /\ \A h \in DOMAIN heap.fhe_handles : heap.fhe_handles[h] \in Plain

\* Every word a contract stores or an event carries, other than those that
\* code and calldata brought, is a ciphertext of the shared heap: a
\* transaction that succeeds publishes what it minted together with the
\* storage and the events that name it, in whatever order contracts add up
\* each other's stale handles, and no handle of a static call's scratch heap
\* gets from there into storage or a receipt.
HandlesResolve ==
  /\ \A a \in DOMAIN contracts, k \in Slot : Resolves(contracts[a][k])
  /\ \A i \in DOMAIN tx_log :
       \A j \in DOMAIN tx_log[i].logs : Resolves(tx_log[i].logs[j])

\* The contracts on the chain are exactly those of the successful deploy
\* receipts, each address once, and an account's nonce counts its deploy
\* receipts, one more while a constructor runs: no two deploys, failed ones
\* included, are ever given the same address.
ReceiptsExplainContracts ==
  LET created == {i \in DOMAIN tx_log :
                    tx_log[i].kind = "Deploy" /\ tx_log[i].status = "Success"}
  IN
    /\ DOMAIN contracts = {tx_log[i].to : i \in created}
    /\ \A i, j \in created : tx_log[i].to = tx_log[j].to => i = j
    /\ \A a \in Account :
         deploy_nonces[a] = Cardinality(ReceiptOf("Deploy", a))
           + (IF env # NoEnv /\ env.kind = "Deploy" /\ env.caller = a THEN 1 ELSE 0)

\* A transaction is all or nothing: storage changes only together with a
\* Success receipt, at the address that receipt names, and a receipt of a
\* failed transaction carries no events.
AllOrNothing ==
  [][/\ contracts' # contracts =>
          LET receipt == tx_log'[Len(tx_log')] IN
            /\ Len(tx_log') = Len(tx_log) + 1
            /\ receipt.status = "Success"
            /\ \A a \in DOMAIN contracts \ {receipt.to} : contracts'[a] = contracts[a]
     /\ \A i \in DOMAIN tx_log' :
          tx_log'[i].status # "Success" => tx_log'[i].logs = <<>>]_vars

\* The plaintext behind a handle of the shared heap never changes.
CiphertextsImmutable ==
  [][\A h \in DOMAIN heap.fhe_handles :
       h \in DOMAIN heap'.fhe_handles /\ heap'.fhe_handles[h] = heap.fhe_handles[h]]_vars

-----------------------------------------------------------------------------
\* crates/covenant-evm-runtime/src/precompiles.rs:13-16: homomorphic ops
\* "materialize new handles", "so `reveal_decrypt(handle)` always returns the
\* real value": what a running call reveals for a handle of the chain is the
\* value it was minted with.
RevealsRealValue ==
  env # NoEnv =>
    \A h \in DOMAIN heap.fhe_handles :
      FHE_REVEAL_DECRYPT(precompiles, h) = FHE_REVEAL_DECRYPT(heap, h)

=============================================================================
