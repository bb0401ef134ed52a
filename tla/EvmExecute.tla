------------------------------ MODULE EvmExecute ------------------------------
(***************************************************************************)
(* The interpreter loop `execute`                                          *)
(* (crates/covenant-evm-runtime/src/evm.rs): one action per opcode that    *)
(* touches what outlives the call, the host state and the precompiles.     *)
(* The stack is abstracted to its top word, the program to "any opcode     *)
(* next": memory and jumps move words around and are left out, and what    *)
(* code, calldata and arithmetic yield is any of the words Given.          *)
(*                                                                         *)
(* execute borrows its caller's host state and precompiles mutably: every  *)
(* write below is visible to the caller at once, whether or not the call   *)
(* ends well.  The chain decides what to lend and what to keep.            *)
(***************************************************************************)
EXTENDS FhePrecompiles, Sequences

CONSTANTS
  Slot,        \* storage keys
  Payload,     \* the plaintexts that programs encrypt
  Given,       \* the words that code, calldata and arithmetic bring up: any
               \* may be taken for a handle, minted or not
  NoEnv,       \* no call is running
  Running,     \* the running call has no result yet
  MaxHandles,  \* bound on the heap
  MaxSteps     \* STEP_LIMIT, small

ASSUME EvmAssumption ==
  /\ Payload \subseteq Plain
  /\ Given \subseteq 0 .. MaxHandles
  /\ MaxHandles \in Nat
  /\ MaxSteps \in Nat

VARIABLES
  env,          \* CallEnv of the running call
  storage,      \* HostState.storage: address -> slot -> word
  logs,         \* HostState.logs
  precompiles,  \* the MockPrecompileState lent to the call
  word,         \* top of the stack
  steps,        \* opcodes executed
  result        \* CallResult, and the opcode that ended the call

execVars == <<env, storage, logs, precompiles, word, steps, result>>

Word == 0 .. MaxHandles
NoStorage == [k \in Slot |-> NULL]

\* HostState::sload: an absent account or slot reads as zero.
sload(a, k) == IF a \in DOMAIN storage THEN storage[a][k] ELSE NULL

\* HostState::sstore creates the account's map on the first write.
sstore(a, k, v) ==
  [b \in DOMAIN storage \cup {a} |->
     IF b = a THEN [(IF a \in DOMAIN storage THEN storage[a] ELSE NoStorage)
                      EXCEPT ![k] = v]
     ELSE storage[b]]

Enter(callEnv) ==
  /\ env = NoEnv
  /\ env' = callEnv
  /\ word' = NULL
  /\ steps' = 0
  /\ result' = Running

Leave == env # NoEnv /\ result # Running /\ env' = NoEnv

Ended(kind, op) == [kind |-> kind, op |-> op]
End(kind, op) ==
  /\ result' = Ended(kind, op)
  /\ UNCHANGED <<env, storage, logs, precompiles, word, steps>>

-----------------------------------------------------------------------------
\* Every opcode is counted; past the limit the call aborts.
Step ==
  /\ env # NoEnv
  /\ result = Running
  /\ steps < MaxSteps

StepLimit ==
  /\ env # NoEnv
  /\ result = Running
  /\ steps = MaxSteps
  /\ End("Abort", "step limit")

Count == steps' = steps + 1

\* STATICCALL and CALL to an FHE precompile: allowed in a static call too.
OP_STATICCALL(heap) ==
  /\ precompiles.fhe_nonce < MaxHandles
  /\ precompiles' = heap
  /\ word' = Minted(heap)
  /\ Count
  /\ UNCHANGED <<env, storage, logs, result>>

Encrypt(v) == Step /\ OP_STATICCALL(FHE_ENCRYPT_TRIVIAL(precompiles, v))

AddSlot(k) == Step /\ OP_STATICCALL(FHE_ADD(precompiles, word, sload(env.address, k)))

\* A word from calldata; PUSH and arithmetic yield one likewise.
OP_CALLDATALOAD(w) ==
  /\ Step
  /\ word' = w
  /\ Count
  /\ UNCHANGED <<env, storage, logs, precompiles, result>>

OP_SLOAD(k) ==
  /\ Step
  /\ word' = sload(env.address, k)
  /\ Count
  /\ UNCHANGED <<env, storage, logs, precompiles, result>>

\* Opcodes that leave a trace are refused in a static call.
OP_SSTORE(k) ==
  /\ Step
  /\ IF env.is_static THEN End("Abort", "SSTORE")
     ELSE /\ storage' = sstore(env.address, k, word)
          /\ Count
          /\ UNCHANGED <<env, logs, precompiles, word, result>>

OP_LOG ==
  /\ Step
  /\ IF env.is_static THEN End("Abort", "LOG")
     ELSE /\ logs' = Append(logs, word)
          /\ Count
          /\ UNCHANGED <<env, storage, precompiles, word, result>>

OP_RETURN == Step /\ End("Ok", "RETURN")
OP_REVERT == Step /\ End("Revert", "REVERT")
OP_INVALID == Step /\ End("Revert", "INVALID")
Unsupported == Step /\ End("Abort", "unsupported")

Interpret ==
  \/ \E v \in Payload : Encrypt(v)
  \/ \E w \in Given : OP_CALLDATALOAD(w)
  \/ \E k \in Slot : AddSlot(k) \/ OP_SLOAD(k) \/ OP_SSTORE(k)
  \/ OP_LOG
  \/ OP_RETURN \/ OP_REVERT \/ OP_INVALID \/ Unsupported
  \/ StepLimit
=============================================================================
