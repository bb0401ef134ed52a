----------------------------- MODULE GuardedCalls -----------------------------
(***************************************************************************)
(* The entry and exit code the EVM backend puts around an action           *)
(* (crates/covenant-evm-backend/src/codegen.rs): the run-once guard of an  *)
(* initializer and the lock of a @non_reentrant function, while contracts  *)
(* call each other on a real chain.                                        *)
(*                                                                         *)
(* The call stack is explicit.  A compiled frame that makes an external    *)
(* call, or transfers ether, jumps to __revert__ when the call fails; a    *)
(* foreign contract may do anything with a failure.  Reverting a frame     *)
(* undoes every write made since it was entered, those of its callees      *)
(* included: that is the EVM's part, each frame keeps the state to restore.*)
(***************************************************************************)
EXTENDS Naturals, Sequences, FiniteSets, SequencesExt

CONSTANTS
  Contract,     \* compiled contracts
  Foreign,      \* stands for every contract the compiler did not produce
  Function,     \* functions of a compiled contract
  NonReentrant, \* those annotated @non_reentrant
  Initializer,  \* those named `initialize` or annotated @initializer
  MaxDepth      \* bound on the call stack

ASSUME GuardAssumption ==
  /\ NonReentrant \subseteq Function
  /\ Initializer \subseteq Function
  /\ Foreign \notin Contract
  /\ MaxDepth \in Nat

VARIABLES
  lock,    \* REENTRANT_LOCK_SLOT of each contract
  flag,    \* initializer_flag_slot of each contract
  runs,    \* history: initializer bodies entered and not undone
  stack,   \* the frames, outermost first
  failed   \* the last external call failed and its caller has not reacted

vars == <<lock, flag, runs, stack, failed>>

Init ==
  /\ lock = [c \in Contract |-> 0]
  /\ flag = [c \in Contract |-> 0]
  /\ runs = [c \in Contract |-> 0]
  /\ stack = <<>>
  /\ failed = FALSE

Top == stack[Len(stack)]
Frame(c, f) == [contract |-> c, function |-> f,
                lock |-> lock, flag |-> flag, runs |-> runs]

\* Who may make a call now: a transaction when no call runs, otherwise the
\* top frame, unless it is about to react to a failed call.
MayCall == ~failed /\ Len(stack) < MaxDepth

\* The guards at the entry of function f.  Mutants: they let everything in.
NoInitializerGuard(c, f) == TRUE
NoLock(c, f) == TRUE
emit_initializer_guard(c, f) == f \in Initializer => flag[c] = 0
emit_reentrant_lock_acquire(c, f) == f \in NonReentrant => lock[c] = 0

\* A call whose guards pass: they set the flag and take the lock.
Enter(c, f) ==
  /\ MayCall
  /\ emit_initializer_guard(c, f)
  /\ emit_reentrant_lock_acquire(c, f)
  /\ stack' = Append(stack, Frame(c, f))
  /\ flag' = IF f \in Initializer THEN [flag EXCEPT ![c] = 1] ELSE flag
  /\ runs' = IF f \in Initializer THEN [runs EXCEPT ![c] = @ + 1] ELSE runs
  /\ lock' = IF f \in NonReentrant THEN [lock EXCEPT ![c] = 1] ELSE lock
  /\ UNCHANGED failed

\* The caller of a call that failed, if it is not the transaction itself, has
\* to react.
CallerReacts(depth) == depth > 0

\* A call one of whose guards reverts.
Refused(c, f) ==
  /\ MayCall
  /\ ~(emit_initializer_guard(c, f) /\ emit_reentrant_lock_acquire(c, f))
  /\ failed' = CallerReacts(Len(stack))
  /\ UNCHANGED <<lock, flag, runs, stack>>

\* A call to a contract of unknown code.
EnterForeign ==
  /\ MayCall
  /\ stack' = Append(stack, Frame(Foreign, Foreign))
  /\ UNCHANGED <<lock, flag, runs, failed>>

\* Terminator::Return: the lock of a @non_reentrant function is released.
\* Mutant: it is not.
LockKept(frame) == lock
emit_reentrant_lock_release(frame) ==
  IF frame.contract # Foreign /\ frame.function \in NonReentrant
    THEN [lock EXCEPT ![frame.contract] = 0] ELSE lock

Return ==
  /\ stack # <<>>
  /\ ~failed
  /\ lock' = emit_reentrant_lock_release(Top)
  /\ stack' = Front(stack)
  /\ UNCHANGED <<flag, runs, failed>>

\* A frame reverts: of its own, or because it is compiled code and a call it
\* made failed.
Revert ==
  /\ stack # <<>>
  /\ lock' = Top.lock
  /\ flag' = Top.flag
  /\ runs' = Top.runs
  /\ stack' = Front(stack)
  /\ failed' = CallerReacts(Len(stack) - 1)

\* A foreign contract ignores that a call it made failed.
Ignore ==
  /\ failed
  /\ Top.contract = Foreign
  /\ failed' = FALSE
  /\ UNCHANGED <<lock, flag, runs, stack>>

Next ==
  \/ \E c \in Contract, f \in Function : Enter(c, f) \/ Refused(c, f)
  \/ EnterForeign
  \/ Return
  \/ Revert
  \/ Ignore

Spec == Init /\ [][Next]_vars
-----------------------------------------------------------------------------
IsGuarded(frame, c) == frame.contract = c /\ frame.function \in NonReentrant

\* The depths at which a @non_reentrant function of c is running.
GuardedDepths(c) == {i \in 1 .. Len(stack) : IsGuarded(stack[i], c)}

\* A flag and a lock are 0 or 1, and so is the number of initializer runs that
\* take effect, whatever was entered and undone.
GuardTypeOK ==
  /\ lock \in [Contract -> 0 .. 1]
  /\ flag \in [Contract -> 0 .. 1]
  /\ runs \in [Contract -> 0 .. 1]
  /\ \A i \in 1 .. Len(stack) :
       /\ stack[i].contract \in Contract \cup {Foreign}
       /\ stack[i].contract # Foreign => stack[i].function \in Function
  /\ failed \in BOOLEAN
  /\ failed => stack # <<>>

\* However contracts re-enter each other, and whatever reverts in between, at
\* most one @non_reentrant call of a contract runs at a time.
NoGuardedReentry ==
  \A c \in Contract : \A i, j \in GuardedDepths(c) : i = j

\* The lock is held exactly while such a call runs: it is never lost while
\* one runs, and never left behind, so that no contract locks itself out.
LockHeldIffRunning ==
  \A c \in Contract : lock[c] = 1 <=> GuardedDepths(c) # {}

\* At most one run of a contract's initializer ever takes effect, even when it
\* calls out before it returns and is called again from there, or when a
\* first run reverted.
InitializedAtMostOnce ==
  \A c \in Contract : runs[c] = flag[c]
=============================================================================
