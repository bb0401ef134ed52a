------------------------------- MODULE Optimizer -------------------------------
(***************************************************************************)
(* The pass manager (crates/covenant-opt/src/manager.rs): it runs its      *)
(* passes over a function's code in a fixed order, again and again until a *)
(* round changes nothing, or until it gives up.  How the code came about   *)
(* is another module's matter; what it has to look like is said here.      *)
(***************************************************************************)
EXTENDS OptPasses

CONSTANT max_iterations
ASSUME RoundsAreBounded == max_iterations \in Nat \ {0}

VARIABLES ir,                 \* the code, once there is any
          pass,               \* what the manager does next
          iteration,          \* rounds completed
          changed             \* did this round change anything?
manager == <<ir, pass, iteration, changed>>

Passes == <<"precompute", "constant_fold", "fhe_fold", "sload_coalesce", "cse", "dce">>
Steps == {"idle", "round", "rounded", "done", "gave_up"} \cup ToSet(Passes)
NoCode == <<>>
Compiled == ir # NoCode

(***************************************************************************)
(* What lowering leaves behind and every pass preserves.                   *)
(***************************************************************************)
\* An instruction without a result is there for its effect.
VoidHasEffect(f) ==
  \A p \in Places(f) : InstrAt(f, p).res = 0 => effect_of(InstrAt(f, p).op) = "State"

\* Single assignment, and values before their uses.
SingleAssignment(f) == IsCode(f) /\ VoidHasEffect(f) /\ DefinedOnce(f)
InSSA(f) == SingleAssignment(f) /\ DefsDominateUses(f)

\* When the unreachable blocks are gone the n-th block left is block n, which
\* is where the validator looks.
ReachableFirst(f) ==
  /\ DOMAIN f.blocks = 1 .. Cardinality(DOMAIN f.blocks)
  /\ reachable_blocks(f) = 1 .. Cardinality(reachable_blocks(f))
Valid(f) == validate_function(f) /\ ReachableFirst(f)

(***************************************************************************)
(* The manager.                                                            *)
(***************************************************************************)
Idle == ir = NoCode /\ pass = "idle" /\ iteration = 0 /\ changed = FALSE

\* The manager is handed the code f.
Start(f) ==
  /\ pass = "idle" /\ pass' = "round"
  /\ ir' = f
  /\ UNCHANGED <<iteration, changed>>

\* When the rounds are used up without a fixpoint the manager reports E401
\* and leaves the code as it is.
BeginRound ==
  /\ pass = "round"
  /\ pass' = IF iteration < max_iterations THEN Head(Passes) ELSE "gave_up"
  /\ changed' = FALSE
  /\ UNCHANGED <<ir, iteration>>

Ran(next, result) ==
  /\ pass' = next
  /\ ir' = result.f
  /\ changed' = (changed \/ result.changed)
  /\ UNCHANGED iteration

Precompute    == pass = "precompute" /\ Ran("constant_fold", precompute(ir))
ConstantFold  == pass = "constant_fold" /\ Ran("fhe_fold", constant_fold(ir))
FheFold       == pass = "fhe_fold" /\ Ran("sload_coalesce", fhe_fold(ir))
SloadCoalesce == pass = "sload_coalesce" /\ Ran("cse", sload_coalesce(ir))
Cse           == pass = "cse" /\ Ran("dce", cse(ir))
Dce           == pass = "dce" /\ Ran("rounded", dce(ir))

EndRound ==
  /\ pass = "rounded"
  /\ iteration' = iteration + 1
  /\ pass' = IF changed THEN "round" ELSE "done"
  /\ UNCHANGED <<ir, changed>>

Optimize ==
  \/ BeginRound \/ EndRound
  \/ Precompute \/ ConstantFold \/ FheFold \/ SloadCoalesce \/ Cse \/ Dce

\* The manager on any code there may be.
StartAny == \E f : InSSA(f) /\ Valid(f) /\ Start(f)
OptimizerSpec == Idle /\ [][StartAny \/ Optimize]_manager

(***************************************************************************)
(* Properties.                                                             *)
(***************************************************************************)
\* After lowering and after every pass, a value is computed in one place and
\* only used where a block on every way there has computed it (lib.rs:16, "SSA
\* dominance still holds").
DominanceHolds == Compiled => InSSA(ir)

\* The structural validator accepts what lowering and every pass leave behind,
\* and looks at the block a target names (lib.rs:20,
\* "covenant_ir::validate(&module) still passes").
ValidatorAccepts == Compiled => Valid(ir)

\* The manager stops where no pass would report another change, although
\* constant_fold adds constants in every round, reported or not (manager.rs:11).
StopsAtFixpoint ==
  pass = "done" =>
    /\ ~ precompute(ir).changed /\ ~ constant_fold(ir).changed /\ ~ fhe_fold(ir).changed
    /\ ~ sload_coalesce(ir).changed /\ ~ cse(ir).changed /\ ~ dce(ir).changed

(***************************************************************************)
(* What fhe_fold leaves to the code it is given.                           *)
(***************************************************************************)
\* Of two encryptions in different blocks, the first block is on every way to
\* the second.  fhe_fold merges encryptions of a constant wherever they are
\* (fhe_fold.rs:13).
EncryptedAlongPaths(f) ==
  \A p, q \in Places(f) :
    /\ InstrAt(f, p).op = "FheEncryptTrivial" /\ InstrAt(f, q).op = "FheEncryptTrivial"
    /\ InstrAt(f, p).lift = InstrAt(f, q).lift
    /\ q[1] < p[1] /\ p[1] \in reachable_blocks(f)
    => p[1] \in Dominated(f, q[1])

\* The manager on code that encrypts so.
StartAlongPaths == \E f : InSSA(f) /\ Valid(f) /\ EncryptedAlongPaths(f) /\ Start(f)
AlongPathsSpec == Idle /\ [][StartAlongPaths \/ Optimize]_manager
=============================================================================
