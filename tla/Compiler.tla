------------------------------- MODULE Compiler -------------------------------
(***************************************************************************)
(* The compiler on one declaration (crates/covenant-driver/src/lib.rs),    *)
(* from the text on or from the syntax: names are resolved, types checked  *)
(* and the privacy rules applied, and a program any of them refuses goes   *)
(* no further; the others are lowered to blocks, and the pass manager      *)
(* (crates/covenant-opt/src/manager.rs) runs its passes in a fixed order,  *)
(* again and again until a round changes nothing, or until it gives up.    *)
(* Whatever the intermediate code is at any moment, the bytecode emitted   *)
(* for it must do what the source means.                                   *)
(***************************************************************************)
EXTENDS FrontEnd, IrBuilder, PrivacyAnalyzer, Optimizer, EvmMachine

CONSTANTS Programs,           \* declarations to compile that are given as syntax
          Transactions        \* the calls they are observed under

VARIABLE unit                 \* what the phases up to lowering make of the declaration
vars == <<front, unit, manager>>

Finished == stage \in {"rejected", "declared"} \/ pass \in {"done", "gave_up"}

InitSyntax ==
  /\ prog \in Programs /\ stage = "resolve"
  /\ text = NoText /\ parser = NoFile /\ before = NoFile
Init ==
  /\ (InitText /\ unit = NoProgram) \/ (InitSyntax /\ unit = prog)
  /\ Idle

\* What was parsed without an error goes on to the resolver.
Accept ==
  /\ stage = "parsed" /\ Acceptable /\ prog # NoProgram /\ stage' = "resolve"
  /\ unit' = ProgramOf(parser.file)
  /\ Close /\ UNCHANGED <<prog, manager>>

\* An error ends the compilation after the phase that reports it.
Phase(at, next, result) ==
  /\ stage = at
  /\ stage' = IF result.ok THEN next ELSE "rejected"
  /\ unit' = result.unit
  /\ UNCHANGED <<prog, text, parser, before, manager>>

Resolve   == stage = "resolve" /\ Phase("resolve", "typecheck", resolve(unit))
Typecheck == stage = "typecheck" /\ Phase("typecheck", "privacy", check(unit))
AnalyzePrivacy ==
  /\ stage = "privacy"
  /\ Phase("privacy", "lower", [ok |-> analyze(unit), unit |-> unit])

Built(fb) ==
  IF fb.ok THEN stage' = "optimize" /\ Start(finish(fb))
  ELSE stage' = "rejected" /\ UNCHANGED manager
BuildIr ==
  /\ stage = "lower"
  /\ Built(lower(unit))
  /\ UNCHANGED <<prog, text, parser, before, unit>>

FrontEndStep ==
  /\ Read \/ ParseDecl \/ EndFile \/ Format \/ Refuse \/ Declare
  /\ UNCHANGED <<unit, manager>>

Next ==
  \/ FrontEndStep \/ Accept
  \/ Resolve \/ Typecheck \/ AnalyzePrivacy \/ BuildIr
  \/ (Optimize /\ UNCHANGED <<front, unit>>)

\* The compiler is one thread, which the system goes on running as long as it
\* has a step left.
Spec == Init /\ [][Next]_vars /\ WF_vars(Next)

(***************************************************************************)
(* Properties.                                                             *)
(***************************************************************************)
\* The parser reads what is written: a text is the program it was written for,
\* operators bind as the language's table says, and fields and events have the
\* types they were given (parse_expr_bp and everything above it, lower_type,
\* apply_construct_privacy).  After formatting it is so or the file is refused.
ParsesAsWritten ==
  stage = "parsed" /\ Acceptable /\ prog # NoProgram =>
    LET structs == register_nominal_types(parser.file)
        fields  == FieldTypes(structs, parser.file)
        events  == EventTypes(structs, parser.file)
        read    == ProgramOf(parser.file)
    IN /\ \A f \in DOMAIN fields : fields[f] = FieldType[f]
       /\ \A ev \in DOMAIN events : events[ev] = <<EventType[ev]>>
       /\ read = prog \/ (Formatted /\ ~ resolve(read).ok)

Behaviour(f) == [tx \in Transactions |-> emit_function(f, tx)]

\* A program the front end accepts never gets stuck: every name it reads has
\* a value then, no operator meets a handle in place of a plain word or the
\* other way round, and no field, event or answer receives the wrong one
\* (resolve, check and analyze together).
AcceptedRunsAreDefined ==
  stage = "lower" => \A tx \in Transactions : Meaning(unit, tx).status # "stuck"

\* Lowering is correct: the code a declaration becomes does, in every
\* transaction, what the source means, down to the answer, the storage, the
\* log and whether it reverts (lower_action, lower_view, lower_reveal and
\* everything below them).
LoweringKeepsMeaning ==
  [][stage = "lower" /\ stage' = "optimize" =>
       \A tx \in Transactions : emit_function(ir', tx) = Meaning(unit, tx)]_vars

\* No pass changes what a transaction observes (covenant-opt/src/lib.rs:3,
\* "each semantics-preserving").
PassesKeepBehaviour ==
  [][Compiled /\ ir' # ir => Behaviour(ir') = Behaviour(ir)]_vars

\* Two transactions nobody who sees no plaintexts can tell apart, and what
\* such an observer sees of an outcome.
Blinded(w) == IF Hidden(w) THEN Width ELSE w
Public(tx) ==
  [tx EXCEPT !.st = [s \in DOMAIN @ |-> Blinded(@[s])],
             !.p = IF IsSealed(prog.ty) THEN 0 ELSE @]
Seen(outcome) ==
  [outcome EXCEPT !.v = Blinded(@),
                  !.st = [s \in DOMAIN @ |-> Blinded(@[s])],
                  !.log = [i \in DOMAIN @ |-> [@[i] EXCEPT ![2] = Blinded(@)]]]

\* What the compiled program lets out besides ciphertexts: the answer of an
\* encrypted `when`, to its target what a reveal opens, and a field somebody
\* reveals in one line without a target, to everybody.
OpensGuard == \E i \in DOMAIN unit.guards :
                unit.guards[i].k = "when" /\ IsSealed(TypeOf(unit.guards[i].e))
RevealsTo(tx) ==
  /\ prog.kind = "disclose" \/ (prog.kind = "reveal" /\ prog.to.who # "none")
  /\ IsPrincipal(tx, [st |-> tx.st, status |-> "running", v |-> 0, log |-> <<>>,
                      vars |-> (ArgId :> Argument(prog.ty, tx))], unit.to).v # 0

\* Nothing that is encrypted can be told from what the finished code does,
\* short of an encrypted `when` and of what a reveal opens to its target:
\* transactions that differ in plaintexts only have the same answer, storage
\* and log up to ciphertexts, and fail alike (the privacy rules R1, R2 and R4,
\* the type checker's lifts and emit_only_assert).
EncryptedStaysHidden ==
  pass = "done" /\ ~ OpensGuard =>
    \A t, u \in Transactions :
      t # u /\ Public(t) = Public(u) /\ ~ RevealsTo(t) =>
        Seen(emit_function(ir, t)) = Seen(emit_function(ir, u))

\* The passes reach a fixpoint: no two of them undo each other's work until
\* the manager gives up with E401, and where it stops none has more to report.
ReachesFixpoint ==
  <>(Finished /\ (pass = "done" => StopsAtFixpoint) /\ pass # "gave_up")
=============================================================================
