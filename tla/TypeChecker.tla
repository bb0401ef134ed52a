------------------------------ MODULE TypeChecker ------------------------------
(***************************************************************************)
(* Types (crates/covenant-types/src/checker.rs and operator.rs).  The      *)
(* checker gives every expression a type, marks where a plain value is     *)
(* encrypted on its way into a ciphertext, and says what it will not take. *)
(* What it could not type is Unknown, which goes with everything: one      *)
(* mistake is reported once.                                               *)
(***************************************************************************)
EXTENDS Resolver

compatible(s, t) == s = t \/ Unknown \in {s, t}

\* An expression with its type; it is fine when its parts are.
Typed(e, ty, fine) ==
  ("ty" :> ty) @@ ("ok" :> (fine /\ \A h \in DOMAIN e \cap Operands : e[h].ok)) @@ e
Mistyped(e) == Typed(e, Unknown, FALSE)
Lift(e) == Typed([k |-> "lift", a |-> e], Sealed(e.ty), TRUE)

(***************************************************************************)
(* What an operator makes of two types: one type, or none.                 *)
(***************************************************************************)
is_ord_comparable(t) == t \in {Amount, Time, Duration}
is_eq_comparable(t)  == is_ord_comparable(t) \/ t \in {Bool, Address} \/ IsStruct(t)

arithmetic(o, l, r) ==
  CASE <<l, r>> = <<Amount, Amount>> -> {Amount}
    [] o = "+" /\ {l, r} = {Time, Duration} -> {Time}
    [] o = "-" /\ <<l, r>> = <<Time, Time>> -> {Duration}
    [] o = "-" /\ <<l, r>> = <<Time, Duration>> -> {Time}
    [] o \in {"+", "-"} /\ <<l, r>> = <<Duration, Duration>> -> {Duration}
    [] o = "*" /\ {l, r} = {Duration, Amount} -> {Duration}
    [] o = "/" /\ <<l, r>> = <<Duration, Duration>> -> {Amount}
    [] o = "/" /\ <<l, r>> = <<Duration, Amount>> -> {Duration}
    [] OTHER -> {}
comparison(o, t) ==
  IF is_ord_comparable(t) \/ (o \in {"==", "!="} /\ is_eq_comparable(t)) THEN {Bool} ELSE {}
boolean(t) == IF t = Bool THEN {Bool} ELSE {}

IsArithmetic(o) == o \in {"+", "-", "*", "/", "%"}
OnEqual(o, t) == IF o \in {"and", "or"} THEN boolean(t) ELSE comparison(o, t)
Inner(t) == IF IsSealed(t) THEN t[2] ELSE t

\* A plain operand joins an encrypted one if what is encrypted has its type.
dispatch_binary(o, l, r) ==
  CASE Unknown \in {l, r} -> {Unknown}
    [] ~ (IsSealed(l) \/ IsSealed(r)) ->
         IF IsArithmetic(o) THEN arithmetic(o, l, r) ELSE IF l = r THEN OnEqual(o, l) ELSE {}
    [] Inner(l) # Inner(r) -> {}
    [] o \in {"+", "-", "*"} -> {Sealed(Inner(l))}
    [] OTHER -> {Sealed(t) : t \in IF IsArithmetic(o) THEN {} ELSE OnEqual(o, Inner(l))}
Lifted(e, ty) == IF IsSealed(ty) /\ ~ IsSealed(e.ty) THEN Lift(e) ELSE e

(***************************************************************************)
(* Expressions.                                                            *)
(***************************************************************************)
\* An expression where a type is expected.
check_expr(e, ty) ==
  IF compatible(e.ty, ty) THEN e
  ELSE IF ty = Sealed(e.ty) THEN Lift(e)
  ELSE [e EXCEPT !.ok = FALSE]

synth_binary(e) ==
  LET ty == dispatch_binary(e.o, e.a.ty, e.b.ty) IN
    IF ty = {} THEN Mistyped(e)
    ELSE LET t == CHOOSE t \in ty : TRUE
         IN Typed([e EXCEPT !.a = Lifted(@, t), !.b = Lifted(@, t)], t, TRUE)

\* A collection's elements, a struct's member, a list's or map's length.
indexed_elem_ty(e, t) ==
  CASE IsList(t) -> Typed(e, t[2], TRUE)
    [] IsMap(t)  -> Typed(e, t[3], TRUE)
    [] OTHER     -> Typed(e, Unknown, t = Unknown)
field_access_ty(e, t) ==
  CASE e.k = "len" /\ (IsList(t) \/ IsMap(t)) -> Typed(e, Amount, TRUE)
    [] e.k = "member" /\ IsStruct(t)          -> Typed(e, t[2], TRUE)
    [] OTHER                                  -> Typed(e, Unknown, t = Unknown)

lang_ident_ty(k) == IF k = "now" THEN Time ELSE Address

RECURSIVE synth_expr(_, _)
synth_expr(vars, expr) ==
  LET e == [h \in DOMAIN expr |-> IF h \in Operands THEN synth_expr(vars, expr[h]) ELSE expr[h]]
  IN CASE e.k = "int"   -> Typed(e, Amount, TRUE)
       [] e.k = "bool"  -> Typed(e, Bool, TRUE)
       [] e.k = "none"  -> Typed(e, Unknown, TRUE)
       [] e.k = "field" -> Typed(e, FieldType[e.f], TRUE)
       [] e.k = "var"   -> Typed(e, IF e.id \in DOMAIN vars THEN vars[e.id] ELSE Unknown, TRUE)
       [] e.k \in {"caller", "deployer", "now"} -> Typed(e, lang_ident_ty(e.k), TRUE)
       [] e.k = "bin"   -> synth_binary(e)
       [] e.k = "not"   -> IF Inner(e.a.ty) \in {Bool, Unknown} THEN Typed(e, e.a.ty, TRUE)
                           ELSE Mistyped(e)
       [] e.k = "cond"  -> Typed([e EXCEPT !.c = check_expr(@, Bool),
                                           !.b = check_expr(@, e.a.ty)], e.a.ty, TRUE)
       [] e.k = "elem"  -> indexed_elem_ty(e, e.a.ty)
       [] e.k \in {"len", "member"} -> field_access_ty(e, e.a.ty)
       [] e.k = "enc"   -> IF IsSealed(e.a.ty) THEN Mistyped(e) ELSE Typed(e, Sealed(e.a.ty), TRUE)
       \* check_external_call: the other contract's function takes an amount
       [] e.k = "call"  -> Typed([e EXCEPT !.i = check_expr(@, Address),
                                           !.a = check_expr(@, Amount)], Amount, TRUE)

(***************************************************************************)
(* Statements.  `tc` is the checker at work: the types of the locals,      *)
(* whether all went well, and what has been checked.                       *)
(***************************************************************************)
Checked(tc, s) ==
  [tc EXCEPT !.ok = @ /\ \A h \in DOMAIN s \cap Sources : s[h].ok,
             !.out = Append(@, s)]
set_local(tc, id, ty) == [tc EXCEPT !.vars = (id :> ty) @@ @]
Synthesized(tc, s) ==
  [h \in DOMAIN s |-> IF h \in Sources THEN synth_expr(tc.vars, s[h]) ELSE s[h]]

\* t o= e is t = t o e, with the plain one of an encrypted pair encrypted.
check_compound(s) ==
  LET ty == dispatch_binary(s.o, s.t.ty, s.e.ty)
      fits == ty # {} /\ \A t \in ty : compatible(t, s.t.ty)
  IN [s EXCEPT !.e = IF fits THEN Lifted(@, s.t.ty) ELSE [@ EXCEPT !.ok = FALSE]]
check_assign(s) ==
  IF s.o = "=" THEN [s EXCEPT !.e = check_expr(@, s.t.ty)] ELSE check_compound(s)

check_append(s) ==
  IF IsList(s.t.ty) /\ IsStruct(s.t.ty[2]) THEN [s EXCEPT !.e = check_expr(@, s.t.ty[2][2])]
  ELSE [s EXCEPT !.t = [@ EXCEPT !.ok = FALSE]]

RECURSIVE check_stmt(_, _)
check_block(tc, ss) == FoldLeft(check_stmt, [tc EXCEPT !.out = <<>>], ss)
After(tc, block) == [tc EXCEPT !.vars = block.vars, !.ok = block.ok]

check_let(tc, s) ==
  LET e  == IF s.ty = Unknown THEN s.e ELSE check_expr(s.e, s.ty)
      ty == IF s.ty = Unknown THEN s.e.ty ELSE s.ty
  IN set_local(Checked(tc, [s EXCEPT !.e = e]), s.id, ty)

\* A condition is a plain bool, a pattern has the type of what is matched.
Fitting(s, ty) == IF compatible(s.c.ty, ty) THEN s ELSE [s EXCEPT !.c = [@ EXCEPT !.ok = FALSE]]
ArmChecked(tc, s, body) == Checked(After(tc, body), [s EXCEPT !.a = body.out])
check_arm(tc, arm, ty) == ArmChecked(tc, Fitting(Synthesized(tc, arm), ty), check_block(tc, arm.a))
BranchesChecked(tc, s, arms, b) == Checked(After(tc, b), [s EXCEPT !.arms = arms, !.b = b.out])
OtherwiseChecked(tc, s, arms) == BranchesChecked(tc, s, arms.out, check_block(arms, s.b))
check_branches(tc, s, ty) ==
  OtherwiseChecked(tc, s,
    FoldLeft(LAMBDA acc, arm : check_arm(acc, arm, ty), [tc EXCEPT !.out = <<>>], s.arms))

check_for(tc, s) ==
  LET elem == IF IsList(s.t.ty) THEN s.t.ty[2] ELSE Unknown
      t    == [s.t EXCEPT !.ok = @ /\ (IsList(s.t.ty) \/ s.t.ty = Unknown)]
  IN ArmChecked(tc, [s EXCEPT !.t = t], check_block(set_local(tc, s.id, elem), s.a))

\* A statement whose expressions have their types.
check_typed(tc, s) ==
  CASE s.k = "let"    -> check_let(tc, s)
    [] s.k = "set"    -> Checked(tc, check_assign(s))
    [] s.k = "append" -> Checked(tc, check_append(s))
    [] s.k = "emit"   -> Checked(tc, [s EXCEPT !.e = check_expr(@, EventType[s.ev])])
    [] s.k = "if"     -> check_branches(tc, s, Bool)
    [] s.k = "match"  -> check_branches(tc, s, s.e.ty)
    [] s.k = "for"    -> check_for(tc, s)
    [] s.k = "return" -> [Checked(tc, s) EXCEPT !.ok = FALSE]     \* actions return nothing
    [] OTHER          -> Checked(tc, s)
check_stmt(tc, stmt) == check_typed(tc, Synthesized(tc, stmt))

(***************************************************************************)
(* Guards and declarations.  Principals are not looked into.               *)
(***************************************************************************)
GuardChecked(tc, g, e) ==
  CASE g.k = "only"  -> [tc EXCEPT !.out = Append(@, g)]
    [] g.k = "given" -> Checked(tc, [g EXCEPT !.e = check_expr(e, Bool)])
    [] g.k = "when"  -> Checked(tc, [g EXCEPT !.e =
                          [e EXCEPT !.ok = @ /\ Inner(e.ty) \in {Bool, Unknown}]])
check_guard(tc, g) == GuardChecked(tc, g, synth_expr(tc.vars, g.e))

AnswerChecked(prog, e) == IF prog.kind \in {"view", "reveal"} THEN check_expr(e, prog.ret) ELSE e
check_body(tc, prog) == AnswerChecked(prog, synth_expr(tc.vars, prog.e))
check_reveal_target(tc, to) ==
  IF to.who = "address" THEN check_expr(synth_expr(tc.vars, to.e), Address).ok ELSE TRUE

BodyChecked(prog, guards, e, body) ==
  [ok |-> body.ok /\ e.ok /\ check_reveal_target(guards, prog.to),
   unit |-> [prog EXCEPT !.guards = guards.out, !.e = e, !.body = body.out]]
GuardsChecked(prog, guards) ==
  BodyChecked(prog, guards, check_body(guards, prog), check_block(guards, prog.body))
check(prog) ==
  LET tc == [vars |-> (ArgId :> prog.ty), ok |-> TRUE, out |-> <<>>] IN
    GuardsChecked(prog, FoldLeft(check_guard, tc, prog.guards))
=============================================================================
