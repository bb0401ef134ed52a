------------------------------- MODULE Resolver -------------------------------
(***************************************************************************)
(* Names (crates/covenant-resolver/src/resolver.rs): every identifier is   *)
(* replaced by what it is bound to where it stands.  `names` is what the   *)
(* scopes from the innermost outwards make of a name; entering a block and *)
(* leaving it again is working on with the same `names`.                   *)
(***************************************************************************)
EXTENDS CovenantSource, SequencesExt

Operands == {"a", "b", "c", "i"}      \* the parts of an expression
Sources  == {"e", "t", "c"}           \* the expressions of a statement or arm

\* The construct's scope: a field wins over a name of the language.
seed_construct_lang_idents ==
  [f \in DOMAIN FieldType |-> [k |-> "field", f |-> f]]
    @@ ("deployer" :> [k |-> "deployer"])
\* An action's, view's or reveal's scope, likewise (OMEGA V6 CRT-006).
seed_behavior_idents(parent) ==
  parent @@ ("caller" :> [k |-> "caller"]) @@ ("now" :> [k |-> "now"])

Local(x, id) == [k |-> "var", x |-> x, id |-> id]

RECURSIVE resolve_expr(_, _), Mentions(_)
\* The names an expression mentions; each must be bound.
Mentions(e) ==
  IF e.k = "id" THEN {e.x} ELSE UNION {Mentions(e[h]) : h \in DOMAIN e \cap Operands}
resolve_ident(names, x) == IF x \in DOMAIN names THEN names[x] ELSE [k |-> "none"]
resolve_expr(names, e) ==
  IF e.k = "id" THEN resolve_ident(names, e.x)
  ELSE [h \in DOMAIN e |-> IF h \in Operands THEN resolve_expr(names, e[h]) ELSE e[h]]

(***************************************************************************)
(* Statements.  `rs` is the resolver at work: the names in scope, the next *)
(* local's id, whether all went well, and what has been resolved.          *)
(***************************************************************************)
Done(rs, s) == [rs EXCEPT !.out = Append(@, s)]
introduce_local(rs, x) ==
  [rs EXCEPT !.names = (x :> Local(x, rs.next)) @@ @, !.next = @ + 1]
\* The expressions of a statement are looked up before what it introduces.
Lookup(rs, s) ==
  LET parts == DOMAIN s \cap Sources IN
    [rs |-> [rs EXCEPT !.ok = @ /\ \A h \in parts : Mentions(s[h]) \subseteq DOMAIN rs.names],
     s  |-> [h \in DOMAIN s |-> IF h \in parts THEN resolve_expr(rs.names, s[h]) ELSE s[h]]]

RECURSIVE resolve_stmt(_, _)
resolve_stmts(rs, ss) == FoldLeft(resolve_stmt, [rs EXCEPT !.out = <<>>], ss)

\* Mutant of Leave: what a block introduces can be seen after it.
LeaveOpen(rs, block) == [block EXCEPT !.out = rs.out]
\* Outside a block again its names are forgotten, but its locals stay numbered.
Leave(rs, block) == [rs EXCEPT !.next = block.next, !.ok = block.ok]

resolve_arm(rs, arm) ==
  LET l    == Lookup(rs, arm)
      body == resolve_stmts(l.rs, arm.a)
  IN Done(Leave(l.rs, body), [l.s EXCEPT !.a = body.out])

resolve_branches(l, s) ==
  LET arms == FoldLeft(resolve_arm, [l.rs EXCEPT !.out = <<>>], s.arms)
      b    == resolve_stmts(arms, s.b)
  IN Done(Leave(l.rs, b), [l.s EXCEPT !.arms = arms.out, !.b = b.out])

\* The iterated list is looked up outside, the loop's variable is inside.
resolve_for(l, s) ==
  LET body == resolve_stmts(introduce_local(l.rs, s.x), s.a)
  IN Done(Leave(l.rs, body), ("id" :> l.rs.next) @@ [l.s EXCEPT !.a = body.out])

resolve_stmt(rs, s) ==
  LET l == Lookup(rs, s) IN
  CASE s.k = "let" -> Done(introduce_local(l.rs, s.x), ("id" :> rs.next) @@ l.s)
    [] s.k \in {"if", "match"} -> resolve_branches(l, s)
    [] s.k = "for"  -> resolve_for(l, s)
    [] s.k = "emit" -> Done([l.rs EXCEPT !.ok = @ /\ s.ev \in DOMAIN EventType], l.s)
    [] OTHER        -> Done(l.rs, l.s)

(***************************************************************************)
(* A declaration.  Its argument may not be called like a seeded name; the  *)
(* field that a one-line reveal names is looked up outside.                *)
(***************************************************************************)
register_args(rs, x) ==
  IF x \in DOMAIN rs.names \ DOMAIN seed_construct_lang_idents THEN [rs EXCEPT !.ok = FALSE]
  ELSE introduce_local(rs, x)

resolve(prog) ==
  LET parent == seed_construct_lang_idents
      rs     == register_args([names |-> seed_behavior_idents(parent), next |-> ArgId,
                               ok |-> TRUE, out |-> <<>>], prog.x)
      guards == FoldLeft(LAMBDA acc, g : Done(Lookup(acc, g).rs, Lookup(acc, g).s), rs, prog.guards)
      to     == Lookup(guards, prog.to)
      e      == Lookup(IF prog.kind = "disclose" THEN [to.rs EXCEPT !.names = parent] ELSE to.rs,
                       [e |-> prog.e])
      body   == resolve_stmts([e.rs EXCEPT !.names = rs.names], prog.body)
  IN [ok |-> body.ok,
      unit |-> [prog EXCEPT !.guards = guards.out, !.to = to.s, !.e = e.s.e, !.body = body.out]]
=============================================================================
