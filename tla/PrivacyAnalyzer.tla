---------------------------- MODULE PrivacyAnalyzer ----------------------------
(***************************************************************************)
(* Privacy (crates/covenant-privacy/src/analyzer.rs): the flow rules on a  *)
(* type-checked program.  An expression is judged by the type it had       *)
(* before the checker encrypted it.                                        *)
(***************************************************************************)
EXTENDS TypeChecker

domain_of(t) ==
  IF IsSealed(t) THEN "Encrypted" ELSE IF t = Unknown THEN "Unknown" ELSE "Plaintext"
expr_domain(e) == domain_of(IF e.k = "lift" THEN e.a.ty ELSE e.ty)

RECURSIVE walk_stmts(_)
\* R1: no plaintext target takes an encrypted value.
walk_stmts(ss) ==
  \A n \in DOMAIN ss :
    LET s == ss[n] IN
    /\ s.k = "set" =>
         ~ (domain_of(s.t.ty) = "Plaintext" /\ expr_domain(s.e) = "Encrypted")
    /\ s.k = "for" => walk_stmts(s.a)
    /\ s.k \in {"if", "match"} =>
         walk_stmts(s.b) /\ \A j \in DOMAIN s.arms : walk_stmts(s.arms[j].a)

\* R2: a view answers in plaintext.
walk_view(prog) == prog.kind = "view" => expr_domain(prog.e) # "Encrypted"

\* Mutant of walk_reveal: a reveal need not say to whom.
walk_reveal_untargeted(prog) == TRUE
\* R4: what a reveal opens, it opens to somebody it names.
walk_reveal(prog) ==
  prog.kind = "reveal" /\ prog.to.who = "none" => expr_domain(prog.e) # "Encrypted"

analyze(prog) == walk_stmts(prog.body) /\ walk_view(prog) /\ walk_reveal(prog)
=============================================================================
