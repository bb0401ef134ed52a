------------------------------- MODULE Syntax -------------------------------
(***************************************************************************)
(* From the parser's nodes to the language's programs: how the builder and *)
(* the checker read the syntax.  The program of a file is the last action, *)
(* view or reveal it declares.                                             *)
(***************************************************************************)
EXTENDS Declarations

Operator_ == ("&&" :> "and") @@ ("||" :> "or")
Absent == [k |-> "none"]
Name_(x) == [k |-> "id", x |-> x]

\* IName.at(address).function(argument), the one form of an external call.
IsExternalCall(e) ==
  /\ e.k = "apply" /\ e.a.k = "dot" /\ e.a.a.k = "apply" /\ e.a.a.a.k = "dot"
  /\ e.a.a.a.x = "at" /\ e.a.a.a.a.k = "id" /\ Len(e.a.a.args) = 1

RECURSIVE ExprOf(_)
ExprOf(e) ==
  CASE e.k = "paren" -> ExprOf(e.a)
    [] e.k = "bool"  -> [k |-> "bool", n |-> Truth(e.n = "true")]
    [] e.k = "unary" /\ e.o = "!" -> [k |-> "not", a |-> ExprOf(e.a)]
    [] e.k = "bin"   -> [k |-> "bin", o |-> IF e.o \in DOMAIN Operator_ THEN Operator_[e.o] ELSE e.o,
                         a |-> ExprOf(e.a), b |-> ExprOf(e.b)]
    [] e.k = "cond"  -> [k |-> "cond", c |-> ExprOf(e.c), a |-> ExprOf(e.a), b |-> ExprOf(e.b)]
    [] e.k = "index" -> [k |-> "elem", a |-> ExprOf(e.a), i |-> ExprOf(e.i)]
    [] e.k = "dot"   -> [k |-> IF e.x \in {"length", "len"} THEN "len" ELSE "member",
                         a |-> ExprOf(e.a)]
    [] e.k = "enc"   -> [k |-> "enc", a |-> ExprOf(e.a)]
    [] IsExternalCall(e) -> [k |-> "call", i |-> ExprOf(e.a.a.args[1]), a |-> ExprOf(e.args[1])]
    [] e.k = "apply" -> [e EXCEPT !.a = ExprOf(@)]
    [] OTHER         -> e

CompoundAssign ==
  ("=" :> "=") @@ ("+=" :> "+") @@ ("-=" :> "-") @@ ("*=" :> "*") @@ ("/=" :> "/") @@ ("%=" :> "%")

RECURSIVE StmtOf(_, _)
BlockOf(structs, ss) == [i \in DOMAIN ss |-> StmtOf(structs, ss[i])]
ArmsOf(structs, arms) ==
  [i \in DOMAIN arms |-> [c |-> ExprOf(arms[i].c), a |-> BlockOf(structs, arms[i].a)]]
StmtOf(structs, s) ==
  CASE s.k = "let" ->
         [k |-> s.k, x |-> s.x, e |-> ExprOf(s.e),
          ty |-> IF "ty" \in DOMAIN s THEN lower_type(structs, s.ty) ELSE Unknown]
    [] s.k = "set"    -> [k |-> s.k, t |-> ExprOf(s.t), o |-> CompoundAssign[s.o], e |-> ExprOf(s.e)]
    [] s.k = "delete" -> [k |-> s.k, t |-> ExprOf(s.t)]
    [] s.k = "emit"   -> [k |-> s.k, ev |-> s.ev, e |-> ExprOf(s.args[1])]
    [] s.k = "append" -> [k |-> s.k, t |-> Name_(s.x), e |-> ExprOf(s.args[1].e)]
    [] s.k = "revert_with" -> [k |-> "revert"]
    [] s.k = "if"     -> [k |-> s.k, arms |-> ArmsOf(structs, s.arms),
                          b |-> BlockOf(structs, Maybe(s, "b"))]
    [] s.k = "match"  -> [k |-> s.k, e |-> ExprOf(s.e), arms |-> ArmsOf(structs, s.arms), b |-> <<>>]
    [] s.k = "for"    -> [k |-> s.k, x |-> s.x, t |-> ExprOf(s.t), a |-> BlockOf(structs, s.a)]
    [] s.k \in {"eval", "return"} -> [k |-> s.k, e |-> ExprOf(s.e)]

PrincipalOf(p) ==
  IF p.k = "at" THEN [who |-> "address", e |-> ExprOf(p.e)] ELSE [who |-> p.x, e |-> Absent]
GuardOf(g) ==
  IF g.k = "only" THEN [k |-> g.k, who |-> PrincipalOf(g.to).who, e |-> PrincipalOf(g.to).e]
  ELSE [k |-> g.k, who |-> "-", e |-> ExprOf(g.e)]

\* A reveal in one line opens the field it is called by.
Program(structs, d) ==
  LET args   == Maybe(d, "args")
      guards == Maybe(d, "guards")
      short  == d.k = "reveal" /\ "e" \notin DOMAIN d
  IN [kind   |-> IF short THEN "disclose" ELSE d.k,
      x      |-> IF args = <<>> THEN "" ELSE args[1].x,
      ty     |-> IF args = <<>> THEN Amount ELSE lower_type(structs, args[1].ty),
      ret    |-> IF "ret" \in DOMAIN d THEN lower_type(structs, d.ret) ELSE Unit,
      to     |-> IF "to" \in DOMAIN d THEN PrincipalOf(d.to) ELSE [who |-> "none", e |-> Absent],
      guards |-> [i \in DOMAIN guards |-> GuardOf(guards[i])],
      body   |-> BlockOf(structs, Maybe(d, "body")),
      e      |-> IF short THEN Name_(d.x) ELSE IF d.k = "action" THEN Absent ELSE ExprOf(d.e)]
ProgramOf(file) == Program(register_nominal_types(file), Last(Declared(file, Behaviours)))
=============================================================================
