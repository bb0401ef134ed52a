------------------------------ MODULE MCCompiler ------------------------------
(***************************************************************************)
(* A family of small declarations for the compiler, as text and as syntax, *)
(* and the transactions they are run under.                                *)
(***************************************************************************)
EXTENDS MCTexts

MCFieldType ==
  [x |-> Amount, y |-> Amount, due |-> Time, span |-> Duration, owner |-> Address,
   c |-> Sealed(Amount), cb |-> Sealed(Bool), m |-> MapOf(Amount, Amount),
   l |-> ListOf(Amount), s |-> ListOf(StructOf(Amount)), es |-> ListOf(StructOf(Sealed(Amount)))]
MCEventType == [Moved |-> Amount, Aged |-> Duration, Hid |-> Sealed(Amount)]

(***************************************************************************)
(* Building syntax.                                                        *)
(***************************************************************************)
None          == [k |-> "none"]
N(n)          == [k |-> "int", n |-> n]
B(n)          == [k |-> "bool", n |-> n]
Id(x)         == [k |-> "id", x |-> x]
Bin(a, o, b)  == [k |-> "bin", o |-> o, a |-> a, b |-> b]
Not(a)        == [k |-> "not", a |-> a]
Cond(c, a, b) == [k |-> "cond", c |-> c, a |-> a, b |-> b]
Len_(f)       == [k |-> "len", a |-> Id(f)]
Elem(f, i)    == [k |-> "elem", a |-> Id(f), i |-> i]
Member(a)     == [k |-> "member", a |-> a]
Enc(a)        == [k |-> "enc", a |-> a]
Call(at, a)   == [k |-> "call", i |-> at, a |-> a]
P == Id("p")
X == Id("x")
Y == Id("y")
C == Id("c")

LetAs(x, ty, e) == [k |-> "let", x |-> x, ty |-> ty, e |-> e]
Let(x, e)       == LetAs(x, Unknown, e)
Set(t, o, e)    == [k |-> "set", t |-> t, o |-> o, e |-> e]
Delete(t)       == [k |-> "delete", t |-> t]
Do(e)           == [k |-> "eval", e |-> e]
Emit(ev, e)     == [k |-> "emit", ev |-> ev, e |-> e]
Append_(f, e)   == [k |-> "append", t |-> Id(f), e |-> e]
Revert          == [k |-> "revert"]
If(c, a, b)     == [k |-> "if", arms |-> <<[c |-> c, a |-> a]>>, b |-> b]
IfElse(c, a, d, b, e) ==
  [k |-> "if", arms |-> <<[c |-> c, a |-> a], [c |-> d, a |-> b]>>, b |-> e]
Match(e, n, a, m, b) ==
  [k |-> "match", e |-> e, arms |-> <<[c |-> N(n), a |-> a], [c |-> N(m), a |-> b]>>, b |-> <<>>]
For(x, f, a)    == [k |-> "for", x |-> x, t |-> Id(f), a |-> a]

Nobody == [who |-> "none", e |-> None]
To(who) == [who |-> who, e |-> None]
ToThe(e) == [who |-> "address", e |-> e]
Only(to) == [k |-> "only", who |-> to.who, e |-> to.e]
When(e)  == [k |-> "when", who |-> "-", e |-> e]
Given(e) == [k |-> "given", who |-> "-", e |-> e]

Decl(kind, ty, ret, to, gs, body, e) ==
  [kind |-> kind, x |-> "p", ty |-> ty, ret |-> ret, to |-> to, guards |-> gs, body |-> body,
   e |-> e]
Action(ty, gs, body) == Decl("action", ty, Unit, Nobody, gs, body, None)
View(ty, ret, gs, e) == Decl("view", ty, ret, Nobody, gs, <<>>, e)
Reveal(ret, to, gs, e) == Decl("reveal", Amount, ret, to, gs, <<>>, e)
Disclose(to, f)      == [Decl("disclose", Amount, Unit, to, <<>>, <<>>, Id(f)) EXCEPT !.x = ""]

(***************************************************************************)
(* Statements that touch the same fields in different ways.                *)
(***************************************************************************)
Simple ==
  { Set(X, "=", Bin(P, "+", N(1))),
    Set(X, "-", N(1)),
    Set(X, "*", Bin(N(2), "+", N(1))),
    Set(Y, "+", X),
    Let("a", Bin(X, "-", P)),
    Let("b", Bin(Y, "/", P)),
    Emit("Moved", Bin(Bin(N(3), "+", N(2)), "*", X)),
    Emit("Moved", Bin(X, "-", P)),
    Set(Elem("m", P), "=", X),
    Set(Elem("m", P), "+", Bin(N(1), "-", N(2))),
    Delete(Elem("m", P)),
    Set(Elem("l", P), "=", Bin(Elem("l", P), "+", N(1))),
    Set(Elem("l", N(0)), "+", Elem("l", P)),
    Let("a", Elem("l", P)),
    Delete(Elem("l", P)),
    Append_("s", P),
    Set(Member(Elem("s", N(0))), "+", X),
    Emit("Moved", Bin(Len_("s"), "+", Member(Elem("s", N(0))))),
    Emit("Aged", Bin(Id("now"), "-", Id("due"))),
    Set(Id("due"), "+", Bin(Id("span"), "*", P)),
    Set(X, "=", Call(Id("owner"), P)),
    Do(Call(Id("caller"), Y)),
    Delete(X) }

\* Statements on what is encrypted.
Secret ==
  { Set(C, "=", Enc(P)),
    Set(C, "=", N(1)),
    Set(C, "+", P),
    Set(C, "-", C),
    Set(Id("cb"), "=", Bin(Bin(C, "<", P), "and", Id("cb"))),
    Emit("Hid", Bin(C, "*", X)),
    Emit("Hid", P),
    Append_("es", P),
    Append_("es", Bin(X, "-", C)),
    Set(Member(Elem("es", N(0))), "=", P),
    Let("a", C) }

\* Statements with blocks of their own.
Branching ==
  { If(Bin(P, "<", X), <<Set(X, "=", P)>>, <<Emit("Moved", X)>>),
    If(Bin(Bin(X, "<=", P), "and", Not(Bin(Bin(Y, "/", P), "==", N(1)))), <<Revert>>, <<>>),
    If(Bin(Bin(P, "==", N(0)), "or", Bin(Bin(X, "%", P), "!=", N(0))),
       <<Set(Y, "=", N(3))>>, <<>>),
    IfElse(Bin(P, "==", N(0)), <<Revert>>, Bin(P, "==", N(1)), <<Set(X, "+", N(1))>>,
           <<Let("a", Bin(Y, "-", N(1))), Set(C, "+", Id("a"))>>),
    Match(P, 0, <<Set(X, "=", Y)>>, 1, <<Revert>>),
    For("e", "l", <<Set(X, "+", Id("e"))>>),
    For("x", "l", <<If(Bin(Id("x"), "==", P), <<Revert>>, <<Set(Y, "+", Id("x"))>>)>>),
    For("e", "s", <<Append_("s", Member(Id("e")))>>),
    Set(X, "=", Cond(Bin(P, "<", N(1)), Bin(X, "-", N(1)), Bin(Y, "%", P))),
    Set(C, "=", Cond(Bin(P, "<", N(1)), C, X)),
    Set(Elem("l", N(1)), "=", Cond(Bin(N(1), "<", N(2)), Elem("l", P), N(0))) }

\* Names: read a local, one of another block, one that hides a field.
Naming ==
  { <<Let("a", X), Set(X, "=", N(0)), Emit("Moved", Id("a"))>>,
    <<Let("x", Bin(Y, "+", N(1))), Set(Y, "=", X), Emit("Moved", Id("x"))>>,
    <<Let("a", N(1)), If(Bin(P, "<", X), <<Let("a", Y), Emit("Moved", Id("a"))>>, <<>>),
      Set(Y, "=", Id("a"))>>,
    <<LetAs("a", Sealed(Amount), X), Emit("Hid", Id("a")), Set(C, "+", Id("a"))>>,
    <<If(Bin(P, "<", X), <<Let("a", Y)>>, <<>>), Emit("Moved", Id("a"))>>,
    <<For("e", "l", <<Set(X, "+", Id("e"))>>), Set(Y, "=", Id("e"))>>,
    <<Let("a", X), Match(P, 0, <<Let("a", N(2)), Set(Y, "=", Id("a"))>>, 1, <<>>),
      Emit("Moved", Id("a"))>> }

\* What some phase refuses.
Refused_ ==
  { <<Set(X, "=", Id("nothing"))>>, <<[k |-> "return", e |-> X]>>,
    <<Emit("Nothing", X)>>, <<Set(X, "=", C)>>, <<Set(X, "+", C)>>,
    <<Let("a", C), Set(X, "=", Id("a"))>>, <<LetAs("a", Amount, C)>>,
    <<Emit("Moved", C)>>, <<Emit("Moved", Id("now"))>>, <<Set(C, "/", P)>>,
    <<Append_("l", X)>>, <<Append_("s", C)>>, <<If(Bin(C, "<", X), <<Set(X, "=", N(1))>>, <<>>)>>,
    <<If(X, <<>>, <<>>)>>, <<Match(C, 0, <<>>, 1, <<>>)>>, <<For("e", "x", <<>>)>>,
    <<Delete(Id("m"))>>, <<Delete(Member(Elem("s", N(0))))>>, <<Let("a", X), Delete(Id("a"))>>,
    <<Delete(Elem("s", N(0)))>>, <<Set(X, "=", Len_("m"))>>, <<Set(X, "=", Call(X, P))>>,
    <<Set(X, "=", Call(Id("owner"), C))>>, <<Set(Id("due"), "+", Id("due"))>>,
    <<Set(C, "=", Enc(C))>>, <<Set(X, "=", Not(X))>>, <<Set(X, "=", Cond(X, X, Y))>> }

Guards ==
  { <<>>,
    <<When(Bin(Bin(P, "<", N(2)), "and", Bin(N(0), "<", X)))>>,
    <<Only(To("deployer")), When(Bin(X, "<=", Y))>>,
    <<Only(To("owner")), Given(Bin(X, "<", Y))>>,
    <<Only(ToThe(Cond(B(1), Id("owner"), Id("deployer"))))>>,
    <<Only(To("caller"))>>,
    <<Only(To("parties"))>>,
    <<Only(ToThe(X))>>,
    <<When(Bin(C, "<", X))>>,
    <<When(Bin(Id("cb"), "or", B(0)))>>,
    <<Given(Id("cb"))>> }
Targets_ == {Nobody, To("caller"), To("owner"), To("parties"), ToThe(Id("owner")), ToThe(X)}

\* A callee that calls back finds what a statement before the call stored, and
\* the statements after it find what it left.
Storing ==
  { Set(X, "-", N(1)), Set(X, "*", Bin(N(2), "+", N(1))), Set(Elem("m", P), "+", N(1)),
    Set(Elem("l", P), "=", Bin(Elem("l", P), "+", N(1))), Append_("s", P), Delete(X) }
AroundCall ==
  {Action(Amount, <<>>, <<a, Do(Call(Id("caller"), P)), b>>) :
     a \in Storing, b \in Simple \cup {If(Bin(P, "<", X), <<Set(X, "=", Y)>>, <<Emit("Moved", X)>>)}}
\* Left out are those that read a field on both sides of a call in one block:
\* sload_coalesce keeps what it read before the call (README, section 6).
StaleRead ==
  {Action(Amount, <<>>, <<Do(Call(Id("caller"), Y)), b>>) :
     b \in {Do(Call(Id("caller"), Y)), Set(Y, "+", X)}}

\* Every pair of plain statements, with a branch or loop or what is encrypted;
\* names, refusals and guards; and declarations that answer.
\* One call made twice in a row is left to MCRepeatedCall.
CallTwice == Action(Amount, <<>>, <<Set(X, "=", Call(Id("owner"), P)), Set(X, "=", Call(Id("owner"), P))>>)
Actions ==
  {Action(Amount, <<>>, <<a, b>>) : a \in Simple \cup Branching, b \in Simple \cup Branching}
    \cup {Action(Amount, <<>>, <<a, b>>) : a \in Secret, b \in Secret \cup Branching}
    \cup {Action(Sealed(Amount), <<>>, <<a, b>>) : a \in Secret, b \in Secret \cup {Set(X, "=", P)}}
    \cup {Action(Amount, <<>>, body) : body \in Naming \cup Refused_}
    \cup {Action(Amount, gs, <<a>>) : gs \in Guards, a \in Simple}
Answers ==
  {View(Amount, ty, gs, e) : ty \in {Amount, Sealed(Amount), Address}, gs \in Guards,
                             e \in {X, C, Bin(X, "-", P), Enc(X), Id("caller"), Elem("m", P)}}
    \cup {Reveal(ty, to, gs, e) : ty \in {Amount, Sealed(Amount)}, to \in Targets_,
                                  gs \in {<<>>, <<Only(To("deployer"))>>},
                                  e \in {X, C, Bin(C, "+", P), Member(Elem("es", P))}}
    \cup {Disclose(to, f) : to \in Targets_, f \in {"x", "c", "cb", "p"}}
MCRepeatedCall == {CallTwice}
\* The declarations that are read from a text: every statement, guard, target
\* and answer is in some of them.
Written ==
  {Action(Amount, <<>>, <<a, Set(Y, "=", Bin(X, "-", Bin(P, "-", N(1))))>>) : a \in Simple \cup Branching}
    \cup {Action(ty, <<>>, <<a>>) : ty \in {Amount, Sealed(Amount)}, a \in Secret}
    \cup {Action(Amount, <<>>, body) : body \in Naming \cup Refused_}
    \cup {Action(Amount, gs, <<Set(X, "=", P)>>) : gs \in Guards}
    \cup {View(Amount, Amount, gs, X) : gs \in Guards}
    \cup {Reveal(Amount, to, gs, Bin(C, "+", P)) : to \in Targets_ \ {Nobody},
                                                gs \in {<<>>, <<Only(To("deployer"))>>}}
    \cup {Disclose(to, f) : to \in Targets_, f \in {"x", "c"}}
    \cup {View(Amount, Amount, <<>>, Bin(Bin(a, o, b), q, Bin(b, q, Bin(a, o, P)))) :
            o \in {"+", "*", "<", "==", "and", "or"}, q \in {"-", "%", "<=", "!=", "and", "or"},
            a \in {X}, b \in {Y}}
MCFiles ==
  {[text |-> t, prog |-> NoProgram] : t \in Handwritten}
    \cup {[text |-> Spell(pr), prog |-> pr] : pr \in Written}
MCPrograms ==
  ((Actions \ ({CallTwice} \cup StaleRead)) \cup AroundCall \cup Answers
    \cup {[Action(Amount, <<>>, <<Set(X, "=", Id(n))>>) EXCEPT !.x = n] :
            n \in {"caller", "deployer", "y"}}) \ Written

\* Storage with a list of two, lists of one struct, and small amounts.
Stored(x, y, c, cb, es) ==
  (<<"x">> :> x) @@ (<<"y">> :> y) @@ (<<"due">> :> 2) @@ (<<"span">> :> 1) @@ (<<"owner">> :> 2)
    @@ (<<"l">> :> 2) @@ (<<"l", 0>> :> 1) @@ (<<"l", 1>> :> 2)
    @@ (<<"s">> :> 1) @@ (<<"s", 0>> :> 3) @@ (<<"m", 1>> :> 2)
    @@ (<<"c">> :> Ciphertext(c)) @@ (<<"cb">> :> Ciphertext(cb))
    @@ (<<"es">> :> 1) @@ (<<"es", 0>> :> Ciphertext(es))
Tx(st, p, caller, now, answers, writes) ==
  [st |-> st, p |-> p, caller |-> caller, deployer |-> 1, now |-> now, answers |-> answers,
   writes |-> writes]
\* What a callee leaves behind: more of everything, or less.
Raised  == (<<"x">> :> 4) @@ (<<"y">> :> 2) @@ (<<"l">> :> 2) @@ (<<"l", 0>> :> 3)
             @@ (<<"m", 0>> :> 5) @@ (<<"c">> :> Ciphertext(3))
Lowered == (<<"x">> :> 1) @@ (<<"y">> :> 0) @@ (<<"l">> :> 1) @@ (<<"m", 1>> :> 0)
             @@ (<<"m", 2>> :> 7) @@ (<<"s">> :> 0)
\* The fourth and fifth differ from the third in plaintexts only.
MCTransactions ==
  { Tx(<<>>, 0, 1, 3, 1, Raised),
    Tx(Stored(2, 3, 5, 1, 2), 0, 2, 3, 0, Raised),
    Tx(Stored(3, 1, 2, 0, 4), 1, 1, 3, 2, Lowered),
    Tx(Stored(3, 1, 0, 1, 7), 1, 1, 3, 2, Lowered),
    Tx(Stored(3, 1, 2, 0, 4), 0, 1, 3, 2, Lowered),
    Tx(Stored(1, 4, 1, 1, 0), 2, 2, 1, 2, Raised),
    Tx(Stored(14, 15, 15, 0, 9), 1, 2, 3, 3, <<>>) }

(***************************************************************************)
(* Spec's fairness, WF_vars(Next), in a form TLC evaluates in reasonable   *)
(* time: its ENABLED would run the whole compiler again in every state.    *)
(* A clock counts the steps modulo 2, so that a step that changes nothing  *)
(* shows as a cycle; an unfinished state without a successor is a          *)
(* deadlock, which the run looks for; and while the compilation is not     *)
(* finished the clock goes on.  As Next is then enabled in every           *)
(* unfinished state and only there, this is what WF_vars(Next) says.       *)
(***************************************************************************)
VARIABLE clock
MCInit  == Init /\ clock = 0
Ticking == Next /\ clock' = 1 - clock
AtRest  == Finished /\ UNCHANGED <<vars, clock>>
MCSpec ==
  /\ MCInit
  /\ [][Ticking \/ AtRest]_<<vars, clock>>
  /\ []<>Finished \/ []<><<clock' # clock>>_clock
=============================================================================
