---------------------------- MODULE CovenantSource ----------------------------
(***************************************************************************)
(* What a program of the language means: the abstract specification the    *)
(* compiler is held to.  An action, a view or a reveal of a contract runs  *)
(* in one transaction; it ends by returning or by reverting, and what can  *)
(* be seen of it then is the value, the storage and the log.               *)
(*                                                                         *)
(* Expressions and statements are records whose `k` says what they are:    *)
(*   int, bool (n)   id (x), which resolves to one of                      *)
(*   field (f), var (x, id), caller, deployer, now                         *)
(*   bin (o, a, b)   not (a)   cond (c, a, b)   len (a)                    *)
(*   elem (a, i): a[i]   member (a): a.c, of a struct with one member      *)
(*   enc (a)   call (i, a): to the contract at i   none                    *)
(*   lift (a): an encryption the type checker inserts                      *)
(*                                                                         *)
(*   let (x, ty, e)   set (t, o, e): t o= e, plain when o is "="           *)
(*   delete (t)   append (t, e)   emit (ev, e)   eval (e)   revert         *)
(*   if (arms of [c, a], b)   match (e, arms of [c, a], b)                 *)
(*   for (x, t, a)   return (e)                                            *)
(* The type checker adds to every expression its type, as `ty`.            *)
(*                                                                         *)
(* A program is [kind, x, ty, ret, to, guards, body, e]: its argument x of *)
(* type ty, the statements of an action, the expression of a view, of a    *)
(* reveal ("reveal") or the field a reveal names ("disclose"), whom a      *)
(* reveal is made to.  A principal is [who, e]: the owner, the deployer,   *)
(* the address e, the caller whoever that is, or none; a guard [k, who, e]. *)
(***************************************************************************)
EXTENDS Words, Sequences, TLC

CONSTANTS FieldType,     \* the contract's fields
          EventType      \* its events, each with one argument
ASSUME HasOwner == "owner" \in DOMAIN FieldType

(***************************************************************************)
(* Types are tuples: a name and what it is made of.                        *)
(***************************************************************************)
Amount       == <<"amount">>
Bool         == <<"bool">>
Address      == <<"address">>
Time         == <<"time">>
Duration     == <<"duration">>
Unit         == <<"unit">>
Unknown      == <<"unknown">>
Sealed(t)    == <<"ciphertext", t>>
ListOf(t)    == <<"list", t>>
MapOf(k, t)  == <<"map", k, t>>
StructOf(t)  == <<"struct", t>>
IsSealed(t) == Head(t) = "ciphertext"
IsList(t)   == Head(t) = "list"
IsMap(t)    == Head(t) = "map"
IsStruct(t) == Head(t) = "struct"
TypeOf(e) == IF "ty" \in DOMAIN e THEN e.ty ELSE Unknown
\* An operator works on ciphertexts when an operand is one.
OnSealed(e) == IsSealed(TypeOf(e.a)) \/ IsSealed(TypeOf(e.b))

(***************************************************************************)
(* Words.  A handle stands for a ciphertext, and is told apart from the    *)
(* plain words; the handle 0, of a slot nobody wrote, holds 0.             *)
(***************************************************************************)
Ciphertext(w) == Width + w
Hidden(w)     == w >= Width
Decrypt(w)    == IF Hidden(w) THEN w - Width ELSE w
Fits(t, w)    == IF IsSealed(t) THEN w = 0 \/ Hidden(w) ELSE ~ Hidden(w)

\* Storage holds a word per slot; a slot nobody wrote holds 0.
Load(st, slot) == IF slot \in DOMAIN st THEN st[slot] ELSE 0
Store(st, slot, w) ==
  [s \in {s \in DOMAIN st \cup {slot} : IF s = slot THEN w # 0 ELSE TRUE} |->
     IF s = slot THEN w ELSE st[s]]

\* Encrypted arithmetic wraps round: nobody may see whether it fits.
SealedResult(o, a, b) == Ciphertext(Result(o, Decrypt(a), Decrypt(b)) % Width)

(***************************************************************************)
(* A run carries the storage, the log, the local variables and, once it    *)
(* has ended, how.  A run is stuck when the language gives no meaning to   *)
(* what comes next: a name without a value, a handle where a plain word    *)
(* belongs, a plain word where a handle does.  `tx` is what the            *)
(* transaction brings along.                                               *)
(***************************************************************************)
Running(run) == run.status = "running"
Reverted(run) == [run EXCEPT !.status = "revert"]
Stuck(run) == [run EXCEPT !.status = "stuck"]
Yield(run, w) == [run EXCEPT !.v = w]
Expect(t, run) == IF Running(run) /\ ~ Fits(t, run.v) THEN Stuck(run) ELSE run
InBounds(run, f, i) == IsMap(FieldType[f]) \/ i < Load(run.st, <<f>>)

\* The other contract answers every call with a word of its own.
Calls(log) == Len(SelectSeq(log, LAMBDA entry : entry[1] = "call"))
Answer(tx, log) == tx.answers + Calls(log)
\* Before it answers it may call back, and leave other words in the storage.
Reentered(tx, st) ==
  LET left == tx.writes @@ st IN [s \in {s \in DOMAIN left : left[s] # 0} |-> left[s]]

\* `a` and `b` are the runs that left the operands.
Operate(o, sealed, a, b) ==
  LET t == IF sealed THEN Sealed(Amount) ELSE Amount IN
  CASE ~ Running(b) -> b
    [] ~ (Fits(t, a.v) /\ Fits(t, b.v)) -> Stuck(b)
    [] sealed -> Yield(b, SealedResult(o, a.v, b.v))
    [] ~ HasResult(o, a.v, b.v) -> Reverted(b)
    [] OTHER -> Yield(b, Result(o, a.v, b.v))

RECURSIVE Eval(_, _, _), Place(_, _, _)
EvalAs(t, tx, run, e) == Expect(t, Eval(tx, run, e))

\* The slot an expression stands for.
Place(tx, run, e) ==
  CASE e.k = "field"  -> Yield(run, <<e.f>>)
    [] e.k = "var"    -> Yield(run, run.vars[e.id])
    [] e.k = "member" -> Place(tx, run, e.a)
    [] e.k = "elem"   -> LET i == EvalAs(Amount, tx, run, e.i) IN
                           IF ~ Running(i) THEN i
                           ELSE IF InBounds(i, e.a.f, i.v) THEN Yield(i, <<e.a.f, i.v>>)
                           ELSE Reverted(i)
At(run) == IF Running(run) THEN Yield(run, Load(run.st, run.v)) ELSE run

\* Plain `and` and `or` leave the right operand alone when the left decides.
EvalBinary(tx, run, e) ==
  LET a == Eval(tx, run, e.a)
      l == Expect(Bool, a)
  IN IF OnSealed(e) \/ e.o \notin {"and", "or"}
     THEN Operate(e.o, OnSealed(e), a, Eval(tx, a, e.b))
     ELSE IF l.v = Truth(e.o = "or") \/ ~ Running(l) THEN l
     ELSE EvalAs(Bool, tx, l, e.b)

EvalNot(a, sealed) ==
  IF ~ sealed THEN Yield(a, Truth(a.v = 0)) ELSE Yield(a, Ciphertext(Truth(Decrypt(a.v) = 0)))

Eval(tx, run, e) ==
  IF ~ Running(run) THEN run ELSE
  CASE e.k \in {"int", "bool"} -> Yield(run, e.n)
    [] e.k = "none"     -> run
    [] e.k = "field"    -> At(Place(tx, run, e))
    [] e.k = "len"      -> At(Place(tx, run, e.a))
    [] e.k = "var"      -> IF e.id \in DOMAIN run.vars THEN Yield(run, run.vars[e.id])
                           ELSE Stuck(run)
    [] e.k = "caller"   -> Yield(run, tx.caller)
    [] e.k = "deployer" -> Yield(run, tx.deployer)
    [] e.k = "now"      -> Yield(run, tx.now)
    [] e.k = "bin"      -> EvalBinary(tx, run, e)
    [] e.k = "not"      -> EvalNot(EvalAs(TypeOf(e.a), tx, run, e.a), IsSealed(TypeOf(e.a)))
    [] e.k = "cond"     -> LET c == EvalAs(Amount, tx, run, e.c) IN
                             Eval(tx, c, IF c.v # 0 THEN e.a ELSE e.b)
    [] e.k = "elem"     -> IF IsStruct(FieldType[e.a.f][2]) THEN Place(tx, run, e)
                           ELSE At(Place(tx, run, e))
    [] e.k = "member"   -> At(Place(tx, run, e))
    [] e.k \in {"enc", "lift"} ->
         LET a == EvalAs(Amount, tx, run, e.a) IN
           IF Running(a) THEN Yield(a, Ciphertext(a.v)) ELSE a
    [] e.k = "call" ->
         LET i == EvalAs(Address, tx, run, e.i)
             a == EvalAs(Amount, tx, i, e.a)
         IN IF ~ Running(a) THEN a
            ELSE IF tx.answers = 0 THEN Reverted(a)
            ELSE [a EXCEPT !.v = Answer(tx, a.log), !.st = Reentered(tx, @),
                           !.log = Append(@, <<"call", i.v, a.v>>)]

\* t o= e: the right-hand side first, then the target's index, then the value
\* the target holds at that moment.
Write(run, t, slot, w) ==
  IF ~ Running(run) THEN run
  ELSE IF ~ Fits(t, w) THEN Stuck(run)
  ELSE [run EXCEPT !.st = Store(@, slot, w)]
Assign(tx, run, t, o, rhs) ==
  LET at  == Place(tx, run, t)
      new == Operate(o, IsSealed(t.ty), At(at), Yield(at, rhs))
  IN CASE ~ Running(run) -> run
       [] t.k = "var" -> [run EXCEPT !.vars[t.id] =
                            IF o = "=" THEN rhs
                            ELSE Operate(o, IsSealed(t.ty), Yield(run, @), Yield(run, rhs)).v]
       [] OTHER -> IF o = "=" THEN Write(at, t.ty, at.v, rhs)
                   ELSE Write(new, t.ty, at.v, new.v)

RECURSIVE Exec(_, _, _), ExecAll(_, _, _), ExecFor(_, _, _, _, _), ExecArms(_, _, _, _)
ExecAll(tx, run, ss) ==
  IF ss = <<>> THEN run ELSE ExecAll(tx, Exec(tx, run, Head(ss)), Tail(ss))

\* A loop visits the positions the list had when it began.
ExecFor(tx, run, s, i, n) ==
  IF i = n \/ ~ Running(run) THEN run
  ELSE LET w == IF IsStruct(s.t.ty[2]) THEN <<s.t.f, i>> ELSE Load(run.st, <<s.t.f, i>>)
       IN ExecFor(tx, ExecAll(tx, [run EXCEPT !.vars = (s.id :> w) @@ @], s.a), s, i + 1, n)

\* if/else-if chains: the first arm whose condition holds.
ExecArms(tx, run, arms, otherwise) ==
  IF arms = <<>> THEN ExecAll(tx, run, otherwise)
  ELSE LET c == EvalAs(Bool, tx, run, Head(arms).c) IN
         IF ~ Running(c) THEN c
         ELSE IF c.v # 0 THEN ExecAll(tx, c, Head(arms).a)
         ELSE ExecArms(tx, c, Tail(arms), otherwise)

ExecMatch(tx, e, arms) ==
  LET hit == {j \in DOMAIN arms : arms[j].c.n = e.v}
  IN IF ~ Running(e) \/ hit = {} THEN e
     ELSE ExecAll(tx, e, arms[CHOOSE j \in hit : \A h \in hit : j <= h].a)

ExecAppend(e, t) ==
  LET n == Load(e.st, <<t.f>>)
      w == Write(e, t.ty[2][2], <<t.f, n>>, e.v)
  IN IF Running(w) THEN [w EXCEPT !.st = Store(@, <<t.f>>, n + 1)] ELSE w

Exec(tx, run, s) ==
  IF ~ Running(run) THEN run ELSE
  CASE s.k = "eval"   -> Eval(tx, run, s.e)
    [] s.k = "let"    -> LET e == Eval(tx, run, s.e) IN
                           [e EXCEPT !.vars = (s.id :> e.v) @@ @]
    [] s.k = "set"    -> LET e == Eval(tx, run, s.e) IN Assign(tx, e, s.t, s.o, e.v)
    [] s.k = "delete" -> Assign(tx, run, s.t, "=", 0)
    [] s.k = "if"     -> ExecArms(tx, run, s.arms, s.b)
    [] s.k = "match"  -> ExecMatch(tx, EvalAs(Amount, tx, run, s.e), s.arms)
    [] s.k = "for"    -> ExecFor(tx, run, s, 0, Load(run.st, <<s.t.f>>))
    [] s.k = "append" -> ExecAppend(Eval(tx, run, s.e), s.t)
    [] s.k = "emit"   -> LET e == EvalAs(EventType[s.ev], tx, run, s.e) IN
                           IF Running(e) THEN [e EXCEPT !.log = Append(@, <<s.ev, e.v>>)]
                           ELSE e
    [] s.k = "revert" -> Reverted(run)

(***************************************************************************)
(* Guards are conditions on entry.  A `when` may ask an encrypted          *)
(* question: that opens its answer, and nothing else.                      *)
(***************************************************************************)
IsPrincipal(tx, run, p) ==
  LET a == Eval(tx, run, p.e) IN
  CASE p.who \in {"caller", "none"} -> Yield(run, 1)
    [] p.who = "deployer" -> Yield(run, Truth(tx.caller = tx.deployer))
    [] p.who = "owner"    -> Yield(run, Truth(tx.caller = Load(run.st, <<"owner">>)))
    [] p.who = "address"  -> Yield(a, Truth(tx.caller = a.v))
    [] OTHER              -> Yield(run, 0)       \* a principal nobody can be
Require(run) == IF Running(run) /\ run.v = 0 THEN Reverted(run) ELSE run
Decrypted(run) == IF Running(run) THEN Yield(run, Decrypt(run.v)) ELSE run

Guard(tx, run, g) ==
  Require(IF g.k = "only" THEN IsPrincipal(tx, run, g)
        ELSE IF g.k = "when" /\ IsSealed(TypeOf(g.e))
             THEN Decrypted(EvalAs(Sealed(Bool), tx, run, g.e))
        ELSE EvalAs(Bool, tx, run, g.e))

RECURSIVE Guarded(_, _, _)
Guarded(tx, run, gs) ==
  IF gs = <<>> \/ ~ Running(run) THEN run ELSE Guarded(tx, Guard(tx, run, Head(gs)), Tail(gs))

\* What can be seen of a run that has ended: nothing but the failure when it
\* failed.
Outcome(status, v, st, log) ==
  IF status # "return" THEN [status |-> status, v |-> 0, st |-> <<>>, log |-> <<>>]
  ELSE [status |-> status, v |-> v, st |-> st, log |-> log]

ArgId == 1
Argument(ty, tx) == IF IsSealed(ty) THEN Ciphertext(tx.p) ELSE tx.p

Performed(prog, tx, entered) ==
  CASE prog.kind = "action" -> Yield(ExecAll(tx, entered, prog.body), 0)
    [] prog.kind = "view"   -> EvalAs(prog.ret, tx, entered, prog.e)
    [] OTHER -> Decrypted(Eval(tx, Require(IsPrincipal(tx, entered, prog.to)), prog.e))
Observed(end) == Outcome(IF Running(end) THEN "return" ELSE end.status, end.v, end.st, end.log)
Meaning(prog, tx) ==
  LET start == [st |-> tx.st, log |-> <<>>, vars |-> (ArgId :> Argument(prog.ty, tx)),
                status |-> "running", v |-> 0]
  IN Observed(Performed(prog, tx, Guarded(tx, start, prog.guards)))
=============================================================================
