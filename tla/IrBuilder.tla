------------------------------ MODULE IrBuilder ------------------------------
(***************************************************************************)
(* Lowering: from a checked action, view or reveal to blocks of            *)
(* instructions (crates/covenant-ir/src/builder.rs).  `fb` is the          *)
(* FunctionBuilder: the function under construction, the block the next    *)
(* instruction goes to, the next value, the value each local stands for    *)
(* and whether all could be lowered.  An operator that lowers an           *)
(* expression leaves the value it produced in fb.v.                        *)
(***************************************************************************)
EXTENDS CovenantIR, CovenantSource

FunctionBuilder(prog) ==
  [params |-> <<1>>,
   blocks |-> <<Block(<<>>, <<>>, Stop("Return", 0))>>,
   current |-> Entry, next |-> 2, v |-> 0, ok |-> TRUE,
   consts |-> <<>>, types |-> (1 :> prog.ty), local_to_value |-> (ArgId :> 1)]
Refused(fb) == [fb EXCEPT !.ok = FALSE]

new_block(fb) ==
  [fb EXCEPT !.blocks = Append(@, Block(<<>>, <<>>, Stop("Unreachable", 0)))]
set_current(fb, b) == [fb EXCEPT !.current = b]
Terminate(fb, term) == [fb EXCEPT !.blocks[fb.current].term = term]
LastBlock(fb) == Len(fb.blocks)

fresh_value(fb, ty) ==
  [fb EXCEPT !.v = fb.next, !.next = @ + 1, !.types = (fb.next :> ty) @@ @]
emit_const(fb, kind, n, ty) ==
  [fresh_value(fb, ty) EXCEPT !.consts = (fb.next :> [kind |-> kind, n |-> n]) @@ @]
block_param(fb, b, ty) ==
  [fresh_value(fb, ty) EXCEPT !.blocks[b].params = Append(@, fb.next)]
Push(fb, ins) == [fb EXCEPT !.blocks[fb.current].instrs = Append(@, ins)]
emit_instr(fb, op, imm, args, ty) ==
  Push(fresh_value(fb, ty), Instr(op, imm, args, fb.next))
emit_void(fb, op, imm, args) == Push(fb, Instr(op, imm, args, 0))

\* Encrypted operands first, then times, then durations.
choose_binop(o, lt, rt) ==
  LET sealed == IsSealed(lt) \/ IsSealed(rt)
      Of(cipher, time, span, plain) ==
        CASE sealed -> cipher
          [] Time \in {lt, rt} -> time
          [] Duration \in {lt, rt} -> span
          [] OTHER -> plain
  IN CASE o = "+"   -> Of("FheAdd", "TimeAdd", "DurationAdd", "AddChecked")
       [] o = "-"   -> Of("FheSub", "TimeSub", "DurationSub", "SubChecked")
       [] o = "*"   -> Of("FheMul", "MulChecked", "DurationScale", "MulChecked")
       [] o = "/"   -> "Div"
       [] o = "%"   -> "Mod"
       [] o = "<"   -> Of("FheCmpLt", "Lt", "Lt", "Lt")
       [] o = "<="  -> Of("FheCmpLe", "Le", "Le", "Le")
       [] o = "=="  -> Of("FheCmpEq", "Eq", "Eq", "Eq")
       [] o = "!="  -> Of("FheCmpNe", "Ne", "Ne", "Ne")
       [] o = "and" -> "FheAnd"
       [] o = "or"  -> "FheOr"

\* A compound assignment uses the checked forms, and on an encrypted field the
\* encrypted ones.
CompoundOp(o) ==
  CASE o = "+" -> "AddChecked" [] o = "-" -> "SubChecked" [] o = "*" -> "MulChecked"
    [] o = "/" -> "Div"        [] o = "%" -> "Mod"
CompoundOnField(o, ty) ==
  IF IsSealed(ty) /\ o \in {"+", "-", "*"} THEN choose_binop(o, ty, ty) ELSE CompoundOp(o)

ElemType(t) == IF IsList(t) THEN t[2] ELSE IF IsMap(t) THEN t[3] ELSE Unknown
SLoad(fb, f) == emit_instr(fb, "SLoad", f, <<>>, FieldType[f])

(***************************************************************************)
(* Expressions.                                                            *)
(***************************************************************************)
RECURSIVE lower_expr(_, _)
\* The right operand gets a block of its own: the left one may decide.  The
\* result is the parameter of the block where the two ways meet.
lower_short_circuit(l, e) ==
  LET rhs   == LastBlock(l) + 1
      merge == LastBlock(l) + 2
      open  == block_param(new_block(new_block(l)), merge, TypeOf(e))
      short == emit_const(open, "bool", Truth(e.o = "or"), TypeOf(e))
      split == Terminate(short,
                 IF e.o = "and" THEN Branch(l.v, rhs, <<>>, merge, <<short.v>>)
                 ELSE Branch(l.v, merge, <<short.v>>, rhs, <<>>))
      r     == lower_expr(set_current(split, rhs), e.b)
  IN [set_current(Terminate(r, Jump(merge, <<r.v>>)), merge) EXCEPT !.v = open.v]

lower_if_expr(c, e) ==
  LET then  == LastBlock(c) + 1
      else  == LastBlock(c) + 2
      merge == LastBlock(c) + 3
      open  == block_param(new_block(new_block(new_block(c))), merge, TypeOf(e))
      split == Terminate(open, Branch(c.v, then, <<>>, else, <<>>))
      t == lower_expr(set_current(split, then), e.a)
      f == lower_expr(set_current(Terminate(t, Jump(merge, <<t.v>>)), else), e.b)
  IN [set_current(Terminate(f, Jump(merge, <<f.v>>)), merge) EXCEPT !.v = open.v]

lower_index(fb, e) ==        \* the collection's handle before the index
  LET base == lower_expr(fb, e.a)
      i    == lower_expr(base, e.i)
  IN emit_instr(i, IF IsList(i.types[base.v]) THEN "ListGet" ELSE "MapGet", NoImm,
                <<base.v, i.v>>, TypeOf(e))

\* A map knows neither its length nor its keys.
lower_field_access(base, e) ==
  IF e.k = "len" /\ IsMap(base.types[base.v])
  THEN Refused(emit_const(base, "int", 0, TypeOf(e)))
  ELSE emit_instr(base, IF e.k = "len" THEN "ListLength" ELSE "StructGet", NoImm,
                  <<base.v>>, TypeOf(e))

lower_binary(fb, e) ==
  LET l == lower_expr(fb, e.a)
      r == lower_expr(l, e.b)
  IN IF e.o \in {"and", "or"} /\ ~ OnSealed(e) THEN lower_short_circuit(l, e)
     ELSE emit_instr(r, choose_binop(e.o, r.types[l.v], r.types[r.v]), NoImm,
                     <<l.v, r.v>>, TypeOf(e))

Encrypt(fb, ty, lift) ==
  Push(fresh_value(fb, ty), [Instr("FheEncryptTrivial", NoImm, <<fb.v>>, fb.next)
                               EXCEPT !.lift = lift])
\* What the type checker marked is encrypted, unless it already is.
lower_lift(a) == IF IsSealed(a.types[a.v]) THEN a ELSE Encrypt(a, Sealed(a.types[a.v]), TRUE)

lower_ident(fb, e) ==
  IF e.id \in DOMAIN fb.local_to_value THEN [fb EXCEPT !.v = fb.local_to_value[e.id]]
  ELSE emit_const(fb, "int", 0, TypeOf(e))

lower_expr(fb, e) ==
  CASE e.k \in {"int", "bool"} -> emit_const(fb, e.k, e.n, TypeOf(e))
    [] e.k = "field"    -> SLoad(fb, e.f)
    [] e.k = "var"      -> lower_ident(fb, e)
    [] e.k = "caller"   -> emit_instr(fb, "LoadCaller", NoImm, <<>>, Address)
    [] e.k = "deployer" -> emit_instr(fb, "LoadDeployer", NoImm, <<>>, Address)
    [] e.k = "now"      -> emit_instr(fb, "LoadNow", NoImm, <<>>, Time)
    [] e.k = "none"     -> fb
    [] e.k = "not"      -> LET a == lower_expr(fb, e.a) IN
                             emit_instr(a, "LogicalNot", NoImm, <<a.v>>, TypeOf(e))
    [] e.k = "call"     -> LET i == lower_expr(fb, e.i)
                               a == lower_expr(i, e.a)
                           IN emit_instr(a, "ExternalCall", NoImm, <<i.v, a.v>>, TypeOf(e))
    [] e.k = "bin"      -> lower_binary(fb, e)
    [] e.k = "cond"     -> lower_if_expr(lower_expr(fb, e.c), e)
    [] e.k = "elem"     -> lower_index(fb, e)
    [] e.k \in {"len", "member"} -> lower_field_access(lower_expr(fb, e.a), e)
    [] e.k = "enc"      -> Encrypt(lower_expr(fb, e.a), TypeOf(e), FALSE)
    [] e.k = "lift"     -> lower_lift(lower_expr(fb, e.a))

(***************************************************************************)
(* Assignments.  The right-hand side `rhs` was lowered before.             *)
(***************************************************************************)
\* Names of fields; what a name is bound to here does not matter.
NameOf(t) == IF t.k = "field" THEN t.f ELSE IF t.k = "var" THEN t.x ELSE NoImm
IsField(name) == name \in DOMAIN FieldType

Compounded(fb, o, old, rhs, ty) ==
  IF o = "=" THEN [fb EXCEPT !.v = rhs]
  ELSE emit_instr(fb, CompoundOp(o), NoImm, <<old, rhs>>, ty)

\* Nothing is emitted for a name that is no field's.
lower_assign_ident(fb, name, o, rhs) ==
  LET ty  == FieldType[name]
      cur == SLoad(fb, name)
      arg == IF IsSealed(ty) /\ ~ IsSealed(fb.types[rhs]) /\ fb.types[rhs] # Unknown
             THEN Encrypt([cur EXCEPT !.v = rhs], ty, TRUE) ELSE [cur EXCEPT !.v = rhs]
      new == emit_instr(arg, CompoundOnField(o, ty), NoImm, <<cur.v, arg.v>>, ty)
  IN IF ~ IsField(name) THEN fb
     ELSE IF o = "=" THEN emit_void(fb, "SStore", name, <<rhs>>)
     ELSE emit_void(new, "SStore", name, <<new.v>>)

\* The element there was, where it is needed; what becomes of it; and its way
\* back, which for a map is the map itself.
OldElem(cur, i, t, o) ==
  IF o = "=" THEN cur
  ELSE emit_instr(cur, IF IsList(t.a.ty) THEN "ListGet" ELSE "MapGet", NoImm,
                  <<cur.v, i>>, ElemType(t.a.ty))
StoreBack(fb, f) == emit_void(fb, "SStore", f, <<fb.v>>)
SetElem(new, cur, i, t) ==
  IF IsList(t.a.ty) THEN emit_void(new, "ListSet", NoImm, <<cur, i, new.v>>)
  ELSE StoreBack(emit_instr(new, "MapSet", NoImm, <<cur, i, new.v>>, Unknown), NameOf(t.a))
AssignElem(cur, i, old, t, o, rhs) ==
  SetElem(Compounded(old, o, old.v, rhs, ElemType(t.a.ty)), cur.v, i, t)
AssignAt(cur, i, t, o, rhs) == AssignElem(cur, i, OldElem(cur, i, t, o), t, o, rhs)
LoadedAt(i, t, o, rhs) == AssignAt(SLoad(i, NameOf(t.a)), i.v, t, o, rhs)
lower_assign_index(fb, t, o, rhs) ==
  IF IsField(NameOf(t.a)) THEN LoadedAt(lower_expr(fb, t.i), t, o, rhs) ELSE fb

\* Only a member of an element of a list of structs is written.
GetElem(list, i, ty) == emit_instr(list, "ListGet", NoImm, <<list.v, i>>, ty)
ListAt(i, t) == GetElem(SLoad(i, NameOf(t.a)), i.v, t.ty)
SetMember(new, at) == emit_void(new, "StructSet", NoImm, <<at, new.v>>)
AssignMember(at, t, o, rhs) ==
  LET old == IF o = "=" THEN at ELSE emit_instr(at, "StructGet", NoImm, <<at.v>>, t.ty)
  IN SetMember(Compounded(old, o, old.v, rhs, t.ty), at.v)
lower_assign_member(fb, t, o, rhs) ==
  IF t.a.k = "elem" /\ IsField(NameOf(t.a.a)) /\ IsList(t.a.a.ty)
  THEN AssignMember(ListAt(lower_expr(fb, t.a.i), t.a), t, o, rhs) ELSE fb

lower_assign(fb, t, o, rhs) ==
  CASE t.k \in {"field", "var"} -> lower_assign_ident(fb, NameOf(t), o, rhs)
    [] t.k = "elem"   -> lower_assign_index(fb, t, o, rhs)
    [] t.k = "member" -> lower_assign_member(fb, t, o, rhs)
    [] OTHER          -> fb

emit_zero(fb, ty) == emit_const(fb, IF ty = Bool THEN "bool" ELSE "int", 0, ty)
delete_field(fb, f) ==
  LET zero == emit_zero(fb, FieldType[f]) IN emit_void(zero, "SStore", f, <<zero.v>>)
DeleteAt(i, t) ==
  LET h == SLoad(i, NameOf(t.a))
      z == emit_zero(h, ElemType(t.a.ty))
  IN IF IsList(t.a.ty) THEN emit_void(z, "ListSet", NoImm, <<h.v, i.v, z.v>>)
     ELSE emit_void(h, "MapDelete", NoImm, <<h.v, i.v>>)
delete_elem(fb, t) == DeleteAt(lower_expr(fb, t.i), t)
\* A whole map, a struct's member and what is no field cannot be deleted.
lower_delete(fb, t) ==
  LET f == NameOf(IF t.k = "elem" THEN t.a ELSE t) IN
  IF ~ IsField(f) THEN Refused(fb)
  ELSE IF t.k = "elem"
       THEN IF IsList(t.a.ty) \/ IsMap(t.a.ty) THEN delete_elem(fb, t) ELSE Refused(fb)
  ELSE IF IsMap(FieldType[f]) THEN Refused(fb) ELSE delete_field(fb, f)

(***************************************************************************)
(* Statements.                                                             *)
(***************************************************************************)
\* Falls through to `to`, unless the block has already ended the run.
FallTo(fb, to) ==
  IF fb.blocks[fb.current].term.t \in {"Return", "Revert"} THEN fb
  ELSE Terminate(fb, Jump(to, <<>>))

RECURSIVE lower_stmt(_, _), lower_arms(_, _, _, _), BranchOn(_, _, _, _), lower_match_arms(_, _, _, _)
lower_stmts(fb, ss) == FoldLeft(lower_stmt, fb, ss)

\* Each condition opens the block it leads to and the one for what comes next;
\* the first also the block where all of them meet, before anything is nested.
lower_arms(fb, arms, b, merge) ==
  IF arms = <<>> THEN FallTo(lower_stmts(fb, b), merge)
  ELSE BranchOn(lower_expr(fb, Head(arms).c), arms, b, merge)
BranchOn(c, arms, b, merge) ==
  LET then == LastBlock(c) + 1
      meet == IF merge = 0 THEN then + 2 ELSE merge
      wide == IF merge = 0 THEN new_block(c) ELSE c
      open == Terminate(new_block(new_block(wide)), Branch(c.v, then, <<>>, then + 1, <<>>))
  IN lower_arms(set_current(FallTo(lower_stmts(set_current(open, then), Head(arms).a), meet),
                            then + 1), Tail(arms), b, meet)

lower_if(fb, s) ==
  LET c == lower_expr(fb, s.arms[1].c) IN
    set_current(lower_arms(fb, s.arms, s.b, 0), LastBlock(c) + 3)

EqualTo(pat, on) == emit_instr(pat, "Eq", NoImm, <<on, pat.v>>, Bool)
MatchOn(eq, body, arms, on, merge) ==
  LET open == Terminate(new_block(new_block(eq)), Branch(eq.v, body, <<>>, body + 1, <<>>))
      t    == FallTo(lower_stmts(set_current(open, body), Head(arms).a), merge)
  IN lower_match_arms(set_current(t, body + 1), Tail(arms), on, merge)
lower_match_arms(fb, arms, on, merge) ==
  IF arms = <<>> THEN Terminate(fb, Jump(merge, <<>>))
  ELSE LET eq == EqualTo(lower_expr(fb, Head(arms).c), on)
       IN MatchOn(eq, LastBlock(eq) + 1, arms, on, merge)

\* Nobody branches on what is encrypted.
lower_match(e, s) ==
  LET merge == LastBlock(e) + 1 IN
  IF IsSealed(e.types[e.v]) THEN Refused(e)
  ELSE set_current(lower_match_arms(new_block(e), s.arms, e.v, merge), merge)

\* The length is read once; a counter goes round as the header's parameter.
LoopHead(len, list, i, header) ==
  LET zero == emit_const(i, "int", 0, Amount)
      lt   == emit_instr(set_current(Terminate(zero, Jump(header, <<zero.v>>)), header),
                         "Lt", NoImm, <<i.v, len.v>>, Bool)
  IN emit_instr(set_current(Terminate(lt, Branch(lt.v, header + 1, <<>>, header + 2, <<>>)),
                            header + 1),
                "ListGet", NoImm, <<list.v, i.v>>, ElemType(list.types[list.v]))
LoopBody(elem, s) ==
  lower_stmts([elem EXCEPT !.local_to_value = (s.id :> elem.v) @@ @], s.a)
LoopEnd(done, i, header) ==
  LET one == emit_const(done, "int", 1, Amount)
      up  == emit_instr(one, "AddChecked", NoImm, <<i.v, one.v>>, Amount)
  IN IF done.blocks[done.current].term.t \in {"Return", "Revert"} THEN done
     ELSE Terminate(up, Jump(header, <<up.v>>))
Loop(list, len, header, s) ==
  LET i == block_param(new_block(new_block(new_block(len))), header, Amount)
  IN set_current(LoopEnd(LoopBody(LoopHead(len, list, i, header), s), i, header), header + 2)
lower_for_each(list, s) ==
  LET len == emit_instr(list, "ListLength", NoImm, <<list.v>>, Amount)
  IN Loop(list, len, LastBlock(len) + 1, s)

lower_append(e, s) ==
  LET new  == emit_instr(e, "StructNew", NoImm, <<e.v>>, Unknown)
      list == emit_instr(new, "SLoad", NameOf(s.t), <<>>, s.t.ty)
      len  == emit_instr(list, "ListAppend", NoImm, <<list.v, new.v>>, Amount)
  IN IF IsField(NameOf(s.t)) THEN emit_void(len, "SStore", NameOf(s.t), <<len.v>>)
     ELSE Refused(new)

\* With e standing behind the expression the statement starts with.
StmtOn(fb, s, e) ==
  CASE s.k = "eval"   -> e
    [] s.k = "let"    -> [e EXCEPT !.local_to_value = (s.id :> e.v) @@ @]
    [] s.k = "set"    -> lower_assign(e, s.t, s.o, e.v)
    [] s.k = "delete" -> lower_delete(fb, s.t)
    [] s.k = "if"     -> lower_if(fb, s)
    [] s.k = "match"  -> lower_match(e, s)
    [] s.k = "for"    -> lower_for_each(e, s)
    [] s.k = "append" -> lower_append(e, s)
    [] s.k = "emit"   -> emit_void(e, "Emit", s.ev, <<e.v>>)
    [] s.k = "revert" -> Terminate(fb, Stop("Revert", 0))
lower_stmt(fb, s) == StmtOn(fb, s, lower_expr(fb, IF s.k = "for" THEN s.t ELSE s.e))

(***************************************************************************)
(* Guards and declarations.                                                *)
(***************************************************************************)
AssertEqCaller(fb) ==
  LET caller == emit_instr(fb, "LoadCaller", NoImm, <<>>, Address)
      eq     == emit_instr(caller, "Eq", NoImm, <<caller.v, fb.v>>, Bool)
  IN emit_void(eq, "Assert", NoImm, <<eq.v>>)

\* Mutant: principals without a lowering are let through (KSR-CVN-011).
OnlyLetThrough(fb, who) ==
  CASE who = "deployer" -> AssertEqCaller(emit_instr(fb, "LoadDeployer", NoImm, <<>>, Address))
    [] who = "owner"    -> AssertEqCaller(SLoad(fb, "owner"))
    [] who = "address"  -> AssertEqCaller(fb)
    [] OTHER            -> fb
\* With `fb` standing behind the principal's own value.
emit_only_assert(fb, who) ==
  LET false == emit_const(fb, "bool", 0, Bool) IN
  CASE who \in {"caller", "none"} -> fb
    [] who = "deployer" -> AssertEqCaller(emit_instr(fb, "LoadDeployer", NoImm, <<>>, Address))
    [] who = "owner"    -> AssertEqCaller(SLoad(fb, "owner"))
    [] who = "address"  -> AssertEqCaller(fb)
    [] OTHER            -> emit_void(false, "Assert", NoImm, <<false.v>>)

ty_is_definitely_not_address(t) ==
  t \in {Amount, Time, Duration, Bool} \/ IsList(t) \/ IsMap(t) \/ IsSealed(t)
check_principal_is_address(fb, p) ==
  CASE p.who = "address" -> /\ p.e.k \notin {"int", "bool", "not"}
                            /\ ~ ty_is_definitely_not_address(fb.types[fb.v])
    [] p.who = "owner"   -> ~ ty_is_definitely_not_address(FieldType["owner"])
    [] OTHER             -> TRUE

lower_only(p, g) ==
  emit_only_assert(IF check_principal_is_address(p, g) THEN p ELSE Refused(p), g.who)
lower_condition(e, g) ==
  emit_void(e, IF g.k = "when" /\ IsSealed(e.types[e.v]) THEN "AssertEncrypted" ELSE "Assert",
            NoImm, <<e.v>>)
GuardOn(e, g) == IF g.k = "only" THEN lower_only(e, g) ELSE lower_condition(e, g)
lower_guard(fb, g) == GuardOn(lower_expr(fb, g.e), g)

close_with_default_return(fb) ==
  IF fb.blocks[fb.current].term.t = "Unreachable" THEN Terminate(fb, Stop("Return", 0)) ELSE fb
Entered(prog) == FoldLeft(lower_guard, FunctionBuilder(prog), prog.guards)

lower_action(prog) == close_with_default_return(lower_stmts(Entered(prog), prog.body))
lower_view(prog) ==
  LET e == lower_expr(Entered(prog), prog.e) IN Terminate(e, Stop("Return", e.v))
\* A reveal is a view its target alone may have, and answers in plaintext.
\* Naming what is no field, it answers nothing.
Shown(fb) ==
  LET open == emit_instr(fb, "RevealDecrypt", NoImm, <<fb.v>>, fb.types[fb.v][2])
      out  == IF IsSealed(fb.types[fb.v]) THEN open ELSE fb
  IN Terminate(out, Stop("Return", out.v))
lower_reveal(prog) ==
  LET start == Entered(prog)
      only  == emit_only_assert(lower_expr(start, prog.to.e), prog.to.who)
  IN IF prog.kind = "disclose" /\ prog.e.k # "field" THEN Terminate(only, Stop("Return", 0))
     ELSE Shown(lower_expr(only, prog.e))

lower(prog) ==
  CASE prog.kind = "action" -> lower_action(prog)
    [] prog.kind = "view"   -> lower_view(prog)
    [] OTHER                -> lower_reveal(prog)

\* The function handed to the passes.
finish(fb) ==
  [params |-> fb.params, blocks |-> fb.blocks, consts |-> fb.consts, types |-> fb.types]
=============================================================================
