------------------------------- MODULE OptPasses -------------------------------
(***************************************************************************)
(* The optimizer's passes (crates/covenant-opt/src), each a function from  *)
(* a function's code to the code it leaves and to whether it says that     *)
(* anything changed.  A pass that finds two values equal only redirects    *)
(* the uses of the second; dead code elimination removes what computed it. *)
(***************************************************************************)
EXTENDS CovenantIR, Words

CONSTANT U128        \* 2^128: constants are folded below it
ASSUME FoldingFits == U128 \in Nat /\ U128 <= Width

Pass(f, changed) == [f |-> f, changed |-> changed]
Over(new, old) ==
  [x \in DOMAIN new \cup DOMAIN old |-> IF x \in DOMAIN new THEN new[x] ELSE old[x]]

(***************************************************************************)
(* Rewriting.  A replacement is looked up once, not followed.              *)
(***************************************************************************)
Renamed(map, v) == IF v \in DOMAIN map THEN map[v] ELSE v
RenamedAll(map, vs) == [i \in DOMAIN vs |-> Renamed(map, vs[i])]

RenamedTerm(map, term) ==
  [term EXCEPT !.v = Renamed(map, @), !.args = RenamedAll(map, @),
               !.eargs = RenamedAll(map, @)]
RewrittenInstr(map, ins) == [ins EXCEPT !.args = RenamedAll(map, @)]
RewrittenBlock(map, block) ==
  [block EXCEPT !.instrs = [i \in DOMAIN @ |-> RewrittenInstr(map, @[i])],
                !.term = RenamedTerm(map, @)]
\* Mutant: what was replaced before counts as a change again.
apply_replacements_any(f, map) ==
  Pass([f EXCEPT !.blocks = [b \in DOMAIN @ |-> RewrittenBlock(map, @[b])]], map # <<>>)
apply_replacements(f, map) ==
  Pass([f EXCEPT !.blocks = [b \in DOMAIN @ |-> RewrittenBlock(map, @[b])]],
       DOMAIN map \cap Uses(f) # {})

as_int(f, v) == v \in DOMAIN f.consts /\ f.consts[v].kind = "int"

\* Of the places `kept`, one whose key an earlier one has gives way to the
\* first that has it.
FirstWith(kept, key, p) ==
  CHOOSE q \in kept : key[q] = key[p] /\ \A r \in kept : key[r] = key[p] => ~ Earlier(r, q)
SameAsEarlier(f, kept, key) ==
  LET first == [p \in kept |-> FirstWith(kept, key, p)]
      again == {p \in kept : first[p] # p}
  IN [v \in {InstrAt(f, p).res : p \in again} |->
        InstrAt(f, first[CHOOSE p \in again : InstrAt(f, p).res = v]).res]

(***************************************************************************)
(* Pass A: @precompute annotations.  It only warns; a function without the *)
(* annotation is left alone.                                               *)
(***************************************************************************)
precompute(f) == Pass(f, FALSE)

(***************************************************************************)
(* Pass B: operations on constants.  What would overflow or divide by zero *)
(* is left for run time.                                                   *)
(***************************************************************************)
Operator(op) ==
  CASE op = "AddChecked" -> "+"  [] op = "SubChecked" -> "-"  [] op = "MulChecked" -> "*"
    [] op = "Div" -> "/"         [] op = "Mod" -> "%"         [] op = "Lt" -> "<"
    [] op = "Le" -> "<="         [] op = "Eq" -> "=="         [] op = "Ne" -> "!="
Arithmetic == {"AddChecked", "SubChecked", "MulChecked", "Div", "Mod"}
Comparison == {"Lt", "Le", "Eq", "Ne"}

int2(op, a, b) ==
  /\ HasResult(Operator(op), a, b)
  /\ op \in Arithmetic => Result(Operator(op), a, b) < U128

Foldable(f, ins) ==
  \/ /\ ins.op \in Arithmetic \cup Comparison
     /\ \A i \in 1 .. 2 : as_int(f, ins.args[i])
     /\ int2(ins.op, f.consts[ins.args[1]].n, f.consts[ins.args[2]].n)
  \/ /\ ins.op = "LogicalNot"
     /\ ins.args[1] \in DOMAIN f.consts /\ f.consts[ins.args[1]].kind = "bool"
try_fold(f, ins) ==
  IF ins.op = "LogicalNot"
  THEN [kind |-> "bool", n |-> 1 - f.consts[ins.args[1]].n]
  ELSE [kind |-> IF ins.op \in Arithmetic THEN "int" ELSE "bool",
        n |-> LET a == f.consts[ins.args[1]].n
                  b == f.consts[ins.args[2]].n
              IN IF ins.op = "SubChecked" /\ a < b THEN 0 ELSE Result(Operator(ins.op), a, b)]

\* A folded result is a fresh constant, numbered after every value there is.
fresh_const(f, k) == Max(DOMAIN f.types) + k
Folds(f) ==
  {p \in Places(f) : InstrAt(f, p).res # 0 /\ ~ InstrAt(f, p).lift /\ Foldable(f, InstrAt(f, p))}
constant_fold(f) ==
  LET folds == Folds(f)
      fresh == [p \in folds |->
                  fresh_const(f, Cardinality({q \in folds : q = p \/ Earlier(q, p)}))]
      new   == {fresh[p] : p \in folds}
      from(v) == InstrAt(f, CHOOSE p \in folds : fresh[p] = v)
      grown == [f EXCEPT !.consts = Over([v \in new |-> try_fold(f, from(v))], @),
                         !.types  = Over([v \in new |-> f.types[from(v).res]], @)]
      map   == [r \in {InstrAt(f, p).res : p \in folds} |->
                  fresh[CHOOSE p \in folds : InstrAt(f, p).res = r]]
  IN apply_replacements(grown, map)

(***************************************************************************)
(* Pass F: one encryption per constant, in the whole function.             *)
(***************************************************************************)
Encryptions(f) ==
  {p \in Places(f) : /\ InstrAt(f, p).op = "FheEncryptTrivial" /\ InstrAt(f, p).res # 0
                     /\ InstrAt(f, p).args[1] \in DOMAIN f.consts}
EncryptionKey(f) ==
  [p \in Encryptions(f) |-> <<f.consts[InstrAt(f, p).args[1]], InstrAt(f, p).lift,
                              f.types[InstrAt(f, p).res]>>]
fhe_fold(f) == apply_replacements(f, SameAsEarlier(f, Encryptions(f), EncryptionKey(f)))

(***************************************************************************)
(* Pass E: loads of one field with no write in between, in one block.      *)
(***************************************************************************)
Forgets(ins, field) ==
  (ins.op = "SStore" /\ ins.imm = field) \/ ins.op \in {"MapSet", "MapDelete", "ListAppend", "ListSet"}
Loads(f) == {p \in Places(f) : InstrAt(f, p).op = "SLoad" /\ InstrAt(f, p).res # 0}
\* A load finds the first one of its field since what last made it forget.
LoadKey(f) ==
  [p \in Loads(f) |->
     LET field == InstrAt(f, p).imm IN
       <<p[1], field, {j \in 1 .. p[2] - 1 : Forgets(f.blocks[p[1]].instrs[j], field)}>>]
sload_coalesce(f) == apply_replacements(f, SameAsEarlier(f, Loads(f), LoadKey(f)))

(***************************************************************************)
(* Pass D: common subexpressions of one block.                             *)
(***************************************************************************)
is_cse_eligible(op) ==
  op \notin {"SLoad", "SStore", "MapSet", "MapDelete", "ListAppend", "ListSet",
             "Emit", "Assert", "AssertEncrypted", "LoadCaller", "LoadNow", "LoadDeployer",
             "RevealDecrypt", "FheAdd", "FheSub", "FheMul", "FheAnd", "FheOr",
             "FheCmpEq", "FheCmpNe", "FheCmpLt", "FheCmpLe"}
Eligible(f) ==
  {p \in Places(f) : /\ is_cse_eligible(InstrAt(f, p).op) /\ ~ InstrAt(f, p).lift
                     /\ InstrAt(f, p).res # 0}
Fingerprint(f) ==
  [p \in Eligible(f) |-> <<p[1], InstrAt(f, p).op, InstrAt(f, p).imm, InstrAt(f, p).args>>]
cse(f) == apply_replacements(f, SameAsEarlier(f, Eligible(f), Fingerprint(f)))

(***************************************************************************)
(* Pass C: unreachable blocks, then instructions without a use or effect.  *)
(***************************************************************************)
\* Mutant: a trap without a reader is dropped (OMEGA V3.6 F-19).
effect_of_untrapped(op) ==
  CASE op \in {"SStore", "MapSet", "MapDelete", "ListSet", "ListAppend", "StructSet",
               "Emit", "Assert", "AssertEncrypted", "RevealDecrypt", "ExternalCall"} -> "State"
    [] OTHER -> "Pure"
effect_of(op) ==
  CASE op \in {"SStore", "MapSet", "MapDelete", "ListSet", "ListAppend", "StructSet",
               "Emit", "Assert", "AssertEncrypted", "RevealDecrypt", "ExternalCall"} -> "State"
    [] op \in {"Div", "Mod", "AddChecked", "SubChecked", "MulChecked", "ListGet"} -> "Trap"
    [] OTHER -> "Pure"

trap_can_fire(f, ins) ==
  ~ CASE ins.op \in {"Div", "Mod"} -> as_int(f, ins.args[2]) /\ f.consts[ins.args[2]].n # 0
      [] ins.op \in {"AddChecked", "SubChecked", "MulChecked"} -> Foldable(f, ins)
      [] OTHER -> FALSE
trap_depends_only_on_operands(op) == op # "ListGet"

\* A trap is kept once per block when its operands decide it.
must_keep(f, b, i) ==
  LET ins == f.blocks[b].instrs[i] IN
  \/ effect_of(ins.op) = "State"
  \/ /\ effect_of(ins.op) = "Trap" /\ trap_can_fire(f, ins)
     /\ trap_depends_only_on_operands(ins.op) =>
          \A j \in 1 .. i - 1 : <<f.blocks[b].instrs[j].op, f.blocks[b].instrs[j].args>>
                                  # <<ins.op, ins.args>>

\* What computes a value.
Feeds(f) ==
  [v \in {InstrAt(f, p).res : p \in Places(f)} |->
     UNION {ToSet(InstrAt(f, p).args) : p \in {q \in Places(f) : InstrAt(f, q).res = v}}]

\* Mutant: only the terminators' operands are live to begin with (OMEGA V6).
LiveSeedTerminators(f) == UNION {TermUses(f.blocks[b].term) : b \in DOMAIN f.blocks}
LiveSeed(f) ==
  UNION {TermUses(f.blocks[b].term)
           \cup UNION {ToSet(f.blocks[b].instrs[i].args) :
                         i \in {j \in DOMAIN f.blocks[b].instrs : must_keep(f, b, j)}}
         : b \in DOMAIN f.blocks}

compute_live_set(f) == Reached(Feeds(f), LiveSeed(f))

dce(f) ==
  LET g    == [f EXCEPT !.blocks = [b \in reachable_blocks(f) \cap DOMAIN @ |-> @[b]]]
      live == compute_live_set(g)
      Stays(b, i) == \/ must_keep(g, b, i)
                     \/ g.blocks[b].instrs[i].res \in live \cup {0}
      left(b) == LET kept == {i \in DOMAIN g.blocks[b].instrs : Stays(b, i)}
                 IN [n \in 1 .. Cardinality(kept) |->
                       g.blocks[b].instrs[Nth(kept, n)]]
      h    == [g EXCEPT !.blocks = [b \in DOMAIN @ |-> [@[b] EXCEPT !.instrs = left(b)]]]
  IN Pass(h, h.blocks # f.blocks)
=============================================================================
