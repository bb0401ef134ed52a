------------------------------ MODULE EvmMachine ------------------------------
(***************************************************************************)
(* The bytecode emitted for a function, as the machine that runs it        *)
(* (crates/covenant-evm-backend/src/codegen.rs).  Every value has a word   *)
(* of memory to itself that reads 0 until it is written; a constant is     *)
(* pushed where it is used.  Storage is addressed as the backend lays it   *)
(* out: <<f>> is a field's own slot (a list keeps its length there),       *)
(* <<f, k>> what hashes from that slot and k.  keccak is injective here.   *)
(***************************************************************************)
EXTENDS CovenantIR, CovenantSource

CONSTANT BlockLimit     \* blocks a run may enter: its gas

as_const(f, v) == v \in DOMAIN f.consts
load_operand(f, mc, v) == IF as_const(f, v) THEN f.consts[v].n ELSE mc.mem[v]
mstore_result(mc, ins, w) == [mc EXCEPT !.mem[ins.res] = w]
Jump__revert__(mc) == [mc EXCEPT !.status = "revert"]

\* A map's or list's base is the slot number of the field whose SLoad made
\* the handle.
Producer(f, v) ==
  CHOOSE ins \in UNION {ToSet(f.blocks[b].instrs) : b \in DOMAIN f.blocks} : ins.res = v
map_base_slot(f, v) == Producer(f, v).imm
struct_new_operand(f, v) == Producer(f, v).args[1]
list_elem_is_struct(f, v) == IsList(f.types[v]) /\ IsStruct(f.types[v][2])

EvmOp(op, a, b) ==
  CASE op = "Lt" -> Truth(a < b)
    [] op = "Le" -> Truth(~ (a > b))
    [] op = "Eq" -> Truth(a = b)
    [] op = "Ne" -> Truth(a # b)

binop(mc, ins, a, b) == mstore_result(mc, ins, EvmOp(ins.op, a, b))

binop_checked(mc, ins, a, b) ==
  LET op == CASE ins.op \in {"AddChecked", "TimeAdd", "DurationAdd"} -> "+"
              [] ins.op \in {"SubChecked", "TimeSub", "DurationSub"} -> "-"
              [] ins.op \in {"MulChecked", "DurationScale"} -> "*"
  IN IF HasResult(op, a, b) THEN mstore_result(mc, ins, Result(op, a, b))
     ELSE Jump__revert__(mc)

\* A literal zero divisor is refused when the code is generated (E519).
binop_div_guarded(mc, ins, a, b) ==
  IF b = 0 THEN Jump__revert__(mc)
  ELSE mstore_result(mc, ins, IF ins.op = "Div" THEN a \div b ELSE a % b)

\* A list access reverts past the end the list had when its handle was read.
list_bounds_check(f, mc, ins) ==
  load_operand(f, mc, ins.args[2]) < load_operand(f, mc, ins.args[1])
list_elem_addr(f, mc, ins) ==
  <<map_base_slot(f, ins.args[1]), load_operand(f, mc, ins.args[2])>>
emit_map_slot(f, mc, ins) ==
  <<map_base_slot(f, ins.args[1]), load_operand(f, mc, ins.args[2])>>

ListGet(f, mc, ins) ==
  IF ~ list_bounds_check(f, mc, ins) THEN Jump__revert__(mc)
  ELSE IF list_elem_is_struct(f, ins.args[1])
       THEN mstore_result(mc, ins, list_elem_addr(f, mc, ins))
       ELSE mstore_result(mc, ins, Load(mc.st, list_elem_addr(f, mc, ins)))
ListSet(f, mc, ins) ==
  IF ~ list_bounds_check(f, mc, ins) THEN Jump__revert__(mc)
  ELSE [mc EXCEPT !.st = Store(@, list_elem_addr(f, mc, ins),
                               load_operand(f, mc, ins.args[3]))]
\* The new element goes where the list ends; the result is the new length.
ListAppend(f, mc, ins) ==
  LET n == load_operand(f, mc, ins.args[1]) IN
    mstore_result([mc EXCEPT !.st =
                     Store(@, <<map_base_slot(f, ins.args[1]), n>>,
                           load_operand(f, mc, struct_new_operand(f, ins.args[2])))],
                  ins, n + 1)

\* The callee fails or answers, and may have called back in between: what this
\* function keeps in memory stays, what it would read again may have changed.
emit_external_call(tx, mc, ins, addr, arg) ==
  IF tx.answers = 0 THEN Jump__revert__(mc)
  ELSE mstore_result([mc EXCEPT !.st = Reentered(tx, @), !.log = Append(@, <<"call", addr, arg>>)],
                     ins, Answer(tx, mc.log))

\* A precompile answers with a fresh handle; RevealDecrypt, with the plaintext.
Checked_ops == {"AddChecked", "SubChecked", "MulChecked", "TimeAdd", "TimeSub",
                "DurationAdd", "DurationSub", "DurationScale"}
Fhe_ops == {"FheAdd", "FheSub", "FheMul", "FheCmpEq", "FheCmpNe", "FheCmpLt", "FheCmpLe",
            "FheAnd", "FheOr"}
Precompile(op) ==
  CASE op = "FheAdd" -> "+" [] op = "FheSub" -> "-" [] op = "FheMul" -> "*"
    [] op = "FheCmpEq" -> "==" [] op = "FheCmpNe" -> "!=" [] op = "FheCmpLt" -> "<"
    [] op = "FheCmpLe" -> "<=" [] op = "FheAnd" -> "and" [] op = "FheOr" -> "or"
emit_precompile_call(mc, ins, a, b) ==
  mstore_result(mc, ins, SealedResult(Precompile(ins.op), a, b))
emit_assert(mc, w) == IF w = 0 THEN Jump__revert__(mc) ELSE mc

emit_instr_code(f, tx, mc, ins) ==
  LET arg(i) == load_operand(f, mc, ins.args[i]) IN
  CASE ins.op \in Checked_ops    -> binop_checked(mc, ins, arg(1), arg(2))
    [] ins.op \in Fhe_ops        -> emit_precompile_call(mc, ins, arg(1), arg(2))
    [] ins.op \in {"Div", "Mod"} -> binop_div_guarded(mc, ins, arg(1), arg(2))
    [] ins.op \in {"Lt", "Le", "Eq", "Ne"} -> binop(mc, ins, arg(1), arg(2))
    [] ins.op = "LogicalNot"   -> mstore_result(mc, ins, Truth(arg(1) = 0))
    [] ins.op = "SLoad"        -> mstore_result(mc, ins, Load(mc.st, <<ins.imm>>))
    [] ins.op = "SStore"       -> [mc EXCEPT !.st = Store(@, <<ins.imm>>, arg(1))]
    [] ins.op = "MapGet"       -> mstore_result(mc, ins, Load(mc.st, emit_map_slot(f, mc, ins)))
    [] ins.op = "MapSet"       -> [mc EXCEPT !.st = Store(@, emit_map_slot(f, mc, ins), arg(3))]
    [] ins.op = "MapDelete"    -> [mc EXCEPT !.st = Store(@, emit_map_slot(f, mc, ins), 0)]
    [] ins.op = "ListLength"   -> mstore_result(mc, ins, arg(1))
    [] ins.op = "ListGet"      -> ListGet(f, mc, ins)
    [] ins.op = "ListSet"      -> ListSet(f, mc, ins)
    [] ins.op = "ListAppend"   -> ListAppend(f, mc, ins)
    [] ins.op = "StructNew"    -> mstore_result(mc, ins, 0)
    [] ins.op = "StructGet"    -> mstore_result(mc, ins, Load(mc.st, arg(1)))
    [] ins.op = "StructSet"    -> [mc EXCEPT !.st = Store(@, arg(1), arg(2))]
    [] ins.op = "Emit"         -> [mc EXCEPT !.log = Append(@, <<ins.imm, arg(1)>>)]
    [] ins.op = "Assert"       -> emit_assert(mc, arg(1))
    [] ins.op = "AssertEncrypted" -> emit_assert(mc, Decrypt(arg(1)))
    [] ins.op = "RevealDecrypt" -> mstore_result(mc, ins, Decrypt(arg(1)))
    [] ins.op = "LoadCaller"   -> mstore_result(mc, ins, tx.caller)
    [] ins.op = "LoadDeployer" -> mstore_result(mc, ins, tx.deployer)
    [] ins.op = "LoadNow"      -> mstore_result(mc, ins, tx.now)
    [] ins.op = "ExternalCall" -> emit_external_call(tx, mc, ins, arg(1), arg(2))
    [] ins.op = "FheEncryptTrivial" -> mstore_result(mc, ins, Ciphertext(arg(1)))

RECURSIVE RunInstrs(_, _, _, _), pass_block_args(_, _, _, _), RunBlock(_, _, _, _, _)
RunInstrs(f, tx, mc, code) ==
  IF code = <<>> \/ ~ Running(mc) THEN mc
  ELSE RunInstrs(f, tx, emit_instr_code(f, tx, mc, Head(code)), Tail(code))

\* One copy after the other into the target's parameters.
pass_block_args(f, mc, args, params) ==
  IF args = <<>> THEN mc
  ELSE pass_block_args(f, [mc EXCEPT !.mem[Head(params)] = load_operand(f, mc, Head(args))],
                       Tail(args), Tail(params))

\* A branch copies the arguments of its then side before it decides.
EnterElse(f, mc, term) ==
  pass_block_args(f, mc, term.eargs, f.blocks[term.else].params)
EnterThen(f, mc, term) == pass_block_args(f, mc, term.args, f.blocks[term.to].params)

RunBlock(f, tx, mc, b, gas) ==
  LET done == RunInstrs(f, tx, mc, f.blocks[b].instrs)
      term == f.blocks[b].term
      End(status, w) == Outcome(status, w, done.st, done.log)
  IN IF ~ Running(done) \/ gas = 0 THEN End("revert", 0)
     ELSE CASE term.t = "Return" ->
                 End("return", IF term.v = 0 THEN 0 ELSE load_operand(f, done, term.v))
            [] term.t \in {"Revert", "Unreachable"} -> End("revert", 0)
            [] term.t = "Jump" ->
                 RunBlock(f, tx, EnterThen(f, done, term), term.to, gas - 1)
            [] term.t = "Branch" ->
                 IF load_operand(f, done, term.v) # 0
                 THEN RunBlock(f, tx, EnterThen(f, done, term), term.to, gas - 1)
                 ELSE RunBlock(f, tx, EnterElse(f, EnterThen(f, done, term), term),
                               term.else, gas - 1)

\* The whole function: memory is blank but for the parameters.
emit_function(f, tx) ==
  LET mc == [mem |-> [v \in DOMAIN f.types |-> IF v = f.params[1] THEN Argument(f.types[v], tx) ELSE 0],
             st |-> tx.st, log |-> <<>>, status |-> "running"]
  IN RunBlock(f, tx, mc, Entry, BlockLimit)
=============================================================================
