------------------------------ MODULE CovenantIR ------------------------------
(***************************************************************************)
(* The compiler's intermediate representation (crates/covenant-ir): a      *)
(* function is a graph of basic blocks over values that are each defined   *)
(* once.  Block 1 is the entry.  A value is a number; a function knows     *)
(* which of them are constants (`consts`).                                 *)
(*                                                                         *)
(*   instruction  [op, imm, args, res, lift]      res = 0: no result       *)
(*   terminator   [t, v, to, args, else, eargs]                            *)
(*                                                                         *)
(* `imm` is what an opcode carries besides its operands (the field of an   *)
(* SLoad); `lift` marks an encryption the type checker inserted.           *)
(***************************************************************************)
EXTENDS Naturals, Sequences, FiniteSets, SequencesExt

NoImm == "-"
Entry == 1

Instr(op, imm, args, res) ==
  [op |-> op, imm |-> imm, args |-> args, res |-> res, lift |-> FALSE]

Jump(to, args) ==
  [t |-> "Jump", v |-> 0, to |-> to, args |-> args, else |-> 0, eargs |-> <<>>]
Branch(v, to, args, else, eargs) ==
  [t |-> "Branch", v |-> v, to |-> to, args |-> args, else |-> else, eargs |-> eargs]
Stop(t, v) ==      \* Return, Revert, Unreachable
  [t |-> t, v |-> v, to |-> 0, args |-> <<>>, else |-> 0, eargs |-> <<>>]

Block(params, instrs, term) ==
  [params |-> params, instrs |-> instrs, term |-> term]

\* The kinds of things.
Instrs == [op : STRING, imm : STRING, args : Seq(Nat), res : Nat, lift : BOOLEAN]
Terms == [t : {"Jump", "Branch", "Return", "Revert", "Unreachable"}, v : Nat, to : Nat,
          args : Seq(Nat), else : Nat, eargs : Seq(Nat)]
Blocks == [params : Seq(Nat), instrs : Seq(Instrs), term : Terms]

\* Mutant of Targets: a branch is taken to lead to its then side only.
TargetsThenOnly(term) == IF term.t \in {"Jump", "Branch"} THEN {term.to} ELSE {}
\* A block leads to the targets of its terminator.
Targets(term) ==
  CASE term.t = "Jump"   -> {term.to}
    [] term.t = "Branch" -> {term.to, term.else}
    [] OTHER             -> {}

\* What a terminator reads.
TermUses(term) ==
  ToSet(term.args) \cup ToSet(term.eargs) \cup ({term.v} \ {0})

\* What `start` leads to along `next`, a function to the set of what comes
\* directly after: one round more for everything that has something after it.
Reached(next, start) ==
  LET found[n \in 0 .. Cardinality(DOMAIN next)] ==
        IF n = 0 THEN start
        ELSE LET before == found[n - 1]
             IN before \cup UNION {next[x] : x \in before \cap DOMAIN next}
  IN found[Cardinality(DOMAIN next)]

\* The blocks the entry leads to without entering `avoid`.
Reach(f, avoid) ==
  Reached([b \in DOMAIN f.blocks |-> Targets(f.blocks[b].term) \ avoid], {Entry})

reachable_blocks(f) == Reach(f, {})

\* The blocks d is on every way to.
Dominated(f, d) ==
  IF d = Entry THEN DOMAIN f.blocks ELSE DOMAIN f.blocks \ Reach(f, {d})

(***************************************************************************)
(* The structural validator.  It looks a target's parameters up by         *)
(* POSITION in the list of blocks, while a target names a block by id: the *)
(* two agree as long as no block before it has been removed.               *)
(***************************************************************************)
Nth(S, n) == CHOOSE x \in S : Cardinality({y \in S : y <= x}) = n
NthBlock(f, n) == Nth(DOMAIN f.blocks, n)
Arity(op) ==
  CASE op \in {"SLoad", "LoadCaller", "LoadDeployer", "LoadNow"} -> {0}
    [] op \in {"SStore", "Assert", "AssertEncrypted", "LogicalNot", "ListLength",
               "StructGet", "FheEncryptTrivial", "RevealDecrypt"} -> {1}
    [] op \in {"MapSet", "ListSet"} -> {3}
    [] op \in {"Emit", "StructNew", "ExternalCall"} -> 0 .. 4
    [] OTHER -> {2}

validate_target(f, to, args) ==
  /\ to \in DOMAIN f.blocks
  /\ to <= Cardinality(DOMAIN f.blocks)       \* else the lookup panics
  /\ Len(f.blocks[NthBlock(f, to)].params) = Len(args)

validate_function(f) ==
  /\ Entry \in DOMAIN f.blocks
  /\ \A b \in DOMAIN f.blocks :
       LET term == f.blocks[b].term IN
       /\ \A i \in DOMAIN f.blocks[b].instrs :
            LET ins == f.blocks[b].instrs[i] IN Len(ins.args) \in Arity(ins.op)
       /\ term.t \in {"Jump", "Branch"} => validate_target(f, term.to, term.args)
       /\ term.t = "Branch" => validate_target(f, term.else, term.eargs)

(***************************************************************************)
(* Instructions stand at places: a block and a position in it.             *)
(***************************************************************************)
Places(f) == UNION {{b} \X DOMAIN f.blocks[b].instrs : b \in DOMAIN f.blocks}
InstrAt(f, p) == f.blocks[p[1]].instrs[p[2]]
\* In the order of the list of blocks.
Earlier(p, q) == p[1] < q[1] \/ (p[1] = q[1] /\ p[2] < q[2])

(***************************************************************************)
(* Values are defined before they are used.                                *)
(***************************************************************************)
DefinedIn(f, b, upto) ==     \* by block b's first upto - 1 instructions
  ToSet(f.blocks[b].params)
    \cup {f.blocks[b].instrs[i].res : i \in 1 .. upto - 1}
\* Constants and the function's parameters are known everywhere.
Everywhere(f) == DOMAIN f.consts \cup ToSet(f.params)

Whole(f, b) == Len(f.blocks[b].instrs) + 1

\* All that is read anywhere.
Uses(f) ==
  UNION {TermUses(f.blocks[b].term)
           \cup UNION {ToSet(f.blocks[b].instrs[i].args) : i \in DOMAIN f.blocks[b].instrs}
         : b \in DOMAIN f.blocks}

\* A function's code.  Every value has a type, and 0 is no value.
IsCode(f) ==
  /\ f = [params |-> f.params, blocks |-> f.blocks, consts |-> f.consts, types |-> f.types]
  /\ f.blocks \in [DOMAIN f.blocks -> Blocks]
  /\ DOMAIN f.blocks \subseteq Nat /\ IsFiniteSet(DOMAIN f.blocks)
  /\ DOMAIN f.types \subseteq Nat \ {0} /\ IsFiniteSet(DOMAIN f.types)
  /\ DOMAIN f.consts \subseteq DOMAIN f.types
  /\ \A p \in Places(f) : InstrAt(f, p).res \in DOMAIN f.types \cup {0}
  /\ Uses(f) \subseteq DOMAIN f.types

\* A value an instruction computes is computed by no other, and is neither a
\* constant nor a parameter.
DefinedOnce(f) ==
  \A p \in Places(f) : InstrAt(f, p).res # 0 =>
    /\ InstrAt(f, p).res \notin Everywhere(f) \cup UNION {ToSet(f.blocks[b].params) : b \in DOMAIN f.blocks}
    /\ \A q \in Places(f) : InstrAt(f, q).res = InstrAt(f, p).res => q = p

\* What a block may use: constants, parameters, and what the blocks on every
\* way to it, or it itself so far, have computed.
DefsDominateUses(f) ==
  LET below == [d \in DOMAIN f.blocks |-> Dominated(f, d) \ {d}] IN
  \A b \in reachable_blocks(f) \cap DOMAIN f.blocks :
    LET known == Everywhere(f)
                 \cup UNION {DefinedIn(f, d, Whole(f, d)) :
                              d \in {e \in DOMAIN f.blocks : b \in below[e]}} IN
    /\ \A i \in DOMAIN f.blocks[b].instrs :
         ToSet(f.blocks[b].instrs[i].args) \subseteq known \cup DefinedIn(f, b, i)
    /\ TermUses(f.blocks[b].term) \subseteq known \cup DefinedIn(f, b, Whole(f, b))
=============================================================================
