-------------------------------- MODULE Words --------------------------------
(***************************************************************************)
(* The words a program of the language computes with, and what its         *)
(* operators make of two of them.                                          *)
(***************************************************************************)
EXTENDS Integers

CONSTANT Width         \* 2^256: words are 0 .. Width - 1

\* Checked arithmetic: an operation without a result reverts.
HasResult(o, a, b) ==
  CASE o = "+" -> a + b < Width
    [] o = "-" -> b <= a
    [] o = "*" -> a * b < Width
    [] o \in {"/", "%"} -> b # 0
    [] OTHER -> TRUE
Truth(p) == IF p THEN 1 ELSE 0
Result(o, a, b) ==
  CASE o = "+" -> a + b
    [] o = "-" -> a - b
    [] o = "*" -> a * b
    [] o = "/" -> a \div b
    [] o = "%" -> a % b
    [] o = "<" -> Truth(a < b)
    [] o = "<=" -> Truth(a <= b)
    [] o = "==" -> Truth(a = b)
    [] o = "!=" -> Truth(a # b)
    [] o = "and" -> Truth(a # 0 /\ b # 0)
    [] o = "or" -> Truth(a # 0 \/ b # 0)
=============================================================================
