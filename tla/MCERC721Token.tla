---------------------------- MODULE MCERC721Token ----------------------------
(* A deployer who also holds, a second holder, and a third party who is an  *)
(* operator, an approved spender or neither; two ids.                       *)
EXTENDS ERC721Token

CONSTANTS a1, a2, a3, t1, t2, zero

MCAccount == {a1, a2, a3}
MCOperator == {a3, zero}
MCToken == {t1, t2}
=============================================================================
