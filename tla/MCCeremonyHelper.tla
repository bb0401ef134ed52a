--------------------------- MODULE MCCeremonyHelper ---------------------------
(* The helper called by contracts and by a signer directly; uint128 is      *)
(* narrowed to two bits so that a requested threshold can be truncated.     *)
EXTENDS CeremonyHelper

CONSTANTS c1, u1, u2

MCAddress == {c1, u1, u2}
MCSigner == {u1, u2}
MCWidth == 4
MCRequested == {1, 4}
=============================================================================
