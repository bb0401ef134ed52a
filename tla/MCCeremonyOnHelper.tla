-------------------------- MODULE MCCeremonyOnHelper --------------------------
(* Two ceremonies with different declared thresholds, two signers and a      *)
(* relay contract through which a signer can submit a second time.           *)
EXTENDS CeremonyOnHelper, TLC

CONSTANTS c1, c2, u1, r

MCContract == {c1, c2}
MCAccount == {u1, r}
MCThreshold == (c1 :> 1) @@ (c2 :> 2)
=============================================================================
