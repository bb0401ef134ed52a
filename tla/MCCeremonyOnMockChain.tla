------------------------ MODULE MCCeremonyOnMockChain ------------------------
(* Two ceremonies with different declared thresholds and three callers.      *)
EXTENDS CeremonyOnMockChain, TLC

CONSTANTS c1, c2, a1, a2, a3

MCContract == {c1, c2}
MCAccount == {a1, a2, a3}
MCThreshold == (c1 :> 1) @@ (c2 :> 2)

\* The ids are the values of the shared counter; the field of a ceremony that
\* was not set up holds zero.
ASSUME MockChainIds == NoSession = 0 /\ SessionId \subseteq Nat
=============================================================================
