--------------------------- MODULE CeremonyOnHelper ---------------------------
(***************************************************************************)
(* Compiled ceremonies on a helper-contract target (Sepolia): each opcode  *)
(* is a CALL to the deployed CeremonyHelper, whose msg.sender is then the  *)
(* ceremony contract and whose tx.origin is the account that signed the    *)
(* transaction.  Anyone may also call the helper directly.                 *)
(*                                                                         *)
(* One step is one transaction that succeeds: a call the helper reverts    *)
(* makes the compiled call sequence jump to __revert__, which undoes the   *)
(* contract's writes too.                                                  *)
(*                                                                         *)
(* destroy has no step here.  Its opcode maps to amnesiaDestroy, which     *)
(* returns dynamic bytes: the backend refuses to compile it, and the       *)
(* strict 32-byte check on the return data would revert every such call.   *)
(* A ceremony reaches this target only by declaring a `destroy` of its own *)
(* that does not touch the synthesized fields.                             *)
(***************************************************************************)
EXTENDS AmnesiaCeremony

CONSTANTS Signer, Share, Requested, Width, MaxShares

\* Compiled ceremonies do not sign transactions; the rest is what the helper
\* assumes.
ASSUME OnHelperAssumption ==
  /\ Signer \subseteq Account
  /\ NoOne \notin Contract
  /\ Requested \subseteq Nat
  /\ Width \in Nat \ {0}
  /\ 2 < Width
  /\ MaxShares \in Nat

VARIABLES sessions, sessionsByCeremony, nonce, log

helperVars == <<sessions, sessionsByCeremony, nonce, log>>

vars == <<ceremonyVars, helperVars>>

Address == Contract \cup Account

H == INSTANCE CeremonyHelper

\* What the helper sees of a call that reached contract c in message m.
Relayed(c, m) == [sender |-> c, origin |-> m.origin]

\* Messages that reach a contract from outside the ceremonies.
OuterMsg == {m \in H!Msg : m.sender \in Account}

Init == CeremonyInit /\ H!HelperInit

Deploy(c, m) == deploy(c, m.sender) /\ UNCHANGED helperVars

Setup(c, m) ==
  \E sid \in SessionId :
    /\ H!amnesiaSetupDefault(Relayed(c, m), sid)
    /\ setup(c, m.sender, sid)

SubmitShare(c, m) ==
  \E share \in Share :
    /\ submit_share(c, m.sender)
    /\ H!amnesiaSubmitShare(Relayed(c, m), ceremony_session_id[c], share)

Finalize(c, m) ==
  LET sid == ceremony_session_id[c] IN
    /\ finalize(c, m.sender, H!ThresholdMet(sid))
    /\ H!amnesiaFinalize(Relayed(c, m), sid)

\* A call to the helper by an account that is not a compiled ceremony.
DirectCall(m) == H!HelperCall(m) /\ UNCHANGED ceremonyVars

Next ==
  \E m \in OuterMsg :
    \/ DirectCall(m)
    \/ \E c \in Contract :
         Deploy(c, m) \/ Setup(c, m) \/ SubmitShare(c, m) \/ Finalize(c, m)

Spec == Init /\ [][Next]_vars
-----------------------------------------------------------------------------
\* The two machines move together: a contract owns no session before setup
\* and exactly the session it recorded afterwards, that session is Active
\* while the contract is in phase 1 and Finalized in phase 2, it holds one
\* share per distinct submitter the contract counted, and nobody else's call
\* can move it, close it, add to it or wipe it.
HelperInStep ==
  \A c \in Contract :
    LET sid == ceremony_session_id[c] IN
      /\ sessionsByCeremony[c] =
           IF ceremony_phase[c] = 0 THEN <<>> ELSE <<sid>>
      /\ ceremony_phase[c] # 0 =>
           /\ sessions[sid].ceremony = c
           /\ sessions[sid].threshold = H!DefaultThreshold
           /\ sessions[sid].phase =
                IF ceremony_phase[c] = 1 THEN "Active" ELSE "Finalized"
           /\ Len(sessions[sid].shares) = Cardinality(ceremony_submitted[c])

\* A finalized ceremony satisfied both thresholds, the declared one and the
\* one the helper was set up with; and the helper logged a verdict of TRUE,
\* because a verdict of FALSE reverts the whole transaction and leaves the
\* session Active, to be finalized later.
FinalizedMeetsBothThresholds ==
  \A c \in Contract :
    ceremony_phase[c] = 2 =>
      LET sid == ceremony_session_id[c] IN
        /\ ceremony_submitter_count[c] >= Threshold[c]
        /\ H!ThresholdMet(sid)
        /\ log[sid][Len(log[sid])] = H!AmnesiaFinalized(TRUE)
=============================================================================
