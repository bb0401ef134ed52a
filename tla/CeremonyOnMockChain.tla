------------------------- MODULE CeremonyOnMockChain -------------------------
(***************************************************************************)
(* Compiled ceremonies on the mock chain: the opcodes are STATICCALLs to   *)
(* the amnesia precompiles of crates/covenant-evm-runtime/src/precompiles  *)
(* .rs, which hand out session numbers from one counter shared by every    *)
(* contract of the chain and answer true to everything else.               *)
(***************************************************************************)
EXTENDS AmnesiaCeremony

VARIABLE amnesia_nonce   \* sessions begun on this chain

mockVars == <<ceremonyVars, amnesia_nonce>>

MockInit == CeremonyInit /\ amnesia_nonce = 0

\* SessionId bounds the counter, a u64 that no chain exhausts.  Mutant: the
\* counter is read but not advanced.
BEGIN_NotCounted ==
  /\ amnesia_nonce + 1 \in SessionId
  /\ amnesia_nonce' = amnesia_nonce

AMN_BEGIN ==
  /\ amnesia_nonce + 1 \in SessionId
  /\ amnesia_nonce' = amnesia_nonce + 1

MockDeploy(c, a) == deploy(c, a) /\ UNCHANGED amnesia_nonce

MockSetup(c, a) == AMN_BEGIN /\ setup(c, a, amnesia_nonce')

MockSubmitShare(c, a) == submit_share(c, a) /\ UNCHANGED amnesia_nonce

MockFinalize(c, a) == finalize(c, a, TRUE) /\ UNCHANGED amnesia_nonce

MockDestroy(c, a) == destroy(c, a, TRUE) /\ UNCHANGED amnesia_nonce

MockNext ==
  \E c \in Contract, a \in Account :
    \/ MockDeploy(c, a)
    \/ MockSetup(c, a)
    \/ MockSubmitShare(c, a)
    \/ MockFinalize(c, a)
    \/ MockDestroy(c, a)

MockSpec == MockInit /\ [][MockNext]_mockVars
-----------------------------------------------------------------------------
\* Two ceremonies on one chain never share a session, and the counter has
\* been drawn from once per ceremony set up.
SessionsNeverShared ==
  LET open == {c \in Contract : ceremony_phase[c] # 0} IN
    /\ \A c, d \in open :
         ceremony_session_id[c] = ceremony_session_id[d] => c = d
    /\ {ceremony_session_id[c] : c \in open} = 1 .. amnesia_nonce

\* Whatever the interleaving, a contract's phase never moves back or skips,
\* and once it leaves phase 1 its submitters and its session are frozen.
ClosedIsFrozen ==
  [][\A c \in Contract :
       /\ ceremony_phase'[c] \in {ceremony_phase[c], ceremony_phase[c] + 1}
       /\ ceremony_phase[c] >= 2 =>
            /\ ceremony_submitted'[c] = ceremony_submitted[c]
            /\ ceremony_session_id'[c] = ceremony_session_id[c]
    ]_mockVars
=============================================================================
