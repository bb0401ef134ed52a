--------------------------- MODULE AmnesiaCeremony ---------------------------
(***************************************************************************)
(* The contract the compiler synthesizes for a `ceremony` declaration      *)
(* (crates/covenant-stdlib/src/amnesia_ceremony.rs): its storage fields    *)
(* and the body of each of its actions.  The four AmnesiaXxx opcodes are   *)
(* calls to a backend; their results are parameters here, and the modules  *)
(* CeremonyOnHelper and CeremonyOnMockChain conjoin each body with the     *)
(* operation of the backend it calls.                                      *)
(*                                                                         *)
(* A failing Assert reverts the transaction, the backend call included, so *)
(* each Assert is a guard of the action.                                   *)
(***************************************************************************)
EXTENDS Naturals, Sequences, FiniteSets

CONSTANTS
  Contract,   \* the ceremony contracts
  Account,    \* the accounts that call them
  NoOne,      \* address(0)
  SessionId,  \* the session ids the backend hands out
  NoSession,  \* 0, the id before setup
  Threshold   \* `threshold: M` of each declaration

\* E611: a ceremony is not synthesized unless 1 <= threshold (and threshold
\* <= guardians, which nothing at run time depends on).
ASSUME CeremonyAssumption ==
  /\ NoOne \notin Account
  /\ Contract \cap Account = {}
  /\ NoSession \notin SessionId
  /\ Threshold \in [Contract -> Nat \ {0}]

VARIABLES
  deployer,                  \* DEPLOYER_SLOT, NoOne before deployment
  ceremony_phase,            \* 0 new, 1 active, 2 finalized, 3 destroyed
  ceremony_session_id,
  ceremony_submitted,        \* the accounts mapped to true
  ceremony_submitter_count,
  emitted                    \* AmnesiaCeremonyDestroyed events of each contract

ceremonyVars ==
  <<deployer, ceremony_phase, ceremony_session_id, ceremony_submitted,
    ceremony_submitter_count, emitted>>

CeremonyInit ==
  /\ deployer = [c \in Contract |-> NoOne]
  /\ ceremony_phase = [c \in Contract |-> 0]
  /\ ceremony_session_id = [c \in Contract |-> NoSession]
  /\ ceremony_submitted = [c \in Contract |-> {}]
  /\ ceremony_submitter_count = [c \in Contract |-> 0]
  /\ emitted = [c \in Contract |-> <<>>]

\* Mutant of deploy: the constructor stores ADDRESS instead of CALLER.
deployStoresAddress(c, caller) ==
  /\ deployer[c] = NoOne
  /\ deployer' = [deployer EXCEPT ![c] = c]
  /\ UNCHANGED <<ceremony_phase, ceremony_session_id, ceremony_submitted,
                 ceremony_submitter_count, emitted>>

\* The constructor: CALLER is stored in DEPLOYER_SLOT, fields start at zero.
deploy(c, caller) ==
  /\ deployer[c] = NoOne
  /\ deployer' = [deployer EXCEPT ![c] = caller]
  /\ UNCHANGED <<ceremony_phase, ceremony_session_id, ceremony_submitted,
                 ceremony_submitter_count, emitted>>

AssertCallerIsDeployer(c, caller) == deployer[c] = caller

AssertPhaseEq(c, phase) == ceremony_phase[c] = phase

\* session_id is what AmnesiaBegin returned.
setup(c, caller, session_id) ==
  /\ AssertCallerIsDeployer(c, caller)
  /\ AssertPhaseEq(c, 0)
  /\ ceremony_session_id' = [ceremony_session_id EXCEPT ![c] = session_id]
  /\ ceremony_phase' = [ceremony_phase EXCEPT ![c] = 1]
  /\ UNCHANGED <<deployer, ceremony_submitted, ceremony_submitter_count, emitted>>

\* One share per account.  Mutant: the duplicate check is missing.
DuplicateAllowed(c, caller) == TRUE
NotSubmitted(c, caller) == caller \notin ceremony_submitted[c]

submit_share(c, caller) ==
  /\ AssertPhaseEq(c, 1)
  /\ NotSubmitted(c, caller)
  /\ ceremony_submitted' = [ceremony_submitted EXCEPT ![c] = @ \cup {caller}]
  /\ ceremony_submitter_count' = [ceremony_submitter_count EXCEPT ![c] = @ + 1]
  /\ UNCHANGED <<deployer, ceremony_phase, ceremony_session_id, emitted>>

\* The count the contract keeps, and the verdict of the backend (result is what
\* AmnesiaFinalize returned).  Mutants: one submitter too few is accepted; the
\* verdict is dropped.
OneShareShort(c, result) == ceremony_submitter_count[c] + 1 >= Threshold[c] /\ result
VerdictDropped(c, result) == ceremony_submitter_count[c] >= Threshold[c]
EnoughShares(c, result) == ceremony_submitter_count[c] >= Threshold[c] /\ result

finalize(c, caller, result) ==
  /\ AssertCallerIsDeployer(c, caller)
  /\ AssertPhaseEq(c, 1)
  /\ EnoughShares(c, result)
  /\ ceremony_phase' = [ceremony_phase EXCEPT ![c] = 2]
  /\ UNCHANGED <<deployer, ceremony_session_id, ceremony_submitted,
                 ceremony_submitter_count, emitted>>

\* result is what DestructionCommitment returned.
destroy(c, caller, result) ==
  /\ AssertCallerIsDeployer(c, caller)
  /\ AssertPhaseEq(c, 2)
  /\ result
  /\ ceremony_phase' = [ceremony_phase EXCEPT ![c] = 3]
  /\ emitted' = [emitted EXCEPT ![c] = Append(@, ceremony_session_id[c])]
  /\ UNCHANGED <<deployer, ceremony_session_id, ceremony_submitted,
                 ceremony_submitter_count>>

-----------------------------------------------------------------------------
CeremonyTypeOK ==
  /\ deployer \in [Contract -> Account \cup {NoOne}]
  /\ ceremony_phase \in [Contract -> 0 .. 3]
  /\ ceremony_session_id \in [Contract -> SessionId \cup {NoSession}]
  /\ ceremony_submitted \in [Contract -> SUBSET Account]
  /\ ceremony_submitter_count \in [Contract -> Nat]
  /\ emitted \in [Contract -> Seq(SessionId)]

\* The counter finalize trusts counts distinct submitters: it never drifts
\* from the map submit_share checks, whoever calls in whatever order.
CountIsDistinctSubmitters ==
  \A c \in Contract :
    /\ IsFiniteSet(ceremony_submitted[c])
    /\ ceremony_submitter_count[c] = Cardinality(ceremony_submitted[c])

\* A ceremony past finalization had its declared threshold of distinct
\* submitters, and nobody can add one or reopen it afterwards.
ClosedHasThreshold ==
  \A c \in Contract :
    ceremony_phase[c] >= 2 => Cardinality(ceremony_submitted[c]) >= Threshold[c]

\* A contract's fields tell the same story: it has a session exactly when it
\* was set up, submitters only then, and announced its destruction, once and
\* for that session, exactly when it is destroyed.
FieldsAgree ==
  \A c \in Contract :
    /\ ceremony_phase[c] # 0 => deployer[c] # NoOne
    /\ (ceremony_phase[c] = 0) <=> (ceremony_session_id[c] = NoSession)
    /\ ceremony_phase[c] = 0 => ceremony_submitted[c] = {}
    /\ emitted[c] = IF ceremony_phase[c] = 3
                      THEN <<ceremony_session_id[c]>> ELSE <<>>

-----------------------------------------------------------------------------
\* The contract's storage seen as the abstract ceremony.
StageOf(phase) == CASE phase = 0 -> "new"
                    [] phase = 1 -> "collecting"
                    [] phase = 2 -> "closed"
                    [] phase = 3 -> "destroyed"

Lifecycle == INSTANCE CeremonyLifecycle WITH
  owner <- deployer,
  stage <- [c \in Contract |-> StageOf(ceremony_phase[c])],
  participants <- ceremony_submitted

\* Composed with a backend, the contract implements the abstract ceremony.
ImplementsLifecycle == Lifecycle!Spec
=============================================================================
