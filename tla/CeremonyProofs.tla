--------------------------- MODULE CeremonyProofs ---------------------------
(***************************************************************************)
(* Compiled ceremonies, for any ceremonies, accounts and thresholds.       *)
(*                                                                         *)
(* First what each body of the contract preserves, whatever the backend it *)
(* runs on answers, and which abstract step it is; then the two            *)
(* compositions, which cite those lemmas.  On the mock chain (MockSpec)    *)
(* ceremonies never share a session.  On the helper contract (Spec) the    *)
(* two machines move together, whatever outsiders do to the helper         *)
(* directly: every step is a call to the helper or leaves it alone, so all *)
(* that is proved of the helper in CeremonyHelperProofs (HP below) holds   *)
(* here too.                                                               *)
(***************************************************************************)
EXTENDS CeremonyOnHelper, CeremonyOnMockChain, FiniteSetTheorems, TLAPS

\* The inductive invariant of a contract.  ClosedHasThreshold needs the count
\* (finalize compares the counter, not the set), and the count needs the
\* types; FieldsAgree keeps submitters and events out of the early phases.
ContractInv ==
  /\ CeremonyTypeOK
  /\ CountIsDistinctSubmitters
  /\ ClosedHasThreshold
  /\ FieldsAgree

\* A chain without ceremonies satisfies the invariant.
LEMMA InitContractInv == CeremonyInit => ContractInv
  <1> SUFFICES ASSUME CeremonyInit PROVE ContractInv
    OBVIOUS
  <1>1. CeremonyTypeOK
    BY CeremonyAssumption DEF CeremonyInit, CeremonyTypeOK
  <1>2. CountIsDistinctSubmitters
    BY FS_EmptySet DEF CeremonyInit, CountIsDistinctSubmitters
  <1>3. ClosedHasThreshold
    BY DEF CeremonyInit, ClosedHasThreshold
  <1>4. FieldsAgree
    BY DEF CeremonyInit, FieldsAgree
  <1> QED BY <1>1, <1>2, <1>3, <1>4 DEF ContractInv

\* Whatever leaves the storage of the ceremonies alone preserves it.
LEMMA StutterContractInv == ContractInv /\ UNCHANGED ceremonyVars => ContractInv'
  BY DEF ContractInv, ceremonyVars, CeremonyTypeOK, CountIsDistinctSubmitters,
         ClosedHasThreshold, FieldsAgree

\* The constructor preserves it: the new deployer is an account, not NoOne.
LEMMA DeployContractInv ==
  ASSUME NEW c \in Contract, NEW a \in Account, ContractInv, deploy(c, a)
  PROVE  ContractInv'
  <1>1. CeremonyTypeOK'
    BY DEF ContractInv, CeremonyTypeOK, deploy
  <1>2. CountIsDistinctSubmitters'
    BY DEF ContractInv, CountIsDistinctSubmitters, deploy
  <1>3. ClosedHasThreshold'
    BY DEF ContractInv, ClosedHasThreshold, deploy
  <1>4. FieldsAgree'
    BY CeremonyAssumption DEF ContractInv, CeremonyTypeOK, FieldsAgree, deploy
  <1> QED BY <1>1, <1>2, <1>3, <1>4 DEF ContractInv

\* setup preserves it, for any session id that is not NoSession.
LEMMA SetupContractInv ==
  ASSUME NEW c \in Contract, NEW a \in Account, NEW sid \in SessionId,
         ContractInv, setup(c, a, sid)
  PROVE  ContractInv'
  <1>1. CeremonyTypeOK'
    BY DEF ContractInv, CeremonyTypeOK, setup
  <1>2. CountIsDistinctSubmitters'
    BY DEF ContractInv, CountIsDistinctSubmitters, setup
  <1>3. ClosedHasThreshold'
    BY DEF ContractInv, CeremonyTypeOK, ClosedHasThreshold, setup
  <1>4. FieldsAgree'
    BY CeremonyAssumption
    DEF ContractInv, CeremonyTypeOK, FieldsAgree, setup, AssertCallerIsDeployer,
        AssertPhaseEq
  <1> QED BY <1>1, <1>2, <1>3, <1>4 DEF ContractInv

\* submit_share preserves it: set and counter grow together, because the
\* duplicate check makes the submitter a new one.
LEMMA SubmitShareContractInv ==
  ASSUME NEW c \in Contract, NEW a \in Account, ContractInv, submit_share(c, a)
  PROVE  ContractInv'
  <1>1. CeremonyTypeOK'
    BY DEF ContractInv, CeremonyTypeOK, submit_share
  <1>2. CountIsDistinctSubmitters'
    <2> SUFFICES ASSUME NEW d \in Contract
                 PROVE  /\ IsFiniteSet(ceremony_submitted'[d])
                        /\ ceremony_submitter_count'[d]
                             = Cardinality(ceremony_submitted'[d])
      BY DEF CountIsDistinctSubmitters
    <2>1. CASE d = c
      <3>1. ceremony_submitted'[d] = ceremony_submitted[c] \cup {a}
        BY <2>1 DEF ContractInv, CeremonyTypeOK, submit_share
      <3>2. ceremony_submitter_count'[d] = ceremony_submitter_count[c] + 1
        BY <2>1 DEF ContractInv, CeremonyTypeOK, submit_share
      <3>3. /\ IsFiniteSet(ceremony_submitted[c])
            /\ ceremony_submitter_count[c] = Cardinality(ceremony_submitted[c])
            /\ a \notin ceremony_submitted[c]
        BY DEF ContractInv, CountIsDistinctSubmitters, submit_share, NotSubmitted
      <3>4. /\ IsFiniteSet(ceremony_submitted[c] \cup {a})
            /\ Cardinality(ceremony_submitted[c] \cup {a})
                 = Cardinality(ceremony_submitted[c]) + 1
        BY <3>3, FS_AddElement
      <3> QED
        BY <2>1, <3>1, <3>2, <3>3, <3>4
    <2>2. CASE d # c
      BY <2>2 DEF ContractInv, CeremonyTypeOK, CountIsDistinctSubmitters, submit_share
    <2> QED BY <2>1, <2>2
  <1>3. ClosedHasThreshold'
    BY DEF ContractInv, CeremonyTypeOK, ClosedHasThreshold, submit_share, AssertPhaseEq
  <1>4. FieldsAgree'
    BY DEF ContractInv, CeremonyTypeOK, FieldsAgree, submit_share, AssertPhaseEq
  <1> QED BY <1>1, <1>2, <1>3, <1>4 DEF ContractInv

\* The case that needs the whole invariant: the counter finalize compares is
\* the number of distinct submitters, so the closed ceremony has them.
LEMMA FinalizeContractInv ==
  ASSUME NEW c \in Contract, NEW a \in Account, NEW result,
         ContractInv, finalize(c, a, result)
  PROVE  ContractInv'
  <1>1. CeremonyTypeOK'
    BY DEF ContractInv, CeremonyTypeOK, finalize
  <1>2. CountIsDistinctSubmitters'
    BY DEF ContractInv, CountIsDistinctSubmitters, finalize
  <1>3. ClosedHasThreshold'
    BY DEF ContractInv, CeremonyTypeOK, CountIsDistinctSubmitters,
           ClosedHasThreshold, finalize, EnoughShares
  <1>4. FieldsAgree'
    BY DEF ContractInv, CeremonyTypeOK, FieldsAgree, finalize, AssertPhaseEq
  <1> QED BY <1>1, <1>2, <1>3, <1>4 DEF ContractInv

\* destroy preserves it: the one event is appended to an empty list.
LEMMA DestroyContractInv ==
  ASSUME NEW c \in Contract, NEW a \in Account, NEW result,
         ContractInv, destroy(c, a, result)
  PROVE  ContractInv'
  <1>0. ceremony_session_id[c] \in SessionId
    BY DEF ContractInv, CeremonyTypeOK, FieldsAgree, destroy, AssertPhaseEq
  <1>1. CeremonyTypeOK'
    BY <1>0 DEF ContractInv, CeremonyTypeOK, destroy
  <1>2. CountIsDistinctSubmitters'
    BY DEF ContractInv, CountIsDistinctSubmitters, destroy
  <1>3. ClosedHasThreshold'
    BY DEF ContractInv, CeremonyTypeOK, ClosedHasThreshold, destroy, AssertPhaseEq
  <1>4. FieldsAgree'
    <2> SUFFICES ASSUME NEW d \in Contract
                 PROVE  /\ ceremony_phase'[d] # 0 => deployer'[d] # NoOne
                        /\ (ceremony_phase'[d] = 0) <=> (ceremony_session_id'[d] = NoSession)
                        /\ ceremony_phase'[d] = 0 => ceremony_submitted'[d] = {}
                        /\ emitted'[d] = IF ceremony_phase'[d] = 3
                                           THEN <<ceremony_session_id'[d]>> ELSE <<>>
      BY DEF FieldsAgree
    <2>1. CASE d = c
      <3>1. emitted[c] = <<>> /\ emitted'[c] = Append(emitted[c], ceremony_session_id[c])
        BY DEF ContractInv, CeremonyTypeOK, FieldsAgree, destroy, AssertPhaseEq
      <3>2. Append(<<>>, ceremony_session_id[c]) = <<ceremony_session_id[c]>>
        OBVIOUS
      <3>3. ceremony_phase'[c] = 3
        BY DEF ContractInv, CeremonyTypeOK, destroy
      <3> QED
        BY <2>1, <3>1, <3>2, <3>3
        DEF ContractInv, CeremonyTypeOK, FieldsAgree, destroy, AssertPhaseEq
    <2>2. CASE d # c
      BY <2>2 DEF ContractInv, CeremonyTypeOK, FieldsAgree, destroy
    <2> QED BY <2>1, <2>2
  <1> QED BY <1>1, <1>2, <1>3, <1>4 DEF ContractInv

-----------------------------------------------------------------------------
\* Which abstract step each body is.  CASE is opaque to the provers until the
\* four stages are spelled out.
LEMMA Stages ==
  /\ StageOf(0) = "new"
  /\ StageOf(1) = "collecting"
  /\ StageOf(2) = "closed"
  /\ StageOf(3) = "destroyed"
  BY DEF StageOf

\* Before any deployment every abstract ceremony is new.
LEMMA InitLifecycle == CeremonyInit => Lifecycle!Init
  BY Stages DEF CeremonyInit, Lifecycle!Init

\* Whatever leaves the storage of the ceremonies alone is an abstract stutter.
LEMMA StutterLifecycle == UNCHANGED ceremonyVars => UNCHANGED Lifecycle!lifecycleVars
  BY DEF ceremonyVars, Lifecycle!lifecycleVars

\* The constructor creates the abstract ceremony.
LEMMA DeployLifecycle ==
  ASSUME NEW c \in Contract, NEW a \in Account, deploy(c, a)
  PROVE  Lifecycle!Create(c)
  BY DEF deploy, Lifecycle!Create

\* setup opens it: a contract in phase 0 with a deployer is new and owned.
LEMMA SetupLifecycle ==
  ASSUME NEW c \in Contract, NEW a \in Account, NEW sid \in SessionId,
         ContractInv, setup(c, a, sid)
  PROVE  Lifecycle!Open(c)
  BY Stages, CeremonyAssumption
  DEF ContractInv, CeremonyTypeOK, setup, AssertCallerIsDeployer, AssertPhaseEq,
      Lifecycle!Open

\* submit_share is a new participant joining.
LEMMA SubmitShareLifecycle ==
  ASSUME NEW c \in Contract, NEW a \in Account, ContractInv, submit_share(c, a)
  PROVE  Lifecycle!Join(c)
  BY Stages DEF submit_share, NotSubmitted, AssertPhaseEq, Lifecycle!Join

\* finalize closes it: the counter is the number of participants.
LEMMA FinalizeLifecycle ==
  ASSUME NEW c \in Contract, NEW a \in Account, NEW result,
         ContractInv, finalize(c, a, result)
  PROVE  Lifecycle!Close(c)
  <1>1. Cardinality(ceremony_submitted[c]) >= Threshold[c]
    BY DEF ContractInv, CountIsDistinctSubmitters, finalize, EnoughShares
  <1>2. /\ ceremony_phase[c] = 1
        /\ ceremony_phase' = [ceremony_phase EXCEPT ![c] = 2]
        /\ UNCHANGED <<deployer, ceremony_submitted>>
    BY DEF finalize, AssertPhaseEq
  <1>3. ceremony_phase \in [Contract -> 0 .. 3]
    BY DEF ContractInv, CeremonyTypeOK
  <1>4. [d \in Contract |-> StageOf(ceremony_phase[d])][c] = "collecting"
    BY Stages, <1>2
  <1>5. [d \in Contract |-> StageOf(ceremony_phase[d])]'
          = [[d \in Contract |-> StageOf(ceremony_phase[d])] EXCEPT ![c] = "closed"]
    BY Stages, <1>2, <1>3
  <1>6. Lifecycle!Cardinality(ceremony_submitted[c]) = Cardinality(ceremony_submitted[c])
    BY DEF Lifecycle!Cardinality, Cardinality
  <1> QED BY <1>1, <1>2, <1>4, <1>5, <1>6 DEF Lifecycle!Close

\* destroy destroys it.
LEMMA DestroyLifecycle ==
  ASSUME NEW c \in Contract, NEW a \in Account, NEW result,
         ContractInv, destroy(c, a, result)
  PROVE  Lifecycle!Destroy(c)
  BY Stages
  DEF ContractInv, CeremonyTypeOK, destroy, AssertPhaseEq, Lifecycle!Destroy

-----------------------------------------------------------------------------
(***************************************************************************)
(* On the mock chain.                                                      *)
(***************************************************************************)
\* SessionsNeverShared is inductive once the counter is a number and the
\* contract's own invariant says which contracts have a session.
MockIInv ==
  /\ ContractInv
  /\ amnesia_nonce \in Nat
  /\ SessionsNeverShared

LEMMA MockInitIInv == MockInit => MockIInv
  <1> SUFFICES ASSUME MockInit PROVE MockIInv
    OBVIOUS
  <1>1. ContractInv
    BY InitContractInv DEF MockInit
  <1>2. amnesia_nonce \in Nat
    BY DEF MockInit
  <1>3. SessionsNeverShared
    BY DEF MockInit, CeremonyInit, SessionsNeverShared
  <1> QED BY <1>1, <1>2, <1>3 DEF MockIInv

\* A body that neither opens a session nor changes which contracts have one
\* keeps the sessions apart.
LEMMA SameSessions ==
  ASSUME SessionsNeverShared,
         \A c \in Contract : (ceremony_phase'[c] # 0) <=> (ceremony_phase[c] # 0),
         UNCHANGED <<ceremony_session_id, amnesia_nonce>>
  PROVE  SessionsNeverShared'
  BY DEF SessionsNeverShared

LEMMA SetupSessions ==
  ASSUME NEW c \in Contract, NEW a \in Account, MockIInv, MockSetup(c, a)
  PROVE  SessionsNeverShared'
  <1> DEFINE open == {d \in Contract : ceremony_phase[d] # 0}
  <1>1. open' = open \cup {c} /\ c \notin open
    BY DEF MockIInv, ContractInv, CeremonyTypeOK, MockSetup, setup, AssertPhaseEq
  <1>2. /\ ceremony_session_id'[c] = amnesia_nonce + 1
        /\ \A d \in open : ceremony_session_id'[d] = ceremony_session_id[d]
    BY <1>1 DEF MockIInv, ContractInv, CeremonyTypeOK, MockSetup, setup, AMN_BEGIN
  <1>3. /\ \A d, e \in open : ceremony_session_id[d] = ceremony_session_id[e] => d = e
        /\ {ceremony_session_id[d] : d \in open} = 1 .. amnesia_nonce
        /\ amnesia_nonce \in Nat
    BY DEF MockIInv, SessionsNeverShared
  <1>4. \A d \in open : ceremony_session_id[d] \in 1 .. amnesia_nonce
    BY <1>3
  <1>5. \A d, e \in open' : ceremony_session_id'[d] = ceremony_session_id'[e] => d = e
    BY <1>1, <1>2, <1>3, <1>4
  <1>6. {ceremony_session_id'[d] : d \in open'} = 1 .. amnesia_nonce'
    <2>1. amnesia_nonce' = amnesia_nonce + 1
      BY DEF MockSetup, AMN_BEGIN
    <2>2. {ceremony_session_id'[d] : d \in open'}
            = {ceremony_session_id[d] : d \in open} \cup {amnesia_nonce + 1}
      BY <1>1, <1>2
    <2>3. 1 .. (amnesia_nonce + 1) = (1 .. amnesia_nonce) \cup {amnesia_nonce + 1}
      BY <1>3
    <2> QED BY <1>3, <2>1, <2>2, <2>3
  <1> QED BY <1>5, <1>6 DEF SessionsNeverShared

LEMMA MockNextIInv == MockIInv /\ [MockNext]_mockVars => MockIInv'
  <1> SUFFICES ASSUME MockIInv, [MockNext]_mockVars PROVE MockIInv'
    OBVIOUS
  <1> USE DEF MockIInv
  <1>1. ASSUME NEW c \in Contract, NEW a \in Account, MockDeploy(c, a) PROVE MockIInv'
    <2>1. ContractInv'
      BY <1>1, DeployContractInv DEF MockDeploy
    <2>2. SessionsNeverShared'
      BY <1>1, SameSessions DEF MockDeploy, deploy
    <2> QED BY <1>1, <2>1, <2>2 DEF MockDeploy
  <1>2. ASSUME NEW c \in Contract, NEW a \in Account, MockSetup(c, a) PROVE MockIInv'
    <2>1. amnesia_nonce' \in SessionId /\ amnesia_nonce' \in Nat
      BY <1>2 DEF MockSetup, AMN_BEGIN
    <2>2. ContractInv'
      BY <1>2, <2>1, SetupContractInv DEF MockSetup
    <2>3. SessionsNeverShared'
      BY <1>2, SetupSessions
    <2> QED BY <2>1, <2>2, <2>3
  <1>3. ASSUME NEW c \in Contract, NEW a \in Account, MockSubmitShare(c, a) PROVE MockIInv'
    <2>1. ContractInv'
      BY <1>3, SubmitShareContractInv DEF MockSubmitShare
    <2>2. SessionsNeverShared'
      BY <1>3, SameSessions DEF MockSubmitShare, submit_share
    <2> QED BY <1>3, <2>1, <2>2 DEF MockSubmitShare
  <1>4. ASSUME NEW c \in Contract, NEW a \in Account, MockFinalize(c, a) PROVE MockIInv'
    <2>1. ContractInv'
      BY <1>4, FinalizeContractInv DEF MockFinalize
    <2>2. \A d \in Contract : (ceremony_phase'[d] # 0) <=> (ceremony_phase[d] # 0)
      BY <1>4 DEF MockFinalize, finalize, AssertPhaseEq, ContractInv, CeremonyTypeOK
    <2>3. SessionsNeverShared'
      BY <1>4, <2>2, SameSessions DEF MockFinalize, finalize
    <2> QED BY <1>4, <2>1, <2>3 DEF MockFinalize
  <1>5. ASSUME NEW c \in Contract, NEW a \in Account, MockDestroy(c, a) PROVE MockIInv'
    <2>1. ContractInv'
      BY <1>5, DestroyContractInv DEF MockDestroy
    <2>2. \A d \in Contract : (ceremony_phase'[d] # 0) <=> (ceremony_phase[d] # 0)
      BY <1>5 DEF MockDestroy, destroy, AssertPhaseEq, ContractInv, CeremonyTypeOK
    <2>3. SessionsNeverShared'
      BY <1>5, <2>2, SameSessions DEF MockDestroy, destroy
    <2> QED BY <1>5, <2>1, <2>3 DEF MockDestroy
  <1>6. CASE UNCHANGED mockVars
    <2>1. ContractInv'
      BY <1>6, StutterContractInv DEF mockVars
    <2>2. UNCHANGED <<ceremony_phase, ceremony_session_id, amnesia_nonce>>
      BY <1>6 DEF mockVars, ceremonyVars
    <2>3. SessionsNeverShared'
      BY <2>2, SameSessions
    <2> QED BY <2>1, <2>2, <2>3
  <1> QED BY <1>1, <1>2, <1>3, <1>4, <1>5, <1>6 DEF MockNext

\* Ceremonies sharing one chain never share a session, whatever the order in
\* which their deployers, submitters and destroyers come.
LEMMA MockInvariance == MockSpec => []MockIInv
  BY MockInitIInv, MockNextIInv, PTL DEF MockSpec

\* The synthesized fields keep their types.
THEOREM MockTypeCorrect == MockSpec => []CeremonyTypeOK
  <1>1. MockIInv => CeremonyTypeOK
    BY DEF MockIInv, ContractInv
  <1> QED BY MockInvariance, <1>1, PTL

\* The three facts about each contract the run checks, and the separation of
\* sessions, hold in every reachable state.
THEOREM MockSafety ==
  MockSpec => [](ClosedHasThreshold /\ FieldsAgree /\ SessionsNeverShared)
  <1>1. MockIInv => ClosedHasThreshold /\ FieldsAgree /\ SessionsNeverShared
    BY DEF MockIInv, ContractInv
  <1> QED BY MockInvariance, <1>1, PTL

\* A phase never goes back or skips, and a closed ceremony is frozen.
THEOREM MockFrozen == MockSpec => ClosedIsFrozen
  <1> DEFINE A == \A c \in Contract :
         /\ ceremony_phase'[c] \in {ceremony_phase[c], ceremony_phase[c] + 1}
         /\ ceremony_phase[c] >= 2 =>
              /\ ceremony_submitted'[c] = ceremony_submitted[c]
              /\ ceremony_session_id'[c] = ceremony_session_id[c]
  <1>1. MockIInv /\ [MockNext]_mockVars => [A]_mockVars
    <2> SUFFICES ASSUME MockIInv, MockNext, NEW d \in Contract
                 PROVE  /\ ceremony_phase'[d] \in {ceremony_phase[d], ceremony_phase[d] + 1}
                        /\ ceremony_phase[d] >= 2 =>
                             /\ ceremony_submitted'[d] = ceremony_submitted[d]
                             /\ ceremony_session_id'[d] = ceremony_session_id[d]
      OBVIOUS
    <2> USE DEF MockIInv, ContractInv, CeremonyTypeOK, AssertPhaseEq
    <2>1. PICK c \in Contract, a \in Account :
            MockDeploy(c, a) \/ MockSetup(c, a) \/ MockSubmitShare(c, a)
              \/ MockFinalize(c, a) \/ MockDestroy(c, a)
      BY DEF MockNext
    <2>2. CASE MockDeploy(c, a)
      BY <2>2 DEF MockDeploy, deploy
    <2>3. CASE MockSetup(c, a)
      BY <2>3 DEF MockSetup, setup
    <2>4. CASE MockSubmitShare(c, a)
      BY <2>4 DEF MockSubmitShare, submit_share
    <2>5. CASE MockFinalize(c, a)
      BY <2>5 DEF MockFinalize, finalize
    <2>6. CASE MockDestroy(c, a)
      BY <2>6 DEF MockDestroy, destroy
    <2> QED BY <2>1, <2>2, <2>3, <2>4, <2>5, <2>6
  <1> QED BY MockInvariance, <1>1, PTL DEF MockSpec, ClosedIsFrozen

\* Every behaviour is one of the abstract ceremony.
THEOREM MockRefinement == MockSpec => ImplementsLifecycle
  <1>1. MockInit => Lifecycle!Init
    BY InitLifecycle DEF MockInit
  <1>2. MockIInv /\ [MockNext]_mockVars => [Lifecycle!Next]_(Lifecycle!lifecycleVars)
    <2> SUFFICES ASSUME MockIInv, [MockNext]_mockVars
                 PROVE  Lifecycle!Next \/ UNCHANGED Lifecycle!lifecycleVars
      OBVIOUS
    <2>1. ASSUME NEW c \in Contract, NEW a \in Account, MockDeploy(c, a)
          PROVE  Lifecycle!Next
      BY <2>1, DeployLifecycle DEF MockDeploy, Lifecycle!Next
    <2>2. ASSUME NEW c \in Contract, NEW a \in Account, MockSetup(c, a)
          PROVE  Lifecycle!Next
      BY <2>2, SetupLifecycle DEF MockIInv, MockSetup, AMN_BEGIN, Lifecycle!Next
    <2>3. ASSUME NEW c \in Contract, NEW a \in Account, MockSubmitShare(c, a)
          PROVE  Lifecycle!Next
      BY <2>3, SubmitShareLifecycle DEF MockIInv, MockSubmitShare, Lifecycle!Next
    <2>4. ASSUME NEW c \in Contract, NEW a \in Account, MockFinalize(c, a)
          PROVE  Lifecycle!Next
      BY <2>4, FinalizeLifecycle DEF MockIInv, MockFinalize, Lifecycle!Next
    <2>5. ASSUME NEW c \in Contract, NEW a \in Account, MockDestroy(c, a)
          PROVE  Lifecycle!Next
      BY <2>5, DestroyLifecycle DEF MockIInv, MockDestroy, Lifecycle!Next
    <2>6. CASE UNCHANGED mockVars
      BY <2>6, StutterLifecycle DEF mockVars
    <2> QED BY <2>1, <2>2, <2>3, <2>4, <2>5, <2>6 DEF MockNext
  <1> QED BY MockInvariance, <1>1, <1>2, PTL DEF MockSpec, ImplementsLifecycle, Lifecycle!Spec

-----------------------------------------------------------------------------
(***************************************************************************)
(* On the helper contract.                                                 *)
(***************************************************************************)
HP == INSTANCE CeremonyHelperProofs

\* The helper's own invariant makes its lemmas applicable; ContractInv makes
\* the contract's.  HelperInStep ties the two.
IInv ==
  /\ ContractInv
  /\ HP!IInv
  /\ HelperInStep
  /\ FinalizedMeetsBothThresholds

\* The helper's assumption follows from that of the composition.
LEMMA HelperAssumed == HP!HelperAssumption
  BY OnHelperAssumption, CeremonyAssumption DEF HP!HelperAssumption, Address

\* A message that reached a contract reaches the helper with the contract as
\* its sender; neither contracts nor accounts are the zero address.
LEMMA Messages ==
  ASSUME NEW m \in OuterMsg
  PROVE  /\ m \in HP!Msg /\ m.sender \in Account
         /\ \A c \in Contract :
              /\ Relayed(c, m) \in HP!Msg /\ Relayed(c, m).sender = c
              /\ c # m.sender
  BY OnHelperAssumption, CeremonyAssumption
  DEF OuterMsg, H!Msg, HP!Msg, Relayed, Address

-----------------------------------------------------------------------------
(***************************************************************************)
(* The operations of the two instances of the helper are the same.         *)
(***************************************************************************)
LEMMA SameSetup ==
  ASSUME NEW m, NEW sid, NEW t, H!_amnesiaSetup(m, sid, t)
  PROVE  HP!_amnesiaSetup(m, sid, t)
  BY DEF H!_amnesiaSetup, HP!_amnesiaSetup, H!NoCollision, HP!NoCollision, H!Emit, HP!Emit,
         H!AmnesiaSetup, HP!AmnesiaSetup, H!uint128, HP!uint128

LEMMA SameSubmitShare ==
  ASSUME NEW m, NEW sid, NEW share, H!amnesiaSubmitShare(m, sid, share)
  PROVE  HP!amnesiaSubmitShare(m, sid, share)
  BY DEF H!amnesiaSubmitShare, HP!amnesiaSubmitShare, H!Permitted, HP!Permitted,
         H!Emit, HP!Emit, H!AmnesiaShareSubmitted, HP!AmnesiaShareSubmitted

LEMMA SameFinalize ==
  ASSUME NEW m, NEW sid, H!amnesiaFinalize(m, sid)
  PROVE  HP!amnesiaFinalize(m, sid)
  BY DEF H!amnesiaFinalize, HP!amnesiaFinalize, H!Permitted, HP!Permitted, H!Emit, HP!Emit,
         H!AmnesiaFinalized, HP!AmnesiaFinalized, H!ThresholdMet, HP!ThresholdMet

LEMMA SameDestroy ==
  ASSUME NEW m, NEW sid, H!amnesiaDestroy(m, sid)
  PROVE  HP!amnesiaDestroy(m, sid)
  BY DEF H!amnesiaDestroy, HP!amnesiaDestroy, H!Permitted, HP!Permitted, H!Emit, HP!Emit,
         H!AmnesiaDestroyed, HP!AmnesiaDestroyed, H!DestructionProof, HP!DestructionProof,
         H!Wiped, HP!Wiped

\* A call by message m, whatever operation it is.
LEMMA SameCall ==
  ASSUME NEW m, H!HelperCall(m)
  PROVE  HP!HelperCall(m)
  BY SameSetup, SameSubmitShare, SameFinalize, SameDestroy
  DEF H!HelperCall, HP!HelperCall, H!amnesiaSetupDefault, HP!amnesiaSetupDefault,
      H!DefaultThreshold, HP!DefaultThreshold, H!amnesiaSetup, HP!amnesiaSetup

-----------------------------------------------------------------------------
(***************************************************************************)
(* What a call cannot reach.                                               *)
(***************************************************************************)
\* Nobody but its owner changes a session that has one, or its log.
LEMMA OwnedSessions ==
  ASSUME NEW m \in HP!Msg, HP!HelperTypeOK, HP!LogTypeOK, HP!HelperCall(m),
         NEW o \in SessionId, sessions[o].ceremony # NoOne, sessions[o].ceremony # m.sender
  PROVE  sessions'[o] = sessions[o] /\ log'[o] = log[o]
  <1>1. ASSUME NEW sid \in SessionId, NEW t \in Nat, HP!_amnesiaSetup(m, sid, t)
        PROVE  sessions'[o] = sessions[o] /\ log'[o] = log[o]
    BY <1>1, HelperAssumed, HP!Sets DEF HP!Touches
  <1>2. ASSUME NEW sid \in SessionId, NEW share \in Share, HP!amnesiaSubmitShare(m, sid, share)
        PROVE  sessions'[o] = sessions[o] /\ log'[o] = log[o]
    BY <1>2, HelperAssumed, HP!Submits DEF HP!Touches, HP!amnesiaSubmitShare, HP!Permitted
  <1>3. ASSUME NEW sid \in SessionId, HP!amnesiaFinalize(m, sid)
        PROVE  sessions'[o] = sessions[o] /\ log'[o] = log[o]
    <2>1. sid # o
      BY <1>3 DEF HP!amnesiaFinalize, HP!Permitted
    <2>2. HP!Touches(sid, HP!AmnesiaFinalized(HP!ThresholdMet(sid)))
      BY <1>3, HelperAssumed, HP!Finalizes
    <2> QED
      BY <2>1, <2>2 DEF HP!Touches
  <1>4. ASSUME NEW sid \in SessionId, HP!amnesiaDestroy(m, sid)
        PROVE  sessions'[o] = sessions[o] /\ log'[o] = log[o]
    BY <1>4, HelperAssumed, HP!Destroys DEF HP!Touches, HP!amnesiaDestroy, HP!Permitted
  <1> QED
    BY <1>1, <1>2, <1>3, <1>4, OnHelperAssumption
    DEF HP!HelperCall, HP!amnesiaSetupDefault, HP!DefaultThreshold, HP!amnesiaSetup

\* Nobody adds to the list of another.
LEMMA OwnedLists ==
  ASSUME NEW m \in HP!Msg, HP!HelperTypeOK, HP!HelperCall(m),
         NEW a \in Address, a # m.sender
  PROVE  sessionsByCeremony'[a] = sessionsByCeremony[a]
  BY DEF HP!HelperCall, HP!amnesiaSetupDefault, HP!amnesiaSetup, HP!_amnesiaSetup,
         HP!amnesiaSubmitShare, HP!amnesiaFinalize, HP!amnesiaDestroy, HP!HelperTypeOK

\* What HelperInStep and FinalizedMeetsBothThresholds say of one ceremony.
InStep(c) ==
  LET sid == ceremony_session_id[c] IN
    /\ sessionsByCeremony[c] =
         IF ceremony_phase[c] = 0 THEN <<>> ELSE <<sid>>
    /\ ceremony_phase[c] # 0 =>
         /\ sessions[sid].ceremony = c
         /\ sessions[sid].threshold = H!DefaultThreshold
         /\ sessions[sid].phase =
              IF ceremony_phase[c] = 1 THEN "Active" ELSE "Finalized"
         /\ Len(sessions[sid].shares) = Cardinality(ceremony_submitted[c])

MetBoth(c) ==
  ceremony_phase[c] = 2 =>
    LET sid == ceremony_session_id[c] IN
      /\ ceremony_submitter_count[c] >= Threshold[c]
      /\ H!ThresholdMet(sid)
      /\ log[sid][Len(log[sid])] = H!AmnesiaFinalized(TRUE)

LEMMA PerContract ==
  /\ HelperInStep <=> \A c \in Contract : InStep(c)
  /\ FinalizedMeetsBothThresholds <=> \A c \in Contract : MetBoth(c)
  BY DEF HelperInStep, FinalizedMeetsBothThresholds, InStep, MetBoth

\* A ceremony past phase 0 has a session.
LEMMA HasSession ==
  ASSUME ContractInv, NEW c \in Contract, ceremony_phase[c] # 0
  PROVE  ceremony_session_id[c] \in SessionId
  BY DEF ContractInv, CeremonyTypeOK, FieldsAgree

\* A call by anybody else leaves a ceremony whose storage is not written in
\* step.
LEMMA OthersInStep ==
  ASSUME NEW m \in HP!Msg, IInv, HP!HelperCall(m), NEW d \in Contract, d # m.sender,
         ceremony_phase'[d] = ceremony_phase[d],
         ceremony_session_id'[d] = ceremony_session_id[d],
         ceremony_submitted'[d] = ceremony_submitted[d],
         ceremony_submitter_count'[d] = ceremony_submitter_count[d]
  PROVE  InStep(d)' /\ MetBoth(d)'
  <1> DEFINE sid == ceremony_session_id[d]
  <1>1. InStep(d) /\ MetBoth(d) /\ HP!HelperTypeOK /\ HP!LogTypeOK
    BY PerContract DEF IInv, HP!IInv
  <1>2. sessionsByCeremony'[d] = sessionsByCeremony[d]
    BY <1>1, OwnedLists DEF Address
  <1>3. CASE ceremony_phase[d] = 0
    BY <1>1, <1>2, <1>3 DEF InStep, MetBoth
  <1>4. CASE ceremony_phase[d] # 0
    <2>1. sid \in SessionId /\ sessions[sid].ceremony = d
      BY <1>1, <1>4, HasSession DEF InStep, IInv
    <2>2. sessions'[sid] = sessions[sid] /\ log'[sid] = log[sid]
      BY <1>1, <2>1, OnHelperAssumption, OwnedSessions
    <2> QED
      BY <1>1, <1>2, <1>4, <2>2 DEF InStep, MetBoth, H!ThresholdMet
  <1> QED
    BY <1>3, <1>4

\* Neither does a step of the ceremonies that does not call the helper.
LEMMA NoCallInStep ==
  ASSUME HelperInStep, FinalizedMeetsBothThresholds,
         UNCHANGED <<ceremony_phase, ceremony_session_id, ceremony_submitted,
                     ceremony_submitter_count, helperVars>>
  PROVE  HelperInStep' /\ FinalizedMeetsBothThresholds'
  BY DEF HelperInStep, FinalizedMeetsBothThresholds, helperVars, H!ThresholdMet

\* Hence one ceremony's own call decides.
LEMMA OwnCall ==
  ASSUME IInv, NEW m \in OuterMsg, NEW c \in Contract, HP!HelperCall(Relayed(c, m)),
         \A d \in Contract \ {c} :
           /\ ceremony_phase'[d] = ceremony_phase[d]
           /\ ceremony_session_id'[d] = ceremony_session_id[d]
           /\ ceremony_submitted'[d] = ceremony_submitted[d]
           /\ ceremony_submitter_count'[d] = ceremony_submitter_count[d],
         InStep(c)', MetBoth(c)'
  PROVE  HelperInStep' /\ FinalizedMeetsBothThresholds'
  <1>1. ASSUME NEW d \in Contract, d # c
        PROVE  InStep(d)' /\ MetBoth(d)'
    BY <1>1, Messages, OthersInStep
  <1>2. \A d \in Contract : InStep(d)' /\ MetBoth(d)'
    BY <1>1
  <1> QED
    BY <1>2 DEF HelperInStep, FinalizedMeetsBothThresholds, InStep, MetBoth

-----------------------------------------------------------------------------
(***************************************************************************)
(* The invariant, transaction by transaction.                              *)
(***************************************************************************)
\* The helper keeps its own invariant, whoever calls.
LEMMA HelperKeeps ==
  ASSUME HP!IInv, NEW m \in HP!Msg, HP!HelperCall(m)
  PROVE  HP!IInv'
  BY HelperAssumed, HP!NextInv DEF HP!HelperNext

LEMMA InitInv == Init => IInv
  <1> SUFFICES ASSUME Init
               PROVE  IInv
    OBVIOUS
  <1>1. ContractInv
    BY InitContractInv DEF Init
  <1>2. HP!HelperInit
    BY DEF Init, H!HelperInit, HP!HelperInit, H!EmptySession, HP!EmptySession,
           H!NoProof, HP!NoProof
  <1>3. HP!IInv
    BY <1>2, HelperAssumed, HP!InitInv
  <1>4. HelperInStep /\ FinalizedMeetsBothThresholds
    BY <1>2 DEF Init, CeremonyInit, HP!HelperInit, HelperInStep,
                FinalizedMeetsBothThresholds, Address
  <1> QED
    BY <1>1, <1>3, <1>4 DEF IInv

\* setup: the session it opens was nobody's, so it is empty, and the stored
\* threshold is the default.
LEMMA SetupStep ==
  ASSUME IInv, NEW m \in OuterMsg, NEW c \in Contract, Setup(c, m)
  PROVE  IInv'
  <1>1. PICK sid \in SessionId :
          H!amnesiaSetupDefault(Relayed(c, m), sid) /\ setup(c, m.sender, sid)
    BY DEF Setup
  <1>2. HP!_amnesiaSetup(Relayed(c, m), sid, 2)
    BY <1>1, SameSetup DEF H!amnesiaSetupDefault, H!DefaultThreshold
  <1>3. HP!HelperCall(Relayed(c, m))
    BY <1>2 DEF HP!HelperCall, HP!amnesiaSetupDefault, HP!DefaultThreshold
  <1>4. HP!IInv'
    BY <1>3, HelperKeeps, Messages DEF IInv
  <1>5. ContractInv'
    BY <1>1, SetupContractInv, Messages DEF IInv
  <1>6. /\ ceremony_phase[c] = 0 /\ ceremony_phase'[c] = 1
        /\ ceremony_session_id'[c] = sid
        /\ ceremony_submitted'[c] = {}
        /\ \A d \in Contract \ {c} :
             /\ ceremony_phase'[d] = ceremony_phase[d]
             /\ ceremony_session_id'[d] = ceremony_session_id[d]
             /\ ceremony_submitted'[d] = ceremony_submitted[d]
             /\ ceremony_submitter_count'[d] = ceremony_submitter_count[d]
    BY <1>1 DEF setup, AssertPhaseEq, IInv, ContractInv, CeremonyTypeOK, FieldsAgree
  <1>7. /\ sessions'[sid].ceremony = c /\ sessions'[sid].phase = "Active"
        /\ sessions'[sid].threshold = HP!uint128(2)
        /\ sessions'[sid].shares = sessions[sid].shares
        /\ sessions[sid].ceremony = NoOne
    BY <1>2, HelperAssumed, HP!Sets, Messages DEF IInv, HP!IInv
  <1>8. sessions[sid].shares = <<>>
    BY <1>7, HelperAssumed, HP!UnopenedIsEmpty DEF IInv, HP!IInv, HP!EmptySession
  <1>9. HP!uint128(2) = H!DefaultThreshold
    BY OnHelperAssumption DEF HP!uint128, H!DefaultThreshold
  <1>10. sessionsByCeremony'[c] = <<sid>>
    <2>1. sessionsByCeremony[c] = <<>>
      BY <1>6 DEF IInv, HelperInStep
    <2>2. sessionsByCeremony' = [sessionsByCeremony EXCEPT ![c] = Append(@, sid)]
      BY <1>2, Messages DEF HP!_amnesiaSetup
    <2>3. c \in Address /\ sessionsByCeremony \in [Address -> Seq(SessionId)]
      BY DEF IInv, HP!IInv, HP!HelperTypeOK, Address
    <2> QED
      BY <2>1, <2>2, <2>3
  <1>11. InStep(c)' /\ MetBoth(c)'
    <2>1. Cardinality({}) = 0
      BY FS_EmptySet
    <2> QED
      BY <1>6, <1>7, <1>8, <1>9, <1>10, <2>1 DEF InStep, MetBoth, H!DefaultThreshold
  <1> QED
    BY <1>3, <1>4, <1>5, <1>6, <1>11, OwnCall DEF IInv

\* submit_share: one share at the helper for one new submitter.
LEMMA SubmitShareStep ==
  ASSUME IInv, NEW m \in OuterMsg, NEW c \in Contract, SubmitShare(c, m)
  PROVE  IInv'
  <1> DEFINE sid == ceremony_session_id[c]
  <1>1. PICK share \in Share :
          /\ submit_share(c, m.sender)
          /\ H!amnesiaSubmitShare(Relayed(c, m), sid, share)
    BY DEF SubmitShare
  <1>2. HP!amnesiaSubmitShare(Relayed(c, m), sid, share)
    BY <1>1, SameSubmitShare
  <1>3. ceremony_phase[c] = 1 /\ sid \in SessionId
    BY <1>1, HasSession DEF submit_share, AssertPhaseEq, IInv
  <1>4. HP!HelperCall(Relayed(c, m))
    BY <1>2, <1>3 DEF HP!HelperCall
  <1>5. HP!IInv'
    BY <1>4, HelperKeeps, Messages DEF IInv
  <1>6. ContractInv'
    BY <1>1, SubmitShareContractInv, Messages DEF IInv
  <1>7. /\ ceremony_phase' = ceremony_phase /\ ceremony_session_id' = ceremony_session_id
        /\ ceremony_submitted'[c] = ceremony_submitted[c] \cup {m.sender}
        /\ m.sender \notin ceremony_submitted[c]
        /\ \A d \in Contract \ {c} :
             /\ ceremony_submitted'[d] = ceremony_submitted[d]
             /\ ceremony_submitter_count'[d] = ceremony_submitter_count[d]
    BY <1>1 DEF submit_share, NotSubmitted, IInv, ContractInv, CeremonyTypeOK
  <1>8. Cardinality(ceremony_submitted'[c]) = Cardinality(ceremony_submitted[c]) + 1
    <2>1. IsFiniteSet(ceremony_submitted[c])
      BY DEF IInv, ContractInv, CountIsDistinctSubmitters
    <2> QED BY <1>7, <2>1, FS_AddElement
  <1>9. /\ sessions'[sid].ceremony = sessions[sid].ceremony
        /\ sessions'[sid].phase = "Active"
        /\ sessions'[sid].threshold = sessions[sid].threshold
        /\ Len(sessions'[sid].shares) = Len(sessions[sid].shares) + 1
    BY <1>2, <1>3, HelperAssumed, HP!Submits, Messages DEF IInv, HP!IInv
  <1>10. sessionsByCeremony' = sessionsByCeremony
    BY <1>2 DEF HP!amnesiaSubmitShare
  <1>11. InStep(c)
    BY PerContract DEF IInv
  <1>12. Len(sessions'[sid].shares) = Cardinality(ceremony_submitted'[c])
    <2>1. Len(sessions[sid].shares) = Cardinality(ceremony_submitted[c])
      BY <1>3, <1>11 DEF InStep
    <2> QED
      BY <1>8, <1>9, <2>1
  <1>13. InStep(c)' /\ MetBoth(c)'
    <2>1. /\ sessionsByCeremony[c] = <<sid>> /\ sessions[sid].ceremony = c
          /\ sessions[sid].threshold = H!DefaultThreshold
      BY <1>3, <1>11 DEF InStep
    <2>2. ceremony_phase'[c] = 1 /\ ceremony_session_id'[c] = sid
      BY <1>3, <1>7
    <2>3. MetBoth(c)'
      BY <2>2 DEF MetBoth
    <2>4. InStep(c)'
      BY <2>1, <2>2, <1>9, <1>10, <1>12 DEF InStep, H!DefaultThreshold
    <2> QED
      BY <2>3, <2>4
  <1> QED
    BY <1>4, <1>5, <1>6, <1>7, <1>13, OwnCall DEF IInv

\* What was appended is last.
LEMMA LastAppended ==
  ASSUME NEW S, NEW l \in Seq(S), NEW e \in S
  PROVE  Append(l, e)[Len(Append(l, e))] = e
  OBVIOUS

\* finalize: both thresholds are checked, the helper's by its verdict, which
\* is what it logs.
LEMMA FinalizeStep ==
  ASSUME IInv, NEW m \in OuterMsg, NEW c \in Contract, Finalize(c, m)
  PROVE  IInv'
  <1> DEFINE sid == ceremony_session_id[c]
  <1>1. /\ finalize(c, m.sender, H!ThresholdMet(sid))
        /\ H!amnesiaFinalize(Relayed(c, m), sid)
    BY DEF Finalize
  <1>2. HP!amnesiaFinalize(Relayed(c, m), sid)
    BY <1>1, SameFinalize
  <1>3. ceremony_phase[c] = 1 /\ sid \in SessionId
    BY <1>1, HasSession DEF finalize, AssertPhaseEq, IInv
  <1>4. HP!HelperCall(Relayed(c, m))
    BY <1>2, <1>3 DEF HP!HelperCall
  <1>5. HP!IInv'
    BY <1>4, HelperKeeps, Messages DEF IInv
  <1>6. ContractInv'
    BY <1>1, FinalizeContractInv, Messages DEF IInv
  <1>7. /\ ceremony_phase'[c] = 2
        /\ ceremony_session_id' = ceremony_session_id
        /\ ceremony_submitted' = ceremony_submitted
        /\ ceremony_submitter_count' = ceremony_submitter_count
        /\ ceremony_submitter_count[c] >= Threshold[c]
        /\ H!ThresholdMet(sid)
        /\ \A d \in Contract \ {c} : ceremony_phase'[d] = ceremony_phase[d]
    BY <1>1 DEF finalize, EnoughShares, IInv, ContractInv, CeremonyTypeOK
  <1>8. /\ sessions'[sid].ceremony = sessions[sid].ceremony
        /\ sessions'[sid].phase = "Finalized"
        /\ sessions'[sid].threshold = sessions[sid].threshold
        /\ sessions'[sid].shares = sessions[sid].shares
    BY <1>2, <1>3, HelperAssumed, HP!Finalizes, Messages DEF IInv, HP!IInv
  <1>9. sessionsByCeremony' = sessionsByCeremony
    BY <1>2 DEF HP!amnesiaFinalize
  <1>10. InStep(c)
    BY PerContract DEF IInv
  <1>11. InStep(c)'
    BY <1>3, <1>7, <1>8, <1>9, <1>10 DEF InStep, H!DefaultThreshold
  <1>12. log'[sid][Len(log'[sid])] = H!AmnesiaFinalized(TRUE)
    <2>1. HP!ThresholdMet(sid) = TRUE
      BY <1>7 DEF H!ThresholdMet, HP!ThresholdMet
    <2>2. log'[sid] = Append(log[sid], HP!AmnesiaFinalized(TRUE))
      BY <1>2, <1>3, <2>1 DEF HP!amnesiaFinalize, HP!Emit, IInv, HP!IInv, HP!LogTypeOK
    <2>3. log[sid] \in Seq(HP!Event)
      BY <1>3 DEF IInv, HP!IInv, HP!LogTypeOK
    <2>4. HP!AmnesiaFinalized(TRUE) \in HP!Event
      BY HP!Verdicts, HelperAssumed
    <2>5. HP!AmnesiaFinalized(TRUE) = H!AmnesiaFinalized(TRUE)
      BY DEF HP!AmnesiaFinalized, H!AmnesiaFinalized
    <2> DEFINE l == log[sid]
               e == HP!AmnesiaFinalized(TRUE)
               new == Append(l, e)
    <2>6. new[Len(new)] = e
      <3> HIDE DEF e, l
      <3>1. l \in Seq(HP!Event) /\ e \in HP!Event
        BY <2>3, <2>4 DEF l, e
      <3> QED
        BY <3>1, LastAppended
    <2> QED
      BY <2>2, <2>5, <2>6
  <1>13. MetBoth(c)'
    BY <1>7, <1>8, <1>12 DEF MetBoth, H!ThresholdMet
  <1> QED
    BY <1>4, <1>5, <1>6, <1>7, <1>11, <1>13, OwnCall DEF IInv

\* A direct call to the helper comes from an account that is no ceremony.
LEMMA DirectCallStep ==
  ASSUME IInv, NEW m \in OuterMsg, DirectCall(m)
  PROVE  IInv'
  <1>1. HP!HelperCall(m) /\ UNCHANGED ceremonyVars
    BY SameCall DEF DirectCall
  <1>2. HP!IInv'
    BY <1>1, HelperKeeps, Messages DEF IInv
  <1>3. ContractInv'
    BY <1>1, StutterContractInv DEF IInv
  <1>4. \A d \in Contract : InStep(d)' /\ MetBoth(d)'
    BY <1>1, Messages, OthersInStep DEF ceremonyVars
  <1>5. HelperInStep' /\ FinalizedMeetsBothThresholds'
    BY <1>4 DEF HelperInStep, FinalizedMeetsBothThresholds, InStep, MetBoth
  <1> QED
    BY <1>2, <1>3, <1>5 DEF IInv

LEMMA NextInv == IInv /\ [Next]_vars => IInv'
  <1> SUFFICES ASSUME IInv, [Next]_vars
               PROVE  IInv'
    OBVIOUS
  <1>1. ASSUME NEW m \in OuterMsg, NEW c \in Contract, Deploy(c, m)
        PROVE  IInv'
    <2>1. ContractInv'
      BY <1>1, DeployContractInv, Messages DEF Deploy, IInv
    <2>2. HP!IInv'
      BY <1>1, HelperAssumed, HP!NextInv DEF Deploy, IInv, helperVars, HP!helperVars
    <2>3. HelperInStep' /\ FinalizedMeetsBothThresholds'
      BY <1>1, NoCallInStep DEF Deploy, deploy, IInv
    <2> QED
      BY <2>1, <2>2, <2>3 DEF IInv
  <1>2. CASE UNCHANGED vars
    <2>1. ContractInv'
      BY <1>2, StutterContractInv DEF vars, IInv
    <2>2. HP!IInv'
      BY <1>2, HelperAssumed, HP!NextInv DEF vars, IInv, helperVars, HP!helperVars
    <2>3. HelperInStep' /\ FinalizedMeetsBothThresholds'
      BY <1>2, NoCallInStep DEF vars, ceremonyVars, IInv
    <2> QED
      BY <2>1, <2>2, <2>3 DEF IInv
  <1> QED
    BY <1>1, <1>2, SetupStep, SubmitShareStep, FinalizeStep, DirectCallStep DEF Next

LEMMA Invariance == Spec => []IInv
  BY InitInv, NextInv, PTL DEF Spec

-----------------------------------------------------------------------------
(***************************************************************************)
(* Results.                                                                *)
(***************************************************************************)
\* The contract's phase and counter always match the session it opened, which
\* only it can move, however outsiders and other ceremonies use the helper.
THEOREM Together == Spec => []HelperInStep
  <1>1. IInv => HelperInStep
    BY DEF IInv
  <1> QED
    BY <1>1, Invariance, PTL

\* A ceremony past finalize met its declared threshold and the helper's, and
\* the helper's log says so.
THEOREM BothThresholds == Spec => []FinalizedMeetsBothThresholds
  <1>1. IInv => FinalizedMeetsBothThresholds
    BY DEF IInv
  <1> QED
    BY <1>1, Invariance, PTL

\* What was proved of the helper alone holds of the helper the ceremonies use:
\* no other caller breaks its index, its events or the life of its shares.
THEOREM HelperUnaffected ==
  Spec => [](HP!IndexMatchesSessions /\ HP!LogReplaysPhase /\ HP!SharesLiveUntilDestroyed)
  <1>1. IInv => HP!IndexMatchesSessions /\ HP!LogReplaysPhase /\ HP!SharesLiveUntilDestroyed
    BY DEF IInv, HP!IInv
  <1> QED
    BY <1>1, Invariance, PTL

\* Every behaviour is one of the abstract ceremony: a direct call to the
\* helper is a stutter of it, and each transaction of a ceremony one step.
THEOREM Refinement == Spec => ImplementsLifecycle
  <1>1. Init => Lifecycle!Init
    BY InitLifecycle DEF Init
  <1>2. IInv /\ [Next]_vars => [Lifecycle!Next]_(Lifecycle!lifecycleVars)
    <2> SUFFICES ASSUME IInv, [Next]_vars
                 PROVE  Lifecycle!Next \/ UNCHANGED Lifecycle!lifecycleVars
      OBVIOUS
    <2>1. ASSUME NEW m \in OuterMsg, NEW c \in Contract, Deploy(c, m)
          PROVE  Lifecycle!Next
      BY <2>1, DeployLifecycle, Messages DEF Deploy, Lifecycle!Next
    <2>2. ASSUME NEW m \in OuterMsg, NEW c \in Contract, Setup(c, m)
          PROVE  Lifecycle!Next
      BY <2>2, SetupLifecycle, Messages DEF IInv, Setup, Lifecycle!Next
    <2>3. ASSUME NEW m \in OuterMsg, NEW c \in Contract, SubmitShare(c, m)
          PROVE  Lifecycle!Next
      BY <2>3, SubmitShareLifecycle, Messages DEF IInv, SubmitShare, Lifecycle!Next
    <2>4. ASSUME NEW m \in OuterMsg, NEW c \in Contract, Finalize(c, m)
          PROVE  Lifecycle!Next
      BY <2>4, FinalizeLifecycle, Messages DEF IInv, Finalize, Lifecycle!Next
    <2>5. ASSUME NEW m \in OuterMsg, DirectCall(m)
          PROVE  UNCHANGED Lifecycle!lifecycleVars
      BY <2>5, StutterLifecycle DEF DirectCall
    <2>6. CASE UNCHANGED vars
      BY <2>6, StutterLifecycle DEF vars
    <2> QED
      BY <2>1, <2>2, <2>3, <2>4, <2>5, <2>6 DEF Next
  <1> QED
    BY <1>1, <1>2, Invariance, PTL DEF Spec, ImplementsLifecycle, Lifecycle!Spec
=============================================================================
