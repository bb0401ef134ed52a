---------------------------- MODULE CeremonyHelper ----------------------------
(***************************************************************************)
(* The on-chain helper contract helpers/src/CeremonyHelper.sol: one        *)
(* session per ERC-8228 amnesia ceremony, moved through the phases         *)
(* Active, Finalized, Destroyed by the contract that opened it.            *)
(*                                                                         *)
(* An action is one successful external call.  A call that reverts leaves  *)
(* every variable as it was, so it is a stuttering step.                   *)
(*                                                                         *)
(* The keccak256 that names a session is abstracted to "any member of      *)
(* SessionId": nothing below relies on the hash being free of collisions,  *)
(* the code's own collision guard is what keeps sessions apart.  The       *)
(* keccak256 of the destruction proof is abstracted to the sequence it     *)
(* commits to (an injective hash).                                         *)
(***************************************************************************)
EXTENDS Naturals, Sequences, FiniteSets

CONSTANTS
  Address,    \* every account that can be a msg.sender
  Signer,     \* the accounts that sign transactions: what tx.origin can be
  NoOne,      \* address(0)
  SessionId,  \* the values the session hash takes
  Share,      \* the bytes32 shares
  Requested,  \* thresholds passed to the three-argument amnesiaSetup
  Width,      \* 2^128: thresholds are stored as uint128
  MaxShares   \* bound on the shares of one session (the code has none)

ASSUME HelperAssumption ==
  /\ Signer \subseteq Address
  /\ NoOne \notin Address
  /\ Requested \subseteq Nat
  /\ Width \in Nat \ {0}
  /\ 2 < Width
  /\ MaxShares \in Nat

VARIABLES
  sessions,            \* _sessions: the Session struct of every id
  sessionsByCeremony,  \* _sessionsByCeremony: the ids each caller opened
  nonce,               \* _nonce: sessions opened so far
  log                  \* the events of each session (sessionId is indexed)

helperVars == <<sessions, sessionsByCeremony, nonce, log>>

-----------------------------------------------------------------------------
Phase == {"Setup", "Active", "Finalized", "Destroyed"}

\* bytes destructionProof: empty, or abi.encode(sessionId, commitment) where
\* the commitment stands for the shares it hashes.
NoProof == <<>>
Proof == {NoProof} \cup (SessionId \X Seq(Share))

Session ==
  [phase : Phase, threshold : 0 .. Width - 1, shares : Seq(Share),
   guardians : Seq(Signer), proof : Proof, ceremony : Address \cup {NoOne}]

\* What the mapping holds for an id never opened: all storage is zero.
EmptySession ==
  [phase |-> "Setup", threshold |-> 0, shares |-> <<>>, guardians |-> <<>>,
   proof |-> NoProof, ceremony |-> NoOne]

\* msg.sender and tx.origin of a call.  An account that signs transactions
\* has no code, so as a msg.sender it is the origin of the call.
Msg == {m \in [sender : Address, origin : Signer] :
          m.sender \in Signer => m.origin = m.sender}

AmnesiaSetup(owner, threshold) ==
  [event |-> "AmnesiaSetup", ceremony |-> owner, threshold |-> threshold]
AmnesiaShareSubmitted(origin) ==
  [event |-> "AmnesiaShareSubmitted", guardian |-> origin]
AmnesiaFinalized(met) ==
  [event |-> "AmnesiaFinalized", thresholdMet |-> met]
AmnesiaDestroyed(proof) ==
  [event |-> "AmnesiaDestroyed", destructionProof |-> proof]

-----------------------------------------------------------------------------
HelperInit ==
  /\ sessions = [sid \in SessionId |-> EmptySession]
  /\ sessionsByCeremony = [a \in Address |-> <<>>]
  /\ nonce = 0
  /\ log = [sid \in SessionId |-> <<>>]

Emit(sid, event) == log' = [log EXCEPT ![sid] = Append(@, event)]

\* Mutants of Permitted: the phase, the caller is not checked.
PermittedAnyPhase(m, sid, phase) == sessions[sid].ceremony = m.sender
PermittedAnyCaller(m, sid, phase) ==
  sessions[sid].ceremony # NoOne /\ sessions[sid].phase = phase

\* The two checks every operation on a session starts with (InvalidSession,
\* UnauthorizedCaller), and the phase it requires (InvalidPhase).
Permitted(m, sid, phase) ==
  /\ sessions[sid].ceremony # NoOne
  /\ sessions[sid].ceremony = m.sender
  /\ sessions[sid].phase = phase

\* The cast uint128(x) keeps the low bits.  Mutant: it keeps them all.
UintKept(x) == x
uint128(x) == x % Width

\* The guard that reverts with SessionCollision.  Mutant: it is missing.
CollisionIgnored(sid) == TRUE
NoCollision(sid) == sessions[sid].ceremony = NoOne

\* Opens session sid for the caller; it is Active at once, Setup is never
\* observable on an opened session.
_amnesiaSetup(m, sid, threshold) ==
  /\ NoCollision(sid)
  /\ sessions' = [sessions EXCEPT
       ![sid].phase = "Active",
       ![sid].threshold = uint128(threshold),
       ![sid].ceremony = m.sender]
  /\ sessionsByCeremony' =
       [sessionsByCeremony EXCEPT ![m.sender] = Append(@, sid)]
  /\ nonce' = nonce + 1
  /\ Emit(sid, AmnesiaSetup(m.sender, threshold))

\* The one-argument overload, the one compiled contracts call.
DefaultThreshold == 2
amnesiaSetupDefault(m, sid) == _amnesiaSetup(m, sid, DefaultThreshold)

\* The three-argument overload.
amnesiaSetup(m, sid, threshold) == _amnesiaSetup(m, sid, threshold)

amnesiaSubmitShare(m, sid, share) ==
  /\ Permitted(m, sid, "Active")
  /\ Len(sessions[sid].shares) < MaxShares
  /\ sessions' = [sessions EXCEPT
       ![sid].shares = Append(@, share),
       ![sid].guardians = Append(@, m.origin)]
  /\ Emit(sid, AmnesiaShareSubmitted(m.origin))
  /\ UNCHANGED <<sessionsByCeremony, nonce>>

ThresholdMet(sid) == Len(sessions[sid].shares) >= sessions[sid].threshold

\* Closes the session whether or not the threshold was met; the verdict is
\* returned to the caller and logged.
amnesiaFinalize(m, sid) ==
  /\ Permitted(m, sid, "Active")
  /\ sessions' = [sessions EXCEPT ![sid].phase = "Finalized"]
  /\ Emit(sid, AmnesiaFinalized(ThresholdMet(sid)))
  /\ UNCHANGED <<sessionsByCeremony, nonce>>

DestructionProof(sid) == <<sid, sessions[sid].shares>>

\* Phase and proof are kept, what the session collected is wiped.  Mutant: the
\* guardian list is not.
GuardiansKept(session, proof) ==
  [session EXCEPT !.proof = proof, !.phase = "Destroyed", !.shares = <<>>]
Wiped(session, proof) ==
  [session EXCEPT !.proof = proof, !.phase = "Destroyed",
                  !.shares = <<>>, !.guardians = <<>>]

amnesiaDestroy(m, sid) ==
  /\ Permitted(m, sid, "Finalized")
  /\ sessions' = [sessions EXCEPT ![sid] = Wiped(@, DestructionProof(sid))]
  /\ Emit(sid, AmnesiaDestroyed(DestructionProof(sid)))
  /\ UNCHANGED <<sessionsByCeremony, nonce>>

\* Any call made by message m.
HelperCall(m) ==
  \E sid \in SessionId :
    \/ amnesiaSetupDefault(m, sid)
    \/ \E t \in Requested : amnesiaSetup(m, sid, t)
    \/ \E share \in Share : amnesiaSubmitShare(m, sid, share)
    \/ amnesiaFinalize(m, sid)
    \/ amnesiaDestroy(m, sid)

HelperNext == \E m \in Msg : HelperCall(m)

HelperSpec == HelperInit /\ [][HelperNext]_helperVars

-----------------------------------------------------------------------------
Opened(sid) == sessions[sid].ceremony # NoOne

Rank(phase) == CASE phase = "Setup" -> 0
                 [] phase = "Active" -> 1
                 [] phase = "Finalized" -> 2
                 [] phase = "Destroyed" -> 3

\* How many share submissions the session's log records.
LoggedShares(sid) ==
  Cardinality({i \in DOMAIN log[sid] :
                 log[sid][i].event = "AmnesiaShareSubmitted"})

HelperTypeOK ==
  /\ sessions \in [SessionId -> Session]
  /\ sessionsByCeremony \in [Address -> Seq(SessionId)]
  /\ nonce \in Nat
  /\ DOMAIN log = SessionId

\* The reverse index agrees with the sessions: a caller's list holds exactly
\* the sessions whose ceremony is that caller, none of them twice, so an id
\* is never claimed by two ceremonies even when the session hash collides.
IndexMatchesSessions ==
  \A a \in Address :
    LET ids == sessionsByCeremony[a] IN
      /\ {ids[i] : i \in DOMAIN ids} = {sid \in SessionId : sessions[sid].ceremony = a}
      /\ \A i, j \in DOMAIN ids : ids[i] = ids[j] => i = j

\* A destroyed session holds no share and no guardian, and its proof commits
\* to as many shares as its log records; a session that is not destroyed has
\* no proof and still holds every share it logged, each with its guardian.
SharesLiveUntilDestroyed ==
  \A sid \in SessionId :
    LET s == sessions[sid] IN
      IF s.phase = "Destroyed"
        THEN /\ s.shares = <<>> /\ s.guardians = <<>>
             /\ s.proof # NoProof
             /\ s.proof[1] = sid /\ Len(s.proof[2]) = LoggedShares(sid)
        ELSE /\ s.proof = NoProof
             /\ Len(s.shares) = LoggedShares(sid)
             /\ Len(s.guardians) = LoggedShares(sid)

\* An indexer that reads only a session's last event knows its phase, and the
\* first event names the ceremony that owns it.
LogReplaysPhase ==
  \A sid \in SessionId :
    LET events == log[sid]
        last == events[Len(events)].event
    IN  IF events = <<>> THEN sessions[sid] = EmptySession
        ELSE /\ events[1].event = "AmnesiaSetup"
             /\ events[1].ceremony = sessions[sid].ceremony
             /\ sessions[sid].phase =
                  CASE last \in {"AmnesiaSetup", "AmnesiaShareSubmitted"} -> "Active"
                    [] last = "AmnesiaFinalized" -> "Finalized"
                    [] last = "AmnesiaDestroyed" -> "Destroyed"

\* I1 and I2 of the contract's header: a session's phase only moves forward,
\* one phase at a time once it is open, its ceremony never changes once set,
\* and a destroyed session never changes again.
PhasesOnlyAdvance ==
  [][\A sid \in SessionId :
       /\ Rank(sessions'[sid].phase) \in {Rank(sessions[sid].phase), Rank(sessions[sid].phase) + 1}
       /\ Opened(sid) => sessions'[sid].ceremony = sessions[sid].ceremony
       /\ sessions[sid].phase = "Destroyed" => sessions'[sid] = sessions[sid]
    ]_helperVars

=============================================================================
