------------------------- MODULE CeremonyHelperProofs -------------------------
(***************************************************************************)
(* Proofs about the ceremony helper, for any callers, signers, ids and     *)
(* thresholds, and however often the hash that names sessions collides.    *)
(***************************************************************************)
EXTENDS CeremonyHelper, FiniteSetTheorems, TLAPS

-----------------------------------------------------------------------------
\* The events an indexer can meet.
Event ==
  {AmnesiaSetup(a, t) : a \in Address, t \in Nat}
    \cup {AmnesiaShareSubmitted(a) : a \in Signer}
    \cup {AmnesiaFinalized(b) : b \in BOOLEAN}
    \cup {AmnesiaDestroyed(p) : p \in Proof}

LogTypeOK == log \in [SessionId -> Seq(Event)]

\* The strengthening: with the types of the events, what the log says of a
\* session, what the reverse index says of it and what it still holds.
IInv ==
  /\ HelperTypeOK
  /\ LogTypeOK
  /\ IndexMatchesSessions
  /\ LogReplaysPhase
  /\ SharesLiveUntilDestroyed

\* CASE is opaque to the provers until the four phases are spelled out.
LEMMA Ranks ==
  /\ Rank("Setup") = 0 /\ Rank("Active") = 1
  /\ Rank("Finalized") = 2 /\ Rank("Destroyed") = 3
  BY DEF Rank

\* What remains of a threshold fits its 128 bits.
LEMMA Truncated ==
  ASSUME NEW t \in Nat
  PROVE  uint128(t) \in 0 .. Width - 1
  BY HelperAssumption DEF uint128

\* Both overloads pass a natural number.
LEMMA Thresholds == DefaultThreshold \in Nat /\ Requested \subseteq Nat
  BY HelperAssumption DEF DefaultThreshold

\* An id never opened holds a session of zeros.
LEMMA EmptyIsSession == EmptySession \in Session
  BY HelperAssumption DEF EmptySession, Session, Phase, Proof, NoProof

-----------------------------------------------------------------------------
(***************************************************************************)
(* What an operation does, seen from the session it is called for.         *)
(***************************************************************************)
\* Session sid alone changes, and its log records the event e.
Touches(sid, e) ==
  /\ HelperTypeOK' /\ LogTypeOK'
  /\ e \in Event
  /\ log'[sid] = Append(log[sid], e)
  /\ \A o \in SessionId \ {sid} : sessions'[o] = sessions[o] /\ log'[o] = log[o]

\* An appended event keeps the log's type and the other logs.
LEMMA Emits ==
  ASSUME NEW sid \in SessionId, NEW e \in Event, LogTypeOK, Emit(sid, e)
  PROVE  /\ LogTypeOK'
         /\ log'[sid] = Append(log[sid], e)
         /\ \A o \in SessionId \ {sid} : log'[o] = log[o]
  BY DEF LogTypeOK, Emit

\* Either verdict is an event.
LEMMA Verdicts ==
  ASSUME NEW met \in BOOLEAN
  PROVE  AmnesiaFinalized(met) \in Event
  BY DEF Event

\* Opening a session: nobody had it, and now the caller does.
LEMMA Sets ==
  ASSUME NEW m \in Msg, NEW sid \in SessionId, NEW t \in Nat,
         HelperTypeOK, LogTypeOK, _amnesiaSetup(m, sid, t)
  PROVE  /\ Touches(sid, AmnesiaSetup(m.sender, t))
         /\ m.sender \in Address
         /\ sessions[sid].ceremony = NoOne
         /\ sessions'[sid].phase = "Active" /\ sessions'[sid].ceremony = m.sender
         /\ sessions'[sid].threshold = uint128(t)
         /\ sessions'[sid].shares = sessions[sid].shares
         /\ sessions'[sid].guardians = sessions[sid].guardians
         /\ sessions'[sid].proof = sessions[sid].proof
  <1> DEFINE new == [sessions[sid] EXCEPT !.phase = "Active", !.threshold = uint128(t),
                                          !.ceremony = m.sender]
  <1>1. m.sender \in Address
    BY DEF Msg
  <1>2. sessions[sid] \in Session /\ uint128(t) \in 0 .. Width - 1
    BY Truncated DEF HelperTypeOK
  <1>3. new \in Session
    BY <1>1, <1>2 DEF Session, Phase
  <1>4. sessions' = [sessions EXCEPT ![sid] = new]
    BY DEF _amnesiaSetup, HelperTypeOK, Session
  <1>5. HelperTypeOK'
    <2>1. sessions' \in [SessionId -> Session]
      BY <1>3, <1>4 DEF HelperTypeOK
    <2>2. sessionsByCeremony' \in [Address -> Seq(SessionId)]
      BY <1>1 DEF _amnesiaSetup, HelperTypeOK
    <2> QED
      BY <2>1, <2>2 DEF HelperTypeOK, _amnesiaSetup, Emit
  <1>6. AmnesiaSetup(m.sender, t) \in Event
    BY <1>1 DEF Event
  <1>7. Touches(sid, AmnesiaSetup(m.sender, t))
    BY <1>4, <1>5, <1>6, Emits DEF Touches, _amnesiaSetup, HelperTypeOK
  <1>8. sessions'[sid] = new
    BY <1>4 DEF HelperTypeOK
  <1>9. /\ new.phase = "Active" /\ new.threshold = uint128(t) /\ new.ceremony = m.sender
        /\ new.shares = sessions[sid].shares
        /\ new.guardians = sessions[sid].guardians
        /\ new.proof = sessions[sid].proof
    BY <1>2 DEF Session
  <1>10. sessions[sid].ceremony = NoOne
    BY DEF _amnesiaSetup, NoCollision
  <1> HIDE DEF new
  <1> QED
    BY <1>1, <1>7, <1>8, <1>9, <1>10

\* Submitting adds one share and one guardian.
LEMMA Submits ==
  ASSUME NEW m \in Msg, NEW sid \in SessionId, NEW share \in Share,
         HelperTypeOK, LogTypeOK, amnesiaSubmitShare(m, sid, share)
  PROVE  /\ Touches(sid, AmnesiaShareSubmitted(m.origin))
         /\ sessions[sid].phase = "Active" /\ sessions'[sid].phase = "Active"
         /\ sessions[sid].ceremony # NoOne
         /\ sessions'[sid].ceremony = sessions[sid].ceremony
         /\ sessions'[sid].threshold = sessions[sid].threshold
         /\ Len(sessions'[sid].shares) = Len(sessions[sid].shares) + 1
         /\ Len(sessions'[sid].guardians) = Len(sessions[sid].guardians) + 1
         /\ sessions'[sid].proof = sessions[sid].proof
  <1> DEFINE new == [sessions[sid] EXCEPT !.shares = Append(@, share),
                                          !.guardians = Append(@, m.origin)]
  <1>1. m.origin \in Signer
    BY DEF Msg
  <1>2. sessions[sid] \in Session
    BY DEF HelperTypeOK
  <1>3. new \in Session
    <2>1. /\ sessions[sid].shares \in Seq(Share) /\ sessions[sid].guardians \in Seq(Signer)
          /\ DOMAIN sessions[sid]
               = {"phase", "threshold", "shares", "guardians", "proof", "ceremony"}
      BY <1>2 DEF Session
    <2>2. /\ Append(sessions[sid].shares, share) \in Seq(Share)
          /\ Append(sessions[sid].guardians, m.origin) \in Seq(Signer)
      BY <1>1, <2>1
    <2>3. /\ new.shares = Append(sessions[sid].shares, share)
          /\ new.guardians = Append(sessions[sid].guardians, m.origin)
      BY <2>1
    <2> QED
      BY <1>2, <2>2 DEF Session
  <1>4. sessions' = [sessions EXCEPT ![sid] = new]
    BY DEF amnesiaSubmitShare, HelperTypeOK, Session
  <1>5. HelperTypeOK'
    BY <1>3, <1>4 DEF HelperTypeOK, amnesiaSubmitShare, Emit
  <1>6. AmnesiaShareSubmitted(m.origin) \in Event
    BY <1>1 DEF Event
  <1>7. Touches(sid, AmnesiaShareSubmitted(m.origin))
    BY <1>4, <1>5, <1>6, Emits DEF Touches, amnesiaSubmitShare, HelperTypeOK
  <1>8. sessions'[sid] = new
    BY <1>4 DEF HelperTypeOK
  <1>9. /\ new.phase = sessions[sid].phase /\ new.ceremony = sessions[sid].ceremony
        /\ new.proof = sessions[sid].proof /\ new.threshold = sessions[sid].threshold
    BY <1>2 DEF Session
  <1>10. /\ Len(new.shares) = Len(sessions[sid].shares) + 1
         /\ Len(new.guardians) = Len(sessions[sid].guardians) + 1
    <2>1. /\ sessions[sid].shares \in Seq(Share) /\ sessions[sid].guardians \in Seq(Signer)
          /\ DOMAIN sessions[sid]
               = {"phase", "threshold", "shares", "guardians", "proof", "ceremony"}
      BY <1>2 DEF Session
    <2> QED
      BY <1>1, <2>1
  <1> QED
    BY <1>7, <1>8, <1>9, <1>10 DEF amnesiaSubmitShare, Permitted

\* Finalizing changes the phase only.
LEMMA Finalizes ==
  ASSUME NEW m \in Msg, NEW sid \in SessionId,
         HelperTypeOK, LogTypeOK, amnesiaFinalize(m, sid)
  PROVE  /\ Touches(sid, AmnesiaFinalized(ThresholdMet(sid)))
         /\ sessions[sid].phase = "Active" /\ sessions'[sid].phase = "Finalized"
         /\ sessions[sid].ceremony # NoOne
         /\ sessions'[sid].ceremony = sessions[sid].ceremony
         /\ sessions'[sid].threshold = sessions[sid].threshold
         /\ sessions'[sid].shares = sessions[sid].shares
         /\ sessions'[sid].guardians = sessions[sid].guardians
         /\ sessions'[sid].proof = sessions[sid].proof
  <1> DEFINE new == [sessions[sid] EXCEPT !.phase = "Finalized"]
  <1>1. sessions[sid] \in Session
    BY DEF HelperTypeOK
  <1>2. new \in Session
    BY <1>1 DEF Session, Phase
  <1>3. sessions' = [sessions EXCEPT ![sid] = new]
    BY DEF amnesiaFinalize, HelperTypeOK, Session
  <1>4. HelperTypeOK'
    BY <1>2, <1>3 DEF HelperTypeOK, amnesiaFinalize, Emit
  <1>5. AmnesiaFinalized(ThresholdMet(sid)) \in Event
    <2>1. ThresholdMet(sid) \in BOOLEAN
      BY DEF ThresholdMet
    <2> QED
      BY <2>1, Verdicts
  <1>6. Touches(sid, AmnesiaFinalized(ThresholdMet(sid)))
    BY <1>3, <1>4, <1>5, Emits DEF Touches, amnesiaFinalize, HelperTypeOK
  <1>7. sessions'[sid] = new
    BY <1>3 DEF HelperTypeOK
  <1> QED
    BY <1>1, <1>6, <1>7 DEF amnesiaFinalize, Permitted, Session

\* Destroying wipes what was collected and keeps a proof of it.
LEMMA Destroys ==
  ASSUME NEW m \in Msg, NEW sid \in SessionId,
         HelperTypeOK, LogTypeOK, amnesiaDestroy(m, sid)
  PROVE  /\ Touches(sid, AmnesiaDestroyed(DestructionProof(sid)))
         /\ sessions[sid].phase = "Finalized" /\ sessions'[sid].phase = "Destroyed"
         /\ sessions[sid].ceremony # NoOne
         /\ sessions'[sid].ceremony = sessions[sid].ceremony
         /\ sessions'[sid].shares = <<>> /\ sessions'[sid].guardians = <<>>
         /\ sessions'[sid].proof = <<sid, sessions[sid].shares>>
  <1> DEFINE new == Wiped(sessions[sid], DestructionProof(sid))
  <1>1. sessions[sid] \in Session
    BY DEF HelperTypeOK
  <1>2. DestructionProof(sid) \in Proof
    BY <1>1 DEF DestructionProof, Proof, Session
  <1>3. new \in Session
    <2>1. <<>> \in Seq(Share) /\ <<>> \in Seq(Signer)
      OBVIOUS
    <2> QED
      BY <1>1, <1>2, <2>1 DEF Wiped, Session, Phase
  <1>4. sessions' = [sessions EXCEPT ![sid] = new]
    BY DEF amnesiaDestroy, HelperTypeOK
  <1>5. HelperTypeOK'
    BY <1>3, <1>4 DEF HelperTypeOK, amnesiaDestroy, Emit
  <1>6. AmnesiaDestroyed(DestructionProof(sid)) \in Event
    BY <1>2 DEF Event
  <1>7. Touches(sid, AmnesiaDestroyed(DestructionProof(sid)))
    BY <1>4, <1>5, <1>6, Emits DEF Touches, amnesiaDestroy, HelperTypeOK
  <1>8. sessions'[sid] = new
    BY <1>4 DEF HelperTypeOK
  <1>9. /\ new.phase = "Destroyed" /\ new.ceremony = sessions[sid].ceremony
        /\ new.shares = <<>> /\ new.guardians = <<>> /\ new.proof = DestructionProof(sid)
    BY <1>1 DEF Wiped, Session
  <1> QED
    BY <1>7, <1>8, <1>9 DEF amnesiaDestroy, Permitted, DestructionProof
-----------------------------------------------------------------------------
(***************************************************************************)
(* The parts of the invariant, operation by operation.                     *)
(***************************************************************************)
\* A call is one of the four operations on one session.
LEMMA Calls ==
  ASSUME HelperNext
  PROVE  \E m \in Msg, sid \in SessionId :
           \/ \E t \in Nat : _amnesiaSetup(m, sid, t)
           \/ \E share \in Share : amnesiaSubmitShare(m, sid, share)
           \/ amnesiaFinalize(m, sid)
           \/ amnesiaDestroy(m, sid)
  BY Thresholds DEF HelperNext, HelperCall, amnesiaSetupDefault, amnesiaSetup

\* An opened session enters its caller's list, in which it was not.
LEMMA SetupIndex ==
  ASSUME NEW m \in Msg, NEW sid \in SessionId, NEW t \in Nat,
         HelperTypeOK, LogTypeOK, IndexMatchesSessions, _amnesiaSetup(m, sid, t)
  PROVE  IndexMatchesSessions'
  <1>1. /\ m.sender \in Address /\ sessions[sid].ceremony = NoOne
        /\ sessions'[sid].ceremony = m.sender
        /\ \A o \in SessionId \ {sid} : sessions'[o] = sessions[o]
        /\ sessionsByCeremony' =
             [sessionsByCeremony EXCEPT ![m.sender] = Append(@, sid)]
    BY Sets DEF Touches, _amnesiaSetup
  <1> SUFFICES ASSUME NEW a \in Address
               PROVE  LET ids == sessionsByCeremony'[a] IN
                        /\ {ids[i] : i \in DOMAIN ids}
                             = {o \in SessionId : sessions'[o].ceremony = a}
                        /\ \A i, j \in DOMAIN ids : ids[i] = ids[j] => i = j
    BY DEF IndexMatchesSessions
  <1> DEFINE ids == sessionsByCeremony[a]
  <1>2. /\ ids \in Seq(SessionId)
        /\ {ids[i] : i \in DOMAIN ids} = {o \in SessionId : sessions[o].ceremony = a}
        /\ \A i, j \in DOMAIN ids : ids[i] = ids[j] => i = j
    BY DEF IndexMatchesSessions, HelperTypeOK
  <1>3. CASE a = m.sender
    <2> DEFINE new == Append(ids, sid)
    <2>1. sessionsByCeremony'[a] = new
      BY <1>1, <1>3 DEF HelperTypeOK
    <2>2. \A i \in DOMAIN ids : ids[i] # sid
      BY <1>1, <1>2, HelperAssumption
    <2>3. /\ DOMAIN ids = 1 .. Len(ids) /\ DOMAIN new = 1 .. Len(ids) + 1 /\ Len(ids) \in Nat
          /\ \A i \in DOMAIN ids : new[i] = ids[i]
          /\ new[Len(ids) + 1] = sid
      BY <1>2
    <2>4. {new[i] : i \in DOMAIN new} = {ids[i] : i \in DOMAIN ids} \cup {sid}
      BY <2>3
    <2>5. {o \in SessionId : sessions'[o].ceremony = a}
             = {o \in SessionId : sessions[o].ceremony = a} \cup {sid}
      BY <1>1, <1>3
    <2>6. \A i, j \in DOMAIN new : new[i] = new[j] => i = j
      BY <1>2, <2>2, <2>3
    <2>7. {new[i] : i \in DOMAIN new} = {o \in SessionId : sessions'[o].ceremony = a}
      BY <1>2, <2>4, <2>5, Zenon
    <2> HIDE DEF new
    <2> QED
      BY <2>1, <2>6, <2>7, Zenon
  <1>4. CASE a # m.sender
    <2>1. sessionsByCeremony'[a] = ids
      BY <1>1, <1>4 DEF HelperTypeOK
    <2>2. {o \in SessionId : sessions'[o].ceremony = a}
             = {o \in SessionId : sessions[o].ceremony = a}
      BY <1>1, <1>4, HelperAssumption
    <2> QED
      BY <1>2, <2>1, <2>2
  <1> QED
    BY <1>3, <1>4

\* What leaves the lists and the sessions' owners alone keeps the index.
LEMMA KeptIndex ==
  ASSUME IndexMatchesSessions, sessionsByCeremony' = sessionsByCeremony,
         \A o \in SessionId : sessions'[o].ceremony = sessions[o].ceremony
  PROVE  IndexMatchesSessions'
  BY DEF IndexMatchesSessions

\* The phase a session's last event tells.
PhaseAfter(event) ==
  CASE event \in {"AmnesiaSetup", "AmnesiaShareSubmitted"} -> "Active"
    [] event = "AmnesiaFinalized" -> "Finalized"
    [] event = "AmnesiaDestroyed" -> "Destroyed"

\* As with the ranks, CASE is spelled out.
LEMMA Phases ==
  /\ PhaseAfter("AmnesiaSetup") = "Active" /\ PhaseAfter("AmnesiaShareSubmitted") = "Active"
  /\ PhaseAfter("AmnesiaFinalized") = "Finalized"
  /\ PhaseAfter("AmnesiaDestroyed") = "Destroyed"
  BY DEF PhaseAfter

\* The log still replays if the new event tells the new phase, and the first
\* one the owner.
LEMMA ReplayStep ==
  ASSUME NEW sid \in SessionId, NEW e, LogTypeOK, LogReplaysPhase, Touches(sid, e),
         sessions'[sid].phase = PhaseAfter(e.event),
         IF log[sid] = <<>>
           THEN e.event = "AmnesiaSetup" /\ e.ceremony = sessions'[sid].ceremony
           ELSE sessions'[sid].ceremony = sessions[sid].ceremony
  PROVE  LogReplaysPhase'
  <1> SUFFICES ASSUME NEW o \in SessionId
               PROVE  IF log'[o] = <<>> THEN sessions'[o] = EmptySession
                      ELSE /\ log'[o][1].event = "AmnesiaSetup"
                           /\ log'[o][1].ceremony = sessions'[o].ceremony
                           /\ sessions'[o].phase = PhaseAfter(log'[o][Len(log'[o])].event)
    BY DEF LogReplaysPhase, PhaseAfter
  <1>1. IF log[o] = <<>> THEN sessions[o] = EmptySession
        ELSE /\ log[o][1].event = "AmnesiaSetup"
             /\ log[o][1].ceremony = sessions[o].ceremony
             /\ sessions[o].phase = PhaseAfter(log[o][Len(log[o])].event)
    BY DEF LogReplaysPhase, PhaseAfter
  <1>2. CASE o # sid
    BY <1>1, <1>2 DEF Touches
  <1>3. CASE o = sid
    <2>1. log'[sid] = Append(log[sid], e) /\ log[sid] \in Seq(Event) /\ e \in Event
      BY DEF Touches, LogTypeOK
    <2>2. /\ log'[sid] # <<>> /\ log'[sid][Len(log'[sid])] = e
          /\ log'[sid][1] = IF log[sid] = <<>> THEN e ELSE log[sid][1]
      BY <2>1
    <2> QED
      BY <1>1, <1>3, <2>2
  <1> QED
    BY <1>2, <1>3

\* Whom the first event names is an account.
LEMMA Openers ==
  ASSUME NEW e \in Event, e.event = "AmnesiaSetup"
  PROVE  e.ceremony \in Address
  BY DEF Event, AmnesiaSetup, AmnesiaShareSubmitted, AmnesiaFinalized, AmnesiaDestroyed

\* Nothing is logged of an id nobody opened, and it holds a session of zeros.
LEMMA UnopenedIsEmpty ==
  ASSUME NEW sid \in SessionId, LogTypeOK, LogReplaysPhase,
         sessions[sid].ceremony = NoOne
  PROVE  log[sid] = <<>> /\ sessions[sid] = EmptySession
  <1>1. ASSUME log[sid] # <<>>
        PROVE  FALSE
    <2>1. log[sid][1] \in Event
      BY <1>1 DEF LogTypeOK
    <2>2. log[sid][1].event = "AmnesiaSetup" /\ log[sid][1].ceremony = NoOne
      BY <1>1 DEF LogReplaysPhase
    <2> QED
      BY <2>1, <2>2, Openers, HelperAssumption
  <1> QED
    BY <1>1 DEF LogReplaysPhase

\* What is logged of has an owner.
LEMMA OpenedHasLog ==
  ASSUME NEW sid \in SessionId, LogReplaysPhase, sessions[sid].ceremony # NoOne
  PROVE  log[sid] # <<>>
  BY DEF LogReplaysPhase, EmptySession

\* What SharesLiveUntilDestroyed says of one session.
Accounted(sid) ==
  LET s == sessions[sid] IN
    IF s.phase = "Destroyed"
      THEN /\ s.shares = <<>> /\ s.guardians = <<>>
           /\ s.proof # NoProof
           /\ s.proof[1] = sid /\ Len(s.proof[2]) = LoggedShares(sid)
      ELSE /\ s.proof = NoProof
           /\ Len(s.shares) = LoggedShares(sid)
           /\ Len(s.guardians) = LoggedShares(sid)

\* An event counts as a logged share exactly if it announces one.
LEMMA LoggedStep ==
  ASSUME NEW sid \in SessionId, NEW e, LogTypeOK, Touches(sid, e)
  PROVE  /\ LoggedShares(sid) \in Nat
         /\ LoggedShares(sid)' = IF e.event = "AmnesiaShareSubmitted"
                                   THEN LoggedShares(sid) + 1 ELSE LoggedShares(sid)
         /\ \A o \in SessionId \ {sid} : LoggedShares(o)' = LoggedShares(o)
  <1> DEFINE l == log[sid]
             S == {i \in DOMAIN l : l[i].event = "AmnesiaShareSubmitted"}
             T == {i \in DOMAIN Append(l, e) :
                     Append(l, e)[i].event = "AmnesiaShareSubmitted"}
  <1>1. l \in Seq(Event) /\ e \in Event /\ log'[sid] = Append(l, e)
    BY DEF LogTypeOK, Touches
  <1>2. /\ Len(l) \in Nat /\ DOMAIN l = 1 .. Len(l)
        /\ DOMAIN Append(l, e) = 1 .. Len(l) + 1
        /\ \A i \in 1 .. Len(l) : Append(l, e)[i] = l[i]
        /\ Append(l, e)[Len(l) + 1] = e
    BY <1>1
  <1>3. IsFiniteSet(S)
    <2>1. S \subseteq 1 .. Len(l) /\ IsFiniteSet(1 .. Len(l))
      BY <1>2, FS_Interval
    <2> QED
      BY <2>1, FS_Subset
  <1>4. Cardinality(S) \in Nat
    BY <1>3, FS_CardinalityType
  <1>5. Len(l) + 1 \notin S
    BY <1>2
  <1>6. Cardinality(S \cup {Len(l) + 1}) = Cardinality(S) + 1
    BY <1>3, <1>5, FS_AddElement
  <1>7. T = IF e.event = "AmnesiaShareSubmitted" THEN S \cup {Len(l) + 1} ELSE S
    BY <1>2
  <1>8. LoggedShares(sid) = Cardinality(S) /\ LoggedShares(sid)' = Cardinality(T)
    BY <1>1 DEF LoggedShares
  <1>9. \A o \in SessionId \ {sid} : LoggedShares(o)' = LoggedShares(o)
    BY DEF Touches, LoggedShares
  <1> QED
    BY <1>4, <1>6, <1>7, <1>8, <1>9

\* The sessions not called keep what they hold.
LEMMA OthersAccounted ==
  ASSUME NEW sid \in SessionId, NEW e, LogTypeOK, Touches(sid, e),
         SharesLiveUntilDestroyed, Accounted(sid)'
  PROVE  SharesLiveUntilDestroyed'
  <1>1. \A o \in SessionId \ {sid} :
          sessions'[o] = sessions[o] /\ LoggedShares(o)' = LoggedShares(o)
    BY LoggedStep DEF Touches
  <1> SUFFICES ASSUME NEW o \in SessionId
               PROVE  Accounted(o)'
    BY DEF SharesLiveUntilDestroyed, Accounted
  <1>2. CASE o = sid
    BY <1>2
  <1>3. CASE o # sid
    <2>1. Accounted(o)
      BY DEF SharesLiveUntilDestroyed, Accounted
    <2> QED
      BY <1>1, <1>3, <2>1 DEF Accounted
  <1> QED
    BY <1>2, <1>3

-----------------------------------------------------------------------------
(***************************************************************************)
(* The invariant.                                                          *)
(***************************************************************************)
\* Before any call there are no sessions, lists or events.
LEMMA InitInv == HelperInit => IInv
  <1> SUFFICES ASSUME HelperInit
               PROVE  IInv
    OBVIOUS
  <1>1. HelperTypeOK
    <2>1. sessions \in [SessionId -> Session]
      BY EmptyIsSession DEF HelperInit
    <2>2. sessionsByCeremony \in [Address -> Seq(SessionId)] /\ nonce \in Nat
      BY DEF HelperInit
    <2>3. DOMAIN log = SessionId
      BY DEF HelperInit
    <2> QED
      BY <2>1, <2>2, <2>3 DEF HelperTypeOK
  <1>2. LogTypeOK
    BY DEF HelperInit, LogTypeOK
  <1>3. IndexMatchesSessions
    BY HelperAssumption DEF HelperInit, IndexMatchesSessions, EmptySession
  <1>4. LogReplaysPhase
    BY DEF HelperInit, LogReplaysPhase
  <1>5. SharesLiveUntilDestroyed
    <2>1. \A sid \in SessionId : LoggedShares(sid) = 0
      BY FS_EmptySet DEF HelperInit, LoggedShares
    <2> QED
      BY <2>1 DEF HelperInit, SharesLiveUntilDestroyed, EmptySession
  <1> QED
    BY <1>1, <1>2, <1>3, <1>4, <1>5 DEF IInv

\* Every call keeps it.
LEMMA NextInv == IInv /\ [HelperNext]_helperVars => IInv'
  <1> SUFFICES ASSUME IInv, [HelperNext]_helperVars
               PROVE  IInv'
    OBVIOUS
  <1> USE DEF IInv
  <1>1. CASE UNCHANGED helperVars
    <2>1. HelperTypeOK' /\ LogTypeOK'
      BY <1>1 DEF helperVars, HelperTypeOK, LogTypeOK
    <2>2. IndexMatchesSessions'
      BY <1>1 DEF helperVars, IndexMatchesSessions
    <2>3. LogReplaysPhase'
      BY <1>1 DEF helperVars, LogReplaysPhase
    <2>4. SharesLiveUntilDestroyed'
      BY <1>1 DEF helperVars, SharesLiveUntilDestroyed, LoggedShares
    <2> QED
      BY <2>1, <2>2, <2>3, <2>4
  <1>2. ASSUME NEW m \in Msg, NEW sid \in SessionId, NEW t \in Nat, _amnesiaSetup(m, sid, t)
        PROVE  IInv'
    <2>1. Touches(sid, AmnesiaSetup(m.sender, t)) /\ sessions[sid].ceremony = NoOne
      BY <1>2, Sets
    <2>2. LogReplaysPhase'
      BY <1>2, <2>1, Sets, UnopenedIsEmpty, Phases, ReplayStep DEF AmnesiaSetup
    <2>3. SharesLiveUntilDestroyed'
      <3>1. sessions[sid].phase # "Destroyed"
        BY <2>1, UnopenedIsEmpty DEF EmptySession
      <3>2. Accounted(sid)
        BY DEF SharesLiveUntilDestroyed, Accounted
      <3>3. LoggedShares(sid)' = LoggedShares(sid)
        BY <2>1, LoggedStep DEF AmnesiaSetup
      <3>4. Accounted(sid)'
        BY <1>2, <3>1, <3>2, <3>3, Sets DEF Accounted
      <3> QED
        BY <2>1, <3>4, OthersAccounted
    <2> QED
      BY <1>2, <2>1, <2>2, <2>3, SetupIndex DEF Touches
  <1>3. ASSUME NEW m \in Msg, NEW sid \in SessionId, NEW share \in Share,
               amnesiaSubmitShare(m, sid, share)
        PROVE  IInv'
    <2>1. Touches(sid, AmnesiaShareSubmitted(m.origin)) /\ sessions[sid].ceremony # NoOne
      BY <1>3, Submits
    <2>2. LogReplaysPhase'
      BY <1>3, <2>1, Submits, OpenedHasLog, Phases, ReplayStep DEF AmnesiaShareSubmitted
    <2>3. IndexMatchesSessions'
      BY <1>3, <2>1, Submits, KeptIndex DEF amnesiaSubmitShare, Touches
    <2>4. SharesLiveUntilDestroyed'
      <3>1. Accounted(sid)
        BY DEF SharesLiveUntilDestroyed, Accounted
      <3>2. LoggedShares(sid)' = LoggedShares(sid) + 1
        BY <2>1, LoggedStep DEF AmnesiaShareSubmitted
      <3>3. Accounted(sid)'
        BY <1>3, <3>1, <3>2, Submits DEF Accounted
      <3> QED
        BY <2>1, <3>3, OthersAccounted
    <2> QED
      BY <2>1, <2>2, <2>3, <2>4 DEF Touches
  <1>4. ASSUME NEW m \in Msg, NEW sid \in SessionId, amnesiaFinalize(m, sid)
        PROVE  IInv'
    <2>1. Touches(sid, AmnesiaFinalized(ThresholdMet(sid))) /\ sessions[sid].ceremony # NoOne
      BY <1>4, Finalizes
    <2>2. LogReplaysPhase'
      BY <1>4, <2>1, Finalizes, OpenedHasLog, Phases, ReplayStep DEF AmnesiaFinalized
    <2>3. IndexMatchesSessions'
      BY <1>4, <2>1, Finalizes, KeptIndex DEF amnesiaFinalize, Touches
    <2>4. SharesLiveUntilDestroyed'
      <3>1. Accounted(sid)
        BY DEF SharesLiveUntilDestroyed, Accounted
      <3>2. LoggedShares(sid)' = LoggedShares(sid)
        BY <2>1, LoggedStep DEF AmnesiaFinalized
      <3>3. Accounted(sid)'
        BY <1>4, <3>1, <3>2, Finalizes DEF Accounted
      <3> QED
        BY <2>1, <3>3, OthersAccounted
    <2> QED
      BY <2>1, <2>2, <2>3, <2>4 DEF Touches
  <1>5. ASSUME NEW m \in Msg, NEW sid \in SessionId, amnesiaDestroy(m, sid)
        PROVE  IInv'
    <2>1. Touches(sid, AmnesiaDestroyed(DestructionProof(sid))) /\ sessions[sid].ceremony # NoOne
      BY <1>5, Destroys
    <2>2. LogReplaysPhase'
      BY <1>5, <2>1, Destroys, OpenedHasLog, Phases, ReplayStep DEF AmnesiaDestroyed
    <2>3. IndexMatchesSessions'
      BY <1>5, <2>1, Destroys, KeptIndex DEF amnesiaDestroy, Touches
    <2>4. SharesLiveUntilDestroyed'
      <3>1. Accounted(sid)
        BY DEF SharesLiveUntilDestroyed, Accounted
      <3>2. LoggedShares(sid)' = LoggedShares(sid)
        BY <2>1, LoggedStep DEF AmnesiaDestroyed
      <3>3. Accounted(sid)'
        BY <1>5, <3>1, <3>2, Destroys DEF Accounted, NoProof
      <3> QED
        BY <2>1, <3>3, OthersAccounted
    <2> QED
      BY <2>1, <2>2, <2>3, <2>4 DEF Touches
  <1> QED
    BY <1>1, <1>2, <1>3, <1>4, <1>5, Calls

\* The conjunction holds throughout.
LEMMA Invariance == HelperSpec => []IInv
  BY InitInv, NextInv, PTL DEF HelperSpec

-----------------------------------------------------------------------------
(***************************************************************************)
(* Results.                                                                *)
(***************************************************************************)
\* Sessions, lists and the nonce keep their types: a stored threshold fits its
\* 128 bits, whatever was requested (_amnesiaSetup).
THEOREM TypeCorrect == HelperSpec => []HelperTypeOK
  <1>1. IInv => HelperTypeOK
    BY DEF IInv
  <1> QED
    BY <1>1, Invariance, PTL

\* The reverse index names each opened session once, under its one owner,
\* however often the hash of session ids collides (_amnesiaSetup's collision
\* guard).
THEOREM Indexed == HelperSpec => []IndexMatchesSessions
  <1>1. IInv => IndexMatchesSessions
    BY DEF IInv
  <1> QED
    BY <1>1, Invariance, PTL

\* The events alone tell an indexer the phase and the owner of every session:
\* each call emits the one event that takes the log from the old phase to the
\* new one.
THEOREM LogSuffices == HelperSpec => []LogReplaysPhase
  <1>1. IInv => LogReplaysPhase
    BY DEF IInv
  <1> QED
    BY <1>1, Invariance, PTL

\* Shares and guardians are held, one per share announced, until the session
\* is destroyed; then both are gone and the proof commits to as many shares
\* (amnesiaSubmitShare, amnesiaDestroy).
THEOREM SharesKept == HelperSpec => []SharesLiveUntilDestroyed
  <1>1. IInv => SharesLiveUntilDestroyed
    BY DEF IInv
  <1> QED
    BY <1>1, Invariance, PTL

\* A session's phase moves one step forward at a time, by its owner only; the
\* owner never changes, and a destroyed session never does (I1 and I2 of
\* CeremonyHelper.sol).
THEOREM Advancing == HelperSpec => PhasesOnlyAdvance
  <1>1. IInv /\ [HelperNext]_helperVars =>
        [\A sid \in SessionId :
           /\ Rank(sessions'[sid].phase) \in {Rank(sessions[sid].phase), Rank(sessions[sid].phase) + 1}
           /\ Opened(sid) => sessions'[sid].ceremony = sessions[sid].ceremony
           /\ sessions[sid].phase = "Destroyed" => sessions'[sid] = sessions[sid]
        ]_helperVars
    <2> SUFFICES ASSUME IInv, HelperNext, NEW o \in SessionId
                 PROVE  /\ Rank(sessions'[o].phase)
                             \in {Rank(sessions[o].phase), Rank(sessions[o].phase) + 1}
                        /\ Opened(o) => sessions'[o].ceremony = sessions[o].ceremony
                        /\ sessions[o].phase = "Destroyed" => sessions'[o] = sessions[o]
      OBVIOUS
    <2> USE DEF IInv
    <2>1. ASSUME NEW m \in Msg, NEW sid \in SessionId, NEW t \in Nat, _amnesiaSetup(m, sid, t)
          PROVE  \/ sessions'[o] = sessions[o]
                 \/ /\ sessions[o].ceremony = NoOne
                    /\ sessions[o].phase = "Setup" /\ sessions'[o].phase = "Active"
      BY <2>1, Sets, UnopenedIsEmpty DEF Touches, EmptySession
    <2>2. ASSUME NEW m \in Msg, NEW sid \in SessionId, NEW share \in Share,
                 amnesiaSubmitShare(m, sid, share)
          PROVE  \/ sessions'[o] = sessions[o]
                 \/ /\ sessions'[o].ceremony = sessions[o].ceremony
                    /\ sessions[o].phase = "Active" /\ sessions'[o].phase = "Active"
      BY <2>2, Submits DEF Touches
    <2>3. ASSUME NEW m \in Msg, NEW sid \in SessionId, amnesiaFinalize(m, sid)
          PROVE  \/ sessions'[o] = sessions[o]
                 \/ /\ sessions'[o].ceremony = sessions[o].ceremony
                    /\ sessions[o].phase = "Active" /\ sessions'[o].phase = "Finalized"
      BY <2>3, Finalizes DEF Touches
    <2>4. ASSUME NEW m \in Msg, NEW sid \in SessionId, amnesiaDestroy(m, sid)
          PROVE  \/ sessions'[o] = sessions[o]
                 \/ /\ sessions'[o].ceremony = sessions[o].ceremony
                    /\ sessions[o].phase = "Finalized" /\ sessions'[o].phase = "Destroyed"
      BY <2>4, Destroys DEF Touches
    <2>5. \/ sessions'[o] = sessions[o]
          \/ /\ sessions[o].ceremony = NoOne
             /\ sessions[o].phase = "Setup" /\ sessions'[o].phase = "Active"
          \/ /\ sessions'[o].ceremony = sessions[o].ceremony
             /\ <<sessions[o].phase, sessions'[o].phase>>
                  \in {<<"Active", "Active">>, <<"Active", "Finalized">>,
                       <<"Finalized", "Destroyed">>}
      BY <2>1, <2>2, <2>3, <2>4, Calls
    <2> QED
      BY <2>5, Ranks DEF Opened
  <1> QED
    BY <1>1, Invariance, PTL DEF HelperSpec, PhasesOnlyAdvance
=============================================================================
