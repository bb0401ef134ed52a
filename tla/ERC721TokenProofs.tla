-------------------------- MODULE ERC721TokenProofs --------------------------
(***************************************************************************)
(* The non-fungible token, for any accounts, operators and finite set of   *)
(* ids.                                                                    *)
(***************************************************************************)
EXTENDS ERC721Token, FiniteSetTheorems, TLAPS

\* What the two approvals must satisfy for transferFrom(0, ...) to be refused.
NothingForNothing ==
  /\ \A t \in Token : owners[t] = ZeroAddress => token_approvals[t] = ZeroAddress
  /\ \A a \in Address : ~ operator_approvals[<<ZeroAddress, a>>]

IInv == ERC721TypeOK /\ BalancesCountTokens /\ NothingForNothing

\* Giving one token to an account adds one to what it holds and takes one from
\* the account that held it.
LEMMA HeldAfter ==
  ASSUME ERC721TypeOK, NEW t \in Token, NEW to \in Address,
         owners' = [owners EXCEPT ![t] = to], NEW a \in Address
  PROVE  /\ IsFiniteSet(Held(a)) /\ Cardinality(Held(a)) \in Nat
         /\ Cardinality(Held(a)') \in Nat
         /\ a = to /\ owners[t] = to => Cardinality(Held(a)') = Cardinality(Held(a))
         /\ a = to /\ owners[t] # to =>
              Cardinality(Held(a)') = Cardinality(Held(a)) + 1
         /\ a # to /\ owners[t] = a =>
              Cardinality(Held(a)') = Cardinality(Held(a)) - 1
         /\ a # to /\ owners[t] # a => Cardinality(Held(a)') = Cardinality(Held(a))
  <1>1. IsFiniteSet(Held(a)) /\ Cardinality(Held(a)) \in Nat
    <2>1. Held(a) \in SUBSET Token
      BY DEF Held
    <2> QED BY <2>1, ERC721Assumption, FS_Subset, FS_CardinalityType
  <1>2. Held(a)' = {u \in Token : owners'[u] = a}
    BY DEF Held
  <1>3. a = to => Held(a)' = Held(a) \cup {t}
    BY <1>2 DEF Held, ERC721TypeOK
  <1>4. a # to => Held(a)' = Held(a) \ {t}
    BY <1>2 DEF Held, ERC721TypeOK
  <1>5. t \in Held(a) <=> owners[t] = a
    BY DEF Held
  <1>6. /\ Cardinality(Held(a) \cup {t}) =
             IF t \in Held(a) THEN Cardinality(Held(a)) ELSE Cardinality(Held(a)) + 1
        /\ Cardinality(Held(a) \ {t}) =
             IF t \in Held(a) THEN Cardinality(Held(a)) - 1 ELSE Cardinality(Held(a))
    BY <1>1, FS_AddElement, FS_RemoveElement
  <1>7. t \in Held(a) => Cardinality(Held(a)) - 1 \in Nat
    <2>1. IsFiniteSet(Held(a) \ {t})
      BY <1>1, FS_RemoveElement
    <2> QED BY <1>6, <2>1, FS_CardinalityType
  <1>8. CASE a = to
    <2>1. Cardinality(Held(a)') = Cardinality(Held(a) \cup {t})
      BY <1>3, <1>8
    <2> QED BY <1>1, <1>5, <1>6, <1>8, <2>1
  <1>9. CASE a # to
    <2>1. Cardinality(Held(a)') = Cardinality(Held(a) \ {t})
      BY <1>4, <1>9
    <2> QED BY <1>1, <1>5, <1>6, <1>7, <1>9, <2>1
  <1> QED BY <1>8, <1>9

\* Moving one keeps balances in range and moves exactly one, to oneself none.
LEMMA MoveOneEffect ==
  ASSUME ERC721TypeOK, NEW from \in Address, NEW to \in Address,
         MoveOne(from, to)
  PROVE  /\ balances' \in [Address -> 0 .. Width - 1]
         /\ from = to => balances' = balances
         /\ from # to =>
              /\ balances'[from] = balances[from] - 1
              /\ balances'[to] = balances[to] + 1
         /\ \A a \in Address \ {from, to} : balances'[a] = balances[a]
  <1>1. Width \in Nat
    BY ERC721Assumption
  <1>2. balances \in [Address -> 0 .. Width - 1]
    BY DEF ERC721TypeOK
  <1> DEFINE debited == [balances EXCEPT ![from] = balances[from] - 1]
  <1>3. /\ balances[from] >= 1
        /\ debited[to] + 1 < Width
        /\ balances' = [debited EXCEPT ![to] = debited[to] + 1]
    BY DEF MoveOne
  <1>4. debited \in [Address -> 0 .. Width - 1]
    BY <1>1, <1>2, <1>3
  <1>5. /\ debited[from] = balances[from] - 1
        /\ \A a \in Address \ {from} : debited[a] = balances[a]
    BY <1>2
  <1> HIDE DEF debited
  <1>6. debited[to] + 1 \in 0 .. Width - 1
    BY <1>1, <1>3, <1>4
  <1>7. balances' \in [Address -> 0 .. Width - 1]
    BY <1>3, <1>4, <1>6
  <1>8. ASSUME from = to PROVE balances' = balances
    <2>1. \A a \in Address : balances'[a] = balances[a]
      BY <1>1, <1>2, <1>3, <1>4, <1>5, <1>8
    <2> QED BY <1>2, <1>7, <2>1
  <1>9. ASSUME from # to
        PROVE  balances'[from] = balances[from] - 1 /\ balances'[to] = balances[to] + 1
    BY <1>3, <1>4, <1>5, <1>9
  <1>10. \A a \in Address \ {from, to} : balances'[a] = balances[a]
    BY <1>3, <1>4, <1>5
  <1> QED BY <1>7, <1>8, <1>9, <1>10

\* An authorized caller means that the id exists: the caller is an account, and
\* an id nobody holds has neither an approval nor an owner with operators.
LEMMA AuthorizedMeansHeld ==
  ASSUME ERC721TypeOK, NothingForNothing, NEW sender \in Account, NEW t \in Token,
         emit_is_authorized(sender, t) \/ MayApprove(sender, t)
  PROVE  owners[t] \in Account
  <1>1. sender # ZeroAddress /\ sender \in Address
    BY ERC721Assumption DEF Address
  <1>2. owners[t] # ZeroAddress
    BY <1>1 DEF emit_is_authorized, MayApprove, NothingForNothing
  <1> QED BY <1>2 DEF ERC721TypeOK, Address

LEMMA TransferFromInv ==
  ASSUME IInv, NEW sender \in Account, NEW from \in Address, NEW to \in Address,
         NEW t \in Token, transferFrom(sender, from, to, t)
  PROVE  IInv'
  <1>1. ERC721TypeOK /\ BalancesCountTokens /\ NothingForNothing
    BY DEF IInv
  <1>2. /\ to # ZeroAddress /\ owners[t] = from
        /\ emit_is_authorized(sender, t)
        /\ token_approvals' = [token_approvals EXCEPT ![t] = ZeroAddress]
        /\ owners' = [owners EXCEPT ![t] = to]
        /\ MoveOne(from, to)
        /\ caller' = sender /\ operator_approvals' = operator_approvals
    BY DEF transferFrom, ClearApproval
  <1>3. from \in Account /\ to \in Account
    BY <1>1, <1>2, AuthorizedMeansHeld DEF Address
  <1>4. ERC721TypeOK'
    BY <1>1, <1>2, MoveOneEffect DEF ERC721TypeOK, Address
  <1>5. BalancesCountTokens'
    <2> SUFFICES ASSUME NEW a \in Account
                 PROVE  balances'[a] = Cardinality(Held(a)')
      BY DEF BalancesCountTokens
    <2>1. a \in Address /\ balances[a] = Cardinality(Held(a))
      BY <1>1 DEF BalancesCountTokens, Address
    <2>2. /\ from = to => balances'[a] = balances[a]
          /\ from # to /\ a = from => balances'[a] = balances[a] - 1
          /\ from # to /\ a = to => balances'[a] = balances[a] + 1
          /\ a \notin {from, to} => balances'[a] = balances[a]
      <3>1. /\ from = to => balances' = balances
            /\ from # to =>
                 /\ balances'[from] = balances[from] - 1
                 /\ balances'[to] = balances[to] + 1
            /\ \A b \in Address \ {from, to} : balances'[b] = balances[b]
        BY <1>1, <1>2, MoveOneEffect
      <3> QED BY <2>1, <3>1
    <2>3. /\ from = to => Cardinality(Held(a)') = Cardinality(Held(a))
          /\ from # to /\ a = from => Cardinality(Held(a)') = Cardinality(Held(a)) - 1
          /\ from # to /\ a = to => Cardinality(Held(a)') = Cardinality(Held(a)) + 1
          /\ a \notin {from, to} => Cardinality(Held(a)') = Cardinality(Held(a))
      <3>1. /\ a = to /\ owners[t] = to => Cardinality(Held(a)') = Cardinality(Held(a))
            /\ a = to /\ owners[t] # to =>
                 Cardinality(Held(a)') = Cardinality(Held(a)) + 1
            /\ a # to /\ owners[t] = a =>
                 Cardinality(Held(a)') = Cardinality(Held(a)) - 1
            /\ a # to /\ owners[t] # a => Cardinality(Held(a)') = Cardinality(Held(a))
        BY <1>1, <1>2, <2>1, HeldAfter
      <3> QED BY <1>2, <3>1
    <2> QED BY <2>1, <2>2, <2>3
  <1>6. NothingForNothing'
    BY <1>1, <1>2 DEF NothingForNothing, ERC721TypeOK
  <1> QED BY <1>4, <1>5, <1>6 DEF IInv

LEMMA BurnInv ==
  ASSUME IInv, NEW sender \in Account, NEW t \in Token, burn(sender, t)
  PROVE  IInv'
  <1>1. ERC721TypeOK /\ BalancesCountTokens /\ NothingForNothing
    BY DEF IInv
  <1> DEFINE owner == owners[t]
  <1>2. /\ emit_is_authorized(sender, t)
        /\ token_approvals' = [token_approvals EXCEPT ![t] = ZeroAddress]
        /\ owners' = [owners EXCEPT ![t] = ZeroAddress]
        /\ balances[owner] >= 1
        /\ balances' = [balances EXCEPT ![owner] = balances[owner] - 1]
        /\ caller' = sender /\ operator_approvals' = operator_approvals
    BY DEF burn, ClearApproval
  <1>3. owner \in Account /\ owner \in Address /\ owner # ZeroAddress
    BY <1>1, <1>2, AuthorizedMeansHeld, ERC721Assumption DEF Address
  <1>4. ZeroAddress \in Address /\ Width \in Nat
    BY ERC721Assumption DEF Address
  <1>5. ERC721TypeOK'
    <2>1. balances[owner] - 1 \in 0 .. Width - 1
      BY <1>1, <1>2, <1>3, <1>4 DEF ERC721TypeOK
    <2> QED BY <1>1, <1>2, <1>4, <2>1 DEF ERC721TypeOK
  <1>6. BalancesCountTokens'
    <2> SUFFICES ASSUME NEW a \in Account
                 PROVE  balances'[a] = Cardinality(Held(a)')
      BY DEF BalancesCountTokens
    <2>1. a \in Address /\ a # ZeroAddress /\ balances[a] = Cardinality(Held(a))
      BY <1>1, ERC721Assumption DEF BalancesCountTokens, Address
    <2>2. CASE a = owner
      <3>1. balances'[a] = balances[a] - 1
        BY <1>1, <1>2, <2>1, <2>2 DEF ERC721TypeOK
      <3>2. Cardinality(Held(a)') = Cardinality(Held(a)) - 1
        BY <1>1, <1>2, <1>4, <2>1, <2>2, HeldAfter
      <3> QED BY <2>1, <3>1, <3>2
    <2>3. CASE a # owner
      <3>1. balances'[a] = balances[a]
        BY <1>1, <1>2, <2>1, <2>3 DEF ERC721TypeOK
      <3>2. Cardinality(Held(a)') = Cardinality(Held(a))
        BY <1>1, <1>2, <1>4, <2>1, <2>3, HeldAfter
      <3> QED BY <2>1, <3>1, <3>2
    <2> QED BY <2>2, <2>3
  <1>7. NothingForNothing'
    BY <1>1, <1>2 DEF NothingForNothing, ERC721TypeOK
  <1> QED BY <1>5, <1>6, <1>7 DEF IInv

LEMMA MintInv ==
  ASSUME IInv, NEW sender \in Account, NEW to \in Address, NEW t \in Token,
         mint(sender, to, t)
  PROVE  IInv'
  <1>1. ERC721TypeOK /\ BalancesCountTokens /\ NothingForNothing
    BY DEF IInv
  <1>2. /\ to # ZeroAddress /\ owners[t] = ZeroAddress
        /\ owners' = [owners EXCEPT ![t] = to]
        /\ balances[to] + 1 < Width
        /\ balances' = [balances EXCEPT ![to] = balances[to] + 1]
        /\ caller' = sender
        /\ token_approvals' = token_approvals
        /\ operator_approvals' = operator_approvals
    BY DEF mint
  <1>3. Width \in Nat /\ to \in Account
    BY <1>2, ERC721Assumption DEF Address
  <1>4. ERC721TypeOK'
    <2>1. balances[to] + 1 \in 0 .. Width - 1
      BY <1>1, <1>2, <1>3 DEF ERC721TypeOK
    <2> QED BY <1>1, <1>2, <2>1 DEF ERC721TypeOK
  <1>5. BalancesCountTokens'
    <2> SUFFICES ASSUME NEW a \in Account
                 PROVE  balances'[a] = Cardinality(Held(a)')
      BY DEF BalancesCountTokens
    <2>1. a \in Address /\ a # ZeroAddress /\ balances[a] = Cardinality(Held(a))
      BY <1>1, ERC721Assumption DEF BalancesCountTokens, Address
    <2>2. CASE a = to
      <3>1. balances'[a] = balances[a] + 1
        BY <1>1, <1>2, <2>1, <2>2 DEF ERC721TypeOK
      <3>2. Cardinality(Held(a)') = Cardinality(Held(a)) + 1
        BY <1>1, <1>2, <2>1, <2>2, HeldAfter
      <3> QED BY <2>1, <3>1, <3>2
    <2>3. CASE a # to
      <3>1. balances'[a] = balances[a]
        BY <1>1, <1>2, <2>1, <2>3 DEF ERC721TypeOK
      <3>2. Cardinality(Held(a)') = Cardinality(Held(a))
        BY <1>1, <1>2, <2>1, <2>3, HeldAfter
      <3> QED BY <2>1, <3>1, <3>2
    <2> QED BY <2>2, <2>3
  <1>6. NothingForNothing'
    BY <1>1, <1>2 DEF NothingForNothing, ERC721TypeOK
  <1> QED BY <1>4, <1>5, <1>6 DEF IInv

LEMMA ApproveInv ==
  ASSUME IInv, NEW sender \in Account, NEW spender \in Address, NEW t \in Token,
         approve(sender, spender, t)
  PROVE  IInv'
  <1>1. ERC721TypeOK /\ BalancesCountTokens /\ NothingForNothing
    BY DEF IInv
  <1>2. /\ MayApprove(sender, t)
        /\ token_approvals' = [token_approvals EXCEPT ![t] = spender]
        /\ caller' = sender /\ owners' = owners /\ balances' = balances
        /\ operator_approvals' = operator_approvals
    BY DEF approve
  <1>3. owners[t] # ZeroAddress
    BY <1>1, <1>2, AuthorizedMeansHeld, ERC721Assumption
  <1>4. ERC721TypeOK'
    BY <1>1, <1>2 DEF ERC721TypeOK
  <1>5. BalancesCountTokens'
    BY <1>1, <1>2 DEF BalancesCountTokens, Held
  <1>6. NothingForNothing'
    BY <1>1, <1>2, <1>3 DEF NothingForNothing, ERC721TypeOK
  <1> QED BY <1>4, <1>5, <1>6 DEF IInv

LEMMA SetApprovalForAllInv ==
  ASSUME IInv, NEW sender \in Account, NEW operator \in Address,
         NEW approved \in BOOLEAN, setApprovalForAll(sender, operator, approved)
  PROVE  IInv'
  <1>1. ERC721TypeOK /\ BalancesCountTokens /\ NothingForNothing
    BY DEF IInv
  <1>2. /\ operator_approvals' =
             [operator_approvals EXCEPT ![<<sender, operator>>] = approved]
        /\ caller' = sender /\ owners' = owners /\ balances' = balances
        /\ token_approvals' = token_approvals
    BY DEF setApprovalForAll
  <1>3. /\ operator_approvals' \in [Address \X Address -> BOOLEAN]
        /\ \A a \in Address :
             operator_approvals'[<<ZeroAddress, a>>] =
               operator_approvals[<<ZeroAddress, a>>]
    <2>1. sender \in Address /\ sender # ZeroAddress /\ ZeroAddress \in Address
      BY ERC721Assumption DEF Address
    <2> QED BY <1>1, <1>2, <2>1 DEF ERC721TypeOK
  <1>4. ERC721TypeOK'
    BY <1>1, <1>2, <1>3 DEF ERC721TypeOK
  <1>5. BalancesCountTokens'
    BY <1>1, <1>2 DEF BalancesCountTokens, Held
  <1>6. NothingForNothing'
    BY <1>1, <1>2, <1>3 DEF NothingForNothing
  <1> QED BY <1>4, <1>5, <1>6 DEF IInv

LEMMA InitInv == Init => IInv
  <1> SUFFICES ASSUME Init PROVE IInv
    OBVIOUS
  <1>1. ERC721TypeOK
    BY ERC721Assumption, FS_CardinalityType DEF Init, ERC721TypeOK, Address
  <1>2. BalancesCountTokens
    <2> SUFFICES ASSUME NEW a \in Account PROVE balances[a] = Cardinality(Held(a))
      BY DEF BalancesCountTokens
    <2>1. Held(a) = {}
      BY ERC721Assumption DEF Held, Init
    <2> QED BY <2>1, FS_EmptySet DEF Init, Address
  <1>3. NothingForNothing
    BY DEF Init, NothingForNothing, Address
  <1> QED BY <1>1, <1>2, <1>3 DEF IInv

LEMMA StepInv == IInv /\ [Next]_vars => IInv'
  <1> SUFFICES ASSUME IInv, [Next]_vars PROVE IInv'
    OBVIOUS
  <1>1. CASE UNCHANGED vars
    BY <1>1 DEF vars, IInv, ERC721TypeOK, BalancesCountTokens, Held, NothingForNothing
  <1>2. ASSUME NEW sender \in Account, NEW operator \in Operator,
               NEW approved \in BOOLEAN,
               setApprovalForAll(sender, operator, approved)
        PROVE  IInv'
    BY <1>2, SetApprovalForAllInv, ERC721Assumption
  <1>3. CASE Next
    BY <1>2, <1>3, TransferFromInv, BurnInv, MintInv, ApproveInv DEF Next
  <1> QED BY <1>1, <1>3

LEMMA SpecIInv == Spec => []IInv
  BY InitInv, StepInv, PTL DEF Spec

\* Fields keep their types, for any accounts, operators and ids: no checked
\* operation of the template lets a balance leave the word.
THEOREM TypeCorrect == Spec => []ERC721TypeOK
  <1>1. IInv => ERC721TypeOK
    BY DEF IInv
  <1> QED BY SpecIInv, <1>1, PTL

\* balanceOf and ownerOf never disagree, whatever order ids are minted, moved
\* (to oneself included), burned and minted again.
THEOREM BalancesAgree == Spec => []BalancesCountTokens
  <1>1. IInv => BalancesCountTokens
    BY DEF IInv
  <1> QED BY SpecIInv, <1>1, PTL

\* Nobody can move or burn an id that does not exist, so transferFrom with a
\* zero `from` never creates a token.
THEOREM NothingToMove == Spec => []NobodyIsAuthorizedForNothing
  <1>1. IInv => NobodyIsAuthorizedForNothing
    <2> SUFFICES ASSUME IInv, NEW t \in Token, owners[t] = ZeroAddress
                 PROVE  /\ \A a \in Account : ~ emit_is_authorized(a, t)
                        /\ token_approvals[t] = ZeroAddress
      BY DEF NobodyIsAuthorizedForNothing
    <2>1. owners[t] \notin Account
      BY ERC721Assumption
    <2> QED BY <2>1, AuthorizedMeansHeld DEF IInv, NothingForNothing
  <1> QED BY SpecIInv, <1>1, PTL

\* What setting the approval of one id, and perhaps its owner, does to the
\* mandates: the old mandate of that id goes, and a new one may come.
LEMMA MandatesAfter ==
  ASSUME ERC721TypeOK, NEW t \in Token, NEW to \in Address, NEW agent \in Address,
         owners' = [owners EXCEPT ![t] = to],
         token_approvals' = [token_approvals EXCEPT ![t] = agent]
  PROVE  Mandates' = Custody!Others(t) \cup
           (IF agent = ZeroAddress THEN {} ELSE {<<to, t, agent>>})
  <1>1. Mandates = {<<owners[u], u, token_approvals[u]>> :
                      u \in {v \in Token : token_approvals[v] # ZeroAddress}}
    BY DEF Mandates
  <1>2. Mandates' = {<<owners'[u], u, token_approvals'[u]>> :
                       u \in {v \in Token : token_approvals'[v] # ZeroAddress}}
    BY DEF Mandates
  <1>3. Custody!Others(t) = {m \in Mandates : m[2] # t}
    BY DEF Custody!Others
  <1>4. /\ owners'[t] = to /\ token_approvals'[t] = agent
        /\ \A u \in Token \ {t} :
             owners'[u] = owners[u] /\ token_approvals'[u] = token_approvals[u]
    BY DEF ERC721TypeOK
  <1>5. Custody!Others(t) =
          {<<owners'[u], u, token_approvals'[u]>> :
             u \in {v \in Token \ {t} : token_approvals'[v] # ZeroAddress}}
    BY <1>1, <1>3, <1>4
  <1>6. CASE agent = ZeroAddress
    <2>1. {v \in Token : token_approvals'[v] # ZeroAddress} =
            {v \in Token \ {t} : token_approvals'[v] # ZeroAddress}
      BY <1>4, <1>6
    <2> QED BY <1>2, <1>5, <1>6, <2>1
  <1>7. CASE agent # ZeroAddress
    <2>1. {v \in Token : token_approvals'[v] # ZeroAddress} =
            {v \in Token \ {t} : token_approvals'[v] # ZeroAddress} \cup {t}
      BY <1>4, <1>7
    <2> QED BY <1>2, <1>4, <1>5, <1>7, <2>1
  <1> QED BY <1>6, <1>7

\* Authority in the code is authority in the custody.
LEMMA AuthorityMaps ==
  ASSUME IInv, NEW sender \in Account, NEW t \in Token
  PROVE  /\ MayApprove(sender, t) => Custody!SpeaksFor(sender, owners[t])
         /\ emit_is_authorized(sender, t) =>
              \/ Custody!SpeaksFor(sender, owners[t])
              \/ <<owners[t], t, sender>> \in Mandates
  <1>1. sender # ZeroAddress /\ sender \in Address /\ owners[t] \in Address
    BY ERC721Assumption DEF Address, IInv, ERC721TypeOK
  <1>2. operator_approvals[<<owners[t], sender>>] =>
          Custody!SpeaksFor(sender, owners[t])
    BY <1>1 DEF Custody!SpeaksFor
  <1>3. sender = owners[t] => Custody!SpeaksFor(sender, owners[t])
    BY DEF Custody!SpeaksFor
  <1>4. token_approvals[t] = sender => <<owners[t], t, sender>> \in Mandates
    BY <1>1 DEF Mandates
  <1> QED BY <1>2, <1>3, <1>4 DEF MayApprove, emit_is_authorized

\* A transfer hands the token over; a burn hands it to nobody.
LEMMA HandOverMaps ==
  ASSUME IInv, NEW sender \in Account, NEW to \in Address, NEW t \in Token,
         emit_is_authorized(sender, t),
         token_approvals' = [token_approvals EXCEPT ![t] = ZeroAddress],
         owners' = [owners EXCEPT ![t] = to],
         caller' = sender, operator_approvals' = operator_approvals
  PROVE  Custody!Next
  <1>1. owners[t] # ZeroAddress
    BY AuthorizedMeansHeld, ERC721Assumption DEF IInv
  <1>2. Mandates' = Custody!Others(t)
    <2>1. ERC721TypeOK /\ ZeroAddress \in Address
      BY DEF IInv, Address
    <2>2. Mandates' = Custody!Others(t) \cup
            (IF ZeroAddress = ZeroAddress THEN {} ELSE {<<to, t, ZeroAddress>>})
      BY <2>1, MandatesAfter
    <2> QED BY <2>2
  <1>3. Custody!HandOver(t, to, sender)
    BY <1>1, <1>2, AuthorityMaps DEF Custody!HandOver
  <1> QED BY <1>3 DEF Custody!Next, Address

LEMMA ApproveMaps ==
  ASSUME IInv, NEW sender \in Account, NEW spender \in Address, NEW t \in Token,
         approve(sender, spender, t)
  PROVE  Custody!Next
  <1>1. /\ MayApprove(sender, t)
        /\ token_approvals' = [token_approvals EXCEPT ![t] = spender]
        /\ caller' = sender /\ owners' = owners
        /\ operator_approvals' = operator_approvals
    BY DEF approve
  <1>2. owners[t] # ZeroAddress /\ owners[t] \in Address
    BY <1>1, AuthorizedMeansHeld, ERC721Assumption DEF IInv, ERC721TypeOK
  <1>3. owners' = [owners EXCEPT ![t] = owners[t]]
    BY <1>1 DEF IInv, ERC721TypeOK
  <1>4. Mandates' = Custody!Others(t) \cup
          (IF spender = ZeroAddress THEN {} ELSE {<<owners[t], t, spender>>})
    BY <1>1, <1>2, <1>3, MandatesAfter DEF IInv
  <1>5. Custody!Name(t, spender, sender)
    BY <1>1, <1>2, <1>4, AuthorityMaps DEF Custody!Name
  <1> QED BY <1>5 DEF Custody!Next, Address

LEMMA SetApprovalForAllMaps ==
  ASSUME IInv, NEW sender \in Account, NEW operator \in Address,
         NEW approved \in BOOLEAN, setApprovalForAll(sender, operator, approved)
  PROVE  Custody!Next
  <1> DEFINE Ops == {k \in Address \X Address : operator_approvals[k]}
             key == <<sender, operator>>
  <1>1. /\ operator_approvals' = [operator_approvals EXCEPT ![key] = approved]
        /\ caller' = sender /\ owners' = owners
        /\ token_approvals' = token_approvals
    BY DEF setApprovalForAll
  <1>2. key \in Address \X Address
    BY DEF Address
  <1>3. operator_approvals \in [Address \X Address -> BOOLEAN]
    BY DEF IInv, ERC721TypeOK
  <1>4. \/ Ops' = Ops \cup {key}
        \/ Ops' = Ops \ {key}
    <2> HIDE DEF key
    <2>1. CASE approved
      BY <1>1, <1>2, <1>3, <2>1
    <2>2. CASE ~ approved
      BY <1>1, <1>2, <1>3, <2>2
    <2> QED BY <2>1, <2>2
  <1>5. Mandates' = Mandates
    BY <1>1 DEF Mandates
  <1>6. Custody!Appoint(sender, operator)
    BY <1>1, <1>4, <1>5 DEF Custody!Appoint
  <1> QED BY <1>6 DEF Custody!Next, Address

LEMMA MintMaps ==
  ASSUME IInv, NEW sender \in Account, NEW to \in Address, NEW t \in Token,
         mint(sender, to, t)
  PROVE  Custody!Next
  <1>1. /\ sender = deployer /\ to # ZeroAddress /\ owners[t] = ZeroAddress
        /\ owners' = [owners EXCEPT ![t] = to]
        /\ caller' = sender /\ token_approvals' = token_approvals
        /\ operator_approvals' = operator_approvals
    BY DEF mint
  <1>2. token_approvals[t] = ZeroAddress
    BY <1>1 DEF IInv, NothingForNothing
  <1>3. token_approvals' = [token_approvals EXCEPT ![t] = ZeroAddress]
    BY <1>1, <1>2 DEF IInv, ERC721TypeOK
  <1>4. Mandates' = Custody!Others(t)
    <2>1. ERC721TypeOK /\ ZeroAddress \in Address
      BY DEF IInv, Address
    <2>2. Mandates' = Custody!Others(t) \cup
            (IF ZeroAddress = ZeroAddress THEN {} ELSE {<<to, t, ZeroAddress>>})
      BY <1>1, <1>3, <2>1, MandatesAfter
    <2> QED BY <2>2
  <1>5. Custody!Others(t) = Mandates
    BY <1>2 DEF Custody!Others, Mandates
  <1>6. Custody!Create(t, to)
    BY <1>1, <1>4, <1>5 DEF Custody!Create
  <1> QED BY <1>1, <1>6 DEF Custody!Next, Address

\* Every behaviour of the token is one of the custody it promises: tokens
\* come from the deployer alone, move only with the authority of their holder,
\* and no approval outlives the holding it was given in.
THEOREM Refinement == Spec => ImplementsCustody
  <1>1. Init => Custody!Init
    BY DEF Init, Custody!Init, Mandates
  <1>2. IInv /\ [Next]_vars => [Custody!Next]_(Custody!custodyVars)
    <2> SUFFICES ASSUME IInv, [Next]_vars
                 PROVE  Custody!Next \/ UNCHANGED Custody!custodyVars
      OBVIOUS
    <2>1. ASSUME NEW sender \in Account, NEW from \in Address, NEW to \in Address,
                 NEW t \in Token, transferFrom(sender, from, to, t)
          PROVE  Custody!Next
      BY <2>1, HandOverMaps DEF transferFrom, ClearApproval
    <2>2. ASSUME NEW sender \in Account, NEW t \in Token, burn(sender, t)
          PROVE  Custody!Next
      BY <2>2, HandOverMaps DEF burn, ClearApproval, Address
    <2>3. ASSUME NEW sender \in Account, NEW operator \in Operator,
                 NEW approved \in BOOLEAN,
                 setApprovalForAll(sender, operator, approved)
          PROVE  Custody!Next
      BY <2>3, SetApprovalForAllMaps, ERC721Assumption
    <2>4. CASE UNCHANGED vars
      BY <2>4 DEF vars, Custody!custodyVars, Mandates
    <2> QED BY <2>1, <2>2, <2>3, <2>4, ApproveMaps, MintMaps DEF Next
  <1> QED BY SpecIInv, <1>1, <1>2, PTL DEF Spec, ImplementsCustody, Custody!Spec
=============================================================================
