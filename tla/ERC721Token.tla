----------------------------- MODULE ERC721Token -----------------------------
(***************************************************************************)
(* The non-fungible token the compiler synthesizes                         *)
(* (crates/covenant-stdlib/src/erc721.rs).  One step is one transaction; a *)
(* transaction that reverts leaves the state as it was.                    *)
(*                                                                         *)
(* An id nobody holds has the zero address for its owner, and the zero     *)
(* address is a legal argument everywhere an address is: what keeps        *)
(* `transferFrom(0, ...)` from creating a token is no check of its own but *)
(* that nobody is ever authorized for an id that does not exist.           *)
(***************************************************************************)
EXTENDS Naturals, FiniteSets

CONSTANTS
  Account,      \* accounts that send transactions
  Operator,     \* addresses that holders name as their operators
  ZeroAddress,
  Token,        \* token ids
  deployer,     \* the account that deployed the token
  Width         \* 2^256: a balance is a U256

Address == Account \cup {ZeroAddress}

ASSUME ERC721Assumption ==
  /\ deployer \in Account
  /\ ZeroAddress \notin Account
  /\ Operator \subseteq Address
  /\ IsFiniteSet(Token)
  /\ Width \in Nat /\ Width > Cardinality(Token)

VARIABLES
  owners,              \* id -> address
  balances,            \* address -> amount
  token_approvals,     \* id -> address
  operator_approvals,  \* keccak(owner, operator) -> bool
  caller               \* who sent the last transaction

vars == <<owners, balances, token_approvals, operator_approvals, caller>>

Init ==
  /\ owners = [t \in Token |-> ZeroAddress]
  /\ balances = [a \in Address |-> 0]
  /\ token_approvals = [t \in Token |-> ZeroAddress]
  /\ operator_approvals = [k \in Address \X Address |-> FALSE]
  /\ caller = deployer

\* Who may re-approve: the owner and its operators, not the approved address.
MayApprove(sender, t) ==
  \/ sender = owners[t]
  \/ operator_approvals[<<owners[t], sender>>]

\* Mutant of emit_is_authorized: the operator key is (caller, owner).
IsAuthorizedSwapped(sender, t) ==
  \/ sender = owners[t]
  \/ token_approvals[t] = sender
  \/ operator_approvals[<<sender, owners[t]>>]
emit_is_authorized(sender, t) ==
  \/ sender = owners[t]
  \/ token_approvals[t] = sender
  \/ operator_approvals[<<owners[t], sender>>]

\* The balances in the order they are written: the sender's with SubChecked,
\* then the recipient's is read and written with AddChecked.
\* Mutant: the recipient's balance is read before the sender's is written.
MoveOneReadFirst(from, to) ==
  /\ balances[from] >= 1
  /\ balances' = [balances EXCEPT ![from] = @ - 1, ![to] = balances[to] + 1]
MoveOne(from, to) ==
  LET debited == [balances EXCEPT ![from] = @ - 1] IN
    /\ balances[from] >= 1
    /\ debited[to] + 1 < Width
    /\ balances' = [debited EXCEPT ![to] = @ + 1]

\* Both ways out clear the approval.  Mutant: it is left in place.
ApprovalKept(t) == UNCHANGED token_approvals
ClearApproval(t) ==
  token_approvals' = [token_approvals EXCEPT ![t] = ZeroAddress]

transferFrom(sender, from, to, t) ==
  /\ to # ZeroAddress                     \* else InvalidReceiver
  /\ owners[t] = from                     \* else NotTokenOwner
  /\ emit_is_authorized(sender, t)        \* else NotApprovedOrOwner
  /\ ClearApproval(t)
  /\ owners' = [owners EXCEPT ![t] = to]
  /\ MoveOne(from, to)
  /\ caller' = sender
  /\ UNCHANGED operator_approvals

burn(sender, t) ==
  /\ owners[t] # ZeroAddress              \* else TokenDoesNotExist
  /\ emit_is_authorized(sender, t)        \* else NotApprovedOrOwner
  /\ ClearApproval(t)
  /\ owners' = [owners EXCEPT ![t] = ZeroAddress]
  /\ balances[owners[t]] >= 1
  /\ balances' = [balances EXCEPT ![owners[t]] = @ - 1]
  /\ caller' = sender
  /\ UNCHANGED operator_approvals

\* Mutant: whether the id is taken is not checked (TokenAlreadyMinted).
MintAgain(sender, to, t) ==
  /\ sender = deployer /\ to # ZeroAddress
  /\ owners' = [owners EXCEPT ![t] = to]
  /\ balances[to] + 1 < Width
  /\ balances' = [balances EXCEPT ![to] = @ + 1]
  /\ caller' = sender
  /\ UNCHANGED <<token_approvals, operator_approvals>>
mint(sender, to, t) ==
  /\ sender = deployer                    \* else NotDeployer
  /\ to # ZeroAddress                     \* else InvalidReceiver
  /\ owners[t] = ZeroAddress              \* else TokenAlreadyMinted
  /\ owners' = [owners EXCEPT ![t] = to]
  /\ balances[to] + 1 < Width
  /\ balances' = [balances EXCEPT ![to] = @ + 1]
  /\ caller' = sender
  /\ UNCHANGED <<token_approvals, operator_approvals>>

approve(sender, spender, t) ==
  /\ MayApprove(sender, t)                \* else NotTokenOwner
  /\ token_approvals' = [token_approvals EXCEPT ![t] = spender]
  /\ caller' = sender
  /\ UNCHANGED <<owners, balances, operator_approvals>>

setApprovalForAll(sender, operator, approved) ==
  /\ operator_approvals' =
       [operator_approvals EXCEPT ![<<sender, operator>>] = approved]
  /\ caller' = sender
  /\ UNCHANGED <<owners, balances, token_approvals>>

Next ==
  \E sender \in Account :
    \/ \E operator \in Operator, approved \in BOOLEAN :
         setApprovalForAll(sender, operator, approved)
    \/ \E t \in Token :
         \/ burn(sender, t)
         \/ \E a \in Address :
              \/ mint(sender, a, t)
              \/ approve(sender, a, t)
              \/ \E from \in Address : transferFrom(sender, from, a, t)

Spec == Init /\ [][Next]_vars
-----------------------------------------------------------------------------
ERC721TypeOK ==
  /\ owners \in [Token -> Address]
  /\ balances \in [Address -> 0 .. Width - 1]
  /\ token_approvals \in [Token -> Address]
  /\ operator_approvals \in [Address \X Address -> BOOLEAN]
  /\ caller \in Account

Held(a) == {t \in Token : owners[t] = a}

\* balanceOf never drifts from ownerOf: an account's balance is the number of
\* tokens it holds, through transfers to oneself, burns and re-mints of an id.
BalancesCountTokens ==
  \A a \in Account : balances[a] = Cardinality(Held(a))

\* Nobody is ever authorized for an id that does not exist: burning clears the
\* approval, and the zero address never has an operator.  transferFrom relies
\* on it, since `from = 0` passes its ownership check for such an id.
NobodyIsAuthorizedForNothing ==
  \A t \in Token :
    owners[t] = ZeroAddress =>
      /\ \A a \in Account : ~ emit_is_authorized(a, t)
      /\ token_approvals[t] = ZeroAddress

\* The approvals in force, each as given by the current owner.
Mandates ==
  {<<owners[t], t, token_approvals[t]>> :
     t \in {u \in Token : token_approvals[u] # ZeroAddress}}

\* The token implements the custody it promises its holders.
Custody == INSTANCE NFTCustody WITH
  Person <- Account, Creator <- deployer, NoOne <- ZeroAddress,
  holder <- owners,
  mandates <- Mandates,
  operators <- {k \in Address \X Address : operator_approvals[k]},
  actor <- caller
ImplementsCustody == Custody!Spec
=============================================================================
