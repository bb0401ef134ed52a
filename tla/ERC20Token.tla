------------------------------ MODULE ERC20Token ------------------------------
(***************************************************************************)
(* The ERC-20 token the compiler synthesizes                               *)
(* (crates/covenant-stdlib/src/erc20.rs).  One step is one transaction; a  *)
(* transaction that reverts (InsufficientBalance, InsufficientAllowance,   *)
(* or a checked operation that panics) leaves the state as it was.         *)
(***************************************************************************)
EXTENDS Naturals, FiniteSetsExt

CONSTANTS
  Address,    \* the accounts
  deployer,   \* the account that deployed the token
  supply,     \* `supply: N to deployer`
  Width       \* 2^256: amounts are U256

Amount == 0 .. Width - 1

ASSUME ERC20Assumption ==
  /\ IsFiniteSet(Address)      \* 160-bit words
  /\ deployer \in Address
  /\ Width \in Nat \ {0}
  /\ supply \in Amount

VARIABLES
  total_supply,
  balances,      \* address -> amount
  allowances,    \* keccak(owner, spender) -> amount
  caller         \* who sent the last transaction

vars == <<total_supply, balances, allowances, caller>>

\* apply_genesis_supply writes total_supply, the constructor seeds the
\* deployer's balance with the same amount.
Init ==
  /\ total_supply = supply
  /\ balances = [a \in Address |-> IF a = deployer THEN supply ELSE 0]
  /\ allowances = [k \in Address \X Address |-> 0]
  /\ caller = deployer

\* AddChecked and SubChecked revert instead of wrapping.
AddFits(x, y) == x + y < Width
SubFits(x, y) == x >= y

\* The sender's balance is written before the recipient's is read, so that a
\* transfer to oneself adds to what is left.
Debited(from, value) == [balances EXCEPT ![from] = @ - value]

\* Mutants of Move: nothing is checked; the recipient's balance is read before
\* the sender's is written.
MoveUnchecked(from, to, value) ==
  balances' = [Debited(from, value) EXCEPT ![to] = @ + value]
MoveReadFirst(from, to, value) ==
  /\ balances[from] >= value
  /\ AddFits(balances[to], value)
  /\ balances' = [Debited(from, value) EXCEPT ![to] = balances[to] + value]

Move(from, to, value) ==
  LET debited == Debited(from, value) IN
    /\ balances[from] >= value               \* else InsufficientBalance
    /\ SubFits(balances[from], value)
    /\ AddFits(debited[to], value)
    /\ balances' = [debited EXCEPT ![to] = @ + value]

transfer(sender, to, value) ==
  /\ Move(sender, to, value)
  /\ caller' = sender
  /\ UNCHANGED <<total_supply, allowances>>

\* The allowance is checked and spent.  Mutant: its two keys are swapped.
SpendSwapped(from, sender, value) ==
  /\ allowances[<<sender, from>>] >= value
  /\ allowances' = [allowances EXCEPT ![<<sender, from>>] = @ - value]
Spend(from, sender, value) ==
  /\ allowances[<<from, sender>>] >= value       \* else InsufficientAllowance
  /\ SubFits(allowances[<<from, sender>>], value)
  /\ allowances' = [allowances EXCEPT ![<<from, sender>>] = @ - value]

transferFrom(sender, from, to, value) ==
  /\ Spend(from, sender, value)
  /\ Move(from, to, value)
  /\ caller' = sender
  /\ UNCHANGED total_supply

approve(sender, spender, value) ==
  /\ allowances' = [allowances EXCEPT ![<<sender, spender>>] = value]
  /\ caller' = sender
  /\ UNCHANGED <<total_supply, balances>>

Next ==
  \E sender, to \in Address, value \in Amount :
    \/ transfer(sender, to, value)
    \/ approve(sender, to, value)
    \/ \E from \in Address : transferFrom(sender, from, to, value)

Spec == Init /\ [][Next]_vars
-----------------------------------------------------------------------------
ERC20TypeOK ==
  /\ total_supply \in Amount
  /\ balances \in [Address -> Amount]
  /\ allowances \in [Address \X Address -> Amount]
  /\ caller \in Address

\* conform.rs: `totalSupply() == sum(balances)` at block zero, and after any
\* sequence of transfers, to oneself and on behalf of others included.
SupplyIsSumOfBalances == SumFunctionOnSet(balances, Address) = total_supply

\* A balance falls only in a transaction of its holder, or of a spender whose
\* allowance from that holder covered the loss and fell by as much.
OnlyAuthorizedDebits ==
  [][\A a \in Address :
       balances'[a] < balances[a] =>
         \/ caller' = a
         \/ allowances[<<a, caller'>>] - allowances'[<<a, caller'>>]
              = balances[a] - balances'[a]
    ]_vars
=============================================================================
