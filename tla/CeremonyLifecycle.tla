-------------------------- MODULE CeremonyLifecycle --------------------------
(***************************************************************************)
(* What an ERC-8228 ceremony promises, whatever chain it runs on: an owner *)
(* opens it once, distinct participants join while it collects, the owner  *)
(* closes it only when at least the declared threshold of them joined, and *)
(* may then destroy it; each stage is entered once and never left          *)
(* backwards.  Both compositions of the compiled contract implement this.  *)
(***************************************************************************)
EXTENDS Naturals, FiniteSets

CONSTANTS Contract, Account, NoOne, Threshold

VARIABLES
  owner,         \* who deployed the ceremony, NoOne before that
  stage,         \* "new", "collecting", "closed" or "destroyed"
  participants   \* the distinct accounts that submitted a share

lifecycleVars == <<owner, stage, participants>>

Init ==
  /\ owner = [c \in Contract |-> NoOne]
  /\ stage = [c \in Contract |-> "new"]
  /\ participants = [c \in Contract |-> {}]

Create(c) ==
  /\ owner[c] = NoOne
  /\ \E a \in Account : owner' = [owner EXCEPT ![c] = a]
  /\ UNCHANGED <<stage, participants>>

Open(c) ==
  /\ owner[c] # NoOne
  /\ stage[c] = "new"
  /\ stage' = [stage EXCEPT ![c] = "collecting"]
  /\ UNCHANGED <<owner, participants>>

Join(c) ==
  /\ stage[c] = "collecting"
  /\ \E a \in Account \ participants[c] :
       participants' = [participants EXCEPT ![c] = @ \cup {a}]
  /\ UNCHANGED <<owner, stage>>

Close(c) ==
  /\ stage[c] = "collecting"
  /\ Cardinality(participants[c]) >= Threshold[c]
  /\ stage' = [stage EXCEPT ![c] = "closed"]
  /\ UNCHANGED <<owner, participants>>

Destroy(c) ==
  /\ stage[c] = "closed"
  /\ stage' = [stage EXCEPT ![c] = "destroyed"]
  /\ UNCHANGED <<owner, participants>>

Next == \E c \in Contract :
          Create(c) \/ Open(c) \/ Join(c) \/ Close(c) \/ Destroy(c)

Spec == Init /\ [][Next]_lifecycleVars
=============================================================================
