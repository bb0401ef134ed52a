------------------------------ MODULE NFTCustody ------------------------------
(***************************************************************************)
(* What a non-fungible token promises its holders: a token is created by   *)
(* its creator alone, changes hands only by its holder or somebody the     *)
(* holder (or the holder's operator) named, and a mandate ends when the    *)
(* token leaves the holder it was given for.  Nothing is counted here.     *)
(***************************************************************************)
CONSTANTS Token, Person, Creator, NoOne

VARIABLES
  holder,      \* token -> its holder, or NoOne
  mandates,    \* <<holder, token, agent>>: the agent may move this token
  operators,   \* <<holder, agent>>: the agent speaks for the holder
  actor        \* who took the last step

custodyVars == <<holder, mandates, operators, actor>>

Init ==
  /\ holder = [t \in Token |-> NoOne]
  /\ mandates = {}
  /\ operators = {}
  /\ actor = Creator

SpeaksFor(p, h) == p = h \/ <<h, p>> \in operators

Others(t) == {m \in mandates : m[2] # t}

Create(t, to) ==
  /\ actor' = Creator
  /\ holder[t] = NoOne
  /\ holder' = [holder EXCEPT ![t] = to]
  /\ UNCHANGED <<mandates, operators>>

\* Handing over to NoOne destroys the token.
HandOver(t, to, p) ==
  /\ actor' = p
  /\ holder[t] # NoOne
  /\ SpeaksFor(p, holder[t]) \/ <<holder[t], t, p>> \in mandates
  /\ holder' = [holder EXCEPT ![t] = to]
  /\ mandates' = Others(t)
  /\ UNCHANGED operators

\* A token has at most one agent; naming NoOne withdraws the mandate.
Name(t, agent, p) ==
  /\ actor' = p
  /\ holder[t] # NoOne
  /\ SpeaksFor(p, holder[t])
  /\ mandates' = Others(t) \cup
       (IF agent = NoOne THEN {} ELSE {<<holder[t], t, agent>>})
  /\ UNCHANGED <<holder, operators>>

Appoint(p, agent) ==
  /\ actor' = p
  /\ \/ operators' = operators \cup {<<p, agent>>}
     \/ operators' = operators \ {<<p, agent>>}
  /\ UNCHANGED <<holder, mandates>>

Next ==
  \/ \E t \in Token, to \in Person : Create(t, to)
  \/ \E t \in Token, to \in Person \cup {NoOne}, p \in Person :
       HandOver(t, to, p) \/ Name(t, to, p)
  \/ \E p \in Person, agent \in Person \cup {NoOne} : Appoint(p, agent)

Spec == Init /\ [][Next]_custodyVars
=============================================================================
