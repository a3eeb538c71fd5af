------------------------------ MODULE Earnings ------------------------------
(***************************************************************************)
(* What the runtime and the treasury together promise about revenue, with  *)
(* none of their books: revenue belongs to whoever held the deed when it   *)
(* was earned, and leaves only as VOID in that account's own wallet.       *)
(*                                                                         *)
(* Parking, flushing and crediting are invisible here: they move a debt    *)
(* from one book to another and change nobody's due.                       *)
(***************************************************************************)
EXTENDS Integers

CONSTANTS
  User, Chain,
  Gross  \* the amounts in which revenue arrives

VARIABLES
  holder,      \* who holds each deed
  due,         \* what each account has earned and not received
  protocolDue, \* the protocol's share of tolls, not yet delivered
  purse        \* the VOID in each account's own wallet

Share(gross) ==
  LET cut == (gross * 200) \div 10000
  IN  IF cut = 0 THEN 1 ELSE cut

Init ==
  /\ holder \in [Chain -> User]
  /\ due = [u \in User |-> 0]
  /\ protocolDue = 0
  /\ purse \in [User -> Nat]

\* Somebody, or the paymaster on his behalf, pays a toll on chain t.
PaidBy(gross) ==
  \/ purse' = purse
  \/ \E p \in User : purse' = [purse EXCEPT ![p] = @ - gross]

EarnToll(t, gross) ==
  /\ UNCHANGED holder
  /\ protocolDue' = protocolDue + Share(gross)
  /\ PaidBy(gross)
  /\ due' = [due EXCEPT ![holder[t]] = @ + gross - Share(gross)]

\* Revenue of an L3 chain, settled for u; the protocol's part is due to its
\* treasury, an account like any other.
EarnSettled(u, sink, gross) ==
  /\ UNCHANGED <<holder, protocolDue>>
  /\ PaidBy(gross)
  /\ due' = [[due EXCEPT ![sink] = @ + Share(gross)] EXCEPT ![u] = @ + gross - Share(gross)]

\* A settler credits u with VOID of its own.
EarnCredited(u, amount) ==
  /\ UNCHANGED <<holder, protocolDue>>
  /\ PaidBy(amount)
  /\ due' = [due EXCEPT ![u] = @ + amount]

\* u receives what it is due, all or a part of it.
Pay(u, amount) ==
  /\ UNCHANGED <<holder, protocolDue>>
  /\ purse' = [purse EXCEPT ![u] = @ + amount]
  /\ due' = [due EXCEPT ![u] = @ - amount]

PayProtocol(sink) ==
  /\ protocolDue > 0
  /\ protocolDue' = 0
  /\ purse' = [purse EXCEPT ![sink] = @ + protocolDue]
  /\ UNCHANGED <<holder, due>>

\* Any other payment: at most one purse shrinks and no debt changes.
Spend ==
  /\ UNCHANGED <<holder, protocolDue>>
  /\ purse' \in [User -> Nat]
  /\ \E p \in User : \A u \in User \ {p} : purse'[u] >= purse[u]
  /\ UNCHANGED due

Sell(t, u) ==
  /\ holder' = [holder EXCEPT ![t] = u]
  /\ UNCHANGED <<due, protocolDue, purse>>

Next ==
  \/ \E t \in Chain, gross \in Gross : EarnToll(t, gross)
  \/ \E u, sink \in User, gross \in Gross : EarnSettled(u, sink, gross)
  \/ \E u \in User, amount \in Gross : EarnCredited(u, amount)
  \/ \E u \in User : \E amount \in 1..due[u] : Pay(u, amount)
  \/ \E sink \in User : PayProtocol(sink)
  \/ Spend
  \/ \E t \in Chain, u \in User : Sell(t, u)

eVars == <<holder, due, protocolDue, purse>>

Spec == Init /\ [][Next]_eVars
=============================================================================
