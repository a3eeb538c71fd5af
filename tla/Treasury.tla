------------------------------ MODULE Treasury ------------------------------
(***************************************************************************)
(* VoidChainTreasury: revenue is credited to beneficiaries and withdrawn   *)
(* by them, never pushed.  Gross revenue of an L3 chain arrives through    *)
(* settle and settleTo, which split off the protocol's 2%; the chainapp    *)
(* runtime, which splits at the toll, credits net amounts with creditTo.   *)
(*                                                                         *)
(* Every function that moves VOID is nonReentrant and the token calls      *)
(* nobody back, so each is one step.                                       *)
(***************************************************************************)
EXTENDS Assets, Functions

CONSTANTS
  Wildcard,           \* WILDCARD_SCOPE, the scope of a settler of any chain
  FirstGovernor,      \* governance_ of the constructor
  FirstSink,          \* protocolTreasury_ of the constructor
  FirstSettlers,      \* settlers the deployment authorises for any chain
  SinkChoice,         \* BOUND: the addresses governance may name
  SettlerChoice,      \* BOUND: the settlers governance may authorise
  MaxSettled          \* BOUND: lifetime revenue settled for a chain

ASSUME TreasuryAssumption ==
  /\ Wildcard \notin Chain /\ Wildcard # None
  /\ FirstGovernor \in User /\ FirstSink \in User
  /\ SinkChoice \subseteq User
  /\ SettlerChoice \subseteq User \cup {Runtime}
  /\ FirstSettlers \subseteq User \cup {Runtime}

VARIABLES
  claimable,        \* what each account may withdraw
  treasuryRevenue,  \* lifetimeRevenue of each chain
  settlerScope,     \* None, Wildcard, or the one chain a settler may settle
  protocolTreasury, \* where the protocol's share goes
  governance        \* who administers this contract

treasury == <<claimable, treasuryRevenue, settlerScope, protocolTreasury, governance>>

TreasuryTypeOK ==
  /\ claimable \in [Account -> Nat]
  /\ treasuryRevenue \in [Chain -> Nat]
  /\ settlerScope \in [Account -> Chain \cup {None, Wildcard}]
  /\ protocolTreasury \in User
  /\ governance \in User

TreasuryInit ==
  /\ claimable = [a \in Account |-> 0]
  /\ treasuryRevenue = [t \in Chain |-> 0]
  /\ settlerScope = [a \in Account |-> IF a \in FirstSettlers THEN Wildcard ELSE None]
  /\ protocolTreasury = FirstSink
  /\ governance = FirstGovernor

\* PROTOCOL_BPS of the gross, rounded down, and never nothing.
ProtocolCut(gross) ==
  LET cut == (gross * 200) \div 10000
  IN  IF cut = 0 THEN 1 ELSE cut

-----------------------------------------------------------------------------
\* Mutant of SettleFor: the beneficiary is credited the gross.
SettleForGross(c, t, beneficiary, gross) ==
  /\ settlerScope[c] \in {Wildcard, t}
  /\ gross # 0
  /\ treasuryRevenue[t] + gross <= MaxSettled
  /\ Move(c, Treasury, gross)
  /\ treasuryRevenue' = [treasuryRevenue EXCEPT ![t] = @ + gross]
  /\ claimable' = [[claimable EXCEPT ![protocolTreasury] = @ + ProtocolCut(gross)]
                               EXCEPT ![beneficiary] = @ + gross]
  /\ UNCHANGED <<owner, settlerScope, protocolTreasury, governance>>

\* Mutant of SettleFor: both parts are percentages, and the dust is nobody's.
SettleForPercent(c, t, beneficiary, gross) ==
  /\ settlerScope[c] \in {Wildcard, t}
  /\ gross # 0
  /\ treasuryRevenue[t] + gross <= MaxSettled
  /\ Move(c, Treasury, gross)
  /\ treasuryRevenue' = [treasuryRevenue EXCEPT ![t] = @ + gross]
  /\ claimable' = [[claimable EXCEPT ![protocolTreasury] = @ + ProtocolCut(gross)]
                               EXCEPT ![beneficiary] = @ + (gross * 9800) \div 10000]
  /\ UNCHANGED <<owner, settlerScope, protocolTreasury, governance>>

\* _settle: gross revenue of chain t, split for its beneficiary.
SettleFor(c, t, beneficiary, gross) ==
  /\ settlerScope[c] \in {Wildcard, t}
  /\ gross # 0
  /\ treasuryRevenue[t] + gross <= MaxSettled
  /\ Move(c, Treasury, gross)
  /\ treasuryRevenue' = [treasuryRevenue EXCEPT ![t] = @ + gross]
  /\ claimable' = [[claimable EXCEPT ![protocolTreasury] = @ + ProtocolCut(gross)]
                               EXCEPT ![beneficiary] = @ + gross - ProtocolCut(gross)]
  /\ UNCHANGED <<owner, settlerScope, protocolTreasury, governance>>

Settle(c, t, gross) == SettleFor(c, t, owner[t], gross)

SettleTo(c, t, beneficiary, gross) == SettleFor(c, t, beneficiary, gross)

\* creditTo: an amount that is already net.  The protocol's own share is
\* delivered at once instead of waiting to be claimed.
CreditTo(c, beneficiary, amount) ==
  /\ settlerScope[c] # None
  /\ amount # 0
  /\ IF beneficiary = protocolTreasury
       THEN /\ Move(c, protocolTreasury, amount)
            /\ UNCHANGED claimable
       ELSE /\ Move(c, Treasury, amount)
            /\ claimable' = [claimable EXCEPT ![beneficiary] = @ + amount]
  /\ UNCHANGED <<owner, treasuryRevenue, settlerScope, protocolTreasury, governance>>

\* Mutant of ClaimTo: the credit survives its withdrawal.
ClaimToUncleared(beneficiary) ==
  /\ claimable[beneficiary] # 0
  /\ Move(Treasury, beneficiary, claimable[beneficiary])
  /\ UNCHANGED <<owner, claimable, treasuryRevenue, settlerScope, protocolTreasury, governance>>

\* claim and claimFor: whoever calls, the VOID goes to its beneficiary.
ClaimTo(beneficiary) ==
  /\ claimable[beneficiary] # 0
  /\ claimable' = [claimable EXCEPT ![beneficiary] = 0]
  /\ Move(Treasury, beneficiary, claimable[beneficiary])
  /\ UNCHANGED <<owner, treasuryRevenue, settlerScope, protocolTreasury, governance>>

\* Mutant of SetProtocolTreasury: what the old address was credited follows.
SetProtocolTreasuryMoving(c, next) ==
  /\ c = governance
  /\ protocolTreasury' = next
  /\ claimable' = [[claimable EXCEPT ![next] = @ + claimable[protocolTreasury]]
                               EXCEPT ![protocolTreasury] = 0]
  /\ UNCHANGED <<assets, treasuryRevenue, settlerScope, governance>>

SetProtocolTreasury(c, next) ==
  /\ c = governance
  /\ protocolTreasury' = next
  /\ UNCHANGED <<assets, claimable, treasuryRevenue, settlerScope, governance>>

TransferGovernance(c, next) ==
  /\ c = governance
  /\ governance' = next
  /\ UNCHANGED <<assets, claimable, treasuryRevenue, settlerScope, protocolTreasury>>

SetAuthorizedSettler(c, settler, allowed) ==
  /\ c = governance
  /\ settlerScope' = [settlerScope EXCEPT ![settler] = IF allowed THEN Wildcard ELSE None]
  /\ UNCHANGED <<assets, claimable, treasuryRevenue, protocolTreasury, governance>>

SetChainSettler(c, settler, t, allowed) ==
  /\ c = governance
  /\ settlerScope' = [settlerScope EXCEPT ![settler] = IF allowed THEN t ELSE None]
  /\ UNCHANGED <<assets, claimable, treasuryRevenue, protocolTreasury, governance>>

TreasuryCall(c) ==
  \/ c \in User /\ \E t \in Chain, gross \in Amount : Settle(c, t, gross)
  \/ c \in User /\ \E t \in Chain, u \in User, gross \in Amount : SettleTo(c, t, u, gross)
  \/ c \in User /\ \E u \in User, amount \in Amount : CreditTo(c, u, amount)
  \/ \E u \in User : ClaimTo(u)
  \/ \E u \in SinkChoice : SetProtocolTreasury(c, u) \/ TransferGovernance(c, u)
  \/ \E s \in SettlerChoice, allowed \in BOOLEAN :
       \/ SetAuthorizedSettler(c, s, allowed)
       \/ \E t \in Chain : SetChainSettler(c, s, t, allowed)

-----------------------------------------------------------------------------
\* Whatever the treasury has promised it holds: every credited balance can
\* be withdrawn, in any order, to the last unit.
TreasurySolvent == bal[Treasury] >= SumFunctionOnSet(claimable, Account)

\* What is credited stays its owner's: it leaves only whole and only to him,
\* whatever governance redirects or revokes meanwhile
\* (VoidChainTreasury.sol:306-308).
CreditsAreKept ==
  [][\A a \in Account : claimable'[a] < claimable[a] =>
       /\ claimable'[a] = 0
       /\ a # Treasury => bal'[a] = bal[a] + claimable[a]]_<<assets, treasury>>

\* The parts of a settlement sum to the whole, to the last unit of dust
\* (VoidChainTreasury.sol:232-235): whatever comes in is credited to somebody,
\* unless somebody gave it away with a plain transfer.
NoDustStranded ==
  [][\/ bal'[Treasury] - bal[Treasury] =
          SumFunctionOnSet(claimable', Account) - SumFunctionOnSet(claimable, Account)
     \/ treasury' = treasury]_<<assets, treasury>>

-----------------------------------------------------------------------------
\* The treasury without the runtime: L3 chains settle, holders claim.
TreasuryNext ==
  \E c \in User : TreasuryCall(c) \/ (AssetsCall(c) /\ UNCHANGED treasury)

TreasuryStart == AssetsInit /\ TreasuryInit

TreasurySpec == TreasuryStart /\ [][TreasuryNext]_<<assets, treasury>>
=============================================================================
