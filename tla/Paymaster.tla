----------------------------- MODULE Paymaster ------------------------------
(***************************************************************************)
(* VoidPaymaster: users who own no ETH sign a request, any relayer sends   *)
(* it, the paymaster runs it on the runtime and pays the relayer out of    *)
(* its ETH reserve, against VOID of the user.                              *)
(*                                                                         *)
(* A sponsored call is one transaction in which an application holds       *)
(* control for a while: Sponsor validates and takes the prefund, RunCall   *)
(* opens the execution, the application and whatever it calls take steps,  *)
(* Return closes the execution and Finish settles.  A call that fails      *)
(* inside is undone, the sponsorship is not: Finish without RunCall.       *)
(*                                                                         *)
(* nonReentrant closes sponsor, refill, burnSurplus and withdrawEth while  *)
(* a sponsorship is open.  The other governance functions stay open: the   *)
(* governor is the timelock, whose matured operations anybody may execute, *)
(* an application too.                                                     *)
(***************************************************************************)
EXTENDS AppRuntime

CONSTANTS
  FirstPaymasterGovernor, \* governor_ of the constructor
  Relayer,          \* who sends sponsored calls
  Pool,             \* the VOID/ETH pool refills sell to
  Burn, Runway,     \* BURN_ADDRESS and runwayTreasury
  EthUnit,          \* 1e18
  FirstReserve,     \* the ETH reserve at the start
  BlocksPerDay,
  Price,            \* BOUND: VOID per EthUnit of ETH, as the oracle may answer
  Cost,             \* BOUND: ETH a call may cost, at worst and in the end
  MaxGas,           \* BOUND: ceilings on the gas charge that users sign
  FirstLimits,      \* margin, floor, ceilings and refill policy at the start
  LimitsChoice,     \* BOUND: those governance may set
  EthIn,            \* BOUND: ETH that arrives by itself
  MaxReserve,       \* BOUND: on the reserve
  MaxBlock,         \* BOUND: blocks
  MaxNonce          \* BOUND: sponsored calls of a user

\* marginBps, ethFloor, maxEthPerBlock, dailyChainEthLimit, refillThreshold,
\* refillTarget and refillSlippageBps.
Limits == [margin : 0..3000, floor : Nat, perBlock : Nat, perDay : Nat \ {0},
           threshold : Nat, target : Nat, slippage : 0..500]

\* Executions are only sponsored: the runtime is V3 or later.
ASSUME PaymasterAssumption ==
  /\ DirectRuntime = FALSE
  /\ FirstPaymasterGovernor \in User /\ Relayer \subseteq User
  /\ Pool \in User /\ Burn \in User /\ Runway \in User
  /\ EthUnit \in Nat \ {0} /\ BlocksPerDay \in Nat \ {0}
  /\ FirstReserve \in Nat /\ MaxBlock \in Nat /\ MaxNonce \in Nat
  /\ Price \subseteq Nat /\ Cost \subseteq Nat /\ MaxGas \subseteq Nat /\ MaxFee \subseteq Nat
  /\ EthIn \subseteq Nat
  /\ FirstLimits \in Limits /\ LimitsChoice \subseteq Limits
  /\ \A l \in LimitsChoice \cup {FirstLimits} : l.threshold > 0 => l.threshold < l.target

VARIABLES
  reserve,         \* ETH balance of the paymaster
  reimbursable,    \* reimbursableVoid: collected, to become ETH again
  surplus,         \* surplusVoid: the accrued margin
  nonces,          \* of each user
  block,           \* block.number; a day is BlocksPerDay blocks
  lastSpend, spentThisBlock,  \* blockOfLastSpend and what was charged in it
  chainSpent,      \* chainEpochEthSpent, by chain and day
  limits,          \* the numbers governance sets
  governor,
  migrated,        \* migrationAccountingInitialized
  sponsoring       \* the open sponsorship: its locals in _sponsor

accounts == <<reserve, reimbursable, surplus>>
budgets == <<lastSpend, spentThisBlock, chainSpent>>
rules == <<limits, governor, migrated>>
paymaster == <<accounts, nonces, block, budgets, rules, sponsoring>>
runtime == <<assets, treasury, policy, registry, emergency, money, execution>>
pvars == <<runtime, paymaster>>

NoSponsorship == [user |-> None]
Sponsoring == sponsoring # NoSponsorship

Day(b) == b \div BlocksPerDay

PInit ==
  /\ Init
  /\ reserve = FirstReserve /\ reimbursable = 0 /\ surplus = 0
  /\ nonces = [u \in User |-> 0]
  /\ block = 0 /\ lastSpend = 0 /\ spentThisBlock = 0
  /\ chainSpent = [t \in Chain |-> [d \in 0..Day(MaxBlock) |-> 0]]
  /\ limits = FirstLimits /\ governor = FirstPaymasterGovernor /\ migrated = FALSE
  /\ sponsoring = NoSponsorship

PaymasterTypeOK ==
  /\ reserve \in Nat /\ reimbursable \in Nat /\ surplus \in Nat
  /\ nonces \in [User -> Nat]
  /\ block \in Nat /\ lastSpend \in Nat /\ spentThisBlock \in Nat
  /\ chainSpent \in [Chain -> [0..Day(MaxBlock) -> Nat]]
  /\ limits \in Limits /\ governor \in User /\ migrated \in BOOLEAN
  /\ \/ sponsoring = NoSponsorship
     \/ /\ sponsoring.user \in User /\ sponsoring.relayer \in Relayer
        /\ sponsoring.chain \in Chain /\ sponsoring.app \in App
        /\ sponsoring.rate \in Rate /\ sponsoring.toll \in Nat /\ sponsoring.maxToll \in MaxFee
        /\ sponsoring.maxGas \in MaxGas /\ sponsoring.worst \in Cost
        /\ sponsoring.spends \in Auth /\ sponsoring.nfts \subseteq Chain
        /\ sponsoring.ran \in BOOLEAN

-----------------------------------------------------------------------------
(* A sponsored call *)

\* What ETH costs in VOID, before and after the margin; both round down.
GasVoid(ethAmount, price) == (ethAmount * price) \div EthUnit
ToVoid(ethAmount, price) == (GasVoid(ethAmount, price) * (10000 + limits.margin)) \div 10000

\* _chargeBlockBudget; a ceiling of zero disables it, counting included.
ChargeBlock(amount) ==
  IF limits.perBlock = 0
    THEN UNCHANGED <<lastSpend, spentThisBlock>>
    ELSE /\ lastSpend' = block
         /\ spentThisBlock' = (IF lastSpend = block THEN spentThisBlock ELSE 0) + amount
         /\ spentThisBlock' <= limits.perBlock

\* Mutant of ChargeChain: each call is within the limit, their sum is not.
ChargeChainEach(t, amount) ==
  /\ amount <= limits.perDay /\ amount <= reserve \div 4
  /\ chainSpent' = [chainSpent EXCEPT ![t][Day(block)] = @ + amount]

\* _chargeChainBudget: the daily limit, or a quarter of the reserve if that
\* is less.
ChargeChain(t, amount) ==
  LET spent == chainSpent[t][Day(block)] + amount
  IN  /\ spent <= limits.perDay /\ spent <= reserve \div 4
      /\ chainSpent' = [chainSpent EXCEPT ![t][Day(block)] = spent]

\* Mutant of Sponsor: validation leaves the nonce to be spent later.
SponsorReplayable(relayer, user, t, app, rate, maxToll, maxGas, worst, price, spends, nfts) ==
  /\ ~ Sponsoring /\ executing = Idle
  /\ price # 0
  /\ nonces[user] < MaxNonce
  /\ Toll(t, rate) <= maxToll
  /\ ToVoid(worst, price) <= maxGas
  /\ worst <= reserve
  /\ ChargeBlock(worst)
  /\ ChargeChain(t, worst)
  /\ Move(user, Forwarder, maxToll + maxGas)
  /\ sponsoring' = [user |-> user, relayer |-> relayer, chain |-> t, app |-> app, rate |-> rate,
                    toll |-> Toll(t, rate), maxToll |-> maxToll, maxGas |-> maxGas, worst |-> worst,
                    spends |-> spends, nfts |-> nfts, ran |-> FALSE]
  /\ UNCHANGED <<owner, treasury, policy, registry, emergency, money, execution,
                 accounts, nonces, block, rules>>

\* sponsor and its two forms with permits, up to the runtime: _validate, then
\* the worst case is taken from the user.
Sponsor(relayer, user, t, app, rate, maxToll, maxGas, worst, price, spends, nfts) ==
  /\ ~ Sponsoring /\ executing = Idle
  /\ price # 0
  /\ nonces[user] < MaxNonce
  /\ feeUsd[t] # 0 => "oracle" \in wired
  /\ Toll(t, rate) <= maxToll
  /\ ToVoid(worst, price) <= maxGas
  /\ worst > 0 => GasVoid(worst, price) > 0
  /\ worst <= reserve
  /\ ChargeBlock(worst)
  /\ ChargeChain(t, worst)
  /\ nonces' = [nonces EXCEPT ![user] = @ + 1]
  /\ Move(user, Forwarder, maxToll + maxGas)
  /\ sponsoring' = [user |-> user, relayer |-> relayer, chain |-> t, app |-> app, rate |-> rate,
                    toll |-> Toll(t, rate), maxToll |-> maxToll, maxGas |-> maxGas, worst |-> worst,
                    spends |-> spends, nfts |-> nfts, ran |-> FALSE]
  /\ UNCHANGED <<owner, treasury, policy, registry, emergency, money, execution,
                 accounts, block, rules>>

\* _run: the runtime takes the toll validated above and calls the application.
RunCall ==
  /\ Sponsoring /\ ~ sponsoring.ran
  /\ ExecuteFor(Forwarder, sponsoring.user, sponsoring.chain, sponsoring.app, sponsoring.rate,
                sponsoring.maxToll, sponsoring.spends, sponsoring.nfts)
  /\ sponsoring' = [sponsoring EXCEPT !.ran = TRUE]
  /\ UNCHANGED <<accounts, nonces, block, budgets, rules>>

\* What the signed ceilings leave to charge for ETH spent, margin included.
Charge(spent, price) ==
  IF ToVoid(spent, price) > sponsoring.maxGas THEN sponsoring.maxGas ELSE ToVoid(spent, price)

ChargeForGas(spent, price) ==
  IF ToVoid(spent, price) > sponsoring.maxGas
    THEN (sponsoring.maxGas * 10000) \div (10000 + limits.margin)
    ELSE GasVoid(spent, price)

\* The toll as it was validated: a price voted in mid-call does not change it.
TollPaid == IF sponsoring.ran THEN sponsoring.toll ELSE 0

\* The rest of _sponsor: the charge is booked, what is left of the prefund
\* goes back to the user and the ETH spent to the relayer.  The price is read
\* again, and may have changed.
Finish(spent, price) ==
  /\ Sponsoring /\ executing = Idle
  /\ LET paid == IF spent > sponsoring.worst THEN sponsoring.worst ELSE spent
     IN  /\ paid <= reserve
         /\ reserve' = reserve - paid
  /\ reimbursable' = reimbursable + ChargeForGas(spent, price)
  /\ surplus' = surplus + Charge(spent, price) - ChargeForGas(spent, price)
  /\ Move(Forwarder, sponsoring.user,
          sponsoring.maxToll + sponsoring.maxGas - TollPaid - Charge(spent, price))
  /\ sponsoring' = NoSponsorship
  /\ UNCHANGED <<owner, treasury, policy, registry, emergency, money, execution,
                 nonces, block, budgets, rules>>

-----------------------------------------------------------------------------
(* The reserve, open to anyone *)

\* fundEth and receive.
FundEth(amount) ==
  /\ reserve + amount <= MaxReserve
  /\ reserve' = reserve + amount
  /\ UNCHANGED <<runtime, reimbursable, surplus, nonces, block, budgets, rules, sponsoring>>

\* refillPlan: enough to reach the target, at most what has been collected.
RefillPlan(price) ==
  LET needed == ((limits.target - reserve) * price + EthUnit - 1) \div EthUnit
  IN  IF needed < reimbursable THEN needed ELSE reimbursable

\* Mutant of Refill: what is sold stays on the book.
RefillUnbooked(amount, ethOut, price) ==
  /\ ~ Sponsoring
  /\ limits.threshold # 0 /\ reserve < limits.threshold
  /\ price # 0
  /\ amount # 0 /\ amount <= RefillPlan(price)
  /\ reserve + ethOut <= MaxReserve
  /\ Move(Forwarder, Pool, amount)
  /\ reserve' = reserve + ethOut
  /\ UNCHANGED <<owner, treasury, policy, registry, emergency, money, execution,
                 reimbursable, surplus, nonces, block, budgets, rules, sponsoring>>

\* refill: replacement VOID is sold, for at least the oracle's price less the
\* slippage governance allows.
Refill(amount, ethOut, price) ==
  /\ ~ Sponsoring
  /\ limits.threshold # 0 /\ reserve < limits.threshold
  /\ price # 0
  /\ amount # 0 /\ amount <= RefillPlan(price)
  /\ ethOut >= (((RefillPlan(price) * EthUnit) \div price) * (10000 - limits.slippage)) \div 10000
  /\ reserve + ethOut <= MaxReserve
  /\ reimbursable' = reimbursable - amount
  /\ Move(Forwarder, Pool, amount)
  /\ reserve' = reserve + ethOut
  /\ UNCHANGED <<owner, treasury, policy, registry, emergency, money, execution,
                 surplus, nonces, block, budgets, rules, sponsoring>>

\* burnSurplus: half of the margin burns, the rest is operating cash; nothing
\* leaves while the reserve is under its floor.
BurnSurplus ==
  /\ ~ Sponsoring
  /\ surplus # 0 /\ reserve >= limits.floor
  /\ surplus <= bal[Forwarder]
  /\ surplus' = 0
  /\ bal' = [[[bal EXCEPT ![Forwarder] = @ - surplus]
                   EXCEPT ![Burn] = @ + surplus \div 2]
                   EXCEPT ![Runway] = @ + surplus - surplus \div 2]
  /\ UNCHANGED <<owner, treasury, policy, registry, emergency, money, execution,
                 reserve, reimbursable, nonces, block, budgets, rules, sponsoring>>

-----------------------------------------------------------------------------
(* Governance *)

\* Mutant of WithdrawEth: not nonReentrant.
WithdrawEthReentrant(c, amount) ==
  /\ c = governor
  /\ amount <= reserve
  /\ reserve' = reserve - amount
  /\ UNCHANGED <<runtime, reimbursable, surplus, nonces, block, budgets, rules, sponsoring>>

WithdrawEth(c, amount) ==
  /\ c = governor /\ ~ Sponsoring
  /\ amount <= reserve
  /\ reserve' = reserve - amount
  /\ UNCHANGED <<runtime, reimbursable, surplus, nonces, block, budgets, rules, sponsoring>>

WithdrawReimbursable(c, to, amount) ==
  /\ c = governor
  /\ amount <= reimbursable
  /\ reimbursable' = reimbursable - amount
  /\ Move(Forwarder, to, amount)
  /\ UNCHANGED <<owner, treasury, policy, registry, emergency, money, execution,
                 reserve, surplus, nonces, block, budgets, rules, sponsoring>>

\* Whatever the paymaster holds over its two accounts.
SweepUnaccounted(c, to) ==
  /\ c = governor
  /\ bal[Forwarder] > reimbursable + surplus
  /\ Move(Forwarder, to, bal[Forwarder] - reimbursable - surplus)
  /\ UNCHANGED <<owner, treasury, policy, registry, emergency, money, execution, paymaster>>

InitializeMigrationAccounting(c, first, second) ==
  /\ c = governor
  /\ ~ migrated /\ reimbursable = 0 /\ surplus = 0
  /\ first + second <= bal[Forwarder]
  /\ migrated' = TRUE
  /\ reimbursable' = first /\ surplus' = second
  /\ UNCHANGED <<runtime, reserve, nonces, block, budgets, limits, governor, sponsoring>>

\* setMargin, setLimits, setDailyChainEthLimit and setRefillPolicy.
SetLimits(c, new) ==
  /\ c = governor
  /\ limits' = new
  /\ UNCHANGED <<runtime, accounts, nonces, block, budgets, governor, migrated, sponsoring>>

TransferGovernor(c, next) ==
  /\ c = governor
  /\ governor' = next
  /\ UNCHANGED <<runtime, accounts, nonces, block, budgets, limits, migrated, sponsoring>>

\* A block is mined, between transactions.
NextBlock ==
  /\ ~ Sponsoring /\ executing = Idle
  /\ block < MaxBlock
  /\ block' = block + 1
  /\ UNCHANGED <<runtime, accounts, nonces, budgets, rules, sponsoring>>

-----------------------------------------------------------------------------
SponsorCall(c) ==
  /\ c \in Relayer
  /\ \E user \in User, t \in Chain, app \in App, rate \in Rate, maxToll \in MaxFee,
        maxGas \in MaxGas, worst \in Cost, price \in Price, spends \in Auth, nfts \in SUBSET Chain :
       Sponsor(c, user, t, app, rate, maxToll, maxGas, worst, price, spends, nfts)

ReserveCall ==
  \/ \E amount \in EthIn : FundEth(amount)
  \/ \E amount \in 1..reimbursable, ethOut \in EthIn, price \in Price : Refill(amount, ethOut, price)
  \/ BurnSurplus

GovernorCall(c) ==
  \/ \E amount \in EthIn : WithdrawEth(c, amount)
  \/ \E to \in User :
       \/ \E amount \in 1..reimbursable : WithdrawReimbursable(c, to, amount)
       \/ SweepUnaccounted(c, to)
       \/ TransferGovernor(c, to)
  \/ \E first \in Amount, second \in Amount : InitializeMigrationAccounting(c, first, second)
  \/ \E new \in LimitsChoice : SetLimits(c, new)

\* Within a sponsored call others act only while the application has control.
Interleaved == Sponsoring => executing # Idle

PNext ==
  \/ \E c \in Caller \ {Forwarder} :
       \/ SponsorCall(c)
       \/ Interleaved /\ (GovernorCall(c) \/ (Call(c) /\ UNCHANGED paymaster))
  \/ Interleaved /\ ReserveCall
  \/ RunCall
  \/ Return /\ UNCHANGED paymaster
  \/ \E spent \in Cost, price \in Price : Finish(spent, price)
  \/ NextBlock

PSpec == PInit /\ [][PNext]_pvars
=============================================================================
