------------------------- MODULE SponsorshipProofs --------------------------
(***************************************************************************)
(* What the paymaster promises, for any number of users, relayers, chains, *)
(* prices and limits: it holds both its accounts and the prefund of the    *)
(* open call, it bills a signed request at most once, and pays at most a   *)
(* quarter of the reserve for one chain in a day.                          *)
(***************************************************************************)
EXTENDS Sponsorship, AppRuntimeProofs

-----------------------------------------------------------------------------
(* The margin the paymaster adds and takes off.                            *)

(* The margin is added to what ETH costs ... *)
LEMMA MarginAdds ==
  ASSUME NEW v \in Nat, NEW m \in Nat
  PROVE  /\ (v * (10000 + m)) \div 10000 \in Nat
         /\ v <= (v * (10000 + m)) \div 10000
<1>1. v * (10000 + m) \in Nat /\ v * (10000 + m) >= v * 10000
  OBVIOUS
<1>. QED BY <1>1

(* ... and taken off the ceiling the user signed. *)
LEMMA MarginTakesOff ==
  ASSUME NEW v \in Nat, NEW m \in Nat
  PROVE  /\ (v * 10000) \div (10000 + m) \in Nat
         /\ (v * 10000) \div (10000 + m) <= v
<1>1. PICK q \in Nat : q = (v * 10000) \div (10000 + m)
  BY QuotientNat
<1>2. (10000 + m) * q <= v * 10000
  BY <1>1
<1>3. m * q \in Nat
  OBVIOUS
<1>4. 10000 * q <= v * 10000
  BY <1>2, <1>3
<1>. QED BY <1>1, <1>4

-----------------------------------------------------------------------------
(* The inductive invariant. *)
Sponsorships ==
  [user : User, relayer : Relayer, chain : Chain, app : App, rate : Rate, toll : Nat,
   maxToll : MaxFee, maxGas : MaxGas, worst : Cost, spends : Auth, nfts : SUBSET Chain,
   ran : BOOLEAN]

BooksTypeOK ==
  /\ reserve \in Nat /\ reimbursable \in Nat /\ surplus \in Nat
  /\ nonces \in [User -> Nat]
  /\ block \in Nat /\ lastSpend \in Nat /\ spentThisBlock \in Nat
  /\ chainSpent \in [Chain -> [0..Day(MaxBlock) -> Nat]]
  /\ limits \in Limits /\ governor \in User /\ migrated \in BOOLEAN

(* Where a sponsored call is: the toll pinned at validation is within the   *)
(* prefund and, until the runtime has taken it, the toll in force; and no   *)
(* open execution spends from the paymaster.                                *)
CallInv ==
  /\ sponsoring \in Sponsorships \cup {NoSponsorship}
  /\ Sponsoring =>
       /\ sponsoring.toll <= sponsoring.maxToll
       /\ ~ sponsoring.ran =>
            executing = Idle /\ sponsoring.toll = Toll(sponsoring.chain, sponsoring.rate)
  /\ executing.payer \in User \cup {None}

Backed == disturbed \/ bal[Forwarder] >= reimbursable + surplus + Custody

PayInv == RuntimeInv /\ BooksTypeOK /\ CallInv /\ Backed

(* The types the arithmetic needs. *)
LEMMA PayTypes ==
  ASSUME PayInv
  PROVE  /\ bal \in [Account -> Nat] /\ Forwarder \in Account /\ User \subseteq Account
         /\ Runtime \in Account /\ Treasury \in Account
         /\ Forwarder \notin User /\ Runtime \notin User /\ Treasury \notin User
         /\ Forwarder # Runtime /\ Forwarder # Treasury /\ None \notin User /\ None # Forwarder
         /\ Price \subseteq Nat /\ Cost \subseteq Nat /\ MaxGas \subseteq Nat /\ MaxFee \subseteq Nat
         /\ Custody \in Nat
         /\ Sponsoring =>
              /\ sponsoring \in Sponsorships
              /\ TollPaid \in Nat /\ TollPaid <= sponsoring.maxToll
              /\ sponsoring.maxToll \in Nat /\ sponsoring.maxGas \in Nat /\ sponsoring.worst \in Nat
<1>1. /\ bal \in [Account -> Nat] /\ Forwarder \in Account /\ User \subseteq Account
      /\ Runtime \in Account /\ Treasury \in Account
      /\ Forwarder \notin User /\ Runtime \notin User /\ Treasury \notin User
      /\ Forwarder # Runtime /\ Forwarder # Treasury /\ None \notin User /\ None # Forwarder
  BY AccountAssumption DEF PayInv, RuntimeInv, TypeOK, AssetsTypeOK, Account
<1>2. Price \subseteq Nat /\ Cost \subseteq Nat /\ MaxGas \subseteq Nat /\ MaxFee \subseteq Nat
  BY PaymasterAssumption
<1>3. ASSUME Sponsoring
      PROVE  /\ sponsoring \in Sponsorships
             /\ TollPaid \in Nat /\ TollPaid <= sponsoring.maxToll
             /\ sponsoring.maxToll \in Nat /\ sponsoring.maxGas \in Nat /\ sponsoring.worst \in Nat
  <2>1. sponsoring \in Sponsorships /\ sponsoring.toll <= sponsoring.maxToll
    BY <1>3 DEF PayInv, CallInv, Sponsoring
  <2>2. /\ sponsoring.toll \in Nat /\ sponsoring.maxToll \in Nat /\ sponsoring.maxGas \in Nat
        /\ sponsoring.worst \in Nat
    BY <1>2, <2>1 DEF Sponsorships
  <2>. QED BY <2>1, <2>2 DEF TollPaid
<1>4. Custody \in Nat
  BY <1>3 DEF Custody
<1>. QED BY <1>1, <1>2, <1>3, <1>4

(* Being disturbed is not forgotten. *)
LEMMA DisturbedStays == Observe => (disturbed => disturbed')
BY DEF Observe

(* VOID that moves between wallets and the paymaster does not touch what    *)
(* the runtime owes.                                                        *)
LEMMA PaymentKeepsRuntime ==
  ASSUME RuntimeInv, bal' \in [Account -> Nat],
         bal'[Runtime] >= bal[Runtime], bal'[Treasury] >= bal[Treasury],
         UNCHANGED <<owner, treasury, policy, registry, emergency, money, execution>>
  PROVE  RuntimeInv'
<1>1. TreasuryInv
  BY RuntimeInvParts
<1>2. TreasurySolvent'
  BY <1>1, StaysCovered DEF treasury
<1>3. TreasuryInv'
  BY <1>1, <1>2 DEF TreasuryInv, AssetsTypeOK, TreasuryTypeOK, treasury
<1>. QED BY <1>3, OutsideKeepsInv

LEMMA QuietRuntime ==
  ASSUME RuntimeInv, UNCHANGED runtime
  PROVE  RuntimeInv'
<1>1. /\ bal' \in [Account -> Nat] /\ bal'[Runtime] >= bal[Runtime]
      /\ bal'[Treasury] >= bal[Treasury]
  BY DEF RuntimeInv, TypeOK, AssetsTypeOK, Account, runtime, assets
<1>. QED BY <1>1, PaymentKeepsRuntime DEF runtime, assets

-----------------------------------------------------------------------------
(* A call of anybody but the paymaster opens no execution ... *)
LEMMA CallKeepsExecuting ==
  ASSUME NEW c \in Caller \ {Forwarder}, Call(c)
  PROVE  executing' = executing
<1>1. CASE PolicyCall(c) \/ RegistryCall(c) \/ EmergencyCall(c)
  BY <1>1
     DEF PolicyCall, WireOnce, RegisterDao, SetTollCeiling, Activate, SetFee, SetActive,
         SetPermissionlessDeploy, RegistryCall, RegisterApp, Publish, Register, UnregisterApp,
         EmergencyCall, EmergencyPauseProtocol, ResumeProtocol, EmergencyPauseApp, ResumeApp,
         execution
<1>2. CASE ExecutionCall(c)
  BY <1>2, PaymasterAssumption
     DEF ExecutionCall, ExecuteDirect, ExecuteFor, ExecuteForPrepaid, SpendFrom, SpendNftFrom
<1>3. CASE RevenueCall(c)
  BY <1>3 DEF RevenueCall, Flush, SweepProtocol, ClaimOwed, execution
<1>. QED BY <1>1, <1>2, <1>3 DEF Call, execution

(* ... and takes nothing from the paymaster. *)
LEMMA CallSparesPaymaster ==
  ASSUME PayInv, NEW c \in Caller \ {Forwarder}, Call(c)
  PROVE  bal'[Forwarder] \in Nat /\ bal'[Forwarder] >= bal[Forwarder]
<1>1. TypeOK /\ bal'[Forwarder] \in Nat /\ bal[Forwarder] \in Nat
  <2>1. RuntimeInv'
    BY CallKeepsInv DEF PayInv
  <2>. QED BY <2>1 DEF PayInv, RuntimeInv, TypeOK, AssetsTypeOK, Account
<1>2. CASE \E token \in Token, to \in Account, amount \in Amount : SpendFrom(c, token, to, amount)
  <2>1. executing.payer # Forwarder
    BY PayTypes DEF PayInv, CallInv
  <2>2. PICK token \in Token, to \in Account, amount \in Amount : SpendFrom(c, token, to, amount)
    BY <1>2
  <2>3. ~ (bal'[Forwarder] < bal[Forwarder])
    BY <1>1, <2>1, <2>2, SpendFromTakesBudget
  <2>. QED BY <1>1, <2>3
<1>3. CASE ~ \E token \in Token, to \in Account, amount \in Amount : SpendFrom(c, token, to, amount)
  BY <1>1, <1>3, CallTakesFromSender
<1>. QED BY <1>2, <1>3

LEMMA CallKeepsPayInv ==
  ASSUME PayInv, NEW c \in Caller \ {Forwarder}, Interleaved, Call(c), UNCHANGED paymaster, Observe
  PROVE  PayInv'
<1>1. RuntimeInv'
  BY CallKeepsInv DEF PayInv
<1>2. BooksTypeOK'
  BY DEF PayInv, BooksTypeOK, paymaster, accounts, budgets, rules
<1>3. CallInv'
  <2>1. executing' = executing /\ sponsoring' = sponsoring
    BY CallKeepsExecuting DEF paymaster
  <2>2. Sponsoring => sponsoring.ran
    BY DEF PayInv, CallInv, Interleaved
  <2>. QED BY <2>1, <2>2 DEF PayInv, CallInv, Sponsoring
<1>4. Backed'
  <2>1. /\ reimbursable' = reimbursable /\ surplus' = surplus /\ Custody' = Custody
    BY DEF paymaster, accounts, Custody, Sponsoring, TollPaid
  <2>2. /\ reimbursable \in Nat /\ surplus \in Nat /\ Custody \in Nat /\ bal[Forwarder] \in Nat
    BY PayTypes DEF PayInv, BooksTypeOK
  <2>. QED BY <2>1, <2>2, CallSparesPaymaster, DisturbedStays DEF PayInv, Backed
<1>. QED BY <1>1, <1>2, <1>3, <1>4 DEF PayInv

LEMMA ReturnKeepsPayInv ==
  ASSUME PayInv, Return, UNCHANGED paymaster, Observe
  PROVE  PayInv'
<1>1. RuntimeInv'
  BY ReturnKeepsInv DEF PayInv
<1>2. BooksTypeOK'
  BY DEF PayInv, BooksTypeOK, paymaster, accounts, budgets, rules
<1>3. CallInv'
  <2>1. sponsoring' = sponsoring /\ executing # Idle /\ executing' = Idle
    BY DEF paymaster, Return
  <2>. QED BY <2>1 DEF PayInv, CallInv, Sponsoring, Idle
<1>4. Backed'
  <2>1. /\ reimbursable' = reimbursable /\ surplus' = surplus /\ Custody' = Custody /\ bal' = bal
    BY DEF paymaster, accounts, Custody, Sponsoring, TollPaid, Return, assets
  <2>. QED BY <2>1, DisturbedStays DEF PayInv, Backed
<1>. QED BY <1>1, <1>2, <1>3, <1>4 DEF PayInv

-----------------------------------------------------------------------------
(* The block's budget and the chain's keep their types. *)
LEMMA BudgetsType ==
  ASSUME BooksTypeOK, NEW t \in Chain, NEW amount \in Nat, ChargeBlock(amount), ChargeChain(t, amount)
  PROVE  /\ lastSpend' \in Nat /\ spentThisBlock' \in Nat
         /\ chainSpent' \in [Chain -> [0..Day(MaxBlock) -> Nat]]
<1>1. lastSpend' \in Nat /\ spentThisBlock' \in Nat
  <2>1. (IF lastSpend = block THEN spentThisBlock ELSE 0) + amount \in Nat
    BY DEF BooksTypeOK
  <2>. QED BY <2>1 DEF BooksTypeOK, ChargeBlock
<1>2. PICK day : day = Day(block)
  OBVIOUS
<1>3. chainSpent' = [chainSpent EXCEPT ![t] = [chainSpent[t] EXCEPT ![day] = chainSpent[t][day] + amount]]
  BY <1>2 DEF ChargeChain
<1>4. [chainSpent[t] EXCEPT ![day] = chainSpent[t][day] + amount] \in [0..Day(MaxBlock) -> Nat]
  <2>1. chainSpent[t] \in [0..Day(MaxBlock) -> Nat]
    BY DEF BooksTypeOK
  <2>2. day \in 0..Day(MaxBlock) => chainSpent[t][day] + amount \in Nat
    <3>1. day \in 0..Day(MaxBlock) => chainSpent[t][day] \in Nat
      BY ONLY <2>1
    <3>. QED BY <3>1
  <2>. QED BY ONLY <2>1, <2>2
<1>. QED BY <1>1, <1>3, <1>4 DEF BooksTypeOK

LEMMA SponsorKeepsPayInv ==
  ASSUME PayInv, Observe, NEW relayer \in Relayer, NEW user \in User, NEW t \in Chain, NEW app \in App,
         NEW rate \in Rate, NEW maxToll \in MaxFee, NEW maxGas \in MaxGas, NEW worst \in Cost,
         NEW price \in Price, NEW spends \in Auth, NEW nfts \in SUBSET Chain,
         Sponsor(relayer, user, t, app, rate, maxToll, maxGas, worst, price, spends, nfts)
  PROVE  PayInv'
<1>1. /\ maxToll \in Nat /\ maxGas \in Nat /\ worst \in Nat /\ maxToll + maxGas \in Nat
      /\ user \in Account /\ user # Forwarder /\ user # Runtime /\ user # Treasury
  BY PayTypes
<1>2. Move(user, Forwarder, maxToll + maxGas)
  BY DEF Sponsor
<1>3. /\ bal' \in [Account -> Nat]
      /\ bal'[Runtime] = bal[Runtime] /\ bal'[Treasury] = bal[Treasury]
      /\ bal'[Forwarder] = bal[Forwarder] + (maxToll + maxGas)
      /\ bal[Runtime] \in Nat /\ bal[Treasury] \in Nat /\ bal[Forwarder] \in Nat
  BY <1>1, <1>2, PayTypes, MoveEffect
<1>4. RuntimeInv'
  <2>1. bal'[Runtime] >= bal[Runtime] /\ bal'[Treasury] >= bal[Treasury]
    BY <1>3
  <2>. QED BY <1>3, <2>1, PaymentKeepsRuntime DEF PayInv, Sponsor
<1>5. BooksTypeOK'
  <2>1. nonces' \in [User -> Nat]
    BY DEF Sponsor, PayInv, BooksTypeOK
  <2>2. /\ lastSpend' \in Nat /\ spentThisBlock' \in Nat
        /\ chainSpent' \in [Chain -> [0..Day(MaxBlock) -> Nat]]
    BY <1>1, BudgetsType DEF Sponsor, PayInv
  <2>. QED BY <2>1, <2>2 DEF Sponsor, PayInv, BooksTypeOK, accounts, rules
<1>6. Toll(t, rate) \in Nat /\ Toll(t, rate) <= maxToll
  BY TollNat DEF PayInv, RuntimeInv, Sponsor
<1>7. /\ sponsoring' = [user |-> user, relayer |-> relayer, chain |-> t, app |-> app, rate |-> rate,
                        toll |-> Toll(t, rate), maxToll |-> maxToll, maxGas |-> maxGas,
                        worst |-> worst, spends |-> spends, nfts |-> nfts, ran |-> FALSE]
      /\ executing' = executing /\ executing = Idle /\ feeUsd' = feeUsd
  BY DEF Sponsor, policy, execution
<1>8. CallInv'
  <2>1. sponsoring' \in Sponsorships
    BY <1>6, <1>7 DEF Sponsorships
  <2>2. Toll(sponsoring.chain, sponsoring.rate)' = Toll(t, rate)
    BY <1>7 DEF Toll
  <2>. QED BY <1>6, <1>7, <2>1, <2>2 DEF CallInv, PayInv
<1>9. Backed'
  <2>1. Custody' = maxToll + maxGas
    <3>1. Sponsoring'
      <4>1. sponsoring'.user = user /\ NoSponsorship.user = None
        BY <1>7 DEF NoSponsorship
      <4>. QED BY <4>1, PayTypes DEF Sponsoring
    <3>2. TollPaid' = 0
      BY <1>7 DEF TollPaid
    <3>. QED BY <1>1, <1>7, <3>1, <3>2 DEF Custody
  <2>2. Custody = 0 /\ reimbursable' = reimbursable /\ surplus' = surplus
    BY DEF Custody, Sponsor, accounts
  <2>3. reimbursable \in Nat /\ surplus \in Nat
    BY DEF PayInv, BooksTypeOK
  <2>. QED BY <1>1, <1>3, <2>1, <2>2, <2>3, DisturbedStays DEF PayInv, Backed
<1>. QED BY <1>4, <1>5, <1>8, <1>9 DEF PayInv

(* The runtime takes the toll that was validated. *)
LEMMA RunCallKeepsPayInv ==
  ASSUME PayInv, RunCall, Observe
  PROVE  PayInv'
<1> DEFINE u == sponsoring.user
           t == sponsoring.chain
           toll == sponsoring.toll
<1>1. /\ Sponsoring /\ ~ sponsoring.ran /\ sponsoring \in Sponsorships
      /\ sponsoring.toll \in Nat /\ sponsoring.toll <= sponsoring.maxToll
      /\ toll = Toll(t, sponsoring.rate)
      /\ sponsoring' = [sponsoring EXCEPT !.ran = TRUE]
      /\ UNCHANGED <<accounts, nonces, block, budgets, rules>>
  BY PayTypes DEF RunCall, PayInv, CallInv, Sponsorships
<1>2. Execute(Forwarder, u, u, t, sponsoring.app, sponsoring.rate, sponsoring.maxToll,
              sponsoring.spends, sponsoring.nfts)
  BY DEF RunCall, ExecuteFor
<1>3. /\ u \in User /\ t \in Chain /\ sponsoring.app \in App /\ sponsoring.rate \in Rate
      /\ sponsoring.maxToll \in MaxFee /\ sponsoring.spends \in Auth
      /\ sponsoring.nfts \in SUBSET Chain
  BY <1>1 DEF Sponsorships
<1>4. RuntimeInv'
  BY <1>2, <1>3, ExecuteKeepsInv DEF PayInv
<1>5. BooksTypeOK'
  BY <1>1 DEF PayInv, BooksTypeOK, accounts, budgets, rules
<1>6. sponsoring' \in Sponsorships /\ sponsoring'.ran /\ sponsoring'.toll = toll
      /\ sponsoring'.maxToll = sponsoring.maxToll /\ sponsoring'.maxGas = sponsoring.maxGas
      /\ sponsoring'.user = u
  BY <1>1 DEF Sponsorships
<1>7. CallInv'
  <2>1. executing'.payer = u
    BY <1>2 DEF Execute
  <2>. QED BY <1>1, <1>3, <1>6, <2>1 DEF CallInv
<1>8. Backed'
  <2>1. bal'[Forwarder] \in Nat /\ bal'[Forwarder] = bal[Forwarder] - toll
    <3>1. CollectToll(Forwarder, t, toll)
      BY <1>1, <1>2 DEF Execute
    <3>2. (bal' = bal /\ toll = 0) \/ Move(Forwarder, Runtime, toll)
      BY <3>1 DEF CollectToll
    <3>. QED BY <1>1, <3>2, PayTypes, MoveEffect
  <2>2. Custody = sponsoring.maxToll + sponsoring.maxGas
    BY <1>1, PayTypes DEF Custody, TollPaid
  <2>3. Custody' = sponsoring.maxToll + sponsoring.maxGas - toll
    <3>1. Sponsoring'
      <4>1. NoSponsorship.user = None
        BY DEF NoSponsorship
      <4>. QED BY <1>3, <1>6, <4>1, PayTypes DEF Sponsoring
    <3>2. TollPaid' = toll
      BY <1>6 DEF TollPaid
    <3>. QED BY <1>6, <3>1, <3>2 DEF Custody
  <2>4. reimbursable' = reimbursable /\ surplus' = surplus
        /\ reimbursable \in Nat /\ surplus \in Nat /\ bal[Forwarder] \in Nat
        /\ sponsoring.maxToll \in Nat /\ sponsoring.maxGas \in Nat
    BY <1>1, PayTypes DEF PayInv, BooksTypeOK, accounts
  <2>. QED BY <1>1, <2>1, <2>2, <2>3, <2>4, DisturbedStays DEF PayInv, Backed
<1>. QED BY <1>4, <1>5, <1>7, <1>8 DEF PayInv

(* What is charged: never more than was signed, and the replacement is a    *)
(* part of it.                                                              *)
LEMMA ChargeBounds ==
  ASSUME PayInv, Sponsoring, NEW spent \in Cost, NEW price \in Price
  PROVE  /\ Charge(spent, price) \in Nat /\ ChargeForGas(spent, price) \in Nat
         /\ ChargeForGas(spent, price) <= Charge(spent, price)
         /\ Charge(spent, price) <= sponsoring.maxGas
<1>. sponsoring.maxGas \in Nat /\ spent \in Nat /\ price \in Nat /\ EthUnit \in Nat \ {0}
  BY PayTypes, PaymasterAssumption
<1>a. PICK ceiling0 \in Nat : ceiling0 = sponsoring.maxGas
  OBVIOUS
<1>b. PICK v \in Nat : v = GasVoid(spent, price)
  BY ProductNat, QuotientNat DEF GasVoid
<1>c. PICK m \in 0..3000 : m = limits.margin
  <2>1. limits \in Limits
    BY DEF PayInv, BooksTypeOK
  <2>2. limits.margin \in 0..3000
    BY ONLY <2>1 DEF Limits
  <2>. QED BY <2>2
<1>d. m \in Nat
  OBVIOUS
<1>2. PICK gross \in Nat : gross = (v * (10000 + m)) \div 10000 /\ v <= gross
  <2>1. /\ (v * (10000 + m)) \div 10000 \in Nat
        /\ v <= (v * (10000 + m)) \div 10000
    BY <1>d, MarginAdds
  <2>. QED BY <2>1
<1>3. PICK net \in Nat : net = (ceiling0 * 10000) \div (10000 + m) /\ net <= ceiling0
  <2>1. /\ (ceiling0 * 10000) \div (10000 + m) \in Nat
        /\ (ceiling0 * 10000) \div (10000 + m) <= ceiling0
    BY <1>d, MarginTakesOff
  <2>. QED BY <2>1
<1>4. /\ Charge(spent, price) = IF gross > ceiling0 THEN ceiling0 ELSE gross
      /\ ChargeForGas(spent, price) = IF gross > ceiling0 THEN net ELSE v
  BY <1>a, <1>b, <1>c, <1>2, <1>3 DEF Charge, ChargeForGas, ToVoid
<1>. QED BY <1>a, <1>2, <1>3, <1>4

(* The settlement: the charge moves into the accounts, the rest of the      *)
(* prefund back to the user.                                                *)
LEMMA FinishKeepsPayInv ==
  ASSUME PayInv, Observe, NEW spent \in Cost, NEW price \in Price, Finish(spent, price)
  PROVE  PayInv'
<1>1. PICK charge \in Nat, forGas \in Nat :
        /\ charge = Charge(spent, price) /\ forGas = ChargeForGas(spent, price)
        /\ forGas <= charge /\ charge <= sponsoring.maxGas
  BY ChargeBounds DEF Finish
<1>2. /\ Sponsoring /\ sponsoring \in Sponsorships
      /\ TollPaid \in Nat /\ TollPaid <= sponsoring.maxToll
      /\ sponsoring.maxToll \in Nat /\ sponsoring.maxGas \in Nat /\ sponsoring.worst \in Nat
      /\ Custody = sponsoring.maxToll + sponsoring.maxGas - TollPaid
  BY PayTypes DEF Finish, Custody
<1>3. PICK back \in Nat : back = Custody - charge
  BY <1>1, <1>2
<1>4. /\ Move(Forwarder, sponsoring.user, back)
      /\ reimbursable' = reimbursable + forGas /\ surplus' = surplus + charge - forGas
      /\ sponsoring' = NoSponsorship
  BY <1>1, <1>2, <1>3 DEF Finish
<1>5. sponsoring.user \in User /\ sponsoring.user \in Account
  BY <1>2, PayTypes DEF Sponsorships
<1>6. /\ bal' \in [Account -> Nat]
      /\ bal'[Runtime] = bal[Runtime] /\ bal'[Treasury] = bal[Treasury]
      /\ bal'[Forwarder] = bal[Forwarder] - back
      /\ bal[Runtime] \in Nat /\ bal[Treasury] \in Nat /\ bal[Forwarder] \in Nat
  BY <1>4, <1>5, PayTypes, MoveEffect
<1>7. RuntimeInv'
  <2>1. bal'[Runtime] >= bal[Runtime] /\ bal'[Treasury] >= bal[Treasury]
    BY <1>6
  <2>. QED BY <1>6, <2>1, PaymentKeepsRuntime DEF PayInv, Finish
<1>8. /\ reimbursable \in Nat /\ surplus \in Nat /\ reserve \in Nat
      /\ reimbursable' \in Nat /\ surplus' \in Nat /\ reserve' \in Nat
  <2>1. reimbursable \in Nat /\ surplus \in Nat /\ reserve \in Nat
    BY DEF PayInv, BooksTypeOK
  <2>2. spent \in Nat
    BY PaymasterAssumption
  <2>3. \E paid \in {spent, sponsoring.worst} : paid <= reserve /\ reserve' = reserve - paid
    BY DEF Finish
  <2>. QED BY <1>1, <1>2, <1>4, <2>1, <2>2, <2>3
<1>9. BooksTypeOK'
  BY <1>8 DEF Finish, PayInv, BooksTypeOK, budgets, rules
<1>10. CallInv'
  <2>1. executing' = executing
    BY DEF Finish, execution
  <2>. QED BY <1>4, <2>1 DEF PayInv, CallInv, Sponsoring
<1>11. Backed'
  <2>1. Custody' = 0
    BY <1>4 DEF Custody, Sponsoring
  <2>. QED BY <1>1, <1>2, <1>3, <1>4, <1>6, <1>8, <2>1, DisturbedStays DEF PayInv, Backed
<1>. QED BY <1>7, <1>9, <1>10, <1>11 DEF PayInv

-----------------------------------------------------------------------------
(* What is not a sponsored call leaves it where it is. *)
LEMMA AsideKeepsPayInv ==
  ASSUME PayInv, Observe, bal' \in [Account -> Nat],
         bal'[Runtime] >= bal[Runtime], bal'[Treasury] >= bal[Treasury],
         UNCHANGED <<owner, treasury, policy, registry, emergency, money, execution, sponsoring>>,
         BooksTypeOK',
         \/ disturbed'
         \/ bal'[Forwarder] + reimbursable + surplus >= bal[Forwarder] + reimbursable' + surplus'
         \/ ~ Sponsoring /\ bal'[Forwarder] >= reimbursable' + surplus'
  PROVE  PayInv'
<1>1. RuntimeInv'
  BY PaymentKeepsRuntime DEF PayInv
<1>2. CallInv'
  <2>1. executing' = executing /\ feeUsd' = feeUsd /\ sponsoring' = sponsoring
    BY DEF execution, policy
  <2>. QED BY <2>1 DEF PayInv, CallInv, Sponsoring, Toll
<1>3. Backed'
  <2>1. Custody' = Custody
    BY DEF Custody, Sponsoring, TollPaid
  <2>2. /\ bal[Forwarder] \in Nat /\ bal'[Forwarder] \in Nat /\ Custody \in Nat
        /\ reimbursable \in Nat /\ surplus \in Nat /\ reimbursable' \in Nat /\ surplus' \in Nat
    BY PayTypes DEF PayInv, BooksTypeOK
  <2>3. ~ Sponsoring => Custody = 0
    BY DEF Custody
  <2>. QED BY <2>1, <2>2, <2>3, DisturbedStays DEF PayInv, Backed
<1>. QED BY <1>1, <1>2, <1>3 DEF PayInv

(* An account pays out of its own. *)
LEMMA PayoutKeepsPayInv ==
  ASSUME PayInv, Observe, NEW to \in User, NEW amount \in Nat, Move(Forwarder, to, amount),
         UNCHANGED <<owner, treasury, policy, registry, emergency, money, execution, sponsoring>>,
         BooksTypeOK',
         \/ disturbed'
         \/ amount + reimbursable' + surplus' <= reimbursable + surplus
         \/ ~ Sponsoring /\ bal[Forwarder] - amount >= reimbursable' + surplus'
  PROVE  PayInv'
<1>1. /\ bal' \in [Account -> Nat]
      /\ bal'[Runtime] = bal[Runtime] /\ bal'[Treasury] = bal[Treasury]
      /\ bal'[Forwarder] = bal[Forwarder] - amount /\ bal'[Forwarder] \in Nat
      /\ bal[Runtime] \in Nat /\ bal[Treasury] \in Nat /\ bal[Forwarder] \in Nat
  BY PayTypes, MoveEffect
<1>2. /\ reimbursable \in Nat /\ surplus \in Nat /\ reimbursable' \in Nat /\ surplus' \in Nat
  BY DEF PayInv, BooksTypeOK
<1>3. bal'[Runtime] >= bal[Runtime] /\ bal'[Treasury] >= bal[Treasury]
  BY <1>1
<1>4. \/ disturbed'
      \/ bal'[Forwarder] + reimbursable + surplus >= bal[Forwarder] + reimbursable' + surplus'
      \/ ~ Sponsoring /\ bal'[Forwarder] >= reimbursable' + surplus'
  <2>1. CASE disturbed'
    BY <2>1
  <2>2. CASE amount + reimbursable' + surplus' <= reimbursable + surplus
    <3>1. PICK before \in Nat, after \in Nat, r1 \in Nat, s1 \in Nat :
            /\ before = bal[Forwarder] /\ after = bal'[Forwarder]
            /\ r1 = reimbursable' /\ s1 = surplus'
      BY <1>1, <1>2
    <3>2. before = after + amount
      BY <1>1, <3>1
    <3>3. after + reimbursable + surplus >= before + r1 + s1
      BY <1>2, <2>2, <3>1, <3>2
    <3>. QED BY <3>1, <3>3
  <2>3. CASE ~ Sponsoring /\ bal[Forwarder] - amount >= reimbursable' + surplus'
    BY <1>1, <2>3
  <2>. QED BY <2>1, <2>2, <2>3
<1>. QED BY <1>1, <1>3, <1>4, AsideKeepsPayInv

LEMMA ReserveKeepsPayInv ==
  ASSUME PayInv, Observe, ReserveCall
  PROVE  PayInv'
<1>0. /\ reserve \in Nat /\ reimbursable \in Nat /\ surplus \in Nat /\ EthIn \subseteq Nat
      /\ bal \in [Account -> Nat] /\ bal[Forwarder] \in Nat
      /\ bal[Runtime] \in Nat /\ bal[Treasury] \in Nat
  BY PayTypes, PaymasterAssumption DEF PayInv, BooksTypeOK
<1>1. ASSUME NEW amount \in EthIn, FundEth(amount)
      PROVE  PayInv'
  <2>1. reserve' \in Nat /\ UNCHANGED <<runtime, reimbursable, surplus, nonces, block, budgets,
                                        rules, sponsoring>>
    BY <1>0, <1>1 DEF FundEth
  <2>2. BooksTypeOK'
    BY <2>1 DEF PayInv, BooksTypeOK, budgets, rules
  <2>3. UNCHANGED <<owner, treasury, policy, registry, emergency, money, execution, sponsoring>>
        /\ bal' = bal
    BY <2>1 DEF runtime, assets
  <2>4. /\ bal' \in [Account -> Nat]
        /\ bal'[Runtime] >= bal[Runtime] /\ bal'[Treasury] >= bal[Treasury]
        /\ bal'[Forwarder] + reimbursable + surplus >= bal[Forwarder] + reimbursable' + surplus'
    BY <1>0, <2>1, <2>3
  <2>. QED BY <2>2, <2>3, <2>4, AsideKeepsPayInv
<1>2. ASSUME NEW amount \in 1..reimbursable, NEW ethOut \in EthIn, NEW price \in Price,
             Refill(amount, ethOut, price)
      PROVE  PayInv'
  <2>1. /\ Move(Forwarder, Pool, amount) /\ Pool \in User /\ amount \in Nat
        /\ reimbursable' = reimbursable - amount /\ reimbursable' \in Nat
        /\ reserve' \in Nat /\ surplus' = surplus
    BY <1>0, <1>2, PaymasterAssumption DEF Refill
  <2>2. BooksTypeOK'
    BY <1>2, <2>1 DEF Refill, PayInv, BooksTypeOK, budgets, rules
  <2>3. amount + reimbursable' + surplus' <= reimbursable + surplus
    BY <1>0, <2>1
  <2>4. UNCHANGED <<owner, treasury, policy, registry, emergency, money, execution, sponsoring>>
    BY <1>2 DEF Refill
  <2>. QED BY <2>1, <2>2, <2>3, <2>4, PayoutKeepsPayInv
<1>3. ASSUME BurnSurplus
      PROVE  PayInv'
  <2>1. PICK half \in Nat : half = surplus \div 2 /\ half <= surplus
    BY <1>0
  <2>2. /\ surplus <= bal[Forwarder] /\ surplus' = 0 /\ ~ Sponsoring
        /\ bal' = [[[bal EXCEPT ![Forwarder] = @ - surplus]
                         EXCEPT ![Burn] = @ + half]
                         EXCEPT ![Runway] = @ + surplus - half]
    BY <1>3, <2>1 DEF BurnSurplus
  <2>3. /\ bal' \in [Account -> Nat] /\ bal'[Forwarder] = bal[Forwarder] - surplus
        /\ bal'[Runtime] = bal[Runtime] /\ bal'[Treasury] = bal[Treasury]
    <3>1. /\ Burn \in Account /\ Runway \in Account /\ Forwarder \in Account
          /\ Burn \notin {Runtime, Treasury, Forwarder} /\ Runway \notin {Runtime, Treasury, Forwarder}
          /\ Runtime \in Account /\ Treasury \in Account
          /\ Runtime # Forwarder /\ Treasury # Forwarder
      BY PayTypes, PaymasterAssumption
    <3>. QED BY <1>0, <2>1, <2>2, <3>1
  <2>4. BooksTypeOK'
    BY <1>3, <2>2 DEF BurnSurplus, PayInv, BooksTypeOK, budgets, rules
  <2>5. reimbursable' = reimbursable
    BY <1>3 DEF BurnSurplus
  <2>6. bal'[Forwarder] + reimbursable + surplus >= bal[Forwarder] + reimbursable' + surplus'
    BY <1>0, <2>2, <2>3, <2>5
  <2>7. bal'[Runtime] >= bal[Runtime] /\ bal'[Treasury] >= bal[Treasury]
    BY <1>0, <2>3
  <2>8. UNCHANGED <<owner, treasury, policy, registry, emergency, money, execution, sponsoring>>
    BY <1>3 DEF BurnSurplus
  <2>. QED BY <2>3, <2>4, <2>6, <2>7, <2>8, AsideKeepsPayInv
<1>. QED BY <1>1, <1>2, <1>3 DEF ReserveCall

LEMMA GovernorKeepsPayInv ==
  ASSUME PayInv, Observe, NEW c \in Caller, GovernorCall(c)
  PROVE  PayInv'
<1>0. /\ reserve \in Nat /\ reimbursable \in Nat /\ surplus \in Nat /\ EthIn \subseteq Nat
      /\ Amount \subseteq Nat /\ LimitsChoice \subseteq Limits
      /\ bal \in [Account -> Nat] /\ bal[Forwarder] \in Nat
      /\ bal[Runtime] \in Nat /\ bal[Treasury] \in Nat /\ migrated \in BOOLEAN
  BY PayTypes, PaymasterAssumption, InitialAssumption DEF PayInv, BooksTypeOK
<1>1. ASSUME NEW amount \in EthIn, WithdrawEth(c, amount)
      PROVE  PayInv'
  <2>1. reserve' \in Nat /\ UNCHANGED <<runtime, reimbursable, surplus, nonces, block, budgets,
                                        rules, sponsoring>>
    BY <1>0, <1>1 DEF WithdrawEth
  <2>2. BooksTypeOK'
    BY <2>1 DEF PayInv, BooksTypeOK, budgets, rules
  <2>3. UNCHANGED <<owner, treasury, policy, registry, emergency, money, execution, sponsoring>>
        /\ bal' = bal
    BY <2>1 DEF runtime, assets
  <2>4. /\ bal' \in [Account -> Nat]
        /\ bal'[Runtime] >= bal[Runtime] /\ bal'[Treasury] >= bal[Treasury]
        /\ bal'[Forwarder] + reimbursable + surplus >= bal[Forwarder] + reimbursable' + surplus'
    BY <1>0, <2>1, <2>3
  <2>. QED BY <2>2, <2>3, <2>4, AsideKeepsPayInv
<1>2. ASSUME NEW to \in User, NEW amount \in 1..reimbursable, WithdrawReimbursable(c, to, amount)
      PROVE  PayInv'
  <2>1. /\ Move(Forwarder, to, amount) /\ amount \in Nat
        /\ reimbursable' = reimbursable - amount /\ reimbursable' \in Nat /\ surplus' = surplus
    BY <1>0, <1>2 DEF WithdrawReimbursable
  <2>2. BooksTypeOK'
    BY <1>2, <2>1 DEF WithdrawReimbursable, PayInv, BooksTypeOK, budgets, rules
  <2>3. amount + reimbursable' + surplus' <= reimbursable + surplus
    BY <1>0, <2>1
  <2>4. UNCHANGED <<owner, treasury, policy, registry, emergency, money, execution, sponsoring>>
    BY <1>2 DEF WithdrawReimbursable
  <2>. QED BY <2>1, <2>2, <2>3, <2>4, PayoutKeepsPayInv
<1>3. ASSUME NEW to \in User, SweepUnaccounted(c, to)
      PROVE  PayInv'
  <2>1. PICK excess \in Nat :
          /\ excess = bal[Forwarder] - reimbursable - surplus /\ Move(Forwarder, to, excess)
    BY <1>0, <1>3 DEF SweepUnaccounted
  <2>2. UNCHANGED <<owner, treasury, policy, registry, emergency, money, execution, sponsoring>>
        /\ UNCHANGED paymaster
    BY <1>3 DEF SweepUnaccounted, paymaster
  <2>3. BooksTypeOK'
    BY <2>2 DEF PayInv, BooksTypeOK, paymaster, accounts, budgets, rules
  <2>4. CASE Sponsoring
    <3>1. disturbed'
      BY <1>3, <2>4 DEF Observe
    <3>. QED BY <2>1, <2>2, <2>3, <3>1, PayoutKeepsPayInv
  <2>5. CASE ~ Sponsoring
    <3>1. bal[Forwarder] - excess >= reimbursable' + surplus'
      BY <1>0, <2>1, <2>2 DEF paymaster, accounts
    <3>. QED BY <2>1, <2>2, <2>3, <2>5, <3>1, PayoutKeepsPayInv
  <2>. QED BY <2>4, <2>5
<1>4. ASSUME NEW first \in Amount, NEW second \in Amount,
             InitializeMigrationAccounting(c, first, second)
      PROVE  PayInv'
  <2>1. /\ reimbursable' = first /\ surplus' = second /\ first \in Nat /\ second \in Nat
        /\ first + second <= bal[Forwarder] /\ ~ migrated /\ migrated' = TRUE
        /\ UNCHANGED <<runtime, reserve, nonces, block, budgets, limits, governor, sponsoring>>
    BY <1>0, <1>4 DEF InitializeMigrationAccounting
  <2>2. BooksTypeOK'
    BY <2>1 DEF PayInv, BooksTypeOK, budgets
  <2>3. UNCHANGED <<owner, treasury, policy, registry, emergency, money, execution, sponsoring>>
        /\ bal' = bal
    BY <2>1 DEF runtime, assets
  <2>4. /\ bal' \in [Account -> Nat]
        /\ bal'[Runtime] >= bal[Runtime] /\ bal'[Treasury] >= bal[Treasury]
    BY <1>0, <2>3
  <2>5. CASE Sponsoring
    <3>1. disturbed'
      BY <2>1, <2>5 DEF Observe
    <3>. QED BY <2>2, <2>3, <2>4, <3>1, AsideKeepsPayInv
  <2>6. CASE ~ Sponsoring
    <3>1. bal'[Forwarder] >= reimbursable' + surplus'
      BY <1>0, <2>1, <2>3
    <3>. QED BY <2>2, <2>3, <2>4, <2>6, <3>1, AsideKeepsPayInv
  <2>. QED BY <2>5, <2>6
<1>5. ASSUME UNCHANGED <<runtime, accounts, sponsoring>>, BooksTypeOK'
      PROVE  PayInv'
  <2>1. UNCHANGED <<owner, treasury, policy, registry, emergency, money, execution, sponsoring>>
        /\ bal' = bal /\ reimbursable' = reimbursable /\ surplus' = surplus
    BY <1>5 DEF runtime, assets, accounts
  <2>2. /\ bal' \in [Account -> Nat]
        /\ bal'[Runtime] >= bal[Runtime] /\ bal'[Treasury] >= bal[Treasury]
        /\ bal'[Forwarder] + reimbursable + surplus >= bal[Forwarder] + reimbursable' + surplus'
    BY <1>0, <2>1
  <2>. QED BY <1>5, <2>1, <2>2, AsideKeepsPayInv
<1>6. ASSUME NEW new \in LimitsChoice, SetLimits(c, new)
      PROVE  PayInv'
  <2>1. BooksTypeOK'
    BY <1>0, <1>6 DEF SetLimits, PayInv, BooksTypeOK, accounts, budgets
  <2>. QED BY <1>5, <1>6, <2>1 DEF SetLimits
<1>7. ASSUME NEW to \in User, TransferGovernor(c, to)
      PROVE  PayInv'
  <2>1. BooksTypeOK'
    BY <1>7 DEF TransferGovernor, PayInv, BooksTypeOK, accounts, budgets
  <2>. QED BY <1>5, <1>7, <2>1 DEF TransferGovernor
<1>. QED BY <1>1, <1>2, <1>3, <1>4, <1>6, <1>7 DEF GovernorCall

LEMMA NextBlockKeepsPayInv ==
  ASSUME PayInv, Observe, NextBlock
  PROVE  PayInv'
<1>1. UNCHANGED <<owner, treasury, policy, registry, emergency, money, execution, sponsoring>>
      /\ bal' = bal /\ reimbursable' = reimbursable /\ surplus' = surplus
  BY DEF NextBlock, runtime, assets, accounts
<1>2. BooksTypeOK'
  BY DEF NextBlock, PayInv, BooksTypeOK, accounts, budgets, rules
<1>3. /\ bal \in [Account -> Nat] /\ bal[Forwarder] \in Nat
      /\ bal[Runtime] \in Nat /\ bal[Treasury] \in Nat
      /\ reimbursable \in Nat /\ surplus \in Nat
  BY PayTypes DEF PayInv, BooksTypeOK
<1>4. /\ bal' \in [Account -> Nat]
      /\ bal'[Runtime] >= bal[Runtime] /\ bal'[Treasury] >= bal[Treasury]
      /\ bal'[Forwarder] + reimbursable + surplus >= bal[Forwarder] + reimbursable' + surplus'
  BY <1>1, <1>3
<1>. QED BY <1>1, <1>2, <1>4, AsideKeepsPayInv

-----------------------------------------------------------------------------
LEMMA PayInitInv == ASSUME SInit PROVE PayInv
<1>1. RuntimeInv
  BY RuntimeInitInv DEF SInit, PInit
<1>2. BooksTypeOK
  <2>1. chainSpent \in [Chain -> [0..Day(MaxBlock) -> Nat]]
    BY DEF SInit, PInit
  <2>2. /\ reserve \in Nat /\ reimbursable = 0 /\ surplus = 0 /\ nonces \in [User -> Nat]
        /\ block = 0 /\ lastSpend = 0 /\ spentThisBlock = 0
        /\ limits \in Limits /\ governor \in User /\ migrated \in BOOLEAN
    BY PaymasterAssumption DEF SInit, PInit
  <2>. QED BY <2>1, <2>2 DEF BooksTypeOK
<1>3. CallInv
  <2>1. executing.payer = None
    BY DEF SInit, PInit, Init, Idle
  <2>. QED BY <2>1 DEF CallInv, SInit, PInit, Sponsoring
<1>4. Backed
  <2>1. bal[Forwarder] \in Nat
    BY <1>1, AccountAssumption DEF RuntimeInv, TypeOK, AssetsTypeOK, Account
  <2>2. Custody = 0 /\ reimbursable = 0 /\ surplus = 0
    BY DEF SInit, PInit, Custody, Sponsoring
  <2>. QED BY <2>1, <2>2 DEF Backed
<1>. QED BY <1>1, <1>2, <1>3, <1>4 DEF PayInv

LEMMA PayStep ==
  ASSUME PayInv, PNext, Observe
  PROVE  PayInv'
<1>1. ASSUME NEW c \in Caller, SponsorCall(c) PROVE PayInv'
  BY <1>1, SponsorKeepsPayInv DEF SponsorCall
<1>2. ASSUME NEW c \in Caller \ {Forwarder}, Interleaved, Call(c), UNCHANGED paymaster PROVE PayInv'
  BY <1>2, CallKeepsPayInv
<1>3. ASSUME NEW spent \in Cost, NEW price \in Price, Finish(spent, price) PROVE PayInv'
  BY <1>3, FinishKeepsPayInv
<1>. QED
  BY <1>1, <1>2, <1>3, GovernorKeepsPayInv, ReserveKeepsPayInv, RunCallKeepsPayInv,
     ReturnKeepsPayInv, NextBlockKeepsPayInv
  DEF PNext

LEMMA PayQuiet ==
  ASSUME PayInv, UNCHANGED <<pvars, ledger>>
  PROVE  PayInv'
<1>1. RuntimeInv'
  BY QuietRuntime DEF PayInv, pvars
<1>2. UNCHANGED <<bal, executing, feeUsd, reserve, reimbursable, surplus, nonces, block, lastSpend,
                  spentThisBlock, chainSpent, limits, governor, migrated, sponsoring, disturbed>>
  BY DEF pvars, ledger, runtime, assets, policy, execution, paymaster, accounts, budgets, rules
<1>3. BooksTypeOK' /\ CallInv' /\ Backed'
  BY <1>2
  DEF PayInv, BooksTypeOK, CallInv, Backed, Custody, Sponsoring, TollPaid, Toll
<1>. QED BY <1>1, <1>3 DEF PayInv

LEMMA PayInductive == SSpec => []PayInv
<1>1. SInit => PayInv
  BY PayInitInv
<1>2. PayInv /\ [PNext /\ Observe]_<<pvars, ledger>> => PayInv'
  BY PayStep, PayQuiet
<1>. QED BY <1>1, <1>2, PTL DEF SSpec

(* The paymaster always holds its two accounts and the prefund of the call  *)
(* in progress, until governance reads the balance in the middle of one.    *)
THEOREM PaymasterKeepsAccounts == SSpec => []AccountsBacked
<1>1. PayInv => AccountsBacked
  <2> SUFFICES ASSUME PayInv
               PROVE  AccountsBacked
    OBVIOUS
  <2>1. \/ sponsoring = NoSponsorship
        \/ sponsoring \in Sponsorships
    BY DEF PayInv, CallInv
  <2>2. PaymasterTypeOK
    BY <2>1 DEF PayInv, BooksTypeOK, PaymasterTypeOK, Sponsorships
  <2>. QED BY <2>2 DEF PayInv, Backed, AccountsBacked
<1>. QED BY <1>1, PayInductive, PTL

(* The runtime behind the paymaster still holds what it owes, settlements   *)
(* and refills of the paymaster included.                                   *)
THEOREM SponsoredRuntimeIsSolvent == SSpec => []RuntimeSolvent
<1>1. PayInv => RuntimeSolvent
  BY DEF PayInv, RuntimeInv
<1>. QED BY <1>1, PayInductive, PTL

-----------------------------------------------------------------------------
(* A step that neither opens nor settles a sponsored call, nor mines a      *)
(* block, leaves the open call and everything it is counted by alone.       *)
Aside ==
  /\ UNCHANGED <<nonces, block, chainSpent>>
  /\ Sponsoring' <=> Sponsoring
  /\ Sponsoring => /\ sponsoring'.user = sponsoring.user /\ sponsoring'.chain = sponsoring.chain
                   /\ sponsoring'.worst = sponsoring.worst

LEMMA StepKinds ==
  ASSUME PayInv, PNext
  PROVE  \/ \E c \in Caller : SponsorCall(c)
         \/ \E spent \in Cost, price \in Price : Finish(spent, price)
         \/ NextBlock
         \/ Aside
<1>1. ASSUME UNCHANGED <<nonces, block, chainSpent, sponsoring>> PROVE Aside
  BY <1>1 DEF Aside, Sponsoring
<1>2. ASSUME NEW c \in Caller, GovernorCall(c) PROVE Aside
  <2>1. UNCHANGED <<nonces, block, chainSpent, sponsoring>>
    BY <1>2
    DEF GovernorCall, WithdrawEth, WithdrawReimbursable, SweepUnaccounted, TransferGovernor,
        InitializeMigrationAccounting, SetLimits, budgets, paymaster
  <2>. QED BY <1>1, <2>1
<1>3. ASSUME UNCHANGED paymaster PROVE Aside
  BY <1>1, <1>3 DEF paymaster, budgets
<1>4. ASSUME ReserveCall PROVE Aside
  <2>1. UNCHANGED <<nonces, block, chainSpent, sponsoring>>
    BY <1>4 DEF ReserveCall, FundEth, Refill, BurnSurplus, budgets
  <2>. QED BY <1>1, <2>1
<1>5. ASSUME RunCall PROVE Aside
  <2>1. /\ UNCHANGED <<nonces, block, chainSpent>> /\ Sponsoring /\ sponsoring \in Sponsorships
        /\ sponsoring' = [sponsoring EXCEPT !.ran = TRUE]
    BY <1>5, PayTypes DEF RunCall, budgets
  <2>2. /\ sponsoring'.user = sponsoring.user /\ sponsoring'.chain = sponsoring.chain
        /\ sponsoring'.worst = sponsoring.worst /\ sponsoring.user \in User
    BY <2>1 DEF Sponsorships
  <2>3. Sponsoring'
    <3>1. NoSponsorship.user = None /\ None \notin User
      BY PayTypes DEF NoSponsorship
    <3>. QED BY <2>2, <3>1 DEF Sponsoring
  <2>. QED BY <2>1, <2>2, <2>3 DEF Aside
<1>. QED BY <1>2, <1>3, <1>4, <1>5 DEF PNext

(* What Sponsor and Finish do to the open call, and to what it is counted   *)
(* by.                                                                      *)
LEMMA SponsorOpens ==
  ASSUME PayInv, NEW c \in Caller, SponsorCall(c)
  PROVE  \E user \in User, t \in Chain, worst \in Nat :
           /\ ~ Sponsoring /\ Sponsoring' /\ UNCHANGED <<block, reserve>>
           /\ sponsoring'.user = user /\ sponsoring'.chain = t /\ sponsoring'.worst = worst
           /\ nonces[user] < MaxNonce /\ nonces' = [nonces EXCEPT ![user] = @ + 1]
           /\ ChargeChain(t, worst)
<1>1. PICK user \in User, t \in Chain, app \in App, rate \in Rate, maxToll \in MaxFee,
           maxGas \in MaxGas, worst \in Cost, price \in Price, spends \in Auth,
           nfts \in SUBSET Chain :
        Sponsor(c, user, t, app, rate, maxToll, maxGas, worst, price, spends, nfts)
  BY DEF SponsorCall
<1>2. /\ sponsoring'.user = user /\ sponsoring'.chain = t /\ sponsoring'.worst = worst
      /\ ~ Sponsoring /\ UNCHANGED <<block, reserve>>
      /\ nonces[user] < MaxNonce /\ nonces' = [nonces EXCEPT ![user] = @ + 1]
      /\ ChargeChain(t, worst)
  BY <1>1 DEF Sponsor, accounts
<1>3. Sponsoring'
  <2>1. NoSponsorship.user = None /\ None \notin User
    BY PayTypes DEF NoSponsorship
  <2>. QED BY <1>2, <2>1 DEF Sponsoring
<1>4. worst \in Nat
  BY PaymasterAssumption
<1>. QED BY <1>2, <1>3, <1>4

-----------------------------------------------------------------------------
(* A nonce is used up when the request is validated, before anything else   *)
(* runs: what is still to be charged for is the open call, and its nonce    *)
(* has never been charged for.                                              *)
BilledInv ==
  /\ billed \in [User -> [0..MaxNonce -> Nat]] /\ signedNonce \in 0..MaxNonce
  /\ RequestBilledOnce
  /\ \A u \in User, n \in 0..MaxNonce : n >= nonces[u] => billed[u][n] = 0
  /\ Sponsoring => /\ signedNonce < nonces[sponsoring.user]
                   /\ billed[sponsoring.user][signedNonce] = 0

LEMMA BilledStep ==
  ASSUME PayInv, BilledInv, PNext, Observe
  PROVE  BilledInv'
<1>0. nonces \in [User -> Nat] /\ MaxNonce \in Nat
  BY PaymasterAssumption DEF PayInv, BooksTypeOK
<1>1. ASSUME NEW c \in Caller, SponsorCall(c) PROVE BilledInv'
  <2>1. PICK user \in User :
          /\ ~ Sponsoring /\ Sponsoring' /\ sponsoring'.user = user
          /\ nonces[user] < MaxNonce /\ nonces' = [nonces EXCEPT ![user] = @ + 1]
    BY <1>1, SponsorOpens
  <2>2. signedNonce' = nonces[user] /\ billed' = billed
    BY <2>1 DEF Observe, Opens, Closes
  <2>3. /\ nonces[user] \in 0..MaxNonce /\ nonces'[user] = nonces[user] + 1
        /\ \A u \in User : nonces[u] \in Nat /\ nonces'[u] >= nonces[u] /\ nonces'[u] \in Nat
    BY <1>0, <2>1
  <2>4. \A u \in User, n \in 0..MaxNonce : n >= nonces'[u] => billed'[u][n] = 0
    <3> SUFFICES ASSUME NEW u \in User, NEW n \in 0..MaxNonce, n >= nonces'[u]
                 PROVE  billed[u][n] = 0
      BY <2>2
    <3>1. n >= nonces[u]
      <4>1. /\ nonces[u] \in Nat /\ nonces'[u] \in Nat /\ nonces'[u] >= nonces[u]
            /\ n \in Nat
        BY <1>0, <2>3
      <4>. QED BY <4>1
    <3>. QED BY <3>1 DEF BilledInv
  <2>5. signedNonce' < nonces'[user] /\ billed'[user][signedNonce'] = 0
    BY <2>2, <2>3 DEF BilledInv
  <2>. QED BY <2>1, <2>2, <2>3, <2>4, <2>5 DEF BilledInv, RequestBilledOnce
<1>2. ASSUME NEW spent \in Cost, NEW price \in Price, Finish(spent, price) PROVE BilledInv'
  <2> DEFINE user == sponsoring.user
  <2>1. /\ Sponsoring /\ ~ Sponsoring' /\ nonces' = nonces /\ user \in User
    BY <1>2, PayTypes DEF Finish, Sponsoring, Sponsorships
  <2>2. /\ signedNonce' = signedNonce
        /\ billed' = [billed EXCEPT ![user][signedNonce] = @ + 1]
    BY <2>1 DEF Observe, Opens, Closes
  <2>3. /\ signedNonce \in 0..MaxNonce /\ signedNonce < nonces[user]
        /\ billed[user][signedNonce] = 0 /\ billed \in [User -> [0..MaxNonce -> Nat]]
    BY <2>1 DEF BilledInv
  <2>4. ASSUME NEW u \in User, NEW n \in 0..MaxNonce
        PROVE  /\ billed'[u][n] = IF u = user /\ n = signedNonce THEN 1 ELSE billed[u][n]
               /\ billed[u][n] \in Nat
    <3>1. billed[u] \in [0..MaxNonce -> Nat] /\ billed[user] \in [0..MaxNonce -> Nat]
      BY <2>1, <2>3
    <3>2. billed'[u] = IF u = user THEN [billed[user] EXCEPT ![signedNonce] = @ + 1] ELSE billed[u]
      BY <2>1, <2>2, <2>3
    <3>3. CASE u = user /\ n = signedNonce
      <4>1. billed'[user][signedNonce] = billed[user][signedNonce] + 1
        BY <2>3, <3>1, <3>2, <3>3
      <4>. QED BY <2>3, <3>1, <3>3, <4>1
    <3>4. CASE ~ (u = user /\ n = signedNonce)
      BY <2>3, <3>1, <3>2, <3>4
    <3>. QED BY <3>3, <3>4
  <2>5. billed' \in [User -> [0..MaxNonce -> Nat]]
    BY <2>1, <2>2, <2>3
  <2>6. RequestBilledOnce'
    BY <2>4 DEF BilledInv, RequestBilledOnce
  <2>7. \A u \in User, n \in 0..MaxNonce : n >= nonces'[u] => billed'[u][n] = 0
    <3> SUFFICES ASSUME NEW u \in User, NEW n \in 0..MaxNonce, n >= nonces[u]
                 PROVE  billed'[u][n] = 0
      BY <2>1
    <3>1. ~ (u = user /\ n = signedNonce)
      BY <1>0, <2>1, <2>3
    <3>2. billed[u][n] = 0
      BY DEF BilledInv
    <3>. QED BY <2>4, <3>1, <3>2
  <2>. QED BY <2>1, <2>2, <2>3, <2>5, <2>6, <2>7 DEF BilledInv
<1>3. ASSUME \/ Aside
             \/ NextBlock
      PROVE BilledInv'
  <2>1. /\ nonces' = nonces
        /\ Sponsoring' <=> Sponsoring
        /\ Sponsoring => sponsoring'.user = sponsoring.user
    BY <1>3 DEF Aside, NextBlock, Sponsoring
  <2>2. billed' = billed /\ signedNonce' = signedNonce
    BY <2>1 DEF Observe, Opens, Closes
  <2>. QED BY <2>1, <2>2 DEF BilledInv, RequestBilledOnce
<1>. QED BY <1>1, <1>2, <1>3, StepKinds

(* A signed request is charged for at most once, whatever happens inside    *)
(* the call and however often its signature is sent.                        *)
THEOREM RequestsAreBilledOnce == SSpec => []RequestBilledOnce
<1>1. SInit => BilledInv
  <2> SUFFICES ASSUME SInit
               PROVE  BilledInv
    OBVIOUS
  <2>1. billed = [u \in User |-> [n \in 0..MaxNonce |-> 0]] /\ signedNonce = 0 /\ ~ Sponsoring
    BY DEF SInit, PInit, Sponsoring
  <2>2. MaxNonce \in Nat
    BY PaymasterAssumption
  <2>. QED BY <2>1, <2>2 DEF BilledInv, RequestBilledOnce
<1>2. PayInv /\ BilledInv /\ [PNext /\ Observe]_<<pvars, ledger>> => BilledInv'
  <2> SUFFICES ASSUME PayInv, BilledInv, UNCHANGED <<pvars, ledger>>
               PROVE  BilledInv'
    BY BilledStep
  <2>1. UNCHANGED <<nonces, sponsoring, billed, signedNonce>>
    BY DEF pvars, paymaster, ledger
  <2>. QED BY <2>1 DEF BilledInv, RequestBilledOnce, Sponsoring
<1>3. BilledInv => RequestBilledOnce
  BY DEF BilledInv
<1>. QED BY <1>1, <1>2, <1>3, PayInductive, PTL DEF SSpec

-----------------------------------------------------------------------------
(* What a chain may still cost today: the worst case of its open call.      *)
Pending(t) == IF Sponsoring /\ sponsoring.chain = t THEN sponsoring.worst ELSE 0

(* The day's budget of a chain is booked before its calls run and is within *)
(* a quarter of the day's highest reserve; what its calls were paid and the *)
(* open one may still cost is within what was booked.                       *)
QuarterInv ==
  /\ block <= MaxBlock
  /\ reserve <= peak /\ peak \in Nat /\ paidToday \in [Chain -> Nat]
  /\ \A t \in Chain, d \in 0..Day(MaxBlock) : d > Day(block) => chainSpent[t][d] = 0
  /\ \A t \in Chain : /\ 4 * chainSpent[t][Day(block)] <= peak
                      /\ paidToday[t] + Pending(t) <= chainSpent[t][Day(block)]

LEMMA Days ==
  ASSUME PayInv, block <= MaxBlock
  PROVE  /\ Day(block) \in 0..Day(MaxBlock)
         /\ \A t \in Chain : chainSpent[t][Day(block)] \in Nat /\ Pending(t) \in Nat
<1>1. /\ block \in Nat /\ MaxBlock \in Nat /\ BlocksPerDay \in Nat \ {0}
      /\ chainSpent \in [Chain -> [0..Day(MaxBlock) -> Nat]]
  BY PaymasterAssumption DEF PayInv, BooksTypeOK
<1>2. Day(block) \in Nat /\ Day(MaxBlock) \in Nat /\ Day(block) <= Day(MaxBlock)
  BY <1>1, QuotientNat, QuotientMonotone DEF Day
<1>3. Day(block) \in 0..Day(MaxBlock)
  BY <1>2
<1>4. \A t \in Chain : chainSpent[t][Day(block)] \in Nat
  BY <1>1, <1>3
<1>5. \A t \in Chain : Pending(t) \in Nat
  BY PayTypes DEF Pending
<1>. QED BY <1>3, <1>4, <1>5

LEMMA QuarterStep ==
  ASSUME PayInv, QuarterInv, PNext, Observe
  PROVE  QuarterInv'
<1>0. /\ Day(block) \in 0..Day(MaxBlock) /\ block \in Nat /\ MaxBlock \in Nat
      /\ chainSpent \in [Chain -> [0..Day(MaxBlock) -> Nat]]
      /\ reserve \in Nat /\ reserve' \in Nat /\ peak \in Nat /\ reserve <= peak
      /\ paidToday \in [Chain -> Nat] /\ block <= MaxBlock
      /\ \A t \in Chain : /\ chainSpent[t][Day(block)] \in Nat /\ Pending(t) \in Nat
                          /\ paidToday[t] \in Nat
                          /\ 4 * chainSpent[t][Day(block)] <= peak
                          /\ paidToday[t] + Pending(t) <= chainSpent[t][Day(block)]
  BY Days, PayStep, PaymasterAssumption DEF QuarterInv, PayInv, BooksTypeOK
<1>1. ASSUME block' = block
      PROVE  /\ Day(block)' = Day(block) /\ ~ NewDay
             /\ peak' \in Nat /\ peak' >= peak /\ peak' >= reserve'
  <2>1. Day(block)' = Day(block) /\ ~ NewDay
    BY <1>1 DEF Day, NewDay
  <2>. QED BY <1>0, <2>1 DEF Observe
<1>2. ASSUME NEW c \in Caller, SponsorCall(c) PROVE QuarterInv'
  <2>1. PICK t \in Chain, worst \in Nat :
          /\ ~ Sponsoring /\ Sponsoring' /\ UNCHANGED <<block, reserve>>
          /\ sponsoring'.chain = t /\ sponsoring'.worst = worst /\ ChargeChain(t, worst)
    BY <1>2, SponsorOpens
  <2>2. paidToday' = paidToday
    BY <1>1, <2>1 DEF Observe, Closes
  <2>3. PICK day \in 0..Day(MaxBlock) : day = Day(block) /\ day = Day(block)'
    BY <1>0, <1>1, <2>1
  <2>4. PICK spent \in Nat : spent = chainSpent[t][day] + worst /\ 4 * spent <= reserve
    <3>1. PICK spent \in Nat : spent = chainSpent[t][day] + worst
      BY <1>0, <2>3
    <3>2. PICK q \in Nat : q = reserve \div 4 /\ 4 * q <= reserve
      BY <1>0
    <3>3. spent <= q
      BY <2>1, <2>3, <3>1, <3>2 DEF ChargeChain
    <3>. QED BY <1>0, <3>1, <3>2, <3>3
  <2>5. chainSpent' = [chainSpent EXCEPT ![t] = [chainSpent[t] EXCEPT ![day] = spent]]
    BY <2>1, <2>3, <2>4 DEF ChargeChain
  <2>6. ASSUME NEW s \in Chain, NEW d \in 0..Day(MaxBlock)
        PROVE  chainSpent'[s][d] = IF s = t /\ d = day THEN spent ELSE chainSpent[s][d]
    BY <1>0, <2>5
  <2>7. \A s \in Chain, d \in 0..Day(MaxBlock) : d > day => chainSpent'[s][d] = 0
    BY <2>3, <2>6 DEF QuarterInv
  <2>8. ASSUME NEW s \in Chain
        PROVE  /\ 4 * chainSpent'[s][day] <= peak'
               /\ paidToday'[s] + Pending(s)' <= chainSpent'[s][day]
    <3>1. CASE s = t
      <4>1. chainSpent'[s][day] = spent
        BY <2>6, <3>1
      <4>2. Pending(s)' = worst
        BY <2>1, <3>1 DEF Pending
      <4>3. paidToday[t] \in Nat /\ paidToday[t] <= chainSpent[t][day] /\ chainSpent[t][day] \in Nat
        BY <1>0, <2>3
      <4>4. 4 * spent <= peak'
        <5>1. reserve \in Nat /\ peak' \in Nat /\ reserve <= peak'
          BY <1>0, <1>1, <2>1
        <5>. QED BY <2>4, <5>1
      <4>5. paidToday[t] + worst <= spent
        BY <2>1, <2>4, <4>3
      <4>. QED BY <2>2, <3>1, <4>1, <4>2, <4>4, <4>5
    <3>2. CASE s # t
      <4>1. chainSpent'[s][day] = chainSpent[s][day]
        BY <2>6, <3>2
      <4>2. Pending(s)' = 0 /\ Pending(s) = 0
        BY <2>1, <3>2 DEF Pending
      <4>. QED BY <1>0, <1>1, <2>1, <2>2, <2>3, <4>1, <4>2
    <3>. QED BY <3>1, <3>2
  <2>. QED BY <1>0, <1>1, <2>1, <2>2, <2>3, <2>7, <2>8 DEF QuarterInv
<1>3. ASSUME NEW spent \in Cost, NEW price \in Price, Finish(spent, price) PROVE QuarterInv'
  <2> DEFINE t == sponsoring.chain
  <2>1. /\ Sponsoring /\ ~ Sponsoring' /\ UNCHANGED <<block, chainSpent>> /\ t \in Chain
        /\ sponsoring.worst \in Nat /\ Pending(t) = sponsoring.worst
    BY <1>3, PayTypes DEF Finish, Sponsoring, Sponsorships, budgets, Pending
  <2>2. PICK paid \in Nat : paid <= sponsoring.worst /\ reserve' = reserve - paid
    <3>1. spent \in Nat
      BY PaymasterAssumption
    <3>2. reserve' = reserve - (IF spent > sponsoring.worst THEN sponsoring.worst ELSE spent)
      BY <1>3 DEF Finish
    <3>3. CASE spent > sponsoring.worst
      BY <2>1, <3>2, <3>3
    <3>4. CASE ~ (spent > sponsoring.worst)
      BY <2>1, <3>1, <3>2, <3>4
    <3>. QED BY <3>3, <3>4
  <2>3. paidToday' = [paidToday EXCEPT ![t] = paidToday[t] + paid]
    <3>1. paidToday' = [paidToday EXCEPT ![t] = @ + reserve - reserve']
      BY <1>1, <2>1 DEF Observe, Closes
    <3>2. paidToday[t] + reserve - reserve' = paidToday[t] + paid
      BY <1>0, <2>1, <2>2
    <3>. QED BY <3>1, <3>2
  <2>4. ASSUME NEW s \in Chain
        PROVE  /\ paidToday'[s] \in Nat /\ Pending(s)' = 0
               /\ paidToday'[s] <= chainSpent[s][Day(block)]
    <3>1. Pending(s)' = 0
      BY <2>1 DEF Pending
    <3>2. CASE s = t
      BY <1>0, <2>1, <2>2, <2>3, <3>1, <3>2
    <3>3. CASE s # t
      BY <1>0, <2>1, <2>3, <3>1, <3>3
    <3>. QED BY <3>2, <3>3
  <2>5. paidToday' \in [Chain -> Nat]
    BY <1>0, <2>1, <2>2, <2>3
  <2>6. ASSUME NEW s \in Chain
        PROVE  /\ 4 * chainSpent'[s][Day(block)'] <= peak'
               /\ paidToday'[s] + Pending(s)' <= chainSpent'[s][Day(block)']
    BY <1>0, <1>1, <2>1, <2>4
  <2>. QED BY <1>0, <1>1, <2>1, <2>5, <2>6 DEF QuarterInv
<1>4. ASSUME Aside PROVE QuarterInv'
  <2>1. UNCHANGED <<block, chainSpent>>
    BY <1>4 DEF Aside
  <2>2. paidToday' = paidToday
    BY <1>1, <1>4, <2>1 DEF Aside, Observe, Closes
  <2>3. \A s \in Chain : Pending(s)' = Pending(s)
    BY <1>4 DEF Aside, Pending
  <2>4. ASSUME NEW s \in Chain
        PROVE  /\ 4 * chainSpent'[s][Day(block)'] <= peak'
               /\ paidToday'[s] + Pending(s)' <= chainSpent'[s][Day(block)']
    BY <1>0, <1>1, <2>1, <2>2, <2>3
  <2>. QED BY <1>0, <1>1, <2>1, <2>2, <2>4 DEF QuarterInv
<1>5. ASSUME NextBlock PROVE QuarterInv'
  <2>1. /\ block' = block + 1 /\ block' <= MaxBlock /\ block' \in Nat
        /\ UNCHANGED <<chainSpent, reserve, sponsoring>> /\ ~ Sponsoring /\ ~ Sponsoring'
    BY <1>0, <1>5 DEF NextBlock, accounts, budgets, Sponsoring
  <2>2. \A t \in Chain : Pending(t)' = 0 /\ Pending(t) = 0
    BY <2>1 DEF Pending
  <2>3. PICK today \in 0..Day(MaxBlock), tomorrow \in 0..Day(MaxBlock) :
          today = Day(block) /\ tomorrow = Day(block)' /\ today <= tomorrow
    <3>1. BlocksPerDay \in Nat \ {0} /\ block <= block'
      BY <1>0, <2>1, PaymasterAssumption
    <3>2. /\ block' \div BlocksPerDay \in Nat /\ MaxBlock \div BlocksPerDay \in Nat
          /\ block' \div BlocksPerDay <= MaxBlock \div BlocksPerDay
      BY <1>0, <2>1, <3>1, QuotientNat, QuotientMonotone
    <3>3. block \div BlocksPerDay <= block' \div BlocksPerDay
      BY <1>0, <2>1, <3>1, QuotientMonotone
    <3>. QED BY <1>0, <3>2, <3>3 DEF Day
  <2>4. CASE NewDay
    <3>1. tomorrow > today
      BY <2>3, <2>4 DEF NewDay
    <3>2. \A t \in Chain, d \in 0..Day(MaxBlock) : d >= tomorrow => chainSpent'[t][d] = 0
      BY <2>1, <2>3, <3>1 DEF QuarterInv
    <3>3. paidToday' = [t \in Chain |-> 0] /\ peak' = reserve'
      BY <2>4 DEF Observe
    <3>4. ASSUME NEW t \in Chain
          PROVE  /\ 4 * chainSpent'[t][tomorrow] <= peak'
                 /\ paidToday'[t] + Pending(t)' <= chainSpent'[t][tomorrow]
      <4>1. chainSpent'[t][tomorrow] = 0 /\ paidToday'[t] = 0 /\ Pending(t)' = 0
        BY <2>2, <3>2, <3>3
      <4>. QED BY <1>0, <3>3, <4>1
    <3>5. \A t \in Chain, d \in 0..Day(MaxBlock) : d > Day(block)' => chainSpent'[t][d] = 0
      BY <2>3, <3>2
    <3>. QED BY <1>0, <2>1, <2>3, <3>3, <3>4, <3>5 DEF QuarterInv
  <2>5. CASE ~ NewDay
    <3>1. Day(block)' = Day(block)
      BY <2>5 DEF NewDay
    <3>2. paidToday' = paidToday /\ peak' = peak
      BY <1>0, <2>1, <2>5 DEF Observe, Closes
    <3>. QED BY <1>0, <2>1, <2>2, <3>1, <3>2 DEF QuarterInv
  <2>. QED BY <2>4, <2>5
<1>. QED BY <1>2, <1>3, <1>4, <1>5, StepKinds

(* One chain is paid at most a quarter of the day's highest reserve in a    *)
(* day, whatever the number of its calls, their prices and the reserve's    *)
(* movements.                                                               *)
THEOREM ChainsTakeAQuarter == SSpec => []OneChainOneQuarter
<1>1. SInit => QuarterInv
  <2> SUFFICES ASSUME SInit
               PROVE  QuarterInv
    OBVIOUS
  <2>1. /\ block = 0 /\ reserve = FirstReserve /\ peak = FirstReserve /\ ~ Sponsoring
        /\ paidToday = [t \in Chain |-> 0]
        /\ chainSpent = [t \in Chain |-> [d \in 0..Day(MaxBlock) |-> 0]]
        /\ FirstReserve \in Nat /\ MaxBlock \in Nat
    BY PaymasterAssumption DEF SInit, PInit, Sponsoring
  <2>2. \A t \in Chain, d \in 0..Day(MaxBlock) : chainSpent[t][d] = 0
    BY <2>1
  <2>3. Day(block) \in 0..Day(MaxBlock)
    <3>1. PayInv
      BY PayInitInv
    <3>. QED BY <2>1, <3>1, Days
  <2>4. \A t \in Chain : Pending(t) = 0
    BY <2>1 DEF Pending
  <2>. QED BY <2>1, <2>2, <2>3, <2>4 DEF QuarterInv
<1>2. PayInv /\ QuarterInv /\ [PNext /\ Observe]_<<pvars, ledger>> => QuarterInv'
  <2> SUFFICES ASSUME PayInv, QuarterInv, UNCHANGED <<pvars, ledger>>
               PROVE  QuarterInv'
    BY QuarterStep
  <2>1. UNCHANGED <<block, reserve, peak, paidToday, chainSpent, sponsoring>>
    BY DEF pvars, paymaster, accounts, budgets, ledger
  <2>. QED BY <2>1 DEF QuarterInv, Day, Pending, Sponsoring
<1>3. PayInv /\ QuarterInv => OneChainOneQuarter
  <2> SUFFICES ASSUME PayInv, QuarterInv, NEW t \in Chain
               PROVE  4 * paidToday[t] <= peak
    BY DEF OneChainOneQuarter
  <2>1. /\ chainSpent[t][Day(block)] \in Nat /\ Pending(t) \in Nat /\ paidToday[t] \in Nat
        /\ paidToday[t] + Pending(t) <= chainSpent[t][Day(block)]
        /\ 4 * chainSpent[t][Day(block)] <= peak /\ peak \in Nat
    BY Days DEF QuarterInv
  <2>. QED BY <2>1
<1>. QED BY <1>1, <1>2, <1>3, PayInductive, PTL DEF SSpec

-----------------------------------------------------------------------------
(* Past validation nothing reverts.  What Finish requires and assigns, with *)
(* the values it assigns as parameters: it goes through exactly when they   *)
(* exist.                                                                   *)
Settles(spent, price, nextReserve, nextReimbursable, nextSurplus, nextBal) ==
  LET paid == IF spent > sponsoring.worst THEN sponsoring.worst ELSE spent
      back == sponsoring.maxToll + sponsoring.maxGas - TollPaid - Charge(spent, price)
  IN  /\ Sponsoring /\ executing = Idle
      /\ paid <= reserve /\ back <= bal[Forwarder]
      /\ nextReserve = reserve - paid
      /\ nextReimbursable = reimbursable + ChargeForGas(spent, price)
      /\ nextSurplus = surplus + Charge(spent, price) - ChargeForGas(spent, price)
      /\ nextBal = [[bal EXCEPT ![Forwarder] = @ - back] EXCEPT ![sponsoring.user] = @ + back]

(* Settles is Finish: the rest of it only clears the call and leaves        *)
(* everything else alone.                                                   *)
LEMMA FinishSettles ==
  ASSUME NEW spent, NEW price
  PROVE  Finish(spent, price) <=>
           /\ Settles(spent, price, reserve', reimbursable', surplus', bal')
           /\ sponsoring' = NoSponsorship
           /\ UNCHANGED <<owner, treasury, policy, registry, emergency, money, execution,
                          nonces, block, budgets, rules>>
BY DEF Finish, Settles, Move

(* The ETH the open call may still cost is in the reserve.                  *)
WorstCovered == Sponsoring => sponsoring.worst <= reserve

LEMMA WorstStep ==
  ASSUME PayInv, WorstCovered, PNext, Observe
  PROVE  WorstCovered'
<1>0. reserve \in Nat /\ EthIn \subseteq Nat
  BY PaymasterAssumption DEF PayInv, BooksTypeOK
<1>1. ASSUME NEW c \in Caller, SponsorCall(c) PROVE WorstCovered'
  <2>1. PICK worst \in Nat : sponsoring'.worst = worst /\ worst <= reserve /\ reserve' = reserve
    <3>1. PICK user \in User, t \in Chain, app \in App, rate \in Rate, maxToll \in MaxFee,
               maxGas \in MaxGas, worst \in Cost, price \in Price, spends \in Auth,
               nfts \in SUBSET Chain :
            Sponsor(c, user, t, app, rate, maxToll, maxGas, worst, price, spends, nfts)
      BY <1>1 DEF SponsorCall
    <3>2. worst \in Nat
      BY PaymasterAssumption
    <3>. QED BY <3>1, <3>2 DEF Sponsor, accounts
  <2>. QED BY <2>1 DEF WorstCovered
<1>2. ASSUME NEW spent \in Cost, NEW price \in Price, Finish(spent, price) PROVE WorstCovered'
  BY <1>2 DEF Finish, WorstCovered, Sponsoring
<1>3. ASSUME NextBlock PROVE WorstCovered'
  BY <1>3 DEF NextBlock, WorstCovered, Sponsoring
<1>4. ASSUME Aside PROVE WorstCovered'
  <2> SUFFICES ASSUME Sponsoring'
               PROVE  sponsoring'.worst <= reserve'
    BY DEF WorstCovered
  <2>1. /\ Sponsoring /\ sponsoring'.worst = sponsoring.worst
        /\ sponsoring.worst \in Nat /\ sponsoring.worst <= reserve
    BY <1>4, PayTypes DEF Aside, WorstCovered
  <2>2. reserve' \in Nat /\ reserve' >= reserve
    <3>1. ASSUME NEW c \in Caller, GovernorCall(c) PROVE reserve' = reserve
      BY <2>1, <3>1
      DEF GovernorCall, WithdrawEth, WithdrawReimbursable, SweepUnaccounted, TransferGovernor,
          InitializeMigrationAccounting, SetLimits, paymaster, accounts
    <3>2. ASSUME ReserveCall PROVE reserve' \in Nat /\ reserve' >= reserve
      BY <1>0, <2>1, <3>2 DEF ReserveCall, FundEth, Refill, BurnSurplus
    <3>3. ASSUME RunCall PROVE reserve' = reserve
      BY <3>3 DEF RunCall, accounts
    <3>4. ASSUME UNCHANGED paymaster PROVE reserve' = reserve
      BY <3>4 DEF paymaster, accounts
    <3>5. ASSUME NEW c \in Caller, SponsorCall(c) PROVE FALSE
      BY <2>1, <3>5, SponsorOpens
    <3>6. ASSUME NEW spent \in Cost, NEW price \in Price, Finish(spent, price) PROVE FALSE
      BY <3>6 DEF Finish, Sponsoring
    <3>7. ASSUME NextBlock PROVE FALSE
      BY <2>1, <3>7 DEF NextBlock
    <3>. QED BY <1>0, <3>1, <3>2, <3>3, <3>4, <3>5, <3>6, <3>7 DEF PNext
  <2>. QED BY <1>0, <2>1, <2>2
<1>. QED BY <1>1, <1>2, <1>3, <1>4, StepKinds

(* Until governance has read the balance in the middle of a call, every     *)
(* open sponsorship whose application has returned can be settled, at       *)
(* whatever cost and price: next books exist, and none is below zero.       *)
SettlementGoesThrough ==
  Sponsoring /\ executing = Idle /\ ~ disturbed =>
    \A spent \in Cost, price \in Price :
      \E nextReserve, nextReimbursable, nextSurplus \in Nat, nextBal \in [Account -> Nat] :
        Settles(spent, price, nextReserve, nextReimbursable, nextSurplus, nextBal)

LEMMA SettlementExists ==
  ASSUME PayInv, WorstCovered
  PROVE  SettlementGoesThrough
<1> SUFFICES ASSUME Sponsoring, executing = Idle, ~ disturbed, NEW spent \in Cost, NEW price \in Price
             PROVE  \E nextReserve, nextReimbursable, nextSurplus \in Nat,
                       nextBal \in [Account -> Nat] :
                      Settles(spent, price, nextReserve, nextReimbursable, nextSurplus, nextBal)
  BY DEF SettlementGoesThrough
<1>1. PICK charge \in Nat, forGas \in Nat :
        /\ charge = Charge(spent, price) /\ forGas = ChargeForGas(spent, price)
        /\ forGas <= charge /\ charge <= sponsoring.maxGas
  BY ChargeBounds
<1>2. /\ sponsoring \in Sponsorships /\ sponsoring.user \in User /\ sponsoring.user \in Account
      /\ TollPaid \in Nat /\ TollPaid <= sponsoring.maxToll
      /\ sponsoring.maxToll \in Nat /\ sponsoring.maxGas \in Nat /\ sponsoring.worst \in Nat
      /\ Custody = sponsoring.maxToll + sponsoring.maxGas - TollPaid
  BY PayTypes DEF Custody, Sponsorships
<1>3. /\ reserve \in Nat /\ reimbursable \in Nat /\ surplus \in Nat
      /\ bal \in [Account -> Nat] /\ Forwarder \in Account /\ Forwarder # sponsoring.user
      /\ bal[Forwarder] \in Nat /\ bal[Forwarder] >= reimbursable + surplus + Custody
  BY <1>2, PayTypes DEF PayInv, BooksTypeOK, Backed
<1>4. PICK back \in Nat :
        /\ back = sponsoring.maxToll + sponsoring.maxGas - TollPaid - Charge(spent, price)
        /\ back <= bal[Forwarder]
  <2>1. Custody - charge \in Nat /\ Custody - charge <= bal[Forwarder]
    BY <1>1, <1>2, <1>3
  <2>. QED BY <1>1, <1>2, <2>1
<1>5. PICK paid \in Nat :
        /\ paid = IF spent > sponsoring.worst THEN sponsoring.worst ELSE spent
        /\ paid <= reserve
  <2>1. spent \in Nat /\ sponsoring.worst <= reserve
    BY PaymasterAssumption DEF WorstCovered
  <2>. QED BY <1>2, <1>3, <2>1
<1> DEFINE b == [[bal EXCEPT ![Forwarder] = @ - back] EXCEPT ![sponsoring.user] = @ + back]
<1>6. b \in [Account -> Nat]
  BY <1>2, <1>3, <1>4
<1>7. reserve - paid \in Nat /\ reimbursable + forGas \in Nat /\ surplus + charge - forGas \in Nat
  BY <1>1, <1>3, <1>5
<1>8. Settles(spent, price, reserve - paid, reimbursable + forGas, surplus + charge - forGas, b)
  BY <1>1, <1>4, <1>5 DEF Settles
<1> HIDE DEF b
<1>. QED BY <1>6, <1>7, <1>8

(* "Past this point, nothing reverts any more" (VoidPaymaster.sol:761-762): *)
(* whatever the application did in between, the charge, the refund and the  *)
(* relayer's ETH go through.                                                *)
THEOREM SettlementNeverReverts == SSpec => []SettlementGoesThrough
<1>1. SInit => WorstCovered
  BY DEF SInit, PInit, WorstCovered, Sponsoring
<1>2. PayInv /\ WorstCovered /\ [PNext /\ Observe]_<<pvars, ledger>> => WorstCovered'
  <2> SUFFICES ASSUME PayInv, WorstCovered, UNCHANGED <<pvars, ledger>>
               PROVE  WorstCovered'
    BY WorstStep
  <2>1. UNCHANGED <<reserve, sponsoring>>
    BY DEF pvars, paymaster, accounts
  <2>. QED BY <2>1 DEF WorstCovered, Sponsoring
<1>3. PayInv /\ WorstCovered => SettlementGoesThrough
  BY SettlementExists
<1>. QED BY <1>1, <1>2, <1>3, PayInductive, PTL DEF SSpec
=============================================================================
