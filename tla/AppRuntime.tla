----------------------------- MODULE AppRuntime -----------------------------
(***************************************************************************)
(* VoidChainAppRuntime and its versions V3 to V11: the contract every      *)
(* chainapp runs under, with the treasury and the two assets it uses.      *)
(*                                                                         *)
(* A transaction runs alone and a failed one leaves no trace, so a call is *)
(* one step, except an execution: it hands control to an application,      *)
(* which may call anything that the lock of nonReentrant does not close.   *)
(* An execution is therefore a step that opens it (Execute), the steps     *)
(* taken while it is open, and a step that closes it (Return).  When the   *)
(* application fails the whole transaction is undone: that is the          *)
(* behaviour in which it was never opened.                                 *)
(*                                                                         *)
(* DirectRuntime = TRUE is the base contract, where anyone registers an    *)
(* application and executes for himself; FALSE is V3 and later, where both *)
(* are disabled and the application factory publishes.                     *)
(***************************************************************************)
EXTENDS Treasury

CONSTANTS
  DirectRuntime, \* which of the two contracts
  App,           \* application contracts
  AppChain,      \* the chain each application declares
  Dao,           \* the DAO address of each chain
  Deployer, Guardian, Recovery, AppFactory,
  Token,         \* tokens a budget may name
  Void,          \* the one among them that is the fee token
  Imported,      \* chains the V6 constructor imports as configured
  Fee,           \* BOUND: fees in dollars
  Rate,          \* BOUND: VOID per dollar, as the oracle may answer
  MaxFee,        \* BOUND: the tolls callers accept
  Limit,         \* BOUND: the spending limits callers sign
  Wired0,        \* the deployment steps taken at the start
  MaxCalls       \* BOUND: calls executed

DaoSet == {Dao[t] : t \in Chain}
Caller == User \cup DaoSet \cup App \cup {Deployer, Guardian, Recovery, Forwarder}

\* The addresses the deployer writes once and nobody can change.
Part == {"forwarder", "daoFactory", "appFactory", "oracle", "roles"}

\* A signed budget: a limit for each token it names.
Auth == UNION {[S -> Limit] : S \in SUBSET Token}

ASSUME RuntimeAssumption ==
  /\ DirectRuntime \in BOOLEAN
  /\ AppChain \in [App -> Chain]
  /\ \A s, t \in Chain : Dao[s] = Dao[t] => s = t
  /\ DaoSet \cap (User \cup App \cup {None, AppFactory}) = {}
  /\ None \notin App
  /\ Void \in Token
  /\ Imported \subseteq Chain
  /\ Fee \subseteq Nat /\ Rate \subseteq Nat /\ Limit \subseteq Nat
  /\ Wired0 \subseteq Part

VARIABLES
  wired,           \* which parts the deployer has written
  active, configured, feeUsd, openDeploy,          \* apps[t], configured
  pending, pendingOwner, appRevenue, callCount,    \* apps[t], its money
  protocolAccrued, \* the 2% not yet swept
  owed,            \* revenue parked for holders who sold
  apps,            \* belongsTo: the applications of each chain
  publisherOf,     \* who published each
  daoOf,           \* the DAO of each chain
  ceiling,         \* tollCeilingUsd, None until one is voted
  protocolPaused, pausedApps,                      \* emergency switches
  executing,       \* executingChain, executingCaller, executingSpendPayer
  spendBudget,     \* what applications may still spend, by token
  nftBudget        \* which deeds they may move

policy == <<wired, active, configured, feeUsd, openDeploy, daoOf, ceiling>>
registry == <<apps, publisherOf>>
emergency == <<protocolPaused, pausedApps>>
money == <<pending, pendingOwner, appRevenue, callCount, protocolAccrued, owed>>
execution == <<executing, spendBudget, nftBudget>>
vars == <<assets, treasury, policy, registry, emergency, money, execution>>

\* No execution is open.  limits and nfts are the lists budgetedTokens and
\* budgetedCollections, kept to clear what the signature opened.
Idle == [chain |-> None, caller |-> None, payer |-> None, limits |-> <<>>, nfts |-> {}]

PolicyTypeOK ==
  /\ wired \subseteq Part
  /\ active \in [Chain -> BOOLEAN] /\ configured \in [Chain -> BOOLEAN]
  /\ feeUsd \in [Chain -> Fee \cup {0}] /\ openDeploy \in [Chain -> BOOLEAN]
  /\ daoOf \in [Chain -> DaoSet \cup {None}]
  /\ ceiling \in [Chain -> Fee \cup {None}]

RegistryTypeOK ==
  /\ apps \in [Chain -> SUBSET App]
  /\ publisherOf \in [Chain -> [App -> Caller \cup {None}]]
  /\ protocolPaused \in BOOLEAN /\ pausedApps \in [Chain -> SUBSET App]

MoneyTypeOK ==
  /\ pending \in [Chain -> Nat] /\ pendingOwner \in [Chain -> User \cup {None}]
  /\ \A t \in Chain : pending[t] # 0 => pendingOwner[t] \in User
  /\ appRevenue \in [Chain -> Nat] /\ callCount \in [Chain -> Nat]
  /\ protocolAccrued \in Nat /\ owed \in [Account -> Nat]

ExecutionTypeOK ==
  /\ \/ executing = Idle
     \/ /\ executing.chain \in Chain /\ executing.caller \in User
        /\ executing.payer \in User \cup {Forwarder}
        /\ executing.limits \in Auth /\ executing.nfts \subseteq Chain
  /\ spendBudget \in [Token -> Nat] /\ nftBudget \subseteq Chain

TypeOK ==
  /\ AssetsTypeOK /\ TreasuryTypeOK
  /\ PolicyTypeOK /\ RegistryTypeOK /\ MoneyTypeOK /\ ExecutionTypeOK

Init ==
  /\ AssetsInit /\ TreasuryInit
  /\ wired = Wired0
  /\ configured = [t \in Chain |-> t \in Imported] /\ active = configured
  /\ \E f \in Fee : feeUsd = [t \in Chain |-> IF t \in Imported THEN f ELSE 0]
  /\ openDeploy = [t \in Chain |-> t \in Imported]
  /\ pending = [t \in Chain |-> 0] /\ pendingOwner = [t \in Chain |-> None]
  /\ appRevenue = [t \in Chain |-> 0] /\ callCount = [t \in Chain |-> 0]
  /\ protocolAccrued = 0 /\ owed = [a \in Account |-> 0]
  /\ apps = [t \in Chain |-> {}] /\ pausedApps = [t \in Chain |-> {}]
  /\ publisherOf = [t \in Chain |-> [a \in App |-> None]]
  /\ daoOf = [t \in Chain |-> None] /\ ceiling = [t \in Chain |-> None]
  /\ protocolPaused = FALSE
  /\ executing = Idle
  /\ spendBudget = [k \in Token |-> 0] /\ nftBudget = {}

-----------------------------------------------------------------------------
(* Deployment and chain policy *)

\* setForwarderOnce, setDaoFactoryOnce, setAppFactoryOnce, setOracle and
\* setEmergencyRolesOnce: the deployer writes each of them once.
WireOnce(c, part) ==
  /\ c = Deployer
  /\ part \notin wired
  /\ wired' = wired \cup {part}
  /\ UNCHANGED <<assets, treasury, active, configured, feeUsd, openDeploy, daoOf, ceiling,
                 registry, emergency, money, execution>>

\* DaoFactory.create, open to anyone, registers a chain's DAO for good.
RegisterDao(t) ==
  /\ "daoFactory" \in wired
  /\ daoOf[t] = None
  /\ daoOf' = [daoOf EXCEPT ![t] = Dao[t]]
  /\ UNCHANGED <<assets, treasury, wired, active, configured, feeUsd, openDeploy, ceiling,
                 registry, emergency, money, execution>>

WithinCeiling(t, fee) == ceiling[t] # None => fee <= ceiling[t]

SetTollCeiling(c, t, usd) ==
  /\ c = daoOf[t]
  /\ ceiling' = [ceiling EXCEPT ![t] = usd]
  /\ UNCHANGED <<assets, treasury, wired, active, configured, feeUsd, openDeploy, daoOf,
                 registry, emergency, money, execution>>

\* Mutant of Activate: a chain opens without a DAO.
ActivateUngoverned(c, t, fee) ==
  /\ c = owner[t]
  /\ ~ configured[t]
  /\ WithinCeiling(t, fee)
  /\ active' = [active EXCEPT ![t] = TRUE]
  /\ configured' = [configured EXCEPT ![t] = TRUE]
  /\ feeUsd' = [feeUsd EXCEPT ![t] = fee]
  /\ openDeploy' = [openDeploy EXCEPT ![t] = TRUE]
  /\ UNCHANGED <<assets, treasury, wired, daoOf, ceiling, registry, emergency, money, execution>>

Activate(c, t, fee) ==
  /\ c = owner[t]
  /\ ~ configured[t]
  /\ daoOf[t] # None
  /\ WithinCeiling(t, fee)
  /\ active' = [active EXCEPT ![t] = TRUE]
  /\ configured' = [configured EXCEPT ![t] = TRUE]
  /\ feeUsd' = [feeUsd EXCEPT ![t] = fee]
  /\ openDeploy' = [openDeploy EXCEPT ![t] = TRUE]
  /\ UNCHANGED <<assets, treasury, wired, daoOf, ceiling, registry, emergency, money, execution>>

SetActive(c, t, on) ==
  /\ c = owner[t]
  /\ configured[t]
  /\ active[t] # on
  /\ active' = [active EXCEPT ![t] = on]
  /\ UNCHANGED <<assets, treasury, wired, configured, feeUsd, openDeploy, daoOf, ceiling,
                 registry, emergency, money, execution>>

\* Mutant of SetFee: the holder sets the price.
SetFeeByHolder(c, t, fee) ==
  /\ c = owner[t]
  /\ active[t]
  /\ WithinCeiling(t, fee)
  /\ feeUsd' = [feeUsd EXCEPT ![t] = fee]
  /\ UNCHANGED <<assets, treasury, wired, active, configured, openDeploy, daoOf, ceiling,
                 registry, emergency, money, execution>>

SetFee(c, t, fee) ==
  /\ c = daoOf[t]
  /\ active[t]
  /\ WithinCeiling(t, fee)
  /\ feeUsd' = [feeUsd EXCEPT ![t] = fee]
  /\ UNCHANGED <<assets, treasury, wired, active, configured, openDeploy, daoOf, ceiling,
                 registry, emergency, money, execution>>

SetPermissionlessDeploy(c, t, open) ==
  /\ c = daoOf[t]
  /\ openDeploy' = [openDeploy EXCEPT ![t] = open]
  /\ UNCHANGED <<assets, treasury, wired, active, configured, feeUsd, daoOf, ceiling,
                 registry, emergency, money, execution>>

-----------------------------------------------------------------------------
(* Applications and the emergency switches *)

\* registerApp, with c as msg.sender: c becomes the publisher.
Register(c, t, app, publisher) ==
  /\ active[t]
  /\ ~ openDeploy[t] => daoOf[t] = c
  /\ AppChain[app] = t
  /\ apps' = [apps EXCEPT ![t] = @ \cup {app}]
  /\ publisherOf' = [publisherOf EXCEPT ![t][app] = publisher]
  /\ UNCHANGED <<assets, treasury, policy, emergency, money, execution>>

RegisterApp(c, t, app) == DirectRuntime /\ Register(c, t, app, c)

\* AppFactory.publish: the factory deploys a gateway nobody has seen before
\* and has the runtime register it; the runtime's caller is the factory.
Publish(c, t, app) ==
  /\ ~ DirectRuntime
  /\ "appFactory" \in wired
  /\ publisherOf[AppChain[app]][app] = None
  /\ Register(AppFactory, t, app, c)

\* Mutant of UnregisterApp: the holder of the chain may withdraw it too.
UnregisterAppByHolder(c, t, app) ==
  /\ c \in {publisherOf[t][app], owner[t]}
  /\ apps' = [apps EXCEPT ![t] = @ \ {app}]
  /\ UNCHANGED <<assets, treasury, policy, publisherOf, emergency, money, execution>>

UnregisterApp(c, t, app) ==
  /\ c = publisherOf[t][app]
  /\ apps' = [apps EXCEPT ![t] = @ \ {app}]
  /\ UNCHANGED <<assets, treasury, policy, publisherOf, emergency, money, execution>>

EmergencyPauseProtocol(c) ==
  /\ "roles" \in wired /\ c = Guardian
  /\ protocolPaused' = TRUE
  /\ UNCHANGED <<assets, treasury, policy, registry, pausedApps, money, execution>>

ResumeProtocol(c) ==
  /\ "roles" \in wired /\ c = Recovery
  /\ protocolPaused' = FALSE
  /\ UNCHANGED <<assets, treasury, policy, registry, pausedApps, money, execution>>

EmergencyPauseApp(c, t, app) ==
  /\ "roles" \in wired /\ c = Guardian
  /\ app \in apps[t]
  /\ pausedApps' = [pausedApps EXCEPT ![t] = @ \cup {app}]
  /\ UNCHANGED <<assets, treasury, policy, registry, protocolPaused, money, execution>>

ResumeApp(c, t, app) ==
  /\ c = daoOf[t]
  /\ pausedApps' = [pausedApps EXCEPT ![t] = @ \ {app}]
  /\ UNCHANGED <<assets, treasury, policy, registry, protocolPaused, money, execution>>

-----------------------------------------------------------------------------
(* Executions *)

\* usdToVoid of the oracle; a free chain does not ask it.
Toll(t, rate) == feeUsd[t] * rate

\* Mutant of CollectToll: the protocol is credited, the holder not debited.
CollectTollTwice(from, t, fee) ==
  IF fee = 0
    THEN UNCHANGED <<bal, pending, pendingOwner, appRevenue, protocolAccrued, owed>>
    ELSE LET sold == pending[t] > 0 /\ pendingOwner[t] # owner[t]
         IN  /\ Move(from, Runtime, fee)
             /\ protocolAccrued' = protocolAccrued + ProtocolCut(fee)
             /\ owed' = IF sold THEN [owed EXCEPT ![pendingOwner[t]] = @ + pending[t]] ELSE owed
             /\ pending' = [pending EXCEPT ![t] = (IF sold THEN 0 ELSE @) + fee]
             /\ pendingOwner' = [pendingOwner EXCEPT ![t] = owner[t]]
             /\ appRevenue' = [appRevenue EXCEPT ![t] = @ + fee]

\* The toll of a call on chain t, paid by `from`: 2% to the protocol, the
\* rest to whoever holds the deed now.  What a former holder has earned and
\* not flushed is parked in his name first.
CollectToll(from, t, fee) ==
  IF fee = 0
    THEN UNCHANGED <<bal, pending, pendingOwner, appRevenue, protocolAccrued, owed>>
    ELSE LET sold == pending[t] > 0 /\ pendingOwner[t] # owner[t]
         IN  /\ Move(from, Runtime, fee)
             /\ protocolAccrued' = protocolAccrued + ProtocolCut(fee)
             /\ owed' = IF sold THEN [owed EXCEPT ![pendingOwner[t]] = @ + pending[t]] ELSE owed
             /\ pending' = [pending EXCEPT ![t] = (IF sold THEN 0 ELSE @) + fee - ProtocolCut(fee)]
             /\ pendingOwner' = [pendingOwner EXCEPT ![t] = owner[t]]
             /\ appRevenue' = [appRevenue EXCEPT ![t] = @ + fee]

\* _openAuth: the budget the user signed for this call.
OpenAuth(limits, nfts) ==
  /\ spendBudget' = [k \in Token |-> IF k \in DOMAIN limits THEN limits[k] ELSE spendBudget[k]]
  /\ nftBudget' = nftBudget \cup nfts

\* _execute up to the call of the application: sender pays the toll, caller
\* is the user the application sees, payer the account it may spend from.
Execute(sender, caller, payer, t, app, rate, maxFee, limits, nfts) ==
  /\ executing = Idle
  /\ ~ protocolPaused /\ active[t]
  /\ app \in apps[t] /\ app \notin pausedApps[t]
  /\ feeUsd[t] # 0 => "oracle" \in wired
  /\ Toll(t, rate) <= maxFee
  /\ SumFunctionOnSet(callCount, Chain) < MaxCalls
  /\ CollectToll(sender, t, Toll(t, rate))
  /\ callCount' = [callCount EXCEPT ![t] = @ + 1]
  /\ OpenAuth(limits, nfts)
  /\ executing' = [chain |-> t, caller |-> caller, payer |-> payer,
                   limits |-> limits, nfts |-> nfts]
  /\ UNCHANGED <<owner, treasury, policy, registry, emergency>>

\* execute and executeWithBudget, for those who send their own transactions.
ExecuteDirect(c, t, app, rate, maxFee, limits, nfts) ==
  /\ DirectRuntime /\ c \in User
  /\ Execute(c, c, c, t, app, rate, maxFee, limits, nfts)

\* executeFor and executeForWithBudget: the forwarder pays the toll and the
\* application spends from the user.
ExecuteFor(c, user, t, app, rate, maxFee, limits, nfts) ==
  /\ "forwarder" \in wired /\ c = Forwarder
  /\ Execute(c, user, user, t, app, rate, maxFee, limits, nfts)

\* executeForWithPrepaidBudget: the application spends from the forwarder.
ExecuteForPrepaid(c, user, t, app, rate, maxFee, limits, nfts) ==
  /\ "forwarder" \in wired /\ c = Forwarder
  /\ Execute(c, user, c, t, app, rate, maxFee, limits, nfts)

\* Mutant of SpendFrom: the budget is counted but not enforced.
SpendFromUnchecked(c, token, to, amount) ==
  /\ executing # Idle
  /\ c \in apps[executing.chain]
  /\ spendBudget' = [spendBudget EXCEPT ![token] = @ - amount]
  /\ IF token = Void THEN Move(executing.payer, to, amount) ELSE UNCHANGED bal
  /\ UNCHANGED <<owner, treasury, policy, registry, emergency, money, executing, nftBudget>>

\* spendFrom.  A token other than VOID keeps its own ledger elsewhere.
SpendFrom(c, token, to, amount) ==
  /\ executing # Idle
  /\ c \in apps[executing.chain]
  /\ amount <= spendBudget[token]
  /\ spendBudget' = [spendBudget EXCEPT ![token] = @ - amount]
  /\ IF token = Void THEN Move(executing.payer, to, amount) ELSE UNCHANGED bal
  /\ UNCHANGED <<owner, treasury, policy, registry, emergency, money, executing, nftBudget>>

\* Mutant of SpendNftFrom: whoever holds the deed now, it is moved.
SpendNftFromAnybody(c, to, deed) ==
  /\ executing # Idle
  /\ c \in apps[executing.chain]
  /\ deed \in nftBudget
  /\ owner' = [owner EXCEPT ![deed] = to]
  /\ UNCHANGED <<bal, treasury, policy, registry, emergency, money, executing, spendBudget, nftBudget>>

\* spendNftFrom, for the collection of deeds.
SpendNftFrom(c, to, deed) ==
  /\ executing # Idle
  /\ c \in apps[executing.chain]
  /\ deed \in nftBudget
  /\ nftBudget' = nftBudget \ {deed}
  /\ owner[deed] = executing.caller
  /\ owner' = [owner EXCEPT ![deed] = to]
  /\ UNCHANGED <<bal, treasury, policy, registry, emergency, money, executing, spendBudget>>

\* Mutant of Return: what the signature opened stays open.
ReturnUncleared ==
  /\ executing # Idle
  /\ executing' = Idle
  /\ UNCHANGED <<assets, treasury, policy, registry, emergency, money, spendBudget, nftBudget>>

\* The application has returned: the rest of _execute.
Return ==
  /\ executing # Idle
  /\ executing' = Idle
  /\ spendBudget' = [k \in Token |-> IF k \in DOMAIN executing.limits THEN 0 ELSE spendBudget[k]]
  /\ nftBudget' = nftBudget \ executing.nfts
  /\ UNCHANGED <<assets, treasury, policy, registry, emergency, money>>

-----------------------------------------------------------------------------
(* Revenue leaves for the treasury; anyone may send it on its way *)

\* Mutant of Flush: the net revenue goes to whoever holds the deed now.
FlushToHolder(t) ==
  /\ executing = Idle
  /\ pending[t] # 0
  /\ pending' = [pending EXCEPT ![t] = 0]
  /\ pendingOwner' = [pendingOwner EXCEPT ![t] = None]
  /\ CreditTo(Runtime, owner[t], pending[t])
  /\ UNCHANGED <<appRevenue, callCount, protocolAccrued, owed,
                 policy, registry, emergency, execution>>

\* Mutant of Flush: only while the earner still holds the deed.
FlushWhileHeld(t) ==
  /\ executing = Idle
  /\ pending[t] # 0 /\ pendingOwner[t] = owner[t]
  /\ pending' = [pending EXCEPT ![t] = 0]
  /\ pendingOwner' = [pendingOwner EXCEPT ![t] = None]
  /\ CreditTo(Runtime, pendingOwner[t], pending[t])
  /\ UNCHANGED <<appRevenue, callCount, protocolAccrued, owed,
                 policy, registry, emergency, execution>>

\* flush: the net revenue of chain t, credited to whoever earned it.
Flush(t) ==
  /\ executing = Idle
  /\ pending[t] # 0
  /\ pending' = [pending EXCEPT ![t] = 0]
  /\ pendingOwner' = [pendingOwner EXCEPT ![t] = None]
  /\ CreditTo(Runtime, pendingOwner[t], pending[t])
  /\ UNCHANGED <<appRevenue, callCount, protocolAccrued, owed,
                 policy, registry, emergency, execution>>

\* Mutant of SweepProtocol: what is swept stays on the book.
SweepProtocolUncleared ==
  /\ executing = Idle
  /\ protocolAccrued # 0
  /\ CreditTo(Runtime, protocolTreasury, protocolAccrued)
  /\ UNCHANGED <<pending, pendingOwner, appRevenue, callCount, protocolAccrued, owed,
                 policy, registry, emergency, execution>>

SweepProtocol ==
  /\ executing = Idle
  /\ protocolAccrued # 0
  /\ protocolAccrued' = 0
  /\ CreditTo(Runtime, protocolTreasury, protocolAccrued)
  /\ UNCHANGED <<pending, pendingOwner, appRevenue, callCount, owed,
                 policy, registry, emergency, execution>>

ClaimOwed(beneficiary) ==
  /\ executing = Idle
  /\ owed[beneficiary] # 0
  /\ owed' = [owed EXCEPT ![beneficiary] = 0]
  /\ CreditTo(Runtime, beneficiary, owed[beneficiary])
  /\ UNCHANGED <<pending, pendingOwner, appRevenue, callCount, protocolAccrued,
                 policy, registry, emergency, execution>>

-----------------------------------------------------------------------------
PolicyCall(c) ==
  \/ \E part \in Part : WireOnce(c, part)
  \/ \E t \in Chain :
       \/ c \in User /\ RegisterDao(t)
       \/ \E fee \in Fee : SetTollCeiling(c, t, fee) \/ Activate(c, t, fee) \/ SetFee(c, t, fee)
       \/ \E on \in BOOLEAN : SetActive(c, t, on) \/ SetPermissionlessDeploy(c, t, on)

RegistryCall(c) ==
  \E t \in Chain, app \in App :
    \/ c \in User \cup DaoSet /\ (RegisterApp(c, t, app) \/ Publish(c, t, app))
    \/ UnregisterApp(c, t, app)

EmergencyCall(c) ==
  \/ EmergencyPauseProtocol(c) \/ ResumeProtocol(c)
  \/ \E t \in Chain, app \in App : EmergencyPauseApp(c, t, app) \/ ResumeApp(c, t, app)

ExecutionCall(c) ==
  \/ \E t \in Chain, app \in App, rate \in Rate, maxFee \in MaxFee,
        limits \in Auth, nfts \in SUBSET Chain :
       \/ ExecuteDirect(c, t, app, rate, maxFee, limits, nfts)
       \/ \E user \in User :
            \/ ExecuteFor(c, user, t, app, rate, maxFee, limits, nfts)
            \/ ExecuteForPrepaid(c, user, t, app, rate, maxFee, limits, nfts)
  \/ \E token \in Token, to \in Account, amount \in Amount : SpendFrom(c, token, to, amount)
  \/ \E to \in User, deed \in Chain : SpendNftFrom(c, to, deed)

RevenueCall(c) ==
  /\ c \in User
  /\ \/ \E t \in Chain : Flush(t)
     \/ SweepProtocol
     \/ \E u \in User : ClaimOwed(u)

\* Any step of the system is a call of somebody, or an application returning.
Call(c) ==
  \/ PolicyCall(c) \/ RegistryCall(c) \/ EmergencyCall(c) \/ ExecutionCall(c) \/ RevenueCall(c)
  \/ TreasuryCall(c) /\ UNCHANGED <<policy, registry, emergency, money, execution>>
  \/ AssetsCall(c) /\ UNCHANGED <<treasury, policy, registry, emergency, money, execution>>

Next == (\E c \in Caller : Call(c)) \/ Return

Spec == Init /\ [][Next]_vars

-----------------------------------------------------------------------------
\* What the runtime has promised to holders, former holders and the protocol.
Liabilities ==
  SumFunctionOnSet(pending, Chain) + SumFunctionOnSet(owed, Account) + protocolAccrued

\* The runtime holds the VOID behind every promise, whatever applications,
\* deed sales and settlements happen while a call is open: no chain's revenue
\* is ever paid out of another's.
RuntimeSolvent == bal[Runtime] >= Liabilities

\* Everything account u has earned, wherever the VOID waits: still on the
\* chains where it was earned, parked at the runtime, or at the treasury.
DueOf(u) ==
  SumFunctionOnSet([t \in Chain |-> IF pendingOwner[t] = u THEN pending[t] ELSE 0], Chain)
    + owed[u] + claimable[u]

GrossAmounts == ({fee * rate : fee \in Fee, rate \in Rate} \cup Amount) \ {0}

\* Runtime and treasury keep the promise of Earnings: a deed sale, a park, a
\* flush or a credit never moves revenue from who earned it to somebody else.
Promise == INSTANCE Earnings WITH
  holder <- owner,
  due <- [u \in User |-> DueOf(u)],
  protocolDue <- protocolAccrued,
  purse <- [u \in User |-> bal[u]],
  Gross <- GrossAmounts

RevenueBelongsToEarner == Promise!Spec

-----------------------------------------------------------------------------
\* Once a chain is settled by an authorised runtime nothing is stranded: what
\* is pending can be flushed, what is parked claimed, what is credited
\* withdrawn, and the protocol's share swept.
NothingStranded ==
  executing = Idle =>
    /\ \A u \in User : claimable[u] > 0 => ENABLED ClaimTo(u)
    /\ settlerScope[Runtime] # None =>
         /\ \A t \in Chain : pending[t] > 0 => ENABLED Flush(t)
         /\ \A u \in User : owed[u] > 0 => ENABLED ClaimOwed(u)
         /\ protocolAccrued > 0 => ENABLED SweepProtocol
=============================================================================
