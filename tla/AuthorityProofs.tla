-------------------------- MODULE AuthorityProofs ---------------------------
(***************************************************************************)
(* Who may do what under the runtime, for any set of wallets, chains,      *)
(* applications, prices and budgets, and however deeply applications call  *)
(* back: budgets end with their call, a chain opens only under a DAO and   *)
(* its price follows that DAO's votes, and under the application factory   *)
(* only its builder withdraws an application.                              *)
(***************************************************************************)
EXTENDS Authority, AppRuntimeProofs

(* Every step of Authority is one of the runtime. *)
LEMMA HistoryAdds == ASpec => Spec
<1>1. AInit => Init
  BY DEF AInit
<1>2. [ANext]_<<vars, history>> => [Next]_vars
  BY DEF ANext, Next
<1>. QED BY <1>1, <1>2, PTL DEF ASpec, Spec

(* Steps of Authority in a state of the runtime's invariant: all that the  *)
(* proofs below ask of the runtime is its types.                           *)
LEMMA TypesUnderHistory == ASpec => []TypeOK
BY HistoryAdds, RuntimeTypeCorrect, PTL

(* What only the calls of one kind change. *)
LEMMA OthersKeepPolicy ==
  ASSUME NEW c,
         \/ RegistryCall(c) \/ EmergencyCall(c) \/ ExecutionCall(c) \/ RevenueCall(c)
         \/ TreasuryCall(c) /\ UNCHANGED <<policy, registry, emergency, money, execution>>
         \/ AssetsCall(c) /\ UNCHANGED <<treasury, policy, registry, emergency, money, execution>>
  PROVE  UNCHANGED policy
<1>1. CASE RegistryCall(c)
  BY <1>1 DEF RegistryCall, RegisterApp, Publish, Register, UnregisterApp
<1>2. CASE EmergencyCall(c)
  BY <1>2 DEF EmergencyCall, EmergencyPauseProtocol, ResumeProtocol, EmergencyPauseApp, ResumeApp
<1>3. CASE ExecutionCall(c)
  BY <1>3 DEF ExecutionCall, ExecuteDirect, ExecuteFor, ExecuteForPrepaid, Execute,
              SpendFrom, SpendNftFrom
<1>4. CASE RevenueCall(c)
  BY <1>4 DEF RevenueCall, Flush, SweepProtocol, ClaimOwed
<1>. QED BY <1>1, <1>2, <1>3, <1>4

LEMMA OthersKeepRegistry ==
  ASSUME NEW c,
         \/ PolicyCall(c) \/ EmergencyCall(c) \/ ExecutionCall(c) \/ RevenueCall(c)
         \/ TreasuryCall(c) /\ UNCHANGED <<policy, registry, emergency, money, execution>>
         \/ AssetsCall(c) /\ UNCHANGED <<treasury, policy, registry, emergency, money, execution>>
  PROVE  UNCHANGED registry
<1>1. CASE PolicyCall(c)
  BY <1>1 DEF PolicyCall, WireOnce, RegisterDao, SetTollCeiling, Activate, SetFee, SetActive,
              SetPermissionlessDeploy
<1>2. CASE EmergencyCall(c)
  BY <1>2 DEF EmergencyCall, EmergencyPauseProtocol, ResumeProtocol, EmergencyPauseApp, ResumeApp
<1>3. CASE ExecutionCall(c)
  BY <1>3 DEF ExecutionCall, ExecuteDirect, ExecuteFor, ExecuteForPrepaid, Execute,
              SpendFrom, SpendNftFrom
<1>4. CASE RevenueCall(c)
  BY <1>4 DEF RevenueCall, Flush, SweepProtocol, ClaimOwed
<1>. QED BY <1>1, <1>2, <1>3, <1>4

LEMMA OthersKeepExecution ==
  ASSUME NEW c,
         \/ PolicyCall(c) \/ RegistryCall(c) \/ EmergencyCall(c) \/ RevenueCall(c)
         \/ TreasuryCall(c) /\ UNCHANGED <<policy, registry, emergency, money, execution>>
         \/ AssetsCall(c) /\ UNCHANGED <<treasury, policy, registry, emergency, money, execution>>
  PROVE  UNCHANGED execution
<1>1. CASE PolicyCall(c)
  BY <1>1 DEF PolicyCall, WireOnce, RegisterDao, SetTollCeiling, Activate, SetFee, SetActive,
              SetPermissionlessDeploy
<1>2. CASE RegistryCall(c)
  BY <1>2 DEF RegistryCall, RegisterApp, Publish, Register, UnregisterApp
<1>3. CASE EmergencyCall(c)
  BY <1>3 DEF EmergencyCall, EmergencyPauseProtocol, ResumeProtocol, EmergencyPauseApp, ResumeApp
<1>4. CASE RevenueCall(c)
  BY <1>4 DEF RevenueCall, Flush, SweepProtocol, ClaimOwed
<1>. QED BY <1>1, <1>2, <1>3, <1>4

-----------------------------------------------------------------------------
(* No chain is configured without a DAO or active without being configured. *)
(* ActiveHasDao alone is not inductive: setActive asks whether the chain is *)
(* configured and never for its DAO.                                        *)
GovernedInv ==
  /\ TypeOK
  /\ \A t \in Chain \ Imported : configured[t] => daoOf[t] # None
  /\ \A t \in Chain : active[t] => configured[t]

LEMMA PolicyKeepsGoverned ==
  ASSUME GovernedInv, NEW c, PolicyCall(c)
  PROVE  /\ \A t \in Chain \ Imported : configured'[t] => daoOf'[t] # None
         /\ \A t \in Chain : active'[t] => configured'[t]
<1>0. /\ active \in [Chain -> BOOLEAN] /\ configured \in [Chain -> BOOLEAN]
      /\ daoOf \in [Chain -> DaoSet \cup {None}]
      /\ \A t \in Chain \ Imported : configured[t] => daoOf[t] # None
      /\ \A t \in Chain : active[t] => configured[t]
  BY DEF GovernedInv, TypeOK, PolicyTypeOK
<1>1. ASSUME NEW t \in Chain, RegisterDao(t)
      PROVE  /\ \A s \in Chain \ Imported : configured'[s] => daoOf'[s] # None
             /\ \A s \in Chain : active'[s] => configured'[s]
  <2>1. Dao[t] # None
    BY RuntimeAssumption DEF DaoSet
  <2>. QED BY <1>0, <1>1, <2>1 DEF RegisterDao
<1>2. ASSUME NEW t \in Chain, NEW fee \in Fee, Activate(c, t, fee)
      PROVE  /\ \A s \in Chain \ Imported : configured'[s] => daoOf'[s] # None
             /\ \A s \in Chain : active'[s] => configured'[s]
  BY <1>0, <1>2 DEF Activate
<1>3. ASSUME NEW t \in Chain, NEW on \in BOOLEAN, SetActive(c, t, on)
      PROVE  /\ \A s \in Chain \ Imported : configured'[s] => daoOf'[s] # None
             /\ \A s \in Chain : active'[s] => configured'[s]
  BY <1>0, <1>3 DEF SetActive
<1>4. ASSUME UNCHANGED <<active, configured, daoOf>>
      PROVE  /\ \A s \in Chain \ Imported : configured'[s] => daoOf'[s] # None
             /\ \A s \in Chain : active'[s] => configured'[s]
  BY <1>0, <1>4
<1>. QED BY <1>1, <1>2, <1>3, <1>4
         DEF PolicyCall, WireOnce, SetTollCeiling, SetFee, SetPermissionlessDeploy

LEMMA GovernedInductive == ASpec => []GovernedInv
<1>1. AInit => /\ \A t \in Chain : active[t] => configured[t]
               /\ \A t \in Chain : configured[t] => t \in Imported
  BY DEF AInit, Init
<1>2. AInit /\ TypeOK => GovernedInv
  BY <1>1, Zenon DEF GovernedInv
<1>3. GovernedInv /\ TypeOK' /\ [ANext]_<<vars, history>> => GovernedInv'
  <2> SUFFICES ASSUME GovernedInv, TypeOK', [ANext]_<<vars, history>>
               PROVE  GovernedInv'
    OBVIOUS
  <2>1. CASE UNCHANGED policy
    BY <2>1 DEF GovernedInv, policy
  <2>2. CASE \E c \in Caller : PolicyCall(c)
    BY <2>2, PolicyKeepsGoverned DEF GovernedInv
  <2>. QED BY <2>1, <2>2, OthersKeepPolicy DEF ANext, Call, Return, vars
<1>. QED BY <1>2, <1>3, TypesUnderHistory, PTL DEF ASpec

(* No chain is switched on before it has a DAO, imported chains excepted   *)
(* (VoidChainAppRuntime.sol:542-544).                                      *)
THEOREM ActiveChainsHaveDaos == ASpec => []ActiveHasDao
<1>1. GovernedInv => ActiveHasDao
  BY DEF GovernedInv, ActiveHasDao
<1>. QED BY <1>1, GovernedInductive, PTL
-----------------------------------------------------------------------------
(* With the types, BudgetDiesWithCall is inductive: a call opens on budgets *)
(* that are all zero.                                                       *)
LEMMA OpeningKeepsBudgets ==
  ASSUME TypeOK, BudgetDiesWithCall, executing = Idle,
         NEW limits \in Auth, NEW nfts \in SUBSET Chain, OpenAuth(limits, nfts),
         executing'.limits = limits, executing'.nfts = nfts
  PROVE  BudgetDiesWithCall'
<1>1. PICK S \in SUBSET Token : limits \in [S -> Limit]
  BY DEF Auth
<1>2. \A k \in S : limits[k] \in Nat
  BY <1>1, RuntimeAssumption
<1>3. spendBudget \in [Token -> Nat] /\ nftBudget \subseteq {}
  BY DEF TypeOK, ExecutionTypeOK, BudgetDiesWithCall, Idle
<1>4. \A k \in Token : spendBudget[k] <= 0
  BY DEF BudgetDiesWithCall, Idle
<1>5. \A k \in Token : spendBudget'[k] = IF k \in S THEN limits[k] ELSE spendBudget[k]
  BY <1>1 DEF OpenAuth
<1>6. nftBudget' \subseteq nfts
  BY <1>3 DEF OpenAuth
<1>. QED BY <1>1, <1>2, <1>3, <1>4, <1>5, <1>6 DEF BudgetDiesWithCall

LEMMA ExecutionKeepsBudgets ==
  ASSUME TypeOK, BudgetDiesWithCall, NEW c, ExecutionCall(c)
  PROVE  BudgetDiesWithCall'
<1>1. ASSUME NEW from, NEW user, NEW payer, NEW t \in Chain, NEW app \in App, NEW rate \in Rate,
             NEW maxFee \in MaxFee, NEW limits \in Auth, NEW nfts \in SUBSET Chain,
             Execute(from, user, payer, t, app, rate, maxFee, limits, nfts)
      PROVE  BudgetDiesWithCall'
  BY <1>1, OpeningKeepsBudgets DEF Execute
<1>2. ASSUME NEW token \in Token, NEW to \in Account, NEW amount \in Amount,
             SpendFrom(c, token, to, amount)
      PROVE  BudgetDiesWithCall'
  <2>1. /\ amount \in Nat /\ spendBudget \in [Token -> Nat]
        /\ spendBudget' = [spendBudget EXCEPT ![token] = @ - amount]
        /\ UNCHANGED <<executing, nftBudget>>
    BY <1>2, InitialAssumption DEF SpendFrom, TypeOK, ExecutionTypeOK
  <2>2. \A k \in Token : /\ spendBudget[k] \in Nat /\ spendBudget'[k] \in Int
                         /\ spendBudget'[k] <= spendBudget[k]
    BY <2>1
  <2>3. \A k \in Token : k \in DOMAIN executing.limits => executing.limits[k] \in Nat
    <3>1. CASE executing = Idle
      BY <3>1 DEF Idle
    <3>2. CASE executing.limits \in Auth
      <4>1. PICK S \in SUBSET Token : executing.limits \in [S -> Limit]
        BY <3>2 DEF Auth
      <4>. QED BY <4>1, RuntimeAssumption
    <3>. QED BY <3>1, <3>2 DEF TypeOK, ExecutionTypeOK
  <2>. QED BY <2>1, <2>2, <2>3 DEF BudgetDiesWithCall
<1>3. ASSUME NEW to \in User, NEW deed \in Chain, SpendNftFrom(c, to, deed)
      PROVE  BudgetDiesWithCall'
  BY <1>3 DEF SpendNftFrom, BudgetDiesWithCall
<1>. QED BY <1>1, <1>2, <1>3 DEF ExecutionCall, ExecuteDirect, ExecuteFor, ExecuteForPrepaid

LEMMA ReturnKeepsBudgets ==
  ASSUME TypeOK, BudgetDiesWithCall, Return
  PROVE  BudgetDiesWithCall'
<1>1. /\ executing'.limits = <<>> /\ executing'.nfts = {}
      /\ nftBudget' = nftBudget \ executing.nfts
      /\ \A k \in Token :
           spendBudget'[k] = IF k \in DOMAIN executing.limits THEN 0 ELSE spendBudget[k]
  BY DEF Return, Idle
<1>2. \A k \in Token : spendBudget'[k] <= 0
  BY <1>1 DEF BudgetDiesWithCall, TypeOK, ExecutionTypeOK
<1>3. nftBudget' \subseteq {}
  BY <1>1 DEF BudgetDiesWithCall
<1>4. \A k \in Token : k \notin DOMAIN executing'.limits
  BY <1>1
<1>. QED BY <1>1, <1>2, <1>3, <1>4 DEF BudgetDiesWithCall

(* While a call is open applications hold no permission its signature did  *)
(* not give, and when it has returned they hold none, whatever they called *)
(* meanwhile (VoidChainAppRuntime.sol:966).                                *)
THEOREM BudgetsDieWithTheirCall == ASpec => []BudgetDiesWithCall
<1>1. AInit => BudgetDiesWithCall
  BY DEF AInit, Init, Idle, BudgetDiesWithCall
<1>2. TypeOK /\ BudgetDiesWithCall /\ [ANext]_<<vars, history>> => BudgetDiesWithCall'
  <2> SUFFICES ASSUME TypeOK, BudgetDiesWithCall, [ANext]_<<vars, history>>
               PROVE  BudgetDiesWithCall'
    OBVIOUS
  <2>1. CASE UNCHANGED execution
    BY <2>1 DEF BudgetDiesWithCall, execution
  <2>2. CASE \E c \in Caller : ExecutionCall(c)
    BY <2>2, ExecutionKeepsBudgets
  <2>3. CASE Return
    BY <2>3, ReturnKeepsBudgets
  <2>. QED BY <2>1, <2>2, <2>3, OthersKeepExecution DEF ANext, Call, vars
<1>. QED BY <1>1, <1>2, TypesUnderHistory, PTL DEF ASpec

-----------------------------------------------------------------------------
(* The price and policy of a configured chain follow the votes of its DAO, *)
(* and no new price passes the ceiling voted for it                        *)
(* (VoidChainAppRuntime.sol:470-487, 577-593).                             *)
LEMMA PriceStep ==
  ASSUME TypeOK, NEW c, PolicyCall(c), NEW t \in Chain
  PROVE  /\ feeUsd'[t] # feeUsd[t] =>
              /\ configured[t] => c = daoOf[t]
              /\ ceiling'[t] # None => feeUsd'[t] <= ceiling'[t]
         /\ configured[t] /\ openDeploy'[t] # openDeploy[t] => c = daoOf[t]
         /\ ceiling'[t] # ceiling[t] => c = daoOf[t] /\ feeUsd'[t] = feeUsd[t]
<1> USE DEF TypeOK, PolicyTypeOK
<1>1. ASSUME NEW s \in Chain, NEW fee \in Fee, SetTollCeiling(c, s, fee)
      PROVE  /\ UNCHANGED <<feeUsd, openDeploy>>
             /\ ceiling'[t] # ceiling[t] => c = daoOf[t]
  BY <1>1 DEF SetTollCeiling
<1>2. ASSUME NEW s \in Chain, NEW fee \in Fee, Activate(c, s, fee)
      PROVE  /\ UNCHANGED ceiling
             /\ feeUsd'[t] # feeUsd[t] \/ openDeploy'[t] # openDeploy[t] =>
                  /\ ~ configured[t]
                  /\ feeUsd'[t] = fee
                  /\ ceiling[t] # None => fee <= ceiling[t]
  BY <1>2 DEF Activate, WithinCeiling
<1>3. ASSUME NEW s \in Chain, NEW fee \in Fee, SetFee(c, s, fee)
      PROVE  /\ UNCHANGED <<ceiling, openDeploy>>
             /\ feeUsd'[t] # feeUsd[t] =>
                  /\ c = daoOf[t]
                  /\ feeUsd'[t] = fee
                  /\ ceiling[t] # None => fee <= ceiling[t]
  BY <1>3 DEF SetFee, WithinCeiling
<1>4. ASSUME NEW s \in Chain, NEW on \in BOOLEAN, SetPermissionlessDeploy(c, s, on)
      PROVE  /\ UNCHANGED <<ceiling, feeUsd>>
             /\ openDeploy'[t] # openDeploy[t] => c = daoOf[t]
  BY <1>4 DEF SetPermissionlessDeploy
<1>5. ASSUME NEW s \in Chain,
             \/ RegisterDao(s)
             \/ \E on \in BOOLEAN : SetActive(c, s, on)
             \/ \E part \in Part : WireOnce(c, part)
      PROVE  UNCHANGED <<ceiling, feeUsd, openDeploy>>
  BY <1>5 DEF RegisterDao, SetActive, WireOnce
<1>. QED BY <1>1, <1>2, <1>3, <1>4, <1>5 DEF PolicyCall

(* Every change of a configured chain's price, ceiling or admission is a   *)
(* call of its own DAO (chainapp/VoidChainAppRuntime.sol, the setters).    *)
THEOREM PricesFollowTheirDao == ASpec => PriceFollowsDao
<1> DEFINE Step(t) == /\ feeUsd'[t] # feeUsd[t] =>
                            /\ configured[t] => sender' = daoOf[t]
                            /\ ceiling'[t] # None => feeUsd'[t] <= ceiling'[t]
                      /\ configured[t] /\ openDeploy'[t] # openDeploy[t] => sender' = daoOf[t]
                      /\ ceiling'[t] # ceiling[t] => sender' = daoOf[t] /\ feeUsd'[t] = feeUsd[t]
<1>1. TypeOK /\ [ANext]_<<vars, history>> => [\A t \in Chain : Step(t)]_<<vars, history>>
  <2> SUFFICES ASSUME TypeOK, ANext, NEW t \in Chain PROVE Step(t)
    OBVIOUS
  <2>1. CASE UNCHANGED policy
    BY <2>1 DEF policy
  <2>2. ASSUME NEW c \in Caller, PolicyCall(c), Record(c) PROVE Step(t)
    BY <2>2, PriceStep DEF Record
  <2>. QED BY <2>1, <2>2, OthersKeepPolicy DEF ANext, Call, Return
<1>. QED BY <1>1, TypesUnderHistory, PTL DEF ASpec, PriceFollowsDao
-----------------------------------------------------------------------------
(* Under the application factory an application in circulation has a       *)
(* publisher, and the publisher is who brought it there: the factory never *)
(* registers a gateway a second time.  Under the base contract anyone may, *)
(* and becomes the publisher.                                              *)
BuiltInv ==
  /\ TypeOK
  /\ builder \in [Chain -> [App -> Caller \cup {None}]]
  /\ \A t \in Chain, a \in App : a \in apps[t] =>
       /\ AppChain[a] = t
       /\ publisherOf[t][a] # None
       /\ builder[t][a] = publisherOf[t][a]

LEMMA PublishKeepsBuilt ==
  ASSUME BuiltInv, NEW c \in User \cup DaoSet, NEW s \in Chain, NEW app \in App,
         Publish(c, s, app), Record(c)
  PROVE  \A t \in Chain, a \in App : a \in apps'[t] =>
           AppChain[a] = t /\ publisherOf'[t][a] # None /\ builder'[t][a] = publisherOf'[t][a]
<1>1. /\ apps \in [Chain -> SUBSET App]
      /\ publisherOf \in [Chain -> [App -> Caller \cup {None}]]
      /\ c # None
  BY RuntimeAssumption, AccountAssumption DEF BuiltInv, TypeOK, RegistryTypeOK, Account
<1>2. /\ AppChain[app] = s /\ publisherOf[s][app] = None
      /\ apps' = [apps EXCEPT ![s] = @ \cup {app}]
      /\ publisherOf' = [publisherOf EXCEPT ![s][app] = c]
  BY DEF Publish, Register
<1>3. app \notin apps[s]
  BY <1>2 DEF BuiltInv
<1>4. \A t \in Chain, a \in App :
        builder'[t][a] = IF a \in apps'[t] /\ a \notin apps[t] THEN c ELSE builder[t][a]
  BY DEF Record
<1> SUFFICES ASSUME NEW t \in Chain, NEW a \in App, a \in apps'[t]
             PROVE  /\ AppChain[a] = t /\ publisherOf'[t][a] # None
                    /\ builder'[t][a] = publisherOf'[t][a]
  OBVIOUS
<1>5. CASE t = s /\ a = app
  BY <1>1, <1>2, <1>3, <1>4, <1>5
<1>6. CASE ~ (t = s /\ a = app)
  <2>1. a \in apps[t]
    BY <1>1, <1>2, <1>6
  <2>2. publisherOf'[t][a] = publisherOf[t][a]
    BY <1>1, <1>2, <1>6
  <2>. QED BY <1>4, <2>1, <2>2 DEF BuiltInv
<1>. QED BY <1>5, <1>6

LEMMA BuiltStep ==
  ASSUME ~ DirectRuntime, BuiltInv, TypeOK', [ANext]_<<vars, history>>
  PROVE  BuiltInv'
<1>1. CASE UNCHANGED <<vars, history>>
  BY <1>1 DEF BuiltInv, vars, history, registry
<1>2. ASSUME NEW c \in Caller \cup {None}, Record(c)
      PROVE  builder' \in [Chain -> [App -> Caller \cup {None}]]
  <2>1. \A t \in Chain, a \in App :
          (IF a \in apps'[t] /\ a \notin apps[t] THEN c ELSE builder[t][a]) \in Caller \cup {None}
    BY DEF BuiltInv
  <2>. QED BY <1>2, <2>1 DEF Record
<1>3. ASSUME NEW c, Record(c), \A t \in Chain : apps'[t] \subseteq apps[t], UNCHANGED publisherOf
      PROVE  \A t \in Chain, a \in App : a \in apps'[t] =>
               AppChain[a] = t /\ publisherOf'[t][a] # None /\ builder'[t][a] = publisherOf'[t][a]
  BY <1>3 DEF Record, BuiltInv
<1>4. ASSUME NEW c \in Caller, Call(c), Record(c)
      PROVE  BuiltInv'
  <2>1. CASE RegistryCall(c)
    <3>1. ASSUME NEW t \in Chain, NEW app \in App, UnregisterApp(c, t, app)
          PROVE  BuiltInv'
      <4>1. (\A s \in Chain : apps'[s] \subseteq apps[s]) /\ UNCHANGED publisherOf
        BY <3>1 DEF UnregisterApp, BuiltInv, TypeOK, RegistryTypeOK
      <4>. QED BY <1>2, <1>3, <1>4, <4>1 DEF BuiltInv
    <3>2. ASSUME NEW t \in Chain, NEW app \in App, c \in User \cup DaoSet, Publish(c, t, app)
          PROVE  BuiltInv'
      BY <1>2, <1>4, <3>2, PublishKeepsBuilt DEF BuiltInv
    <3>. QED BY <2>1, <3>1, <3>2 DEF RegistryCall, RegisterApp
  <2>2. CASE UNCHANGED registry
    <3>1. UNCHANGED <<apps, publisherOf>>
      BY <2>2 DEF registry
    <3>. QED BY <1>2, <1>3, <1>4, <3>1 DEF BuiltInv
  <2>. QED BY <1>4, <2>1, <2>2, OthersKeepRegistry DEF Call
<1>5. CASE Return /\ Record(None)
  <2>1. UNCHANGED <<apps, publisherOf>>
    BY <1>5 DEF Return, registry
  <2>. QED BY <1>2, <1>3, <1>5, <2>1 DEF BuiltInv
<1>. QED BY <1>1, <1>4, <1>5 DEF ANext

(* "ONLY THE PUBLISHER can withdraw it" (VoidChainAppRuntime.sol:668), and *)
(* under the application factory of V3 and later the publisher is who      *)
(* brought it there.                                                       *)
THEOREM OnlyItsBuilderWithdraws ==
  ASSUME ~ DirectRuntime
  PROVE  ASpec => OnlyBuilderWithdraws
<1>1. AInit /\ TypeOK => BuiltInv
  BY DEF AInit, Init, BuiltInv
<1>2. BuiltInv /\ TypeOK' /\ [ANext]_<<vars, history>> => BuiltInv'
  BY BuiltStep
<1>3. BuiltInv /\ [ANext]_<<vars, history>> =>
        [\A t \in Chain, a \in App :
           a \in apps[t] /\ a \notin apps'[t] => sender' = builder[t][a]]_<<vars, history>>
  <2> SUFFICES ASSUME BuiltInv, ANext, NEW t \in Chain, NEW a \in App,
                      a \in apps[t], a \notin apps'[t]
               PROVE  sender' = builder[t][a]
    OBVIOUS
  <2>1. ~ UNCHANGED registry
    BY DEF registry
  <2>2. PICK c \in Caller : Call(c) /\ Record(c)
    BY <2>1 DEF ANext, Return
  <2>3. RegistryCall(c)
    BY <2>1, <2>2, OthersKeepRegistry DEF Call
  <2>4. PICK s \in Chain, app \in App : UnregisterApp(c, s, app) \/ Publish(c, s, app)
    BY <2>3 DEF RegistryCall, RegisterApp
  <2>5. apps \in [Chain -> SUBSET App]
    BY DEF BuiltInv, TypeOK, RegistryTypeOK
  <2>6. CASE UnregisterApp(c, s, app)
    <3>1. t = s /\ a = app /\ c = publisherOf[t][a]
      BY <2>5, <2>6 DEF UnregisterApp
    <3>. QED BY <2>2, <3>1 DEF BuiltInv, Record
  <2>7. CASE Publish(c, s, app)
    BY <2>5, <2>7 DEF Publish, Register
  <2>. QED BY <2>4, <2>6, <2>7
<1>. QED BY <1>1, <1>2, <1>3, TypesUnderHistory, PTL DEF ASpec, OnlyBuilderWithdraws
-----------------------------------------------------------------------------
LEMMA DeedsMoveBy ==
  ASSUME TypeOK, NEW c, Call(c), NEW t \in Chain, owner'[t] # owner[t]
  PROVE  \/ c = owner[t]
         \/ executing.caller = owner[t] /\ t \in nftBudget \ nftBudget'
<1>1. owner \in [Chain -> User]
  BY DEF TypeOK, AssetsTypeOK
<1>2. CASE \E to \in User, deed \in Chain : SpendNftFrom(c, to, deed)
  BY <1>1, <1>2 DEF SpendNftFrom
<1>3. CASE \E s \in Chain, to \in User : TransferDeed(c, s, to)
  BY <1>1, <1>3 DEF TransferDeed
<1>4. CASE PolicyCall(c) \/ RegistryCall(c) \/ EmergencyCall(c)
  BY <1>4
     DEF PolicyCall, WireOnce, RegisterDao, SetTollCeiling, Activate, SetFee, SetActive,
         SetPermissionlessDeploy, RegistryCall, RegisterApp, Publish, Register, UnregisterApp,
         EmergencyCall, EmergencyPauseProtocol, ResumeProtocol, EmergencyPauseApp, ResumeApp, assets
<1>5. CASE ExecutionCall(c)
  BY <1>2, <1>5 DEF ExecutionCall, ExecuteDirect, ExecuteFor, ExecuteForPrepaid, Execute, SpendFrom
<1>6. CASE RevenueCall(c)
  BY <1>6 DEF RevenueCall, Flush, SweepProtocol, ClaimOwed, CreditTo
<1>7. CASE TreasuryCall(c)
  BY <1>7 DEF TreasuryCall, Settle, SettleTo, SettleFor, CreditTo, ClaimTo, SetProtocolTreasury,
              TransferGovernance, SetAuthorizedSettler, SetChainSettler, assets
<1>8. CASE AssetsCall(c)
  BY <1>3, <1>8 DEF AssetsCall, Transfer
<1>. QED BY <1>4, <1>5, <1>6, <1>7, <1>8 DEF Call

(* VOID and deeds leave a wallet only in a call of its own, or in a call   *)
(* it signed: the VOID within the signed limit, the deed by name and once, *)
(* whatever the applications in between call back                          *)
(* (VoidChainAppRuntime.sol:778-793, 855-868).                             *)
THEOREM OnlySignedLeaves == ASpec => OnlySigned
<1>1. TypeOK /\ [ANext]_<<vars, history>> =>
        [SpendsOnlySigned /\ MovesOnlySignedDeeds]_<<vars, history>>
  <2> SUFFICES ASSUME TypeOK, ANext
               PROVE  SpendsOnlySigned /\ MovesOnlySignedDeeds
    OBVIOUS
  <2>1. ASSUME NEW c \in Caller, Call(c), Record(c)
        PROVE  SpendsOnlySigned /\ MovesOnlySignedDeeds
    <3>1. sender' = c
      BY <2>1 DEF Record
    <3>2. ASSUME NEW a \in User \cup {Forwarder}, bal'[a] < bal[a]
          PROVE  \/ c = a
                 \/ /\ executing.payer = a
                    /\ bal[a] - bal'[a] <= spendBudget[Void] - spendBudget'[Void]
      <4>1. CASE \E token \in Token, to \in Account, amount \in Amount : SpendFrom(c, token, to, amount)
        BY <3>2, <4>1, SpendFromTakesBudget
      <4>2. CASE ~ \E token \in Token, to \in Account, amount \in Amount : SpendFrom(c, token, to, amount)
        <5>1. SUFFICES ASSUME a # c PROVE FALSE
          OBVIOUS
        <5>2. bal'[a] \in Nat /\ bal'[a] >= bal[a]
          BY <2>1, <4>2, <5>1, CallTakesFromSender
        <5>3. bal[a] \in Nat
          BY DEF TypeOK, AssetsTypeOK, Account
        <5>. QED BY <3>2, <5>2, <5>3
      <4>. QED BY <4>1, <4>2
    <3>. QED BY <2>1, <3>1, <3>2, DeedsMoveBy DEF SpendsOnlySigned, MovesOnlySignedDeeds
  <2>2. ASSUME Return PROVE SpendsOnlySigned /\ MovesOnlySignedDeeds
    <3>1. bal' = bal /\ owner' = owner
      BY <2>2 DEF Return, assets
    <3>2. \A a \in User \cup {Forwarder} : bal[a] \in Nat
      BY DEF TypeOK, AssetsTypeOK, Account
    <3>. QED BY <3>1, <3>2 DEF SpendsOnlySigned, MovesOnlySignedDeeds
  <2>. QED BY <2>1, <2>2 DEF ANext
<1>. QED BY <1>1, TypesUnderHistory, PTL DEF ASpec, OnlySigned
=============================================================================
