----------------------------- MODULE Authority ------------------------------
(***************************************************************************)
(* Who may do what under the runtime.  The steps are those of AppRuntime,  *)
(* with two history variables: who made the last call, and who has         *)
(* published each application that is in circulation.  No contract keeps   *)
(* them; the properties below are about them.                              *)
(***************************************************************************)
EXTENDS AppRuntime

VARIABLES
  sender,  \* msg.sender of the last call, None when an application returned
  builder  \* who brought each application of each chain into circulation

history == <<sender, builder>>

AInit ==
  /\ Init
  /\ sender = None
  /\ builder = [t \in Chain |-> [a \in App |-> None]]

\* An application that was already in circulation keeps its builder, whoever
\* registers it again.
Record(c) ==
  /\ sender' = c
  /\ builder' = [t \in Chain |-> [a \in App |->
                   IF a \in apps'[t] /\ a \notin apps[t] THEN c ELSE builder[t][a]]]

ANext ==
  \/ \E c \in Caller : Call(c) /\ Record(c)
  \/ Return /\ Record(None)

ASpec == AInit /\ [][ANext]_<<vars, history>>

-----------------------------------------------------------------------------
\* The budget dies with the call (VoidChainAppRuntime.sol:966): while a call is
\* open applications hold no permission its signature did not give, and once
\* it has returned they hold none for the next caller to inherit.
BudgetDiesWithCall ==
  /\ \A k \in Token :
       spendBudget[k] <= IF k \in DOMAIN executing.limits THEN executing.limits[k] ELSE 0
  /\ nftBudget \subseteq executing.nfts

\* The VOID of a wallet, or of the paymaster, goes down only in a call of its
\* own, or while an execution is open that spends from it, by what the signed
\* budget goes down (spendFrom, VoidChainAppRuntime.sol:855-868).
SpendsOnlySigned ==
  \A a \in User \cup {Forwarder} : bal'[a] < bal[a] =>
    \/ sender' = a
    \/ /\ executing.payer = a
       /\ bal[a] - bal'[a] <= spendBudget[Void] - spendBudget'[Void]

\* A deed changes hands only in a call of its holder, or in a call he signed
\* that names that very deed, and at most once in it.
MovesOnlySignedDeeds ==
  \A t \in Chain : owner'[t] # owner[t] =>
    \/ sender' = owner[t]
    \/ executing.caller = owner[t] /\ t \in nftBudget \ nftBudget'

OnlySigned == [][SpendsOnlySigned /\ MovesOnlySignedDeeds]_<<vars, history>>

-----------------------------------------------------------------------------
\* No chain whose price or policy nobody votes on is switched on by its
\* holder (VoidChainAppRuntime.sol:542-544); imported chains excepted.
ActiveHasDao == \A t \in Chain \ Imported : active[t] => daoOf[t] # None

\* Once a chain is configured its price and its policy follow the votes of
\* its own DAO, whoever holds the deed, and no new price passes the ceiling
\* voted for that chain.  A ceiling voted below the present price leaves it
\* standing (VoidChainAppRuntime.sol:470-481).
PriceFollowsDao ==
  [][\A t \in Chain :
       /\ feeUsd'[t] # feeUsd[t] =>
            /\ configured[t] => sender' = daoOf[t]
            /\ ceiling'[t] # None => feeUsd'[t] <= ceiling'[t]
       /\ configured[t] /\ openDeploy'[t] # openDeploy[t] => sender' = daoOf[t]
       /\ ceiling'[t] # ceiling[t] => sender' = daoOf[t] /\ feeUsd'[t] = feeUsd[t]
    ]_<<vars, history>>

\* "ONLY THE PUBLISHER can withdraw it" (VoidChainAppRuntime.sol:668): an
\* application in circulation is withdrawn by who brought it there, not by
\* the chain's holder, its DAO or another builder.
OnlyBuilderWithdraws ==
  [][\A t \in Chain, a \in App :
       a \in apps[t] /\ a \notin apps'[t] => sender' = builder[t][a]]_<<vars, history>>

\* "A closed chain admits a new app only through its DAO"
\* (VoidChainAppRuntime.sol:632): so its DAO can have one admitted.
ClosedChainAdmitsThroughDao ==
  \A t \in Chain :
    /\ active[t] /\ ~ openDeploy[t] /\ "appFactory" \in wired
    /\ \E a \in App : AppChain[a] = t /\ publisherOf[t][a] = None
    => ENABLED \E a \in App : RegisterApp(daoOf[t], t, a) \/ Publish(daoOf[t], t, a)
=============================================================================
