----------------------------- MODULE MCRuntime ------------------------------
(***************************************************************************)
(* The runtime with its treasury on two chains.  A behaviour follows one   *)
(* of three questions.                                                     *)
(*                                                                         *)
(* "revenue": tolls at both ends of the 2% rule, deeds that are sold while *)
(* revenue is pending and while a call is open, settlements besides.       *)
(* "treasury": the treasury before anything calls it - settlers authorised *)
(* for one chain or for both and revoked, a recipient of the protocol's    *)
(* share and a governor that are replaced.                                 *)
(* "custody": what applications can take while a call is open.  Users      *)
(* execute for themselves and through the paymaster, with an application   *)
(* on each chain: budgets in VOID and in another token, deeds that may be  *)
(* moved, applications withdrawn and deeds sold while the call is open,    *)
(* and the call after it.                                                  *)
(***************************************************************************)
EXTENDS Authority, TLC

CONSTANTS alice, bob, c1, c2, app1, app2, dao1, dao2

VARIABLE question

MCBalance == (Runtime :> 0 @@ Treasury :> 0 @@ Forwarder :> 160 @@ alice :> 60 @@ bob :> 60)
MCOwner == (c1 :> alice @@ c2 :> bob)
MCAppChain == (app1 :> c1 @@ app2 :> c2)
MCDao == (c1 :> dao1 @@ c2 :> dao2)

Contracts == <<policy, registry, emergency, money, execution>>

-----------------------------------------------------------------------------
\* The chains are imported, open and priced; prices and policies are the
\* subject of MCPolicy.
RevenueNext ==
  \/ \E app \in App : RegisterApp(alice, AppChain[app], app) /\ Record(alice)
  \/ \E app \in App, rate \in Rate, maxFee \in MaxFee :
       /\ ExecuteForPrepaid(Forwarder, alice, AppChain[app], app, rate, maxFee, <<>>, {})
       /\ Record(Forwarder)
  \/ Return /\ Record(None)
  \/ RevenueCall(alice) /\ Record(alice)
  \/ /\ \/ \E u \in User : ClaimTo(u)
        \/ \E gross \in Amount : Settle(alice, c2, gross)
     /\ UNCHANGED Contracts
     /\ Record(alice)
  \/ /\ \E u \in SinkChoice : SetProtocolTreasury(governance, u)
     /\ UNCHANGED Contracts
     /\ Record(governance)
  \/ /\ \E to \in User : to # owner[c1] /\ TransferDeed(owner[c1], c1, to)
     /\ UNCHANGED <<treasury, Contracts>>
     /\ Record(owner[c1])

TreasuryAlone ==
  \E c \in User :
    /\ TreasuryCall(c) \/ (AssetsCall(c) /\ UNCHANGED treasury)
    /\ UNCHANGED Contracts
    /\ Record(c)

\* alice signs for the first deed or for none; bob is anybody else.
Begin(c) ==
  \E t \in Chain, app \in App, limits \in Auth, nfts \in {{}, {c1}} :
    \/ ExecuteDirect(c, t, app, 1, 1, limits, nfts)
    \/ ExecuteFor(c, alice, t, app, 1, 1, limits, nfts)
    \/ ExecuteForPrepaid(c, alice, t, app, 1, 1, limits, nfts)

CustodyNext ==
  \/ \E c \in App \cup {alice, Forwarder} :
       /\ \/ Begin(c)
          \/ \E token \in Token, to \in {bob, Runtime} : SpendFrom(c, token, to, 1)
          \/ SpendNftFrom(c, bob, c1)
          \/ \E app \in App :
               \/ c = alice /\ RegisterApp(c, AppChain[app], app)
               \/ UnregisterApp(c, AppChain[app], app)
          \/ /\ TransferDeed(c, c1, bob)
             /\ UNCHANGED <<treasury, Contracts>>
       /\ Record(c)
  \/ Return /\ Record(None)

-----------------------------------------------------------------------------
RuntimeInit == AInit /\ question \in {"revenue", "treasury", "custody"}

RuntimeNext ==
  /\ \/ question = "revenue" /\ RevenueNext
     \/ question = "treasury" /\ TreasuryAlone
     \/ question = "custody" /\ CustodyNext
  /\ UNCHANGED question

RuntimeSpec == RuntimeInit /\ [][RuntimeNext]_<<vars, history, question>>
=============================================================================
