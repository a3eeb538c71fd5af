---------------------------- MODULE MCPaymaster -----------------------------
(***************************************************************************)
(* Sponsored calls on two chains that fail inside, succeed or cost more    *)
(* than foreseen, while the reserve is refilled, burned, funded and        *)
(* withdrawn, also by an application in the middle of a call.              *)
(***************************************************************************)
EXTENDS Sponsorship, TLC

CONSTANTS alice, bob, c1, c2, app1, app2, dao1, dao2

MCBalance == (Runtime :> 0 @@ Treasury :> 0 @@ Forwarder :> 2 @@ alice :> 14 @@ bob :> 1)
MCOwner == [t \in Chain |-> alice]
MCAppChain == [a \in App |-> IF a = app1 THEN c1 ELSE c2]
MCDao == [t \in Chain |-> IF t = c1 THEN dao1 ELSE dao2]

MCFirstLimits == [margin |-> 2500, floor |-> 12, perBlock |-> 6, perDay |-> 4,
                  threshold |-> 16, target |-> 20, slippage |-> 500]
MCLimits == {[MCFirstLimits EXCEPT !.margin = 0, !.perBlock = 0, !.perDay = 3]}

\* bob relays, governs and runs the pool; alice signs.  Her calls on the second
\* chain, where nothing is published, always fail inside.
Govern ==
  \/ \E amount \in EthIn : WithdrawEth(bob, amount)
  \/ WithdrawReimbursable(bob, bob, 1)
  \/ SweepUnaccounted(bob, bob)
  \/ reserve = FirstReserve /\ InitializeMigrationAccounting(bob, 1, 1)
  \/ \E new \in LimitsChoice : SetLimits(bob, new)
  \/ nonces[alice] = 1 /\ TransferGovernor(bob, alice)

SponsoredStep ==
  /\ \/ \E app \in App, maxToll \in MaxFee, worst \in Cost :
          Sponsor(bob, alice, AppChain[app], app, 1, maxToll, 5, worst, 1, <<>>, {})
     \/ RunCall
     \/ Return /\ UNCHANGED paymaster
     \/ \E spent \in Cost, price \in Price : Finish(spent, price)
     \/ NextBlock
     \/ Interleaved /\ (Govern \/ BurnSurplus \/ FundEth(4) \/ Refill(RefillPlan(1), 4, 1))
     \/ Interleaved /\ Publish(alice, c1, app1) /\ UNCHANGED paymaster
     \/ /\ executing # Idle /\ nonces[alice] = 1
        /\ Transfer(bob, Forwarder, 1)
        /\ UNCHANGED <<treasury, policy, registry, emergency, money, execution, paymaster>>
  /\ Observe

\* Nothing is claimed once governance has read a balance in mid-call, so
\* nothing more is explored then.
SponsoredNext == ~ disturbed /\ SponsoredStep

SponsoredSpec == SInit /\ [][SponsoredNext]_<<pvars, ledger>>

\* Governance sweeps in mid-call, and the call goes on.
SweptSpec == SInit /\ [][SponsoredStep /\ UNCHANGED migrated]_<<pvars, ledger>>
=============================================================================
