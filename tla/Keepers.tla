------------------------------ MODULE Keepers -------------------------------
(***************************************************************************)
(* The price of VOID and the jobs that keep it: the pool accumulates its   *)
(* price over time (contracts/genesis/VoidEthPoolV6.sol), the oracle       *)
(* publishes the average of a window (VoidTwapOracleV6.sol), a guard hides *)
(* a window that ended long ago (VoidTwapFreshnessGuardV6.sol).            *)
(*                                                                         *)
(* A keeper (web/app/api/cron/twap/route.ts, and script/update-v6-twap.ts  *)
(* without the refill) calls update and refills the paymaster's reserve;   *)
(* anybody else may, and several keepers overlap: each reads, decides, and *)
(* sends a transaction that meets another state.                           *)
(*                                                                         *)
(* Abstracted: prices are a few numbers and a unit of time some minutes;   *)
(* what a refill sells and earns is in Paymaster - here it succeeds when   *)
(* its plan, made at a rate, is within the plan of the rate it meets and   *)
(* the pool pays it.  The ETH/USD feed is not modelled.                    *)
(***************************************************************************)
EXTENDS Naturals, Sequences, Functions

CONSTANTS
  Jobs,          \* runs of a keeper
  Prices,        \* VOID per ETH
  MIN_INTERVAL,  \* 300 s
  MAX_TWAP_AGE,  \* 900 s
  LastTick       \* bound of the clock

ASSUME KeepersAssumption ==
  /\ Prices \subseteq Nat \ {0}
  /\ MIN_INTERVAL \in Nat \ {0} /\ MAX_TWAP_AGE \in Nat \ {0} /\ LastTick \in Nat

VARIABLES
  tick,      \* block.timestamp
  pool,      \* the pool: price, voidPerEthCumulative, lastTimestamp
  oracle,    \* lastCumulative, lastTimestamp (0: not bootstrapped), twapVoidPerEth
  short,     \* the reserve of the paymaster is below its threshold
  jobs,      \* where each keeper is, and what it has read
  prices,    \* history: the price of every unit of time gone by
  opened     \* history: where the published window began

keeperVars == <<tick, pool, oracle, short, jobs, prices, opened>>

KeepersInit ==
  /\ tick = 1
  /\ pool \in [price : Prices, cumulative : {0}, at : {1}]
  /\ oracle = [cumulative |-> 0, at |-> 0, rate |-> 0]
  /\ short = FALSE
  /\ jobs = [j \in Jobs |-> [pc |-> "start", read |-> 0]]
  /\ prices = <<>>
  /\ opened = 0

-----------------------------------------------------------------------------
(* The pool. *)

\* observe, and the accumulation before every swap.
Observed == pool.cumulative + pool.price * (tick - pool.at)

\* Seeded defect: a swap does not accumulate the price it ends.
MovedUnaccumulated(p) == [pool EXCEPT !.price = p]

Moved(p) == [price |-> p, cumulative |-> Observed, at |-> tick]

Swap(p) ==
  /\ p # pool.price
  /\ pool' = Moved(p)
  /\ UNCHANGED <<tick, oracle, short, jobs, prices, opened>>

-----------------------------------------------------------------------------
(* The oracle. *)

BootstrapOracle ==
  /\ oracle.at = 0 /\ Observed # 0
  /\ oracle' = [oracle EXCEPT !.cumulative = Observed, !.at = tick]
  /\ UNCHANGED <<tick, pool, short, jobs, prices, opened>>

Average == (Observed - oracle.cumulative) \div (tick - oracle.at)

Updatable ==
  /\ oracle.at # 0
  /\ tick - oracle.at >= MIN_INTERVAL
  /\ Average # 0

UpdateOracle ==
  /\ Updatable
  /\ oracle' = [cumulative |-> Observed, at |-> tick, rate |-> Average]
  /\ opened' = oracle.at

(* Anybody's update. *)
UpdateByAnybody ==
  /\ UpdateOracle
  /\ UNCHANGED <<tick, pool, short, jobs, prices>>

\* The guard.
Fresh == oracle.at # 0 /\ tick <= oracle.at + MAX_TWAP_AGE
Exposed == IF Fresh THEN oracle.rate ELSE 0

-----------------------------------------------------------------------------
(* A keeper.  Whatever it awaits may throw, which ends the run. *)

Goto(j, pc, read) == jobs' = [jobs EXCEPT ![j] = [pc |-> pc, read |-> read]]

(* lastTimestamp and the block, then the decision: elapsed < minInterval   *)
(* leaves the price.                                                       *)
ReadOracle(j) ==
  /\ jobs[j].pc = "start"
  /\ Goto(j, IF tick - oracle.at >= MIN_INTERVAL THEN "update" ELSE "plan", 0)
  /\ UNCHANGED <<tick, pool, oracle, short, prices, opened>>

(* sendTransaction estimates the gas, so it throws if update would revert. *)
SendUpdate(j) ==
  /\ jobs[j].pc = "update"
  /\ Goto(j, IF Updatable THEN "updating" ELSE "thrown", 0)
  /\ UNCHANGED <<tick, pool, oracle, short, prices, opened>>

UpdateMined(j) ==
  /\ jobs[j].pc = "updating"
  /\ \/ UpdateOracle /\ Goto(j, "plan", 0)
     \/ ~Updatable /\ Goto(j, "thrown", 0) /\ UNCHANGED <<oracle, opened>>
  /\ UNCHANGED <<tick, pool, short, prices>>

(* refillPlan: nothing when the reserve is healthy; it reverts without a   *)
(* fresh price.                                                            *)
ReadPlan(j) ==
  /\ jobs[j].pc = "plan"
  /\ \/ ~short /\ Goto(j, "over", 0)
     \/ short /\ Exposed = 0 /\ Goto(j, "thrown", 0)
     \/ short /\ Exposed # 0 /\ Goto(j, "refill", Exposed)
  /\ UNCHANGED <<tick, pool, oracle, short, prices, opened>>

\* A plan asks for missingEth * rate VOID and at least missingEth of ETH less
\* the slippage: more VOID than a lower rate now allows is refused, and so is
\* a pool that pays less than the rate of the plan.
Refillable(rate) == short /\ Exposed # 0 /\ rate <= Exposed /\ pool.price <= rate

(* The simulation. *)
SendRefill(j) ==
  /\ jobs[j].pc = "refill"
  /\ IF Refillable(jobs[j].read) THEN Goto(j, "refilling", jobs[j].read)
                                 ELSE Goto(j, "thrown", 0)
  /\ UNCHANGED <<tick, pool, oracle, short, prices, opened>>

(* VOID goes into the pool: VOID per ETH does not fall. *)
RefillMined(j) ==
  /\ jobs[j].pc = "refilling"
  /\ \/ /\ Refillable(jobs[j].read)
        /\ short' = FALSE
        /\ \E p \in {q \in Prices : q >= pool.price} : pool' = Moved(p)
        /\ Goto(j, "over", 0)
     \/ /\ ~Refillable(jobs[j].read)
        /\ Goto(j, "thrown", 0)
        /\ UNCHANGED <<short, pool>>
  /\ UNCHANGED <<tick, oracle, prices, opened>>

(* A read fails, a receipt does not come, the function's 60 s are over. *)
ThrowKeeper(j) ==
  /\ jobs[j].pc \notin {"start", "over", "thrown"}
  /\ Goto(j, "thrown", 0)
  /\ UNCHANGED <<tick, pool, oracle, short, prices, opened>>

(* The next run. *)
Schedule(j) ==
  /\ jobs[j].pc \in {"over", "thrown"}
  /\ Goto(j, "start", 0)
  /\ UNCHANGED <<tick, pool, oracle, short, prices, opened>>

-----------------------------------------------------------------------------

Sponsored ==
  /\ ~short /\ Exposed # 0
  /\ short' = TRUE
  /\ UNCHANGED <<tick, pool, oracle, jobs, prices, opened>>

Tick ==
  /\ tick < LastTick
  /\ tick' = tick + 1
  /\ prices' = Append(prices, pool.price)
  /\ UNCHANGED <<pool, oracle, short, jobs, opened>>

KeepersNext ==
  \/ (\E p \in Prices : Swap(p)) \/ BootstrapOracle \/ UpdateByAnybody
  \/ \E j \in Jobs :
       \/ ReadOracle(j) \/ SendUpdate(j) \/ UpdateMined(j)
       \/ ReadPlan(j) \/ SendRefill(j) \/ RefillMined(j)
       \/ ThrowKeeper(j) \/ Schedule(j)
  \/ Sponsored \/ Tick

KeepersSpec == KeepersInit /\ [][KeepersNext]_keeperVars

-----------------------------------------------------------------------------

\* The prices from one moment to another, summed.
Area(from, to) == SumFunctionOnSet(prices, from .. to - 1)

(* A price the paymaster and the runtime can see is the average of all the *)
(* prices of one whole window - no swap of the window is forgotten, none   *)
(* counts twice, however keepers race and swaps crowd into one moment -    *)
(* and that window was at least MIN_INTERVAL long and has ended at most    *)
(* MAX_TWAP_AGE ago.                                                       *)
PriceIsWindowAverage ==
  Exposed # 0 =>
    /\ Exposed = Area(opened, oracle.at) \div (oracle.at - opened)
    /\ oracle.at - opened >= MIN_INTERVAL
    /\ tick - oracle.at <= MAX_TWAP_AGE
=============================================================================
