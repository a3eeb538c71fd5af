---------------------------- MODULE SoftStaking -----------------------------
(***************************************************************************)
(* Soft staking (VoidSoftStakingV9.sol): whoever holds a deed opens a      *)
(* position of some weight; the VOID the contract is sent is streamed to   *)
(* the open positions by weight, at an integer rate over REWARD_DURATION.  *)
(* A position ends with the ownership of its deed: anybody may then        *)
(* invalidate it, and what it earned goes into the next stream.            *)
(*                                                                         *)
(* The quotients are those of the code, and so is their remainder.         *)
(* Abstracted: the price of a position, all of which is burned or passed   *)
(* on in the same call.                                                    *)
(***************************************************************************)
EXTENDS Integers, FiniteSets, Functions

CONSTANTS
  StakedDeeds,
  Weights,               \* weightBps of the tiers
  REWARD_DURATION, ACC,
  Rewards,               \* amounts the contract is sent
  MaxRewards, MaxMoves, LastDay    \* bounds

ASSUME StakingAssumption ==
  /\ IsFiniteSet(StakedDeeds) /\ Weights \subseteq Nat \ {0}
  /\ REWARD_DURATION \in Nat \ {0} /\ ACC \in Nat \ {0} /\ Rewards \subseteq Nat
  /\ MaxRewards \in Nat /\ MaxMoves \in Nat /\ LastDay \in Nat

VARIABLES
  day,         \* block.timestamp
  positions,   \* of the deeds; owner and ownership epoch are whether it has moved since
  stream,      \* totalWeight, rewardRate, periodFinish, lastUpdateTime,
               \* rewardPerWeightStored, queuedRewards
  received, paid,  \* lifetimeRewardsReceived, lifetimeRewardsPaid
  purse,       \* the contract's VOID
  sends, moves

stakingVars == <<day, positions, stream, received, paid, purse, sends, moves>>

NoPosition == [weight |-> 0]

StakingInit ==
  /\ day = 0
  /\ positions = [d \in StakedDeeds |-> NoPosition]
  /\ stream = [weight |-> 0, rate |-> 0, finish |-> 0, updated |-> 0, stored |-> 0, queued |-> 0]
  /\ received = 0 /\ paid = 0 /\ purse = 0 /\ sends = 0 /\ moves = 0

-----------------------------------------------------------------------------

\* Seeded defect: a stream that is over goes on.
ApplicableUncapped(s) == day

\* _lastApplicableTime
Applicable(s) == IF day < s.finish THEN day ELSE s.finish

RewardPerWeight(s) ==
  IF s.weight = 0 THEN s.stored
  ELSE s.stored + ((Applicable(s) - s.updated) * s.rate * ACC) \div s.weight

\* _updateGlobal
Updated(s) == [s EXCEPT !.stored = RewardPerWeight(s), !.updated = Applicable(s)]

\* _startStream; what the rate leaves over waits for the next one.
Started(s, amount) ==
  [s EXCEPT !.queued = amount % REWARD_DURATION, !.rate = amount \div REWARD_DURATION,
            !.updated = day, !.finish = day + REWARD_DURATION]

HasPosition(d) == positions[d] # NoPosition

\* What the stream has not paid yet.
Remaining == IF day < stream.finish THEN (stream.finish - day) * stream.rate ELSE 0

\* earned
Earned(d) ==
  positions[d].rewards
    + (positions[d].weight * (RewardPerWeight(stream) - positions[d].paidTo)) \div ACC

ActivateStake(d, weight) ==
  /\ ~HasPosition(d)
  /\ LET s == [Updated(stream) EXCEPT !.weight = @ + weight]
     IN  /\ positions' = [positions EXCEPT ![d] =
                            [moved |-> FALSE, weight |-> weight,
                             paidTo |-> s.stored, rewards |-> 0]]
         /\ stream' = IF s.queued # 0 /\ s.rate = 0 THEN Started(s, s.queued) ELSE s
  /\ UNCHANGED <<day, received, paid, purse, sends, moves>>

Invalidate(d) ==
  /\ HasPosition(d) /\ positions[d].moved
  /\ stream' = [Updated(stream) EXCEPT !.weight = @ - positions[d].weight,
                                       !.queued = @ + Earned(d)]
  /\ positions' = [positions EXCEPT ![d] = NoPosition]
  /\ UNCHANGED <<day, received, paid, purse, sends, moves>>

(* The owner of the position, who has held the deed ever since. *)
ClaimReward(d) ==
  /\ HasPosition(d) /\ ~positions[d].moved
  /\ LET reward == Earned(d)
     IN  /\ reward <= purse
         /\ purse' = purse - reward /\ paid' = paid + reward
  /\ stream' = Updated(stream)
  /\ positions' = [positions EXCEPT ![d].rewards = 0, ![d].paidTo = RewardPerWeight(stream)]
  /\ UNCHANGED <<day, received, sends, moves>>

SyncRewards ==
  /\ received' = purse + paid
  /\ LET s == Updated(stream)
         distributable == purse + paid - received + Remaining + s.queued
     IN  stream' = IF s.weight = 0
                   THEN [s EXCEPT !.queued = distributable, !.rate = 0, !.finish = day]
                   ELSE Started(s, distributable)
  /\ UNCHANGED <<day, positions, paid, purse, sends, moves>>

(* A cut of the market's, or a gift. *)
ReceiveVoid ==
  /\ sends < MaxRewards /\ sends' = sends + 1
  /\ \E amount \in Rewards : purse' = purse + amount
  /\ UNCHANGED <<day, positions, stream, received, paid, moves>>

\* The deed of a position moves, be it back to where it was.
MoveDeed(d) ==
  /\ moves < MaxMoves /\ moves' = moves + 1
  /\ HasPosition(d) /\ positions' = [positions EXCEPT ![d].moved = TRUE]
  /\ UNCHANGED <<day, stream, received, paid, purse, sends>>

NextDay ==
  /\ day < LastDay /\ day' = day + 1
  /\ UNCHANGED <<positions, stream, received, paid, purse, sends, moves>>

StakingNext ==
  \/ \E d \in StakedDeeds :
       \/ \E w \in Weights : ActivateStake(d, w)
       \/ Invalidate(d) \/ ClaimReward(d) \/ MoveDeed(d)
  \/ SyncRewards \/ ReceiveVoid \/ NextDay

StakingSpec == StakingInit /\ [][StakingNext]_stakingVars

-----------------------------------------------------------------------------

OpenPositions == {d \in StakedDeeds : HasPosition(d)}

(* What the positions have earned, what the stream still has to pay and    *)
(* what is queued is never more than was received and not paid: everybody  *)
(* can claim, in any order, however the quotients round and the positions  *)
(* come, change hands and go; and no call fails on a negative difference,  *)
(* neither of the two clocks of the stream nor of the books and the purse. *)
StakersFunded ==
  /\ SumFunctionOnSet([d \in OpenPositions |-> Earned(d)], OpenPositions) + Remaining + stream.queued <= received - paid
  /\ received <= purse + paid
  /\ stream.updated <= Applicable(stream)
=============================================================================
