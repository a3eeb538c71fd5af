------------------------------- MODULE Claims -------------------------------
(***************************************************************************)
(* How the holder of a deed gets its revenue: in three transactions from   *)
(* the button of the page (web/app/RevenueClaimButton.tsx), or in one from *)
(* contracts/parent/VoidRevenueClaimerV11.sol.  Either way a toll passes   *)
(* the buckets pending and owed of the runtime and claimable of the        *)
(* treasury, which anybody may empty into the next at any time, while the  *)
(* deed may be sold between two steps.                                     *)
(*                                                                         *)
(* Abstracted: a toll is one unit, without the protocol's part; the reads  *)
(* of one refresh are of one block.  The buckets' own bookkeeping is that  *)
(* of AppRuntime and Treasury.                                             *)
(***************************************************************************)
EXTENDS Naturals, FiniteSets, Functions

CONSTANTS
  Deeds, Holders, NoOwner,
  MaxTolls, MaxHandovers   \* bounds

ASSUME ClaimsAssumption ==
  /\ NoOwner \notin Holders /\ IsFiniteSet(Deeds)
  /\ MaxTolls \in Nat /\ MaxHandovers \in Nat

VARIABLES
  title,      \* who holds each deed
  handovers,
  earned,     \* the tolls of the deeds, by who held the deed at the time
  books,      \* the buckets, and what has been paid
  button      \* the button on the page of one deed

claimVars == <<title, handovers, earned, books, button>>

Nothing3 == [pending |-> 0, parked |-> 0, ready |-> 0]

ClaimsInit ==
  /\ title \in [Deeds -> Holders]
  /\ handovers = 0
  /\ earned = [h \in Holders |-> 0]
  /\ books = [pending |-> [d \in Deeds |-> 0], pendingOwner |-> [d \in Deeds |-> NoOwner],
              owed |-> earned, claimable |-> earned, paid |-> earned]
  /\ button \in [deed : Deeds, account : Holders, owner : {NoOwner}, revenue : {Nothing3},
                 step : {"rest"}, sent : {FALSE}]

-----------------------------------------------------------------------------
(* The buckets: b with one of them emptied into the next.  Emptying an     *)
(* empty one is what the contracts revert.                                 *)

Parked(b, d) ==
  [b EXCEPT !.pending[d] = 0, !.owed[b.pendingOwner[d]] = @ + b.pending[d]]

Flushed(b, d) ==
  [b EXCEPT !.pending[d] = 0, !.pendingOwner[d] = NoOwner,
            !.claimable[b.pendingOwner[d]] = @ + b.pending[d]]

OwedClaimed(b, h) == [b EXCEPT !.owed[h] = 0, !.claimable[h] = @ + b.owed[h]]

PaidOut(b, h) == [b EXCEPT !.claimable[h] = 0, !.paid[h] = @ + b.claimable[h]]

(* A call on the chain of d pays its toll: what a former holder left is    *)
(* parked for him first.                                                   *)
Toll(d) ==
  LET parked == IF books.pending[d] > 0 /\ books.pendingOwner[d] # title[d]
                THEN Parked(books, d) ELSE books
  IN  /\ SumFunctionOnSet(earned, Holders) < MaxTolls
      /\ books' = [parked EXCEPT !.pending[d] = @ + 1, !.pendingOwner[d] = title[d]]
      /\ earned' = [earned EXCEPT ![title[d]] = @ + 1]
      /\ UNCHANGED <<title, handovers, button>>

Sell(d, h) ==
  /\ title[d] # h /\ handovers < MaxHandovers
  /\ title' = [title EXCEPT ![d] = h]
  /\ handovers' = handovers + 1
  /\ UNCHANGED <<earned, books, button>>

(* Anybody empties one bucket. *)
EmptyBucket ==
  /\ \/ \E d \in Deeds : books.pending[d] > 0 /\ books' = Flushed(books, d)
     \/ \E h \in Holders : books.owed[h] > 0 /\ books' = OwedClaimed(books, h)
     \/ \E h \in Holders : books.claimable[h] > 0 /\ books' = PaidOut(books, h)
  /\ UNCHANGED <<title, handovers, earned, button>>

-----------------------------------------------------------------------------
(* VoidRevenueClaimerV11.claimAll: each call is made only if it will not   *)
(* revert, so none does.                                                   *)

FlushIfAny(b, d) == IF b.pending[d] # 0 THEN Flushed(b, d) ELSE b
ClaimOwedIfAny(b, h) == IF b.owed[h] # 0 THEN OwedClaimed(b, h) ELSE b
ClaimForIfAny(b, h) == IF b.claimable[h] # 0 THEN PaidOut(b, h) ELSE b

\* Seeded defect: the treasury pays before the runtime has credited it.
ClaimAllEarly(d) ==
  LET h == title[d]
  IN  /\ books' = ClaimOwedIfAny(FlushIfAny(ClaimForIfAny(books, h), d), h)
      /\ UNCHANGED <<title, handovers, earned, button>>

ClaimAll(d) ==
  LET h == title[d]
  IN  /\ books' = ClaimForIfAny(ClaimOwedIfAny(FlushIfAny(books, d), h), h)
      /\ UNCHANGED <<title, handovers, earned, button>>

-----------------------------------------------------------------------------
(* The button. *)

Revenue(b, h, d) ==
  [pending |-> IF b.pendingOwner[d] = h THEN b.pending[d] ELSE 0,
   parked |-> b.owed[h],
   ready |-> b.claimable[h]]

(* The page loads, with the owner the server knows. *)
OpenPage ==
  /\ button.step = "rest"
  /\ button' = [button EXCEPT !.owner = title[button.deed],
                              !.revenue = Revenue(books, button.account, button.deed)]
  /\ UNCHANGED <<title, handovers, earned, books>>

(* accountsChanged; a claim under way goes on for the account it began     *)
(* with, which is not modelled: the wallet switches while nothing runs.    *)
SwitchWallet(h) ==
  /\ button.step = "rest" /\ button.account # h
  /\ button' = [button EXCEPT !.account = h, !.revenue = Revenue(books, h, button.deed)]
  /\ UNCHANGED <<title, handovers, earned, books>>

\* The step after one, by what the page showed when the button was pressed.
AfterFlush(revenue) == IF revenue.parked > 0 THEN "owed" ELSE "ready"
FirstStep(revenue) == IF revenue.pending > 0 THEN "flush" ELSE AfterFlush(revenue)

PressClaim ==
  /\ button.step = "rest" /\ button.account = button.owner
  /\ button.revenue # Nothing3
  /\ button' = [button EXCEPT !.step = FirstStep(button.revenue)]
  /\ UNCHANGED <<title, handovers, earned, books>>

\* Whether the transaction of the step would go through, and to what.
Succeeds ==
  CASE button.step = "flush" -> books.pending[button.deed] > 0
    [] button.step = "owed" -> books.owed[button.account] > 0
    [] button.step = "claim" -> books.claimable[button.account] > 0

Outcome ==
  CASE button.step = "flush" -> Flushed(books, button.deed)
    [] button.step = "owed" -> OwedClaimed(books, button.account)
    [] button.step = "claim" -> PaidOut(books, button.account)

Transacting == button.step \in {"flush", "owed", "claim"}

\* The catch: a message, and what the page shows stays.
StopClaim == button' = [button EXCEPT !.step = "rest", !.sent = FALSE]

(* send: simulated first; the user may decline, a read may fail. *)
SendStep ==
  /\ Transacting /\ ~button.sent
  /\ \/ Succeeds /\ button' = [button EXCEPT !.sent = TRUE]
     \/ StopClaim
  /\ UNCHANGED <<title, handovers, earned, books>>

ReadReady ==
  /\ button.step = "ready"
  /\ IF books.claimable[button.account] > 0
     THEN button' = [button EXCEPT !.step = "claim"] ELSE StopClaim
  /\ UNCHANGED <<title, handovers, earned, books>>

StepReverted ==
  /\ Transacting /\ button.sent /\ ~Succeeds
  /\ StopClaim
  /\ UNCHANGED <<title, handovers, earned, books>>

StepConfirmed ==
  /\ Transacting /\ button.sent /\ Succeeds
  /\ books' = Outcome
  /\ button' = [button EXCEPT !.sent = FALSE,
                  !.step = CASE button.step = "flush" -> AfterFlush(button.revenue)
                             [] button.step = "owed" -> "ready"
                             [] button.step = "claim" -> "rest",
                  !.revenue = IF button.step = "claim"
                              THEN Revenue(books', button.account, button.deed)
                              ELSE button.revenue]
  /\ UNCHANGED <<title, handovers, earned>>

ClaimsNext ==
  \/ \E d \in Deeds : Toll(d) \/ ClaimAll(d) \/ \E h \in Holders : Sell(d, h)
  \/ EmptyBucket
  \/ OpenPage \/ (\E h \in Holders : SwitchWallet(h)) \/ PressClaim
  \/ SendStep \/ ReadReady \/ StepReverted \/ StepConfirmed

ClaimsSpec == ClaimsInit /\ [][ClaimsNext]_claimVars

-----------------------------------------------------------------------------

\* What is still in the buckets for h, of the chain of d and of before.
Left(b, h, d) ==
  LET r == Revenue(b, h, d) IN r.pending + r.parked + r.ready

InBuckets(h) ==
  books.owed[h] + books.claimable[h]
    + SumFunctionOnSet(books.pending, {d \in Deeds : books.pendingOwner[d] = h})

(* However the button, the claimer and strangers empty the buckets, and    *)
(* however the deed is sold in between: what was earned while an account   *)
(* held a deed is in its buckets or has been paid to it, and claimAll      *)
(* leaves the holder it pays nothing more to claim from that chain, in     *)
(* whatever state it finds the buckets.                                    *)
ClaimedByItsEarner ==
  /\ [](\A h \in Holders : earned[h] = InBuckets(h) + books.paid[h])
  /\ [][\A d \in Deeds : ClaimAll(d) => Left(books', title[d], d) = 0]_claimVars
=============================================================================
