---------------------------- MODULE Sponsorship -----------------------------
(***************************************************************************)
(* What the paymaster promises users, relayers and its own reserve.  The   *)
(* steps are those of Paymaster, with history variables no contract keeps. *)
(***************************************************************************)
EXTENDS Paymaster

VARIABLES
  signedNonce,  \* the nonce the open sponsorship was signed with
  billed,       \* how often each signed request has been charged for
  paidToday,    \* ETH paid for each chain's calls on this day
  peak,         \* the highest reserve of this day
  disturbed     \* governance read the balance while a prefund was in it

ledger == <<signedNonce, billed, paidToday, peak, disturbed>>

SInit ==
  /\ PInit
  /\ signedNonce = 0
  /\ billed = [u \in User |-> [n \in 0..MaxNonce |-> 0]]
  /\ paidToday = [t \in Chain |-> 0]
  /\ peak = FirstReserve
  /\ disturbed = FALSE

Opens == ~ Sponsoring /\ Sponsoring'
Closes == Sponsoring /\ ~ Sponsoring'
NewDay == Day(block') # Day(block)

Observe ==
  /\ signedNonce' = IF Opens THEN nonces[sponsoring'.user] ELSE signedNonce
  /\ billed' = IF Closes THEN [billed EXCEPT ![sponsoring.user][signedNonce] = @ + 1] ELSE billed
  /\ paidToday' = IF NewDay THEN [t \in Chain |-> 0]
                  ELSE IF Closes
                    THEN [paidToday EXCEPT ![sponsoring.chain] = @ + reserve - reserve']
                    ELSE paidToday
  /\ peak' = IF NewDay \/ reserve' > peak THEN reserve' ELSE peak
  /\ disturbed' = \/ disturbed
                  \/ /\ Sponsoring
                     /\ \/ \E c \in Caller, to \in User : SweepUnaccounted(c, to)
                        \/ migrated' # migrated

SSpec == SInit /\ [][PNext /\ Observe]_<<pvars, ledger>>

-----------------------------------------------------------------------------
\* What is left in custody for the user of the open sponsorship.
Custody == IF Sponsoring THEN sponsoring.maxToll + sponsoring.maxGas - TollPaid ELSE 0

\* The paymaster holds its two accounts and, on top of them, what it took in
\* advance for the call in progress: no failure inside a call, no refill, burn
\* or withdrawal meanwhile spends a user's prefund or one account's VOID out
\* of the other.  Governance that reads the balance in the middle of a call
\* is the exception (see AccountsUntouchedBySweep).  And no account goes below
\* zero, which would revert the call: every variable keeps its type.
AccountsBacked ==
  /\ PaymasterTypeOK
  /\ disturbed \/ bal[Forwarder] >= reimbursable + surplus + Custody

\* "Past this point, nothing reverts any more" (VoidPaymaster.sol:761-762):
\* whatever the application did, and whatever the call came to cost at
\* whatever price, the charge, the refund and the relayer's ETH go through.
NothingRevertsAfterValidation ==
  Sponsoring /\ executing = Idle /\ ~ disturbed =>
    \A spent \in Cost, price \in Price : ENABLED Finish(spent, price)

\* A signed request is charged for at most once, and so run at most once,
\* even when the call inside it failed and left no trace of its own.
RequestBilledOnce == \A u \in User, n \in 0..MaxNonce : billed[u][n] <= 1

\* One compromised chain takes at most a quarter of the reserve in a day,
\* however many relayers and users send its calls and however the reserve
\* shrinks and grows meanwhile (VoidPaymaster.sol:894-906).
OneChainOneQuarter == \A t \in Chain : 4 * paidToday[t] <= peak

\* "It only reaches the excess over the two accounts, so there is no way to
\* use it to touch what is replacement or margin" (VoidPaymaster.sol:1171-1172).
AccountsUntouchedBySweep ==
  ~ Sponsoring => bal[Forwarder] >= reimbursable + surplus
=============================================================================
