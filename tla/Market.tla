------------------------------- MODULE Market -------------------------------
(***************************************************************************)
(* The market page (web/app/market/page.tsx): it polls                     *)
(* /api/market/state, follows the accounts of the browser's wallet, drops  *)
(* what is too old, and takes a trade from the press of the button over    *)
(* two signatures to the relay and the receipt.                            *)
(*                                                                         *)
(* Answers come in any order, the wallet switches accounts at any moment,  *)
(* also while a trade is under way - which then goes on with the account   *)
(* and the quotes it was started with - and the site may be redeployed     *)
(* under the open page.  The mint page refreshes by the same generations.  *)
(*                                                                         *)
(* Abstracted: the quotes, balances and deeds of an answer; an answer is   *)
(* for an account, of a moment and of a release.  Whether the action is    *)
(* then sponsored is the business of Relay and Paymaster.                  *)
(***************************************************************************)
EXTENDS Naturals, FiniteSets

CONSTANTS
  Accounts,
  Nothing,       \* no answer, no trade
  MAX_AGE,       \* 60 s: how old an answer may be
  MaxTime, MaxRefreshes   \* bounds

ASSUME MarketAssumption ==
  /\ Nothing \notin Accounts /\ MAX_AGE \in Nat
  /\ MaxTime \in Nat /\ MaxRefreshes \in Nat

VARIABLES
  seconds,       \* the wall clock
  release,       \* the release the site serves; the open page is of release 1
  connected,     \* the account of the wallet
  generation,    \* useRef: refreshes begun or cancelled
  requests,      \* fetches of the state under way
  shown,         \* the answer on the page
  trade          \* the submission under way: its account and quotes

marketVars == <<seconds, release, connected, generation, requests, shown, trade>>

MANIFEST_HASH == 1

MarketInit ==
  /\ seconds = 0 /\ release = MANIFEST_HASH
  /\ connected \in Accounts
  /\ generation = 0 /\ requests = {} /\ shown = Nothing
  /\ trade = Nothing

-----------------------------------------------------------------------------
(* refresh *)

\* A fetch for an account; "by" tells whether the effect or a trade awaits it.
Fetch(account, by, id) ==
  /\ id <= MaxRefreshes
  /\ generation' = id
  /\ shown' = Nothing
  /\ requests' = requests \cup {[gen |-> id, account |-> account, by |-> by, answer |-> Nothing]}

(* The timer of 30 s, and the first render. *)
Poll ==
  /\ Fetch(connected, "effect", generation + 1)
  /\ UNCHANGED <<seconds, release, connected, trade>>

(* accountsChanged: the cleanup of the effect cancels what is under way,   *)
(* and the effect runs again.                                              *)
SwitchAccount ==
  /\ \E a \in Accounts \ {connected} :
       /\ connected' = a
       /\ Fetch(a, "effect", generation + 2)
  /\ UNCHANGED <<seconds, release, trade>>

(* The route reads the chain. *)
Serve(r) ==
  /\ r.answer = Nothing
  /\ requests' = (requests \ {r}) \cup {[r EXCEPT !.answer = [at |-> seconds, release |-> release]]}
  /\ UNCHANGED <<seconds, release, connected, generation, shown, trade>>

\* An error clears the page when the effect awaits the answer; a trade only
\* shows its message.
Failed(r) == IF r.by = "effect" THEN Nothing ELSE shown

\* Seeded defect: whichever answer comes last is shown.
AfterAnswerUnordered(r) ==
  IF r.answer.release # MANIFEST_HASH THEN Failed(r)
  ELSE [gen |-> r.gen, account |-> r.account, by |-> r.by, at |-> r.answer.at]

\* What the page shows after an answer.
AfterAnswer(r) ==
  IF r.answer.release # MANIFEST_HASH THEN Failed(r)
  ELSE IF r.gen # generation THEN shown
  ELSE [gen |-> r.gen, account |-> r.account, by |-> r.by, at |-> r.answer.at]

Arrive(r) ==
  /\ r.answer # Nothing
  /\ requests' = requests \ {r}
  /\ shown' = AfterAnswer(r)
  /\ UNCHANGED <<seconds, release, connected, generation, trade>>

Fail(r) ==
  /\ requests' = requests \ {r}
  /\ shown' = Failed(r)
  /\ UNCHANGED <<seconds, release, connected, generation, trade>>

TooOld == seconds > shown.at + MAX_AGE

(* The timer of 1 s drops an answer that is too old. *)
Drop ==
  /\ shown # Nothing /\ TooOld
  /\ shown' = Nothing
  /\ UNCHANGED <<seconds, release, connected, generation, requests, trade>>

-----------------------------------------------------------------------------
(* submit *)

Press ==
  /\ trade = Nothing /\ shown # Nothing /\ ~TooOld
  /\ trade' = [stage |-> "release", account |-> connected, quote |-> shown]
  /\ UNCHANGED <<seconds, release, connected, generation, requests, shown>>

CheckRelease ==
  /\ trade # Nothing /\ trade.stage = "release"
  /\ trade' = IF release = MANIFEST_HASH THEN [trade EXCEPT !.stage = "sign"] ELSE Nothing
  /\ UNCHANGED <<seconds, release, connected, generation, requests, shown>>

(* The nonce is read and the request signed with the quotes of the press. *)
SignTrade ==
  /\ trade # Nothing /\ trade.stage = "sign"
  /\ trade' = [trade EXCEPT !.stage = "relay"]
  /\ UNCHANGED <<seconds, release, connected, generation, requests, shown>>

(* The relay answers, the receipt comes, and refresh(account) is awaited   *)
(* for the account the trade began with.                                   *)
Confirm ==
  /\ trade # Nothing /\ trade.stage = "relay"
  /\ trade' = Nothing
  /\ Fetch(trade.account, "trade", generation + 1)
  /\ UNCHANGED <<seconds, release, connected>>

(* The user refuses, a read fails, the relay rejects. *)
GiveUp ==
  /\ trade # Nothing
  /\ trade' = Nothing
  /\ UNCHANGED <<seconds, release, connected, generation, requests, shown>>

-----------------------------------------------------------------------------

Redeploy ==
  /\ release = MANIFEST_HASH /\ release' = release + 1
  /\ UNCHANGED <<seconds, connected, generation, requests, shown, trade>>

Second ==
  /\ seconds < MaxTime /\ seconds' = seconds + 1
  /\ UNCHANGED <<release, connected, generation, requests, shown, trade>>

MarketNext ==
  \/ Poll \/ SwitchAccount \/ Drop
  \/ \E r \in requests : Serve(r) \/ Arrive(r) \/ Fail(r)
  \/ Press \/ CheckRelease \/ SignTrade \/ Confirm \/ GiveUp
  \/ Redeploy \/ Second

MarketSpec == MarketInit /\ [][MarketNext]_marketVars

-----------------------------------------------------------------------------

(* The page shows the answer to its newest refresh, and unless that        *)
(* refresh closed a trade begun under another account, the answer for the  *)
(* account now connected: no slow answer, of an earlier poll or of the     *)
(* account left behind, replaces a newer one.                              *)
ShowsNewestAnswer ==
  shown # Nothing =>
    /\ shown.gen = generation
    /\ shown.by = "effect" => shown.account = connected
=============================================================================
