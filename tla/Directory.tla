----------------------------- MODULE Directory -----------------------------
(***************************************************************************)
(* The directory of the explorer's first page (web/app/ChainsCard.tsx):    *)
(* all the chains are sent at once, those the database does not have as    *)
(* reserved (web/lib/chains.ts, allChains), and searched, ordered and      *)
(* turned over in the browser.                                             *)
(*                                                                         *)
(* A search changes what is listed at once and the page in an effect,      *)
(* after the list was rendered with the page of the search before.         *)
(*                                                                         *)
(* Abstracted: a text is a term that a chain's name or owner contains or   *)
(* does not.  What a chain shows when it is opened is ChainCard's.         *)
(***************************************************************************)
EXTENDS Integers, Sequences, FiniteSets

CONSTANTS
  TOTAL_CHAINS, PER_PAGE,
  CHAIN_ID_BASE,    \* the chain id of the first chain
  Terms,            \* what can be searched for, other than a number
  RowKinds          \* the rows the database may have of a chain

ASSUME DirectoryAssumption ==
  /\ TOTAL_CHAINS \in Nat \ {0} /\ PER_PAGE \in Nat \ {0} /\ CHAIN_ID_BASE \in Nat
  /\ \A r \in RowKinds :
       /\ r.status \in {"live", "created", "paused", "reserved"} /\ r.terms \subseteq Terms
       /\ r.txCount \in Nat /\ r.contractCount \in Nat /\ r.revenue \in Nat

VARIABLES
  rows,        \* of the database, when the page was sent
  query,       \* a number or 0, a term or ""
  sort,
  page,
  searching    \* the effect of the search is still to come

directoryVars == <<rows, query, sort, page, searching>>

STATUS_ORDER == [live |-> 0, created |-> 1, paused |-> 2, reserved |-> 3]
SortKeys == {"state", "transactions", "apps", "revenue"}
NoQuery == [number |-> 0, term |-> ""]
chainIdForToken(i) == CHAIN_ID_BASE + i - 1
Numbers == 0 .. TOTAL_CHAINS + 1 \cup {chainIdForToken(i) : i \in 1 .. TOTAL_CHAINS}
Queries == [number : Numbers, term : {""}] \cup [number : {0}, term : Terms]

ReservedRow == [status |-> "reserved", terms |-> {}, txCount |-> 0, contractCount |-> 0, revenue |-> 0]

DirectoryInit ==
  /\ rows \in UNION {[ids -> RowKinds] : ids \in SUBSET (1 .. TOTAL_CHAINS)}
  /\ query = NoQuery /\ sort = "state" /\ page = 0 /\ searching = FALSE

-----------------------------------------------------------------------------
(* What is rendered. *)

Listing(i) == IF i \in DOMAIN rows THEN rows[i] ELSE ReservedRow

\* A number is a deed's or a chain id; nothing else that contains it is found.
Found == {i \in 1 .. TOTAL_CHAINS :
            /\ query.number # 0 => query.number \in {i, chainIdForToken(i)}
            /\ query.term # "" => query.term \in Listing(i).terms}

SortValue(row) ==
  CASE sort = "state" -> STATUS_ORDER[row.status]
    [] sort = "transactions" -> -row.txCount
    [] sort = "apps" -> -row.contractCount
    [] sort = "revenue" -> -row.revenue

Before(i, j) ==
  LET left == SortValue(Listing(i))
      right == SortValue(Listing(j))
  IN  left < right \/ (left = right /\ i < j)

\* filter and sort: the number of a chain decides a tie, so there is one order.
Ordered ==
  CHOOSE s \in [1 .. Cardinality(Found) -> Found] :
    \A m, n \in DOMAIN s : m < n => Before(s[m], s[n])

Pages == IF Found = {} THEN 1 ELSE (Cardinality(Found) + PER_PAGE - 1) \div PER_PAGE

\* Seeded defect: the page of the search before.
CurrentRaw == page

Current == IF page < Pages THEN page ELSE Pages - 1

Shown ==
  LET ordered == Ordered
      first == Current * PER_PAGE
      last == first + PER_PAGE
  IN  SubSeq(ordered, first + 1, IF last < Len(ordered) THEN last ELSE Len(ordered))

-----------------------------------------------------------------------------

(* The box above the list, or the one in the page's header. *)
Search ==
  /\ ~searching
  /\ \E q \in Queries \ {query} : query' = q
  /\ searching' = TRUE
  /\ UNCHANGED <<rows, sort, page>>

ShowFirstPage ==
  /\ searching /\ searching' = FALSE
  /\ page' = 0
  /\ UNCHANGED <<rows, query, sort>>

OrderBy ==
  /\ ~searching
  /\ \E k \in SortKeys \ {sort} : sort' = k
  /\ page' = 0
  /\ UNCHANGED <<rows, query, searching>>

\* The buttons turn from the page that is shown.
TurnPage ==
  /\ ~searching
  /\ \/ Current # 0 /\ page' = Current - 1
     \/ Current < Pages - 1 /\ page' = Current + 1
  /\ UNCHANGED <<rows, query, sort, searching>>

DirectoryNext == Search \/ ShowFirstPage \/ OrderBy \/ TurnPage

DirectorySpec == DirectoryInit /\ [][DirectoryNext]_directoryVars

-----------------------------------------------------------------------------

\* How many of the chains found come before this one.
Rank(i) == Cardinality({j \in Found : Before(j, i)})

(* "A search that lands on page 9 of the old result shows an empty card":  *)
(* what was found is never hidden behind an empty page, not even before    *)
(* the effect; and the pages, one after another, list each chain found     *)
(* once, in the order chosen, those without a row included.                *)
DirectoryListsWhatItFound ==
  LET shown == Shown
      current == Current
  IN  /\ Found # {} => shown # <<>>
      /\ \A k \in DOMAIN shown :
           shown[k] \in Found /\ Rank(shown[k]) = current * PER_PAGE + k - 1
      /\ \A i \in Found :
           Rank(i) \div PER_PAGE = current => \E k \in DOMAIN shown : shown[k] = i
=============================================================================
