------------------------------ MODULE NftVault ------------------------------
(***************************************************************************)
(* The market of deeds against VOID, an application of one chain           *)
(* (VoidGenesisNftAmmV6.sol): a deed is sold to the vault and bought from  *)
(* it for a fixed price and a fee.  The price is covered by the backing    *)
(* the genesis escrow releases for each deed once                          *)
(* (VoidGenesisEscrowV6.sol), and from then on by what the buyers paid.    *)
(*                                                                         *)
(* The inventory is a doubly linked list of deed ids, 0 for none.  A deed  *)
(* may reach the vault without a sale, by a plain transfer, and is listed  *)
(* when somebody asks for it; so the deeds of an earlier market arrive.    *)
(*                                                                         *)
(* Abstracted: the runtime takes the signed spend or the call reverts      *)
(* (AppRuntime), so a buyer pays; what treasury and stakers got is gone.   *)
(***************************************************************************)
EXTENDS Integers, Sequences, FiniteSets

CONSTANTS
  Nfts,             \* deed ids
  Traders,
  VOID_PER_DEED,
  MaxGifts          \* bound: deeds transferred to the vault for nothing

ASSUME NftVaultAssumption ==
  /\ Nfts \subseteq Nat \ {0} /\ IsFiniteSet(Nfts) /\ "vault" \notin Traders
  /\ VOID_PER_DEED \in Nat \ {0} /\ MaxGifts \in Nat

VARIABLES
  keeper,       \* who has each deed: a trader, or "vault"
  released,     \* escrow.deedReleased
  till,         \* the market's VOID
  list,         \* the inventory: head, tail, next, previous, count and the deeds in it
  arrivals,     \* auxiliary: the deeds listed, in the order they were listed in
  gifts

vaultVars == <<keeper, released, till, list, arrivals, gifts>>

Fee(bps) == (VOID_PER_DEED * bps) \div 10000
RANDOM_FEE == Fee(100)
SPECIFIC_FEE == Fee(200)
PROTOCOL_CUT == Fee(50)

BuyQuote(fee) == VOID_PER_DEED + fee + PROTOCOL_CUT
SellQuote == VOID_PER_DEED - Fee(150)

Unlinked == [n \in Nfts |-> 0]

(* Deeds of an earlier market start in the vault, their backing released   *)
(* there and paid out to whoever had sold them.                            *)
VaultInit ==
  /\ keeper \in [Nfts -> Traders \cup {"vault"}]
  /\ released = {n \in Nfts : keeper[n] = "vault"}
  /\ till = 0
  /\ list = [head |-> 0, tail |-> 0, next |-> Unlinked, previous |-> Unlinked,
             count |-> 0, listed |-> {}]
  /\ arrivals = <<>> /\ gifts = 0

-----------------------------------------------------------------------------
(* The list. *)

Added(l, n) ==
  [l EXCEPT !.head = IF l.tail = 0 THEN n ELSE @,
            !.next = IF l.tail = 0 THEN @ ELSE [@ EXCEPT ![l.tail] = n],
            !.previous = IF l.tail = 0 THEN @ ELSE [@ EXCEPT ![n] = l.tail],
            !.tail = n, !.count = @ + 1, !.listed = @ \cup {n}]

\* Seeded defect: the links of a deed that was bought stay.
RemovedLinked(l, n) ==
  LET p == l.previous[n]
      q == l.next[n]
  IN  [l EXCEPT !.head = IF p = 0 THEN q ELSE @,
                !.next = IF p = 0 THEN @ ELSE [@ EXCEPT ![p] = q],
                !.tail = IF q = 0 THEN p ELSE @,
                !.previous = IF q = 0 THEN @ ELSE [@ EXCEPT ![q] = p],
                !.count = @ - 1, !.listed = @ \ {n}]

Removed(l, n) ==
  LET p == l.previous[n]
      q == l.next[n]
  IN  [l EXCEPT !.head = IF p = 0 THEN q ELSE @,
                !.next = [i \in Nfts |-> IF i = n THEN 0 ELSE IF i = p THEN q ELSE @[i]],
                !.tail = IF q = 0 THEN p ELSE @,
                !.previous = [i \in Nfts |-> IF i = n THEN 0 ELSE IF i = q THEN p ELSE @[i]],
                !.count = @ - 1, !.listed = @ \ {n}]

\* inventoryAt(0), inventoryAt(1), ...: the first count deeds from the head on.
InventoryAt ==
  LET at[i \in 1 .. list.count] == IF i = 1 THEN list.head
                                   ELSE IF at[i - 1] = 0 THEN 0 ELSE list.next[at[i - 1]]
  IN  [i \in 1 .. list.count |-> at[i]]

-----------------------------------------------------------------------------
(* The calls.  A transfer the market cannot pay reverts the call. *)

Enlist(n) ==
  /\ n \notin list.listed
  /\ list' = Added(list, n)
  /\ arrivals' = Append(arrivals, n)

\* What the escrow pays for a deed that is listed for the first time.
Backing(n) == IF n \in released THEN 0 ELSE VOID_PER_DEED

AcceptDonation(n) ==
  /\ keeper[n] = "vault" /\ Enlist(n)
  /\ till' = till + Backing(n) /\ released' = released \cup {n}
  /\ UNCHANGED <<keeper, gifts>>

Paid(n) == SellQuote + PROTOCOL_CUT + RANDOM_FEE

SellWithPermit(t, n) ==
  /\ keeper[n] = t /\ Enlist(n)
  /\ till + Backing(n) >= Paid(n)
  /\ keeper' = [keeper EXCEPT ![n] = "vault"]
  /\ till' = till + Backing(n) - Paid(n) /\ released' = released \cup {n}
  /\ UNCHANGED gifts

\* The deed leaves the order it was listed in.
Without(s, n) ==
  LET k == CHOOSE i \in DOMAIN s : s[i] = n
  IN  [i \in 1 .. Len(s) - 1 |-> IF i < k THEN s[i] ELSE s[i + 1]]

Buy(t, n, fee) ==
  /\ n \in list.listed
  /\ list' = Removed(list, n)
  /\ arrivals' = Without(arrivals, n)
  /\ till' = till + BuyQuote(fee) - PROTOCOL_CUT - fee
  /\ keeper' = [keeper EXCEPT ![n] = t]
  /\ UNCHANGED <<released, gifts>>

\* The oldest deed of the inventory.
BuyRandom(t) == list.count # 0 /\ Buy(t, list.head, RANDOM_FEE)

BuySpecific(t, n) == Buy(t, n, SPECIFIC_FEE)

(* A transfer of the deed that the market does not see. *)
HandOver(t, n) ==
  /\ keeper[n] = t
  /\ \/ \E u \in Traders \ {t} : keeper' = [keeper EXCEPT ![n] = u] /\ UNCHANGED gifts
     \/ /\ gifts < MaxGifts /\ gifts' = gifts + 1
        /\ keeper' = [keeper EXCEPT ![n] = "vault"]
  /\ UNCHANGED <<released, till, list, arrivals>>

VaultNext ==
  \/ \E n \in Nfts : AcceptDonation(n)
  \/ \E t \in Traders, n \in Nfts : SellWithPermit(t, n) \/ BuySpecific(t, n) \/ HandOver(t, n)
  \/ \E t \in Traders : BuyRandom(t)

VaultSpec == VaultInit /\ [][VaultNext]_vaultVars

-----------------------------------------------------------------------------

(* The published price is kept: whatever was sold, bought, chosen out of   *)
(* the middle, given away or taken over from an earlier market, the market *)
(* can pay every deed outside whose backing is released, all of them       *)
(* together; and the inventory is the deeds listed and not yet bought, the *)
(* oldest first, each one in the vault's hands.                            *)
EveryDeedCanBeSold ==
  /\ till >= VOID_PER_DEED * Cardinality({n \in released : keeper[n] \in Traders})
  /\ InventoryAt = arrivals
  /\ \A n \in list.listed : keeper[n] = "vault"
=============================================================================
