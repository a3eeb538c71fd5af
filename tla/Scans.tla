------------------------------- MODULE Scans --------------------------------
(***************************************************************************)
(* The two jobs that read a state off the logs of the parent chain with no *)
(* database between: the public monitor, which keeps the applications of   *)
(* the runtime in a file and goes on from there                            *)
(* (script/monitor-public-v11.ts), and the inventory taken before a        *)
(* migration (script/snapshot-testnet-v11.ts).                             *)
(*                                                                         *)
(* Both pin a confirmed block, read the logs up to it a range at a time    *)
(* while the chain goes on and is reorganised, and look at the block's     *)
(* hash again before they publish.  A hash commits to everything below it, *)
(* so here a block's hash IS the chain up to it.                           *)
(*                                                                         *)
(* Abstracted: a transfer moves one unit; the inventory's reads at the     *)
(* pinned block are one; the monitor's checks of bytecode, reserves, pages *)
(* and prices are one way of failing.  Neither job sees the other, so they *)
(* run one at a time.                                                      *)
(***************************************************************************)
EXTENDS Integers, Sequences, FiniteSets

CONSTANTS
  ListedApps, TokenHolders,
  FirstHolder,             \* has the whole supply in the deploy block
  NoFile,
  CONFIRMED,               \* 20: blocks below the tip that are not read
  RANGE,                   \* 10,000: blocks of one eth_getLogs
  MaxHeight, MaxBlocks     \* bounds

ASSUME ScansAssumption ==
  /\ FirstHolder \in TokenHolders
  /\ CONFIRMED \in Nat /\ RANGE \in Nat \ {0}
  /\ MaxHeight \in Nat /\ MaxBlocks \in Nat

VARIABLES
  canon,           \* the canonical chain from the deploy block on
  made,            \* blocks ever made: a block of another fork is another block
  monitor,         \* the pass of the monitor
  monitorFile,     \* its state file
  inventory,       \* the taking of the inventory
  inventoryFile,   \* the inventory taken last
  straddled        \* history: the monitor has gone on from a block that was
                   \* abandoned before it pinned the next one

scanVars == <<canon, made, monitor, monitorFile, inventory, inventoryFile, straddled>>

Idle == [step |-> "idle"]

Deployed == [id |-> 1, event |-> <<"transfer", "nobody", FirstHolder>>]

ScansInit ==
  /\ canon = <<Deployed>> /\ made = 1
  /\ monitor = Idle /\ monitorFile = NoFile
  /\ inventory = Idle /\ inventoryFile = NoFile
  /\ straddled = FALSE

-----------------------------------------------------------------------------
(* What logs say. *)

EventsOf(blocks, e) == {i \in DOMAIN blocks : blocks[i].event = e}

\* The applications after the events, in order, from those known before.
AppsAfter(known, blocks) ==
  {a \in ListedApps :
     LET added == EventsOf(blocks, <<"registered", a>>)
         removed == EventsOf(blocks, <<"unregistered", a>>)
     IN  \/ \E i \in added : \A j \in removed : j < i
         \/ a \in known /\ removed = {}}

(* The inventory asks for AppUnregistered with three arguments.  The       *)
(* runtime's event has two, so the filter matches none of them, and an     *)
(* application once registered stays in the list.                          *)
AppsListed(blocks) == {a \in ListedApps : EventsOf(blocks, <<"registered", a>>) # {}}

Ledger(blocks) ==
  [h \in TokenHolders |->
     Cardinality({i \in DOMAIN blocks : \E g \in TokenHolders \cup {"nobody"} :
                    blocks[i].event = <<"transfer", g, h>>})
     - Cardinality({i \in DOMAIN blocks : \E g \in TokenHolders :
                      blocks[i].event = <<"transfer", h, g>>})]

-----------------------------------------------------------------------------
(* The parent chain. *)

Hash(n) == SubSeq(canon, 1, n)
Exists(n) == n \in DOMAIN canon

Happens ==
  {<<"nothing">>}
    \cup {<<"registered", a>> : a \in ListedApps \ AppsAfter({}, canon)}
    \cup {<<"unregistered", a>> : a \in AppsAfter({}, canon)}
    \cup {<<"transfer", g, h>> : g \in {k \in TokenHolders : Ledger(canon)[k] > 0},
                                 h \in TokenHolders}

Grow ==
  /\ Len(canon) < MaxHeight /\ made < MaxBlocks
  /\ \E e \in Happens : canon' = Append(canon, [id |-> made + 1, event |-> e])
  /\ made' = made + 1
  /\ UNCHANGED <<monitor, monitorFile, inventory, inventoryFile, straddled>>

(* The blocks above n are abandoned, at any moment.  If that takes the     *)
(* file's block away after the monitor has compared its hash and before it *)
(* has pinned the new one, nothing tells the pass.                         *)
AbandonAbove(n) ==
  /\ n \in 1 .. Len(canon) - 1
  /\ canon' = Hash(n)
  /\ straddled' = (straddled \/ (monitor.step = "pin" /\ n < monitor.from - 1))
  /\ UNCHANGED <<made, monitor, monitorFile, inventory, inventoryFile>>

-----------------------------------------------------------------------------
(* The monitor: readRegistry, and the end of main. *)

StartMonitor ==
  /\ monitor = Idle /\ inventory = Idle /\ Len(canon) > CONFIRMED
  /\ monitor' = [step |-> "compare", confirmed |-> Len(canon) - CONFIRMED]
  /\ UNCHANGED <<canon, made, monitorFile, inventory, inventoryFile, straddled>>

\* Seeded defect: the file is trusted whatever became of its block.
ResumesUnchecked(confirmed) ==
  monitorFile # NoFile /\ monitorFile.cursor <= confirmed

\* The file is of a block that is confirmed and still canonical.
Resumes(confirmed) ==
  /\ monitorFile # NoFile
  /\ monitorFile.cursor <= confirmed
  /\ Exists(monitorFile.cursor) /\ Hash(monitorFile.cursor) = monitorFile.hash

Compare ==
  /\ monitor.step = "compare"
  /\ LET resumed == Resumes(monitor.confirmed)
     IN  monitor' = [step |-> "pin", confirmed |-> monitor.confirmed,
                     from |-> IF resumed THEN monitorFile.cursor + 1 ELSE 1,
                     known |-> IF resumed THEN monitorFile.apps ELSE {}]
  /\ UNCHANGED <<canon, made, monitorFile, inventory, inventoryFile, straddled>>

Pin ==
  /\ monitor.step = "pin" /\ Exists(monitor.confirmed)
  /\ monitor' = [step |-> "logs", confirmed |-> monitor.confirmed, from |-> monitor.from,
                 known |-> monitor.known, pinned |-> Hash(monitor.confirmed)]
  /\ UNCHANGED <<canon, made, monitorFile, inventory, inventoryFile, straddled>>

\* eth_getLogs from "from", of at most RANGE blocks and none above "upto".
Logs(from, upto) ==
  LET last == CHOOSE n \in {from + RANGE - 1, upto, Len(canon)} :
                \A m \in {from + RANGE - 1, upto, Len(canon)} : n <= m
  IN  SubSeq(canon, from, last)

ReadLogs ==
  /\ monitor.step = "logs" /\ monitor.from <= monitor.confirmed
  /\ monitor' = [monitor EXCEPT
                   !.known = AppsAfter(@, Logs(monitor.from, monitor.confirmed)),
                   !.from = @ + RANGE]
  /\ UNCHANGED <<canon, made, monitorFile, inventory, inventoryFile, straddled>>

(* The block is looked at again, the site is compared with the registry    *)
(* and the file is written.                                                *)
Recheck ==
  /\ monitor.step = "logs" /\ monitor.from > monitor.confirmed
  /\ Exists(monitor.confirmed) /\ Hash(monitor.confirmed) = monitor.pinned
  /\ monitor' = [step |-> "write", confirmed |-> monitor.confirmed, known |-> monitor.known,
                 pinned |-> monitor.pinned]
  /\ UNCHANGED <<canon, made, monitorFile, inventory, inventoryFile, straddled>>

WriteState ==
  /\ monitor.step = "write"
  /\ monitorFile' = [cursor |-> monitor.confirmed, hash |-> monitor.pinned,
                     apps |-> monitor.known]
  /\ monitor' = Idle
  /\ UNCHANGED <<canon, made, inventory, inventoryFile, straddled>>

(* A read or a check of the pass fails, wherever it is: nothing is written. *)
MonitorFails ==
  /\ monitor # Idle
  /\ monitor' = Idle
  /\ UNCHANGED <<canon, made, monitorFile, inventory, inventoryFile, straddled>>

-----------------------------------------------------------------------------
(* The inventory. *)

PinInventory ==
  /\ inventory = Idle /\ monitor = Idle /\ Len(canon) > CONFIRMED
  /\ LET n == Len(canon) - CONFIRMED
     IN  inventory' = [step |-> "ledger", number |-> n, pinned |-> Hash(n),
                       from |-> 1, ledger |-> <<>>, apps |-> <<>>]
  /\ UNCHANGED <<canon, made, monitor, monitorFile, inventoryFile, straddled>>

\* The logs read so far, of the transfers or of the applications.
ReadRange(kind) ==
  /\ inventory.step = kind /\ inventory.from <= inventory.number
  /\ LET read == Logs(inventory.from, inventory.number)
     IN  inventory' = IF kind = "ledger"
                      THEN [inventory EXCEPT !.ledger = @ \o read, !.from = @ + RANGE]
                      ELSE [inventory EXCEPT !.apps = @ \o read, !.from = @ + RANGE]
  /\ UNCHANGED <<canon, made, monitor, monitorFile, inventoryFile, straddled>>

(* The supply, each balance, and the rest of the state at the block: the   *)
(* ledger has to be what the token says.                                   *)
Reconcile ==
  /\ inventory.step = "ledger" /\ inventory.from > inventory.number
  /\ Exists(inventory.number)
  /\ Ledger(inventory.ledger) = Ledger(Hash(inventory.number))
  /\ inventory' = [inventory EXCEPT !.step = "apps", !.from = 1]
  /\ UNCHANGED <<canon, made, monitor, monitorFile, inventoryFile, straddled>>

Publish ==
  /\ inventory.step = "apps" /\ inventory.from > inventory.number
  /\ Exists(inventory.number) /\ Hash(inventory.number) = inventory.pinned
  /\ inventoryFile' = [hash |-> inventory.pinned, balances |-> Ledger(inventory.ledger),
                       apps |-> AppsListed(inventory.apps)]
  /\ inventory' = Idle
  /\ UNCHANGED <<canon, made, monitor, monitorFile, straddled>>

InventoryFails ==
  /\ inventory # Idle
  /\ inventory' = Idle
  /\ UNCHANGED <<canon, made, monitor, monitorFile, inventoryFile, straddled>>

ScansNext ==
  \/ Grow \/ \E n \in 1 .. MaxHeight : AbandonAbove(n)
  \/ StartMonitor \/ Compare \/ Pin \/ ReadLogs \/ Recheck \/ WriteState \/ MonitorFails
  \/ PinInventory \/ ReadRange("ledger") \/ Reconcile \/ ReadRange("apps") \/ Publish
  \/ InventoryFails

ScansSpec == ScansInit /\ [][ScansNext]_scanVars

-----------------------------------------------------------------------------

(* What the monitor has published - the applications it goes on from - is  *)
(* the state at the block whose hash its file names, and so are the        *)
(* balances of the inventory, however the chain was reorganised while the  *)
(* logs were read and whichever file the pass went on from.  For the       *)
(* monitor that holds until a file's block is abandoned between the two    *)
(* reads in a row that compare its hash and pin the next block             *)
(* (monitor-public-v11.ts:34, :40): the second look of :53 does not see    *)
(* it.  The inventory lists the applications ever registered up to its     *)
(* block.                                                                  *)
PublishedAtItsHash ==
  /\ ~straddled /\ monitorFile # NoFile =>
       /\ monitorFile.apps = AppsAfter({}, monitorFile.hash)
       /\ monitorFile.cursor = Len(monitorFile.hash)
  /\ inventoryFile # NoFile =>
       /\ inventoryFile.balances = Ledger(inventoryFile.hash)
       /\ inventoryFile.apps = AppsListed(inventoryFile.hash)

(* "Fresh read-only inventory" (snapshot-testnet-v11.ts:1): the registered *)
(* applications of the inventory are those of the block it names, without  *)
(* the ones withdrawn before, which :116 takes off the list.               *)
InventoryIsFresh ==
  inventoryFile # NoFile => inventoryFile.apps = AppsAfter({}, inventoryFile.hash)
=============================================================================
