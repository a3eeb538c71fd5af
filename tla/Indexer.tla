------------------------------ MODULE Indexer -------------------------------
(***************************************************************************)
(* The two indexers that copy the parent chain into PostgreSQL for the     *)
(* explorer - the one bounded pass of the web application that a cron      *)
(* calls (web/lib/chain-indexer.ts) and the daemon (indexer/src/index.ts   *)
(* with indexer/src/db.ts) - and what the pages read from it               *)
(* (web/lib/chains.ts).                                                    *)
(*                                                                         *)
(* An indexer is a sequence of awaits: each RPC call and each database     *)
(* transaction is a step, but for the eleven getLogs, which are two (the   *)
(* events of state, the events recorded), and the configured and statsOf   *)
(* of a hydration, which are one.  Both indexers hold one advisory lock on *)
(* a session of their own, while the writes go through the pool: a lost    *)
(* session lets two passes overlap.                                        *)
(*                                                                         *)
(* Abstracted: the projection is that of one chain imported from an        *)
(* earlier deployment, so that its activation and first owner lie before   *)
(* FIRST_BLOCK, which is beyond CONFIRMATIONS; a block of the parent holds *)
(* at most one event; the hash of a block is the history up to it.         *)
(* Applications, names, sponsored calls and the log's indices are written  *)
(* like the calls and left out.                                            *)
(***************************************************************************)
EXTENDS Integers, FiniteSets, Sequences, SequencesExt, Functions

CONSTANTS
  Crons, Daemons,        \* the invocations of the cron route; the daemons
  None,                  \* nobody
  CONFIRMATIONS, MAX_BLOCKS_PER_PASS,
  Baseline,              \* chain_migration_baseline.tx_count
  Toll,                  \* the toll of a call
  DETAIL_LIMIT,          \* the calls a chain's page lists
  Mixes,                 \* the kinds of blocks that come on one chain (a bound)
  MaxHeight, MaxReorgs, MaxFaults    \* bounds

Indexers == Crons \cup Daemons

ASSUME IndexerAssumption ==
  /\ CONFIRMATIONS \in Nat \ {0} /\ MAX_BLOCKS_PER_PASS \in Nat \ {0}
  /\ DETAIL_LIMIT \in Nat \ {0}
  /\ Baseline \in Nat /\ Toll \in Nat /\ MaxReorgs \in Nat /\ MaxFaults \in Nat
  /\ None \notin Indexers /\ Crons \cap Daemons = {}

VARIABLES
  chain,     \* the parent chain from FIRST_BLOCK on: the event of each block
  aligned,   \* indexer_deployment names this deployment
  rows,      \* transactions and chain_revenue: events, each named by its block's hash
  status, owner, total,   \* chains.status, .owner_address, chain_summary.total_txs
  cursor, cursorHash,     \* indexer_state
  lock,
  pc,        \* where an indexer is
  saved,     \* the row of indexer_state it has read
  stats, holder,                     \* what statsOf and ownerOf answered it
  from, upto, found, unchecked,      \* its range, its logs, the blocks not yet checked
  headHash,                          \* the hash of a block it has fetched
  disturbed, \* history: what a pass relied on was replaced behind its back
  reorgs, faults

database == <<aligned, rows, status, owner, total, cursor, cursorHash>>
answers == <<saved, stats, holder>>
range == <<from, upto, found, unchecked>>
locals == <<answers, range, headHash>>
indexerVars == <<chain, database, lock, pc, locals, disturbed, reorgs, faults>>

At(w, label) == pc[w] = label
Goto(w, label) == pc' = [pc EXCEPT ![w] = label]

-----------------------------------------------------------------------------
(* The parent chain. *)

\* A block without an event of the chain, or the event of one: a call, a
\* settlement, a pause or its end, a sale of the deed.
Kinds == {"quiet", "call", "settled", "paused", "resumed", "sold"}
Recorded == {"call", "settled"}
StatusKinds == {"paused", "resumed"}

Fork(n) == SubSeq(chain, 1, n)    \* the hash of block n
Height == Len(chain)
Positions(history, kinds) == {i \in DOMAIN history : history[i] \in kinds}

Latest(S, default) == IF S = {} THEN default ELSE CHOOSE i \in S : \A j \in S : j <= i

StatusAt(history) ==
  LET i == Latest(Positions(history, StatusKinds), 0) IN
  IF i # 0 /\ history[i] = "paused" THEN "paused" ELSE "live"

(* The deed's owners, numbered in the order they bought it. *)
OwnerAt(history) == Cardinality(Positions(history, {"sold"}))

(* What the runtime has collected for the chain since it was last settled. *)
PendingAt(history) ==
  LET last == Latest(Positions(history, {"settled"}), 0) IN
  Toll * Cardinality({i \in Positions(history, {"call"}) : i > last})

Follows(history, kind) ==
  CASE kind = "paused"  -> StatusAt(history) = "live"
    [] kind = "call"    -> StatusAt(history) = "live"
    [] kind = "resumed" -> StatusAt(history) = "paused"
    [] kind = "settled" -> PendingAt(history) > 0
    [] OTHER -> TRUE

OneMix(history) == \E mix \in Mixes : Range(history) \subseteq mix

Extend ==
  /\ Height < MaxHeight
  /\ \E kind \in Kinds : Follows(chain, kind) /\ chain' = Append(chain, kind)
  /\ OneMix(chain')
  /\ UNCHANGED <<database, lock, pc, locals, disturbed, reorgs, faults>>

-----------------------------------------------------------------------------
(* The database. *)

Absent == -1
NoOwner == -1
NoHash == <<"none">>
Legacy == <<"old">>     \* a block of an earlier deployment

Event(block) == block[Len(block)]
RowsOf(kind) == {block \in rows : block # Legacy /\ Event(block) = kind}
EventsOf(history) ==
  {SubSeq(history, 1, i) : i \in Positions(history, Recorded)}

(* The last blocks are replaced, at any time and to any depth.  CONFIRMATIONS *)
(* is what the code trusts: a deeper reorganisation replaces blocks that the  *)
(* database shows and passes have read.  The code survives it                 *)
(*   - when it leaves alone what is shown and what each pass relies on, or    *)
(*     a pass holds a log of a replaced block that is yet to be checked and   *)
(*     refuses to go on, or                                                   *)
(*   - when nobody works without the lock, no row is beyond the cursor, and   *)
(*     whoever is under way compares the cursor's block before anything else. *)
(* Any other leaves the projection disturbed.                                 *)
Deep(depth) == depth > CONFIRMATIONS
WithLogs == {"logs", "blocks", "mark", "write"}
StateRow == [block |-> cursor, hash |-> cursorHash]

Untouched(w, kept) ==
  /\ from[w] <= kept + 1 /\ saved[w].block <= kept
  /\ pc[w] \in WithLogs => upto[w] <= kept
Refuses(w, history) ==
  \E block \in found[w] : Len(block) \in unchecked[w] /\ block # SubSeq(history, 1, Len(block))
ComparesFirst(w) ==
  pc[w] \in {"align", "realign", "check"} \/ (At(w, "compare") /\ saved[w] = StateRow)

Survives(kept, history) ==
  \/ /\ cursor <= kept /\ \A block \in rows : Len(block) <= kept
     /\ \A w \in Indexers : Untouched(w, kept) \/ Refuses(w, history)
  \/ /\ \A block \in rows : Len(block) <= cursor
     /\ \A w \in Indexers : At(w, "idle") \/ (lock = w /\ (ComparesFirst(w) \/ Refuses(w, history)))

Reorg(depth) ==
  /\ depth \in 1..Height /\ reorgs < MaxReorgs /\ reorgs' = reorgs + 1
  /\ LET kept == SubSeq(chain, 1, Height - depth) IN
     \E kind \in Kinds \ {chain[Height - depth + 1]} :
       /\ Follows(kept, kind)
       /\ chain' = Append(kept, kind) \o [i \in 1..(depth - 1) |-> "quiet"]
  /\ OneMix(chain')
  /\ disturbed' = (disturbed \/ (Deep(depth) /\ ~Survives(Height - depth, chain')))
  /\ UNCHANGED <<database, lock, pc, locals, faults>>

ResetProjection ==
  /\ rows' = {} /\ status' = "reserved" /\ owner' = NoOwner /\ total' = 0

DeleteCursor == cursor' = Absent /\ cursorHash' = NoHash

PassWrittenIncrementing(logs, to, hash) ==
  LET statuses == {block \in logs : Event(block) \in StatusKinds}
      calls == {block \in logs : Event(block) = "call"}
      longest(S) == CHOOSE b \in S : \A c \in S : Len(c) <= Len(b)
  IN
  /\ rows' = rows \cup {block \in logs : Event(block) \in Recorded}
  /\ status' = IF statuses = {} THEN status ELSE StatusAt(longest(statuses))
  /\ IF cursor = Absent THEN UNCHANGED <<cursor, cursorHash>>
                        ELSE cursor' = to /\ cursorHash' = hash
  /\ total' = IF calls = {} THEN total
              ELSE (IF total = 0 THEN Baseline ELSE total) + Cardinality(calls)
  /\ UNCHANGED <<aligned, owner>>

(* One transaction: every row of the batch, its statuses and owners in the  *)
(* order of the log, the cursor if it is there, and the summary recounted.  *)
PassWritten(logs, to, hash) ==
  LET statuses == {block \in logs : Event(block) \in StatusKinds}
      sales == {block \in logs : Event(block) = "sold"}
      calls == {block \in logs : Event(block) = "call"}
      longest(S) == CHOOSE b \in S : \A c \in S : Len(c) <= Len(b)
  IN
  /\ rows' = rows \cup {block \in logs : Event(block) \in Recorded}
  /\ status' = IF statuses = {} THEN status ELSE StatusAt(longest(statuses))
  /\ owner' = IF sales = {} THEN owner ELSE OwnerAt(longest(sales))
  /\ IF cursor = Absent THEN UNCHANGED <<cursor, cursorHash>>
                        ELSE cursor' = to /\ cursorHash' = hash
  /\ total' = IF statuses \cup calls = {} THEN total
              ELSE Baseline + Cardinality(RowsOf("call") \cup calls)
  /\ UNCHANGED aligned

-----------------------------------------------------------------------------
(* An indexer. *)

NoRow == [block |-> Absent, hash |-> NoHash]

Forgotten(w) ==
  /\ saved' = [saved EXCEPT ![w] = NoRow]
  /\ stats' = [stats EXCEPT ![w] = "live"] /\ holder' = [holder EXCEPT ![w] = 0]
  /\ from' = [from EXCEPT ![w] = 0] /\ upto' = [upto EXCEPT ![w] = 0]
  /\ found' = [found EXCEPT ![w] = {}] /\ unchecked' = [unchecked EXCEPT ![w] = {}]
  /\ headHash' = [headHash EXCEPT ![w] = NoHash]

Released(w) == lock' = IF lock = w THEN None ELSE lock

(* A pass is over: the cron's invocation returns, the daemon waits for its *)
(* next tick and keeps the lock.                                           *)
Finish(w) ==
  /\ Forgotten(w)
  /\ IF w \in Crons THEN Goto(w, "idle") /\ Released(w)
                    ELSE Goto(w, "check") /\ UNCHANGED lock

(* pg_try_advisory_lock: whoever does not get it reports "busy" or exits. *)
Acquire(w) ==
  /\ At(w, "idle") /\ lock = None
  /\ lock' = w /\ Goto(w, "align")
  /\ UNCHANGED <<chain, database, locals, disturbed, reorgs, faults>>

(* alignDeployment: reads which deployment is mirrored, then starts anew.  *)
AfterAlign(w) == IF w \in Crons THEN "check" ELSE "seed"
SelectDeployment(w) ==
  /\ At(w, "align")
  /\ Goto(w, IF aligned THEN AfterAlign(w) ELSE "realign")
  /\ UNCHANGED <<chain, database, lock, locals, disturbed, reorgs, faults>>
AlignDeployment(w) ==
  /\ At(w, "realign")
  /\ aligned' = TRUE /\ ResetProjection /\ DeleteCursor
  /\ Goto(w, IF w \in Crons THEN "check" ELSE "import")
  /\ UNCHANGED <<chain, lock, locals, disturbed, reorgs, faults>>

(* Runtime.statsOf at the tip, confirmed or not, and what it answered.      *)
StatsOf(w, here, next) ==
  /\ At(w, here)
  /\ stats' = [stats EXCEPT ![w] = StatusAt(chain)]
  /\ Goto(w, next)
  /\ UNCHANGED <<chain, database, lock, saved, holder, range, headHash, disturbed, reorgs, faults>>
UpdateStatus(w, here, next) ==
  /\ At(w, here)
  /\ status' = stats[w] /\ stats' = [stats EXCEPT ![w] = "live"]
  /\ Goto(w, next)
  /\ UNCHANGED <<chain, aligned, rows, owner, total, cursor, cursorHash, lock,
                 saved, holder, range, headHash, disturbed, reorgs, faults>>

(* The daemon's first hydration, outside the loop that survives errors.     *)
Import(w) == StatsOf(w, "import", "importing") \/ UpdateStatus(w, "importing", "seed")

(* cursor(): the row of indexer_state, inserted if it is missing.           *)
InsertCursor == cursor' = IF cursor = Absent THEN 0 ELSE cursor
TellCursor(w) ==
  /\ At(w, "seed") \/ At(w, "tell")
  /\ InsertCursor
  /\ Goto(w, "check")
  /\ UNCHANGED <<chain, aligned, rows, status, owner, total, cursorHash, lock, locals,
                 disturbed, reorgs, faults>>

(* ensureCanonicalCursor: the cursor is read, then its block, and either    *)
(* the hash is adopted or the projection is dropped if it differs.  The     *)
(* daemon looks at block 0 as well, the cron starts at FIRST_BLOCK.         *)
First(w) == IF w \in Crons THEN 1 ELSE 0
AfterCheck(w) == IF w \in Crons THEN "hydrate" ELSE "head"

SelectState(w) ==
  /\ At(w, "check")
  /\ IF cursor # Absent /\ cursor >= First(w)
     THEN Goto(w, "compare") /\ saved' = [saved EXCEPT ![w] = StateRow]
     ELSE Goto(w, AfterCheck(w)) /\ UNCHANGED saved
  /\ UNCHANGED <<chain, database, lock, stats, holder, range, headHash, disturbed, reorgs, faults>>

GetSavedBlockOverwriting(w) ==
  /\ At(w, "compare")
  /\ headHash' = [headHash EXCEPT ![w] = Fork(saved[w].block)]
  /\ Goto(w, "adopt")
  /\ UNCHANGED <<chain, database, lock, saved, stats, holder, range, disturbed, reorgs, faults>>

GetSavedBlock(w) ==
  LET canonical == Fork(saved[w].block) IN
  /\ At(w, "compare")
  /\ IF saved[w].hash = NoHash
     THEN /\ headHash' = [headHash EXCEPT ![w] = canonical]
          /\ Goto(w, "adopt") /\ UNCHANGED saved
     ELSE /\ Goto(w, IF saved[w].hash = canonical THEN AfterCheck(w) ELSE "reset")
          /\ saved' = [saved EXCEPT ![w] = NoRow] /\ UNCHANGED headHash
  /\ UNCHANGED <<chain, database, lock, stats, holder, range, disturbed, reorgs, faults>>

(* The hash goes to whatever the row is by now: to another block, if a pass *)
(* without the lock has moved the cursor.                                   *)
AdoptHash(w) ==
  /\ At(w, "adopt")
  /\ cursorHash' = IF cursor = Absent THEN NoHash ELSE headHash[w]
  /\ disturbed' = (disturbed \/ cursor \notin {Absent, saved[w].block})
  /\ saved' = [saved EXCEPT ![w] = NoRow] /\ headHash' = [headHash EXCEPT ![w] = NoHash]
  /\ Goto(w, AfterCheck(w))
  /\ UNCHANGED <<chain, aligned, rows, status, owner, total, cursor, lock, stats, holder,
                 range, reorgs, faults>>

Reset(w) ==
  /\ At(w, "reset")
  /\ ResetProjection /\ DeleteCursor
  /\ Goto(w, "hydrate")
  /\ UNCHANGED <<chain, aligned, lock, locals, disturbed, reorgs, faults>>

AfterHydrate(w) == IF w \in Crons THEN "range" ELSE "head"

UpdateStatusOnce(w, here, next) ==
  /\ At(w, here)
  /\ status' = IF status = "reserved" THEN stats[w] ELSE status
  /\ stats' = [stats EXCEPT ![w] = "live"]
  /\ Goto(w, next)
  /\ UNCHANGED <<chain, aligned, rows, owner, total, cursor, cursorHash, lock,
                 saved, holder, range, headHash, disturbed, reorgs, faults>>
HydrateImportedRuntimeStateOnce(w) ==
  \/ StatsOf(w, "hydrate", "hydrating")
  \/ UpdateStatusOnce(w, "hydrating", AfterHydrate(w))

HydrateImportedRuntimeState(w) ==
  \/ StatsOf(w, "hydrate", "hydrating")
  \/ UpdateStatus(w, "hydrating", AfterHydrate(w))

(* Where this pass starts, and the last block that is confirmed: the cron   *)
(* asks the database first, the daemon the RPC.                             *)
Confirmed == Height - CONFIRMATIONS
ReadCursor(w) ==
  /\ At(w, "range")
  /\ InsertCursor
  /\ from' = [from EXCEPT ![w] = cursor' + 1]
  /\ Goto(w, IF w \in Crons THEN "tip" ELSE "bounds")
  /\ UNCHANGED <<chain, aligned, rows, status, owner, total, cursorHash, lock,
                 answers, upto, found, unchecked, headHash, disturbed, reorgs, faults>>
GetBlockNumber(w) ==
  /\ At(w, "tip") \/ At(w, "head")
  /\ upto' = [upto EXCEPT ![w] = Confirmed]
  /\ Goto(w, IF At(w, "tip") THEN "metadata" ELSE "range")
  /\ UNCHANGED <<chain, database, lock, answers, from, found, unchecked, headHash,
                 disturbed, reorgs, faults>>

(* hydrateDeedMetadata: Deed.ownerOf, at the tip, for a chain whose owner no *)
(* event has named.                                                         *)
SelectOwnerless(w) ==
  /\ At(w, "metadata")
  /\ Goto(w, IF status # "reserved" /\ owner = NoOwner THEN "ownerOf" ELSE "bounds")
  /\ UNCHANGED <<chain, database, lock, locals, disturbed, reorgs, faults>>
DeedOwnerOf(w) ==
  /\ At(w, "ownerOf")
  /\ holder' = [holder EXCEPT ![w] = OwnerAt(chain)]
  /\ Goto(w, "owned")
  /\ UNCHANGED <<chain, database, lock, saved, stats, range, headHash, disturbed, reorgs, faults>>
UpdateOwner(w) ==
  /\ At(w, "owned")
  /\ owner' = holder[w] /\ holder' = [holder EXCEPT ![w] = 0]
  /\ Goto(w, "bounds")
  /\ UNCHANGED <<chain, aligned, rows, status, total, cursor, cursorHash, lock,
                 saved, stats, range, headHash, disturbed, reorgs, faults>>
HydrateDeedMetadata(w) == SelectOwnerless(w) \/ DeedOwnerOf(w) \/ UpdateOwner(w)

CaughtUp(w) ==
  /\ At(w, "bounds") /\ from[w] > upto[w]
  /\ Finish(w)
  /\ UNCHANGED <<chain, database, disturbed, reorgs, faults>>

(* The last block of this pass, of those up to the confirmed head.          *)
ToShort(first, head) ==
  IF head - first >= MAX_BLOCKS_PER_PASS THEN first + MAX_BLOCKS_PER_PASS - 2 ELSE head
To(first, head) ==
  IF head - first >= MAX_BLOCKS_PER_PASS THEN first + MAX_BLOCKS_PER_PASS - 1 ELSE head

(* getLogs, in series: here the events of state, then those recorded. *)
Logs(first, last, kinds) ==
  {Fork(n) : n \in {m \in first..last : m <= Height /\ chain[m] \in kinds}}
Numbers(logs) == {Len(block) : block \in logs}

GetStateLogs(w) ==
  LET to == To(from[w], upto[w])
      logs == Logs(from[w], to, StatusKinds \cup {"sold"}) IN
  /\ At(w, "bounds") /\ from[w] <= upto[w]
  /\ upto' = [upto EXCEPT ![w] = to]
  /\ found' = [found EXCEPT ![w] = logs] /\ unchecked' = [unchecked EXCEPT ![w] = Numbers(logs)]
  /\ Goto(w, "logs")
  /\ UNCHANGED <<chain, database, lock, answers, from, headHash, disturbed, reorgs, faults>>
GetRecordedLogs(w) ==
  LET logs == found[w] \cup Logs(from[w], upto[w], Recorded) IN
  /\ At(w, "logs")
  /\ found' = [found EXCEPT ![w] = logs] /\ unchecked' = [unchecked EXCEPT ![w] = Numbers(logs)]
  /\ Goto(w, IF logs = {} THEN "mark" ELSE "blocks")
  /\ UNCHANGED <<chain, database, lock, answers, from, upto, headHash, disturbed, reorgs, faults>>

(* The blocks of the logs are fetched one by one; "RPC logs and block hash  *)
(* disagree; refusing mixed-fork events" ends the pass.                     *)
BlocksAccepting(w) ==
  /\ At(w, "blocks")
  /\ \E n \in unchecked[w] :
       /\ unchecked' = [unchecked EXCEPT ![w] = @ \ {n}]
       /\ Goto(w, IF unchecked[w] = {n} THEN "mark" ELSE "blocks")
  /\ UNCHANGED <<chain, database, lock, answers, from, upto, found, headHash,
                 disturbed, reorgs, faults>>

Blocks(w) ==
  /\ At(w, "blocks")
  /\ \E n \in unchecked[w] :
       IF \A block \in found[w] : Len(block) = n => block = Fork(n)
       THEN /\ unchecked' = [unchecked EXCEPT ![w] = @ \ {n}]
            /\ Goto(w, IF unchecked[w] = {n} THEN "mark" ELSE "blocks")
            /\ UNCHANGED <<lock, answers, from, upto, found, headHash>>
       ELSE Finish(w)
  /\ UNCHANGED <<chain, database, disturbed, reorgs, faults>>

GetHeadBlock(w) ==
  /\ At(w, "mark")
  /\ headHash' = [headHash EXCEPT ![w] = Fork(upto[w])]
  /\ Goto(w, "write")
  /\ UNCHANGED <<chain, database, lock, answers, range, disturbed, reorgs, faults>>

(* A daemon that has written events tells its log the cursor.               *)
WritePass(w) ==
  /\ At(w, "write")
  /\ PassWritten(found[w], upto[w], headHash[w])
  /\ IF w \in Daemons /\ found[w] # {}
     THEN Forgotten(w) /\ Goto(w, "tell") /\ UNCHANGED lock
     ELSE Finish(w)
  /\ UNCHANGED <<chain, disturbed, reorgs, faults>>

-----------------------------------------------------------------------------
(* What goes wrong: a request of the RPC or of the database fails, a process *)
(* dies, the session with the lock is lost while the pass goes on.           *)
Fault == faults < MaxFaults /\ faults' = faults + 1

(* tick() survives an error, main() and the cron's invocation do not. *)
InTick(w) ==
  w \in Daemons /\ pc[w] \notin {"idle", "align", "realign", "import", "importing", "seed"}
Stop(w) == Goto(w, "idle") /\ Forgotten(w) /\ Released(w)

Fail(w) ==
  /\ ~At(w, "idle") /\ Fault
  /\ IF InTick(w) THEN Finish(w) ELSE Stop(w)
  /\ UNCHANGED <<chain, database, disturbed, reorgs>>

Crash(w) ==
  /\ InTick(w) /\ Fault
  /\ Stop(w)
  /\ UNCHANGED <<chain, database, disturbed, reorgs>>

(* While the cursor's block is not on the chain, or the database is that of *)
(* an earlier deployment, two overlapping passes drop each other's work.    *)
Canonical ==
  cursor = Absent \/ (cursor <= Height /\ cursorHash \in {NoHash, Fork(cursor)})
LoseSession(w) ==
  /\ lock = w /\ Fault
  /\ lock' = None
  /\ disturbed' = (disturbed \/ ~Canonical)
  /\ UNCHANGED <<chain, database, pc, locals, reorgs>>

-----------------------------------------------------------------------------
IndexerInit ==
  /\ chain = <<>>
  /\ aligned = FALSE /\ rows = {Legacy} /\ status = "live" /\ owner = 0
  /\ total = Baseline + 1 /\ cursor = 1 /\ cursorHash = Legacy
  /\ lock = None /\ pc = [w \in Indexers |-> "idle"]
  /\ saved = [w \in Indexers |-> NoRow]
  /\ stats = [w \in Indexers |-> "live"] /\ holder = [w \in Indexers |-> 0]
  /\ from = [w \in Indexers |-> 0] /\ upto = [w \in Indexers |-> 0]
  /\ found = [w \in Indexers |-> {}] /\ unchecked = [w \in Indexers |-> {}]
  /\ headHash = [w \in Indexers |-> NoHash]
  /\ disturbed = FALSE /\ reorgs = 0 /\ faults = 0

Pass(w) ==
  \/ SelectDeployment(w) \/ AlignDeployment(w) \/ Import(w) \/ TellCursor(w)
  \/ SelectState(w) \/ GetSavedBlock(w) \/ AdoptHash(w) \/ Reset(w)
  \/ HydrateImportedRuntimeState(w) \/ ReadCursor(w) \/ GetBlockNumber(w)
  \/ HydrateDeedMetadata(w) \/ CaughtUp(w) \/ GetStateLogs(w) \/ GetRecordedLogs(w)
  \/ Blocks(w) \/ GetHeadBlock(w) \/ WritePass(w)

IndexerNext ==
  \/ Extend \/ \E depth \in 1..Height : Reorg(depth)
  \/ \E w \in Indexers : Acquire(w) \/ Pass(w) \/ Fail(w) \/ Crash(w) \/ LoseSession(w)

(* A pass that runs goes on, and the cron is called every minute; nobody    *)
(* promises that the daemon is ever started.                                *)
IndexerFairness ==
  /\ \A w \in Indexers : WF_indexerVars(Pass(w))
  /\ \A w \in Crons : WF_indexerVars(Acquire(w))

IndexerSpec == IndexerInit /\ [][IndexerNext]_indexerVars /\ IndexerFairness

-----------------------------------------------------------------------------
(* The pages, each one query of the database. *)

Share(gross) == gross - (gross * 200) \div 10000

Newest(S, n) == {block \in S : Cardinality({b \in S : Len(b) > Len(block)}) < n}
ChainDetail == [calls |-> Newest(RowsOf("call"), DETAIL_LIMIT)]
AllChains == [status |-> status, owner |-> owner, txCount |-> total,
              revenue |-> Share(Toll) * Cardinality(RowsOf("call"))]
ProfilePage ==
  [calls |-> total,
   revenue |-> SumFunctionOnSet([block \in RowsOf("settled") |-> Share(PendingAt(Front(block)))],
                                RowsOf("settled"))]

-----------------------------------------------------------------------------
(* Every variable has its type. *)
History == Seq(Kinds)
Places == {"idle", "align", "realign", "import", "importing", "seed", "check", "compare", "adopt",
           "reset", "hydrate", "hydrating", "range", "tip", "head", "metadata", "ownerOf", "owned",
           "bounds", "logs", "blocks", "mark", "write", "tell"}
Hashes == History \cup {NoHash, Legacy}
IndexerTypeOK ==
  /\ chain \in History /\ aligned \in BOOLEAN
  /\ rows \subseteq History \cup {Legacy}
  /\ status \in {"reserved", "live", "paused"} /\ owner \in Nat \cup {NoOwner}
  /\ total \in Nat /\ cursor \in Nat \cup {Absent} /\ cursorHash \in Hashes
  /\ lock \in Indexers \cup {None} /\ pc \in [Indexers -> Places]
  /\ saved \in [Indexers -> [block : Nat \cup {Absent}, hash : Hashes]]
  /\ stats \in [Indexers -> {"live", "paused"}] /\ holder \in [Indexers -> Nat]
  /\ from \in [Indexers -> Nat] /\ upto \in [Indexers -> Int]
  /\ found \in [Indexers -> SUBSET History] /\ unchecked \in [Indexers -> SUBSET Nat]
  /\ headHash \in [Indexers -> History \cup {NoHash}]
  /\ disturbed \in BOOLEAN /\ reorgs \in 0..MaxReorgs /\ faults \in 0..MaxFaults

(* ensureCanonicalCursor and "refusing mixed-fork events", as far as they    *)
(* reach: unless a reorganisation deeper than CONFIRMATIONS replaced what a  *)
(* pass relied on after it had checked it, a session was lost before the     *)
(* reset that was due, or a pass without the lock adopted a hash too late,   *)
(* every row shown is on the chain while the block at the cursor is, and no  *)
(* event up to the cursor is missing.  Every variable keeps its type in any  *)
(* case.                                                                     *)
OneForkShown ==
  /\ IndexerTypeOK
  /\ ~disturbed /\ aligned /\ Canonical =>
       /\ cursor # Absent => EventsOf(Fork(cursor)) \subseteq rows
       /\ rows \subseteq EventsOf(chain)

(* "refusing mixed-fork events", as the message puts it: whatever is         *)
(* reorganised, the rows shown are on the chain while the cursor's block is. *)
MixedForksRefused == aligned /\ Canonical => rows \subseteq EventsOf(chain)

(* refreshSummary recounts instead of incrementing, so that replayed passes  *)
(* do not drift: the total shown is the imported history and the rows        *)
(* counted, whatever was reorganised, and a page whose list of calls has     *)
(* room left lists them all.  And while the card counts the holder's share   *)
(* of every toll, the profile that of every settlement: on one fork it never *)
(* shows more than the card.                                                 *)
TotalsCountCalls ==
  /\ aligned /\ RowsOf("call") # {} =>
       /\ AllChains.txCount = Baseline + Cardinality(RowsOf("call"))
       /\ Cardinality(ChainDetail.calls) < DETAIL_LIMIT =>
            AllChains.txCount = Baseline + Cardinality(ChainDetail.calls)
  /\ ~disturbed => ProfilePage.revenue <= AllChains.revenue

(* The database is a mirror of one fork at a time, until it is disturbed in  *)
(* one of the ways OneForkShown names.                                       *)
Promise == INSTANCE Mirror WITH
  shown <- IF cursorHash = NoHash THEN <<>> ELSE cursorHash,
  records <- rows,
  trusted <- ~disturbed
MirrorsOneFork == Promise!MirrorSpec

(* However a pass failed, restarted or lost its session and whatever was     *)
(* reorganised, in the end the explorer shows the events of every confirmed  *)
(* block and no others, unless it was disturbed on the way, as OneForkShown  *)
(* has it: what a late reorganisation left there is never repaired.          *)
Synced == Confirmed <= 0 \/ (cursorHash = Fork(Confirmed) /\ rows = EventsOf(Fork(Confirmed)))
CatchesUp == <>[](disturbed \/ Synced)

(* Once no daemon holds the lock, the cron's passes repair the status shown, *)
(* whatever a reset, a replayed event or an unconfirmed block made of it.    *)
RepairsStatus ==
  <>[](\A d \in Daemons : pc[d] = "idle") => <>[](status = StatusAt(chain))
=============================================================================
