--------------------------- MODULE IndexerProofs ----------------------------
(***************************************************************************)
(* What Indexer.tla promises of the explorer, for any number of cron       *)
(* invocations and daemons, any depth of confirmation and size of pass,    *)
(* any number of reorganisations and faults: that its database shows the   *)
(* events of one fork (ensureCanonicalCursor, "refusing mixed-fork         *)
(* events"), that its totals are the rows it counts (refreshSummary),      *)
(* and that it implements Mirror.tla.                                      *)
(*                                                                         *)
(* A pass reads the chain and writes to the database many steps later, and *)
(* after a lost session another pass may have written in between.  The     *)
(* invariant therefore says, for every place of a pass, what its locals    *)
(* still say of the chain - and of the row of indexer_state it compares -, *)
(* as long as the projection is not disturbed: as long as no               *)
(* reorganisation beyond CONFIRMATIONS has replaced what a pass had        *)
(* checked.  What the totals count holds in any case.                      *)
(***************************************************************************)
EXTENDS Indexer, Sums, SequenceTheorems

-----------------------------------------------------------------------------
(* Histories of the parent chain and the events they record. *)

Cut(c, n) == SubSeq(c, 1, n)
EventsTo(c, n) == {Cut(c, i) : i \in {j \in 1 .. n : c[j] \in Recorded}}

\* What a pass finds in the blocks from f to u.
FoundIn(c, f, u, kinds) ==
  {Cut(c, n) : n \in {m \in f .. u : m <= Len(c) /\ c[m] \in kinds}}

(* The first blocks of a history. *)
LEMMA CutIs ==
  ASSUME NEW c \in Seq(Kinds), NEW n \in 0 .. Len(c)
  PROVE  /\ Cut(c, n) \in Seq(Kinds) /\ Len(Cut(c, n)) = n
         /\ \A i \in 1 .. n : Cut(c, n)[i] = c[i]
BY DEF Cut

LEMMA CutSame ==
  ASSUME NEW c \in Seq(Kinds), NEW d \in Seq(Kinds), NEW n \in Nat, n <= Len(c), n <= Len(d),
         \A i \in 1 .. n : c[i] = d[i]
  PROVE  Cut(c, n) = Cut(d, n)
<1>1. /\ Cut(c, n) \in Seq(Kinds) /\ Len(Cut(c, n)) = n
      /\ Cut(d, n) \in Seq(Kinds) /\ Len(Cut(d, n)) = n
      /\ \A i \in 1 .. n : Cut(c, n)[i] = Cut(d, n)[i]
  BY CutIs
<1>. QED BY <1>1, SeqEqual

LEMMA CutCut ==
  ASSUME NEW c \in Seq(Kinds), NEW n \in 0 .. Len(c), NEW m \in 0 .. n
  PROVE  Cut(Cut(c, n), m) = Cut(c, m)
<1>1. PICK d : d = Cut(c, n)
  OBVIOUS
<1>2. d \in Seq(Kinds) /\ Len(d) = n /\ \A i \in 1 .. n : d[i] = c[i]
  BY <1>1, CutIs
<1>3. m \in Nat /\ m <= Len(c) /\ m <= Len(d) /\ \A i \in 1 .. m : d[i] = c[i]
  BY <1>2
<1>4. Cut(d, m) = Cut(c, m)
  BY <1>2, <1>3, CutSame
<1>. QED BY <1>1, <1>4

(* Histories that agree up to a block agree on its events. *)
LEMMA EventsSame ==
  ASSUME NEW c \in Seq(Kinds), NEW d \in Seq(Kinds), NEW n \in Nat, n <= Len(c), n <= Len(d),
         \A i \in 1 .. n : c[i] = d[i], NEW m \in 0 .. n
  PROVE  EventsTo(c, m) = EventsTo(d, m) /\ Cut(c, m) = Cut(d, m)
<1>1. ASSUME NEW i \in 0 .. n PROVE Cut(c, i) = Cut(d, i)
  <2>1. i \in Nat /\ i <= Len(c) /\ i <= Len(d) /\ \A j \in 1 .. i : c[j] = d[j]
    OBVIOUS
  <2>. QED BY <2>1, CutSame
<1>2. \A i \in 1 .. m : i \in 0 .. n /\ c[i] = d[i]
  OBVIOUS
<1>. QED BY <1>1, <1>2 DEF EventsTo

LEMMA FoundSame ==
  ASSUME NEW c \in Seq(Kinds), NEW d \in Seq(Kinds), NEW n \in Nat, n <= Len(c), n <= Len(d),
         \A i \in 1 .. n : c[i] = d[i],
         NEW f \in Nat \ {0}, NEW u \in Int, u <= n, NEW kinds
  PROVE  FoundIn(c, f, u, kinds) = FoundIn(d, f, u, kinds)
<1>1. ASSUME NEW i \in f .. u PROVE Cut(c, i) = Cut(d, i)
  <2>1. i \in Nat /\ i <= Len(c) /\ i <= Len(d) /\ \A j \in 1 .. i : c[j] = d[j]
    OBVIOUS
  <2>. QED BY <2>1, CutSame
<1>2. \A i \in f .. u : i <= Len(c) /\ i <= Len(d) /\ c[i] = d[i]
  OBVIOUS
<1>. QED BY <1>1, <1>2 DEF FoundIn

LEMMA EventsOfCut ==
  ASSUME NEW c \in Seq(Kinds), NEW n \in 0 .. Len(c)
  PROVE  EventsOf(Cut(c, n)) = EventsTo(c, n)
<1>1. PICK d : d = Cut(c, n)
  OBVIOUS
<1>2. d \in Seq(Kinds) /\ Len(d) = n /\ \A i \in 1 .. n : d[i] = c[i]
  BY <1>1, CutIs
<1>3. n \in Nat /\ n <= Len(c) /\ n <= Len(d) /\ n \in 0 .. n
  BY <1>2
<1>4. EventsTo(d, n) = EventsTo(c, n)
  BY <1>2, <1>3, EventsSame
<1>5. DOMAIN d = 1 .. n
  BY <1>2
<1>6. EventsOf(d) = EventsTo(d, n)
  BY <1>5 DEF EventsOf, Positions, EventsTo, Cut
<1>. QED BY <1>1, <1>4, <1>6

LEMMA EventsOfWhole ==
  ASSUME NEW c \in Seq(Kinds)
  PROVE  EventsOf(c) = EventsTo(c, Len(c)) /\ Cut(c, Len(c)) = c
<1>1. DOMAIN c = 1 .. Len(c) /\ Len(c) \in Nat /\ Len(c) \in 0 .. Len(c)
  OBVIOUS
<1>2. Cut(c, Len(c)) \in Seq(Kinds) /\ Len(Cut(c, Len(c))) = Len(c)
      /\ \A i \in 1 .. Len(c) : Cut(c, Len(c))[i] = c[i]
  BY <1>1, CutIs
<1>. QED BY <1>1, <1>2, SeqEqual DEF EventsOf, Positions, EventsTo, Cut

(* An event is a history, as long as its block is high. *)
LEMMA EventsAre ==
  ASSUME NEW c \in Seq(Kinds), NEW n \in 0 .. Len(c)
  PROVE  /\ EventsTo(c, n) \subseteq Seq(Kinds)
         /\ \A b \in EventsTo(c, n) : /\ Len(b) \in 1 .. n /\ b = Cut(c, Len(b))
                                      /\ c[Len(b)] \in Recorded /\ Event(b) = c[Len(b)]
         /\ Legacy \notin EventsTo(c, n)
<1>1. ASSUME NEW b \in EventsTo(c, n)
      PROVE  /\ b \in Seq(Kinds) /\ Len(b) \in 1 .. n /\ b = Cut(c, Len(b))
             /\ c[Len(b)] \in Recorded /\ Event(b) = c[Len(b)]
  <2>1. PICK i \in 1 .. n : c[i] \in Recorded /\ b = Cut(c, i)
    BY DEF EventsTo
  <2>2. i \in 0 .. Len(c) /\ i \in 1 .. i
    OBVIOUS
  <2>3. Cut(c, i) \in Seq(Kinds) /\ Len(Cut(c, i)) = i /\ Cut(c, i)[i] = c[i]
    BY <2>2, CutIs
  <2>. QED BY <2>1, <2>3 DEF Event
<1>2. Legacy \notin Seq(Kinds)
  <2>1. ASSUME Legacy \in Seq(Kinds) PROVE FALSE
    <3>1. Legacy[1] \in Kinds
      BY <2>1, ElementOfSeq DEF Legacy
    <3>. QED BY <3>1 DEF Legacy, Kinds
  <2>. QED BY <2>1
<1>. QED BY <1>1, <1>2

LEMMA EventsGrow ==
  ASSUME NEW c, NEW n \in Int, NEW m \in Int, m <= n
  PROVE  EventsTo(c, m) \subseteq EventsTo(c, n)
BY DEF EventsTo

LEMMA EventsNone == \A c : EventsTo(c, 0) = {}
BY DEF EventsTo

LEMMA EventsUpTo ==
  ASSUME NEW c \in Seq(Kinds), NEW k \in 0 .. Len(c), NEW m \in 0 .. k,
         \A b \in EventsTo(c, k) : Len(b) <= m
  PROVE  EventsTo(c, k) = EventsTo(c, m)
<1>1. ASSUME NEW i \in 1 .. k, c[i] \in Recorded PROVE i <= m
  <2>1. Cut(c, i) \in EventsTo(c, k)
    BY <1>1 DEF EventsTo
  <2>2. i \in 0 .. Len(c)
    OBVIOUS
  <2>3. Len(Cut(c, i)) = i
    BY <2>2, CutIs
  <2>. QED BY <2>1, <2>3
<1>. QED BY <1>1 DEF EventsTo

LEMMA ImageFinite ==
  ASSUME NEW S, IsFiniteSet(S), NEW g, g = [x \in S |-> g[x]], NEW T, T = {g[x] : x \in S}
  PROVE  IsFiniteSet(T)
<1>1. g \in [S -> T]
  OBVIOUS
<1>2. g \in Surjection(S, T)
  BY <1>1 DEF Surjection
<1>. QED BY <1>2, FS_Surjection

LEMMA EventsFinite ==
  ASSUME NEW c, NEW n \in Nat
  PROVE  IsFiniteSet(EventsTo(c, n))
<1>1. IsFiniteSet(1 .. n)
  BY FS_Interval
<1>2. IsFiniteSet({j \in 1 .. n : c[j] \in Recorded})
  BY <1>1, FS_Subset
<1>3. PICK T : T = {j \in 1 .. n : c[j] \in Recorded}
  OBVIOUS
<1>4. PICK g : g = [i \in T |-> Cut(c, i)]
  OBVIOUS
<1>5. IsFiniteSet({g[i] : i \in T})
  BY <1>2, <1>3, <1>4, ImageFinite
<1>6. {g[i] : i \in T} = EventsTo(c, n)
  BY <1>3, <1>4 DEF EventsTo
<1>. QED BY <1>5, <1>6

LEMMA FoundAre ==
  ASSUME NEW c \in Seq(Kinds), NEW f \in Nat \ {0}, NEW u \in Int, NEW kinds
  PROVE  /\ FoundIn(c, f, u, kinds) \subseteq Seq(Kinds)
         /\ IsFiniteSet(FoundIn(c, f, u, kinds))
         /\ \A b \in FoundIn(c, f, u, kinds) : /\ Len(b) \in f .. u /\ Len(b) <= Len(c)
                                               /\ b = Cut(c, Len(b)) /\ Event(b) = c[Len(b)]
                                               /\ c[Len(b)] \in kinds
<1>1. ASSUME NEW b \in FoundIn(c, f, u, kinds)
      PROVE  /\ b \in Seq(Kinds) /\ Len(b) \in f .. u /\ Len(b) <= Len(c)
             /\ b = Cut(c, Len(b)) /\ Event(b) = c[Len(b)] /\ c[Len(b)] \in kinds
  <2>1. PICK i \in f .. u : i <= Len(c) /\ c[i] \in kinds /\ b = Cut(c, i)
    BY DEF FoundIn
  <2>2. i \in 0 .. Len(c) /\ i \in 1 .. i
    BY <2>1
  <2>3. Cut(c, i) \in Seq(Kinds) /\ Len(Cut(c, i)) = i /\ Cut(c, i)[i] = c[i]
    BY <2>2, CutIs
  <2>. QED BY <2>1, <2>3 DEF Event
<1>2. IsFiniteSet(f .. u)
  BY FS_Interval
<1>3. IsFiniteSet({m \in f .. u : m <= Len(c) /\ c[m] \in kinds})
  BY <1>2, FS_Subset
<1>4. PICK T : T = {m \in f .. u : m <= Len(c) /\ c[m] \in kinds}
  OBVIOUS
<1>5. PICK g : g = [i \in T |-> Cut(c, i)]
  OBVIOUS
<1>6. IsFiniteSet({g[i] : i \in T})
  BY <1>3, <1>4, <1>5, ImageFinite
<1>7. {g[i] : i \in T} = FoundIn(c, f, u, kinds)
  BY <1>4, <1>5 DEF FoundIn
<1>. QED BY <1>1, <1>6, <1>7


-----------------------------------------------------------------------------
(* The invariant. *)

InPass == {"tip", "metadata", "ownerOf", "owned", "bounds"} \cup WithLogs

(* A block that was confirmed once, or none.                               *)
Deepest(c, n) == n = 0 \/ n <= Len(c) - CONFIRMATIONS

(* The block at the cursor is on the chain.                                *)
Named(c, cur, hash) == cur = Absent \/ (cur <= Len(c) /\ hash \in {NoHash, Cut(c, cur)})
OnChain == Named(chain, cursor, cursorHash)

TotalCounted(r, sum) ==
  LET calls == {b \in r : b # Legacy /\ Event(b) = "call"}
  IN  calls # {} => sum = Baseline + Cardinality(calls)

(* What holds whatever is reorganised: numbers of blocks are those of the   *)
(* chain, which a reorganisation does not shorten, and the total is counted.*)
DatabaseShaped ==
  /\ aligned \in BOOLEAN /\ rows \subseteq History \cup {Legacy} /\ IsFiniteSet(rows)
  /\ status \in {"reserved", "live", "paused"} /\ owner \in Nat \cup {NoOwner}
  /\ total \in Nat /\ cursor \in Nat \cup {Absent} /\ cursorHash \in Hashes
  /\ aligned => cursor <= Len(chain) /\ TotalCounted(rows, total)

LocalsShaped(c, p, row, f, u, logs, left) ==
  /\ row.block <= Len(c) /\ (p \in {"compare", "adopt"} => row.block # Absent)
  /\ p \in InPass => f # 0
  /\ u <= 0 \/ u <= Len(c) - CONFIRMATIONS
  /\ p \in WithLogs => f <= u
  /\ IsFiniteSet(logs) /\ \A b \in logs : Len(b) \in 1 .. Len(c) /\ Len(b) <= u
  /\ logs # {} => p \in WithLogs
  /\ left # {} => p \in {"logs", "blocks"}

PassShaped(w) ==
  /\ pc[w] \notin {"idle", "align", "realign"} => aligned
  /\ LocalsShaped(chain, pc[w], saved[w], from[w], upto[w], found[w], unchecked[w])

Shape == IndexerTypeOK /\ DatabaseShaped /\ \A w \in Indexers : PassShaped(w)

(* What holds as long as nothing was replaced behind a pass's back.  The    *)
(* cursor is of a block confirmed once, the rows are all the events of one  *)
(* history: of confirmed blocks of the chain, at least up to the cursor, or *)
(* of the block at the cursor if that has been reorganised away.            *)
CursorSound(c, cur, hash) ==
  /\ cur = Absent \/ (cur \in Nat /\ Deepest(c, cur))
  /\ hash = NoHash => cur \in {Absent, 0}
  /\ hash # NoHash => hash \in Seq(Kinds) /\ Len(hash) = cur

OneFork(c, cur, hash, r) ==
  /\ Named(c, cur, hash) =>
       \E k \in Nat : Deepest(c, k) /\ cur <= k /\ r = EventsTo(c, k)
  /\ ~Named(c, cur, hash) => r = EventsTo(hash, cur)

(* What a pass at p still knows of the chain c and of the rows r: what its *)
(* locals say is of confirmed blocks, nothing below them is missing, and    *)
(* the row it compares is on the chain if the cursor is.                    *)
PassKnows(p, row, f, u, logs, hash, c, r, on) ==
  /\ p = "compare" => CursorSound(c, row.block, row.hash) /\ (on => Named(c, row.block, row.hash))
  /\ p = "adopt" => row.block = 0 /\ hash = <<>>
  /\ p \in InPass => f # 0 /\ Deepest(c, f - 1) /\ EventsTo(c, f - 1) \subseteq r
  /\ p \in WithLogs => f <= u /\ u <= Len(c) - CONFIRMATIONS
  /\ p = "logs" => logs = FoundIn(c, f, u, StatusKinds \cup {"sold"})
  /\ p \in {"blocks", "mark", "write"} =>
       logs = FoundIn(c, f, u, StatusKinds \cup {"sold"} \cup Recorded)
  /\ p = "write" => hash = Cut(c, u)

PassSound(w) ==
  PassKnows(pc[w], saved[w], from[w], upto[w], found[w], headHash[w], chain, rows, OnChain)

(* A pass that is still to find a block whose log it has replaced.          *)
Doomed(w) == Refuses(w, chain)

(* Nobody but the holder of the lock is under way, who compares the cursor  *)
(* first, drops everything or refuses.                                      *)
Alone ==
  \A w \in Indexers :
    \/ pc[w] = "idle"
    \/ w = lock /\ (\/ pc[w] \in {"align", "seed", "check", "reset"}
                    \/ pc[w] = "compare" /\ saved[w] = StateRow
                    \/ Doomed(w))

Unaligned ==
  /\ rows = {Legacy} /\ cursor = 1 /\ cursorHash = Legacy
  /\ \A w \in Indexers : pc[w] = "idle" \/ (w = lock /\ pc[w] \in {"align", "realign"})

Sound ==
  /\ ~aligned => Unaligned
  /\ aligned => /\ CursorSound(chain, cursor, cursorHash)
                /\ OneFork(chain, cursor, cursorHash, rows)
                /\ OnChain \/ Alone
                /\ \A w \in Indexers : pc[w] # "realign" /\ (pc[w] = "reset" => ~OnChain)
  /\ \A w \in Indexers : PassSound(w) \/ Doomed(w)

IndexerInv == Shape /\ (disturbed \/ Sound)

-----------------------------------------------------------------------------
(* The chain changes. *)

(* Blocks beyond the cursor and the rows change, or are added.             *)
LEMMA ForkKept ==
  ASSUME NEW c \in Seq(Kinds), NEW d \in Seq(Kinds), NEW n \in Nat, n <= Len(c), n <= Len(d),
         \A i \in 1 .. n : c[i] = d[i], Len(c) <= Len(d),
         NEW cur \in Nat \cup {Absent}, cur <= n, NEW hash, CursorSound(c, cur, hash)
  PROVE  /\ CursorSound(d, cur, hash)
         /\ Named(d, cur, hash) <=> Named(c, cur, hash)
<1>1. CONFIRMATIONS \in Nat \ {0} /\ Absent = -1
  BY IndexerAssumption DEF Absent
<1>2. ASSUME NEW k \in Nat, Deepest(c, k) PROVE Deepest(d, k)
  BY <1>1, <1>2 DEF Deepest
<1>3. ASSUME NEW k \in 0 .. n PROVE Cut(c, k) = Cut(d, k)
  BY EventsSame
<1>4. CursorSound(d, cur, hash)
  BY <1>2 DEF CursorSound
<1>5. Named(d, cur, hash) <=> Named(c, cur, hash)
  <2>1. CASE cur = Absent
    BY <2>1 DEF Named
  <2>2. CASE cur # Absent
    <3>1. cur \in 0 .. n /\ cur <= Len(c) /\ cur <= Len(d)
      BY <2>2, <1>1
    <3>2. Cut(c, cur) = Cut(d, cur)
      BY <3>1, <1>3
    <3>. QED BY <3>1, <3>2, <2>2 DEF Named
  <2>. QED BY <2>1, <2>2
<1>. QED BY <1>4, <1>5

LEMMA RowsKept ==
  ASSUME NEW c \in Seq(Kinds), NEW d \in Seq(Kinds), NEW n \in Nat, n <= Len(c), n <= Len(d),
         \A i \in 1 .. n : c[i] = d[i], Len(c) <= Len(d),
         NEW cur \in Nat \cup {Absent}, cur <= n, NEW hash, NEW r,
         CursorSound(c, cur, hash), OneFork(c, cur, hash, r),
         Len(c) - CONFIRMATIONS <= n \/ \A b \in r : Len(b) <= n
  PROVE  OneFork(d, cur, hash, r)
<1>1. CONFIRMATIONS \in Nat \ {0} /\ Absent = -1
  BY IndexerAssumption DEF Absent
<1>2. Named(d, cur, hash) <=> Named(c, cur, hash)
  BY ForkKept
<1>3. ASSUME Named(c, cur, hash)
      PROVE  \E k \in Nat : Deepest(d, k) /\ cur <= k /\ r = EventsTo(d, k)
  <2>1. PICK k \in Nat : Deepest(c, k) /\ cur <= k /\ r = EventsTo(c, k)
    BY <1>3 DEF OneFork
  <2>2. k \in 0 .. Len(c)
    BY <1>1, <2>1 DEF Deepest
  <2>3. CASE k <= n
    <3>1. k \in 0 .. n /\ Deepest(d, k)
      BY <2>1, <2>3, <1>1 DEF Deepest
    <3>2. EventsTo(c, k) = EventsTo(d, k)
      BY <3>1, EventsSame
    <3>. QED BY <2>1, <3>1, <3>2
  <2>4. CASE ~(k <= n)
    <3>1. n <= Len(c) - CONFIRMATIONS /\ \A b \in r : Len(b) <= n
      BY <2>1, <2>4, <1>1 DEF Deepest
    <3>2. n \in 0 .. k /\ \A b \in EventsTo(c, k) : Len(b) <= n
      BY <2>1, <2>4, <3>1
    <3>3. EventsTo(c, k) = EventsTo(c, n)
      BY <2>2, <3>2, EventsUpTo
    <3>4. n \in 0 .. n
      OBVIOUS
    <3>5. EventsTo(c, n) = EventsTo(d, n)
      BY <3>4, EventsSame
    <3>6. Deepest(d, n)
      BY <3>1, <1>1 DEF Deepest
    <3>. QED BY <2>1, <3>3, <3>5, <3>6
  <2>. QED BY <2>3, <2>4
<1>. QED BY <1>2, <1>3 DEF OneFork

(* A pass that relies on none of them.                                     *)
LEMMA PassKept ==
  ASSUME NEW c \in Seq(Kinds), NEW d \in Seq(Kinds), NEW n \in Nat, n <= Len(c), n <= Len(d),
         \A i \in 1 .. n : c[i] = d[i], Len(c) <= Len(d),
         NEW p, NEW row, row.block \in Nat \cup {Absent}, NEW f \in Nat, NEW u \in Int,
         NEW logs, NEW hash, NEW r, NEW on, NEW at, at => on,
         p = "compare" => row.block <= n, p \in InPass => f - 1 <= n, p \in WithLogs => u <= n,
         PassKnows(p, row, f, u, logs, hash, c, r, on)
  PROVE  PassKnows(p, row, f, u, logs, hash, d, r, at)
<1>1. CONFIRMATIONS \in Nat \ {0}
  BY IndexerAssumption
<1>2. ASSUME p = "compare"
      PROVE  CursorSound(d, row.block, row.hash) /\ (at => Named(d, row.block, row.hash))
  <2>1. CursorSound(c, row.block, row.hash) /\ (on => Named(c, row.block, row.hash))
    BY <1>2 DEF PassKnows
  <2>2. CursorSound(d, row.block, row.hash)
        /\ (Named(d, row.block, row.hash) <=> Named(c, row.block, row.hash))
    BY <1>2, <2>1, ForkKept
  <2>. QED BY <2>1, <2>2
<1>3. ASSUME p \in InPass
      PROVE  f # 0 /\ Deepest(d, f - 1) /\ EventsTo(d, f - 1) \subseteq r
  <2>1. f # 0 /\ Deepest(c, f - 1) /\ EventsTo(c, f - 1) \subseteq r
    BY <1>3 DEF PassKnows
  <2>2. f - 1 \in 0 .. n /\ Deepest(d, f - 1)
    BY <2>1, <1>1, <1>3 DEF Deepest
  <2>3. EventsTo(c, f - 1) = EventsTo(d, f - 1)
    BY <2>2, EventsSame
  <2>. QED BY <2>1, <2>2, <2>3
<1>4. ASSUME p \in WithLogs PROVE f <= u /\ u <= Len(d) - CONFIRMATIONS
  BY <1>1, <1>4 DEF PassKnows
<1>5. WithLogs \subseteq InPass /\ "logs" \in WithLogs /\ {"blocks", "mark", "write"} \subseteq WithLogs
  BY DEF WithLogs, InPass
<1>6. ASSUME p \in WithLogs, NEW kinds PROVE FoundIn(c, f, u, kinds) = FoundIn(d, f, u, kinds)
  <2>1. f \in Nat \ {0} /\ u <= n
    BY <1>3, <1>5, <1>6
  <2>. QED BY <2>1, FoundSame
<1>7. ASSUME p = "write" PROVE hash = Cut(d, u)
  <2>1. p \in WithLogs /\ hash = Cut(c, u) /\ f <= u
    BY <1>5, <1>7 DEF PassKnows
  <2>2. u \in 0 .. n
    BY <2>1
  <2>. QED BY <2>1, <2>2, EventsSame
<1>8. (p = "logs" => p \in WithLogs) /\ (p \in {"blocks", "mark", "write"} => p \in WithLogs)
  BY <1>5
<1>9. p = "logs" => logs = FoundIn(d, f, u, StatusKinds \cup {"sold"})
  BY <1>6, <1>8 DEF PassKnows
<1>10. p \in {"blocks", "mark", "write"} =>
         logs = FoundIn(d, f, u, StatusKinds \cup {"sold"} \cup Recorded)
  BY <1>6, <1>8 DEF PassKnows
<1>11. p = "adopt" => row.block = 0 /\ hash = <<>>
  BY DEF PassKnows
<1>. QED BY <1>2, <1>3, <1>4, <1>7, <1>9, <1>10, <1>11 DEF PassKnows

(* Confirmed blocks change, and no row is beyond the cursor.               *)
LEMMA DeepReplaced ==
  ASSUME NEW c \in Seq(Kinds), NEW d \in Seq(Kinds), Len(c) = Len(d),
         NEW cur, NEW hash, NEW r, CursorSound(c, cur, hash), OneFork(c, cur, hash, r),
         \A b \in r : Len(b) <= cur
  PROVE  CursorSound(d, cur, hash) /\ OneFork(d, cur, hash, r)
<1>1. CONFIRMATIONS \in Nat \ {0} /\ Absent = -1
  BY IndexerAssumption DEF Absent
<1>2. CursorSound(d, cur, hash)
  BY DEF CursorSound, Deepest
<1>3. CASE hash = NoHash
  <2>1. cur = -1 \/ cur = 0
    BY <1>1, <1>3 DEF CursorSound
  <2>2. Named(c, cur, hash) /\ Named(d, cur, hash)
    BY <2>1, <1>1, <1>3 DEF Named
  <2>3. PICK k \in Nat : Deepest(c, k) /\ cur <= k /\ r = EventsTo(c, k)
    BY <2>2 DEF OneFork
  <2>4. k \in 0 .. Len(c)
    BY <2>3, <1>1 DEF Deepest
  <2>5. \A b \in r : Len(b) \in 1 .. k
    BY <2>3, <2>4, EventsAre
  <2>6. r = EventsTo(d, 0)
    <3>1. ASSUME NEW b \in r PROVE FALSE
      BY <2>1, <2>4, <2>5
    <3>. QED BY <3>1, EventsNone
  <2>7. 0 \in Nat /\ Deepest(d, 0) /\ cur <= 0
    BY <2>1 DEF Deepest
  <2>. QED BY <1>2, <2>2, <2>6, <2>7 DEF OneFork
<1>4. CASE hash # NoHash
  <2>1. hash \in Seq(Kinds) /\ Len(hash) = cur /\ cur \in Nat /\ Deepest(c, cur)
    BY <1>4, <1>1 DEF CursorSound
  <2>2. cur \in 0 .. Len(c) /\ cur \in 0 .. Len(d) /\ cur \in 0 .. Len(hash) /\ cur # -1
    BY <2>1, <1>1 DEF Deepest
  <2>3. ASSUME NEW e \in Seq(Kinds), Len(e) = Len(c), hash = Cut(e, cur)
        PROVE  EventsTo(hash, cur) = EventsTo(e, cur)
    <3>1. \A i \in 1 .. cur : hash[i] = e[i]
      BY <2>2, <2>3, CutIs
    <3>2. cur \in Nat /\ cur <= Len(hash) /\ cur <= Len(e) /\ cur \in 0 .. cur
      BY <2>1, <2>2, <2>3
    <3>. QED BY <3>1, <3>2, <2>1, EventsSame
  <2>4. r = EventsTo(hash, cur)
    <3>1. CASE ~Named(c, cur, hash)
      BY <3>1 DEF OneFork
    <3>2. CASE Named(c, cur, hash)
      <4>1. PICK k \in Nat : Deepest(c, k) /\ cur <= k /\ r = EventsTo(c, k)
        BY <3>2 DEF OneFork
      <4>2. k \in 0 .. Len(c) /\ cur \in 0 .. k
        BY <4>1, <1>1, <2>1 DEF Deepest
      <4>3. EventsTo(c, k) = EventsTo(c, cur)
        BY <4>1, <4>2, EventsUpTo
      <4>4. hash = Cut(c, cur)
        BY <3>2, <1>4, <1>1, <2>2 DEF Named
      <4>. QED BY <4>1, <4>3, <4>4, <2>3
    <3>. QED BY <3>1, <3>2
  <2>5. ASSUME Named(d, cur, hash) PROVE r = EventsTo(d, cur)
    <3>1. hash = Cut(d, cur)
      BY <2>5, <1>4, <1>1, <2>2 DEF Named
    <3>. QED BY <3>1, <2>3, <2>4
  <2>6. Deepest(d, cur) /\ cur <= cur
    BY <2>1, <1>1 DEF Deepest
  <2>. QED BY <1>2, <2>1, <2>4, <2>5, <2>6 DEF OneFork
<1>. QED BY <1>3, <1>4

(* What a reorganisation does to the chain.                                *)
LEMMA Replaced ==
  ASSUME NEW depth \in Nat, Reorg(depth), chain \in Seq(Kinds)
  PROVE  /\ chain' \in Seq(Kinds) /\ Len(chain') = Len(chain) /\ depth \in 1 .. Len(chain)
         /\ \A i \in 1 .. Len(chain) - depth : chain'[i] = chain[i]
<1>1. PICK c : c = chain
  OBVIOUS
<1>2. c \in Seq(Kinds) /\ depth \in 1 .. Len(c)
  BY <1>1 DEF Reorg, Height
<1>3. PICK kept : kept = SubSeq(c, 1, Len(c) - depth)
  OBVIOUS
<1>4. PICK kind \in Kinds : chain' = Append(kept, kind) \o [i \in 1 .. (depth - 1) |-> "quiet"]
  BY <1>1, <1>3 DEF Reorg, Height
<1>5. PICK rest : rest = [i \in 1 .. (depth - 1) |-> "quiet"]
  OBVIOUS
<1>6. rest \in Seq(Kinds) /\ Len(rest) = depth - 1
  BY <1>2, <1>5 DEF Kinds
<1>7. kept \in Seq(Kinds) /\ Len(kept) = Len(c) - depth
      /\ \A i \in 1 .. Len(c) - depth : kept[i] = c[i]
  BY <1>2, <1>3, CutIs DEF Cut
<1>8. PICK top : top = Append(kept, kind)
  OBVIOUS
<1>9. /\ top \in Seq(Kinds) /\ Len(top) = Len(c) - depth + 1
      /\ \A i \in 1 .. Len(c) - depth : top[i] = c[i]
  <2>1. Len(c) - depth \in Nat /\ kind \in Kinds
    BY <1>2
  <2>2. /\ top \in Seq(Kinds) /\ Len(top) = Len(kept) + 1
        /\ \A i \in 1 .. Len(kept) : top[i] = kept[i]
    BY <1>7, <1>8, <2>1, AppendProperties
  <2>. QED BY <1>7, <2>1, <2>2
<1>10. chain' = top \o rest
  BY <1>4, <1>5, <1>8
<1>11. /\ chain' \in Seq(Kinds) /\ Len(chain') = Len(c)
       /\ \A i \in 1 .. Len(c) - depth : chain'[i] = top[i]
  BY <1>2, <1>6, <1>9, <1>10
<1>. QED BY <1>1, <1>2, <1>9, <1>11

(* The chain does not become shorter, so the shape stays.                  *)
LEMMA ShapeOutlasts ==
  ASSUME Shape, chain' \in Seq(Kinds), Len(chain) <= Len(chain'),
         UNCHANGED <<database, lock, pc, locals, faults>>, reorgs' \in 0 .. MaxReorgs,
         disturbed' \in BOOLEAN
  PROVE  Shape'
<1>1. IndexerTypeOK'
  BY DEF Shape, IndexerTypeOK, History, database, locals, answers, range
<1>2. chain \in Seq(Kinds) /\ CONFIRMATIONS \in Nat /\ Absent = -1
  BY IndexerAssumption DEF Shape, IndexerTypeOK, History, Absent
<1>3. Len(chain) \in Nat /\ Len(chain') \in Nat
  BY <1>2
<1>4. DatabaseShaped'
  <2>1. cursor \in Nat \cup {Absent}
    BY DEF Shape, IndexerTypeOK
  <2>2. aligned => cursor <= Len(chain')
    BY <1>2, <1>3, <2>1 DEF Shape, DatabaseShaped
  <2>. QED BY <2>2 DEF Shape, DatabaseShaped, database
<1>5. ASSUME NEW w \in Indexers PROVE PassShaped(w)'
  <2>1. PICK n \in Nat : n = Len(chain)
    BY <1>3
  <2>2. PICK m \in Nat : m = Len(chain')
    BY <1>3
  <2>3. saved[w].block \in Nat \cup {Absent} /\ upto[w] \in Int
    BY DEF Shape, IndexerTypeOK
  <2>4. LocalsShaped(chain, pc[w], saved[w], from[w], upto[w], found[w], unchecked[w])
    BY DEF Shape, PassShaped
  <2>5. saved[w].block <= m /\ (upto[w] <= 0 \/ upto[w] <= m - CONFIRMATIONS)
    BY <1>2, <2>1, <2>2, <2>3, <2>4 DEF LocalsShaped
  <2>6. \A b \in found[w] : Len(b) \in 1 .. m /\ Len(b) <= upto[w]
    BY <2>1, <2>2, <2>4 DEF LocalsShaped
  <2>7. LocalsShaped(chain', pc[w], saved[w], from[w], upto[w], found[w], unchecked[w])
    BY <2>2, <2>4, <2>5, <2>6 DEF LocalsShaped
  <2>. QED BY <2>7 DEF Shape, PassShaped, database, locals, answers, range
<1>. QED BY <1>1, <1>4, <1>5 DEF Shape

(* A log of a replaced block that is still there is refused as before.     *)
LEMMA StillRefuses ==
  ASSUME Shape, NEW n \in Nat, n <= Len(chain), n <= Len(chain'), chain' \in Seq(Kinds),
         \A i \in 1 .. n : chain[i] = chain'[i],
         NEW w \in Indexers, upto[w] <= n, Doomed(w)
  PROVE  Refuses(w, chain')
<1>1. PICK b \in found[w] : Len(b) \in unchecked[w] /\ b # SubSeq(chain, 1, Len(b))
  BY DEF Doomed, Refuses
<1>2. Len(b) \in 1 .. Len(chain) /\ Len(b) <= upto[w] /\ upto[w] \in Int
      /\ chain \in Seq(Kinds) /\ Len(chain) \in Nat
  BY DEF Shape, PassShaped, LocalsShaped, IndexerTypeOK, History
<1>3. PICK m \in Nat : m = Len(b)
  BY <1>2
<1>4. m \in 0 .. n
  BY <1>2, <1>3
<1>5. Cut(chain, m) = Cut(chain', m)
  BY <1>2, <1>4, EventsSame
<1>. QED BY <1>1, <1>3, <1>5 DEF Refuses, Cut

(* What pages and passes know is of blocks that have not changed.          *)
LEMMA ChainKeeps ==
  ASSUME Shape, Sound, NEW n \in Nat, n <= Len(chain), Len(chain) <= Len(chain'),
         chain' \in Seq(Kinds), \A i \in 1 .. n : chain[i] = chain'[i],
         aligned => cursor <= n,
         Len(chain) - CONFIRMATIONS <= n \/ \A b \in rows : Len(b) <= n,
         \A w \in Indexers :
           \/ Refuses(w, chain')
           \/ /\ pc[w] = "compare" => saved[w].block <= n
              /\ pc[w] \in InPass => from[w] - 1 <= n
              /\ pc[w] \in WithLogs => upto[w] <= n,
         UNCHANGED <<database, lock, pc, locals, faults>>
  PROVE  Sound'
<1>1. PICK c : c = chain
  OBVIOUS
<1>2. PICK d : d = chain'
  OBVIOUS
<1>3. chain \in Seq(Kinds) /\ cursor \in Nat \cup {Absent} /\ Len(chain) \in Nat /\ Len(chain') \in Nat
  BY DEF Shape, IndexerTypeOK, History
<1>4. /\ c \in Seq(Kinds) /\ d \in Seq(Kinds) /\ n <= Len(c) /\ n <= Len(d)
      /\ \A i \in 1 .. n : c[i] = d[i]
      /\ Len(c) <= Len(d)
  BY ONLY <1>1, <1>2, <1>3, n <= Len(chain), Len(chain) <= Len(chain'), chain' \in Seq(Kinds),
     \A i \in 1 .. n : chain[i] = chain'[i], n \in Nat
<1>5. (~aligned => Unaligned)'
  BY DEF Sound, Unaligned, database
<1>6. ASSUME aligned
      PROVE  /\ CursorSound(d, cursor, cursorHash) /\ OneFork(d, cursor, cursorHash, rows)
             /\ Named(d, cursor, cursorHash) <=> OnChain
  <2>1. CursorSound(c, cursor, cursorHash) /\ OneFork(c, cursor, cursorHash, rows) /\ cursor <= n
    BY <1>1, <1>6 DEF Sound
  <2>2. Len(c) - CONFIRMATIONS <= n \/ \A b \in rows : Len(b) <= n
    BY <1>1
  <2>3. /\ CursorSound(d, cursor, cursorHash)
        /\ Named(d, cursor, cursorHash) <=> Named(c, cursor, cursorHash)
    BY <1>3, <1>4, <2>1, ForkKept
  <2>4. OneFork(d, cursor, cursorHash, rows)
    BY <1>3, <1>4, <2>1, <2>2, RowsKept
  <2>. QED BY <2>3, <2>4, <1>1 DEF OnChain
<1>7. ASSUME NEW w \in Indexers PROVE (PassSound(w) \/ Doomed(w))'
  <2>1. CASE Refuses(w, chain')
    BY <2>1 DEF Doomed, Refuses, locals, range
  <2>2. CASE ~Refuses(w, chain')
    <3>1. /\ pc[w] = "compare" => saved[w].block <= n
          /\ pc[w] \in InPass => from[w] - 1 <= n
          /\ pc[w] \in WithLogs => upto[w] <= n
      BY <2>2
    <3>2. ~Doomed(w)
      <4>1. ASSUME Doomed(w) PROVE FALSE
        <5>1. pc[w] \in {"logs", "blocks"}
          BY <4>1 DEF Doomed, Refuses, Shape, PassShaped, LocalsShaped
        <5>2. upto[w] <= n
          BY <5>1, <3>1 DEF WithLogs
        <5>3. n <= Len(chain')
          BY <1>2, <1>4
        <5>. QED BY <4>1, <5>2, <5>3, <2>2, StillRefuses
      <4>. QED BY <4>1
    <3>3. PassKnows(pc[w], saved[w], from[w], upto[w], found[w], headHash[w], c, rows, OnChain)
      BY <1>1, <3>2 DEF Sound, PassSound
    <3>4. from[w] \in Nat /\ upto[w] \in Int /\ saved[w].block \in Nat \cup {Absent}
      BY DEF Shape, IndexerTypeOK
    <3>5. CASE ~aligned
      BY <3>5 DEF Sound, Unaligned, PassSound, PassKnows, InPass, WithLogs, database
    <3>6. CASE aligned
      <4>1. PICK on : on = OnChain
        OBVIOUS
      <4>2. PICK at : at = Named(d, cursor, cursorHash)
        OBVIOUS
      <4>3. at => on
        BY <1>6, <3>6, <4>1, <4>2
      <4>4. PassKnows(pc[w], saved[w], from[w], upto[w], found[w], headHash[w], c, rows, on)
        BY <3>3, <4>1
      <4>5. PassKnows(pc[w], saved[w], from[w], upto[w], found[w], headHash[w], d, rows, at)
        BY ONLY <1>4, <3>1, <3>4, <4>3, <4>4, PassKept, n \in Nat
      <4>. QED BY <4>2, <4>5, <1>2 DEF PassSound, OnChain, database, locals, answers, range
    <3>. QED BY <3>5, <3>6
  <2>. QED BY <2>1, <2>2
<1>8. ASSUME aligned, ~OnChain PROVE Alone'
  <2>1. ASSUME NEW w \in Indexers, Doomed(w) PROVE Doomed(w)'
    <3>1. pc[w] \in {"logs", "blocks"}
      BY <2>1 DEF Doomed, Refuses, Shape, PassShaped, LocalsShaped
    <3>2. CASE Refuses(w, chain')
      BY <3>2 DEF Doomed, Refuses, locals, range
    <3>3. CASE upto[w] <= n
      <4>1. n <= Len(chain')
        BY <1>2, <1>4
      <4>2. Refuses(w, chain')
        BY <2>1, <3>3, <4>1, StillRefuses
      <4>. QED BY <4>2 DEF Doomed, Refuses, locals, range
    <3>. QED BY <3>1, <3>2, <3>3 DEF WithLogs
  <2>. QED BY <1>8, <2>1 DEF Sound, Alone, StateRow, database, locals, answers
<1>. QED BY <1>2, <1>5, <1>6, <1>7, <1>8 DEF Sound, database, OnChain

(* What is relied on is of blocks that were confirmed.                      *)
LEMMA LocalsWithin ==
  ASSUME Shape, NEW w \in Indexers, PassSound(w) \/ Doomed(w),
         NEW n \in Nat, Len(chain) - CONFIRMATIONS <= n
  PROVE  /\ pc[w] = "compare" => saved[w].block <= n
         /\ pc[w] \in InPass => from[w] - 1 <= n
         /\ pc[w] \in WithLogs => upto[w] <= n
<1>1. /\ CONFIRMATIONS \in Nat \ {0} /\ Absent = -1 /\ Len(chain) \in Nat
      /\ from[w] \in Nat /\ upto[w] \in Int /\ saved[w].block \in Nat \cup {Absent}
  BY IndexerAssumption DEF Shape, IndexerTypeOK, History, Absent
<1>2. LocalsShaped(chain, pc[w], saved[w], from[w], upto[w], found[w], unchecked[w])
  BY DEF Shape, PassShaped
<1>3. upto[w] <= n
  BY <1>1, <1>2 DEF LocalsShaped
<1>4. CASE Doomed(w)
  <2>1. pc[w] \in {"logs", "blocks"}
    BY <1>2, <1>4 DEF Doomed, Refuses, LocalsShaped
  <2>2. from[w] <= upto[w]
    BY <1>2, <2>1 DEF LocalsShaped, WithLogs
  <2>. QED BY <1>1, <1>3, <2>1, <2>2
<1>5. CASE PassSound(w)
  <2>1. PassKnows(pc[w], saved[w], from[w], upto[w], found[w], headHash[w], chain, rows, OnChain)
    BY <1>5 DEF PassSound
  <2>2. pc[w] = "compare" => saved[w].block <= n
    BY <1>1, <2>1 DEF PassKnows, CursorSound, Deepest
  <2>3. pc[w] \in InPass => from[w] - 1 <= n
    BY <1>1, <2>1 DEF PassKnows, Deepest
  <2>. QED BY <1>3, <2>2, <2>3
<1>. QED BY <1>4, <1>5

LEMMA ExtendKeeps ==
  ASSUME IndexerInv, Extend
  PROVE  IndexerInv'
<1>1. chain \in Seq(Kinds) /\ CONFIRMATIONS \in Nat
  BY IndexerAssumption DEF IndexerInv, Shape, IndexerTypeOK, History
<1>2. PICK kind \in Kinds : chain' = Append(chain, kind)
  BY DEF Extend
<1>3. /\ Len(chain) \in Nat /\ chain' \in Seq(Kinds) /\ Len(chain) <= Len(chain')
      /\ Len(chain) - CONFIRMATIONS <= Len(chain)
      /\ \A i \in 1 .. Len(chain) : chain[i] = chain'[i]
  BY <1>1, <1>2
<1>4. UNCHANGED <<database, lock, pc, locals, disturbed, reorgs, faults>>
  BY DEF Extend
<1>5. reorgs' \in 0 .. MaxReorgs /\ disturbed' \in BOOLEAN
  BY <1>4 DEF IndexerInv, Shape, IndexerTypeOK
<1>6. Shape'
  BY <1>3, <1>4, <1>5, ShapeOutlasts DEF IndexerInv
<1>7. ASSUME Sound PROVE Sound'
  <2>1. PICK n \in Nat : n = Len(chain)
    BY <1>3
  <2>2. ASSUME NEW w \in Indexers
        PROVE  /\ pc[w] = "compare" => saved[w].block <= n
               /\ pc[w] \in InPass => from[w] - 1 <= n
               /\ pc[w] \in WithLogs => upto[w] <= n
    <3>1. PassSound(w) \/ Doomed(w)
      BY <1>7 DEF Sound
    <3>2. Len(chain) - CONFIRMATIONS <= n /\ n \in Nat
      BY <1>3, <2>1
    <3>. QED BY <3>1, <3>2, LocalsWithin DEF IndexerInv
  <2>3. aligned => cursor <= n
    BY <2>1 DEF IndexerInv, Shape, DatabaseShaped
  <2>. QED BY <1>3, <1>4, <1>7, <2>1, <2>2, <2>3, ChainKeeps DEF IndexerInv
<1>. QED BY <1>4, <1>6, <1>7 DEF IndexerInv

LEMMA ReorgKeeps ==
  ASSUME IndexerInv, NEW depth \in 1 .. Height, Reorg(depth)
  PROVE  IndexerInv'
<1>1. /\ chain \in Seq(Kinds) /\ CONFIRMATIONS \in Nat \ {0} /\ depth \in Nat /\ MaxReorgs \in Nat
      /\ Absent = -1 /\ cursor \in Nat \cup {Absent}
  BY IndexerAssumption DEF IndexerInv, Shape, IndexerTypeOK, History, Height, Absent
<1>2. /\ chain' \in Seq(Kinds) /\ Len(chain') = Len(chain) /\ depth \in 1 .. Len(chain)
      /\ \A i \in 1 .. Len(chain) - depth : chain[i] = chain'[i]
  BY <1>1, Replaced
<1>3. PICK kept \in Nat : kept = Len(chain) - depth /\ kept = Height - depth
  <2>1. Len(chain) - depth \in Nat
    BY <1>2
  <2>. QED BY <2>1 DEF Height
<1>4. /\ UNCHANGED <<database, lock, pc, locals, faults>>
      /\ reorgs' \in 0 .. MaxReorgs /\ disturbed' \in BOOLEAN
      /\ disturbed => disturbed'
      /\ Deep(depth) /\ ~Survives(kept, chain') => disturbed'
  <2>1. /\ UNCHANGED <<database, lock, pc, locals, faults>> /\ reorgs' = reorgs + 1
        /\ reorgs < MaxReorgs
        /\ disturbed' = (disturbed \/ (Deep(depth) /\ ~Survives(Height - depth, chain')))
    BY DEF Reorg
  <2>2. reorgs \in 0 .. MaxReorgs
    BY DEF IndexerInv, Shape, IndexerTypeOK
  <2>3. reorgs' \in 0 .. MaxReorgs
    BY <1>1, <2>1, <2>2
  <2>4. disturbed' = (disturbed \/ (Deep(depth) /\ ~Survives(kept, chain')))
    BY <1>3, <2>1, Zenon
  <2>5. disturbed' \in BOOLEAN /\ (disturbed => disturbed')
        /\ (Deep(depth) /\ ~Survives(kept, chain') => disturbed')
    BY <2>4, Zenon
  <2>. QED BY <2>1, <2>3, <2>5, Zenon
<1>5. Shape'
  BY <1>2, <1>4, ShapeOutlasts DEF IndexerInv
<1>6. Len(chain) \in Nat /\ kept <= Len(chain) /\ Len(chain) <= Len(chain')
      /\ \A i \in 1 .. kept : chain[i] = chain'[i]
  BY <1>1, <1>2, <1>3
<1>7. ASSUME Sound, ~Deep(depth) PROVE Sound'
  <2>1. Len(chain) - CONFIRMATIONS <= kept
    BY <1>1, <1>3, <1>6, <1>7 DEF Deep
  <2>2. ASSUME NEW w \in Indexers
        PROVE  /\ pc[w] = "compare" => saved[w].block <= kept
               /\ pc[w] \in InPass => from[w] - 1 <= kept
               /\ pc[w] \in WithLogs => upto[w] <= kept
    <3>1. PassSound(w) \/ Doomed(w)
      BY <1>7 DEF Sound
    <3>. QED BY <3>1, <2>1, LocalsWithin DEF IndexerInv
  <2>3. aligned => cursor <= kept
    <3>1. aligned => CursorSound(chain, cursor, cursorHash)
      BY <1>7 DEF Sound
    <3>. QED BY <3>1, <2>1, <1>1, <1>6 DEF CursorSound, Deepest
  <2>. QED BY <1>2, <1>4, <1>6, <1>7, <2>1, <2>2, <2>3, ChainKeeps DEF IndexerInv
<1>8. ASSUME Sound, cursor <= kept, \A b \in rows : Len(b) <= kept,
             \A w \in Indexers : Untouched(w, kept) \/ Refuses(w, chain')
      PROVE  Sound'
  <2>1. ASSUME NEW w \in Indexers, Untouched(w, kept)
        PROVE  /\ pc[w] = "compare" => saved[w].block <= kept
               /\ pc[w] \in InPass => from[w] - 1 <= kept
               /\ pc[w] \in WithLogs => upto[w] <= kept
    <3>1. from[w] \in Nat
      BY DEF IndexerInv, Shape, IndexerTypeOK
    <3>. QED BY <2>1, <3>1 DEF Untouched
  <2>2. \A w \in Indexers :
          \/ Refuses(w, chain')
          \/ /\ pc[w] = "compare" => saved[w].block <= kept
             /\ pc[w] \in InPass => from[w] - 1 <= kept
             /\ pc[w] \in WithLogs => upto[w] <= kept
    BY <1>8, <2>1
  <2>. QED BY <1>2, <1>4, <1>6, <1>8, <2>2, ChainKeeps DEF IndexerInv
<1>9. ASSUME Sound, \A b \in rows : Len(b) <= cursor,
             \A w \in Indexers :
               At(w, "idle") \/ (lock = w /\ (ComparesFirst(w) \/ Refuses(w, chain')))
      PROVE  Sound'
  <2>1. (~aligned => Unaligned)'
    BY <1>4, <1>9 DEF Sound, Unaligned, database
  <2>2. aligned => CursorSound(chain, cursor, cursorHash)' /\ OneFork(chain, cursor, cursorHash, rows)'
    <3>1. PICK c : c = chain
      OBVIOUS
    <3>2. PICK d : d = chain'
      OBVIOUS
    <3>3. c \in Seq(Kinds) /\ d \in Seq(Kinds) /\ Len(c) = Len(d)
      BY <1>1, <1>2, <3>1, <3>2
    <3>4. aligned => CursorSound(c, cursor, cursorHash) /\ OneFork(c, cursor, cursorHash, rows)
      BY <1>9, <3>1 DEF Sound
    <3>5. aligned => CursorSound(d, cursor, cursorHash) /\ OneFork(d, cursor, cursorHash, rows)
      BY <1>9, <3>3, <3>4, DeepReplaced
    <3>. QED BY <3>2, <3>5, <1>4 DEF database
  <2>3. \A w \in Indexers : pc'[w] = pc[w] /\ saved'[w] = saved[w] /\ StateRow' = StateRow
                            /\ (Doomed(w)' <=> Refuses(w, chain'))
    BY <1>4 DEF Doomed, Refuses, StateRow, locals, answers, range, database
  <2>4. aligned => Alone'
    BY <1>4, <1>9, <2>3 DEF Sound, Alone, At, ComparesFirst
  <2>5. aligned => \A w \in Indexers : (pc[w] # "realign" /\ (pc[w] = "reset" => ~OnChain))'
    <3>1. ASSUME aligned, NEW w \in Indexers PROVE pc[w] # "reset"
      <4>1. Refuses(w, chain') => pc[w] \in {"logs", "blocks"}
        BY DEF Refuses, IndexerInv, Shape, PassShaped, LocalsShaped
      <4>. QED BY <1>9, <4>1 DEF At, ComparesFirst
    <3>. QED BY <1>9, <2>3, <3>1 DEF Sound
  <2>6. ASSUME NEW w \in Indexers PROVE (PassSound(w) \/ Doomed(w))'
    <3>1. CASE Refuses(w, chain')
      BY <2>3, <3>1
    <3>2. CASE pc[w] \in {"idle", "align", "realign", "check"}
      BY <2>3, <3>2 DEF PassSound, PassKnows, InPass, WithLogs
    <3>3. CASE pc[w] = "compare" /\ saved[w] = StateRow
      <4>1. aligned /\ CursorSound(chain, cursor, cursorHash)'
        BY <2>2, <3>3 DEF IndexerInv, Shape, PassShaped
      <4>2. saved'[w].block = cursor' /\ saved'[w].hash = cursorHash' /\ pc'[w] = "compare"
        BY <1>4, <2>3, <3>3 DEF StateRow, database
      <4>. QED BY <4>1, <4>2 DEF PassSound, PassKnows, InPass, WithLogs, OnChain
    <3>. QED BY <1>9, <3>1, <3>2, <3>3 DEF At, ComparesFirst
  <2>. QED BY <1>4, <2>1, <2>2, <2>4, <2>5, <2>6 DEF Sound, database
<1>10. ASSUME ~disturbed' PROVE Sound'
  <2>1. Sound
    BY <1>4, <1>10 DEF IndexerInv
  <2>2. ~Deep(depth) \/ Survives(kept, chain')
    BY <1>4, <1>10
  <2>. QED BY <2>1, <2>2, <1>7, <1>8, <1>9 DEF Survives
<1>. QED BY <1>5, <1>10 DEF IndexerInv

-----------------------------------------------------------------------------
(* A step of one indexer, from where it is to p. *)

Steps(w, p) ==
  /\ pc' = [pc EXCEPT ![w] = p] /\ UNCHANGED chain
  /\ saved' \in [Indexers -> [block : Nat \cup {Absent}, hash : Hashes]]
  /\ stats' \in [Indexers -> {"live", "paused"}] /\ holder' \in [Indexers -> Nat]
  /\ from' \in [Indexers -> Nat] /\ upto' \in [Indexers -> Int]
  /\ found' \in [Indexers -> SUBSET History] /\ unchecked' \in [Indexers -> SUBSET Nat]
  /\ headHash' \in [Indexers -> History \cup {NoHash}]
  /\ \A v \in Indexers \ {w} : /\ saved'[v] = saved[v] /\ from'[v] = from[v] /\ upto'[v] = upto[v]
                               /\ found'[v] = found[v] /\ unchecked'[v] = unchecked[v]
                               /\ headHash'[v] = headHash[v]
  /\ lock' \in Indexers \cup {None} /\ disturbed' \in BOOLEAN
  /\ reorgs' \in 0 .. MaxReorgs /\ faults' \in 0 .. MaxFaults

LEMMA PlacesAfter ==
  ASSUME Shape, NEW w \in Indexers, NEW p \in Places, Steps(w, p)
  PROVE  /\ pc' \in [Indexers -> Places] /\ pc'[w] = p
         /\ \A v \in Indexers \ {w} : pc'[v] = pc[v]
BY DEF Steps, Shape, IndexerTypeOK

LEMMA ShapeKeeps ==
  ASSUME Shape, NEW w \in Indexers, NEW p \in Places, Steps(w, p),
         DatabaseShaped', aligned => aligned', p \notin {"idle", "align", "realign"} => aligned',
         LocalsShaped(chain, p, saved'[w], from'[w], upto'[w], found'[w], unchecked'[w])
  PROVE  Shape'
<1>1. /\ pc' \in [Indexers -> Places] /\ pc'[w] = p
      /\ \A v \in Indexers \ {w} : pc'[v] = pc[v]
  BY PlacesAfter
<1>2. IndexerTypeOK'
  BY <1>1 DEF Shape, IndexerTypeOK, Steps, DatabaseShaped
<1>3. ASSUME NEW v \in Indexers \ {w} PROVE PassShaped(v)'
  BY <1>1, <1>3 DEF Shape, PassShaped, Steps
<1>4. PassShaped(w)'
  BY <1>1 DEF PassShaped, Steps
<1>. QED BY <1>2, <1>3, <1>4 DEF Shape

LEMMA SameDatabase ==
  ASSUME Shape, UNCHANGED <<chain, database>>
  PROVE  DatabaseShaped' /\ (aligned => aligned')
BY DEF Shape, DatabaseShaped, database

(* The others know what they knew, if no row was lost.                     *)
LEMMA OthersKnow ==
  ASSUME Shape, Sound, NEW w \in Indexers, NEW p \in Places, Steps(w, p), rows \subseteq rows',
         OnChain' => OnChain, NEW v \in Indexers \ {w}
  PROVE  /\ (PassSound(v) \/ Doomed(v))'
         /\ Doomed(v) => Doomed(v)'
<1>1. pc'[v] = pc[v]
  BY PlacesAfter
<1>2. Doomed(v) => Doomed(v)'
  BY DEF Doomed, Refuses, Steps
<1>3. ASSUME PassSound(v) PROVE PassSound(v)'
  <2>1. PICK on : on = OnChain
    OBVIOUS
  <2>2. PICK at : at = OnChain'
    OBVIOUS
  <2>3. PassKnows(pc[v], saved[v], from[v], upto[v], found[v], headHash[v], chain, rows, on)
    BY <1>3, <2>1 DEF PassSound
  <2>4. at => on
    BY <2>1, <2>2
  <2>5. PassKnows(pc[v], saved[v], from[v], upto[v], found[v], headHash[v], chain, rows', at)
    BY ONLY <2>3, <2>4, rows \subseteq rows' DEF PassKnows
  <2>. QED BY <1>1, <2>2, <2>5 DEF PassSound, Steps
<1>. QED BY <1>2, <1>3 DEF Sound

(* A step while the block at the cursor is on the chain: no row is lost,   *)
(* and it stays there.                                                     *)
LEMMA OnChainKeeps ==
  ASSUME Shape, Sound, NEW w \in Indexers, NEW p \in Places \ {"realign", "reset"}, Steps(w, p),
         aligned, aligned', OnChain, OnChain', rows \subseteq rows',
         CursorSound(chain, cursor', cursorHash'), OneFork(chain, cursor', cursorHash', rows'),
         PassKnows(p, saved'[w], from'[w], upto'[w], found'[w], headHash'[w], chain, rows', TRUE)
  PROVE  Sound'
<1>1. pc'[w] = p /\ \A v \in Indexers \ {w} : pc'[v] = pc[v]
  BY PlacesAfter
<1>2. \A v \in Indexers \ {w} : (PassSound(v) \/ Doomed(v))'
  BY OthersKnow
<1>3. PassSound(w)'
  BY <1>1 DEF PassSound, Steps
<1>4. \A v \in Indexers : (pc[v] # "realign" /\ (pc[v] = "reset" => ~OnChain))'
  BY <1>1 DEF Sound
<1>5. CursorSound(chain, cursor, cursorHash)' /\ OneFork(chain, cursor, cursorHash, rows)'
  BY DEF Steps
<1>. QED BY <1>2, <1>3, <1>4, <1>5 DEF Sound

(* A step of a pass that leaves the rows and the cursor alone.             *)
LEMMA MoveKeeps ==
  ASSUME Shape, Sound, NEW w \in Indexers, NEW p \in Places \ {"realign", "reset"}, Steps(w, p),
         aligned, OnChain, UNCHANGED <<aligned, rows, cursor, cursorHash>>,
         PassKnows(p, saved'[w], from'[w], upto'[w], found'[w], headHash'[w], chain, rows, TRUE)
  PROVE  Sound'
<1>1. /\ CursorSound(chain, cursor', cursorHash') /\ OneFork(chain, cursor', cursorHash', rows')
      /\ PassKnows(p, saved'[w], from'[w], upto'[w], found'[w], headHash'[w], chain, rows', TRUE)
  BY DEF Sound
<1>2. aligned' /\ OnChain' /\ rows \subseteq rows'
  BY DEF OnChain, Steps
<1>. QED BY <1>1, <1>2, OnChainKeeps

Resting == {"idle", "align", "realign", "seed", "check", "compare", "reset"}

(* A step that leaves the rows and the cursor alone, of one who has read    *)
(* nothing but the row it compares.                                         *)
LEMMA QuietKeeps ==
  ASSUME Shape, Sound, NEW w \in Indexers, NEW p \in Resting, Steps(w, p),
         UNCHANGED <<aligned, rows, cursor, cursorHash>>,
         pc[w] = "idle" => p = "align", p = "align" => pc[w] = "idle" /\ lock = None /\ lock' = w,
         p = "idle" => lock' = (IF lock = w THEN None ELSE lock),
         p \notin {"idle", "align"} => lock' = lock,
         p = "realign" => ~aligned, p \in {"seed", "check", "compare", "reset"} => aligned,
         p = "compare" => saved'[w] = StateRow,
         p = "reset" => ~OnChain
  PROVE  Sound'
<1>1. p \in Places /\ rows \subseteq rows' /\ (OnChain <=> OnChain') /\ StateRow' = StateRow
  BY DEF Places, Resting, OnChain, StateRow, Steps
<1>2. pc'[w] = p /\ \A v \in Indexers \ {w} : pc'[v] = pc[v]
  BY <1>1, PlacesAfter
<1>3. \A v \in Indexers \ {w} : (PassSound(v) \/ Doomed(v))' /\ (Doomed(v) => Doomed(v)')
  BY <1>1, OthersKnow
<1>4. None \notin Indexers
  BY IndexerAssumption
<1>5. (~aligned => Unaligned)'
  <2>1. SUFFICES ASSUME ~aligned PROVE Unaligned'
    OBVIOUS
  <2>2. Unaligned /\ p \in {"idle", "align", "realign"}
    BY <2>1 DEF Sound, Resting
  <2>. QED BY <1>2, <1>4, <2>2 DEF Unaligned
<1>6. aligned => CursorSound(chain, cursor, cursorHash)' /\ OneFork(chain, cursor, cursorHash, rows)'
  BY DEF Sound, Steps
<1>7. ASSUME aligned PROVE \A v \in Indexers : (pc[v] # "realign" /\ (pc[v] = "reset" => ~OnChain))'
  BY <1>1, <1>2, <1>7 DEF Sound
<1>8. ASSUME aligned, Alone PROVE Alone'
  <2>1. ASSUME NEW v \in Indexers \ {w}, pc[v] # "idle"
        PROVE  /\ v = lock' /\ saved'[v] = saved[v]
               /\ \/ pc'[v] \in {"align", "seed", "check", "reset"}
                  \/ pc'[v] = "compare" /\ saved'[v] = StateRow'
                  \/ Doomed(v)'
    BY <1>1, <1>2, <1>3, <1>4, <1>8, <2>1 DEF Alone, Steps
  <2>2. \/ p = "idle"
        \/ /\ w = lock'
           /\ p \in {"align", "seed", "check", "reset"} \/ (p = "compare" /\ saved'[w] = StateRow')
    BY <1>1, <1>8 DEF Alone, Resting
  <2>. QED BY <1>2, <2>1, <2>2 DEF Alone
<1>9. PassSound(w)'
  <2>1. CASE p = "compare"
    <3>1. CursorSound(chain, cursor, cursorHash)
      BY <2>1 DEF Sound
    <3>2. saved'[w].block = cursor /\ saved'[w].hash = cursorHash
      BY <2>1 DEF StateRow
    <3>3. OnChain' => Named(chain, cursor, cursorHash)
      BY <1>1 DEF OnChain
    <3>. QED BY <1>2, <2>1, <3>1, <3>2, <3>3 DEF PassSound, PassKnows, InPass, WithLogs, Steps
  <2>2. CASE p # "compare"
    BY <1>2, <2>2 DEF PassSound, PassKnows, InPass, WithLogs, Resting
  <2>. QED BY <2>1, <2>2
<1>10. aligned => OnChain' \/ Alone'
  BY <1>1, <1>8 DEF Sound
<1>. QED BY <1>3, <1>5, <1>6, <1>7, <1>9, <1>10 DEF Sound

(* A pass that is to refuse goes on.                                       *)
LEMMA DoomedKeeps ==
  ASSUME Shape, Sound, NEW w \in Indexers, NEW p \in {"logs", "blocks"}, Steps(w, p),
         pc[w] \in {"logs", "blocks"}, Doomed(w), Refuses(w, chain)',
         UNCHANGED <<aligned, rows, cursor, cursorHash, lock>>
  PROVE  Sound'
<1>1. p \in Places /\ rows \subseteq rows' /\ (OnChain <=> OnChain') /\ aligned
  BY DEF Places, OnChain, Steps, Shape, PassShaped
<1>2. pc'[w] = p /\ \A v \in Indexers \ {w} : pc'[v] = pc[v]
  BY <1>1, PlacesAfter
<1>3. \A v \in Indexers \ {w} : (PassSound(v) \/ Doomed(v))' /\ (Doomed(v) => Doomed(v)')
  BY <1>1, OthersKnow
<1>4. CursorSound(chain, cursor, cursorHash)' /\ OneFork(chain, cursor, cursorHash, rows)'
  BY <1>1 DEF Sound, Steps
<1>5. \A v \in Indexers : (pc[v] # "realign" /\ (pc[v] = "reset" => ~OnChain))'
  BY <1>1, <1>2 DEF Sound
<1>6. ASSUME Alone PROVE Alone'
  BY <1>2, <1>3, <1>6 DEF Alone, Doomed, Steps, StateRow
<1>7. OnChain' \/ Alone'
  BY <1>1, <1>6 DEF Sound
<1>. QED BY <1>1, <1>3, <1>4, <1>5, <1>7 DEF Sound, Doomed

(* The projection is emptied: by the one who is under way, alone.          *)
LEMMA EmptiedKeeps ==
  ASSUME Shape, NEW w \in Indexers, NEW p \in {"check", "import", "hydrate"}, Steps(w, p),
         \A v \in Indexers \ {w} : pc[v] = "idle", ResetProjection, DeleteCursor, aligned'
  PROVE  Sound'
<1>1. pc'[w] = p /\ \A v \in Indexers \ {w} : pc'[v] = "idle"
  <2>1. p \in Places
    BY DEF Places
  <2>. QED BY <2>1, PlacesAfter
<1>2. CursorSound(chain', cursor', cursorHash')
  BY DEF DeleteCursor, CursorSound
<1>3. OnChain'
  BY DEF OnChain, Named, DeleteCursor
<1>4. OneFork(chain', cursor', cursorHash', rows')
  <2>1. Deepest(chain', 0) /\ cursor' <= 0 /\ rows' = EventsTo(chain', 0) /\ 0 \in Nat
    BY EventsNone DEF Deepest, DeleteCursor, Absent, ResetProjection
  <2>. QED BY <2>1, <1>3 DEF OneFork, OnChain
<1>5. \A v \in Indexers : PassSound(v)' /\ (pc[v] # "realign" /\ pc[v] # "reset")'
  BY <1>1 DEF PassSound, PassKnows, InPass, WithLogs
<1>. QED BY <1>2, <1>3, <1>4, <1>5 DEF Sound

LEMMA EmptiedShaped ==
  ASSUME ResetProjection, DeleteCursor, aligned', chain' = chain, Shape
  PROVE  DatabaseShaped'
<1>1. rows' = {} /\ status' = "reserved" /\ owner' = NoOwner /\ total' = 0
      /\ cursor' = Absent /\ cursorHash' = NoHash
  BY DEF ResetProjection, DeleteCursor
<1>2. TotalCounted(rows', total')
  BY <1>1 DEF TotalCounted
<1>3. cursor' <= Len(chain')
  <2>1. Len(chain) \in Nat /\ Absent = -1
    BY DEF Shape, IndexerTypeOK, History, Absent
  <2>. QED BY <1>1, <2>1
<1>4. IsFiniteSet(rows')
  BY <1>1, FS_EmptySet
<1>. QED BY <1>1, <1>2, <1>3, <1>4 DEF DatabaseShaped, Hashes

(* Whoever has begun is in a pass over an aligned database whose cursor is *)
(* on the chain.                                                           *)
LEMMA WorkingOnChain ==
  ASSUME Shape, NEW w \in Indexers
  PROVE  /\ pc[w] \notin {"idle", "align", "realign"} => aligned
         /\ Sound /\ pc[w] \notin Resting \cup {"logs", "blocks"} => OnChain /\ PassSound(w)
         /\ Sound /\ ~Doomed(w) /\ pc[w] \notin Resting => OnChain /\ PassSound(w)
<1>1. Doomed(w) => pc[w] \in {"logs", "blocks"}
  BY DEF Doomed, Refuses, Shape, PassShaped, LocalsShaped
<1>2. pc[w] \notin {"idle", "align", "realign"} => aligned
  BY DEF Shape, PassShaped
<1>. QED BY <1>1, <1>2 DEF Sound, Alone, Resting

(* The end of a pass: it has forgotten everything.                         *)
LEMMA Forgets ==
  ASSUME Shape, NEW w \in Indexers, Forgotten(w),
         NEW p \in Places \ (InPass \cup {"compare", "adopt"})
  PROVE  /\ LocalsShaped(chain, p, saved'[w], from'[w], upto'[w], found'[w], unchecked'[w])
         /\ \A r : PassKnows(p, saved'[w], from'[w], upto'[w], found'[w], headHash'[w], chain, r, TRUE)
         /\ saved' \in [Indexers -> [block : Nat \cup {Absent}, hash : Hashes]]
         /\ stats' \in [Indexers -> {"live", "paused"}] /\ holder' \in [Indexers -> Nat]
         /\ from' \in [Indexers -> Nat] /\ upto' \in [Indexers -> Int]
         /\ found' \in [Indexers -> SUBSET History] /\ unchecked' \in [Indexers -> SUBSET Nat]
         /\ headHash' \in [Indexers -> History \cup {NoHash}]
         /\ \A v \in Indexers \ {w} :
              /\ saved'[v] = saved[v] /\ from'[v] = from[v] /\ upto'[v] = upto[v]
              /\ found'[v] = found[v] /\ unchecked'[v] = unchecked[v] /\ headHash'[v] = headHash[v]
<1>1. /\ saved'[w] = NoRow /\ from'[w] = 0 /\ upto'[w] = 0 /\ found'[w] = {} /\ unchecked'[w] = {}
  BY DEF Forgotten, Shape, IndexerTypeOK
<1>2. Len(chain) \in Nat /\ Absent = -1
  BY DEF Shape, IndexerTypeOK, History, Absent
<1>3. NoRow.block <= Len(chain) /\ NoRow \in [block : Nat \cup {Absent}, hash : Hashes]
  BY <1>2 DEF NoRow, Hashes
<1>4. p \notin InPass /\ p \notin WithLogs /\ p \notin {"compare", "adopt", "logs", "blocks", "mark", "write"}
  BY DEF InPass, WithLogs
<1>5. LocalsShaped(chain, p, saved'[w], from'[w], upto'[w], found'[w], unchecked'[w])
  BY <1>1, <1>3, <1>4, FS_EmptySet DEF LocalsShaped
<1>6. \A r : PassKnows(p, saved'[w], from'[w], upto'[w], found'[w], headHash'[w], chain, r, TRUE)
  BY <1>4 DEF PassKnows
<1>7. /\ saved' \in [Indexers -> [block : Nat \cup {Absent}, hash : Hashes]]
      /\ stats' \in [Indexers -> {"live", "paused"}] /\ holder' \in [Indexers -> Nat]
      /\ from' \in [Indexers -> Nat] /\ upto' \in [Indexers -> Int]
      /\ found' \in [Indexers -> SUBSET History] /\ unchecked' \in [Indexers -> SUBSET Nat]
      /\ headHash' \in [Indexers -> History \cup {NoHash}]
  BY <1>3 DEF Forgotten, Shape, IndexerTypeOK
<1>8. \A v \in Indexers \ {w} :
        /\ saved'[v] = saved[v] /\ from'[v] = from[v] /\ upto'[v] = upto[v]
        /\ found'[v] = found[v] /\ unchecked'[v] = unchecked[v] /\ headHash'[v] = headHash[v]
  BY DEF Forgotten, Shape, IndexerTypeOK
<1>. QED BY <1>5, <1>6, <1>7, <1>8

(* The end of a pass that has written nothing, also by failure.            *)
LEMMA EndKeeps ==
  ASSUME IndexerInv, NEW w \in Indexers, pc[w] # "idle",
         Stop(w) \/ (Finish(w) /\ pc[w] \notin {"align", "realign"}),
         UNCHANGED <<chain, database, disturbed, reorgs>>, faults' \in 0 .. MaxFaults
  PROVE  IndexerInv'
<1>1. PICK p \in {"idle", "check"} :
        /\ pc' = [pc EXCEPT ![w] = p] /\ Forgotten(w)
        /\ p = "check" => pc[w] \notin {"align", "realign"} /\ lock' = lock
        /\ p = "idle" => lock' = (IF lock = w THEN None ELSE lock)
  BY DEF Stop, Finish, Goto, Released
<1>2. Shape /\ lock' \in Indexers \cup {None} /\ disturbed' \in BOOLEAN /\ reorgs' \in 0 .. MaxReorgs
  BY <1>1 DEF IndexerInv, Shape, IndexerTypeOK
<1>3. p \in Places \ (InPass \cup {"compare", "adopt"}) /\ p \in Resting
  BY <1>1 DEF Places, InPass, WithLogs, Resting
<1>4. Steps(w, p)
  BY <1>1, <1>2, <1>3, Forgets DEF Steps
<1>5. p = "check" => aligned
  BY <1>1, <1>2, WorkingOnChain
<1>6. Shape'
  <2>1. DatabaseShaped' /\ (aligned => aligned') /\ aligned' = aligned
    BY <1>2, SameDatabase DEF database
  <2>2. LocalsShaped(chain, p, saved'[w], from'[w], upto'[w], found'[w], unchecked'[w])
    BY <1>1, <1>2, <1>3, Forgets
  <2>. QED BY <1>1, <1>2, <1>3, <1>4, <1>5, <2>1, <2>2, ShapeKeeps
<1>7. ASSUME Sound PROVE Sound'
  <2>1. UNCHANGED <<aligned, rows, cursor, cursorHash>>
    BY DEF database
  <2>. QED BY <1>1, <1>2, <1>3, <1>4, <1>5, <1>7, <2>1, QuietKeeps
<1>. QED BY <1>6, <1>7 DEF IndexerInv

-----------------------------------------------------------------------------
(* The steps of an indexer. *)

LEMMA AcquireKeeps ==
  ASSUME IndexerInv, NEW w \in Indexers, Acquire(w)
  PROVE  IndexerInv'
<1>1. Shape /\ pc[w] = "idle" /\ lock = None /\ lock' = w
      /\ UNCHANGED <<chain, database, locals, disturbed, reorgs, faults>>
  BY DEF Acquire, At, IndexerInv
<1>2. Steps(w, "align")
  BY <1>1 DEF Acquire, Goto, Steps, locals, answers, range, Shape, IndexerTypeOK
<1>3. Shape'
  <2>1. DatabaseShaped' /\ (aligned => aligned')
    BY <1>1, SameDatabase
  <2>2. LocalsShaped(chain, "align", saved'[w], from'[w], upto'[w], found'[w], unchecked'[w])
    <3>1. LocalsShaped(chain, "idle", saved[w], from[w], upto[w], found[w], unchecked[w])
      BY <1>1 DEF Shape, PassShaped
    <3>. QED BY <1>1, <3>1 DEF LocalsShaped, InPass, WithLogs, locals, answers, range
  <2>3. "align" \in Places
    BY DEF Places
  <2>. QED BY <1>1, <1>2, <2>1, <2>2, <2>3, ShapeKeeps
<1>4. ASSUME Sound PROVE Sound'
  <2>1. UNCHANGED <<aligned, rows, cursor, cursorHash>> /\ "align" \in Resting
    BY <1>1 DEF database, Resting
  <2>. QED BY <1>1, <1>2, <1>4, <2>1, QuietKeeps
<1>. QED BY <1>1, <1>3, <1>4 DEF IndexerInv

LEMMA FailKeeps ==
  ASSUME IndexerInv, NEW w \in Indexers, Fail(w) \/ Crash(w)
  PROVE  IndexerInv'
<1>1. faults' \in 0 .. MaxFaults
  <2>1. faults \in 0 .. MaxFaults /\ MaxFaults \in Nat
    BY IndexerAssumption DEF IndexerInv, Shape, IndexerTypeOK
  <2>. QED BY <2>1 DEF Fail, Crash, Fault
<1>2. Stop(w) \/ (Finish(w) /\ pc[w] \notin {"align", "realign"})
  BY DEF Fail, Crash, InTick
<1>3. pc[w] # "idle" /\ UNCHANGED <<chain, database, disturbed, reorgs>>
  BY DEF Fail, Crash, InTick, At
<1>. QED BY <1>1, <1>2, <1>3, EndKeeps

LEMMA CaughtUpKeeps ==
  ASSUME IndexerInv, NEW w \in Indexers, CaughtUp(w)
  PROVE  IndexerInv'
<1>1. faults' \in 0 .. MaxFaults
  BY DEF CaughtUp, IndexerInv, Shape, IndexerTypeOK
<1>. QED BY <1>1, EndKeeps DEF CaughtUp, At

(* A session that is lost while the cursor's block is on the chain.        *)
LEMMA LoseSessionKeeps ==
  ASSUME IndexerInv, NEW w \in Indexers, LoseSession(w)
  PROVE  IndexerInv'
<1>1. /\ UNCHANGED <<chain, database, pc, locals, reorgs>> /\ lock' = None
      /\ faults < MaxFaults /\ faults' = faults + 1
  BY DEF LoseSession, Fault
<1>2. disturbed' = (disturbed \/ ~Canonical)
  BY DEF LoseSession
<1>3. disturbed' \in BOOLEAN /\ (disturbed => disturbed') /\ (~Canonical => disturbed')
  BY <1>2, Zenon
<1>4. Shape'
  <2>1. Shape /\ faults \in 0 .. MaxFaults /\ MaxFaults \in Nat
    BY IndexerAssumption DEF IndexerInv, Shape, IndexerTypeOK
  <2>2. faults' \in 0 .. MaxFaults
    BY <1>1, <2>1
  <2>3. IndexerTypeOK'
    BY <1>1, <1>3, <2>1, <2>2 DEF Shape, IndexerTypeOK, database, locals, answers, range
  <2>4. DatabaseShaped'
    BY <1>1, <2>1, SameDatabase
  <2>5. \A v \in Indexers : PassShaped(v)'
    BY <1>1, <2>1 DEF Shape, PassShaped, database, locals, answers, range
  <2>. QED BY <2>3, <2>4, <2>5 DEF Shape
<1>5. ASSUME Canonical, Sound PROVE Sound'
  <2>1. OnChain
    BY <1>5 DEF Canonical, OnChain, Named, Height, Fork, Cut
  <2>2. aligned
    <3>1. ASSUME ~aligned PROVE FALSE
      <4>1. cursor = 1 /\ cursorHash = Legacy /\ chain \in Seq(Kinds)
        BY <1>5, <3>1 DEF Sound, Unaligned, IndexerInv, Shape, IndexerTypeOK, History
      <4>2. 1 # Absent /\ Legacy # NoHash
        BY DEF Absent, Legacy, NoHash
      <4>3. 1 \in 0 .. Len(chain) /\ Legacy = Cut(chain, 1)
        BY <2>1, <4>1, <4>2 DEF OnChain, Named
      <4>4. Cut(chain, 1)[1] = chain[1] /\ 1 \in 1 .. Len(chain)
        BY <4>1, <4>3, CutIs
      <4>5. chain[1] \in Kinds
        BY <4>1, <4>4, ElementOfSeq
      <4>. QED BY <4>3, <4>4, <4>5 DEF Legacy, Kinds
    <3>. QED BY <3>1
  <2>3. aligned' /\ (OnChain <=> OnChain') /\ UNCHANGED <<rows, cursor, cursorHash, chain, pc>>
    BY <1>1, <2>2 DEF database, OnChain
  <2>4. ASSUME NEW v \in Indexers PROVE (PassSound(v) \/ Doomed(v))'
    <3>1. PassSound(v) => PassSound(v)'
      BY <1>1, <2>1, <2>3 DEF PassSound, PassKnows, locals, answers, range
    <3>2. Doomed(v) => Doomed(v)'
      BY <1>1 DEF Doomed, Refuses, locals, answers, range
    <3>. QED BY <1>5, <3>1, <3>2 DEF Sound
  <2>5. CursorSound(chain, cursor, cursorHash)' /\ OneFork(chain, cursor, cursorHash, rows)'
    BY <1>5, <2>2, <2>3 DEF Sound
  <2>6. \A v \in Indexers : (pc[v] # "realign" /\ (pc[v] = "reset" => ~OnChain))'
    BY <1>5, <2>2, <2>3 DEF Sound
  <2>. QED BY <2>1, <2>3, <2>4, <2>5, <2>6 DEF Sound
<1>. QED BY <1>3, <1>4, <1>5 DEF IndexerInv

LEMMA SelectDeploymentKeeps ==
  ASSUME IndexerInv, NEW w \in Indexers, SelectDeployment(w)
  PROVE  IndexerInv'
<1>1. Shape /\ pc[w] = "align" /\ UNCHANGED <<chain, database, lock, locals, disturbed, reorgs, faults>>
  BY DEF SelectDeployment, At, IndexerInv
<1>2. PICK p \in {"realign", "check", "seed"} :
        pc' = [pc EXCEPT ![w] = p] /\ (p = "realign" <=> ~aligned)
  BY DEF SelectDeployment, Goto, AfterAlign
<1>3. Steps(w, p)
  BY <1>1, <1>2 DEF Steps, locals, answers, range, Shape, IndexerTypeOK
<1>4. p \in Places /\ p \in Resting
  BY DEF Places, Resting
<1>5. Shape'
  <2>1. DatabaseShaped' /\ (aligned => aligned') /\ aligned' = aligned
    BY <1>1, SameDatabase DEF database
  <2>2. LocalsShaped(chain, p, saved'[w], from'[w], upto'[w], found'[w], unchecked'[w])
    <3>1. LocalsShaped(chain, "align", saved[w], from[w], upto[w], found[w], unchecked[w])
      BY <1>1 DEF Shape, PassShaped
    <3>. QED BY <1>1, <3>1 DEF LocalsShaped, InPass, WithLogs, locals, answers, range
  <2>. QED BY <1>1, <1>2, <1>3, <1>4, <2>1, <2>2, ShapeKeeps
<1>6. ASSUME Sound PROVE Sound'
  <2>1. UNCHANGED <<aligned, rows, cursor, cursorHash>>
    BY <1>1 DEF database
  <2>. QED BY <1>1, <1>2, <1>3, <1>4, <1>6, <2>1, QuietKeeps
<1>. QED BY <1>1, <1>5, <1>6 DEF IndexerInv

LEMMA AlignDeploymentKeeps ==
  ASSUME IndexerInv, NEW w \in Indexers, AlignDeployment(w)
  PROVE  IndexerInv'
<1>1. /\ Shape /\ pc[w] = "realign" /\ UNCHANGED <<chain, lock, locals, disturbed, reorgs, faults>>
      /\ ResetProjection /\ DeleteCursor /\ aligned'
  BY DEF AlignDeployment, At, IndexerInv
<1>2. PICK p \in {"check", "import"} : pc' = [pc EXCEPT ![w] = p]
  BY DEF AlignDeployment, Goto
<1>3. Steps(w, p)
  BY <1>1, <1>2 DEF Steps, locals, answers, range, Shape, IndexerTypeOK
<1>4. Shape'
  <2>1. DatabaseShaped'
    BY <1>1, EmptiedShaped
  <2>2. LocalsShaped(chain, p, saved'[w], from'[w], upto'[w], found'[w], unchecked'[w])
    <3>1. LocalsShaped(chain, "realign", saved[w], from[w], upto[w], found[w], unchecked[w])
      BY <1>1 DEF Shape, PassShaped
    <3>. QED BY <1>1, <3>1 DEF LocalsShaped, InPass, WithLogs, locals, answers, range
  <2>3. p \in Places
    BY DEF Places
  <2>. QED BY <1>1, <1>3, <2>1, <2>2, <2>3, ShapeKeeps
<1>5. ASSUME Sound PROVE Sound'
  <2>1. \A v \in Indexers \ {w} : pc[v] = "idle"
    BY <1>1, <1>5 DEF Sound, Unaligned
  <2>2. p \in {"check", "import", "hydrate"}
    OBVIOUS
  <2>. QED BY <1>1, <1>3, <2>1, <2>2, EmptiedKeeps
<1>. QED BY <1>1, <1>4, <1>5 DEF IndexerInv

LEMMA ResetKeeps ==
  ASSUME IndexerInv, NEW w \in Indexers, Reset(w)
  PROVE  IndexerInv'
<1>1. /\ Shape /\ pc[w] = "reset" /\ UNCHANGED <<chain, aligned, lock, locals, disturbed, reorgs, faults>>
      /\ ResetProjection /\ DeleteCursor
  BY DEF Reset, At, IndexerInv
<1>2. Steps(w, "hydrate")
  BY <1>1 DEF Reset, Goto, Steps, locals, answers, range, Shape, IndexerTypeOK
<1>3. aligned /\ aligned'
  BY <1>1, WorkingOnChain
<1>4. Shape'
  <2>1. DatabaseShaped'
    BY <1>1, <1>3, EmptiedShaped
  <2>2. LocalsShaped(chain, "hydrate", saved'[w], from'[w], upto'[w], found'[w], unchecked'[w])
    <3>1. LocalsShaped(chain, "reset", saved[w], from[w], upto[w], found[w], unchecked[w])
      BY <1>1 DEF Shape, PassShaped
    <3>. QED BY <1>1, <3>1 DEF LocalsShaped, InPass, WithLogs, locals, answers, range
  <2>3. "hydrate" \in Places
    BY DEF Places
  <2>. QED BY <1>1, <1>2, <1>3, <2>1, <2>2, <2>3, ShapeKeeps
<1>5. ASSUME Sound PROVE Sound'
  <2>1. Alone
    BY <1>1, <1>3, <1>5 DEF Sound
  <2>2. lock = w
    BY <1>1, <2>1 DEF Alone
  <2>3. \A v \in Indexers \ {w} : pc[v] = "idle"
    BY <2>1, <2>2 DEF Alone
  <2>. QED BY <1>1, <1>2, <1>3, <2>3, EmptiedKeeps
<1>. QED BY <1>1, <1>4, <1>5 DEF IndexerInv

(* Whatever answers its questions, a pass goes on with what it knew.       *)
LEMMA WorkKeeps ==
  ASSUME IndexerInv, NEW w \in Indexers, NEW p \in Places \ {"realign", "reset"}, Steps(w, p),
         pc[w] \notin Resting \cup {"logs", "blocks"},
         UNCHANGED <<aligned, rows, total, cursor, cursorHash, disturbed>>,
         status' \in {"reserved", "live", "paused"}, owner' \in Nat \cup {NoOwner},
         LocalsShaped(chain, pc[w], saved[w], from[w], upto[w], found[w], unchecked[w]) =>
           LocalsShaped(chain, p, saved'[w], from'[w], upto'[w], found'[w], unchecked'[w]),
         PassKnows(pc[w], saved[w], from[w], upto[w], found[w], headHash[w], chain, rows, TRUE) =>
           PassKnows(p, saved'[w], from'[w], upto'[w], found'[w], headHash'[w], chain, rows, TRUE)
  PROVE  IndexerInv'
<1>1. Shape /\ aligned /\ (Sound => OnChain /\ PassSound(w))
  BY WorkingOnChain DEF IndexerInv, Resting
<1>2. Shape'
  <2>1. DatabaseShaped'
    BY <1>1 DEF Shape, DatabaseShaped, Steps
  <2>2. LocalsShaped(chain, pc[w], saved[w], from[w], upto[w], found[w], unchecked[w])
    BY <1>1 DEF Shape, PassShaped
  <2>. QED BY <1>1, <2>1, <2>2, ShapeKeeps
<1>3. ASSUME Sound PROVE Sound'
  <2>1. OnChain /\ PassSound(w)
    BY <1>1, <1>3
  <2>2. PassKnows(pc[w], saved[w], from[w], upto[w], found[w], headHash[w], chain, rows, TRUE)
    BY <2>1 DEF PassSound, PassKnows
  <2>. QED BY <1>1, <1>3, <2>1, <2>2, MoveKeeps
<1>. QED BY <1>2, <1>3 DEF IndexerInv

(* The status is read from the runtime and written.                        *)
LEMMA HydrationKeeps ==
  ASSUME IndexerInv, NEW w \in Indexers,
         NEW here \in {"import", "importing", "hydrate", "hydrating"},
         NEW p \in {"importing", "seed", "hydrating", "range", "head"},
         StatsOf(w, here, p) \/ UpdateStatus(w, here, p)
  PROVE  IndexerInv'
<1>1. /\ Shape /\ pc[w] = here /\ pc' = [pc EXCEPT ![w] = p]
      /\ UNCHANGED <<chain, aligned, rows, owner, total, cursor, cursorHash, lock, saved, holder,
                     range, headHash, disturbed, reorgs, faults>>
  BY DEF StatsOf, UpdateStatus, At, Goto, IndexerInv, database
<1>2. stats' \in [Indexers -> {"live", "paused"}] /\ status' \in {"reserved", "live", "paused"}
  BY <1>1 DEF StatsOf, UpdateStatus, StatusAt, Shape, IndexerTypeOK, database
<1>3. Steps(w, p)
  BY <1>1, <1>2 DEF Steps, range, Shape, IndexerTypeOK
<1>4. pc[w] \notin Resting \cup {"logs", "blocks"} /\ p \in Places \ {"realign", "reset"}
      /\ owner' \in Nat \cup {NoOwner}
  BY <1>1 DEF Resting, Places, Shape, IndexerTypeOK
<1>5. LocalsShaped(chain, pc[w], saved[w], from[w], upto[w], found[w], unchecked[w]) =>
        LocalsShaped(chain, p, saved'[w], from'[w], upto'[w], found'[w], unchecked'[w])
  BY <1>1 DEF LocalsShaped, InPass, WithLogs, range
<1>6. PassKnows(p, saved'[w], from'[w], upto'[w], found'[w], headHash'[w], chain, rows, TRUE)
  BY DEF PassKnows, InPass, WithLogs
<1>. QED BY <1>1, <1>2, <1>3, <1>4, <1>5, <1>6, WorkKeeps

LEMMA ImportKeeps ==
  ASSUME IndexerInv, NEW w \in Indexers, Import(w) \/ HydrateImportedRuntimeState(w)
  PROVE  IndexerInv'
<1>1. PICK here \in {"import", "importing", "hydrate", "hydrating"} :
        \E p \in {"importing", "seed", "hydrating", "range", "head"} :
          StatsOf(w, here, p) \/ UpdateStatus(w, here, p)
  BY DEF Import, HydrateImportedRuntimeState, AfterHydrate
<1>. QED BY <1>1, HydrationKeeps

(* Block 0 is every history's first.                                       *)
LEMMA ZeroOnChain ==
  ASSUME NEW c \in Seq(Kinds), NEW hash, CursorSound(c, 0, hash)
  PROVE  /\ Named(c, 0, hash) /\ Cut(c, 0) = <<>> /\ <<>> # NoHash
         /\ CursorSound(c, 0, <<>>) /\ Named(c, 0, <<>>)
<1>1. 0 \in 0 .. Len(c)
  OBVIOUS
<1>2. Cut(c, 0) \in Seq(Kinds) /\ Len(Cut(c, 0)) = 0
  BY <1>1, CutIs
<1>3. Cut(c, 0) = <<>>
  BY <1>2, EmptySeq
<1>4. hash # NoHash => hash = <<>>
  BY EmptySeq DEF CursorSound
<1>5. <<>> # NoHash
  BY DEF NoHash
<1>6. Named(c, 0, hash) /\ Named(c, 0, <<>>)
  BY <1>1, <1>3, <1>4 DEF Named
<1>7. CursorSound(c, 0, <<>>)
  BY <1>2, <1>3, <1>5 DEF CursorSound, Deepest
<1>. QED BY <1>3, <1>5, <1>6, <1>7

(* A cursor that is missing is inserted at 0.                              *)
LEMMA CursorInserted ==
  ASSUME Shape, Sound, aligned, OnChain, InsertCursor
  PROVE  /\ CursorSound(chain, cursor', cursorHash) /\ Named(chain, cursor', cursorHash)
         /\ OneFork(chain, cursor', cursorHash, rows)
         /\ Deepest(chain, cursor') /\ EventsTo(chain, cursor') \subseteq rows
<1>1. /\ chain \in Seq(Kinds) /\ cursor \in Nat \cup {Absent} /\ Absent = -1
      /\ CONFIRMATIONS \in Nat /\ CursorSound(chain, cursor, cursorHash)
  BY IndexerAssumption DEF Shape, Sound, IndexerTypeOK, History, Absent
<1>2. PICK k \in Nat : Deepest(chain, k) /\ cursor <= k /\ rows = EventsTo(chain, k)
  BY DEF Sound, OneFork, OnChain
<1>3. CASE cursor = Absent
  <2>1. cursor' = 0 /\ cursorHash = NoHash
    BY <1>1, <1>3 DEF InsertCursor, CursorSound
  <2>2. CursorSound(chain, 0, cursorHash)
    BY <2>1 DEF CursorSound, Deepest
  <2>3. Named(chain, 0, cursorHash)
    BY <1>1, <2>2, ZeroOnChain
  <2>4. Deepest(chain, 0) /\ EventsTo(chain, 0) \subseteq rows /\ 0 <= k
    BY EventsNone DEF Deepest
  <2>. QED BY <1>2, <2>1, <2>2, <2>3, <2>4 DEF OneFork
<1>4. CASE cursor # Absent
  <2>1. cursor' = cursor /\ cursor \in Nat /\ Deepest(chain, cursor) /\ cursor <= k
    BY <1>1, <1>2, <1>4 DEF InsertCursor, CursorSound
  <2>2. EventsTo(chain, cursor) \subseteq EventsTo(chain, k)
    BY <2>1, EventsGrow
  <2>. QED BY <1>1, <1>2, <2>1, <2>2 DEF Sound, OnChain
<1>. QED BY <1>3, <1>4

LEMMA InsertedShaped ==
  ASSUME Shape, aligned, InsertCursor, UNCHANGED <<chain, aligned, rows, status, owner, total, cursorHash>>
  PROVE  DatabaseShaped' /\ cursor' \in Nat /\ cursor' <= Len(chain)
<1>1. /\ chain \in Seq(Kinds) /\ cursor \in Nat \cup {Absent} /\ Absent = -1 /\ Len(chain) \in Nat
      /\ cursor <= Len(chain)
  BY DEF Shape, DatabaseShaped, IndexerTypeOK, History, Absent
<1>2. cursor' \in Nat /\ cursor' <= Len(chain)
  BY <1>1 DEF InsertCursor
<1>. QED BY <1>2 DEF Shape, DatabaseShaped

LEMMA TellCursorKeeps ==
  ASSUME IndexerInv, NEW w \in Indexers, TellCursor(w)
  PROVE  IndexerInv'
<1>1. /\ Shape /\ pc[w] \in {"seed", "tell"} /\ InsertCursor /\ pc' = [pc EXCEPT ![w] = "check"]
      /\ UNCHANGED <<chain, aligned, rows, status, owner, total, cursorHash, lock, locals,
                     disturbed, reorgs, faults>>
  BY DEF TellCursor, At, Goto, IndexerInv
<1>2. Steps(w, "check")
  BY <1>1 DEF Steps, locals, answers, range, Shape, IndexerTypeOK
<1>3. aligned /\ "check" \in Places \ {"realign", "reset"} /\ "check" \in Resting
  BY <1>1, WorkingOnChain DEF Places, Resting
<1>4. Shape'
  <2>1. DatabaseShaped'
    BY <1>1, <1>3, InsertedShaped
  <2>2. LocalsShaped(chain, "check", saved'[w], from'[w], upto'[w], found'[w], unchecked'[w])
    <3>1. LocalsShaped(chain, pc[w], saved[w], from[w], upto[w], found[w], unchecked[w])
      BY <1>1 DEF Shape, PassShaped
    <3>. QED BY <1>1, <3>1 DEF LocalsShaped, InPass, WithLogs, locals, answers, range
  <2>. QED BY <1>1, <1>2, <1>3, <2>1, <2>2, ShapeKeeps
<1>5. ASSUME Sound, OnChain PROVE Sound'
  <2>1. /\ CursorSound(chain, cursor', cursorHash') /\ Named(chain, cursor', cursorHash')
        /\ OneFork(chain, cursor', cursorHash', rows')
    BY <1>1, <1>3, <1>5, CursorInserted
  <2>2. PassKnows("check", saved'[w], from'[w], upto'[w], found'[w], headHash'[w], chain, rows', TRUE)
    BY DEF PassKnows, InPass, WithLogs
  <2>3. aligned' /\ OnChain' /\ rows \subseteq rows'
    BY <1>1, <1>3, <2>1 DEF OnChain
  <2>. QED BY <1>1, <1>2, <1>3, <1>5, <2>1, <2>2, <2>3, OnChainKeeps
<1>6. ASSUME Sound, ~OnChain PROVE Sound'
  <2>1. cursor' = cursor
    BY <1>1, <1>6 DEF InsertCursor, OnChain, Named
  <2>. QED BY <1>1, <1>2, <1>3, <1>6, <2>1, QuietKeeps
<1>. QED BY <1>1, <1>4, <1>5, <1>6 DEF IndexerInv

LEMMA SelectStateKeeps ==
  ASSUME IndexerInv, NEW w \in Indexers, SelectState(w)
  PROVE  IndexerInv'
<1>1. /\ Shape /\ pc[w] = "check"
      /\ UNCHANGED <<chain, database, lock, stats, holder, range, headHash, disturbed, reorgs, faults>>
  BY DEF SelectState, At, IndexerInv
<1>2. /\ aligned /\ UNCHANGED <<aligned, rows, cursor, cursorHash>> /\ First(w) \in {0, 1}
      /\ AfterCheck(w) \in {"hydrate", "head"}
  BY <1>1, WorkingOnChain DEF database, First, AfterCheck
<1>3. LocalsShaped(chain, "check", saved[w], from[w], upto[w], found[w], unchecked[w])
  BY <1>1 DEF Shape, PassShaped
<1>4. DatabaseShaped' /\ (aligned => aligned') /\ aligned'
  BY <1>1, <1>2, SameDatabase
<1>5. CASE cursor # Absent /\ cursor >= First(w)
  <2>1. pc' = [pc EXCEPT ![w] = "compare"] /\ saved' = [saved EXCEPT ![w] = StateRow]
    BY <1>5 DEF SelectState, Goto
  <2>2. StateRow \in [block : Nat \cup {Absent}, hash : Hashes]
    BY DEF StateRow, IndexerInv, Shape, IndexerTypeOK
  <2>3. Steps(w, "compare") /\ saved'[w] = StateRow
    BY <1>1, <2>1, <2>2 DEF Steps, range, Shape, IndexerTypeOK
  <2>4. "compare" \in Places /\ "compare" \in Resting
    BY DEF Places, Resting
  <2>5. LocalsShaped(chain, "compare", saved'[w], from'[w], upto'[w], found'[w], unchecked'[w])
    <3>1. cursor <= Len(chain)
      BY <1>1, <1>2 DEF Shape, DatabaseShaped
    <3>. QED BY <1>1, <1>3, <1>5, <2>3, <3>1 DEF LocalsShaped, InPass, WithLogs, range, StateRow
  <2>6. Shape'
    BY <1>1, <1>4, <2>3, <2>4, <2>5, ShapeKeeps
  <2>7. Sound => Sound'
    BY <1>1, <1>2, <2>3, <2>4, QuietKeeps
  <2>. QED BY <1>1, <2>6, <2>7 DEF IndexerInv
<1>6. CASE ~(cursor # Absent /\ cursor >= First(w))
  <2>1. PICK p \in {"hydrate", "head"} : pc' = [pc EXCEPT ![w] = p] /\ saved' = saved
    BY <1>2, <1>6 DEF SelectState, Goto
  <2>2. Steps(w, p)
    BY <1>1, <2>1 DEF Steps, range, Shape, IndexerTypeOK
  <2>3. p \in Places \ {"realign", "reset"}
    BY DEF Places
  <2>4. LocalsShaped(chain, p, saved'[w], from'[w], upto'[w], found'[w], unchecked'[w])
    BY <1>1, <1>3, <2>1 DEF LocalsShaped, InPass, WithLogs, range
  <2>5. Shape'
    BY <1>1, <1>4, <2>2, <2>3, <2>4, ShapeKeeps
  <2>6. ASSUME Sound PROVE Sound'
    <3>1. /\ chain \in Seq(Kinds) /\ CursorSound(chain, cursor, cursorHash)
          /\ cursor \in Nat \cup {Absent} /\ Absent = -1
      BY <1>1, <1>2, <2>6 DEF Sound, Shape, IndexerTypeOK, History, Absent
    <3>2. cursor = Absent \/ cursor = 0
      BY <1>2, <1>6, <3>1
    <3>3. OnChain
      BY <3>1, <3>2, ZeroOnChain DEF OnChain, Named
    <3>4. PassKnows(p, saved'[w], from'[w], upto'[w], found'[w], headHash'[w], chain, rows, TRUE)
      BY DEF PassKnows, InPass, WithLogs
    <3>. QED BY <1>1, <1>2, <2>2, <2>3, <2>6, <3>3, <3>4, MoveKeeps
  <2>. QED BY <1>1, <2>5, <2>6 DEF IndexerInv
<1>. QED BY <1>5, <1>6

LEMMA GetSavedBlockKeeps ==
  ASSUME IndexerInv, NEW w \in Indexers, GetSavedBlock(w)
  PROVE  IndexerInv'
<1>1. /\ Shape /\ pc[w] = "compare"
      /\ UNCHANGED <<chain, database, lock, stats, holder, range, disturbed, reorgs, faults>>
  BY DEF GetSavedBlock, At, IndexerInv
<1>2. /\ aligned /\ UNCHANGED <<aligned, rows, cursor, cursorHash>>
      /\ AfterCheck(w) \in {"hydrate", "head"}
  BY <1>1, WorkingOnChain DEF database, AfterCheck
<1>3. LocalsShaped(chain, "compare", saved[w], from[w], upto[w], found[w], unchecked[w])
  BY <1>1 DEF Shape, PassShaped
<1>4. DatabaseShaped' /\ (aligned => aligned') /\ aligned'
  BY <1>1, <1>2, SameDatabase
<1>5. PICK block \in Nat : block = saved[w].block
  BY <1>3 DEF LocalsShaped, IndexerInv, Shape, IndexerTypeOK
<1>6. chain \in Seq(Kinds) /\ block \in 0 .. Len(chain) /\ block # Absent
  BY <1>3, <1>5 DEF LocalsShaped, IndexerInv, Shape, IndexerTypeOK, History
<1>7. Fork(block) = Cut(chain, block) /\ Cut(chain, block) \in History
  BY <1>6, CutIs DEF Fork, Cut, History
<1>8. ASSUME Sound
      PROVE  /\ CursorSound(chain, block, saved[w].hash)
             /\ OnChain => Named(chain, block, saved[w].hash)
             /\ ~OnChain => Alone /\ cursor = block /\ cursorHash = saved[w].hash
  <2>1. ~Doomed(w)
    BY <1>1, <1>3 DEF Doomed, Refuses, LocalsShaped
  <2>2. PassKnows("compare", saved[w], from[w], upto[w], found[w], headHash[w], chain, rows, OnChain)
    BY <1>1, <1>8, <2>1 DEF Sound, PassSound
  <2>3. ~OnChain => Alone
    BY <1>2, <1>8 DEF Sound
  <2>4. ~OnChain => saved[w] = StateRow
    BY <1>1, <2>1, <2>3 DEF Alone
  <2>. QED BY <1>5, <2>2, <2>3, <2>4 DEF PassKnows, StateRow
<1>9. CASE saved[w].hash = NoHash
  <2>1. /\ pc' = [pc EXCEPT ![w] = "adopt"] /\ saved' = saved
        /\ headHash' = [headHash EXCEPT ![w] = Cut(chain, block)]
    BY <1>5, <1>7, <1>9 DEF GetSavedBlock, Goto
  <2>2. Steps(w, "adopt") /\ headHash'[w] = Cut(chain, block)
    BY <1>1, <1>7, <2>1 DEF Steps, range, Shape, IndexerTypeOK
  <2>3. "adopt" \in Places \ {"realign", "reset"}
    BY DEF Places
  <2>4. LocalsShaped(chain, "adopt", saved'[w], from'[w], upto'[w], found'[w], unchecked'[w])
    BY <1>1, <1>3, <2>1 DEF LocalsShaped, InPass, WithLogs, range
  <2>5. Shape'
    BY <1>1, <1>4, <2>2, <2>3, <2>4, ShapeKeeps
  <2>6. ASSUME Sound PROVE Sound'
    <3>1. block = 0
      BY <1>8, <1>9, <2>6, <1>6 DEF CursorSound
    <3>2. CursorSound(chain, 0, saved[w].hash)
      BY <1>8, <2>6, <3>1
    <3>3. Cut(chain, 0) = <<>> /\ Named(chain, 0, saved[w].hash)
      BY <1>6, <3>2, ZeroOnChain
    <3>4. OnChain
      BY <1>8, <2>6, <3>1, <3>3 DEF OnChain
    <3>5. PassKnows("adopt", saved'[w], from'[w], upto'[w], found'[w], headHash'[w], chain, rows, TRUE)
      BY <1>5, <2>1, <2>2, <3>1, <3>3 DEF PassKnows, InPass, WithLogs
    <3>. QED BY <1>1, <1>2, <2>2, <2>3, <2>6, <3>4, <3>5, MoveKeeps
  <2>. QED BY <1>1, <2>5, <2>6 DEF IndexerInv
<1>10. CASE saved[w].hash # NoHash
  <2>1. PICK p \in {"hydrate", "head", "reset"} :
          /\ pc' = [pc EXCEPT ![w] = p]
          /\ saved[w].hash = Cut(chain, block) => p \in {"hydrate", "head"}
          /\ saved[w].hash # Cut(chain, block) => p = "reset"
    BY <1>2, <1>5, <1>7, <1>10 DEF GetSavedBlock, Goto
  <2>2. saved' = [saved EXCEPT ![w] = NoRow] /\ headHash' = headHash
    BY <1>10 DEF GetSavedBlock
  <2>3. NoRow \in [block : Nat \cup {Absent}, hash : Hashes] /\ NoRow.block = Absent
    BY DEF NoRow, Hashes
  <2>4. Steps(w, p) /\ saved'[w] = NoRow
    BY <1>1, <2>1, <2>2, <2>3 DEF Steps, range, Shape, IndexerTypeOK
  <2>5. p \in Places
    BY DEF Places
  <2>6. LocalsShaped(chain, p, saved'[w], from'[w], upto'[w], found'[w], unchecked'[w])
    <3>1. Absent <= Len(chain)
      BY <1>6 DEF Absent
    <3>. QED BY <1>1, <1>3, <2>3, <2>4, <3>1 DEF LocalsShaped, InPass, WithLogs, range
  <2>7. Shape'
    BY <1>1, <1>4, <2>4, <2>5, <2>6, ShapeKeeps
  <2>8. Named(chain, block, saved[w].hash) <=> saved[w].hash = Cut(chain, block)
    BY <1>6, <1>10 DEF Named
  <2>9. ASSUME Sound, saved[w].hash = Cut(chain, block) PROVE Sound'
    <3>1. OnChain
      BY <1>8, <2>8, <2>9 DEF OnChain
    <3>2. p \in Places \ {"realign", "reset"}
      BY <2>1, <2>5, <2>9
    <3>3. PassKnows(p, saved'[w], from'[w], upto'[w], found'[w], headHash'[w], chain, rows, TRUE)
      BY DEF PassKnows, InPass, WithLogs
    <3>. QED BY <1>1, <1>2, <2>4, <2>9, <3>1, <3>2, <3>3, MoveKeeps
  <2>10. ASSUME Sound, saved[w].hash # Cut(chain, block) PROVE Sound'
    <3>1. ~OnChain /\ p = "reset" /\ p \in Resting
      BY <1>8, <2>1, <2>8, <2>10 DEF Resting
    <3>. QED BY <1>1, <1>2, <2>4, <2>10, <3>1, QuietKeeps
  <2>. QED BY <1>1, <2>7, <2>9, <2>10 DEF IndexerInv
<1>. QED BY <1>9, <1>10

LEMMA AdoptHashKeeps ==
  ASSUME IndexerInv, NEW w \in Indexers, AdoptHash(w)
  PROVE  IndexerInv'
<1>1. /\ Shape /\ pc[w] = "adopt"
      /\ cursorHash' = (IF cursor = Absent THEN NoHash ELSE headHash[w])
      /\ saved' = [saved EXCEPT ![w] = NoRow] /\ headHash' = [headHash EXCEPT ![w] = NoHash]
      /\ UNCHANGED <<chain, aligned, rows, status, owner, total, cursor, lock, stats, holder,
                     range, reorgs, faults>>
  BY DEF AdoptHash, At, IndexerInv
<1>2. PICK p \in {"hydrate", "head"} : pc' = [pc EXCEPT ![w] = p]
  BY DEF AdoptHash, Goto, AfterCheck
<1>3. disturbed' = (disturbed \/ cursor \notin {Absent, saved[w].block})
  BY DEF AdoptHash
<1>4. /\ disturbed' \in BOOLEAN /\ (disturbed => disturbed')
      /\ cursor \notin {Absent, saved[w].block} => disturbed'
  BY <1>3, Zenon
<1>5. NoRow \in [block : Nat \cup {Absent}, hash : Hashes] /\ NoRow.block = Absent
  BY DEF NoRow, Hashes
<1>6. Steps(w, p) /\ saved'[w] = NoRow
  BY <1>1, <1>2, <1>4, <1>5 DEF Steps, range, Shape, IndexerTypeOK
<1>7. aligned /\ p \in Places \ {"realign", "reset"}
  BY <1>1, WorkingOnChain DEF Places
<1>8. Shape'
  <2>1. cursorHash' \in Hashes
    BY <1>1 DEF Shape, IndexerTypeOK, Hashes
  <2>2. DatabaseShaped' /\ aligned'
    BY <1>1, <1>7, <2>1 DEF Shape, DatabaseShaped
  <2>3. LocalsShaped(chain, p, saved'[w], from'[w], upto'[w], found'[w], unchecked'[w])
    <3>1. LocalsShaped(chain, "adopt", saved[w], from[w], upto[w], found[w], unchecked[w])
      BY <1>1 DEF Shape, PassShaped
    <3>2. Absent <= Len(chain)
      BY <1>1 DEF Absent, Shape, IndexerTypeOK, History
    <3>. QED BY <1>1, <1>5, <1>6, <3>1, <3>2 DEF LocalsShaped, InPass, WithLogs, range
  <2>. QED BY <1>1, <1>6, <1>7, <2>2, <2>3, ShapeKeeps
<1>9. ASSUME Sound, cursor \in {Absent, saved[w].block} PROVE Sound'
  <2>1. OnChain /\ PassSound(w)
    BY <1>1, <1>9, WorkingOnChain DEF Resting
  <2>2. saved[w].block = 0 /\ headHash[w] = <<>>
    BY <1>1, <2>1 DEF PassSound, PassKnows
  <2>3. CursorSound(chain, cursor, cursorHash) /\ OneFork(chain, cursor, cursorHash, rows)
        /\ chain \in Seq(Kinds) /\ Absent = -1
    BY <1>1, <1>7, <1>9 DEF Sound, Shape, IndexerTypeOK, History, Absent
  <2>4. CursorSound(chain, cursor', cursorHash') /\ Named(chain, cursor', cursorHash')
    <3>1. CASE cursor = Absent
      BY <3>1, <1>1, <2>3 DEF CursorSound, Named
    <3>2. CASE cursor # Absent
      <4>1. cursor = 0 /\ cursor' = 0 /\ cursorHash' = <<>>
        BY <3>2, <1>1, <1>9, <2>2
      <4>2. CursorSound(chain, 0, cursorHash)
        BY <2>3, <4>1
      <4>. QED BY <2>3, <4>1, <4>2, ZeroOnChain
    <3>. QED BY <3>1, <3>2
  <2>5. OneFork(chain, cursor', cursorHash', rows')
    BY <1>1, <2>1, <2>3, <2>4 DEF OneFork, OnChain
  <2>6. PassKnows(p, saved'[w], from'[w], upto'[w], found'[w], headHash'[w], chain, rows', TRUE)
    BY DEF PassKnows, InPass, WithLogs
  <2>7. aligned' /\ OnChain' /\ rows \subseteq rows'
    BY <1>1, <1>7, <2>4 DEF OnChain
  <2>. QED BY <1>1, <1>6, <1>7, <1>9, <2>1, <2>4, <2>5, <2>6, <2>7, OnChainKeeps
<1>. QED BY <1>4, <1>8, <1>9 DEF IndexerInv

LEMMA ReadCursorKeeps ==
  ASSUME IndexerInv, NEW w \in Indexers, ReadCursor(w)
  PROVE  IndexerInv'
<1>1. /\ Shape /\ pc[w] = "range" /\ InsertCursor /\ from' = [from EXCEPT ![w] = cursor' + 1]
      /\ UNCHANGED <<chain, aligned, rows, status, owner, total, cursorHash, lock,
                     answers, upto, found, unchecked, headHash, disturbed, reorgs, faults>>
  BY DEF ReadCursor, At, IndexerInv
<1>2. PICK p \in {"tip", "bounds"} : pc' = [pc EXCEPT ![w] = p]
  BY DEF ReadCursor, Goto
<1>3. aligned /\ p \in Places \ {"realign", "reset"}
  BY <1>1, WorkingOnChain DEF Places
<1>4. DatabaseShaped' /\ cursor' \in Nat
  BY <1>1, <1>3, InsertedShaped
<1>5. PICK f \in Nat : f = cursor' + 1 /\ f # 0 /\ f - 1 = cursor'
  <2>1. PICK cur \in Nat : cur = cursor'
    BY <1>4
  <2>2. cur + 1 \in Nat /\ cur + 1 # 0 /\ (cur + 1) - 1 = cur
    OBVIOUS
  <2>. QED BY <2>1, <2>2
<1>6. from' = [from EXCEPT ![w] = f]
  BY <1>1, <1>5
<1>7. Steps(w, p) /\ from'[w] = f
  BY <1>1, <1>2, <1>6 DEF Steps, answers, Shape, IndexerTypeOK
<1>8. Shape'
  <2>1. LocalsShaped(chain, "range", saved[w], from[w], upto[w], found[w], unchecked[w])
    BY <1>1 DEF Shape, PassShaped
  <2>2. LocalsShaped(chain, p, saved'[w], from'[w], upto'[w], found'[w], unchecked'[w])
    BY <1>1, <1>5, <1>7, <2>1 DEF LocalsShaped, InPass, WithLogs, answers
  <2>. QED BY <1>1, <1>3, <1>4, <1>7, <2>2, ShapeKeeps
<1>9. ASSUME Sound PROVE Sound'
  <2>1. OnChain
    BY <1>1, <1>9, WorkingOnChain DEF Resting
  <2>2. /\ CursorSound(chain, cursor', cursorHash') /\ Named(chain, cursor', cursorHash')
        /\ OneFork(chain, cursor', cursorHash', rows')
        /\ Deepest(chain, f - 1) /\ EventsTo(chain, f - 1) \subseteq rows'
    BY <1>1, <1>3, <1>5, <1>9, <2>1, CursorInserted
  <2>3. PassKnows(p, saved'[w], from'[w], upto'[w], found'[w], headHash'[w], chain, rows', TRUE)
    BY <1>5, <1>7, <2>2 DEF PassKnows, InPass, WithLogs
  <2>4. aligned' /\ OnChain' /\ rows \subseteq rows'
    BY <1>1, <1>3, <2>2 DEF OnChain
  <2>. QED BY <1>1, <1>3, <1>7, <1>9, <2>1, <2>2, <2>3, <2>4, OnChainKeeps
<1>. QED BY <1>1, <1>8, <1>9 DEF IndexerInv

LEMMA GetBlockNumberKeeps ==
  ASSUME IndexerInv, NEW w \in Indexers, GetBlockNumber(w)
  PROVE  IndexerInv'
<1>1. /\ Shape /\ pc[w] \in {"tip", "head"} /\ upto' = [upto EXCEPT ![w] = Confirmed]
      /\ UNCHANGED <<chain, database, lock, answers, from, found, unchecked, headHash,
                     disturbed, reorgs, faults>>
  BY DEF GetBlockNumber, At, IndexerInv
<1>2. PICK p \in {"metadata", "range"} :
        pc' = [pc EXCEPT ![w] = p] /\ (p = "metadata" => pc[w] = "tip")
  BY DEF GetBlockNumber, Goto, At
<1>3. /\ CONFIRMATIONS \in Nat \ {0} /\ Len(chain) \in Nat /\ Confirmed = Len(chain) - CONFIRMATIONS
      /\ Confirmed \in Int
  BY <1>1, IndexerAssumption DEF Shape, IndexerTypeOK, History, Confirmed, Height
<1>4. Steps(w, p) /\ upto'[w] = Confirmed
  BY <1>1, <1>2, <1>3 DEF Steps, answers, Shape, IndexerTypeOK
<1>5. /\ pc[w] \notin Resting \cup {"logs", "blocks"} /\ p \in Places \ {"realign", "reset"}
      /\ UNCHANGED <<aligned, rows, total, cursor, cursorHash, disturbed>>
      /\ status' \in {"reserved", "live", "paused"} /\ owner' \in Nat \cup {NoOwner}
  BY <1>1 DEF Resting, Places, database, Shape, IndexerTypeOK
<1>6. LocalsShaped(chain, p, saved'[w], from'[w], upto'[w], found'[w], unchecked'[w])
  <2>1. LocalsShaped(chain, pc[w], saved[w], from[w], upto[w], found[w], unchecked[w])
    BY <1>1 DEF Shape, PassShaped
  <2>2. found[w] = {}
    BY <1>1, <2>1 DEF LocalsShaped, WithLogs
  <2>. QED BY <1>1, <1>2, <1>3, <1>4, <2>1, <2>2, FS_EmptySet DEF LocalsShaped, InPass, WithLogs, answers
<1>7. PassKnows(pc[w], saved[w], from[w], upto[w], found[w], headHash[w], chain, rows, TRUE) =>
        PassKnows(p, saved'[w], from'[w], upto'[w], found'[w], headHash'[w], chain, rows, TRUE)
  BY <1>1, <1>2 DEF PassKnows, InPass, WithLogs, answers
<1>. QED BY <1>1, <1>4, <1>5, <1>6, <1>7, WorkKeeps

(* The sales of a history can be counted.                                  *)
LEMMA OwnerIsNat ==
  ASSUME NEW h \in Seq(Kinds)
  PROVE  OwnerAt(h) \in Nat
<1>1. Positions(h, {"sold"}) \subseteq 1 .. Len(h) /\ Len(h) \in Nat
  BY DEF Positions
<1>2. IsFiniteSet(1 .. Len(h))
  BY <1>1, FS_Interval
<1>. QED BY <1>1, <1>2, FS_Subset, FS_CardinalityType DEF OwnerAt

LEMMA MetadataKeeps ==
  ASSUME IndexerInv, NEW w \in Indexers, HydrateDeedMetadata(w)
  PROVE  IndexerInv'
<1>1. /\ Shape /\ pc[w] \in {"metadata", "ownerOf", "owned"}
      /\ UNCHANGED <<chain, aligned, rows, status, total, cursor, cursorHash, lock, saved, stats,
                     range, headHash, disturbed, reorgs, faults>>
  BY DEF HydrateDeedMetadata, SelectOwnerless, DeedOwnerOf, UpdateOwner, At, IndexerInv,
     database, locals, answers
<1>2. PICK p \in {"ownerOf", "owned", "bounds"} : pc' = [pc EXCEPT ![w] = p]
  BY DEF HydrateDeedMetadata, SelectOwnerless, DeedOwnerOf, UpdateOwner, Goto
<1>3. holder' \in [Indexers -> Nat] /\ owner' \in Nat \cup {NoOwner}
  <2>1. OwnerAt(chain) \in Nat
    BY <1>1, OwnerIsNat DEF Shape, IndexerTypeOK, History
  <2>2. holder \in [Indexers -> Nat] /\ owner \in Nat \cup {NoOwner}
    BY <1>1 DEF Shape, IndexerTypeOK
  <2>. QED BY <2>1, <2>2 DEF HydrateDeedMetadata, SelectOwnerless, DeedOwnerOf, UpdateOwner,
       database, locals, answers
<1>4. Steps(w, p)
  BY <1>1, <1>2, <1>3 DEF Steps, range, Shape, IndexerTypeOK
<1>5. /\ pc[w] \notin Resting \cup {"logs", "blocks"} /\ p \in Places \ {"realign", "reset"}
      /\ status' \in {"reserved", "live", "paused"}
  BY <1>1 DEF Resting, Places, Shape, IndexerTypeOK
<1>6. LocalsShaped(chain, pc[w], saved[w], from[w], upto[w], found[w], unchecked[w]) =>
        LocalsShaped(chain, p, saved'[w], from'[w], upto'[w], found'[w], unchecked'[w])
  BY <1>1 DEF LocalsShaped, InPass, WithLogs, range
<1>7. PassKnows(pc[w], saved[w], from[w], upto[w], found[w], headHash[w], chain, rows, TRUE) =>
        PassKnows(p, saved'[w], from'[w], upto'[w], found'[w], headHash'[w], chain, rows, TRUE)
  BY <1>1 DEF PassKnows, InPass, WithLogs, range
<1>. QED BY <1>1, <1>3, <1>4, <1>5, <1>6, <1>7, WorkKeeps

(* What getLogs answers.                                                   *)
LEMMA LogsAre ==
  ASSUME Shape, NEW f \in Nat \ {0}, NEW u \in Int, NEW kinds
  PROVE  /\ Logs(f, u, kinds) = FoundIn(chain, f, u, kinds)
         /\ Logs(f, u, kinds) \subseteq History /\ IsFiniteSet(Logs(f, u, kinds))
         /\ \A b \in Logs(f, u, kinds) : Len(b) \in 1 .. Len(chain) /\ Len(b) <= u
<1>1. chain \in Seq(Kinds) /\ Len(chain) \in Nat
  BY DEF Shape, IndexerTypeOK, History
<1>2. Logs(f, u, kinds) = FoundIn(chain, f, u, kinds)
  BY DEF Logs, FoundIn, Fork, Cut, Height
<1>3. /\ FoundIn(chain, f, u, kinds) \subseteq Seq(Kinds) /\ IsFiniteSet(FoundIn(chain, f, u, kinds))
      /\ \A b \in FoundIn(chain, f, u, kinds) : Len(b) \in f .. u /\ Len(b) <= Len(chain)
  BY <1>1, FoundAre
<1>. QED BY <1>1, <1>2, <1>3 DEF History

LEMMA NumbersAre ==
  ASSUME Shape, NEW logs \in SUBSET History, \A b \in logs : Len(b) \in 1 .. Len(chain)
  PROVE  Numbers(logs) \in SUBSET Nat
<1>1. Len(chain) \in Nat
  BY DEF Shape, IndexerTypeOK, History
<1>. QED BY <1>1 DEF Numbers

LEMMA ToIs ==
  ASSUME NEW f \in Nat, NEW u \in Int, f <= u
  PROVE  To(f, u) \in Int /\ f <= To(f, u) /\ To(f, u) <= u
BY IndexerAssumption DEF To

LEMMA GetStateLogsKeeps ==
  ASSUME IndexerInv, NEW w \in Indexers, GetStateLogs(w)
  PROVE  IndexerInv'
<1>1. /\ Shape /\ pc[w] = "bounds" /\ from[w] <= upto[w] /\ pc' = [pc EXCEPT ![w] = "logs"]
      /\ UNCHANGED <<chain, database, lock, answers, from, headHash, disturbed, reorgs, faults>>
  BY DEF GetStateLogs, At, Goto, IndexerInv
<1>2. PICK u : u = To(from[w], upto[w])
  OBVIOUS
<1>3. PICK logs : logs = Logs(from[w], u, StatusKinds \cup {"sold"})
  OBVIOUS
<1>4. /\ upto' = [upto EXCEPT ![w] = u] /\ found' = [found EXCEPT ![w] = logs]
      /\ unchecked' = [unchecked EXCEPT ![w] = Numbers(logs)]
  BY <1>2, <1>3 DEF GetStateLogs
<1>5. LocalsShaped(chain, "bounds", saved[w], from[w], upto[w], found[w], unchecked[w])
  BY <1>1 DEF Shape, PassShaped
<1>6. /\ from[w] \in Nat \ {0} /\ upto[w] \in Int /\ CONFIRMATIONS \in Nat /\ Len(chain) \in Nat
      /\ upto[w] <= Len(chain) - CONFIRMATIONS
  <2>1. /\ from[w] \in Nat /\ upto[w] \in Int /\ CONFIRMATIONS \in Nat /\ Len(chain) \in Nat
    BY <1>1, IndexerAssumption DEF Shape, IndexerTypeOK, History
  <2>2. from[w] # 0 /\ (upto[w] <= 0 \/ upto[w] <= Len(chain) - CONFIRMATIONS)
    BY <1>5 DEF LocalsShaped, InPass
  <2>. QED BY <1>1, <2>1, <2>2
<1>7. u \in Int /\ from[w] <= u /\ u <= upto[w] /\ u <= Len(chain) - CONFIRMATIONS
  <2>1. u \in Int /\ from[w] <= u /\ u <= upto[w]
    BY <1>1, <1>2, <1>6, ToIs
  <2>. QED BY <1>6, <2>1
<1>8. /\ logs = FoundIn(chain, from[w], u, StatusKinds \cup {"sold"})
      /\ logs \in SUBSET History /\ IsFiniteSet(logs)
      /\ \A b \in logs : Len(b) \in 1 .. Len(chain) /\ Len(b) <= u
  BY <1>1, <1>3, <1>6, <1>7, LogsAre
<1>9. Numbers(logs) \in SUBSET Nat
  BY <1>1, <1>8, NumbersAre
<1>10. Steps(w, "logs") /\ upto'[w] = u /\ found'[w] = logs
  BY <1>1, <1>4, <1>7, <1>8, <1>9 DEF Steps, answers, Shape, IndexerTypeOK
<1>11. /\ pc[w] \notin Resting \cup {"logs", "blocks"} /\ "logs" \in Places \ {"realign", "reset"}
       /\ UNCHANGED <<aligned, rows, total, cursor, cursorHash, disturbed>>
       /\ status' \in {"reserved", "live", "paused"} /\ owner' \in Nat \cup {NoOwner}
  BY <1>1 DEF Resting, Places, database, Shape, IndexerTypeOK
<1>12. LocalsShaped(chain, "logs", saved'[w], from'[w], upto'[w], found'[w], unchecked'[w])
  BY <1>1, <1>5, <1>6, <1>7, <1>8, <1>10 DEF LocalsShaped, InPass, WithLogs, answers
<1>13. PassKnows(pc[w], saved[w], from[w], upto[w], found[w], headHash[w], chain, rows, TRUE) =>
         PassKnows("logs", saved'[w], from'[w], upto'[w], found'[w], headHash'[w], chain, rows, TRUE)
  BY <1>1, <1>7, <1>8, <1>10 DEF PassKnows, InPass, WithLogs, answers
<1>. QED BY <1>1, <1>10, <1>11, <1>12, <1>13, WorkKeeps

LEMMA GetHeadBlockKeeps ==
  ASSUME IndexerInv, NEW w \in Indexers, GetHeadBlock(w)
  PROVE  IndexerInv'
<1>1. /\ Shape /\ pc[w] = "mark" /\ pc' = [pc EXCEPT ![w] = "write"]
      /\ headHash' = [headHash EXCEPT ![w] = Cut(chain, upto[w])]
      /\ UNCHANGED <<chain, database, lock, answers, range, disturbed, reorgs, faults>>
  BY DEF GetHeadBlock, At, Goto, IndexerInv, Fork, Cut
<1>2. LocalsShaped(chain, "mark", saved[w], from[w], upto[w], found[w], unchecked[w])
  BY <1>1 DEF Shape, PassShaped
<1>3. chain \in Seq(Kinds) /\ upto[w] \in 0 .. Len(chain)
  <2>1. /\ from[w] \in Nat /\ upto[w] \in Int /\ CONFIRMATIONS \in Nat /\ Len(chain) \in Nat
        /\ chain \in Seq(Kinds)
    BY <1>1, IndexerAssumption DEF Shape, IndexerTypeOK, History
  <2>2. from[w] <= upto[w] /\ (upto[w] <= 0 \/ upto[w] <= Len(chain) - CONFIRMATIONS)
    BY <1>2 DEF LocalsShaped, WithLogs
  <2>. QED BY <2>1, <2>2
<1>4. PICK hash \in History : hash = Cut(chain, upto[w])
  BY <1>3, CutIs DEF History
<1>5. Steps(w, "write") /\ headHash'[w] = hash
  BY <1>1, <1>4 DEF Steps, answers, range, Shape, IndexerTypeOK
<1>6. /\ pc[w] \notin Resting \cup {"logs", "blocks"} /\ "write" \in Places \ {"realign", "reset"}
      /\ UNCHANGED <<aligned, rows, total, cursor, cursorHash, disturbed>>
      /\ status' \in {"reserved", "live", "paused"} /\ owner' \in Nat \cup {NoOwner}
  BY <1>1 DEF Resting, Places, database, Shape, IndexerTypeOK
<1>7. LocalsShaped(chain, "write", saved'[w], from'[w], upto'[w], found'[w], unchecked'[w])
  BY <1>1, <1>2 DEF LocalsShaped, InPass, WithLogs, answers, range
<1>8. PassKnows(pc[w], saved[w], from[w], upto[w], found[w], headHash[w], chain, rows, TRUE) =>
        PassKnows("write", saved'[w], from'[w], upto'[w], found'[w], headHash'[w], chain, rows, TRUE)
  BY <1>1, <1>4, <1>5 DEF PassKnows, InPass, WithLogs, answers, range
<1>. QED BY <1>1, <1>5, <1>6, <1>7, <1>8, WorkKeeps

(* A pass that fetches logs and blocks goes on, if it was sound or is still *)
(* to refuse.                                                               *)
LEMMA FetchKeeps ==
  ASSUME IndexerInv, NEW w \in Indexers, pc[w] \in {"logs", "blocks"},
         NEW p \in {"blocks", "mark"}, Steps(w, p),
         UNCHANGED <<database, lock, saved, from, upto, disturbed>>,
         LocalsShaped(chain, p, saved'[w], from'[w], upto'[w], found'[w], unchecked'[w]),
         PassKnows(pc[w], saved[w], from[w], upto[w], found[w], headHash[w], chain, rows, TRUE) =>
           PassKnows(p, saved'[w], from'[w], upto'[w], found'[w], headHash'[w], chain, rows, TRUE),
         Doomed(w) => p = "blocks" /\ Refuses(w, chain)'
  PROVE  IndexerInv'
<1>1. Shape /\ UNCHANGED <<aligned, rows, cursor, cursorHash>> /\ UNCHANGED chain
  BY DEF IndexerInv, database, Steps
<1>2. aligned
  BY <1>1, WorkingOnChain
<1>3. p \in Places \ {"realign", "reset"}
  BY DEF Places
<1>4. Shape'
  <2>1. DatabaseShaped' /\ aligned'
    BY <1>1, <1>2, SameDatabase
  <2>. QED BY <1>1, <1>3, <2>1, ShapeKeeps
<1>5. ASSUME Sound, Doomed(w) PROVE Sound'
  <2>1. p \in {"logs", "blocks"} /\ lock' = lock /\ Refuses(w, chain)'
    BY <1>5
  <2>. QED BY <1>1, <1>5, <2>1, DoomedKeeps
<1>6. ASSUME Sound, ~Doomed(w) PROVE Sound'
  <2>1. OnChain /\ PassSound(w)
    BY <1>1, <1>6, WorkingOnChain DEF Resting
  <2>2. PassKnows(pc[w], saved[w], from[w], upto[w], found[w], headHash[w], chain, rows, TRUE)
    BY <2>1 DEF PassSound, PassKnows
  <2>. QED BY <1>1, <1>2, <1>3, <1>6, <2>1, <2>2, MoveKeeps
<1>. QED BY <1>4, <1>5, <1>6 DEF IndexerInv

LEMMA GetRecordedLogsKeeps ==
  ASSUME IndexerInv, NEW w \in Indexers, GetRecordedLogs(w)
  PROVE  IndexerInv'
<1>1. /\ Shape /\ pc[w] = "logs"
      /\ UNCHANGED <<chain, database, lock, answers, from, upto, headHash, disturbed, reorgs, faults>>
  BY DEF GetRecordedLogs, At, IndexerInv
<1>2. PICK new : new = Logs(from[w], upto[w], Recorded)
  OBVIOUS
<1>3. PICK logs : logs = found[w] \cup new
  OBVIOUS
<1>4. /\ found' = [found EXCEPT ![w] = logs]
      /\ unchecked' = [unchecked EXCEPT ![w] = Numbers(logs)]
      /\ pc' = [pc EXCEPT ![w] = IF logs = {} THEN "mark" ELSE "blocks"]
  BY <1>2, <1>3 DEF GetRecordedLogs, Goto
<1>5. PICK p \in {"blocks", "mark"} : p = IF logs = {} THEN "mark" ELSE "blocks"
  OBVIOUS
<1>6. LocalsShaped(chain, "logs", saved[w], from[w], upto[w], found[w], unchecked[w])
  BY <1>1 DEF Shape, PassShaped
<1>7. from[w] \in Nat \ {0} /\ upto[w] \in Int
  BY <1>1, <1>6 DEF LocalsShaped, InPass, WithLogs, Shape, IndexerTypeOK
<1>8. /\ new = FoundIn(chain, from[w], upto[w], Recorded)
      /\ new \subseteq History /\ IsFiniteSet(new)
      /\ \A b \in new : Len(b) \in 1 .. Len(chain) /\ Len(b) <= upto[w]
  BY <1>1, <1>2, <1>7, LogsAre
<1>9. /\ logs \in SUBSET History /\ IsFiniteSet(logs)
      /\ \A b \in logs : Len(b) \in 1 .. Len(chain) /\ Len(b) <= upto[w]
  <2>1. found[w] \in SUBSET History
    BY <1>1 DEF Shape, IndexerTypeOK
  <2>2. IsFiniteSet(found[w]) /\ \A b \in found[w] : Len(b) \in 1 .. Len(chain) /\ Len(b) <= upto[w]
    BY <1>6 DEF LocalsShaped
  <2>. QED BY <1>3, <1>8, <2>1, <2>2, FS_Union
<1>10. Numbers(logs) \in SUBSET Nat /\ (logs = {} => Numbers(logs) = {})
  BY <1>1, <1>9, NumbersAre DEF Numbers
<1>11. Steps(w, p) /\ found'[w] = logs /\ unchecked'[w] = Numbers(logs)
  BY <1>1, <1>4, <1>5, <1>9, <1>10 DEF Steps, answers, Shape, IndexerTypeOK
<1>12. LocalsShaped(chain, p, saved'[w], from'[w], upto'[w], found'[w], unchecked'[w])
  BY <1>1, <1>5, <1>6, <1>9, <1>10, <1>11 DEF LocalsShaped, InPass, WithLogs, answers
<1>13. ASSUME PassKnows("logs", saved[w], from[w], upto[w], found[w], headHash[w], chain, rows, TRUE)
       PROVE  PassKnows(p, saved'[w], from'[w], upto'[w], found'[w], headHash'[w], chain, rows, TRUE)
  <2>1. logs = FoundIn(chain, from[w], upto[w], StatusKinds \cup {"sold"} \cup Recorded)
    <3>1. found[w] = FoundIn(chain, from[w], upto[w], StatusKinds \cup {"sold"})
      BY <1>13 DEF PassKnows
    <3>. QED BY <3>1, <1>3, <1>8 DEF FoundIn
  <2>. QED BY <1>1, <1>11, <1>13, <2>1 DEF PassKnows, InPass, WithLogs, answers
<1>14. ASSUME Doomed(w) PROVE p = "blocks" /\ Refuses(w, chain)'
  <2>1. PICK b \in found[w] : b # SubSeq(chain, 1, Len(b))
    BY <1>14 DEF Doomed, Refuses
  <2>2. b \in logs /\ Len(b) \in Numbers(logs)
    BY <1>3, <2>1 DEF Numbers
  <2>. QED BY <1>1, <1>5, <1>11, <2>1, <2>2 DEF Refuses
<1>. QED BY <1>1, <1>11, <1>12, <1>13, <1>14, FetchKeeps DEF answers

LEMMA BlocksKeeps ==
  ASSUME IndexerInv, NEW w \in Indexers, Blocks(w)
  PROVE  IndexerInv'
<1>1. Shape /\ pc[w] = "blocks" /\ UNCHANGED <<chain, database, disturbed, reorgs, faults>>
  BY DEF Blocks, At, IndexerInv
<1>2. PICK n \in unchecked[w] :
        IF \A block \in found[w] : Len(block) = n => block = Fork(n)
        THEN /\ unchecked' = [unchecked EXCEPT ![w] = @ \ {n}]
             /\ Goto(w, IF unchecked[w] = {n} THEN "mark" ELSE "blocks")
             /\ UNCHANGED <<lock, answers, from, upto, found, headHash>>
        ELSE Finish(w)
  BY DEF Blocks
<1>3. CASE Finish(w)
  <2>1. faults' \in 0 .. MaxFaults
    BY <1>1 DEF Shape, IndexerTypeOK
  <2>. QED BY <1>1, <1>3, <2>1, EndKeeps
<1>4. CASE ~Finish(w)
  <2>1. /\ \A block \in found[w] : Len(block) = n => block = Fork(n)
        /\ UNCHANGED <<lock, answers, from, upto, found, headHash>>
    BY <1>2, <1>4
  <2>2. PICK left : left = unchecked[w] \ {n}
    OBVIOUS
  <2>3. PICK p \in {"blocks", "mark"} : p = IF unchecked[w] = {n} THEN "mark" ELSE "blocks"
    OBVIOUS
  <2>4. unchecked' = [unchecked EXCEPT ![w] = left] /\ pc' = [pc EXCEPT ![w] = p]
    BY <1>2, <1>4, <2>2, <2>3 DEF Goto
  <2>5. Steps(w, p) /\ unchecked'[w] = left
    BY <1>1, <2>1, <2>2, <2>4 DEF Steps, answers, Shape, IndexerTypeOK
  <2>6. LocalsShaped(chain, "blocks", saved[w], from[w], upto[w], found[w], unchecked[w])
    BY <1>1 DEF Shape, PassShaped
  <2>7. p = "mark" => left = {}
    BY <2>2, <2>3
  <2>8. LocalsShaped(chain, p, saved'[w], from'[w], upto'[w], found'[w], unchecked'[w])
    BY <2>1, <2>5, <2>6, <2>7 DEF LocalsShaped, InPass, WithLogs, answers
  <2>9. PassKnows("blocks", saved[w], from[w], upto[w], found[w], headHash[w], chain, rows, TRUE) =>
          PassKnows(p, saved'[w], from'[w], upto'[w], found'[w], headHash'[w], chain, rows, TRUE)
    BY <2>1 DEF PassKnows, InPass, WithLogs, answers
  <2>10. ASSUME Doomed(w) PROVE p = "blocks" /\ Refuses(w, chain)'
    <3>1. PICK b \in found[w] : Len(b) \in unchecked[w] /\ b # SubSeq(chain, 1, Len(b))
      BY <2>10 DEF Doomed, Refuses
    <3>2. Len(b) # n
      BY <2>1, <3>1 DEF Fork
    <3>3. Len(b) \in left /\ unchecked[w] # {n}
      BY <2>2, <3>1, <3>2
    <3>. QED BY <1>1, <2>1, <2>3, <2>5, <3>1, <3>3 DEF Refuses
  <2>. QED BY <1>1, <2>1, <2>5, <2>8, <2>9, <2>10, FetchKeeps DEF answers
<1>. QED BY <1>3, <1>4


(* What a pass adds to the rows is what they lacked up to its end.         *)
LEMMA WrittenEvents ==
  ASSUME NEW c \in Seq(Kinds), NEW k \in 0 .. Len(c), NEW f \in Nat \ {0}, NEW u \in Nat,
         f <= u, u <= Len(c), EventsTo(c, f - 1) \subseteq EventsTo(c, k),
         NEW kinds, Recorded \subseteq kinds, NEW logs, logs = FoundIn(c, f, u, kinds),
         NEW new, new = {b \in logs : Event(b) \in Recorded},
         NEW top, top = IF k <= u THEN u ELSE k
  PROVE  EventsTo(c, k) \cup new = EventsTo(c, top)
<1>1. new = {b \in FoundIn(c, f, u, kinds) : Event(b) \in Recorded}
  OBVIOUS
<1>2. ASSUME NEW b \in new PROVE b \in EventsTo(c, u)
  <2>1. Len(b) \in f .. u /\ b = Cut(c, Len(b)) /\ c[Len(b)] \in Recorded
    BY <1>1, FoundAre
  <2>. QED BY <2>1 DEF EventsTo
<1>3. ASSUME NEW b \in EventsTo(c, u) PROVE b \in new \/ b \in EventsTo(c, f - 1)
  <2>1. PICK i \in 1 .. u : c[i] \in Recorded /\ b = Cut(c, i)
    BY DEF EventsTo
  <2>2. CASE i < f
    BY <2>1, <2>2 DEF EventsTo
  <2>3. CASE ~(i < f)
    <3>1. b \in FoundIn(c, f, u, kinds)
      BY <2>1, <2>3 DEF FoundIn
    <3>2. i \in 0 .. Len(c) /\ i \in 1 .. i
      BY <2>1
    <3>3. Len(b) = i /\ b[i] = c[i]
      BY <3>2, <2>1, CutIs
    <3>. QED BY <3>1, <3>3, <2>1, <1>1 DEF Event
  <2>. QED BY <2>2, <2>3
<1>4. CASE k <= u
  <2>1. EventsTo(c, k) \subseteq EventsTo(c, u)
    BY <1>4, EventsGrow
  <2>. QED BY <1>1, <1>2, <1>3, <1>4, <2>1
<1>5. CASE ~(k <= u)
  <2>1. EventsTo(c, u) \subseteq EventsTo(c, k)
    BY <1>5, EventsGrow
  <2>. QED BY <1>1, <1>2, <1>5, <2>1
<1>. QED BY <1>4, <1>5

(* Of histories of bounded length, one is the longest.                     *)
LEMMA LongestExists ==
  ASSUME NEW m \in Nat, NEW S, S # {}, \A b \in S : Len(b) \in 0 .. m
  PROVE  \E b \in S : \A c \in S : Len(c) <= Len(b)
<1>1. PICK T : T = {m - Len(b) : b \in S}
  OBVIOUS
<1>2. T \in SUBSET Nat /\ T # {}
  BY <1>1
<1>3. PICK t \in T : \A k \in T : t <= k
  BY <1>2, NatMin
<1>4. PICK b \in S : t = m - Len(b)
  BY <1>1, <1>3
<1>5. ASSUME NEW c \in S PROVE Len(c) <= Len(b)
  <2>1. m - Len(c) \in T
    BY <1>1
  <2>2. t <= m - Len(c)
    BY <1>3, <2>1
  <2>3. Len(b) \in 0 .. m /\ Len(c) \in 0 .. m
    OBVIOUS
  <2>. QED BY <1>4, <2>2, <2>3
<1>. QED BY <1>5

LEMMA LongestIs ==
  ASSUME NEW m \in Nat, NEW S, S # {}, \A b \in S : Len(b) \in 0 .. m
  PROVE  (CHOOSE b \in S : \A c \in S : Len(c) <= Len(b)) \in S
BY LongestExists

(* Whatever was reorganised, a write counts the total anew.                *)
LEMMA WriteShapes ==
  ASSUME Shape, NEW w \in Indexers, WritePass(w)
  PROVE  DatabaseShaped' /\ aligned /\ aligned' /\ chain' = chain
<1>1. aligned /\ pc[w] = "write"
  BY WorkingOnChain DEF WritePass, At
<1>2. PICK logs : logs = found[w]
  OBVIOUS
<1>3. PICK u \in Int : u = upto[w]
  BY DEF Shape, IndexerTypeOK
<1>4. PICK old : old = rows
  OBVIOUS
<1>5. /\ chain \in Seq(Kinds) /\ Len(chain) \in Nat /\ CONFIRMATIONS \in Nat \ {0}
      /\ cursor \in Nat \cup {Absent} /\ Absent = -1 /\ cursor <= Len(chain) /\ from[w] \in Nat
  BY <1>1, IndexerAssumption DEF Shape, DatabaseShaped, IndexerTypeOK, History, Absent
<1>6. LocalsShaped(chain, "write", saved[w], from[w], u, logs, unchecked[w])
  BY <1>1, <1>2, <1>3 DEF Shape, PassShaped
<1>7. u \in Nat /\ u <= Len(chain)
  <2>1. from[w] <= u /\ (u <= 0 \/ u <= Len(chain) - CONFIRMATIONS)
    BY <1>6 DEF LocalsShaped, WithLogs
  <2>. QED BY <1>5, <2>1
<1>8. logs \subseteq History /\ IsFiniteSet(logs) /\ \A b \in logs : Len(b) \in 0 .. Len(chain)
  <2>1. logs \subseteq History
    BY <1>2 DEF Shape, IndexerTypeOK
  <2>2. IsFiniteSet(logs) /\ \A b \in logs : Len(b) \in 1 .. Len(chain)
    BY <1>6 DEF LocalsShaped
  <2>. QED BY <2>1, <2>2, <1>5
<1>9. PICK new : new = {b \in logs : Event(b) \in Recorded}
  OBVIOUS
<1>10. rows' = old \cup new
  BY <1>2, <1>4, <1>9 DEF WritePass, PassWritten
<1>11. old \subseteq History \cup {Legacy} /\ IsFiniteSet(old)
  BY <1>4 DEF Shape, DatabaseShaped
<1>12. rows' \subseteq History \cup {Legacy} /\ IsFiniteSet(rows')
  <2>1. new \subseteq History /\ IsFiniteSet(new)
    BY <1>8, <1>9, FS_Subset
  <2>. QED BY <1>10, <1>11, <2>1, FS_Union
<1>13. owner' \in Nat \cup {NoOwner}
  <2>1. PICK sales : sales = {block \in logs : Event(block) = "sold"}
    OBVIOUS
  <2>2. owner' = IF sales = {} THEN owner
                 ELSE OwnerAt(CHOOSE b \in sales : \A e \in sales : Len(e) <= Len(b))
    BY <1>2, <2>1 DEF WritePass, PassWritten
  <2>3. ASSUME sales # {}
        PROVE  (CHOOSE b \in sales : \A e \in sales : Len(e) <= Len(b)) \in Seq(Kinds)
    <3>1. \A b \in sales : Len(b) \in 0 .. Len(chain)
      BY <1>8, <2>1
    <3>2. (CHOOSE b \in sales : \A e \in sales : Len(e) <= Len(b)) \in sales
      BY <1>5, <2>3, <3>1, LongestIs
    <3>. QED BY <3>2, <2>1, <1>8 DEF History
  <2>4. owner \in Nat \cup {NoOwner}
    BY DEF Shape, IndexerTypeOK
  <2>. QED BY <2>2, <2>3, <2>4, OwnerIsNat
<1>14. status' \in {"reserved", "live", "paused"}
  BY DEF WritePass, PassWritten, StatusAt, Shape, IndexerTypeOK
<1>15. cursor' \in Nat \cup {Absent} /\ cursor' <= Len(chain) /\ cursorHash' \in Hashes
  <2>1. /\ cursor' = (IF cursor = Absent THEN cursor ELSE u)
        /\ cursorHash' = (IF cursor = Absent THEN cursorHash ELSE headHash[w])
    BY <1>3 DEF WritePass, PassWritten
  <2>2. cursorHash \in Hashes /\ headHash[w] \in Hashes
    BY DEF Shape, IndexerTypeOK, Hashes
  <2>. QED BY <1>5, <1>7, <2>1, <2>2
<1>16. TotalCounted(rows', total') /\ total' \in Nat
  <2>1. PICK statuses : statuses = {block \in logs : Event(block) \in StatusKinds}
    OBVIOUS
  <2>2. PICK calls : calls = {block \in logs : Event(block) = "call"}
    OBVIOUS
  <2>3. PICK before : before = {b \in old : b # Legacy /\ Event(b) = "call"}
    OBVIOUS
  <2>4. total' = IF statuses \cup calls = {} THEN total ELSE Baseline + Cardinality(before \cup calls)
    BY <1>2, <1>4, <2>1, <2>2, <2>3 DEF WritePass, PassWritten, RowsOf
  <2>5. {b \in rows' : b # Legacy /\ Event(b) = "call"} = before \cup calls
    <3>1. Legacy \notin logs
      <4>1. ASSUME Legacy \in Seq(Kinds) PROVE FALSE
        <5>1. Legacy[1] \in Kinds
          BY <4>1, ElementOfSeq DEF Legacy
        <5>. QED BY <5>1 DEF Legacy, Kinds
      <4>. QED BY <4>1, <1>8 DEF History
    <3>2. "call" \in Recorded
      BY DEF Recorded
    <3>. QED BY <3>1, <3>2, <1>9, <1>10, <2>2, <2>3
  <2>6. TotalCounted(old, total)
    BY <1>1, <1>4 DEF Shape, DatabaseShaped
  <2>7. Cardinality(before \cup calls) \in Nat
    <3>1. IsFiniteSet(before) /\ IsFiniteSet(calls)
      BY <1>8, <1>11, <2>2, <2>3, FS_Subset
    <3>. QED BY <3>1, FS_Union, FS_CardinalityType
  <2>8. Baseline \in Nat /\ total \in Nat
    BY IndexerAssumption DEF Shape, IndexerTypeOK
  <2>9. total' \in Nat
    BY <2>4, <2>7, <2>8
  <2>10. TotalCounted(rows', total')
    <3>1. CASE statuses \cup calls = {}
      <4>1. total' = total /\ before \cup calls = before
        BY <2>4, <3>1
      <4>. QED BY <4>1, <2>3, <2>5, <2>6 DEF TotalCounted
    <3>2. CASE statuses \cup calls # {}
      BY <3>2, <2>4, <2>5 DEF TotalCounted
    <3>. QED BY <3>1, <3>2
  <2>. QED BY <2>9, <2>10
<1>17. aligned' = aligned /\ chain' = chain
  BY DEF WritePass, PassWritten
<1>18. DatabaseShaped'
  BY <1>1, <1>12, <1>13, <1>14, <1>15, <1>16, <1>17 DEF DatabaseShaped
<1>. QED BY <1>1, <1>17, <1>18

(* And while nothing was replaced behind the pass, it writes what its fork *)
(* lacked up to its end, and the cursor with the hash of that block.       *)
LEMMA WrittenOnFork ==
  ASSUME Shape, Sound, NEW w \in Indexers, WritePass(w)
  PROVE  /\ OnChain /\ rows \subseteq rows'
         /\ CursorSound(chain, cursor', cursorHash') /\ Named(chain, cursor', cursorHash')
         /\ OneFork(chain, cursor', cursorHash', rows')
<1>1. aligned /\ OnChain /\ pc[w] = "write" /\ PassSound(w)
  BY WorkingOnChain DEF WritePass, At, Resting
<1>2. PICK c : c = chain
  OBVIOUS
<1>3. /\ c \in Seq(Kinds) /\ Len(c) \in Nat /\ CONFIRMATIONS \in Nat \ {0} /\ Absent = -1
      /\ cursor \in Nat \cup {Absent}
  BY <1>2, IndexerAssumption DEF Shape, IndexerTypeOK, History, Absent
<1>4. PICK f \in Nat : f = from[w]
  BY DEF Shape, IndexerTypeOK
<1>5. PICK u \in Int : u = upto[w]
  BY DEF Shape, IndexerTypeOK
<1>6. PICK kinds : kinds = StatusKinds \cup {"sold"} \cup Recorded
  OBVIOUS
<1>7. PICK logs : logs = FoundIn(c, f, u, kinds)
  OBVIOUS
<1>8. PICK r : r = rows
  OBVIOUS
<1>9. /\ f # 0 /\ f <= u /\ u <= Len(c) - CONFIRMATIONS /\ EventsTo(c, f - 1) \subseteq r
      /\ found[w] = logs /\ headHash[w] = Cut(c, u)
  <2>1. PICK on : on = OnChain
    OBVIOUS
  <2>2. PassKnows("write", saved[w], f, u, found[w], headHash[w], c, r, on)
    BY <1>1, <1>2, <1>4, <1>5, <1>8, <2>1 DEF PassSound
  <2>. QED BY <1>6, <1>7, <2>2 DEF PassKnows, InPass, WithLogs
<1>10. f \in Nat \ {0} /\ u \in Nat /\ u # 0 /\ u \in 0 .. Len(c) /\ Deepest(c, u)
  BY <1>3, <1>9 DEF Deepest
<1>11. PICK k \in Nat : Deepest(c, k) /\ cursor <= k /\ r = EventsTo(c, k)
  BY <1>1, <1>2, <1>8 DEF Sound, OneFork, OnChain
<1>12. k \in 0 .. Len(c)
  BY <1>3, <1>11 DEF Deepest
<1>13. PICK new : new = {b \in logs : Event(b) \in Recorded}
  OBVIOUS
<1>14. rows' = r \cup new
  BY <1>8, <1>9, <1>13 DEF WritePass, PassWritten
<1>15. PICK top \in Nat : top = IF k <= u THEN u ELSE k
  BY <1>10
<1>16. rows' = EventsTo(c, top) /\ Deepest(c, top) /\ k <= top /\ u <= top
  <2>1. Recorded \subseteq kinds
    BY <1>6
  <2>2. /\ c \in Seq(Kinds) /\ k \in 0 .. Len(c) /\ f \in Nat \ {0} /\ u \in Nat
        /\ f <= u /\ u <= Len(c) /\ EventsTo(c, f - 1) \subseteq EventsTo(c, k)
    BY <1>3, <1>9, <1>10, <1>11, <1>12
  <2>3. EventsTo(c, k) \cup new = EventsTo(c, top)
    BY ONLY <2>1, <2>2, <1>7, <1>13, <1>15, WrittenEvents
  <2>. QED BY <1>10, <1>11, <1>12, <1>14, <1>15, <2>3
<1>17. cursor' = (IF cursor = Absent THEN cursor ELSE u)
       /\ cursorHash' = (IF cursor = Absent THEN cursorHash ELSE Cut(c, u))
  BY <1>5, <1>9 DEF WritePass, PassWritten
<1>18. CursorSound(c, cursor', cursorHash') /\ Named(c, cursor', cursorHash')
  <2>1. CASE cursor = Absent
    BY <2>1, <1>1, <1>2, <1>17 DEF Sound, OnChain
  <2>2. CASE cursor # Absent
    <3>1. Cut(c, u) \in Seq(Kinds) /\ Len(Cut(c, u)) = u
      BY <1>3, <1>10, CutIs
    <3>2. Cut(c, u) # NoHash
      <4>1. Cut(c, u)[1] \in Kinds
        BY <3>1, <1>10, ElementOfSeq
      <4>. QED BY <4>1 DEF NoHash, Kinds
    <3>. QED BY <2>2, <3>1, <3>2, <1>10, <1>17 DEF CursorSound, Named
  <2>. QED BY <2>1, <2>2
<1>19. cursor' <= top
  BY <1>3, <1>10, <1>11, <1>16, <1>17
<1>20. OneFork(c, cursor', cursorHash', rows')
  BY <1>16, <1>18, <1>19 DEF OneFork
<1>. QED BY <1>1, <1>2, <1>8, <1>14, <1>18, <1>20

LEMMA WriteKeeps ==
  ASSUME IndexerInv, NEW w \in Indexers, WritePass(w)
  PROVE  IndexerInv'
<1>1. Shape /\ UNCHANGED <<disturbed, reorgs, faults>>
  BY DEF IndexerInv, WritePass
<1>2. PICK p \in {"idle", "check", "tell"} :
         pc' = [pc EXCEPT ![w] = p] /\ Forgotten(w) /\ lock' \in Indexers \cup {None}
  BY <1>1 DEF WritePass, Finish, Goto, Released, Shape, IndexerTypeOK
<1>3. p \in Places \ (InPass \cup {"compare", "adopt"}) /\ p \in Places \ {"realign", "reset"}
  BY DEF Places, InPass, WithLogs
<1>4. DatabaseShaped' /\ aligned /\ aligned' /\ chain' = chain
  BY <1>1, WriteShapes
<1>5. Steps(w, p)
  <2>1. disturbed' \in BOOLEAN /\ reorgs' \in 0 .. MaxReorgs /\ faults' \in 0 .. MaxFaults
    BY <1>1 DEF Shape, IndexerTypeOK
  <2>. QED BY <1>1, <1>2, <1>3, <1>4, <2>1, Forgets DEF Steps
<1>6. Shape'
  <2>1. LocalsShaped(chain, p, saved'[w], from'[w], upto'[w], found'[w], unchecked'[w])
    BY <1>1, <1>2, <1>3, Forgets
  <2>. QED BY <1>1, <1>3, <1>4, <1>5, <2>1, ShapeKeeps
<1>7. ASSUME Sound PROVE Sound'
  <2>1. /\ OnChain /\ rows \subseteq rows'
        /\ CursorSound(chain, cursor', cursorHash') /\ Named(chain, cursor', cursorHash')
        /\ OneFork(chain, cursor', cursorHash', rows')
    BY <1>1, <1>7, WrittenOnFork
  <2>2. OnChain'
    BY <1>4, <2>1 DEF OnChain
  <2>3. PassKnows(p, saved'[w], from'[w], upto'[w], found'[w], headHash'[w], chain, rows', TRUE)
    BY <1>1, <1>2, <1>3, Forgets
  <2>. QED BY <1>1, <1>3, <1>4, <1>5, <1>7, <2>1, <2>2, <2>3, OnChainKeeps
<1>. QED BY <1>1, <1>6, <1>7 DEF IndexerInv


-----------------------------------------------------------------------------
(* The whole specification.                                                *)
LEMMA IndexerInitHolds ==
  ASSUME IndexerInit
  PROVE  IndexerInv
<1>1. IndexerTypeOK
  <2>1. chain \in History
    BY EmptySeq DEF IndexerInit, History
  <2>2. reorgs \in 0 .. MaxReorgs /\ faults \in 0 .. MaxFaults /\ total \in Nat
    BY IndexerAssumption DEF IndexerInit
  <2>3. /\ aligned \in BOOLEAN /\ rows \subseteq History \cup {Legacy} /\ disturbed \in BOOLEAN
        /\ status \in {"reserved", "live", "paused"} /\ owner \in Nat \cup {NoOwner}
        /\ cursor \in Nat \cup {Absent} /\ cursorHash \in Hashes
    BY DEF IndexerInit, Hashes
  <2>4. /\ lock \in Indexers \cup {None} /\ pc \in [Indexers -> Places]
        /\ from \in [Indexers -> Nat] /\ upto \in [Indexers -> Int]
        /\ stats \in [Indexers -> {"live", "paused"}] /\ holder \in [Indexers -> Nat]
    BY DEF IndexerInit, Places
  <2>5. /\ found \in [Indexers -> SUBSET History] /\ unchecked \in [Indexers -> SUBSET Nat]
        /\ headHash \in [Indexers -> History \cup {NoHash}]
    BY DEF IndexerInit
  <2>6. saved \in [Indexers -> [block : Nat \cup {Absent}, hash : Hashes]]
    BY DEF IndexerInit, NoRow, Hashes
  <2>. QED BY <2>1, <2>2, <2>3, <2>4, <2>5, <2>6 DEF IndexerTypeOK
<1>2. Len(chain) = 0 /\ Absent = -1
  BY DEF IndexerInit, Absent
<1>3. DatabaseShaped
  <2>1. IsFiniteSet({Legacy})
    BY FS_Singleton
  <2>2. ~aligned /\ IsFiniteSet(rows)
    BY <2>1 DEF IndexerInit
  <2>. QED BY <1>1, <2>2 DEF DatabaseShaped, IndexerTypeOK
<1>4. ASSUME NEW w \in Indexers PROVE PassShaped(w) /\ PassSound(w)
  <2>1. /\ pc[w] = "idle" /\ saved[w].block = Absent /\ from[w] = 0 /\ upto[w] = 0
        /\ found[w] = {} /\ unchecked[w] = {}
    BY DEF IndexerInit, NoRow
  <2>. QED BY <1>2, <2>1, FS_EmptySet DEF PassShaped, LocalsShaped, PassSound, PassKnows,
       InPass, WithLogs
<1>5. ~aligned /\ Unaligned
  BY DEF IndexerInit, Unaligned
<1>. QED BY <1>1, <1>3, <1>4, <1>5 DEF IndexerInv, Shape, Sound

(* Every step of a pass keeps the invariant, ...                           *)
LEMMA PassKeeps ==
  ASSUME IndexerInv, NEW w \in Indexers, Pass(w)
  PROVE  IndexerInv'
<1>1. CASE SelectDeployment(w)
  BY <1>1, SelectDeploymentKeeps
<1>2. CASE AlignDeployment(w)
  BY <1>2, AlignDeploymentKeeps
<1>3. CASE Import(w) \/ HydrateImportedRuntimeState(w)
  BY <1>3, ImportKeeps
<1>4. CASE TellCursor(w)
  BY <1>4, TellCursorKeeps
<1>5. CASE SelectState(w)
  BY <1>5, SelectStateKeeps
<1>6. CASE GetSavedBlock(w)
  BY <1>6, GetSavedBlockKeeps
<1>7. CASE AdoptHash(w)
  BY <1>7, AdoptHashKeeps
<1>8. CASE Reset(w)
  BY <1>8, ResetKeeps
<1>9. CASE ReadCursor(w)
  BY <1>9, ReadCursorKeeps
<1>10. CASE GetBlockNumber(w)
  BY <1>10, GetBlockNumberKeeps
<1>11. CASE HydrateDeedMetadata(w)
  BY <1>11, MetadataKeeps
<1>12. CASE CaughtUp(w)
  BY <1>12, CaughtUpKeeps
<1>13. CASE GetStateLogs(w)
  BY <1>13, GetStateLogsKeeps
<1>14. CASE GetRecordedLogs(w)
  BY <1>14, GetRecordedLogsKeeps
<1>15. CASE Blocks(w)
  BY <1>15, BlocksKeeps
<1>16. CASE GetHeadBlock(w)
  BY <1>16, GetHeadBlockKeeps
<1>17. CASE WritePass(w)
  BY <1>17, WriteKeeps
<1>. QED BY <1>1, <1>2, <1>3, <1>4, <1>5, <1>6, <1>7, <1>8, <1>9, <1>10, <1>11, <1>12, <1>13,
     <1>14, <1>15, <1>16, <1>17 DEF Pass

LEMMA StutterKeeps ==
  ASSUME IndexerInv, UNCHANGED indexerVars
  PROVE  IndexerInv'
<1>1. UNCHANGED <<chain, database, lock, pc, locals, disturbed, reorgs, faults>>
  BY DEF indexerVars
<1>2. UNCHANGED <<aligned, rows, status, owner, total, cursor, cursorHash, saved, stats, holder,
                  from, upto, found, unchecked, headHash>>
  BY <1>1 DEF database, locals, answers, range
<1>3. Shape => Shape'
  <2>1. IndexerTypeOK => IndexerTypeOK'
    BY <1>1, <1>2 DEF IndexerTypeOK
  <2>2. DatabaseShaped => DatabaseShaped'
    BY <1>1, <1>2 DEF DatabaseShaped
  <2>3. ASSUME NEW w \in Indexers, PassShaped(w) PROVE PassShaped(w)'
    BY <1>1, <1>2, <2>3 DEF PassShaped
  <2>. QED BY <2>1, <2>2, <2>3 DEF Shape
<1>4. Sound => Sound'
  <2>1. (OnChain <=> OnChain') /\ StateRow' = StateRow
    BY <1>1, <1>2 DEF OnChain, StateRow
  <2>2. ASSUME NEW w \in Indexers PROVE Doomed(w) => Doomed(w)'
    BY <1>1, <1>2 DEF Doomed, Refuses
  <2>3. ASSUME NEW w \in Indexers, PassSound(w) PROVE PassSound(w)'
    <3>1. PICK on : on = OnChain /\ on = OnChain'
      BY <1>1, <1>2 DEF OnChain
    <3>2. PassKnows(pc[w], saved[w], from[w], upto[w], found[w], headHash[w], chain, rows, on)
      BY <2>3, <3>1 DEF PassSound
    <3>. QED BY <1>1, <1>2, <3>1, <3>2 DEF PassSound
  <2>4. Unaligned => Unaligned'
    BY <1>1, <1>2 DEF Unaligned
  <2>5. Alone => Alone'
    BY <1>1, <1>2, <2>1, <2>2 DEF Alone
  <2>. QED BY <1>1, <1>2, <2>1, <2>2, <2>3, <2>4, <2>5 DEF Sound
<1>. QED BY <1>1, <1>3, <1>4 DEF IndexerInv

(* ... and so does every other.                                            *)
LEMMA IndexerStep ==
  ASSUME IndexerInv, [IndexerNext]_indexerVars
  PROVE  IndexerInv'
<1>1. CASE Extend
  BY <1>1, ExtendKeeps
<1>2. ASSUME NEW depth \in 1 .. Height, Reorg(depth) PROVE IndexerInv'
  BY <1>2, ReorgKeeps
<1>3. ASSUME NEW w \in Indexers, Acquire(w) PROVE IndexerInv'
  BY <1>3, AcquireKeeps
<1>4. ASSUME NEW w \in Indexers, Pass(w) PROVE IndexerInv'
  BY <1>4, PassKeeps
<1>5. ASSUME NEW w \in Indexers, Fail(w) \/ Crash(w) PROVE IndexerInv'
  BY <1>5, FailKeeps
<1>6. ASSUME NEW w \in Indexers, LoseSession(w) PROVE IndexerInv'
  BY <1>6, LoseSessionKeeps
<1>7. CASE UNCHANGED indexerVars
  BY <1>7, StutterKeeps
<1>. QED BY <1>1, <1>2, <1>3, <1>4, <1>5, <1>6, <1>7 DEF IndexerNext

LEMMA IndexerAlways == IndexerSpec => []IndexerInv
<1>1. IndexerInit => IndexerInv
  BY IndexerInitHolds
<1>2. IndexerInv /\ [IndexerNext]_indexerVars => IndexerInv'
  BY IndexerStep
<1>. QED BY <1>1, <1>2, PTL DEF IndexerSpec

(* While the block at the cursor is on the chain, the rows are its events. *)
LEMMA InvShowsOneFork ==
  ASSUME IndexerInv
  PROVE  OneForkShown
<1>1. chain \in Seq(Kinds) /\ CONFIRMATIONS \in Nat /\ Absent = -1 /\ cursor \in Nat \cup {Absent}
  BY IndexerAssumption DEF IndexerInv, Shape, IndexerTypeOK, History, Absent
<1>2. ASSUME ~disturbed, aligned, Canonical
      PROVE  /\ cursor # Absent => EventsOf(Fork(cursor)) \subseteq rows
             /\ rows \subseteq EventsOf(chain)
  <2>1. OnChain
    BY <1>2 DEF Canonical, OnChain, Named, Height, Fork, Cut
  <2>2. PICK c : c = chain
    OBVIOUS
  <2>3. PICK k \in Nat : Deepest(c, k) /\ cursor <= k /\ rows = EventsTo(c, k)
    BY <1>2, <2>1, <2>2 DEF IndexerInv, Sound, OneFork, OnChain
  <2>4. k \in 0 .. Len(c) /\ c \in Seq(Kinds) /\ Len(c) \in Int /\ k <= Len(c)
    BY <1>1, <2>2, <2>3 DEF Deepest
  <2>5. rows \subseteq EventsOf(c)
    <3>1. EventsOf(c) = EventsTo(c, Len(c))
      BY <2>4, EventsOfWhole
    <3>2. EventsTo(c, k) \subseteq EventsTo(c, Len(c))
      BY <2>4, EventsGrow
    <3>. QED BY <3>1, <3>2, <2>3
  <2>6. ASSUME cursor # Absent PROVE EventsOf(Fork(cursor)) \subseteq rows
    <3>1. PICK cur : cur = cursor
      OBVIOUS
    <3>2. cur \in Nat /\ cur <= k /\ cur \in 0 .. Len(c)
      BY <1>1, <3>1, <2>3, <2>4, <2>6
    <3>3. EventsOf(Cut(c, cur)) = EventsTo(c, cur)
      BY <3>2, <2>4, EventsOfCut
    <3>4. EventsTo(c, cur) \subseteq EventsTo(c, k)
      BY <3>2, EventsGrow
    <3>. QED BY <3>1, <3>3, <3>4, <2>2, <2>3 DEF Fork, Cut
  <2>. QED BY <2>2, <2>5, <2>6
<1>. QED BY <1>2 DEF OneForkShown, IndexerInv, Shape

(* Unless the projection was disturbed, every row the explorer shows is an  *)
(* event of the chain while the block at the cursor is on it, and none up   *)
(* to the cursor is missing, whichever passes overlap, fail or restart and  *)
(* whenever blocks are replaced: ensureCanonicalCursor and "refusing        *)
(* mixed-fork events" (chain-indexer.ts) leave no other way to mix forks    *)
(* than those "disturbed" names.                                            *)
THEOREM ExplorerShowsOneFork == IndexerSpec => []OneForkShown
<1>1. IndexerInv => OneForkShown
  BY InvShowsOneFork
<1>. QED BY <1>1, IndexerAlways, PTL

-----------------------------------------------------------------------------
(* The database as a mirror of one fork (Mirror.tla). *)

ShownOf(hash) == IF hash = NoHash THEN <<>> ELSE hash

(* What it shows is the first blocks of the chain, with their events.      *)
LEMMA ShownIs ==
  ASSUME NEW c \in Seq(Kinds), NEW cur, NEW hash, NEW r,
         CursorSound(c, cur, hash), OneFork(c, cur, hash, r), Named(c, cur, hash)
  PROVE  \E m \in 0 .. Len(c) : ShownOf(hash) = Cut(c, m) /\ EventsOf(ShownOf(hash)) \subseteq r
<1>1. CONFIRMATIONS \in Nat /\ Absent = -1
  BY IndexerAssumption DEF Absent
<1>2. PICK k \in Nat : Deepest(c, k) /\ cur <= k /\ r = EventsTo(c, k)
  BY DEF OneFork
<1>3. k \in 0 .. Len(c)
  BY <1>1, <1>2 DEF Deepest
<1>4. PICK m : m = IF hash = NoHash THEN 0 ELSE cur
  OBVIOUS
<1>5. m \in 0 .. Len(c) /\ m <= k /\ m \in Nat
  BY <1>1, <1>2, <1>3, <1>4 DEF CursorSound
<1>6. ShownOf(hash) = Cut(c, m)
  <2>1. CASE hash = NoHash
    <3>1. Cut(c, m) \in Seq(Kinds) /\ Len(Cut(c, m)) = 0
      BY <2>1, <1>4, <1>5, CutIs
    <3>. QED BY <2>1, <3>1, EmptySeq DEF ShownOf
  <2>2. CASE hash # NoHash
    BY <2>2, <1>1, <1>4, <1>5 DEF ShownOf, Named
  <2>. QED BY <2>1, <2>2
<1>7. EventsOf(Cut(c, m)) = EventsTo(c, m) /\ EventsTo(c, m) \subseteq EventsTo(c, k)
  BY <1>5, EventsOfCut, EventsGrow
<1>. QED BY <1>2, <1>5, <1>6, <1>7

(* Of two beginnings of a history, one is a beginning of the other.        *)
LEMMA CutsArePrefixes ==
  ASSUME NEW c \in Seq(Kinds), NEW m \in 0 .. Len(c), NEW n \in 0 .. Len(c)
  PROVE  IsPrefix(Cut(c, m), Cut(c, n)) \/ IsPrefix(Cut(c, n), Cut(c, m))
<1>1. ASSUME NEW j \in 0 .. Len(c), NEW k \in 0 .. Len(c), j <= k
      PROVE  IsPrefix(Cut(c, j), Cut(c, k))
  <2>1. PICK s : s = Cut(c, j)
    OBVIOUS
  <2>2. PICK t : t = Cut(c, k)
    OBVIOUS
  <2>3. Len(s) = j /\ Len(t) = k
    BY <2>1, <2>2, CutIs
  <2>4. j \in 0 .. j /\ j \in 0 .. k
    BY <1>1
  <2>5. Cut(s, j) = Cut(c, j) /\ Cut(t, j) = Cut(c, j)
    BY <2>1, <2>2, <2>4, CutCut
  <2>6. IsPrefix(s, t)
    BY <2>3, <2>5, <1>1 DEF IsPrefix, Cut
  <2>. QED BY <2>1, <2>2, <2>6
<1>2. m <= n \/ n <= m
  OBVIOUS
<1>. QED BY <1>1, <1>2

(* Writing a pass follows the fork, forwards or backwards.                 *)
LEMMA WriteFollows ==
  ASSUME Shape, Sound, NEW w \in Indexers, WritePass(w)
  PROVE  Promise!Follow
<1>1. /\ OnChain /\ rows \subseteq rows'
      /\ CursorSound(chain, cursor', cursorHash') /\ Named(chain, cursor', cursorHash')
      /\ OneFork(chain, cursor', cursorHash', rows')
  BY WrittenOnFork
<1>2. aligned
  BY WriteShapes
<1>3. PICK c : c = chain
  OBVIOUS
<1>4. c \in Seq(Kinds)
  BY <1>3 DEF Shape, IndexerTypeOK, History
<1>5. CursorSound(c, cursor, cursorHash) /\ OneFork(c, cursor, cursorHash, rows)
      /\ Named(c, cursor, cursorHash)
  BY <1>1, <1>2, <1>3 DEF Sound, OnChain
<1>6. PICK m \in 0 .. Len(c) : ShownOf(cursorHash) = Cut(c, m)
  BY <1>4, <1>5, ShownIs
<1>7. CursorSound(c, cursor', cursorHash') /\ OneFork(c, cursor', cursorHash', rows')
      /\ Named(c, cursor', cursorHash')
  BY <1>1, <1>3
<1>8. PICK n \in 0 .. Len(c) : ShownOf(cursorHash') = Cut(c, n)
                               /\ EventsOf(ShownOf(cursorHash')) \subseteq rows'
  BY <1>4, <1>7, ShownIs
<1>9. IsPrefix(ShownOf(cursorHash), ShownOf(cursorHash'))
      \/ IsPrefix(ShownOf(cursorHash'), ShownOf(cursorHash))
  BY <1>4, <1>6, <1>8, CutsArePrefixes
<1>. QED BY <1>1, <1>8, <1>9 DEF Promise!Follow, Promise!IsPrefix, IsPrefix, ShownOf

(* The hash of block 0 says nothing new: the mirror shows nothing yet.     *)
LEMMA AdoptShowsNothing ==
  ASSUME Shape, Sound, NEW w \in Indexers, AdoptHash(w), ~disturbed'
  PROVE  ShownOf(cursorHash') = ShownOf(cursorHash) /\ rows' = rows
<1>1. /\ pc[w] = "adopt" /\ rows' = rows
      /\ cursorHash' = (IF cursor = Absent THEN NoHash ELSE headHash[w])
      /\ disturbed' = (disturbed \/ cursor \notin {Absent, saved[w].block})
  BY DEF AdoptHash, At
<1>2. cursor \in {Absent, saved[w].block}
  BY <1>1, Zenon
<1>3. aligned /\ OnChain /\ PassSound(w)
  BY <1>1, WorkingOnChain DEF Resting
<1>4. saved[w].block = 0 /\ headHash[w] = <<>>
  BY <1>1, <1>3 DEF PassSound, PassKnows
<1>5. CursorSound(chain, cursor, cursorHash) /\ Absent = -1
  BY <1>3 DEF Sound, Absent
<1>6. CASE cursor = Absent
  <2>1. cursorHash = NoHash
    <3>1. ASSUME cursorHash # NoHash PROVE FALSE
      <4>1. cursorHash \in Seq(Kinds) /\ Len(cursorHash) = -1
        BY <1>5, <1>6, <3>1 DEF CursorSound
      <4>2. Len(cursorHash) \in Nat
        BY <4>1
      <4>. QED BY <4>1, <4>2
    <3>. QED BY <3>1
  <2>. QED BY <1>1, <1>6, <2>1
<1>7. CASE cursor # Absent
  <2>1. cursor = 0 /\ cursorHash' = <<>>
    BY <1>1, <1>2, <1>4, <1>7
  <2>2. cursorHash # NoHash => cursorHash = <<>>
    BY <1>5, <2>1, EmptySeq DEF CursorSound
  <2>. QED BY <1>1, <2>1, <2>2 DEF ShownOf
<1>. QED BY <1>6, <1>7

(* Nothing that was disturbed is trusted again.                            *)
LEMMA Trusting ==
  ASSUME disturbed \in BOOLEAN, disturbed' \in BOOLEAN, disturbed => disturbed',
         ~disturbed /\ ~disturbed' =>
           \/ Promise!Follow \/ Promise!Drop
           \/ ShownOf(cursorHash') = ShownOf(cursorHash) /\ rows' = rows
  PROVE  [Promise!MirrorNext]_(Promise!mirrorVars)
<1>1. CASE disturbed
  <2>1. disturbed'
    BY <1>1
  <2>. QED BY <1>1, <2>1 DEF Promise!MirrorNext
<1>2. CASE ~disturbed /\ disturbed'
  BY <1>2 DEF Promise!MirrorNext
<1>3. CASE ~disturbed /\ ~disturbed'
  <2>1. CASE Promise!Follow \/ Promise!Drop
    BY <1>3, <2>1 DEF Promise!MirrorNext
  <2>2. CASE ShownOf(cursorHash') = ShownOf(cursorHash) /\ rows' = rows
    <3>1. disturbed' = disturbed
      BY <1>3
    <3>. QED BY <2>2, <3>1 DEF Promise!mirrorVars, ShownOf
  <2>. QED BY <1>3, <2>1, <2>2
<1>. QED BY <1>1, <1>2, <1>3

(* A step of a pass follows the fork, drops what is shown or leaves it.    *)
LEMMA PassMirrors ==
  ASSUME IndexerInv, ~disturbed, NEW w \in Indexers, Pass(w), ~disturbed'
  PROVE  \/ Promise!Follow \/ Promise!Drop
         \/ ShownOf(cursorHash') = ShownOf(cursorHash) /\ rows' = rows
<1>1. Shape /\ Sound
  BY DEF IndexerInv
<1>2. CASE UNCHANGED <<rows, cursorHash>>
  BY <1>2
<1>3. CASE WritePass(w)
  BY <1>1, <1>3, WriteFollows
<1>4. CASE AdoptHash(w)
  BY <1>1, <1>4, AdoptShowsNothing
<1>5. CASE AlignDeployment(w) \/ Reset(w)
  <2>1. ResetProjection /\ DeleteCursor
    BY <1>5 DEF AlignDeployment, Reset
  <2>. QED BY <2>1 DEF Promise!Drop, ResetProjection, DeleteCursor
<1>6. CASE \/ SelectDeployment(w) \/ Import(w) \/ TellCursor(w) \/ SelectState(w) \/ GetSavedBlock(w)
           \/ HydrateImportedRuntimeState(w) \/ ReadCursor(w) \/ GetBlockNumber(w)
  BY <1>2, <1>6 DEF SelectDeployment, Import, TellCursor, SelectState, GetSavedBlock,
     HydrateImportedRuntimeState, StatsOf, UpdateStatus, ReadCursor, GetBlockNumber, database
<1>7. CASE \/ HydrateDeedMetadata(w) \/ CaughtUp(w) \/ GetStateLogs(w) \/ GetRecordedLogs(w)
           \/ Blocks(w) \/ GetHeadBlock(w)
  BY <1>2, <1>7 DEF HydrateDeedMetadata, SelectOwnerless, DeedOwnerOf, UpdateOwner, CaughtUp,
     GetStateLogs, GetRecordedLogs, Blocks, GetHeadBlock, database
<1>. QED BY <1>3, <1>4, <1>5, <1>6, <1>7 DEF Pass

LEMMA PassDisturbs ==
  ASSUME NEW w \in Indexers, Pass(w), disturbed
  PROVE  disturbed'
<1>1. CASE AdoptHash(w)
  BY <1>1 DEF AdoptHash
<1>2. CASE \/ SelectDeployment(w) \/ AlignDeployment(w) \/ Import(w) \/ TellCursor(w)
           \/ SelectState(w) \/ GetSavedBlock(w) \/ Reset(w) \/ HydrateImportedRuntimeState(w)
           \/ ReadCursor(w) \/ GetBlockNumber(w)
  BY <1>2 DEF SelectDeployment, AlignDeployment, Import, TellCursor, SelectState, GetSavedBlock,
     Reset, HydrateImportedRuntimeState, StatsOf, UpdateStatus, ReadCursor, GetBlockNumber
<1>3. CASE \/ HydrateDeedMetadata(w) \/ CaughtUp(w) \/ GetStateLogs(w) \/ GetRecordedLogs(w)
           \/ Blocks(w) \/ GetHeadBlock(w) \/ WritePass(w)
  BY <1>3 DEF HydrateDeedMetadata, SelectOwnerless, DeedOwnerOf, UpdateOwner, CaughtUp,
     GetStateLogs, GetRecordedLogs, Blocks, GetHeadBlock, WritePass
<1>. QED BY <1>1, <1>2, <1>3 DEF Pass

LEMMA StepMirrors ==
  ASSUME IndexerInv, [IndexerNext]_indexerVars
  PROVE  [Promise!MirrorNext]_(Promise!mirrorVars)
<1>1. disturbed \in BOOLEAN /\ disturbed' \in BOOLEAN
  BY IndexerStep DEF IndexerInv, Shape, IndexerTypeOK
<1>2. CASE \E w \in Indexers : Pass(w)
  <2>1. PICK w \in Indexers : Pass(w)
    BY <1>2
  <2>2. disturbed => disturbed'
    BY <2>1, PassDisturbs
  <2>3. ~disturbed /\ ~disturbed' =>
          \/ Promise!Follow \/ Promise!Drop
          \/ ShownOf(cursorHash') = ShownOf(cursorHash) /\ rows' = rows
    BY <2>1, PassMirrors
  <2>. QED BY <1>1, <2>2, <2>3, Trusting
<1>3. CASE UNCHANGED <<rows, cursorHash>> /\ (disturbed => disturbed')
  BY <1>1, <1>3, Trusting
<1>4. CASE Extend \/ \E depth \in 1 .. Height : Reorg(depth)
  BY <1>3, <1>4 DEF Extend, Reorg, database
<1>5. CASE \E w \in Indexers : Acquire(w) \/ Fail(w) \/ Crash(w) \/ LoseSession(w)
  <2>1. PICK w \in Indexers : Acquire(w) \/ Fail(w) \/ Crash(w) \/ LoseSession(w)
    BY <1>5
  <2>2. UNCHANGED database
    BY <2>1 DEF Acquire, Fail, Crash, LoseSession
  <2>3. disturbed => disturbed'
    <3>1. ASSUME LoseSession(w), disturbed PROVE disturbed'
      BY <3>1 DEF LoseSession
    <3>. QED BY <2>1, <3>1 DEF Acquire, Fail, Crash
  <2>. QED BY <1>3, <2>2, <2>3 DEF database
<1>6. CASE UNCHANGED indexerVars
  BY <1>3, <1>6 DEF indexerVars, database
<1>. QED BY <1>2, <1>4, <1>5, <1>6 DEF IndexerNext

LEMMA InitMirrors ==
  ASSUME IndexerInit
  PROVE  Promise!MirrorInit
<1>1. ASSUME NEW b \in EventsOf(Legacy) PROVE FALSE
  BY DEF EventsOf, Positions, Legacy, Recorded
<1>2. Legacy # NoHash
  BY DEF Legacy, NoHash
<1>. QED BY <1>1, <1>2 DEF IndexerInit, Promise!MirrorInit

(* The two indexers implement the mirror: what the database shows moves     *)
(* along one fork, or is dropped with every row before another is shown     *)
(* (resetProjection and the transaction of a pass, chain-indexer.ts, db.ts),*)
(* until it is disturbed in one of the ways OneForkShown names.             *)
THEOREM ExplorerMirrorsOneFork == IndexerSpec => MirrorsOneFork
<1>1. IndexerInit => Promise!MirrorInit
  BY InitMirrors
<1>2. IndexerInv /\ [IndexerNext]_indexerVars => [Promise!MirrorNext]_(Promise!mirrorVars)
  BY StepMirrors
<1>3. MirrorsOneFork <=> Promise!MirrorInit /\ [][Promise!MirrorNext]_(Promise!mirrorVars)
  BY DEF MirrorsOneFork, Promise!MirrorSpec
<1>. QED BY <1>1, <1>2, <1>3, IndexerAlways, PTL DEF IndexerSpec

-----------------------------------------------------------------------------
(* The pages: calls, settlements and shares. *)

KindTo(c, n, kind) == {Cut(c, i) : i \in {j \in 1 .. n : c[j] = kind}}

(* The calls since the last settlement.                                    *)
Waiting(c, n) ==
  {i \in 1 .. n : c[i] = "call" /\ \A j \in 1 .. n : c[j] = "settled" => j < i}

(* The holder's share of a sum is no more than the sum of the shares.      *)
LEMMA ShareIs ==
  /\ Share(0) = 0
  /\ \A a \in Nat : Share(a) \in Nat
  /\ \A a, b \in Nat : Share(a + b) <= Share(a) + Share(b)
<1>1. \A a \in Nat : (a * 200) \div 10000 \in Nat /\ (a * 200) \div 10000 <= a
  OBVIOUS
<1>2. \A a, b \in Nat :
        ((a + b) * 200) \div 10000 >= (a * 200) \div 10000 + (b * 200) \div 10000
  OBVIOUS
<1>3. Share(0) = 0
  BY DEF Share
<1>4. \A a \in Nat : Share(a) \in Nat
  BY <1>1 DEF Share
<1>5. \A a, b \in Nat : Share(a + b) <= Share(a) + Share(b)
  BY <1>1, <1>2 DEF Share
<1>. QED BY <1>3, <1>4, <1>5

(* The latest of a set of blocks is one of them, and no other is later.    *)
LEMMA LatestIs ==
  ASSUME NEW n \in Nat, NEW S \in SUBSET (1 .. n), S # {}
  PROVE  Latest(S, 0) \in S /\ \A j \in S : j <= Latest(S, 0)
<1>1. PICK T : T = {n - i : i \in S}
  OBVIOUS
<1>2. T \in SUBSET Nat /\ T # {}
  <2>1. \A i \in S : i \in 1 .. n /\ n - i \in Nat
    OBVIOUS
  <2>. QED BY <1>1, <2>1
<1>3. PICK t \in T : \A k \in T : t <= k
  BY <1>2, NatMin
<1>4. PICK i \in S : t = n - i
  BY <1>1, <1>3
<1>5. ASSUME NEW j \in S PROVE j <= i
  <2>1. n - j \in T
    BY <1>1
  <2>2. t <= n - j
    BY <1>3, <2>1
  <2>. QED BY <1>4, <2>2
<1>. QED BY <1>5 DEF Latest

(* What a settlement pays out is the toll of the calls that waited for it. *)
LEMMA PendingIs ==
  ASSUME NEW c \in Seq(Kinds), NEW n \in 0 .. Len(c)
  PROVE  PendingAt(Cut(c, n)) = Toll * Cardinality(Waiting(c, n))
<1>1. PICK d : d = Cut(c, n)
  OBVIOUS
<1>2. d \in Seq(Kinds) /\ Len(d) = n /\ \A i \in 1 .. n : d[i] = c[i]
  BY <1>1, CutIs
<1>3. DOMAIN d = 1 .. n /\ n \in Nat
  BY <1>2
<1>4. PICK S : S = Positions(d, {"settled"})
  OBVIOUS
<1>5. S \in SUBSET (1 .. n) /\ \A j \in 1 .. n : j \in S <=> c[j] = "settled"
  BY <1>2, <1>3, <1>4 DEF Positions
<1>6. PICK last : last = Latest(S, 0)
  OBVIOUS
<1>7. \A i \in 1 .. n : i > last <=> \A j \in 1 .. n : c[j] = "settled" => j < i
  <2>1. CASE S = {}
    BY <2>1, <1>5, <1>6 DEF Latest
  <2>2. CASE S # {}
    <3>1. last \in S /\ \A j \in S : j <= last
      BY <2>2, <1>3, <1>5, <1>6, LatestIs
    <3>. QED BY <3>1, <1>3, <1>5
  <2>. QED BY <2>1, <2>2
<1>8. \A i : i \in Positions(d, {"call"}) <=> i \in 1 .. n /\ c[i] = "call"
  BY <1>2, <1>3 DEF Positions
<1>9. {i \in Positions(d, {"call"}) : i > last} = Waiting(c, n)
  BY <1>7, <1>8 DEF Waiting
<1>. QED BY <1>1, <1>4, <1>6, <1>9 DEF PendingAt

(* One more block.                                                         *)
LEMMA KindStep ==
  ASSUME NEW c \in Seq(Kinds), NEW n \in 1 .. Len(c), NEW kind
  PROVE  /\ IsFiniteSet(KindTo(c, n - 1, kind)) /\ IsFiniteSet(KindTo(c, n, kind))
         /\ c[n] = kind => /\ KindTo(c, n, kind) = KindTo(c, n - 1, kind) \cup {Cut(c, n)}
                           /\ Cut(c, n) \notin KindTo(c, n - 1, kind)
         /\ c[n] # kind => KindTo(c, n, kind) = KindTo(c, n - 1, kind)
<1>1. ASSUME NEW m \in Nat PROVE IsFiniteSet(KindTo(c, m, kind))
  <2>1. IsFiniteSet(1 .. m)
    BY FS_Interval
  <2>2. IsFiniteSet({j \in 1 .. m : c[j] = kind})
    BY <2>1, FS_Subset
  <2>3. PICK T : T = {j \in 1 .. m : c[j] = kind}
    OBVIOUS
  <2>4. PICK g : g = [i \in T |-> Cut(c, i)]
    OBVIOUS
  <2>5. IsFiniteSet({g[i] : i \in T})
    BY <2>2, <2>3, <2>4, ImageFinite
  <2>6. {g[i] : i \in T} = KindTo(c, m, kind)
    BY <2>3, <2>4 DEF KindTo
  <2>. QED BY <2>5, <2>6
<1>2. n \in Nat /\ n - 1 \in Nat /\ n \in 0 .. Len(c)
  OBVIOUS
<1>3. ASSUME Cut(c, n) \in KindTo(c, n - 1, kind) PROVE FALSE
  <2>1. PICK i \in 1 .. n - 1 : Cut(c, n) = Cut(c, i)
    BY <1>3 DEF KindTo
  <2>2. i \in 0 .. Len(c)
    BY <2>1
  <2>3. Len(Cut(c, n)) = n /\ Len(Cut(c, i)) = i
    BY <1>2, <2>2, CutIs
  <2>. QED BY <2>1, <2>3
<1>4. 1 .. n = (1 .. n - 1) \cup {n}
  OBVIOUS
<1>5. c[n] = kind => KindTo(c, n, kind) = KindTo(c, n - 1, kind) \cup {Cut(c, n)}
  BY <1>4 DEF KindTo
<1>6. c[n] # kind => KindTo(c, n, kind) = KindTo(c, n - 1, kind)
  BY <1>4 DEF KindTo
<1>. QED BY <1>1, <1>2, <1>3, <1>5, <1>6

LEMMA WaitingStep ==
  ASSUME NEW c \in Seq(Kinds), NEW n \in 1 .. Len(c)
  PROVE  /\ IsFiniteSet(Waiting(c, n - 1)) /\ IsFiniteSet(Waiting(c, n))
         /\ c[n] = "call" => /\ Waiting(c, n) = Waiting(c, n - 1) \cup {n}
                             /\ n \notin Waiting(c, n - 1)
         /\ c[n] = "settled" => Waiting(c, n) = {}
         /\ c[n] \notin {"call", "settled"} => Waiting(c, n) = Waiting(c, n - 1)
<1>1. ASSUME NEW m \in Nat PROVE IsFiniteSet(Waiting(c, m))
  <2>1. IsFiniteSet(1 .. m) /\ Waiting(c, m) \subseteq 1 .. m
    BY FS_Interval DEF Waiting
  <2>. QED BY <2>1, FS_Subset
<1>2. n \in Nat /\ n - 1 \in Nat
  OBVIOUS
<1>3. \A i : i \in 1 .. n <=> i \in 1 .. n - 1 \/ i = n
  OBVIOUS
<1>4. \A i \in 1 .. n - 1 : i < n
  OBVIOUS
<1>5. c[n] = "call" => /\ Waiting(c, n) = Waiting(c, n - 1) \cup {n}
                       /\ n \notin Waiting(c, n - 1)
  BY <1>2, <1>3, <1>4 DEF Waiting
<1>6. c[n] = "settled" => Waiting(c, n) = {}
  BY <1>2, <1>3, <1>4 DEF Waiting
<1>7. c[n] \notin {"call", "settled"} => Waiting(c, n) = Waiting(c, n - 1)
  BY <1>2, <1>3, <1>4 DEF Waiting
<1>. QED BY <1>1, <1>2, <1>5, <1>6, <1>7

(* The profile's share of the settlements up to block n, and the card's of  *)
(* the calls up to it.                                                      *)
LEMMA SharesBounded ==
  ASSUME NEW c \in Seq(Kinds), NEW top \in 0 .. Len(c),
         NEW S, S = KindTo(c, top, "settled"),
         NEW f, f = [b \in S |-> Share(PendingAt(Front(b)))]
  PROVE  SumFunctionOnSet(f, S) <= Share(Toll) * Cardinality(KindTo(c, top, "call"))
<1> DEFINE Sum(n) == SumFunctionOnSet(f, KindTo(c, n, "settled"))
           Calls(n) == Cardinality(KindTo(c, n, "call"))
           Waits(n) == Cardinality(Waiting(c, n))
           Good(n) == /\ Sum(n) \in Nat /\ Calls(n) \in Nat /\ Waits(n) \in Nat
                      /\ Sum(n) + Share(Toll * Waits(n)) <= Share(Toll) * Calls(n)
<1>1. Toll \in Nat /\ Share(Toll) \in Nat /\ \A k \in Nat : Toll * k \in Nat /\ Share(Toll * k) \in Nat
  <2>1. Toll \in Nat
    BY IndexerAssumption
  <2>2. \A k \in Nat : Toll * k \in Nat
    BY <2>1
  <2>. QED BY <2>1, <2>2, ShareIs
<1>2. Good(0)
  <2>1. KindTo(c, 0, "settled") = {} /\ KindTo(c, 0, "call") = {} /\ Waiting(c, 0) = {}
    BY DEF KindTo, Waiting
  <2>2. Sum(0) = 0 /\ Calls(0) = 0 /\ Waits(0) = 0
    BY <2>1, SumEmpty, FS_EmptySet
  <2>3. Share(Toll * 0) = 0 /\ Share(Toll) * 0 = 0
    BY <1>1, ShareIs
  <2>. QED BY <2>2, <2>3
<1>3. ASSUME NEW n \in 1 .. top, Good(n - 1) PROVE Good(n)
  <2>1. n \in 1 .. Len(c) /\ n - 1 \in Nat /\ n - 1 \in 0 .. Len(c) /\ n \in 0 .. Len(c)
    OBVIOUS
  <2>2. PICK a \in Nat : a = Sum(n - 1)
    BY <1>3
  <2>3. PICK k \in Nat : k = Calls(n - 1)
    BY <1>3
  <2>4. PICK m \in Nat : m = Waits(n - 1)
    BY <1>3
  <2>5. a + Share(Toll * m) <= Share(Toll) * k
    BY <1>3, <2>2, <2>3, <2>4
  <2>6. CASE c[n] = "call"
    <3>1. KindTo(c, n, "settled") = KindTo(c, n - 1, "settled")
      BY <2>1, <2>6, KindStep
    <3>2. Calls(n) = k + 1
      <4>1. /\ IsFiniteSet(KindTo(c, n - 1, "call")) /\ Cut(c, n) \notin KindTo(c, n - 1, "call")
            /\ KindTo(c, n, "call") = KindTo(c, n - 1, "call") \cup {Cut(c, n)}
        BY <2>1, <2>6, KindStep
      <4>. QED BY <4>1, <2>3, FS_AddElement
    <3>3. Waits(n) = m + 1
      <4>1. /\ IsFiniteSet(Waiting(c, n - 1)) /\ n \notin Waiting(c, n - 1)
            /\ Waiting(c, n) = Waiting(c, n - 1) \cup {n}
        BY <2>1, <2>6, WaitingStep
      <4>. QED BY <4>1, <2>4, FS_AddElement
    <3>4. Sum(n) = a
      BY <3>1, <2>2
    <3>5. Share(Toll * (m + 1)) <= Share(Toll * m) + Share(Toll)
      <4>1. Toll * (m + 1) = Toll * m + Toll
        BY <1>1
      <4>. QED BY <4>1, <1>1, ShareIs
    <3>6. Share(Toll) * (k + 1) = Share(Toll) * k + Share(Toll)
      BY <1>1
    <3>7. a + Share(Toll * (m + 1)) <= Share(Toll) * (k + 1)
      <4>0. m + 1 \in Nat
        OBVIOUS
      <4>1. PICK x \in Nat : x = Share(Toll * m)
        BY <1>1
      <4>2. PICK y \in Nat : y = Share(Toll * (m + 1))
        BY <1>1, <4>0
      <4>3. PICK z \in Int : z = Share(Toll) * k
        BY <1>1
      <4>4. PICK t \in Nat : t = Share(Toll)
        BY <1>1
      <4>5. a + x <= z /\ y <= x + t /\ Share(Toll) * (k + 1) = z + t
        BY <4>1, <4>2, <4>3, <4>4, <2>5, <3>5, <3>6
      <4>6. a + y <= z + t
        BY <4>5
      <4>. QED BY <4>2, <4>5, <4>6
    <3>. QED BY <3>2, <3>3, <3>4, <3>7
  <2>7. CASE c[n] = "settled"
    <3>1. KindTo(c, n, "call") = KindTo(c, n - 1, "call") /\ Waiting(c, n) = {}
      BY <2>1, <2>7, KindStep, WaitingStep
    <3>2. Calls(n) = k /\ Waits(n) = 0
      BY <3>1, <2>3, FS_EmptySet
    <3>3. PICK T : T = KindTo(c, n, "settled")
      OBVIOUS
    <3>4. PICK x : x = Cut(c, n)
      OBVIOUS
    <3>5. IsFiniteSet(T) /\ T \ {x} = KindTo(c, n - 1, "settled") /\ x \in T
      <4>1. /\ IsFiniteSet(KindTo(c, n, "settled")) /\ Cut(c, n) \notin KindTo(c, n - 1, "settled")
            /\ KindTo(c, n, "settled") = KindTo(c, n - 1, "settled") \cup {Cut(c, n)}
        BY <2>1, <2>7, KindStep
      <4>. QED BY <4>1, <3>3, <3>4
    <3>6. T \subseteq S
      BY <3>3 DEF KindTo
    <3>7. \A b \in T : f[b] \in Nat
      <4>1. ASSUME NEW i \in 1 .. n, c[i] = "settled" PROVE f[Cut(c, i)] \in Nat
        <5>1. i \in 1 .. Len(c) /\ i - 1 \in 0 .. Len(c) /\ i \in 0 .. Len(c) /\ i - 1 \in 0 .. i
          OBVIOUS
        <5>2. Cut(c, i) \in S
          BY <4>1 DEF KindTo
        <5>3. Len(Cut(c, i)) = i /\ Cut(Cut(c, i), i - 1) = Cut(c, i - 1)
          BY <5>1, CutIs, CutCut
        <5>4. Front(Cut(c, i)) = Cut(c, i - 1)
          BY <5>3 DEF Front, Cut
        <5>5. PendingAt(Cut(c, i - 1)) = Toll * Cardinality(Waiting(c, i - 1))
          BY <5>1, PendingIs
        <5>6. Cardinality(Waiting(c, i - 1)) \in Nat
          BY <5>1, WaitingStep, FS_CardinalityType
        <5>. QED BY <5>2, <5>4, <5>5, <5>6, <1>1
      <4>. QED BY <4>1, <3>3 DEF KindTo
    <3>8. f[x] = Share(Toll * m)
      <4>1. Len(Cut(c, n)) = n /\ n - 1 \in 0 .. n
        BY <2>1, CutIs
      <4>2. Cut(Cut(c, n), n - 1) = Cut(c, n - 1)
        BY <2>1, <4>1, CutCut
      <4>3. Front(x) = Cut(c, n - 1)
        BY <3>4, <4>1, <4>2 DEF Front, Cut
      <4>4. PendingAt(Cut(c, n - 1)) = Toll * m
        BY <2>1, <2>4, PendingIs
      <4>5. x \in S
        BY <3>5, <3>6
      <4>. QED BY <4>3, <4>4, <4>5
    <3>9. SumFunctionOnSet(f, T) = f[x] + SumFunctionOnSet(f, T \ {x})
      <4>1. \A b \in T : f[b] \in Int
        BY <3>7
      <4>. QED BY ONLY <4>1, <3>5, SumRemove
    <3>10. Sum(n) = Share(Toll * m) + a
      BY <3>3, <3>5, <3>8, <3>9, <2>2
    <3>11. Share(Toll * 0) = 0
      BY <1>1, ShareIs
    <3>12. PICK y \in Nat : y = Share(Toll * m)
      BY <1>1
    <3>13. PICK z \in Int : z = Share(Toll) * k
      BY <1>1
    <3>14. Sum(n) \in Nat /\ Sum(n) + 0 <= z
      BY <2>5, <3>10, <3>12, <3>13
    <3>. QED BY <3>2, <3>11, <3>13, <3>14
  <2>8. CASE c[n] \notin {"call", "settled"}
    <3>1. /\ KindTo(c, n, "settled") = KindTo(c, n - 1, "settled")
          /\ KindTo(c, n, "call") = KindTo(c, n - 1, "call")
          /\ Waiting(c, n) = Waiting(c, n - 1)
      BY <2>1, <2>8, KindStep, WaitingStep
    <3>. QED BY <3>1, <1>3
  <2>. QED BY <2>6, <2>7, <2>8
<1> HIDE DEF Good
<1>4. \A n \in 0 .. top : Good(n)
  <2>1. SUFFICES ASSUME NEW bad \in 0 .. top, ~Good(bad) PROVE FALSE
    OBVIOUS
  <2>2. PICK T : T = {n \in 0 .. top : ~Good(n)}
    OBVIOUS
  <2>3. T \in SUBSET Nat /\ T # {}
    BY <2>1, <2>2
  <2>4. PICK n \in T : \A k \in T : n <= k
    BY <2>3, NatMin
  <2>5. n \in 1 .. top /\ n - 1 \in 0 .. top /\ ~(n <= n - 1)
    BY <1>2, <2>2, <2>3, <2>4
  <2>6. Good(n - 1)
    BY <2>2, <2>4, <2>5
  <2>. QED BY <1>3, <2>2, <2>4, <2>5, <2>6
<1>5. Good(top)
  BY <1>4
<1>6. SumFunctionOnSet(f, S) = Sum(top)
  OBVIOUS
<1>7. PICK y \in Nat : y = Share(Toll * Waits(top))
  BY <1>1, <1>5 DEF Good
<1>8. PICK z \in Int : z = Share(Toll) * Calls(top)
  BY <1>1, <1>5 DEF Good
<1>9. PICK a \in Nat : a = Sum(top)
  BY <1>5 DEF Good
<1>10. a + y <= z
  BY <1>5, <1>7, <1>8, <1>9 DEF Good
<1>. QED BY <1>6, <1>7, <1>8, <1>9, <1>10

(* A page that lists fewer calls than it may lists them all: the first it   *)
(* left out would have only those above it that it lists.                   *)
LEMMA ShortListIsWhole ==
  ASSUME NEW S, IsFiniteSet(S), \A b \in S : Len(b) \in Nat,
         NEW limit \in Nat \ {0}, Cardinality(Newest(S, limit)) < limit
  PROVE  Newest(S, limit) = S
<1> DEFINE Longer(b) == {e \in S : Len(e) > Len(b)}
<1>1. ASSUME NEW b \in S PROVE IsFiniteSet(Longer(b)) /\ Cardinality(Longer(b)) \in Nat
  <2>1. Longer(b) \subseteq S
    OBVIOUS
  <2>. QED BY <2>1, FS_Subset, FS_CardinalityType
<1>2. SUFFICES ASSUME S \ Newest(S, limit) # {} PROVE FALSE
  BY DEF Newest
<1>3. PICK missed : missed = S \ Newest(S, limit)
  OBVIOUS
<1>4. PICK T : T = {Cardinality(Longer(b)) : b \in missed}
  OBVIOUS
<1>5. T \in SUBSET Nat /\ T # {}
  BY <1>1, <1>2, <1>3, <1>4
<1>6. PICK t \in T : \A k \in T : t <= k
  BY <1>5, NatMin
<1>7. PICK b \in missed : t = Cardinality(Longer(b))
  BY <1>4, <1>6
<1>8. b \in S /\ b \notin Newest(S, limit)
  BY <1>3
<1>9. ASSUME NEW e \in Longer(b) PROVE e \in Newest(S, limit)
  <2>1. SUFFICES ASSUME e \in missed PROVE FALSE
    BY <1>3
  <2>2. e \in S /\ Len(e) \in Nat /\ Len(b) \in Nat /\ Len(e) > Len(b)
    BY <1>8
  <2>3. ASSUME NEW a \in Longer(e) PROVE a \in Longer(b)
    <3>1. a \in S /\ Len(a) \in Nat /\ Len(a) > Len(e)
      BY <2>3
    <3>. QED BY <2>2, <3>1
  <2>4. e \notin Longer(e)
    BY <2>2
  <2>5. Longer(e) \subseteq Longer(b) /\ Longer(e) # Longer(b)
    BY <2>3, <2>4, <1>9
  <2>6. PICK x : x = Longer(e)
    OBVIOUS
  <2>7. PICK y : y = Longer(b)
    OBVIOUS
  <2>8. x \subseteq y /\ x # y /\ IsFiniteSet(y)
    BY <1>1, <1>8, <2>5, <2>6, <2>7
  <2>9. Cardinality(x) <= Cardinality(y) /\ Cardinality(x) # Cardinality(y)
    BY <2>8, FS_Subset
  <2>10. Cardinality(x) \in Nat /\ Cardinality(y) \in Nat /\ Cardinality(y) = t
    BY <1>1, <1>7, <1>8, <2>2, <2>6, <2>7
  <2>11. t <= Cardinality(x)
    BY <1>4, <1>6, <2>1, <2>6
  <2>. QED BY <2>9, <2>10, <2>11
<1>10. IsFiniteSet(Newest(S, limit)) /\ Longer(b) \subseteq Newest(S, limit)
  <2>1. Newest(S, limit) \subseteq S
    BY DEF Newest
  <2>. QED BY <1>9, <2>1, FS_Subset
<1>11. PICK x \in Nat : x = Cardinality(Longer(b))
  BY <1>1, <1>8
<1>12. PICK y \in Nat : y = Cardinality(Newest(S, limit))
  BY <1>10, FS_CardinalityType
<1>13. x <= y
  BY <1>10, <1>11, <1>12, FS_Subset
<1>14. Cardinality(Longer(b)) < limit
  BY <1>11, <1>12, <1>13
<1>. QED BY <1>8, <1>14 DEF Newest

(* The invariant gives both halves of TotalsCountCalls.                    *)
LEMMA InvTotalsCount ==
  ASSUME IndexerInv
  PROVE  TotalsCountCalls
<1>1. ASSUME aligned, RowsOf("call") # {}
      PROVE  /\ AllChains.txCount = Baseline + Cardinality(RowsOf("call"))
             /\ Cardinality(ChainDetail.calls) < DETAIL_LIMIT =>
                  AllChains.txCount = Baseline + Cardinality(ChainDetail.calls)
  <2>1. TotalCounted(rows, total) /\ AllChains.txCount = total
    BY <1>1 DEF IndexerInv, Shape, DatabaseShaped, AllChains
  <2>2. AllChains.txCount = Baseline + Cardinality(RowsOf("call"))
    BY <1>1, <2>1 DEF TotalCounted, RowsOf
  <2>3. ASSUME Cardinality(ChainDetail.calls) < DETAIL_LIMIT
        PROVE  ChainDetail.calls = RowsOf("call")
    <3>1. PICK S : S = RowsOf("call")
      OBVIOUS
    <3>2. S \subseteq rows /\ IsFiniteSet(S)
      <4>1. S \subseteq rows /\ IsFiniteSet(rows)
        BY <3>1 DEF RowsOf, IndexerInv, Shape, DatabaseShaped
      <4>. QED BY <4>1, FS_Subset
    <3>3. ChainDetail.calls = Newest(S, DETAIL_LIMIT) /\ DETAIL_LIMIT \in Nat \ {0}
      BY <3>1, IndexerAssumption DEF ChainDetail
    <3>4. \A b \in S : Len(b) \in Nat
      <4>1. ASSUME NEW b \in S PROVE Len(b) \in Nat
        <5>1. b \in Seq(Kinds) \cup {Legacy}
          BY <3>2 DEF IndexerInv, Shape, DatabaseShaped, History
        <5>2. Len(Legacy) = 1
          BY DEF Legacy
        <5>. QED BY <5>1, <5>2
      <4>. QED BY <4>1
    <3>6. Cardinality(Newest(S, DETAIL_LIMIT)) < DETAIL_LIMIT
      BY <2>3, <3>3
    <3>7. Newest(S, DETAIL_LIMIT) = S
      BY ONLY <3>2, <3>3, <3>4, <3>6, ShortListIsWhole
    <3>. QED BY <3>1, <3>3, <3>7
  <2>. QED BY <2>2, <2>3
<1>2. PICK S : S = RowsOf("settled")
  OBVIOUS
<1>3. PICK f : f = [b \in S |-> Share(PendingAt(Front(b)))]
  OBVIOUS
<1>4. PICK calls : calls = RowsOf("call")
  OBVIOUS
<1>5. ProfilePage.revenue = SumFunctionOnSet(f, S) /\ AllChains.revenue = Share(Toll) * Cardinality(calls)
  BY <1>2, <1>3, <1>4 DEF ProfilePage, AllChains
<1>6. ASSUME Sound, ~aligned PROVE ProfilePage.revenue <= AllChains.revenue
  <2>1. S = {} /\ calls = {}
    BY <1>2, <1>4, <1>6 DEF Sound, Unaligned, RowsOf
  <2>2. SumFunctionOnSet(f, S) = 0 /\ Cardinality(calls) = 0
    BY <2>1, SumEmpty, FS_EmptySet
  <2>3. Share(Toll) \in Nat
    BY IndexerAssumption, ShareIs
  <2>. QED BY <1>5, <2>2, <2>3
<1>7. ASSUME Sound, aligned PROVE ProfilePage.revenue <= AllChains.revenue
  <2>1. PICK h \in Seq(Kinds) : \E n \in 0 .. Len(h) : rows = EventsTo(h, n)
    <3>1. /\ CursorSound(chain, cursor, cursorHash) /\ OneFork(chain, cursor, cursorHash, rows)
          /\ chain \in Seq(Kinds) /\ CONFIRMATIONS \in Nat /\ Absent = -1
      BY <1>7, IndexerAssumption DEF IndexerInv, Shape, Sound, IndexerTypeOK, History, Absent
    <3>2. CASE OnChain
      <4>1. PICK k \in Nat : Deepest(chain, k) /\ rows = EventsTo(chain, k)
        BY <3>1, <3>2 DEF OneFork, OnChain
      <4>2. k \in 0 .. Len(chain)
        BY <3>1, <4>1 DEF Deepest
      <4>. QED BY <3>1, <4>1, <4>2
    <3>3. CASE ~OnChain
      <4>1. rows = EventsTo(cursorHash, cursor) /\ cursor # Absent
        BY <3>1, <3>3 DEF OneFork, OnChain, Named
      <4>2. cursorHash # NoHash
        <5>1. ASSUME cursorHash = NoHash PROVE FALSE
          <6>1. cursor = 0
            BY <3>1, <4>1, <5>1 DEF CursorSound
          <6>2. Named(chain, cursor, cursorHash)
            BY <3>1, <5>1, <6>1 DEF Named
          <6>. QED BY <3>3, <6>2 DEF OnChain
        <5>. QED BY <5>1
      <4>3. cursorHash \in Seq(Kinds) /\ cursor = Len(cursorHash)
        BY <3>1, <4>2 DEF CursorSound
      <4>. QED BY <4>1, <4>3
    <3>. QED BY <3>2, <3>3
  <2>2. PICK n \in 0 .. Len(h) : rows = EventsTo(h, n)
    BY <2>1
  <2>3. ASSUME NEW kind \in Recorded PROVE RowsOf(kind) = KindTo(h, n, kind)
    <3>1. /\ Legacy \notin EventsTo(h, n)
          /\ \A b \in EventsTo(h, n) : /\ Len(b) \in 1 .. n /\ b = Cut(h, Len(b))
                                       /\ Event(b) = h[Len(b)]
      BY EventsAre
    <3>2. ASSUME NEW b \in RowsOf(kind) PROVE b \in KindTo(h, n, kind)
      <4>1. b \in EventsTo(h, n) /\ Event(b) = kind
        BY <3>2, <2>2 DEF RowsOf
      <4>2. Len(b) \in 1 .. n /\ b = Cut(h, Len(b)) /\ h[Len(b)] = kind
        BY <3>1, <4>1
      <4>. QED BY <4>2 DEF KindTo
    <3>3. ASSUME NEW b \in KindTo(h, n, kind) PROVE b \in RowsOf(kind)
      <4>1. PICK i \in 1 .. n : h[i] = kind /\ b = Cut(h, i)
        BY <3>3 DEF KindTo
      <4>2. b \in EventsTo(h, n)
        BY <4>1 DEF EventsTo
      <4>3. i \in 0 .. Len(h)
        BY <4>1
      <4>4. Len(b) = i
        BY <4>1, <4>3, CutIs
      <4>. QED BY <3>1, <4>1, <4>2, <4>4, <2>2 DEF RowsOf
    <3>. QED BY <3>2, <3>3
  <2>4. S = KindTo(h, n, "settled") /\ calls = KindTo(h, n, "call")
    BY <1>2, <1>4, <2>3 DEF Recorded
  <2>5. SumFunctionOnSet(f, S) <= Share(Toll) * Cardinality(KindTo(h, n, "call"))
    BY ONLY <1>3, <2>4, SharesBounded, h \in Seq(Kinds), n \in 0 .. Len(h)
  <2>. QED BY <1>5, <2>4, <2>5
<1>8. ~disturbed => ProfilePage.revenue <= AllChains.revenue
  BY <1>6, <1>7 DEF IndexerInv
<1>. QED BY <1>1, <1>8 DEF TotalsCountCalls

(* The number of calls shown is the imported one and that of the rows,      *)
(* whatever is reorganised and however often a pass is replayed             *)
(* (refreshSummary, db.ts); it is that of the calls a page lists, unless    *)
(* the LIMIT of chainDetail cuts the list (chains.ts); and on one fork the  *)
(* profile's revenue, counted per settlement, never exceeds the card's,     *)
(* counted per call.                                                        *)
THEOREM ExplorerCountsCalls == IndexerSpec => []TotalsCountCalls
<1>1. IndexerInv => TotalsCountCalls
  BY InvTotalsCount
<1>. QED BY <1>1, IndexerAlways, PTL
=============================================================================
