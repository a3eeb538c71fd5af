---------------------------- MODULE RelayProofs -----------------------------
(***************************************************************************)
(* What the outbox promises, for any number of workers, users, requests    *)
(* and faults: the network never holds a transaction the database does     *)
(* not, and one nonce of the relayer is never signed for twice.            *)
(*                                                                         *)
(* Neither promise is inductive.  A worker broadcasts what it has in hand, *)
(* possibly long after its session and its lock are gone; what makes this  *)
(* harmless is that everything in the hand of a worker about to broadcast  *)
(* is a row of the journal (InHand), that rows are never removed, and that *)
(* the unique index keeps one row per nonce (OneRowPerNonce) even when two *)
(* workers believe they hold the lock.  The lock is not needed at all.     *)
(***************************************************************************)
EXTENDS Relay, Sums, SequenceTheorems

(* No two rows of relayer_transactions have one nonce. *)
OneRowPerNonce == \A s, t \in Journaled : s.nonce = t.nonce => s = t

(* What an invocation works with, by where it is. *)
InHand ==
  \A w \in Workers :
    /\ pc[w] # "idle" => req[w] \in Requests
    /\ pc[w] = "journal" => tx[w] \in Tx
    /\ pc[w] \in {"broadcast", "rebroadcast"} => tx[w] \in Journaled

RelayInv == RelayTypeOK /\ WriteAhead /\ OneRowPerNonce /\ InHand

-----------------------------------------------------------------------------
(* The journal holds transactions. *)
LEMMA JournaledType == RelayTypeOK => Journaled \subseteq Tx
BY DEF RelayTypeOK, Journaled

(* A row's transaction is a journaled one, and the other way round. *)
LEMMA JournaledRow == \A t : t \in Journaled <=> \E row \in outbox : row.tx = t
BY DEF Journaled

(* Of some transactions one has the smallest nonce, so the oldest of them  *)
(* is one of them.                                                         *)
LEMMA OldestIn ==
  ASSUME NEW T \in SUBSET Tx, T # {}
  PROVE  Oldest(T) \in T
<1> DEFINE N == {t.nonce : t \in T}
<1>1. N \in SUBSET Nat /\ N # {}
  BY DEF Tx
<1>2. PICK m \in N : \A k \in N : m <= k
  BY <1>1, NatMin
<1>3. PICK t \in T : t.nonce = m
  BY <1>2
<1>4. \A s \in T : t.nonce <= s.nonce
  BY <1>2, <1>3
<1>. QED BY <1>3, <1>4 DEF Oldest

(* A step that leaves the chain, the journal and every row of InHand but   *)
(* one alone keeps the invariant if it keeps the types and that one row.   *)
LEMMA WorkerStep ==
  ASSUME RelayInv, NEW w \in Workers, RelayTypeOK',
         UNCHANGED <<receipts, mempool, outbox>>,
         \A v \in Workers \ {w} : pc'[v] = pc[v] /\ req'[v] = req[v] /\ tx'[v] = tx[v],
         pc'[w] # "idle" => req'[w] \in Requests,
         pc'[w] = "journal" => tx'[w] \in Tx,
         pc'[w] \in {"broadcast", "rebroadcast"} => tx'[w] \in Journaled
  PROVE  RelayInv'
<1>1. UNCHANGED <<Journaled, Included>>
  BY DEF Journaled, Included
<1>2. WriteAhead' /\ OneRowPerNonce'
  BY <1>1 DEF RelayInv, WriteAhead, OneRowPerNonce
<1>3. InHand'
  BY <1>1 DEF RelayInv, InHand
<1>. QED BY <1>2, <1>3 DEF RelayInv

(* An invocation that ends has nothing in hand. *)
LEMMA ReturnType ==
  ASSUME RelayTypeOK, NEW w \in Workers, Return(w)
  PROVE  /\ pc' \in [Workers -> Holding \cup {"idle", "reserve"}]
         /\ req' \in [Workers -> Requests \cup {None}]
         /\ seen' \in [Workers -> Nat]
         /\ tx' \in [Workers -> Tx \cup {None}]
         /\ pc'[w] = "idle"
         /\ \A v \in Workers \ {w} : pc'[v] = pc[v] /\ req'[v] = req[v] /\ tx'[v] = tx[v]
BY DEF RelayTypeOK, Return, Goto
-----------------------------------------------------------------------------
(* Moving an invocation from one await to the next keeps the types.        *)
LEMMA GotoType ==
  ASSUME RelayTypeOK, NEW w \in Workers,
         NEW label \in Holding \cup {"idle", "reserve"}, Goto(w, label)
  PROVE  /\ pc' \in [Workers -> Holding \cup {"idle", "reserve"}]
         /\ pc'[w] = label
         /\ \A v \in Workers \ {w} : pc'[v] = pc[v]
BY DEF RelayTypeOK, Goto

LEMMA PostStep ==
  ASSUME RelayInv, NEW w \in Workers, NEW r \in Requests, Post(w, r)
  PROVE  RelayInv'
<1>1. Goto(w, "reserve")
  BY DEF Post
<1>2. RelayTypeOK'
  BY <1>1, GotoType DEF Post, RelayInv, RelayTypeOK, chainVars, dbVars
<1>3. UNCHANGED <<receipts, mempool, outbox, tx>> /\ req' = [req EXCEPT ![w] = r]
  BY DEF Post, chainVars, dbVars
<1>. QED BY <1>1, <1>2, <1>3, GotoType, WorkerStep DEF RelayInv, RelayTypeOK

(* The steps of an invocation that only look: it goes on with what it has. *)
LEMMA LookStep ==
  ASSUME RelayInv, NEW w \in Workers,
         \/ Simulate(w) \/ Acquire(w) \/ ReadLatest(w) \/ CheckPending(w)
  PROVE  RelayInv'
<1>1. PICK label \in {"connect", "refuse", "latest", "queue", "prepare"} : Goto(w, label)
  BY DEF Simulate, Acquire, ReadLatest, CheckPending
<1>2. pc[w] # "idle"
  BY DEF Simulate, Acquire, ReadLatest, CheckPending, At
<1>3. UNCHANGED <<paid, eoa, standing, receipts, mempool, outbox, reservation, tx, req, faults>>
  BY DEF Simulate, Acquire, ReadLatest, CheckPending, chainVars, dbVars
<1>4. lock' \in Workers \cup {None}
  BY DEF Simulate, Acquire, ReadLatest, CheckPending, RelayInv, RelayTypeOK, dbVars
<1>5. seen' \in [Workers -> Nat]
  BY DEF Simulate, Acquire, ReadLatest, CheckPending, RelayInv, RelayTypeOK
<1>6. label \in Holding
  BY DEF Holding
<1>7. RelayTypeOK'
  BY <1>1, <1>3, <1>4, <1>5, <1>6, GotoType DEF RelayInv, RelayTypeOK
<1>8. req[w] \in Requests
  BY <1>2 DEF RelayInv, InHand
<1>. QED BY <1>1, <1>3, <1>6, <1>7, <1>8, GotoType, WorkerStep DEF RelayInv

LEMMA ReserveStep ==
  ASSUME RelayInv, NEW w \in Workers, Reserve(w)
  PROVE  RelayInv'
<1>1. req[w] \in Requests /\ KeyOf(req[w]) \in Keys
  BY DEF RelayInv, InHand, Reserve, At, Keys, KeyOf
<1>2. UNCHANGED <<paid, eoa, standing, receipts, mempool, outbox, lock, faults>>
  BY DEF Reserve, chainVars
<1>3. CASE Return(w) /\ UNCHANGED reservation
  <2>1. RelayTypeOK'
    BY <1>2, <1>3, ReturnType DEF RelayInv, RelayTypeOK
  <2>. QED BY <1>2, <1>3, <2>1, ReturnType, WorkerStep DEF RelayInv
<1>4. CASE /\ reservation' = [reservation EXCEPT ![KeyOf(req[w])] =
                               [req |-> req[w], status |-> "pending"]]
           /\ Goto(w, "simulate") /\ UNCHANGED <<req, seen, tx>>
  <2>1. "simulate" \in Holding
    BY DEF Holding
  <2>2. RelayTypeOK'
    BY <1>1, <1>2, <1>4, <2>1, GotoType DEF RelayInv, RelayTypeOK
  <2>. QED BY <1>1, <1>2, <1>4, <2>1, <2>2, GotoType, WorkerStep DEF RelayInv
<1>. QED BY <1>3, <1>4 DEF Reserve

(* The transaction a worker takes from the queue is a journaled one. *)
LEMMA ReadQueueStep ==
  ASSUME RelayInv, NEW w \in Workers, ReadQueue(w)
  PROVE  RelayInv'
<1>1. req[w] \in Requests
  BY DEF RelayInv, InHand, ReadQueue, At
<1>2. UNCHANGED <<paid, eoa, standing, receipts, mempool, outbox, reservation, lock, req, seen, faults>>
  BY DEF ReadQueue, chainVars, dbVars
<1>3. {"refuse", "pending", "rebroadcast"} \subseteq Holding
  BY DEF Holding
<1>4. CASE (Goto(w, "refuse") \/ Goto(w, "pending")) /\ UNCHANGED tx
  <2>1. RelayTypeOK'
    BY <1>2, <1>3, <1>4, GotoType DEF RelayInv, RelayTypeOK
  <2>. QED BY <1>1, <1>2, <1>3, <1>4, <2>1, GotoType, WorkerStep DEF RelayInv
<1>5. CASE /\ Outstanding(seen[w]) # {} /\ Goto(w, "rebroadcast")
           /\ tx' = [tx EXCEPT ![w] = Oldest(Outstanding(seen[w]))]
  <2>1. Oldest(Outstanding(seen[w])) \in Journaled /\ Journaled \subseteq Tx
    BY <1>5, JournaledType, OldestIn DEF RelayInv, Outstanding
  <2>2. RelayTypeOK'
    BY <1>2, <1>3, <1>5, <2>1, GotoType DEF RelayInv, RelayTypeOK
  <2>3. tx'[w] \in Journaled /\ \A v \in Workers \ {w} : tx'[v] = tx[v]
    BY <1>5, <2>1 DEF RelayInv, RelayTypeOK
  <2>. QED BY <1>1, <1>2, <1>3, <1>5, <2>2, <2>3, GotoType, WorkerStep DEF RelayInv
<1>. QED BY <1>4, <1>5 DEF ReadQueue

(* A transaction goes to the network only out of the journal. *)
LEMMA SendStep ==
  ASSUME RelayInv, NEW w \in Workers, Rebroadcast(w) \/ Broadcast(w)
  PROVE  RelayInv'
<1>1. tx[w] \in Journaled /\ req[w] \in Requests /\ Journaled \subseteq Tx
  BY JournaledType DEF RelayInv, InHand, Rebroadcast, Broadcast, At
<1>2. UNCHANGED <<paid, eoa, standing, receipts, outbox, reservation, req, seen, tx>>
  BY DEF Rebroadcast, Broadcast, dbVars
<1>3. mempool' \subseteq mempool \cup {tx[w]} /\ faults' \in 0..MaxFaults
  BY RelayAssumption DEF Rebroadcast, Broadcast, Transmit, Accept, Fault, RelayInv, RelayTypeOK
<1>4. PICK label \in {"refuse", "report"} : Goto(w, label)
  BY DEF Rebroadcast, Broadcast
<1>5. label \in Holding
  BY DEF Holding
<1>6. lock' \in Workers \cup {None}
  BY DEF Rebroadcast, Broadcast, Unlock, dbVars, RelayInv, RelayTypeOK
<1>7. RelayTypeOK'
  BY <1>1, <1>2, <1>3, <1>4, <1>5, <1>6, GotoType DEF RelayInv, RelayTypeOK
<1>8. UNCHANGED <<Journaled, Included>>
  BY <1>2 DEF Journaled, Included
<1>9. WriteAhead' /\ OneRowPerNonce'
  BY <1>1, <1>3, <1>8 DEF RelayInv, WriteAhead, OneRowPerNonce
<1>10. InHand'
  BY <1>1, <1>2, <1>4, <1>5, <1>8, GotoType DEF RelayInv, InHand
<1>. QED BY <1>7, <1>9, <1>10 DEF RelayInv
LEMMA PrepareStep ==
  ASSUME RelayInv, NEW w \in Workers, Prepare(w)
  PROVE  RelayInv'
<1>1. req[w] \in Requests
  BY DEF RelayInv, InHand, Prepare, At
<1>2. UNCHANGED <<paid, eoa, standing, receipts, mempool, outbox, reservation, lock, req, seen, faults>>
  BY DEF Prepare, chainVars, dbVars
<1>3. {"refuse", "journal"} \subseteq Holding
  BY DEF Holding
<1>4. CASE Goto(w, "refuse") /\ UNCHANGED tx
  <2>1. RelayTypeOK'
    BY <1>2, <1>3, <1>4, GotoType DEF RelayInv, RelayTypeOK
  <2>. QED BY <1>1, <1>2, <1>3, <1>4, <2>1, GotoType, WorkerStep DEF RelayInv
<1>5. CASE /\ Goto(w, "journal")
           /\ tx' = [tx EXCEPT ![w] = [nonce |-> seen[w], req |-> req[w], by |-> w]]
  <2>1. [nonce |-> seen[w], req |-> req[w], by |-> w] \in Tx
    BY <1>1 DEF Tx, RelayInv, RelayTypeOK
  <2>2. RelayTypeOK'
    BY <1>2, <1>3, <1>5, <2>1, GotoType DEF RelayInv, RelayTypeOK
  <2>3. tx'[w] \in Tx /\ \A v \in Workers \ {w} : tx'[v] = tx[v]
    BY <1>5, <2>1 DEF RelayInv, RelayTypeOK
  <2>. QED BY <1>1, <1>2, <1>3, <1>5, <2>2, <2>3, GotoType, WorkerStep DEF RelayInv
<1>. QED BY <1>4, <1>5 DEF Prepare

(* A row that is inserted is one more transaction in the journal.           *)
LEMMA RowAdds ==
  ASSUME NEW t, outbox' = outbox \cup {Row(t, "submitted")}
  PROVE  Journaled' = Journaled \cup {t}
<1>1. PICK row : row = Row(t, "submitted")
  OBVIOUS
<1>2. row.tx = t
  BY <1>1 DEF Row
<1>3. outbox' = outbox \cup {row}
  BY <1>1
<1>. QED BY ONLY <1>2, <1>3 DEF Journaled

(* The row is written before the worker may broadcast, and only if no row  *)
(* has its nonce.                                                          *)
LEMMA JournalStep ==
  ASSUME RelayInv, NEW w \in Workers, Journal(w)
  PROVE  RelayInv'
<1>1. req[w] \in Requests /\ tx[w] \in Tx
  BY DEF RelayInv, InHand, Journal, At
<1>2. UNCHANGED <<paid, eoa, standing, receipts, mempool, reservation, req, seen, tx>>
  BY DEF Journal, chainVars
<1>3. {"refuse", "broadcast"} \subseteq Holding
  BY DEF Holding
<1>4. lock' \in Workers \cup {None} /\ faults' \in 0..MaxFaults
  BY RelayAssumption DEF Journal, Fault, RelayInv, RelayTypeOK
<1>5. CASE Goto(w, "refuse") /\ UNCHANGED outbox
  <2>1. RelayTypeOK'
    BY <1>2, <1>3, <1>4, <1>5, GotoType DEF RelayInv, RelayTypeOK
  <2>. QED BY <1>1, <1>2, <1>3, <1>5, <2>1, GotoType, WorkerStep DEF RelayInv
<1>6. CASE /\ Goto(w, "broadcast") \/ Goto(w, "refuse")
           /\ ~NonceTaken(tx[w].nonce)
           /\ outbox' = outbox \cup {Row(tx[w], "submitted")}
  <2>1. RelayTypeOK'
    BY <1>1, <1>2, <1>3, <1>4, <1>6, GotoType DEF RelayInv, RelayTypeOK, Row
  <2>2. Journaled' = Journaled \cup {tx[w]} /\ UNCHANGED Included
    BY <1>2, <1>6, RowAdds DEF Included
  <2>3. WriteAhead'
    BY <1>2, <2>2 DEF RelayInv, WriteAhead
  <2>4. OneRowPerNonce'
    BY <1>6, <2>2 DEF RelayInv, OneRowPerNonce, NonceTaken
  <2>5. InHand'
    BY <1>1, <1>2, <1>3, <1>6, <2>2, GotoType DEF RelayInv, InHand
  <2>. QED BY <2>1, <2>3, <2>4, <2>5 DEF RelayInv
<1>. QED BY <1>5, <1>6 DEF Journal

LEMMA ReportStep ==
  ASSUME RelayInv, NEW w \in Workers, Report(w)
  PROVE  RelayInv'
<1>1. req[w] \in Requests /\ KeyOf(req[w]) \in Keys
  BY DEF RelayInv, InHand, Report, At, Keys, KeyOf
<1>2. UNCHANGED <<paid, eoa, standing, receipts, mempool, outbox, lock, req, seen, tx>>
  BY DEF Report, chainVars
<1>3. Goto(w, "receipt") /\ "receipt" \in Holding
  BY DEF Report, Holding
<1>4. faults' \in 0..MaxFaults
  BY RelayAssumption DEF Report, Fault, RelayInv, RelayTypeOK
<1>5. reservation' \in [Keys -> [req : Requests \cup {None}, status : {"pending", "submitted"}]]
  BY <1>1 DEF Report, RelayInv, RelayTypeOK
<1>6. RelayTypeOK'
  BY <1>2, <1>3, <1>4, <1>5, GotoType DEF RelayInv, RelayTypeOK
<1>. QED BY <1>1, <1>2, <1>3, <1>6, GotoType, WorkerStep DEF RelayInv

(* The end of an invocation, whatever it does to the status of the rows,   *)
(* to its reservation and to the lock.                                     *)
LEMMA EndStep ==
  ASSUME RelayInv, NEW w \in Workers, Return(w), RelayTypeOK',
         UNCHANGED <<receipts, mempool, Journaled>>
  PROVE  RelayInv'
<1>1. UNCHANGED Included
  BY DEF Included
<1>2. WriteAhead' /\ OneRowPerNonce'
  BY <1>1 DEF RelayInv, WriteAhead, OneRowPerNonce
<1>3. InHand'
  BY ReturnType DEF RelayInv, InHand
<1>. QED BY <1>2, <1>3 DEF RelayInv

(* Settling a row changes its status and keeps its transaction. *)
LEMMA SettlingKeepsJournaled ==
  ASSUME RelayInv, NEW w \in Workers, AwaitReceipt(w)
  PROVE  /\ UNCHANGED Journaled
         /\ outbox' \subseteq [tx : Tx, status : {"submitted", "confirmed", "reverted"}]
<1>1. CASE UNCHANGED outbox
  BY <1>1 DEF RelayInv, RelayTypeOK, Journaled
<1>2. CASE \E receipt \in receipts :
             outbox' = {IF row.tx = tx[w] THEN Row(row.tx, Settled(receipt)) ELSE row : row \in outbox}
  <2>1. PICK status \in {"confirmed", "reverted"} :
          outbox' = {IF row.tx = tx[w] THEN Row(row.tx, status) ELSE row : row \in outbox}
    BY <1>2 DEF Settled
  <2> DEFINE new(row) == IF row.tx = tx[w] THEN Row(row.tx, status) ELSE row
  <2>2. \A row \in outbox : /\ new(row).tx = row.tx
                            /\ new(row) \in [tx : Tx, status : {"submitted", "confirmed", "reverted"}]
    BY DEF RelayInv, RelayTypeOK, Row
  <2>3. outbox' = {new(row) : row \in outbox}
    BY <2>1
  <2> HIDE DEF new
  <2>. QED BY <2>2, <2>3 DEF Journaled
<1>. QED BY <1>1, <1>2 DEF AwaitReceipt

LEMMA AwaitReceiptStep ==
  ASSUME RelayInv, NEW w \in Workers, AwaitReceipt(w)
  PROVE  RelayInv'
<1>1. UNCHANGED <<paid, eoa, standing, receipts, mempool, reservation, lock, faults>> /\ Return(w)
  BY DEF AwaitReceipt, chainVars
<1>2. RelayTypeOK'
  BY <1>1, SettlingKeepsJournaled, ReturnType DEF RelayInv, RelayTypeOK
<1>. QED BY <1>1, <1>2, SettlingKeepsJournaled, EndStep

LEMMA RefuseStep ==
  ASSUME RelayInv, NEW w \in Workers, Refuse(w)
  PROVE  RelayInv'
<1>1. UNCHANGED <<paid, eoa, standing, receipts, mempool, outbox>> /\ Return(w)
  BY DEF Refuse, chainVars
<1>2. KeyOf(req[w]) \in Keys
  BY DEF RelayInv, InHand, Refuse, At, Keys, KeyOf
<1>3. Nothing \in [req : Requests \cup {None}, status : {"pending", "submitted"}]
  BY DEF Nothing
<1>4. reservation' \in [Keys -> [req : Requests \cup {None}, status : {"pending", "submitted"}]]
  BY <1>2, <1>3 DEF Refuse, RelayInv, RelayTypeOK
<1>5. lock' \in Workers \cup {None} /\ faults' \in 0..MaxFaults
  BY RelayAssumption DEF Refuse, Unlock, Fault, RelayInv, RelayTypeOK
<1>6. RelayTypeOK' /\ UNCHANGED Journaled
  BY <1>1, <1>4, <1>5, ReturnType DEF RelayInv, RelayTypeOK, Journaled
<1>. QED BY <1>1, <1>6, EndStep

LEMMA CrashStep ==
  ASSUME RelayInv, NEW w \in Workers, Crash(w)
  PROVE  RelayInv'
<1>1. UNCHANGED <<paid, eoa, standing, receipts, mempool, reservation, outbox>> /\ Return(w)
  BY DEF Crash, chainVars
<1>2. lock' \in Workers \cup {None} /\ faults' \in 0..MaxFaults
  BY RelayAssumption DEF Crash, Unlock, Fault, RelayInv, RelayTypeOK
<1>3. RelayTypeOK' /\ UNCHANGED Journaled
  BY <1>1, <1>2, ReturnType DEF RelayInv, RelayTypeOK, Journaled
<1>. QED BY <1>1, <1>3, EndStep

LEMMA IncludeStep ==
  ASSUME RelayInv, NEW t \in mempool, Include(t)
  PROVE  RelayInv'
<1>1. /\ UNCHANGED <<standing, reservation, outbox, lock, pc, req, seen, tx, faults>>
      /\ mempool' \subseteq mempool /\ eoa' = eoa + 1
  BY DEF Include, dbVars, workerVars
<1>2. PICK result \in Results : receipts' = receipts \cup {[tx |-> t, result |-> result]}
  BY DEF Include, Results
<1>3. t \in Tx /\ t.req \in Requests
  BY DEF RelayInv, RelayTypeOK, Tx
<1>4. paid' \in [Users -> Nat]
  BY <1>3, RelayAssumption DEF Include, RelayInv, RelayTypeOK
<1>5. RelayTypeOK'
  BY <1>1, <1>2, <1>3, <1>4 DEF RelayInv, RelayTypeOK
<1>6. UNCHANGED Journaled /\ Included' = Included \cup {t}
  <2>1. PICK receipt : receipt = [tx |-> t, result |-> result]
    OBVIOUS
  <2>2. receipt.tx = t /\ receipts' = receipts \cup {receipt}
    BY <1>2, <2>1
  <2>. QED BY ONLY <1>1, <2>2 DEF Journaled, Included
<1>7. WriteAhead' /\ OneRowPerNonce' /\ InHand'
  BY <1>1, <1>6 DEF RelayInv, WriteAhead, OneRowPerNonce, InHand
<1>. QED BY <1>5, <1>7 DEF RelayInv

(* What the rest of the world does to the lock, the pool, the requests and *)
(* the reservations.                                                       *)
LEMMA WorldStep ==
  ASSUME RelayInv,
         \/ \E w \in Workers : LoseSession(w)
         \/ \E t \in mempool : Forget(t)
         \/ \E r \in Requests : Decay(r)
         \/ \E k \in Keys : Expire(k)
  PROVE  RelayInv'
<1>1. UNCHANGED <<paid, eoa, receipts, outbox, pc, req, seen, tx>> /\ mempool' \subseteq mempool
  BY DEF LoseSession, Forget, Decay, Expire, chainVars, dbVars, workerVars
<1>2. lock' \in Workers \cup {None} /\ faults' \in 0..MaxFaults
  BY RelayAssumption
     DEF LoseSession, Forget, Decay, Expire, chainVars, dbVars, Fault, RelayInv, RelayTypeOK
<1>3. standing' \in [Requests -> {"good", "failing", "stale"}]
  BY DEF LoseSession, Forget, Decay, Expire, chainVars, RelayInv, RelayTypeOK
<1>4. Nothing \in [req : Requests \cup {None}, status : {"pending", "submitted"}]
  BY DEF Nothing
<1>5. reservation' \in [Keys -> [req : Requests \cup {None}, status : {"pending", "submitted"}]]
  BY <1>4 DEF LoseSession, Forget, Decay, Expire, dbVars, RelayInv, RelayTypeOK
<1>6. RelayTypeOK'
  BY <1>1, <1>2, <1>3, <1>5 DEF RelayInv, RelayTypeOK
<1>7. UNCHANGED <<Journaled, Included>>
  BY <1>1 DEF Journaled, Included
<1>8. WriteAhead' /\ OneRowPerNonce' /\ InHand'
  BY <1>1, <1>7 DEF RelayInv, WriteAhead, OneRowPerNonce, InHand
<1>. QED BY <1>6, <1>8 DEF RelayInv

-----------------------------------------------------------------------------
LEMMA RelayInvInit == RelayInit => RelayInv
<1> SUFFICES ASSUME RelayInit PROVE RelayInv
  OBVIOUS
<1>1. Nothing \in [req : Requests \cup {None}, status : {"pending", "submitted"}]
  BY DEF Nothing
<1>2. RelayTypeOK
  BY <1>1, RelayAssumption DEF RelayInit, RelayTypeOK
<1>3. Journaled = {} /\ Included = {}
  BY DEF RelayInit, Journaled, Included
<1>. QED BY <1>2, <1>3 DEF RelayInit, RelayInv, WriteAhead, OneRowPerNonce, InHand

LEMMA RelayInvStep == RelayInv /\ [RelayNext]_relayVars => RelayInv'
<1> SUFFICES ASSUME RelayInv, [RelayNext]_relayVars PROVE RelayInv'
  OBVIOUS
<1>1. ASSUME NEW w \in Workers, Step(w) PROVE RelayInv'
  BY <1>1, LookStep, ReserveStep, ReadQueueStep, SendStep, PrepareStep, JournalStep,
     ReportStep, AwaitReceiptStep, RefuseStep DEF Step
<1>2. ASSUME NEW w \in Workers, NEW r \in Requests, Post(w, r) PROVE RelayInv'
  BY <1>2, PostStep
<1>3. ASSUME NEW w \in Workers, Crash(w) PROVE RelayInv'
  BY <1>3, CrashStep
<1>4. ASSUME NEW t \in mempool, Include(t) PROVE RelayInv'
  BY <1>4, IncludeStep
<1>5. CASE \/ \E w \in Workers : LoseSession(w)
           \/ \E t \in mempool : Forget(t)
           \/ \E r \in Requests : Decay(r)
           \/ \E k \in Keys : Expire(k)
  BY <1>5, WorldStep
<1>6. CASE UNCHANGED relayVars
  BY <1>6 DEF relayVars, RelayInv, RelayTypeOK, WriteAhead, OneRowPerNonce, InHand,
              Journaled, Included
<1>. QED BY <1>1, <1>2, <1>3, <1>4, <1>5, <1>6 DEF RelayNext

(* The inductive invariant of the journal, from which the three follow.    *)
THEOREM RelayInvariant == RelaySafetySpec => []RelayInv
BY RelayInvInit, RelayInvStep, PTL DEF RelaySafetySpec

(* Every variable of the relay keeps its type. *)
THEOREM RelayTypeCorrect == RelaySafetySpec => []RelayTypeOK
<1>1. RelayInv => RelayTypeOK
  BY DEF RelayInv
<1>. QED BY <1>1, RelayInvariant, PTL

(* The network never holds, and the chain never includes, a transaction    *)
(* the outbox does not have (durable-relay.ts:43), whichever workers,      *)
(* sessions and answers are lost.                                          *)
THEOREM RelayWritesAhead == RelaySafetySpec => []WriteAhead
<1>1. RelayInv => WriteAhead
  BY DEF RelayInv
<1>. QED BY <1>1, RelayInvariant, PTL

(* The relayer never signs two transactions for one nonce of its account   *)
(* that both reach the journal or the network (durable-relay.ts:14).       *)
THEOREM RelayNeverSignsTwice == RelaySafetySpec => []OneTransactionPerNonce
<1>1. RelayInv => OneTransactionPerNonce
  BY DEF RelayInv, WriteAhead, OneRowPerNonce, OneTransactionPerNonce
<1>. QED BY <1>1, RelayInvariant, PTL

-----------------------------------------------------------------------------
(* The relay implements Outbox and never pays for a signed nonce of a user *)
(* twice, for any number of workers, users, requests and faults.           *)
(*                                                                         *)
(* Here the lock matters.  Who still holds it when it writes the journal   *)
(* has held it since it looked for an outstanding transaction: nothing was *)
(* journaled meanwhile, so what it had seen is still the whole queue, all  *)
(* of it is settled, and the nonce it read is still the account's.         *)

(* What an invocation w still knows about the queue, where it is.           *)
KnowsQueue(w) ==
  /\ pc[w] \in {"queue", "pending", "prepare", "journal"} => seen[w] <= eoa
  /\ pc[w] \in {"pending", "prepare", "journal"} /\ lock = w =>
       \A t \in Journaled : t.nonce < seen[w]
  /\ pc[w] = "journal" =>
       /\ tx[w].nonce = seen[w] /\ tx[w].req \in Requests
       /\ lock = w =>
            \A s \in Journaled : KeyOf(s.req) = KeyOf(tx[w].req) =>
                                   [tx |-> s, result |-> "reverted"] \in receipts

(* The queue is the journal: every nonce used has a receipt and a row, at   *)
(* most one row is beyond them, and a request that was sponsored has used   *)
(* up its user's nonce.                                                     *)
QueueInv ==
  /\ \A t \in Journaled : t.nonce <= eoa
  /\ \A n \in Nat : n < eoa => \E receipt \in receipts : receipt.tx.nonce = n
  /\ \A receipt \in receipts :
       receipt.result # "reverted" => NonceOf[receipt.tx.req] < paid[UserOf[receipt.tx.req]]
  /\ NoSecondPayment
  /\ \A w \in Workers : KnowsQueue(w)

(* Every row with a nonce that is used was included.                        *)
LEMMA UsedHasReceipt ==
  ASSUME RelayInv, QueueInv, NEW t \in Journaled, t.nonce < eoa
  PROVE  \E receipt \in receipts : receipt.tx = t
<1>1. t.nonce \in Nat
  BY JournaledType DEF RelayInv, Tx
<1>2. PICK receipt \in receipts : receipt.tx.nonce = t.nonce
  BY <1>1 DEF QueueInv
<1>3. receipt.tx \in Journaled
  BY DEF RelayInv, WriteAhead, Included
<1>. QED BY <1>2, <1>3 DEF RelayInv, OneRowPerNonce

(* A step that leaves the chain and the journal alone and moves one         *)
(* invocation only, which still knows what it has to.                       *)
LEMMA QueueStep ==
  ASSUME QueueInv, NEW w \in Workers,
         UNCHANGED <<paid, eoa, receipts, Journaled>>,
         \A v \in Workers \ {w} : pc'[v] = pc[v] /\ seen'[v] = seen[v] /\ tx'[v] = tx[v]
                                  /\ (lock' = v => lock = v),
         KnowsQueue(w)'
  PROVE  QueueInv'
<1>1. ASSUME NEW v \in Workers \ {w} PROVE KnowsQueue(v)'
  BY <1>1 DEF QueueInv, KnowsQueue
<1>2. NoSecondPayment'
  BY DEF QueueInv, NoSecondPayment
<1>. QED BY <1>1, <1>2 DEF QueueInv

(* Where an invocation knows nothing of the queue. *)
LEMMA KnowsNothing ==
  ASSUME NEW w, pc'[w] \notin {"queue", "pending", "prepare", "journal"}
  PROVE  KnowsQueue(w)'
BY DEF KnowsQueue

-----------------------------------------------------------------------------
LEMMA PrepareQueue ==
  ASSUME RelayInv, QueueInv, NEW w \in Workers, Prepare(w)
  PROVE  QueueInv'
<1>1. /\ UNCHANGED <<paid, eoa, receipts, mempool, outbox, lock, seen, req>>
      /\ UNCHANGED Journaled /\ pc[w] = "prepare" /\ req[w] \in Requests
  BY DEF Prepare, chainVars, dbVars, Journaled, At, RelayInv, InHand
<1>2. /\ \A v \in Workers \ {w} : pc'[v] = pc[v]
      /\ \A v \in Workers \ {w} : tx'[v] = tx[v]
  BY DEF Prepare, Goto, RelayInv, RelayTypeOK
<1>3. CASE Goto(w, "refuse")
  <2>1. KnowsQueue(w)'
    BY <1>3, KnowsNothing DEF Goto, RelayInv, RelayTypeOK
  <2>. QED BY <1>1, <1>2, <2>1, QueueStep
<1>4. CASE /\ Executable(req[w]) /\ Goto(w, "journal")
           /\ tx' = [tx EXCEPT ![w] = [nonce |-> seen[w], req |-> req[w], by |-> w]]
  <2>1. pc'[w] = "journal" /\ tx'[w].nonce = seen[w] /\ tx'[w].req = req[w]
    BY <1>4 DEF Goto, RelayInv, RelayTypeOK
  <2>2. seen[w] <= eoa /\ (lock = w => \A t \in Journaled : t.nonce < seen[w])
    BY <1>1 DEF QueueInv, KnowsQueue
  <2>3. ASSUME lock = w, NEW s \in Journaled, KeyOf(s.req) = KeyOf(req[w])
        PROVE  [tx |-> s, result |-> "reverted"] \in receipts
    <3>1. s.nonce < eoa
      <4>1. s.nonce < seen[w] /\ s.nonce \in Nat /\ seen[w] \in Nat /\ eoa \in Nat
        BY <2>2, <2>3, JournaledType DEF RelayInv, RelayTypeOK, Tx
      <4>. QED BY <2>2, <4>1
    <3>2. PICK receipt \in receipts : receipt.tx = s
      BY <3>1, UsedHasReceipt
    <3>3. UserOf[s.req] = UserOf[req[w]] /\ NonceOf[s.req] = NonceOf[req[w]]
      BY <2>3 DEF KeyOf
    <3>4. NonceOf[req[w]] = paid[UserOf[req[w]]] /\ NonceOf[req[w]] \in Nat
      BY <1>1, <1>4, RelayAssumption DEF Executable
    <3>5. receipt.result = "reverted"
      BY <3>2, <3>3, <3>4 DEF QueueInv
    <3>6. receipt \in [tx : Tx, result : Results]
      BY DEF RelayInv, RelayTypeOK
    <3>. QED BY <3>2, <3>5, <3>6
  <2>4. KnowsQueue(w)'
    BY <1>1, <2>1, <2>2, <2>3 DEF KnowsQueue
  <2>. QED BY <1>1, <1>2, <2>4, QueueStep
<1>. QED BY <1>3, <1>4 DEF Prepare

(* What is journaled is the next of the account, after everything before it *)
(* has settled, and not a second time for the same signed nonce.            *)
LEMMA JournalsNext ==
  ASSUME RelayInv, QueueInv, NEW w \in Workers, Journal(w), lock = w
  PROVE  /\ tx[w] \in Tx /\ tx[w].nonce = eoa
         /\ \A t \in Journaled : t.nonce < eoa
         /\ \A s \in Journaled : KeyOf(s.req) = KeyOf(tx[w].req) =>
                                   [tx |-> s, result |-> "reverted"] \in receipts
<1>1. pc[w] = "journal" /\ tx[w] \in Tx
  BY DEF Journal, At, RelayInv, InHand
<1>2. /\ seen[w] <= eoa /\ tx[w].nonce = seen[w]
      /\ \A t \in Journaled : t.nonce < seen[w]
      /\ \A s \in Journaled : KeyOf(s.req) = KeyOf(tx[w].req) =>
                                [tx |-> s, result |-> "reverted"] \in receipts
  BY <1>1 DEF QueueInv, KnowsQueue
<1>3. eoa \in Nat /\ seen[w] \in Nat
  BY DEF RelayInv, RelayTypeOK
<1>4. ~ (seen[w] < eoa)
  <2> SUFFICES ASSUME seen[w] < eoa PROVE FALSE
    OBVIOUS
  <2>1. PICK receipt \in receipts : receipt.tx.nonce = seen[w]
    BY <1>3 DEF QueueInv
  <2>2. receipt.tx \in Journaled
    BY DEF RelayInv, WriteAhead, Included
  <2>. QED BY <1>2, <1>3, <2>1, <2>2
<1>5. seen[w] = eoa
  BY <1>2, <1>3, <1>4
<1>. QED BY <1>1, <1>2, <1>5

LEMMA JournalQueue ==
  ASSUME RelayInv, QueueInv, NEW w \in Workers, Journal(w)
  PROVE  QueueInv'
<1>1. /\ UNCHANGED <<paid, eoa, receipts, seen, tx>> /\ lock' \in {lock, None}
      /\ \A v \in Workers \ {w} : pc'[v] = pc[v]
      /\ pc'[w] \in {"broadcast", "refuse"}
  BY DEF Journal, Fault, Goto, chainVars, RelayInv, RelayTypeOK
<1>2. KnowsQueue(w)'
  BY <1>1, KnowsNothing
<1>3. \A v \in Workers : lock' = v => lock = v
  BY <1>1, RelayAssumption
<1>4. CASE UNCHANGED outbox
  <2>1. UNCHANGED Journaled
    BY <1>4 DEF Journaled
  <2>. QED BY <1>1, <1>2, <1>3, <2>1, QueueStep
<1>5. CASE lock = w /\ outbox' = outbox \cup {Row(tx[w], "submitted")}
  <2>1. /\ tx[w].nonce = eoa /\ eoa \in Nat
        /\ \A t \in Journaled : t.nonce < eoa /\ t.nonce \in Nat
        /\ \A s \in Journaled : KeyOf(s.req) = KeyOf(tx[w].req) =>
                                  [tx |-> s, result |-> "reverted"] \in receipts
    BY <1>5, JournalsNext, JournaledType DEF RelayInv, RelayTypeOK, Tx
  <2>2. Journaled' = Journaled \cup {tx[w]}
    BY <1>5, RowAdds
  <2>3. \A t \in Journaled' : t.nonce <= eoa
    BY <2>1, <2>2
  <2>4. NoSecondPayment'
    <3> SUFFICES ASSUME NEW s \in Journaled', NEW t \in Journaled', s.nonce < t.nonce,
                        KeyOf(s.req) = KeyOf(t.req)
                 PROVE  [tx |-> s, result |-> "reverted"] \in receipts
      BY <1>1 DEF NoSecondPayment
    <3>1. s \in Journaled
      BY <2>1, <2>2, <2>3
    <3>2. CASE t \in Journaled
      BY <3>1, <3>2 DEF QueueInv, NoSecondPayment
    <3>3. CASE t = tx[w]
      BY <2>1, <3>1, <3>3
    <3>. QED BY <2>2, <3>2, <3>3
  <2>5. ASSUME NEW v \in Workers \ {w} PROVE KnowsQueue(v)'
    <3>1. lock' # v
      BY <1>3, <1>5
    <3>2. (pc[v] \in {"queue", "pending", "prepare", "journal"} => seen[v] <= eoa)
          /\ (pc[v] = "journal" => tx[v].nonce = seen[v] /\ tx[v].req \in Requests)
      BY DEF QueueInv, KnowsQueue
    <3>. QED BY <1>1, <3>1, <3>2 DEF KnowsQueue
  <2>. QED BY <1>1, <1>2, <2>3, <2>4, <2>5 DEF QueueInv
<1>. QED BY <1>4, <1>5 DEF Journal

-----------------------------------------------------------------------------
(* The other steps of an invocation. *)
LEMMA LookQueue ==
  ASSUME RelayInv, QueueInv, NEW w \in Workers,
         ReadLatest(w) \/ ReadQueue(w) \/ CheckPending(w)
  PROVE  QueueInv'
<1>1. /\ UNCHANGED <<paid, eoa, receipts, outbox, lock>> /\ UNCHANGED Journaled
      /\ \A v \in Workers \ {w} : pc'[v] = pc[v] /\ seen'[v] = seen[v] /\ tx'[v] = tx[v]
      /\ eoa \in Nat
  BY DEF ReadLatest, ReadQueue, CheckPending, Goto, chainVars, dbVars, Journaled, RelayInv,
         RelayTypeOK
<1>2. CASE pc'[w] \in {"rebroadcast", "refuse"}
  <2>1. KnowsQueue(w)'
    BY <1>2, KnowsNothing
  <2>. QED BY <1>1, <2>1, QueueStep
<1>3. CASE ReadLatest(w)
  <2>1. pc'[w] = "queue" /\ seen'[w] = eoa
    BY <1>3 DEF ReadLatest, Goto, RelayInv, RelayTypeOK
  <2>2. KnowsQueue(w)'
    BY <1>1, <2>1 DEF KnowsQueue
  <2>. QED BY <1>1, <2>2, QueueStep
<1>4. CASE ReadQueue(w) /\ pc'[w] \notin {"rebroadcast", "refuse"}
  <2>1. /\ pc[w] = "queue" /\ pc'[w] = "pending" /\ seen' = seen /\ Outstanding(seen[w]) = {}
    BY <1>4 DEF ReadQueue, At, Goto, RelayInv, RelayTypeOK
  <2>2. seen[w] <= eoa
    BY <2>1 DEF QueueInv, KnowsQueue
  <2>3. \A t \in Journaled : t.nonce < seen[w]
    <3>1. \A t \in Journaled : t.nonce \in Nat /\ ~ (t.nonce >= seen[w])
      BY <2>1, JournaledType DEF Outstanding, RelayInv, Tx
    <3>2. seen[w] \in Nat
      BY DEF RelayInv, RelayTypeOK
    <3>. QED BY <3>1, <3>2
  <2>4. KnowsQueue(w)'
    BY <1>1, <2>1, <2>2, <2>3 DEF KnowsQueue
  <2>. QED BY <1>1, <2>4, QueueStep
<1>5. CASE CheckPending(w) /\ pc'[w] \notin {"rebroadcast", "refuse"}
  <2>1. pc[w] = "pending" /\ pc'[w] = "prepare" /\ seen' = seen
    BY <1>5 DEF CheckPending, At, Goto, RelayInv, RelayTypeOK
  <2>2. KnowsQueue(w)'
    BY <1>1, <2>1 DEF QueueInv, KnowsQueue
  <2>. QED BY <1>1, <2>2, QueueStep
<1>. QED BY <1>2, <1>3, <1>4, <1>5

LEMMA AwayQueue ==
  ASSUME RelayInv, QueueInv, NEW w \in Workers,
         \/ \E r \in Requests : Post(w, r)
         \/ Reserve(w) \/ Simulate(w) \/ Acquire(w) \/ Rebroadcast(w) \/ Broadcast(w)
         \/ Report(w) \/ AwaitReceipt(w) \/ Refuse(w) \/ Crash(w)
  PROVE  QueueInv'
<1>1. /\ UNCHANGED <<paid, eoa, receipts>> /\ lock' \in {lock, w, None}
      /\ \A v \in Workers \ {w} : pc'[v] = pc[v] /\ seen'[v] = seen[v] /\ tx'[v] = tx[v]
      /\ pc'[w] \in {"idle", "reserve", "simulate", "connect", "latest", "refuse", "report",
                     "receipt"}
  BY DEF Post, Reserve, Simulate, Acquire, Rebroadcast, Broadcast, Report, AwaitReceipt, Refuse,
         Crash, Return, Goto, Unlock, chainVars, dbVars, RelayInv, RelayTypeOK
<1>2. UNCHANGED Journaled
  <2>1. CASE UNCHANGED outbox
    BY <2>1 DEF Journaled
  <2>2. CASE AwaitReceipt(w)
    BY <2>2, SettlingKeepsJournaled
  <2>. QED BY <2>1, <2>2
       DEF Post, Reserve, Simulate, Acquire, Rebroadcast, Broadcast, Report, Refuse, Crash,
           chainVars, dbVars
<1>3. \A v \in Workers \ {w} : lock' = v => lock = v
  BY <1>1, RelayAssumption
<1>4. KnowsQueue(w)'
  BY <1>1, KnowsNothing
<1>. QED BY <1>1, <1>2, <1>3, <1>4, QueueStep

-----------------------------------------------------------------------------
(* The chain includes the one transaction of its next nonce. *)
LEMMA IncludeQueue ==
  ASSUME RelayInv, QueueInv, NEW t \in mempool, Include(t)
  PROVE  QueueInv'
<1>1. /\ UNCHANGED <<outbox, lock, pc, seen, tx>> /\ UNCHANGED Journaled
      /\ eoa' = eoa + 1 /\ eoa \in Nat /\ t.nonce = eoa
      /\ t \in Tx /\ UserOf[t.req] \in Users /\ NonceOf[t.req] \in Nat
      /\ paid \in [Users -> Nat]
  BY RelayAssumption DEF Include, dbVars, workerVars, Journaled, RelayInv, RelayTypeOK, Tx
<1>2. PICK new : /\ receipts' = receipts \cup {new} /\ new.tx = t
                 /\ \/ new.result = "reverted" /\ paid' = paid
                    \/ /\ NonceOf[t.req] = paid[UserOf[t.req]]
                       /\ paid' = [paid EXCEPT ![UserOf[t.req]] = @ + 1]
  <2>1. PICK result :
          /\ receipts' = receipts \cup {[tx |-> t, result |-> result]}
          /\ \/ result = "reverted" /\ paid' = paid
             \/ /\ NonceOf[t.req] = paid[UserOf[t.req]]
                /\ paid' = [paid EXCEPT ![UserOf[t.req]] = @ + 1]
    <3>1. CASE Executable(t.req)
      BY <3>1 DEF Include, Executable
    <3>2. CASE ~ Executable(t.req)
      BY <3>2 DEF Include
    <3>. QED BY <3>1, <3>2
  <2>2. PICK new : new = [tx |-> t, result |-> result]
    OBVIOUS
  <2>3. new.tx = t /\ new.result = result
    BY <2>2
  <2>. QED BY <2>1, <2>2, <2>3
<1>3. \A u \in Users : paid[u] \in Nat /\ paid'[u] \in Nat /\ paid'[u] >= paid[u]
  BY <1>1, <1>2
<1>4. \A s \in Journaled' : s.nonce <= eoa'
  <2>1. \A s \in Journaled : s.nonce <= eoa /\ s.nonce \in Nat
    BY JournaledType DEF QueueInv, RelayInv, Tx
  <2>. QED BY <1>1, <2>1
<1>5. ASSUME NEW n \in Nat, n < eoa' PROVE \E receipt \in receipts' : receipt.tx.nonce = n
  <2>1. CASE n < eoa
    BY <1>2, <2>1 DEF QueueInv
  <2>2. CASE n = eoa
    BY <1>1, <1>2, <2>2
  <2>. QED BY <1>1, <1>5, <2>1, <2>2
<1>6. ASSUME NEW receipt \in receipts', receipt.result # "reverted"
      PROVE  NonceOf[receipt.tx.req] < paid'[UserOf[receipt.tx.req]]
  <2>1. CASE receipt \in receipts
    <3>1. receipt.tx.req \in Requests
      BY <2>1 DEF RelayInv, RelayTypeOK, Tx
    <3>2. UserOf[receipt.tx.req] \in Users /\ NonceOf[receipt.tx.req] \in Nat
      BY <3>1, RelayAssumption
    <3>3. NonceOf[receipt.tx.req] < paid[UserOf[receipt.tx.req]]
      BY <1>6, <2>1 DEF QueueInv
    <3>. QED BY <1>3, <3>2, <3>3
  <2>2. CASE receipt = new
    BY <1>1, <1>2, <1>6, <2>2
  <2>. QED BY <1>2, <2>1, <2>2
<1>7. NoSecondPayment'
  BY <1>1, <1>2 DEF QueueInv, NoSecondPayment
<1>8. ASSUME NEW w \in Workers PROVE KnowsQueue(w)'
  <2>1. seen[w] \in Nat
    BY DEF RelayInv, RelayTypeOK
  <2>2. pc[w] \in {"queue", "pending", "prepare", "journal"} => seen[w] <= eoa'
    BY <1>1, <2>1 DEF QueueInv, KnowsQueue
  <2>. QED BY <1>1, <1>2, <2>2 DEF QueueInv, KnowsQueue
<1>. QED BY <1>4, <1>5, <1>6, <1>7, <1>8 DEF QueueInv

LEMMA WorldQueue ==
  ASSUME RelayInv, QueueInv,
         \/ \E w \in Workers : LoseSession(w)
         \/ \E t \in mempool : Forget(t)
         \/ \E r \in Requests : Decay(r)
         \/ \E k \in Keys : Expire(k)
         \/ UNCHANGED relayVars
  PROVE  QueueInv'
<1>1. /\ UNCHANGED <<paid, eoa, receipts, outbox, pc, seen, tx>> /\ UNCHANGED Journaled
      /\ lock' \in {lock, None}
  BY DEF LoseSession, Forget, Decay, Expire, chainVars, dbVars, workerVars, relayVars, Journaled
<1>2. \A v \in Workers : lock' = v => lock = v
  BY <1>1, RelayAssumption
<1>3. ASSUME NEW v \in Workers PROVE KnowsQueue(v)'
  BY <1>1, <1>2 DEF QueueInv, KnowsQueue
<1>4. NoSecondPayment'
  BY <1>1 DEF QueueInv, NoSecondPayment
<1>. QED BY <1>1, <1>3, <1>4 DEF QueueInv

LEMMA QueueInvStep == RelayInv /\ QueueInv /\ [RelayNext]_relayVars => QueueInv'
<1> SUFFICES ASSUME RelayInv, QueueInv, [RelayNext]_relayVars PROVE QueueInv'
  OBVIOUS
<1>1. ASSUME NEW w \in Workers, Step(w) PROVE QueueInv'
  BY <1>1, LookQueue, AwayQueue, PrepareQueue, JournalQueue DEF Step
<1>2. ASSUME NEW w \in Workers, NEW r \in Requests, Post(w, r) PROVE QueueInv'
  BY <1>2, AwayQueue
<1>3. ASSUME NEW w \in Workers, Crash(w) PROVE QueueInv'
  BY <1>3, AwayQueue
<1>4. ASSUME NEW t \in mempool, Include(t) PROVE QueueInv'
  BY <1>4, IncludeQueue
<1>5. CASE \/ \E w \in Workers : LoseSession(w)
           \/ \E t \in mempool : Forget(t)
           \/ \E r \in Requests : Decay(r)
           \/ \E k \in Keys : Expire(k)
           \/ UNCHANGED relayVars
  BY <1>5, WorldQueue
<1>. QED BY <1>1, <1>2, <1>3, <1>4, <1>5 DEF RelayNext

LEMMA QueueInvInit == RelayInit => QueueInv
<1> SUFFICES ASSUME RelayInit PROVE QueueInv
  OBVIOUS
<1>1. Journaled = {} /\ receipts = {} /\ eoa = 0
  BY DEF RelayInit, Journaled
<1>2. \A w \in Workers : KnowsQueue(w)
  BY DEF RelayInit, KnowsQueue
<1>. QED BY <1>1, <1>2 DEF QueueInv, NoSecondPayment

LEMMA QueueInvariant == RelaySafetySpec => []QueueInv
BY QueueInvInit, QueueInvStep, RelayInvariant, PTL DEF RelaySafetySpec

(* Whatever is lost, retried or raced, the relayer pays for a signed nonce  *)
(* of a user again only after its first transaction was included and        *)
(* reverted.                                                                *)
THEOREM RelayPaysOnce == RelaySafetySpec => []NoSecondPayment
<1>1. QueueInv => NoSecondPayment
  BY DEF QueueInv
<1>. QED BY <1>1, QueueInvariant, PTL

-----------------------------------------------------------------------------
(* The journal as a queue: its length is the number of settled nonces and   *)
(* the outstanding one, if there is one, and the transaction of a nonce is  *)
(* at the nonce's position.                                                 *)
LEMMA QueueLength ==
  ASSUME RelayInv, QueueInv
  PROVE  /\ IsFiniteSet(Journaled)
         /\ Cardinality(Journaled) =
              IF \E t \in Journaled : t.nonce = eoa THEN eoa + 1 ELSE eoa
         /\ \A t \in Journaled : t.nonce + 1 \in 1..Cardinality(Journaled)
         /\ \A n \in 1..Cardinality(Journaled) : \E t \in Journaled : t.nonce = n - 1
<1>0. /\ eoa \in Nat
      /\ \A t \in Journaled : t.nonce \in Nat /\ t.nonce <= eoa
      /\ \A s, t \in Journaled : s.nonce = t.nonce => s = t
  BY JournaledType DEF RelayInv, RelayTypeOK, OneRowPerNonce, QueueInv, Tx
<1>1. PICK k \in Nat : k = IF \E t \in Journaled : t.nonce = eoa THEN eoa + 1 ELSE eoa
  BY <1>0
<1>2. ASSUME NEW n \in 1..k PROVE \E t \in Journaled : t.nonce = n - 1
  <2>1. CASE n - 1 = eoa
    BY <1>0, <1>1, <2>1
  <2>2. CASE n - 1 # eoa
    <3>1. n - 1 \in Nat /\ n - 1 < eoa
      BY <1>0, <1>1, <2>2
    <3>2. PICK receipt \in receipts : receipt.tx.nonce = n - 1
      BY <3>1 DEF QueueInv
    <3>. QED BY <3>2 DEF RelayInv, WriteAhead, Included
  <2>. QED BY <2>1, <2>2
<1>3. ASSUME NEW t \in Journaled PROVE t.nonce + 1 \in 1..k
  BY <1>0, <1>1
<1> DEFINE f == [n \in 1..k |-> CHOOSE t \in Journaled : t.nonce = n - 1]
<1>4. ASSUME NEW n \in 1..k PROVE f[n] \in Journaled /\ f[n].nonce = n - 1
  BY <1>2
<1>5. f \in Bijection(1..k, Journaled)
  <2>1. f \in [1..k -> Journaled]
    BY <1>4
  <2>2. ASSUME NEW m \in 1..k, NEW n \in 1..k, f[m] = f[n] PROVE m = n
    <3>1. m - 1 = n - 1
      BY <1>4, <2>2
    <3>. QED BY <3>1
  <2>3. ASSUME NEW t \in Journaled PROVE \E n \in 1..k : f[n] = t
    <3>1. t.nonce + 1 \in 1..k /\ (t.nonce + 1) - 1 = t.nonce
      BY <1>0, <1>3
    <3>2. f[t.nonce + 1] \in Journaled /\ f[t.nonce + 1].nonce = t.nonce
      BY <1>4, <3>1
    <3>3. f[t.nonce + 1] = t
      BY <1>0, <3>2
    <3>. QED BY <3>1, <3>3
  <2>. HIDE DEF f
  <2>. QED BY <2>1, <2>2, <2>3 DEF Bijection, Injection, Surjection, IsInjective
<1>6. IsFiniteSet(1..k) /\ Cardinality(1..k) = k
  BY FS_Interval
<1>7. ExistsBijection(1..k, Journaled)
  BY <1>5 DEF ExistsBijection
<1>8. IsFiniteSet(Journaled) /\ Cardinality(Journaled) = k
  BY <1>6, <1>7, FS_Bijection
<1>. QED BY <1>1, <1>2, <1>3, <1>8

(* A function on the first n numbers is a sequence of length n.             *)
LEMMA FunctionsAreSequences ==
  ASSUME NEW S, NEW n \in Nat, NEW q \in [1..n -> S]
  PROVE  q \in Seq(S) /\ Len(q) = n
OBVIOUS

Entry(t) == [req |-> t.req, by |-> t.by]

LEMMA QueueEntries ==
  ASSUME RelayInv, QueueInv
  PROVE  /\ DOMAIN Decided = 1..Cardinality(Journaled)
         /\ \A t \in Journaled : Decided[t.nonce + 1] = Entry(t)
         /\ Decided \in Seq([req : Requests, by : Workers])
         /\ Len(Decided) = Cardinality(Journaled)
<1>0. /\ Cardinality(Journaled) \in Nat
      /\ \A t \in Journaled : /\ t \in Tx /\ t.nonce \in Nat
                              /\ t.nonce + 1 \in 1..Cardinality(Journaled)
      /\ \A n \in 1..Cardinality(Journaled) : \E t \in Journaled : t.nonce = n - 1
      /\ \A s, t \in Journaled : s.nonce = t.nonce => s = t
  BY QueueLength, FS_CardinalityType, JournaledType DEF RelayInv, OneRowPerNonce, Tx
<1>1. DOMAIN Decided = 1..Cardinality(Journaled)
  BY DEF Decided
<1>2. ASSUME NEW t \in Journaled PROVE Decided[t.nonce + 1] = Entry(t)
  <2>1. (CHOOSE s \in Journaled : s.nonce = (t.nonce + 1) - 1) = t
    <3>1. (t.nonce + 1) - 1 = t.nonce
      BY <1>0
    <3>2. \E s \in Journaled : s.nonce = (t.nonce + 1) - 1
      BY <3>1
    <3>3. \A s \in Journaled : s.nonce = (t.nonce + 1) - 1 => s = t
      BY <1>0, <3>1
    <3>. QED BY <3>2, <3>3
  <2>2. t.nonce + 1 \in 1..Cardinality(Journaled)
    BY <1>0
  <2>. QED BY <2>1, <2>2 DEF Decided, Entry
<1>3. ASSUME NEW n \in 1..Cardinality(Journaled)
      PROVE  Decided[n] \in [req : Requests, by : Workers]
  <2>1. PICK t \in Journaled : t.nonce = n - 1
    BY <1>0
  <2>2. n = t.nonce + 1
    BY <2>1
  <2>3. Decided[n] = Entry(t) /\ t \in Tx
    BY <1>0, <1>2, <2>2
  <2>. QED BY <2>3 DEF Entry, Tx
<1>4. Decided \in [1..Cardinality(Journaled) -> [req : Requests, by : Workers]]
  BY <1>3 DEF Decided
<1>5. Decided \in Seq([req : Requests, by : Workers]) /\ Len(Decided) = Cardinality(Journaled)
  BY <1>0, <1>4, FunctionsAreSequences
<1>. QED BY <1>1, <1>2, <1>5

-----------------------------------------------------------------------------
(* Writing the journal decides a transaction, after all before it settled. *)
LEMMA JournalDecides ==
  ASSUME RelayInv, QueueInv, NEW w \in Workers, Journal(w)
  PROVE  \/ UNCHANGED <<Decided, eoa>>
         \/ \E t \in [req : Requests, by : Workers] : Promise!Decide(t)
<1>1. CASE UNCHANGED outbox
  BY <1>1 DEF Decided, Journaled, Journal, chainVars
<1>2. CASE lock = w /\ outbox' = outbox \cup {Row(tx[w], "submitted")}
  <2> DEFINE k == Cardinality(Journaled)
             t == tx[w]
  <2>1. /\ t \in Tx /\ t.nonce = eoa /\ eoa \in Nat
        /\ \A s \in Journaled : s.nonce < eoa
    BY <1>2, JournalsNext DEF RelayInv, RelayTypeOK
  <2>2. Journaled' = Journaled \cup {t} /\ eoa' = eoa
    BY <1>2, RowAdds DEF Journal, chainVars
  <2>3. t \notin Journaled /\ ~ \E s \in Journaled : s.nonce = eoa
    BY <2>1
  <2>4. k = eoa /\ IsFiniteSet(Journaled)
    BY <2>3, QueueLength
  <2>5. Cardinality(Journaled') = eoa + 1
    <3>1. Cardinality(Journaled \cup {t}) = k + 1
      BY <2>3, <2>4, FS_AddElement
    <3>. QED BY <2>2, <2>4, <3>1
  <2>6. /\ Decided \in Seq([req : Requests, by : Workers]) /\ Len(Decided) = eoa
        /\ Entry(t) \in [req : Requests, by : Workers]
    BY <2>1, <2>4, QueueEntries DEF Entry, Tx
  <2>7. Decided' = [n \in 1..(eoa + 1) |-> Entry(CHOOSE s \in Journaled \cup {t} : s.nonce = n - 1)]
    BY <2>2, <2>5 DEF Decided, Entry
  <2>8. ASSUME NEW n \in 1..eoa
        PROVE  (CHOOSE s \in Journaled \cup {t} : s.nonce = n - 1)
                 = (CHOOSE s \in Journaled : s.nonce = n - 1)
    <3>1. PICK s \in Journaled : s.nonce = n - 1
      BY <2>4, QueueLength
    <3>2. \A r \in Journaled \cup {t} : r.nonce = n - 1 => r = s
      BY <2>1, <3>1 DEF RelayInv, OneRowPerNonce
    <3>. QED BY <3>1, <3>2
  <2>9. (CHOOSE s \in Journaled \cup {t} : s.nonce = (eoa + 1) - 1) = t
    <3>1. (eoa + 1) - 1 = t.nonce
      BY <2>1
    <3>2. \A r \in Journaled \cup {t} : r.nonce = (eoa + 1) - 1 => r = t
      BY <2>1, <3>1
    <3>. QED BY <3>1, <3>2
  <2>10. Decided' = Append(Decided, Entry(t))
    <3> DEFINE q == Append(Decided, Entry(t))
    <3>1. /\ q \in Seq([req : Requests, by : Workers]) /\ Len(q) = eoa + 1
          /\ \A n \in 1..eoa : q[n] = Decided[n]
          /\ q[eoa + 1] = Entry(t)
      BY <2>6, AppendProperties
    <3>2. q = [n \in 1..(eoa + 1) |-> q[n]]
      BY <3>1
    <3>3. ASSUME NEW n \in 1..(eoa + 1)
          PROVE  q[n] = Entry(CHOOSE s \in Journaled \cup {t} : s.nonce = n - 1)
      <4>1. CASE n = eoa + 1
        BY <2>9, <3>1, <4>1
      <4>2. CASE n # eoa + 1
        <5>1. n \in 1..eoa
          BY <2>1, <4>2
        <5>2. Decided[n] = Entry(CHOOSE s \in Journaled : s.nonce = n - 1)
          BY <2>4, <5>1 DEF Decided, Entry
        <5>. QED BY <2>8, <3>1, <5>1, <5>2
      <4>. QED BY <4>1, <4>2
    <3>4. q = [n \in 1..(eoa + 1) |-> Entry(CHOOSE s \in Journaled \cup {t} : s.nonce = n - 1)]
      <4> HIDE DEF q
      <4>. QED BY <3>2, <3>3
    <3>. QED BY <2>7, <3>4
  <2>. QED BY <2>2, <2>6, <2>10 DEF Promise!Decide
<1>. QED BY <1>1, <1>2 DEF Journal

(* The relay implements its promise: every step decides the next            *)
(* transaction of the account, settles the one decided last, or changes     *)
(* nothing of the queue.                                                    *)
THEOREM RelayImplementsOutbox == RelaySafetySpec => OneOutstanding
<1>1. RelayInit => Promise!OutboxInit
  <2> SUFFICES ASSUME RelayInit PROVE Promise!OutboxInit
    OBVIOUS
  <2>1. Journaled = {} /\ eoa = 0
    BY DEF RelayInit, Journaled
  <2>2. Cardinality(Journaled) = 0
    BY <2>1, FS_EmptySet
  <2>3. Decided = <<>>
    BY <2>2 DEF Decided
  <2>. QED BY <2>1, <2>3 DEF Promise!OutboxInit
<1>2. RelayInv /\ QueueInv /\ [RelayNext]_relayVars =>
        [Promise!OutboxNext]_(Promise!outboxVars)
  <2> SUFFICES ASSUME RelayInv, QueueInv, [RelayNext]_relayVars
               PROVE  Promise!OutboxNext \/ UNCHANGED <<Decided, eoa>>
    BY DEF Promise!outboxVars
  <2>1. ASSUME UNCHANGED <<outbox, eoa>> PROVE UNCHANGED <<Decided, eoa>>
    BY <2>1 DEF Decided, Journaled
  <2>2. ASSUME NEW w \in Workers, Step(w)
        PROVE  Promise!OutboxNext \/ UNCHANGED <<Decided, eoa>>
    <3>1. CASE Journal(w)
      BY <3>1, JournalDecides DEF Promise!OutboxNext
    <3>2. CASE AwaitReceipt(w)
      BY <3>2, SettlingKeepsJournaled DEF AwaitReceipt, Decided, chainVars
    <3>. QED BY <2>1, <2>2, <3>1, <3>2
         DEF Step, Reserve, Simulate, Acquire, ReadLatest, ReadQueue, Rebroadcast, CheckPending,
             Prepare, Broadcast, Report, Refuse, chainVars, dbVars
  <2>3. ASSUME NEW t \in mempool, Include(t) PROVE Promise!OutboxNext
    <3>1. t \in Journaled /\ t.nonce = eoa /\ eoa' = eoa + 1 /\ UNCHANGED outbox /\ eoa \in Nat
      BY <2>3 DEF Include, dbVars, RelayInv, RelayTypeOK, WriteAhead
    <3>2. Len(Decided) = eoa + 1
      BY <3>1, QueueEntries, QueueLength
    <3>3. Decided' = Decided
      BY <3>1 DEF Decided, Journaled
    <3>. QED BY <3>1, <3>2, <3>3 DEF Promise!OutboxNext, Promise!Settle
  <2>4. ASSUME \/ \E w \in Workers, r \in Requests : Post(w, r)
               \/ \E w \in Workers : Crash(w) \/ LoseSession(w)
               \/ \E t \in mempool : Forget(t)
               \/ \E r \in Requests : Decay(r)
               \/ \E k \in Keys : Expire(k)
               \/ UNCHANGED relayVars
        PROVE  UNCHANGED <<Decided, eoa>>
    BY <2>1, <2>4
    DEF Post, Crash, LoseSession, Forget, Decay, Expire, chainVars, dbVars, relayVars
  <2>. QED BY <2>2, <2>3, <2>4 DEF RelayNext
<1>. QED BY <1>1, <1>2, RelayInvariant, QueueInvariant, PTL
     DEF RelaySafetySpec, OneOutstanding, Promise!OutboxSpec
=============================================================================
