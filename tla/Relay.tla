------------------------------- MODULE Relay --------------------------------
(***************************************************************************)
(* The two relay routes (web/app/relay/route.ts and                        *)
(* web/app/api/market/sponsor/route.ts) from the request to the answer,    *)
(* with the reservation of the signed nonce (web/lib/relay-guard.ts) and   *)
(* the write-ahead outbox (web/lib/durable-relay.ts).                      *)
(*                                                                         *)
(* A worker is one serverless invocation; each of its steps ends at an     *)
(* await.  PostgreSQL, the RPC node and the chain are the environment: a   *)
(* worker may die at any await, its database session (and with it the      *)
(* advisory lock) may be lost, a commit may succeed and its answer be      *)
(* lost, a broadcast may be lost in either direction, and the pool of the  *)
(* chain may forget a transaction.                                         *)
(*                                                                         *)
(* Abstracted: what a request asks for.  A request is a member of a set,   *)
(* with its user and the user's nonce; the refusals made before the        *)
(* reservation leave no trace and are not steps.  The quotas are in        *)
(* Admission.                                                              *)
(***************************************************************************)
EXTENDS Naturals, FiniteSets

CONSTANTS
  Workers,     \* concurrent invocations of the routes
  Requests,    \* signed requests
  Users,
  UserOf,      \* the user of a request
  NonceOf,     \* the paymaster nonce it was signed for
  None,        \* no worker, no request, no transaction
  MaxFaults    \* bound on what goes wrong in a behaviour

ASSUME RelayAssumption ==
  /\ UserOf \in [Requests -> Users] /\ NonceOf \in [Requests -> Nat]
  /\ None \notin Workers \cup Requests /\ MaxFaults \in Nat

VARIABLES
  paid,         \* the paymaster's nonces: requests of a user already sponsored
  eoa,          \* the nonce of the relayer's account: its included transactions
  receipts,     \* the transactions included, with what came of them
  mempool,      \* transactions the node holds
  standing,     \* whether a request still stands: "failing" once its call would
                \* fail inside the application, "stale" once its deadline passed
                \* or its fee or quote moved
  reservation,  \* relay_requests: who holds a signed nonce
  outbox,       \* relayer_transactions
  lock,         \* who holds the advisory lock of the relayer
  pc, req, seen, tx,  \* where a worker is, its request, the nonce it read,
                      \* and the transaction it signed or found
  faults

chainVars == <<paid, eoa, receipts, mempool, standing>>
dbVars == <<reservation, outbox, lock>>
workerVars == <<pc, req, seen, tx>>
relayVars == <<paid, eoa, receipts, mempool, standing, reservation, outbox, lock,
               pc, req, seen, tx, faults>>

Keys == {<<UserOf[r], NonceOf[r]>> : r \in Requests}
KeyOf(r) == <<UserOf[r], NonceOf[r]>>

Tx == [nonce : Nat, req : Requests, by : Workers]
Results == {"executed", "failed", "reverted"}
Row(t, status) == [tx |-> t, status |-> status]
Journaled == {row.tx : row \in outbox}
Included == {receipt.tx : receipt \in receipts}

(* Where a worker that has reserved its nonce can be. *)
Holding == {"simulate", "connect", "latest", "queue", "rebroadcast", "pending",
            "prepare", "journal", "broadcast", "report", "receipt", "refuse"}

(* Every variable has its type. *)
RelayTypeOK ==
  /\ paid \in [Users -> Nat] /\ eoa \in Nat
  /\ receipts \subseteq [tx : Tx, result : Results]
  /\ mempool \subseteq Tx
  /\ standing \in [Requests -> {"good", "failing", "stale"}]
  /\ reservation \in [Keys -> [req : Requests \cup {None}, status : {"pending", "submitted"}]]
  /\ outbox \subseteq [tx : Tx, status : {"submitted", "confirmed", "reverted"}]
  /\ lock \in Workers \cup {None}
  /\ pc \in [Workers -> Holding \cup {"idle", "reserve"}]
  /\ req \in [Workers -> Requests \cup {None}] /\ seen \in [Workers -> Nat]
  /\ tx \in [Workers -> Tx \cup {None}]
  /\ faults \in 0..MaxFaults

Nothing == [req |-> None, status |-> "pending"]

RelayInit ==
  /\ paid = [u \in Users |-> 0] /\ eoa = 0
  /\ receipts = {} /\ mempool = {}
  /\ standing = [r \in Requests |-> "good"]
  /\ reservation = [k \in Keys |-> Nothing]
  /\ outbox = {} /\ lock = None
  /\ pc = [w \in Workers |-> "idle"] /\ req = [w \in Workers |-> None]
  /\ seen = [w \in Workers |-> 0] /\ tx = [w \in Workers |-> None]
  /\ faults = 0

-----------------------------------------------------------------------------
(* The request would be sponsored if it were included now: the signed nonce *)
(* is the user's next one, and fee, quote and deadline still stand.  It     *)
(* simulates if its call would succeed as well.                             *)
Executable(r) == standing[r] # "stale" /\ NonceOf[r] = paid[UserOf[r]]
Simulates(r) == Executable(r) /\ standing[r] = "good"

At(w, label) == pc[w] = label
Goto(w, label) == pc' = [pc EXCEPT ![w] = label]
Return(w) ==      \* the invocation ends and its locals with it
  /\ Goto(w, "idle")
  /\ req' = [req EXCEPT ![w] = None]
  /\ seen' = [seen EXCEPT ![w] = 0]
  /\ tx' = [tx EXCEPT ![w] = None]
Fault == faults < MaxFaults /\ faults' = faults + 1
Unlock(w) == lock' = IF lock = w THEN None ELSE lock

(* The reads of the route: the request is well formed, authentic, of a      *)
(* registered application, and signed for the nonce, fee and quote of now.  *)
Post(w, r) ==
  /\ At(w, "idle") /\ Executable(r)
  /\ req' = [req EXCEPT ![w] = r]
  /\ Goto(w, "reserve")
  /\ UNCHANGED <<chainVars, dbVars, seen, tx, faults>>

(* One signed nonce is reserved by at most one live invocation. *)
Reserve(w) ==
  /\ At(w, "reserve")
  /\ LET k == KeyOf(req[w]) IN
     \/ /\ reservation[k].req = None
        /\ reservation' = [reservation EXCEPT ![k] = [req |-> req[w], status |-> "pending"]]
        /\ Goto(w, "simulate") /\ UNCHANGED <<req, seen, tx>>
     \/ reservation[k].req # None /\ Return(w) /\ UNCHANGED reservation
  /\ UNCHANGED <<chainVars, outbox, lock, faults>>

Simulate(w) ==
  /\ At(w, "simulate")
  /\ Goto(w, IF Simulates(req[w]) THEN "connect" ELSE "refuse")
  /\ UNCHANGED <<chainVars, dbVars, req, seen, tx, faults>>

(* pg_advisory_lock on a session of its own; it waits, and may time out. *)
Acquire(w) ==
  /\ At(w, "connect")
  /\ \/ lock = None /\ lock' = w /\ Goto(w, "latest")
     \/ lock # None /\ UNCHANGED lock /\ Goto(w, "refuse")
  /\ UNCHANGED <<chainVars, reservation, outbox, req, seen, tx, faults>>

ReadLatestPending(w) ==
  /\ At(w, "latest")
  /\ seen' = [seen EXCEPT ![w] = IF \E t \in mempool : t.nonce = eoa THEN eoa + 1 ELSE eoa]
  /\ Goto(w, "queue")
  /\ UNCHANGED <<chainVars, dbVars, req, tx, faults>>

ReadLatest(w) ==
  /\ At(w, "latest")
  /\ seen' = [seen EXCEPT ![w] = eoa]
  /\ Goto(w, "queue")
  /\ UNCHANGED <<chainVars, dbVars, req, tx, faults>>

(* The oldest journaled transaction the chain had not included.  The query *)
(* runs on the session of the lock: it fails when that session was lost.   *)
Outstanding(n) == {t \in Journaled : t.nonce >= n}
Oldest(T) == CHOOSE t \in T : \A s \in T : t.nonce <= s.nonce

ReadQueueOnly(w) ==
  /\ At(w, "queue")
  /\ Goto(w, IF lock = w /\ Outstanding(seen[w]) = {} THEN "pending" ELSE "refuse")
  /\ UNCHANGED <<chainVars, dbVars, req, seen, tx, faults>>

ReadQueue(w) ==
  /\ At(w, "queue")
  /\ \/ lock # w /\ Goto(w, "refuse") /\ UNCHANGED tx
     \/ /\ lock = w /\ Outstanding(seen[w]) = {}
        /\ Goto(w, "pending") /\ UNCHANGED tx
     \/ /\ lock = w /\ Outstanding(seen[w]) # {}
        /\ tx' = [tx EXCEPT ![w] = Oldest(Outstanding(seen[w]))]
        /\ Goto(w, "rebroadcast")
  /\ UNCHANGED <<chainVars, dbVars, req, seen, faults>>

(* The node takes a transaction whose nonce is not used, or it is lost on   *)
(* the way.  An error and a lost answer look alike to the worker.           *)
Accept(t) == mempool' = IF t.nonce >= eoa THEN mempool \cup {t} ELSE mempool
Transmit(t) ==
  \/ Accept(t) /\ UNCHANGED faults
  \/ Fault /\ UNCHANGED mempool

Rebroadcast(w) ==
  /\ At(w, "rebroadcast")
  /\ Transmit(tx[w])
  /\ Goto(w, "refuse")
  /\ UNCHANGED <<paid, eoa, receipts, standing, dbVars, req, seen, tx>>

(* The node's pending nonce counts what it holds beyond the latest. *)
Pending == eoa + (IF \E t \in mempool : t.nonce = eoa THEN 1 ELSE 0)

CheckPending(w) ==
  /\ At(w, "pending")
  /\ Goto(w, IF Pending = seen[w] THEN "prepare" ELSE "refuse")
  /\ UNCHANGED <<chainVars, dbVars, req, seen, tx, faults>>

PrepareBlind(w) ==
  /\ At(w, "prepare")
  /\ tx' = [tx EXCEPT ![w] = [nonce |-> seen[w], req |-> req[w], by |-> w]]
  /\ Goto(w, "journal")
  /\ UNCHANGED <<chainVars, dbVars, req, seen, faults>>

(* Preparing estimates the gas of the call, which fails with the call; the  *)
(* signed bytes are the identity of the transaction.                        *)
Prepare(w) ==
  /\ At(w, "prepare")
  /\ \/ /\ Executable(req[w])
        /\ tx' = [tx EXCEPT ![w] = [nonce |-> seen[w], req |-> req[w], by |-> w]]
        /\ Goto(w, "journal")
     \/ ~Executable(req[w]) /\ Goto(w, "refuse") /\ UNCHANGED tx
  /\ UNCHANGED <<chainVars, dbVars, req, seen, faults>>

(* The write-ahead INSERT, on the session that holds the lock and against  *)
(* the unique index on the nonce.  It may commit and its answer be lost    *)
(* with the session: the worker then believes it failed.                   *)
NonceTaken(n) == \E t \in Journaled : t.nonce = n

JournalSwallowed(w) ==
  /\ At(w, "journal")
  /\ outbox' = IF lock = w /\ ~NonceTaken(tx[w].nonce)
               THEN outbox \cup {Row(tx[w], "submitted")} ELSE outbox
  /\ Goto(w, "broadcast")
  /\ UNCHANGED <<chainVars, reservation, lock, req, seen, tx, faults>>

JournalUnfenced(w) ==
  /\ At(w, "journal")
  /\ outbox' = outbox \cup {Row(tx[w], "submitted")}
  /\ Goto(w, "broadcast")
  /\ UNCHANGED <<chainVars, reservation, lock, req, seen, tx, faults>>

Journal(w) ==
  /\ At(w, "journal")
  /\ \/ /\ lock = w /\ ~NonceTaken(tx[w].nonce)
        /\ outbox' = outbox \cup {Row(tx[w], "submitted")}
        /\ \/ Goto(w, "broadcast") /\ UNCHANGED <<lock, faults>>
           \/ Fault /\ lock' = None /\ Goto(w, "refuse")
     \/ /\ lock # w \/ NonceTaken(tx[w].nonce)
        /\ Goto(w, "refuse") /\ UNCHANGED <<outbox, lock, faults>>
  /\ UNCHANGED <<chainVars, reservation, req, seen, tx>>

(* The first broadcast, its error swallowed, and the release of the lock. *)
Broadcast(w) ==
  /\ At(w, "broadcast")
  /\ Transmit(tx[w])
  /\ Unlock(w)
  /\ Goto(w, "report")
  /\ UNCHANGED <<paid, eoa, receipts, standing, reservation, outbox, req, seen, tx>>

(* reservation.submitted, guarded by the request; its errors are swallowed. *)
Report(w) ==
  /\ At(w, "report")
  /\ LET k == KeyOf(req[w]) IN
     \/ /\ reservation[k].req = req[w]
        /\ reservation' = [reservation EXCEPT ![k] = [req |-> req[w], status |-> "submitted"]]
        /\ UNCHANGED faults
     \/ reservation[k].req # req[w] /\ UNCHANGED <<reservation, faults>>
     \/ Fault /\ UNCHANGED reservation
  /\ Goto(w, "receipt")
  /\ UNCHANGED <<chainVars, outbox, lock, req, seen, tx>>

SettledRaw(receipt) == receipt.result

(* The receipt and the status of the row, or 45 seconds without a receipt. *)
Settled(receipt) == IF receipt.result = "reverted" THEN "reverted" ELSE "confirmed"

AwaitReceipt(w) ==
  /\ At(w, "receipt")
  /\ \/ \E receipt \in receipts :
          /\ receipt.tx = tx[w]
          /\ outbox' = {IF row.tx = tx[w] THEN Row(row.tx, Settled(receipt)) ELSE row : row \in outbox}
     \/ UNCHANGED outbox
  /\ Return(w)
  /\ UNCHANGED <<chainVars, reservation, lock, faults>>

(* The catch of the route and the finally of the outbox: the lock goes with *)
(* its session and the reservation is freed, if the database answers.       *)
Refuse(w) ==
  /\ At(w, "refuse")
  /\ LET k == KeyOf(req[w]) IN
     \/ /\ reservation' = IF reservation[k].req = req[w]
                          THEN [reservation EXCEPT ![k] = Nothing] ELSE reservation
        /\ UNCHANGED faults
     \/ Fault /\ UNCHANGED reservation
  /\ Unlock(w) /\ Return(w)
  /\ UNCHANGED <<chainVars, outbox>>

-----------------------------------------------------------------------------
(* The environment. *)

Crash(w) ==
  /\ ~At(w, "idle") /\ Fault
  /\ Unlock(w) /\ Return(w)
  /\ UNCHANGED <<chainVars, reservation, outbox>>

(* The server ends the session of the lock while its owner goes on. *)
LoseSession(w) ==
  /\ lock = w /\ Fault
  /\ lock' = None
  /\ UNCHANGED <<chainVars, reservation, outbox, workerVars>>

(* The chain includes the next transaction of the relayer's account: a     *)
(* request that is not executable any more reverts, another is sponsored   *)
(* and succeeds or fails inside the application.                           *)
Include(t) ==
  /\ t \in mempool /\ t.nonce = eoa
  /\ eoa' = eoa + 1
  /\ mempool' = {s \in mempool : s.nonce > eoa}
  /\ \/ /\ Executable(t.req)
        /\ paid' = [paid EXCEPT ![UserOf[t.req]] = @ + 1]
        /\ receipts' = receipts \cup
             {[tx |-> t, result |-> IF Simulates(t.req) THEN "executed" ELSE "failed"]}
     \/ /\ ~Executable(t.req)
        /\ receipts' = receipts \cup {[tx |-> t, result |-> "reverted"]}
        /\ UNCHANGED paid
  /\ UNCHANGED <<standing, dbVars, workerVars, faults>>

Forget(t) ==
  /\ t \in mempool /\ Fault
  /\ mempool' = mempool \ {t}
  /\ UNCHANGED <<paid, eoa, receipts, standing, dbVars, workerVars>>

(* What the call relies on moves, or its deadline, fee or quote passes. *)
Decay(r) ==
  /\ \/ standing[r] = "good" /\ standing' = [standing EXCEPT ![r] = "failing"]
     \/ standing[r] # "stale" /\ standing' = [standing EXCEPT ![r] = "stale"]
  /\ Fault
  /\ UNCHANGED <<paid, eoa, receipts, mempool, dbVars, workerVars>>

(* A reservation lasts ten minutes, which no invocation outlives: a lock    *)
(* waits 15 seconds at most and a receipt 45.                               *)
Expire(k) ==
  /\ reservation[k].req # None
  /\ \A w \in Workers : ~(pc[w] \in Holding /\ KeyOf(req[w]) = k)
  /\ reservation' = [reservation EXCEPT ![k] = Nothing]
  /\ UNCHANGED <<chainVars, outbox, lock, workerVars, faults>>

-----------------------------------------------------------------------------
Step(w) ==
  \/ Reserve(w) \/ Simulate(w) \/ Acquire(w) \/ ReadLatest(w) \/ ReadQueue(w)
  \/ Rebroadcast(w) \/ CheckPending(w) \/ Prepare(w) \/ Journal(w) \/ Broadcast(w)
  \/ Report(w) \/ AwaitReceipt(w) \/ Refuse(w)

RelayNext ==
  \/ \E w \in Workers : Step(w) \/ Crash(w) \/ LoseSession(w)
  \/ \E w \in Workers, r \in Requests : Post(w, r)
  \/ \E t \in mempool : Include(t) \/ Forget(t)
  \/ \E r \in Requests : Decay(r)
  \/ \E k \in Keys : Expire(k)

(* Fairness: an invocation the platform keeps running reaches its next     *)
(* await; users keep sending requests that can be executed; the chain      *)
(* includes what it holds; reservations expire.                            *)
RelayFairness ==
  /\ \A w \in Workers : WF_relayVars(Step(w))
  /\ WF_relayVars(\E w \in Workers, r \in Requests : Post(w, r))
  /\ WF_relayVars(\E t \in mempool : Include(t))
  /\ \A k \in Keys : WF_relayVars(Expire(k))

RelaySafetySpec == RelayInit /\ [][RelayNext]_relayVars
RelaySpec == RelaySafetySpec /\ RelayFairness

-----------------------------------------------------------------------------
(* Write-ahead: the network never holds a transaction the database does    *)
(* not, whatever session, answer or worker was lost (durable-relay.ts:43). *)
WriteAhead == mempool \cup Included \subseteq Journaled

(* Two signatures never compete for one nonce of the relayer: everything   *)
(* journaled, held by the network or included under a nonce is the same    *)
(* bytes (durable-relay.ts:14).                                            *)
OneTransactionPerNonce ==
  \A s, t \in Journaled \cup mempool \cup Included : s.nonce = t.nonce => s = t

(* The relayer does not pay for a user's signed nonce twice: a second      *)
(* transaction for it exists only if the first one was included and        *)
(* reverted, because its deadline, fee or quote had passed.                *)
NoSecondPayment ==
  \A s, t \in Journaled :
    (s.nonce < t.nonce /\ KeyOf(s.req) = KeyOf(t.req)) =>
      [tx |-> s, result |-> "reverted"] \in receipts

(* A journaled transaction does not stay in the database: whatever was     *)
(* lost, it is included as long as some request can be executed and those  *)
(* that pass the route's reads pass its simulation too.                    *)
Unsettled == \E t \in Journaled : t.nonce = eoa
Traffic ==
  /\ \E r \in Requests : Executable(r)
  /\ \A r \in Requests : Executable(r) => standing[r] = "good"
OutboxDrains == Unsettled ~> (~Unsettled \/ ~Traffic)

(* The relay implements Outbox: the queue is the journal in the order of   *)
(* its nonces, and a position of the queue is a nonce (durable-relay.ts:14 *)
(* "One outstanding transaction per EOA").                                 *)
Decided ==
  [n \in 1..Cardinality(Journaled) |->
     LET t == CHOOSE t \in Journaled : t.nonce = n - 1 IN [req |-> t.req, by |-> t.by]]

Promise == INSTANCE Outbox WITH
  Transactions <- [req : Requests, by : Workers], queue <- Decided, settled <- eoa
OneOutstanding == Promise!OutboxSpec
=============================================================================
