----------------------------- MODULE Admission ------------------------------
(***************************************************************************)
(* The quota of signed requests: at most LIMIT a minute of one user and of *)
(* one client, over every serverless instance.  Both reserveRelay          *)
(* (web/lib/relay-guard.ts) and admitProfileWrite                          *)
(* (web/app/api/profile/route.ts) are this one transaction: lock the       *)
(* client, lock the user, count, insert, commit.                           *)
(*                                                                         *)
(* now() of PostgreSQL is the moment the transaction BEGAN, also in        *)
(* created_at: a transaction that waited for a lock counts, and is         *)
(* counted, as of a moment in the past.                                    *)
(***************************************************************************)
EXTENDS Naturals, FiniteSets

CONSTANTS
  Submissions,   \* requests to admit, each one transaction
  Users, Clients,
  LIMIT,         \* REQUESTS_PER_MINUTE, or the 10 of the profiles
  WINDOW,        \* the minute
  RETENTION,     \* the age at which attempts are deleted
  PATIENCE,      \* how long statement_timeout lets a transaction wait
  LastMoment     \* bound of the clock

ASSUME AdmissionAssumption ==
  /\ LIMIT \in Nat \ {0} /\ WINDOW \in Nat \ {0} /\ PATIENCE \in Nat
  /\ RETENTION \in Nat /\ RETENTION >= WINDOW + PATIENCE /\ LastMoment \in Nat

VARIABLES
  moment,    \* the clock of the database
  stage,     \* where a submission is
  began,     \* when its transaction began
  party,     \* whose it is
  counted,   \* the attempts it counted
  attempts,  \* relay_attempts or profile_requests
  recorded   \* history: every attempt there has been, also those deleted since

admissionVars == <<moment, stage, began, party, counted, attempts, recorded>>

Waiting == {"client", "user"}
Open == Waiting \cup {"count", "commit"}

Enter(s, next) == stage' = [stage EXCEPT ![s] = next]

\* The transaction is over: its locals are gone.
End(s, answer) ==
  /\ Enter(s, answer)
  /\ counted' = [counted EXCEPT ![s] = 0]

AdmissionInit ==
  /\ moment = 0
  /\ stage = [s \in Submissions |-> "new"]
  /\ began = [s \in Submissions |-> 0]
  /\ party \in [Submissions -> [user : Users, client : Clients]]
  /\ counted = [s \in Submissions |-> 0]
  /\ attempts = {} /\ recorded = {}

-----------------------------------------------------------------------------

\* The advisory locks last as long as the transaction.
HasClientLock(s) == stage[s] \in {"user", "count", "commit"}
HasUserLock(s) == stage[s] \in {"count", "commit"}

(* BEGIN. *)
Begin(s) ==
  /\ stage[s] = "new"
  /\ began' = [began EXCEPT ![s] = moment]
  /\ Enter(s, "client")
  /\ UNCHANGED <<moment, party, counted, attempts, recorded>>

LockClient(s) ==
  /\ stage[s] = "client"
  /\ \A q \in Submissions : HasClientLock(q) => party[q].client # party[s].client
  /\ Enter(s, "user")
  /\ UNCHANGED <<moment, began, party, counted, attempts, recorded>>

\* Seeded defect: only the client is locked, so one user of two clients is
\* counted twice at once.
LockUserNever(s) ==
  /\ stage[s] = "user"
  /\ Enter(s, "count")
  /\ UNCHANGED <<moment, began, party, counted, attempts, recorded>>

LockUser(s) ==
  /\ stage[s] = "user"
  /\ \A q \in Submissions : HasUserLock(q) => party[q].user # party[s].user
  /\ Enter(s, "count")
  /\ UNCHANGED <<moment, began, party, counted, attempts, recorded>>

\* What the count sees: attempts of the user or of the client, younger than a
\* minute.  There is no upper bound: a later one, of a transaction that began
\* after this one and was faster, counts too.
Recent(s) == {q \in attempts : /\ began[q] + WINDOW > began[s]
                               /\ \/ party[q].user = party[s].user
                                  \/ party[q].client = party[s].client}

Count(s) ==
  /\ stage[s] = "count"
  /\ counted' = [counted EXCEPT ![s] = Cardinality(Recent(s))]
  /\ Enter(s, "commit")
  /\ UNCHANGED <<moment, began, party, attempts, recorded>>

\* The DELETE of old attempts, seen by others once the transaction commits.
Old(s) == {q \in attempts : began[q] + RETENTION < began[s]}

(* Under the limit the attempt is inserted and committed - also when the   *)
(* nonce turns out to be taken - and the answer of COMMIT may be lost.     *)
Record(s) ==
  /\ stage[s] = "commit" /\ counted[s] < LIMIT
  /\ attempts' = (attempts \ Old(s)) \cup {s} /\ recorded' = recorded \cup {s}
  /\ \E answer \in {"admitted", "refused"} : End(s, answer)
  /\ UNCHANGED <<moment, began, party>>

TooMany(s) ==
  /\ stage[s] = "commit" /\ counted[s] >= LIMIT
  /\ End(s, "refused")
  /\ UNCHANGED <<moment, began, party, attempts, recorded>>

(* A statement that waits too long is cancelled, a connection may drop:    *)
(* the transaction is rolled back.                                         *)
RollBack(s) ==
  /\ stage[s] \in Open
  /\ End(s, "refused")
  /\ UNCHANGED <<moment, began, party, attempts, recorded>>

PassTime ==
  /\ moment < LastMoment
  /\ \A s \in Submissions : stage[s] \in Open => moment < began[s] + PATIENCE
  /\ moment' = moment + 1
  /\ UNCHANGED <<stage, began, party, counted, attempts, recorded>>

AdmissionNext ==
  \/ \E s \in Submissions :
       \/ Begin(s) \/ LockClient(s) \/ LockUser(s) \/ Count(s)
       \/ Record(s) \/ TooMany(s) \/ RollBack(s)
  \/ PassTime

AdmissionSpec == AdmissionInit /\ [][AdmissionNext]_admissionVars

-----------------------------------------------------------------------------

\* The attempts of the minute that starts with s.
MinuteFrom(s) == {q \in recorded : began[q] \in began[s] .. began[s] + WINDOW - 1}

(* In no minute are more than LIMIT attempts of one user, or of one        *)
(* client, recorded - not merely since the last count, but in every window *)
(* there has been, whatever the transactions waited for, in whatever order *)
(* they began and committed, and whatever was deleted meanwhile.           *)
QuotaHolds ==
  \A s \in recorded :
    /\ Cardinality({q \in MinuteFrom(s) : party[q].user = party[s].user}) <= LIMIT
    /\ Cardinality({q \in MinuteFrom(s) : party[q].client = party[s].client}) <= LIMIT
=============================================================================
