------------------------------- MODULE Outbox -------------------------------
(***************************************************************************)
(* What the relay promises about the transactions of its one account: they *)
(* are decided one at a time and settle in the order in which they were    *)
(* decided.  Relay implements it with a journal in PostgreSQL, a lock that *)
(* may be lost and a network that may lose or repeat what it is given.     *)
(***************************************************************************)
EXTENDS Naturals, Sequences

CONSTANT Transactions

VARIABLES
  queue,    \* the transactions decided, in the order of their nonces
  settled   \* how many of them the chain has included

outboxVars == <<queue, settled>>

OutboxInit == queue = <<>> /\ settled = 0

(* One outstanding transaction: the next is decided once all have settled. *)
Decide(t) ==
  /\ settled = Len(queue)
  /\ queue' = Append(queue, t)
  /\ UNCHANGED settled

Settle ==
  /\ settled < Len(queue)
  /\ settled' = settled + 1
  /\ UNCHANGED queue

OutboxNext == (\E t \in Transactions : Decide(t)) \/ Settle

OutboxSpec == OutboxInit /\ [][OutboxNext]_outboxVars
=============================================================================
