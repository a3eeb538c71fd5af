------------------------------ MODULE ChainDao ------------------------------
(***************************************************************************)
(* The DAO of one deed (contracts/parent/VoidChainDao.sol) and the panel   *)
(* of one browser that uses it (web/app/DaoPanel.tsx).                     *)
(*                                                                         *)
(* VOID is never locked: a vote weighs what its wallet held when the block *)
(* before the proposal ended, while the VOID moves on.  The panel shows    *)
(* what it read when it last refreshed, simulates a call, sends it, and    *)
(* the call meets the state of the block that includes it.  Other clients  *)
(* of the DAO call it whenever they like.                                  *)
(*                                                                         *)
(* Abstracted: a block is a unit of time; VOID moves one unit at a time;   *)
(* a proposal either has no action or one its target accepts or refuses    *)
(* when it is executed; the reads of one refresh are of one block.         *)
(***************************************************************************)
EXTENDS Naturals, Sequences, FiniteSets, Functions

CONSTANTS
  Voters, Reserve,         \* the wallets; the protocol accounts, excluded
  VOTING_PERIOD,           \* 5 days, in blocks
  QUORUM_BPS, BPS,
  MaxBlock, MaxProposals, MaxSales   \* bounds

ASSUME ChainDaoAssumption ==
  /\ Reserve \notin Voters /\ IsFiniteSet(Voters)
  /\ VOTING_PERIOD \in Nat \ {0} /\ QUORUM_BPS \in 1 .. BPS
  /\ MaxBlock \in Nat /\ MaxProposals \in Nat /\ MaxSales \in Nat

VARIABLES
  height,      \* block.number, and block.timestamp
  wallets,     \* the VOID of every account
  checkpoint,  \* the wallets when the block before ended
  deed,        \* the holder and ownershipEpoch
  proposals, hasVoted,
  account,     \* of the browser
  panel,       \* the proposals as the panel shows them
  call         \* the call the panel has sent, not yet in a block

daoVars == <<height, wallets, checkpoint, deed, proposals, hasVoted, account, panel, call>>

NoCall == [name |-> "none"]

DaoInit ==
  /\ height = 1
  /\ wallets = [a \in Voters \cup {Reserve} |-> IF a = Reserve THEN 0 ELSE 1]
  /\ checkpoint = wallets
  /\ deed \in [holder : Voters, epoch : {0}]
  /\ proposals = <<>> /\ hasVoted = <<>>
  /\ account \in Voters
  /\ panel = <<>> /\ call = NoCall

-----------------------------------------------------------------------------
(* The contract. *)

\* The wallets of the voters together: the supply without the reserve's.
PastTotalSupply(balances) == SumFunctionOnSet(balances, Voters)

PortionCeil(amount, bps) == (amount * bps + BPS - 1) \div BPS

State(id) ==
  LET p == proposals[id]
      turnout == p.forVotes + p.againstVotes
  IN  CASE p.executed -> "Executed"
        [] ~p.executed /\ deed.epoch # p.epoch -> "Defeated"
        [] ~p.executed /\ deed.epoch = p.epoch /\ height <= p.deadline -> "Active"
        [] OTHER -> IF /\ turnout >= PortionCeil(p.snapshotSupply, QUORUM_BPS)
                       /\ p.forVotes > p.againstVotes
                    THEN "Succeeded" ELSE "Defeated"

(* propose: the snapshot is the checkpoint of the block before - kept with *)
(* the proposal, which is what getPastVotes is asked for afterwards.       *)
Propose(v) ==
  /\ deed.holder = v
  /\ PastTotalSupply(checkpoint) > 0
  /\ Len(proposals) < MaxProposals
  /\ proposals' = Append(proposals,
       [proposer |-> v, snapshot |-> checkpoint, snapshotSupply |-> PastTotalSupply(checkpoint),
        deadline |-> height + VOTING_PERIOD, forVotes |-> 0, againstVotes |-> 0,
        epoch |-> deed.epoch, executed |-> FALSE])
  /\ hasVoted' = Append(hasVoted, {})

MayVote(v, id) ==
  /\ height <= proposals[id].deadline
  /\ v \notin hasVoted[id]
  /\ proposals[id].snapshot[v] > 0

AddVotes(id, support, weight) ==
  proposals' = IF support THEN [proposals EXCEPT ![id].forVotes = @ + weight]
                          ELSE [proposals EXCEPT ![id].againstVotes = @ + weight]

\* Seeded defect: a vote weighs what the wallet holds now.
CastVoteLive(v, id, support) ==
  /\ height <= proposals[id].deadline
  /\ v \notin hasVoted[id]
  /\ wallets[v] > 0
  /\ hasVoted' = [hasVoted EXCEPT ![id] = @ \cup {v}]
  /\ AddVotes(id, support, wallets[v])

(* castVote. *)
CastVote(v, id, support) ==
  /\ MayVote(v, id)
  /\ hasVoted' = [hasVoted EXCEPT ![id] = @ \cup {v}]
  /\ AddVotes(id, support, proposals[id].snapshot[v])

(* execute, by anyone, and the actions accept. *)
Execute(id) ==
  /\ State(id) = "Succeeded"
  /\ proposals' = [proposals EXCEPT ![id].executed = TRUE]
  /\ UNCHANGED hasVoted

\* The calls there are, and what one does to the DAO.
Calls ==
  {[name |-> "propose"]}
    \cup [name : {"castVote"}, id : DOMAIN proposals, support : BOOLEAN]
    \cup [name : {"execute"}, id : DOMAIN proposals]

Effect(v, c) ==
  \/ c.name = "propose" /\ Propose(v)
  \/ c.name = "castVote" /\ CastVote(v, c.id, c.support)
  \/ c.name = "execute" /\ Execute(c.id)

Accepted(v, c) ==
  \/ c.name = "propose" /\ deed.holder = v
  \/ c.name = "castVote" /\ MayVote(v, c.id)
  \/ c.name = "execute" /\ State(c.id) = "Succeeded"

-----------------------------------------------------------------------------
(* The panel. *)

Rows(v) == [id \in DOMAIN proposals |-> [state |-> State(id), voted |-> v \in hasVoted[id]]]

(* The panel opens, or the wallet switches accounts.  There is no timer.   *)
RefreshPanel(v) ==
  /\ account' = v
  /\ panel' = Rows(v)
  /\ UNCHANGED <<height, wallets, checkpoint, deed, proposals, hasVoted, call>>

\* The buttons the panel offers.
Offered(c) ==
  \/ c.name = "propose"
  \/ /\ c.name = "castVote" /\ c.id \in DOMAIN panel
     /\ panel[c.id].state = "Active" /\ ~panel[c.id].voted
  \/ /\ c.name = "execute" /\ c.id \in DOMAIN panel
     /\ panel[c.id].state = "Succeeded"

(* send: a call that would revert now, or be refused, is not sent. *)
SendCall(c) ==
  /\ call = NoCall /\ Offered(c)
  /\ Accepted(account, c)
  /\ call' = [from |-> account, request |-> c]
  /\ UNCHANGED <<height, wallets, checkpoint, deed, proposals, hasVoted, account, panel>>

(* The call is included; the panel refreshes for its sender. *)
Included ==
  /\ call # NoCall
  /\ Effect(call.from, call.request)
  /\ call' = NoCall
  /\ UNCHANGED <<height, wallets, checkpoint, deed, account>>
  /\ \E v \in {call.from} : panel' = Rows(v)'

(* It reverts - by now, or because its target refuses the action - or the  *)
(* user declines to sign.                                                  *)
Reverted ==
  /\ call # NoCall
  /\ call' = NoCall
  /\ UNCHANGED <<height, wallets, checkpoint, deed, proposals, hasVoted, account, panel>>

-----------------------------------------------------------------------------
(* The rest of the world. *)

OtherClient(v, c) ==
  /\ Effect(v, c)
  /\ UNCHANGED <<height, wallets, checkpoint, deed, account, panel, call>>

TransferVoid(a, b) ==
  /\ wallets[a] > 0
  /\ wallets' = [wallets EXCEPT ![a] = @ - 1, ![b] = @ + 1]
  /\ UNCHANGED <<height, checkpoint, deed, proposals, hasVoted, account, panel, call>>

SellDeed(v) ==
  /\ deed.holder # v /\ deed.epoch < MaxSales
  /\ deed' = [holder |-> v, epoch |-> deed.epoch + 1]
  /\ UNCHANGED <<height, wallets, checkpoint, proposals, hasVoted, account, panel, call>>

NextBlock ==
  /\ height < MaxBlock
  /\ height' = height + 1
  /\ checkpoint' = wallets
  /\ UNCHANGED <<wallets, deed, proposals, hasVoted, account, panel, call>>

DaoNext ==
  \/ \E v \in Voters : RefreshPanel(v) \/ SellDeed(v) \/ \E c \in Calls : OtherClient(v, c)
  \/ \E c \in Calls : SendCall(c)
  \/ Included \/ Reverted
  \/ \E a \in DOMAIN wallets : \E b \in DOMAIN wallets \ {a} : TransferVoid(a, b)
  \/ NextBlock

DaoSpec == DaoInit /\ [][DaoNext]_daoVars

-----------------------------------------------------------------------------

(* However VOID moves between the wallets and the reserve while a vote is  *)
(* open, no VOID votes twice: the votes of a proposal are at most the      *)
(* circulation its quorum is measured against, and a proposal has been     *)
(* executed only on a majority of a quorum of it.  What may still be       *)
(* executed was proposed by the present holder of the deed.                *)
NoVoidVotesTwice ==
  \A id \in DOMAIN proposals :
    LET p == proposals[id]
    IN  /\ p.forVotes + p.againstVotes <= p.snapshotSupply
        /\ p.executed => /\ p.forVotes > p.againstVotes
                         /\ p.forVotes + p.againstVotes >= PortionCeil(p.snapshotSupply, QUORUM_BPS)
        /\ State(id) = "Succeeded" => deed.holder = p.proposer
=============================================================================
