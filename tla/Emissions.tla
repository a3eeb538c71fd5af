----------------------------- MODULE Emissions ------------------------------
(***************************************************************************)
(* How VOID leaves the emission vault: the proposer schedules an operation *)
(* in the timelock (contracts/parent/VoidProtocolTimelock.sol); when it is *)
(* due anybody executes it, before it expires; it schedules the emission   *)
(* in the vault (contracts/genesis/VoidEmissionVaultV11.sol), whose        *)
(* governor the timelock is; when that is due anybody executes it, in an   *)
(* epoch with room for it - and here nothing expires or is cancelled.      *)
(*                                                                         *)
(* Abstracted: an operation is an emission, told from others by its        *)
(* amount, recipient and salt, with one amount.                            *)
(***************************************************************************)
EXTENDS Naturals, FiniteSets, Functions

CONSTANTS
  Emissions,      \* the operations, which are also the emissions
  Amount,         \* [Emissions -> amounts]
  DELAY, GRACE_PERIOD,                    \* of the timelock
  VAULT_DELAY, EPOCH_LENGTH, EPOCH_CAP,   \* of the vault
  Fund,           \* the VOID of the vault
  LastHour,       \* bound of the clock
  MaxDecisions    \* bound: how often one operation is scheduled

ASSUME EmissionsAssumption ==
  /\ IsFiniteSet(Emissions) /\ Amount \in [Emissions -> Nat \ {0}]
  /\ DELAY \in Nat \ {0} /\ GRACE_PERIOD \in Nat
  /\ VAULT_DELAY \in Nat \ {0} /\ EPOCH_LENGTH \in Nat \ {0} /\ EPOCH_CAP \in Nat \ {0}
  /\ Fund \in Nat /\ LastHour \in Nat \ {0} /\ MaxDecisions \in Nat

VARIABLES
  hour,       \* block.timestamp
  scheduled,  \* of the timelock: when an operation is due, 0 if it is not there
  etaOf,      \* of the vault
  emittedInEpoch,
  vault,      \* the VOID still in the vault
  decisions,  \* history: for each operation, when it was scheduled
  emitted     \* history: what has left: operation, ordinal, time

emissionVars == <<hour, scheduled, etaOf, emittedInEpoch, vault, decisions, emitted>>

EmissionsInit ==
  /\ hour = 1
  /\ scheduled = [e \in Emissions |-> 0] /\ etaOf = scheduled
  /\ emittedInEpoch = [k \in 0 .. LastHour \div EPOCH_LENGTH |-> 0]
  /\ vault = Fund
  /\ decisions = [e \in Emissions |-> {}]
  /\ emitted = {}

-----------------------------------------------------------------------------
(* The timelock. *)

ScheduleOperation(e) ==
  /\ scheduled[e] = 0
  /\ Cardinality(decisions[e]) < MaxDecisions
  /\ scheduled' = [scheduled EXCEPT ![e] = hour + DELAY]
  /\ decisions' = [decisions EXCEPT ![e] = @ \cup {hour}]
  /\ UNCHANGED <<hour, etaOf, emittedInEpoch, vault, emitted>>

(* Also of an operation that has expired, which cannot be scheduled again  *)
(* before.                                                                 *)
CancelOperation(e) ==
  /\ scheduled[e] # 0
  /\ scheduled' = [scheduled EXCEPT ![e] = 0]
  /\ decisions' = [decisions EXCEPT ![e] = @ \ {scheduled[e] - DELAY}]
  /\ UNCHANGED <<hour, etaOf, emittedInEpoch, vault, emitted>>

(* execute, and the call it makes: schedule of the vault.  If that reverts *)
(* - the emission is there already, or more than any epoch may emit - so   *)
(* does this.                                                              *)
ExecuteOperation(e) ==
  /\ scheduled[e] # 0 /\ hour >= scheduled[e]
  /\ hour <= scheduled[e] + GRACE_PERIOD
  /\ Amount[e] <= EPOCH_CAP /\ etaOf[e] = 0
  /\ scheduled' = [scheduled EXCEPT ![e] = 0]
  /\ etaOf' = [etaOf EXCEPT ![e] = hour + VAULT_DELAY]
  /\ UNCHANGED <<hour, emittedInEpoch, vault, decisions, emitted>>

-----------------------------------------------------------------------------
(* The vault. *)

Epoch == hour \div EPOCH_LENGTH

TimesEmitted(e) == Cardinality({x \in emitted : x.emission = e})

\* Seeded defect: the emission stays scheduled.
EmitAgain(e) ==
  /\ etaOf[e] # 0 /\ hour >= etaOf[e]
  /\ Amount[e] <= EPOCH_CAP - emittedInEpoch[Epoch]
  /\ Amount[e] <= vault
  /\ emittedInEpoch' = [emittedInEpoch EXCEPT ![Epoch] = @ + Amount[e]]
  /\ vault' = vault - Amount[e]
  /\ emitted' = emitted \cup {[emission |-> e, nth |-> TimesEmitted(e) + 1, at |-> hour]}
  /\ UNCHANGED <<hour, scheduled, etaOf, decisions>>

Emit(e) ==
  /\ etaOf[e] # 0 /\ hour >= etaOf[e]
  /\ Amount[e] <= EPOCH_CAP - emittedInEpoch[Epoch]
  /\ Amount[e] <= vault
  /\ etaOf' = [etaOf EXCEPT ![e] = 0]
  /\ emittedInEpoch' = [emittedInEpoch EXCEPT ![Epoch] = @ + Amount[e]]
  /\ vault' = vault - Amount[e]
  /\ emitted' = emitted \cup {[emission |-> e, nth |-> TimesEmitted(e) + 1, at |-> hour]}
  /\ UNCHANGED <<hour, scheduled, decisions>>

-----------------------------------------------------------------------------

Hour ==
  /\ hour < LastHour
  /\ hour' = hour + 1
  /\ UNCHANGED <<scheduled, etaOf, emittedInEpoch, vault, decisions, emitted>>

EmissionsNext ==
  \/ \E e \in Emissions :
       ScheduleOperation(e) \/ CancelOperation(e) \/ ExecuteOperation(e) \/ Emit(e)
  \/ Hour

EmissionsSpec == EmissionsInit /\ [][EmissionsNext]_emissionVars

-----------------------------------------------------------------------------

\* The VOID of a set of emissions.
Volume(S) == SumFunctionOnSet([x \in S |-> Amount[x.emission]], S)

(* The n-th time an emission leaves, the proposer has decided it n times   *)
(* and not taken it back, each at least both delays ago: nothing is        *)
(* emitted twice for one decision, and none that was cancelled in time.    *)
(* In one epoch at most EPOCH_CAP leaves, though executions are late and   *)
(* pile up at its end and at the start of the next.                        *)
EmissionsArePaced ==
  /\ \A x \in emitted :
       x.nth <= Cardinality({d \in decisions[x.emission] : d + DELAY + VAULT_DELAY <= x.at})
  /\ \A k \in DOMAIN emittedInEpoch :
       Volume({x \in emitted : x.at \div EPOCH_LENGTH = k}) <= EPOCH_CAP

(* "Timelocked reserve with a hard rolling-epoch emission ceiling"         *)
(* (VoidEmissionVaultV11.sol:8): at most EPOCH_CAP leaves in any           *)
(* EPOCH_LENGTH in a row, wherever it starts.                              *)
RollingCeiling ==
  \A start \in 1 .. LastHour :
    Volume({x \in emitted : x.at \in start .. start + EPOCH_LENGTH - 1}) <= EPOCH_CAP
=============================================================================
