--------------------------- MODULE ContractProofs ---------------------------
(***************************************************************************)
(* What the contracts beside the runtime promise - the vaults of VOID, the *)
(* price of VOID, the DAOs, the claims, soft staking and the market of     *)
(* deeds - for any number of users, deeds, hours and calls.                *)
(*                                                                         *)
(* Each section is one contract: its inductive invariant, one lemma for    *)
(* each call that moves it, and the theorem.                               *)
(***************************************************************************)
EXTENDS Emissions, Keepers, ChainDao, Claims, SoftStaking, NftVault,
        Sums, SequenceTheorems

-----------------------------------------------------------------------------
(* Emissions. *)

(* The decision on e that is still in the timelock; those that have been   *)
(* executed; those of them that were decided both delays before a moment.  *)
Undecided(e) == IF scheduled[e] # 0 THEN {scheduled[e] - DELAY} ELSE {}
Executed(e) == decisions[e] \ Undecided(e)
Elapsed(e, at) == {d \in Executed(e) : d + DELAY + VAULT_DELAY <= at}
Waiting(e) == IF etaOf[e] # 0 THEN 1 ELSE 0
OfEpoch(k) == {x \in emitted : x.at \div EPOCH_LENGTH = k}

EmissionsTypeOK ==
  /\ hour \in 1 .. LastHour
  /\ scheduled \in [Emissions -> Nat] /\ etaOf \in [Emissions -> Nat]
  /\ emittedInEpoch \in [0 .. LastHour \div EPOCH_LENGTH -> Nat]
  /\ vault \in Nat
  /\ decisions \in [Emissions -> SUBSET Nat]
  /\ \A e \in Emissions : IsFiniteSet(decisions[e])
  /\ IsFiniteSet(emitted)
  /\ emitted \subseteq [emission : Emissions, nth : Nat, at : Nat]

(* A decision is in the timelock, waits in the vault or has been emitted,  *)
(* in that order; an emission counts the decisions there were at its time. *)
DecisionsHeld ==
  \A e \in Emissions :
    /\ scheduled[e] # 0 => scheduled[e] >= DELAY /\ scheduled[e] - DELAY \in decisions[e]
    /\ \A d \in Executed(e) :
         d + DELAY <= hour /\ (etaOf[e] # 0 => d + DELAY + VAULT_DELAY <= etaOf[e])
    /\ Cardinality(Executed(e)) = TimesEmitted(e) + Waiting(e)

EmittedHeld ==
  \A x \in emitted :
    /\ x.nth <= TimesEmitted(x.emission)
    /\ x.nth <= Cardinality(Elapsed(x.emission, x.at))

EpochsHeld ==
  \A k \in 0 .. LastHour \div EPOCH_LENGTH :
    emittedInEpoch[k] = Volume(OfEpoch(k)) /\ emittedInEpoch[k] <= EPOCH_CAP

EmissionsInv == EmissionsTypeOK /\ DecisionsHeld /\ EmittedHeld /\ EpochsHeld

(* The epoch of the clock is one the vault has a counter for.              *)
LEMMA EpochKnown ==
  ASSUME EmissionsTypeOK
  PROVE  Epoch \in 0 .. LastHour \div EPOCH_LENGTH
<1>1. hour \in Nat /\ LastHour \in Nat /\ hour <= LastHour /\ EPOCH_LENGTH \in Nat \ {0}
  BY EmissionsAssumption DEF EmissionsTypeOK
<1>2. Epoch \in Nat /\ LastHour \div EPOCH_LENGTH \in Nat
  BY <1>1, QuotientNat DEF Epoch
<1>3. Epoch <= LastHour \div EPOCH_LENGTH
  BY <1>1, QuotientMonotone DEF Epoch
<1>. QED BY <1>2, <1>3

(* The sets that are counted are finite.                                   *)
LEMMA CountedFinite ==
  ASSUME EmissionsTypeOK, NEW e \in Emissions
  PROVE  /\ IsFiniteSet(Executed(e)) /\ Cardinality(Executed(e)) \in Nat
         /\ IsFiniteSet({x \in emitted : x.emission = e}) /\ TimesEmitted(e) \in Nat
         /\ \A at \in Nat : /\ IsFiniteSet(Elapsed(e, at))
                            /\ Cardinality(Elapsed(e, at)) \in Nat
<1>1. IsFiniteSet(Executed(e)) /\ Cardinality(Executed(e)) \in Nat
  BY FS_Subset, FS_CardinalityType DEF EmissionsTypeOK, Executed
<1>2. IsFiniteSet({x \in emitted : x.emission = e})
  BY FS_Subset DEF EmissionsTypeOK
<1>3. \A at \in Nat : Elapsed(e, at) \subseteq Executed(e)
  BY DEF Elapsed
<1>4. \A at \in Nat : IsFiniteSet(Elapsed(e, at)) /\ Cardinality(Elapsed(e, at)) \in Nat
  BY <1>1, <1>3, FS_Subset, FS_CardinalityType
<1>. QED BY <1>1, <1>2, <1>4, FS_CardinalityType DEF TimesEmitted

(* A step of the timelock that leaves the executed decisions and what the  *)
(* vault holds as they are.                                                *)
LEMMA TimelockKeeps ==
  ASSUME EmissionsInv, EmissionsTypeOK', hour' = hour,
         UNCHANGED <<etaOf, emittedInEpoch, vault, emitted>>,
         \A e \in Emissions : Executed(e)' = Executed(e),
         \A e \in Emissions :
           scheduled'[e] # 0 => scheduled'[e] >= DELAY /\ scheduled'[e] - DELAY \in decisions'[e]
  PROVE  EmissionsInv'
<1>1. \A e \in Emissions : TimesEmitted(e)' = TimesEmitted(e) /\ Waiting(e)' = Waiting(e)
  BY DEF TimesEmitted, Waiting
<1>2. DecisionsHeld'
  BY <1>1 DEF EmissionsInv, DecisionsHeld
<1>3. \A x \in emitted : x.emission \in Emissions
  BY DEF EmissionsInv, EmissionsTypeOK
<1>4. \A e \in Emissions : \A at : Elapsed(e, at)' = Elapsed(e, at)
  BY DEF Elapsed
<1>5. EmittedHeld'
  BY <1>1, <1>3, <1>4 DEF EmissionsInv, EmittedHeld
<1>6. EpochsHeld'
  BY DEF EmissionsInv, EpochsHeld, OfEpoch, Volume
<1>. QED BY <1>2, <1>5, <1>6 DEF EmissionsInv

LEMMA ScheduleKeeps ==
  ASSUME EmissionsInv, NEW e \in Emissions, ScheduleOperation(e)
  PROVE  EmissionsInv'
<1>1. EmissionsTypeOK /\ DecisionsHeld
  BY DEF EmissionsInv
<1>2. hour \in Nat /\ hour >= 1 /\ DELAY \in Nat /\ DELAY >= 1
  BY <1>1, EmissionsAssumption DEF EmissionsTypeOK
<1>3. /\ decisions' = [decisions EXCEPT ![e] = decisions[e] \cup {hour}]
      /\ scheduled' = [scheduled EXCEPT ![e] = hour + DELAY]
      /\ scheduled[e] = 0
  BY DEF ScheduleOperation
<1>4. IsFiniteSet(decisions[e] \cup {hour})
  BY <1>1, FS_AddElement DEF EmissionsTypeOK
<1>5. EmissionsTypeOK'
  BY <1>1, <1>2, <1>3, <1>4 DEF ScheduleOperation, EmissionsTypeOK
<1>6. /\ scheduled'[e] = hour + DELAY /\ decisions'[e] = decisions[e] \cup {hour}
      /\ \A q \in Emissions \ {e} : scheduled'[q] = scheduled[q] /\ decisions'[q] = decisions[q]
  BY <1>1, <1>3 DEF EmissionsTypeOK
<1>7. Executed(e)' = Executed(e)
  <2>1. Executed(e) = decisions[e] /\ decisions[e] \subseteq Nat
    BY <1>1, <1>3 DEF Executed, Undecided, EmissionsTypeOK
  <2>2. hour \notin decisions[e]
    <3>1. \A d \in decisions[e] : d \in Nat /\ d + DELAY <= hour
      BY <1>1, <2>1 DEF DecisionsHeld
    <3>. QED BY <1>2, <3>1
  <2>3. hour + DELAY # 0 /\ (hour + DELAY) - DELAY = hour
    BY <1>2
  <2>4. Executed(e)' = (decisions[e] \cup {hour}) \ {hour}
    BY <1>6, <2>3 DEF Executed, Undecided
  <2>. QED BY <2>1, <2>2, <2>4
<1>8. \A q \in Emissions : Executed(q)' = Executed(q)
  BY <1>6, <1>7 DEF Executed, Undecided
<1>9. \A q \in Emissions :
        scheduled'[q] # 0 => scheduled'[q] >= DELAY /\ scheduled'[q] - DELAY \in decisions'[q]
  <2>1. hour + DELAY >= DELAY /\ (hour + DELAY) - DELAY = hour
    BY <1>2
  <2>. QED BY <1>1, <1>6, <2>1 DEF DecisionsHeld
<1>. QED BY <1>5, <1>8, <1>9, TimelockKeeps DEF ScheduleOperation

LEMMA CancelKeeps ==
  ASSUME EmissionsInv, NEW e \in Emissions, CancelOperation(e)
  PROVE  EmissionsInv'
<1>1. EmissionsTypeOK /\ DecisionsHeld
  BY DEF EmissionsInv
<1>2. PICK d : d = scheduled[e] - DELAY
  OBVIOUS
<1>3. /\ decisions' = [decisions EXCEPT ![e] = decisions[e] \ {d}]
      /\ scheduled' = [scheduled EXCEPT ![e] = 0] /\ scheduled[e] # 0
      /\ UNCHANGED <<hour, etaOf, emittedInEpoch, vault, emitted>>
  BY <1>2 DEF CancelOperation
<1>4. IsFiniteSet(decisions[e] \ {d})
  BY <1>1, FS_Subset DEF EmissionsTypeOK
<1>5. EmissionsTypeOK'
  <2>1. decisions' \in [Emissions -> SUBSET Nat] /\ \A q \in Emissions : IsFiniteSet(decisions'[q])
    BY <1>1, <1>3, <1>4 DEF EmissionsTypeOK
  <2>2. scheduled' \in [Emissions -> Nat]
    BY <1>1, <1>3 DEF EmissionsTypeOK
  <2>. QED BY <1>1, <1>3, <2>1, <2>2 DEF EmissionsTypeOK
<1>6. /\ scheduled'[e] = 0 /\ decisions'[e] = decisions[e] \ {d}
      /\ \A q \in Emissions \ {e} : scheduled'[q] = scheduled[q] /\ decisions'[q] = decisions[q]
  BY <1>1, <1>3 DEF EmissionsTypeOK
<1>7. \A q \in Emissions : Executed(q)' = Executed(q)
  BY <1>2, <1>3, <1>6 DEF Executed, Undecided
<1>8. \A q \in Emissions :
        scheduled'[q] # 0 => scheduled'[q] >= DELAY /\ scheduled'[q] - DELAY \in decisions'[q]
  BY <1>1, <1>6 DEF DecisionsHeld
<1>. QED BY <1>5, <1>7, <1>8, TimelockKeeps DEF CancelOperation

(* The decision leaves the timelock for the vault, where it waits longer   *)
(* than its own delay.                                                     *)
LEMMA ExecuteKeeps ==
  ASSUME EmissionsInv, NEW e \in Emissions, ExecuteOperation(e)
  PROVE  EmissionsInv'
<1>1. EmissionsTypeOK /\ DecisionsHeld /\ EmittedHeld /\ EpochsHeld
  BY DEF EmissionsInv
<1>2. /\ hour \in Nat /\ DELAY \in Nat /\ VAULT_DELAY \in Nat /\ VAULT_DELAY >= 1
      /\ scheduled[e] \in Nat
  BY <1>1, EmissionsAssumption DEF EmissionsTypeOK
<1>3. /\ scheduled[e] # 0 /\ hour >= scheduled[e] /\ etaOf[e] = 0
      /\ scheduled' = [scheduled EXCEPT ![e] = 0]
      /\ etaOf' = [etaOf EXCEPT ![e] = hour + VAULT_DELAY]
      /\ UNCHANGED <<hour, emittedInEpoch, vault, decisions, emitted>>
  BY DEF ExecuteOperation
<1>4. EmissionsTypeOK'
  BY <1>1, <1>2, <1>3 DEF EmissionsTypeOK
<1>5. /\ scheduled'[e] = 0 /\ etaOf'[e] = hour + VAULT_DELAY
      /\ \A q \in Emissions \ {e} : scheduled'[q] = scheduled[q] /\ etaOf'[q] = etaOf[q]
  BY <1>1, <1>3 DEF EmissionsTypeOK
<1>6. PICK d : d = scheduled[e] - DELAY
  OBVIOUS
<1>7. d \in decisions[e] /\ d \in Nat /\ d + DELAY <= hour
  <2>1. d \in decisions[e] /\ scheduled[e] >= DELAY
    BY <1>1, <1>3, <1>6 DEF DecisionsHeld
  <2>. QED BY <1>2, <1>3, <1>6, <2>1
<1>8. /\ Executed(e) = decisions[e] \ {d} /\ Executed(e)' = decisions[e]
      /\ Executed(e)' = Executed(e) \cup {d} /\ d \notin Executed(e)
  <2>1. Executed(e) = decisions[e] \ {d}
    BY <1>3, <1>6 DEF Executed, Undecided
  <2>2. Executed(e)' = decisions[e]
    BY <1>3, <1>5 DEF Executed, Undecided
  <2>. QED BY <1>7, <2>1, <2>2
<1>9. \A q \in Emissions \ {e} : Executed(q)' = Executed(q) /\ Waiting(q)' = Waiting(q)
  BY <1>3, <1>5 DEF Executed, Undecided, Waiting
<1>10. \A q \in Emissions : TimesEmitted(q)' = TimesEmitted(q)
  BY <1>3 DEF TimesEmitted
<1>11. DecisionsHeld'
  <2>1. SUFFICES ASSUME NEW q \in Emissions
                 PROVE /\ scheduled'[q] # 0 =>
                            scheduled'[q] >= DELAY /\ scheduled'[q] - DELAY \in decisions'[q]
                       /\ \A c \in Executed(q)' :
                            c + DELAY <= hour' /\ (etaOf'[q] # 0 => c + DELAY + VAULT_DELAY <= etaOf'[q])
                       /\ Cardinality(Executed(q)') = TimesEmitted(q)' + Waiting(q)'
    BY DEF DecisionsHeld
  <2>2. CASE q # e
    BY <1>1, <1>3, <1>5, <1>9, <1>10, <2>2 DEF DecisionsHeld
  <2>3. CASE q = e
    <3>1. \A c \in Executed(e)' : c \in Nat /\ c + DELAY <= hour
      <4>1. \A c \in Executed(e) : c \in Nat /\ c + DELAY <= hour
        BY <1>1 DEF DecisionsHeld, Executed, EmissionsTypeOK
      <4>. QED BY <1>7, <1>8, <4>1
    <3>2. \A c \in Executed(e)' : c + DELAY + VAULT_DELAY <= hour + VAULT_DELAY
      BY <1>2, <3>1
    <3>3. Cardinality(Executed(e)') = Cardinality(Executed(e)) + 1
      BY <1>1, <1>8, CountedFinite, FS_AddElement
    <3>4. Waiting(e) = 0 /\ Waiting(e)' = 1
      BY <1>2, <1>3, <1>5 DEF Waiting
    <3>5. Cardinality(Executed(e)) = TimesEmitted(e) + 0 /\ TimesEmitted(e) \in Nat
      BY <1>1, <3>4, CountedFinite DEF DecisionsHeld
    <3>6. Cardinality(Executed(e)') = TimesEmitted(e)' + Waiting(e)'
      BY <1>10, <3>3, <3>4, <3>5
    <3>. QED BY <1>3, <1>5, <2>3, <3>1, <3>2, <3>6
  <2>. QED BY <2>2, <2>3
<1>12. EmittedHeld'
  <2>1. SUFFICES ASSUME NEW x \in emitted
                 PROVE /\ x.nth <= TimesEmitted(x.emission)'
                       /\ x.nth <= Cardinality(Elapsed(x.emission, x.at)')
    BY <1>3 DEF EmittedHeld, Elapsed, TimesEmitted, Executed, Undecided
  <2>2. PICK q \in Emissions, at \in Nat, n \in Nat : q = x.emission /\ at = x.at /\ n = x.nth
    BY <1>1 DEF EmissionsTypeOK
  <2>3. n <= TimesEmitted(q) /\ n <= Cardinality(Elapsed(q, at))
    BY <1>1, <2>2 DEF EmittedHeld
  <2>4. Elapsed(q, at) \subseteq Elapsed(q, at)'
    BY <1>8, <1>9 DEF Elapsed
  <2>5. IsFiniteSet(Elapsed(q, at)')
    BY <1>4, FS_Subset DEF Elapsed, Executed, EmissionsTypeOK
  <2>6. /\ Cardinality(Elapsed(q, at)) <= Cardinality(Elapsed(q, at)')
        /\ Cardinality(Elapsed(q, at)) \in Nat /\ Cardinality(Elapsed(q, at)') \in Nat
    BY <1>1, <2>4, <2>5, CountedFinite, FS_Subset, FS_CardinalityType
  <2>7. n <= Cardinality(Elapsed(q, at)')
    BY <2>3, <2>6
  <2>. QED BY <1>10, <2>2, <2>3, <2>7
<1>13. EpochsHeld'
  BY <1>1, <1>3 DEF EpochsHeld, OfEpoch, Volume
<1>. QED BY <1>4, <1>11, <1>12, <1>13 DEF EmissionsInv

(* What leaves is one more of its emission, and of its epoch.              *)
LEMMA EmitKeeps ==
  ASSUME EmissionsInv, NEW e \in Emissions, Emit(e)
  PROVE  EmissionsInv'
<1>1. EmissionsTypeOK /\ DecisionsHeld /\ EmittedHeld /\ EpochsHeld
  BY DEF EmissionsInv
<1>2. /\ hour \in Nat /\ EPOCH_LENGTH \in Nat \ {0} /\ EPOCH_CAP \in Nat
      /\ Amount[e] \in Nat /\ TimesEmitted(e) \in Nat /\ vault \in Nat
  <2>1. TimesEmitted(e) \in Nat
    BY <1>1, CountedFinite
  <2>. QED BY <1>1, <2>1, EmissionsAssumption DEF EmissionsTypeOK
<1>3. PICK n \in Nat : n = TimesEmitted(e) + 1
  BY <1>2
<1>4. PICK y : y = [emission |-> e, nth |-> n, at |-> hour]
  OBVIOUS
<1>5. PICK k0 \in 0 .. LastHour \div EPOCH_LENGTH : k0 = Epoch
  BY <1>1, EpochKnown
<1>6. /\ etaOf[e] # 0 /\ hour >= etaOf[e] /\ Amount[e] <= EPOCH_CAP - emittedInEpoch[k0]
      /\ Amount[e] <= vault
      /\ etaOf' = [etaOf EXCEPT ![e] = 0]
      /\ emittedInEpoch' = [emittedInEpoch EXCEPT ![k0] = emittedInEpoch[k0] + Amount[e]]
      /\ vault' = vault - Amount[e]
      /\ emitted' = emitted \cup {y}
      /\ UNCHANGED <<hour, scheduled, decisions>>
  BY <1>3, <1>4, <1>5 DEF Emit
<1>7. y.emission = e /\ y.nth = n /\ y.at = hour
      /\ y \in [emission : Emissions, nth : Nat, at : Nat]
  BY <1>2, <1>4
<1>8. EmissionsTypeOK'
  <2>1. IsFiniteSet(emitted') /\ emitted' \subseteq [emission : Emissions, nth : Nat, at : Nat]
    BY <1>1, <1>6, <1>7, FS_AddElement DEF EmissionsTypeOK
  <2>2. vault' \in Nat
    BY <1>2, <1>6
  <2>3. emittedInEpoch' \in [0 .. LastHour \div EPOCH_LENGTH -> Nat]
    BY <1>1, <1>2, <1>6 DEF EmissionsTypeOK
  <2>. QED BY <1>1, <1>6, <2>1, <2>2, <2>3 DEF EmissionsTypeOK
<1>9. y \notin emitted
  <2>1. SUFFICES ASSUME y \in emitted PROVE FALSE
    OBVIOUS
  <2>2. n <= TimesEmitted(e)
    BY <1>1, <1>7, <2>1 DEF EmittedHeld
  <2>. QED BY <1>2, <1>3, <2>2
<1>10. /\ TimesEmitted(e)' = TimesEmitted(e) + 1
       /\ \A q \in Emissions \ {e} : TimesEmitted(q)' = TimesEmitted(q)
  <2>1. {x \in emitted' : x.emission = e} = {x \in emitted : x.emission = e} \cup {y}
    BY <1>6, <1>7
  <2>2. TimesEmitted(e)' = TimesEmitted(e) + 1
    BY <1>1, <1>9, <2>1, CountedFinite, FS_AddElement DEF TimesEmitted
  <2>3. \A q \in Emissions \ {e} :
          {x \in emitted' : x.emission = q} = {x \in emitted : x.emission = q}
    BY <1>6, <1>7
  <2>. QED BY <2>2, <2>3 DEF TimesEmitted
<1>11. \A q \in Emissions : Executed(q)' = Executed(q)
  BY <1>6 DEF Executed, Undecided
<1>12. /\ etaOf'[e] = 0 /\ \A q \in Emissions \ {e} : etaOf'[q] = etaOf[q]
  BY <1>1, <1>6 DEF EmissionsTypeOK
<1>13. Waiting(e) = 1 /\ Waiting(e)' = 0 /\ \A q \in Emissions \ {e} : Waiting(q)' = Waiting(q)
  BY <1>6, <1>12 DEF Waiting
<1>14. DecisionsHeld'
  <2>1. \A q \in Emissions : Cardinality(Executed(q)') = TimesEmitted(q)' + Waiting(q)'
    <3>1. Cardinality(Executed(e)') = TimesEmitted(e)' + Waiting(e)'
      BY <1>1, <1>2, <1>10, <1>11, <1>13 DEF DecisionsHeld
    <3>2. \A q \in Emissions \ {e} : Cardinality(Executed(q)') = TimesEmitted(q)' + Waiting(q)'
      BY <1>1, <1>10, <1>11, <1>13 DEF DecisionsHeld
    <3>. QED BY <3>1, <3>2
  <2>2. \A q \in Emissions : \A d \in Executed(q)' :
          d + DELAY <= hour' /\ (etaOf'[q] # 0 => d + DELAY + VAULT_DELAY <= etaOf'[q])
    BY <1>1, <1>6, <1>11, <1>12 DEF DecisionsHeld
  <2>3. \A q \in Emissions :
          scheduled'[q] # 0 => scheduled'[q] >= DELAY /\ scheduled'[q] - DELAY \in decisions'[q]
    BY <1>1, <1>6 DEF DecisionsHeld
  <2>. QED BY <2>1, <2>2, <2>3 DEF DecisionsHeld
<1>15. \A q \in Emissions : \A at : Elapsed(q, at)' = Elapsed(q, at)
  BY <1>11 DEF Elapsed
<1>16. EmittedHeld'
  <2>1. n <= Cardinality(Elapsed(e, hour))
    <3>1. Elapsed(e, hour) = Executed(e)
      <4>1. \A d \in Executed(e) : d \in Nat /\ d + DELAY + VAULT_DELAY <= etaOf[e]
        BY <1>1, <1>6 DEF DecisionsHeld, Executed, EmissionsTypeOK
      <4>2. etaOf[e] \in Nat /\ DELAY \in Nat /\ VAULT_DELAY \in Nat
        BY <1>1, EmissionsAssumption DEF EmissionsTypeOK
      <4>3. \A d \in Executed(e) : d + DELAY + VAULT_DELAY <= hour
        BY <1>2, <1>6, <4>1, <4>2
      <4>. QED BY <4>3 DEF Elapsed
    <3>2. Cardinality(Executed(e)) = TimesEmitted(e) + 1
      BY <1>1, <1>13 DEF DecisionsHeld
    <3>. QED BY <1>3, <3>1, <3>2
  <2>2. \A x \in emitted : x.nth <= TimesEmitted(x.emission)'
    <3>1. SUFFICES ASSUME NEW x \in emitted PROVE x.nth <= TimesEmitted(x.emission)'
      OBVIOUS
    <3>2. PICK q \in Emissions, m \in Nat : q = x.emission /\ m = x.nth
      BY <1>1 DEF EmissionsTypeOK
    <3>3. m <= TimesEmitted(q) /\ TimesEmitted(q) \in Nat
      BY <1>1, <3>2, CountedFinite DEF EmittedHeld
    <3>4. m <= TimesEmitted(q)'
      BY <1>10, <3>3
    <3>. QED BY <3>2, <3>4
  <2>3. \A x \in emitted : x.nth <= Cardinality(Elapsed(x.emission, x.at)')
    BY <1>1, <1>15 DEF EmittedHeld, EmissionsTypeOK
  <2>4. y.nth <= TimesEmitted(y.emission)'
    BY <1>2, <1>3, <1>7, <1>10
  <2>5. y.nth <= Cardinality(Elapsed(y.emission, y.at)')
    BY <1>7, <1>15, <2>1
  <2>. QED BY <1>6, <2>2, <2>3, <2>4, <2>5 DEF EmittedHeld
<1>17. EpochsHeld'
  <2>1. SUFFICES ASSUME NEW k \in 0 .. LastHour \div EPOCH_LENGTH
                 PROVE  /\ emittedInEpoch'[k] = Volume(OfEpoch(k)')
                        /\ emittedInEpoch'[k] <= EPOCH_CAP
    BY DEF EpochsHeld, Volume
  <2>2. emittedInEpoch[k] = Volume(OfEpoch(k)) /\ emittedInEpoch[k] <= EPOCH_CAP
        /\ emittedInEpoch[k] \in Nat
    BY <1>1 DEF EpochsHeld, EmissionsTypeOK
  <2>3. CASE k # k0
    <3>1. OfEpoch(k)' = OfEpoch(k)
      BY <1>5, <1>6, <1>7, <2>3 DEF OfEpoch, Epoch
    <3>. QED BY <1>1, <1>6, <2>2, <2>3, <3>1 DEF EmissionsTypeOK
  <2>4. CASE k = k0
    <3>1. PICK S : S = OfEpoch(k)
      OBVIOUS
    <3>2. OfEpoch(k)' = S \cup {y} /\ y \notin S /\ IsFiniteSet(S)
      <4>1. OfEpoch(k)' = S \cup {y}
        BY <1>5, <1>6, <1>7, <2>4, <3>1 DEF OfEpoch, Epoch
      <4>. QED BY <1>1, <1>9, <3>1, <4>1, FS_Subset DEF OfEpoch, EmissionsTypeOK
    <3>3. PICK f : f = [x \in S |-> Amount[x.emission]]
      OBVIOUS
    <3>4. PICK g : g = [x \in S \cup {y} |-> Amount[x.emission]]
      OBVIOUS
    <3>5. \A x \in S \cup {y} : g[x] \in Int
      <4>1. \A x \in S \cup {y} : x.emission \in Emissions
        BY <1>1, <1>7, <3>1 DEF OfEpoch, EmissionsTypeOK
      <4>. QED BY <3>4, <4>1, EmissionsAssumption
    <3>6. SumFunctionOnSet(g, S \cup {y}) = SumFunctionOnSet(g, S) + g[y]
      BY <3>2, <3>5, SumAdd
    <3>7. \A x \in S : f[x] = g[x]
      BY <3>3, <3>4
    <3>8. SumFunctionOnSet(f, S) = SumFunctionOnSet(g, S)
      BY <3>2, <3>7, SumSame
    <3>9. g[y] = Amount[e]
      BY <1>7, <3>4
    <3>10. Volume(OfEpoch(k)') = emittedInEpoch[k] + Amount[e]
      BY <2>2, <3>1, <3>2, <3>3, <3>4, <3>6, <3>8, <3>9 DEF Volume
    <3>11. emittedInEpoch'[k] = emittedInEpoch[k] + Amount[e]
      BY <1>1, <1>6, <2>4 DEF EmissionsTypeOK
    <3>12. emittedInEpoch[k] + Amount[e] <= EPOCH_CAP
      BY <1>2, <1>6, <2>2, <2>4
    <3>. QED BY <3>10, <3>11, <3>12
  <2>. QED BY <2>3, <2>4
<1>. QED BY <1>8, <1>14, <1>16, <1>17 DEF EmissionsInv

LEMMA HourKeeps ==
  ASSUME EmissionsInv, Hour
  PROVE  EmissionsInv'
<1>1. EmissionsTypeOK /\ DecisionsHeld /\ EmittedHeld /\ EpochsHeld
  BY DEF EmissionsInv
<1>2. hour \in Nat /\ LastHour \in Nat /\ hour' = hour + 1 /\ hour < LastHour /\ DELAY \in Nat
      /\ hour >= 1
  BY <1>1, EmissionsAssumption DEF EmissionsTypeOK, Hour
<1>3. UNCHANGED <<scheduled, etaOf, emittedInEpoch, vault, decisions, emitted>>
  BY DEF Hour
<1>4. EmissionsTypeOK'
  BY <1>1, <1>2, <1>3 DEF EmissionsTypeOK
<1>5. \A e \in Emissions : /\ Executed(e)' = Executed(e) /\ Executed(e) \subseteq Nat
                           /\ TimesEmitted(e)' = TimesEmitted(e) /\ Waiting(e)' = Waiting(e)
  BY <1>1, <1>3 DEF Executed, Undecided, TimesEmitted, Waiting, EmissionsTypeOK
<1>6. \A e \in Emissions : \A d \in Executed(e) : d + DELAY <= hour'
  BY <1>1, <1>2, <1>5 DEF DecisionsHeld
<1>7. DecisionsHeld'
  BY <1>1, <1>3, <1>5, <1>6 DEF DecisionsHeld
<1>8. \A e \in Emissions : \A at : Elapsed(e, at)' = Elapsed(e, at)
  BY <1>5 DEF Elapsed
<1>9. EmittedHeld'
  BY <1>1, <1>3, <1>5, <1>8 DEF EmittedHeld, EmissionsTypeOK
<1>10. EpochsHeld'
  BY <1>1, <1>3 DEF EpochsHeld, OfEpoch, Volume
<1>. QED BY <1>4, <1>7, <1>9, <1>10 DEF EmissionsInv

LEMMA EmissionsInitHolds == EmissionsInit => EmissionsInv
<1>1. SUFFICES ASSUME EmissionsInit PROVE EmissionsInv
  OBVIOUS
<1>2. /\ hour = 1 /\ scheduled = [e \in Emissions |-> 0] /\ etaOf = [e \in Emissions |-> 0]
      /\ emittedInEpoch = [k \in 0 .. LastHour \div EPOCH_LENGTH |-> 0]
      /\ vault = Fund /\ decisions = [e \in Emissions |-> {}] /\ emitted = {}
  BY <1>1 DEF EmissionsInit
<1>3. EmissionsTypeOK
  BY <1>2, EmissionsAssumption, FS_EmptySet DEF EmissionsTypeOK
<1>4. \A e \in Emissions : Executed(e) = {} /\ Waiting(e) = 0 /\ TimesEmitted(e) = 0
  <2>1. {x \in emitted : TRUE} = {}
    BY <1>2
  <2>2. \A e : {x \in emitted : x.emission = e} = {}
    BY <1>2
  <2>. QED BY <1>2, <2>2, FS_EmptySet DEF Executed, Waiting, TimesEmitted
<1>5. DecisionsHeld
  <2>1. \A e \in Emissions : Cardinality(Executed(e)) = TimesEmitted(e) + Waiting(e)
    <3>1. Cardinality({}) = 0
      BY FS_EmptySet
    <3>. QED BY <1>4, <3>1
  <2>2. \A e \in Emissions : scheduled[e] = 0
    BY <1>2
  <2>. QED BY <1>4, <2>1, <2>2 DEF DecisionsHeld
<1>6. EmittedHeld
  BY <1>2 DEF EmittedHeld
<1>7. \A k : Volume(OfEpoch(k)) = 0
  <2>1. \A k : OfEpoch(k) = {}
    BY <1>2 DEF OfEpoch
  <2>. QED BY <2>1, SumEmpty DEF Volume
<1>8. EpochsHeld
  BY <1>2, <1>7, EmissionsAssumption DEF EpochsHeld
<1>. QED BY <1>3, <1>5, <1>6, <1>8 DEF EmissionsInv

(* Nothing leaves the vault but what was decided as often, each time both  *)
(* delays before, and no epoch gives away more than its cap.               *)
THEOREM EmissionsPaced == EmissionsSpec => []EmissionsArePaced
<1>1. EmissionsInit => EmissionsInv
  BY EmissionsInitHolds
<1>2. EmissionsInv /\ [EmissionsNext]_emissionVars => EmissionsInv'
  <2>1. SUFFICES ASSUME EmissionsInv, [EmissionsNext]_emissionVars PROVE EmissionsInv'
    OBVIOUS
  <2>2. CASE UNCHANGED emissionVars
    BY <2>1, <2>2 DEF emissionVars, EmissionsInv, EmissionsTypeOK, DecisionsHeld, EmittedHeld,
       EpochsHeld, Executed, Undecided, Elapsed, Waiting, OfEpoch, TimesEmitted, Volume
  <2>3. ASSUME NEW e \in Emissions,
               ScheduleOperation(e) \/ CancelOperation(e) \/ ExecuteOperation(e) \/ Emit(e)
        PROVE  EmissionsInv'
    BY <2>1, <2>3, ScheduleKeeps, CancelKeeps, ExecuteKeeps, EmitKeeps
  <2>4. CASE Hour
    BY <2>1, <2>4, HourKeeps
  <2>. QED BY <2>1, <2>2, <2>3, <2>4 DEF EmissionsNext
<1>3. EmissionsInv => EmissionsArePaced
  <2>1. SUFFICES ASSUME EmissionsInv PROVE EmissionsArePaced
    OBVIOUS
  <2>2. EmissionsTypeOK /\ EmittedHeld /\ EpochsHeld
    BY <2>1 DEF EmissionsInv
  <2>3. ASSUME NEW x \in emitted
        PROVE  x.nth <= Cardinality({d \in decisions[x.emission] : d + DELAY + VAULT_DELAY <= x.at})
    <3>1. PICK e \in Emissions, at \in Nat, n \in Nat : e = x.emission /\ at = x.at /\ n = x.nth
      BY <2>2 DEF EmissionsTypeOK
    <3>2. PICK T : T = {d \in decisions[e] : d + DELAY + VAULT_DELAY <= at}
      OBVIOUS
    <3>3. Elapsed(e, at) \subseteq T /\ IsFiniteSet(T)
      BY <2>2, <3>2, FS_Subset DEF Elapsed, Executed, EmissionsTypeOK
    <3>4. Cardinality(Elapsed(e, at)) <= Cardinality(T) /\ Cardinality(T) \in Nat
          /\ Cardinality(Elapsed(e, at)) \in Nat
      BY <2>2, <3>3, FS_Subset, FS_CardinalityType, CountedFinite
    <3>5. n <= Cardinality(Elapsed(e, at))
      BY <2>2, <3>1 DEF EmittedHeld
    <3>6. n <= Cardinality(T)
      BY <3>4, <3>5
    <3>. QED BY <3>1, <3>2, <3>6
  <2>4. DOMAIN emittedInEpoch = 0 .. LastHour \div EPOCH_LENGTH
    BY <2>2 DEF EmissionsTypeOK
  <2>5. \A k \in DOMAIN emittedInEpoch : Volume(OfEpoch(k)) <= EPOCH_CAP
    BY <2>2, <2>4 DEF EpochsHeld
  <2>. QED BY <2>3, <2>5 DEF EmissionsArePaced, OfEpoch
<1>. QED BY <1>1, <1>2, <1>3, PTL DEF EmissionsSpec

-----------------------------------------------------------------------------
(* The price of VOID. *)

(* The area under a history of prices: Area is that of the prices so far.  *)
AreaOf(f, from, to) == SumFunctionOnSet(f, from .. to - 1)

KeepersTypeOK ==
  /\ tick \in Nat /\ tick >= 1
  /\ prices \in Seq(Prices) /\ Len(prices) = tick - 1
  /\ pool \in [price : Prices, cumulative : Nat, at : 1 .. tick]
  /\ oracle \in [cumulative : Nat, at : 0 .. tick, rate : Nat]
  /\ opened \in 0 .. tick

(* The pool's observation is the area under all prices so far, the         *)
(* oracle's that up to its last update, and its rate that of its window.   *)
KeepersInv ==
  /\ KeepersTypeOK
  /\ Observed = AreaOf(prices, 1, tick)
  /\ oracle.at # 0 => oracle.cumulative = AreaOf(prices, 1, oracle.at)
  /\ oracle.rate # 0 => /\ opened # 0 /\ oracle.at - opened >= MIN_INTERVAL
                        /\ oracle.rate = AreaOf(prices, opened, oracle.at) \div (oracle.at - opened)

LEMMA PricesNat ==
  ASSUME KeepersTypeOK, NEW t \in 1 .. tick - 1
  PROVE  prices[t] \in Nat
BY KeepersAssumption, ElementOfSeq DEF KeepersTypeOK

(* Areas are naturals, and adjacent ones add up.                           *)
LEMMA AreaSplits ==
  ASSUME KeepersTypeOK, NEW b \in 1 .. tick, NEW c \in b .. tick
  PROVE  /\ AreaOf(prices, 1, b) \in Nat /\ AreaOf(prices, b, c) \in Nat
         /\ AreaOf(prices, 1, c) = AreaOf(prices, 1, b) + AreaOf(prices, b, c)
<1>1. tick \in Nat /\ b \in Nat /\ c \in Nat /\ 1 <= b /\ b <= c /\ c <= tick
  BY DEF KeepersTypeOK
<1>2. PICK S : S = 1 .. b - 1
  OBVIOUS
<1>3. PICK T : T = b .. c - 1
  OBVIOUS
<1>4. S \cup T = 1 .. c - 1 /\ S \cap T = {}
  BY <1>1, <1>2, <1>3
<1>5. IsFiniteSet(S) /\ IsFiniteSet(T)
  BY <1>1, <1>2, <1>3, FS_Interval
<1>6. \A t \in S \cup T : prices[t] \in Nat
  BY <1>1, <1>4, PricesNat
<1>7. SumFunctionOnSet(prices, S) \in Nat
  BY <1>5, <1>6, SumNat
<1>8. SumFunctionOnSet(prices, T) \in Nat
  BY <1>5, <1>6, SumNat
<1>9. SumFunctionOnSet(prices, S \cup T) = SumFunctionOnSet(prices, S) + SumFunctionOnSet(prices, T)
  BY <1>4, <1>5, <1>6, SumUnion
<1>. QED BY <1>2, <1>3, <1>4, <1>7, <1>8, <1>9 DEF AreaOf

(* What has been observed is a natural.                                    *)
LEMMA ObservedNat ==
  ASSUME KeepersTypeOK
  PROVE  Observed \in Nat
<1>1. PICK price \in Nat, age \in Nat : price = pool.price /\ age = tick - pool.at
  <2>1. pool.price \in Nat /\ pool.at \in 1 .. tick /\ tick \in Nat
    BY KeepersAssumption DEF KeepersTypeOK
  <2>2. tick - pool.at \in Nat
    BY <2>1
  <2>. QED BY <2>1, <2>2
<1>2. price * age \in Nat /\ pool.cumulative \in Nat
  BY DEF KeepersTypeOK
<1>. QED BY <1>1, <1>2 DEF Observed

(* A step that leaves the pool, the oracle and the clock alone.            *)
LEMMA ApartKeeps ==
  ASSUME KeepersInv, UNCHANGED <<tick, pool, oracle, prices, opened>>
  PROVE  KeepersInv'
BY DEF KeepersInv, KeepersTypeOK, Observed

(* The pool accumulates before it changes its price.                       *)
LEMMA PoolKeeps ==
  ASSUME KeepersInv, NEW p \in Prices, pool' = Moved(p), UNCHANGED <<tick, oracle, prices, opened>>
  PROVE  KeepersInv'
<1>1. KeepersTypeOK /\ tick \in Nat /\ p \in Nat
  BY KeepersAssumption DEF KeepersInv, KeepersTypeOK
<1>2. PICK o \in Nat : o = Observed
  BY <1>1, ObservedNat
<1>3. pool' = [price |-> p, cumulative |-> o, at |-> tick]
  BY <1>2 DEF Moved
<1>4. KeepersTypeOK'
  BY <1>1, <1>3 DEF KeepersTypeOK
<1>5. Observed' = o
  <2>1. Observed' = o + p * (tick - tick)
    BY <1>3 DEF Observed
  <2>2. p * (tick - tick) = 0
    BY <1>1
  <2>. QED BY <1>2, <2>1, <2>2
<1>. QED BY <1>2, <1>4, <1>5 DEF KeepersInv

LEMMA BootstrapKeeps ==
  ASSUME KeepersInv, BootstrapOracle
  PROVE  KeepersInv'
<1>1. KeepersTypeOK
  BY DEF KeepersInv
<1>2. PICK o \in Nat : o = Observed
  BY <1>1, ObservedNat
<1>3. oracle' = [cumulative |-> o, at |-> tick, rate |-> oracle.rate]
  BY <1>1, <1>2 DEF BootstrapOracle, KeepersTypeOK
<1>4. oracle.rate = 0
  <2>1. SUFFICES ASSUME oracle.rate # 0 PROVE FALSE
    OBVIOUS
  <2>2. oracle.at - opened >= MIN_INTERVAL /\ oracle.at = 0 /\ opened \in Nat
    BY <2>1 DEF KeepersInv, BootstrapOracle, KeepersTypeOK
  <2>. QED BY <2>2, KeepersAssumption
<1>5. UNCHANGED <<tick, pool, prices, opened>>
  BY DEF BootstrapOracle
<1>6. KeepersTypeOK'
  BY <1>1, <1>3, <1>5 DEF KeepersTypeOK
<1>7. Observed' = AreaOf(prices', 1, tick') /\ oracle'.cumulative = AreaOf(prices', 1, oracle'.at)
  BY <1>2, <1>3, <1>5 DEF KeepersInv, Observed
<1>. QED BY <1>3, <1>4, <1>6, <1>7 DEF KeepersInv

(* An update publishes the average of the window it closes, whoever calls  *)
(* it.                                                                     *)
LEMMA UpdateKeeps ==
  ASSUME KeepersInv, UpdateOracle, UNCHANGED <<tick, pool, prices>>
  PROVE  KeepersInv'
<1>1. KeepersTypeOK /\ tick \in Nat /\ oracle.at \in 0 .. tick /\ oracle.cumulative \in Nat
      /\ MIN_INTERVAL \in Nat \ {0}
  BY KeepersAssumption DEF KeepersInv, KeepersTypeOK
<1>2. PICK o \in Nat : o = Observed
  BY <1>1, ObservedNat
<1>3. PICK from \in 1 .. tick : from = oracle.at
  BY <1>1 DEF UpdateOracle, Updatable
<1>4. from \in Nat /\ from >= 1 /\ from <= tick /\ tick - from >= MIN_INTERVAL
  BY <1>1, <1>3 DEF UpdateOracle, Updatable
<1>5. /\ AreaOf(prices, 1, from) \in Nat /\ AreaOf(prices, from, tick) \in Nat
      /\ AreaOf(prices, 1, tick) = AreaOf(prices, 1, from) + AreaOf(prices, from, tick)
  <2>1. PICK now \in from .. tick : now = tick
    BY <1>1, <1>4
  <2>. QED BY <1>1, <2>1, AreaSplits
<1>6. o - oracle.cumulative = AreaOf(prices, from, tick)
  BY <1>1, <1>2, <1>3, <1>4, <1>5 DEF KeepersInv
<1>7. PICK rate : rate = AreaOf(prices, from, tick) \div (tick - from)
  OBVIOUS
<1>8. rate \in Nat
  <2>1. tick - from \in Nat \ {0}
    BY <1>1, <1>4
  <2>. QED BY <1>5, <1>7, <2>1, QuotientNat
<1>9. oracle' = [cumulative |-> o, at |-> tick, rate |-> rate] /\ opened' = from
  BY <1>2, <1>3, <1>6, <1>7 DEF UpdateOracle, Average
<1>10. KeepersTypeOK'
  BY <1>1, <1>4, <1>8, <1>9 DEF KeepersTypeOK
<1>11. Observed' = AreaOf(prices', 1, tick') /\ oracle'.cumulative = AreaOf(prices', 1, oracle'.at)
  BY <1>2, <1>9 DEF KeepersInv, Observed
<1>12. oracle'.rate = AreaOf(prices', opened', oracle'.at) \div (oracle'.at - opened')
  BY <1>7, <1>9 DEF AreaOf
<1>. QED BY <1>4, <1>9, <1>10, <1>11, <1>12 DEF KeepersInv

(* A unit of time at the price of the pool.                                *)
LEMMA TickKeeps ==
  ASSUME KeepersInv, Tick
  PROVE  KeepersInv'
<1>1. KeepersTypeOK /\ tick \in Nat /\ tick >= 1 /\ tick' = tick + 1
      /\ prices' = Append(prices, pool.price) /\ UNCHANGED <<pool, oracle, opened>>
  BY DEF KeepersInv, KeepersTypeOK, Tick
<1>2. /\ prices \in Seq(Prices) /\ Len(prices) = tick - 1
      /\ pool.price \in Prices /\ pool.price \in Nat /\ pool.cumulative \in Nat /\ pool.at \in 1 .. tick
  BY <1>1, KeepersAssumption DEF KeepersTypeOK
<1>3. /\ prices' \in Seq(Prices) /\ Len(prices') = tick' - 1
      /\ \A t \in 1 .. tick - 1 : prices'[t] = prices[t]
      /\ prices'[tick] = pool.price
  <2>1. /\ Append(prices, pool.price) \in Seq(Prices)
        /\ Len(Append(prices, pool.price)) = Len(prices) + 1
        /\ \A i \in 1 .. Len(prices) : Append(prices, pool.price)[i] = prices[i]
        /\ Append(prices, pool.price)[Len(prices) + 1] = pool.price
    BY <1>2, AppendProperties
  <2>2. Len(prices) + 1 = tick /\ tick' - 1 = tick
    BY <1>1, <1>2
  <2>. QED BY <1>1, <1>2, <2>1, <2>2
<1>4. KeepersTypeOK'
  <2>1. 1 .. tick \subseteq 1 .. tick' /\ 0 .. tick \subseteq 0 .. tick' /\ tick' \in Nat /\ tick' >= 1
    BY <1>1
  <2>. QED BY <1>1, <1>3, <2>1 DEF KeepersTypeOK
<1>5. \A a \in Nat, b \in 0 .. tick : a >= 1 => AreaOf(prices', a, b) = AreaOf(prices, a, b)
  <2>1. SUFFICES ASSUME NEW a \in Nat, NEW b \in 0 .. tick, a >= 1 PROVE AreaOf(prices', a, b) = AreaOf(prices, a, b)
    OBVIOUS
  <2>2. PICK S : S = a .. b - 1
    OBVIOUS
  <2>3. IsFiniteSet(S)
    BY <2>2, FS_Interval
  <2>4. \A t \in S : prices'[t] = prices[t]
    BY <1>1, <1>3, <2>1, <2>2
  <2>5. SumFunctionOnSet(prices', S) = SumFunctionOnSet(prices, S)
    BY <2>3, <2>4, SumSame
  <2>. QED BY <2>2, <2>5 DEF AreaOf
<1>6. AreaOf(prices', 1, tick') = AreaOf(prices, 1, tick) + pool.price
  <2>1. PICK S : S = 1 .. tick - 1
    OBVIOUS
  <2>2. IsFiniteSet(S) /\ tick \notin S /\ S \cup {tick} = 1 .. tick' - 1
    <3>1. PICK n \in Nat : n = tick /\ n >= 1 /\ tick' = n + 1
      BY <1>1
    <3>2. IsFiniteSet(1 .. n - 1)
      BY <3>1, FS_Interval
    <3>3. n \notin 1 .. n - 1 /\ (1 .. n - 1) \cup {n} = 1 .. n
      BY <3>1
    <3>4. (n + 1) - 1 = n
      BY <3>1
    <3>. QED BY <2>1, <3>1, <3>2, <3>3, <3>4
  <2>3. \A y \in S \cup {tick} : prices'[y] \in Int
    BY <1>1, <1>2, <1>3, <2>1, PricesNat
  <2>4. SumFunctionOnSet(prices', S \cup {tick}) = SumFunctionOnSet(prices', S) + prices'[tick]
    BY <2>2, <2>3, SumAdd
  <2>5. SumFunctionOnSet(prices', S) = SumFunctionOnSet(prices, S)
    BY <1>3, <2>1, <2>2, SumSame
  <2>. QED BY <1>3, <2>1, <2>2, <2>4, <2>5 DEF AreaOf
<1>7. Observed' = Observed + pool.price
  <2>1. PICK p \in Nat, a \in Nat : p = pool.price /\ a = pool.at
    BY <1>2
  <2>2. p * ((tick + 1) - a) = p * (tick - a) + p
    <3>1. PICK n \in Int : n = tick - a /\ (tick + 1) - a = n + 1
      BY <1>1, <2>1
    <3>2. p * (n + 1) = p * n + p
      BY <2>1, <3>1
    <3>. QED BY <3>1, <3>2
  <2>3. p * (tick - a) \in Int /\ pool.cumulative \in Nat
    BY <1>1, <1>2, <2>1
  <2>4. Observed' = pool.cumulative + p * ((tick + 1) - a) /\ Observed = pool.cumulative + p * (tick - a)
    BY <1>1, <2>1 DEF Observed
  <2>. QED BY <2>1, <2>2, <2>3, <2>4
<1>8. Observed' = AreaOf(prices', 1, tick')
  BY <1>6, <1>7 DEF KeepersInv
<1>9. oracle.at \in 0 .. tick /\ opened \in 0 .. tick
  BY <1>1 DEF KeepersTypeOK
<1>10. oracle'.at # 0 => oracle'.cumulative = AreaOf(prices', 1, oracle.at)
  BY <1>1, <1>5, <1>9 DEF KeepersInv
<1>11. oracle'.rate # 0 => /\ opened' # 0 /\ oracle'.at - opened' >= MIN_INTERVAL
                           /\ oracle'.rate = AreaOf(prices', opened, oracle.at) \div (oracle'.at - opened')
  BY <1>1, <1>5, <1>9 DEF KeepersInv
<1>. QED BY <1>1, <1>4, <1>8, <1>10, <1>11 DEF KeepersInv

LEMMA KeepersInitHolds == KeepersInit => KeepersInv
<1>1. SUFFICES ASSUME KeepersInit PROVE KeepersInv
  OBVIOUS
<1>2. /\ tick = 1 /\ prices = <<>> /\ opened = 0
      /\ oracle = [cumulative |-> 0, at |-> 0, rate |-> 0]
      /\ pool \in [price : Prices, cumulative : {0}, at : {1}]
  BY <1>1 DEF KeepersInit
<1>3. prices \in Seq(Prices) /\ Len(prices) = tick - 1
  BY <1>2
<1>4. KeepersTypeOK
  BY <1>2, <1>3 DEF KeepersTypeOK
<1>5. Observed = 0
  <2>1. PICK p \in Nat : p = pool.price
    BY <1>2, KeepersAssumption
  <2>2. p * (1 - 1) = 0 /\ pool.cumulative = 0 /\ pool.at = 1
    BY <1>2, <2>1
  <2>. QED BY <1>2, <2>1, <2>2 DEF Observed
<1>6. AreaOf(prices, 1, tick) = 0
  <2>1. 1 .. tick - 1 = {}
    BY <1>2
  <2>. QED BY <2>1, SumEmpty DEF AreaOf
<1>. QED BY <1>2, <1>4, <1>5, <1>6 DEF KeepersInv

(* What the paymaster and the runtime see is the average of one whole and  *)
(* recent window, in every interleaving of keepers, swaps and strangers.   *)
THEOREM PriceAveragesWindow == KeepersSpec => []PriceIsWindowAverage
<1>1. KeepersInit => KeepersInv
  BY KeepersInitHolds
<1>2. KeepersInv /\ [KeepersNext]_keeperVars => KeepersInv'
  <2>1. SUFFICES ASSUME KeepersInv, [KeepersNext]_keeperVars PROVE KeepersInv'
    OBVIOUS
  <2>2. CASE UNCHANGED keeperVars
    BY <2>1, <2>2, ApartKeeps DEF keeperVars
  <2>3. ASSUME NEW p \in Prices, Swap(p) PROVE KeepersInv'
    BY <2>1, <2>3, PoolKeeps DEF Swap
  <2>4. CASE BootstrapOracle
    BY <2>1, <2>4, BootstrapKeeps
  <2>5. CASE UpdateByAnybody
    BY <2>1, <2>5, UpdateKeeps DEF UpdateByAnybody
  <2>6. ASSUME NEW j \in Jobs,
               ReadOracle(j) \/ SendUpdate(j) \/ ReadPlan(j) \/ SendRefill(j) \/ ThrowKeeper(j)
                 \/ Schedule(j)
        PROVE  KeepersInv'
    BY <2>1, <2>6, ApartKeeps DEF ReadOracle, SendUpdate, ReadPlan, SendRefill, ThrowKeeper, Schedule
  <2>7. ASSUME NEW j \in Jobs, UpdateMined(j) PROVE KeepersInv'
    <3>1. CASE UpdateOracle
      BY <2>1, <2>7, <3>1, UpdateKeeps DEF UpdateMined
    <3>2. CASE UNCHANGED <<oracle, opened>>
      BY <2>1, <2>7, <3>2, ApartKeeps DEF UpdateMined
    <3>. QED BY <2>7, <3>1, <3>2 DEF UpdateMined
  <2>8. ASSUME NEW j \in Jobs, RefillMined(j) PROVE KeepersInv'
    <3>1. CASE UNCHANGED pool
      BY <2>1, <2>8, <3>1, ApartKeeps DEF RefillMined
    <3>2. CASE \E p \in Prices : pool' = Moved(p)
      BY <2>1, <2>8, <3>2, PoolKeeps DEF RefillMined
    <3>. QED BY <2>8, <3>1, <3>2 DEF RefillMined
  <2>9. CASE Sponsored
    BY <2>1, <2>9, ApartKeeps DEF Sponsored
  <2>10. CASE Tick
    BY <2>1, <2>10, TickKeeps
  <2>. QED BY <2>1, <2>2, <2>3, <2>4, <2>5, <2>6, <2>7, <2>8, <2>9, <2>10 DEF KeepersNext
<1>3. KeepersInv => PriceIsWindowAverage
  <2>1. SUFFICES ASSUME KeepersInv, Exposed # 0 PROVE PriceIsWindowAverage
    BY DEF PriceIsWindowAverage
  <2>2. Exposed = oracle.rate /\ oracle.rate # 0 /\ tick <= oracle.at + MAX_TWAP_AGE
    BY <2>1 DEF Exposed, Fresh
  <2>3. tick - oracle.at <= MAX_TWAP_AGE
    BY <2>1, <2>2, KeepersAssumption DEF KeepersInv, KeepersTypeOK
  <2>. QED BY <2>1, <2>2, <2>3 DEF KeepersInv, PriceIsWindowAverage, Area, AreaOf
<1>. QED BY <1>1, <1>2, <1>3, PTL DEF KeepersSpec

-----------------------------------------------------------------------------
(* The DAO of one deed. *)

Balances == [Voters \cup {Reserve} -> Nat]

DaoProposals ==
  [proposer : Voters, snapshot : Balances, snapshotSupply : Nat, deadline : Nat,
   forVotes : Nat, againstVotes : Nat, epoch : Nat, executed : BOOLEAN]

(* A proposal counts what its voters held in its snapshot, was executed on *)
(* a majority of a quorum and not before its deadline, and is of the       *)
(* present holder unless the deed has been sold.                           *)
Counted(p, voted) ==
  /\ p.snapshotSupply = SumFunctionOnSet(p.snapshot, Voters)
  /\ p.forVotes + p.againstVotes = SumFunctionOnSet(p.snapshot, voted)
Carried(p) ==
  /\ p.forVotes > p.againstVotes
  /\ p.forVotes + p.againstVotes >= PortionCeil(p.snapshotSupply, QUORUM_BPS)
SoundProposal(p, voted, now, deedNow) ==
  /\ Counted(p, voted)
  /\ p.executed => Carried(p) /\ now > p.deadline
  /\ p.epoch <= deedNow.epoch /\ (p.epoch = deedNow.epoch => p.proposer = deedNow.holder)

(* A call names a proposal there is.                                       *)
CallKnown(c) ==
  \/ c.name = "propose"
  \/ c.name = "castVote" /\ c.id \in 1 .. Len(proposals) /\ c.support \in BOOLEAN
  \/ c.name = "execute" /\ c.id \in 1 .. Len(proposals)

DaoTypeOK ==
  /\ height \in Nat
  /\ wallets \in Balances /\ checkpoint \in Balances
  /\ deed \in [holder : Voters, epoch : Nat]
  /\ proposals \in Seq(DaoProposals) /\ hasVoted \in Seq(SUBSET Voters)
  /\ Len(hasVoted) = Len(proposals)
  /\ account \in Voters
  /\ call # NoCall => call.from \in Voters /\ CallKnown(call.request)

ProposalsSound ==
  \A id \in 1 .. Len(proposals) : SoundProposal(proposals[id], hasVoted[id], height, deed)

DaoInv == DaoTypeOK /\ ProposalsSound

(* The wallets of the voters together are a natural number, and so are     *)
(* those of some of them, which is not more.                               *)
LEMMA VotersSum ==
  ASSUME NEW balances \in Balances, NEW some \in SUBSET Voters
  PROVE  /\ IsFiniteSet(some)
         /\ SumFunctionOnSet(balances, some) \in Nat
         /\ SumFunctionOnSet(balances, Voters) \in Nat
         /\ SumFunctionOnSet(balances, some) <= SumFunctionOnSet(balances, Voters)
<1>1. IsFiniteSet(Voters) /\ IsFiniteSet(some)
  BY ChainDaoAssumption, FS_Subset
<1>2. \A v \in Voters : balances[v] \in Nat
  BY DEF Balances
<1>3. SumFunctionOnSet(balances, Voters) \in Nat
  BY ONLY <1>1, <1>2, SumNat
<1>4. SumFunctionOnSet(balances, some) \in Nat
  BY <1>1, <1>2, SumNat
<1>5. SumFunctionOnSet(balances, some) <= SumFunctionOnSet(balances, Voters)
  BY <1>1, <1>2, SumSubset
<1>. QED BY <1>1, <1>3, <1>4, <1>5

LEMMA ProposeKeeps ==
  ASSUME DaoInv, NEW v \in Voters, Propose(v), UNCHANGED <<height, deed>>
  PROVE  /\ proposals' \in Seq(DaoProposals) /\ hasVoted' \in Seq(SUBSET Voters)
         /\ Len(hasVoted') = Len(proposals') /\ Len(proposals') >= Len(proposals)
         /\ ProposalsSound'
<1>1. DaoTypeOK /\ ProposalsSound /\ deed.holder = v
  BY DEF DaoInv, Propose
<1>2. PICK supply \in Nat : supply = SumFunctionOnSet(checkpoint, Voters)
  BY <1>1, VotersSum DEF DaoTypeOK
<1>3. PICK p : p = [proposer |-> v, snapshot |-> checkpoint, snapshotSupply |-> supply,
                    deadline |-> height + VOTING_PERIOD, forVotes |-> 0, againstVotes |-> 0,
                    epoch |-> deed.epoch, executed |-> FALSE]
  OBVIOUS
<1>4. p \in DaoProposals
  <2>1. height + VOTING_PERIOD \in Nat
    BY <1>1, ChainDaoAssumption DEF DaoTypeOK
  <2>. QED BY <1>1, <1>3, <2>1 DEF DaoTypeOK, DaoProposals
<1>5. proposals' = Append(proposals, p) /\ hasVoted' = Append(hasVoted, {})
  BY <1>2, <1>3 DEF Propose, PastTotalSupply
<1>6. PICK n \in Nat : n = Len(proposals)
  BY <1>1, LenProperties DEF DaoTypeOK
<1>7. /\ proposals' \in Seq(DaoProposals) /\ Len(proposals') = n + 1
      /\ \A i \in 1 .. n : proposals'[i] = proposals[i]
      /\ proposals'[n + 1] = p
  BY <1>1, <1>4, <1>5, <1>6, AppendProperties DEF DaoTypeOK
<1>8. /\ hasVoted' \in Seq(SUBSET Voters) /\ Len(hasVoted') = n + 1
      /\ \A i \in 1 .. n : hasVoted'[i] = hasVoted[i]
      /\ hasVoted'[n + 1] = {}
  <2>1. {} \in SUBSET Voters /\ hasVoted \in Seq(SUBSET Voters) /\ Len(hasVoted) = n
    BY <1>1, <1>6 DEF DaoTypeOK
  <2>. QED BY <1>5, <2>1, AppendProperties
<1>9. SoundProposal(p, {}, height, deed)
  <2>1. p.forVotes + p.againstVotes = 0 /\ p.executed = FALSE /\ p.snapshotSupply = supply
        /\ p.snapshot = checkpoint /\ p.epoch = deed.epoch /\ p.proposer = deed.holder
    BY <1>1, <1>3
  <2>2. p.epoch <= deed.epoch
    BY <1>1, <2>1 DEF DaoTypeOK
  <2>. QED BY <1>2, <2>1, <2>2, SumEmpty DEF SoundProposal, Counted
<1>10. ProposalsSound'
  <2>1. ASSUME NEW id \in 1 .. n + 1
        PROVE  SoundProposal(proposals'[id], hasVoted'[id], height, deed)
    <3>1. CASE id \in 1 .. n
      BY <1>1, <1>6, <1>7, <1>8, <3>1 DEF ProposalsSound
    <3>2. CASE id = n + 1
      BY <1>7, <1>8, <1>9, <3>2
    <3>. QED BY <3>1, <3>2
  <2>. QED BY <1>7, <2>1 DEF ProposalsSound, SoundProposal, Counted, Carried, PortionCeil
<1>. QED BY <1>6, <1>7, <1>8, <1>10

(* The entry of one proposal changes, soundly.                             *)
LEMMA EntryKeeps ==
  ASSUME DaoInv, UNCHANGED <<height, deed>>, NEW id \in 1 .. Len(proposals),
         NEW p \in DaoProposals, proposals' = [proposals EXCEPT ![id] = p],
         NEW voted \in SUBSET Voters, hasVoted' = [hasVoted EXCEPT ![id] = voted],
         SoundProposal(p, voted, height, deed)
  PROVE  /\ proposals' \in Seq(DaoProposals) /\ hasVoted' \in Seq(SUBSET Voters)
         /\ Len(hasVoted') = Len(proposals') /\ Len(proposals') >= Len(proposals)
         /\ ProposalsSound'
<1>1. DaoTypeOK /\ ProposalsSound
  BY DEF DaoInv
<1>2. PICK n \in Nat : n = Len(proposals) /\ n = Len(hasVoted)
  BY <1>1, LenProperties DEF DaoTypeOK
<1>3. /\ proposals' \in Seq(DaoProposals) /\ Len(proposals') = n
      /\ \A i \in 1 .. n : proposals'[i] = IF i = id THEN p ELSE proposals[i]
  BY <1>1, <1>2, ExceptSeq DEF DaoTypeOK
<1>4. /\ hasVoted' \in Seq(SUBSET Voters) /\ Len(hasVoted') = n
      /\ \A i \in 1 .. n : hasVoted'[i] = IF i = id THEN voted ELSE hasVoted[i]
  BY <1>1, <1>2, ExceptSeq DEF DaoTypeOK
<1>5. ASSUME NEW i \in 1 .. n
      PROVE  SoundProposal(proposals'[i], hasVoted'[i], height, deed)
  <2>1. CASE i = id
    BY <1>3, <1>4, <2>1
  <2>2. CASE i # id
    BY <1>1, <1>2, <1>3, <1>4, <2>2 DEF ProposalsSound
  <2>. QED BY <2>1, <2>2
<1>6. ProposalsSound'
  BY <1>3, <1>5 DEF ProposalsSound, SoundProposal, Counted, Carried, PortionCeil
<1>. QED BY <1>2, <1>3, <1>4, <1>6

LEMMA VoteKeeps ==
  ASSUME DaoInv, NEW v \in Voters, NEW id \in 1 .. Len(proposals), NEW support \in BOOLEAN,
         CastVote(v, id, support), UNCHANGED <<height, deed>>
  PROVE  /\ proposals' \in Seq(DaoProposals) /\ hasVoted' \in Seq(SUBSET Voters)
         /\ Len(hasVoted') = Len(proposals') /\ Len(proposals') >= Len(proposals)
         /\ ProposalsSound'
<1>1. DaoTypeOK /\ ProposalsSound
  BY DEF DaoInv
<1>2. PICK p \in DaoProposals : p = proposals[id]
  BY <1>1, ElementOfSeq DEF DaoTypeOK
<1>3. PICK voted \in SUBSET Voters : voted = hasVoted[id]
  BY <1>1, ElementOfSeq DEF DaoTypeOK
<1>4. SoundProposal(p, voted, height, deed)
  BY <1>1, <1>2, <1>3 DEF ProposalsSound
<1>5. height <= p.deadline /\ v \notin voted
  BY <1>2, <1>3 DEF CastVote, MayVote
<1>6. p.executed = FALSE
  <2>1. height \in Nat /\ p.deadline \in Nat /\ p.executed \in BOOLEAN
    BY <1>1 DEF DaoTypeOK, DaoProposals
  <2>2. p.executed => height > p.deadline
    BY <1>4 DEF SoundProposal
  <2>. QED BY <1>5, <2>1, <2>2
<1>7. PICK weight \in Nat : weight = p.snapshot[v]
  BY DEF DaoProposals, Balances
<1>8. PICK q : q = IF support THEN [p EXCEPT !.forVotes = p.forVotes + weight]
                              ELSE [p EXCEPT !.againstVotes = p.againstVotes + weight]
  OBVIOUS
<1>9. proposals' = [proposals EXCEPT ![id] = q] /\ hasVoted' = [hasVoted EXCEPT ![id] = voted \cup {v}]
  BY <1>2, <1>3, <1>7, <1>8 DEF CastVote, AddVotes
<1>10. /\ q \in DaoProposals /\ q.proposer = p.proposer /\ q.snapshot = p.snapshot
       /\ q.snapshotSupply = p.snapshotSupply /\ q.deadline = p.deadline /\ q.epoch = p.epoch
       /\ q.executed = FALSE
       /\ q.forVotes + q.againstVotes = (p.forVotes + p.againstVotes) + weight
  <2>1. p.forVotes \in Nat /\ p.againstVotes \in Nat
        /\ p.forVotes + weight \in Nat /\ p.againstVotes + weight \in Nat
    BY DEF DaoProposals
  <2>2. CASE support
    BY <1>6, <1>8, <2>1, <2>2 DEF DaoProposals
  <2>3. CASE ~ support
    <3>1. q = [p EXCEPT !.againstVotes = p.againstVotes + weight]
      BY <1>8, <2>3
    <3>2. /\ q \in DaoProposals /\ q.proposer = p.proposer /\ q.snapshot = p.snapshot
          /\ q.snapshotSupply = p.snapshotSupply /\ q.deadline = p.deadline /\ q.epoch = p.epoch
          /\ q.executed = FALSE
      BY <1>6, <2>1, <3>1 DEF DaoProposals
    <3>3. q.forVotes = p.forVotes /\ q.againstVotes = p.againstVotes + weight
      BY <3>1 DEF DaoProposals
    <3>. QED BY <2>1, <3>2, <3>3
  <2>. QED BY <2>2, <2>3
<1>11. SumFunctionOnSet(p.snapshot, voted \cup {v}) = SumFunctionOnSet(p.snapshot, voted) + weight
  <2>1. PICK f : f = p.snapshot
    OBVIOUS
  <2>2. IsFiniteSet(voted) /\ \A y \in voted \cup {v} : f[y] \in Int
    BY <2>1, ChainDaoAssumption, FS_Subset DEF DaoProposals, Balances
  <2>3. SumFunctionOnSet(f, voted \cup {v}) = SumFunctionOnSet(f, voted) + f[v]
    BY ONLY <1>5, <2>2, SumAdd
  <2>. QED BY <1>7, <2>1, <2>3
<1>12. SoundProposal(q, voted \cup {v}, height, deed)
  BY <1>4, <1>10, <1>11 DEF SoundProposal, Counted
<1>13. voted \cup {v} \in SUBSET Voters
  OBVIOUS
<1>. QED BY <1>9, <1>10, <1>12, <1>13, EntryKeeps

(* What a proposal that has succeeded is.                                  *)
LEMMA SucceededMeans ==
  ASSUME NEW id, State(id) = "Succeeded", height \in Nat,
         proposals[id] \in DaoProposals
  PROVE  /\ Carried(proposals[id]) /\ height > proposals[id].deadline
         /\ deed.epoch = proposals[id].epoch /\ ~ proposals[id].executed
<1>1. PICK p \in DaoProposals : p = proposals[id]
  OBVIOUS
<1>2. p.deadline \in Nat /\ p.executed \in BOOLEAN
  BY DEF DaoProposals
<1>3. ~ p.executed /\ deed.epoch = p.epoch /\ ~ height <= p.deadline
  BY <1>1, <1>2 DEF State
<1>4. p.forVotes + p.againstVotes >= PortionCeil(p.snapshotSupply, QUORUM_BPS)
      /\ p.forVotes > p.againstVotes
  BY <1>1, <1>2, <1>3 DEF State
<1>. QED BY <1>1, <1>2, <1>3, <1>4 DEF Carried

LEMMA ExecutionKeeps ==
  ASSUME DaoInv, NEW id \in 1 .. Len(proposals), Execute(id), UNCHANGED <<height, deed>>
  PROVE  /\ proposals' \in Seq(DaoProposals) /\ hasVoted' \in Seq(SUBSET Voters)
         /\ Len(hasVoted') = Len(proposals') /\ Len(proposals') >= Len(proposals)
         /\ ProposalsSound'
<1>1. DaoTypeOK /\ ProposalsSound
  BY DEF DaoInv
<1>2. PICK p \in DaoProposals : p = proposals[id]
  BY <1>1, ElementOfSeq DEF DaoTypeOK
<1>3. PICK voted \in SUBSET Voters : voted = hasVoted[id]
  BY <1>1, ElementOfSeq DEF DaoTypeOK
<1>4. SoundProposal(p, voted, height, deed) /\ Carried(p) /\ height > p.deadline
  <2>1. height \in Nat /\ State(id) = "Succeeded"
    BY <1>1 DEF DaoTypeOK, Execute
  <2>2. Carried(proposals[id]) /\ height > proposals[id].deadline
    BY <1>2, <2>1, SucceededMeans
  <2>. QED BY <1>1, <1>2, <1>3, <2>2 DEF ProposalsSound
<1>5. PICK q : q = [p EXCEPT !.executed = TRUE]
  OBVIOUS
<1>6. /\ q \in DaoProposals /\ q.proposer = p.proposer /\ q.snapshot = p.snapshot
      /\ q.snapshotSupply = p.snapshotSupply /\ q.deadline = p.deadline /\ q.epoch = p.epoch
      /\ q.forVotes = p.forVotes /\ q.againstVotes = p.againstVotes
  BY <1>5 DEF DaoProposals
<1>7. SoundProposal(q, voted, height, deed)
  BY <1>4, <1>6 DEF SoundProposal, Counted, Carried
<1>8. proposals' = [proposals EXCEPT ![id] = q]
  BY <1>2, <1>5 DEF Execute
<1>9. hasVoted' = [hasVoted EXCEPT ![id] = voted]
  BY <1>1, <1>3 DEF Execute, DaoTypeOK
<1>. QED BY <1>6, <1>7, <1>8, <1>9, EntryKeeps

LEMMA CallEffectKeeps ==
  ASSUME DaoInv, NEW v \in Voters, NEW c, CallKnown(c), Effect(v, c),
         UNCHANGED <<height, wallets, checkpoint, deed, account>>, call' = call \/ call' = NoCall
  PROVE  DaoInv'
<1>1. /\ proposals' \in Seq(DaoProposals) /\ hasVoted' \in Seq(SUBSET Voters)
      /\ Len(hasVoted') = Len(proposals') /\ Len(proposals') >= Len(proposals)
      /\ ProposalsSound'
  <2>1. CASE c.name = "propose"
    BY <2>1, ProposeKeeps DEF Effect
  <2>2. CASE c.name = "castVote"
    BY <2>2, VoteKeeps DEF Effect, CallKnown
  <2>3. CASE c.name = "execute"
    BY <2>3, ExecutionKeeps DEF Effect, CallKnown
  <2>. QED BY <2>1, <2>2, <2>3 DEF Effect
<1>2. DaoTypeOK
  BY DEF DaoInv
<1>3. Len(proposals) \in Nat /\ Len(proposals') \in Nat
  BY <1>1, <1>2, LenProperties DEF DaoTypeOK
<1>4. call' # NoCall => call'.from \in Voters /\ CallKnown(call.request)'
  <2>1. \A i \in 1 .. Len(proposals) : i \in 1 .. Len(proposals')
    BY <1>1, <1>3
  <2>. QED BY <1>2, <2>1 DEF DaoTypeOK, CallKnown
<1>5. DaoTypeOK'
  BY <1>1, <1>2, <1>4 DEF DaoTypeOK
<1>. QED BY <1>1, <1>5 DEF DaoInv

(* A step that leaves the proposals alone; time goes on and the deed may   *)
(* be sold.                                                                *)
LEMMA AsideKeeps ==
  ASSUME DaoInv, UNCHANGED <<proposals, hasVoted>>,
         wallets' \in Balances, checkpoint' \in Balances,
         height' \in Nat, height' >= height, account' \in Voters,
         deed' = deed \/ (deed' \in [holder : Voters, epoch : Nat] /\ deed'.epoch > deed.epoch),
         call' = call \/ call' = NoCall \/ (call'.from \in Voters /\ CallKnown(call'.request))
  PROVE  DaoInv'
<1>1. DaoTypeOK /\ ProposalsSound
  BY DEF DaoInv
<1>2. DaoTypeOK'
  BY <1>1 DEF DaoTypeOK, CallKnown
<1>3. ASSUME NEW id \in 1 .. Len(proposals)
      PROVE  SoundProposal(proposals[id], hasVoted[id], height', deed')
  <2>1. PICK p \in DaoProposals : p = proposals[id]
    BY <1>1, ElementOfSeq DEF DaoTypeOK
  <2>2. SoundProposal(p, hasVoted[id], height, deed)
    BY <1>1, <2>1 DEF ProposalsSound
  <2>3. p.deadline \in Nat /\ p.epoch \in Nat /\ height \in Nat /\ deed.epoch \in Nat
    BY <1>1 DEF DaoTypeOK, DaoProposals
  <2>4. p.executed => Carried(p) /\ height' > p.deadline
    BY <2>2, <2>3 DEF SoundProposal
  <2>5. p.epoch <= deed'.epoch /\ (p.epoch = deed'.epoch => p.proposer = deed'.holder)
    BY <2>2, <2>3 DEF SoundProposal
  <2>. QED BY <2>1, <2>2, <2>4, <2>5 DEF SoundProposal
<1>4. ProposalsSound'
  BY <1>3 DEF ProposalsSound, SoundProposal, Counted, Carried, PortionCeil
<1>. QED BY <1>2, <1>4 DEF DaoInv

(* What anybody calls names a proposal there is.                           *)
LEMMA KnownCalls ==
  ASSUME DaoInv, NEW c \in Calls
  PROVE  CallKnown(c)
<1>1. DOMAIN proposals = 1 .. Len(proposals)
  BY LenProperties DEF DaoInv, DaoTypeOK
<1>. QED BY <1>1 DEF Calls, CallKnown

LEMMA DaoInitHolds == DaoInit => DaoInv
<1>1. SUFFICES ASSUME DaoInit PROVE DaoInv
  OBVIOUS
<1>2. wallets = [a \in Voters \cup {Reserve} |-> IF a = Reserve THEN 0 ELSE 1]
  BY <1>1 DEF DaoInit
<1>3. wallets \in Balances
  BY <1>2 DEF Balances
<1>4. proposals = <<>> /\ hasVoted = <<>> /\ Len(proposals) = 0 /\ Len(hasVoted) = 0
      /\ proposals \in Seq(DaoProposals) /\ hasVoted \in Seq(SUBSET Voters)
  BY <1>1, EmptySeq DEF DaoInit
<1>5. DaoTypeOK
  BY <1>1, <1>3, <1>4 DEF DaoInit, DaoTypeOK
<1>. QED BY <1>4, <1>5 DEF DaoInv, ProposalsSound

(* No VOID votes twice on a proposal, none is executed without a majority  *)
(* of a quorum, and none that may be is of a former holder.                *)
THEOREM VotesAreSnapshots == DaoSpec => []NoVoidVotesTwice
<1>1. DaoInit => DaoInv
  BY DaoInitHolds
<1>2. DaoInv /\ [DaoNext]_daoVars => DaoInv'
  <2>1. SUFFICES ASSUME DaoInv, [DaoNext]_daoVars PROVE DaoInv'
    OBVIOUS
  <2>0. /\ wallets \in Balances /\ checkpoint \in Balances /\ height \in Nat /\ height >= height
        /\ account \in Voters /\ deed.epoch \in Nat
        /\ call # NoCall => call.from \in Voters /\ CallKnown(call.request)
    BY <2>1 DEF DaoInv, DaoTypeOK
  <2>2. CASE UNCHANGED daoVars
    BY <2>0, <2>1, <2>2, AsideKeeps DEF daoVars
  <2>3. ASSUME NEW v \in Voters, RefreshPanel(v) PROVE DaoInv'
    BY <2>0, <2>1, <2>3, AsideKeeps DEF RefreshPanel
  <2>4. ASSUME NEW v \in Voters, SellDeed(v) PROVE DaoInv'
    <3>1. deed' \in [holder : Voters, epoch : Nat] /\ deed'.epoch > deed.epoch
      BY <2>0, <2>4 DEF SellDeed
    <3>. QED BY <2>0, <2>1, <2>4, <3>1, AsideKeeps DEF SellDeed
  <2>5. ASSUME NEW v \in Voters, NEW c \in Calls, OtherClient(v, c) PROVE DaoInv'
    <3>1. CallKnown(c)
      BY <2>1, KnownCalls
    <3>. QED BY <2>1, <2>5, <3>1, CallEffectKeeps DEF OtherClient
  <2>6. ASSUME NEW c \in Calls, SendCall(c) PROVE DaoInv'
    <3>1. CallKnown(c)
      BY <2>1, KnownCalls
    <3>2. call' = [from |-> account, request |-> c]
      BY <2>6 DEF SendCall
    <3>3. call'.from \in Voters /\ CallKnown(call'.request)
      BY <2>0, <3>1, <3>2
    <3>. QED BY <2>0, <2>1, <2>6, <3>3, AsideKeeps DEF SendCall
  <2>7. CASE Included
    BY <2>0, <2>1, <2>7, CallEffectKeeps DEF Included
  <2>8. CASE Reverted
    BY <2>0, <2>1, <2>8, AsideKeeps DEF Reverted
  <2>9. ASSUME NEW a \in DOMAIN wallets, NEW b \in DOMAIN wallets \ {a}, TransferVoid(a, b)
        PROVE  DaoInv'
    <3>1. wallets' \in Balances
      BY <2>0, <2>9 DEF TransferVoid, Balances
    <3>. QED BY <2>0, <2>1, <2>9, <3>1, AsideKeeps DEF TransferVoid
  <2>10. CASE NextBlock
    <3>1. height' \in Nat /\ height' >= height
      BY <2>0, <2>10 DEF NextBlock
    <3>. QED BY <2>0, <2>1, <2>10, <3>1, AsideKeeps DEF NextBlock
  <2>. QED BY <2>1, <2>2, <2>3, <2>4, <2>5, <2>6, <2>7, <2>8, <2>9, <2>10 DEF DaoNext
<1>3. DaoInv => NoVoidVotesTwice
  <2>1. SUFFICES ASSUME DaoInv, NEW id \in DOMAIN proposals
                 PROVE  LET p == proposals[id]
                        IN  /\ p.forVotes + p.againstVotes <= p.snapshotSupply
                            /\ p.executed => Carried(p)
                            /\ State(id) = "Succeeded" => deed.holder = p.proposer
    BY DEF NoVoidVotesTwice, Carried
  <2>2. DaoTypeOK /\ ProposalsSound
    BY <2>1 DEF DaoInv
  <2>3. id \in 1 .. Len(proposals)
    BY <2>1, <2>2, LenProperties DEF DaoTypeOK
  <2>4. PICK p \in DaoProposals : p = proposals[id]
    BY <2>2, <2>3, ElementOfSeq DEF DaoTypeOK
  <2>5. PICK voted \in SUBSET Voters : voted = hasVoted[id]
    BY <2>2, <2>3, ElementOfSeq DEF DaoTypeOK
  <2>6. SoundProposal(p, voted, height, deed)
    BY <2>2, <2>3, <2>4, <2>5 DEF ProposalsSound
  <2>7. p.forVotes + p.againstVotes <= p.snapshotSupply
    <3>1. PICK f \in Balances : f = p.snapshot
      BY DEF DaoProposals
    <3>2. SumFunctionOnSet(f, voted) <= SumFunctionOnSet(f, Voters)
      BY VotersSum
    <3>. QED BY <2>6, <3>1, <3>2 DEF SoundProposal, Counted
  <2>8. State(id) = "Succeeded" => deed.epoch = p.epoch
    BY <2>2, <2>4, SucceededMeans DEF DaoTypeOK
  <2>. QED BY <2>4, <2>6, <2>7, <2>8 DEF SoundProposal
<1>. QED BY <1>1, <1>2, <1>3, PTL DEF DaoSpec

-----------------------------------------------------------------------------
(* Claims. *)

(* What is pending for h, and all that the books have for h.               *)
PendingFor(b, h) == SumFunctionOnSet(b.pending, {d \in Deeds : b.pendingOwner[d] = h})
Credited(b, h) == b.owed[h] + b.claimable[h] + PendingFor(b, h) + b.paid[h]

BooksType ==
  [pending : [Deeds -> Nat], pendingOwner : [Deeds -> Holders \cup {NoOwner}],
   owed : [Holders -> Nat], claimable : [Holders -> Nat], paid : [Holders -> Nat]]

(* What is pending is pending for somebody.                                *)
BooksOK(b) ==
  /\ b \in BooksType
  /\ \A d \in Deeds : b.pending[d] # 0 => b.pendingOwner[d] \in Holders

(* The button is that of one deed and one account.                         *)
ButtonOK(record) ==
  /\ {"deed", "account"} \subseteq DOMAIN record
  /\ record.deed \in Deeds /\ record.account \in Holders

ClaimsInv ==
  /\ title \in [Deeds -> Holders]
  /\ earned \in [Holders -> Nat]
  /\ ButtonOK(button)
  /\ BooksOK(books)
  /\ \A h \in Holders : earned[h] = Credited(books, h)

(* Books are the five maps they are made of.                               *)
LEMMA BooksMade ==
  ASSUME NEW b \in BooksType
  PROVE  \E p \in [Deeds -> Nat], w \in [Deeds -> Holders \cup {NoOwner}],
            u \in [Holders -> Nat], v \in [Holders -> Nat], x \in [Holders -> Nat] :
           b = [pending |-> p, pendingOwner |-> w, owed |-> u, claimable |-> v, paid |-> x]
<1>1. b = [pending |-> b.pending, pendingOwner |-> b.pendingOwner, owed |-> b.owed,
           claimable |-> b.claimable, paid |-> b.paid]
  BY DEF BooksType
<1>2. /\ b.pending \in [Deeds -> Nat] /\ b.pendingOwner \in [Deeds -> Holders \cup {NoOwner}]
      /\ b.owed \in [Holders -> Nat] /\ b.claimable \in [Holders -> Nat]
      /\ b.paid \in [Holders -> Nat]
  BY DEF BooksType
<1>. QED BY <1>1, <1>2

(* The bucket of a deed changes its amount, its owner, or both.            *)
LEMMA PendingMoves ==
  ASSUME NEW b, BooksOK(b), NEW d \in Deeds, NEW n \in Nat, NEW o,
         NEW c, c.pending = [b.pending EXCEPT ![d] = n],
         c.pendingOwner = [b.pendingOwner EXCEPT ![d] = o],
         NEW h
  PROVE  /\ PendingFor(b, h) \in Nat
         /\ b.pendingOwner[d] = h /\ o = h =>
              PendingFor(c, h) + b.pending[d] = PendingFor(b, h) + n
         /\ b.pendingOwner[d] = h /\ o # h => PendingFor(c, h) + b.pending[d] = PendingFor(b, h)
         /\ b.pendingOwner[d] # h /\ o = h => PendingFor(c, h) = PendingFor(b, h) + n
         /\ b.pendingOwner[d] # h /\ o # h => PendingFor(c, h) = PendingFor(b, h)
<1>1. PICK p \in [Deeds -> Nat] : p = b.pending
  BY DEF BooksOK, BooksType
<1>2. PICK owner \in [Deeds -> Holders \cup {NoOwner}] : owner = b.pendingOwner
  BY DEF BooksOK, BooksType
<1>3. PICK q \in [Deeds -> Nat] : q = c.pending /\ q[d] = n /\ \A e \in Deeds \ {d} : q[e] = p[e]
  BY <1>1
<1>4. PICK others : others = {e \in Deeds \ {d} : owner[e] = h}
  OBVIOUS
<1>5. IsFiniteSet(others) /\ d \notin others
  BY <1>4, ClaimsAssumption, FS_Subset
<1>6. PICK before : before = {e \in Deeds : owner[e] = h}
  OBVIOUS
<1>7. PICK after : after = {e \in Deeds : c.pendingOwner[e] = h}
  OBVIOUS
<1>8. /\ owner[d] = h => before = others \cup {d}
      /\ owner[d] # h => before = others
      /\ o = h => after = others \cup {d}
      /\ o # h => after = others
  <2>1. c.pendingOwner[d] = o /\ \A e \in Deeds \ {d} : c.pendingOwner[e] = owner[e]
    BY <1>2
  <2>. QED BY <1>4, <1>6, <1>7, <2>1
<1>9. PICK rest \in Nat : rest = SumFunctionOnSet(p, others)
  <2>1. \A e \in others : p[e] \in Nat
    BY <1>4
  <2>. QED BY <1>5, <2>1, SumNat
<1>10. SumFunctionOnSet(q, others) = rest
  <2>1. \A e \in others : q[e] = p[e]
    BY <1>3, <1>4
  <2>. QED BY <1>5, <1>9, <2>1, SumSame
<1>11. SumFunctionOnSet(p, others \cup {d}) = rest + p[d]
  <2>1. \A e \in others \cup {d} : p[e] \in Int
    BY <1>4
  <2>. QED BY <1>5, <1>9, <2>1, SumAdd
<1>12. SumFunctionOnSet(q, others \cup {d}) = rest + n
  <2>1. \A e \in others \cup {d} : q[e] \in Int
    BY <1>4
  <2>2. SumFunctionOnSet(q, others \cup {d}) = SumFunctionOnSet(q, others) + q[d]
    BY ONLY <1>5, <2>1, SumAdd
  <2>. QED BY <1>3, <1>10, <2>2
<1>13. PendingFor(b, h) = SumFunctionOnSet(p, before) /\ PendingFor(c, h) = SumFunctionOnSet(q, after)
  BY <1>1, <1>2, <1>3, <1>6, <1>7 DEF PendingFor
<1>14. PICK m \in Nat : m = p[d] /\ m = b.pending[d]
  BY <1>1
<1>15. owner[d] = h => PendingFor(b, h) = rest + m
  BY <1>8, <1>11, <1>13, <1>14
<1>16. owner[d] # h => PendingFor(b, h) = rest
  BY <1>8, <1>9, <1>13
<1>17. o = h => PendingFor(c, h) = rest + n
  BY <1>8, <1>12, <1>13
<1>18. o # h => PendingFor(c, h) = rest
  BY <1>8, <1>10, <1>13
<1>. QED BY ONLY <1>2, <1>14, <1>15, <1>16, <1>17, <1>18, rest \in Nat, m \in Nat, n \in Nat

(* Emptying a bucket into the next one loses nothing.                      *)
LEMMA ParkedKeeps ==
  ASSUME NEW b, BooksOK(b), NEW d \in Deeds, b.pending[d] # 0
  PROVE  /\ BooksOK(Parked(b, d)) /\ Parked(b, d).pending[d] = 0
         /\ \A h \in Holders : Credited(Parked(b, d), h) = Credited(b, h)
<1>1. PICK c : c = Parked(b, d)
  OBVIOUS
<1>2. PICK o \in Holders : o = b.pendingOwner[d]
  BY DEF BooksOK
<1>3. PICK n \in Nat : n = b.pending[d]
  BY DEF BooksOK, BooksType
<1>4. /\ b \in BooksType /\ c \in BooksType
      /\ c.pending = [b.pending EXCEPT ![d] = 0] /\ c.pendingOwner = b.pendingOwner
      /\ c.owed = [b.owed EXCEPT ![o] = b.owed[o] + n]
      /\ c.claimable = b.claimable /\ c.paid = b.paid
  <2>1. PICK p \in [Deeds -> Nat], w \in [Deeds -> Holders \cup {NoOwner}],
             u \in [Holders -> Nat], v \in [Holders -> Nat], x \in [Holders -> Nat] :
          b = [pending |-> p, pendingOwner |-> w, owed |-> u, claimable |-> v, paid |-> x]
    BY BooksMade DEF BooksOK
  <2>2. c = [pending |-> [p EXCEPT ![d] = 0], pendingOwner |-> w,
             owed |-> [u EXCEPT ![o] = u[o] + n], claimable |-> v, paid |-> x]
    BY <1>1, <1>2, <1>3, <2>1 DEF Parked
  <2>3. c \in BooksType
    <3>1. [p EXCEPT ![d] = 0] \in [Deeds -> Nat] /\ [u EXCEPT ![o] = u[o] + n] \in [Holders -> Nat]
      OBVIOUS
    <3>. QED BY <2>2, <3>1 DEF BooksType
  <2>. QED BY <2>1, <2>2, <2>3 DEF BooksType
<1>5. BooksOK(c) /\ c.pending[d] = 0
  BY <1>4 DEF BooksOK, BooksType
<1>6. ASSUME NEW h \in Holders PROVE Credited(c, h) = Credited(b, h)
  <2>1. c.pendingOwner = [b.pendingOwner EXCEPT ![d] = o]
    BY <1>2, <1>4 DEF BooksType
  <2>2. /\ PendingFor(b, h) \in Nat
        /\ o = h => PendingFor(c, h) + n = PendingFor(b, h) + 0
        /\ o # h => PendingFor(c, h) = PendingFor(b, h)
    BY <1>2, <1>3, <1>4, <2>1, PendingMoves
  <2>3. o = h => PendingFor(c, h) \in Nat
    <3>1. \A e \in Deeds : c.pending[e] \in Nat
      BY <1>4 DEF BooksType
    <3>. QED BY <3>1, SumNat, ClaimsAssumption, FS_Subset DEF PendingFor
  <2>4. b.owed[h] \in Nat /\ b.claimable[h] \in Nat /\ b.paid[h] \in Nat
    BY <1>4 DEF BooksType
  <2>5. c.claimable[h] = b.claimable[h] /\ c.paid[h] = b.paid[h]
        /\ (o = h => c.owed[h] = b.owed[h] + n) /\ (o # h => c.owed[h] = b.owed[h])
    BY <1>4 DEF BooksType
  <2>6. PICK u \in Nat : u = PendingFor(b, h)
    BY <2>2
  <2>7. CASE o = h
    <3>1. PICK v \in Nat : v = PendingFor(c, h)
      BY <2>3, <2>7
    <3>. QED BY <2>2, <2>4, <2>5, <2>6, <2>7, <3>1 DEF Credited
  <2>8. CASE o # h
    BY <2>2, <2>5, <2>8 DEF Credited
  <2>. QED BY <2>7, <2>8
<1>. QED BY <1>1, <1>5, <1>6

LEMMA FlushedKeeps ==
  ASSUME NEW b, BooksOK(b), NEW d \in Deeds, b.pending[d] # 0
  PROVE  /\ BooksOK(Flushed(b, d)) /\ Flushed(b, d).pending[d] = 0
         /\ \A h \in Holders : Credited(Flushed(b, d), h) = Credited(b, h)
<1>1. PICK c : c = Flushed(b, d)
  OBVIOUS
<1>2. PICK o \in Holders : o = b.pendingOwner[d]
  BY DEF BooksOK
<1>3. PICK n \in Nat : n = b.pending[d]
  BY DEF BooksOK, BooksType
<1>4. /\ b \in BooksType /\ c \in BooksType
      /\ c.pending = [b.pending EXCEPT ![d] = 0]
      /\ c.pendingOwner = [b.pendingOwner EXCEPT ![d] = NoOwner]
      /\ c.claimable = [b.claimable EXCEPT ![o] = b.claimable[o] + n]
      /\ c.owed = b.owed /\ c.paid = b.paid
  <2>1. PICK p \in [Deeds -> Nat], w \in [Deeds -> Holders \cup {NoOwner}],
             u \in [Holders -> Nat], v \in [Holders -> Nat], x \in [Holders -> Nat] :
          b = [pending |-> p, pendingOwner |-> w, owed |-> u, claimable |-> v, paid |-> x]
    BY BooksMade DEF BooksOK
  <2>2. c = [pending |-> [p EXCEPT ![d] = 0], pendingOwner |-> [w EXCEPT ![d] = NoOwner],
             owed |-> u, claimable |-> [v EXCEPT ![o] = v[o] + n], paid |-> x]
    BY <1>1, <1>2, <1>3, <2>1 DEF Flushed
  <2>3. c \in BooksType
    <3>1. /\ [p EXCEPT ![d] = 0] \in [Deeds -> Nat]
          /\ [w EXCEPT ![d] = NoOwner] \in [Deeds -> Holders \cup {NoOwner}]
          /\ [v EXCEPT ![o] = v[o] + n] \in [Holders -> Nat]
      OBVIOUS
    <3>. QED BY <2>2, <3>1 DEF BooksType
  <2>. QED BY <2>1, <2>2, <2>3 DEF BooksType
<1>5. BooksOK(c) /\ c.pending[d] = 0
  BY <1>4 DEF BooksOK, BooksType
<1>6. ASSUME NEW h \in Holders PROVE Credited(c, h) = Credited(b, h)
  <2>1. NoOwner # h
    BY ClaimsAssumption
  <2>2. /\ PendingFor(b, h) \in Nat
        /\ o = h => PendingFor(c, h) + n = PendingFor(b, h)
        /\ o # h => PendingFor(c, h) = PendingFor(b, h)
    BY <1>2, <1>3, <1>4, <2>1, PendingMoves
  <2>3. o = h => PendingFor(c, h) \in Nat
    <3>1. \A e \in Deeds : c.pending[e] \in Nat
      BY <1>4 DEF BooksType
    <3>. QED BY <3>1, SumNat, ClaimsAssumption, FS_Subset DEF PendingFor
  <2>4. b.owed[h] \in Nat /\ b.claimable[h] \in Nat /\ b.paid[h] \in Nat
    BY <1>4 DEF BooksType
  <2>5. c.owed[h] = b.owed[h] /\ c.paid[h] = b.paid[h]
        /\ (o = h => c.claimable[h] = b.claimable[h] + n)
        /\ (o # h => c.claimable[h] = b.claimable[h])
    BY <1>4 DEF BooksType
  <2>6. PICK u \in Nat : u = PendingFor(b, h)
    BY <2>2
  <2>7. CASE o = h
    <3>1. PICK v \in Nat : v = PendingFor(c, h)
      BY <2>3, <2>7
    <3>. QED BY <2>2, <2>4, <2>5, <2>6, <2>7, <3>1 DEF Credited
  <2>8. CASE o # h
    BY <2>2, <2>5, <2>8 DEF Credited
  <2>. QED BY <2>7, <2>8
<1>. QED BY <1>1, <1>5, <1>6

LEMMA OwedClaimedKeeps ==
  ASSUME NEW b, BooksOK(b), NEW g \in Holders
  PROVE  /\ BooksOK(OwedClaimed(b, g))
         /\ OwedClaimed(b, g).owed[g] = 0 /\ OwedClaimed(b, g).pending = b.pending
         /\ \A h \in Holders : Credited(OwedClaimed(b, g), h) = Credited(b, h)
<1>1. PICK c : c = OwedClaimed(b, g)
  OBVIOUS
<1>2. /\ b \in BooksType /\ c \in BooksType
      /\ c.pending = b.pending /\ c.pendingOwner = b.pendingOwner /\ c.paid = b.paid
      /\ c.owed = [b.owed EXCEPT ![g] = 0]
      /\ c.claimable = [b.claimable EXCEPT ![g] = b.claimable[g] + b.owed[g]]
  <2>1. PICK p \in [Deeds -> Nat], w \in [Deeds -> Holders \cup {NoOwner}],
             u \in [Holders -> Nat], v \in [Holders -> Nat], x \in [Holders -> Nat] :
          b = [pending |-> p, pendingOwner |-> w, owed |-> u, claimable |-> v, paid |-> x]
    BY BooksMade DEF BooksOK
  <2>2. c = [pending |-> p, pendingOwner |-> w, owed |-> [u EXCEPT ![g] = 0],
             claimable |-> [v EXCEPT ![g] = v[g] + u[g]], paid |-> x]
    BY <1>1, <2>1 DEF OwedClaimed
  <2>3. c \in BooksType
    <3>1. /\ [u EXCEPT ![g] = 0] \in [Holders -> Nat]
          /\ [v EXCEPT ![g] = v[g] + u[g]] \in [Holders -> Nat]
      OBVIOUS
    <3>. QED BY <2>2, <3>1 DEF BooksType
  <2>. QED BY <2>1, <2>2, <2>3 DEF BooksType
<1>3. BooksOK(c) /\ c.owed[g] = 0
  BY <1>2 DEF BooksOK, BooksType
<1>4. ASSUME NEW h \in Holders PROVE Credited(c, h) = Credited(b, h)
  <2>1. PendingFor(c, h) = PendingFor(b, h)
    BY <1>2 DEF PendingFor
  <2>2. b.owed[h] \in Nat /\ b.claimable[h] \in Nat
    BY <1>2 DEF BooksType
  <2>3. c.owed[h] + c.claimable[h] = b.owed[h] + b.claimable[h]
    BY <1>2, <2>2 DEF BooksType
  <2>. QED BY <1>2, <2>1, <2>3 DEF Credited
<1>. QED BY <1>1, <1>2, <1>3, <1>4

LEMMA PaidOutKeeps ==
  ASSUME NEW b, BooksOK(b), NEW g \in Holders
  PROVE  /\ BooksOK(PaidOut(b, g)) /\ PaidOut(b, g).claimable[g] = 0
         /\ PaidOut(b, g).owed = b.owed /\ PaidOut(b, g).pending = b.pending
         /\ \A h \in Holders : Credited(PaidOut(b, g), h) = Credited(b, h)
<1>1. PICK c : c = PaidOut(b, g)
  OBVIOUS
<1>2. /\ b \in BooksType /\ c \in BooksType
      /\ c.pending = b.pending /\ c.pendingOwner = b.pendingOwner /\ c.owed = b.owed
      /\ c.claimable = [b.claimable EXCEPT ![g] = 0]
      /\ c.paid = [b.paid EXCEPT ![g] = b.paid[g] + b.claimable[g]]
  <2>1. PICK p \in [Deeds -> Nat], w \in [Deeds -> Holders \cup {NoOwner}],
             u \in [Holders -> Nat], v \in [Holders -> Nat], x \in [Holders -> Nat] :
          b = [pending |-> p, pendingOwner |-> w, owed |-> u, claimable |-> v, paid |-> x]
    BY BooksMade DEF BooksOK
  <2>2. c = [pending |-> p, pendingOwner |-> w, owed |-> u,
             claimable |-> [v EXCEPT ![g] = 0], paid |-> [x EXCEPT ![g] = x[g] + v[g]]]
    BY <1>1, <2>1 DEF PaidOut
  <2>3. c \in BooksType
    <3>1. /\ [v EXCEPT ![g] = 0] \in [Holders -> Nat]
          /\ [x EXCEPT ![g] = x[g] + v[g]] \in [Holders -> Nat]
      OBVIOUS
    <3>. QED BY <2>2, <3>1 DEF BooksType
  <2>. QED BY <2>1, <2>2, <2>3 DEF BooksType
<1>3. BooksOK(c) /\ c.claimable[g] = 0
  BY <1>2 DEF BooksOK, BooksType
<1>4. ASSUME NEW h \in Holders PROVE Credited(c, h) = Credited(b, h)
  <2>1. PendingFor(c, h) = PendingFor(b, h) /\ PendingFor(b, h) \in Nat
    <3>1. \A e \in Deeds : b.pending[e] \in Nat
      BY <1>2 DEF BooksType
    <3>. QED BY <1>2, <3>1, SumNat, ClaimsAssumption, FS_Subset DEF PendingFor
  <2>2. PICK u \in Nat : u = PendingFor(b, h)
    BY <2>1
  <2>3. b.owed[h] \in Nat /\ b.claimable[h] \in Nat /\ b.paid[h] \in Nat
    BY <1>2 DEF BooksType
  <2>4. c.owed[h] = b.owed[h] /\ c.claimable[h] + c.paid[h] = b.claimable[h] + b.paid[h]
        /\ c.claimable[h] \in Nat /\ c.paid[h] \in Nat
    BY <1>2, <2>3 DEF BooksType
  <2>. QED BY <2>1, <2>2, <2>3, <2>4 DEF Credited
<1>. QED BY <1>1, <1>2, <1>3, <1>4

(* A step that leaves the deeds' holders and what was earned alone, and    *)
(* credits everybody with what it was credited with.                       *)
LEMMA BooksStepKeeps ==
  ASSUME ClaimsInv, UNCHANGED <<title, earned>>,
         ButtonOK(button'),
         BooksOK(books'), \A h \in Holders : Credited(books', h) = Credited(books, h)
  PROVE  ClaimsInv'
BY DEF ClaimsInv

LEMMA TollKeeps ==
  ASSUME ClaimsInv, NEW d \in Deeds, Toll(d)
  PROVE  ClaimsInv'
<1>1. PICK o \in Holders : o = title[d]
  BY DEF ClaimsInv
<1>2. PICK b : b = IF books.pending[d] > 0 /\ books.pendingOwner[d] # o
                   THEN Parked(books, d) ELSE books
  OBVIOUS
<1>3. BooksOK(books) /\ books.pending[d] \in Nat
  BY DEF ClaimsInv, BooksOK, BooksType
<1>4. BooksOK(b) /\ \A h \in Holders : Credited(b, h) = Credited(books, h)
  BY <1>2, <1>3, ParkedKeeps
<1>5. b.pending[d] # 0 => b.pendingOwner[d] = o
  BY <1>2, <1>3, ParkedKeeps
<1>6. PICK n \in Nat : n = b.pending[d]
  BY <1>4 DEF BooksOK, BooksType
<1>7. /\ books' = [b EXCEPT !.pending[d] = n + 1, !.pendingOwner[d] = o]
      /\ earned' = [earned EXCEPT ![o] = earned[o] + 1]
      /\ UNCHANGED <<title, button>>
  BY <1>1, <1>2, <1>6 DEF Toll
<1>8. PICK c : c = books'
  OBVIOUS
<1>9. /\ b \in BooksType /\ c \in BooksType
      /\ c.pending = [b.pending EXCEPT ![d] = n + 1]
      /\ c.pendingOwner = [b.pendingOwner EXCEPT ![d] = o]
      /\ c.owed = b.owed /\ c.claimable = b.claimable /\ c.paid = b.paid
  <2>1. PICK p \in [Deeds -> Nat], w \in [Deeds -> Holders \cup {NoOwner}],
             u \in [Holders -> Nat], v \in [Holders -> Nat], x \in [Holders -> Nat] :
          b = [pending |-> p, pendingOwner |-> w, owed |-> u, claimable |-> v, paid |-> x]
    BY BooksMade, <1>4 DEF BooksOK
  <2>2. c = [pending |-> [p EXCEPT ![d] = n + 1], pendingOwner |-> [w EXCEPT ![d] = o],
             owed |-> u, claimable |-> v, paid |-> x]
    BY <1>7, <1>8, <2>1 DEF BooksOK
  <2>3. c \in BooksType
    <3>1. /\ [p EXCEPT ![d] = n + 1] \in [Deeds -> Nat]
          /\ [w EXCEPT ![d] = o] \in [Deeds -> Holders \cup {NoOwner}]
      OBVIOUS
    <3>. QED BY <2>2, <3>1 DEF BooksType
  <2>. QED BY <2>1, <2>2, <2>3 DEF BooksType
<1>10. BooksOK(c)
  BY <1>4, <1>9 DEF BooksOK, BooksType
<1>11. ASSUME NEW h \in Holders PROVE earned'[h] = Credited(c, h)
  <2>1. /\ PendingFor(b, h) \in Nat
        /\ o = h => PendingFor(c, h) = PendingFor(b, h) + 1
        /\ o # h => PendingFor(c, h) = PendingFor(b, h)
    <3>1. n + 1 \in Nat
      OBVIOUS
    <3>2. /\ PendingFor(b, h) \in Nat
          /\ b.pendingOwner[d] = h /\ o = h => PendingFor(c, h) + n = PendingFor(b, h) + (n + 1)
          /\ b.pendingOwner[d] = h /\ o # h => PendingFor(c, h) + n = PendingFor(b, h)
          /\ b.pendingOwner[d] # h /\ o = h => PendingFor(c, h) = PendingFor(b, h) + (n + 1)
          /\ b.pendingOwner[d] # h /\ o # h => PendingFor(c, h) = PendingFor(b, h)
      BY <1>4, <1>6, <1>9, <3>1, PendingMoves
    <3>3. PendingFor(c, h) \in Nat
      <4>1. \A e \in Deeds : c.pending[e] \in Nat
        BY <1>9 DEF BooksType
      <4>. QED BY <4>1, SumNat, ClaimsAssumption, FS_Subset DEF PendingFor
    <3>4. PICK u \in Nat, v \in Nat : u = PendingFor(b, h) /\ v = PendingFor(c, h)
      BY <3>2, <3>3
    <3>5. b.pendingOwner[d] # o => n = 0
      BY <1>5, <1>6
    <3>. QED BY <3>2, <3>4, <3>5
  <2>2. earned[h] = Credited(b, h) /\ earned[h] \in Nat
    BY <1>4 DEF ClaimsInv
  <2>3. b.owed[h] \in Nat /\ b.claimable[h] \in Nat /\ b.paid[h] \in Nat
    BY <1>9 DEF BooksType
  <2>4. (o = h => earned'[h] = earned[h] + 1) /\ (o # h => earned'[h] = earned[h])
    BY <1>7 DEF ClaimsInv
  <2>5. PICK u \in Nat : u = PendingFor(b, h)
    BY <2>1
  <2>6. CASE o = h
    BY <1>9, <2>1, <2>2, <2>3, <2>4, <2>5, <2>6 DEF Credited
  <2>7. CASE o # h
    BY <1>9, <2>1, <2>2, <2>4, <2>7 DEF Credited
  <2>. QED BY <2>6, <2>7
<1>12. earned' \in [Holders -> Nat]
  BY <1>7 DEF ClaimsInv
<1>. QED BY <1>7, <1>8, <1>10, <1>11, <1>12 DEF ClaimsInv

(* Emptying one bucket, the claimer's three, and the button's transaction. *)
LEMMA EmptyKeeps ==
  ASSUME ClaimsInv, EmptyBucket
  PROVE  ClaimsInv'
<1>1. BooksOK(books) /\ UNCHANGED <<title, earned, button>>
      /\ ButtonOK(button)
  BY DEF ClaimsInv, EmptyBucket
<1>2. CASE \E d \in Deeds : books.pending[d] > 0 /\ books' = Flushed(books, d)
  <2>1. PICK d \in Deeds : books.pending[d] > 0 /\ books' = Flushed(books, d)
    BY <1>2
  <2>2. BooksOK(books') /\ \A h \in Holders : Credited(books', h) = Credited(books, h)
    BY <1>1, <2>1, FlushedKeeps
  <2>. QED BY <1>1, <2>2, BooksStepKeeps
<1>3. CASE \E h \in Holders : books.owed[h] > 0 /\ books' = OwedClaimed(books, h)
  <2>1. BooksOK(books') /\ \A h \in Holders : Credited(books', h) = Credited(books, h)
    BY <1>1, <1>3, OwedClaimedKeeps
  <2>. QED BY <1>1, <2>1, BooksStepKeeps
<1>4. CASE \E h \in Holders : books.claimable[h] > 0 /\ books' = PaidOut(books, h)
  <2>1. BooksOK(books') /\ \A h \in Holders : Credited(books', h) = Credited(books, h)
    BY <1>1, <1>4, PaidOutKeeps
  <2>. QED BY <1>1, <2>1, BooksStepKeeps
<1>. QED BY <1>2, <1>3, <1>4 DEF EmptyBucket

LEMMA ClaimAllEmpties ==
  ASSUME ClaimsInv, NEW d \in Deeds, ClaimAll(d)
  PROVE  /\ ClaimsInv'
         /\ Left(books', title[d], d) = 0
<1>1. PICK h \in Holders : h = title[d]
  BY DEF ClaimsInv
<1>2. BooksOK(books) /\ UNCHANGED <<title, earned, button>>
      /\ ButtonOK(button)
  BY DEF ClaimsInv, ClaimAll
<1>3. PICK b1 : b1 = FlushIfAny(books, d)
  OBVIOUS
<1>4. PICK b2 : b2 = ClaimOwedIfAny(b1, h)
  OBVIOUS
<1>5. PICK b3 : b3 = ClaimForIfAny(b2, h)
  OBVIOUS
<1>6. books' = b3
  BY <1>1, <1>3, <1>4, <1>5 DEF ClaimAll
<1>7. BooksOK(b1) /\ b1.pending[d] = 0 /\ \A g \in Holders : Credited(b1, g) = Credited(books, g)
  BY <1>2, <1>3, FlushedKeeps DEF FlushIfAny
<1>8. BooksOK(b2) /\ b2.pending[d] = 0 /\ b2.owed[h] = 0
      /\ \A g \in Holders : Credited(b2, g) = Credited(b1, g)
  BY <1>4, <1>7, OwedClaimedKeeps DEF ClaimOwedIfAny
<1>9. BooksOK(b3) /\ b3.pending[d] = 0 /\ b3.owed[h] = 0 /\ b3.claimable[h] = 0
      /\ \A g \in Holders : Credited(b3, g) = Credited(b2, g)
  BY <1>5, <1>8, PaidOutKeeps DEF ClaimForIfAny
<1>10. \A g \in Holders : Credited(b3, g) = Credited(books, g)
  BY <1>7, <1>8, <1>9
<1>11. ClaimsInv'
  BY <1>2, <1>6, <1>9, <1>10, BooksStepKeeps
<1>12. Left(b3, h, d) = 0
  <2>1. PICK r : r = Revenue(b3, h, d)
    OBVIOUS
  <2>2. r.pending = 0 /\ r.parked = 0 /\ r.ready = 0
    BY <1>9, <2>1 DEF Revenue
  <2>. QED BY <2>1, <2>2 DEF Left
<1>. QED BY <1>1, <1>6, <1>11, <1>12

LEMMA ConfirmedKeeps ==
  ASSUME ClaimsInv, StepConfirmed
  PROVE  ClaimsInv'
<1>1. PICK d \in Deeds, a \in Holders : d = button.deed /\ a = button.account
  BY DEF ClaimsInv, ButtonOK
<1>2. BooksOK(books) /\ UNCHANGED <<title, earned>>
  BY DEF ClaimsInv, StepConfirmed
<1>3. books' = Outcome /\ Succeeds /\ button.step \in {"flush", "owed", "claim"}
  BY DEF StepConfirmed, Transacting
<1>4. ButtonOK(button')
  BY DEF StepConfirmed, ClaimsInv, ButtonOK
<1>5. CASE button.step = "flush"
  <2>1. books.pending[d] # 0 /\ books' = Flushed(books, d)
    BY <1>1, <1>3, <1>5 DEF Succeeds, Outcome
  <2>2. BooksOK(books') /\ \A h \in Holders : Credited(books', h) = Credited(books, h)
    BY <1>2, <2>1, FlushedKeeps
  <2>. QED BY <1>2, <1>4, <2>2, BooksStepKeeps
<1>6. CASE button.step = "owed"
  <2>1. books' = OwedClaimed(books, a)
    BY <1>1, <1>3, <1>6 DEF Outcome
  <2>2. BooksOK(books') /\ \A h \in Holders : Credited(books', h) = Credited(books, h)
    BY <1>2, <2>1, OwedClaimedKeeps
  <2>. QED BY <1>2, <1>4, <2>2, BooksStepKeeps
<1>7. CASE button.step = "claim"
  <2>1. books' = PaidOut(books, a)
    BY <1>1, <1>3, <1>7 DEF Outcome
  <2>2. BooksOK(books') /\ \A h \in Holders : Credited(books', h) = Credited(books, h)
    BY <1>2, <2>1, PaidOutKeeps
  <2>. QED BY <1>2, <1>4, <2>2, BooksStepKeeps
<1>. QED BY <1>3, <1>5, <1>6, <1>7

(* Steps of the page and sales of a deed do not touch the books.           *)
LEMMA BooksRest ==
  ASSUME ClaimsInv, UNCHANGED <<earned, books>>, title' \in [Deeds -> Holders],
         ButtonOK(button')
  PROVE  ClaimsInv'
BY DEF ClaimsInv

LEMMA PageKeeps ==
  ASSUME ClaimsInv,
         \/ OpenPage \/ (\E h \in Holders : SwitchWallet(h)) \/ PressClaim
         \/ SendStep \/ ReadReady \/ StepReverted
  PROVE  ClaimsInv'
<1>1. title \in [Deeds -> Holders] /\ ButtonOK(button)
  BY DEF ClaimsInv
<1>2. UNCHANGED <<title, earned, books>>
  BY DEF OpenPage, SwitchWallet, PressClaim, SendStep, ReadReady, StepReverted
<1>3. ButtonOK(button')
  <2>1. StopClaim => ButtonOK(button')
    BY <1>1 DEF StopClaim, ButtonOK
  <2>2. OpenPage => ButtonOK(button')
    BY <1>1 DEF OpenPage, ButtonOK
  <2>3. \A h \in Holders : SwitchWallet(h) => ButtonOK(button')
    BY <1>1 DEF SwitchWallet, ButtonOK
  <2>4. PressClaim => ButtonOK(button')
    BY <1>1 DEF PressClaim, ButtonOK
  <2>5. SendStep => ButtonOK(button')
    BY <1>1, <2>1 DEF SendStep, ButtonOK
  <2>6. ReadReady => ButtonOK(button')
    BY <1>1, <2>1 DEF ReadReady, ButtonOK
  <2>7. StepReverted => ButtonOK(button')
    BY <2>1 DEF StepReverted
  <2>. QED BY <2>2, <2>3, <2>4, <2>5, <2>6, <2>7
<1>. QED BY <1>1, <1>2, <1>3, BooksRest

LEMMA ClaimsInitHolds == ClaimsInit => ClaimsInv
<1>1. SUFFICES ASSUME ClaimsInit PROVE ClaimsInv
  OBVIOUS
<1>2. /\ earned = [h \in Holders |-> 0]
      /\ books = [pending |-> [d \in Deeds |-> 0], pendingOwner |-> [d \in Deeds |-> NoOwner],
                  owed |-> earned, claimable |-> earned, paid |-> earned]
      /\ title \in [Deeds -> Holders] /\ ButtonOK(button)
  BY <1>1 DEF ClaimsInit, ButtonOK
<1>3. earned \in [Holders -> Nat]
  BY <1>2
<1>4. BooksOK(books)
  BY <1>2, <1>3 DEF BooksOK, BooksType
<1>5. ASSUME NEW h \in Holders PROVE earned[h] = Credited(books, h)
  <2>1. PICK S : S = {d \in Deeds : books.pendingOwner[d] = h}
    OBVIOUS
  <2>2. S = {}
    BY <1>2, <2>1, ClaimsAssumption
  <2>3. PendingFor(books, h) = 0
    BY <2>1, <2>2, SumEmpty DEF PendingFor
  <2>4. earned[h] = 0 /\ books.owed[h] = 0 /\ books.claimable[h] = 0 /\ books.paid[h] = 0
    BY <1>2
  <2>. QED BY <2>3, <2>4 DEF Credited
<1>. QED BY <1>2, <1>3, <1>4, <1>5 DEF ClaimsInv

(* What was earned while an account held a deed is in its buckets or has   *)
(* been paid to it, and claimAll leaves nothing behind on that chain.      *)
THEOREM EarnerIsPaid == ClaimsSpec => ClaimedByItsEarner
<1>1. ClaimsInit => ClaimsInv
  BY ClaimsInitHolds
<1>2. ClaimsInv /\ [ClaimsNext]_claimVars => ClaimsInv'
  <2>1. SUFFICES ASSUME ClaimsInv, [ClaimsNext]_claimVars PROVE ClaimsInv'
    OBVIOUS
  <2>2. CASE UNCHANGED claimVars
    BY <2>1, <2>2 DEF claimVars, ClaimsInv
  <2>3. ASSUME NEW d \in Deeds, Toll(d) \/ ClaimAll(d) PROVE ClaimsInv'
    BY <2>1, <2>3, TollKeeps, ClaimAllEmpties
  <2>4. ASSUME NEW d \in Deeds, NEW h \in Holders, Sell(d, h) PROVE ClaimsInv'
    <3>1. title' \in [Deeds -> Holders]
      BY <2>1, <2>4 DEF Sell, ClaimsInv
    <3>. QED BY <2>1, <2>4, <3>1, BooksRest DEF Sell, ClaimsInv
  <2>5. CASE EmptyBucket
    BY <2>1, <2>5, EmptyKeeps
  <2>6. CASE \/ OpenPage \/ (\E h \in Holders : SwitchWallet(h)) \/ PressClaim
             \/ SendStep \/ ReadReady \/ StepReverted
    BY <2>1, <2>6, PageKeeps
  <2>7. CASE StepConfirmed
    BY <2>1, <2>7, ConfirmedKeeps
  <2>. QED BY <2>1, <2>2, <2>3, <2>4, <2>5, <2>6, <2>7 DEF ClaimsNext
<1>3. ClaimsInv => \A h \in Holders : earned[h] = InBuckets(h) + books.paid[h]
  BY DEF ClaimsInv, Credited, PendingFor, InBuckets
<1>4. ClaimsInv /\ [ClaimsNext]_claimVars =>
        [\A d \in Deeds : ClaimAll(d) => Left(books', title[d], d) = 0]_claimVars
  BY ClaimAllEmpties
<1>5. ClaimsSpec => []ClaimsInv
  BY <1>1, <1>2, PTL DEF ClaimsSpec
<1>6. ClaimsSpec => [](\A h \in Holders : earned[h] = InBuckets(h) + books.paid[h])
  BY <1>3, <1>5, PTL
<1>7. ClaimsSpec => [][\A d \in Deeds : ClaimAll(d) => Left(books', title[d], d) = 0]_claimVars
  BY <1>4, <1>5, PTL DEF ClaimsSpec
<1>. QED BY <1>6, <1>7 DEF ClaimedByItsEarner

-----------------------------------------------------------------------------
(* Soft staking. *)

Positions == [moved : BOOLEAN, weight : Nat, paidTo : Nat, rewards : Nat]
Streams == [weight : Nat, rate : Nat, finish : Nat, updated : Nat, stored : Nat, queued : Nat]

(* What a position is owed before the quotient rounds, in units of 1/ACC,  *)
(* and what the positions, the rest of the stream and the queue are owed   *)
(* together.                                                               *)
ClaimOf(p, stored) ==
  IF p = NoPosition THEN 0 ELSE ACC * p.rewards + p.weight * (stored - p.paidTo)
AllClaims(pos, stored) ==
  SumFunctionOnSet([d \in StakedDeeds |-> ClaimOf(pos[d], stored)], StakedDeeds)
AllWeight(pos) == SumFunctionOnSet([d \in StakedDeeds |-> pos[d].weight], StakedDeeds)
Obligations(pos, s) ==
  AllClaims(pos, s.stored) + ACC * (s.rate * (s.finish - s.updated)) + ACC * s.queued

(* The positions have not been credited past the stream, whose clock has   *)
(* not run past its end; and the obligations are within net.               *)
StreamSound(pos, s, net) ==
  /\ pos \in [StakedDeeds -> Positions \cup {NoPosition}] /\ s \in Streams
  /\ \A d \in StakedDeeds : pos[d] # NoPosition => pos[d].paidTo <= s.stored
  /\ s.updated <= s.finish
  /\ s.weight = AllWeight(pos)
  /\ Obligations(pos, s) <= ACC * net

StakingInv ==
  /\ day \in Nat /\ received \in Nat /\ paid \in Nat /\ purse \in Nat
  /\ stream.updated <= day
  /\ received <= purse + paid
  /\ StreamSound(positions, stream, received - paid)

(* The claims are naturals, and one of them is at most all.                *)
LEMMA ClaimsNat ==
  ASSUME NEW pos \in [StakedDeeds -> Positions \cup {NoPosition}], NEW stored \in Nat,
         \A d \in StakedDeeds : pos[d] # NoPosition => pos[d].paidTo <= stored
  PROVE  /\ \A d \in StakedDeeds : ClaimOf(pos[d], stored) \in Nat
         /\ AllClaims(pos, stored) \in Nat
<1>1. ASSUME NEW d \in StakedDeeds PROVE ClaimOf(pos[d], stored) \in Nat
  <2>1. CASE pos[d] = NoPosition
    BY <2>1 DEF ClaimOf
  <2>2. CASE pos[d] # NoPosition
    <3>1. PICK w \in Nat, t \in Nat, r \in Nat :
            w = pos[d].weight /\ t = pos[d].paidTo /\ r = pos[d].rewards /\ t <= stored
      BY <2>2 DEF Positions
    <3>2. PICK g \in Nat : g = stored - t
      BY <3>1
    <3>3. ACC * r + w * g \in Nat
      BY StakingAssumption
    <3>. QED BY <2>2, <3>1, <3>2, <3>3 DEF ClaimOf
  <2>. QED BY <2>1, <2>2
<1>2. PICK f : f = [d \in StakedDeeds |-> ClaimOf(pos[d], stored)]
  OBVIOUS
<1>3. (\A d \in StakedDeeds : f[d] \in Nat) /\ IsFiniteSet(StakedDeeds)
  BY <1>1, <1>2, StakingAssumption
<1>4. SumFunctionOnSet(f, StakedDeeds) \in Nat
  BY ONLY <1>3, SumNat
<1>. QED BY <1>1, <1>2, <1>4 DEF AllClaims

LEMMA WeightsNat ==
  ASSUME NEW pos \in [StakedDeeds -> Positions \cup {NoPosition}]
  PROVE  (\A d \in StakedDeeds : pos[d].weight \in Nat) /\ AllWeight(pos) \in Nat
<1>1. \A d \in StakedDeeds : pos[d].weight \in Nat
  BY DEF Positions, NoPosition
<1>2. PICK f : f = [d \in StakedDeeds |-> pos[d].weight]
  OBVIOUS
<1>3. (\A d \in StakedDeeds : f[d] \in Nat) /\ IsFiniteSet(StakedDeeds)
  BY <1>1, <1>2, StakingAssumption
<1>4. SumFunctionOnSet(f, StakedDeeds) \in Nat
  BY ONLY <1>3, SumNat
<1>. QED BY <1>1, <1>2, <1>4 DEF AllWeight

(* A quotient times its divisor is at most the dividend, and the remainder *)
(* makes up for the rest.                                                  *)
LEMMA QuotientRest ==
  ASSUME NEW a \in Nat, NEW k \in Nat \ {0}
  PROVE  /\ a \div k \in Nat /\ a % k \in Nat
         /\ k * (a \div k) <= a /\ a = k * (a \div k) + (a % k)
OBVIOUS

(* When the reward per weight grows, the claims together grow by that much *)
(* for every unit of weight.                                               *)
LEMMA ClaimsGrow ==
  ASSUME NEW pos \in [StakedDeeds -> Positions \cup {NoPosition}], NEW stored \in Nat,
         NEW more \in Nat,
         \A d \in StakedDeeds : pos[d] # NoPosition => pos[d].paidTo <= stored
  PROVE  AllClaims(pos, stored + more) = AllClaims(pos, stored) + more * AllWeight(pos)
<1>1. PICK f : f = [d \in StakedDeeds |-> ClaimOf(pos[d], stored)]
  OBVIOUS
<1>2. PICK g : g = [d \in StakedDeeds |-> ClaimOf(pos[d], stored + more)]
  OBVIOUS
<1>3. PICK w : w = [d \in StakedDeeds |-> pos[d].weight]
  OBVIOUS
<1>4. ASSUME NEW d \in StakedDeeds PROVE g[d] = f[d] + more * w[d]
  <2>1. CASE pos[d] = NoPosition
    <3>1. g[d] = 0 /\ f[d] = 0 /\ w[d] = 0
      BY <1>1, <1>2, <1>3, <2>1 DEF ClaimOf, NoPosition
    <3>. QED BY <3>1
  <2>2. CASE pos[d] # NoPosition
    <3>1. PICK u \in Nat, t \in Nat, r \in Nat :
            u = pos[d].weight /\ t = pos[d].paidTo /\ r = pos[d].rewards /\ t <= stored
      BY <2>2 DEF Positions
    <3>2. PICK o \in Nat : o = stored - t /\ (stored + more) - t = o + more
      BY <3>1
    <3>3. PICK a \in Nat : a = ACC * r
      BY StakingAssumption
    <3>4. f[d] = a + u * o /\ g[d] = a + u * (o + more) /\ w[d] = u
      BY <1>1, <1>2, <1>3, <2>2, <3>1, <3>2, <3>3 DEF ClaimOf
    <3>5. a + u * (o + more) = (a + u * o) + more * u
      BY ONLY u \in Nat, o \in Nat, a \in Nat, more \in Nat
    <3>. QED BY <3>4, <3>5
  <2>. QED BY <2>1, <2>2
<1>5. \A d \in StakedDeeds : f[d] \in Int /\ w[d] \in Int
  BY <1>1, <1>3, ClaimsNat, WeightsNat
<1>6. SumFunctionOnSet(g, StakedDeeds)
        = SumFunctionOnSet(f, StakedDeeds) + more * SumFunctionOnSet(w, StakedDeeds)
  <2>1. IsFiniteSet(StakedDeeds) /\ more \in Int
    BY StakingAssumption
  <2>. QED BY ONLY <1>4, <1>5, <2>1, SumLinear
<1>. QED BY <1>1, <1>2, <1>3, <1>6 DEF AllClaims, AllWeight

(* _updateGlobal keeps the books sound: rounded down, all positions        *)
(* together are credited at most what the stream has paid meanwhile.       *)
LEMMA UpdatedSound ==
  ASSUME NEW pos, NEW s, NEW net \in Int, StreamSound(pos, s, net), day \in Nat, s.updated <= day
  PROVE  /\ StreamSound(pos, Updated(s), net)
         /\ Updated(s).updated = Applicable(s) /\ Applicable(s) \in Nat
         /\ Applicable(s) <= day /\ Applicable(s) <= s.finish
         /\ Updated(s).stored = RewardPerWeight(s) /\ RewardPerWeight(s) \in Nat
         /\ RewardPerWeight(s) >= s.stored
         /\ Updated(s).rate = s.rate /\ Updated(s).finish = s.finish
         /\ Updated(s).queued = s.queued /\ Updated(s).weight = s.weight
<1>1. /\ pos \in [StakedDeeds -> Positions \cup {NoPosition}] /\ s \in Streams
      /\ \A d \in StakedDeeds : pos[d] # NoPosition => pos[d].paidTo <= s.stored
      /\ s.updated <= s.finish /\ s.weight = AllWeight(pos)
      /\ Obligations(pos, s) <= ACC * net
  BY DEF StreamSound
<1>2. PICK w \in Nat, rate \in Nat, finish \in Nat, updated \in Nat, stored \in Nat, queued \in Nat :
        s = [weight |-> w, rate |-> rate, finish |-> finish, updated |-> updated,
             stored |-> stored, queued |-> queued]
  BY <1>1 DEF Streams
<1>3. ACC \in Nat \ {0}
  BY StakingAssumption
<1>4. PICK now \in Nat : now = Applicable(s) /\ now <= finish /\ updated <= now /\ now <= day
  BY <1>1, <1>2 DEF Applicable
<1>5. PICK more \in Nat : RewardPerWeight(s) = stored + more /\ more * w <= ((now - updated) * rate) * ACC
  <2>1. PICK e \in Nat : e = now - updated
    BY <1>4
  <2>2. e * rate \in Nat /\ (e * rate) * ACC \in Nat
    BY <1>3
  <2>3. CASE w = 0
    <3>1. RewardPerWeight(s) = stored + 0
      BY <1>2, <2>3 DEF RewardPerWeight
    <3>2. 0 * w = 0
      BY <2>3
    <3>. QED BY <2>1, <2>2, <2>3, <3>1, <3>2
  <2>4. CASE w # 0
    <3>1. PICK m \in Nat : m = ((e * rate) * ACC) \div w /\ w * m <= (e * rate) * ACC
      BY <2>2, <2>4, QuotientRest
    <3>2. RewardPerWeight(s) = stored + m
      BY <1>2, <1>4, <2>1, <2>4, <3>1 DEF RewardPerWeight
    <3>3. m * w = w * m
      OBVIOUS
    <3>. QED BY <2>1, <3>1, <3>2, <3>3
  <2>. QED BY <2>3, <2>4
<1>6. PICK u : u = [weight |-> w, rate |-> rate, finish |-> finish, updated |-> now,
                    stored |-> stored + more, queued |-> queued]
  OBVIOUS
<1>7. Updated(s) = u
  <2>1. Updated(s) = [s EXCEPT !.stored = stored + more, !.updated = now]
    BY <1>2, <1>4, <1>5 DEF Updated
  <2>. QED BY <1>2, <1>6, <2>1
<1>8. u \in Streams
  BY <1>6 DEF Streams
<1>9. PICK c \in Nat : c = AllClaims(pos, stored)
  BY <1>1, <1>2, ClaimsNat
<1>10. AllClaims(pos, stored + more) = c + more * w
  BY <1>1, <1>2, <1>9, ClaimsGrow
<1>11. Obligations(pos, u) <= ACC * net
  <2>1. PICK e \in Nat, r \in Nat : e = now - updated /\ r = finish - now
    BY <1>4
  <2>2. finish - updated = e + r
    BY <2>1
  <2>3. Obligations(pos, s) = c + ACC * (rate * (e + r)) + ACC * queued
    BY <1>2, <1>9, <2>2 DEF Obligations
  <2>4. Obligations(pos, u) = (c + more * w) + ACC * (rate * r) + ACC * queued
    BY <1>6, <1>10, <2>1 DEF Obligations
  <2>5. ACC * (rate * (e + r)) = (e * rate) * ACC + ACC * (rate * r)
    BY <1>3
  <2>6. PICK x \in Nat, y \in Nat, z \in Nat, v \in Nat :
          x = (e * rate) * ACC /\ y = ACC * (rate * r) /\ z = ACC * queued /\ v = more * w
    BY <1>3
  <2>7. v <= x
    BY <1>5, <2>1, <2>6
  <2>8. ACC * net \in Int
    BY <1>3
  <2>. QED BY <1>1, <2>3, <2>4, <2>5, <2>6, <2>7, <2>8
<1>12. \A d \in StakedDeeds : pos[d] # NoPosition => pos[d].paidTo <= u.stored
  BY <1>1, <1>2, <1>6 DEF Positions
<1>13. StreamSound(pos, u, net)
  BY <1>1, <1>2, <1>4, <1>6, <1>8, <1>11, <1>12 DEF StreamSound
<1>14. stored + more \in Nat /\ stored + more >= stored
  OBVIOUS
<1>. QED BY <1>2, <1>4, <1>5, <1>6, <1>7, <1>13, <1>14

(* A new stream pays, with what it leaves over, what it was started with.  *)
LEMMA StartedPays ==
  ASSUME NEW s \in Streams, NEW amount \in Nat, day \in Nat
  PROVE  /\ Started(s, amount) \in Streams
         /\ Started(s, amount).stored = s.stored /\ Started(s, amount).weight = s.weight
         /\ Started(s, amount).updated = day
         /\ Started(s, amount).updated <= Started(s, amount).finish
         /\ Started(s, amount).rate * (Started(s, amount).finish - Started(s, amount).updated)
              + Started(s, amount).queued = amount
         /\ Started(s, amount).rate * (Started(s, amount).finish - Started(s, amount).updated) \in Nat
<1>1. PICK n \in Nat : n = day
  OBVIOUS
<1>2. PICK k \in Nat \ {0} : k = REWARD_DURATION
  BY StakingAssumption
<1>3. PICK q \in Nat, r \in Nat : q = amount \div k /\ r = amount % k /\ amount = k * q + r
  BY QuotientRest
<1>4. PICK v : v = Started(s, amount)
  OBVIOUS
<1>5. v = [s EXCEPT !.queued = r, !.rate = q, !.updated = n, !.finish = n + k]
  BY <1>1, <1>2, <1>3, <1>4 DEF Started
<1>6. /\ v \in Streams /\ v.stored = s.stored /\ v.weight = s.weight
      /\ v.queued = r /\ v.rate = q /\ v.updated = n /\ v.finish = n + k
  <2>1. PICK a \in Nat, b \in Nat : a = s.stored /\ b = s.weight
    BY DEF Streams
  <2>2. v = [weight |-> b, rate |-> q, finish |-> n + k, updated |-> n, stored |-> a, queued |-> r]
    BY <1>5, <2>1 DEF Streams
  <2>3. n + k \in Nat
    OBVIOUS
  <2>. QED BY <2>1, <2>2, <2>3 DEF Streams
<1>7. v.finish - v.updated = k /\ v.updated <= v.finish
  BY <1>6
<1>8. q * k + r = amount /\ q * k \in Nat
  BY <1>3
<1>. QED BY <1>1, <1>4, <1>6, <1>7, <1>8

(* One position changes: the claims and the weights change by its own.     *)
LEMMA PositionMoves ==
  ASSUME NEW pos \in [StakedDeeds -> Positions \cup {NoPosition}], NEW stored \in Nat,
         \A d \in StakedDeeds : pos[d] # NoPosition => pos[d].paidTo <= stored,
         NEW d \in StakedDeeds, NEW p \in Positions \cup {NoPosition},
         ClaimOf(p, stored) \in Int
  PROVE  /\ AllClaims([pos EXCEPT ![d] = p], stored)
              = AllClaims(pos, stored) + (ClaimOf(p, stored) - ClaimOf(pos[d], stored))
         /\ AllWeight([pos EXCEPT ![d] = p]) = AllWeight(pos) + (p.weight - pos[d].weight)
<1>1. PICK q : q = [pos EXCEPT ![d] = p]
  OBVIOUS
<1>2. q[d] = p /\ \A e \in StakedDeeds \ {d} : q[e] = pos[e]
  BY <1>1
<1>3. IsFiniteSet(StakedDeeds)
  BY StakingAssumption
<1>4. AllClaims(q, stored) = AllClaims(pos, stored) + (ClaimOf(p, stored) - ClaimOf(pos[d], stored))
  <2>1. PICK f : f = [e \in StakedDeeds |-> ClaimOf(pos[e], stored)]
    OBVIOUS
  <2>2. PICK g : g = [e \in StakedDeeds |-> ClaimOf(q[e], stored)]
    OBVIOUS
  <2>3. \A y \in StakedDeeds : f[y] \in Int
    BY <2>1, ClaimsNat
  <2>4. PICK x \in Int : x = ClaimOf(p, stored) - ClaimOf(pos[d], stored)
    BY <2>1, <2>3
  <2>5. (\A y \in StakedDeeds \ {d} : g[y] = f[y]) /\ g[d] = f[d] + x
    <3>1. f[d] = ClaimOf(pos[d], stored) /\ g[d] = ClaimOf(p, stored) /\ f[d] \in Int
      BY <1>2, <2>1, <2>2, <2>3
    <3>. QED BY <1>2, <2>1, <2>2, <2>4, <3>1
  <2>6. SumFunctionOnSet(g, StakedDeeds) = SumFunctionOnSet(f, StakedDeeds) + x
    BY ONLY <1>3, <2>3, <2>5, SumChange, x \in Int, d \in StakedDeeds
  <2>. QED BY <2>1, <2>2, <2>4, <2>6 DEF AllClaims
<1>5. AllWeight(q) = AllWeight(pos) + (p.weight - pos[d].weight)
  <2>1. PICK f : f = [e \in StakedDeeds |-> pos[e].weight]
    OBVIOUS
  <2>2. PICK g : g = [e \in StakedDeeds |-> q[e].weight]
    OBVIOUS
  <2>3. \A y \in StakedDeeds : f[y] \in Int
    BY <2>1, WeightsNat
  <2>4. p.weight \in Nat
    BY DEF Positions, NoPosition
  <2>5. PICK x \in Int : x = p.weight - pos[d].weight
    BY <2>1, <2>3, <2>4
  <2>6. (\A y \in StakedDeeds \ {d} : g[y] = f[y]) /\ g[d] = f[d] + x
    <3>1. f[d] = pos[d].weight /\ g[d] = p.weight /\ f[d] \in Int
      BY <1>2, <2>1, <2>2, <2>3
    <3>. QED BY <1>2, <2>1, <2>2, <2>4, <2>5, <3>1
  <2>7. SumFunctionOnSet(g, StakedDeeds) = SumFunctionOnSet(f, StakedDeeds) + x
    BY ONLY <1>3, <2>3, <2>6, SumChange, x \in Int, d \in StakedDeeds
  <2>. QED BY <2>1, <2>2, <2>5, <2>7 DEF AllWeight
<1>. QED BY <1>1, <1>4, <1>5

(* A stream that is started with no more than what is free.                *)
LEMMA RestartSound ==
  ASSUME NEW pos \in [StakedDeeds -> Positions \cup {NoPosition}], NEW s \in Streams,
         \A d \in StakedDeeds : pos[d] # NoPosition => pos[d].paidTo <= s.stored,
         s.weight = AllWeight(pos), NEW amount \in Nat, NEW net \in Int, day \in Nat,
         AllClaims(pos, s.stored) + ACC * amount <= ACC * net
  PROVE  StreamSound(pos, Started(s, amount), net) /\ Started(s, amount).updated = day
<1>1. PICK v : v = Started(s, amount)
  OBVIOUS
<1>2. /\ v \in Streams /\ v.stored = s.stored /\ v.weight = s.weight
      /\ v.updated = day /\ v.updated <= v.finish
      /\ v.rate * (v.finish - v.updated) + v.queued = amount
      /\ v.rate * (v.finish - v.updated) \in Nat
  BY <1>1, StartedPays
<1>3. PICK x \in Nat, y \in Nat : x = v.rate * (v.finish - v.updated) /\ y = v.queued /\ x + y = amount
  BY <1>2 DEF Streams
<1>4. ACC \in Nat
  BY StakingAssumption
<1>5. ACC * x + ACC * y = ACC * amount /\ ACC * x \in Nat /\ ACC * y \in Nat
  BY <1>3, <1>4
<1>6. AllClaims(pos, s.stored) \in Nat
  BY ClaimsNat DEF Streams
<1>7. Obligations(pos, v) = AllClaims(pos, s.stored) + ACC * x + ACC * y
  BY <1>2, <1>3 DEF Obligations
<1>8. Obligations(pos, v) <= ACC * net
  BY <1>5, <1>6, <1>7
<1>. QED BY <1>1, <1>2, <1>8 DEF StreamSound

(* Rounded down, a position earns at most its claim.                       *)
LEMMA EarnedBelowClaim ==
  ASSUME StakingInv, NEW d \in StakedDeeds, HasPosition(d)
  PROVE  /\ Earned(d) \in Nat
         /\ ClaimOf(positions[d], RewardPerWeight(stream)) \in Nat
         /\ ACC * Earned(d) <= ClaimOf(positions[d], RewardPerWeight(stream))
<1>1. /\ StreamSound(positions, stream, received - paid) /\ received - paid \in Int
      /\ day \in Nat /\ stream.updated <= day
  BY DEF StakingInv
<1>2. RewardPerWeight(stream) \in Nat /\ RewardPerWeight(stream) >= stream.stored
  <2>1. PICK net \in Int : net = received - paid
    BY <1>1
  <2>2. PICK pos : pos = positions
    OBVIOUS
  <2>3. PICK s : s = stream
    OBVIOUS
  <2>. QED BY <1>1, <2>1, <2>2, <2>3, UpdatedSound
<1>3. PICK p \in Positions : p = positions[d] /\ p.paidTo <= stream.stored /\ p # NoPosition
  BY <1>1 DEF StreamSound, HasPosition
<1>4. stream.stored \in Nat
  BY <1>1 DEF StreamSound, Streams
<1>5. PICK w \in Nat, t \in Nat, r \in Nat : w = p.weight /\ t = p.paidTo /\ r = p.rewards
  BY DEF Positions
<1>6. PICK g \in Nat : g = RewardPerWeight(stream) - t
  BY <1>2, <1>3, <1>4, <1>5
<1>7. ACC \in Nat \ {0} /\ w * g \in Nat
  BY StakingAssumption
<1>8. PICK q \in Nat : q = (w * g) \div ACC /\ ACC * q <= w * g
  BY <1>7, QuotientRest
<1>9. Earned(d) = r + q
  BY <1>3, <1>5, <1>6, <1>8 DEF Earned
<1>10. ClaimOf(p, RewardPerWeight(stream)) = ACC * r + w * g
  BY <1>3, <1>5, <1>6 DEF ClaimOf
<1>11. ACC * (r + q) = ACC * r + ACC * q /\ ACC * r \in Nat /\ ACC * q \in Nat
  BY <1>7
<1>. QED BY <1>3, <1>7, <1>8, <1>9, <1>10, <1>11

(* The stream of the state, brought up to date.                            *)
LEMMA StreamUpdated ==
  ASSUME StakingInv
  PROVE  /\ StreamSound(positions, Updated(stream), received - paid)
         /\ Updated(stream).updated = Applicable(stream)
         /\ Updated(stream).updated \in Nat /\ Updated(stream).updated <= day
         /\ Updated(stream).updated <= Updated(stream).finish
         /\ Updated(stream).stored = RewardPerWeight(stream) /\ RewardPerWeight(stream) \in Nat
         /\ Updated(stream).rate = stream.rate /\ Updated(stream).finish = stream.finish
         /\ Updated(stream).queued = stream.queued /\ Updated(stream).weight = stream.weight
<1>1. PICK pos, s, net :
        pos = positions /\ s = stream /\ net = received - paid /\ net \in Int
  BY DEF StakingInv
<1>2. StreamSound(pos, s, net) /\ day \in Nat /\ s.updated <= day
  BY <1>1 DEF StakingInv
<1>. QED BY <1>1, <1>2, UpdatedSound

LEMMA ActivateKeeps ==
  ASSUME StakingInv, NEW d \in StakedDeeds, NEW w \in Weights, ActivateStake(d, w)
  PROVE  StakingInv'
<1>1. PICK pos, v, net, n :
        /\ pos = positions /\ v = Updated(stream)
        /\ net = received - paid /\ net \in Int /\ n = day /\ n \in Nat
  BY DEF StakingInv
<1>2. StreamSound(pos, v, net) /\ v.updated <= n /\ v.updated <= v.finish
  BY <1>1, StreamUpdated
<1>3. /\ pos \in [StakedDeeds -> Positions \cup {NoPosition}] /\ v \in Streams
      /\ \A e \in StakedDeeds : pos[e] # NoPosition => pos[e].paidTo <= v.stored
      /\ v.weight = AllWeight(pos) /\ Obligations(pos, v) <= ACC * net
  BY <1>2 DEF StreamSound
<1>4. v.stored \in Nat /\ v.weight \in Nat /\ v.queued \in Nat /\ v.rate \in Nat
      /\ v.finish \in Nat /\ v.updated \in Nat /\ w \in Nat /\ ACC \in Nat
  BY <1>3, StakingAssumption DEF Streams
<1>5. pos[d] = NoPosition
  BY <1>1 DEF ActivateStake, HasPosition
<1>6. PICK s : s = [v EXCEPT !.weight = v.weight + w]
  OBVIOUS
<1>7. /\ s \in Streams /\ s.weight = v.weight + w /\ s.stored = v.stored /\ s.queued = v.queued
      /\ s.rate = v.rate /\ s.finish = v.finish /\ s.updated = v.updated
  <2>1. s = [weight |-> v.weight + w, rate |-> v.rate, finish |-> v.finish,
             updated |-> v.updated, stored |-> v.stored, queued |-> v.queued]
    BY <1>3, <1>6 DEF Streams
  <2>2. v.weight + w \in Nat
    BY <1>4
  <2>. QED BY <1>4, <2>1, <2>2 DEF Streams
<1>8. PICK p : p = [moved |-> FALSE, weight |-> w, paidTo |-> v.stored, rewards |-> 0]
  OBVIOUS
<1>9. p \in Positions /\ p # NoPosition /\ p.weight = w /\ p.paidTo = v.stored /\ p.rewards = 0
  BY <1>4, <1>8 DEF Positions, NoPosition
<1>10. PICK after : after = [pos EXCEPT ![d] = p]
  OBVIOUS
<1>11. /\ positions' = after
       /\ stream' = IF s.queued # 0 /\ s.rate = 0 THEN Started(s, s.queued) ELSE s
       /\ UNCHANGED <<day, received, paid, purse>>
  BY <1>1, <1>6, <1>7, <1>8, <1>10 DEF ActivateStake
<1>12. ClaimOf(p, v.stored) = 0 /\ ClaimOf(pos[d], v.stored) = 0 /\ pos[d].weight = 0
  <2>1. w * (v.stored - v.stored) = 0 /\ ACC * 0 = 0
    BY <1>4
  <2>. QED BY <1>5, <1>9, <2>1 DEF ClaimOf, NoPosition
<1>13. /\ AllClaims(after, v.stored) = AllClaims(pos, v.stored)
       /\ AllWeight(after) = v.weight + w
  <2>1. PICK m \in Nat : m = v.stored
    BY <1>4
  <2>2. /\ AllClaims(after, m) = AllClaims(pos, m) + (ClaimOf(p, m) - ClaimOf(pos[d], m))
        /\ AllWeight(after) = AllWeight(pos) + (p.weight - pos[d].weight)
    <3>1. \A e \in StakedDeeds : pos[e] # NoPosition => pos[e].paidTo <= m
      BY <1>3, <2>1
    <3>2. p \in Positions \cup {NoPosition} /\ ClaimOf(p, m) \in Int
      BY <1>9, <1>12, <2>1
    <3>. QED BY <1>3, <1>10, <3>1, <3>2, PositionMoves
  <2>3. AllClaims(pos, m) \in Nat
    BY <1>3, <2>1, ClaimsNat
  <2>. QED BY <1>3, <1>4, <1>9, <1>12, <2>1, <2>2, <2>3
<1>14. /\ after \in [StakedDeeds -> Positions \cup {NoPosition}]
       /\ \A e \in StakedDeeds : after[e] # NoPosition => after[e].paidTo <= s.stored
  BY <1>3, <1>4, <1>7, <1>9, <1>10
<1>15. Obligations(after, s) <= ACC * net
  BY <1>3, <1>7, <1>13 DEF Obligations
<1>16. StreamSound(after, stream', net) /\ stream'.updated <= n
  <2>1. CASE s.queued # 0 /\ s.rate = 0
    <3>1. AllClaims(after, s.stored) + ACC * s.queued <= ACC * net
      <4>1. PICK c \in Nat : c = AllClaims(after, s.stored)
        BY <1>4, <1>7, <1>14, ClaimsNat
      <4>2. s.rate * (s.finish - s.updated) = 0
        BY <1>4, <1>7, <2>1
      <4>3. ACC * 0 = 0 /\ ACC * s.queued \in Nat /\ ACC * net \in Int
        BY <1>1, <1>4, <1>7
      <4>4. Obligations(after, s) = c + 0 + ACC * s.queued
        BY <4>1, <4>2, <4>3 DEF Obligations
      <4>. QED BY <1>15, <4>1, <4>3, <4>4
    <3>2. PICK a \in Nat : a = s.queued
      BY <1>4, <1>7
    <3>3. stream' = Started(s, a)
      BY <1>11, <2>1, <3>2
    <3>4. StreamSound(after, Started(s, a), net) /\ Started(s, a).updated = day
      BY <1>1, <1>7, <1>13, <1>14, <3>1, <3>2, RestartSound
    <3>. QED BY <1>1, <3>3, <3>4
  <2>2. CASE ~ (s.queued # 0 /\ s.rate = 0)
    <3>1. stream' = s
      BY <1>11, <2>2
    <3>. QED BY <1>2, <1>7, <1>13, <1>14, <1>15, <3>1 DEF StreamSound
  <2>. QED BY <2>1, <2>2
<1>. QED BY <1>1, <1>11, <1>16 DEF StakingInv

(* A position that ends leaves what it earned to the queue.                *)
LEMMA InvalidateKeeps ==
  ASSUME StakingInv, NEW d \in StakedDeeds, Invalidate(d)
  PROVE  StakingInv'
<1>1. PICK pos, v, net, n :
        /\ pos = positions /\ v = Updated(stream)
        /\ net = received - paid /\ net \in Int /\ n = day /\ n \in Nat
  BY DEF StakingInv
<1>2. StreamSound(pos, v, net) /\ v.updated <= n /\ v.updated <= v.finish
      /\ v.stored = RewardPerWeight(stream)
  BY <1>1, StreamUpdated
<1>3. /\ pos \in [StakedDeeds -> Positions \cup {NoPosition}] /\ v \in Streams
      /\ \A e \in StakedDeeds : pos[e] # NoPosition => pos[e].paidTo <= v.stored
      /\ v.weight = AllWeight(pos) /\ Obligations(pos, v) <= ACC * net
  BY <1>2 DEF StreamSound
<1>4. v.stored \in Nat /\ v.weight \in Nat /\ v.queued \in Nat /\ v.rate \in Nat
      /\ v.finish \in Nat /\ v.updated \in Nat /\ ACC \in Nat
  BY <1>3, StakingAssumption DEF Streams
<1>5. PICK reward \in Nat, claim \in Nat :
        reward = Earned(d) /\ claim = ClaimOf(pos[d], v.stored) /\ ACC * reward <= claim
  BY <1>1, <1>2, EarnedBelowClaim DEF Invalidate
<1>6. pos[d].weight \in Nat
  BY <1>3, WeightsNat
<1>7. PICK after : after = [pos EXCEPT ![d] = NoPosition]
  OBVIOUS
<1>8. PICK weight : weight = v.weight - pos[d].weight
  OBVIOUS
<1>9. PICK s : s = [v EXCEPT !.weight = weight, !.queued = v.queued + reward]
  OBVIOUS
<1>10. positions' = after /\ stream' = s /\ UNCHANGED <<day, received, paid, purse>>
  BY <1>1, <1>5, <1>7, <1>8, <1>9 DEF Invalidate
<1>11. NoPosition \in Positions \cup {NoPosition} /\ ClaimOf(NoPosition, v.stored) = 0
       /\ NoPosition.weight = 0
  BY DEF ClaimOf, NoPosition
<1>12. PICK m \in Nat : m = v.stored
  BY <1>4
<1>13. PICK c \in Nat : c = AllClaims(pos, m)
  BY <1>3, <1>12, ClaimsNat
<1>14. /\ AllClaims(after, m) = c + (0 - claim)
       /\ AllWeight(after) = v.weight + (0 - pos[d].weight)
  <2>1. ClaimOf(NoPosition, m) = 0 /\ claim = ClaimOf(pos[d], m)
    BY <1>5, <1>11, <1>12
  <2>2. /\ AllClaims(after, m) = AllClaims(pos, m) + (ClaimOf(NoPosition, m) - ClaimOf(pos[d], m))
        /\ AllWeight(after) = AllWeight(pos) + (NoPosition.weight - pos[d].weight)
    <3>1. \A e \in StakedDeeds : pos[e] # NoPosition => pos[e].paidTo <= m
      BY <1>3, <1>12
    <3>2. ClaimOf(NoPosition, m) \in Int
      BY <2>1
    <3>. QED BY <1>3, <1>7, <1>11, <3>1, <3>2, PositionMoves
  <2>. QED BY <1>3, <1>11, <1>13, <2>1, <2>2
<1>15. after \in [StakedDeeds -> Positions \cup {NoPosition}]
  BY <1>3, <1>7
<1>16. weight \in Nat /\ weight = AllWeight(after)
  <2>1. AllWeight(after) \in Nat
    BY <1>15, WeightsNat
  <2>. QED BY <1>4, <1>6, <1>8, <1>14, <2>1
<1>17. /\ s \in Streams /\ s.weight = weight /\ s.stored = v.stored /\ s.queued = v.queued + reward
       /\ s.rate = v.rate /\ s.finish = v.finish /\ s.updated = v.updated
  <2>1. s = [weight |-> weight, rate |-> v.rate, finish |-> v.finish,
             updated |-> v.updated, stored |-> v.stored, queued |-> v.queued + reward]
    BY <1>3, <1>9 DEF Streams
  <2>2. v.queued + reward \in Nat
    BY <1>4
  <2>. QED BY <1>4, <1>16, <2>1, <2>2 DEF Streams
<1>18. Obligations(after, s) <= ACC * net
  <2>1. PICK x \in Int : x = ACC * (v.rate * (v.finish - v.updated))
    BY <1>4
  <2>2. PICK y \in Nat, z \in Nat : y = ACC * v.queued /\ z = ACC * reward
    BY <1>4
  <2>3. ACC * (v.queued + reward) = y + z
    BY <1>4, <2>2
  <2>4. Obligations(pos, v) = c + x + y
    BY <1>12, <1>13, <2>1, <2>2 DEF Obligations
  <2>5. Obligations(after, s) = (c + (0 - claim)) + x + (y + z)
    BY <1>12, <1>14, <1>17, <2>1, <2>3 DEF Obligations
  <2>6. ACC * net \in Int /\ z <= claim
    BY <1>1, <1>4, <1>5, <2>2
  <2>. QED BY <1>3, <2>1, <2>2, <2>4, <2>5, <2>6
<1>19. \A e \in StakedDeeds : after[e] # NoPosition => after[e].paidTo <= s.stored
  BY <1>3, <1>7, <1>17
<1>20. StreamSound(after, s, net) /\ s.updated <= n
  BY <1>2, <1>15, <1>16, <1>17, <1>18, <1>19 DEF StreamSound
<1>. QED BY <1>1, <1>10, <1>20 DEF StakingInv

(* A claim is paid out of what its position is owed.                       *)
LEMMA RewardKeeps ==
  ASSUME StakingInv, NEW d \in StakedDeeds, ClaimReward(d)
  PROVE  StakingInv'
<1>1. PICK pos, v, net, n :
        /\ pos = positions /\ v = Updated(stream)
        /\ net = received - paid /\ net \in Int /\ n = day /\ n \in Nat
  BY DEF StakingInv
<1>2. StreamSound(pos, v, net) /\ v.updated <= n /\ v.updated <= v.finish
      /\ v.stored = RewardPerWeight(stream)
  BY <1>1, StreamUpdated
<1>3. /\ pos \in [StakedDeeds -> Positions \cup {NoPosition}] /\ v \in Streams
      /\ \A e \in StakedDeeds : pos[e] # NoPosition => pos[e].paidTo <= v.stored
      /\ v.weight = AllWeight(pos) /\ Obligations(pos, v) <= ACC * net
  BY <1>2 DEF StreamSound
<1>4. v.stored \in Nat /\ v.weight \in Nat /\ v.queued \in Nat /\ v.rate \in Nat
      /\ v.finish \in Nat /\ v.updated \in Nat /\ ACC \in Nat
  BY <1>3, StakingAssumption DEF Streams
<1>5. PICK reward \in Nat, claim \in Nat :
        reward = Earned(d) /\ claim = ClaimOf(pos[d], v.stored) /\ ACC * reward <= claim
  BY <1>1, <1>2, EarnedBelowClaim DEF ClaimReward
<1>6. PICK p \in Positions : p = pos[d] /\ p # NoPosition
  BY <1>1, <1>3 DEF ClaimReward, HasPosition
<1>7. PICK w \in Nat, gone \in BOOLEAN, t \in Nat, r \in Nat :
        w = p.weight /\ p = [moved |-> gone, weight |-> w, paidTo |-> t, rewards |-> r]
  BY DEF Positions
<1>8. PICK q : q = [moved |-> gone, weight |-> w, paidTo |-> v.stored, rewards |-> 0]
  OBVIOUS
<1>9. q \in Positions /\ q # NoPosition /\ q.weight = w /\ q.paidTo = v.stored /\ q.rewards = 0
  BY <1>4, <1>8 DEF Positions, NoPosition
<1>10. PICK after : after = [pos EXCEPT ![d] = q]
  OBVIOUS
<1>11. /\ positions' = after /\ stream' = v
       /\ purse' = purse - reward /\ paid' = paid + reward /\ reward <= purse
       /\ UNCHANGED <<day, received>>
  <2>1. positions' = [pos EXCEPT ![d].rewards = 0, ![d].paidTo = v.stored]
    BY <1>1, <1>2 DEF ClaimReward
  <2>2. [p EXCEPT !.rewards = 0, !.paidTo = v.stored] = q
    <3>1. PICK e : e = [p EXCEPT !.rewards = 0, !.paidTo = v.stored]
      OBVIOUS
    <3>2. DOMAIN e = DOMAIN p /\ DOMAIN p = {"moved", "weight", "paidTo", "rewards"}
      BY <1>7, <3>1
    <3>3. e.moved = gone /\ e.weight = w /\ e.paidTo = v.stored /\ e.rewards = 0
      BY <1>7, <3>1
    <3>4. e = [x \in DOMAIN e |-> e[x]]
      BY <3>1
    <3>5. e = q
      BY <1>8, <3>2, <3>3, <3>4
    <3>. QED BY <3>1, <3>5
  <2>3. positions' = [pos EXCEPT ![d] = [p EXCEPT !.rewards = 0, !.paidTo = v.stored]]
    BY <1>3, <1>6, <2>1
  <2>. QED BY <1>1, <1>5, <1>10, <2>2, <2>3 DEF ClaimReward
<1>12. PICK m \in Nat : m = v.stored
  BY <1>4
<1>13. ClaimOf(q, m) = 0
  <2>1. w * (m - m) = 0 /\ ACC * 0 = 0
    BY <1>4
  <2>. QED BY <1>9, <1>12, <2>1 DEF ClaimOf
<1>14. PICK c \in Nat : c = AllClaims(pos, m)
  BY <1>3, <1>12, ClaimsNat
<1>15. AllClaims(after, m) = c + (0 - claim) /\ AllWeight(after) = v.weight
  <2>1. /\ AllClaims(after, m) = AllClaims(pos, m) + (ClaimOf(q, m) - ClaimOf(pos[d], m))
        /\ AllWeight(after) = AllWeight(pos) + (q.weight - pos[d].weight)
    <3>1. \A e \in StakedDeeds : pos[e] # NoPosition => pos[e].paidTo <= m
      BY <1>3, <1>12
    <3>2. q \in Positions \cup {NoPosition} /\ ClaimOf(q, m) \in Int
      BY <1>9, <1>13
    <3>. QED BY <1>3, <1>10, <3>1, <3>2, PositionMoves
  <2>2. ClaimOf(pos[d], m) = claim /\ q.weight = w /\ pos[d].weight = w
    BY <1>5, <1>6, <1>7, <1>9, <1>12
  <2>3. AllClaims(pos, m) = c /\ AllWeight(pos) = v.weight /\ v.weight + (w - w) = v.weight
    BY <1>3, <1>4, <1>14
  <2>. QED BY <1>13, <2>1, <2>2, <2>3
<1>16. /\ after \in [StakedDeeds -> Positions \cup {NoPosition}]
       /\ \A e \in StakedDeeds : after[e] # NoPosition => after[e].paidTo <= v.stored
  BY <1>3, <1>4, <1>9, <1>10
<1>17. Obligations(after, v) <= ACC * (net - reward)
  <2>1. PICK x \in Int : x = ACC * (v.rate * (v.finish - v.updated))
    BY <1>4
  <2>2. PICK y \in Nat, z \in Nat : y = ACC * v.queued /\ z = ACC * reward
    BY <1>4
  <2>3. Obligations(pos, v) = c + x + y
    BY <1>12, <1>14, <2>1, <2>2 DEF Obligations
  <2>4. Obligations(after, v) = (c + (0 - claim)) + x + y
    BY <1>12, <1>15, <2>1, <2>2 DEF Obligations
  <2>5. ACC * (net - reward) = ACC * net - z /\ ACC * net \in Int /\ z <= claim
    BY <1>1, <1>4, <1>5, <2>2
  <2>. QED BY <1>3, <2>1, <2>2, <2>3, <2>4, <2>5
<1>18. StreamSound(after, v, net - reward)
  BY <1>2, <1>3, <1>15, <1>16, <1>17 DEF StreamSound
<1>19. /\ day' \in Nat /\ received' \in Nat /\ paid' \in Nat /\ purse' \in Nat
       /\ received' <= purse' + paid' /\ received' - paid' = net - reward
  BY <1>1, <1>11 DEF StakingInv
<1>. QED BY <1>1, <1>2, <1>11, <1>18, <1>19 DEF StakingInv

(* What a synchronisation distributes anew is what was free, what the      *)
(* stream had not paid and what was queued.                                *)
LEMMA SyncKeeps ==
  ASSUME StakingInv, SyncRewards
  PROVE  StakingInv'
<1>1. PICK pos, v, net, n, r0, p0, b0 :
        /\ pos = positions /\ v = Updated(stream)
        /\ net = received - paid /\ net \in Int /\ n = day /\ n \in Nat
        /\ r0 = received /\ p0 = paid /\ b0 = purse
        /\ r0 \in Nat /\ p0 \in Nat /\ b0 \in Nat /\ r0 <= b0 + p0
  BY DEF StakingInv
<1>2. StreamSound(pos, v, net) /\ v.updated <= n /\ v.updated <= v.finish
      /\ v.updated = Applicable(stream) /\ v.finish = stream.finish /\ v.rate = stream.rate
  BY <1>1, StreamUpdated
<1>3. /\ pos \in [StakedDeeds -> Positions \cup {NoPosition}] /\ v \in Streams
      /\ \A e \in StakedDeeds : pos[e] # NoPosition => pos[e].paidTo <= v.stored
      /\ v.weight = AllWeight(pos) /\ Obligations(pos, v) <= ACC * net
  BY <1>2 DEF StreamSound
<1>4. v.stored \in Nat /\ v.weight \in Nat /\ v.queued \in Nat /\ v.rate \in Nat
      /\ v.finish \in Nat /\ v.updated \in Nat /\ ACC \in Nat
  BY <1>3, StakingAssumption DEF Streams
<1>5. PICK left \in Nat : left = Remaining /\ left = v.rate * (v.finish - v.updated)
  <2>1. v.finish - v.updated \in Nat /\ v.rate * (v.finish - v.updated) \in Nat
    BY <1>2, <1>4
  <2>2. CASE n < v.finish
    <3>1. v.updated = n
      BY <1>1, <1>2, <2>2 DEF Applicable
    <3>2. Remaining = (v.finish - n) * v.rate
      BY <1>1, <1>2, <2>2 DEF Remaining
    <3>3. (v.finish - n) * v.rate = v.rate * (v.finish - n)
      BY <1>1, <1>4
    <3>. QED BY <2>1, <3>1, <3>2, <3>3
  <2>3. CASE ~ n < v.finish
    <3>1. v.updated = v.finish /\ Remaining = 0
      BY <1>1, <1>2, <2>3 DEF Applicable, Remaining
    <3>2. v.rate * (v.finish - v.updated) = 0
      BY <1>4, <3>1
    <3>. QED BY <3>1, <3>2
  <2>. QED BY <2>2, <2>3
<1>6. PICK amount \in Nat : amount = ((b0 + p0) - r0) + left + v.queued
  BY <1>1, <1>4
<1>7. /\ received' = b0 + p0
      /\ stream' = IF v.weight = 0 THEN [v EXCEPT !.queued = amount, !.rate = 0, !.finish = n]
                                   ELSE Started(v, amount)
      /\ UNCHANGED <<day, positions, paid, purse>>
  <2>1. purse + paid - received + Remaining + v.queued = amount
    BY <1>1, <1>5, <1>6
  <2>. QED BY <1>1, <2>1 DEF SyncRewards
<1>8. PICK net2 \in Int : net2 = (b0 + p0) - p0
  BY <1>1
<1>9. AllClaims(pos, v.stored) + ACC * amount <= ACC * net2
  <2>1. PICK c \in Nat : c = AllClaims(pos, v.stored)
    BY <1>3, <1>4, ClaimsNat
  <2>2. PICK free \in Nat : free = (b0 + p0) - r0
    BY <1>1
  <2>3. ACC * amount = ACC * free + ACC * left + ACC * v.queued
    BY <1>4, <1>6, <2>2
  <2>4. Obligations(pos, v) = c + ACC * left + ACC * v.queued
    BY <1>5, <2>1 DEF Obligations
  <2>5. net2 = net + free
    BY <1>1, <1>8, <2>2
  <2>6. ACC * net2 = ACC * net + ACC * free
    BY <1>1, <1>4, <2>5
  <2>7. PICK x \in Nat, y \in Nat, z \in Nat, u \in Int :
          x = ACC * left /\ y = ACC * v.queued /\ z = ACC * free /\ u = ACC * net
    BY <1>1, <1>4
  <2>. QED BY <1>3, <2>1, <2>3, <2>4, <2>6, <2>7
<1>10. StreamSound(pos, stream', net2) /\ stream'.updated <= n
  <2>1. CASE v.weight = 0
    <3>1. PICK s : s = [v EXCEPT !.queued = amount, !.rate = 0, !.finish = n]
      OBVIOUS
    <3>2. s = [weight |-> v.weight, rate |-> 0, finish |-> n, updated |-> v.updated,
               stored |-> v.stored, queued |-> amount]
      BY <1>3, <3>1 DEF Streams
    <3>3. s \in Streams
      BY <1>1, <1>4, <3>2 DEF Streams
    <3>4. 0 * (n - v.updated) = 0 /\ ACC * 0 = 0 /\ ACC * amount \in Nat
      BY <1>1, <1>4
    <3>5. AllClaims(pos, v.stored) \in Nat
      BY <1>3, <1>4, ClaimsNat
    <3>6. Obligations(pos, s) = AllClaims(pos, v.stored) + 0 + ACC * amount
      BY <3>2, <3>4 DEF Obligations
    <3>7. Obligations(pos, s) <= ACC * net2
      BY <1>9, <3>4, <3>5, <3>6
    <3>8. stream' = s
      BY <1>7, <2>1, <3>1
    <3>. QED BY <1>2, <1>3, <3>2, <3>3, <3>7, <3>8 DEF StreamSound
  <2>2. CASE v.weight # 0
    <3>1. stream' = Started(v, amount)
      BY <1>7, <2>2
    <3>. QED BY <1>1, <1>3, <1>9, <3>1, RestartSound
  <2>. QED BY <2>1, <2>2
<1>. QED BY <1>1, <1>7, <1>8, <1>10 DEF StakingInv

(* VOID arrives, the deed of a position moves, a day passes.               *)
LEMMA OutsideKeeps ==
  ASSUME StakingInv, ReceiveVoid \/ NextDay \/ \E d \in StakedDeeds : MoveDeed(d)
  PROVE  StakingInv'
<1>1. /\ StreamSound(positions, stream, received - paid)
      /\ day \in Nat /\ received \in Nat /\ paid \in Nat /\ purse \in Nat
      /\ stream.updated <= day /\ received <= purse + paid /\ stream \in Streams
  BY DEF StakingInv, StreamSound
<1>2. CASE ReceiveVoid
  <2>1. PICK amount \in Rewards : purse' = purse + amount
    BY <1>2 DEF ReceiveVoid
  <2>2. amount \in Nat
    BY StakingAssumption
  <2>3. purse' \in Nat /\ received <= purse' + paid
    BY <1>1, <2>1, <2>2
  <2>. QED BY <1>1, <1>2, <2>3 DEF ReceiveVoid, StakingInv
<1>3. CASE NextDay
  <2>1. day' \in Nat /\ stream.updated <= day'
    BY <1>1, <1>3 DEF NextDay, Streams
  <2>. QED BY <1>1, <1>3, <2>1 DEF NextDay, StakingInv
<1>4. ASSUME NEW d \in StakedDeeds, MoveDeed(d) PROVE StakingInv'
  <2>1. PICK pos : pos = positions
    OBVIOUS
  <2>2. pos \in [StakedDeeds -> Positions \cup {NoPosition}]
        /\ \A e \in StakedDeeds : pos[e] # NoPosition => pos[e].paidTo <= stream.stored
    BY <1>1, <2>1 DEF StreamSound
  <2>3. PICK p \in Positions : p = pos[d] /\ p # NoPosition
    BY <1>4, <2>1, <2>2 DEF MoveDeed, HasPosition
  <2>4. PICK q : q = [p EXCEPT !.moved = TRUE]
    OBVIOUS
  <2>5. q \in Positions /\ q # NoPosition /\ q.weight = p.weight /\ q.paidTo = p.paidTo
        /\ q.rewards = p.rewards
    <3>1. q = [moved |-> TRUE, weight |-> p.weight, paidTo |-> p.paidTo, rewards |-> p.rewards]
      BY <2>4 DEF Positions
    <3>. QED BY <3>1 DEF Positions, NoPosition
  <2>6. PICK after : after = [pos EXCEPT ![d] = q]
    OBVIOUS
  <2>7. positions' = after
    BY <1>4, <2>1, <2>2, <2>3, <2>4, <2>6 DEF MoveDeed
  <2>8. PICK m \in Nat : m = stream.stored
    BY <1>1 DEF Streams
  <2>9. ClaimOf(q, m) = ClaimOf(p, m) /\ ClaimOf(p, m) \in Nat
    BY <2>2, <2>3, <2>5, <2>8, ClaimsNat DEF ClaimOf
  <2>10. AllClaims(after, m) = AllClaims(pos, m) /\ AllWeight(after) = AllWeight(pos)
    <3>1. /\ AllClaims(after, m) = AllClaims(pos, m) + (ClaimOf(q, m) - ClaimOf(pos[d], m))
          /\ AllWeight(after) = AllWeight(pos) + (q.weight - pos[d].weight)
      <4>1. \A e \in StakedDeeds : pos[e] # NoPosition => pos[e].paidTo <= m
        BY <2>2, <2>8
      <4>2. q \in Positions \cup {NoPosition} /\ ClaimOf(q, m) \in Int
        BY <2>5, <2>9
      <4>. QED BY <2>2, <2>6, <4>1, <4>2, PositionMoves
    <3>2. AllClaims(pos, m) \in Nat /\ AllWeight(pos) \in Nat /\ p.weight \in Nat
      BY <2>2, <2>3, <2>8, ClaimsNat, WeightsNat
    <3>. QED BY <2>3, <2>5, <2>9, <3>1, <3>2
  <2>11. Obligations(after, stream) = Obligations(pos, stream)
    BY <2>8, <2>10 DEF Obligations
  <2>12. StreamSound(after, stream, received - paid)
    BY <1>1, <2>1, <2>2, <2>3, <2>5, <2>6, <2>10, <2>11 DEF StreamSound
  <2>. QED BY <1>1, <1>4, <2>7, <2>12 DEF MoveDeed, StakingInv
<1>. QED BY <1>2, <1>3, <1>4

LEMMA StakingInitHolds == StakingInit => StakingInv
<1>1. SUFFICES ASSUME StakingInit PROVE StakingInv
  OBVIOUS
<1>2. /\ day = 0 /\ received = 0 /\ paid = 0 /\ purse = 0
      /\ positions = [d \in StakedDeeds |-> NoPosition]
      /\ stream = [weight |-> 0, rate |-> 0, finish |-> 0, updated |-> 0, stored |-> 0, queued |-> 0]
  BY <1>1 DEF StakingInit
<1>3. IsFiniteSet(StakedDeeds) /\ ACC \in Nat
  BY StakingAssumption
<1>4. AllClaims(positions, 0) = 0
  <2>1. PICK f : f = [d \in StakedDeeds |-> ClaimOf(positions[d], 0)]
    OBVIOUS
  <2>2. \A d \in StakedDeeds : f[d] = 0
    BY <1>2, <2>1 DEF ClaimOf
  <2>. QED BY <1>3, <2>1, <2>2, SumZero DEF AllClaims
<1>5. AllWeight(positions) = 0
  <2>1. PICK f : f = [d \in StakedDeeds |-> positions[d].weight]
    OBVIOUS
  <2>2. \A d \in StakedDeeds : f[d] = 0
    BY <1>2, <2>1 DEF NoPosition
  <2>. QED BY <1>3, <2>1, <2>2, SumZero DEF AllWeight
<1>6. Obligations(positions, stream) = 0 /\ ACC * (0 - 0) = 0
  <2>1. 0 * (0 - 0) = 0 /\ ACC * 0 = 0 /\ 0 + 0 + 0 = 0 /\ ACC * (0 - 0) = 0
    BY <1>3
  <2>2. stream.stored = 0 /\ stream.rate = 0 /\ stream.finish = 0 /\ stream.updated = 0
        /\ stream.queued = 0
    BY <1>2
  <2>. QED BY <1>4, <2>1, <2>2 DEF Obligations
<1>7. stream \in Streams /\ positions \in [StakedDeeds -> Positions \cup {NoPosition}]
  BY <1>2 DEF Streams
<1>8. \A d \in StakedDeeds : positions[d] = NoPosition
  BY <1>2
<1>9. StreamSound(positions, stream, received - paid)
  BY <1>2, <1>5, <1>6, <1>7, <1>8 DEF StreamSound
<1>. QED BY <1>2, <1>9 DEF StakingInv

(* Everybody can claim: what the positions have earned, what the stream    *)
(* has yet to pay and what is queued is there, however the quotients       *)
(* round; and neither of the two subtractions of clocks and books fails.   *)
THEOREM StakersCanClaim == StakingSpec => []StakersFunded
<1>1. StakingInit => StakingInv
  BY StakingInitHolds
<1>2. StakingInv /\ [StakingNext]_stakingVars => StakingInv'
  <2>1. SUFFICES ASSUME StakingInv, [StakingNext]_stakingVars PROVE StakingInv'
    OBVIOUS
  <2>2. CASE UNCHANGED stakingVars
    BY <2>1, <2>2 DEF stakingVars, StakingInv
  <2>3. ASSUME NEW d \in StakedDeeds, NEW w \in Weights, ActivateStake(d, w) PROVE StakingInv'
    BY <2>1, <2>3, ActivateKeeps
  <2>4. ASSUME NEW d \in StakedDeeds, Invalidate(d) \/ ClaimReward(d) \/ MoveDeed(d)
        PROVE  StakingInv'
    BY <2>1, <2>4, InvalidateKeeps, RewardKeeps, OutsideKeeps
  <2>5. CASE SyncRewards
    BY <2>1, <2>5, SyncKeeps
  <2>6. CASE ReceiveVoid \/ NextDay
    BY <2>1, <2>6, OutsideKeeps
  <2>. QED BY <2>1, <2>2, <2>3, <2>4, <2>5, <2>6 DEF StakingNext
<1>3. StakingInv => StakersFunded
  <2>1. SUFFICES ASSUME StakingInv PROVE StakersFunded
    OBVIOUS
  <2>2. PICK pos, v, net, n :
          /\ pos = positions /\ v = Updated(stream)
          /\ net = received - paid /\ net \in Int /\ n = day /\ n \in Nat
    BY <2>1 DEF StakingInv
  <2>3. StreamSound(pos, v, net) /\ v.updated <= n /\ v.updated <= v.finish
        /\ v.updated = Applicable(stream) /\ v.finish = stream.finish /\ v.rate = stream.rate
        /\ v.stored = RewardPerWeight(stream) /\ v.queued = stream.queued
    BY <2>1, <2>2, StreamUpdated
  <2>4. /\ pos \in [StakedDeeds -> Positions \cup {NoPosition}] /\ v \in Streams
        /\ \A e \in StakedDeeds : pos[e] # NoPosition => pos[e].paidTo <= v.stored
        /\ Obligations(pos, v) <= ACC * net
    BY <2>3 DEF StreamSound
  <2>5. v.stored \in Nat /\ v.queued \in Nat /\ v.rate \in Nat
        /\ v.finish \in Nat /\ v.updated \in Nat /\ ACC \in Nat \ {0}
    BY <2>4, StakingAssumption DEF Streams
  <2>6. PICK left \in Nat : left = Remaining /\ left = v.rate * (v.finish - v.updated)
    <3>1. v.finish - v.updated \in Nat /\ v.rate * (v.finish - v.updated) \in Nat
      BY <2>3, <2>5
    <3>2. CASE n < v.finish
      <4>1. v.updated = n
        BY <2>2, <2>3, <3>2 DEF Applicable
      <4>2. Remaining = (v.finish - n) * v.rate
        BY <2>2, <2>3, <3>2 DEF Remaining
      <4>3. (v.finish - n) * v.rate = v.rate * (v.finish - n)
        BY <2>2, <2>5
      <4>. QED BY <3>1, <4>1, <4>2, <4>3
    <3>3. CASE ~ n < v.finish
      <4>1. v.updated = v.finish /\ Remaining = 0
        BY <2>2, <2>3, <3>3 DEF Applicable, Remaining
      <4>2. v.rate * (v.finish - v.updated) = 0
        BY <2>5, <4>1
      <4>. QED BY <4>1, <4>2
    <3>. QED BY <3>2, <3>3
  <2>7. PICK open \in SUBSET StakedDeeds : open = OpenPositions
    BY DEF OpenPositions
  <2>8. PICK e : e = [d \in open |-> Earned(d)]
    OBVIOUS
  <2>9. PICK sum \in Nat : sum = SumFunctionOnSet(e, open)
    <3>1. IsFiniteSet(open) /\ \A d \in open : e[d] \in Nat
      BY <2>1, <2>7, <2>8, EarnedBelowClaim, StakingAssumption, FS_Subset DEF OpenPositions
    <3>. QED BY <3>1, SumNat
  <2>10. PICK c \in Nat : c = AllClaims(pos, v.stored)
    BY <2>4, <2>5, ClaimsNat
  <2>11. ACC * sum <= c
    <3>1. IsFiniteSet(StakedDeeds) /\ IsFiniteSet(open)
      BY StakingAssumption, FS_Subset
    <3>2. PICK f : f = [d \in StakedDeeds |-> ClaimOf(pos[d], v.stored)]
      OBVIOUS
    <3>3. \A d \in StakedDeeds : f[d] \in Nat
      BY <2>4, <2>5, <3>2, ClaimsNat
    <3>4. SumFunctionOnSet(f, open) <= SumFunctionOnSet(f, StakedDeeds)
      BY <3>1, <3>3, SumSubset
    <3>5. PICK rest : rest = [d \in open |-> f[d] - ACC * e[d]]
      OBVIOUS
    <3>6. \A d \in open : e[d] \in Nat /\ ACC * e[d] <= f[d] /\ rest[d] \in Nat
      <4>1. ASSUME NEW d \in open PROVE e[d] \in Nat /\ ACC * e[d] <= f[d] /\ rest[d] \in Nat
        <5>1. e[d] \in Nat /\ ACC * e[d] <= f[d]
          BY <2>1, <2>2, <2>3, <2>7, <2>8, <3>2, EarnedBelowClaim DEF OpenPositions
        <5>2. ACC * e[d] \in Nat /\ f[d] \in Nat /\ rest[d] = f[d] - ACC * e[d]
          BY <2>5, <3>3, <3>5, <5>1
        <5>. QED BY <5>1, <5>2
      <4>. QED BY <4>1
    <3>7. \A d \in open : f[d] = rest[d] + ACC * e[d]
      BY <2>5, <3>3, <3>5, <3>6
    <3>8. \A d \in open : rest[d] \in Int /\ e[d] \in Int
      BY <3>6
    <3>9. SumFunctionOnSet(f, open) = SumFunctionOnSet(rest, open) + ACC * SumFunctionOnSet(e, open)
      <4>1. ACC \in Int
        BY <2>5
      <4>. QED BY ONLY <3>1, <3>7, <3>8, <4>1, SumLinear
    <3>10. SumFunctionOnSet(rest, open) \in Nat
      BY <3>1, <3>6, SumNat
    <3>11. c = SumFunctionOnSet(f, StakedDeeds)
      BY <2>10, <3>2 DEF AllClaims
    <3>12. PICK x \in Nat, y \in Nat : x = SumFunctionOnSet(rest, open) /\ y = ACC * sum
      BY <2>5, <3>10
    <3>13. x + y <= c
      BY <2>9, <3>4, <3>9, <3>11, <3>12
    <3>. QED BY <3>12, <3>13
  <2>12. sum + left + v.queued <= net
    <3>1. PICK total \in Nat : total = sum + left + v.queued
      BY <2>5
    <3>2. ACC * total = ACC * sum + ACC * left + ACC * v.queued
      BY <2>5, <3>1
    <3>3. Obligations(pos, v) = c + ACC * left + ACC * v.queued
      BY <2>6, <2>10 DEF Obligations
    <3>4. ACC * total <= ACC * net
      <4>1. PICK k \in Nat, queued \in Nat : k = ACC /\ queued = v.queued
        BY <2>5
      <4>2. k * left \in Nat /\ k * queued \in Nat /\ k * sum \in Nat
        BY <4>1
      <4>3. PICK x \in Nat, y \in Nat, z \in Nat :
              x = ACC * left /\ y = ACC * v.queued /\ z = ACC * sum
        BY <4>1, <4>2
      <4>4. PICK u \in Int : u = ACC * net
        BY <2>2, <2>5
      <4>. QED BY <2>4, <2>11, <3>2, <3>3, <4>3, <4>4
    <3>5. total <= net
      <4>1. SUFFICES ASSUME total > net PROVE FALSE
        BY <2>2, <3>1
      <4>2. PICK gap \in Nat \ {0} : total = net + gap
        <5>1. total - net \in Nat \ {0} /\ total = net + (total - net)
          BY <2>2, <4>1
        <5>. QED BY <5>1
      <4>3. ACC * total = ACC * net + ACC * gap
        BY <2>2, <2>5, <4>2
      <4>4. ACC * gap > 0 /\ ACC * net \in Int /\ ACC * gap \in Int
        BY <2>2, <2>5
      <4>. QED BY <3>4, <4>3, <4>4
    <3>. QED BY <3>1, <3>5
  <2>13. SumFunctionOnSet([d \in OpenPositions |-> Earned(d)], OpenPositions) = sum
    BY <2>7, <2>8, <2>9
  <2>14. stream.updated <= Applicable(stream)
    <3>1. stream \in Streams /\ stream.updated <= stream.finish /\ stream.updated <= day
      BY <2>1 DEF StakingInv, StreamSound
    <3>. QED BY <3>1 DEF Applicable
  <2>. QED BY <2>1, <2>2, <2>3, <2>6, <2>12, <2>13, <2>14 DEF StakersFunded, StakingInv
<1>. QED BY <1>1, <1>2, <1>3, PTL DEF StakingSpec

-----------------------------------------------------------------------------
(* The market of deeds. *)

Links == [Nfts -> Nfts \cup {0}]
Lists == [head : Nfts \cup {0}, tail : Nfts \cup {0}, next : Links, previous : Links,
          count : Nat, listed : SUBSET Nfts]

(* The list is the deeds of a in their order, linked both ways, and a deed *)
(* that is not in it has no links left.                                    *)
InOrder(l, a) ==
  /\ l \in Lists /\ a \in Seq(Nfts)
  /\ \A i, j \in DOMAIN a : a[i] = a[j] => i = j
  /\ l.count = Len(a)
  /\ l.listed = {a[i] : i \in DOMAIN a}
  /\ l.head = (IF Len(a) = 0 THEN 0 ELSE a[1])
  /\ l.tail = (IF Len(a) = 0 THEN 0 ELSE a[Len(a)])
  /\ \A i \in DOMAIN a : l.next[a[i]] = IF i = Len(a) THEN 0 ELSE a[i + 1]
  /\ \A i \in DOMAIN a : l.previous[a[i]] = IF i = 1 THEN 0 ELSE a[i - 1]
  /\ \A n \in Nfts \ l.listed : l.next[n] = 0 /\ l.previous[n] = 0

(* The deeds outside whose backing is released, which are all to be paid.  *)
Owed(k, r) == {n \in r : k[n] \in Traders}

VaultInv ==
  /\ keeper \in [Nfts -> Traders \cup {"vault"}]
  /\ released \in SUBSET Nfts
  /\ till \in Int /\ till >= VOID_PER_DEED * Cardinality(Owed(keeper, released))
  /\ InOrder(list, arrivals)
  /\ \A n \in list.listed : keeper[n] = "vault"

(* A deed that is listed comes last.                                       *)
LEMMA AddedInOrder ==
  ASSUME NEW l, NEW a, InOrder(l, a), NEW n \in Nfts, n \notin l.listed
  PROVE  InOrder(Added(l, n), Append(a, n)) /\ Added(l, n).listed = l.listed \cup {n}
<1>1. /\ l \in Lists /\ a \in Seq(Nfts)
      /\ \A i, j \in DOMAIN a : a[i] = a[j] => i = j
      /\ l.count = Len(a)
      /\ l.listed = {a[i] : i \in DOMAIN a}
      /\ l.head = (IF Len(a) = 0 THEN 0 ELSE a[1])
      /\ l.tail = (IF Len(a) = 0 THEN 0 ELSE a[Len(a)])
      /\ \A i \in DOMAIN a : l.next[a[i]] = IF i = Len(a) THEN 0 ELSE a[i + 1]
      /\ \A i \in DOMAIN a : l.previous[a[i]] = IF i = 1 THEN 0 ELSE a[i - 1]
      /\ \A m \in Nfts \ l.listed : l.next[m] = 0 /\ l.previous[m] = 0
  BY DEF InOrder
<1>2. PICK h \in Nfts \cup {0}, t \in Nfts \cup {0}, nx \in Links, pv \in Links,
           c \in Nat, ls \in SUBSET Nfts :
        l = [head |-> h, tail |-> t, next |-> nx, previous |-> pv, count |-> c, listed |-> ls]
  BY <1>1 DEF Lists
<1>3. Nfts \subseteq Nat \ {0}
  BY NftVaultAssumption
<1>4. PICK len \in Nat : len = Len(a) /\ DOMAIN a = 1 .. len /\ (\A i \in 1 .. len : a[i] \in Nfts)
  BY <1>1
<1>5. PICK b : b = Append(a, n)
  OBVIOUS
<1>6. /\ b \in Seq(Nfts) /\ Len(b) = len + 1 /\ DOMAIN b = 1 .. len + 1
      /\ b[len + 1] = n /\ \A i \in 1 .. len : b[i] = a[i]
  BY <1>1, <1>4, <1>5
<1>7. PICK nx2 : nx2 = IF t = 0 THEN nx ELSE [nx EXCEPT ![t] = n]
  OBVIOUS
<1>8. PICK pv2 : pv2 = IF t = 0 THEN pv ELSE [pv EXCEPT ![n] = t]
  OBVIOUS
<1>9. PICK h2 : h2 = IF t = 0 THEN n ELSE h
  OBVIOUS
<1>10. PICK u : u = [head |-> h2, tail |-> n, next |-> nx2, previous |-> pv2,
                     count |-> c + 1, listed |-> ls \cup {n}]
  OBVIOUS
<1>11. Added(l, n) = u
  <2>1. PICK e : e = [l EXCEPT !.head = h2, !.next = nx2, !.previous = pv2, !.tail = n,
                               !.count = c + 1, !.listed = ls \cup {n}]
    OBVIOUS
  <2>2. l.head = h /\ l.tail = t /\ l.next = nx /\ l.previous = pv /\ l.count = c /\ l.listed = ls
    BY <1>2
  <2>3. Added(l, n) = e
    BY <1>7, <1>8, <1>9, <2>1, <2>2 DEF Added
  <2>4. DOMAIN l = {"head", "tail", "next", "previous", "count", "listed"}
    BY <1>2
  <2>5. e = u
    <3>1. /\ e.head = h2 /\ e.next = nx2 /\ e.previous = pv2 /\ e.tail = n
          /\ e.count = c + 1 /\ e.listed = ls \cup {n}
      BY <2>1, <2>4
    <3>2. DOMAIN e = DOMAIN l /\ e = [x \in DOMAIN e |-> e[x]]
      BY <2>1
    <3>. QED BY <1>10, <2>4, <3>1, <3>2
  <2>. QED BY <2>3, <2>5
<1>12. nx2 \in Links /\ pv2 \in Links /\ h2 \in Nfts \cup {0}
  BY <1>7, <1>8, <1>9 DEF Links
<1>13. u \in Lists
  BY <1>10, <1>12 DEF Lists
<1>14. \A i \in 1 .. len : a[i] # n /\ a[i] \in ls
  BY <1>1, <1>2, <1>4
<1>15. \A i, j \in DOMAIN b : b[i] = b[j] => i = j
  BY <1>1, <1>4, <1>6, <1>14
<1>16. u.listed = {b[i] : i \in DOMAIN b}
  <2>1. ls = {a[i] : i \in 1 .. len}
    BY <1>1, <1>2, <1>4
  <2>2. \A i \in 1 .. len + 1 : i \in 1 .. len \/ i = len + 1
    BY <1>4
  <2>3. \A i \in 1 .. len : i \in 1 .. len + 1
    BY <1>4
  <2>. QED BY <1>6, <1>10, <2>1, <2>2, <2>3
<1>17. CASE len = 0
  <2>1. t = 0 /\ ls = {}
    BY <1>1, <1>2, <1>4, <1>17
  <2>2. u.head = b[1] /\ u.tail = b[Len(b)]
    BY <1>6, <1>9, <1>10, <1>17, <2>1
  <2>3. nx2 = nx /\ pv2 = pv /\ \A m \in Nfts : nx[m] = 0 /\ pv[m] = 0
    BY <1>1, <1>2, <1>7, <1>8, <2>1
  <2>4. DOMAIN b = {1} /\ b[1] = n
    BY <1>6, <1>17
  <2>. QED BY <1>1, <1>2, <1>4, <1>5, <1>6, <1>10, <1>11, <1>13, <1>15, <1>16, <1>17,
              <2>2, <2>3, <2>4 DEF InOrder
<1>18. CASE len # 0
  <2>1. t = a[len] /\ h = a[1] /\ t # 0 /\ t \in Nfts /\ len \in 1 .. len /\ 1 \in 1 .. len
    BY <1>1, <1>2, <1>3, <1>4, <1>18
  <2>2. u.head = b[1] /\ u.tail = b[Len(b)]
    BY <1>6, <1>9, <1>10, <2>1
  <2>3. nx2 = [nx EXCEPT ![t] = n] /\ pv2 = [pv EXCEPT ![n] = t]
    BY <1>7, <1>8, <2>1
  <2>4. /\ \A m \in Nfts : nx2[m] = IF m = t THEN n ELSE nx[m]
        /\ \A m \in Nfts : pv2[m] = IF m = n THEN t ELSE pv[m]
    BY <2>3 DEF Links
  <2>5. ASSUME NEW i \in 1 .. len + 1
        PROVE  /\ nx2[b[i]] = IF i = len + 1 THEN 0 ELSE b[i + 1]
               /\ pv2[b[i]] = IF i = 1 THEN 0 ELSE b[i - 1]
    <3>1. CASE i = len + 1
      <4>1. b[i] = n /\ n # t /\ nx[n] = 0 /\ b[i - 1] = t /\ i # 1
        BY <1>1, <1>2, <1>4, <1>6, <1>14, <1>18, <2>1, <3>1
      <4>. QED BY <2>4, <3>1, <4>1
    <3>2. CASE i # len + 1
      <4>1. i \in 1 .. len /\ b[i] = a[i] /\ a[i] \in Nfts /\ a[i] # n
        BY <1>4, <1>6, <1>14, <3>2
      <4>2. pv2[b[i]] = IF i = 1 THEN 0 ELSE a[i - 1]
        BY <1>1, <1>2, <1>4, <2>4, <4>1
      <4>3. i # 1 => b[i - 1] = a[i - 1]
        BY <1>4, <1>6, <4>1
      <4>4. CASE i = len
        BY <1>6, <2>1, <2>4, <3>2, <4>1, <4>2, <4>3, <4>4
      <4>5. CASE i # len
        <5>1. a[i] # t
          BY <1>1, <1>4, <2>1, <4>1, <4>5
        <5>2. nx[a[i]] = a[i + 1] /\ i + 1 \in 1 .. len
          BY <1>1, <1>2, <1>4, <4>1, <4>5
        <5>3. b[i + 1] = a[i + 1]
          BY <1>6, <5>2
        <5>. QED BY <2>4, <3>2, <4>1, <4>2, <4>3, <5>1, <5>2, <5>3
      <4>. QED BY <4>4, <4>5
    <3>. QED BY <3>1, <3>2
  <2>6. ASSUME NEW m \in Nfts \ (ls \cup {n}) PROVE nx2[m] = 0 /\ pv2[m] = 0
    <3>1. m # t /\ m # n /\ nx[m] = 0 /\ pv[m] = 0
      BY <1>1, <1>2, <1>14, <2>1
    <3>. QED BY <2>4, <3>1
  <2>. QED BY <1>1, <1>2, <1>4, <1>5, <1>6, <1>10, <1>11, <1>13, <1>15, <1>16, <1>18,
              <2>2, <2>5, <2>6 DEF InOrder
<1>. QED BY <1>2, <1>10, <1>11, <1>17, <1>18

(* A deed that leaves is taken out wherever it is.                         *)
LEMMA RemovedInOrder ==
  ASSUME NEW l, NEW a, InOrder(l, a), NEW n \in l.listed
  PROVE  /\ InOrder(Removed(l, n), Without(a, n)) /\ Removed(l, n).listed = l.listed \ {n}
         /\ n \in Nfts
<1>1. /\ l \in Lists /\ a \in Seq(Nfts)
      /\ \A i, j \in DOMAIN a : a[i] = a[j] => i = j
      /\ l.count = Len(a)
      /\ l.listed = {a[i] : i \in DOMAIN a}
      /\ l.head = (IF Len(a) = 0 THEN 0 ELSE a[1])
      /\ l.tail = (IF Len(a) = 0 THEN 0 ELSE a[Len(a)])
      /\ \A i \in DOMAIN a : l.next[a[i]] = IF i = Len(a) THEN 0 ELSE a[i + 1]
      /\ \A i \in DOMAIN a : l.previous[a[i]] = IF i = 1 THEN 0 ELSE a[i - 1]
      /\ \A m \in Nfts \ l.listed : l.next[m] = 0 /\ l.previous[m] = 0
  BY DEF InOrder
<1>2. PICK h \in Nfts \cup {0}, t \in Nfts \cup {0}, nx \in Links, pv \in Links,
           c \in Nat, ls \in SUBSET Nfts :
        l = [head |-> h, tail |-> t, next |-> nx, previous |-> pv, count |-> c, listed |-> ls]
  BY <1>1 DEF Lists
<1>3. Nfts \subseteq Nat \ {0}
  BY NftVaultAssumption
<1>4. PICK len \in Nat : len = Len(a) /\ DOMAIN a = 1 .. len /\ (\A i \in 1 .. len : a[i] \in Nfts)
  BY <1>1
<1>5. PICK k \in 1 .. len : a[k] = n
  BY <1>1, <1>4
<1>6. (CHOOSE i \in DOMAIN a : a[i] = n) = k
  <2>1. \A i \in DOMAIN a : a[i] = n => i = k
    BY <1>1, <1>4, <1>5
  <2>. QED BY <1>4, <1>5, <2>1
<1>7. n \in Nfts /\ len - 1 \in Nat /\ len # 0 /\ k \in Nat /\ 1 <= k /\ k <= len
  BY <1>4, <1>5
<1>8. PICK b : b = [i \in 1 .. len - 1 |-> IF i < k THEN a[i] ELSE a[i + 1]]
  OBVIOUS
<1>9. Without(a, n) = b
  BY <1>4, <1>6, <1>8 DEF Without
<1>10. /\ b \in Seq(Nfts) /\ Len(b) = len - 1 /\ DOMAIN b = 1 .. len - 1
       /\ \A i \in 1 .. len - 1 : b[i] = IF i < k THEN a[i] ELSE a[i + 1]
  <2>1. \A i \in 1 .. len - 1 : i \in 1 .. len /\ i + 1 \in 1 .. len
    BY <1>4
  <2>2. b \in [1 .. len - 1 -> Nfts]
    BY <1>4, <1>8, <2>1
  <2>3. b \in Seq(Nfts)
    BY <1>7, <2>2, SeqDef
  <2>. QED BY <1>7, <1>8, <2>2, <2>3
<1>11. PICK p : p = IF k = 1 THEN 0 ELSE a[k - 1]
  OBVIOUS
<1>12. PICK q : q = IF k = len THEN 0 ELSE a[k + 1]
  OBVIOUS
<1>13. pv[n] = p /\ nx[n] = q
  BY <1>1, <1>2, <1>4, <1>5, <1>11, <1>12
<1>14. /\ p \in Nfts \cup {0} /\ q \in Nfts \cup {0}
       /\ (k # 1 => p \in Nfts /\ p # 0 /\ k - 1 \in 1 .. len)
       /\ (k # len => q \in Nfts /\ q # 0 /\ k + 1 \in 1 .. len)
  <2>1. k # 1 => k - 1 \in 1 .. len
    BY <1>7
  <2>2. k # len => k + 1 \in 1 .. len
    BY <1>7
  <2>. QED BY <1>3, <1>4, <1>11, <1>12, <2>1, <2>2
<1>15. PICK nx2 : nx2 = [i \in Nfts |-> IF i = n THEN 0 ELSE IF i = p THEN q ELSE nx[i]]
  OBVIOUS
<1>16. PICK pv2 : pv2 = [i \in Nfts |-> IF i = n THEN 0 ELSE IF i = q THEN p ELSE pv[i]]
  OBVIOUS
<1>17. PICK h2 : h2 = IF p = 0 THEN q ELSE h
  OBVIOUS
<1>18. PICK t2 : t2 = IF q = 0 THEN p ELSE t
  OBVIOUS
<1>19. PICK u : u = [head |-> h2, tail |-> t2, next |-> nx2, previous |-> pv2,
                     count |-> c - 1, listed |-> ls \ {n}]
  OBVIOUS
<1>20. Removed(l, n) = u
  <2>1. PICK e : e = [l EXCEPT !.head = h2, !.next = nx2, !.tail = t2, !.previous = pv2,
                               !.count = c - 1, !.listed = ls \ {n}]
    OBVIOUS
  <2>2. l.head = h /\ l.tail = t /\ l.next = nx /\ l.previous = pv /\ l.count = c /\ l.listed = ls
    BY <1>2
  <2>3. Removed(l, n) = e
    BY <1>13, <1>15, <1>16, <1>17, <1>18, <2>1, <2>2 DEF Removed
  <2>4. DOMAIN l = {"head", "tail", "next", "previous", "count", "listed"}
    BY <1>2
  <2>5. e = u
    <3>1. /\ e.head = h2 /\ e.next = nx2 /\ e.previous = pv2 /\ e.tail = t2
          /\ e.count = c - 1 /\ e.listed = ls \ {n}
      BY <2>1, <2>4
    <3>2. DOMAIN e = DOMAIN l /\ e = [x \in DOMAIN e |-> e[x]]
      BY <2>1
    <3>. QED BY <1>19, <2>4, <3>1, <3>2
  <2>. QED BY <2>3, <2>5
<1>21. u \in Lists
  <2>1. nx2 \in Links /\ pv2 \in Links
    BY <1>14, <1>15, <1>16 DEF Links
  <2>2. c - 1 \in Nat
    BY <1>1, <1>2, <1>4, <1>7
  <2>3. h2 \in Nfts \cup {0} /\ t2 \in Nfts \cup {0}
    BY <1>14, <1>17, <1>18
  <2>. QED BY <1>19, <2>1, <2>2, <2>3 DEF Lists
<1>22. \A i, j \in DOMAIN b : b[i] = b[j] => i = j
  <2>1. SUFFICES ASSUME NEW i \in 1 .. len - 1, NEW j \in 1 .. len - 1, b[i] = b[j] PROVE i = j
    BY <1>10
  <2>2. PICK x \in 1 .. len : x = (IF i < k THEN i ELSE i + 1) /\ b[i] = a[x]
    BY <1>7, <1>10
  <2>3. PICK y \in 1 .. len : y = (IF j < k THEN j ELSE j + 1) /\ b[j] = a[y]
    BY <1>7, <1>10
  <2>4. x = y
    <3>1. \A v, w \in 1 .. len : a[v] = a[w] => v = w
      BY <1>1, <1>4
    <3>2. a[x] = a[y]
      BY <2>1, <2>2, <2>3
    <3>. QED BY <3>1, <3>2
  <2>. QED BY <1>7, <2>2, <2>3, <2>4
<1>23. u.listed = {b[i] : i \in DOMAIN b}
  <2>1. ls = {a[i] : i \in 1 .. len}
    BY <1>1, <1>2, <1>4
  <2>2. ASSUME NEW i \in 1 .. len - 1 PROVE b[i] \in ls \ {n}
    <3>1. PICK x \in 1 .. len : x = (IF i < k THEN i ELSE i + 1) /\ b[i] = a[x]
      BY <1>7, <1>10
    <3>2. x # k
      BY <1>7, <3>1
    <3>3. a[x] # n
      BY <1>1, <1>4, <1>5, <3>2
    <3>. QED BY <2>1, <3>1, <3>3
  <2>3. ASSUME NEW m \in ls \ {n} PROVE \E i \in 1 .. len - 1 : b[i] = m
    <3>1. PICK x \in 1 .. len : a[x] = m
      BY <2>1
    <3>2. x # k
      BY <1>5, <3>1
    <3>3. CASE x < k
      <4>1. x \in 1 .. len - 1
        BY <1>7, <3>3
      <4>. QED BY <1>10, <3>1, <3>3, <4>1
    <3>4. CASE x > k
      <4>1. x - 1 \in 1 .. len - 1 /\ ~ (x - 1 < k) /\ (x - 1) + 1 = x
        BY <1>7, <3>4
      <4>. QED BY <1>10, <3>1, <4>1
    <3>. QED BY <1>7, <3>2, <3>3, <3>4
  <2>. QED BY <1>10, <1>19, <2>2, <2>3
<1>24. u.head = (IF Len(b) = 0 THEN 0 ELSE b[1]) /\ u.tail = (IF Len(b) = 0 THEN 0 ELSE b[Len(b)])
  <2>1. h = a[1] /\ t = a[len] /\ 1 \in 1 .. len /\ len \in 1 .. len
    BY <1>1, <1>2, <1>4, <1>7
  <2>2. CASE len = 1
    BY <1>7, <1>10, <1>11, <1>12, <1>17, <1>18, <1>19, <2>2
  <2>3. CASE len # 1
    <3>1. 1 \in 1 .. len - 1 /\ len - 1 \in 1 .. len - 1
      BY <1>7, <2>3
    <3>2. b[1] = h2
      <4>1. CASE k = 1
        BY <1>10, <1>11, <1>12, <1>17, <2>3, <3>1, <4>1
      <4>2. CASE k # 1
        <5>1. p # 0 /\ 1 < k
          BY <1>7, <1>14, <4>2
        <5>. QED BY <1>10, <1>17, <2>1, <3>1, <5>1
      <4>. QED BY <4>1, <4>2
    <3>3. b[len - 1] = t2
      <4>1. CASE k = len
        <5>1. len - 1 < k /\ q = 0 /\ p = a[len - 1]
          BY <1>7, <1>11, <1>12, <2>3, <4>1
        <5>. QED BY <1>10, <1>18, <3>1, <5>1
      <4>2. CASE k # len
        <5>1. q # 0 /\ ~ (len - 1 < k) /\ (len - 1) + 1 = len
          BY <1>7, <1>14, <4>2
        <5>. QED BY <1>10, <1>18, <2>1, <3>1, <5>1
      <4>. QED BY <4>1, <4>2
    <3>. QED BY <1>7, <1>10, <1>19, <2>3, <3>2, <3>3
  <2>. QED BY <2>2, <2>3
<1>25. ASSUME NEW i \in 1 .. len - 1
       PROVE  /\ nx2[b[i]] = IF i = len - 1 THEN 0 ELSE b[i + 1]
              /\ pv2[b[i]] = IF i = 1 THEN 0 ELSE b[i - 1]
  <2>1. PICK x \in 1 .. len : x = (IF i < k THEN i ELSE i + 1) /\ b[i] = a[x]
    BY <1>7, <1>10
  <2>2. a[x] \in Nfts /\ a[x] # n /\ x # k
    <3>1. x # k
      BY <1>7, <2>1
    <3>. QED BY <1>1, <1>4, <1>5, <3>1
  <2>3. /\ nx[a[x]] = IF x = len THEN 0 ELSE a[x + 1]
        /\ pv[a[x]] = IF x = 1 THEN 0 ELSE a[x - 1]
    BY <1>1, <1>2, <1>4
  <2>4. a[x] = p <=> x = k - 1
    <3>1. CASE k = 1
      <4>1. p = 0 /\ a[x] # 0 /\ x # k - 1
        BY <1>3, <1>11, <2>2, <3>1
      <4>. QED BY <4>1
    <3>2. CASE k # 1
      <4>1. k - 1 \in 1 .. len /\ p = a[k - 1]
        BY <1>11, <1>14, <3>2
      <4>. QED BY <1>1, <1>4, <4>1
    <3>. QED BY <3>1, <3>2
  <2>5. a[x] = q <=> x = k + 1
    <3>1. CASE k = len
      <4>1. q = 0 /\ a[x] # 0 /\ x # k + 1
        BY <1>3, <1>12, <2>2, <3>1
      <4>. QED BY <4>1
    <3>2. CASE k # len
      <4>1. k + 1 \in 1 .. len /\ q = a[k + 1]
        BY <1>12, <1>14, <3>2
      <4>. QED BY <1>1, <1>4, <4>1
    <3>. QED BY <3>1, <3>2
  <2>6. nx2[a[x]] = (IF x = k - 1 THEN q ELSE nx[a[x]])
    BY <1>15, <2>2, <2>4
  <2>7. pv2[a[x]] = (IF x = k + 1 THEN p ELSE pv[a[x]])
    BY <1>16, <2>2, <2>5
  <2>8. nx2[a[x]] = IF i = len - 1 THEN 0 ELSE b[i + 1]
    <3>1. CASE x = k - 1
      <4>1. i = k - 1 /\ nx2[a[x]] = q
        BY <1>7, <2>1, <2>6, <3>1
      <4>2. CASE k = len
        BY <1>7, <1>12, <4>1, <4>2
      <4>3. CASE k # len
        <5>1. i # len - 1 /\ i + 1 = k /\ i + 1 \in 1 .. len - 1 /\ ~ (i + 1 < k)
              /\ (i + 1) + 1 = k + 1
          BY <1>7, <4>1, <4>3
        <5>. QED BY <1>10, <1>12, <4>1, <4>3, <5>1
      <4>. QED BY <4>2, <4>3
    <3>2. CASE x # k - 1
      <4>1. nx2[a[x]] = IF x = len THEN 0 ELSE a[x + 1]
        BY <2>3, <2>6, <3>2
      <4>2. CASE i < k
        <5>1. x = i /\ i # len - 1 /\ x # len /\ i + 1 < k /\ i + 1 \in 1 .. len - 1
          BY <1>7, <2>1, <2>2, <3>2, <4>2
        <5>. QED BY <1>10, <4>1, <5>1
      <4>3. CASE ~ i < k
        <5>1. x = i + 1 /\ (x = len <=> i = len - 1)
          BY <1>7, <2>1, <4>3
        <5>2. i # len - 1 => (i + 1 \in 1 .. len - 1 /\ ~ (i + 1 < k) /\ (i + 1) + 1 = x + 1)
          BY <1>7, <2>1, <4>3
        <5>. QED BY <1>10, <4>1, <5>1, <5>2
      <4>. QED BY <4>2, <4>3
    <3>. QED BY <3>1, <3>2
  <2>9. pv2[a[x]] = IF i = 1 THEN 0 ELSE b[i - 1]
    <3>1. CASE x = k + 1
      <4>1. i = k /\ pv2[a[x]] = p
        BY <1>7, <2>1, <2>7, <3>1
      <4>2. CASE k = 1
        BY <1>11, <4>1, <4>2
      <4>3. CASE k # 1
        <5>1. i # 1 /\ i - 1 = k - 1 /\ i - 1 \in 1 .. len - 1 /\ i - 1 < k
          BY <1>7, <4>1, <4>3
        <5>. QED BY <1>10, <1>11, <4>1, <4>3, <5>1
      <4>. QED BY <4>2, <4>3
    <3>2. CASE x # k + 1
      <4>1. pv2[a[x]] = IF x = 1 THEN 0 ELSE a[x - 1]
        BY <2>3, <2>7, <3>2
      <4>2. CASE i < k
        <5>1. x = i
          BY <2>1, <4>2
        <5>2. i # 1 => (i - 1 \in 1 .. len - 1 /\ i - 1 < k)
          BY <1>7, <4>2
        <5>. QED BY <1>10, <4>1, <5>1, <5>2
      <4>3. CASE ~ i < k
        <5>1. x = i + 1 /\ x # 1 /\ i # k /\ i # 1 /\ i - 1 \in 1 .. len - 1 /\ ~ (i - 1 < k)
              /\ (i - 1) + 1 = i /\ x - 1 = i
          BY <1>7, <2>1, <3>2, <4>3
        <5>. QED BY <1>10, <4>1, <5>1
      <4>. QED BY <4>2, <4>3
    <3>. QED BY <3>1, <3>2
  <2>. QED BY <2>1, <2>8, <2>9
<1>26. ASSUME NEW m \in Nfts \ (ls \ {n}) PROVE nx2[m] = 0 /\ pv2[m] = 0
  <2>1. CASE m = n
    BY <1>7, <1>15, <1>16, <2>1
  <2>2. CASE m # n
    <3>1. m \notin ls /\ nx[m] = 0 /\ pv[m] = 0 /\ m # 0
      BY <1>1, <1>2, <1>3, <2>2
    <3>2. m # p /\ m # q
      <4>1. \A i \in 1 .. len : a[i] \in ls
        BY <1>1, <1>2, <1>4
      <4>. QED BY <1>11, <1>12, <1>14, <3>1, <4>1
    <3>. QED BY <1>15, <1>16, <2>2, <3>1, <3>2
  <2>. QED BY <2>1, <2>2
<1>27. u.count = Len(b) /\ u.next = nx2 /\ u.previous = pv2 /\ u.listed = ls \ {n}
  BY <1>1, <1>2, <1>4, <1>10, <1>19
<1>28. \A i \in DOMAIN b : u.next[b[i]] = IF i = Len(b) THEN 0 ELSE b[i + 1]
  BY <1>10, <1>25, <1>27
<1>29. \A i \in DOMAIN b : u.previous[b[i]] = IF i = 1 THEN 0 ELSE b[i - 1]
  BY <1>10, <1>25, <1>27
<1>30. \A m \in Nfts \ u.listed : u.next[m] = 0 /\ u.previous[m] = 0
  BY <1>26, <1>27
<1>31. InOrder(u, b)
  BY <1>10, <1>21, <1>22, <1>23, <1>24, <1>27, <1>28, <1>29, <1>30 DEF InOrder
<1>. QED BY <1>2, <1>7, <1>9, <1>20, <1>27, <1>31

(* Walking from the head on finds the deeds in their order.                *)
LEMMA InventoryInOrder ==
  ASSUME InOrder(list, arrivals)
  PROVE  InventoryAt = arrivals
<1>1. PICK a, l : a = arrivals /\ l = list
  OBVIOUS
<1>2. /\ a \in Seq(Nfts) /\ l.count = Len(a)
      /\ l.head = (IF Len(a) = 0 THEN 0 ELSE a[1])
      /\ \A i \in DOMAIN a : l.next[a[i]] = IF i = Len(a) THEN 0 ELSE a[i + 1]
  BY <1>1 DEF InOrder
<1>3. PICK len \in Nat : len = Len(a) /\ DOMAIN a = 1 .. len /\ (\A i \in 1 .. len : a[i] \in Nfts)
  BY <1>2
<1>4. Nfts \subseteq Nat \ {0}
  BY NftVaultAssumption
<1>5. PICK head, next : head = l.head /\ next = l.next
  OBVIOUS
<1> DEFINE Walk(f) == [i \in 1 .. len |-> IF i = 1 THEN head
                                          ELSE IF f[i - 1] = 0 THEN 0 ELSE next[f[i - 1]]]
<1>6. a = Walk(a)
  <2>1. ASSUME NEW i \in 1 .. len PROVE a[i] = Walk(a)[i]
    <3>1. CASE i = 1
      <4>1. a[i] = head
        BY <1>2, <1>3, <1>5, <3>1
      <4>. QED BY <3>1, <4>1
    <3>2. CASE i # 1
      <4>1. i - 1 \in 1 .. len /\ i - 1 # len /\ (i - 1) + 1 = i
        BY <3>2
      <4>2. a[i - 1] # 0 /\ next[a[i - 1]] = a[i]
        BY <1>2, <1>3, <1>4, <1>5, <4>1
      <4>. QED BY <3>2, <4>2
    <3>. QED BY <3>1, <3>2
  <2>2. a = [i \in 1 .. len |-> a[i]]
    BY <1>2, <1>3
  <2>. QED BY <2>1, <2>2
<1>7. ASSUME NEW f, f = Walk(f) PROVE f = a
  <2>1. PICK wrong \in SUBSET Nat : wrong = {i \in 1 .. len : f[i] # a[i]}
    <3>1. {i \in 1 .. len : f[i] # a[i]} \in SUBSET Nat
      OBVIOUS
    <3>. QED BY <3>1
  <2>2. wrong = {}
    <3>1. SUFFICES ASSUME wrong # {} PROVE FALSE
      OBVIOUS
    <3>2. PICK m \in wrong : \A n \in wrong : m <= n
      BY <3>1, NatMin
    <3>3. m \in 1 .. len /\ f[m] # a[m]
      BY <2>1, <3>2
    <3>4. f[m] = Walk(f)[m] /\ a[m] = Walk(a)[m]
      BY <1>6, <1>7
    <3>5. m # 1
      BY <3>3, <3>4
    <3>6. m - 1 \in 1 .. len /\ m - 1 \notin wrong
      BY <3>2, <3>3, <3>5
    <3>7. f[m - 1] = a[m - 1]
      BY <2>1, <3>6
    <3>. QED BY <3>3, <3>4, <3>5, <3>7
  <2>3. f = [i \in 1 .. len |-> f[i]] /\ a = [i \in 1 .. len |-> a[i]]
    BY <1>6, <1>7
  <2>. QED BY <2>1, <2>2, <2>3
<1>8. (CHOOSE f : f = Walk(f)) = a
  BY <1>6, <1>7
<1>9. list.count = len /\ list.head = head /\ list.next = next
  BY <1>1, <1>2, <1>3, <1>5
<1>10. InventoryAt = [i \in 1 .. len |-> (CHOOSE f : f = Walk(f))[i]]
  BY <1>9 DEF InventoryAt
<1>11. a = [i \in 1 .. len |-> a[i]]
  BY <1>6
<1>. QED BY <1>1, <1>8, <1>10, <1>11

(* The fees of a sale come out of what the seller gives up.                *)
LEMMA SaleWithinPrice ==
  /\ VOID_PER_DEED \in Nat /\ RANDOM_FEE \in Nat /\ SPECIFIC_FEE \in Nat /\ PROTOCOL_CUT \in Nat
  /\ \A n : Paid(n) \in Int /\ Paid(n) <= VOID_PER_DEED
<1>1. PICK v \in Nat : v = VOID_PER_DEED
  BY NftVaultAssumption
<1>2. PICK a \in Nat : a = (v * 50) \div 10000 /\ 10000 * a <= v * 50
  BY QuotientNat
<1>3. PICK b \in Nat : b = (v * 100) \div 10000 /\ 10000 * b <= v * 100
  BY QuotientNat
<1>4. PICK c \in Nat : c = (v * 150) \div 10000 /\ v * 150 < 10000 * c + 10000
  BY QuotientNat
<1>5. PICK d \in Nat : d = (v * 200) \div 10000
  BY QuotientNat
<1>6. a + b <= c
  BY <1>2, <1>3, <1>4
<1>. QED BY <1>1, <1>2, <1>3, <1>4, <1>5, <1>6
         DEF Paid, SellQuote, PROTOCOL_CUT, RANDOM_FEE, SPECIFIC_FEE, Fee

(* The deeds owed are finitely many, and one more or less is one price.    *)
LEMMA OwedCounts ==
  ASSUME NEW S \in SUBSET Nfts, NEW T \in SUBSET Nfts, NEW n \in Nfts
  PROVE  /\ VOID_PER_DEED * Cardinality(S) \in Nat
         /\ T = S \ {n} /\ n \in S =>
              VOID_PER_DEED * Cardinality(S) = VOID_PER_DEED * Cardinality(T) + VOID_PER_DEED
<1>1. IsFiniteSet(S) /\ IsFiniteSet(T)
  BY NftVaultAssumption, FS_Subset
<1>2. PICK s \in Nat, t \in Nat, v \in Nat :
        s = Cardinality(S) /\ t = Cardinality(T) /\ v = VOID_PER_DEED
  BY <1>1, FS_CardinalityType, NftVaultAssumption
<1>3. T = S \ {n} /\ n \in S => s = t + 1
  BY <1>1, <1>2, FS_RemoveElement
<1>4. v * s \in Nat /\ v * (t + 1) = v * t + v
  OBVIOUS
<1>. QED BY <1>2, <1>3, <1>4

(* A deed is listed, by a sale or because it is there.                     *)
LEMMA EnlistKeeps ==
  ASSUME VaultInv, NEW n \in Nfts, Enlist(n)
  PROVE  InOrder(list', arrivals') /\ list'.listed = list.listed \cup {n}
<1>1. PICK l, a : l = list /\ a = arrivals
  OBVIOUS
<1>2. InOrder(l, a) /\ n \notin l.listed /\ list' = Added(l, n) /\ arrivals' = Append(a, n)
  BY <1>1 DEF VaultInv, Enlist
<1>3. InOrder(Added(l, n), Append(a, n)) /\ Added(l, n).listed = l.listed \cup {n}
  BY <1>2, AddedInOrder
<1>. QED BY <1>1, <1>2, <1>3

LEMMA DonationKeeps ==
  ASSUME VaultInv, NEW n \in Nfts, AcceptDonation(n)
  PROVE  VaultInv'
<1>1. /\ keeper \in [Nfts -> Traders \cup {"vault"}] /\ released \in SUBSET Nfts /\ till \in Int
      /\ till >= VOID_PER_DEED * Cardinality(Owed(keeper, released))
      /\ keeper[n] = "vault" /\ keeper' = keeper /\ released' = released \cup {n}
      /\ till' = till + Backing(n) /\ "vault" \notin Traders /\ VOID_PER_DEED \in Nat
  BY NftVaultAssumption DEF VaultInv, AcceptDonation
<1>2. Owed(keeper', released') = Owed(keeper, released)
  BY <1>1 DEF Owed
<1>3. Owed(keeper, released) \in SUBSET Nfts
  BY <1>1 DEF Owed
<1>4. VOID_PER_DEED * Cardinality(Owed(keeper, released)) \in Nat
  BY <1>3, OwedCounts
<1>5. Backing(n) \in Nat
  BY <1>1 DEF Backing
<1>6. till' \in Int /\ till' >= VOID_PER_DEED * Cardinality(Owed(keeper', released'))
  <2>1. PICK o \in Nat : o = VOID_PER_DEED * Cardinality(Owed(keeper, released))
    BY <1>4
  <2>2. till' \in Int /\ till' >= o
    BY <1>1, <1>5, <2>1
  <2>. QED BY <1>2, <2>1, <2>2
<1>7. InOrder(list', arrivals') /\ list'.listed = list.listed \cup {n}
  BY EnlistKeeps DEF AcceptDonation
<1>8. \A m \in list'.listed : keeper'[m] = "vault"
  BY <1>1, <1>7 DEF VaultInv
<1>9. keeper' \in [Nfts -> Traders \cup {"vault"}] /\ released' \in SUBSET Nfts
  BY <1>1
<1>. QED BY <1>6, <1>7, <1>8, <1>9 DEF VaultInv

LEMMA SaleKeeps ==
  ASSUME VaultInv, NEW t \in Traders, NEW n \in Nfts, SellWithPermit(t, n)
  PROVE  VaultInv'
<1>1. /\ keeper \in [Nfts -> Traders \cup {"vault"}] /\ released \in SUBSET Nfts /\ till \in Int
      /\ till >= VOID_PER_DEED * Cardinality(Owed(keeper, released))
      /\ keeper[n] = t /\ keeper' = [keeper EXCEPT ![n] = "vault"]
      /\ released' = released \cup {n}
      /\ till' = till + Backing(n) - Paid(n) /\ "vault" \notin Traders
  BY NftVaultAssumption DEF VaultInv, SellWithPermit
<1>2. /\ keeper' \in [Nfts -> Traders \cup {"vault"}] /\ released' \in SUBSET Nfts
      /\ keeper'[n] = "vault" /\ \A m \in Nfts \ {n} : keeper'[m] = keeper[m]
  BY <1>1
<1>3. PICK before \in SUBSET Nfts : before = Owed(keeper, released)
  BY <1>1 DEF Owed
<1>4. PICK after \in SUBSET Nfts : after = Owed(keeper', released')
  BY <1>2 DEF Owed
<1>5. after = before \ {n}
  BY <1>1, <1>2, <1>3, <1>4 DEF Owed
<1>6. VOID_PER_DEED \in Nat /\ Paid(n) \in Int /\ Paid(n) <= VOID_PER_DEED
  BY SaleWithinPrice
<1>7. till' \in Int /\ till' >= VOID_PER_DEED * Cardinality(after)
  <2>1. PICK x \in Nat, y \in Nat :
          x = VOID_PER_DEED * Cardinality(before) /\ y = VOID_PER_DEED * Cardinality(after)
    BY OwedCounts
  <2>2. CASE n \in released
    <3>1. n \in before /\ Backing(n) = 0
      BY <1>1, <1>3, <2>2 DEF Owed, Backing
    <3>2. x = y + VOID_PER_DEED
      BY <1>5, <2>1, <3>1, OwedCounts
    <3>. QED BY <1>1, <1>3, <1>6, <2>1, <3>1, <3>2
  <2>3. CASE n \notin released
    <3>1. after = before /\ Backing(n) = VOID_PER_DEED
      BY <1>3, <1>5, <2>3 DEF Owed, Backing
    <3>. QED BY <1>1, <1>3, <1>6, <2>1, <3>1
  <2>. QED BY <2>2, <2>3
<1>8. InOrder(list', arrivals') /\ list'.listed = list.listed \cup {n}
  BY EnlistKeeps DEF SellWithPermit
<1>9. list.listed \in SUBSET Nfts /\ \A m \in list.listed : keeper[m] = "vault"
  BY DEF VaultInv, InOrder, Lists
<1>10. \A m \in list'.listed : keeper'[m] = "vault"
  BY <1>2, <1>8, <1>9
<1>. QED BY <1>2, <1>4, <1>7, <1>8, <1>10 DEF VaultInv

(* What a buyer pays for the deed stays in the till.                       *)
LEMMA PurchaseKeeps ==
  ASSUME VaultInv, NEW t \in Traders, NEW n, NEW fee \in Nat, Buy(t, n, fee)
  PROVE  VaultInv'
<1>1. PICK l, a : l = list /\ a = arrivals
  OBVIOUS
<1>2. InOrder(l, a) /\ n \in l.listed /\ list' = Removed(l, n) /\ arrivals' = Without(a, n)
  BY <1>1 DEF VaultInv, Buy
<1>3. InOrder(list', arrivals') /\ list'.listed = list.listed \ {n} /\ n \in Nfts
  BY <1>1, <1>2, RemovedInOrder
<1>4. /\ keeper \in [Nfts -> Traders \cup {"vault"}] /\ released \in SUBSET Nfts /\ till \in Int
      /\ till >= VOID_PER_DEED * Cardinality(Owed(keeper, released))
      /\ keeper[n] = "vault" /\ keeper' = [keeper EXCEPT ![n] = t]
      /\ released' = released
      /\ till' = till + BuyQuote(fee) - PROTOCOL_CUT - fee /\ "vault" \notin Traders
  BY <1>1, <1>2, NftVaultAssumption DEF VaultInv, Buy
<1>5. /\ keeper' \in [Nfts -> Traders \cup {"vault"}] /\ released' \in SUBSET Nfts
      /\ keeper'[n] = t /\ \A m \in Nfts \ {n} : keeper'[m] = keeper[m]
  BY <1>3, <1>4
<1>6. PICK before \in SUBSET Nfts : before = Owed(keeper, released)
  BY <1>4 DEF Owed
<1>7. PICK after \in SUBSET Nfts : after = Owed(keeper', released')
  BY <1>5 DEF Owed
<1>8. n \notin before /\ before = after \ {n}
  BY <1>3, <1>4, <1>5, <1>6, <1>7 DEF Owed
<1>9. VOID_PER_DEED \in Nat /\ PROTOCOL_CUT \in Nat
  BY SaleWithinPrice
<1>10. till' = till + VOID_PER_DEED
  <2>1. BuyQuote(fee) = VOID_PER_DEED + fee + PROTOCOL_CUT
    BY DEF BuyQuote
  <2>. QED BY <1>4, <1>9, <2>1
<1>11. till' \in Int /\ till' >= VOID_PER_DEED * Cardinality(after)
  <2>1. PICK x \in Nat, y \in Nat :
          x = VOID_PER_DEED * Cardinality(before) /\ y = VOID_PER_DEED * Cardinality(after)
    BY <1>3, OwedCounts
  <2>2. CASE n \in after
    <3>1. y = x + VOID_PER_DEED
      BY <1>3, <1>8, <2>1, <2>2, OwedCounts
    <3>. QED BY <1>4, <1>6, <1>9, <1>10, <2>1, <3>1
  <2>3. CASE n \notin after
    <3>1. after = before
      BY <1>8, <2>3
    <3>. QED BY <1>4, <1>6, <1>9, <1>10, <2>1, <3>1
  <2>. QED BY <2>2, <2>3
<1>12. list.listed \in SUBSET Nfts /\ \A m \in list.listed : keeper[m] = "vault"
  BY DEF VaultInv, InOrder, Lists
<1>13. \A m \in list'.listed : keeper'[m] = "vault"
  BY <1>3, <1>5, <1>12
<1>. QED BY <1>3, <1>5, <1>7, <1>11, <1>13 DEF VaultInv

(* A deed moves outside the market, or to it.                              *)
LEMMA HandOverKeeps ==
  ASSUME VaultInv, NEW t \in Traders, NEW n \in Nfts, HandOver(t, n)
  PROVE  VaultInv'
<1>1. /\ keeper \in [Nfts -> Traders \cup {"vault"}] /\ released \in SUBSET Nfts /\ till \in Int
      /\ till >= VOID_PER_DEED * Cardinality(Owed(keeper, released))
      /\ keeper[n] = t /\ released' = released /\ till' = till
      /\ list' = list /\ arrivals' = arrivals /\ "vault" \notin Traders
      /\ InOrder(list, arrivals) /\ \A m \in list.listed : keeper[m] = "vault"
  BY NftVaultAssumption DEF VaultInv, HandOver
<1>2. PICK u \in Traders \cup {"vault"} : keeper' = [keeper EXCEPT ![n] = u]
  BY DEF HandOver
<1>3. /\ keeper' \in [Nfts -> Traders \cup {"vault"}] /\ released' \in SUBSET Nfts
      /\ keeper'[n] = u /\ \A m \in Nfts \ {n} : keeper'[m] = keeper[m]
  BY <1>1, <1>2
<1>4. PICK before \in SUBSET Nfts : before = Owed(keeper, released)
  BY <1>1 DEF Owed
<1>5. PICK after \in SUBSET Nfts : after = Owed(keeper', released')
  BY <1>3 DEF Owed
<1>6. VOID_PER_DEED \in Nat
  BY SaleWithinPrice
<1>7. till' >= VOID_PER_DEED * Cardinality(after)
  <2>1. PICK x \in Nat, y \in Nat :
          x = VOID_PER_DEED * Cardinality(before) /\ y = VOID_PER_DEED * Cardinality(after)
    BY OwedCounts
  <2>2. after = before \/ (after = before \ {n} /\ n \in before)
    BY <1>1, <1>3, <1>4, <1>5 DEF Owed
  <2>3. x = y \/ x = y + VOID_PER_DEED
    BY <2>1, <2>2, OwedCounts
  <2>. QED BY <1>1, <1>4, <1>6, <2>1, <2>3
<1>8. list.listed \in SUBSET Nfts
  BY <1>1 DEF InOrder, Lists
<1>9. \A m \in list'.listed : keeper'[m] = "vault"
  BY <1>1, <1>3, <1>8
<1>10. InOrder(list', arrivals')
  BY <1>1
<1>. QED BY <1>1, <1>3, <1>5, <1>7, <1>9, <1>10 DEF VaultInv

LEMMA VaultInitHolds == VaultInit => VaultInv
<1>1. SUFFICES ASSUME VaultInit PROVE VaultInv
  OBVIOUS
<1>2. /\ keeper \in [Nfts -> Traders \cup {"vault"}] /\ till = 0 /\ arrivals = <<>>
      /\ released = {n \in Nfts : keeper[n] = "vault"}
      /\ list = [head |-> 0, tail |-> 0, next |-> Unlinked, previous |-> Unlinked,
                 count |-> 0, listed |-> {}]
  BY <1>1 DEF VaultInit
<1>3. Owed(keeper, released) = {}
  BY <1>2, NftVaultAssumption DEF Owed
<1>4. VOID_PER_DEED * Cardinality(Owed(keeper, released)) = 0
  BY <1>3, FS_EmptySet, NftVaultAssumption
<1>5. list \in Lists
  <2>1. Unlinked \in Links
    BY DEF Unlinked, Links
  <2>. QED BY <1>2, <2>1 DEF Lists
<1>6. arrivals \in Seq(Nfts) /\ Len(arrivals) = 0 /\ DOMAIN arrivals = {}
  BY <1>2
<1>7. \A n \in Nfts : Unlinked[n] = 0
  BY DEF Unlinked
<1>8. /\ list.count = 0 /\ list.listed = {} /\ list.head = 0 /\ list.tail = 0
      /\ list.next = Unlinked /\ list.previous = Unlinked
  BY <1>2
<1>9. InOrder(list, arrivals)
  BY <1>5, <1>6, <1>7, <1>8 DEF InOrder
<1>. QED BY <1>2, <1>4, <1>8, <1>9 DEF VaultInv

(* The published price is kept: the till covers every deed outside whose   *)
(* backing is released; the walk down the list finds the deeds listed and  *)
(* not yet bought, the oldest first; and the vault has each one.           *)
THEOREM DeedsCanBeSold == VaultSpec => []EveryDeedCanBeSold
<1>1. VaultInit => VaultInv
  BY VaultInitHolds
<1>2. VaultInv /\ [VaultNext]_vaultVars => VaultInv'
  <2>1. SUFFICES ASSUME VaultInv, [VaultNext]_vaultVars PROVE VaultInv'
    OBVIOUS
  <2>2. CASE UNCHANGED vaultVars
    BY <2>1, <2>2 DEF vaultVars, VaultInv
  <2>3. ASSUME NEW n \in Nfts, AcceptDonation(n) PROVE VaultInv'
    BY <2>1, <2>3, DonationKeeps
  <2>4. ASSUME NEW t \in Traders, NEW n \in Nfts,
               SellWithPermit(t, n) \/ BuySpecific(t, n) \/ HandOver(t, n)
        PROVE  VaultInv'
    <3>1. BuySpecific(t, n) => VaultInv'
      BY <2>1, PurchaseKeeps, SaleWithinPrice DEF BuySpecific
    <3>. QED BY <2>1, <2>4, <3>1, SaleKeeps, HandOverKeeps
  <2>5. ASSUME NEW t \in Traders, BuyRandom(t) PROVE VaultInv'
    BY <2>1, <2>5, PurchaseKeeps, SaleWithinPrice DEF BuyRandom
  <2>. QED BY <2>1, <2>2, <2>3, <2>4, <2>5 DEF VaultNext
<1>3. VaultInv => EveryDeedCanBeSold
  BY InventoryInOrder DEF VaultInv, EveryDeedCanBeSold, Owed
<1>. QED BY <1>1, <1>2, <1>3, PTL DEF VaultSpec
=============================================================================
