-------------------------- MODULE AppRuntimeProofs --------------------------
(***************************************************************************)
(* The treasury and the runtime that pays into it are solvent, for any set *)
(* of wallets, chains, applications, settlers, prices and rates.  First    *)
(* the treasury alone, whoever its settlers are: type correctness and      *)
(* solvency of VoidChainTreasury, and the lemmas about its single          *)
(* operations; then the runtime, one of its callers, in every state of     *)
(* every execution, also while an application holds control; and that the  *)
(* two together implement Earnings.                                        *)
(***************************************************************************)
EXTENDS AppRuntime, Sums, TLAPS

-----------------------------------------------------------------------------
(* The treasury. *)

\* The protocol's cut of a gross amount is at least one unit and never more
\* than the amount (VoidChainTreasury.sol:236-276).
LEMMA CutBounds ==
  ASSUME NEW gross \in Nat, gross # 0
  PROVE  /\ ProtocolCut(gross) \in Nat
         /\ 1 <= ProtocolCut(gross) /\ ProtocolCut(gross) <= gross
<1> DEFINE c == (gross * 200) \div 10000
<1>1. c \in Nat /\ c <= gross
  OBVIOUS
<1>2. ProtocolCut(gross) = IF c = 0 THEN 1 ELSE c
  BY DEF ProtocolCut
<1> HIDE DEF c
<1>. QED BY <1>1, <1>2

\* The accounts are finitely many.
LEMMA AccountFinite == IsFiniteSet(Account)
<1>1. IsFiniteSet({Runtime, Treasury, Forwarder})
  <2>1. IsFiniteSet({Runtime}) /\ IsFiniteSet({Treasury}) /\ IsFiniteSet({Forwarder})
    BY FS_Singleton
  <2>2. {Runtime, Treasury, Forwarder} = ({Runtime} \cup {Treasury}) \cup {Forwarder}
    OBVIOUS
  <2>. QED BY <2>1, <2>2, FS_Union
<1>. QED BY <1>1, FS_Union, AccountAssumption DEF Account

\* What a transfer of VOID does to the balances.
LEMMA MoveEffect ==
  ASSUME bal \in [Account -> Nat], NEW from \in Account, NEW to \in Account,
         NEW amount \in Nat, Move(from, to, amount)
  PROVE  /\ bal' \in [Account -> Nat]
         /\ \A a \in Account : a # from => bal'[a] >= bal[a]
         /\ \A a \in Account : a # from /\ a # to => bal'[a] = bal[a]
         /\ from # to => bal'[from] = bal[from] - amount /\ bal'[to] = bal[to] + amount
         /\ from = to => bal'[from] = bal[from]
BY DEF Move

\* One entry of a book of natural numbers changes.
LEMMA BookEntry ==
  ASSUME NEW S, IsFiniteSet(S), NEW f, NEW g, NEW x \in S, NEW d \in Int,
         \A y \in S : f[y] \in Nat,
         \A y \in S \ {x} : g[y] = f[y],
         g[x] = f[x] + d
  PROVE  /\ SumFunctionOnSet(f, S) \in Nat
         /\ SumFunctionOnSet(g, S) = SumFunctionOnSet(f, S) + d
<1>1. \A y \in S : f[y] \in Int
  OBVIOUS
<1>2. SumFunctionOnSet(g, S) = SumFunctionOnSet(f, S) + d
  BY <1>1, SumChange
<1>3. SumFunctionOnSet(f, S) \in Nat
  BY SumNat
<1>. QED BY <1>2, <1>3

-----------------------------------------------------------------------------
\* The inductive invariant: well-formed books whose total is covered.
TreasuryInv == AssetsTypeOK /\ TreasuryTypeOK /\ TreasurySolvent

\* What a step may do to the credits: nobody's go down, or one account is paid
\* all it has.
CreditsGrow == \A a \in Account : claimable'[a] >= claimable[a]

PaidOut(u) ==
  /\ claimable' = [claimable EXCEPT ![u] = 0]
  /\ bal'[u] = bal[u] + claimable[u]

\* What comes into the treasury is credited, and what leaves it was.
AllCredited ==
  bal'[Treasury] - bal[Treasury] =
    SumFunctionOnSet(claimable', Account) - SumFunctionOnSet(claimable, Account)

\* Books that do not change stay covered while the treasury's VOID does not
\* go down.
LEMMA StaysCovered ==
  ASSUME TreasuryInv, claimable' = claimable, bal' \in [Account -> Nat],
         bal'[Treasury] >= bal[Treasury]
  PROVE  TreasurySolvent'
<1>1. \A a \in Account : claimable[a] \in Nat
  BY DEF TreasuryInv, TreasuryTypeOK
<1>2. SumFunctionOnSet(claimable, Account) \in Nat
  BY ONLY <1>1, AccountFinite, SumNat
<1>3. bal[Treasury] \in Nat /\ bal'[Treasury] \in Nat
  BY DEF TreasuryInv, AssetsTypeOK, Account
<1>. QED BY <1>2, <1>3 DEF TreasuryInv, TreasurySolvent

\* settle and settleTo: two credits, covered by what came in.
LEMMA SettleKeepsInv ==
  ASSUME TreasuryInv, NEW c \in User, NEW t \in Chain, NEW u \in User, NEW gross \in Nat,
         SettleFor(c, t, u, gross)
  PROVE  TreasuryInv' /\ CreditsGrow /\ AllCredited
<1> DEFINE cut == ProtocolCut(gross)
           mid == [claimable EXCEPT ![protocolTreasury] = claimable[protocolTreasury] + cut]
<1>1. gross # 0 /\ Move(c, Treasury, gross)
  BY DEF SettleFor
<1>2. cut \in Nat /\ 1 <= cut /\ cut <= gross
  BY <1>1, CutBounds
<1>3. /\ bal \in [Account -> Nat] /\ claimable \in [Account -> Nat]
      /\ protocolTreasury \in Account /\ u \in Account
      /\ c \in Account /\ Treasury \in Account /\ c # Treasury
  BY AccountAssumption DEF TreasuryInv, AssetsTypeOK, TreasuryTypeOK, Account
<1>4. bal' \in [Account -> Nat] /\ bal'[Treasury] = bal[Treasury] + gross
  BY <1>1, <1>3, MoveEffect
<1> HIDE DEF cut
<1>5. /\ mid \in [Account -> Nat]
      /\ SumFunctionOnSet(claimable, Account) \in Nat
      /\ SumFunctionOnSet(mid, Account) = SumFunctionOnSet(claimable, Account) + cut
  <2>1. mid \in [Account -> Nat]
    BY <1>2, <1>3
  <2>2. /\ \A a \in Account : claimable[a] \in Nat
        /\ \A a \in Account \ {protocolTreasury} : mid[a] = claimable[a]
        /\ mid[protocolTreasury] = claimable[protocolTreasury] + cut
        /\ protocolTreasury \in Account /\ cut \in Int
    BY <1>2, <1>3
  <2> HIDE DEF mid
  <2>3. /\ SumFunctionOnSet(claimable, Account) \in Nat
        /\ SumFunctionOnSet(mid, Account) = SumFunctionOnSet(claimable, Account) + cut
    BY ONLY <2>2, AccountFinite, BookEntry
  <2>. QED BY <2>1, <2>3
<1>6. /\ claimable' \in [Account -> Nat]
      /\ \A a \in Account \ {u} : claimable'[a] = mid[a]
      /\ claimable'[u] = mid[u] + (gross - cut)
  <2>1. claimable' = [mid EXCEPT ![u] = @ + gross - cut]
    BY DEF SettleFor, cut
  <2> HIDE DEF mid
  <2>. QED BY <1>2, <1>3, <1>5, <2>1
<1>8. CreditsGrow
  <2>1. \A a \in Account : mid[a] >= claimable[a]
    BY <1>2, <1>3
  <2>2. /\ \A a \in Account : mid[a] \in Nat /\ claimable[a] \in Nat
        /\ gross - cut >= 0 /\ gross - cut \in Int
    BY <1>2, <1>3, <1>5
  <2> HIDE DEF mid
  <2>. QED BY <1>6, <2>1, <2>2 DEF CreditsGrow
<1> HIDE DEF mid
<1>7. SumFunctionOnSet(claimable', Account) = SumFunctionOnSet(mid, Account) + (gross - cut)
  <2>1. \A a \in Account : mid[a] \in Nat
    BY <1>5
  <2>2. gross - cut \in Int
    BY <1>2
  <2>3. u \in Account
    BY <1>3
  <2>. QED BY ONLY <1>6, <2>1, <2>2, <2>3, AccountFinite, BookEntry
<1>9. TreasurySolvent' /\ AllCredited
  <2>1. bal[Treasury] \in Nat /\ bal[Treasury] >= SumFunctionOnSet(claimable, Account)
    BY <1>3 DEF TreasuryInv, TreasurySolvent
  <2>2. SumFunctionOnSet(claimable', Account) = SumFunctionOnSet(claimable, Account) + gross
    BY <1>2, <1>5, <1>7
  <2>. QED BY <2>1, <2>2, <1>4, <1>5 DEF TreasurySolvent, AllCredited
<1>10. AssetsTypeOK'
  BY <1>4 DEF SettleFor, TreasuryInv, AssetsTypeOK
<1>11. TreasuryTypeOK'
  BY <1>6 DEF SettleFor, TreasuryInv, TreasuryTypeOK
<1>. QED BY <1>8, <1>9, <1>10, <1>11 DEF TreasuryInv

\* creditTo: the amount is forwarded, or it comes in and is credited.
LEMMA CreditKeepsInv ==
  ASSUME TreasuryInv, NEW c \in User \cup {Runtime}, NEW u \in User, NEW amount \in Nat,
         CreditTo(c, u, amount)
  PROVE  TreasuryInv' /\ CreditsGrow /\ (AllCredited \/ treasury' = treasury)
<1>1. /\ bal \in [Account -> Nat] /\ claimable \in [Account -> Nat]
      /\ protocolTreasury \in Account /\ u \in Account
      /\ c \in Account /\ Treasury \in Account /\ c # Treasury
  BY AccountAssumption DEF TreasuryInv, AssetsTypeOK, TreasuryTypeOK, Account
<1>2. CASE u = protocolTreasury
  <2>1. Move(c, protocolTreasury, amount) /\ claimable' = claimable
    BY <1>2 DEF CreditTo
  <2>2. bal' \in [Account -> Nat] /\ bal'[Treasury] >= bal[Treasury]
    BY <1>1, <2>1, MoveEffect
  <2>3. TreasurySolvent'
    BY <2>1, <2>2, StaysCovered
  <2>4. CreditsGrow
    BY <1>1, <2>1 DEF CreditsGrow
  <2>5. treasury' = treasury
    BY <2>1 DEF CreditTo, treasury
  <2>. QED BY <2>1, <2>2, <2>3, <2>4, <2>5
           DEF CreditTo, TreasuryInv, AssetsTypeOK, TreasuryTypeOK
<1>3. CASE u # protocolTreasury
  <2>1. /\ Move(c, Treasury, amount)
        /\ claimable' = [claimable EXCEPT ![u] = claimable[u] + amount]
    BY <1>3 DEF CreditTo
  <2>2. bal' \in [Account -> Nat] /\ bal'[Treasury] = bal[Treasury] + amount
    BY <1>1, <2>1, MoveEffect
  <2>3. /\ claimable' \in [Account -> Nat]
        /\ \A a \in Account : claimable[a] \in Nat
        /\ \A a \in Account \ {u} : claimable'[a] = claimable[a]
        /\ claimable'[u] = claimable[u] + amount
        /\ u \in Account /\ amount \in Int
    BY <1>1, <2>1
  <2>4. /\ SumFunctionOnSet(claimable, Account) \in Nat
        /\ SumFunctionOnSet(claimable', Account) = SumFunctionOnSet(claimable, Account) + amount
    BY ONLY <2>3, AccountFinite, BookEntry
  <2>5. bal[Treasury] \in Nat /\ bal[Treasury] >= SumFunctionOnSet(claimable, Account)
    BY <1>1 DEF TreasuryInv, TreasurySolvent
  <2>6. TreasurySolvent'
    BY <2>2, <2>4, <2>5 DEF TreasurySolvent
  <2>7. CreditsGrow
    BY <2>3 DEF CreditsGrow
  <2>8. AllCredited
    BY <2>2, <2>4, <2>5 DEF AllCredited
  <2>. QED BY <2>2, <2>3, <2>6, <2>7, <2>8
           DEF CreditTo, TreasuryInv, AssetsTypeOK, TreasuryTypeOK
<1>. QED BY <1>2, <1>3

\* claim and claimFor: what goes out was credited, and the credit goes first.
LEMMA ClaimKeepsInv ==
  ASSUME TreasuryInv, NEW u \in User, ClaimTo(u)
  PROVE  TreasuryInv' /\ PaidOut(u) /\ AllCredited
<1>1. /\ bal \in [Account -> Nat] /\ claimable \in [Account -> Nat]
      /\ u \in Account /\ Treasury \in Account /\ u # Treasury
  BY AccountAssumption DEF TreasuryInv, AssetsTypeOK, TreasuryTypeOK, Account
<1>2. PICK amount \in Nat : amount = claimable[u]
  BY <1>1
<1>3. Move(Treasury, u, amount)
  BY <1>2 DEF ClaimTo
<1>4. /\ bal' \in [Account -> Nat]
      /\ bal'[Treasury] = bal[Treasury] - amount /\ bal'[u] = bal[u] + amount
  BY <1>1, <1>3, MoveEffect
<1>5. /\ claimable' \in [Account -> Nat]
      /\ \A a \in Account : claimable[a] \in Nat
      /\ \A a \in Account \ {u} : claimable'[a] = claimable[a]
      /\ claimable'[u] = claimable[u] + (-amount)
      /\ u \in Account /\ -amount \in Int
  BY <1>1, <1>2 DEF ClaimTo
<1>7. /\ SumFunctionOnSet(claimable, Account) \in Nat
      /\ SumFunctionOnSet(claimable', Account) = SumFunctionOnSet(claimable, Account) + (-amount)
  BY ONLY <1>5, AccountFinite, BookEntry
<1>8. bal[Treasury] \in Nat /\ bal[Treasury] >= SumFunctionOnSet(claimable, Account)
  BY <1>1 DEF TreasuryInv, TreasurySolvent
<1>9. TreasurySolvent' /\ AllCredited
  BY <1>4, <1>7, <1>8 DEF TreasurySolvent, AllCredited
<1>10. PaidOut(u)
  BY <1>2, <1>4 DEF ClaimTo, PaidOut
<1>. QED BY <1>4, <1>5, <1>9, <1>10 DEF ClaimTo, TreasuryInv, AssetsTypeOK, TreasuryTypeOK

\* Any call on the treasury.  One step for each of its functions.
LEMMA TreasuryCallKeepsInv ==
  ASSUME TreasuryInv, NEW c, TreasuryCall(c)
  PROVE  TreasuryInv'
<1>1. ASSUME c \in User, NEW t \in Chain, NEW gross \in Amount, Settle(c, t, gross)
      PROVE  TreasuryInv'
  <2>1. owner[t] \in User /\ gross \in Nat
    BY <1>1, InitialAssumption DEF TreasuryInv, AssetsTypeOK
  <2>. QED BY <1>1, <2>1, SettleKeepsInv DEF Settle
<1>2. ASSUME c \in User, NEW t \in Chain, NEW u \in User, NEW gross \in Amount,
             SettleTo(c, t, u, gross)
      PROVE  TreasuryInv'
  BY <1>2, InitialAssumption, SettleKeepsInv DEF SettleTo
<1>3. ASSUME c \in User, NEW u \in User, NEW amount \in Amount, CreditTo(c, u, amount)
      PROVE  TreasuryInv'
  BY <1>3, InitialAssumption, CreditKeepsInv
<1>4. ASSUME NEW u \in User, ClaimTo(u)
      PROVE  TreasuryInv'
  BY <1>4, ClaimKeepsInv
<1>5. ASSUME NEW u \in SinkChoice, SetProtocolTreasury(c, u) \/ TransferGovernance(c, u)
      PROVE  TreasuryInv'
  BY <1>5, TreasuryAssumption
     DEF SetProtocolTreasury, TransferGovernance, assets, TreasuryInv, AssetsTypeOK,
         TreasuryTypeOK, TreasurySolvent
<1>6. ASSUME NEW s \in SettlerChoice, NEW allowed \in BOOLEAN,
             \/ SetAuthorizedSettler(c, s, allowed)
             \/ \E t \in Chain : SetChainSettler(c, s, t, allowed)
      PROVE  TreasuryInv'
  BY <1>6, TreasuryAssumption
     DEF SetAuthorizedSettler, SetChainSettler, assets, TreasuryInv, AssetsTypeOK,
         TreasuryTypeOK, TreasurySolvent
<1>. QED BY <1>1, <1>2, <1>3, <1>4, <1>5, <1>6 DEF TreasuryCall

\* Plain transfers of VOID and of deeds do not take anything from the
\* treasury: it makes none.
LEMMA AssetsCallKeepsInv ==
  ASSUME TreasuryInv, NEW c, AssetsCall(c), UNCHANGED treasury
  PROVE  TreasuryInv'
<1>1. ASSUME NEW to \in Account, NEW amount \in Amount, Transfer(c, to, amount)
      PROVE  TreasuryInv'
  <2>1. /\ bal \in [Account -> Nat] /\ c \in Account /\ amount \in Nat /\ Treasury \in Account
        /\ c # Treasury /\ Move(c, to, amount)
    BY <1>1, AccountAssumption, InitialAssumption
       DEF Transfer, TreasuryInv, AssetsTypeOK, Account
  <2>2. bal' \in [Account -> Nat] /\ bal'[Treasury] >= bal[Treasury]
    BY <2>1, MoveEffect
  <2>3. TreasurySolvent'
    BY <2>2, StaysCovered DEF treasury
  <2>. QED BY <1>1, <2>2, <2>3
           DEF Transfer, TreasuryInv, AssetsTypeOK, TreasuryTypeOK, treasury
<1>2. ASSUME NEW t \in Chain, NEW to \in User, TransferDeed(c, t, to)
      PROVE  TreasuryInv'
  BY <1>2 DEF TransferDeed, TreasuryInv, AssetsTypeOK, TreasuryTypeOK, TreasurySolvent, treasury
<1>. QED BY <1>1, <1>2 DEF AssetsCall

\* Empty books are covered.
LEMMA TreasuryInitInv ==
  ASSUME AssetsInit, TreasuryInit
  PROVE  TreasuryInv
<1>1. AssetsTypeOK /\ TreasuryTypeOK
  BY AccountAssumption, InitialAssumption, TreasuryAssumption
     DEF AssetsInit, TreasuryInit, AssetsTypeOK, TreasuryTypeOK, Account
<1>2. SumFunctionOnSet(claimable, Account) = 0
  <2>1. \A a \in Account : claimable[a] = 0
    BY DEF TreasuryInit
  <2>. QED BY ONLY <2>1, AccountFinite, SumZero
<1>3. bal[Treasury] = 0
  BY InitialAssumption DEF AssetsInit
<1>. QED BY <1>1, <1>2, <1>3 DEF TreasuryInv, TreasurySolvent

LEMMA TreasuryStep ==
  ASSUME TreasuryInv, [TreasuryNext]_<<assets, treasury>>
  PROVE  TreasuryInv'
<1>1. CASE UNCHANGED <<assets, treasury>>
  BY <1>1 DEF assets, treasury, TreasuryInv, AssetsTypeOK, TreasuryTypeOK, TreasurySolvent
<1>2. CASE TreasuryNext
  BY <1>2, TreasuryCallKeepsInv, AssetsCallKeepsInv DEF TreasuryNext
<1>. QED BY <1>1, <1>2

LEMMA TreasuryInvariant == TreasurySpec => []TreasuryInv
<1>1. AssetsInit /\ TreasuryInit => TreasuryInv
  BY TreasuryInitInv
<1>2. TreasuryInv /\ [TreasuryNext]_<<assets, treasury>> => TreasuryInv'
  BY TreasuryStep
<1>. QED BY <1>1, <1>2, PTL DEF TreasurySpec, TreasuryStart

\* VoidChainTreasury, under any sequence of calls of any wallets: whatever it
\* has credited it can pay, to everybody at once.
THEOREM TreasuryIsSolvent == TreasurySpec => []TreasurySolvent
<1>1. TreasuryInv => TreasurySolvent
  BY DEF TreasuryInv
<1>. QED BY <1>1, TreasuryInvariant, PTL

-----------------------------------------------------------------------------
\* What any call on the treasury does to the credits.  Only the functions
\* that move VOID touch them.
LEMMA TreasuryCallCredits ==
  ASSUME TreasuryInv, NEW c, TreasuryCall(c)
  PROVE  /\ CreditsGrow \/ \E u \in User : PaidOut(u)
         /\ \/ AllCredited
            \/ treasury' = treasury
            \/ bal' = bal /\ claimable' = claimable
<1>1. ASSUME c \in User, NEW t \in Chain, NEW gross \in Amount, Settle(c, t, gross)
      PROVE  CreditsGrow /\ AllCredited
  <2>1. owner[t] \in User /\ gross \in Nat
    BY <1>1, InitialAssumption DEF TreasuryInv, AssetsTypeOK
  <2>. QED BY <1>1, <2>1, SettleKeepsInv DEF Settle
<1>2. ASSUME c \in User, NEW t \in Chain, NEW u \in User, NEW gross \in Amount,
             SettleTo(c, t, u, gross)
      PROVE  CreditsGrow /\ AllCredited
  BY <1>2, InitialAssumption, SettleKeepsInv DEF SettleTo
<1>3. ASSUME c \in User, NEW u \in User, NEW amount \in Amount, CreditTo(c, u, amount)
      PROVE  CreditsGrow /\ (AllCredited \/ treasury' = treasury)
  BY <1>3, InitialAssumption, CreditKeepsInv
<1>4. ASSUME NEW u \in User, ClaimTo(u)
      PROVE  PaidOut(u) /\ AllCredited
  BY <1>4, ClaimKeepsInv
<1>5. ASSUME NEW u \in SinkChoice, SetProtocolTreasury(c, u) \/ TransferGovernance(c, u)
      PROVE  bal' = bal /\ claimable' = claimable
  BY <1>5 DEF SetProtocolTreasury, TransferGovernance, assets
<1>6. ASSUME NEW s \in SettlerChoice, NEW allowed \in BOOLEAN,
             \/ SetAuthorizedSettler(c, s, allowed)
             \/ \E t \in Chain : SetChainSettler(c, s, t, allowed)
      PROVE  bal' = bal /\ claimable' = claimable
  BY <1>6 DEF SetAuthorizedSettler, SetChainSettler, assets
<1>7. claimable' = claimable => CreditsGrow
  BY DEF TreasuryInv, TreasuryTypeOK, CreditsGrow
<1>. QED BY <1>1, <1>2, <1>3, <1>4, <1>5, <1>6, <1>7 DEF TreasuryCall

LEMMA TreasuryStepCredits ==
  ASSUME TreasuryInv, [TreasuryNext]_<<assets, treasury>>
  PROVE  /\ CreditsGrow \/ \E u \in User : PaidOut(u)
         /\ AllCredited \/ treasury' = treasury
<1>1. claimable' = claimable => CreditsGrow
  BY DEF TreasuryInv, TreasuryTypeOK, CreditsGrow
<1>2. bal' = bal /\ claimable' = claimable => AllCredited
  <2>1. /\ bal[Treasury] \in Int
        /\ \A a \in Account : claimable[a] \in Nat
    BY DEF TreasuryInv, AssetsTypeOK, TreasuryTypeOK, Account
  <2>2. SumFunctionOnSet(claimable, Account) \in Nat
    BY ONLY <2>1, AccountFinite, SumNat
  <2>. QED BY <2>1, <2>2 DEF AllCredited
<1>3. ASSUME NEW c \in User, TreasuryCall(c)
      PROVE  /\ CreditsGrow \/ \E u \in User : PaidOut(u)
             /\ AllCredited \/ treasury' = treasury
  BY <1>2, <1>3, TreasuryCallCredits
<1>4. CASE treasury' = treasury
  BY <1>1, <1>4 DEF treasury
<1>5. \/ \E c \in User : TreasuryCall(c)
      \/ treasury' = treasury
  BY DEF TreasuryNext
<1>. QED BY <1>3, <1>4, <1>5

\* Nothing governance does takes a credit from its owner: it leaves only
\* whole, and only to him (VoidChainTreasury.sol:306-308).
THEOREM TreasuryKeepsCredits == TreasurySpec => CreditsAreKept
<1> DEFINE Kept(a) == claimable'[a] < claimable[a] =>
                        /\ claimable'[a] = 0
                        /\ a # Treasury => bal'[a] = bal[a] + claimable[a]
<1>1. TreasuryInv /\ [TreasuryNext]_<<assets, treasury>> =>
        [\A a \in Account : Kept(a)]_<<assets, treasury>>
  <2> SUFFICES ASSUME TreasuryInv, [TreasuryNext]_<<assets, treasury>>, NEW a \in Account
               PROVE  Kept(a)
    OBVIOUS
  <2>1. claimable \in [Account -> Nat] /\ claimable' \in [Account -> Nat]
    BY TreasuryStep DEF TreasuryInv, TreasuryTypeOK
  <2>2. CASE CreditsGrow
    BY <2>1, <2>2 DEF CreditsGrow
  <2>3. ASSUME NEW u \in User, PaidOut(u)
        PROVE  Kept(a)
    BY <2>1, <2>3 DEF PaidOut
  <2>. QED BY <2>2, <2>3, TreasuryStepCredits
<1>. QED BY <1>1, TreasuryInvariant, PTL DEF TreasurySpec, CreditsAreKept

\* Every unit that a settlement brings in, and every unit that is claimed, is
\* in the credits to the last one (VoidChainTreasury.sol:232-235).
THEOREM TreasuryStrandsNoDust == TreasurySpec => NoDustStranded
<1>1. TreasuryInv /\ [TreasuryNext]_<<assets, treasury>> =>
        [AllCredited \/ treasury' = treasury]_<<assets, treasury>>
  BY TreasuryStepCredits
<1>. QED BY <1>1, TreasuryInvariant, PTL DEF TreasurySpec, NoDustStranded, AllCredited

-----------------------------------------------------------------------------
(* The runtime. *)

\* The inductive invariant.  Solvency alone is not inductive: a park moves
\* pending to pendingOwner, who must be somebody (MoneyTypeOK).
RuntimeInv == TypeOK /\ TreasurySolvent /\ RuntimeSolvent

LEMMA RuntimeInvParts ==
  ASSUME RuntimeInv
  PROVE  /\ TreasuryInv
         /\ PolicyTypeOK /\ RegistryTypeOK /\ MoneyTypeOK /\ ExecutionTypeOK
         /\ bal \in [Account -> Nat]
         /\ \A t \in Chain : pending[t] \in Nat
         /\ \A a \in Account : owed[a] \in Nat
         /\ protocolAccrued \in Nat
         /\ bal[Runtime] \in Nat
         /\ Runtime \in Account /\ Treasury \in Account /\ Forwarder \in Account
         /\ IsFiniteSet(Chain) /\ IsFiniteSet(Account)
<1>1. TreasuryInv /\ PolicyTypeOK /\ RegistryTypeOK /\ MoneyTypeOK /\ ExecutionTypeOK
  BY DEF RuntimeInv, TypeOK, TreasuryInv
<1>2. bal \in [Account -> Nat] /\ Runtime \in Account /\ Treasury \in Account /\ Forwarder \in Account
  BY <1>1 DEF TreasuryInv, AssetsTypeOK, Account
<1>3. /\ \A t \in Chain : pending[t] \in Nat
      /\ \A a \in Account : owed[a] \in Nat
      /\ protocolAccrued \in Nat
  BY <1>1 DEF MoneyTypeOK
<1>4. IsFiniteSet(Chain) /\ IsFiniteSet(Account)
  BY AccountFinite, AccountAssumption
<1>. QED BY <1>1, <1>2, <1>3, <1>4

\* The totals behind Liabilities are natural numbers.
LEMMA TotalsNat ==
  ASSUME RuntimeInv
  PROVE  /\ SumFunctionOnSet(pending, Chain) \in Nat
         /\ SumFunctionOnSet(owed, Account) \in Nat
         /\ bal[Runtime] >= SumFunctionOnSet(pending, Chain) + SumFunctionOnSet(owed, Account)
                              + protocolAccrued
<1>1. /\ \A t \in Chain : pending[t] \in Nat
      /\ \A a \in Account : owed[a] \in Nat
      /\ IsFiniteSet(Chain) /\ IsFiniteSet(Account)
  BY RuntimeInvParts
<1>2. SumFunctionOnSet(pending, Chain) \in Nat
  BY ONLY <1>1, SumNat
<1>3. SumFunctionOnSet(owed, Account) \in Nat
  BY ONLY <1>1, SumNat
<1>. QED BY <1>2, <1>3 DEF RuntimeInv, RuntimeSolvent, Liabilities

\* Promises that do not change stay covered while the runtime's VOID does not
\* go down.
LEMMA RuntimeStaysCovered ==
  ASSUME RuntimeInv, bal' \in [Account -> Nat], bal'[Runtime] >= bal[Runtime],
         UNCHANGED <<pending, owed, protocolAccrued>>
  PROVE  RuntimeSolvent'
<1>1. /\ SumFunctionOnSet(pending, Chain) \in Nat
      /\ SumFunctionOnSet(owed, Account) \in Nat
      /\ bal[Runtime] >= SumFunctionOnSet(pending, Chain) + SumFunctionOnSet(owed, Account)
                           + protocolAccrued
  BY TotalsNat
<1>2. bal[Runtime] \in Nat /\ bal'[Runtime] \in Nat /\ protocolAccrued \in Nat
  BY RuntimeInvParts
<1>. QED BY <1>1, <1>2 DEF RuntimeSolvent, Liabilities

LEMMA ParametersNat == Fee \subseteq Nat /\ Rate \subseteq Nat /\ Limit \subseteq Nat
BY ONLY RuntimeAssumption

LEMMA ProductNat ==
  ASSUME NEW x \in Nat, NEW y \in Nat
  PROVE  x * y \in Nat
OBVIOUS

-----------------------------------------------------------------------------
\* A toll comes in whole: 2% to the protocol's account, the rest to the
\* holder's, and what a former holder earned from one book to the other.
LEMMA CollectTollKeepsSolvent ==
  ASSUME RuntimeInv, NEW from \in User \cup {Forwarder}, NEW t \in Chain, NEW fee \in Nat,
         CollectToll(from, t, fee)
  PROVE  /\ bal' \in [Account -> Nat] /\ bal'[Treasury] >= bal[Treasury]
         /\ RuntimeSolvent'
         /\ pending' \in [Chain -> Nat] /\ pendingOwner' \in [Chain -> User \cup {None}]
         /\ \A s \in Chain : pending'[s] # 0 => pendingOwner'[s] \in User
         /\ appRevenue' \in [Chain -> Nat] /\ protocolAccrued' \in Nat
         /\ owed' \in [Account -> Nat]
<1>0. /\ TreasuryInv /\ MoneyTypeOK
      /\ bal \in [Account -> Nat] /\ bal[Runtime] \in Nat
      /\ \A s \in Chain : pending[s] \in Nat
      /\ \A a \in Account : owed[a] \in Nat
      /\ protocolAccrued \in Nat
      /\ IsFiniteSet(Chain) /\ IsFiniteSet(Account)
      /\ Runtime \in Account /\ Treasury \in Account
  BY RuntimeInvParts
<1>1. CASE fee = 0
  <2>1. UNCHANGED <<bal, pending, pendingOwner, appRevenue, protocolAccrued, owed>>
    BY <1>1 DEF CollectToll
  <2>2. bal'[Runtime] >= bal[Runtime] /\ bal'[Treasury] >= bal[Treasury]
    BY <1>0, <2>1
  <2>3. RuntimeSolvent'
    BY <1>0, <2>1, <2>2, RuntimeStaysCovered
  <2>. QED BY <1>0, <2>1, <2>2, <2>3 DEF MoneyTypeOK
<1>2. CASE fee # 0
  <2> DEFINE cut == ProtocolCut(fee)
             sold == pending[t] > 0 /\ pendingOwner[t] # owner[t]
             p == pendingOwner[t]
  <2>1. cut \in Nat /\ 1 <= cut /\ cut <= fee
    BY <1>2, CutBounds
  <2>2. from \in Account /\ from # Runtime /\ from # Treasury /\ Treasury # Runtime
    BY AccountAssumption DEF Account
  <2>3. /\ Move(from, Runtime, fee)
        /\ protocolAccrued' = protocolAccrued + cut
        /\ owed' = IF sold THEN [owed EXCEPT ![p] = @ + pending[t]] ELSE owed
        /\ pending' = [pending EXCEPT ![t] = (IF sold THEN 0 ELSE @) + fee - cut]
        /\ pendingOwner' = [pendingOwner EXCEPT ![t] = owner[t]]
        /\ appRevenue' = [appRevenue EXCEPT ![t] = @ + fee]
    BY <1>2 DEF CollectToll
  <2> HIDE DEF cut
  <2>4. /\ bal' \in [Account -> Nat] /\ bal'[Treasury] >= bal[Treasury]
        /\ bal'[Runtime] = bal[Runtime] + fee
    BY <1>0, <2>2, <2>3, MoveEffect
  <2>5. owner[t] \in User
    BY <1>0 DEF TreasuryInv, AssetsTypeOK
  <2>6. /\ pendingOwner' \in [Chain -> User \cup {None}]
        /\ \A s \in Chain : pending'[s] # 0 => pendingOwner'[s] \in User
        /\ appRevenue' \in [Chain -> Nat]
    BY <1>0, <2>3, <2>5 DEF MoneyTypeOK
  <2>7. protocolAccrued' \in Nat
    BY <1>0, <2>1, <2>3
  <2>8. PICK d \in Int : d = fee - cut
    BY <2>1
  <2>9. PICK moved \in Nat : moved = IF sold THEN pending[t] ELSE 0
    BY <1>0
  <2>10. /\ pending' \in [Chain -> Nat]
         /\ \A s \in Chain \ {t} : pending'[s] = pending[s]
         /\ pending'[t] = pending[t] + (d - moved)
    <3>1. pending \in [Chain -> Nat] /\ fee - cut \in Nat
      BY <1>0, <2>1 DEF MoneyTypeOK
    <3>2. CASE sold
      <4>1. pending' = [pending EXCEPT ![t] = 0 + fee - cut] /\ moved = pending[t]
        BY <2>3, <2>9, <3>2
      <4> HIDE DEF sold, p
      <4>. QED BY <1>0, <2>1, <2>8, <3>1, <4>1
    <3>3. CASE ~ sold
      <4>1. pending' = [pending EXCEPT ![t] = @ + fee - cut] /\ moved = 0
        BY <2>3, <2>9, <3>3
      <4> HIDE DEF sold, p
      <4>. QED BY <1>0, <2>1, <2>8, <3>1, <4>1
    <3>. QED BY <3>2, <3>3
  <2>11. d - moved \in Int
    OBVIOUS
  <2>12. SumFunctionOnSet(pending', Chain) = SumFunctionOnSet(pending, Chain) + (d - moved)
    <3>1. /\ IsFiniteSet(Chain) /\ t \in Chain /\ d - moved \in Int
          /\ \A s \in Chain : pending[s] \in Nat
          /\ \A s \in Chain \ {t} : pending'[s] = pending[s]
          /\ pending'[t] = pending[t] + (d - moved)
      BY <1>0, <2>10, <2>11
    <3>. QED BY ONLY <3>1, BookEntry
  <2>13. /\ owed' \in [Account -> Nat]
         /\ SumFunctionOnSet(owed', Account) = SumFunctionOnSet(owed, Account) + moved
    <3>1. CASE sold
      <4>1. p \in Account
        BY <1>0, <3>1 DEF MoneyTypeOK, Account
      <4>2. owed' = [owed EXCEPT ![p] = @ + moved]
        BY <2>3, <2>9, <3>1
      <4>3. moved \in Int
        OBVIOUS
      <4> HIDE DEF p, sold
      <4>5. /\ owed' \in [Account -> Nat]
            /\ \A a \in Account \ {p} : owed'[a] = owed[a]
            /\ owed'[p] = owed[p] + moved
        BY <1>0, <4>1, <4>2 DEF MoneyTypeOK
      <4>4. SumFunctionOnSet(owed', Account) = SumFunctionOnSet(owed, Account) + moved
        <5>1. /\ IsFiniteSet(Account) /\ p \in Account /\ moved \in Int
              /\ \A a \in Account : owed[a] \in Nat
              /\ \A a \in Account \ {p} : owed'[a] = owed[a]
              /\ owed'[p] = owed[p] + moved
          BY <1>0, <4>1, <4>3, <4>5
        <5>. QED BY ONLY <5>1, BookEntry
      <4>. QED BY <4>5, <4>4
    <3>2. CASE ~ sold
      <4>1. owed' = owed /\ moved = 0
        BY <2>3, <2>9, <3>2
      <4>2. SumFunctionOnSet(owed, Account) \in Nat
        BY TotalsNat
      <4>. QED BY <1>0, <4>1, <4>2 DEF MoneyTypeOK
    <3>. QED BY <3>1, <3>2
  <2>14. RuntimeSolvent'
    <3> HIDE DEF sold, p
    <3>1. /\ SumFunctionOnSet(pending, Chain) \in Nat
          /\ SumFunctionOnSet(owed, Account) \in Nat
          /\ bal[Runtime] >= SumFunctionOnSet(pending, Chain) + SumFunctionOnSet(owed, Account)
                               + protocolAccrued
      BY TotalsNat
    <3>2. protocolAccrued' = protocolAccrued + cut
      BY <2>3
    <3>. QED BY <1>0, <2>1, <2>4, <2>8, <2>12, <2>13, <3>1, <3>2 DEF RuntimeSolvent, Liabilities
  <2>. QED BY <2>4, <2>6, <2>7, <2>10, <2>13, <2>14
<1>. QED BY <1>1, <1>2

\* A budget of natural limits leaves natural limits.
LEMMA OpenAuthType ==
  ASSUME ExecutionTypeOK, NEW limits \in Auth, NEW nfts \in SUBSET Chain, OpenAuth(limits, nfts)
  PROVE  spendBudget' \in [Token -> Nat] /\ nftBudget' \subseteq Chain
<1>1. PICK S \in SUBSET Token : limits \in [S -> Limit]
  BY DEF Auth
<1>2. \A k \in DOMAIN limits : limits[k] \in Nat
  BY <1>1, RuntimeAssumption
<1>. QED BY <1>2 DEF OpenAuth, ExecutionTypeOK

\* An execution opens, whichever of the five entry points opened it.
LEMMA ExecuteKeepsInv ==
  ASSUME RuntimeInv, NEW from \in User \cup {Forwarder}, NEW user \in User,
         NEW payer \in User \cup {Forwarder}, NEW t \in Chain, NEW app \in App,
         NEW rate \in Rate, NEW maxFee \in MaxFee, NEW limits \in Auth, NEW nfts \in SUBSET Chain,
         Execute(from, user, payer, t, app, rate, maxFee, limits, nfts)
  PROVE  RuntimeInv'
<1>0. /\ TreasuryInv /\ PolicyTypeOK /\ RegistryTypeOK /\ MoneyTypeOK /\ ExecutionTypeOK
  BY RuntimeInvParts
<1>1. Toll(t, rate) \in Nat
  <2>1. feeUsd[t] \in Fee \cup {0}
    BY <1>0 DEF PolicyTypeOK
  <2>2. feeUsd[t] \in Nat
    <3>1. CASE feeUsd[t] \in Fee
      BY <3>1, ParametersNat
    <3>2. CASE feeUsd[t] = 0
      BY <3>2
    <3>. QED BY <2>1, <3>1, <3>2, Zenon
  <2>4. rate \in Nat
    BY ParametersNat
  <2>3. feeUsd[t] * rate \in Nat
    BY ONLY <2>2, <2>4, ProductNat
  <2>. QED BY <2>3 DEF Toll
<1>2. CollectToll(from, t, Toll(t, rate))
  BY DEF Execute
<1>3. /\ bal' \in [Account -> Nat] /\ bal'[Treasury] >= bal[Treasury]
      /\ RuntimeSolvent'
      /\ pending' \in [Chain -> Nat] /\ pendingOwner' \in [Chain -> User \cup {None}]
      /\ \A s \in Chain : pending'[s] # 0 => pendingOwner'[s] \in User
      /\ appRevenue' \in [Chain -> Nat] /\ protocolAccrued' \in Nat
      /\ owed' \in [Account -> Nat]
  BY <1>1, <1>2, CollectTollKeepsSolvent
<1>4. callCount' \in [Chain -> Nat]
  BY <1>0 DEF Execute, MoneyTypeOK
<1>5. MoneyTypeOK'
  BY <1>3, <1>4 DEF MoneyTypeOK
<1>6. ExecutionTypeOK'
  <2>1. spendBudget' \in [Token -> Nat] /\ nftBudget' \subseteq Chain
    BY <1>0, OpenAuthType DEF Execute
  <2>2. /\ executing'.chain = t /\ executing'.caller = user /\ executing'.payer = payer
        /\ executing'.limits = limits /\ executing'.nfts = nfts
    BY DEF Execute
  <2>. QED BY <2>1, <2>2 DEF ExecutionTypeOK
<1>7. UNCHANGED <<owner, treasury, policy, registry, emergency>>
  BY DEF Execute
<1>8. TreasurySolvent'
  BY <1>0, <1>3, <1>7, StaysCovered DEF treasury
<1>9. AssetsTypeOK' /\ TreasuryTypeOK' /\ PolicyTypeOK' /\ RegistryTypeOK'
  BY <1>0, <1>3, <1>7
     DEF TreasuryInv, AssetsTypeOK, TreasuryTypeOK, PolicyTypeOK, RegistryTypeOK,
         treasury, policy, registry, emergency
<1>. QED BY <1>3, <1>5, <1>6, <1>8, <1>9 DEF RuntimeInv, TypeOK

-----------------------------------------------------------------------------
\* What an application takes it takes from the payer, never from the runtime
\* or the treasury.
LEMMA SpendFromKeepsInv ==
  ASSUME RuntimeInv, NEW c, NEW token \in Token, NEW to \in Account, NEW amount \in Amount,
         SpendFrom(c, token, to, amount)
  PROVE  RuntimeInv'
<1>0. /\ TreasuryInv /\ PolicyTypeOK /\ RegistryTypeOK /\ MoneyTypeOK /\ ExecutionTypeOK
      /\ bal \in [Account -> Nat] /\ Runtime \in Account /\ Treasury \in Account
  BY RuntimeInvParts
<1>1. amount \in Nat
  BY InitialAssumption
<1>2. UNCHANGED <<owner, treasury, policy, registry, emergency, money, executing, nftBudget>>
  BY DEF SpendFrom
<1>3. bal' \in [Account -> Nat] /\ bal'[Treasury] >= bal[Treasury] /\ bal'[Runtime] >= bal[Runtime]
  <2>1. CASE token = Void
    <3>1. executing.payer \in User \cup {Forwarder}
      BY <1>0 DEF SpendFrom, ExecutionTypeOK
    <3>2. /\ executing.payer \in Account
          /\ executing.payer # Treasury /\ executing.payer # Runtime
      BY <3>1, AccountAssumption DEF Account
    <3>3. Move(executing.payer, to, amount)
      BY <2>1 DEF SpendFrom
    <3>. QED BY <1>0, <1>1, <3>2, <3>3, MoveEffect
  <2>2. CASE token # Void
    <3>1. bal' = bal
      BY <2>2 DEF SpendFrom
    <3>2. bal[Treasury] \in Nat /\ bal[Runtime] \in Nat
      BY <1>0
    <3>. QED BY <1>0, <3>1, <3>2
  <2>. QED BY <2>1, <2>2
<1>4. TreasurySolvent'
  BY <1>0, <1>2, <1>3, StaysCovered DEF treasury
<1>5. RuntimeSolvent'
  BY <1>2, <1>3, RuntimeStaysCovered DEF money
<1>6. spendBudget' \in [Token -> Nat]
  <2>1. spendBudget' = [spendBudget EXCEPT ![token] = @ - amount] /\ amount <= spendBudget[token]
    BY DEF SpendFrom
  <2>. QED BY <1>0, <1>1, <2>1 DEF ExecutionTypeOK
<1>7. ExecutionTypeOK'
  BY <1>0, <1>2, <1>6 DEF ExecutionTypeOK
<1>8. AssetsTypeOK' /\ TreasuryTypeOK' /\ PolicyTypeOK' /\ RegistryTypeOK' /\ MoneyTypeOK'
  BY <1>0, <1>2, <1>3
     DEF TreasuryInv, AssetsTypeOK, TreasuryTypeOK, PolicyTypeOK, RegistryTypeOK, MoneyTypeOK,
         treasury, policy, registry, emergency, money
<1>. QED BY <1>4, <1>5, <1>7, <1>8 DEF RuntimeInv, TypeOK

LEMMA SpendNftFromKeepsInv ==
  ASSUME RuntimeInv, NEW c, NEW to \in User, NEW deed \in Chain, SpendNftFrom(c, to, deed)
  PROVE  RuntimeInv'
<1>1. /\ owner' = [owner EXCEPT ![deed] = to]
      /\ nftBudget' = nftBudget \ {deed}
      /\ UNCHANGED <<bal, treasury, policy, registry, emergency, money, executing, spendBudget>>
  BY DEF SpendNftFrom
<1>. QED BY <1>1
     DEF RuntimeInv, TypeOK, AssetsTypeOK, TreasuryTypeOK, PolicyTypeOK, RegistryTypeOK,
         MoneyTypeOK, ExecutionTypeOK, TreasurySolvent, RuntimeSolvent, Liabilities,
         treasury, policy, registry, emergency, money

LEMMA ReturnKeepsInv ==
  ASSUME RuntimeInv, Return
  PROVE  RuntimeInv'
<1>1. /\ executing' = Idle
      /\ spendBudget' = [k \in Token |->
                           IF k \in DOMAIN executing.limits THEN 0 ELSE spendBudget[k]]
      /\ nftBudget' = nftBudget \ executing.nfts
      /\ UNCHANGED <<assets, treasury, policy, registry, emergency, money>>
  BY DEF Return
<1>2. ExecutionTypeOK'
  BY <1>1 DEF RuntimeInv, TypeOK, ExecutionTypeOK, Idle
<1>. QED BY <1>1, <1>2
     DEF RuntimeInv, TypeOK, AssetsTypeOK, TreasuryTypeOK, PolicyTypeOK, RegistryTypeOK,
         MoneyTypeOK, TreasurySolvent, RuntimeSolvent, Liabilities,
         assets, treasury, policy, registry, emergency, money

-----------------------------------------------------------------------------
\* A credit of the runtime's takes the amount from the runtime and leaves the
\* treasury solvent, whether the amount is credited or delivered.
LEMMA CreditEffect ==
  ASSUME RuntimeInv, NEW u \in User, NEW amount \in Nat, CreditTo(Runtime, u, amount)
  PROVE  /\ TreasuryInv'
         /\ bal' \in [Account -> Nat]
         /\ bal'[Runtime] = bal[Runtime] - amount
<1>1. TreasuryInv /\ bal \in [Account -> Nat] /\ Runtime \in Account /\ Treasury \in Account
  BY RuntimeInvParts
<1>2. TreasuryInv'
  BY <1>1, CreditKeepsInv
<1>3. PICK to \in Account : to # Runtime /\ Move(Runtime, to, amount)
  <2>1. CASE u = protocolTreasury
    <3>1. protocolTreasury \in Account /\ protocolTreasury # Runtime
      BY <1>1, AccountAssumption DEF TreasuryInv, TreasuryTypeOK, Account
    <3>. QED BY <2>1, <3>1 DEF CreditTo
  <2>2. CASE u # protocolTreasury
    BY <1>1, <2>2, AccountAssumption DEF CreditTo
  <2>. QED BY <2>1, <2>2
<1>4. bal' \in [Account -> Nat] /\ bal'[Runtime] = bal[Runtime] - amount
  BY <1>1, <1>3, MoveEffect
<1>. QED BY <1>2, <1>4

\* flush pays out exactly what it takes off the book of its chain.
LEMMA FlushKeepsInv ==
  ASSUME RuntimeInv, NEW t \in Chain, Flush(t)
  PROVE  RuntimeInv'
<1>0. /\ PolicyTypeOK /\ RegistryTypeOK /\ MoneyTypeOK /\ ExecutionTypeOK
      /\ \A s \in Chain : pending[s] \in Nat
      /\ IsFiniteSet(Chain) /\ protocolAccrued \in Nat /\ bal[Runtime] \in Nat
  BY RuntimeInvParts
<1>1. PICK amount \in Nat : amount = pending[t]
  BY <1>0
<1>2. /\ amount # 0
      /\ pending' = [pending EXCEPT ![t] = 0]
      /\ pendingOwner' = [pendingOwner EXCEPT ![t] = None]
      /\ CreditTo(Runtime, pendingOwner[t], amount)
      /\ UNCHANGED <<appRevenue, callCount, protocolAccrued, owed,
                     policy, registry, emergency, execution>>
  BY <1>1 DEF Flush
<1>3. pendingOwner[t] \in User
  BY <1>0, <1>1, <1>2 DEF MoneyTypeOK
<1>4. TreasuryInv' /\ bal' \in [Account -> Nat] /\ bal'[Runtime] = bal[Runtime] - amount
  BY <1>2, <1>3, CreditEffect
<1>5. /\ IsFiniteSet(Chain) /\ t \in Chain /\ -amount \in Int
      /\ \A s \in Chain : pending[s] \in Nat
      /\ \A s \in Chain \ {t} : pending'[s] = pending[s]
      /\ pending'[t] = pending[t] + (-amount)
  BY <1>0, <1>1, <1>2 DEF MoneyTypeOK
<1>6. SumFunctionOnSet(pending', Chain) = SumFunctionOnSet(pending, Chain) + (-amount)
  BY ONLY <1>5, BookEntry
<1>7. RuntimeSolvent'
  <2>1. /\ SumFunctionOnSet(pending, Chain) \in Nat
        /\ SumFunctionOnSet(owed, Account) \in Nat
        /\ bal[Runtime] >= SumFunctionOnSet(pending, Chain) + SumFunctionOnSet(owed, Account)
                             + protocolAccrued
    BY TotalsNat
  <2>. QED BY <1>0, <1>2, <1>4, <1>6, <2>1 DEF RuntimeSolvent, Liabilities
<1>8. MoneyTypeOK'
  BY <1>0, <1>2 DEF MoneyTypeOK
<1>9. PolicyTypeOK' /\ RegistryTypeOK' /\ ExecutionTypeOK'
  BY <1>0, <1>2
     DEF PolicyTypeOK, RegistryTypeOK, ExecutionTypeOK, policy, registry, emergency, execution
<1>. QED BY <1>4, <1>7, <1>8, <1>9 DEF RuntimeInv, TypeOK, TreasuryInv

\* sweepProtocol pays out exactly the accrued share.
LEMMA SweepKeepsInv ==
  ASSUME RuntimeInv, SweepProtocol
  PROVE  RuntimeInv'
<1>0. /\ TreasuryInv /\ PolicyTypeOK /\ RegistryTypeOK /\ MoneyTypeOK /\ ExecutionTypeOK
      /\ protocolAccrued \in Nat /\ bal[Runtime] \in Nat
  BY RuntimeInvParts
<1>1. PICK amount \in Nat : amount = protocolAccrued
  BY <1>0
<1>2. /\ protocolAccrued' = 0
      /\ CreditTo(Runtime, protocolTreasury, amount)
      /\ UNCHANGED <<pending, pendingOwner, appRevenue, callCount, owed,
                     policy, registry, emergency, execution>>
  BY <1>1 DEF SweepProtocol
<1>3. protocolTreasury \in User
  BY <1>0 DEF TreasuryInv, TreasuryTypeOK
<1>4. TreasuryInv' /\ bal' \in [Account -> Nat] /\ bal'[Runtime] = bal[Runtime] - amount
  BY <1>2, <1>3, CreditEffect
<1>5. RuntimeSolvent'
  <2>1. /\ SumFunctionOnSet(pending, Chain) \in Nat
        /\ SumFunctionOnSet(owed, Account) \in Nat
        /\ bal[Runtime] >= SumFunctionOnSet(pending, Chain) + SumFunctionOnSet(owed, Account)
                             + protocolAccrued
    BY TotalsNat
  <2>. QED BY <1>0, <1>1, <1>2, <1>4, <2>1 DEF RuntimeSolvent, Liabilities
<1>6. MoneyTypeOK'
  BY <1>0, <1>2 DEF MoneyTypeOK
<1>7. PolicyTypeOK' /\ RegistryTypeOK' /\ ExecutionTypeOK'
  BY <1>0, <1>2
     DEF PolicyTypeOK, RegistryTypeOK, ExecutionTypeOK, policy, registry, emergency, execution
<1>. QED BY <1>4, <1>5, <1>6, <1>7 DEF RuntimeInv, TypeOK, TreasuryInv

\* claimOwed pays out exactly what it takes off the book of its beneficiary.
LEMMA ClaimOwedKeepsInv ==
  ASSUME RuntimeInv, NEW u \in User, ClaimOwed(u)
  PROVE  RuntimeInv'
<1>0. /\ PolicyTypeOK /\ RegistryTypeOK /\ MoneyTypeOK /\ ExecutionTypeOK
      /\ \A a \in Account : owed[a] \in Nat
      /\ IsFiniteSet(Account) /\ protocolAccrued \in Nat /\ bal[Runtime] \in Nat
  BY RuntimeInvParts
<1>1. u \in Account
  BY DEF Account
<1>2. PICK amount \in Nat : amount = owed[u]
  BY <1>0, <1>1
<1>3. /\ owed' = [owed EXCEPT ![u] = 0]
      /\ CreditTo(Runtime, u, amount)
      /\ UNCHANGED <<pending, pendingOwner, appRevenue, callCount, protocolAccrued,
                     policy, registry, emergency, execution>>
  BY <1>2 DEF ClaimOwed
<1>4. TreasuryInv' /\ bal' \in [Account -> Nat] /\ bal'[Runtime] = bal[Runtime] - amount
  BY <1>3, CreditEffect
<1>5. /\ IsFiniteSet(Account) /\ u \in Account /\ -amount \in Int
      /\ \A a \in Account : owed[a] \in Nat
      /\ \A a \in Account \ {u} : owed'[a] = owed[a]
      /\ owed'[u] = owed[u] + (-amount)
  BY <1>0, <1>1, <1>2, <1>3 DEF MoneyTypeOK
<1>6. SumFunctionOnSet(owed', Account) = SumFunctionOnSet(owed, Account) + (-amount)
  BY ONLY <1>5, BookEntry
<1>7. RuntimeSolvent'
  <2>1. /\ SumFunctionOnSet(pending, Chain) \in Nat
        /\ SumFunctionOnSet(owed, Account) \in Nat
        /\ bal[Runtime] >= SumFunctionOnSet(pending, Chain) + SumFunctionOnSet(owed, Account)
                             + protocolAccrued
    BY TotalsNat
  <2>. QED BY <1>0, <1>3, <1>4, <1>6, <2>1 DEF RuntimeSolvent, Liabilities
<1>8. MoneyTypeOK'
  BY <1>0, <1>3 DEF MoneyTypeOK
<1>9. PolicyTypeOK' /\ RegistryTypeOK' /\ ExecutionTypeOK'
  BY <1>0, <1>3
     DEF PolicyTypeOK, RegistryTypeOK, ExecutionTypeOK, policy, registry, emergency, execution
<1>. QED BY <1>4, <1>7, <1>8, <1>9 DEF RuntimeInv, TypeOK, TreasuryInv

-----------------------------------------------------------------------------
\* Configuration, registration and the emergency switches move no VOID.
LEMMA QuietKeepsInv ==
  ASSUME RuntimeInv, UNCHANGED <<assets, treasury, money, execution>>,
         PolicyTypeOK', RegistryTypeOK'
  PROVE  RuntimeInv'
<1>1. RuntimeSolvent' /\ TreasurySolvent' /\ AssetsTypeOK' /\ TreasuryTypeOK'
  BY DEF RuntimeInv, TypeOK, RuntimeSolvent, Liabilities, TreasurySolvent, AssetsTypeOK,
         TreasuryTypeOK, assets, treasury, money
<1>2. MoneyTypeOK' /\ ExecutionTypeOK'
  BY DEF RuntimeInv, TypeOK, MoneyTypeOK, ExecutionTypeOK, money, execution
<1>. QED BY <1>1, <1>2 DEF RuntimeInv, TypeOK

LEMMA PolicyKeepsInv ==
  ASSUME RuntimeInv, NEW c, PolicyCall(c)
  PROVE  RuntimeInv'
<1>0. PolicyTypeOK /\ RegistryTypeOK
  BY RuntimeInvParts
<1>1. PolicyTypeOK' /\ UNCHANGED <<assets, treasury, registry, emergency, money, execution>>
  <2>1. ASSUME NEW part \in Part, WireOnce(c, part)
        PROVE  PolicyTypeOK' /\ UNCHANGED <<assets, treasury, registry, emergency, money, execution>>
    BY <1>0, <2>1 DEF WireOnce, PolicyTypeOK
  <2>2. ASSUME NEW t \in Chain, RegisterDao(t)
        PROVE  PolicyTypeOK' /\ UNCHANGED <<assets, treasury, registry, emergency, money, execution>>
    BY <1>0, <2>2 DEF RegisterDao, PolicyTypeOK, DaoSet
  <2>3. ASSUME NEW t \in Chain, NEW fee \in Fee, SetTollCeiling(c, t, fee)
        PROVE  PolicyTypeOK' /\ UNCHANGED <<assets, treasury, registry, emergency, money, execution>>
    BY <1>0, <2>3 DEF SetTollCeiling, PolicyTypeOK
  <2>4. ASSUME NEW t \in Chain, NEW fee \in Fee, Activate(c, t, fee)
        PROVE  PolicyTypeOK' /\ UNCHANGED <<assets, treasury, registry, emergency, money, execution>>
    BY <1>0, <2>4 DEF Activate, PolicyTypeOK
  <2>5. ASSUME NEW t \in Chain, NEW fee \in Fee, SetFee(c, t, fee)
        PROVE  PolicyTypeOK' /\ UNCHANGED <<assets, treasury, registry, emergency, money, execution>>
    BY <1>0, <2>5 DEF SetFee, PolicyTypeOK
  <2>6. ASSUME NEW t \in Chain, NEW on \in BOOLEAN, SetActive(c, t, on)
        PROVE  PolicyTypeOK' /\ UNCHANGED <<assets, treasury, registry, emergency, money, execution>>
    BY <1>0, <2>6 DEF SetActive, PolicyTypeOK
  <2>7. ASSUME NEW t \in Chain, NEW on \in BOOLEAN, SetPermissionlessDeploy(c, t, on)
        PROVE  PolicyTypeOK' /\ UNCHANGED <<assets, treasury, registry, emergency, money, execution>>
    BY <1>0, <2>7 DEF SetPermissionlessDeploy, PolicyTypeOK
  <2>. QED BY <2>1, <2>2, <2>3, <2>4, <2>5, <2>6, <2>7 DEF PolicyCall
<1>2. RegistryTypeOK'
  BY <1>0, <1>1 DEF RegistryTypeOK, registry, emergency
<1>. QED BY <1>1, <1>2, QuietKeepsInv

LEMMA RegistryKeepsInv ==
  ASSUME RuntimeInv, NEW c \in Caller, RegistryCall(c)
  PROVE  RuntimeInv'
<1>0. PolicyTypeOK /\ RegistryTypeOK
  BY RuntimeInvParts
<1>1. RegistryTypeOK' /\ UNCHANGED <<assets, treasury, policy, emergency, money, execution>>
  <2>1. ASSUME NEW t \in Chain, NEW app \in App, NEW msgSender, Register(msgSender, t, app, c)
        PROVE  RegistryTypeOK' /\ UNCHANGED <<assets, treasury, policy, emergency, money, execution>>
    BY <1>0, <2>1 DEF Register, RegistryTypeOK, emergency
  <2>2. ASSUME NEW t \in Chain, NEW app \in App, UnregisterApp(c, t, app)
        PROVE  RegistryTypeOK' /\ UNCHANGED <<assets, treasury, policy, emergency, money, execution>>
    BY <1>0, <2>2 DEF UnregisterApp, RegistryTypeOK, emergency
  <2>. QED BY <2>1, <2>2 DEF RegistryCall, RegisterApp, Publish
<1>2. PolicyTypeOK'
  BY <1>0, <1>1 DEF PolicyTypeOK, policy
<1>. QED BY <1>1, <1>2, QuietKeepsInv

LEMMA EmergencyKeepsInv ==
  ASSUME RuntimeInv, NEW c, EmergencyCall(c)
  PROVE  RuntimeInv'
<1>0. PolicyTypeOK /\ RegistryTypeOK
  BY RuntimeInvParts
<1>1. RegistryTypeOK' /\ UNCHANGED <<assets, treasury, policy, registry, money, execution>>
  <2>1. ASSUME EmergencyPauseProtocol(c) \/ ResumeProtocol(c)
        PROVE  RegistryTypeOK' /\ UNCHANGED <<assets, treasury, policy, registry, money, execution>>
    BY <1>0, <2>1 DEF EmergencyPauseProtocol, ResumeProtocol, RegistryTypeOK, registry
  <2>2. ASSUME NEW t \in Chain, NEW app \in App,
               EmergencyPauseApp(c, t, app) \/ ResumeApp(c, t, app)
        PROVE  RegistryTypeOK' /\ UNCHANGED <<assets, treasury, policy, registry, money, execution>>
    BY <1>0, <2>2 DEF EmergencyPauseApp, ResumeApp, RegistryTypeOK, registry
  <2>. QED BY <2>1, <2>2 DEF EmergencyCall
<1>2. PolicyTypeOK'
  BY <1>0, <1>1 DEF PolicyTypeOK, policy
<1>. QED BY <1>1, <1>2, QuietKeepsInv

-----------------------------------------------------------------------------
\* A step that leaves the runtime's own books alone and takes none of its
\* VOID leaves it solvent.
LEMMA OutsideKeepsInv ==
  ASSUME RuntimeInv, TreasuryInv', bal'[Runtime] >= bal[Runtime],
         UNCHANGED <<policy, registry, emergency, money, execution>>
  PROVE  RuntimeInv'
<1>0. PolicyTypeOK /\ RegistryTypeOK /\ MoneyTypeOK /\ ExecutionTypeOK
  BY RuntimeInvParts
<1>1. RuntimeSolvent'
  BY RuntimeStaysCovered DEF money, TreasuryInv, AssetsTypeOK
<1>2. PolicyTypeOK' /\ RegistryTypeOK' /\ MoneyTypeOK' /\ ExecutionTypeOK'
  BY <1>0
     DEF PolicyTypeOK, RegistryTypeOK, MoneyTypeOK, ExecutionTypeOK,
         policy, registry, emergency, money, execution
<1>. QED BY <1>1, <1>2 DEF RuntimeInv, TypeOK, TreasuryInv

\* Calls made straight on the treasury: what moves is a wallet's or the
\* treasury's, never the runtime's.
LEMMA TreasuryLeavesRuntime ==
  ASSUME RuntimeInv, NEW c \in Caller, TreasuryCall(c),
         UNCHANGED <<policy, registry, emergency, money, execution>>
  PROVE  RuntimeInv'
<1>0. /\ TreasuryInv /\ bal \in [Account -> Nat] /\ bal[Runtime] \in Nat
      /\ claimable \in [Account -> Nat] /\ protocolTreasury \in Account
      /\ Runtime \in Account /\ Treasury \in Account /\ Treasury # Runtime
  BY RuntimeInvParts, AccountAssumption DEF TreasuryInv, TreasuryTypeOK, Account
<1>1. TreasuryInv'
  BY <1>0, TreasuryCallKeepsInv
<1>2. ASSUME NEW from \in Account \ {Runtime}, NEW to \in Account, NEW amount \in Nat,
             Move(from, to, amount)
      PROVE  bal'[Runtime] >= bal[Runtime]
  BY <1>0, <1>2, MoveEffect
<1>3. \A u \in User : u \in Account \ {Runtime}
  BY AccountAssumption DEF Account
<1>4. Amount \subseteq Nat
  BY InitialAssumption
<1>5. bal'[Runtime] >= bal[Runtime]
  <2>1. ASSUME c \in User, NEW t \in Chain, NEW u, NEW gross \in Amount, SettleFor(c, t, u, gross)
        PROVE  bal'[Runtime] >= bal[Runtime]
    BY <1>0, <1>2, <1>3, <1>4, <2>1 DEF SettleFor
  <2>2. ASSUME c \in User, NEW u \in User, NEW amount \in Amount, CreditTo(c, u, amount)
        PROVE  bal'[Runtime] >= bal[Runtime]
    BY <1>0, <1>2, <1>3, <1>4, <2>2 DEF CreditTo
  <2>3. ASSUME NEW u \in User, ClaimTo(u)
        PROVE  bal'[Runtime] >= bal[Runtime]
    <3>1. claimable[u] \in Nat /\ Move(Treasury, u, claimable[u])
      BY <1>0, <1>3, <2>3 DEF ClaimTo
    <3>. QED BY <1>0, <1>2, <1>3, <3>1
  <2>4. ASSUME bal' = bal
        PROVE  bal'[Runtime] >= bal[Runtime]
    BY <1>0, <2>4
  <2>. QED BY <2>1, <2>2, <2>3, <2>4
           DEF TreasuryCall, Settle, SettleTo, SetProtocolTreasury, TransferGovernance,
               SetAuthorizedSettler, SetChainSettler, assets
<1>. QED BY <1>1, <1>5, OutsideKeepsInv

LEMMA AssetsLeaveRuntime ==
  ASSUME RuntimeInv, NEW c, AssetsCall(c),
         UNCHANGED <<treasury, policy, registry, emergency, money, execution>>
  PROVE  RuntimeInv'
<1>0. /\ TreasuryInv /\ bal \in [Account -> Nat] /\ bal[Runtime] \in Nat /\ Runtime \in Account
  BY RuntimeInvParts
<1>1. TreasuryInv'
  BY <1>0, AssetsCallKeepsInv
<1>2. bal'[Runtime] >= bal[Runtime]
  <2>1. ASSUME NEW to \in Account, NEW amount \in Amount, Transfer(c, to, amount)
        PROVE  bal'[Runtime] >= bal[Runtime]
    <3>1. c \in Account /\ c # Runtime /\ amount \in Nat /\ Move(c, to, amount)
      BY <2>1, AccountAssumption, InitialAssumption DEF Transfer, Account
    <3>. QED BY <1>0, <3>1, MoveEffect
  <2>2. ASSUME NEW t \in Chain, NEW to \in User, TransferDeed(c, t, to)
        PROVE  bal'[Runtime] >= bal[Runtime]
    BY <1>0, <2>2 DEF TransferDeed
  <2>. QED BY <2>1, <2>2 DEF AssetsCall
<1>. QED BY <1>1, <1>2, OutsideKeepsInv

-----------------------------------------------------------------------------
LEMMA ExecutionKeepsInv ==
  ASSUME RuntimeInv, NEW c, ExecutionCall(c)
  PROVE  RuntimeInv'
<1>1. ASSUME NEW t \in Chain, NEW app \in App, NEW rate \in Rate, NEW maxFee \in MaxFee,
             NEW limits \in Auth, NEW nfts \in SUBSET Chain,
             ExecuteDirect(c, t, app, rate, maxFee, limits, nfts)
      PROVE  RuntimeInv'
  BY <1>1, ExecuteKeepsInv DEF ExecuteDirect
<1>2. ASSUME NEW t \in Chain, NEW app \in App, NEW rate \in Rate, NEW maxFee \in MaxFee,
             NEW limits \in Auth, NEW nfts \in SUBSET Chain, NEW user \in User,
             \/ ExecuteFor(c, user, t, app, rate, maxFee, limits, nfts)
             \/ ExecuteForPrepaid(c, user, t, app, rate, maxFee, limits, nfts)
      PROVE  RuntimeInv'
  BY <1>2, ExecuteKeepsInv DEF ExecuteFor, ExecuteForPrepaid
<1>3. ASSUME NEW token \in Token, NEW to \in Account, NEW amount \in Amount,
             SpendFrom(c, token, to, amount)
      PROVE  RuntimeInv'
  BY <1>3, SpendFromKeepsInv
<1>4. ASSUME NEW to \in User, NEW deed \in Chain, SpendNftFrom(c, to, deed)
      PROVE  RuntimeInv'
  BY <1>4, SpendNftFromKeepsInv
<1>. QED BY <1>1, <1>2, <1>3, <1>4 DEF ExecutionCall

LEMMA CallKeepsInv ==
  ASSUME RuntimeInv, NEW c \in Caller, Call(c)
  PROVE  RuntimeInv'
<1>1. CASE PolicyCall(c) \/ RegistryCall(c) \/ EmergencyCall(c)
  BY <1>1, PolicyKeepsInv, RegistryKeepsInv, EmergencyKeepsInv
<1>2. CASE ExecutionCall(c)
  BY <1>2, ExecutionKeepsInv
<1>3. CASE RevenueCall(c)
  BY <1>3, FlushKeepsInv, SweepKeepsInv, ClaimOwedKeepsInv DEF RevenueCall
<1>4. CASE TreasuryCall(c) /\ UNCHANGED <<policy, registry, emergency, money, execution>>
  BY <1>4, TreasuryLeavesRuntime
<1>5. CASE AssetsCall(c) /\ UNCHANGED <<treasury, policy, registry, emergency, money, execution>>
  BY <1>5, AssetsLeaveRuntime
<1>. QED BY <1>1, <1>2, <1>3, <1>4, <1>5 DEF Call

\* Nothing is promised before the first call.
LEMMA RuntimeInitInv ==
  ASSUME Init
  PROVE  RuntimeInv
<1>1. TreasuryInv
  BY TreasuryInitInv DEF Init
<1>2. PolicyTypeOK
  <2>1. active = [t \in Chain |-> t \in Imported] /\ configured = [t \in Chain |-> t \in Imported]
    BY DEF Init
  <2>2. /\ active \in [Chain -> BOOLEAN] /\ configured \in [Chain -> BOOLEAN]
        /\ openDeploy \in [Chain -> BOOLEAN]
    BY <2>1 DEF Init
  <2>3. feeUsd \in [Chain -> Fee \cup {0}]
    BY DEF Init
  <2>. QED BY <2>2, <2>3, RuntimeAssumption DEF Init, PolicyTypeOK
<1>3. RegistryTypeOK
  BY DEF Init, RegistryTypeOK
<1>4. MoneyTypeOK /\ ExecutionTypeOK
  BY DEF Init, MoneyTypeOK, ExecutionTypeOK
<1>5. RuntimeSolvent
  <2>1. /\ \A t \in Chain : pending[t] = 0
        /\ \A a \in Account : owed[a] = 0
        /\ IsFiniteSet(Chain) /\ IsFiniteSet(Account)
    BY AccountFinite, AccountAssumption DEF Init
  <2>2. SumFunctionOnSet(pending, Chain) = 0 /\ SumFunctionOnSet(owed, Account) = 0
    BY ONLY <2>1, SumZero
  <2>3. bal[Runtime] = 0 /\ protocolAccrued = 0
    BY InitialAssumption DEF Init, AssetsInit
  <2>. QED BY <2>2, <2>3 DEF RuntimeSolvent, Liabilities
<1>. QED BY <1>1, <1>2, <1>3, <1>4, <1>5 DEF RuntimeInv, TypeOK, TreasuryInv

\* The inductive invariant holds in every reachable state.
LEMMA RuntimeInductive == Spec => []RuntimeInv
<1>1. Init => RuntimeInv
  BY RuntimeInitInv
<1>2. RuntimeInv /\ [Next]_vars => RuntimeInv'
  <2> SUFFICES ASSUME RuntimeInv, [Next]_vars
               PROVE  RuntimeInv'
    OBVIOUS
  <2>1. CASE UNCHANGED vars
    BY <2>1
       DEF vars, RuntimeInv, TypeOK, AssetsTypeOK, TreasuryTypeOK, PolicyTypeOK, RegistryTypeOK,
           MoneyTypeOK, ExecutionTypeOK, TreasurySolvent, RuntimeSolvent, Liabilities,
           assets, treasury, policy, registry, emergency, money, execution
  <2>2. CASE \E c \in Caller : Call(c)
    BY <2>2, CallKeepsInv
  <2>3. CASE Return
    BY <2>3, ReturnKeepsInv
  <2>. QED BY <2>1, <2>2, <2>3 DEF Next
<1>. QED BY <1>1, <1>2, PTL DEF Spec

\* Every variable keeps its type; with MoneyTypeOK, revenue that is pending
\* always has an earner (VoidChainAppRuntime.sol:934-941).
THEOREM RuntimeTypeCorrect == Spec => []TypeOK
<1>1. RuntimeInv => TypeOK
  BY DEF RuntimeInv
<1>. QED BY <1>1, RuntimeInductive, PTL

\* The runtime always holds the VOID behind every pending, parked and accrued
\* promise, also while an application holds control: no chain is ever paid out
\* of another's revenue.
THEOREM RuntimeIsSolvent == Spec => []RuntimeSolvent
<1>1. RuntimeInv => RuntimeSolvent
  BY DEF RuntimeInv
<1>. QED BY <1>1, RuntimeInductive, PTL

\* The treasury keeps its promise among all the callers the runtime brings.
THEOREM TreasurySolventUnderRuntime == Spec => []TreasurySolvent
<1>1. RuntimeInv => TreasurySolvent
  BY DEF RuntimeInv
<1>. QED BY <1>1, RuntimeInductive, PTL

-----------------------------------------------------------------------------
(* VOID that leaves an account through Move leaves no other account. *)
LEMMA MoveTakesFrom ==
  ASSUME TypeOK, NEW from \in Account, NEW to \in Account, NEW amount \in Nat,
         Move(from, to, amount), NEW a \in Account, a # from
  PROVE  bal'[a] \in Nat /\ bal'[a] >= bal[a]
BY MoveEffect DEF TypeOK, AssetsTypeOK

(* The toll of a call is an amount. *)
LEMMA TollNat ==
  ASSUME TypeOK, NEW t \in Chain, NEW rate \in Rate
  PROVE  Toll(t, rate) \in Nat
<1>1. feeUsd[t] \in Nat
  <2>1. feeUsd[t] \in Fee \cup {0}
    BY DEF TypeOK, PolicyTypeOK
  <2>2. CASE feeUsd[t] \in Fee
    BY <2>2, ParametersNat
  <2>3. CASE feeUsd[t] = 0
    BY <2>3
  <2>. QED BY <2>1, <2>2, <2>3, Zenon
<1>2. rate \in Nat
  BY ParametersNat
<1>. QED BY ONLY <1>1, <1>2, ProductNat DEF Toll

LEMMA TollTakesFrom ==
  ASSUME TypeOK, NEW c \in Account, NEW user, NEW payer, NEW t \in Chain, NEW app \in App,
         NEW rate \in Rate, NEW maxFee, NEW limits, NEW nfts,
         Execute(c, user, payer, t, app, rate, maxFee, limits, nfts), NEW a \in Account, a # c
  PROVE  bal'[a] \in Nat /\ bal'[a] >= bal[a]
<1>3. Toll(t, rate) \in Nat
  BY TollNat
<1>4. CollectToll(c, t, Toll(t, rate))
  BY DEF Execute
<1>5. bal[a] \in Nat /\ Runtime \in Account
  BY DEF TypeOK, AssetsTypeOK, Account
<1>6. bal' = bal \/ Move(c, Runtime, Toll(t, rate))
  BY <1>4 DEF CollectToll
<1>. QED BY <1>3, <1>5, <1>6, MoveTakesFrom

LEMMA CreditTakesFrom ==
  ASSUME TypeOK, NEW c \in Account, NEW u \in Account, NEW amount \in Nat, CreditTo(c, u, amount),
         NEW a \in Account, a # c
  PROVE  bal'[a] \in Nat /\ bal'[a] >= bal[a]
<1>1. protocolTreasury \in Account /\ Treasury \in Account
  BY DEF TypeOK, TreasuryTypeOK, Account
<1>2. \E to \in {protocolTreasury, Treasury} : Move(c, to, amount)
  BY DEF CreditTo
<1>. QED BY <1>1, <1>2, MoveTakesFrom

(* But for spendFrom, a call takes VOID from its own sender or from the    *)
(* protocol's two contracts.                                               *)
LEMMA CallTakesFromSender ==
  ASSUME TypeOK, NEW c \in Caller, Call(c),
         ~ \E token \in Token, to \in Account, amount \in Amount : SpendFrom(c, token, to, amount),
         NEW a \in User \cup {Forwarder}, a # c
  PROVE  bal'[a] \in Nat /\ bal'[a] >= bal[a]
<1>0. /\ a \in Account /\ a # Runtime /\ a # Treasury /\ bal[a] \in Nat
      /\ Runtime \in Account /\ Treasury \in Account /\ User \subseteq Account
      /\ Forwarder \in Account /\ Amount \subseteq Nat
  BY AccountAssumption, InitialAssumption DEF TypeOK, AssetsTypeOK, Account
<1>1. CASE bal' = bal
  BY <1>0, <1>1
<1>2. CASE PolicyCall(c) \/ RegistryCall(c) \/ EmergencyCall(c)
  <2>1. UNCHANGED assets
    BY <1>2
       DEF PolicyCall, WireOnce, RegisterDao, SetTollCeiling, Activate, SetFee, SetActive,
           SetPermissionlessDeploy, RegistryCall, RegisterApp, Publish, Register, UnregisterApp,
           EmergencyCall, EmergencyPauseProtocol, ResumeProtocol, EmergencyPauseApp, ResumeApp
  <2>. QED BY <1>1, <2>1 DEF assets
<1>3. CASE ExecutionCall(c)
  <2>1. \A to, deed : SpendNftFrom(c, to, deed) => bal' = bal
    BY DEF SpendNftFrom
  <2>2. ASSUME NEW user, NEW payer, NEW t \in Chain, NEW app \in App, NEW rate \in Rate,
               NEW maxFee \in MaxFee, NEW limits \in Auth, NEW nfts \in SUBSET Chain,
               c \in User \cup {Forwarder},
               Execute(c, user, payer, t, app, rate, maxFee, limits, nfts)
        PROVE  bal'[a] \in Nat /\ bal'[a] >= bal[a]
    BY <1>0, <2>2, TollTakesFrom
  <2>. QED BY <1>1, <1>3, <2>1, <2>2 DEF ExecutionCall, ExecuteDirect, ExecuteFor, ExecuteForPrepaid
<1>4. CASE RevenueCall(c)
  <2>1. /\ \A t \in Chain : pending[t] \in Nat /\ (pending[t] # 0 => pendingOwner[t] \in Account)
        /\ protocolAccrued \in Nat /\ protocolTreasury \in Account
        /\ \A u \in User : owed[u] \in Nat
    BY <1>0 DEF TypeOK, MoneyTypeOK, TreasuryTypeOK
  <2>2. ASSUME NEW t \in Chain, Flush(t) PROVE bal'[a] \in Nat /\ bal'[a] >= bal[a]
    BY <1>0, <2>1, <2>2, CreditTakesFrom DEF Flush
  <2>3. ASSUME SweepProtocol PROVE bal'[a] \in Nat /\ bal'[a] >= bal[a]
    BY <1>0, <2>1, <2>3, CreditTakesFrom DEF SweepProtocol
  <2>4. ASSUME NEW u \in User, ClaimOwed(u) PROVE bal'[a] \in Nat /\ bal'[a] >= bal[a]
    BY <1>0, <2>1, <2>4, CreditTakesFrom DEF ClaimOwed
  <2>. QED BY <1>4, <2>2, <2>3, <2>4 DEF RevenueCall
<1>5. CASE TreasuryCall(c)
  <2>1. ASSUME c \in User, NEW t \in Chain, NEW u, NEW gross \in Amount, SettleFor(c, t, u, gross)
        PROVE  bal'[a] \in Nat /\ bal'[a] >= bal[a]
    BY <1>0, <2>1, MoveTakesFrom DEF SettleFor
  <2>2. ASSUME c \in User, NEW u \in User, NEW amount \in Amount, CreditTo(c, u, amount)
        PROVE  bal'[a] \in Nat /\ bal'[a] >= bal[a]
    BY <1>0, <2>2, CreditTakesFrom
  <2>3. ASSUME NEW u \in User, ClaimTo(u) PROVE bal'[a] \in Nat /\ bal'[a] >= bal[a]
    <3>1. claimable[u] \in Nat /\ Move(Treasury, u, claimable[u])
      BY <1>0, <2>3 DEF ClaimTo, TypeOK, TreasuryTypeOK
    <3>. QED BY <1>0, <3>1, MoveTakesFrom
  <2>. QED BY <1>1, <1>5, <2>1, <2>2, <2>3
           DEF TreasuryCall, Settle, SettleTo, SetProtocolTreasury, TransferGovernance,
               SetAuthorizedSettler, SetChainSettler, assets
<1>6. CASE AssetsCall(c)
  <2>1. ASSUME NEW to \in Account, NEW amount \in Amount, Transfer(c, to, amount)
        PROVE  bal'[a] \in Nat /\ bal'[a] >= bal[a]
    <3>1. c \in Account /\ amount \in Nat /\ Move(c, to, amount)
      BY <1>0, <2>1 DEF Transfer
    <3>. QED BY <1>0, <3>1, MoveTakesFrom
  <2>. QED BY <1>1, <1>6, <2>1 DEF AssetsCall, TransferDeed
<1>. QED BY <1>2, <1>3, <1>4, <1>5, <1>6 DEF Call

(* spendFrom takes from the payer of the open call what the budget loses. *)
LEMMA SpendFromTakesBudget ==
  ASSUME TypeOK, NEW c, NEW token \in Token, NEW to \in Account, NEW amount \in Amount,
         SpendFrom(c, token, to, amount), NEW a \in User \cup {Forwarder}, bal'[a] < bal[a]
  PROVE  executing.payer = a /\ bal[a] - bal'[a] <= spendBudget[Void] - spendBudget'[Void]
<1>1. /\ a \in Account /\ amount \in Nat /\ bal \in [Account -> Nat]
      /\ spendBudget \in [Token -> Nat] /\ Void \in Token
      /\ executing # Idle => executing.payer \in Account
  BY InitialAssumption, RuntimeAssumption DEF TypeOK, AssetsTypeOK, ExecutionTypeOK, Account
<1>2. token = Void /\ Move(executing.payer, to, amount) /\ executing.payer \in Account
  BY <1>1 DEF SpendFrom
<1>3. executing.payer = a
  <2>1. SUFFICES ASSUME executing.payer # a PROVE FALSE
    OBVIOUS
  <2>2. bal'[a] \in Nat /\ bal'[a] >= bal[a] /\ bal[a] \in Nat
    BY <1>1, <1>2, <2>1, MoveTakesFrom
  <2>. QED BY <2>2
<1>4. a # to /\ bal'[a] = bal[a] - amount
  BY <1>1, <1>2, <1>3, MoveEffect
<1>5. spendBudget'[Void] = spendBudget[Void] - amount
  BY <1>1, <1>2 DEF SpendFrom
<1>6. bal[a] \in Nat /\ spendBudget[Void] \in Nat
  BY <1>1
<1>. QED BY <1>1, <1>3, <1>4, <1>5, <1>6
-----------------------------------------------------------------------------
(* The refinement of Earnings.  What waits for account u on the chains is   *)
(* the one part of its due that is a sum.                                   *)
Waiting(u) == [t \in Chain |-> IF pendingOwner[t] = u THEN pending[t] ELSE 0]
WaitingSum(u) == SumFunctionOnSet(Waiting(u), Chain)
Due == [u \in User |-> DueOf(u)]
Purse == [u \in User |-> bal[u]]

LEMMA DueParts ==
  ASSUME RuntimeInv, NEW u \in User
  PROVE  /\ DueOf(u) = WaitingSum(u) + owed[u] + claimable[u]
         /\ WaitingSum(u) \in Nat /\ owed[u] \in Nat /\ claimable[u] \in Nat
         /\ DueOf(u) \in Nat
<1>1. /\ \A t \in Chain : Waiting(u)[t] \in Nat
      /\ IsFiniteSet(Chain)
  BY RuntimeInvParts DEF Waiting
<1>2. SumFunctionOnSet(Waiting(u), Chain) \in Nat
  BY ONLY <1>1, SumNat
<1>3. owed[u] \in Nat /\ claimable[u] \in Nat
  BY RuntimeInvParts DEF TreasuryInv, TreasuryTypeOK, Account
<1>. QED BY <1>2, <1>3 DEF DueOf, WaitingSum, Waiting

LEMMA DuePartsNext ==
  ASSUME RuntimeInv', NEW u \in User
  PROVE  /\ DueOf(u)' = WaitingSum(u)' + owed'[u] + claimable'[u]
         /\ WaitingSum(u)' \in Nat /\ owed'[u] \in Nat /\ claimable'[u] \in Nat
         /\ DueOf(u)' \in Nat
<1>1. PICK g : g = Waiting(u)'
  OBVIOUS
<1>2. (\A t \in Chain : g[t] \in Nat) /\ IsFiniteSet(Chain)
  BY <1>1, AccountAssumption DEF Waiting, RuntimeInv, TypeOK, MoneyTypeOK
<1>3. SumFunctionOnSet(g, Chain) \in Nat
  BY ONLY <1>2, SumNat
<1>4. owed'[u] \in Nat /\ claimable'[u] \in Nat
  BY DEF RuntimeInv, TypeOK, MoneyTypeOK, TreasuryTypeOK, Account
<1>. QED BY <1>1, <1>3, <1>4 DEF DueOf, WaitingSum, Waiting

(* The books of one chain change: what waits for u changes by that.         *)
LEMMA WaitingChanges ==
  ASSUME RuntimeInv, RuntimeInv', NEW u \in User, NEW t \in Chain,
         \A s \in Chain \ {t} : pending'[s] = pending[s] /\ pendingOwner'[s] = pendingOwner[s]
  PROVE  /\ WaitingSum(u)' = WaitingSum(u) + (Waiting(u)'[t] - Waiting(u)[t])
         /\ Waiting(u)[t] \in Nat /\ Waiting(u)'[t] \in Nat /\ WaitingSum(u)' \in Nat
<1>1. PICK f : f = Waiting(u)
  OBVIOUS
<1>2. PICK g : g = Waiting(u)'
  OBVIOUS
<1>3. PICK d : d = g[t] - f[t]
  OBVIOUS
<1>4. /\ IsFiniteSet(Chain) /\ \A s \in Chain : f[s] \in Nat /\ g[s] \in Nat
      /\ \A s \in Chain \ {t} : g[s] = f[s]
  <2>1. \A s \in Chain : pending[s] \in Nat /\ pending'[s] \in Nat
    BY RuntimeInvParts DEF RuntimeInv, TypeOK, MoneyTypeOK
  <2>. QED BY <1>1, <1>2, <2>1, RuntimeInvParts DEF Waiting
<1>5. d \in Int /\ g[t] = f[t] + d
  BY <1>3, <1>4
<1>6. SumFunctionOnSet(g, Chain) = SumFunctionOnSet(f, Chain) + d
  BY ONLY <1>4, <1>5, t \in Chain, BookEntry
<1>7. SumFunctionOnSet(g, Chain) \in Nat
  BY ONLY <1>4, SumNat
<1>. QED BY <1>1, <1>2, <1>3, <1>4, <1>6, <1>7 DEF WaitingSum

LEMMA WaitingSame ==
  ASSUME UNCHANGED <<pending, pendingOwner>>, NEW u
  PROVE  WaitingSum(u)' = WaitingSum(u)
BY DEF WaitingSum, Waiting

(* Who pays and who is paid, in the wallets. *)
LEMMA PurseEffect ==
  ASSUME RuntimeInv, NEW from \in Account, NEW to \in Account, NEW amount \in Nat,
         Move(from, to, amount)
  PROVE  /\ Purse \in [User -> Nat] /\ Purse' \in [User -> Nat]
         /\ to \notin User => (IF from \in User THEN Purse' = [Purse EXCEPT ![from] = @ - amount]
                                                ELSE Purse' = Purse)
         /\ from \notin User /\ to \in User => Purse' = [Purse EXCEPT ![to] = @ + amount]
         /\ \A u \in User \ {from} : Purse'[u] >= Purse[u]
<1>1. bal \in [Account -> Nat] /\ User \subseteq Account
  BY RuntimeInvParts DEF Account
<1>2. bal' \in [Account -> Nat]
  BY <1>1, MoveEffect
<1>3. /\ Purse \in [User -> Nat] /\ \A u \in User : Purse[u] = bal[u]
      /\ Purse' \in [User -> Nat] /\ \A u \in User : Purse'[u] = bal'[u]
  BY <1>1, <1>2 DEF Purse
<1>4. \A a \in Account : a # from => bal'[a] >= bal[a]
  BY <1>1, MoveEffect
<1>5. \A a \in Account : a # from /\ a # to => bal'[a] = bal[a]
  BY <1>1, MoveEffect
<1>6. ASSUME to \notin User
      PROVE  IF from \in User THEN Purse' = [Purse EXCEPT ![from] = @ - amount] ELSE Purse' = Purse
  <2>1. CASE from \in User
    <3>1. bal'[from] = bal[from] - amount
      BY <1>1, <1>6, <2>1, MoveEffect
    <3>2. \A u \in User : u # from => bal'[u] = bal[u]
      BY <1>1, <1>5, <1>6
    <3>. QED BY <1>3, <2>1, <3>1, <3>2
  <2>2. CASE from \notin User
    <3>1. \A u \in User : bal'[u] = bal[u]
      BY <1>1, <1>5, <1>6, <2>2
    <3>. QED BY <1>3, <2>2, <3>1
  <2>. QED BY <2>1, <2>2
<1>7. ASSUME from \notin User, to \in User
      PROVE  Purse' = [Purse EXCEPT ![to] = @ + amount]
  <2>1. bal'[to] = bal[to] + amount
    BY <1>1, <1>7, MoveEffect
  <2>2. \A u \in User : u # to => bal'[u] = bal[u]
    BY <1>1, <1>5, <1>7
  <2>. QED BY <1>3, <1>7, <2>1, <2>2
<1>8. \A u \in User \ {from} : Purse'[u] >= Purse[u]
  BY <1>1, <1>3, <1>4
<1>. QED BY <1>3, <1>6, <1>7, <1>8

(* A payment among wallets, or to the protocol, is a payment there too.     *)
LEMMA MoveIsSpend ==
  ASSUME RuntimeInv, NEW from \in User \cup {Forwarder}, NEW to \in Account, NEW amount \in Nat,
         Move(from, to, amount), UNCHANGED <<owner, money, claimable>>
  PROVE  Promise!Spend
<1>1. /\ Purse' \in [User -> Nat] /\ \A u \in User \ {from} : Purse'[u] >= Purse[u]
      /\ FirstGovernor \in User
  BY PurseEffect, TreasuryAssumption DEF Account
<1>2. \E p \in User : \A u \in User \ {p} : Purse'[u] >= Purse[u]
  <2>1. CASE from \in User
    BY <1>1, <2>1
  <2>2. CASE from \notin User
    BY <1>1, <2>2
  <2>. QED BY <2>1, <2>2
<1>3. Due' = Due
  BY WaitingSame DEF Due, DueOf, money
<1>. QED BY <1>1, <1>2, <1>3 DEF Promise!Spend, Purse, Due, money

LEMMA SellingIsSelling ==
  ASSUME NEW t \in Chain, NEW to \in User, owner' = [owner EXCEPT ![t] = to],
         UNCHANGED <<bal, money, claimable>>
  PROVE  Promise!Sell(t, to)
BY DEF Promise!Sell, DueOf, money

(* A toll is earned by the holder of now; what is parked stays its earner's. *)
LEMMA TollIsEarned ==
  ASSUME RuntimeInv, RuntimeInv', NEW from \in User \cup {Forwarder}, NEW t \in Chain,
         NEW fee \in Nat, fee # 0, CollectToll(from, t, fee), UNCHANGED <<owner, claimable>>
  PROVE  Promise!EarnToll(t, fee)
<1> DEFINE cut == ProtocolCut(fee)
           sold == pending[t] > 0 /\ pendingOwner[t] # owner[t]
           p == pendingOwner[t]
<1>1. /\ Move(from, Runtime, fee)
      /\ protocolAccrued' = protocolAccrued + cut
      /\ owed' = IF sold THEN [owed EXCEPT ![p] = @ + pending[t]] ELSE owed
      /\ pending' = [pending EXCEPT ![t] = (IF sold THEN 0 ELSE @) + fee - cut]
      /\ pendingOwner' = [pendingOwner EXCEPT ![t] = owner[t]]
  BY DEF CollectToll
<1>2. /\ cut \in Nat /\ owner[t] \in User /\ cut = Promise!Share(fee)
      /\ pending \in [Chain -> Nat] /\ pendingOwner \in [Chain -> User \cup {None}]
      /\ owed \in [Account -> Nat] /\ User \subseteq Account /\ None \notin User
      /\ Runtime \in Account /\ Runtime \notin User /\ from \in Account
      /\ (pending[t] # 0 => p \in User)
  BY CutBounds, RuntimeInvParts, AccountAssumption
     DEF RuntimeInv, TypeOK, AssetsTypeOK, MoneyTypeOK, Account, ProtocolCut, Promise!Share
<1> HIDE DEF cut
<1>3. ASSUME NEW u \in User
      PROVE  DueOf(u)' = DueOf(u) + (IF u = owner[t] THEN fee - cut ELSE 0)
  <2>1. /\ WaitingSum(u)' = WaitingSum(u) + (Waiting(u)'[t] - Waiting(u)[t])
        /\ Waiting(u)[t] \in Nat /\ Waiting(u)'[t] \in Nat /\ WaitingSum(u)' \in Nat
    BY <1>1, <1>2, WaitingChanges
  <2>2. Waiting(u)[t] = IF p = u THEN pending[t] ELSE 0
    BY DEF Waiting
  <2>3. Waiting(u)'[t] = IF owner[t] = u THEN (IF sold THEN 0 ELSE pending[t]) + fee - cut ELSE 0
    BY <1>1, <1>2 DEF Waiting
  <2>4. owed'[u] = owed[u] + (IF sold /\ p = u THEN pending[t] ELSE 0)
    BY <1>1, <1>2
  <2>5. /\ DueOf(u) = WaitingSum(u) + owed[u] + claimable[u]
        /\ WaitingSum(u) \in Nat /\ owed[u] \in Nat /\ claimable[u] \in Nat
        /\ DueOf(u)' = WaitingSum(u)' + owed'[u] + claimable[u]
    BY DueParts DEF DueOf, WaitingSum, Waiting
  <2>6. pending[t] \in Nat
    BY <1>2
  <2>. QED BY <1>2, <2>1, <2>2, <2>3, <2>4, <2>5, <2>6
<1>4. Due' = [Due EXCEPT ![owner[t]] = @ + fee - cut]
  <2>1. \A u \in User : Due[u] = DueOf(u) /\ Due'[u] = DueOf(u)' /\ DueOf(u) \in Nat
    BY DueParts DEF Due
  <2>. QED BY <1>2, <1>3, <2>1 DEF Due
<1>5. Purse' = Purse \/ \E q \in User : Purse' = [Purse EXCEPT ![q] = @ - fee]
  BY <1>1, <1>2, PurseEffect
<1>. QED BY <1>1, <1>2, <1>4, <1>5 DEF Promise!EarnToll, Promise!PaidBy, Due, Purse

(* u receives an amount that was due to it.                                 *)
LEMMA PayIsPay ==
  ASSUME RuntimeInv, RuntimeInv', NEW u \in User, NEW amount \in Nat, amount # 0,
         UNCHANGED <<owner, protocolAccrued>>,
         Purse' = [Purse EXCEPT ![u] = @ + amount],
         \A v \in User : DueOf(v)' = DueOf(v) - (IF v = u THEN amount ELSE 0)
  PROVE  Promise!Next
<1>1. \A v \in User : Due[v] = DueOf(v) /\ Due'[v] = DueOf(v)' /\ DueOf(v) \in Nat /\ DueOf(v)' \in Nat
  BY DueParts, DuePartsNext DEF Due
<1>2. amount \in 1..Due[u]
  BY <1>1
<1>3. Due' = [Due EXCEPT ![u] = @ - amount]
  <2>1. \A v \in User : Due'[v] = Due[v] - (IF v = u THEN amount ELSE 0)
    BY <1>1
  <2>2. \A v \in User \ {u} : Due'[v] = Due[v]
    BY <1>1, <2>1
  <2>3. Due'[u] = Due[u] - amount
    BY <2>1
  <2>. QED BY <2>2, <2>3 DEF Due
<1>4. Promise!Pay(u, amount)
  BY <1>3 DEF Promise!Pay, Due, Purse
<1>. QED BY <1>2, <1>4 DEF Promise!Next, Due

(* What the runtime takes off the books of u it credits to u or delivers.   *)
LEMMA CreditKeepsPromise ==
  ASSUME RuntimeInv, RuntimeInv', NEW u \in User, NEW amount \in Nat,
         CreditTo(Runtime, u, amount), UNCHANGED protocolAccrued,
         \A v \in User : WaitingSum(v)' + owed'[v]
                            = WaitingSum(v) + owed[v] - (IF v = u THEN amount ELSE 0)
  PROVE  Promise!Next \/ UNCHANGED Promise!eVars
<1>1. /\ amount # 0 /\ owner' = owner /\ Runtime \in Account /\ Treasury \in Account
      /\ u \in Account /\ Runtime \notin User /\ Treasury \notin User
      /\ claimable \in [Account -> Nat] /\ User \subseteq Account
  BY AccountAssumption DEF CreditTo, RuntimeInv, TypeOK, TreasuryTypeOK, Account
<1>2. ASSUME NEW v \in User
      PROVE  /\ DueOf(v) = WaitingSum(v) + owed[v] + claimable[v]
             /\ DueOf(v)' = WaitingSum(v)' + owed'[v] + claimable'[v]
             /\ WaitingSum(v) \in Nat /\ owed[v] \in Nat /\ claimable[v] \in Nat
             /\ WaitingSum(v)' \in Nat /\ owed'[v] \in Nat /\ claimable'[v] \in Nat
  BY DueParts, DuePartsNext
<1>3. CASE u = protocolTreasury
  <2>1. Move(Runtime, u, amount) /\ claimable' = claimable
    BY <1>3 DEF CreditTo
  <2>2. Purse' = [Purse EXCEPT ![u] = @ + amount]
    BY <1>1, <2>1, PurseEffect
  <2>3. \A v \in User : DueOf(v)' = DueOf(v) - (IF v = u THEN amount ELSE 0)
    BY <1>2, <2>1
  <2>. QED BY <1>1, <2>2, <2>3, PayIsPay
<1>4. CASE u # protocolTreasury
  <2>1. Move(Runtime, Treasury, amount) /\ claimable' = [claimable EXCEPT ![u] = @ + amount]
    BY <1>4 DEF CreditTo
  <2>2. Purse' = Purse
    BY <1>1, <2>1, PurseEffect
  <2>3. \A v \in User : claimable'[v] = claimable[v] + (IF v = u THEN amount ELSE 0)
    BY <1>1, <2>1
  <2>4. \A v \in User : DueOf(v)' = DueOf(v)
    BY <1>2, <2>3
  <2>. QED BY <1>1, <2>2, <2>4 DEF Promise!eVars, Purse
<1>. QED BY <1>3, <1>4

LEMMA RevenueKeepsPromise ==
  ASSUME RuntimeInv, RuntimeInv', NEW c, RevenueCall(c)
  PROVE  Promise!Next \/ UNCHANGED Promise!eVars
<1>0. /\ MoneyTypeOK /\ TreasuryInv /\ User \subseteq Account /\ None \notin User
      /\ protocolTreasury \in User
  BY RuntimeInvParts, AccountAssumption DEF Account, TreasuryInv, TreasuryTypeOK
<1>1. ASSUME NEW t \in Chain, Flush(t) PROVE Promise!Next \/ UNCHANGED Promise!eVars
  <2> DEFINE u == pendingOwner[t]
             amount == pending[t]
  <2>1. /\ pending' = [pending EXCEPT ![t] = 0] /\ pendingOwner' = [pendingOwner EXCEPT ![t] = None]
        /\ CreditTo(Runtime, u, amount) /\ UNCHANGED <<protocolAccrued, owed>>
        /\ u \in User /\ amount \in Nat
    BY <1>0, <1>1 DEF Flush, MoneyTypeOK
  <2>2. ASSUME NEW v \in User
        PROVE  WaitingSum(v)' + owed'[v] = WaitingSum(v) + owed[v] - (IF v = u THEN amount ELSE 0)
    <3>1. /\ WaitingSum(v)' = WaitingSum(v) + (Waiting(v)'[t] - Waiting(v)[t])
          /\ Waiting(v)[t] \in Nat /\ Waiting(v)'[t] \in Nat
      BY <1>0, <2>1, WaitingChanges DEF MoneyTypeOK
    <3>2. Waiting(v)[t] = (IF v = u THEN amount ELSE 0) /\ Waiting(v)'[t] = 0
      BY <1>0, <2>1 DEF Waiting, MoneyTypeOK
    <3>3. WaitingSum(v) \in Nat /\ owed[v] \in Nat /\ owed'[v] = owed[v]
      BY <2>1, DueParts
    <3>. QED BY <2>1, <3>1, <3>2, <3>3
  <2> HIDE DEF u, amount
  <2>. QED BY <2>1, <2>2, CreditKeepsPromise
<1>2. ASSUME NEW u \in User, ClaimOwed(u) PROVE Promise!Next \/ UNCHANGED Promise!eVars
  <2>1. /\ owed' = [owed EXCEPT ![u] = 0] /\ CreditTo(Runtime, u, owed[u])
        /\ UNCHANGED <<pending, pendingOwner, protocolAccrued>>
        /\ owed \in [Account -> Nat] /\ owed[u] \in Nat
    BY <1>0, <1>2 DEF ClaimOwed, MoneyTypeOK
  <2>2. ASSUME NEW v \in User
        PROVE  WaitingSum(v)' + owed'[v] = WaitingSum(v) + owed[v] - (IF v = u THEN owed[u] ELSE 0)
    <3>1. WaitingSum(v)' = WaitingSum(v) /\ WaitingSum(v) \in Nat /\ owed[v] \in Nat
      BY <2>1, WaitingSame, DueParts
    <3>2. owed'[v] = IF v = u THEN 0 ELSE owed[v]
      BY <1>0, <2>1
    <3>. QED BY <3>1, <3>2
  <2>. QED BY <2>1, <2>2, CreditKeepsPromise
<1>3. ASSUME SweepProtocol PROVE Promise!Next \/ UNCHANGED Promise!eVars
  <2>1. /\ protocolAccrued' = 0 /\ protocolAccrued # 0 /\ protocolAccrued \in Nat
        /\ Move(Runtime, protocolTreasury, protocolAccrued)
        /\ UNCHANGED <<owner, claimable, pending, pendingOwner, owed>>
    BY <1>0, <1>3 DEF SweepProtocol, CreditTo, MoneyTypeOK
  <2>2. Purse' = [Purse EXCEPT ![protocolTreasury] = @ + protocolAccrued]
    BY <1>0, <2>1, PurseEffect, AccountAssumption DEF Account
  <2>3. Due' = Due
    BY <2>1 DEF Due, DueOf
  <2>4. PICK sink \in User : sink = protocolTreasury
    BY <1>0
  <2>5. Promise!PayProtocol(sink)
    BY <2>1, <2>2, <2>3, <2>4 DEF Promise!PayProtocol, Due, Purse
  <2>. QED BY <2>5 DEF Promise!Next
<1>. QED BY <1>1, <1>2, <1>3 DEF RevenueCall

LEMMA TreasuryKeepsPromise ==
  ASSUME RuntimeInv, RuntimeInv', NEW c \in Caller, TreasuryCall(c), UNCHANGED money
  PROVE  Promise!Next \/ UNCHANGED Promise!eVars
<1>0. /\ User \subseteq Account /\ Treasury \in Account /\ Treasury \notin User
      /\ protocolTreasury \in User /\ claimable \in [Account -> Nat] /\ owner \in [Chain -> User]
      /\ Amount \subseteq Nat
  BY AccountAssumption, InitialAssumption
     DEF Account, RuntimeInv, TypeOK, TreasuryTypeOK, AssetsTypeOK
<1>1. ASSUME NEW v \in User
      PROVE  /\ DueOf(v) \in Nat /\ claimable[v] \in Nat /\ claimable'[v] \in Nat
             /\ DueOf(v)' = DueOf(v) + (claimable'[v] - claimable[v])
  <2>1. WaitingSum(v)' = WaitingSum(v) /\ owed'[v] = owed[v]
    BY WaitingSame DEF money
  <2>. QED BY <2>1, DueParts, DuePartsNext
<1>2. UNCHANGED protocolAccrued /\ \A v \in User : Due[v] = DueOf(v) /\ Due'[v] = DueOf(v)'
  BY DEF money, Due
<1>3. ASSUME c \in User, NEW t \in Chain, NEW u \in User, NEW gross \in Amount, SettleFor(c, t, u, gross)
      PROVE  Promise!Next
  <2> DEFINE cut == ProtocolCut(gross)
  <2>1. PICK sink \in User : sink = protocolTreasury
    BY <1>0
  <2>2. /\ gross # 0 /\ gross \in Nat /\ Move(c, Treasury, gross) /\ owner' = owner
        /\ claimable' = [[claimable EXCEPT ![sink] = @ + cut] EXCEPT ![u] = @ + gross - cut]
        /\ cut \in Nat /\ cut = Promise!Share(gross)
    BY <1>0, <1>3, <2>1, CutBounds DEF SettleFor, ProtocolCut, Promise!Share
  <2> HIDE DEF cut
  <2>3. Purse' = [Purse EXCEPT ![c] = @ - gross]
    BY <1>0, <1>3, <2>2, PurseEffect
  <2>4. \A v \in User : Due'[v] = Due[v] + (IF v = sink THEN cut ELSE 0)
                                        + (IF v = u THEN gross - cut ELSE 0)
    <3>1. \A v \in User : claimable'[v] = claimable[v] + (IF v = sink THEN cut ELSE 0)
                                                      + (IF v = u THEN gross - cut ELSE 0)
      BY <1>0, <2>2
    <3>2. ASSUME NEW v \in User
          PROVE  Due'[v] = Due[v] + (IF v = sink THEN cut ELSE 0) + (IF v = u THEN gross - cut ELSE 0)
      <4>1. PICK x \in Nat : x = Due[v]
        BY <1>1, <1>2
      <4>2. PICK y \in Nat : y = claimable[v]
        BY <1>1
      <4>3. Due'[v] = x + (claimable'[v] - y)
        BY <1>1, <1>2, <4>1, <4>2
      <4>4. PICK z \in Int : z = (IF v = sink THEN cut ELSE 0)
        BY <2>2
      <4>5. PICK w \in Int : w = (IF v = u THEN gross - cut ELSE 0)
        BY <2>2
      <4>6. claimable'[v] = y + z + w
        BY <3>1, <4>2, <4>4, <4>5
      <4>7. Due'[v] = x + z + w
        BY <4>3, <4>6
      <4>. QED BY <4>1, <4>4, <4>5, <4>7
    <3>. QED BY <3>2
  <2>5. Due' = [[Due EXCEPT ![sink] = @ + cut] EXCEPT ![u] = @ + gross - cut]
    <3>1. \A v \in User : Due[v] \in Nat
      BY <1>1, <1>2
    <3>. QED BY <2>2, <2>4, <3>1 DEF Due
  <2>6. Promise!EarnSettled(u, sink, gross)
    BY <1>2, <1>3, <2>2, <2>3, <2>5 DEF Promise!EarnSettled, Promise!PaidBy, Due, Purse
  <2>7. gross \in GrossAmounts
    BY <2>2 DEF GrossAmounts
  <2>. QED BY <2>6, <2>7 DEF Promise!Next
<1>4. ASSUME c \in User, NEW u \in User, NEW amount \in Amount, CreditTo(c, u, amount)
      PROVE  Promise!Next
  <2>1. amount # 0 /\ amount \in Nat /\ owner' = owner /\ c \in Account
    BY <1>0, <1>4 DEF CreditTo
  <2>2. CASE u = protocolTreasury
    <3>1. Move(c, u, amount) /\ UNCHANGED <<owner, money, claimable>>
      BY <1>4, <2>2 DEF CreditTo
    <3>. QED BY <1>0, <1>4, <2>1, <3>1, MoveIsSpend DEF Promise!Next
  <2>3. CASE u # protocolTreasury
    <3>1. Move(c, Treasury, amount) /\ claimable' = [claimable EXCEPT ![u] = @ + amount]
      BY <1>4, <2>3 DEF CreditTo
    <3>2. Purse' = [Purse EXCEPT ![c] = @ - amount]
      BY <1>0, <1>4, <2>1, <3>1, PurseEffect
    <3>3. \A v \in User : Due'[v] = IF v = u THEN Due[v] + amount ELSE Due[v]
      BY <1>0, <1>1, <1>2, <2>1, <3>1
    <3>4. Due' = [Due EXCEPT ![u] = @ + amount]
      BY <3>3 DEF Due
    <3>5. Promise!PaidBy(amount)
      BY <1>4, <3>2 DEF Promise!PaidBy, Purse
    <3>6. Promise!EarnCredited(u, amount)
      BY <1>2, <2>1, <3>4, <3>5 DEF Promise!EarnCredited, Due
    <3>7. amount \in GrossAmounts
      BY <2>1 DEF GrossAmounts
    <3>. QED BY <3>6, <3>7 DEF Promise!Next
  <2>. QED BY <2>2, <2>3
<1>5. ASSUME NEW u \in User, ClaimTo(u) PROVE Promise!Next
  <2>1. /\ claimable[u] # 0 /\ claimable[u] \in Nat /\ owner' = owner
        /\ claimable' = [claimable EXCEPT ![u] = 0] /\ Move(Treasury, u, claimable[u])
    BY <1>0, <1>5 DEF ClaimTo
  <2>2. PICK amount \in Nat : amount = claimable[u]
    BY <2>1
  <2>3. Purse' = [Purse EXCEPT ![u] = @ + amount]
    BY <1>0, <2>1, <2>2, PurseEffect
  <2>4. \A v \in User : DueOf(v)' = DueOf(v) - (IF v = u THEN amount ELSE 0)
    BY <1>0, <1>1, <2>1, <2>2
  <2>. QED BY <1>2, <2>1, <2>2, <2>3, <2>4, PayIsPay
<1>6. ASSUME UNCHANGED <<assets, claimable>> PROVE UNCHANGED Promise!eVars
  BY <1>6 DEF Promise!eVars, assets, money, DueOf
<1>. QED BY <1>0, <1>3, <1>4, <1>5, <1>6
         DEF TreasuryCall, Settle, SettleTo, SetProtocolTreasury, TransferGovernance,
             SetAuthorizedSettler, SetChainSettler

LEMMA ExecutionKeepsPromise ==
  ASSUME RuntimeInv, RuntimeInv', NEW c, ExecutionCall(c)
  PROVE  Promise!Next \/ UNCHANGED Promise!eVars
<1>1. ASSUME NEW from \in User \cup {Forwarder}, NEW user, NEW payer, NEW t \in Chain, NEW app \in App,
             NEW rate \in Rate, NEW maxFee, NEW limits, NEW nfts,
             Execute(from, user, payer, t, app, rate, maxFee, limits, nfts)
      PROVE  Promise!Next \/ UNCHANGED Promise!eVars
  <2>1. /\ CollectToll(from, t, Toll(t, rate)) /\ UNCHANGED <<owner, claimable>>
        /\ Toll(t, rate) \in Nat
    BY <1>1, TollNat DEF Execute, treasury, RuntimeInv
  <2>2. CASE Toll(t, rate) = 0
    <3>1. UNCHANGED <<owner, bal, claimable, pending, pendingOwner, protocolAccrued, owed>>
      BY <2>1, <2>2 DEF CollectToll
    <3>. QED BY <3>1 DEF Promise!eVars, DueOf
  <2>3. CASE Toll(t, rate) # 0
    <3>1. PICK fee \in Nat : fee = Toll(t, rate)
      BY <2>1
    <3>2. feeUsd[t] \in Fee \cup {0} /\ rate \in Nat
      BY ParametersNat DEF RuntimeInv, TypeOK, PolicyTypeOK
    <3>3. feeUsd[t] # 0
      BY <2>3, <3>2 DEF Toll
    <3>4. fee \in GrossAmounts
      BY <2>3, <3>1, <3>2, <3>3 DEF GrossAmounts, Toll
    <3>5. CollectToll(from, t, fee) /\ fee # 0
      BY <2>1, <2>3, <3>1
    <3>6. Promise!EarnToll(t, fee)
      BY <2>1, <3>5, TollIsEarned
    <3>. QED BY <3>4, <3>6 DEF Promise!Next
  <2>. QED BY <2>2, <2>3
<1>2. ASSUME NEW token \in Token, NEW to \in Account, NEW amount \in Amount,
             SpendFrom(c, token, to, amount)
      PROVE  Promise!Next \/ UNCHANGED Promise!eVars
  <2>1. UNCHANGED <<owner, money, claimable>> /\ amount \in Nat
    BY <1>2, InitialAssumption DEF SpendFrom, treasury
  <2>2. CASE token = Void
    <3>1. executing.payer \in User \cup {Forwarder} /\ Move(executing.payer, to, amount)
      BY <1>2, <2>2 DEF SpendFrom, RuntimeInv, TypeOK, ExecutionTypeOK
    <3>2. PICK from \in User \cup {Forwarder} : from = executing.payer
      BY <3>1
    <3>3. Move(from, to, amount)
      BY <3>1, <3>2 DEF Move
    <3>. QED BY <2>1, <3>3, MoveIsSpend DEF Promise!Next
  <2>3. CASE token # Void
    <3>1. bal' = bal
      BY <1>2, <2>3 DEF SpendFrom
    <3>. QED BY <2>1, <3>1 DEF Promise!eVars, money, DueOf
  <2>. QED BY <2>2, <2>3
<1>3. ASSUME NEW to \in User, NEW deed \in Chain, SpendNftFrom(c, to, deed)
      PROVE  Promise!Next
  <2>1. owner' = [owner EXCEPT ![deed] = to] /\ UNCHANGED <<bal, money, claimable>>
    BY <1>3 DEF SpendNftFrom, treasury
  <2>. QED BY <2>1, SellingIsSelling DEF Promise!Next
<1>4. ASSUME NEW t \in Chain, NEW app \in App, NEW rate \in Rate, NEW maxFee \in MaxFee,
             NEW limits \in Auth, NEW nfts \in SUBSET Chain,
             ExecuteDirect(c, t, app, rate, maxFee, limits, nfts)
      PROVE  Promise!Next \/ UNCHANGED Promise!eVars
  BY <1>1, <1>4 DEF ExecuteDirect
<1>5. ASSUME NEW t \in Chain, NEW app \in App, NEW rate \in Rate, NEW maxFee \in MaxFee,
             NEW limits \in Auth, NEW nfts \in SUBSET Chain, NEW user \in User,
             \/ ExecuteFor(c, user, t, app, rate, maxFee, limits, nfts)
             \/ ExecuteForPrepaid(c, user, t, app, rate, maxFee, limits, nfts)
      PROVE  Promise!Next \/ UNCHANGED Promise!eVars
  BY <1>1, <1>5 DEF ExecuteFor, ExecuteForPrepaid
<1>. QED BY <1>2, <1>3, <1>4, <1>5 DEF ExecutionCall

LEMMA AssetsKeepPromise ==
  ASSUME RuntimeInv, NEW c, AssetsCall(c), UNCHANGED <<money, treasury>>
  PROVE  Promise!Next
<1>1. ASSUME NEW to \in Account, NEW amount \in Amount, Transfer(c, to, amount)
      PROVE  Promise!Next
  <2>1. /\ c \in User \cup {Forwarder} /\ amount \in Nat /\ Move(c, to, amount)
        /\ UNCHANGED <<owner, money, claimable>>
    BY <1>1, InitialAssumption DEF Transfer, treasury
  <2>. QED BY <2>1, MoveIsSpend DEF Promise!Next
<1>2. ASSUME NEW t \in Chain, NEW to \in User, TransferDeed(c, t, to)
      PROVE  Promise!Next
  <2>1. owner' = [owner EXCEPT ![t] = to] /\ UNCHANGED <<bal, money, claimable>>
    BY <1>2 DEF TransferDeed, treasury
  <2>. QED BY <2>1, SellingIsSelling DEF Promise!Next
<1>. QED BY <1>1, <1>2 DEF AssetsCall

(* Nothing is due before the first call. *)
LEMMA PromiseInit ==
  ASSUME Init
  PROVE  Promise!Init
<1>1. /\ InitialBalance \in [Account -> Nat] /\ InitialOwner \in [Chain -> User]
      /\ User \subseteq Account /\ IsFiniteSet(Chain)
  BY InitialAssumption, AccountAssumption DEF Account
<1>2. ASSUME NEW u \in User PROVE DueOf(u) = 0
  <2>1. PICK f : f = Waiting(u)
    OBVIOUS
  <2>2. IsFiniteSet(Chain) /\ \A t \in Chain : f[t] = 0
    BY <1>1, <2>1 DEF Waiting, Init
  <2>3. SumFunctionOnSet(f, Chain) = 0
    BY ONLY <2>2, SumZero
  <2>4. owed[u] = 0 /\ claimable[u] = 0
    BY <1>1 DEF Init, TreasuryInit
  <2>. QED BY <2>1, <2>3, <2>4 DEF DueOf, Waiting
<1>. QED BY <1>1, <1>2 DEF Promise!Init, Init, AssetsInit

(* Every step of runtime and treasury keeps the promise of Earnings: a sale, *)
(* a park, a flush or a credit never moves revenue from who earned it to     *)
(* somebody else (VoidChainAppRuntime.sol:934-941).                          *)
THEOREM RuntimeImplementsEarnings == Spec => RevenueBelongsToEarner
<1>1. Init => Promise!Init
  BY PromiseInit
<1>2. RuntimeInv /\ RuntimeInv' /\ [Next]_vars => [Promise!Next]_(Promise!eVars)
  <2> SUFFICES ASSUME RuntimeInv, RuntimeInv', [Next]_vars
               PROVE  Promise!Next \/ UNCHANGED Promise!eVars
    OBVIOUS
  <2>1. ASSUME UNCHANGED <<assets, treasury, money>>
        PROVE  UNCHANGED Promise!eVars
    BY <2>1 DEF Promise!eVars, assets, treasury, money, DueOf
  <2>2. CASE UNCHANGED vars
    BY <2>1, <2>2 DEF vars
  <2>3. CASE Return
    BY <2>1, <2>3 DEF Return
  <2>4. ASSUME NEW c \in Caller, Call(c) PROVE Promise!Next \/ UNCHANGED Promise!eVars
    <3>1. CASE PolicyCall(c) \/ RegistryCall(c) \/ EmergencyCall(c)
      <4>1. UNCHANGED <<assets, treasury, money>>
        BY <3>1
           DEF PolicyCall, WireOnce, RegisterDao, SetTollCeiling, Activate, SetFee, SetActive,
               SetPermissionlessDeploy, RegistryCall, RegisterApp, Publish, Register, UnregisterApp,
               EmergencyCall, EmergencyPauseProtocol, ResumeProtocol, EmergencyPauseApp, ResumeApp
      <4>. QED BY <2>1, <4>1
    <3>. QED BY <2>4, <3>1, ExecutionKeepsPromise, RevenueKeepsPromise, TreasuryKeepsPromise,
                AssetsKeepPromise DEF Call
  <2>. QED BY <2>2, <2>3, <2>4 DEF Next
<1>. QED BY <1>1, <1>2, RuntimeInductive, PTL DEF Spec, RevenueBelongsToEarner, Promise!Spec

-----------------------------------------------------------------------------
(* Nothing is stranded.  What a transfer and a credit of the runtime require *)
(* and assign, with the values they assign as parameters: they go through    *)
(* exactly when such values exist.                                           *)
Moves(from, to, amount, nextBal) ==
  /\ amount <= bal[from]
  /\ nextBal = [[bal EXCEPT ![from] = @ - amount] EXCEPT ![to] = @ + amount]

Credits(beneficiary, amount, nextBal, nextClaimable) ==
  /\ settlerScope[Runtime] # None
  /\ amount # 0
  /\ IF beneficiary = protocolTreasury
       THEN /\ Moves(Runtime, protocolTreasury, amount, nextBal)
            /\ nextClaimable = claimable
       ELSE /\ Moves(Runtime, Treasury, amount, nextBal)
            /\ nextClaimable = [claimable EXCEPT ![beneficiary] = @ + amount]

(* Moves and Credits are the whole guard of the four payouts: what else they *)
(* say clears the entry that is paid and leaves everything else alone.       *)
LEMMA PayoutsAre ==
  ASSUME NEW t, NEW u
  PROVE  /\ ClaimTo(u) <=>
              /\ claimable[u] # 0
              /\ Moves(Treasury, u, claimable[u], bal')
              /\ claimable' = [claimable EXCEPT ![u] = 0]
              /\ UNCHANGED <<owner, treasuryRevenue, settlerScope, protocolTreasury, governance>>
         /\ Flush(t) <=>
              /\ executing = Idle
              /\ Credits(pendingOwner[t], pending[t], bal', claimable')
              /\ pending' = [pending EXCEPT ![t] = 0]
              /\ pendingOwner' = [pendingOwner EXCEPT ![t] = None]
              /\ UNCHANGED <<owner, treasuryRevenue, settlerScope, protocolTreasury, governance,
                             appRevenue, callCount, protocolAccrued, owed,
                             policy, registry, emergency, execution>>
         /\ ClaimOwed(u) <=>
              /\ executing = Idle
              /\ Credits(u, owed[u], bal', claimable')
              /\ owed' = [owed EXCEPT ![u] = 0]
              /\ UNCHANGED <<owner, treasuryRevenue, settlerScope, protocolTreasury, governance,
                             pending, pendingOwner, appRevenue, callCount, protocolAccrued,
                             policy, registry, emergency, execution>>
         /\ SweepProtocol <=>
              /\ executing = Idle
              /\ Credits(protocolTreasury, protocolAccrued, bal', claimable')
              /\ protocolAccrued' = 0
              /\ UNCHANGED <<owner, treasuryRevenue, settlerScope, protocolTreasury, governance,
                             pending, pendingOwner, appRevenue, callCount, owed,
                             policy, registry, emergency, execution>>
<1>1. \A from, to, amount : Move(from, to, amount) <=> Moves(from, to, amount, bal')
  BY DEF Move, Moves
<1>2. \A beneficiary, amount :
        CreditTo(Runtime, beneficiary, amount) <=>
          /\ Credits(beneficiary, amount, bal', claimable')
          /\ UNCHANGED <<owner, treasuryRevenue, settlerScope, protocolTreasury, governance>>
  BY <1>1 DEF CreditTo, Credits
<1>3. ClaimTo(u) <=>
        /\ claimable[u] # 0
        /\ Moves(Treasury, u, claimable[u], bal')
        /\ claimable' = [claimable EXCEPT ![u] = 0]
        /\ UNCHANGED <<owner, treasuryRevenue, settlerScope, protocolTreasury, governance>>
  BY <1>1 DEF ClaimTo
<1>4. Flush(t) <=>
        /\ executing = Idle
        /\ Credits(pendingOwner[t], pending[t], bal', claimable')
        /\ pending' = [pending EXCEPT ![t] = 0]
        /\ pendingOwner' = [pendingOwner EXCEPT ![t] = None]
        /\ UNCHANGED <<owner, treasuryRevenue, settlerScope, protocolTreasury, governance,
                       appRevenue, callCount, protocolAccrued, owed,
                       policy, registry, emergency, execution>>
  <2>1. \A k, b : Credits(pendingOwner[t], pending[t], b, k) => pending[t] # 0
    BY DEF Credits
  <2>. QED BY <1>2, <2>1 DEF Flush
<1>5. ClaimOwed(u) <=>
        /\ executing = Idle
        /\ Credits(u, owed[u], bal', claimable')
        /\ owed' = [owed EXCEPT ![u] = 0]
        /\ UNCHANGED <<owner, treasuryRevenue, settlerScope, protocolTreasury, governance,
                       pending, pendingOwner, appRevenue, callCount, protocolAccrued,
                       policy, registry, emergency, execution>>
  <2>1. \A k, b : Credits(u, owed[u], b, k) => owed[u] # 0
    BY DEF Credits
  <2>. QED BY <1>2, <2>1 DEF ClaimOwed
<1>6. SweepProtocol <=>
        /\ executing = Idle
        /\ Credits(protocolTreasury, protocolAccrued, bal', claimable')
        /\ protocolAccrued' = 0
        /\ UNCHANGED <<owner, treasuryRevenue, settlerScope, protocolTreasury, governance,
                       pending, pendingOwner, appRevenue, callCount, owed,
                       policy, registry, emergency, execution>>
  <2>1. \A k, b : Credits(protocolTreasury, protocolAccrued, b, k) => protocolAccrued # 0
    BY DEF Credits
  <2>. QED BY <1>2, <2>1 DEF SweepProtocol
<1>. QED BY <1>3, <1>4, <1>5, <1>6

(* The runtime can credit u with the amount: next balances and a next book   *)
(* of the treasury exist, and nobody's goes below zero.                      *)
Payable(u, amount) ==
  \E nextBal, nextClaimable \in [Account -> Nat] : Credits(u, amount, nextBal, nextClaimable)

(* What is credited can be withdrawn; and while the treasury authorises the  *)
(* runtime, what is pending can be flushed, what is parked claimed and the   *)
(* protocol's share swept.                                                   *)
EverythingPayable ==
  executing = Idle =>
    /\ \A u \in User : claimable[u] > 0 =>
         \E nextBal \in [Account -> Nat] : Moves(Treasury, u, claimable[u], nextBal)
    /\ settlerScope[Runtime] # None =>
         /\ \A t \in Chain : pending[t] > 0 => Payable(pendingOwner[t], pending[t])
         /\ \A u \in User : owed[u] > 0 => Payable(u, owed[u])
         /\ protocolAccrued > 0 => Payable(protocolTreasury, protocolAccrued)

(* An entry of a book is no more than its total.                             *)
LEMMA EntryWithinTotal ==
  ASSUME NEW S, IsFiniteSet(S), NEW f, \A y \in S : f[y] \in Nat, NEW x \in S
  PROVE  f[x] <= SumFunctionOnSet(f, S)
<1>1. PICK g : g = [y \in S |-> IF y = x THEN 0 ELSE f[y]]
  OBVIOUS
<1>2. /\ \A y \in S : g[y] \in Nat
      /\ \A y \in S \ {x} : g[y] = f[y]
      /\ -f[x] \in Int /\ f[x] \in Nat
      /\ g[x] = f[x] + (-f[x])
  BY <1>1
<1>3. PICK d \in Int : d = -f[x]
  BY <1>2
<1>4. g[x] = f[x] + d
  BY <1>2, <1>3
<1>5. /\ SumFunctionOnSet(f, S) \in Nat
      /\ SumFunctionOnSet(g, S) = SumFunctionOnSet(f, S) + d
  BY ONLY <1>2, <1>4, IsFiniteSet(S), \A y \in S : f[y] \in Nat, BookEntry
<1>6. SumFunctionOnSet(g, S) \in Nat
  BY <1>2, SumNat
<1>. QED BY <1>2, <1>3, <1>5, <1>6

(* A transfer within the balance has a next balance.                         *)
LEMMA MoveExists ==
  ASSUME bal \in [Account -> Nat], NEW from \in Account, NEW to \in Account,
         NEW amount \in Nat, amount <= bal[from]
  PROVE  \E nextBal \in [Account -> Nat] : Moves(from, to, amount, nextBal)
<1> DEFINE b == [[bal EXCEPT ![from] = @ - amount] EXCEPT ![to] = @ + amount]
<1>1. b \in [Account -> Nat]
  OBVIOUS
<1>2. Moves(from, to, amount, b)
  BY DEF Moves
<1> HIDE DEF b
<1>. QED BY <1>1, <1>2

LEMMA CreditExists ==
  ASSUME RuntimeInv, NEW u \in User, NEW amount \in Nat, amount # 0, amount <= bal[Runtime],
         settlerScope[Runtime] # None
  PROVE  Payable(u, amount)
<1>1. /\ bal \in [Account -> Nat] /\ claimable \in [Account -> Nat]
      /\ u \in Account /\ protocolTreasury \in Account /\ Runtime \in Account /\ Treasury \in Account
  BY RuntimeInvParts DEF TreasuryInv, TreasuryTypeOK, Account
<1>2. CASE u = protocolTreasury
  <2>1. PICK b \in [Account -> Nat] : Moves(Runtime, protocolTreasury, amount, b)
    BY <1>1, MoveExists
  <2>2. Credits(u, amount, b, claimable)
    BY <1>2, <2>1 DEF Credits
  <2>. QED BY <1>1, <2>2 DEF Payable
<1>3. CASE u # protocolTreasury
  <2>1. PICK b \in [Account -> Nat] : Moves(Runtime, Treasury, amount, b)
    BY <1>1, MoveExists
  <2> DEFINE k == [claimable EXCEPT ![u] = @ + amount]
  <2>2. k \in [Account -> Nat]
    BY <1>1
  <2>3. Credits(u, amount, b, k)
    BY <1>3, <2>1 DEF Credits
  <2> HIDE DEF k
  <2>. QED BY <2>1, <2>2, <2>3 DEF Payable
<1>. QED BY <1>2, <1>3

(* Once an authorised runtime is idle no revenue is stranded, whoever holds  *)
(* the deeds by then: every payout of runtime and treasury that has          *)
(* something to pay goes through (VoidChainAppRuntime.sol:1057).             *)
THEOREM RevenueIsNeverStranded == Spec => []EverythingPayable
<1>1. RuntimeInv => EverythingPayable
  <2> SUFFICES ASSUME RuntimeInv
               PROVE  EverythingPayable
    OBVIOUS
  <2>1. /\ TreasuryInv /\ MoneyTypeOK /\ IsFiniteSet(Chain) /\ IsFiniteSet(Account)
        /\ bal \in [Account -> Nat] /\ bal[Runtime] \in Nat /\ bal[Treasury] \in Nat
        /\ \A t \in Chain : pending[t] \in Nat
        /\ \A a \in Account : owed[a] \in Nat
        /\ protocolAccrued \in Nat
        /\ Treasury \in Account /\ User \subseteq Account
    BY RuntimeInvParts DEF Account
  <2>2. /\ SumFunctionOnSet(pending, Chain) \in Nat
        /\ SumFunctionOnSet(owed, Account) \in Nat
        /\ bal[Runtime] >= SumFunctionOnSet(pending, Chain) + SumFunctionOnSet(owed, Account)
                             + protocolAccrued
    BY TotalsNat
  <2>3. ASSUME NEW u \in User, claimable[u] > 0
        PROVE  \E nextBal \in [Account -> Nat] : Moves(Treasury, u, claimable[u], nextBal)
    <3>1. u \in Account /\ \A a \in Account : claimable[a] \in Nat
      BY <2>1 DEF TreasuryInv, TreasuryTypeOK
    <3>2. claimable[u] <= SumFunctionOnSet(claimable, Account)
      BY ONLY <2>1, <3>1, EntryWithinTotal
    <3>3. SumFunctionOnSet(claimable, Account) \in Nat
      BY ONLY <2>1, <3>1, SumNat
    <3>4. claimable[u] <= bal[Treasury]
      BY <2>1, <3>1, <3>2, <3>3 DEF TreasuryInv, TreasurySolvent
    <3>. QED BY <2>1, <3>1, <3>4, MoveExists
  <2>4. ASSUME settlerScope[Runtime] # None, NEW t \in Chain, pending[t] > 0
        PROVE  Payable(pendingOwner[t], pending[t])
    <3>1. pendingOwner[t] \in User /\ pending[t] \in Nat /\ pending[t] # 0
      BY <2>1, <2>4 DEF MoneyTypeOK
    <3>2. pending[t] <= SumFunctionOnSet(pending, Chain)
      BY ONLY <2>1, EntryWithinTotal
    <3>3. pending[t] <= bal[Runtime]
      BY <2>1, <2>2, <3>1, <3>2
    <3>. QED BY <2>4, <3>1, <3>3, CreditExists
  <2>5. ASSUME settlerScope[Runtime] # None, NEW u \in User, owed[u] > 0
        PROVE  Payable(u, owed[u])
    <3>1. owed[u] \in Nat /\ owed[u] # 0 /\ u \in Account
      BY <2>1, <2>5
    <3>2. owed[u] <= SumFunctionOnSet(owed, Account)
      BY ONLY <2>1, <3>1, EntryWithinTotal
    <3>3. owed[u] <= bal[Runtime]
      BY <2>1, <2>2, <3>1, <3>2
    <3>. QED BY <2>5, <3>1, <3>3, CreditExists
  <2>6. ASSUME settlerScope[Runtime] # None, protocolAccrued > 0
        PROVE  Payable(protocolTreasury, protocolAccrued)
    <3>1. protocolTreasury \in User /\ protocolAccrued # 0 /\ protocolAccrued <= bal[Runtime]
      BY <2>1, <2>2, <2>6 DEF TreasuryInv, TreasuryTypeOK
    <3>. QED BY <2>1, <2>6, <3>1, CreditExists
  <2>. QED BY <2>3, <2>4, <2>5, <2>6 DEF EverythingPayable
<1>. QED BY <1>1, RuntimeInductive, PTL
=============================================================================
