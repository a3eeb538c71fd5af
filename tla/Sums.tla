-------------------------------- MODULE Sums --------------------------------
(***************************************************************************)
(* Facts about SumFunctionOnSet, the sum of the entries f[x] for x in a    *)
(* finite set.  The contracts keep balances per chain and per beneficiary  *)
(* and never the totals; the solvency invariants are about the totals, so  *)
(* their proofs need to know how a total changes when one entry does.      *)
(*                                                                         *)
(* The fold is a recursive function over the subsets of the set.  Every    *)
(* induction below is by a smallest counterexample (NatMin).  At the end   *)
(* two facts about quotients, which prices and shares need as well.        *)
(***************************************************************************)
EXTENDS Integers, FiniteSets, FiniteSetTheorems, Functions, TLAPS

\* The element the fold takes out of s first, and the equation the fold's
\* function over the subsets of S satisfies.
Pick(s) == CHOOSE x \in s : TRUE
IsFold(f, S, it) ==
  it = [s \in SUBSET S |-> IF s = {} THEN 0 ELSE f[Pick(s)] + it[s \ {Pick(s)}]]

\* Every nonempty set of naturals has a least element.
LEMMA NatMin ==
  ASSUME NEW T \in SUBSET Nat, T # {}
  PROVE  \E m \in T : \A k \in T : m <= k
<1> DEFINE R == OpToRel(<, Nat)
<1>1. \A a, b \in Nat : a < b => <<a, b>> \in R
  BY DEF OpToRel
<1>2. IsWellFoundedOn(R, Nat)
  BY NatLessThanWellFounded
<1> HIDE DEF R
<1>3. PICK m \in T : \A y \in T : ~ (<<y, m>> \in R)
  BY <1>2, WFMin
<1>4. \A k \in T : ~ (k < m)
  BY <1>1, <1>3
<1>. QED BY <1>4

\* A set holds the element picked from it unless it is empty, and taking the
\* element out makes a finite set smaller by one.
LEMMA PickIn ==
  ASSUME NEW s, s # {}
  PROVE  Pick(s) \in s
BY DEF Pick

LEMMA PickShrinks ==
  ASSUME NEW s, s # {}, IsFiniteSet(s)
  PROVE  /\ IsFiniteSet(s \ {Pick(s)})
         /\ Cardinality(s) \in Nat
         /\ Cardinality(s \ {Pick(s)}) = Cardinality(s) - 1
         /\ Cardinality(s) >= 1
<1>1. Pick(s) \in s
  BY PickIn
<1>2. Cardinality(s) \in Nat /\ Cardinality(s) # 0
  BY FS_CardinalityType, FS_EmptySet
<1>3. IsFiniteSet(s \ {Pick(s)}) /\ Cardinality(s \ {Pick(s)}) = Cardinality(s) - 1
  BY <1>1, FS_RemoveElement
<1>. QED BY <1>2, <1>3

\* The community module's definition, in first-order form.
LEMMA SumAsFold ==
  ASSUME NEW f, NEW S
  PROVE  SumFunctionOnSet(f, S) = (CHOOSE it : IsFold(f, S, it))[S]
BY DEF SumFunctionOnSet, FoldFunctionOnSet, MapThenFoldSet, IsFold, Pick

\* The fold's function exists on every finite set: it is built up over the
\* subsets of at most n elements, for n up to the size of the set.
LEMMA FoldExists ==
  ASSUME NEW f, NEW S, IsFiniteSet(S)
  PROVE  \E it : IsFold(f, S, it)
<1> DEFINE Upto(n) == {s \in SUBSET S : Cardinality(s) <= n}
           FoldUpto(n, g) ==
             g = [s \in Upto(n) |-> IF s = {} THEN 0 ELSE f[Pick(s)] + g[s \ {Pick(s)}]]
           Bad == {n \in Nat : ~ \E g : FoldUpto(n, g)}
<1>0. \A s \in SUBSET S : IsFiniteSet(s) /\ Cardinality(s) \in Nat
  BY FS_Subset, FS_CardinalityType
<1>1. Bad = {}
  <2>1. SUFFICES ASSUME Bad # {} PROVE FALSE
    OBVIOUS
  <2>2. PICK m \in Bad : \A k \in Bad : m <= k
    BY <2>1, NatMin
  <2>3. m # 0
    <3>1. Upto(0) = {{}}
      <4>1. \A s \in SUBSET S : Cardinality(s) <= 0 <=> s = {}
        BY <1>0, FS_EmptySet
      <4>. QED BY <4>1
    <3>2. FoldUpto(0, [s \in Upto(0) |-> 0])
      BY <3>1
    <3>. QED BY <3>2, <2>2
  <2>4. m - 1 \in Nat /\ m - 1 \notin Bad
    <3>1. m \in Nat
      BY <2>2
    <3>. HIDE DEF Bad
    <3>. QED BY <3>1, <2>2, <2>3
  <2>5. PICK g : FoldUpto(m - 1, g)
    BY <2>4
  <2> DEFINE h == [s \in Upto(m) |->
                     IF s = {} THEN 0 ELSE f[Pick(s)] + g[s \ {Pick(s)}]]
  <2>6. \A s \in Upto(m - 1) : s \in Upto(m) /\ h[s] = g[s]
    <3>1. \A s \in Upto(m - 1) : s \in Upto(m)
      BY <1>0, <2>4
    <3>. QED BY <3>1, <2>5
  <2>7. \A s \in Upto(m) : s # {} => s \ {Pick(s)} \in Upto(m - 1)
    BY <1>0, <2>2, PickShrinks
  <2>8. \A s \in Upto(m) : s # {} => h[s] = f[Pick(s)] + h[s \ {Pick(s)}]
    BY <2>6, <2>7
  <2>9. h = [s \in Upto(m) |-> IF s = {} THEN 0 ELSE f[Pick(s)] + h[s \ {Pick(s)}]]
    BY <2>8
  <2>. QED BY <2>9, <2>2
<1>2. Cardinality(S) \in Nat /\ Upto(Cardinality(S)) = SUBSET S
  BY FS_Subset, FS_CardinalityType
<1>3. PICK g : FoldUpto(Cardinality(S), g)
  BY <1>1, <1>2
<1>. QED BY <1>2, <1>3 DEF IsFold

\* Two folds agree wherever both are defined: over S and over a subset of S.
LEMMA FoldUnique ==
  ASSUME NEW f, NEW S, IsFiniteSet(S), NEW T \in SUBSET S,
         NEW a, IsFold(f, S, a), NEW b, IsFold(f, T, b)
  PROVE  a[T] = b[T]
<1> DEFINE Bad == {n \in Nat : \E s \in SUBSET T : Cardinality(s) = n /\ a[s] # b[s]}
<1>0. \A s \in SUBSET T : IsFiniteSet(s) /\ Cardinality(s) \in Nat
  BY FS_Subset, FS_CardinalityType
<1>1. Bad = {}
  <2>1. SUFFICES ASSUME Bad # {} PROVE FALSE
    OBVIOUS
  <2>2. PICK m \in Bad : \A k \in Bad : m <= k
    BY <2>1, NatMin
  <2>3. PICK s \in SUBSET T : Cardinality(s) = m /\ a[s] # b[s]
    BY <2>2
  <2>4. a[s] = (IF s = {} THEN 0 ELSE f[Pick(s)] + a[s \ {Pick(s)}])
    BY DEF IsFold
  <2>5. b[s] = (IF s = {} THEN 0 ELSE f[Pick(s)] + b[s \ {Pick(s)}])
    BY DEF IsFold
  <2>6. s # {} /\ a[s \ {Pick(s)}] # b[s \ {Pick(s)}]
    BY <2>3, <2>4, <2>5
  <2>7. Cardinality(s \ {Pick(s)}) = m - 1 /\ m - 1 \in Nat
    BY <1>0, <2>3, <2>6, PickShrinks
  <2>8. m - 1 \in Bad
    BY <2>6, <2>7
  <2>9. m \in Nat
    BY <2>2
  <2>. HIDE DEF Bad
  <2>. QED BY <2>2, <2>8, <2>9
<1>. QED BY <1>0, <1>1

\* The recursive equation of the sum.
THEOREM SumUnfold ==
  ASSUME NEW f, NEW S, IsFiniteSet(S)
  PROVE  SumFunctionOnSet(f, S) =
           IF S = {} THEN 0 ELSE f[Pick(S)] + SumFunctionOnSet(f, S \ {Pick(S)})
<1> DEFINE a == CHOOSE it : IsFold(f, S, it)
           R == S \ {Pick(S)}
           b == CHOOSE it : IsFold(f, R, it)
<1>1. IsFiniteSet(R) /\ R \in SUBSET S
  BY FS_Subset
<1>2. IsFold(f, S, a)
  BY FoldExists
<1>3. IsFold(f, R, b)
  BY <1>1, FoldExists
<1>4. SumFunctionOnSet(f, S) = a[S] /\ SumFunctionOnSet(f, R) = b[R]
  BY SumAsFold
<1> HIDE DEF a, b
<1>5. a[R] = b[R]
  BY <1>1, <1>2, <1>3, FoldUnique
<1>6. a[S] = (IF S = {} THEN 0 ELSE f[Pick(S)] + a[R])
  BY <1>2 DEF IsFold
<1>. QED BY <1>4, <1>5, <1>6

\* The sum of no entries.
LEMMA SumEmpty == \A f : SumFunctionOnSet(f, {}) = 0
BY SumUnfold, FS_EmptySet

\* A sum of naturals is a natural number.
THEOREM SumNat ==
  ASSUME NEW S, IsFiniteSet(S), NEW f, \A x \in S : f[x] \in Nat
  PROVE  SumFunctionOnSet(f, S) \in Nat
<1> DEFINE Sum(s) == SumFunctionOnSet(f, s)
           Bad == {n \in Nat : \E s \in SUBSET S : Cardinality(s) = n /\ Sum(s) \notin Nat}
<1>0. \A s \in SUBSET S : IsFiniteSet(s) /\ Cardinality(s) \in Nat
  BY FS_Subset, FS_CardinalityType
<1>1. Bad = {}
  <2>1. SUFFICES ASSUME Bad # {} PROVE FALSE
    OBVIOUS
  <2>2. PICK m \in Bad : \A k \in Bad : m <= k
    BY <2>1, NatMin
  <2>3. PICK s \in SUBSET S : Cardinality(s) = m /\ Sum(s) \notin Nat
    BY <2>2
  <2>4. Sum(s) = IF s = {} THEN 0 ELSE f[Pick(s)] + Sum(s \ {Pick(s)})
    BY <1>0, SumUnfold
  <2>5. s # {}
    BY <2>3, <2>4
  <2>6. Pick(s) \in S
    BY <2>5, PickIn
  <2>7. Sum(s \ {Pick(s)}) \notin Nat
    BY <2>3, <2>4, <2>5, <2>6
  <2>8. Cardinality(s \ {Pick(s)}) = m - 1 /\ m - 1 \in Nat
    BY <1>0, <2>3, <2>5, PickShrinks
  <2>9. m - 1 \in Bad
    BY <2>7, <2>8
  <2>10. m \in Nat
    BY <2>2
  <2>. HIDE DEF Bad
  <2>. QED BY <2>2, <2>9, <2>10
<1>. QED BY <1>0, <1>1

\* Two functions that agree on a set have the same sum over it.
THEOREM SumSame ==
  ASSUME NEW S, IsFiniteSet(S), NEW f, NEW g, \A y \in S : g[y] = f[y]
  PROVE  SumFunctionOnSet(g, S) = SumFunctionOnSet(f, S)
<1> DEFINE F(s) == SumFunctionOnSet(f, s)
           G(s) == SumFunctionOnSet(g, s)
           Bad == {n \in Nat : \E s \in SUBSET S : Cardinality(s) = n /\ G(s) # F(s)}
<1>0. \A s \in SUBSET S : IsFiniteSet(s) /\ Cardinality(s) \in Nat
  BY FS_Subset, FS_CardinalityType
<1>1. Bad = {}
  <2>1. SUFFICES ASSUME Bad # {} PROVE FALSE
    OBVIOUS
  <2>2. PICK m \in Bad : \A k \in Bad : m <= k
    BY <2>1, NatMin
  <2>3. PICK s \in SUBSET S : Cardinality(s) = m /\ G(s) # F(s)
    BY <2>2
  <2>4. /\ F(s) = IF s = {} THEN 0 ELSE f[Pick(s)] + F(s \ {Pick(s)})
        /\ G(s) = IF s = {} THEN 0 ELSE g[Pick(s)] + G(s \ {Pick(s)})
    BY <1>0, SumUnfold
  <2>5. s # {}
    BY <2>3, <2>4
  <2>6. g[Pick(s)] = f[Pick(s)]
    BY <2>5, PickIn
  <2>7. G(s \ {Pick(s)}) # F(s \ {Pick(s)})
    BY <2>3, <2>4, <2>5, <2>6
  <2>8. Cardinality(s \ {Pick(s)}) = m - 1 /\ m - 1 \in Nat
    BY <1>0, <2>3, <2>5, PickShrinks
  <2>9. m - 1 \in Bad
    BY <2>7, <2>8
  <2>10. m \in Nat
    BY <2>2
  <2>. HIDE DEF Bad
  <2>. QED BY <2>2, <2>9, <2>10
<1>. QED BY <1>0, <1>1

\* Changing the entry at x by d changes the sum by d.
THEOREM SumChange ==
  ASSUME NEW S, IsFiniteSet(S),
         NEW f, \A y \in S : f[y] \in Int,
         NEW x \in S, NEW d \in Int,
         NEW g, \A y \in S \ {x} : g[y] = f[y], g[x] = f[x] + d
  PROVE  /\ SumFunctionOnSet(f, S) \in Int
         /\ SumFunctionOnSet(g, S) = SumFunctionOnSet(f, S) + d
<1> DEFINE F(s) == SumFunctionOnSet(f, s)
           G(s) == SumFunctionOnSet(g, s)
           Good(s) == F(s) \in Int /\ G(s) = F(s) + (IF x \in s THEN d ELSE 0)
           Bad == {n \in Nat : \E s \in SUBSET S : Cardinality(s) = n /\ ~ Good(s)}
<1>0. \A s \in SUBSET S : IsFiniteSet(s) /\ Cardinality(s) \in Nat
  BY FS_Subset, FS_CardinalityType
<1>1. Bad = {}
  <2>1. SUFFICES ASSUME Bad # {} PROVE FALSE
    OBVIOUS
  <2>2. PICK m \in Bad : \A k \in Bad : m <= k
    BY <2>1, NatMin
  <2>3. PICK s \in SUBSET S : Cardinality(s) = m /\ ~ Good(s)
    BY <2>2
  <2> DEFINE r == s \ {Pick(s)}
  <2>4. /\ F(s) = IF s = {} THEN 0 ELSE f[Pick(s)] + F(r)
        /\ G(s) = IF s = {} THEN 0 ELSE g[Pick(s)] + G(r)
    BY <1>0, SumUnfold
  <2>5. s # {}
    BY <2>3, <2>4
  <2>6. Pick(s) \in s /\ Pick(s) \in S
    BY <2>5, PickIn
  <2>7. ~ Good(r)
    <3>1. SUFFICES ASSUME Good(r) PROVE Good(s)
      BY <2>3
    <3>2. x \in s <=> x \in r \/ x = Pick(s)
      BY <2>6
    <3>3. g[Pick(s)] = f[Pick(s)] + (IF x = Pick(s) THEN d ELSE 0) /\ f[Pick(s)] \in Int
      BY <2>6
    <3>4. x = Pick(s) => x \notin r
      OBVIOUS
    <3>. HIDE DEF F, G, r
    <3>. QED BY <3>1, <3>2, <3>3, <3>4, <2>4, <2>5
  <2>8. Cardinality(r) = m - 1 /\ m - 1 \in Nat
    BY <1>0, <2>3, <2>5, PickShrinks
  <2>9. m - 1 \in Bad
    BY <2>7, <2>8
  <2>10. m \in Nat
    BY <2>2
  <2>. HIDE DEF Bad
  <2>. QED BY <2>2, <2>9, <2>10
<1>2. Good(S)
  BY <1>0, <1>1, FS_Subset
<1>. QED BY <1>2

\* One entry is at most the sum, when no entry is negative.
COROLLARY SumAtLeastEntry ==
  ASSUME NEW S, IsFiniteSet(S), NEW f, \A y \in S : f[y] \in Nat, NEW x \in S
  PROVE  f[x] <= SumFunctionOnSet(f, S)
<1>1. PICK g : g = [y \in S |-> IF y = x THEN 0 ELSE f[y]]
  OBVIOUS
<1>2. \A y \in S : g[y] \in Nat
  BY <1>1
<1>3. PICK d \in Int : d = - f[x]
  OBVIOUS
<1>4. (\A y \in S \ {x} : g[y] = f[y]) /\ g[x] = f[x] + d
  BY <1>1, <1>3
<1>5. SumFunctionOnSet(g, S) = SumFunctionOnSet(f, S) + d /\ SumFunctionOnSet(f, S) \in Int
  BY ONLY <1>4, SumChange, IsFiniteSet(S), \A y \in S : f[y] \in Int, x \in S, d \in Int
<1>6. SumFunctionOnSet(g, S) \in Nat
  BY ONLY <1>2, SumNat, IsFiniteSet(S)
<1>. QED BY <1>3, <1>5, <1>6

\* A sum of zeros is zero.
LEMMA SumZero ==
  ASSUME NEW S, IsFiniteSet(S), NEW f, \A y \in S : f[y] = 0
  PROVE  SumFunctionOnSet(f, S) = 0
<1> DEFINE Sum(s) == SumFunctionOnSet(f, s)
           Bad == {n \in Nat : \E s \in SUBSET S : Cardinality(s) = n /\ Sum(s) # 0}
<1>0. \A s \in SUBSET S : IsFiniteSet(s) /\ Cardinality(s) \in Nat
  BY FS_Subset, FS_CardinalityType
<1>1. Bad = {}
  <2>1. SUFFICES ASSUME Bad # {} PROVE FALSE
    OBVIOUS
  <2>2. PICK m \in Bad : \A k \in Bad : m <= k
    BY <2>1, NatMin
  <2>3. PICK s \in SUBSET S : Cardinality(s) = m /\ Sum(s) # 0
    BY <2>2
  <2>4. Sum(s) = IF s = {} THEN 0 ELSE f[Pick(s)] + Sum(s \ {Pick(s)})
    BY <1>0, SumUnfold
  <2>5. s # {}
    BY <2>3, <2>4
  <2>6. f[Pick(s)] = 0
    BY <2>5, PickIn
  <2>7. Sum(s \ {Pick(s)}) # 0
    BY <2>3, <2>4, <2>5, <2>6
  <2>8. Cardinality(s \ {Pick(s)}) = m - 1 /\ m - 1 \in Nat
    BY <1>0, <2>3, <2>5, PickShrinks
  <2>9. m - 1 \in Bad
    BY <2>7, <2>8
  <2>10. m \in Nat
    BY <2>2
  <2>. HIDE DEF Bad
  <2>. QED BY <2>2, <2>9, <2>10
<1>. QED BY <1>0, <1>1

\* A sum of integers is an integer.
LEMMA SumInt ==
  ASSUME NEW S, IsFiniteSet(S), NEW f, \A y \in S : f[y] \in Int
  PROVE  SumFunctionOnSet(f, S) \in Int
<1>1. CASE S = {}
  BY <1>1, SumEmpty
<1>2. CASE S # {}
  <2>1. PICK x \in S : TRUE
    BY <1>2
  <2>2. PICK d \in Int : d = 0
    OBVIOUS
  <2>3. (\A y \in S \ {x} : f[y] = f[y]) /\ f[x] = f[x] + d
    BY <2>2
  <2>. QED BY ONLY <2>3, SumChange, IsFiniteSet(S), \A y \in S : f[y] \in Int, x \in S, d \in Int
<1>. QED BY <1>1, <1>2

\* Any element may be taken out first, not just the one the fold picks.
THEOREM SumRemove ==
  ASSUME NEW S, IsFiniteSet(S), NEW f, \A y \in S : f[y] \in Int, NEW x \in S
  PROVE  /\ SumFunctionOnSet(f, S \ {x}) \in Int
         /\ SumFunctionOnSet(f, S) = f[x] + SumFunctionOnSet(f, S \ {x})
<1> DEFINE F(s) == SumFunctionOnSet(f, s)
           Good(s) == \A z \in s : F(s) = f[z] + F(s \ {z})
           Bad == {n \in Nat : \E s \in SUBSET S : Cardinality(s) = n /\ ~ Good(s)}
<1>0. \A s \in SUBSET S : IsFiniteSet(s) /\ Cardinality(s) \in Nat /\ F(s) \in Int
  <2>1. \A s \in SUBSET S : IsFiniteSet(s) /\ Cardinality(s) \in Nat
    BY FS_Subset, FS_CardinalityType
  <2>2. \A s \in SUBSET S : F(s) \in Int
    BY <2>1, SumInt
  <2>. QED BY <2>1, <2>2
<1>1. Bad = {}
  <2>1. SUFFICES ASSUME Bad # {} PROVE FALSE
    OBVIOUS
  <2>2. PICK m \in Bad : \A k \in Bad : m <= k
    BY <2>1, NatMin
  <2>3. PICK s \in SUBSET S : Cardinality(s) = m /\ ~ Good(s)
    BY <2>2
  <2>4. PICK z \in s : F(s) # f[z] + F(s \ {z})
    BY <2>3
  <2>5. PICK q : q = Pick(s)
    OBVIOUS
  <2>6. q \in s /\ F(s) = f[q] + F(s \ {q})
    BY <1>0, <2>4, <2>5, SumUnfold, PickIn
  <2>7. q # z
    BY <2>4, <2>6
  <2>8. \A t \in SUBSET S : Cardinality(t) = m - 1 => Good(t)
    <3>1. \A t \in SUBSET S : Cardinality(t) \in Nat
      BY <1>0
    <3>2. \A t \in SUBSET S : ~ Good(t) => Cardinality(t) \in Bad
      BY <3>1
    <3>3. m \in Nat
      BY <2>2
    <3>. HIDE DEF Bad, Good
    <3>. QED BY <2>2, <3>1, <3>2, <3>3
  <2>9. Cardinality(s \ {q}) = m - 1 /\ Cardinality(s \ {z}) = m - 1
    BY <1>0, <2>3, <2>6, FS_RemoveElement
  <2>10. Good(s \ {q}) /\ Good(s \ {z})
    <3>1. s \ {q} \in SUBSET S /\ s \ {z} \in SUBSET S
      OBVIOUS
    <3>. HIDE DEF Good
    <3>. QED BY <2>8, <2>9, <3>1
  <2>11. F(s \ {q}) = f[z] + F((s \ {q}) \ {z}) /\ F(s \ {z}) = f[q] + F((s \ {z}) \ {q})
    BY <2>6, <2>7, <2>10
  <2>12. (s \ {q}) \ {z} = (s \ {z}) \ {q} /\ (s \ {z}) \ {q} \in SUBSET S
    OBVIOUS
  <2>13. PICK u : u = F((s \ {z}) \ {q})
    OBVIOUS
  <2>14. u \in Int /\ f[z] \in Int /\ f[q] \in Int
    BY <1>0, <2>6, <2>12, <2>13
  <2>15. F(s) = f[q] + (f[z] + u) /\ F(s \ {z}) = f[q] + u
    BY <2>6, <2>11, <2>12, <2>13
  <2>. HIDE DEF F
  <2>. QED BY <2>4, <2>14, <2>15
<1>2. Good(S)
  BY <1>0, <1>1, FS_Subset
<1>. QED BY <1>0, <1>2

\* Adding an element adds its entry.
COROLLARY SumAdd ==
  ASSUME NEW S, IsFiniteSet(S), NEW x, x \notin S,
         NEW f, \A y \in S \cup {x} : f[y] \in Int
  PROVE  /\ SumFunctionOnSet(f, S) \in Int
         /\ SumFunctionOnSet(f, S \cup {x}) = SumFunctionOnSet(f, S) + f[x]
<1>1. IsFiniteSet(S \cup {x}) /\ x \in S \cup {x}
  BY FS_AddElement
<1>2. (S \cup {x}) \ {x} = S
  OBVIOUS
<1>3. PICK T : T = S \cup {x}
  OBVIOUS
<1>4. IsFiniteSet(T) /\ x \in T /\ T \ {x} = S /\ \A y \in T : f[y] \in Int
  BY <1>1, <1>2, <1>3
<1>5. SumFunctionOnSet(f, T \ {x}) \in Int
      /\ SumFunctionOnSet(f, T) = f[x] + SumFunctionOnSet(f, T \ {x})
  BY <1>4, SumRemove
<1>6. f[x] \in Int
  BY <1>4
<1>7. SumFunctionOnSet(f, S) \in Int /\ SumFunctionOnSet(f, T) = f[x] + SumFunctionOnSet(f, S)
  BY <1>4, <1>5
<1>8. PICK u \in Int : u = SumFunctionOnSet(f, S)
  BY <1>7
<1>9. PICK v \in Int : v = f[x]
  BY <1>6
<1>10. SumFunctionOnSet(f, T) = v + u /\ v + u = u + v
  BY <1>7, <1>8, <1>9
<1>. QED BY ONLY <1>3, <1>7, <1>8, <1>9, <1>10

\* The sum over a smaller set is not larger, when no entry is negative.
THEOREM SumSubset ==
  ASSUME NEW S, IsFiniteSet(S), NEW f, \A y \in S : f[y] \in Nat, NEW T \in SUBSET S
  PROVE  SumFunctionOnSet(f, T) <= SumFunctionOnSet(f, S)
<1> DEFINE F(s) == SumFunctionOnSet(f, s)
           Bad == {n \in Nat : \E s \in SUBSET S :
                     T \subseteq s /\ Cardinality(s) = n /\ ~ F(T) <= F(s)}
<1>0. \A s \in SUBSET S : IsFiniteSet(s) /\ Cardinality(s) \in Nat /\ F(s) \in Nat
  <2>1. \A s \in SUBSET S : IsFiniteSet(s) /\ Cardinality(s) \in Nat
    BY FS_Subset, FS_CardinalityType
  <2>2. \A s \in SUBSET S : F(s) \in Nat
    BY <2>1, SumNat
  <2>. QED BY <2>1, <2>2
<1>1. Bad = {}
  <2>1. SUFFICES ASSUME Bad # {} PROVE FALSE
    OBVIOUS
  <2>2. PICK m \in Bad : \A k \in Bad : m <= k
    BY <2>1, NatMin
  <2>3. PICK s \in SUBSET S : T \subseteq s /\ Cardinality(s) = m /\ ~ F(T) <= F(s)
    BY <2>2
  <2>4. F(T) \in Nat /\ F(s) \in Nat /\ IsFiniteSet(s)
    BY <1>0
  <2>5. s # T
    <3>. HIDE DEF F
    <3>. QED BY <2>3, <2>4
  <2>6. PICK z \in s : z \notin T
    BY <2>3, <2>5
  <2>7. f[z] \in Nat /\ \A y \in s : f[y] \in Int
    BY <2>6
  <2>8. F(s) = f[z] + F(s \ {z})
    BY <2>4, <2>6, <2>7, SumRemove
  <2>9. s \ {z} \in SUBSET S /\ T \subseteq s \ {z} /\ F(s \ {z}) \in Nat
    BY <1>0, <2>3, <2>6
  <2>10. ~ F(T) <= F(s \ {z})
    <3>. HIDE DEF F
    <3>. QED BY <2>3, <2>4, <2>7, <2>8, <2>9
  <2>11. Cardinality(s \ {z}) = m - 1 /\ Cardinality(s \ {z}) \in Nat
    BY <1>0, <2>3, <2>4, <2>6, <2>9, FS_RemoveElement
  <2>12. m - 1 \in Bad
    BY <2>9, <2>10, <2>11
  <2>13. m \in Nat
    BY <2>2
  <2>. HIDE DEF Bad
  <2>. QED BY <2>2, <2>12, <2>13
<1>2. F(T) <= F(S)
  BY <1>0, <1>1
<1>. QED BY <1>2

\* Entries that all change by a multiple of their weight: the sum changes by
\* that multiple of the weights together.
THEOREM SumLinear ==
  ASSUME NEW S, IsFiniteSet(S), NEW c \in Int,
         NEW f, \A y \in S : f[y] \in Int, NEW w, \A y \in S : w[y] \in Int,
         NEW g, \A y \in S : g[y] = f[y] + c * w[y]
  PROVE  /\ SumFunctionOnSet(f, S) \in Int /\ SumFunctionOnSet(w, S) \in Int
         /\ SumFunctionOnSet(g, S) = SumFunctionOnSet(f, S) + c * SumFunctionOnSet(w, S)
<1> DEFINE F(s) == SumFunctionOnSet(f, s)
           G(s) == SumFunctionOnSet(g, s)
           W(s) == SumFunctionOnSet(w, s)
           Bad == {n \in Nat : \E s \in SUBSET S : Cardinality(s) = n /\ G(s) # F(s) + c * W(s)}
<1>0. \A s \in SUBSET S : IsFiniteSet(s) /\ Cardinality(s) \in Nat /\ F(s) \in Int /\ W(s) \in Int
  <2>1. \A s \in SUBSET S : IsFiniteSet(s) /\ Cardinality(s) \in Nat
    BY FS_Subset, FS_CardinalityType
  <2>2. \A s \in SUBSET S : F(s) \in Int /\ W(s) \in Int
    BY <2>1, SumInt
  <2>. QED BY <2>1, <2>2
<1>1. Bad = {}
  <2>1. SUFFICES ASSUME Bad # {} PROVE FALSE
    OBVIOUS
  <2>2. PICK m \in Bad : \A k \in Bad : m <= k
    BY <2>1, NatMin
  <2>3. PICK s \in SUBSET S : Cardinality(s) = m /\ G(s) # F(s) + c * W(s)
    BY <2>2
  <2>4. PICK q : q = Pick(s)
    OBVIOUS
  <2>5. PICK r : r = s \ {q}
    OBVIOUS
  <2>6. /\ F(s) = IF s = {} THEN 0 ELSE f[q] + F(r)
        /\ G(s) = IF s = {} THEN 0 ELSE g[q] + G(r)
        /\ W(s) = IF s = {} THEN 0 ELSE w[q] + W(r)
    BY <1>0, <2>4, <2>5, SumUnfold
  <2>7. s # {}
    BY <2>3, <2>6
  <2>8. q \in S /\ f[q] \in Int /\ w[q] \in Int /\ g[q] = f[q] + c * w[q]
    BY <2>4, <2>7, PickIn
  <2>9. F(r) \in Int /\ W(r) \in Int /\ r \in SUBSET S
    BY <1>0, <2>5
  <2>10. G(r) # F(r) + c * W(r)
    <3>1. SUFFICES ASSUME G(r) = F(r) + c * W(r) PROVE FALSE
      OBVIOUS
    <3>2. PICK a \in Int, b \in Int, u \in Int, v \in Int :
            a = F(r) /\ b = W(r) /\ u = f[q] /\ v = w[q]
      BY <2>8, <2>9
    <3>3. G(s) = (u + c * v) + (a + c * b) /\ F(s) = u + a /\ W(s) = v + b
      BY <2>6, <2>7, <2>8, <3>1, <3>2
    <3>4. (u + c * v) + (a + c * b) = (u + a) + c * (v + b)
      BY <3>2
    <3>. HIDE DEF F, G, W
    <3>. QED BY ONLY <2>3, <3>3, <3>4
  <2>11. Cardinality(r) = m - 1 /\ m - 1 \in Nat
    BY <1>0, <2>3, <2>4, <2>5, <2>7, PickShrinks
  <2>12. m - 1 \in Bad
    BY <2>9, <2>10, <2>11
  <2>13. m \in Nat
    BY <2>2
  <2>. HIDE DEF Bad
  <2>. QED BY <2>2, <2>12, <2>13
<1>. QED BY <1>0, <1>1

\* The sum over two disjoint sets.
THEOREM SumUnion ==
  ASSUME NEW S, IsFiniteSet(S), NEW T, IsFiniteSet(T), S \cap T = {},
         NEW f, \A y \in S \cup T : f[y] \in Int
  PROVE  SumFunctionOnSet(f, S \cup T) = SumFunctionOnSet(f, S) + SumFunctionOnSet(f, T)
<1> DEFINE F(s) == SumFunctionOnSet(f, s)
           Bad == {n \in Nat : \E s \in SUBSET T : Cardinality(s) = n /\ F(S \cup s) # F(S) + F(s)}
<1>0. \A s \in SUBSET T : IsFiniteSet(s) /\ IsFiniteSet(S \cup s) /\ Cardinality(s) \in Nat
                          /\ F(s) \in Int /\ F(S \cup s) \in Int
  <2>1. \A s \in SUBSET T : IsFiniteSet(s) /\ Cardinality(s) \in Nat
    BY FS_Subset, FS_CardinalityType
  <2>2. \A s \in SUBSET T : IsFiniteSet(S \cup s)
    BY <2>1, FS_Union
  <2>3. \A s \in SUBSET T : F(s) \in Int /\ F(S \cup s) \in Int
    BY <2>1, <2>2, SumInt
  <2>. QED BY <2>1, <2>2, <2>3
<1>a. F(S) \in Int
  BY SumInt
<1>1. Bad = {}
  <2>1. SUFFICES ASSUME Bad # {} PROVE FALSE
    OBVIOUS
  <2>2. PICK m \in Bad : \A k \in Bad : m <= k
    BY <2>1, NatMin
  <2>3. PICK s \in SUBSET T : Cardinality(s) = m /\ F(S \cup s) # F(S) + F(s)
    BY <2>2
  <2>4. s # {}
    <3>1. SUFFICES ASSUME s = {} PROVE FALSE
      OBVIOUS
    <3>2. F(s) = 0
      BY <3>1, SumEmpty
    <3>3. S \cup s = S
      BY <3>1
    <3>4. F(S) = F(S) + 0
      <4>. HIDE DEF F
      <4>. QED BY <1>a
    <3>. QED BY <2>3, <3>2, <3>3, <3>4
  <2>5. PICK z \in s : TRUE
    BY <2>4
  <2>6. PICK r : r = s \ {z}
    OBVIOUS
  <2>7. r \in SUBSET T /\ (S \cup s) \ {z} = S \cup r /\ f[z] \in Int
    BY <2>5, <2>6
  <2>8. F(s) = f[z] + F(r)
    <3>1. IsFiniteSet(s) /\ (\A y \in s : f[y] \in Int) /\ z \in s
      BY <1>0, <2>5
    <3>2. F(s) = f[z] + F(s \ {z})
      BY ONLY <3>1, SumRemove
    <3>. QED BY <2>6, <3>2
  <2>9. F(S \cup s) = f[z] + F(S \cup r)
    <3>1. PICK V : V = S \cup s
      OBVIOUS
    <3>2. IsFiniteSet(V) /\ (\A y \in V : f[y] \in Int) /\ z \in V
      BY <1>0, <2>5, <3>1
    <3>3. F(V) = f[z] + F(V \ {z})
      BY ONLY <3>2, SumRemove
    <3>. QED BY <2>7, <3>1, <3>3
  <2>10. F(r) \in Int /\ F(S \cup r) \in Int /\ F(s) \in Int
    BY <1>0, <2>7
  <2>11. F(S \cup r) # F(S) + F(r)
    <3>. HIDE DEF F
    <3>. QED BY <1>a, <2>3, <2>7, <2>8, <2>9, <2>10
  <2>12. Cardinality(r) = m - 1 /\ Cardinality(r) \in Nat
    BY <1>0, <2>3, <2>5, <2>6, <2>7, FS_RemoveElement
  <2>13. m - 1 \in Bad
    BY <2>7, <2>11, <2>12
  <2>14. m \in Nat
    BY <2>2
  <2>. HIDE DEF Bad
  <2>. QED BY <2>2, <2>13, <2>14
<1>2. F(S \cup T) = F(S) + F(T)
  BY <1>0, <1>1
<1>. QED BY <1>2

-----------------------------------------------------------------------------
(* Quotients that round down.                                              *)

(* The quotient of naturals is a natural.                                  *)
LEMMA QuotientNat ==
  ASSUME NEW a \in Nat, NEW k \in Nat \ {0}
  PROVE  a \div k \in Nat
OBVIOUS

(* A larger number has no smaller quotient.                                *)
LEMMA QuotientMonotone ==
  ASSUME NEW a \in Nat, NEW b \in Nat, a <= b, NEW k \in Nat \ {0}
  PROVE  a \div k <= b \div k
<1>1. PICK q \in Nat : q = a \div k
  BY QuotientNat
<1>2. PICK p \in Nat : p = b \div k
  BY QuotientNat
<1>3. k * q <= a
  BY <1>1
<1>4. b < k * (p + 1)
  BY <1>2
<1>5. k * q < k * (p + 1)
  BY <1>3, <1>4
<1>6. q < p + 1
  BY <1>5
<1>. QED BY <1>1, <1>2, <1>6
=============================================================================
