------------------------------ MODULE SumTheorems ------------------------------
(***************************************************************************)
(* Least and greatest elements of sets of numbers, and sums over finite    *)
(* sets, as the fold SumFunctionOnSet of the community modules computes    *)
(* them: what the proofs about balances and totals need.  The induction    *)
(* goes over the strict subsets of a finite set, which the library proves  *)
(* well-founded.                                                           *)
(***************************************************************************)
EXTENDS Integers, FiniteSets, Functions, FiniteSetTheorems, WellFoundedInduction, TLAPS

\* A set of natural numbers that is not empty has a least element (from the
\* library's well-founded order).
LEMMA Smallest ==
  ASSUME NEW S \in SUBSET Nat, S # {}
  PROVE  \E n \in S : \A m \in S : n <= m
  <1>1. IsWellFoundedOn(OpToRel(<, Nat), Nat)
    BY NatLessThanWellFounded
  <1>2. PICK n \in S : \A m \in S : ~ (<<m, n>> \in OpToRel(<, Nat))
    BY <1>1, WFMin
  <1>3. \A m \in S : ~(m < n)
    BY <1>2 DEF OpToRel
  <1> QED
    BY <1>3

\* And a greatest one, when it is bounded.
LEMMA Greatest ==
  ASSUME NEW S \in SUBSET Nat, S # {}, NEW b \in Nat, \A m \in S : m <= b
  PROVE  \E n \in S : \A m \in S : m <= n
  <1> DEFINE T == {b - m : m \in S}
  <1>1. \A m \in S : b - m \in Nat
    OBVIOUS
  <1>2. T \in SUBSET Nat
    BY <1>1
  <1>3. T # {}
    <2>1. PICK m \in S : TRUE
      OBVIOUS
    <2>2. b - m \in T
      BY <2>1
    <2> QED
      BY <2>2
  <1>4. \A m \in S : b - m \in T
    OBVIOUS
  <1>5. \A k \in T : \E m \in S : k = b - m
    OBVIOUS
  <1> HIDE DEF T
  <1>6. PICK k \in T : \A l \in T : k <= l
    BY <1>2, <1>3, Smallest
  <1>7. PICK n \in S : k = b - n
    BY <1>5, <1>6
  <1>8. \A m \in S : b - n <= b - m
    BY <1>4, <1>6, <1>7
  <1> QED
    BY <1>8

--------------------------------------------------------------------------------
\* The sum of f over S.
SumOver(f, S) == SumFunctionOnSet(f, S)

\* The element the fold takes first.
Some(s) == CHOOSE x \in s : TRUE

\* g is the recursive function the fold chooses: the sums over subsets of S.
Sums(f, S, g) ==
    g = [s \in SUBSET S |-> IF s = {} THEN 0 ELSE f[Some(s)] + g[s \ {Some(s)}]]

\* The sum, as the fold of the community modules defines it: the value at S of
\* the recursive function of Sums, by an arbitrary choice of it.
LEMMA SumOverDef ==
    ASSUME NEW f, NEW S
    PROVE  SumOver(f, S) = (CHOOSE g : Sums(f, S, g))[S]
BY DEF SumOver, SumFunctionOnSet, FoldFunctionOnSet, MapThenFoldSet, Sums, Some

\* Induction over subsets: a nonempty set of subsets of S has a minimal member.
LEMMA SmallestSubset ==
    ASSUME NEW S, IsFiniteSet(S), NEW T \in SUBSET SUBSET S, T # {}
    PROVE  \E x \in T : \A y \in T : ~ (y \subseteq x /\ y # x)
<1>1. IsWellFoundedOn(StrictSubsetOrdering(S), FiniteSubsetsOf(S))
  BY FS_StrictSubsetOrderingWellFounded
<1>2. FiniteSubsetsOf(S) = SUBSET S
  BY FS_FiniteSubsetsOfFinite
<1>3. PICK x \in T : \A y \in T : ~ (<<y, x>> \in StrictSubsetOrdering(S))
  BY <1>1, <1>2, WFMin
<1>4. QED BY <1>3 DEF StrictSubsetOrdering

\* The recursive functions of two sets agree on the subsets of the smaller.
LEMMA SumsAgree ==
    ASSUME NEW f, NEW S, IsFiniteSet(S), NEW R \in SUBSET S,
           NEW g, Sums(f, S, g), NEW h, Sums(f, R, h)
    PROVE  \A s \in SUBSET R : g[s] = h[s]
<1> DEFINE T == {s \in SUBSET R : g[s] # h[s]}
<1>1. SUFFICES ASSUME T # {} PROVE FALSE
  OBVIOUS
<1>2. IsFiniteSet(R)
  BY FS_Subset
<1>3. PICK s \in T : \A y \in T : ~ (y \subseteq s /\ y # s)
  <2>1. T \in SUBSET SUBSET R
    OBVIOUS
  <2> HIDE DEF T
  <2>2. QED BY <1>1, <1>2, <2>1, SmallestSubset
<1>4. s \in SUBSET R /\ s \in SUBSET S /\ g[s] # h[s]
  BY <1>3
<1>5. /\ g[s] = IF s = {} THEN 0 ELSE f[Some(s)] + g[s \ {Some(s)}]
      /\ h[s] = IF s = {} THEN 0 ELSE f[Some(s)] + h[s \ {Some(s)}]
  BY <1>4 DEF Sums
<1>6. s # {}
  BY <1>4, <1>5
<1>7. Some(s) \in s
  BY <1>6 DEF Some
<1>8. g[s \ {Some(s)}] = h[s \ {Some(s)}]
  BY <1>3, <1>4, <1>7
<1>9. QED BY <1>4, <1>5, <1>8

\* Each finite set has its recursive function.
LEMMA SumsExist ==
    ASSUME NEW f, NEW S, IsFiniteSet(S)
    PROVE  \E g : Sums(f, S, g)
<1> DEFINE T == {s \in SUBSET S : ~ \E g : Sums(f, s, g)}
           H(t) == CHOOSE g : Sums(f, t, g)
<1>1. SUFFICES ASSUME T # {} PROVE FALSE
  OBVIOUS
<1>2. PICK x \in T : \A y \in T : ~ (y \subseteq x /\ y # x)
  <2>1. T \in SUBSET SUBSET S
    OBVIOUS
  <2> HIDE DEF T
  <2>2. QED BY <1>1, <2>1, SmallestSubset
<1>3. \A t \in SUBSET x : t # x => Sums(f, t, H(t))
  <2>1. TAKE t \in SUBSET x
  <2>2. HAVE t # x
  <2>3. t \in SUBSET S /\ t \notin T
    BY <1>2, <2>2
  <2>4. \E g : Sums(f, t, g)
    BY <2>3
  <2>5. QED BY <2>4
<1> DEFINE G == [s \in SUBSET x |->
                   IF s = {} THEN 0
                   ELSE f[Some(s)] + H(s \ {Some(s)})[s \ {Some(s)}]]
<1> HIDE DEF H
<1>4. \A s \in SUBSET x : s # {} => G[s \ {Some(s)}] = H(s \ {Some(s)})[s \ {Some(s)}]
  <2>1. TAKE s \in SUBSET x
  <2>2. HAVE s # {}
  <2>3. Some(s) \in s
    BY <2>2 DEF Some
  <2>4. PICK t : t = s \ {Some(s)}
    OBVIOUS
  <2>5. t \in SUBSET x /\ t # x
    BY <2>3, <2>4
  <2>6. Sums(f, t, H(t))
    BY <1>3, <2>5
  <2>7. H(t)[t] = IF t = {} THEN 0 ELSE f[Some(t)] + H(t)[t \ {Some(t)}]
    BY <2>6 DEF Sums
  <2>8. G[t] = IF t = {} THEN 0 ELSE f[Some(t)] + H(t \ {Some(t)})[t \ {Some(t)}]
    BY <2>5
  <2>9. t # {} => H(t)[t \ {Some(t)}] = H(t \ {Some(t)})[t \ {Some(t)}]
    <3>1. HAVE t # {}
    <3>2. Some(t) \in t
      BY <3>1 DEF Some
    <3>3. PICK r : r = t \ {Some(t)}
      OBVIOUS
    <3>4. r \in SUBSET t /\ r \in SUBSET x /\ r # x
      BY <2>5, <3>2, <3>3
    <3>5. Sums(f, r, H(r))
      BY <1>3, <3>4
    <3>6. IsFiniteSet(t)
      BY <1>2, <2>5, FS_Subset
    <3>7. H(t)[r] = H(r)[r]
      BY <2>6, <3>4, <3>5, <3>6, SumsAgree
    <3>8. QED BY <3>3, <3>7
  <2>10. QED BY <2>4, <2>7, <2>8, <2>9
<1>5. G = [s \in SUBSET x |-> IF s = {} THEN 0 ELSE f[Some(s)] + G[s \ {Some(s)}]]
  BY <1>4
<1>6. Sums(f, x, G)
  BY <1>5 DEF Sums
<1>7. QED BY <1>2, <1>6

\* Nothing sums up to 0.
LEMMA SumOfNothing ==
    ASSUME NEW f
    PROVE  SumOver(f, {}) = 0
<1>1. PICK g : Sums(f, {}, g)
  BY SumsExist, FS_EmptySet
<1>2. Sums(f, {}, CHOOSE h : Sums(f, {}, h))
  BY <1>1
<1>3. PICK k : k = CHOOSE h : Sums(f, {}, h)
  OBVIOUS
<1>4. k[{}] = 0
  BY <1>2, <1>3 DEF Sums
<1>5. QED BY <1>3, <1>4, SumOverDef

\* The sum takes the chosen element first, then the rest.
LEMMA SumPicksOne ==
    ASSUME NEW f, NEW S, IsFiniteSet(S), S # {}
    PROVE  SumOver(f, S) = f[Some(S)] + SumOver(f, S \ {Some(S)})
<1>1. PICK R : R = S \ {Some(S)}
  OBVIOUS
<1>2. R \in SUBSET S /\ IsFiniteSet(R)
  BY <1>1, FS_Subset
<1>3. PICK g : g = CHOOSE h : Sums(f, S, h)
  OBVIOUS
<1>4. PICK k : k = CHOOSE h : Sums(f, R, h)
  OBVIOUS
<1>5. Sums(f, S, g)
  BY <1>3, SumsExist
<1>6. Sums(f, R, k)
  BY <1>2, <1>4, SumsExist
<1>7. g[R] = k[R]
  BY <1>2, <1>5, <1>6, SumsAgree
<1>8. g[S] = f[Some(S)] + g[R]
  BY <1>1, <1>5 DEF Sums
<1>9. SumOver(f, S) = g[S] /\ SumOver(f, R) = k[R]
  BY <1>3, <1>4, SumOverDef
<1>10. QED BY <1>1, <1>7, <1>8, <1>9

\* A sum of integers is an integer.
LEMMA SumIsInt ==
    ASSUME NEW f, NEW S, IsFiniteSet(S), \A x \in S : f[x] \in Int
    PROVE  SumOver(f, S) \in Int
<1> DEFINE T == {s \in SUBSET S : SumOver(f, s) \notin Int}
<1>1. SUFFICES ASSUME T # {} PROVE FALSE
  OBVIOUS
<1>2. PICK s \in T : \A y \in T : ~ (y \subseteq s /\ y # s)
  <2>1. T \in SUBSET SUBSET S
    OBVIOUS
  <2> HIDE DEF T
  <2>2. QED BY <1>1, <2>1, SmallestSubset
<1>3. s \in SUBSET S /\ IsFiniteSet(s) /\ SumOver(f, s) \notin Int
  BY <1>2, FS_Subset
<1>4. s # {}
  BY <1>3, SumOfNothing
<1>5. Some(s) \in s
  BY <1>4 DEF Some
<1>6. SumOver(f, s \ {Some(s)}) \in Int
  BY <1>2, <1>3, <1>5
<1>7. f[Some(s)] \in Int
  BY <1>3, <1>5
<1>8. QED BY <1>3, <1>4, <1>6, <1>7, SumPicksOne

\* The choice does not matter: the sum takes any element first.
LEMMA SumTakesAny ==
    ASSUME NEW f, NEW S, IsFiniteSet(S), \A x \in S : f[x] \in Int, NEW e \in S
    PROVE  SumOver(f, S) = f[e] + SumOver(f, S \ {e})
<1> DEFINE T == {s \in SUBSET S : \E x \in s : SumOver(f, s) # f[x] + SumOver(f, s \ {x})}
<1>1. SUFFICES ASSUME T # {} PROVE FALSE
  OBVIOUS
<1>2. PICK s \in T : \A y \in T : ~ (y \subseteq s /\ y # s)
  <2>1. T \in SUBSET SUBSET S
    OBVIOUS
  <2> HIDE DEF T
  <2>2. QED BY <1>1, <2>1, SmallestSubset
<1>3. PICK x \in s : SumOver(f, s) # f[x] + SumOver(f, s \ {x})
  BY <1>2
<1>4. s \in SUBSET S /\ IsFiniteSet(s)
  BY <1>2, FS_Subset
<1>5. PICK p : p = Some(s)
  OBVIOUS
<1>6. p \in s
  BY <1>3, <1>5 DEF Some
<1>7. SumOver(f, s) = f[p] + SumOver(f, s \ {p})
  BY <1>3, <1>4, <1>5, SumPicksOne
<1>8. p # x
  BY <1>3, <1>7
<1>9. SumOver(f, s \ {p}) = f[x] + SumOver(f, (s \ {p}) \ {x})
  <2>1. s \ {p} \notin T /\ s \ {p} \in SUBSET S
    BY <1>2, <1>4, <1>6
  <2>2. x \in s \ {p}
    BY <1>3, <1>8
  <2>3. QED BY <2>1, <2>2
<1>10. SumOver(f, s \ {x}) = f[p] + SumOver(f, (s \ {x}) \ {p})
  <2>1. s \ {x} \notin T /\ s \ {x} \in SUBSET S
    BY <1>2, <1>3, <1>4
  <2>2. p \in s \ {x}
    BY <1>6, <1>8
  <2>3. QED BY <2>1, <2>2
<1>11. (s \ {p}) \ {x} = (s \ {x}) \ {p}
  OBVIOUS
<1>12. f[p] \in Int /\ f[x] \in Int /\ SumOver(f, (s \ {x}) \ {p}) \in Int
  <2>1. f[p] \in Int /\ f[x] \in Int
    BY <1>3, <1>4, <1>6
  <2>2. IsFiniteSet((s \ {x}) \ {p}) /\ \A y \in (s \ {x}) \ {p} : f[y] \in Int
    BY <1>4, FS_Subset
  <2>3. QED BY <2>1, <2>2, SumIsInt
<1>13. PICK k \in Int : k = SumOver(f, (s \ {x}) \ {p})
  BY <1>12
<1>14. SumOver(f, s) = f[p] + (f[x] + k)
  BY <1>7, <1>9, <1>11, <1>13
<1>15. SumOver(f, s \ {x}) = f[p] + k
  BY <1>10, <1>13
<1>16. f[p] + (f[x] + k) = f[x] + (f[p] + k)
  BY <1>12, <1>13
<1>17. QED BY <1>3, <1>14, <1>15, <1>16

\* Functions that agree on a set have one sum over it.
LEMMA SumsEqual ==
    ASSUME NEW f, NEW g, NEW S, IsFiniteSet(S), \A x \in S : f[x] = g[x]
    PROVE  SumOver(f, S) = SumOver(g, S)
<1> DEFINE T == {s \in SUBSET S : SumOver(f, s) # SumOver(g, s)}
<1>1. SUFFICES ASSUME T # {} PROVE FALSE
  OBVIOUS
<1>2. PICK s \in T : \A y \in T : ~ (y \subseteq s /\ y # s)
  <2>1. T \in SUBSET SUBSET S
    OBVIOUS
  <2> HIDE DEF T
  <2>2. QED BY <1>1, <2>1, SmallestSubset
<1>3. s \in SUBSET S /\ IsFiniteSet(s) /\ SumOver(f, s) # SumOver(g, s)
  BY <1>2, FS_Subset
<1>4. s # {}
  BY <1>3, SumOfNothing
<1>5. PICK p : p = Some(s)
  OBVIOUS
<1>6. p \in s
  BY <1>4, <1>5 DEF Some
<1>7. SumOver(f, s \ {p}) = SumOver(g, s \ {p})
  BY <1>2, <1>3, <1>6
<1>8. f[p] = g[p]
  BY <1>3, <1>6
<1>9. QED BY <1>3, <1>4, <1>5, <1>7, <1>8, SumPicksOne

\* When one value changes, the sum changes by as much.
LEMMA SumOfOneChange ==
    ASSUME NEW f, NEW g, NEW S, IsFiniteSet(S), NEW e \in S,
           \A x \in S : f[x] \in Int /\ g[x] \in Int,
           \A x \in S \ {e} : f[x] = g[x]
    PROVE  SumOver(g, S) = SumOver(f, S) + (g[e] - f[e])
<1>1. SumOver(f, S) = f[e] + SumOver(f, S \ {e})
  BY SumTakesAny
<1>2. SumOver(g, S) = g[e] + SumOver(g, S \ {e})
  BY SumTakesAny
<1>3. IsFiniteSet(S \ {e})
  BY FS_Subset
<1>4. SumOver(f, S \ {e}) = SumOver(g, S \ {e})
  BY <1>3, SumsEqual
<1>5. PICK k \in Int : k = SumOver(f, S \ {e})
  BY <1>3, SumIsInt
<1>6. f[e] \in Int /\ g[e] \in Int
  OBVIOUS
<1>7. QED BY <1>1, <1>2, <1>4, <1>5, <1>6

\* Zeros sum up to 0.
LEMMA SumOfZeros ==
    ASSUME NEW f, NEW S, IsFiniteSet(S), \A x \in S : f[x] = 0
    PROVE  SumOver(f, S) = 0
<1> DEFINE T == {s \in SUBSET S : SumOver(f, s) # 0}
<1>1. SUFFICES ASSUME T # {} PROVE FALSE
  OBVIOUS
<1>2. PICK s \in T : \A y \in T : ~ (y \subseteq s /\ y # s)
  <2>1. T \in SUBSET SUBSET S
    OBVIOUS
  <2> HIDE DEF T
  <2>2. QED BY <1>1, <2>1, SmallestSubset
<1>3. s \in SUBSET S /\ IsFiniteSet(s) /\ SumOver(f, s) # 0
  BY <1>2, FS_Subset
<1>4. s # {}
  BY <1>3, SumOfNothing
<1>5. PICK p : p = Some(s)
  OBVIOUS
<1>6. p \in s
  BY <1>4, <1>5 DEF Some
<1>7. SumOver(f, s \ {p}) = 0
  BY <1>2, <1>3, <1>6
<1>8. f[p] = 0
  BY <1>3, <1>6
<1>9. QED BY <1>3, <1>4, <1>5, <1>7, <1>8, SumPicksOne

\* One more element adds its value.
LEMMA SumWithOneMore ==
    ASSUME NEW f, NEW S, IsFiniteSet(S), NEW e, e \notin S,
           \A x \in S \cup {e} : f[x] \in Int
    PROVE  /\ SumOver(f, S \cup {e}) = f[e] + SumOver(f, S)
           /\ IsFiniteSet(S \cup {e})
<1>1. IsFiniteSet(S \cup {e})
  BY FS_AddElement
<1>2. SumOver(f, S \cup {e}) = f[e] + SumOver(f, (S \cup {e}) \ {e})
  BY <1>1, SumTakesAny
<1>3. (S \cup {e}) \ {e} = S
  OBVIOUS
<1>4. QED BY <1>1, <1>2, <1>3

\* A part of a set of naturals sums up to no more than the whole.
LEMMA SumOfPart ==
    ASSUME NEW f, NEW S, IsFiniteSet(S), \A x \in S : f[x] \in Nat,
           NEW R \in SUBSET S
    PROVE  SumOver(f, R) <= SumOver(f, S)
<1> DEFINE T == {s \in SUBSET S : ~ \A r \in SUBSET s : SumOver(f, r) <= SumOver(f, s)}
<1>1. SUFFICES ASSUME T # {} PROVE FALSE
  OBVIOUS
<1>2. PICK s \in T : \A y \in T : ~ (y \subseteq s /\ y # s)
  <2>1. T \in SUBSET SUBSET S
    OBVIOUS
  <2> HIDE DEF T
  <2>2. QED BY <1>1, <2>1, SmallestSubset
<1>3. PICK r \in SUBSET s : ~ (SumOver(f, r) <= SumOver(f, s))
  BY <1>2
<1>4. s \in SUBSET S /\ IsFiniteSet(s)
  BY <1>2, FS_Subset
<1>5. SumOver(f, s) \in Int
  BY <1>4, SumIsInt
<1>6. PICK e \in s : e \notin r
  <2>1. r # s
    BY <1>3, <1>5
  <2>2. QED BY <2>1
<1>7. SumOver(f, r) <= SumOver(f, s \ {e})
  <2>1. s \ {e} \in SUBSET S /\ s \ {e} \notin T
    BY <1>2, <1>4, <1>6
  <2>2. r \in SUBSET (s \ {e})
    BY <1>6
  <2>3. QED BY <2>1, <2>2
<1>8. SumOver(f, s) = f[e] + SumOver(f, s \ {e})
  BY <1>4, <1>6, SumTakesAny
<1>9. f[e] \in Nat /\ SumOver(f, r) \in Int /\ SumOver(f, s \ {e}) \in Int
  <2>1. IsFiniteSet(r) /\ IsFiniteSet(s \ {e})
    BY <1>4, FS_Subset
  <2>2. QED BY <1>4, <1>6, <2>1, SumIsInt
<1>10. QED BY <1>3, <1>7, <1>8, <1>9

\* Counted by the value of t, the elements of S add up to all of them.
LEMMA CountByValue ==
    ASSUME NEW S, IsFiniteSet(S), NEW B, IsFiniteSet(B), NEW t, \A x \in S : t[x] \in B
    PROVE  SumOver([b \in B |-> Cardinality({x \in S : t[x] = b})], B) = Cardinality(S)
<1> DEFINE C(s) == [b \in B |-> Cardinality({x \in s : t[x] = b})]
           T == {s \in SUBSET S : SumOver(C(s), B) # Cardinality(s)}
<1>1. SUFFICES ASSUME T # {} PROVE FALSE
  OBVIOUS
<1>2. PICK s \in T : \A y \in T : ~ (y \subseteq s /\ y # s)
  <2>1. T \in SUBSET SUBSET S
    OBVIOUS
  <2> HIDE DEF T
  <2>2. QED BY <1>1, <2>1, SmallestSubset
<1>3. s \in SUBSET S /\ IsFiniteSet(s) /\ SumOver(C(s), B) # Cardinality(s)
  BY <1>2, FS_Subset
<1>4. \A r \in SUBSET s : \A b \in B : Cardinality({x \in r : t[x] = b}) \in Nat
  <2>1. SUFFICES ASSUME NEW r \in SUBSET s, NEW b \in B
                 PROVE  Cardinality({x \in r : t[x] = b}) \in Nat
    OBVIOUS
  <2>2. IsFiniteSet({x \in r : t[x] = b})
    BY <1>3, FS_Subset
  <2>3. QED BY <2>2, FS_CardinalityType
<1>5. CASE s = {}
  <2>1. \A b \in B : C(s)[b] = 0
    <3>1. \A b \in B : {x \in s : t[x] = b} = {}
      BY <1>5
    <3>2. QED BY <3>1, FS_EmptySet
  <2>2. SumOver(C(s), B) = 0
    <3> HIDE DEF C
    <3>1. QED BY <2>1, SumOfZeros
  <2>3. QED BY <1>3, <1>5, <2>2, FS_EmptySet
<1>6. CASE s # {}
  <2>1. PICK e \in s : TRUE
    BY <1>6
  <2>2. PICK r : r = s \ {e}
    OBVIOUS
  <2>3. SumOver(C(r), B) = Cardinality(r)
    BY <1>2, <1>3, <2>1, <2>2
  <2>4. Cardinality(r) = Cardinality(s) - 1 /\ Cardinality(s) \in Nat
    BY <1>3, <2>1, <2>2, FS_RemoveElement, FS_CardinalityType
  <2>5. t[e] \in B
    BY <1>3, <2>1
  <2>6. \A b \in B \ {t[e]} : C(r)[b] = C(s)[b]
    <3>1. \A b \in B \ {t[e]} : {x \in r : t[x] = b} = {x \in s : t[x] = b}
      BY <2>2
    <3>2. QED BY <3>1
  <2>7. C(s)[t[e]] - C(r)[t[e]] = 1
    <3>1. PICK R : R = {x \in s : t[x] = t[e]}
      OBVIOUS
    <3>2. e \in R /\ IsFiniteSet(R)
      BY <1>3, <2>1, <3>1, FS_Subset
    <3>3. {x \in r : t[x] = t[e]} = R \ {e}
      BY <2>2, <3>1
    <3>4. Cardinality(R \ {e}) = Cardinality(R) - 1 /\ Cardinality(R) \in Nat
      BY <3>2, FS_RemoveElement, FS_CardinalityType
    <3>5. C(s)[t[e]] = Cardinality(R) /\ C(r)[t[e]] = Cardinality(R \ {e})
      BY <2>5, <3>1, <3>3
    <3>6. QED BY <3>4, <3>5
  <2>8. \A b \in B : C(s)[b] \in Int /\ C(r)[b] \in Int
    <3>1. r \in SUBSET s /\ s \in SUBSET s
      BY <2>2
    <3>2. QED BY <1>4, <3>1
  <2> HIDE DEF C, T
  <2>9. SumOver(C(s), B) = SumOver(C(r), B) + (C(s)[t[e]] - C(r)[t[e]])
    BY <2>5, <2>6, <2>8, SumOfOneChange
  <2>10. QED BY <1>3, <2>3, <2>4, <2>7, <2>9
<1>7. QED BY <1>5, <1>6

\* The sum over a set is the sum over a part of it and over the rest.
LEMMA SumOfParts ==
    ASSUME NEW f, NEW S, IsFiniteSet(S), \A x \in S : f[x] \in Int, NEW R \in SUBSET S
    PROVE  SumOver(f, S) = SumOver(f, R) + SumOver(f, S \ R)
<1> DEFINE T == {s \in SUBSET (S \ R) : SumOver(f, R \cup s) # SumOver(f, R) + SumOver(f, s)}
<1>1. SUFFICES T = {}
  <2>1. R \cup (S \ R) = S /\ S \ R \in SUBSET (S \ R)
    OBVIOUS
  <2>2. QED BY <2>1
<1>2. SUFFICES ASSUME T # {} PROVE FALSE
  OBVIOUS
<1>3. PICK s \in T : \A y \in T : ~ (y \subseteq s /\ y # s)
  <2>1. T \in SUBSET SUBSET (S \ R) /\ IsFiniteSet(S \ R)
    BY FS_Subset
  <2> HIDE DEF T
  <2>2. QED BY <1>2, <2>1, SmallestSubset
<1>4. s \in SUBSET (S \ R) /\ IsFiniteSet(R) /\ IsFiniteSet(s) /\ SumOver(f, R \cup s) # SumOver(f, R) + SumOver(f, s)
  BY <1>3, FS_Subset
<1>5. SumOver(f, R) \in Int
  BY <1>4, SumIsInt
<1>6. CASE s = {}
  <2>1. R \cup s = R
    BY <1>6
  <2>2. QED BY <1>4, <1>5, <1>6, <2>1, SumOfNothing
<1>7. CASE s # {}
  <2>1. PICK e \in s : TRUE
    BY <1>7
  <2>2. PICK r : r = s \ {e}
    OBVIOUS
  <2>3. SumOver(f, R \cup r) = SumOver(f, R) + SumOver(f, r)
    BY <1>3, <1>4, <2>1, <2>2
  <2>4. /\ e \notin r /\ e \notin R \cup r /\ r \cup {e} = s /\ (R \cup r) \cup {e} = R \cup s
        /\ r \in SUBSET S /\ R \cup r \in SUBSET S /\ e \in S
    BY <1>4, <2>1, <2>2
  <2>5. IsFiniteSet(r) /\ IsFiniteSet(R \cup r)
    BY <2>4, FS_Subset
  <2>6. SumOver(f, s) = f[e] + SumOver(f, r)
    BY <2>4, <2>5, SumWithOneMore
  <2>7. SumOver(f, R \cup s) = f[e] + SumOver(f, R \cup r)
    BY <2>4, <2>5, SumWithOneMore
  <2>8. SumOver(f, r) \in Int /\ f[e] \in Int
    BY <2>4, <2>5, SumIsInt
  <2>9. QED BY <1>4, <1>5, <2>3, <2>6, <2>7, <2>8
<1>8. QED BY <1>6, <1>7

\* Sums over two sets that agree outside of M differ by no more than the sum over M.
LEMMA SumsAreNear ==
    ASSUME NEW f, NEW A, NEW M, NEW X, NEW Y, IsFiniteSet(A), IsFiniteSet(M),
           A \subseteq X, X \subseteq A \cup M, A \subseteq Y, Y \subseteq A \cup M,
           \A x \in A \cup M : f[x] \in Nat
    PROVE  /\ SumOver(f, X) - SumOver(f, Y) <= SumOver(f, M)
           /\ SumOver(f, Y) - SumOver(f, X) <= SumOver(f, M)
<1>1. IsFiniteSet(A \cup M)
  BY FS_Union
<1>2. ASSUME NEW Z, A \subseteq Z, Z \subseteq A \cup M
      PROVE  /\ SumOver(f, A) <= SumOver(f, Z)
             /\ SumOver(f, Z) <= SumOver(f, A) + SumOver(f, M)
             /\ SumOver(f, Z) \in Int
  <2>1. IsFiniteSet(Z) /\ IsFiniteSet(Z \ A) /\ \A x \in Z : f[x] \in Nat
    BY <1>1, <1>2, FS_Subset
  <2>2. SumOver(f, Z) = SumOver(f, A) + SumOver(f, Z \ A)
    BY <1>2, <2>1, SumOfParts
  <2>3. SumOver(f, A) <= SumOver(f, Z)
    BY <1>2, <2>1, SumOfPart
  <2>4. SumOver(f, Z \ A) <= SumOver(f, M)
    <3>1. Z \ A \in SUBSET M
      BY <1>2
    <3>2. \A x \in M : f[x] \in Nat
      OBVIOUS
    <3>3. QED BY <3>1, <3>2, SumOfPart
  <2>5. SumOver(f, A) \in Int /\ SumOver(f, Z \ A) \in Int /\ SumOver(f, M) \in Int /\ SumOver(f, Z) \in Int
    BY <1>2, <2>1, SumIsInt
  <2>6. QED BY <2>2, <2>3, <2>4, <2>5
<1>3. SumOver(f, A) \in Int /\ SumOver(f, M) \in Int
  BY SumIsInt
<1>4. /\ SumOver(f, A) <= SumOver(f, X) /\ SumOver(f, X) <= SumOver(f, A) + SumOver(f, M)
      /\ SumOver(f, X) \in Int
  BY <1>2
<1>5. /\ SumOver(f, A) <= SumOver(f, Y) /\ SumOver(f, Y) <= SumOver(f, A) + SumOver(f, M)
      /\ SumOver(f, Y) \in Int
  BY <1>2
<1>6. QED BY <1>3, <1>4, <1>5

\* Summed by the value of t, the weights of the elements of S add up to their sum.
LEMMA SumByValue ==
    ASSUME NEW S, IsFiniteSet(S), NEW w, \A x \in S : w[x] \in Int,
           NEW B, IsFiniteSet(B), NEW t, \A x \in S : t[x] \in B
    PROVE  SumOver([b \in B |-> SumOver(w, {x \in S : t[x] = b})], B) = SumOver(w, S)
<1> DEFINE C(s) == [b \in B |-> SumOver(w, {x \in s : t[x] = b})]
           T == {s \in SUBSET S : SumOver(C(s), B) # SumOver(w, s)}
<1>1. SUFFICES ASSUME T # {} PROVE FALSE
  OBVIOUS
<1>2. PICK s \in T : \A y \in T : ~ (y \subseteq s /\ y # s)
  <2>1. T \in SUBSET SUBSET S
    OBVIOUS
  <2> HIDE DEF T
  <2>2. QED BY <1>1, <2>1, SmallestSubset
<1>3. s \in SUBSET S /\ IsFiniteSet(s) /\ SumOver(C(s), B) # SumOver(w, s)
  BY <1>2, FS_Subset
<1>4. \A r \in SUBSET s : \A b \in B : SumOver(w, {x \in r : t[x] = b}) \in Int
  <2>1. SUFFICES ASSUME NEW r \in SUBSET s, NEW b \in B
                 PROVE  SumOver(w, {x \in r : t[x] = b}) \in Int
    OBVIOUS
  <2>2. IsFiniteSet({x \in r : t[x] = b}) /\ \A x \in {y \in r : t[y] = b} : w[x] \in Int
    BY <1>3, FS_Subset
  <2>3. QED BY <2>2, SumIsInt
<1>5. CASE s = {}
  <2>1. \A b \in B : C(s)[b] = 0
    <3>1. \A b \in B : {x \in s : t[x] = b} = {}
      BY <1>5
    <3>2. QED BY <3>1, SumOfNothing
  <2>2. SumOver(C(s), B) = 0
    <3> HIDE DEF C
    <3>1. QED BY <2>1, SumOfZeros
  <2>3. QED BY <1>3, <1>5, <2>2, SumOfNothing
<1>6. CASE s # {}
  <2>1. PICK e \in s : TRUE
    BY <1>6
  <2>2. PICK r : r = s \ {e}
    OBVIOUS
  <2>3. SumOver(C(r), B) = SumOver(w, r)
    BY <1>2, <1>3, <2>1, <2>2
  <2>4. SumOver(w, s) = w[e] + SumOver(w, r) /\ w[e] \in Int /\ SumOver(w, r) \in Int
    <3>1. \A x \in s : w[x] \in Int
      BY <1>3
    <3>2. SumOver(w, s) = w[e] + SumOver(w, s \ {e})
      BY <1>3, <2>1, <3>1, SumTakesAny
    <3>3. IsFiniteSet(r) /\ \A x \in r : w[x] \in Int
      BY <1>3, <2>2, <3>1, FS_Subset
    <3>4. SumOver(w, r) \in Int
      BY <3>3, SumIsInt
    <3>5. QED BY <2>1, <2>2, <3>1, <3>2, <3>4
  <2>5. t[e] \in B
    BY <1>3, <2>1
  <2>6. \A b \in B \ {t[e]} : C(r)[b] = C(s)[b]
    <3>1. \A b \in B \ {t[e]} : {x \in r : t[x] = b} = {x \in s : t[x] = b}
      BY <2>2
    <3>2. QED BY <3>1
  <2>7. C(s)[t[e]] - C(r)[t[e]] = w[e]
    <3>1. PICK R : R = {x \in s : t[x] = t[e]}
      OBVIOUS
    <3>2. e \in R /\ IsFiniteSet(R) /\ \A x \in R : w[x] \in Int
      BY <1>3, <2>1, <3>1, FS_Subset
    <3>3. {x \in r : t[x] = t[e]} = R \ {e}
      BY <2>2, <3>1
    <3>4. SumOver(w, R) = w[e] + SumOver(w, R \ {e})
      BY <3>2, SumTakesAny
    <3>5. C(s)[t[e]] = SumOver(w, R) /\ C(r)[t[e]] = SumOver(w, R \ {e})
      BY <2>5, <3>1, <3>3
    <3>6. SumOver(w, R \ {e}) \in Int
      <4>1. IsFiniteSet(R \ {e}) /\ \A x \in R \ {e} : w[x] \in Int
        BY <3>2, FS_Subset
      <4>2. QED BY <4>1, SumIsInt
    <3>7. QED BY <2>4, <3>4, <3>5, <3>6
  <2>8. \A b \in B : C(s)[b] \in Int /\ C(r)[b] \in Int
    <3>1. r \in SUBSET s /\ s \in SUBSET s
      BY <2>2
    <3>2. QED BY <1>4, <3>1
  <2> HIDE DEF C, T
  <2>9. SumOver(C(s), B) = SumOver(C(r), B) + (C(s)[t[e]] - C(r)[t[e]])
    BY <2>5, <2>6, <2>8, SumOfOneChange
  <2>10. QED BY <1>3, <2>3, <2>4, <2>7, <2>9
<1>7. QED BY <1>5, <1>6
================================================================================
