---------------------------- MODULE Sums_proofs ----------------------------
(***************************************************************************)
(* What a sum over a finite set is, for any set and any numbers: the       *)
(* library adds up a set element by element, in the order of its choice,   *)
(* and says so by a recursive function.  The proofs about caps and costs   *)
(* need that a function obeys that recursion (SumsExist), that any         *)
(* element may be taken out first (SumTakesOut), and that the values       *)
(* outside the set do not matter (SumAgrees).                              *)
(***************************************************************************)
EXTENDS Naturals, FiniteSets, FiniteSetsExt, FiniteSetTheorems, WellFoundedInduction, TLAPS

\* Induction, over a set of numbers.
LEMMA EveryNumber ==
  ASSUME NEW U \in SUBSET Nat, 0 \in U, \A n \in U : n + 1 \in U
  PROVE  U = Nat
<1> SUFFICES ASSUME Nat \ U # {} PROVE FALSE
  OBVIOUS
<1>1. IsWellFoundedOn(OpToRel(<, Nat), Nat)
  BY NatLessThanWellFounded
<1>2. PICK k \in Nat \ U : \A y \in Nat \ U : ~ (<<y, k>> \in OpToRel(<, Nat))
  <2> DEFINE R == OpToRel(<, Nat)  V == Nat \ U
  <2>1. IsWellFoundedOn(R, Nat) /\ V \subseteq Nat /\ V # {}
    BY <1>1
  <2> HIDE DEF R, V
  <2>2. \E k \in V : \A y \in V : ~ (<<y, k>> \in R)
    BY <2>1, WFMin
  <2>3. QED
    BY <2>2 DEF R, V
<1>3. \A y \in Nat \ U : ~ (y < k)
  BY <1>2 DEF OpToRel
<1>4. k # 0 /\ k - 1 \in Nat /\ k - 1 < k
  OBVIOUS
<1>5. k - 1 \in U
  BY <1>3, <1>4
<1>6. (k - 1) + 1 \in U
  BY <1>5
<1>7. QED
  BY <1>6

\* A set of numbers up to n that is not empty has a greatest one.
LEMMA LastLine ==
  ASSUME NEW n \in Nat, NEW T, T \subseteq 1..n, T # {}
  PROVE  \E m \in T : \A j \in T : j <= m
<1> DEFINE R == OpToRel(<, Nat)  U == {k \in Nat : n - k \in T}
<1>1. IsWellFoundedOn(R, Nat)
  BY NatLessThanWellFounded
<1>2. U \subseteq Nat /\ U # {}
  <2>1. PICK t \in T : TRUE
    OBVIOUS
  <2>2. n - t \in Nat /\ n - (n - t) = t
    BY <2>1
  <2>3. QED
    BY <2>1, <2>2
<1>3. PICK k \in U : \A y \in U : ~ (<<y, k>> \in R)
  <2> HIDE DEF R, U
  <2> QED
    BY <1>1, <1>2, WFMin
<1>4. k \in Nat /\ \A y \in U : ~ (y < k)
  BY <1>3 DEF OpToRel
<1>5. \A j \in T : j <= n - k
  <2> SUFFICES ASSUME NEW j \in T PROVE j <= n - k
    OBVIOUS
  <2>1. n - j \in Nat /\ n - (n - j) = j /\ n - j \in U
    OBVIOUS
  <2>2. ~(n - j < k)
    BY <1>4, <2>1
  <2>3. QED
    BY <1>4, <2>1, <2>2
<1>6. QED
  BY <1>3, <1>5

\* The element of s that comes first.
Pick(s) == CHOOSE x \in s : TRUE

\* The equation that the sums over the subsets of S obey.
Sums(f, S, g) ==
  g = [s \in SUBSET S |-> IF s = {} THEN 0 ELSE f[Pick(s)] + g[s \ {Pick(s)}]]

\* The library takes the sums that its recursion defines.
LEMMA SumIs ==
  ASSUME NEW f, NEW S
  PROVE  SumFunctionOnSet(f, S) = (CHOOSE g : Sums(f, S, g))[S]
BY DEF SumFunctionOnSet, FoldFunctionOnSet, MapThenFoldSet, Sums, Pick

\* The subsets of S of at most n elements.
Low(S, n) == {s \in SUBSET S : Cardinality(s) <= n}

\* g gives the sums of the subsets of S of at most n elements.
SumsTo(f, S, n, g) ==
  g = [s \in Low(S, n) |-> IF s = {} THEN 0 ELSE f[Pick(s)] + g[s \ {Pick(s)}]]

\* f is a number everywhere on the finite set S.
Numbers(f, S) == IsFiniteSet(S) /\ \A x \in S : f[x] \in Nat

\* What is left of a nonempty finite set without what is picked from it.
LEMMA PickOne ==
  ASSUME NEW S, IsFiniteSet(S), NEW s \in SUBSET S, s # {}
  PROVE  /\ Pick(s) \in s /\ Pick(s) \in S /\ s \ {Pick(s)} \in SUBSET S
         /\ IsFiniteSet(s)
         /\ Cardinality(s \ {Pick(s)}) = Cardinality(s) - 1
         /\ Cardinality(s) \in Nat \ {0} /\ Cardinality(s \ {Pick(s)}) \in Nat
<1>1. Pick(s) \in s
  BY DEF Pick
<1>2. IsFiniteSet(s)
  BY FS_Subset
<1>3. Cardinality(s) \in Nat /\ Cardinality(s) # 0
  BY <1>2, FS_CardinalityType, FS_EmptySet
<1>4. Cardinality(s \ {Pick(s)}) = Cardinality(s) - 1
  BY <1>1, <1>2, FS_RemoveElement
<1>5. QED
  BY <1>1, <1>2, <1>3, <1>4

\* There are sums over the subsets of every size.
LEMMA SumsOfSize ==
  ASSUME NEW S, NEW f, Numbers(f, S), NEW n \in Nat
  PROVE  \E g : SumsTo(f, S, n, g)
<1> DEFINE U == {k \in Nat : \E g : SumsTo(f, S, k, g)}
<1>1. 0 \in U
  <2> DEFINE g == [s \in Low(S, 0) |-> 0]
  <2>1. ASSUME NEW s \in Low(S, 0) PROVE s = {}
    BY FS_Subset, FS_CardinalityType, FS_EmptySet DEF Low, Numbers
  <2>2. SumsTo(f, S, 0, g)
    BY <2>1 DEF SumsTo
  <2>3. QED
    BY <2>2
<1>2. ASSUME NEW k \in U PROVE k + 1 \in U
  <2>1. PICK g : SumsTo(f, S, k, g)
    OBVIOUS
  <2> DEFINE h == [s \in Low(S, k + 1) |->
                     IF s = {} THEN 0 ELSE f[Pick(s)] + g[s \ {Pick(s)}]]
  <2>2. ASSUME NEW s \in Low(S, k) PROVE s \in Low(S, k + 1) /\ h[s] = g[s]
    <3>1. s \in Low(S, k + 1)
      BY FS_Subset, FS_CardinalityType DEF Low, Numbers
    <3>2. g[s] = IF s = {} THEN 0 ELSE f[Pick(s)] + g[s \ {Pick(s)}]
      BY <2>1 DEF SumsTo
    <3>3. QED
      BY <3>1, <3>2
  <2>3. ASSUME NEW s \in Low(S, k + 1), s # {} PROVE h[s \ {Pick(s)}] = g[s \ {Pick(s)}]
    <3>1. s \ {Pick(s)} \in Low(S, k)
      BY <2>3, PickOne DEF Low, Numbers
    <3>2. QED
      BY <2>2, <3>1
  <2>4. SumsTo(f, S, k + 1, h)
    BY <2>3 DEF SumsTo
  <2> HIDE DEF h
  <2>5. QED
    BY <2>4
<1>3. U = Nat
  <2> HIDE DEF U
  <2>1. U \in SUBSET Nat
    BY DEF U
  <2>2. QED
    BY <1>1, <1>2, <2>1, EveryNumber
<1>4. QED
  BY <1>3

\* The sums that the library takes are sums.
LEMMA SumsExist ==
  ASSUME NEW S, NEW f, Numbers(f, S)
  PROVE  Sums(f, S, CHOOSE g : Sums(f, S, g))
<1> DEFINE n == Cardinality(S)
<1>1. n \in Nat /\ Low(S, n) = SUBSET S
  BY FS_CardinalityType, FS_Subset DEF Low, Numbers
<1>2. PICK g : SumsTo(f, S, n, g)
  BY <1>1, SumsOfSize
<1>3. Sums(f, S, g)
  BY <1>1, <1>2 DEF Sums, SumsTo
<1>4. QED
  BY <1>3

\* Two ways of adding up agree on the sets they are both over.
LEMMA SumsAgree ==
  ASSUME NEW S, NEW T, NEW f, NEW e, Numbers(f, S), Numbers(e, T),
         NEW g, Sums(f, S, g), NEW h, Sums(e, T, h),
         \A x \in S \cap T : f[x] = e[x],
         NEW s \in SUBSET (S \cap T)
  PROVE  g[s] = h[s] /\ g[s] \in Nat
<1> DEFINE Same(z) == g[z] = h[z] /\ g[z] \in Nat
           U == {k \in Nat : \A z \in SUBSET (S \cap T) : Cardinality(z) <= k => Same(z)}
<1>0. IsFiniteSet(S) /\ IsFiniteSet(T) /\ IsFiniteSet(S \cap T)
  BY FS_Subset DEF Numbers
<1>1. Same({})
  BY DEF Sums
<1>2. 0 \in U
  <2>1. ASSUME NEW z \in SUBSET (S \cap T), Cardinality(z) <= 0 PROVE z = {}
    BY <1>0, <2>1, FS_Subset, FS_CardinalityType, FS_EmptySet
  <2>2. QED
    BY <1>1, <2>1
<1>3. ASSUME NEW k \in U PROVE k + 1 \in U
  <2>1. ASSUME NEW z \in SUBSET (S \cap T), Cardinality(z) <= k + 1, z # {} PROVE Same(z)
    <3> DEFINE p == Pick(z)  r == z \ {p}
    <3>1. /\ p \in S /\ p \in T /\ r \in SUBSET (S \cap T)
          /\ Cardinality(r) <= k
      BY <1>0, <2>1, PickOne
    <3>2. Same(r)
      BY <3>1
    <3>3. f[p] = e[p] /\ f[p] \in Nat
      BY <3>1 DEF Numbers
    <3>4. g[z] = f[p] + g[r] /\ h[z] = e[p] + h[r]
      BY <2>1 DEF Sums
    <3> HIDE DEF p, r
    <3>5. QED
      BY <3>2, <3>3, <3>4
  <2> HIDE DEF Same
  <2>2. QED
    BY <1>1, <2>1
<1>4. U = Nat
  <2> HIDE DEF U
  <2>1. U \in SUBSET Nat
    BY DEF U
  <2>2. QED
    BY <1>2, <1>3, <2>1, EveryNumber
<1>5. Cardinality(s) \in Nat
  BY <1>0, FS_Subset, FS_CardinalityType
<1>6. QED
  BY <1>4, <1>5

\* A sum is a number: the value at what is picked and the sum over the rest.
LEMMA SumPicks ==
  ASSUME NEW S, NEW f, Numbers(f, S)
  PROVE  /\ SumFunctionOnSet(f, {}) = 0 /\ SumFunctionOnSet(f, S) \in Nat
         /\ S # {} => SumFunctionOnSet(f, S) = f[Pick(S)] + SumFunctionOnSet(f, S \ {Pick(S)})
<1> DEFINE G(T) == CHOOSE g : Sums(f, T, g)
<1>1. Numbers(f, {}) /\ Sums(f, {}, G({})) /\ Sums(f, S, G(S))
  <2>1. Numbers(f, {})
    BY FS_EmptySet DEF Numbers
  <2>2. QED
    BY <2>1, SumsExist
<1>2. SumFunctionOnSet(f, {}) = G({})[{}] /\ SumFunctionOnSet(f, S) = G(S)[S]
  BY SumIs
<1>3. G({})[{}] = 0
  BY <1>1 DEF Sums
<1>4. G(S)[S] \in Nat
  <2> HIDE DEF G
  <2>1. S \in SUBSET (S \cap S)
    OBVIOUS
  <2>2. QED
    BY <1>1, <2>1, SumsAgree
<1>5. ASSUME S # {} PROVE SumFunctionOnSet(f, S) = f[Pick(S)] + SumFunctionOnSet(f, S \ {Pick(S)})
  <2> DEFINE R == S \ {Pick(S)}
  <2>1. Numbers(f, R)
    BY FS_Subset DEF Numbers
  <2>2. Sums(f, R, G(R)) /\ SumFunctionOnSet(f, R) = G(R)[R]
    BY <2>1, SumsExist, SumIs
  <2>3. R \in SUBSET (S \cap R) /\ R \in SUBSET S
    OBVIOUS
  <2>4. G(S)[R] = G(R)[R]
    <3> HIDE DEF G, R
    <3>1. \A x \in S \cap R : f[x] = f[x]
      OBVIOUS
    <3>2. QED
      BY <1>1, <2>1, <2>2, <2>3, <3>1, SumsAgree
  <2>5. G(S)[S] = f[Pick(S)] + G(S)[R]
    BY <1>1, <1>5 DEF Sums
  <2>6. QED
    BY <1>2, <2>2, <2>4, <2>5
<1>6. QED
  BY <1>2, <1>3, <1>4, <1>5

\* A sum is of the values over the set alone.
LEMMA SumAgrees ==
  ASSUME NEW S, NEW f, NEW e, Numbers(f, S), \A x \in S : f[x] = e[x]
  PROVE  SumFunctionOnSet(f, S) = SumFunctionOnSet(e, S)
<1> DEFINE g == CHOOSE g : Sums(f, S, g)  h == CHOOSE h : Sums(e, S, h)
<1>1. Numbers(e, S)
  BY DEF Numbers
<1>2. /\ Sums(f, S, g) /\ SumFunctionOnSet(f, S) = g[S]
      /\ Sums(e, S, h) /\ SumFunctionOnSet(e, S) = h[S]
  BY <1>1, SumsExist, SumIs
<1> HIDE DEF g, h
<1>3. S \in SUBSET (S \cap S) /\ \A x \in S \cap S : f[x] = e[x]
  OBVIOUS
<1>4. QED
  BY <1>1, <1>2, <1>3, SumsAgree

\* The order of the elements does not matter: any of them can be taken out.
LEMMA SumTakesOut ==
  ASSUME NEW S, NEW f, Numbers(f, S), NEW x \in S
  PROVE  SumFunctionOnSet(f, S) = f[x] + SumFunctionOnSet(f, S \ {x})
<1> DEFINE Any(z) == \A y \in z : SumFunctionOnSet(f, z) = f[y] + SumFunctionOnSet(f, z \ {y})
           U == {k \in Nat : \A z \in SUBSET S : Cardinality(z) <= k => Any(z)}
<1>0. IsFiniteSet(S)
  BY DEF Numbers
<1>1. ASSUME NEW z \in SUBSET S
      PROVE  /\ Numbers(f, z) /\ SumFunctionOnSet(f, z) \in Nat /\ Cardinality(z) \in Nat
             /\ z # {} => SumFunctionOnSet(f, z) = f[Pick(z)] + SumFunctionOnSet(f, z \ {Pick(z)})
  <2>1. IsFiniteSet(z) /\ Cardinality(z) \in Nat
    BY <1>0, FS_Subset, FS_CardinalityType
  <2>2. Numbers(f, z)
    BY <2>1 DEF Numbers
  <2>3. QED
    BY <2>1, <2>2, SumPicks
<1>2. 0 \in U
  <2>1. ASSUME NEW z \in SUBSET S, Cardinality(z) <= 0 PROVE z = {}
    BY <1>0, <2>1, FS_Subset, FS_CardinalityType, FS_EmptySet
  <2>2. QED
    BY <2>1
<1>3. ASSUME NEW k \in U PROVE k + 1 \in U
  <2>1. ASSUME NEW z \in SUBSET S, Cardinality(z) <= k + 1, NEW y \in z
        PROVE  SumFunctionOnSet(f, z) = f[y] + SumFunctionOnSet(f, z \ {y})
    <3> DEFINE p == Pick(z)  r == z \ {p}  q == z \ {y}
    <3>1. /\ p \in z /\ f[p] \in Nat /\ f[y] \in Nat
          /\ r \in SUBSET S /\ q \in SUBSET S /\ Cardinality(r) <= k
      BY <1>0, <2>1, PickOne DEF Numbers
    <3>2. SumFunctionOnSet(f, z) = f[p] + SumFunctionOnSet(f, r)
      BY <1>1, <2>1
    <3>3. CASE p = y
      BY <3>2, <3>3
    <3>4. CASE p # y
      <4>1. Cardinality(q) <= k
        <5>1. IsFiniteSet(z) /\ Cardinality(z) \in Nat
          BY <1>0, FS_Subset, FS_CardinalityType
        <5>2. Cardinality(q) = Cardinality(z) - 1
          BY <5>1, <2>1, FS_RemoveElement
        <5>3. QED
          BY <5>1, <5>2, <2>1
      <4>2. y \in r /\ p \in q /\ r \ {y} = q \ {p} /\ r \ {y} \in SUBSET S
        BY <3>1, <3>4
      <4>3. Any(r) /\ Any(q)
        BY <3>1, <4>1
      <4>4. /\ SumFunctionOnSet(f, r) = f[y] + SumFunctionOnSet(f, r \ {y})
            /\ SumFunctionOnSet(f, q) = f[p] + SumFunctionOnSet(f, q \ {p})
        BY <4>2, <4>3
      <4>5. /\ SumFunctionOnSet(f, r \ {y}) \in Nat /\ SumFunctionOnSet(f, q) \in Nat
            /\ SumFunctionOnSet(f, r) \in Nat
        BY <1>1, <3>1, <4>2
      <4>6. SumFunctionOnSet(f, z) = f[y] + SumFunctionOnSet(f, q)
        <5> DEFINE rest == SumFunctionOnSet(f, r \ {y})
        <5>1. SumFunctionOnSet(f, q \ {p}) = rest
          BY <4>2
        <5>2. /\ SumFunctionOnSet(f, z) = f[p] + SumFunctionOnSet(f, r)
              /\ SumFunctionOnSet(f, r) = f[y] + rest
              /\ SumFunctionOnSet(f, q) = f[p] + rest
          BY <3>2, <4>4, <5>1
        <5>3. f[p] \in Nat /\ f[y] \in Nat /\ rest \in Nat
          BY <3>1, <4>5
        <5> HIDE DEF p, q, r, rest
        <5>4. QED
          BY <5>2, <5>3
      <4>7. QED
        BY <4>6
    <3>5. QED
      BY <3>3, <3>4
  <2>2. QED
    BY <2>1
<1>4. U = Nat
  <2> HIDE DEF U
  <2>1. U \in SUBSET Nat
    BY DEF U
  <2>2. QED
    BY <1>2, <1>3, <2>1, EveryNumber
<1>5. Cardinality(S) \in Nat
  BY <1>1
<1>6. Any(S)
  BY <1>4, <1>5
<1>7. QED
  BY <1>6

\* One more element adds its value.
LEMMA SumAdds ==
  ASSUME NEW S, NEW f, NEW x, x \notin S, Numbers(f, S \cup {x})
  PROVE  /\ SumFunctionOnSet(f, S \cup {x}) = SumFunctionOnSet(f, S) + f[x]
         /\ SumFunctionOnSet(f, S) \in Nat /\ f[x] \in Nat
<1>1. (S \cup {x}) \ {x} = S /\ f[x] \in Nat
  BY DEF Numbers
<1>2. Numbers(f, S)
  BY FS_Subset DEF Numbers
<1>3. SumFunctionOnSet(f, S \cup {x}) = f[x] + SumFunctionOnSet(f, S)
  BY <1>1, SumTakesOut
<1>4. SumFunctionOnSet(f, S) \in Nat
  BY <1>2, SumPicks
<1>5. QED
  BY <1>1, <1>3, <1>4

\* Ones add up to how many they are.
LEMMA SumOfOnes ==
  ASSUME NEW S, NEW f, IsFiniteSet(S), \A x \in S : f[x] = 1
  PROVE  SumFunctionOnSet(f, S) = Cardinality(S)
<1> DEFINE U == {k \in Nat : \A z \in SUBSET S :
                   Cardinality(z) <= k => SumFunctionOnSet(f, z) = Cardinality(z)}
<1>1. ASSUME NEW z \in SUBSET S
      PROVE  Numbers(f, z) /\ Cardinality(z) \in Nat
  <2>1. IsFiniteSet(z) /\ Cardinality(z) \in Nat
    BY FS_Subset, FS_CardinalityType
  <2>2. QED
    BY <2>1 DEF Numbers
<1>2. 0 \in U
  <2>1. ASSUME NEW z \in SUBSET S, Cardinality(z) <= 0
        PROVE  SumFunctionOnSet(f, z) = Cardinality(z)
    <3>1. z = {} /\ Cardinality(z) = 0
      BY <2>1, FS_Subset, FS_CardinalityType, FS_EmptySet
    <3>2. Numbers(f, z)
      BY <1>1
    <3>3. SumFunctionOnSet(f, {}) = 0
      BY <3>2, SumPicks
    <3>4. QED
      BY <3>1, <3>3
  <2>2. QED
    BY <2>1
<1>3. ASSUME NEW k \in U PROVE k + 1 \in U
  <2>1. ASSUME NEW z \in SUBSET S, Cardinality(z) <= k + 1, z # {}
        PROVE  SumFunctionOnSet(f, z) = Cardinality(z)
    <3> DEFINE p == Pick(z)  r == z \ {p}
    <3>1. /\ p \in z /\ r \in SUBSET S /\ f[p] = 1
          /\ Cardinality(r) = Cardinality(z) - 1
      BY <2>1, PickOne
    <3>2. Cardinality(z) \in Nat /\ Cardinality(r) \in Nat
      BY <1>1, <3>1
    <3>3. Numbers(f, z)
      BY <1>1
    <3>4. SumFunctionOnSet(f, z) = f[p] + SumFunctionOnSet(f, r)
      BY <2>1, <3>3, SumPicks
    <3>5. SumFunctionOnSet(f, r) = Cardinality(r)
      BY <2>1, <3>1, <3>2
    <3> HIDE DEF p, r
    <3>6. QED
      BY <3>1, <3>2, <3>4, <3>5
  <2>2. ASSUME NEW z \in SUBSET S, Cardinality(z) <= k + 1
        PROVE  SumFunctionOnSet(f, z) = Cardinality(z)
    <3>1. CASE z = {}
      <4>1. Cardinality(z) <= k
        BY <3>1, FS_EmptySet
      <4>2. QED
        BY <4>1
    <3>2. CASE z # {}
      BY <2>1, <2>2, <3>2
    <3>3. QED
      BY <3>1, <3>2
  <2>3. QED
    BY <2>2
<1>4. U = Nat
  <2> HIDE DEF U
  <2>1. U \in SUBSET Nat
    BY DEF U
  <2>2. QED
    BY <1>2, <1>3, <2>1, EveryNumber
<1>5. Cardinality(S) \in Nat
  BY <1>1
<1>6. QED
  BY <1>4, <1>5
=============================================================================
