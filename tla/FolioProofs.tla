---------------------------- MODULE FolioProofs -----------------------------
(***************************************************************************)
(* Proofs about Folio: its types, that the balance is the sum of the ledger, *)
(* that charges are corrected and nights posted once, that a divided credit  *)
(* is exact, and that it implements Account.  They rest on laws of sums of    *)
(* integers over finite sets, which come first.                             *)
(***************************************************************************)
EXTENDS Folio, FiniteSetTheorems, TLAPS

----------------------------------------------------------------------------
(* Induction, stated with the set of what is proved so far.                 *)

LEMMA NatSteps ==
  ASSUME NEW Good, 0 \in Good, \A n \in Nat : n \in Good => n + 1 \in Good
  PROVE  \A n \in Nat : n \in Good
<1> DEFINE Bad == {n \in Nat : n \notin Good}
<1> SUFFICES ASSUME Bad # {} PROVE FALSE
  OBVIOUS
<1>1. PICK n \in Bad : \A m \in Bad : ~(<<m, n>> \in OpToRel(<, Nat))
  BY NatLessThanWellFounded, WFMin
<1>2. n # 0 /\ n \in Nat
  OBVIOUS
<1>3. n - 1 \in Nat /\ <<n - 1, n>> \in OpToRel(<, Nat)
  BY <1>2 DEF OpToRel
<1>4. n - 1 \in Good
  BY <1>1, <1>3
<1>5. (n - 1) + 1 \in Good
  BY <1>3, <1>4
<1>6. (n - 1) + 1 = n
  BY <1>2
<1> QED
  BY <1>5, <1>6

LEMMA SubsetSteps ==
  ASSUME NEW S, IsFiniteSet(S), NEW Good,
         \A T \in SUBSET S : (\A x \in T : T \ {x} \in Good) => T \in Good
  PROVE  S \in Good
<1> DEFINE Sizes == {n \in Nat : \A T \in SUBSET S : Cardinality(T) = n => T \in Good}
<1>1. \A T \in SUBSET S : IsFiniteSet(T) /\ Cardinality(T) \in Nat
  BY FS_Subset, FS_CardinalityType
<1>2. 0 \in Sizes
  BY <1>1, FS_EmptySet
<1>3. ASSUME NEW n \in Nat, n \in Sizes PROVE n + 1 \in Sizes
  <2>1. ASSUME NEW T \in SUBSET S, Cardinality(T) = n + 1, NEW x \in T PROVE T \ {x} \in Good
    <3>1. Cardinality(T \ {x}) = n
      BY <1>1, <2>1, FS_RemoveElement
    <3> QED
      BY <1>3, <3>1
  <2> QED
    BY <2>1
<1>4. Cardinality(S) \in Sizes
  BY <1>1, <1>2, <1>3, NatSteps
<1> QED
  BY <1>4

----------------------------------------------------------------------------
(* Sums.                                                                    *)

\* The equations of the recursive function that SumFunctionOnSet is defined with.
Adds(g, f, s) ==
  g[s] = IF s = {} THEN 0
         ELSE f[CHOOSE x \in s : TRUE] + g[s \ {CHOOSE x \in s : TRUE}]

Adder(f, S) ==
  CHOOSE g : g = [s \in SUBSET S |->
                    IF s = {} THEN 0
                    ELSE f[CHOOSE x \in s : TRUE] + g[s \ {CHOOSE x \in s : TRUE}]]

LEMMA SumIsAdder ==
  ASSUME NEW f, NEW S
  PROVE  SumFunctionOnSet(f, S) = Adder(f, S)[S]
BY DEF SumFunctionOnSet, FoldFunctionOnSet, MapThenFoldSet, Adder

LEMMA AdderExists ==
  ASSUME NEW S, IsFiniteSet(S), NEW f, \A x \in S : f[x] \in Int
  PROVE  \E g \in [SUBSET S -> Int] : \A s \in SUBSET S : Adds(g, f, s)
<1> DEFINE Small(n) == {s \in SUBSET S : Cardinality(s) <= n}
           Good == {n \in Nat : \E g \in [Small(n) -> Int] : \A s \in Small(n) : Adds(g, f, s)}
<1>1. \A s \in SUBSET S : IsFiniteSet(s) /\ Cardinality(s) \in Nat
  BY FS_Subset, FS_CardinalityType
<1>2. 0 \in Good
  <2>1. \A s \in Small(0) : s = {}
    BY <1>1, FS_EmptySet
  <2>2. [s \in Small(0) |-> 0] \in [Small(0) -> Int]
    OBVIOUS
  <2>3. \A s \in Small(0) : Adds([t \in Small(0) |-> 0], f, s)
    BY <2>1 DEF Adds
  <2> HIDE DEF Small
  <2> QED
    BY <2>2, <2>3
<1>3. ASSUME NEW n \in Nat, n \in Good PROVE n + 1 \in Good
  <2>1. PICK g \in [Small(n) -> Int] : \A s \in Small(n) : Adds(g, f, s)
    BY <1>3
  <2> DEFINE h == [s \in Small(n + 1) |->
                     IF s = {} THEN 0
                     ELSE f[CHOOSE x \in s : TRUE] + g[s \ {CHOOSE x \in s : TRUE}]]
  <2>2. ASSUME NEW s \in Small(n + 1), s # {}
        PROVE  /\ (CHOOSE x \in s : TRUE) \in s
               /\ s \ {CHOOSE x \in s : TRUE} \in Small(n)
    <3>1. (CHOOSE x \in s : TRUE) \in s
      BY <2>2
    <3>2. PICK x : x = CHOOSE y \in s : TRUE
      OBVIOUS
    <3>3. x \in s
      BY <3>1, <3>2
    <3>4. IsFiniteSet(s) /\ Cardinality(s) \in Nat /\ Cardinality(s) <= n + 1
      BY <1>1
    <3>5. Cardinality(s \ {x}) = Cardinality(s) - 1
      BY <3>3, <3>4, FS_RemoveElement
    <3>6. s \ {x} \in Small(n)
      BY <3>4, <3>5
    <3> QED
      BY <3>1, <3>2, <3>6
  <2>3. h \in [Small(n + 1) -> Int]
    <3>1. ASSUME NEW s \in Small(n + 1), s # {}
          PROVE  f[CHOOSE x \in s : TRUE] + g[s \ {CHOOSE x \in s : TRUE}] \in Int
      <4>1. (CHOOSE x \in s : TRUE) \in S
        BY <2>2, <3>1
      <4>2. g[s \ {CHOOSE x \in s : TRUE}] \in Int
        BY <2>2, <3>1
      <4> QED
        BY <4>1, <4>2
    <3> QED
      BY <3>1
  <2>4. ASSUME NEW s \in Small(n) PROVE s \in Small(n + 1) /\ h[s] = g[s]
    <3>1. s \in Small(n + 1)
      BY <1>1
    <3>2. Adds(g, f, s)
      BY <2>1
    <3> QED
      BY <3>1, <3>2 DEF Adds
  <2>5. ASSUME NEW s \in Small(n + 1) PROVE Adds(h, f, s)
    <3>1. CASE s = {}
      BY <3>1 DEF Adds
    <3>2. CASE s # {}
      <4>1. PICK x : x = CHOOSE y \in s : TRUE
        OBVIOUS
      <4>2. h[s] = f[x] + g[s \ {x}]
        BY <3>2, <4>1
      <4>3. s \ {x} \in Small(n)
        BY <2>2, <3>2, <4>1
      <4>4. h[s \ {x}] = g[s \ {x}]
        BY <2>4, <4>3
      <4> HIDE DEF h
      <4> QED
        BY <3>2, <4>1, <4>2, <4>4 DEF Adds
    <3> QED
      BY <3>1, <3>2
  <2> HIDE DEF h, Small
  <2> QED
    BY <2>3, <2>5
<1>4. Cardinality(S) \in Good
  <2> HIDE DEF Good
  <2> QED
    BY <1>1, <1>2, <1>3, NatSteps
<1>5. Small(Cardinality(S)) = SUBSET S
  BY <1>1, FS_Subset
<1> QED
  BY <1>4, <1>5

\* One function gives the sums over all subsets.
LEMMA SumFunctionIs ==
  ASSUME NEW S, IsFiniteSet(S), NEW f, \A x \in S : f[x] \in Int
  PROVE  /\ SumFunctionOnSet(f, {}) = 0
         /\ S # {} => \E x \in S : SumFunctionOnSet(f, S) = f[x] + SumFunctionOnSet(f, S \ {x})
         /\ SumFunctionOnSet(f, S) \in Int
<1> DEFINE Sum(s) == SumFunctionOnSet(f, s)
<1>1. PICK g \in [SUBSET S -> Int] : \A s \in SUBSET S : Adds(g, f, s)
  BY AdderExists
<1>2. ASSUME NEW T \in SUBSET S PROVE Sum(T) = g[T]
  <2> DEFINE h == Adder(f, T)
  <2>1. h = [s \in SUBSET T |->
               IF s = {} THEN 0
               ELSE f[CHOOSE x \in s : TRUE] + h[s \ {CHOOSE x \in s : TRUE}]]
    <3> DEFINE k == [s \in SUBSET T |-> g[s]]
    <3>1. k = [s \in SUBSET T |->
                 IF s = {} THEN 0
                 ELSE f[CHOOSE x \in s : TRUE] + k[s \ {CHOOSE x \in s : TRUE}]]
      <4>1. ASSUME NEW s \in SUBSET T
            PROVE  k[s] = IF s = {} THEN 0
                          ELSE f[CHOOSE x \in s : TRUE] + k[s \ {CHOOSE x \in s : TRUE}]
        BY <1>1 DEF Adds
      <4> QED
        BY <4>1
    <3> HIDE DEF k
    <3> QED
      BY <3>1 DEF Adder
  <2>2. \A s \in SUBSET T : Adds(h, f, s)
    BY <2>1 DEF Adds
  <2> HIDE DEF h
  <2> DEFINE Good == {s \in SUBSET T : h[s] = g[s]}
  <2>3. ASSUME NEW s \in SUBSET T, \A x \in s : s \ {x} \in Good PROVE s \in Good
    <3>1. CASE s = {}
      BY <1>1, <2>2, <3>1 DEF Adds
    <3>2. CASE s # {}
      <4>1. PICK x : x = CHOOSE y \in s : TRUE
        OBVIOUS
      <4>2. x \in s
        BY <3>2, <4>1
      <4>3. h[s] = f[x] + h[s \ {x}] /\ g[s] = f[x] + g[s \ {x}]
        BY <1>1, <2>2, <3>2, <4>1 DEF Adds
      <4> QED
        BY <2>3, <4>2, <4>3
    <3> QED
      BY <3>1, <3>2
  <2>4. IsFiniteSet(T)
    BY FS_Subset
  <2>5. T \in Good
    <3> HIDE DEF Good
    <3> QED
      BY <2>3, <2>4, SubsetSteps
  <2> QED
    BY <2>5, SumIsAdder DEF h
<1> HIDE DEF Sum
<1>3. Sum({}) = 0 /\ Sum(S) \in Int
  BY <1>1, <1>2 DEF Adds
<1>4. ASSUME S # {} PROVE \E x \in S : Sum(S) = f[x] + Sum(S \ {x})
  <2>1. PICK x : x = CHOOSE y \in S : TRUE
    OBVIOUS
  <2>2. x \in S /\ g[S] = f[x] + g[S \ {x}]
    BY <1>1, <1>4, <2>1 DEF Adds
  <2> QED
    BY <1>2, <2>2
<1> QED
  BY <1>3, <1>4 DEF Sum

LEMMA SumTake ==
  ASSUME NEW S, IsFiniteSet(S), NEW f, \A x \in S : f[x] \in Int, NEW x \in S
  PROVE  SumFunctionOnSet(f, S) = f[x] + SumFunctionOnSet(f, S \ {x})
<1> DEFINE Sum(T) == SumFunctionOnSet(f, T)
           Good == {T \in SUBSET S : \A y \in T : Sum(T) = f[y] + Sum(T \ {y})}
<1>1. ASSUME NEW T \in SUBSET S
      PROVE  Sum(T) \in Int /\ (T # {} => \E y \in T : Sum(T) = f[y] + Sum(T \ {y}))
  <2>1. IsFiniteSet(T)
    BY FS_Subset
  <2> QED
    BY <2>1, SumFunctionIs
<1> HIDE DEF Sum
<1>2. ASSUME NEW T \in SUBSET S, \A y \in T : T \ {y} \in Good PROVE T \in Good
  <2>1. ASSUME NEW z \in T PROVE Sum(T) = f[z] + Sum(T \ {z})
    <3>1. PICK y \in T : Sum(T) = f[y] + Sum(T \ {y})
      BY <1>1, <2>1
    <3>2. CASE z # y
      <4>1. z \in T \ {y} /\ y \in T \ {z} /\ (T \ {y}) \ {z} = (T \ {z}) \ {y}
        BY <2>1, <3>1, <3>2
      <4>2. Sum(T \ {y}) = f[z] + Sum((T \ {y}) \ {z})
        BY <1>2, <3>1, <4>1
      <4>3. Sum(T \ {z}) = f[y] + Sum((T \ {z}) \ {y})
        BY <1>2, <2>1, <4>1
      <4>4. (T \ {y}) \ {z} \in SUBSET S /\ f[y] \in Int /\ f[z] \in Int
        BY <2>1, <3>1
      <4>5. Sum((T \ {y}) \ {z}) \in Int
        BY <1>1, <4>4
      <4>6. Sum((T \ {y}) \ {z}) = Sum((T \ {z}) \ {y})
        BY <4>1
      <4> QED
        BY <3>1, <4>2, <4>3, <4>4, <4>5, <4>6
    <3> QED
      BY <3>1, <3>2
  <2> QED
    BY <2>1
<1>3. S \in Good
  <2> HIDE DEF Good
  <2> QED
    BY <1>2, SubsetSteps
<1> QED
  BY <1>3 DEF Sum

\* The sum of what is added, of what is added to some of the lines, and of no line at all.
LEMMA SumAdded ==
  ASSUME NEW S, IsFiniteSet(S), NEW f, NEW g, NEW h,
         \A x \in S : f[x] \in Int /\ g[x] \in Int /\ h[x] = f[x] + g[x]
  PROVE  SumFunctionOnSet(h, S) = SumFunctionOnSet(f, S) + SumFunctionOnSet(g, S)
<1> DEFINE F(T) == SumFunctionOnSet(f, T)
           G(T) == SumFunctionOnSet(g, T)
           H(T) == SumFunctionOnSet(h, T)
           Good == {T \in SUBSET S : H(T) = F(T) + G(T)}
<1>1. ASSUME NEW T \in SUBSET S, \A x \in T : T \ {x} \in Good PROVE T \in Good
  <2>1. IsFiniteSet(T)
    BY FS_Subset
  <2>2. CASE T = {}
    <3>1. H({}) = 0 /\ F({}) = 0 /\ G({}) = 0
      BY SumFunctionIs
    <3> HIDE DEF F, G, H
    <3> QED
      BY <2>2, <3>1
  <2>3. CASE T # {}
    <3>1. PICK x \in T : TRUE
      BY <2>3
    <3>2. F(T) = f[x] + F(T \ {x}) /\ G(T) = g[x] + G(T \ {x}) /\ H(T) = h[x] + H(T \ {x})
      BY <2>1, SumTake
    <3>3. IsFiniteSet(T \ {x})
      BY <2>1, FS_RemoveElement
    <3>4. F(T \ {x}) \in Int /\ G(T \ {x}) \in Int
      BY <3>3, SumFunctionIs
    <3> HIDE DEF F, G, H
    <3>5. H(T \ {x}) = F(T \ {x}) + G(T \ {x})
      BY <1>1
    <3> QED
      BY <3>2, <3>4, <3>5
  <2> QED
    BY <2>2, <2>3
<1>2. S \in Good
  <2> HIDE DEF Good
  <2> QED
    BY <1>1, SubsetSteps
<1> QED
  BY <1>2

LEMMA SumZero ==
  ASSUME NEW S, IsFiniteSet(S), NEW f, \A x \in S : f[x] = 0
  PROVE  SumFunctionOnSet(f, S) = 0
<1> DEFINE Good == {T \in SUBSET S : SumFunctionOnSet(f, T) = 0}
<1>1. ASSUME NEW T \in SUBSET S, \A x \in T : T \ {x} \in Good PROVE T \in Good
  <2>1. IsFiniteSet(T) /\ \A x \in T : f[x] \in Int
    BY FS_Subset
  <2>2. CASE T = {}
    BY <2>1, <2>2, SumFunctionIs
  <2>3. CASE T # {}
    <3>1. PICK x \in T : TRUE
      BY <2>3
    <3>2. SumFunctionOnSet(f, T) = f[x] + SumFunctionOnSet(f, T \ {x})
      BY <2>1, SumTake
    <3> QED
      BY <1>1, <3>2
  <2> QED
    BY <2>2, <2>3
<1>2. S \in Good
  <2> HIDE DEF Good
  <2> QED
    BY <1>1, SubsetSteps
<1> QED
  BY <1>2

LEMMA SumNat ==
  ASSUME NEW S, IsFiniteSet(S), NEW f, \A x \in S : f[x] \in Nat
  PROVE  /\ SumFunctionOnSet(f, S) \in Nat
         /\ \A x \in S : f[x] <= SumFunctionOnSet(f, S)
<1> DEFINE F(T) == SumFunctionOnSet(f, T)
           Good == {T \in SUBSET S : F(T) \in Nat}
<1>1. ASSUME NEW T \in SUBSET S, \A x \in T : T \ {x} \in Good PROVE T \in Good
  <2>1. IsFiniteSet(T)
    BY FS_Subset
  <2>2. CASE T = {}
    BY <2>2, SumFunctionIs
  <2>3. CASE T # {}
    <3>1. PICK x \in T : TRUE
      BY <2>3
    <3>2. F(T) = f[x] + F(T \ {x})
      BY <2>1, SumTake
    <3> HIDE DEF F
    <3> QED
      BY <1>1, <3>2
  <2> QED
    BY <2>2, <2>3
<1>2. ASSUME NEW T \in SUBSET S PROVE T \in Good
  <2>1. IsFiniteSet(T)
    BY FS_Subset
  <2> HIDE DEF Good
  <2> QED
    BY <1>1, <2>1, SubsetSteps
<1>3. ASSUME NEW x \in S PROVE f[x] <= F(S)
  <2>1. F(S) = f[x] + F(S \ {x})
    BY SumTake
  <2>2. F(S \ {x}) \in Nat
    BY <1>2
  <2> HIDE DEF F
  <2> QED
    BY <2>1, <2>2
<1> QED
  BY <1>2, <1>3

LEMMA SumSame ==
  ASSUME NEW S, IsFiniteSet(S), NEW f, NEW h, \A x \in S : f[x] \in Int /\ h[x] = f[x]
  PROVE  SumFunctionOnSet(h, S) = SumFunctionOnSet(f, S)
<1> DEFINE Good == {T \in SUBSET S : SumFunctionOnSet(h, T) = SumFunctionOnSet(f, T)}
<1>1. ASSUME NEW T \in SUBSET S, \A x \in T : T \ {x} \in Good PROVE T \in Good
  <2>1. IsFiniteSet(T)
    BY FS_Subset
  <2>2. CASE T = {}
    BY <2>2, SumFunctionIs
  <2>3. CASE T # {}
    <3>1. PICK x \in T : TRUE
      BY <2>3
    <3>2. /\ SumFunctionOnSet(f, T) = f[x] + SumFunctionOnSet(f, T \ {x})
          /\ SumFunctionOnSet(h, T) = h[x] + SumFunctionOnSet(h, T \ {x})
      BY <2>1, SumTake
    <3> QED
      BY <1>1, <3>2
  <2> QED
    BY <2>2, <2>3
<1>2. S \in Good
  <2> HIDE DEF Good
  <2> QED
    BY <1>1, SubsetSteps
<1> QED
  BY <1>2

LEMMA SumMore ==
  ASSUME NEW S, IsFiniteSet(S), NEW f, NEW h, NEW D \in SUBSET S, NEW v \in Int,
         \A x \in S : f[x] \in Int /\ h[x] = f[x] + IF x \in D THEN v ELSE 0
  PROVE  SumFunctionOnSet(h, S) = SumFunctionOnSet(f, S) + Cardinality(D) * v
<1> DEFINE Good == {T \in SUBSET S : SumFunctionOnSet(h, T) =
                      SumFunctionOnSet(f, T) + Cardinality(D \cap T) * v}
<1>1. ASSUME NEW T \in SUBSET S, \A x \in T : T \ {x} \in Good PROVE T \in Good
  <2>1. IsFiniteSet(T) /\ IsFiniteSet(D \cap T) /\ IsFiniteSet({})
    BY FS_Subset, FS_EmptySet
  <2>2. CASE T = {}
    <3>1. D \cap T = {} /\ Cardinality(D \cap T) = 0
      BY <2>2, FS_EmptySet
    <3>2. SumFunctionOnSet(h, T) = 0 /\ SumFunctionOnSet(f, T) = 0
      BY <2>1, <2>2, SumFunctionIs
    <3> QED
      BY <3>1, <3>2
  <2>3. CASE T # {}
    <3>1. PICK x \in T : TRUE
      BY <2>3
    <3> DEFINE a == SumFunctionOnSet(f, T \ {x})
               n == Cardinality(D \cap (T \ {x}))
    <3>2. /\ SumFunctionOnSet(f, T) = f[x] + a
          /\ SumFunctionOnSet(h, T) = h[x] + SumFunctionOnSet(h, T \ {x})
      BY <2>1, SumTake
    <3>3. IsFiniteSet(T \ {x})
      BY <2>1, FS_RemoveElement
    <3>4. a \in Int
      BY <3>3, SumFunctionIs
    <3>5. D \cap (T \ {x}) = (D \cap T) \ {x}
      OBVIOUS
    <3>6. n \in Nat /\ Cardinality(D \cap T) = n + IF x \in D THEN 1 ELSE 0
      <4>1. /\ Cardinality((D \cap T) \ {x}) =
                 IF x \in D \cap T THEN Cardinality(D \cap T) - 1 ELSE Cardinality(D \cap T)
            /\ IsFiniteSet((D \cap T) \ {x})
        BY <2>1, FS_RemoveElement
      <4>2. Cardinality(D \cap T) \in Nat /\ n \in Nat
        BY <2>1, <3>5, <4>1, FS_CardinalityType
      <4>3. n = Cardinality((D \cap T) \ {x})
        BY <3>5
      <4> HIDE DEF n
      <4> QED
        BY <3>1, <4>1, <4>2, <4>3
    <3>7. SumFunctionOnSet(h, T \ {x}) = a + n * v
      BY <1>1
    <3> HIDE DEF a, n
    <3>8. (n + 1) * v = n * v + v /\ n * v \in Int
      BY <3>6
    <3>9. SumFunctionOnSet(h, T) = SumFunctionOnSet(f, T) + Cardinality(D \cap T) * v
      BY <3>2, <3>4, <3>6, <3>7, <3>8
    <3> QED
      BY <3>9
  <2> QED
    BY <2>2, <2>3
<1>2. S \in Good
  <2> HIDE DEF Good
  <2> QED
    BY <1>1, SubsetSteps
<1>3. D \cap S = D
  OBVIOUS
<1> QED
  BY <1>2, <1>3

LEMMA SumOne ==
  ASSUME NEW S, IsFiniteSet(S), NEW f, NEW h, NEW i \in S, h[i] \in Int,
         \A x \in S : f[x] \in Int /\ (x # i => h[x] = f[x])
  PROVE  SumFunctionOnSet(h, S) = SumFunctionOnSet(f, S) + h[i] - f[i]
<1>1. /\ SumFunctionOnSet(f, S) = f[i] + SumFunctionOnSet(f, S \ {i})
      /\ SumFunctionOnSet(h, S) = h[i] + SumFunctionOnSet(h, S \ {i})
  BY SumTake
<1>2. IsFiniteSet(S \ {i})
  BY FS_RemoveElement
<1>3. SumFunctionOnSet(h, S \ {i}) = SumFunctionOnSet(f, S \ {i})
  BY <1>2, SumSame
<1>4. SumFunctionOnSet(f, S \ {i}) \in Int
  BY <1>2, SumFunctionIs
<1> QED
  BY <1>1, <1>3, <1>4

----------------------------------------------------------------------------
(* Credits divided among a charge and its taxes.                            *)

LEMMA PartsFinite == Parts \subseteq Nat /\ IsFiniteSet(Parts)
BY PricesAssumption, FS_Interval DEF Parts

LEMMA TotalIs ==
  ASSUME NEW f \in [Parts -> Int]
  PROVE  Total(f) = SumFunctionOnSet(f, Parts) /\ Total(f) \in Int
BY PartsFinite, SumFunctionIs DEF Total, SumFunction

LEMMA PriceTotal ==
  ASSUME NEW price \in Price
  PROVE  Total(price) \in Nat /\ \A j \in Parts : price[j] <= Total(price)
<1>1. price \in [Parts -> Int]
  BY DEF Price
<1> QED
  BY <1>1, PartsFinite, TotalIs, SumNat DEF Price

LEMMA HalfUpBound ==
  ASSUME NEW r \in Nat, NEW a \in Nat, NEW t \in Nat \ {0}, a <= t
  PROVE  HalfUp(r * a, t) \in 0..r
<1> DEFINE x == 2 * (r * a) + t
           q == x \div (2 * t)
<1>1. r * a \in Nat /\ r * t \in Nat /\ r * a <= r * t
  OBVIOUS
<1>2. x \in Nat /\ x <= 2 * (r * t) + t
  BY <1>1
<1>3. q \in Int /\ (2 * t) * q <= x /\ x < (2 * t) * q + 2 * t
  BY <1>2
<1>4. (2 * t) * q = 2 * (t * q) /\ t * q \in Int
  BY <1>3
<1> HIDE DEF x, q
<1>5. q <= r
  <2> SUFFICES ASSUME q >= r + 1 PROVE FALSE
    BY <1>3
  <2>1. t * q >= t * (r + 1)
    BY <1>3
  <2>2. t * (r + 1) = r * t + t
    OBVIOUS
  <2> QED
    BY <1>1, <1>2, <1>3, <1>4, <2>1, <2>2
<1>6. q >= 0
  <2> SUFFICES ASSUME q <= -1 PROVE FALSE
    BY <1>3
  <2>1. t * q <= t * (-1)
    BY <1>3
  <2>2. t * (-1) = -t
    OBVIOUS
  <2> QED
    BY <1>2, <1>3, <1>4, <2>1, <2>2
<1> QED
  BY <1>3, <1>5, <1>6 DEF HalfUp, q, x

\* TakeOf takes the amount from the parts in their order, or all there is.
LEMMA TakeSum ==
  ASSUME NEW room \in Price, NEW a \in Nat
  PROVE  /\ \A j \in Parts : TakeOf(room, a, j) \in 0..room[j]
         /\ Total([j \in Parts |-> TakeOf(room, a, j)]) = Min2(a, Total(room))
<1> DEFINE Before(j) == {h \in Parts : h < j}
           W(j) == SumFunctionOnSet(room, Before(j))
           take == [j \in Parts |-> TakeOf(room, a, j)]
           V(j) == SumFunctionOnSet(take, Before(j))
<1>1. ASSUME NEW j PROVE IsFiniteSet(Before(j)) /\ W(j) \in Nat
  <2>1. IsFiniteSet(Before(j))
    BY PartsFinite, FS_Subset
  <2> HIDE DEF Before
  <2>2. Before(j) \subseteq Parts
    BY DEF Before
  <2> QED
    BY <2>1, <2>2, SumNat DEF Price
<1>2. ASSUME NEW j \in Parts PROVE take[j] = Min2(room[j], Max0(a - W(j))) /\ room[j] \in Nat
  BY DEF TakeOf, Price
<1> HIDE DEF W
<1>3. ASSUME NEW j \in Parts PROVE take[j] \in 0..room[j]
  <2>1. W(j) \in Nat /\ room[j] \in Nat
    BY <1>1, <1>2
  <2> HIDE DEF take
  <2> QED
    BY <1>2, <2>1 DEF Min2, Max0
<1>4. take \in Price
  BY <1>2, <1>3 DEF Price
<1>5. DOMAIN take = Parts
  OBVIOUS
<1> HIDE DEF take
<1> DEFINE Good == {n \in Nat : n <= Taxes + 1 => V(n) = Min2(a, W(n))}
<1>6. 0 \in Good
  <2>1. Before(0) = {}
    BY PricesAssumption DEF Parts
  <2>2. V(0) = 0 /\ W(0) = 0
    <3> HIDE DEF Before
    <3> QED
      BY <2>1, SumFunctionIs, FS_EmptySet DEF W
  <2> HIDE DEF V
  <2> QED
    BY <2>2 DEF Min2
<1>7. ASSUME NEW n \in Nat, n \in Good PROVE n + 1 \in Good
  <2> SUFFICES ASSUME n + 1 <= Taxes + 1 PROVE V(n + 1) = Min2(a, W(n + 1))
    OBVIOUS
  <2>1. n \in Parts /\ n \in Before(n + 1) /\ Before(n + 1) \ {n} = Before(n)
    BY PricesAssumption DEF Parts
  <2>2. V(n + 1) = take[n] + V(n)
    <3>1. \A x \in Before(n + 1) : take[x] \in Int
      BY <1>4 DEF Price
    <3> HIDE DEF Before
    <3> QED
      BY <1>1, <2>1, <3>1, SumTake
  <2>3. W(n + 1) = room[n] + W(n)
    <3>1. \A x \in Before(n + 1) : room[x] \in Int
      BY DEF Price
    <3> HIDE DEF Before
    <3> QED
      BY <1>1, <2>1, <3>1, SumTake DEF W
  <2>4. V(n) = Min2(a, W(n))
    BY <1>7, PricesAssumption
  <2>5. W(n) \in Nat /\ room[n] \in Nat /\ take[n] = Min2(room[n], Max0(a - W(n)))
    BY <1>1, <1>2, <2>1
  <2> HIDE DEF V
  <2> QED
    BY <2>2, <2>3, <2>4, <2>5 DEF Min2, Max0
<1>8. Taxes + 1 \in Good
  <2> HIDE DEF Good
  <2> QED
    BY <1>6, <1>7, NatSteps, PricesAssumption
<1>9. Before(Taxes + 1) = Parts
  BY PricesAssumption DEF Parts
<1>10. V(Taxes + 1) = Total(take) /\ W(Taxes + 1) = Total(room)
  <2>1. take \in [Parts -> Int] /\ room \in [Parts -> Int]
    BY <1>4 DEF Price
  <2> HIDE DEF Before
  <2> QED
    BY <1>9, <2>1, TotalIs DEF W
<1> QED
  BY <1>3, <1>8, <1>10, PricesAssumption DEF take

LEMMA Divided ==
  ASSUME NEW rest \in Price, NEW a \in 1..Total(rest)
  PROVE  ProportionalCredit(rest, a) \in Price /\ Total(ProportionalCredit(rest, a)) = a
<1> DEFINE part == [j \in Parts |-> HalfUp(rest[j] * a, Total(rest))]
           room == [j \in Parts |-> rest[j] - part[j]]
           over == Max0(Total(part) - a)
           left == Max0(a - Total(part))
           more == [j \in Parts |-> TakeOf(room, left, j)]
           less == [j \in Parts |-> TakeOf(part, over, j)]
           credit == ProportionalCredit(rest, a)
<1>1. Total(rest) \in Nat \ {0} /\ a \in Nat /\ a <= Total(rest)
  BY PriceTotal
<1>2. \A j \in Parts : part[j] \in 0..rest[j] /\ rest[j] \in Nat
  BY <1>1, HalfUpBound DEF Price
<1> HIDE DEF part
<1>3. part \in Price /\ room \in Price
  <2>1. part = [j \in Parts |-> part[j]]
    BY DEF part
  <2> QED
    BY <1>2, <2>1 DEF Price
<1>4. credit = [j \in Parts |-> part[j] + more[j] - less[j]]
  BY DEF ProportionalCredit, part
<1> HIDE DEF credit
<1>5. Total(rest) = Total(part) + Total(room) /\ Total(part) \in Nat /\ Total(room) \in Nat
  <2>1. \A j \in Parts : part[j] \in Int /\ room[j] \in Int /\ rest[j] = part[j] + room[j]
    BY <1>2
  <2>2. part \in [Parts -> Int] /\ room \in [Parts -> Int] /\ rest \in [Parts -> Int]
    BY <1>3 DEF Price
  <2> HIDE DEF room
  <2>3. SumFunctionOnSet(rest, Parts) = SumFunctionOnSet(part, Parts) + SumFunctionOnSet(room, Parts)
    BY <2>1, PartsFinite, SumAdded
  <2>4. Total(rest) = Total(part) + Total(room)
    BY <2>2, <2>3, TotalIs
  <2> QED
    BY <1>3, <2>4, PriceTotal
<1> HIDE DEF room
<1>6. over \in Nat /\ left \in Nat
  BY <1>1, <1>5 DEF Max0
<1> HIDE DEF over, left
<1>7. /\ \A j \in Parts : more[j] \in 0..room[j] /\ less[j] \in 0..part[j]
      /\ Total(more) = Min2(left, Total(room)) /\ Total(less) = Min2(over, Total(part))
  BY <1>3, <1>6, TakeSum
<1>8. more \in [Parts -> Int] /\ less \in [Parts -> Int]
  <2>1. more = [j \in Parts |-> more[j]] /\ less = [j \in Parts |-> less[j]]
    OBVIOUS
  <2> HIDE DEF more, less
  <2> QED
    BY <1>7, <2>1
<1> HIDE DEF more, less
<1>9. credit \in Price
  BY <1>3, <1>4, <1>7, <1>8 DEF Price
<1>10. Total(credit) + Total(less) = Total(part) + Total(more)
  <2> DEFINE sum == [j \in Parts |-> part[j] + more[j]]
  <2>1. \A j \in Parts : /\ part[j] \in Int /\ more[j] \in Int /\ less[j] \in Int /\ credit[j] \in Int
                         /\ sum[j] = part[j] + more[j] /\ sum[j] = credit[j] + less[j]
    BY <1>3, <1>4, <1>8, <1>9 DEF Price
  <2> HIDE DEF sum
  <2>2. /\ SumFunctionOnSet(sum, Parts) = SumFunctionOnSet(part, Parts) + SumFunctionOnSet(more, Parts)
        /\ SumFunctionOnSet(sum, Parts) = SumFunctionOnSet(credit, Parts) + SumFunctionOnSet(less, Parts)
    BY <2>1, PartsFinite, SumAdded
  <2>3. part \in [Parts -> Int] /\ credit \in [Parts -> Int]
    BY <1>3, <1>9 DEF Price
  <2> QED
    BY <1>8, <2>2, <2>3, TotalIs
<1>11. Total(credit) \in Int
  BY <1>9, PriceTotal
<1>12. over = Max0(Total(part) - a) /\ left = Max0(a - Total(part))
  BY DEF over, left
<1>13. Total(credit) = a
  BY <1>1, <1>5, <1>7, <1>10, <1>11, <1>12 DEF Min2, Max0
<1> QED
  BY <1>9, <1>13 DEF credit

----------------------------------------------------------------------------
(* The inductive invariant.                                                 *)

Command ==
  [op : {"idle", "charge", "nights", "reverse", "adjust", "pay", "void", "refund", "uncheck"},
   key : Keys \cup {None}, ref : Items \cup Payments \cup Nat \cup {None},
   read : Line \cup {NoLine}, open : SUBSET Nights, amount : Nat]

\* A line keeps what it was posted with.
SameCharge(l, m) == l \in Line /\ m \in Line /\ l.parts = m.parts /\ l.base = m.base

\* What a command has read is still so, as far as it relies on it, and its key is free.
Pending(c) ==
  /\ tx[c].op = "idle" => tx[c] = Idle
  /\ tx[c].op \in {"idle", "uncheck"} <=> tx[c].key = None
  /\ tx[c].key # None => key[tx[c].key] # "LIVE"
  /\ tx[c].op \in {"reverse", "adjust"} =>
       /\ tx[c].ref \in Items /\ SameCharge(tx[c].read, line[tx[c].ref])
       /\ \A j \in Parts : tx[c].read.credited[j] <= tx[c].read.parts[j]
  /\ tx[c].op = "adjust" => tx[c].amount > 0
  /\ tx[c].op \in {"void", "refund"} => tx[c].ref \in Payments /\ pay[tx[c].ref] # NoPayment

\* One command at a time has a key.
KeysHeld == \A c, d \in Clients : c # d /\ tx[c].key # None => tx[c].key # tx[d].key

\* A key that is live was used in this life.
KeysUsed == \A k \in Keys : life[k] = ran[k] + IF key[k] = "LIVE" THEN 0 ELSE 1

FolioInv ==
  /\ TypeOK /\ Corrected /\ NightOnce /\ BalanceIsLedger
  /\ KeysHeld /\ KeysUsed /\ \A c \in Clients : Pending(c)

LEMMA IdleCommand == Idle \in Command
BY DEF Idle, Command

\* What is kept for the commands under way while another one commits.
Kept ==
  /\ \A i \in Items : line[i] \in Line => SameCharge(line[i], line'[i])
  /\ \A p \in Payments : pay[p] # NoPayment => pay'[p] # NoPayment

LEMMA PendingKept ==
  ASSUME FolioInv, Kept, NEW c \in Clients, tx'[c] = tx[c],
         tx[c].key # None => key'[tx[c].key] # "LIVE"
  PROVE  Pending(c)'
<1>1. Pending(c)
  BY DEF FolioInv
<1>2. ASSUME tx[c].op \in {"reverse", "adjust"}
      PROVE  SameCharge(tx[c].read, line[tx[c].ref])'
  BY <1>1, <1>2 DEF Pending, Kept, SameCharge
<1>3. ASSUME tx[c].op \in {"void", "refund"} PROVE pay'[tx[c].ref] # NoPayment
  BY <1>1, <1>3 DEF Pending, Kept
<1> QED
  BY <1>1, <1>2, <1>3 DEF Pending

LEMMA LinesKept ==
  ASSUME FolioInv, line' = line, pay' = pay
  PROVE  Kept
BY DEF Kept, FolioInv, TypeOK, SameCharge

\* The account is untouched.
LEMMA AccountFrame ==
  ASSUME FolioInv, UNCHANGED <<line, pay, posted>>, folio'.balance = folio.balance
  PROVE  Corrected' /\ NightOnce' /\ BalanceIsLedger'
<1>1. Corrected'
  BY DEF FolioInv, Corrected
<1>2. NightOnce'
  BY DEF FolioInv, NightOnce, Live
<1>3. BalanceIsLedger'
  BY DEF FolioInv, BalanceIsLedger, Charged, Paid
<1> QED
  BY <1>1, <1>2, <1>3

\* A command begins or is rolled back.
LEMMA CommandStep ==
  ASSUME FolioInv, NEW c \in Clients, NEW row \in Command, tx' = [tx EXCEPT ![c] = row],
         UNCHANGED <<date, stay, folio, line, pay, posted, key, life, ran>>,
         Pending(c)', row.key # None => \A d \in Clients : tx[d].key # row.key
  PROVE  FolioInv'
<1>1. TypeOK'
  BY DEF FolioInv, TypeOK, Command
<1>2. tx'[c] = row /\ \A d \in Clients \ {c} : tx'[d] = tx[d]
  BY DEF FolioInv, TypeOK
<1>3. KeysHeld'
  BY <1>2 DEF FolioInv, KeysHeld
<1>4. KeysUsed'
  BY DEF FolioInv, KeysUsed
<1>5. \A d \in Clients : Pending(d)'
  <2>1. ASSUME NEW d \in Clients, d # c PROVE Pending(d)'
    <3>1. tx[d].key # None => key'[tx[d].key] # "LIVE"
      BY DEF FolioInv, Pending
    <3> QED
      BY <1>2, <2>1, <3>1, LinesKept, PendingKept
  <2> QED
    BY <2>1
<1> QED
  BY <1>1, <1>3, <1>4, <1>5, AccountFrame DEF FolioInv

LEMMA RollbackKeeps ==
  ASSUME FolioInv, NEW c \in Clients, Rollback(c)
  PROVE  FolioInv'
<1>1. tx'[c] = Idle
  BY DEF FolioInv, TypeOK, Rollback
<1>2. Pending(c)'
  BY <1>1, NoneAssumption DEF Pending, Idle
<1> QED
  BY <1>2, IdleCommand, CommandStep DEF Rollback, Idle

\* The commands that have a key and no line or payment.
LEMMA PlainRequest ==
  ASSUME FolioInv, NEW c \in Clients, NEW k \in Keys, Claimable(k), NEW row \in Command, Ask(c, row),
         row.op \in {"charge", "nights", "pay"}, row.key = k,
         UNCHANGED <<date, stay, folio, line, pay, posted, key, life, ran>>
  PROVE  FolioInv'
<1>1. tx'[c] = row /\ key'[k] # "LIVE" /\ k # None
  BY NoneAssumption DEF FolioInv, TypeOK, Ask, Claimable
<1>2. Pending(c)'
  BY <1>1 DEF Pending
<1> QED
  BY <1>2, CommandStep DEF Ask, Claimable

LEMMA RequestKeeps ==
  ASSUME FolioInv, NEW c \in Clients, Request(c)
  PROVE  FolioInv'
<1> PICK k \in Keys :
      \/ AskCharge(c, k) \/ AskNights(c, k) \/ AskPay(c, k)
      \/ \E i \in Items : AskReverse(c, k, i) \/ AskAdjust(c, k, i)
      \/ \E p \in Payments, op \in {"void", "refund"} : AskPayment(c, k, op, p)
  BY DEF Request
<1>1. CASE AskCharge(c, k)
  <2> DEFINE row == [Idle EXCEPT !.op = "charge", !.key = k]
  <2>1. row \in Command /\ row.op = "charge" /\ row.key = k
    BY IdleCommand DEF Idle, Command
  <2> QED
    BY <1>1, <2>1, PlainRequest DEF AskCharge
<1>2. CASE AskNights(c, k)
  <2>1. PICK through \in Nights :
          Ask(c, [Idle EXCEPT !.op = "nights", !.key = k, !.open = Unposted(through)])
    BY <1>2 DEF AskNights
  <2> DEFINE row == [Idle EXCEPT !.op = "nights", !.key = k, !.open = Unposted(through)]
  <2>2. row \in Command /\ row.op = "nights" /\ row.key = k
    BY IdleCommand DEF Idle, Command, Unposted
  <2> QED
    BY <1>2, <2>1, <2>2, PlainRequest DEF AskNights
<1>3. CASE AskPay(c, k)
  <2>1. PICK a \in 1..folio.balance :
          Ask(c, [Idle EXCEPT !.op = "pay", !.key = k, !.ref = folio.version, !.amount = a])
    BY <1>3 DEF AskPay
  <2> DEFINE row == [Idle EXCEPT !.op = "pay", !.key = k, !.ref = folio.version, !.amount = a]
  <2>2. a \in Nat /\ folio.version \in Nat
    BY DEF FolioInv, TypeOK
  <2>3. row \in Command /\ row.op = "pay" /\ row.key = k
    BY <2>2, IdleCommand DEF Idle, Command
  <2> QED
    BY <1>3, <2>1, <2>3, PlainRequest DEF AskPay
<1>4. ASSUME NEW i \in Items, AskReverse(c, k, i) \/ AskAdjust(c, k, i) PROVE FolioInv'
  <2>1. /\ Claimable(k) /\ line[i] # NoLine
        /\ UNCHANGED <<date, stay, folio, line, pay, posted, key, life, ran>>
    BY <1>4 DEF AskReverse, AskAdjust
  <2>2. line[i] \in Line /\ \A j \in Parts : line[i].credited[j] <= line[i].parts[j]
    BY <2>1 DEF FolioInv, TypeOK, Corrected, Line, Price
  <2>3. PICK row \in Command : /\ Ask(c, row) /\ row.op \in {"reverse", "adjust"} /\ row.key = k
                               /\ row.ref = i /\ row.read = line[i]
                               /\ row.op = "adjust" => row.amount > 0
    <3>1. CASE AskReverse(c, k, i)
      <4> DEFINE row == [Idle EXCEPT !.op = "reverse", !.key = k, !.ref = i, !.read = line[i]]
      <4>1. /\ row \in Command /\ row.op = "reverse" /\ row.key = k
            /\ row.ref = i /\ row.read = line[i]
        BY <2>2, IdleCommand DEF Idle, Command
      <4> QED
        BY <3>1, <4>1 DEF AskReverse
    <3>2. CASE AskAdjust(c, k, i)
      <4>1. PICK a \in 1..Total(line[i].parts) :
              Ask(c, [Idle EXCEPT !.op = "adjust", !.key = k, !.ref = i, !.read = line[i], !.amount = a])
        BY <3>2 DEF AskAdjust
      <4> DEFINE row == [Idle EXCEPT !.op = "adjust", !.key = k, !.ref = i, !.read = line[i], !.amount = a]
      <4>2. a \in Nat /\ a > 0
        OBVIOUS
      <4>3. /\ row \in Command /\ row.op = "adjust" /\ row.key = k
            /\ row.ref = i /\ row.read = line[i] /\ row.amount > 0
        BY <2>2, <4>2, IdleCommand DEF Idle, Command
      <4> QED
        BY <4>1, <4>3
    <3> QED
      BY <1>4, <3>1, <3>2
  <2>4. tx'[c] = row /\ key'[k] # "LIVE" /\ k # None
    BY <2>1, <2>3, NoneAssumption DEF FolioInv, TypeOK, Ask, Claimable
  <2>5. Pending(c)'
    BY <2>1, <2>2, <2>3, <2>4 DEF Pending, SameCharge
  <2> QED
    BY <2>1, <2>3, <2>5, CommandStep DEF Ask, Claimable
<1>5. ASSUME NEW p \in Payments, NEW op \in {"void", "refund"}, AskPayment(c, k, op, p)
      PROVE  FolioInv'
  <2> DEFINE row == [Idle EXCEPT !.op = op, !.key = k, !.ref = p]
  <2>1. /\ row \in Command /\ row.op \in {"void", "refund"} /\ row.key = k /\ row.ref = p
    BY IdleCommand DEF Idle, Command
  <2> HIDE DEF row
  <2>2. /\ Claimable(k) /\ pay[p] # NoPayment /\ Ask(c, row)
        /\ UNCHANGED <<date, stay, folio, line, pay, posted, key, life, ran>>
    BY <1>5 DEF AskPayment, row
  <2>3. tx'[c] = row /\ key'[k] # "LIVE" /\ k # None
    BY <2>2, NoneAssumption DEF FolioInv, TypeOK, Ask, Claimable
  <2>4. Pending(c)'
    BY <2>1, <2>2, <2>3 DEF Pending
  <2> QED
    BY <2>1, <2>2, <2>4, CommandStep DEF Ask, Claimable
<1> QED
  BY <1>1, <1>2, <1>3, <1>4, <1>5

\* What happens to the stay, to the status of the folio and to free keys.
LEMMA ExpireKeeps ==
  ASSUME FolioInv, NEW k \in Keys, Expire(k)
  PROVE  FolioInv'
<1>1. TypeOK'
  BY DEF FolioInv, TypeOK, Expire
<1>2. Corrected' /\ NightOnce' /\ BalanceIsLedger'
  BY AccountFrame DEF Expire
<1>3. KeysHeld' /\ KeysUsed'
  BY DEF FolioInv, TypeOK, Expire, KeysHeld, KeysUsed
<1>4. \A c \in Clients : Pending(c)'
  <2>1. ASSUME NEW c \in Clients PROVE tx[c].key # None => key'[tx[c].key] # "LIVE"
    BY DEF FolioInv, TypeOK, Expire, Pending
  <2> QED
    BY <2>1, LinesKept, PendingKept DEF Expire
<1> QED
  BY <1>1, <1>2, <1>3, <1>4 DEF FolioInv

FolioRow == [status : {"NONE", "OPEN", "SETTLED"}, balance : Int, version : Nat]

LEMMA FolioRows ==
  ASSUME folio \in FolioRow
  PROVE  /\ SettledRow \in FolioRow /\ SettledRow.balance = folio.balance
         /\ \A amount \in Int : /\ Posted(amount) \in FolioRow /\ Posted(amount).status = "OPEN"
                               /\ Posted(amount).balance = folio.balance + amount
<1>1. folio.version + 1 \in Nat /\ folio.balance \in Int
  BY DEF FolioRow
<1>2. SettledRow \in FolioRow /\ SettledRow.balance = folio.balance
  BY <1>1 DEF FolioRow, SettledRow
<1>3. ASSUME NEW amount \in Int
      PROVE  /\ Posted(amount) \in FolioRow /\ Posted(amount).status = "OPEN"
             /\ Posted(amount).balance = folio.balance + amount
  <2>1. folio.balance + amount \in Int
    BY <1>1
  <2> QED
    BY <1>1, <2>1 DEF FolioRow, Posted
<1> QED
  BY <1>2, <1>3

LEMMA SettleKeeps ==
  ASSUME FolioInv, SettleFolio \/ CheckIn \/ CheckOut
  PROVE  FolioInv'
<1>1. /\ UNCHANGED <<date, line, pay, posted, key, life, ran, tx>>
      /\ folio'.balance = folio.balance
  BY DEF FolioInv, TypeOK, SettleFolio, CheckIn, CheckOut, SettledRow
<1>2. /\ stay' \in [status : {"RESERVED", "IN_HOUSE", "CHECKED_OUT"}, last : 0..LastNight]
      /\ folio' \in FolioRow
  <2>0. folio \in FolioRow /\ SettledRow \in FolioRow
    BY FolioRows DEF FolioInv, TypeOK, FolioRow
  <2>1. CASE SettleFolio
    BY <2>0, <2>1 DEF FolioInv, TypeOK, SettleFolio
  <2>2. CASE CheckIn
    <3>1. /\ stay' = [stay EXCEPT !.status = "IN_HOUSE"]
          /\ folio' = [folio EXCEPT !.status = "OPEN"] \/ folio' = folio
      BY <2>2 DEF CheckIn
    <3>2. stay' \in [status : {"RESERVED", "IN_HOUSE", "CHECKED_OUT"}, last : 0..LastNight]
      BY <3>1 DEF FolioInv, TypeOK
    <3>3. folio' \in FolioRow
      BY <2>0, <3>1 DEF FolioRow
    <3> QED
      BY <3>2, <3>3
  <2>3. CASE CheckOut
    <3>1. Min2(stay.last, date - 1) \in 0..LastNight
      BY <2>3, DatesAssumption DEF CheckOut, FolioInv, TypeOK, Min2, Dates
    <3>2. /\ stay' = [status |-> "CHECKED_OUT", last |-> Min2(stay.last, date - 1)]
          /\ folio' = SettledRow \/ folio' = folio
      BY <2>3 DEF CheckOut
    <3> QED
      BY <2>0, <3>1, <3>2
  <2> QED
    BY <2>1, <2>2, <2>3
<1>3. TypeOK'
  BY <1>1, <1>2 DEF FolioInv, TypeOK, FolioRow
<1>4. KeysHeld' /\ KeysUsed'
  BY <1>1 DEF FolioInv, KeysHeld, KeysUsed
<1>5. \A c \in Clients : Pending(c)'
  BY <1>1, LinesKept, PendingKept DEF FolioInv, Pending
<1> QED
  BY <1>1, <1>3, <1>4, <1>5, AccountFrame DEF FolioInv

LEMMA ReverseCheckInKeeps ==
  ASSUME FolioInv, NEW c \in Clients, AskReverseCheckIn(c) \/ ReverseCheckIn(c)
  PROVE  FolioInv'
<1>1. CASE AskReverseCheckIn(c)
  <2> DEFINE row == [Idle EXCEPT !.op = "uncheck"]
  <2>1. row \in Command /\ row.op = "uncheck" /\ row.key = None
    BY IdleCommand DEF Idle, Command
  <2> HIDE DEF row
  <2>2. Ask(c, row) /\ UNCHANGED <<date, stay, folio, line, pay, posted, key, life, ran>>
    BY <1>1 DEF AskReverseCheckIn, row
  <2>3. tx'[c] = row
    BY <2>2 DEF FolioInv, TypeOK, Ask
  <2>4. Pending(c)'
    BY <2>1, <2>3 DEF Pending
  <2> QED
    BY <2>1, <2>2, <2>4, CommandStep DEF Ask
<1>2. CASE ReverseCheckIn(c)
  <2>1. /\ UNCHANGED <<date, folio, line, pay, posted, key, life, ran>>
        /\ stay' = [stay EXCEPT !.status = "RESERVED"] /\ tx' = [tx EXCEPT ![c] = Idle]
    BY <1>2 DEF ReverseCheckIn
  <2>2. TypeOK'
    BY <2>1, IdleCommand DEF FolioInv, TypeOK, Command
  <2>3. tx'[c] = Idle /\ \A d \in Clients \ {c} : tx'[d] = tx[d]
    BY <2>1 DEF FolioInv, TypeOK
  <2>4. KeysHeld' /\ KeysUsed'
    BY <2>1, <2>3 DEF FolioInv, KeysHeld, KeysUsed, Idle
  <2>5. ASSUME NEW d \in Clients PROVE Pending(d)'
    <3>1. CASE d = c
      BY <2>3, <3>1 DEF Pending, Idle
    <3>2. CASE d # c
      BY <2>1, <2>3, <3>2, LinesKept, PendingKept DEF FolioInv, Pending
    <3> QED
      BY <3>1, <3>2
  <2> QED
    BY <2>1, <2>2, <2>4, <2>5, AccountFrame DEF FolioInv
<1> QED
  BY <1>1, <1>2

----------------------------------------------------------------------------
(* What a command posts.                                                    *)

LEMMA NetType ==
  ASSUME NEW l \in Line \cup {NoLine}
  PROVE  /\ Remaining(l) \in [Parts -> Int] /\ Net(l) \in Int
         /\ ~l.reversed => Net(l) = SumFunctionOnSet(Remaining(l), Parts)
<1>1. Remaining(l) \in [Parts -> Int]
  BY DEF Remaining, Line, NoLine, Zero, Price
<1> QED
  BY <1>1, TotalIs DEF Net

LEMMA ZeroTotal == Zero \in Price /\ Total(Zero) = 0
<1>1. Zero \in Price /\ Zero \in [Parts -> Int] /\ \A j \in Parts : Zero[j] = 0
  BY DEF Zero, Price
<1> QED
  BY <1>1, PartsFinite, SumZero, TotalIs

LEMMA NetNew ==
  ASSUME NEW price \in Price, NEW base
  PROVE  Net(Charge(price, base)) = Total(price) /\ Net(NoLine) = 0
<1>1. Remaining(Charge(price, base)) = price
  BY DEF Remaining, Charge, Price, Zero
<1>2. Remaining(NoLine) = Zero
  BY DEF Remaining, NoLine, Zero
<1> QED
  BY <1>1, <1>2, ZeroTotal DEF Net, Charge, NoLine

LEMMA PaidType ==
  ASSUME NEW p \in Payment \cup {NoPayment}
  PROVE  NetPaid(p) \in Nat
BY DEF NetPaid, Payment, NoPayment

\* The sums of the ledger.
LEMMA ChargedIs ==
  ASSUME line \in [Items -> Line \cup {NoLine}]
  PROVE  /\ Charged = SumFunctionOnSet([i \in Items |-> Net(line[i])], Items)
         /\ Charged \in Int
<1>1. \A i \in Items : [j \in Items |-> Net(line[j])][i] \in Int
  BY NetType
<1>2. Charged = SumFunctionOnSet([i \in Items |-> Net(line[i])], Items)
  BY DEF Charged, SumFunction
<1> QED
  BY <1>1, <1>2, RowsAssumption, SumFunctionIs

LEMMA PaidIs ==
  ASSUME pay \in [Payments -> Payment \cup {NoPayment}]
  PROVE  /\ Paid = SumFunctionOnSet([p \in Payments |-> NetPaid(pay[p])], Payments)
         /\ Paid \in Nat /\ \A p \in Payments : NetPaid(pay[p]) <= Paid
<1>1. \A p \in Payments : [q \in Payments |-> NetPaid(pay[q])][p] \in Nat
  BY PaidType
<1>2. Paid = SumFunctionOnSet([p \in Payments |-> NetPaid(pay[p])], Payments)
  BY DEF Paid, SumFunction
<1> QED
  BY <1>1, <1>2, RowsAssumption, SumNat

LEMMA ChargedOne ==
  ASSUME TypeOK, line' \in [Items -> Line \cup {NoLine}], NEW i \in Items,
         \A x \in Items \ {i} : line'[x] = line[x]
  PROVE  Charged' = Charged + Net(line'[i]) - Net(line[i])
<1> DEFINE F == [x \in Items |-> Net(line[x])]
           H == [x \in Items |-> Net(line'[x])]
<1>1. \A x \in Items : F[x] \in Int /\ H[x] \in Int /\ (x # i => H[x] = F[x])
  BY NetType DEF TypeOK
<1>2. F[i] = Net(line[i]) /\ H[i] = Net(line'[i])
  OBVIOUS
<1>3. Charged = SumFunctionOnSet(F, Items)
  BY ChargedIs DEF TypeOK
<1>4. Charged' = SumFunctionOnSet(H, Items)
  BY DEF Charged, SumFunction
<1> HIDE DEF F, H
<1>5. SumFunctionOnSet(H, Items) = SumFunctionOnSet(F, Items) + H[i] - F[i]
  BY <1>1, RowsAssumption, SumOne
<1> QED
  BY <1>2, <1>3, <1>4, <1>5

LEMMA PaidOne ==
  ASSUME TypeOK, pay' \in [Payments -> Payment \cup {NoPayment}], NEW p \in Payments,
         \A x \in Payments \ {p} : pay'[x] = pay[x]
  PROVE  Paid' = Paid + NetPaid(pay'[p]) - NetPaid(pay[p])
<1> DEFINE F == [x \in Payments |-> NetPaid(pay[x])]
           H == [x \in Payments |-> NetPaid(pay'[x])]
<1>1. \A x \in Payments : F[x] \in Int /\ H[x] \in Int /\ (x # p => H[x] = F[x])
  BY PaidType DEF TypeOK
<1>2. F[p] = NetPaid(pay[p]) /\ H[p] = NetPaid(pay'[p])
  OBVIOUS
<1>3. Paid = SumFunctionOnSet(F, Payments)
  BY PaidIs DEF TypeOK
<1>4. Paid' = SumFunctionOnSet(H, Payments)
  BY DEF Paid, SumFunction
<1> HIDE DEF F, H
<1>5. SumFunctionOnSet(H, Payments) = SumFunctionOnSet(F, Payments) + H[p] - F[p]
  BY <1>1, RowsAssumption, SumOne
<1> QED
  BY <1>2, <1>3, <1>4, <1>5

LEMMA NoLineIsNone == NoLine \notin Line /\ NoPayment \notin Payment
BY DEF NoLine, Line, Dates, NoPayment, Payment

LEMMA ChargeType ==
  ASSUME TypeOK, NEW price \in Price, NEW base \in Bases \cup {None}
  PROVE  /\ Charge(price, base) \in Line
         /\ \A j \in Parts : Charge(price, base).credited[j] \in 0..Charge(price, base).parts[j]
         /\ Charge(price, base).base = base /\ ~Charge(price, base).reversed
<1>1. date \in Dates /\ Zero \in Price /\ \A j \in Parts : Zero[j] = 0 /\ price[j] \in Nat
  BY DEF TypeOK, Zero, Price
<1> QED
  BY <1>1 DEF Charge, Line

\* A command posts what it posts and answers.
LEMMA AnswerStep ==
  ASSUME FolioInv, NEW c \in Clients, tx[c].op \notin {"idle", "uncheck"}, Answer(c), Kept,
         UNCHANGED <<date, stay>>, folio' \in FolioRow,
         line' \in [Items -> Line \cup {NoLine}], pay' \in [Payments -> Payment \cup {NoPayment}],
         posted' \in [Nights -> BOOLEAN], Corrected', NightOnce', BalanceIsLedger'
  PROVE  FolioInv'
<1>1. PICK k \in Keys : k = tx[c].key /\ k # None /\ key[k] # "LIVE"
  <2>1. tx[c].key # None /\ tx[c].key \in Keys \cup {None}
    BY DEF FolioInv, Pending, TypeOK
  <2> QED
    BY <2>1 DEF FolioInv, Pending
<1>2. /\ key' = [key EXCEPT ![k] = "LIVE"] /\ ran' = [ran EXCEPT ![k] = ran[k] + 1]
      /\ tx' = [tx EXCEPT ![c] = Idle] /\ life' = life
  BY <1>1 DEF Answer
<1>3. TypeOK'
  <2>1. /\ key' \in [Keys -> {"NONE", "LIVE", "EXPIRED"}] /\ ran' \in [Keys -> Nat]
        /\ life' \in [Keys -> Nat] /\ tx' \in [Clients -> Command]
    BY <1>2, IdleCommand DEF FolioInv, TypeOK, Command
  <2> QED
    BY <2>1 DEF FolioInv, TypeOK, Command, FolioRow
<1>4. tx'[c] = Idle /\ Idle.key = None /\ \A d \in Clients \ {c} : tx'[d] = tx[d]
  BY <1>2 DEF FolioInv, TypeOK, Idle
<1>5. KeysHeld'
  BY <1>4 DEF FolioInv, KeysHeld
<1>6. KeysUsed'
  BY <1>1, <1>2 DEF FolioInv, TypeOK, KeysUsed
<1>7. ASSUME NEW d \in Clients PROVE Pending(d)'
  <2>1. CASE d = c
    BY <1>4, <2>1 DEF Pending, Idle
  <2>2. CASE d # c
    <3>1. tx[d].key # None => tx[d].key # k
      BY <1>1, <2>2 DEF FolioInv, KeysHeld
    <3>2. ASSUME tx[d].key # None PROVE key'[tx[d].key] # "LIVE"
      <4>1. key[tx[d].key] # "LIVE" /\ tx[d].key \in Keys
        BY <3>2 DEF FolioInv, Pending, TypeOK
      <4> QED
        BY <1>2, <3>1, <3>2, <4>1 DEF FolioInv, TypeOK
    <3> QED
      BY <1>4, <2>2, <3>2, PendingKept
  <2> QED
    BY <2>1, <2>2
<1> QED
  BY <1>3, <1>5, <1>6, <1>7 DEF FolioInv

LEMMA PostChargeKeeps ==
  ASSUME FolioInv, NEW c \in Clients, PostCharge(c)
  PROVE  FolioInv' /\ Charged' >= Charged /\ folio'.status = "OPEN" /\ UNCHANGED pay
<1>1. PICK price \in Prices :
        /\ line' = [line EXCEPT ![CHOOSE i \in FreeItems : TRUE] = Charge(price, None)]
        /\ folio' = Posted(Total(price))
  BY DEF PostCharge
<1>2. PICK i : i = CHOOSE j \in FreeItems : TRUE
  OBVIOUS
<1>3. i \in Items /\ line[i] = NoLine /\ line' = [line EXCEPT ![i] = Charge(price, None)]
  BY <1>1, <1>2 DEF PostCharge, FreeItems
<1>4. /\ price \in Price /\ Total(price) \in Nat
  BY PricesAssumption, PriceTotal
<1>5. /\ TypeOK /\ folio \in FolioRow /\ NoLine \notin Line
  BY NoLineIsNone DEF FolioInv, TypeOK, FolioRow
<1>6. /\ folio' \in FolioRow /\ folio'.status = "OPEN"
      /\ folio'.balance = folio.balance + Total(price)
  BY <1>1, <1>4, <1>5, FolioRows
<1>7. /\ Charge(price, None) \in Line /\ Charge(price, None).base = None
      /\ ~Charge(price, None).reversed
      /\ \A j \in Parts : Charge(price, None).credited[j] \in 0..Charge(price, None).parts[j]
  BY <1>4, <1>5, ChargeType
<1>8. line'[i] = Charge(price, None) /\ \A x \in Items \ {i} : line'[x] = line[x]
  BY <1>3, <1>5 DEF TypeOK
<1>9. line' \in [Items -> Line \cup {NoLine}]
  BY <1>3, <1>5, <1>7 DEF TypeOK
<1>10. UNCHANGED <<date, stay, pay, posted>> /\ Answer(c) /\ tx[c].op = "charge"
  BY DEF PostCharge
<1>11. Charged' = Charged + Total(price) /\ Charged \in Int
  <2>1. Net(line'[i]) = Total(price) /\ Net(line[i]) = 0
    BY <1>3, <1>4, <1>8, NetNew
  <2>2. Charged' = Charged + Net(line'[i]) - Net(line[i])
    BY <1>3, <1>5, <1>8, <1>9, ChargedOne
  <2>3. Charged \in Int
    BY <1>5, ChargedIs DEF TypeOK
  <2> QED
    BY <1>4, <2>1, <2>2, <2>3
<1>12. Kept
  <2>1. \A x \in Items : line[x] \in Line => SameCharge(line[x], line'[x])
    BY <1>3, <1>5, <1>8 DEF SameCharge
  <2> QED
    BY <1>10, <2>1 DEF Kept
<1>13. Corrected'
  BY <1>7, <1>8 DEF FolioInv, Corrected
<1>14. NightOnce'
  <2>1. NoLine.base = None /\ None \notin Bases
    BY NoneAssumption DEF NoLine
  <2>2. ASSUME NEW b \in Bases PROVE Live(b)' = Live(b)
    BY <1>3, <1>7, <1>8, <2>1 DEF Live
  <2>3. \A n \in Nights : <<"ROOM", n>> \in Bases
    BY DEF Bases
  <2> QED
    BY <1>10, <2>2, <2>3 DEF FolioInv, NightOnce
<1>15. BalanceIsLedger'
  <2>1. Paid' = Paid /\ Paid \in Int
    BY <1>5, <1>10, PaidIs DEF Paid, TypeOK
  <2>2. folio.balance = Charged - Paid
    BY DEF FolioInv, BalanceIsLedger
  <2> QED
    BY <1>4, <1>6, <1>11, <2>1, <2>2 DEF BalanceIsLedger
<1>16. FolioInv'
  <2>1. pay' \in [Payments -> Payment \cup {NoPayment}] /\ posted' \in [Nights -> BOOLEAN]
    BY <1>5, <1>10 DEF TypeOK
  <2> QED
    BY <1>6, <1>9, <1>10, <1>12, <1>13, <1>14, <1>15, <2>1, AnswerStep
<1> QED
  BY <1>4, <1>6, <1>10, <1>11, <1>16

\* The rows of charges for missing nights: one row for each.
LEMMA RowsPlaced ==
  ASSUME NEW M, NEW at \in Injection(M, FreeItems)
  PROVE  LET D == {at[b] : b \in M}
         IN  /\ D \subseteq Items /\ IsFiniteSet(D) /\ IsFiniteSet(M)
             /\ Cardinality(D) = Cardinality(M)
             /\ \A b \in M : at[b] \in D /\ line[at[b]] = NoLine
             /\ \A b \in M, d \in M : at[b] = at[d] => b = d
<1> DEFINE D == {at[b] : b \in M}
<1>1. at \in [M -> FreeItems] /\ FreeItems \subseteq Items
  BY DEF Injection, FreeItems
<1>2. \A b \in M, d \in M : at[b] = at[d] => b = d
  BY <1>1 DEF Injection, IsInjective
<1>3. IsFiniteSet(D) /\ D \subseteq Items
  BY <1>1, RowsAssumption, FS_Subset
<1>4. at \in Injection(M, D)
  BY <1>1, <1>2 DEF Injection, IsInjective
<1>5. at \in Surjection(M, D)
  BY <1>1 DEF Surjection
<1>6. IsFiniteSet(M) /\ Cardinality(M) = Cardinality(D)
  BY <1>3, <1>4, <1>5, FS_Injection
<1>7. \A b \in M : at[b] \in D /\ line[at[b]] = NoLine
  BY <1>1 DEF FreeItems
<1> QED
  BY <1>2, <1>3, <1>6, <1>7

LEMMA PostNightsKeeps ==
  ASSUME FolioInv, NEW open \in SUBSET Nights, PostNights(open), UNCHANGED <<pay>>
  PROVE  /\ folio' \in FolioRow
         /\ line' \in [Items -> Line \cup {NoLine}]
         /\ posted' \in [Nights -> BOOLEAN]
         /\ Kept /\ Corrected' /\ NightOnce' /\ BalanceIsLedger'
         /\ Charged' >= Charged
         /\ folio'.status = "OPEN" \/ UNCHANGED <<folio, line>>
<1> DEFINE M == Missing(open)
<1>1. PICK at : at = CHOOSE f \in Places(open) : TRUE
  OBVIOUS
<1> DEFINE D == {at[b] : b \in M}
           On(i) == CHOOSE b \in M : at[b] = i
<1>2. /\ at \in Injection(M, FreeItems)
      /\ line' = [i \in Items |-> IF \E b \in M : at[b] = i
                                  THEN Charge(Rate, On(i)) ELSE line[i]]
      /\ folio' = IF M = {} THEN folio ELSE Posted(Cardinality(M) * Total(Rate))
      /\ posted' = [n \in Nights |-> posted[n] \/ n \in open]
  BY <1>1 DEF PostNights, Places
<1>3. M \subseteq Bases \ Complimentary /\ \A b \in M : b[2] \in open /\ Live(b) = {}
  BY DEF Missing
<1>4. \A b \in Bases \ M : b[2] \in open => Live(b) # {} \/ b \in Complimentary
  BY DEF Missing
<1> HIDE DEF M
<1>5. /\ D \subseteq Items /\ IsFiniteSet(D) /\ IsFiniteSet(M)
      /\ Cardinality(D) = Cardinality(M)
      /\ \A b \in M : at[b] \in D /\ line[at[b]] = NoLine
      /\ \A b \in M, d \in M : at[b] = at[d] => b = d
  BY <1>2, RowsPlaced
<1>6. \A b \in M : On(at[b]) = b
  BY <1>5
<1> HIDE DEF On
<1>7. /\ \A b \in M : line'[at[b]] = Charge(Rate, b)
      /\ \A i \in Items \ D : line'[i] = line[i]
      /\ \A i \in D : line[i] = NoLine /\ \E b \in M : i = at[b] /\ line'[i] = Charge(Rate, b)
      /\ line' \in [Items -> {line'[i] : i \in Items}]
  BY <1>2, <1>5, <1>6
<1>8. /\ TypeOK /\ folio \in FolioRow /\ NoLine \notin Line /\ NoLine.base = None
      /\ None \notin Bases
  BY NoLineIsNone, NoneAssumption DEF FolioInv, TypeOK, FolioRow, NoLine
<1>9. Rate \in Price /\ Total(Rate) \in Nat /\ Cardinality(M) \in Nat
  BY <1>5, PricesAssumption, PriceTotal, FS_CardinalityType
<1>10. \A b \in M : /\ Charge(Rate, b) \in Line /\ Charge(Rate, b).base = b
                    /\ ~Charge(Rate, b).reversed
                    /\ \A j \in Parts : Charge(Rate, b).credited[j] \in 0..Charge(Rate, b).parts[j]
  BY <1>3, <1>8, <1>9, ChargeType
<1> HIDE DEF D
<1>11. line' \in [Items -> Line \cup {NoLine}]
  BY <1>5, <1>7, <1>8, <1>10 DEF TypeOK
<1>12. Kept
  <2>1. \A i \in Items : line[i] \in Line => SameCharge(line[i], line'[i])
    BY <1>7, <1>8 DEF SameCharge
  <2> QED
    BY <2>1 DEF Kept
<1>13. Corrected'
  <2>1. ASSUME NEW i \in Items
        PROVE  /\ \A j \in Parts : line'[i].credited[j] \in 0..line'[i].parts[j]
               /\ line'[i].reversed => line'[i].credited = Zero
    <3>1. CASE i \in D
      BY <1>7, <1>10, <3>1
    <3>2. CASE i \notin D
      BY <1>7, <3>2 DEF FolioInv, Corrected
    <3> QED
      BY <3>1, <3>2
  <2> QED
    BY <2>1 DEF Corrected
<1>14. ASSUME NEW b \in Bases
       PROVE  Live(b)' = IF b \in M THEN {at[b]} ELSE Live(b)
  <2>1. ASSUME NEW i \in Items, i \notin D
        PROVE  i \in Live(b)' <=> i \in Live(b)
    BY <1>7, <2>1 DEF Live
  <2>2. ASSUME NEW i \in D
        PROVE  i \notin Live(b) /\ (i \in Live(b)' <=> b \in M /\ i = at[b])
    BY <1>5, <1>7, <1>8, <1>10 DEF Live
  <2>3. Live(b) \subseteq Items /\ Live(b)' \subseteq Items
    BY DEF Live
  <2>4. CASE b \in M
    BY <1>3, <1>5, <2>1, <2>2, <2>3, <2>4
  <2>5. CASE b \notin M
    BY <2>1, <2>2, <2>3, <2>5
  <2> QED
    BY <2>4, <2>5
<1>15. NightOnce'
  <2>1. \A b \in Bases : Cardinality(Live(b)') <= 1
    <3> SUFFICES ASSUME NEW b \in Bases PROVE Cardinality(Live(b)') <= 1
      OBVIOUS
    <3>1. Cardinality({at[b]}) = 1
      BY FS_Singleton
    <3>2. Cardinality(Live(b)) <= 1
      BY DEF FolioInv, NightOnce
    <3> QED
      BY <1>14, <3>1, <3>2
  <2>2. ASSUME NEW n \in Nights
        PROVE  Live(<<"ROOM", n>>)' # {} <=> posted'[n] /\ <<"ROOM", n>> \notin Complimentary
    <3>1. <<"ROOM", n>> \in Bases /\ <<"ROOM", n>>[2] = n
      BY DEF Bases
    <3>2. Live(<<"ROOM", n>>) # {} <=> posted[n] /\ <<"ROOM", n>> \notin Complimentary
      BY DEF FolioInv, NightOnce
    <3>3. <<"ROOM", n>> \in M => n \in open /\ <<"ROOM", n>> \notin Complimentary
      BY <1>3, <3>1
    <3>4. n \in open => \/ <<"ROOM", n>> \in M \/ Live(<<"ROOM", n>>) # {}
                         \/ <<"ROOM", n>> \in Complimentary
      BY <1>4, <3>1
    <3>5. posted'[n] <=> posted[n] \/ n \in open
      BY <1>2, <1>8 DEF TypeOK
    <3>6. Live(<<"ROOM", n>>)' # {} <=> <<"ROOM", n>> \in M \/ Live(<<"ROOM", n>>) # {}
      BY <1>14, <3>1
    <3> QED
      BY <3>2, <3>3, <3>4, <3>5, <3>6
  <2> QED
    BY <2>1, <2>2 DEF NightOnce
<1>16. Charged' = Charged + Cardinality(M) * Total(Rate) /\ Charged \in Int
  <2> DEFINE F == [i \in Items |-> Net(line[i])]
             H == [i \in Items |-> Net(line'[i])]
  <2>1. ASSUME NEW i \in Items
        PROVE  F[i] \in Int /\ H[i] = F[i] + IF i \in D THEN Total(Rate) ELSE 0
    <3>1. F[i] \in Int /\ F[i] = Net(line[i]) /\ H[i] = Net(line'[i])
      BY <1>8, NetType DEF TypeOK
    <3>2. CASE i \in D
      BY <1>7, <1>9, <3>1, <3>2, NetNew
    <3>3. CASE i \notin D
      BY <1>7, <3>1, <3>3
    <3> QED
      BY <3>1, <3>2, <3>3
  <2>2. Charged = SumFunctionOnSet(F, Items) /\ Charged \in Int
    BY <1>8, ChargedIs DEF TypeOK
  <2>3. Charged' = SumFunctionOnSet(H, Items)
    BY DEF Charged, SumFunction
  <2> HIDE DEF F, H
  <2>4. Total(Rate) \in Int /\ D \in SUBSET Items
    BY <1>5, <1>9
  <2>5. SumFunctionOnSet(H, Items) = SumFunctionOnSet(F, Items) + Cardinality(D) * Total(Rate)
    BY <2>1, <2>4, RowsAssumption, SumMore
  <2> QED
    BY <1>5, <2>2, <2>3, <2>5
<1>17. Cardinality(M) * Total(Rate) \in Nat /\ (M = {} => Cardinality(M) * Total(Rate) = 0)
  BY <1>9, FS_EmptySet
<1>18. /\ folio' \in FolioRow
       /\ folio'.balance = folio.balance + Cardinality(M) * Total(Rate)
       /\ folio'.status = "OPEN" \/ UNCHANGED <<folio, line>>
  <2>1. CASE M = {}
    <3>1. D = {}
      BY <2>1 DEF D
    <3>2. line' = line
      BY <1>7, <1>8, <1>11, <3>1 DEF TypeOK
    <3>3. folio' = folio /\ folio.balance \in Int
      BY <1>2, <1>8, <2>1 DEF FolioRow
    <3> QED
      BY <1>8, <1>17, <2>1, <3>2, <3>3
  <2>2. CASE M # {}
    <3>1. folio' = Posted(Cardinality(M) * Total(Rate))
      BY <1>2, <2>2
    <3> QED
      BY <1>8, <1>17, <3>1, FolioRows
  <2> QED
    BY <2>1, <2>2
<1>19. BalanceIsLedger'
  <2>1. Paid' = Paid /\ Paid \in Int
    BY <1>8, PaidIs DEF Paid, TypeOK
  <2>2. folio.balance = Charged - Paid
    BY DEF FolioInv, BalanceIsLedger
  <2> QED
    BY <1>16, <1>17, <1>18, <2>1, <2>2 DEF BalanceIsLedger
<1>20. posted' \in [Nights -> BOOLEAN]
  BY <1>2, <1>8 DEF TypeOK
<1> QED
  BY <1>11, <1>12, <1>13, <1>15, <1>16, <1>17, <1>18, <1>19, <1>20

LEMMA RoomChargesKeep ==
  ASSUME FolioInv, NEW c \in Clients, PostRoomCharges(c)
  PROVE  /\ FolioInv' /\ Charged' >= Charged /\ UNCHANGED pay
         /\ folio'.status = "OPEN" \/ UNCHANGED <<folio, line>>
<1>1. /\ tx[c].op = "nights" /\ PostNights(tx[c].open) /\ Answer(c)
      /\ UNCHANGED <<date, stay, pay>>
  BY DEF PostRoomCharges
<1>2. tx[c].open \in SUBSET Nights
  BY DEF FolioInv, TypeOK
<1>3. /\ folio' \in FolioRow /\ line' \in [Items -> Line \cup {NoLine}]
      /\ posted' \in [Nights -> BOOLEAN]
      /\ Kept /\ Corrected' /\ NightOnce' /\ BalanceIsLedger' /\ Charged' >= Charged
      /\ folio'.status = "OPEN" \/ UNCHANGED <<folio, line>>
  BY <1>1, <1>2, PostNightsKeeps
<1>4. pay' \in [Payments -> Payment \cup {NoPayment}]
  BY <1>1 DEF FolioInv, TypeOK
<1> QED
  BY <1>1, <1>3, <1>4, AnswerStep

LEMMA RollKeeps ==
  ASSUME FolioInv, Roll
  PROVE  /\ FolioInv' /\ Charged' >= Charged /\ UNCHANGED <<pay, life, ran>>
         /\ folio'.status = "OPEN" \/ UNCHANGED <<folio, line>>
<1>1. /\ Quiet /\ date' = date + 1 /\ date < LastDate
      /\ UNCHANGED <<stay, pay, key, life, ran, tx>>
  BY DEF Roll
<1>2. /\ folio' \in FolioRow /\ line' \in [Items -> Line \cup {NoLine}]
      /\ posted' \in [Nights -> BOOLEAN]
      /\ Kept /\ Corrected' /\ NightOnce' /\ BalanceIsLedger' /\ Charged' >= Charged
      /\ folio'.status = "OPEN" \/ UNCHANGED <<folio, line>>
  <2>1. CASE stay.status = "IN_HOUSE"
    <3>1. PostNights(Unposted(date)) /\ Unposted(date) \in SUBSET Nights
      BY <2>1 DEF Roll, Unposted
    <3> QED
      BY <1>1, <3>1, PostNightsKeeps
  <2>2. CASE stay.status # "IN_HOUSE"
    <3>1. UNCHANGED <<folio, line, posted, pay>>
      BY <1>1, <2>2 DEF Roll
    <3>2. Charged' = Charged /\ Charged \in Int
      BY <3>1, ChargedIs DEF Charged, FolioInv, TypeOK
    <3> QED
      BY <3>1, <3>2, LinesKept, AccountFrame DEF FolioInv, TypeOK, FolioRow
  <2> QED
    BY <2>1, <2>2
<1>3. TypeOK'
  <2>1. date' \in Dates
    BY <1>1, DatesAssumption DEF FolioInv, TypeOK, Dates
  <2> QED
    BY <1>1, <1>2, <2>1 DEF FolioInv, TypeOK, FolioRow
<1>4. KeysHeld' /\ KeysUsed'
  BY <1>1 DEF FolioInv, KeysHeld, KeysUsed
<1>5. \A c \in Clients : Pending(c)'
  BY <1>1, <1>2, PendingKept DEF FolioInv, Pending
<1> QED
  BY <1>1, <1>2, <1>3, <1>4, <1>5 DEF FolioInv

----------------------------------------------------------------------------
(* What a command corrects.                                                 *)

\* One line changes, and with it the balance.
LEMMA LineStep ==
  ASSUME FolioInv, NEW i \in Items, NEW l \in Line, line' = [line EXCEPT ![i] = l],
         SameCharge(line[i], l), \A j \in Parts : l.credited[j] \in 0..l.parts[j],
         l.reversed => l.credited = Zero, folio' = Posted(Net(l) - Net(line[i])), UNCHANGED pay
  PROVE  /\ line' \in [Items -> Line \cup {NoLine}] /\ folio' \in FolioRow
         /\ folio'.status = "OPEN" /\ folio'.balance = folio.balance + Net(l) - Net(line[i])
         /\ Kept /\ Corrected' /\ BalanceIsLedger'
         /\ Charged' = Charged + Net(l) - Net(line[i])
<1>1. line'[i] = l /\ \A x \in Items \ {i} : line'[x] = line[x]
  BY DEF FolioInv, TypeOK
<1>2. line' \in [Items -> Line \cup {NoLine}]
  BY DEF FolioInv, TypeOK
<1>3. Net(l) \in Int /\ Net(line[i]) \in Int /\ folio \in FolioRow /\ folio.balance \in Int
  BY NetType DEF FolioInv, TypeOK, FolioRow
<1>4. /\ folio' \in FolioRow /\ folio'.status = "OPEN"
      /\ folio'.balance = folio.balance + Net(l) - Net(line[i])
  BY <1>3, FolioRows
<1>5. Kept
  <2>1. \A x \in Items : line[x] \in Line => SameCharge(line[x], line'[x])
    BY <1>1 DEF SameCharge
  <2> QED
    BY <2>1 DEF Kept
<1>6. Corrected'
  BY <1>1 DEF FolioInv, Corrected
<1>7. Charged' = Charged + Net(l) - Net(line[i]) /\ Charged \in Int
  BY <1>1, <1>2, ChargedOne, ChargedIs DEF FolioInv, TypeOK
<1>8. BalanceIsLedger'
  <2>1. Paid' = Paid /\ Paid \in Int
    BY PaidIs DEF Paid, FolioInv, TypeOK
  <2>2. folio.balance = Charged - Paid
    BY DEF FolioInv, BalanceIsLedger
  <2> QED
    BY <1>3, <1>4, <1>7, <2>1, <2>2 DEF BalanceIsLedger
<1> QED
  BY <1>2, <1>4, <1>5, <1>6, <1>7, <1>8

LEMMA ReverseKeeps ==
  ASSUME FolioInv, NEW c \in Clients, ReverseItem(c)
  PROVE  FolioInv' /\ Charged' <= Charged /\ folio'.status = "OPEN" /\ UNCHANGED pay
<1>1. PICK i \in Items, r \in Line :
        /\ i = tx[c].ref /\ r = tx[c].read /\ SameCharge(r, line[i])
        /\ tx[c].op = "reverse"
  BY DEF ReverseItem, FolioInv, Pending, SameCharge
<1> DEFINE night == {n \in Nights : r.base = <<"ROOM", n>>}
           l == [line[i] EXCEPT !.reversed = TRUE]
<1>2. /\ MayReverse(line[i]) /\ \A n \in night : posted[n]
      /\ line' = [line EXCEPT ![i].reversed = TRUE]
      /\ folio' = Posted(-Total(r.parts))
      /\ posted' = [n \in Nights |-> posted[n] /\ n \notin night]
      /\ Answer(c) /\ UNCHANGED <<date, stay, pay>>
  BY <1>1 DEF ReverseItem
<1>3. line[i] \in Line /\ line[i].parts = r.parts /\ line[i].base = r.base
  BY <1>1 DEF SameCharge
<1>4. line[i].credited = Zero /\ ~line[i].reversed
  <2>1. \A j \in Parts : line[i].credited[j] = 0
    BY <1>2, <1>3 DEF MayReverse, FolioInv, Corrected, Line, Price
  <2>2. line[i].credited \in Price
    BY <1>3 DEF Line
  <2> QED
    BY <1>2, <2>1, <2>2 DEF MayReverse, Zero, Price
<1>5. /\ l \in Line /\ line' = [line EXCEPT ![i] = l] /\ SameCharge(line[i], l)
      /\ l.reversed /\ l.credited = Zero /\ l.base = line[i].base
      /\ \A j \in Parts : l.credited[j] \in 0..l.parts[j]
  <2>1. l \in Line /\ l.parts = line[i].parts /\ l.credited = line[i].credited
        /\ l.reversed /\ l.base = line[i].base
    BY <1>3 DEF Line
  <2>2. \A j \in Parts : l.credited[j] \in 0..l.parts[j]
    BY <2>1 DEF FolioInv, Corrected
  <2> QED
    BY <1>2, <1>3, <1>4, <2>1, <2>2 DEF SameCharge
<1>6. Net(l) = 0 /\ Net(line[i]) = Total(r.parts) /\ Total(r.parts) \in Nat
  <2>1. Remaining(line[i]) = r.parts /\ r.parts \in Price
    BY <1>3, <1>4 DEF Remaining, Zero, Line, Price
  <2> QED
    BY <1>4, <1>5, <2>1, PriceTotal DEF Net
<1> HIDE DEF l
<1>7. folio' = Posted(Net(l) - Net(line[i]))
  <2>1. -Total(r.parts) = Net(l) - Net(line[i])
    BY <1>6
  <2> QED
    BY <1>2, <2>1
<1>8. /\ line' \in [Items -> Line \cup {NoLine}] /\ folio' \in FolioRow
      /\ folio'.status = "OPEN"
      /\ Kept /\ Corrected' /\ BalanceIsLedger'
      /\ Charged' = Charged + Net(l) - Net(line[i])
  BY <1>2, <1>5, <1>7, LineStep
<1>9. Charged' <= Charged
  BY <1>6, <1>8, ChargedIs DEF FolioInv, TypeOK
<1>10. line'[i] = l /\ \A x \in Items \ {i} : line'[x] = line[x]
  BY <1>5 DEF FolioInv, TypeOK
<1>11. \A b \in Bases : Live(b)' = Live(b) \ {i}
  BY <1>5, <1>10 DEF Live
<1>12. posted' \in [Nights -> BOOLEAN]
  BY <1>2 DEF FolioInv, TypeOK
<1>13. NightOnce'
  <2>1. ASSUME NEW b \in Bases
        PROVE  /\ Cardinality(Live(b)') <= 1
               /\ Live(b)' = IF b = line[i].base THEN {} ELSE Live(b)
    <3>1. IsFiniteSet(Live(b))
      BY RowsAssumption, FS_Subset DEF Live
    <3>2. Cardinality(Live(b)) <= 1
      BY DEF FolioInv, NightOnce
    <3>3. i \in Live(b) <=> b = line[i].base
      BY <1>4 DEF Live
    <3>4. CASE i \in Live(b)
      <4>1. IsFiniteSet(Live(b) \ {i}) /\ Cardinality(Live(b)) \in Nat
            /\ Cardinality(Live(b) \ {i}) \in Nat
        BY <3>1, FS_Subset, FS_CardinalityType
      <4>2. Cardinality(Live(b) \ {i}) = Cardinality(Live(b)) - 1
        BY <3>1, <3>4, FS_RemoveElement
      <4>3. Cardinality(Live(b) \ {i}) = 0
        BY <3>2, <4>1, <4>2
      <4>4. Live(b) \ {i} = {}
        BY <4>1, <4>3, FS_EmptySet
      <4> QED
        BY <1>11, <3>3, <3>4, <4>3, <4>4
    <3>5. CASE i \notin Live(b)
      BY <1>11, <3>2, <3>3, <3>5
    <3> QED
      BY <3>4, <3>5
  <2>2. ASSUME NEW n \in Nights
        PROVE  Live(<<"ROOM", n>>)' # {} <=> posted'[n] /\ <<"ROOM", n>> \notin Complimentary
    <3>1. <<"ROOM", n>> \in Bases
      BY DEF Bases
    <3>2. Live(<<"ROOM", n>>) # {} <=> posted[n] /\ <<"ROOM", n>> \notin Complimentary
      BY DEF FolioInv, NightOnce
    <3>3. posted'[n] <=> posted[n] /\ r.base # <<"ROOM", n>>
      BY <1>2
    <3> QED
      BY <1>3, <2>1, <3>1, <3>2, <3>3
  <2> QED
    BY <2>1, <2>2 DEF NightOnce
<1>14. pay' \in [Payments -> Payment \cup {NoPayment}]
  BY <1>2 DEF FolioInv, TypeOK
<1>15. FolioInv'
  BY <1>1, <1>2, <1>8, <1>12, <1>13, <1>14, AnswerStep
<1> QED
  BY <1>2, <1>8, <1>9, <1>15

\* The credit of an adjustment, and that it is exactly what was asked for.
LEMMA AdjustCredit ==
  ASSUME FolioInv, NEW c \in Clients, AdjustItem(c)
  PROVE  \E i \in Items, credit \in Price :
           /\ i = tx[c].ref /\ line[i] \in Line /\ MayCredit(line[i], credit)
           /\ Total(credit) = tx[c].amount /\ tx[c].amount \in Nat \ {0}
           /\ line' = [line EXCEPT ![i].credited = [j \in Parts |-> @[j] + credit[j]]]
           /\ folio' = Posted(-tx[c].amount)
<1>1. PICK i \in Items, r \in Line :
        /\ i = tx[c].ref /\ r = tx[c].read /\ SameCharge(r, line[i])
        /\ \A j \in Parts : r.credited[j] <= r.parts[j]
        /\ tx[c].amount > 0 /\ tx[c].amount \in Nat
  BY DEF AdjustItem, FolioInv, TypeOK, Pending, SameCharge
<1> DEFINE credit == ProportionalCredit(Remaining(r), tx[c].amount)
<1>2. /\ tx[c].amount <= Total(Remaining(r)) /\ MayCredit(line[i], credit)
      /\ line' = [line EXCEPT ![i].credited = [j \in Parts |-> @[j] + credit[j]]]
      /\ folio' = Posted(-Total(credit))
  BY <1>1 DEF AdjustItem
<1>3. Remaining(r) \in Price
  BY <1>1 DEF Remaining, Line, Price
<1>4. Total(Remaining(r)) \in Nat
  BY <1>3, PriceTotal
<1>5. tx[c].amount \in 1..Total(Remaining(r))
  BY <1>1, <1>2, <1>4
<1>6. credit \in Price /\ Total(credit) = tx[c].amount
  BY <1>3, <1>5, Divided
<1> HIDE DEF credit
<1>7. /\ i = tx[c].ref /\ line[i] \in Line /\ MayCredit(line[i], credit)
      /\ Total(credit) = tx[c].amount /\ tx[c].amount \in Nat \ {0}
      /\ line' = [line EXCEPT ![i].credited = [j \in Parts |-> @[j] + credit[j]]]
      /\ folio' = Posted(-tx[c].amount)
  BY <1>1, <1>2, <1>6 DEF SameCharge
<1> QED
  BY <1>6, <1>7, Zenon

LEMMA AdjustKeeps ==
  ASSUME FolioInv, NEW c \in Clients, AdjustItem(c)
  PROVE  FolioInv' /\ Charged' <= Charged /\ folio'.status = "OPEN" /\ UNCHANGED pay
<1>1. PICK i \in Items, credit \in Price :
           /\ line[i] \in Line /\ MayCredit(line[i], credit)
           /\ Total(credit) = tx[c].amount /\ tx[c].amount \in Nat \ {0}
           /\ line' = [line EXCEPT ![i].credited = [j \in Parts |-> @[j] + credit[j]]]
           /\ folio' = Posted(-tx[c].amount)
  BY AdjustCredit
<1> DEFINE total == [j \in Parts |-> line[i].credited[j] + credit[j]]
           l == [line[i] EXCEPT !.credited = total]
<1>2. /\ tx[c].op = "adjust" /\ Answer(c) /\ UNCHANGED <<date, stay, pay, posted>>
  BY DEF AdjustItem
<1>3. /\ line[i].parts \in Price /\ line[i].credited \in Price
      /\ \A j \in Parts : line[i].credited[j] <= line[i].parts[j]
  BY <1>1 DEF Line, FolioInv, Corrected, Price
<1>4. ~line[i].reversed
  <2> SUFFICES ASSUME line[i].reversed PROVE FALSE
    OBVIOUS
  <2>1. \A j \in Parts : credit[j] = 0
    BY <1>1 DEF MayCredit, Price
  <2>2. Total(credit) = 0
    <3>1. credit \in [Parts -> Int]
      BY DEF Price
    <3> QED
      BY <2>1, <3>1, PartsFinite, TotalIs, SumZero
  <2> QED
    BY <1>1, <2>2
<1>5. /\ total \in Price /\ \A j \in Parts : total[j] \in 0..line[i].parts[j]
  BY <1>1, <1>3 DEF MayCredit, Price
<1>6. /\ l \in Line /\ l.parts = line[i].parts /\ l.base = line[i].base
      /\ ~l.reversed /\ l.credited = total
  BY <1>1, <1>4, <1>5 DEF Line
<1>7. line' = [line EXCEPT ![i] = l]
  BY <1>1
<1>8. Net(line[i]) = Net(l) + tx[c].amount /\ Net(l) \in Int
  <2> DEFINE F == Remaining(l)
             H == Remaining(line[i])
  <2>1. /\ F \in [Parts -> Int] /\ H \in [Parts -> Int] /\ Net(l) = SumFunctionOnSet(F, Parts)
        /\ Net(line[i]) = SumFunctionOnSet(H, Parts) /\ Net(l) \in Int
    BY <1>1, <1>4, <1>6, NetType
  <2>2. \A j \in Parts : H[j] = F[j] + credit[j] /\ credit[j] \in Int
    BY <1>3, <1>6 DEF Remaining, Price
  <2>3. SumFunctionOnSet(credit, Parts) = tx[c].amount
    <3>1. credit \in [Parts -> Int]
      BY DEF Price
    <3> QED
      BY <1>1, <3>1, TotalIs
  <2> HIDE DEF F, H
  <2>4. SumFunctionOnSet(H, Parts) = SumFunctionOnSet(F, Parts) + SumFunctionOnSet(credit, Parts)
    BY <2>1, <2>2, PartsFinite, SumAdded
  <2> QED
    BY <2>1, <2>3, <2>4
<1> HIDE DEF l
<1>9. folio' = Posted(Net(l) - Net(line[i]))
  <2>1. -tx[c].amount = Net(l) - Net(line[i])
    BY <1>1, <1>8
  <2> QED
    BY <1>1, <2>1
<1>10. /\ line' \in [Items -> Line \cup {NoLine}] /\ folio' \in FolioRow
       /\ folio'.status = "OPEN"
       /\ Kept /\ Corrected' /\ BalanceIsLedger'
       /\ Charged' = Charged + Net(l) - Net(line[i])
  <2>1. SameCharge(line[i], l) /\ \A j \in Parts : l.credited[j] \in 0..l.parts[j]
    BY <1>1, <1>5, <1>6 DEF SameCharge
  <2> QED
    BY <1>2, <1>6, <1>7, <1>9, <2>1, LineStep
<1>11. Charged' <= Charged
  BY <1>1, <1>8, <1>10, ChargedIs DEF FolioInv, TypeOK
<1>12. NightOnce'
  <2>1. line'[i] = l /\ \A x \in Items \ {i} : line'[x] = line[x]
    BY <1>7 DEF FolioInv, TypeOK
  <2>2. \A b \in Bases : Live(b)' = Live(b)
    BY <1>4, <1>6, <2>1 DEF Live
  <2>3. \A n \in Nights : <<"ROOM", n>> \in Bases
    BY DEF Bases
  <2> QED
    BY <1>2, <2>2, <2>3 DEF FolioInv, NightOnce
<1>13. /\ pay' \in [Payments -> Payment \cup {NoPayment}] /\ posted' \in [Nights -> BOOLEAN]
  BY <1>2 DEF FolioInv, TypeOK
<1>14. FolioInv'
  BY <1>2, <1>10, <1>12, <1>13, AnswerStep
<1> QED
  BY <1>2, <1>10, <1>11, <1>14

----------------------------------------------------------------------------
(* What a command takes and pays back.                                      *)

\* One payment changes, and with it the balance.
LEMMA PayStep ==
  ASSUME FolioInv, NEW c \in Clients, tx[c].op \in {"pay", "void", "refund"}, Answer(c),
         NEW p \in Payments, NEW row \in Payment, pay' = [pay EXCEPT ![p] = row],
         folio' = Posted(NetPaid(pay[p]) - NetPaid(row)), UNCHANGED <<date, stay, line, posted>>
  PROVE  /\ FolioInv' /\ folio'.status = "OPEN"
         /\ Paid' = Paid + NetPaid(row) - NetPaid(pay[p]) /\ Paid \in Nat
<1>1. pay'[p] = row /\ \A x \in Payments \ {p} : pay'[x] = pay[x]
  BY DEF FolioInv, TypeOK
<1>2. pay' \in [Payments -> Payment \cup {NoPayment}] /\ NoPayment \notin Payment
  BY NoLineIsNone DEF FolioInv, TypeOK
<1>3. NetPaid(row) \in Nat /\ NetPaid(pay[p]) \in Nat /\ folio \in FolioRow /\ folio.balance \in Int
  BY PaidType DEF FolioInv, TypeOK, FolioRow
<1>4. /\ folio' \in FolioRow /\ folio'.status = "OPEN"
      /\ folio'.balance = folio.balance + (NetPaid(pay[p]) - NetPaid(row))
  BY <1>3, FolioRows
<1>5. Paid' = Paid + NetPaid(row) - NetPaid(pay[p]) /\ Paid \in Nat
  BY <1>1, <1>2, PaidOne, PaidIs DEF FolioInv, TypeOK
<1>6. Kept
  <2>1. \A i \in Items : line[i] \in Line => SameCharge(line[i], line'[i])
    BY DEF SameCharge
  <2>2. \A x \in Payments : pay[x] # NoPayment => pay'[x] # NoPayment
    BY <1>1, <1>2
  <2> QED
    BY <2>1, <2>2 DEF Kept
<1>7. BalanceIsLedger'
  <2>1. Charged' = Charged /\ Charged \in Int
    BY ChargedIs DEF Charged, FolioInv, TypeOK
  <2>2. folio.balance = Charged - Paid
    BY DEF FolioInv, BalanceIsLedger
  <2> QED
    BY <1>3, <1>4, <1>5, <2>1, <2>2 DEF BalanceIsLedger
<1>8. Corrected' /\ NightOnce'
  BY DEF FolioInv, Corrected, NightOnce, Live
<1>9. line' \in [Items -> Line \cup {NoLine}] /\ posted' \in [Nights -> BOOLEAN]
  BY DEF FolioInv, TypeOK
<1>10. FolioInv'
  BY <1>2, <1>4, <1>6, <1>7, <1>8, <1>9, AnswerStep
<1> QED
  BY <1>4, <1>5, <1>10

LEMMA PaymentKeeps ==
  ASSUME FolioInv, NEW c \in Clients, PostPayment(c)
  PROVE  FolioInv' /\ Paid' \in Paid..Charged /\ folio'.status = "OPEN" /\ UNCHANGED line
<1>1. PICK p : p = CHOOSE x \in FreePayments : TRUE
  OBVIOUS
<1> DEFINE a == tx[c].amount
           row == [status |-> "CAPTURED", amount |-> a, refunded |-> 0, date |-> date]
<1>2. /\ tx[c].op = "pay" /\ Answer(c) /\ UNCHANGED <<date, stay, line, posted>>
      /\ FreePayments # {} /\ pay' = [pay EXCEPT ![p] = row]
      /\ folio' = Posted(-a) /\ a <= folio.balance
  BY <1>1 DEF PostPayment, Payable
<1>3. p \in Payments /\ pay[p] = NoPayment
  BY <1>1, <1>2 DEF FreePayments
<1>4. a \in Nat /\ row \in Payment
  BY DEF FolioInv, TypeOK, Payment
<1>5. NetPaid(row) = a /\ NetPaid(pay[p]) = 0
  BY <1>3, <1>4 DEF NetPaid, NoPayment
<1> HIDE DEF row
<1>6. folio' = Posted(NetPaid(pay[p]) - NetPaid(row))
  <2>1. -a = NetPaid(pay[p]) - NetPaid(row)
    BY <1>4, <1>5
  <2> QED
    BY <1>2, <2>1
<1>7. /\ FolioInv' /\ folio'.status = "OPEN"
      /\ Paid' = Paid + NetPaid(row) - NetPaid(pay[p]) /\ Paid \in Nat
  BY <1>2, <1>3, <1>4, <1>6, PayStep
<1>8. Charged \in Int /\ folio.balance = Charged - Paid
  BY ChargedIs DEF FolioInv, TypeOK, BalanceIsLedger
<1>9. Paid' \in Paid..Charged
  BY <1>2, <1>4, <1>5, <1>7, <1>8
<1> QED
  BY <1>2, <1>7, <1>9

LEMMA VoidKeeps ==
  ASSUME FolioInv, NEW c \in Clients, VoidPayment(c)
  PROVE  FolioInv' /\ Paid' <= Paid /\ folio'.status = "OPEN" /\ UNCHANGED line
<1>1. PICK p \in Payments : p = tx[c].ref /\ pay[p] # NoPayment /\ tx[c].op = "void"
  BY DEF VoidPayment, FolioInv, Pending
<1> DEFINE row == [pay[p] EXCEPT !.status = "VOIDED"]
<1>2. /\ Answer(c) /\ UNCHANGED <<date, stay, line, posted>>
      /\ Voidable(pay[p]) /\ pay' = [pay EXCEPT ![p].status = "VOIDED"]
      /\ folio' = Posted(pay[p].amount)
  BY <1>1 DEF VoidPayment
<1>3. pay[p] \in Payment
  BY <1>1 DEF FolioInv, TypeOK
<1>4. row \in Payment /\ pay' = [pay EXCEPT ![p] = row]
  BY <1>2, <1>3 DEF Payment
<1>5. NetPaid(row) = 0 /\ NetPaid(pay[p]) = pay[p].amount /\ pay[p].amount \in Nat
  BY <1>2, <1>3 DEF NetPaid, Voidable, Payment
<1> HIDE DEF row
<1>6. folio' = Posted(NetPaid(pay[p]) - NetPaid(row))
  <2>1. pay[p].amount = NetPaid(pay[p]) - NetPaid(row)
    BY <1>5
  <2> QED
    BY <1>2, <2>1
<1>7. /\ FolioInv' /\ folio'.status = "OPEN"
      /\ Paid' = Paid + NetPaid(row) - NetPaid(pay[p]) /\ Paid \in Nat
  BY <1>1, <1>2, <1>4, <1>6, PayStep
<1> QED
  BY <1>2, <1>5, <1>7

LEMMA RefundKeeps ==
  ASSUME FolioInv, NEW c \in Clients, RefundPayment(c)
  PROVE  FolioInv' /\ Paid' <= Paid /\ folio'.status = "OPEN" /\ UNCHANGED line
<1>1. PICK p \in Payments : p = tx[c].ref /\ pay[p] # NoPayment /\ tx[c].op = "refund"
  BY DEF RefundPayment, FolioInv, Pending
<1>2. PICK a \in 1..Refundable(pay[p]) :
        /\ pay[p].status = "CAPTURED"
        /\ pay' = [pay EXCEPT ![p].refunded = @ + a]
        /\ folio' = Posted(a)
  BY <1>1 DEF RefundPayment
<1> DEFINE row == [pay[p] EXCEPT !.refunded = @ + a]
<1>3. Answer(c) /\ UNCHANGED <<date, stay, line, posted>>
  BY DEF RefundPayment
<1>4. pay[p] \in Payment
  BY <1>1 DEF FolioInv, TypeOK
<1>5. /\ pay[p].amount \in Nat /\ pay[p].refunded \in Nat
      /\ a \in Nat /\ pay[p].refunded + a <= pay[p].amount
  BY <1>4 DEF Refundable, Payment
<1>6. row \in Payment /\ pay' = [pay EXCEPT ![p] = row]
  BY <1>2, <1>4, <1>5 DEF Payment
<1>7. NetPaid(row) = NetPaid(pay[p]) - a /\ NetPaid(pay[p]) \in Nat /\ NetPaid(row) \in Nat
  BY <1>2, <1>4, <1>5 DEF NetPaid, Payment
<1> HIDE DEF row
<1>8. folio' = Posted(NetPaid(pay[p]) - NetPaid(row))
  <2>1. a = NetPaid(pay[p]) - NetPaid(row)
    BY <1>5, <1>7
  <2> QED
    BY <1>2, <2>1
<1>9. /\ FolioInv' /\ folio'.status = "OPEN"
      /\ Paid' = Paid + NetPaid(row) - NetPaid(pay[p]) /\ Paid \in Nat
  BY <1>1, <1>3, <1>6, <1>8, PayStep
<1> QED
  BY <1>3, <1>5, <1>7, <1>9

----------------------------------------------------------------------------
(* The theorems.                                                            *)

LEMMA EmptySums ==
  ASSUME line = [i \in Items |-> NoLine], pay = [p \in Payments |-> NoPayment]
  PROVE  Charged = 0 /\ Paid = 0
<1>1. Zero \in Price
  BY ZeroTotal
<1>2. \A i \in Items : [x \in Items |-> Net(line[x])][i] = 0
  BY <1>1, NetNew
<1>3. \A p \in Payments : [x \in Payments |-> NetPaid(pay[x])][p] = 0
  BY DEF NetPaid, NoPayment
<1>4. /\ Charged = SumFunctionOnSet([x \in Items |-> Net(line[x])], Items)
      /\ Paid = SumFunctionOnSet([x \in Payments |-> NetPaid(pay[x])], Payments)
  BY DEF Charged, Paid, SumFunction
<1> QED
  BY <1>2, <1>3, <1>4, RowsAssumption, SumZero

LEMMA FolioInit ==
  ASSUME Init
  PROVE  FolioInv /\ Charged = 0 /\ Paid = 0 /\ folio.status # "SETTLED"
<1>1. /\ date \in Dates /\ folio \in FolioRow /\ folio.balance = 0 /\ folio.status # "SETTLED"
      /\ stay \in [status : {"RESERVED", "IN_HOUSE", "CHECKED_OUT"}, last : 0..LastNight]
  BY DatesAssumption DEF Init, Dates, FolioRow
<1>2. /\ line = [i \in Items |-> NoLine] /\ pay = [p \in Payments |-> NoPayment]
      /\ posted = [n \in Nights |-> FALSE] /\ key = [k \in Keys |-> "NONE"]
      /\ life = [k \in Keys |-> 1] /\ ran = [k \in Keys |-> 0] /\ tx = [c \in Clients |-> Idle]
  BY DEF Init
<1>3. TypeOK
  <2>1. tx \in [Clients -> Command]
    BY <1>2, IdleCommand
  <2> QED
    BY <1>1, <1>2, <2>1 DEF TypeOK, Command, FolioRow
<1>4. Corrected
  BY <1>2 DEF Corrected, NoLine, Zero
<1>5. NightOnce
  <2>1. \A b \in Bases : Live(b) = {}
    BY <1>2, NoneAssumption DEF Live, NoLine
  <2>2. \A n \in Nights : <<"ROOM", n>> \in Bases /\ ~posted[n]
    BY <1>2 DEF Bases
  <2> QED
    BY <2>1, <2>2, FS_EmptySet DEF NightOnce
<1>6. Charged = 0 /\ Paid = 0
  BY <1>2, EmptySums
<1>7. BalanceIsLedger
  BY <1>1, <1>6 DEF BalanceIsLedger
<1>8. KeysHeld /\ KeysUsed
  BY <1>2 DEF KeysHeld, KeysUsed, Idle
<1>9. \A c \in Clients : Pending(c)
  BY <1>2 DEF Pending, Idle
<1> QED
  BY <1>1, <1>3, <1>4, <1>5, <1>6, <1>7, <1>8, <1>9 DEF FolioInv

LEMMA FolioNext ==
  ASSUME FolioInv, [Next]_vars
  PROVE  FolioInv'
<1>1. CASE UNCHANGED vars
  <2>1. TypeOK' /\ KeysHeld' /\ KeysUsed'
    BY <1>1 DEF vars, FolioInv, TypeOK, KeysHeld, KeysUsed
  <2>2. Corrected' /\ NightOnce' /\ BalanceIsLedger'
    BY <1>1, AccountFrame DEF vars
  <2>3. \A c \in Clients : Pending(c)'
    BY <1>1 DEF vars, FolioInv, Pending
  <2> QED
    BY <2>1, <2>2, <2>3 DEF FolioInv
<1>2. ASSUME NEW c \in Clients, Request(c) PROVE FolioInv'
  BY <1>2, RequestKeeps
<1>3. ASSUME NEW c \in Clients, Perform(c) PROVE FolioInv'
  BY <1>3, PostChargeKeeps, RoomChargesKeep, ReverseKeeps, AdjustKeeps,
     PaymentKeeps, VoidKeeps, RefundKeeps DEF Perform
<1>4. ASSUME NEW c \in Clients, Rollback(c) \/ AskReverseCheckIn(c) \/ ReverseCheckIn(c)
      PROVE  FolioInv'
  BY <1>4, RollbackKeeps, ReverseCheckInKeeps
<1>5. ASSUME NEW k \in Keys, Expire(k) PROVE FolioInv'
  BY <1>5, ExpireKeeps
<1>6. CASE SettleFolio \/ CheckIn \/ CheckOut
  BY <1>6, SettleKeeps
<1>7. CASE Roll
  BY <1>7, RollKeeps
<1> QED
  BY <1>1, <1>2, <1>3, <1>4, <1>5, <1>6, <1>7 DEF Next

\* The inductive invariant of the account of a stay (Folio).
THEOREM FolioInvariant == Spec => []FolioInv
<1>1. Init => FolioInv
  BY FolioInit
<1>2. FolioInv /\ [Next]_vars => FolioInv'
  BY FolioNext
<1> QED
  BY <1>1, <1>2, PTL DEF Spec

\* The variables keep their types: no payment is refunded beyond its amount.
THEOREM FolioTyped == Spec => []TypeOK
<1>1. FolioInv => TypeOK
  BY DEF FolioInv
<1> QED
  BY <1>1, FolioInvariant, PTL

\* verifiedBalance never stops a command: the balance is the sum of the ledger, whatever
\* the prices, the taxes and the number of charges, payments and commands at once.
THEOREM BalanceSound == Spec => []BalanceIsLedger
<1>1. FolioInv => BalanceIsLedger
  BY DEF FolioInv
<1> QED
  BY <1>1, FolioInvariant, PTL

\* A charge is not reversed twice, nor reversed and adjusted, nor credited beyond its
\* parts, though it is read before the folio is locked.
THEOREM CorrectedSound == Spec => []Corrected
<1>1. FolioInv => Corrected
  BY DEF FolioInv
<1> QED
  BY <1>1, FolioInvariant, PTL

\* A night has at most one live room charge and one live package, from the desk or from
\* the audit, whichever nights are complimentary; one that costs something is flagged as
\* posted exactly while it has its room charge, one that costs nothing has none.
THEOREM NightsSound == Spec => []NightOnce
<1>1. FolioInv => NightOnce
  BY DEF FolioInv
<1> QED
  BY <1>1, FolioInvariant, PTL

\* proportionalCredit divides exactly the amount that was asked for, whatever the rounding.
THEOREM CreditSound == Spec => CreditExact
<1> DEFINE Exact == \A c \in Clients :
                      tx[c].op = "adjust" /\ folio' # folio /\ tx'[c] = Idle =>
                        folio'.balance = folio.balance - tx[c].amount
<1>1. ASSUME FolioInv, [Next]_vars PROVE Exact
  <2> SUFFICES ASSUME NEW c \in Clients,
                      tx[c].op = "adjust", folio' # folio, tx'[c] = Idle
               PROVE  folio'.balance = folio.balance - tx[c].amount
    OBVIOUS
  <2>1. tx[c] # Idle /\ Idle.op = "idle"
    BY DEF Idle
  <2>2. tx \in [Clients -> Command]
    BY <1>1 DEF FolioInv, TypeOK, Command
  <2>3. AdjustItem(c)
    <3>1. PICK d \in Clients : Request(d) \/ Perform(d) \/ Rollback(d)
                               \/ AskReverseCheckIn(d) \/ ReverseCheckIn(d)
      <4>1. tx' # tx
        BY <2>1
      <4> QED
        BY <1>1, <4>1 DEF Next, vars, Expire, SettleFolio, CheckIn, CheckOut, Roll
    <3>2. ~(Request(d) \/ Rollback(d) \/ AskReverseCheckIn(d) \/ ReverseCheckIn(d))
      BY DEF Request, AskCharge, AskNights, AskPay, AskReverse, AskAdjust, AskPayment,
             Rollback, AskReverseCheckIn, ReverseCheckIn
    <3>3. Perform(d)
      BY <3>1, <3>2
    <3>4. tx' = [tx EXCEPT ![d] = Idle]
      BY <3>3 DEF Perform, PostCharge, PostRoomCharges, ReverseItem, AdjustItem,
             PostPayment, VoidPayment, RefundPayment, Answer
    <3>5. d = c
      BY <2>1, <2>2, <3>4
    <3> QED
      BY <3>3, <3>5 DEF Perform, PostCharge, PostRoomCharges, ReverseItem, AdjustItem,
             PostPayment, VoidPayment, RefundPayment
  <2>4. folio' = Posted(-tx[c].amount) /\ tx[c].amount \in Nat
    BY <1>1, <2>3, AdjustCredit
  <2>5. folio.balance \in Int /\ folio \in FolioRow /\ -tx[c].amount \in Int
    BY <1>1, <2>4 DEF FolioInv, TypeOK, FolioRow
  <2>6. folio'.balance = folio.balance + (-tx[c].amount)
    BY <2>4, <2>5, FolioRows
  <2> QED
    BY <2>4, <2>5, <2>6
<1>2. FolioInv /\ [Next]_vars => [Exact]_vars
  BY <1>1
<1> QED
  BY <1>2, FolioInvariant, PTL DEF Spec, CreditExact

----------------------------------------------------------------------------
(* Folio implements Account.                                                *)

LEMMA AccountType == FolioInv => Charged \in Nat /\ Paid \in Nat
<1> SUFFICES ASSUME FolioInv PROVE Charged \in Nat /\ Paid \in Nat
  OBVIOUS
<1>1. ASSUME NEW i \in Items PROVE Net(line[i]) \in Nat
  <2>1. CASE line[i] \in Line /\ ~line[i].reversed
    <3>1. Remaining(line[i]) \in Price
      <4>1. /\ line[i].parts \in Price /\ line[i].credited \in Price
            /\ \A j \in Parts : line[i].credited[j] <= line[i].parts[j]
        BY <2>1 DEF Line, FolioInv, Corrected, Price
      <4> QED
        BY <4>1 DEF Remaining, Price
    <3> QED
      BY <2>1, <3>1, PriceTotal DEF Net
  <2>2. CASE line[i].reversed
    BY <2>2 DEF Net
  <2>3. CASE line[i] = NoLine
    BY <2>3, ZeroTotal, NetNew
  <2> QED
    BY <2>1, <2>2, <2>3 DEF FolioInv, TypeOK
<1>2. Charged = SumFunctionOnSet([i \in Items |-> Net(line[i])], Items)
  BY ChargedIs DEF FolioInv, TypeOK
<1>3. \A i \in Items : [x \in Items |-> Net(line[x])][i] \in Nat
  BY <1>1
<1>4. Charged \in Nat
  BY <1>2, <1>3, RowsAssumption, SumNat
<1> QED
  BY <1>4, PaidIs DEF FolioInv, TypeOK

\* A command that answers uses its key, which was free.
LEMMA AnswerOnce ==
  ASSUME FolioInv, NEW c \in Clients, tx[c].op \notin {"idle", "uncheck"}, Answer(c)
  PROVE  \E k \in Keys : /\ ran[k] < life[k] /\ ran' = [ran EXCEPT ![k] = ran[k] + 1]
                         /\ UNCHANGED life
<1>1. PICK k \in Keys : k = tx[c].key /\ key[k] # "LIVE"
  <2>1. tx[c].key # None /\ tx[c].key \in Keys \cup {None}
    BY DEF FolioInv, Pending, TypeOK
  <2> QED
    BY <2>1 DEF FolioInv, Pending
<1>2. ran' = [ran EXCEPT ![k] = ran[k] + 1] /\ UNCHANGED life
  BY <1>1 DEF Answer
<1>3. ran[k] < life[k]
  BY <1>1 DEF FolioInv, TypeOK, KeysUsed
<1> QED
  BY <1>2, <1>3

LEMMA PerformImplements ==
  ASSUME FolioInv, FolioInv', NEW c \in Clients, Perform(c)
  PROVE  Bill!Next
<1>1. Charged \in Nat /\ Paid \in Nat /\ Charged' \in Nat /\ Paid' \in Nat
  <2>1. (Charged \in Nat /\ Paid \in Nat)'
    BY AccountType, PTL
  <2> QED
    BY <2>1, AccountType
<1>2. tx[c].op \notin {"idle", "uncheck"} /\ Answer(c)
  BY DEF Perform, PostCharge, PostRoomCharges, ReverseItem, AdjustItem,
         PostPayment, VoidPayment, RefundPayment
<1>3. PICK k \in Keys : /\ ran[k] < life[k] /\ ran' = [ran EXCEPT ![k] = ran[k] + 1]
                        /\ UNCHANGED life
  BY <1>2, AnswerOnce
<1>4. /\ (UNCHANGED line => Charged' = Charged) /\ (UNCHANGED pay => Paid' = Paid)
      /\ folio'.status = "OPEN" => (folio'.status = "SETTLED") = FALSE
  BY DEF Charged, Paid
<1>5. CASE PostCharge(c) \/ PostRoomCharges(c)
  <2>1. /\ Charged' >= Charged /\ UNCHANGED pay
        /\ folio'.status = "OPEN" \/ UNCHANGED <<folio, line>>
    BY <1>5, PostChargeKeeps, RoomChargesKeep
  <2>2. Bill!Charge \/ UNCHANGED <<Charged, Paid, folio.status = "SETTLED">>
    BY <1>4, <2>1 DEF Bill!Charge
  <2> QED
    BY <1>3, <2>2 DEF Bill!Next, Bill!Request
<1>6. CASE ReverseItem(c) \/ AdjustItem(c)
  <2>1. Charged' <= Charged /\ UNCHANGED pay /\ folio'.status = "OPEN"
    BY <1>6, ReverseKeeps, AdjustKeeps
  <2>2. Bill!Credit
    BY <1>1, <1>4, <2>1 DEF Bill!Credit
  <2> QED
    BY <1>3, <2>2 DEF Bill!Next, Bill!Request
<1>7. CASE PostPayment(c)
  <2>1. Paid' \in Paid..Charged /\ folio'.status = "OPEN" /\ UNCHANGED line
    BY <1>7, PaymentKeeps
  <2>2. Bill!Pay
    BY <1>4, <2>1 DEF Bill!Pay
  <2> QED
    BY <1>3, <2>2 DEF Bill!Next, Bill!Request
<1>8. CASE VoidPayment(c) \/ RefundPayment(c)
  <2>1. Paid' <= Paid /\ folio'.status = "OPEN" /\ UNCHANGED line
    BY <1>8, VoidKeeps, RefundKeeps
  <2>2. Bill!PayBack
    BY <1>1, <1>4, <2>1 DEF Bill!PayBack
  <2> QED
    BY <1>3, <2>2 DEF Bill!Next, Bill!Request
<1> QED
  BY <1>5, <1>6, <1>7, <1>8 DEF Perform

LEMMA StepImplements ==
  ASSUME FolioInv, FolioInv', [Next]_vars
  PROVE  [Bill!Next]_(Bill!vars)
<1>1. Charged \in Nat /\ Paid \in Nat
  BY AccountType
<1>2. /\ UNCHANGED <<line, pay>> => Charged' = Charged /\ Paid' = Paid
      /\ UNCHANGED folio => (folio'.status = "SETTLED") = (folio.status = "SETTLED")
  BY DEF Charged, Paid
<1>3. CASE UNCHANGED <<folio, line, pay, life, ran>>
  BY <1>2, <1>3 DEF Bill!vars
<1>4. ASSUME NEW c \in Clients,
             Request(c) \/ Rollback(c) \/ AskReverseCheckIn(c) \/ ReverseCheckIn(c)
      PROVE  UNCHANGED <<folio, line, pay, life, ran>>
  BY <1>4 DEF Request, AskCharge, AskNights, AskPay, AskReverse, AskAdjust, AskPayment,
              Rollback, AskReverseCheckIn, ReverseCheckIn
<1>5. ASSUME NEW c \in Clients, Perform(c) PROVE Bill!Next
  BY <1>5, PerformImplements
<1>6. ASSUME NEW k \in Keys, Expire(k) PROVE Bill!Next
  <2>1. /\ ran[k] = life[k] /\ life[k] < MaxLives
        /\ life' = [life EXCEPT ![k] = life[k] + 1] /\ UNCHANGED <<folio, line, pay, ran>>
    BY <1>6 DEF Expire, FolioInv, TypeOK, KeysUsed
  <2> QED
    BY <1>2, <2>1 DEF Bill!Next, Bill!Free
<1>7. ASSUME SettleFolio \/ CheckIn \/ CheckOut PROVE [Bill!Next]_(Bill!vars)
  <2>1. UNCHANGED <<line, pay, life, ran>>
    BY <1>7 DEF SettleFolio, CheckIn, CheckOut
  <2>2. \/ folio.balance = 0 /\ folio'.status = "SETTLED"
        \/ folio.status # "SETTLED" /\ folio'.status # "SETTLED"
        \/ UNCHANGED folio
    BY <1>7 DEF FolioInv, TypeOK, SettleFolio, CheckIn, CheckOut, SettledRow
  <2>3. folio.balance = 0 => Charged = Paid
    BY <1>1 DEF FolioInv, BalanceIsLedger
  <2>4. CASE folio.balance = 0 /\ folio'.status = "SETTLED"
    BY <1>2, <2>1, <2>3, <2>4 DEF Bill!Next, Bill!Settle
  <2>5. CASE (folio.status = "SETTLED") = (folio'.status = "SETTLED")
    BY <1>2, <2>1, <2>5 DEF Bill!vars
  <2> QED
    BY <2>2, <2>4, <2>5
<1>8. CASE Roll
  <2>1. /\ Charged' >= Charged /\ UNCHANGED <<pay, life, ran>>
        /\ folio'.status = "OPEN" \/ UNCHANGED <<folio, line>>
    BY <1>8, RollKeeps
  <2>2. CASE folio'.status = "OPEN"
    <3>1. Bill!Charge
      BY <2>1, <2>2 DEF Bill!Charge, Paid
    <3> QED
      BY <2>1, <3>1 DEF Bill!Next, Bill!Night
  <2> QED
    BY <1>3, <2>1, <2>2
<1> QED
  BY <1>3, <1>4, <1>5, <1>6, <1>7, <1>8 DEF Next, vars

\* Billing keeps the promises of Account: no more credited than charged, no more paid
\* back than paid, no payment beyond the balance, only an account that owes nothing is
\* settled, and a request takes effect once in the life of its key.
THEOREM FolioImplementsAccount == Spec => ImplementsAccount
<1>1. Init => Bill!Init
  BY FolioInit DEF Init, Bill!Init
<1>2. FolioInv /\ FolioInv' /\ [Next]_vars => [Bill!Next]_(Bill!vars)
  BY StepImplements
<1> QED
  BY <1>1, <1>2, FolioInvariant, PTL DEF Spec, ImplementsAccount, Bill!Spec
=============================================================================
