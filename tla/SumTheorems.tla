---------------------------- MODULE SumTheorems ----------------------------
(***************************************************************************)
(* Sums over finite sets, as MapThenSumSet computes them: by choosing an   *)
(* element of the set and adding the sum of the others.  What they are     *)
(* follows by induction on finite sets, from the well-foundedness of their *)
(* strict inclusion.                                                       *)
(***************************************************************************)
EXTENDS Integers, FiniteSetTheorems, WellFoundedInduction, TLAPS

(* The element MapThenSumSet takes first, and the sums it computes. *)
Pick(s) == CHOOSE x \in s : TRUE

Sums(w) ==
    CHOOSE g : g = [s \in SUBSET DOMAIN w |->
                        IF s = {} THEN 0 ELSE w[Pick(s)] + g[s \ {Pick(s)}]]

(* g satisfies the recursion those sums are chosen for. *)
IsSum(g, w, S) ==
    \A s \in SUBSET S : g[s] = IF s = {} THEN 0 ELSE w[Pick(s)] + g[s \ {Pick(s)}]

(* What holds of a subset whenever it holds of the smaller ones holds of   *)
(* all; G is the set of those it holds of.                                 *)
LEMMA SubsetInduction ==
    ASSUME NEW S, IsFiniteSet(S), NEW G,
           \A s \in SUBSET S : (\A t \in SUBSET s : t # s => t \in G) => s \in G
    PROVE  \A s \in SUBSET S : s \in G
<1> DEFINE R == StrictSubsetOrdering(S)
           F == FiniteSubsetsOf(S)
           Bad == (SUBSET S) \ G
<1>1. IsWellFoundedOn(R, F)
  BY FS_StrictSubsetOrderingWellFounded
<1>2. Bad \subseteq F
  BY FS_FiniteSubsetsOfFinite
<1>3. ASSUME NEW s PROVE s \in Bad <=> s \in SUBSET S /\ s \notin G
  OBVIOUS
<1> HIDE DEF R, F, Bad
<1> SUFFICES ASSUME Bad # {} PROVE FALSE
  BY <1>3, Zenon
<1>5. PICK u \in Bad : \A v \in Bad : ~ (<<v, u>> \in R)
  BY <1>1, <1>2, WFMin
<1>6. u \in SUBSET S /\ u \notin G
  BY <1>3, <1>5, Zenon
<1>7. \A t \in SUBSET u : t # u => t \in G
  BY <1>3, <1>5, <1>6 DEF R, StrictSubsetOrdering
<1> QED BY <1>6, <1>7

(* Every nonempty set of naturals has a least element. *)
LEMMA LeastNat ==
    ASSUME NEW T \in SUBSET Nat, T # {}
    PROVE  \E x \in T : \A y \in T : x <= y
<1> DEFINE R == StrictSubsetOrdering(Nat)
           F == FiniteSubsetsOf(Nat)
           D == {0..k : k \in T}
<1>1. IsWellFoundedOn(R, F)
  BY FS_StrictSubsetOrderingWellFounded
<1>2. D \subseteq F /\ D # {}
  <2>1. \A k \in T : 0..k \in SUBSET Nat /\ IsFiniteSet(0..k)
    BY FS_Interval
  <2> QED BY <2>1 DEF FiniteSubsetsOf
<1> HIDE DEF R, F, D
<1>3. PICK u \in D : \A v \in D : ~ (<<v, u>> \in R)
  BY <1>1, <1>2, WFMin
<1>4. PICK x \in T : u = 0..x
  BY DEF D
<1>5. ASSUME NEW y \in T, ~(x <= y) PROVE FALSE
  <2>1. 0..y \in D /\ ~(<<0..y, u>> \in R)
    BY <1>3 DEF D
  <2>2. x \in Nat /\ y \in Nat /\ y < x
    BY <1>5
  <2>3. 0..y \subseteq u /\ u \subseteq Nat /\ x \in u /\ x \notin 0..y
    BY <2>2, <1>4
  <2> QED BY <2>1, <2>3 DEF R, StrictSubsetOrdering
<1> QED BY <1>5

(* What holds of 0, and of n + 1 whenever of n, holds of all; again G is the *)
(* set of those it holds of.                                                 *)
LEMMA NatInduct ==
    ASSUME NEW G, 0 \in G, \A n \in Nat : n \in G => n + 1 \in G
    PROVE  \A n \in Nat : n \in G
<1> DEFINE Bad == {n \in Nat : n \notin G}
<1> SUFFICES ASSUME Bad # {} PROVE FALSE
  OBVIOUS
<1>1. PICK x \in Bad : \A y \in Bad : x <= y
  BY LeastNat
<1>2. x \in Nat /\ x # 0 /\ x - 1 \in Nat /\ x - 1 \in G
  BY <1>1
<1>3. x \in G
  BY <1>2
<1> QED BY <1>1, <1>3

LEMMA PickIn ==
    ASSUME NEW s, s # {}
    PROVE  Pick(s) \in s
BY DEF Pick

(* There is a function that satisfies the recursion: one for the sets of at *)
(* most n elements extends to those of n + 1.                               *)
LEMMA SumExists ==
    ASSUME NEW S, IsFiniteSet(S), NEW w \in [S -> Int]
    PROVE  \E g \in [SUBSET S -> Int] : IsSum(g, w, S)
<1> DEFINE Upto(n) == \E g \in [SUBSET S -> Int] : \A s \in SUBSET S :
                         Cardinality(s) <= n =>
                            g[s] = IF s = {} THEN 0 ELSE w[Pick(s)] + g[s \ {Pick(s)}]
<1>0. \A s \in SUBSET S : /\ IsFiniteSet(s) /\ Cardinality(s) \in Nat
                          /\ Cardinality(s) = 0 <=> s = {}
                          /\ Cardinality(s) <= Cardinality(S)
  BY FS_Subset, FS_CardinalityType, FS_EmptySet
<1>1. Upto(0)
  <2> WITNESS [s \in SUBSET S |-> 0] \in [SUBSET S -> Int]
  <2> QED BY <1>0
<1>2. ASSUME NEW n \in Nat, Upto(n) PROVE Upto(n + 1)
  <2>1. PICK g \in [SUBSET S -> Int] : \A s \in SUBSET S :
                         Cardinality(s) <= n =>
                            g[s] = IF s = {} THEN 0 ELSE w[Pick(s)] + g[s \ {Pick(s)}]
    BY <1>2
  <2> DEFINE h == [s \in SUBSET S |-> IF Cardinality(s) = n + 1 THEN w[Pick(s)] + g[s \ {Pick(s)}]
                                      ELSE g[s]]
  <2>2. \A s \in SUBSET S : s # {} => /\ Pick(s) \in S /\ s \ {Pick(s)} \in SUBSET S
                                      /\ w[Pick(s)] \in Int /\ g[s \ {Pick(s)}] \in Int
                                      /\ Cardinality(s \ {Pick(s)}) = Cardinality(s) - 1
    BY <1>0, PickIn, FS_RemoveElement
  <2>3. h \in [SUBSET S -> Int]
    BY <1>0, <2>2
  <2>4. ASSUME NEW s \in SUBSET S, Cardinality(s) <= n + 1
        PROVE  h[s] = IF s = {} THEN 0 ELSE w[Pick(s)] + h[s \ {Pick(s)}]
    <3>1. CASE s = {}
      BY <1>0, <2>1, <3>1
    <3>2. CASE s # {} /\ Cardinality(s) = n + 1
      <4>1. h[s] = w[Pick(s)] + g[s \ {Pick(s)}]
        BY <3>2
      <4>2. h[s \ {Pick(s)}] = g[s \ {Pick(s)}]
        BY <1>0, <2>2, <3>2
      <4> QED BY <3>2, <4>1, <4>2
    <3>3. CASE s # {} /\ Cardinality(s) # n + 1
      <4>1. h[s] = g[s] /\ Cardinality(s) <= n
        BY <1>0, <2>4, <3>3
      <4>2. h[s \ {Pick(s)}] = g[s \ {Pick(s)}]
        BY <1>0, <2>2, <3>3, <4>1
      <4> QED BY <2>1, <3>3, <4>1, <4>2
    <3> QED BY <3>1, <3>2, <3>3
  <2> HIDE DEF h
  <2> QED BY <2>3, <2>4
<1> HIDE DEF Upto
<1>3. \A n \in Nat : Upto(n)
  <2> SUFFICES ASSUME {k \in Nat : ~Upto(k)} # {} PROVE FALSE
    OBVIOUS
  <2>1. PICK m \in {k \in Nat : ~Upto(k)} : \A y \in {k \in Nat : ~Upto(k)} : m <= y
    BY LeastNat
  <2>2. m # 0 /\ m - 1 \in Nat
    BY <1>1, <2>1
  <2>3. Upto(m - 1)
    BY <2>1, <2>2
  <2> QED BY <1>2, <2>1, <2>2, <2>3
<1>4. Upto(Cardinality(S))
  BY <1>0, <1>3
<1> QED BY <1>0, <1>4 DEF Upto, IsSum

SumLaw(w, S) ==
    /\ Sums(w) \in [SUBSET S -> Int]
    /\ Sums(w)[{}] = 0
    /\ \A s \in SUBSET S : s # {} => Sums(w)[s] = w[Pick(s)] + Sums(w)[s \ {Pick(s)}]

(* So the chosen one does. *)
LEMMA SumsIs ==
    ASSUME NEW S, IsFiniteSet(S), NEW w \in [S -> Int]
    PROVE  SumLaw(w, S)
<1> DEFINE Step(g) == [s \in SUBSET S |-> IF s = {} THEN 0 ELSE w[Pick(s)] + g[s \ {Pick(s)}]]
<1>1. DOMAIN w = S
  OBVIOUS
<1>2. \E g \in [SUBSET S -> Int] : g = Step(g)
  <2>1. PICK g \in [SUBSET S -> Int] : IsSum(g, w, S)
    BY SumExists
  <2> DEFINE body(s) == IF s = {} THEN 0 ELSE w[Pick(s)] + g[s \ {Pick(s)}]
  <2>2. \A s \in SUBSET S : g[s] = body(s)
    BY <2>1 DEF IsSum
  <2> HIDE DEF body
  <2>3. g = [s \in SUBSET S |-> body(s)]
    BY <2>2
  <2>4. g = Step(g)
    BY <2>3 DEF body
  <2> QED BY <2>4
<1>3. Sums(w) = CHOOSE g : g = Step(g)
  BY <1>1 DEF Sums
<1>4. Sums(w) = Step(Sums(w))
  <2> HIDE DEF Step
  <2> QED BY <1>2, <1>3
<1> HIDE DEF Step
<1> DEFINE G == Sums(w)
<1> HIDE DEF G
<1>5. G = [s \in SUBSET S |-> IF s = {} THEN 0 ELSE w[Pick(s)] + G[s \ {Pick(s)}]]
  BY <1>4 DEF G, Step
<1>6. /\ DOMAIN G = SUBSET S
      /\ \A s \in SUBSET S : G[s] = IF s = {} THEN 0 ELSE w[Pick(s)] + G[s \ {Pick(s)}]
  <2> DEFINE body(s) == IF s = {} THEN 0 ELSE w[Pick(s)] + G[s \ {Pick(s)}]
  <2>1. G = [s \in SUBSET S |-> body(s)]
    BY <1>5
  <2> HIDE DEF body
  <2>2. DOMAIN G = SUBSET S /\ \A s \in SUBSET S : G[s] = body(s)
    BY <2>1
  <2> QED BY <2>2 DEF body
<1>7. \A s \in SUBSET S : G[s] \in Int
  <2> DEFINE Good == {s \in SUBSET S : G[s] \in Int}
  <2>1. ASSUME NEW s \in SUBSET S, \A t \in SUBSET s : t # s => t \in Good
        PROVE  s \in Good
    <3>1. CASE s = {}
      <4>1. G[s] = 0
        BY <1>6, <3>1
      <4> QED BY <4>1
    <3>2. CASE s # {}
      <4>1. Pick(s) \in s
        BY <3>2, PickIn
      <4>2. w[Pick(s)] \in Int /\ s \ {Pick(s)} \in Good
        BY <2>1, <4>1
      <4>3. G[s] = w[Pick(s)] + G[s \ {Pick(s)}]
        BY <1>6, <3>2
      <4> QED BY <4>2, <4>3
    <3> QED BY <3>1, <3>2
  <2> HIDE DEF Good
  <2>2. \A s \in SUBSET S : s \in Good
    BY <2>1, SubsetInduction
  <2> QED BY <2>2 DEF Good
<1>8. G \in [SUBSET S -> Int]
  <2>1. G = [s \in DOMAIN G |-> G[s]]
    BY <1>5
  <2> QED BY <1>6, <1>7, <2>1
<1> QED BY <1>6, <1>8 DEF G, SumLaw

(* Every nonempty finite set of naturals has a greatest element. *)
LEMMA GreatestOf ==
    ASSUME NEW S, IsFiniteSet(S), S \subseteq Nat, NEW T \in SUBSET S, T # {}
    PROVE  \E x \in T : \A y \in T : y <= x
<1> DEFINE Good == {s \in SUBSET S : s = {} \/ \E x \in s : \A y \in s : y <= x}
<1>1. ASSUME NEW s \in SUBSET S, \A t \in SUBSET s : t # s => t \in Good
      PROVE  s \in Good
  <2>1. CASE s = {}
    BY <2>1
  <2>2. CASE s # {}
    <3>1. PICK z \in s : TRUE
      BY <2>2
    <3>2. s \ {z} \in Good
      BY <1>1, <3>1
    <3>3. CASE s \ {z} = {}
      <4>1. z \in Nat /\ \A y \in s : y = z
        BY <3>1, <3>3
      <4> QED BY <3>1, <4>1
    <3>4. CASE s \ {z} # {}
      <4>1. PICK x \in s \ {z} : \A y \in s \ {z} : y <= x
        BY <3>2, <3>4
      <4>2. x \in Nat /\ z \in Nat /\ \A y \in s : y \in Nat
        BY <3>1, <4>1
      <4>3. CASE z <= x
        BY <4>1, <4>2, <4>3
      <4>4. CASE x <= z
        <5>1. \A y \in s : y <= z
          BY <4>1, <4>2, <4>4
        <5> QED BY <3>1, <5>1
      <4> QED BY <4>2, <4>3, <4>4
    <3> QED BY <3>3, <3>4
  <2> QED BY <2>1, <2>2
<1> HIDE DEF Good
<1>2. \A s \in SUBSET S : s \in Good
  BY <1>1, SubsetInduction
<1> QED BY <1>2 DEF Good

(* The order does not matter: any element may be taken first. *)
LEMMA SumTake ==
    ASSUME NEW S, IsFiniteSet(S), NEW w \in [S -> Int],
           NEW T \in SUBSET S, NEW x \in T
    PROVE  Sums(w)[T] = w[x] + Sums(w)[T \ {x}]
<1> DEFINE G == Sums(w)
           Good == {s \in SUBSET S : \A y \in s : G[s] = w[y] + G[s \ {y}]}
<1>1. /\ G \in [SUBSET S -> Int]
      /\ \A s \in SUBSET S : s # {} => G[s] = w[Pick(s)] + G[s \ {Pick(s)}]
  <2>1. SumLaw(w, S)
    BY SumsIs
  <2> QED BY <2>1 DEF SumLaw
<1> HIDE DEF G
<1>2. ASSUME NEW s \in SUBSET S, \A t \in SUBSET s : t # s => t \in Good
      PROVE  s \in Good
  <2> SUFFICES ASSUME NEW y \in s
               PROVE  G[s] = w[y] + G[s \ {y}]
    OBVIOUS
  <2> DEFINE p == Pick(s)
  <2>1. p \in s /\ G[s] = w[p] + G[s \ {p}]
    BY <1>1, PickIn
  <2> HIDE DEF p
  <2>2. CASE p = y
    BY <2>1, <2>2
  <2>3. CASE p # y
    <3>1. G[s \ {p}] = w[y] + G[(s \ {p}) \ {y}]
      <4>1. s \ {p} \in Good /\ y \in s \ {p}
        BY <1>2, <2>1, <2>3
      <4> QED BY <4>1
    <3>2. G[s \ {y}] = w[p] + G[(s \ {y}) \ {p}]
      <4>1. s \ {y} \in Good /\ p \in s \ {y}
        BY <1>2, <2>1, <2>3
      <4> QED BY <4>1
    <3> DEFINE r == (s \ {y}) \ {p}
    <3>3. (s \ {p}) \ {y} = r
      OBVIOUS
    <3>4. w[p] \in Int /\ w[y] \in Int /\ G[r] \in Int
      BY <1>1, <2>1
    <3>5. G[s \ {p}] = w[y] + G[r] /\ G[s \ {y}] = w[p] + G[r]
      BY <3>1, <3>2, <3>3
    <3> HIDE DEF r
    <3> QED BY <2>1, <3>4, <3>5
  <2> QED BY <2>2, <2>3
<1> HIDE DEF Good
<1>3. T \in Good
  BY <1>2, SubsetInduction
<1> QED BY <1>3 DEF Good, G

(* Changing one summand changes the sum as much. *)
LEMMA SumOfChanged ==
    ASSUME NEW S, IsFiniteSet(S), NEW w \in [S -> Int], NEW x \in S, NEW d \in Int
    PROVE  Sums([w EXCEPT ![x] = @ + d])[S] = Sums(w)[S] + d
<1> DEFINE u == [w EXCEPT ![x] = @ + d]
           Good == {s \in SUBSET S : x \notin s => Sums(u)[s] = Sums(w)[s]}
<1>1. /\ Sums(w) \in [SUBSET S -> Int] /\ Sums(w)[{}] = 0
      /\ \A s \in SUBSET S : s # {} => Sums(w)[s] = w[Pick(s)] + Sums(w)[s \ {Pick(s)}]
  <2>1. SumLaw(w, S)
    BY SumsIs
  <2> QED BY <2>1 DEF SumLaw
<1>0. w[x] \in Int /\ w[x] + d \in Int
  OBVIOUS
<1>2. u \in [S -> Int] /\ u[x] = w[x] + d /\ \A y \in S : y # x => u[y] = w[y]
  BY <1>0
<1> HIDE DEF u
<1>3. /\ Sums(u) \in [SUBSET S -> Int] /\ Sums(u)[{}] = 0
      /\ \A s \in SUBSET S : s # {} => Sums(u)[s] = u[Pick(s)] + Sums(u)[s \ {Pick(s)}]
  <2>1. u \in [S -> Int]
    BY <1>2
  <2>2. SumLaw(u, S)
    BY <2>1, SumsIs
  <2> QED BY <2>2 DEF SumLaw
<1>4. ASSUME NEW s \in SUBSET S, \A t \in SUBSET s : t # s => t \in Good
      PROVE  s \in Good
  <2>1. CASE s = {}
    BY <1>1, <1>3, <2>1
  <2>2. CASE s # {} /\ x \notin s
    <3>1. Pick(s) \in s /\ Pick(s) # x
      BY <2>2, PickIn
    <3>2. s \ {Pick(s)} \in Good /\ x \notin s \ {Pick(s)}
      BY <1>4, <2>2, <3>1
    <3>3. Sums(u)[s \ {Pick(s)}] = Sums(w)[s \ {Pick(s)}] /\ u[Pick(s)] = w[Pick(s)]
      BY <1>2, <3>1, <3>2
    <3>4. Sums(u)[s] = Sums(w)[s]
      BY <1>1, <1>3, <2>2, <3>3
    <3> QED BY <3>4
  <2> QED BY <2>1, <2>2
<1> HIDE DEF Good
<1>5. S \ {x} \in Good
  BY <1>4, SubsetInduction
<1>6. Sums(u)[S \ {x}] = Sums(w)[S \ {x}]
  BY <1>5 DEF Good
<1>7. Sums(u)[S] = u[x] + Sums(u)[S \ {x}]
  BY <1>2, SumTake
<1>8. Sums(w)[S] = w[x] + Sums(w)[S \ {x}]
  BY SumTake
<1>9. w[x] \in Int /\ Sums(w)[S \ {x}] \in Int
  BY <1>1
<1> QED BY <1>2, <1>6, <1>7, <1>8, <1>9 DEF u

(* Sums differ as their summands do; m scales the second difference. *)
LEMMA SumsCompare ==
    ASSUME NEW S, IsFiniteSet(S), NEW m \in Int,
           NEW a \in [S -> Int], NEW b \in [S -> Int],
           NEW c \in [S -> Int], NEW d \in [S -> Int],
           \A x \in S : a[x] - b[x] >= m * (c[x] - d[x])
    PROVE  Sums(a)[S] - Sums(b)[S] >= m * (Sums(c)[S] - Sums(d)[S])
<1> DEFINE A == Sums(a)
           B == Sums(b)
           C == Sums(c)
           D == Sums(d)
           Good == {s \in SUBSET S : A[s] - B[s] >= m * (C[s] - D[s])}
<1>0. SumLaw(a, S) /\ SumLaw(b, S) /\ SumLaw(c, S) /\ SumLaw(d, S)
  BY SumsIs
<1>1. /\ A \in [SUBSET S -> Int] /\ A[{}] = 0
      /\ B \in [SUBSET S -> Int] /\ B[{}] = 0
      /\ C \in [SUBSET S -> Int] /\ C[{}] = 0
      /\ D \in [SUBSET S -> Int] /\ D[{}] = 0
  BY <1>0 DEF SumLaw
<1>2. ASSUME NEW s \in SUBSET S, s # {}
      PROVE  LET p == Pick(s)
                 r == s \ {Pick(s)}
             IN  /\ A[s] = a[p] + A[r] /\ B[s] = b[p] + B[r]
                 /\ C[s] = c[p] + C[r] /\ D[s] = d[p] + D[r]
  <2>1. A[s] = a[Pick(s)] + A[s \ {Pick(s)}]
    BY <1>0, <1>2 DEF SumLaw
  <2>2. B[s] = b[Pick(s)] + B[s \ {Pick(s)}]
    BY <1>0, <1>2 DEF SumLaw
  <2>3. C[s] = c[Pick(s)] + C[s \ {Pick(s)}]
    BY <1>0, <1>2 DEF SumLaw
  <2>4. D[s] = d[Pick(s)] + D[s \ {Pick(s)}]
    BY <1>0, <1>2 DEF SumLaw
  <2> QED BY <2>1, <2>2, <2>3, <2>4
<1> HIDE DEF A, B, C, D
<1>3. ASSUME NEW s \in SUBSET S, \A t \in SUBSET s : t # s => t \in Good
      PROVE  s \in Good
  <2>1. CASE s = {}
    <3>1. A[s] - B[s] >= m * (C[s] - D[s])
      BY <1>1, <2>1
    <3> QED BY <3>1
  <2>2. CASE s # {}
    <3> DEFINE p == Pick(s)
               r == s \ {p}
    <3>1. p \in s
      BY <2>2, PickIn
    <3>2. /\ A[s] = a[p] + A[r] /\ B[s] = b[p] + B[r]
          /\ C[s] = c[p] + C[r] /\ D[s] = d[p] + D[r]
      BY <1>2, <2>2
    <3> HIDE DEF p
    <3>3. r \in Good /\ r \in SUBSET S
      BY <1>3, <3>1
    <3> HIDE DEF r
    <3>4. A[r] - B[r] >= m * (C[r] - D[r]) /\ a[p] - b[p] >= m * (c[p] - d[p])
      BY <3>1, <3>3
    <3>5. /\ A[r] \in Int /\ B[r] \in Int /\ C[r] \in Int /\ D[r] \in Int
          /\ a[p] \in Int /\ b[p] \in Int /\ c[p] \in Int /\ d[p] \in Int
      BY <1>1, <3>1, <3>3
    <3>6. \A x, y, z, k \in Int : m * ((x + y) - (z + k)) = m * (x - z) + m * (y - k)
      OBVIOUS
    <3>7. A[s] - B[s] >= m * (C[s] - D[s])
      BY <3>2, <3>4, <3>5, <3>6
    <3> QED BY <3>7
  <2> QED BY <2>1, <2>2
<1> HIDE DEF Good
<1>4. S \in Good
  BY <1>3, SubsetInduction
<1> QED BY <1>4 DEF Good, A, B, C, D

LEMMA SumOfZeros ==
    ASSUME NEW S, IsFiniteSet(S), NEW w \in [S -> Int], \A v \in S : w[v] = 0
    PROVE  Sums(w)[S] = 0
<1> DEFINE Good == {s \in SUBSET S : Sums(w)[s] = 0}
<1>1. SumLaw(w, S)
  BY SumsIs
<1>2. ASSUME NEW s \in SUBSET S, \A t \in SUBSET s : t # s => t \in Good
      PROVE  s \in Good
  <2>1. CASE s = {}
    BY <1>1, <2>1 DEF SumLaw
  <2>2. CASE s # {}
    <3>1. Pick(s) \in s
      BY <2>2, PickIn
    <3>2. s \ {Pick(s)} \in Good
      BY <1>2, <3>1
    <3>3. Sums(w)[s] = w[Pick(s)] + Sums(w)[s \ {Pick(s)}]
      BY <1>1, <2>2 DEF SumLaw
    <3> QED BY <3>1, <3>2, <3>3
  <2> QED BY <2>1, <2>2
<1> HIDE DEF Good
<1>3. S \in Good
  BY <1>2, SubsetInduction
<1> QED BY <1>3 DEF Good

(* The sum over a part of the domain does not look at the rest. *)
LEMMA SumRestrict ==
    ASSUME NEW S, IsFiniteSet(S), NEW w \in [S -> Int], NEW P \in SUBSET S
    PROVE  Sums([i \in P |-> w[i]])[P] = Sums(w)[P]
<1> DEFINE u == [i \in P |-> w[i]]
           Good == {s \in SUBSET P : Sums(u)[s] = Sums(w)[s]}
<1>1. IsFiniteSet(P) /\ u \in [P -> Int] /\ \A i \in P : u[i] = w[i]
  BY FS_Subset
<1> HIDE DEF u
<1>2. SumLaw(u, P) /\ SumLaw(w, S)
  BY <1>1, SumsIs
<1>3. ASSUME NEW s \in SUBSET P, \A t \in SUBSET s : t # s => t \in Good
      PROVE  s \in Good
  <2>1. CASE s = {}
    BY <1>2, <2>1 DEF SumLaw
  <2>2. CASE s # {}
    <3>1. Pick(s) \in s
      BY <2>2, PickIn
    <3>2. s \ {Pick(s)} \in Good
      BY <1>3, <3>1
    <3>3. /\ Sums(u)[s] = u[Pick(s)] + Sums(u)[s \ {Pick(s)}]
          /\ Sums(w)[s] = w[Pick(s)] + Sums(w)[s \ {Pick(s)}]
      BY <1>2, <2>2 DEF SumLaw
    <3> QED BY <1>1, <3>1, <3>2, <3>3
  <2> QED BY <2>1, <2>2
<1> HIDE DEF Good
<1>4. \A s \in SUBSET P : s \in Good
  BY <1>1, <1>3, SubsetInduction
<1> QED BY <1>4 DEF Good, u

(* Sums over disjoint sets add up. *)
LEMMA SumUnion ==
    ASSUME NEW S, IsFiniteSet(S), NEW w \in [S -> Int],
           NEW P \in SUBSET S, NEW Q \in SUBSET S, P \cap Q = {}
    PROVE  Sums(w)[P \cup Q] = Sums(w)[P] + Sums(w)[Q]
<1> DEFINE Good == {s \in SUBSET P : Sums(w)[s \cup Q] = Sums(w)[s] + Sums(w)[Q]}
<1>1. SumLaw(w, S) /\ IsFiniteSet(P)
  BY SumsIs, FS_Subset
<1>2. ASSUME NEW s \in SUBSET P, \A t \in SUBSET s : t # s => t \in Good
      PROVE  s \in Good
  <2>1. CASE s = {}
    <3>1. s \cup Q = Q /\ Sums(w)[s] = 0 /\ Sums(w)[Q] \in Int
      BY <1>1, <2>1 DEF SumLaw
    <3> QED BY <3>1
  <2>2. CASE s # {}
    <3>1. PICK x \in s : TRUE
      BY <2>2
    <3>2. /\ s \in SUBSET S /\ s \cup Q \in SUBSET S /\ x \in s \cup Q
          /\ (s \cup Q) \ {x} = (s \ {x}) \cup Q
      BY <3>1
    <3>3. Sums(w)[s] = w[x] + Sums(w)[s \ {x}]
      BY <3>1, <3>2, SumTake
    <3>4. Sums(w)[s \cup Q] = w[x] + Sums(w)[(s \ {x}) \cup Q]
      BY <3>2, SumTake
    <3>5. s \ {x} \in Good
      BY <1>2, <3>1
    <3>6. /\ w[x] \in Int /\ Sums(w)[s \ {x}] \in Int /\ Sums(w)[Q] \in Int
      BY <1>1, <3>1 DEF SumLaw
    <3>7. Sums(w)[s \cup Q] = Sums(w)[s] + Sums(w)[Q]
      BY <3>3, <3>4, <3>5, <3>6
    <3> QED BY <3>7
  <2> QED BY <2>1, <2>2
<1> HIDE DEF Good
<1>3. \A s \in SUBSET P : s \in Good
  BY <1>1, <1>2, SubsetInduction
<1> QED BY <1>3 DEF Good

(* A sum of naturals is one. *)
LEMMA SumOfNaturals ==
    ASSUME NEW S, IsFiniteSet(S), NEW w \in [S -> Int], NEW P \in SUBSET S,
           \A i \in P : w[i] >= 0
    PROVE  Sums(w)[P] \in Nat
<1> DEFINE Good == {s \in SUBSET P : Sums(w)[s] \in Nat}
<1>1. SumLaw(w, S) /\ IsFiniteSet(P)
  BY SumsIs, FS_Subset
<1>2. ASSUME NEW s \in SUBSET P, \A t \in SUBSET s : t # s => t \in Good
      PROVE  s \in Good
  <2>1. CASE s = {}
    BY <1>1, <2>1 DEF SumLaw
  <2>2. CASE s # {}
    <3>1. Pick(s) \in s
      BY <2>2, PickIn
    <3>2. s \ {Pick(s)} \in Good /\ w[Pick(s)] \in Nat
      BY <1>2, <3>1
    <3>3. Sums(w)[s] = w[Pick(s)] + Sums(w)[s \ {Pick(s)}]
      BY <1>1, <2>2 DEF SumLaw
    <3> QED BY <3>2, <3>3
  <2> QED BY <2>1, <2>2
<1> HIDE DEF Good
<1>3. \A s \in SUBSET P : s \in Good
  BY <1>1, <1>2, SubsetInduction
<1> QED BY <1>3 DEF Good

(* Taking any one element first. *)
LEMMA SumTakeOne ==
    ASSUME NEW S, IsFiniteSet(S), NEW w \in [S -> Int], NEW x \in S
    PROVE  Sums(w)[S] = w[x] + Sums(w)[S \ {x}]
<1>1. S \in SUBSET S
  OBVIOUS
<1> QED BY <1>1, SumTake

(* Ten times the terms, ten times the sum. *)
LEMMA SumOfTenfold ==
    ASSUME NEW S, IsFiniteSet(S), NEW a \in [S -> Int], NEW c \in [S -> Int],
           \A x \in S : a[x] = 10 * c[x]
    PROVE  Sums(a)[S] = 10 * Sums(c)[S]
<1> DEFINE z == [x \in S |-> 0]
<1>1. z \in [S -> Int] /\ Sums(z)[S] = 0 /\ \A x \in S : z[x] = 0
  BY SumOfZeros
<1> HIDE DEF z
<1>2. \A x \in S : a[x] \in Int /\ c[x] \in Int
  OBVIOUS
<1>3. Sums(a)[S] - Sums(z)[S] >= 10 * (Sums(c)[S] - Sums(z)[S])
  <2>1. \A x \in S : a[x] - z[x] >= 10 * (c[x] - z[x])
    BY <1>1, <1>2
  <2> QED BY <1>1, <2>1, SumsCompare
<1>4. Sums(z)[S] - Sums(a)[S] >= 10 * (Sums(z)[S] - Sums(c)[S])
  <2>1. \A x \in S : z[x] - a[x] >= 10 * (z[x] - c[x])
    BY <1>1, <1>2
  <2> QED BY <1>1, <2>1, SumsCompare
<1>5. Sums(a)[S] \in Int /\ Sums(c)[S] \in Int
  <2>1. SumLaw(a, S) /\ SumLaw(c, S)
    BY SumsIs
  <2> QED BY <2>1 DEF SumLaw
<1> DEFINE A == Sums(a)[S]
           C == Sums(c)[S]
<1>6. A \in Int /\ C \in Int /\ A - 0 >= 10 * (C - 0) /\ 0 - A >= 10 * (0 - C)
  BY <1>1, <1>3, <1>4, <1>5
<1> HIDE DEF A, C
<1>7. A = 10 * C
  BY <1>6
<1> QED BY <1>7 DEF A, C
=============================================================================
