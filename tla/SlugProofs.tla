----------------------------- MODULE SlugProofs -----------------------------
(***************************************************************************)
(* What sanitizeSlug computes, for a text of any length. The replacements  *)
(* are compositions of "keep these positions", so a proof about them is    *)
(* one about sets of positions: no induction over the text is needed but   *)
(* the one in "every set of numbers has a least member".                   *)
(***************************************************************************)
EXTENDS Slug, FiniteSetTheorems, WellFoundedInduction, TLAPS

(* The number of members of S up to i. *)
rank(S, i) == Cardinality({j \in S : j <= i})

(* Every set of numbers that has a member has a least one. *)
LEMMA Least ==
  ASSUME NEW T, T \subseteq Nat, T # {}
  PROVE  \E n \in T : \A m \in T : n <= m
<1>1. PICK R : R = {ss \in Nat \X Nat : ss[1] < ss[2]}
  OBVIOUS
<1>2. IsWellFoundedOn(R, Nat)
  BY <1>1, NatLessThanWellFounded DEF OpToRel
<1>3. PICK n \in T : \A m \in T : ~(<<m, n>> \in R)
  BY <1>2, WFMin
<1>4. ASSUME NEW m \in T PROVE n <= m
  <2>1. m \in Nat /\ n \in Nat
    OBVIOUS
  <2>2. <<m, n>> \notin R
    BY <1>3
  <2>3. ~(m < n)
    BY <1>1, <2>1, <2>2
  <2> QED BY <2>1, <2>3
<1> QED
  BY <1>4

(* A set of positions of a text that has a member has a greatest one. *)
LEMMA Greatest ==
  ASSUME NEW n \in Nat, NEW T, T \subseteq 1..n, T # {}
  PROVE  \E g \in T : \A m \in T : m <= g
<1>1. PICK U : U = {n - m : m \in T}
  OBVIOUS
<1>2. U \subseteq Nat /\ U # {}
  <2>1. \A m \in T : n - m \in Nat
    OBVIOUS
  <2> QED BY <1>1, <2>1
<1>3. PICK u \in U : \A v \in U : u <= v
  BY <1>2, Least
<1>4. PICK g \in T : u = n - g
  BY <1>1, <1>3
<1>5. ASSUME NEW m \in T PROVE m <= g
  <2>1. n - g <= n - m
    BY <1>1, <1>3, <1>4
  <2> QED BY <2>1
<1> QED
  BY <1>5

(* A set of positions is finite, and so are the parts that are counted. *)
LEMMA Positions ==
  ASSUME NEW n \in Nat, NEW S \in SUBSET (1..n)
  PROVE  /\ IsFiniteSet(S)
         /\ Cardinality(S) \in Nat
         /\ \A T \in SUBSET S : IsFiniteSet(T) /\ Cardinality(T) \in Nat /\ Cardinality(T) <= Cardinality(S)
<1>1. IsFiniteSet(1..n)
  BY FS_Interval
<1>2. IsFiniteSet(S)
  BY <1>1, FS_Subset
<1> QED
  BY <1>2, FS_Subset, FS_CardinalityType

(* Later members have higher ranks, and every rank is one of the places of *)
(* the text that is kept.                                                  *)
LEMMA RankIncreases ==
  ASSUME NEW n \in Nat, NEW S \in SUBSET (1..n)
  PROVE  /\ \A i \in S : rank(S, i) \in 1..Cardinality(S)
         /\ \A i, j \in S : i < j => rank(S, i) < rank(S, j)
<1>1. ASSUME NEW i \in S PROVE rank(S, i) \in 1..Cardinality(S)
  <2>1. PICK T : T = {j \in S : j <= i}
    OBVIOUS
  <2>2. i \in T /\ T \in SUBSET S
    BY <2>1
  <2>3. IsFiniteSet(T) /\ Cardinality(T) \in Nat /\ Cardinality(T) <= Cardinality(S)
    BY <2>2, Positions
  <2>4. Cardinality(T) # 0
    BY <2>2, <2>3, FS_EmptySet
  <2>5. Cardinality(S) \in Nat
    BY Positions
  <2> QED BY <2>1, <2>3, <2>4, <2>5 DEF rank
<1>2. ASSUME NEW i \in S, NEW j \in S, i < j PROVE rank(S, i) < rank(S, j)
  <2>1. PICK T : T = {k \in S : k <= i}
    OBVIOUS
  <2>2. PICK U : U = {k \in S : k <= j}
    OBVIOUS
  <2>3. T \in SUBSET U /\ j \in U /\ j \notin T /\ U \in SUBSET S
    <3>1. \A k \in S : k \in Int
      OBVIOUS
    <3>2. \A k \in S : k <= i => k <= j
      BY <1>2, <3>1
    <3>3. j <= j /\ ~(j <= i)
      BY <1>2, <3>1
    <3> QED BY <2>1, <2>2, <3>2, <3>3
  <2>4. IsFiniteSet(U) /\ Cardinality(U) \in Nat
    BY <2>3, Positions
  <2>5. Cardinality(T) \in Nat /\ Cardinality(T) <= Cardinality(U) /\ Cardinality(T) # Cardinality(U)
    BY <2>3, <2>4, FS_Subset, FS_CardinalityType
  <2> QED BY <2>1, <2>2, <2>4, <2>5 DEF rank
<1> QED
  BY <1>1, <1>2

(* Every place of the text that is kept is the rank of one position. *)
LEMMA RankOnto ==
  ASSUME NEW n \in Nat, NEW S \in SUBSET (1..n), NEW k \in 1..Cardinality(S)
  PROVE  \E i \in S : rank(S, i) = k
<1>1. PICK f : f = [i \in S |-> rank(S, i)]
  OBVIOUS
<1>2. PICK c : c = Cardinality(S)
  OBVIOUS
<1>3. c \in Nat /\ IsFiniteSet(S)
  BY <1>2, Positions
<1>4. f \in [S -> 1..c]
  BY <1>1, <1>2, RankIncreases
<1>5. ASSUME NEW i \in S, NEW j \in S, f[i] = f[j] PROVE i = j
  <2>1. rank(S, i) = rank(S, j)
    BY <1>1, <1>5
  <2>2. i \in Int /\ j \in Int
    OBVIOUS
  <2>3. rank(S, i) \in 1..Cardinality(S)
    BY RankIncreases
  <2>4. (i < j => rank(S, i) < rank(S, j)) /\ (j < i => rank(S, j) < rank(S, i))
    BY RankIncreases
  <2>5. rank(S, i) \in Int /\ rank(S, j) \in Int
    BY <2>1, <2>3
  <2> QED BY <2>1, <2>2, <2>4, <2>5
<1>6. f \in Injection(S, 1..c)
  BY <1>4, <1>5, Zenon DEF Injection, IsInjective
<1>7. IsFiniteSet(1..c) /\ Cardinality(1..c) = c
  BY <1>3, FS_Interval
<1>8. f \in Surjection(S, 1..c)
  BY <1>2, <1>6, <1>7, FS_Injection
<1>9. PICK i \in S : f[i] = k
  BY <1>2, <1>8, Zenon DEF Surjection
<1> QED
  BY <1>1, <1>9

(* Nth lists a set of positions, in increasing order. *)
LEMMA NthLists ==
  ASSUME NEW n \in Nat, NEW S \in SUBSET (1..n)
  PROVE  /\ \A k \in 1..Cardinality(S) : Nth(S, k) \in S /\ rank(S, Nth(S, k)) = k
         /\ \A i \in S : rank(S, i) \in 1..Cardinality(S) /\ Nth(S, rank(S, i)) = i
         /\ \A j, k \in 1..Cardinality(S) : j < k <=> Nth(S, j) < Nth(S, k)
<1>1. ASSUME NEW k \in 1..Cardinality(S) PROVE Nth(S, k) \in S /\ rank(S, Nth(S, k)) = k
  <2>1. \E i \in S : rank(S, i) = k
    BY RankOnto
  <2>2. Nth(S, k) = CHOOSE i \in S : rank(S, i) = k
    BY DEF Nth, rank
  <2> QED
    BY <2>1, <2>2
<1>2. ASSUME NEW i \in S PROVE rank(S, i) \in 1..Cardinality(S) /\ Nth(S, rank(S, i)) = i
  <2>1. PICK k : k = rank(S, i)
    OBVIOUS
  <2>2. k \in 1..Cardinality(S)
    BY <2>1, RankIncreases
  <2>3. Nth(S, k) \in S /\ rank(S, Nth(S, k)) = k
    BY <1>1, <2>2
  <2>4. PICK j \in S : j = Nth(S, k)
    BY <2>3
  <2>5. i \in Int /\ j \in Int
    OBVIOUS
  <2>6. (i < j => rank(S, i) < rank(S, j)) /\ (j < i => rank(S, j) < rank(S, i))
    BY RankIncreases
  <2>7. rank(S, j) = k
    BY <2>3, <2>4
  <2>8. i = j
    BY <2>1, <2>2, <2>5, <2>6, <2>7
  <2> QED BY <2>1, <2>2, <2>4, <2>8
<1>3. ASSUME NEW j \in 1..Cardinality(S), NEW k \in 1..Cardinality(S)
      PROVE  j < k <=> Nth(S, j) < Nth(S, k)
  <2>1. PICK x \in S : x = Nth(S, j) /\ rank(S, x) = j
    BY <1>1
  <2>2. PICK y \in S : y = Nth(S, k) /\ rank(S, y) = k
    BY <1>1
  <2>3. x \in Int /\ y \in Int /\ j \in Int /\ k \in Int
    OBVIOUS
  <2>4. (x < y => j < k) /\ (y < x => k < j) /\ (x = y => j = k)
    BY <2>1, <2>2, RankIncreases
  <2>5. j < k <=> x < y
    BY <2>3, <2>4
  <2> QED BY <2>1, <2>2, <2>5
<1> QED
  BY <1>1, <1>2, <1>3

(* A set that a one-to-one listing of 1..m covers has m members. *)
LEMMA Listed ==
  ASSUME NEW m \in Nat, NEW T, NEW g \in [1..m -> T],
         \A j, k \in 1..m : j # k => g[j] # g[k],
         \A i \in T : \E k \in 1..m : g[k] = i
  PROVE  Cardinality(T) = m
<1>1. IsFiniteSet(1..m) /\ Cardinality(1..m) = m
  BY FS_Interval
<1>2. g \in Injection(1..m, T)
  BY Zenon DEF Injection, IsInjective
<1>3. g \in Surjection(1..m, T)
  BY Zenon DEF Surjection
<1>4. ExistsBijection(1..m, T)
  BY <1>2, <1>3, Zenon DEF ExistsBijection, Bijection
<1> QED
  BY <1>1, <1>4, FS_Bijection

(* The only increasing list of a set of positions is Nth. *)
LEMMA OnlyList ==
  ASSUME NEW n \in Nat, NEW S \in SUBSET (1..n), NEW m \in Nat, NEW f \in [1..m -> S],
         \A j, k \in 1..m : j < k => f[j] < f[k],
         \A i \in S : \E k \in 1..m : f[k] = i
  PROVE  Cardinality(S) = m /\ \A k \in 1..m : Nth(S, k) = f[k]
<1>1. \A k \in 1..m : f[k] \in Int
  <2>1. \A i \in S : i \in Int
    OBVIOUS
  <2> QED BY <2>1
<1>2. \A j, k \in 1..m : (j < k <=> f[j] < f[k]) /\ (j # k => f[j] # f[k])
  BY <1>1
<1>3. Cardinality(S) = m
  BY <1>2, Listed
<1>4. ASSUME NEW k \in 1..m PROVE Nth(S, k) = f[k]
  <2>1. PICK T : T = {j \in S : j <= f[k]}
    OBVIOUS
  <2>2. PICK g : g = [x \in 1..k |-> f[x]]
    OBVIOUS
  <2>3. k \in Nat /\ \A x \in 1..k : x \in 1..m
    OBVIOUS
  <2>4. \A x \in 1..k : g[x] = f[x] /\ f[x] \in S /\ f[x] <= f[k]
    BY <1>1, <1>2, <2>2, <2>3
  <2>5. g \in [1..k -> T]
    BY <2>1, <2>2, <2>4
  <2>6. \A x, y \in 1..k : x # y => g[x] # g[y]
    BY <1>2, <2>3, <2>4
  <2>7. ASSUME NEW i \in T PROVE \E x \in 1..k : g[x] = i
    <3>1. PICK x \in 1..m : f[x] = i
      BY <2>1
    <3>2. ~(f[k] < f[x])
      BY <1>1, <2>1, <3>1
    <3>3. ~(k < x)
      BY <1>2, <3>2
    <3>4. x \in 1..k
      BY <3>3
    <3> QED BY <2>4, <3>1, <3>4
  <2>8. Cardinality(T) = k
    BY <2>3, <2>5, <2>6, <2>7, Listed
  <2>9. f[k] \in S /\ rank(S, f[k]) = k
    BY <2>1, <2>8 DEF rank
  <2> QED BY <2>9, NthLists
<1> QED
  BY <1>3, <1>4

(* The order of the ranks is the order of the positions. *)
LEMMA RankOrder ==
  ASSUME NEW n \in Nat, NEW S \in SUBSET (1..n), NEW i \in S, NEW j \in S
  PROVE  /\ i \in Int /\ rank(S, i) \in Int
         /\ rank(S, i) < rank(S, j) <=> i < j
         /\ rank(S, i) <= rank(S, j) <=> i <= j
<1>1. i \in Int /\ j \in Int
  OBVIOUS
<1>2. rank(S, i) \in 1..Cardinality(S) /\ rank(S, j) \in 1..Cardinality(S)
  BY RankIncreases
<1>3. (i < j => rank(S, i) < rank(S, j)) /\ (j < i => rank(S, j) < rank(S, i))
  BY RankIncreases
<1>4. i = j => rank(S, i) = rank(S, j)
  OBVIOUS
<1>5. rank(S, i) \in Int /\ rank(S, j) \in Int
  BY <1>2
<1> QED
  BY <1>1, <1>3, <1>4, <1>5

(* What is kept of a text is a text, and holds the character of position i *)
(* at the rank of i.                                                       *)
LEMMA KeepText ==
  ASSUME NEW n \in Nat, NEW t \in [1..n -> Class], NEW P \in SUBSET (1..n)
  PROVE  /\ Cardinality(P) \in Nat
         /\ keep(t, P) \in [1..Cardinality(P) -> Class]
         /\ \A i \in P : rank(P, i) \in 1..Cardinality(P) /\ keep(t, P)[rank(P, i)] = t[i]
         /\ \A k \in 1..Cardinality(P) : keep(t, P)[k] = t[Nth(P, k)]
<1>1. Cardinality(P) \in Nat
  BY Positions
<1>2. \A k \in 1..Cardinality(P) : Nth(P, k) \in P
  BY NthLists
<1>3. \A k \in 1..Cardinality(P) : Nth(P, k) \in 1..n
  BY <1>2
<1>4. \A i \in P : rank(P, i) \in 1..Cardinality(P) /\ Nth(P, rank(P, i)) = i
  BY NthLists
<1>5. keep(t, P) = [k \in 1..Cardinality(P) |-> t[Nth(P, k)]]
  BY DEF keep
<1>6. keep(t, P) \in [1..Cardinality(P) -> Class]
  BY <1>3, <1>5
<1> QED
  BY <1>1, <1>4, <1>5, <1>6

(* Keeping positions of a text that was kept is keeping the positions of   *)
(* the first text whose rank is kept.                                      *)
LEMMA KeepKeep ==
  ASSUME NEW n \in Nat, NEW t \in [1..n -> Class], NEW P \in SUBSET (1..n),
         NEW Q \in SUBSET (1..Cardinality(P))
  PROVE  keep(keep(t, P), Q) = keep(t, {i \in P : rank(P, i) \in Q})
<1>1. PICK p \in Nat : p = Cardinality(P)
  BY Positions
<1>2. PICK q \in Nat : q = Cardinality(Q)
  BY <1>1, Positions
<1>3. PICK R : R = {i \in P : rank(P, i) \in Q}
  OBVIOUS
<1>4. R \in SUBSET (1..n)
  BY <1>3
<1>5. \A k \in 1..q : Nth(Q, k) \in Q /\ rank(Q, Nth(Q, k)) = k
  BY <1>1, <1>2, NthLists
<1>6. \A k \in 1..p : Nth(P, k) \in P /\ rank(P, Nth(P, k)) = k
  BY <1>1, NthLists
<1>7. PICK f : f = [k \in 1..q |-> Nth(P, Nth(Q, k))]
  OBVIOUS
<1>8. Q \in SUBSET (1..p)
  BY <1>1
<1>9. f \in [1..q -> R]
  BY <1>3, <1>5, <1>6, <1>7, <1>8
<1>10. ASSUME NEW j \in 1..q, NEW k \in 1..q, j < k PROVE f[j] < f[k]
  <2>1. Nth(Q, j) < Nth(Q, k)
    BY <1>1, <1>2, <1>10, NthLists
  <2>2. Nth(Q, j) \in 1..p /\ Nth(Q, k) \in 1..p
    BY <1>5, <1>8
  <2>3. Nth(P, Nth(Q, j)) < Nth(P, Nth(Q, k))
    BY <1>1, <2>1, <2>2, NthLists
  <2> QED BY <1>7, <2>3
<1>11. ASSUME NEW i \in R PROVE \E k \in 1..q : f[k] = i
  <2>1. i \in P /\ rank(P, i) \in Q
    BY <1>3
  <2>2. rank(Q, rank(P, i)) \in 1..q /\ Nth(Q, rank(Q, rank(P, i))) = rank(P, i)
    BY <1>1, <1>2, <2>1, NthLists
  <2>3. Nth(P, rank(P, i)) = i
    BY <2>1, NthLists
  <2> QED BY <1>7, <2>2, <2>3
<1>12. Cardinality(R) = q /\ \A k \in 1..q : Nth(R, k) = f[k]
  BY <1>4, <1>9, <1>10, <1>11, OnlyList
<1>13. keep(keep(t, P), Q) = [k \in 1..q |-> keep(t, P)[Nth(Q, k)]]
  BY <1>2 DEF keep
<1>14. ASSUME NEW k \in 1..q PROVE keep(t, P)[Nth(Q, k)] = t[f[k]]
  <2>1. PICK x \in 1..Cardinality(P) : x = Nth(Q, k)
    BY <1>5
  <2>2. keep(t, P)[x] = t[Nth(P, x)]
    BY DEF keep
  <2> QED BY <1>7, <2>1, <2>2
<1>15. keep(t, R) = [k \in 1..q |-> t[f[k]]]
  BY <1>12 DEF keep
<1> QED
  BY <1>3, <1>13, <1>14, <1>15

(* Keeping every position changes nothing. *)
LEMMA KeepAll ==
  ASSUME NEW n \in Nat, NEW t \in [1..n -> Class]
  PROVE  keep(t, 1..n) = t
<1>1. PICK f : f = [k \in 1..n |-> k]
  OBVIOUS
<1>2. PICK S \in SUBSET (1..n) : S = 1..n
  OBVIOUS
<1>3. Cardinality(S) = n /\ \A k \in 1..n : Nth(S, k) = f[k]
  <2>1. f \in [1..n -> S] /\ \A k \in 1..n : f[k] = k
    BY <1>1, <1>2
  <2>2. \A j, k \in 1..n : j < k => f[j] < f[k]
    BY <2>1
  <2>3. \A i \in S : \E k \in 1..n : f[k] = i
    BY <1>2, <2>1
  <2> QED BY <2>1, <2>2, <2>3, OnlyList
<1>4. keep(t, S) = [k \in 1..n |-> t[k]]
  BY <1>1, <1>3 DEF keep
<1> QED
  BY <1>2, <1>4

(* Dropping classes from a text that was kept. *)
LEMMA DropKept ==
  ASSUME NEW n \in Nat, NEW t \in [1..n -> Class], NEW P \in SUBSET (1..n), NEW C
  PROVE  dropAll(keep(t, P), C) = keep(t, {i \in P : t[i] \notin C})
<1>1. PICK u : u = keep(t, P)
  OBVIOUS
<1>2. /\ DOMAIN u = 1..Cardinality(P)
      /\ \A i \in P : rank(P, i) \in 1..Cardinality(P) /\ u[rank(P, i)] = t[i]
  <2>1. /\ Cardinality(P) \in Nat
        /\ keep(t, P) \in [1..Cardinality(P) -> Class]
        /\ \A i \in P : rank(P, i) \in 1..Cardinality(P) /\ keep(t, P)[rank(P, i)] = t[i]
        /\ \A k \in 1..Cardinality(P) : keep(t, P)[k] = t[Nth(P, k)]
    BY KeepText
  <2> QED BY <1>1, <2>1
<1>3. PICK Q \in SUBSET (1..Cardinality(P)) : Q = {k \in DOMAIN u : u[k] \notin C}
  BY <1>2
<1>4. {i \in P : rank(P, i) \in Q} = {i \in P : t[i] \notin C}
  BY <1>2, <1>3
<1>5. dropAll(u, C) = keep(u, Q)
  BY <1>3 DEF dropAll
<1>6. keep(keep(t, P), Q) = keep(t, {i \in P : rank(P, i) \in Q})
  BY KeepKeep
<1> QED
  BY <1>1, <1>4, <1>5, <1>6

(* Trimming a text that was kept. *)
LEMMA TrimKept ==
  ASSUME NEW n \in Nat, NEW t \in [1..n -> Class], NEW P \in SUBSET (1..n)
  PROVE  trim(keep(t, P)) =
           keep(t, {i \in P : \E a, b \in {j \in P : t[j] # "space"} : a <= i /\ i <= b})
<1>1. PICK u : u = keep(t, P)
  OBVIOUS
<1>2. /\ DOMAIN u = 1..Cardinality(P)
      /\ \A i \in P : rank(P, i) \in 1..Cardinality(P) /\ u[rank(P, i)] = t[i]
  <2>1. /\ Cardinality(P) \in Nat
        /\ keep(t, P) \in [1..Cardinality(P) -> Class]
        /\ \A i \in P : rank(P, i) \in 1..Cardinality(P) /\ keep(t, P)[rank(P, i)] = t[i]
        /\ \A k \in 1..Cardinality(P) : keep(t, P)[k] = t[Nth(P, k)]
    BY KeepText
  <2> QED BY <1>1, <2>1
<1>3. PICK solid : solid = {j \in P : t[j] # "space"}
  OBVIOUS
<1>4. PICK ranks : ranks = {k \in DOMAIN u : u[k] # "space"}
  OBVIOUS
<1>5. PICK Q \in SUBSET (1..Cardinality(P)) :
        Q = {k \in DOMAIN u : \E a, b \in ranks : a <= k /\ k <= b}
  BY <1>2
<1>6. ASSUME NEW i \in P, rank(P, i) \in Q PROVE \E a, b \in solid : a <= i /\ i <= b
  <2>1. PICK x \in ranks, y \in ranks : x <= rank(P, i) /\ rank(P, i) <= y
    BY <1>5, <1>6
  <2>2. x \in 1..Cardinality(P) /\ y \in 1..Cardinality(P) /\ u[x] # "space" /\ u[y] # "space"
    BY <1>2, <1>4
  <2>3. PICK a \in P : rank(P, a) = x
    BY <2>2, NthLists
  <2>4. PICK b \in P : rank(P, b) = y
    BY <2>2, NthLists
  <2>5. a \in solid /\ b \in solid
    BY <1>2, <1>3, <2>2, <2>3, <2>4
  <2>6. a <= i /\ i <= b
    BY <2>1, <2>3, <2>4, RankOrder
  <2> QED BY <2>5, <2>6
<1>7. ASSUME NEW i \in P, NEW a \in solid, NEW b \in solid, a <= i, i <= b
      PROVE  rank(P, i) \in Q
  <2>1. a \in P /\ b \in P /\ t[a] # "space" /\ t[b] # "space"
    BY <1>3
  <2>2. rank(P, a) \in ranks /\ rank(P, b) \in ranks
    BY <1>2, <1>4, <2>1
  <2>3. rank(P, a) <= rank(P, i) /\ rank(P, i) <= rank(P, b)
    BY <1>7, <2>1, RankOrder
  <2> QED BY <1>2, <1>5, <2>2, <2>3
<1>8. {i \in P : rank(P, i) \in Q} = {i \in P : \E a, b \in solid : a <= i /\ i <= b}
  BY <1>6, <1>7
<1>9. trim(u) = keep(u, Q)
  BY <1>4, <1>5 DEF trim
<1>10. keep(keep(t, P), Q) = keep(t, {i \in P : rank(P, i) \in Q})
  BY KeepKeep
<1> QED
  BY <1>1, <1>3, <1>8, <1>9, <1>10

(* j is the member of P next before i. *)
next(P, j, i) == j < i /\ \A q \in P : q <= j \/ i <= q

(* The place before that of i is the place of the position next before i.  *)
LEMMA PlaceBefore ==
  ASSUME NEW n \in Nat, NEW P \in SUBSET (1..n), NEW i \in P
  PROVE  /\ \A j \in P : next(P, j, i) => rank(P, i) # 1 /\ rank(P, j) = rank(P, i) - 1
         /\ rank(P, i) # 1 => \E j \in P : next(P, j, i) /\ rank(P, j) = rank(P, i) - 1
<1>1. PICK p \in Nat : p = Cardinality(P)
  BY Positions
<1>2. \A j \in P : rank(P, j) \in 1..p
  BY <1>1, RankIncreases
<1>3. ASSUME rank(P, i) # 1
      PROVE  \E j \in P : next(P, j, i) /\ rank(P, j) = rank(P, i) - 1
  <2>1. rank(P, i) - 1 \in 1..p
    BY <1>2, <1>3
  <2>2. PICK j \in P : rank(P, j) = rank(P, i) - 1
    BY <1>1, <2>1, NthLists
  <2>3. rank(P, i) \in Int
    BY <1>2
  <2>4. j < i
    BY <2>2, <2>3, RankOrder
  <2>5. ASSUME NEW q \in P PROVE q <= j \/ i <= q
    <3>1. rank(P, q) \in Int
      BY <1>2
    <3>2. rank(P, q) <= rank(P, j) \/ rank(P, i) <= rank(P, q)
      BY <2>2, <2>3, <3>1
    <3> QED BY <3>2, RankOrder
  <2> QED BY <2>2, <2>4, <2>5 DEF next
<1>4. ASSUME NEW j \in P, next(P, j, i) PROVE rank(P, i) # 1 /\ rank(P, j) = rank(P, i) - 1
  <2>1. j < i /\ \A q \in P : q <= j \/ i <= q
    BY <1>4 DEF next
  <2>2. rank(P, j) < rank(P, i)
    BY <2>1, RankOrder
  <2>3. rank(P, i) # 1
    BY <1>2, <2>2
  <2>4. PICK k \in P : next(P, k, i) /\ rank(P, k) = rank(P, i) - 1
    BY <1>3, <2>3
  <2>5. k <= j /\ j <= k
    <3>1. k < i /\ (j <= k \/ i <= j) /\ (k <= j \/ i <= k)
      BY <2>1, <2>4 DEF next
    <3>2. i \in Int /\ j \in Int /\ k \in Int
      OBVIOUS
    <3> QED BY <2>1, <3>1, <3>2
  <2>6. j = k
    <3>1. j \in Int /\ k \in Int
      OBVIOUS
    <3> QED BY <2>5, <3>1
  <2> QED BY <2>3, <2>4, <2>6
<1> QED
  BY <1>3, <1>4

(* One class of a text has become hyphens. *)
swap(t, class) == [i \in DOMAIN t |-> IF t[i] = class THEN "hyphen" ELSE t[i]]

(* Joining the runs of a class in a text that was kept: a member of the    *)
(* class stays when the position next before it is none.                   *)
LEMMA RunsKept ==
  ASSUME NEW n \in Nat, NEW t \in [1..n -> Class],
         NEW P \in SUBSET (1..n), NEW c
  PROVE  /\ swap(t, c) \in [1..n -> Class]
         /\ replaceRuns(keep(t, P), c) =
              keep(swap(t, c), {i \in P : t[i] # c \/ \A j \in P : next(P, j, i) => t[j] # c})
<1>1. ASSUME NEW i \in P
       PROVE  /\ \A j \in P : next(P, j, i) => rank(P, i) # 1 /\ rank(P, j) = rank(P, i) - 1
              /\ rank(P, i) # 1 => \E j \in P : next(P, j, i) /\ rank(P, j) = rank(P, i) - 1
  <2>1. P \in SUBSET (1..n) /\ i \in P /\ n \in Nat
    OBVIOUS
  <2> HIDE DEF next, rank
  <2> QED BY ONLY <2>1, PlaceBefore
<1>2. PICK u : u = keep(t, P)
  OBVIOUS
<1>3. PICK p \in Nat : p = Cardinality(P)
  BY Positions
<1>4. /\ u \in [1..p -> Class]
      /\ \A i \in P : rank(P, i) \in 1..p /\ u[rank(P, i)] = t[i]
      /\ \A k \in 1..p : u[k] = t[Nth(P, k)]
  <2>1. /\ Cardinality(P) \in Nat
        /\ keep(t, P) \in [1..Cardinality(P) -> Class]
        /\ \A i \in P : rank(P, i) \in 1..Cardinality(P) /\ keep(t, P)[rank(P, i)] = t[i]
        /\ \A k \in 1..Cardinality(P) : keep(t, P)[k] = t[Nth(P, k)]
    BY KeepText
  <2> QED BY <1>2, <1>3, <2>1
<1>5. swap(t, c) \in [1..n -> Class]
  BY DEF swap, Class
<1>6. PICK Q \in SUBSET (1..p) : Q = {k \in DOMAIN u : u[k] # c \/ k = 1 \/ u[k - 1] # c}
  BY <1>4
<1>7. swap(u, c) = keep(swap(t, c), P)
  <2>1. \A k \in 1..p : Nth(P, k) \in 1..n
    BY <1>3, NthLists
  <2>2. keep(swap(t, c), P) = [k \in 1..p |-> swap(t, c)[Nth(P, k)]]
    BY <1>3 DEF keep
  <2>3. \A k \in 1..p : swap(t, c)[Nth(P, k)] = IF u[k] = c THEN "hyphen" ELSE u[k]
    BY <1>4, <2>1 DEF swap
  <2> QED BY <1>4, <2>2, <2>3 DEF swap
<1>8. ASSUME NEW i \in P
      PROVE  rank(P, i) \in Q <=> (t[i] # c \/ \A j \in P : next(P, j, i) => t[j] # c)
  <2>1. rank(P, i) \in Q <=> (t[i] # c \/ rank(P, i) = 1 \/ u[rank(P, i) - 1] # c)
    BY <1>4, <1>6
  <2>2. CASE rank(P, i) = 1
    BY <2>1, <2>2, <1>1
  <2>3. CASE rank(P, i) # 1
    <3>1. PICK j \in P : next(P, j, i) /\ rank(P, j) = rank(P, i) - 1
      BY <2>3, <1>1
    <3>2. \A k \in P : next(P, k, i) => rank(P, k) = rank(P, i) - 1
      BY <1>1
    <3>3. \A k \in P : next(P, k, i) => t[k] = u[rank(P, i) - 1]
      BY <1>4, <3>2
    <3> QED BY <2>1, <2>3, <3>1, <3>3
  <2> QED BY <2>2, <2>3
<1>9. {i \in P : rank(P, i) \in Q} = {i \in P : t[i] # c \/ \A j \in P : next(P, j, i) => t[j] # c}
  BY <1>8
<1>10. replaceRuns(u, c) = keep(swap(u, c), Q)
  BY <1>6 DEF replaceRuns, swap
<1>11. keep(keep(swap(t, c), P), Q) = keep(swap(t, c), {i \in P : rank(P, i) \in Q})
  <2>1. PICK w \in [1..n -> Class] : w = swap(t, c)
    BY <1>5
  <2>2. Q \in SUBSET (1..Cardinality(P))
    BY <1>3
  <2>3. keep(keep(w, P), Q) = keep(w, {i \in P : rank(P, i) \in Q})
    BY <2>2, KeepKeep
  <2> QED BY <2>1, <2>3
<1> QED
  BY <1>2, <1>5, <1>7, <1>9, <1>10, <1>11

(* The accents of a text, taken off.                                       *)
bare(t) == [i \in DOMAIN t |-> IF t[i] = "accented" THEN "a" ELSE t[i]]

(* Splitting the accents off and dropping the marks takes the accents off, *)
(* and drops the marks that were typed.                                    *)
LEMMA Unaccented ==
  ASSUME NEW n \in Nat, NEW t \in [1..n -> Class]
  PROVE  /\ bare(t) \in [1..n -> Class]
         /\ dropAll(normalizeNFD(t), {"mark"}) = keep(bare(t), {i \in 1..n : t[i] # "mark"})
<1>1. bare(t) \in [1..n -> Class] /\ \A i \in 1..n : bare(t)[i] = IF t[i] = "accented" THEN "a" ELSE t[i]
  BY DEF bare, Class
<1>2. PICK m \in Nat : m = 2 * n
  OBVIOUS
<1>3. Length(t) = n
  BY FS_Interval DEF Length
<1>4. \A k \in 1..m : (k + 1) \div 2 \in 1..n /\ k % 2 \in {0, 1}
  BY <1>2
<1>5. PICK d : d = [k \in 1..m |-> IF k % 2 = 0 THEN "mark"
                                  ELSE IF t[(k + 1) \div 2] = "accented" THEN "a"
                                       ELSE t[(k + 1) \div 2]]
  OBVIOUS
<1>6. d \in [1..m -> Class]
  BY <1>4, <1>5 DEF Class
<1>7. PICK P \in SUBSET (1..m) : P = {k \in 1..m : k % 2 = 1 \/ t[(k + 1) \div 2] = "accented"}
  OBVIOUS
<1>8. normalizeNFD(t) = keep(d, P)
  BY <1>2, <1>3, <1>5, <1>7 DEF normalizeNFD
<1>9. dropAll(keep(d, P), {"mark"}) = keep(d, {i \in P : d[i] \notin {"mark"}})
  <2>1. \A C : dropAll(keep(d, P), C) = keep(d, {i \in P : d[i] \notin C})
    BY <1>6, DropKept
  <2> QED BY <2>1
<1>10. PICK R \in SUBSET (1..m) : R = {k \in P : d[k] \notin {"mark"}}
  OBVIOUS
<1>11. PICK S \in SUBSET (1..n) : S = {i \in 1..n : t[i] # "mark"}
  OBVIOUS
<1>12. ASSUME NEW k \in R
       PROVE  /\ (k + 1) \div 2 \in S
              /\ k = 2 * ((k + 1) \div 2) - 1
  <2>1. k \in 1..m /\ d[k] # "mark"
    BY <1>10
  <2>2. k % 2 = 1 /\ t[(k + 1) \div 2] # "mark"
    BY <1>4, <1>5, <2>1
  <2>3. (k + 1) \div 2 \in S
    BY <1>4, <1>11, <2>1, <2>2
  <2>4. k = 2 * ((k + 1) \div 2) - 1
    BY <2>1, <2>2
  <2> QED BY <2>3, <2>4
<1>13. ASSUME NEW i \in S PROVE 2 * i - 1 \in R /\ d[2 * i - 1] = bare(t)[i]
  <2>1. PICK k : k = 2 * i - 1
    OBVIOUS
  <2>2. i \in 1..n /\ t[i] # "mark"
    BY <1>11
  <2>3. k \in 1..m /\ k % 2 = 1 /\ (k + 1) \div 2 = i
    BY <1>2, <2>1, <2>2
  <2>4. d[k] = bare(t)[i] /\ bare(t)[i] # "mark"
    BY <1>1, <1>5, <2>2, <2>3
  <2>5. k \in R
    BY <1>7, <1>10, <2>3, <2>4
  <2> QED BY <2>1, <2>4, <2>5
<1>14. PICK c \in Nat : c = Cardinality(S)
  BY Positions
<1>15. PICK f : f = [k \in 1..c |-> 2 * Nth(S, k) - 1]
  OBVIOUS
<1>16. \A k \in 1..c : Nth(S, k) \in S /\ Nth(S, k) \in Int
  <2>1. \A k \in 1..c : Nth(S, k) \in S
    BY <1>14, NthLists
  <2>2. \A i \in S : i \in Int
    OBVIOUS
  <2> QED BY <2>1, <2>2
<1>17. f \in [1..c -> R]
  BY <1>13, <1>15, <1>16
<1>18. ASSUME NEW j \in 1..c, NEW k \in 1..c, j < k PROVE f[j] < f[k]
  <2>1. Nth(S, j) < Nth(S, k)
    BY <1>14, <1>18, NthLists
  <2> QED BY <1>15, <1>16, <2>1
<1>19. ASSUME NEW k \in R PROVE \E j \in 1..c : f[j] = k
  <2>1. PICK i \in S : i = (k + 1) \div 2 /\ k = 2 * i - 1
    BY <1>12
  <2>2. rank(S, i) \in 1..c /\ Nth(S, rank(S, i)) = i
    BY <1>14, NthLists
  <2> QED BY <1>15, <2>1, <2>2
<1>20. Cardinality(R) = c /\ \A k \in 1..c : Nth(R, k) = f[k]
  BY <1>17, <1>18, <1>19, OnlyList
<1>21. keep(d, R) = [k \in 1..c |-> d[f[k]]]
  BY <1>20 DEF keep
<1>22. keep(bare(t), S) = [k \in 1..c |-> bare(t)[Nth(S, k)]]
  BY <1>14 DEF keep
<1>23. \A k \in 1..c : d[f[k]] = bare(t)[Nth(S, k)]
  BY <1>13, <1>15, <1>16
<1> QED
  BY <1>1, <1>8, <1>9, <1>10, <1>11, <1>21, <1>22, <1>23

(* The members of W that stay when the runs of B among them are joined.    *)
joined(W, B) == {i \in W : i \notin B \/ \A j \in W : next(W, j, i) => j \notin B}

(* The members of D with one of L since any member of D before them.       *)
firsts(L, D) == {i \in D : \A j \in D : j < i => \E l \in L : j < l /\ l < i}

(* Joining the blanks among the letters and separators and then all the    *)
(* separators leaves, of these, the first after each letter. L, D and B    *)
(* are the letters, the separators and the blanks.                         *)
LEMMA JoinedPositions ==
  ASSUME NEW n \in Nat, NEW L \in SUBSET (1..n), NEW D \in SUBSET (1..n), L \cap D = {},
         NEW B \in SUBSET D
  PROVE  joined(joined(L \cup D, B), D) = L \cup firsts(L, D)
<1>1. PICK W : W = L \cup D
  OBVIOUS
<1>2. PICK V : V = {i \in W : i \notin B \/ \A j \in W : next(W, j, i) => j \notin B}
  OBVIOUS
<1>3. PICK G : G = {i \in D : \A j \in D : j < i => \E l \in L : j < l /\ l < i}
  OBVIOUS
<1>4. \A i \in W : i \in Int
  BY <1>1
<1>5. L \subseteq V
  BY <1>1, <1>2
<1>6. ASSUME NEW i \in G PROVE i \in V /\ \A j \in V : next(V, j, i) => j \in L
  <2>1. i \in D /\ i \in W
    BY <1>1, <1>3
  <2>2. ASSUME NEW j \in D, j < i PROVE \E l \in L : j < l /\ l < i
    BY <1>3, <2>2
  <2>3. ASSUME NEW M, L \subseteq M, NEW j \in M, next(M, j, i), j \in D PROVE FALSE
    <3>1. j < i /\ \A q \in M : q <= j \/ i <= q
      BY <2>3 DEF next
    <3>2. PICK l \in L : j < l /\ l < i
      BY <2>2, <2>3, <3>1
    <3>3. l <= j \/ i <= l
      BY <2>3, <3>1
    <3>4. l \in Int /\ j \in Int /\ i \in Int
      BY <1>1, <1>4, <2>1, <2>3
    <3> QED BY <3>2, <3>3, <3>4
  <2>4. \A j \in W : next(W, j, i) => j \notin B
    <3>1. L \subseteq W
      BY <1>1
    <3> QED BY <2>3, <3>1
  <2>5. i \in V
    BY <1>2, <2>1, <2>4
  <2>6. \A j \in V : next(V, j, i) => j \in L
    <3>1. \A j \in V : j \in L \/ j \in D
      BY <1>1, <1>2
    <3> QED BY <1>5, <2>3, <3>1
  <2> QED BY <2>5, <2>6
<1>7. ASSUME NEW i \in V, i \notin L, \A j \in V : next(V, j, i) => j \in L,
             NEW j \in D, j < i, ~ \E l \in L : j < l /\ l < i
      PROVE  FALSE
  <2>1. PICK T : T = {x \in D : x < i /\ ~ \E l \in L : x < l /\ l < i}
    OBVIOUS
  <2>2. j \in T /\ T \subseteq Nat
    <3>1. j \in T
      BY <1>7, <2>1
    <3>2. \A y \in D : y \in Nat
      OBVIOUS
    <3> QED BY <2>1, <3>1, <3>2
  <2>3. PICK x \in T : \A y \in T : x <= y
    BY <2>2, Least
  <2>4. x \in D /\ x < i /\ ~ \E l \in L : x < l /\ l < i
    BY <2>1
  <2>5. i \in Int /\ x \in Int /\ x \in W
    BY <1>1, <1>2, <1>4, <2>4
  <2>6. ASSUME NEW y \in W, next(W, y, x), y \in B PROVE FALSE
    <3>1. y < x /\ \A q \in W : q <= y \/ x <= q
      BY <2>6 DEF next
    <3>2. y \in D /\ y \in Int
      BY <1>4, <2>6
    <3>3. y < i
      BY <2>4, <2>5, <3>1, <3>2
    <3>4. ASSUME NEW l \in L, y < l, l < i PROVE FALSE
      <4>1. l \in Int /\ l \in W /\ l # x
        BY <1>1, <1>4, <2>4
      <4>2. x <= l
        BY <3>1, <3>2, <3>4, <4>1
      <4>3. x < l
        BY <2>5, <4>1, <4>2
      <4> QED BY <2>4, <3>4, <4>3
    <3>5. y \in T
      BY <2>1, <3>2, <3>3, <3>4
    <3>6. x <= y
      BY <2>3, <3>5
    <3> QED BY <2>5, <3>1, <3>2, <3>6
  <2>7. x \in V
    BY <1>2, <2>5, <2>6
  <2>8. PICK U : U = {y \in V : y < i}
    OBVIOUS
  <2>9. x \in U /\ U \subseteq 1..n
    BY <1>1, <1>2, <2>4, <2>7, <2>8
  <2>10. PICK g \in U : \A y \in U : y <= g
    BY <2>9, Greatest
  <2>11. g \in V /\ g < i /\ x <= g /\ g \in Int
    BY <1>1, <1>2, <1>4, <2>8, <2>9, <2>10
  <2>12. ASSUME NEW q \in V PROVE q <= g \/ i <= q
    <3>1. q \in Int
      BY <1>2, <1>4
    <3>2. q < i => q <= g
      BY <2>8, <2>10
    <3> QED BY <2>5, <3>1, <3>2
  <2>13. next(V, g, i)
    BY <2>11, <2>12 DEF next
  <2>14. g \in L
    BY <1>7, <2>11, <2>13
  <2>15. x < g
    BY <2>4, <2>5, <2>11, <2>14
  <2> QED BY <2>4, <2>11, <2>14, <2>15
<1>8. ASSUME NEW i \in V, i \notin L, \A j \in V : next(V, j, i) => j \in L PROVE i \in G
  <2>1. i \in D
    BY <1>1, <1>2, <1>8
  <2>2. \A j \in D : j < i => \E l \in L : j < l /\ l < i
    BY <1>7, <1>8
  <2> QED BY <1>3, <2>1, <2>2
<1>9. joined(V, D) = {i \in V : i \in L \/ \A j \in V : next(V, j, i) => j \in L}
  <2>1. \A i \in V : i \in L <=> i \notin D
    BY <1>1, <1>2
  <2> QED BY <2>1 DEF joined
<1>10. joined(L \cup D, B) = V
  BY <1>1, <1>2 DEF joined
<1>11. joined(V, D) = L \cup G
  BY <1>5, <1>6, <1>8, <1>9
<1> QED
  BY <1>3, <1>10, <1>11 DEF firsts

(* sanitizeSlug computes the slug that the reference describes, whatever   *)
(* the text and its length.                                                *)
LEMMA SanitizeIsReference ==
  ASSUME NEW n \in Nat, NEW s \in [1..n -> Class]
  PROVE  sanitizeSlug(s) = Reference(s)
<1>1. PICK low \in [1..n -> Class] : low = toLowerCase(s)
  BY DEF toLowerCase, Class
<1>2. \A i \in 1..n : low[i] = IF s[i] = "A" THEN "a" ELSE IF s[i] = "B" THEN "b" ELSE s[i]
  BY <1>1 DEF toLowerCase
<1>3. PICK c \in [1..n -> Class] : c = bare(low)
  BY Unaccented
<1>4. \A i \in 1..n : c[i] = IF s[i] = "accented" \/ s[i] = "A" THEN "a"
                              ELSE IF s[i] = "B" THEN "b" ELSE s[i]
  BY <1>2, <1>3 DEF bare
<1>5. PICK P \in SUBSET (1..n) : P = {i \in 1..n : low[i] # "mark"}
  OBVIOUS
<1>6. dropAll(normalizeNFD(low), {"mark"}) = keep(c, P)
  BY <1>3, <1>5, Unaccented
<1>7. PICK R \in SUBSET (1..n) : R = {i \in P : c[i] \notin {"other"}}
  OBVIOUS
<1>8. dropAll(keep(c, P), {"other"}) = keep(c, R)
  <2>1. \A C : dropAll(keep(c, P), C) = keep(c, {i \in P : c[i] \notin C})
    BY DropKept
  <2> QED BY <1>7, <2>1
<1>9. R = {i \in 1..n : s[i] \notin {"mark", "other"}}
  BY <1>2, <1>4, <1>5, <1>7
<1>10. PICK solid : solid = {j \in R : c[j] # "space"}
  OBVIOUS
<1>11. PICK W \in SUBSET (1..n) : W = {i \in R : \E a, b \in solid : a <= i /\ i <= b}
  OBVIOUS
<1>12. trim(keep(c, R)) = keep(c, W)
  <2>1. trim(keep(c, R)) =
          keep(c, {i \in R : \E a, b \in {j \in R : c[j] # "space"} : a <= i /\ i <= b})
    BY TrimKept
  <2> QED BY <1>10, <1>11, <2>1
<1>13. PICK L \in SUBSET (1..n) : L = Letters(s)
  BY DEF Letters
<1>14. PICK D \in SUBSET (1..n) : D = Separators(s)
  BY DEF Separators, Hyphens
<1>15. PICK B \in SUBSET D : B = {i \in D : s[i] = "space"}
  OBVIOUS
<1>16. L = {i \in 1..n : s[i] \in {"a", "b", "A", "B", "accented"}}
  BY <1>13 DEF Letters, Letter
<1>17. D = {i \in 1..n : s[i] = "hyphen"}
             \cup {i \in 1..n : s[i] = "space" /\ (\E a \in solid : a < i) /\ (\E b \in solid : i < b)}
  <2>1. solid = Letters(s) \cup Hyphens(s)
    BY <1>4, <1>9, <1>10, <1>13, <1>16 DEF Hyphens, Class
  <2> QED BY <1>14, <2>1 DEF Separators, Hyphens
<1>18. L \cap D = {}
  BY <1>16, <1>17
<1>19. W = L \cup D
  <2>1. \A i \in 1..n : i \in Int
    OBVIOUS
  <2>2. \A i \in solid : i \in 1..n /\ s[i] \in {"a", "b", "A", "B", "accented", "hyphen"}
    BY <1>4, <1>9, <1>10 DEF Class
  <2>3. \A i \in L : i \in solid /\ i \in R
    BY <1>4, <1>9, <1>10, <1>16
  <2>4. \A i \in 1..n : s[i] = "hyphen" => i \in solid /\ i \in R
    BY <1>4, <1>9, <1>10
  <2>5. ASSUME NEW i \in W PROVE i \in L \cup D
    <3>1. i \in R /\ i \in Int
      BY <1>11
    <3>2. PICK a \in solid, b \in solid : a <= i /\ i <= b
      BY <1>11
    <3>3. a \in Int /\ b \in Int
      BY <2>2
    <3>4. CASE s[i] = "space"
      <4>1. a # i /\ b # i
        BY <2>2, <3>4
      <4>2. a < i /\ i < b
        BY <3>1, <3>2, <3>3, <4>1
      <4> QED BY <1>17, <3>4, <4>2
    <3>5. CASE s[i] # "space"
      BY <1>9, <1>16, <1>17, <3>1, <3>5 DEF Class
    <3> QED BY <3>4, <3>5
  <2>6. ASSUME NEW i \in L \cup D PROVE i \in W
    <3>1. CASE i \in solid
      <4>1. i <= i /\ i \in R
        BY <2>1, <1>10, <3>1
      <4> QED BY <1>11, <3>1, <4>1
    <3>2. CASE i \notin solid
      <4>1. s[i] = "space" /\ i \in 1..n
        BY <1>17, <2>3, <2>4, <3>2
      <4>2. PICK a \in solid, b \in solid : a < i /\ i < b
        BY <1>17, <2>3, <2>4, <3>2
      <4>3. a <= i /\ i <= b
        BY <2>1, <2>2, <4>1, <4>2
      <4>4. i \in R
        BY <1>9, <4>1
      <4> QED BY <1>11, <4>3, <4>4
    <3> QED BY <3>1, <3>2
  <2> QED BY <2>5, <2>6
<1>20. PICK d \in [1..n -> Class] : d = swap(c, "space")
  BY DEF swap, Class
<1>21. \A i \in 1..n : d[i] = Plain(s[i])
  BY <1>4, <1>20 DEF swap, Plain
<1>22. PICK V \in SUBSET (1..n) : V = {i \in W : c[i] # "space" \/ \A j \in W : next(W, j, i) => c[j] # "space"}
  OBVIOUS
<1>23. replaceRuns(keep(c, W), "space") = keep(d, V)
  <2>1. \A x : /\ swap(c, x) \in [1..n -> Class]
               /\ replaceRuns(keep(c, W), x) =
                    keep(swap(c, x), {i \in W : c[i] # x \/ \A j \in W : next(W, j, i) => c[j] # x})
    BY RunsKept
  <2> QED BY <1>20, <1>22, <2>1
<1>24. V = joined(W, B)
  <2>1. \A i \in W : c[i] = "space" <=> i \in B
    BY <1>4, <1>15, <1>16, <1>19
  <2> QED BY <1>22, <2>1 DEF joined
<1>25. PICK Z \in SUBSET (1..n) : Z = {i \in V : d[i] # "hyphen" \/ \A j \in V : next(V, j, i) => d[j] # "hyphen"}
  OBVIOUS
<1>26. replaceRuns(keep(d, V), "hyphen") = keep(swap(d, "hyphen"), Z)
  <2>1. \A x : /\ swap(d, x) \in [1..n -> Class]
               /\ replaceRuns(keep(d, V), x) =
                    keep(swap(d, x), {i \in V : d[i] # x \/ \A j \in V : next(V, j, i) => d[j] # x})
    BY RunsKept
  <2> QED BY <1>25, <2>1
<1>27. swap(d, "hyphen") = [i \in DOMAIN s |-> Plain(s[i])]
  BY <1>21 DEF swap
<1>28. Z = L \cup Gaps(s)
  <2>1. \A i \in V : d[i] # "hyphen" <=> i \notin D
    BY <1>16, <1>17, <1>19, <1>21, <1>22 DEF Plain
  <2>2. Z = joined(V, D)
    BY <1>25, <2>1 DEF joined
  <2>3. joined(V, D) = L \cup firsts(L, D)
    BY <1>18, <1>19, <1>24, JoinedPositions
  <2>4. Gaps(s) = firsts(L, D)
    BY <1>13, <1>14 DEF Gaps, firsts
  <2> QED BY <2>2, <2>3, <2>4
<1>29. sanitizeSlug(s) = replaceRuns(replaceRuns(trim(dropAll(dropAll(normalizeNFD(low), {"mark"}), {"other"})),
                                                "space"), "hyphen")
  BY <1>1 DEF sanitizeSlug
<1>30. Reference(s) = keep([i \in DOMAIN s |-> Plain(s[i])], L \cup Gaps(s))
  BY <1>13 DEF Reference
<1> QED
  BY <1>6, <1>8, <1>12, <1>23, <1>26, <1>27, <1>28, <1>29, <1>30

(* A slug has lower-case letters and hyphens only, and no two hyphens      *)
(* follow each other.                                                      *)
Clean(t) ==
  /\ \A k \in DOMAIN t : t[k] \in {"a", "b", "hyphen"}
  /\ \A k \in DOMAIN t : k + 1 \in DOMAIN t => "hyphen" # t[k] \/ "hyphen" # t[k + 1]

(* What the reference describes is clean. *)
LEMMA ReferenceIsClean ==
  ASSUME NEW n \in Nat, NEW s \in [1..n -> Class]
  PROVE  \E m \in Nat : Reference(s) \in [1..m -> Class] /\ Clean(Reference(s))
<1>1. PICK p \in [1..n -> Class] : p = [i \in DOMAIN s |-> Plain(s[i])]
  BY DEF Plain, Class
<1>2. PICK K \in SUBSET (1..n) : K = Letters(s) \cup Gaps(s)
  BY DEF Letters, Gaps, Separators, Hyphens
<1>3. PICK m \in Nat : m = Cardinality(K)
  BY Positions
<1>4. PICK t : t = Reference(s)
  OBVIOUS
<1>5. t = keep(p, K)
  BY <1>1, <1>2, <1>4 DEF Reference
<1>6. t \in [1..m -> Class] /\ \A k \in 1..m : t[k] = p[Nth(K, k)]
  <2>1. /\ Cardinality(K) \in Nat
        /\ keep(p, K) \in [1..Cardinality(K) -> Class]
        /\ \A i \in K : rank(K, i) \in 1..Cardinality(K) /\ keep(p, K)[rank(K, i)] = p[i]
        /\ \A k \in 1..Cardinality(K) : keep(p, K)[k] = p[Nth(K, k)]
    BY KeepText
  <2> QED BY <1>3, <1>5, <2>1
<1>7. \A i \in K : /\ p[i] \in {"a", "b", "hyphen"}
                   /\ p[i] = "hyphen" => i \in Gaps(s)
  BY <1>1, <1>2 DEF Letters, Letter, Gaps, Separators, Hyphens, Plain
<1>8. \A k \in 1..m : Nth(K, k) \in K
  BY <1>3, NthLists
<1>9. \A k \in 1..m : t[k] \in {"a", "b", "hyphen"}
  BY <1>6, <1>7, <1>8
<1>10. ASSUME NEW k \in 1..m, k + 1 \in 1..m, t[k] = "hyphen", t[k + 1] = "hyphen" PROVE FALSE
  <2>1. PICK i \in K : i = Nth(K, k)
    BY <1>8
  <2>2. PICK j \in K : j = Nth(K, k + 1)
    BY <1>8, <1>10
  <2>3. i \in Gaps(s) /\ j \in Gaps(s)
    BY <1>6, <1>7, <1>10, <2>1, <2>2
  <2>4. i < j
    <3>1. k < k + 1
      OBVIOUS
    <3>2. Nth(K, k) < Nth(K, k + 1)
      BY <1>3, <1>10, <3>1, NthLists
    <3> QED BY <2>1, <2>2, <3>2
  <2>5. PICK l \in Letters(s) : i < l /\ l < j
    BY <2>3, <2>4 DEF Gaps
  <2>6. l \in K
    BY <1>2
  <2>7. PICK x \in 1..m : x = rank(K, l)
    BY <1>3, <2>6, RankIncreases
  <2>8. rank(K, i) = k /\ rank(K, j) = k + 1
    BY <1>3, <1>10, <2>1, <2>2, NthLists
  <2>9. rank(K, i) < rank(K, l) /\ rank(K, l) < rank(K, j)
    BY <2>5, <2>6, RankIncreases
  <2>10. k < x /\ x < k + 1
    BY <2>7, <2>8, <2>9
  <2> QED BY <2>10
<1>11. Clean(t)
  BY <1>6, <1>9, <1>10 DEF Clean
<1> QED
  BY <1>4, <1>6, <1>11

(* A clean text is the slug that the reference describes for it. *)
LEMMA CleanIsReference ==
  ASSUME NEW m \in Nat, NEW t \in [1..m -> Class], Clean(t)
  PROVE  Reference(t) = t
<1>1. \A k \in 1..m : t[k] \in {"a", "b", "hyphen"}
  BY DEF Clean
<1>2. [i \in DOMAIN t |-> Plain(t[i])] = t
  BY <1>1 DEF Plain
<1>3. Letters(t) = {i \in 1..m : t[i] # "hyphen"}
  BY <1>1 DEF Letters, Letter
<1>4. Separators(t) = {i \in 1..m : t[i] = "hyphen"}
  BY <1>1 DEF Separators, Hyphens
<1>5. ASSUME NEW i \in Separators(t), NEW j \in Separators(t), j < i
      PROVE  \E l \in Letters(t) : j < l /\ l < i
  <2>1. i \in 1..m /\ j \in 1..m /\ t[i] = "hyphen" /\ t[j] = "hyphen"
    BY <1>4
  <2>2. j + 1 \in 1..m
    BY <1>5, <2>1
  <2>3. t[j + 1] # "hyphen"
    BY <2>1, <2>2 DEF Clean
  <2>4. j + 1 # i
    BY <2>1, <2>3
  <2>5. j < j + 1 /\ j + 1 < i
    BY <1>5, <2>1, <2>4
  <2>6. j + 1 \in Letters(t)
    BY <1>3, <2>2, <2>3
  <2> QED BY <2>5, <2>6
<1>6. Gaps(t) = Separators(t)
  BY <1>5 DEF Gaps
<1>7. Letters(t) \cup Gaps(t) = 1..m
  BY <1>3, <1>4, <1>6
<1>8. keep(t, 1..m) = t
  BY KeepAll
<1> QED
  BY <1>2, <1>7, <1>8 DEF Reference

(* A slug is its own slug, whatever the text and its length. *)
LEMMA SanitizeTwice ==
  ASSUME NEW n \in Nat, NEW s \in [1..n -> Class]
  PROVE  sanitizeSlug(sanitizeSlug(s)) = sanitizeSlug(s)
<1>1. PICK t : t = sanitizeSlug(s)
  OBVIOUS
<1>2. t = Reference(s)
  BY <1>1, SanitizeIsReference
<1>3. PICK m \in Nat : t \in [1..m -> Class] /\ Clean(t)
  BY <1>2, ReferenceIsClean
<1>4. sanitizeSlug(t) = Reference(t)
  BY <1>3, SanitizeIsReference
<1>5. Reference(t) = t
  BY <1>3, CleanIsReference
<1> QED
  BY <1>1, <1>4, <1>5

(* The text stays what it was, and a slug that is there is that of the     *)
(* text.                                                                   *)
SlugOfInput == input \in Text /\ (done => slug = sanitizeSlug(input))

(* The slug is computed from the text that was given. *)
LEMMA AlwaysSlugOfInput == Spec => []SlugOfInput
<1>1. Init => SlugOfInput
  BY DEF Init, SlugOfInput
<1>2. SlugOfInput /\ [Next]_vars => SlugOfInput'
  BY DEF SlugOfInput, Next, Sanitize, vars
<1> QED
  BY <1>1, <1>2, PTL DEF Spec

(* A text is as long as it is. *)
LEMMA TextLength ==
  ASSUME NEW s \in Text
  PROVE  \E n \in Nat : s \in [1..n -> Class]
  BY MaxLengthAssumption DEF Text

(* The slug is the one that the reference describes, for every bound on    *)
(* the length of the texts.                                                *)
THEOREM SlugIsReference == Spec => []MatchesReference
<1>1. SlugOfInput => MatchesReference
  BY TextLength, SanitizeIsReference DEF SlugOfInput, MatchesReference
<1> QED
  BY <1>1, AlwaysSlugOfInput, PTL

(* A slug that existsSlug or the insert sanitizes again is the same slug,  *)
(* for every bound on the length of the texts.                             *)
THEOREM SlugIsItsOwnSlug == Spec => []Idempotent
<1>1. SlugOfInput => Idempotent
  BY TextLength, SanitizeTwice DEF SlugOfInput, Idempotent
<1> QED
  BY <1>1, AlwaysSlugOfInput, PTL
=============================================================================
