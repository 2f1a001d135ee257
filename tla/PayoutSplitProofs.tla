-------------------------- MODULE PayoutSplitProofs --------------------------
(***************************************************************************)
(* Proofs about module PayoutSplit, for every number of farmers, every      *)
(* reward and every float format that SplitAssumption admits.              *)
(*                                                                         *)
(* First what sums, places in an order and roundings are; then RunInv,     *)
(* which says what a run has done at each point; then the four properties, *)
(* each of which follows from RunInv.                                      *)
(*                                                                         *)
(* In the proofs about roundings a product that plays no part in a step is *)
(* a name, and an inequality is multiplied or divided by a lemma: the      *)
(* provers are left with linear arithmetic.                                *)
(***************************************************************************)
EXTENDS PayoutSplit, StoreProofs, FiniteSetTheorems

-----------------------------------------------------------------------------
(* Numbers *)

\* What holds of 0, and of the next number with each, holds up to N.
LEMMA UpTo ==
  ASSUME NEW N \in Nat, NEW S, 0 \in S,
         \A k \in 0 .. N : k \in S /\ k < N => k + 1 \in S
  PROVE  0 .. N \subseteq S
<1> DEFINE Missing == {k \in 0 .. N : k \notin S}
<1> SUFFICES ASSUME Missing # {} PROVE FALSE
  OBVIOUS
<1>1. PICK t \in Missing : \A k \in Missing : t <= k
  <2>1. Missing \subseteq Nat
    OBVIOUS
  <2> HIDE DEF Missing
  <2> QED BY <2>1, LeastExists
<1>2. t \in 0 .. N /\ t \notin S /\ t # 0
  OBVIOUS
<1>3. t - 1 \in 0 .. N /\ t - 1 < N /\ t - 1 \notin Missing
  BY <1>1, <1>2
<1>4. (t - 1) + 1 \in S
  BY <1>3
<1> QED BY <1>2, <1>4

LEMMA TimesLeq ==
  ASSUME NEW a \in Int, NEW b \in Int, NEW c \in Nat, a <= b
  PROVE  c * a <= c * b /\ a * c <= b * c
<1>1. b - a \in Nat
  OBVIOUS
<1>2. c * (b - a) \in Nat
  BY <1>1
<1>3. c * (b - a) = c * b - c * a
  OBVIOUS
<1> QED BY <1>2, <1>3

LEMMA TimesLess ==
  ASSUME NEW a \in Int, NEW b \in Int, NEW c \in Nat \ {0}, a < b
  PROVE  c * a < c * b /\ a * c < b * c
<1>1. a + 1 <= b
  OBVIOUS
<1>2. c * (a + 1) <= c * b
  BY <1>1, TimesLeq
<1>3. c * (a + 1) = c * a + c
  OBVIOUS
<1> QED BY <1>2, <1>3

LEMMA CancelLeq ==
  ASSUME NEW a \in Int, NEW b \in Int, NEW c \in Nat \ {0}, c * a <= c * b
  PROVE  a <= b
<1> SUFFICES ASSUME b < a PROVE FALSE
  OBVIOUS
<1> QED BY TimesLess

LEMMA CancelLess ==
  ASSUME NEW a \in Int, NEW b \in Int, NEW c \in Nat \ {0}, c * a < c * b
  PROVE  a < b
<1> SUFFICES ASSUME b <= a PROVE FALSE
  OBVIOUS
<1> QED BY TimesLeq

\* \div and % against the quotient and the rest
LEMMA Division ==
  ASSUME NEW n \in Int, NEW d \in Nat \ {0}
  PROVE  /\ n \div d \in Int /\ n % d \in 0 .. d - 1
         /\ d * (n \div d) <= n /\ n < d * (n \div d) + d
         /\ n = d * (n \div d) + (n % d)
OBVIOUS

-----------------------------------------------------------------------------
(* Sums *)

LEMMA Constants ==
  /\ FarmerCount \in Nat \ {0} /\ MaxReward \in Nat \ {0} /\ MaxPoints \in Nat \ {0}
  /\ MaxAdditions \in Nat \ {0} /\ BASIS \in Nat \ {0} /\ MaxFee \in Nat
  /\ Mantissa \in Nat \ {0} /\ Steps \subseteq Nat \ {0} /\ Unit \in Nat \ {0}
  /\ Fees \subseteq 0 .. MaxFee /\ Unit \in Steps
BY SplitAssumption

LEMMA Count == FarmerCount \in Nat \ {0} /\ Farmers = 1 .. FarmerCount
BY SplitAssumption DEF Farmers

LEMMA PartialSumsDef ==
  ASSUME NEW f \in [Farmers -> Int]
  PROVE  /\ PartialSums(f) \in [0 .. FarmerCount -> Int]
         /\ PartialSums(f)[0] = 0
         /\ \A k \in Farmers : PartialSums(f)[k] = PartialSums(f)[k - 1] + f[k]
<1> USE Count
<1> DEFINE IsPart(g, n) == g \in [0 .. n -> Int] /\ g[0] = 0
                           /\ \A k \in 1 .. n : g[k] = g[k - 1] + f[k]
           S == {n \in 0 .. FarmerCount : \E g : IsPart(g, n)}
<1>1. 0 \in S
  <2>1. IsPart([k \in 0 .. 0 |-> 0], 0)
    OBVIOUS
  <2> HIDE DEF IsPart
  <2> QED BY <2>1
<1>2. ASSUME NEW n \in 0 .. FarmerCount, n \in S, n < FarmerCount PROVE n + 1 \in S
  <2>1. PICK g : IsPart(g, n)
    BY <1>2
  <2> DEFINE h == [k \in 0 .. n + 1 |-> IF k = n + 1 THEN g[n] + f[n + 1] ELSE g[k]]
  <2>2. f[n + 1] \in Int /\ g[n] \in Int
    BY <1>2, <2>1
  <2>3. h \in [0 .. n + 1 -> Int] /\ h[0] = 0
    BY <2>1, <2>2
  <2>4. ASSUME NEW k \in 1 .. n + 1 PROVE h[k] = h[k - 1] + f[k]
    <3>1. CASE k = n + 1
      <4>1. k - 1 = n /\ k - 1 \in 0 .. n + 1 /\ k - 1 # n + 1
        BY <1>2, <3>1
      <4> QED BY <3>1, <4>1, <2>2
    <3>2. CASE k # n + 1
      <4>1. k \in 1 .. n /\ k \in 0 .. n + 1 /\ k - 1 \in 0 .. n + 1 /\ k - 1 # n + 1
        BY <1>2, <3>2
      <4> QED BY <2>1, <3>2, <4>1
    <3> QED BY <3>1, <3>2
  <2>5. IsPart(h, n + 1)
    <3> HIDE DEF h
    <3> QED BY <2>3, <2>4
  <2>6. n + 1 \in 0 .. FarmerCount
    BY <1>2
  <2> HIDE DEF IsPart, h
  <2> QED BY <2>5, <2>6
<1>3. FarmerCount \in S
  <2> HIDE DEF S
  <2>1. 0 .. FarmerCount \subseteq S
    BY <1>1, <1>2, UpTo
  <2> QED BY <2>1
<1>4. PICK g : IsPart(g, FarmerCount)
  BY <1>3
<1> DEFINE Whole(h) == h = [k \in 0 .. FarmerCount |-> IF k = 0 THEN 0 ELSE h[k - 1] + f[k]]
<1>5. Whole(g)
  BY <1>4
<1>6. PartialSums(f) = CHOOSE h : Whole(h)
  BY DEF PartialSums
<1>7. Whole(PartialSums(f))
  <2> HIDE DEF Whole
  <2> QED BY <1>5, <1>6
<1> DEFINE p == PartialSums(f)
<1>8. p = [k \in 0 .. FarmerCount |-> IF k = 0 THEN 0 ELSE p[k - 1] + f[k]]
  BY <1>7
<1> HIDE DEF p
<1>9. p[0] = 0 /\ \A k \in 1 .. FarmerCount : p[k] = p[k - 1] + f[k]
  <2>1. p[0] = 0
    BY <1>8
  <2>2. ASSUME NEW k \in 1 .. FarmerCount PROVE p[k] = p[k - 1] + f[k]
    <3>1. k \in 0 .. FarmerCount /\ k # 0
      OBVIOUS
    <3> QED BY <1>8, <3>1
  <2> QED BY <2>1, <2>2
<1> DEFINE I == {k \in 0 .. FarmerCount : p[k] \in Int}
<1>10. 0 .. FarmerCount \subseteq I
  <2>1. 0 \in I
    BY <1>9
  <2>2. \A k \in 0 .. FarmerCount : k \in I /\ k < FarmerCount => k + 1 \in I
    BY <1>9
  <2> HIDE DEF I
  <2> QED BY <2>1, <2>2, UpTo
<1>11. p \in [0 .. FarmerCount -> Int]
  BY <1>8, <1>10
<1> QED BY <1>9, <1>11 DEF p

LEMMA SumType == \A f \in [Farmers -> Int] : Sum(f) \in Int
BY PartialSumsDef, Count DEF Sum

\* Sums compare as their terms do.
LEMMA SumLeq ==
  ASSUME NEW f \in [Farmers -> Int], NEW g \in [Farmers -> Int],
         NEW a \in Int, NEW b \in Int, \A u \in Farmers : a * f[u] <= b * g[u]
  PROVE  a * Sum(f) <= b * Sum(g)
<1> DEFINE F == PartialSums(f)
           G == PartialSums(g)
           S == {k \in 0 .. FarmerCount : a * F[k] <= b * G[k]}
<1>1. /\ F \in [0 .. FarmerCount -> Int] /\ G \in [0 .. FarmerCount -> Int]
      /\ F[0] = 0 /\ G[0] = 0
      /\ \A k \in Farmers : F[k] = F[k - 1] + f[k] /\ G[k] = G[k - 1] + g[k]
  BY PartialSumsDef
<1> HIDE DEF F, G
<1>2. 0 \in S
  BY <1>1, Count
<1>3. ASSUME NEW k \in 0 .. FarmerCount, k \in S, k < FarmerCount PROVE k + 1 \in S
  <2>1. k + 1 \in Farmers /\ F[k] \in Int /\ G[k] \in Int
    BY <1>1, <1>3, Count
  <2>2. F[k + 1] = F[k] + f[k + 1] /\ G[k + 1] = G[k] + g[k + 1]
    <3>1. (k + 1) - 1 = k
      BY Count
    <3> QED BY <1>1, <2>1, <3>1
  <2>3. f[k + 1] \in Int /\ g[k + 1] \in Int
    BY <2>1
  <2>4. a * F[k] + a * f[k + 1] <= b * G[k] + b * g[k + 1]
    BY <1>3, <2>1, <2>3
  <2>5. a * F[k + 1] = a * F[k] + a * f[k + 1] /\ b * G[k + 1] = b * G[k] + b * g[k + 1]
    BY <2>1, <2>2, <2>3
  <2> QED BY <2>1, <2>4, <2>5, Count
<1>4. FarmerCount \in S
  <2> HIDE DEF S
  <2>1. 0 .. FarmerCount \subseteq S
    BY <1>2, <1>3, UpTo, Count
  <2> QED BY <2>1, Count
<1> QED BY <1>4 DEF F, G, Sum

LEMMA SumPlus ==
  ASSUME NEW f \in [Farmers -> Int], NEW g \in [Farmers -> Int], NEW h \in [Farmers -> Int],
         \A u \in Farmers : h[u] = f[u] + g[u]
  PROVE  Sum(h) = Sum(f) + Sum(g)
<1> DEFINE F == PartialSums(f)
           G == PartialSums(g)
           H == PartialSums(h)
           S == {k \in 0 .. FarmerCount : H[k] = F[k] + G[k]}
<1>1. /\ F \in [0 .. FarmerCount -> Int] /\ G \in [0 .. FarmerCount -> Int]
      /\ H \in [0 .. FarmerCount -> Int] /\ F[0] = 0 /\ G[0] = 0 /\ H[0] = 0
      /\ \A k \in Farmers : F[k] = F[k - 1] + f[k] /\ G[k] = G[k - 1] + g[k]
                            /\ H[k] = H[k - 1] + h[k]
  BY PartialSumsDef
<1> HIDE DEF F, G, H
<1>2. 0 \in S
  BY <1>1, Count
<1>3. ASSUME NEW k \in 0 .. FarmerCount, k \in S, k < FarmerCount PROVE k + 1 \in S
  <2>1. k + 1 \in Farmers
    BY <1>3, Count
  <2>2. /\ F[k + 1] = F[k] + f[k + 1] /\ G[k + 1] = G[k] + g[k + 1]
        /\ H[k + 1] = H[k] + h[k + 1]
    <3>1. (k + 1) - 1 = k
      BY Count
    <3> QED BY <1>1, <2>1, <3>1
  <2>3. f[k + 1] \in Int /\ g[k + 1] \in Int /\ F[k] \in Int /\ G[k] \in Int
    BY <1>1, <2>1
  <2> QED BY <1>3, <2>1, <2>2, <2>3, Count
<1>4. FarmerCount \in S
  <2> HIDE DEF S
  <2>1. 0 .. FarmerCount \subseteq S
    BY <1>2, <1>3, UpTo, Count
  <2> QED BY <2>1, Count
<1> QED BY <1>4 DEF F, G, H, Sum

\* Ones for the members of a set add up to its size.
LEMMA SumOnes ==
  ASSUME NEW S \in SUBSET Farmers, NEW f \in [Farmers -> Int],
         \A u \in Farmers : f[u] = IF u \in S THEN 1 ELSE 0
  PROVE  Sum(f) = Cardinality(S)
<1> DEFINE F == PartialSums(f)
           Part(k) == {u \in S : u <= k}
           T == {k \in 0 .. FarmerCount : IsFiniteSet(Part(k)) /\ F[k] = Cardinality(Part(k))}
<1>1. /\ F \in [0 .. FarmerCount -> Int] /\ F[0] = 0
      /\ \A k \in Farmers : F[k] = F[k - 1] + f[k]
  BY PartialSumsDef
<1> HIDE DEF F
<1>0. \A u \in S : u \in Int /\ 1 <= u /\ u <= FarmerCount
  BY Count
<1>2. 0 \in T
  <2>1. Part(0) = {}
    BY <1>0
  <2> HIDE DEF Part
  <2>2. IsFiniteSet(Part(0)) /\ Cardinality(Part(0)) = 0
    BY <2>1, FS_EmptySet
  <2> QED BY <1>1, <2>2, Count
<1>3. ASSUME NEW k \in 0 .. FarmerCount, k \in T, k < FarmerCount PROVE k + 1 \in T
  <2>1. k \in Int /\ k + 1 \in Farmers
    BY <1>3, Count
  <2>0. \A u \in S : u <= k + 1 <=> u <= k \/ u = k + 1
    BY <1>0, <2>1
  <2>2. F[k + 1] = F[k] + f[k + 1]
    <3>1. (k + 1) - 1 = k
      BY Count
    <3> QED BY <1>1, <2>1, <3>1
  <2>3. CASE k + 1 \in S
    <3>1. Part(k + 1) = Part(k) \cup {k + 1} /\ k + 1 \notin Part(k)
      <4>1. k + 1 \notin Part(k)
        BY <2>1
      <4> QED BY <2>0, <2>3, <4>1
    <3>2. IsFiniteSet(Part(k)) /\ F[k] = Cardinality(Part(k)) /\ F[k + 1] = F[k] + 1
      BY <1>3, <2>1, <2>2, <2>3
    <3> HIDE DEF Part
    <3>3. IsFiniteSet(Part(k) \cup {k + 1})
          /\ Cardinality(Part(k) \cup {k + 1}) = Cardinality(Part(k)) + 1
      BY <3>1, <3>2, FS_AddElement
    <3>4. IsFiniteSet(Part(k + 1)) /\ Cardinality(Part(k + 1)) = Cardinality(Part(k)) + 1
      BY <3>1, <3>3, Zenon
    <3>5. k + 1 \in 0 .. FarmerCount
      BY <2>1, Count
    <3> QED BY <3>2, <3>4, <3>5
  <2>4. CASE k + 1 \notin S
    <3>1. Part(k + 1) = Part(k)
      BY <2>0, <2>4
    <3>2. F[k + 1] = F[k]
      BY <1>1, <1>3, <2>1, <2>2, <2>4, Count
    <3> HIDE DEF Part
    <3> QED BY <1>3, <2>1, <3>1, <3>2, Count
  <2> QED BY <2>3, <2>4
<1>4. FarmerCount \in T
  <2> HIDE DEF T
  <2>1. 0 .. FarmerCount \subseteq T
    BY <1>2, <1>3, UpTo, Count
  <2> QED BY <2>1, Count
<1>5. Part(FarmerCount) = S
  BY <1>0
<1> QED BY <1>4, <1>5 DEF F, Sum

-----------------------------------------------------------------------------
(* Places in an order *)

Orders(before, E) ==
  /\ \A u \in E : <<u, u>> \notin before
  /\ \A u, v \in E : u # v => <<u, v>> \in before \/ <<v, u>> \in before
  /\ \A u, v, w \in E : <<u, v>> \in before /\ <<v, w>> \in before => <<u, w>> \in before

\* Nobody shares a number and none is left over.
Numbers(rank, E) ==
  /\ rank \in [E -> 0 .. Cardinality(E) - 1]
  /\ \A u, v \in E : rank[u] = rank[v] => u = v
  /\ \A k \in 0 .. Cardinality(E) - 1 : \E u \in E : rank[u] = k

\* Counting who comes before him numbers the members of a finite set from 0 up.
LEMMA Ranking ==
  ASSUME NEW E, IsFiniteSet(E), NEW before, Orders(before, E),
         NEW rank, rank = [u \in E |-> Cardinality({v \in E : <<v, u>> \in before})]
  PROVE  /\ Numbers(rank, E)
         /\ \A u, v \in E : <<u, v>> \in before => rank[u] < rank[v]
<1> DEFINE Earlier(u) == {v \in E : <<v, u>> \in before}
           N == Cardinality(E)
<1>0. N \in Nat
  BY FS_CardinalityType
<1>1. ASSUME NEW u \in E
      PROVE  IsFiniteSet(Earlier(u)) /\ Cardinality(Earlier(u)) \in 0 .. N - 1
  <2>1. Earlier(u) \in SUBSET (E \ {u})
    BY DEF Orders
  <2>2. IsFiniteSet(E \ {u}) /\ Cardinality(E \ {u}) = N - 1
    BY FS_RemoveElement
  <2> HIDE DEF Earlier
  <2>3. IsFiniteSet(Earlier(u)) /\ Cardinality(Earlier(u)) <= N - 1
    BY <2>1, <2>2, FS_Subset
  <2>4. Cardinality(Earlier(u)) \in Nat
    BY <2>3, FS_CardinalityType
  <2> QED BY <1>0, <2>3, <2>4
<1>2. \A u \in E : rank[u] = Cardinality(Earlier(u))
  OBVIOUS
<1>3. rank \in [E -> 0 .. N - 1]
  <2> HIDE DEF Earlier, N
  <2>1. DOMAIN rank = E /\ rank = [u \in E |-> rank[u]]
    OBVIOUS
  <2> QED BY <1>1, <1>2, <2>1
<1>4. ASSUME NEW u \in E, NEW v \in E, <<u, v>> \in before PROVE rank[u] < rank[v]
  <2>1. Earlier(u) \in SUBSET Earlier(v) /\ u \in Earlier(v) /\ u \notin Earlier(u)
    BY <1>4 DEF Orders
  <2> HIDE DEF Earlier
  <2>2. Cardinality(Earlier(u)) <= Cardinality(Earlier(v))
        /\ (Cardinality(Earlier(u)) = Cardinality(Earlier(v)) => Earlier(u) = Earlier(v))
    BY <1>1, <2>1, FS_Subset
  <2>3. Earlier(u) # Earlier(v)
    BY <2>1
  <2>4. Cardinality(Earlier(u)) \in Int /\ Cardinality(Earlier(v)) \in Int
    BY <1>0, <1>1
  <2> QED BY <1>2, <2>2, <2>3, <2>4
<1>5. ASSUME NEW u \in E, NEW v \in E, rank[u] = rank[v] PROVE u = v
  <2>1. rank[u] \in Int
    BY <1>0, <1>3
  <2> SUFFICES ASSUME u # v PROVE FALSE
    OBVIOUS
  <2>2. <<u, v>> \in before \/ <<v, u>> \in before
    BY DEF Orders
  <2>3. rank[u] < rank[v] \/ rank[v] < rank[u]
    BY <1>4, <2>2
  <2> QED BY <1>5, <2>1, <2>3
<1>6. \A k \in 0 .. N - 1 : \E u \in E : rank[u] = k
  <2>1. rank \in Injection(E, 0 .. N - 1)
    BY <1>3, <1>5 DEF Injection, IsInjective
  <2>2. IsFiniteSet(0 .. N - 1) /\ Cardinality(0 .. N - 1) = N
    BY <1>0, FS_Interval
  <2>3. rank \in Surjection(E, 0 .. N - 1)
    BY <2>1, <2>2, FS_Injection
  <2> HIDE DEF N
  <2>4. \A k \in 0 .. N - 1 : \E u \in E : rank[u] = k
    BY <2>3, Zenon DEF Surjection
  <2> QED BY <2>4 DEF N
<1> QED BY <1>3, <1>4, <1>5, <1>6 DEF Numbers

\* As many have a place in an interval as it has places.
LEMMA Placed ==
  ASSUME NEW E, IsFiniteSet(E), NEW rank, Numbers(rank, E),
         NEW a \in Nat, NEW b \in Nat, a <= b, b <= Cardinality(E)
  PROVE  Cardinality({u \in E : a <= rank[u] /\ rank[u] < b}) = b - a
<1> DEFINE N == Cardinality(E)
           S == {u \in E : a <= rank[u] /\ rank[u] < b}
           T == a .. b - 1
           r == [u \in S |-> rank[u]]
<1>0. N \in Nat
  BY FS_CardinalityType
<1>1. r \in [S -> T] /\ S \in SUBSET E
  BY <1>0 DEF Numbers
<1>2. r \in Injection(S, T)
  BY <1>1 DEF Injection, IsInjective, Numbers
<1>3. r \in Surjection(S, T)
  <2>1. ASSUME NEW k \in T PROVE \E u \in S : r[u] = k
    <3>1. k \in 0 .. N - 1 /\ a <= k /\ k < b
      BY <1>0
    <3>2. PICK u \in E : rank[u] = k
      BY <3>1 DEF Numbers
    <3> QED BY <3>1, <3>2
  <2> HIDE DEF S, T, r
  <2> QED BY <1>1, <2>1 DEF Surjection
<1>4. IsFiniteSet(T) /\ Cardinality(T) = b - a
  <2>1. a \in Int /\ b - 1 \in Int
    OBVIOUS
  <2>2. IsFiniteSet(T) /\ Cardinality(T) = IF a > b - 1 THEN 0 ELSE (b - 1) - a + 1
    BY <2>1, FS_Interval
  <2> HIDE DEF T
  <2> QED BY <2>2
<1> HIDE DEF S, T, r
<1>5. Cardinality(S) = Cardinality(T)
  BY <1>2, <1>3, <1>4, FS_Injection
<1> QED BY <1>4, <1>5 DEF S

-----------------------------------------------------------------------------
(* The run *)

\* What each earner gets
Shares == [u \in earners |-> Truncated(raw(u)) + (IF Chosen(u) THEN 1 ELSE 0)]

\* What a run has done by the time it has come to pc
RunInv ==
  /\ claimed \in 0 .. MaxReward /\ fee_basis_points \in Fees
  /\ earners \in SUBSET Farmers /\ points \in [Farmers -> 0 .. MaxPoints]
  /\ \A u \in Farmers \ earners : points[u] = 0
  /\ pc \in {"start", "return", "batch", "raised", "send"}
  /\ payment_batches \in Seq(SUBSET Farmers)
  /\ pc = "return" => reward_total = 0 \/ earners = {}
  /\ pc \in {"batch", "send"} \/ (pc = "raised" /\ total_points # 0) =>
       reward_total # 0 /\ total_points # 0 /\ payouts = Shares
  /\ \A b \in 1 .. Len(payment_batches) :
       /\ payment_batches[b] = Slice(MaxAdditions * (b - 1))
       /\ MaxAdditions * (b - 1) < Cardinality(earners)
       /\ \A u \in payment_batches[b] : payouts[u] >= 0
  /\ pc = "start" => payment_batches = <<>>
  /\ pc = "raised" => total_points = 0 \/ \E u \in earners : payouts[u] < 0
  /\ pc = "send" => position >= Cardinality(earners)

LEMMA SameRun ==
  ASSUME RunStep
  PROVE  /\ reward_total' = reward_total /\ total_points' = total_points /\ Shares' = Shares
         /\ \A i : Slice(i)' = Slice(i)
<1>1. reward_total' = reward_total /\ earners' = earners /\ total_points' = total_points
  BY DEF RunStep, reward_total, total_points
<1>2. \A u : raw(u)' = raw(u)
  BY <1>1 DEF raw, RunStep
<1>3. \A u : fraction(u)' = fraction(u)
  BY <1>2 DEF fraction
<1>4. remainder' = remainder
  BY <1>1, <1>2 DEF remainder
<1>5. \A u : place(u)' = place(u)
  BY <1>1, <1>3 DEF place
<1>6. \A u : Chosen(u)' = Chosen(u)
  BY <1>1, <1>4, <1>5 DEF Chosen
<1>7. Shares' = Shares
  BY <1>1, <1>2, <1>6 DEF Shares
<1>8. \A i : Slice(i)' = Slice(i)
  BY <1>1 DEF Slice
<1> QED BY <1>1, <1>7, <1>8

LEMMA RunInit == Init => RunInv
<1> SUFFICES ASSUME Init PROVE RunInv
  OBVIOUS
<1> QED BY DEF Init, RunInv

LEMMA RunStepInv == RunInv /\ [Next]_vars => RunInv'
<1> SUFFICES ASSUME RunInv, [Next]_vars PROVE RunInv'
  OBVIOUS
<1>1. RunStep
  BY DEF Next, vars, RunStep, Return, DivideRaises, Divide, Batch, BatchRaises, Send
<1>2. /\ reward_total' = reward_total /\ total_points' = total_points /\ Shares' = Shares
      /\ \A i : Slice(i)' = Slice(i)
  BY <1>1, SameRun
<1>3. /\ claimed' = claimed /\ fee_basis_points' = fee_basis_points
      /\ earners' = earners /\ points' = points
  BY <1>1 DEF RunStep
<1>4. CASE Return
  BY <1>2, <1>3, <1>4 DEF Return, RunInv
<1>10. CASE DivideRaises
  BY <1>2, <1>3, <1>10 DEF DivideRaises, RunInv
<1>5. CASE Divide
  <2>1. payouts' = Shares
    BY <1>5 DEF Divide, Shares
  <2> QED BY <1>2, <1>3, <1>5, <2>1 DEF Divide, RunInv
<1>6. CASE Batch
  <2>1. Slice(position) \in SUBSET Farmers
    BY DEF Slice, RunInv
  <2>2. /\ payment_batches' \in Seq(SUBSET Farmers)
        /\ Len(payment_batches') = Len(payment_batches) + 1
        /\ \A b \in 1 .. Len(payment_batches) : payment_batches'[b] = payment_batches[b]
        /\ payment_batches'[Len(payment_batches) + 1] = Slice(position)
    BY <1>6, <2>1 DEF Batch, RunInv
  <2>3. ASSUME NEW b \in 1 .. Len(payment_batches')
        PROVE  /\ payment_batches'[b] = Slice(MaxAdditions * (b - 1))'
               /\ MaxAdditions * (b - 1) < Cardinality(earners')
               /\ \A u \in payment_batches'[b] : payouts'[u] >= 0
    <3>1. CASE b \in 1 .. Len(payment_batches)
      BY <1>2, <1>3, <1>6, <2>2, <3>1 DEF Batch, RunInv
    <3>2. CASE b = Len(payment_batches) + 1
      <4>1. Len(payment_batches) \in Nat
        BY DEF RunInv
      <4>2. MaxAdditions * (b - 1) = position
        BY <3>2, <4>1 DEF position
      <4> QED BY <1>2, <1>3, <1>6, <2>2, <3>2, <4>2 DEF Batch
    <3>3. Len(payment_batches) \in Nat
      BY DEF RunInv
    <3> QED BY <2>2, <3>1, <3>2, <3>3
  <2>4. pc = "batch" /\ pc' = "batch" /\ payouts' = payouts
    BY <1>6 DEF Batch
  <2> QED BY <1>2, <1>3, <2>2, <2>3, <2>4 DEF RunInv
<1>7. CASE BatchRaises
  <2>1. \E u \in earners : payouts[u] < 0
    BY <1>7 DEF BatchRaises, Slice
  <2> QED BY <1>2, <1>3, <1>7, <2>1 DEF BatchRaises, RunInv
<1>8. CASE Send
  <2>1. position' = position
    BY <1>8 DEF Send, position
  <2> QED BY <1>2, <1>3, <1>8, <2>1 DEF Send, RunInv
<1>9. CASE UNCHANGED vars
  <2>1. position' = position
    BY <1>9 DEF vars, position
  <2> QED BY <1>2, <1>3, <1>9, <2>1 DEF vars, RunInv
<1> QED BY <1>4, <1>5, <1>6, <1>7, <1>8, <1>9, <1>10 DEF Next

\* RunInv always holds.
THEOREM RunCorrect == Spec => []RunInv
BY RunInit, RunStepInv, PTL DEF Spec

-----------------------------------------------------------------------------
(* Batches *)

LEMMA EarnersFinite ==
  ASSUME RunInv
  PROVE  /\ IsFiniteSet(earners) /\ earners \in SUBSET Farmers
         /\ Cardinality(earners) \in Nat /\ \A u \in earners : u \in Nat
<1>1. IsFiniteSet(Farmers) /\ earners \in SUBSET Farmers
  BY Count, FS_Interval DEF RunInv
<1>2. \A u \in Farmers : u \in Nat
  BY Count
<1>3. IsFiniteSet(earners)
  BY <1>1, FS_Subset
<1> QED BY <1>1, <1>2, <1>3, FS_CardinalityType

\* list(payouts) numbers the earners.
LEMMA RankOfEarners ==
  ASSUME RunInv, NEW rank, rank = [u \in earners |-> Cardinality({v \in earners : v < u})]
  PROVE  Numbers(rank, earners)
<1> DEFINE before == {p \in earners \X earners : p[1] < p[2]}
<1>1. Orders(before, earners)
  BY EarnersFinite DEF Orders
<1>2. \A u \in earners : {v \in earners : v < u} = {v \in earners : <<v, u>> \in before}
  OBVIOUS
<1>3. rank = [u \in earners |-> Cardinality({v \in earners : <<v, u>> \in before})]
  BY <1>2
<1> HIDE DEF before
<1> QED BY <1>1, <1>3, EarnersFinite, Ranking

\* Slice(i) holds the ranks from i, and at most MaxAdditions of them.
LEMMA SliceSize ==
  ASSUME RunInv, NEW i \in Nat, i < Cardinality(earners)
  PROVE  Cardinality(Slice(i)) \in 1 .. MaxAdditions
<1> DEFINE rank == [u \in earners |-> Cardinality({v \in earners : v < u})]
           N == Cardinality(earners)
           j == IF i + MaxAdditions <= N THEN i + MaxAdditions ELSE N
<1>0. N \in Nat /\ MaxAdditions \in Nat \ {0}
  BY EarnersFinite, Constants
<1>1. Numbers(rank, earners) /\ rank \in [earners -> 0 .. N - 1]
  <2> HIDE DEF rank
  <2> QED BY RankOfEarners DEF rank, Numbers
<1>2. Slice(i) = {u \in earners : i <= rank[u] /\ rank[u] < i + MaxAdditions}
  BY DEF Slice
<1> HIDE DEF rank, N
<1>3. j \in Nat /\ i < j /\ j <= N /\ j - i <= MaxAdditions
  BY <1>0 DEF N
<1>4. \A u \in earners : rank[u] < i + MaxAdditions <=> rank[u] < j
  BY <1>0, <1>1
<1>5. Slice(i) = {u \in earners : i <= rank[u] /\ rank[u] < j}
  BY <1>2, <1>4
<1>6. Cardinality(Slice(i)) = j - i
  <2> HIDE DEF j
  <2> QED BY <1>1, <1>3, <1>5, EarnersFinite, Placed DEF N
<1> QED BY <1>0, <1>3, <1>6

\* Each earner is in the batch his rank falls into.
LEMMA OneBatch ==
  ASSUME RunInv, pc = "send", NEW u \in earners
  PROVE  InBatches(u) = 1
<1> DEFINE rank == [w \in earners |-> Cardinality({v \in earners : v < w})]
           N == Cardinality(earners)
           L == Len(payment_batches)
<1>0. N \in Nat /\ MaxAdditions \in Nat \ {0} /\ L \in Nat
  BY EarnersFinite, Constants DEF RunInv
<1>1. rank \in [earners -> 0 .. N - 1]
  <2> HIDE DEF rank
  <2> QED BY RankOfEarners DEF rank, Numbers
<1>2. \A i : u \in Slice(i) <=> i <= rank[u] /\ rank[u] < i + MaxAdditions
  BY DEF Slice
<1>3. MaxAdditions * L >= N
  BY DEF RunInv, position
<1>4. \A b \in 1 .. L : payment_batches[b] = Slice(MaxAdditions * (b - 1))
  BY DEF RunInv
<1>5. DOMAIN payment_batches = 1 .. L
  BY DEF RunInv
<1> HIDE DEF rank, N, L
<1> DEFINE q == rank[u] \div MaxAdditions
<1>6. rank[u] \in Nat /\ rank[u] < N
  BY <1>0, <1>1
<1>7. /\ q \in Int /\ MaxAdditions * q <= rank[u] /\ rank[u] < MaxAdditions * q + MaxAdditions
  <2>1. rank[u] \in Int
    BY <1>6
  <2> QED BY <1>0, <2>1, Division, Zenon
<1> HIDE DEF q
<1>8. q + 1 \in 1 .. L
  <2>1. 0 <= q
    <3>1. MaxAdditions * 0 < MaxAdditions * (q + 1)
      BY <1>0, <1>6, <1>7
    <3>2. 0 < q + 1
      BY <1>0, <1>7, <3>1, CancelLess
    <3> QED BY <1>7, <3>2
  <2>2. MaxAdditions * q < MaxAdditions * L
    BY <1>0, <1>3, <1>6, <1>7
  <2>3. q < L
    BY <1>0, <1>7, <2>2, CancelLess
  <2> QED BY <1>0, <1>7, <2>1, <2>3
<1>9. ASSUME NEW b \in 1 .. L
      PROVE  u \in payment_batches[b] <=> b = q + 1
  <2> DEFINE i == MaxAdditions * (b - 1)
  <2>1. b \in Int /\ i \in Int /\ i + MaxAdditions = MaxAdditions * b
        /\ MaxAdditions * (q + 1) = MaxAdditions * q + MaxAdditions
    BY <1>0, <1>7
  <2>2. u \in payment_batches[b] <=> i <= rank[u] /\ rank[u] < i + MaxAdditions
    BY <1>2, <1>4
  <2> HIDE DEF i
  <2>3. CASE b = q + 1
    <3>1. i = MaxAdditions * q
      BY <2>3, <1>7 DEF i
    <3> QED BY <1>7, <2>2, <2>3, <3>1
  <2>4. CASE b < q + 1
    <3>1. MaxAdditions * b <= MaxAdditions * q
      BY <1>0, <1>7, <2>1, <2>4, TimesLeq
    <3>2. MaxAdditions * b \in Int /\ MaxAdditions * q \in Int
      BY <1>0, <1>7, <2>1
    <3>3. ~ (rank[u] < i + MaxAdditions)
      BY <1>6, <1>7, <2>1, <3>1, <3>2
    <3> QED BY <2>2, <2>4, <3>3, <2>1, <1>7
  <2>5. CASE b > q + 1
    <3>1. MaxAdditions * (q + 1) <= MaxAdditions * (b - 1)
      BY <1>0, <1>7, <2>1, <2>5, TimesLeq
    <3>2. ~ (i <= rank[u])
      BY <1>0, <1>6, <1>7, <2>1, <3>1 DEF i
    <3> QED BY <2>2, <2>5, <3>2, <2>1, <1>7
  <2> QED BY <1>7, <2>1, <2>3, <2>4, <2>5
<1>10. {b \in DOMAIN payment_batches : u \in payment_batches[b]} = {q + 1}
  BY <1>5, <1>8, <1>9
<1>11. Cardinality({q + 1}) = 1
  BY FS_Singleton
<1> QED BY <1>10, <1>11 DEF InBatches

\* Each earner is in one transaction, and no transaction is longer than the
\* configuration allows.
THEOREM BatchesLoseNobody == Spec => []EveryoneInOneBatch
<1>1. RunInv => EveryoneInOneBatch
  <2> SUFFICES ASSUME RunInv, pc = "send"
               PROVE  /\ \A u \in earners : InBatches(u) = 1
                      /\ \A b \in DOMAIN payment_batches :
                           Cardinality(payment_batches[b]) \in 1 .. MaxAdditions
    BY DEF EveryoneInOneBatch
  <2>1. ASSUME NEW b \in DOMAIN payment_batches
        PROVE  Cardinality(payment_batches[b]) \in 1 .. MaxAdditions
    <3>1. b \in 1 .. Len(payment_batches) /\ b - 1 \in Nat /\ MaxAdditions \in Nat
      BY Constants DEF RunInv
    <3>2. MaxAdditions * (b - 1) \in Nat
      BY <3>1
    <3>3. payment_batches[b] = Slice(MaxAdditions * (b - 1))
          /\ MaxAdditions * (b - 1) < Cardinality(earners)
      BY <3>1 DEF RunInv
    <3> QED BY <3>2, <3>3, SliceSize
  <2> QED BY <2>1, OneBatch
<1> QED BY <1>1, RunCorrect, PTL

-----------------------------------------------------------------------------
(* Floats *)

LEMMA Positive ==
  ASSUME NEW a \in Nat \ {0}, NEW b \in Nat \ {0}
  PROVE  a * b \in Nat \ {0} /\ a <= a * b /\ b <= a * b
<1>1. a * 1 <= a * b /\ 1 * b <= a * b
  BY TimesLeq
<1>2. a * 1 = a /\ 1 * b = b /\ a * b \in Int
  OBVIOUS
<1> QED BY <1>1, <1>2

LEMMA StepBetween ==
  ASSUME NEW n \in Nat, NEW d \in Nat \ {0}, Mantissa * d <= n, n <= Largest * d
  PROVE  /\ Step(n, d) \in Steps
         /\ Step(n, d) * Mantissa * d <= n /\ n < 2 * Step(n, d) * Mantissa * d
<1> DEFINE S == {s \in Steps : s * Mantissa * d <= n}
           Fits(s) == s * Mantissa * d <= n /\ n < 2 * s * Mantissa * d
<1>0. Mantissa \in Nat \ {0} /\ Steps \subseteq Nat \ {0} /\ 1 \in Steps /\ Largest \in Nat
  BY Constants, SplitAssumption DEF Largest
<1>1. 1 \in S
  <2>1. 1 * Mantissa * d = Mantissa * d
    BY <1>0
  <2> QED BY <1>0, <2>1
<1>2. S \subseteq 0 .. n
  <2>1. ASSUME NEW s \in S PROVE s \in 0 .. n
    <3>1. s \in Nat \ {0} /\ Mantissa * d \in Nat \ {0}
      BY <1>0, Positive
    <3>2. s <= s * (Mantissa * d)
      BY <3>1, Positive
    <3>3. s * (Mantissa * d) = s * Mantissa * d
      BY <1>0, <3>1
    <3>4. s * (Mantissa * d) <= n
      BY <3>3
    <3>5. s <= n
      BY <1>0, <3>1, <3>2, <3>4
    <3> QED BY <3>1, <3>5
  <2> QED BY <2>1
<1>3. PICK t \in S : \A s \in S : s <= t
  <2> HIDE DEF S
  <2> QED BY <1>1, <1>2, MaxExists
<1>4. t \in Steps /\ t \in Nat \ {0} /\ t * Mantissa * d <= n
  BY <1>0, <1>3
<1>5. n < 2 * t * Mantissa * d
  <2>1. CASE 2 * t \in Steps
    <3>1. 2 * t \notin S
      BY <1>3, <1>4
    <3>2. ~ (2 * t * Mantissa * d <= n)
      BY <2>1, <3>1
    <3>3. 2 * t * Mantissa * d \in Int
      BY <1>0, <1>4
    <3> QED BY <3>2, <3>3
  <2>2. CASE t * Mantissa > Largest
    <3>1. Largest * d < (t * Mantissa) * d
      BY <1>0, <1>4, <2>2, TimesLess
    <3>2. (t * Mantissa) * d \in Int /\ Largest * d \in Int
      BY <1>0, <1>4
    <3> QED BY <1>4, <3>1, <3>2
  <2> QED BY <1>4, <2>1, <2>2, SplitAssumption
<1>6. \E s \in Steps : Fits(s)
  BY <1>4, <1>5
<1>7. Step(n, d) = CHOOSE s \in Steps : Fits(s)
  BY DEF Step
<1>8. Step(n, d) \in Steps /\ Fits(Step(n, d))
  <2> HIDE DEF Fits
  <2> QED BY <1>6, <1>7
<1> QED BY <1>8

\* Nearest is a multiple of the step, half a step away at most.
LEMMA NearestBound ==
  ASSUME NEW n \in Nat, NEW d \in Nat \ {0}, NEW s \in Nat \ {0}
  PROVE  \E q \in Nat : /\ Nearest(n, d, s) = s * q
                        /\ 2 * (s * q * d - n) <= s * d /\ 2 * (n - s * q * d) <= s * d
<1> DEFINE low == n \div (d * s)
           w   == d * s
<1>1. w \in Nat \ {0}
  BY Positive
<1>2. low \in Int /\ w * low <= n /\ n < w * low + w
  <2> HIDE DEF w
  <2>1. n \in Int
    OBVIOUS
  <2>2. n \div w \in Int /\ w * (n \div w) <= n /\ n < w * (n \div w) + w
    BY <1>1, <2>1, Division, Zenon
  <2> QED BY <2>2 DEF w
<1>3. low \in Nat
  <2> HIDE DEF low, w
  <2>1. w * 0 < w * (low + 1)
    BY <1>1, <1>2
  <2>2. 0 < low + 1
    BY <1>1, <1>2, <2>1, CancelLess
  <2> QED BY <1>2, <2>2
<1> HIDE DEF low
<1> DEFINE rest == 2 * (n - low * d * s)
           up   == rest > d * s \/ (rest = d * s /\ low % 2 = 1)
<1>4. Nearest(n, d, s) = s * (IF up THEN low + 1 ELSE low)
  BY DEF Nearest, low
<1>5. /\ low * d * s = w * low /\ s * low * d = w * low /\ s * d = w
      /\ s * (low + 1) * d = w * low + w
  BY <1>3
<1> HIDE DEF w
<1>6. w * low \in Int
  BY <1>1, <1>3
<1>7. d * s = w
  BY DEF w
<1>8. CASE up
  <2>1. w <= 2 * (n - w * low)
    BY <1>1, <1>5, <1>6, <1>7, <1>8
  <2>2. 2 * (s * (low + 1) * d - n) <= s * d /\ 2 * (n - s * (low + 1) * d) <= s * d
    BY <1>1, <1>2, <1>5, <1>6, <2>1
  <2> QED BY <1>3, <1>4, <1>8, <2>2
<1>9. CASE ~ up
  <2>1. 2 * (n - w * low) <= w
    BY <1>1, <1>5, <1>6, <1>7, <1>9
  <2>2. 2 * (s * low * d - n) <= s * d /\ 2 * (n - s * low * d) <= s * d
    BY <1>1, <1>2, <1>5, <1>6, <2>1
  <2> QED BY <1>3, <1>4, <1>9, <2>2
<1> QED BY <1>8, <1>9

\* x is n / d rounded: a number of steps s, off by half a step at most, where a
\* step is a Mantissa-th of it at most.
Rounds(x, n, d, s) ==
  /\ s \in Steps /\ \E q \in Nat : x = s * q
  /\ s * Mantissa * d <= n * Unit
  /\ 2 * (x * d - n * Unit) <= s * d /\ 2 * (n * Unit - x * d) <= s * d

LEMMA Rounded ==
  ASSUME NEW n \in Nat \ {0}, NEW d \in Nat \ {0},
         Mantissa * d <= n * Unit, n * Unit <= Largest * d
  PROVE  \E s \in Steps : Rounds(Quotient(n, d), n, d, s)
<1> DEFINE size == n * Unit
           s == Step(size, d)
<1>1. size \in Nat
  BY Constants
<1>2. Quotient(n, d) = Nearest(size, d, s)
  BY DEF Quotient
<1> HIDE DEF size
<1>3. Mantissa * d <= size /\ size <= Largest * d
  BY DEF size
<1>4. s \in Steps /\ s * Mantissa * d <= size
  BY <1>1, <1>3, StepBetween
<1>5. s \in Nat \ {0}
  BY <1>4, Constants
<1> HIDE DEF s
<1>6. PICK q \in Nat : /\ Nearest(size, d, s) = s * q
                       /\ 2 * (s * q * d - size) <= s * d /\ 2 * (size - s * q * d) <= s * d
  BY <1>1, <1>5, NearestBound
<1>7. Rounds(Quotient(n, d), n, d, s)
  BY <1>2, <1>4, <1>6 DEF Rounds, size
<1> QED BY <1>4, <1>7

LEMMA RoundsType ==
  ASSUME NEW x, NEW n, NEW d, NEW s, Rounds(x, n, d, s)
  PROVE  s \in Nat \ {0} /\ x \in Nat /\ Unit \in Nat \ {0} /\ Mantissa \in Nat \ {0}
<1>1. s \in Nat \ {0}
  BY Constants DEF Rounds
<1>2. PICK q \in Nat : x = s * q
  BY DEF Rounds
<1> QED BY <1>1, <1>2, Constants

\* A rounding changes a number by one part in 2 * Mantissa at most.
LEMMA RelativeError ==
  ASSUME NEW x, NEW n \in Nat, NEW d \in Nat \ {0}, NEW s, Rounds(x, n, d, s)
  PROVE  /\ 2 * Mantissa * (x * d - n * Unit) <= n * Unit
         /\ 2 * Mantissa * (n * Unit - x * d) <= n * Unit
<1>0. s \in Nat \ {0} /\ x \in Nat /\ Unit \in Nat \ {0} /\ Mantissa \in Nat \ {0}
  BY RoundsType
<1> DEFINE e == x * d - n * Unit
           m == n * Unit
           w == s * d
<1>1. e \in Int /\ m \in Int /\ w \in Int
  BY <1>0
<1>2. 2 * e <= w /\ 2 * (- e) <= w
  BY <1>0 DEF Rounds
<1>3. Mantissa * w <= m
  <2>1. s * Mantissa * d = Mantissa * w
    BY <1>0
  <2> QED BY <2>1 DEF Rounds
<1>4. n * Unit - x * d = - e
  BY <1>0
<1> HIDE DEF e, m, w
<1>5. Mantissa * (2 * e) <= Mantissa * w /\ Mantissa * (2 * (- e)) <= Mantissa * w
  BY <1>0, <1>1, <1>2, TimesLeq
<1>6. 2 * Mantissa * e <= m /\ 2 * Mantissa * (- e) <= m
  BY <1>0, <1>1, <1>3, <1>5
<1> QED BY <1>4, <1>6 DEF e, m

\* Rounding stays on its side of a multiple of its step.
LEMMA RoundsBelow ==
  ASSUME NEW x, NEW n \in Nat, NEW d \in Nat \ {0}, NEW s, Rounds(x, n, d, s),
         NEW k \in Nat, n * Unit <= s * k * d
  PROVE  x <= s * k
<1>0. s \in Nat \ {0} /\ x \in Nat /\ Unit \in Nat \ {0} /\ Mantissa \in Nat \ {0}
  BY RoundsType
<1>1. PICK q \in Nat : x = s * q
  BY DEF Rounds
<1> SUFFICES ASSUME k < q PROVE FALSE
  <2>1. q <= k => s * q <= s * k
    BY <1>0, TimesLeq
  <2> QED BY <1>1, <2>1
<1> DEFINE w == s * d
<1>2. w \in Nat \ {0}
  BY <1>0, Positive
<1>3. x * d = w * q /\ s * k * d = w * k
  BY <1>0, <1>1
<1>4. 2 * (x * d - n * Unit) <= w
  BY DEF Rounds
<1> HIDE DEF w
<1>5. w * (k + 1) <= w * q
  BY <1>2, TimesLeq
<1>6. w * (k + 1) = w * k + w /\ w * k \in Int /\ w * q \in Int /\ n * Unit \in Int
  BY <1>0, <1>2
<1> QED BY <1>2, <1>3, <1>4, <1>5, <1>6

LEMMA RoundsAbove ==
  ASSUME NEW x, NEW n \in Nat, NEW d \in Nat \ {0}, NEW s, Rounds(x, n, d, s),
         NEW k \in Nat, s * k * d <= n * Unit
  PROVE  s * k <= x
<1>0. s \in Nat \ {0} /\ x \in Nat /\ Unit \in Nat \ {0} /\ Mantissa \in Nat \ {0}
  BY RoundsType
<1>1. PICK q \in Nat : x = s * q
  BY DEF Rounds
<1> SUFFICES ASSUME q < k PROVE FALSE
  <2>1. k <= q => s * k <= s * q
    BY <1>0, TimesLeq
  <2> QED BY <1>1, <2>1
<1> DEFINE w == s * d
<1>2. w \in Nat \ {0}
  BY <1>0, Positive
<1>3. x * d = w * q /\ s * k * d = w * k
  BY <1>0, <1>1
<1>4. 2 * (n * Unit - x * d) <= w
  BY DEF Rounds
<1> HIDE DEF w
<1>5. w * (q + 1) <= w * k
  BY <1>2, TimesLeq
<1>6. w * (q + 1) = w * q + w /\ w * k \in Int /\ w * q \in Int /\ n * Unit \in Int
  BY <1>0, <1>2
<1> QED BY <1>2, <1>3, <1>4, <1>5, <1>6

\* A float that is not 0 is Mantissa steps at least.
LEMMA RoundsLarge ==
  ASSUME NEW x, NEW n \in Nat, NEW d \in Nat \ {0}, NEW s, Rounds(x, n, d, s)
  PROVE  s * Mantissa <= x
<1>0. s \in Nat \ {0} /\ x \in Nat /\ Unit \in Nat \ {0} /\ Mantissa \in Nat \ {0}
  BY RoundsType
<1>1. s * Mantissa * d <= n * Unit
  BY DEF Rounds
<1> QED BY <1>0, <1>1, RoundsAbove

\* Steps divide each other.
LEMMA StepDivides ==
  ASSUME NEW s \in Steps, NEW t \in Steps, s <= t
  PROVE  \E k \in Nat \ {0} : t = s * k
<1>0. s \in Nat \ {0} /\ t \in Nat \ {0}
  BY Constants
<1>1. t % s = 0
  BY SplitAssumption
<1>2. t \div s \in Int /\ t = s * (t \div s) + (t % s)
  <2>1. t \in Int
    BY <1>0
  <2> QED BY <1>0, <2>1, Division, Zenon
<1> DEFINE k == t \div s
<1>3. k \in Int /\ t = s * k
  BY <1>0, <1>1, <1>2
<1> HIDE DEF k
<1>4. 0 < k
  <2>1. s * 0 < s * k
    BY <1>0, <1>3
  <2> QED BY <1>0, <1>3, <2>1, CancelLess
<1> QED BY <1>3, <1>4

-----------------------------------------------------------------------------
(* The fee *)

LEMMA Sizes ==
  /\ BASIS < Mantissa /\ MaxReward < 2 * Mantissa /\ 2 * Mantissa * BASIS <= Unit
  /\ Mantissa <= Unit
<1>1. Mantissa \in Nat \ {0} /\ BASIS \in Nat \ {0} /\ Unit \in Nat \ {0}
  BY Constants
<1>2. Mantissa <= Mantissa * BASIS /\ Mantissa * BASIS \in Nat
  BY <1>1, Positive
<1>3. 2 * Mantissa * BASIS = 2 * (Mantissa * BASIS)
  BY <1>1
<1>4. /\ BASIS < Mantissa /\ MaxReward < 2 * Mantissa /\ 2 * Mantissa * BASIS <= Unit
  BY <1>1, Constants, SplitAssumption
<1> QED BY <1>1, <1>2, <1>3, <1>4

LEMMA QuotientZero == ASSUME NEW d PROVE Quotient(0, d) = 0
BY Constants DEF Quotient

LEMMA QuotientNegative ==
  ASSUME NEW n \in Nat \ {0}, NEW d
  PROVE  Quotient(- n, d) = - Quotient(n, d)
<1>1. - n < 0 /\ - n # 0 /\ - (- n) = n /\ n # 0 /\ ~ (n < 0)
  OBVIOUS
<1> QED BY <1>1 DEF Quotient

LEMMA RoundsDouble ==
  ASSUME NEW x, NEW n \in Nat, NEW d \in Nat \ {0}, NEW s, Rounds(x, n, d, s)
  PROVE  x * d <= 2 * n * Unit
<1>0. x \in Nat /\ Unit \in Nat \ {0} /\ Mantissa \in Nat \ {0}
  BY RoundsType
<1> DEFINE a == x * d
           b == n * Unit
<1>1. a \in Nat /\ b \in Nat /\ 2 * n * Unit = 2 * b
  BY <1>0
<1>2. 2 * Mantissa * (a - b) <= b
  BY RelativeError
<1> HIDE DEF a, b
<1> SUFFICES ASSUME 2 * b < a PROVE FALSE
  BY <1>1 DEF a
<1>3. b + 1 <= a - b
  BY <1>1
<1>4. (2 * Mantissa) * (b + 1) <= (2 * Mantissa) * (a - b)
  BY <1>0, <1>1, <1>3, TimesLeq
<1>5. 1 * (b + 1) <= (2 * Mantissa) * (b + 1)
  BY <1>0, <1>1, TimesLeq
<1> QED BY <1>0, <1>1, <1>2, <1>4, <1>5

\* fee_basis_points / BASIS is 1.0 when it should be, and else not too near it.
LEMMA FeeShare ==
  ASSUME NEW f \in 0 .. MaxFee, NEW g, g = Quotient(f, BASIS)
  PROVE  /\ g \in Nat /\ g <= 2 * MaxFee * Unit
         /\ 2 * Mantissa * (g * BASIS - f * Unit) <= f * Unit
         /\ 2 * Mantissa * (f * Unit - g * BASIS) <= f * Unit
         /\ f < BASIS => Mantissa <= Unit - g
         /\ f = BASIS => g = Unit
         /\ f > BASIS => Mantissa <= g - Unit
<1>0. /\ Mantissa \in Nat \ {0} /\ BASIS \in Nat \ {0} /\ Unit \in Nat \ {0}
      /\ MaxFee \in Nat /\ MaxReward \in Nat \ {0} /\ f \in Nat /\ f <= MaxFee
  BY Constants
<1>1. CASE f = 0
  <2>1. g = 0
    BY <1>1, QuotientZero
  <2>2. Mantissa <= Unit - g
    BY <1>0, <2>1, Sizes
  <2>3. g * BASIS = 0 /\ f * Unit = 0 /\ 0 <= 2 * MaxFee * Unit
    BY <1>0, <1>1, <2>1
  <2>4. 2 * Mantissa * (g * BASIS - f * Unit) = 0 /\ 2 * Mantissa * (f * Unit - g * BASIS) = 0
    BY <1>0, <2>3
  <2>5. f < BASIS /\ f # BASIS /\ ~ (f > BASIS) /\ g \in Nat
    BY <1>0, <1>1, <2>1
  <2>6. g <= 2 * MaxFee * Unit
    BY <2>1, <2>3
  <2> QED BY <2>2, <2>3, <2>4, <2>5, <2>6
<1>2. CASE f # 0
  <2>1. Mantissa * BASIS <= f * Unit
    <3>1. Mantissa * BASIS <= Unit /\ Unit <= f * Unit
      <4>1. 2 * Mantissa * BASIS = 2 * (Mantissa * BASIS) /\ Mantissa * BASIS \in Nat
        BY <1>0
      <4> QED BY <1>0, <1>2, <4>1, Sizes, Positive
    <3> QED BY <1>0, <3>1
  <2>2. f * Unit <= Largest * BASIS
    <3>1. f * Unit <= MaxFee * Unit
      BY <1>0, TimesLeq
    <3>2. MaxFee * Unit <= Largest
      <4> DEFINE m == MaxFee * Unit
      <4>1. (1 + 2 * MaxFee) * Unit = Unit + 2 * m /\ m \in Nat
        BY <1>0
      <4> DEFINE w == (1 + 2 * MaxFee) * Unit
      <4>2. w \in Nat /\ m <= w
        BY <1>0, <4>1
      <4>3. Largest = (4 * MaxReward) * w
        BY <1>0 DEF Largest
      <4> HIDE DEF m, w
      <4>4. 1 * w <= (4 * MaxReward) * w
        BY <1>0, <4>2, TimesLeq
      <4> QED BY <1>0, <4>1, <4>2, <4>3, <4>4 DEF m
    <3>3. Largest \in Nat
      BY <1>0 DEF Largest
    <3>4. Largest * 1 <= Largest * BASIS
      BY <1>0, <3>3, TimesLeq
    <3> QED BY <1>0, <3>1, <3>2, <3>3, <3>4
  <2>3. PICK s \in Steps : Rounds(g, f, BASIS, s)
    <3>1. f \in Nat \ {0}
      BY <1>0, <1>2
    <3> QED BY <1>0, <2>1, <2>2, <3>1, Rounded
  <2>4. g \in Nat /\ s \in Nat \ {0}
    BY <1>0, <2>3, RoundsType
  <2>5. /\ 2 * Mantissa * (g * BASIS - f * Unit) <= f * Unit
        /\ 2 * Mantissa * (f * Unit - g * BASIS) <= f * Unit
    BY <1>0, <2>3, RelativeError
  <2>6. g <= 2 * MaxFee * Unit
    <3>1. g * BASIS <= 2 * f * Unit
      BY <1>0, <2>3, RoundsDouble
    <3>2. g * 1 <= g * BASIS
      BY <1>0, <2>4, TimesLeq
    <3>3. f * (2 * Unit) <= MaxFee * (2 * Unit)
      BY <1>0, TimesLeq
    <3> QED BY <1>0, <2>4, <3>1, <3>2, <3>3
  <2> DEFINE a == g * BASIS
             b == f * Unit
             z == Unit * BASIS
             w == Mantissa * BASIS
             v == Mantissa * Unit
  <2>7. a \in Nat /\ b \in Nat /\ z \in Nat /\ w \in Nat \ {0} /\ v \in Nat
    BY <1>0, <2>4, Positive
  <2>8. 2 * w <= Unit
    BY <1>0, Sizes
  <2>9. ASSUME f < BASIS PROVE Mantissa <= Unit - g
    <3> SUFFICES ASSUME Unit - g <= Mantissa - 1 PROVE FALSE
      BY <1>0, <2>4
    <3>1. (Unit - g) * BASIS <= (Mantissa - 1) * BASIS
      BY <1>0, <2>4, TimesLeq
    <3>2. z - a <= w - BASIS
      BY <1>0, <2>4, <3>1
    <3>3. (f + 1) * Unit <= BASIS * Unit
      BY <1>0, <2>9, TimesLeq
    <3>4. b + Unit <= z
      BY <1>0, <3>3
    <3>5. f * Unit <= Mantissa * Unit
      BY <1>0, <2>9, Sizes, TimesLeq
    <3>6. 2 * Mantissa * (a - b) <= b /\ b <= v
      BY <2>5, <3>5
    <3>7. Mantissa * (Unit + 1) <= Mantissa * (2 * (a - b))
      <4>1. Unit + 1 <= 2 * (a - b)
        BY <1>0, <2>7, <2>8, <3>2, <3>4
      <4> HIDE DEF a, b
      <4> QED BY <1>0, <2>7, <4>1, TimesLeq
    <3>8. Mantissa * (Unit + 1) = v + Mantissa
      BY <1>0
    <3>9. Mantissa * (2 * (a - b)) = 2 * Mantissa * (a - b)
      BY <1>0, <2>7
    <3> HIDE DEF a, b, z, w, v
    <3> QED BY <1>0, <2>7, <3>6, <3>7, <3>8, <3>9
  <2>10. ASSUME f = BASIS PROVE g = Unit
    <3>1. s * Mantissa * BASIS <= BASIS * Unit
      BY <2>3, <2>10 DEF Rounds
    <3>2. s * Mantissa <= Unit
      <4>1. BASIS * (s * Mantissa) <= BASIS * Unit
        BY <1>0, <2>4, <3>1
      <4> QED BY <1>0, <2>4, <4>1, CancelLeq
    <3>3. s <= Unit
      BY <1>0, <2>4, <3>2, Positive
    <3>4. PICK k \in Nat \ {0} : Unit = s * k
      BY <3>3, StepDivides, Constants
    <3>5. f * Unit <= s * k * BASIS /\ s * k * BASIS <= f * Unit
      BY <1>0, <2>4, <2>10, <3>4
    <3>6. g <= s * k
      BY <1>0, <2>3, <3>5, RoundsBelow
    <3>7. s * k <= g
      BY <1>0, <2>3, <3>5, RoundsAbove
    <3> QED BY <1>0, <2>4, <3>4, <3>6, <3>7
  <2>11. ASSUME f > BASIS PROVE Mantissa <= g - Unit
    <3> SUFFICES ASSUME g - Unit <= Mantissa - 1 PROVE FALSE
      BY <1>0, <2>4
    <3>1. (g - Unit) * BASIS <= (Mantissa - 1) * BASIS
      BY <1>0, <2>4, TimesLeq
    <3>2. a <= z + w - BASIS
      BY <1>0, <2>4, <3>1
    <3>3. (BASIS + 1) * Unit <= f * Unit
      BY <1>0, <2>11, TimesLeq
    <3>4. z + Unit <= b
      BY <1>0, <3>3
    <3>5. Unit * BASIS <= Unit * (Mantissa - 1)
      BY <1>0, Sizes, TimesLeq
    <3>6. z <= v - Unit
      BY <1>0, <3>5
    <3>7. 2 * Mantissa * (b - a) <= b
      BY <2>5
    <3>8. Mantissa * (2 * w) <= Mantissa * Unit
      BY <1>0, <2>7, <2>8, TimesLeq
    <3>9. (2 * Mantissa) * a <= (2 * Mantissa) * (z + w - BASIS)
      <4> HIDE DEF a, z, w
      <4> QED BY <1>0, <2>7, <3>2, TimesLeq
    <3>10. (2 * Mantissa - 1) * (z + Unit) <= (2 * Mantissa - 1) * b
      <4> HIDE DEF b, z
      <4> QED BY <1>0, <2>7, <3>4, TimesLeq
    <3>11. Mantissa * Unit = v /\ Mantissa * BASIS = w
      OBVIOUS
    <3> HIDE DEF a, b, z, w, v
    <3> DEFINE mz == Mantissa * z
               mw == Mantissa * w
               mb == Mantissa * b
               ma == Mantissa * a
    <3>12. mz \in Int /\ mw \in Int /\ mb \in Int /\ ma \in Int
      BY <1>0, <2>7
    <3>13. /\ 2 * Mantissa * (b - a) = 2 * mb - 2 * ma
           /\ Mantissa * (2 * w) = 2 * mw
           /\ (2 * Mantissa) * a = 2 * ma
           /\ (2 * Mantissa) * (z + w - BASIS) = 2 * mz + 2 * mw - 2 * w
           /\ (2 * Mantissa - 1) * (z + Unit) = 2 * mz - z + 2 * v - Unit
           /\ (2 * Mantissa - 1) * b = 2 * mb - b
      BY <1>0, <2>7, <3>11
    <3> HIDE DEF mz, mw, mb, ma
    <3> QED BY <1>0, <2>7, <3>6, <3>7, <3>8, <3>9, <3>10, <3>11, <3>12, <3>13
  <2> QED BY <2>4, <2>5, <2>6, <2>9, <2>10, <2>11
<1> QED BY <1>1, <1>2

\* 1 - fee_basis_points / BASIS
LEMMA Kept ==
  ASSUME NEW f \in 0 .. MaxFee, NEW g, g = Quotient(f, BASIS),
         NEW k, k = Quotient(Unit - g, Unit)
  PROVE  /\ f < BASIS => /\ k \in Nat /\ Mantissa <= k /\ k <= Unit
                         /\ 2 * Mantissa * (k - (Unit - g)) <= Unit - g
                         /\ 2 * Mantissa * ((Unit - g) - k) <= Unit - g
         /\ f = BASIS => k = 0
         /\ f > BASIS => \E h \in Nat \ {0} : k = - h /\ Mantissa <= h /\ h <= 4 * MaxFee * Unit
<1>0. /\ Mantissa \in Nat \ {0} /\ BASIS \in Nat \ {0} /\ Unit \in Nat \ {0}
      /\ MaxFee \in Nat /\ MaxReward \in Nat \ {0} /\ f \in Nat /\ f <= MaxFee
  BY Constants
<1>1. /\ g \in Nat /\ g <= 2 * MaxFee * Unit
      /\ f < BASIS => Mantissa <= Unit - g
      /\ f = BASIS => g = Unit
      /\ f > BASIS => Mantissa <= g - Unit
  BY FeeShare
<1>2. Largest \in Nat /\ Unit <= Largest /\ 2 * MaxFee * Unit <= Largest
  <2> DEFINE m == MaxFee * Unit
             w == (1 + 2 * MaxFee) * Unit
  <2>1. w = Unit + 2 * m /\ m \in Nat /\ 2 * MaxFee * Unit = 2 * m
    BY <1>0
  <2>2. Largest = (4 * MaxReward) * w
    BY <1>0 DEF Largest
  <2> HIDE DEF m, w
  <2>3. 1 * w <= (4 * MaxReward) * w /\ (4 * MaxReward) * w \in Nat
    BY <1>0, <2>1, TimesLeq
  <2> QED BY <1>0, <2>1, <2>2, <2>3
<1>3. ASSUME NEW n \in Nat \ {0}, Mantissa <= n, n <= Largest
      PROVE  \E s \in Steps : Rounds(Quotient(n, Unit), n, Unit, s)
  <2>1. Mantissa * Unit <= n * Unit /\ n * Unit <= Largest * Unit
    BY <1>0, <1>2, <1>3, TimesLeq
  <2> QED BY <1>0, <2>1, Rounded
<1>4. ASSUME f < BASIS
      PROVE  /\ k \in Nat /\ Mantissa <= k /\ k <= Unit
             /\ 2 * Mantissa * (k - (Unit - g)) <= Unit - g
             /\ 2 * Mantissa * ((Unit - g) - k) <= Unit - g
  <2> DEFINE n == Unit - g
  <2>1. n \in Nat \ {0} /\ Mantissa <= n /\ n <= Unit /\ n <= Largest
    BY <1>0, <1>1, <1>2, <1>4
  <2>2. k = Quotient(n, Unit)
    OBVIOUS
  <2>3. Unit - g = n
    OBVIOUS
  <2> HIDE DEF n
  <2>4. PICK s \in Steps : Rounds(k, n, Unit, s)
    BY <1>3, <2>1, <2>2
  <2>5. s \in Nat \ {0} /\ k \in Nat
    BY <2>4, RoundsType
  <2>6. Mantissa <= k
    <3>1. s * Mantissa <= k
      BY <1>0, <2>1, <2>4, RoundsLarge
    <3>2. Mantissa <= s * Mantissa
      BY <1>0, <2>5, Positive
    <3> QED BY <1>0, <2>5, <3>1, <3>2
  <2>7. k <= Unit
    <3>1. s * Mantissa * Unit <= n * Unit
      BY <2>4 DEF Rounds
    <3>2. s * Mantissa <= n
      <4>1. Unit * (s * Mantissa) <= Unit * n
        BY <1>0, <2>1, <2>5, <3>1
      <4> QED BY <1>0, <2>1, <2>5, <4>1, CancelLeq
    <3>3. s <= s * Mantissa
      BY <1>0, <2>5, Positive
    <3>4. s <= Unit
      BY <1>0, <2>1, <2>5, <3>2, <3>3
    <3>5. PICK j \in Nat \ {0} : Unit = s * j
      BY <3>4, StepDivides, Constants
    <3>6. n * Unit <= s * j * Unit
      BY <1>0, <2>1, <3>5, TimesLeq
    <3>7. k <= s * j
      BY <1>0, <2>1, <2>4, <3>6, RoundsBelow
    <3> QED BY <3>5, <3>7
  <2>8. /\ 2 * Mantissa * (k * Unit - n * Unit) <= n * Unit
        /\ 2 * Mantissa * (n * Unit - k * Unit) <= n * Unit
    BY <1>0, <2>1, <2>4, RelativeError
  <2>9. 2 * Mantissa * (k - n) <= n /\ 2 * Mantissa * (n - k) <= n
    <3>1. /\ Unit * (2 * Mantissa * (k - n)) <= Unit * n
          /\ Unit * (2 * Mantissa * (n - k)) <= Unit * n
      BY <1>0, <2>1, <2>5, <2>8
    <3>2. 2 * Mantissa * (k - n) \in Int /\ 2 * Mantissa * (n - k) \in Int
      BY <1>0, <2>1, <2>5
    <3> QED BY <1>0, <2>1, <3>1, <3>2, CancelLeq
  <2> QED BY <2>3, <2>5, <2>6, <2>7, <2>9
<1>5. ASSUME f = BASIS PROVE k = 0
  <2>1. Unit - g = 0
    BY <1>0, <1>1, <1>5
  <2> QED BY <2>1, QuotientZero
<1>6. ASSUME f > BASIS
      PROVE  \E h \in Nat \ {0} : k = - h /\ Mantissa <= h /\ h <= 4 * MaxFee * Unit
  <2> DEFINE n == g - Unit
             h == Quotient(n, Unit)
  <2>1. n \in Nat \ {0} /\ Mantissa <= n /\ n <= 2 * MaxFee * Unit /\ Unit - g = - n
    BY <1>0, <1>1, <1>6
  <2> HIDE DEF n
  <2>2. k = - h
    BY <2>1, QuotientNegative
  <2>3. n <= Largest
    BY <1>0, <1>2, <2>1
  <2>4. PICK s \in Steps : Rounds(h, n, Unit, s)
    BY <1>3, <2>1, <2>3
  <2> HIDE DEF h
  <2>5. s \in Nat \ {0} /\ h \in Nat
    BY <2>4, RoundsType
  <2>6. s * Mantissa <= h /\ Mantissa <= s * Mantissa
    BY <1>0, <2>1, <2>4, <2>5, RoundsLarge, Positive
  <2>7. h <= 2 * n
    <3>1. Unit * h <= Unit * (2 * n)
      <4>1. h * Unit <= 2 * n * Unit
        BY <1>0, <2>1, <2>4, RoundsDouble
      <4> QED BY <1>0, <2>1, <2>5, <4>1
    <3> QED BY <1>0, <2>1, <2>5, <3>1, CancelLeq
  <2>8. 2 * n <= 4 * MaxFee * Unit
    BY <1>0, <2>1
  <2>9. h \in Nat \ {0} /\ Mantissa <= h
    BY <1>0, <2>5, <2>6
  <2>10. h <= 4 * MaxFee * Unit
    BY <1>0, <2>1, <2>5, <2>7, <2>8
  <2> QED BY <2>2, <2>9, <2>10
<1> QED BY <1>4, <1>5, <1>6

\* The total against the claims less the fee
LEMMA TotalBounds ==
  ASSUME NEW c \in 0 .. MaxReward, NEW f \in 0 .. MaxFee, NEW g, g = Quotient(f, BASIS),
         NEW k, k = Quotient(Unit - g, Unit), NEW y, y = Quotient(c * k, Unit),
         NEW total, total = Truncated(y)
  PROVE  /\ total \in Int /\ total * Unit <= Largest /\ (- total) * Unit <= Largest
         /\ f <= BASIS =>
              /\ 0 <= total /\ total <= c
              /\ 2 * Mantissa * (total * BASIS - c * (BASIS - f)) <= 3 * c * BASIS
              /\ 2 * Mantissa * (c * (BASIS - f) - BASIS - total * BASIS) < 3 * c * BASIS
         /\ f > BASIS => total <= 0
         /\ c = 0 => total = 0
<1>0. /\ Mantissa \in Nat \ {0} /\ BASIS \in Nat \ {0} /\ Unit \in Nat \ {0}
      /\ MaxFee \in Nat /\ MaxReward \in Nat \ {0} /\ f \in Nat /\ f <= MaxFee
      /\ c \in Nat /\ c <= MaxReward /\ Largest \in Nat
  BY Constants DEF Largest
<1>1. g \in Nat
  BY FeeShare
<1>2. /\ MaxReward * Unit <= Largest
      /\ 2 * (MaxReward * (4 * MaxFee * Unit)) <= Largest
  <2> DEFINE r == MaxReward * Unit
             q == MaxReward * (MaxFee * Unit)
  <2>1. r \in Nat /\ q \in Nat
    BY <1>0
  <2>2. Largest = 4 * r + 8 * q /\ 2 * (MaxReward * (4 * MaxFee * Unit)) = 8 * q
    BY <1>0 DEF Largest
  <2> QED BY <2>1, <2>2
<1>3. CASE c = 0 \/ f = BASIS
  <2>1. c * k = 0
    <3>1. CASE c = 0
      <4>1. k \in Int
        BY <1>0, Kept
      <4> QED BY <3>1, <4>1
    <3>2. CASE f = BASIS
      <4>1. k = 0
        BY <3>2, Kept
      <4> QED BY <1>0, <4>1
    <3> QED BY <1>3, <3>1, <3>2
  <2>2. y = 0
    BY <2>1, QuotientZero
  <2>3. 0 \div Unit = 0
    BY <1>0
  <2>4. total = 0
    BY <2>2, <2>3 DEF Truncated
  <2>5. c * (BASIS - f) = 0 \/ f > BASIS
    BY <1>0, <1>3
  <2>6. f <= BASIS => c * (BASIS - f) = 0
    BY <1>0, <1>3
  <2>7. total * BASIS = 0 /\ total * Unit = 0 /\ (- total) * Unit = 0
    BY <1>0, <2>4
  <2>8. 0 <= 3 * c * BASIS /\ 2 * Mantissa * (0 - 0) = 0
        /\ 2 * Mantissa * (0 - BASIS - 0) < 0
    <3>1. 2 * Mantissa * BASIS \in Nat \ {0}
      BY <1>0, Positive
    <3>2. 2 * Mantissa * (0 - BASIS - 0) = - (2 * Mantissa * BASIS)
      BY <1>0
    <3> QED BY <1>0, <3>1, <3>2
  <2>9. 3 * c * BASIS \in Int /\ 2 * Mantissa * (0 - BASIS - 0) \in Int
    BY <1>0
  <2>10. 2 * Mantissa * (0 - BASIS - 0) < 3 * c * BASIS
    BY <2>8, <2>9
  <2> QED BY <1>0, <2>4, <2>6, <2>7, <2>8, <2>10
<1>4. ASSUME NEW n \in Nat \ {0}, Mantissa <= n, n <= Largest
      PROVE  \E s \in Steps : Rounds(Quotient(n, Unit), n, Unit, s)
  <2>1. Mantissa * Unit <= n * Unit /\ n * Unit <= Largest * Unit
    BY <1>0, <1>4, TimesLeq
  <2> QED BY <1>0, <2>1, Rounded
<1>5. CASE c # 0 /\ f < BASIS
  <2> DEFINE n == Unit - g
             p == c * k
  <2>1. /\ k \in Nat /\ Mantissa <= k /\ k <= Unit
        /\ 2 * Mantissa * (k - n) <= n /\ 2 * Mantissa * (n - k) <= n
    BY <1>5, Kept
  <2>2. n \in Int /\ n <= Unit /\ c \in Nat \ {0} /\ k \in Nat \ {0}
    BY <1>0, <1>1, <1>5, <2>1
  <2>3. p \in Nat \ {0} /\ Mantissa <= p /\ p <= c * Unit /\ p <= Largest
    <3>1. p \in Nat \ {0} /\ k <= p
      BY <2>2, Positive
    <3>2. c * k <= c * Unit /\ c * Unit <= MaxReward * Unit
      BY <1>0, <2>1, <2>2, TimesLeq
    <3>3. c * Unit \in Nat /\ MaxReward * Unit \in Nat
      BY <1>0
    <3> QED BY <1>0, <1>2, <2>1, <3>1, <3>2, <3>3
  <2>4. y = Quotient(p, Unit)
    OBVIOUS
  <2>5. PICK s \in Steps : Rounds(y, p, Unit, s)
    <3> HIDE DEF p
    <3> QED BY <1>4, <2>3, <2>4
  <2>6. s \in Nat \ {0} /\ y \in Nat
    BY <2>5, RoundsType
  <2>7. y <= c * Unit
    <3>1. s * Mantissa * Unit <= p * Unit
      BY <2>5 DEF Rounds
    <3>2. s * Mantissa <= p
      <4> HIDE DEF p
      <4>1. Unit * (s * Mantissa) <= Unit * p
        BY <1>0, <2>3, <2>6, <3>1
      <4> QED BY <1>0, <2>3, <2>6, <4>1, CancelLeq
    <3>3. s <= Unit
      <4> SUFFICES ASSUME Unit < s PROVE FALSE
        BY <1>0, <2>6
      <4>1. PICK j \in Nat \ {0} : s = Unit * j
        BY <1>0, <2>6, StepDivides, Constants
      <4>2. j >= 2
        <5>1. j = 1 => s = Unit
          BY <1>0, <4>1
        <5> QED BY <1>0, <4>1, <5>1
      <4>3. Unit * 2 <= Unit * j
        BY <1>0, <4>2, TimesLeq
      <4>4. (2 * Unit) * Mantissa <= s * Mantissa
        BY <1>0, <2>6, <4>1, <4>3, TimesLeq
      <4>5. c * Unit < (2 * Mantissa) * Unit
        BY <1>0, Sizes, TimesLess
      <4>6. (2 * Unit) * Mantissa = (2 * Mantissa) * Unit
        BY <1>0
      <4> HIDE DEF p
      <4> QED BY <1>0, <2>3, <2>6, <3>2, <4>4, <4>5, <4>6
    <3>4. PICK j \in Nat \ {0} : Unit = s * j
      BY <3>3, StepDivides, Constants
    <3>5. s * (j * c) = c * Unit /\ j * c \in Nat
      BY <1>0, <2>6, <3>4
    <3>6. p * Unit <= s * (j * c) * Unit
      <4> HIDE DEF p
      <4> QED BY <1>0, <2>3, <3>5, TimesLeq
    <3>7. y <= s * (j * c)
      <4> HIDE DEF p
      <4> QED BY <1>0, <2>3, <2>5, <3>5, <3>6, RoundsBelow
    <3> QED BY <3>5, <3>7
  <2>8. 2 * Mantissa * (y - c * k) <= c * k /\ 2 * Mantissa * (c * k - y) <= c * k
    <3> HIDE DEF p
    <3>1. /\ 2 * Mantissa * (y * Unit - p * Unit) <= p * Unit
          /\ 2 * Mantissa * (p * Unit - y * Unit) <= p * Unit
      BY <1>0, <2>3, <2>5, RelativeError
    <3>2. /\ Unit * (2 * Mantissa * (y - p)) <= Unit * p
          /\ Unit * (2 * Mantissa * (p - y)) <= Unit * p
      BY <1>0, <2>3, <2>6, <3>1
    <3>3. 2 * Mantissa * (y - p) \in Int /\ 2 * Mantissa * (p - y) \in Int
      BY <1>0, <2>3, <2>6
    <3>4. 2 * Mantissa * (y - p) <= p /\ 2 * Mantissa * (p - y) <= p
      BY <1>0, <2>3, <3>2, <3>3, CancelLeq
    <3> QED BY <3>4 DEF p
  <2>9. /\ 2 * Mantissa * (g * BASIS - f * Unit) <= f * Unit
        /\ 2 * Mantissa * (f * Unit - g * BASIS) <= f * Unit
    BY FeeShare
  <2> DEFINE exact == c * (BASIS - f)
             slack == 3 * c * BASIS
  <2>10. /\ 2 * Mantissa * (y * BASIS - exact * Unit) <= slack * Unit
         /\ 2 * Mantissa * (exact * Unit - y * BASIS) <= slack * Unit
    <3>1. /\ BASIS * (2 * Mantissa * (y - c * k)) <= BASIS * (c * k)
          /\ BASIS * (2 * Mantissa * (c * k - y)) <= BASIS * (c * k)
      <4>1. c * k \in Int /\ 2 * Mantissa * (y - c * k) \in Int
            /\ 2 * Mantissa * (c * k - y) \in Int
        BY <1>0, <2>1, <2>6
      <4> QED BY <1>0, <2>8, <4>1, TimesLeq
    <3>2. /\ (c * BASIS) * (2 * Mantissa * (k - n)) <= (c * BASIS) * n
          /\ (c * BASIS) * (2 * Mantissa * (n - k)) <= (c * BASIS) * n
      <4> HIDE DEF n
      <4>1. c * BASIS \in Nat /\ 2 * Mantissa * (k - n) \in Int
            /\ 2 * Mantissa * (n - k) \in Int
        BY <1>0, <2>1, <2>2
      <4> QED BY <1>0, <2>1, <2>2, <4>1, TimesLeq
    <3>3. /\ c * (2 * Mantissa * (g * BASIS - f * Unit)) <= c * (f * Unit)
          /\ c * (2 * Mantissa * (f * Unit - g * BASIS)) <= c * (f * Unit)
      <4>1. f * Unit \in Int /\ 2 * Mantissa * (g * BASIS - f * Unit) \in Int
            /\ 2 * Mantissa * (f * Unit - g * BASIS) \in Int
        BY <1>0, <1>1
      <4> QED BY <1>0, <2>9, <4>1, TimesLeq
    <3>4. (c * BASIS) * k <= (c * BASIS) * Unit /\ (c * BASIS) * n <= (c * BASIS) * Unit
          /\ (c * Unit) * f <= (c * Unit) * BASIS
      <4> HIDE DEF n
      <4>1. c * BASIS \in Nat /\ c * Unit \in Nat /\ f <= BASIS
        BY <1>0, <1>5
      <4> QED BY <1>0, <2>1, <2>2, <4>1, TimesLeq
    <3> DEFINE Y == y * BASIS
               K == c * k * BASIS
               N == c * n * BASIS
               E == exact * Unit
               F == c * f * Unit
               Z == c * BASIS * Unit
    <3>5. /\ Y \in Int /\ K \in Int /\ N \in Int /\ E \in Int /\ F \in Int /\ Z \in Int
      BY <1>0, <1>1, <2>1, <2>6
    <3>6. 2 * Mantissa * (Y - K) <= K /\ 2 * Mantissa * (K - Y) <= K
      BY <1>0, <2>1, <2>6, <3>1
    <3>7. 2 * Mantissa * (K - N) <= N /\ 2 * Mantissa * (N - K) <= N
      <4> HIDE DEF n
      <4> QED BY <1>0, <2>1, <2>2, <3>2
    <3>8. 2 * Mantissa * (N - E) <= F /\ 2 * Mantissa * (E - N) <= F
      <4>1. N - E = c * (f * Unit - g * BASIS) /\ E - N = c * (g * BASIS - f * Unit)
        BY <1>0, <1>1
      <4> DEFINE d == f * Unit - g * BASIS
                 b == g * BASIS - f * Unit
      <4>2. d \in Int /\ b \in Int /\ F = c * (f * Unit)
        BY <1>0, <1>1
      <4> HIDE DEF d, b, F, N, E
      <4>3. 2 * Mantissa * (c * d) = c * (2 * Mantissa * d)
            /\ 2 * Mantissa * (c * b) = c * (2 * Mantissa * b)
        BY <1>0, <4>2
      <4> QED BY <3>3, <4>1, <4>2, <4>3 DEF d, b
    <3>9. K <= Z /\ N <= Z /\ F <= Z
      <4> HIDE DEF n
      <4> QED BY <1>0, <2>1, <2>2, <3>4
    <3>10. slack * Unit = 3 * Z
      BY <1>0
    <3> HIDE DEF Y, K, N, E, F, Z, slack
    <3>11. /\ 2 * Mantissa * (Y - E)
                = 2 * Mantissa * (Y - K) + 2 * Mantissa * (K - N) + 2 * Mantissa * (N - E)
           /\ 2 * Mantissa * (E - Y)
                = 2 * Mantissa * (K - Y) + 2 * Mantissa * (N - K) + 2 * Mantissa * (E - N)
      BY <1>0, <3>5
    <3>12. /\ 2 * Mantissa * (Y - K) \in Int /\ 2 * Mantissa * (K - N) \in Int
           /\ 2 * Mantissa * (N - E) \in Int /\ 2 * Mantissa * (K - Y) \in Int
           /\ 2 * Mantissa * (N - K) \in Int /\ 2 * Mantissa * (E - N) \in Int
      BY <1>0, <3>5
    <3>13. 2 * Mantissa * (Y - E) <= 3 * Z /\ 2 * Mantissa * (E - Y) <= 3 * Z
      BY <3>5, <3>6, <3>7, <3>8, <3>9, <3>11, <3>12
    <3> QED BY <3>10, <3>13 DEF Y, E
  <2>11. total = y \div Unit
    <3>1. ~ (y < 0)
      BY <2>6
    <3> QED BY <3>1 DEF Truncated
  <2>12. total \in Int /\ Unit * total <= y /\ y < Unit * total + Unit
    <3>1. y \in Int
      BY <2>6
    <3> QED BY <1>0, <2>11, <3>1, Division, Zenon
  <2>13. 0 <= total
    <3>1. Unit * 0 < Unit * (total + 1)
      BY <1>0, <2>6, <2>12
    <3>2. 0 < total + 1
      BY <1>0, <2>12, <3>1, CancelLess
    <3> QED BY <2>12, <3>2
  <2>14. total <= c
    <3>1. Unit * total <= Unit * c
      BY <1>0, <2>6, <2>7, <2>12
    <3> QED BY <1>0, <2>12, <3>1, CancelLeq
  <2>15. total * Unit <= Largest /\ (- total) * Unit <= Largest
    <3>1. total * Unit <= MaxReward * Unit
      BY <1>0, <2>12, <2>14, TimesLeq
    <3>2. 0 <= total * Unit /\ (- total) * Unit = - (total * Unit)
      BY <1>0, <2>12, <2>13
    <3> QED BY <1>0, <1>2, <2>12, <3>1, <3>2
  <2>16. exact \in Int /\ slack \in Int
    BY <1>0
  <2> HIDE DEF exact, slack
  <2>17. 2 * Mantissa * (total * BASIS - exact) <= slack
    <3>1. (2 * Mantissa * BASIS) * (Unit * total) <= (2 * Mantissa * BASIS) * y
      BY <1>0, <2>6, <2>12, TimesLeq
    <3>2. Unit * (2 * Mantissa * (total * BASIS - exact)) <= Unit * slack
      BY <1>0, <2>6, <2>10, <2>12, <2>16, <3>1
    <3>3. 2 * Mantissa * (total * BASIS - exact) \in Int
      BY <1>0, <2>12, <2>16
    <3> QED BY <1>0, <2>16, <3>2, <3>3, CancelLeq
  <2>18. 2 * Mantissa * (exact - BASIS - total * BASIS) < slack
    <3>1. 2 * Mantissa * BASIS \in Nat \ {0}
      BY <1>0, Positive
    <3>2. (2 * Mantissa * BASIS) * y < (2 * Mantissa * BASIS) * (Unit * total + Unit)
      BY <1>0, <2>6, <2>12, <3>1, TimesLess
    <3>3. Unit * (2 * Mantissa * (exact - BASIS - total * BASIS)) < Unit * slack
      BY <1>0, <2>6, <2>10, <2>12, <2>16, <3>2
    <3>4. 2 * Mantissa * (exact - BASIS - total * BASIS) \in Int
      BY <1>0, <2>12, <2>16
    <3> QED BY <1>0, <2>16, <3>3, <3>4, CancelLess
  <2>19. c # 0 /\ ~ (f > BASIS)
    BY <1>0, <1>5
  <2> QED BY <2>12, <2>13, <2>14, <2>15, <2>17, <2>18, <2>19 DEF exact, slack
<1>6. CASE c # 0 /\ f > BASIS
  <2>1. PICK h \in Nat \ {0} : k = - h /\ Mantissa <= h /\ h <= 4 * MaxFee * Unit
    BY <1>6, Kept
  <2> DEFINE p == c * h
             x == Quotient(p, Unit)
  <2>2. p \in Nat \ {0} /\ Mantissa <= p /\ 2 * p <= Largest /\ p <= Largest
    <3>1. p \in Nat \ {0} /\ h <= p
      BY <1>0, <1>6, <2>1, Positive
    <3>2. c * h <= c * (4 * MaxFee * Unit)
          /\ c * (4 * MaxFee * Unit) <= MaxReward * (4 * MaxFee * Unit)
      BY <1>0, <2>1, TimesLeq
    <3>3. c * (4 * MaxFee * Unit) \in Nat /\ MaxReward * (4 * MaxFee * Unit) \in Nat
      BY <1>0
    <3> QED BY <1>0, <1>2, <2>1, <3>1, <3>2, <3>3
  <2>3. c * k = - p
    BY <1>0, <2>1
  <2> HIDE DEF p
  <2>4. y = - x
    BY <2>2, <2>3, QuotientNegative
  <2>5. PICK s \in Steps : Rounds(x, p, Unit, s)
    BY <1>4, <2>2
  <2> HIDE DEF x
  <2>6. x \in Nat
    BY <2>5, RoundsType
  <2>7. x <= 2 * p
    <3>1. Unit * x <= Unit * (2 * p)
      <4>1. x * Unit <= 2 * p * Unit
        BY <1>0, <2>2, <2>5, RoundsDouble
      <4> QED BY <1>0, <2>2, <2>6, <4>1
    <3> QED BY <1>0, <2>2, <2>6, <3>1, CancelLeq
  <2> DEFINE t == x \div Unit
  <2>8. t \in Int /\ Unit * t <= x /\ x < Unit * t + Unit
    <3>1. x \in Int
      BY <2>6
    <3> QED BY <1>0, <3>1, Division, Zenon
  <2>9. 0 <= t
    <3>1. Unit * 0 < Unit * (t + 1)
      BY <1>0, <2>6, <2>8
    <3>2. 0 < t + 1
      BY <1>0, <2>8, <3>1, CancelLess
    <3> QED BY <2>8, <3>2
  <2>10. total = - t
    <3>1. CASE x = 0
      <4>1. y = 0 /\ ~ (y < 0) /\ t = 0
        BY <1>0, <2>4, <3>1
      <4>2. total = y \div Unit
        BY <4>1 DEF Truncated
      <4>3. y \div Unit = t
        BY <3>1, <4>1
      <4> HIDE DEF t
      <4> QED BY <4>1, <4>2, <4>3
    <3>2. CASE x # 0
      <4>1. y < 0 /\ - y = x
        BY <2>4, <2>6, <3>2
      <4> QED BY <4>1 DEF Truncated
    <3> QED BY <3>1, <3>2
  <2> HIDE DEF t
  <2>11. total * Unit <= Largest /\ (- total) * Unit <= Largest
    <3>1. (- total) * Unit = Unit * t /\ total * Unit = - (Unit * t) /\ 0 <= Unit * t
      BY <1>0, <2>8, <2>9, <2>10
    <3> QED BY <1>0, <2>2, <2>6, <2>7, <2>8, <3>1
  <2>12. total \in Int /\ total <= 0
    BY <2>8, <2>9, <2>10
  <2> QED BY <1>0, <1>6, <2>11, <2>12
<1> QED BY <1>0, <1>3, <1>5, <1>6

-----------------------------------------------------------------------------
(* The shares *)

LEMMA TotalOfRun ==
  ASSUME RunInv
  PROVE  /\ reward_total \in Int
         /\ reward_total * Unit <= Largest /\ (- reward_total) * Unit <= Largest
         /\ reward_total < 2 * Mantissa
         /\ fee_basis_points <= BASIS =>
              /\ 0 <= reward_total
              /\ 2 * Mantissa * (reward_total * BASIS - claimed * (BASIS - fee_basis_points))
                   <= 3 * claimed * BASIS
              /\ 2 * Mantissa * (claimed * (BASIS - fee_basis_points) - BASIS - reward_total * BASIS)
                   < 3 * claimed * BASIS
         /\ fee_basis_points > BASIS => reward_total <= 0
         /\ claimed = 0 => reward_total = 0
<1> DEFINE g == Quotient(fee_basis_points, BASIS)
           k == Quotient(Unit - g, Unit)
           y == Quotient(claimed * k, Unit)
<1>1. claimed \in 0 .. MaxReward /\ fee_basis_points \in 0 .. MaxFee
  BY Constants DEF RunInv
<1>2. reward_total = Truncated(y)
  BY DEF reward_total
<1>3. /\ reward_total \in Int
      /\ reward_total * Unit <= Largest /\ (- reward_total) * Unit <= Largest
      /\ fee_basis_points <= BASIS =>
              /\ 0 <= reward_total /\ reward_total <= claimed
              /\ 2 * Mantissa * (reward_total * BASIS - claimed * (BASIS - fee_basis_points))
                   <= 3 * claimed * BASIS
              /\ 2 * Mantissa * (claimed * (BASIS - fee_basis_points) - BASIS - reward_total * BASIS)
                   < 3 * claimed * BASIS
      /\ fee_basis_points > BASIS => reward_total <= 0
      /\ claimed = 0 => reward_total = 0
  <2> HIDE DEF y
  <2> QED BY <1>1, <1>2, TotalBounds DEF y
<1> HIDE DEF y
<1>4. reward_total < 2 * Mantissa
  <2>1. Mantissa \in Nat \ {0} /\ BASIS \in Nat \ {0} /\ MaxReward \in Nat \ {0}
        /\ MaxReward < 2 * Mantissa /\ fee_basis_points \in Int /\ claimed \in Int
        /\ claimed <= MaxReward
    BY <1>1, Constants, Sizes
  <2>2. CASE fee_basis_points <= BASIS
    BY <1>3, <2>1, <2>2
  <2>3. CASE fee_basis_points > BASIS
    BY <1>3, <2>1, <2>3
  <2> QED BY <2>1, <2>2, <2>3
<1> QED BY <1>3, <1>4

LEMMA PointsOfRun ==
  ASSUME RunInv, total_points # 0
  PROVE  /\ total_points \in Nat \ {0} /\ Mantissa * total_points <= Unit
         /\ \A u \in Farmers : points[u] \in Nat /\ points[u] <= total_points
         /\ \A u \in Farmers : points[u] < Mantissa
<1>0. /\ MaxPoints \in Nat \ {0} /\ Mantissa \in Nat \ {0} /\ Unit \in Nat \ {0}
      /\ points \in [Farmers -> 0 .. MaxPoints] /\ points \in [Farmers -> Int]
      /\ FarmerCount \in Nat \ {0} /\ MaxPoints < Mantissa
      /\ Mantissa * FarmerCount * MaxPoints <= Unit
  <2>1. /\ MaxPoints \in Nat \ {0} /\ Mantissa \in Nat \ {0} /\ Unit \in Nat \ {0}
        /\ points \in [Farmers -> 0 .. MaxPoints] /\ FarmerCount \in Nat \ {0}
    BY Constants DEF RunInv
  <2>2. MaxPoints < Mantissa /\ Mantissa * FarmerCount * MaxPoints <= Unit
    BY <2>1, SplitAssumption
  <2>3. points \in [Farmers -> Int]
    BY <2>1
  <2> QED BY <2>1, <2>2, <2>3
<1>1. total_points \in Int /\ total_points = Sum(points)
  BY <1>0, SumType DEF total_points
<1>2. ASSUME NEW u \in Farmers PROVE points[u] <= total_points
  <2> DEFINE one == [w \in Farmers |-> IF w \in {u} THEN 1 ELSE 0]
  <2>1. one \in [Farmers -> Int] /\ {u} \in SUBSET Farmers
        /\ \A w \in Farmers : one[w] = IF w \in {u} THEN 1 ELSE 0
    OBVIOUS
  <2>2. \A w \in Farmers : points[u] * one[w] <= 1 * points[w]
    BY <1>0
  <2> HIDE DEF one
  <2>3. Sum(one) = 1
    <3>1. Sum(one) = Cardinality({u})
      BY <2>1, SumOnes
    <3>2. Cardinality({u}) = 1
      BY FS_Singleton
    <3> QED BY <3>1, <3>2
  <2>4. points[u] \in Int
    BY <1>0
  <2>5. points[u] * Sum(one) <= 1 * Sum(points)
    BY <1>0, <2>1, <2>2, <2>4, SumLeq
  <2> QED BY <1>1, <2>3, <2>4, <2>5
<1>3. total_points > 0
  <2>1. 1 \in Farmers
    BY <1>0, Count
  <2>2. points[1] \in Nat /\ points[1] <= total_points
    BY <1>0, <1>2, <2>1
  <2> QED BY <1>1, <2>2
<1>4. total_points <= MaxPoints * FarmerCount
  <2> DEFINE one == [w \in Farmers |-> IF w \in Farmers THEN 1 ELSE 0]
  <2>1. one \in [Farmers -> Int] /\ Farmers \in SUBSET Farmers
        /\ \A w \in Farmers : one[w] = IF w \in Farmers THEN 1 ELSE 0
    OBVIOUS
  <2>2. \A w \in Farmers : 1 * points[w] <= MaxPoints * one[w]
    BY <1>0
  <2> HIDE DEF one
  <2>3. Sum(one) = Cardinality(Farmers)
    BY <2>1, SumOnes
  <2>4. Cardinality(Farmers) = FarmerCount
    <3>1. 1 \in Int /\ FarmerCount \in Int
      BY <1>0
    <3>2. Cardinality(1 .. FarmerCount) = IF 1 > FarmerCount THEN 0 ELSE FarmerCount - 1 + 1
      BY <3>1, FS_Interval
    <3> QED BY <1>0, <3>2, Count
  <2>5. 1 * Sum(points) <= MaxPoints * Sum(one)
    BY <1>0, <2>1, <2>2, SumLeq
  <2> QED BY <1>0, <1>1, <2>3, <2>4, <2>5
<1>5. Mantissa * total_points <= Unit
  <2>1. Mantissa * total_points <= Mantissa * (MaxPoints * FarmerCount)
    BY <1>0, <1>1, <1>4, TimesLeq
  <2>2. Mantissa * (MaxPoints * FarmerCount) = Mantissa * FarmerCount * MaxPoints
    BY <1>0
  <2>3. Mantissa * total_points \in Int /\ Mantissa * (MaxPoints * FarmerCount) \in Int
    BY <1>0, <1>1
  <2> QED BY <1>0, <2>1, <2>2, <2>3
<1>6. \A u \in Farmers : points[u] \in Nat /\ points[u] < Mantissa
  BY <1>0
<1> QED BY <1>1, <1>2, <1>3, <1>5, <1>6

\* Without earners there are no points.
LEMMA PointsEarned ==
  ASSUME RunInv, total_points # 0
  PROVE  earners # {}
<1> SUFFICES ASSUME earners = {} PROVE total_points = 0
  OBVIOUS
<1>1. points \in [Farmers -> Int] /\ \A u \in Farmers : points[u] = IF u \in {} THEN 1 ELSE 0
  BY DEF RunInv
<1>2. Sum(points) = Cardinality({})
  BY <1>1, SumOnes
<1>3. Cardinality({}) = 0
  BY FS_EmptySet
<1> QED BY <1>2, <1>3 DEF total_points

\* Every share of a total that is not 0 is a float, if there are points to pay.
LEMMA ShareRounds ==
  ASSUME RunInv, NEW u \in earners, points[u] # 0, total_points # 0, NEW r \in Nat \ {0}, r * Unit <= Largest,
         NEW x, x = Quotient(r * points[u], total_points)
  PROVE  /\ x \in Nat /\ r * points[u] \in Nat \ {0}
         /\ \E s \in Steps : Rounds(x, r * points[u], total_points, s)
<1> DEFINE p == points[u]
           P == total_points
<1>0. /\ Mantissa \in Nat \ {0} /\ Unit \in Nat \ {0} /\ Largest \in Nat
      /\ P \in Nat \ {0} /\ Mantissa * P <= Unit /\ p \in Nat \ {0} /\ p <= P
  <2>1. u \in Farmers /\ points[u] # 0
    BY DEF RunInv
  <2> QED BY <2>1, PointsOfRun, Constants DEF Largest
<1> HIDE DEF p, P
<1>1. r * p \in Nat \ {0}
  BY <1>0, Positive
<1>2. Mantissa * P <= (r * p) * Unit
  <2>1. Unit <= (r * p) * Unit
    BY <1>0, <1>1, Positive
  <2> QED BY <1>0, <1>1, <2>1
<1>3. (r * p) * Unit <= Largest * P
  <2>1. p * (r * Unit) <= p * Largest
    BY <1>0, TimesLeq
  <2>2. Largest * p <= Largest * P
    BY <1>0, TimesLeq
  <2>3. (r * p) * Unit = p * (r * Unit) /\ p * Largest = Largest * p
        /\ p * (r * Unit) \in Int /\ p * Largest \in Int /\ Largest * P \in Int
    BY <1>0
  <2> QED BY <2>1, <2>2, <2>3
<1>4. PICK s \in Steps : Rounds(Quotient(r * p, P), r * p, P, s)
  BY <1>0, <1>1, <1>2, <1>3, Rounded
<1>5. x = Quotient(r * p, P)
  BY DEF p, P
<1>6. x \in Nat
  BY <1>4, <1>5, RoundsType
<1> QED BY <1>1, <1>4, <1>5, <1>6 DEF p, P

LEMMA TruncatedPositive ==
  ASSUME NEW x \in Nat
  PROVE  /\ Truncated(x) \in Nat
         /\ Unit * Truncated(x) <= x /\ x < Unit * Truncated(x) + Unit
<1>0. Unit \in Nat \ {0} /\ x \in Int /\ ~ (x < 0)
  BY Constants
<1> DEFINE t == Truncated(x)
<1>1. t = x \div Unit
  BY <1>0 DEF Truncated
<1> HIDE DEF t
<1>2. x \div Unit \in Int /\ Unit * (x \div Unit) <= x /\ x < Unit * (x \div Unit) + Unit
  BY <1>0, Division, Zenon
<1>3. t \in Int /\ Unit * t <= x /\ x < Unit * t + Unit
  BY <1>1, <1>2
<1>4. 0 < t + 1
  <2>1. Unit * 0 < Unit * (t + 1)
    BY <1>0, <1>3
  <2> QED BY <1>0, <1>3, <2>1, CancelLess
<1> QED BY <1>3, <1>4 DEF t

\* What each farmer's share is, rounded down, in a run with something to divide
LEMMA ShareBounds ==
  ASSUME RunInv, reward_total > 0, total_points # 0, NEW u \in earners
  PROVE  /\ raw(u) \in Nat /\ Truncated(raw(u)) \in Nat
         /\ (total_points * (2 * Mantissa)) * Truncated(raw(u))
              <= (reward_total * (2 * Mantissa + 1)) * points[u]
         /\ (reward_total * (2 * Mantissa - 1)) * points[u]
              <= (total_points * (2 * Mantissa)) * (Truncated(raw(u)) + 1)
<1> DEFINE p == points[u]
           P == total_points
           r == reward_total
           x == raw(u)
           t == Truncated(x)
<1>0. /\ Mantissa \in Nat \ {0} /\ Unit \in Nat \ {0} /\ r \in Nat \ {0}
      /\ P \in Nat \ {0} /\ p \in Nat
  <2>1. u \in Farmers
    BY DEF RunInv
  <2> QED BY <2>1, PointsOfRun, TotalOfRun, Constants
<1>9. CASE p = 0
  <2>1. r * p = 0
    BY <1>0, <1>9
  <2>2. x = 0
    <3> HIDE DEF r
    <3> QED BY <2>1, QuotientZero DEF raw, r
  <2>3. t = 0
    BY <2>2, Constants DEF Truncated
  <2> HIDE DEF x, t, p, P, r
  <2>4. (P * (2 * Mantissa)) * 0 = 0 /\ (r * (2 * Mantissa + 1)) * 0 = 0
        /\ (r * (2 * Mantissa - 1)) * 0 = 0 /\ (P * (2 * Mantissa)) * (0 + 1) \in Nat
    BY <1>0
  <2> QED BY <1>9, <2>2, <2>3, <2>4 DEF x, t, p, P, r
<1>10. SUFFICES ASSUME p # 0
                PROVE  /\ raw(u) \in Nat /\ Truncated(raw(u)) \in Nat
                       /\ (total_points * (2 * Mantissa)) * Truncated(raw(u))
                            <= (reward_total * (2 * Mantissa + 1)) * points[u]
                       /\ (reward_total * (2 * Mantissa - 1)) * points[u]
                            <= (total_points * (2 * Mantissa)) * (Truncated(raw(u)) + 1)
  BY <1>9
<1>1. PICK s \in Steps : Rounds(x, r * p, P, s)
  <2>1. x = Quotient(r * p, P)
    BY DEF raw
  <2> HIDE DEF x
  <2> QED BY <1>0, <1>10, <2>1, TotalOfRun, ShareRounds
<1>2. x \in Nat /\ r * p \in Nat
  <2>1. r * p \in Nat
    BY <1>0
  <2> HIDE DEF p, P, r, x
  <2> QED BY <1>1, <2>1, RoundsType
<1> HIDE DEF x
<1>3. t \in Nat /\ Unit * t <= x /\ x < Unit * t + Unit
  BY <1>2, TruncatedPositive
<1> HIDE DEF p, P, r, t
<1> DEFINE n == r * p
<1>4. /\ 2 * Mantissa * (x * P - n * Unit) <= n * Unit
      /\ 2 * Mantissa * (n * Unit - x * P) <= n * Unit
  <2> HIDE DEF n
  <2> QED BY <1>0, <1>1, <1>2, RelativeError DEF n
<1>5. n \in Nat /\ 2 * Mantissa * P \in Nat
  BY <1>0
<1> HIDE DEF n
<1>6. (P * (2 * Mantissa)) * t <= n * (2 * Mantissa + 1)
  <2>1. (2 * Mantissa * P) * (Unit * t) <= (2 * Mantissa * P) * x
    BY <1>0, <1>2, <1>3, <1>5, TimesLeq
  <2>2. Unit * ((P * (2 * Mantissa)) * t) <= Unit * (n * (2 * Mantissa + 1))
    BY <1>0, <1>2, <1>3, <1>4, <1>5, <2>1
  <2>3. (P * (2 * Mantissa)) * t \in Int /\ n * (2 * Mantissa + 1) \in Int
    BY <1>0, <1>3, <1>5
  <2> QED BY <1>0, <2>2, <2>3, CancelLeq
<1>7. n * (2 * Mantissa - 1) <= (P * (2 * Mantissa)) * (t + 1)
  <2>1. (2 * Mantissa * P) * x <= (2 * Mantissa * P) * (Unit * t + Unit)
    BY <1>0, <1>2, <1>3, <1>5, TimesLeq
  <2>2. Unit * (n * (2 * Mantissa - 1)) <= Unit * ((P * (2 * Mantissa)) * (t + 1))
    BY <1>0, <1>2, <1>3, <1>4, <1>5, <2>1
  <2>3. (P * (2 * Mantissa)) * (t + 1) \in Int /\ n * (2 * Mantissa - 1) \in Int
    BY <1>0, <1>3, <1>5
  <2> QED BY <1>0, <2>2, <2>3, CancelLeq
<1>8. n * (2 * Mantissa + 1) = (r * (2 * Mantissa + 1)) * p
      /\ n * (2 * Mantissa - 1) = (r * (2 * Mantissa - 1)) * p
  BY <1>0 DEF n
<1> QED BY <1>2, <1>3, <1>6, <1>7, <1>8 DEF p, P, r, x, t

\* Rounding down leaves no more than a mojo each, and never gives out too much.
LEMMA RemainderBounds ==
  ASSUME RunInv, reward_total > 0, total_points # 0
  PROVE  remainder \in 0 .. Cardinality(earners)
<1> DEFINE t == [u \in Farmers |-> Truncated(raw(u))]
           e == [u \in Farmers |-> IF u \in earners THEN 1 ELSE 0]
           h == [u \in Farmers |-> t[u] + e[u]]
           P == total_points
           r == reward_total
           M == 2 * Mantissa
<1>0. /\ M \in Nat \ {0} /\ P \in Nat \ {0} /\ r \in Nat \ {0} /\ r < M
      /\ points \in [Farmers -> Int] /\ P = Sum(points)
  <2>1. points \in [Farmers -> Int]
    BY DEF RunInv
  <2> QED BY <2>1, PointsOfRun, TotalOfRun, Constants DEF total_points
<1>1. ASSUME NEW u \in Farmers, u \notin earners
      PROVE  Truncated(raw(u)) = 0 /\ points[u] = 0
  <2>1. points[u] = 0
    BY <1>1 DEF RunInv
  <2>2. raw(u) = 0
    BY <1>0, <2>1, QuotientZero DEF raw
  <2>3. Truncated(0) = 0
    BY Constants DEF Truncated
  <2> QED BY <2>1, <2>2, <2>3
<1>2. ASSUME NEW u \in Farmers
      PROVE  /\ t[u] \in Nat /\ e[u] \in Nat
             /\ (P * M) * t[u] <= (r * (M + 1)) * points[u]
             /\ (r * (M - 1)) * points[u] <= (P * M) * (t[u] + e[u])
  <2>1. CASE u \in earners
    <3>1. t[u] = Truncated(raw(u)) /\ e[u] = 1
      BY <2>1
    <3> HIDE DEF t, e
    <3> QED BY <2>1, <3>1, ShareBounds
  <2>2. CASE u \notin earners
    <3>1. t[u] = 0 /\ e[u] = 0 /\ points[u] = 0
      BY <1>1, <2>2
    <3> HIDE DEF t, e, P, r, M
    <3> QED BY <1>0, <3>1
  <2> QED BY <2>1, <2>2
<1>3. t \in [Farmers -> Int] /\ e \in [Farmers -> Int] /\ h \in [Farmers -> Int]
  <2>1. \A u \in Farmers : t[u] \in Int /\ e[u] \in Int
    BY <1>2
  <2>2. \A u \in Farmers : Truncated(raw(u)) \in Int
    BY <2>1
  <2>3. t \in [Farmers -> Int] /\ e \in [Farmers -> Int]
    BY <2>2
  <2> HIDE DEF t, e
  <2> QED BY <2>1, <2>3
<1>4. \A u \in Farmers : h[u] = t[u] + e[u]
  <2> HIDE DEF t, e
  <2> QED OBVIOUS
<1>5. Sum(e) = Cardinality(earners)
  <2>1. earners \in SUBSET Farmers /\ \A u \in Farmers : e[u] = IF u \in earners THEN 1 ELSE 0
    BY DEF RunInv
  <2> HIDE DEF e
  <2> QED BY <1>3, <2>1, SumOnes
<1>6. remainder = r - Sum(t)
  BY DEF remainder
<1> DEFINE T == Sum(t)
           N == Cardinality(earners)
<1> HIDE DEF t, e, h, P, r, M
<1>7. T \in Int /\ Sum(h) = T + N /\ N \in Nat
  <2>1. Sum(h) = Sum(t) + Sum(e)
    BY <1>3, <1>4, SumPlus
  <2> QED BY <1>3, <1>5, <2>1, SumType, EarnersFinite
<1>8. (P * M) * T <= (r * (M + 1)) * P
  <2>1. P * M \in Int /\ r * (M + 1) \in Int
    BY <1>0
  <2> QED BY <1>0, <1>2, <1>3, <2>1, SumLeq
<1>9. (r * (M - 1)) * P <= (P * M) * (T + N)
  <2>1. P * M \in Int /\ r * (M - 1) \in Int
    BY <1>0
  <2>2. \A u \in Farmers : (r * (M - 1)) * points[u] <= (P * M) * h[u]
    BY <1>2, <1>4
  <2>3. (r * (M - 1)) * Sum(points) <= (P * M) * Sum(h)
    BY <1>0, <1>3, <2>1, <2>2, SumLeq
  <2> QED BY <1>0, <1>7, <2>3
<1> HIDE DEF T, N
<1>10. T <= r
  <2>1. P * (M * T) <= P * (r * (M + 1))
    BY <1>0, <1>7, <1>8
  <2>2. M * T <= r * (M + 1)
    <3>1. M * T \in Int /\ r * (M + 1) \in Int
      BY <1>0, <1>7
    <3> QED BY <1>0, <2>1, <3>1, CancelLeq
  <2>3. M * T < M * (r + 1)
    <3>1. M * T \in Int /\ r * (M + 1) = M * r + r /\ M * (r + 1) = M * r + M /\ M * r \in Int
      BY <1>0, <1>7
    <3> QED BY <1>0, <2>2, <3>1
  <2>4. T < r + 1
    BY <1>0, <1>7, <2>3, CancelLess
  <2> QED BY <1>0, <1>7, <2>4
<1>11. r <= T + N
  <2>1. P * (r * (M - 1)) <= P * (M * (T + N))
    BY <1>0, <1>7, <1>9
  <2>2. r * (M - 1) <= M * (T + N)
    <3>1. M * (T + N) \in Int /\ r * (M - 1) \in Int
      BY <1>0, <1>7
    <3> QED BY <1>0, <2>1, <3>1, CancelLeq
  <2>3. M * (r - 1) < M * (T + N)
    <3>1. M * (T + N) \in Int /\ r * (M - 1) = M * r - r /\ M * (r - 1) = M * r - M /\ M * r \in Int
      BY <1>0, <1>7
    <3> QED BY <1>0, <2>2, <3>1
  <2>4. r - 1 < T + N
    BY <1>0, <1>7, <2>3, CancelLess
  <2> QED BY <1>0, <1>7, <2>4
<1>12. remainder = r - T
  BY <1>6 DEF T
<1> QED BY <1>0, <1>7, <1>10, <1>11, <1>12 DEF N

\* Every share is a whole number of units, whatever the sign of the total.
LEMMA SharesWhole ==
  ASSUME RunInv, reward_total # 0, total_points # 0, NEW u \in earners
  PROVE  /\ raw(u) \in Int /\ Truncated(raw(u)) \in Int /\ fraction(u) \in Int
         /\ reward_total < 0 => Truncated(raw(u)) <= 0
<1>0. Unit \in Nat \ {0} /\ reward_total \in Int
  BY Constants, TotalOfRun
<1>1. CASE reward_total > 0
  <2>1. raw(u) \in Nat /\ Truncated(raw(u)) \in Nat
    BY <1>1, ShareBounds
  <2>2. fraction(u) \in Int
    BY <1>0, <2>1 DEF fraction
  <2> QED BY <1>0, <1>1, <2>1, <2>2
<1>3. CASE points[u] = 0
  <2>1. raw(u) = 0
    BY <1>0, <1>3, QuotientZero DEF raw
  <2>2. Truncated(0) = 0
    BY Constants DEF Truncated
  <2> QED BY <1>0, <2>1, <2>2 DEF fraction
<1>2. CASE reward_total < 0 /\ points[u] # 0
  <2> DEFINE r == - reward_total
             x == Quotient(r * points[u], total_points)
  <2>1. r \in Nat \ {0} /\ r * Unit <= Largest
    BY <1>0, <1>2, TotalOfRun
  <2>2. x \in Nat /\ r * points[u] \in Nat \ {0}
    <3> HIDE DEF r
    <3> QED BY <1>2, <2>1, ShareRounds
  <2>3. points[u] \in Int
    BY DEF RunInv
  <2>4. reward_total * points[u] = - (r * points[u])
    BY <1>0, <2>3
  <2>5. raw(u) = - x
    <3> HIDE DEF r
    <3> QED BY <2>2, <2>4, QuotientNegative DEF raw
  <2> HIDE DEF x, r
  <2>6. raw(u) \in Int /\ (raw(u) < 0 => - raw(u) = x) /\ (~ (raw(u) < 0) => raw(u) = 0)
    BY <2>2, <2>5
  <2>7. Truncated(raw(u)) \in Int /\ Truncated(raw(u)) <= 0
    <3>1. CASE raw(u) < 0
      <4>1. x \div Unit = Truncated(x)
        BY <2>2 DEF Truncated
      <4>2. Truncated(raw(u)) = - Truncated(x)
        BY <2>6, <3>1, <4>1 DEF Truncated
      <4>3. Truncated(x) \in Nat
        BY <2>2, TruncatedPositive
      <4> QED BY <4>2, <4>3
    <3>2. CASE ~ (raw(u) < 0)
      <4>1. Truncated(0) = 0
        BY Constants DEF Truncated
      <4> QED BY <2>6, <3>2, <4>1
    <3> QED BY <3>1, <3>2
  <2>8. fraction(u) \in Int
    BY <1>0, <2>6, <2>7 DEF fraction
  <2> QED BY <2>6, <2>7, <2>8
<1> QED BY <1>0, <1>1, <1>2, <1>3

\* The sort gives every earner a place of his own.
LEMMA PlacesNumber ==
  ASSUME RunInv, reward_total # 0, total_points # 0
  PROVE  /\ Numbers([u \in earners |-> place(u)], earners)
         /\ \A u, v \in earners : fraction(u) > fraction(v) => place(u) < place(v)
<1> DEFINE Ahead(u, v) == fraction(u) > fraction(v) \/ (fraction(u) = fraction(v) /\ u < v)
           before == {p \in earners \X earners : Ahead(p[1], p[2])}
           rank == [u \in earners |-> place(u)]
<1>1. \A u \in earners : fraction(u) \in Int /\ u \in Int
  BY SharesWhole, EarnersFinite
<1>2. Orders(before, earners)
  BY <1>1 DEF Orders
<1>3. ASSUME NEW u \in earners PROVE place(u) = Cardinality({v \in earners : <<v, u>> \in before})
  <2>1. {v \in earners : <<v, u>> \in before} = {v \in earners : Ahead(v, u)}
    OBVIOUS
  <2> QED BY <2>1 DEF place
<1>4. rank = [u \in earners |-> Cardinality({v \in earners : <<v, u>> \in before})]
  BY <1>3
<1>5. \A u, v \in earners : fraction(u) > fraction(v) => <<u, v>> \in before
  OBVIOUS
<1>6. \A u \in earners : rank[u] = place(u)
  OBVIOUS
<1> HIDE DEF before, rank
<1>7. Numbers(rank, earners) /\ \A u, v \in earners : <<u, v>> \in before => rank[u] < rank[v]
  BY <1>2, <1>4, EarnersFinite, Ranking
<1>8. \A u, v \in earners : fraction(u) > fraction(v) => place(u) < place(v)
  BY <1>5, <1>6, <1>7
<1> QED BY <1>7, <1>8 DEF rank

-----------------------------------------------------------------------------
(* What is paid *)

LEMMA PaidIsTotal ==
  ASSUME RunInv, pc = "send", reward_total > 0
  PROVE  paid = reward_total
<1> DEFINE t == [u \in Farmers |-> Truncated(raw(u))]
           Lucky == {u \in earners : Chosen(u)}
           e == [u \in Farmers |-> IF u \in Lucky THEN 1 ELSE 0]
           h == [u \in Farmers |-> IF u \in earners THEN InBatches(u) * payouts[u] ELSE 0]
           rank == [u \in earners |-> place(u)]
           N == Cardinality(earners)
<1>0. total_points # 0 /\ payouts = Shares
  BY DEF RunInv
<1>1. remainder \in 0 .. N /\ N \in Nat /\ reward_total \in Int
  BY <1>0, RemainderBounds, EarnersFinite, TotalOfRun
<1>2. Cardinality(Lucky) = remainder
  <2>1. Numbers(rank, earners)
    BY <1>0, PlacesNumber
  <2>2. ASSUME NEW u \in earners PROVE Chosen(u) <=> 0 <= rank[u] /\ rank[u] < remainder
    <3>1. rank[u] \in 0 .. N - 1 /\ rank[u] = place(u)
      BY <2>1 DEF Numbers
    <3> HIDE DEF rank, N
    <3> QED BY <1>1, <3>1 DEF Chosen
  <2>3. Lucky = {u \in earners : 0 <= rank[u] /\ rank[u] < remainder}
    BY <2>2
  <2> HIDE DEF Lucky, rank
  <2>4. Cardinality({u \in earners : 0 <= rank[u] /\ rank[u] < remainder}) = remainder - 0
    BY <1>1, <2>1, EarnersFinite, Placed
  <2> QED BY <1>1, <2>3, <2>4
<1>3. ASSUME NEW u \in Farmers
      PROVE  t[u] \in Int /\ e[u] \in Int /\ h[u] = t[u] + e[u]
  <2>1. CASE u \in earners
    <3>1. InBatches(u) = 1
      BY <2>1, OneBatch
    <3>2. Truncated(raw(u)) \in Int
      BY <1>0, <2>1, ShareBounds
    <3>3. payouts[u] = Truncated(raw(u)) + (IF Chosen(u) THEN 1 ELSE 0)
      BY <1>0, <2>1 DEF Shares
    <3>4. t[u] = Truncated(raw(u)) /\ e[u] = IF Chosen(u) THEN 1 ELSE 0
      BY <2>1
    <3>5. h[u] = InBatches(u) * payouts[u]
      BY <2>1
    <3> HIDE DEF t, e, h
    <3> QED BY <3>1, <3>2, <3>3, <3>4, <3>5
  <2>2. CASE u \notin earners
    <3>1. points[u] = 0
      BY <2>2 DEF RunInv
    <3>2. raw(u) = 0
      BY <1>1, <3>1, QuotientZero DEF raw
    <3>3. Truncated(0) = 0
      BY Constants DEF Truncated
    <3>4. t[u] = 0 /\ e[u] = 0 /\ h[u] = 0
      BY <2>2, <3>2, <3>3
    <3> HIDE DEF t, e, h
    <3> QED BY <3>4
  <2> QED BY <2>1, <2>2
<1>4. t \in [Farmers -> Int] /\ e \in [Farmers -> Int] /\ h \in [Farmers -> Int]
  <2>1. \A u \in Farmers : t[u] \in Int /\ e[u] \in Int /\ h[u] \in Int
    <3> HIDE DEF t, e, h
    <3> QED BY <1>3
  <2>2. /\ t = [u \in Farmers |-> t[u]] /\ e = [u \in Farmers |-> e[u]]
        /\ h = [u \in Farmers |-> h[u]]
    OBVIOUS
  <2> HIDE DEF t, e, h
  <2> QED BY <2>1, <2>2
<1>5. Sum(e) = Cardinality(Lucky)
  <2>1. Lucky \in SUBSET Farmers /\ \A u \in Farmers : e[u] = IF u \in Lucky THEN 1 ELSE 0
    BY DEF RunInv
  <2> HIDE DEF e, Lucky
  <2> QED BY <1>4, <2>1, SumOnes
<1>6. paid = Sum(h) /\ remainder = reward_total - Sum(t)
  BY DEF paid, remainder
<1> HIDE DEF t, e, h, Lucky
<1>7. Sum(h) = Sum(t) + Sum(e)
  BY <1>3, <1>4, SumPlus
<1>8. Sum(t) \in Int
  BY <1>4, SumType
<1> QED BY <1>1, <1>2, <1>5, <1>6, <1>7, <1>8

\* What is divided is the total, to the mojo, whatever the floats do to the
\* shares (service.py:278-290): rounding a share changes it by less than the
\* total's own last mojo, so that the remainder is between none and one for each.
THEOREM TotalIsPaid == Spec => []NothingLostNothingMade
<1>1. RunInv => NothingLostNothingMade
  BY PaidIsTotal DEF NothingLostNothingMade
<1> QED BY <1>1, RunCorrect, PTL

\* Floats keep shares of different points apart.
LEMMA MorePointsMoreRaw ==
  ASSUME RunInv, reward_total > 0, total_points # 0, NEW u \in earners, NEW v \in earners,
         points[u] > points[v]
  PROVE  raw(v) < raw(u)
<1> DEFINE r == reward_total
           P == total_points
           p == points[u]
           q == points[v]
           x == raw(u)
           y == raw(v)
<1>0. /\ Mantissa \in Nat \ {0} /\ Unit \in Nat \ {0} /\ r \in Nat \ {0} /\ P \in Nat \ {0}
      /\ p \in Nat /\ q \in Nat /\ p < Mantissa /\ q < Mantissa /\ q < p
      /\ r * Unit <= Largest
  <2>1. u \in Farmers /\ v \in Farmers
    BY DEF RunInv
  <2> QED BY <2>1, PointsOfRun, TotalOfRun, Constants
<1>1. x = Quotient(r * p, P) /\ y = Quotient(r * q, P)
  BY DEF raw
<1> HIDE DEF x, y
<1>2. PICK s \in Steps : Rounds(x, r * p, P, s)
  BY <1>0, <1>1, ShareRounds
<1>13. CASE q = 0
  <2>1. x \in Nat /\ r * p \in Nat \ {0}
    BY <1>0, <1>1, ShareRounds
  <2>2. 2 * Mantissa * (r * p * Unit - x * P) <= r * p * Unit
    <3> HIDE DEF r, p, P
    <3> QED BY <1>0, <1>2, <2>1, RelativeError
  <2>3. x # 0
    <3> SUFFICES ASSUME x = 0 PROVE FALSE
      OBVIOUS
    <3> DEFINE n == r * p * Unit
    <3>1. n \in Nat \ {0}
      <4> HIDE DEF r, p
      <4> QED BY <1>0, <2>1, Positive
    <3>2. x * P = 0
      <4> HIDE DEF P
      <4> QED BY <1>0
    <3> HIDE DEF n
    <3>3. 2 * Mantissa * n <= n
      BY <2>2, <3>1, <3>2 DEF n
    <3>4. n <= Mantissa * n /\ Mantissa * n \in Nat /\ 2 * Mantissa * n = 2 * (Mantissa * n)
      BY <1>0, <3>1, Positive
    <3> QED BY <3>1, <3>3, <3>4
  <2>4. y = 0
    <3>1. r * q = 0
      <4> HIDE DEF r, q
      <4> QED BY <1>0, <1>13
    <3> QED BY <1>1, <3>1, QuotientZero
  <2> QED BY <2>1, <2>3, <2>4 DEF x, y
<1>14. SUFFICES ASSUME q # 0 PROVE raw(v) < raw(u)
  BY <1>13
<1>3. PICK w \in Steps : Rounds(y, r * q, P, w)
  BY <1>0, <1>1, <1>14, ShareRounds
<1>4. x \in Nat /\ y \in Nat
  BY <1>0, <1>1, <1>14, ShareRounds
<1>5. s \in Nat \ {0} /\ w \in Nat \ {0}
  BY Constants
<1> HIDE DEF r, P, p, q
\* A step is less than what a point is worth.
<1>6. ASSUME NEW z \in Nat \ {0}, NEW m \in Nat, m < Mantissa, z * Mantissa * P <= r * m * Unit
      PROVE  z * P < r * Unit
  <2>1. (r * Unit) * m < (r * Unit) * Mantissa
    <3>1. r * Unit \in Nat \ {0}
      BY <1>0, Positive
    <3> QED BY <1>0, <1>6, <3>1, TimesLess
  <2>2. Mantissa * (z * P) < Mantissa * (r * Unit)
    BY <1>0, <1>6, <2>1
  <2>3. z * P \in Int /\ r * Unit \in Int
    BY <1>0, <1>6
  <2> QED BY <1>0, <2>2, <2>3, CancelLess
<1>7. s * P < r * Unit
  BY <1>0, <1>2, <1>5, <1>6 DEF Rounds
<1>8. w * P < r * Unit
  BY <1>0, <1>3, <1>5, <1>6 DEF Rounds
<1>9. 2 * (r * p * Unit - x * P) <= s * P /\ 2 * (y * P - r * q * Unit) <= w * P
  BY <1>2, <1>3 DEF Rounds
<1>10. (r * Unit) * (q + 1) <= (r * Unit) * p
  <2>1. r * Unit \in Nat
    BY <1>0
  <2> QED BY <1>0, <2>1, TimesLeq
<1>11. P * y < P * x
  <2> DEFINE a == P * y
             b == P * x
             c == r * q * Unit
             d == r * p * Unit
             k == r * Unit
             m == s * P
             n == w * P
  <2>1. /\ a \in Int /\ b \in Int /\ c \in Int /\ d \in Int /\ k \in Int /\ m \in Int /\ n \in Int
    BY <1>0, <1>4, <1>5
  <2>2. 2 * (d - b) <= m /\ 2 * (a - c) <= n
    BY <1>0, <1>4, <1>9
  <2>3. c + k <= d
    BY <1>0, <1>10
  <2>4. m < k /\ n < k
    BY <1>7, <1>8
  <2> HIDE DEF a, b, c, d, k, m, n
  <2>5. a < b
    BY <2>1, <2>2, <2>3, <2>4
  <2> QED BY <2>5 DEF a, b
<1>12. y < x
  BY <1>0, <1>4, <1>11, CancelLess
<1> QED BY <1>12 DEF x, y

\* More points never earn less (service.py:286-290): of two shares with the same
\* whole mojos the larger has the larger fraction, and comes first.
THEOREM PointsArePaidInOrder == Spec => []MorePointsMorePay
<1>1. RunInv => MorePointsMorePay
  <2> SUFFICES ASSUME RunInv, pc = "send", reward_total > 0,
                      NEW u \in earners, NEW v \in earners, points[u] > points[v]
               PROVE  payouts[u] >= payouts[v]
    BY DEF MorePointsMorePay
  <2>0. total_points # 0
    BY DEF RunInv
  <2> DEFINE x == raw(u)
             y == raw(v)
             a == Truncated(x)
             b == Truncated(y)
  <2>1. /\ payouts[u] = a + (IF Chosen(u) THEN 1 ELSE 0)
        /\ payouts[v] = b + (IF Chosen(v) THEN 1 ELSE 0)
    BY DEF RunInv, Shares
  <2>2. y < x
    BY <2>0, MorePointsMoreRaw
  <2>3. x \in Nat /\ y \in Nat
    BY <2>0, ShareBounds
  <2>4. fraction(u) = x - a * Unit /\ fraction(v) = y - b * Unit
    BY DEF fraction
  <2> HIDE DEF x, y
  <2>5. /\ a \in Nat /\ Unit * a <= x /\ x < Unit * a + Unit
        /\ b \in Nat /\ Unit * b <= y /\ y < Unit * b + Unit
    BY <2>3, TruncatedPositive
  <2> HIDE DEF a, b
  <2>6. Unit \in Nat \ {0}
    BY Constants
  <2>7. b <= a
    <3>1. Unit * b < Unit * (a + 1)
      BY <2>2, <2>3, <2>5, <2>6
    <3>2. b < a + 1
      BY <2>5, <2>6, <3>1, CancelLess
    <3> QED BY <2>5, <3>2
  <2>8. CASE b < a
    BY <2>1, <2>5, <2>8
  <2>9. CASE b = a
    <3>1. fraction(u) > fraction(v)
      <4>1. a * Unit \in Int /\ a * Unit = b * Unit
        BY <2>5, <2>6, <2>9
      <4> QED BY <2>2, <2>3, <2>4, <4>1
    <3>2. place(u) < place(v)
      BY <2>0, <3>1, PlacesNumber
    <3>3. Chosen(v) => Chosen(u)
      <4>1. remainder \in Int /\ Cardinality(earners) \in Int
        BY <2>0, RemainderBounds, EarnersFinite
      <4>2. place(u) \in Int /\ place(v) \in Int
        <5> DEFINE rank == [w \in earners |-> place(w)]
        <5>1. rank \in [earners -> 0 .. Cardinality(earners) - 1]
          BY <2>0, PlacesNumber DEF Numbers
        <5>2. rank[u] = place(u) /\ rank[v] = place(v)
          OBVIOUS
        <5> HIDE DEF rank
        <5> QED BY <4>1, <5>1, <5>2
      <4> QED BY <3>2, <4>1, <4>2 DEF Chosen
    <3> QED BY <2>1, <2>5, <2>9, <3>3
  <2> QED BY <2>5, <2>7, <2>8, <2>9
<1> QED BY <1>1, RunCorrect, PTL

\* Of a total below 0 somebody gets nothing, if the wallet takes the amounts at all.
LEMMA NegativeTotal ==
  ASSUME RunInv, pc = "send", reward_total < 0
  PROVE  paid < Cardinality(earners)
<1> DEFINE N == Cardinality(earners)
           t == [u \in Farmers |-> Truncated(raw(u))]
           h == [u \in Farmers |-> IF u \in earners THEN InBatches(u) * payouts[u] ELSE 0]
<1>0. /\ earners # {} /\ total_points # 0 /\ payouts = Shares /\ reward_total \in Int /\ N \in Nat /\ N > 0
      /\ IsFiniteSet(earners) /\ earners \in SUBSET Farmers
  <2>1. total_points # 0 /\ payouts = Shares /\ reward_total \in Int
    BY TotalOfRun DEF RunInv
  <2>4. earners # {}
    BY <2>1, PointsEarned
  <2>2. IsFiniteSet(earners) /\ earners \in SUBSET Farmers /\ N \in Nat
    BY EarnersFinite
  <2>3. N # 0
    BY <2>2, <2>4, FS_EmptySet
  <2> QED BY <2>1, <2>2, <2>3, <2>4
<1>1. ASSUME NEW u \in earners
      PROVE  /\ Truncated(raw(u)) \in Int /\ Truncated(raw(u)) <= 0
             /\ payouts[u] = Truncated(raw(u)) + (IF Chosen(u) THEN 1 ELSE 0)
             /\ payouts[u] \in {0, 1} /\ h[u] = payouts[u]
  <2>1. Truncated(raw(u)) \in Int /\ Truncated(raw(u)) <= 0
    BY <1>0, SharesWhole
  <2>2. payouts[u] = Truncated(raw(u)) + (IF Chosen(u) THEN 1 ELSE 0)
    BY <1>0 DEF Shares
  <2>3. InBatches(u) = 1
    BY OneBatch
  <2>4. payouts[u] >= 0
    <3>1. PICK b \in DOMAIN payment_batches : u \in payment_batches[b]
      <4> SUFFICES ASSUME {b \in DOMAIN payment_batches : u \in payment_batches[b]} = {}
                   PROVE  FALSE
        OBVIOUS
      <4>1. InBatches(u) = Cardinality({})
        BY DEF InBatches
      <4>2. Cardinality({}) = 0
        BY FS_EmptySet
      <4> QED BY <2>3, <4>1, <4>2
    <3>2. b \in 1 .. Len(payment_batches)
      BY DEF RunInv
    <3> QED BY <3>1, <3>2 DEF RunInv
  <2>5. h[u] = InBatches(u) * payouts[u]
    BY <1>0
  <2> HIDE DEF h
  <2> QED BY <2>1, <2>2, <2>3, <2>4, <2>5
<1>2. ASSUME NEW u \in Farmers, u \notin earners PROVE Truncated(raw(u)) = 0 /\ h[u] = 0
  <2>1. points[u] = 0
    BY <1>2 DEF RunInv
  <2>2. raw(u) = 0
    BY <1>0, <2>1, QuotientZero DEF raw
  <2>3. Truncated(0) = 0
    BY Constants DEF Truncated
  <2> QED BY <1>2, <2>2, <2>3
<1>3. \E u \in earners : payouts[u] = 0
  <2> SUFFICES ASSUME \A u \in earners : payouts[u] = 1 PROVE FALSE
    BY <1>1
  <2>1. ASSUME NEW u \in earners PROVE Truncated(raw(u)) = 0 /\ Chosen(u)
    <3>1. payouts[u] = 1
      OBVIOUS
    <3> HIDE DEF h
    <3> QED BY <1>1, <3>1
  <2>2. Sum(t) = 0
    <3>1. t \in [Farmers -> Int] /\ \A u \in Farmers : t[u] = IF u \in {} THEN 1 ELSE 0
      BY <1>2, <2>1
    <3> HIDE DEF t
    <3>2. Sum(t) = Cardinality({})
      BY <3>1, SumOnes
    <3>3. Cardinality({}) = 0
      BY FS_EmptySet
    <3> QED BY <3>2, <3>3
  <2>3. remainder = reward_total
    BY <1>0, <2>2 DEF remainder
  <2> DEFINE rank == [u \in earners |-> place(u)]
  <2>4. PICK u \in earners : rank[u] = N - 1
    <3>1. \A k \in 0 .. N - 1 : \E u \in earners : rank[u] = k
      <4> HIDE DEF N
      <4> QED BY <1>0, PlacesNumber DEF Numbers, N
    <3>2. N - 1 \in 0 .. N - 1
      BY <1>0
    <3> HIDE DEF rank, N
    <3> QED BY <3>1, <3>2
  <2>5. place(u) = N - 1
    BY <2>4
  <2> HIDE DEF rank, N
  <2> QED BY <1>0, <2>1, <2>3, <2>5 DEF Chosen, N
<1>4. PICK z \in earners : payouts[z] = 0
  BY <1>3
<1> DEFINE Paid == earners \ {z}
           e == [u \in Farmers |-> IF u \in Paid THEN 1 ELSE 0]
<1>5. Cardinality(Paid) = N - 1
  BY <1>0, FS_RemoveElement
<1>6. h \in [Farmers -> Int] /\ e \in [Farmers -> Int]
  <2>1. ASSUME NEW u \in Farmers PROVE h[u] \in Int
    <3> HIDE DEF h
    <3> QED BY <1>1, <1>2
  <2>2. h = [u \in Farmers |-> h[u]] /\ e \in [Farmers -> Int]
    OBVIOUS
  <2> HIDE DEF h
  <2> QED BY <2>1, <2>2
<1>7. \A u \in Farmers : 1 * h[u] <= 1 * e[u]
  <2>1. ASSUME NEW u \in Farmers PROVE h[u] <= e[u]
    <3>1. e[u] = IF u \in Paid THEN 1 ELSE 0
      OBVIOUS
    <3> HIDE DEF h, e
    <3> QED BY <1>1, <1>2, <1>4, <3>1
  <2> HIDE DEF h, e
  <2> QED BY <1>6, <2>1
<1>8. Sum(e) = Cardinality(Paid)
  <2>1. Paid \in SUBSET Farmers /\ \A u \in Farmers : e[u] = IF u \in Paid THEN 1 ELSE 0
    BY <1>0
  <2> HIDE DEF e, Paid
  <2> QED BY <1>6, <2>1, SumOnes
<1>9. paid = Sum(h)
  BY DEF paid
<1> HIDE DEF h, e, Paid, N
<1>10. 1 * Sum(h) <= 1 * Sum(e)
  BY <1>6, <1>7, SumLeq
<1>11. Sum(h) \in Int
  BY <1>6, SumType
<1> QED BY <1>0, <1>5, <1>8, <1>9, <1>10, <1>11 DEF N

\* The farmers get the claims less the fee, off by less than one mojo and what
\* three roundings change, and of a fee above 100% less than a mojo each; the
\* division raises only if nobody who waits has points, or the fee is above 100%
\* (service.py:272-290).
THEOREM FeeIsKept == Spec => []FeeIsTaken
<1>1. RunInv => FeeIsTaken
  <2> DEFINE c == claimed
             f == fee_basis_points
             exact == c * (BASIS - f)
  <2>3. ASSUME RunInv, pc = "raised", total_points # 0 PROVE exact < 0
    <3>1. /\ c \in Nat /\ f \in Nat /\ BASIS \in Nat \ {0} /\ reward_total \in Int
          /\ reward_total # 0 /\ payouts = Shares
      <4>1. c \in 0 .. MaxReward /\ f \in 0 .. MaxFee /\ reward_total # 0 /\ payouts = Shares
        BY <2>3, Constants DEF RunInv
      <4> QED BY <2>3, <4>1, Constants, TotalOfRun
    <3>2. PICK u \in earners : payouts[u] < 0
      BY <2>3 DEF RunInv
    <3>3. ~ (reward_total > 0)
      <4> SUFFICES ASSUME reward_total > 0 PROVE FALSE
        OBVIOUS
      <4>1. Truncated(raw(u)) \in Nat
        BY <2>3, ShareBounds
      <4>2. payouts[u] = Truncated(raw(u)) + (IF Chosen(u) THEN 1 ELSE 0)
        BY <3>1 DEF Shares
      <4> QED BY <3>2, <4>1, <4>2
    <3>4. f > BASIS /\ c # 0
      BY <2>3, <3>1, <3>3, TotalOfRun
    <3>5. c * (f - BASIS) \in Nat \ {0}
      BY <3>1, <3>4, Positive
    <3>6. exact = - (c * (f - BASIS))
      BY <3>1
    <3> QED BY <3>5, <3>6
  <2> SUFFICES ASSUME RunInv, pc \in {"send", "raised", "return"}, total_points > 0
               PROVE  IF exact >= 0
                        THEN /\ (exact - BASIS - paid * BASIS) * (2 * Mantissa) < 3 * c * BASIS
                             /\ (paid * BASIS - exact) * (2 * Mantissa) <= 3 * c * BASIS
                        ELSE paid < Cardinality(earners)
    BY <2>3 DEF FeeIsTaken
  <2>0. /\ c \in Nat /\ f \in Nat /\ BASIS \in Nat \ {0} /\ Mantissa \in Nat \ {0}
        /\ exact \in Int /\ reward_total \in Int
    <3>1. c \in 0 .. MaxReward /\ f \in 0 .. MaxFee
      BY Constants DEF RunInv
    <3> QED BY <3>1, Constants, TotalOfRun
  <2>1. CASE exact >= 0
    <3>1. f <= BASIS \/ c = 0
      <4> SUFFICES ASSUME BASIS < f, c # 0 PROVE FALSE
        BY <2>0
      <4>1. c * (f - BASIS) \in Nat \ {0}
        BY <2>0, Positive
      <4>2. exact = - (c * (f - BASIS))
        BY <2>0
      <4> QED BY <2>1, <4>1, <4>2
    <3>2. reward_total >= 0
      BY <2>0, <3>1, TotalOfRun
    <3>3. paid = reward_total
      <4>0. earners # {} /\ total_points # 0
        BY PointsEarned
      <4>1. CASE pc = "return"
        <5>1. reward_total = 0
          BY <4>1, <4>0 DEF RunInv
        <5> QED BY <4>1, <5>1 DEF paid
      <4>2. CASE pc = "raised"
        BY <2>0, <2>1, <2>3, <4>2
      <4>3. CASE pc = "send"
        <5>1. reward_total > 0
          BY <2>0, <3>2, <4>3 DEF RunInv
        <5> QED BY <4>3, <5>1, PaidIsTotal
      <4> QED BY <4>1, <4>2, <4>3
    <3>4. /\ 2 * Mantissa * (reward_total * BASIS - exact) <= 3 * c * BASIS
          /\ 2 * Mantissa * (exact - BASIS - reward_total * BASIS) < 3 * c * BASIS
      <4>1. CASE f <= BASIS
        BY <4>1, TotalOfRun
      <4>2. CASE c = 0
        <5>1. reward_total = 0 /\ exact = 0 /\ 3 * c * BASIS = 0 /\ reward_total * BASIS = 0
          BY <2>0, <4>2, TotalOfRun
        <5>2. 2 * Mantissa * (0 - 0) = 0 /\ 2 * Mantissa * (0 - BASIS - 0) = - (2 * Mantissa * BASIS)
          BY <2>0
        <5>3. 2 * Mantissa * BASIS \in Nat \ {0}
          BY <2>0, Positive
        <5> QED BY <5>1, <5>2, <5>3
      <4> QED BY <3>1, <4>1, <4>2
    <3> HIDE DEF exact
    <3>5. /\ 2 * Mantissa * (reward_total * BASIS - exact) = (paid * BASIS - exact) * (2 * Mantissa)
          /\ 2 * Mantissa * (exact - BASIS - reward_total * BASIS)
               = (exact - BASIS - paid * BASIS) * (2 * Mantissa)
      BY <2>0, <3>3
    <3> QED BY <2>1, <3>4, <3>5
  <2>2. CASE exact < 0
    <3>1. Cardinality(earners) \in Nat /\ Cardinality(earners) # 0
      BY PointsEarned, EarnersFinite, FS_EmptySet
    <3>2. f > BASIS
      <4> SUFFICES ASSUME f <= BASIS PROVE FALSE
        BY <2>0
      <4>1. BASIS - f \in Nat
        BY <2>0
      <4>2. c * (BASIS - f) \in Nat
        BY <2>0, <4>1
      <4> QED BY <2>2, <4>2
    <3>3. CASE pc = "send"
      <4>1. reward_total < 0
        BY <2>0, <3>2, <3>3, TotalOfRun DEF RunInv
      <4> QED BY <2>0, <2>2, <3>3, <4>1, NegativeTotal
    <3>4. CASE pc # "send"
      <4>1. paid = 0
        BY <3>4 DEF paid
      <4> QED BY <2>0, <2>2, <3>1, <4>1
    <3> QED BY <3>3, <3>4
  <2> HIDE DEF exact
  <2> QED BY <2>0, <2>1, <2>2
<1> QED BY <1>1, RunCorrect, PTL

=============================================================================
