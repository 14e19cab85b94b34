--------------------------- MODULE PoliciesProofs ---------------------------
(***************************************************************************)
(* What the operators of Policies compute, for every list of blocks, every *)
(* reading and every configuration: the sorts lose no row, the scores are  *)
(* natural numbers, and each policy returns one verdict per block.         *)
(***************************************************************************)
EXTENDS Policies, FiniteSetTheorems, SequenceTheorems, TLAPS

(***************************************************************************)
(* Floor division, by its bounds.                                          *)
(***************************************************************************)
LEMMA DivBounds ==
  ASSUME NEW a \in Int, NEW b \in Nat \ {0}
  PROVE  /\ a \div b \in Int
         /\ b * (a \div b) <= a
         /\ a < b * (a \div b) + b
OBVIOUS

(***************************************************************************)
(* A larger numerator never has a smaller quotient.                        *)
(***************************************************************************)
LEMMA DivMono ==
  ASSUME NEW a \in Int, NEW c \in Int, NEW b \in Nat \ {0}, a <= c
  PROVE  a \div b <= c \div b
<1> DEFINE p == a \div b
           q == c \div b
<1>1. p \in Int /\ q \in Int /\ b * p <= a /\ c < b * q + b
  BY DivBounds
<1> HIDE DEF p, q
<1>2. b * p < b * (q + 1)
  BY <1>1
<1>3. p < q + 1
  BY <1>1, <1>2
<1> QED BY <1>1, <1>3 DEF p, q

(***************************************************************************)
(* A numerator larger by the divisor has a larger quotient.                *)
(***************************************************************************)
LEMMA DivStrict ==
  ASSUME NEW a \in Int, NEW c \in Int, NEW b \in Nat \ {0}, a + b <= c
  PROVE  a \div b < c \div b
<1> DEFINE p == a \div b
           q == (a+b) \div b
<1>1. p \in Int /\ q \in Int /\ b * p <= a /\ a + b < b * q + b
  BY DivBounds
<1> HIDE DEF p, q
<1>2. b * p < b * q
  BY <1>1
<1>3. p < q
  BY <1>1, <1>2
<1>4. q <= c \div b
  BY DivMono DEF q
<1>5. c \div b \in Int
  BY DivBounds
<1> QED BY <1>1, <1>3, <1>4, <1>5 DEF p

(***************************************************************************)
(* Quotients of natural numbers are natural numbers.                       *)
(***************************************************************************)
LEMMA DivNat ==
  ASSUME NEW a \in Nat, NEW b \in Nat \ {0}
  PROVE  a \div b \in Nat
<1>1. 0 \div b <= a \div b
  BY DivMono
<1>2. 0 \div b = 0
  OBVIOUS
<1> QED BY <1>1, <1>2, DivBounds
(***************************************************************************)
(* Places of a list are finitely many.                                     *)
(***************************************************************************)
LEMMA PlacesFinite ==
  ASSUME NEW n \in Nat, NEW S \in SUBSET (1..n)
  PROVE  IsFiniteSet(S) /\ Cardinality(S) \in Nat
<1>1. IsFiniteSet(1..n)
  BY FS_Interval
<1>2. IsFiniteSet(S)
  BY <1>1, FS_Subset
<1> QED BY <1>2, FS_CardinalityType

\* The places of S that come before i
Below(key, S, i) == {j \in S : Before(key, j, i)}

(***************************************************************************)
(* Fewer places of S come before one of its places than S has.             *)
(***************************************************************************)
LEMMA BelowType ==
  ASSUME NEW n \in Nat, NEW key \in [1..n -> Int], NEW S \in SUBSET (1..n), NEW i \in S
  PROVE  /\ IsFiniteSet(S) /\ Cardinality(S) \in Nat
         /\ IsFiniteSet(Below(key, S, i))
         /\ Cardinality(Below(key, S, i)) \in 0..(Cardinality(S) - 1)
<1>1. IsFiniteSet(S) /\ Cardinality(S) \in Nat
  BY PlacesFinite
<1>2. i \notin Below(key, S, i)
  BY DEF Below, Before
<1>3. Below(key, S, i) \in SUBSET S
  BY DEF Below
<1>4. /\ IsFiniteSet(Below(key, S, i))
      /\ Cardinality(Below(key, S, i)) <= Cardinality(S)
      /\ Cardinality(Below(key, S, i)) # Cardinality(S)
  BY <1>1, <1>2, <1>3, FS_Subset
<1>5. Cardinality(Below(key, S, i)) \in Nat
  BY <1>4, FS_CardinalityType
<1> QED BY <1>1, <1>4, <1>5

(***************************************************************************)
(* A stable sort orders places as Before does: of two places, the one that *)
(* comes first has fewer places before it.                                 *)
(***************************************************************************)
LEMMA BelowOrdered ==
  ASSUME NEW n \in Nat, NEW key \in [1..n -> Int], NEW S \in SUBSET (1..n),
         NEW i \in S, NEW j \in S
  PROVE  Before(key, i, j) <=> Cardinality(Below(key, S, i)) < Cardinality(Below(key, S, j))
<1>1. ASSUME NEW p \in S, NEW q \in S, Before(key, p, q)
      PROVE  Cardinality(Below(key, S, p)) < Cardinality(Below(key, S, q))
  <2>1. \A r \in S : key[r] \in Int /\ r \in Int
    OBVIOUS
  <2>2. ASSUME NEW r \in S, Before(key, r, p)
        PROVE  Before(key, r, q)
    BY <1>1, <2>1, <2>2 DEF Before
  <2>3. Below(key, S, p) \in SUBSET Below(key, S, q)
    BY <2>2 DEF Below
  <2>4. p \in Below(key, S, q) /\ p \notin Below(key, S, p)
    BY <1>1, <2>1 DEF Below, Before
  <2>5. /\ IsFiniteSet(Below(key, S, q))
        /\ Cardinality(Below(key, S, p)) \in Nat /\ Cardinality(Below(key, S, q)) \in Nat
    BY BelowType
  <2>6. /\ Cardinality(Below(key, S, p)) <= Cardinality(Below(key, S, q))
        /\ Cardinality(Below(key, S, p)) # Cardinality(Below(key, S, q))
    BY <2>4, <2>5, <2>3, FS_Subset
  <2> QED BY <2>5, <2>6
<1>2. key[i] \in Int /\ key[j] \in Int
  OBVIOUS
<1>3. i = j \/ Before(key, i, j) \/ Before(key, j, i)
  BY <1>2 DEF Before
<1>4. /\ Cardinality(Below(key, S, i)) \in Nat /\ Cardinality(Below(key, S, j)) \in Nat
  <2>1. /\ Cardinality(Below(key, S, i)) \in 0..(Cardinality(S) - 1)
        /\ Cardinality(Below(key, S, j)) \in 0..(Cardinality(S) - 1)
    BY BelowType
  <2> QED BY <2>1
<1>5. ~Before(key, i, i)
  BY <1>2 DEF Before
<1> QED BY <1>1, <1>3, <1>4, <1>5

(***************************************************************************)
(* Every position in the sorted places of S is taken: the count of places  *)
(* before is an injection between two sets of the same size.               *)
(***************************************************************************)
LEMMA BelowOnto ==
  ASSUME NEW n \in Nat, NEW key \in [1..n -> Int], NEW S \in SUBSET (1..n),
         NEW k \in 0..(Cardinality(S) - 1)
  PROVE  \E i \in S : Cardinality(Below(key, S, i)) = k
<1> DEFINE f == [i \in S |-> Cardinality(Below(key, S, i))]
           T == 0..(Cardinality(S) - 1)
<1>1. IsFiniteSet(S) /\ Cardinality(S) \in Nat
  BY PlacesFinite
<1>2. f \in [S -> T]
  BY BelowType
<1>3. \A i, j \in S : f[i] = f[j] => i = j
  <2> SUFFICES ASSUME NEW i \in S, NEW j \in S, f[i] = f[j], i # j PROVE FALSE
    OBVIOUS
  <2>1. f[i] \in Nat /\ f[j] \in Nat
    BY <1>2, <1>1
  <2>2. Before(key, i, j) \/ Before(key, j, i)
    BY DEF Before
  <2> QED BY <2>1, <2>2, BelowOrdered
<1>4. f \in Injection(S, T)
  BY <1>2, <1>3 DEF Injection, IsInjective
<1>5. IsFiniteSet(T) /\ Cardinality(T) = Cardinality(S)
  BY <1>1, FS_Interval
<1>6. f \in Surjection(S, T)
  BY <1>1, <1>4, <1>5, FS_Injection
<1> QED BY <1>6 DEF Surjection

(***************************************************************************)
(* The rank of a place, as the count of all places before it.              *)
(***************************************************************************)
LEMMA RankType ==
  ASSUME NEW n \in Nat, NEW key \in [1..n -> Int], NEW i \in 1..n
  PROVE  Rank(key, i) = Cardinality(Below(key, 1..n, i)) /\ Rank(key, i) \in 0..(n - 1)
<1>1. Cardinality(1..n) = n
  BY FS_Interval
<1>2. Rank(key, i) = Cardinality(Below(key, 1..n, i))
  BY DEF Rank, Below
<1> QED BY <1>1, <1>2, BelowType

(***************************************************************************)
(* Ranks order the places of a list, and tell them apart.                  *)
(***************************************************************************)
LEMMA RankOrdered ==
  ASSUME NEW n \in Nat, NEW key \in [1..n -> Int], NEW i \in 1..n, NEW j \in 1..n
  PROVE  /\ Before(key, i, j) <=> Rank(key, i) < Rank(key, j)
         /\ Rank(key, i) = Rank(key, j) => i = j
<1>a. 1..n \in SUBSET (1..n)
  OBVIOUS
<1>b. Rank(key, i) = Cardinality(Below(key, 1..n, i))
  BY RankType
<1>c. Rank(key, j) = Cardinality(Below(key, 1..n, j))
  BY RankType
<1>1. Before(key, i, j) <=> Rank(key, i) < Rank(key, j)
  BY <1>a, <1>b, <1>c, BelowOrdered
<1>2. Before(key, j, i) <=> Rank(key, j) < Rank(key, i)
  BY <1>a, <1>b, <1>c, BelowOrdered
<1>3. Rank(key, i) \in Int /\ Rank(key, j) \in Int
  BY RankType
<1>4. i = j \/ Before(key, i, j) \/ Before(key, j, i)
  <2>1. key[i] \in Int /\ key[j] \in Int
    OBVIOUS
  <2> QED BY <2>1 DEF Before
<1> QED BY <1>1, <1>2, <1>3, <1>4

(***************************************************************************)
(* Every rank from 0 to n - 1 is some place's: sorted() loses no row.      *)
(***************************************************************************)
LEMMA RankOnto ==
  ASSUME NEW n \in Nat, NEW key \in [1..n -> Int], NEW k \in 0..(n - 1)
  PROVE  \E i \in 1..n : Rank(key, i) = k
<1>1. Cardinality(1..n) = n
  BY FS_Interval
<1>2. \E i \in 1..n : Cardinality(Below(key, 1..n, i)) = k
  BY <1>1, BelowOnto
<1> QED BY <1>2, RankType

(***************************************************************************)
(* As many places have a rank in an interval as it has numbers.            *)
(***************************************************************************)
LEMMA RanksBetween ==
  ASSUME NEW n \in Nat, NEW key \in [1..n -> Int], NEW lo \in Nat, NEW hi \in Int, hi < n
  PROVE  LET S == {i \in 1..n : Rank(key, i) \in lo..hi}
         IN  /\ IsFiniteSet(S)
             /\ Cardinality(S) = IF lo > hi THEN 0 ELSE hi - lo + 1
<1> DEFINE S == {i \in 1..n : Rank(key, i) \in lo..hi}
           f == [i \in S |-> Rank(key, i)]
<1>1. f \in [S -> lo..hi]
  OBVIOUS
<1>2. \A i, j \in S : f[i] = f[j] => i = j
  BY RankOrdered
<1>3. f \in Injection(S, lo..hi)
  BY <1>1, <1>2 DEF Injection, IsInjective
<1>4. \A k \in lo..hi : \E i \in S : f[i] = k
  <2> SUFFICES ASSUME NEW k \in lo..hi PROVE \E i \in S : f[i] = k
    OBVIOUS
  <2>1. k \in 0..(n - 1)
    OBVIOUS
  <2>2. PICK i \in 1..n : Rank(key, i) = k
    BY <2>1, RankOnto
  <2> QED BY <2>2
<1>5. f \in Surjection(S, lo..hi)
  BY <1>1, <1>4 DEF Surjection
<1>6. IsFiniteSet(lo..hi) /\ Cardinality(lo..hi) = IF lo > hi THEN 0 ELSE hi - lo + 1
  BY FS_Interval
<1> HIDE DEF f, S
<1>7. IsFiniteSet(S) /\ Cardinality(S) = Cardinality(lo..hi)
  BY <1>3, <1>5, <1>6, FS_Injection
<1> QED BY <1>6, <1>7 DEF S

(***************************************************************************)
(* The reversed sort key is a sort key.                                    *)
(***************************************************************************)
LEMMA DescendingType ==
  ASSUME NEW n \in Nat, NEW key \in [1..n -> Int]
  PROVE  Descending(key) \in [1..n -> Int] /\ \A i \in 1..n : Descending(key)[i] = -key[i]
BY DEF Descending

(***************************************************************************)
(* max() finds the highest key, which is the first of the reversed sort.   *)
(***************************************************************************)
LEMMA HighestOfType ==
  ASSUME NEW n \in Nat, NEW key \in [1..n -> Int], NEW d
  PROVE  /\ n = 0 => HighestOf(key, d) = d
         /\ n > 0 => /\ \E i \in 1..n : HighestOf(key, d) = key[i]
                     /\ \A i \in 1..n : key[i] <= HighestOf(key, d)
<1>1. CASE n = 0
  <2>1. DOMAIN key = {}
    BY <1>1
  <2> QED BY <1>1, <2>1 DEF HighestOf
<1>2. CASE n > 0
  <2>1. PICK i \in 1..n : Rank(Descending(key), i) = 0
    <3>1. 0 \in 0..(n - 1) /\ Descending(key) \in [1..n -> Int]
      BY <1>2, DescendingType
    <3> QED BY <3>1, RankOnto
  <2>2. \A j \in 1..n : key[j] <= key[i]
    <3> SUFFICES ASSUME NEW j \in 1..n PROVE key[j] <= key[i]
      OBVIOUS
    <3>1. Descending(key) \in [1..n -> Int] /\ Descending(key)[i] = -key[i]
          /\ Descending(key)[j] = -key[j]
      BY DescendingType
    <3>2. Rank(Descending(key), j) \in 0..(n - 1)
      BY <3>1, RankType
    <3>3. ~(Rank(Descending(key), j) < Rank(Descending(key), i))
      BY <2>1, <3>2
    <3>4. ~Before(Descending(key), j, i)
      BY <3>1, <3>3, RankOrdered
    <3>5. key[i] \in Int /\ key[j] \in Int
      OBVIOUS
    <3> QED BY <3>1, <3>4, <3>5 DEF Before
  <2>3. DOMAIN key = 1..n /\ DOMAIN key # {}
    BY <1>2
  <2>4. /\ HighestOf(key, d) \in {key[j] : j \in 1..n}
        /\ \A j \in 1..n : key[j] <= HighestOf(key, d)
    BY <2>2, <2>3 DEF HighestOf
  <2> QED BY <1>2, <2>4
<1> QED BY <1>1, <1>2

(***************************************************************************)
(* The highest of natural numbers, or the default, is one.                 *)
(***************************************************************************)
LEMMA HighestOfNat ==
  ASSUME NEW n \in Nat, NEW key \in [1..n -> Nat], NEW d \in Nat
  PROVE  HighestOf(key, d) \in Nat
<1>1. key \in [1..n -> Int]
  OBVIOUS
<1> QED BY <1>1, HighestOfType

(***************************************************************************)
(* sorted() loses nothing: row Rank(key, i) + 1 is the row of i.           *)
(***************************************************************************)
LEMMA InOrderLemma ==
  ASSUME NEW n \in Nat, NEW key \in [1..n -> Int], NEW f, DOMAIN f = 1..n
  PROVE  /\ DOMAIN InOrder(key, f) = 1..n
         /\ \A i \in 1..n : Rank(key, i) + 1 \in 1..n /\ InOrder(key, f)[Rank(key, i) + 1] = f[i]
         /\ \A k \in 1..n : \E i \in 1..n : k = Rank(key, i) + 1
<1>1. ASSUME NEW i \in 1..n
      PROVE  Rank(key, i) + 1 \in 1..n /\ InOrder(key, f)[Rank(key, i) + 1] = f[i]
  <2>1. Rank(key, i) \in 0..(n - 1)
    BY RankType
  <2>2. \A j \in 1..n : Rank(key, j) = Rank(key, i) => j = i
    BY RankOrdered
  <2>3. (CHOOSE j \in DOMAIN f : Rank(key, j) = (Rank(key, i) + 1) - 1) = i
    BY <2>1, <2>2
  <2>4. Rank(key, i) + 1 \in 1..n
    BY <2>1
  <2> QED BY <2>3, <2>4 DEF InOrder
<1>2. ASSUME NEW k \in 1..n
      PROVE  \E i \in 1..n : k = Rank(key, i) + 1
  <2>1. k - 1 \in 0..(n - 1)
    OBVIOUS
  <2>2. PICK i \in 1..n : Rank(key, i) = k - 1
    BY <2>1, RankOnto
  <2> QED BY <2>2
<1> QED BY <1>1, <1>2 DEF InOrder

-----------------------------------------------------------------------------
\* What decide() is given: blocks with ids of their own and natural fields,
\* readings that are natural numbers, and a prediction for each block if any.
BlockList(bs) ==
  /\ Len(bs) \in Nat /\ DOMAIN bs = 1..Len(bs)
  /\ \A i \in 1..Len(bs) : /\ bs[i].block_id \in Nat
                           /\ bs[i].avg_attention_score \in Nat
                           /\ bs[i].max_attention_score \in Nat
                           /\ bs[i].last_access_step \in Nat
  /\ \A i, j \in 1..Len(bs) : bs[i].block_id = bs[j].block_id => i = j

MetricsFit(m) == /\ m.used \in Nat /\ m.free \in Nat /\ m.global_step \in Nat
                 /\ m.attn_max \in Nat /\ m.workload \in DOMAIN WorkloadDeltas

ModelFits(model, bs) ==
  /\ model.status \in {"absent", "failing", "ready"}
  /\ model.status = "ready" => model.raw \in [1..Len(bs) -> Int]

(***************************************************************************)
(* A clipped ratio of natural numbers is a natural number, whatever the    *)
(* divisor.                                                                *)
(***************************************************************************)
LEMMA RatioNat ==
  ASSUME NEW a \in Nat, NEW b \in Int
  PROVE  Ratio(a, b) \in Nat
<1>1. Unit * a \in Nat /\ Unit \in Nat
  BY DEF Unit
<1> QED BY <1>1, DivNat DEF Ratio

(***************************************************************************)
(* The sort keys of a list of blocks.                                      *)
(***************************************************************************)
LEMMA KeysType ==
  ASSUME NEW bs, BlockList(bs)
  PROVE  /\ ById(bs) \in [1..Len(bs) -> Int]
         /\ ByAccess(bs) \in [1..Len(bs) -> Nat]
         /\ ByAttention(bs) \in [1..Len(bs) -> Nat]
BY DEF BlockList, ById, ByAccess, ByAttention

(***************************************************************************)
(* The attention scores of the policies are natural numbers.               *)
(***************************************************************************)
LEMMA AttentionType ==
  ASSUME NEW bs, BlockList(bs)
  PROVE  /\ MaxAttention(bs) \in Nat
         /\ RelativeAttention(bs) \in [1..Len(bs) -> Nat]
         /\ PrefixScores(bs) \in [1..Len(bs) -> Nat]
         /\ AttentionFallback(bs) \in [1..Len(bs) -> Nat]
<1>1. Len(bs) \in Nat /\ DOMAIN bs = 1..Len(bs)
  BY DEF BlockList
<1>2. MaxAttention(bs) \in Nat
  <2>1. ByAttention(bs) \in [1..Len(bs) -> Nat] /\ Unit \in Nat
    BY KeysType DEF Unit
  <2> QED BY <1>1, <2>1, HighestOfNat DEF MaxAttention
<1>3. \A i \in 1..Len(bs) : Ratio(bs[i].avg_attention_score, MaxAttention(bs)) \in Nat
  <2> SUFFICES ASSUME NEW i \in 1..Len(bs)
               PROVE  Ratio(bs[i].avg_attention_score, MaxAttention(bs)) \in Nat
    OBVIOUS
  <2>1. bs[i].avg_attention_score \in Nat /\ MaxAttention(bs) \in Int
    BY <1>2 DEF BlockList
  <2> QED BY <2>1, RatioNat
<1>4. RelativeAttention(bs) \in [1..Len(bs) -> Nat]
  BY <1>1, <1>3 DEF RelativeAttention
<1> QED BY <1>1, <1>2, <1>4 DEF PrefixScores, AttentionFallback, Unit

(***************************************************************************)
(* The weights of hybrid are never negative, whatever the workload takes   *)
(* off.                                                                    *)
(***************************************************************************)
LEMMA WeightsType ==
  ASSUME NEW w \in DOMAIN WorkloadDeltas
  PROVE  Weights(w)[1] \in Nat /\ Weights(w)[2] \in Nat /\ Weights(w)[3] \in Nat
<1>1. /\ WorkloadDeltas[w][1] \in Int /\ WorkloadDeltas[w][2] \in Int
      /\ WorkloadDeltas[w][3] \in Int
  BY DEF WorkloadDeltas
<1>2. RecencyWeight \in Nat /\ AttentionWeight \in Nat /\ ReuseWeight \in Nat
  BY ConfigAssumption
<1>3. \A x \in Int : AtLeast(0, x) \in Nat
  BY DEF AtLeast
<1> HIDE DEF WorkloadDeltas
<1> QED BY <1>1, <1>2, <1>3 DEF Weights

(***************************************************************************)
(* The weighted mean of natural numbers is a natural number.               *)
(***************************************************************************)
LEMMA CompositeNat ==
  ASSUME NEW w, w[1] \in Nat, w[2] \in Nat, w[3] \in Nat,
         NEW r \in Nat, NEW a \in Nat, NEW u \in Nat
  PROVE  Composite(w, r, a, u) \in Nat
<1> DEFINE total == w[1] + w[2] + w[3]
           sum == w[1] * r + w[2] * a + w[3] * u
<1>1. w[1] * r \in Nat /\ w[2] * a \in Nat /\ w[3] * u \in Nat
  OBVIOUS
<1>2. total \in Nat /\ sum \in Nat
  BY <1>1
<1>3. Composite(w, r, a, u) = IF total > 0 THEN sum \div total ELSE 0
  BY DEF Composite
<1> HIDE DEF total, sum
<1> QED BY <1>2, <1>3, DivNat

(***************************************************************************)
(* The recency signal is clipped from below.                               *)
(***************************************************************************)
LEMMA RecencyNat ==
  ASSUME NEW b, b.last_access_step \in Nat, NEW now \in Nat
  PROVE  Recency(b, now) \in Nat
<1>1. AtLeast(now, 1) \in Nat \ {0}
  BY DEF AtLeast
<1>2. Unit * (now - b.last_access_step) \in Int
  BY DEF Unit
<1>3. (Unit * (now - b.last_access_step)) \div AtLeast(now, 1) \in Int
  BY <1>1, <1>2, DivBounds
<1> QED BY <1>3 DEF Recency, AtLeast, Unit

(***************************************************************************)
(* The heuristic scores are natural numbers, however stale the metrics.    *)
(***************************************************************************)
LEMMA HeuristicScoresType ==
  ASSUME NEW bs, BlockList(bs), NEW m, MetricsFit(m)
  PROVE  HeuristicScores(bs, m) \in [1..Len(bs) -> Nat]
<1>1. ASSUME NEW i \in 1..Len(bs)
      PROVE  ScoreBlock(bs[i], m) \in Nat
  <2>1. Ratio(bs[i].avg_attention_score, m.attn_max) \in Nat
    <3>1. bs[i].avg_attention_score \in Nat /\ m.attn_max \in Int
      BY DEF BlockList, MetricsFit
    <3> QED BY <3>1, RatioNat
  <2>2. Recency(bs[i], m.global_step) \in Nat
    BY RecencyNat DEF BlockList, MetricsFit
  <2>3. m.workload \in DOMAIN WorkloadDeltas
    BY DEF MetricsFit
  <2>4. /\ Weights(m.workload)[1] \in Nat /\ Weights(m.workload)[2] \in Nat
        /\ Weights(m.workload)[3] \in Nat
    BY <2>3, WeightsType
  <2>5. Unit \in Nat /\ 0 \in Nat
    BY DEF Unit
  <2> QED BY <2>1, <2>2, <2>4, <2>5, CompositeNat DEF ScoreBlock
<1> QED BY <1>1 DEF HeuristicScores, BlockList

(***************************************************************************)
(* Rescaled predictions are natural numbers, whatever the model predicts.  *)
(***************************************************************************)
LEMMA NormalisedType ==
  ASSUME NEW n \in Nat, NEW raw \in [1..n -> Int]
  PROVE  Normalised(raw) \in [1..n -> Nat]
<1> DEFINE lo == -HighestOf(Descending(raw), 0)
           hi == HighestOf(raw, 0)
<1>1. Descending(raw) \in [1..n -> Int] /\ \A i \in 1..n : Descending(raw)[i] = -raw[i]
  BY DescendingType
<1>2. ASSUME NEW i \in 1..n
      PROVE  lo \in Int /\ hi \in Int /\ raw[i] - lo \in Nat
  <2>0. n > 0
    OBVIOUS
  <2>1. HighestOf(Descending(raw), 0) \in Int /\ Descending(raw)[i] <= HighestOf(Descending(raw), 0)
    BY <1>1, <2>0, HighestOfType
  <2>2. HighestOf(raw, 0) \in Int
    BY <2>0, HighestOfType
  <2>3. raw[i] \in Int /\ Descending(raw)[i] = -raw[i]
    BY <1>1
  <2> QED BY <2>1, <2>2, <2>3
<1>3. Normalised(raw) = [i \in 1..n |-> IF hi > lo THEN Ratio(raw[i] - lo, hi - lo) ELSE Unit \div 2]
  BY DEF Normalised
<1> HIDE DEF lo, hi
<1>4. \A i \in 1..n : Ratio(raw[i] - lo, hi - lo) \in Nat
  <2> SUFFICES ASSUME NEW i \in 1..n PROVE Ratio(raw[i] - lo, hi - lo) \in Nat
    OBVIOUS
  <2>1. raw[i] - lo \in Nat /\ hi - lo \in Int
    BY <1>2
  <2> QED BY <2>1, RatioNat
<1>5. Unit \div 2 \in Nat
  BY DEF Unit
<1> QED BY <1>3, <1>4, <1>5

(***************************************************************************)
(* Whatever scores hybrid and learned use are natural numbers.             *)
(***************************************************************************)
LEMMA ScoresType ==
  ASSUME NEW bs, BlockList(bs), NEW m, MetricsFit(m), NEW model, ModelFits(model, bs)
  PROVE  /\ model.status # "absent" => ScoreBlocks(bs, model) \in [1..Len(bs) -> Nat]
         /\ HybridScores(bs, m, model) \in [1..Len(bs) -> Nat]
<1>1. Len(bs) \in Nat
  BY DEF BlockList
<1>2. model.status # "absent" => ScoreBlocks(bs, model) \in [1..Len(bs) -> Nat]
  BY <1>1, AttentionType, NormalisedType DEF ScoreBlocks, ModelFits
<1> QED BY <1>2, HeuristicScoresType DEF HybridScores

-----------------------------------------------------------------------------
\* The verdicts in the order of the list: offload_only sorts them afterwards,
\* every other policy returns them so.
OffloadRows(bs, m) ==
  IF ~OffloadEnabled \/ MemoryPressure(m) < MemoryPressureLow THEN KeepAll(bs)
  ELSE [i \in DOMAIN bs |->
          Verdict(bs[i], IF i \in Offloaded(bs) THEN "OFFLOAD_CPU" ELSE "KEEP_GPU",
                  RelativeAttention(bs)[i])]

RowsOf(policy, bs, m, model) ==
  IF policy = "offload_only" THEN OffloadRows(bs, m) ELSE Decide(policy, bs, m, model)

VerdictType == [block_id: Nat, decision: Decisions, score: Nat]

\* One row per block, with a decision and a score
IsRows(f, bs) ==
  /\ f \in [1..Len(bs) -> VerdictType]
  /\ \A i \in 1..Len(bs) : f[i].block_id = bs[i].block_id

(***************************************************************************)
(* Verdicts on the blocks of a list, in its order, are rows.               *)
(***************************************************************************)
LEMMA RowsFromVerdicts ==
  ASSUME NEW bs, BlockList(bs), NEW f, f = [i \in DOMAIN bs |-> f[i]],
         \A i \in DOMAIN bs : \E d \in Decisions, s \in Nat : f[i] = Verdict(bs[i], d, s)
  PROVE  IsRows(f, bs)
<1>1. ASSUME NEW i \in DOMAIN bs
      PROVE  f[i] \in VerdictType /\ f[i].block_id = bs[i].block_id
  <2>1. PICK d \in Decisions, s \in Nat : f[i] = Verdict(bs[i], d, s)
    OBVIOUS
  <2>2. bs[i].block_id \in Nat
    BY DEF BlockList
  <2> QED BY <2>1, <2>2 DEF Verdict, VerdictType
<1>2. DOMAIN bs = 1..Len(bs)
  BY DEF BlockList
<1>3. f \in [1..Len(bs) -> VerdictType]
  BY <1>1, <1>2
<1> QED BY <1>1, <1>2, <1>3 DEF IsRows

(***************************************************************************)
(* Keeping everything gives one row per block.                             *)
(***************************************************************************)
LEMMA KeepAllRows ==
  ASSUME NEW bs, BlockList(bs)
  PROVE  IsRows(KeepAll(bs), bs)
<1>1. "KEEP_GPU" \in Decisions /\ Unit \in Nat
  BY DEF Decisions, Unit
<1>2. \A i \in DOMAIN bs : KeepAll(bs)[i] = Verdict(bs[i], "KEEP_GPU", Unit)
  BY DEF KeepAll
<1>3. KeepAll(bs) = [i \in DOMAIN bs |-> KeepAll(bs)[i]]
  BY DEF KeepAll
<1> QED BY <1>1, <1>2, <1>3, RowsFromVerdicts

(***************************************************************************)
(* full_cache gives one row per block.                                     *)
(***************************************************************************)
LEMMA FullCacheRows ==
  ASSUME NEW bs, BlockList(bs), NEW m
  PROVE  IsRows(FullCache(bs, m), bs)
<1> DEFINE out == FirstOf(ByAccess(bs), AtLeast(1, Share(Len(bs), 100)))
           f == [i \in DOMAIN bs |-> IF i \in out THEN Verdict(bs[i], "EVICT", 0)
                                                 ELSE Verdict(bs[i], "KEEP_GPU", Unit)]
<1>1. FullCache(bs, m) = IF MemoryPressure(m) < MemoryPressureHigh THEN KeepAll(bs) ELSE f
  BY DEF FullCache
<1>2. {"KEEP_GPU", "EVICT"} \subseteq Decisions /\ {0, Unit} \subseteq Nat
  BY DEF Decisions, Unit
<1> HIDE DEF out
<1>3. IsRows(f, bs)
  BY <1>2, RowsFromVerdicts
<1> QED BY <1>1, <1>3, KeepAllRows

(***************************************************************************)
(* sliding_window gives one row per block.                                 *)
(***************************************************************************)
LEMMA SlidingWindowRows ==
  ASSUME NEW bs, BlockList(bs), NEW m
  PROVE  IsRows(SlidingWindow(bs, m), bs)
<1> DEFINE kept == Sinks(bs) \union LastOf(ById(bs), SlidingWindowBlocks)
           f == [i \in DOMAIN bs |-> IF i \in kept THEN Verdict(bs[i], "KEEP_GPU", Unit)
                                                  ELSE Verdict(bs[i], "EVICT", 0)]
<1>1. SlidingWindow(bs, m) = IF MemoryPressure(m) < MemoryPressureLow THEN KeepAll(bs) ELSE f
  BY DEF SlidingWindow
<1>2. {"KEEP_GPU", "EVICT"} \subseteq Decisions /\ {0, Unit} \subseteq Nat
  BY DEF Decisions, Unit
<1> HIDE DEF kept
<1>3. IsRows(f, bs)
  BY <1>2, RowsFromVerdicts
<1> QED BY <1>1, <1>3, KeepAllRows

(***************************************************************************)
(* h2o gives one row per block.                                            *)
(***************************************************************************)
LEMMA H2ORows ==
  ASSUME NEW bs, BlockList(bs), NEW m
  PROVE  IsRows(H2O(bs, m), bs)
<1> DEFINE kept == Sinks(bs) \union HeavyHitters(ByAttention(bs))
           d(i) == IF i \in kept THEN "KEEP_GPU" ELSE "EVICT"
           f == [i \in DOMAIN bs |-> Verdict(bs[i], d(i), bs[i].avg_attention_score)]
<1>1. H2O(bs, m) = IF MemoryPressure(m) < MemoryPressureLow THEN KeepAll(bs) ELSE f
  BY DEF H2O
<1>2. \A i : d(i) \in Decisions
  BY DEF Decisions
<1>3. \A i \in DOMAIN bs : bs[i].avg_attention_score \in Nat
  BY DEF BlockList
<1> HIDE DEF d
<1>4. IsRows(f, bs)
  BY <1>2, <1>3, RowsFromVerdicts
<1> QED BY <1>1, <1>4, KeepAllRows

(***************************************************************************)
(* prefix_caching gives one row per block.                                 *)
(***************************************************************************)
LEMMA PrefixCachingRows ==
  ASSUME NEW bs, BlockList(bs), NEW m
  PROVE  IsRows(PrefixCaching(bs, m), bs)
<1> DEFINE s == PrefixScores(bs)
           d(i) == IF ~bs[i].prefix_reuse_flag /\ s[i] < PrefixCut(MemoryPressure(m))
                   THEN "EVICT" ELSE "KEEP_GPU"
           f == [i \in DOMAIN bs |-> Verdict(bs[i], d(i), s[i])]
<1>1. PrefixCaching(bs, m) = IF MemoryPressure(m) < MemoryPressureLow THEN KeepAll(bs) ELSE f
  BY DEF PrefixCaching
<1>2. \A i : d(i) \in Decisions
  BY DEF Decisions
<1>3. \A i \in DOMAIN bs : s[i] \in Nat
  BY AttentionType DEF BlockList
<1> HIDE DEF d, s
<1>4. IsRows(f, bs)
  BY <1>2, <1>3, RowsFromVerdicts
<1> QED BY <1>1, <1>4, KeepAllRows

(***************************************************************************)
(* quantize_only gives one row per block.                                  *)
(***************************************************************************)
LEMMA QuantizeOnlyRows ==
  ASSUME NEW bs, BlockList(bs), NEW m
  PROVE  IsRows(QuantizeOnly(bs, m), bs)
<1> DEFINE s == RelativeAttention(bs)
           settled == Sinks(bs) \union {i \in DOMAIN bs : bs[i].current_tier = "GPU_QUANTIZED"}
           d(i) == IF s[i] < QuantizationMinImportance THEN "QUANTIZE" ELSE "KEEP_GPU"
           f == [i \in DOMAIN bs |-> IF i \in settled THEN Verdict(bs[i], "KEEP_GPU", Unit)
                                                     ELSE Verdict(bs[i], d(i), s[i])]
<1>1. QuantizeOnly(bs, m) = IF ~QuantizationEnabled \/ MemoryPressure(m) < MemoryPressureLow
                            THEN KeepAll(bs) ELSE f
  BY DEF QuantizeOnly
<1>2. "KEEP_GPU" \in Decisions /\ Unit \in Nat /\ \A i : d(i) \in Decisions
  BY DEF Decisions, Unit
<1>3. \A i \in DOMAIN bs : s[i] \in Nat
  BY AttentionType DEF BlockList
<1> HIDE DEF d, s, settled
<1>4. IsRows(f, bs)
  BY <1>2, <1>3, RowsFromVerdicts
<1> QED BY <1>1, <1>4, KeepAllRows

(***************************************************************************)
(* offload_only, before it sorts, gives one row per block.                 *)
(***************************************************************************)
LEMMA OffloadRowsRows ==
  ASSUME NEW bs, BlockList(bs), NEW m
  PROVE  IsRows(OffloadRows(bs, m), bs)
<1> DEFINE d(i) == IF i \in Offloaded(bs) THEN "OFFLOAD_CPU" ELSE "KEEP_GPU"
           s == RelativeAttention(bs)
           f == [i \in DOMAIN bs |-> Verdict(bs[i], d(i), s[i])]
<1>1. OffloadRows(bs, m) = IF ~OffloadEnabled \/ MemoryPressure(m) < MemoryPressureLow
                           THEN KeepAll(bs) ELSE f
  BY DEF OffloadRows
<1>2. \A i : d(i) \in Decisions
  BY DEF Decisions
<1>3. \A i \in DOMAIN bs : s[i] \in Nat
  BY AttentionType DEF BlockList
<1> HIDE DEF d, s
<1>4. IsRows(f, bs)
  BY <1>2, <1>3, RowsFromVerdicts
<1> QED BY <1>1, <1>4, KeepAllRows

(***************************************************************************)
(* hybrid gives one row per block.                                         *)
(***************************************************************************)
LEMMA HybridRows ==
  ASSUME NEW bs, BlockList(bs), NEW m, NEW s \in [1..Len(bs) -> Nat]
  PROVE  IsRows(Hybrid(bs, m, s), bs)
<1>1. /\ \A x : ByScore(x) \in Decisions /\ AggressiveByScore(x) \in Decisions
      /\ "KEEP_GPU" \in Decisions /\ Unit \in Nat
  BY DEF Decisions, Unit, ByScore, AggressiveByScore
<1>2. \A i \in DOMAIN bs : s[i] \in Nat
  BY DEF BlockList
<1>3. IsRows(MediumPressure(bs, s), bs)
  <2>1. MediumPressure(bs, s) = [i \in DOMAIN bs |-> MediumPressure(bs, s)[i]]
    BY DEF MediumPressure
  <2>2. \A i \in DOMAIN bs :
          MediumPressure(bs, s)[i] = IF i \in Sinks(bs) THEN Verdict(bs[i], "KEEP_GPU", Unit)
                                     ELSE Verdict(bs[i], ByScore(s[i]), s[i])
    BY DEF MediumPressure
  <2> QED BY <1>1, <1>2, <2>1, <2>2, RowsFromVerdicts
<1>4. IsRows(HighPressure(bs, s), bs)
  <2> DEFINE d(i) == IF i \in Sinks(bs) \union HeavyHitters(s) THEN "KEEP_GPU"
                     ELSE AggressiveByScore(s[i])
  <2>1. HighPressure(bs, s) = [i \in DOMAIN bs |-> HighPressure(bs, s)[i]]
    BY DEF HighPressure
  <2>2. \A i \in DOMAIN bs : HighPressure(bs, s)[i] = Verdict(bs[i], d(i), s[i])
    BY DEF HighPressure
  <2>3. \A i : d(i) \in Decisions
    BY <1>1
  <2> HIDE DEF d
  <2> QED BY <1>2, <2>1, <2>2, <2>3, RowsFromVerdicts
<1> QED BY <1>3, <1>4, KeepAllRows DEF Hybrid

(***************************************************************************)
(* learned gives one row per block.                                        *)
(***************************************************************************)
LEMMA LearnedRows ==
  ASSUME NEW bs, BlockList(bs), NEW m, NEW model, ModelFits(model, bs)
  PROVE  IsRows(Learned(bs, m, model), bs)
<1> DEFINE s == ScoreBlocks(bs, model)
           f == [i \in DOMAIN bs |->
                   IF i \in Sinks(bs) THEN Verdict(bs[i], "KEEP_GPU", Unit)
                                      ELSE Verdict(bs[i], ScoreToDecision(s[i]), s[i])]
<1>1. Learned(bs, m, model) =
        IF model.status = "absent" THEN H2O(bs, m)
        ELSE IF MemoryPressure(m) < MemoryPressureLow THEN KeepAll(bs) ELSE f
  BY DEF Learned
<1>2. \A x : ScoreToDecision(x) \in Decisions
  BY DEF Decisions, ScoreToDecision
<1>3. "KEEP_GPU" \in Decisions /\ Unit \in Nat
  BY DEF Decisions, Unit
<1>4. ASSUME model.status # "absent" PROVE IsRows(f, bs)
  <2>1. Len(bs) \in Nat
    BY DEF BlockList
  <2>2. s \in [1..Len(bs) -> Nat]
    BY <1>4, <2>1, AttentionType, NormalisedType DEF ScoreBlocks, ModelFits
  <2>3. \A i \in DOMAIN bs : s[i] \in Nat
    BY <2>2 DEF BlockList
  <2> HIDE DEF s
  <2> QED BY <1>2, <1>3, <2>3, RowsFromVerdicts
<1> HIDE DEF f
<1> QED BY <1>1, <1>4, H2ORows, KeepAllRows

(***************************************************************************)
(* Every policy gives one row per block, with a decision and a natural     *)
(* score.                                                                  *)
(***************************************************************************)
LEMMA RowsType ==
  ASSUME NEW bs, BlockList(bs), NEW m, MetricsFit(m), NEW model, ModelFits(model, bs),
         NEW policy \in PolicyNames
  PROVE  IsRows(RowsOf(policy, bs, m, model), bs)
<1>1. CASE policy = "offload_only"
  BY <1>1, OffloadRowsRows DEF RowsOf
<1>2. CASE policy = "full_cache"
  BY <1>2, FullCacheRows DEF RowsOf, Decide
<1>3. CASE policy = "sliding_window"
  BY <1>3, SlidingWindowRows DEF RowsOf, Decide
<1>4. CASE policy = "h2o"
  BY <1>4, H2ORows DEF RowsOf, Decide
<1>5. CASE policy = "prefix_caching"
  BY <1>5, PrefixCachingRows DEF RowsOf, Decide
<1>6. CASE policy = "quantize_only"
  BY <1>6, QuantizeOnlyRows DEF RowsOf, Decide
<1>7. CASE policy = "hybrid"
  <2>1. HybridScores(bs, m, model) \in [1..Len(bs) -> Nat]
    BY ScoresType
  <2>2. RowsOf(policy, bs, m, model) = Hybrid(bs, m, HybridScores(bs, m, model))
    BY <1>7 DEF RowsOf, Decide
  <2> QED BY <2>1, <2>2, HybridRows
<1>8. CASE policy = "learned"
  BY <1>8, LearnedRows DEF RowsOf, Decide
<1> QED BY <1>1, <1>2, <1>3, <1>4, <1>5, <1>6, <1>7, <1>8 DEF PolicyNames

\* Where each row comes out: a permutation of the rows
IsPlacing(place, n) == /\ place \in [1..n -> 1..n]
                       /\ \A k \in 1..n : \E i \in 1..n : place[i] = k

(***************************************************************************)
(* decide() returns these rows, each in one place of the result, and       *)
(* nothing else.                                                           *)
(***************************************************************************)
LEMMA DecidePlacesRows ==
  ASSUME NEW bs, BlockList(bs), NEW m, MetricsFit(m), NEW model, ModelFits(model, bs),
         NEW policy \in PolicyNames
  PROVE  /\ Decide(policy, bs, m, model) \in [1..Len(bs) -> VerdictType]
         /\ \E place : /\ IsPlacing(place, Len(bs))
                       /\ \A i \in 1..Len(bs) : Decide(policy, bs, m, model)[place[i]]
                                                  = RowsOf(policy, bs, m, model)[i]
<1> DEFINE n == Len(bs)
           id == [i \in 1..n |-> i]
<1>0. n \in Nat /\ DOMAIN bs = 1..n
  BY DEF BlockList
<1>1. IsPlacing(id, n) /\ \A i \in 1..n : id[i] = i
  BY DEF IsPlacing
<1>2. IsRows(RowsOf(policy, bs, m, model), bs)
  BY RowsType
<1>3. CASE Decide(policy, bs, m, model) = RowsOf(policy, bs, m, model)
  BY <1>1, <1>2, <1>3 DEF IsRows
<1>4. CASE Decide(policy, bs, m, model) # RowsOf(policy, bs, m, model)
  <2> DEFINE s == RelativeAttention(bs)
             row == [i \in DOMAIN bs |->
                       Verdict(bs[i], IF i \in Offloaded(bs) THEN "OFFLOAD_CPU" ELSE "KEEP_GPU",
                               s[i])]
             place == [i \in 1..n |-> Rank(s, i) + 1]
  <2>1. policy = "offload_only"
    BY <1>4 DEF RowsOf
  <2>2. Decide(policy, bs, m, model) = OffloadOnly(bs, m)
        /\ RowsOf(policy, bs, m, model) = OffloadRows(bs, m)
    BY <2>1 DEF RowsOf, Decide
  <2>3. /\ Decide(policy, bs, m, model) = InOrder(s, row)
        /\ RowsOf(policy, bs, m, model) = row
    BY <1>4, <2>2 DEF OffloadOnly, OffloadRows
  <2>4. s \in [1..n -> Int] /\ DOMAIN row = 1..n
    BY <1>0, AttentionType
  <2> HIDE DEF s, row, n
  <2>5. /\ DOMAIN InOrder(s, row) = 1..n
        /\ \A i \in 1..n : Rank(s, i) + 1 \in 1..n /\ InOrder(s, row)[Rank(s, i) + 1] = row[i]
        /\ \A k \in 1..n : \E i \in 1..n : k = Rank(s, i) + 1
    <3>1. n \in Nat
      BY <1>0
    <3> QED BY <2>4, <3>1, InOrderLemma, Zenon
  <2>6. IsPlacing(place, n)
    BY <2>5 DEF IsPlacing
  <2>7. \A i \in 1..n : place[i] = Rank(s, i) + 1
    OBVIOUS
  <2> HIDE DEF place
  <2>8. \A i \in 1..n : InOrder(s, row)[place[i]] = row[i]
    BY <2>5, <2>7
  <2>9. InOrder(s, row) \in [1..n -> VerdictType]
    <3>1. InOrder(s, row) = [k \in 1..n |-> InOrder(s, row)[k]]
      BY <2>4 DEF InOrder
    <3>2. row \in [1..n -> VerdictType]
      BY <1>2, <2>3 DEF IsRows, n
    <3>3. \A k \in 1..n : InOrder(s, row)[k] \in VerdictType
      BY <2>5, <3>2
    <3> QED BY <3>1, <3>3
  <2> QED BY <2>3, <2>6, <2>8, <2>9 DEF n
<1> QED BY <1>3, <1>4

-----------------------------------------------------------------------------
(***************************************************************************)
(* sorted(...)[:k] has k rows, or all there are.                           *)
(***************************************************************************)
LEMMA FirstOfCardinality ==
  ASSUME NEW n \in Nat, NEW key \in [1..n -> Int], NEW k \in Nat
  PROVE  /\ IsFiniteSet(FirstOf(key, k))
         /\ Cardinality(FirstOf(key, k)) = IF k < n THEN k ELSE n
<1> DEFINE hi == (IF k < n THEN k ELSE n) - 1
           S == {i \in 1..n : Rank(key, i) \in 0..hi}
<1>1. hi \in Int /\ hi < n /\ 0 \in Nat
  OBVIOUS
<1>2. IsFiniteSet(S) /\ Cardinality(S) = IF 0 > hi THEN 0 ELSE hi - 0 + 1
  BY <1>1, RanksBetween
<1>3. FirstOf(key, k) = S
  <2>1. \A i \in 1..n : Rank(key, i) \in 0..(n - 1)
    BY RankType
  <2>2. \A i \in 1..n : Rank(key, i) < k <=> Rank(key, i) \in 0..hi
    BY <2>1
  <2> HIDE DEF hi
  <2> QED BY <2>2 DEF FirstOf
<1> HIDE DEF S
<1> QED BY <1>2, <1>3

(***************************************************************************)
(* sorted(...)[-k:] are the rows of the k highest ranks.                   *)
(***************************************************************************)
LEMMA LastOfRanks ==
  ASSUME NEW n \in Nat, NEW key \in [1..n -> Int], NEW k \in Nat
  PROVE  LastOf(key, k) = {i \in 1..n : Rank(key, i) >= n - k}
<1>1. DOMAIN key = 1..n /\ Cardinality(1..n) = n
  BY FS_Interval
<1> QED BY <1>1 DEF LastOf

(***************************************************************************)
(* Whatever has a smaller key than one of the first k is one of them.      *)
(***************************************************************************)
LEMMA FirstOfClosed ==
  ASSUME NEW n \in Nat, NEW key \in [1..n -> Int], NEW k \in Nat,
         NEW i \in 1..n, NEW j \in FirstOf(key, k), key[i] < key[j]
  PROVE  i \in FirstOf(key, k)
<1>1. j \in 1..n /\ Rank(key, j) < k
  BY DEF FirstOf
<1>2. Before(key, i, j)
  BY DEF Before
<1>3. Rank(key, i) < Rank(key, j)
  BY <1>1, <1>2, RankOrdered
<1>4. Rank(key, i) \in 0..(n - 1) /\ Rank(key, j) \in 0..(n - 1)
  BY <1>1, RankType
<1>5. Rank(key, i) < k
  BY <1>1, <1>3, <1>4
<1> QED BY <1>5 DEF FirstOf

(***************************************************************************)
(* A fraction of a number of blocks is a number of them.                   *)
(***************************************************************************)
LEMMA ShareBounded ==
  ASSUME NEW n \in Nat, NEW f \in Nat, f <= Unit
  PROVE  Share(n, f) \in Nat /\ Share(n, f) <= n
<1>1. n * f \in Nat /\ n * f <= n * Unit /\ Unit \in Nat \ {0}
  BY DEF Unit
<1>2. Share(n, f) \in Nat /\ Unit * Share(n, f) <= n * f
  BY <1>1, DivNat, DivBounds DEF Share
<1> QED BY <1>1, <1>2 DEF Unit

(***************************************************************************)
(* The heavy hitters are the given share of the places, one at least and   *)
(* all at most.                                                            *)
(***************************************************************************)
LEMMA HeavyHittersShare ==
  ASSUME NEW n \in Nat, NEW key \in [1..n -> Int]
  PROVE  LET k == AtLeast(1, Share(n, HeavyHitterFraction))
         IN  /\ k \in Nat
             /\ HeavyHitters(key) = FirstOf(Descending(key), k)
             /\ IsFiniteSet(HeavyHitters(key))
             /\ Cardinality(HeavyHitters(key)) = IF k < n THEN k ELSE n
<1> DEFINE k == AtLeast(1, Share(n, HeavyHitterFraction))
<1>1. DOMAIN key = 1..n /\ Cardinality(1..n) = n
  BY FS_Interval
<1>2. HeavyHitters(key) = FirstOf(Descending(key), k)
  BY <1>1 DEF HeavyHitters
<1>3. k \in Nat
  <2>1. n * HeavyHitterFraction \in Nat /\ Unit \in Nat \ {0}
    BY ConfigAssumption DEF Unit
  <2>2. Share(n, HeavyHitterFraction) \in Nat
    BY <2>1, DivNat DEF Share
  <2> QED BY <2>2 DEF AtLeast
<1>4. Descending(key) \in [1..n -> Int]
  BY DescendingType
<1> HIDE DEF k
<1>5. /\ IsFiniteSet(FirstOf(Descending(key), k))
      /\ Cardinality(FirstOf(Descending(key), k)) = IF k < n THEN k ELSE n
  BY <1>3, <1>4, FirstOfCardinality
<1> QED BY <1>2, <1>3, <1>5 DEF k

(***************************************************************************)
(* A place with a higher key than a heavy hitter is one.                   *)
(***************************************************************************)
LEMMA HeavyHittersClosed ==
  ASSUME NEW n \in Nat, NEW key \in [1..n -> Int],
         NEW i \in 1..n, NEW j \in HeavyHitters(key), key[j] < key[i]
  PROVE  i \in HeavyHitters(key)
<1> DEFINE k == AtLeast(1, Share(n, HeavyHitterFraction))
<1>1. k \in Nat /\ HeavyHitters(key) = FirstOf(Descending(key), k)
  BY HeavyHittersShare
<1>2. /\ Descending(key) \in [1..n -> Int]
      /\ \A x \in 1..n : Descending(key)[x] = -key[x] /\ key[x] \in Int
  BY DescendingType
<1>3. j \in 1..n /\ j \in FirstOf(Descending(key), k)
  BY <1>1, <1>2 DEF FirstOf
<1>4. Descending(key)[i] < Descending(key)[j]
  BY <1>2, <1>3
<1> HIDE DEF k
<1>5. i \in FirstOf(Descending(key), k)
  BY <1>1, <1>2, <1>3, <1>4, FirstOfClosed
<1> QED BY <1>1, <1>5

(***************************************************************************)
(* Ratios with the same divisor are ordered as their numerators.           *)
(***************************************************************************)
LEMMA RatioMonotone ==
  ASSUME NEW a \in Int, NEW c \in Int, NEW b \in Int, a <= c
  PROVE  Ratio(a, b) <= Ratio(c, b)
<1>1. Unit * a \in Int /\ Unit * c \in Int /\ Unit * a <= Unit * c
  BY DEF Unit
<1> QED BY <1>1, DivMono DEF Ratio

(***************************************************************************)
(* A divisor of one unit at most loses no difference to rounding.          *)
(***************************************************************************)
LEMMA RatioStrict ==
  ASSUME NEW a \in Int, NEW c \in Int, NEW b \in Int, 0 < b, b <= Unit, a < c
  PROVE  Ratio(a, b) < Ratio(c, b)
<1>1. Unit * a \in Int /\ Unit * c \in Int /\ Unit * a + b <= Unit * c
  BY DEF Unit
<1> QED BY <1>1, DivStrict DEF Ratio

(***************************************************************************)
(* The recency signal never falls with a later access.                     *)
(***************************************************************************)
LEMMA RecencyMonotone ==
  ASSUME NEW b, b.last_access_step \in Nat, NEW c, c.last_access_step \in Nat,
         b.last_access_step <= c.last_access_step, NEW now \in Nat
  PROVE  Recency(b, now) <= Recency(c, now)
<1> DEFINE d == AtLeast(now, 1)
           x == Unit * (now - b.last_access_step)
           y == Unit * (now - c.last_access_step)
<1>1. d \in Nat \ {0}
  BY DEF AtLeast
<1>2. x \in Int /\ y \in Int /\ y <= x
  BY DEF Unit
<1>3. /\ Recency(b, now) = AtLeast(0, Unit - x \div d)
      /\ Recency(c, now) = AtLeast(0, Unit - y \div d)
  BY DEF Recency
<1> HIDE DEF d, x, y
<1>4. x \div d \in Int /\ y \div d \in Int /\ y \div d <= x \div d
  BY <1>1, <1>2, DivMono, DivBounds
<1> QED BY <1>3, <1>4 DEF AtLeast, Unit

(***************************************************************************)
(* The weighted mean never falls when its recency signal rises.            *)
(***************************************************************************)
LEMMA CompositeMonotone ==
  ASSUME NEW w, w[1] \in Nat, w[2] \in Nat, w[3] \in Nat,
         NEW r \in Nat, NEW q \in Nat, r <= q, NEW a \in Nat, NEW u \in Nat
  PROVE  Composite(w, r, a, u) <= Composite(w, q, a, u)
<1> DEFINE total == w[1] + w[2] + w[3]
           x == w[1] * r + w[2] * a + w[3] * u
           y == w[1] * q + w[2] * a + w[3] * u
<1>1. /\ w[1] * r \in Nat /\ w[1] * q \in Nat /\ w[2] * a \in Nat /\ w[3] * u \in Nat
      /\ w[1] * r <= w[1] * q
  OBVIOUS
<1>2. total \in Nat /\ x \in Nat /\ y \in Nat /\ x <= y
  BY <1>1
<1>3. /\ Composite(w, r, a, u) = IF total > 0 THEN x \div total ELSE 0
      /\ Composite(w, q, a, u) = IF total > 0 THEN y \div total ELSE 0
  BY DEF Composite
<1> HIDE DEF total, x, y
<1> QED BY <1>2, <1>3, DivMono
=============================================================================
