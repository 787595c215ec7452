------------------------------ MODULE DataFacts ------------------------------
(***************************************************************************)
(* Facts about sets of numbers, sequences and maps that the proofs about    *)
(* more than one module need.                                               *)
(***************************************************************************)
EXTENDS Naturals, FiniteSetsExt, Maps, FiniteSetTheorems, SequenceTheorems,
        WellFoundedInduction, TLAPS

-----------------------------------------------------------------------------
(* Sets of numbers *)

(* Every nonempty set of numbers has a least element, ...                   *)
LEMMA LeastElement ==
    ASSUME NEW S \in SUBSET Nat, S # {}
    PROVE  \E m \in S : \A x \in S : m <= x
<1> DEFINE Less == {ss \in Nat \X Nat : ss[1] < ss[2]}
<1>1. IsWellFoundedOn(Less, Nat)
  BY NatLessThanWellFounded, Zenon DEF OpToRel
<1> HIDE DEF Less
<1>2. PICK m \in S : \A x \in S : ~(<<x, m>> \in Less)
  BY <1>1, WFMin
<1>3. \A x \in S : ~(x < m)
  BY <1>2 DEF Less
<1>4. \A x \in S : m <= x
  BY <1>3
<1> QED
  BY <1>4

(* ... which is its minimum.                                                *)
LEMMA MinFacts ==
    ASSUME NEW S \in SUBSET Nat, S # {}
    PROVE  Min(S) \in S /\ \A x \in S : Min(S) <= x
<1>1. \E m \in S : \A x \in S : m =< x
  BY LeastElement
<1> QED
  BY <1>1 DEF Min

(* A nonempty bounded set of numbers has a largest element.                 *)
LEMMA MaxFacts ==
    ASSUME NEW S \in SUBSET Nat, S # {}, NEW n \in Nat, \A x \in S : x <= n
    PROVE  Max(S) \in S /\ \A x \in S : x <= Max(S)
<1> DEFINE T == {n - x : x \in S}
<1>1. T \subseteq Nat /\ T # {}
  <2>1. \A x \in S : x \in Nat /\ n - x \in Nat
    OBVIOUS
  <2> QED
    BY <2>1
<1> HIDE DEF T
<1>2. PICK m \in T : \A y \in T : m <= y
  BY <1>1, LeastElement
<1>3. PICK x \in S : m = n - x
  BY DEF T
<1>4. \A y \in S : n - y \in T
  BY DEF T
<1>5. \A y \in S : x >= y
  BY <1>2, <1>3, <1>4
<1>6. \E z \in S : \A y \in S : z >= y
  BY <1>5
<1>7. Max(S) \in S /\ \A y \in S : Max(S) >= y
  BY <1>6 DEF Max
<1> QED
  BY <1>7

(* The largest element is the maximum.                                      *)
LEMMA MaxIs ==
    ASSUME NEW S \in SUBSET Nat, NEW m \in S, \A x \in S : x <= m
    PROVE  Max(S) = m
<1>1. \E z \in S : \A y \in S : z >= y
  OBVIOUS
<1>2. Max(S) \in S /\ \A y \in S : Max(S) >= y
  BY <1>1 DEF Max
<1>3. m \in Nat /\ Max(S) \in Nat /\ Max(S) >= m /\ Max(S) <= m
  BY <1>2
<1> QED
  BY <1>3

(* A finite set of numbers is bounded.  Of the sets that were not, one with *)
(* the fewest elements would stay unbounded without any one of them.        *)
LEMMA FiniteIsBounded ==
    ASSUME NEW S \in SUBSET Nat, IsFiniteSet(S)
    PROVE  \E n \in Nat : \A x \in S : x <= n
<1> DEFINE Bounded(T) == \E n \in Nat : \A x \in T : x <= n
           Sizes == {n \in Nat : \E T \in SUBSET S : Cardinality(T) = n /\ ~Bounded(T)}
<1> SUFFICES ASSUME Sizes # {} PROVE FALSE
  <2>1. Cardinality(S) \in Nat
    BY FS_CardinalityType
  <2> QED
    BY <2>1
<1>1. PICK n \in Sizes : \A m \in Sizes : n <= m
  BY LeastElement
<1>2. PICK T \in SUBSET S : Cardinality(T) = n /\ ~Bounded(T)
  OBVIOUS
<1>3. PICK x \in T : x \in Nat
  <2>1. 0 \in Nat
    OBVIOUS
  <2> QED
    BY <1>2, <2>1
<1>4. /\ T \ {x} \in SUBSET S
      /\ Cardinality(T \ {x}) = n - 1 /\ Cardinality(T \ {x}) \in Nat
  <2>1. IsFiniteSet(T)
    BY FS_Subset
  <2>2. IsFiniteSet(T \ {x}) /\ Cardinality(T \ {x}) = Cardinality(T) - 1
    BY <2>1, FS_RemoveElement
  <2> QED
    BY <1>2, <2>2, FS_CardinalityType
<1>5. Bounded(T \ {x})
  <2> SUFFICES ASSUME ~Bounded(T \ {x}) PROVE FALSE
    OBVIOUS
  <2>1. n - 1 \in Sizes
    BY <1>4
  <2> QED
    BY <1>1, <1>4, <2>1
<1>6. PICK m \in Nat : \A y \in T \ {x} : y <= m
  BY <1>5
<1>7. \A y \in T : y <= m + x /\ m + x \in Nat
  <2> TAKE y \in T
  <2>1. y \in Nat
    OBVIOUS
  <2> QED
    BY <1>3, <1>6, <2>1
<1> QED
  BY <1>2, <1>3, <1>6, <1>7

(* An order on a finite set ranks its elements: how many come before.       *)
LEMMA OrderRanks ==
    ASSUME NEW S, IsFiniteSet(S), NEW R,
           \A k \in S : <<k, k>> \notin R,
           \A i, j, k \in S : <<i, j>> \in R /\ <<j, k>> \in R => <<i, k>> \in R,
           \A j, k \in S : j = k \/ <<j, k>> \in R \/ <<k, j>> \in R
    PROVE  LET rank(k) == Cardinality({j \in S : <<j, k>> \in R})
           IN  /\ \A k \in S : rank(k) \in Nat /\ rank(k) < Cardinality(S)
               /\ \A j, k \in S : rank(j) = rank(k) => j = k
<1> DEFINE below(k) == {j \in S : <<j, k>> \in R}
           rank(k) == Cardinality(below(k))
<1>1. \A k \in S : IsFiniteSet(below(k)) /\ rank(k) \in Nat
  <2> TAKE k \in S
  <2>1. below(k) \in SUBSET S
    OBVIOUS
  <2>2. IsFiniteSet(below(k))
    BY <2>1, FS_Subset
  <2> QED
    BY <2>2, FS_CardinalityType
<1>2. ASSUME NEW j \in S, NEW T \in SUBSET S, below(j) \cup {j} \subseteq T
      PROVE  rank(j) < Cardinality(T)
  <2>1. IsFiniteSet(T) /\ Cardinality(T) \in Nat
    BY FS_Subset, FS_CardinalityType
  <2>2. j \notin below(j)
    OBVIOUS
  <2>3. Cardinality(below(j) \cup {j}) = rank(j) + 1
    BY <1>1, <2>2, FS_AddElement
  <2>4. Cardinality(below(j) \cup {j}) <= Cardinality(T)
    BY <1>2, <2>1, FS_Subset
  <2> QED
    BY <1>1, <2>1, <2>3, <2>4
<1>3. \A k \in S : rank(k) < Cardinality(S)
  BY <1>2
<1>4. ASSUME NEW j \in S, NEW k \in S, <<j, k>> \in R
      PROVE  rank(j) < rank(k)
  <2>1. \A i \in S : <<i, j>> \in R => <<i, k>> \in R
    BY <1>4
  <2>2. below(j) \cup {j} \subseteq below(k) /\ below(k) \in SUBSET S
    BY <1>4, <2>1
  <2> QED
    BY <1>2, <2>2
<1>5. ASSUME NEW j \in S, NEW k \in S, rank(j) = rank(k)
      PROVE  j = k
  <2>1. j = k \/ <<j, k>> \in R \/ <<k, j>> \in R
    OBVIOUS
  <2>2. rank(j) \in Nat /\ rank(k) \in Nat
    BY <1>1
  <2> HIDE DEF rank
  <2> QED
    BY <1>4, <1>5, <2>1, <2>2
<1> QED
  BY <1>1, <1>3, <1>5

(* A set of numbers does: how many are smaller.                             *)
LEMMA RankFacts ==
    ASSUME NEW S \in SUBSET Nat, IsFiniteSet(S)
    PROVE  LET rank(k) == Cardinality({j \in S : j < k})
           IN  /\ \A k \in S : rank(k) \in Nat /\ rank(k) < Cardinality(S)
               /\ \A j, k \in S : rank(j) = rank(k) => j = k
<1> DEFINE Less == {p \in Nat \X Nat : p[1] < p[2]}
<1>1. \A j, k \in S : <<j, k>> \in Less <=> j < k
  OBVIOUS
<1> HIDE DEF Less
<1>2. \A k \in S : {j \in S : j < k} = {j \in S : <<j, k>> \in Less}
  BY <1>1
<1>3. /\ \A k \in S : <<k, k>> \notin Less
      /\ \A i, j, k \in S : <<i, j>> \in Less /\ <<j, k>> \in Less => <<i, k>> \in Less
      /\ \A j, k \in S : j = k \/ <<j, k>> \in Less \/ <<k, j>> \in Less
  BY <1>1
<1>4. LET rank(k) == Cardinality({j \in S : <<j, k>> \in Less})
      IN  /\ \A k \in S : rank(k) \in Nat /\ rank(k) < Cardinality(S)
          /\ \A j, k \in S : rank(j) = rank(k) => j = k
  BY <1>3, OrderRanks
<1> QED
  BY <1>2, <1>4

-----------------------------------------------------------------------------
(* Sequences *)

(* One more element, and the length by a name of its own.                   *)
LEMMA AppendFacts ==
    ASSUME NEW S, NEW s \in Seq(S), NEW n \in Nat, Len(s) = n, NEW e \in S
    PROVE  /\ Append(s, e) \in Seq(S) /\ Len(Append(s, e)) = n + 1
           /\ Append(s, e) \in [1 .. n + 1 -> S]
           /\ Append(s, e)[n + 1] = e
           /\ \A i \in 1 .. n : Append(s, e)[i] = s[i]
<1> DEFINE longer == Append(s, e)
<1>1. /\ longer \in Seq(S) /\ Len(longer) = Len(s) + 1
      /\ longer[Len(s) + 1] = e
      /\ \A i \in 1 .. Len(s) : longer[i] = s[i]
  BY AppendProperties
<1> HIDE DEF longer
<1>2. longer \in [1 .. Len(longer) -> S]
  BY <1>1, LenProperties
<1>3. /\ longer \in Seq(S) /\ Len(longer) = n + 1
      /\ longer \in [1 .. n + 1 -> S] /\ longer[n + 1] = e
      /\ \A i \in 1 .. n : longer[i] = s[i]
  BY <1>1, <1>2
<1> QED
  BY <1>3 DEF longer

(* The same for a sequence that is known element by element.                *)
LEMMA ExtendFacts ==
    ASSUME NEW n \in Nat, NEW s, s = [i \in 1 .. n |-> s[i]], NEW e
    PROVE  /\ Len(Append(s, e)) = n + 1
           /\ Append(s, e) = [i \in 1 .. n + 1 |-> IF i = n + 1 THEN e ELSE s[i]]
<1> DEFINE S == {s[i] : i \in 1 .. n} \cup {e}
           longer == Append(s, e)
<1>1. s \in Seq(S) /\ Len(s) = n
  <2>1. s \in [1 .. n -> S]
    OBVIOUS
  <2> QED
    BY <2>1
<1>2. e \in S
  OBVIOUS
<1> HIDE DEF S
<1>3. /\ Len(longer) = n + 1 /\ longer \in [1 .. n + 1 -> S]
      /\ longer[n + 1] = e /\ \A i \in 1 .. n : longer[i] = s[i]
  BY <1>1, <1>2, AppendFacts
<1> HIDE DEF longer
<1>4. \A i \in 1 .. n + 1 : longer[i] = IF i = n + 1 THEN e ELSE s[i]
  BY <1>3
<1>5. longer = [i \in 1 .. n + 1 |-> IF i = n + 1 THEN e ELSE s[i]]
  BY <1>3, <1>4
<1> QED
  BY <1>3, <1>5 DEF longer

-----------------------------------------------------------------------------
(* Maps from some of a set of keys to values *)

MapsOf(K, V) == UNION {[S -> V] : S \in SUBSET K}

LEMMA MapFacts ==
    ASSUME NEW K, NEW V, NEW map \in MapsOf(K, V)
    PROVE  /\ DOMAIN map \subseteq K /\ \A k \in DOMAIN map : map[k] \in V
           /\ map \in [DOMAIN map -> V]
BY DEF MapsOf

LEMMA EmptyMap ==
    ASSUME NEW K, NEW V
    PROVE  <<>> \in MapsOf(K, V) /\ DOMAIN <<>> = {}
<1>1. <<>> \in [{} -> V]
  OBVIOUS
<1> QED
  BY <1>1 DEF MapsOf

LEMMA PutFacts ==
    ASSUME NEW K, NEW V, NEW map \in MapsOf(K, V), NEW k \in K, NEW v \in V
    PROVE  Put(map, k, v) \in MapsOf(K, V)
<1>1. DOMAIN map \cup {k} \in SUBSET K /\ \A j \in DOMAIN map : map[j] \in V
  BY MapFacts
<1>2. Put(map, k, v) \in [DOMAIN map \cup {k} -> V]
  BY <1>1 DEF Put
<1> QED
  BY <1>1, <1>2 DEF MapsOf

LEMMA PutAllFacts ==
    ASSUME NEW K, NEW V, NEW map \in MapsOf(K, V), NEW entries \in MapsOf(K, V)
    PROVE  PutAll(map, entries) \in MapsOf(K, V)
<1>1. /\ DOMAIN map \cup DOMAIN entries \in SUBSET K
      /\ \A k \in DOMAIN map : map[k] \in V
      /\ \A k \in DOMAIN entries : entries[k] \in V
  BY MapFacts
<1>2. PutAll(map, entries) \in [DOMAIN map \cup DOMAIN entries -> V]
  BY <1>1 DEF PutAll
<1> QED
  BY <1>1, <1>2 DEF MapsOf
=============================================================================
