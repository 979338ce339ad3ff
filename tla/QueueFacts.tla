----------------------------- MODULE QueueFacts -----------------------------
(* Facts that the proofs about the components share: queues that grow and are worked off,
   sequences that are joined, sorted and filtered, and the least number of a set, which
   stands in for induction. *)
EXTENDS Picking, Functions, FiniteSetTheorems, FunctionTheorems, WellFoundedInduction, TLAPS

\* A set of numbers that is not empty has a least one.
LEMMA LeastNumber ==
  ASSUME NEW S \in SUBSET Nat, S # {}
  PROVE  \E n \in S : \A m \in S : n <= m
<1>1. PICK n \in S : \A m \in S : ~(<<m, n>> \in OpToRel(<, Nat))
  BY NatLessThanWellFounded, WFMin
<1>2. \A m \in S : ~(m < n)
  BY <1>1 DEF OpToRel
<1>3. QED
  BY <1>2

\* A queue with one more at its end.
LEMMA Appended ==
  ASSUME NEW S, NEW q \in Seq(S), NEW e \in S
  PROVE  /\ Append(q, e) \in Seq(S)
         /\ DOMAIN q = 1 .. Len(q) /\ DOMAIN Append(q, e) = 1 .. Len(q) + 1
         /\ Len(q) \in Nat /\ Len(Append(q, e)) = Len(q) + 1
         /\ \A i \in DOMAIN q : Append(q, e)[i] = q[i]
         /\ Append(q, e)[Len(q) + 1] = e
OBVIOUS

\* A queue whose head is taken.
LEMMA Advanced ==
  ASSUME NEW S, NEW q \in Seq(S), q # <<>>
  PROVE  /\ Tail(q) \in Seq(S) /\ Head(q) \in S /\ Head(q) = q[1]
         /\ DOMAIN q = 1 .. Len(q) /\ DOMAIN Tail(q) = 1 .. Len(q) - 1
         /\ Len(q) \in Nat \ {0} /\ Len(Tail(q)) = Len(q) - 1
         /\ \A i \in DOMAIN Tail(q) : Tail(q)[i] = q[i + 1]
OBVIOUS

\* What is left of a queue after its i-th message.
LEMMA Rest ==
  ASSUME NEW S, NEW q \in Seq(S), NEW i \in DOMAIN q
  PROVE  /\ SubSeq(q, i + 1, Len(q)) \in Seq(S) /\ q[i] \in S /\ q # <<>>
         /\ Len(q) \in Nat /\ i \in 1 .. Len(q)
         /\ Len(SubSeq(q, i + 1, Len(q))) = Len(q) - i
         /\ \A j \in 1 .. Len(q) - i : SubSeq(q, i + 1, Len(q))[j] = q[i + j]
OBVIOUS

\* Two sequences, one after the other.
LEMMA Joined ==
  ASSUME NEW S, NEW q \in Seq(S), NEW r \in Seq(S)
  PROVE  /\ q \o r \in Seq(S) /\ Len(q \o r) = Len(q) + Len(r)
         /\ Len(q) \in Nat /\ Len(r) \in Nat
         /\ DOMAIN q = 1 .. Len(q) /\ DOMAIN r = 1 .. Len(r)
         /\ DOMAIN (q \o r) = 1 .. Len(q) + Len(r)
         /\ \A i \in DOMAIN q : (q \o r)[i] = q[i]
         /\ \A i \in DOMAIN r : (q \o r)[Len(q) + i] = r[i]
         /\ \A i \in DOMAIN (q \o r) : i \in DOMAIN q \/ i - Len(q) \in DOMAIN r
OBVIOUS

-----------------------------------------------------------------------------
(* Sorting and filtering.  That the numbers of the places are all taken is proved by
   counting: a rank is an injection into a set of the same size. *)

\* How many of S come before r.
Rank(S, r) == Cardinality({q \in S : q < r})

\* Ranks count from zero to the size of the set, in its order.
LEMMA Ranks ==
  ASSUME NEW S \in SUBSET Int, IsFiniteSet(S)
  PROVE  /\ Cardinality(S) \in Nat
         /\ \A r : Rank(S, r) \in Nat
         /\ \A r \in S : Rank(S, r) < Cardinality(S)
         /\ \A r, q \in S : r < q => Rank(S, r) < Rank(S, q)
<1>1. Cardinality(S) \in Nat
  BY FS_CardinalityType
<1>2. \A r : Rank(S, r) \in Nat
  <2>1. SUFFICES ASSUME NEW r PROVE Rank(S, r) \in Nat
    OBVIOUS
  <2>2. {q \in S : q < r} \in SUBSET S
    OBVIOUS
  <2>3. QED
    BY <1>1, <2>2, FS_Subset, FS_CardinalityType DEF Rank
<1>3. ASSUME NEW r \in S PROVE Rank(S, r) < Cardinality(S)
  <2>1. {q \in S : q < r} \in SUBSET S /\ r \notin {q \in S : q < r}
    OBVIOUS
  <2>2. Cardinality({q \in S : q < r}) <= Cardinality(S)
    BY <2>1, FS_Subset
  <2>3. Cardinality({q \in S : q < r}) # Cardinality(S)
    BY <2>1, FS_Subset
  <2>4. QED
    BY <1>1, <1>2, <2>2, <2>3 DEF Rank
<1>4. ASSUME NEW r \in S, NEW q \in S, r < q PROVE Rank(S, r) < Rank(S, q)
  <2> DEFINE A == {p \in S : p < r}
             B == {p \in S : p < q}
  <2>1. A \subseteq B
    <3>1. \A p \in S : p < r => p < q
      BY <1>4
    <3>2. QED
      BY <3>1
  <2>2. r \in B /\ r \notin A
    BY <1>4
  <2>3. IsFiniteSet(B)
    BY FS_Subset
  <2>4. Cardinality(A) <= Cardinality(B) /\ Cardinality(A) # Cardinality(B)
    BY <2>1, <2>2, <2>3, FS_Subset
  <2>5. Rank(S, r) = Cardinality(A) /\ Rank(S, q) = Cardinality(B)
    BY DEF Rank
  <2>6. QED
    BY <1>2, <2>4, <2>5
<1>5. QED
  BY <1>1, <1>2, <1>3, <1>4

\* Every rank below the size of the set is the rank of one of it.
LEMMA EveryRankIsTaken ==
  ASSUME NEW S \in SUBSET Int, IsFiniteSet(S)
  PROVE  \A k \in 0 .. Cardinality(S) - 1 : \E r \in S : Rank(S, r) = k
<1> DEFINE n == Cardinality(S)
           rank == [r \in S |-> Rank(S, r)]
<1>1. n \in Nat
  BY Ranks
<1>2. rank \in [S -> 0 .. n - 1]
  BY <1>1, Ranks
<1>3. \A r, q \in S : rank[r] = rank[q] => r = q
  <2>1. SUFFICES ASSUME NEW r \in S, NEW q \in S, r # q PROVE rank[r] # rank[q]
    OBVIOUS
  <2>2. r < q \/ q < r
    BY <2>1
  <2>3. Rank(S, r) \in Nat /\ Rank(S, q) \in Nat
    BY Ranks
  <2>4. QED
    BY <2>2, <2>3, Ranks
<1>4. rank \in Injection(S, 0 .. n - 1)
  BY <1>2, <1>3, Fun_IsInj
<1>5. IsFiniteSet(0 .. n - 1) /\ Cardinality(0 .. n - 1) = n
  <2>1. /\ IsFiniteSet(0 .. n - 1)
        /\ Cardinality(0 .. n - 1) = IF 0 > n - 1 THEN 0 ELSE (n - 1) - 0 + 1
    <3>1. 0 \in Int /\ n - 1 \in Int
      BY <1>1
    <3> HIDE DEF n
    <3>2. QED
      BY <3>1, FS_Interval
  <2>2. QED
    BY <1>1, <2>1
<1>6. rank \in Surjection(S, 0 .. n - 1)
  BY <1>4, <1>5, FS_Injection
<1>7. \A k \in 0 .. n - 1 : \E r \in S : rank[r] = k
  <2> HIDE DEF rank, n
  <2>1. QED
    BY ONLY <1>6 DEF Surjection
<1>8. QED
  BY <1>7

\* The numbers of a set, sorted, are its members, each once and in order.
LEMMA Sorted ==
  ASSUME NEW S \in SUBSET Int, IsFiniteSet(S)
  PROVE  /\ Ascending(S) \in [1 .. Cardinality(S) -> S] /\ Cardinality(S) \in Nat
         /\ \A s \in S : \E i \in 1 .. Cardinality(S) : Ascending(S)[i] = s
         /\ \A i, j \in 1 .. Cardinality(S) : i < j <=> Ascending(S)[i] < Ascending(S)[j]
<1> DEFINE n == Cardinality(S)
<1>1. n \in Nat
  BY Ranks
<1>2. ASSUME NEW i \in 1 .. n
      PROVE  Ascending(S)[i] \in S /\ Rank(S, Ascending(S)[i]) = i - 1
  <2>1. i - 1 \in 0 .. n - 1
    BY <1>1
  <2>2. \E s \in S : Cardinality({r \in S : r < s}) = i - 1
    BY <2>1, EveryRankIsTaken DEF Rank
  <2>3. Ascending(S)[i] = CHOOSE s \in S : Cardinality({r \in S : r < s}) = i - 1
    BY DEF Ascending
  <2>4. QED
    BY <2>2, <2>3 DEF Rank
<1>3. Ascending(S) \in [1 .. n -> S]
  BY <1>2 DEF Ascending
<1>4. \A r, q \in S : Rank(S, r) = Rank(S, q) => r = q
  <2>1. SUFFICES ASSUME NEW r \in S, NEW q \in S, r # q PROVE Rank(S, r) # Rank(S, q)
    OBVIOUS
  <2>2. r < q \/ q < r
    BY <2>1
  <2>3. QED
    BY <2>2, Ranks
<1>5. ASSUME NEW s \in S PROVE \E i \in 1 .. n : Ascending(S)[i] = s
  <2>1. Rank(S, s) + 1 \in 1 .. n
    BY <1>1, Ranks
  <2>2. Rank(S, Ascending(S)[Rank(S, s) + 1]) = Rank(S, s)
    BY <1>2, <2>1, Ranks
  <2>3. Ascending(S)[Rank(S, s) + 1] = s
    BY <1>2, <1>4, <2>1, <2>2
  <2>4. QED
    BY <2>1, <2>3
<1>6. ASSUME NEW i \in 1 .. n, NEW j \in 1 .. n
      PROVE  i < j <=> Ascending(S)[i] < Ascending(S)[j]
  <2> DEFINE a == Ascending(S)[i]
             b == Ascending(S)[j]
  <2>1. a \in S /\ b \in S /\ Rank(S, a) = i - 1 /\ Rank(S, b) = j - 1
    BY <1>2
  <2> HIDE DEF a, b
  <2>2. (a < b => Rank(S, a) < Rank(S, b)) /\ (b < a => Rank(S, b) < Rank(S, a))
    BY <2>1, Ranks
  <2>3. a < b \/ b < a \/ a = b
    BY <2>1
  <2>4. i < j <=> a < b
    BY <2>1, <2>2, <2>3
  <2>5. QED
    BY <2>4 DEF a, b
<1>7. QED
  BY <1>1, <1>3, <1>5, <1>6

\* The k-th of some numbers that start at one is k or more.
LEMMA NotBefore ==
  ASSUME NEW S \in SUBSET (Nat \ {0}), IsFiniteSet(S)
  PROVE  /\ \A k \in 1 .. Cardinality(S) : k <= Ascending(S)[k]
         /\ Cardinality(S) \in Nat
<1> DEFINE n == Cardinality(S)
           early == {k \in 1 .. n : ~(k <= Ascending(S)[k])}
<1>1. /\ n \in Nat /\ \A k \in 1 .. n : Ascending(S)[k] \in Nat \ {0}
      /\ \A i, j \in 1 .. n : i < j <=> Ascending(S)[i] < Ascending(S)[j]
  <2>1. S \in SUBSET Int
    OBVIOUS
  <2>2. QED
    BY <2>1, Sorted
<1> HIDE DEF n
<1>2. ASSUME early # {} PROVE FALSE
  <2>1. early \in SUBSET Nat
    BY <1>1
  <2>2. PICK k \in early : \A l \in early : k <= l
    <3> HIDE DEF early
    <3>1. QED
      BY <1>2, <2>1, LeastNumber
  <2>3. k \in 1 .. n /\ ~(k <= Ascending(S)[k]) /\ k # 1
    BY <1>1, <2>2
  <2>4. k - 1 \in 1 .. n /\ k - 1 < k /\ k - 1 \notin early
    BY <1>1, <2>2, <2>3
  <2>5. k - 1 <= Ascending(S)[k - 1] /\ Ascending(S)[k - 1] < Ascending(S)[k]
    BY <1>1, <2>3, <2>4
  <2>6. Ascending(S)[k - 1] \in Nat /\ Ascending(S)[k] \in Nat /\ k \in Nat
    BY <1>1, <2>3, <2>4
  <2> HIDE DEF early
  <2>7. QED
    BY <2>3, <2>5, <2>6
<1>3. QED
  BY <1>1, <1>2 DEF n

\* The entries of a sequence at some of its indices, in their order.
LEMMA Filtered ==
  ASSUME NEW T, NEW q \in Seq(T), NEW S \in SUBSET DOMAIN q
  PROVE  /\ Entries(q, S) \in Seq(T) /\ IsFiniteSet(S)
         /\ DOMAIN Entries(q, S) = 1 .. Len(Entries(q, S))
         /\ Len(Entries(q, S)) = Cardinality(S) /\ Len(Entries(q, S)) <= Len(q)
         /\ \A i \in DOMAIN Entries(q, S) :
              Ascending(S)[i] \in S /\ Entries(q, S)[i] = q[Ascending(S)[i]]
         /\ \A s \in S : \E i \in DOMAIN Entries(q, S) : Ascending(S)[i] = s
         /\ \A i, j \in DOMAIN Entries(q, S) : i < j <=> Ascending(S)[i] < Ascending(S)[j]
         /\ Range(Entries(q, S)) = {q[s] : s \in S}
<1>1. S \in SUBSET Int /\ IsFiniteSet(S) /\ Cardinality(S) \in Nat /\ Cardinality(S) <= Len(q)
  <2>1. Len(q) \in Nat /\ DOMAIN q = 1 .. Len(q)
    OBVIOUS
  <2>2. IsFiniteSet(1 .. Len(q)) /\ Cardinality(1 .. Len(q)) = Len(q)
    <3> DEFINE n == Len(q)
    <3>1. n \in Nat /\ 1 \in Int /\ n \in Int
      BY <2>1
    <3> HIDE DEF n
    <3>2. IsFiniteSet(1 .. n) /\ Cardinality(1 .. n) = IF 1 > n THEN 0 ELSE n - 1 + 1
      BY <3>1, FS_Interval
    <3>3. (IF 1 > n THEN 0 ELSE n - 1 + 1) = n
      BY <3>1
    <3>4. IsFiniteSet(1 .. n) /\ Cardinality(1 .. n) = n
      BY <3>2, <3>3
    <3>5. QED
      BY <3>4 DEF n
  <2>3. IsFiniteSet(S) /\ Cardinality(S) <= Cardinality(1 .. Len(q))
    BY <2>1, <2>2, FS_Subset
  <2>4. QED
    BY <2>1, <2>2, <2>3, FS_CardinalityType
<1>2. /\ Ascending(S) \in [1 .. Cardinality(S) -> S]
      /\ \A s \in S : \E i \in 1 .. Cardinality(S) : Ascending(S)[i] = s
      /\ \A i, j \in 1 .. Cardinality(S) : i < j <=> Ascending(S)[i] < Ascending(S)[j]
  BY <1>1, Sorted
<1>3. \A s \in S : q[s] \in T
  OBVIOUS
<1>4. Entries(q, S) = [i \in 1 .. Cardinality(S) |-> q[Ascending(S)[i]]]
  BY DEF Entries
<1>5. Entries(q, S) \in [1 .. Cardinality(S) -> T]
  BY <1>2, <1>3, <1>4
<1>6. Entries(q, S) \in Seq(T) /\ Len(Entries(q, S)) = Cardinality(S)
  BY <1>1, <1>5
<1>7. Range(Entries(q, S)) = {q[s] : s \in S}
  BY <1>2, <1>4 DEF Range
<1>8. QED
  BY <1>1, <1>2, <1>4, <1>5, <1>6, <1>7

=============================================================================
