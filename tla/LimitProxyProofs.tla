-------------------------- MODULE LimitProxyProofs --------------------------
(* What the cap on a list keeps to for every list, search, cap and ceiling. *)
EXTENDS LimitProxy, FunctionTheorems, FiniteSetTheorems, TLAPS

USE RowsAreNumbers, FiltersSelectRows, CapsAreCaps

-----------------------------------------------------------------------------
(* Row numbers.  The library's induction is out of reach, so that the numbers *)
(* of n rows are 0 .. n - 1 is proved by counting: numbering is an injection  *)
(* into a set of the same size.                                               *)

\* Row numbers count from zero to the length of the list, in the list's order.
LEMMA RowNumbers ==
  ASSUME NEW f \in SUBSET Rows
  PROVE  /\ f \subseteq Int /\ IsFiniteSet(f) /\ Cardinality(f) \in Nat
         /\ \A r : RowNumber(f, r) \in Nat
         /\ \A r \in f : RowNumber(f, r) < Cardinality(f)
         /\ \A r, q \in f : r < q => RowNumber(f, r) < RowNumber(f, q)
<1>1. f \subseteq Int /\ IsFiniteSet(f) /\ Cardinality(f) \in Nat
  BY FS_Subset, FS_CardinalityType
<1>2. \A r : RowNumber(f, r) \in Nat
  <2>1. SUFFICES ASSUME NEW r PROVE RowNumber(f, r) \in Nat
    OBVIOUS
  <2>2. {q \in f : q < r} \in SUBSET f
    OBVIOUS
  <2>3. QED
    BY <1>1, <2>2, FS_Subset, FS_CardinalityType DEF RowNumber
<1>3. ASSUME NEW r \in f PROVE RowNumber(f, r) < Cardinality(f)
  <2>1. {q \in f : q < r} \in SUBSET f /\ r \notin {q \in f : q < r}
    BY <1>1
  <2>2. Cardinality({q \in f : q < r}) <= Cardinality(f)
    BY <1>1, <2>1, FS_Subset
  <2>3. Cardinality({q \in f : q < r}) # Cardinality(f)
    BY <1>1, <2>1, FS_Subset
  <2>4. QED
    BY <1>1, <1>2, <2>2, <2>3 DEF RowNumber
<1>4. ASSUME NEW r \in f, NEW q \in f, r < q PROVE RowNumber(f, r) < RowNumber(f, q)
  <2> DEFINE A == {p \in f : p < r}
             B == {p \in f : p < q}
  <2>1. r \in Int /\ q \in Int /\ \A p \in f : p \in Int
    BY <1>1
  <2>2. A \subseteq B
    <3>1. \A p \in f : p < r => p < q
      BY <1>4, <2>1
    <3>2. QED
      BY <3>1
  <2>3. r \in B /\ r \notin A
    BY <1>4, <2>1
  <2>4. IsFiniteSet(B)
    BY <1>1, FS_Subset
  <2>5. Cardinality(A) <= Cardinality(B) /\ Cardinality(A) # Cardinality(B)
    BY <2>2, <2>3, <2>4, FS_Subset
  <2>6. RowNumber(f, r) = Cardinality(A) /\ RowNumber(f, q) = Cardinality(B)
    BY DEF RowNumber
  <2>7. QED
    BY <1>2, <2>5, <2>6
<1>5. QED
  BY <1>1, <1>2, <1>3, <1>4

\* A longer list moves no row up.
LEMMA LongerList ==
  ASSUME NEW f \in SUBSET Rows, NEW g \in SUBSET f
  PROVE  /\ Cardinality(g) <= Cardinality(f)
         /\ \A r : RowNumber(g, r) <= RowNumber(f, r)
<1>1. Cardinality(g) <= Cardinality(f)
  BY RowNumbers, FS_Subset
<1>2. ASSUME NEW r PROVE RowNumber(g, r) <= RowNumber(f, r)
  <2>1. {q \in g : q < r} \in SUBSET {q \in f : q < r}
    OBVIOUS
  <2>2. IsFiniteSet({q \in f : q < r})
    BY RowNumbers, FS_Subset
  <2>3. QED
    BY <2>1, <2>2, FS_Subset DEF RowNumber
<1>3. QED
  BY <1>1, <1>2

\* Every number below the length is the number of a row.
LEMMA EveryNumberIsARow ==
  ASSUME NEW f \in SUBSET Rows, NEW k \in Nat, k < Cardinality(f)
  PROVE  \E r \in f : RowNumber(f, r) = k
<1> DEFINE n == Cardinality(f)
           number == [r \in f |-> RowNumber(f, r)]
<1>1. n \in Nat /\ IsFiniteSet(f) /\ f \subseteq Int
  BY RowNumbers
<1>2. number \in [f -> 0 .. n - 1]
  BY <1>1, RowNumbers
<1>3. \A r, q \in f : number[r] = number[q] => r = q
  <2>1. SUFFICES ASSUME NEW r \in f, NEW q \in f, r # q PROVE number[r] # number[q]
    OBVIOUS
  <2>2. r < q \/ q < r
    BY <1>1, <2>1
  <2>3. RowNumber(f, r) \in Nat /\ RowNumber(f, q) \in Nat
    BY RowNumbers
  <2>4. QED
    BY <2>2, <2>3, RowNumbers
<1>4. number \in Injection(f, 0 .. n - 1)
  BY <1>2, <1>3, Fun_IsInj
<1>5. IsFiniteSet(0 .. n - 1) /\ Cardinality(0 .. n - 1) = n
  <2>1. 0 \in Int /\ n - 1 \in Int /\ ~(0 > n - 1) /\ (n - 1) - 0 + 1 = n
    BY <1>1
  <2>2. /\ IsFiniteSet(0 .. n - 1)
        /\ Cardinality(0 .. n - 1) = IF 0 > n - 1 THEN 0 ELSE (n - 1) - 0 + 1
    <3> HIDE DEF n
    <3>1. QED
      BY <2>1, FS_Interval
  <2>3. QED
    BY <2>1, <2>2
<1>6. number \in Surjection(f, 0 .. n - 1)
  BY <1>4, <1>5, FS_Injection
<1>7. \A t \in 0 .. n - 1 : \E r \in f : RowNumber(f, r) = t
  <2>1. \A t \in 0 .. n - 1 : \E r \in f : number[r] = t
    <3> HIDE DEF number, n
    <3>1. QED
      BY ONLY <1>6 DEF Surjection
  <2>2. QED
    BY <2>1
<1>8. k \in 0 .. n - 1
  BY <1>1
<1>9. QED
  BY <1>7, <1>8

\* k rows have a number below k, if the list is that long.
LEMMA FirstRows ==
  ASSUME NEW f \in SUBSET Rows, NEW k \in Nat, k <= Cardinality(f)
  PROVE  Cardinality({r \in f : RowNumber(f, r) < k}) = k
<1> DEFINE F == {r \in f : RowNumber(f, r) < k}
           number == [r \in F |-> RowNumber(f, r)]
<1>1. f \subseteq Int /\ IsFiniteSet(F) /\ Cardinality(f) \in Nat
  BY RowNumbers, FS_Subset
<1>2. number \in [F -> 0 .. k - 1]
  BY RowNumbers
<1>3. \A r, q \in F : number[r] = number[q] => r = q
  <2>1. SUFFICES ASSUME NEW r \in F, NEW q \in F, r # q PROVE number[r] # number[q]
    OBVIOUS
  <2>2. r < q \/ q < r
    BY <1>1, <2>1
  <2>3. RowNumber(f, r) \in Nat /\ RowNumber(f, q) \in Nat
    BY RowNumbers
  <2>4. QED
    BY <2>2, <2>3, RowNumbers
<1>4. \A t \in 0 .. k - 1 : \E r \in F : number[r] = t
  <2>1. SUFFICES ASSUME NEW t \in 0 .. k - 1 PROVE \E r \in F : number[r] = t
    OBVIOUS
  <2>2. t \in Nat /\ t < k /\ t < Cardinality(f)
    BY <1>1
  <2>3. PICK r \in f : RowNumber(f, r) = t
    BY <2>2, EveryNumberIsARow
  <2>4. QED
    BY <2>2, <2>3
<1>5. number \in Bijection(F, 0 .. k - 1)
  BY <1>2, <1>3, <1>4, Fun_IsBij
<1>6. ExistsBijection(F, 0 .. k - 1)
  BY <1>5 DEF ExistsBijection
<1>7. Cardinality(0 .. k - 1) = Cardinality(F)
  BY <1>1, <1>6, FS_Bijection
<1>8. Cardinality(0 .. k - 1) = k
  BY FS_Interval
<1>9. QED
  BY <1>7, <1>8

-----------------------------------------------------------------------------
(* The row filter *)

\* Counts of rows, and what may be asked of the caps.
LEMMA Displayed ==
  ASSUME NEW n \in Nat, NEW m \in Nat \union {-1}
  PROVE  DisplayCount(n, m) \in Nat /\ DisplayCount(n, m) <= n
BY DEF DisplayCount

\* A list that is tested row by row shows as many rows as it says.
LEMMA RetestedIsTheFirst ==
  ASSUME NEW f \in SUBSET Rows, NEW m \in Nat \union {-1}
  PROVE  /\ Retested(f, m) = {r \in f : RowNumber(f, r) < DisplayCount(Cardinality(f), m)}
         /\ Cardinality(Retested(f, m)) = DisplayCount(Cardinality(f), m)
<1>1. /\ Cardinality(f) \in Nat
      /\ \A r \in f : RowNumber(f, r) \in Nat /\ RowNumber(f, r) < Cardinality(f)
  BY RowNumbers
<1>2. Retested(f, m) = {r \in f : RowNumber(f, r) < DisplayCount(Cardinality(f), m)}
  <2>1. \A r \in f :
          Accepts(m, RowNumber(f, r)) <=> RowNumber(f, r) < DisplayCount(Cardinality(f), m)
    BY <1>1 DEF Accepts, DisplayCount
  <2>2. QED
    BY <2>1 DEF Retested
<1>3. Cardinality(Retested(f, m)) = DisplayCount(Cardinality(f), m)
  <2> DEFINE k == DisplayCount(Cardinality(f), m)
  <2>1. k \in Nat /\ k <= Cardinality(f)
    BY <1>1, Displayed
  <2> HIDE DEF k
  <2>2. Cardinality({r \in f : RowNumber(f, r) < k}) = k
    BY <2>1, FirstRows
  <2>3. QED
    BY <1>2, <2>2 DEF k
<1>4. QED
  BY <1>2, <1>3

\* Rows are tested on insertion at a number no higher than the one they end up
\* with, so that none that belongs under the cap is left out.
LEMMA InsertionKeepsTheFirst ==
  ASSUME NEW f \in SUBSET Rows, NEW added \in SUBSET Rows, f \intersect added = {},
         NEW m \in Nat \union {-1}
  PROVE  /\ TestedOnInsertion(f, added, m) \subseteq added
         /\ Retested(f \union added, m)
              \subseteq Retested(f, m) \union TestedOnInsertion(f, added, m)
<1> DEFINE Run(r) == {q \in added : q < r /\ ~\E p \in f : q < p /\ p < r}
<1>1. TestedOnInsertion(f, added, m) \subseteq added
  BY DEF TestedOnInsertion
<1>2. ASSUME NEW r \in added
      PROVE  /\ RowNumber(f, r) + Cardinality(Run(r)) \in Nat
             /\ RowNumber(f, r) + Cardinality(Run(r)) <= RowNumber(f \union added, r)
  <2> DEFINE Below == {q \in f : q < r}
             All == {q \in f \union added : q < r}
  <2>1. IsFiniteSet(Below) /\ IsFiniteSet(Run(r)) /\ IsFiniteSet(All)
    BY RowNumbers, FS_Subset
  <2>2. Below \intersect Run(r) = {} /\ Below \union Run(r) \in SUBSET All
    OBVIOUS
  <2>3. Cardinality(Below \union Run(r)) = Cardinality(Below) + Cardinality(Run(r))
    <3>1. Cardinality(Below) \in Nat /\ Cardinality(Run(r)) \in Nat
      BY <2>1, FS_CardinalityType
    <3>2. Cardinality(Below \intersect Run(r)) = 0
      BY <2>2, FS_EmptySet
    <3>3. Cardinality(Below \union Run(r))
            = Cardinality(Below) + Cardinality(Run(r)) - Cardinality(Below \intersect Run(r))
      BY <2>1, FS_Union
    <3>4. QED
      BY <3>1, <3>2, <3>3
  <2>4. Cardinality(Below \union Run(r)) <= Cardinality(All)
    BY <2>1, <2>2, FS_Subset
  <2>5. Cardinality(Below) \in Nat /\ Cardinality(Run(r)) \in Nat /\ Cardinality(All) \in Nat
    BY <2>1, FS_CardinalityType
  <2>6. RowNumber(f, r) = Cardinality(Below) /\ RowNumber(f \union added, r) = Cardinality(All)
    BY DEF RowNumber
  <2>7. QED
    BY <2>3, <2>4, <2>5, <2>6
<1>3. ASSUME NEW r \in f \union added, Accepts(m, RowNumber(f \union added, r))
      PROVE  r \in Retested(f, m) \union TestedOnInsertion(f, added, m)
  <2>1. f \union added \in SUBSET Rows
    OBVIOUS
  <2>2. /\ RowNumber(f, r) \in Nat /\ RowNumber(f \union added, r) \in Nat
        /\ RowNumber(f, r) <= RowNumber(f \union added, r)
    BY <2>1, RowNumbers, LongerList
  <2>3. CASE r \in f
    BY <1>3, <2>2, <2>3 DEF Accepts, Retested
  <2>4. CASE r \in added
    <3>1. Accepts(m, RowNumber(f, r) + Cardinality(Run(r)))
      BY <1>2, <1>3, <2>2, <2>4 DEF Accepts
    <3>2. QED
      BY <2>4, <3>1 DEF TestedOnInsertion
  <2>5. QED
    BY <2>3, <2>4
<1>4. QED
  BY <1>1, <1>3 DEF Retested

-----------------------------------------------------------------------------
(* Types and the ceiling *)

\* The two are inductive together: a cap is a count because the ceiling it is
\* clamped to is one.
IInv == TypeOK /\ CeilingHolds

\* Filtered rows are rows.
LEMMA FilteredRows ==
  ASSUME TypeOK
  PROVE  Filtered \in SUBSET Rows
BY DEF TypeOK, Filtered

\* A request for rows leaves caps of the right types, under the ceiling.
LEMMA SetMaxCaps ==
  ASSUME IInv, NEW requested \in Nat, NEW f, NEW s \in SUBSET f,
         limit' \in Limits, SetMax(requested, f, s)
  PROVE  /\ max' \in Nat /\ initial' \in Nat \union {-1} /\ step' \in Nat \ {0}
         /\ shown' \subseteq f
         /\ limit' >= 0 => max' \in 0 .. limit'
<1>1. max \in Nat \union {-1} /\ initial \in Nat \union {-1} /\ step \in Nat \ {0}
      /\ limit' \in Nat \union {-1}
  BY DEF IInv, TypeOK
<1>2. /\ max' = IF limit' >= 0 /\ requested > limit' THEN limit' ELSE requested
      /\ initial' = IF max' # max /\ initial > max' THEN max' ELSE initial
      /\ step' = step
  BY DEF SetMax
<1>3. max' \in Nat /\ (limit' >= 0 => max' \in 0 .. limit')
  BY <1>1, <1>2
<1>4. initial' \in Nat \union {-1}
  BY <1>1, <1>2, <1>3
<1>5. shown' \subseteq f
  <2>1. \A m : Retested(f, m) \subseteq f
    BY DEF Retested
  <2>2. QED
    BY <2>1 DEF SetMax
<1>6. QED
  BY <1>1, <1>2, <1>3, <1>4, <1>5

\* To begin with the caps are counts under the ceiling.
LEMMA TypeInit == Init => IInv
<1>1. SUFFICES ASSUME Init PROVE IInv
  OBVIOUS
<1>2. TypeOK
  BY <1>1 DEF Init, TypeOK, Filtered
<1>3. QED
  BY <1>1, <1>2 DEF Init, IInv, CeilingHolds

\* A step that touches no cap keeps them, if it keeps the rows in the list.
LEMMA CapsFrame ==
  ASSUME IInv, UNCHANGED <<initial, max, step, limit>>,
         base' \subseteq Rows, matching' \in Filters, shown' \subseteq Filtered'
  PROVE  IInv'
BY DEF IInv, TypeOK, CeilingHolds

\* A step that asks for a cap keeps them as well.
LEMMA SetMaxFrame ==
  ASSUME IInv, NEW requested \in Nat, NEW s \in SUBSET Filtered',
         limit' \in Limits, SetMax(requested, Filtered', s),
         base' \subseteq Rows, matching' \in Filters
  PROVE  IInv'
<1>1. /\ max' \in Nat /\ initial' \in Nat \union {-1} /\ step' \in Nat \ {0}
      /\ shown' \subseteq Filtered'
      /\ limit' >= 0 => max' \in 0 .. limit'
  BY SetMaxCaps
<1>2. QED
  BY <1>1 DEF IInv, TypeOK, CeilingHolds

\* Every step leaves them so.
LEMMA TypeNext == IInv /\ [Next]_vars => IInv'
<1> SUFFICES ASSUME IInv, [Next]_vars PROVE IInv'
  OBVIOUS
<1>a. /\ base \subseteq Rows /\ matching \in Filters /\ matching \subseteq Rows
      /\ initial \in Nat \union {-1} /\ max \in Nat \union {-1} /\ step \in Nat \ {0}
      /\ limit \in Limits /\ limit \in Nat \union {-1} /\ shown \subseteq Filtered
      /\ limit >= 0 => max \in 0 .. limit
  BY DEF IInv, TypeOK, CeilingHolds
<1>b. \A f, m : Retested(f, m) \subseteq f
  BY DEF Retested
<1>c. \A f, added, m : TestedOnInsertion(f, added, m) \subseteq added
  BY DEF TestedOnInsertion
<1>d. Filtered = base \intersect matching /\ Filtered' = base' \intersect matching'
  BY DEF Filtered
<1>1. ASSUME NEW S \in SUBSET (Rows \ base), Insert(S)
      PROVE  IInv'
  <2> DEFINE s == shown \union TestedOnInsertion(Filtered, S \intersect matching, max)
  <2>1. base' = base \union S /\ matching' = matching /\ limit' = limit
    BY <1>1 DEF Insert
  <2>2. s \in SUBSET Filtered'
    BY <1>a, <1>c, <1>d, <2>1
  <2>3. CASE max > 0 /\ max <= Cardinality(Filtered')
    <3>1. Cardinality(S) \in Nat
      BY FS_Subset, FS_CardinalityType
    <3>2. max + Cardinality(S) \in Nat
      BY <1>a, <2>3, <3>1
    <3>3. SetMax(max + Cardinality(S), Filtered', s)
      BY <1>1, <2>3 DEF Insert
    <3>4. QED
      BY <1>a, <2>1, <2>2, <3>2, <3>3, SetMaxFrame
  <2>4. CASE ~(max > 0 /\ max <= Cardinality(Filtered'))
    <3>1. UNCHANGED <<initial, max, step>> /\ shown' = s
      BY <1>1, <2>4 DEF Insert, KeepCaps
    <3>2. QED
      BY <1>a, <2>1, <2>2, <3>1, CapsFrame
  <2>5. QED
    BY <2>3, <2>4
<1>2. ASSUME NEW S \in SUBSET base, Remove(S)
      PROVE  IInv'
  <2>1. base' = base \ S /\ UNCHANGED <<matching, initial, max, step, limit>>
    BY <1>2 DEF Remove, KeepCaps
  <2>2. shown' = Retested(Filtered', max) \/ shown' = shown \ S
    BY <1>2 DEF Remove, KeepCaps
  <2>3. shown' \subseteq Filtered'
    BY <1>a, <1>b, <1>d, <2>1, <2>2
  <2>4. QED
    BY <1>a, <2>1, <2>3, CapsFrame
<1>3. ASSUME NEW S \in SUBSET Rows, Reset(S)
      PROVE  IInv'
  <2>1. base' = S /\ UNCHANGED <<matching, initial, max, step, limit>>
        /\ shown' = Retested(Filtered', max)
    BY <1>3 DEF Reset, KeepCaps
  <2>2. QED
    BY <1>a, <1>b, <2>1, CapsFrame
<1>4. ASSUME NEW f \in Filters, SetFilter(f) \/ HiddenListChanged(f)
      PROVE  IInv'
  <2>1. matching' = f /\ UNCHANGED <<base, initial, max, step, limit>>
    BY <1>4 DEF SetFilter, HiddenListChanged, KeepCaps
  <2>2. shown' = Retested(Filtered', max) \/ shown' = Refiltered
    BY <1>4 DEF SetFilter, HiddenListChanged, KeepCaps
  <2>3. Refiltered \subseteq Filtered'
    BY <1>c DEF Refiltered
  <2>4. shown' \subseteq Filtered'
    BY <1>b, <2>2, <2>3
  <2>5. QED
    BY <1>a, <2>1, <2>4, CapsFrame
<1>5. ASSUME NEW r \in base, NEW q \in Rows \ base, Edit(r, q)
      PROVE  IInv'
  <2>1. base' = (base \ {r}) \union {q} /\ UNCHANGED <<matching, initial, max, step, limit>>
    BY <1>5 DEF Edit, KeepCaps
  <2>2. shown' \subseteq Filtered'
    <3>1. CASE r \in matching /\ q \in matching
      <4>1. \/ shown' = (shown \ {r}) \union {q}
            \/ r \notin shown /\ shown' = shown
            \/ shown' = Retested(Filtered', max)
        BY <1>5, <3>1 DEF Edit, KeepCaps
      <4>2. QED
        BY <1>a, <1>b, <1>d, <2>1, <3>1, <4>1
    <3>2. CASE ~(r \in matching /\ q \in matching)
      <4>1. shown' = (shown \ {r}) \union
                     TestedOnInsertion(Filtered \ {r}, {q} \intersect matching, max)
        BY <1>5, <3>2 DEF Edit, KeepCaps
      <4>2. TestedOnInsertion(Filtered \ {r}, {q} \intersect matching, max)
              \subseteq {q} \intersect matching
        BY <1>c
      <4>3. QED
        BY <1>a, <1>d, <2>1, <4>1, <4>2
    <3>3. QED
      BY <3>1, <3>2
  <2>3. QED
    BY <1>a, <2>1, <2>2, CapsFrame
<1>6. ASSUME NEW i \in Initials, SetInitial(i)
      PROVE  IInv'
  <2> DEFINE v == IF limit >= 0 /\ i > limit THEN limit ELSE i
  <2>1. /\ initial' = v /\ max' = (IF max <= v THEN v ELSE max)
        /\ UNCHANGED <<base, matching, step, limit>>
    BY <1>6 DEF SetInitial
  <2>2. shown' = Retested(Filtered, max') \/ shown' = shown
    BY <1>6 DEF SetInitial
  <2>3. Filtered' = Filtered /\ shown' \subseteq Filtered'
    BY <1>a, <1>b, <1>d, <2>1, <2>2
  <2>4. v \in Nat \union {-1} /\ (limit >= 0 => v <= limit)
    BY <1>a
  <2>5. max' \in Nat \union {-1} /\ (limit >= 0 => max' \in 0 .. limit)
    BY <1>a, <2>1, <2>4
  <2>6. QED
    BY <1>a, <2>1, <2>3, <2>4, <2>5 DEF IInv, TypeOK, CeilingHolds
<1>7. ASSUME NEW n \in Steps, SetStep(n)
      PROVE  IInv'
  <2>1. step' = n /\ UNCHANGED <<base, matching, initial, max, limit, shown>>
    BY <1>7 DEF SetStep
  <2>2. Filtered' = Filtered
    BY <1>d, <2>1
  <2>3. QED
    BY <1>a, <2>1, <2>2 DEF IInv, TypeOK, CeilingHolds
<1>8. ASSUME NEW l \in Limits, SetLimit(l)
      PROVE  IInv'
  <2>1. limit' = l /\ UNCHANGED <<base, matching>>
    BY <1>8 DEF SetLimit
  <2>2. Filtered' = Filtered
    BY <1>d, <2>1
  <2>3. l \in Nat \union {-1}
    OBVIOUS
  <2>4. CASE l >= 0 /\ (max < 0 \/ max > l)
    <3>1. SetMax(l, Filtered', shown) /\ l \in Nat
      BY <1>8, <2>2, <2>3, <2>4 DEF SetLimit
    <3>2. QED
      BY <1>a, <2>1, <2>2, <3>1, SetMaxFrame
  <2>5. CASE ~(l >= 0 /\ (max < 0 \/ max > l))
    <3>1. UNCHANGED <<initial, max, step, shown>>
      BY <1>8, <2>5 DEF SetLimit, KeepCaps
    <3>2. QED
      BY <1>a, <2>1, <2>2, <2>3, <2>5, <3>1 DEF IInv, TypeOK, CeilingHolds
  <2>6. QED
    BY <2>4, <2>5
<1>9. ASSUME NEW requested \in Nat, UNCHANGED <<base, matching, limit>>,
             SetMax(requested, Filtered, shown)
      PROVE  IInv'
  <2>1. Filtered' = Filtered
    BY <1>d, <1>9
  <2>2. QED
    BY <1>a, <1>9, <2>1, SetMaxFrame
<1>10. CASE SetMaxToInitial
  BY <1>a, <1>9, <1>10 DEF SetMaxToInitial
<1>11. CASE DisplayMore
  <2>1. max + step \in Nat /\ Cardinality(Filtered) \in Nat
    BY <1>a, <1>11, FilteredRows, RowNumbers DEF IInv, DisplayMore
  <2>2. DisplayCount(Cardinality(Filtered), max + step) \in Nat
    BY <2>1, Displayed
  <2>3. QED
    BY <1>9, <1>11, <2>2 DEF DisplayMore
<1>12. ASSUME NEW r \in Rows, LoadUntil(r)
       PROVE  IInv'
  <2> DEFINE n == IF r \in Filtered THEN RowNumber(Filtered, r) ELSE -1
  <2>1. n \in Nat \union {-1}
    BY FilteredRows, RowNumbers DEF IInv
  <2>2. n + step \in Nat
    BY <1>a, <2>1
  <2>3. SetMax(n + step, Filtered, shown) /\ UNCHANGED <<base, matching, limit>>
    BY <1>12 DEF LoadUntil
  <2>4. QED
    BY <1>9, <2>2, <2>3
<1>13. CASE UNCHANGED vars
  BY <1>a, <1>d, <1>13, CapsFrame DEF vars
<1>14. QED
  BY <1>1, <1>2, <1>3, <1>4, <1>5, <1>6, <1>7, <1>8, <1>10, <1>11, <1>12, <1>13 DEF Next

\* The caps are counts under the ceiling in every state.
LEMMA Invariance == Spec => []IInv
BY TypeInit, TypeNext, PTL DEF Spec

\* Whatever the list holds and QML binds, the caps are counts (or -1, no cap)
\* and what is mapped is in the filtered list (LimitProxy.cpp).
THEOREM TypeSafety == Spec => []TypeOK
<1>1. IInv => TypeOK
  BY DEF IInv
<1>2. QED
  BY <1>1, Invariance, PTL

\* No order in which the caps, the ceiling and the step are bound, no page, no
\* arriving row and no jump to a contact takes the cap past the ceiling
\* (LimitProxy.cpp:128-178).
THEOREM CeilingSafety == Spec => []CeilingHolds
<1>1. IInv => CeilingHolds
  BY DEF IInv
<1>2. QED
  BY <1>1, Invariance, PTL

-----------------------------------------------------------------------------
(* Staying in step *)

\* Two caps with one count of rows show the same rows.
LEMMA SameCountSameRows ==
  ASSUME NEW f \in SUBSET Rows, NEW m \in Nat \union {-1}, NEW k \in Nat \union {-1},
         DisplayCount(Cardinality(f), m) = DisplayCount(Cardinality(f), k)
  PROVE  Retested(f, m) = Retested(f, k)
<1>1. Retested(f, m) = {r \in f : RowNumber(f, r) < DisplayCount(Cardinality(f), m)}
  BY RetestedIsTheFirst
<1>2. Retested(f, k) = {r \in f : RowNumber(f, r) < DisplayCount(Cardinality(f), k)}
  BY RetestedIsTheFirst
<1>3. QED
  BY <1>1, <1>2

\* setMaxDisplayItems leaves a list in step in step: it skips the re-test only
\* where the count of rows stays.
LEMMA SetMaxInStep ==
  ASSUME TypeOK, limit' \in Limits, NEW f \in SUBSET Rows, NEW requested \in Nat,
         SetMax(requested, f, Retested(f, max))
  PROVE  shown' = Retested(f, max')
<1> DEFINE n == Cardinality(f)
<1>1. max \in Nat \union {-1} /\ limit' \in Nat \union {-1}
  BY DEF TypeOK
<1>2. max' \in Nat
  BY <1>1 DEF SetMax
<1>3. CASE max' = max
  <2>1. shown' = Retested(f, max') \/ shown' = Retested(f, max)
    BY DEF SetMax
  <2>2. QED
    BY <1>3, <2>1
<1>4. CASE max' # max
  <2>1. shown' = IF DisplayCount(n, max') # DisplayCount(n, max)
                 THEN Retested(f, max') ELSE Retested(f, max)
    BY <1>4 DEF SetMax
  <2>2. QED
    BY <1>1, <1>2, <2>1, SameCountSameRows
<1>5. QED
  BY <1>3, <1>4

\* A batch of arriving rows leaves it in step, at the ceiling too: the rows that
\* were tested as they went in are enough, and too many only by their number.
LEMMA InsertInStep ==
  ASSUME TypeOK, InStep, NEW S \in SUBSET (Rows \ base), Insert(S)
  PROVE  InStep'
<1> DEFINE f == Filtered
           added == S \intersect matching
           s == shown \union TestedOnInsertion(f, added, max)
           n == Cardinality(Filtered')
<1>a. /\ base \subseteq Rows /\ max \in Nat \union {-1} /\ limit \in Limits
      /\ limit \in Nat \union {-1} /\ shown = Retested(f, max)
  BY DEF TypeOK, InStep
<1>b. base' = base \union S /\ matching' = matching /\ limit' = limit
  BY DEF Insert
<1>1. /\ Filtered' = f \union added /\ f \intersect added = {}
      /\ f \in SUBSET Rows /\ added \in SUBSET Rows /\ Filtered' \in SUBSET Rows
  BY <1>a, <1>b DEF Filtered
<1>2. n \in Nat
  BY <1>1, RowNumbers
<1>3. Retested(Filtered', max) \subseteq s /\ s \subseteq Filtered'
  <2>1. Retested(f, max) \subseteq f
    BY DEF Retested
  <2>2. QED
    BY <1>1, <1>a, <2>1, InsertionKeepsTheFirst
<1>4. Cardinality(Retested(Filtered', max)) = DisplayCount(n, max)
  BY <1>1, <1>a, RetestedIsTheFirst
<1>5. CASE max > 0 /\ max <= n
  <2> DEFINE requested == max + Cardinality(S)
             capped == limit' >= 0 /\ requested > limit'
             m == IF capped THEN limit' ELSE requested
  <2>1. Cardinality(S) \in Nat /\ requested \in Nat /\ m \in Nat
    <3>1. Cardinality(S) \in Nat
      BY FS_Subset, FS_CardinalityType
    <3>2. requested \in Nat
      BY <1>a, <1>5, <3>1
    <3>3. m \in Nat
      BY <1>a, <1>b, <3>2
    <3>4. QED
      BY <3>1, <3>2, <3>3
  <2>2. SetMax(requested, Filtered', s)
    BY <1>5 DEF Insert
  <2>3. max' = m
    BY <2>2 DEF SetMax
  <2>4. DisplayCount(n, max) = max
    BY <1>2, <1>a, <1>5 DEF DisplayCount
  <2>5. CASE m = max
    <3>1. shown' = IF capped /\ Cardinality(s) # DisplayCount(n, max)
                   THEN Retested(Filtered', m) ELSE s
      BY <2>2, <2>5 DEF SetMax
    <3>2. CASE capped
      <4>1. CASE Cardinality(s) = DisplayCount(n, max)
        <5>1. IsFiniteSet(s)
          BY <1>1, <1>3, RowNumbers, FS_Subset
        <5>2. s = Retested(Filtered', max)
          BY <1>3, <1>4, <4>1, <5>1, FS_Subset
        <5>3. QED
          BY <2>3, <2>5, <3>1, <4>1, <5>2 DEF InStep
      <4>2. CASE Cardinality(s) # DisplayCount(n, max)
        BY <2>3, <3>1, <3>2, <4>2 DEF InStep
      <4>3. QED
        BY <4>1, <4>2
    <3>3. CASE ~capped
      <4>1. Cardinality(S) = 0
        BY <1>a, <2>1, <2>5, <3>3
      <4>2. S = {}
        BY <4>1, FS_Subset, FS_EmptySet
      <4>3. TestedOnInsertion(f, added, max) = {}
        BY <4>2 DEF TestedOnInsertion
      <4>4. shown' = Retested(f, max) /\ Filtered' = f
        BY <1>1, <1>a, <3>1, <3>3, <4>2, <4>3
      <4>5. QED
        BY <2>3, <2>5, <4>4 DEF InStep
    <3>4. QED
      BY <3>2, <3>3
  <2>6. CASE m # max
    <3>1. shown' = IF DisplayCount(n, m) # DisplayCount(n, max)
                   THEN Retested(Filtered', m) ELSE s
      BY <2>2, <2>6 DEF SetMax
    <3>2. CASE DisplayCount(n, m) = DisplayCount(n, max)
      <4>1. n = max
        BY <1>2, <1>a, <1>5, <2>1, <2>4, <2>6, <3>2 DEF DisplayCount
      <4>2. Retested(Filtered', m) = Retested(Filtered', max)
        BY <1>1, <1>a, <2>1, <3>2, SameCountSameRows
      <4>3. Retested(Filtered', max) \subseteq Filtered'
        BY DEF Retested
      <4>4. IsFiniteSet(Filtered') /\ Cardinality(Retested(Filtered', max)) = n
        BY <1>1, <1>4, <2>4, <4>1, RowNumbers
      <4>5. Retested(Filtered', max) = Filtered'
        BY <4>3, <4>4, FS_Subset
      <4>6. shown' = Retested(Filtered', max')
        BY <1>3, <2>3, <3>1, <3>2, <4>2, <4>5
      <4>7. QED
        BY <4>6 DEF InStep
    <3>3. CASE DisplayCount(n, m) # DisplayCount(n, max)
      BY <2>3, <3>1, <3>3 DEF InStep
    <3>4. QED
      BY <3>2, <3>3
  <2>7. QED
    BY <2>5, <2>6
<1>6. CASE ~(max > 0 /\ max <= n)
  <2>1. max' = max /\ shown' = s
    BY <1>6 DEF Insert, KeepCaps
  <2>2. CASE max = 0
    <3>1. \A g \in SUBSET Rows, k \in Nat : ~Accepts(max, k)
      BY <2>2 DEF Accepts
    <3>2. Retested(f, max) = {}
      BY <1>1, <3>1, RowNumbers DEF Retested
    <3>3. TestedOnInsertion(f, added, max) = {}
      <4>1. SUFFICES ASSUME NEW r \in TestedOnInsertion(f, added, max) PROVE FALSE
        OBVIOUS
      <4> DEFINE run == {q \in added : q < r /\ ~\E p \in f : q < p /\ p < r}
      <4>2. Accepts(max, RowNumber(f, r) + Cardinality(run))
        BY DEF TestedOnInsertion
      <4>3. run \in SUBSET added /\ IsFiniteSet(added)
        BY <1>1, RowNumbers
      <4>4. Cardinality(run) \in Nat
        BY <4>3, FS_Subset, FS_CardinalityType
      <4>5. RowNumber(f, r) + Cardinality(run) \in Nat
        <5>1. RowNumber(f, r) \in Nat
          BY <1>1, RowNumbers
        <5>2. QED
          BY <4>4, <5>1
      <4>6. QED
        BY <2>2, <4>2, <4>5 DEF Accepts
    <3>4. Retested(Filtered', max) = {}
      BY <1>1, <3>1, RowNumbers DEF Retested
    <3>5. QED
      BY <1>a, <2>1, <3>2, <3>3, <3>4 DEF InStep
  <2>3. CASE max # 0
    <3>1. \A r \in Filtered' : Accepts(max, RowNumber(Filtered', r))
      <4>1. \A r \in Filtered' : RowNumber(Filtered', r) \in Nat /\ RowNumber(Filtered', r) < n
        BY <1>1, RowNumbers
      <4>2. QED
        BY <1>2, <1>6, <1>a, <2>3, <4>1 DEF Accepts
    <3>2. Retested(Filtered', max) = Filtered'
      BY <3>1 DEF Retested
    <3>3. QED
      BY <1>3, <2>1, <3>2 DEF InStep
  <2>4. QED
    BY <2>2, <2>3
<1>7. QED
  BY <1>5, <1>6

\* One row that goes: a list shorter than its cap showed all of it before.
LEMMA RemoveInStep ==
  ASSUME TypeOK, InStep, NEW r \in base, Remove({r})
  PROVE  InStep'
<1> DEFINE f == Filtered
           n == Cardinality(Filtered')
<1>a. max \in Nat \union {-1} /\ base \subseteq Rows /\ shown = Retested(f, max)
  BY DEF TypeOK, InStep
<1>b. base' = base \ {r} /\ matching' = matching /\ max' = max
  BY DEF Remove, KeepCaps
<1>1. Filtered' = f \ {r} /\ f \in SUBSET Rows /\ Filtered' \in SUBSET Rows
  BY <1>a, <1>b DEF Filtered
<1>2. CASE max > 0 /\ max <= n
  BY <1>2, <1>b DEF Remove, KeepCaps, InStep
<1>3. CASE ~(max > 0 /\ max <= n)
  <2>1. shown' = shown \ {r}
    BY <1>3 DEF Remove, KeepCaps
  <2>2. CASE max = 0
    <3>1. \A k \in Nat : ~Accepts(max, k)
      BY <2>2 DEF Accepts
    <3>2. Retested(f, max) = {} /\ Retested(Filtered', max) = {}
      BY <1>1, <3>1, RowNumbers DEF Retested
    <3>3. QED
      BY <1>a, <1>b, <2>1, <3>2 DEF InStep
  <2>3. CASE max # 0
    <3>1. n \in Nat /\ Cardinality(f) \in Nat /\ Cardinality(f) <= n + 1
      <4>1. n \in Nat /\ Cardinality(f) \in Nat /\ IsFiniteSet(f)
        BY <1>1, RowNumbers
      <4>2. n = IF r \in f THEN Cardinality(f) - 1 ELSE Cardinality(f)
        BY <1>1, <4>1, FS_RemoveElement
      <4>3. QED
        BY <4>1, <4>2
    <3>2. \A g \in SUBSET Rows : Cardinality(g) <= n + 1 => Retested(g, max) = g
      <4>1. SUFFICES ASSUME NEW g \in SUBSET Rows, Cardinality(g) <= n + 1
                     PROVE  \A q \in g : Accepts(max, RowNumber(g, q))
        BY DEF Retested
      <4>2. /\ Cardinality(g) \in Nat
            /\ \A q \in g : RowNumber(g, q) \in Nat /\ RowNumber(g, q) < Cardinality(g)
        BY RowNumbers
      <4>3. max = -1 \/ max >= n + 1
        BY <1>3, <1>a, <2>3, <3>1
      <4>4. QED
        BY <1>a, <3>1, <4>1, <4>2, <4>3 DEF Accepts
    <3>3. Retested(f, max) = f /\ Retested(Filtered', max) = Filtered'
      <4>1. Cardinality(Filtered') <= n + 1
        BY <3>1
      <4> HIDE DEF f, n
      <4>2. Retested(f, max) = f
        BY <1>1, <3>1, <3>2
      <4>3. Retested(Filtered', max) = Filtered'
        BY <1>1, <3>2, <4>1
      <4>4. QED
        BY <4>2, <4>3
    <3>4. QED
      BY <1>1, <1>a, <1>b, <2>1, <3>3 DEF InStep
  <2>4. QED
    BY <2>2, <2>3
<1>4. QED
  BY <1>2, <1>3

\* A search: a list without a cap takes in whatever matches, and one with a cap
\* is tested anew.
LEMMA SetFilterInStep ==
  ASSUME TypeOK, InStep, NEW f \in Filters, SetFilter(f)
  PROVE  InStep'
<1>1. max' = max /\ max \in Nat \union {-1}
  BY DEF SetFilter, KeepCaps, TypeOK
<1>2. CASE max >= 0
  BY <1>1, <1>2 DEF SetFilter, KeepCaps, InStep
<1>3. CASE max = -1
  <2>1. \A n : Accepts(max, n)
    BY <1>3 DEF Accepts
  <2>2. \A g : Retested(g, max) = g
    BY <2>1 DEF Retested
  <2>3. \A g, added : TestedOnInsertion(g, added, max) = added
    BY <2>1 DEF TestedOnInsertion
  <2>4. shown = Filtered
    BY <2>2 DEF InStep
  <2>5. shown' = Refiltered
    BY <1>3 DEF SetFilter, KeepCaps
  <2>6. Refiltered = Filtered'
    BY <2>3, <2>4 DEF Refiltered
  <2>7. QED
    BY <1>1, <2>2, <2>5, <2>6 DEF InStep
<1>4. QED
  BY <1>1, <1>2, <1>3

\* The setters, a page and a jump: the list stays and the cap is asked for.
LEMMA CapInStep ==
  ASSUME TypeOK, InStep,
         \/ \E i \in Initials : SetInitial(i)
         \/ \E l \in Limits : SetLimit(l)
         \/ SetMaxToInitial
         \/ DisplayMore
         \/ \E r \in Rows : LoadUntil(r)
  PROVE  InStep'
<1>a. /\ max \in Nat \union {-1} /\ initial \in Nat \union {-1} /\ step \in Nat \ {0}
      /\ limit \in Limits /\ limit \in Nat \union {-1} /\ shown = Retested(Filtered, max)
  BY DEF TypeOK, InStep
<1>b. Filtered \in SUBSET Rows
  BY FilteredRows
<1>c. UNCHANGED <<base, matching>> /\ Filtered' = Filtered
  BY DEF SetInitial, SetLimit, SetMaxToInitial, DisplayMore, LoadUntil, Filtered
<1>1. ASSUME NEW requested \in Nat, limit' \in Limits, SetMax(requested, Filtered, shown)
      PROVE  InStep'
  BY <1>1, <1>a, <1>b, <1>c, SetMaxInStep DEF InStep
<1>2. ASSUME NEW i \in Initials, SetInitial(i)
      PROVE  InStep'
  <2>1. max' \in Nat \union {-1}
    BY <1>2, <1>a DEF SetInitial
  <2>2. shown' = IF DisplayCount(Cardinality(Filtered), max')
                    # DisplayCount(Cardinality(Filtered), max)
                 THEN Retested(Filtered, max') ELSE shown
    BY <1>2 DEF SetInitial
  <2>3. shown' = Retested(Filtered, max')
    BY <1>a, <1>b, <2>1, <2>2, SameCountSameRows
  <2>4. QED
    BY <1>c, <2>3 DEF InStep
<1>3. ASSUME NEW l \in Limits, SetLimit(l)
      PROVE  InStep'
  <2>1. l \in Nat \union {-1} /\ limit' = l
    BY <1>3 DEF SetLimit
  <2>2. CASE l >= 0 /\ (max < 0 \/ max > l)
    BY <1>1, <1>3, <2>1, <2>2 DEF SetLimit
  <2>3. CASE ~(l >= 0 /\ (max < 0 \/ max > l))
    <3>1. max' = max /\ shown' = shown
      BY <1>3, <2>3 DEF SetLimit, KeepCaps
    <3>2. QED
      BY <1>a, <1>c, <3>1 DEF InStep
  <2>4. QED
    BY <2>2, <2>3
<1>4. CASE SetMaxToInitial
  BY <1>1, <1>4, <1>a DEF SetMaxToInitial
<1>5. CASE DisplayMore
  <2>1. max + step \in Nat
    BY <1>5, <1>a DEF DisplayMore
  <2>2. Cardinality(Filtered) \in Nat
    BY <1>b, RowNumbers
  <2>3. DisplayCount(Cardinality(Filtered), max + step) \in Nat
    BY <2>1, <2>2, Displayed
  <2>4. QED
    BY <1>1, <1>5, <1>a, <2>3 DEF DisplayMore
<1>6. ASSUME NEW r \in Rows, LoadUntil(r)
      PROVE  InStep'
  <2> DEFINE n == IF r \in Filtered THEN RowNumber(Filtered, r) ELSE -1
  <2>1. n \in Nat \union {-1}
    BY <1>b, RowNumbers
  <2>2. n + step \in Nat
    BY <1>a, <2>1
  <2>3. SetMax(n + step, Filtered, shown) /\ limit' = limit
    BY <1>6 DEF LoadUntil
  <2>4. QED
    BY <1>1, <1>a, <2>2, <2>3
<1>7. QED
  BY <1>2, <1>3, <1>4, <1>5, <1>6

\* A list in step stays in step through every change it is told of, for every
\* list, search, cap, ceiling and step: setMaxDisplayItems skips no re-test that
\* is needed, and onAdded and onRemoved leave none out (LimitProxy.cpp:128-264).
THEOREM InStepSafety == Spec => StaysInStep
<1>1. TypeOK /\ [Next]_vars => [InStep /\ ~InStep' => ~ToldOf]_vars
  <2>1. SUFFICES ASSUME TypeOK, InStep, ToldOf PROVE InStep'
    OBVIOUS
  <2>2. ASSUME NEW S \in SUBSET Rows, Reset(S)
        PROVE  InStep'
    BY <2>2 DEF Reset, KeepCaps, InStep
  <2>3. QED
    BY <2>1, <2>2, InsertInStep, RemoveInStep, SetFilterInStep, CapInStep DEF ToldOf
<1>2. QED
  BY <1>1, TypeSafety, PTL DEF Spec, StaysInStep

-----------------------------------------------------------------------------
(* Arrivals and pages *)

\* n rows that arrive move a row down by n at most.
LEMMA RowsMoveDown ==
  ASSUME NEW f \in SUBSET Rows, NEW S \in SUBSET Rows, NEW g \in SUBSET (f \union S), NEW r
  PROVE  RowNumber(g, r) <= RowNumber(f, r) + Cardinality(S)
<1> DEFINE A == {q \in g : q < r}
           B == {q \in f : q < r}
<1>1. IsFiniteSet(B) /\ IsFiniteSet(S)
  BY RowNumbers, FS_Subset
<1>2. /\ IsFiniteSet(B \union S)
      /\ Cardinality(B \union S) = Cardinality(B) + Cardinality(S) - Cardinality(B \intersect S)
  BY <1>1, FS_Union
<1>3. A \in SUBSET (B \union S) /\ B \intersect S \in SUBSET B
  OBVIOUS
<1>4. IsFiniteSet(B \intersect S) /\ Cardinality(A) <= Cardinality(B \union S)
  BY <1>1, <1>2, <1>3, FS_Subset
<1>5. /\ Cardinality(B) \in Nat /\ Cardinality(S) \in Nat /\ Cardinality(B \intersect S) \in Nat
      /\ IsFiniteSet(A)
  BY <1>1, <1>2, <1>3, <1>4, FS_CardinalityType, FS_Subset
<1>6. Cardinality(A) \in Nat
  BY <1>5, FS_CardinalityType
<1>7. RowNumber(g, r) = Cardinality(A) /\ RowNumber(f, r) = Cardinality(B)
  BY DEF RowNumber
<1>8. QED
  BY <1>2, <1>4, <1>5, <1>6, <1>7

\* Where there is no ceiling, a row that arrives pushes no other off:
\* onAdded grows the cap by as many rows as rows can have moved down
\* (LimitProxy.cpp:251-257).
THEOREM ArrivalSafety == Spec => ArrivalsPushNothingOff
<1>1. TypeOK /\ [Next]_vars =>
        [InStep /\ limit < 0 /\ ~(shown \subseteq shown') => ~\E S \in SUBSET Rows : Insert(S)]_vars
  <2>1. SUFFICES ASSUME TypeOK, InStep, limit < 0, NEW S \in SUBSET Rows, Insert(S)
                 PROVE  shown \subseteq shown'
    OBVIOUS
  <2> DEFINE s == shown \union TestedOnInsertion(Filtered, S \intersect matching, max)
  <2>2. /\ base \subseteq Rows /\ max \in Nat \union {-1} /\ limit \in Nat \union {-1}
        /\ shown = Retested(Filtered, max) /\ Filtered \in SUBSET Rows
    BY <2>1, FilteredRows DEF TypeOK, InStep
  <2>3. base' = base \union S /\ matching' = matching /\ limit' = limit
    BY <2>1 DEF Insert
  <2>4. /\ Filtered \subseteq Filtered' /\ Filtered' \in SUBSET (Filtered \union S)
        /\ Filtered' \in SUBSET Rows
    BY <2>2, <2>3 DEF Filtered
  <2>5. CASE max > 0 /\ max <= Cardinality(Filtered')
    <3>1. Cardinality(S) \in Nat
      BY FS_Subset, FS_CardinalityType
    <3>2. SetMax(max + Cardinality(S), Filtered', s)
      BY <2>1, <2>5 DEF Insert
    <3>3. shown' = Retested(Filtered', max + Cardinality(S)) \/ shown' = s
      BY <2>1, <2>2, <2>3, <3>2 DEF SetMax
    <3>4. ASSUME NEW r \in shown PROVE r \in Retested(Filtered', max + Cardinality(S))
      <4>1. r \in Filtered /\ Accepts(max, RowNumber(Filtered, r))
        BY <2>2 DEF Retested
      <4>2. RowNumber(Filtered, r) \in Nat /\ RowNumber(Filtered', r) \in Nat
        BY <2>2, <2>4, RowNumbers
      <4>3. RowNumber(Filtered', r) <= RowNumber(Filtered, r) + Cardinality(S)
        BY <2>2, <2>4, RowsMoveDown
      <4>4. Accepts(max + Cardinality(S), RowNumber(Filtered', r))
        BY <2>2, <2>5, <3>1, <4>1, <4>2, <4>3 DEF Accepts
      <4>5. QED
        BY <2>4, <4>1, <4>4 DEF Retested
    <3>5. QED
      BY <3>3, <3>4
  <2>6. CASE ~(max > 0 /\ max <= Cardinality(Filtered'))
    BY <2>1, <2>6 DEF Insert, KeepCaps
  <2>7. QED
    BY <2>5, <2>6
<1>2. QED
  BY <1>1, TypeSafety, PTL DEF Spec, ArrivalsPushNothingOff

\* A page of a list that has more takes the cap up and shows at least one more
\* row, also where a search has left fewer rows than a step (LimitProxy.cpp:241-249).
THEOREM PagingSafety == Spec => PagingShowsMore
<1>1. TypeOK /\ [Next]_vars =>
        [InStep /\ DisplayMore /\ HaveMore
           => shown \subseteq shown' /\ shown # shown' /\ max' > max]_vars
  <2>1. SUFFICES ASSUME TypeOK, InStep, DisplayMore, HaveMore
                 PROVE  shown \subseteq shown' /\ shown # shown' /\ max' > max
    OBVIOUS
  <2> DEFINE f == Filtered
             n == Cardinality(f)
             newCount == DisplayCount(n, max + step)
  <2>2. /\ f \in SUBSET Rows /\ n \in Nat
        /\ max \in Nat /\ step \in Nat \ {0} /\ limit \in Nat \union {-1}
        /\ shown = Retested(f, max) /\ limit' = limit
    BY <2>1, FilteredRows, RowNumbers DEF TypeOK, InStep, DisplayMore
  <2>3. /\ Cardinality(shown) = DisplayCount(n, max) /\ Cardinality(shown) < n
        /\ ~(limit >= 0 /\ max >= limit)
    BY <2>1, <2>2, RetestedIsTheFirst DEF HaveMore, DisplayMore
  <2>4. max < n /\ DisplayCount(n, max) = max
    BY <2>2, <2>3 DEF DisplayCount
  <2>5. newCount \in Nat /\ newCount > max /\ newCount <= n
    BY <2>2, <2>4 DEF DisplayCount
  <2>6. SetMax(newCount, f, shown)
    BY <2>1 DEF DisplayMore
  <2>7. max' = IF limit >= 0 /\ newCount > limit THEN limit ELSE newCount
    BY <2>2, <2>6 DEF SetMax
  <2>8. max' \in Nat /\ max' > max /\ max' <= n
    BY <2>2, <2>3, <2>5, <2>7
  <2>9. DisplayCount(n, max') = max'
    BY <2>2, <2>8 DEF DisplayCount
  <2>10. shown' = Retested(f, max')
    <3>1. limit' \in Limits
      BY <2>1, <2>2 DEF TypeOK
    <3>2. QED
      BY <2>1, <2>2, <2>5, <2>6, <3>1, SetMaxInStep
  <2>11. Cardinality(shown') = max' /\ Cardinality(shown) = max
    BY <2>2, <2>3, <2>4, <2>8, <2>9, <2>10, RetestedIsTheFirst
  <2>12. shown \subseteq shown'
    <3>1. \A r \in f : RowNumber(f, r) \in Nat
      BY <2>2, RowNumbers
    <3>2. \A r \in f : Accepts(max, RowNumber(f, r)) => Accepts(max', RowNumber(f, r))
      BY <2>2, <2>8, <3>1 DEF Accepts
    <3>3. QED
      BY <2>2, <2>10, <3>2 DEF Retested
  <2>13. QED
    BY <2>2, <2>8, <2>11, <2>12
<1>2. QED
  BY <1>1, TypeSafety, PTL DEF Spec, PagingShowsMore

=============================================================================
