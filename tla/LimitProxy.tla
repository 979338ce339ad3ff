----------------------------- MODULE LimitProxy -----------------------------
(***************************************************************************)
(* core/proxy/LimitProxy.cpp: the cap on the rows a list view shows.       *)
(*                                                                         *)
(* Three models sit on one another: the list itself (base), a              *)
(* SortFilterProxy that sorts it and keeps the rows that match the search  *)
(* (Filtered), and the LimitProxy, which keeps the rows whose number is    *)
(* below maxDisplayItems (shown).  The cap tests row numbers, and Qt's     *)
(* QSortFilterProxyModel tests a row when it is inserted and never when it *)
(* only moves, so what is shown is right only if the code re-tests at the  *)
(* right moments.                                                          *)
(*                                                                         *)
(* A row is a number, and numbers are the sort order.                      *)
(***************************************************************************)
EXTENDS Integers, FiniteSets

CONSTANTS
  Rows,         \* bound: the contacts or calls a list can hold, as numbers
  Filters,      \* the sets of rows that the search texts and types can match
  Initials,     \* values QML gives initialDisplayItems
  Steps,        \* values QML gives displayItemsStep
  Limits        \* values QML gives displayLimit (-1: no ceiling)

ASSUME RowsAreNumbers == Rows \subseteq Int /\ IsFiniteSet(Rows)
ASSUME FiltersSelectRows == Filters \subseteq SUBSET Rows /\ Rows \in Filters
ASSUME CapsAreCaps ==
  /\ Initials \subseteq Nat \union {-1}
  /\ Steps \subseteq Nat \ {0}
  /\ Limits \subseteq Nat \union {-1} /\ -1 \in Limits

VARIABLES
  base,      \* the rows in the list
  matching,  \* the rows the current filter would keep
  initial,   \* mInitialDisplayItems
  max,       \* mMaxDisplayItems, -1 for no cap
  step,      \* mDisplayItemsStep
  limit,     \* mDisplayLimit, -1 for no ceiling
  shown      \* the rows of the filtered list that the proxy maps

caps == <<initial, max, step, limit>>
vars == <<base, matching, initial, max, step, limit, shown>>

Filtered == base \intersect matching

TypeOK ==
  /\ base \subseteq Rows
  /\ matching \in Filters
  /\ initial \in Nat \union {-1}
  /\ max \in Nat \union {-1}
  /\ step \in Nat \ {0}
  /\ limit \in Limits
  /\ shown \subseteq Filtered

Init ==
  /\ base = {}
  /\ matching = Rows
  /\ initial = -1 /\ max = -1 /\ step = 5 /\ limit = -1
  /\ shown = {}

-----------------------------------------------------------------------------
(* The row filter *)

\* The number of row r in the filtered list f.
RowNumber(f, r) == Cardinality({q \in f : q < r})

\* filterAcceptsRow, for the row with number n.
Accepts(m, n) == m = -1 \/ n < m

\* invalidate, invalidateRowsFilter or a layout change: every row is re-tested.
Retested(f, m) == {r \in f : Accepts(m, RowNumber(f, r))}

\* Rows added to the filtered list f go in as runs of neighbours, the last run
\* first, and each is tested once, at the number it has then.
TestedOnInsertion(f, added, m) ==
  {r \in added :
     LET run == {q \in added : q < r /\ ~\E p \in f : q < p /\ p < r}
     IN  Accepts(m, RowNumber(f, r) + Cardinality(run))}

DisplayCount(n, m) == IF m >= 0 /\ m < n THEN m ELSE n

-----------------------------------------------------------------------------
(* The caps: each operator gives the primed caps and the rows that are mapped
   afterwards, from the filtered list f and the rows s mapped before. *)

\* Mutant: no ceiling.
SetMaxUnclamped(requested, f, s) ==
  /\ max' = requested
  /\ initial' = IF requested # max /\ initial > requested THEN requested ELSE initial
  /\ step' = step
  /\ shown' = IF DisplayCount(Cardinality(f), requested) # DisplayCount(Cardinality(f), max)
              THEN Retested(f, requested) ELSE s

\* setMaxDisplayItems.  At the ceiling a request for more only re-tests, and
\* only if the number of rows is off (resyncRowFilter).
SetMax(requested, f, s) ==
  LET capped == limit' >= 0 /\ requested > limit'
      m == IF capped THEN limit' ELSE requested
      n == Cardinality(f)
  IN  /\ max' = m
      /\ initial' = IF m # max /\ initial > m THEN m ELSE initial
      /\ step' = step
      /\ shown' =
           IF m = max
           THEN IF capped /\ Cardinality(s) # DisplayCount(n, max) THEN Retested(f, m) ELSE s
           ELSE IF DisplayCount(n, m) # DisplayCount(n, max) THEN Retested(f, m) ELSE s

KeepCaps(s) == UNCHANGED <<initial, max, step>> /\ shown' = s

\* setInitialDisplayItems: a cap that is not above the new value follows it.
SetInitial(i) ==
  LET v == IF limit >= 0 /\ i > limit THEN limit ELSE i
  IN  /\ v # initial
      /\ initial' = v
      /\ max' = IF max <= v THEN v ELSE max
      /\ shown' = IF DisplayCount(Cardinality(Filtered), max') # DisplayCount(Cardinality(Filtered), max)
                  THEN Retested(Filtered, max') ELSE shown
      /\ UNCHANGED <<base, matching, step, limit>>

\* QML's onInitialDisplayItemsChanged and onModelReset: maxDisplayItems =
\* initialDisplayItems.
SetMaxToInitial ==
  /\ initial >= 0
  /\ UNCHANGED <<base, matching, limit>>
  /\ SetMax(initial, Filtered, shown)

\* setDisplayLimit: a cap above the new ceiling comes down to it.
SetLimit(l) ==
  /\ l # limit
  /\ limit' = l
  /\ UNCHANGED <<base, matching>>
  /\ IF l >= 0 /\ (max < 0 \/ max > l) THEN SetMax(l, Filtered, shown) ELSE KeepCaps(shown)

\* setDisplayItemsStep
SetStep(n) ==
  /\ n # step
  /\ step' = n
  /\ UNCHANGED <<base, matching, initial, max, limit, shown>>

HaveMore == Cardinality(shown) < Cardinality(Filtered)

\* Mutant: pages from the initial cap instead of the present one.
DisplayMoreFromInitial ==
  /\ max >= 0
  /\ ~(limit >= 0 /\ max >= limit)
  /\ LET newCount == DisplayCount(Cardinality(Filtered), initial + step)
     IN  /\ newCount # Cardinality(shown)
         /\ UNCHANGED <<base, matching, limit>>
         /\ SetMax(newCount, Filtered, shown)

\* displayMore, which the views ask for at their end on a list that is capped.
DisplayMore ==
  /\ max >= 0
  /\ ~(limit >= 0 /\ max >= limit)
  /\ LET newCount == DisplayCount(Cardinality(Filtered), max + step)
     IN  /\ newCount # Cardinality(shown)
         /\ UNCHANGED <<base, matching, limit>>
         /\ SetMax(newCount, Filtered, shown)

\* MagicSearchProxy::loadUntil: raises the cap until row r is under it.  A row
\* that is filtered out has the number -1.
LoadUntil(r) ==
  LET n == IF r \in Filtered THEN RowNumber(Filtered, r) ELSE -1
  IN  /\ r \in base
      /\ max <= n
      /\ UNCHANGED <<base, matching, limit>>
      /\ SetMax(n + step, Filtered, shown)

-----------------------------------------------------------------------------
(* Changes of the list *)

\* Mutant: an arriving row re-tests a full list instead of growing its cap.
InsertWithoutGrowth(S) ==
  /\ base' = base \union S
  /\ UNCHANGED <<matching, limit>>
  /\ KeepCaps(Retested(Filtered', max))

\* One rowsInserted of the list, for the rows of S: the filter takes in those
\* that match, then onAdded grows a cap the list has reached by the rows added.
Insert(S) ==
  /\ base' = base \union S
  /\ UNCHANGED <<matching, limit>>
  /\ LET s == shown \union TestedOnInsertion(Filtered, S \intersect matching, max)
     IN  IF max > 0 /\ max <= Cardinality(Filtered')
         THEN SetMax(max + Cardinality(S), Filtered', s)
         ELSE KeepCaps(s)

\* Mutant: the rows that went stay mapped.
RemoveStillMapped(S) ==
  /\ base' = base \ S
  /\ UNCHANGED <<matching, limit>>
  /\ KeepCaps(shown)

\* One rowsRemoved of the list: the rows go, then onRemoved re-tests a list
\* that still has as many rows as the cap.
Remove(S) ==
  /\ base' = base \ S
  /\ UNCHANGED <<matching, limit>>
  /\ KeepCaps(IF max > 0 /\ max <= Cardinality(Filtered')
              THEN Retested(Filtered', max) ELSE shown \ S)

\* modelReset: resetData of the list.
Reset(S) ==
  /\ base' = S
  /\ UNCHANGED <<matching, limit>>
  /\ KeepCaps(Retested(Filtered', max))

\* What the filter's own re-test leaves mapped when it keeps other rows: those
\* that no longer match go, then those that match again are inserted.
Refiltered == (shown \intersect Filtered') \union
              TestedOnInsertion(Filtered \intersect Filtered', Filtered' \ Filtered, max)

\* Mutant: the cap is not re-tested after a search.
SetFilterOnly(f) ==
  /\ f # matching
  /\ matching' = f
  /\ UNCHANGED <<base, limit>>
  /\ KeepCaps(Refiltered)

\* setFilterText or setFilterType, and onSourceFilterChanged.
SetFilter(f) ==
  /\ f # matching
  /\ matching' = f
  /\ UNCHANGED <<base, limit>>
  /\ KeepCaps(IF max >= 0 THEN Retested(Filtered', max) ELSE Refiltered)

\* invalidateFilter of the SortFilterProxy alone: the proxy whose contacts this
\* view hides has changed (MagicSearchProxy::setHideListProxy).
HiddenListChanged(f) ==
  /\ f # matching
  /\ matching' = f
  /\ UNCHANGED <<base, limit>>
  /\ KeepCaps(Refiltered)

\* dataChanged of row r, whose details are now those of row q: it may leave or
\* enter the filtered list, or move in it, which is a layout change.
Edit(r, q) ==
  /\ base' = (base \ {r}) \union {q}
  /\ UNCHANGED <<matching, limit>>
  /\ KeepCaps(
       IF r \in matching /\ q \in matching
       THEN IF RowNumber(Filtered, r) = RowNumber(Filtered', q)
            THEN IF r \in shown THEN (shown \ {r}) \union {q} ELSE shown
            ELSE Retested(Filtered', max)
       ELSE (shown \ {r}) \union TestedOnInsertion(Filtered \ {r}, {q} \intersect matching, max))

Next ==
  \/ \E S \in (SUBSET (Rows \ base)) \ {{}} : Insert(S)
  \/ \E S \in (SUBSET base) \ {{}} : Remove(S)
  \/ \E S \in SUBSET Rows : Reset(S)
  \/ \E f \in Filters : SetFilter(f) \/ HiddenListChanged(f)
  \/ \E r \in base, q \in Rows \ base : Edit(r, q)
  \/ \E i \in Initials : SetInitial(i)
  \/ \E n \in Steps : SetStep(n)
  \/ \E l \in Limits : SetLimit(l)
  \/ SetMaxToInitial
  \/ DisplayMore
  \/ \E r \in Rows : LoadUntil(r)

Spec == Init /\ [][Next]_vars

-----------------------------------------------------------------------------
(* Properties *)

\* "Filter first, then cap": the list shows exactly the first maxDisplayItems
\* rows of the filtered list.
InStep == shown = Retested(Filtered, max)

\* The changes the proxy is told of and reacts to.
ToldOf ==
  \/ \E S \in (SUBSET (Rows \ base)) \ {{}} : Insert(S)
  \/ \E r \in base : Remove({r})
  \/ \E S \in SUBSET Rows : Reset(S)
  \/ \E f \in Filters : SetFilter(f)
  \/ \E i \in Initials : SetInitial(i)
  \/ \E l \in Limits : SetLimit(l)
  \/ SetMaxToInitial
  \/ DisplayMore
  \/ \E r \in Rows : LoadUntil(r)

\* A list in step stays in step: rows that arrive in any batch, a row that
\* goes, a reset, a search, a cap, a ceiling, a page or a jump to a contact
\* leave it showing its first rows (tst_LimitProxy.cpp, randomSearches and
\* ceilingHoldsWhenRowsArrive).
StaysInStep == [][InStep /\ ~InStep' => ~ToldOf]_vars

\* The same of every change there is: "After any change, the list should show
\* exactly the first maxDisplayItems rows of the filtered list, in order"
\* (nm-pbx-docs/tests.md:51-52).
AnyChangeStaysInStep == [][InStep => InStep']_vars

\* Paging, arriving rows and jumps never take the cap past the ceiling,
\* whatever the order in which QML binds cap and ceiling (LimitProxy.cpp:129-130
\* and 165-166).
CeilingHolds == limit >= 0 => max \in 0 .. limit

\* A row that arrives pushes no other row off a list that may still grow
\* (tests.md, arrivingRowIsShownOnAPagingList).
ArrivalsPushNothingOff ==
  [][InStep /\ limit < 0 /\ ~(shown \subseteq shown') => ~\E S \in SUBSET Rows : Insert(S)]_vars

\* Asking for more while there is more hides nothing, lowers no cap and shows
\* at least one more row (tests.md, mainListPagingDuringASearchDoesNotShrinkTheList).
PagingShowsMore ==
  [][InStep /\ DisplayMore /\ HaveMore => shown \subseteq shown' /\ shown # shown' /\ max' > max]_vars

=============================================================================
