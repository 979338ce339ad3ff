------------------------- MODULE CallerLookupProofs -------------------------
(* What the caches of the caller lookup keep to for every address book, whatever the
   accounts, the dial plans and the order in which changes are announced. *)
EXTENDS CallerLookup, FiniteSetTheorems, WellFoundedInduction, TLAPS

-----------------------------------------------------------------------------
(* The first friend and the accounts in their order *)

\* A finite set of numbers has a least and a greatest one: of the sets of the numbers up
\* to one of them, and from one of them, some is minimal.
LEMMA Extremes ==
  ASSUME NEW S \in SUBSET Nat, IsFiniteSet(S), S # {}
  PROVE  /\ Min(S) \in S /\ \A y \in S : Min(S) <= y
         /\ Max(S) \in S /\ \A y \in S : Max(S) >= y
<1> DEFINE Below(x) == {y \in S : y <= x}
           Above(x) == {y \in S : y >= x}
           R == StrictSubsetOrdering(S)
<1>1. IsWellFoundedOn(R, FiniteSubsetsOf(S))
  BY FS_StrictSubsetOrderingWellFounded
<1>2. \A x \in S : Below(x) \in FiniteSubsetsOf(S) /\ Above(x) \in FiniteSubsetsOf(S)
  <2>1. \A U \in SUBSET S : U \in FiniteSubsetsOf(S)
    BY FS_Subset DEF FiniteSubsetsOf
  <2>2. QED
    BY <2>1
<1>a. \A x, y \in S : x <= y \/ y < x
  OBVIOUS
<1>3. \E x \in S : \A y \in S : x <= y
  <2> DEFINE T == {U \in FiniteSubsetsOf(S) : \E x \in S : U = Below(x)}
  <2>1. T \subseteq FiniteSubsetsOf(S) /\ T # {}
    <3>1. PICK x \in S : TRUE
      OBVIOUS
    <3>2. Below(x) \in T
      BY <1>2
    <3>3. QED
      BY <3>2
  <2>2. PICK t \in T : \A u \in T : <<u, t>> \notin R
    <3> HIDE DEF T, R
    <3>1. QED
      BY <1>1, <2>1, WFMin
  <2>3. PICK x \in S : t = Below(x)
    OBVIOUS
  <2>4. ASSUME NEW y \in S, y < x PROVE FALSE
    <3>1. x \in Nat /\ y \in Nat
      OBVIOUS
    <3>2. \A z \in S : z \in Nat /\ (z <= y => z <= x)
      BY <2>4, <3>1
    <3>3. Below(y) \subseteq Below(x)
      BY <3>2
    <3>4. x \in Below(x) /\ x \notin Below(y)
      BY <2>4, <3>1
    <3>5. Below(y) \in SUBSET S /\ Below(x) \in SUBSET S /\ Below(y) # Below(x)
      BY <3>4
    <3>6. <<Below(y), Below(x)>> \in R
      <4> HIDE DEF Below
      <4>1. QED
        BY <3>3, <3>5 DEF StrictSubsetOrdering
    <3>7. Below(y) \in T
      BY <1>2
    <3>8. QED
      BY <2>2, <2>3, <3>6, <3>7
  <2>5. QED
    BY <1>a, <2>4
<1>4. \E x \in S : \A y \in S : x >= y
  <2> DEFINE T == {U \in FiniteSubsetsOf(S) : \E x \in S : U = Above(x)}
  <2>1. T \subseteq FiniteSubsetsOf(S) /\ T # {}
    <3>1. PICK x \in S : TRUE
      OBVIOUS
    <3>2. Above(x) \in T
      BY <1>2
    <3>3. QED
      BY <3>2
  <2>2. PICK t \in T : \A u \in T : <<u, t>> \notin R
    <3> HIDE DEF T, R
    <3>1. QED
      BY <1>1, <2>1, WFMin
  <2>3. PICK x \in S : t = Above(x)
    OBVIOUS
  <2>4. ASSUME NEW y \in S, x < y PROVE FALSE
    <3>1. x \in Nat /\ y \in Nat
      OBVIOUS
    <3>2. \A z \in S : z \in Nat /\ (z >= y => z >= x)
      BY <2>4, <3>1
    <3>3. Above(y) \subseteq Above(x)
      BY <3>2
    <3>4. x \in Above(x) /\ x \notin Above(y)
      BY <2>4, <3>1
    <3>5. Above(y) \in SUBSET S /\ Above(x) \in SUBSET S /\ Above(y) # Above(x)
      BY <3>4
    <3>6. <<Above(y), Above(x)>> \in R
      <4> HIDE DEF Above
      <4>1. QED
        BY <3>3, <3>5 DEF StrictSubsetOrdering
    <3>7. Above(y) \in T
      BY <1>2
    <3>8. QED
      BY <2>2, <2>3, <3>6, <3>7
  <2>5. QED
    BY <1>a, <2>4
<1>5. QED
  BY <1>3, <1>4 DEF Min, Max

USE OrdersAreNumbers, NothingIsNothing, CardsHoldThings, TablesAreTotal

\* The first friend of some is one of them, and of none nobody.
LEMMA FirstOfFriends ==
  ASSUME NEW S \in SUBSET Friends
  PROVE  /\ First(S) \in S \union {Nothing}
         /\ First(S) = Nothing <=> S = {}
<1>1. IsFiniteSet(S) /\ S \in SUBSET Nat
  BY FS_Subset
<1>2. CASE S = {}
  BY <1>2 DEF First
<1>3. CASE S # {}
  <2>1. Min(S) \in S
    BY <1>1, <1>3, Extremes
  <2>2. First(S) = Min(S) /\ Nothing \notin S
    BY <1>3 DEF First
  <2>3. QED
    BY <1>3, <2>1, <2>2
<1>4. QED
  BY <1>2, <1>3

\* A set of accounts that is not empty has a first and a last one.
LEMMA SomeAccounts ==
  ASSUME NEW S \in SUBSET Accounts, S # {}
  PROVE  /\ Min(S) \in S /\ \A y \in S : Min(S) <= y
         /\ Max(S) \in S /\ \A y \in S : Max(S) >= y
<1>1. IsFiniteSet(S) /\ S \in SUBSET Nat
  BY FS_Subset
<1>2. QED
  BY <1>1, Extremes
-----------------------------------------------------------------------------
(* Types *)

BookTypes ==
  /\ contact \in [Friends -> [list : Lists, card : Cards] \union {Nothing}]
  /\ lists \subseteq Lists /\ leaving \subseteq Lists \ lists
  /\ edited \subseteq Friends
  /\ plan \in [Accounts -> Plans] /\ domain \in Domains
  /\ directories \in BOOLEAN

Indexes == [Accounts -> [plan : Plans \union {Nothing},
                         holder : [Numbers -> Friends \union {Nothing}]]]

CacheTypes ==
  /\ known \in [Addresses -> Friends \union {Nothing}]
  /\ unknown \in [Addresses -> Friends \union {Nothing}]
  /\ other \subseteq Addresses
  /\ index \in Indexes

WatchTypes ==
  /\ watched \subseteq Lists
  /\ context \in [plan : [Accounts -> Plans], domain : Domains] \union {Nothing}

\* The type invariant in the parts that steps keep one by one.
LEMMA TypeParts ==
  /\ TypeOK <=> BookTypes /\ CacheTypes /\ WatchTypes
  /\ TypeOK' <=> BookTypes' /\ CacheTypes' /\ WatchTypes'
BY DEF TypeOK, BookTypes, CacheTypes, WatchTypes, Indexes

\* What a lookup may find: a friend or nobody, from indexes of the right type,
\* which it leaves of the right type.
LEMMA HolderType ==
  \A a : Holder(a) \in Friends \union {Nothing}
<1>1. SUFFICES ASSUME NEW a PROVE Holder(a) \in Friends \union {Nothing}
  OBVIOUS
<1>2. {f \in InBook : a \in contact[f].card.addresses} \in SUBSET Friends
  BY DEF InBook, InList
<1>3. QED
  BY <1>2, FirstOfFriends DEF Holder

\* An index brought up to date for an account, as getContactIndex() does, is an index.
LEMMA IndexType ==
  ASSUME BookTypes, NEW i \in Indexes, NEW a \in Accounts
  PROVE  UpToDate(i, a) \in [plan : Plans \union {Nothing},
                             holder : [Numbers -> Friends \union {Nothing}]]
<1>1. ASSUME NEW p \in Plans
      PROVE  IndexOf(p) \in [plan : Plans \union {Nothing},
                             holder : [Numbers -> Friends \union {Nothing}]]
  <2>1. \A n \in Numbers : First(HoldersOf(n, p)) \in Friends \union {Nothing}
    <3>1. \A n \in Numbers : HoldersOf(n, p) \in SUBSET Friends
      BY DEF HoldersOf, InBook, InList
    <3>2. QED
      BY <3>1, FirstOfFriends
  <2>2. [n \in Numbers |-> First(HoldersOf(n, p))] \in [Numbers -> Friends \union {Nothing}]
    BY <2>1
  <2>3. QED
    BY <2>2 DEF IndexOf
<1>2. plan[a] \in Plans
  BY DEF BookTypes
<1>3. i[a] \in [plan : Plans \union {Nothing}, holder : [Numbers -> Friends \union {Nothing}]]
  BY DEF Indexes
<1>4. QED
  BY <1>1, <1>2, <1>3 DEF UpToDate

\* The last account that is asked is an account: the first one always is.
LEMMA LastAsked ==
  ASSUME NEW i, NEW m
  PROVE  Max(AskedAccounts(i, m)) \in AskedAccounts(i, m) /\ Max(AskedAccounts(i, m)) \in Accounts
<1>1. AskedAccounts(i, m) \in SUBSET Accounts
  BY DEF AskedAccounts
<1>2. Min(Accounts) \in AskedAccounts(i, m)
  <2>1. Min(Accounts) \in Accounts /\ \A y \in Accounts : Min(Accounts) <= y
    BY SomeAccounts
  <2>2. \A b \in Accounts : ~(b < Min(Accounts))
    <3>1. Min(Accounts) \in Nat /\ \A b \in Accounts : b \in Nat
      BY <2>1
    <3>2. QED
      BY <2>1, <3>1
  <2>3. QED
    BY <2>1, <2>2 DEF AskedAccounts
<1>3. QED
  BY <1>1, <1>2, SomeAccounts

\* What findFriendByAddress() finds is a friend or nobody, and the indexes it leaves are indexes.
LEMMA FoundType ==
  ASSUME BookTypes, NEW i \in Indexes, NEW a \in Addresses
  PROVE  /\ Found(i, a) \in Friends \union {Nothing}
         /\ Asks(a) => IndexAfter(i, Number[a]) \in Indexes
<1>1. ASSUME NEW m \in Numbers
      PROVE  /\ FoundByNumber(i, m) \in Friends \union {Nothing}
             /\ IndexAfter(i, m) \in Indexes
  <2>1. ASSUME NEW b \in Accounts PROVE FoundIn(i, b, m) \in Friends \union {Nothing}
    <3>1. Normal[plan[b]][m] \in Numbers \union {Nothing}
      BY DEF BookTypes
    <3>2. UpToDate(i, b).holder \in [Numbers -> Friends \union {Nothing}]
      BY IndexType
    <3>3. QED
      BY <3>1, <3>2 DEF FoundIn
  <2>2. FoundByNumber(i, m) \in Friends \union {Nothing}
    BY <2>1, LastAsked DEF FoundByNumber
  <2>3. IndexAfter(i, m) \in Indexes
    BY IndexType DEF IndexAfter, Indexes
  <2>4. QED
    BY <2>2, <2>3
<1>2. Number[a] \in Numbers \union {Nothing}
  OBVIOUS
<1>3. Found(i, a) \in Friends \union {Nothing}
  BY <1>1, <1>2, HolderType DEF Found
<1>4. QED
  BY <1>1, <1>2, <1>3 DEF Asks

\* To begin with no index is built.
LEMMA NotBuiltType == [a \in Accounts |-> NotBuilt] \in Indexes
BY DEF NotBuilt, Indexes

\* The initial state is well typed.
LEMMA TypeInit == Init => TypeOK
BY NotBuiltType DEF Init, TypeOK, NobodyKnown, Indexes

\* Forgetting friends and misses keeps the types of the caches.
LEMMA ForgettingTypes ==
  ASSUME CacheTypes,
         (\E S : Forgotten(S)) \/ UNCHANGED <<known, unknown>>,
         MissesForgotten \/ UNCHANGED <<other, index>>
  PROVE  CacheTypes'
<1>1. known' \in [Addresses -> Friends \union {Nothing}]
      /\ unknown' \in [Addresses -> Friends \union {Nothing}]
  <2>1. ASSUME NEW S, Forgotten(S)
        PROVE  known' \in [Addresses -> Friends \union {Nothing}]
               /\ unknown' \in [Addresses -> Friends \union {Nothing}]
    BY <2>1 DEF CacheTypes, Forgotten, Without
  <2>2. QED
    BY <2>1 DEF CacheTypes
<1>2. other' \subseteq Addresses /\ index' \in Indexes
  BY NotBuiltType DEF CacheTypes, MissesForgotten
<1>3. QED
  BY <1>1, <1>2 DEF CacheTypes

\* A watcher that hears of a list, or is not attached to it, keeps the types of the caches.
LEMMA HearingTypes ==
  ASSUME CacheTypes, WatchTypes, NEW l, NEW S, WatcherHears(l, S)
  PROVE  CacheTypes' /\ WatchTypes'
<1>1. \/ Forgotten(S) /\ MissesForgotten
      \/ UNCHANGED <<known, unknown, other, index>>
  BY DEF WatcherHears, caches
<1>2. CacheTypes'
  BY <1>1, ForgettingTypes
<1>3. QED
  BY <1>2 DEF WatcherHears, WatchTypes

\* A contact put in place, or taken away, is one.
LEMMA PutTypes ==
  ASSUME BookTypes, NEW f \in Friends, NEW c \in Cards, NEW l \in Lists, Put(f, c, l),
         UNCHANGED <<lists, leaving, plan, domain, directories>>, edited' \subseteq Friends
  PROVE  BookTypes'
BY DEF BookTypes, Put

\* A friend that takes the place of another keeps the types of the books.
LEMMA SwapTypes ==
  ASSUME BookTypes, NEW f \in InBook, NEW g \in Friends, NEW c \in Cards, Swapped(f, g, c),
         UNCHANGED <<lists, leaving, plan, domain, directories, edited>>
  PROVE  BookTypes'
<1>1. f \in Friends /\ contact[f] # Nothing
  BY DEF InBook, InList
<1>2. contact[f].list \in Lists
  BY <1>1 DEF BookTypes
<1>3. [list |-> contact[f].list, card |-> c] \in [list : Lists, card : Cards]
  BY <1>2
<1>4. QED
  BY <1>1, <1>3 DEF BookTypes, Swapped

\* A friend that leaves the books keeps their types.
LEMMA RemovalTypes ==
  ASSUME BookTypes, NEW f \in Friends, contact' = [contact EXCEPT ![f] = Nothing],
         UNCHANGED <<lists, leaving, plan, domain, directories, edited>>
  PROVE  BookTypes'
BY DEF BookTypes

\* A friend that is filed under the addresses it holds keeps the types of the caches.
LEMMA FiledTypes ==
  ASSUME CacheTypes, NEW f \in Friends, NEW S, unknown' = Filed(f, S),
         other' = other \ S, UNCHANGED <<known, index>>
  PROVE  CacheTypes'
BY DEF CacheTypes, Filed

\* A lookup keeps every variable of its type.
LEMMA LookUpTypes ==
  ASSUME TypeOK, NEW a \in Addresses, LookUp(a)
  PROVE  TypeOK'
<1>a. BookTypes /\ CacheTypes /\ WatchTypes
  BY TypeParts
<1> DEFINE misses == IF AddressBookChanged THEN {} ELSE other
           i == IF AddressBookChanged THEN [b \in Accounts |-> NotBuilt] ELSE index
           f == Found(i, a)
<1>1. BookTypes'
  BY <1>a DEF LookUp, book, settings, BookTypes
<1>2. WatchTypes'
  BY <1>a DEF LookUp, WatchTypes, BookTypes
<1>3. CacheTypes'
  <2>1. CASE a \in misses
    BY <1>a, <2>1 DEF LookUp, caches, CacheTypes
  <2>2. CASE a \notin misses
    <3>1. i \in Indexes
      BY <1>a, NotBuiltType DEF CacheTypes
    <3>2. /\ index' = IF Asks(a) THEN IndexAfter(i, Number[a]) ELSE i
          /\ known' = [known EXCEPT ![a] = f]
          /\ other' = IF f = Nothing THEN misses \union {a} ELSE misses
          /\ unknown' = unknown
      BY <2>2 DEF LookUp
    <3> HIDE DEF i
    <3>3. f \in Friends \union {Nothing} /\ index' \in Indexes
      BY <1>a, <3>1, <3>2, FoundType
    <3> HIDE DEF f
    <3>4. QED
      BY <1>a, <3>2, <3>3 DEF CacheTypes
  <2>3. QED
    BY <2>1, <2>2
<1>4. QED
  BY <1>1, <1>2, <1>3, TypeParts

\* Every step does.
LEMMA TypeNext == TypeOK /\ [Next]_vars => TypeOK'
<1> SUFFICES ASSUME TypeOK, [Next]_vars PROVE TypeOK'
  OBVIOUS
<1>a. BookTypes /\ CacheTypes /\ WatchTypes
  BY TypeParts
<1>b. InBook \subseteq Friends
  BY DEF InBook, InList
<1> USE DEF settings
<1>1. ASSUME NEW f \in Friends, NEW c \in Cards, NEW l \in Lists, CreateFriend(f, c, l)
      PROVE  TypeOK'
  <2>1. BookTypes'
    <3>1. UNCHANGED <<lists, leaving, plan, domain, directories, edited>> /\ Put(f, c, l)
      BY <1>1 DEF CreateFriend
    <3>2. edited' \subseteq Friends
      BY <1>a, <3>1 DEF BookTypes
    <3>3. QED
      BY <1>a, <3>1, <3>2, PutTypes
  <2>2. CacheTypes'
    <3>1. unknown' \in [Addresses -> Friends \union {Nothing}]
      BY <1>1, <1>a DEF CreateFriend, CacheTypes, Without
    <3>2. index' \in Indexes /\ other' = {} /\ known' = known
      BY <1>1, NotBuiltType DEF CreateFriend, MissesForgotten
    <3>3. QED
      BY <1>a, <3>1, <3>2 DEF CacheTypes
  <2>3. WatchTypes'
    BY <1>1, <1>a DEF CreateFriend, WatchTypes
  <2>4. QED
    BY <2>1, <2>2, <2>3, TypeParts
<1>2. ASSUME NEW f \in Friends, NEW c \in Cards, NEW l \in Lists, SyncCreates(f, c, l)
      PROVE  TypeOK'
  <2>1. BookTypes'
    <3>1. UNCHANGED <<lists, leaving, plan, domain, directories, edited>> /\ Put(f, c, l)
      BY <1>2 DEF SyncCreates
    <3>2. edited' \subseteq Friends
      BY <1>a, <3>1 DEF BookTypes
    <3>3. QED
      BY <1>a, <3>1, <3>2, PutTypes
  <2>2. QED
    BY <1>2, <1>a, <2>1, HearingTypes, TypeParts DEF SyncCreates
<1>3. ASSUME NEW f \in Friends, NEW g \in Friends, NEW c \in Cards, SyncReplaces(f, g, c)
      PROVE  TypeOK'
  <2>1. BookTypes'
    BY <1>3, <1>a, SwapTypes DEF SyncReplaces
  <2>2. QED
    BY <1>3, <1>a, <2>1, HearingTypes, TypeParts DEF SyncReplaces
<1>4. ASSUME NEW f \in Friends, NEW g \in Friends, NEW c \in Cards, DirectoryReplaces(f, g, c)
      PROVE  TypeOK'
  <2>1. BookTypes'
    BY <1>4, <1>a, SwapTypes DEF DirectoryReplaces
  <2>2. CacheTypes' /\ WatchTypes'
    <3>1. /\ unknown' = Filed(g, c.addresses) /\ other' = other \ c.addresses
          /\ UNCHANGED <<known, index, watched, context>>
      BY <1>4 DEF DirectoryReplaces
    <3>2. QED
      BY <1>a, <3>1, FiledTypes DEF WatchTypes
  <2>3. QED
    BY <2>1, <2>2, TypeParts
<1>5. ASSUME NEW f \in Friends, NEW c \in Cards, SaveFriend(f, c)
      PROVE  TypeOK'
  <2>1. BookTypes'
    <3>1. contact[f] # Nothing
      BY <1>5 DEF SaveFriend, InBook, InList
    <3>2. contact[f].list \in Lists
      BY <1>a, <3>1 DEF BookTypes
    <3>3. edited' \subseteq Friends
      BY <1>5, <1>a DEF SaveFriend, BookTypes
    <3>4. UNCHANGED <<lists, leaving, plan, domain, directories>> /\ Put(f, c, contact[f].list)
      BY <1>5 DEF SaveFriend
    <3>5. QED
      BY <1>a, <3>2, <3>3, <3>4, PutTypes
  <2>2. CacheTypes' /\ WatchTypes'
    BY <1>5, <1>a DEF SaveFriend, manager, CacheTypes, WatchTypes
  <2>3. QED
    BY <2>1, <2>2, TypeParts
<1>6. ASSUME NEW f \in Friends, FriendUpdated(f)
      PROVE  TypeOK'
  <2>1. BookTypes'
    BY <1>6, <1>a DEF FriendUpdated, BookTypes
  <2>2. CacheTypes'
    BY <1>6, <1>a, ForgettingTypes DEF FriendUpdated
  <2>3. WatchTypes'
    BY <1>6, <1>a DEF FriendUpdated, WatchTypes
  <2>4. QED
    BY <2>1, <2>2, <2>3, TypeParts
<1>7. ASSUME NEW f \in Friends, RemoveFriend(f)
      PROVE  TypeOK'
  <2>1. BookTypes'
    BY <1>7, <1>a, RemovalTypes DEF RemoveFriend
  <2>2. CacheTypes'
    BY <1>7, <1>a, ForgettingTypes DEF RemoveFriend
  <2>3. WatchTypes'
    BY <1>7, <1>a DEF RemoveFriend, WatchTypes
  <2>4. QED
    BY <2>1, <2>2, <2>3, TypeParts
<1>8. ASSUME NEW f \in Friends, SyncDeletes(f)
      PROVE  TypeOK'
  <2>1. BookTypes'
    BY <1>8, <1>a, RemovalTypes DEF SyncDeletes
  <2>2. QED
    BY <1>8, <1>a, <2>1, HearingTypes, TypeParts DEF SyncDeletes
<1>9. ASSUME NEW f \in Friends, SearchFinds(f)
      PROVE  TypeOK'
  <2>1. BookTypes' /\ WatchTypes'
    BY <1>9, <1>a DEF SearchFinds, book, BookTypes, WatchTypes
  <2>2. CacheTypes'
    BY <1>9, <1>a, FiledTypes DEF SearchFinds
  <2>3. QED
    BY <2>1, <2>2, TypeParts
<1>10. ASSUME NEW l \in Lists, AddList(l) \/ RemoveList(l)
       PROVE  TypeOK'
  <2>1. BookTypes'
    BY <1>10, <1>a DEF AddList, RemoveList, BookTypes
  <2>2. CacheTypes' /\ WatchTypes'
    BY <1>10, <1>a DEF AddList, RemoveList, manager, CacheTypes, WatchTypes
  <2>3. QED
    BY <2>1, <2>2, TypeParts
<1>11. ASSUME NEW l \in Lists, ListRemoved(l)
       PROVE  TypeOK'
  <2>1. BookTypes'
    BY <1>11, <1>a DEF ListRemoved, BookTypes
  <2>2. CacheTypes'
    BY <1>11, <1>a, ForgettingTypes DEF ListRemoved, caches
  <2>3. WatchTypes'
    BY <1>11, <1>a DEF ListRemoved, WatchTypes
  <2>4. QED
    BY <2>1, <2>2, <2>3, TypeParts
<1>12. ASSUME NEW a \in Accounts, NEW p \in Plans, SetPlan(a, p)
       PROVE  TypeOK'
  BY <1>12, <1>a, TypeParts DEF SetPlan, manager, BookTypes, CacheTypes, WatchTypes
<1>13. ASSUME NEW d \in Domains, SetDomain(d)
       PROVE  TypeOK'
  BY <1>13, <1>a, TypeParts DEF SetDomain, manager, BookTypes, CacheTypes, WatchTypes
<1>14. ASSUME NEW cache \in {{}} \union {{l} : l \in lists}, AddDirectory(cache)
       PROVE  TypeOK'
  <2>1. cache \subseteq lists
    OBVIOUS
  <2>2. BookTypes'
    BY <1>14, <1>a, <2>1 DEF AddDirectory, BookTypes
  <2>3. CacheTypes' /\ WatchTypes'
    BY <1>14, <1>a DEF AddDirectory, manager, CacheTypes, WatchTypes
  <2>4. QED
    BY <2>2, <2>3, TypeParts
<1>15. CASE UNCHANGED vars
  BY <1>15, <1>a, TypeParts DEF vars, book, manager, BookTypes, CacheTypes, WatchTypes
<1>16. QED
  BY <1>1, <1>2, <1>3, <1>4, <1>5, <1>6, <1>7, <1>8, <1>9, <1>10, <1>11, <1>12, <1>13, <1>14,
     <1>15, LookUpTypes DEF Next

\* The caches hold friends and misses, and the lists in the core are none of those
\* whose removal is still to be announced (FriendsManager.cpp, CoreModel.cpp:785-794).
THEOREM TypeSafety == Spec => []TypeOK
BY TypeInit, TypeNext, PTL DEF Spec
-----------------------------------------------------------------------------
(* What a change of the address book does to the caches.  Every step but a lookup *)
(* is one, so that each invariant has two cases to look at instead of twenty.     *)

Gone(f) == \A a \in Addresses : known'[a] # f

\* Nothing is cached by a change, and the watcher learns no list from it.
CachesOnlyShrink ==
  /\ UNCHANGED <<watched, context>>
  /\ \A a \in Addresses : known'[a] \in {known[a], Nothing}
  /\ index' = index \/ index' = [a \in Accounts |-> NotBuilt]
  /\ other' \subseteq other
  /\ directories => directories'

\* An edit that has been announced has reached every cache.
EditsAreHeard ==
  \A f \in edited : f \notin edited' => MissesForgotten /\ Gone(f)

\* A contact appears as an object nothing refers to, is edited in its place, or goes.
ContactsChange ==
  \A f \in Friends : contact'[f] # contact[f] =>
    \/ contact[f] = Nothing /\ Fresh(f) /\ contact'[f] # Nothing /\ contact'[f].list \in lists
    \/ /\ contact[f] # Nothing /\ contact'[f] # Nothing
       /\ contact'[f].list = contact[f].list /\ f \in edited'
    \/ contact[f] # Nothing /\ contact'[f] = Nothing

\* A contact of a list that is watched, before or after, changes only with the misses
\* forgotten or an announcement to come.
WatchedChangesAreHeard ==
  ~directories' => \A f \in Friends :
    /\ contact'[f] # contact[f]
    /\ \/ contact[f] # Nothing /\ contact[f].list \in watched
       \/ contact'[f] # Nothing /\ contact'[f].list \in watched
    => edited' # {} \/ MissesForgotten

\* A contact of a list that is watched, or about to be announced as removed, is
\* forgotten when it goes.
GoneAreForgotten ==
  ~directories' => \A f \in Friends :
    contact[f] # Nothing /\ contact'[f] = Nothing =>
      contact[f].list \notin watched \union leaving \/ (MissesForgotten /\ Gone(f))

\* A list leaves by way of its announcement, which leaves no contact in it.
ListsLeave ==
  /\ lists \subseteq lists' \union leaving'
  /\ \A l \in leaving : l \notin leaving' =>
       \A f \in Friends : contact'[f] # Nothing => contact'[f].list # l

Change ==
  /\ CachesOnlyShrink /\ EditsAreHeard /\ ContactsChange
  /\ WatchedChangesAreHeard /\ GoneAreForgotten /\ ListsLeave

\* A contact is in the list it is in until that list is announced as removed.
InItsList == \A f \in Friends : contact[f] # Nothing => contact[f].list \in lists \union leaving

\* The steps that leave the contacts, and the announcements to come, alone.
LEMMA StillBook ==
  ASSUME UNCHANGED contact, edited \subseteq edited', lists \subseteq lists' \union leaving',
         leaving \subseteq leaving', CachesOnlyShrink
  PROVE  Change
BY DEF Change, EditsAreHeard, ContactsChange, WatchedChangesAreHeard, GoneAreForgotten, ListsLeave

\* The steps that write one contact: a new one, or an old one that is announced later.
LEMMA OnePut ==
  ASSUME TypeOK, NEW f \in Friends, NEW c \in Cards, NEW l \in Lists, Put(f, c, l),
         UNCHANGED <<lists, leaving>>, edited \subseteq edited', CachesOnlyShrink,
         \/ Fresh(f) /\ l \in lists /\ (l \in watched => MissesForgotten)
         \/ contact[f] # Nothing /\ l = contact[f].list /\ f \in edited'
  PROVE  Change
<1>1. [list |-> l, card |-> c] \in [list : Lists, card : Cards]
  OBVIOUS
<1>2. contact' = [contact EXCEPT ![f] = [list |-> l, card |-> c]] /\ DOMAIN contact = Friends
  BY DEF Put, TypeOK
<1>3. contact'[f] = [list |-> l, card |-> c] /\ contact'[f] # Nothing /\ contact'[f].list = l
  BY <1>1, <1>2
<1>4. \A g \in Friends : g # f => contact'[g] = contact[g]
  BY <1>2
<1>5. EditsAreHeard /\ ListsLeave
  BY DEF EditsAreHeard, ListsLeave
<1>6. ContactsChange
  BY <1>3, <1>4 DEF ContactsChange, Fresh
<1>7. GoneAreForgotten
  BY <1>3, <1>4 DEF GoneAreForgotten
<1>8. WatchedChangesAreHeard
  BY <1>3, <1>4 DEF WatchedChangesAreHeard, Fresh
<1>9. QED
  BY <1>5, <1>6, <1>7, <1>8 DEF Change

\* The steps that take one contact away, with or without another in its place.
LEMMA OneGone ==
  ASSUME TypeOK, NEW f \in InBook, UNCHANGED <<lists, leaving, edited>>, CachesOnlyShrink,
         \/ contact' = [contact EXCEPT ![f] = Nothing]
         \/ \E g \in Friends, c \in Cards : Fresh(g) /\ Swapped(f, g, c),
         ~directories' /\ contact[f].list \in watched => MissesForgotten /\ Gone(f)
  PROVE  Change
<1>a. f \in Friends /\ contact[f] # Nothing /\ contact[f].list \in lists
  BY DEF InBook, InList
<1>b. contact[f].list \notin leaving /\ contact[f].list \in Lists
      /\ contact \in [Friends -> [list : Lists, card : Cards] \union {Nothing}]
  BY <1>a DEF TypeOK
<1>1. EditsAreHeard /\ ListsLeave
  BY DEF EditsAreHeard, ListsLeave
<1>2. CASE contact' = [contact EXCEPT ![f] = Nothing]
  <2>1. contact'[f] = Nothing /\ \A g \in Friends : g # f => contact'[g] = contact[g]
    BY <1>a, <1>b, <1>2
  <2>2. ContactsChange /\ WatchedChangesAreHeard /\ GoneAreForgotten
    BY <1>a, <1>b, <2>1 DEF ContactsChange, WatchedChangesAreHeard, GoneAreForgotten
  <2>3. QED
    BY <1>1, <2>2 DEF Change
<1>3. ASSUME NEW g \in Friends, NEW c \in Cards, Fresh(g), Swapped(f, g, c)
      PROVE  Change
  <2>1. f # g /\ contact[g] = Nothing
    BY <1>3, <1>a DEF Fresh
  <2>2. [list |-> contact[f].list, card |-> c] \in [list : Lists, card : Cards]
    BY <1>b
  <2>3. /\ contact'[f] = Nothing
        /\ contact'[g] = [list |-> contact[f].list, card |-> c]
        /\ contact'[g] # Nothing /\ contact'[g].list = contact[f].list
        /\ \A h \in Friends : h # f /\ h # g => contact'[h] = contact[h]
    BY <1>3, <1>a, <1>b, <2>1, <2>2 DEF Swapped
  <2>4. ContactsChange
    BY <1>3, <1>a, <2>1, <2>3 DEF ContactsChange
  <2>5. GoneAreForgotten
    BY <1>a, <1>b, <2>1, <2>3 DEF GoneAreForgotten
  <2>6. WatchedChangesAreHeard
    BY <1>a, <2>1, <2>3 DEF WatchedChangesAreHeard
  <2>7. QED
    BY <1>1, <2>4, <2>5, <2>6 DEF Change
<1>4. QED
  BY <1>2, <1>3

\* Forgetting some friends, and all misses, shrinks the caches, and they are gone.
LEMMA Forgetting ==
  ASSUME TypeOK, NEW S, Nothing \notin S, Forgotten(S)
  PROVE  /\ \A a \in Addresses : known'[a] \in {known[a], Nothing}
         /\ \A f \in S : Gone(f)
BY DEF TypeOK, Forgotten, Without, Gone

\* Hearing of a list only shrinks the caches, and forgets the misses and the friends it is told of
\* if the list is watched.
LEMMA Hearing ==
  ASSUME TypeOK, NEW l, NEW S, Nothing \notin S, WatcherHears(l, S), directories' = directories
  PROVE  /\ CachesOnlyShrink
         /\ l \in watched => MissesForgotten /\ \A f \in S : Gone(f)
<1>1. CASE l \in watched
  <2>1. Forgotten(S) /\ MissesForgotten /\ UNCHANGED <<watched, context>>
    BY <1>1 DEF WatcherHears
  <2>2. QED
    BY <2>1, Forgetting DEF MissesForgotten, CachesOnlyShrink
<1>2. CASE l \notin watched
  BY <1>2 DEF WatcherHears, caches, CachesOnlyShrink
<1>3. QED
  BY <1>1, <1>2

\* A step is a lookup or a change: the caches shrink, and what changes is heard of.
LEMMA EveryChange ==
  ASSUME TypeOK, [Next]_vars
  PROVE  (\E a \in Addresses : LookUp(a)) \/ Change
<1> USE DEF settings
<1>a. /\ InBook \subseteq Friends
      /\ \A f \in InBook : contact[f] # Nothing /\ contact[f].list \in lists
      /\ Nothing \notin InBook
  BY DEF InBook, InList
<1>1. ASSUME NEW f \in Friends, NEW c \in Cards, NEW l \in Lists, CreateFriend(f, c, l)
      PROVE  Change
  <2>1. /\ Fresh(f) /\ l \in lists /\ Put(f, c, l) /\ MissesForgotten
        /\ UNCHANGED <<lists, leaving, edited, directories, known, watched, context>>
    BY <1>1 DEF CreateFriend
  <2>2. CachesOnlyShrink
    BY <2>1 DEF CachesOnlyShrink, MissesForgotten
  <2>3. QED
    BY <2>1, <2>2, OnePut
<1>2. ASSUME NEW f \in Friends, NEW c \in Cards, NEW l \in Lists, SyncCreates(f, c, l)
      PROVE  Change
  <2>1. /\ Fresh(f) /\ l \in lists /\ Put(f, c, l) /\ WatcherHears(l, {})
        /\ UNCHANGED <<lists, leaving, edited, directories>>
    BY <1>2 DEF SyncCreates
  <2>2. CachesOnlyShrink /\ (l \in watched => MissesForgotten)
    BY <2>1, Hearing
  <2>3. QED
    BY <2>1, <2>2, OnePut
<1>3. ASSUME NEW f \in Friends, NEW g \in Friends, NEW c \in Cards, SyncReplaces(f, g, c)
      PROVE  Change
  <2>1. /\ f \in InBook /\ Fresh(g) /\ Swapped(f, g, c) /\ WatcherHears(contact[f].list, {f})
        /\ UNCHANGED <<lists, leaving, edited, directories>>
    BY <1>3 DEF SyncReplaces
  <2>2. CachesOnlyShrink /\ (contact[f].list \in watched => MissesForgotten /\ Gone(f))
    BY <2>1, Hearing
  <2>3. QED
    BY <2>1, <2>2, OneGone
<1>4. ASSUME NEW f \in Friends, NEW g \in Friends, NEW c \in Cards, DirectoryReplaces(f, g, c)
      PROVE  Change
  <2>1. /\ f \in InBook /\ Fresh(g) /\ Swapped(f, g, c) /\ directories /\ directories' = directories
        /\ UNCHANGED <<lists, leaving, edited, known, index, watched, context>>
        /\ other' = other \ c.addresses
    BY <1>4 DEF DirectoryReplaces
  <2>2. CachesOnlyShrink
    BY <2>1 DEF CachesOnlyShrink
  <2>3. QED
    BY <2>1, <2>2, OneGone
<1>5. ASSUME NEW f \in Friends, NEW c \in Cards, SaveFriend(f, c)
      PROVE  Change
  <2>1. /\ f \in InBook /\ Put(f, c, contact[f].list) /\ edited' = edited \union {f}
        /\ UNCHANGED <<lists, leaving, directories, known, index, other, watched, context>>
    BY <1>5 DEF SaveFriend, manager
  <2>2. CachesOnlyShrink
    BY <2>1 DEF CachesOnlyShrink
  <2>3. contact[f] # Nothing /\ contact[f].list \in Lists
    BY <1>a, <2>1 DEF TypeOK
  <2>4. QED
    BY <2>1, <2>2, <2>3, OnePut
<1>6. ASSUME NEW f \in Friends, FriendUpdated(f)
      PROVE  Change
  <2>1. /\ edited' = edited \ {f} /\ Forgotten({f}) /\ MissesForgotten
        /\ UNCHANGED <<contact, lists, leaving, directories, watched, context>>
    BY <1>6 DEF FriendUpdated
  <2>2. CachesOnlyShrink /\ Gone(f)
    BY <2>1, Forgetting DEF CachesOnlyShrink, MissesForgotten
  <2>3. EditsAreHeard
    BY <2>1, <2>2 DEF EditsAreHeard
  <2>4. QED
    BY <2>1, <2>2, <2>3
    DEF Change, ContactsChange, WatchedChangesAreHeard, GoneAreForgotten, ListsLeave
<1>7. ASSUME NEW f \in Friends, RemoveFriend(f)
      PROVE  Change
  <2>1. /\ f \in InBook /\ contact' = [contact EXCEPT ![f] = Nothing]
        /\ Forgotten({f}) /\ MissesForgotten
        /\ UNCHANGED <<lists, leaving, edited, directories, watched, context>>
    BY <1>7 DEF RemoveFriend
  <2>2. CachesOnlyShrink /\ Gone(f)
    BY <2>1, Forgetting DEF CachesOnlyShrink, MissesForgotten
  <2>3. QED
    BY <2>1, <2>2, OneGone
<1>8. ASSUME NEW f \in Friends, SyncDeletes(f)
      PROVE  Change
  <2>1. /\ f \in InBook /\ contact' = [contact EXCEPT ![f] = Nothing]
        /\ WatcherHears(contact[f].list, {f})
        /\ UNCHANGED <<lists, leaving, edited, directories>>
    BY <1>8 DEF SyncDeletes
  <2>2. CachesOnlyShrink /\ (contact[f].list \in watched => MissesForgotten /\ Gone(f))
    BY <2>1, Hearing
  <2>3. QED
    BY <2>1, <2>2, OneGone
<1>9. ASSUME NEW f \in Friends, SearchFinds(f)
      PROVE  Change
  <2>1. /\ UNCHANGED <<contact, lists, leaving, edited, directories, known, index, watched, context>>
        /\ other' = other \ contact[f].card.addresses
    BY <1>9 DEF SearchFinds, book
  <2>2. CachesOnlyShrink
    BY <2>1 DEF CachesOnlyShrink
  <2>3. QED
    BY <2>1, <2>2, StillBook
<1>10. ASSUME NEW l \in Lists, AddList(l) \/ RemoveList(l)
       PROVE  Change
  <2>1. /\ UNCHANGED <<contact, edited, directories, known, index, other, watched, context>>
        /\ lists \subseteq lists' \union leaving' /\ leaving \subseteq leaving'
    BY <1>10 DEF AddList, RemoveList, manager
  <2>2. CachesOnlyShrink
    BY <2>1 DEF CachesOnlyShrink
  <2>3. QED
    BY <2>1, <2>2, StillBook
<1>11. ASSUME NEW l \in Lists, ListRemoved(l)
       PROVE  Change
  <2> DEFINE gone == InList(l)
  <2>1. /\ l \in leaving /\ leaving' = leaving \ {l}
        /\ contact' = [f \in Friends |-> IF f \in gone THEN Nothing ELSE contact[f]]
        /\ UNCHANGED <<lists, edited, directories, watched, context>>
    BY <1>11 DEF ListRemoved
  <2>2. gone # {} => Forgotten(gone) /\ MissesForgotten
    BY <1>11 DEF ListRemoved
  <2>3. gone = {} => UNCHANGED <<known, unknown, other, index>>
    BY <1>11 DEF ListRemoved, caches
  <2>4. /\ gone = {f \in Friends : contact[f] # Nothing /\ contact[f].list = l}
        /\ Nothing \notin gone
    BY DEF InList
  <2> HIDE DEF gone
  <2>5. CachesOnlyShrink /\ \A f \in gone : MissesForgotten /\ Gone(f)
    <3>1. CASE gone = {}
      BY <2>1, <2>3, <3>1 DEF CachesOnlyShrink
    <3>2. CASE gone # {}
      <4>1. (\A a \in Addresses : known'[a] \in {known[a], Nothing}) /\ \A f \in gone : Gone(f)
        BY <2>2, <2>4, <3>2, Forgetting
      <4>2. QED
        BY <2>1, <2>2, <3>2, <4>1 DEF CachesOnlyShrink, MissesForgotten
    <3>3. QED
      BY <3>1, <3>2
  <2>6. \A f \in Friends : /\ f \in gone => contact'[f] = Nothing
                           /\ f \notin gone => contact'[f] = contact[f]
    BY <2>1
  <2>7. ContactsChange /\ EditsAreHeard
    BY <2>1, <2>4, <2>6 DEF ContactsChange, EditsAreHeard
  <2>8. WatchedChangesAreHeard /\ GoneAreForgotten
    BY <2>5, <2>6 DEF WatchedChangesAreHeard, GoneAreForgotten
  <2>9. ListsLeave
    BY <2>1, <2>4, <2>6 DEF ListsLeave, TypeOK
  <2>10. QED
    BY <2>5, <2>7, <2>8, <2>9 DEF Change
<1>12. ASSUME NEW a \in Accounts, NEW p \in Plans, NEW d \in Domains,
              SetPlan(a, p) \/ SetDomain(d)
       PROVE  Change
  <2>1. UNCHANGED <<contact, lists, leaving, edited, directories, known, index, other, watched, context>>
    BY <1>12 DEF SetPlan, SetDomain, manager
  <2>2. CachesOnlyShrink
    BY <2>1 DEF CachesOnlyShrink
  <2>3. QED
    BY <2>1, <2>2, StillBook
<1>13. ASSUME NEW cache \in {{}} \union {{l} : l \in lists}, AddDirectory(cache)
       PROVE  Change
  <2>1. /\ UNCHANGED <<contact, edited, known, index, other, watched, context>>
        /\ lists \subseteq lists' \union leaving' /\ leaving \subseteq leaving'
        /\ directories'
    BY <1>13 DEF AddDirectory, manager
  <2>2. CachesOnlyShrink
    BY <2>1 DEF CachesOnlyShrink
  <2>3. QED
    BY <2>1, <2>2, StillBook
<1>14. CASE UNCHANGED vars
  <2>1. UNCHANGED <<contact, lists, leaving, edited, directories, known, index, other, watched, context>>
    BY <1>14 DEF vars, book, manager
  <2>2. CachesOnlyShrink
    BY <2>1 DEF CachesOnlyShrink
  <2>3. QED
    BY <2>1, <2>2, StillBook
<1>15. (\E a \in Accounts, p \in Plans : SetPlan(a, p)) \/ (\E d \in Domains : SetDomain(d)) => Change
  <2>1. plan[Min(Accounts)] \in Plans /\ domain \in Domains /\ Min(Accounts) \in Accounts
    BY SomeAccounts DEF TypeOK
  <2>2. QED
    BY <1>12, <2>1
<1>16. QED
  BY <1>1, <1>2, <1>3, <1>4, <1>5, <1>6, <1>7, <1>8, <1>9, <1>10, <1>11, <1>13, <1>14, <1>15 DEF Next
-----------------------------------------------------------------------------
(* What a lookup finds *)

\* The contacts of the lists W, those of them at an address, and those with a number.
Held(W) == {f \in Friends : contact[f] # Nothing /\ contact[f].list \in W}
HeldAt(W, a) == {f \in Held(W) : a \in contact[f].card.addresses}
HoldersIn(W, n, p) == {f \in Held(W) : \E m \in contact[f].card.numbers : Normal[p][m] = n}

\* What the lookups read of the books, in terms of the lists that are in them.
LEMMA HeldInBook ==
  /\ InBook = Held(lists)
  /\ \A a : Holder(a) = First(HeldAt(lists, a))
  /\ \A n, p : HoldersOf(n, p) = HoldersIn(lists, n, p)
<1>1. InBook = Held(lists)
  BY DEF InBook, InList, Held
<1>2. QED
  BY <1>1 DEF Holder, HeldAt, HoldersOf, HoldersIn

\* Each account in turn: the first with a match answers.
LEMMA FirstAccount ==
  ASSUME NEW i, NEW m
  PROVE  LET M == {b \in Accounts : FoundIn(i, b, m) # Nothing}
         IN  FoundByNumber(i, m) = IF M = {} THEN Nothing ELSE FoundIn(i, Min(M), m)
<1> DEFINE M == {b \in Accounts : FoundIn(i, b, m) # Nothing}
           last == Max(AskedAccounts(i, m))
<1>1. last \in AskedAccounts(i, m) /\ last \in Accounts
  BY LastAsked
<1>2. FoundByNumber(i, m) = FoundIn(i, last, m)
  BY DEF FoundByNumber
<1>3. CASE M = {}
  BY <1>1, <1>2, <1>3
<1>4. CASE M # {}
  <2> DEFINE first == Min(M)
  <2>1. M \in SUBSET Accounts
    OBVIOUS
  <2>2. first \in M /\ \A b \in M : first <= b
    BY <1>4, <2>1, SomeAccounts
  <2> HIDE DEF first
  <2>3. \A b \in Accounts : b \in Nat
    OBVIOUS
  <2>4. first \in AskedAccounts(i, m)
    <3>1. \A b \in Accounts : b < first => b \notin M
      BY <2>1, <2>2, <2>3
    <3>2. QED
      BY <2>2, <3>1 DEF AskedAccounts
  <2>n. last \in Nat /\ first \in Nat
    BY <1>1, <2>2, <2>3
  <2>5. ~(first < last)
    BY <1>1, <2>2 DEF AskedAccounts
  <2>6. last >= first
    <3>1. AskedAccounts(i, m) \in SUBSET Accounts
      BY DEF AskedAccounts
    <3>2. QED
      BY <2>4, <3>1, SomeAccounts
  <2>7. last = first
    <3> HIDE DEF last
    <3>1. QED
      BY <2>n, <2>5, <2>6
  <2>8. QED
    BY <1>2, <1>4, <2>7 DEF first
<1>5. QED
  BY <1>3, <1>4

\* An index is right for the lists W if it answers as a search through their contacts.
RightFor(i, W) ==
  \A b \in Accounts : i[b].plan # Nothing =>
    \A n \in Numbers : i[b].holder[n] = First(HoldersIn(W, n, i[b].plan))

\* A right index answers as the search of every contact, and is left right.
LEMMA RightIndexes ==
  ASSUME TypeOK, NEW i \in Indexes, RightFor(i, lists), NEW m \in Numbers
  PROVE  /\ FoundByNumber(i, m) = ScanByNumber(m)
         /\ RightFor(IndexAfter(i, m), lists)
<1>1. ASSUME NEW b \in Accounts
      PROVE  /\ UpToDate(i, b).plan = plan[b]
             /\ \A n \in Numbers : UpToDate(i, b).holder[n] = First(HoldersOf(n, plan[b]))
  <2>1. plan[b] \in Plans /\ plan[b] # Nothing
    BY DEF TypeOK
  <2>2. CASE i[b].plan = plan[b]
    <3>1. UpToDate(i, b) = i[b]
      BY <2>2 DEF UpToDate
    <3>2. \A n \in Numbers : i[b].holder[n] = First(HoldersIn(lists, n, plan[b]))
      BY <2>1, <2>2 DEF RightFor
    <3>3. QED
      BY <2>2, <3>1, <3>2, HeldInBook
  <2>3. CASE i[b].plan # plan[b]
    BY <2>3 DEF UpToDate, IndexOf
  <2>4. QED
    BY <2>2, <2>3
<1>2. ASSUME NEW b \in Accounts PROVE FoundIn(i, b, m) = ScanFor(m, plan[b])
  <2>1. Normal[plan[b]][m] \in Numbers \union {Nothing}
    BY DEF TypeOK
  <2>2. QED
    BY <1>1, <2>1 DEF FoundIn, ScanFor
<1>3. FoundByNumber(i, m) = ScanByNumber(m)
  <2> DEFINE M == {b \in Accounts : FoundIn(i, b, m) # Nothing}
  <2>1. FoundByNumber(i, m) = IF M = {} THEN Nothing ELSE FoundIn(i, Min(M), m)
    BY FirstAccount
  <2>2. M = {b \in Accounts : ScanFor(m, plan[b]) # Nothing}
    BY <1>2
  <2>3. M # {} => Min(M) \in Accounts
    <3>1. M \in SUBSET Accounts
      OBVIOUS
    <3>2. QED
      BY <3>1, SomeAccounts
  <2>4. M # {} => FoundIn(i, Min(M), m) = ScanFor(m, plan[Min(M)])
    BY <1>2, <2>3
  <2> HIDE DEF M
  <2>5. QED
    BY <2>1, <2>2, <2>4 DEF ScanByNumber
<1>4. RightFor(IndexAfter(i, m), lists)
  <2>1. SUFFICES ASSUME NEW b \in Accounts, IndexAfter(i, m)[b].plan # Nothing, NEW n \in Numbers
                 PROVE  IndexAfter(i, m)[b].holder[n]
                          = First(HoldersIn(lists, n, IndexAfter(i, m)[b].plan))
    BY DEF RightFor
  <2>2. CASE IndexAfter(i, m)[b] = UpToDate(i, b)
    BY <1>1, <2>2, HeldInBook
  <2>3. CASE IndexAfter(i, m)[b] = i[b]
    BY <2>1, <2>3 DEF RightFor
  <2>4. QED
    BY <2>2, <2>3 DEF IndexAfter
<1>5. QED
  BY <1>3, <1>4

\* An address that nobody of the lists W answers to, under the plans and the domain.
MissIn(W, plans, d, a) ==
  /\ HeldAt(W, a) = {}
  /\ Number[a] # Nothing => \A b \in Accounts :
       Normal[plans[b]][Number[a]] # Nothing =>
         HoldersIn(W, Normal[plans[b]][Number[a]], plans[b]) = {}
  /\ Rebased[d][a] # Nothing => HeldAt(W, Rebased[d][a]) = {}

\* Nobody is found by the scan exactly then.
LEMMA ScanMisses ==
  ASSUME TypeOK, NEW a \in Addresses
  PROVE  Scan(a) = Nothing <=> MissIn(lists, plan, domain, a)
<1>1. /\ \A c : HeldAt(lists, c) \in SUBSET Friends
      /\ \A n, p : HoldersIn(lists, n, p) \in SUBSET Friends
  BY DEF HeldAt, HoldersIn, Held
<1>2. \A c : Holder(c) = Nothing <=> HeldAt(lists, c) = {}
  BY <1>1, HeldInBook, FirstOfFriends
<1>3. \A m, p : ScanFor(m, p) = Nothing <=>
        (Normal[p][m] # Nothing => HoldersIn(lists, Normal[p][m], p) = {})
  BY <1>1, HeldInBook, FirstOfFriends DEF ScanFor
<1>4. ASSUME NEW m
      PROVE  ScanByNumber(m) = Nothing <=> \A b \in Accounts : ScanFor(m, plan[b]) = Nothing
  <2> DEFINE M == {b \in Accounts : ScanFor(m, plan[b]) # Nothing}
  <2>1. M # {} => Min(M) \in M
    <3>1. M \in SUBSET Accounts
      OBVIOUS
    <3>2. QED
      BY <3>1, SomeAccounts
  <2>2. ScanByNumber(m) = IF M = {} THEN Nothing ELSE ScanFor(m, plan[Min(M)])
    BY DEF ScanByNumber
  <2>3. QED
    BY <2>1, <2>2
<1>5. Scan(a) = Nothing <=> /\ Holder(a) = Nothing
                            /\ Number[a] # Nothing => ScanByNumber(Number[a]) = Nothing
                            /\ Rebased[domain][a] # Nothing => Holder(Rebased[domain][a]) = Nothing
  BY DEF Scan
<1>6. QED
  BY <1>2, <1>3, <1>4, <1>5 DEF MissIn
-----------------------------------------------------------------------------
(* The invariants of the caches *)

\* Known friends and those in the indexes exist, in a list that is watched or whose
\* removal will be announced: that is what makes each of them reachable by the
\* announcement of its going.
Reachable(f) == contact[f] # Nothing /\ contact[f].list \in watched \union leaving

CachedAreReachable ==
  ~directories =>
    /\ \A a \in Addresses : known[a] # Nothing => Reachable(known[a])
    /\ \A b \in Accounts, n \in Numbers :
         index[b].holder[n] # Nothing => Reachable(index[b].holder[n])

\* Whoever an index holds has the number it is filed under, or an edit to announce.
Reads(i) ==
  \A b \in Accounts, n \in Numbers :
    i[b].holder[n] \notin edited \union {Nothing} /\ contact[i[b].holder[n]] # Nothing =>
      \E m \in contact[i[b].holder[n]].card.numbers : Normal[i[b].plan][m] = n

\* With no edit to announce, the indexes are right for the lists that are watched ...
IndexesAreRight == edited = {} /\ ~directories => RightFor(index, watched)

\* ... and so are the misses, under the plans and the domain of the last lookup.
MissesAreRight ==
  edited = {} /\ ~directories =>
    \A a \in other : context # Nothing /\ MissIn(watched, context.plan, context.domain, a)

IInv ==
  /\ TypeOK /\ InItsList
  /\ CachedAreReachable
  /\ KnownAnswer /\ Reads(index)
  /\ IndexesAreRight /\ MissesAreRight

\* The caches as a lookup finds them, after checkAddressBook.
Checked == IF AddressBookChanged THEN [b \in Accounts |-> NotBuilt] ELSE index

\* The caches a lookup goes on with are right for the settings it read.
LEMMA CheckedIsFair ==
  ASSUME IInv
  PROVE  /\ Checked \in Indexes
         /\ Reads(Checked)
         /\ edited = {} /\ ~directories => RightFor(Checked, lists)
         /\ ~directories => \A b \in Accounts, n \in Numbers :
              Checked[b].holder[n] # Nothing => Reachable(Checked[b].holder[n])
<1>1. CASE AddressBookChanged
  <2>1. Checked = [b \in Accounts |-> NotBuilt]
    BY <1>1 DEF Checked
  <2>2. \A b \in Accounts : /\ Checked[b].plan = Nothing
                            /\ \A n \in Numbers : Checked[b].holder[n] = Nothing
    BY <2>1 DEF NotBuilt
  <2>3. Checked \in Indexes
    BY <2>1, NotBuiltType
  <2>4. QED
    BY <2>2, <2>3 DEF Reads, RightFor
<1>2. CASE ~AddressBookChanged
  <2>1. Checked = index /\ watched = lists
    BY <1>2 DEF Checked, AddressBookChanged
  <2>2. index \in Indexes
    BY TypeParts DEF IInv, CacheTypes
  <2>3. QED
    BY <2>1, <2>2 DEF IInv, IndexesAreRight, CachedAreReachable
<1>3. QED
  BY <1>1, <1>2

\* At first nothing is cached, so nothing cached is wrong.
LEMMA InvInit == Init => IInv
<1>1. SUFFICES ASSUME Init PROVE IInv
  OBVIOUS
<1>2. TypeOK
  BY <1>1, TypeInit
<1>3. /\ \A f \in Friends : contact[f] = Nothing
      /\ \A a \in Addresses : known[a] = Nothing
      /\ \A b \in Accounts : /\ index[b].plan = Nothing
                             /\ \A n \in Numbers : index[b].holder[n] = Nothing
      /\ other = {}
  BY <1>1 DEF Init, NobodyKnown, NotBuilt
<1>4. QED
  BY <1>2, <1>3 DEF IInv, InItsList, CachedAreReachable, KnownAnswer, Reads, IndexesAreRight,
                    RightFor, MissesAreRight
\* A change of the book keeps the invariant.
LEMMA InvChange ==
  ASSUME IInv, TypeOK', Change
  PROVE  IInv'
<1>a. /\ TypeOK /\ InItsList /\ CachedAreReachable /\ KnownAnswer /\ Reads(index)
      /\ IndexesAreRight /\ MissesAreRight
      /\ CachesOnlyShrink /\ EditsAreHeard /\ ContactsChange
      /\ WatchedChangesAreHeard /\ GoneAreForgotten /\ ListsLeave
  BY DEF IInv, Change
<1>b. /\ UNCHANGED <<watched, context>>
      /\ \A a \in Addresses : known'[a] \in {known[a], Nothing}
      /\ index' = index \/ index' = [b \in Accounts |-> NotBuilt]
      /\ other' \subseteq other /\ (directories => directories')
  BY <1>a DEF CachesOnlyShrink
<1>c. index' = [b \in Accounts |-> NotBuilt] =>
        \A b \in Accounts : /\ index'[b].plan = Nothing
                            /\ \A n \in Numbers : index'[b].holder[n] = Nothing
  BY DEF NotBuilt
<1>d. /\ \A a \in Addresses : known[a] \in Friends \union {Nothing}
      /\ \A b \in Accounts, n \in Numbers : index[b].holder[n] \in Friends \union {Nothing}
      /\ edited \subseteq Friends
  <2>1. index \in Indexes /\ known \in [Addresses -> Friends \union {Nothing}] /\ edited \subseteq Friends
    BY <1>a, TypeParts DEF CacheTypes, BookTypes
  <2>2. ASSUME NEW b \in Accounts, NEW n \in Numbers
        PROVE  index[b].holder[n] \in Friends \union {Nothing}
    <3>1. index[b] \in [plan : Plans \union {Nothing}, holder : [Numbers -> Friends \union {Nothing}]]
      BY ONLY <2>1, <2>2 DEF Indexes
    <3>2. index[b].holder \in [Numbers -> Friends \union {Nothing}]
      BY ONLY <3>1
    <3>3. QED
      BY ONLY <2>2, <3>2
  <2>3. \A a \in Addresses : known[a] \in Friends \union {Nothing}
    BY ONLY <2>1
  <2>4. QED
    BY ONLY <2>1, <2>2, <2>3
<1>1. InItsList'
  <2>1. SUFFICES ASSUME NEW f \in Friends, contact'[f] # Nothing
                 PROVE  contact'[f].list \in lists' \union leaving'
    BY DEF InItsList
  <2>2. contact'[f].list \in lists \union leaving
    BY <1>a, <2>1 DEF InItsList, ContactsChange
  <2>3. QED
    BY <1>a, <2>1, <2>2 DEF ListsLeave
<1>2. CachedAreReachable'
  <2>1. SUFFICES ASSUME ~directories'
                 PROVE  /\ \A a \in Addresses : known'[a] # Nothing => Reachable(known[a])'
                        /\ \A b \in Accounts, n \in Numbers :
                             index'[b].holder[n] # Nothing => Reachable(index[b].holder[n])'
    BY DEF CachedAreReachable
  <2>2. /\ \A a \in Addresses : known[a] # Nothing => Reachable(known[a])
        /\ \A b \in Accounts, n \in Numbers :
             index[b].holder[n] # Nothing => Reachable(index[b].holder[n])
    BY <1>a, <1>b, <2>1 DEF CachedAreReachable
  <2>3. ASSUME NEW f \in Friends, Reachable(f), contact'[f] # Nothing, ~(contact[f] = Nothing)
        PROVE  contact'[f].list \in watched' \union leaving'
    <3>1. contact'[f].list = contact[f].list
      BY <1>a, <2>3 DEF ContactsChange
    <3>2. QED
      BY <1>a, <1>b, <2>3, <3>1 DEF Reachable, ListsLeave
  <2>4. ASSUME NEW a \in Addresses, known'[a] # Nothing PROVE Reachable(known[a])'
    <3>1. known'[a] = known[a] /\ known[a] \in Friends /\ Reachable(known[a])
      BY <1>b, <1>d, <2>2, <2>4
    <3>2. contact'[known[a]] # Nothing
      BY <1>a, <2>1, <3>1 DEF GoneAreForgotten, Gone, Reachable
    <3>3. QED
      BY <2>3, <3>1, <3>2 DEF Reachable
  <2>5. ASSUME NEW b \in Accounts, NEW n \in Numbers, index'[b].holder[n] # Nothing
        PROVE  Reachable(index[b].holder[n])'
    <3>1. /\ index' = index /\ index' # [c \in Accounts |-> NotBuilt]
          /\ index[b].holder[n] \in Friends /\ Reachable(index[b].holder[n])
      BY <1>b, <1>c, <1>d, <2>2, <2>5
    <3>2. contact'[index[b].holder[n]] # Nothing
      BY <1>a, <2>1, <3>1 DEF GoneAreForgotten, MissesForgotten, Reachable
    <3>3. QED
      BY <2>3, <3>1, <3>2 DEF Reachable
  <2>6. QED
    BY <2>4, <2>5
<1>3. KnownAnswer'
  <2>1. SUFFICES ASSUME NEW a \in Addresses, known'[a] \notin edited' \union {Nothing},
                        contact'[known'[a]] # Nothing
                 PROVE  AnswersTo(known[a], a)'
    BY DEF KnownAnswer
  <2>2. known'[a] = known[a] /\ known[a] \in Friends
    BY <1>b, <1>d, <2>1
  <2>3. known[a] \notin edited
    BY <1>a, <2>1, <2>2 DEF EditsAreHeard, Gone
  <2>4. contact'[known[a]] = contact[known[a]]
    BY <1>a, <2>1, <2>2 DEF ContactsChange, Fresh
  <2>5. AnswersTo(known[a], a)
    BY <1>a, <2>1, <2>2, <2>3, <2>4 DEF KnownAnswer
  <2>6. QED
    BY <2>2, <2>4, <2>5 DEF AnswersTo
<1>4. Reads(index)'
  <2>1. SUFFICES ASSUME NEW b \in Accounts, NEW n \in Numbers,
                        index'[b].holder[n] \notin edited' \union {Nothing},
                        contact'[index'[b].holder[n]] # Nothing
                 PROVE  \E m \in contact'[index'[b].holder[n]].card.numbers :
                          Normal[index'[b].plan][m] = n
    BY DEF Reads
  <2>2. index' = index /\ index' # [c \in Accounts |-> NotBuilt] /\ index[b].holder[n] \in Friends
    BY <1>b, <1>c, <1>d, <2>1
  <2>3. index[b].holder[n] \notin edited
    BY <1>a, <2>1, <2>2 DEF EditsAreHeard, MissesForgotten
  <2>4. contact'[index[b].holder[n]] = contact[index[b].holder[n]]
    <3>1. ~Fresh(index[b].holder[n])
      BY DEF Fresh
    <3>2. index[b].holder[n] \notin edited' /\ contact'[index[b].holder[n]] # Nothing
      BY <2>1, <2>2
    <3>3. \A f \in Friends : ~Fresh(f) /\ f \notin edited' /\ contact'[f] # Nothing
                              => contact'[f] = contact[f]
      BY ONLY <1>a DEF ContactsChange
    <3>4. index[b].holder[n] \in Friends
      BY ONLY <2>2
    <3>5. QED
      BY ONLY <3>1, <3>2, <3>3, <3>4
  <2>5. contact[index[b].holder[n]] # Nothing /\ index[b].holder[n] \notin edited \union {Nothing}
    BY ONLY <2>1, <2>2, <2>3, <2>4
  <2>6. \E m \in contact[index[b].holder[n]].card.numbers : Normal[index[b].plan][m] = n
    BY ONLY <1>a, <2>5 DEF Reads
  <2>7. QED
    BY ONLY <2>2, <2>4, <2>6
<1>5. ASSUME edited' = {}, ~directories', ~MissesForgotten
      PROVE  /\ edited = {} /\ ~directories
             /\ \A a : HeldAt(watched, a)' = HeldAt(watched, a)
             /\ \A n, p : HoldersIn(watched, n, p)' = HoldersIn(watched, n, p)
  <2>1. edited = {}
    BY <1>a, <1>5 DEF EditsAreHeard
  <2>2. \A f \in Friends :
          \/ contact'[f] = contact[f]
          \/ f \notin Held(watched) /\ f \notin Held(watched)'
    BY <1>a, <1>b, <1>5 DEF WatchedChangesAreHeard, Held
  <2>3. \A f : f \in Held(watched)' <=> f \in Held(watched)
    BY <1>b, <2>2 DEF Held
  <2>4. Held(watched)' = Held(watched) /\ Held(watched) \subseteq Friends
    BY <2>3 DEF Held
  <2>5. \A f \in Held(watched) : contact'[f] = contact[f]
    BY <2>2, <2>4
  <2>6. QED
    BY <1>b, <1>5, <2>1, <2>4, <2>5 DEF HeldAt, HoldersIn
<1>6. IndexesAreRight'
  <2>1. SUFFICES ASSUME edited' = {}, ~directories' PROVE RightFor(index, watched)'
    BY DEF IndexesAreRight
  <2>2. CASE index' = [b \in Accounts |-> NotBuilt]
    BY <1>c, <2>2 DEF RightFor
  <2>3. CASE index' # [b \in Accounts |-> NotBuilt]
    <3>1. index' = index /\ ~MissesForgotten
      BY <1>b, <2>3 DEF MissesForgotten
    <3>2. RightFor(index, watched)
      BY <1>5, <1>a, <2>1, <3>1 DEF IndexesAreRight
    <3>3. \A n, p : HoldersIn(watched, n, p)' = HoldersIn(watched, n, p)
      BY <1>5, <2>1, <3>1
    <3>4. QED
      BY <3>1, <3>2, <3>3 DEF RightFor
  <2>4. QED
    BY <2>2, <2>3
<1>7. MissesAreRight'
  <2>1. SUFFICES ASSUME edited' = {}, ~directories', NEW a \in other'
                 PROVE  context' # Nothing /\ MissIn(watched, context.plan, context.domain, a)'
    BY DEF MissesAreRight
  <2>2. ~MissesForgotten /\ a \in other
    BY <1>b DEF MissesForgotten
  <2>3. context # Nothing /\ MissIn(watched, context.plan, context.domain, a)
    BY <1>5, <1>a, <2>1, <2>2 DEF MissesAreRight
  <2>4. /\ \A c : HeldAt(watched, c)' = HeldAt(watched, c)
        /\ \A n, p : HoldersIn(watched, n, p)' = HoldersIn(watched, n, p)
    BY <1>5, <2>1, <2>2
  <2>5. HeldAt(watched, a)' = {}
    BY <2>3, <2>4 DEF MissIn
  <2>6. Number[a] # Nothing => \A b \in Accounts :
          Normal[context.plan[b]][Number[a]] # Nothing =>
            HoldersIn(watched, Normal[context.plan[b]][Number[a]], context.plan[b])' = {}
    <3>1. SUFFICES ASSUME Number[a] # Nothing, NEW b \in Accounts,
                          Normal[context.plan[b]][Number[a]] # Nothing
                   PROVE  HoldersIn(watched, Normal[context.plan[b]][Number[a]], context.plan[b])' = {}
      OBVIOUS
    <3>2. HoldersIn(watched, Normal[context.plan[b]][Number[a]], context.plan[b]) = {}
      BY <2>3, <3>1 DEF MissIn
    <3>3. QED
      BY <1>b, <2>4, <3>2
  <2>7. Rebased[context.domain][a] # Nothing => HeldAt(watched, Rebased[context.domain][a])' = {}
    <3>1. Rebased[context.domain][a] # Nothing => HeldAt(watched, Rebased[context.domain][a]) = {}
      BY <2>3 DEF MissIn
    <3>2. QED
      BY <1>b, <2>4, <3>1
  <2>8. QED
    BY <1>b, <2>3, <2>5, <2>6, <2>7 DEF MissIn
<1>8. QED
  BY <1>1, <1>2, <1>3, <1>4, <1>6, <1>7 DEF IInv
\* A lookup keeps it: what it caches it has just found, in lists it now watches.
LEMMA InvLookUp ==
  ASSUME IInv, TypeOK', NEW a \in Addresses, LookUp(a)
  PROVE  IInv'
<1> DEFINE misses == IF AddressBookChanged THEN {} ELSE other
           i == Checked
           f == Found(i, a)
<1>a. /\ TypeOK /\ InItsList /\ CachedAreReachable /\ KnownAnswer /\ Reads(index)
      /\ IndexesAreRight /\ MissesAreRight
  BY DEF IInv
<1>b. /\ i \in Indexes /\ Reads(i)
      /\ edited = {} /\ ~directories => RightFor(i, lists)
      /\ ~directories => \A b \in Accounts, n \in Numbers :
           i[b].holder[n] # Nothing => Reachable(i[b].holder[n])
  BY CheckedIsFair
<1>c. /\ UNCHANGED <<contact, lists, leaving, edited, plan, domain, directories>>
      /\ watched' = lists /\ context' = [plan |-> plan, domain |-> domain]
  BY DEF LookUp, book, settings
<1>d. /\ plan \in [Accounts -> Plans] /\ domain \in Domains
      /\ BookTypes /\ CacheTypes
      /\ context' # Nothing /\ context'.plan = plan /\ context'.domain = domain
  <2>1. BookTypes /\ CacheTypes /\ plan \in [Accounts -> Plans] /\ domain \in Domains
    BY <1>a, TypeParts DEF TypeOK
  <2>2. [plan |-> plan, domain |-> domain] \in [plan : [Accounts -> Plans], domain : Domains]
    BY <2>1
  <2>3. QED
    BY <1>c, <2>1, <2>2
<1>e. \/ /\ a \in misses /\ ~AddressBookChanged /\ UNCHANGED <<known, other, index>>
      \/ /\ a \notin misses
         /\ index' = IF Asks(a) THEN IndexAfter(i, Number[a]) ELSE i
         /\ known' = [known EXCEPT ![a] = f]
         /\ other' = IF f = Nothing THEN misses \union {a} ELSE misses
  BY DEF LookUp, caches, Checked
<1>f. ~AddressBookChanged => watched = lists /\ context = [plan |-> plan, domain |-> domain]
  BY DEF AddressBookChanged
<1> HIDE DEF i, misses
<1>g. f \in Friends \union {Nothing}
  BY <1>b, <1>d, FoundType
<1>h. \A g \in InBook : g \in Friends /\ contact[g] # Nothing /\ contact[g].list \in lists
  BY DEF InBook, InList
\* Where what is found comes from.
<1>i. ASSUME NEW b \in Accounts, NEW n \in Numbers, UpToDate(i, b).holder[n] # Nothing
      PROVE  \/ /\ UpToDate(i, b).holder[n] \in InBook
                /\ \E m \in contact[UpToDate(i, b).holder[n]].card.numbers :
                     Normal[UpToDate(i, b).plan][m] = n
             \/ UpToDate(i, b) = i[b]
  <2>1. CASE i[b].plan # plan[b]
    <3>1. HoldersOf(n, plan[b]) \in SUBSET Friends
      BY DEF HoldersOf, InBook, InList
    <3>2. UpToDate(i, b).holder[n] = First(HoldersOf(n, plan[b])) /\ UpToDate(i, b).plan = plan[b]
      BY <2>1 DEF UpToDate, IndexOf
    <3>3. UpToDate(i, b).holder[n] \in HoldersOf(n, plan[b])
      BY <1>i, <3>1, <3>2, FirstOfFriends
    <3>4. QED
      BY <3>2, <3>3 DEF HoldersOf
  <2>2. CASE i[b].plan = plan[b]
    BY <2>2 DEF UpToDate
  <2>3. QED
    BY <2>1, <2>2
<1>j. ASSUME NEW c, Holder(c) # Nothing
      PROVE  Holder(c) \in InBook /\ c \in contact[Holder(c)].card.addresses
  <2>1. {g \in InBook : c \in contact[g].card.addresses} \in SUBSET Friends
    BY <1>h
  <2>2. QED
    BY <1>j, <2>1, FirstOfFriends DEF Holder
<1>k. ASSUME NEW b \in Accounts, NEW m \in Numbers, FoundIn(i, b, m) # Nothing
      PROVE  /\ Normal[plan[b]][m] \in Numbers /\ Normal[plan[b]][m] # Nothing
             /\ UpToDate(i, b).plan = plan[b]
             /\ FoundIn(i, b, m) = UpToDate(i, b).holder[Normal[plan[b]][m]]
  <2>1. Normal[plan[b]][m] \in Numbers \union {Nothing}
    BY <1>d
  <2>2. UpToDate(i, b).plan = plan[b]
    BY DEF UpToDate, IndexOf
  <2>3. QED
    BY <1>k, <2>1, <2>2 DEF FoundIn
<1>1. InItsList'
  BY <1>a, <1>c DEF InItsList
<1>2. CachedAreReachable'
  <2>1. SUFFICES ASSUME ~directories
                 PROVE  /\ \A c \in Addresses : known'[c] # Nothing => Reachable(known[c])'
                        /\ \A b \in Accounts, n \in Numbers :
                             index'[b].holder[n] # Nothing => Reachable(index[b].holder[n])'
    BY <1>c DEF CachedAreReachable
  <2>2. \A g \in Friends : Reachable(g) => contact[g] # Nothing /\ contact[g].list \in lists \union leaving
    BY <1>a DEF Reachable, InItsList
  <2>3. ASSUME NEW b \in Accounts, NEW n \in Numbers, UpToDate(i, b).holder[n] # Nothing
        PROVE  /\ contact[UpToDate(i, b).holder[n]] # Nothing
               /\ contact[UpToDate(i, b).holder[n]].list \in lists \union leaving
    <3>1. i[b].holder[n] \in Friends \union {Nothing}
      <4>1. i[b].holder \in [Numbers -> Friends \union {Nothing}]
        BY <1>b DEF Indexes
      <4>2. QED
        BY <4>1
    <3>2. CASE UpToDate(i, b) = i[b]
      BY <1>b, <2>1, <2>2, <2>3, <3>1, <3>2
    <3>3. CASE UpToDate(i, b).holder[n] \in InBook
      BY <1>h, <3>3
    <3>4. QED
      BY <1>i, <2>3, <3>2, <3>3
  <2>4. f # Nothing => contact[f] # Nothing /\ contact[f].list \in lists \union leaving
    <3>1. SUFFICES ASSUME f # Nothing
                   PROVE  contact[f] # Nothing /\ contact[f].list \in lists \union leaving
      OBVIOUS
    <3>2. CASE \E c : f = Holder(c)
      BY <1>h, <1>j, <3>1, <3>2
    <3>3. CASE Number[a] # Nothing /\ f = FoundByNumber(i, Number[a])
      <4>1. Number[a] \in Numbers
        BY <3>3
      <4>2. PICK b \in Accounts : f = FoundIn(i, b, Number[a])
        BY <3>3, LastAsked DEF FoundByNumber
      <4>3. PICK n \in Numbers : f = UpToDate(i, b).holder[n]
        BY <1>k, <3>1, <4>1, <4>2
      <4>4. QED
        BY <2>3, <3>1, <4>3
    <3>4. QED
      BY <3>1, <3>2, <3>3 DEF Found
  <2>5. ASSUME NEW c \in Addresses, known'[c] # Nothing
        PROVE  contact[known'[c]] # Nothing /\ contact[known'[c]].list \in lists \union leaving
    <3>1. CASE known'[c] = known[c]
      <4>1. Reachable(known[c]) /\ known[c] \in Friends
        BY <1>a, <1>d, <2>1, <2>5, <3>1 DEF CachedAreReachable, CacheTypes
      <4>2. QED
        BY <2>2, <3>1, <4>1
    <3>2. CASE known'[c] = f
      BY <2>4, <2>5, <3>2
    <3>3. QED
      BY <1>d, <1>e, <3>1, <3>2 DEF CacheTypes
  <2>6. ASSUME NEW b \in Accounts, NEW n \in Numbers, index'[b].holder[n] # Nothing
        PROVE  /\ contact[index'[b].holder[n]] # Nothing
               /\ contact[index'[b].holder[n]].list \in lists \union leaving
    <3>1. index[b].holder[n] \in Friends \union {Nothing} /\ i[b].holder[n] \in Friends \union {Nothing}
      <4>1. /\ index[b].holder \in [Numbers -> Friends \union {Nothing}]
            /\ i[b].holder \in [Numbers -> Friends \union {Nothing}]
        BY <1>b, <1>d DEF Indexes, CacheTypes
      <4>2. QED
        BY <4>1
    <3>2. CASE index'[b] = index[b]
      BY <1>a, <2>1, <2>2, <2>6, <3>1, <3>2 DEF CachedAreReachable
    <3>3. CASE index'[b] = i[b]
      BY <1>b, <2>1, <2>2, <2>6, <3>1, <3>3
    <3>4. CASE index'[b] = UpToDate(i, b)
      BY <2>3, <2>6, <3>4
    <3>5. QED
      BY <1>e, <3>2, <3>3, <3>4 DEF IndexAfter
  <2>7. QED
    BY <1>c, <2>5, <2>6 DEF Reachable
<1>3. KnownAnswer'
  <2>1. ASSUME NEW c \in Addresses, known'[c] \notin edited \union {Nothing}, contact[known'[c]] # Nothing
        PROVE  AnswersTo(known'[c], c)
    <3>1. CASE known'[c] = known[c]
      BY <1>a, <2>1, <3>1 DEF KnownAnswer
    <3>2. CASE c = a /\ known'[c] = f
      <4>1. f # Nothing /\ f \notin edited /\ contact[f] # Nothing
        BY <2>1, <3>2
      <4>2. CASE f = Holder(a)
        BY <1>j, <3>2, <4>1, <4>2 DEF AnswersTo
      <4>3. CASE f = Holder(Rebased[domain][a])
        BY <1>d, <1>j, <3>2, <4>1, <4>3 DEF AnswersTo
      <4>4. CASE Number[a] # Nothing /\ f = FoundByNumber(i, Number[a])
        <5>1. Number[a] \in Numbers
          BY <4>4
        <5>2. PICK b \in Accounts : f = FoundIn(i, b, Number[a])
          BY <4>4, LastAsked DEF FoundByNumber
        <5> DEFINE n == Normal[plan[b]][Number[a]]
        <5>3. /\ n \in Numbers /\ n # Nothing /\ UpToDate(i, b).plan = plan[b]
              /\ f = UpToDate(i, b).holder[n]
          BY <1>k, <4>1, <5>1, <5>2
        <5>4. \E m \in contact[f].card.numbers : Normal[plan[b]][m] = n
          <6> HIDE DEF n
          <6>1. CASE UpToDate(i, b) = i[b]
            <7>1. f = i[b].holder[n] /\ i[b].plan = plan[b]
              BY <5>3, <6>1
            <7>2. i[b].holder[n] \notin edited \union {Nothing} /\ contact[i[b].holder[n]] # Nothing
              BY <4>1, <7>1
            <7>3. \E m \in contact[i[b].holder[n]].card.numbers : Normal[i[b].plan][m] = n
              BY <1>b, <5>3, <7>2 DEF Reads
            <7>4. QED
              BY <7>1, <7>3
          <6>2. CASE \E m \in contact[UpToDate(i, b).holder[n]].card.numbers :
                       Normal[UpToDate(i, b).plan][m] = n
            BY <5>3, <6>2
          <6>3. UpToDate(i, b).holder[n] # Nothing
            BY <4>1, <5>3
          <6>4. QED
            BY <1>i, <5>3, <6>1, <6>2, <6>3
        <5>5. plan[b] \in Plans
          BY <1>d
        <5>6. AnswersTo(f, a)
          BY <4>4, <5>3, <5>4, <5>5 DEF AnswersTo
        <5>7. QED
          BY <3>2, <5>6
      <4>5. QED
        BY <4>1, <4>2, <4>3, <4>4 DEF Found
    <3>3. QED
      BY <1>d, <1>e, <3>1, <3>2 DEF CacheTypes
  <2>2. QED
    BY <1>c, <2>1 DEF KnownAnswer, AnswersTo
<1>4. Reads(index)'
  <2>1. ASSUME NEW b \in Accounts, NEW n \in Numbers,
               index'[b].holder[n] \notin edited \union {Nothing}, contact[index'[b].holder[n]] # Nothing
        PROVE  \E m \in contact[index'[b].holder[n]].card.numbers : Normal[index'[b].plan][m] = n
    <3>1. CASE index'[b] = index[b]
      BY <1>a, <2>1, <3>1 DEF Reads
    <3>2. CASE index'[b] = i[b]
      BY <1>b, <2>1, <3>2 DEF Reads
    <3>3. CASE index'[b] = UpToDate(i, b)
      BY <1>b, <1>i, <2>1, <3>3 DEF Reads
    <3>4. QED
      BY <1>e, <3>1, <3>2, <3>3 DEF IndexAfter
  <2>2. QED
    BY <1>c, <2>1 DEF Reads
<1>5. ASSUME edited = {}, ~directories
      PROVE  RightFor(index', lists)
  <2>1. RightFor(i, lists)
    BY <1>5, <1>b
  <2>2. CASE index' = index /\ ~AddressBookChanged
    BY <1>5, <1>a, <1>f, <2>2 DEF IndexesAreRight
  <2>3. CASE index' = i
    BY <2>1, <2>3
  <2>4. CASE Asks(a) /\ index' = IndexAfter(i, Number[a])
    <3>1. Number[a] \in Numbers
      BY <2>4 DEF Asks
    <3>2. QED
      BY <1>a, <1>b, <2>1, <2>4, <3>1, RightIndexes
  <2>5. QED
    BY <1>e, <2>2, <2>3, <2>4
<1>6. IndexesAreRight'
  <2>1. SUFFICES ASSUME edited = {}, ~directories PROVE RightFor(index, watched)'
    BY <1>c DEF IndexesAreRight
  <2>2. RightFor(index', lists)
    BY <1>5, <2>1
  <2>3. \A n, p : HoldersIn(watched, n, p)' = HoldersIn(lists, n, p)
    BY <1>c DEF HoldersIn, Held
  <2>4. QED
    BY <2>2, <2>3 DEF RightFor
<1>7. MissesAreRight'
  <2>1. SUFFICES ASSUME edited = {}, ~directories, NEW c \in other'
                 PROVE  context' # Nothing /\ MissIn(watched, context.plan, context.domain, c)'
    BY <1>c DEF MissesAreRight
  <2>2. MissIn(lists, plan, domain, c)
    <3>1. CASE c \in other /\ ~AddressBookChanged
      <4>1. context # Nothing /\ MissIn(watched, context.plan, context.domain, c)
        BY <1>a, <2>1, <3>1 DEF MissesAreRight
      <4>2. watched = lists /\ context.plan = plan /\ context.domain = domain
        BY <1>f, <3>1
      <4>3. QED
        BY <4>1, <4>2
    <3>2. CASE c = a /\ f = Nothing
      <4>1. RightFor(i, lists)
        BY <1>b, <2>1
      <4>2. Holder(a) = Nothing
        BY <3>2 DEF Found
      <4>3. Number[a] # Nothing => ScanByNumber(Number[a]) = Nothing
        <5>1. SUFFICES ASSUME Number[a] # Nothing PROVE ScanByNumber(Number[a]) = Nothing
          OBVIOUS
        <5>2. Number[a] \in Numbers
          BY <5>1
        <5>3. FoundByNumber(i, Number[a]) = ScanByNumber(Number[a])
          BY <1>a, <1>b, <4>1, <5>2, RightIndexes
        <5>4. FoundByNumber(i, Number[a]) = Nothing
          BY <3>2, <4>2, <5>1 DEF Found
        <5>5. QED
          BY <5>3, <5>4
      <4>4. Rebased[domain][a] # Nothing => Holder(Rebased[domain][a]) = Nothing
        <5>1. SUFFICES ASSUME Rebased[domain][a] # Nothing
                       PROVE  Holder(Rebased[domain][a]) = Nothing
          OBVIOUS
        <5>2. Number[a] # Nothing => FoundByNumber(i, Number[a]) = Nothing
          BY <3>2, <4>2 DEF Found
        <5>3. QED
          BY <3>2, <4>2, <5>1, <5>2 DEF Found
      <4>5. Scan(a) = Nothing
        BY <4>2, <4>3, <4>4 DEF Scan
      <4>6. QED
        BY <1>a, <3>2, <4>5, ScanMisses
    <3>3. QED
      <4>1. c \in misses \/ (c = a /\ f = Nothing) \/ (c \in other /\ ~AddressBookChanged)
        BY <1>e, <2>1
      <4>2. c \in misses => c \in other /\ ~AddressBookChanged
        BY DEF misses
      <4>3. QED
        BY <3>1, <3>2, <4>1, <4>2
  <2>3. /\ \A d : HeldAt(watched, d)' = HeldAt(lists, d)
        /\ \A n, p : HoldersIn(watched, n, p)' = HoldersIn(lists, n, p)
    BY <1>c DEF HeldAt, HoldersIn, Held
  <2>4. HeldAt(watched, c)' = {}
    BY <2>2, <2>3 DEF MissIn
  <2>5. Number[c] # Nothing => \A b \in Accounts :
          Normal[plan[b]][Number[c]] # Nothing =>
            HoldersIn(watched, Normal[plan[b]][Number[c]], plan[b])' = {}
    <3>1. SUFFICES ASSUME Number[c] # Nothing, NEW b \in Accounts, Normal[plan[b]][Number[c]] # Nothing
                   PROVE  HoldersIn(watched, Normal[plan[b]][Number[c]], plan[b])' = {}
      OBVIOUS
    <3>2. HoldersIn(lists, Normal[plan[b]][Number[c]], plan[b]) = {}
      BY <2>2, <3>1 DEF MissIn
    <3>3. QED
      BY <1>c, <2>3, <3>2
  <2>6. Rebased[domain][c] # Nothing => HeldAt(watched, Rebased[domain][c])' = {}
    <3>1. Rebased[domain][c] # Nothing => HeldAt(lists, Rebased[domain][c]) = {}
      BY <2>2 DEF MissIn
    <3>2. QED
      BY <1>c, <2>3, <3>1
  <2>7. QED
    BY <1>c, <1>d, <2>4, <2>5, <2>6 DEF MissIn
<1>8. QED
  BY <1>1, <1>2, <1>3, <1>4, <1>6, <1>7 DEF IInv

\* Lookups and changes keep the invariant.
LEMMA InvNext == IInv /\ [Next]_vars => IInv'
<1> SUFFICES ASSUME IInv, [Next]_vars PROVE IInv'
  OBVIOUS
<1>1. TypeOK /\ TypeOK'
  BY TypeNext DEF IInv
<1>2. QED
  BY <1>1, EveryChange, InvChange, InvLookUp

\* What is cached is right or about to be forgotten, in every state.
LEMMA Invariance == Spec => []IInv
BY InvInit, InvNext, PTL DEF Spec

\* A known friend is a contact, never one that was deleted or replaced: whatever is
\* cached is in a list the watcher hears of, or one whose removal will be announced
\* (FriendsManager.cpp:88-176).  Without remote directories, as the property says.
THEOREM KnownSafety == Spec => []KnownAreCurrent
<1>1. IInv => KnownAreCurrent
  BY DEF IInv, CachedAreReachable, Reachable, KnownAreCurrent
<1>2. QED
  BY <1>1, Invariance, PTL

\* A known friend answers to the address it is known by, with or without directories,
\* unless an edit of it is still to be announced (ToolModel.cpp:345-411).
THEOREM AnswerSafety == Spec => []KnownAnswer
<1>1. IInv => KnownAnswer
  BY DEF IInv
<1>2. QED
  BY <1>1, Invariance, PTL

\* Once every change has been heard the indexes answer as the search of every contact,
\* the first account and the first contact winning, whatever the dial plans were when
\* they were built (PhoneNumberIndex.hpp:50-91, FriendsManager.cpp:220-244).
THEOREM IndexSafety == Spec => []IndexAnswersAsScan
<1>1. IInv => IndexAnswersAsScan
  <2>1. SUFFICES ASSUME IInv, BookHeard, ~directories, NEW m \in Numbers
                 PROVE  FoundByNumber(index, m) = ScanByNumber(m)
    BY DEF IndexAnswersAsScan
  <2>2. TypeOK /\ index \in Indexes /\ RightFor(index, lists)
    BY <2>1, TypeParts DEF IInv, CacheTypes, IndexesAreRight, BookHeard
  <2>3. QED
    BY <2>2, RightIndexes
<1>2. QED
  BY <1>1, Invariance, PTL

\* A remembered miss is a miss: every change that could turn it into a match has cleared
\* it, or changed the lists or the context that are compared before it is believed
\* (FriendsManager.cpp:178-218, ToolModel.cpp:355-361).
THEOREM MissSafety == Spec => []LocalMissesAreRight
<1>1. IInv => LocalMissesAreRight
  <2>1. SUFFICES ASSUME IInv, ~directories, Settled, NEW a \in other
                 PROVE  Scan(a) = Nothing
    BY DEF LocalMissesAreRight
  <2>2. /\ TypeOK /\ a \in Addresses /\ watched = lists
        /\ context = [plan |-> plan, domain |-> domain]
    BY <2>1 DEF IInv, TypeOK, Settled, BookHeard
  <2>3. MissIn(watched, context.plan, context.domain, a)
    BY <2>1 DEF IInv, MissesAreRight, Settled, BookHeard
  <2>4. MissIn(lists, plan, domain, a)
    BY <2>2, <2>3
  <2>5. QED
    BY <2>2, <2>4, ScanMisses
<1>2. QED
  BY <1>1, Invariance, PTL
=============================================================================
