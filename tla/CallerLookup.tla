---------------------------- MODULE CallerLookup ----------------------------
(***************************************************************************)
(* ToolModel::findFriendByAddress and FriendsManager: who an address       *)
(* belongs to.                                                             *)
(*                                                                         *)
(* Contacts live in friend lists of the SDK, and change through the app,   *)
(* through CardDAV syncs and through directory searches.  A lookup answers *)
(* from caches of hits and misses and from an index of phone numbers, so   *)
(* it is right only if every change reaches the caches.  Everything runs   *)
(* on the linphone thread; what makes it hard is that some changes are     *)
(* announced late, some only to a watcher that may not be attached yet,    *)
(* and some not at all.                                                    *)
(*                                                                         *)
(* A friend is a number, its place in the order in which the SDK searches. *)
(***************************************************************************)
EXTENDS Integers, FiniteSets, FiniteSetsExt

CONSTANTS
  Friends,      \* bound: the friend objects there can be at a time
  Lists,        \* bound: the friend lists there can be at a time
  Addresses,    \* the addresses contacts hold and callers call from
  Numbers,      \* the phone numbers contacts hold, as they are written
  Cards,        \* what a contact holds: [addresses, numbers]
  Accounts,     \* the accounts, as numbers, in the order of the core
  Plans,        \* dial plans of an account
  Domains,      \* domains of the default account
  Number,       \* the number an address's username looks like, or Nothing
  Normal,       \* a number under a dial plan, or Nothing
  Rebased,      \* an address on a domain, or Nothing when nothing is gained
  Nothing

ASSUME OrdersAreNumbers ==
  /\ Friends \subseteq Nat /\ IsFiniteSet(Friends)
  /\ Accounts \subseteq Nat /\ IsFiniteSet(Accounts) /\ Accounts # {}
ASSUME NothingIsNothing ==
  /\ Nothing \notin Friends /\ Nothing \notin Lists /\ Nothing \notin Plans
  /\ Nothing \notin Addresses /\ Nothing \notin Numbers
  /\ Nothing \notin [list : Lists, card : Cards]
  /\ Nothing \notin [plan : [Accounts -> Plans], domain : Domains]
ASSUME CardsHoldThings == Cards \subseteq [addresses : SUBSET Addresses, numbers : SUBSET Numbers]
ASSUME TablesAreTotal ==
  /\ Number \in [Addresses -> Numbers \union {Nothing}]
  /\ Normal \in [Plans -> [Numbers -> Numbers \union {Nothing}]]
  /\ Rebased \in [Domains -> [Addresses -> Addresses \union {Nothing}]]

VARIABLES
  contact,      \* for each friend object its list and what it holds, or Nothing
  lists,        \* the core's friend lists
  leaving,      \* removed lists whose friends are not announced as removed yet
  edited,       \* friends written by a save that is not announced yet
  plan,         \* each account's dial plan
  domain,       \* the default account's domain
  known,        \* mKnownFriends
  unknown,      \* mUnknownFriends
  other,        \* mOtherAddresses, the remembered misses
  index,        \* mPhoneNumberIndexes
  watched,      \* mWatchedFriendLists
  context,      \* mLookupContext
  directories   \* whether a remote directory (LDAP) was ever registered

settings == <<plan, domain, directories>>
book == <<contact, lists, leaving, edited, settings>>
caches == <<known, unknown, other, index>>
manager == <<known, unknown, other, index, watched, context>>
vars == <<book, manager>>

NotBuilt == [plan |-> Nothing, holder |-> [n \in Numbers |-> Nothing]]
NobodyKnown == [a \in Addresses |-> Nothing]

TypeOK ==
  /\ contact \in [Friends -> [list : Lists, card : Cards] \union {Nothing}]
  /\ lists \subseteq Lists /\ leaving \subseteq Lists \ lists
  /\ edited \subseteq Friends
  /\ plan \in [Accounts -> Plans] /\ domain \in Domains
  /\ known \in [Addresses -> Friends \union {Nothing}]
  /\ unknown \in [Addresses -> Friends \union {Nothing}]
  /\ other \subseteq Addresses
  /\ index \in [Accounts -> [plan : Plans \union {Nothing},
                             holder : [Numbers -> Friends \union {Nothing}]]]
  /\ watched \subseteq Lists
  /\ context \in [plan : [Accounts -> Plans], domain : Domains] \union {Nothing}
  /\ directories \in BOOLEAN

Init ==
  /\ contact = [f \in Friends |-> Nothing]
  /\ lists = {} /\ leaving = {} /\ edited = {}
  /\ plan \in [Accounts -> Plans] /\ domain \in Domains
  /\ known = NobodyKnown /\ unknown = NobodyKnown /\ other = {}
  /\ index = [a \in Accounts |-> NotBuilt]
  /\ watched = {} /\ context = Nothing /\ directories = FALSE

-----------------------------------------------------------------------------
(* The SDK's own answers *)

InList(l) == {f \in Friends : contact[f] # Nothing /\ contact[f].list = l}
InBook == UNION {InList(l) : l \in lists}

\* The first friend of S in search order.
First(S) == IF S = {} THEN Nothing ELSE Min(S)

\* Core::findFriend: the friend that holds address a.
Holder(a) == First({f \in InBook : a \in contact[f].card.addresses})

\* The friends who hold number n under dial plan p.
HoldersOf(n, p) ==
  {f \in InBook : \E m \in contact[f].card.numbers : Normal[p][m] = n}

\* Core::findFriendByPhoneNumber for one account.  A number the plan cannot
\* read matches nothing.
ScanFor(m, p) ==
  IF Normal[p][m] = Nothing THEN Nothing ELSE First(HoldersOf(Normal[p][m], p))

-----------------------------------------------------------------------------
(* Lookups *)

\* PhoneNumberIndex::build for dial plan p.
IndexOf(p) == [plan |-> p, holder |-> [n \in Numbers |-> First(HoldersOf(n, p))]]

\* Mutant: an index is not rebuilt when the dial plan changed.
EverBuilt(i, a) == IF i[a].plan = Nothing THEN IndexOf(plan[a]) ELSE i[a]

\* The index of account a as PhoneNumberIndex::find leaves it.
UpToDate(i, a) == IF i[a].plan # plan[a] THEN IndexOf(plan[a]) ELSE i[a]

\* What the index of account a answers for number m.
FoundIn(i, a, m) ==
  IF Normal[plan[a]][m] = Nothing THEN Nothing ELSE UpToDate(i, a).holder[Normal[plan[a]][m]]

\* FriendsManager::findFriendByPhoneNumber from the indexes i: each account in
\* turn, the first match wins.  The indexes of the accounts asked are built.
AskedAccounts(i, m) ==
  {a \in Accounts : \A b \in Accounts : b < a => FoundIn(i, b, m) = Nothing}
FoundByNumber(i, m) == FoundIn(i, Max(AskedAccounts(i, m)), m)
IndexAfter(i, m) ==
  [a \in Accounts |-> IF a \in AskedAccounts(i, m) THEN UpToDate(i, a) ELSE i[a]]

\* The tiers of findFriendByAddress below its caches, each asked only if those
\* before it found nobody.
Asks(a) == Holder(a) = Nothing /\ Number[a] # Nothing
Found(i, a) ==
  IF Holder(a) # Nothing THEN Holder(a)
  ELSE IF Number[a] # Nothing /\ FoundByNumber(i, Number[a]) # Nothing THEN FoundByNumber(i, Number[a])
  ELSE IF Rebased[domain][a] # Nothing THEN Holder(Rebased[domain][a]) ELSE Nothing

\* onAddressBookChanged: every miss is forgotten and every index dropped.
MissesForgotten ==
  /\ other' = {}
  /\ index' = [a \in Accounts |-> NotBuilt]

\* Mutant: a change of dial plan or domain is not noticed.
CheckedListsOnly == watched # lists

\* checkAddressBook: whether lists came or went, or the context changed, since
\* the last lookup that got this far.
AddressBookChanged == watched # lists \/ context # [plan |-> plan, domain |-> domain]

\* findFriendByAddress for an address in neither map of hits.
LookUp(a) ==
  /\ known[a] = Nothing /\ unknown[a] = Nothing
  /\ watched' = lists
  /\ context' = [plan |-> plan, domain |-> domain]
  /\ LET misses == IF AddressBookChanged THEN {} ELSE other
         i == IF AddressBookChanged THEN [b \in Accounts |-> NotBuilt] ELSE index
         f == Found(i, a)
     IN  IF a \in misses
         THEN UNCHANGED caches
         ELSE /\ index' = IF Asks(a) THEN IndexAfter(i, Number[a]) ELSE i
              /\ known' = [known EXCEPT ![a] = f]
              /\ other' = IF f = Nothing THEN misses \union {a} ELSE misses
              /\ UNCHANGED unknown
  /\ UNCHANGED book

-----------------------------------------------------------------------------
(* Changes of the caches that changes of the book bring *)

\* removeAllKeysFor
Without(hits, S) == [a \in Addresses |-> IF hits[a] \in S THEN Nothing ELSE hits[a]]

\* Mutant: only the first address of a friend is evicted (QMap::key).
ForgottenAtOneKey(S) ==
  /\ known' = LET K == {a \in Addresses : known[a] \in S}
              IN  IF K = {} THEN known ELSE [known EXCEPT ![CHOOSE a \in K : TRUE] = Nothing]
  /\ unknown' = Without(unknown, S)

\* forgetFriend, for the friends S
Forgotten(S) ==
  /\ known' = Without(known, S)
  /\ unknown' = Without(unknown, S)

\* The FriendListWatcher hears of list l only once checkAddressBook has met it.
WatcherHears(l, S) ==
  /\ IF l \in watched
     THEN Forgotten(S) /\ MissesForgotten
     ELSE UNCHANGED caches
  /\ UNCHANGED <<watched, context>>

\* A friend object the app can create: nothing refers to it any more.
Fresh(f) ==
  /\ contact[f] = Nothing /\ f \notin edited
  /\ \A a \in Addresses : known[a] # f /\ unknown[a] # f
  /\ \A i \in Accounts, n \in Numbers : index[i].holder[n] # f

Put(f, c, l) == contact' = [contact EXCEPT ![f] = [list |-> l, card |-> c]]

\* Friend g is put in the place of friend f.
Swapped(f, g, c) ==
  contact' = [contact EXCEPT ![f] = Nothing, ![g] = [list |-> contact[f].list, card |-> c]]

\* FriendCore::save of a new contact, and friendCreated.
CreateFriend(f, c, l) ==
  /\ Fresh(f) /\ l \in lists
  /\ Put(f, c, l)
  /\ unknown' = Without(unknown, {f})
  /\ MissesForgotten
  /\ UNCHANGED <<lists, leaving, edited, settings, known, watched, context>>

\* FriendCore::save of an existing contact: writeIntoModel on the linphone
\* thread.  friendUpdated comes back from the GUI thread, by way of saved.
SaveFriend(f, c) ==
  /\ f \in InBook
  /\ Put(f, c, contact[f].list)
  /\ edited' = edited \union {f}
  /\ UNCHANGED <<lists, leaving, settings, manager>>

\* Mutant: an edited friend stays cached.
FriendUpdatedKept(f) ==
  /\ f \in edited
  /\ edited' = edited \ {f}
  /\ MissesForgotten
  /\ UNCHANGED <<contact, lists, leaving, settings, known, unknown, watched, context>>

\* friendUpdated
FriendUpdated(f) ==
  /\ f \in edited
  /\ edited' = edited \ {f}
  /\ Forgotten({f}) /\ MissesForgotten
  /\ UNCHANGED <<contact, lists, leaving, settings, watched, context>>

\* FriendModel::remove, and friendRemoved.
RemoveFriend(f) ==
  /\ f \in InBook
  /\ contact' = [contact EXCEPT ![f] = Nothing]
  /\ Forgotten({f}) /\ MissesForgotten
  /\ UNCHANGED <<lists, leaving, edited, settings, watched, context>>

\* A CardDAV sync creates a contact (onContactCreated), ...
SyncCreates(f, c, l) ==
  /\ Fresh(f) /\ l \in lists
  /\ Put(f, c, l)
  /\ WatcherHears(l, {})
  /\ UNCHANGED <<lists, leaving, edited, settings>>

\* ... deletes one (onContactDeleted) ...
SyncDeletes(f) ==
  /\ f \in InBook
  /\ contact' = [contact EXCEPT ![f] = Nothing]
  /\ WatcherHears(contact[f].list, {f})
  /\ UNCHANGED <<lists, leaving, edited, settings>>

\* ... or puts a new object in an old one's place (onContactUpdated).
SyncReplaces(f, g, c) ==
  /\ f \in InBook /\ Fresh(g)
  /\ Swapped(f, g, c)
  /\ WatcherHears(contact[f].list, {f})
  /\ UNCHANGED <<lists, leaving, edited, settings>>

\* core->addFriendList.  The list is a new object.
AddList(l) ==
  /\ l \notin lists \union leaving \union watched
  /\ lists' = lists \union {l}
  /\ UNCHANGED <<contact, leaving, edited, settings, manager>>

\* Mutant: the list is announced as removed before it is.
RemoveListKept(l) ==
  /\ l \in lists
  /\ leaving' = leaving \union {l}
  /\ UNCHANGED <<contact, lists, edited, settings, manager>>

\* core->removeFriendList: its friends are announced 500 ms later.
RemoveList(l) ==
  /\ l \in lists
  /\ lists' = lists \ {l}
  /\ leaving' = leaving \union {l}
  /\ UNCHANGED <<contact, edited, settings, manager>>

\* onFriendListRemoved's timer: friendRemoved of each friend of the list.
ListRemoved(l) ==
  LET gone == InList(l)
  IN  /\ l \in leaving
      /\ leaving' = leaving \ {l}
      /\ contact' = [f \in Friends |-> IF f \in gone THEN Nothing ELSE contact[f]]
      /\ IF gone = {} THEN UNCHANGED caches ELSE Forgotten(gone) /\ MissesForgotten
      /\ UNCHANGED <<lists, edited, settings, watched, context>>

\* Account settings and provisioning.
SetPlan(a, p) ==
  /\ plan' = [plan EXCEPT ![a] = p]
  /\ UNCHANGED <<contact, lists, leaving, edited, domain, directories, manager>>
SetDomain(d) ==
  /\ domain' = d
  /\ UNCHANGED <<contact, lists, leaving, edited, plan, directories, manager>>

\* onSearchResultsReceived files friend f under every address it holds, unless
\* another friend is filed there, and forgets the misses at those addresses.
Filed(f, addresses) ==
  [a \in Addresses |-> IF a \in addresses /\ unknown[a] = Nothing THEN f ELSE unknown[a]]

SearchFinds(f) ==
  /\ f \in InBook
  /\ unknown' = Filed(f, contact[f].card.addresses)
  /\ other' = other \ contact[f].card.addresses
  /\ UNCHANGED <<book, known, index, watched, context>>

\* LdapModel::save: a remote directory is registered, and the list that caches
\* directory results, if there is one, is removed.
AddDirectory(cache) ==
  /\ directories' = TRUE
  /\ lists' = lists \ cache
  /\ leaving' = leaving \union cache
  /\ UNCHANGED <<contact, edited, plan, domain, manager>>

\* updateFriendListWithFriend, when the directory's friend g shares an address
\* or a number with friend f of the LDAP list: g takes f's place and nothing is emitted.
DirectoryReplaces(f, g, c) ==
  /\ directories
  /\ f \in InBook /\ Fresh(g)
  /\ \/ contact[f].card.addresses \intersect c.addresses # {}
     \/ contact[f].card.numbers \intersect c.numbers # {}
  /\ Swapped(f, g, c)
  /\ unknown' = Filed(g, c.addresses)
  /\ other' = other \ c.addresses
  /\ UNCHANGED <<lists, leaving, edited, settings, known, index, watched, context>>

Next ==
  \/ \E a \in Addresses : LookUp(a)
  \/ \E f \in Friends, c \in Cards :
       \/ \E l \in Lists : CreateFriend(f, c, l) \/ SyncCreates(f, c, l)
       \/ \E g \in Friends : SyncReplaces(f, g, c) \/ DirectoryReplaces(f, g, c)
       \/ SaveFriend(f, c)
  \/ \E f \in Friends : FriendUpdated(f) \/ RemoveFriend(f) \/ SyncDeletes(f) \/ SearchFinds(f)
  \/ \E l \in Lists : AddList(l) \/ RemoveList(l) \/ ListRemoved(l)
  \/ \E a \in Accounts, p \in Plans : SetPlan(a, p)
  \/ \E d \in Domains : SetDomain(d)
  \/ \E cache \in {{}} \union {{l} : l \in lists} : AddDirectory(cache)

Spec == Init /\ [][Next]_vars

-----------------------------------------------------------------------------
(* Properties *)

\* What findFriendByAddress would answer with no cache at all.
ScanByNumber(m) ==
  LET matching == {a \in Accounts : ScanFor(m, plan[a]) # Nothing}
  IN  IF matching = {} THEN Nothing ELSE ScanFor(m, plan[Min(matching)])
Scan(a) ==
  IF Holder(a) # Nothing THEN Holder(a)
  ELSE IF Number[a] # Nothing /\ ScanByNumber(Number[a]) # Nothing THEN ScanByNumber(Number[a])
  ELSE IF Rebased[domain][a] # Nothing THEN Holder(Rebased[domain][a]) ELSE Nothing

\* Every change of the lists and their contacts has been announced.
BookHeard == watched = lists /\ edited = {}
\* Nor have the accounts changed since checkAddressBook looked.
Settled == BookHeard /\ context = [plan |-> plan, domain |-> domain]

\* "Every change that can turn a miss into a match now clears all misses ... which is what
\* makes it safe to check first" (caller-identification.md:93-95).  So it is with every
\* contact held locally, "the usual deployment" (:86); not with remote directories, whose
\* results may replace a contact without any signal.
LocalMissesAreRight ==
  ~directories /\ Settled => \A a \in other : Scan(a) = Nothing

\* "gives the same answer as the SDK's core->findFriendByPhoneNumber()"
\* (caller-identification.md:77-80), from whatever indexes are built; a change
\* of dial plan rebuilds them (PhoneNumberIndex.hpp:39-40).
IndexAnswersAsScan ==
  BookHeard /\ ~directories => \A m \in Numbers : FoundByNumber(index, m) = ScanByNumber(m)

\* A friend in the map of known friends is in the address book, or in a list
\* whose removal is about to be announced: no caller is shown a deleted or
\* replaced contact.
KnownAreCurrent ==
  ~directories => \A a \in Addresses : known[a] # Nothing => contact[known[a]] # Nothing

\* A known friend still answers to the address it is cached under: it holds the
\* address, a number like it, or the address on the account's domain, whatever
\* dial plan or domain was in force.  An edit takes the friend out of the cache.
AnswersTo(f, a) ==
  \/ a \in contact[f].card.addresses
  \/ \E p \in Plans, m \in contact[f].card.numbers :
       /\ Number[a] # Nothing /\ Normal[p][m] # Nothing
       /\ Normal[p][m] = Normal[p][Number[a]]
  \/ \E d \in Domains : Rebased[d][a] \in contact[f].card.addresses
KnownAnswer ==
  \A a \in Addresses : known[a] \notin edited \union {Nothing} /\ contact[known[a]] # Nothing => AnswersTo(known[a], a)
=============================================================================
