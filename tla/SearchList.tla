----------------------------- MODULE SearchList -----------------------------
(* A list of search results (core/search/MagicSearchList.cpp) under the proxy of a view
   (MagicSearchProxy.cpp, AllContactListView.qml).

   The GUI thread owns the rows and asks for searches; the linphone thread runs them, keeps
   the hash of the last results it reported, and skips the report of results with that
   hash.  Each of the two queues is run in order.  friendCreated alone reaches the rows
   from the linphone thread: it is taken here as one step between two of the GUI thread.

   A view either shares the rows of the Contacts page and searches only for what is typed,
   or lists everything and never clears its text.

   A contact is a card of a person: its key is a SIP address or, without one, a number; the
   hash sees key and name; looks is all else the list draws. *)
EXTENDS Picking, Functions, FiniteSetsExt

CONSTANTS
  CardsOf,    \* the cards each person can have
  Order,      \* the people, in the order the SDK lists them
  Addresses,  \* the keys that are SIP addresses
  Matching,   \* the names each text matches
  NoText,     \* the empty search text
  NoCard,     \* the person is in no book
  NoHash,     \* std::nullopt
  MaxWork     \* a bound on the work waiting when the user or a server does something

People == Range(Order)
Texts == DOMAIN Matching
Cards == UNION {CardsOf[p] : p \in People}
Contacts == {c \in [who : People, card : Cards] : c.card \in CardsOf[c.who]}

\* contactKey(): the name tells contacts without an address apart.
KeyOf(key, name) == IF key \in Addresses THEN <<key>> ELSE <<key, name>>
Key(c) == KeyOf(c.card.key, c.card.name)

\* What hashSearchResults() sees of a contact.
Hashed(c) == <<c.card.key, c.card.name>>

ASSUME CardAssumption ==
  /\ People = DOMAIN CardsOf /\ NoCard \notin Cards /\ NoText \notin Texts
  /\ \A p \in People : CardsOf[p] # {}

ASSUME OrderAssumption ==
  /\ Order \in Seq(People) /\ \A i, j \in DOMAIN Order : Order[i] = Order[j] => i = j
  /\ NoHash \notin Seq({Hashed(c) : c \in Contacts})

\* No two people have one key: MagicSearchList.cpp:230 takes keys to be distinct.
ASSUME KeysAssumption == \A c, d \in Contacts : Key(c) = Key(d) => c.who = d.who

VARIABLES
  shared,    \* useSharedContacts
  text,      \* mSearchText
  rows,      \* mList
  loading,   \* the busy indicator of a view that lists everything
  guiQ,      \* closures posted to the GUI thread
  modelQ,    \* closures posted to the linphone thread
  book,      \* the card of each person in the address books
  asked,     \* the searches the SDK has been asked for and not reported
  hash,      \* mLastResultsHash
  unsearched, \* a contact was created or deleted here, and nothing has been searched since
  touched    \* the rows were changed by something else since results were put into them

view == <<shared, text, loading>>
vars == <<view, rows, guiQ, modelQ, book, asked, hash, unsearched, touched>>

Work == [kind : {"search"}, text : Texts] \union [kind : {"forget"}] \union
        [kind : {"remove"}, who : People] \union [kind : {"create"}, contact : Contacts]
News == [kind : {"results"}, contacts : Seq(Contacts)] \union
        [kind : {"unchanged", "synchronized"}] \union [kind : {"removed"}, contact : Contacts]

Books == {b \in [People -> Cards \union {NoCard}] :
            \A p \in People : b[p] \in CardsOf[p] \union {NoCard}}

OneForEachKey(contacts) ==
  \A i, j \in DOMAIN contacts : Key(contacts[i]) = Key(contacts[j]) => i = j

\* A key has one row, unless a contact created here was on its way in results as well.
TypeOK ==
  /\ shared \in BOOLEAN /\ loading \in BOOLEAN
  /\ unsearched \in BOOLEAN /\ touched \in BOOLEAN
  /\ text \in Texts \union {NoText}
  /\ rows \in Seq(Contacts) /\ guiQ \in Seq(News) /\ modelQ \in Seq(Work)
  /\ asked \in Seq(Texts) /\ book \in Books
  /\ ~touched => OneForEachKey(rows)

\* initialized: the search has been created, and nothing is typed.
Init ==
  /\ shared \in BOOLEAN /\ text = NoText /\ loading = FALSE
  /\ rows = <<>> /\ guiQ = <<>> /\ modelQ = <<>> /\ asked = <<>>
  /\ book \in Books
  /\ hash = NoHash /\ unsearched = FALSE /\ touched = FALSE

Quiet == modelQ = <<>> /\ guiQ = <<>> /\ asked = <<>>
Room == Len(modelQ) + Len(guiQ) + Len(asked) < MaxWork

-----------------------------------------------------------------------------
(* The GUI thread *)

Ask(work) == modelQ' = Append(modelQ, work)
Hear(kind) == guiQ # <<>> /\ Head(guiQ).kind = kind /\ guiQ' = Tail(guiQ)

\* setSearchText() with something typed.
SetText(t) ==
  /\ Room /\ t # text
  /\ text' = t /\ loading' = ~shared
  /\ Ask([kind |-> "search", text |-> t])
  /\ UNCHANGED <<shared, rows, guiQ, book, asked, hash, unsearched, touched>>

\* Mutant: the hash outlives the rows.
ClearTextKeepsHash ==
  /\ Room /\ shared /\ text # NoText
  /\ text' = NoText /\ rows' = <<>>
  /\ UNCHANGED <<shared, loading, modelQ, guiQ, book, asked, hash, unsearched, touched>>

\* setSearchText("").
ClearText ==
  /\ Room /\ shared /\ text # NoText
  /\ text' = NoText /\ rows' = <<>>
  /\ Ask([kind |-> "forget"])
  /\ UNCHANGED <<shared, loading, guiQ, book, asked, hash, unsearched, touched>>

\* forceUpdate, once an address book was synchronized.
ForceUpdate ==
  /\ Hear("synchronized")
  /\ IF text = NoText THEN UNCHANGED modelQ ELSE Ask([kind |-> "search", text |-> text])
  /\ UNCHANGED <<view, rows, book, asked, hash, unsearched, touched>>

\* The row results that have this key go to: the last of existingRows, or none.
RowOf(c) ==
  LET same == {i \in DOMAIN rows : Key(rows[i]) = Key(c)}
  IN  IF same = {} THEN 0 ELSE Max(same)

\* A row takes the contact that goes to it, if that has another signature.
Swapped(contacts) ==
  [i \in DOMAIN rows |->
     LET mine == {n \in DOMAIN contacts : RowOf(contacts[n]) = i}
     IN  IF mine = {} \/ contacts[Max(mine)].card = rows[i].card
         THEN rows[i] ELSE contacts[Max(mine)]]

\* The rows that stay, in their order.
Kept(contacts) == Entries(Swapped(contacts), {RowOf(c) : c \in Range(contacts)} \ {0})

\* Mutant: results that have a row are added all the same.
NewEvenIfKept(contacts) == contacts

New(contacts) == Entries(contacts, {n \in DOMAIN contacts : RowOf(contacts[n]) = 0})

\* Mutant: new contacts go first.
MergedNewFirst(contacts) == New(contacts) \o Kept(contacts)

\* setResults()
Merged(contacts) == Kept(contacts) \o New(contacts)

\* resultsProcessed
Processed == loading' = FALSE /\ UNCHANGED <<shared, text>>

OnResults ==
  /\ Hear("results")
  /\ rows' = Merged(Head(guiQ).contacts)
  /\ Processed
  /\ touched' = FALSE
  /\ UNCHANGED <<modelQ, book, asked, hash, unsearched>>

OnUnchanged ==
  /\ Hear("unchanged")
  /\ Processed
  /\ UNCHANGED <<rows, modelQ, book, asked, hash, unsearched, touched>>

\* The same friend, or a friend with its address (FriendModel::isThisFriend).
Removes(gone, c) ==
  \/ c.who = gone.who
  \/ gone.card.key \in Addresses /\ c.card.key = gone.card.key

\* FriendCore::removed of the rows that stood for a deleted contact.
OnRemoved ==
  /\ Hear("removed")
  /\ rows' = Entries(rows, {i \in DOMAIN rows : ~Removes(Head(guiQ).contact, rows[i])})
  /\ touched' = (touched \/ rows' # rows)
  /\ UNCHANGED <<view, modelQ, book, asked, hash, unsearched>>

\* The user deletes a contact of the list.
Delete(p) ==
  /\ Room /\ \E c \in Range(rows) : c.who = p
  /\ Ask([kind |-> "remove", who |-> p])
  /\ UNCHANGED <<view, rows, guiQ, book, asked, hash, unsearched, touched>>

\* The user saves a new contact.
Save(p, card) ==
  /\ Room /\ book[p] = NoCard
  /\ \A c \in Range(rows) : c.who # p
  /\ \A i \in DOMAIN modelQ : modelQ[i].kind # "create"
  /\ Ask([kind |-> "create", contact |-> [who |-> p, card |-> card]])
  /\ UNCHANGED <<view, rows, guiQ, book, asked, hash, unsearched, touched>>

-----------------------------------------------------------------------------
(* The linphone thread *)

Take(kind) == modelQ # <<>> /\ Head(modelQ).kind = kind /\ modelQ' = Tail(modelQ)
Post(news) == guiQ' = Append(guiQ, news)

\* MagicSearchModel::search()
Search ==
  /\ Take("search")
  /\ asked' = Append(asked, Head(modelQ).text)
  /\ UNCHANGED <<view, rows, guiQ, book, hash, unsearched, touched>>

Forget ==
  /\ Take("forget")
  /\ hash' = NoHash
  /\ UNCHANGED <<view, rows, guiQ, book, asked, unsearched, touched>>

ResultsFor(t) ==
  LET found == Entries(Order, {i \in DOMAIN Order :
                                 book[Order[i]] # NoCard /\ book[Order[i]].name \in Matching[t]})
  IN  [i \in DOMAIN found |-> [who |-> found[i], card |-> book[found[i]]]]

\* hashSearchResults()
Hash(contacts) == [i \in DOMAIN contacts |-> Hashed(contacts[i])]

\* Mutant: nothing is said of results that are the same.
ReportIfChanged(contacts) ==
  IF Hash(contacts) = hash
  THEN UNCHANGED <<hash, guiQ>>
  ELSE hash' = Hash(contacts) /\ Post([kind |-> "results", contacts |-> contacts])

Report(contacts) ==
  IF Hash(contacts) = hash
  THEN Post([kind |-> "unchanged"]) /\ UNCHANGED hash
  ELSE hash' = Hash(contacts) /\ Post([kind |-> "results", contacts |-> contacts])

\* searchResultsReceived.  The SDK answers each search, or a later one for both.
SearchReports ==
  \E i \in DOMAIN asked :
    /\ asked' = SubSeq(asked, i + 1, Len(asked))
    /\ Report(ResultsFor(asked[i]))
    /\ unsearched' = FALSE
    /\ UNCHANGED <<view, rows, modelQ, book, touched>>

\* FriendModel::remove()
RemoveFriend ==
  /\ Take("remove")
  /\ LET p == Head(modelQ).who
     IN  IF book[p] = NoCard
         THEN UNCHANGED <<guiQ, book, unsearched>>
         ELSE /\ book' = [book EXCEPT ![p] = NoCard]
              /\ Post([kind |-> "removed", contact |-> [who |-> p, card |-> book[p]]])
              /\ unsearched' = TRUE
  /\ UNCHANGED <<view, rows, asked, hash, touched>>

\* haveContact of the slot of friendCreated.
Have(card) == \E c \in Range(rows) : card.key \in Addresses /\ c.card.key = card.key

\* FriendCore::save() of a new contact, and friendCreated, which this list hears directly.
CreateFriend ==
  /\ Take("create")
  /\ LET c == Head(modelQ).contact
         isNew == book[c.who] = NoCard /\ ~Have(c.card)
     IN  /\ book' = [book EXCEPT ![c.who] = c.card]
         /\ rows' = IF isNew THEN Append(rows, c) ELSE rows
         /\ touched' = (touched \/ isNew)
  /\ unsearched' = TRUE
  /\ UNCHANGED <<view, guiQ, asked, hash>>

\* A book is synchronized, with or without a change of somebody's card.
Synchronize ==
  /\ Room
  /\ \E p \in People : \E card \in CardsOf[p] \union {NoCard} : book' = [book EXCEPT ![p] = card]
  /\ Post([kind |-> "synchronized"])
  /\ UNCHANGED <<view, rows, modelQ, asked, hash, unsearched, touched>>

-----------------------------------------------------------------------------

Gui == ForceUpdate \/ OnResults \/ OnUnchanged \/ OnRemoved
Linphone == Search \/ Forget \/ RemoveFriend \/ CreateFriend
User ==
  \/ ClearText
  \/ \E t \in Texts : SetText(t)
  \/ \E p \in People : Delete(p) \/ \E card \in CardsOf[p] : Save(p, card)

Next == Gui \/ Linphone \/ SearchReports \/ Synchronize \/ User

\* Both event loops run on, and the SDK answers a search.
Spec ==
  /\ Init /\ [][Next]_vars
  /\ WF_vars(Gui) /\ WF_vars(Linphone) /\ WF_vars(SearchReports)

-----------------------------------------------------------------------------
(* Properties *)

Drawn(contacts) == {<<Key(c), c.card.name>> : c \in Range(contacts)}

ShowsResults ==
  Drawn(rows) = Drawn(ResultsFor(text)) /\ Len(rows) = Len(ResultsFor(text))

\* However searches, answers, cleared texts and syncs crossed, with nothing on its way the
\* rows are the contacts that match the text: the hash never skips results the rows lack
\* (MagicSearchList.cpp:106).  Not so where a contact created or deleted here has changed the
\* rows since: SearchesRebuild.
QuietRowsAreResults ==
  Quiet /\ text # NoText /\ ~unsearched /\ ~touched => ShowsResults

\* "The next search must rebuild even if the server returns exactly what it did before"
\* where "the list no longer reflects the last results" (MagicSearchList.cpp:288).
SearchesRebuild ==
  Quiet /\ text # NoText /\ ~unsearched => ShowsResults

\* Results never move a row that stays, the last of its key: the selection and the scroll
\* position of the user rest on it (MagicSearchList.cpp:220).
KeptRowsDoNotMove ==
  [][Hear("results") =>
       \A i, j \in DOMAIN rows : \A k, l \in DOMAIN rows' :
         /\ RowOf(rows[i]) = i /\ Key(rows[i]) = Key(rows'[k])
         /\ RowOf(rows[j]) = j /\ Key(rows[j]) = Key(rows'[l])
         => k <= i /\ (i < j => k < l)]_vars

\* A busy indicator stops: each search is answered to the view, its results new or not
\* (MagicSearchList.cpp:103).
LoadingStops == loading ~> ~loading

=============================================================================
