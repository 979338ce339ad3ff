---------------------------- MODULE ContactsPage ----------------------------
(* The contacts page (core/contacts/ContactsCore.cpp), the search that fills it
   (MagicSearchList.cpp, MagicSearchProxy.cpp), the count of first fetches (CoreModel.cpp)
   and the syncs of the CardDAV address books (CardDAVSyncAgent.hpp).

   Two threads post closures to one another, each running its own queue in order.  The
   linphone thread holds the address books and the syncs; the GUI thread holds the list on
   show and three indicators, each kept from lasting for ever by a watchdog.  What a book
   holds is a member of Contents, and Hashed is what hashSearchResults sees of it.

   The book is searched when the SDK reports: the page asks for local sources only.  The
   SDK answers every search made up to then with one report, or each with its own. *)
EXTENDS Integers, Sequences, FiniteSets

CONSTANTS
  Lists,      \* the CardDAV address books there can be
  Contents,   \* what a book can hold
  Empty,      \* the book with no contact
  Hashed,     \* Contents -> what hashSearchResults tells apart: addresses and names
  Batches,    \* runs of refresh() that can be told apart (a bound on those in progress)
  MaxWork,    \* a bound on the closures and searches waiting when something new starts
  MaxAgents,  \* a bound on the agents waiting when something new starts
  Nothing

ASSUME ListsAssumption == IsFiniteSet(Lists)
ASSUME EmptyAssumption == Empty \in Contents
ASSUME HashedAssumption == /\ DOMAIN Hashed = Contents
                           /\ \A c \in Contents : Hashed[c] = Hashed[Empty] => c = Empty
                           /\ Nothing \notin [Lists -> {Hashed[c] : c \in Contents}]
ASSUME BatchesAssumption == Batches \subseteq Nat /\ 0 \notin Batches
ASSUME NothingAssumption == Nothing \notin [list : Lists, succeeded : BOOLEAN]

VARIABLES
  connected,   \* ContactsCore exists
  loaded,      \* mInitialLoadComplete
  syncing,     \* mSyncing
  lastFailed,  \* mLastSyncFailed
  fetching,    \* mFetching
  awaiting,    \* mAwaitingFetchedResults
  timers,      \* the timers running: the three watchdogs
  searching,   \* the root proxy's search text is "*"
  shown,       \* what of each book the list holds
  coreQ,       \* closures posted to the GUI thread
  modelQ,      \* closures posted to the linphone thread
  lists,       \* the books the core has
  stored,      \* what each of them holds
  agents,      \* the CardDAVSyncAgents waiting for their list
  anyFailed,   \* the runs of refresh() with a list that failed
  reporting,   \* the sync whose listeners are being called
  fetches,     \* mAddressBookFetches
  requests,    \* searches the SDK has not answered
  lastHash,    \* mLastResultsHash
  gaveUp       \* history: the fetch watchdog hid the fetch that is under way

guiVars == <<loaded, syncing, lastFailed, fetching, awaiting, timers, searching, shown, gaveUp>>
syncVars == <<lists, stored, agents, anyFailed, reporting, fetches>>
vars == <<connected, guiVars, coreQ, modelQ, syncVars, requests, lastHash>>

Watchdogs == {"load", "sync", "fetch"}
Announced == 0   \* an agent whose completion announces its own sync: launch, timer, provisioning
Agents == [list : Lists, first : BOOLEAN, batch : Batches \union {Announced}]
Tasks == [do : {"createSearch", "readFetching", "search"}]
         \union [do : {"refresh"}, batch : Batches]
Events == [do : {"created", "initialized", "unchanged", "synchronized"}]
          \union [do : {"results"}, found : [Lists -> Contents]]
          \union [do : {"fetching"}, value : BOOLEAN]
          \union [do : {"finished"}, batch : Batches, succeeded : BOOLEAN]

Hash(books) == [l \in Lists |-> Hashed[books[l]]]
Room == /\ Len(coreQ) + Len(modelQ) + requests < MaxWork
        /\ Cardinality(agents) < MaxAgents
Idle == reporting = Nothing   \* the linphone thread is not inside a callback
Fetching(b) == [do |-> "fetching", value |-> b]
InQueue(q, what) == \E i \in DOMAIN q : q[i].do = what

Init ==
  /\ connected = FALSE /\ loaded = FALSE /\ syncing = FALSE /\ lastFailed = FALSE
  /\ fetching = FALSE /\ awaiting = FALSE /\ timers = {} /\ searching = FALSE
  /\ shown = [l \in Lists |-> Empty]
  /\ coreQ = <<>> /\ modelQ = <<>>
  /\ lists \in SUBSET Lists
  /\ stored \in {f \in [Lists -> Contents] : \A l \in Lists \ lists : f[l] = Empty}
  /\ agents = {} /\ anyFailed = {} /\ reporting = Nothing /\ fetches = 0
  /\ requests = 0 /\ lastHash = Nothing /\ gaveUp = FALSE
-----------------------------------------------------------------------------
(* The linphone thread: the closures posted to it. *)

(* Agents of one run start on the given lists.  Each list that holds no contact counts as
   a first fetch, and the first fetch of all is signalled (CardDAVSyncAgent::start). *)
Start(on, batch, books) ==
  LET empty == {l \in on : books[l] = Empty}
  IN  /\ agents' = agents \union
           {[list |-> l, first |-> l \in empty, batch |-> batch] : l \in on}
      /\ fetches' = fetches + Cardinality(empty)
      /\ coreQ' = IF fetches = 0 /\ empty # {} THEN Append(coreQ, Fetching(TRUE)) ELSE coreQ

Take(task) == /\ Idle /\ modelQ # <<>> /\ Head(modelQ).do = task
              /\ modelQ' = Tail(modelQ)

(* The search model is built, and handed to the GUI thread. *)
CreateSearch ==
  /\ Take("createSearch")
  /\ coreQ' = Append(coreQ, [do |-> "created"])
  /\ UNCHANGED <<connected, guiVars, syncVars, requests, lastHash>>

ReadFetching ==
  /\ Take("readFetching")
  /\ coreQ' = Append(coreQ, Fetching(fetches > 0))
  /\ UNCHANGED <<connected, guiVars, syncVars, requests, lastHash>>

(* MagicSearchModel::search *)
Search ==
  /\ Take("search")
  /\ requests' = requests + 1
  /\ UNCHANGED <<connected, guiVars, coreQ, syncVars, lastHash>>

(* The linphone half of refresh(): an agent for each list, or done when there is none.  The
   page is used once the core runs, so the return for want of a core is left out. *)
StartRefresh ==
  /\ Take("refresh")
  /\ LET batch == Head(modelQ).batch
     IN  /\ anyFailed' = anyFailed \ {batch}
         /\ \/ /\ lists = {}
               /\ coreQ' = Append(coreQ, [do |-> "finished", batch |-> batch, succeeded |-> TRUE])
               /\ UNCHANGED <<agents, fetches>>
            \/ /\ lists # {}
               /\ Start(lists, batch, stored)
  /\ UNCHANGED <<connected, guiVars, lists, stored, reporting, requests, lastHash>>
-----------------------------------------------------------------------------
(* The linphone thread: timers, provisioning and the SDK's callbacks. *)

(* The sync of every list at launch and every fifteen minutes (CoreModel::start).  The
   model keeps one sync of its own on a list at a time. *)
TimerSync ==
  /\ Idle /\ Room
  /\ \A a \in agents : a.batch # Announced
  /\ Start(lists, Announced, stored)
  /\ UNCHANGED <<connected, guiVars, modelQ, lists, stored, anyFailed, reporting, requests, lastHash>>

(* Provisioning adds a book, or finds it, and syncs it (applyCardDAVProvisioning). *)
Provision(l) ==
  /\ Idle /\ Room
  /\ \A a \in agents : a.list = l => a.batch # Announced
  /\ lists' = lists \union {l}
  /\ Start({l}, Announced, stored)
  /\ UNCHANGED <<connected, guiVars, modelQ, stored, anyFailed, reporting, requests, lastHash>>

(* A book added by hand syncs through CarddavModel, which announces it and counts nothing. *)
AddByHand(l) ==
  /\ Idle /\ Room /\ l \notin lists
  /\ lists' = lists \union {l}
  /\ agents' = agents \union {[list |-> l, first |-> FALSE, batch |-> Announced]}
  /\ UNCHANGED <<connected, guiVars, coreQ, modelQ, stored, anyFailed, reporting, fetches, requests, lastHash>>

(* A sync ends.  One that fails leaves its list as it was.  The SDK then calls every
   listener of the list, whichever of them asked for the sync. *)
SyncReports(l, succeeded) ==
  /\ Idle
  /\ \E a \in agents : a.list = l
  /\ reporting' = [list |-> l, succeeded |-> succeeded]
  /\ IF succeeded THEN \E c \in Contents : stored' = [stored EXCEPT ![l] = c]
                  ELSE UNCHANGED stored
  /\ UNCHANGED <<connected, guiVars, coreQ, modelQ, lists, agents, anyFailed, fetches, requests, lastHash>>

(* What the completion of an agent posts: its own announcement, or the end of the refresh
   it belongs to once it is the last (the lambda of refresh()). *)
Completed(a) ==
  LET ok == reporting.succeeded
      last == \A b \in agents \ {a} : b.batch # a.batch
  IN  IF a.batch = Announced
      THEN IF ok THEN <<[do |-> "synchronized"]>> ELSE <<>>
      ELSE IF last THEN <<[do |-> "finished", batch |-> a.batch,
                           succeeded |-> ok /\ a.batch \notin anyFailed]>>
      ELSE <<>>

\* Mutant: every agent counts as a first fetch.
CountedDown(a) == fetches - 1

(* addressBookFetchFinished, for the agent of a first fetch *)
Counted(a) == IF a.first /\ fetches > 0 THEN fetches - 1 ELSE fetches

(* CardDAVSyncAgent::onSyncStatusChanged: the completion first, then the count. *)
AgentHears(a) ==
  /\ reporting # Nothing /\ a.list = reporting.list
  /\ anyFailed' = IF a.batch = Announced \/ reporting.succeeded THEN anyFailed
                  ELSE anyFailed \union {a.batch}
  /\ agents' = agents \ {a}
  /\ fetches' = Counted(a)
  /\ coreQ' = coreQ \o Completed(a)
                    \o (IF a.first /\ fetches = 1 THEN <<Fetching(FALSE)>> ELSE <<>>)
  /\ reporting' = IF \E b \in agents \ {a} : b.list = a.list THEN reporting ELSE Nothing
  /\ UNCHANGED <<connected, guiVars, modelQ, lists, stored, requests, lastHash>>

(* searchResultsReceived: results with the hash of the last ones are not built again. *)
SearchReports ==
  /\ Idle
  /\ \E left \in 0 .. requests - 1 : requests' = left
  /\ lastHash' = Hash(stored)
  /\ coreQ' = Append(coreQ, IF lastHash = Hash(stored) THEN [do |-> "unchanged"]
                            ELSE [do |-> "results", found |-> stored])
  /\ UNCHANGED <<connected, guiVars, modelQ, syncVars>>

Linphone ==
  \/ CreateSearch \/ ReadFetching \/ Search \/ StartRefresh
  \/ TimerSync
  \/ \E l \in Lists : Provision(l) \/ AddByHand(l)
  \/ \E l \in Lists, ok \in BOOLEAN : SyncReports(l, ok)
  \/ \E a \in agents : AgentHears(a)
  \/ SearchReports
-----------------------------------------------------------------------------
(* The GUI thread. *)

Next1(e) == /\ coreQ # <<>> /\ Head(coreQ).do = e /\ coreQ' = Tail(coreQ)

(* MagicSearchProxy::forceUpdate: nothing while the search text is empty. *)
ForceUpdate == modelQ' = IF searching THEN Append(modelQ, [do |-> "search"]) ELSE modelQ

\* Mutant: the load watchdog waits for the search model.
LoadUnwatched == {}
LoadWatch == {"load"}

\* Mutant: the page only listens for changes of the fetch.
AskedUnread == <<[do |-> "createSearch"]>>
Asked == <<[do |-> "createSearch"], [do |-> "readFetching"]>>

(* The first use of ContactsCore: the search model is asked for, the load watchdog
   started and the fetch read. *)
Construct ==
  /\ ~connected
  /\ connected' = TRUE
  /\ timers' = timers \union LoadWatch
  /\ modelQ' = modelQ \o Asked
  /\ UNCHANGED <<loaded, syncing, lastFailed, fetching, awaiting, searching, shown, gaveUp,
                 coreQ, syncVars, requests, lastHash>>

(* MagicSearchList connects its search model and says so, through the queue. *)
Created ==
  /\ coreQ # <<>> /\ Head(coreQ).do = "created"
  /\ coreQ' = Append(Tail(coreQ), [do |-> "initialized"])
  /\ UNCHANGED <<connected, guiVars, modelQ, syncVars, requests, lastHash>>

(* setSearchText("*") *)
Initialized ==
  /\ Next1("initialized")
  /\ searching' = TRUE
  /\ modelQ' = Append(modelQ, [do |-> "search"])
  /\ UNCHANGED <<connected, loaded, syncing, lastFailed, fetching, awaiting, timers, shown, gaveUp,
                 syncVars, requests, lastHash>>

(* resultsProcessed *)
Processed ==
  /\ loaded' = TRUE
  /\ awaiting' = FALSE
  /\ fetching' = (fetching /\ ~awaiting)
  /\ timers' = timers \ (IF awaiting THEN {"load", "fetch"} ELSE {"load"})
  /\ UNCHANGED <<connected, syncing, lastFailed, searching, gaveUp, modelQ, syncVars,
                 requests, lastHash>>

Results == /\ Next1("results") /\ shown' = Head(coreQ).found /\ Processed
Unchanged == /\ Next1("unchanged") /\ UNCHANGED shown /\ Processed

\* Mutant: the flag goes down with the fetch.
FetchOverAtOnce ==
  /\ fetching' = FALSE
  /\ timers' = timers \ {"fetch"}
  /\ ForceUpdate
  /\ UNCHANGED <<awaiting, gaveUp>>

(* The fetch is over: the flag stays up until the search that follows has landed. *)
FetchOver ==
  /\ awaiting' = TRUE
  /\ ForceUpdate
  /\ UNCHANGED <<fetching, timers, gaveUp>>

(* onAddressBookFetchingChanged.  The signal reaches ContactsCore once it is connected. *)
FetchingChanged ==
  /\ Next1("fetching")
  /\ \/ /\ ~connected
        /\ UNCHANGED <<fetching, awaiting, timers, gaveUp, modelQ>>
     \/ /\ connected /\ Head(coreQ).value
        /\ awaiting' = FALSE /\ fetching' = TRUE /\ gaveUp' = FALSE
        /\ timers' = timers \union {"fetch"}
        /\ UNCHANGED modelQ
     \/ /\ connected /\ ~Head(coreQ).value /\ ~fetching
        /\ UNCHANGED <<fetching, awaiting, timers, gaveUp, modelQ>>
     \/ /\ connected /\ ~Head(coreQ).value /\ fetching
        /\ FetchOver
  /\ UNCHANGED <<connected, loaded, syncing, lastFailed, searching, shown,
                 syncVars, requests, lastHash>>

(* cardDAVAddressBookSynchronized, from a sync the page did not ask for *)
Synchronized ==
  /\ Next1("synchronized")
  /\ IF connected THEN ForceUpdate ELSE UNCHANGED modelQ
  /\ UNCHANGED <<connected, guiVars, syncVars, requests, lastHash>>

\* Mutant: a success that comes after the watchdog is not announced.
OnSyncFinishedInTime(succeeded) ==
  /\ syncing' = FALSE
  /\ timers' = timers \ {"sync"}
  /\ lastFailed' = ~succeeded
  /\ IF succeeded /\ syncing THEN ForceUpdate ELSE UNCHANGED modelQ
  /\ UNCHANGED <<connected, loaded, fetching, awaiting, searching, shown, gaveUp, syncVars, requests, lastHash>>

(* onSyncFinished: from the refresh itself, or from the watchdog that gave up on it *)
OnSyncFinished(succeeded) ==
  /\ syncing' = FALSE
  /\ timers' = timers \ {"sync"}
  /\ lastFailed' = ~succeeded
  /\ IF succeeded THEN ForceUpdate ELSE UNCHANGED modelQ
  /\ UNCHANGED <<connected, loaded, fetching, awaiting, searching, shown, gaveUp, syncVars, requests, lastHash>>

Finished == /\ Next1("finished") /\ OnSyncFinished(Head(coreQ).succeeded)
SyncWatchdog == /\ "sync" \in timers /\ OnSyncFinished(FALSE) /\ UNCHANGED coreQ

LoadWatchdog ==
  /\ "load" \in timers
  /\ timers' = timers \ {"load"}
  /\ loaded' = TRUE
  /\ UNCHANGED <<connected, syncing, lastFailed, fetching, awaiting, searching, shown, gaveUp,
                 coreQ, modelQ, syncVars, requests, lastHash>>

FetchWatchdog ==
  /\ "fetch" \in timers
  /\ timers' = timers \ {"fetch"}
  /\ awaiting' = FALSE
  /\ fetching' = FALSE
  /\ gaveUp' = TRUE
  /\ UNCHANGED <<connected, loaded, syncing, lastFailed, searching, shown,
                 coreQ, modelQ, syncVars, requests, lastHash>>

InUse == {a.batch : a \in agents}
         \union {modelQ[i].batch : i \in {j \in DOMAIN modelQ : modelQ[j].do = "refresh"}}
         \union {coreQ[i].batch : i \in {j \in DOMAIN coreQ : coreQ[j].do = "finished"}}

\* Mutant: a refresh without its watchdog.
SyncUnwatched == {}
SyncWatch == {"sync"}

(* refresh(), from the button or from the periodic timer, which may go off at any time.
   onSyncFinished restarts that timer, which only moves the next time. *)
Refresh ==
  /\ connected /\ ~syncing /\ Room
  /\ \E b \in Batches \ InUse :
       /\ \A c \in Batches \ InUse : b <= c
       /\ modelQ' = Append(modelQ, [do |-> "refresh", batch |-> b])
  /\ syncing' = TRUE
  /\ timers' = timers \union SyncWatch
  /\ UNCHANGED <<connected, loaded, lastFailed, fetching, awaiting, searching, shown, gaveUp,
                 coreQ, syncVars, requests, lastHash>>

(* App::currentDateChanged *)
DateChanged ==
  /\ connected /\ Room
  /\ ForceUpdate
  /\ UNCHANGED <<connected, guiVars, coreQ, syncVars, requests, lastHash>>

GuiQueue == Created \/ Initialized \/ Results \/ Unchanged \/ FetchingChanged \/ Synchronized \/ Finished
Gui == GuiQueue \/ Construct \/ SyncWatchdog \/ LoadWatchdog \/ FetchWatchdog \/ Refresh \/ DateChanged

Next == Linphone \/ Gui
Spec == Init /\ [][Next]_vars

(* The GUI thread runs its queue and its timers go off.  Nothing is assumed of the
   linphone thread, the SDK or the servers: they may stop at any point. *)
FairSpec == /\ Spec
            /\ WF_vars(GuiQueue)
            /\ WF_vars(SyncWatchdog) /\ WF_vars(LoadWatchdog) /\ WF_vars(FetchWatchdog)
-----------------------------------------------------------------------------
(* Types of every variable. *)
TypeOK ==
  /\ connected \in BOOLEAN /\ loaded \in BOOLEAN /\ syncing \in BOOLEAN /\ lastFailed \in BOOLEAN
  /\ fetching \in BOOLEAN /\ awaiting \in BOOLEAN /\ searching \in BOOLEAN /\ gaveUp \in BOOLEAN
  /\ timers \subseteq Watchdogs
  /\ shown \in [Lists -> Contents]
  /\ coreQ \in Seq(Events) /\ modelQ \in Seq(Tasks)
  /\ lists \subseteq Lists
  /\ stored \in [Lists -> Contents]
  /\ agents \subseteq Agents
  /\ anyFailed \subseteq Batches
  /\ reporting \in [list : Lists, succeeded : BOOLEAN] \union {Nothing}
  /\ fetches \in Nat /\ requests \in Nat
  /\ lastHash \in [Lists -> {Hashed[c] : c \in Contents}] \union {Nothing}

(* Every indicator that is on has its watchdog running: the page never shows a spinner
   that only an answer from the linphone thread could stop (ContactsCore.hpp:99-110). *)
SpinnersAreWatched ==
  /\ connected /\ ~loaded => "load" \in timers
  /\ syncing <=> "sync" \in timers
  /\ fetching <=> "fetch" \in timers

(* "A change after the read is queued behind it, so the two cannot disagree"
   (ContactsCore.cpp:98-100): once what was posted about the fetch has run, the page says
   a fetch is under way exactly while an agent is making one, or until the search that
   follows it lands, or the watchdog hid it. *)
FetchingIsTrue ==
  connected /\ ~InQueue(coreQ, "fetching") /\ ~InQueue(modelQ, "readFetching") =>
    /\ (\E a \in agents : a.first) => (fetching /\ ~awaiting) \/ gaveUp
    /\ (\A a \in agents : ~a.first) => fetching = awaiting

(* The page stops saying that it fetches, other than by the watchdog, only with the
   fetched contacts in the list: no book that holds contacts is still shown as empty
   (contacts-list.md:56-58).  A book that is synced outside that count, one added by hand
   say, may land later, with its own announcement. *)
EmptyStateDoesNotFlash ==
  [][fetching /\ ~fetching' /\ ~FetchWatchdog =>
       \/ InQueue(coreQ', "fetching") \/ InQueue(coreQ', "synchronized")
       \/ \A l \in Lists : stored[l] # Empty /\ (\A a \in agents : a.list # l) => shown'[l] # Empty]_vars

Settled == /\ searching /\ coreQ = <<>> /\ modelQ = <<>> /\ requests = 0 /\ Idle
           /\ \A a \in agents : a.batch = Announced

(* When nothing is left to run and no refresh is under way, the list shows the names and addresses the books hold,
   unless the last refresh failed: some of its lists may have changed without a search. *)
SettledListIsCurrent == Settled /\ ~lastFailed => Hash(shown) = Hash(stored)

(* refresh() re-runs the search "so the list picks up any changes" (ContactsCore.hpp:54). *)
AnyChangeIsShown == Settled /\ ~lastFailed => shown = stored

(* "The watchdog may have already given up on this sync, in which case there is nothing
   left to tidy and a late completion should not restart anything"
   (ContactsCore.cpp:275): the page stops saying that it syncs, other than by the
   watchdog, once no list has still to answer a refresh. *)
LateEndsAreIgnored ==
  [][syncing /\ ~syncing' /\ ~SyncWatchdog /\ Idle => \A a \in agents : a.batch = Announced]_vars

(* Whatever the linphone thread does or fails to do, the spinners stop. *)
SpinnersStop ==
  /\ connected ~> loaded
  /\ syncing ~> ~syncing
  /\ fetching ~> ~fetching
=============================================================================
