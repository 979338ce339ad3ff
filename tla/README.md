# NM-PBX Desktop: a TLA+ verification project

NM-PBX Desktop is a softphone, a fork of Linphone Desktop written in C++, Qt and QML. This
project models the parts of it that decide what the user sees when threads, searches, syncs and
timers meet in an order nobody chose. Paths below are relative to `src/Linphone/`, documents to
`src/nm-pbx-docs/`.

## The system

Two threads share the work.

- The **GUI thread** owns the objects QML binds to: `*Core`, `*List`, `*Proxy`, `*Gui`.
- The **linphone thread** owns `*Model`, `CoreModel`, `FriendsManager` and everything of the SDK.

They call one another by posting closures to each other's event queue, first in first out:
`SafeConnection::invokeToModel` / `invokeToCore`, `App::postModelAsync` / `postCoreAsync`, and
signals over queued connections. `makeConnectToModel` / `makeConnectToCore` connect *directly*, so
the slot runs on the thread that emits. Qt and liblinphone are external: modelled as the code uses
them, never from their documentation.

### Inventory

| Component | State it keeps | Operations | What is hard | Properties that make it correct |
|---|---|---|---|---|
| `SafeConnection`, `SafeSharedPointer` (`tool/thread`) | two weak pointers with use counts and strong pointers, a mutex, queued closures | `tryLock`, `unlock`, `invokeTo*`, `disconnect`, `makeConnectTo*` | owners let go while a call is between its two locks; closures outlive owners; direct slots | counts exact; a closure runs on live objects and always runs; what is let go is deleted |
| `LimitProxy` over `SortFilterProxy` (`core/proxy`) | cap, initial cap, step, ceiling, the rows Qt has mapped | setters, `onAdded`, `onRemoved`, `displayMore`, `loadUntil`, filter changes | Qt tests a row on insertion and not when it moves; the setters read each other | shows exactly the first rows up to the cap; never past the ceiling; nothing is pushed off; paging shows more |
| Caller identification (`FriendsManager`, `PhoneNumberIndex`, `ToolModel::findFriendByAddress`) | two maps of hits, remembered misses, an index for each account, the watched lists, the last settings seen | lookup, save, remove, sync, directory results, settings | every cache is invalidated by signals, some late, some to a watcher not attached yet | a miss is a miss; the index answers as a scan; a hit is a contact that exists |
| Contacts page (`ContactsCore`) and syncs (`CardDAVSyncAgent`, `CoreModel`) | three indicators with a watchdog each, a fetch count, agents, shared completion of a refresh | `refresh`, `onSyncFinished`, `onAddressBookFetchingChanged`, periodic and provisioned syncs | answers after the watchdog, one list of several failing, searches around the end of a fetch | an indicator always stops; it says the truth; the list shows what the books hold |
| Contact search (`MagicSearchList`, `MagicSearchProxy`, `MagicSearchModel`) | rows, hash of the last results, search text, a busy indicator | `lSearch`, results, `setResults`, `setSearch`, `friendCreated`, `removed` | results in flight when the text changes; a hash that speaks for rows changed since; a hash coarser than what is drawn | a quiet list is what matches; rows that stay do not move; the indicator stops |
| Calls (`CallList`, `CallCore`, `CallModel`) | rows, current call, state of each core | created, state changes, `lUpdate`, hold, resume, answer, end, resume of the next call | state changes in one queue, commands in the other; two cores of one call | the list is the SDK's calls, each once; the current call is the one with the line; a held call gets the line back |
| Dialling (`ToolModel::createCall`) | connections that wait for a registration | dial, registration change | several waits on one signal | a number that waits is dialled; one the user was told of as failed is not |
| Stall monitor (`tool/stall`) | heartbeat, flags, per-stall and per-session counters | `beat`, `arm`, `disarm`, `detach`, `watchdogLoop` | a stall that flaps; floors and limits that combine; three threads, one clock and relaxed atomics | stacks and dumps are spaced and limited; the start is no stall; a stall ends; the watchdog is joined |
| Provisioning (`SettingsModel`) | applied URL and presence address | apply, retire | repeated and changed provisioning | nothing of an earlier instance stays, nothing of the user's goes |
| Presence (`PresenceMapping`, `AccountModel`) | explicit and automatic presence | map, set | a call state must never be published | the mapping; `OnCall` is never written |
| Application shell, accounts, history, chat, meetings, notifications, command line, settings pages, media, downloads, utilities, views | | | | see *Not modelled* |

## Modules

| Module | Models | State ↔ code |
|---|---|---|
| `PairLease` | what `SafeConnection` promises: a lease on a pair of objects, granted while both live, neither dying while one is out | abstract |
| `SafeConnection` | `SafeConnection.hpp`, `SafeSharedPointer.hpp` | `count` = `mCountRef`, `strong` = the strong pointers, `locker` = `mLocker`, `pending`/`running` = closures in and out of the event loops |
| `SafeConnectionProofs` | theorems about it | |
| `LimitProxy` | `LimitProxy.cpp`, the row tests of `SortFilterProxy.cpp` and `QSortFilterProxyModel` | `max`, `initial`, `step`, `limit` = the four properties; `shown` = the rows the proxy maps |
| `LimitProxyProofs` | theorems about it | |
| `CallerLookup` | `FriendsManager.cpp`, `PhoneNumberIndex.hpp`, `ToolModel::findFriendByAddress` and every writer of an address book | `known`, `unknown`, `other`, `index`, `watched`, `context` = the fields of `FriendsManager`; `contact`, `lists` = the SDK's books |
| `CallerLookupProofs` | theorems about it | |
| `ContactsPage` | `ContactsCore.cpp`, `CardDAVSyncAgent.hpp`, the root search, the fetch count of `CoreModel.cpp` | `coreQ`, `modelQ` = the event queues; `agents` = the agents listening to a list; the rest are fields, named in the module |
| `ContactsPageProofs` | theorems about it | |
| `StallMonitor` | `StallMonitor.cpp`, `Thread.cpp`, the call sites in `CoreModel.cpp` and `App.cpp` | the fields of `StallMonitor` and the locals of `watchdogLoop()` under their names; `thread`, `watchdog` = where the two threads are; `pending` = the stores of `arm()` not seen yet; `polledAt` = the `now` of the loop; `captures`, `dumps` = what was written |
| `StallMonitorProofs` | theorems about it | |
| `Calls` | `CallList.cpp`, `CallCore.cpp`, `CallModel.cpp`, `ToolModel::createCall` | `list`, `current`, `haveCall` = `mList`, `mCurrentCall`, `mHaveCall`; `heard` = `mState` of the listed cores; `waits` = the connections of `createCall`; `sdk`, `getCalls`, `registered` = the SDK; `guiQ`, `modelQ` = the event queues |
| `CallsProofs` | theorems about it | |
| `Picking` | sorting and filtering without recursion, which `Calls` and `SearchList` use so that proofs can see into them | |
| `QueueFacts` | facts about queues, joining, sorting, filtering and least numbers that the proofs share | |
| `SearchList` | `MagicSearchList.cpp`, the text and indicator of `MagicSearchProxy.cpp` and `AllContactListView.qml` | `rows`, `text`, `hash`, `loading` = `mList`, `mSearchText`, `mLastResultsHash`, the view's indicator; `asked` = the searches the SDK has; `book` = the address books; `unsearched`, `touched` record what the properties speak of |
| `SearchListProofs` | theorems about it | |
| `MC*` | the values a run gives the constants | |

`CallerLookup` and `ContactsPage` both see an address book change: the first asks what the caches
of the linphone thread make of it, the second what the GUI thread does. `SearchList` takes the list of
results that `ContactsPage` holds as one value and opens it up: texts that change, rows that are
merged, contacts saved and deleted one by one. They share no state in the code and are not composed.

Some definitions begin with "Mutant": a way the definition that follows could be wrong. Nothing uses
them; putting one in the place of its original breaks a property, which shows that the property
depends on that code.

### Abstractions that matter

- **SafeConnection** has two threads and one pair. A step is what one thread does between two
  accesses of shared data. Deleting an object drops its queued closures, as Qt does.
- **LimitProxy** keeps rows as numbers, numbers being the sort order. Qt's rule, that a row is tested
  when it is inserted and when the filter is invalidated and not when it moves, is the one external
  assumption; the repository's `limit-proxy-probe` and `tst_LimitProxy.cpp` record it.
- **CallerLookup** takes number normalisation and the rewriting of a domain as tables
  (`Normal`, `Rebased`). A lookup is one step: it runs on the linphone thread and awaits nothing.
  Removing a list is announced 500 ms later, a saved contact two queue hops later: other steps come
  between. The case without a default account, which the code leaves to the SDK, is left out.
- **ContactsPage** takes what a book holds as one value, and what `hashSearchResults` sees of it as
  a table. A search gathers and reports in one step of the linphone thread, since the page asks for
  local sources only; overlapping requests may be answered together or one by one. A sync that ends
  is reported to every listener of the list, one call at a time, while the GUI thread runs. Books
  are not removed, and the periodic timer may go off at any time.
- **StallMonitor** lets the clock move between any two steps, and the watchdog poll at any time: what
  holds does not depend on how long its condition variable sleeps. Each load and store that another thread
  can tell apart is a step: `arm()` reads the clock, stores the heartbeat, stores `mArmed`
  (`CallArm`, `StoreHeartbeat`, `StoreArmed`); a poll finds `mArmed` set, reads the clock, perhaps loads
  symbols, and only then loads the heartbeat (`PollArmed`, `ReadClock`, `PollHealthy` or `PollSilent`);
  `detach()` disarms and then stops. A beat stores a clock that was read a little earlier. The code orders
  none of the stores (`memory_order_relaxed`), so `StoresInOrder` says what the build does: on x86-64 a
  store is never seen before an earlier one of its thread, on arm64 it may be (`CMakeLists.txt:81` makes
  that the default for macOS), and then the two stores of `arm()` are seen in either order, with any delay.
  A poll takes its stack in the step that loads the heartbeat, and files it under the time the poll read,
  as `mLastCaptureMs` does. What the platform does when asked
  for a stack, for symbols or for a dump is chosen freely: it may fail, or take too long. The platform
  is taken to be a supported one, where loading the symbols ahead is tried.
- **Calls** has one default account. The SDK is external: a call that takes the line puts the other on
  hold, a call leaves `getCalls()` when it ends and is released later, and a resume succeeds in the end
  or the call ends. `Pausing` is one with `Paused`. Being held by the other side, conferences
  (`lMergeAll`), video and transfer are left out. Of the cores a snapshot replaces, only the current one
  may be kept alive by a view.
- **SearchList** is either the shared list of the Contacts page, searched when something is typed, or a
  view's own list. Contacts have distinct keys. `friendCreated` reaches the rows from the linphone
  thread; it is one step here, between two of the GUI thread, since a step *inside* one of them is a data
  race and has no defined outcome. Edits in place and the limit of results are left out.

## Runs

`tlc -config X.cfg M` in this directory. "States" are distinct states.

| Run | Checks | States |
|---|---|---|
| `safe_connection` | counts, liveness of objects under closures, no lost closure, the lease as a refinement, deletion in the end | 26 k |
| `limit_proxy` | ceiling, the first rows exactly, arrivals, paging | 95 k |
| `limit_proxy_any_change` | finds: changes the cap is not told of | |
| `caller_lookup` | misses, index, hits | 860 k |
| `contacts_page` | indicators, their truth, the empty state, the settled list, and that spinners stop | 640 k |
| `contacts_page_late` | finds: the end of an old sync ends a new one | |
| `contacts_page_details` | finds: a change of details that is never shown | |
| `stall_monitor` | spacing and number of stacks and dumps, one long hold, no stall at the start wherever a poll comes between the stores of `arm()`, stalls end, the watchdog is joined | 2.53 M |
| `calls` | the list is the SDK's calls, each once; the current call is listed and runs; waiting numbers are dialled; a held call is resumed | 282 k |
| `calls_failed` | finds: a number reported as failed that is called later | |
| `search_list` | a quiet list is what matches, rows that stay do not move, the indicator stops | 540 k |
| `search_list_rebuild` | finds: rows and hash part when a contact is saved or deleted here | |

### Bounds, and why they are enough

- `MaxInvocations = 3`: two calls of one thread and one of the other cover a call that fails between
  its locks while another closure is queued and a third runs. The proofs remove the bound.
- Five rows, caps and ceilings up to the row count, steps 1 and 2: batches of two that straddle the
  cap, the ceiling or both, with rows before and after. The filters are the searches a set of five
  rows needs to hide rows above, below and across the cap.
- Two friends, one removable list, two accounts, two dial plans, two domains, and three cards: a
  contact with an address, with only a number, or with neither; two contacts that share a number;
  accounts that read a number differently.
- Two books that hold contacts or none, two runs of `refresh()`, new work starting only when the
  queues are empty (`MaxWork = 1`) and fewer than two agents wait (`MaxAgents = 2`). Once started,
  everything overlaps: up to six agents, syncs ending in either order, searches around the end of a
  fetch, an old refresh ending in a new one. Larger `MaxAgents` (4.2 million states) finds nothing
  else, and the proofs of the safety properties remove the bounds. The details run needs a third
  content with the same hash.
- The intervals of `StallMonitor` are shrunk to 1, 3 and 5, and to 2 between dumps, two stacks
  to a stall and two dumps to a session; six moments (`Horizon`) are enough for two stalls with the
  floor between them, the stacks of both, and a dump that is late. The run is of a build that shows stores
  in order (`StoresInOrder = TRUE`); with `FALSE` everything the run checks holds as well (3.76 million
  states), where `StartIsNotAStall` says less. The proofs of the safety properties are for both, and
  remove the bounds.
- Two calls, each created once, and fewer than two closures waiting when the user or the network does
  something (`MaxWork = 2`): one closure of each queue overlaps with any event, and what the events post
  is not bounded. A hand-over needs two calls, and so do two numbers that wait for the account.
- Two people, two texts, and the same bound on work in `SearchList`: one person whose name or looks can
  change, one without an address. Merging with rows to keep, to swap, to add and to drop needs two. Three
  people (2.08 million states, invariants only) find nothing else, and the proofs of the safety properties
  remove the bounds.

### Fairness

- `SafeConnection`: a thread inside a call goes on and both event loops run (the Qt loops do).
  Nobody has to start a call or let an object go.
- `ContactsPage`: the GUI thread runs its queue and its timers go off. **Nothing** is assumed of the
  linphone thread, the SDK or the server: the watchdogs exist for the case where they stop. A fetch
  that starts again restarts its watchdog; the code's intervals (a fetch starts at most once per
  sync, the watchdog waits five minutes) make the timer go off in the end.
- `StallMonitor`: the watchdog, a thread of its own, polls on, and a `join()` that can return does.
  Nothing makes the linphone thread beat, the clock move, or the user quit.
- `Calls`: both event loops run, and the SDK releases a call that has ended and finishes a resume.
  Nobody has to dial, answer or hang up. `HeldCallIsResumed` says nothing while `lUpdate` is replacing
  the list: see *Observed*.
- `SearchList`: both event loops run, and the SDK answers a search.

Deadlock is checked for `ContactsPage`. The other runs turn it off: calls, moments and numbers are
bounded in `SafeConnection`, `StallMonitor` and `Calls`, and a lookup, a list or a search has every right
to come to rest.

## Proofs

TLAPS checks these for every value of the constants.

- `SafeConnectionProofs`: `TypeSafety`, `CountSafety`, `ClosureSafety`, `ClosuresAreRun`,
  `Refinement`. All follow from one inductive invariant, `IInv`. The exact count is not inductive
  alone: that a count reaches zero only with the last use needs the mutex to be held by the one
  thread inside `tryLock` (`MutexHeldByLocker`), which ends a thread has locked at each point
  (`InvocationShape`), and that strong pointers and lives follow the counts (`StrongWhileCounted`,
  `LiveWhileHeld`). `NextIInv` takes one step per action. Refinement maps a lease to a queued or
  running closure or a call holding both ends. The one assumption is that `MaxInvocations` is a
  natural number.
- `LimitProxyProofs`: `TypeSafety`, `CeilingSafety`, `InStepSafety`, `ArrivalSafety`, `PagingSafety`, all
  the properties of `limit_proxy`. The state invariant is `TypeOK /\ CeilingHolds`; the rest are about
  steps. The heart is that row numbers count: numbering the rows of a finite list is an injection into
  `0 .. n - 1`, so it is a bijection, and a list of `n` rows has a row with each number
  (`EveryNumberIsARow`). Hence the rows that pass the re-test are the first ones
  (`RetestedIsTheFirst`), an insertion only moves rows down (`InsertionKeepsTheFirst`), and each action
  keeps step by a lemma of its own (`SetMaxInStep`, `InsertInStep`, `RemoveInStep`, `SetFilterInStep`,
  `CapInStep`). Assumed: rows are a finite set of integers, filters are sets of rows, caps are caps.
- `CallerLookupProofs`: `TypeSafety`, `KnownSafety`, `AnswerSafety`, `IndexSafety`, `MissSafety`, all the
  properties of `caller_lookup`. None is inductive: an index stays right only because whatever changes a
  watched list is announced and an announcement forgets it (`IndexesAreRight`), a hit only because its
  contact is in a list that is watched or about to be announced as gone (`CachedAreReachable`). Every
  step that is not a lookup is first shown to be a `Change` (`EveryChange`): caches only shrink,
  contacts change in few ways, and what changes is heard. Then `IInv` is kept by a `Change`
  (`InvChange`) and by a lookup (`InvLookUp`). That a set of friends has a first one comes from
  well-foundedness of strict inclusion (`Extremes`). Assumed: the orders are numbers, `Nothing` is none
  of the values, the tables are total.
- `StallMonitorProofs`: `TypeSafety`, `FloodSafety`, `LongHoldSafety`, `StartSafety`, `DumpSafety`, all its
  safety properties, for every interval and limit. The invariant ties the counters to what has been
  written: the stacks are in order, those of the present stall are as many as `capturesThisStall` and
  the one before them keeps the floor (`StallKeepsTheFloor`); dumps belong to stalls that began before
  the present one (`DumpsAreOfEarlierStalls`); what a poll has read of the clock is later than the last
  stack and the beginning of the stall (`PollIsRecent`). `StartSafety` rests on `ArmedAfterStart`: while
  `mArmed` has not been seen set nothing has been taken, once the heartbeat of `arm()` has been seen it is
  no earlier than the start, and where stores are seen in order the first comes after the second.
  For a build that does not order them the theorem promises no more than that no stack comes before
  `arm()` has been called. Assumed: the intervals and limits are naturals, most of them not zero.
- `ContactsPageProofs`: `SpinnerSafety`, `TypeSafety`, `FetchingSafety`, `EmptyStateSafety`,
  `SettledSafety`, all the safety properties of `contacts_page`. The first is inductive as it stands:
  each step that raises an indicator starts its watchdog and each that stops a watchdog lowers its
  indicator. The others rest on one invariant, `IInv`. The fetch count is the number of agents of a
  first fetch (`FetchesAreCounted`), which needs a refresh to start on no list twice, so that runs
  are apart (`RunsAreApart`); the last change in the queue agrees with the count
  (`LastChangeIsQueued`), hence the page does once none is queued (`PageAgrees`). For the empty state,
  every result that lands while no fetch is counted and no later change is queued shows all the books
  that hold something (`FetchedLand`): results that are posted show them, and "unchanged" stands for
  the last ones, of the same hash (`HashIsOfTheLast`); a book whose first contacts have just come
  is announced by the agent that hears of it, and the other agents are of books that were not empty
  (`LaterAreOfFullBooks`). For the settled list, while the books differ from the last hash some search,
  announcement or agent is still to come, or the last refresh failed (`StaleIsPending`). Assumed: there
  are finitely many lists; runs are positive numbers; only the empty book has its hash; `Nothing` is
  neither a hash nor a report.
  The bounds on queues and agents play no part.
- `CallsProofs`: `TypeSafety`, `CurrentSafety`, `OnceSafety`, `ListSafety`, `RunningSafety`,
  `DialSafety`, all the properties of `calls` but its liveness, for any number of calls, snapshots and
  waiting closures. None but the types says anything about what is queued, so none is inductive: the
  invariant speaks of the list and the messages to it as one line of *places*, each of which brings some
  cores into the list. A core is brought once (`BroughtOnce`); `callCreated` is the first to bring its
  call (`CreatedAreNew`), hence no call is listed twice; a released core has a `Released` behind it
  (`ReleasedWillLeave`) and nothing behind that brings its call back (`ReleasedStayOut`); the newest core
  of a call that goes on is brought by some place after which the list is not replaced (`NewestStands`),
  hence a quiet list has it. Some place makes the call that has the line the current one and none after
  it disturbs that (`RunningWillShow`): a call gets the line only after its other holder was told to let
  go, and a snapshot gives the call that runs. The last word on whether there is a call is right unless
  another snapshot is due (`LastWordIsRight`). The steps of the linphone thread append to the line
  (`Told` is kept by a state, a creation, an end and a snapshot: `StateIsTold`, `CreationIsTold`,
  `FirstAndLastAreTold`, `SnapshotIsTold`), those of the GUI thread take its head (`AdvanceIsTold`).
  The numbers dialled again on a registration are a recursive function; that it is defined and keeps the
  calls in order for every count of them is shown by taking the least step at which it would not
  (`RedialledIsThere`, `RedialledIsSound`, from `LeastNumber`). Assumed: `nullptr` is neither a core nor
  a call. The bound on waiting closures plays no part.
- `SearchListProofs`: `TypeSafety`, `ResultsSafety`, `RowsSafety`, all the properties of `search_list` but
  its liveness, for every address book, every set of texts and any work that waits. The first half is
  about the merge: a row that stays draws the result that takes it (`SwapFacts`), the merged rows are the
  rows taken followed by the results that took none (`MergeParts`), in their order and no row later than
  it was (`MergeOrder`), so they draw the results and have each key once (`MergeFacts`). The second half is
  the invariant. That quiet rows are the results is not inductive. The hash speaks for the last results
  that wait, or for the rows if none do, unless it is about to be forgotten (`HashSpeaks`): clearing the
  rows would break this if it did not queue the forgetting. The last search on its way is for the text on
  show and comes after any forgetting (`SearchesFollow`): the hash cannot be forgotten with no report to
  follow. With no search due and no sync to hear of, the hash is of what the text finds now
  (`HashIsOfTheText`). Together: a quiet list draws what its hash draws, which is what the text finds; and
  the same number of rows, as both have each key once (`LengthIsDrawn`). Assumed: the SDK lists each person
  once; no two people have one key (see *Observed*); no hash is `NoHash`.
- `QueueFacts`: what the others cite. A set of numbers that is not empty has a least one
  (`LeastNumber`), which stands in for induction; the numbers of a finite set, sorted, are its members
  once each and in order (`Sorted`, by counting: a rank is an injection into a set of the same size), and
  so are the entries of a filtered sequence (`Filtered`).

Every safety property that a passing run checks is proved. Only model-checked: the liveness properties
(the prover does not handle fairness or ENABLED), which are
`ReleasedIsDeleted`, `SpinnersStop`, `StallsEnd`, `WatchdogIsJoined`, `HeldCallIsResumed` and
`LoadingStops`. The findings are counterexamples, so they stay with TLC too. None of the modules uses
a RECURSIVE operator.

## Findings

Each is a run of its own with the trace that shows it.

1. `tests.md:51` says any change leaves the first rows up to the cap. `LimitProxy` hears of the
   search text and the filter type only. Another re-evaluation of the filter beneath it hides the row on
   show, and the row that moves under the cap is not tested again and stays hidden: the run ends with an
   empty list and a row to show. The same gap is left by a removal of several rows at once
   (`LimitProxy.cpp:261`), which shrinks the list below the cap before the rows that follow are tested.
2. `ContactsCore.cpp:275` says a late completion restarts nothing. It is not told which refresh it
   completes, and ends the next one.
3. `ContactsCore.hpp:54` says a refresh picks up any changes. The hash that skips unchanged results
   leaves out the organisation, the picture, the job and the number of phones the list draws.
4. `Utils.cpp:187` tells the user that a call could not be created when the account is not registered.
   `ToolModel::createCall` has by then connected itself to the next change of registration, and calls
   the number when the account registers.
5. `MagicSearchList.cpp:288` says that a list that no longer reflects the last results must be rebuilt
   by the next search, whatever it returns. A row added for `friendCreated` or taken out for `removed`
   leaves the hash as it is, so the same results are skipped: a contact that does not match stays on
   show, and a deleted one that the server gives back stays away.

### Observed

Met while modelling, and without a run. The models behave as the code does; the properties say where
they stop.

- `SafeConnection.hpp:30` says the class protects against deletion "while running a signal/call". A
  direct slot (`:115`) takes no lock, so it protects calls and not signals.
- `StallMonitor.hpp:91` says the start must not be reported as a stall. `arm()` stores the heartbeat before
  `mArmed` (`StallMonitor.cpp:135`), but both stores are relaxed, and so are the loads. On a build that does
  not order them a poll may find the monitor armed with the heartbeat of before the start, and report
  the whole start as one stall, with a stack where the platform gives one. `StallMonitor` with
  `StoresInOrder = FALSE` reaches this in a few steps, which is why the second half of `StartIsNotAStall`
  is conditional. The Windows build is for x64 (`setup.md:378`), where the order is kept; the platforms
  where it need not be have no stacks, and log the silence. A release store of `mArmed` and an acquire
  load of it would settle it everywhere.
- "The watchdog only acts between" `arm()` and `disarm()` (`StallMonitor.hpp:91`): a poll that has found
  the monitor armed goes on after `disarm()`, and may still take a stack or write a dump.
- `tests.md:78` says a list with no limit shows every row. `loadUntil` (`MagicSearchProxy.cpp:125`)
  compares the missing cap, -1, with a row number and installs a cap.
- `caller-identification.md:93` says every change that can turn a miss into a match clears the misses. A
  directory result that replaces an earlier one (`MagicSearchModel.cpp:146`) does not, which is why
  `LocalMissesAreRight` leaves directories out.
- `caller-identification.md:178` says lists are checked before every lookup. A lookup that hits
  returns before the check, so a contact cached by a search before the watcher is attached survives
  its replacement (`FriendsManager.cpp:207`).
- Two contacts with one key (`MagicSearchList.cpp:230`): the first results list both, and the next merge
  gives both the last row and drops one. `SearchList` takes keys to be distinct.
- A contact with a number only that a sync takes away and the user saves again, while results that have it
  are on their way, is listed twice until the next results: `friendCreated` compares SIP addresses and the
  friends themselves (`MagicSearchList.cpp:65`), and the new friend has neither in common with the row.
  `TypeOK` therefore says that a key has one row only where the rows were not touched; the case needs
  `MaxWork = 3`, and the theorem covers it.
- Results on their way when the text is cleared fill the list again, although a view with nothing typed
  "stays empty" (`AllContactListView.qml:215`). `QuietRowsAreResults` speaks of typed texts.
- "All calls that are not the current are paused" (`CallList.cpp:212`): one that rings is not, and is
  asked to resume, which the SDK refuses.
- A snapshot of `lUpdate` taken between the end of a call and its release replaces the list by one
  without that call, so its release hands the line to nobody. `HeldCallIsResumed` leaves this moment out.

`SettledListIsCurrent` carries the condition `~lastFailed` for a reason worth knowing: when one
book of a refresh syncs and another fails, the refresh announces nothing, and the list stays as it
was until another sync succeeds.

## Plan

The order the modules were written in is the order of the table. What is left, by what it would add:

1. `Provisioning`: retiring the books and the presence address of an earlier instance.
2. Transfers in `Calls` (`CallModel::transferTo`), and calls held by the other side.
3. Presence: the mapping as an operator against a table, and that `OnCall` is never published.
4. `CallHistory`: the log loaded while the filter and the proxies of `LimitProxy` work on it.

## Not modelled

Start-up and windows (`App`, `SingleApplication`), accounts and login (SDK and OAuth calls), chat
and meetings (as upstream: lists over SDK objects), notifications (layout), the command line,
settings pages (one setter for each setting), media and downloads (wrappers and input/output),
utilities and vendored code, and the QML views, which bind to what is modelled. `PROJECT.json` lists
each with its reason, and for each hazard the properties that cover it or why none does.
