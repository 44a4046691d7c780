# A formal model of sqt

sqt is a desktop SQL tool (Qt, C++). Each editor tab has a connection of its own
to a PostgreSQL server or an ODBC data source, on which queries run
asynchronously; a tree shows servers and their objects; a panel searches files.
The modules here model in TLA+ the runs of its connections and what surrounds
them: the search, the way of rows to the screen, the tree of servers, their
scripts, the tabs, the editor and the functions on SQL text. TLC checks them
on small instances, and TLAPS proves some of their properties for every value
of the constants. Source references are to `src/src/`.

Run a model: `tlc -workers 2 -config pg_patient.cfg PgConnection.tla` (the
module of each run is in the table of runs below). Check the proofs:
`tlapm X.tla` for `Recursion` and each module `..._proofs`.

## 1. The system

### Threads

Everything the user sees happens in the gui thread. Three kinds of other threads
exist: the *query worker* of a PostgreSQL connection (one per run, with an event
loop), the *query thread* of an ODBC connection (one per run, inside blocking
calls), and the *search worker* (one per panel, for its life). They talk to the
gui thread by queued Qt signals, and share some members under mutexes or as
atomics. The hard parts of the program are where these meet.

### Components

| component | state | operations | what is hard | what makes it correct |
|---|---|---|---|---|
| PostgreSQL connection (`pgconnection`, `dbconnection`) | libpq handle, `_opened`, `_query_state`, `_async_stage`, `_query_flushed`, `_resent_once`, `_query_tmp`, `_queryThread`, notifiers, result sets | open, executeAsync, cancel, close, setDatabase; socket slots; fetch; linkLostMidQuery; the worker's loop | two threads on one handle with the guard released in the middle of handlers; queued notifier changes; lost links and resends; ends of runs that come from either thread | a query executes at most once; what is reported of a run is true; one thread drives the link; every run ends, and its end is announced; no handle is promised that is gone |
| ODBC connection (`odbcconnection`) | `_hdbc`, `_opened`, `_hstmt`, `_queryThread`, `_query_state` | open, executeAsync (execute in a thread), cancel, close, destructor | a blocking driver cancelled from another thread; destruction order of guards; in-place reconnect; waiting for a thread in the gui | one execution at a time; a cancel meets no freed statement; nothing is closed under a thread; waiting ends; Cancelling never outlives a run |
| Query tab (`querywidget`) | `_queryActive`, `_outcomeUnknown`, models of the tables shown | execute, the slots of the connection, timer, files | queued signals of a run delivered after the next has begun | the messages of a run go to the tab's pane from its start to its last word; tables that are read exist |
| Main window (`mainwindow`) | tabs, actions, current connection | execute/stop, database menu, closing tabs and the window, releasing idle connections | closing while a run is going on; two-pass close | nothing is discarded without consent, or under a run |
| Search in files (`filesearch`, `filesearchpanel`, `filesearchmodel`) | generation, `cancelUpTo`, batch, rows | start, stop, close; search; onBatch, onProgress, onFinished | results of an abandoned search; the order of cancelling and numbering; limit and last batch; closing during a system call | only the search on screen fills the list; what is called finished is complete; a search ends |
| Result tables (`datatable`, `tablemodel`) | rows, columns, mutex | takeRows, take, clear | rows handed over while the query thread appends, column types clarified later | no row lost or repeated, columns agree |
| Object tree and servers (`dbobjectsmodel`, `dbobject`, dialogs) | nodes, connections, the saved array of servers, roots of the search by id | add, alter, remove, connect, disconnect, expand, refresh, relaunch | what a node's connection was cloned from, ids given late and across restarts | the list kept is the list shown; a database is its server's; a folder is kept for the server it was chosen for |
| Scripts (`scripting`, `scriptcatalog`, `scriptversionfilter`, `resourcelocator`) | cache of scripts, of folders and of lexers | refresh, getScript, clearCache, version filter, change of the assets | reading one context runs a script of another, some of which throw | what is kept is whole, of the right folder, cut for its version |
| SQL text (`sqllexer`, `sqlparser`, `wordnav`) | none (functions) | scan, statement at the caret, list, reflow, folding of keywords | quotes, nested comments, dollar quotes over lines | only code is taken for code; what is rewritten still says the same |
| Values (`decimalsum`, `rowjson`, `pgparams`, `pgtypmod`, `textcodec`, `queryoptions`, `misc`) | none (functions) | sums, conversions | carry, sign, width | the sum is the exact one |
| Code editor (`codeeditor`, `multicursor`, `findandreplacepanel`) | cursors, undo histories, bookmarks | multi-cursor edits, undo, replace all | a history parallel to the document's; pointers to what the document destroys | histories stay in step; cursors stay apart; no dead pointer |
| Charts, settings, styling, dialogs, packaging | presentation | | | |

How they interact: the main window calls the tab, the tab calls its connection;
connections answer by signals (`queryStateChanged`, `fetched`, `message`,
`error`, `queryFinished`) queued to the tab, while `queryState()` and
`isOpened()` are read directly, at once, by whoever asks. A tab's connection is
a clone of the one of the tree node, so tabs share no link.

## 2. The modules

| module | models | extends / used by |
|---|---|---|
| `RunPromise` | the abstract promise: a query accepted is executed at most once, and what is reported as its end is true then and later | refined by `PgConnection` |
| `PgConnection` | the asynchronous run of a PostgreSQL connection | |
| `PgConnection_proofs` | its inductive invariants, what follows from them, and the refinement of `RunPromise` | extends `PgConnection` |
| `OdbcConnection` | the run of an ODBC connection with the tab and the window's actions on it | |
| `OdbcConnection_proofs` | its inductive invariants and what follows | extends `OdbcConnection` |
| `FileSearch`, `MCFileSearch` | the search worker, the panel and the list of results; small trees of files | |
| `FileSearch_proofs` | who searches, who stops it, and what the list shows | extends `FileSearch`, `Recursion` |
| `ResultRows` | rows from the query's thread to views and charts of the tab | `MCDesk`, run alone in `results_columns` |
| `TextEdit` | the editing primitives as functions of a document and its live cursors | extended by `CodeEditor` |
| `CodeEditor` | keys, mouse and clipboard with several cursors, and undo | `MCDesk` |
| `Bookmarks` | the list of bookmarks and "Replace all" | `MCDesk` |
| `ServerTree` | the tree, the saved list of servers, what is kept by a server's id | `MCDesk` |
| `ScriptCache` | folders, scripts and lexers kept, and the version filter | `MCDesk` |
| `WindowTabs` | opening, saving, running, closing of tabs and of the window | `MCDesk` |
| `DecimalSum` | the sum of the selected cells | `MCDesk` |
| `QueryTab_proofs` | the same for what a query's tab computes: `ResultRows`, `DecimalSum`, `SqlLexer` | extends those, `Recursion` |
| `Window_proofs` | the same for what the main window holds: `WindowTabs`, `ServerTree`, `ScriptCache` | extends those, `Recursion` |
| `Editor_proofs` | the editor: every primitive of `TextEdit`, then the histories and cursors; the bookmarks | extends `CodeEditor`, `Bookmarks`, `Recursion` |
| `Desk_proofs` | what holds of the parts holds of all of them side by side | extends `MCDesk` and the three above |
| `Recursion` | lemmas: induction over numbers, that recursive definitions have a function, and what joining, inserting and removing do to a sequence | extended by proofs |
| `SqlLexer` | what of a text is code, and the statement and list found by it | `MCDesk` |
| `MCDesk` | the modules above side by side | |

### PgConnection

A step is a section of code under `_connectionGuard`, or the code between two of
them; where the guard is released in the middle of a handler, the thread's `pc`
names the place. Thread 0 is the gui thread, thread r the worker of run r.

* `members` are the connection's own fields. `link` is the libpq handle together
  with the session at its other end: the status (`start`, `wait`: the two rounds
  of a connection attempt), the transaction status, the run handed to libpq, what
  is still in the output buffer (`wire`), what the server has done (`srv`), and
  whether the other end is there (`up`).
* `watched` are the enabled notifiers. `watchSocket()` acts at once in the gui
  thread and queues a call from a worker (`guiQueue`).
* A worker waits in its event loop for signals (`workerQueue`): the state gone
  Inactive, `closeConnectionWanted`, the blocking call of `close()`.
* Actions carry the names of the functions: `ExecuteAsync`; `RunQuery...` for the
  branches of run_query; `OpenAsync`, `Poll...` for the connection attempt;
  `ReadyReadSocket`, `FlushRead`, `FlushReadDone`, `ReadyWriteSocket`, `Write...` for the slots;
  `Fetch...`; `LinkLostMidQuery`; `Cancel...`; `Close`, `CloseDone`;
  `CheckExit`, `RunEnded`, `CloseConnectionWanted`, `WorkerFinished` for the worker.
* `executed`, `verdict`, `resends`, `orphans`, `inTransaction`, `clarified`,
  `finished` record what the server did, what was reported and what was sent
  again. An *orphan* is a query a lost session had received whole: the server
  may still execute it, at any later time.

Left out: the data of COPY, notices, the texts, the synchronous `execute()`.
What becomes of the rows is in `ResultRows`.

### OdbcConnection

A step is what a thread does between points another thread can notice: a section
under a mutex, a driver call, a write of the shared state. `worker[r].at` is
the place of run r's thread in `execute()`; `gui.pc` is what the gui thread is
in the middle of (`close`, `cancel`, `SQLCancel`, `wait`, `disconnect`...), and while
it is not `idle` no queued signal is delivered, as in the code. `hstmt` is the
statement published for `cancel()`; `allocated` are the statements the driver has
(SQLDisconnect frees them). `posted` is what is queued to the tab, in order;
the tab does something about the end of a run, an announced table, and
`queryFinished()`, which follows the end of the thread by one more queued call.
A statement with several results counts as several statements. A thread that finds the link broken
closes and reopens it in place (`LinkLost`, `Reopen`). Of two runs started at once, the one the
connection does not track waits in `close()` for the other's thread first; the wait is a guard of `LinkLost`,
and the `cancel()` in its rounds is left out (no passing run starts two at once).

### FileSearch

`search()` runs in the worker for one request at a time; the panel numbers
requests, and cancels by raising `cancelUpTo` to a number. The worker walks a
tree given as a sequence of files, each skipped or with the lines of its
matches (in the order of their lines, as `findHits` goes through the text by
increasing offset, `filesearch.cpp:310-386`), and sends batches, progress and
the end, each with its number, through one queue. The panel's slots drop what is not of the current number. The model
of results groups matches of one line, relying on the order of the walk.

### ResultRows

The thread of a run appends rows to tables (`AppendRow`, the branches of the
fetching code) and posts `fetched` now and then; the tab answers by moving what
is there into a view or into the charts (`Take`). A table is an
address, and a freed one may be given again: a view knows its table by nothing
else. The tab copies the columns of a new table in two steps (`FetchedForNewView`, `Take`), as
the other thread may be clarifying them (`ClarifyTable`). `Execute` is F5, `Timeout` a
query on a timer, which keeps what is shown.

### TextEdit and CodeEditor

A text is a sequence of characters, a cursor two positions, and every edit moves
all live cursors as Qt's documents do. `TextEdit` has one operator per primitive
(insertion, deletion, indenting, commenting, case, moving lines, joining,
jumps over words). `CodeEditor` has one action per event: `PerformMultiEdit` is the wrapper that records
cursors before and after, `NativeEdit` what Qt's widget does on its own,
`ForeignEdit` an edit that reaches the document past the editor (completion, the context menu,
find and replace, another view); the menu's Paste with several cursors is not one of them, it is
`Paste`, for `insertFromMimeData()` does the whole of it. The document's undo stack is Qt's. `strayed`
notes that the two histories have parted, and the properties speak of the behaviours before (the cursors stay within the text after it, too).

### Bookmarks

The list holds addresses of user data of blocks; the data is destroyed with its
block and takes itself off the list, unless "Replace all" has suspended that. `ReplaceAllIn`
is the whole handler: the matches, the capture of what is inside them, the
rewriting, the restoring by line numbers shifted as the code shifts them, and the list resumed, in whatever
order the set of the deleted is walked. A document has a line at least (`BookmarksBounds`).

### ServerTree

`servers` is the tree, `settings` the array in the settings file, written anew at
every change. Ids are given at launch to those that have none. `ContextMenu`,
`Activate`, `FetchMore`, `ExpandDatabase`, and the actions of the panel and of the tab clone connections from one another; `key` names the
entry itself, so that a property can ask whose id a connection carries.

### ScriptCache

A bunch is the scripts of one bundle in one context with the version they
were cut for. `GetScript` and `Reread` are functions of the whole cache, since reading
asks for the version and that may read another context, whose failure throws. `Cut` is
the version filter, checked against the tree of blocks the directives mean.

### WindowTabs

A question is a dialog with an event loop: while it is open the user does
nothing else, but runs end and timers fire. `CloseWindow` asks tab by tab and
closes none before all have answered.

### DecimalSum, SqlLexer

Functions with one action each to feed them. `DecimalSum` adds digits as the code
does, its loops as recursive functions of the place, beside a plain integer. `SqlLexer` scans a text of lexemes (quotes,
comments, dollar quotes, separators, blanks, words); its reference describes the
same by tokens, from the place a token starts to the place it ends. Lexemes are apart from each
other: what happens when two marks run together (`/*/`) is section 6's.

### MCDesk

The modules from `ResultRows` on share no state, so they run side by side in one
instance rather than as a product: a variable says which of them moves in this
behaviour.

## 3. Runs

A query's user may be *patient* (waits for queryFinished() before the next run)
or start the next run in the window in which the last has ended but not been
finished (`Windows = {"ending"}`: F5 and the timer look at `queryState()` only), or while
the worker of the last is still starting (`"starting"`).

| run | module | checks | states |
|---|---|---|---|
| `pg_patient` | PgConnection | type, nothing left behind, no sending after the end, every run finishes, the refinement of RunPromise; two runs, one with parameters, two link losses, a cancellation | 86 000 |
| `pg_once` | PgConnection_proofs | the inductive invariant, at most once, one driver, true verdicts; the same with an early next run | 638 000 |
| `pg_closing` | PgConnection | isOpened() and the handle, finished after the end; links closed under a run by the user, switches of the database, failures of libpq on a live link | 758 000 |
| `pg_replayed` `pg_resent` `pg_closed` `pg_clarified` | PgConnection | four statements of the code's comments that the code does not keep (section 6) | |
| `odbc_run` | OdbcConnection | type, one execution, no Cancelling left over, cancel against free, closing, tables, closing and every run end; two runs of up to two statements, any two of: stop, switch of database, closing the tab, loss of the link | 210 000 |
| `odbc_second` | OdbcConnection | a comment the code does not keep (section 6) | |
| `file_search` | MCFileSearch | the list shows the search on screen, is complete when it says so, stop is obeyed, every search ends | 25 500 |
| `results_columns` | ResultRows | a comment the code does not keep (section 6) | |
| `desk` | MCDesk | histories in step, undo gives cursors back, cursors apart; the list of servers kept, databases and folders of their server; bookmarks alive; bundles whole; rows shown once; exact sums; statements and lists found, a split list the same list, if no comma stands behind a comment in it, and nothing of the text lost; tabs closed by consent | 671 000 |

Why the bounds are enough to be of use. Two runs are the least in which one
can disturb the next, and no state refers to more than the current and the last
run. Two losses of the link let the resent query be lost too, and one run with
parameters covers both protocols (with parameters libpq sends several messages,
so the server may act before the last byte has left). Two events in
`odbc_run` give every pair of them in every order. In `file_search` a batch of
three, a limit of four and the trees of `MCFileSearch` let a batch end within a
file, the limit be hit within a file, and two matches share a line; two searches
let a batch of the first meet the second. Queues are unbounded in the models;
their lengths are bounded by what the bounds let happen. The one place where a bound
cuts a loop is `FetchRows` (rows are announced again only when the tab
has taken the last announcement).

In `desk`, each part has its own bounds. *Editor*: two edits and two moves with
two cursors on the text `a`, line end, `a`: two cursors on one line, on two, with and
without selections, one edit undone under another. No edit is made with the mouse button held, and
an edit the histories do not follow is the last. *Tree*: eight actions (add, connect, expand, alter, disconnect,
refresh leave two to spare), two servers at a time and three in all, two
launches. *Bookmarks*: two editors, three addresses, so that memory is reused,
four edits. *Scripts*: a PostgreSQL and an odbc bundle, scripts of up to five directives
and four calls (more directives leave fewer calls, one at least). *Tabs*: two tabs, one file that both
may have open, six acts of the user. *Rows*: two addresses, two runs of two tables with three rows,
announced by twos: a table is announced, half announced, freed, reused. *Sums*: three
cells of four digits. *SQL*: every text of up to four lexemes of ten, which has each
pair of quotes around each other one, and every text of up to five lexemes of lists with literals and of
lists with `--` comments, one split: the least with a comma, an item before it and a comment on either side of the comma.

### Fairness

*PgConnection.* Weak fairness of each thread's own steps (the threads run), of
the worker's queue and of handlers entered; strong fairness of the slots of
enabled notifiers and of queued calls, since the gui thread takes them between
other events: Qt's loop serves its sources in turn. `WriteWhole` is strongly fair:
a socket that keeps reporting that it is writable takes the last byte some day. The server
answers a query it has. Nobody has to ask for anything, no link has to die, and an orphan need not be executed.

*OdbcConnection.* The gui thread runs; a query thread runs, and a mutex that
another thread takes for a moment now and then is got (strong fairness: the
waiting gui thread takes `_hstmtGuard` once in two seconds). A connect returns,
as it has a timeout. A statement may stay in the driver for ever, unless it was
cancelled there, or its handle freed by a disconnect. Thus `CloseReturns`
rests on the rounds of `waitForQueryThread()`: a single cancel may come before the
statement is published, or between two statements, and then has no effect.

*FileSearch.* The worker and the panel's slots go on. The user need not do anything.

The parts of `desk` have no liveness property and assume no fairness.

## 4. What is proved

TLC finds out on small instances whether something holds; the theorems say that it holds for every
value of the constants that their assumption (`ConnectionAssumption`, `SearchAssumption`,
`OdbcAssumption`, `ServerTreeBounds`...) allows: any number of runs, losses, tabs, servers, rows, digits. The assumptions
say of which kind the constants are (numbers, sequences, texts made of characters), that a word which stands for "nothing" is no
address or file, and, of a search, that a tree has a bound of files and the matches
of a file are in order. Each proof rests on an inductive invariant, TLC having checked that one before: each action
of the module is shown to keep each of its parts. Most lemmas are about the helpers an action is made of.

### PgConnection

| theorem | says | assumes |
|---|---|---|
| `TypeCorrect` | every reachable state has its types | |
| `OpenedConnectionHasHandle` | `isOpened()` never says yes without a handle | |
| `FinishedIsReported` | `queryFinished()` never comes before the end of its run was reported | no run is started while the last one's worker is starting |
| `InvariantHolds` | `IInv` is an invariant | `Undisturbed` |
| `ExecutedOnce` | no query is executed twice, however often the link is lost | `Undisturbed` |
| `OneThreadDrives` | one thread at a time restores the link or starts a query | `Undisturbed` |
| `ReportsAreTrue` | what was reported of a run is true, then and later | `Unrefused` |
| `NotSentAgain` | a run whose end was reported is not sent again | `Unrefused` |
| `InactiveOwesNothing` | the state says Inactive only if no thread is left in a run | `Unrefused` |
| `PromiseKept` | `PgConnection` implements `RunPromise` | `Unrefused` |

`Undisturbed`: the link is not closed under a run by the user or by a switch, reading a live socket does not
fail, and no run is started while the last one's worker is starting. `Unrefused` is that, and libpq
does not refuse to send on a live link. What is not assumed is as important: links die at any point, cancellations
come at any point, the next run may start before the last has finished.

*Why `IInv`.* At-most-once alone is not inductive: it needs to know that a run
about to be sent again has left nothing with any server. That is `Flushed` (as long as
`_query_flushed` is down the server can have nothing of the query it could act
on, but for the moment between the last push of the buffer and the flag) and
`Resending` (a reconnecting run is untouched). They are kept only because the thread
that decides is alone: while a worker starts or drives its run no notifier is
enabled, none is queued to be, and the gui thread is idle (`WorkersAlone`), and a queued
notifier means its worker has handed the run over and waits (`WatchQueued`). Those two
are the core of the argument; the rest of `IInv` (`WorkerPlaces`, `GuiPlaces`, `Stages`,
`LinkShape`, `Signals`) says what each place in the code may suppose. TLC checks it in `pg_once`.

*Why `PInv`.* That a report is true also needs to know of a session what it has of the run: one being set up
belongs to a run whose state says so (`Connecting`), one outside a run is free (`FreeSession`),
an answer is of the run that is active (`Asked`, `Answers`), and a run in progress has not been reported
(`NotReported`). With `IInv` every step then either
executes a query that was not, or reports what is so, or leaves both alone, which is what
`RunPromise` allows.

*Why `EndInv`.* The end of a run is told to its worker by a signal, which lets it leave its loop, after which
`finished()` is posted. The invariant follows that chain (`ToldAfterEnd`, `LeftAfterEnd`,
`OfGoneWorkers`) for workers that have been replaced, too.

The assumptions are needed. With a link closed under a run the gui
thread and a worker do drive the link together, and TLC finds a query executed
twice (two closes, or a run started while the last one's worker is starting); what a refusal to send does
is in section 6.

### OdbcConnection

`TypeCorrect`; `TablesStay` (`TablesExist`: a table the tab is told of is there); `BusyEnds` (`BusyHasThread`),
two runs started at once included: other than Inactive is written by a thread inside `execute()` only, or by a
`cancel()` over Running, and who leaves `execute()` writes Inactive. Unless a run is started while the thread of
the last is starting (without this TLC finds two threads inside `execute()`, run `odbc_second`):
`AloneInductive`, and from it `StatementsDoNotMeet`, `CancelReachesItsStatement`, `TakenDownWithoutThread`
(`OneStatement`, `CancelsItsStatement`, `ClosedAlone`).

*Why `AloneInv`.* Nothing in the code says that `execute()` is entered once: it follows from
`queryState` being other than Inactive exactly while a thread is inside (`BusyIsExecuting`)
and from a run being about to be started only when none is starting (`StartsFresh`).
Then the active thread is unique, so `_queryThread` is that thread
(`ActiveIsTracked`, which needs `EndsAreTrue`: the slot that forgets the thread runs
for a thread that is gone) and waiting for it is waiting for all; and `_hstmt` is
its statement from `Publish` to `FreeStatement` (`HandleIsHeld`), both of which take
`_hstmtGuard`. `GuiMoves` and `ThreadMoves` are what a step of either side must
guarantee; each action is shown to.

### FileSearch

With the panel closed at any moment: `FileTyped`; `ButtonMeansSearch` (`RunningHasSearch`: the button offers to
stop exactly as long as the current search is in a call, under way, or its end on its way);
`StopsOnRequest` (only a search the user stopped is reported so); `RowsAreTheSearch` (`ShowsTheSearch`: the
rows are a beginning of the matches of the search on screen); `FinishedShowsEverything` (`FinishedShowsAll`);
`StatusTrue` (`StatusIsTrue`, the two of what the status line says of an end together, as the run checks them).

*Why `SearchInv`.* That the end of a search takes the button
away only when nothing else of that search is left needs `OnePlace`: a number is in one
call, or under way, or in one queued end, and in no two of them. That a stop was asked
for needs `Stops`: `cancelUpTo` reaches the panel's number only through the button, as
`startSearch()` cancels before it counts on (the mutant `StartSearchSwapped` breaks
this). `Numbers` (nothing is ahead of the panel's number) keeps a new
search apart from all that are queued.

*Why `ShowInv`.* The rows alone say nothing of what is still under way. `Worked` places the worker: it has counted the matches
up to its place in the tree. `Flight` adds the rest: the rows are so many of the first matches, each queued
batch of the current number goes on where the last one ended, and what the worker holds goes on from there. A slot moves the first queued
batch to the rows, so the whole stays; the end comes behind the last batch. That a batch that ends within a line is
joined again by the next is an induction over the hits.

### The parts of the desk

* `ResultRows`: `RowsTyped`, `RowsOnce` (`RowsShownOnce`). *Why `RowsInv`*: while no run has overtaken the last,
  the rows on screen with those still in the tables are the rows sent, table by table and in order
  (`Conserved`, in which the freed tables and the reused addresses have to cancel out), and a table with rows that
  nobody has been told of is either the one being fetched or is told of by a signal to come (`Announcements`).
* `ServerTree`: `TreeTyped`, `ListIsKept`, `DatabasesBelong`, `RootsAreOwned` (`ListKept`,
  `DatabasesOfTheirServer`, `RootsOwned`). *Why `TreeInv`*: what a connection carries is its server's through every
  clone (`AllBelong`), and an id in use outside the tree, by a tab, the panel or a root kept, is a listed server's by
  the same entry or a removed one's (`Owned`), which needs ids to be apart at every launch (`IdsApart`; `Room` bounds them).
* `WindowTabs`: `TabsKept`, `TabsTyped`, `ClosedByConsent` (`TabsGoByConsent`). *Why `TabsInv`*: that a tab may go
  unasked needs to know what "not modified" means, which is that its text is in its file, unless a write spoilt that, or that
  it never had one (`Written`); and that all tabs before the one in question have agreed (`Asked`), while
  runs end and timers fire under the question.
* `DecimalSum`: `SumTyped`, `SumIsExact` (`SumExact`). *Why `SumInv`*: the sum's digits and sign, at its scale, are the total (`Holds`). Under it are the loops: what
  is carried or borrowed behind each place is what the digits below it are too many or too few by (`AddIs`,
  `SubIs`), the first place in which two numbers differ decides which is greater (`LessIs`), and zeros behind and in
  front do what they should (`Shifted`, `ZerosInFront`).
* `Bookmarks`: `MarksTyped`, `MarksStayAlive` (`BookmarksAlive`). *Why `MarksInv`*: what is destroyed must be in the list
  once and on one block only, so `Alive` holds the documents apart (`Single`), and the position jumps start from
  needs bounds (`InList`), which each removal keeps. The core is `ReplaceAllIn`, an induction over the lines made anew (`RemadeUpTo`):
  after each, the list is the old one with the new addresses for the old ones, up to the order, as a new
  object may have the address of a bookmark still to be replaced; and among the deleted are all dropped bookmarks, and of the new ones
  those that another has taken the block from. So resuming leaves what the new text has, in whatever
  order the deleted are walked. It would not if a line lay past the text or a dropped bookmark's memory
  were reused, the two cases that `unlisted` notes and section 6 reports.
* `CodeEditor`: `EditorTyped`, `HistoriesInStep` (`InStep`), `UndoGivesBack` (`UndoRestores`), `CursorsStayApart`
  (`CursorsApart`). *Why `EditorInv`*: undo is right if each entry of the history leads from the
  text of the entry below it, or of Qt's stack, to the text of the one above it (`Back`, `Forth`), and its snapshots lie within those
  texts (`SnapshotsFit`); a snapshot may be older than everything the document has shown since, so this is said of all entries at once
  and of a history shorter than the stack, whose oldest steps are the document's alone. Under it is one lemma for each
  primitive: from a document whose n cursors lie within the text it makes one of n cursors that do (`Docs(n)`), which
  composes over cursors worked through from the last to the first. What makes
  cursors apart after a key is `mergeOverlapping`, whatever the edit has left: sorted, each is joined with the last kept or lies behind it.
* `ScriptCache`: `CacheTyped`, `BundlesStayWhole` (`BundlesWhole`). *Why `CacheInv`*: that `Cut` keeps what the directives
  mean compares a scan with a stack of frames with a tree of blocks. Read from the bottom the stack is the blocks around the place
  reached, the frame j being of the block whose `if` opened it, and its three flags say of that
  block's arms so far whether one was taken and whether this one emits; so a script fails exactly if it has no tree. Of
  the caches: a bunch that is kept was cut from the folder kept, for the version then asked, and reading one context
  may fill another one or throw in the middle, which leaves both as sound as they were (`StateSound`).
* `SqlLexer`: `SqlTyped`, `StatementIsChosen` (`StatementChosen`), `ListIsFound` (`ListFound`), for texts of any length.
  *Why by induction over the text*: the scanner goes lexeme by lexeme and knows its mode, the reference knows where each token
  starts and ends; the hypothesis says in which token the scanner is whenever it is in a mode, which no shorter statement carries
  over a line's end. For lists its stack is the brackets open at the place reached, outermost first (`Nested`), each with
  the commas of its own nesting so far (`Separated`); the first level to close around the caret is then the innermost pair around it.
  `SplitsLoseNothing` (`SplitLosesNothing`): each level's commas are kept in the text's order (`ReadInOrder`, with the same induction), so the
  items are stretches of the text from one comma to the next, and what is cut off at their edges, absorbed beside the list or put in is blank.
* `MCDesk`: `DeskTyped` (`DeskTypeOK`), `DeskSafe`, `DeskSteps`: a step of the desk is a step of the part that moves and leaves
  the others' variables, so each behaviour of the desk is one of every part, and what the parts' theorems say holds
  of all of them at once.

### How

Induction over data is not at hand as a theorem about operators, which the provers cannot instantiate. `Recursion` says the same of
sets and functions, which they can: a set with 0 and successors has all numbers, and steps given as
a function have a function that repeats them. With this the folds and recursive functions of the
modules, which are a `CHOOSE`, get their equations; where the domain grows with the argument (the mth function is defined on the
first m places) `StagedRecursion` says it. Recursion is written as functions or folds throughout.

### Only model-checked

* Liveness and everything else under fairness (`EveryRunFinishes`, `CloseReturns`, `EverySearchEnds`...): outside the prover's reach.
* `SplitKeeps`: it compares the lists found in two texts in which every place has moved. It speaks of lists in
  which no comma stands behind a `--` comment: split, such a comma goes into the comment (`CommaBehindComment`, section 6).

## 5. What holds, in words

* PostgreSQL, undisturbed: at most once, true verdicts, one driver, the early
  next run included; for a patient user also every run finishes, none is sent after its
  end.
* ODBC: Cancelling never outlives the runs; but for two runs started at once, one execution
  at a time; `SQLCancel()` never meets a statement that `execute()` has freed; nothing is
  taken down under a thread; closing returns.
* Search: stale batches are dropped, stop is obeyed, the list is complete when
  called so, every search ends, a panel closed in the middle included.
* Rows: for runs that start after the signals of the last, none is lost, repeated or out of
  order, wherever tables are allocated.
* Editor: as long as edits pass through the editor, undo and redo give back the text with
  every cursor; after a key no two cursors touch.
* Bookmarks: but for the two cases of section 6, the list holds the marked blocks and nothing dead.
* Servers: the saved list is the one shown; databases connect as their server
  does; a search root is kept under the id of the server it was chosen for, unless the
  id was a removed server's.
* Scripts: what is kept is complete, comes from the folder that would be chosen
  now, and is what its directives mean for its version.
* Tabs: no text and no running query goes without an answer that says so, and the window closes all tabs or none.
* Sums are exact. The statement and the list at the caret are those a reader would
  take; in a list split over lines nothing is lost or moved, and where no comma stands behind a line comment
  it is the same list, and splitting it again changes nothing.

## 6. Where the code and its comments differ

Each is a run that TLC refutes.

* `pg_replayed` - a query of an open transaction is excluded from resending
  (`pgconnection.cpp:957-960`), but the test asks a handle that no longer knows of
  the transaction, so it is sent again on a fresh session.
* `pg_resent` - "a query is resent at most once per run" (`pgconnection.h:91`) holds of
  one path; `run_query`'s own branch for a dead link (`:551`) reconnects again and again.
* `pg_closed` - a run ended by dropping its link while it reconnects
  (`:252`) may be sent all the same: the guard is released between the end of
  the connection attempt and the sending (`:1202`).
* `pg_clarified` - the connection's tables have their types when
  `queryFinished()` comes (`querywidget.cpp:283`), but the worker may leave its loop before the handler that clarifies them.
* `odbc_second` - a second run is refused by a state that is raised in
  the new thread only; two quick ones are both accepted (`odbcconnection.cpp:712`).
* `results_columns` - "the columns do not alter in parallel" (`tablemodel.cpp:132`), but the
  worker clarifies their types while the gui may be copying them.

Seen while modelling, without a run of their own:

*Connections.*

* With an early next run (`Windows = {"ending"}`) `EveryRunFinishes` of
  PgConnection does not hold: the worker of the first is replaced while signals to it are still under way.
* When libpq refuses to send (`pgconnection.cpp:617-621`) the run is reported as failed, but
  `_query_flushed` and `_async_stage` stay as they were for sending. If the link was in a
  transaction and then dies idle, `fetch()` (`:1010`) still takes it for a run's loss, and
  `linkLostMidQuery` (`:957-979`) reconnects and sends the query whose failure was reported: hence
  `"send" \notin Failures` in `Unrefused`. In the same way an idle link that dies in a transaction
  is reported as a query of unknown outcome with no run in progress.
* A tab's flag `_queryActive` goes down with the queued end of the last run,
  under an early next one, whose messages then go elsewhere, and
  `clearResultsets()` frees tables that queued `fetched` signals still name; hence the
  condition `~hasty` in `TablesExist` and `~overtaken` in `RowsShownOnce`.
* After `checkStmt()` has disconnected in place the published statement has been
  freed by the driver, so a cancel in the rest of the run calls `SQLCancel()` on it;
  the comment at `odbcconnection.cpp:349-351` speaks of the free in `execute()` only.
* A cancelled statement of an ODBC script does not keep the following ones
  from being executed (`odbcconnection.cpp:361-374`).
* `isOpened()` after the roll-back of a dead link (`pgconnection.cpp:687`) and
  `VerdictTrue` when the database is switched under a run (`querywidget.cpp:246`: a
  run the user has closed is reported "done").
* The synchronous `execute()` (`pgconnection.cpp:741-760`) sends again because "the
  query never reached the server", though the link may have died after it was executed.
* A link lost in the middle of a table leaves the rows since the last
  announcement, up to 999, unannounced (`RowsShownOnce` says so).
* A query of 32 KiB or more keeps the settings of the one before, and its rows go
  to that one's charts (`mainwindow.cpp:1017-1031`).

*Servers and scripts.*

* A server added to the list has no id until the next start, so its search root
  is not kept; the id of the last server is given again after its removal, and
  its root with it (`dbobjectsmodel.cpp:220-245, 483-490`);
  duplicates of a name are looked for in a role servers never have (`:479`).
* A database node whose opening failed once cannot be expanded until the server's branch is refreshed.
* F5 on a database node that was never opened fails with "db connection unavailable" before the lexers are cleared:
  adopting the catalog sets `_scriptCatalog` but not `_dbmsScriptingID`.
* Scripts of an odbc bundle's root are cut for version -1, where an `if` without a
  version fails, against the comment at `scriptversionfilter.cpp:51`; a bundle that was
  refreshed over a closed link keeps scripts for the newest version.

*Tabs and editor.*

* Ctrl+D that wraps adds the selection once more (`multicursor.h:63-65`); an edit through
  several cursors that changes nothing still enters the history; the context menu, completion, find and replace
  and the splitting of a list pass the histories by. These set `strayed`.
* Two cursors may become equal by moving, as only adding one compares them (`multicursor.h:52`), and restoring
  a snapshot drops one of them; so `UndoRestores` speaks of the set of cursors.
* "Replace all" may give a dropped bookmark's memory to another one, so that the list
  names it twice, and leaves data without a block when the text became shorter (`findandreplacepanel.cpp:476-500`):
  `unlisted` in `Bookmarks`.
* Searching backwards for an expression that matches the empty text does not return (`findandreplacepanel.cpp:104-132`).
* A file may be open in two tabs and saving one overwrites the other; a query a timer starts
  while another tab's question is open is dropped without a question (`spoilt`, `lateRuns` in `WindowTabs`).
* `/*/` is taken for a whole comment, `a$b$` for the start of a dollar quote. An item that
  ends with a `--` comment, its comma on a line after that, gets the comma put into the comment when the list is
  split and two items become one (of comments between items `sqllexer.h:241-243` says that nothing clever is attempted); a list of empty
  items only grows by lines with each split.

## 7. Not modelled, and the plan

Charts, styling, dialogs, highlighting, settings, the scripts of the servers and packaging
have no state of several steps worth a model. `rowjson`, `textcodec`, `pgparams`, `pgtypmod` convert one
text into another at one go: a model would be a copy. External and taken as it is used: Qt's documents,
signals and undo stack, libpq, the odbc driver, the javascript engine.
Within the modelled parts are left out: the data of COPY, the synchronous `execute()`,
the cache of type names, completion and its parser of aliases, keywords of several words,
masks of the search, encodings, what a tree script answers.

What would come next:

1. `PgCopy`: the data phases of COPY with a failing file and a failing cancel,
   composed with the stages of `PgConnection`.
2. The synchronous `execute()` and the cache of type names, which the worker and
   other threads fill.
3. `findHits` and the masks of the search as functions with a reference.
4. Proofs: that a split keeps the list (`SplitKeeps`) in every text in which no comma stands behind a line comment.
