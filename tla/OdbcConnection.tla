--------------------------- MODULE OdbcConnection ---------------------------
(***************************************************************************)
(* A query tab on an ODBC data source: OdbcConnection (odbcconnection.cpp),*)
(* the tab's slots (querywidget.cpp) and the actions of the main window    *)
(* that reach them (mainwindow.cpp).                                       *)
(*                                                                         *)
(* execute() spends a run inside blocking calls of the driver, in a thread *)
(* made for that run; the gui thread cancels it by SQLCancel() and, before *)
(* it touches the link, waits for it.  What the run has to say is queued to*)
(* the gui thread, except queryState, which both threads see at once.      *)
(*                                                                         *)
(* A step is what a thread does between two points at which another thread *)
(* can notice: a section under a mutex, a driver call, a write of           *)
(* queryState.                                                             *)
(***************************************************************************)
EXTENDS Naturals, Sequences, FiniteSets

CONSTANTS
    MaxRuns,    \* bound: runs the user starts
    MaxBatches, \* bound: the statements a script is split into at its "go" lines
    MaxEvents,  \* bound: times the user asks to stop, switches the database or closes
                \* the tab, and the link dies, taken together
    Windows     \* when the user may start a run, see InWindow

ASSUME OdbcAssumption ==
    /\ MaxRuns \in Nat /\ MaxBatches \in Nat \ {0} /\ MaxEvents \in Nat
    /\ Windows \subseteq {"starting", "ending"}

Runs == 1..MaxRuns
None == 0

VARIABLES
    queryState,  \* _query_state
    opened,      \* _opened
    link,        \* the link behind _hdbc: "none", "up", or "dead" and not noticed
    hstmt,       \* the run whose statement _hstmt is
    allocated,   \* the runs whose statement handle the driver has
    worker,      \* per run, its thread inside execute()
    queryThread, \* the run whose thread _queryThread is
    resultsets,  \* the tables the connection owns
    gui,         \* what the gui thread is in the middle of, where its cancel() and
                 \* its close() go on to, and the tables it is reading
    posted,      \* what is queued to the tab
    queryActive, \* _queryActive of the tab
    alive,       \* the tab, and with it the connection, exists
    finished,    \* the runs whose queryFinished() has reached the tab
    hasty,       \* a run was started before the end of the last was handled
    bounds       \* what is left of the bounds

handles == <<opened, link, allocated>>
tab == <<queryActive, alive, finished, hasty>>
vars == <<queryState, handles, hstmt, worker, queryThread, resultsets, gui, posted, tab,
          bounds>>

NoWorker == [at |-> "none", left |-> 0, table |-> FALSE, interrupted |-> FALSE]
Running(r) == worker[r].at \notin {"none", "gone"}      \* thread->isRunning()
Executing(r) == worker[r].at \notin {"none", "starting", "quit", "gone"}
InDriver(r) == worker[r].at \in {"exec", "fetch"}
Statement(r) == worker[r].at \in {"publish", "next", "exec", "fetch", "reopen", "free"}

Resting == [pc |-> "idle", then |-> "idle", after |-> "idle", snapshot |-> {}]

Init ==
    /\ queryState = "Inactive"
    /\ opened = FALSE /\ link = "none" /\ allocated = {}
    /\ hstmt = None /\ queryThread = None
    /\ worker = [r \in Runs |-> NoWorker]
    /\ resultsets = {}
    /\ gui = Resting
    /\ posted = <<>>
    /\ queryActive = FALSE /\ alive = TRUE /\ finished = {} /\ hasty = FALSE
    /\ bounds = [runs |-> MaxRuns, events |-> MaxEvents]

-----------------------------------------------------------------------------
Signal(signal, run) == [signal |-> signal, run |-> run, batch |-> 0]
Post(signal) == IF alive THEN Append(posted, signal) ELSE posted

(* setQueryState() says nothing of a state that stays as it is, and the tab  *)
(* does nothing about one that is not the end of a run.                     *)
SetQueryState(state, run) ==
    /\ queryState' = state
    /\ posted' = IF state = queryState \/ state # "Inactive" THEN posted
                 ELSE Post(Signal(state, run))

Idle == alive /\ gui.pc = "idle"
Goto(pc) == gui' = IF pc = "idle" THEN Resting ELSE [gui EXCEPT !.pc = pc]

(* closeLocked(), with the statements SQLDisconnect() frees in the driver.  *)
(* (A mutant: it drops the resultsets too.)                                 *)
CloseLockedDropping ==
    /\ opened' = FALSE
    /\ link' = "none"
    /\ allocated' = IF opened THEN {} ELSE allocated
    /\ resultsets' = {}
CloseLocked ==
    /\ opened' = FALSE
    /\ link' = "none"
    /\ allocated' = IF opened THEN {} ELSE allocated
    /\ UNCHANGED resultsets

(* open(): it asks for nothing when the link was never seen to break.       *)
Open ==
    /\ IF opened THEN UNCHANGED <<opened, link>>
       ELSE \/ opened' = TRUE /\ link' = "up"
            \/ UNCHANGED <<opened, link>>
    /\ UNCHANGED allocated

-----------------------------------------------------------------------------
(* The user.                                                                *)

(* The queries the user starts: at any time the state is Inactive, but for  *)
(* the moments, left out unless Windows has them, when the last run's thread*)
(* has not come to Running yet ("starting"), and when its end is still on   *)
(* its way to the tab ("ending").                                           *)
Reported == posted = <<>> /\ \A r \in Runs : ~Running(r)
InWindow ==
    /\ "starting" \in Windows \/ \A r \in Runs : worker[r].at # "starting"
    /\ "ending" \in Windows \/ Reported

(* on_actionExecute_query_triggered() and executeQuery(), when Inactive.    *)
ExecuteQuery ==
    /\ Idle /\ bounds.runs > 0 /\ queryState = "Inactive" /\ InWindow
    /\ bounds' = [bounds EXCEPT !.runs = @ - 1]
    /\ Goto("execute")
    /\ UNCHANGED <<queryState, handles, hstmt, worker, queryThread, resultsets, posted, tab>>

(* QueryWidget::execute() and executeAsync().                               *)
ExecuteAsync ==
    /\ gui.pc = "execute"
    /\ Goto("idle")
    /\ LET run == MaxRuns - bounds.runs
       IN IF queryState # "Inactive"
          THEN queryActive' = FALSE /\ UNCHANGED <<worker, queryThread, hasty>>
          ELSE /\ queryActive' = TRUE
               /\ worker' = [worker EXCEPT ![run].at = "starting"]
               /\ queryThread' = run
               /\ hasty' = (hasty \/ ~Reported)
    /\ UNCHANGED <<queryState, handles, hstmt, resultsets, posted, alive, finished, bounds>>

(* on_actionExecute_query_triggered(), when a run is under way.             *)
StopExecution ==
    /\ Idle /\ bounds.events > 0 /\ queryState # "Inactive"
    /\ bounds' = [bounds EXCEPT !.events = @ - 1]
    /\ gui' = [gui EXCEPT !.pc = "cancel", !.then = "idle"]
    /\ UNCHANGED <<queryState, handles, hstmt, worker, queryThread, resultsets, posted, tab>>

(* The database menu: setDatabase() and open(), whatever the state.         *)
SwitchDatabase ==
    /\ Idle /\ bounds.events > 0
    /\ bounds' = [bounds EXCEPT !.events = @ - 1]
    /\ gui' = [gui EXCEPT !.pc = "close", !.after = "open"]
    /\ UNCHANGED <<queryState, handles, hstmt, worker, queryThread, resultsets, posted, tab>>

(* confirmTabClose() and discardTab(): the destructor of the connection.    *)
CloseTab ==
    /\ Idle /\ queryState = "Inactive" /\ bounds.events > 0
    /\ bounds' = [bounds EXCEPT !.events = @ - 1]
    /\ gui' = [gui EXCEPT !.pc = "close", !.after = "delete"]
    /\ UNCHANGED <<queryState, handles, hstmt, worker, queryThread, resultsets, posted, tab>>

-----------------------------------------------------------------------------
(* cancel(), and who waits for it.                                          *)

(* The state goes to Cancelling with _hstmtGuard held, and only for a       *)
(* statement; SQLCancel() is called before it is let go.                    *)
(* (A mutant: the state is written before the statement and the state are   *)
(* looked at under the mutex.)                                              *)
CancelUnchecked ==
    /\ gui.pc = "cancel"
    /\ queryState' = "Cancelling"
    /\ IF hstmt = None THEN Goto(gui.then) ELSE Goto("SQLCancel")
    /\ UNCHANGED <<handles, hstmt, worker, queryThread, resultsets, posted, tab, bounds>>
Cancel ==
    /\ gui.pc = "cancel"
    /\ IF hstmt = None THEN Goto(gui.then) /\ UNCHANGED queryState
       ELSE /\ Goto("SQLCancel")
            /\ queryState' = IF queryState = "Running" THEN "Cancelling" ELSE queryState
    /\ UNCHANGED <<handles, hstmt, worker, queryThread, resultsets, posted, tab, bounds>>
HstmtGuard == gui.pc # "SQLCancel"      \* free for the worker

(* A statement no driver call is busy with does not notice.                 *)
SQLCancel ==
    /\ gui.pc = "SQLCancel"
    /\ Goto(gui.then)
    /\ worker' = IF hstmt \in allocated /\ InDriver(hstmt)
                 THEN [worker EXCEPT ![hstmt].interrupted = TRUE] ELSE worker
    /\ UNCHANGED <<queryState, handles, hstmt, queryThread, resultsets, posted, tab, bounds>>

(* close() or the destructor: a running thread is waited for, in rounds of  *)
(* a cancel() and a wait of two seconds.                                    *)
(* (A mutant: the link is closed without waiting.)                          *)
CloseUnwaited ==
    /\ gui.pc = "close"
    /\ Goto("disconnect")
    /\ UNCHANGED <<queryState, handles, hstmt, worker, queryThread, resultsets, posted, tab,
                   bounds>>
Close ==
    /\ gui.pc = "close"
    /\ gui' = IF queryThread # None /\ Running(queryThread)
              THEN [gui EXCEPT !.pc = "cancel", !.then = "wait"]
              ELSE [gui EXCEPT !.pc = "disconnect"]
    /\ UNCHANGED <<queryState, handles, hstmt, worker, queryThread, resultsets, posted, tab,
                   bounds>>

Waited ==
    /\ gui.pc = "wait" /\ ~Running(queryThread)
    /\ Goto("disconnect")
    /\ UNCHANGED <<queryState, handles, hstmt, worker, queryThread, resultsets, posted, tab,
                   bounds>>

(* (A mutant: one cancel() has to do.)                                      *)
WaitAgainOnce ==
    /\ gui.pc = "wait" /\ Running(queryThread)
    /\ UNCHANGED vars
WaitAgain ==
    /\ gui.pc = "wait" /\ Running(queryThread)
    /\ Goto("cancel")
    /\ UNCHANGED <<queryState, handles, hstmt, worker, queryThread, resultsets, posted, tab,
                   bounds>>

Disconnect ==
    /\ gui.pc = "disconnect"
    /\ CloseLocked
    /\ Goto(gui.after)
    /\ UNCHANGED <<queryState, hstmt, worker, queryThread, posted, tab, bounds>>

(* open() of the database menu; when it fails, the menu tries the previous  *)
(* database in the same way.                                                *)
SwitchOpen ==
    /\ gui.pc = "open"
    /\ Open
    /\ Goto("idle")
    /\ UNCHANGED <<queryState, hstmt, worker, queryThread, resultsets, posted, tab, bounds>>

Delete ==
    /\ gui.pc = "delete"
    /\ alive' = FALSE
    /\ Goto("idle")
    /\ posted' = <<>> /\ resultsets' = {} /\ queryThread' = None
    /\ UNCHANGED <<queryState, handles, hstmt, worker, queryActive, finished, hasty, bounds>>

-----------------------------------------------------------------------------
(* The tab's slots, and the one of the connection for the end of a thread.  *)
Deliver(signals) ==
    /\ Idle /\ posted # <<>> /\ Head(posted).signal \in signals
    /\ UNCHANGED <<queryState, handles, hstmt, worker, resultsets, alive, hasty, bounds>>

QueryStateChanged ==
    /\ Deliver({"Inactive"})
    /\ queryActive' = FALSE
    /\ posted' = Tail(posted)
    /\ UNCHANGED <<queryThread, gui, finished>>

Fetched ==
    /\ Deliver({"fetched"})
    /\ posted' = Tail(posted)
    /\ UNCHANGED <<queryThread, gui, queryActive, finished>>

(* (A mutant: only the thread that is still tracked is reported.)           *)
ThreadFinishedOfTracked ==
    /\ Deliver({"thread finished"})
    /\ queryThread' = IF queryThread = Head(posted).run THEN None ELSE queryThread
    /\ posted' = IF queryThread = Head(posted).run
                 THEN Append(Tail(posted), Signal("queryFinished", Head(posted).run))
                 ELSE Tail(posted)
    /\ UNCHANGED <<gui, queryActive, finished>>
ThreadFinished ==
    /\ Deliver({"thread finished"})
    /\ queryThread' = IF queryThread = Head(posted).run THEN None ELSE queryThread
    /\ posted' = Append(Tail(posted), Signal("queryFinished", Head(posted).run))
    /\ UNCHANGED <<gui, queryActive, finished>>

(* The slot of queryFinished() reads the tables of a snapshot of the list.  *)
QueryFinished ==
    /\ Deliver({"queryFinished"})
    /\ finished' = finished \cup {Head(posted).run}
    /\ posted' = Tail(posted)
    /\ gui' = [gui EXCEPT !.pc = "report", !.snapshot = resultsets]
    /\ UNCHANGED <<queryThread, queryActive>>
QueryReported ==
    /\ gui.pc = "report"
    /\ Goto("idle")
    /\ UNCHANGED <<queryState, handles, hstmt, worker, queryThread, resultsets, posted, tab,
                   bounds>>

-----------------------------------------------------------------------------
(* The thread of a run: execute() of odbcconnection.cpp.                    *)
Step(r, from, to) ==
    /\ worker[r].at = from
    /\ worker' = [worker EXCEPT ![r].at = to]
    /\ UNCHANGED <<hstmt, queryThread, gui, tab, bounds>>

Begin(r) ==
    /\ Step(r, "starting", "clear")
    /\ SetQueryState("Running", r)
    /\ UNCHANGED <<handles, resultsets>>

ClearResultsets(r) ==
    /\ Step(r, "clear", "open")
    /\ resultsets' = {}
    /\ UNCHANGED <<queryState, handles, posted>>

OpenLink(r) ==
    /\ Open
    /\ Step(r, "open", IF opened' THEN "allocate" ELSE "end")
    /\ UNCHANGED <<queryState, resultsets, posted>>

(* SQLAllocHandle().                                                        *)
Allocate(r) ==
    /\ \/ /\ Step(r, "allocate", "publish")
          /\ allocated' = allocated \cup {r}
       \/ Step(r, "allocate", "end") /\ UNCHANGED allocated
    /\ UNCHANGED <<queryState, opened, link, resultsets, posted>>

Publish(r) ==
    /\ worker[r].at = "publish" /\ HstmtGuard
    /\ hstmt' = r
    /\ \E n \in 0..MaxBatches :
          worker' = [worker EXCEPT ![r].at = "next", ![r].left = n]
    /\ UNCHANGED <<queryState, handles, queryThread, resultsets, gui, posted, tab, bounds>>

(* The next statement of the script; a statement with several results counts *)
(* as several.                                                              *)
(* (Mutants: the end of the script is not seen; the state goes Inactive     *)
(* before the statement is freed.)                                          *)
NextBatchUnbounded(r) ==
    /\ worker[r].at = "next"
    /\ worker' = [worker EXCEPT ![r].at = "exec", ![r].left = @ - 1,
                                ![r].interrupted = FALSE]
    /\ UNCHANGED <<queryState, handles, hstmt, queryThread, resultsets, gui, posted, tab,
                   bounds>>
NextBatchInactive(r) ==
    /\ worker[r].at = "next"
    /\ IF worker[r].left = 0
       THEN worker' = [worker EXCEPT ![r].at = "free"] /\ SetQueryState("Inactive", r)
       ELSE /\ worker' = [worker EXCEPT ![r].at = "exec", ![r].left = @ - 1,
                                       ![r].interrupted = FALSE]
            /\ UNCHANGED <<queryState, posted>>
    /\ UNCHANGED <<handles, hstmt, queryThread, resultsets, gui, tab, bounds>>
NextBatch(r) ==
    /\ worker[r].at = "next"
    /\ worker' = IF worker[r].left = 0 THEN [worker EXCEPT ![r].at = "free"]
                 ELSE [worker EXCEPT ![r].at = "exec", ![r].left = @ - 1,
                                     ![r].interrupted = FALSE]
    /\ UNCHANGED <<queryState, handles, hstmt, queryThread, resultsets, gui, posted, tab,
                   bounds>>

(* A driver call returns.  A statement without a result, one that fails and *)
(* one that SQLCancel() has reached alike lead to the next one; so does, at *)
(* once, a call on a statement the driver has freed.                        *)
Exec(r) ==
    /\ Step(r, "exec", "next")
    /\ UNCHANGED <<queryState, handles, resultsets, posted>>

Table(r) == [run |-> r, batch |-> worker[r].left]
Resultset(r) ==
    /\ worker[r].at = "exec" /\ r \in allocated /\ link = "up" /\ ~worker[r].interrupted
    /\ resultsets' = resultsets \cup {Table(r)}
    /\ worker' = [worker EXCEPT ![r].at = "fetch", ![r].table = TRUE]
    /\ UNCHANGED <<queryState, handles, hstmt, queryThread, gui, posted, tab, bounds>>

(* The rows are announced every so many of them, and at the end; a failure  *)
(* to read one ends the run without the latter.  (Bound: the tab has taken  *)
(* what was announced before more is.)                                      *)
Announce(r) == Post([signal |-> "fetched", run |-> r, batch |-> worker[r].left])
FetchRows(r) ==
    /\ worker[r].at = "fetch" /\ link = "up" /\ r \in allocated
    /\ \A i \in DOMAIN posted : posted[i].signal # "fetched"
    /\ posted' = Announce(r)
    /\ UNCHANGED <<queryState, handles, hstmt, worker, queryThread, resultsets, gui, tab,
                   bounds>>
FetchEnds(r) ==
    /\ worker[r].at = "fetch"
    /\ posted' = Announce(r)
    /\ worker' = [worker EXCEPT ![r].at = "next", ![r].table = FALSE]
    /\ UNCHANGED <<queryState, handles, hstmt, queryThread, resultsets, gui, tab, bounds>>
FetchFails(r) ==
    /\ worker[r].at = "fetch"
    /\ worker' = [worker EXCEPT ![r].at = "free", ![r].table = FALSE]
    /\ UNCHANGED <<queryState, handles, hstmt, queryThread, resultsets, gui, posted, tab,
                   bounds>>

(* checkStmt() sees the link broken: close() and open(), in this thread.    *)
(* close() waits for the tracked thread if that is another one, as it can be *)
(* for runs started at once only.  (Left out: the cancel() in that wait.)   *)
TrackedElsewhere(r) == queryThread \notin {None, r} /\ Running(queryThread)
LinkLost(r) ==
    /\ InDriver(r) /\ link = "dead" /\ r \in allocated
    /\ ~TrackedElsewhere(r)
    /\ CloseLocked
    /\ worker' = [worker EXCEPT ![r].at = "reopen"]
    /\ UNCHANGED <<queryState, hstmt, queryThread, gui, posted, tab, bounds>>
Reopen(r) ==
    /\ worker[r].at = "reopen"
    /\ Open
    /\ worker' = [worker EXCEPT ![r].at = IF worker[r].table THEN "fetch" ELSE "next"]
    /\ UNCHANGED <<queryState, hstmt, queryThread, resultsets, gui, posted, tab, bounds>>

(* (A mutant: the statement is freed without _hstmtGuard.)                  *)
FreeStatementUnguarded(r) ==
    /\ worker[r].at = "free"
    /\ hstmt' = None
    /\ allocated' = allocated \ {r}
    /\ worker' = [worker EXCEPT ![r] = [NoWorker EXCEPT !.at = "end"]]
    /\ UNCHANGED <<queryState, opened, link, queryThread, resultsets, gui, posted,
                   tab, bounds>>
FreeStatement(r) ==
    /\ HstmtGuard
    /\ worker[r].at = "free"
    /\ hstmt' = None
    /\ allocated' = allocated \ {r}
    /\ worker' = [worker EXCEPT ![r] = [NoWorker EXCEPT !.at = "end"]]
    /\ UNCHANGED <<queryState, opened, link, queryThread, resultsets, gui, posted,
                   tab, bounds>>

End(r) ==
    /\ Step(r, "end", "quit")
    /\ SetQueryState("Inactive", r)
    /\ UNCHANGED <<handles, resultsets>>

(* thread->quit(), and what finished() leads to is queued.                  *)
Quit(r) ==
    /\ Step(r, "quit", "gone")
    /\ posted' = Post(Signal("thread finished", r))
    /\ UNCHANGED <<queryState, handles, resultsets>>

LinkDies ==
    /\ link = "up" /\ bounds.events > 0
    /\ link' = "dead"
    /\ bounds' = [bounds EXCEPT !.events = @ - 1]
    /\ UNCHANGED <<queryState, opened, hstmt, allocated, worker, queryThread,
                   resultsets, gui, posted, tab>>

-----------------------------------------------------------------------------
User == ExecuteQuery \/ StopExecution \/ SwitchDatabase \/ CloseTab
Gui ==
    \/ ExecuteAsync \/ Cancel \/ SQLCancel \/ Close \/ Waited \/ WaitAgain
    \/ Disconnect \/ SwitchOpen \/ Delete
    \/ QueryStateChanged \/ Fetched \/ ThreadFinished \/ QueryFinished \/ QueryReported

(* What a thread does of its own accord, and what it waits for the driver   *)
(* to do.                                                                   *)
Own(r) ==
    \/ Begin(r) \/ ClearResultsets(r) \/ OpenLink(r) \/ Allocate(r) \/ Publish(r)
    \/ NextBatch(r) \/ Reopen(r) \/ FreeStatement(r) \/ End(r) \/ Quit(r)
Driver(r) ==
    \/ Exec(r) \/ Resultset(r) \/ FetchRows(r) \/ FetchEnds(r) \/ FetchFails(r)
    \/ LinkLost(r)

Next ==
    \/ User \/ Gui \/ LinkDies
    \/ \E r \in Runs : Own(r) \/ Driver(r)

Spec == Init /\ [][Next]_vars

(* The threads run, and a connect returns for it has a timeout.  A thread   *)
(* gets a mutex another one keeps taking for a moment: the rounds of waiting *)
(* are two seconds apart.  A statement may take as long as it likes, but a  *)
(* call on one that was cancelled, or that the driver has freed, returns.   *)
Returns(r) ==
    /\ worker[r].interrupted \/ r \notin allocated
    /\ Exec(r) \/ FetchEnds(r) \/ FetchFails(r)
FairSpec ==
    /\ Spec /\ WF_vars(Gui)
    /\ \A r \in Runs : SF_vars(Own(r)) /\ WF_vars(Returns(r))

-----------------------------------------------------------------------------
States == {"Inactive", "Running", "Cancelling"}
Signals == {"Inactive", "fetched", "thread finished", "queryFinished"}
TableSet == [run : Runs, batch : 0..MaxBatches]
TypeOK ==
    /\ queryState \in States
    /\ opened \in BOOLEAN /\ link \in {"none", "up", "dead"}
    /\ hstmt \in Runs \cup {None} /\ queryThread \in Runs \cup {None}
    /\ allocated \subseteq Runs
    /\ worker \in [Runs -> [at : {"none", "starting", "clear", "open", "allocate", "publish",
                                 "next", "exec", "fetch", "reopen", "free", "end", "quit",
                                 "gone"},
                           left : 0..MaxBatches, table : BOOLEAN, interrupted : BOOLEAN]]
    /\ resultsets \subseteq TableSet
    /\ gui \in [pc : {"idle", "execute", "cancel", "SQLCancel", "wait", "close",
                      "disconnect", "open", "delete", "report"},
                then : {"idle", "wait"}, after : {"idle", "open", "delete"},
                snapshot : SUBSET TableSet]
    /\ posted \in Seq([signal : Signals, run : Runs, batch : 0..MaxBatches])
    /\ queryActive \in BOOLEAN /\ alive \in BOOLEAN /\ hasty \in BOOLEAN
    /\ finished \subseteq Runs
    /\ bounds \in [runs : 0..MaxRuns, events : 0..MaxEvents]

(* One thread at a time is inside execute(): a second one would overwrite   *)
(* _hstmt and leave cancel() with the wrong statement.                      *)
OneStatement == Cardinality({r \in Runs : Executing(r)}) <= 1

(* A state other than Inactive has a thread that will take it back: a       *)
(* Cancelling written over the end of a run would refuse every later query. *)
BusyHasThread == alive /\ queryState # "Inactive" => \E r \in Runs : Executing(r)

(* cancel() reaches no statement that execute() has freed already, whichever*)
(* of them comes to _hstmtGuard first.                                      *)
CancelsItsStatement ==
    gui.pc = "SQLCancel" => hstmt # None /\ Statement(hstmt)

(* Nothing of the connection is taken down while a thread is inside         *)
(* execute(): not the link by close(), nor the rest by the destructor.      *)
ClosedAlone ==
    gui.pc \in {"disconnect", "open", "delete"} \/ ~alive =>
       \A r \in Runs : ~Executing(r)

(* A table that a thread is filling, that was announced to the tab or that  *)
(* the tab is reading exists, for a user who waits for the end of a run to  *)
(* be shown before starting the next.                                       *)
TablesExist ==
    ~hasty /\ alive =>
       /\ \A r \in Runs : worker[r].table => Table(r) \in resultsets
       /\ \A i \in DOMAIN posted : posted[i].signal = "fetched" =>
             [run |-> posted[i].run, batch |-> posted[i].batch] \in resultsets
       /\ gui.pc = "report" => gui.snapshot \subseteq resultsets

(* Closing the link or the tab comes to an end, though the gui thread waits *)
(* for the run in it and a cancel() may come too early to have an effect.   *)
CloseReturns == gui.pc = "close" ~> gui.pc = "idle"

(* A run the driver does not keep, whose statements are finitely many, comes *)
(* to its queryFinished(), unless the tab is closed.                        *)
EveryRunFinishes ==
    \A r \in Runs :
       worker[r].at # "none" /\ ~InDriver(r) ~> InDriver(r) \/ r \in finished \/ ~alive

=============================================================================
