----------------------- MODULE OdbcConnection_proofs -----------------------
(***************************************************************************)
(* Theorems about OdbcConnection, proved for any number of runs,           *)
(* statements and events: one thread at a time is inside execute(), and    *)
(* nobody cancels, closes or deletes what it does not hold.                *)
(***************************************************************************)
EXTENDS OdbcConnection, FiniteSetTheorems, TLAPS

Places == {"none", "starting", "clear", "open", "allocate", "publish", "next", "exec", "fetch",
           "reopen", "free", "end", "quit", "gone"}
Thread == [at : Places, left : 0..MaxBatches, table : BOOLEAN, interrupted : BOOLEAN]
Snapshots == SUBSET TableSet
GuiPlaces == {"idle", "execute", "cancel", "SQLCancel", "wait", "close", "disconnect", "open",
              "delete", "report"}
GuiThread == [pc : GuiPlaces, then : {"idle", "wait"}, after : {"idle", "open", "delete"},
              snapshot : Snapshots]
Queued == [signal : Signals, run : Runs, batch : 0..MaxBatches]
Bounds == [runs : 0..MaxRuns, events : 0..MaxEvents]

(* The types, with the sets named.                                          *)
Types ==
    /\ queryState \in States /\ opened \in BOOLEAN /\ link \in {"none", "up", "dead"}
    /\ hstmt \in Runs \cup {None} /\ queryThread \in Runs \cup {None} /\ allocated \subseteq Runs
    /\ worker \in [Runs -> Thread] /\ resultsets \in Snapshots /\ gui \in GuiThread
    /\ posted \in Seq(Queued)
    /\ queryActive \in BOOLEAN /\ alive \in BOOLEAN /\ hasty \in BOOLEAN
    /\ finished \subseteq Runs /\ bounds \in Bounds

(* They are those of TypeOK.                                                *)
LEMMA TypesAreTypeOK == Types <=> TypeOK
BY DEF Types, TypeOK, Places, Thread, Snapshots, GuiPlaces, GuiThread, Queued, Bounds

-----------------------------------------------------------------------------
(* The types of what the actions are made of.                               *)
LEMMA Numbers ==
  /\ MaxRuns \in Nat /\ MaxBatches \in Nat /\ MaxBatches # 0 /\ MaxEvents \in Nat
  /\ 0 \in 0..MaxBatches /\ \A r \in Runs : r \in Nat /\ r >= 1 /\ r <= MaxRuns
BY OdbcAssumption DEF Runs

(* A move of one thread.                                                    *)
LEMMA ThreadTypes ==
  ASSUME Types, NEW r \in Runs
  PROVE  /\ worker[r] \in Thread
         /\ \A w \in Thread : [worker EXCEPT ![r] = w] \in [Runs -> Thread]
         /\ \A p \in Places : [worker[r] EXCEPT !.at = p] \in Thread
         /\ \A p \in Places : [worker EXCEPT ![r].at = p] \in [Runs -> Thread]
         /\ worker[r].at \in Places /\ worker[r].left \in 0..MaxBatches
         /\ worker[r].table \in BOOLEAN /\ worker[r].interrupted \in BOOLEAN
<1>1. worker[r] \in Thread /\ \A w \in Thread : [worker EXCEPT ![r] = w] \in [Runs -> Thread]
  BY DEF Types
<1>2. \A p \in Places : [worker[r] EXCEPT !.at = p] \in Thread
  BY <1>1 DEF Thread
<1>3. \A p : [worker EXCEPT ![r].at = p] = [worker EXCEPT ![r] = [worker[r] EXCEPT !.at = p]]
  BY <1>1 DEF Types
<1>4. /\ worker[r].at \in Places /\ worker[r].left \in 0..MaxBatches
      /\ worker[r].table \in BOOLEAN /\ worker[r].interrupted \in BOOLEAN
  BY <1>1 DEF Thread
<1> QED  BY <1>1, <1>2, <1>3, <1>4

(* SQLCancel(): a thread may be interrupted, and nothing else happens to any.*)
LEMMA Interrupting ==
  ASSUME Types,
         worker' = IF hstmt \in allocated /\ InDriver(hstmt)
                   THEN [worker EXCEPT ![hstmt].interrupted = TRUE] ELSE worker
  PROVE  /\ worker' \in [Runs -> Thread]
         /\ \A r \in Runs : /\ worker'[r].at = worker[r].at /\ worker'[r].left = worker[r].left
                           /\ worker'[r].table = worker[r].table
<1>1. worker \in [Runs -> Thread] /\ allocated \subseteq Runs
  BY DEF Types
<1>2. CASE worker' = worker
  BY <1>1, <1>2
<1>3. CASE hstmt \in Runs /\ worker' = [worker EXCEPT ![hstmt].interrupted = TRUE]
  <2> DEFINE w == [worker[hstmt] EXCEPT !.interrupted = TRUE]
  <2>1. worker[hstmt] \in Thread
    BY <1>1, <1>3
  <2>2. w \in Thread /\ w.at = worker[hstmt].at /\ w.left = worker[hstmt].left /\ w.table = worker[hstmt].table
    BY <2>1 DEF Thread
  <2>3. worker' = [worker EXCEPT ![hstmt] = w]
    BY <1>1, <1>3
  <2> HIDE DEF w
  <2> QED  BY <1>1, <1>3, <2>2, <2>3
<1> QED  BY <1>1, <1>2, <1>3

(* A move of the gui thread.                                                *)
LEMMA GuiTypes ==
  ASSUME Types
  PROVE  /\ \A p \in GuiPlaces : [gui EXCEPT !.pc = p] \in GuiThread
         /\ Resting \in GuiThread
         /\ gui.pc \in GuiPlaces /\ gui.then \in {"idle", "wait"}
         /\ gui.after \in {"idle", "open", "delete"} /\ gui.snapshot \in Snapshots
         /\ \A p \in GuiPlaces : Goto(p) => gui' \in GuiThread /\ gui'.pc = p
<1>1. gui \in GuiThread
  BY DEF Types
<1>2. /\ \A p \in GuiPlaces : [gui EXCEPT !.pc = p] \in GuiThread
      /\ gui.pc \in GuiPlaces /\ gui.then \in {"idle", "wait"}
      /\ gui.after \in {"idle", "open", "delete"} /\ gui.snapshot \in Snapshots
  BY <1>1 DEF GuiThread
<1>3. Resting \in GuiThread /\ Resting.pc = "idle"
  BY DEF Resting, GuiThread, GuiPlaces, Snapshots
<1>4. \A p \in GuiPlaces : [gui EXCEPT !.pc = p].pc = p
  BY <1>1 DEF GuiThread
<1>5. \A p \in GuiPlaces : Goto(p) => gui' \in GuiThread /\ gui'.pc = p
  BY <1>2, <1>3, <1>4 DEF Goto
<1> QED  BY <1>2, <1>3, <1>5

(* What is posted.                                                          *)
LEMMA PostTypes ==
  ASSUME Types, NEW signal \in Queued
  PROVE  Post(signal) \in Seq(Queued)
BY DEF Types, Post

(* What is posted is well typed.                                            *)
LEMMA SignalTypes ==
  ASSUME NEW s \in Signals, NEW r \in Runs, NEW n \in 0..MaxBatches
  PROVE  /\ Signal(s, r) \in Queued
         /\ [signal |-> s, run |-> r, batch |-> n] \in Queued
BY Numbers DEF Signal, Queued

(* A write of the state.                                                    *)
LEMMA StateTypes ==
  ASSUME Types, NEW r \in Runs, NEW s \in States, SetQueryState(s, r)
  PROVE  queryState' \in States /\ posted' \in Seq(Queued)
<1>1. "Inactive" \in Signals
  BY DEF Signals
<1>2. Signal("Inactive", r) \in Queued
  BY <1>1, Numbers, SignalTypes
<1>3. Post(Signal("Inactive", r)) \in Seq(Queued) /\ posted \in Seq(Queued)
  BY <1>2, PostTypes DEF Types
<1> QED  BY <1>3 DEF SetQueryState

(* Opening and closing the link.                                            *)
LEMMA LinkTypes ==
  ASSUME Types, Open \/ CloseLocked
  PROVE  opened' \in BOOLEAN /\ link' \in {"none", "up", "dead"} /\ allocated' \subseteq Runs
BY DEF Types, Open, CloseLocked

(* What is left of the bounds.                                              *)
LEMMA BoundTypes ==
  ASSUME Types
  PROVE  /\ bounds.runs \in 0..MaxRuns /\ bounds.events \in 0..MaxEvents
         /\ bounds.runs > 0 => [bounds EXCEPT !.runs = @ - 1] \in Bounds
         /\ bounds.events > 0 => [bounds EXCEPT !.events = @ - 1] \in Bounds
<1>1. bounds \in Bounds
  BY DEF Types
<1>2. bounds.runs \in 0..MaxRuns /\ bounds.events \in 0..MaxEvents
  BY <1>1 DEF Bounds
<1>3. ASSUME bounds.runs > 0
      PROVE  [bounds EXCEPT !.runs = @ - 1] \in Bounds
  <2>1. bounds.runs - 1 \in 0..MaxRuns
    BY <1>2, <1>3, Numbers
  <2> QED  BY <1>1, <2>1 DEF Bounds
<1>4. ASSUME bounds.events > 0
      PROVE  [bounds EXCEPT !.events = @ - 1] \in Bounds
  <2>1. bounds.events - 1 \in 0..MaxEvents
    BY <1>2, <1>4, Numbers
  <2> QED  BY <1>1, <2>1 DEF Bounds
<1> QED  BY <1>2, <1>3, <1>4

-----------------------------------------------------------------------------
(* Every step keeps the types.                                              *)
LEMMA UserKeepsTypes ==
  ASSUME Types, User \/ LinkDies
  PROVE  Types'
<1>1. /\ UNCHANGED <<queryState, opened, allocated, hstmt, worker, queryThread, resultsets, posted, tab>>
      /\ bounds' \in Bounds /\ link' \in {"none", "up", "dead"}
  BY BoundTypes DEF User, ExecuteQuery, StopExecution, SwitchDatabase, CloseTab, LinkDies, handles, Types
<1>2. CASE ExecuteQuery \/ LinkDies
  <2>1. Goto("execute") \/ gui' = gui
    BY <1>2 DEF ExecuteQuery, LinkDies
  <2>2. "execute" \in GuiPlaces
    BY DEF GuiPlaces
  <2>3. gui' \in GuiThread
    BY <2>1, <2>2, GuiTypes DEF Types
  <2> QED  BY <1>1, <2>3 DEF Types, tab
<1>3. CASE StopExecution \/ SwitchDatabase \/ CloseTab
  <2>1. gui \in GuiThread
    BY DEF Types
  <2>2. gui' \in GuiThread
    BY <1>3, <2>1 DEF StopExecution, SwitchDatabase, CloseTab, GuiThread, GuiPlaces
  <2> QED  BY <1>1, <2>2 DEF Types, tab
<1> QED  BY <1>2, <1>3 DEF User

(* The gui thread keeps the types.                                          *)
LEMMA GuiKeepsTypes ==
  ASSUME Types, Gui
  PROVE  Types'
<1>1. {"idle", "wait", "cancel", "SQLCancel", "disconnect", "open", "delete", "report"} \subseteq GuiPlaces
  BY DEF GuiPlaces
<1>2. gui.then \in GuiPlaces /\ gui.after \in GuiPlaces
  BY GuiTypes DEF GuiPlaces
<1>3. \A p \in GuiPlaces : Goto(p) => gui' \in GuiThread
  BY GuiTypes
<1>4. CASE ExecuteAsync
  <2>1. UNCHANGED <<queryState, opened, link, allocated, hstmt, resultsets, posted, alive, finished, bounds>>
    BY <1>4 DEF ExecuteAsync, handles
  <2>2. gui' \in GuiThread
    BY <1>1, <1>3, <1>4 DEF ExecuteAsync
  <2>3. queryActive' \in BOOLEAN /\ hasty' \in BOOLEAN
    BY <1>4 DEF ExecuteAsync, Types
  <2>4. worker' \in [Runs -> Thread] /\ queryThread' \in Runs \cup {None}
    <3> DEFINE run == MaxRuns - bounds.runs
    <3>1. run \in Runs \/ run = 0
      BY BoundTypes, Numbers DEF Runs
    <3>2. CASE queryState # "Inactive"
      BY <1>4, <3>2 DEF ExecuteAsync, Types
    <3>3. CASE queryState = "Inactive"
      <4>1. worker' = [worker EXCEPT ![run].at = "starting"] /\ queryThread' = run
        BY <1>4, <3>3 DEF ExecuteAsync
      <4>2. CASE run \in Runs
        BY <4>1, <4>2, ThreadTypes DEF Places
      <4>3. CASE run = 0
        <5>1. run \notin Runs
          BY <4>3 DEF Runs
        <5>2. worker' = worker
          BY <4>1, <5>1 DEF Types
        <5> QED  BY <4>1, <4>3, <5>2 DEF Types, None
      <4> QED  BY <3>1, <4>2, <4>3
    <3> QED  BY <3>2, <3>3
  <2> QED  BY <2>1, <2>2, <2>3, <2>4 DEF Types
<1>5. CASE Cancel \/ Waited \/ WaitAgain
  <2>1. UNCHANGED <<handles, hstmt, worker, queryThread, resultsets, posted, tab, bounds>>
    BY <1>5 DEF Cancel, Waited, WaitAgain
  <2>2. gui' \in GuiThread
    BY <1>1, <1>2, <1>3, <1>5 DEF Cancel, Waited, WaitAgain
  <2>3. queryState' \in States
    BY <1>5 DEF Cancel, Waited, WaitAgain, Types, States
  <2> QED  BY <2>1, <2>2, <2>3 DEF Types, handles, tab
<1>6. CASE Close
  <2>1. UNCHANGED <<queryState, handles, hstmt, worker, queryThread, resultsets, posted, tab, bounds>>
    BY <1>6 DEF Close
  <2>2. gui' \in GuiThread
    BY <1>6 DEF Close, Types, GuiThread, GuiPlaces
  <2> QED  BY <2>1, <2>2 DEF Types, handles, tab
<1>7. CASE SQLCancel
  <2>1. UNCHANGED <<queryState, handles, hstmt, queryThread, resultsets, posted, tab, bounds>>
    BY <1>7 DEF SQLCancel
  <2>2. gui' \in GuiThread
    BY <1>2, <1>3, <1>7 DEF SQLCancel
  <2>3. worker' \in [Runs -> Thread]
    BY <1>7, Interrupting DEF SQLCancel
  <2> QED  BY <2>1, <2>2, <2>3 DEF Types, handles, tab
<1>8. CASE Disconnect
  <2>1. UNCHANGED <<queryState, hstmt, worker, queryThread, resultsets, posted, tab, bounds>>
    BY <1>8 DEF Disconnect, CloseLocked
  <2>2. gui' \in GuiThread
    BY <1>2, <1>3, <1>8 DEF Disconnect
  <2>3. opened' \in BOOLEAN /\ link' \in {"none", "up", "dead"} /\ allocated' \subseteq Runs
    BY <1>8, LinkTypes DEF Disconnect
  <2> QED  BY <2>1, <2>2, <2>3 DEF Types, tab
<1>9. CASE SwitchOpen
  <2>1. UNCHANGED <<queryState, hstmt, worker, queryThread, resultsets, posted, tab, bounds>>
    BY <1>9 DEF SwitchOpen
  <2>2. gui' \in GuiThread
    BY <1>1, <1>3, <1>9 DEF SwitchOpen
  <2>3. opened' \in BOOLEAN /\ link' \in {"none", "up", "dead"} /\ allocated' \subseteq Runs
    BY <1>9, LinkTypes DEF SwitchOpen
  <2> QED  BY <2>1, <2>2, <2>3 DEF Types, tab
<1>10. CASE Delete
  <2>1. /\ UNCHANGED <<queryState, handles, hstmt, worker, queryActive, finished, hasty, bounds>>
        /\ alive' = FALSE /\ posted' = <<>> /\ resultsets' = {} /\ queryThread' = None
    BY <1>10 DEF Delete
  <2>2. gui' \in GuiThread
    BY <1>1, <1>3, <1>10 DEF Delete
  <2>3. posted' \in Seq(Queued)
    BY <2>1
  <2>4. resultsets' \in Snapshots
    BY <2>1 DEF Snapshots
  <2> QED  BY <2>1, <2>2, <2>3, <2>4 DEF Types, handles
<1>11. CASE QueryStateChanged \/ Fetched \/ ThreadFinished \/ QueryFinished
  <2>1. /\ UNCHANGED <<queryState, handles, hstmt, worker, resultsets, alive, hasty, bounds>>
        /\ posted # <<>> /\ posted \in Seq(Queued)
    BY <1>11 DEF QueryStateChanged, Fetched, ThreadFinished, QueryFinished, Deliver, Types
  <2>2. Tail(posted) \in Seq(Queued) /\ Head(posted) \in Queued
    BY <2>1
  <2>3. Head(posted).run \in Runs
    BY <2>2 DEF Queued
  <2>4. "queryFinished" \in Signals
    BY DEF Signals
  <2>5. Signal("queryFinished", Head(posted).run) \in Queued
    BY <2>3, <2>4, Numbers, SignalTypes
  <2>6. posted' \in Seq(Queued)
    <3>1. posted' = Tail(posted) \/ posted' = Append(Tail(posted), Signal("queryFinished", Head(posted).run))
      BY <1>11 DEF QueryStateChanged, Fetched, ThreadFinished, QueryFinished
    <3> QED  BY <2>2, <2>5, <3>1
  <2>7. /\ queryActive' \in BOOLEAN /\ finished' \subseteq Runs
        /\ queryThread' \in Runs \cup {None}
    BY <1>11, <2>3 DEF QueryStateChanged, Fetched, ThreadFinished, QueryFinished, Types
  <2>8. gui' \in GuiThread
    <3>1. CASE QueryFinished
      <4>1. gui' = [gui EXCEPT !.pc = "report", !.snapshot = resultsets]
        BY <3>1 DEF QueryFinished
      <4> QED  BY <4>1 DEF Types, GuiThread, GuiPlaces
    <3> QED  BY <1>11, <3>1 DEF QueryStateChanged, Fetched, ThreadFinished, Types
  <2> QED  BY <2>1, <2>6, <2>7, <2>8 DEF Types, handles
<1>12. CASE QueryReported
  <2>1. UNCHANGED <<queryState, handles, hstmt, worker, queryThread, resultsets, posted, tab, bounds>>
    BY <1>12 DEF QueryReported
  <2>2. gui' \in GuiThread
    BY <1>1, <1>3, <1>12 DEF QueryReported
  <2> QED  BY <2>1, <2>2 DEF Types, handles, tab
<1> QED  BY <1>4, <1>5, <1>6, <1>7, <1>8, <1>9, <1>10, <1>11, <1>12 DEF Gui

(* So does a run's thread, of its own accord.                               *)
LEMMA OwnKeepsTypes ==
  ASSUME Types, NEW r \in Runs, Own(r)
  PROVE  Types'
<1>1. /\ worker[r].at \in Places /\ worker[r].left \in 0..MaxBatches /\ worker[r] \in Thread
      /\ \A p \in Places : [worker EXCEPT ![r].at = p] \in [Runs -> Thread]
      /\ \A w \in Thread : [worker EXCEPT ![r] = w] \in [Runs -> Thread]
  BY ThreadTypes
<1>2. {"clear", "open", "allocate", "publish", "end", "quit", "gone", "fetch", "next", "free"} \subseteq Places
  BY DEF Places
<1>3. {"Running", "Inactive"} \subseteq States /\ {"Inactive", "thread finished"} \subseteq Signals
  BY DEF States, Signals
<1>4. \A p, q \in Places : Step(r, p, q)
         => worker' \in [Runs -> Thread] /\ UNCHANGED <<hstmt, queryThread, gui, tab, bounds>>
  BY <1>1 DEF Step
<1>5. CASE Begin(r) \/ End(r)
  <2>1. /\ UNCHANGED <<handles, resultsets, hstmt, queryThread, gui, tab, bounds>>
        /\ worker' \in [Runs -> Thread]
    BY <1>1, <1>2, <1>5 DEF Begin, End, Step
  <2>2. queryState' \in States /\ posted' \in Seq(Queued)
    BY <1>3, <1>5, StateTypes DEF Begin, End
  <2> QED  BY <2>1, <2>2 DEF Types, handles, tab
<1>6. CASE ClearResultsets(r)
  <2>1. /\ UNCHANGED <<handles, queryState, posted, hstmt, queryThread, gui, tab, bounds>>
        /\ worker' \in [Runs -> Thread]
    BY <1>1, <1>2, <1>6 DEF ClearResultsets, Step
  <2>2. resultsets' \in Snapshots
    BY <1>6 DEF ClearResultsets, Snapshots
  <2> QED  BY <2>1, <2>2 DEF Types, handles, tab
<1>7. CASE OpenLink(r)
  <2>1. /\ UNCHANGED <<resultsets, queryState, posted, hstmt, queryThread, gui, tab, bounds>>
        /\ worker' \in [Runs -> Thread]
    BY <1>1, <1>2, <1>7 DEF OpenLink, Step
  <2>2. opened' \in BOOLEAN /\ link' \in {"none", "up", "dead"} /\ allocated' \subseteq Runs
    BY <1>7, LinkTypes DEF OpenLink
  <2> QED  BY <2>1, <2>2 DEF Types, tab
<1>8. CASE Allocate(r)
  <2>1. /\ UNCHANGED <<queryState, opened, link, resultsets, posted, hstmt, queryThread, gui, tab, bounds>>
        /\ worker' \in [Runs -> Thread]
    BY <1>1, <1>2, <1>8 DEF Allocate, Step
  <2>2. allocated' \subseteq Runs
    BY <1>8 DEF Allocate, Types
  <2> QED  BY <2>1, <2>2 DEF Types, tab
<1>9. CASE Publish(r)
  <2>1. /\ UNCHANGED <<queryState, handles, queryThread, resultsets, gui, posted, tab, bounds>>
        /\ hstmt' = r
    BY <1>9 DEF Publish
  <2>2. PICK n \in 0..MaxBatches : worker' = [worker EXCEPT ![r].at = "next", ![r].left = n]
    BY <1>9 DEF Publish
  <2>3. [worker[r] EXCEPT !.at = "next", !.left = n] \in Thread
    BY <1>1, <1>2 DEF Thread
  <2>4. worker' = [worker EXCEPT ![r] = [worker[r] EXCEPT !.at = "next", !.left = n]]
    BY <1>1, <2>2 DEF Types
  <2>5. worker' \in [Runs -> Thread]
    BY <1>1, <2>3, <2>4
  <2> QED  BY <2>1, <2>5 DEF Types, handles, tab
<1>10. CASE NextBatch(r)
  <2>1. UNCHANGED <<queryState, handles, hstmt, queryThread, resultsets, gui, posted, tab, bounds>>
    BY <1>10 DEF NextBatch
  <2>2. worker' \in [Runs -> Thread]
    <3>1. CASE worker[r].left = 0
      BY <1>1, <1>2, <1>10, <3>1 DEF NextBatch
    <3>2. CASE worker[r].left # 0
      <4> DEFINE w == [worker[r] EXCEPT !.at = "exec", !.left = worker[r].left - 1, !.interrupted = FALSE]
      <4>1. worker[r].left - 1 \in 0..MaxBatches /\ "exec" \in Places
        BY <1>1, <3>2, Numbers DEF Places
      <4>2. w \in Thread
        BY <1>1, <4>1 DEF Thread
      <4>3. worker' = [worker EXCEPT ![r] = w]
        BY <1>1, <1>10, <3>2 DEF NextBatch, Types
      <4> QED  BY <1>1, <4>2, <4>3
    <3> QED  BY <3>1, <3>2
  <2> QED  BY <2>1, <2>2 DEF Types, handles, tab
<1>11. CASE Reopen(r)
  <2>1. UNCHANGED <<queryState, hstmt, queryThread, resultsets, gui, posted, tab, bounds>>
    BY <1>11 DEF Reopen
  <2>2. worker' \in [Runs -> Thread]
    BY <1>1, <1>2, <1>11 DEF Reopen
  <2>3. opened' \in BOOLEAN /\ link' \in {"none", "up", "dead"} /\ allocated' \subseteq Runs
    BY <1>11, LinkTypes DEF Reopen
  <2> QED  BY <2>1, <2>2, <2>3 DEF Types, tab
<1>12. CASE FreeStatement(r)
  <2>1. /\ UNCHANGED <<queryState, opened, link, queryThread, resultsets, gui, posted, tab, bounds>>
        /\ hstmt' = None /\ allocated' = allocated \ {r}
        /\ worker' = [worker EXCEPT ![r] = [NoWorker EXCEPT !.at = "end"]]
    BY <1>12 DEF FreeStatement
  <2>2. [NoWorker EXCEPT !.at = "end"] \in Thread
    BY <1>2, Numbers DEF NoWorker, Thread
  <2>3. worker' \in [Runs -> Thread]
    BY <1>1, <2>1, <2>2
  <2> QED  BY <2>1, <2>3 DEF Types, tab
<1>13. CASE Quit(r)
  <2>1. /\ UNCHANGED <<handles, resultsets, queryState, hstmt, queryThread, gui, tab, bounds>>
        /\ worker' \in [Runs -> Thread]
    BY <1>1, <1>2, <1>13 DEF Quit, Step
  <2>2. Signal("thread finished", r) \in Queued
    BY <1>3, Numbers, SignalTypes
  <2>3. posted' \in Seq(Queued)
    BY <1>13, <2>2, PostTypes DEF Quit
  <2> QED  BY <2>1, <2>3 DEF Types, handles, tab
<1> QED  BY <1>5, <1>6, <1>7, <1>8, <1>9, <1>10, <1>11, <1>12, <1>13 DEF Own

(* And as the driver returns.                                               *)
LEMMA DriverKeepsTypes ==
  ASSUME Types, NEW r \in Runs, Driver(r)
  PROVE  Types'
<1>1. /\ worker[r].at \in Places /\ worker[r].left \in 0..MaxBatches /\ worker[r] \in Thread
      /\ \A p \in Places : [worker EXCEPT ![r].at = p] \in [Runs -> Thread]
      /\ \A w \in Thread : [worker EXCEPT ![r] = w] \in [Runs -> Thread]
  BY ThreadTypes
<1>2. {"next", "free", "fetch", "reopen"} \subseteq Places /\ "fetched" \in Signals
  BY DEF Places, Signals
<1>3. \A p \in Places, b \in BOOLEAN : [worker EXCEPT ![r].at = p, ![r].table = b] \in [Runs -> Thread]
  <2> SUFFICES ASSUME NEW p \in Places, NEW b \in BOOLEAN
               PROVE  [worker EXCEPT ![r].at = p, ![r].table = b] \in [Runs -> Thread]
    OBVIOUS
  <2>1. [worker[r] EXCEPT !.at = p, !.table = b] \in Thread
    BY <1>1 DEF Thread
  <2>2. [worker EXCEPT ![r].at = p, ![r].table = b]
           = [worker EXCEPT ![r] = [worker[r] EXCEPT !.at = p, !.table = b]]
    BY DEF Types
  <2> QED  BY <1>1, <2>1, <2>2
<1>4. Announce(r) \in Seq(Queued)
  BY <1>1, <1>2, PostTypes, SignalTypes DEF Announce
<1>5. CASE Exec(r)
  <2>1. worker' \in [Runs -> Thread]
    BY <1>1, <1>2, <1>5 DEF Exec, Step
  <2> QED  BY <1>5, <2>1 DEF Exec, Step, Types, handles, tab
<1>6. CASE Resultset(r)
  <2>1. UNCHANGED <<queryState, handles, hstmt, queryThread, gui, posted, tab, bounds>>
    BY <1>6 DEF Resultset
  <2>2. worker' \in [Runs -> Thread]
    BY <1>2, <1>3, <1>6 DEF Resultset
  <2>3. Table(r) \in TableSet
    BY <1>1 DEF Table, TableSet
  <2>4. resultsets' \in Snapshots
    BY <1>6, <2>3 DEF Resultset, Types, Snapshots
  <2> QED  BY <2>1, <2>2, <2>4 DEF Types, handles, tab
<1>7. CASE FetchRows(r) \/ FetchEnds(r) \/ FetchFails(r)
  <2>1. UNCHANGED <<queryState, handles, hstmt, queryThread, resultsets, gui, tab, bounds>>
    BY <1>7 DEF FetchRows, FetchEnds, FetchFails
  <2>2. worker' \in [Runs -> Thread]
    <3>1. CASE FetchRows(r)
      BY <3>1 DEF FetchRows, Types
    <3>2. CASE FetchEnds(r)
      BY <1>2, <1>3, <3>2 DEF FetchEnds
    <3>3. CASE FetchFails(r)
      BY <1>2, <1>3, <3>3 DEF FetchFails
    <3> QED  BY <1>7, <3>1, <3>2, <3>3
  <2>3. posted' \in Seq(Queued)
    BY <1>4, <1>7 DEF FetchRows, FetchEnds, FetchFails, Types
  <2> QED  BY <2>1, <2>2, <2>3 DEF Types, handles, tab
<1>8. CASE LinkLost(r)
  <2>1. UNCHANGED <<queryState, hstmt, queryThread, resultsets, gui, posted, tab, bounds>>
    BY <1>8 DEF LinkLost, CloseLocked
  <2>2. worker' \in [Runs -> Thread]
    BY <1>1, <1>2, <1>8 DEF LinkLost
  <2>3. opened' \in BOOLEAN /\ link' \in {"none", "up", "dead"} /\ allocated' \subseteq Runs
    BY <1>8, LinkTypes DEF LinkLost
  <2> QED  BY <2>1, <2>2, <2>3 DEF Types, tab
<1> QED  BY <1>5, <1>6, <1>7, <1>8 DEF Driver

(* A tab starts with its types.                                             *)
LEMMA InitTypes ==
  ASSUME Init
  PROVE  Types
<1>1. NoWorker \in Thread
  BY Numbers DEF NoWorker, Thread, Places
<1>2. worker \in [Runs -> Thread]
  BY <1>1 DEF Init
<1>3. gui \in GuiThread
  BY DEF Init, Resting, GuiThread, GuiPlaces, Snapshots
<1>4. posted \in Seq(Queued)
  BY DEF Init
<1>5. bounds \in Bounds
  BY Numbers DEF Init, Bounds
<1>6. resultsets \in Snapshots
  BY DEF Init, Snapshots
<1> QED  BY <1>2, <1>3, <1>4, <1>5, <1>6 DEF Init, Types, States

(* Every step of any thread keeps the types.                                *)
LEMMA NextKeepsTypes ==
  ASSUME Types, [Next]_vars
  PROVE  Types'
<1>1. CASE UNCHANGED vars
  BY <1>1 DEF vars, handles, tab, Types
<1>2. CASE Next
  BY <1>2, UserKeepsTypes, GuiKeepsTypes, OwnKeepsTypes, DriverKeepsTypes DEF Next
<1> QED  BY <1>1, <1>2

(* Every reachable state has its types.                                     *)
THEOREM TypeCorrect == Spec => []TypeOK
<1>1. Spec => []Types
  BY InitTypes, NextKeepsTypes, PTL DEF Spec
<1> QED  BY <1>1, TypesAreTypeOK, PTL

-----------------------------------------------------------------------------
(* The invariant behind the safety properties, while no run is started      *)
(* between the start of the last one's thread and its first step.           *)
Active(r) == worker[r].at \notin {"none", "quit", "gone"}
Holding(r) == worker[r].at \in {"next", "exec", "fetch", "reopen", "free"}

(* The state says whether a thread is inside execute(), of which there is   *)
(* one at most, the thread the connection tracks.                           *)
OneActive == \A r, s \in Runs : Active(r) /\ Active(s) => r = s
BusyIsExecuting == queryState # "Inactive" <=> \E r \in Runs : Executing(r)
ActiveIsTracked == \A r \in Runs : Active(r) => queryThread = r

(* What the end of a thread leads to is about a thread that has ended.      *)
EndsAreTrue ==
    \A i \in DOMAIN posted :
       posted[i].signal = "thread finished" => worker[posted[i].run].at = "gone"

(* The statement cancel() sees is that of the thread which has one.         *)
HandleIsHeld == \A r \in Runs : Holding(r) <=> hstmt = r
CancelHasStatement == gui.pc = "SQLCancel" => hstmt # None

(* A run about to be started has no thread yet, and no other is starting.   *)
StartsFresh ==
    /\ \A r \in Runs : r > MaxRuns - bounds.runs => worker[r].at = "none"
    /\ gui.pc = "execute" =>
         /\ bounds.runs < MaxRuns /\ worker[MaxRuns - bounds.runs].at = "none"
         /\ \A r \in Runs : worker[r].at # "starting"

(* What takes the connection down has waited, and nothing follows it.       *)
TakenDownAlone ==
    /\ gui.pc \in {"disconnect", "open", "delete"} \/ ~alive => \A r \in Runs : ~Active(r)
    /\ ~alive => gui.pc = "idle"

AloneInv ==
    /\ Types /\ OneActive /\ BusyIsExecuting /\ ActiveIsTracked /\ EndsAreTrue
    /\ HandleIsHeld /\ CancelHasStatement /\ StartsFresh /\ TakenDownAlone

(* No end of a thread is posted.                                            *)
PostsNoEnd ==
    \A i \in DOMAIN posted' :
       posted'[i].signal = "thread finished" => \E j \in DOMAIN posted : posted[j] = posted'[i]

(* The ends and the elements of a queue.                                    *)
LEMMA QueueElements ==
  ASSUME NEW S, NEW q \in Seq(S)
  PROVE  /\ \A i \in DOMAIN q : q[i] \in S
         /\ q # <<>> => /\ Head(q) = q[1] /\ 1 \in DOMAIN q /\ Tail(q) \in Seq(S)
                        /\ \A i \in DOMAIN Tail(q) : i + 1 \in DOMAIN q /\ Tail(q)[i] = q[i + 1]
OBVIOUS

(* What follows an append.                                                  *)
LEMMA Appended ==
  ASSUME posted \in Seq(Queued), NEW e \in Queued, posted' = Append(posted, e)
  PROVE  \A i \in DOMAIN posted' : (i \in DOMAIN posted /\ posted'[i] = posted[i]) \/ posted'[i] = e
OBVIOUS

(* What is posted comes last.                                               *)
LEMMA Posting ==
  ASSUME Types, NEW signal \in Queued, signal.signal # "thread finished",
         posted' = posted \/ posted' = Append(posted, signal)
  PROVE  PostsNoEnd
<1>1. posted \in Seq(Queued)
  BY DEF Types
<1>2. CASE posted' = posted
  BY <1>2 DEF PostsNoEnd
<1>3. CASE posted' = Append(posted, signal)
  <2>1. \A i \in DOMAIN posted' : (i \in DOMAIN posted /\ posted'[i] = posted[i]) \/ posted'[i] = signal
    BY <1>1, <1>3, Appended
  <2> QED  BY <2>1 DEF PostsNoEnd
<1> QED  BY <1>2, <1>3

(* Whatever is queued is about a run.                                       *)
LEMMA QueuedRuns ==
  ASSUME Types
  PROVE  \A i \in DOMAIN posted : posted[i] \in Queued /\ posted[i].run \in Runs
<1>1. posted \in Seq(Queued)
  BY DEF Types
<1>2. \A i \in DOMAIN posted : posted[i] \in Queued
  BY <1>1
<1>3. \A q \in Queued : q.run \in Runs
  BY DEF Queued
<1> QED  BY <1>2, <1>3

(* The gui thread moves, and no thread of a run does.                       *)
LEMMA GuiMoves ==
  ASSUME AloneInv, Types', \A r \in Runs : worker'[r].at = worker[r].at,
         hstmt' = hstmt, bounds'.runs = bounds.runs, PostsNoEnd,
         queryState' # "Inactive" <=> queryState # "Inactive",
         \A r \in Runs : Active(r) => queryThread' = r,
         gui'.pc = "SQLCancel" => hstmt # None,
         gui'.pc = "execute" => gui.pc = "execute",
         gui'.pc \in {"disconnect", "open", "delete"} \/ ~alive' => \A r \in Runs : ~Active(r),
         ~alive' => gui'.pc = "idle"
  PROVE  AloneInv'
<1>1. \A r \in Runs : /\ Active(r)' <=> Active(r)
                      /\ Executing(r)' <=> Executing(r)
                      /\ Holding(r)' <=> Holding(r)
  BY DEF Active, Executing, Holding
<1>2. OneActive'
  BY <1>1 DEF AloneInv, OneActive
<1>3. BusyIsExecuting'
  BY <1>1 DEF AloneInv, BusyIsExecuting
<1>4. ActiveIsTracked'
  BY <1>1 DEF ActiveIsTracked
<1>5. EndsAreTrue'
  <2> SUFFICES ASSUME NEW i \in DOMAIN posted', posted'[i].signal = "thread finished"
               PROVE  worker'[posted'[i].run].at = "gone"
    BY DEF EndsAreTrue
  <2>1. PICK j \in DOMAIN posted : posted[j] = posted'[i]
    BY DEF PostsNoEnd
  <2>2. posted[j].run \in Runs
    BY <2>1, QueuedRuns DEF AloneInv
  <2>3. worker[posted[j].run].at = "gone"
    BY <2>1 DEF AloneInv, EndsAreTrue
  <2> QED  BY <2>1, <2>2, <2>3
<1>6. HandleIsHeld' /\ CancelHasStatement'
  BY <1>1 DEF AloneInv, HandleIsHeld, CancelHasStatement
<1>7. StartsFresh'
  <2>1. gui'.pc = "execute" => MaxRuns - bounds.runs \in Runs
    BY Numbers, BoundTypes DEF AloneInv, StartsFresh, Runs
  <2> QED  BY <2>1 DEF AloneInv, StartsFresh
<1>8. TakenDownAlone'
  BY <1>1 DEF TakenDownAlone
<1> QED  BY <1>2, <1>3, <1>4, <1>5, <1>6, <1>7, <1>8 DEF AloneInv

(* The thread that is inside execute(), or about to be, moves.              *)
LEMMA ThreadMoves ==
  ASSUME AloneInv, Types', NEW r \in Runs, Active(r),
         \A s \in Runs : s # r => worker'[s] = worker[s],
         worker'[r].at \notin {"none", "starting", "gone"},
         queryState' # "Inactive" <=> Executing(r)',
         hstmt' = IF Holding(r)' THEN r ELSE None,
         gui.pc = "SQLCancel" => hstmt' = hstmt,
         PostsNoEnd, UNCHANGED <<queryThread, gui, alive, bounds>>
  PROVE  AloneInv'
<1>1. \A s \in Runs : s # r => /\ ~Active(s) /\ worker'[s] = worker[s]
                               /\ ~Executing(s) /\ ~Holding(s) /\ worker[s].at # "starting"
  BY DEF AloneInv, OneActive, Active, Executing, Holding
<1>2. \A s \in Runs : s # r => ~Active(s)' /\ ~Executing(s)' /\ ~Holding(s)'
  BY <1>1 DEF Active, Executing, Holding
<1>3. OneActive'
  BY <1>2 DEF OneActive
<1>4. BusyIsExecuting'
  BY <1>2 DEF BusyIsExecuting
<1>5. ActiveIsTracked'
  BY <1>2 DEF AloneInv, ActiveIsTracked
<1>6. EndsAreTrue'
  <2> SUFFICES ASSUME NEW i \in DOMAIN posted', posted'[i].signal = "thread finished"
               PROVE  worker'[posted'[i].run].at = "gone"
    BY DEF EndsAreTrue
  <2>1. PICK j \in DOMAIN posted : posted[j] = posted'[i]
    BY DEF PostsNoEnd
  <2>2. posted[j].run \in Runs
    BY <2>1, QueuedRuns DEF AloneInv
  <2>3. worker[posted[j].run].at = "gone"
    BY <2>1 DEF AloneInv, EndsAreTrue
  <2>4. posted[j].run # r
    BY <2>3 DEF Active
  <2> QED  BY <1>1, <2>1, <2>2, <2>3, <2>4
<1>7. HandleIsHeld' /\ CancelHasStatement'
  <2>1. \A s \in Runs : s # None
    BY Numbers DEF None
  <2>2. \A s \in Runs : Holding(s)' <=> hstmt' = s
    BY <1>2, <2>1
  <2> QED  BY <2>2 DEF AloneInv, HandleIsHeld, CancelHasStatement
<1>8. StartsFresh'
  <2>1. worker[r].at # "none"
    BY DEF Active
  <2>2. \A s \in Runs : s > MaxRuns - bounds.runs => worker'[s].at = "none"
    BY <1>1, <2>1 DEF AloneInv, StartsFresh
  <2>3. gui.pc = "execute" => /\ MaxRuns - bounds.runs \in Runs
                             /\ MaxRuns - bounds.runs # r
    BY <2>1, Numbers, BoundTypes DEF AloneInv, StartsFresh, Runs
  <2> QED  BY <1>1, <2>2, <2>3 DEF AloneInv, StartsFresh
<1>9. TakenDownAlone'
  BY DEF AloneInv, TakenDownAlone
<1> QED  BY <1>3, <1>4, <1>5, <1>6, <1>7, <1>8, <1>9 DEF AloneInv

-----------------------------------------------------------------------------
(* Nothing is taken down while a run is active, as long as no step leads to *)
(* taking it down.                                                          *)
LEMMA StaysUp ==
  ASSUME AloneInv, gui'.pc \notin {"disconnect", "open", "delete"}, alive' = alive, alive
  PROVE  /\ gui'.pc \in {"disconnect", "open", "delete"} \/ ~alive' => \A r \in Runs : ~Active(r)
         /\ ~alive' => gui'.pc = "idle"
OBVIOUS

(* A tab that is not idle is alive.                                         *)
LEMMA BusyIsAlive ==
  ASSUME AloneInv, gui.pc # "idle"
  PROVE  alive
BY DEF AloneInv, TakenDownAlone

(* The user, and the link that dies, keep the invariant.                    *)
LEMMA UserStep ==
  ASSUME AloneInv, User \/ LinkDies, "starting" \notin Windows
  PROVE  AloneInv'
<1>1. Types'
  BY UserKeepsTypes DEF AloneInv
<1>2. /\ UNCHANGED <<queryState, hstmt, worker, queryThread, posted, alive>>
      /\ bounds.runs \in 0..MaxRuns /\ gui \in GuiThread /\ bounds \in Bounds
  BY BoundTypes DEF AloneInv, Types, User, ExecuteQuery, StopExecution, SwitchDatabase, CloseTab,
                    LinkDies, tab
<1>3. PostsNoEnd
  BY <1>2 DEF PostsNoEnd
<1>4. CASE ExecuteQuery
  <2>1. /\ queryState = "Inactive" /\ bounds.runs > 0 /\ alive
        /\ bounds' = [bounds EXCEPT !.runs = @ - 1] /\ \A r \in Runs : worker[r].at # "starting"
    BY <1>4 DEF ExecuteQuery, Idle, InWindow
  <2>2. gui'.pc = "execute"
    BY <1>2, <1>4 DEF ExecuteQuery, Goto, GuiThread
  <2>3. bounds'.runs = bounds.runs - 1
    BY <1>2, <2>1 DEF Bounds
  <2>4. \A r \in Runs : r > MaxRuns - bounds.runs => worker[r].at = "none"
    BY DEF AloneInv, StartsFresh
  <2>5. MaxRuns - bounds'.runs \in Runs /\ MaxRuns - bounds'.runs > MaxRuns - bounds.runs
    BY <1>2, <2>1, <2>3, Numbers DEF Runs
  <2>6. \A r \in Runs : r > MaxRuns - bounds'.runs => r > MaxRuns - bounds.runs
    BY <1>2, <2>3, Numbers
  <2>7. StartsFresh'
    BY <1>2, <2>1, <2>3, <2>4, <2>5, <2>6, Numbers DEF StartsFresh
  <2>8. /\ OneActive' /\ BusyIsExecuting' /\ ActiveIsTracked' /\ EndsAreTrue'
        /\ HandleIsHeld'
    BY <1>2 DEF AloneInv, OneActive, BusyIsExecuting, ActiveIsTracked, EndsAreTrue,
                HandleIsHeld, Active, Executing, Holding
  <2>9. CancelHasStatement' /\ TakenDownAlone'
    BY <1>2, <2>1, <2>2 DEF CancelHasStatement, TakenDownAlone
  <2> QED  BY <1>1, <2>7, <2>8, <2>9 DEF AloneInv
<1>5. CASE StopExecution \/ SwitchDatabase \/ CloseTab
  <2>1. alive /\ gui'.pc \in {"cancel", "close"}
    BY <1>2, <1>5 DEF StopExecution, SwitchDatabase, CloseTab, Idle, GuiThread
  <2>2. bounds'.runs = bounds.runs
    BY <1>2, <1>5 DEF StopExecution, SwitchDatabase, CloseTab, Bounds
  <2>3. \A r \in Runs : Active(r) => queryThread' = r
    BY <1>2 DEF AloneInv, ActiveIsTracked
  <2> QED  BY <1>1, <1>2, <1>3, <2>1, <2>2, <2>3, StaysUp, GuiMoves
<1>6. CASE LinkDies
  <2>1. gui' = gui /\ bounds'.runs = bounds.runs
    BY <1>2, <1>6 DEF LinkDies, Bounds
  <2>2. \A r \in Runs : Active(r) => queryThread' = r
    BY <1>2 DEF AloneInv, ActiveIsTracked
  <2>3. /\ gui.pc = "SQLCancel" => hstmt # None
        /\ gui.pc \in {"disconnect", "open", "delete"} \/ ~alive => \A r \in Runs : ~Active(r)
        /\ ~alive => gui.pc = "idle"
    BY DEF AloneInv, CancelHasStatement, TakenDownAlone
  <2> QED  BY <1>1, <1>2, <1>3, <2>1, <2>2, <2>3, GuiMoves
<1> QED  BY <1>4, <1>5, <1>6 DEF User

(* executeAsync() tracks the thread it makes.                               *)
LEMMA ExecuteAsyncStep ==
  ASSUME AloneInv, ExecuteAsync
  PROVE  AloneInv'
<1> DEFINE run == MaxRuns - bounds.runs
<1>1. Types' /\ Types
  BY GuiKeepsTypes DEF AloneInv, Gui
<1>2. /\ UNCHANGED <<queryState, hstmt, posted, alive, bounds>> /\ alive
      /\ gui.pc = "execute" /\ gui'.pc = "idle"
  BY BusyIsAlive DEF ExecuteAsync, Goto, Resting
<1>3. /\ run \in Runs /\ worker[run].at = "none" /\ \A r \in Runs : worker[r].at # "starting"
      /\ \A r \in Runs : r > run => worker[r].at = "none"
  BY <1>1, <1>2, Numbers, BoundTypes DEF AloneInv, StartsFresh, Runs
<1>4. CASE queryState # "Inactive"
  <2>1. worker' = worker /\ queryThread' = queryThread
    BY <1>4 DEF ExecuteAsync
  <2>2. PostsNoEnd
    BY <1>2 DEF PostsNoEnd
  <2>3. \A r \in Runs : Active(r) => queryThread' = r
    BY <2>1 DEF AloneInv, ActiveIsTracked
  <2> QED  BY <1>1, <1>2, <2>1, <2>2, <2>3, StaysUp, GuiMoves
<1>5. CASE queryState = "Inactive"
  <2>1. worker' = [worker EXCEPT ![run].at = "starting"] /\ queryThread' = run
    BY <1>5 DEF ExecuteAsync
  <2> HIDE DEF run
  <2>2. worker \in [Runs -> Thread] /\ worker[run] \in Thread
    BY <1>1, <1>3 DEF Types
  <2>3. worker'[run].at = "starting" /\ \A r \in Runs : r # run => worker'[r] = worker[r]
    BY <1>3, <2>1, <2>2 DEF Thread
  <2>4. \A r \in Runs : ~Active(r)
    BY <1>3, <1>5 DEF AloneInv, BusyIsExecuting, Executing, Active
  <2>5. \A r \in Runs : /\ Active(r)' => r = run
                        /\ ~Executing(r)' /\ ~Holding(r)' /\ ~Holding(r)
    BY <2>3, <2>4 DEF Active, Executing, Holding
  <2>6. OneActive' /\ BusyIsExecuting' /\ ActiveIsTracked'
    BY <1>2, <1>5, <2>1, <2>5 DEF OneActive, BusyIsExecuting, ActiveIsTracked
  <2>7. EndsAreTrue'
    <3> SUFFICES ASSUME NEW i \in DOMAIN posted, posted[i].signal = "thread finished"
                 PROVE  worker'[posted[i].run].at = "gone"
      BY <1>2 DEF EndsAreTrue
    <3>1. worker[posted[i].run].at = "gone" /\ posted[i].run \in Runs
      BY <1>1, QueuedRuns DEF AloneInv, EndsAreTrue
    <3> QED  BY <1>3, <2>3, <3>1
  <2>8. HandleIsHeld' /\ CancelHasStatement' /\ TakenDownAlone'
    BY <1>2, <2>5 DEF AloneInv, HandleIsHeld, CancelHasStatement, TakenDownAlone
  <2>9. StartsFresh'
    <3>1. \A r \in Runs : r > run => r # run /\ worker[r].at = "none"
      BY <1>3, Numbers
    <3>2. \A r \in Runs : r > run => worker'[r].at = "none"
      BY <2>3, <3>1
    <3> QED  BY <1>2, <3>2 DEF StartsFresh, run
  <2> QED  BY <1>1, <2>6, <2>7, <2>8, <2>9 DEF AloneInv
<1> QED  BY <1>4, <1>5

(* Waiting ends when the thread that is tracked does.                       *)
LEMMA WaitedForAll ==
  ASSUME AloneInv, queryThread # None => ~Running(queryThread)
  PROVE  \A r \in Runs : ~Active(r)
<1> SUFFICES ASSUME NEW r \in Runs, Active(r)
             PROVE  FALSE
  OBVIOUS
<1>1. queryThread = r /\ r # None
  BY Numbers DEF AloneInv, ActiveIsTracked, None
<1>2. Running(r)
  BY DEF Active, Running
<1> QED  BY <1>1, <1>2

(* Every other step of the gui thread.                                      *)
LEMMA GuiStep ==
  ASSUME AloneInv, Gui
  PROVE  AloneInv'
<1>1. Types' /\ Types /\ gui \in GuiThread
  BY GuiKeepsTypes DEF AloneInv, Types
<1>2. /\ \A r \in Runs : Active(r) => queryThread = r
      /\ hstmt \in Runs \cup {None} /\ queryThread \in Runs \cup {None}
      /\ gui.pc = "SQLCancel" => hstmt # None
      /\ gui.pc \in {"disconnect", "open", "delete"} => \A r \in Runs : ~Active(r)
  BY <1>1 DEF AloneInv, ActiveIsTracked, CancelHasStatement, TakenDownAlone, Types
<1>3. /\ gui.then \in {"idle", "wait"} /\ {gui.then, gui.after} \subseteq GuiPlaces
      /\ gui.after \in {"idle", "open", "delete"}
      /\ {"idle", "wait", "cancel", "SQLCancel", "disconnect"} \subseteq GuiPlaces
  BY <1>1 DEF GuiThread, GuiPlaces
<1>4. \A p \in GuiPlaces : Goto(p) => gui'.pc = p
  BY <1>1, GuiTypes
<1>5. posted' = posted => PostsNoEnd
  BY DEF PostsNoEnd
<1>6. CASE ExecuteAsync
  BY <1>6, ExecuteAsyncStep
<1>7. CASE Cancel
  <2>1. /\ UNCHANGED <<hstmt, worker, queryThread, posted, alive, bounds>> /\ alive
        /\ queryState' # "Inactive" <=> queryState # "Inactive"
    BY <1>7, BusyIsAlive DEF Cancel, tab
  <2>2. gui'.pc \in {"idle", "wait"} \/ (gui'.pc = "SQLCancel" /\ hstmt # None)
    <3>1. CASE hstmt = None
      <4>1. Goto(gui.then) /\ gui.then \in GuiPlaces
        BY <1>3, <1>7, <3>1 DEF Cancel
      <4>2. gui'.pc = gui.then
        BY <1>4, <4>1
      <4> QED  BY <1>3, <4>2
    <3>2. CASE hstmt # None
      <4>1. Goto("SQLCancel")
        BY <1>7, <3>2 DEF Cancel
      <4> QED  BY <1>3, <1>4, <3>2, <4>1
    <3> QED  BY <3>1, <3>2
  <2> QED  BY <1>1, <1>2, <1>5, <2>1, <2>2, StaysUp, GuiMoves
<1>8. CASE SQLCancel
  <2>1. UNCHANGED <<queryState, hstmt, queryThread, posted, alive, bounds>> /\ alive
    BY <1>8, BusyIsAlive DEF SQLCancel, tab
  <2>2. gui'.pc \in {"idle", "wait"}
    BY <1>3, <1>4, <1>8 DEF SQLCancel
  <2>3. \A r \in Runs : worker'[r].at = worker[r].at
    BY <1>1, <1>8, Interrupting DEF SQLCancel
  <2> QED  BY <1>1, <1>2, <1>5, <2>1, <2>2, <2>3, StaysUp, GuiMoves
<1>9. CASE Close \/ Waited
  <2>1. UNCHANGED <<queryState, hstmt, worker, queryThread, posted, alive, bounds>> /\ alive
    BY <1>9, BusyIsAlive DEF Close, Waited, tab
  <2>2. gui'.pc = "cancel" \/ (gui'.pc = "disconnect" /\ \A r \in Runs : ~Active(r))
    <3>1. CASE Close
      <4>1. CASE queryThread # None /\ Running(queryThread)
        <5>1. gui' = [gui EXCEPT !.pc = "cancel", !.then = "wait"]
          BY <3>1, <4>1 DEF Close
        <5>2. gui \in GuiThread
          BY <1>1
        <5>3. gui'.pc = "cancel"
          BY <5>1, <5>2 DEF GuiThread
        <5> QED  BY <5>3
      <4>2. CASE ~(queryThread # None /\ Running(queryThread))
        <5>1. gui' = [gui EXCEPT !.pc = "disconnect"]
          BY <3>1, <4>2 DEF Close
        <5>2. \A r \in Runs : ~Active(r)
          BY <4>2, WaitedForAll
        <5> QED  BY <1>1, <5>1, <5>2 DEF GuiThread
      <4> QED  BY <4>1, <4>2
    <3>2. CASE Waited
      BY <1>3, <1>4, <3>2, WaitedForAll DEF Waited
    <3> QED  BY <1>9, <3>1, <3>2
  <2> QED  BY <1>1, <1>2, <1>5, <2>1, <2>2, StaysUp, GuiMoves
<1>10. CASE WaitAgain
  <2>1. UNCHANGED <<queryState, hstmt, worker, queryThread, posted, alive, bounds>> /\ alive
    BY <1>10, BusyIsAlive DEF WaitAgain, tab
  <2>2. gui'.pc = "cancel"
    BY <1>3, <1>4, <1>10 DEF WaitAgain
  <2> QED  BY <1>1, <1>2, <1>5, <2>1, <2>2, StaysUp, GuiMoves
<1>11. CASE Disconnect \/ SwitchOpen
  <2>1. /\ UNCHANGED <<queryState, hstmt, worker, queryThread, posted, alive, bounds>> /\ alive
        /\ \A r \in Runs : ~Active(r)
    BY <1>2, <1>11, BusyIsAlive DEF Disconnect, SwitchOpen, tab
  <2>2. gui'.pc \in {"idle", "open", "delete"}
    BY <1>3, <1>4, <1>11 DEF Disconnect, SwitchOpen
  <2> QED  BY <1>1, <1>2, <1>5, <2>1, <2>2, GuiMoves
<1>12. CASE Delete
  <2>1. /\ UNCHANGED <<queryState, hstmt, worker, bounds>> /\ posted' = <<>>
        /\ \A r \in Runs : ~Active(r)
    BY <1>2, <1>12 DEF Delete
  <2>2. gui'.pc = "idle" /\ PostsNoEnd
    BY <1>3, <1>4, <1>12, <2>1 DEF Delete, PostsNoEnd
  <2> QED  BY <1>1, <1>2, <2>1, <2>2, GuiMoves
<1>13. CASE QueryStateChanged \/ Fetched \/ ThreadFinished \/ QueryFinished
  <2>1. /\ UNCHANGED <<queryState, hstmt, worker, alive, bounds>> /\ alive
        /\ posted # <<>> /\ posted \in Seq(Queued) /\ gui.pc = "idle"
    BY <1>1, <1>13 DEF QueryStateChanged, Fetched, ThreadFinished, QueryFinished, Deliver, Idle, Types
  <2>2. gui'.pc \in {"idle", "report"}
    BY <1>1, <1>13, <2>1 DEF QueryStateChanged, Fetched, ThreadFinished, QueryFinished, GuiThread
  <2>3. /\ Head(posted) = posted[1] /\ 1 \in DOMAIN posted /\ Tail(posted) \in Seq(Queued)
        /\ \A i \in DOMAIN Tail(posted) : i + 1 \in DOMAIN posted /\ Tail(posted)[i] = posted[i + 1]
    BY <2>1, QueueElements
  <2>4. posted[1].run \in Runs
    BY <1>1, <2>3, QueuedRuns
  <2>5. PostsNoEnd
    <3> DEFINE end == Signal("queryFinished", Head(posted).run)
               rest == Tail(posted)
    <3>1. CASE posted' = rest
      BY <2>3, <3>1 DEF PostsNoEnd
    <3>2. CASE posted' = Append(rest, end)
      <4>1. end \in Queued
        BY <2>3, <2>4, Numbers, SignalTypes DEF Signals
      <4>2. end.signal # "thread finished"
        BY DEF Signal
      <4>3. rest \in Seq(Queued) /\ \A i \in DOMAIN rest : i + 1 \in DOMAIN posted /\ rest[i] = posted[i + 1]
        BY <2>3
      <4> HIDE DEF end, rest
      <4>4. \A i \in DOMAIN posted' : (i \in DOMAIN rest /\ posted'[i] = rest[i]) \/ posted'[i] = end
        BY <3>2, <4>1, <4>3
      <4> QED  BY <4>2, <4>3, <4>4 DEF PostsNoEnd
    <3> QED  BY <1>13, <3>1, <3>2 DEF QueryStateChanged, Fetched, ThreadFinished, QueryFinished
  <2>6. \A r \in Runs : Active(r) => queryThread' = r
    <3>1. CASE ThreadFinished
      <4> SUFFICES ASSUME NEW r \in Runs, Active(r)
                   PROVE  queryThread' = r
        OBVIOUS
      <4>1. posted[1].signal = "thread finished"
        BY <2>3, <3>1 DEF ThreadFinished, Deliver
      <4>2. worker[posted[1].run].at = "gone"
        BY <2>3, <4>1 DEF AloneInv, EndsAreTrue
      <4>3. queryThread = r /\ r # posted[1].run
        BY <1>2, <4>2 DEF Active
      <4> QED  BY <2>3, <3>1, <4>3 DEF ThreadFinished
    <3> QED  BY <1>2, <1>13, <3>1 DEF QueryStateChanged, Fetched, QueryFinished
  <2> QED  BY <1>1, <1>2, <2>1, <2>2, <2>5, <2>6, StaysUp, GuiMoves
<1>14. CASE QueryReported
  <2>1. UNCHANGED <<queryState, hstmt, worker, queryThread, posted, alive, bounds>> /\ alive
    BY <1>14, BusyIsAlive DEF QueryReported, tab
  <2>2. gui'.pc = "idle"
    BY <1>3, <1>4, <1>14 DEF QueryReported
  <2> QED  BY <1>1, <1>2, <1>5, <2>1, <2>2, StaysUp, GuiMoves
<1> QED  BY <1>6, <1>7, <1>8, <1>9, <1>10, <1>11, <1>12, <1>13, <1>14 DEF Gui

-----------------------------------------------------------------------------
(* The statement is the active thread's from publishing it to freeing it.   *)
LEMMA StatementOfActive ==
  ASSUME AloneInv, NEW r \in Runs, Active(r)
  PROVE  hstmt = IF Holding(r) THEN r ELSE None
<1>1. hstmt \in Runs \cup {None}
  BY DEF AloneInv, Types
<1>2. \A s \in Runs : s # r => ~Holding(s)
  BY DEF AloneInv, OneActive, Active, Holding
<1> QED  BY <1>1, <1>2 DEF AloneInv, HandleIsHeld

(* The state of a run whose thread is the active one.                       *)
LEMMA StateOfActive ==
  ASSUME AloneInv, NEW r \in Runs, Executing(r)
  PROVE  queryState # "Inactive" /\ Active(r)
BY DEF AloneInv, BusyIsExecuting, Executing, Active

(* A move of one thread, place by place.                                    *)
LEMMA PlaceMoves ==
  ASSUME Types, NEW r \in Runs, NEW w, worker' = [worker EXCEPT ![r] = w]
  PROVE  worker'[r] = w /\ \A s \in Runs : s # r => worker'[s] = worker[s]
BY DEF Types

(* A run's thread, inside execute() or about to be.                         *)
LEMMA OwnStep ==
  ASSUME AloneInv, NEW r \in Runs, Own(r), ~Quit(r)
  PROVE  AloneInv'
<1>1. Types' /\ Types /\ worker \in [Runs -> Thread] /\ worker[r] \in Thread
  BY OwnKeepsTypes, ThreadTypes DEF AloneInv, Types
<1>2. Active(r) /\ (worker[r].at # "starting" => Executing(r))
  BY DEF Own, Begin, ClearResultsets, OpenLink, Allocate, Publish, NextBatch, Reopen, FreeStatement,
         End, Step, Active, Executing
<1>3. /\ hstmt = IF Holding(r) THEN r ELSE None
      /\ worker[r].at # "starting" => queryState # "Inactive"
  BY <1>2, StatementOfActive, StateOfActive
<1>4. UNCHANGED <<queryThread, gui, alive, bounds>>
  BY DEF Own, Begin, ClearResultsets, OpenLink, Allocate, Publish, NextBatch, Reopen, FreeStatement,
         End, Step, Quit, tab
<1>5. posted' = posted => PostsNoEnd
  BY DEF PostsNoEnd
<1>6. \A p : worker' = [worker EXCEPT ![r].at = p]
         => worker'[r].at = p /\ \A s \in Runs : s # r => worker'[s] = worker[s]
  BY <1>1 DEF Thread
<1>7. CASE Begin(r) \/ End(r)
  <2> PICK to \in {"clear", "quit"} :
        /\ worker' = [worker EXCEPT ![r].at = to] /\ hstmt' = hstmt
        /\ worker[r].at = IF to = "clear" THEN "starting" ELSE "end"
        /\ SetQueryState(IF to = "clear" THEN "Running" ELSE "Inactive", r)
    BY <1>7 DEF Begin, End, Step
  <2>1. worker'[r].at = to /\ \A s \in Runs : s # r => worker'[s] = worker[s]
    BY <1>6
  <2>2. queryState' = IF to = "clear" THEN "Running" ELSE "Inactive"
    BY DEF SetQueryState
  <2>3. PostsNoEnd
    <3>1. Signal("Inactive", r) \in Queued /\ Signal("Inactive", r).signal # "thread finished"
      <4>1. Signal("Inactive", r) \in Queued
        BY Numbers, SignalTypes DEF Signals
      <4> QED  BY <4>1 DEF Signal
    <3>2. posted' = posted \/ posted' = Append(posted, Signal("Inactive", r))
      BY <2>1 DEF SetQueryState, Post
    <3> QED  BY <1>1, <3>1, <3>2, Posting
  <2>4. (queryState' # "Inactive" <=> Executing(r)') /\ ~Holding(r)' /\ ~Holding(r)
    BY <2>1, <2>2 DEF Executing, Holding
  <2> QED  BY <1>1, <1>2, <1>3, <1>4, <2>1, <2>3, <2>4, ThreadMoves
<1>8. CASE ClearResultsets(r) \/ OpenLink(r) \/ Allocate(r)
  <2> PICK to \in {"open", "allocate", "publish", "end"} : worker' = [worker EXCEPT ![r].at = to]
    BY <1>8 DEF ClearResultsets, OpenLink, Allocate, Step
  <2>1. worker'[r].at = to /\ \A s \in Runs : s # r => worker'[s] = worker[s]
    BY <1>6
  <2>2. /\ UNCHANGED <<queryState, hstmt, posted>>
        /\ worker[r].at \in {"clear", "open", "allocate"}
    BY <1>8 DEF ClearResultsets, OpenLink, Allocate, Step
  <2>3. Executing(r)' /\ ~Holding(r)' /\ ~Holding(r)
    BY <2>1, <2>2 DEF Executing, Holding
  <2> QED  BY <1>1, <1>2, <1>3, <1>4, <1>5, <2>1, <2>2, <2>3, ThreadMoves
<1>9. CASE Publish(r)
  <2>1. /\ UNCHANGED <<queryState, posted>> /\ hstmt' = r /\ gui.pc # "SQLCancel"
        /\ worker[r].at = "publish"
    BY <1>9 DEF Publish, HstmtGuard
  <2>2. worker'[r].at = "next" /\ \A s \in Runs : s # r => worker'[s] = worker[s]
    BY <1>1, <1>9 DEF Publish, Thread
  <2>3. Executing(r)' /\ Holding(r)'
    BY <2>2 DEF Executing, Holding
  <2> QED  BY <1>1, <1>2, <1>3, <1>4, <1>5, <2>1, <2>2, <2>3, ThreadMoves
<1>10. CASE NextBatch(r) \/ Reopen(r)
  <2>1. UNCHANGED <<queryState, hstmt, posted>> /\ worker[r].at \in {"next", "reopen"}
    BY <1>10 DEF NextBatch, Reopen
  <2>2. /\ worker'[r].at \in {"free", "exec", "fetch", "next"}
        /\ \A s \in Runs : s # r => worker'[s] = worker[s]
    BY <1>1, <1>10 DEF NextBatch, Reopen, Thread
  <2>3. Executing(r)' /\ Holding(r)' /\ Holding(r)
    BY <2>1, <2>2 DEF Executing, Holding
  <2> QED  BY <1>1, <1>2, <1>3, <1>4, <1>5, <2>1, <2>2, <2>3, ThreadMoves
<1>11. CASE FreeStatement(r)
  <2>1. /\ UNCHANGED <<queryState, posted>> /\ hstmt' = None /\ gui.pc # "SQLCancel"
        /\ worker[r].at = "free" /\ worker' = [worker EXCEPT ![r] = [NoWorker EXCEPT !.at = "end"]]
    BY <1>11 DEF FreeStatement, HstmtGuard
  <2>2. worker'[r].at = "end" /\ \A s \in Runs : s # r => worker'[s] = worker[s]
    BY <1>1, <2>1 DEF NoWorker
  <2>3. Executing(r)' /\ ~Holding(r)'
    BY <2>2 DEF Executing, Holding
  <2> QED  BY <1>1, <1>2, <1>3, <1>4, <1>5, <2>1, <2>2, <2>3, ThreadMoves
<1> QED  BY <1>7, <1>8, <1>9, <1>10, <1>11 DEF Own

(* The end of a thread is posted when it is the end.                        *)
LEMMA QuitStep ==
  ASSUME AloneInv, NEW r \in Runs, Quit(r)
  PROVE  AloneInv'
<1>1. Types' /\ Types /\ worker \in [Runs -> Thread] /\ worker[r] \in Thread
  BY OwnKeepsTypes, ThreadTypes DEF AloneInv, Types, Own
<1>2. /\ worker[r].at = "quit" /\ worker' = [worker EXCEPT ![r].at = "gone"]
      /\ UNCHANGED <<queryState, hstmt, queryThread, gui, alive, bounds>>
      /\ posted' = Post(Signal("thread finished", r))
  BY DEF Quit, Step, tab
<1>3. worker'[r].at = "gone" /\ \A s \in Runs : s # r => worker'[s] = worker[s]
  BY <1>1, <1>2 DEF Thread
<1>4. \A s \in Runs : /\ Active(s)' <=> Active(s)
                      /\ Executing(s)' <=> Executing(s)
                      /\ Holding(s)' <=> Holding(s)
  BY <1>2, <1>3 DEF Active, Executing, Holding
<1>5. OneActive' /\ BusyIsExecuting' /\ ActiveIsTracked' /\ HandleIsHeld'
  BY <1>2, <1>4 DEF AloneInv, OneActive, BusyIsExecuting, ActiveIsTracked, HandleIsHeld
<1>6. CancelHasStatement' /\ TakenDownAlone'
  BY <1>2, <1>4 DEF AloneInv, CancelHasStatement, TakenDownAlone
<1>7. EndsAreTrue'
  <2> DEFINE end == Signal("thread finished", r)
  <2>1. posted' = posted \/ posted' = Append(posted, end)
    BY <1>2 DEF Post
  <2>2. end \in Queued /\ end.run = r
    <3>1. end \in Queued
      BY Numbers, SignalTypes DEF Signals
    <3> QED  BY <3>1 DEF Signal
  <2>3. posted \in Seq(Queued)
    BY <1>1 DEF Types
  <2>4. \A i \in DOMAIN posted : posted[i].signal = "thread finished" => worker'[posted[i].run].at = "gone"
    BY <1>1, <1>3, QueuedRuns DEF AloneInv, EndsAreTrue
  <2> HIDE DEF end
  <2>5. \A i \in DOMAIN posted' : (i \in DOMAIN posted /\ posted'[i] = posted[i]) \/ posted'[i] = end
    <3>1. CASE posted' = posted
      BY <3>1
    <3>2. CASE posted' = Append(posted, end)
      BY <2>2, <2>3, <3>2, Appended
    <3> QED  BY <2>1, <3>1, <3>2
  <2> QED  BY <1>3, <2>2, <2>4, <2>5 DEF EndsAreTrue
<1>8. StartsFresh'
  <2>1. gui.pc = "execute" => MaxRuns - bounds.runs \in Runs
    BY <1>1, Numbers, BoundTypes DEF AloneInv, StartsFresh, Runs
  <2>2. \A s \in Runs : /\ worker'[s].at = "none" <=> worker[s].at = "none"
                        /\ worker'[s].at = "starting" <=> worker[s].at = "starting"
    BY <1>2, <1>3
  <2> QED  BY <1>2, <2>1, <2>2 DEF AloneInv, StartsFresh
<1> QED  BY <1>1, <1>5, <1>6, <1>7, <1>8 DEF AloneInv

(* A driver call returns.                                                   *)
LEMMA DriverStep ==
  ASSUME AloneInv, NEW r \in Runs, Driver(r)
  PROVE  AloneInv'
<1>1. Types' /\ Types /\ worker \in [Runs -> Thread] /\ worker[r] \in Thread
  BY DriverKeepsTypes, ThreadTypes DEF AloneInv, Types
<1>2. worker[r].at \in {"exec", "fetch"}
  BY DEF Driver, Exec, Resultset, FetchRows, FetchEnds, FetchFails, LinkLost, InDriver, Step
<1>3. Active(r) /\ Executing(r) /\ Holding(r)
  BY <1>2 DEF Active, Executing, Holding
<1>4. hstmt = r /\ queryState # "Inactive"
  BY <1>3, StatementOfActive, StateOfActive
<1>5. UNCHANGED <<queryState, hstmt, queryThread, gui, alive, bounds>>
  BY DEF Driver, Exec, Resultset, FetchRows, FetchEnds, FetchFails, LinkLost, Step, tab
<1>6. PostsNoEnd
  <2> DEFINE rows == [signal |-> "fetched", run |-> r, batch |-> worker[r].left]
  <2>1. posted' = posted \/ posted' = Append(posted, rows)
    BY DEF Driver, Exec, Resultset, FetchRows, FetchEnds, FetchFails, LinkLost, Announce, Post
  <2>2. rows \in Queued
    <3>1. worker[r].left \in 0..MaxBatches
      BY <1>1 DEF Thread
    <3> QED  BY <3>1, SignalTypes DEF Signals
  <2>3. rows.signal # "thread finished"
    OBVIOUS
  <2> HIDE DEF rows
  <2> QED  BY <1>1, <2>1, <2>2, <2>3, Posting
<1>7. /\ worker'[r].at \in {"next", "fetch", "free", "reopen"} \cup {worker[r].at}
      /\ \A s \in Runs : s # r => worker'[s] = worker[s]
  <2>1. CASE Exec(r)
    BY <1>1, <2>1 DEF Exec, Step, Thread
  <2>2. CASE Resultset(r)
    BY <1>1, <2>2 DEF Resultset, Thread
  <2>3. CASE FetchRows(r)
    BY <2>3 DEF FetchRows
  <2>4. CASE FetchEnds(r)
    BY <1>1, <2>4 DEF FetchEnds, Thread
  <2>5. CASE FetchFails(r)
    BY <1>1, <2>5 DEF FetchFails, Thread
  <2>6. CASE LinkLost(r)
    BY <1>1, <2>6 DEF LinkLost, Thread
  <2> QED  BY <2>1, <2>2, <2>3, <2>4, <2>5, <2>6 DEF Driver
<1>8. Executing(r)' /\ Holding(r)' /\ worker'[r].at \notin {"none", "starting", "gone"}
  BY <1>2, <1>7 DEF Executing, Holding
<1> QED  BY <1>1, <1>3, <1>4, <1>5, <1>6, <1>7, <1>8, ThreadMoves

(* A tab as it is made.                                                     *)
LEMMA Begins ==
  ASSUME Init
  PROVE  AloneInv
<1>1. Types
  BY InitTypes
<1>2. /\ queryState = "Inactive" /\ hstmt = None /\ posted = <<>> /\ alive
      /\ gui.pc = "idle" /\ \A r \in Runs : worker[r].at = "none"
  BY DEF Init, NoWorker, Resting
<1>3. \A r \in Runs : ~Active(r) /\ ~Executing(r) /\ ~Holding(r) /\ r # None
  BY <1>2, Numbers DEF Active, Executing, Holding, None
<1>4. OneActive /\ BusyIsExecuting /\ ActiveIsTracked /\ HandleIsHeld
  BY <1>2, <1>3 DEF OneActive, BusyIsExecuting, ActiveIsTracked, HandleIsHeld
<1>5. EndsAreTrue /\ CancelHasStatement /\ StartsFresh /\ TakenDownAlone
  BY <1>2 DEF EndsAreTrue, CancelHasStatement, StartsFresh, TakenDownAlone
<1> QED  BY <1>1, <1>4, <1>5 DEF AloneInv

-----------------------------------------------------------------------------
(* Every step of every thread keeps the invariant.                          *)
THEOREM AloneInductive ==
  ASSUME "starting" \notin Windows
  PROVE  Spec => []AloneInv
<1>1. AloneInv /\ [Next]_vars => AloneInv'
  <2> SUFFICES ASSUME AloneInv, [Next]_vars
               PROVE  AloneInv'
    OBVIOUS
  <2>1. CASE UNCHANGED vars
    <3>1. /\ UNCHANGED <<queryState, hstmt, worker, queryThread, gui, posted, alive, bounds>>
          /\ PostsNoEnd
      BY <2>1 DEF vars, tab, PostsNoEnd
    <3>2. Types'
      BY NextKeepsTypes DEF AloneInv
    <3>3. /\ \A r \in Runs : Active(r) => queryThread = r
          /\ gui.pc = "SQLCancel" => hstmt # None
          /\ gui.pc \in {"disconnect", "open", "delete"} \/ ~alive => \A r \in Runs : ~Active(r)
          /\ ~alive => gui.pc = "idle"
      BY DEF AloneInv, ActiveIsTracked, CancelHasStatement, TakenDownAlone
    <3> QED  BY <3>1, <3>2, <3>3, GuiMoves
  <2>2. CASE Next
    <3>1. CASE User \/ LinkDies
      BY <3>1, UserStep
    <3>2. CASE Gui
      BY <3>2, GuiStep
    <3>3. ASSUME NEW r \in Runs, Own(r) \/ Driver(r)
          PROVE  AloneInv'
      BY <3>3, OwnStep, QuitStep, DriverStep
    <3> QED  BY <2>2, <3>1, <3>2, <3>3 DEF Next
  <2> QED  BY <2>1, <2>2
<1> QED  BY <1>1, Begins, PTL DEF Spec

(* A second run does not get into execute() while one is in it, so _hstmt is*)
(* the statement of the run cancel() means (executeAsync, setQueryState).   *)
THEOREM StatementsDoNotMeet ==
  ASSUME "starting" \notin Windows
  PROVE  Spec => []OneStatement
<1>1. AloneInv => OneStatement
  <2> SUFFICES ASSUME AloneInv
               PROVE  OneStatement
    OBVIOUS
  <2> DEFINE E == {r \in Runs : Executing(r)}
  <2>1. \A r, s \in E : r = s
    BY DEF AloneInv, OneActive, Active, Executing
  <2>2. E = {} \/ \E r : E = {r}
    BY <2>1
  <2>3. IsFiniteSet(E) /\ Cardinality(E) \in Nat /\ Cardinality(E) <= 1
    <3>1. CASE E = {}
      BY <3>1, FS_EmptySet
    <3>2. CASE \E r : E = {r}
      <4> HIDE DEF E
      <4>1. PICK r : E = {r}
        BY <3>2
      <4>2. IsFiniteSet({r}) /\ Cardinality({r}) = 1
        BY FS_Singleton
      <4> QED  BY <4>1, <4>2
    <3> QED  BY <2>2, <3>1, <3>2
  <2> QED  BY <2>3 DEF OneStatement
<1> QED  BY <1>1, AloneInductive, PTL

(* Whoever comes to _hstmtGuard first, cancel() reaches no statement that   *)
(* execute() has freed (cancel, the end of execute).                        *)
THEOREM CancelReachesItsStatement ==
  ASSUME "starting" \notin Windows
  PROVE  Spec => []CancelsItsStatement
<1>1. AloneInv => CancelsItsStatement
  <2> SUFFICES ASSUME AloneInv, gui.pc = "SQLCancel"
               PROVE  hstmt # None /\ Statement(hstmt)
    BY DEF CancelsItsStatement
  <2>1. hstmt \in Runs /\ hstmt # None
    BY DEF AloneInv, Types, CancelHasStatement
  <2>2. Holding(hstmt)
    BY <2>1 DEF AloneInv, HandleIsHeld
  <2> QED  BY <2>1, <2>2 DEF Holding, Statement
<1> QED  BY <1>1, AloneInductive, PTL

-----------------------------------------------------------------------------
(* Two runs started at once included: what writes a state other than        *)
(* Inactive is a thread inside execute(), or a cancel() that finds Running  *)
(* with _hstmtGuard held; what leaves execute() writes Inactive.            *)
BusyInv == Types /\ (queryState # "Inactive" => \E r \in Runs : Executing(r))

(* The state stays, or stays other than Inactive, and no thread leaves.     *)
LEMMA NobodyLeaves ==
  ASSUME BusyInv, Types', queryState' # "Inactive" => queryState # "Inactive",
         \A r \in Runs : Executing(r) => Executing(r)'
  PROVE  BusyInv'
BY DEF BusyInv

(* The gui thread writes Cancelling over Running only.                      *)
LEMMA GuiStepBusy ==
  ASSUME BusyInv, User \/ Gui \/ LinkDies \/ UNCHANGED vars
  PROVE  BusyInv'
<1>1. Types' /\ Types /\ worker \in [Runs -> Thread]
  BY NextKeepsTypes DEF BusyInv, Types, Next
<1>2. CASE SQLCancel
  <2>1. queryState' = queryState /\ \A r \in Runs : worker'[r].at = worker[r].at
    BY <1>1, <1>2, Interrupting DEF SQLCancel
  <2> QED  BY <1>1, <2>1, NobodyLeaves DEF Executing
<1>3. CASE ExecuteAsync
  <2>1. PICK run : worker' = worker \/ (queryState = "Inactive"
                                       /\ worker' = [worker EXCEPT ![run].at = "starting"])
    BY <1>3 DEF ExecuteAsync
  <2>2. queryState' = queryState
    BY <1>3 DEF ExecuteAsync
  <2> QED  BY <1>1, <2>1, <2>2 DEF BusyInv, Executing
<1>4. CASE Cancel
  <2>1. worker' = worker /\ (queryState' # "Inactive" => queryState # "Inactive")
    BY <1>4 DEF Cancel
  <2> QED  BY <1>1, <2>1, NobodyLeaves DEF Executing
<1>5. CASE \/ User \/ LinkDies \/ UNCHANGED vars \/ Close \/ Waited \/ WaitAgain \/ Disconnect
           \/ SwitchOpen \/ Delete \/ QueryStateChanged \/ Fetched \/ ThreadFinished
           \/ QueryFinished \/ QueryReported
  <2>1. worker' = worker /\ queryState' = queryState
    BY <1>5 DEF User, ExecuteQuery, StopExecution, SwitchDatabase, CloseTab, LinkDies, vars, Close,
                Waited, WaitAgain, Disconnect, SwitchOpen, Delete, QueryStateChanged, Fetched,
                ThreadFinished, QueryFinished, QueryReported, Deliver
  <2> QED  BY <1>1, <2>1, NobodyLeaves DEF Executing
<1> QED  BY <1>2, <1>3, <1>4, <1>5 DEF Gui

(* The thread of a run leaves execute() with the state Inactive.            *)
LEMMA ThreadStepBusy ==
  ASSUME BusyInv, NEW r \in Runs, Own(r) \/ Driver(r)
  PROVE  BusyInv'
<1>1. Types' /\ Types /\ worker \in [Runs -> Thread] /\ worker[r] \in Thread
  BY NextKeepsTypes, ThreadTypes DEF BusyInv, Types, Next
<1>2. CASE Begin(r) \/ End(r) \/ Quit(r)
  <2>1. CASE Begin(r)
    <3>1. worker' = [worker EXCEPT ![r].at = "clear"]
      BY <2>1 DEF Begin, Step
    <3>2. Executing(r)'
      BY <1>1, <3>1 DEF Thread, Executing
    <3> QED  BY <1>1, <3>2 DEF BusyInv
  <2>2. CASE End(r)
    BY <1>1, <2>2 DEF End, SetQueryState, BusyInv
  <2>3. CASE Quit(r)
    <3>1. /\ worker[r].at = "quit" /\ queryState' = queryState
          /\ worker' = [worker EXCEPT ![r].at = "gone"]
      BY <2>3 DEF Quit, Step
    <3>2. \A s \in Runs : Executing(s) => Executing(s)'
      BY <1>1, <3>1 DEF Executing
    <3> QED  BY <1>1, <3>1, <3>2, NobodyLeaves
  <2> QED  BY <1>2, <2>1, <2>2, <2>3
<1>3. CASE ClearResultsets(r) \/ OpenLink(r) \/ Allocate(r) \/ Exec(r) \/ LinkLost(r) \/ Reopen(r)
  <2>1. queryState' = queryState
    BY <1>3 DEF ClearResultsets, OpenLink, Allocate, Exec, LinkLost, Reopen
  <2>2. PICK to \in {"open", "allocate", "publish", "end", "next", "fetch", "reopen"} :
           worker' = [worker EXCEPT ![r].at = to]
    BY <1>3 DEF ClearResultsets, OpenLink, Allocate, Exec, LinkLost, Reopen, Step
  <2>3. \A s \in Runs : Executing(s) => Executing(s)'
    BY <1>1, <2>2 DEF Thread, Executing
  <2> QED  BY <1>1, <2>1, <2>3, NobodyLeaves
<1>4. CASE \/ Publish(r) \/ NextBatch(r) \/ FreeStatement(r) \/ Resultset(r)
           \/ FetchRows(r) \/ FetchEnds(r) \/ FetchFails(r)
  <2>1. queryState' = queryState
    BY <1>4 DEF Publish, NextBatch, FreeStatement, Resultset, FetchRows, FetchEnds,
                FetchFails
  <2>2. \/ worker' = worker
        \/ /\ \A s \in Runs : s # r => worker'[s] = worker[s]
           /\ worker'[r].at \in {"next", "free", "exec", "reopen", "end", "fetch"}
    BY <1>1, <1>4 DEF Publish, NextBatch, FreeStatement, Resultset, FetchRows, FetchEnds,
                FetchFails, NoWorker, Thread
  <2>3. \A s \in Runs : Executing(s) => Executing(s)'
    BY <2>2 DEF Executing
  <2> QED  BY <1>1, <2>1, <2>3, NobodyLeaves
<1> QED  BY <1>2, <1>3, <1>4 DEF Own, Driver

(* A state that refuses queries has a thread that will take it back, two    *)
(* runs started at once or not (setQueryState, cancel).                     *)
THEOREM BusyEnds == Spec => []BusyHasThread
<1>1. Init => BusyInv
  BY InitTypes DEF Init, BusyInv
<1>2. BusyInv /\ [Next]_vars => BusyInv'
  BY GuiStepBusy, ThreadStepBusy DEF Next
<1>3. BusyInv => BusyHasThread
  BY DEF BusyInv, BusyHasThread
<1> QED  BY <1>1, <1>2, <1>3, PTL DEF Spec

-----------------------------------------------------------------------------
(* The link and the connection are taken down with no thread inside         *)
(* execute() (close, the destructor).                                       *)
THEOREM TakenDownWithoutThread ==
  ASSUME "starting" \notin Windows
  PROVE  Spec => []ClosedAlone
<1>1. AloneInv => ClosedAlone
  BY DEF AloneInv, TakenDownAlone, ClosedAlone, Active, Executing
<1> QED  BY <1>1, AloneInductive, PTL

-----------------------------------------------------------------------------
(* Why the tables exist that the tab reads.  A thread fills the table of    *)
(* the statement it is at; and until the thread of a new run has cleared    *)
(* the list of tables it is alone, with nothing on its way to the tab.      *)
FillsItsTable ==
    \A r \in Runs : /\ worker[r].at = "fetch" => worker[r].table
                    /\ worker[r].table => worker[r].at \in {"fetch", "reopen"}
StartsAlone ==
    \A r \in Runs : worker[r].at \in {"starting", "clear"} =>
       posted = <<>> /\ gui.pc # "report" /\ \A s \in Runs \ {r} : ~Running(s)

TableInv == Types /\ TablesExist /\ (~hasty => FillsItsTable /\ StartsAlone)

TableOf(signal) == [run |-> signal.run, batch |-> signal.batch]
(* What is announced was announced before, or exists.                       *)
AnnouncesTables ==
    \A i \in DOMAIN posted' : posted'[i].signal = "fetched" =>
       \/ \E j \in DOMAIN posted : posted[j] = posted'[i]
       \/ TableOf(posted'[i]) \in resultsets'

LEMMA TablesNamed ==
  TablesExist <=>
    (~hasty /\ alive =>
       /\ \A r \in Runs : worker[r].table => Table(r) \in resultsets
       /\ \A i \in DOMAIN posted : posted[i].signal = "fetched" => TableOf(posted[i]) \in resultsets
       /\ gui.pc = "report" => gui.snapshot \subseteq resultsets)
BY DEF TablesExist, TableOf

(* What a queue holds after a step.                                         *)
LEMMA Announcing ==
  ASSUME Types, NEW e \in Queued, e.signal = "fetched" => TableOf(e) \in resultsets',
         posted' \in {posted, Append(posted, e)}
  PROVE  AnnouncesTables
<1>1. posted \in Seq(Queued)
  BY DEF Types
<1>2. \A i \in DOMAIN posted' : (i \in DOMAIN posted /\ posted'[i] = posted[i]) \/ posted'[i] = e
  BY <1>1, Appended
<1> QED  BY <1>2 DEF AnnouncesTables

(* The gui thread moves, or the link dies.                                  *)
LEMMA GuiKeepsTables ==
  ASSUME TableInv, Types', hasty' = hasty, alive' = alive, resultsets' = resultsets,
         \A r \in Runs : /\ worker'[r].at = worker[r].at /\ worker'[r].left = worker[r].left
                         /\ worker'[r].table = worker[r].table,
         AnnouncesTables, posted = <<>> => posted' = <<>>,
         gui'.pc = "report" =>
            \/ gui.pc = "report" /\ gui'.snapshot = gui.snapshot
            \/ posted # <<>> /\ gui'.snapshot = resultsets
  PROVE  TableInv'
<1>1. FillsItsTable => FillsItsTable'
  BY DEF FillsItsTable
<1>2. StartsAlone => StartsAlone'
  BY DEF StartsAlone, Running
<1>3. \A r \in Runs : worker'[r].table => worker[r].table /\ Table(r)' = Table(r)
  BY DEF Table
<1>4. TablesExist'
  <2> SUFFICES ASSUME ~hasty, alive
               PROVE  /\ \A r \in Runs : worker'[r].table => Table(r)' \in resultsets
                      /\ \A i \in DOMAIN posted' :
                            posted'[i].signal = "fetched" => TableOf(posted'[i]) \in resultsets
                      /\ gui'.pc = "report" => gui'.snapshot \subseteq resultsets
    BY DEF TablesExist, TableOf
  <2>1. /\ \A r \in Runs : worker[r].table => Table(r) \in resultsets
        /\ \A i \in DOMAIN posted :
              posted[i].signal = "fetched" => TableOf(posted[i]) \in resultsets
        /\ gui.pc = "report" => gui.snapshot \subseteq resultsets
    BY TablesNamed DEF TableInv
  <2>2. \A r \in Runs : worker'[r].table => Table(r)' \in resultsets
    BY <1>3, <2>1
  <2>3. \A i \in DOMAIN posted' :
           posted'[i].signal = "fetched" => TableOf(posted'[i]) \in resultsets
    BY <2>1 DEF AnnouncesTables
  <2> QED  BY <2>1, <2>2, <2>3
<1> QED  BY <1>1, <1>2, <1>4 DEF TableInv

(* The thread of a run moves.                                               *)
LEMMA ThreadKeepsTables ==
  ASSUME TableInv, Types', NEW r \in Runs, Running(r),
         \A s \in Runs : s # r => worker'[s] = worker[s],
         UNCHANGED <<gui, hasty, alive>>, AnnouncesTables,
         \/ worker[r].at = "starting" /\ worker'[r].at = "clear" /\ posted' = posted
         \/ worker'[r].at \notin {"starting", "clear"},
         \/ resultsets \subseteq resultsets'
         \/ worker[r].at = "clear" /\ ~worker'[r].table /\ posted' = posted,
         ~hasty => /\ worker'[r].at = "fetch" => worker'[r].table
                   /\ worker'[r].table => worker'[r].at \in {"fetch", "reopen"},
         ~hasty /\ alive /\ worker'[r].table => Table(r)' \in resultsets'
  PROVE  TableInv'
<1>1. ~hasty => \A s \in Runs \ {r} : worker[s].at \notin {"starting", "clear"}
  BY DEF TableInv, StartsAlone
<1>2. ~hasty => FillsItsTable'
  BY DEF TableInv, FillsItsTable
<1>3. ~hasty => StartsAlone'
  BY <1>1 DEF TableInv, StartsAlone, Running
<1>4. TablesExist'
  <2> SUFFICES ASSUME ~hasty, alive
               PROVE  /\ \A s \in Runs : worker'[s].table => Table(s)' \in resultsets'
                      /\ \A i \in DOMAIN posted' :
                            posted'[i].signal = "fetched" => TableOf(posted'[i]) \in resultsets'
                      /\ gui.pc = "report" => gui.snapshot \subseteq resultsets'
    BY DEF TablesExist, TableOf
  <2>1. /\ \A s \in Runs : worker[s].table => Table(s) \in resultsets
        /\ \A i \in DOMAIN posted :
              posted[i].signal = "fetched" => TableOf(posted[i]) \in resultsets
        /\ gui.pc = "report" => gui.snapshot \subseteq resultsets
    BY TablesNamed DEF TableInv
  <2>2. \A s \in Runs \ {r} : Table(s)' = Table(s)
    BY DEF Table
  <2>3. CASE resultsets \subseteq resultsets'
    <3>1. \A s \in Runs : worker'[s].table => Table(s)' \in resultsets'
      BY <2>1, <2>2, <2>3
    <3>2. \A i \in DOMAIN posted' :
             posted'[i].signal = "fetched" => TableOf(posted'[i]) \in resultsets'
      BY <2>1, <2>3 DEF AnnouncesTables
    <3> QED  BY <2>1, <2>3, <3>1, <3>2
  <2>4. CASE worker[r].at = "clear" /\ ~worker'[r].table /\ posted' = posted
    <3>1. posted = <<>> /\ gui.pc # "report" /\ \A s \in Runs \ {r} : ~Running(s)
      BY <2>4 DEF TableInv, StartsAlone
    <3>2. \A s \in Runs \ {r} : ~worker[s].table
      BY <3>1 DEF TableInv, FillsItsTable, Running
    <3> QED  BY <2>4, <3>1, <3>2
  <2> QED  BY <2>3, <2>4
<1> QED  BY <1>2, <1>3, <1>4 DEF TableInv

LEMMA GuiStepTables ==
  ASSUME TableInv, User \/ LinkDies \/ Gui \/ UNCHANGED vars
  PROVE  TableInv'
<1>1. Types'
  BY NextKeepsTypes DEF TableInv, Next
<1>2. posted \in Seq(Queued) /\ worker \in [Runs -> Thread] /\ gui \in GuiThread /\ gui' \in GuiThread
  BY <1>1 DEF TableInv, Types
<1>3. posted' = posted => AnnouncesTables
  BY DEF AnnouncesTables
<1>4. \A pc : Goto(pc) => (gui'.pc = "report" => pc = "report")
  BY <1>2 DEF Goto, Resting, GuiThread
<1>5. CASE User \/ LinkDies \/ UNCHANGED vars
  <2>1. UNCHANGED <<hasty, alive, resultsets, worker, posted>>
    BY <1>5 DEF User, ExecuteQuery, StopExecution, SwitchDatabase, CloseTab, LinkDies, vars, tab
  <2>2. gui' = gui \/ gui'.pc # "report"
    BY <1>2, <1>4, <1>5 DEF User, ExecuteQuery, StopExecution, SwitchDatabase, CloseTab, LinkDies, vars,
                       GuiThread
  <2> QED  BY <1>1, <1>3, <2>1, <2>2, GuiKeepsTables
<1>6. CASE Cancel \/ SQLCancel \/ Close \/ Waited \/ WaitAgain \/ Disconnect \/ SwitchOpen \/ QueryReported
  <2>1. UNCHANGED <<hasty, alive, resultsets, posted>>
    BY <1>6 DEF Cancel, SQLCancel, Close, Waited, WaitAgain, Disconnect, CloseLocked, SwitchOpen,
                QueryReported, tab
  <2>2. gui'.pc # "report"
    BY <1>2, <1>4, <1>6 DEF Cancel, SQLCancel, Close, Waited, WaitAgain, Disconnect, SwitchOpen,
                QueryReported, GuiThread
  <2>3. worker' = worker \/ worker' = [worker EXCEPT ![hstmt].interrupted = TRUE]
    BY <1>6 DEF Cancel, SQLCancel, Close, Waited, WaitAgain, Disconnect, SwitchOpen, QueryReported
  <2>4. \A r \in Runs : /\ worker'[r].at = worker[r].at /\ worker'[r].left = worker[r].left
                        /\ worker'[r].table = worker[r].table
    BY <1>2, <2>3 DEF Thread
  <2> QED  BY <1>1, <1>3, <2>1, <2>2, <2>4, GuiKeepsTables
<1>7. CASE QueryStateChanged \/ Fetched \/ ThreadFinished \/ QueryFinished
  <2>1. /\ UNCHANGED <<hasty, alive, resultsets, worker>> /\ posted # <<>>
        /\ posted' = Tail(posted) \/ posted' = Append(Tail(posted), Signal("queryFinished", Head(posted).run))
        /\ gui' = gui \/ gui' = [gui EXCEPT !.pc = "report", !.snapshot = resultsets]
    BY <1>7 DEF QueryStateChanged, Fetched, ThreadFinished, QueryFinished, Deliver
  <2>2. AnnouncesTables
    <3>1. /\ Tail(posted) \in Seq(Queued) /\ Head(posted).run \in Runs
          /\ \A i \in DOMAIN Tail(posted) : i + 1 \in DOMAIN posted /\ Tail(posted)[i] = posted[i + 1]
      <4>1. Head(posted) = posted[1] /\ 1 \in DOMAIN posted
        BY <1>2, <2>1
      <4>2. Head(posted).run \in Runs
        BY <4>1, QueuedRuns DEF TableInv
      <4> QED  BY <1>2, <2>1, <4>2, QueueElements
    <3> DEFINE e == Signal("queryFinished", Head(posted).run)
               q == Tail(posted)
    <3>2. e \in Queued /\ e.signal # "fetched"
      <4>1. "queryFinished" \in Signals
        BY DEF Signals
      <4>2. e \in Queued
        BY <3>1, <4>1, Numbers, SignalTypes
      <4> QED  BY <4>2 DEF Signal
    <3> HIDE DEF e, q
    <3>3. q \in Seq(Queued) /\ posted' \in {q, Append(q, e)}
          /\ \A i \in DOMAIN q : \E j \in DOMAIN posted : posted[j] = q[i]
      BY <2>1, <3>1 DEF e, q
    <3>4. \A i \in DOMAIN posted' : (i \in DOMAIN q /\ posted'[i] = q[i]) \/ posted'[i] = e
      BY <3>2, <3>3
    <3> QED  BY <3>2, <3>3, <3>4 DEF AnnouncesTables
  <2>3. gui'.pc = "report" => (gui.pc = "report" /\ gui'.snapshot = gui.snapshot)
                              \/ gui'.snapshot = resultsets
    BY <1>2, <2>1 DEF GuiThread
  <2> QED  BY <1>1, <2>1, <2>2, <2>3, GuiKeepsTables
<1>8. CASE ExecuteAsync
  <2>1. /\ UNCHANGED <<alive, resultsets, posted>> /\ gui'.pc # "report"
    BY <1>2, <1>4, <1>8 DEF ExecuteAsync, GuiThread
  <2>2. CASE queryState # "Inactive"
    <3>1. UNCHANGED <<hasty, worker>>
      BY <1>8, <2>2 DEF ExecuteAsync
    <3> QED  BY <1>1, <1>3, <2>1, <3>1, GuiKeepsTables
  <2>3. CASE queryState = "Inactive"
    <3>1. PICK run : /\ worker' = [worker EXCEPT ![run].at = "starting"]
                     /\ hasty' = (hasty \/ ~Reported)
      BY <1>8, <2>3 DEF ExecuteAsync
    <3>2. CASE hasty'
      BY <1>1, <3>2 DEF TableInv, TablesExist
    <3>3. CASE ~hasty'
      <4>1. posted = <<>> /\ (\A r \in Runs : ~Running(r)) /\ ~hasty
        BY <3>1, <3>3 DEF Reported
      <4>2. \A r \in Runs : ~worker[r].table /\ worker[r].at \in {"none", "gone"}
        BY <4>1 DEF TableInv, FillsItsTable, Running
      <4>3. \A r \in Runs : /\ ~worker'[r].table
                            /\ \/ worker'[r].at \in {"none", "gone"}
                               \/ r = run /\ worker'[r].at = "starting"
        BY <1>2, <3>1, <4>2 DEF Thread
      <4>4. FillsItsTable' /\ StartsAlone'
        BY <2>1, <4>1, <4>3 DEF FillsItsTable, StartsAlone, Running
      <4>5. TablesExist'
        BY <2>1, <4>1, <4>3 DEF TablesExist
      <4> QED  BY <1>1, <4>4, <4>5 DEF TableInv
    <3> QED  BY <3>2, <3>3
  <2> QED  BY <2>2, <2>3
<1>9. CASE Delete
  <2>1. ~alive' /\ posted' = <<>> /\ gui'.pc # "report" /\ hasty' = hasty /\ worker' = worker
    BY <1>2, <1>4, <1>9 DEF Delete, GuiThread
  <2>2. TablesExist'
    BY <2>1 DEF TablesExist
  <2>3. ~hasty => FillsItsTable' /\ StartsAlone'
    BY <2>1 DEF TableInv, FillsItsTable, StartsAlone, Running
  <2> QED  BY <1>1, <2>1, <2>2, <2>3 DEF TableInv
<1> QED  BY <1>5, <1>6, <1>7, <1>8, <1>9 DEF Gui

LEMMA ThreadStepTables ==
  ASSUME TableInv, NEW r \in Runs, Own(r) \/ Driver(r)
  PROVE  TableInv'
<1>1. Types'
  BY NextKeepsTypes DEF TableInv, Next
<1>2. /\ worker \in [Runs -> Thread] /\ worker[r] \in Thread
      /\ worker[r].table \in BOOLEAN
  BY ThreadTypes DEF TableInv, Types
<1>3. /\ UNCHANGED <<gui, hasty, alive>> /\ Running(r)
      /\ \E w : worker' = [worker EXCEPT ![r] = w]
  BY <1>2 DEF Own, Begin, ClearResultsets, OpenLink, Allocate, Publish, NextBatch, Reopen, FreeStatement,
         End, Quit, Step, Driver, Exec, Resultset, FetchRows, FetchEnds, FetchFails, LinkLost, InDriver,
         tab, Running
<1>4. \A s \in Runs : s # r => worker'[s] = worker[s]
  BY <1>2, <1>3
<1>5. posted' = posted => AnnouncesTables
  BY DEF AnnouncesTables
<1>6. /\ ~hasty => (worker[r].at = "fetch" => worker[r].table)
                   /\ (worker[r].table => worker[r].at \in {"fetch", "reopen"})
      /\ ~hasty /\ alive /\ worker[r].table => Table(r) \in resultsets
  BY TablesNamed DEF TableInv, FillsItsTable
<1>7. \A p : worker' = [worker EXCEPT ![r].at = p] =>
            worker'[r].at = p /\ worker'[r].table = worker[r].table /\ worker'[r].left = worker[r].left
  BY <1>2 DEF Thread
<1>8. CASE Begin(r)
  <2>1. /\ worker[r].at = "starting" /\ worker' = [worker EXCEPT ![r].at = "clear"]
        /\ posted' = posted /\ resultsets' = resultsets
    BY <1>8 DEF Begin, Step, SetQueryState
  <2> QED  BY <1>1, <1>3, <1>4, <1>5, <1>6, <1>7, <2>1, ThreadKeepsTables
<1>9. CASE ClearResultsets(r)
  <2>1. /\ worker[r].at = "clear" /\ worker' = [worker EXCEPT ![r].at = "open"]
        /\ posted' = posted
    BY <1>9 DEF ClearResultsets, Step
  <2>2. worker'[r].at = "open" /\ worker'[r].table = worker[r].table
    BY <1>7, <2>1
  <2>3. CASE hasty
    BY <1>1, <1>3, <2>3 DEF TableInv, TablesExist
  <2>4. CASE ~hasty
    BY <1>1, <1>3, <1>4, <1>5, <1>6, <2>1, <2>2, <2>4, ThreadKeepsTables
  <2> QED  BY <2>3, <2>4
<1>10. CASE OpenLink(r) \/ Allocate(r) \/ Exec(r)
  <2>1. PICK to \in {"allocate", "end", "publish", "next"} :
           /\ worker' = [worker EXCEPT ![r].at = to] /\ worker[r].at \in {"open", "allocate", "exec"}
           /\ posted' = posted /\ resultsets' = resultsets
    BY <1>10 DEF OpenLink, Allocate, Exec, Step
  <2> QED  BY <1>1, <1>3, <1>4, <1>5, <1>6, <1>7, <2>1, ThreadKeepsTables
<1>11. CASE Publish(r) \/ NextBatch(r)
  <2>1. /\ worker[r].at \in {"publish", "next"} /\ posted' = posted /\ resultsets' = resultsets
        /\ worker'[r].at \in {"next", "free", "exec"} /\ worker'[r].table = worker[r].table
    BY <1>2, <1>11 DEF Publish, NextBatch, Thread
  <2> QED  BY <1>1, <1>3, <1>4, <1>5, <1>6, <2>1, ThreadKeepsTables
<1>12. CASE LinkLost(r)
  <2>1. /\ worker[r].at \in {"exec", "fetch"} /\ posted' = posted /\ resultsets' = resultsets
        /\ worker' = [worker EXCEPT ![r].at = "reopen"]
    BY <1>12 DEF LinkLost, InDriver, CloseLocked
  <2>2. Table(r)' = Table(r)
    BY <1>7, <2>1 DEF Table
  <2> QED  BY <1>1, <1>3, <1>4, <1>5, <1>6, <1>7, <2>1, <2>2, ThreadKeepsTables
<1>13. CASE Reopen(r)
  <2>1. /\ worker[r].at = "reopen" /\ posted' = posted /\ resultsets' = resultsets
        /\ worker' = [worker EXCEPT ![r].at = IF worker[r].table THEN "fetch" ELSE "next"]
    BY <1>13 DEF Reopen
  <2>2. /\ worker'[r].at = IF worker[r].table THEN "fetch" ELSE "next"
        /\ worker'[r].table = worker[r].table /\ Table(r)' = Table(r)
    BY <1>7, <2>1 DEF Table
  <2>3. /\ worker'[r].at \in {"fetch", "next"}
        /\ worker'[r].at = "fetch" => worker'[r].table
        /\ ~hasty => (worker'[r].table => worker'[r].at \in {"fetch", "reopen"})
    BY <2>2
  <2> QED  BY <1>1, <1>3, <1>4, <1>5, <1>6, <2>1, <2>2, <2>3, ThreadKeepsTables
<1>14. CASE FreeStatement(r) \/ FetchFails(r)
  <2>1. posted' = posted /\ resultsets' = resultsets
    BY <1>14 DEF FreeStatement, FetchFails
  <2>2. worker'[r].at \in {"end", "free"} /\ ~worker'[r].table
    BY <1>2, <1>14 DEF FreeStatement, FetchFails, NoWorker, Thread
  <2> QED  BY <1>1, <1>3, <1>4, <1>5, <2>1, <2>2, ThreadKeepsTables
<1>15. CASE End(r) \/ Quit(r)
  <2>1. PICK to \in {"quit", "gone"} :
           /\ worker[r].at \in {"end", "quit"} /\ worker' = [worker EXCEPT ![r].at = to]
           /\ resultsets' = resultsets
    BY <1>15 DEF End, Quit, Step
  <2>2. PICK s \in {"Inactive", "thread finished"} : posted' \in {posted, Append(posted, Signal(s, r))}
    BY <1>15 DEF End, Quit, SetQueryState, Post
  <2>3. AnnouncesTables
    <3>1. Signal(s, r) \in Queued
      <4>1. s \in Signals
        BY DEF Signals
      <4> QED  BY <4>1, Numbers, SignalTypes
    <3>2. Signal(s, r).signal # "fetched"
      BY DEF Signal
    <3> QED  BY <2>2, <3>1, <3>2, Announcing DEF TableInv
  <2> QED  BY <1>1, <1>3, <1>4, <1>6, <1>7, <2>1, <2>3, ThreadKeepsTables
<1>16. CASE Resultset(r)
  <2>1. /\ worker[r].at = "exec" /\ posted' = posted
        /\ resultsets' = resultsets \cup {Table(r)}
        /\ worker'[r].at = "fetch" /\ worker'[r].table /\ worker'[r].left = worker[r].left
    BY <1>2, <1>16 DEF Resultset, Thread
  <2>2. Table(r)' \in resultsets'
    BY <2>1 DEF Table
  <2> QED  BY <1>1, <1>3, <1>4, <1>5, <2>1, <2>2, ThreadKeepsTables
<1>17. CASE FetchRows(r) \/ FetchEnds(r)
  <2>1. /\ worker[r].at = "fetch" /\ posted' = Announce(r) /\ resultsets' = resultsets
        /\ \/ worker' = worker
           \/ worker'[r].at = "next" /\ ~worker'[r].table
    BY <1>2, <1>17 DEF FetchRows, FetchEnds, Thread
  <2>2. CASE hasty
    BY <1>1, <1>3, <2>2 DEF TableInv, TablesExist
  <2>3. CASE ~alive
    <3>1. posted' = posted
      BY <2>1, <2>3 DEF Announce, Post
    <3>2. worker' = worker => Table(r)' = Table(r)
      BY DEF Table
    <3> QED  BY <1>1, <1>3, <1>4, <1>5, <1>6, <2>1, <2>3, <3>1, <3>2, ThreadKeepsTables
  <2>4. CASE ~hasty /\ alive
    <3> DEFINE e == [signal |-> "fetched", run |-> r, batch |-> worker[r].left]
    <3>1. e \in Queued
      <4>1. worker[r].left \in 0..MaxBatches /\ "fetched" \in Signals
        BY ThreadTypes DEF TableInv, Signals
      <4> QED  BY <4>1, SignalTypes
    <3>2. TableOf(e) = Table(r) /\ Table(r) \in resultsets /\ worker[r].table
      BY <1>6, <2>1, <2>4 DEF TableOf, Table
    <3>3. posted' = Append(posted, e)
      BY <2>1, <2>4 DEF Announce, Post
    <3> HIDE DEF e
    <3>4. AnnouncesTables
      BY <2>1, <3>1, <3>2, <3>3, Announcing DEF TableInv
    <3>5. worker' = worker => Table(r)' = Table(r)
      BY DEF Table
    <3> QED  BY <1>1, <1>3, <1>4, <1>6, <2>1, <2>4, <3>2, <3>4, <3>5, ThreadKeepsTables
  <2> QED  BY <2>2, <2>3, <2>4
<1> QED
  BY <1>8, <1>9, <1>10, <1>11, <1>12, <1>13, <1>14, <1>15, <1>16, <1>17 DEF Own, Driver

(* The tables a thread is filling, those announced to the tab and those it  *)
(* is reading exist, for a user who waits for the end of a run before       *)
(* starting the next: the list is cleared by a thread that is alone         *)
(* (execute(), the slots of fetched() and queryFinished()).                 *)
THEOREM TablesStay == Spec => []TablesExist
<1>1. Init => TableInv
  <2> SUFFICES ASSUME Init PROVE TableInv
    OBVIOUS
  <2>1. posted = <<>> /\ gui.pc = "idle" /\ \A r \in Runs : worker[r].at = "none" /\ ~worker[r].table
    BY DEF Init, NoWorker, Resting
  <2> QED  BY <2>1, InitTypes DEF TableInv, TablesExist, FillsItsTable, StartsAlone
<1>2. TableInv /\ [Next]_vars => TableInv'
  BY GuiStepTables, ThreadStepTables DEF Next
<1>3. TableInv => TablesExist
  BY DEF TableInv
<1> QED  BY <1>1, <1>2, <1>3, PTL DEF Spec
=============================================================================
