---------------------------- MODULE PgConnection ----------------------------
(***************************************************************************)
(* The asynchronous run of one editor tab's PostgreSQL connection          *)
(* (pgconnection.cpp): the gui thread owns the socket notifiers and runs   *)
(* their slots, a worker thread per run starts the query and waits in its  *)
(* event loop for the run to end, and the two share the libpq handle, the  *)
(* query state and the stage under _connectionGuard.                       *)
(*                                                                         *)
(* One step is one section of code under _connectionGuard, or the code     *)
(* between two such sections; the places where the guard is released in    *)
(* the middle of a handler are the values of pc.  Runs of COPY statements  *)
(* are not among the inputs.  libpq, the server and the link               *)
(* are external: they are modelled from how the code uses them.            *)
(***************************************************************************)
EXTENDS Naturals, Sequences

CONSTANTS
    MaxRun,      \* bound: queries the user asks for in one behaviour
    MaxDrop,     \* bound: times the link dies
    MaxCancel,   \* bound: times the user asks for a cancellation
    CancelKinds, \* what a cancellation may come to: a request to the server, closing
    MaxSwitch,   \* bound: times the user switches the tab to another database
    Params,      \* the runs that carry parameters (extended protocol)
    Windows,     \* when the user (or the timer) starts a run before queryFinished
    Failures     \* what libpq may fail to do on a link that is alive

Runs == 1..MaxRun
GUI == 0                        \* the thread the connection object lives in
Thread == 0..MaxRun             \* 0 is the gui thread, r the worker of run r

ASSUME ConnectionAssumption ==
    /\ MaxRun \in Nat \ {0}
    /\ MaxDrop \in Nat /\ MaxCancel \in Nat /\ MaxSwitch \in Nat
    /\ CancelKinds \subseteq {"request", "close"}
    /\ Params \subseteq Runs
    /\ Windows \subseteq {"starting", "ending"}
    /\ Failures \subseteq {"send", "read"}

VARIABLES
    queryState,    \* _query_state
    stage,         \* _async_stage
    opened,        \* _opened
    queryFlushed,  \* _query_flushed
    resentOnce,    \* _resent_once
    queryTmp,      \* the run whose text is in _query_tmp, 0 before the first
    queryThread,   \* the run whose worker _queryThread points to, 0 for nullptr
    link,          \* _conn and the session behind it
    watched,       \* the socket notifiers that are enabled
    pc,            \* where each thread is between two guarded sections
    isNotification,\* fetch()'s local of that name
    guiQueue,      \* calls queued to the gui thread
    workerQueue,   \* signals queued to each worker's event loop
    nrun, drops, cancels, switches,   \* how much of the bounds is used up
    orphans,       \* runs a lost session received whole and may still execute
    executed,      \* how many times the server has executed each run
    verdict,       \* what the connection has reported as the end of each run
    resends,       \* how many times each run was handed to libpq again
    inTransaction, \* runs first tried on a session with an open transaction
    clarified,     \* runs whose resultsets got their column types
    finished       \* runs for which queryFinished() was emitted

members == <<queryState, stage, opened, queryFlushed, resentOnce, queryTmp>>
bounds == <<nrun, drops, cancels, switches>>
server == <<orphans, executed>>
history == <<resends, inTransaction, clarified, finished>>
vars == <<members, queryThread, link, watched, pc, isNotification, guiQueue,
          workerQueue, bounds, server, verdict, history>>

QueryState == {"Inactive", "Reconnecting", "Running", "Cancelling"}
Stage == {"none", "connecting", "sending_query", "flush", "wait_ready_read"}
Verdict == {"none", "answered", "notsent", "unknown", "closed"}

-----------------------------------------------------------------------------
(* The libpq handle.  st: PQstatus (start and wait are the two rounds of a  *)
(* connection attempt); txn: the session's transaction status; run: the     *)
(* query handed to libpq whose last result has not been read; wire: a part  *)
(* of it is still in the output buffer; srv: what the server has done with  *)
(* it; up: the other end of the link is there.                              *)

Link == [st : {"null", "start", "wait", "ok", "bad"},
         txn : {"idle", "intrans", "inerror"},
         run : 0..MaxRun, wire : BOOLEAN,
         srv : {"idle", "todo", "ran", "read"}, up : BOOLEAN]

Handle(st, up) == [st |-> st, txn |-> "idle", run |-> 0, wire |-> FALSE,
                   srv |-> "idle", up |-> up]
NoLink == Handle("null", FALSE)
NewLink(st) == Handle(st, TRUE)

TransactionStatus(l) ==
    IF l.st # "ok" THEN "unknown" ELSE IF l.run # 0 THEN "active" ELSE l.txn

IsIdle(l) == l.st = "null" \/ TransactionStatus(l) \in {"idle", "unknown"}

(* (A mutant: only a connected handle is taken to have a socket.)           *)
HasSocketWhenConnected(l) == l.st = "ok"
HasSocket(l) == l.st \in {"start", "wait", "ok"}

(* An answer libpq can read, and the two ways PQconsumeInput() can end.     *)
Answer(l) == ~l.wire /\ l.srv \in {"ran", "read"}
ReadFails(l) == l.st \in {"null", "bad"} \/ (l.st = "ok" /\ ~l.up /\ ~Answer(l))
Broken(l) == IF l.st = "null" THEN l ELSE [l EXCEPT !.st = "bad", !.srv = "idle"]

(* What is left of a session once its socket is gone: a query it received   *)
(* whole may still be executed.                                             *)
Orphaned(l) == IF l.srv = "todo" THEN {l.run} ELSE {}

(* Outcomes of pushing the output buffer: something stays behind, or the    *)
(* message leaves whole.  A message with parameters is several protocol     *)
(* messages, so the server may act on it before the last byte has left.     *)
Whole(l) == IF l.wire
            THEN [l EXCEPT !.wire = FALSE,
                           !.srv = IF l.up /\ @ = "idle" THEN "todo" ELSE @]
            ELSE l
Partial(l) == {[l EXCEPT !.wire = TRUE]}
              \cup (IF l.up /\ l.run \in Params /\ l.srv = "idle"
                    THEN {[l EXCEPT !.wire = TRUE, !.srv = "todo"]} ELSE {})
Pushed(l) == IF l.wire THEN Partial(l) \cup {Whole(l)} ELSE {l}

-----------------------------------------------------------------------------
(* Queued calls and signals.                                                *)

WatchCall(mode) == [call |-> "watch", mode |-> mode, run |-> 0]
FinishedCall(r) == [call |-> "finished", mode |-> {}, run |-> r]
GuiCall == [call : {"watch"}, mode : SUBSET {"r", "w"}, run : {0}]
           \cup [call : {"finished"}, mode : {{}}, run : Runs]
Signal == {"Inactive", "closeConnectionWanted", "close"}

(* watchSocket(): applied at once in the gui thread, queued from a worker;  *)
(* l is the handle as the call finds it.                                    *)
WatchSocket(t, mode, l) ==
    IF t = GUI
    THEN /\ watched' = IF HasSocket(l) THEN mode ELSE {}
         /\ UNCHANGED guiQueue
    ELSE /\ guiQueue' = Append(guiQueue, WatchCall(mode))
         /\ UNCHANGED watched

(* The workers whose event loop a signal reaches: those that have connected *)
(* to it and have not been deleted yet.                                     *)
Listening(t) == {w \in Runs : w = t \/ pc[w] \in {"open", "poll", "resend",
                                  "dropped", "check", "loop", "quit"}}
Emitted(queue, t, signal) ==
    [w \in Runs |-> IF w \in Listening(t) THEN Append(queue[w], signal) ELSE queue[w]]
Emit(t, signal) == workerQueue' = Emitted(workerQueue, t, signal)

(* (A mutant: the state changes and no thread is told.)                     *)
ConcludeSilently(t, r, v) ==
    /\ queryState' = "Inactive" /\ UNCHANGED workerQueue
    /\ verdict' = [verdict EXCEPT ![r] = IF @ = "none" THEN v ELSE @]
(* setQueryState(Inactive) as the end of run r, reported as v.              *)
Conclude(t, r, v) ==
    /\ queryState' = "Inactive"
    /\ Emit(t, "Inactive")
    /\ verdict' = [verdict EXCEPT ![r] = IF @ = "none" THEN v ELSE @]

EndRun(t, v) ==
    IF queryState = "Inactive"
    THEN UNCHANGED <<queryState, workerQueue, verdict>>
    ELSE Conclude(t, queryTmp, v)

SetState(s) == queryState' = s /\ UNCHANGED <<workerQueue, verdict>>

(* (A mutant: _opened is left as it was.)                                   *)
CloseLockedStillOpened(t, l) ==
    /\ link' = NoLink /\ UNCHANGED opened
    /\ orphans' = orphans \cup Orphaned(l)
    /\ WatchSocket(t, {}, NoLink)
(* closeLocked() on the handle l.                                           *)
CloseLocked(t, l) ==
    /\ link' = NoLink
    /\ opened' = FALSE
    /\ orphans' = orphans \cup Orphaned(l)
    /\ WatchSocket(t, {}, NoLink)

(* (A mutant: the gui thread goes where the workers go.)                    *)
AfterAsWorker(t) == "check"
(* Where a thread is once its part of the run is done.                      *)
After(t) == IF t = GUI THEN "idle" ELSE "check"
Goto(t, label) == pc' = [pc EXCEPT ![t] = label]

-----------------------------------------------------------------------------
(* The tab opens its link synchronously when it gets its connection, and    *)
(* keeps the connection when that fails.                                    *)
Init ==
    /\ link \in {NoLink, NewLink("ok")}
    /\ opened = (link.st = "ok")
    /\ watched = IF link.st = "ok" THEN {"r"} ELSE {}
    /\ queryState = "Inactive" /\ stage = "none"
    /\ queryFlushed = FALSE /\ resentOnce = FALSE
    /\ queryTmp = 0 /\ queryThread = 0
    /\ pc = [t \in Thread |-> IF t = GUI THEN "idle" ELSE "none"]
    /\ isNotification = FALSE
    /\ guiQueue = <<>> /\ workerQueue = [w \in Runs |-> <<>>]
    /\ nrun = 0 /\ drops = 0 /\ cancels = 0 /\ switches = 0
    /\ orphans = {} /\ executed = [r \in Runs |-> 0]
    /\ verdict = [r \in Runs |-> "none"]
    /\ resends = [r \in Runs |-> 0]
    /\ inTransaction = {} /\ clarified = {} /\ finished = {}

-----------------------------------------------------------------------------
(* executeAsync() with a text: the check of a new request, and the start of *)
(* its worker.  Window names the moments, after the last run was accepted   *)
(* and before its queryFinished(), at which this request comes.             *)
InWindow ==
    \/ queryThread = 0
    \/ /\ queryThread # 0
       /\ (IF pc[queryThread] = "start" THEN "starting" ELSE "ending") \in Windows

(* (A mutant: the state and the transaction status are not looked at.)      *)
ExecuteAsyncUnchecked ==
    /\ pc[GUI] = "idle" /\ nrun < MaxRun /\ InWindow
    /\ nrun' = nrun + 1 /\ queryThread' = nrun + 1
    /\ Goto(nrun + 1, "start")
    /\ WatchSocket(GUI, {}, link)
    /\ UNCHANGED <<members, link, isNotification, workerQueue, drops, cancels,
                   switches, server, verdict, history>>

ExecuteAsync ==
    /\ pc[GUI] = "idle" /\ nrun < MaxRun /\ InWindow
    /\ TransactionStatus(link) # "active" /\ queryState = "Inactive"
    /\ nrun' = nrun + 1
    /\ queryThread' = nrun + 1
    /\ Goto(nrun + 1, "start")
    /\ WatchSocket(GUI, {}, link)
    /\ UNCHANGED <<members, link, isNotification, workerQueue, drops, cancels,
                   switches, server, verdict, history>>

(* (A mutant: a query that has left whole may be sent again.)               *)
ResendableFlushed(l, flushed, resent) ==
    ~resent /\ TransactionStatus(Broken(l)) # "intrans"

(* linkLostMidQuery() on the handle l, which libpq reports as bad by now;   *)
(* live: whether a run is going on.                                         *)
Resendable(l, flushed, resent) ==
    ~flushed /\ ~resent /\ TransactionStatus(Broken(l)) # "intrans"

LinkLostMidQuery(t, l, flushed, resent, live, r) ==
    /\ stage' = "none"
    /\ resentOnce' = (resent \/ Resendable(l, flushed, resent))
    /\ IF Resendable(l, flushed, resent)
       THEN /\ SetState("Reconnecting")
            /\ CloseLocked(t, l)
            /\ Goto(t, "open")
       ELSE /\ IF live THEN Conclude(t, r, "unknown") ELSE SetState("Inactive")
            /\ opened' = FALSE
            /\ link' = Broken(l)
            /\ orphans' = orphans \cup Orphaned(l)
            /\ WatchSocket(t, {}, NoLink)
            /\ Goto(t, After(t))

-----------------------------------------------------------------------------
(* run_query, by the worker of a new run or, when the link is restored, by  *)
(* whichever thread completed the connection.                               *)
RunQuery(t) == pc[t] \in {"start", "resend"}
Fresh(t) == pc[t] = "start"
TextOf(t) == IF Fresh(t) THEN t ELSE queryTmp
Resent(t) == IF Fresh(t) THEN FALSE ELSE resentOnce
HandedOver(t) == [link EXCEPT !.run = TextOf(t), !.wire = TRUE]

RunQueryBegins(t) ==
    /\ RunQuery(t)
    /\ queryTmp' = TextOf(t)
    /\ resends' = IF Fresh(t) THEN resends
                  ELSE [resends EXCEPT ![queryTmp] = @ + 1]
    /\ inTransaction' = inTransaction \cup
           (IF Fresh(t) /\ link.st = "ok" /\ link.txn # "idle" THEN {t} ELSE {})
    /\ UNCHANGED <<queryThread, isNotification, bounds, executed, clarified, finished>>

(* The link is found dead before the query is handed over.                  *)
RunQueryNoLink(t) ==
    /\ RunQueryBegins(t)
    /\ link.st \in {"null", "bad"} \/ (link.st = "ok" /\ ~link.up)
    /\ IF TransactionStatus(link) = "intrans"
       THEN SetState("Running") /\ Goto(t, "dropped")
       ELSE SetState("Reconnecting") /\ Goto(t, "open")
    /\ stage' = "none"
    /\ queryFlushed' = (TextOf(t) \in Params)
    /\ resentOnce' = Resent(t)
    /\ IF link.st = "null"
       THEN UNCHANGED <<link, opened, orphans, watched, guiQueue>>
       ELSE CloseLocked(t, link)

(* libpq does not take the query.                                           *)
RunQueryRefused(t) ==
    /\ RunQueryBegins(t)
    /\ \/ link.st \in {"start", "wait"}
       \/ link.st = "ok" /\ (link.run # 0 \/ "send" \in Failures)
    /\ Conclude(t, TextOf(t), "notsent")
    /\ stage' = "sending_query"
    /\ queryFlushed' = (TextOf(t) \in Params)
    /\ resentOnce' = Resent(t)
    /\ Goto(t, After(t))
    /\ UNCHANGED <<link, opened, orphans, watched, guiQueue>>

RunQuerySent(t) ==
    /\ RunQueryBegins(t)
    /\ link.st = "ok" /\ link.run = 0
    /\ SetState("Running")
    /\ \/ /\ link' = Whole(HandedOver(t))
          /\ stage' = "wait_ready_read"
          /\ queryFlushed' = TRUE
          /\ WatchSocket(t, {"r"}, link)
       \/ /\ link' \in Partial(HandedOver(t))
          /\ stage' = "flush"
          /\ queryFlushed' = (TextOf(t) \in Params)
          /\ WatchSocket(t, {"r", "w"}, link)
    /\ resentOnce' = Resent(t)
    /\ Goto(t, After(t))
    /\ UNCHANGED <<opened, orphans>>

(* PQflush() fails: the link died with the message incomplete.              *)
RunQueryWriteFailed(t) ==
    /\ RunQueryBegins(t)
    /\ link.st = "ok" /\ link.run = 0 /\ ~link.up
    /\ \E l \in {HandedOver(t)} \cup
            (IF TextOf(t) \in Params
             THEN {[HandedOver(t) EXCEPT !.srv = "todo"]} ELSE {}) :
          LinkLostMidQuery(t, l, TextOf(t) \in Params, Resent(t), TRUE, TextOf(t))
    /\ queryFlushed' = (TextOf(t) \in Params)

(* The end of run_query when the link was lost within a transaction.        *)
TransactionLost(t) ==
    /\ pc[t] = "dropped"
    /\ EndRun(t, "notsent")
    /\ Goto(t, After(t))
    /\ UNCHANGED <<stage, opened, queryFlushed, resentOnce, queryTmp, queryThread, link,
                   watched, isNotification, guiQueue, bounds, server, history>>

-----------------------------------------------------------------------------
(* openAsync(), the rest of whose handler is asyncConnectionProceed().      *)
OpenAsync(t) ==
    /\ pc[t] = "open"
    /\ UNCHANGED <<queryFlushed, resentOnce, queryTmp, queryThread,
                   isNotification, bounds, executed, history>>
    /\ \/ /\ stage # "none" \/ ~IsIdle(link)
          /\ IF queryState = "Reconnecting" THEN EndRun(t, "notsent")
             ELSE UNCHANGED <<queryState, workerQueue, verdict>>
          /\ Goto(t, After(t))
          /\ UNCHANGED <<stage, opened, link, orphans, watched, guiQueue>>
       \/ /\ stage = "none" /\ IsIdle(link) /\ link.st = "ok"
          /\ Goto(t, After(t))
          /\ UNCHANGED <<queryState, workerQueue, verdict, stage, opened, link,
                         orphans, watched, guiQueue>>
       \/ /\ stage = "none" /\ IsIdle(link) /\ link.st # "ok"
          /\ orphans' = orphans \cup Orphaned(link)
          /\ IF link.st = "null" THEN UNCHANGED <<watched, guiQueue>>
             ELSE WatchSocket(t, {}, NoLink)
          /\ opened' = (opened /\ link.st = "null")
          /\ \/ /\ link' = NewLink("start")        \* PQconnectStart() is under way
                /\ stage' = "connecting"
                /\ Goto(t, "poll")
                /\ UNCHANGED <<queryState, workerQueue, verdict>>
             \/ /\ link' = NoLink                  \* and here it fails at once
                /\ EndRun(t, "notsent")
                /\ Goto(t, After(t))
                /\ UNCHANGED stage

(* asyncConnectionProceed(): one call of PQconnectPoll() and what follows.  *)
Poll(t) ==
    /\ pc[t] = "poll"
    /\ UNCHANGED <<queryFlushed, resentOnce, queryTmp, queryThread,
                   isNotification, bounds, server, history>>

PollAgain(t) ==
    /\ Poll(t) /\ link.st = "start"
    /\ link' = [link EXCEPT !.st = "wait"]
    /\ \E mode \in {{"r"}, {"w"}} : WatchSocket(t, mode, link)
    /\ Goto(t, After(t))
    /\ UNCHANGED <<queryState, workerQueue, verdict, stage, opened>>

PollFailed(t) ==
    /\ Poll(t) /\ link.st # "ok"
    /\ link' = Broken(link)
    /\ stage' = "none"
    /\ opened' = FALSE
    /\ WatchSocket(t, {}, NoLink)
    /\ EndRun(t, "notsent")
    /\ Goto(t, After(t))

PollOk(t) ==
    /\ Poll(t) /\ link.st \in {"wait", "ok"}
    /\ link' = [link EXCEPT !.st = "ok"]
    /\ stage' = "none"
    /\ opened' = TRUE
    /\ IF queryState = "Reconnecting"
       THEN Goto(t, "resend") /\ UNCHANGED <<watched, guiQueue>>
       ELSE Goto(t, After(t)) /\ WatchSocket(t, {}, link)
    /\ UNCHANGED <<queryState, workerQueue, verdict>>

-----------------------------------------------------------------------------
(* The slots of the notifiers.  Each looks for the handle first and decides *)
(* by the stage, and only then takes the guard for its own section.         *)
Idle == pc[GUI] = "idle"
HandlerBegins(label) ==
    /\ Goto(GUI, label)
    /\ UNCHANGED <<members, queryThread, link, watched, isNotification, guiQueue,
                   workerQueue, bounds, server, verdict, history>>

(* A server may send something at any time (a notice, a notification, a     *)
(* parameter report), so a link that is watched may always be readable.     *)
ReadyReadSocket ==
    /\ Idle /\ "r" \in watched /\ link.st \in {"wait", "ok"}
    /\ HandlerBegins(CASE stage = "connecting" -> "poll"
                       [] stage = "flush" -> "flushread"
                       [] OTHER -> "enter")

ReadyWriteSocket ==
    /\ Idle /\ "w" \in watched /\ link.st \in {"wait", "ok"}
    /\ HandlerBegins(IF stage = "connecting" THEN "poll" ELSE "write")

(* readyReadSocket() at stage flush, up to its call of readyWriteSocket().  *)
FlushRead ==
    /\ pc[GUI] = "flushread"
    /\ UNCHANGED <<queryTmp, queryThread, isNotification, bounds, executed, history>>
    /\ \/ /\ ReadFails(link)
          /\ LinkLostMidQuery(GUI, link, queryFlushed, resentOnce,
                              queryState # "Inactive", queryTmp)
          /\ UNCHANGED queryFlushed
       \/ /\ ~ReadFails(link) /\ link' \in Pushed(link)
          /\ Goto(GUI, "flushed")
          /\ UNCHANGED <<queryState, stage, opened, queryFlushed, resentOnce, watched,
                         guiQueue, workerQueue, verdict, orphans>>
       \/ /\ "read" \in Failures /\ ~ReadFails(link)      \* PQconsumeInput() fails by itself
          /\ EndRun(GUI, "notsent")
          /\ stage' = "none"
          /\ WatchSocket(GUI, {"r"}, link)
          /\ Goto(GUI, "idle")
          /\ UNCHANGED <<opened, queryFlushed, resentOnce, link, orphans>>

(* (A mutant: readyWriteSocket() is not called at the end.)                 *)
FlushReadDoneAlone == pc[GUI] = "flushed" /\ HandlerBegins("idle")

FlushReadDone ==
    /\ pc[GUI] = "flushed"
    /\ HandlerBegins(CASE link.st = "null" -> "idle"
                       [] link.st # "null" /\ stage = "connecting" -> "poll"
                       [] OTHER -> "write")

(* readyWriteSocket() under the guard.                                      *)
Write ==
    /\ pc[GUI] = "write"
    /\ UNCHANGED <<queryTmp, queryThread, isNotification, bounds, executed, history>>

(* (A mutant: _query_flushed is not set.)                                   *)
WriteWholeUnrecorded ==
    /\ Write /\ stage = "flush" /\ link.st \notin {"null", "bad"}
    /\ link' = Whole(link)
    /\ stage' = "wait_ready_read"
    /\ WatchSocket(GUI, {"r"}, link)
    /\ Goto(GUI, "idle")
    /\ UNCHANGED <<queryState, workerQueue, verdict, opened, queryFlushed, resentOnce, orphans>>

WriteWhole ==
    /\ Write /\ stage = "flush" /\ link.st \notin {"null", "bad"}
    /\ link' = Whole(link)
    /\ queryFlushed' = TRUE
    /\ stage' = "wait_ready_read"
    /\ WatchSocket(GUI, {"r"}, link)
    /\ Goto(GUI, "idle")
    /\ UNCHANGED <<queryState, workerQueue, verdict, opened, resentOnce, orphans>>

WritePart ==
    /\ Write /\ stage = "flush" /\ link.st = "ok" /\ link.up /\ link.wire
    /\ link' \in Partial(link)
    /\ Goto(GUI, "idle")
    /\ UNCHANGED <<queryState, workerQueue, verdict, stage, opened, queryFlushed,
                   resentOnce, orphans, watched, guiQueue>>

WriteFailed ==
    /\ Write /\ stage = "flush"
    /\ link.st \in {"null", "bad"} \/ (link.st = "ok" /\ ~link.up /\ link.wire)
    /\ LinkLostMidQuery(GUI, link, queryFlushed, resentOnce,
                        queryState # "Inactive", queryTmp)
    /\ UNCHANGED queryFlushed

WriteNothing ==
    /\ Write /\ stage # "flush"
    /\ WatchSocket(GUI, {"r"}, link)
    /\ Goto(GUI, "idle")
    /\ UNCHANGED <<queryState, workerQueue, verdict, stage, opened, queryFlushed,
                   resentOnce, link, orphans>>

-----------------------------------------------------------------------------
(* fetch(): what the data is about, then one pass of its loop per step.     *)
FetchBegins ==
    /\ pc[GUI] = "enter"
    /\ isNotification' = (IsIdle(link) /\ queryState = "Inactive")
    /\ Goto(GUI, "fetch")
    /\ UNCHANGED <<members, queryThread, link, watched, guiQueue, workerQueue,
                   bounds, server, verdict, history>>

Fetch ==
    /\ pc[GUI] = "fetch"
    /\ UNCHANGED <<queryFlushed, queryTmp, queryThread, isNotification, bounds,
                   executed, history>>

FetchLinkLost ==
    /\ Fetch /\ ReadFails(link) /\ ~isNotification
    /\ LinkLostMidQuery(GUI, link, queryFlushed, resentOnce,
                        queryState # "Inactive", queryTmp)

FetchIdleLinkLost ==
    /\ Fetch /\ ReadFails(link) /\ isNotification
    /\ stage' = "none"
    /\ opened' = FALSE
    /\ WatchSocket(GUI, {}, NoLink)
    /\ EndRun(GUI, "notsent")
    /\ link' = Broken(link)
    /\ Goto(GUI, "lost")
    /\ UNCHANGED <<resentOnce, orphans>>

(* (A mutant: PQisBusy() is not asked.)                                     *)
NeverBusy(l) == FALSE
Busy(l) == l.run # 0 /\ ~Answer(l)

FetchNothing ==
    /\ Fetch /\ ~ReadFails(link)
    /\ link' \in Pushed(link)
    /\ Busy(link') \/ isNotification \/ "read" \in Failures
    /\ Goto(GUI, "idle")
    /\ UNCHANGED <<queryState, workerQueue, verdict, stage, opened, resentOnce,
                   orphans, watched, guiQueue>>

FetchResult ==
    /\ Fetch /\ ~isNotification /\ ~ReadFails(link)
    /\ Answer(link) /\ link.srv = "ran"
    /\ link' = [link EXCEPT !.srv = "read"]
    /\ UNCHANGED <<queryState, workerQueue, verdict, stage, opened, resentOnce,
                   orphans, watched, guiQueue, pc>>

(* PQgetResult() returns nullptr: the query's last result has been read, or *)
(* no query was in progress on this session.                                *)
FetchEnd ==
    /\ Fetch /\ ~isNotification /\ ~ReadFails(link) /\ ~Busy(link)
    /\ link.srv # "ran"
    /\ \E txn \in IF link.srv = "read" THEN {"idle", "intrans", "inerror"} ELSE {link.txn} :
          link' = [link EXCEPT !.run = 0, !.srv = "idle", !.txn = txn]
    /\ Goto(GUI, "answered")
    /\ UNCHANGED <<queryState, workerQueue, verdict, stage, opened, resentOnce,
                   orphans, watched, guiQueue>>

(* The end of the processing, after the guard is released.                  *)
FetchFinished ==
    /\ pc[GUI] = "answered"
    /\ stage' = "none"
    /\ EndRun(GUI, "answered")
    /\ Goto(GUI, "idle")
    /\ UNCHANGED <<opened, queryFlushed, resentOnce, queryTmp, queryThread, link,
                   watched, isNotification, guiQueue, bounds, server, history>>

-----------------------------------------------------------------------------
(* close() called in the gui thread: by the worker when there is one        *)
(* running, with the gui thread blocked until its event loop has done it or *)
(* has ended, and directly otherwise.                                       *)
HasWorker ==
    queryThread # 0 /\ pc[queryThread] \notin {"none", "gone"}

Close(waiting, done) ==
    IF HasWorker
    THEN /\ workerQueue' = [workerQueue EXCEPT ![queryThread] = Append(@, "close")]
         /\ Goto(GUI, waiting)
         /\ UNCHANGED <<link, opened, orphans, watched, guiQueue>>
    ELSE /\ CloseLocked(GUI, link)
         /\ Goto(GUI, done)
         /\ UNCHANGED workerQueue

CloseDone(waiting, done) ==
    /\ pc[GUI] = waiting
    /\ \A i \in DOMAIN workerQueue[queryThread] : workerQueue[queryThread][i] # "close"
    /\ HandlerBegins(done)

(* An idle link was lost: fetch() releases it.                              *)
IdleLinkClose ==
    /\ pc[GUI] = "lost"
    /\ Close("lostwait", "idle")
    /\ UNCHANGED <<queryState, stage, queryFlushed, resentOnce, queryTmp, queryThread,
                   isNotification, bounds, executed, verdict, history>>
IdleLinkClosed == CloseDone("lostwait", "idle")

(* The database menu: setDatabase(), which closes the link, and open().     *)
SwitchDatabase ==
    /\ Idle /\ switches < MaxSwitch
    /\ switches' = switches + 1
    /\ Close("closing", "reopen")
    /\ UNCHANGED <<queryState, stage, queryFlushed, resentOnce, queryTmp, queryThread,
                   isNotification, nrun, drops, cancels, executed, verdict, history>>
SwitchClosed == CloseDone("closing", "reopen")

SwitchOpen ==
    /\ pc[GUI] = "reopen"
    /\ Goto(GUI, "idle")
    /\ IF link.st = "ok"
       THEN UNCHANGED <<link, opened, orphans, watched>>
       ELSE /\ orphans' = orphans \cup Orphaned(link)
            /\ link' \in {NoLink, NewLink("ok")}
            /\ opened' = (link'.st = "ok")
            /\ IF link'.st = "ok" THEN watched' = {"r"}
               ELSE watched' = IF link.st = "null" THEN watched ELSE {}
    /\ UNCHANGED <<queryState, stage, queryFlushed, resentOnce, queryTmp, queryThread,
                   isNotification, guiQueue, workerQueue, bounds, executed, verdict,
                   history>>

-----------------------------------------------------------------------------
(* cancel(), asked for by the user.                                         *)
Cancel ==
    /\ Idle /\ cancels < MaxCancel
    /\ link.st # "null" /\ queryState # "Inactive"
    /\ cancels' = cancels + 1
    /\ UNCHANGED <<members, queryThread, link, watched, isNotification, guiQueue,
                   nrun, drops, switches, server, verdict, history>>

(* A repeated request, one with Shift, or one with nothing to cancel yet:   *)
(* the link is to be dropped.                                               *)
CancelByClosing ==
    /\ Cancel /\ "close" \in CancelKinds
    /\ Emit(GUI, "closeConnectionWanted")
    /\ UNCHANGED pc

(* PQcancel() succeeds; the state is set after the guard is released.       *)
CancelRequest ==
    /\ Cancel /\ "request" \in CancelKinds
    /\ queryState # "Cancelling" /\ stage # "connecting" /\ link.st = "ok"
    /\ Goto(GUI, "cancelled")
    /\ UNCHANGED workerQueue

CancelRequested ==
    /\ pc[GUI] = "cancelled"
    /\ queryState' = "Cancelling"
    /\ Goto(GUI, "idle")
    /\ UNCHANGED <<stage, opened, queryFlushed, resentOnce, queryTmp, queryThread, link,
                   watched, isNotification, guiQueue, workerQueue, bounds, server,
                   verdict, history>>

-----------------------------------------------------------------------------
(* The calls queued to the gui thread.                                      *)
NextCall(call) ==
    /\ Idle /\ guiQueue # <<>> /\ Head(guiQueue).call = call
    /\ guiQueue' = Tail(guiQueue)

WatchSocketQueued ==
    /\ NextCall("watch")
    /\ watched' = IF HasSocket(link) THEN Head(guiQueue).mode ELSE {}
    /\ UNCHANGED <<members, queryThread, link, pc, isNotification, workerQueue, bounds,
                   server, verdict, history>>

(* The slot of QThread::finished: only the thread of the last run counts.   *)
ThreadFinished ==
    /\ NextCall("finished")
    /\ IF queryThread = Head(guiQueue).run
       THEN /\ queryThread' = 0
            /\ finished' = finished \cup {Head(guiQueue).run}
            /\ link' = IF TransactionStatus(link) = "inerror"
                       THEN IF link.up THEN [link EXCEPT !.txn = "idle"] ELSE Broken(link)
                       ELSE link
            /\ watched' = IF HasSocket(link') THEN {"r"} ELSE {}
       ELSE UNCHANGED <<queryThread, finished, link, watched>>
    /\ UNCHANGED <<members, pc, isNotification, workerQueue, bounds, server, verdict,
                   resends, inTransaction, clarified>>

-----------------------------------------------------------------------------
(* The worker after run_query.                                              *)
Looping(w) == w \in Runs /\ pc[w] = "loop"
NextSignal(w, signal) ==
    Looping(w) /\ workerQueue[w] # <<>> /\ Head(workerQueue[w]) = signal
Rest(w) == [workerQueue EXCEPT ![w] = Tail(@)]

(* (A mutant: the worker leaves without looking at the state.)              *)
CheckExitAtOnce(w) ==
    /\ w \in Runs /\ pc[w] = "check"
    /\ Goto(w, "quit")
    /\ UNCHANGED <<members, queryThread, link, watched, isNotification, guiQueue,
                   workerQueue, bounds, server, verdict, history>>

CheckExit(w) ==
    /\ w \in Runs /\ pc[w] = "check"
    /\ Goto(w, IF queryState = "Inactive" THEN "quit" ELSE "loop")
    /\ UNCHANGED <<members, queryThread, link, watched, isNotification, guiQueue,
                   workerQueue, bounds, server, verdict, history>>

(* The run has ended: the tables get their column types, the thread quits.  *)
RunEnded(w) ==
    /\ NextSignal(w, "Inactive")
    /\ workerQueue' = Rest(w)
    /\ clarified' = clarified \cup {w}
    /\ WatchSocket(w, {}, link)
    /\ Goto(w, "quit")
    /\ UNCHANGED <<members, queryThread, link, isNotification, bounds, server, verdict,
                   resends, inTransaction, finished>>

CloseConnectionWanted(w) ==
    /\ NextSignal(w, "closeConnectionWanted")
    /\ UNCHANGED <<stage, queryFlushed, resentOnce, queryTmp, queryThread, pc,
                   isNotification, bounds, executed, history>>
    /\ IF link.st = "null"
       THEN /\ workerQueue' = Rest(w)
            /\ UNCHANGED <<queryState, link, opened, orphans, watched, guiQueue, verdict>>
       ELSE /\ CloseLocked(w, link)
            /\ queryState' = "Inactive"
            /\ IF queryState = "Inactive"
               THEN workerQueue' = Rest(w) /\ UNCHANGED verdict
               ELSE /\ workerQueue' = Emitted(Rest(w), w, "Inactive")
                    /\ verdict' = [verdict EXCEPT ![queryTmp] =
                                     IF @ = "none" THEN "closed" ELSE @]

CloseCalled(w) ==
    /\ NextSignal(w, "close")
    /\ workerQueue' = Rest(w)
    /\ CloseLocked(w, link)
    /\ UNCHANGED <<queryState, stage, queryFlushed, resentOnce, queryTmp, queryThread, pc,
                   isNotification, bounds, executed, verdict, history>>

(* The event loop is left with whatever is still queued to it.              *)
WorkerFinished(w) ==
    /\ w \in Runs /\ pc[w] = "quit"
    /\ Goto(w, "gone")
    /\ workerQueue' = [workerQueue EXCEPT ![w] = <<>>]
    /\ guiQueue' = Append(guiQueue, FinishedCall(w))
    /\ UNCHANGED <<members, queryThread, link, watched, isNotification, bounds, server,
                   verdict, history>>

-----------------------------------------------------------------------------
(* The server and the link.                                                 *)
ServerExecutes ==
    /\ link.st = "ok" /\ link.up /\ link.srv = "todo"
    /\ link' = [link EXCEPT !.srv = "ran"]
    /\ executed' = [executed EXCEPT ![link.run] = @ + 1]
    /\ UNCHANGED <<members, queryThread, watched, pc, isNotification, guiQueue,
                   workerQueue, bounds, orphans, verdict, history>>

OrphanExecutes ==
    /\ \E r \in orphans :
          /\ executed' = [executed EXCEPT ![r] = @ + 1]
          /\ orphans' = orphans \ {r}
    /\ UNCHANGED <<members, queryThread, link, watched, pc, isNotification, guiQueue,
                   workerQueue, bounds, verdict, history>>

(* The session ends: what the server was about to do may still happen, and  *)
(* an answer on its way may be lost.                                        *)
LinkDies ==
    /\ link.st = "ok" /\ link.up /\ drops < MaxDrop
    /\ drops' = drops + 1
    /\ orphans' = orphans \cup Orphaned(link)
    /\ \E srv \in {link.srv, "idle"} \ {"todo"} :
          link' = [link EXCEPT !.up = FALSE, !.srv = srv]
    /\ UNCHANGED <<members, queryThread, watched, pc, isNotification, guiQueue,
                   workerQueue, nrun, cancels, switches, executed, verdict, history>>

-----------------------------------------------------------------------------
Drive(t) ==
    \/ RunQueryNoLink(t) \/ RunQueryRefused(t) \/ RunQuerySent(t)
    \/ RunQueryWriteFailed(t) \/ TransactionLost(t)
    \/ OpenAsync(t) \/ PollAgain(t) \/ PollFailed(t) \/ PollOk(t)

Notifier == ReadyReadSocket \/ ReadyWriteSocket

Handler ==
    \/ FlushRead \/ FlushReadDone \/ WriteWhole \/ WritePart \/ WriteFailed \/ WriteNothing
    \/ FetchBegins \/ FetchLinkLost \/ FetchIdleLinkLost \/ FetchNothing
    \/ FetchResult \/ FetchEnd \/ FetchFinished
    \/ IdleLinkClose \/ IdleLinkClosed \/ SwitchClosed \/ SwitchOpen
    \/ CancelRequested

Worker(w) ==
    \/ CheckExit(w) \/ RunEnded(w) \/ CloseConnectionWanted(w) \/ CloseCalled(w)
    \/ WorkerFinished(w)

User == ExecuteAsync \/ SwitchDatabase \/ CancelByClosing \/ CancelRequest

Environment == ServerExecutes \/ OrphanExecutes \/ LinkDies

Next ==
    \/ User \/ Notifier \/ Handler \/ WatchSocketQueued \/ ThreadFinished
    \/ \E t \in Thread : Drive(t)
    \/ \E w \in Runs : Worker(w)
    \/ Environment

Spec == Init /\ [][Next]_vars

(* The threads run, Qt delivers what is queued and what the sockets report, *)
(* and the server answers; nobody has to ask for anything, a link need not  *)
(* die, and a lost session need not execute what it received.               *)
Fairness ==
    /\ \A t \in Thread : WF_vars(Drive(t))
    /\ \A w \in Runs : WF_vars(Worker(w))
    /\ WF_vars(Handler)
    /\ SF_vars(ReadyReadSocket) /\ SF_vars(ReadyWriteSocket)
    /\ SF_vars(WatchSocketQueued \/ ThreadFinished)
    /\ SF_vars(WriteWhole)
    /\ WF_vars(ServerExecutes)

FairSpec == Spec /\ Fairness

-----------------------------------------------------------------------------
DriveAt == {"open", "poll", "resend", "dropped"}
GuiAt == DriveAt \cup {"idle", "flushread", "flushed", "enter", "write", "fetch",
             "answered", "lost", "lostwait", "closing", "reopen", "cancelled"}
WorkerAt == DriveAt \cup {"none", "start", "check", "loop", "quit", "gone"}
(* Every variable has its type.                                             *)
TypeOK ==
    /\ queryState \in QueryState /\ stage \in Stage
    /\ opened \in BOOLEAN /\ queryFlushed \in BOOLEAN /\ resentOnce \in BOOLEAN
    /\ queryTmp \in 0..MaxRun /\ queryThread \in 0..MaxRun
    /\ link \in Link
    /\ watched \in SUBSET {"r", "w"}
    /\ pc \in [Thread -> GuiAt \cup WorkerAt]
    /\ pc[GUI] \in GuiAt /\ \A w \in Runs : pc[w] \in WorkerAt
    /\ isNotification \in BOOLEAN
    /\ guiQueue \in Seq(GuiCall)
    /\ workerQueue \in [Runs -> Seq(Signal)]
    /\ nrun \in 0..MaxRun /\ drops \in Nat /\ cancels \in Nat /\ switches \in Nat
    /\ orphans \in SUBSET (0..MaxRun)
    /\ executed \in [Runs -> Nat]
    /\ verdict \in [Runs -> Verdict]
    /\ resends \in [Runs -> Nat]
    /\ inTransaction \in SUBSET Runs
    /\ clarified \in SUBSET Runs /\ finished \in SUBSET Runs

(* The server executes the text of a run at most once, however often the    *)
(* link is lost and the query sent again (run_query, linkLostMidQuery).     *)
AtMostOnce == \A r \in Runs : executed[r] <= 1

(* What the connection reports about a run is what became of it: a run      *)
(* reported as answered was executed, and one reported as a failure to send *)
(* has not been executed and will not be.                                   *)
VerdictTrue ==
    \A r \in Runs :
       /\ verdict[r] = "answered" => executed[r] = 1
       /\ verdict[r] = "notsent" =>
             executed[r] = 0 /\ r \notin orphans /\ ~(link.run = r /\ link.srv = "todo")

(* A run whose end has been reported is never sent again behind the user's  *)
(* back (executeAsync("") after a reconnect).                               *)
NeverSentAfterTheEnd ==
    [][\A r \in Runs : verdict[r] # "none" => resends'[r] = resends[r]]_vars

(* Nothing is under way in any thread; only the sockets or the user can     *)
(* start something.                                                         *)
AtRest ==
    /\ pc[GUI] = "idle" /\ guiQueue = <<>>
    /\ \A w \in Runs : pc[w] \in {"none", "gone"}
                       \/ (pc[w] = "loop" /\ workerQueue[w] = <<>>)

(* Once everything has settled an inactive connection owes nothing: no      *)
(* query is left on its session, and no worker waits for one.               *)
InactiveIsFree ==
    AtRest /\ queryState = "Inactive" =>
       queryThread = 0 /\ (link.st = "ok" => link.run = 0)

(* Where isOpened() says yes there is a handle to ask (context(),           *)
(* dbmsInfo() pass it to libpq).                                            *)
OpenedHasHandle == opened => link.st # "null"

(* A thread that reconnects, between the guarded sections of run_query,     *)
(* openAsync() and asyncConnectionProceed(), is the only one that does, and *)
(* no worker starts a query meanwhile.                                      *)
Driving == {"open", "poll", "resend"}
OneDriver ==
    \A t, u \in Thread :
       pc[t] \in Driving /\ pc[u] \in Driving \cup {"start"} => t = u

(* queryFinished() is emitted for a run whose end has been reported.        *)
FinishedAfterEnd == \A r \in finished : verdict[r] # "none"

(* Every accepted run gets its queryFinished().                             *)
EveryRunFinishes == \A r \in Runs : nrun >= r ~> r \in finished

(* The connection keeps the promise of RunPromise.                          *)
Promise == INSTANCE RunPromise WITH Run <- Runs, accepted <- 1..nrun
KeepsPromise == Promise!Spec

(* Statements of the code's own comments, for the runs that refute them.    *)

(* pgconnection.h: a query is resent at most once per run.                  *)
ResentAtMostOnce == \A r \in Runs : resends[r] <= 1

(* pgconnection.cpp, linkLostMidQuery(): a query of an open transaction is  *)
(* not sent again on a fresh session.                                       *)
TransactionNotReplayed == \A r \in inTransaction : resends[r] = 0

(* querywidget.cpp, on queryFinished(): the connection's own tables have    *)
(* acquired their column types.                                             *)
TablesClarified == \A r \in finished : verdict[r] = "answered" => r \in clarified

=============================================================================
