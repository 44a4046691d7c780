---- MODULE ResultRows ----
(***************************************************************************)
(* The rows of a query on their way to the screen.                         *)
(*                                                                         *)
(* The thread of the run appends rows to tables the connection owns and    *)
(* tells the tab now and then; the tab, in the gui thread, moves what has  *)
(* come so far into a view of that table, or into the charts the text of   *)
(* the query asks for.  A view knows its table by the table's address.     *)
(* The next run frees the tables; a query on a timer is run again without  *)
(* clearing what is shown.  At its end the run's thread clarifies the      *)
(* types of the columns.  Rows are numbered as the server sends them.      *)
(***************************************************************************)
EXTENDS Integers, Sequences, SequencesExt

CONSTANTS
    TableAddresses, \* where a table may be allocated
    NotifyEvery,    \* FETCH_COUNT_NOTIFY
    MaxSent,        \* bound: rows of a result
    MaxTables,      \* bound: tables of a run
    MaxQueries      \* bound: runs of one behaviour

ASSUME ResultRowsBounds ==
    /\ NotifyEvery \in Nat \ {0} /\ "none" \notin TableAddresses
    /\ {MaxSent, MaxTables, MaxQueries} \subseteq Nat

VARIABLES
    running,        \* queryState() is Running
    tables,         \* the live tables: address -> [columns, rows]
    resultsets,     \* _resultsets
    tempResult,     \* _temp_result
    tempRows,       \* _temp_result_rowcount
    clarify,        \* the worker has yet to handle the end of the run
    unclear,        \* the tables it has before it, while it holds _resultsetsGuard
    posted,         \* signals on their way to the tab
    querySettings,  \* what is shown of the query: "tables" or "charts"
    timer,          \* _timer is active
    views,          \* the views of _resSplitter: [name, rows]
    plotted,        \* what the charts have been given
    copying,        \* the table whose columns the gui thread copies
    sent,           \* rows the server has sent since the result was cleared
    overtaken,      \* one of the runs shown has started before the signals of its last were handled
    queries

rowVars == <<running, tables, resultsets, tempResult, tempRows, clarify, unclear, posted,
             querySettings, timer, views, plotted, copying, sent, overtaken, queries>>
workerVars == <<running, resultsets, tempResult, tempRows, clarify, unclear, sent>>
shownVars == <<querySettings, timer, views, plotted, copying, overtaken, queries>>

NoTable == "none"
Fetched(a) == [signal |-> "fetched", table |-> a]
Inactive == [signal |-> "inactive", table |-> NoTable]
Pending == \E i \in DOMAIN posted : posted[i].signal = "fetched"
-----------------------------------------------------------------------------
(* The thread of the run.                                                  *)

\* fetch: the first result of a statement makes a table.
NewTable(a) ==
    /\ running /\ tempResult = NoTable /\ unclear = <<>> /\ Len(resultsets) < MaxTables
    /\ a \notin DOMAIN tables
    /\ tables' = [x \in DOMAIN tables \cup {a} |->
                    IF x = a THEN [columns |-> "raw", rows |-> <<>>] ELSE tables[x]]
    /\ resultsets' = Append(resultsets, a)
    /\ tempResult' = a /\ tempRows' = 0
    /\ UNCHANGED <<running, clarify, unclear, sent, posted, shownVars>>

\* appendRawDataToTable: a row, under the table's lock.
AppendRow ==
    /\ running /\ tempResult # NoTable /\ sent < MaxSent
    /\ tables' = [tables EXCEPT ![tempResult].rows = Append(@, sent + 1)]
    /\ tempRows' = tempRows + 1 /\ sent' = sent + 1
    /\ posted' = IF tempRows' % NotifyEvery = 0 THEN Append(posted, Fetched(tempResult)) ELSE posted
    /\ UNCHANGED <<running, resultsets, tempResult, clarify, unclear, shownVars>>

\* The table is complete, or ends with an error, which brings no columns: what
\* the tab has not been told of is announced.
EndTable(failed) ==
    /\ running /\ tempResult # NoTable
    /\ posted' = IF (tempRows = 0 /\ ~failed) \/ tempRows % NotifyEvery # 0
                 THEN Append(posted, Fetched(tempResult)) ELSE posted
    /\ tempResult' = NoTable
    /\ UNCHANGED <<running, tables, resultsets, tempRows, clarify, unclear, sent, shownVars>>

\* The end of the results, or a link lost in the middle of them.
RunOver(lost) ==
    /\ running /\ (lost \/ tempResult = NoTable)
    /\ running' = FALSE /\ clarify' = TRUE
    /\ posted' = Append(posted, Inactive)
    /\ UNCHANGED <<tables, resultsets, tempResult, tempRows, unclear, sent, shownVars>>

\* The worker's slot of queryStateChanged: typeInfo of every column, then
\* clarifyType, table by table.
ClarifyTables ==
    /\ clarify /\ unclear = <<>>
    /\ clarify' = FALSE /\ unclear' = resultsets
    /\ UNCHANGED <<running, tables, resultsets, tempResult, tempRows, sent, posted, shownVars>>
ClarifyTable ==
    /\ unclear # <<>>
    /\ tables' = [tables EXCEPT ![Head(unclear)].columns = "clear"]
    /\ unclear' = Tail(unclear)
    /\ UNCHANGED <<running, resultsets, tempResult, tempRows, clarify, sent, posted, shownVars>>
-----------------------------------------------------------------------------
(* The tab.                                                                *)

Shown == FlattenSeq([i \in DOMAIN views |-> views[i].rows]) \o plotted
Unread == FlattenSeq([i \in DOMAIN resultsets |-> tables[resultsets[i]].rows])

\* executeAsync: the tables of the last run are freed.
Start ==
    /\ ~running /\ copying = NoTable /\ unclear = <<>> /\ queries < MaxQueries
    /\ queries' = queries + 1
    /\ running' = TRUE
    /\ tables' = <<>> /\ resultsets' = <<>> /\ tempResult' = NoTable /\ tempRows' = 0
    /\ overtaken' = (Pending \/ (timer /\ overtaken))
    /\ UNCHANGED <<clarify, unclear, posted, copying>>

\* executeQuery: the result is cleared; the instructions of a huge text are
\* not read, and those of the last one stay.
Execute(asks) ==
    /\ ~timer /\ Start
    /\ views' = <<>> /\ plotted' = <<>> /\ sent' = 0
    /\ querySettings' = CASE asks = "huge" -> querySettings
                          [] asks = "tables" -> "tables"
                          [] OTHER -> "charts"
    /\ timer' = (asks = "timed")

\* executeOnTimer: the same text again; rows of a table that was cut off by the
\* loss of the link are gone with it.
Timeout ==
    /\ timer /\ Start
    /\ sent' = Len(Shown)
    /\ UNCHANGED <<querySettings, timer, views, plotted>>

stopTimer ==
    /\ timer /\ copying = NoTable
    /\ timer' = FALSE
    /\ UNCHANGED <<workerVars, tables, posted, querySettings, views, plotted, copying, overtaken, queries>>

\* A mutant: the rows stay in the table they were taken from.
TakeRowsLeaving(a) == tables' = tables

\* takeRows, under the table's lock.
TakeRows(a) == tables' = [tables EXCEPT ![a].rows = <<>>]

ViewOf(a) == views # <<>> /\ Last(views).name = a
Fetches(a) ==
    /\ posted # <<>> /\ Head(posted) = Fetched(a) /\ a \in DOMAIN tables /\ copying = NoTable

\* fetched: into the charts,
FetchedForCharts(a) ==
    /\ Fetches(a) /\ querySettings = "charts"
    /\ plotted' = plotted \o tables[a].rows
    /\ TakeRows(a)
    /\ posted' = Tail(posted)
    /\ UNCHANGED <<workerVars, querySettings, timer, views, copying, overtaken, queries>>

\* ... into the view of the table, when it is the last one,
FetchedForView(a) ==
    /\ Fetches(a) /\ querySettings = "tables" /\ ViewOf(a)
    /\ views' = [views EXCEPT ![Len(views)].rows = @ \o tables[a].rows]
    /\ TakeRows(a)
    /\ posted' = Tail(posted)
    /\ UNCHANGED <<workerVars, querySettings, timer, plotted, copying, overtaken, queries>>

\* ... or into a new one, which first takes copies of the columns, unlocked.
FetchedForNewView(a) ==
    /\ Fetches(a) /\ querySettings = "tables" /\ ~ViewOf(a)
    /\ copying' = a
    /\ UNCHANGED <<workerVars, tables, posted, querySettings, timer, views, plotted, overtaken, queries>>
Take ==
    /\ copying # NoTable
    /\ views' = Append(views, [name |-> copying, rows |-> tables[copying].rows])
    /\ TakeRows(copying)
    /\ copying' = NoTable
    /\ posted' = Tail(posted)
    /\ UNCHANGED <<workerVars, querySettings, timer, plotted, overtaken, queries>>

\* The end of the run, or a signal of tables freed by an overtaking run.
OtherSignal ==
    /\ posted # <<>> /\ copying = NoTable
    /\ Head(posted) = Inactive \/ Head(posted).table \notin DOMAIN tables
    /\ posted' = Tail(posted)
    /\ UNCHANGED <<workerVars, tables, shownVars>>
-----------------------------------------------------------------------------
RowsInit ==
    /\ running = FALSE /\ tables = <<>> /\ resultsets = <<>> /\ tempResult = NoTable /\ tempRows = 0
    /\ clarify = FALSE /\ unclear = <<>> /\ posted = <<>>
    /\ querySettings = "tables" /\ timer = FALSE /\ views = <<>> /\ plotted = <<>>
    /\ copying = NoTable /\ sent = 0 /\ overtaken = FALSE /\ queries = 0

RowsNext ==
    \/ \E a \in TableAddresses :
         NewTable(a) \/ FetchedForCharts(a) \/ FetchedForView(a) \/ FetchedForNewView(a)
    \/ AppendRow \/ ClarifyTables \/ ClarifyTable
    \/ \E failed \in BOOLEAN : EndTable(failed)
    \/ \E lost \in BOOLEAN : RunOver(lost)
    \/ \E asks \in {"tables", "charts", "timed", "huge"} : Execute(asks)
    \/ Timeout \/ stopTimer \/ Take \/ OtherSignal

RowsSpec == RowsInit /\ [][RowsNext]_rowVars
-----------------------------------------------------------------------------
RowsTypeOK ==
    /\ DOMAIN tables \subseteq TableAddresses
    /\ \A a \in DOMAIN tables :
         /\ tables[a].columns \in {"raw", "clear"}
         /\ Len(tables[a].rows) <= MaxSent
    /\ tempResult \in {NoTable} \cup DOMAIN tables
    /\ copying \in {NoTable} \cup DOMAIN tables
    /\ querySettings \in {"tables", "charts"}
    /\ {running, clarify, timer, overtaken} \subseteq BOOLEAN

\* For runs that start after the signals of the last have been handled: every
\* row the server sent is on the screen or in its table, once and in the
\* server's order, whatever moment the tab takes rows at and wherever tables
\* are allocated; no signal names a table that is gone; and when a run is over
\* and its signals handled, only the table a lost link has cut off keeps rows
\* nobody was told of (fetch, appendRawDataToTable, fetched, take, takeRows).
RowsShownOnce ==
    ~overtaken =>
        /\ Shown \o Unread = [i \in 1..sent |-> i]
        /\ \A i \in DOMAIN posted :
             posted[i].signal = "fetched" => posted[i].table \in DOMAIN tables
        /\ ~running /\ ~Pending =>
             \A a \in DOMAIN tables : tables[a].rows # <<>> => a = tempResult

\* The columns of a table do not alter while the tab copies them
\* (TableModel::take's reason for taking no lock).
ColumnsAlone == copying # NoTable => ~ \E i \in DOMAIN unclear : unclear[i] = copying
====
