----------------------------- MODULE FileSearch -----------------------------
(***************************************************************************)
(* Search in files: the panel (filesearchpanel.cpp, FileSearchModel) starts*)
(* and stops searches in the gui thread, one worker thread walks the tree  *)
(* (FileSearchWorker in filesearch.cpp), and the two share nothing but the *)
(* counter _cancelBelow and the calls queued in both directions.  Every    *)
(* search has a generation, by which the results of an abandoned one are   *)
(* told apart.                                                             *)
(*                                                                         *)
(* A tree is the sequence of files the walk meets.  What a file's text and *)
(* the pattern come to is the sequence of the lines its matches are on, in *)
(* the order findHits() meets them.                                        *)
(***************************************************************************)
EXTENDS Integers, Sequences, FiniteSets

CONSTANTS
    Trees,      \* what a search may find below its folder
    MaxFiles,   \* bound: files below a folder
    MaxHits,    \* params.maxHits (0: no limit)
    BatchSize,  \* as many pending hits are sent at once (100 in the code)
    MaxSearch   \* bound: searches the user starts in one behaviour

(* The folder does not exist by the time of the walk.                       *)
NoFolder == <<[kind |-> "no folder", lines |-> <<>>]>>

InOrder(lines) == \A j, k \in DOMAIN lines : j < k => lines[j] <= lines[k]

ASSUME SearchAssumption ==
    /\ Trees \subseteq Seq([kind : {"skipped", "text"}, lines : Seq(Nat)])
    /\ \A t \in Trees : Len(t) <= MaxFiles /\ \A i \in DOMAIN t : InOrder(t[i].lines)
    /\ MaxFiles \in Nat /\ MaxHits \in Nat /\ BatchSize \in Nat \ {0} /\ MaxSearch \in Nat

VARIABLES
    generation,  \* _generation
    running,     \* _running
    rows,        \* the model: per file, a row for each line with its matchCount
    status,      \* what the status line says of the current search
    tree,        \* the tree of the current search
    open,        \* the panel exists
    cancelBelow, \* _cancelBelow, shared
    job,         \* the search() the worker executes
    toWorker,    \* queued calls of search()
    toPanel,     \* queued signals of the worker
    stopped      \* the generations the user has stopped

panel == <<generation, running, rows, status, tree>>
vars == <<panel, open, cancelBelow, job, toWorker, toPanel, stopped>>

NoJob == [gen |-> 0, tree |-> <<>>, at |-> 1, pending |-> <<>>, hits |-> 0,
          cancelled |-> FALSE, truncated |-> FALSE]
Working == job.gen # 0

-----------------------------------------------------------------------------
(* The model.  addHits() puts a further match on the last row of its file   *)
(* when that row is the match's line.                                       *)
Files == 1..MaxFiles
NoRows == [f \in Files |-> <<>>]

AddHit(shown, hit) ==
    LET file == shown[hit.file]
        last == Len(file)
    IN IF file # <<>> /\ file[last].line = hit.line
       THEN [shown EXCEPT ![hit.file][last].matchCount = @ + 1]
       ELSE [shown EXCEPT ![hit.file] = Append(@, [line |-> hit.line, matchCount |-> 1])]
\* ... hit by hit.
Adding(shown, hits) ==
    LET after[k \in 0..Len(hits)] == IF k = 0 THEN shown ELSE AddHit(after[k - 1], hits[k])
    IN after
AddHits(shown, hits) == Adding(shown, hits)[Len(hits)]

-----------------------------------------------------------------------------
Init ==
    /\ generation = 0 /\ running = FALSE /\ rows = NoRows
    /\ status = [says |-> "nothing", hits |-> 0] /\ tree = <<>>
    /\ open = TRUE
    /\ cancelBelow = 0
    /\ job = NoJob
    /\ toWorker = <<>> /\ toPanel = <<>>
    /\ stopped = {}

(* cancelUpTo(): the counter only grows.                                    *)
CancelUpTo(g) == cancelBelow' = IF cancelBelow < g THEN g ELSE cancelBelow

(* (A mutant: the new generation is taken before the old one is cancelled.) *)
StartSearchSwapped ==
    /\ open /\ generation < MaxSearch
    /\ generation' = generation + 1
    /\ CancelUpTo(generation + 1)
    /\ rows' = NoRows /\ running' = TRUE
    /\ status' = [says |-> "searching", hits |-> 0]
    /\ \E t \in Trees \cup {NoFolder} :
          tree' = t /\ toWorker' = Append(toWorker, [gen |-> generation + 1, tree |-> t])
    /\ UNCHANGED <<open, job, toPanel, stopped>>

(* startSearch() with something to search for.                              *)
StartSearch ==
    /\ open /\ generation < MaxSearch
    /\ CancelUpTo(generation)
    /\ generation' = generation + 1
    /\ rows' = NoRows
    /\ running' = TRUE
    /\ status' = [says |-> "searching", hits |-> 0]
    /\ \E t \in Trees \cup {NoFolder} :
          tree' = t /\ toWorker' = Append(toWorker, [gen |-> generation + 1, tree |-> t])
    /\ UNCHANGED <<open, job, toPanel, stopped>>

(* startSearch() with a pattern that does not compile: the search under way *)
(* goes on.                                                                 *)
StartSearchRefused ==
    /\ open
    /\ status' = [says |-> "invalid pattern", hits |-> 0]
    /\ UNCHANGED <<generation, running, rows, tree, open, cancelBelow, job, toWorker,
                   toPanel, stopped>>

StopSearch ==
    /\ open /\ running
    /\ CancelUpTo(generation)
    /\ stopped' = stopped \cup {generation}
    /\ UNCHANGED <<panel, open, job, toWorker, toPanel>>

(* The destructor: what is queued to the panel is dropped with it.          *)
Close ==
    /\ open
    /\ open' = FALSE
    /\ CancelUpTo(generation)
    /\ toPanel' = <<>>
    /\ UNCHANGED <<panel, job, toWorker, stopped>>

-----------------------------------------------------------------------------
(* The worker's signals, queued to the panel while there is one.            *)
Batch(g, hits) == [signal |-> "batch", gen |-> g, hits |-> hits]
Progress(g, n) == [signal |-> "progress", gen |-> g, hits |-> n]
Finished(j, error) ==
    [signal |-> "finished", gen |-> j.gen, hits |-> j.hits,
     says |-> IF error THEN "error" ELSE IF j.cancelled THEN "stopped"
              ELSE IF j.truncated THEN "limit" ELSE "done"]
Send(signals) == toPanel' = IF open THEN toPanel \o signals ELSE <<>>

Cancelled(g) == cancelBelow >= g

(* (A mutant: an abandoned search leaves without a word.)                   *)
TakeSearchSilently ==
    /\ ~Working /\ toWorker # <<>>
    /\ toWorker' = Tail(toWorker)
    /\ LET call == Head(toWorker)
           begun == [NoJob EXCEPT !.gen = call.gen]
       IN \/ Cancelled(call.gen) /\ UNCHANGED <<job, toPanel>>
          \/ /\ ~Cancelled(call.gen) /\ call.tree = NoFolder
             /\ Send(<<Finished(begun, TRUE)>>) /\ UNCHANGED job
          \/ /\ ~Cancelled(call.gen) /\ call.tree # NoFolder
             /\ job' = [begun EXCEPT !.tree = call.tree] /\ UNCHANGED toPanel
    /\ UNCHANGED <<panel, open, cancelBelow, stopped>>

(* (A mutant: the folder is not looked for before the walk.)                *)
TakeSearchUnchecked ==
    /\ ~Working /\ toWorker # <<>>
    /\ toWorker' = Tail(toWorker)
    /\ LET call == Head(toWorker)
           begun == [NoJob EXCEPT !.gen = call.gen]
       IN IF Cancelled(call.gen)
          THEN Send(<<Finished([begun EXCEPT !.cancelled = TRUE], FALSE)>>) /\ UNCHANGED job
          ELSE job' = [begun EXCEPT !.tree = call.tree] /\ UNCHANGED toPanel
    /\ UNCHANGED <<panel, open, cancelBelow, stopped>>

(* search(): up to the walk.                                                *)
TakeSearch ==
    /\ ~Working /\ toWorker # <<>>
    /\ toWorker' = Tail(toWorker)
    /\ LET call == Head(toWorker)
           begun == [NoJob EXCEPT !.gen = call.gen]
       IN \/ /\ Cancelled(call.gen)
             /\ Send(<<Finished([begun EXCEPT !.cancelled = TRUE], FALSE)>>) /\ UNCHANGED job
          \/ /\ ~Cancelled(call.gen) /\ call.tree = NoFolder
             /\ Send(<<Finished(begun, TRUE)>>) /\ UNCHANGED job
          \/ /\ ~Cancelled(call.gen) /\ call.tree # NoFolder
             /\ job' = [begun EXCEPT !.tree = call.tree] /\ UNCHANGED toPanel
    /\ UNCHANGED <<panel, open, cancelBelow, stopped>>

Walking == Working /\ job.at <= Len(job.tree) /\ ~job.cancelled /\ ~job.truncated

(* As many of the k matches of a text as there is room for after n hits.    *)
Room(n, k) == IF MaxHits = 0 \/ k < MaxHits - n THEN k ELSE MaxHits - n
LimitReached(n) == MaxHits > 0 /\ n >= MaxHits
HitsOf(t, i, n) ==
    [k \in 1..Room(n, Len(t[i].lines)) |-> [file |-> i, line |-> t[i].lines[k]]]

(* flush(): not forced, it sends a full batch, and any batch that has waited*)
(* for a while; it also says how much of pending is left.                   *)
FlushesTo(pending, sent) ==
    \/ sent /\ pending # <<>>
    \/ ~sent /\ Len(pending) < BatchSize

Walk == Walking /\ UNCHANGED <<panel, open, cancelBelow, toWorker, stopped>>

WalkCancelled ==
    /\ Walk /\ Cancelled(job.gen)
    /\ job' = [job EXCEPT !.cancelled = TRUE]
    /\ UNCHANGED toPanel

(* A file that is excluded or cannot be searched, or has no match.          *)
WalkPast ==
    /\ Walk /\ ~Cancelled(job.gen)
    /\ job.tree[job.at].kind = "skipped" \/ job.tree[job.at].lines = <<>>
    /\ job' = [job EXCEPT !.at = @ + 1]
    /\ Send(<<>>) \/ Send(<<Progress(job.gen, job.hits)>>)

WalkFound ==
    /\ Walk /\ ~Cancelled(job.gen)
    /\ job.tree[job.at].kind = "text" /\ job.tree[job.at].lines # <<>>
    /\ LET found == HitsOf(job.tree, job.at, job.hits)
           pending == job.pending \o found
           hits == job.hits + Len(found)
       IN \E sent \in BOOLEAN :
             /\ FlushesTo(pending, sent)
             /\ job' = [job EXCEPT !.at = @ + 1, !.hits = hits,
                                   !.pending = IF sent THEN <<>> ELSE pending,
                                   !.truncated = LimitReached(hits)]
             /\ Send((IF sent THEN <<Batch(job.gen, pending)>> ELSE <<>>)
                     \o <<Progress(job.gen, hits)>>)

(* (A mutant: the last hits are not sent.)                                  *)
SearchEndsUnflushed ==
    /\ Working /\ ~Walking
    /\ Send(<<Progress(job.gen, job.hits), Finished(job, FALSE)>>)
    /\ job' = NoJob
    /\ UNCHANGED <<panel, open, cancelBelow, toWorker, stopped>>

(* After the walk.                                                          *)
SearchEnds ==
    /\ Working /\ ~Walking
    /\ Send((IF job.pending # <<>> THEN <<Batch(job.gen, job.pending)>> ELSE <<>>)
            \o <<Progress(job.gen, job.hits), Finished(job, FALSE)>>)
    /\ job' = NoJob
    /\ UNCHANGED <<panel, open, cancelBelow, toWorker, stopped>>

(* The thread has been told to quit: it does after the search it is in.     *)
ThreadEnds ==
    /\ ~open /\ ~Working /\ toWorker # <<>>
    /\ toWorker' = <<>>
    /\ UNCHANGED <<panel, open, cancelBelow, job, toPanel, stopped>>

-----------------------------------------------------------------------------
(* The panel's slots.                                                       *)
NextSignal(signal) ==
    /\ open /\ toPanel # <<>> /\ Head(toPanel).signal = signal
    /\ toPanel' = Tail(toPanel)
    /\ UNCHANGED <<generation, tree, open, cancelBelow, job, toWorker, stopped>>
Current == Head(toPanel).gen = generation

(* (A mutant: the generation is not compared.)                              *)
OnBatchOfAny ==
    /\ NextSignal("batch")
    /\ rows' = AddHits(rows, Head(toPanel).hits)
    /\ UNCHANGED <<running, status>>

OnBatch ==
    /\ NextSignal("batch")
    /\ rows' = IF Current THEN AddHits(rows, Head(toPanel).hits) ELSE rows
    /\ UNCHANGED <<running, status>>

OnProgress ==
    /\ NextSignal("progress")
    /\ status' = IF Current THEN [says |-> "searching", hits |-> Head(toPanel).hits]
                 ELSE status
    /\ UNCHANGED <<running, rows>>

(* (A mutant: the generation is not compared.)                              *)
OnFinishedOfAny ==
    /\ NextSignal("finished")
    /\ running' = FALSE
    /\ status' = [says |-> Head(toPanel).says, hits |-> Head(toPanel).hits]
    /\ UNCHANGED rows

OnFinished ==
    /\ NextSignal("finished")
    /\ IF Current
       THEN /\ running' = FALSE
            /\ status' = [says |-> Head(toPanel).says, hits |-> Head(toPanel).hits]
       ELSE UNCHANGED <<running, status>>
    /\ UNCHANGED rows

-----------------------------------------------------------------------------
User == StartSearch \/ StartSearchRefused \/ StopSearch \/ Close
Worker == TakeSearch \/ WalkCancelled \/ WalkPast \/ WalkFound \/ SearchEnds \/ ThreadEnds
Slots == OnBatch \/ OnProgress \/ OnFinished

Next == User \/ Worker \/ Slots

Spec == Init /\ [][Next]_vars

(* Both threads run their event loops; the user owes nothing.               *)
FairSpec == Spec /\ WF_vars(Worker) /\ WF_vars(Slots)

-----------------------------------------------------------------------------
Hit == [file : Files, line : Nat]
TypeOK ==
    /\ generation \in Nat /\ running \in BOOLEAN /\ open \in BOOLEAN
    /\ rows \in [Files -> Seq([line : Nat, matchCount : Nat])]
    /\ status \in [says : {"nothing", "invalid pattern", "searching", "error", "stopped",
                           "limit", "done"},
                   hits : Nat]
    /\ tree \in Trees \cup {NoFolder, <<>>}
    /\ cancelBelow \in Nat
    /\ job \in [gen : Nat, tree : Trees \cup {<<>>}, at : Nat, pending : Seq(Hit),
                hits : Nat, cancelled : BOOLEAN, truncated : BOOLEAN]
    /\ toWorker \in Seq([gen : Nat, tree : Trees \cup {NoFolder}])
    /\ \A i \in DOMAIN toPanel :
          /\ toPanel[i].signal \in {"batch", "progress", "finished"}
          /\ toPanel[i].gen \in Nat
    /\ stopped \subseteq Nat

(* What a walk of t finds in its first i files, in its order, and how often *)
(* the first n of all that are on a line.                                   *)
HitsIn(t, i) ==
    IF t[i].kind = "text"
    THEN [k \in DOMAIN t[i].lines |-> [file |-> i, line |-> t[i].lines[k]]]
    ELSE <<>>
FoundUpTo(t) ==
    LET found[i \in 0..Len(t)] == IF i = 0 THEN <<>> ELSE found[i - 1] \o HitsIn(t, i)
    IN found
Found(t) == FoundUpTo(t)[Len(t)]
Matches(t, n, f, l) == Cardinality({k \in 1..n : Found(t)[k] = [file |-> f, line |-> l]})
Limit(t) == Room(0, Len(Found(t)))
LinesOf(t) == {Found(t)[k].line : k \in DOMAIN Found(t)}

(* What is shown are the rows of the first n matches of t: a row for each   *)
(* line that has one, and as many as it has.                                *)
Shows(shown, t, n) ==
    \A f \in Files :
       /\ \A i \in DOMAIN shown[f] :
             shown[f][i].matchCount = Matches(t, n, f, shown[f][i].line)
       /\ \A i, j \in DOMAIN shown[f] : i # j => shown[f][i].line # shown[f][j].line
       /\ \A l \in LinesOf(t) :
             Matches(t, n, f, l) > 0 => \E i \in DOMAIN shown[f] : shown[f][i].line = l

(* Whatever is abandoned or started meanwhile, the results on screen are    *)
(* the first matches of the search they are shown for, each on the row of   *)
(* its line, and never more of them than the limit (onBatch, addHits).      *)
ShowsTheSearch == \E n \in 0..Limit(tree) : Shows(rows, tree, n)

(* When the status line says that a search is done, or that the limit was   *)
(* reached, all its matches up to the limit are shown, and their number is  *)
(* the one it says (onFinished after the last forced flush).                *)
FinishedShowsAll ==
    status.says \in {"done", "limit"} =>
       /\ status.hits = Limit(tree)
       /\ Shows(rows, tree, status.hits)
       /\ status.says = "done" => ~LimitReached(Len(Found(tree)))

(* Only a search the user has stopped is reported as stopped: abandoning    *)
(* the last one does not touch the one being started (startSearch).         *)
StoppedOnRequest == status.says = "stopped" => generation \in stopped

(* What the status line says of the end of a search is so, whichever end it *)
(* says: done, at the limit or stopped (onFinished).                        *)
StatusIsTrue == FinishedShowsAll /\ StoppedOnRequest

(* The panel's button offers to stop exactly as long as the current search  *)
(* is queued, under way, or its end is still on its way to the panel.       *)
RunningHasSearch ==
    open => (running <=>
       \/ \E i \in DOMAIN toWorker : toWorker[i].gen = generation
       \/ job.gen = generation /\ Working
       \/ \E i \in DOMAIN toPanel :
             toPanel[i].signal = "finished" /\ toPanel[i].gen = generation)

(* A search ends, unless another is started or the panel is closed.         *)
EverySearchEnds == \A g \in 1..MaxSearch :
    generation = g /\ running ~> ~running \/ generation # g \/ ~open

=============================================================================
