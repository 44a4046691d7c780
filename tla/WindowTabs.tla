---- MODULE WindowTabs ----
(***************************************************************************)
(* The tabs of the window: how they are opened, saved and closed, and what *)
(* the closing asks before a text or a running query is gone.              *)
(*                                                                         *)
(* A question is a modal dialog with an event loop of its own: while one   *)
(* is open the user can do nothing else, but queries end and timers fire.  *)
(* The dialog that asks for a file name is part of the answer it follows.  *)
(* A text is a number: 0 the empty one, 1 the script of a database object, *)
(* which can be had again, and any other one that was typed.  Encodings    *)
(* and the cutting of trailing spaces are left out.                        *)
(***************************************************************************)
EXTENDS Integers, Sequences, FiniteSets, SequencesExt, FiniteSetsExt

CONSTANTS
    Files,
    MaxTabs,        \* bound: tabs at one time
    MaxTabActs      \* bound: what the user does in one behaviour

ASSUME WindowTabsBounds == MaxTabs \in Nat /\ MaxTabActs \in Nat /\ "none" \notin Files

VARIABLES
    tabs,       \* the tabs in their order
    disk,       \* per file its text, Torn when the write of one failed half-way
    asking,     \* the open question: about which tab, for the window or the tab
    ids,        \* history: tabs and texts made so far
    givenUp,    \* history: tabs whose text the user gave up in this closing
    lateRuns,   \* history: tabs whose timer started a run during this closing
    tabActs

tabVars == <<tabs, disk, asking, ids, givenUp, lateRuns, tabActs>>

Torn == -1
NotAsking == [at |-> 0, window |-> FALSE]
Idle == asking = NotAsking /\ tabActs < MaxTabActs /\ tabActs' = tabActs + 1

\* "spoilt" is a history flag: the file of the tab no longer holds its text,
\* because another tab wrote it, or a write failed that the tab took no note of.
FreshTab(id, file, text) ==
    [id |-> id, text |-> text, modified |-> FALSE, file |-> file, generated |-> FALSE,
     run |-> FALSE, timer |-> FALSE, spoilt |-> FALSE]

-----------------------------------------------------------------------------
\* Saving and reading

\* ensureSaved, its end: the file is written and the tab's mark cleared.
SaveTo(i, f) ==
    /\ disk' = [disk EXCEPT ![f] = tabs[i].text]
    /\ tabs' = [j \in DOMAIN tabs |->
                  IF j = i THEN [tabs[i] EXCEPT !.file = f, !.modified = FALSE, !.spoilt = FALSE]
                  ELSE [tabs[j] EXCEPT !.spoilt = @ \/ tabs[j].file = f]]

\* saveFile: opening the file truncates it, and then the write fails.
SaveTorn(f) ==
    /\ disk' = [disk EXCEPT ![f] = Torn]
    /\ tabs' = [j \in DOMAIN tabs |-> [tabs[j] EXCEPT !.spoilt = @ \/ tabs[j].file = f]]

\* The name the dialog asks for when the tab has none of its own.
SaveNames(i, ask_name) == IF ask_name \/ tabs[i].file = "none" THEN Files ELSE {tabs[i].file}

\* on_actionSave and on_actionSave_as: a tab without changes is saved only under
\* a name that is asked for.  A cancelled dialog or a refused file changes nothing.
Save ==
    /\ Idle
    /\ \E i \in DOMAIN tabs, ask_name \in BOOLEAN :
         /\ tabs[i].modified \/ ask_name
         /\ \E f \in SaveNames(i, ask_name) : SaveTo(i, f) \/ SaveTorn(f)
    /\ UNCHANGED <<asking, ids, givenUp, lateRuns>>

\* "reload file": the changes go with the user's consent.  A torn file is read as it is.
Reload ==
    /\ Idle
    /\ \E i \in DOMAIN tabs :
         /\ tabs[i].file # "none"
         /\ tabs' = [tabs EXCEPT ![i].text = disk[tabs[i].file], ![i].modified = FALSE, ![i].spoilt = FALSE]
    /\ UNCHANGED <<disk, asking, ids, givenUp, lateRuns>>

-----------------------------------------------------------------------------
\* Opening

\* A tab beside the current one, whichever that is.
OpenBeside(tab) ==
    /\ Len(tabs) < MaxTabs
    /\ \E p \in Min({2, Len(tabs) + 1})..Len(tabs) + 1 : tabs' = InsertAt(tabs, p, tab)
    /\ ids' = ids + 1
    /\ UNCHANGED <<disk, asking, givenUp, lateRuns>>

\* on_actionNew.
New == Idle /\ OpenBeside(FreshTab(ids + 1, "none", 0))

\* openFile makes a new tab; one that cannot read its file is left empty, which is New.
OpenFile == Idle /\ \E f \in Files : OpenBeside(FreshTab(ids + 1, f, disk[f]))

\* openScriptTab: an untouched tab of the same script is shown instead.
OpenScriptTab ==
    /\ Idle
    /\ \A t \in ToSet(tabs) : ~(t.generated /\ ~t.modified /\ t.text = 1)
    /\ OpenBeside([FreshTab(ids + 1, "none", 1) EXCEPT !.generated = TRUE])

\* openFileHitInEditor: a tab of this file is shown instead; one that cannot
\* read it is taken away again.
OpenFileHitInEditor ==
    /\ Idle
    /\ Len(tabs) < MaxTabs
    /\ \E f \in Files :
         /\ \A t \in ToSet(tabs) : t.file # f
         /\ tabs' = Append(tabs, FreshTab(ids + 1, f, disk[f]))
    /\ ids' = ids + 1
    /\ UNCHANGED <<disk, asking, givenUp, lateRuns>>

SqlChanged ==
    /\ Idle
    /\ \E i \in DOMAIN tabs : tabs' = [tabs EXCEPT ![i].text = ids + 2, ![i].modified = TRUE]
    /\ ids' = ids + 1
    /\ UNCHANGED <<disk, asking, givenUp, lateRuns>>

-----------------------------------------------------------------------------
\* Running

\* executeQuery: at once, or at once and then on the timer of its charts.
ExecuteQuery ==
    /\ Idle
    /\ \E i \in DOMAIN tabs, timer \in BOOLEAN :
         /\ ~tabs[i].run /\ ~tabs[i].timer
         /\ tabs' = [tabs EXCEPT ![i].run = TRUE, ![i].timer = timer]
    /\ UNCHANGED <<disk, asking, ids, givenUp, lateRuns>>

\* on_actionExecute on a tab with a timer.
StopTimer ==
    /\ Idle
    /\ \E i \in DOMAIN tabs : tabs[i].timer /\ tabs' = [tabs EXCEPT ![i].timer = FALSE]
    /\ UNCHANGED <<disk, asking, ids, givenUp, lateRuns>>

RunEnds ==
    /\ \E i \in DOMAIN tabs : tabs[i].run /\ tabs' = [tabs EXCEPT ![i].run = FALSE]
    /\ UNCHANGED <<disk, asking, ids, givenUp, lateRuns, tabActs>>

\* executeOnTimer: a firing during a run is skipped.
TimerFires ==
    /\ \E i \in DOMAIN tabs :
         /\ tabs[i].timer /\ ~tabs[i].run
         /\ tabs' = [tabs EXCEPT ![i].run = TRUE]
         /\ lateRuns' = IF asking = NotAsking THEN lateRuns ELSE lateRuns \cup {tabs[i].id}
    /\ UNCHANGED <<disk, asking, ids, givenUp, tabActs>>

-----------------------------------------------------------------------------
\* Closing

Vetoed(list) == tabs' = list /\ asking' = NotAsking

\* confirmTabClose asks about unsaved changes first, then refuses a running
\* query: whether the tab at i, whose text is settled, may go.
MayGo(list, i) == ~list[i].run

\* A mutant: the tabs are discarded as they agree.
DiscardAsked(list, from) ==
    LET stops == {i \in from..Len(list) : list[i].modified \/ ~MayGo(list, i)}
        i == Min(stops)
    IN IF stops = {} THEN Vetoed(<<>>)
       ELSE LET left == SubSeq(list, i, Len(list))
            IN IF list[i].modified THEN tabs' = left /\ asking' = [at |-> 1, window |-> TRUE]
               ELSE Vetoed(left)

\* closeEvent from the tab "from" on: every tab is asked before any is discarded.
AskFrom(list, from) ==
    LET stops == {i \in from..Len(list) : list[i].modified \/ ~MayGo(list, i)}
        i == Min(stops)
    IN IF stops = {} THEN Vetoed(<<>>)
       ELSE IF list[i].modified THEN tabs' = list /\ asking' = [at |-> i, window |-> TRUE]
       ELSE Vetoed(list)

\* closeTab.
CloseOne(list, i) == IF MayGo(list, i) THEN Vetoed(RemoveAt(list, i)) ELSE Vetoed(list)

CloseTab ==
    /\ Idle
    /\ givenUp' = {} /\ lateRuns' = {}
    /\ \E i \in DOMAIN tabs :
         IF tabs[i].modified
         THEN asking' = [at |-> i, window |-> FALSE] /\ UNCHANGED tabs
         ELSE CloseOne(tabs, i)
    /\ UNCHANGED <<disk, ids>>

CloseWindow ==
    /\ Idle
    /\ tabs # <<>>
    /\ givenUp' = {} /\ lateRuns' = {}
    /\ AskFrom(tabs, 1)
    /\ UNCHANGED <<disk, ids>>

\* The asked tab has agreed; with its list as the answer has left it.
Agreed(list) == IF ~asking.window THEN CloseOne(list, asking.at)
                ELSE IF MayGo(list, asking.at) THEN AskFrom(list, asking.at + 1)
                ELSE Vetoed(list)

\* Yes: saved, under a name that is asked for when there is none.
AnswerYes ==
    /\ asking # NotAsking
    /\ \E f \in SaveNames(asking.at, FALSE) :
         /\ disk' = [disk EXCEPT ![f] = tabs[asking.at].text]
         /\ Agreed([j \in DOMAIN tabs |->
                      IF j = asking.at
                      THEN [tabs[j] EXCEPT !.file = f, !.modified = FALSE, !.spoilt = FALSE]
                      ELSE [tabs[j] EXCEPT !.spoilt = @ \/ tabs[j].file = f]])
    /\ UNCHANGED <<ids, givenUp, lateRuns, tabActs>>

AnswerNo ==
    /\ asking # NotAsking
    /\ givenUp' = givenUp \cup {tabs[asking.at].id}
    /\ Agreed(tabs)
    /\ UNCHANGED <<disk, ids, lateRuns, tabActs>>

\* Cancel, here or in the dialog for the name, or a file that cannot be opened.
AnswerCancel ==
    /\ asking # NotAsking
    /\ Vetoed(tabs)
    /\ UNCHANGED <<disk, ids, givenUp, lateRuns, tabActs>>

\* Yes, and the write fails when the file is already truncated.
AnswerYesTorn ==
    /\ asking # NotAsking
    /\ \E f \in SaveNames(asking.at, FALSE) : SaveTorn(f)
    /\ asking' = NotAsking
    /\ UNCHANGED <<ids, givenUp, lateRuns, tabActs>>

-----------------------------------------------------------------------------
TabsInit ==
    /\ tabs = <<>> /\ disk = [f \in Files |-> 0]
    /\ asking = NotAsking /\ ids = 0 /\ givenUp = {} /\ lateRuns = {} /\ tabActs = 0

TabsNext ==
    \/ Save \/ Reload \/ New \/ OpenFile \/ OpenScriptTab \/ OpenFileHitInEditor \/ SqlChanged
    \/ ExecuteQuery \/ StopTimer \/ RunEnds \/ TimerFires
    \/ CloseTab \/ CloseWindow \/ AnswerYes \/ AnswerNo \/ AnswerCancel \/ AnswerYesTorn

TabsSpec == TabsInit /\ [][TabsNext]_tabVars

TabsTypeOK ==
    /\ Len(tabs) <= MaxTabs
    /\ \A t \in ToSet(tabs) :
         /\ t \in [id : 1..ids, text : Torn..ids + 1, modified : BOOLEAN, file : Files \cup {"none"},
                   generated : BOOLEAN, run : BOOLEAN, timer : BOOLEAN, spoilt : BOOLEAN]
    /\ asking # NotAsking => asking.at \in DOMAIN tabs /\ tabs[asking.at].modified
    /\ givenUp \cup lateRuns \subseteq 1..ids

\* Its file is overwritten by the tab the open question is about.
Overwritten(t) == /\ t.file # "none" /\ disk'[t.file] # disk[t.file]
                  /\ asking # NotAsking /\ t.id # tabs[asking.at].id

\* What a tab goes with: its text is empty, a script, in some file, given up by
\* the user, or its file was spoilt behind its back; and no query runs in it but
\* one its timer has started while another tab's question was open.
GoesByConsent(t) ==
    /\ \/ t.text \in {0, 1} \/ t.id \in givenUp'
       \/ \E f \in Files : disk'[f] = t.text
       \/ t.spoilt \/ Overwritten(t)
    /\ t.run => t.id \in lateRuns

\* No tab is lost against the user's will, whatever was answered, failed, or
\* happened during a question; and a closing of the window, asked tab by tab,
\* takes all of them or none (closeEvent, closeTab, confirmTabClose).
TabsGoByConsent ==
    [][LET lost == {t \in ToSet(tabs) : \A u \in ToSet(tabs') : u.id # t.id}
       IN /\ \A t \in lost : GoesByConsent(t)
          /\ asking.window \/ asking'.window => lost = {} \/ tabs' = <<>>]_tabVars
====
