------------------------ MODULE PgConnection_proofs ------------------------
(***************************************************************************)
(* Theorems about PgConnection, proved for every value of its constants.   *)
(***************************************************************************)
EXTENDS PgConnection, TLAPS

-----------------------------------------------------------------------------
(* What the helpers of the model return.                                    *)

LEMMA LinkFields ==
  ASSUME NEW l \in Link
  PROVE  /\ l.st \in {"null", "start", "wait", "ok", "bad"}
         /\ l.txn \in {"idle", "intrans", "inerror"}
         /\ l.run \in 0..MaxRun /\ l.wire \in BOOLEAN
         /\ l.srv \in {"idle", "todo", "ran", "read"} /\ l.up \in BOOLEAN
BY DEF Link

LEMMA LinkOperators ==
  ASSUME NEW l \in Link
  PROVE  /\ NoLink \in Link /\ NewLink("start") \in Link /\ NewLink("ok") \in Link
         /\ Broken(l) \in Link /\ Whole(l) \in Link
         /\ Partial(l) \subseteq Link /\ Pushed(l) \subseteq Link
         /\ \A r \in 0..MaxRun : [l EXCEPT !.run = r, !.wire = TRUE] \in Link
         /\ Orphaned(l) \subseteq {l.run}
<1>1. NoLink \in Link /\ NewLink("start") \in Link /\ NewLink("ok") \in Link
  BY ConnectionAssumption DEF NoLink, NewLink, Handle, Link
<1>2. Broken(l) \in Link
  BY DEF Broken, Link
<1>3. Whole(l) \in Link
  BY DEF Whole, Link
<1>4. Partial(l) \subseteq Link
  BY DEF Partial, Link
<1>5. Pushed(l) \subseteq Link
  BY <1>3, <1>4 DEF Pushed
<1>6. \A r \in 0..MaxRun : [l EXCEPT !.run = r, !.wire = TRUE] \in Link
  BY DEF Link
<1>7. Orphaned(l) \subseteq {l.run}
  BY DEF Orphaned
<1> QED  BY <1>1, <1>2, <1>3, <1>4, <1>5, <1>6, <1>7

LEMMA Counting ==
  ASSUME NEW count \in [Runs -> Nat], NEW r
  PROVE  [count EXCEPT ![r] = count[r] + 1] \in [Runs -> Nat]
<1>1. CASE r \in Runs
  <2>1. count[r] + 1 \in Nat
    BY <1>1
  <2> QED  BY <1>1, <2>1
<1>2. CASE r \notin Runs
  BY <1>2
<1> QED  BY <1>1, <1>2

LEMMA WatchSocketType ==
  ASSUME TypeOK, NEW t, NEW mode \in SUBSET {"r", "w"}, NEW l, WatchSocket(t, mode, l)
  PROVE  watched' \in SUBSET {"r", "w"} /\ guiQueue' \in Seq(GuiCall)
<1>1. WatchCall(mode) \in GuiCall
  BY ConnectionAssumption DEF WatchCall, GuiCall
<1>2. watched \in SUBSET {"r", "w"} /\ guiQueue \in Seq(GuiCall)
  BY DEF TypeOK
<1>3. CASE t = GUI
  BY <1>2, <1>3 DEF WatchSocket
<1>4. CASE t # GUI
  <2>1. guiQueue' = Append(guiQueue, WatchCall(mode)) /\ watched' = watched
    BY <1>4 DEF WatchSocket
  <2> QED  BY <1>1, <1>2, <2>1
<1> QED  BY <1>3, <1>4

LEMMA EmittedType ==
  ASSUME NEW queue \in [Runs -> Seq(Signal)], NEW t, NEW s \in Signal
  PROVE  Emitted(queue, t, s) \in [Runs -> Seq(Signal)]
BY DEF Emitted

LEMMA ConcludeType ==
  ASSUME TypeOK, NEW t, NEW r, NEW v \in Verdict, Conclude(t, r, v)
  PROVE  /\ queryState' \in QueryState /\ workerQueue' \in [Runs -> Seq(Signal)]
         /\ verdict' \in [Runs -> Verdict]
<1>1. workerQueue \in [Runs -> Seq(Signal)] /\ verdict \in [Runs -> Verdict]
  BY DEF TypeOK
<1>2. workerQueue' = Emitted(workerQueue, t, "Inactive")
  BY DEF Conclude, Emit
<1>3. workerQueue' \in [Runs -> Seq(Signal)]
  BY <1>1, <1>2, EmittedType DEF Signal
<1>4. queryState' \in QueryState /\ verdict' \in [Runs -> Verdict]
  BY <1>1 DEF Conclude, QueryState
<1> QED  BY <1>3, <1>4

LEMMA EndRunType ==
  ASSUME TypeOK, NEW t, NEW v \in Verdict, EndRun(t, v)
  PROVE  /\ queryState' \in QueryState /\ workerQueue' \in [Runs -> Seq(Signal)]
         /\ verdict' \in [Runs -> Verdict]
<1>1. CASE queryState = "Inactive"
  BY <1>1 DEF EndRun, TypeOK
<1>2. CASE queryState # "Inactive"
  BY <1>2, ConcludeType DEF EndRun
<1> QED  BY <1>1, <1>2

LEMMA CloseLockedType ==
  ASSUME TypeOK, NEW t, CloseLocked(t, link)
  PROVE  /\ link' \in Link /\ opened' \in BOOLEAN /\ orphans' \in SUBSET (0..MaxRun)
         /\ watched' \in SUBSET {"r", "w"} /\ guiQueue' \in Seq(GuiCall)
<1>1. link \in Link
  BY DEF TypeOK
<1>2. watched' \in SUBSET {"r", "w"} /\ guiQueue' \in Seq(GuiCall)
  BY WatchSocketType DEF CloseLocked
<1>3. Orphaned(link) \subseteq 0..MaxRun
  BY <1>1, LinkFields, LinkOperators
<1>4. orphans \subseteq 0..MaxRun
  BY DEF TypeOK, Runs
<1> QED  BY <1>1, <1>2, <1>3, <1>4, LinkOperators DEF CloseLocked

PcType ==
  /\ pc \in [Thread -> GuiAt \cup WorkerAt]
  /\ pc[GUI] \in GuiAt /\ \A w \in Runs : pc[w] \in WorkerAt

LEMMA Places ==
  /\ GUI \in Thread /\ Runs \subseteq Thread /\ GUI \notin Runs
  /\ \A t \in Thread : t = GUI \/ t \in Runs
  /\ Thread = 0..MaxRun
BY ConnectionAssumption DEF GUI, Thread, Runs

LEMMA GotoType ==
  ASSUME TypeOK, NEW t \in Thread, NEW label, Goto(t, label),
         t = GUI => label \in GuiAt, t # GUI => label \in WorkerAt
  PROVE  PcType'
<1>1. PcType
  BY DEF TypeOK, PcType
<1> QED  BY <1>1, Places DEF Goto, PcType

LEMMA LinkLostType ==
  ASSUME TypeOK, NEW t \in Thread, NEW l \in Link, NEW flushed, NEW resent, NEW live, NEW r,
         LinkLostMidQuery(t, l, flushed, resent, live, r)
  PROVE  /\ stage' \in Stage /\ resentOnce' \in BOOLEAN
         /\ queryState' \in QueryState /\ workerQueue' \in [Runs -> Seq(Signal)]
         /\ verdict' \in [Runs -> Verdict]
         /\ link' \in Link /\ opened' \in BOOLEAN /\ orphans' \in SUBSET (0..MaxRun)
         /\ watched' \in SUBSET {"r", "w"} /\ guiQueue' \in Seq(GuiCall)
         /\ PcType'
<1>1. stage' \in Stage /\ resentOnce' \in BOOLEAN
  BY DEF LinkLostMidQuery, Stage, Resendable
<1>2. orphans' = orphans \cup Orphaned(l) /\ link' \in {NoLink, Broken(l)} /\ opened' = FALSE
  BY DEF LinkLostMidQuery, CloseLocked
<1>3. link' \in Link /\ opened' \in BOOLEAN /\ orphans' \in SUBSET (0..MaxRun)
  BY <1>2, LinkFields, LinkOperators DEF TypeOK
<1>4. watched' \in SUBSET {"r", "w"} /\ guiQueue' \in Seq(GuiCall)
  <2>1. WatchSocket(t, {}, NoLink)
    BY DEF LinkLostMidQuery, CloseLocked
  <2> QED  BY <2>1, WatchSocketType
<1>5. /\ queryState' \in QueryState /\ workerQueue' \in [Runs -> Seq(Signal)]
      /\ verdict' \in [Runs -> Verdict]
  <2>1. workerQueue \in [Runs -> Seq(Signal)] /\ verdict \in [Runs -> Verdict]
    BY DEF TypeOK
  <2>2. SetState("Reconnecting") \/ SetState("Inactive") \/ Conclude(t, r, "unknown")
    BY DEF LinkLostMidQuery
  <2>3. "unknown" \in Verdict
    BY DEF Verdict
  <2> QED  BY <2>1, <2>2, <2>3, ConcludeType DEF SetState, QueryState
<1>6. \/ Goto(t, "open") \/ Goto(t, After(t))
  BY DEF LinkLostMidQuery
<1>7. /\ t = GUI => "open" \in GuiAt /\ After(t) \in GuiAt
      /\ t # GUI => "open" \in WorkerAt /\ After(t) \in WorkerAt
  BY DEF After, GuiAt, WorkerAt, DriveAt
<1> QED  BY <1>1, <1>3, <1>4, <1>5, <1>6, <1>7, GotoType

-----------------------------------------------------------------------------
(* Every step keeps the types.                                              *)

LEMMA TypeInitial == Init => TypeOK
<1> SUFFICES ASSUME Init PROVE TypeOK
  OBVIOUS
<1>1. link \in Link
  <2>1. NoLink \in Link /\ NewLink("ok") \in Link
    BY ConnectionAssumption DEF NoLink, NewLink, Handle, Link
  <2> QED  BY <2>1 DEF Init
<1>2. pc \in [Thread -> GuiAt \cup WorkerAt] /\ pc[GUI] \in GuiAt /\ \A w \in Runs : pc[w] \in WorkerAt
  BY Places DEF Init, GuiAt, WorkerAt
<1>3. /\ queryState \in QueryState /\ stage \in Stage /\ watched \in SUBSET {"r", "w"}
      /\ opened \in BOOLEAN /\ verdict \in [Runs -> Verdict]
  BY DEF Init, QueryState, Stage, Verdict
<1>4. guiQueue \in Seq(GuiCall) /\ workerQueue \in [Runs -> Seq(Signal)]
  BY DEF Init
<1>5. /\ executed \in [Runs -> Nat] /\ resends \in [Runs -> Nat]
      /\ nrun \in 0..MaxRun /\ queryTmp \in 0..MaxRun /\ queryThread \in 0..MaxRun
      /\ drops \in Nat /\ cancels \in Nat /\ switches \in Nat
  BY ConnectionAssumption DEF Init
<1>6. /\ queryFlushed \in BOOLEAN /\ resentOnce \in BOOLEAN /\ isNotification \in BOOLEAN
      /\ orphans = {} /\ inTransaction = {} /\ clarified = {} /\ finished = {}
  BY DEF Init
<1> QED  BY <1>1, <1>2, <1>3, <1>4, <1>5, <1>6 DEF TypeOK

LEMMA RunQueryType ==
  ASSUME TypeOK, NEW t \in Thread,
         \/ RunQueryNoLink(t) \/ RunQueryRefused(t) \/ RunQuerySent(t) \/ RunQueryWriteFailed(t)
  PROVE  TypeOK'
<1>1. RunQueryBegins(t)
  BY DEF RunQueryNoLink, RunQueryRefused, RunQuerySent, RunQueryWriteFailed
<1>2. /\ TextOf(t) \in 0..MaxRun /\ Resent(t) \in BOOLEAN
      /\ link \in Link /\ HandedOver(t) \in Link
  <2>1. link \in Link /\ queryTmp \in 0..MaxRun /\ resentOnce \in BOOLEAN
    BY DEF TypeOK
  <2>2. TextOf(t) \in 0..MaxRun
    BY <2>1, Places DEF TextOf
  <2>3. Resent(t) \in BOOLEAN
    <3>1. CASE Fresh(t)
      BY <3>1 DEF Resent
    <3>2. CASE ~Fresh(t)
      BY <2>1, <3>2 DEF Resent
    <3> QED  BY <3>1, <3>2
  <2>4. HandedOver(t) \in Link
    BY <2>1, <2>2, LinkOperators DEF HandedOver
  <2> QED  BY <2>1, <2>2, <2>3, <2>4
<1>3. /\ queryTmp' \in 0..MaxRun /\ resends' \in [Runs -> Nat] /\ inTransaction' \in SUBSET Runs
      /\ queryThread' \in 0..MaxRun /\ isNotification' \in BOOLEAN
      /\ nrun' \in 0..MaxRun /\ drops' \in Nat /\ cancels' \in Nat /\ switches' \in Nat
      /\ executed' \in [Runs -> Nat] /\ clarified' \in SUBSET Runs /\ finished' \in SUBSET Runs
  <2>1. Fresh(t) => t \in Runs
    BY Places DEF Fresh, TypeOK, GuiAt, DriveAt
  <2>2. queryTmp' \in 0..MaxRun
    BY <1>1, <1>2 DEF RunQueryBegins
  <2>3. resends' \in [Runs -> Nat]
    <3>1. resends \in [Runs -> Nat]
      BY DEF TypeOK
    <3>2. resends' = resends \/ resends' = [resends EXCEPT ![queryTmp] = resends[queryTmp] + 1]
      BY <1>1 DEF RunQueryBegins
    <3> QED  BY <3>1, <3>2
  <2>4. inTransaction' \in SUBSET Runs
    BY <1>1, <2>1 DEF RunQueryBegins, TypeOK
  <2>5. UNCHANGED <<queryThread, isNotification, bounds, executed, clarified, finished>>
    BY <1>1 DEF RunQueryBegins
  <2> QED  BY <2>2, <2>3, <2>4, <2>5 DEF TypeOK, bounds
<1> DEFINE Others ==
       /\ stage' \in Stage /\ resentOnce' \in BOOLEAN /\ queryFlushed' \in BOOLEAN
       /\ queryState' \in QueryState /\ workerQueue' \in [Runs -> Seq(Signal)]
       /\ verdict' \in [Runs -> Verdict]
       /\ link' \in Link /\ opened' \in BOOLEAN /\ orphans' \in SUBSET (0..MaxRun)
       /\ watched' \in SUBSET {"r", "w"} /\ guiQueue' \in Seq(GuiCall)
       /\ PcType'
<1>4. /\ \A label \in {"open", "poll", "dropped", "resend", After(t)} :
            (t = GUI => label \in GuiAt) /\ (t # GUI => label \in WorkerAt)
      /\ {"none", "sending_query", "wait_ready_read", "flush"} \subseteq Stage
      /\ {"Running", "Reconnecting"} \subseteq QueryState /\ "notsent" \in Verdict
  BY DEF After, GuiAt, WorkerAt, DriveAt, Stage, QueryState, Verdict
<1> SUFFICES Others
  BY <1>3 DEF TypeOK, PcType
<1>5. CASE RunQueryNoLink(t)
  <2>1. queryState' \in QueryState /\ UNCHANGED <<workerQueue, verdict>>
    BY <1>4, <1>5 DEF RunQueryNoLink, SetState
  <2>2. Goto(t, "dropped") \/ Goto(t, "open")
    BY <1>5 DEF RunQueryNoLink
  <2>3. /\ link' \in Link /\ opened' \in BOOLEAN /\ orphans' \in SUBSET (0..MaxRun)
        /\ watched' \in SUBSET {"r", "w"} /\ guiQueue' \in Seq(GuiCall)
    BY <1>5, CloseLockedType DEF RunQueryNoLink, TypeOK
  <2>4. stage' \in Stage /\ resentOnce' \in BOOLEAN /\ queryFlushed' \in BOOLEAN
    BY <1>2, <1>4, <1>5 DEF RunQueryNoLink
  <2>5. PcType'
    BY <1>4, <2>2, GotoType
  <2> QED  BY <2>1, <2>3, <2>4, <2>5 DEF TypeOK
<1>6. CASE RunQueryRefused(t)
  <2>1. /\ queryState' \in QueryState /\ workerQueue' \in [Runs -> Seq(Signal)]
        /\ verdict' \in [Runs -> Verdict]
    BY <1>4, <1>6, ConcludeType DEF RunQueryRefused
  <2>2. PcType'
    BY <1>4, <1>6, GotoType DEF RunQueryRefused
  <2>3. stage' \in Stage /\ resentOnce' \in BOOLEAN /\ queryFlushed' \in BOOLEAN
    BY <1>2, <1>4, <1>6 DEF RunQueryRefused
  <2>4. UNCHANGED <<link, opened, orphans, watched, guiQueue>>
    BY <1>6 DEF RunQueryRefused
  <2> QED  BY <2>1, <2>2, <2>3, <2>4 DEF TypeOK
<1>7. CASE RunQuerySent(t)
  <2>1. watched' \in SUBSET {"r", "w"} /\ guiQueue' \in Seq(GuiCall)
    BY <1>7, WatchSocketType DEF RunQuerySent
  <2>2. link' \in Link
    BY <1>2, <1>7, LinkOperators DEF RunQuerySent
  <2>3. queryState' \in QueryState /\ UNCHANGED <<workerQueue, verdict>>
    BY <1>4, <1>7 DEF RunQuerySent, SetState
  <2>4. Goto(t, After(t)) /\ UNCHANGED <<opened, orphans>>
    BY <1>7 DEF RunQuerySent
  <2>5. stage' \in Stage /\ resentOnce' \in BOOLEAN /\ queryFlushed' \in BOOLEAN
    <3>1. resentOnce' = Resent(t) /\ stage' \in {"wait_ready_read", "flush"}
      BY <1>7 DEF RunQuerySent
    <3>2. queryFlushed' \in BOOLEAN
      <4>1. CASE queryFlushed' = TRUE
        BY <4>1
      <4>2. CASE queryFlushed' = (TextOf(t) \in Params)
        BY <4>2
      <4> QED  BY <1>7, <4>1, <4>2 DEF RunQuerySent
    <3> QED  BY <1>2, <1>4, <3>1, <3>2
  <2>6. PcType'
    BY <1>4, <2>4, GotoType
  <2> QED  BY <2>1, <2>2, <2>3, <2>4, <2>5, <2>6 DEF TypeOK
<1>8. CASE RunQueryWriteFailed(t)
  <2>1. PICK l \in {HandedOver(t), [HandedOver(t) EXCEPT !.srv = "todo"]} :
           LinkLostMidQuery(t, l, TextOf(t) \in Params, Resent(t), TRUE, TextOf(t))
    BY <1>8 DEF RunQueryWriteFailed
  <2>2. l \in Link
    BY <1>2, <2>1 DEF Link
  <2>3. queryFlushed' \in BOOLEAN
    BY <1>2, <1>8 DEF RunQueryWriteFailed
  <2> QED  BY <1>2, <2>1, <2>2, <2>3, LinkLostType
<1> QED  BY <1>5, <1>6, <1>7, <1>8

(* The actions that drive a connection attempt.                             *)
LEMMA OpeningType ==
  ASSUME TypeOK, NEW t \in Thread,
         TransactionLost(t) \/ OpenAsync(t) \/ PollAgain(t) \/ PollFailed(t) \/ PollOk(t)
  PROVE  TypeOK'
<1>1. /\ \A label \in DriveAt \cup {After(t)} :
            (t = GUI => label \in GuiAt) /\ (t # GUI => label \in WorkerAt)
      /\ {"none", "connecting"} \subseteq Stage /\ "notsent" \in Verdict
      /\ {"open", "poll", "resend"} \subseteq DriveAt
  BY DEF After, GuiAt, WorkerAt, DriveAt, Stage, Verdict
<1>2. link \in Link /\ orphans \in SUBSET (0..MaxRun)
  BY DEF TypeOK
<1>3. CASE TransactionLost(t)
  <2>1. PcType'
    BY <1>1, <1>3, GotoType DEF TransactionLost
  <2>2. EndRun(t, "notsent")
    BY <1>3 DEF TransactionLost
  <2> QED  BY <1>1, <1>3, <2>1, <2>2, EndRunType DEF TransactionLost, TypeOK, PcType, bounds, server, history
<1>4. CASE OpenAsync(t)
  <2>1. PcType'
    BY <1>1, <1>4, GotoType DEF OpenAsync
  <2>2. EndRun(t, "notsent") \/ UNCHANGED <<queryState, workerQueue, verdict>>
    BY <1>4 DEF OpenAsync
  <2>3. /\ queryState' \in QueryState /\ workerQueue' \in [Runs -> Seq(Signal)]
        /\ verdict' \in [Runs -> Verdict]
    BY <1>1, <2>2, EndRunType DEF TypeOK
  <2>4. WatchSocket(t, {}, NoLink) \/ UNCHANGED <<watched, guiQueue>>
    BY <1>4 DEF OpenAsync
  <2>5. watched' \in SUBSET {"r", "w"} /\ guiQueue' \in Seq(GuiCall)
    BY <2>4, WatchSocketType DEF TypeOK
  <2>6. link' \in Link
    BY <1>2, <1>4, LinkOperators DEF OpenAsync
  <2>7. orphans' \in SUBSET (0..MaxRun)
    <3>1. orphans' = orphans \/ orphans' = orphans \cup Orphaned(link)
      BY <1>4 DEF OpenAsync
    <3>2. Orphaned(link) \subseteq 0..MaxRun
      BY <1>2, LinkFields, LinkOperators
    <3> QED  BY <1>2, <3>1, <3>2
  <2>8. stage' \in Stage /\ opened' \in BOOLEAN
    BY <1>1, <1>4 DEF OpenAsync, TypeOK
  <2> QED
    BY <1>4, <2>1, <2>3, <2>5, <2>6, <2>7, <2>8 DEF OpenAsync, TypeOK, PcType, bounds, history
<1>5. CASE PollAgain(t)
  <2>1. PcType'
    BY <1>1, <1>5, GotoType DEF PollAgain
  <2>2. watched' \in SUBSET {"r", "w"} /\ guiQueue' \in Seq(GuiCall)
    BY <1>5, WatchSocketType DEF PollAgain
  <2>3. link' \in Link
    BY <1>2, <1>5 DEF PollAgain, Link
  <2> QED
    BY <1>5, <2>1, <2>2, <2>3 DEF PollAgain, Poll, TypeOK, PcType, bounds, server, history
<1>6. CASE PollFailed(t)
  <2>1. PcType'
    BY <1>1, <1>6, GotoType DEF PollFailed
  <2>2. watched' \in SUBSET {"r", "w"} /\ guiQueue' \in Seq(GuiCall)
    BY <1>6, WatchSocketType DEF PollFailed
  <2>3. link' \in Link /\ stage' \in Stage /\ opened' \in BOOLEAN
    BY <1>1, <1>2, <1>6, LinkOperators DEF PollFailed
  <2>4. EndRun(t, "notsent")
    BY <1>6 DEF PollFailed
  <2> QED
    BY <1>1, <1>6, <2>1, <2>2, <2>3, <2>4, EndRunType
       DEF PollFailed, Poll, TypeOK, PcType, bounds, server, history
<1>7. CASE PollOk(t)
  <2>1. PcType'
    BY <1>1, <1>7, GotoType DEF PollOk
  <2>2. WatchSocket(t, {}, link) \/ UNCHANGED <<watched, guiQueue>>
    BY <1>7 DEF PollOk
  <2>3. watched' \in SUBSET {"r", "w"} /\ guiQueue' \in Seq(GuiCall)
    BY <2>2, WatchSocketType DEF TypeOK
  <2>4. link' \in Link /\ stage' \in Stage /\ opened' \in BOOLEAN
    BY <1>1, <1>2, <1>7 DEF PollOk, Link
  <2> QED
    BY <1>7, <2>1, <2>3, <2>4 DEF PollOk, Poll, TypeOK, PcType, bounds, server, history
<1> QED  BY <1>3, <1>4, <1>5, <1>6, <1>7

(* The steps of the gui thread that only move it on.                        *)
LEMMA HandlerBeginsType ==
  ASSUME TypeOK, NEW label \in GuiAt, HandlerBegins(label)
  PROVE  TypeOK'
<1>1. PcType'
  BY Places, GotoType DEF HandlerBegins
<1> QED  BY <1>1 DEF HandlerBegins, TypeOK, PcType, members, bounds, server, history

LEMMA NotifierType ==
  ASSUME TypeOK, ReadyReadSocket \/ ReadyWriteSocket \/ FlushReadDone \/ IdleLinkClosed \/ SwitchClosed
  PROVE  TypeOK'
<1>1. PICK label \in GuiAt : HandlerBegins(label)
  BY DEF ReadyReadSocket, ReadyWriteSocket, FlushReadDone, IdleLinkClosed, SwitchClosed, CloseDone,
         GuiAt, DriveAt
<1> QED  BY <1>1, HandlerBeginsType

LEMMA WritingType ==
  ASSUME TypeOK, FlushRead \/ WriteWhole \/ WritePart \/ WriteFailed \/ WriteNothing
  PROVE  TypeOK'
<1>1. link \in Link /\ GUI \in Thread
  BY Places DEF TypeOK
<1>2. {"idle", "flushed"} \subseteq GuiAt /\ {"none", "wait_ready_read"} \subseteq Stage
      /\ "notsent" \in Verdict
  BY DEF GuiAt, Stage, Verdict
<1>3. CASE FlushRead
  <2>1. /\ queryTmp' \in 0..MaxRun /\ queryThread' \in 0..MaxRun /\ isNotification' \in BOOLEAN
        /\ nrun' \in 0..MaxRun /\ drops' \in Nat /\ cancels' \in Nat /\ switches' \in Nat
        /\ executed' \in [Runs -> Nat] /\ resends' \in [Runs -> Nat]
        /\ inTransaction' \in SUBSET Runs /\ clarified' \in SUBSET Runs /\ finished' \in SUBSET Runs
        /\ queryFlushed' \in BOOLEAN
    BY <1>3 DEF FlushRead, TypeOK, bounds, history
  <2>2. CASE LinkLostMidQuery(GUI, link, queryFlushed, resentOnce, queryState # "Inactive", queryTmp)
    BY <1>1, <2>1, <2>2, LinkLostType DEF TypeOK, PcType
  <2>3. CASE /\ link' \in Pushed(link) /\ Goto(GUI, "flushed")
             /\ UNCHANGED <<queryState, stage, opened, queryFlushed, resentOnce, watched,
                            guiQueue, workerQueue, verdict, orphans>>
    <3>1. link' \in Link /\ PcType'
      BY <1>1, <1>2, <2>3, GotoType, LinkOperators
    <3> QED  BY <2>1, <2>3, <3>1 DEF TypeOK, PcType
  <2>4. CASE /\ EndRun(GUI, "notsent") /\ stage' = "none" /\ WatchSocket(GUI, {"r"}, link)
             /\ Goto(GUI, "idle")
             /\ UNCHANGED <<opened, queryFlushed, resentOnce, link, orphans>>
    <3>1. stage' \in Stage /\ PcType'
      BY <1>1, <1>2, <2>4, GotoType
    <3>2. watched' \in SUBSET {"r", "w"} /\ guiQueue' \in Seq(GuiCall)
      BY <2>4, WatchSocketType
    <3> QED  BY <1>2, <2>1, <2>4, <3>1, <3>2, EndRunType DEF TypeOK, PcType
  <2> QED  BY <1>3, <2>2, <2>3, <2>4 DEF FlushRead
<1>4. CASE WriteWhole
  <2>1. PcType' /\ link' \in Link /\ stage' \in Stage
    BY <1>1, <1>2, <1>4, GotoType, LinkOperators DEF WriteWhole
  <2>2. watched' \in SUBSET {"r", "w"} /\ guiQueue' \in Seq(GuiCall)
    BY <1>4, WatchSocketType DEF WriteWhole
  <2> QED  BY <1>4, <2>1, <2>2 DEF WriteWhole, Write, TypeOK, PcType, bounds, history
<1>5. CASE WritePart
  <2>1. PcType' /\ link' \in Link
    BY <1>1, <1>2, <1>5, GotoType, LinkOperators DEF WritePart
  <2> QED  BY <1>5, <2>1 DEF WritePart, Write, TypeOK, PcType, bounds, history
<1>6. CASE WriteFailed
  <2>1. LinkLostMidQuery(GUI, link, queryFlushed, resentOnce, queryState # "Inactive", queryTmp)
    BY <1>6 DEF WriteFailed
  <2> QED  BY <1>1, <1>6, <2>1, LinkLostType DEF WriteFailed, Write, TypeOK, PcType, bounds, history
<1>7. CASE WriteNothing
  <2>1. PcType'
    BY <1>1, <1>2, <1>7, GotoType DEF WriteNothing
  <2>2. watched' \in SUBSET {"r", "w"} /\ guiQueue' \in Seq(GuiCall)
    BY <1>7, WatchSocketType DEF WriteNothing
  <2> QED  BY <1>7, <2>1, <2>2 DEF WriteNothing, Write, TypeOK, PcType, bounds, history
<1> QED  BY <1>3, <1>4, <1>5, <1>6, <1>7

LEMMA FetchType ==
  ASSUME TypeOK,
         \/ FetchBegins \/ FetchLinkLost \/ FetchIdleLinkLost \/ FetchNothing
         \/ FetchResult \/ FetchEnd \/ FetchFinished
  PROVE  TypeOK'
<1>1. link \in Link /\ GUI \in Thread
  BY Places DEF TypeOK
<1>2. {"idle", "fetch", "lost", "answered"} \subseteq GuiAt /\ {"none"} \subseteq Stage
      /\ {"notsent", "answered"} \subseteq Verdict
  BY DEF GuiAt, Stage, Verdict
<1>3. CASE FetchBegins
  <2>1. PcType'
    BY <1>1, <1>2, <1>3, GotoType DEF FetchBegins
  <2>2. isNotification' \in BOOLEAN
    BY <1>3 DEF FetchBegins
  <2> QED
    BY <1>3, <2>1, <2>2 DEF FetchBegins, TypeOK, PcType, members, bounds, server, history
<1>4. CASE FetchLinkLost
  <2>1. LinkLostMidQuery(GUI, link, queryFlushed, resentOnce, queryState # "Inactive", queryTmp)
    BY <1>4 DEF FetchLinkLost
  <2> QED  BY <1>1, <1>4, <2>1, LinkLostType DEF FetchLinkLost, Fetch, TypeOK, PcType, bounds, history
<1>5. CASE FetchIdleLinkLost
  <2>1. PcType' /\ link' \in Link /\ stage' \in Stage
    BY <1>1, <1>2, <1>5, GotoType, LinkOperators DEF FetchIdleLinkLost
  <2>2. watched' \in SUBSET {"r", "w"} /\ guiQueue' \in Seq(GuiCall)
    BY <1>5, WatchSocketType DEF FetchIdleLinkLost
  <2>3. EndRun(GUI, "notsent")
    BY <1>5 DEF FetchIdleLinkLost
  <2> QED
    BY <1>2, <1>5, <2>1, <2>2, <2>3, EndRunType
       DEF FetchIdleLinkLost, Fetch, TypeOK, PcType, bounds, history
<1>6. CASE FetchNothing
  <2>1. PcType' /\ link' \in Link
    BY <1>1, <1>2, <1>6, GotoType, LinkOperators DEF FetchNothing
  <2> QED  BY <1>6, <2>1 DEF FetchNothing, Fetch, TypeOK, PcType, bounds, history
<1>7. CASE FetchResult
  <2>1. link' \in Link
    BY <1>1, <1>7 DEF FetchResult, Link
  <2> QED  BY <1>7, <2>1 DEF FetchResult, Fetch, TypeOK, PcType, bounds, history
<1>8. CASE FetchEnd
  <2>1. PICK txn \in {"idle", "intrans", "inerror"} :
           link' = [link EXCEPT !.run = 0, !.srv = "idle", !.txn = txn]
    BY <1>1, <1>8, LinkFields DEF FetchEnd
  <2>2. link' \in Link
    <3>1. 0 \in 0..MaxRun
      BY ConnectionAssumption
    <3> QED  BY <1>1, <2>1, <3>1 DEF Link
  <2>3. PcType'
    BY <1>1, <1>2, <1>8, GotoType DEF FetchEnd
  <2> QED  BY <1>8, <2>2, <2>3 DEF FetchEnd, Fetch, TypeOK, PcType, bounds, history
<1>9. CASE FetchFinished
  <2>1. PcType' /\ stage' \in Stage
    BY <1>1, <1>2, <1>9, GotoType DEF FetchFinished
  <2>2. EndRun(GUI, "answered")
    BY <1>9 DEF FetchFinished
  <2> QED
    BY <1>2, <1>9, <2>1, <2>2, EndRunType
       DEF FetchFinished, TypeOK, PcType, bounds, server, history
<1> QED  BY <1>3, <1>4, <1>5, <1>6, <1>7, <1>8, <1>9

LEMMA ClosingType ==
  ASSUME TypeOK, IdleLinkClose \/ SwitchDatabase \/ SwitchOpen
  PROVE  TypeOK'
<1>1. link \in Link /\ GUI \in Thread /\ orphans \in SUBSET (0..MaxRun)
  BY Places DEF TypeOK
<1>2. {"idle", "lostwait", "closing", "reopen"} \subseteq GuiAt /\ "close" \in Signal
  BY DEF GuiAt, Signal
<1>3. ASSUME NEW waiting \in GuiAt, NEW done \in GuiAt, Close(waiting, done)
      PROVE  /\ link' \in Link /\ opened' \in BOOLEAN /\ orphans' \in SUBSET (0..MaxRun)
             /\ watched' \in SUBSET {"r", "w"} /\ guiQueue' \in Seq(GuiCall)
             /\ workerQueue' \in [Runs -> Seq(Signal)] /\ PcType'
  <2>1. PcType'
    BY <1>1, <1>3, GotoType DEF Close
  <2>2. CASE HasWorker
    <3>1. /\ workerQueue' = [workerQueue EXCEPT ![queryThread] = Append(workerQueue[queryThread], "close")]
          /\ UNCHANGED <<link, opened, orphans, watched, guiQueue>>
      BY <1>3, <2>2 DEF Close
    <3>2. workerQueue \in [Runs -> Seq(Signal)]
      BY DEF TypeOK
    <3>3. workerQueue' \in [Runs -> Seq(Signal)]
      <4>1. queryThread \in Runs
        BY <2>2 DEF HasWorker, TypeOK, Runs
      <4>2. Append(workerQueue[queryThread], "close") \in Seq(Signal)
        BY <1>2, <3>2, <4>1
      <4> QED  BY <3>1, <3>2, <4>1, <4>2
    <3> QED  BY <2>1, <3>1, <3>3 DEF TypeOK
  <2>3. CASE ~HasWorker
    BY <1>3, <2>1, <2>3, CloseLockedType DEF Close, TypeOK
  <2> QED  BY <2>2, <2>3
<1>4. CASE IdleLinkClose
  <2>1. Close("lostwait", "idle")
    BY <1>4 DEF IdleLinkClose
  <2> QED  BY <1>2, <1>3, <1>4, <2>1 DEF IdleLinkClose, TypeOK, PcType, bounds, history
<1>5. CASE SwitchDatabase
  <2>1. Close("closing", "reopen")
    BY <1>5 DEF SwitchDatabase
  <2> QED  BY <1>2, <1>3, <1>5, <2>1 DEF SwitchDatabase, TypeOK, PcType, history
<1>6. CASE SwitchOpen
  <2>1. PcType'
    BY <1>1, <1>2, <1>6, GotoType DEF SwitchOpen
  <2>2. Orphaned(link) \subseteq 0..MaxRun
    BY <1>1, LinkFields, LinkOperators
  <2>3. link' \in Link /\ opened' \in BOOLEAN /\ orphans' \in SUBSET (0..MaxRun)
    BY <1>1, <1>6, <2>2, LinkOperators DEF SwitchOpen, TypeOK
  <2>4. watched' \in SUBSET {"r", "w"}
    BY <1>6 DEF SwitchOpen, TypeOK
  <2> QED  BY <1>6, <2>1, <2>3, <2>4 DEF SwitchOpen, TypeOK, PcType, bounds, history
<1> QED  BY <1>4, <1>5, <1>6

LEMMA AskingType ==
  ASSUME TypeOK, ExecuteAsync \/ CancelByClosing \/ CancelRequest \/ CancelRequested
  PROVE  TypeOK'
<1>1. GUI \in Thread
  BY Places
<1>2. CASE ExecuteAsync
  <2>1. nrun + 1 \in Runs /\ nrun' = nrun + 1 /\ queryThread' = nrun + 1
    BY <1>2, ConnectionAssumption DEF ExecuteAsync, TypeOK, Runs
  <2>2. PcType'
    BY <1>2, <2>1, Places, GotoType DEF ExecuteAsync, WorkerAt
  <2>3. watched' \in SUBSET {"r", "w"} /\ guiQueue' \in Seq(GuiCall)
    BY <1>2, WatchSocketType DEF ExecuteAsync
  <2> QED
    BY <1>2, <2>1, <2>2, <2>3 DEF ExecuteAsync, TypeOK, PcType, Runs, members, server, history
<1>3. CASE CancelByClosing
  <2>1. workerQueue' \in [Runs -> Seq(Signal)]
    BY <1>3, EmittedType DEF CancelByClosing, Emit, TypeOK, Signal
  <2> QED  BY <1>3, <2>1 DEF CancelByClosing, Cancel, TypeOK, PcType, members, server, history
<1>4. CASE CancelRequest
  <2>1. PcType'
    BY <1>1, <1>4, GotoType DEF CancelRequest, GuiAt
  <2> QED  BY <1>4, <2>1 DEF CancelRequest, Cancel, TypeOK, PcType, members, server, history
<1>5. CASE CancelRequested
  <2>1. PcType' /\ queryState' \in QueryState
    BY <1>1, <1>5, GotoType DEF CancelRequested, GuiAt, QueryState
  <2> QED  BY <1>5, <2>1 DEF CancelRequested, TypeOK, PcType, bounds, server, history
<1> QED  BY <1>2, <1>3, <1>4, <1>5

LEMMA QueuedType ==
  ASSUME TypeOK, WatchSocketQueued \/ ThreadFinished
  PROVE  TypeOK'
<1>1. Head(guiQueue) \in GuiCall /\ guiQueue' \in Seq(GuiCall)
  <2>1. guiQueue # <<>> /\ guiQueue' = Tail(guiQueue)
    BY DEF WatchSocketQueued, ThreadFinished, NextCall
  <2> QED  BY <2>1 DEF TypeOK
<1>2. link \in Link
  BY DEF TypeOK
<1>3. CASE WatchSocketQueued
  <2>1. watched' \in SUBSET {"r", "w"}
    BY <1>1, <1>3 DEF WatchSocketQueued, GuiCall
  <2> QED
    BY <1>1, <1>3, <2>1
       DEF WatchSocketQueued, TypeOK, PcType, members, bounds, server, history
<1>4. CASE ThreadFinished
  <2>1. Head(guiQueue).run \in Runs
    BY <1>1, <1>4 DEF ThreadFinished, NextCall, GuiCall
  <2>2. link' \in Link
    <3>1. [link EXCEPT !.txn = "idle"] \in Link
      BY <1>2 DEF Link
    <3> QED  BY <1>2, <1>4, <3>1, LinkOperators DEF ThreadFinished
  <2>3. /\ queryThread' \in 0..MaxRun /\ finished' \in SUBSET Runs
        /\ watched' \in SUBSET {"r", "w"}
    BY <1>4, <2>1, ConnectionAssumption DEF ThreadFinished, TypeOK
  <2>4. UNCHANGED <<queryState, stage, opened, queryFlushed, resentOnce, queryTmp, pc,
                    isNotification, workerQueue, nrun, drops, cancels, switches, orphans,
                    executed, verdict, resends, inTransaction, clarified>>
    BY <1>4 DEF ThreadFinished, members, bounds, server
  <2> QED  BY <1>1, <2>2, <2>3, <2>4 DEF TypeOK, PcType
<1> QED  BY <1>3, <1>4

LEMMA WorkerType ==
  ASSUME TypeOK, NEW w \in Runs, Worker(w)
  PROVE  TypeOK'
<1>1. /\ w \in Thread /\ w # GUI
      /\ {"quit", "loop", "gone"} \subseteq WorkerAt /\ "Inactive" \in Signal
      /\ "Inactive" \in QueryState /\ "closed" \in Verdict
  BY Places DEF WorkerAt, Signal, QueryState, Verdict
<1>2. workerQueue \in [Runs -> Seq(Signal)] /\ verdict \in [Runs -> Verdict] /\ guiQueue \in Seq(GuiCall)
  BY DEF TypeOK
<1>3. ASSUME NEW signal, NextSignal(w, signal)
      PROVE  Rest(w) \in [Runs -> Seq(Signal)]
  <2>1. Tail(workerQueue[w]) \in Seq(Signal)
    BY <1>2, <1>3 DEF NextSignal
  <2> QED  BY <1>2, <2>1 DEF Rest
<1>4. CASE CheckExit(w)
  <2>1. PcType'
    BY <1>1, <1>4, GotoType DEF CheckExit
  <2> QED  BY <1>4, <2>1 DEF CheckExit, TypeOK, PcType, members, bounds, server, history
<1>5. CASE RunEnded(w)
  <2>1. PcType' /\ workerQueue' \in [Runs -> Seq(Signal)]
    BY <1>1, <1>3, <1>5, GotoType DEF RunEnded
  <2>2. watched' \in SUBSET {"r", "w"} /\ guiQueue' \in Seq(GuiCall)
    BY <1>5, WatchSocketType DEF RunEnded
  <2> QED  BY <1>5, <2>1, <2>2 DEF RunEnded, TypeOK, PcType, members, bounds, server
<1>6. CASE CloseConnectionWanted(w)
  <2>1. Rest(w) \in [Runs -> Seq(Signal)]
    BY <1>3, <1>6 DEF CloseConnectionWanted
  <2>2. CASE link.st = "null"
    BY <1>6, <2>1, <2>2 DEF CloseConnectionWanted, TypeOK, PcType, bounds, history
  <2>3. CASE link.st # "null"
    <3>1. CloseLocked(w, link) /\ queryState' = "Inactive"
      BY <1>6, <2>3 DEF CloseConnectionWanted
    <3>2. workerQueue' \in [Runs -> Seq(Signal)]
      BY <1>1, <1>6, <2>1, <2>3, EmittedType DEF CloseConnectionWanted
    <3>3. verdict' \in [Runs -> Verdict]
      BY <1>1, <1>2, <1>6, <2>3 DEF CloseConnectionWanted
    <3> QED
      BY <1>1, <1>6, <3>1, <3>2, <3>3, CloseLockedType
         DEF CloseConnectionWanted, TypeOK, PcType, bounds, history
  <2> QED  BY <2>2, <2>3
<1>7. CASE CloseCalled(w)
  <2>1. workerQueue' \in [Runs -> Seq(Signal)] /\ CloseLocked(w, link)
    BY <1>3, <1>7 DEF CloseCalled
  <2> QED
    BY <1>7, <2>1, CloseLockedType DEF CloseCalled, TypeOK, PcType, bounds, history
<1>8. CASE WorkerFinished(w)
  <2>1. PcType'
    BY <1>1, <1>8, GotoType DEF WorkerFinished
  <2>2. FinishedCall(w) \in GuiCall
    BY DEF FinishedCall, GuiCall
  <2>3. guiQueue' \in Seq(GuiCall) /\ workerQueue' \in [Runs -> Seq(Signal)]
    BY <1>2, <1>8, <2>2 DEF WorkerFinished
  <2> QED
    BY <1>8, <2>1, <2>3 DEF WorkerFinished, TypeOK, PcType, members, bounds, server, history
<1> QED  BY <1>4, <1>5, <1>6, <1>7, <1>8 DEF Worker

LEMMA EnvironmentType ==
  ASSUME TypeOK, Environment
  PROVE  TypeOK'
<1>1. link \in Link /\ orphans \in SUBSET (0..MaxRun) /\ executed \in [Runs -> Nat]
  BY DEF TypeOK
<1>2. CASE ServerExecutes
  <2>1. link' \in Link
    BY <1>1, <1>2 DEF ServerExecutes, Link
  <2>2. executed' \in [Runs -> Nat]
    <3>1. executed' = [executed EXCEPT ![link.run] = executed[link.run] + 1]
      BY <1>2 DEF ServerExecutes
    <3> QED  BY <1>1, <3>1, Counting
  <2> QED
    BY <1>2, <2>1, <2>2 DEF ServerExecutes, TypeOK, PcType, members, bounds, history
<1>3. CASE OrphanExecutes
  <2>1. executed' \in [Runs -> Nat] /\ orphans' \in SUBSET (0..MaxRun)
    <3>1. PICK r \in orphans : /\ executed' = [executed EXCEPT ![r] = executed[r] + 1]
                               /\ orphans' = orphans \ {r}
      BY <1>3 DEF OrphanExecutes
    <3> QED  BY <1>1, <3>1, Counting
  <2> QED
    BY <1>3, <2>1 DEF OrphanExecutes, TypeOK, PcType, members, bounds, history
<1>4. CASE LinkDies
  <2>1. PICK srv \in {link.srv, "idle"} : link' = [link EXCEPT !.up = FALSE, !.srv = srv]
    BY <1>4 DEF LinkDies
  <2>2. link' \in Link
    BY <1>1, <2>1 DEF Link
  <2>3. Orphaned(link) \subseteq 0..MaxRun
    BY <1>1, LinkFields, LinkOperators
  <2>4. orphans' \in SUBSET (0..MaxRun) /\ drops' \in Nat
    BY <1>1, <1>4, <2>3 DEF LinkDies, TypeOK
  <2> QED
    BY <1>4, <2>2, <2>4 DEF LinkDies, TypeOK, PcType, members, history
<1> QED  BY <1>2, <1>3, <1>4 DEF Environment

LEMMA TypeInductive == TypeOK /\ [Next]_vars => TypeOK'
<1> SUFFICES ASSUME TypeOK, [Next]_vars PROVE TypeOK'
  OBVIOUS
<1>1. CASE User \/ Notifier \/ Handler \/ WatchSocketQueued \/ ThreadFinished
  BY <1>1, AskingType, ClosingType, NotifierType, WritingType, FetchType, QueuedType
     DEF User, Notifier, Handler
<1>2. ASSUME NEW t \in Thread, Drive(t) PROVE TypeOK'
  BY <1>2, RunQueryType, OpeningType DEF Drive
<1>3. CASE \E w \in Runs : Worker(w)
  BY <1>3, WorkerType
<1>4. CASE Environment
  BY <1>4, EnvironmentType
<1>5. CASE UNCHANGED vars
  BY <1>5 DEF vars, members, bounds, server, history, TypeOK
<1> QED  BY <1>1, <1>2, <1>3, <1>4, <1>5 DEF Next

(* The variables of the connection keep their types in every behaviour,     *)
(* whatever the bounds, the failures and the moments of the user's requests.*)
THEOREM TypeCorrect == Spec => []TypeOK
<1>1. Init => TypeOK
  BY TypeInitial
<1>2. TypeOK /\ [Next]_vars => TypeOK'
  BY TypeInductive
<1> QED  BY <1>1, <1>2, PTL DEF Spec

-----------------------------------------------------------------------------
LEMMA PushedKeepsStatus ==
  ASSUME NEW l \in Link, NEW k \in Pushed(l)
  PROVE  k.st = l.st
<1>1. \/ k = l \/ k = [l EXCEPT !.wire = TRUE] \/ k = [l EXCEPT !.wire = TRUE, !.srv = "todo"]
      \/ \E srv : k = [l EXCEPT !.wire = FALSE, !.srv = srv]
  BY DEF Pushed, Partial, Whole
<1> QED  BY <1>1 DEF Link

LEMMA LinkLostCloses ==
  ASSUME NEW t, NEW l, NEW flushed, NEW resent, NEW live, NEW r,
         LinkLostMidQuery(t, l, flushed, resent, live, r)
  PROVE  opened' = FALSE
BY DEF LinkLostMidQuery, CloseLocked

(* The steps that open, close or lose the link leave no opened connection   *)
(* without a handle, and the others change neither.                         *)
LEMMA OpenedHasHandleInductive ==
  ASSUME OpenedHasHandle, TypeOK, [Next]_vars
  PROVE  OpenedHasHandle'
<1>1. NoLink.st = "null" /\ NewLink("start").st = "start" /\ NewLink("ok").st = "ok"
  BY DEF NoLink, NewLink, Handle
<1>2. link \in Link
  BY DEF TypeOK
<1>3. SUFFICES ASSUME link'.st = "null", opened'  PROVE FALSE
  BY DEF OpenedHasHandle
<1>4. opened' = opened /\ link' = link => FALSE
  BY <1>3 DEF OpenedHasHandle
<1>5. opened' = opened /\ link'.st = link.st => FALSE
  BY <1>3 DEF OpenedHasHandle
<1>6. CASE User
  BY <1>3, <1>4, <1>6 DEF User, SwitchDatabase, Close, CloseLocked, ExecuteAsync, CancelByClosing,
     CancelRequest, Cancel, members
<1>7. CASE Notifier
  BY <1>4, <1>7 DEF Notifier, ReadyReadSocket, ReadyWriteSocket, HandlerBegins, members
<1>8. CASE Handler
  <2>1. CASE FlushRead
    <3>1. CASE LinkLostMidQuery(GUI, link, queryFlushed, resentOnce, queryState # "Inactive", queryTmp)
      BY <1>3, <3>1, LinkLostCloses
    <3>2. CASE link' \in Pushed(link) /\ UNCHANGED opened
      BY <1>2, <1>5, <3>2, PushedKeepsStatus
    <3> QED  BY <1>4, <2>1, <3>1, <3>2 DEF FlushRead
  <2>2. CASE WriteFailed \/ FetchLinkLost
    BY <1>3, <2>2, LinkLostCloses DEF WriteFailed, FetchLinkLost
  <2>3. CASE FetchNothing
    BY <1>2, <1>5, <2>3, PushedKeepsStatus DEF FetchNothing
  <2>4. CASE WriteWhole
    <3>1. link'.st = link.st
      BY <1>2, <2>4 DEF WriteWhole, Whole, Link
    <3> QED  BY <1>5, <2>4, <3>1 DEF WriteWhole
  <2>5. CASE WritePart
    <3>1. link' \in Pushed(link)
      BY <2>5 DEF WritePart, Pushed
    <3> QED  BY <1>2, <1>5, <2>5, <3>1, PushedKeepsStatus DEF WritePart
  <2>6. CASE FetchResult \/ FetchEnd
    <3>1. link'.st = link.st
      BY <1>2, <2>6 DEF FetchResult, FetchEnd, Link
    <3> QED  BY <1>5, <2>6, <3>1 DEF FetchResult, FetchEnd
  <2>7. CASE FlushReadDone \/ IdleLinkClosed \/ SwitchClosed
    BY <1>4, <2>7 DEF FlushReadDone, IdleLinkClosed, SwitchClosed, CloseDone, HandlerBegins, members
  <2>8. CASE WriteNothing \/ FetchBegins \/ FetchFinished \/ CancelRequested
    BY <1>4, <2>8 DEF WriteNothing, FetchBegins, FetchFinished, CancelRequested, members
  <2>9. CASE FetchIdleLinkLost \/ IdleLinkClose
    BY <1>3, <1>4, <2>9 DEF FetchIdleLinkLost, IdleLinkClose, Close, CloseLocked
  <2>10. CASE SwitchOpen
    BY <1>1, <1>3, <1>4, <2>10 DEF SwitchOpen
  <2> QED  BY <1>8, <2>1, <2>2, <2>3, <2>4, <2>5, <2>6, <2>7, <2>8, <2>9, <2>10 DEF Handler
<1>9. CASE WatchSocketQueued \/ ThreadFinished
  <2>1. link'.st = "null" => link.st = "null"
    BY <1>2, <1>9 DEF WatchSocketQueued, ThreadFinished, Broken, TransactionStatus, Link, members
  <2> QED  BY <1>3, <1>9, <2>1 DEF WatchSocketQueued, ThreadFinished, members, OpenedHasHandle
<1>10. ASSUME NEW t \in Thread, Drive(t)  PROVE FALSE
  <2>1. CASE RunQueryNoLink(t)
    BY <1>3, <1>4, <2>1 DEF RunQueryNoLink, CloseLocked
  <2>2. CASE RunQueryRefused(t) \/ TransactionLost(t)
    BY <1>4, <2>2 DEF RunQueryRefused, TransactionLost
  <2>3. CASE RunQuerySent(t)
    <3>1. TextOf(t) \in 0..MaxRun
      BY <2>3 DEF RunQuerySent, RunQueryBegins, RunQuery, TextOf, TypeOK, Thread
    <3>2. HandedOver(t) \in Link /\ HandedOver(t).st = link.st
      BY <1>2, <3>1 DEF HandedOver, Link
    <3>3. link' \in Pushed(HandedOver(t))
      BY <1>2, <2>3, <3>1 DEF RunQuerySent, Pushed, HandedOver, Link
    <3> QED  BY <1>5, <2>3, <3>2, <3>3, PushedKeepsStatus DEF RunQuerySent
  <2>4. CASE RunQueryWriteFailed(t)
    BY <1>3, <2>4, LinkLostCloses DEF RunQueryWriteFailed
  <2>5. CASE OpenAsync(t)
    BY <1>3, <1>4, <2>5 DEF OpenAsync, OpenedHasHandle
  <2>6. CASE PollAgain(t)
    BY <1>2, <1>3, <2>6 DEF PollAgain, Link
  <2>7. CASE PollFailed(t)
    BY <1>3, <2>7 DEF PollFailed
  <2>8. CASE PollOk(t)
    BY <1>2, <1>3, <2>8 DEF PollOk, Link
  <2> QED  BY <1>10, <2>1, <2>2, <2>3, <2>4, <2>5, <2>6, <2>7, <2>8 DEF Drive
<1>11. CASE \E w \in Runs : Worker(w)
  BY <1>3, <1>4, <1>11 DEF Worker, CheckExit, RunEnded, CloseConnectionWanted, CloseCalled, CloseLocked,
     WorkerFinished, members
<1>12. CASE Environment
  <2>1. link'.st = link.st
    BY <1>2, <1>12 DEF Environment, ServerExecutes, OrphanExecutes, LinkDies, Link
  <2> QED  BY <1>5, <1>12, <2>1 DEF Environment, ServerExecutes, OrphanExecutes, LinkDies, members
<1>13. CASE UNCHANGED vars
  BY <1>4, <1>13 DEF vars, members
<1> QED  BY <1>6, <1>7, <1>8, <1>9, <1>10, <1>11, <1>12, <1>13 DEF Next

(* Whatever opens, closes or loses the link, a connection that says it is   *)
(* opened has a libpq handle to ask (isOpened(), then context() and         *)
(* dbmsInfo()).                                                             *)
THEOREM OpenedConnectionHasHandle == Spec => []OpenedHasHandle
<1>1. Init => OpenedHasHandle
  BY DEF Init, OpenedHasHandle, NoLink, NewLink, Handle
<1>2. OpenedHasHandle /\ TypeOK /\ [Next]_vars => OpenedHasHandle'
  BY OpenedHasHandleInductive
<1> QED  BY <1>1, <1>2, TypeCorrect, PTL DEF Spec

-----------------------------------------------------------------------------
(* A run that is finished has been reported: the invariant.                 *)
Ended(w) == verdict[w] # "none"
Told(w) == \E i \in DOMAIN workerQueue[w] : workerQueue[w][i] = "Inactive"

(* A worker that has begun belongs to a run that has ended, or to the one   *)
(* in progress.                                                             *)
EndReported ==
    \A w \in Runs : pc[w] \notin {"none", "start"} =>
       Ended(w) \/ (queryTmp = w /\ queryState # "Inactive")
LeftAfterEnd == \A w \in Runs : pc[w] \in {"quit", "gone"} => Ended(w)
ToldAfterEnd == \A w \in Runs : Told(w) => Ended(w)
LastEnded == queryState = "Inactive" /\ queryTmp # 0 => Ended(queryTmp)
(* The state may be anything but Inactive when a worker starts (a request   *)
(* to cancel the last run sets it late), the last run has ended all the     *)
(* same.                                                                    *)
StartsAfterEnd ==
    \A w \in Runs : pc[w] = "start" =>
       queryThread = w /\ (queryState = "Inactive" \/ queryTmp = 0 \/ Ended(queryTmp))

(* The worker of the last run comes to its end: it will be told when the    *)
(* state is Inactive, and its finished() is queued once it is gone.         *)
NotBegun == \A w \in Runs : w > nrun => pc[w] = "none"
OfGoneWorkers ==
    \A i \in DOMAIN guiQueue : guiQueue[i].call = "finished" => pc[guiQueue[i].run] = "gone"
FinishedQueuedFor(w) == \E i \in DOMAIN guiQueue : guiQueue[i] = FinishedCall(w)
LastWorker ==
    queryThread # 0 => pc[queryThread] # "none"
                       /\ (pc[queryThread] = "gone" => FinishedQueuedFor(queryThread))
ToldInTheLoop == \A w \in Runs : pc[w] = "loop" /\ queryState = "Inactive" => Told(w)

EndInv ==
    /\ EndReported /\ LeftAfterEnd /\ ToldAfterEnd /\ LastEnded /\ StartsAfterEnd
    /\ NotBegun /\ OfGoneWorkers /\ LastWorker /\ ToldInTheLoop
    /\ FinishedAfterEnd

(* What nearly every step may do to the end of a run: nothing, end it and   *)
(* tell the workers, or go on with it.                                      *)
SameTold == \A w \in Runs : Told(w)' <=> Told(w)
Concluded(t) ==
    /\ queryState' = "Inactive"
    /\ \A w \in Runs : Told(w)' <=> Told(w) \/ w \in Listening(t)
    /\ \E v \in Verdict \ {"none"} :
          verdict' = [verdict EXCEPT ![queryTmp'] = IF @ = "none" THEN v ELSE @]
GoesOn(t) ==
    /\ UNCHANGED verdict /\ SameTold
    /\ queryState' = "Inactive" => queryState = "Inactive" /\ pc[t] # "start"

MovesOn(t) ==
    \/ UNCHANGED pc /\ pc[t] # "start"
    \/ \E label : /\ Goto(t, label)
                  /\ t = GUI \/ (pc[t] \in DriveAt \cup {"start"}
                                 /\ label \in DriveAt \cup {"check"})
QueueKept ==
    guiQueue' = guiQueue \/ \E mode : guiQueue' = Append(guiQueue, WatchCall(mode))

PlainStep(t) ==
    /\ UNCHANGED <<queryThread, nrun, finished>>
    /\ QueueKept /\ MovesOn(t)
    /\ queryTmp' = IF pc[t] = "start" THEN t ELSE queryTmp
    /\ pc[t] # "none"
    /\ Concluded(t) \/ GoesOn(t)

LEMMA TypesNamed ==
  ASSUME TypeOK
  PROVE  /\ pc \in [Thread -> GuiAt \cup WorkerAt] /\ pc[GUI] \in GuiAt
         /\ \A w \in Runs : pc[w] \in WorkerAt
         /\ guiQueue \in Seq(GuiCall) /\ workerQueue \in [Runs -> Seq(Signal)]
         /\ verdict \in [Runs -> Verdict] /\ nrun \in 0..MaxRun
         /\ queryTmp \in 0..MaxRun /\ queryThread \in 0..MaxRun
         /\ pc[GUI] # "start"
         /\ \A i \in DOMAIN guiQueue : guiQueue[i] \in GuiCall
BY DEF TypeOK, GuiAt, DriveAt

LEMMA FinishedCallsKept ==
  ASSUME TypeOK, QueueKept
  PROVE  /\ \A r : FinishedQueuedFor(r) => FinishedQueuedFor(r)'
         /\ \A i \in DOMAIN guiQueue' : guiQueue'[i].call = "finished" =>
               i \in DOMAIN guiQueue /\ guiQueue'[i] = guiQueue[i]
<1>1. guiQueue \in Seq(GuiCall)
  BY DEF TypeOK
<1>2. CASE guiQueue' = guiQueue
  BY <1>2 DEF FinishedQueuedFor
<1>3. ASSUME NEW mode, guiQueue' = Append(guiQueue, WatchCall(mode))
      PROVE  /\ \A r : FinishedQueuedFor(r) => FinishedQueuedFor(r)'
             /\ \A i \in DOMAIN guiQueue' : guiQueue'[i].call = "finished" =>
                   i \in DOMAIN guiQueue /\ guiQueue'[i] = guiQueue[i]
  <2>1. WatchCall(mode).call = "watch"
    BY DEF WatchCall
  <2>2. \A i \in DOMAIN guiQueue : i \in DOMAIN guiQueue' /\ guiQueue'[i] = guiQueue[i]
    BY <1>1, <1>3
  <2>3. \A i \in DOMAIN guiQueue' : i \notin DOMAIN guiQueue => guiQueue'[i] = WatchCall(mode)
    BY <1>1, <1>3
  <2>4. \A i \in DOMAIN guiQueue' : guiQueue'[i].call = "finished" =>
           i \in DOMAIN guiQueue /\ guiQueue'[i] = guiQueue[i]
    <3> SUFFICES ASSUME NEW i \in DOMAIN guiQueue', guiQueue'[i].call = "finished"
                 PROVE  i \in DOMAIN guiQueue /\ guiQueue'[i] = guiQueue[i]
      OBVIOUS
    <3> QED  BY <2>1, <2>2, <2>3
  <2> QED  BY <2>2, <2>4 DEF FinishedQueuedFor
<1> QED  BY <1>2, <1>3 DEF QueueKept

LEMMA PlainStepKeeps ==
  ASSUME EndInv, TypeOK, TypeOK', NEW t \in Thread, PlainStep(t)
  PROVE  EndInv'
<1>1. \A w \in Runs \cup {GUI} : w # t => pc'[w] = pc[w]
  BY TypesNamed, Places DEF PlainStep, MovesOn, Goto
<1>2. \A w \in Runs : Ended(w) => Ended(w)'
  BY TypesNamed DEF PlainStep, Concluded, GoesOn, Ended
<1>3. \A w \in Runs : pc'[w] = pc[w]
                      \/ (w = t /\ pc[w] \in DriveAt \cup {"start"} /\ pc'[w] \in DriveAt \cup {"check"})
  BY <1>1, TypesNamed, Places DEF PlainStep, MovesOn, Goto
<1>4. pc[t] = "start" => pc'[t] # "start" /\ t \in Runs /\ queryThread = t /\ queryTmp' = t
  <2> SUFFICES ASSUME pc[t] = "start"
               PROVE  pc'[t] # "start" /\ t \in Runs /\ queryThread = t /\ queryTmp' = t
    OBVIOUS
  <2>1. t \in Runs
    BY TypesNamed, Places
  <2>2. queryThread = t /\ queryTmp' = t
    BY <2>1 DEF PlainStep, EndInv, StartsAfterEnd
  <2>3. PICK label : Goto(t, label) /\ label \in DriveAt \cup {"check"}
    BY <2>1, Places DEF PlainStep, MovesOn
  <2>4. pc'[t] = label
    BY <2>3, TypesNamed DEF Goto
  <2> QED  BY <2>1, <2>2, <2>3, <2>4 DEF DriveAt
<1>5. pc[t] # "start" => queryTmp' = queryTmp
  BY DEF PlainStep
<1>6. \* who is told or loses its place as the run in progress has ended
      \A w \in Runs : pc[w] \notin {"none", "start"} \/ (w = t /\ pc[t] = "start") =>
         Ended(w)' \/ (queryTmp' = w /\ queryState' # "Inactive")
  <2> SUFFICES ASSUME NEW w \in Runs, pc[w] \notin {"none", "start"} \/ (w = t /\ pc[t] = "start")
               PROVE  Ended(w)' \/ (queryTmp' = w /\ queryState' # "Inactive")
    OBVIOUS
  <2>1. CASE Concluded(t)
    <3>1. queryTmp' \in Runs => Ended(queryTmp)'
      BY <2>1, TypesNamed DEF Concluded, Ended
    <3>2. CASE w = t /\ pc[t] = "start"
      BY <3>1, <3>2, <1>4
    <3>3. CASE pc[w] \notin {"none", "start"}
      <4>1. Ended(w) \/ (queryTmp = w /\ queryState # "Inactive")
        BY <3>3 DEF EndInv, EndReported
      <4>2. CASE Ended(w)
        BY <4>2, <1>2
      <4>3. CASE queryTmp = w /\ queryState # "Inactive" /\ pc[t] # "start"
        BY <4>3, <3>1, <1>5
      <4>4. CASE queryTmp = w /\ queryState # "Inactive" /\ pc[t] = "start"
        <5>1. Ended(w)
          BY <4>4, <1>4 DEF EndInv, StartsAfterEnd, Runs
        <5> QED  BY <5>1, <1>2
      <4> QED  BY <4>1, <4>2, <4>3, <4>4
    <3> QED  BY <3>2, <3>3
  <2>2. CASE GoesOn(t)
    <3>1. CASE w = t /\ pc[t] = "start"
      BY <3>1, <2>2, <1>4 DEF GoesOn
    <3>2. CASE pc[w] \notin {"none", "start"}
      <4>1. Ended(w) \/ (queryTmp = w /\ queryState # "Inactive")
        BY <3>2 DEF EndInv, EndReported
      <4>2. CASE Ended(w)
        BY <4>2, <1>2
      <4>3. CASE queryTmp = w /\ queryState # "Inactive" /\ pc[t] # "start"
        BY <4>3, <2>2, <1>5 DEF GoesOn
      <4>4. CASE queryTmp = w /\ queryState # "Inactive" /\ pc[t] = "start"
        <5>1. Ended(w)
          BY <4>4, <1>4 DEF EndInv, StartsAfterEnd, Runs
        <5> QED  BY <5>1, <1>2
      <4> QED  BY <4>1, <4>2, <4>3, <4>4
    <3> QED  BY <3>1, <3>2
  <2> QED  BY <2>1, <2>2 DEF PlainStep
<1>7. EndReported'
  BY <1>3, <1>6 DEF EndReported, DriveAt
<1>8. LeftAfterEnd'
  <2>1. {"quit", "gone"} \cap (DriveAt \cup {"check"}) = {}
    BY DEF DriveAt
  <2> QED  BY <1>2, <1>3, <2>1 DEF LeftAfterEnd, EndInv
<1>9. LastEnded'
  <2> SUFFICES ASSUME queryState' = "Inactive", queryTmp' # 0 PROVE Ended(queryTmp)'
    BY DEF LastEnded, Ended
  <2>1. queryTmp' \in Runs /\ (pc[t] # "start" => queryTmp' = queryTmp)
    <3>1. queryTmp' \in 0..MaxRun /\ MaxRun \in Nat
      BY ConnectionAssumption DEF TypeOK
    <3> QED  BY <3>1, <1>5 DEF Runs
  <2>2. CASE Concluded(t)
    BY <2>1, <2>2, TypesNamed DEF Concluded, Ended
  <2>3. CASE GoesOn(t)
    <3>1. queryState = "Inactive" /\ queryTmp' = queryTmp
      BY <2>1, <2>3 DEF GoesOn
    <3>2. Ended(queryTmp)
      BY <3>1 DEF EndInv, LastEnded
    <3> QED  BY <3>1, <3>2, <2>1, <1>2
  <2> QED  BY <2>2, <2>3 DEF PlainStep
<1>10. ToldAfterEnd'
  <2> SUFFICES ASSUME NEW w \in Runs, Told(w)' PROVE Ended(w)'
    BY DEF ToldAfterEnd
  <2>1. CASE Told(w)
    BY <2>1, <1>2 DEF EndInv, ToldAfterEnd
  <2>2. CASE ~Told(w)
    <3>1. Concluded(t) /\ w \in Listening(t)
      BY <2>2 DEF PlainStep, Concluded, GoesOn, SameTold
    <3>2. pc[w] \notin {"none", "start"} \/ w = t
      BY <3>1 DEF Listening
    <3>3. CASE pc[w] = "start"
      BY <3>1, <3>2, <3>3, <1>6 DEF Concluded
    <3>4. CASE pc[w] \notin {"none", "start"}
      BY <3>1, <3>4, <1>6 DEF Concluded
    <3>5. CASE pc[w] = "none"
      BY <3>2, <3>5 DEF PlainStep
    <3> QED  BY <3>3, <3>4, <3>5
  <2> QED  BY <2>1, <2>2
<1>11. StartsAfterEnd'
  <2> SUFFICES ASSUME NEW w \in Runs, pc'[w] = "start"
               PROVE  /\ queryThread' = w
                      /\ queryState' = "Inactive" \/ queryTmp' = 0 \/ Ended(queryTmp)'
    BY DEF StartsAfterEnd, Ended
  <2>1. pc[w] = "start" /\ w # t
    BY <1>3, <1>4 DEF DriveAt
  <2>2. queryThread = w /\ (queryState = "Inactive" \/ queryTmp = 0 \/ Ended(queryTmp))
    BY <2>1 DEF EndInv, StartsAfterEnd
  <2>3. pc[t] # "start"
    BY <2>1, <2>2, <1>4
  <2>4. queryTmp = 0 \/ Ended(queryTmp)
    BY <2>2 DEF EndInv, LastEnded
  <2>5. queryTmp \in Runs /\ Ended(queryTmp) => Ended(queryTmp)'
    BY <2>3, <1>5, <1>2 DEF Ended
  <2>6. queryTmp = 0 \/ queryTmp \in Runs
    BY ConnectionAssumption, TypesNamed DEF Runs
  <2> QED  BY <2>2, <2>3, <2>4, <2>5, <2>6, <1>5 DEF PlainStep
<1>12. NotBegun'
  <2>1. \A w \in Runs : pc[w] = "none" => pc'[w] = "none"
    BY <1>3 DEF DriveAt
  <2> QED  BY <2>1 DEF NotBegun, EndInv, PlainStep
<1>13. OfGoneWorkers'
  <2> SUFFICES ASSUME NEW i \in DOMAIN guiQueue', guiQueue'[i].call = "finished"
               PROVE  pc'[guiQueue'[i].run] = "gone"
    BY DEF OfGoneWorkers
  <2>1. i \in DOMAIN guiQueue /\ guiQueue'[i] = guiQueue[i]
    BY FinishedCallsKept DEF PlainStep
  <2>2. guiQueue[i].run \in Runs
    BY <2>1, TypesNamed DEF GuiCall
  <2>3. pc[guiQueue[i].run] = "gone"
    BY <2>1 DEF EndInv, OfGoneWorkers
  <2> QED  BY <2>1, <2>2, <2>3, <1>3 DEF DriveAt
<1>14. LastWorker'
  <2> SUFFICES ASSUME queryThread # 0
               PROVE  /\ pc'[queryThread] # "none"
                      /\ pc'[queryThread] = "gone" => FinishedQueuedFor(queryThread)'
    BY DEF LastWorker, PlainStep, FinishedQueuedFor
  <2>1. queryThread \in Runs
    BY TypesNamed DEF Runs
  <2>2. /\ pc[queryThread] # "none"
        /\ pc[queryThread] = "gone" => FinishedQueuedFor(queryThread)
    BY DEF EndInv, LastWorker
  <2>3. FinishedQueuedFor(queryThread) => FinishedQueuedFor(queryThread)'
    BY FinishedCallsKept DEF PlainStep, FinishedQueuedFor
  <2> QED  BY <2>1, <2>2, <2>3, <1>3 DEF DriveAt
<1>15. ToldInTheLoop'
  <2> SUFFICES ASSUME NEW w \in Runs, pc'[w] = "loop", queryState' = "Inactive"
               PROVE  Told(w)'
    BY DEF ToldInTheLoop
  <2>1. pc[w] = "loop"
    BY <1>3 DEF DriveAt
  <2>2. CASE Concluded(t)
    BY <2>1, <2>2 DEF Concluded, Listening
  <2>3. CASE GoesOn(t)
    BY <2>1, <2>3 DEF GoesOn, SameTold, EndInv, ToldInTheLoop
  <2> QED  BY <2>2, <2>3 DEF PlainStep
<1>16. FinishedAfterEnd'
  BY <1>2, TypesNamed DEF FinishedAfterEnd, EndInv, PlainStep, Ended, TypeOK
<1> QED
  BY <1>7, <1>8, <1>9, <1>10, <1>11, <1>12, <1>13, <1>14, <1>15, <1>16 DEF EndInv

(* What the helpers that end a run or queue a call do in these terms.       *)
LEMMA EmittedTold ==
  ASSUME NEW queue \in [Runs -> Seq(Signal)], NEW t, NEW s \in Signal,
         workerQueue' = Emitted(queue, t, s), NEW w \in Runs
  PROVE  Told(w)' <=> \/ \E i \in DOMAIN queue[w] : queue[w][i] = "Inactive"
                      \/ s = "Inactive" /\ w \in Listening(t)
<1>1. queue[w] \in Seq(Signal)
  OBVIOUS
<1>2. CASE w \in Listening(t)
  <2>1. workerQueue'[w] = Append(queue[w], s)
    BY <1>2 DEF Emitted
  <2>2. /\ \A i \in DOMAIN queue[w] : i \in DOMAIN workerQueue'[w]
                                      /\ workerQueue'[w][i] = queue[w][i]
        /\ Len(queue[w]) + 1 \in DOMAIN workerQueue'[w]
        /\ workerQueue'[w][Len(queue[w]) + 1] = s
        /\ \A i \in DOMAIN workerQueue'[w] : i \in DOMAIN queue[w] \/ i = Len(queue[w]) + 1
    BY <1>1, <2>1
  <2> QED  BY <1>2, <2>2 DEF Told
<1>3. CASE w \notin Listening(t)
  BY <1>3 DEF Emitted, Told
<1> QED  BY <1>2, <1>3

LEMMA ConcludeConcludes ==
  ASSUME TypeOK, NEW t, NEW v \in Verdict \ {"none"}, Conclude(t, queryTmp', v)
  PROVE  Concluded(t)
<1>1. workerQueue' = Emitted(workerQueue, t, "Inactive") /\ "Inactive" \in Signal
  BY DEF Conclude, Emit, Signal
<1>2. workerQueue \in [Runs -> Seq(Signal)]
  BY TypesNamed
<1>3. ASSUME NEW w \in Runs PROVE Told(w)' <=> Told(w) \/ w \in Listening(t)
  <2>1. Told(w)' <=> \/ \E i \in DOMAIN workerQueue[w] : workerQueue[w][i] = "Inactive"
                     \/ "Inactive" = "Inactive" /\ w \in Listening(t)
    BY <1>1, <1>2, EmittedTold
  <2> QED  BY <2>1 DEF Told
<1>4. /\ queryState' = "Inactive"
      /\ verdict' = [verdict EXCEPT ![queryTmp'] = IF @ = "none" THEN v ELSE @]
  BY DEF Conclude
<1> QED  BY <1>3, <1>4 DEF Concluded

LEMMA EndRunPlain ==
  ASSUME TypeOK, NEW t, NEW v \in Verdict \ {"none"}, EndRun(t, v), queryTmp' = queryTmp,
         pc[t] # "start"
  PROVE  Concluded(t) \/ GoesOn(t)
BY ConcludeConcludes DEF EndRun, GoesOn, SameTold, Told

LEMMA CarriesOn ==
  ASSUME NEW t, UNCHANGED <<queryState, workerQueue, verdict>>, pc[t] # "start"
  PROVE  GoesOn(t)
BY DEF GoesOn, SameTold, Told

LEMMA WatchSocketKeepsQueue ==
  ASSUME NEW t, NEW mode, NEW l, WatchSocket(t, mode, l)
  PROVE  QueueKept
BY DEF WatchSocket, QueueKept

LEMMA CloseLockedKeepsQueue ==
  ASSUME NEW t, NEW l, CloseLocked(t, l)
  PROVE  QueueKept
BY WatchSocketKeepsQueue DEF CloseLocked

LEMMA AfterIsPlain ==
  ASSUME NEW t \in Thread
  PROVE  t = GUI \/ After(t) \in DriveAt \cup {"check"}
BY DEF After

LEMMA LinkLostPlain ==
  ASSUME TypeOK, NEW t \in Thread, NEW l, NEW flushed, NEW resent, NEW live,
         LinkLostMidQuery(t, l, flushed, resent, live, queryTmp'),
         t = GUI \/ pc[t] \in DriveAt \cup {"start"},
         live \/ (queryState = "Inactive" /\ pc[t] # "start")
  PROVE  QueueKept /\ MovesOn(t) /\ (Concluded(t) \/ GoesOn(t))
<1>1. QueueKept
  BY CloseLockedKeepsQueue, WatchSocketKeepsQueue DEF LinkLostMidQuery
<1>2. MovesOn(t)
  <2>1. "open" \in DriveAt
    BY DEF DriveAt
  <2> QED  BY <2>1, AfterIsPlain DEF LinkLostMidQuery, MovesOn
<1> SUFFICES Concluded(t) \/ GoesOn(t)
  BY <1>1, <1>2
<1>3. CASE Conclude(t, queryTmp', "unknown")
  BY <1>3, ConcludeConcludes DEF Verdict
<1>4. CASE SetState("Reconnecting")
  BY <1>4 DEF SetState, GoesOn, SameTold, Told
<1>5. CASE SetState("Inactive") /\ ~live
  BY <1>5 DEF SetState, GoesOn, SameTold, Told
<1>6. Conclude(t, queryTmp', "unknown") \/ SetState("Reconnecting") \/ (SetState("Inactive") /\ ~live)
  BY DEF LinkLostMidQuery
<1> QED  BY <1>3, <1>4, <1>5, <1>6

LEMMA DrivePlain ==
  ASSUME TypeOK, NEW t \in Thread, Drive(t)
  PROVE  PlainStep(t)
<1>1. /\ {"notsent", "unknown"} \subseteq Verdict \ {"none"} /\ After(t) # "start"
      /\ {"open", "poll", "resend", "dropped"} = DriveAt
  BY DEF Verdict, After, DriveAt
<1>2. CASE RunQueryNoLink(t) \/ RunQueryRefused(t) \/ RunQuerySent(t) \/ RunQueryWriteFailed(t)
  <2>1. RunQueryBegins(t)
    BY <1>2 DEF RunQueryNoLink, RunQueryRefused, RunQuerySent, RunQueryWriteFailed
  <2>2. /\ UNCHANGED <<queryThread, nrun, finished>>
        /\ queryTmp' = IF pc[t] = "start" THEN t ELSE queryTmp
        /\ pc[t] \in DriveAt \cup {"start"} /\ pc[t] # "none" /\ queryTmp' = TextOf(t)
    BY <1>1, <2>1 DEF RunQueryBegins, RunQuery, TextOf, Fresh, bounds
  <2>3. CASE RunQueryNoLink(t)
    <3>1. QueueKept
      BY <2>3, CloseLockedKeepsQueue DEF RunQueryNoLink, QueueKept
    <3>2. MovesOn(t)
      BY <1>1, <2>2, <2>3 DEF RunQueryNoLink, MovesOn
    <3>3. GoesOn(t)
      BY <2>3 DEF RunQueryNoLink, SetState, GoesOn, SameTold, Told
    <3> QED  BY <2>2, <3>1, <3>2, <3>3 DEF PlainStep
  <2>4. CASE RunQueryRefused(t)
    <3>1. MovesOn(t) /\ QueueKept
      BY <2>2, <2>4, AfterIsPlain DEF RunQueryRefused, MovesOn, QueueKept
    <3>2. Concluded(t)
      BY <1>1, <2>2, <2>4, ConcludeConcludes DEF RunQueryRefused
    <3> QED  BY <2>2, <3>1, <3>2 DEF PlainStep
  <2>5. CASE RunQuerySent(t)
    <3>1. MovesOn(t) /\ QueueKept
      BY <2>2, <2>5, AfterIsPlain, WatchSocketKeepsQueue DEF RunQuerySent, MovesOn
    <3>2. GoesOn(t)
      BY <2>5 DEF RunQuerySent, SetState, GoesOn, SameTold, Told
    <3> QED  BY <2>2, <3>1, <3>2 DEF PlainStep
  <2>6. CASE RunQueryWriteFailed(t)
    <3>1. PICK l : LinkLostMidQuery(t, l, TextOf(t) \in Params, Resent(t), TRUE, queryTmp')
      BY <2>2, <2>6 DEF RunQueryWriteFailed
    <3>2. QueueKept /\ MovesOn(t) /\ (Concluded(t) \/ GoesOn(t))
      BY <2>2, <3>1, LinkLostPlain
    <3> QED  BY <2>2, <3>2 DEF PlainStep
  <2> QED  BY <1>2, <2>3, <2>4, <2>5, <2>6
<1>3. CASE TransactionLost(t)
  <2>1. pc[t] = "dropped" /\ UNCHANGED <<queryThread, nrun, finished, queryTmp>> /\ QueueKept
    BY <1>3 DEF TransactionLost, bounds, history, QueueKept
  <2>2. MovesOn(t)
    BY <1>1, <1>3, <2>1, AfterIsPlain DEF TransactionLost, MovesOn
  <2>3. Concluded(t) \/ GoesOn(t)
    BY <1>1, <1>3, <2>1, EndRunPlain DEF TransactionLost
  <2> QED  BY <2>1, <2>2, <2>3 DEF PlainStep
<1>4. CASE OpenAsync(t)
  <2>1. pc[t] = "open" /\ UNCHANGED <<queryThread, nrun, finished, queryTmp>>
    BY <1>4 DEF OpenAsync, bounds, history
  <2>2. MovesOn(t)
    BY <1>1, <1>4, <2>1, AfterIsPlain DEF OpenAsync, MovesOn
  <2>3. Concluded(t) \/ GoesOn(t)
    BY <1>1, <1>4, <2>1, EndRunPlain, CarriesOn DEF OpenAsync
  <2>4. QueueKept
    BY <1>4, WatchSocketKeepsQueue DEF OpenAsync, QueueKept
  <2> QED  BY <2>1, <2>2, <2>3, <2>4 DEF PlainStep
<1>5. CASE PollAgain(t) \/ PollFailed(t) \/ PollOk(t)
  <2>1. Poll(t)
    BY <1>5 DEF PollAgain, PollFailed, PollOk
  <2>2. pc[t] = "poll" /\ UNCHANGED <<queryThread, nrun, finished, queryTmp>>
    BY <2>1 DEF Poll, bounds, history
  <2>3. MovesOn(t)
    BY <1>1, <1>5, <2>2, AfterIsPlain DEF PollAgain, PollFailed, PollOk, MovesOn
  <2>4. Concluded(t) \/ GoesOn(t)
    BY <1>1, <1>5, <2>2, EndRunPlain, CarriesOn DEF PollAgain, PollFailed, PollOk
  <2>5. QueueKept
    BY <1>5, WatchSocketKeepsQueue DEF PollAgain, PollFailed, PollOk, QueueKept
  <2> QED  BY <2>2, <2>3, <2>4, <2>5 DEF PlainStep
<1> QED  BY <1>2, <1>3, <1>4, <1>5 DEF Drive

LEMMA HandlerBeginsPlain ==
  ASSUME TypeOK, NEW label, HandlerBegins(label)
  PROVE  PlainStep(GUI)
<1>1. pc[GUI] # "start" /\ pc[GUI] # "none"
  BY TypesNamed DEF GuiAt, DriveAt
<1>2. /\ UNCHANGED <<queryThread, nrun, finished, queryTmp, guiQueue>>
      /\ UNCHANGED <<queryState, workerQueue, verdict>> /\ Goto(GUI, label)
  BY DEF HandlerBegins, members, bounds, history
<1>3. GoesOn(GUI)
  BY <1>1, <1>2, CarriesOn
<1> QED  BY <1>1, <1>2, <1>3 DEF PlainStep, QueueKept, MovesOn

(* Signals other than that of the end tell the workers nothing of it.       *)
LEMMA ClosePlain ==
  ASSUME TypeOK, NEW waiting, NEW done, Close(waiting, done),
         UNCHANGED <<queryState, queryTmp, queryThread, nrun, verdict, finished>>
  PROVE  PlainStep(GUI)
<1>1. pc[GUI] # "start" /\ pc[GUI] # "none"
  BY TypesNamed DEF GuiAt, DriveAt
<1>2. QueueKept /\ MovesOn(GUI)
  BY CloseLockedKeepsQueue DEF Close, QueueKept, MovesOn
<1>3. SameTold
  <2> SUFFICES ASSUME NEW w \in Runs PROVE Told(w)' <=> Told(w)
    BY DEF SameTold
  <2>1. CASE workerQueue'[w] = workerQueue[w]
    BY <2>1 DEF Told
  <2>2. CASE workerQueue'[w] = Append(workerQueue[w], "close")
    <3>1. workerQueue[w] \in Seq(Signal)
      BY TypesNamed
    <3>2. /\ \A i \in DOMAIN workerQueue[w] : i \in DOMAIN workerQueue'[w]
                                             /\ workerQueue'[w][i] = workerQueue[w][i]
          /\ \A i \in DOMAIN workerQueue'[w] :
                i \in DOMAIN workerQueue[w] \/ workerQueue'[w][i] = "close"
      BY <2>2, <3>1
    <3> QED  BY <3>2 DEF Told
  <2>3. workerQueue'[w] = workerQueue[w] \/ workerQueue'[w] = Append(workerQueue[w], "close")
    BY TypesNamed DEF Close
  <2> QED  BY <2>1, <2>2, <2>3
<1> QED  BY <1>1, <1>2, <1>3 DEF PlainStep, GoesOn

LEMMA GuiPlain ==
  ASSUME TypeOK,
         \/ Notifier \/ Handler \/ SwitchDatabase \/ CancelByClosing \/ CancelRequest
         \/ Environment \/ UNCHANGED vars
  PROVE  PlainStep(GUI)
<1>1. pc[GUI] # "start" /\ pc[GUI] # "none" /\ GUI \in Thread
      /\ {"notsent", "unknown", "answered"} \subseteq Verdict \ {"none"}
  BY TypesNamed, Places DEF GuiAt, DriveAt, Verdict
<1>2. CASE Notifier \/ FlushReadDone \/ IdleLinkClosed \/ SwitchClosed
  BY <1>2, HandlerBeginsPlain
     DEF Notifier, ReadyReadSocket, ReadyWriteSocket, FlushReadDone, IdleLinkClosed, SwitchClosed,
         CloseDone
<1>3. CASE FlushRead
  <2>1. UNCHANGED <<queryThread, nrun, finished, queryTmp>>
    BY <1>3 DEF FlushRead, bounds, history
  <2>2. CASE LinkLostMidQuery(GUI, link, queryFlushed, resentOnce, queryState # "Inactive", queryTmp)
    BY <1>1, <2>1, <2>2, LinkLostPlain DEF PlainStep
  <2>3. CASE ~LinkLostMidQuery(GUI, link, queryFlushed, resentOnce, queryState # "Inactive", queryTmp)
    <3>1. MovesOn(GUI) /\ QueueKept
      BY <1>3, <2>3, WatchSocketKeepsQueue DEF FlushRead, MovesOn, QueueKept
    <3>2. Concluded(GUI) \/ GoesOn(GUI)
      BY <1>1, <1>3, <2>1, <2>3, EndRunPlain, CarriesOn DEF FlushRead
    <3> QED  BY <1>1, <2>1, <3>1, <3>2 DEF PlainStep
  <2> QED  BY <2>2, <2>3
<1>4. CASE WriteWhole \/ WritePart \/ WriteNothing
  <2>1. UNCHANGED <<queryThread, nrun, finished, queryTmp, queryState, workerQueue, verdict>>
    BY <1>4 DEF WriteWhole, WritePart, WriteNothing, Write, bounds, history
  <2>2. MovesOn(GUI) /\ QueueKept
    BY <1>4, WatchSocketKeepsQueue DEF WriteWhole, WritePart, WriteNothing, MovesOn, QueueKept
  <2> QED  BY <1>1, <2>1, <2>2, CarriesOn DEF PlainStep
<1>5. CASE WriteFailed \/ FetchLinkLost
  <2>1. UNCHANGED <<queryThread, nrun, finished, queryTmp>>
    BY <1>5 DEF WriteFailed, FetchLinkLost, Write, Fetch, bounds, history
  <2>2. LinkLostMidQuery(GUI, link, queryFlushed, resentOnce, queryState # "Inactive", queryTmp)
    BY <1>5 DEF WriteFailed, FetchLinkLost
  <2> QED  BY <1>1, <2>1, <2>2, LinkLostPlain DEF PlainStep
<1>6. CASE FetchBegins \/ CancelRequested
  <2>1. UNCHANGED <<queryThread, nrun, finished, queryTmp, workerQueue, verdict, guiQueue>>
    BY <1>6 DEF FetchBegins, CancelRequested, members, bounds, history
  <2>2. MovesOn(GUI) /\ QueueKept
    BY <1>6, <2>1 DEF FetchBegins, CancelRequested, MovesOn, QueueKept
  <2>3. queryState' = queryState \/ queryState' = "Cancelling"
    BY <1>6 DEF FetchBegins, CancelRequested, members
  <2> QED  BY <1>1, <2>1, <2>2, <2>3 DEF PlainStep, GoesOn, SameTold, Told
<1>7. CASE FetchIdleLinkLost \/ FetchNothing \/ FetchResult \/ FetchEnd \/ FetchFinished
  <2>1. UNCHANGED <<queryThread, nrun, finished, queryTmp>>
    BY <1>7 DEF FetchIdleLinkLost, FetchNothing, FetchResult, FetchEnd, FetchFinished, Fetch, bounds,
                history
  <2>2. MovesOn(GUI) /\ QueueKept
    BY <1>1, <1>7, WatchSocketKeepsQueue
       DEF FetchIdleLinkLost, FetchNothing, FetchResult, FetchEnd, FetchFinished, MovesOn, QueueKept
  <2>3. Concluded(GUI) \/ GoesOn(GUI)
    BY <1>1, <1>7, <2>1, EndRunPlain, CarriesOn
       DEF FetchIdleLinkLost, FetchNothing, FetchResult, FetchEnd, FetchFinished
  <2> QED  BY <1>1, <2>1, <2>2, <2>3 DEF PlainStep
<1>8. CASE IdleLinkClose \/ SwitchDatabase
  <2>1. UNCHANGED <<queryState, queryTmp, queryThread, nrun, verdict, finished>>
    BY <1>8 DEF IdleLinkClose, SwitchDatabase, bounds, history
  <2> QED  BY <1>8, <2>1, ClosePlain DEF IdleLinkClose, SwitchDatabase
<1>9. CASE SwitchOpen \/ CancelRequest \/ Environment \/ UNCHANGED vars
  <2>1. UNCHANGED <<queryThread, nrun, finished, queryTmp, queryState, workerQueue, verdict, guiQueue>>
    BY <1>9 DEF SwitchOpen, CancelRequest, Cancel, Environment, ServerExecutes, OrphanExecutes,
                LinkDies, vars, members, bounds, server, history
  <2>2. MovesOn(GUI)
    BY <1>1, <1>9 DEF SwitchOpen, CancelRequest, Environment, ServerExecutes, OrphanExecutes,
                LinkDies, vars, MovesOn
  <2> QED  BY <1>1, <2>1, <2>2, CarriesOn DEF PlainStep, QueueKept
<1>10. CASE CancelByClosing
  <2>1. UNCHANGED <<queryThread, nrun, finished, queryTmp, queryState, verdict, guiQueue, pc>>
    BY <1>10 DEF CancelByClosing, Cancel, members, history
  <2>2. SameTold
    <3>1. workerQueue' = Emitted(workerQueue, GUI, "closeConnectionWanted")
      BY <1>10 DEF CancelByClosing, Emit
    <3>2. "closeConnectionWanted" \in Signal
      BY DEF Signal
    <3> QED  BY <3>1, <3>2, EmittedTold, TypesNamed DEF SameTold, Told
  <2> QED  BY <1>1, <2>1, <2>2 DEF PlainStep, QueueKept, MovesOn, GoesOn
<1> QED
  BY <1>2, <1>3, <1>4, <1>5, <1>6, <1>7, <1>8, <1>9, <1>10 DEF Handler

(* A worker takes a signal that is not that of the end.                     *)
LEMMA RestTold ==
  ASSUME TypeOK, NEW w \in Runs, NEW s \in Signal, NextSignal(w, s)
  PROVE  /\ Rest(w) \in [Runs -> Seq(Signal)]
         /\ s # "Inactive" =>
              \A u \in Runs : (\E i \in DOMAIN Rest(w)[u] : Rest(w)[u][i] = "Inactive") <=> Told(u)
         /\ \A u \in Runs \ {w} : Rest(w)[u] = workerQueue[u]
         /\ \A u \in Runs : (\E i \in DOMAIN Rest(w)[u] : Rest(w)[u][i] = "Inactive") => Told(u)
<1>1. workerQueue \in [Runs -> Seq(Signal)] /\ workerQueue[w] \in Seq(Signal)
      /\ workerQueue[w] # <<>> /\ Head(workerQueue[w]) = s
  BY TypesNamed DEF NextSignal
<1>2. Rest(w)[w] = Tail(workerQueue[w]) /\ \A u \in Runs \ {w} : Rest(w)[u] = workerQueue[u]
  BY <1>1 DEF Rest
<1>3. Rest(w) \in [Runs -> Seq(Signal)]
  BY <1>1 DEF Rest
<1>4. /\ \A i \in DOMAIN Tail(workerQueue[w]) :
            i + 1 \in DOMAIN workerQueue[w] /\ Tail(workerQueue[w])[i] = workerQueue[w][i + 1]
      /\ \A i \in DOMAIN workerQueue[w] : i = 1 \/ i - 1 \in DOMAIN Tail(workerQueue[w])
      /\ \A i \in DOMAIN workerQueue[w] : i # 1 => Tail(workerQueue[w])[i - 1] = workerQueue[w][i]
      /\ workerQueue[w][1] = s
  BY <1>1
<1>5. (\E i \in DOMAIN Rest(w)[w] : Rest(w)[w][i] = "Inactive") => Told(w)
  BY <1>2, <1>4 DEF Told
<1>6. s # "Inactive" /\ Told(w) => \E i \in DOMAIN Rest(w)[w] : Rest(w)[w][i] = "Inactive"
  BY <1>2, <1>4 DEF Told
<1> QED  BY <1>2, <1>3, <1>5, <1>6 DEF Told

LEMMA CloseSignalsPlain ==
  ASSUME TypeOK, NEW w \in Runs, CloseConnectionWanted(w) \/ CloseCalled(w)
  PROVE  PlainStep(w)
<1>1. pc[w] = "loop" /\ UNCHANGED <<queryTmp, queryThread, nrun, finished, pc>>
  BY DEF CloseConnectionWanted, CloseCalled, NextSignal, Looping, bounds, history
<1>2. QueueKept
  BY CloseLockedKeepsQueue DEF CloseConnectionWanted, CloseCalled, QueueKept
<1>3. PICK s \in Signal \ {"Inactive"} : NextSignal(w, s)
  BY DEF CloseConnectionWanted, CloseCalled, Signal
<1>4. /\ Rest(w) \in [Runs -> Seq(Signal)]
      /\ \A u \in Runs : (\E i \in DOMAIN Rest(w)[u] : Rest(w)[u][i] = "Inactive") <=> Told(u)
  BY <1>3, RestTold
<1>5. CASE /\ workerQueue' = Rest(w) /\ UNCHANGED verdict
           /\ queryState' = "Inactive" => queryState = "Inactive"
  <2>1. SameTold
    <3> SUFFICES ASSUME NEW u \in Runs PROVE Told(u)' <=> Told(u)
      BY DEF SameTold
    <3>1. Told(u)' <=> \E i \in DOMAIN Rest(w)[u] : Rest(w)[u][i] = "Inactive"
      BY <1>5 DEF Told
    <3> QED  BY <3>1, <1>4
  <2>2. GoesOn(w)
    BY <1>1, <1>5, <2>1 DEF GoesOn
  <2> QED  BY <1>1, <1>2, <2>2 DEF PlainStep, MovesOn
<1>6. CASE /\ workerQueue' = Emitted(Rest(w), w, "Inactive") /\ queryState' = "Inactive"
           /\ verdict' = [verdict EXCEPT ![queryTmp] = IF @ = "none" THEN "closed" ELSE @]
  <2>1. ASSUME NEW u \in Runs PROVE Told(u)' <=> Told(u) \/ u \in Listening(w)
    <3>1. "Inactive" \in Signal
      BY DEF Signal
    <3>2. Told(u)' <=> \/ \E i \in DOMAIN Rest(w)[u] : Rest(w)[u][i] = "Inactive"
                       \/ "Inactive" = "Inactive" /\ u \in Listening(w)
      BY <1>4, <1>6, <3>1, EmittedTold
    <3> QED  BY <3>2, <1>4
  <2>2. "closed" \in Verdict \ {"none"}
    BY DEF Verdict
  <2>3. Concluded(w)
    BY <1>1, <1>6, <2>1, <2>2 DEF Concluded
  <2> QED  BY <1>1, <1>2, <2>3 DEF PlainStep, MovesOn
<1> QED  BY <1>5, <1>6 DEF CloseConnectionWanted, CloseCalled

(* The worker looks at the state, is told of the end, or is gone.           *)
LEMMA WorkerEnds ==
  ASSUME EndInv, TypeOK, TypeOK', NEW w \in Runs,
         CheckExit(w) \/ RunEnded(w) \/ WorkerFinished(w)
  PROVE  EndInv'
<1>1. /\ UNCHANGED <<queryState, queryTmp, queryThread, nrun, verdict, finished>>
      /\ pc[w] \in {"check", "loop", "quit"}
  BY DEF CheckExit, RunEnded, WorkerFinished, NextSignal, Looping, members, bounds, history
<1>2. PICK label \in {"quit", "loop", "gone"} : Goto(w, label)
  BY DEF CheckExit, RunEnded, WorkerFinished
<1>3. pc'[w] = label /\ \A u \in Runs \ {w} : pc'[u] = pc[u]
  BY <1>2, TypesNamed, Places DEF Goto
<1>4. \A u \in Runs : Ended(u)' <=> Ended(u)
  BY <1>1 DEF Ended
<1>5. pc'[w] \in {"quit", "gone"} => Ended(w)
  <2>1. CASE CheckExit(w)
    <3>1. pc'[w] = "quit" => queryState = "Inactive"
      BY <2>1, TypesNamed, Places DEF CheckExit, Goto
    <3>2. pc'[w] # "gone"
      BY <2>1, TypesNamed, Places DEF CheckExit, Goto
    <3> QED  BY <1>1, <3>1, <3>2 DEF EndInv, EndReported
  <2>2. CASE RunEnded(w)
    <3>1. workerQueue[w] # <<>> /\ Head(workerQueue[w]) = "Inactive" /\ workerQueue[w] \in Seq(Signal)
      BY <2>2, TypesNamed DEF RunEnded, NextSignal
    <3>2. 1 \in DOMAIN workerQueue[w] /\ workerQueue[w][1] = "Inactive"
      BY <3>1
    <3> QED  BY <3>2 DEF Told, EndInv, ToldAfterEnd
  <2>3. CASE WorkerFinished(w)
    BY <2>3 DEF WorkerFinished, EndInv, LeftAfterEnd
  <2> QED  BY <2>1, <2>2, <2>3
<1>6. \A u \in Runs : Told(u)' => Told(u)
  <2>1. CASE CheckExit(w)
    BY <2>1 DEF CheckExit, Told
  <2>2. CASE RunEnded(w)
    <3>1. workerQueue' = Rest(w) /\ NextSignal(w, "Inactive") /\ "Inactive" \in Signal
      BY <2>2 DEF RunEnded, Signal
    <3>2. \A u \in Runs : (\E i \in DOMAIN Rest(w)[u] : Rest(w)[u][i] = "Inactive") => Told(u)
      BY <3>1, RestTold
    <3> SUFFICES ASSUME NEW u \in Runs PROVE Told(u)' => Told(u)
      OBVIOUS
    <3>3. Told(u)' <=> \E i \in DOMAIN Rest(w)[u] : Rest(w)[u][i] = "Inactive"
      BY <3>1 DEF Told
    <3> QED  BY <3>2, <3>3
  <2>3. CASE WorkerFinished(w)
    BY <2>3, TypesNamed DEF WorkerFinished, Told
  <2> QED  BY <2>1, <2>2, <2>3
<1>7. \A u \in Runs \ {w} : workerQueue'[u] = workerQueue[u]
  BY TypesNamed DEF CheckExit, RunEnded, WorkerFinished, Rest
<1>8. guiQueue' = guiQueue \/ (WorkerFinished(w) /\ guiQueue' = Append(guiQueue, FinishedCall(w)))
      \/ (RunEnded(w) /\ QueueKept)
  BY WatchSocketKeepsQueue DEF CheckExit, RunEnded, WorkerFinished
<1>9. EndReported' /\ LeftAfterEnd' /\ ToldAfterEnd' /\ LastEnded' /\ StartsAfterEnd'
  <2>1. EndReported'
    BY <1>1, <1>3, <1>4 DEF EndReported, EndInv
  <2>2. LeftAfterEnd'
    BY <1>3, <1>4, <1>5 DEF LeftAfterEnd, EndInv
  <2>3. ToldAfterEnd'
    BY <1>4, <1>6 DEF ToldAfterEnd, EndInv
  <2>4. LastEnded'
    BY <1>1 DEF LastEnded, EndInv, Ended
  <2>5. StartsAfterEnd'
    BY <1>1, <1>3 DEF StartsAfterEnd, EndInv, Ended
  <2> QED  BY <2>1, <2>2, <2>3, <2>4, <2>5
<1>10. NotBegun'
  BY <1>1, <1>3 DEF NotBegun, EndInv
<1>11. /\ \A r : FinishedQueuedFor(r) => FinishedQueuedFor(r)'
       /\ pc'[w] = "gone" => FinishedQueuedFor(w)'
       /\ \A i \in DOMAIN guiQueue' : guiQueue'[i].call = "finished" =>
             \/ i \in DOMAIN guiQueue /\ guiQueue'[i] = guiQueue[i]
             \/ guiQueue'[i].run = w /\ pc'[w] = "gone"
  <2>1. CASE WorkerFinished(w)
    <3>1. pc'[w] = "gone" /\ guiQueue' = Append(guiQueue, FinishedCall(w)) /\ guiQueue \in Seq(GuiCall)
      BY <2>1, TypesNamed, Places DEF WorkerFinished, Goto
    <3>2. /\ \A i \in DOMAIN guiQueue : i \in DOMAIN guiQueue' /\ guiQueue'[i] = guiQueue[i]
          /\ Len(guiQueue) + 1 \in DOMAIN guiQueue'
          /\ guiQueue'[Len(guiQueue) + 1] = FinishedCall(w)
          /\ \A i \in DOMAIN guiQueue' : i \in DOMAIN guiQueue \/ i = Len(guiQueue) + 1
      BY <3>1
    <3>3. FinishedCall(w).run = w
      BY DEF FinishedCall
    <3> QED  BY <3>1, <3>2, <3>3 DEF FinishedQueuedFor
  <2>2. CASE ~WorkerFinished(w)
    <3>1. QueueKept
      BY <2>2, <1>8 DEF QueueKept
    <3>2. pc'[w] # "gone"
      BY <2>2, TypesNamed, Places DEF CheckExit, RunEnded, Goto
    <3> QED  BY <3>1, <3>2, FinishedCallsKept
  <2> QED  BY <2>1, <2>2
<1>12. OfGoneWorkers'
  <2> SUFFICES ASSUME NEW i \in DOMAIN guiQueue', guiQueue'[i].call = "finished"
               PROVE  pc'[guiQueue'[i].run] = "gone"
    BY DEF OfGoneWorkers
  <2>1. CASE i \in DOMAIN guiQueue /\ guiQueue'[i] = guiQueue[i]
    <3>1. guiQueue[i].run \in Runs /\ pc[guiQueue[i].run] = "gone"
      BY <2>1, TypesNamed DEF GuiCall, EndInv, OfGoneWorkers
    <3> QED  BY <2>1, <3>1, <1>1, <1>3
  <2> QED  BY <2>1, <1>11
<1>13. LastWorker'
  <2> SUFFICES ASSUME queryThread # 0
               PROVE  /\ pc'[queryThread] # "none"
                      /\ pc'[queryThread] = "gone" => FinishedQueuedFor(queryThread)'
    BY <1>1 DEF LastWorker, FinishedQueuedFor
  <2>1. queryThread \in Runs
    BY TypesNamed DEF Runs
  <2>2. /\ pc[queryThread] # "none"
        /\ pc[queryThread] = "gone" => FinishedQueuedFor(queryThread)
    BY DEF EndInv, LastWorker
  <2>3. FinishedQueuedFor(queryThread) => FinishedQueuedFor(queryThread)'
    BY <1>1, <1>11 DEF FinishedQueuedFor
  <2>4. queryThread = w => (pc'[w] = "gone" => FinishedQueuedFor(queryThread)')
    BY <1>1, <1>11 DEF FinishedQueuedFor
  <2> QED  BY <2>1, <2>2, <2>3, <2>4, <1>3
<1>14. ToldInTheLoop'
  <2> SUFFICES ASSUME NEW u \in Runs, pc'[u] = "loop", queryState = "Inactive" PROVE Told(u)'
    BY <1>1 DEF ToldInTheLoop
  <2>1. CASE u # w
    BY <2>1, <1>3, <1>7 DEF Told, EndInv, ToldInTheLoop
  <2>2. CASE u = w
    <3>1. CheckExit(w)
      BY <2>2, TypesNamed, Places DEF RunEnded, WorkerFinished, Goto
    <3> QED  BY <2>2, <3>1, TypesNamed, Places DEF CheckExit, Goto
  <2> QED  BY <2>1, <2>2
<1>15. FinishedAfterEnd'
  BY <1>1 DEF FinishedAfterEnd, EndInv
<1> QED  BY <1>9, <1>10, <1>12, <1>13, <1>14, <1>15 DEF EndInv

(* A new request: no worker is starting, so that of the last run is the     *)
(* only one the new one could disturb, and its run has ended.               *)
LEMMA ExecuteAsyncEnds ==
  ASSUME EndInv, TypeOK, TypeOK', "starting" \notin Windows, ExecuteAsync
  PROVE  EndInv'
<1>1. /\ UNCHANGED <<queryTmp, queryState, workerQueue, verdict, finished, guiQueue>>
      /\ queryThread' = nrun + 1 /\ nrun' = nrun + 1 /\ Goto(nrun + 1, "start")
      /\ queryState = "Inactive" /\ nrun + 1 \in Runs /\ nrun + 1 # 0
  BY ConnectionAssumption, TypesNamed DEF ExecuteAsync, WatchSocket, members, history, Runs
<1>2. pc'[nrun + 1] = "start" /\ \A u \in Runs \ {nrun + 1} : pc'[u] = pc[u]
  BY <1>1, TypesNamed, Places DEF Goto
<1>3. pc[nrun + 1] = "none"
  BY <1>1, TypesNamed DEF EndInv, NotBegun
<1>4. \A u \in Runs : pc[u] # "start"
  BY DEF ExecuteAsync, InWindow, EndInv, StartsAfterEnd, Runs
<1>5. EndReported' /\ LeftAfterEnd' /\ ToldAfterEnd' /\ LastEnded' /\ FinishedAfterEnd'
  BY <1>1, <1>2 DEF EndInv, EndReported, LeftAfterEnd, ToldAfterEnd, LastEnded, FinishedAfterEnd,
                    Ended, Told
<1>6. StartsAfterEnd'
  BY <1>1, <1>2, <1>4 DEF StartsAfterEnd
<1>7. NotBegun'
  BY <1>1, <1>2, TypesNamed DEF NotBegun, EndInv, Runs
<1>8. OfGoneWorkers'
  <2>1. \A i \in DOMAIN guiQueue : guiQueue[i].call = "finished" => guiQueue[i].run \in Runs
    BY TypesNamed DEF GuiCall
  <2> QED  BY <1>1, <1>2, <1>3, <2>1 DEF EndInv, OfGoneWorkers
<1>9. LastWorker'
  BY <1>1, <1>2 DEF LastWorker
<1>10. ToldInTheLoop'
  BY <1>1, <1>2 DEF ToldInTheLoop, EndInv, Told
<1> QED  BY <1>5, <1>6, <1>7, <1>8, <1>9, <1>10 DEF EndInv

(* The gui thread runs a call queued to it.                                 *)
LEMMA QueuedCallEnds ==
  ASSUME EndInv, TypeOK, TypeOK', WatchSocketQueued \/ ThreadFinished
  PROVE  EndInv'
<1>1. /\ UNCHANGED <<queryState, queryTmp, pc, workerQueue, verdict, nrun>>
      /\ guiQueue # <<>> /\ guiQueue' = Tail(guiQueue) /\ guiQueue \in Seq(GuiCall)
  BY TypesNamed DEF WatchSocketQueued, ThreadFinished, NextCall, members, bounds
<1>2. /\ \A i \in DOMAIN guiQueue' : i + 1 \in DOMAIN guiQueue /\ guiQueue'[i] = guiQueue[i + 1]
      /\ \A i \in DOMAIN guiQueue : i # 1 => i - 1 \in DOMAIN guiQueue'
                                             /\ guiQueue'[i - 1] = guiQueue[i]
      /\ 1 \in DOMAIN guiQueue /\ guiQueue[1] = Head(guiQueue)
  BY <1>1
<1>3. NotBegun' /\ EndReported' /\ LeftAfterEnd' /\ ToldAfterEnd' /\ LastEnded' /\ ToldInTheLoop'
  BY <1>1 DEF EndInv, NotBegun, EndReported, LeftAfterEnd, ToldAfterEnd, LastEnded, ToldInTheLoop,
              Ended, Told
<1>4. OfGoneWorkers'
  BY <1>1, <1>2 DEF EndInv, OfGoneWorkers
<1>5. CASE WatchSocketQueued
  <2>1. UNCHANGED <<queryThread, finished>> /\ Head(guiQueue).call = "watch"
    BY <1>5 DEF WatchSocketQueued, NextCall, history
  <2>2. StartsAfterEnd' /\ FinishedAfterEnd'
    BY <1>1, <2>1 DEF EndInv, StartsAfterEnd, FinishedAfterEnd, Ended
  <2>3. \A r : FinishedQueuedFor(r) => FinishedQueuedFor(r)'
    <3> SUFFICES ASSUME NEW r, NEW i \in DOMAIN guiQueue, guiQueue[i] = FinishedCall(r)
                 PROVE  FinishedQueuedFor(r)'
      BY DEF FinishedQueuedFor
    <3>1. i # 1
      BY <1>2, <2>1 DEF FinishedCall
    <3> QED  BY <3>1, <1>2 DEF FinishedQueuedFor
  <2>4. LastWorker'
    BY <1>1, <2>1, <2>3 DEF EndInv, LastWorker, FinishedQueuedFor
  <2> QED  BY <1>3, <1>4, <2>2, <2>4 DEF EndInv
<1>6. CASE ThreadFinished
  <2>1. Head(guiQueue).call = "finished" /\ Head(guiQueue).run \in Runs
    BY <1>2, <1>6, TypesNamed DEF ThreadFinished, NextCall, GuiCall
  <2>2. pc[Head(guiQueue).run] = "gone" /\ Ended(Head(guiQueue).run)
    BY <1>2, <2>1 DEF EndInv, OfGoneWorkers, LeftAfterEnd
  <2>3. CASE queryThread = Head(guiQueue).run
    <3>1. queryThread' = 0 /\ finished' = finished \cup {Head(guiQueue).run}
      BY <1>6, <2>3 DEF ThreadFinished
    <3>2. \A u \in Runs : pc[u] # "start"
      BY <2>2, <2>3 DEF EndInv, StartsAfterEnd
    <3>3. StartsAfterEnd' /\ LastWorker'
      BY <1>1, <3>1, <3>2 DEF StartsAfterEnd, LastWorker
    <3>4. FinishedAfterEnd'
      BY <1>1, <2>2, <3>1 DEF FinishedAfterEnd, EndInv, Ended
    <3> QED  BY <1>3, <1>4, <3>3, <3>4 DEF EndInv
  <2>4. CASE queryThread # Head(guiQueue).run
    <3>1. UNCHANGED <<queryThread, finished>>
      BY <1>6, <2>4 DEF ThreadFinished
    <3>2. StartsAfterEnd' /\ FinishedAfterEnd'
      BY <1>1, <3>1 DEF EndInv, StartsAfterEnd, FinishedAfterEnd, Ended
    <3>3. FinishedQueuedFor(queryThread) => FinishedQueuedFor(queryThread)'
      <4> SUFFICES ASSUME NEW i \in DOMAIN guiQueue, guiQueue[i] = FinishedCall(queryThread)
                   PROVE  \E j \in DOMAIN guiQueue' : guiQueue'[j] = FinishedCall(queryThread)
        BY <3>1 DEF FinishedQueuedFor
      <4>1. i # 1
        BY <1>2, <2>4 DEF FinishedCall
      <4> QED  BY <4>1, <1>2
    <3>4. LastWorker'
      BY <1>1, <3>1, <3>3 DEF EndInv, LastWorker, FinishedQueuedFor
    <3> QED  BY <1>3, <1>4, <3>2, <3>4 DEF EndInv
  <2> QED  BY <2>3, <2>4
<1> QED  BY <1>5, <1>6

LEMMA EndInductive ==
  ASSUME EndInv, TypeOK, [Next]_vars, "starting" \notin Windows
  PROVE  EndInv'
<1>1. TypeOK'
  BY TypeInductive
<1>2. CASE \/ Notifier \/ Handler \/ SwitchDatabase \/ CancelByClosing \/ CancelRequest
           \/ Environment \/ UNCHANGED vars
  BY <1>1, <1>2, GuiPlain, PlainStepKeeps, Places
<1>3. CASE ExecuteAsync
  BY <1>1, <1>3, ExecuteAsyncEnds
<1>4. CASE WatchSocketQueued \/ ThreadFinished
  BY <1>1, <1>4, QueuedCallEnds
<1>5. CASE \E t \in Thread : Drive(t)
  BY <1>1, <1>5, DrivePlain, PlainStepKeeps
<1>6. ASSUME NEW w \in Runs, Worker(w) PROVE EndInv'
  <2>1. CASE CloseConnectionWanted(w) \/ CloseCalled(w)
    BY <1>1, <2>1, CloseSignalsPlain, PlainStepKeeps, Places
  <2>2. CASE CheckExit(w) \/ RunEnded(w) \/ WorkerFinished(w)
    BY <1>1, <2>2, WorkerEnds
  <2> QED  BY <1>6, <2>1, <2>2 DEF Worker
<1> QED  BY <1>2, <1>3, <1>4, <1>5, <1>6 DEF Next, User

LEMMA EndInitially == Init => EndInv
<1> SUFFICES ASSUME Init PROVE EndInv
  OBVIOUS
<1>1. /\ queryState = "Inactive" /\ queryTmp = 0 /\ queryThread = 0 /\ guiQueue = <<>>
      /\ workerQueue = [w \in Runs |-> <<>>] /\ finished = {}
      /\ \A w \in Runs : pc[w] = "none"
  BY Places DEF Init
<1>2. \A w \in Runs : ~Told(w)
  BY <1>1 DEF Told
<1> QED
  BY <1>1, <1>2 DEF EndInv, EndReported, LeftAfterEnd, ToldAfterEnd, LastEnded, StartsAfterEnd,
     NotBegun, OfGoneWorkers, LastWorker, ToldInTheLoop, FinishedAfterEnd

LEMMA EndHolds ==
  ASSUME "starting" \notin Windows
  PROVE  Spec => []EndInv
<1>1. Init => EndInv
  BY EndInitially
<1>2. EndInv /\ TypeOK /\ [Next]_vars => EndInv'
  BY EndInductive
<1> QED  BY <1>1, <1>2, TypeCorrect, PTL DEF Spec

(* Whatever closes the connection, loses its link or fails in libpq, the    *)
(* widgets are told that a run has finished (queryFinished(), emitted by    *)
(* the slot of QThread::finished) only after the connection has reported    *)
(* how it ended.  The one thing that is supposed is that no run is started  *)
(* while the worker of the last one is starting.                            *)
THEOREM FinishedIsReported ==
  ASSUME "starting" \notin Windows
  PROVE  Spec => []FinishedAfterEnd
<1>1. EndInv => FinishedAfterEnd
  BY DEF EndInv
<1> QED  BY <1>1, EndHolds, PTL

-----------------------------------------------------------------------------
(* A run's query is executed at most once, only one thread restores the    *)
(* link, and what is reported of a run is what became of it.               *)

(* What the proofs of the safety properties suppose: the link is not closed *)
(* under a run (by the user, or by switching to another database), reading  *)
(* a live socket does not fail, and no run is started while the worker of   *)
(* the last one is starting.                                                *)
Undisturbed ==
    /\ "close" \notin CancelKinds /\ MaxSwitch = 0
    /\ "read" \notin Failures /\ "starting" \notin Windows

-----------------------------------------------------------------------------
(* The invariant.  While a worker starts or drives its run it is alone: no  *)
(* notifier is enabled, none is about to be, and the gui thread is idle.    *)
Starting(w) == pc[w] \in {"start", "open", "poll", "dropped"}
Watches(call) == call.call = "watch" /\ call.mode # {}
NoWatchQueued == \A i \in DOMAIN guiQueue : ~Watches(guiQueue[i])

Alone == watched = {} /\ pc[GUI] = "idle" /\ NoWatchQueued

WorkersAlone ==
    \A w \in Runs : Starting(w) => queryThread = w /\ workerQueue[w] = <<>> /\ Alone

(* Where a worker can be, and what it may suppose of the state there.       *)
WorkerPlaces ==
    \A w \in Runs :
       /\ pc[w] # "resend"
       /\ pc[w] = "none" <=> w > nrun
       /\ pc[w] = "none" => workerQueue[w] = <<>>
       /\ pc[w] = "start" => queryState = "Inactive" /\ stage # "flush"
       /\ pc[w] \in {"open", "poll", "dropped"} => queryState # "Inactive"
       /\ pc[w] \in {"open", "dropped"} => link.st = "null"
       /\ pc[w] = "poll" => link.st = "start" /\ stage = "connecting"

GuiPlaces ==
    /\ pc[GUI] \notin {"closing", "reopen"}
    /\ pc[GUI] = "open" => link.st = "null" /\ stage = "none"
    /\ pc[GUI] \in {"open", "poll", "resend", "dropped", "cancelled"} => queryTmp # 0
    /\ pc[GUI] = "poll" => stage = "connecting"
    /\ pc[GUI] = "resend" => queryState = "Reconnecting" /\ link.run = 0 /\ link.st = "ok"
    /\ pc[GUI] \in {"flushread", "flushed"} => stage = "flush"
    /\ pc[GUI] \in {"enter", "fetch", "answered", "resend"} => stage # "flush"
    /\ pc[GUI] \in {"lost", "lostwait"} => stage = "none"

(* A call that enables a notifier is queued by the worker that has handed   *)
(* the run over to the gui thread, and nothing happens until it is run.     *)
HandedToGui ==
    /\ queryThread # 0 /\ pc[queryThread] \in {"check", "loop"}
    /\ workerQueue[queryThread] = <<>>
    /\ queryState # "Inactive" /\ watched = {} /\ pc[GUI] \in {"idle", "cancelled"}

WatchQueued ==
    /\ NoWatchQueued \/ HandedToGui
    /\ \A i, j \in DOMAIN guiQueue : Watches(guiQueue[i]) /\ Watches(guiQueue[j]) => i = j

FinishedQueued ==
    \A i \in DOMAIN guiQueue : guiQueue[i].call = "finished" => pc[guiQueue[i].run] = "gone"

Signals ==
    \A w \in Runs : \A i \in DOMAIN workerQueue[w] :
       /\ workerQueue[w][i] # "closeConnectionWanted"
       /\ workerQueue[w][i] = "close" => pc[GUI] = "lostwait" /\ w = queryThread

-----------------------------------------------------------------------------
(* What the server has got of a run: nothing at all, or nothing it can act  *)
(* on yet.                                                                  *)
Untouched(r) == executed[r] = 0 /\ r \notin orphans /\ link.run # r
Clean(r) == executed[r] = 0 /\ r \notin orphans
            /\ ~(link.run = r /\ link.srv # "idle")

LinkShape ==
    /\ link.st \in {"null", "start", "wait"} => link.run = 0 /\ ~link.wire
    /\ link.run = 0 => link.srv = "idle"
    /\ link.srv # "idle" => link.st = "ok"
    /\ link.srv = "todo" => link.up

Stages ==
    /\ stage = "flush" => link.st = "ok" /\ link.run = queryTmp /\ queryTmp # 0
    /\ link.st = "ok" /\ link.wire => stage = "flush"
    /\ stage = "connecting" => link.st \in {"start", "wait"}

NoRunYet ==
    queryTmp = 0 =>
       /\ queryState = "Inactive" /\ stage = "none"
       /\ link.run = 0 /\ link.txn = "idle"
       /\ pc[GUI] = "fetch" => isNotification

OnceOnly ==
    \A r \in Runs : executed[r] \in {0, 1} /\ (r \in orphans => executed[r] = 0)

(* The query on the link is still to be executed, or may yet be received.   *)
ToBeExecuted(l) ==
    l.srv = "todo" \/ (l.st = "ok" /\ l.up /\ l.wire /\ l.srv = "idle")
Undelivered ==
    ToBeExecuted(link) /\ link.run # 0 => executed[link.run] = 0 /\ link.run \notin orphans

NotStarted == \A r \in Runs : pc[r] \in {"none", "start"} => Untouched(r) /\ queryTmp # r

Resending == queryState = "Reconnecting" => Untouched(queryTmp)

(* As long as _query_flushed is FALSE the query may be sent again: the      *)
(* server has nothing of it, unless readyReadSocket() has just pushed the   *)
(* last of it and readyWriteSocket() is about to set the flag.              *)
Pushing == pc[GUI] \in {"flushed", "write"} /\ stage = "flush" /\ ~link.wire
Flushed ==
    /\ queryTmp \in Params => queryFlushed
    /\ ~queryFlushed /\ queryTmp # 0 => Clean(queryTmp) \/ Pushing

IInv ==
    /\ TypeOK
    /\ WorkersAlone /\ WorkerPlaces /\ GuiPlaces
    /\ WatchQueued /\ FinishedQueued /\ Signals
    /\ LinkShape /\ Stages /\ NoRunYet
    /\ OnceOnly /\ Undelivered /\ NotStarted /\ Resending /\ Flushed

-----------------------------------------------------------------------------
(* While the gui thread is in a handler, or a notifier could call one, no   *)
(* worker drives its run and none has a notifier still to be enabled.       *)
GuiActs == NoWatchQueued /\ \A w \in Runs : ~Starting(w)

LEMMA GuiActing ==
  ASSUME IInv, watched # {} \/ pc[GUI] \notin {"idle", "cancelled"}
  PROVE  GuiActs
BY DEF IInv, GuiActs, WorkersAlone, Alone, WatchQueued, HandedToGui

(* Emission adds one signal at most, to workers that have begun.            *)
LEMMA Emission ==
  ASSUME TypeOK, NEW t \in Thread, NEW s \in Signal, pc[t] # "none",
         workerQueue' = Emitted(workerQueue, t, s)
  PROVE  /\ \A w \in Runs : pc[w] = "none" => workerQueue'[w] = workerQueue[w]
         /\ \A w \in Runs : \A i \in DOMAIN workerQueue'[w] :
               workerQueue'[w][i] = s \/ (i \in DOMAIN workerQueue[w]
                                          /\ workerQueue'[w][i] = workerQueue[w][i])
<1>1. workerQueue \in [Runs -> Seq(Signal)]
  BY DEF TypeOK
<1> SUFFICES ASSUME NEW w \in Runs
             PROVE  /\ pc[w] = "none" => workerQueue'[w] = workerQueue[w]
                    /\ \A i \in DOMAIN workerQueue'[w] :
                          workerQueue'[w][i] = s \/ (i \in DOMAIN workerQueue[w]
                                                     /\ workerQueue'[w][i] = workerQueue[w][i])
  OBVIOUS
<1>2. CASE w \in Listening(t)
  <2>1. workerQueue'[w] = Append(workerQueue[w], s)
    BY <1>2 DEF Emitted
  <2>2. pc[w] # "none"
    BY <1>2 DEF Listening
  <2>3. workerQueue[w] \in Seq(Signal)
    BY <1>1
  <2> QED  BY <2>1, <2>2, <2>3
<1>3. CASE w \notin Listening(t)
  BY <1>1, <1>3 DEF Emitted
<1> QED  BY <1>2, <1>3

(* A step of the gui thread leaves the workers and their queues as the      *)
(* invariant wants them.                                                    *)
LEMMA GuiStep ==
  ASSUME IInv, GuiActs, NEW label, Goto(GUI, label) \/ UNCHANGED pc,
         guiQueue' = guiQueue, nrun' = nrun,
         UNCHANGED workerQueue \/ Emit(GUI, "Inactive"),
         pc[GUI] # "lostwait"
  PROVE  WorkersAlone' /\ WorkerPlaces' /\ WatchQueued' /\ FinishedQueued' /\ Signals'
<1>1. \A w \in Runs : pc'[w] = pc[w]
  BY Places DEF Goto, IInv, TypeOK
<1>2. \A w \in Runs : ~Starting(w)' /\ ~Starting(w)
  BY <1>1 DEF GuiActs, Starting
<1>3. WorkersAlone'
  BY <1>2 DEF WorkersAlone
<1>4. NoWatchQueued /\ NoWatchQueued'
  BY DEF GuiActs, NoWatchQueued, Watches
<1>5. WatchQueued'
  BY <1>4 DEF WatchQueued, NoWatchQueued
<1>6. FinishedQueued'
  <2>1. \A i \in DOMAIN guiQueue : guiQueue[i].call = "finished" => guiQueue[i].run \in Runs
    BY DEF IInv, TypeOK, GuiCall
  <2> QED  BY <1>1, <2>1 DEF FinishedQueued, IInv
<1>7. /\ \A w \in Runs : pc[w] = "none" => workerQueue'[w] = workerQueue[w]
      /\ \A w \in Runs : \A i \in DOMAIN workerQueue'[w] :
            workerQueue'[w][i] = "Inactive" \/ (i \in DOMAIN workerQueue[w]
                                                /\ workerQueue'[w][i] = workerQueue[w][i])
  <2>1. CASE UNCHANGED workerQueue
    BY <2>1
  <2>2. CASE Emit(GUI, "Inactive")
    <3>1. pc[GUI] # "none" /\ TypeOK /\ "Inactive" \in Signal
      BY DEF IInv, TypeOK, GuiAt, DriveAt, Signal
    <3> QED  BY <2>2, <3>1, Places, Emission DEF Emit
  <2> QED  BY <2>1, <2>2
<1>8. WorkerPlaces'
  BY <1>1, <1>2, <1>7 DEF WorkerPlaces, IInv, Starting
<1>9. Signals'
  BY <1>7 DEF Signals, IInv
<1> QED  BY <1>3, <1>5, <1>6, <1>8, <1>9

LEMMA FinishedGone ==
  ASSUME IInv, NEW w \in Runs, Starting(w)
  PROVE  \A i \in DOMAIN guiQueue : guiQueue[i].call = "finished" =>
            guiQueue[i].run \in Runs \ {w} /\ pc[guiQueue[i].run] = "gone"
BY DEF FinishedQueued, IInv, TypeOK, GuiCall, Starting

(* A worker that drives its run may queue calls that disable the notifiers, *)
(* and leaves the others as they are.                                       *)
LEMMA WorkerDrives ==
  ASSUME IInv, TypeOK', NEW w \in Runs, Starting(w), NEW label,
         label \in {"open", "poll", "dropped", "check"}, Goto(w, label),
         UNCHANGED guiQueue \/ guiQueue' = Append(guiQueue, WatchCall({})),
         UNCHANGED <<queryThread, watched, nrun>>,
         UNCHANGED workerQueue \/ (Emit(w, "Inactive") /\ label = "check"),
         label \in {"open", "dropped"} => link'.st = "null",
         label = "poll" => link'.st = "start" /\ stage' = "connecting",
         label # "check" => queryState' # "Inactive"
  PROVE  WorkersAlone' /\ WorkerPlaces' /\ WatchQueued' /\ FinishedQueued' /\ Signals'
<1>1. /\ queryThread = w /\ workerQueue[w] = <<>> /\ watched = {} /\ pc[GUI] = "idle"
      /\ NoWatchQueued
  BY DEF IInv, WorkersAlone, Alone
<1>2. pc'[w] = label /\ pc'[GUI] = pc[GUI] /\ \A u \in Runs \ {w} : pc'[u] = pc[u] /\ ~Starting(u)
  BY <1>1, Places DEF Goto, IInv, TypeOK, WorkersAlone
<1>3. \A i \in DOMAIN guiQueue' : guiQueue'[i] = WatchCall({})
                                  \/ (i \in DOMAIN guiQueue /\ guiQueue'[i] = guiQueue[i])
  <2>1. guiQueue \in Seq(GuiCall)
    BY DEF IInv, TypeOK
  <2>2. CASE guiQueue' = guiQueue
    BY <2>2
  <2>3. CASE guiQueue' = Append(guiQueue, WatchCall({}))
    BY <2>1, <2>3
  <2> QED  BY <2>2, <2>3
<1>4. NoWatchQueued'
  BY <1>1, <1>3 DEF NoWatchQueued, Watches, WatchCall
<1>5. /\ \A u \in Runs : pc[u] = "none" => workerQueue'[u] = workerQueue[u]
      /\ \A u \in Runs : \A i \in DOMAIN workerQueue'[u] :
            workerQueue'[u][i] = "Inactive" \/ (i \in DOMAIN workerQueue[u]
                                                /\ workerQueue'[u][i] = workerQueue[u][i])
  <2>1. CASE UNCHANGED workerQueue
    BY <2>1
  <2>2. CASE Emit(w, "Inactive")
    <3>1. pc[w] # "none" /\ TypeOK /\ "Inactive" \in Signal
      BY DEF IInv, Starting, Signal
    <3> QED  BY <2>2, <3>1, Places, Emission DEF Emit
  <2> QED  BY <2>1, <2>2
<1>6. WorkersAlone'
  BY <1>1, <1>2, <1>4 DEF WorkersAlone, Alone, Starting
<1>7. WatchQueued'
  BY <1>4 DEF WatchQueued, NoWatchQueued
<1>8. FinishedQueued'
  <2>1. \A i \in DOMAIN guiQueue : guiQueue[i].call = "finished" =>
           guiQueue[i].run \in Runs \ {w} /\ pc[guiQueue[i].run] = "gone"
    BY FinishedGone
  <2>2. WatchCall({}).call = "watch"
    BY DEF WatchCall
  <2> QED  BY <1>2, <1>3, <2>1, <2>2 DEF FinishedQueued
<1>9. WorkerPlaces'
  BY <1>2, <1>5 DEF WorkerPlaces, IInv, Starting
<1>10. Signals'
  BY <1>1, <1>2, <1>5 DEF Signals, IInv
<1> QED  BY <1>6, <1>7, <1>8, <1>9, <1>10

(* A worker that hands its run to the gui thread queues the call that       *)
(* enables the notifiers, with the run in progress.                         *)
LEMMA WorkerHandsOver ==
  ASSUME IInv, TypeOK', NEW w \in Runs, Starting(w), Goto(w, "check"),
         NEW mode, mode # {}, guiQueue' = Append(guiQueue, WatchCall(mode)),
         UNCHANGED <<queryThread, watched, nrun, workerQueue>>,
         queryState' # "Inactive"
  PROVE  WorkersAlone' /\ WorkerPlaces' /\ WatchQueued' /\ FinishedQueued' /\ Signals'
<1>1. /\ queryThread = w /\ workerQueue[w] = <<>> /\ watched = {} /\ pc[GUI] = "idle"
      /\ NoWatchQueued
  BY DEF IInv, WorkersAlone, Alone
<1>2. pc'[w] = "check" /\ pc'[GUI] = pc[GUI] /\ \A u \in Runs \ {w} : pc'[u] = pc[u] /\ ~Starting(u)
  BY <1>1, Places DEF Goto, IInv, TypeOK, WorkersAlone
<1>3. \A i \in DOMAIN guiQueue' :
         /\ i \in DOMAIN guiQueue => guiQueue'[i] = guiQueue[i]
         /\ i \notin DOMAIN guiQueue => guiQueue'[i] = WatchCall(mode) /\ i = Len(guiQueue) + 1
  BY DEF IInv, TypeOK
<1>4. \A i \in DOMAIN guiQueue' : Watches(guiQueue'[i]) => i = Len(guiQueue) + 1
  BY <1>1, <1>3 DEF NoWatchQueued
<1>5. HandedToGui'
  BY <1>1, <1>2, Places DEF HandedToGui, Runs
<1>6. WatchQueued'
  BY <1>4, <1>5 DEF WatchQueued
<1>7. \A u \in Runs : ~Starting(u)'
  BY <1>2 DEF Starting
<1>8. WorkersAlone'
  BY <1>7 DEF WorkersAlone
<1>9. FinishedQueued'
  <2>1. \A i \in DOMAIN guiQueue : guiQueue[i].call = "finished" =>
           guiQueue[i].run \in Runs \ {w} /\ pc[guiQueue[i].run] = "gone"
    BY FinishedGone
  <2>2. WatchCall(mode).call = "watch"
    BY DEF WatchCall
  <2> QED  BY <1>2, <1>3, <2>1, <2>2 DEF FinishedQueued
<1>10. WorkerPlaces'
  BY <1>2, <1>7 DEF WorkerPlaces, IInv, Starting
<1>11. Signals'
  BY <1>2 DEF Signals, IInv
<1> QED  BY <1>6, <1>8, <1>9, <1>10, <1>11

(* linkLostMidQuery() sends a query again only if nothing of it can be      *)
(* executed on the session it leaves behind.                                *)
LEMMA LinkLostDelivery ==
  ASSUME IInv, TypeOK', NEW t \in Thread, NEW l \in Link, NEW flushed, NEW resent, NEW live, NEW r,
         LinkLostMidQuery(t, l, flushed, resent, live, r),
         executed' = executed,
         l.run = 0 => l.srv = "idle",
         l.st \in {"null", "start", "wait"} => l.run = 0 /\ ~l.wire,
         l.srv = "todo" /\ l.run # 0 => executed[l.run] = 0,
         ~flushed => executed[queryTmp'] = 0 /\ queryTmp' \notin orphans
                     /\ ~(l.run = queryTmp' /\ l.srv = "todo"),
         queryTmp' # 0
  PROVE  /\ LinkShape' /\ Stages' /\ NoRunYet' /\ OnceOnly' /\ Undelivered' /\ Resending'
         /\ ~flushed => Clean(queryTmp)'
         /\ orphans' \subseteq orphans \cup {l.run} /\ link'.run \in {0, l.run}
<1>1. /\ l.st \in {"null", "start", "wait", "ok", "bad"} /\ l.run \in 0..MaxRun
      /\ l.srv \in {"idle", "todo", "ran", "read"} /\ l.wire \in BOOLEAN
  BY LinkFields
<1>2. orphans' = orphans \cup Orphaned(l) /\ stage' = "none"
  BY DEF LinkLostMidQuery, CloseLocked
<1>3. /\ link' = NoLink \/ link' = Broken(l)
      /\ queryState' = "Reconnecting" => link' = NoLink /\ ~flushed
  BY DEF LinkLostMidQuery, CloseLocked, SetState, Conclude, Resendable
<1>4. /\ NoLink.st = "null" /\ NoLink.run = 0 /\ NoLink.srv = "idle" /\ ~NoLink.wire
  BY DEF NoLink, Handle
<1>5. /\ Broken(l).st \in {"null", "bad"} /\ Broken(l).srv = "idle" /\ Broken(l).run = l.run
      /\ Broken(l).st = "null" => Broken(l) = l
  BY <1>1 DEF Broken, Link
<1>6. /\ link'.st \in {"null", "bad"} /\ link'.srv = "idle" /\ link'.run \in {0, l.run}
      /\ link'.st = "null" => link'.run = 0 /\ ~link'.wire
  BY <1>1, <1>3, <1>4, <1>5
<1>7. Orphaned(l) = IF l.srv = "todo" THEN {l.run} ELSE {}
  BY DEF Orphaned
<1>8. LinkShape' /\ Stages' /\ NoRunYet' /\ Undelivered'
  BY <1>2, <1>6 DEF LinkShape, Stages, NoRunYet, Undelivered, ToBeExecuted
<1>9. OnceOnly'
  BY <1>2, <1>7 DEF OnceOnly, IInv, Runs
<1>10. ~flushed => executed'[queryTmp'] = 0 /\ queryTmp' \notin orphans'
  BY <1>2, <1>7
<1>11. Resending' /\ (~flushed => Clean(queryTmp)')
  BY <1>3, <1>4, <1>6, <1>10 DEF Resending, Untouched, Clean
<1> QED  BY <1>2, <1>6, <1>7, <1>8, <1>9, <1>11

(* What pushing the output buffer does to the handle.                       *)
LEMMA PartialFields ==
  ASSUME NEW l \in Link, NEW k \in Partial(l)
  PROVE  /\ k.st = l.st /\ k.run = l.run /\ k.txn = l.txn /\ k.up = l.up /\ k.wire = TRUE
         /\ k.srv = l.srv \/ (l.srv = "idle" /\ l.up /\ l.run \in Params /\ k.srv = "todo")
<1>1. \/ k = [l EXCEPT !.wire = TRUE]
      \/ k = [l EXCEPT !.wire = TRUE, !.srv = "todo"] /\ l.up /\ l.run \in Params /\ l.srv = "idle"
  BY DEF Partial
<1> QED  BY <1>1 DEF Link

LEMMA PushedFields ==
  ASSUME NEW l \in Link, NEW k \in Pushed(l)
  PROVE  /\ k.st = l.st /\ k.run = l.run /\ k.txn = l.txn /\ k.up = l.up
         /\ ~l.wire => k = l
         /\ k.srv = l.srv \/ (l.srv = "idle" /\ l.up /\ k.srv = "todo"
                              /\ (~k.wire \/ l.run \in Params))
<1>1. CASE ~l.wire
  BY <1>1 DEF Pushed
<1>2. CASE k \in Partial(l) /\ l.wire
  BY <1>2, PartialFields
<1>3. CASE k = Whole(l) /\ l.wire
  BY <1>3 DEF Whole, Link
<1> QED  BY <1>1, <1>2, <1>3 DEF Pushed, Link


(* A run that has ended is inactive, and the workers are told so once.     *)
LEMMA EndRunEnds ==
  ASSUME NEW t, NEW v, EndRun(t, v)
  PROVE  queryState' = "Inactive" /\ (UNCHANGED workerQueue \/ Emit(t, "Inactive"))
BY DEF EndRun, Conclude

-----------------------------------------------------------------------------
(* The notifiers and the handlers of the gui thread.  First those that only *)
(* go on to another part of the handler.                                    *)
LEMMA GuiMoves ==
  ASSUME IInv, TypeOK', GuiActs, pc[GUI] # "lostwait", NEW label, Goto(GUI, label),
         UNCHANGED <<queryState, stage, queryFlushed, queryTmp, link, orphans, executed, nrun,
                     guiQueue, workerQueue>>,
         label \in {"idle", "poll", "flushread", "flushed", "enter", "fetch", "write"},
         label = "poll" => stage = "connecting",
         label \in {"flushread", "flushed"} => stage = "flush",
         label \in {"enter", "fetch"} => stage # "flush",
         label = "fetch" /\ queryTmp = 0 => isNotification',
         pc[GUI] \in {"flushed", "write"} /\ stage = "flush" => label = "write"
  PROVE  IInv'
<1>1. pc'[GUI] = label /\ \A w \in Runs : pc'[w] = pc[w]
  BY Places DEF Goto, IInv, TypeOK
<1>2. WorkersAlone' /\ WorkerPlaces' /\ WatchQueued' /\ FinishedQueued' /\ Signals'
  BY GuiStep
<1>3. LinkShape' /\ Stages' /\ OnceOnly' /\ Undelivered' /\ Resending'
  BY DEF LinkShape, Stages, OnceOnly, Undelivered, ToBeExecuted, Resending, Untouched, IInv
<1>4. NotStarted'
  BY <1>1 DEF NotStarted, Untouched, IInv
<1>5. GuiPlaces'
  <2>1. stage = "connecting" => queryTmp # 0
    BY DEF IInv, NoRunYet
  <2> QED  BY <1>1, <2>1 DEF GuiPlaces
<1>6. NoRunYet'
  BY <1>1 DEF NoRunYet, IInv
<1>7. Flushed'
  BY <1>1 DEF Flushed, Clean, Pushing, IInv
<1> QED  BY <1>2, <1>3, <1>4, <1>5, <1>6, <1>7 DEF IInv

LEMMA NotifierKeeps ==
  ASSUME IInv, TypeOK', ReadyReadSocket \/ ReadyWriteSocket
  PROVE  IInv'
<1>1. GuiActs /\ pc[GUI] = "idle"
  BY GuiActing DEF ReadyReadSocket, ReadyWriteSocket, Idle
<1>2. PICK label : /\ HandlerBegins(label) /\ label \in {"poll", "flushread", "enter", "write"}
                   /\ label = "poll" => stage = "connecting"
                   /\ label = "flushread" => stage = "flush"
                   /\ label = "enter" => stage # "flush"
  BY DEF ReadyReadSocket, ReadyWriteSocket
<1> QED  BY <1>1, <1>2, GuiMoves DEF HandlerBegins, members, bounds, server

LEMMA FlushReadDoneKeeps ==
  ASSUME IInv, TypeOK', FlushReadDone
  PROVE  IInv'
<1>1. GuiActs /\ pc[GUI] = "flushed" /\ stage = "flush"
  BY GuiActing DEF FlushReadDone, IInv, GuiPlaces
<1>2. HandlerBegins("write")
  BY <1>1 DEF FlushReadDone, IInv, Stages
<1> QED  BY <1>1, <1>2, GuiMoves DEF HandlerBegins, members, bounds, server

LEMMA FetchBeginsKeeps ==
  ASSUME IInv, TypeOK', FetchBegins
  PROVE  IInv'
<1>1. GuiActs /\ pc[GUI] = "enter" /\ stage # "flush" /\ Goto(GUI, "fetch")
  BY GuiActing DEF FetchBegins, IInv, GuiPlaces
<1>2. UNCHANGED <<queryState, stage, queryFlushed, queryTmp, link, orphans, executed, nrun,
                  guiQueue, workerQueue>>
  BY DEF FetchBegins, members, bounds, server
<1>3. queryTmp = 0 => isNotification'
  BY DEF FetchBegins, IsIdle, TransactionStatus, IInv, NoRunYet
<1> QED  BY <1>1, <1>2, <1>3, GuiMoves

LEMMA WriteNothingKeeps ==
  ASSUME IInv, TypeOK', WriteNothing
  PROVE  IInv'
<1>1. GuiActs /\ pc[GUI] = "write" /\ stage # "flush" /\ Goto(GUI, "idle")
  BY GuiActing DEF WriteNothing, Write
<1>2. UNCHANGED <<queryState, stage, queryFlushed, queryTmp, link, orphans, executed, nrun,
                  guiQueue, workerQueue>>
  BY DEF WriteNothing, Write, WatchSocket, bounds
<1> QED  BY <1>1, <1>2, GuiMoves

LEMMA FetchNothingKeeps ==
  ASSUME IInv, TypeOK', Undisturbed, FetchNothing
  PROVE  IInv'
<1>1. GuiActs /\ pc[GUI] = "fetch" /\ Goto(GUI, "idle")
  BY GuiActing DEF FetchNothing, Fetch
<1>2. link' = link
  <2>1. link \in Link /\ link' \in Pushed(link) /\ ~ReadFails(link) /\ pc[GUI] = "fetch"
    BY DEF FetchNothing, Fetch, IInv, TypeOK
  <2>2. ~link.wire
    BY <2>1, LinkFields DEF ReadFails, IInv, LinkShape, Stages, GuiPlaces
  <2> QED  BY <2>1, <2>2, PushedFields
<1>3. UNCHANGED <<queryState, stage, queryFlushed, queryTmp, link, orphans, executed, nrun,
                  guiQueue, workerQueue>>
  BY <1>2 DEF FetchNothing, Fetch, bounds
<1> QED  BY <1>1, <1>3, GuiMoves

(* The rest of the query leaves the output buffer.                          *)
LEMMA WriteWholeKeeps ==
  ASSUME IInv, TypeOK', WriteWhole
  PROVE  IInv'
<1>1. /\ GuiActs /\ pc[GUI] = "write" /\ Goto(GUI, "idle") /\ link \in Link
      /\ link.st = "ok" /\ link.run = queryTmp /\ queryTmp # 0
  BY GuiActing DEF WriteWhole, Write, IInv, Stages, TypeOK
<1>2. /\ link'.st = link.st /\ link'.run = link.run /\ link'.up = link.up /\ ~link'.wire
      /\ link'.srv = link.srv \/ (link.wire /\ link.up /\ link.srv = "idle" /\ link'.srv = "todo")
  BY <1>1 DEF WriteWhole, Whole, Link
<1>3. /\ UNCHANGED <<queryState, queryTmp, orphans, executed, nrun, guiQueue, workerQueue>>
      /\ queryFlushed' = TRUE /\ stage' = "wait_ready_read"
  BY DEF WriteWhole, Write, WatchSocket, bounds
<1>4. pc'[GUI] = "idle" /\ \A w \in Runs : pc'[w] = pc[w]
  BY <1>1, Places DEF Goto, IInv, TypeOK
<1>5. WorkersAlone' /\ WorkerPlaces' /\ WatchQueued' /\ FinishedQueued' /\ Signals'
  BY <1>1, <1>3, GuiStep
<1>6. GuiPlaces' /\ NoRunYet' /\ Stages' /\ Flushed'
  BY <1>1, <1>2, <1>3, <1>4 DEF GuiPlaces, NoRunYet, Stages, Flushed
<1>7. LinkShape' /\ OnceOnly'
  BY <1>1, <1>2, <1>3 DEF LinkShape, OnceOnly, IInv
<1>8. Undelivered'
  BY <1>1, <1>2, <1>3 DEF Undelivered, ToBeExecuted, IInv
<1>9. NotStarted' /\ Resending'
  BY <1>2, <1>3, <1>4 DEF NotStarted, Resending, Untouched, IInv
<1> QED  BY <1>5, <1>6, <1>7, <1>8, <1>9 DEF IInv

(* A part of it does: as it has not left whole, only a query with           *)
(* parameters may reach the server, and its flag is set already.            *)
LEMMA WritePartKeeps ==
  ASSUME IInv, TypeOK', WritePart
  PROVE  IInv'
<1>1. /\ GuiActs /\ pc[GUI] = "write" /\ stage = "flush" /\ Goto(GUI, "idle") /\ link \in Link
      /\ link.st = "ok" /\ link.up /\ link.wire /\ link.run = queryTmp /\ queryTmp # 0
  BY GuiActing DEF WritePart, Write, IInv, Stages, TypeOK
<1>2. /\ link'.st = link.st /\ link'.run = link.run /\ link'.up = link.up /\ link'.wire = TRUE
      /\ link'.srv = link.srv \/ (link.srv = "idle" /\ link.run \in Params /\ link'.srv = "todo")
  BY <1>1, PartialFields DEF WritePart
<1>3. UNCHANGED <<queryState, stage, queryFlushed, queryTmp, orphans, executed, nrun, guiQueue,
                  workerQueue>>
  BY DEF WritePart, Write, bounds
<1>4. pc'[GUI] = "idle" /\ \A w \in Runs : pc'[w] = pc[w]
  BY <1>1, Places DEF Goto, IInv, TypeOK
<1>5. WorkersAlone' /\ WorkerPlaces' /\ WatchQueued' /\ FinishedQueued' /\ Signals'
  BY <1>1, <1>3, GuiStep
<1>6. GuiPlaces' /\ NoRunYet' /\ Stages'
  BY <1>1, <1>2, <1>3, <1>4 DEF GuiPlaces, NoRunYet, Stages
<1>7. LinkShape' /\ OnceOnly'
  BY <1>1, <1>2, <1>3 DEF LinkShape, OnceOnly, IInv
<1>8. Undelivered'
  BY <1>1, <1>2, <1>3 DEF Undelivered, ToBeExecuted, IInv
<1>9. NotStarted' /\ Resending'
  BY <1>2, <1>3, <1>4 DEF NotStarted, Resending, Untouched, IInv
<1>10. Flushed'
  BY <1>1, <1>2, <1>3 DEF Flushed, Clean, Pushing, IInv
<1> QED  BY <1>5, <1>6, <1>7, <1>8, <1>9, <1>10 DEF IInv

LEMMA FetchResultKeeps ==
  ASSUME IInv, TypeOK', FetchResult
  PROVE  IInv'
<1>1. GuiActs /\ pc[GUI] = "fetch" /\ link \in Link /\ link.srv = "ran" /\ ~link.wire
  BY GuiActing DEF FetchResult, Fetch, Answer, IInv, TypeOK
<1>2. /\ link'.st = link.st /\ link'.run = link.run /\ link'.txn = link.txn
      /\ ~link'.wire /\ link'.srv = "read"
  BY <1>1 DEF FetchResult, Link
<1>3. UNCHANGED <<queryState, stage, queryFlushed, queryTmp, orphans, executed, nrun, guiQueue,
                  workerQueue, pc, isNotification>>
  BY DEF FetchResult, Fetch, bounds
<1>4. WorkersAlone' /\ WorkerPlaces' /\ WatchQueued' /\ FinishedQueued' /\ Signals'
  BY <1>1, <1>3, GuiStep
<1>5. GuiPlaces' /\ NoRunYet' /\ OnceOnly'
  BY <1>2, <1>3 DEF GuiPlaces, NoRunYet, OnceOnly, IInv
<1>6. LinkShape' /\ Stages' /\ Undelivered'
  BY <1>1, <1>2, <1>3 DEF LinkShape, Stages, Undelivered, ToBeExecuted, IInv
<1>7. NotStarted' /\ Resending'
  BY <1>2, <1>3 DEF NotStarted, Resending, Untouched, IInv
<1>8. Flushed'
  BY <1>1, <1>2, <1>3 DEF Flushed, Clean, Pushing, IInv
<1> QED  BY <1>4, <1>5, <1>6, <1>7, <1>8 DEF IInv

LEMMA FetchEndKeeps ==
  ASSUME IInv, TypeOK', FetchEnd
  PROVE  IInv'
<1>1. /\ GuiActs /\ pc[GUI] = "fetch" /\ stage # "flush" /\ Goto(GUI, "answered") /\ link \in Link
      /\ ~isNotification
  BY GuiActing DEF FetchEnd, Fetch, IInv, GuiPlaces, TypeOK
<1>2. /\ link'.st = link.st /\ link'.run = 0 /\ link'.wire = link.wire /\ link'.srv = "idle"
  BY <1>1 DEF FetchEnd, Link
<1>3. UNCHANGED <<queryState, stage, queryFlushed, queryTmp, orphans, executed, nrun, guiQueue,
                  workerQueue>>
  BY DEF FetchEnd, Fetch, bounds
<1>4. pc'[GUI] = "answered" /\ \A w \in Runs : pc'[w] = pc[w]
  BY <1>1, Places DEF Goto, IInv, TypeOK
<1>5. WorkersAlone' /\ WorkerPlaces' /\ WatchQueued' /\ FinishedQueued' /\ Signals'
  BY <1>1, <1>3, GuiStep
<1>6. queryTmp # 0
  BY <1>1 DEF IInv, NoRunYet
<1>7. GuiPlaces' /\ NoRunYet' /\ OnceOnly'
  BY <1>1, <1>3, <1>4, <1>6 DEF GuiPlaces, NoRunYet, OnceOnly, IInv
<1>8. LinkShape' /\ Stages' /\ Undelivered'
  BY <1>1, <1>2, <1>3 DEF LinkShape, Stages, Undelivered, ToBeExecuted, IInv
<1>9. NotStarted' /\ Resending'
  BY <1>2, <1>3, <1>4, <1>6, Places DEF NotStarted, Resending, Untouched, IInv, Runs
<1>10. Flushed'
  BY <1>1, <1>2, <1>3 DEF Flushed, Clean, Pushing, IInv
<1> QED  BY <1>5, <1>7, <1>8, <1>9, <1>10 DEF IInv

LEMMA FetchFinishedKeeps ==
  ASSUME IInv, TypeOK', FetchFinished
  PROVE  IInv'
<1>1. GuiActs /\ pc[GUI] = "answered" /\ stage # "flush" /\ Goto(GUI, "idle")
  BY GuiActing DEF FetchFinished, IInv, GuiPlaces
<1>2. /\ UNCHANGED <<queryFlushed, queryTmp, link, orphans, executed, nrun, guiQueue>>
      /\ stage' = "none" /\ queryState' = "Inactive" /\ (UNCHANGED workerQueue \/ Emit(GUI, "Inactive"))
  BY EndRunEnds DEF FetchFinished, bounds, server
<1>3. pc'[GUI] = "idle" /\ \A w \in Runs : pc'[w] = pc[w]
  BY <1>1, Places DEF Goto, IInv, TypeOK
<1>4. WorkersAlone' /\ WorkerPlaces' /\ WatchQueued' /\ FinishedQueued' /\ Signals'
  BY <1>1, <1>2, GuiStep
<1>5. GuiPlaces' /\ NoRunYet' /\ Resending'
  BY <1>2, <1>3 DEF GuiPlaces, NoRunYet, Resending, IInv
<1>6. LinkShape' /\ Stages' /\ OnceOnly' /\ Undelivered'
  BY <1>1, <1>2 DEF LinkShape, Stages, OnceOnly, Undelivered, ToBeExecuted, IInv
<1>7. NotStarted'
  BY <1>2, <1>3 DEF NotStarted, Untouched, IInv
<1>8. Flushed'
  BY <1>1, <1>2 DEF Flushed, Clean, Pushing, IInv
<1> QED  BY <1>4, <1>5, <1>6, <1>7, <1>8 DEF IInv

LEMMA FetchIdleLinkLostKeeps ==
  ASSUME IInv, TypeOK', FetchIdleLinkLost
  PROVE  IInv'
<1>1. GuiActs /\ pc[GUI] = "fetch" /\ stage # "flush" /\ Goto(GUI, "lost") /\ link \in Link
  BY GuiActing DEF FetchIdleLinkLost, Fetch, IInv, GuiPlaces, TypeOK
<1>2. /\ UNCHANGED <<queryFlushed, queryTmp, orphans, executed, nrun, guiQueue>>
      /\ stage' = "none" /\ queryState' = "Inactive" /\ (UNCHANGED workerQueue \/ Emit(GUI, "Inactive"))
  BY EndRunEnds DEF FetchIdleLinkLost, Fetch, WatchSocket, bounds
<1>3. /\ link'.st \in {"null", "bad"} /\ link'.srv = "idle" /\ link'.run = link.run
      /\ link'.txn = link.txn
      /\ link'.st = "null" => link' = link
  <2>1. link.st = "null" => link.srv = "idle"
    BY DEF IInv, LinkShape
  <2> QED  BY <1>1, <2>1 DEF FetchIdleLinkLost, Broken, Link
<1>4. pc'[GUI] = "lost" /\ \A w \in Runs : pc'[w] = pc[w]
  BY <1>1, Places DEF Goto, IInv, TypeOK
<1>5. WorkersAlone' /\ WorkerPlaces' /\ WatchQueued' /\ FinishedQueued' /\ Signals'
  BY <1>1, <1>2, GuiStep
<1>6. GuiPlaces' /\ NoRunYet' /\ Resending'
  BY <1>2, <1>3, <1>4 DEF GuiPlaces, NoRunYet, Resending, IInv
<1>7. LinkShape' /\ Stages' /\ OnceOnly' /\ Undelivered'
  BY <1>2, <1>3 DEF LinkShape, Stages, OnceOnly, Undelivered, ToBeExecuted, IInv
<1>8. NotStarted'
  BY <1>2, <1>3, <1>4 DEF NotStarted, Untouched, IInv
<1>9. Flushed'
  BY <1>1, <1>2, <1>3 DEF Flushed, Clean, Pushing, IInv
<1> QED  BY <1>5, <1>6, <1>7, <1>8, <1>9 DEF IInv

LEMMA LinkLostInGui ==
  ASSUME IInv, TypeOK', GuiActs, pc[GUI] \in {"flushread", "write", "fetch"},
         pc[GUI] = "write" => link.wire, queryTmp # 0,
         LinkLostMidQuery(GUI, link, queryFlushed, resentOnce, queryState # "Inactive", queryTmp),
         UNCHANGED <<queryFlushed, queryTmp, nrun, executed>>
  PROVE  IInv'
<1>1. link \in Link
  BY DEF IInv, TypeOK
<1>2. Goto(GUI, "idle") \/ (Goto(GUI, "open") /\ link' = NoLink /\ queryState' = "Reconnecting")
  BY DEF LinkLostMidQuery, After, CloseLocked, SetState
<1>3. UNCHANGED workerQueue \/ Emit(GUI, "Inactive")
  BY DEF LinkLostMidQuery, SetState, Conclude
<1>4. guiQueue' = guiQueue
  BY DEF LinkLostMidQuery, CloseLocked, WatchSocket
<1>5. WorkersAlone' /\ WorkerPlaces' /\ WatchQueued' /\ FinishedQueued' /\ Signals'
  BY <1>2, <1>3, <1>4, GuiStep
<1>6. ~queryFlushed => Clean(queryTmp)
  BY DEF IInv, Flushed, Pushing
<1>7. /\ link.run = 0 => link.srv = "idle"
      /\ link.st \in {"null", "start", "wait"} => link.run = 0 /\ ~link.wire
      /\ link.srv = "todo" /\ link.run # 0 => executed[link.run] = 0
  BY DEF IInv, LinkShape, Undelivered, ToBeExecuted
<1>8. ~queryFlushed => executed[queryTmp'] = 0 /\ queryTmp' \notin orphans
                       /\ ~(link.run = queryTmp' /\ link.srv = "todo")
  BY <1>6 DEF Clean
<1>9. /\ LinkShape' /\ Stages' /\ NoRunYet' /\ OnceOnly' /\ Undelivered' /\ Resending'
      /\ ~queryFlushed => Clean(queryTmp)'
      /\ orphans' \subseteq orphans \cup {link.run} /\ link'.run \in {0, link.run}
  BY <1>1, <1>7, <1>8, Places, LinkLostDelivery
<1>10. GuiPlaces'
  <2>1. stage' = "none" /\ NoLink.st = "null"
    BY DEF LinkLostMidQuery, NoLink, Handle
  <2>2. pc'[GUI] = "idle" \/ (pc'[GUI] = "open" /\ link'.st = "null")
    BY <1>2, <2>1, Places DEF Goto, IInv, TypeOK
  <2> QED  BY <2>1, <2>2 DEF GuiPlaces
<1>11. NotStarted'
  <2>1. \A w \in Runs : pc'[w] = pc[w] /\ w # 0
    BY <1>2, Places DEF Goto, IInv, TypeOK, GUI
  <2> QED  BY <1>9, <2>1 DEF NotStarted, Untouched, IInv
<1>12. Flushed'
  BY <1>9 DEF Flushed, IInv
<1> QED  BY <1>5, <1>9, <1>10, <1>11, <1>12 DEF IInv

LEMMA WriteFailedKeeps ==
  ASSUME IInv, TypeOK', WriteFailed
  PROVE  IInv'
<1>1. GuiActs /\ pc[GUI] = "write" /\ stage = "flush"
  BY GuiActing DEF WriteFailed, Write
<1>2. link.wire /\ queryTmp # 0
  BY <1>1 DEF IInv, Stages, WriteFailed
<1> QED  BY <1>1, <1>2, LinkLostInGui DEF WriteFailed, Write, bounds, history

LEMMA FetchLinkLostKeeps ==
  ASSUME IInv, TypeOK', FetchLinkLost
  PROVE  IInv'
<1>1. GuiActs /\ pc[GUI] = "fetch" /\ ~isNotification
  BY GuiActing DEF FetchLinkLost, Fetch
<1>2. queryTmp # 0
  BY <1>1 DEF IInv, NoRunYet
<1> QED  BY <1>1, <1>2, LinkLostInGui DEF FetchLinkLost, Fetch, bounds, history

LEMMA FlushReadKeeps ==
  ASSUME IInv, TypeOK', Undisturbed, FlushRead
  PROVE  IInv'
<1>1. GuiActs /\ pc[GUI] = "flushread" /\ stage = "flush"
  BY GuiActing DEF FlushRead, IInv, GuiPlaces
<1>2. queryTmp # 0 /\ link.st = "ok" /\ link.run = queryTmp /\ link \in Link
  BY <1>1 DEF IInv, Stages, TypeOK
<1>3. /\ UNCHANGED <<queryTmp, queryThread, isNotification, nrun, executed>>
  BY DEF FlushRead, bounds
<1>4. CASE /\ LinkLostMidQuery(GUI, link, queryFlushed, resentOnce, queryState # "Inactive", queryTmp)
           /\ UNCHANGED queryFlushed
  BY <1>1, <1>2, <1>3, <1>4, LinkLostInGui
<1>5. CASE /\ link' \in Pushed(link) /\ Goto(GUI, "flushed")
           /\ UNCHANGED <<queryState, stage, opened, queryFlushed, resentOnce, watched, guiQueue,
                          workerQueue, verdict, orphans>>
  <2>1. /\ link'.st = link.st /\ link'.run = link.run /\ link'.txn = link.txn /\ link'.up = link.up
        /\ ~link.wire => link' = link
        /\ link'.srv = link.srv \/ (link.srv = "idle" /\ link.up /\ link'.srv = "todo"
                                    /\ (~link'.wire \/ link.run \in Params))
    BY <1>2, <1>5, PushedFields
  <2>2. pc'[GUI] = "flushed" /\ \A w \in Runs : pc'[w] = pc[w]
    BY <1>5, Places DEF Goto, IInv, TypeOK
  <2>3. WorkersAlone' /\ WorkerPlaces' /\ WatchQueued' /\ FinishedQueued' /\ Signals'
    BY <1>1, <1>3, <1>5, GuiStep
  <2>4. OnceOnly'
    BY <1>3, <1>5 DEF OnceOnly, IInv
  <2>5. GuiPlaces' /\ NoRunYet' /\ Stages'
    BY <1>1, <1>2, <1>3, <1>5, <2>1, <2>2 DEF GuiPlaces, NoRunYet, Stages
  <2>6. LinkShape'
    BY <1>1, <1>2, <2>1 DEF LinkShape, IInv
  <2>7. link.wire => link.srv # "idle" \/ ~link.up \/ ToBeExecuted(link)
    BY <1>2 DEF ToBeExecuted
  <2>8. Undelivered'
    BY <1>2, <1>3, <1>5, <2>1, <2>7 DEF Undelivered, ToBeExecuted, IInv
  <2>9. NotStarted' /\ Resending'
    BY <1>2, <1>3, <1>5, <2>1, <2>2 DEF NotStarted, Resending, Untouched, IInv
  <2>10. Flushed'
    <3>1. CASE queryFlushed
      BY <1>5, <3>1 DEF Flushed
    <3>2. CASE ~queryFlushed
      <4>1. Clean(queryTmp) /\ queryTmp \notin Params
        BY <1>1, <1>2, <3>2 DEF IInv, Flushed, Pushing
      <4> QED  BY <1>1, <1>2, <1>3, <1>5, <2>1, <2>2, <4>1 DEF Flushed, Clean, Pushing
    <3> QED  BY <3>1, <3>2
  <2> QED  BY <2>3, <2>4, <2>5, <2>6, <2>8, <2>9, <2>10 DEF IInv
<1> QED  BY <1>4, <1>5 DEF FlushRead, Undisturbed

-----------------------------------------------------------------------------
(* The actions that restore the link and hand the query to libpq, in the    *)
(* gui thread and in a worker.                                              *)
LEMMA Moves ==
  ASSUME TypeOK, NEW t \in Thread, NEW label, Goto(t, label)
  PROVE  pc'[t] = label /\ \A u \in Thread \ {t} : pc'[u] = pc[u]
BY DEF Goto, TypeOK

Drives(t) == (t = GUI => GuiActs /\ pc[GUI] # "lostwait") /\ (t # GUI => Starting(t))

LEMMA Driving1 ==
  ASSUME IInv, NEW t \in Thread, pc[t] \in {"start", "open", "poll", "resend", "dropped"}
  PROVE  /\ Drives(t) /\ pc[t] # "none"
         /\ t # GUI => t \in Runs /\ pc[GUI] = "idle" /\ pc[t] # "resend"
         /\ t = GUI => pc[GUI] \in {"open", "poll", "resend", "dropped"}
<1>1. CASE t = GUI
  <2>1. pc[GUI] \in {"open", "poll", "resend", "dropped"}
    BY <1>1 DEF IInv, TypeOK, GuiAt, DriveAt, GuiPlaces
  <2> QED  BY <1>1, <2>1, GuiActing DEF Drives
<1>2. CASE t # GUI
  <2>1. t \in Runs /\ pc[t] # "resend"
    BY <1>2, Places DEF IInv, WorkerPlaces
  <2>2. Starting(t)
    BY <2>1 DEF Starting
  <2> QED  BY <1>2, <2>1, <2>2 DEF Drives, IInv, WorkersAlone, Alone
<1> QED  BY <1>1, <1>2

LEMMA Driven ==
  ASSUME IInv, TypeOK', NEW t \in Thread, Drives(t), t # GUI => t \in Runs, NEW label, Goto(t, label),
         label \in {"open", "poll", "dropped"} \/ label = After(t) \/ (t = GUI /\ label = "resend"),
         UNCHANGED <<queryThread, nrun>>,
         (\E l : WatchSocket(t, {}, l)) \/ UNCHANGED <<watched, guiQueue>>,
         UNCHANGED workerQueue \/ (Emit(t, "Inactive") /\ label = After(t)),
         label \in {"open", "dropped"} => link'.st = "null",
         label = "poll" => link'.st = "start" /\ stage' = "connecting",
         t # GUI /\ label \in {"open", "poll", "dropped"} => queryState' # "Inactive"
  PROVE  WorkersAlone' /\ WorkerPlaces' /\ WatchQueued' /\ FinishedQueued' /\ Signals'
<1>1. CASE t = GUI
  <2>1. guiQueue' = guiQueue
    BY <1>1 DEF WatchSocket
  <2> QED  BY <1>1, <2>1, GuiStep DEF Drives
<1>2. CASE t # GUI
  <2>1. UNCHANGED guiQueue \/ guiQueue' = Append(guiQueue, WatchCall({}))
    BY <1>2 DEF WatchSocket
  <2>2. UNCHANGED watched
    BY <1>2 DEF WatchSocket
  <2>3. After(t) = "check"
    BY <1>2 DEF After
  <2> QED  BY <1>2, <2>1, <2>2, <2>3, WorkerDrives DEF Drives
<1> QED  BY <1>1, <1>2

(* run_query gets a query of which the server has nothing.                  *)
LEMMA RunQueryText ==
  ASSUME IInv, NEW t \in Thread, RunQueryBegins(t)
  PROVE  /\ Drives(t) /\ (t # GUI => t \in Runs /\ pc[t] = "start" /\ pc[GUI] = "idle" /\ TextOf(t) = t)
         /\ t = GUI => pc[GUI] = "resend" /\ TextOf(t) = queryTmp
         /\ TextOf(t) \in Runs /\ Untouched(TextOf(t)) /\ queryTmp' = TextOf(t)
         /\ \A r \in Runs : r # t /\ pc[r] \in {"none", "start"} => TextOf(t) # r
         /\ UNCHANGED <<queryThread, nrun, executed, isNotification>>
<1>1. pc[t] \in {"start", "resend"} /\ queryTmp' = TextOf(t)
  BY DEF RunQueryBegins, RunQuery
<1>2. UNCHANGED <<queryThread, nrun, executed, isNotification>>
  BY DEF RunQueryBegins, bounds
<1>3. CASE t = GUI
  <2>1. pc[GUI] = "resend" /\ TextOf(t) = queryTmp /\ Drives(t)
    BY <1>1, <1>3, Driving1 DEF TextOf, Fresh
  <2>2. queryTmp \in Runs /\ Untouched(queryTmp)
    BY <2>1 DEF IInv, GuiPlaces, Resending, TypeOK, Runs
  <2> QED  BY <1>1, <1>2, <1>3, <2>1, <2>2 DEF IInv, NotStarted
<1>4. CASE t # GUI
  <2>1. t \in Runs /\ pc[t] = "start" /\ TextOf(t) = t /\ Drives(t) /\ pc[GUI] = "idle"
    BY <1>1, <1>4, Driving1 DEF TextOf, Fresh
  <2>2. Untouched(t)
    BY <2>1 DEF IInv, NotStarted
  <2> QED  BY <1>1, <1>2, <1>4, <2>1, <2>2
<1> QED  BY <1>3, <1>4

LEMMA RunQueryNoLinkKeeps ==
  ASSUME IInv, TypeOK', NEW t \in Thread, RunQueryNoLink(t)
  PROVE  IInv'
<1>1. RunQueryBegins(t)
  BY DEF RunQueryNoLink
<1>2. /\ Drives(t) /\ (t # GUI => t \in Runs /\ pc[GUI] = "idle")
      /\ TextOf(t) \in Runs /\ Untouched(TextOf(t)) /\ queryTmp' = TextOf(t)
      /\ \A r \in Runs : r # t /\ pc[r] \in {"none", "start"} => TextOf(t) # r
      /\ UNCHANGED <<queryThread, nrun, executed>>
  BY <1>1, RunQueryText
<1>3. /\ link'.st = "null" /\ link'.run = 0 /\ ~link'.wire /\ link'.srv = "idle"
      /\ orphans' = orphans \/ orphans' = orphans \cup Orphaned(link)
      /\ (\E l : WatchSocket(t, {}, l)) \/ UNCHANGED <<watched, guiQueue>>
  <2>1. CASE link.st # "null"
    <3>1. CloseLocked(t, link)
      BY <2>1 DEF RunQueryNoLink
    <3> QED  BY <3>1 DEF CloseLocked, NoLink, Handle
  <2>2. CASE link.st = "null"
    <3>1. UNCHANGED <<link, orphans, watched, guiQueue>>
      BY <2>2 DEF RunQueryNoLink
    <3> QED  BY <2>2, <3>1 DEF IInv, LinkShape
  <2> QED  BY <2>1, <2>2
<1>4. PICK label \in {"open", "dropped"} :
         /\ Goto(t, label) /\ UNCHANGED workerQueue
         /\ queryState' \in {"Running", "Reconnecting"} /\ stage' = "none"
         /\ queryFlushed' = (TextOf(t) \in Params)
  BY DEF RunQueryNoLink, SetState
<1>5. WorkersAlone' /\ WorkerPlaces' /\ WatchQueued' /\ FinishedQueued' /\ Signals'
  BY <1>2, <1>3, <1>4, Driven
<1>6. pc'[t] = label /\ \A u \in Thread \ {t} : pc'[u] = pc[u]
  BY <1>4, Moves DEF IInv
<1>7. \A r \in orphans' \ orphans : r = link.run /\ (r # 0 => executed[r] = 0)
  BY <1>3 DEF Orphaned, IInv, Undelivered, ToBeExecuted
<1>8. GuiPlaces' /\ NoRunYet'
  BY <1>2, <1>3, <1>4, <1>6, Places DEF GuiPlaces, NoRunYet, IInv, Runs
<1>9. LinkShape' /\ Stages' /\ Undelivered'
  BY <1>3, <1>4 DEF LinkShape, Stages, Undelivered, ToBeExecuted
<1>10. OnceOnly'
  BY <1>2, <1>7 DEF OnceOnly, IInv, Runs
<1>11. Untouched(queryTmp)'
  BY <1>2, <1>3, <1>7 DEF Untouched, Runs
<1>12. NotStarted'
  <2>1. SUFFICES ASSUME NEW r \in Runs, pc'[r] \in {"none", "start"}
                 PROVE  Untouched(r)' /\ queryTmp' # r
    BY DEF NotStarted
  <2>2. r # t /\ pc[r] = pc'[r]
    BY <1>4, <1>6, <2>1, Places
  <2>3. Untouched(r)
    BY <2>1, <2>2 DEF IInv, NotStarted
  <2> QED  BY <1>2, <1>3, <1>7, <2>1, <2>2, <2>3 DEF Untouched, Runs
<1>13. Resending' /\ Flushed'
  BY <1>2, <1>4, <1>11 DEF Resending, Flushed, Clean, Untouched
<1> QED  BY <1>5, <1>8, <1>9, <1>10, <1>12, <1>13 DEF IInv

LEMMA NotStartedStep ==
  ASSUME IInv, NEW t \in Thread, NEW label, label \notin {"none", "start"}, Goto(t, label),
         executed' = executed,
         \A r \in Runs : r # t /\ pc[r] \in {"none", "start"} =>
            r \notin orphans' /\ link'.run # r /\ queryTmp' # r
  PROVE  NotStarted'
<1>1. pc'[t] = label /\ \A u \in Thread \ {t} : pc'[u] = pc[u]
  BY Moves DEF IInv
<1> QED  BY <1>1, Places DEF NotStarted, Untouched, IInv

LEMMA RunQueryRefusedKeeps ==
  ASSUME IInv, TypeOK', NEW t \in Thread, RunQueryRefused(t)
  PROVE  IInv'
<1>1. RunQueryBegins(t)
  BY DEF RunQueryRefused
<1>2. /\ Drives(t) /\ (t # GUI => t \in Runs)
      /\ TextOf(t) \in Runs /\ Untouched(TextOf(t)) /\ queryTmp' = TextOf(t)
      /\ \A r \in Runs : r # t /\ pc[r] \in {"none", "start"} => TextOf(t) # r
      /\ UNCHANGED <<queryThread, nrun, executed>>
      /\ t # GUI => pc[t] = "start"
      /\ t = GUI => pc[GUI] = "resend"
  BY <1>1, RunQueryText
<1>3. /\ queryState' = "Inactive" /\ Emit(t, "Inactive") /\ stage' = "sending_query"
      /\ queryFlushed' = (TextOf(t) \in Params) /\ Goto(t, After(t))
      /\ UNCHANGED <<link, orphans, watched, guiQueue>>
  BY DEF RunQueryRefused, Conclude
<1>4. After(t) \in {"idle", "check"} /\ (t = GUI => After(t) = "idle")
  BY DEF After
<1>5. WorkersAlone' /\ WorkerPlaces' /\ WatchQueued' /\ FinishedQueued' /\ Signals'
  BY <1>2, <1>3, <1>4, Driven
<1>6. pc'[t] = After(t) /\ \A u \in Thread \ {t} : pc'[u] = pc[u]
  BY <1>3, Moves DEF IInv
<1>7. stage # "flush" /\ (t # GUI => pc[GUI] = "idle")
  BY <1>2, Driving1 DEF IInv, WorkerPlaces, GuiPlaces
<1>8. pc'[GUI] = "idle"
  BY <1>4, <1>6, <1>7, Places
<1>9. GuiPlaces' /\ NoRunYet' /\ Resending'
  BY <1>2, <1>3, <1>8 DEF GuiPlaces, NoRunYet, Resending, Runs
<1>10. LinkShape' /\ Undelivered' /\ OnceOnly'
  BY <1>2, <1>3 DEF LinkShape, Undelivered, OnceOnly, ToBeExecuted, IInv
<1>11. Stages'
  BY <1>3, <1>7 DEF Stages, IInv
<1>12. Flushed'
  BY <1>2, <1>3 DEF Flushed, Clean, Untouched
<1>13. NotStarted'
  BY <1>2, <1>3, <1>4, NotStartedStep DEF IInv, NotStarted, Untouched
<1> QED  BY <1>5, <1>9, <1>10, <1>11, <1>12, <1>13 DEF IInv

LEMMA RunQuerySentKeeps ==
  ASSUME IInv, TypeOK', NEW t \in Thread, RunQuerySent(t)
  PROVE  IInv'
<1>1. RunQueryBegins(t) /\ link.st = "ok" /\ link.run = 0 /\ link \in Link
  BY DEF RunQuerySent, IInv, TypeOK
<1>2. /\ Drives(t) /\ (t # GUI => t \in Runs)
      /\ TextOf(t) \in Runs /\ Untouched(TextOf(t)) /\ queryTmp' = TextOf(t)
      /\ \A r \in Runs : r # t /\ pc[r] \in {"none", "start"} => TextOf(t) # r
      /\ UNCHANGED <<queryThread, nrun, executed>>
      /\ t # GUI => pc[t] = "start"
      /\ t = GUI => pc[GUI] = "resend"
  BY <1>1, RunQueryText
<1>3. queryState' = "Running" /\ UNCHANGED <<workerQueue, orphans>> /\ Goto(t, After(t))
  BY DEF RunQuerySent, SetState
<1>4. After(t) \in {"idle", "check"} /\ (t = GUI => After(t) = "idle") /\ (t # GUI => After(t) = "check")
  BY DEF After
<1> DEFINE sent == HandedOver(t)
<1>5. /\ sent \in Link /\ sent.st = "ok" /\ sent.run = TextOf(t) /\ sent.wire /\ sent.srv = "idle"
      /\ sent.up = link.up /\ sent.txn = link.txn
  <2>1. link.srv = "idle"
    BY <1>1 DEF IInv, LinkShape
  <2>2. sent = [link EXCEPT !.run = TextOf(t), !.wire = TRUE]
    BY DEF HandedOver
  <2>3. TextOf(t) \in 0..MaxRun
    BY <1>2 DEF Runs
  <2>4. sent \in Link
    BY <1>1, <2>2, <2>3, LinkOperators
  <2> QED  BY <1>1, <2>1, <2>2, <2>4 DEF Link
<1>6. /\ link'.st = "ok" /\ link'.run = TextOf(t) /\ link'.srv \in {"idle", "todo"}
      /\ link'.srv = "todo" => link'.up
      /\ \/ ~link'.wire /\ stage' = "wait_ready_read" /\ queryFlushed'
         \/ /\ link'.wire /\ stage' = "flush" /\ (TextOf(t) \in Params => link'.srv \in {"idle", "todo"})
            /\ (queryFlushed' <=> TextOf(t) \in Params)
            /\ (TextOf(t) \notin Params => link'.srv = "idle")
  <2>1. CASE link' = Whole(sent) /\ stage' = "wait_ready_read" /\ queryFlushed' = TRUE
    BY <1>5, <2>1 DEF Whole, Link
  <2>2. CASE link' \in Partial(sent) /\ stage' = "flush" /\ queryFlushed' = (TextOf(t) \in Params)
    BY <1>5, <2>2, PartialFields
  <2> QED  BY <2>1, <2>2 DEF RunQuerySent
<1>7. WorkersAlone' /\ WorkerPlaces' /\ WatchQueued' /\ FinishedQueued' /\ Signals'
  <2>1. PICK mode : mode # {} /\ WatchSocket(t, mode, link)
    BY DEF RunQuerySent
  <2>2. CASE t = GUI
    <3>1. guiQueue' = guiQueue
      BY <2>1, <2>2 DEF WatchSocket
    <3> QED  BY <1>2, <1>3, <2>2, <3>1, GuiStep DEF Drives
  <2>3. CASE t # GUI
    <3>1. guiQueue' = Append(guiQueue, WatchCall(mode)) /\ UNCHANGED watched
      BY <2>1, <2>3 DEF WatchSocket
    <3> QED  BY <1>2, <1>3, <1>4, <2>1, <2>3, <3>1, WorkerHandsOver DEF Drives
  <2> QED  BY <2>2, <2>3
<1>8. pc'[t] = After(t) /\ \A u \in Thread \ {t} : pc'[u] = pc[u]
  BY <1>3, Moves DEF IInv
<1>9. pc'[GUI] = "idle"
  <2>1. t # GUI => pc[GUI] = "idle"
    BY <1>2, Driving1
  <2> QED  BY <1>4, <1>8, <2>1, Places
<1>10. GuiPlaces' /\ NoRunYet' /\ Resending'
  BY <1>2, <1>3, <1>9 DEF GuiPlaces, NoRunYet, Resending, Runs
<1>11. LinkShape' /\ Stages' /\ OnceOnly'
  BY <1>2, <1>3, <1>6 DEF LinkShape, Stages, OnceOnly, IInv, Runs
<1>12. Undelivered'
  BY <1>2, <1>3, <1>6 DEF Undelivered, Untouched
<1>13. NotStarted'
  BY <1>2, <1>3, <1>4, <1>6, NotStartedStep DEF IInv, NotStarted, Untouched
<1>14. Flushed'
  BY <1>2, <1>3, <1>6 DEF Flushed, Clean, Untouched
<1> QED  BY <1>7, <1>10, <1>11, <1>12, <1>13, <1>14 DEF IInv

LEMMA RunQueryWriteFailedKeeps ==
  ASSUME IInv, TypeOK', NEW t \in Thread, RunQueryWriteFailed(t)
  PROVE  IInv'
<1>1. RunQueryBegins(t) /\ link.st = "ok" /\ link.run = 0 /\ link \in Link
  BY DEF RunQueryWriteFailed, IInv, TypeOK
<1>2. /\ Drives(t) /\ (t # GUI => t \in Runs)
      /\ TextOf(t) \in Runs /\ Untouched(TextOf(t)) /\ queryTmp' = TextOf(t)
      /\ \A r \in Runs : r # t /\ pc[r] \in {"none", "start"} => TextOf(t) # r
      /\ UNCHANGED <<queryThread, nrun, executed>>
      /\ t # GUI => pc[GUI] = "idle"
  BY <1>1, RunQueryText
<1>3. PICK l \in {HandedOver(t), [HandedOver(t) EXCEPT !.srv = "todo"]} :
         /\ LinkLostMidQuery(t, l, TextOf(t) \in Params, Resent(t), TRUE, TextOf(t))
         /\ l = HandedOver(t) \/ TextOf(t) \in Params
  BY DEF RunQueryWriteFailed
<1>4. l \in Link /\ l.st = "ok" /\ l.run = TextOf(t) /\ (TextOf(t) \notin Params => l.srv = "idle")
  <2>1. link.srv = "idle"
    BY <1>1 DEF IInv, LinkShape
  <2>2. HandedOver(t) = [link EXCEPT !.run = TextOf(t), !.wire = TRUE]
    BY DEF HandedOver
  <2>3. TextOf(t) \in 0..MaxRun
    BY <1>2 DEF Runs
  <2>4. HandedOver(t) \in Link
    BY <1>1, <2>2, <2>3, LinkOperators
  <2>5. HandedOver(t).st = "ok" /\ HandedOver(t).run = TextOf(t) /\ HandedOver(t).srv = "idle"
    BY <1>1, <2>1, <2>2 DEF Link
  <2> QED  BY <1>3, <2>4, <2>5 DEF Link
<1>5. queryFlushed' = (TextOf(t) \in Params) /\ queryTmp' # 0
  BY <1>2 DEF RunQueryWriteFailed, Runs
<1>6. /\ LinkShape' /\ Stages' /\ NoRunYet' /\ OnceOnly' /\ Undelivered' /\ Resending'
      /\ TextOf(t) \notin Params => Clean(queryTmp)'
      /\ orphans' \subseteq orphans \cup {l.run} /\ link'.run \in {0, l.run}
  <2>1. ~(TextOf(t) \in Params) => executed[queryTmp'] = 0 /\ queryTmp' \notin orphans
                     /\ ~(l.run = queryTmp' /\ l.srv = "todo")
    BY <1>2, <1>4 DEF Untouched
  <2>2. l.run # 0 /\ executed[l.run] = 0
    BY <1>2, <1>4 DEF Untouched, Runs
  <2> QED  BY <1>2, <1>3, <1>4, <1>5, <2>1, <2>2, LinkLostDelivery
<1>7. PICK label \in {"open", After(t)} :
         /\ Goto(t, label) /\ stage' = "none"
         /\ label = "open" => queryState' = "Reconnecting" /\ UNCHANGED workerQueue /\ link'.st = "null"
         /\ label # "open" => Emit(t, "Inactive")
         /\ WatchSocket(t, {}, NoLink)
  <2>1. "open" # After(t) /\ NoLink.st = "null"
    BY DEF After, NoLink, Handle
  <2> QED  BY <1>3, <2>1 DEF LinkLostMidQuery, SetState, CloseLocked, Conclude
<1>8. After(t) \in {"idle", "check"} /\ (t = GUI => After(t) = "idle")
  BY DEF After
<1>9. WorkersAlone' /\ WorkerPlaces' /\ WatchQueued' /\ FinishedQueued' /\ Signals'
  BY <1>2, <1>7, <1>8, Driven
<1>10. pc'[t] = label /\ \A u \in Thread \ {t} : pc'[u] = pc[u]
  BY <1>7, Moves DEF IInv
<1>11. GuiPlaces'
  <2>1. pc'[GUI] \in {"idle", "open"} /\ (pc'[GUI] = "open" => link'.st = "null")
    BY <1>2, <1>7, <1>8, <1>10, Places
  <2> QED  BY <1>5, <1>7, <2>1 DEF GuiPlaces
<1>12. NotStarted'
  BY <1>2, <1>4, <1>6, <1>7, <1>8, NotStartedStep DEF IInv, NotStarted, Untouched, Runs
<1>13. Flushed'
  BY <1>2, <1>5, <1>6 DEF Flushed
<1> QED  BY <1>6, <1>9, <1>11, <1>12, <1>13 DEF IInv

LEMMA TransactionLostKeeps ==
  ASSUME IInv, TypeOK', NEW t \in Thread, TransactionLost(t)
  PROVE  IInv'
<1>1. /\ Drives(t) /\ (t # GUI => t \in Runs /\ pc[GUI] = "idle") /\ pc[t] = "dropped"
  BY Driving1 DEF TransactionLost
<1>2. queryState' = "Inactive" /\ (UNCHANGED workerQueue \/ Emit(t, "Inactive")) /\ Goto(t, After(t))
  BY EndRunEnds DEF TransactionLost
<1>3. UNCHANGED <<stage, queryFlushed, queryTmp, queryThread, link, watched, isNotification,
                  guiQueue, nrun, orphans, executed>>
  BY DEF TransactionLost, bounds, server
<1>4. After(t) \in {"idle", "check"} /\ (t = GUI => After(t) = "idle")
  BY DEF After
<1>5. WorkersAlone' /\ WorkerPlaces' /\ WatchQueued' /\ FinishedQueued' /\ Signals'
  BY <1>1, <1>2, <1>3, <1>4, Driven
<1>6. pc'[t] = After(t) /\ \A u \in Thread \ {t} : pc'[u] = pc[u]
  BY <1>2, Moves DEF IInv
<1>7. pc'[GUI] = "idle" /\ pc[GUI] \in {"idle", "dropped"}
  BY <1>1, <1>4, <1>6, Places
<1>8. GuiPlaces' /\ NoRunYet' /\ Resending' /\ Flushed'
  BY <1>2, <1>3, <1>7 DEF GuiPlaces, NoRunYet, Resending, Flushed, Pushing, Clean, IInv
<1>9. LinkShape' /\ Stages' /\ OnceOnly' /\ Undelivered'
  BY <1>3 DEF LinkShape, Stages, OnceOnly, Undelivered, ToBeExecuted, IInv
<1>10. NotStarted'
  BY <1>2, <1>3, <1>4, NotStartedStep DEF IInv, NotStarted, Untouched
<1> QED  BY <1>5, <1>8, <1>9, <1>10 DEF IInv

LEMMA OpenAsyncKeeps ==
  ASSUME IInv, TypeOK', NEW t \in Thread, OpenAsync(t)
  PROVE  IInv'
<1>1. /\ Drives(t) /\ (t # GUI => t \in Runs /\ pc[GUI] = "idle") /\ pc[t] = "open"
  BY Driving1 DEF OpenAsync
<1>2. /\ link.st = "null" /\ link.run = 0 /\ ~link.wire /\ link.srv = "idle"
      /\ t # GUI => queryState # "Inactive"
      /\ t = GUI => queryTmp # 0
      /\ link \in Link
  BY <1>1 DEF IInv, WorkerPlaces, GuiPlaces, LinkShape, TypeOK
<1>3. UNCHANGED <<queryFlushed, queryTmp, queryThread, isNotification, nrun, executed, watched, guiQueue>>
  BY <1>2 DEF OpenAsync, bounds
<1>4. orphans' = orphans
  BY <1>2 DEF OpenAsync, Orphaned
<1>5. After(t) \in {"idle", "check"} /\ (t = GUI => After(t) = "idle") /\ "poll" # After(t)
  BY DEF After
<1>6. /\ link'.run = 0 /\ ~link'.wire /\ link'.srv = "idle" /\ link'.txn \in {link.txn, "idle"}
      /\ \/ /\ link'.st = "start" /\ stage' = "connecting" /\ Goto(t, "poll")
            /\ UNCHANGED <<queryState, workerQueue>>
         \/ /\ link'.st = "null" /\ UNCHANGED stage /\ Goto(t, After(t))
            /\ \/ UNCHANGED <<queryState, workerQueue>>
               \/ queryState' = "Inactive" /\ (UNCHANGED workerQueue \/ Emit(t, "Inactive"))
  BY <1>2, EndRunEnds DEF OpenAsync, NoLink, NewLink, Handle
<1>7. WorkersAlone' /\ WorkerPlaces' /\ WatchQueued' /\ FinishedQueued' /\ Signals'
  BY <1>1, <1>2, <1>3, <1>5, <1>6, Driven
<1>8. PICK label \in {"poll", After(t)} : Goto(t, label) /\ (label = "poll" => stage' = "connecting")
  BY <1>5, <1>6
<1>9. pc'[t] = label /\ \A u \in Thread \ {t} : pc'[u] = pc[u]
  BY <1>8, Moves DEF IInv
<1>10. pc'[GUI] \in {"idle", "poll"} /\ (pc'[GUI] = "poll" => queryTmp # 0 /\ stage' = "connecting")
  BY <1>1, <1>2, <1>5, <1>8, <1>9, Places
<1>11. GuiPlaces'
  BY <1>3, <1>10 DEF GuiPlaces
<1>12. queryTmp = 0 => queryState = "Inactive" /\ t = GUI
  BY <1>1, <1>2 DEF IInv, NoRunYet
<1>13. LinkShape' /\ OnceOnly' /\ Undelivered'
  BY <1>3, <1>4, <1>6 DEF LinkShape, OnceOnly, Undelivered, IInv
<1>14. Stages' /\ NoRunYet'
  <2>1. stage # "flush" /\ stage # "connecting"
    BY <1>2 DEF IInv, Stages
  <2> QED  BY <1>2, <1>3, <1>6, <1>12, <2>1 DEF Stages, NoRunYet
<1>15. Resending' /\ Flushed'
  <2>1. Resending'
    BY <1>2, <1>3, <1>4, <1>6, <1>12 DEF Resending, Untouched, IInv
  <2>2. ~queryFlushed /\ queryTmp # 0 => Clean(queryTmp)
    BY <1>2 DEF IInv, Flushed, Pushing, Stages
  <2>3. Flushed'
    BY <1>3, <1>4, <1>6, <2>2 DEF Flushed, Clean, IInv
  <2> QED  BY <2>1, <2>3
<1>16. NotStarted'
  BY <1>3, <1>4, <1>5, <1>6, <1>8, NotStartedStep DEF IInv, NotStarted, Untouched, Runs
<1> QED  BY <1>7, <1>11, <1>13, <1>14, <1>15, <1>16 DEF IInv

LEMMA PollKeeps ==
  ASSUME IInv, TypeOK', NEW t \in Thread, PollAgain(t) \/ PollFailed(t) \/ PollOk(t)
  PROVE  IInv'
<1>1. /\ Drives(t) /\ (t # GUI => t \in Runs /\ pc[GUI] = "idle") /\ pc[t] = "poll"
  BY Driving1 DEF PollAgain, PollFailed, PollOk, Poll
<1>2. /\ stage = "connecting" /\ link.st \in {"start", "wait"} /\ link.run = 0 /\ ~link.wire
      /\ link.srv = "idle" /\ link \in Link
      /\ t # GUI => queryState # "Inactive" /\ link.st = "start"
  BY <1>1, Places DEF IInv, WorkerPlaces, GuiPlaces, LinkShape, Stages, TypeOK
<1>3. UNCHANGED <<queryFlushed, queryTmp, queryThread, isNotification, nrun, executed, orphans>>
  BY DEF PollAgain, PollFailed, PollOk, Poll, bounds, server
<1>4. After(t) \in {"idle", "check"} /\ (t = GUI => After(t) = "idle") /\ (t # GUI => After(t) = "check")
  BY DEF After
<1>5. queryTmp # 0
  BY <1>2 DEF IInv, NoRunYet
<1> DEFINE
      Handed(label) ==
        /\ link'.run = 0 /\ ~link'.wire /\ link'.srv = "idle" /\ Goto(t, label)
        /\ stage' = "connecting" => link'.st = "wait"
        /\ queryState' = "Reconnecting" => queryState = "Reconnecting"
        /\ label = "resend" => t = GUI /\ queryState' = "Reconnecting" /\ link'.st = "ok" /\ stage' = "none"
        /\ stage' # "flush"
        /\ WorkersAlone' /\ WorkerPlaces' /\ WatchQueued' /\ FinishedQueued' /\ Signals'
<1>6. \E label \in {"resend", After(t)} : Handed(label)
  <2>1. CASE PollAgain(t)
    <3>1. /\ link' = [link EXCEPT !.st = "wait"] /\ UNCHANGED <<queryState, workerQueue, stage>>
          /\ Goto(t, After(t))
      BY <2>1 DEF PollAgain
    <3>2. link'.run = 0 /\ ~link'.wire /\ link'.srv = "idle" /\ link'.st = "wait"
      BY <1>2, <3>1 DEF Link
    <3>3. PICK mode : mode # {} /\ WatchSocket(t, mode, link)
      BY <2>1 DEF PollAgain
    <3>4. CASE t = GUI
      <4>1. guiQueue' = guiQueue
        BY <3>3, <3>4 DEF WatchSocket
      <4>2. WorkersAlone' /\ WorkerPlaces' /\ WatchQueued' /\ FinishedQueued' /\ Signals'
        BY <1>1, <1>3, <3>1, <3>4, <4>1, GuiStep DEF Drives
      <4> QED  BY <1>2, <1>4, <3>1, <3>2, <4>2
    <3>5. CASE t # GUI
      <4>1. guiQueue' = Append(guiQueue, WatchCall(mode)) /\ UNCHANGED watched
        BY <3>3, <3>5 DEF WatchSocket
      <4>2. WorkersAlone' /\ WorkerPlaces' /\ WatchQueued' /\ FinishedQueued' /\ Signals'
        BY <1>1, <1>2, <1>3, <1>4, <3>1, <3>3, <3>5, <4>1, WorkerHandsOver DEF Drives
      <4> QED  BY <1>2, <1>4, <3>1, <3>2, <4>2
    <3> QED  BY <3>4, <3>5
  <2>2. CASE PollFailed(t)
    <3>1. /\ link' = Broken(link) /\ stage' = "none" /\ WatchSocket(t, {}, NoLink) /\ Goto(t, After(t))
          /\ queryState' = "Inactive" /\ (UNCHANGED workerQueue \/ Emit(t, "Inactive"))
      BY <2>2, EndRunEnds DEF PollFailed
    <3>2. link'.run = 0 /\ ~link'.wire /\ link'.srv = "idle"
      BY <1>2, <3>1 DEF Broken, Link
    <3>3. WorkersAlone' /\ WorkerPlaces' /\ WatchQueued' /\ FinishedQueued' /\ Signals'
      BY <1>1, <1>3, <1>4, <3>1, Driven
    <3> QED  BY <1>4, <3>1, <3>2, <3>3
  <2>3. CASE PollOk(t)
    <3>1. t = GUI
      BY <1>2, <2>3 DEF PollOk
    <3>2. /\ link' = [link EXCEPT !.st = "ok"] /\ stage' = "none" /\ UNCHANGED <<queryState, workerQueue>>
          /\ \/ Goto(t, "resend") /\ queryState = "Reconnecting" /\ UNCHANGED guiQueue
             \/ Goto(t, After(t)) /\ UNCHANGED guiQueue
      BY <2>3, <3>1 DEF PollOk, WatchSocket
    <3>3. link'.run = 0 /\ ~link'.wire /\ link'.srv = "idle" /\ link'.st = "ok"
      BY <1>2, <3>2 DEF Link
    <3>4. WorkersAlone' /\ WorkerPlaces' /\ WatchQueued' /\ FinishedQueued' /\ Signals'
      BY <1>1, <1>3, <3>1, <3>2, GuiStep DEF Drives
    <3> QED  BY <1>4, <3>1, <3>2, <3>3, <3>4
  <2> QED  BY <2>1, <2>2, <2>3
<1>7. PICK label \in {"resend", After(t)} : Handed(label)
  BY <1>6
<1>8. pc'[t] = label /\ \A u \in Thread \ {t} : pc'[u] = pc[u]
  BY <1>7, Moves DEF IInv
<1>9. pc'[GUI] \in {"idle", "resend"} /\ (pc'[GUI] = "resend" => label = "resend")
  BY <1>1, <1>4, <1>7, <1>8, Places
<1>10. GuiPlaces' /\ NoRunYet'
  BY <1>3, <1>5, <1>7, <1>9 DEF GuiPlaces, NoRunYet
<1>11. LinkShape' /\ OnceOnly' /\ Undelivered' /\ Stages'
  BY <1>3, <1>7 DEF LinkShape, OnceOnly, Undelivered, Stages, IInv
<1>12. Resending' /\ Flushed'
  BY <1>2, <1>3, <1>5, <1>7 DEF Resending, Untouched, Flushed, Clean, Pushing, IInv, Runs
<1>13. NotStarted'
  BY <1>3, <1>4, <1>7, NotStartedStep DEF IInv, NotStarted, Untouched, Runs
<1> QED  BY <1>7, <1>10, <1>11, <1>12, <1>13 DEF IInv

-----------------------------------------------------------------------------
(* The data of a step that only moves threads and queues.                   *)
LEMMA DataKept ==
  ASSUME IInv, UNCHANGED <<queryState, stage, queryFlushed, queryTmp, link, isNotification,
                           orphans, executed>>,
         pc'[GUI] = pc[GUI],
         \A r \in Runs : pc'[r] \in {"none", "start"} => pc[r] \in {"none", "start"}
  PROVE  /\ GuiPlaces' /\ LinkShape' /\ Stages' /\ NoRunYet' /\ OnceOnly' /\ Undelivered'
         /\ NotStarted' /\ Resending' /\ Flushed'
<1>1. GuiPlaces' /\ LinkShape' /\ Stages' /\ NoRunYet' /\ OnceOnly'
  BY DEF GuiPlaces, LinkShape, Stages, NoRunYet, OnceOnly, IInv
<1>2. Undelivered' /\ NotStarted' /\ Resending' /\ Flushed'
  BY DEF Undelivered, ToBeExecuted, NotStarted, Resending, Untouched, Flushed, Clean, Pushing, IInv
<1> QED  BY <1>1, <1>2

(* The link is closed while its query, if any, is not to be sent again.     *)
LEMMA LinkClosed ==
  ASSUME IInv, link' = NoLink, orphans' = orphans \cup Orphaned(link), stage = "none",
         UNCHANGED <<queryState, stage, queryFlushed, queryTmp, executed>>,
         pc'[GUI] \in {"idle", "lostwait"}, \A r \in Runs : pc'[r] = pc[r]
  PROVE  /\ GuiPlaces' /\ LinkShape' /\ Stages' /\ NoRunYet' /\ OnceOnly' /\ Undelivered'
         /\ NotStarted' /\ Resending' /\ Flushed'
<1>1. link'.st = "null" /\ link'.run = 0 /\ ~link'.wire /\ link'.srv = "idle" /\ link'.txn = "idle"
  BY DEF NoLink, Handle
<1>2. \A r \in orphans' \ orphans : r = link.run /\ link.srv = "todo" /\ link.run # 0 /\ executed[r] = 0
  BY DEF Orphaned, IInv, LinkShape, Undelivered, ToBeExecuted
<1>3. GuiPlaces' /\ LinkShape' /\ Stages' /\ NoRunYet' /\ Undelivered'
  BY <1>1 DEF GuiPlaces, LinkShape, Stages, NoRunYet, Undelivered, ToBeExecuted, IInv
<1>4. OnceOnly'
  BY <1>2 DEF OnceOnly, IInv
<1>5. NotStarted'
  BY <1>1, <1>2, Places DEF NotStarted, Untouched, IInv, Runs
<1>6. Resending'
  <2>1. queryState = "Reconnecting" => queryTmp # 0
    BY DEF IInv, NoRunYet
  <2> QED  BY <1>1, <1>2, <2>1 DEF Resending, Untouched, IInv
<1>7. Flushed'
  <2>1. ~queryFlushed /\ queryTmp # 0 => Clean(queryTmp)
    BY DEF IInv, Flushed, Pushing
  <2> QED  BY <1>1, <1>2, <2>1 DEF Flushed, Clean, IInv
<1> QED  BY <1>3, <1>4, <1>5, <1>6, <1>7

LEMMA RestSignals ==
  ASSUME TypeOK, NEW w \in Runs, workerQueue[w] # <<>>, workerQueue' = Rest(w)
  PROVE  \A u \in Runs :
            /\ \A i \in DOMAIN workerQueue'[u] :
                  \E j \in DOMAIN workerQueue[u] : workerQueue'[u][i] = workerQueue[u][j]
            /\ u # w => workerQueue'[u] = workerQueue[u]
<1>1. workerQueue \in [Runs -> Seq(Signal)]
  BY DEF TypeOK
<1>2. workerQueue'[w] = Tail(workerQueue[w]) /\ \A u \in Runs \ {w} : workerQueue'[u] = workerQueue[u]
  BY <1>1 DEF Rest
<1>3. \A i \in DOMAIN workerQueue'[w] : i + 1 \in DOMAIN workerQueue[w]
                                       /\ workerQueue'[w][i] = workerQueue[w][i + 1]
  BY <1>1, <1>2
<1>4. ASSUME NEW u \in Runs, NEW i \in DOMAIN workerQueue'[u]
      PROVE  \E j \in DOMAIN workerQueue[u] : workerQueue'[u][i] = workerQueue[u][j]
  <2>1. CASE u = w
    BY <1>3, <2>1
  <2>2. CASE u # w
    BY <1>2, <2>2
  <2> QED  BY <2>1, <2>2
<1> QED  BY <1>2, <1>4

(* A worker that does not drive its run any more.                           *)
LEMMA WorkerStep ==
  ASSUME IInv, TypeOK', NEW w \in Runs, pc[w] \in {"check", "loop", "quit"}, NEW label,
         label \in {"loop", "quit", "gone"}, Goto(w, label) \/ UNCHANGED pc,
         UNCHANGED <<queryThread, watched, nrun, queryState>>,
         UNCHANGED <<link, stage>> \/ \A u \in Runs : ~Starting(u),
         \/ UNCHANGED guiQueue
         \/ guiQueue' = Append(guiQueue, WatchCall({}))
         \/ guiQueue' = Append(guiQueue, FinishedCall(w)) /\ Goto(w, "gone"),
         \A u \in Runs : /\ \A i \in DOMAIN workerQueue'[u] :
                               \E j \in DOMAIN workerQueue[u] : workerQueue'[u][i] = workerQueue[u][j]
                         /\ u # w => workerQueue'[u] = workerQueue[u],
         w # queryThread \/ NoWatchQueued
            \/ ((Goto(w, "loop") \/ UNCHANGED pc) /\ UNCHANGED workerQueue)
  PROVE  WorkersAlone' /\ WorkerPlaces' /\ WatchQueued' /\ FinishedQueued' /\ Signals'
<1>1. /\ pc'[GUI] = pc[GUI] /\ \A u \in Runs \ {w} : pc'[u] = pc[u]
      /\ pc'[w] \in {pc[w], label} /\ (Goto(w, label) => pc'[w] = label)
  BY Places DEF Goto, IInv, TypeOK
<1>2. ~Starting(w) /\ ~Starting(w)' /\ pc'[w] # "none" /\ pc[w] # "none" /\ pc'[w] # "resend"
      /\ \A u \in Runs : Starting(u)' => Starting(u) /\ u # w
  BY <1>1 DEF Starting
<1>3. guiQueue \in Seq(GuiCall)
  BY DEF IInv, TypeOK
<1>4. \A i \in DOMAIN guiQueue' :
         \/ i \in DOMAIN guiQueue /\ guiQueue'[i] = guiQueue[i]
         \/ guiQueue'[i] = WatchCall({})
         \/ guiQueue'[i] = FinishedCall(w) /\ pc'[w] = "gone"
  <2>1. CASE UNCHANGED guiQueue
    BY <2>1
  <2>2. CASE guiQueue' = Append(guiQueue, WatchCall({}))
    BY <1>3, <2>2
  <2>3. CASE guiQueue' = Append(guiQueue, FinishedCall(w)) /\ Goto(w, "gone")
    <3>1. pc'[w] = "gone"
      BY <2>3, Places DEF Goto, IInv, TypeOK
    <3> QED  BY <1>3, <2>3, <3>1
  <2> QED  BY <2>1, <2>2, <2>3
<1>5. /\ ~Watches(WatchCall({})) /\ ~Watches(FinishedCall(w))
      /\ WatchCall({}).call = "watch" /\ FinishedCall(w).run = w
  BY DEF Watches, WatchCall, FinishedCall
<1>6. \A i \in DOMAIN guiQueue' : Watches(guiQueue'[i]) => i \in DOMAIN guiQueue /\ Watches(guiQueue[i])
  BY <1>4, <1>5
<1>7. NoWatchQueued => NoWatchQueued'
  BY <1>6 DEF NoWatchQueued
<1>8. WorkersAlone'
  <2>1. SUFFICES ASSUME NEW u \in Runs, Starting(u)'
                 PROVE  queryThread' = u /\ workerQueue'[u] = <<>> /\ Alone'
    BY DEF WorkersAlone
  <2>2. queryThread = u /\ workerQueue[u] = <<>> /\ Alone /\ u # w
    BY <1>2, <2>1 DEF IInv, WorkersAlone
  <2> QED  BY <1>1, <1>7, <2>2 DEF Alone
<1>9. WorkerPlaces'
  <2>1. SUFFICES ASSUME NEW u \in Runs
                 PROVE /\ pc'[u] # "resend"
                       /\ pc'[u] = "none" <=> u > nrun'
                       /\ pc'[u] = "none" => workerQueue'[u] = <<>>
                       /\ pc'[u] = "start" => queryState' = "Inactive" /\ stage' # "flush"
                       /\ pc'[u] \in {"open", "poll", "dropped"} => queryState' # "Inactive"
                       /\ pc'[u] \in {"open", "dropped"} => link'.st = "null"
                       /\ pc'[u] = "poll" => link'.st = "start" /\ stage' = "connecting"
    BY DEF WorkerPlaces
  <2>2. CASE u = w
    <3>1. pc'[w] \in {"check", "loop", "quit", "gone"} /\ ~(w > nrun)
      BY <1>1, <1>2 DEF IInv, WorkerPlaces
    <3> QED  BY <2>2, <3>1
  <2>3. CASE u # w
    <3>1. pc'[u] = pc[u] /\ workerQueue'[u] = workerQueue[u]
      BY <1>1, <2>3
    <3>2. CASE UNCHANGED <<link, stage>>
      BY <3>1, <3>2 DEF IInv, WorkerPlaces
    <3>3. CASE \A v \in Runs : ~Starting(v)
      BY <3>1, <3>3 DEF IInv, WorkerPlaces, Starting
    <3> QED  BY <3>2, <3>3
  <2> QED  BY <2>2, <2>3
<1>10. WatchQueued'
  <2>1. CASE NoWatchQueued
    BY <1>7, <2>1 DEF WatchQueued, NoWatchQueued
  <2>2. CASE ~NoWatchQueued
    <3>1. HandedToGui
      BY <2>2 DEF IInv, WatchQueued
    <3>2. HandedToGui'
      <4>1. CASE w # queryThread
        <5>1. queryThread \in Runs
          BY <3>1 DEF HandedToGui, IInv, TypeOK, Runs
        <5> QED  BY <1>1, <3>1, <4>1, <5>1 DEF HandedToGui
      <4>2. CASE w = queryThread
        <5>1. UNCHANGED workerQueue /\ pc'[w] \in {"loop", pc[w]}
          BY <2>2, <4>2, Places DEF Goto, IInv, TypeOK
        <5> QED  BY <1>1, <3>1, <4>2, <5>1 DEF HandedToGui
      <4> QED  BY <4>1, <4>2
    <3> QED  BY <1>6, <3>2 DEF WatchQueued, IInv
  <2> QED  BY <2>1, <2>2
<1>11. FinishedQueued'
  <2>1. \A i \in DOMAIN guiQueue : guiQueue[i].call = "finished" =>
           guiQueue[i].run \in Runs \ {w} /\ pc[guiQueue[i].run] = "gone"
    <3> SUFFICES ASSUME NEW i \in DOMAIN guiQueue, guiQueue[i].call = "finished"
                 PROVE  guiQueue[i].run \in Runs \ {w} /\ pc[guiQueue[i].run] = "gone"
      OBVIOUS
    <3>1. guiQueue \in Seq(GuiCall)
      BY DEF IInv, TypeOK
    <3>2. guiQueue[i] \in GuiCall
      BY <3>1
    <3>3. guiQueue[i].run \in Runs
      BY <3>2 DEF GuiCall
    <3>4. pc[guiQueue[i].run] = "gone"
      BY DEF IInv, FinishedQueued
    <3> QED  BY <3>3, <3>4
  <2> QED  BY <1>1, <1>4, <1>5, <2>1 DEF FinishedQueued
<1>12. Signals'
  BY <1>1 DEF Signals, IInv
<1> QED  BY <1>8, <1>9, <1>10, <1>11, <1>12

LEMMA CheckExitKeeps ==
  ASSUME IInv, TypeOK', NEW w \in Runs, CheckExit(w)
  PROVE  IInv'
<1>1. UNCHANGED <<queryState, stage, queryFlushed, queryTmp, queryThread, link, watched, isNotification,
                  guiQueue, workerQueue, nrun, orphans, executed>>
  BY DEF CheckExit, members, bounds, server
<1>2. PICK label \in {"loop", "quit"} : pc[w] = "check" /\ Goto(w, label)
                                        /\ (label = "quit" => queryState = "Inactive")
  BY DEF CheckExit
<1>3. label = "quit" => NoWatchQueued
  BY <1>2 DEF IInv, WatchQueued, HandedToGui
<1>4. WorkersAlone' /\ WorkerPlaces' /\ WatchQueued' /\ FinishedQueued' /\ Signals'
  BY <1>1, <1>2, <1>3, WorkerStep
<1>5. /\ GuiPlaces' /\ LinkShape' /\ Stages' /\ NoRunYet' /\ OnceOnly' /\ Undelivered'
      /\ NotStarted' /\ Resending' /\ Flushed'
  <2>1. w \in Thread /\ GUI \in Thread /\ w # GUI
    BY Places
  <2>2. pc'[GUI] = pc[GUI] /\ \A r \in Runs : pc'[r] \in {pc[r], "loop", "quit"}
    BY <1>2, <2>1, Places DEF Goto, IInv, TypeOK
  <2> QED  BY <1>1, <2>2, DataKept
<1> QED  BY <1>4, <1>5 DEF IInv

LEMMA RunEndedKeeps ==
  ASSUME IInv, TypeOK', NEW w \in Runs, RunEnded(w)
  PROVE  IInv'
<1>1. UNCHANGED <<queryState, stage, queryFlushed, queryTmp, queryThread, link, isNotification,
                  nrun, orphans, executed>>
  BY DEF RunEnded, members, bounds, server
<1>2. pc[w] = "loop" /\ workerQueue[w] # <<>> /\ workerQueue' = Rest(w) /\ Goto(w, "quit")
  BY DEF RunEnded, NextSignal, Looping
<1>3. guiQueue' = Append(guiQueue, WatchCall({})) /\ UNCHANGED watched
  BY Places DEF RunEnded, WatchSocket
<1>4. w # queryThread \/ NoWatchQueued
  BY <1>2 DEF IInv, WatchQueued, HandedToGui
<1>5. WorkersAlone' /\ WorkerPlaces' /\ WatchQueued' /\ FinishedQueued' /\ Signals'
  <2>1. TypeOK
    BY DEF IInv
  <2>2. \A u \in Runs : /\ \A i \in DOMAIN workerQueue'[u] :
                               \E j \in DOMAIN workerQueue[u] : workerQueue'[u][i] = workerQueue[u][j]
                        /\ u # w => workerQueue'[u] = workerQueue[u]
    BY <1>2, <2>1, RestSignals
  <2> QED  BY <1>1, <1>2, <1>3, <1>4, <2>2, WorkerStep
<1>6. /\ GuiPlaces' /\ LinkShape' /\ Stages' /\ NoRunYet' /\ OnceOnly' /\ Undelivered'
      /\ NotStarted' /\ Resending' /\ Flushed'
  <2>1. pc'[GUI] = pc[GUI] /\ \A r \in Runs : pc'[r] \in {pc[r], "quit"}
    BY <1>2, Places DEF Goto, IInv, TypeOK
  <2> QED  BY <1>1, <2>1, DataKept
<1> QED  BY <1>5, <1>6 DEF IInv

(* close(), called for a lost idle link, reaches the worker of the last run *)
(* while the gui thread waits for it.                                       *)
LEMMA CloseCalledKeeps ==
  ASSUME IInv, TypeOK', NEW w \in Runs, CloseCalled(w)
  PROVE  IInv'
<1>1. /\ pc[w] = "loop" /\ workerQueue[w] # <<>> /\ Head(workerQueue[w]) = "close"
      /\ workerQueue' = Rest(w) /\ UNCHANGED pc
  BY DEF CloseCalled, NextSignal, Looping
<1>2. UNCHANGED <<queryState, stage, queryFlushed, queryTmp, queryThread, nrun, executed>>
  BY DEF CloseCalled, bounds
<1>3. pc[GUI] = "lostwait" /\ stage = "none"
  <2>1. workerQueue[w] \in Seq(Signal)
    BY DEF IInv, TypeOK
  <2>2. 1 \in DOMAIN workerQueue[w] /\ workerQueue[w][1] = "close"
    BY <1>1, <2>1
  <2> QED  BY <2>2 DEF IInv, Signals, GuiPlaces
<1>4. GuiActs
  BY <1>3, GuiActing
<1>5. /\ guiQueue' = Append(guiQueue, WatchCall({})) /\ UNCHANGED watched
      /\ link' = NoLink /\ orphans' = orphans \cup Orphaned(link)
  BY Places DEF CloseCalled, CloseLocked, WatchSocket
<1>6. WorkersAlone' /\ WorkerPlaces' /\ WatchQueued' /\ FinishedQueued' /\ Signals'
  <2>1. TypeOK
    BY DEF IInv
  <2>2. \A u \in Runs : /\ \A i \in DOMAIN workerQueue'[u] :
                               \E j \in DOMAIN workerQueue[u] : workerQueue'[u][i] = workerQueue[u][j]
                        /\ u # w => workerQueue'[u] = workerQueue[u]
    BY <1>1, <2>1, RestSignals
  <2> QED  BY <1>1, <1>2, <1>4, <1>5, <2>2, WorkerStep DEF GuiActs
<1>7. /\ GuiPlaces' /\ LinkShape' /\ Stages' /\ NoRunYet' /\ OnceOnly' /\ Undelivered'
      /\ NotStarted' /\ Resending' /\ Flushed'
  BY <1>1, <1>2, <1>3, <1>5, LinkClosed
<1> QED  BY <1>6, <1>7 DEF IInv

LEMMA WorkerFinishedKeeps ==
  ASSUME IInv, TypeOK', NEW w \in Runs, WorkerFinished(w)
  PROVE  IInv'
<1>1. UNCHANGED <<queryState, stage, queryFlushed, queryTmp, queryThread, link, watched, isNotification,
                  nrun, orphans, executed>>
  BY DEF WorkerFinished, members, bounds, server
<1>2. /\ pc[w] = "quit" /\ Goto(w, "gone") /\ guiQueue' = Append(guiQueue, FinishedCall(w))
      /\ workerQueue' = [workerQueue EXCEPT ![w] = <<>>]
  BY DEF WorkerFinished
<1>3. w # queryThread \/ NoWatchQueued
  BY <1>2 DEF IInv, WatchQueued, HandedToGui
<1>4. workerQueue'[w] = <<>> /\ \A u \in Runs \ {w} : workerQueue'[u] = workerQueue[u]
  BY <1>2 DEF IInv, TypeOK
<1>5. WorkersAlone' /\ WorkerPlaces' /\ WatchQueued' /\ FinishedQueued' /\ Signals'
  <2>1. \A u \in Runs : /\ \A i \in DOMAIN workerQueue'[u] :
                               \E j \in DOMAIN workerQueue[u] : workerQueue'[u][i] = workerQueue[u][j]
                        /\ u # w => workerQueue'[u] = workerQueue[u]
    BY <1>4
  <2> QED  BY <1>1, <1>2, <1>3, <2>1, WorkerStep
<1>6. /\ GuiPlaces' /\ LinkShape' /\ Stages' /\ NoRunYet' /\ OnceOnly' /\ Undelivered'
      /\ NotStarted' /\ Resending' /\ Flushed'
  <2>1. pc'[GUI] = pc[GUI] /\ \A r \in Runs : pc'[r] \in {pc[r], "gone"}
    BY <1>2, Places DEF Goto, IInv, TypeOK
  <2> QED  BY <1>1, <2>1, DataKept
<1> QED  BY <1>5, <1>6 DEF IInv

-----------------------------------------------------------------------------
(* The rest of the gui thread: the loss of an idle link, the user's         *)
(* requests, and the calls queued to the thread.                            *)
LEMMA IdleLinkCloseKeeps ==
  ASSUME IInv, TypeOK', IdleLinkClose
  PROVE  IInv'
<1>1. GuiActs /\ pc[GUI] = "lost" /\ stage = "none"
  BY GuiActing DEF IdleLinkClose, IInv, GuiPlaces
<1>2. UNCHANGED <<queryState, stage, queryFlushed, queryTmp, queryThread, isNotification, nrun, executed>>
  BY DEF IdleLinkClose, bounds
<1>3. CASE HasWorker
  <2>1. /\ workerQueue' = [workerQueue EXCEPT ![queryThread] = Append(@, "close")]
        /\ Goto(GUI, "lostwait") /\ UNCHANGED <<link, orphans, watched, guiQueue>>
    BY <1>3 DEF IdleLinkClose, Close
  <2>2. queryThread \in Runs /\ pc[queryThread] # "none"
    BY <1>3 DEF HasWorker, IInv, TypeOK, Runs
  <2>3. pc'[GUI] = "lostwait" /\ \A w \in Runs : pc'[w] = pc[w]
    BY <2>1, Places DEF Goto, IInv, TypeOK
  <2>4. \A w \in Runs : /\ w # queryThread => workerQueue'[w] = workerQueue[w]
                        /\ \A i \in DOMAIN workerQueue'[w] :
                              workerQueue'[w][i] = "close"
                              \/ (i \in DOMAIN workerQueue[w] /\ workerQueue'[w][i] = workerQueue[w][i])
    <3>1. workerQueue \in [Runs -> Seq(Signal)]
      BY DEF IInv, TypeOK
    <3>2. \A w \in Runs : w # queryThread => workerQueue'[w] = workerQueue[w]
      BY <2>1, <3>1
    <3>3. workerQueue'[queryThread] = Append(workerQueue[queryThread], "close")
      BY <2>1, <2>2, <3>1
    <3>4. workerQueue[queryThread] \in Seq(Signal)
      BY <2>2, <3>1
    <3>5. \A i \in DOMAIN workerQueue'[queryThread] :
             workerQueue'[queryThread][i] = "close"
             \/ (i \in DOMAIN workerQueue[queryThread]
                 /\ workerQueue'[queryThread][i] = workerQueue[queryThread][i])
      BY <3>3, <3>4
    <3> QED  BY <3>2, <3>5
  <2>5. \A w \in Runs : ~Starting(w) /\ ~Starting(w)'
    BY <1>1, <2>3 DEF GuiActs, Starting
  <2>6. WorkersAlone' /\ WatchQueued'
    BY <1>1, <2>1, <2>5 DEF WorkersAlone, WatchQueued, GuiActs, NoWatchQueued
  <2>7. WorkerPlaces'
    BY <1>2, <2>2, <2>3, <2>4, <2>5 DEF WorkerPlaces, Starting, IInv
  <2>8. FinishedQueued'
    <3>1. \A i \in DOMAIN guiQueue : guiQueue[i].call = "finished" => guiQueue[i].run \in Runs
      BY DEF IInv, TypeOK, GuiCall
    <3> QED  BY <2>1, <2>3, <3>1 DEF FinishedQueued, IInv
  <2>9. Signals'
    <3>1. \A w \in Runs : \A i \in DOMAIN workerQueue[w] :
             workerQueue[w][i] \notin {"closeConnectionWanted", "close"}
      BY <1>1 DEF Signals, IInv
    <3>2. \A w \in Runs : \A i \in DOMAIN workerQueue'[w] :
             workerQueue'[w][i] \notin {"closeConnectionWanted", "close"}
             \/ (w = queryThread /\ workerQueue'[w][i] = "close")
      BY <2>4, <3>1
    <3> QED  BY <1>2, <2>3, <3>2 DEF Signals
  <2>10. GuiPlaces' /\ LinkShape' /\ Stages' /\ NoRunYet' /\ OnceOnly'
    BY <1>1, <1>2, <2>1, <2>3 DEF GuiPlaces, LinkShape, Stages, NoRunYet, OnceOnly, IInv
  <2>11. Undelivered' /\ NotStarted' /\ Resending' /\ Flushed'
    BY <1>1, <1>2, <2>1, <2>3 DEF Undelivered, ToBeExecuted, NotStarted, Resending, Untouched,
       Flushed, Clean, Pushing, IInv
  <2> QED  BY <2>6, <2>7, <2>8, <2>9, <2>10, <2>11 DEF IInv
<1>4. CASE ~HasWorker
  <2>1. /\ link' = NoLink /\ orphans' = orphans \cup Orphaned(link) /\ Goto(GUI, "idle")
        /\ UNCHANGED <<guiQueue, workerQueue>>
    BY <1>4 DEF IdleLinkClose, Close, CloseLocked, WatchSocket
  <2>2. pc'[GUI] = "idle" /\ \A w \in Runs : pc'[w] = pc[w]
    BY <2>1, Places DEF Goto, IInv, TypeOK
  <2>3. WorkersAlone' /\ WorkerPlaces' /\ WatchQueued' /\ FinishedQueued' /\ Signals'
    BY <1>1, <1>2, <2>1, GuiStep
  <2>4. /\ GuiPlaces' /\ LinkShape' /\ Stages' /\ NoRunYet' /\ OnceOnly' /\ Undelivered'
        /\ NotStarted' /\ Resending' /\ Flushed'
    BY <1>1, <1>2, <2>1, <2>2, LinkClosed
  <2> QED  BY <2>3, <2>4 DEF IInv
<1> QED  BY <1>3, <1>4

LEMMA IdleLinkClosedKeeps ==
  ASSUME IInv, TypeOK', IdleLinkClosed
  PROVE  IInv'
<1>1. GuiActs /\ pc[GUI] = "lostwait" /\ stage = "none" /\ Goto(GUI, "idle")
  BY GuiActing DEF IdleLinkClosed, CloseDone, HandlerBegins, IInv, GuiPlaces
<1>2. UNCHANGED <<queryState, stage, queryFlushed, queryTmp, queryThread, link, isNotification,
                  guiQueue, workerQueue, nrun, orphans, executed>>
  BY DEF IdleLinkClosed, CloseDone, HandlerBegins, members, bounds, server
<1>3. pc'[GUI] = "idle" /\ \A w \in Runs : pc'[w] = pc[w]
  BY <1>1, Places DEF Goto, IInv, TypeOK
<1>4. \A w \in Runs : ~Starting(w) /\ ~Starting(w)'
  BY <1>1, <1>3 DEF GuiActs, Starting
<1>5. WorkersAlone' /\ WatchQueued' /\ WorkerPlaces'
  BY <1>1, <1>2, <1>3, <1>4 DEF WorkersAlone, WatchQueued, GuiActs, NoWatchQueued, WorkerPlaces, Starting, IInv
<1>6. FinishedQueued'
  <2>1. \A i \in DOMAIN guiQueue : guiQueue[i].call = "finished" => guiQueue[i].run \in Runs
    BY DEF IInv, TypeOK, GuiCall
  <2> QED  BY <1>2, <1>3, <2>1 DEF FinishedQueued, IInv
<1>7. Signals'
  <2>1. \A w \in Runs : \A i \in DOMAIN workerQueue[w] : workerQueue[w][i] # "close"
    BY DEF IdleLinkClosed, CloseDone, Signals, IInv
  <2> QED  BY <1>2, <2>1 DEF Signals, IInv
<1>8. GuiPlaces' /\ LinkShape' /\ Stages' /\ NoRunYet' /\ OnceOnly'
  BY <1>1, <1>2, <1>3 DEF GuiPlaces, LinkShape, Stages, NoRunYet, OnceOnly, IInv
<1>9. Undelivered' /\ NotStarted' /\ Resending' /\ Flushed'
  BY <1>1, <1>2, <1>3 DEF Undelivered, ToBeExecuted, NotStarted, Resending, Untouched,
     Flushed, Clean, Pushing, IInv
<1> QED  BY <1>5, <1>6, <1>7, <1>8, <1>9 DEF IInv

LEMMA CancelRequestKeeps ==
  ASSUME IInv, TypeOK', CancelRequest
  PROVE  IInv'
<1>1. /\ pc[GUI] = "idle" /\ Goto(GUI, "cancelled") /\ link.st = "ok" /\ queryState # "Inactive"
  BY DEF CancelRequest, Cancel, Idle
<1>2. UNCHANGED <<queryState, stage, queryFlushed, queryTmp, queryThread, link, watched, isNotification,
                  guiQueue, workerQueue, nrun, orphans, executed>>
  BY DEF CancelRequest, Cancel, members, server
<1>3. pc'[GUI] = "cancelled" /\ \A w \in Runs : pc'[w] = pc[w]
  BY <1>1, Places DEF Goto, IInv, TypeOK
<1>4. \A w \in Runs : ~Starting(w) /\ ~Starting(w)'
  BY <1>1, <1>3 DEF Starting, IInv, WorkerPlaces
<1>5. WorkersAlone' /\ WorkerPlaces' /\ Signals'
  BY <1>1, <1>2, <1>3, <1>4 DEF WorkersAlone, WorkerPlaces, Signals, IInv
<1>6. HandedToGui => HandedToGui'
  <2>1. queryThread # 0 => queryThread \in Runs
    BY DEF IInv, TypeOK, Runs
  <2> QED  BY <1>2, <1>3, <2>1 DEF HandedToGui
<1>7. WatchQueued'
  BY <1>2, <1>6 DEF WatchQueued, NoWatchQueued, Watches, IInv
<1>8. FinishedQueued'
  <2>1. \A i \in DOMAIN guiQueue : guiQueue[i].call = "finished" => guiQueue[i].run \in Runs
    BY DEF IInv, TypeOK, GuiCall
  <2> QED  BY <1>2, <1>3, <2>1 DEF FinishedQueued, IInv
<1>9. GuiPlaces' /\ LinkShape' /\ Stages' /\ NoRunYet' /\ OnceOnly'
  BY <1>1, <1>2, <1>3 DEF GuiPlaces, LinkShape, Stages, NoRunYet, OnceOnly, IInv
<1>10. Undelivered' /\ NotStarted' /\ Resending' /\ Flushed'
  BY <1>1, <1>2, <1>3 DEF Undelivered, ToBeExecuted, NotStarted, Resending, Untouched,
     Flushed, Clean, Pushing, IInv
<1> QED  BY <1>5, <1>7, <1>8, <1>9, <1>10 DEF IInv

LEMMA CancelRequestedKeeps ==
  ASSUME IInv, TypeOK', CancelRequested
  PROVE  IInv'
<1>1. /\ pc[GUI] = "cancelled" /\ Goto(GUI, "idle") /\ queryState' = "Cancelling" /\ queryTmp # 0
  BY DEF CancelRequested, IInv, GuiPlaces
<1>2. UNCHANGED <<stage, queryFlushed, queryTmp, queryThread, link, watched, isNotification,
                  guiQueue, workerQueue, nrun, orphans, executed>>
  BY DEF CancelRequested, bounds, server
<1>3. pc'[GUI] = "idle" /\ \A w \in Runs : pc'[w] = pc[w]
  BY <1>1, Places DEF Goto, IInv, TypeOK
<1>4. \A w \in Runs : ~Starting(w) /\ ~Starting(w)'
  BY <1>1, <1>3 DEF Starting, IInv, WorkersAlone, Alone
<1>5. WorkersAlone' /\ WorkerPlaces' /\ Signals'
  BY <1>1, <1>2, <1>3, <1>4 DEF WorkersAlone, WorkerPlaces, Signals, Starting, IInv
<1>6. HandedToGui => HandedToGui'
  <2>1. queryThread # 0 => queryThread \in Runs
    BY DEF IInv, TypeOK, Runs
  <2> QED  BY <1>1, <1>2, <1>3, <2>1 DEF HandedToGui
<1>7. WatchQueued'
  BY <1>2, <1>6 DEF WatchQueued, NoWatchQueued, Watches, IInv
<1>8. FinishedQueued'
  <2>1. \A i \in DOMAIN guiQueue : guiQueue[i].call = "finished" => guiQueue[i].run \in Runs
    BY DEF IInv, TypeOK, GuiCall
  <2> QED  BY <1>2, <1>3, <2>1 DEF FinishedQueued, IInv
<1>9. GuiPlaces' /\ LinkShape' /\ Stages' /\ NoRunYet' /\ OnceOnly'
  BY <1>1, <1>2, <1>3 DEF GuiPlaces, LinkShape, Stages, NoRunYet, OnceOnly, IInv
<1>10. Undelivered' /\ NotStarted' /\ Resending' /\ Flushed'
  BY <1>1, <1>2, <1>3 DEF Undelivered, ToBeExecuted, NotStarted, Resending, Untouched,
     Flushed, Clean, Pushing, IInv
<1> QED  BY <1>5, <1>7, <1>8, <1>9, <1>10 DEF IInv

(* A new run finds no other one under way: its worker starts alone.         *)
LEMMA ExecuteAsyncKeeps ==
  ASSUME IInv, TypeOK', Undisturbed, ExecuteAsync
  PROVE  IInv'
<1> DEFINE run == nrun + 1
<1>1. /\ pc[GUI] = "idle" /\ nrun \in Nat /\ run \in Runs /\ InWindow /\ queryState = "Inactive"
      /\ TransactionStatus(link) # "active" /\ watched' = {}
      /\ nrun' = run /\ queryThread' = run /\ Goto(run, "start") /\ UNCHANGED guiQueue
  BY ConnectionAssumption DEF ExecuteAsync, WatchSocket, IInv, TypeOK, Runs
<1>2. UNCHANGED <<queryState, stage, queryFlushed, queryTmp, link, isNotification, workerQueue,
                  orphans, executed>>
  BY DEF ExecuteAsync, members, server
<1>3. pc'[run] = "start" /\ pc'[GUI] = "idle" /\ \A w \in Runs \ {run} : pc'[w] = pc[w]
  BY <1>1, Places DEF Goto, IInv, TypeOK
<1>4. pc[run] = "none" /\ workerQueue[run] = <<>>
  BY <1>1 DEF IInv, WorkerPlaces
<1>5. NoWatchQueued
  BY <1>1 DEF IInv, WatchQueued, HandedToGui
<1>6. \A w \in Runs : ~Starting(w)
  <2>1. SUFFICES ASSUME NEW w \in Runs, Starting(w)  PROVE FALSE
    OBVIOUS
  <2>2. queryThread = w /\ pc[w] = "start"
    BY <1>1, <2>1 DEF IInv, WorkersAlone, WorkerPlaces, Starting
  <2>3. w # 0
    BY DEF Runs
  <2> QED  BY <1>1, <2>2, <2>3 DEF InWindow, Undisturbed
<1>7. stage # "flush"
  BY <1>1 DEF IInv, Stages, TransactionStatus
<1>8. Alone'
  BY <1>1, <1>3, <1>5 DEF Alone, NoWatchQueued
<1>9. WorkersAlone'
  BY <1>1, <1>2, <1>3, <1>4, <1>6, <1>8 DEF WorkersAlone, Starting
<1>10. WorkerPlaces'
  <2>1. \A w \in Runs : w # run => (w > nrun <=> w > run)
    BY <1>1 DEF Runs
  <2>2. ~(run > run)
    BY <1>1
  <2> QED  BY <1>1, <1>2, <1>3, <1>4, <1>6, <1>7, <2>1, <2>2 DEF WorkerPlaces, Starting, IInv
<1>11. WatchQueued'
  BY <1>1, <1>5 DEF WatchQueued, NoWatchQueued
<1>12. FinishedQueued'
  <2>1. \A i \in DOMAIN guiQueue : guiQueue[i].call = "finished" =>
           guiQueue[i].run \in Runs \ {run} /\ pc[guiQueue[i].run] = "gone"
    <3>1. \A i \in DOMAIN guiQueue : guiQueue[i].call = "finished" =>
             guiQueue[i].run \in Runs /\ pc[guiQueue[i].run] = "gone"
      BY DEF FinishedQueued, IInv, TypeOK, GuiCall
    <3> QED  BY <1>4, <3>1
  <2> QED  BY <1>1, <1>3, <2>1 DEF FinishedQueued
<1>13. Signals'
  BY <1>1, <1>2, <1>3 DEF Signals, IInv
<1>14. /\ GuiPlaces' /\ LinkShape' /\ Stages' /\ NoRunYet' /\ OnceOnly' /\ Undelivered'
       /\ NotStarted' /\ Resending' /\ Flushed'
  <2>1. \A r \in Runs : pc'[r] \in {"none", "start"} => pc[r] \in {"none", "start"}
    BY <1>3, <1>4
  <2> QED  BY <1>1, <1>2, <1>3, <2>1, DataKept
<1> QED  BY <1>9, <1>10, <1>11, <1>12, <1>13, <1>14 DEF IInv

LEMMA NextCallTail ==
  ASSUME IInv, NEW call, NextCall(call)
  PROVE  /\ pc[GUI] = "idle" /\ 1 \in DOMAIN guiQueue /\ Head(guiQueue) = guiQueue[1]
         /\ guiQueue[1].call = call
         /\ \A i \in DOMAIN guiQueue' : i + 1 \in DOMAIN guiQueue /\ guiQueue'[i] = guiQueue[i + 1]
                                        /\ i \in Nat \ {0}
BY DEF NextCall, Idle, IInv, TypeOK

LEMMA WatchSocketQueuedKeeps ==
  ASSUME IInv, TypeOK', WatchSocketQueued
  PROVE  IInv'
<1>1. /\ pc[GUI] = "idle" /\ 1 \in DOMAIN guiQueue /\ guiQueue[1].call = "watch"
      /\ watched' = guiQueue[1].mode \/ watched' = {}
      /\ \A i \in DOMAIN guiQueue' : i + 1 \in DOMAIN guiQueue /\ guiQueue'[i] = guiQueue[i + 1]
                                     /\ i \in Nat \ {0}
  BY NextCallTail DEF WatchSocketQueued
<1>2. UNCHANGED <<queryState, stage, queryFlushed, queryTmp, queryThread, link, pc, isNotification,
                  workerQueue, nrun, orphans, executed>>
  BY DEF WatchSocketQueued, members, bounds, server
<1>3. NoWatchQueued => NoWatchQueued' /\ watched' = {}
  BY <1>1 DEF NoWatchQueued, Watches
<1>4. watched' # {} => (\A w \in Runs : ~Starting(w)) /\ NoWatchQueued'
  <2>1. SUFFICES ASSUME watched' # {}
                 PROVE  (\A w \in Runs : ~Starting(w)) /\ NoWatchQueued'
    OBVIOUS
  <2>2. Watches(guiQueue[1])
    BY <1>1, <2>1 DEF Watches
  <2>3. HandedToGui
    BY <1>1, <2>2 DEF IInv, WatchQueued, NoWatchQueued
  <2>4. \A w \in Runs : ~Starting(w)
    BY <2>3 DEF HandedToGui, IInv, WorkersAlone, Starting
  <2>5. \A i \in DOMAIN guiQueue' : ~Watches(guiQueue[i + 1])
    BY <1>1, <2>2 DEF IInv, WatchQueued
  <2> QED  BY <1>1, <2>4, <2>5 DEF NoWatchQueued
<1>5. WorkersAlone'
  <2>1. SUFFICES ASSUME NEW w \in Runs, Starting(w)'
                 PROVE  queryThread' = w /\ workerQueue'[w] = <<>> /\ Alone'
    BY DEF WorkersAlone
  <2>2. Starting(w)
    BY <1>2, <2>1 DEF Starting
  <2> QED  BY <1>2, <1>3, <2>2 DEF IInv, WorkersAlone, Alone
<1>6. WorkerPlaces' /\ Signals'
  BY <1>2 DEF WorkerPlaces, Signals, IInv
<1>7. WatchQueued'
  <2>1. HandedToGui /\ watched' = {} => HandedToGui'
    BY <1>2 DEF HandedToGui
  <2>2. \A i, j \in DOMAIN guiQueue' : Watches(guiQueue'[i]) /\ Watches(guiQueue'[j]) => i = j
    <3>1. SUFFICES ASSUME NEW i \in DOMAIN guiQueue', NEW j \in DOMAIN guiQueue',
                          Watches(guiQueue'[i]), Watches(guiQueue'[j])
                   PROVE  i = j
      OBVIOUS
    <3>2. i + 1 = j + 1
      BY <1>1, <3>1 DEF IInv, WatchQueued
    <3> QED  BY <1>1, <3>2
  <2> QED  BY <1>3, <1>4, <2>1, <2>2 DEF WatchQueued, IInv
<1>8. FinishedQueued'
  BY <1>1, <1>2 DEF FinishedQueued, IInv
<1>9. /\ GuiPlaces' /\ LinkShape' /\ Stages' /\ NoRunYet' /\ OnceOnly' /\ Undelivered'
      /\ NotStarted' /\ Resending' /\ Flushed'
  BY <1>2, DataKept
<1> QED  BY <1>5, <1>6, <1>7, <1>8, <1>9 DEF IInv

LEMMA ThreadFinishedKeeps ==
  ASSUME IInv, TypeOK', ThreadFinished
  PROVE  IInv'
<1>1. /\ pc[GUI] = "idle" /\ 1 \in DOMAIN guiQueue /\ guiQueue[1].call = "finished"
      /\ Head(guiQueue) = guiQueue[1]
      /\ \A i \in DOMAIN guiQueue' : i + 1 \in DOMAIN guiQueue /\ guiQueue'[i] = guiQueue[i + 1]
                                     /\ i \in Nat \ {0}
  BY NextCallTail DEF ThreadFinished
<1>2. UNCHANGED <<queryState, stage, queryFlushed, queryTmp, pc, isNotification, workerQueue,
                  nrun, orphans, executed>>
  BY DEF ThreadFinished, members, bounds, server
<1>3. pc[guiQueue[1].run] = "gone" /\ guiQueue[1].run \in Runs
  BY <1>1 DEF IInv, FinishedQueued, TypeOK, GuiCall
<1>4. FinishedQueued' /\ Signals'
  BY <1>1, <1>2 DEF FinishedQueued, Signals, IInv
<1>5. NoWatchQueued => NoWatchQueued'
  BY <1>1 DEF NoWatchQueued
<1>6. \A i, j \in DOMAIN guiQueue' : Watches(guiQueue'[i]) /\ Watches(guiQueue'[j]) => i = j
  <2>1. SUFFICES ASSUME NEW i \in DOMAIN guiQueue', NEW j \in DOMAIN guiQueue',
                        Watches(guiQueue'[i]), Watches(guiQueue'[j])
                 PROVE  i = j
    OBVIOUS
  <2>2. i + 1 = j + 1
    BY <1>1, <2>1 DEF IInv, WatchQueued
  <2> QED  BY <1>1, <2>2
<1>7. CASE queryThread = guiQueue[1].run
  <2>1. \A w \in Runs : ~Starting(w)
    BY <1>3, <1>7 DEF IInv, WorkersAlone, Starting
  <2>2. NoWatchQueued'
    BY <1>3, <1>5, <1>7 DEF IInv, WatchQueued, HandedToGui
  <2>3. /\ link'.run = link.run /\ link'.wire = link.wire /\ link'.srv = link.srv
        /\ \/ link' = link
           \/ /\ link.st = "ok" /\ link.run = 0 /\ link.srv = "idle"
              /\ link'.st \in {"ok", "bad"} /\ link'.txn \in {"idle", link.txn}
              /\ link'.up = link.up /\ queryTmp # 0
    <3>1. link' = IF TransactionStatus(link) = "inerror"
                  THEN IF link.up THEN [link EXCEPT !.txn = "idle"] ELSE Broken(link)
                  ELSE link
      BY <1>1, <1>7 DEF ThreadFinished
    <3>2. CASE TransactionStatus(link) # "inerror"
      BY <3>1, <3>2
    <3>3. CASE TransactionStatus(link) = "inerror"
      <4>1. link.st = "ok" /\ link.run = 0 /\ link.srv = "idle" /\ link.txn = "inerror" /\ link \in Link
        BY <3>3 DEF TransactionStatus, IInv, LinkShape, TypeOK
      <4>2. queryTmp # 0
        BY <4>1 DEF IInv, NoRunYet
      <4>3. link' = [link EXCEPT !.txn = "idle"] \/ link' = [link EXCEPT !.st = "bad", !.srv = "idle"]
        BY <3>1, <3>3, <4>1 DEF Broken
      <4> QED  BY <4>1, <4>2, <4>3 DEF Link
    <3> QED  BY <3>2, <3>3
  <2>4. WorkersAlone' /\ WorkerPlaces' /\ WatchQueued'
    BY <1>2, <1>6, <2>1, <2>2 DEF WorkersAlone, WorkerPlaces, WatchQueued, Starting, IInv
  <2>5. GuiPlaces' /\ LinkShape' /\ NoRunYet' /\ OnceOnly'
    BY <1>1, <1>2, <2>3 DEF GuiPlaces, LinkShape, NoRunYet, OnceOnly, IInv
  <2>6. Stages' /\ Undelivered'
    BY <1>2, <2>3 DEF Stages, Undelivered, ToBeExecuted, IInv
  <2>7. NotStarted' /\ Resending' /\ Flushed'
    BY <1>2, <2>3 DEF NotStarted, Resending, Untouched, Flushed, Clean, Pushing, IInv
  <2> QED  BY <1>4, <2>4, <2>5, <2>6, <2>7 DEF IInv
<1>8. CASE queryThread # guiQueue[1].run
  <2>1. UNCHANGED <<queryThread, link, watched>>
    BY <1>1, <1>8 DEF ThreadFinished
  <2>2. WorkersAlone' /\ WorkerPlaces'
    BY <1>2, <1>5, <2>1 DEF WorkersAlone, WorkerPlaces, Alone, Starting, IInv
  <2>3. WatchQueued'
    BY <1>2, <1>5, <1>6, <2>1 DEF WatchQueued, HandedToGui, IInv
  <2>4. /\ GuiPlaces' /\ LinkShape' /\ Stages' /\ NoRunYet' /\ OnceOnly' /\ Undelivered'
        /\ NotStarted' /\ Resending' /\ Flushed'
    BY <1>2, <2>1, DataKept
  <2> QED  BY <1>4, <2>2, <2>3, <2>4 DEF IInv
<1> QED  BY <1>7, <1>8

-----------------------------------------------------------------------------
(* The server and the link.                                                 *)
LEMMA ThreadsKept ==
  ASSUME IInv, UNCHANGED <<queryState, stage, queryThread, watched, pc, guiQueue, workerQueue, nrun>>,
         link'.st = link.st
  PROVE  WorkersAlone' /\ WorkerPlaces' /\ WatchQueued' /\ FinishedQueued' /\ Signals'
<1>1. NoWatchQueued = NoWatchQueued' /\ HandedToGui = HandedToGui'
  BY DEF NoWatchQueued, HandedToGui
<1> QED  BY <1>1 DEF WorkersAlone, Alone, Starting, WorkerPlaces, WatchQueued, FinishedQueued, Signals, IInv

LEMMA EnvironmentKeeps ==
  ASSUME IInv, TypeOK', Environment
  PROVE  IInv'
<1>1. UNCHANGED <<queryState, stage, queryFlushed, queryTmp, queryThread, watched, pc, isNotification,
                  guiQueue, workerQueue, nrun>>
  BY DEF Environment, ServerExecutes, OrphanExecutes, LinkDies, members, bounds
<1>2. link \in Link /\ executed \in [Runs -> Nat]
  BY DEF IInv, TypeOK
<1>3. CASE ServerExecutes
  <2>1. /\ link.srv = "todo" /\ link.run \in Runs /\ executed[link.run] = 0 /\ link.run \notin orphans
        /\ link.st = "ok" /\ link.up
    <3>1. link.srv = "todo" /\ link.run # 0 /\ link.st = "ok" /\ link.up
      BY <1>3 DEF ServerExecutes, IInv, LinkShape
    <3> QED  BY <1>2, <3>1, LinkFields DEF IInv, Undelivered, ToBeExecuted, Runs
  <2>2. /\ link'.st = link.st /\ link'.run = link.run /\ link'.wire = link.wire /\ link'.up = link.up
        /\ link'.txn = link.txn /\ link'.srv = "ran" /\ orphans' = orphans
    BY <1>2, <1>3 DEF ServerExecutes, Link
  <2>3. executed'[link.run] = 1 /\ \A r \in Runs \ {link.run} : executed'[r] = executed[r]
    BY <1>2, <1>3, <2>1 DEF ServerExecutes
  <2>4. WorkersAlone' /\ WorkerPlaces' /\ WatchQueued' /\ FinishedQueued' /\ Signals'
    BY <1>1, <2>2, ThreadsKept
  <2>5. GuiPlaces' /\ LinkShape' /\ Stages' /\ NoRunYet' /\ Undelivered'
    BY <1>1, <2>1, <2>2 DEF GuiPlaces, LinkShape, Stages, NoRunYet, Undelivered, ToBeExecuted, IInv, Runs
  <2>6. OnceOnly'
    BY <2>1, <2>2, <2>3 DEF OnceOnly, IInv
  <2>7. NotStarted'
    BY <1>1, <2>2, <2>3 DEF NotStarted, Untouched, IInv
  <2>8. queryTmp # 0 => queryTmp \in Runs
    BY DEF IInv, TypeOK, Runs
  <2>9. Resending'
    <3>1. queryState = "Reconnecting" => queryTmp \in Runs
      BY <2>8 DEF IInv, NoRunYet
    <3> QED  BY <1>1, <2>2, <2>3, <3>1 DEF Resending, Untouched, IInv
  <2>10. Flushed'
    BY <1>1, <2>1, <2>2, <2>3, <2>8 DEF Flushed, Clean, Pushing, IInv
  <2> QED  BY <2>4, <2>5, <2>6, <2>7, <2>9, <2>10 DEF IInv
<1>4. CASE OrphanExecutes
  <2>1. PICK o \in orphans : executed' = [executed EXCEPT ![o] = @ + 1] /\ orphans' = orphans \ {o}
    BY <1>4 DEF OrphanExecutes
  <2>2. link' = link
    BY <1>4 DEF OrphanExecutes
  <2>3. /\ \A r \in Runs : r # o => executed'[r] = executed[r]
        /\ o \in Runs => executed[o] = 0 /\ executed'[o] = 1
    BY <1>2, <2>1 DEF OnceOnly, IInv
  <2>4. WorkersAlone' /\ WorkerPlaces' /\ WatchQueued' /\ FinishedQueued' /\ Signals'
    BY <1>1, <2>2, ThreadsKept
  <2>5. GuiPlaces' /\ LinkShape' /\ Stages' /\ NoRunYet'
    BY <1>1, <2>2 DEF GuiPlaces, LinkShape, Stages, NoRunYet, IInv
  <2>6. OnceOnly'
    BY <2>1, <2>3 DEF OnceOnly, IInv
  <2>7. Undelivered'
    <3>1. link.run # 0 => link.run \in Runs
      BY <1>2, LinkFields DEF Runs
    <3> QED  BY <2>1, <2>2, <2>3, <3>1 DEF Undelivered, ToBeExecuted, IInv
  <2>8. NotStarted'
    BY <1>1, <2>1, <2>2, <2>3 DEF NotStarted, Untouched, IInv
  <2>9. queryTmp # 0 => queryTmp \in Runs
    BY DEF IInv, TypeOK, Runs
  <2>10. Resending'
    <3>1. queryState = "Reconnecting" => queryTmp \in Runs
      BY <2>9 DEF IInv, NoRunYet
    <3> QED  BY <1>1, <2>1, <2>2, <2>3, <3>1 DEF Resending, Untouched, IInv
  <2>11. Flushed'
    BY <1>1, <2>1, <2>2, <2>3, <2>9 DEF Flushed, Clean, Pushing, IInv
  <2> QED  BY <2>4, <2>5, <2>6, <2>7, <2>8, <2>10, <2>11 DEF IInv
<1>5. CASE LinkDies
  <2>1. /\ link'.st = link.st /\ link'.run = link.run /\ link'.wire = link.wire /\ ~link'.up
        /\ link'.txn = link.txn /\ link'.srv \in {link.srv, "idle"} /\ link'.srv # "todo"
        /\ link.st = "ok" /\ executed' = executed /\ orphans' = orphans \cup Orphaned(link)
    BY <1>2, <1>5 DEF LinkDies, Link
  <2>2. \A r \in orphans' \ orphans : r = link.run /\ link.srv = "todo" /\ link.run # 0 /\ executed[r] = 0
    BY <2>1 DEF Orphaned, IInv, LinkShape, Undelivered, ToBeExecuted
  <2>3. WorkersAlone' /\ WorkerPlaces' /\ WatchQueued' /\ FinishedQueued' /\ Signals'
    BY <1>1, <2>1, ThreadsKept
  <2>4. GuiPlaces' /\ LinkShape' /\ Stages' /\ NoRunYet' /\ Undelivered'
    BY <1>1, <2>1 DEF GuiPlaces, LinkShape, Stages, NoRunYet, Undelivered, ToBeExecuted, IInv
  <2>5. OnceOnly'
    BY <2>1, <2>2 DEF OnceOnly, IInv
  <2>6. NotStarted' /\ Resending'
    BY <1>1, <2>1, <2>2 DEF NotStarted, Resending, Untouched, IInv
  <2>7. Flushed'
    BY <1>1, <2>1, <2>2 DEF Flushed, Clean, Pushing, IInv
  <2> QED  BY <2>3, <2>4, <2>5, <2>6, <2>7 DEF IInv
<1> QED  BY <1>3, <1>4, <1>5 DEF Environment

-----------------------------------------------------------------------------
LEMMA InvariantInitially ==
  ASSUME Init
  PROVE  IInv
<1>1. TypeOK
  BY TypeInitial
<1>2. link = NoLink \/ link = NewLink("ok")
  BY DEF Init
<1>3. link.run = 0 /\ ~link.wire /\ link.srv = "idle" /\ link.txn = "idle"
      /\ link.st \in {"null", "ok"}
  BY <1>2 DEF NoLink, NewLink, Handle
<1>4. pc[GUI] = "idle" /\ \A w \in Runs : pc[w] = "none" /\ workerQueue[w] = <<>> /\ w > nrun
  <2>1. pc[GUI] = "idle" /\ \A w \in Runs : pc[w] = "none"
    BY Places DEF Init
  <2>2. nrun = 0 /\ \A w \in Runs : w > 0
    BY ConnectionAssumption DEF Init, Runs
  <2>3. \A w \in Runs : workerQueue[w] = <<>>
    BY DEF Init
  <2> QED  BY <2>1, <2>2, <2>3
<1>5. WorkersAlone /\ WorkerPlaces /\ Signals
  BY <1>4 DEF WorkersAlone, WorkerPlaces, Signals, Starting
<1>6. WatchQueued /\ FinishedQueued
  BY DEF Init, WatchQueued, NoWatchQueued, FinishedQueued
<1>7. GuiPlaces /\ LinkShape /\ Stages /\ NoRunYet /\ Undelivered
  BY <1>3, <1>4 DEF Init, GuiPlaces, LinkShape, Stages, NoRunYet, Undelivered
<1>8. OnceOnly /\ NotStarted /\ Resending /\ Flushed
  BY <1>3, ConnectionAssumption DEF Init, OnceOnly, NotStarted, Untouched, Resending, Flushed, Runs
<1> QED  BY <1>1, <1>5, <1>6, <1>7, <1>8 DEF IInv

LEMMA InvariantInductive ==
  ASSUME Undisturbed, IInv, [Next]_vars
  PROVE  IInv'
<1>1. TypeOK /\ TypeOK'
  BY TypeInductive DEF IInv
<1>2. CASE User
  <2>1. ~SwitchDatabase /\ ~CancelByClosing
    BY DEF Undisturbed, SwitchDatabase, CancelByClosing, IInv, TypeOK
  <2> QED  BY <1>1, <1>2, <2>1, ExecuteAsyncKeeps, CancelRequestKeeps DEF User
<1>3. CASE Notifier
  BY <1>1, <1>3, NotifierKeeps DEF Notifier
<1>4. CASE Handler
  <2>1. ~SwitchClosed /\ ~SwitchOpen
    BY DEF IInv, GuiPlaces, SwitchClosed, CloseDone, SwitchOpen
  <2> QED  BY <1>1, <1>4, <2>1, FlushReadKeeps, FlushReadDoneKeeps, WriteWholeKeeps, WritePartKeeps,
              WriteFailedKeeps, WriteNothingKeeps, FetchBeginsKeeps, FetchLinkLostKeeps,
              FetchIdleLinkLostKeeps, FetchNothingKeeps, FetchResultKeeps, FetchEndKeeps,
              FetchFinishedKeeps, IdleLinkCloseKeeps, IdleLinkClosedKeeps, CancelRequestedKeeps
           DEF Handler
<1>5. CASE WatchSocketQueued \/ ThreadFinished
  BY <1>1, <1>5, WatchSocketQueuedKeeps, ThreadFinishedKeeps
<1>6. CASE \E t \in Thread : Drive(t)
  BY <1>1, <1>6, RunQueryNoLinkKeeps, RunQueryRefusedKeeps, RunQuerySentKeeps, RunQueryWriteFailedKeeps,
     TransactionLostKeeps, OpenAsyncKeeps, PollKeeps DEF Drive
<1>7. CASE \E w \in Runs : Worker(w)
  <2>1. PICK w \in Runs : Worker(w)
    BY <1>7
  <2>2. ~CloseConnectionWanted(w)
    <3>1. workerQueue[w] \in Seq(Signal)
      BY <1>1 DEF TypeOK
    <3>2. workerQueue[w] # <<>> => 1 \in DOMAIN workerQueue[w] /\ Head(workerQueue[w]) = workerQueue[w][1]
      BY <3>1
    <3> QED  BY <3>2 DEF CloseConnectionWanted, NextSignal, IInv, Signals
  <2> QED  BY <1>1, <2>1, <2>2, CheckExitKeeps, RunEndedKeeps, CloseCalledKeeps, WorkerFinishedKeeps
           DEF Worker
<1>8. CASE Environment
  BY <1>1, <1>8, EnvironmentKeeps
<1>9. CASE UNCHANGED vars
  <2>1. UNCHANGED <<queryState, stage, queryFlushed, queryTmp, queryThread, link, watched, pc,
                    isNotification, guiQueue, workerQueue, nrun, orphans, executed>>
    BY <1>9 DEF vars, members, bounds, server
  <2> QED  BY <1>1, <2>1, ThreadsKept, DataKept DEF IInv
<1> QED  BY <1>2, <1>3, <1>4, <1>5, <1>6, <1>7, <1>8, <1>9 DEF Next

(* The invariant is one.                                                    *)
THEOREM InvariantHolds ==
  ASSUME Undisturbed
  PROVE  Spec => []IInv
<1>1. Init => IInv
  BY InvariantInitially
<1>2. IInv /\ [Next]_vars => IInv'
  BY InvariantInductive
<1> QED  BY <1>1, <1>2, PTL DEF Spec

(* However often the link is lost and the query sent again, the server      *)
(* executes the text of a run at most once (run_query(), fetch() and        *)
(* linkLostMidQuery()), as long as nobody closes the link under the run.    *)
THEOREM ExecutedOnce ==
  ASSUME Undisturbed
  PROVE  Spec => []AtMostOnce
<1>1. IInv => AtMostOnce
  BY DEF IInv, OnceOnly, AtMostOnce
<1> QED  BY <1>1, InvariantHolds, PTL

(* Only one thread at a time restores the link, and no run starts its query *)
(* meanwhile (openAsync(), asyncConnectionProceed() and run_query release   *)
(* _connectionGuard between their sections).                                *)
THEOREM OneThreadDrives ==
  ASSUME Undisturbed
  PROVE  Spec => []OneDriver
<1>1. IInv => OneDriver
  <2>1. SUFFICES ASSUME IInv, NEW t \in Thread, NEW u \in Thread,
                        pc[t] \in Driving, pc[u] \in Driving \cup {"start"}
                 PROVE  t = u
    BY DEF OneDriver
  <2>2. /\ pc[t] \in {"start", "open", "poll", "resend"} /\ pc[u] \in {"start", "open", "poll", "resend"}
    BY <2>1 DEF Driving
  <2>3. \A v \in {t, u} : v = GUI \/ (v \in Runs /\ queryThread = v /\ pc[GUI] = "idle")
    <3>1. SUFFICES ASSUME NEW v \in Thread, pc[v] \in {"start", "open", "poll", "resend"}, v # GUI
                   PROVE  v \in Runs /\ queryThread = v /\ pc[GUI] = "idle"
      BY <2>2
    <3> QED  BY <2>1, <3>1, Driving1 DEF Drives, IInv, WorkersAlone
  <2> QED  BY <2>2, <2>3
<1> QED  BY <1>1, InvariantHolds, PTL

-----------------------------------------------------------------------------
(* What the connection reports of a run is what became of it: the           *)
(* connection keeps the promise of RunPromise.  Its invariant adds to IInv  *)
(* what the state, the stage and the places of the threads say of the run   *)
(* in progress.                                                             *)

(* Here libpq also takes every query handed to it on a link that is alive.  *)
Unrefused == Undisturbed /\ "send" \notin Failures

-----------------------------------------------------------------------------
(* The invariant.  A link that is being restored belongs to a run whose     *)
(* state says so, and the gui thread reads no answer meanwhile.             *)
Connecting ==
    /\ link.st \in {"start", "wait"} => stage = "connecting"
    /\ stage = "connecting" =>
          queryState = "Reconnecting"
          /\ pc[GUI] \notin {"enter", "fetch", "answered", "write", "cancelled"}
    /\ queryState = "Reconnecting" =>
          stage = "connecting" \/ \E t \in Thread : pc[t] \in {"open", "resend"}
    /\ \A t \in Thread : pc[t] = "open" => queryState = "Reconnecting"

(* A session is free when no run is in progress, and what it has left open  *)
(* was left by a query that had been sent whole: fetch() depends on it when *)
(* it finds the link lost.                                                  *)
NothingOwed(notified) ==
    notified \/ queryState = "Inactive" => queryState = "Inactive" /\ (notified \/ queryFlushed)
FreeSession ==
    /\ queryState = "Inactive" /\ link.st = "ok" =>
          link.run = 0 /\ (link.txn # "idle" => queryFlushed)
    /\ pc[GUI] = "fetch" => NothingOwed(isNotification)
    /\ pc[GUI] \in {"lost", "lostwait"} => queryState = "Inactive"

InProgress == queryState \in {"Running", "Cancelling"}
ByPlace ==
    /\ stage = "flush" \/ pc[GUI] = "cancelled" => InProgress
    /\ pc[GUI] = "answered" => link.run = 0
    /\ \A t \in Thread : pc[t] = "dropped" =>
          queryState = "Running" /\ stage = "none" /\ link.st = "null" /\ Untouched(queryTmp)

(* The run in progress is on the session, or has just been answered, or its *)
(* failure is about to be reported.                                         *)
Asked ==
    InProgress =>
       \/ link.run = queryTmp
       \/ \E t \in Thread : pc[t] = "dropped"
       \/ pc[GUI] = "answered" /\ executed[queryTmp] = 1
Answers == link.srv \in {"ran", "read"} => executed[link.run] = 1

Live == queryState # "Inactive" => verdict[queryTmp] = "none"
NotReported == \A r \in Runs : pc[r] \in {"none", "start"} => verdict[r] = "none"

PInv ==
    /\ Connecting /\ FreeSession /\ ByPlace
    /\ Asked /\ Answers /\ Live /\ NotReported /\ VerdictTrue

-----------------------------------------------------------------------------
Session == <<queryState, stage, queryTmp, link, queryFlushed>>
Record == <<executed, orphans, verdict>>

LEMMA IInvFacts ==
  ASSUME IInv
  PROVE  /\ TypeOK /\ link \in Link /\ queryTmp \in 0..MaxRun
         /\ pc \in [Thread -> GuiAt \cup WorkerAt] /\ pc[GUI] \in GuiAt
         /\ \A w \in Runs : pc[w] \in WorkerAt
         /\ verdict \in [Runs -> Verdict] /\ executed \in [Runs -> Nat]
         /\ \A w \in Runs : pc[w] # "resend"
BY DEF IInv, TypeOK, WorkerPlaces

(* While the gui thread is in a handler that drives no connection, nobody   *)
(* does.                                                                    *)
LEMMA NobodyDrives ==
  ASSUME IInv, PInv, GuiActs, pc[GUI] \notin DriveAt
  PROVE  /\ \A t \in Thread : pc[t] \notin DriveAt \cup {"start"}
         /\ queryState = "Reconnecting" => stage = "connecting"
<1>1. ASSUME NEW t \in Thread PROVE pc[t] \notin DriveAt \cup {"start"}
  <2>1. CASE t = GUI
    BY <2>1, IInvFacts DEF GuiAt, DriveAt
  <2>2. CASE t \in Runs
    BY <2>2, IInvFacts DEF GuiActs, Starting, DriveAt
  <2> QED  BY <2>1, <2>2, Places
<1> QED  BY <1>1 DEF PInv, Connecting, DriveAt

(* The reports stay true when the effects do and a new one is true.         *)
LEMMA TruthKept ==
  ASSUME IInv, PInv, executed' = executed, NEW q, NEW v,
         verdict' = verdict \/ verdict' = [verdict EXCEPT ![q] = IF @ = "none" THEN v ELSE @],
         verdict' # verdict /\ q \in Runs /\ v = "answered" => executed[q] = 1,
         verdict' # verdict /\ q \in Runs /\ v = "notsent" =>
            executed[q] = 0 /\ q \notin orphans' /\ link'.run # q,
         \A r \in Runs : r \in orphans' => r \in orphans \/ (link.run = r /\ link.srv = "todo")
                                           \/ verdict[r] # "notsent",
         \A r \in Runs : link'.run = r /\ link'.srv = "todo" =>
                            (link.run = r /\ link.srv = "todo") \/ verdict[r] # "notsent"
  PROVE  VerdictTrue'
<1> SUFFICES ASSUME NEW r \in Runs
             PROVE  /\ verdict'[r] = "answered" => executed[r] = 1
                    /\ verdict'[r] = "notsent" =>
                          executed[r] = 0 /\ r \notin orphans' /\ ~(link'.run = r /\ link'.srv = "todo")
  BY DEF VerdictTrue
<1>1. /\ verdict[r] = "answered" => executed[r] = 1
      /\ verdict[r] = "notsent" =>
            executed[r] = 0 /\ r \notin orphans /\ ~(link.run = r /\ link.srv = "todo")
  BY DEF PInv, VerdictTrue
<1>2. CASE verdict'[r] = verdict[r]
  BY <1>1, <1>2
<1>3. CASE verdict'[r] # verdict[r]
  <2>1. q = r /\ verdict'[r] = v /\ verdict' # verdict
    BY <1>3, IInvFacts
  <2> QED  BY <2>1
<1> QED  BY <1>2, <1>3

(* A step that only takes a thread to its next place.                       *)
LEMMA PlaceKeeps ==
  ASSUME IInv, PInv, UNCHANGED Session, UNCHANGED Record, NEW t \in Thread,
         \A u \in Thread \ {t} : pc'[u] = pc[u],
         \/ pc'[t] = pc[t]
         \/ /\ pc[t] \notin {"open", "resend", "dropped", "answered"}
            /\ pc'[t] \notin {"open", "resend", "dropped", "answered"}
            /\ pc'[t] \in {"none", "start"} => pc[t] \in {"none", "start"}
            /\ pc'[t] \in {"lost", "lostwait"} => queryState = "Inactive"
            /\ pc'[t] \in {"enter", "write", "fetch", "cancelled"} => stage # "connecting"
            /\ pc'[t] = "cancelled" => InProgress
            /\ pc'[t] = "fetch" => NothingOwed(isNotification'),
         isNotification' = isNotification \/ pc'[GUI] # pc[GUI]
  PROVE  PInv'
<1>1. UNCHANGED <<queryState, stage, queryTmp, link, queryFlushed, executed, orphans, verdict>>
  BY DEF Session, Record
<1>2. GUI \in Thread /\ Runs \subseteq Thread /\ GUI \notin Runs
  BY Places
<1>3. \A u \in Thread : /\ pc'[u] \in {"open", "resend"} <=> pc[u] \in {"open", "resend"}
                        /\ pc'[u] = "open" <=> pc[u] = "open"
                        /\ pc'[u] = "dropped" <=> pc[u] = "dropped"
                        /\ pc'[u] = "answered" <=> pc[u] = "answered"
                        /\ pc'[u] \in {"none", "start"} => pc[u] \in {"none", "start"}
  OBVIOUS
<1>4. Connecting'
  BY <1>1, <1>2, <1>3 DEF Connecting, PInv
<1>5. FreeSession'
  BY <1>1, <1>2 DEF FreeSession, NothingOwed, PInv
<1>6. ByPlace'
  BY <1>1, <1>2, <1>3 DEF ByPlace, InProgress, Untouched, PInv
<1>7. Asked' /\ Answers' /\ Live' /\ VerdictTrue'
  BY <1>1, <1>2, <1>3 DEF Asked, InProgress, Answers, Live, VerdictTrue, PInv
<1>8. NotReported'
  BY <1>1, <1>2, <1>3 DEF NotReported, PInv
<1> QED  BY <1>4, <1>5, <1>6, <1>7, <1>8 DEF PInv

LEMMA PlacesOnly ==
  ASSUME IInv, PInv,
         \/ Notifier \/ FlushReadDone \/ FetchBegins \/ IdleLinkClosed \/ CancelRequest
         \/ ExecuteAsync \/ WatchSocketQueued \/ UNCHANGED vars
         \/ \E w \in Runs : CheckExit(w) \/ RunEnded(w) \/ WorkerFinished(w)
  PROVE  PInv'
<1>1. UNCHANGED Session /\ UNCHANGED Record
  BY DEF Notifier, ReadyReadSocket, ReadyWriteSocket, HandlerBegins, FlushReadDone, FetchBegins,
         IdleLinkClosed, CloseDone, CancelRequest, Cancel, ExecuteAsync, WatchSocketQueued, vars,
         CheckExit, RunEnded, WorkerFinished, members, bounds, server, Session, Record
<1>2. /\ GUI \in Thread /\ \A w \in Runs : w \in Thread /\ w # GUI
      /\ \A t \in Thread : \A label : Goto(t, label) =>
            pc'[t] = label /\ \A u \in Thread \ {t} : pc'[u] = pc[u]
  BY Places, IInvFacts, Moves
<1>3. CASE Notifier
  <2>1. PICK label \in {"poll", "flushread", "enter", "write"} :
           Goto(GUI, label) /\ (label \in {"enter", "write"} => stage # "connecting")
    BY <1>3 DEF Notifier, ReadyReadSocket, ReadyWriteSocket, HandlerBegins
  <2>2. pc[GUI] = "idle" /\ isNotification' = isNotification
    BY <1>3 DEF Notifier, ReadyReadSocket, ReadyWriteSocket, Idle, HandlerBegins
  <2> QED  BY <1>1, <1>2, <2>1, <2>2, PlaceKeeps
<1>4. CASE FlushReadDone
  <2>1. pc[GUI] = "flushed" /\ stage = "flush" /\ isNotification' = isNotification
    BY <1>4 DEF FlushReadDone, HandlerBegins, IInv, GuiPlaces
  <2>2. PICK label \in {"idle", "write"} : Goto(GUI, label)
    BY <1>4, <2>1 DEF FlushReadDone, HandlerBegins
  <2> QED  BY <1>1, <1>2, <2>1, <2>2, PlaceKeeps
<1>5. CASE FetchBegins
  <2>1. /\ pc[GUI] = "enter" /\ Goto(GUI, "fetch")
        /\ isNotification' = (IsIdle(link) /\ queryState = "Inactive")
    BY <1>5 DEF FetchBegins
  <2>2. stage # "connecting"
    BY <2>1 DEF PInv, Connecting
  <2>3. NothingOwed(isNotification')
    <3>1. queryState = "Inactive" /\ link.st = "ok" => link.run = 0 /\ (link.txn # "idle" => queryFlushed)
      BY DEF PInv, FreeSession
    <3> QED  BY <2>1, <3>1 DEF NothingOwed, IsIdle, TransactionStatus
  <2> QED  BY <1>1, <1>2, <2>1, <2>2, <2>3, PlaceKeeps
<1>6. CASE IdleLinkClosed
  <2>1. pc[GUI] = "lostwait" /\ Goto(GUI, "idle") /\ isNotification' = isNotification
    BY <1>6 DEF IdleLinkClosed, CloseDone, HandlerBegins
  <2> QED  BY <1>1, <1>2, <2>1, PlaceKeeps
<1>7. CASE CancelRequest
  <2>1. /\ pc[GUI] = "idle" /\ Goto(GUI, "cancelled") /\ isNotification' = isNotification
        /\ queryState \notin {"Inactive", "Cancelling"} /\ stage # "connecting" /\ link.st = "ok"
    BY <1>7 DEF CancelRequest, Cancel, Idle
  <2>2. queryState # "Reconnecting"
    <3>1. SUFFICES ASSUME NEW t \in Thread, pc[t] \in {"open", "resend"} PROVE FALSE
      BY <2>1 DEF PInv, Connecting
    <3>2. t \in Runs /\ pc[t] = "open"
      BY <2>1, <3>1, Places, IInvFacts
    <3> QED  BY <2>1, <3>2 DEF IInv, WorkerPlaces
  <2>3. InProgress
    BY <2>1, <2>2 DEF InProgress, IInv, TypeOK, QueryState
  <2> QED  BY <1>1, <1>2, <2>1, <2>3, PlaceKeeps
<1>8. CASE ExecuteAsync
  <2>1. Goto(nrun + 1, "start") /\ isNotification' = isNotification /\ nrun < MaxRun
    BY <1>8 DEF ExecuteAsync
  <2>2. nrun + 1 \in Runs /\ nrun + 1 > nrun
    BY <2>1, ConnectionAssumption DEF IInv, TypeOK, Runs
  <2>3. pc[nrun + 1] = "none"
    BY <2>2 DEF IInv, WorkerPlaces
  <2> QED  BY <1>1, <1>2, <2>1, <2>2, <2>3, PlaceKeeps
<1>9. CASE WatchSocketQueued \/ UNCHANGED vars
  <2>1. pc' = pc /\ isNotification' = isNotification
    BY <1>9 DEF WatchSocketQueued, vars
  <2> QED  BY <1>1, <1>2, <2>1, PlaceKeeps
<1>10. ASSUME NEW w \in Runs, CheckExit(w) \/ RunEnded(w) \/ WorkerFinished(w) PROVE PInv'
  <2>1. PICK label \in {"quit", "loop", "gone"} : Goto(w, label)
    BY <1>10 DEF CheckExit, RunEnded, WorkerFinished
  <2>2. pc[w] \in {"check", "loop", "quit"} /\ isNotification' = isNotification
    BY <1>10 DEF CheckExit, RunEnded, WorkerFinished, NextSignal, Looping
  <2> QED  BY <1>1, <1>2, <2>1, <2>2, PlaceKeeps
<1> QED  BY <1>3, <1>4, <1>5, <1>6, <1>7, <1>8, <1>9, <1>10

(* The gui thread writes what is left of the query, or reads of its answer. *)
LEMMA TransferKeeps ==
  ASSUME IInv, PInv, GuiActs, pc[GUI] \in {"flushread", "write", "fetch"},
         Goto(GUI, "idle") \/ Goto(GUI, "flushed") \/ UNCHANGED pc,
         UNCHANGED <<queryState, queryTmp, isNotification>>, UNCHANGED Record,
         link'.st = link.st, link'.run = link.run, link'.txn = link.txn,
         \/ link'.srv = link.srv
         \/ link'.srv = "read" /\ link.srv = "ran"
         \/ link'.srv = "todo" /\ stage = "flush",
         stage' = stage \/ (stage = "flush" /\ stage' = "wait_ready_read"),
         queryFlushed' \in {queryFlushed, TRUE}
  PROVE  PInv'
<1>1. /\ pc'[GUI] \in {"idle", "flushed", pc[GUI]} /\ \A u \in Thread \ {GUI} : pc'[u] = pc[u]
      /\ GUI \in Thread /\ Runs \subseteq Thread /\ GUI \notin Runs
  BY Places, IInvFacts DEF Goto
<1>2. /\ \A t \in Thread : pc[t] \notin {"open", "resend", "dropped", "start"}
      /\ queryState = "Reconnecting" => stage = "connecting"
  BY NobodyDrives DEF DriveAt
<1>3. \A t \in Thread : pc'[t] \notin {"open", "resend", "dropped", "start", "answered"} \/ t # GUI
  BY <1>1, <1>2
<1>4. \A t \in Thread : pc'[t] \notin {"open", "resend", "dropped", "start"}
  BY <1>1, <1>2
<1>5. UNCHANGED <<executed, orphans, verdict>>
  BY DEF Record
<1>6. Connecting'
  BY <1>1, <1>2, <1>4 DEF Connecting, PInv
<1>7. FreeSession'
  BY <1>1 DEF FreeSession, NothingOwed, PInv
<1>8. ByPlace'
  BY <1>1, <1>4 DEF ByPlace, InProgress, PInv
<1>9. Asked'
  BY <1>1, <1>2, <1>5 DEF Asked, InProgress, PInv
<1>10. Answers' /\ Live'
  BY <1>5 DEF Answers, Live, PInv
<1>11. NotReported'
  BY <1>1, <1>5 DEF NotReported, PInv
<1>12. VerdictTrue'
  <2>1. stage = "flush" => link.run = queryTmp /\ verdict[queryTmp] = "none"
    BY DEF PInv, ByPlace, InProgress, Live, IInv, Stages
  <2>2. \A r \in Runs : link'.run = r /\ link'.srv = "todo" =>
           (link.run = r /\ link.srv = "todo") \/ verdict[r] # "notsent"
    BY <2>1
  <2> QED  BY <1>5, <2>2, TruthKept
<1> QED  BY <1>6, <1>7, <1>8, <1>9, <1>10, <1>11, <1>12 DEF PInv

LEMMA TransfersKeep ==
  ASSUME IInv, PInv, Undisturbed,
         \/ WriteWhole \/ WritePart \/ WriteNothing \/ FetchNothing \/ FetchResult
         \/ FlushRead /\ pc'[GUI] = "flushed"
  PROVE  PInv'
<1>1. pc[GUI] \in {"flushread", "write", "fetch"}
  BY DEF WriteWhole, WritePart, WriteNothing, FetchNothing, FetchResult, FlushRead, Write, Fetch
<1>2. GuiActs
  BY <1>1, GuiActing
<1>3. link \in Link
  BY IInvFacts
<1>4. CASE WriteWhole
  <2>1. /\ UNCHANGED <<queryState, queryTmp, isNotification>> /\ UNCHANGED Record
        /\ stage = "flush" /\ stage' = "wait_ready_read" /\ queryFlushed' = TRUE
        /\ Goto(GUI, "idle") /\ link' = Whole(link)
    BY <1>4 DEF WriteWhole, Write, Record
  <2>2. /\ link'.st = link.st /\ link'.run = link.run /\ link'.txn = link.txn
        /\ link'.srv = link.srv \/ link'.srv = "todo"
    BY <1>3, <2>1 DEF Whole, Link
  <2> QED  BY <1>1, <1>2, <2>1, <2>2, TransferKeeps
<1>5. CASE WritePart
  <2>1. /\ UNCHANGED <<queryState, queryTmp, isNotification, stage, queryFlushed>>
        /\ UNCHANGED Record /\ stage = "flush"
        /\ Goto(GUI, "idle") /\ link' \in Partial(link)
    BY <1>5 DEF WritePart, Write, Record
  <2>2. /\ link'.st = link.st /\ link'.run = link.run /\ link'.txn = link.txn
        /\ link'.srv = link.srv \/ link'.srv = "todo"
    BY <1>3, <2>1, PartialFields
  <2> QED  BY <1>1, <1>2, <2>1, <2>2, TransferKeeps
<1>6. CASE WriteNothing
  <2>1. /\ UNCHANGED <<queryState, queryTmp, isNotification, stage, queryFlushed, link>>
        /\ UNCHANGED Record /\ Goto(GUI, "idle")
    BY <1>6 DEF WriteNothing, Write, Record
  <2> QED  BY <1>1, <1>2, <2>1, TransferKeeps
<1>7. CASE FetchNothing
  <2>1. /\ UNCHANGED <<queryState, queryTmp, isNotification, stage, queryFlushed>>
        /\ UNCHANGED Record /\ Goto(GUI, "idle") /\ link' \in Pushed(link)
        /\ link.st \notin {"null", "bad"} /\ pc[GUI] = "fetch"
    BY <1>7 DEF FetchNothing, Fetch, Record, ReadFails
  <2>2. ~link.wire
    BY <1>3, <2>1 DEF IInv, Stages, GuiPlaces, LinkShape, Link
  <2>3. link' = link
    BY <1>3, <2>1, <2>2, PushedFields
  <2> QED  BY <1>1, <1>2, <2>1, <2>3, TransferKeeps
<1>8. CASE FetchResult
  <2>1. /\ UNCHANGED <<queryState, queryTmp, isNotification, stage, queryFlushed, pc>>
        /\ UNCHANGED Record /\ link.srv = "ran" /\ link' = [link EXCEPT !.srv = "read"]
    BY <1>8 DEF FetchResult, Fetch, Record
  <2>2. link'.st = link.st /\ link'.run = link.run /\ link'.txn = link.txn /\ link'.srv = "read"
    BY <1>3, <2>1 DEF Link
  <2> QED  BY <1>1, <1>2, <2>1, <2>2, TransferKeeps
<1>9. CASE FlushRead /\ pc'[GUI] = "flushed"
  <2>1. GUI \in Thread /\ ~LinkLostMidQuery(GUI, link, queryFlushed, resentOnce,
                                            queryState # "Inactive", queryTmp)
    BY <1>9, Places, IInvFacts DEF LinkLostMidQuery, Goto, After
  <2>2. /\ UNCHANGED <<queryState, queryTmp, isNotification, stage, queryFlushed>>
        /\ UNCHANGED Record /\ Goto(GUI, "flushed") /\ link' \in Pushed(link) /\ stage = "flush"
    BY <1>9, <2>1 DEF FlushRead, Record, Undisturbed, IInv, GuiPlaces
  <2>3. /\ link'.st = link.st /\ link'.run = link.run /\ link'.txn = link.txn
        /\ link'.srv = link.srv \/ link'.srv = "todo"
    BY <1>3, <2>2, PushedFields
  <2> QED  BY <1>1, <1>2, <2>2, <2>3, TransferKeeps
<1> QED  BY <1>4, <1>5, <1>6, <1>7, <1>8, <1>9

(* fetch() finds nothing more to read.                                      *)
LEMMA FetchEndPromise ==
  ASSUME IInv, PInv, FetchEnd
  PROVE  PInv'
<1>1. /\ pc[GUI] = "fetch" /\ Goto(GUI, "answered") /\ ~isNotification
      /\ UNCHANGED <<queryState, queryTmp, isNotification, stage, queryFlushed>> /\ UNCHANGED Record
      /\ ~Busy(link) /\ link.st \notin {"null", "bad"}
  BY DEF FetchEnd, Fetch, Record, ReadFails
<1>2. PICK txn \in {"idle", "intrans", "inerror", link.txn} :
         link' = [link EXCEPT !.run = 0, !.srv = "idle", !.txn = txn]
  BY DEF FetchEnd
<1>3. link'.st = link.st /\ link'.run = 0 /\ link'.srv = "idle"
  BY <1>2, IInvFacts DEF Link
<1>4. GuiActs
  BY <1>1, GuiActing
<1>5. /\ \A t \in Thread : pc[t] \notin {"open", "resend", "dropped", "start"}
      /\ queryState = "Reconnecting" => stage = "connecting"
  BY <1>1, <1>4, NobodyDrives DEF DriveAt
<1>6. /\ pc'[GUI] = "answered" /\ \A u \in Thread \ {GUI} : pc'[u] = pc[u]
      /\ GUI \in Thread /\ Runs \subseteq Thread /\ GUI \notin Runs
  BY <1>1, Places, IInvFacts DEF Goto
<1>7. \A t \in Thread : pc'[t] \notin {"open", "resend", "dropped", "start"}
  BY <1>5, <1>6
<1>8. stage # "connecting" /\ link.st = "ok" /\ queryState # "Reconnecting"
  BY <1>1, <1>5, IInvFacts DEF PInv, Connecting, Link
<1>9. UNCHANGED <<executed, orphans, verdict>>
  BY <1>1 DEF Record
<1>10. Connecting'
  BY <1>1, <1>3, <1>7, <1>8 DEF Connecting
<1>11. FreeSession'
  BY <1>1, <1>3, <1>6 DEF FreeSession, NothingOwed, PInv
<1>12. ByPlace'
  BY <1>1, <1>3, <1>6, <1>7 DEF ByPlace, InProgress, PInv
<1>13. Asked'
  <2>1. InProgress => link.run = queryTmp /\ queryTmp # 0
    BY <1>1, <1>5 DEF PInv, Asked, InProgress, IInv, NoRunYet
  <2>2. InProgress => executed[queryTmp] = 1
    BY <1>1, <2>1 DEF Busy, Answer, PInv, Answers
  <2> QED  BY <1>1, <1>6, <1>9, <2>2 DEF Asked, InProgress
<1>14. Answers' /\ Live' /\ NotReported'
  BY <1>1, <1>3, <1>6, <1>9 DEF Answers, Live, NotReported, PInv
<1>15. VerdictTrue'
  BY <1>3, <1>9, TruthKept
<1> QED  BY <1>10, <1>11, <1>12, <1>13, <1>14, <1>15 DEF PInv

(* ... and reports the run as answered: it has been executed.               *)
LEMMA FetchFinishedPromise ==
  ASSUME IInv, PInv, FetchFinished
  PROVE  PInv'
<1>1. /\ pc[GUI] = "answered" /\ Goto(GUI, "idle") /\ stage' = "none"
      /\ UNCHANGED <<queryTmp, isNotification, queryFlushed, link, executed, orphans>>
      /\ EndRun(GUI, "answered")
  BY DEF FetchFinished, server
<1>2. GuiActs
  BY <1>1, GuiActing
<1>3. /\ \A t \in Thread : pc[t] \notin {"open", "resend", "dropped", "start"}
      /\ queryState = "Reconnecting" => stage = "connecting"
  BY <1>1, <1>2, NobodyDrives DEF DriveAt
<1>4. /\ pc'[GUI] = "idle" /\ \A u \in Thread \ {GUI} : pc'[u] = pc[u]
      /\ GUI \in Thread /\ Runs \subseteq Thread /\ GUI \notin Runs
  BY <1>1, Places, IInvFacts DEF Goto
<1>5. \A t \in Thread : pc'[t] \notin {"open", "resend", "dropped", "start"}
  BY <1>3, <1>4
<1>6. /\ stage # "connecting" /\ queryState # "Reconnecting" /\ link.st \notin {"start", "wait"}
      /\ link.run = 0
  BY <1>1, <1>3 DEF PInv, Connecting, ByPlace
<1>7. queryState' = "Inactive"
  BY <1>1 DEF EndRun, Conclude
<1>8. queryState # "Inactive" => InProgress /\ executed[queryTmp] = 1 /\ queryTmp # 0
  BY <1>1, <1>3, <1>6, IInvFacts DEF PInv, Asked, InProgress, IInv, NoRunYet, TypeOK, QueryState
<1>9. verdict' = verdict \/ verdict' = [verdict EXCEPT ![queryTmp] = IF @ = "none" THEN "answered" ELSE @]
  BY <1>1 DEF EndRun, Conclude
<1>10. verdict' # verdict => executed[queryTmp] = 1
  BY <1>1, <1>8 DEF EndRun
<1>11. Connecting'
  BY <1>1, <1>5, <1>6, <1>7 DEF Connecting
<1>12. FreeSession'
  <2>1. link.st = "ok" /\ link.txn # "idle" => queryFlushed
    <3>1. CASE queryState = "Inactive"
      BY <3>1 DEF PInv, FreeSession
    <3>2. CASE queryState # "Inactive"
      <4>1. queryTmp \in Runs
        BY <3>2, <1>8, ConnectionAssumption, IInvFacts DEF Runs
      <4>2. ~Clean(queryTmp)
        BY <1>8, <3>2 DEF Clean
      <4> QED  BY <1>1, <1>8, <3>2, <4>2 DEF IInv, Flushed, Pushing
    <3> QED  BY <3>1, <3>2
  <2> QED  BY <1>1, <1>4, <1>6, <2>1 DEF FreeSession
<1>13. ByPlace' /\ Asked' /\ Live' /\ Answers'
  BY <1>1, <1>4, <1>5, <1>7 DEF ByPlace, Asked, InProgress, Live, Answers, PInv
<1>14. NotReported'
  <2>1. \A r \in Runs : pc[r] = "none" => queryTmp # r
    BY DEF IInv, NotStarted
  <2> QED  BY <1>3, <1>4, <1>9, <2>1, IInvFacts DEF NotReported, PInv
<1>15. VerdictTrue'
  BY <1>1, <1>9, <1>10, TruthKept
<1> QED  BY <1>11, <1>12, <1>13, <1>14, <1>15 DEF PInv
(* An idle link is found lost, and released.                                *)
LEMMA FetchIdleLinkLostPromise ==
  ASSUME IInv, PInv, FetchIdleLinkLost
  PROVE  PInv'
<1>1. /\ pc[GUI] = "fetch" /\ Goto(GUI, "lost") /\ stage' = "none" /\ isNotification
      /\ UNCHANGED <<queryTmp, queryFlushed, executed, orphans>> /\ link' = Broken(link)
      /\ EndRun(GUI, "notsent")
  BY DEF FetchIdleLinkLost, Fetch
<1>2. queryState = "Inactive"
  BY <1>1 DEF PInv, FreeSession, NothingOwed
<1>3. UNCHANGED <<queryState, verdict>>
  BY <1>1, <1>2 DEF EndRun
<1>4. GuiActs
  BY <1>1, GuiActing
<1>5. \A t \in Thread : pc[t] \notin {"open", "resend", "dropped", "start"}
  BY <1>1, <1>4, NobodyDrives DEF DriveAt
<1>6. /\ pc'[GUI] = "lost" /\ \A u \in Thread \ {GUI} : pc'[u] = pc[u]
      /\ GUI \in Thread /\ Runs \subseteq Thread /\ GUI \notin Runs
  BY <1>1, Places, IInvFacts DEF Goto
<1>7. \A t \in Thread : pc'[t] \notin {"open", "resend", "dropped", "start"}
  BY <1>5, <1>6
<1>8. /\ link'.st \in {"null", "bad"} /\ link'.srv = "idle" /\ link'.run = link.run
  <2>1. link.st = "null" => link.srv = "idle"
    BY DEF IInv, LinkShape
  <2> QED  BY <1>1, <2>1, IInvFacts DEF Broken, Link
<1>9. Connecting' /\ FreeSession' /\ ByPlace' /\ Asked' /\ Live' /\ Answers'
  BY <1>1, <1>2, <1>3, <1>6, <1>7, <1>8
     DEF Connecting, FreeSession, ByPlace, Asked, InProgress, Live, Answers
<1>10. NotReported'
  BY <1>3, <1>6 DEF NotReported, PInv
<1>11. VerdictTrue'
  BY <1>1, <1>3, <1>8, TruthKept
<1> QED  BY <1>9, <1>10, <1>11 DEF PInv

LEMMA LinkReleased ==
  ASSUME IInv, PInv, link' = NoLink, orphans' = orphans \cup Orphaned(link), queryState = "Inactive",
         UNCHANGED <<queryState, stage, queryTmp, queryFlushed, executed, verdict>>,
         pc'[GUI] \in {"idle", pc[GUI]}, pc[GUI] \in {"lost", "lostwait"},
         isNotification' = isNotification,
         \A w \in Runs : pc'[w] = pc[w]
  PROVE  PInv'
<1>1. GuiActs
  BY GuiActing
<1>2. \A t \in Thread : pc[t] \notin {"open", "resend", "dropped", "start"}
  BY <1>1, NobodyDrives DEF DriveAt
<1>3. \A t \in Thread : pc'[t] \notin {"open", "resend", "dropped", "start"}
  BY <1>2, Places
<1>4. NoLink.st = "null" /\ NoLink.run = 0 /\ NoLink.srv = "idle"
  BY DEF NoLink, Handle
<1>5. stage = "none"
  BY DEF IInv, GuiPlaces
<1>6. Connecting' /\ FreeSession' /\ ByPlace' /\ Asked' /\ Live' /\ Answers'
  BY <1>3, <1>4, <1>5
     DEF Connecting, FreeSession, ByPlace, Asked, InProgress, Live, Answers
<1>7. NotReported'
  BY DEF NotReported, PInv
<1>8. VerdictTrue'
  BY <1>4, TruthKept DEF Orphaned
<1> QED  BY <1>6, <1>7, <1>8 DEF PInv

LEMMA IdleLinkClosePromise ==
  ASSUME IInv, PInv, IdleLinkClose
  PROVE  PInv'
<1>1. /\ pc[GUI] = "lost" /\ Close("lostwait", "idle")
      /\ UNCHANGED <<queryState, stage, queryFlushed, queryTmp, isNotification, executed, verdict>>
  BY DEF IdleLinkClose
<1>2. queryState = "Inactive"
  BY <1>1 DEF PInv, FreeSession
<1>3. CASE HasWorker
  <2>1. UNCHANGED <<link, orphans>> /\ Goto(GUI, "lostwait")
    BY <1>1, <1>3 DEF Close
  <2>2. pc'[GUI] = "lostwait" /\ \A u \in Thread \ {GUI} : pc'[u] = pc[u] /\ GUI \in Thread
    BY <2>1, Places, IInvFacts DEF Goto
  <2> QED  BY <1>1, <1>2, <2>1, <2>2, Places, PlaceKeeps DEF Session, Record
<1>4. CASE ~HasWorker
  <2>1. CloseLocked(GUI, link) /\ Goto(GUI, "idle")
    BY <1>1, <1>4 DEF Close
  <2>2. pc'[GUI] = "idle" /\ \A w \in Runs : pc'[w] = pc[w]
    BY <2>1, Places, IInvFacts DEF Goto
  <2> QED  BY <1>1, <1>2, <2>1, <2>2, LinkReleased DEF CloseLocked
<1> QED  BY <1>3, <1>4

LEMMA CloseCalledPromise ==
  ASSUME IInv, PInv, NEW w \in Runs, CloseCalled(w)
  PROVE  PInv'
<1>1. workerQueue[w] # <<>> /\ Head(workerQueue[w]) = "close" /\ workerQueue[w] \in Seq(Signal)
  BY IInvFacts DEF CloseCalled, NextSignal, TypeOK
<1>2. 1 \in DOMAIN workerQueue[w] /\ workerQueue[w][1] = "close"
  BY <1>1
<1>3. pc[GUI] = "lostwait"
  BY <1>2 DEF IInv, Signals
<1>4. queryState = "Inactive"
  BY <1>3 DEF PInv, FreeSession
<1>5. /\ CloseLocked(w, link)
      /\ UNCHANGED <<queryState, stage, queryFlushed, queryTmp, pc, isNotification, executed, verdict>>
  BY DEF CloseCalled
<1> QED  BY <1>3, <1>4, <1>5, LinkReleased DEF CloseLocked

LEMMA CancelRequestedPromise ==
  ASSUME IInv, PInv, CancelRequested
  PROVE  PInv'
<1>1. /\ pc[GUI] = "cancelled" /\ Goto(GUI, "idle") /\ queryState' = "Cancelling"
      /\ UNCHANGED <<stage, queryTmp, queryFlushed, link, isNotification, executed, orphans, verdict>>
  BY DEF CancelRequested, server
<1>2. InProgress /\ stage # "connecting"
  BY <1>1 DEF PInv, ByPlace, Connecting
<1>3. /\ pc'[GUI] = "idle" /\ \A u \in Thread \ {GUI} : pc'[u] = pc[u]
      /\ GUI \in Thread /\ Runs \subseteq Thread /\ GUI \notin Runs
  BY <1>1, Places, IInvFacts DEF Goto
<1>4. \A t \in Thread : pc[t] \notin {"open", "dropped"}
  <2> SUFFICES ASSUME NEW t \in Thread, pc[t] \in {"open", "dropped"} PROVE FALSE
    OBVIOUS
  <2>1. t \in Runs /\ Starting(t)
    BY <1>1, Places DEF Starting
  <2> QED  BY <1>1, <2>1 DEF IInv, WorkersAlone, Alone
<1>5. \A t \in Thread : pc'[t] \notin {"open", "dropped"}
  BY <1>3, <1>4
<1>6. Connecting' /\ FreeSession' /\ ByPlace'
  BY <1>1, <1>2, <1>3, <1>5 DEF Connecting, FreeSession, ByPlace, InProgress, PInv
<1>7. Asked'
  BY <1>1, <1>2, <1>4 DEF Asked, InProgress, PInv
<1>8. Live' /\ Answers' /\ NotReported' /\ VerdictTrue'
  BY <1>1, <1>2, <1>3 DEF Live, InProgress, Answers, NotReported, VerdictTrue, PInv
<1> QED  BY <1>6, <1>7, <1>8 DEF PInv

(* A step of the link, with every thread where it was.                      *)
LEMMA LinkStep ==
  ASSUME IInv, PInv, UNCHANGED <<queryState, stage, queryTmp, queryFlushed, pc, isNotification, verdict>>,
         link'.st \in {link.st, "bad"}, link.st = "null" => link'.st = "null",
         link'.run = link.run, link'.txn \in {link.txn, "idle"},
         Answers', \A r \in Runs : verdict[r] = "answered" => executed'[r] = 1,
         \A r \in Runs : verdict[r] = "notsent" =>
            executed'[r] = executed[r] /\ (r \in orphans' => r \in orphans \/ (link.run = r /\ link.srv = "todo"))
            /\ (link'.run = r /\ link'.srv = "todo" => link.run = r /\ link.srv = "todo"),
         queryTmp \in Runs /\ executed'[queryTmp] # 1 => executed[queryTmp] # 1,
         \A t \in Thread : pc[t] = "dropped" => Untouched(queryTmp)'
  PROVE  PInv'
<1>1. Connecting' /\ FreeSession' /\ ByPlace'
  BY DEF Connecting, FreeSession, NothingOwed, ByPlace, InProgress, PInv
<1>2. Asked'
  <2>1. InProgress => queryTmp \in Runs
    BY ConnectionAssumption, IInvFacts DEF InProgress, IInv, NoRunYet, Runs
  <2> QED  BY <2>1 DEF Asked, InProgress, PInv
<1>3. Live' /\ NotReported' /\ VerdictTrue'
  BY DEF Live, NotReported, VerdictTrue, PInv
<1> QED  BY <1>1, <1>2, <1>3 DEF PInv

LEMMA ThreadFinishedPromise ==
  ASSUME IInv, PInv, ThreadFinished
  PROVE  PInv'
<1>1. UNCHANGED <<queryState, stage, queryTmp, queryFlushed, pc, isNotification, verdict, executed, orphans>>
  BY DEF ThreadFinished, members, server
<1>2. /\ link'.st \in {link.st, "bad"} /\ link'.run = link.run /\ link'.txn \in {link.txn, "idle"}
      /\ link'.srv \in {link.srv, "idle"} /\ (link.st = "null" => link'.st = "null")
  BY IInvFacts DEF ThreadFinished, Broken, Link
<1>3. Answers'
  BY <1>1, <1>2 DEF Answers, PInv
<1>4. \A t \in Thread : pc[t] = "dropped" => Untouched(queryTmp)'
  BY <1>1, <1>2 DEF PInv, ByPlace, Untouched
<1> QED  BY <1>1, <1>2, <1>3, <1>4, LinkStep DEF PInv, VerdictTrue

LEMMA EnvironmentPromise ==
  ASSUME IInv, PInv, Environment
  PROVE  PInv'
<1>1. UNCHANGED <<queryState, stage, queryTmp, queryFlushed, pc, isNotification, verdict>>
  BY DEF Environment, ServerExecutes, OrphanExecutes, LinkDies, members
<1>2. link \in Link /\ executed \in [Runs -> Nat]
  BY IInvFacts
<1>3. \A r \in Runs : executed[r] \in {0, 1} /\ (r \in orphans => executed[r] = 0)
  BY DEF IInv, OnceOnly
<1>4. \A t \in Thread : pc[t] = "dropped" => Untouched(queryTmp)
  BY DEF PInv, ByPlace
<1>5. CASE ServerExecutes
  <2>1. /\ link.srv = "todo" /\ link' = [link EXCEPT !.srv = "ran"] /\ orphans' = orphans
        /\ executed' = [executed EXCEPT ![link.run] = executed[link.run] + 1]
    BY <1>5 DEF ServerExecutes
  <2>2. link'.st = link.st /\ link'.run = link.run /\ link'.txn = link.txn /\ link'.srv = "ran"
    BY <1>2, <2>1 DEF Link
  <2>3. link.run \in Runs /\ executed[link.run] = 0
    BY <1>2, <2>1, LinkFields, ConnectionAssumption
       DEF IInv, LinkShape, Undelivered, ToBeExecuted, Runs
  <2>4. executed'[link.run] = 1 /\ \A r \in Runs \ {link.run} : executed'[r] = executed[r]
    BY <1>2, <2>1, <2>3
  <2>5. Answers'
    BY <2>2, <2>4 DEF Answers
  <2>6. \A r \in Runs : verdict[r] = "answered" => executed'[r] = 1
    BY <2>4 DEF PInv, VerdictTrue
  <2>7. verdict[link.run] # "notsent"
    BY <2>1, <2>3 DEF PInv, VerdictTrue
  <2>8. \A t \in Thread : pc[t] = "dropped" => Untouched(queryTmp)'
    <3>1. queryTmp = 0 \/ queryTmp \in Runs
      BY IInvFacts, ConnectionAssumption DEF Runs
    <3>2. queryTmp = 0 => queryState = "Inactive"
      BY DEF IInv, NoRunYet
    <3> QED  BY <1>1, <1>4, <2>1, <2>2, <2>4, <3>1, <3>2 DEF Untouched, PInv, ByPlace
  <2> QED  BY <1>1, <2>1, <2>2, <2>4, <2>5, <2>6, <2>7, <2>8, LinkStep
<1>6. CASE OrphanExecutes
  <2>1. PICK q \in orphans : executed' = [executed EXCEPT ![q] = executed[q] + 1]
                             /\ orphans' = orphans \ {q}
    BY <1>6 DEF OrphanExecutes
  <2>2. link' = link
    BY <1>6 DEF OrphanExecutes
  <2>3. \A r \in Runs : r # q => executed'[r] = executed[r]
    BY <1>2, <2>1
  <2>4. q \in Runs => executed'[q] = 1 /\ executed[q] = 0
    BY <1>2, <1>3, <2>1
  <2>5. \A r \in Runs : verdict[r] = "answered" => executed'[r] = 1
    BY <2>3, <2>4 DEF PInv, VerdictTrue
  <2>6. \A r \in Runs : verdict[r] = "notsent" => r # q
    BY <2>1 DEF PInv, VerdictTrue
  <2>7. Answers'
    <3>1. link.srv \in {"ran", "read"} => link.run \in Runs
      BY <1>2, LinkFields, ConnectionAssumption DEF IInv, LinkShape, Runs
    <3> QED  BY <2>2, <2>3, <2>4, <3>1 DEF Answers, PInv
  <2>8. \A t \in Thread : pc[t] = "dropped" => Untouched(queryTmp)'
    <3>1. queryTmp = 0 \/ queryTmp \in Runs
      BY IInvFacts, ConnectionAssumption DEF Runs
    <3>2. queryTmp = 0 => queryState = "Inactive"
      BY DEF IInv, NoRunYet
    <3> QED  BY <1>1, <1>4, <2>1, <2>2, <2>3, <3>1, <3>2 DEF Untouched, PInv, ByPlace
  <2> QED  BY <1>1, <2>1, <2>2, <2>3, <2>4, <2>5, <2>6, <2>7, <2>8, LinkStep
<1>7. CASE LinkDies
  <2>1. PICK srv \in {link.srv, "idle"} \ {"todo"} : link' = [link EXCEPT !.up = FALSE, !.srv = srv]
    BY <1>7 DEF LinkDies
  <2>2. /\ link'.st = link.st /\ link'.run = link.run /\ link'.txn = link.txn
        /\ link'.srv # "todo" /\ link'.srv \in {link.srv, "idle"}
    BY <1>2, <2>1 DEF Link
  <2>3. executed' = executed /\ orphans' = orphans \cup Orphaned(link)
    BY <1>7 DEF LinkDies
  <2>4. \A r : r \in orphans' => r \in orphans \/ (link.run = r /\ link.srv = "todo")
    BY <2>3 DEF Orphaned
  <2>5. Answers'
    BY <2>2, <2>3 DEF Answers, PInv
  <2>6. \A t \in Thread : pc[t] = "dropped" => Untouched(queryTmp)'
    BY <1>1, <1>4, <2>2, <2>3, <2>4 DEF Untouched
  <2>7. \A r \in Runs : verdict[r] = "answered" => executed'[r] = 1
    BY <2>3 DEF PInv, VerdictTrue
  <2> QED  BY <1>1, <2>2, <2>3, <2>4, <2>5, <2>6, <2>7, LinkStep
<1> QED  BY <1>5, <1>6, <1>7 DEF Environment

-----------------------------------------------------------------------------
(* The link is lost under a run in progress: the run goes on with a new     *)
(* link, or its end is reported as unknown.                                 *)
LEMMA LinkLostPromise ==
  ASSUME IInv, PInv, NEW t \in Thread, NEW l \in Link, NEW flushed, NEW resent, NEW live,
         LinkLostMidQuery(t, l, flushed, resent, live, queryTmp'),
         \A u \in Thread \ {t} : pc[u] \notin {"open", "resend", "dropped", "start"},
         \A u \in Thread \ {t} : u = GUI => pc[u] = "idle",
         executed' = executed, queryTmp' \in Runs, IInv',
         ~flushed => verdict[queryTmp'] = "none",
         l.run = link.run \/ l.run = queryTmp', l.srv = link.srv \/ l.run = queryTmp',
         l.run = queryTmp' => l.srv # "todo" \/ verdict[l.run] # "notsent",
         l.srv = "todo" /\ l.run # queryTmp' => verdict[l.run] # "notsent",
         \A r \in Runs : pc[r] \in {"none", "start"} => r = t \/ queryTmp' # r
  PROVE  PInv'
<1>1. CASE Resendable(l, flushed, resent)
  <2>1. /\ stage' = "none" /\ queryState' = "Reconnecting" /\ verdict' = verdict
        /\ CloseLocked(t, l) /\ Goto(t, "open") /\ ~flushed
    BY <1>1 DEF LinkLostMidQuery, SetState, Resendable
  <2>2. /\ pc'[t] = "open" /\ \A u \in Thread \ {t} : pc'[u] = pc[u]
        /\ GUI \in Thread /\ Runs \subseteq Thread /\ GUI \notin Runs
    BY <2>1, Places, IInvFacts DEF Goto
  <2>3. link' = NoLink /\ orphans' = orphans \cup Orphaned(l)
    BY <2>1 DEF CloseLocked
  <2>4. link'.st = "null" /\ link'.run = 0 /\ link'.srv = "idle"
    BY <2>3 DEF NoLink, Handle
  <2>5. Connecting' /\ FreeSession'
    BY <2>1, <2>2, <2>4 DEF Connecting, FreeSession
  <2>6. ByPlace' /\ Asked' /\ Answers' /\ Live'
    BY <2>1, <2>2, <2>4 DEF ByPlace, Asked, InProgress, Answers, Live
  <2>7. NotReported'
    BY <2>1, <2>2 DEF NotReported, PInv
  <2>8. VerdictTrue'
    BY <2>1, <2>3, <2>4, TruthKept DEF Orphaned
  <2> QED  BY <2>5, <2>6, <2>7, <2>8 DEF PInv
<1>2. CASE ~Resendable(l, flushed, resent)
  <2>1. /\ stage' = "none" /\ queryState' = "Inactive" /\ Goto(t, After(t))
        /\ link' = Broken(l) /\ orphans' = orphans \cup Orphaned(l)
        /\ \/ verdict' = verdict
           \/ verdict' = [verdict EXCEPT ![queryTmp'] = IF @ = "none" THEN "unknown" ELSE @]
    BY <1>2 DEF LinkLostMidQuery, SetState, Conclude
  <2>2. /\ pc'[t] = After(t) /\ \A u \in Thread \ {t} : pc'[u] = pc[u]
        /\ GUI \in Thread /\ Runs \subseteq Thread /\ GUI \notin Runs
    BY <2>1, Places, IInvFacts DEF Goto
  <2>3. pc'[t] \in {"idle", "check"}
    BY <2>2 DEF After
  <2>4. link'.st \in {"null", "bad"} /\ (link'.st = "bad" => link'.srv = "idle")
        /\ (link'.st = "null" => link' = l)
    BY <2>1 DEF Broken, Link
  <2>5. link'.srv = "idle"
    <3>1. IInv'
      OBVIOUS
    <3> QED  BY <2>4, <3>1 DEF IInv, LinkShape
  <2>6. Connecting' /\ FreeSession'
    BY <2>1, <2>2, <2>3, <2>4 DEF Connecting, FreeSession
  <2>7. ByPlace' /\ Asked' /\ Answers' /\ Live'
    BY <2>1, <2>2, <2>3, <2>5 DEF ByPlace, Asked, InProgress, Answers, Live
  <2>8. NotReported'
    BY <2>1, <2>2, <2>3, IInvFacts DEF NotReported, PInv
  <2>9. VerdictTrue'
    BY <2>1, <2>5, TruthKept DEF Orphaned
  <2> QED  BY <2>6, <2>7, <2>8, <2>9 DEF PInv
<1> QED  BY <1>1, <1>2

LEMMA LinkLostInGuiPromise ==
  ASSUME IInv, PInv, IInv',
         \/ FlushRead /\ LinkLostMidQuery(GUI, link, queryFlushed, resentOnce,
                                          queryState # "Inactive", queryTmp)
         \/ WriteFailed \/ FetchLinkLost
  PROVE  PInv'
<1>1. /\ pc[GUI] \in {"flushread", "write", "fetch"}
      /\ UNCHANGED <<queryTmp, executed>>
      /\ LinkLostMidQuery(GUI, link, queryFlushed, resentOnce, queryState # "Inactive", queryTmp)
  BY DEF FlushRead, WriteFailed, FetchLinkLost, Write, Fetch
<1>2. GuiActs
  BY <1>1, GuiActing
<1>3. \A u \in Thread : pc[u] \notin {"open", "resend", "dropped", "start"}
  BY <1>1, <1>2, NobodyDrives DEF DriveAt
<1>4. queryTmp \in Runs /\ (~queryFlushed => verdict[queryTmp] = "none")
  <2>1. CASE FlushRead \/ WriteFailed
    <3>1. stage = "flush"
      BY <2>1 DEF FlushRead, WriteFailed, IInv, GuiPlaces
    <3>2. queryTmp # 0 /\ verdict[queryTmp] = "none"
      BY <3>1 DEF IInv, Stages, PInv, ByPlace, InProgress, Live
    <3> QED  BY <3>2, IInvFacts, ConnectionAssumption DEF Runs
  <2>2. CASE FetchLinkLost
    <3>1. pc[GUI] = "fetch" /\ ~isNotification
      BY <2>2 DEF FetchLinkLost, Fetch
    <3>2. queryTmp # 0
      BY <3>1 DEF IInv, NoRunYet
    <3>3. ~queryFlushed => verdict[queryTmp] = "none"
      BY <3>1 DEF PInv, FreeSession, NothingOwed, Live
    <3> QED  BY <3>2, <3>3, IInvFacts, ConnectionAssumption DEF Runs
  <2> QED  BY <1>1, <2>1, <2>2
<1>5. \A r \in Runs : link.run = r /\ link.srv = "todo" => verdict[r] # "notsent"
  BY DEF PInv, VerdictTrue
<1>6. link.srv = "todo" => link.run \in Runs
  BY IInvFacts, LinkFields, ConnectionAssumption DEF IInv, LinkShape, Runs
<1>7. LinkLostMidQuery(GUI, link, queryFlushed, resentOnce, queryState # "Inactive", queryTmp')
  BY <1>1
<1>8. GUI \in Thread /\ \A r \in Runs : pc[r] \in {"none", "start"} => queryTmp' # r
  BY <1>1, Places DEF IInv, NotStarted
<1> QED  BY <1>1, <1>3, <1>4, <1>5, <1>6, <1>7, <1>8, IInvFacts, LinkLostPromise

(* A thread that starts a query is the only one to drive the connection,    *)
(* and nothing has been reported of the run.                                *)
LEMMA OnlyDriver ==
  ASSUME IInv, PInv, NEW t \in Thread, pc[t] \in DriveAt \cup {"start"}
  PROVE  \A u \in Thread \ {t} : /\ pc[u] \notin {"open", "resend", "dropped", "start"}
                                 /\ u = GUI => pc[u] = "idle"
<1> SUFFICES ASSUME NEW u \in Thread \ {t}
             PROVE  /\ pc[u] \notin {"open", "resend", "dropped", "start"}
                    /\ u = GUI => pc[u] = "idle"
  OBVIOUS
<1>1. CASE t \in Runs
  <2>1. Starting(t) /\ queryThread = t /\ pc[GUI] = "idle"
    BY <1>1, IInvFacts DEF Starting, DriveAt, IInv, WorkersAlone, Alone
  <2>2. u \in Runs => ~Starting(u) /\ pc[u] # "resend"
    BY <2>1 DEF IInv, WorkersAlone, WorkerPlaces
  <2> QED  BY <2>1, <2>2, Places DEF Starting
<1>2. CASE t = GUI
  <2>1. pc[GUI] # "idle" /\ u \in Runs
    BY <1>2, Places, IInvFacts DEF DriveAt, GuiAt
  <2>2. ~Starting(u) /\ pc[u] # "resend"
    BY <2>1 DEF IInv, WorkersAlone, WorkerPlaces, Alone
  <2> QED  BY <2>1, <2>2, Places DEF Starting
<1> QED  BY <1>1, <1>2, Places

LEMMA TextUnreported ==
  ASSUME IInv, PInv, NEW t \in Thread, RunQueryBegins(t)
  PROVE  /\ verdict[TextOf(t)] = "none" /\ queryTmp' = TextOf(t) /\ executed' = executed
         /\ TextOf(t) \in Runs /\ Untouched(TextOf(t))
         /\ pc[t] \in {"start", "resend"}
         /\ \A u \in Thread \ {t} : /\ pc[u] \notin {"open", "resend", "dropped", "start"}
                                    /\ u = GUI => pc[u] = "idle"
         /\ \A r \in Runs : pc[r] \in {"none", "start"} => r = t \/ TextOf(t) # r
<1>1. /\ queryTmp' = TextOf(t) /\ executed' = executed /\ TextOf(t) \in Runs /\ Untouched(TextOf(t))
      /\ \A r \in Runs : r # t /\ pc[r] \in {"none", "start"} => TextOf(t) # r
  BY RunQueryText
<1>2. pc[t] \in {"start", "resend"}
  BY DEF RunQueryBegins, RunQuery
<1>3. verdict[TextOf(t)] = "none"
  <2>1. CASE pc[t] = "start"
    <3>1. t \in Runs /\ TextOf(t) = t
      BY <2>1, Places, IInvFacts DEF GuiAt, DriveAt, TextOf, Fresh
    <3> QED  BY <2>1, <3>1 DEF PInv, NotReported
  <2>2. CASE pc[t] = "resend"
    <3>1. t = GUI /\ TextOf(t) = queryTmp
      BY <2>2, Places, IInvFacts DEF TextOf, Fresh
    <3>2. queryState = "Reconnecting"
      BY <2>2, <3>1 DEF IInv, GuiPlaces
    <3> QED  BY <3>1, <3>2 DEF PInv, Live
  <2> QED  BY <1>2, <2>1, <2>2
<1> QED  BY <1>1, <1>2, <1>3, OnlyDriver DEF DriveAt

LEMMA RunQueryNoLinkPromise ==
  ASSUME IInv, PInv, NEW t \in Thread, RunQueryNoLink(t)
  PROVE  PInv'
<1>1. /\ verdict[TextOf(t)] = "none" /\ queryTmp' = TextOf(t) /\ executed' = executed
      /\ TextOf(t) \in Runs /\ Untouched(TextOf(t)) /\ pc[t] \in {"start", "resend"}
      /\ \A u \in Thread \ {t} : /\ pc[u] \notin {"open", "resend", "dropped", "start"}
                                 /\ u = GUI => pc[u] = "idle"
      /\ \A r \in Runs : pc[r] \in {"none", "start"} => r = t \/ TextOf(t) # r
  BY TextUnreported DEF RunQueryNoLink
<1>2. /\ verdict' = verdict /\ stage' = "none"
      /\ \/ queryState' = "Running" /\ Goto(t, "dropped")
         \/ queryState' = "Reconnecting" /\ Goto(t, "open")
  BY DEF RunQueryNoLink, SetState
<1>3. PICK label \in {"dropped", "open"} :
         /\ pc'[t] = label /\ \A u \in Thread \ {t} : pc'[u] = pc[u]
         /\ queryState' = IF label = "dropped" THEN "Running" ELSE "Reconnecting"
  BY <1>2, IInvFacts, Moves
<1>4. GUI \in Thread /\ Runs \subseteq Thread /\ GUI \notin Runs
  BY Places
<1>5. /\ link'.st = "null" /\ link'.run = 0 /\ link'.srv = "idle"
      /\ \A r \in Runs : r \in orphans' => r \in orphans \/ (link.run = r /\ link.srv = "todo")
  <2>1. CASE link.st = "null"
    BY <2>1, IInvFacts DEF RunQueryNoLink, IInv, LinkShape
  <2>2. CASE link.st # "null"
    BY <2>2 DEF RunQueryNoLink, CloseLocked, NoLink, Handle, Orphaned
  <2> QED  BY <2>1, <2>2
<1>6. Connecting' /\ FreeSession'
  BY <1>1, <1>2, <1>3, <1>4, <1>5 DEF Connecting, FreeSession
<1>7. ByPlace'
  BY <1>1, <1>2, <1>3, <1>4, <1>5 DEF ByPlace, InProgress, Untouched, Runs
<1>8. Asked' /\ Answers' /\ Live'
  BY <1>1, <1>2, <1>3, <1>4, <1>5 DEF Asked, InProgress, Answers, Live
<1>9. NotReported'
  BY <1>1, <1>2, <1>3, <1>4 DEF NotReported, PInv
<1>10. VerdictTrue'
  BY <1>1, <1>2, <1>5, TruthKept
<1> QED  BY <1>6, <1>7, <1>8, <1>9, <1>10 DEF PInv

(* libpq does not refuse: a run starts on a free session.                   *)
LEMMA RunQueryNotRefused ==
  ASSUME IInv, PInv, Unrefused, NEW t \in Thread, RunQueryRefused(t)
  PROVE  FALSE
<1>1. RunQueryBegins(t) /\ (link.st \in {"start", "wait"} \/ (link.st = "ok" /\ link.run # 0))
  BY DEF RunQueryRefused, Unrefused
<1>2. CASE pc[t] = "start"
  <2>1. t \in Runs
    BY <1>2, Places, IInvFacts DEF GuiAt, DriveAt
  <2>2. queryState = "Inactive"
    BY <1>2, <2>1 DEF IInv, WorkerPlaces
  <2> QED  BY <1>1, <2>2 DEF PInv, Connecting, FreeSession
<1>3. CASE pc[t] = "resend"
  <2>1. t = GUI
    BY <1>3, Places, IInvFacts
  <2> QED  BY <1>1, <1>3, <2>1 DEF IInv, GuiPlaces
<1> QED  BY <1>1, <1>2, <1>3 DEF RunQueryBegins, RunQuery

LEMMA RunQuerySentPromise ==
  ASSUME IInv, PInv, NEW t \in Thread, RunQuerySent(t)
  PROVE  PInv'
<1>1. /\ verdict[TextOf(t)] = "none" /\ queryTmp' = TextOf(t) /\ executed' = executed
      /\ TextOf(t) \in Runs /\ pc[t] \in {"start", "resend"}
      /\ \A u \in Thread \ {t} : /\ pc[u] \notin {"open", "resend", "dropped", "start"}
                                 /\ u = GUI => pc[u] = "idle"
      /\ \A r \in Runs : pc[r] \in {"none", "start"} => r = t \/ TextOf(t) # r
  BY TextUnreported DEF RunQuerySent
<1>2. /\ queryState' = "Running" /\ verdict' = verdict /\ orphans' = orphans
      /\ stage' \in {"wait_ready_read", "flush"} /\ Goto(t, After(t))
      /\ link.st = "ok" /\ link.run = 0
  BY DEF RunQuerySent, SetState
<1>3. /\ pc'[t] \in {"idle", "check"} /\ \A u \in Thread \ {t} : pc'[u] = pc[u]
      /\ GUI \in Thread /\ Runs \subseteq Thread /\ GUI \notin Runs
  BY <1>2, IInvFacts, Moves, Places DEF After
<1>4. link'.st = "ok" /\ link'.run = TextOf(t) /\ link'.srv \in {"idle", "todo"}
  <2>1. /\ HandedOver(t) \in Link /\ HandedOver(t).st = "ok" /\ HandedOver(t).run = TextOf(t)
        /\ HandedOver(t).srv = "idle"
    <3>1. link.srv = "idle" /\ TextOf(t) \in 0..MaxRun
      BY <1>1, <1>2 DEF IInv, LinkShape, Runs
    <3>2. HandedOver(t) \in Link
      BY <3>1, IInvFacts, LinkOperators DEF HandedOver
    <3> QED  BY <1>2, <3>1, <3>2, IInvFacts DEF HandedOver, Link
  <2>2. link' = Whole(HandedOver(t)) \/ link' \in Partial(HandedOver(t))
    BY DEF RunQuerySent
  <2>3. Whole(HandedOver(t)).st = "ok" /\ Whole(HandedOver(t)).run = TextOf(t)
        /\ Whole(HandedOver(t)).srv \in {"idle", "todo"}
    BY <2>1 DEF Whole, Link
  <2> QED  BY <2>1, <2>2, <2>3, PartialFields
<1>5. Connecting' /\ FreeSession' /\ ByPlace'
  BY <1>1, <1>2, <1>3, <1>4 DEF Connecting, FreeSession, ByPlace, InProgress
<1>6. Asked' /\ Answers' /\ Live'
  BY <1>1, <1>2, <1>3, <1>4 DEF Asked, Answers, Live
<1>7. NotReported'
  BY <1>2, <1>3 DEF NotReported, PInv
<1>8. VerdictTrue'
  BY <1>1, <1>2, <1>4, TruthKept
<1> QED  BY <1>5, <1>6, <1>7, <1>8 DEF PInv

LEMMA RunQueryWriteFailedPromise ==
  ASSUME IInv, PInv, IInv', NEW t \in Thread, RunQueryWriteFailed(t)
  PROVE  PInv'
<1>1. /\ verdict[TextOf(t)] = "none" /\ queryTmp' = TextOf(t) /\ executed' = executed
      /\ TextOf(t) \in Runs /\ pc[t] \in {"start", "resend"}
      /\ \A u \in Thread \ {t} : /\ pc[u] \notin {"open", "resend", "dropped", "start"}
                                 /\ u = GUI => pc[u] = "idle"
      /\ \A r \in Runs : pc[r] \in {"none", "start"} => r = t \/ TextOf(t) # r
  BY TextUnreported DEF RunQueryWriteFailed
<1>2. PICK l \in {HandedOver(t), [HandedOver(t) EXCEPT !.srv = "todo"]} :
         LinkLostMidQuery(t, l, TextOf(t) \in Params, Resent(t), TRUE, TextOf(t))
  BY DEF RunQueryWriteFailed
<1>3. l \in Link /\ l.run = TextOf(t)
  <2>1. HandedOver(t) \in Link /\ HandedOver(t).run = TextOf(t)
    <3>1. TextOf(t) \in 0..MaxRun
      BY <1>1 DEF Runs
    <3> QED  BY <3>1, IInvFacts, LinkOperators DEF HandedOver, Link
  <2> QED  BY <1>2, <2>1 DEF Link
<1>4. LinkLostMidQuery(t, l, TextOf(t) \in Params, Resent(t), TRUE, queryTmp')
  BY <1>1, <1>2
<1> QED  BY <1>1, <1>3, <1>4, LinkLostPromise

LEMMA TransactionLostPromise ==
  ASSUME IInv, PInv, NEW t \in Thread, TransactionLost(t)
  PROVE  PInv'
<1>1. /\ pc[t] = "dropped" /\ Goto(t, After(t)) /\ EndRun(t, "notsent")
      /\ UNCHANGED <<stage, queryTmp, link, executed, orphans>>
  BY DEF TransactionLost, server
<1>2. queryState = "Running" /\ Untouched(queryTmp)
  BY <1>1 DEF PInv, ByPlace
<1>3. \A u \in Thread \ {t} : /\ pc[u] \notin {"open", "resend", "dropped", "start"}
                              /\ u = GUI => pc[u] = "idle"
  BY <1>1, OnlyDriver DEF DriveAt
<1>4. /\ queryState' = "Inactive"
      /\ verdict' = [verdict EXCEPT ![queryTmp] = IF @ = "none" THEN "notsent" ELSE @]
  BY <1>1, <1>2 DEF EndRun, Conclude
<1>5. /\ pc'[t] \in {"idle", "check"} /\ \A u \in Thread \ {t} : pc'[u] = pc[u]
      /\ GUI \in Thread /\ Runs \subseteq Thread /\ GUI \notin Runs
  BY <1>1, IInvFacts, Moves, Places DEF After
<1>6. stage = "none" /\ link.st = "null"
  BY <1>1 DEF PInv, ByPlace
<1>7. Connecting' /\ FreeSession' /\ ByPlace'
  BY <1>1, <1>3, <1>4, <1>5, <1>6 DEF Connecting, FreeSession, ByPlace
<1>8. Asked' /\ Answers' /\ Live'
  BY <1>1, <1>4 DEF Asked, InProgress, Answers, Live, PInv
<1>9. NotReported'
  <2>1. \A r \in Runs : pc[r] = "none" => queryTmp # r
    BY DEF IInv, NotStarted
  <2> QED  BY <1>3, <1>4, <1>5, <2>1, IInvFacts DEF NotReported, PInv
<1>10. VerdictTrue'
  BY <1>1, <1>2, <1>4, TruthKept DEF Untouched
<1> QED  BY <1>7, <1>8, <1>9, <1>10 DEF PInv

(* A link is opened again only for a run of which the server has nothing.   *)
LEMMA OpenAsyncPromise ==
  ASSUME IInv, PInv, NEW t \in Thread, OpenAsync(t)
  PROVE  PInv'
<1>1. pc[t] = "open" /\ UNCHANGED <<queryTmp, executed, queryFlushed>>
  BY DEF OpenAsync
<1>2. queryState = "Reconnecting" /\ Untouched(queryTmp) /\ verdict[queryTmp] = "none"
  BY <1>1 DEF PInv, Connecting, Live, IInv, Resending
<1>3. \A u \in Thread \ {t} : /\ pc[u] \notin {"open", "resend", "dropped", "start"}
                              /\ u = GUI => pc[u] = "idle"
  BY <1>1, OnlyDriver DEF DriveAt
<1>4. link.st = "null" /\ link.srv = "idle" /\ link.run = 0
  <2>1. CASE t = GUI
    BY <1>1, <2>1 DEF IInv, GuiPlaces, LinkShape
  <2>2. CASE t \in Runs
    BY <1>1, <2>2 DEF IInv, WorkerPlaces, LinkShape
  <2> QED  BY <2>1, <2>2, Places
<1>5. stage # "flush" /\ stage # "connecting"
  BY <1>4 DEF IInv, Stages
<1>6. GUI \in Thread /\ Runs \subseteq Thread /\ GUI \notin Runs
  BY Places
<1>7. /\ NewLink("start").st = "start" /\ NewLink("start").run = 0 /\ NewLink("start").srv = "idle"
      /\ NoLink.st = "null" /\ NoLink.run = 0 /\ NoLink.srv = "idle"
  BY DEF NewLink, NoLink, Handle
<1>8. CASE /\ link' = NewLink("start") /\ stage' = "connecting" /\ Goto(t, "poll")
           /\ UNCHANGED <<queryState, verdict>> /\ orphans' = orphans
  <2>1. pc'[t] = "poll" /\ \A u \in Thread \ {t} : pc'[u] = pc[u]
    BY <1>8, IInvFacts, Moves
  <2>2. Connecting' /\ FreeSession' /\ ByPlace'
    BY <1>2, <1>3, <1>6, <1>7, <1>8, <2>1 DEF Connecting, FreeSession, ByPlace
  <2>3. Asked' /\ Answers' /\ Live' /\ NotReported'
    BY <1>1, <1>2, <1>6, <1>7, <1>8, <2>1 DEF Asked, InProgress, Answers, Live, NotReported, PInv
  <2>4. VerdictTrue'
    BY <1>1, <1>7, <1>8, TruthKept
  <2> QED  BY <2>2, <2>3, <2>4 DEF PInv
<1>9. CASE /\ EndRun(t, "notsent") /\ Goto(t, After(t)) /\ link' \in {link, NoLink}
           /\ UNCHANGED <<stage, orphans>>
  <2>1. /\ pc'[t] \in {"idle", "check"} /\ \A u \in Thread \ {t} : pc'[u] = pc[u]
    BY <1>9, IInvFacts, Moves DEF After
  <2>2. /\ queryState' = "Inactive" /\ link'.st = "null" /\ link'.srv = "idle" /\ link'.run = 0
        /\ verdict' = [verdict EXCEPT ![queryTmp] = IF @ = "none" THEN "notsent" ELSE @]
    BY <1>2, <1>4, <1>7, <1>9 DEF EndRun, Conclude
  <2>3. Connecting' /\ FreeSession' /\ ByPlace'
    BY <1>3, <1>5, <1>6, <1>9, <2>1, <2>2 DEF Connecting, FreeSession, ByPlace
  <2>4. Asked' /\ Answers' /\ Live'
    BY <2>2 DEF Asked, InProgress, Answers, Live
  <2>5. NotReported'
    <3>1. \A r \in Runs : pc[r] = "none" => queryTmp # r
      BY DEF IInv, NotStarted
    <3> QED  BY <1>3, <1>6, <2>1, <2>2, <3>1, IInvFacts DEF NotReported, PInv
  <2>6. VerdictTrue'
    <3>1. queryTmp \in Runs => queryTmp # 0
      BY DEF Runs
    <3> QED  BY <1>1, <1>2, <1>9, <2>2, <3>1, TruthKept DEF Untouched
  <2> QED  BY <2>3, <2>4, <2>5, <2>6 DEF PInv
<1>10. /\ link' = NewLink("start") /\ stage' = "connecting" /\ Goto(t, "poll")
          /\ UNCHANGED <<queryState, verdict>> /\ orphans' = orphans
       \/ /\ EndRun(t, "notsent") /\ Goto(t, After(t)) /\ link' \in {link, NoLink}
          /\ UNCHANGED <<stage, orphans>>
  <2>1. Orphaned(link) = {}
    BY <1>4 DEF Orphaned
  <2> QED  BY <1>2, <1>4, <2>1 DEF OpenAsync
<1> QED  BY <1>8, <1>9, <1>10

LEMMA PollPromise ==
  ASSUME IInv, PInv, NEW t \in Thread, PollAgain(t) \/ PollFailed(t) \/ PollOk(t)
  PROVE  PInv'
<1>1. pc[t] = "poll" /\ UNCHANGED <<queryTmp, executed, orphans, queryFlushed>>
  BY DEF PollAgain, PollFailed, PollOk, Poll, server
<1>2. stage = "connecting"
  <2>1. CASE t = GUI
    BY <1>1, <2>1 DEF IInv, GuiPlaces
  <2>2. CASE t \in Runs
    BY <1>1, <2>2 DEF IInv, WorkerPlaces
  <2> QED  BY <2>1, <2>2, Places
<1>3. /\ queryState = "Reconnecting" /\ Untouched(queryTmp) /\ verdict[queryTmp] = "none"
      /\ link.st \in {"start", "wait"} /\ link.run = 0 /\ link.srv = "idle"
      /\ pc[GUI] \notin {"enter", "fetch", "answered", "write", "cancelled"}
  BY <1>2 DEF PInv, Connecting, Live, IInv, Resending, Stages, LinkShape
<1>4. \A u \in Thread \ {t} : /\ pc[u] \notin {"open", "resend", "dropped", "start"}
                              /\ u = GUI => pc[u] = "idle"
  BY <1>1, OnlyDriver DEF DriveAt
<1>5. GUI \in Thread /\ Runs \subseteq Thread /\ GUI \notin Runs /\ link \in Link
  BY Places, IInvFacts
<1>6. CASE PollAgain(t)
  <2>1. /\ link' = [link EXCEPT !.st = "wait"] /\ Goto(t, After(t))
        /\ UNCHANGED <<queryState, verdict, stage>>
    BY <1>6 DEF PollAgain
  <2>2. link'.st = "wait" /\ link'.run = 0 /\ link'.srv = "idle"
    BY <1>3, <1>5, <2>1 DEF Link
  <2>3. pc'[t] \in {"idle", "check"} /\ \A u \in Thread \ {t} : pc'[u] = pc[u]
    BY <2>1, IInvFacts, Moves DEF After
  <2>4. Connecting' /\ FreeSession' /\ ByPlace'
    BY <1>2, <1>3, <1>4, <1>5, <2>1, <2>2, <2>3 DEF Connecting, FreeSession, ByPlace
  <2>5. Asked' /\ Answers' /\ Live' /\ NotReported'
    BY <1>1, <1>3, <1>5, <2>1, <2>2, <2>3 DEF Asked, InProgress, Answers, Live, NotReported, PInv
  <2>6. VerdictTrue'
    BY <1>1, <2>1, <2>2, TruthKept
  <2> QED  BY <2>4, <2>5, <2>6 DEF PInv
<1>7. CASE PollFailed(t)
  <2>1. /\ link' = Broken(link) /\ Goto(t, After(t)) /\ stage' = "none" /\ EndRun(t, "notsent")
    BY <1>7 DEF PollFailed
  <2>2. link'.st = "bad" /\ link'.run = 0 /\ link'.srv = "idle"
    BY <1>3, <1>5, <2>1 DEF Broken, Link
  <2>3. pc'[t] \in {"idle", "check"} /\ \A u \in Thread \ {t} : pc'[u] = pc[u]
    BY <2>1, IInvFacts, Moves DEF After
  <2>4. /\ queryState' = "Inactive"
        /\ verdict' = [verdict EXCEPT ![queryTmp] = IF @ = "none" THEN "notsent" ELSE @]
    BY <1>3, <2>1 DEF EndRun, Conclude
  <2>5. Connecting' /\ FreeSession' /\ ByPlace'
    BY <1>4, <1>5, <2>1, <2>2, <2>3, <2>4 DEF Connecting, FreeSession, ByPlace
  <2>6. Asked' /\ Answers' /\ Live'
    BY <2>2, <2>4 DEF Asked, InProgress, Answers, Live
  <2>7. NotReported'
    <3>1. \A r \in Runs : pc[r] = "none" => queryTmp # r
      BY DEF IInv, NotStarted
    <3> QED  BY <1>4, <1>5, <2>3, <2>4, <3>1, IInvFacts DEF NotReported, PInv
  <2>8. VerdictTrue'
    <3>1. queryTmp \in Runs => queryTmp # 0
      BY DEF Runs
    <3> QED  BY <1>1, <1>3, <2>2, <2>4, <3>1, TruthKept DEF Untouched
  <2> QED  BY <2>5, <2>6, <2>7, <2>8 DEF PInv
<1>8. CASE PollOk(t)
  <2>1. /\ link' = [link EXCEPT !.st = "ok"] /\ stage' = "none" /\ Goto(t, "resend")
        /\ UNCHANGED <<queryState, verdict>>
    BY <1>3, <1>8 DEF PollOk
  <2>2. link'.st = "ok" /\ link'.run = 0 /\ link'.srv = "idle"
    BY <1>3, <1>5, <2>1 DEF Link
  <2>3. pc'[t] = "resend" /\ \A u \in Thread \ {t} : pc'[u] = pc[u]
    BY <2>1, IInvFacts, Moves
  <2>4. Connecting' /\ FreeSession' /\ ByPlace'
    BY <1>3, <1>4, <1>5, <2>1, <2>2, <2>3 DEF Connecting, FreeSession, ByPlace
  <2>5. Asked' /\ Answers' /\ Live' /\ NotReported'
    BY <1>1, <1>3, <1>5, <2>1, <2>2, <2>3 DEF Asked, InProgress, Answers, Live, NotReported, PInv
  <2>6. VerdictTrue'
    BY <1>1, <2>1, <2>2, TruthKept
  <2> QED  BY <2>4, <2>5, <2>6 DEF PInv
<1> QED  BY <1>6, <1>7, <1>8

-----------------------------------------------------------------------------
LEMMA PromiseInitially ==
  ASSUME Init
  PROVE  PInv
<1>1. /\ queryState = "Inactive" /\ stage = "none" /\ executed = [r \in Runs |-> 0]
      /\ verdict = [r \in Runs |-> "none"] /\ pc[GUI] = "idle" /\ \A w \in Runs : pc[w] = "none"
      /\ link \in {NoLink, NewLink("ok")}
  BY Places DEF Init
<1>2. link.st \in {"null", "ok"} /\ link.run = 0 /\ link.srv = "idle" /\ link.txn = "idle"
  BY <1>1 DEF NoLink, NewLink, Handle
<1>3. \A t \in Thread : pc[t] \notin {"open", "dropped"}
  BY <1>1, Places
<1> QED
  BY <1>1, <1>2, <1>3 DEF PInv, Connecting, FreeSession, NothingOwed, ByPlace, Asked, InProgress,
     Answers, Live, NotReported, VerdictTrue

LEMMA PromiseInductive ==
  ASSUME Unrefused, IInv, PInv, [Next]_vars
  PROVE  PInv'
<1>1. Undisturbed /\ IInv'
  BY InvariantInductive DEF Unrefused
<1>2. CASE User
  <2>1. ~SwitchDatabase /\ ~CancelByClosing
    BY <1>1 DEF Undisturbed, SwitchDatabase, CancelByClosing, IInv, TypeOK
  <2> QED  BY <1>2, <2>1, PlacesOnly DEF User
<1>3. CASE Notifier \/ WatchSocketQueued \/ UNCHANGED vars
  BY <1>3, PlacesOnly
<1>4. CASE Handler
  <2>1. ~SwitchClosed /\ ~SwitchOpen
    BY DEF IInv, GuiPlaces, SwitchClosed, CloseDone, SwitchOpen
  <2>2. CASE FlushRead
    <3>1. \/ LinkLostMidQuery(GUI, link, queryFlushed, resentOnce, queryState # "Inactive", queryTmp)
          \/ Goto(GUI, "flushed")
      BY <1>1, <2>2 DEF FlushRead, Undisturbed
    <3>2. Goto(GUI, "flushed") => pc'[GUI] = "flushed"
      BY Places, IInvFacts, Moves
    <3> QED  BY <1>1, <2>2, <3>1, <3>2, LinkLostInGuiPromise, TransfersKeep
  <2> QED  BY <1>1, <1>4, <2>1, <2>2, PlacesOnly, TransfersKeep, LinkLostInGuiPromise,
              FetchIdleLinkLostPromise, FetchEndPromise, FetchFinishedPromise, IdleLinkClosePromise,
              CancelRequestedPromise
           DEF Handler
<1>5. CASE ThreadFinished
  BY <1>5, ThreadFinishedPromise
<1>6. ASSUME NEW t \in Thread, Drive(t) PROVE PInv'
  BY <1>1, <1>6, RunQueryNoLinkPromise, RunQueryNotRefused, RunQuerySentPromise,
     RunQueryWriteFailedPromise, TransactionLostPromise, OpenAsyncPromise, PollPromise DEF Drive
<1>7. ASSUME NEW w \in Runs, Worker(w) PROVE PInv'
  <2>1. ~CloseConnectionWanted(w)
    <3>1. workerQueue[w] \in Seq(Signal)
      BY IInvFacts DEF TypeOK
    <3>2. workerQueue[w] # <<>> => 1 \in DOMAIN workerQueue[w] /\ Head(workerQueue[w]) = workerQueue[w][1]
      BY <3>1
    <3> QED  BY <3>2 DEF CloseConnectionWanted, NextSignal, IInv, Signals
  <2> QED  BY <1>7, <2>1, PlacesOnly, CloseCalledPromise DEF Worker
<1>8. CASE Environment
  BY <1>8, EnvironmentPromise
<1> QED  BY <1>2, <1>3, <1>4, <1>5, <1>6, <1>7, <1>8 DEF Next

LEMMA PromiseHolds ==
  ASSUME Unrefused
  PROVE  Spec => [](IInv /\ PInv)
<1>1. Init => IInv /\ PInv
  BY InvariantInitially, PromiseInitially
<1>2. IInv /\ PInv /\ [Next]_vars => (IInv /\ PInv)'
  BY PromiseInductive, InvariantInductive DEF Unrefused
<1> QED  BY <1>1, <1>2, PTL DEF Spec

(* What the connection reports of a run is what became of it, however often *)
(* the link is lost and the query sent again: a run reported as answered    *)
(* was executed, one reported as a failure to send was not and will not be  *)
(* (linkLostMidQuery(), openAsync(), fetch()).                              *)
THEOREM ReportsAreTrue ==
  ASSUME Unrefused
  PROVE  Spec => []VerdictTrue
<1>1. PInv => VerdictTrue
  BY DEF PInv
<1> QED  BY <1>1, PromiseHolds, PTL

(* No run is sent again once its end has been reported (executeAsync("")    *)
(* after a reconnect).                                                      *)
THEOREM NotSentAgain ==
  ASSUME Unrefused
  PROVE  Spec => NeverSentAfterTheEnd
<1>1. ASSUME IInv, PInv, [Next]_vars
      PROVE  [\A r \in Runs : verdict[r] # "none" => resends'[r] = resends[r]]_vars
  <2>1. CASE resends' = resends
    BY <2>1
  <2>2. CASE \E t \in Thread : RunQueryBegins(t)
    <3>1. PICK t \in Thread : RunQueryBegins(t)
      BY <2>2
    <3>2. verdict[TextOf(t)] = "none"
      BY <1>1, <3>1, TextUnreported
    <3>3. resends' = resends \/ (TextOf(t) = queryTmp
                                 /\ resends' = [resends EXCEPT ![queryTmp] = @ + 1])
      BY <3>1 DEF RunQueryBegins, TextOf
    <3> QED  BY <1>1, <3>2, <3>3 DEF IInv, TypeOK
  <2>3. resends' = resends \/ \E t \in Thread : RunQueryBegins(t)
    <3>1. CASE User \/ Notifier \/ WatchSocketQueued \/ ThreadFinished \/ Environment \/ UNCHANGED vars
      BY <3>1 DEF User, ExecuteAsync, SwitchDatabase, CancelByClosing, CancelRequest, Cancel, Notifier,
         ReadyReadSocket, ReadyWriteSocket, HandlerBegins, WatchSocketQueued, ThreadFinished, Environment,
         ServerExecutes, OrphanExecutes, LinkDies, history, vars
    <3>2. CASE Handler
      BY <3>2 DEF Handler, FlushRead, FlushReadDone, WriteWhole, WritePart, WriteFailed, WriteNothing,
         Write, FetchBegins, FetchLinkLost, FetchIdleLinkLost, FetchNothing, FetchResult, FetchEnd,
         FetchFinished, Fetch, IdleLinkClose, IdleLinkClosed, SwitchClosed, CloseDone, SwitchOpen,
         CancelRequested, HandlerBegins, history
    <3>3. CASE \E t \in Thread : Drive(t)
      BY <3>3 DEF Drive, RunQueryNoLink, RunQueryRefused, RunQuerySent, RunQueryWriteFailed,
         TransactionLost, OpenAsync, PollAgain, PollFailed, PollOk, Poll, history
    <3>4. CASE \E w \in Runs : Worker(w)
      BY <3>4 DEF Worker, CheckExit, RunEnded, CloseConnectionWanted, CloseCalled, WorkerFinished, history
    <3> QED  BY <1>1, <3>1, <3>2, <3>3, <3>4 DEF Next
  <2> QED  BY <2>1, <2>2, <2>3
<1> QED  BY <1>1, PromiseHolds, PTL DEF Spec, NeverSentAfterTheEnd

(* Once everything has settled, an inactive connection owes nothing: no     *)
(* query is left on its session (fetch() has read it to the end, or the     *)
(* session is gone) and no worker waits for the end of a run it will not    *)
(* hear of (checkExit, the handlers of queryStateChanged).                  *)
THEOREM InactiveOwesNothing ==
  ASSUME Unrefused
  PROVE  Spec => []InactiveIsFree
<1>1. ASSUME IInv, PInv, EndInv PROVE InactiveIsFree
  <2>1. SUFFICES ASSUME AtRest, queryState = "Inactive"
                 PROVE  queryThread = 0 /\ (link.st = "ok" => link.run = 0)
    BY DEF InactiveIsFree
  <2>2. link.st = "ok" => link.run = 0
    BY <1>1, <2>1 DEF PInv, FreeSession
  <2>3. queryThread = 0
    <3>1. SUFFICES ASSUME queryThread # 0 PROVE FALSE
      OBVIOUS
    <3>2. queryThread \in Runs
      BY <1>1, <3>1, ConnectionAssumption DEF IInv, TypeOK, Runs
    <3>3. CASE pc[queryThread] = "gone"
      <4>1. PICK i \in DOMAIN guiQueue : guiQueue[i] = FinishedCall(queryThread)
        BY <1>1, <3>1, <3>3 DEF EndInv, LastWorker, FinishedQueuedFor
      <4> QED  BY <2>1, <4>1 DEF AtRest
    <3>4. CASE pc[queryThread] = "loop" /\ workerQueue[queryThread] = <<>>
      <4>1. PICK i \in DOMAIN workerQueue[queryThread] : workerQueue[queryThread][i] = "Inactive"
        BY <1>1, <2>1, <3>2, <3>4 DEF EndInv, ToldInTheLoop, Told
      <4> QED  BY <3>4, <4>1
    <3>5. pc[queryThread] # "none"
      BY <1>1, <3>1 DEF EndInv, LastWorker
    <3> QED  BY <2>1, <3>2, <3>3, <3>4, <3>5 DEF AtRest
  <2> QED  BY <2>2, <2>3
<1>2. "starting" \notin Windows
  BY DEF Unrefused, Undisturbed
<1> QED  BY <1>1, <1>2, PromiseHolds, EndHolds, PTL

-----------------------------------------------------------------------------
(* The promise of RunPromise, step by step: the end of a run is a report,   *)
(* and every other step of the connection is nothing at all.                *)
LEMMA ReportOrNothing ==
  ASSUME IInv, PInv, IInv', PInv', NEW t \in Thread,
         executed' = executed, nrun' = nrun, Concluded(t) \/ verdict' = verdict
  PROVE  [Promise!Next]_Promise!vars
<1>1. CASE verdict' = verdict
  BY <1>1 DEF Promise!vars
<1>2. CASE verdict' # verdict
  <2>1. PICK v \in Verdict \ {"none"} :
           verdict' = [verdict EXCEPT ![queryTmp'] = IF @ = "none" THEN v ELSE @]
    BY <1>2 DEF Concluded
  <2>2. queryTmp' \in Runs /\ verdict[queryTmp'] = "none"
        /\ verdict' = [verdict EXCEPT ![queryTmp'] = v] /\ verdict'[queryTmp'] = v
    BY <1>2, <2>1, IInvFacts
  <2>3. queryTmp' \in 1..nrun
    <3>1. pc'[queryTmp'] # "none"
      BY <2>2 DEF IInv, NotStarted
    <3>2. ~(queryTmp' > nrun)
      BY <2>2, <3>1 DEF IInv, WorkerPlaces
    <3> QED  BY <2>2, <3>2, ConnectionAssumption DEF IInv, TypeOK, Runs
  <2>4. /\ v = "answered" => executed[queryTmp'] = 1
        /\ v = "notsent" => executed[queryTmp'] = 0
    BY <2>2 DEF PInv, VerdictTrue
  <2>5. v \in {"answered", "notsent", "unknown", "closed"}
    BY <2>1 DEF Verdict
  <2> QED  BY <2>2, <2>3, <2>4, <2>5 DEF Promise!Next, Promise!Report
<1> QED  BY <1>1, <1>2

(* Only the server executes, and only executeAsync() accepts.               *)
LEMMA OnlyTheServerExecutes ==
  ASSUME \/ User \/ Notifier \/ Handler \/ WatchSocketQueued \/ ThreadFinished
         \/ LinkDies \/ UNCHANGED vars
         \/ \E t \in Thread : Drive(t)
         \/ \E w \in Runs : Worker(w)
  PROVE  executed' = executed
<1>1. CASE User \/ Notifier \/ WatchSocketQueued \/ ThreadFinished \/ LinkDies \/ UNCHANGED vars
  BY <1>1 DEF User, ExecuteAsync, SwitchDatabase, Close, CancelByClosing, CancelRequest, Cancel, Notifier,
     ReadyReadSocket, ReadyWriteSocket, HandlerBegins, WatchSocketQueued, ThreadFinished,
     LinkDies, server, vars
<1>2. CASE Handler
  BY <1>2 DEF Handler, FlushRead, FlushReadDone, WriteWhole, WritePart, WriteFailed, WriteNothing,
     Write, FetchBegins, FetchLinkLost, FetchIdleLinkLost, FetchNothing, FetchResult, FetchEnd,
     FetchFinished, Fetch, IdleLinkClose, Close, IdleLinkClosed, SwitchClosed, CloseDone, SwitchOpen,
     CancelRequested, HandlerBegins, server
<1>3. CASE \E t \in Thread : Drive(t)
  BY <1>3 DEF Drive, RunQueryBegins, RunQueryNoLink, RunQueryRefused, RunQuerySent, RunQueryWriteFailed,
     TransactionLost, OpenAsync, PollAgain, PollFailed, PollOk, Poll, server
<1>4. CASE \E w \in Runs : Worker(w)
  BY <1>4 DEF Worker, CheckExit, RunEnded, CloseConnectionWanted, CloseCalled, WorkerFinished, server
<1> QED  BY <1>1, <1>2, <1>3, <1>4

LEMMA AcceptsOne ==
  ASSUME IInv, ExecuteAsync
  PROVE  [Promise!Next]_Promise!vars
<1>1. /\ nrun \in 0..MaxRun /\ nrun < MaxRun /\ nrun' = nrun + 1
      /\ UNCHANGED <<executed, verdict>>
  BY DEF ExecuteAsync, server, IInv, TypeOK
<1>2. nrun + 1 \in Runs /\ nrun + 1 \notin 1..nrun /\ 1..nrun' = (1..nrun) \cup {nrun + 1}
  BY <1>1, ConnectionAssumption DEF Runs
<1>3. Promise!Accept(nrun + 1)
  BY <1>1, <1>2 DEF Promise!Accept
<1> QED  BY <1>2, <1>3 DEF Promise!Next

(* What the server executes has been accepted, not executed, and not been   *)
(* reported as something that rules the effect out.                         *)
LEMMA ExecutesOnce ==
  ASSUME IInv, PInv, IInv', ServerExecutes \/ OrphanExecutes
  PROVE  [Promise!Next]_Promise!vars
<1>1. UNCHANGED <<nrun, verdict, pc>>
  BY DEF ServerExecutes, OrphanExecutes, bounds
<1>2. /\ executed \in [Runs -> Nat] /\ link \in Link /\ nrun \in 0..MaxRun
      /\ verdict \in [Runs -> Verdict] /\ MaxRun \in Nat
  BY IInvFacts, ConnectionAssumption DEF IInv, TypeOK
<1>3. ASSUME NEW q \in Runs, executed[q] = 0, executed' = [executed EXCEPT ![q] = executed[q] + 1],
             ~Untouched(q), verdict[q] # "notsent"
      PROVE  [Promise!Next]_Promise!vars
  <2>1. q \in 1..nrun
    <3>1. pc[q] # "none"
      BY <1>3 DEF IInv, NotStarted
    <3>2. ~(q > nrun)
      BY <3>1 DEF IInv, WorkerPlaces
    <3> QED  BY <1>2, <3>2 DEF Runs
  <2>2. executed' = [executed EXCEPT ![q] = 1]
    BY <1>3
  <2>3. verdict[q] \in {"none", "unknown", "closed"}
    <3>1. verdict[q] # "answered"
      BY <1>3 DEF PInv, VerdictTrue
    <3> QED  BY <1>2, <1>3, <3>1 DEF Verdict
  <2>4. Promise!Execute(q)
    BY <1>1, <1>3, <2>1, <2>2, <2>3 DEF Promise!Execute
  <2> QED  BY <2>4 DEF Promise!Next
<1>4. CASE ServerExecutes
  <2>1. link.srv = "todo" /\ executed' = [executed EXCEPT ![link.run] = executed[link.run] + 1]
    BY <1>4 DEF ServerExecutes
  <2>2. link.run \in Runs /\ executed[link.run] = 0
    BY <1>2, <2>1, LinkFields DEF IInv, LinkShape, Undelivered, ToBeExecuted, Runs
  <2>3. verdict[link.run] # "notsent" /\ ~Untouched(link.run)
    BY <2>1, <2>2 DEF PInv, VerdictTrue, Untouched
  <2> QED  BY <1>3, <2>1, <2>2, <2>3
<1>5. CASE OrphanExecutes
  <2>1. PICK q \in orphans : executed' = [executed EXCEPT ![q] = executed[q] + 1]
    BY <1>5 DEF OrphanExecutes
  <2>2. CASE q \in Runs
    <3>1. executed[q] = 0 /\ ~Untouched(q) /\ verdict[q] # "notsent"
      BY <2>1, <2>2 DEF IInv, OnceOnly, PInv, VerdictTrue, Untouched
    <3> QED  BY <1>3, <2>1, <2>2, <3>1
  <2>3. CASE q \notin Runs
    <3>1. executed' = executed
      BY <1>2, <2>1, <2>3
    <3> QED  BY <1>1, <3>1 DEF Promise!vars
  <2> QED  BY <2>2, <2>3
<1> QED  BY <1>4, <1>5

LEMMA StepKeepsPromise ==
  ASSUME Unrefused, IInv, PInv, [Next]_vars
  PROVE  [Promise!Next]_Promise!vars
<1>1. IInv' /\ PInv' /\ TypeOK
  BY InvariantInductive, PromiseInductive, IInvFacts DEF Unrefused
<1>2. GUI \in Thread /\ Runs \subseteq Thread
  BY Places
<1>3. ASSUME NEW t \in Thread, PlainStep(t), executed' = executed
      PROVE  [Promise!Next]_Promise!vars
  <2>1. nrun' = nrun /\ (Concluded(t) \/ verdict' = verdict)
    BY <1>3 DEF PlainStep, GoesOn
  <2> QED  BY <1>1, <1>3, <2>1, ReportOrNothing
<1>4. CASE ExecuteAsync
  BY <1>4, AcceptsOne
<1>5. CASE ServerExecutes \/ OrphanExecutes
  BY <1>1, <1>5, ExecutesOnce
<1>6. CASE \/ Notifier \/ Handler \/ SwitchDatabase \/ CancelByClosing \/ CancelRequest
           \/ LinkDies \/ UNCHANGED vars
  <2>1. executed' = executed
    BY <1>6, OnlyTheServerExecutes DEF User
  <2>2. PlainStep(GUI)
    BY <1>1, <1>6, GuiPlain DEF Environment
  <2> QED  BY <1>2, <1>3, <2>1, <2>2
<1>7. ASSUME NEW t \in Thread, Drive(t) PROVE [Promise!Next]_Promise!vars
  BY <1>1, <1>3, <1>7, DrivePlain, OnlyTheServerExecutes
<1>8. ASSUME \/ WatchSocketQueued \/ ThreadFinished
             \/ \E w \in Runs : CheckExit(w) \/ RunEnded(w) \/ WorkerFinished(w)
      PROVE  [Promise!Next]_Promise!vars
  <2>1. executed' = executed
    BY <1>8, OnlyTheServerExecutes DEF Worker
  <2>2. nrun' = nrun /\ verdict' = verdict
    BY <1>8 DEF WatchSocketQueued, ThreadFinished, CheckExit, RunEnded, WorkerFinished, bounds
  <2> QED  BY <2>1, <2>2 DEF Promise!vars
<1>9. ASSUME NEW w \in Runs, CloseConnectionWanted(w) \/ CloseCalled(w)
      PROVE  [Promise!Next]_Promise!vars
  <2>1. executed' = executed
    BY <1>9, OnlyTheServerExecutes DEF Worker
  <2> QED  BY <1>1, <1>2, <1>3, <1>9, <2>1, CloseSignalsPlain
<1> QED  BY <1>4, <1>5, <1>6, <1>7, <1>8, <1>9 DEF Next, User, Worker, Environment

(* The connection does what RunPromise says of it, seen from outside: it    *)
(* executes each query it accepts once at most, and reports of each what    *)
(* became of it, then and later.                                            *)
THEOREM PromiseKept ==
  ASSUME Unrefused
  PROVE  Spec => KeepsPromise
<1>1. Init => Promise!Init
  <2> SUFFICES ASSUME Init PROVE Promise!Init
    OBVIOUS
  <2>1. nrun = 0 /\ executed = [r \in Runs |-> 0] /\ verdict = [r \in Runs |-> "none"]
    BY DEF Init
  <2>2. 1..nrun = {}
    BY <2>1
  <2> QED  BY <2>1, <2>2 DEF Promise!Init
<1>2. IInv /\ PInv /\ [Next]_vars => [Promise!Next]_Promise!vars
  BY StepKeepsPromise
<1> QED  BY <1>1, <1>2, PromiseHolds, PTL DEF Spec, KeepsPromise, Promise!Spec
=============================================================================
