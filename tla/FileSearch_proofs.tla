------------------------- MODULE FileSearch_proofs -------------------------
(***************************************************************************)
(* Theorems about FileSearch, proved for all trees, limits, sizes of       *)
(* batches and numbers of searches: what the panel says of its search is   *)
(* so, and its rows are those of the first matches of the current search,  *)
(* all of them when it says it is done.                                    *)
(***************************************************************************)
EXTENDS FileSearch, Recursion, FiniteSetTheorems, SequenceTheorems

FoundHit == [file : Nat, line : Nat]
Call == [gen : Nat, tree : Trees \cup {NoFolder}]
Verdict == {"error", "stopped", "limit", "done"}
Signal == [signal : {"batch"}, gen : Nat, hits : Seq(FoundHit)]
          \cup [signal : {"progress"}, gen : Nat, hits : Nat]
          \cup [signal : {"finished"}, gen : Nat, hits : Nat, says : Verdict]
Job == [gen : Nat, tree : Trees \cup {<<>>}, at : Nat \ {0}, pending : Seq(FoundHit),
        hits : Nat, cancelled : BOOLEAN, truncated : BOOLEAN]

(* The types the arguments below need; those of the rows would need an      *)
(* induction over a batch.                                                  *)
Types ==
    /\ generation \in Nat /\ cancelBelow \in Nat
    /\ open \in BOOLEAN /\ running \in BOOLEAN
    /\ job \in Job /\ toWorker \in Seq(Call) /\ toPanel \in Seq(Signal)

(* No number is ahead of the panel's.                                       *)
Numbers ==
    /\ cancelBelow <= generation
    /\ job.gen <= generation
    /\ \A i \in DOMAIN toWorker : toWorker[i].gen \in 1..generation
    /\ \A i \in DOMAIN toPanel : toPanel[i].gen <= generation

Ends == {i \in DOMAIN toPanel : toPanel[i].signal = "finished"}

(* A search is in one place at a time: in one call of the worker's queue,   *)
(* under way, or in one announcement of its end.                            *)
OnePlace ==
    /\ \A i, j \in DOMAIN toWorker : i # j => toWorker[i].gen # toWorker[j].gen
    /\ Working => \A i \in DOMAIN toWorker : toWorker[i].gen # job.gen
    /\ \A i, j \in Ends : i # j => toPanel[i].gen # toPanel[j].gen
    /\ \A i \in Ends : /\ \A j \in DOMAIN toWorker : toWorker[j].gen # toPanel[i].gen
                       /\ Working => toPanel[i].gen # job.gen

(* The current search is cancelled for the user only, and so it is told.    *)
Stops ==
    open =>
      /\ generation > 0 /\ cancelBelow >= generation => generation \in stopped
      /\ Working /\ job.gen = generation /\ job.cancelled => generation \in stopped
      /\ \A i \in Ends : toPanel[i].gen = generation /\ toPanel[i].says = "stopped"
                            => generation \in stopped

SearchInv == Types /\ Numbers /\ OnePlace /\ RunningHasSearch /\ Stops /\ StoppedOnRequest

-----------------------------------------------------------------------------
(* What is sent comes after what is queued, while there is a panel.         *)
LEMMA Sending ==
  ASSUME toPanel \in Seq(Signal), NEW signals \in Seq(Signal), Send(signals)
  PROVE  /\ toPanel' \in Seq(Signal)
         /\ open => /\ Len(toPanel') = Len(toPanel) + Len(signals)
                    /\ \A i \in DOMAIN toPanel' :
                         toPanel'[i] = IF i <= Len(toPanel) THEN toPanel[i] ELSE signals[i - Len(toPanel)]
         /\ ~open => toPanel' = <<>>
<1>1. CASE open
  BY <1>1 DEF Send
<1>2. CASE ~open
  BY <1>2 DEF Send
<1> QED  BY <1>1, <1>2

(* A search under way, field by field.                                      *)
LEMMA JobFields ==
  ASSUME job \in Job
  PROVE  /\ job.gen \in Nat /\ job.tree \in Trees \cup {<<>>} /\ job.at \in Nat \ {0}
         /\ job.pending \in Seq(FoundHit) /\ job.hits \in Nat
         /\ job.cancelled \in BOOLEAN /\ job.truncated \in BOOLEAN
BY DEF Job

(* What a walk finds in a file.                                             *)
LEMMA HitsType ==
  ASSUME NEW t \in Trees, NEW i \in DOMAIN t, NEW n \in Nat
  PROVE  /\ HitsOf(t, i, n) \in Seq(FoundHit)
         /\ Len(HitsOf(t, i, n)) \in Nat
<1> DEFINE k == Len(t[i].lines)
<1>1. t[i].lines \in Seq(Nat) /\ i \in Nat /\ k \in Nat
  <2> DEFINE File == [kind : {"skipped", "text"}, lines : Seq(Nat)]
  <2>1. t \in Seq(File)
    BY SearchAssumption
  <2>2. t[i] \in File /\ i \in Nat
    <3> HIDE DEF File
    <3> QED  BY <2>1
  <2>3. t[i].lines \in Seq(Nat)
    BY <2>2
  <2> QED  BY <2>2, <2>3
<1>2. Room(n, k) \in Int /\ Room(n, k) <= k
  BY <1>1, SearchAssumption DEF Room
<1>3. \A m \in 1..Room(n, k) : [file |-> i, line |-> t[i].lines[m]] \in FoundHit
  <2> SUFFICES ASSUME NEW m \in 1..Room(n, k)
               PROVE  [file |-> i, line |-> t[i].lines[m]] \in FoundHit
    OBVIOUS
  <2>1. m \in 1..k
    BY <1>1, <1>2
  <2>2. t[i].lines[m] \in Nat
    BY <1>1, <2>1
  <2> QED  BY <1>1, <2>2 DEF FoundHit
<1>4. CASE Room(n, k) \in Nat
  <2>1. HitsOf(t, i, n) \in [1..Room(n, k) -> FoundHit]
    BY <1>3 DEF HitsOf
  <2>2. HitsOf(t, i, n) \in Seq(FoundHit)
    BY <2>1, <1>4
  <2> QED  BY <2>2
<1>5. CASE Room(n, k) \notin Nat
  <2>1. 1..Room(n, k) = {}
    BY <1>2, <1>5
  <2>2. HitsOf(t, i, n) = <<>>
    BY <2>1 DEF HitsOf
  <2> QED  BY <2>2
<1> QED  BY <1>4, <1>5

(* Signals of a search under way leave the announced ends as they are.      *)
LEMMA SendsNoEnd ==
  ASSUME SearchInv, NEW signals \in Seq(Signal), Send(signals),
         \A i \in DOMAIN signals : signals[i].signal # "finished" /\ signals[i].gen <= generation
  PROVE  /\ toPanel' \in Seq(Signal)
         /\ \A i \in DOMAIN toPanel' : toPanel'[i].gen <= generation
         /\ open => Ends' = Ends /\ \A i \in Ends : toPanel'[i] = toPanel[i]
         /\ ~open => Ends' = {}
<1>1. toPanel \in Seq(Signal)
  BY DEF SearchInv, Types
<1>2. /\ toPanel' \in Seq(Signal)
      /\ open => /\ Len(toPanel') = Len(toPanel) + Len(signals)
                 /\ \A i \in DOMAIN toPanel' :
                      toPanel'[i] = IF i <= Len(toPanel) THEN toPanel[i] ELSE signals[i - Len(toPanel)]
      /\ ~open => toPanel' = <<>>
  BY <1>1, Sending
<1>3. \A i \in DOMAIN toPanel : toPanel[i].gen <= generation
  BY DEF SearchInv, Numbers
<1>4. CASE ~open
  BY <1>2, <1>4 DEF Ends
<1>5. CASE open
  <2>1. \A i \in DOMAIN toPanel' : \/ i \in DOMAIN toPanel /\ toPanel'[i] = toPanel[i]
                                   \/ /\ i \notin DOMAIN toPanel
                                      /\ i - Len(toPanel) \in DOMAIN signals
                                      /\ toPanel'[i] = signals[i - Len(toPanel)]
    BY <1>1, <1>2, <1>5
  <2>2. DOMAIN toPanel \subseteq DOMAIN toPanel'
    BY <1>1, <1>2, <1>5
  <2>3. \A i \in DOMAIN toPanel' : toPanel'[i].gen <= generation
    BY <2>1, <1>3
  <2>4. Ends' = Ends
    BY <2>1, <2>2 DEF Ends
  <2>5. \A i \in Ends : toPanel'[i] = toPanel[i]
    BY <2>1, <2>2 DEF Ends
  <2> QED  BY <1>2, <1>5, <2>3, <2>4, <2>5
<1> QED  BY <1>4, <1>5

(* The last signal of a search adds its own end.                            *)
LEMMA SendsEnd ==
  ASSUME SearchInv, NEW signals \in Seq(Signal), signals # <<>>, Send(signals),
         \A i \in DOMAIN signals : signals[i].gen <= generation,
         \A i \in DOMAIN signals : signals[i].signal = "finished" <=> i = Len(signals)
  PROVE  /\ toPanel' \in Seq(Signal)
         /\ \A i \in DOMAIN toPanel' : toPanel'[i].gen <= generation
         /\ open => \E n : /\ n \notin Ends /\ Ends' = Ends \cup {n}
                           /\ toPanel'[n] = signals[Len(signals)]
                           /\ \A i \in Ends : toPanel'[i] = toPanel[i]
         /\ ~open => Ends' = {}
<1>1. toPanel \in Seq(Signal)
  BY DEF SearchInv, Types
<1>2. /\ toPanel' \in Seq(Signal)
      /\ open => /\ Len(toPanel') = Len(toPanel) + Len(signals)
                 /\ \A i \in DOMAIN toPanel' :
                      toPanel'[i] = IF i <= Len(toPanel) THEN toPanel[i] ELSE signals[i - Len(toPanel)]
      /\ ~open => toPanel' = <<>>
  BY <1>1, Sending
<1>3. \A i \in DOMAIN toPanel : toPanel[i].gen <= generation
  BY DEF SearchInv, Numbers
<1>4. CASE ~open
  BY <1>2, <1>4 DEF Ends
<1>5. CASE open
  <2> DEFINE n == Len(toPanel')
  <2>1. \A i \in DOMAIN toPanel' : \/ i \in DOMAIN toPanel /\ toPanel'[i] = toPanel[i]
                                   \/ /\ i \notin DOMAIN toPanel
                                      /\ i - Len(toPanel) \in DOMAIN signals
                                      /\ toPanel'[i] = signals[i - Len(toPanel)]
    BY <1>1, <1>2, <1>5
  <2>2. DOMAIN toPanel \subseteq DOMAIN toPanel'
    BY <1>1, <1>2, <1>5
  <2>3. \A i \in DOMAIN toPanel' : toPanel'[i].gen <= generation
    BY <2>1, <1>3
  <2>4. /\ n \in DOMAIN toPanel' /\ n \notin DOMAIN toPanel
        /\ n - Len(toPanel) = Len(signals) /\ Len(signals) \in DOMAIN signals
    BY <1>1, <1>2, <1>5
  <2>5. toPanel'[n] = signals[Len(signals)]
    BY <2>1, <2>4
  <2>6. \A i \in DOMAIN toPanel' \ DOMAIN toPanel : toPanel'[i].signal = "finished" <=> i = n
    <3> SUFFICES ASSUME NEW i \in DOMAIN toPanel', i \notin DOMAIN toPanel
                 PROVE  toPanel'[i].signal = "finished" <=> i = n
      OBVIOUS
    <3>1. i - Len(toPanel) \in DOMAIN signals /\ toPanel'[i] = signals[i - Len(toPanel)]
      BY <2>1
    <3>2. i - Len(toPanel) = Len(signals) <=> i = n
      BY <1>1, <1>2, <1>5, <2>4
    <3> QED  BY <3>1, <3>2
  <2>7. n \notin Ends /\ Ends' = Ends \cup {n}
    BY <2>1, <2>2, <2>4, <2>6 DEF Ends
  <2>8. \A i \in Ends : toPanel'[i] = toPanel[i]
    BY <2>1, <2>2 DEF Ends
  <2> QED  BY <1>2, <1>5, <2>3, <2>5, <2>7, <2>8
<1> QED  BY <1>4, <1>5

(* What the worker sends is a signal.                                       *)
LEMMA SignalTypes ==
  ASSUME NEW g \in Nat
  PROVE  /\ \A hits \in Seq(FoundHit) : Batch(g, hits) \in Signal
         /\ \A n \in Nat : Progress(g, n) \in Signal
         /\ \A j \in Job : Finished(j, TRUE) \in Signal /\ Finished(j, FALSE) \in Signal
<1>1. \A hits \in Seq(FoundHit) : Batch(g, hits) \in Signal
  BY DEF Batch, Signal
<1>2. \A n \in Nat : Progress(g, n) \in Signal
  BY DEF Progress, Signal
<1>3. \A j \in Job : Finished(j, TRUE) \in Signal /\ Finished(j, FALSE) \in Signal
  BY DEF Finished, Signal, Job, Verdict
<1> QED  BY <1>1, <1>2, <1>3

-----------------------------------------------------------------------------
(* The user.                                                                *)
LEMMA StartSearchStep ==
  ASSUME SearchInv, StartSearch
  PROVE  SearchInv'
<1>1. /\ generation \in Nat /\ cancelBelow \in Nat /\ cancelBelow <= generation
      /\ job.gen \in Nat /\ job.gen <= generation
      /\ toWorker \in Seq(Call) /\ toPanel \in Seq(Signal)
  BY JobFields DEF SearchInv, Types, Numbers
<1>2. PICK t \in Trees \cup {NoFolder} : toWorker' = Append(toWorker, [gen |-> generation + 1, tree |-> t])
  BY DEF StartSearch
<1>3. [gen |-> generation + 1, tree |-> t] \in Call
  BY <1>1 DEF Call
<1>4. /\ toWorker' \in Seq(Call) /\ Len(toWorker') = Len(toWorker) + 1
      /\ toWorker'[Len(toWorker) + 1].gen = generation + 1
      /\ \A i \in DOMAIN toWorker : toWorker'[i] = toWorker[i]
      /\ \A i \in DOMAIN toWorker' : i \in DOMAIN toWorker \/ i = Len(toWorker) + 1
  BY <1>1, <1>2, <1>3
<1>5. /\ generation' = generation + 1 /\ running' = TRUE /\ open /\ open' = open
      /\ cancelBelow' <= generation /\ cancelBelow' \in Nat
      /\ job' = job /\ toPanel' = toPanel /\ stopped' = stopped /\ status'.says = "searching"
  BY <1>1 DEF StartSearch, CancelUpTo
<1>6. Types'
  BY <1>1, <1>4, <1>5 DEF SearchInv, Types
<1>7. Numbers'
  <2>1. \A i \in DOMAIN toWorker' : toWorker'[i].gen \in 1..generation'
    BY <1>1, <1>4, <1>5 DEF SearchInv, Numbers
  <2>2. \A i \in DOMAIN toPanel' : toPanel'[i].gen <= generation'
    <3> SUFFICES ASSUME NEW i \in DOMAIN toPanel
                 PROVE  toPanel[i].gen <= generation + 1
      BY <1>5
    <3>1. toPanel[i] \in Signal
      BY <1>1
    <3>2. toPanel[i].gen \in Nat
      BY <3>1 DEF Signal
    <3>3. toPanel[i].gen <= generation
      BY DEF SearchInv, Numbers
    <3> QED  BY <1>1, <3>2, <3>3
  <2> QED  BY <1>1, <1>5, <2>1, <2>2 DEF Numbers
<1>8. \A i \in Ends : toPanel[i].gen # generation + 1
  BY <1>1 DEF SearchInv, Numbers, Ends
<1>9. OnePlace'
  <2>1. \A i \in DOMAIN toWorker : toWorker[i].gen # generation + 1
    BY <1>1 DEF SearchInv, Numbers
  <2>2. \A i, j \in DOMAIN toWorker' : i # j => toWorker'[i].gen # toWorker'[j].gen
    BY <1>1, <1>4, <2>1 DEF SearchInv, OnePlace
  <2>3. Working => \A i \in DOMAIN toWorker' : toWorker'[i].gen # job.gen
    BY <1>1, <1>4 DEF SearchInv, OnePlace
  <2>4. Ends' = Ends /\ Working' = Working
    BY <1>5 DEF Ends, Working
  <2>5. \A i \in Ends, j \in DOMAIN toWorker' : toWorker'[j].gen # toPanel[i].gen
    BY <1>4, <1>8 DEF SearchInv, OnePlace
  <2> QED  BY <1>5, <2>2, <2>3, <2>4, <2>5 DEF SearchInv, OnePlace
<1>10. RunningHasSearch'
  <2>1. Len(toWorker) + 1 \in DOMAIN toWorker'
    BY <1>1, <1>4
  <2> QED  BY <1>4, <1>5, <2>1 DEF RunningHasSearch
<1>11. Stops' /\ StoppedOnRequest'
  BY <1>1, <1>5, <1>8 DEF Stops, StoppedOnRequest, Ends
<1> QED  BY <1>6, <1>7, <1>9, <1>10, <1>11 DEF SearchInv

(* What leaves the queues, the search under way and the button as they are. *)
LEMMA Untouched ==
  ASSUME SearchInv, UNCHANGED <<generation, running, open, job, toWorker, toPanel>>,
         cancelBelow' \in Nat, cancelBelow' <= generation, stopped \subseteq stopped',
         cancelBelow' = cancelBelow \/ generation \in stopped',
         status'.says = "stopped" => status' = status
  PROVE  SearchInv'
<1>1. Types'
  BY DEF SearchInv, Types
<1>2. Numbers'
  BY DEF SearchInv, Numbers
<1>3. Ends' = Ends /\ (Working <=> Working')
  BY DEF Ends, Working
<1>4. OnePlace'
  BY <1>3 DEF SearchInv, OnePlace
<1>5. RunningHasSearch'
  BY <1>3 DEF SearchInv, RunningHasSearch
<1>6. Stops'
  BY <1>3 DEF SearchInv, Stops
<1>7. StoppedOnRequest'
  BY DEF SearchInv, StoppedOnRequest
<1> QED  BY <1>1, <1>2, <1>4, <1>5, <1>6, <1>7 DEF SearchInv

(* startSearch(), stopSearch() and the destructor keep the invariant.       *)
LEMMA UserStep ==
  ASSUME SearchInv, User
  PROVE  SearchInv'
<1>1. CASE StartSearch
  BY <1>1, StartSearchStep
<1>2. CASE StartSearchRefused
  <2>1. /\ UNCHANGED <<generation, running, open, job, toWorker, toPanel, cancelBelow, stopped>>
        /\ status'.says = "invalid pattern"
    BY <1>2 DEF StartSearchRefused
  <2>2. cancelBelow' \in Nat /\ cancelBelow' <= generation
    BY <2>1 DEF SearchInv, Types, Numbers
  <2> QED  BY <2>1, <2>2, Untouched
<1>3. CASE StopSearch
  <2>1. /\ UNCHANGED <<generation, running, open, job, toWorker, toPanel, status>>
        /\ stopped' = stopped \cup {generation}
    BY <1>3 DEF StopSearch, panel
  <2>2. cancelBelow' \in Nat /\ cancelBelow' <= generation
    BY <1>3 DEF StopSearch, CancelUpTo, SearchInv, Types, Numbers
  <2> QED  BY <2>1, <2>2, Untouched
<1>4. CASE Close
  <2>1. /\ UNCHANGED <<generation, running, status, job, toWorker, stopped>>
        /\ ~open' /\ open' \in BOOLEAN /\ toPanel' = <<>>
    BY <1>4 DEF Close, panel
  <2>2. cancelBelow' \in Nat /\ cancelBelow' <= generation
    BY <1>4 DEF Close, CancelUpTo, SearchInv, Types, Numbers
  <2>3. toPanel' \in Seq(Signal) /\ DOMAIN toPanel' = {}
    BY <2>1
  <2>4. Types'
    BY <2>1, <2>2, <2>3 DEF SearchInv, Types
  <2>5. Numbers'
    BY <2>1, <2>2, <2>3 DEF SearchInv, Numbers
  <2>6. Ends' = {} /\ (Working <=> Working')
    BY <2>1, <2>3 DEF Ends, Working
  <2>7. OnePlace'
    BY <2>1, <2>6 DEF SearchInv, OnePlace
  <2>8. RunningHasSearch' /\ Stops' /\ StoppedOnRequest'
    BY <2>1 DEF SearchInv, RunningHasSearch, Stops, StoppedOnRequest
  <2> QED  BY <2>4, <2>5, <2>7, <2>8 DEF SearchInv
<1> QED  BY <1>1, <1>2, <1>3, <1>4 DEF User

-----------------------------------------------------------------------------
(* The worker.  A search g that was in one place, a call or under way, and  *)
(* says that it ended.                                                      *)
LEMMA Ending ==
  ASSUME SearchInv, NEW g \in 1..generation, NEW signals \in Seq(Signal), signals # <<>>,
         Send(signals),
         \A i \in DOMAIN signals : signals[i].gen = g,
         \A i \in DOMAIN signals : signals[i].signal = "finished" <=> i = Len(signals),
         open /\ g = generation /\ signals[Len(signals)].says = "stopped" => g \in stopped,
         UNCHANGED <<generation, running, status, open, cancelBelow, stopped>>,
         job' \in Job, job'.gen = 0, Working => job.gen = g,
         toWorker' \in Seq(Call),
         \A i \in DOMAIN toWorker' :
            toWorker'[i].gen # g /\ \E k \in DOMAIN toWorker : toWorker'[i].gen = toWorker[k].gen,
         \A i, j \in DOMAIN toWorker' : i # j => toWorker'[i].gen # toWorker'[j].gen,
         \A k \in DOMAIN toWorker : toWorker[k].gen # g
            => \E i \in DOMAIN toWorker' : toWorker'[i].gen = toWorker[k].gen,
         Working \/ \E k \in DOMAIN toWorker : toWorker[k].gen = g
  PROVE  SearchInv'
<1>1. g \in Nat /\ g # 0 /\ generation \in Nat /\ g <= generation
  BY DEF SearchInv, Types
<1>2. \A i \in DOMAIN signals : signals[i].gen <= generation
  BY <1>1
<1>3. /\ toPanel' \in Seq(Signal)
      /\ \A i \in DOMAIN toPanel' : toPanel'[i].gen <= generation
      /\ open => \E n : /\ n \notin Ends /\ Ends' = Ends \cup {n}
                        /\ toPanel'[n] = signals[Len(signals)]
                        /\ \A i \in Ends : toPanel'[i] = toPanel[i]
      /\ ~open => Ends' = {}
  BY <1>2, SendsEnd
<1>4. Len(signals) \in DOMAIN signals
  BY DEF Signal
<1>5. ~Working'
  BY DEF Working
<1>6. Types'
  BY <1>3 DEF SearchInv, Types
<1>7. Numbers'
  <2>1. \A i \in DOMAIN toWorker' : toWorker'[i].gen \in 1..generation
    BY DEF SearchInv, Numbers
  <2> QED  BY <1>1, <1>3, <2>1 DEF SearchInv, Numbers
<1>8. CASE ~open
  <2>1. Ends' = {} /\ ~open'
    BY <1>3, <1>8
  <2>2. OnePlace'
    BY <1>5, <2>1 DEF OnePlace
  <2>3. RunningHasSearch' /\ Stops' /\ StoppedOnRequest'
    BY <2>1 DEF SearchInv, RunningHasSearch, Stops, StoppedOnRequest
  <2> QED  BY <1>6, <1>7, <2>2, <2>3 DEF SearchInv
<1>9. CASE open
  <2>1. PICK n : /\ n \notin Ends /\ Ends' = Ends \cup {n}
                 /\ toPanel'[n] = signals[Len(signals)]
                 /\ \A i \in Ends : toPanel'[i] = toPanel[i]
    BY <1>3, <1>9
  <2>2. toPanel'[n].gen = g
    BY <1>4, <2>1
  <2>3. \A i \in Ends : toPanel[i].gen # g
    <3>1. CASE Working
      BY <3>1 DEF SearchInv, OnePlace
    <3>2. CASE ~Working
      BY <3>2 DEF SearchInv, OnePlace
    <3> QED  BY <3>1, <3>2
  <2>4. OnePlace'
    <3>1. \A i, j \in Ends' : i # j => toPanel'[i].gen # toPanel'[j].gen
      BY <2>1, <2>2, <2>3 DEF SearchInv, OnePlace
    <3>2. \A i \in Ends', j \in DOMAIN toWorker' : toWorker'[j].gen # toPanel'[i].gen
      BY <2>1, <2>2 DEF SearchInv, OnePlace
    <3> QED  BY <1>5, <3>1, <3>2 DEF OnePlace
  <2>5. RunningHasSearch'
    <3>1. running <=> \/ \E i \in DOMAIN toWorker : toWorker[i].gen = generation
                      \/ job.gen = generation /\ Working
                      \/ \E i \in Ends : toPanel[i].gen = generation
      BY <1>9 DEF SearchInv, RunningHasSearch, Ends
    <3>2. running <=> \/ \E i \in DOMAIN toWorker' : toWorker'[i].gen = generation
                      \/ \E i \in Ends' : toPanel'[i].gen = generation
      <4>1. CASE g = generation
        BY <2>1, <2>2, <3>1, <4>1
      <4>2. CASE g # generation
        BY <2>1, <2>2, <3>1, <4>2
      <4> QED  BY <4>1, <4>2
    <3> QED  BY <1>5, <3>2 DEF RunningHasSearch, Ends
  <2>6. Stops'
    BY <1>5, <1>9, <2>1, <2>2 DEF SearchInv, Stops
  <2>7. StoppedOnRequest'
    BY DEF SearchInv, StoppedOnRequest
  <2> QED  BY <1>6, <1>7, <2>4, <2>5, <2>6, <2>7 DEF SearchInv
<1> QED  BY <1>8, <1>9

(* The first call leaves the queue.                                         *)
LEMMA Taking ==
  ASSUME SearchInv, toWorker # <<>>, toWorker' = Tail(toWorker)
  PROVE  /\ 1 \in DOMAIN toWorker /\ Head(toWorker) = toWorker[1] /\ toWorker[1] \in Call
         /\ toWorker[1].gen \in 1..generation /\ toWorker' \in Seq(Call)
         /\ \A i \in DOMAIN toWorker' :
              /\ toWorker'[i].gen # toWorker[1].gen
              /\ \E k \in DOMAIN toWorker : toWorker'[i].gen = toWorker[k].gen
         /\ \A i, j \in DOMAIN toWorker' : i # j => toWorker'[i].gen # toWorker'[j].gen
         /\ \A k \in DOMAIN toWorker : toWorker[k].gen # toWorker[1].gen
              => \E i \in DOMAIN toWorker' : toWorker'[i].gen = toWorker[k].gen
<1>1. toWorker \in Seq(Call)
  BY DEF SearchInv, Types
<1>2. /\ 1 \in DOMAIN toWorker /\ Head(toWorker) = toWorker[1] /\ toWorker[1] \in Call
      /\ toWorker' \in Seq(Call)
  BY <1>1
<1>3. \A i \in DOMAIN toWorker' : /\ i + 1 \in DOMAIN toWorker /\ i + 1 # 1
                                   /\ toWorker'[i] = toWorker[i + 1]
  BY <1>1
<1>4. \A k \in DOMAIN toWorker : k # 1 => /\ k - 1 \in DOMAIN toWorker'
                                           /\ toWorker'[k - 1] = toWorker[k]
  BY <1>1
<1>5. \A i, j \in DOMAIN toWorker : i # j => toWorker[i].gen # toWorker[j].gen
  BY DEF SearchInv, OnePlace
<1>6. \A i, j \in DOMAIN toWorker' : i # j => i + 1 # j + 1
  BY <1>1
<1>7. toWorker[1].gen \in 1..generation
  BY <1>2 DEF SearchInv, Numbers
<1> QED  BY <1>2, <1>3, <1>4, <1>5, <1>6, <1>7

(* What says that a search ended.                                           *)
LEMMA EndSignal ==
  ASSUME NEW j \in Job
  PROVE  /\ Finished(j, TRUE) \in Signal /\ Finished(j, FALSE) \in Signal
         /\ Finished(j, TRUE).gen = j.gen /\ Finished(j, TRUE).signal = "finished"
         /\ Finished(j, TRUE).says # "stopped"
         /\ Finished(j, FALSE).gen = j.gen /\ Finished(j, FALSE).signal = "finished"
         /\ Finished(j, FALSE).says = "stopped" => j.cancelled
<1>1. j.gen \in Nat
  BY DEF Job
<1>2. Finished(j, TRUE) \in Signal /\ Finished(j, FALSE) \in Signal
  BY <1>1, SignalTypes
<1>3. /\ Finished(j, TRUE).gen = j.gen /\ Finished(j, TRUE).signal = "finished"
      /\ Finished(j, TRUE).says # "stopped"
  BY DEF Finished
<1>4. /\ Finished(j, FALSE).gen = j.gen /\ Finished(j, FALSE).signal = "finished"
      /\ Finished(j, FALSE).says = "stopped" => j.cancelled
  BY DEF Finished
<1> QED  BY <1>2, <1>3, <1>4

(* A queued call of a search that ends at once, with one signal.            *)
LEMMA EndingAtOnce ==
  ASSUME SearchInv, ~Working, toWorker # <<>>, toWorker' = Tail(toWorker),
         NEW end \in Signal, end.gen = toWorker[1].gen, end.signal = "finished",
         Send(<<end>>), job' = job,
         open /\ end.gen = generation /\ end.says = "stopped" => end.gen \in stopped,
         UNCHANGED <<generation, running, status, open, cancelBelow, stopped>>
  PROVE  SearchInv'
<1> DEFINE signals == <<end>>
           g == toWorker[1].gen
<1>1. /\ signals \in Seq(Signal) /\ signals # <<>> /\ Len(signals) = 1 /\ Send(signals)
      /\ \A i \in DOMAIN signals : i = 1 /\ signals[i].gen = g /\ signals[i].signal = "finished"
      /\ signals[Len(signals)] = end
  OBVIOUS
<1>2. /\ 1 \in DOMAIN toWorker /\ g \in 1..generation /\ toWorker' \in Seq(Call)
      /\ \A i \in DOMAIN toWorker' :
           /\ toWorker'[i].gen # g
           /\ \E k \in DOMAIN toWorker : toWorker'[i].gen = toWorker[k].gen
      /\ \A i, j \in DOMAIN toWorker' : i # j => toWorker'[i].gen # toWorker'[j].gen
      /\ \A k \in DOMAIN toWorker : toWorker[k].gen # g
           => \E i \in DOMAIN toWorker' : toWorker'[i].gen = toWorker[k].gen
  BY Taking
<1>3. job' \in Job /\ job'.gen = 0
  BY DEF SearchInv, Types, Working
<1>4. g = end.gen /\ \E k \in DOMAIN toWorker : toWorker[k].gen = g
  BY <1>2
<1> HIDE DEF signals, g
<1>5. g \in 1..generation /\ signals \in Seq(Signal) /\ signals # <<>> /\ Send(signals)
  BY <1>1, <1>2
<1>6. /\ \A i \in DOMAIN signals : signals[i].gen = g
      /\ \A i \in DOMAIN signals : signals[i].signal = "finished" <=> i = Len(signals)
  BY <1>1
<1>7. open /\ g = generation /\ signals[Len(signals)].says = "stopped" => g \in stopped
  BY <1>1, <1>4
<1>8. Working => job.gen = g
  OBVIOUS
<1> QED  BY <1>2, <1>3, <1>4, <1>5, <1>6, <1>7, <1>8, Ending

(* A search that has just begun.                                            *)
LEMMA FreshJob ==
  ASSUME NEW g \in Nat, NEW t \in Trees \cup {<<>>}
  PROVE  /\ [NoJob EXCEPT !.gen = g] \in Job
         /\ [[NoJob EXCEPT !.gen = g] EXCEPT !.cancelled = TRUE] \in Job
         /\ [[NoJob EXCEPT !.gen = g] EXCEPT !.tree = t] \in Job
         /\ NoJob \in Job
<1> DEFINE Pending == Seq(FoundHit)
           Walked == Trees \cup {<<>>}
           none == <<>>
<1>1. none \in Pending /\ none \in Walked
  OBVIOUS
<1>2. Job = [gen : Nat, tree : Walked, at : Nat \ {0}, pending : Pending, hits : Nat,
             cancelled : BOOLEAN, truncated : BOOLEAN]
  BY DEF Job
<1>3. NoJob = [gen |-> 0, tree |-> none, at |-> 1, pending |-> none, hits |-> 0,
               cancelled |-> FALSE, truncated |-> FALSE]
  BY DEF NoJob
<1>4. t \in Walked
  OBVIOUS
<1> HIDE DEF Pending, Walked, none
<1>5. NoJob \in Job
  BY <1>1, <1>2, <1>3
<1>6. \A j \in Job : [j EXCEPT !.gen = g] \in Job
  BY <1>2
<1>7. \A j \in Job : [j EXCEPT !.cancelled = TRUE] \in Job /\ [j EXCEPT !.tree = t] \in Job
  BY <1>2, <1>4
<1> QED  BY <1>5, <1>6, <1>7

(* search() up to the walk.                                                *)
LEMMA TakeSearchStep ==
  ASSUME SearchInv, TakeSearch
  PROVE  SearchInv'
<1> DEFINE call == toWorker[1]
           begun == [NoJob EXCEPT !.gen = call.gen]
           dropped == [begun EXCEPT !.cancelled = TRUE]
<1>1. /\ ~Working /\ toWorker # <<>> /\ toWorker' = Tail(toWorker)
      /\ UNCHANGED <<generation, running, status, open, cancelBelow, stopped>>
  BY DEF TakeSearch, panel
<1>2. /\ 1 \in DOMAIN toWorker /\ Head(toWorker) = call /\ call \in Call
      /\ call.gen \in 1..generation /\ toWorker' \in Seq(Call)
      /\ \A i \in DOMAIN toWorker' :
           /\ toWorker'[i].gen # call.gen
           /\ \E k \in DOMAIN toWorker : toWorker'[i].gen = toWorker[k].gen
      /\ \A i, j \in DOMAIN toWorker' : i # j => toWorker'[i].gen # toWorker'[j].gen
      /\ \A k \in DOMAIN toWorker : toWorker[k].gen # call.gen
           => \E i \in DOMAIN toWorker' : toWorker'[i].gen = toWorker[k].gen
  BY <1>1, Taking
<1>3. /\ call.gen \in Nat /\ call.gen # 0 /\ call.gen <= generation /\ generation \in Nat
      /\ call.tree \in Trees \cup {NoFolder} /\ cancelBelow \in Nat
  BY <1>2 DEF SearchInv, Types, Call
<1>4. begun \in Job /\ begun.gen = call.gen /\ ~begun.cancelled
  BY <1>3, FreshJob DEF NoJob
<1>5. dropped \in Job /\ dropped.gen = call.gen
  BY <1>3, FreshJob DEF NoJob
<1>7. CASE Cancelled(call.gen)
  <2> DEFINE end == Finished(dropped, FALSE)
  <2>1. Send(<<end>>) /\ job' = job
    BY <1>2, <1>7 DEF TakeSearch
  <2>2. end \in Signal /\ end.gen = call.gen /\ end.signal = "finished"
    BY <1>5, EndSignal
  <2>3. open /\ call.gen = generation => call.gen \in stopped
    BY <1>3, <1>7 DEF Cancelled, SearchInv, Stops
  <2> HIDE DEF end
  <2> QED  BY <1>1, <2>1, <2>2, <2>3, EndingAtOnce
<1>8. CASE ~Cancelled(call.gen) /\ call.tree = NoFolder
  <2> DEFINE end == Finished(begun, TRUE)
  <2>1. Send(<<end>>) /\ job' = job
    BY <1>2, <1>8 DEF TakeSearch
  <2>2. end \in Signal /\ end.gen = call.gen /\ end.signal = "finished" /\ end.says # "stopped"
    BY <1>4, EndSignal
  <2> HIDE DEF end
  <2> QED  BY <1>1, <2>1, <2>2, EndingAtOnce
<1>9. CASE ~Cancelled(call.gen) /\ call.tree # NoFolder
  <2>1. job' = [begun EXCEPT !.tree = call.tree] /\ toPanel' = toPanel
    BY <1>2, <1>9 DEF TakeSearch
  <2>2. job' \in Job /\ job'.gen = call.gen /\ ~job'.cancelled
    BY <1>3, <1>9, <2>1, FreshJob DEF NoJob
  <2>3. Types'
    BY <1>1, <1>2, <2>1, <2>2 DEF SearchInv, Types
  <2>4. Numbers'
    <3>1. \A i \in DOMAIN toWorker' : toWorker'[i].gen \in 1..generation
      BY <1>2 DEF SearchInv, Numbers
    <3> QED  BY <1>1, <1>3, <2>1, <2>2, <3>1 DEF SearchInv, Numbers
  <2>5. Ends' = Ends /\ Working'
    BY <1>3, <2>1, <2>2 DEF Ends, Working
  <2>6. \A i \in Ends : toPanel[i].gen # call.gen
    BY <1>2 DEF SearchInv, OnePlace
  <2>7. OnePlace'
    BY <1>2, <2>1, <2>2, <2>5, <2>6 DEF SearchInv, OnePlace
  <2>8. RunningHasSearch'
    <3>1. CASE call.gen = generation
      <4>1. open => running
        BY <1>2, <3>1 DEF SearchInv, RunningHasSearch
      <4> QED  BY <1>1, <2>2, <2>5, <3>1, <4>1 DEF RunningHasSearch
    <3>2. CASE call.gen # generation
      BY <1>1, <1>2, <2>1, <2>2, <2>5, <3>2 DEF SearchInv, RunningHasSearch
    <3> QED  BY <3>1, <3>2
  <2>9. Stops' /\ StoppedOnRequest'
    BY <1>1, <2>1, <2>2, <2>5 DEF SearchInv, Stops, StoppedOnRequest
  <2> QED  BY <2>3, <2>4, <2>7, <2>8, <2>9 DEF SearchInv
<1> QED  BY <1>7, <1>8, <1>9

(* The search under way goes on, whatever it tells of itself.               *)
LEMMA GoingOn ==
  ASSUME SearchInv, Working, job' \in Job, job'.gen = job.gen,
         NEW signals \in Seq(Signal), Send(signals),
         \A i \in DOMAIN signals : signals[i].signal # "finished" /\ signals[i].gen = job.gen,
         UNCHANGED <<generation, running, status, open, cancelBelow, toWorker, stopped>>,
         open /\ job.gen = generation /\ job'.cancelled => generation \in stopped
  PROVE  SearchInv'
<1>1. /\ toPanel' \in Seq(Signal)
      /\ \A i \in DOMAIN toPanel' : toPanel'[i].gen <= generation
      /\ open => Ends' = Ends /\ \A i \in Ends : toPanel'[i] = toPanel[i]
      /\ ~open => Ends' = {}
  <2>1. job.gen <= generation
    BY DEF SearchInv, Numbers
  <2> QED  BY <2>1, SendsNoEnd
<1>2. Working'
  BY DEF Working
<1>3. Types'
  BY <1>1 DEF SearchInv, Types
<1>4. Numbers'
  BY <1>1 DEF SearchInv, Numbers
<1>5. OnePlace'
  BY <1>1, <1>2 DEF SearchInv, OnePlace
<1>6. RunningHasSearch'
  <2>1. open => (running <=> \/ \E i \in DOMAIN toWorker : toWorker[i].gen = generation
                            \/ job.gen = generation
                            \/ \E i \in Ends : toPanel[i].gen = generation)
    BY DEF SearchInv, RunningHasSearch, Ends
  <2>2. open => (running <=> \/ \E i \in DOMAIN toWorker : toWorker[i].gen = generation
                            \/ job.gen = generation
                            \/ \E i \in Ends' : toPanel'[i].gen = generation)
    BY <1>1, <2>1
  <2> QED  BY <1>2, <2>2 DEF RunningHasSearch, Ends
<1>7. Stops' /\ StoppedOnRequest'
  BY <1>1, <1>2 DEF SearchInv, Stops, StoppedOnRequest
<1> QED  BY <1>3, <1>4, <1>5, <1>6, <1>7 DEF SearchInv

(* What the walk sends goes on with its search.                             *)
LEMMA WalkStep ==
  ASSUME SearchInv, WalkCancelled \/ WalkPast \/ WalkFound
  PROVE  SearchInv'
<1>1. /\ Walking /\ Working
      /\ UNCHANGED <<generation, running, status, open, cancelBelow, toWorker, stopped>>
  BY DEF WalkCancelled, WalkPast, WalkFound, Walk, Walking, panel
<1>2. /\ job \in Job /\ job.gen \in Nat /\ job.tree \in Trees \cup {<<>>} /\ job.at \in Nat \ {0}
      /\ job.pending \in Seq(FoundHit) /\ job.hits \in Nat
      /\ cancelBelow \in Nat /\ generation \in Nat /\ job.gen <= generation
  BY JobFields DEF SearchInv, Types, Numbers
<1>3. ~job.cancelled
  BY <1>1 DEF Walking
<1>4. CASE WalkCancelled
  <2>1. job' = [job EXCEPT !.cancelled = TRUE] /\ toPanel' = toPanel /\ cancelBelow >= job.gen
    BY <1>4 DEF WalkCancelled, Cancelled
  <2>2. job' \in Job /\ job'.gen = job.gen
    BY <1>2, <2>1 DEF Job
  <2>3. open /\ job.gen = generation => generation \in stopped
    BY <1>1, <1>2, <2>1 DEF SearchInv, Stops, Working
  <2>4. Working' /\ Ends' = Ends
    BY <1>1, <2>1, <2>2 DEF Working, Ends
  <2>5. Types'
    BY <1>1, <2>1, <2>2 DEF SearchInv, Types
  <2>6. Numbers'
    BY <1>1, <2>1, <2>2 DEF SearchInv, Numbers
  <2>7. OnePlace'
    BY <1>1, <2>1, <2>2, <2>4 DEF SearchInv, OnePlace
  <2>8. RunningHasSearch'
    BY <1>1, <2>1, <2>2, <2>4 DEF SearchInv, RunningHasSearch
  <2>9. Stops' /\ StoppedOnRequest'
    BY <1>1, <2>1, <2>2, <2>3, <2>4 DEF SearchInv, Stops, StoppedOnRequest
  <2> QED  BY <2>5, <2>6, <2>7, <2>8, <2>9 DEF SearchInv
<1>5. CASE WalkPast
  <2>1. job' = [job EXCEPT !.at = @ + 1]
    BY <1>5 DEF WalkPast
  <2>2. job' \in Job /\ job'.gen = job.gen /\ job'.cancelled = job.cancelled
    BY <1>2, <2>1 DEF Job
  <2>3. PICK signals \in {<<>>, <<Progress(job.gen, job.hits)>>} : Send(signals)
    BY <1>5 DEF WalkPast
  <2>4. Progress(job.gen, job.hits) \in Signal
    BY <1>2, SignalTypes
  <2>5. /\ Progress(job.gen, job.hits).signal # "finished"
        /\ Progress(job.gen, job.hits).gen = job.gen
    BY DEF Progress
  <2>6. /\ signals \in Seq(Signal)
        /\ \A i \in DOMAIN signals : signals[i].signal # "finished" /\ signals[i].gen = job.gen
    <3>1. CASE signals = <<>>
      BY <3>1
    <3>2. CASE signals = <<Progress(job.gen, job.hits)>>
      BY <2>4, <2>5, <3>2
    <3> QED  BY <2>3, <3>1, <3>2
  <2> QED  BY <1>1, <1>3, <2>2, <2>3, <2>6, GoingOn
<1>6. CASE WalkFound
  <2> DEFINE found == HitsOf(job.tree, job.at, job.hits)
             pending == job.pending \o found
             hits == job.hits + Len(found)
             batch == Batch(job.gen, pending)
             progress == Progress(job.gen, hits)
  <2>1. PICK sent \in BOOLEAN :
           /\ job' = [job EXCEPT !.at = @ + 1, !.hits = hits,
                                 !.pending = IF sent THEN <<>> ELSE pending,
                                 !.truncated = LimitReached(hits)]
           /\ Send((IF sent THEN <<batch>> ELSE <<>>) \o <<progress>>)
    BY <1>6 DEF WalkFound
  <2>2. job.tree \in Trees /\ job.at \in DOMAIN job.tree
    <3>1. job.at <= Len(job.tree)
      BY <1>1 DEF Walking
    <3>2. job.tree # <<>>
      BY <1>2, <3>1
    <3>3. job.tree \in Trees
      BY <1>2, <3>2
    <3>4. Len(job.tree) \in Nat /\ DOMAIN job.tree = 1..Len(job.tree)
      BY <3>3, SearchAssumption
    <3> QED  BY <1>2, <3>1, <3>3, <3>4
  <2>3. found \in Seq(FoundHit) /\ Len(found) \in Nat
    BY <1>2, <2>2, HitsType
  <2>4. pending \in Seq(FoundHit) /\ hits \in Nat
    <3> HIDE DEF found
    <3> QED  BY <1>2, <2>3
  <2>5. batch \in Signal /\ batch.gen = job.gen /\ batch.signal # "finished"
    <3>1. batch \in Signal
      BY <1>2, <2>4, SignalTypes
    <3> QED  BY <3>1 DEF Batch
  <2>6. progress \in Signal /\ progress.gen = job.gen /\ progress.signal # "finished"
    <3>1. progress \in Signal
      BY <1>2, <2>4, SignalTypes
    <3> QED  BY <3>1 DEF Progress
  <2>7. job' \in Job /\ job'.gen = job.gen /\ ~job'.cancelled
    <3> DEFINE rest == IF sent THEN <<>> ELSE pending
               limit == LimitReached(hits)
               Pending == Seq(FoundHit)
               Walked == Trees \cup {<<>>}
               next == job.at + 1
    <3>1. rest \in Pending
      <4> HIDE DEF pending
      <4> QED  BY <2>4
    <3>2. limit \in BOOLEAN
      BY DEF LimitReached
    <3>3. job' = [job EXCEPT !.at = next, !.hits = hits, !.pending = rest, !.truncated = limit]
      BY <2>1
    <3>4. Job = [gen : Nat, tree : Walked, at : Nat \ {0}, pending : Pending,
                 hits : Nat, cancelled : BOOLEAN, truncated : BOOLEAN]
      BY DEF Job
    <3>5. next \in Nat \ {0}
      BY <1>2
    <3> HIDE DEF rest, limit, Pending, Walked, next, hits
    <3>6. \A j \in Job : [j EXCEPT !.at = next, !.hits = hits] \in Job
      BY <2>4, <3>4, <3>5
    <3>7. \A j \in Job : [j EXCEPT !.pending = rest, !.truncated = limit] \in Job
      BY <3>1, <3>2, <3>4
    <3>8. job' = [[job EXCEPT !.at = next, !.hits = hits] EXCEPT !.pending = rest, !.truncated = limit]
      BY <3>3
    <3>9. job' \in Job
      BY <1>2, <3>6, <3>7, <3>8
    <3>10. job'.gen = job.gen /\ job'.cancelled = job.cancelled
      BY <1>2, <3>3, <3>4
    <3> QED  BY <1>3, <3>9, <3>10
  <2> DEFINE signals == (IF sent THEN <<batch>> ELSE <<>>) \o <<progress>>
  <2>8. /\ signals \in Seq(Signal)
        /\ \A i \in DOMAIN signals : signals[i].signal # "finished" /\ signals[i].gen = job.gen
    <3> HIDE DEF batch, progress
    <3>1. CASE sent
      BY <2>5, <2>6, <3>1
    <3>2. CASE ~sent
      BY <2>6, <3>2
    <3> QED  BY <3>1, <3>2
  <2>9. Send(signals)
    BY <2>1
  <2> HIDE DEF signals
  <2> QED  BY <1>1, <2>7, <2>8, <2>9, GoingOn
<1> QED  BY <1>4, <1>5, <1>6

(* search() after the walk.                                                 *)
LEMMA SearchEndsStep ==
  ASSUME SearchInv, SearchEnds
  PROVE  SearchInv'
<1> DEFINE batch == Batch(job.gen, job.pending)
           progress == Progress(job.gen, job.hits)
           end == Finished(job, FALSE)
           rest == job.pending # <<>>
           signals == (IF rest THEN <<batch>> ELSE <<>>) \o <<progress, end>>
           g == job.gen
<1>1. /\ Working /\ job' = NoJob /\ Send(signals) /\ toWorker' = toWorker
      /\ UNCHANGED <<generation, running, status, open, cancelBelow, stopped>>
  BY DEF SearchEnds, panel
<1>2. /\ job \in Job /\ job.gen \in Nat /\ job.pending \in Seq(FoundHit) /\ job.hits \in Nat
      /\ toWorker \in Seq(Call) /\ generation \in Nat /\ job.gen <= generation
  BY JobFields DEF SearchInv, Types, Numbers
<1>3. batch \in Signal /\ batch.gen = g /\ batch.signal # "finished"
  <2>1. batch \in Signal
    BY <1>2, SignalTypes
  <2> QED  BY <2>1 DEF Batch
<1>4. progress \in Signal /\ progress.gen = g /\ progress.signal # "finished"
  <2>1. progress \in Signal
    BY <1>2, SignalTypes
  <2> QED  BY <2>1 DEF Progress
<1>5. /\ end \in Signal /\ end.gen = g /\ end.signal = "finished"
      /\ end.says = "stopped" => job.cancelled
  BY <1>2, EndSignal
<1>6. /\ signals \in Seq(Signal) /\ signals # <<>> /\ Len(signals) \in Nat
      /\ \A i \in DOMAIN signals : signals[i].gen = g
      /\ \A i \in DOMAIN signals : signals[i].signal = "finished" <=> i = Len(signals)
      /\ signals[Len(signals)] = end
  <2> HIDE DEF batch, progress, end, rest, g
  <2>1. CASE rest
    BY <1>3, <1>4, <1>5, <2>1
  <2>2. CASE ~rest
    BY <1>4, <1>5, <2>2
  <2> QED  BY <2>1, <2>2
<1>7. g \in 1..generation
  BY <1>1, <1>2 DEF Working
<1>8. open /\ g = generation /\ signals[Len(signals)].says = "stopped" => g \in stopped
  BY <1>1, <1>5, <1>6 DEF SearchInv, Stops
<1>9. job' \in Job /\ job'.gen = 0
  BY <1>1, FreshJob DEF NoJob
<1>10. /\ \A i \in DOMAIN toWorker' :
             toWorker'[i].gen # g /\ \E k \in DOMAIN toWorker : toWorker'[i].gen = toWorker[k].gen
       /\ \A i, j \in DOMAIN toWorker' : i # j => toWorker'[i].gen # toWorker'[j].gen
       /\ \A k \in DOMAIN toWorker : toWorker[k].gen # g
            => \E i \in DOMAIN toWorker' : toWorker'[i].gen = toWorker[k].gen
  BY <1>1 DEF SearchInv, OnePlace
<1>11. Working => job.gen = g
  OBVIOUS
<1> HIDE DEF signals, g
<1> QED  BY <1>1, <1>2, <1>6, <1>7, <1>8, <1>9, <1>10, <1>11, Ending

(* All that the worker's thread does.                                       *)
LEMMA WorkerStep ==
  ASSUME SearchInv, Worker
  PROVE  SearchInv'
<1>1. CASE ThreadEnds
  <2>1. /\ ~open /\ ~open' /\ toWorker' = <<>> /\ ~Working
        /\ UNCHANGED <<generation, running, status, open, cancelBelow, job, toPanel, stopped>>
    BY <1>1 DEF ThreadEnds, panel
  <2>2. toWorker' \in Seq(Call) /\ DOMAIN toWorker' = {}
    BY <2>1
  <2>3. Types'
    BY <2>1, <2>2 DEF SearchInv, Types
  <2>4. Numbers'
    BY <2>1, <2>2 DEF SearchInv, Numbers
  <2>5. Ends' = Ends /\ ~Working'
    BY <2>1 DEF Ends, Working
  <2>6. OnePlace'
    BY <2>1, <2>2, <2>5 DEF SearchInv, OnePlace
  <2>7. RunningHasSearch' /\ Stops' /\ StoppedOnRequest'
    BY <2>1 DEF SearchInv, RunningHasSearch, Stops, StoppedOnRequest
  <2> QED  BY <2>3, <2>4, <2>6, <2>7 DEF SearchInv
<1> QED  BY <1>1, TakeSearchStep, WalkStep, SearchEndsStep DEF Worker

-----------------------------------------------------------------------------
(* The panel receives its first signal.                                     *)
LEMMA Receiving ==
  ASSUME SearchInv, toPanel # <<>>, toPanel' = Tail(toPanel)
  PROVE  /\ 1 \in DOMAIN toPanel /\ Head(toPanel) = toPanel[1] /\ toPanel[1] \in Signal
         /\ toPanel' \in Seq(Signal)
         /\ \A i \in DOMAIN toPanel' : /\ i + 1 \in DOMAIN toPanel /\ i + 1 # 1
                                        /\ toPanel'[i] = toPanel[i + 1]
         /\ \A i \in DOMAIN toPanel : i # 1 => /\ i - 1 \in DOMAIN toPanel'
                                                /\ toPanel'[i - 1] = toPanel[i]
         /\ \A i, j \in DOMAIN toPanel' : i # j => i + 1 # j + 1
<1>1. toPanel \in Seq(Signal)
  BY DEF SearchInv, Types
<1> QED  BY <1>1

(* onBatch(), onProgress() and onFinished(): a signal of another search     *)
(* changes nothing, and the end of the current one takes the button with it.*)
LEMMA SlotsStep ==
  ASSUME SearchInv, Slots
  PROVE  SearchInv'
<1> DEFINE first == toPanel[1]
<1>1. /\ open /\ toPanel # <<>> /\ toPanel' = Tail(toPanel)
      /\ UNCHANGED <<generation, open, cancelBelow, job, toWorker, stopped>>
  BY DEF Slots, OnBatch, OnProgress, OnFinished, NextSignal
<1>2. /\ 1 \in DOMAIN toPanel /\ Head(toPanel) = first /\ first \in Signal
      /\ toPanel' \in Seq(Signal)
      /\ \A i \in DOMAIN toPanel' : /\ i + 1 \in DOMAIN toPanel /\ i + 1 # 1
                                     /\ toPanel'[i] = toPanel[i + 1]
      /\ \A i \in DOMAIN toPanel : i # 1 => /\ i - 1 \in DOMAIN toPanel'
                                             /\ toPanel'[i - 1] = toPanel[i]
      /\ \A i, j \in DOMAIN toPanel' : i # j => i + 1 # j + 1
  BY <1>1, Receiving
<1>3. running' \in BOOLEAN
  BY DEF Slots, OnBatch, OnProgress, OnFinished, SearchInv, Types
<1>4. Types'
  BY <1>1, <1>2, <1>3 DEF SearchInv, Types
<1>5. Numbers'
  BY <1>1, <1>2 DEF SearchInv, Numbers
<1>6. /\ \A i \in Ends' : i + 1 \in Ends /\ i + 1 # 1 /\ toPanel'[i] = toPanel[i + 1]
      /\ \A i \in Ends : i # 1 => i - 1 \in Ends' /\ toPanel'[i - 1] = toPanel[i]
      /\ \A i, j \in Ends' : i # j => i + 1 # j + 1
  BY <1>2 DEF Ends
<1>7. Working' <=> Working
  BY <1>1 DEF Working
<1>8. OnePlace'
  <2>1. \A i, j \in Ends' : i # j => toPanel'[i].gen # toPanel'[j].gen
    <3> SUFFICES ASSUME NEW i \in Ends', NEW j \in Ends', i # j
                 PROVE  toPanel'[i].gen # toPanel'[j].gen
      OBVIOUS
    <3>1. i + 1 \in Ends /\ j + 1 \in Ends /\ i + 1 # j + 1
      BY <1>6
    <3>2. toPanel'[i] = toPanel[i + 1] /\ toPanel'[j] = toPanel[j + 1]
      BY <1>6
    <3> QED  BY <3>1, <3>2 DEF SearchInv, OnePlace
  <2>2. \A i \in Ends' : /\ \A j \in DOMAIN toWorker : toWorker[j].gen # toPanel'[i].gen
                         /\ Working => toPanel'[i].gen # job.gen
    BY <1>6 DEF SearchInv, OnePlace
  <2> QED  BY <1>1, <1>7, <2>1, <2>2 DEF SearchInv, OnePlace
<1>9. Stops'
  BY <1>1, <1>6, <1>7 DEF SearchInv, Stops
<1>10. running <=> \/ \E i \in DOMAIN toWorker : toWorker[i].gen = generation
                   \/ job.gen = generation /\ Working
                   \/ \E i \in Ends : toPanel[i].gen = generation
  BY <1>1 DEF SearchInv, RunningHasSearch, Ends
<1>11. CASE first.signal # "finished" \/ first.gen # generation
  <2>1. running' = running /\ (status' = status \/ status'.says = "searching")
    BY <1>2, <1>11 DEF Slots, OnBatch, OnProgress, OnFinished, NextSignal, Current
  <2>2. (\E i \in Ends : toPanel[i].gen = generation) <=> \E i \in Ends' : toPanel'[i].gen = generation
    <3>1. \A i \in Ends : toPanel[i].gen = generation => i # 1
      BY <1>11 DEF Ends
    <3> QED  BY <1>6, <3>1
  <2>3. RunningHasSearch'
    BY <1>1, <1>7, <1>10, <2>1, <2>2 DEF RunningHasSearch, Ends
  <2>4. StoppedOnRequest'
    BY <1>1, <2>1 DEF SearchInv, StoppedOnRequest
  <2> QED  BY <1>4, <1>5, <1>8, <1>9, <2>3, <2>4 DEF SearchInv
<1>12. CASE first.signal = "finished" /\ first.gen = generation
  <2>1. running' = FALSE /\ status'.says = first.says
    BY <1>2, <1>12 DEF Slots, OnBatch, OnProgress, OnFinished, NextSignal, Current
  <2>2. 1 \in Ends
    BY <1>2, <1>12 DEF Ends
  <2>3. /\ \A i \in DOMAIN toWorker : toWorker[i].gen # generation
        /\ Working => job.gen # generation
        /\ \A i \in Ends : i # 1 => toPanel[i].gen # generation
    BY <1>12, <2>2 DEF SearchInv, OnePlace
  <2>4. \A i \in Ends' : toPanel'[i].gen # generation
    BY <1>6, <2>3
  <2>5. RunningHasSearch'
    BY <1>1, <1>7, <2>1, <2>3, <2>4 DEF RunningHasSearch, Ends
  <2>6. StoppedOnRequest'
    BY <1>1, <1>12, <2>1, <2>2 DEF SearchInv, Stops, StoppedOnRequest
  <2> QED  BY <1>4, <1>5, <1>8, <1>9, <2>5, <2>6 DEF SearchInv
<1> QED  BY <1>11, <1>12

-----------------------------------------------------------------------------
(* The panel as it is made.                                                 *)
LEMMA Begins ==
  ASSUME Init
  PROVE  SearchInv
<1>1. job \in Job
  BY FreshJob DEF Init
<1>2. /\ toWorker = <<>> /\ toPanel = <<>> /\ generation = 0 /\ cancelBelow = 0 /\ ~running /\ open
      /\ running \in BOOLEAN /\ open \in BOOLEAN /\ job.gen = 0 /\ status.says = "nothing"
  BY DEF Init, NoJob
<1>3. ~Working
  BY <1>2 DEF Working
<1>4. toWorker \in Seq(Call) /\ toPanel \in Seq(Signal) /\ DOMAIN toWorker = {} /\ DOMAIN toPanel = {}
  BY <1>2
<1>5. Ends = {}
  BY <1>4 DEF Ends
<1>6. Types /\ Numbers
  BY <1>1, <1>2, <1>4 DEF Types, Numbers
<1>7. OnePlace
  BY <1>3, <1>4, <1>5 DEF OnePlace
<1>8. RunningHasSearch /\ Stops /\ StoppedOnRequest
  BY <1>2, <1>3, <1>4, <1>5 DEF RunningHasSearch, Stops, StoppedOnRequest
<1> QED  BY <1>6, <1>7, <1>8 DEF SearchInv

(* Every step of either thread keeps it.                                    *)
THEOREM SearchInductive == Spec => []SearchInv
<1>1. SearchInv /\ [Next]_vars => SearchInv'
  <2> SUFFICES ASSUME SearchInv, [Next]_vars
               PROVE  SearchInv'
    OBVIOUS
  <2>1. CASE UNCHANGED vars
    <3>1. UNCHANGED <<generation, running, status, open, job, toWorker, toPanel, cancelBelow, stopped>>
      BY <2>1 DEF vars, panel
    <3>2. cancelBelow' \in Nat /\ cancelBelow' <= generation
      BY <3>1 DEF SearchInv, Types, Numbers
    <3> QED  BY <3>1, <3>2, Untouched
  <2> QED  BY <2>1, UserStep, WorkerStep, SlotsStep DEF Next
<1> QED  BY <1>1, Begins, PTL DEF Spec

(* The panel's button offers to stop exactly as long as the current search  *)
(* is queued, under way or its end on its way: a search abandoned, refused  *)
(* a folder or outrun by the next one never takes the button with it, and   *)
(* none is left without it (startSearch, search, onFinished).               *)
THEOREM ButtonMeansSearch == Spec => []RunningHasSearch
BY SearchInductive, PTL DEF SearchInv

(* A search the panel reports as stopped is one the user has stopped, never *)
(* the one just started (startSearch, cancelUpTo, onFinished).              *)
THEOREM StopsOnRequest == Spec => []StoppedOnRequest
BY SearchInductive, PTL DEF SearchInv
-----------------------------------------------------------------------------
(* What the results panel shows.                                           *)
Row == [line : Nat, matchCount : Nat]
Rows == [Files -> Seq(Row)]

(* What a search may be shown for: what is found there is in order.         *)
Known(t) ==
    /\ Len(t) \in Nat /\ DOMAIN t = 1..Len(t)
    /\ \A i \in DOMAIN t :
         t[i].kind = "text" => i \in Files /\ t[i].lines \in Seq(Nat) /\ InOrder(t[i].lines)

LEMMA Singleton ==
  ASSUME NEW x
  PROVE  <<x>> \in Seq({x}) /\ Len(<<x>>) = 1 /\ DOMAIN <<x>> = 1..1 /\ <<x>>[1] = x
OBVIOUS

LEMMA TreesKnown ==
  /\ \A t \in Trees : Known(t) /\ t \in Seq([kind : {"skipped", "text"}, lines : Seq(Nat)])
  /\ Known(NoFolder) /\ Known(<<>>)
<1>1. ASSUME NEW t \in Trees
      PROVE  Known(t) /\ t \in Seq([kind : {"skipped", "text"}, lines : Seq(Nat)])
  <2> DEFINE File == [kind : {"skipped", "text"}, lines : Seq(Nat)]
  <2>1. t \in Seq(File) /\ Len(t) <= MaxFiles /\ MaxFiles \in Nat
        /\ \A i \in DOMAIN t : InOrder(t[i].lines)
    BY SearchAssumption
  <2>2. \A i \in DOMAIN t : t[i] \in File
    <3> HIDE DEF File
    <3> QED  BY <2>1
  <2>3. \A i \in DOMAIN t : t[i].lines \in Seq(Nat)
    BY <2>2
  <2>4. Len(t) \in Nat /\ DOMAIN t = 1..Len(t)
    <3> HIDE DEF File
    <3> QED  BY <2>1
  <2>5. \A i \in DOMAIN t : i \in Files
    BY <2>1, <2>4 DEF Files
  <2> QED  BY <2>1, <2>3, <2>4, <2>5 DEF Known
<1>2. Known(NoFolder)
  <2> DEFINE none == <<>>
             file == [kind |-> "no folder", lines |-> none]
  <2>1. NoFolder = <<file>> /\ file.kind = "no folder"
    BY DEF NoFolder
  <2>2. Len(NoFolder) = 1 /\ DOMAIN NoFolder = 1..1 /\ NoFolder[1] = file
    BY <2>1, Singleton
  <2> HIDE DEF file
  <2>3. \A i \in DOMAIN NoFolder : i = 1
    BY <2>2
  <2>4. \A i \in DOMAIN NoFolder : NoFolder[i].kind # "text"
    BY <2>1, <2>2, <2>3
  <2> QED  BY <2>2, <2>4 DEF Known
<1>3. Known(<<>>)
  BY DEF Known
<1> QED  BY <1>1, <1>2, <1>3

-----------------------------------------------------------------------------
(* The hits of one file.                                                    *)
LEMMA HitsInFile ==
  ASSUME NEW t, Known(t), NEW i \in DOMAIN t
  PROVE  /\ HitsIn(t, i) \in Seq(Hit)
         /\ \A k \in DOMAIN HitsIn(t, i) : HitsIn(t, i)[k].file = i
         /\ \A j, k \in DOMAIN HitsIn(t, i) : j < k => HitsIn(t, i)[j].line <= HitsIn(t, i)[k].line
<1>1. CASE t[i].kind = "text"
  <2> DEFINE lines == t[i].lines
             hits == [k \in DOMAIN lines |-> [file |-> i, line |-> lines[k]]]
  <2>1. i \in Files /\ lines \in Seq(Nat) /\ InOrder(lines)
    BY <1>1 DEF Known
  <2>2. HitsIn(t, i) = hits
    BY <1>1 DEF HitsIn
  <2>3. DOMAIN lines = 1..Len(lines) /\ Len(lines) \in Nat /\ \A k \in DOMAIN lines : lines[k] \in Nat
    BY <2>1
  <2>4. \A k \in DOMAIN lines : hits[k] \in Hit /\ hits[k].file = i /\ hits[k].line = lines[k]
    BY <2>1, <2>3 DEF Hit
  <2>5. hits \in Seq(Hit) /\ DOMAIN hits = DOMAIN lines
    <3>1. DOMAIN hits = 1..Len(lines)
      BY <2>3
    <3> HIDE DEF hits
    <3>2. hits = [k \in 1..Len(lines) |-> hits[k]]
      BY <3>1 DEF hits
    <3> QED  BY <2>3, <2>4, <3>1, <3>2
  <2> HIDE DEF hits
  <2> QED  BY <2>1, <2>2, <2>4, <2>5 DEF InOrder
<1>2. CASE t[i].kind # "text"
  BY <1>2 DEF HitsIn
<1> QED  BY <1>1, <1>2

(* What is found grows file by file.                                        *)
LEMMA FoundSteps ==
  ASSUME NEW t, Known(t)
  PROVE  /\ \A i \in 0..Len(t) : FoundUpTo(t)[i] \in Seq(Hit)
         /\ FoundUpTo(t)[0] = <<>>
         /\ \A i \in 1..Len(t) : FoundUpTo(t)[i] = FoundUpTo(t)[i - 1] \o HitsIn(t, i)
<1> DEFINE N == Len(t)
           step == [i \in 1..N |-> [d \in Seq(Hit) |-> d \o HitsIn(t, i)]]
           none == <<>>
           F == FoundUpTo(t)
<1>1. N \in Nat /\ \A i \in 1..N : HitsIn(t, i) \in Seq(Hit)
  BY HitsInFile DEF Known
<1>2. step \in [1..N -> [Seq(Hit) -> Seq(Hit)]]
  <2> SUFFICES ASSUME NEW i \in 1..N
               PROVE  [d \in Seq(Hit) |-> d \o HitsIn(t, i)] \in [Seq(Hit) -> Seq(Hit)]
    OBVIOUS
  <2>1. \A d \in Seq(Hit) : d \o HitsIn(t, i) \in Seq(Hit)
    BY <1>1, ConcatProperties
  <2> QED  BY <2>1
<1>3. none \in Seq(Hit)
  OBVIOUS
<1>4. PICK g : Recurs(g, Seq(Hit), none, N, step)
  <2> HIDE DEF none, step, N
  <2> QED  BY <1>1, <1>2, <1>3, RecursionExists
<1>5. g = [i \in 0..N |-> IF i = 0 THEN <<>> ELSE g[i - 1] \o HitsIn(t, i)]
  <2>1. g \in [0..N -> Seq(Hit)] /\ g = [i \in 0..N |-> IF i = 0 THEN none ELSE step[i][g[i - 1]]]
    BY <1>4 DEF Recurs
  <2>2. ASSUME NEW i \in 0..N, i # 0 PROVE step[i][g[i - 1]] = g[i - 1] \o HitsIn(t, i)
    <3>1. i \in 1..N /\ i - 1 \in 0..N
      BY <1>1, <2>2
    <3>2. g[i - 1] \in Seq(Hit)
      BY <2>1, <3>1
    <3>3. step[i] = [d \in Seq(Hit) |-> d \o HitsIn(t, i)]
      BY <3>1
    <3> HIDE DEF step
    <3> QED  BY <3>2, <3>3
  <2> HIDE DEF step
  <2>3. \A i \in 0..N : (IF i = 0 THEN none ELSE step[i][g[i - 1]])
                          = IF i = 0 THEN <<>> ELSE g[i - 1] \o HitsIn(t, i)
    BY <2>2
  <2> QED  BY <2>1, <2>3
<1>6. F = [i \in 0..N |-> IF i = 0 THEN <<>> ELSE F[i - 1] \o HitsIn(t, i)]
  BY <1>5 DEF FoundUpTo
<1> HIDE DEF F
<1>7. F[0] = none /\ \A i \in 1..N : F[i] = F[i - 1] \o HitsIn(t, i)
  <2> DEFINE next(i) == IF i = 0 THEN <<>> ELSE F[i - 1] \o HitsIn(t, i)
  <2>1. F = [i \in 0..N |-> next(i)]
    BY <1>6
  <2>2. next(0) = none /\ \A i \in 1..N : next(i) = F[i - 1] \o HitsIn(t, i)
    BY <1>1
  <2> HIDE DEF next
  <2>3. \A i \in 0..N : F[i] = next(i)
    BY <2>1
  <2>4. 0 \in 0..N /\ \A i \in 1..N : i \in 0..N
    BY <1>1
  <2> QED  BY <2>2, <2>3, <2>4
<1>8. \A i \in 0..N : F[i] \in Seq(Hit)
  <2> DEFINE S == {i \in Nat : F[i] \in Seq(Hit)}
  <2>1. 0 \in S
    BY <1>3, <1>7
  <2>2. ASSUME NEW i \in Nat, i < N, i \in S PROVE i + 1 \in S
    <3>1. i + 1 \in 1..N /\ i + 1 - 1 = i
      BY <1>1, <2>2
    <3>2. HitsIn(t, i + 1) \in Seq(Hit)
      BY <1>1, <3>1
    <3>3. F[i] \in Seq(Hit)
      BY <2>2
    <3>4. F[i + 1] = F[i] \o HitsIn(t, i + 1)
      <4>1. PICK j \in 1..N : j = i + 1
        BY <3>1
      <4>2. F[j] = F[j - 1] \o HitsIn(t, j)
        BY <1>7
      <4>3. j - 1 = i
        BY <4>1
      <4> QED  BY <4>1, <4>2, <4>3
    <3>5. F[i + 1] \in Seq(Hit)
      BY <3>2, <3>3, <3>4, ConcatProperties
    <3> QED  BY <3>5
  <2> HIDE DEF S, N
  <2>3. 0..N \subseteq S
    BY <1>1, <2>1, <2>2, BoundedInduction
  <2> QED  BY <2>3 DEF S
<1> QED  BY <1>7, <1>8 DEF F

(* What is found in the first files is where all that is found begins.      *)
Opens(u, v) == Len(u) <= Len(v) /\ \A k \in 1..Len(u) : v[k] = u[k]

(* The elements of a sequence with another after it.                        *)
LEMMA JoinedIs ==
  ASSUME NEW D, NEW u \in Seq(D), NEW v \in Seq(D)
  PROVE  /\ u \o v \in Seq(D) /\ Len(u \o v) = Len(u) + Len(v)
         /\ \A k \in 1..Len(u) : (u \o v)[k] = u[k]
         /\ \A k \in 1..Len(v) : (u \o v)[Len(u) + k] = v[k]
         /\ \A k \in DOMAIN (u \o v) : \/ k \in DOMAIN u /\ (u \o v)[k] = u[k]
                                       \/ /\ k > Len(u) /\ k - Len(u) \in DOMAIN v
                                          /\ (u \o v)[k] = v[k - Len(u)]
OBVIOUS

LEMMA FoundPrefix ==
  ASSUME NEW t, Known(t)
  PROVE  /\ Found(t) \in Seq(Hit)
         /\ \A i \in 0..Len(t) : Opens(FoundUpTo(t)[i], Found(t))
<1> DEFINE N == Len(t)
           F == FoundUpTo(t)
           S == {j \in Nat : \A i \in 0..j : Opens(F[i], F[j])}
<1>1. N \in Nat
  BY DEF Known
<1>2. /\ \A i \in 0..N : F[i] \in Seq(Hit)
      /\ \A i \in 1..N : F[i] = F[i - 1] \o HitsIn(t, i) /\ HitsIn(t, i) \in Seq(Hit)
  BY FoundSteps, HitsInFile DEF Known
<1> HIDE DEF F
<1>3. 0 \in S
  <2>1. Opens(F[0], F[0])
    BY <1>1, <1>2 DEF Opens
  <2>2. \A i \in 0..0 : i = 0
    OBVIOUS
  <2> QED  BY <2>1, <2>2
<1>4. ASSUME NEW j \in Nat, j < N, j \in S PROVE j + 1 \in S
  <2>1. PICK m \in 1..N : m = j + 1
    BY <1>1, <1>4
  <2>2. m - 1 = j /\ j \in 0..N
    BY <1>1, <1>4, <2>1
  <2>3. F[m] = F[j] \o HitsIn(t, m) /\ F[j] \in Seq(Hit) /\ HitsIn(t, m) \in Seq(Hit)
    BY <1>2, <2>2
  <2>4. Opens(F[j], F[m])
    BY <2>3, JoinedIs DEF Opens
  <2>5. ASSUME NEW i \in 0..j PROVE Opens(F[i], F[m])
    <3>1. Opens(F[i], F[j])
      BY <1>4
    <3>2. F[i] \in Seq(Hit) /\ F[j] \in Seq(Hit) /\ F[m] \in Seq(Hit)
      BY <1>1, <1>2, <2>1, <2>2
    <3> QED  BY <2>4, <3>1, <3>2 DEF Opens
  <2>6. Opens(F[m], F[m])
    <3>1. F[m] \in Seq(Hit)
      BY <1>2, <1>1, <2>1
    <3> QED  BY <3>1 DEF Opens
  <2>7. \A i \in 0..(j + 1) : i = m \/ i \in 0..j
    BY <2>1
  <2> QED  BY <2>1, <2>5, <2>6, <2>7
<1> HIDE DEF S
<1>5. 0..N \subseteq S
  BY <1>1, <1>3, <1>4, BoundedInduction
<1>6. N \in S /\ N \in 0..N
  BY <1>1, <1>5
<1> QED  BY <1>2, <1>6 DEF S, F, Found

(* The files are walked one after the other, and each from its first match. *)
LEMMA FoundInOrder ==
  ASSUME NEW t, Known(t)
  PROVE  \A j, k \in DOMAIN Found(t) :
           j < k /\ Found(t)[j].file = Found(t)[k].file => Found(t)[j].line <= Found(t)[k].line
<1> DEFINE N == Len(t)
           F == FoundUpTo(t)
           Filed(i) == \A k \in DOMAIN F[i] : F[i][k].file \in 1..i
           Lines(i) == \A j, k \in DOMAIN F[i] :
                          j < k /\ F[i][j].file = F[i][k].file => F[i][j].line <= F[i][k].line
           S == {i \in Nat : Filed(i) /\ Lines(i)}
<1>1. N \in Nat
  BY DEF Known
<1>2. /\ \A i \in 0..N : F[i] \in Seq(Hit)
      /\ F[0] = <<>>
      /\ \A i \in 1..N : F[i] = F[i - 1] \o HitsIn(t, i)
  BY FoundSteps
<1>3. \A i \in 1..N : /\ HitsIn(t, i) \in Seq(Hit)
                      /\ \A k \in DOMAIN HitsIn(t, i) : HitsIn(t, i)[k].file = i
                      /\ \A j, k \in DOMAIN HitsIn(t, i) :
                           j < k => HitsIn(t, i)[j].line <= HitsIn(t, i)[k].line
  BY HitsInFile DEF Known
<1> HIDE DEF F
<1>4. 0 \in S
  BY <1>2
<1>5. ASSUME NEW i \in Nat, i < N, i \in S PROVE i + 1 \in S
  <2>1. PICK m \in 1..N : m = i + 1
    BY <1>1, <1>5
  <2>2. m - 1 = i /\ i \in 0..N
    BY <1>1, <1>5, <2>1
  <2> DEFINE u == F[i]
             v == HitsIn(t, m)
             w == u \o v
  <2>3. u \in Seq(Hit) /\ v \in Seq(Hit) /\ F[m] = w
    BY <1>2, <1>3, <2>2
  <2>4. /\ \A k \in DOMAIN v : v[k].file = m
        /\ \A j, k \in DOMAIN v : j < k => v[j].line <= v[k].line
    BY <1>3
  <2>5. /\ \A k \in DOMAIN u : u[k].file \in 1..i
        /\ \A j, k \in DOMAIN u : j < k /\ u[j].file = u[k].file => u[j].line <= u[k].line
    BY <1>5
  <2> HIDE DEF v
  <2>6. \A k \in DOMAIN w : \/ k \in DOMAIN u /\ w[k] = u[k]
                            \/ k > Len(u) /\ k - Len(u) \in DOMAIN v /\ w[k] = v[k - Len(u)]
    BY <2>3, JoinedIs
  <2> HIDE DEF u, w
  <2>7. ASSUME NEW k \in DOMAIN w PROVE w[k].file \in 1..m
    BY <2>1, <2>4, <2>5, <2>6
  <2>8. ASSUME NEW j \in DOMAIN w, NEW k \in DOMAIN w, j < k, w[j].file = w[k].file
        PROVE  w[j].line <= w[k].line
    <3>1. DOMAIN w = 1..Len(w) /\ Len(u) \in Nat /\ DOMAIN u = 1..Len(u)
      BY <2>3 DEF w
    <3>2. CASE k \in DOMAIN u /\ w[k] = u[k]
      <4>1. j \in DOMAIN u /\ w[j] = u[j]
        BY <2>6, <2>8, <3>1, <3>2
      <4> QED  BY <2>5, <2>8, <3>2, <4>1
    <3>3. CASE k > Len(u) /\ k - Len(u) \in DOMAIN v /\ w[k] = v[k - Len(u)]
      <4>1. w[k].file = m
        BY <2>4, <3>3
      <4>2. j \notin DOMAIN u
        BY <2>1, <2>5, <2>6, <2>8, <3>1, <4>1
      <4>3. j - Len(u) \in DOMAIN v /\ w[j] = v[j - Len(u)] /\ j - Len(u) < k - Len(u)
        BY <2>6, <2>8, <3>1, <4>2
      <4> QED  BY <2>4, <3>3, <4>3
    <3> QED  BY <2>6, <3>2, <3>3
  <2>9. Filed(m) /\ Lines(m)
    BY <2>3, <2>7, <2>8
  <2> HIDE DEF Filed, Lines
  <2> QED  BY <2>1, <2>9
<1> HIDE DEF S
<1>6. 0..N \subseteq S
  BY <1>1, <1>4, <1>5, BoundedInduction
<1>7. N \in S
  BY <1>1, <1>6
<1> QED  BY <1>7 DEF S, F, Found

-----------------------------------------------------------------------------
(* The hits a to b of a search.                                             *)
Part(t, a, b) == [k \in 1..(b - a) |-> Found(t)[a + k]]

LEMMA PartType ==
  ASSUME NEW t, Known(t), NEW a \in Nat, NEW b \in Nat, a <= b, b <= Len(Found(t))
  PROVE  /\ Part(t, a, b) \in Seq(Hit) /\ Len(Part(t, a, b)) = b - a
         /\ \A k \in 1..(b - a) : Part(t, a, b)[k] = Found(t)[a + k]
<1>1. Found(t) \in Seq(Hit)
  BY FoundPrefix
<1>2. b - a \in Nat
  OBVIOUS
<1>3. \A k \in 1..(b - a) : a + k \in DOMAIN Found(t)
  BY <1>1
<1>4. \A k \in 1..(b - a) : Found(t)[a + k] \in Hit
  BY <1>1, <1>3
<1>5. Part(t, a, b) \in [1..(b - a) -> Hit]
  BY <1>4 DEF Part
<1> QED  BY <1>2, <1>5 DEF Part

LEMMA PartsJoin ==
  ASSUME NEW t, Known(t), NEW a \in Nat, NEW b \in Nat, NEW c \in Nat,
         a <= b, b <= c, c <= Len(Found(t))
  PROVE  Part(t, a, b) \o Part(t, b, c) = Part(t, a, c)
<1> DEFINE u == Part(t, a, b)
           v == Part(t, b, c)
           w == Part(t, a, c)
<1>0. Len(Found(t)) \in Nat
  BY FoundPrefix
<1>0a. b <= Len(Found(t)) /\ a <= c
  BY <1>0
<1>1. u \in Seq(Hit) /\ Len(u) = b - a /\ \A k \in 1..(b - a) : u[k] = Found(t)[a + k]
  BY <1>0a, PartType
<1>2. v \in Seq(Hit) /\ Len(v) = c - b /\ \A k \in 1..(c - b) : v[k] = Found(t)[b + k]
  BY <1>0a, PartType
<1>3. w \in Seq(Hit) /\ Len(w) = c - a /\ \A k \in 1..(c - a) : w[k] = Found(t)[a + k]
  BY <1>0a, PartType
<1> HIDE DEF u, v, w
<1>4. u \o v \in Seq(Hit) /\ Len(u \o v) = c - a
  BY <1>1, <1>2
<1>5. ASSUME NEW k \in 1..(c - a) PROVE (u \o v)[k] = w[k]
  <2>1. CASE k <= b - a
    BY <1>1, <1>2, <1>3, <2>1
  <2>2. CASE ~(k <= b - a)
    <3>1. k - (b - a) \in 1..(c - b) /\ b + (k - (b - a)) = a + k
      BY <2>2
    <3>2. (u \o v)[k] = v[k - (b - a)]
      BY <1>1, <1>2, <2>2, <3>1
    <3> QED  BY <1>2, <1>3, <3>1, <3>2
  <2> QED  BY <2>1, <2>2
<1>6. u \o v = w
  <2> DEFINE x == u \o v
  <2> HIDE DEF x
  <2>0. x \in Seq(Hit) /\ Len(x) = c - a /\ w \in Seq(Hit) /\ Len(w) = c - a
    BY <1>3, <1>4 DEF x
  <2>1. x \in [1..(c - a) -> Hit] /\ w \in [1..(c - a) -> Hit]
    <3>1. x \in [1..Len(x) -> Hit] /\ w \in [1..Len(w) -> Hit]
      BY <2>0, LenProperties
    <3> QED  BY <2>0, <3>1
  <2>2. \A k \in 1..(c - a) : x[k] = w[k]
    BY <1>5 DEF x
  <2>3. x = w
    BY <2>1, <2>2
  <2> QED  BY <2>3 DEF x
<1> QED  BY <1>6 DEF u, v, w

(* What a step of the walk adds is what comes next, up to the limit.        *)
LEMMA WalkFinds ==
  ASSUME NEW t, Known(t), NEW i \in DOMAIN t, t[i].kind = "text",
         NEW n, n = Len(FoundUpTo(t)[i - 1]), ~LimitReached(n)
  PROVE  /\ n \in Nat /\ Len(HitsOf(t, i, n)) \in Nat
         /\ n + Len(HitsOf(t, i, n)) <= Limit(t)
         /\ HitsOf(t, i, n) = Part(t, n, n + Len(HitsOf(t, i, n)))
         /\ IF LimitReached(n + Len(HitsOf(t, i, n)))
            THEN n + Len(HitsOf(t, i, n)) = MaxHits
            ELSE n + Len(HitsOf(t, i, n)) = Len(FoundUpTo(t)[i])
<1> DEFINE all == HitsIn(t, i)
           before == FoundUpTo(t)[i - 1]
           after == FoundUpTo(t)[i]
           found == Found(t)
           k == Len(t[i].lines)
           r == Room(n, k)
<1>0. n = Len(before)
  OBVIOUS
<1>1. i \in 1..Len(t) /\ i - 1 \in 0..Len(t) /\ i \in 0..Len(t)
  BY DEF Known
<1>2. before \in Seq(Hit) /\ after \in Seq(Hit) /\ all \in Seq(Hit) /\ after = before \o all
  BY <1>1, FoundSteps, HitsInFile
<1>3. found \in Seq(Hit) /\ Opens(after, found)
  BY <1>1, FoundPrefix
<1>4. t[i].lines \in Seq(Nat) /\ k \in Nat /\ DOMAIN t[i].lines = 1..k
  BY DEF Known
<1>5. all = [m \in 1..k |-> [file |-> i, line |-> t[i].lines[m]]] /\ Len(all) = k
  <2>1. all = [m \in 1..k |-> [file |-> i, line |-> t[i].lines[m]]]
    BY <1>4 DEF HitsIn
  <2>2. DOMAIN all = 1..k
    BY <2>1
  <2> HIDE DEF all, k
  <2> QED  BY <1>2, <1>4, <2>1, <2>2
<1> HIDE DEF before, after, found, all, k
<1>6. n \in Nat /\ r \in Nat /\ r <= k
      /\ (LimitReached(n + r) => n + r = MaxHits) /\ (~LimitReached(n + r) => r = k)
  <2>1. n \in Nat
    BY <1>0, <1>2
  <2>2. MaxHits \in Nat /\ ~(MaxHits > 0 /\ n >= MaxHits)
    BY SearchAssumption DEF LimitReached
  <2>3. r = IF MaxHits = 0 \/ k < MaxHits - n THEN k ELSE MaxHits - n
    BY DEF Room
  <2> HIDE DEF r
  <2>4. r \in Nat /\ r <= k
    BY <1>4, <2>1, <2>2, <2>3
  <2>5. r = k \/ r = MaxHits - n
    BY <2>3
  <2>6. MaxHits > 0 /\ n + r >= MaxHits => n + r = MaxHits
    <3>1. ASSUME MaxHits > 0 PROVE r <= MaxHits - n
      <4>1. MaxHits # 0
        BY <3>1
      <4>2. CASE k < MaxHits - n
        BY <1>4, <2>1, <2>2, <2>3, <4>2
      <4>3. CASE ~(k < MaxHits - n)
        BY <2>1, <2>2, <2>3, <4>1, <4>3
      <4> QED  BY <4>2, <4>3
    <3> QED  BY <2>1, <2>2, <2>4, <3>1
  <2>7. ~(MaxHits > 0 /\ n + r >= MaxHits) => r = k
    <3>1. MaxHits = 0 => r = k
      BY <2>3
    <3> QED  BY <2>1, <2>2, <2>4, <2>5, <3>1
  <2> QED  BY <2>1, <2>4, <2>6, <2>7 DEF LimitReached
<1>7. Len(after) = n + k /\ n + k <= Len(found)
      /\ \A m \in 1..k : found[n + m] = all[m]
  <2>0. /\ Len(before \o all) = Len(before) + Len(all)
        /\ \A m \in 1..Len(all) : (before \o all)[Len(before) + m] = all[m]
    BY <1>2, JoinedIs
  <2>1. Len(after) = n + k
    BY <1>0, <1>2, <1>5, <2>0
  <2>2. ASSUME NEW m \in 1..k PROVE found[n + m] = all[m]
    <3>1. n + m \in 1..Len(after)
      BY <1>4, <1>6, <2>1
    <3>2. found[n + m] = after[n + m]
      BY <1>3, <3>1 DEF Opens
    <3>3. after[n + m] = all[m]
      BY <1>0, <1>2, <1>5, <2>0
    <3> QED  BY <3>2, <3>3
  <2> QED  BY <1>3, <2>1, <2>2 DEF Opens
<1> DEFINE h == HitsOf(t, i, n)
<1>8. h = [m \in 1..r |-> [file |-> i, line |-> t[i].lines[m]]]
  BY DEF HitsOf, k
<1>9. \A m \in 1..r : h[m] = all[m] /\ m \in 1..k
  BY <1>4, <1>5, <1>6, <1>8
<1>10. Len(h) = r
  <2> HIDE DEF r
  <2> QED  BY <1>6, <1>8
<1> HIDE DEF h
<1>11. h = Part(t, n, n + r)
  <2>1. (n + r) - n = r
    BY <1>6
  <2>2. \A m \in 1..r : h[m] = found[n + m]
    BY <1>7, <1>9
  <2>3. h = [m \in 1..r |-> found[n + m]]
    <3> HIDE DEF r
    <3>1. h = [m \in 1..r |-> h[m]]
      BY <1>8
    <3> QED  BY <2>2, <3>1
  <2> QED  BY <2>1, <2>3 DEF Part, found
<1>12. n + r <= Limit(t)
  <2>1. n + r <= Len(found) /\ Len(found) \in Nat
    BY <1>3, <1>4, <1>6, <1>7
  <2>2. MaxHits > 0 => n + r <= MaxHits
    BY <1>4, <1>6, SearchAssumption DEF LimitReached
  <2> HIDE DEF r
  <2> QED  BY <1>6, <2>1, <2>2, SearchAssumption DEF Limit, Room, found
<1> HIDE DEF r
<1> QED  BY <1>6, <1>7, <1>10, <1>11, <1>12 DEF h, after

-----------------------------------------------------------------------------
-----------------------------------------------------------------------------
(* How often a line is among the first matches.                             *)
CountsAt(t, n, f, l) ==
    /\ Matches(t, n, f, l) \in Nat
    /\ Matches(t, n, f, l) > 0 <=> \E k \in 1..n : Found(t)[k] = [file |-> f, line |-> l]
    /\ Matches(t, n + 1, f, l)
         = Matches(t, n, f, l) + (IF Found(t)[n + 1] = [file |-> f, line |-> l] THEN 1 ELSE 0)

LEMMA Counted ==
  ASSUME NEW t, NEW n \in Nat, NEW f, NEW l
  PROVE  CountsAt(t, n, f, l)
<1> DEFINE hit == [file |-> f, line |-> l]
           K(m) == {k \in 1..m : Found(t)[k] = hit}
<1>1. IsFiniteSet(1..n) /\ IsFiniteSet(K(n))
  <2>1. IsFiniteSet(1..n)
    BY FS_Interval
  <2>2. K(n) \subseteq 1..n
    OBVIOUS
  <2> HIDE DEF K
  <2> QED  BY <2>1, <2>2, FS_Subset
<1>2. Matches(t, n, f, l) = Cardinality(K(n)) /\ Matches(t, n + 1, f, l) = Cardinality(K(n + 1))
  BY DEF Matches
<1> HIDE DEF hit
<1>3. K(n + 1) = K(n) \cup (IF Found(t)[n + 1] = hit THEN {n + 1} ELSE {})
  OBVIOUS
<1>4. n + 1 \notin K(n)
  OBVIOUS
<1>5. K(n) # {} <=> \E k \in 1..n : Found(t)[k] = hit
  OBVIOUS
<1> HIDE DEF K
<1>6. Cardinality(K(n)) \in Nat
  BY <1>1, FS_CardinalityType
<1>7. Cardinality(K(n)) > 0 <=> K(n) # {}
  BY <1>1, <1>6, FS_EmptySet
<1>9. CASE Found(t)[n + 1] = hit
  <2>1. K(n + 1) = K(n) \cup {n + 1}
    BY <1>3, <1>9
  <2>2. Cardinality(K(n + 1)) = Cardinality(K(n)) + 1
    BY <1>1, <1>4, <2>1, FS_AddElement
  <2> QED  BY <1>2, <1>5, <1>6, <1>7, <1>9, <2>2 DEF hit, CountsAt
<1>10. CASE Found(t)[n + 1] # hit
  <2>1. K(n + 1) = K(n)
    BY <1>3, <1>10
  <2> QED  BY <1>2, <1>5, <1>6, <1>7, <1>10, <2>1 DEF hit, CountsAt
<1> QED  BY <1>9, <1>10

(* Rows as addHits() leaves them after the first n matches of t.            *)
Rightly(shown, t, n) ==
    /\ shown \in Rows /\ n \in 0..Len(Found(t))
    /\ Shows(shown, t, n)
    /\ \A f \in Files : \A i, j \in DOMAIN shown[f] :
          /\ shown[f][i].matchCount > 0
          /\ i < j => shown[f][i].line < shown[f][j].line

(* How far the worker is with what there is to find.                        *)
Worked ==
    /\ job.pending \in Seq(Hit)
    /\ Working =>
       /\ job.tree \in Trees /\ job.at \in 1..(Len(job.tree) + 1)
       /\ job.hits <= Limit(job.tree)
       /\ IF job.truncated THEN MaxHits > 0 /\ job.hits = MaxHits
          ELSE /\ job.hits = Len(FoundUpTo(job.tree)[job.at - 1])
               /\ ~LimitReached(job.hits)

(* What a signal of the current search brings, a hits after the first.      *)
Brings(s, t, a, b) ==
    /\ a <= b
    /\ IF s.signal = "batch" THEN s.hits = Part(t, a, b) ELSE b = a
    /\ s.signal = "finished" /\ s.says \in {"done", "limit"} =>
         /\ s.hits = a /\ a = Limit(t)
         /\ s.says = "done" => ~LimitReached(Len(Found(t)))

(* from[i] hits of the current search are sent before the i-th signal.      *)
Brought(from) ==
    /\ from \in [1..(Len(toPanel) + 1) -> 0..Limit(tree)]
    /\ \A i \in DOMAIN toPanel :
          IF toPanel[i].gen = generation THEN Brings(toPanel[i], tree, from[i], from[i + 1])
          ELSE from[i + 1] = from[i]

(* m hits of the current search have been sent.                             *)
Sent(m) ==
    /\ \A i \in DOMAIN toWorker :
          toWorker[i].gen = generation => toWorker[i].tree = tree /\ m = 0
    /\ Working /\ job.gen = generation =>
          /\ job.tree = tree /\ m <= job.hits
          /\ job.pending = Part(tree, m, job.hits)

InFlight(n, from) ==
    /\ Rightly(rows, tree, n) /\ n <= Limit(tree)
    /\ status.says \in {"done", "limit"} =>
          /\ status.hits = n /\ n = Limit(tree)
          /\ status.says = "done" => ~LimitReached(Len(Found(tree)))
    /\ open => from[1] = n /\ Brought(from) /\ Sent(from[Len(toPanel) + 1])

Flight == \E n, from : InFlight(n, from)

-----------------------------------------------------------------------------
(* The panel starts with no rows.                                           *)
LEMMA NothingShown ==
  ASSUME NEW t, Known(t)
  PROVE  Rightly(NoRows, t, 0) /\ Limit(t) \in Nat /\ Limit(t) <= Len(Found(t))
<1>1. Found(t) \in Seq(Hit)
  BY FoundPrefix
<1>2. NoRows \in Rows /\ \A f \in Files : DOMAIN NoRows[f] = {}
  BY DEF NoRows, Rows
<1>3. \A f, l : Matches(t, 0, f, l) = 0
  <2> SUFFICES ASSUME NEW f, NEW l PROVE Matches(t, 0, f, l) = 0
    OBVIOUS
  <2>1. {k \in 1..0 : Found(t)[k] = [file |-> f, line |-> l]} = {}
    OBVIOUS
  <2> QED  BY <2>1, FS_EmptySet DEF Matches
<1>4. Shows(NoRows, t, 0)
  BY <1>2, <1>3 DEF Shows
<1>5. Rightly(NoRows, t, 0)
  BY <1>1, <1>2, <1>4 DEF Rightly
<1>6. Limit(t) \in Nat /\ Limit(t) <= Len(Found(t))
  <2> DEFINE len == Len(Found(t))
  <2>1. len \in Nat
    BY <1>1
  <2> HIDE DEF len
  <2>2. Room(0, len) \in Nat /\ Room(0, len) <= len
    BY <2>1, SearchAssumption DEF Room
  <2> QED  BY <2>2 DEF Limit, len
<1> QED  BY <1>5, <1>6

(* addHits(), one hit: the rows of one match more.                          *)
LEMMA HitAdded ==
  ASSUME NEW t, Known(t), NEW n \in Nat, n < Len(Found(t)), NEW shown, Rightly(shown, t, n)
  PROVE  Rightly(AddHit(shown, Found(t)[n + 1]), t, n + 1)
<1>0. \A g, k : CountsAt(t, n, g, k)
  BY Counted
<1> DEFINE hit == Found(t)[n + 1]
           f == hit.file
           l == hit.line
           old == shown[f]
           new == AddHit(shown, hit)
           M(m, g, k) == Matches(t, m, g, k)
<1>1. Found(t) \in Seq(Hit) /\ n + 1 \in DOMAIN Found(t)
  BY FoundPrefix
<1>2. hit \in Hit /\ f \in Files /\ l \in Nat /\ hit = [file |-> f, line |-> l]
  <2>1. hit \in Hit
    BY <1>1
  <2> HIDE DEF hit
  <2> QED  BY <2>1 DEF Hit
<1>3. /\ shown \in Rows /\ Shows(shown, t, n)
      /\ \A g \in Files : \A i, j \in DOMAIN shown[g] :
            /\ shown[g][i].matchCount > 0
            /\ i < j => shown[g][i].line < shown[g][j].line
  BY DEF Rightly
<1>4. old \in Seq(Row) /\ Len(old) \in Nat /\ DOMAIN old = 1..Len(old)
      /\ \A i \in DOMAIN old : old[i].line \in Nat /\ old[i].matchCount \in Nat
  <2>1. old \in Seq(Row)
    BY <1>2, <1>3 DEF Rows
  <2>2. \A i \in DOMAIN old : old[i] \in Row
    BY <2>1
  <2> HIDE DEF old
  <2> QED  BY <2>1, <2>2 DEF Row
<1>5. \A g, k : /\ M(n, g, k) \in Nat
                /\ M(n, g, k) > 0 <=> \E m \in 1..n : Found(t)[m] = [file |-> g, line |-> k]
                /\ M(n + 1, g, k) = M(n, g, k) + (IF g = f /\ k = l THEN 1 ELSE 0)
  <2> SUFFICES ASSUME NEW g, NEW k
               PROVE  /\ M(n, g, k) \in Nat
                      /\ M(n, g, k) > 0 <=> \E m \in 1..n : Found(t)[m] = [file |-> g, line |-> k]
                      /\ M(n + 1, g, k) = M(n, g, k) + (IF g = f /\ k = l THEN 1 ELSE 0)
    OBVIOUS
  <2> HIDE DEF hit, f, l
  <2>1. /\ M(n, g, k) \in Nat
        /\ (M(n, g, k) > 0 <=> \E m \in 1..n : Found(t)[m] = [file |-> g, line |-> k])
        /\ M(n + 1, g, k) = M(n, g, k) + (IF hit = [file |-> g, line |-> k] THEN 1 ELSE 0)
    BY <1>0 DEF hit, CountsAt
  <2> HIDE DEF M
  <2>2. hit = [file |-> g, line |-> k] <=> g = f /\ k = l
    <3>1. hit = [file |-> g, line |-> k] => g = f /\ k = l
      BY DEF f, l
    <3>2. g = f /\ k = l => hit = [file |-> g, line |-> k]
      BY <1>2
    <3> QED  BY <3>1, <3>2
  <2> QED  BY <2>1, <2>2
<1>6. \A g \in Files :
        /\ \A i \in DOMAIN shown[g] : shown[g][i].matchCount = M(n, g, shown[g][i].line)
        /\ \A k \in LinesOf(t) : M(n, g, k) > 0 => \E i \in DOMAIN shown[g] : shown[g][i].line = k
  BY <1>3 DEF Shows
<1> HIDE DEF M, hit, f, l
<1>7. \A i \in DOMAIN old : old[i].line <= l
  <2> SUFFICES ASSUME NEW i \in DOMAIN old PROVE old[i].line <= l
    OBVIOUS
  <2>1. M(n, f, old[i].line) > 0
    BY <1>2, <1>3, <1>6
  <2>2. PICK m \in 1..n : Found(t)[m] = [file |-> f, line |-> old[i].line]
    BY <1>5, <2>1
  <2>3. m \in DOMAIN Found(t) /\ m < n + 1
    BY <1>1
  <2>4. Found(t)[m].file = f /\ Found(t)[m].line = old[i].line
    BY <2>2
  <2> QED  BY <1>1, <1>2, <2>3, <2>4, FoundInOrder DEF hit, f, l
<1>8. l \in LinesOf(t)
  BY <1>1 DEF LinesOf, l, hit
<1> DEFINE rows2 == IF old # <<>> /\ old[Len(old)].line = l
                    THEN [old EXCEPT ![Len(old)].matchCount = @ + 1]
                    ELSE Append(old, [line |-> l, matchCount |-> 1])
<1>9. new = [shown EXCEPT ![f] = rows2]
  BY <1>2, <1>3 DEF AddHit, f, l, Rows
<1>10. /\ rows2 \in Seq(Row)
       /\ \A i \in DOMAIN rows2 : rows2[i].matchCount = M(n + 1, f, rows2[i].line)
       /\ \A i, j \in DOMAIN rows2 : i < j => rows2[i].line < rows2[j].line
       /\ \A i \in DOMAIN rows2 : rows2[i].matchCount > 0
       /\ \A k \in LinesOf(t) : M(n + 1, f, k) > 0 => \E i \in DOMAIN rows2 : rows2[i].line = k
  <2>0. /\ \A i \in DOMAIN old : old[i].matchCount = M(n, f, old[i].line)
        /\ \A k \in LinesOf(t) : M(n, f, k) > 0 => \E i \in DOMAIN old : old[i].line = k
        /\ \A i, j \in DOMAIN old : i < j => old[i].line < old[j].line
        /\ \A i \in DOMAIN old : old[i].matchCount > 0
    BY <1>2, <1>3, <1>6
  <2>0a. \A k : M(n + 1, f, k) = M(n, f, k) + (IF k = l THEN 1 ELSE 0)
    BY <1>5
  <2> HIDE DEF old
  <2>1. CASE old # <<>> /\ old[Len(old)].line = l
    <3> DEFINE e == Len(old)
               last == [old[e] EXCEPT !.matchCount = @ + 1]
    <3>1. e \in DOMAIN old
      BY <1>4, <2>1
    <3>2. rows2 = [old EXCEPT ![e] = last]
      BY <2>1
    <3>3. old[e] \in Row
      BY <1>4, <3>1
    <3>4. last \in Row /\ last.line = l /\ last.matchCount = old[e].matchCount + 1
      BY <2>1, <3>3 DEF Row
    <3> HIDE DEF last, rows2, e
    <3>5. rows2 \in Seq(Row) /\ DOMAIN rows2 = DOMAIN old
          /\ \A i \in DOMAIN old : rows2[i] = IF i = e THEN last ELSE old[i]
      BY <1>4, <3>1, <3>2, <3>4
    <3>6. \A i \in DOMAIN old : rows2[i].line = old[i].line
      BY <2>1, <3>4, <3>5 DEF e
    <3>7. \A i \in DOMAIN old : i # e => old[i].line # l
      BY <1>4, <2>0, <2>1, <3>1 DEF e
    <3>8. ASSUME NEW i \in DOMAIN rows2
          PROVE  rows2[i].matchCount = M(n + 1, f, rows2[i].line) /\ rows2[i].matchCount > 0
      <4>1. i \in DOMAIN old /\ rows2[i].line = old[i].line
            /\ old[i].matchCount = M(n, f, old[i].line) /\ old[i].matchCount > 0
        BY <2>0, <3>5, <3>6
      <4>2. CASE i = e
        <5>1. rows2[i].matchCount = old[i].matchCount + 1 /\ old[i].line = l
          BY <2>1, <3>4, <3>5, <4>1, <4>2 DEF e
        <5>2. M(n + 1, f, l) = M(n, f, l) + 1
          BY <2>0a
        <5>3. old[i].matchCount \in Nat
          BY <1>4, <4>1
        <5> QED  BY <4>1, <5>1, <5>2, <5>3
      <4>3. CASE i # e
        <5>1. rows2[i] = old[i] /\ old[i].line # l
          BY <3>5, <3>7, <4>1, <4>3
        <5>2. M(n + 1, f, old[i].line) = M(n, f, old[i].line) + 0
          BY <2>0a, <5>1
        <5>3. old[i].matchCount \in Nat
          BY <1>4, <4>1
        <5> QED  BY <4>1, <5>1, <5>2, <5>3
      <4> QED  BY <4>2, <4>3
    <3>9. ASSUME NEW k \in LinesOf(t), M(n + 1, f, k) > 0 PROVE \E i \in DOMAIN rows2 : rows2[i].line = k
      <4>1. CASE k = l
        BY <2>1, <3>1, <3>5, <3>6, <4>1 DEF e
      <4>2. CASE k # l
        <5>1. M(n + 1, f, k) = M(n, f, k) + 0
          BY <2>0a, <4>2
        <5>2. M(n, f, k) > 0
          <6>1. M(n, f, k) \in Nat
            BY <1>5
          <6> QED  BY <3>9, <5>1, <6>1
        <5>3. PICK i \in DOMAIN old : old[i].line = k
          BY <2>0, <5>2
        <5> QED  BY <3>5, <3>6, <5>3
      <4> QED  BY <4>1, <4>2
    <3>10. \A i, j \in DOMAIN rows2 : i < j => rows2[i].line < rows2[j].line
      BY <2>0, <3>5, <3>6
    <3> QED  BY <3>5, <3>8, <3>9, <3>10
  <2>2. CASE ~(old # <<>> /\ old[Len(old)].line = l)
    <3> DEFINE one == [line |-> l, matchCount |-> 1]
               e == Len(old) + 1
    <3>1. rows2 = Append(old, one) /\ one \in Row
      BY <1>2, <2>2 DEF Row
    <3>2. one.line = l /\ one.matchCount = 1
      OBVIOUS
    <3> HIDE DEF rows2, one
    <3>3. rows2 \in Seq(Row) /\ DOMAIN rows2 = 1..e
          /\ (\A i \in 1..e : rows2[i] = IF i = e THEN one ELSE old[i])
          /\ \A i \in 1..e : i # e => i \in DOMAIN old
      BY <1>4, <3>1
    <3>4. e \in 1..e
      BY <1>4
    <3>5. \A i \in DOMAIN old : old[i].line < l
      <4> SUFFICES ASSUME NEW i \in DOMAIN old PROVE old[i].line < l
        OBVIOUS
      <4>1. Len(old) \in DOMAIN old /\ old # <<>>
        BY <1>4
      <4>2. old[Len(old)].line < l
        BY <1>2, <1>4, <1>7, <2>2, <4>1
      <4>3. i = Len(old) \/ i < Len(old)
        BY <1>4
      <4>4. i < Len(old) => old[i].line < old[Len(old)].line
        BY <2>0, <4>1
      <4> QED  BY <1>2, <1>4, <4>1, <4>2, <4>3, <4>4
    <3>6. M(n, f, l) = 0
      <4>1. ~(M(n, f, l) > 0)
        BY <1>2, <1>4, <1>8, <2>0, <3>5
      <4>2. M(n, f, l) \in Nat
        BY <1>5
      <4> QED  BY <4>1, <4>2
    <3>7. M(n + 1, f, l) = 1
      <4>1. M(n + 1, f, l) = M(n, f, l) + 1
        BY <2>0a
      <4> QED  BY <3>6, <4>1
    <3> HIDE DEF e
    <3>8. ASSUME NEW i \in DOMAIN rows2
          PROVE  rows2[i].matchCount = M(n + 1, f, rows2[i].line) /\ rows2[i].matchCount > 0
      <4>1. CASE i = e
        BY <3>2, <3>3, <3>7, <4>1
      <4>2. CASE i # e
        <5>1. i \in DOMAIN old /\ rows2[i] = old[i]
          BY <3>3, <4>2
        <5>2. old[i].line # l /\ old[i].matchCount \in Nat
          BY <1>2, <1>4, <3>5, <5>1
        <5>3. M(n + 1, f, old[i].line) = M(n, f, old[i].line) + 0
          BY <2>0a, <5>2
        <5>4. old[i].matchCount = M(n, f, old[i].line) /\ old[i].matchCount > 0
          BY <2>0, <5>1
        <5> QED  BY <5>1, <5>2, <5>3, <5>4
      <4> QED  BY <4>1, <4>2
    <3>9. ASSUME NEW k \in LinesOf(t), M(n + 1, f, k) > 0 PROVE \E i \in DOMAIN rows2 : rows2[i].line = k
      <4>1. CASE k = l
        BY <3>2, <3>3, <3>4, <4>1
      <4>2. CASE k # l
        <5>1. M(n + 1, f, k) = M(n, f, k) + 0
          BY <2>0a, <4>2
        <5>2. M(n, f, k) > 0
          <6>1. M(n, f, k) \in Nat
            BY <1>5
          <6> QED  BY <3>9, <5>1, <6>1
        <5>3. PICK i \in DOMAIN old : old[i].line = k
          BY <2>0, <5>2
        <5>4. i \in 1..e /\ i # e
          BY <1>4 DEF e
        <5> QED  BY <3>3, <5>3, <5>4
      <4> QED  BY <4>1, <4>2
    <3>10. ASSUME NEW i \in DOMAIN rows2, NEW j \in DOMAIN rows2, i < j
           PROVE  rows2[i].line < rows2[j].line
      <4>1. i # e /\ i \in DOMAIN old /\ rows2[i] = old[i]
        <5>1. i # e
          BY <1>4, <3>3, <3>10 DEF e
        <5> QED  BY <3>3, <5>1
      <4>2. CASE j = e
        BY <3>2, <3>3, <3>5, <4>1, <4>2
      <4>3. CASE j # e
        <5>1. j \in DOMAIN old /\ rows2[j] = old[j]
          BY <3>3, <4>3
        <5> QED  BY <2>0, <3>10, <4>1, <5>1
      <4> QED  BY <4>2, <4>3
    <3> QED  BY <3>3, <3>8, <3>9, <3>10
  <2> QED  BY <2>1, <2>2
<1> HIDE DEF rows2, old, new
<1>11. new \in Rows /\ new[f] = rows2 /\ \A g \in Files : g # f => new[g] = shown[g]
  BY <1>2, <1>3, <1>9, <1>10 DEF Rows
<1>12. \A g \in Files : g # f => \A k : M(n + 1, g, k) = M(n, g, k)
  <2> SUFFICES ASSUME NEW g \in Files, g # f, NEW k PROVE M(n + 1, g, k) = M(n, g, k)
    OBVIOUS
  <2>1. M(n + 1, g, k) = M(n, g, k) + 0 /\ M(n, g, k) \in Nat
    BY <1>5
  <2> QED  BY <2>1
<1>13. ASSUME NEW g \in Files
       PROVE  /\ \A i \in DOMAIN new[g] : new[g][i].matchCount = M(n + 1, g, new[g][i].line)
              /\ \A k \in LinesOf(t) : M(n + 1, g, k) > 0 => \E i \in DOMAIN new[g] : new[g][i].line = k
              /\ \A i, j \in DOMAIN new[g] : /\ new[g][i].matchCount > 0
                                             /\ i < j => new[g][i].line < new[g][j].line
  <2>1. CASE g = f
    BY <1>10, <1>11, <2>1
  <2>2. CASE g # f
    <3>1. new[g] = shown[g] /\ \A k : M(n + 1, g, k) = M(n, g, k)
      BY <1>11, <1>12, <2>2
    <3> QED  BY <1>3, <1>6, <3>1
  <2> QED  BY <2>1, <2>2
<1>14. ASSUME NEW g \in Files, NEW i \in DOMAIN new[g], NEW j \in DOMAIN new[g], i # j
       PROVE  new[g][i].line # new[g][j].line
  <2>1. new[g] \in Seq(Row)
    BY <1>11 DEF Rows
  <2>2. i \in Int /\ j \in Int /\ (i < j \/ j < i)
    BY <1>14, <2>1
  <2>3. new[g][i] \in Row /\ new[g][j] \in Row
    BY <2>1
  <2>4. new[g][i].line \in Int /\ new[g][j].line \in Int
    BY <2>3 DEF Row
  <2> QED  BY <1>13, <2>2, <2>4
<1>15. Shows(new, t, n + 1)
  BY <1>13, <1>14 DEF Shows, M
<1>16. n + 1 \in 0..Len(Found(t))
  BY <1>1
<1>17. Rightly(new, t, n + 1)
  BY <1>11, <1>13, <1>15, <1>16 DEF Rightly
<1> QED  BY <1>17 DEF new, hit

-----------------------------------------------------------------------------
(* Rows stay rows, whatever is added.                                       *)
LEMMA RowsStayRows ==
  ASSUME NEW shown \in Rows, NEW hit \in Hit
  PROVE  AddHit(shown, hit) \in Rows
<1> DEFINE f == hit.file
           old == shown[f]
           one == [line |-> hit.line, matchCount |-> 1]
           grown == [old EXCEPT ![Len(old)].matchCount = @ + 1]
<1>1. f \in Files /\ one \in Row
  BY DEF Hit, Row
<1>2. old \in Seq(Row)
  BY <1>1 DEF Rows
<1>3. Append(old, one) \in Seq(Row)
  BY <1>1, <1>2
<1>4. CASE old # <<>> /\ old[Len(old)].line = hit.line
  <2>1. Len(old) \in DOMAIN old /\ old[Len(old)] \in Row
    BY <1>2, <1>4
  <2> DEFINE last == [old[Len(old)] EXCEPT !.matchCount = @ + 1]
  <2>2. last \in Row
    BY <2>1 DEF Row
  <2>3. grown = [old EXCEPT ![Len(old)] = last]
    OBVIOUS
  <2> HIDE DEF last, old, grown
  <2>4. grown \in Seq(Row)
    BY <1>2, <2>1, <2>2, <2>3
  <2>5. AddHit(shown, hit) = [shown EXCEPT ![f] = grown]
    BY <1>1, <1>4 DEF AddHit, old, Rows, grown
  <2> QED  BY <1>1, <2>4, <2>5 DEF Rows
<1>5. CASE ~(old # <<>> /\ old[Len(old)].line = hit.line)
  <2>1. AddHit(shown, hit) = [shown EXCEPT ![f] = Append(old, one)]
    BY <1>1, <1>5 DEF AddHit, Rows
  <2> HIDE DEF old, one
  <2> QED  BY <1>1, <1>3, <2>1 DEF Rows
<1> QED  BY <1>4, <1>5

(* addHits() adds one hit after the other.                                  *)
LEMMA AddingSteps ==
  ASSUME NEW shown \in Rows, NEW hits \in Seq(Hit)
  PROVE  /\ Adding(shown, hits)[0] = shown
         /\ \A k \in 1..Len(hits) :
              Adding(shown, hits)[k] = AddHit(Adding(shown, hits)[k - 1], hits[k])
<1> DEFINE N == Len(hits)
           step == [k \in 1..N |-> [r \in Rows |-> AddHit(r, hits[k])]]
           F == Adding(shown, hits)
<1>1. N \in Nat /\ \A k \in 1..N : hits[k] \in Hit
  OBVIOUS
<1>2. step \in [1..N -> [Rows -> Rows]]
  <2> SUFFICES ASSUME NEW k \in 1..N
               PROVE  [r \in Rows |-> AddHit(r, hits[k])] \in [Rows -> Rows]
    OBVIOUS
  <2>1. \A r \in Rows : AddHit(r, hits[k]) \in Rows
    BY <1>1, RowsStayRows
  <2> QED  BY <2>1
<1>3. PICK g : Recurs(g, Rows, shown, N, step)
  <2> HIDE DEF step, N
  <2> QED  BY <1>1, <1>2, RecursionExists
<1>4. g = [k \in 0..N |-> IF k = 0 THEN shown ELSE AddHit(g[k - 1], hits[k])]
  <2>1. g \in [0..N -> Rows] /\ g = [k \in 0..N |-> IF k = 0 THEN shown ELSE step[k][g[k - 1]]]
    BY <1>3 DEF Recurs
  <2>2. ASSUME NEW k \in 0..N, k # 0 PROVE step[k][g[k - 1]] = AddHit(g[k - 1], hits[k])
    <3>1. k \in 1..N /\ k - 1 \in 0..N
      BY <1>1, <2>2
    <3>2. g[k - 1] \in Rows
      BY <2>1, <3>1
    <3>3. step[k] = [r \in Rows |-> AddHit(r, hits[k])]
      BY <3>1
    <3> HIDE DEF step
    <3> QED  BY <3>2, <3>3
  <2> HIDE DEF step
  <2>3. \A k \in 0..N : (IF k = 0 THEN shown ELSE step[k][g[k - 1]])
                          = IF k = 0 THEN shown ELSE AddHit(g[k - 1], hits[k])
    BY <2>2
  <2> QED  BY <2>1, <2>3
<1>5. F = [k \in 0..N |-> IF k = 0 THEN shown ELSE AddHit(F[k - 1], hits[k])]
  BY <1>4 DEF Adding
<1> DEFINE next(k) == IF k = 0 THEN shown ELSE AddHit(F[k - 1], hits[k])
<1> HIDE DEF F
<1>6. F = [k \in 0..N |-> next(k)]
  BY <1>5
<1>7. next(0) = shown /\ \A k \in 1..N : next(k) = AddHit(F[k - 1], hits[k])
  BY <1>1
<1> HIDE DEF next
<1>8. \A k \in 0..N : F[k] = next(k)
  BY <1>6
<1>9. 0 \in 0..N /\ \A k \in 1..N : k \in 0..N
  BY <1>1
<1> QED  BY <1>7, <1>8, <1>9 DEF F

(* So a batch with the hits that come next leaves the rows as they should   *)
(* be after it.                                                             *)
LEMMA HitsAdded ==
  ASSUME NEW t, Known(t), NEW a \in Nat, NEW b \in Nat, a <= b, b <= Len(Found(t)),
         NEW shown, Rightly(shown, t, a)
  PROVE  Rightly(AddHits(shown, Part(t, a, b)), t, b)
<1> DEFINE hits == Part(t, a, b)
           F == Adding(shown, hits)
           S == {k \in Nat : Rightly(F[k], t, a + k)}
           N == b - a
<1>1. shown \in Rows /\ Len(Found(t)) \in Nat
  BY FoundPrefix DEF Rightly
<1>2. hits \in Seq(Hit) /\ Len(hits) = N /\ (\A k \in 1..N : hits[k] = Found(t)[a + k]) /\ N \in Nat
  <2>1. N \in Nat
    OBVIOUS
  <2>2. hits \in Seq(Hit) /\ Len(hits) = N /\ \A k \in 1..N : hits[k] = Found(t)[a + k]
    BY PartType
  <2> QED  BY <2>1, <2>2
<1> HIDE DEF hits
<1>3. F[0] = shown /\ \A k \in 1..N : F[k] = AddHit(F[k - 1], hits[k])
  <2>1. F[0] = shown /\ \A k \in 1..Len(hits) : F[k] = AddHit(F[k - 1], hits[k])
    BY <1>1, <1>2, AddingSteps
  <2> HIDE DEF F, N
  <2> QED  BY <1>2, <2>1
<1> HIDE DEF F, N
<1>4. 0 \in S
  BY <1>3
<1>5. ASSUME NEW k \in Nat, k < N, k \in S PROVE k + 1 \in S
  <2>1. PICK j \in 1..N : j = k + 1
    BY <1>2, <1>5
  <2>2. j - 1 = k
    BY <2>1
  <2>3. F[j] = AddHit(F[k], hits[j]) /\ hits[j] = Found(t)[a + j]
    BY <1>2, <1>3, <2>2
  <2>4. a + j = a + k + 1 /\ a + k \in Nat /\ a + k < Len(Found(t))
    BY <1>1, <1>5, <2>1 DEF N
  <2>5. Rightly(F[k], t, a + k)
    BY <1>5
  <2>6. Rightly(AddHit(F[k], Found(t)[a + k + 1]), t, a + k + 1)
    BY <2>4, <2>5, HitAdded
  <2>7. Rightly(F[j], t, a + j)
    BY <2>3, <2>4, <2>6
  <2> QED  BY <2>1, <2>7
<1> HIDE DEF S
<1>6. 0..N \subseteq S
  BY <1>2, <1>4, <1>5, BoundedInduction
<1>7. N \in S
  BY <1>2, <1>6
<1>8. Rightly(F[N], t, a + N) /\ a + N = b
  BY <1>7 DEF S, N
<1> QED  BY <1>2, <1>8 DEF AddHits, F, hits

-----------------------------------------------------------------------------
(* The rest of the types.                                                   *)
Says == {"nothing", "invalid pattern", "searching", "error", "stopped", "limit", "done"}
Typed ==
    /\ tree \in Trees \cup {NoFolder, <<>>} /\ stopped \subseteq Nat
    /\ status \in [says : Says, hits : Nat]

ShowInv == SearchInv /\ Typed /\ Worked /\ Flight

LEMMA TreeKnown ==
  ASSUME Typed
  PROVE  Known(tree) /\ Limit(tree) \in Nat /\ Limit(tree) <= Len(Found(tree))
         /\ Len(Found(tree)) \in Nat
<1>1. Known(tree)
  BY TreesKnown DEF Typed
<1>2. Limit(tree) \in Nat /\ Limit(tree) <= Len(Found(tree))
  BY <1>1, NothingShown
<1>3. Len(Found(tree)) \in Nat
  BY <1>1, FoundPrefix
<1> QED  BY <1>1, <1>2, <1>3

(* What the signals bring: the first the hits m to m2, the others none.     *)
Carried(signals, m, m2) ==
    /\ m2 \in 0..Limit(tree) /\ m <= m2
    /\ signals = <<>> => m2 = m
    /\ \A i \in DOMAIN signals :
          IF signals[i].gen = generation
          THEN Brings(signals[i], tree, IF i = 1 THEN m ELSE m2, m2)
          ELSE m2 = m

LEMMA SendsMore ==
  ASSUME SearchInv, Typed, open, NEW from, Brought(from),
         NEW signals \in Seq(Signal), Send(signals), UNCHANGED <<panel, open>>,
         NEW m2, Carried(signals, from[Len(toPanel) + 1], m2)
  PROVE  \E to : to[1] = from[1] /\ Brought(to)' /\ to[Len(toPanel') + 1] = m2
<1> DEFINE N == Len(toPanel)
           m == from[N + 1]
           path == [i \in 1..(Len(toPanel') + 1) |-> IF i <= N + 1 THEN from[i] ELSE m2]
<1>1. /\ toPanel \in Seq(Signal) /\ toPanel' \in Seq(Signal)
      /\ Len(toPanel') = N + Len(signals)
      /\ \A i \in DOMAIN toPanel' : toPanel'[i] = IF i <= N THEN toPanel[i] ELSE signals[i - N]
  BY Sending DEF SearchInv, Types
<1>2. N \in Nat /\ Len(signals) \in Nat /\ DOMAIN toPanel' = 1..(N + Len(signals))
      /\ DOMAIN toPanel = 1..N /\ DOMAIN signals = 1..Len(signals)
  BY <1>1
<1>3. from \in [1..(N + 1) -> 0..Limit(tree)] /\ m2 \in 0..Limit(tree) /\ m <= m2
      /\ (Len(signals) = 0 => m2 = m)
  BY DEF Brought, Carried
<1>4. tree' = tree /\ generation' = generation
  BY DEF panel
<1> HIDE DEF N
<1>5. path \in [1..(Len(toPanel') + 1) -> 0..Limit(tree)]
  BY <1>2, <1>3
<1>6. path[1] = from[1]
  BY <1>1, <1>2
<1>7. path[Len(toPanel') + 1] = m2
  BY <1>1, <1>2, <1>3
<1>8. ASSUME NEW i \in DOMAIN toPanel'
      PROVE  IF toPanel'[i].gen = generation THEN Brings(toPanel'[i], tree, path[i], path[i + 1])
             ELSE path[i + 1] = path[i]
  <2>1. CASE i <= N
    <3>1. i \in DOMAIN toPanel /\ toPanel'[i] = toPanel[i]
      BY <1>1, <1>2, <2>1
    <3>2. path[i] = from[i] /\ path[i + 1] = from[i + 1]
      BY <1>1, <1>2, <2>1
    <3>3. IF toPanel[i].gen = generation THEN Brings(toPanel[i], tree, from[i], from[i + 1])
          ELSE from[i + 1] = from[i]
      BY <3>1 DEF Brought
    <3> QED  BY <3>1, <3>2, <3>3
  <2>2. CASE ~(i <= N)
    <3>1. i - N \in DOMAIN signals /\ toPanel'[i] = signals[i - N]
      BY <1>1, <1>2, <2>2
    <3>2. path[i + 1] = m2 /\ path[i] = (IF i - N = 1 THEN m ELSE m2)
      <4>1. i \in 1..(Len(toPanel') + 1) /\ i + 1 \in 1..(Len(toPanel') + 1)
        BY <1>1, <1>2
      <4>2. ~(i + 1 <= N + 1) /\ (i <= N + 1 <=> i - N = 1) /\ (i - N = 1 => i = N + 1)
        BY <1>2, <2>2
      <4> QED  BY <4>1, <4>2
    <3>3. IF signals[i - N].gen = generation
          THEN Brings(signals[i - N], tree, IF i - N = 1 THEN m ELSE m2, m2)
          ELSE m2 = m
      BY <3>1 DEF Carried, N
    <3> HIDE DEF path, m
    <3>4. CASE signals[i - N].gen = generation
      BY <3>1, <3>2, <3>3, <3>4
    <3>5. CASE signals[i - N].gen # generation
      BY <3>1, <3>2, <3>3, <3>5
    <3> QED  BY <3>4, <3>5
  <2> QED  BY <2>1, <2>2
<1> HIDE DEF path
<1>9. PICK to : to = path
  OBVIOUS
<1>10. to \in [1..(Len(toPanel') + 1) -> 0..Limit(tree')]
  BY <1>4, <1>5, <1>9
<1>11. \A i \in DOMAIN toPanel' :
         IF toPanel'[i].gen = generation' THEN Brings(toPanel'[i], tree', to[i], to[i + 1])
         ELSE to[i + 1] = to[i]
  BY <1>4, <1>8, <1>9
<1>12. Brought(to)'
  BY <1>10, <1>11 DEF Brought
<1> QED  BY <1>6, <1>7, <1>9, <1>12

(* A step of the worker that sends, on the panel's side.                    *)
LEMMA WorkerFlight ==
  ASSUME SearchInv, Typed, Flight, UNCHANGED <<panel, open>>,
         NEW signals \in Seq(Signal), open => Send(signals),
         \A m \in 0..Limit(tree) :
            open /\ Sent(m) => \E m2 : Carried(signals, m, m2) /\ Sent(m2)'
  PROVE  Flight'
<1>1. PICK n, from : InFlight(n, from)
  BY DEF Flight
<1>2. rows' = rows /\ tree' = tree /\ status' = status /\ open' = open
  BY DEF panel
<1>3. /\ Rightly(rows, tree, n) /\ n <= Limit(tree)
      /\ status.says \in {"done", "limit"} =>
           /\ status.hits = n /\ n = Limit(tree)
           /\ status.says = "done" => ~LimitReached(Len(Found(tree)))
  BY <1>1 DEF InFlight
<1>4. CASE ~open
  <2>1. InFlight(n, from)'
    BY <1>2, <1>3, <1>4 DEF InFlight
  <2> QED  BY <2>1 DEF Flight
<1>5. CASE open
  <2> DEFINE m == from[Len(toPanel) + 1]
  <2>1. from[1] = n /\ Brought(from) /\ Sent(m)
    BY <1>1, <1>5 DEF InFlight
  <2>2. Len(toPanel) + 1 \in 1..(Len(toPanel) + 1)
    BY DEF SearchInv, Types
  <2>3. m \in 0..Limit(tree)
    BY <2>1, <2>2 DEF Brought
  <2>4. PICK m2 : Carried(signals, m, m2) /\ Sent(m2)'
    BY <1>5, <2>1, <2>3
  <2>5. PICK to : to[1] = from[1] /\ Brought(to)' /\ to[Len(toPanel') + 1] = m2
    BY <1>5, <2>1, <2>4, SendsMore
  <2>6. Sent(to[Len(toPanel) + 1])'
    BY <2>4, <2>5
  <2>7. InFlight(n, to)'
    BY <1>2, <1>3, <2>1, <2>5, <2>6 DEF InFlight
  <2> QED  BY <2>7 DEF Flight
<1> QED  BY <1>4, <1>5

-----------------------------------------------------------------------------
(* The user.                                                                *)
LEMMA StartShows ==
  ASSUME ShowInv, StartSearch
  PROVE  Typed' /\ Worked' /\ Flight'
<1>1. /\ SearchInv /\ Typed /\ Worked
      /\ generation \in Nat /\ job.gen <= generation /\ job.gen \in Nat
      /\ toWorker \in Seq(Call) /\ toPanel \in Seq(Signal)
      /\ \A i \in DOMAIN toWorker : toWorker[i].gen \in 1..generation
      /\ \A i \in DOMAIN toPanel : toPanel[i].gen <= generation
  BY JobFields DEF ShowInv, SearchInv, Types, Numbers
<1>2. PICK t \in Trees \cup {NoFolder} :
         tree' = t /\ toWorker' = Append(toWorker, [gen |-> generation + 1, tree |-> t])
  BY DEF StartSearch
<1>3. /\ generation' = generation + 1 /\ rows' = NoRows /\ open /\ open' = open
      /\ status' = [says |-> "searching", hits |-> 0]
      /\ job' = job /\ toPanel' = toPanel /\ stopped' = stopped
  BY DEF StartSearch
<1>4. Typed'
  BY <1>1, <1>2, <1>3 DEF Typed, Says
<1>5. Worked'
  BY <1>1, <1>3 DEF Worked, Working
<1>6. Known(t) /\ Rightly(NoRows, t, 0) /\ Limit(t) \in Nat
  BY TreesKnown, NothingShown
<1>7. PICK from : from = [i \in 1..(Len(toPanel) + 1) |-> 0]
  OBVIOUS
<1>8. Len(toPanel) \in Nat /\ DOMAIN toPanel = 1..Len(toPanel)
  BY <1>1
<1>9. from[1] = 0 /\ from[Len(toPanel) + 1] = 0
      /\ \A i \in DOMAIN toPanel : from[i] = 0 /\ from[i + 1] = 0
  BY <1>7, <1>8
<1>10. \A i \in DOMAIN toPanel : toPanel[i].gen # generation + 1
  <2> SUFFICES ASSUME NEW i \in DOMAIN toPanel PROVE toPanel[i].gen # generation + 1
    OBVIOUS
  <2>1. toPanel[i] \in Signal
    BY <1>1
  <2>2. toPanel[i].gen \in Nat
    BY <2>1 DEF Signal
  <2> QED  BY <1>1, <2>2
<1>11. Brought(from)'
  <2>1. from \in [1..(Len(toPanel) + 1) -> 0..Limit(t)]
    BY <1>6, <1>7
  <2> QED  BY <1>2, <1>3, <1>9, <1>10, <2>1 DEF Brought
<1>12. Sent(0)'
  <2>1. \A i \in DOMAIN toWorker' : toWorker'[i].gen = generation + 1 => toWorker'[i].tree = t
    <3>1. [gen |-> generation + 1, tree |-> t] \in Call
      BY <1>1 DEF Call
    <3>2. \A i \in DOMAIN toWorker' : \/ i \in DOMAIN toWorker /\ toWorker'[i] = toWorker[i]
                                      \/ toWorker'[i] = [gen |-> generation + 1, tree |-> t]
      BY <1>1, <1>2, <3>1
    <3>3. \A i \in DOMAIN toWorker : toWorker[i].gen # generation + 1
      BY <1>1
    <3> QED  BY <3>2, <3>3
  <2>2. job'.gen # generation'
    BY <1>1, <1>3
  <2> QED  BY <1>2, <1>3, <2>1, <2>2 DEF Sent
<1>13. Sent(from[Len(toPanel) + 1])'
  BY <1>3, <1>9, <1>12
<1>14. InFlight(0, from)'
  BY <1>2, <1>3, <1>6, <1>9, <1>11, <1>13 DEF InFlight
<1>15. Flight'
  BY <1>14 DEF Flight
<1> QED  BY <1>4, <1>5, <1>15

(* What leaves the queues, the search under way and the rows as they are.   *)
LEMMA UntouchedShows ==
  ASSUME ShowInv, UNCHANGED <<generation, rows, tree, job, toWorker>>,
         open' => open /\ toPanel' = toPanel,
         status' = status \/ status'.says \notin {"done", "limit"}, status' \in [says : Says, hits : Nat],
         stopped' \subseteq Nat
  PROVE  Typed' /\ Worked' /\ Flight'
<1>1. Typed'
  BY DEF ShowInv, Typed
<1>2. Worked'
  BY DEF ShowInv, Worked, Working
<1>3. PICK n, from : InFlight(n, from)
  BY DEF ShowInv, Flight
<1>4. Sent(from[Len(toPanel) + 1]) /\ open' => Sent(from[Len(toPanel) + 1])'
  BY DEF Sent, Working
<1>5. Brought(from) /\ open' => Brought(from)'
  BY DEF Brought
<1>6. InFlight(n, from)'
  BY <1>3, <1>4, <1>5 DEF InFlight
<1> QED  BY <1>1, <1>2, <1>6 DEF Flight

LEMMA UserShows ==
  ASSUME ShowInv, User
  PROVE  Typed' /\ Worked' /\ Flight'
<1>1. CASE StartSearch
  BY <1>1, StartShows
<1>2. CASE StartSearchRefused
  <2>1. /\ UNCHANGED <<generation, rows, tree, job, toWorker, toPanel, open, stopped>>
        /\ status' = [says |-> "invalid pattern", hits |-> 0]
    BY <1>2 DEF StartSearchRefused
  <2>2. status' \in [says : Says, hits : Nat] /\ status'.says \notin {"done", "limit"}
    BY <2>1 DEF Says
  <2>3. stopped' \subseteq Nat
    BY <2>1 DEF ShowInv, Typed
  <2> QED  BY <2>1, <2>2, <2>3, UntouchedShows
<1>3. CASE StopSearch
  <2>1. UNCHANGED <<generation, rows, tree, status, job, toWorker, toPanel, open>>
    BY <1>3 DEF StopSearch, panel
  <2>2. stopped' \subseteq Nat
    BY <1>3 DEF StopSearch, ShowInv, Typed, SearchInv, Types
  <2>3. status' \in [says : Says, hits : Nat]
    BY <2>1 DEF ShowInv, Typed
  <2> QED  BY <2>1, <2>2, <2>3, UntouchedShows
<1>4. CASE Close
  <2>1. UNCHANGED <<generation, rows, tree, status, job, toWorker, stopped>> /\ ~open'
    BY <1>4 DEF Close, panel
  <2>2. stopped' \subseteq Nat /\ status' \in [says : Says, hits : Nat]
    BY <2>1 DEF ShowInv, Typed
  <2> QED  BY <2>1, <2>2, UntouchedShows
<1> QED  BY <1>1, <1>2, <1>3, <1>4 DEF User

-----------------------------------------------------------------------------
(* The worker.  What it takes, it has not begun to send.                    *)
LEMMA NotYetSent ==
  ASSUME SearchInv, Typed, ~Working, toWorker # <<>>, toWorker' = Tail(toWorker),
         UNCHANGED <<panel, open>>, NEW m \in 0..Limit(tree), Sent(m)
  PROVE  /\ toWorker[1].gen = generation => toWorker[1].tree = tree /\ m = 0
         /\ ~Working' => Sent(m)'
         /\ job'.gen = toWorker[1].gen /\ job'.tree = toWorker[1].tree
            /\ job'.pending = <<>> /\ job'.hits = 0 => Sent(m)'
<1>1. toWorker \in Seq(Call) /\ 1 \in DOMAIN toWorker /\ Limit(tree) \in Nat
  BY TreeKnown DEF SearchInv, Types
<1>2. toWorker[1].gen = generation => toWorker[1].tree = tree /\ m = 0
  BY <1>1 DEF Sent
<1>3. \A i \in DOMAIN toWorker' : i + 1 \in DOMAIN toWorker /\ toWorker'[i] = toWorker[i + 1]
  BY <1>1
<1>4. generation' = generation /\ tree' = tree
  BY DEF panel
<1>5. \A i \in DOMAIN toWorker' : toWorker'[i].gen = generation' => toWorker'[i].tree = tree' /\ m = 0
  BY <1>3, <1>4 DEF Sent
<1>6. ~Working' => Sent(m)'
  BY <1>5 DEF Sent
<1>7. ASSUME job'.gen = toWorker[1].gen, job'.tree = toWorker[1].tree,
             job'.pending = <<>>, job'.hits = 0
      PROVE  Sent(m)'
  <2>1. Part(tree, 0, 0) = <<>>
    BY DEF Part
  <2>2. job'.gen = generation' => job'.tree = tree' /\ m <= job'.hits
                                  /\ job'.pending = Part(tree', m, job'.hits)
    BY <1>2, <1>4, <1>7, <2>1
  <2> QED  BY <1>5, <2>2 DEF Sent
<1> QED  BY <1>2, <1>6, <1>7

(* A search that ends at once ends without a word on what it found.         *)
LEMMA EndsAtOnce ==
  ASSUME ShowInv, ~Working, toWorker # <<>>, toWorker' = Tail(toWorker), job' = job,
         NEW end \in Signal, end.signal = "finished", end.says \in {"stopped", "error"},
         Send(<<end>>), UNCHANGED <<panel, open, stopped>>
  PROVE  Typed' /\ Worked' /\ Flight'
<1>1. Typed' /\ Worked'
  BY DEF ShowInv, Typed, Worked, Working, panel
<1>2. SearchInv /\ Typed /\ Flight /\ Limit(tree) \in Nat
  BY TreeKnown DEF ShowInv
<1> DEFINE signals == <<end>>
<1>3. /\ signals \in Seq(Signal) /\ signals # <<>> /\ Send(signals)
      /\ \A i \in DOMAIN signals : i = 1 /\ signals[i] = end
  OBVIOUS
<1> HIDE DEF signals
<1>4. ASSUME NEW m \in 0..Limit(tree), Sent(m)
      PROVE  Carried(signals, m, m) /\ Sent(m)'
  <2>1. Brings(end, tree, m, m)
    BY <1>2 DEF Brings
  <2>2. Carried(signals, m, m)
    BY <1>2, <1>3, <2>1 DEF Carried
  <2>3. ~Working'
    BY DEF Working
  <2> QED  BY <1>2, <1>4, <2>2, <2>3, NotYetSent
<1>5. Flight'
  BY <1>2, <1>3, <1>4, WorkerFlight
<1> QED  BY <1>1, <1>5

LEMMA TakeShows ==
  ASSUME ShowInv, TakeSearch
  PROVE  Typed' /\ Worked' /\ Flight'
<1> DEFINE call == toWorker[1]
           begun == [NoJob EXCEPT !.gen = call.gen]
           dropped == [begun EXCEPT !.cancelled = TRUE]
<1>1. /\ ~Working /\ toWorker # <<>> /\ toWorker' = Tail(toWorker)
      /\ UNCHANGED <<panel, open, stopped>>
  BY DEF TakeSearch
<1>2. SearchInv /\ Typed /\ Worked /\ Flight
  BY DEF ShowInv
<1>3. Head(toWorker) = call /\ call \in Call
  BY <1>1, <1>2, Taking
<1>4. call.gen \in Nat /\ call.tree \in Trees \cup {NoFolder}
  BY <1>3 DEF Call
<1>5. begun \in Job /\ dropped \in Job
  BY <1>4, FreshJob
<1> HIDE DEF begun, dropped
<1>6. \/ Send(<<Finished(dropped, FALSE)>>) /\ job' = job
      \/ Send(<<Finished(begun, TRUE)>>) /\ job' = job
      \/ /\ call.tree # NoFolder /\ job' = [begun EXCEPT !.tree = call.tree] /\ toPanel' = toPanel
  BY <1>3 DEF TakeSearch, begun, dropped
<1>7. /\ Finished(dropped, FALSE).says = "stopped" /\ Finished(begun, TRUE).says = "error"
      /\ Finished(dropped, FALSE) \in Signal /\ Finished(dropped, FALSE).signal = "finished"
      /\ Finished(begun, TRUE) \in Signal /\ Finished(begun, TRUE).signal = "finished"
  <2>1. dropped.cancelled
    BY DEF dropped, begun, NoJob
  <2> QED  BY <1>5, <2>1, EndSignal DEF Finished
<1>8. CASE Send(<<Finished(dropped, FALSE)>>) /\ job' = job
  BY <1>1, <1>7, <1>8, EndsAtOnce
<1>9. CASE Send(<<Finished(begun, TRUE)>>) /\ job' = job
  BY <1>1, <1>7, <1>9, EndsAtOnce
<1>10. CASE call.tree # NoFolder /\ job' = [begun EXCEPT !.tree = call.tree] /\ toPanel' = toPanel
  <2>1. /\ job'.gen = call.gen /\ job'.tree = call.tree /\ job'.at = 1 /\ job'.pending = <<>>
        /\ job'.hits = 0 /\ ~job'.truncated /\ call.tree \in Trees
    BY <1>4, <1>10 DEF begun, NoJob
  <2> DEFINE t == call.tree
  <2>2. Known(t) /\ FoundUpTo(t)[0] = <<>> /\ Limit(t) \in Nat /\ Len(t) \in Nat
    BY <2>1, TreesKnown, FoundSteps, NothingShown DEF Known
  <2>3. Worked'
    <3>1. job'.at \in 1..(Len(t) + 1) /\ job'.at - 1 = 0
      BY <2>1, <2>2
    <3>2. job'.hits = Len(FoundUpTo(t)[job'.at - 1])
      BY <2>1, <2>2, <3>1
    <3>3. ~LimitReached(job'.hits)
      BY <2>1, SearchAssumption DEF LimitReached
    <3>4. job'.pending \in Seq(Hit)
      BY <2>1
    <3> QED  BY <2>1, <2>2, <3>1, <3>2, <3>3, <3>4 DEF Worked
  <2>4. open => Send(<<>>)
    BY <1>2, <1>10 DEF Send, SearchInv, Types
  <2>5. ASSUME NEW m \in 0..Limit(tree), Sent(m)
        PROVE  Carried(<<>>, m, m) /\ Sent(m)'
    <3>1. Sent(m)'
      BY <1>1, <1>2, <2>1, <2>5, NotYetSent
    <3>2. m \in Nat
      BY <1>2, TreeKnown
    <3> QED  BY <3>1, <3>2 DEF Carried
  <2>6. <<>> \in Seq(Signal)
    OBVIOUS
  <2>7. Flight'
    BY <1>1, <1>2, <2>4, <2>5, <2>6, WorkerFlight
  <2>8. Typed'
    BY <1>1, <1>2 DEF Typed, panel
  <2> QED  BY <2>3, <2>7, <2>8
<1> QED  BY <1>6, <1>8, <1>9, <1>10

(* A step of the walk: what it adds to pending comes next, and it sends all *)
(* that is pending or nothing.                                              *)
LEMMA WalkShows ==
  ASSUME ShowInv, Working, UNCHANGED <<panel, open, toWorker, stopped>>,
         NEW signals \in Seq(Signal), open => Send(signals),
         Worked', job'.gen = job.gen, job'.tree = job.tree, job'.hits \in Nat, job'.hits >= job.hits,
         \/ /\ job'.pending = job.pending \o Part(job.tree, job.hits, job'.hits)
            /\ \A i \in DOMAIN signals : signals[i].gen = job.gen /\ signals[i].signal = "progress"
         \/ /\ job'.pending = <<>> /\ signals # <<>>
            /\ signals[1] = Batch(job.gen, job.pending \o Part(job.tree, job.hits, job'.hits))
            /\ \A i \in DOMAIN signals :
                 signals[i].gen = job.gen /\ (i # 1 => signals[i].signal = "progress")
  PROVE  Typed' /\ Worked' /\ Flight'
<1>1. SearchInv /\ Typed /\ Worked /\ Flight
  BY DEF ShowInv
<1>2. job \in Job /\ job.hits \in Nat /\ job.gen \in Nat
  BY <1>1, JobFields DEF SearchInv, Types
<1>3. Typed'
  BY <1>1 DEF Typed, panel
<1>4. generation' = generation /\ tree' = tree /\ toWorker' = toWorker
  BY DEF panel
<1>5. Working'
  BY DEF Working
<1>6. job'.hits <= Limit(job.tree) /\ job.tree \in Trees
  BY <1>1, <1>5 DEF Worked
<1>7. ASSUME NEW m \in 0..Limit(tree), Sent(m)
      PROVE  \E m2 : Carried(signals, m, m2) /\ Sent(m2)'
  <2>1. Limit(tree) \in Nat /\ Known(tree) /\ m \in Nat
    BY <1>1, TreeKnown
  <2>2. \A i \in DOMAIN signals : signals[i].gen = job.gen
    OBVIOUS
  <2>3. CASE job.gen # generation
    <3>1. Carried(signals, m, m)
      BY <2>1, <2>2, <2>3 DEF Carried
    <3>2. Sent(m)'
      BY <1>4, <1>7, <2>3 DEF Sent
    <3> QED  BY <3>1, <3>2
  <2>4. CASE job.gen = generation
    <3>1. job.tree = tree /\ m <= job.hits /\ job.pending = Part(tree, m, job.hits)
      BY <1>7, <2>4 DEF Sent
    <3>2. \A i \in DOMAIN toWorker : toWorker[i].gen # generation
      BY <1>1, <2>4 DEF SearchInv, OnePlace
    <3>3. job'.hits <= Limit(tree) /\ Limit(tree) <= Len(Found(tree)) /\ Len(Found(tree)) \in Nat
      BY <1>1, <1>6, <3>1, TreeKnown
    <3>4. job'.hits <= Len(Found(tree)) /\ m <= job'.hits
      BY <1>2, <2>1, <3>1, <3>3
    <3>5. job.pending \o Part(job.tree, job.hits, job'.hits) = Part(tree, m, job'.hits)
      <4>1. job.hits \in Nat /\ job'.hits \in Nat /\ job.hits <= job'.hits
        BY <1>2
      <4>2. Part(tree, m, job.hits) \o Part(tree, job.hits, job'.hits) = Part(tree, m, job'.hits)
        <5>1. PICK b \in Nat, c \in Nat : b = job.hits /\ c = job'.hits
          BY <4>1
        <5>2. m <= b /\ b <= c /\ c <= Len(Found(tree))
          BY <3>1, <3>4, <4>1, <5>1
        <5>3. Part(tree, m, b) \o Part(tree, b, c) = Part(tree, m, c)
          BY <2>1, <5>2, PartsJoin
        <5> QED  BY <5>1, <5>3
      <4> QED  BY <3>1, <4>2
    <3>6. CASE /\ job'.pending = job.pending \o Part(job.tree, job.hits, job'.hits)
               /\ \A i \in DOMAIN signals : signals[i].gen = job.gen /\ signals[i].signal = "progress"
      <4>1. \A i \in DOMAIN signals : Brings(signals[i], tree, m, m)
        BY <2>1, <3>6 DEF Brings
      <4>2. Carried(signals, m, m)
        BY <2>1, <2>2, <2>4, <4>1 DEF Carried
      <4>3. Sent(m)'
        BY <1>4, <2>4, <3>1, <3>2, <3>4, <3>5, <3>6 DEF Sent
      <4> QED  BY <4>2, <4>3
    <3>7. CASE /\ job'.pending = <<>> /\ signals # <<>>
               /\ signals[1] = Batch(job.gen, job.pending \o Part(job.tree, job.hits, job'.hits))
               /\ \A i \in DOMAIN signals :
                    signals[i].gen = job.gen /\ (i # 1 => signals[i].signal = "progress")
      <4> DEFINE m2 == job'.hits
      <4>1. Brings(signals[1], tree, m, m2)
        BY <3>4, <3>5, <3>7 DEF Brings, Batch
      <4>2. \A i \in DOMAIN signals : i # 1 => Brings(signals[i], tree, m2, m2)
        BY <3>4, <3>7 DEF Brings
      <4>3. Carried(signals, m, m2)
        BY <2>1, <2>2, <2>4, <3>3, <3>4, <3>7, <4>1, <4>2 DEF Carried
      <4>4. PICK c : c = m2
        OBVIOUS
      <4>5. Part(tree, c, c) = <<>>
        BY <4>4 DEF Part
      <4>6. Sent(c)'
        BY <1>4, <2>4, <3>1, <3>2, <3>7, <4>4, <4>5 DEF Sent
      <4> QED  BY <4>3, <4>4, <4>6
    <3> QED  BY <3>6, <3>7
  <2> QED  BY <2>3, <2>4
<1>8. Flight'
  BY <1>1, <1>7, WorkerFlight
<1> QED  BY <1>3, <1>8

(* Without a match, nothing is added.                                       *)
LEMMA WalkNothing ==
  ASSUME ShowInv, Working, UNCHANGED <<panel, open, toWorker, stopped>>,
         NEW signals \in Seq(Signal), open => Send(signals), Worked',
         job'.gen = job.gen, job'.tree = job.tree, job'.hits = job.hits, job'.pending = job.pending,
         \A i \in DOMAIN signals : signals[i].gen = job.gen /\ signals[i].signal = "progress"
  PROVE  Typed' /\ Worked' /\ Flight'
<1>1. Part(job.tree, job.hits, job'.hits) = <<>> /\ job.hits \in Nat /\ job.pending \in Seq(FoundHit)
  BY JobFields DEF Part, ShowInv, SearchInv, Types
<1>2. job'.pending = job.pending \o Part(job.tree, job.hits, job'.hits)
  BY <1>1
<1>3. job'.hits \in Nat /\ job'.hits >= job.hits
  BY <1>1
<1> QED  BY <1>2, <1>3, WalkShows

LEMMA WalkPastShows ==
  ASSUME ShowInv, WalkPast \/ WalkCancelled
  PROVE  Typed' /\ Worked' /\ Flight'
<1>1. SearchInv /\ Typed /\ Worked /\ job \in Job
  BY DEF ShowInv, SearchInv, Types
<1>2. /\ Working /\ job.at <= Len(job.tree) /\ ~job.cancelled /\ ~job.truncated
      /\ UNCHANGED <<panel, open, toWorker, stopped>>
  BY DEF WalkPast, WalkCancelled, Walk, Walking
<1> DEFINE t == job.tree
           at == job.at
<1>3. /\ t \in Trees /\ at \in 1..(Len(t) + 1) /\ job.pending \in Seq(Hit) /\ job.hits <= Limit(t)
      /\ job.hits = Len(FoundUpTo(t)[at - 1]) /\ ~LimitReached(job.hits)
  BY <1>1, <1>2 DEF Worked
<1>4. Known(t) /\ t \in Seq([kind : {"skipped", "text"}, lines : Seq(Nat)]) /\ Len(t) \in Nat
  BY <1>3, TreesKnown DEF Known
<1>5. at \in 1..Len(t) /\ at \in DOMAIN t
  BY <1>2, <1>3, <1>4 DEF Known
<1>6. CASE WalkCancelled
  <2>1. job' = [job EXCEPT !.cancelled = TRUE] /\ toPanel' = toPanel
    BY <1>6 DEF WalkCancelled
  <2>2. /\ job'.gen = job.gen /\ job'.tree = job.tree /\ job'.hits = job.hits /\ job'.at = job.at
        /\ job'.pending = job.pending /\ job'.truncated = job.truncated
    BY <1>1, <2>1 DEF Job
  <2>3. Worked'
    BY <1>2, <1>3, <2>2 DEF Worked
  <2>4. <<>> \in Seq(Signal) /\ (open => Send(<<>>))
    BY <1>1, <2>1 DEF Send, SearchInv, Types
  <2>5. \A i \in DOMAIN <<>> : <<>>[i].gen = job.gen /\ <<>>[i].signal = "progress"
    OBVIOUS
  <2> QED  BY <1>2, <2>2, <2>3, <2>4, <2>5, WalkNothing
<1>7. CASE WalkPast
  <2>1. /\ job' = [job EXCEPT !.at = @ + 1]
        /\ t[at].kind = "skipped" \/ t[at].lines = <<>>
        /\ Send(<<>>) \/ Send(<<Progress(job.gen, job.hits)>>)
    BY <1>7 DEF WalkPast
  <2>2. /\ job'.gen = job.gen /\ job'.tree = job.tree /\ job'.hits = job.hits /\ job'.at = job.at + 1
        /\ job'.pending = job.pending /\ job'.truncated = job.truncated
    BY <1>1, <2>1 DEF Job
  <2>3. HitsIn(t, at) = <<>>
    <3>1. CASE t[at].kind = "skipped"
      BY <3>1 DEF HitsIn
    <3>2. CASE t[at].lines = <<>>
      <4>1. DOMAIN t[at].lines = {}
        BY <3>2
      <4>2. [k \in {} |-> [file |-> at, line |-> t[at].lines[k]]] = <<>>
        OBVIOUS
      <4> QED  BY <4>1, <4>2 DEF HitsIn
    <3> QED  BY <2>1, <3>1, <3>2
  <2>4. FoundUpTo(t)[at] = FoundUpTo(t)[at - 1]
    <3>1. FoundUpTo(t)[at] = FoundUpTo(t)[at - 1] \o HitsIn(t, at)
      BY <1>4, <1>5, FoundSteps
    <3>2. FoundUpTo(t)[at - 1] \in Seq(Hit)
      <4>1. at - 1 \in 0..Len(t)
        BY <1>4, <1>5
      <4> QED  BY <1>4, <4>1, FoundSteps
    <3> QED  BY <2>3, <3>1, <3>2
  <2>5. Worked'
    <3>1. job'.at \in 1..(Len(t) + 1) /\ job'.at - 1 = at
      BY <1>4, <1>5, <2>2
    <3> QED  BY <1>2, <1>3, <2>2, <2>4, <3>1 DEF Worked
  <2>6. CASE Send(<<>>)
    <3>1. <<>> \in Seq(Signal)
      OBVIOUS
    <3>2. \A i \in DOMAIN <<>> : <<>>[i].gen = job.gen /\ <<>>[i].signal = "progress"
      OBVIOUS
    <3> QED  BY <1>2, <2>2, <2>5, <2>6, <3>1, <3>2, WalkNothing
  <2>7. CASE Send(<<Progress(job.gen, job.hits)>>)
    <3> DEFINE one == Progress(job.gen, job.hits)
    <3>1. one \in Signal /\ one.gen = job.gen /\ one.signal = "progress"
      BY <1>1, JobFields, SignalTypes DEF Progress
    <3> HIDE DEF one
    <3>2. <<one>> \in Seq(Signal) /\ \A i \in DOMAIN <<one>> : <<one>>[i] = one
      BY <3>1
    <3>3. Send(<<one>>)
      BY <2>7 DEF one
    <3> QED  BY <1>2, <2>2, <2>5, <3>1, <3>2, <3>3, WalkNothing
  <2> QED  BY <2>1, <2>6, <2>7
<1> QED  BY <1>6, <1>7

LEMMA WalkFoundShows ==
  ASSUME ShowInv, WalkFound
  PROVE  Typed' /\ Worked' /\ Flight'
<1>1. SearchInv /\ Typed /\ Worked /\ job \in Job
  BY DEF ShowInv, SearchInv, Types
<1>2. /\ Working /\ job.at <= Len(job.tree) /\ ~job.cancelled /\ ~job.truncated
      /\ UNCHANGED <<panel, open, toWorker, stopped>>
  BY DEF WalkFound, Walk, Walking
<1> DEFINE t == job.tree
           at == job.at
           n == job.hits
           found == HitsOf(t, at, n)
           hits == n + Len(found)
           pending == job.pending \o found
<1>3. /\ t \in Trees /\ at \in 1..(Len(t) + 1) /\ job.pending \in Seq(Hit) /\ n <= Limit(t)
      /\ n = Len(FoundUpTo(t)[at - 1]) /\ ~LimitReached(n)
  BY <1>1, <1>2 DEF Worked
<1>4. Known(t) /\ Len(t) \in Nat /\ Limit(t) \in Nat /\ Limit(t) <= Len(Found(t)) /\ Len(Found(t)) \in Nat
  BY <1>3, TreesKnown, NothingShown, FoundPrefix DEF Known
<1>5. at \in 1..Len(t) /\ at \in DOMAIN t
  BY <1>2, <1>3, <1>4 DEF Known
<1>6. t[at].kind = "text"
  BY DEF WalkFound
<1>7. /\ n \in Nat /\ Len(found) \in Nat /\ hits <= Limit(t) /\ found = Part(t, n, hits)
      /\ IF LimitReached(hits) THEN hits = MaxHits ELSE hits = Len(FoundUpTo(t)[at])
  BY <1>3, <1>4, <1>5, <1>6, WalkFinds
<1>8. hits \in Nat /\ hits >= n
  BY <1>7
<1>9. PICK sent \in BOOLEAN :
        /\ FlushesTo(pending, sent)
        /\ job' = [job EXCEPT !.at = @ + 1, !.hits = hits,
                              !.pending = IF sent THEN <<>> ELSE pending,
                              !.truncated = LimitReached(hits)]
        /\ Send((IF sent THEN <<Batch(job.gen, pending)>> ELSE <<>>) \o <<Progress(job.gen, hits)>>)
  BY DEF WalkFound
<1> HIDE DEF found, hits, pending
<1>10. /\ job'.gen = job.gen /\ job'.tree = t /\ job'.hits = hits /\ job'.at = at + 1
       /\ job'.pending = (IF sent THEN <<>> ELSE pending) /\ job'.truncated = LimitReached(hits)
  BY <1>1, <1>9 DEF Job
<1>11. pending = job.pending \o Part(t, n, hits)
  BY <1>7 DEF pending
<1>12. pending \in Seq(Hit) /\ pending \in Seq(FoundHit)
  <2>1. hits <= Len(Found(t))
    BY <1>4, <1>7, <1>8
  <2>2. Part(t, n, hits) \in Seq(Hit)
    <3>1. PICK a \in Nat, b \in Nat : a = n /\ b = hits
      BY <1>7, <1>8
    <3>2. a <= b /\ b <= Len(Found(t))
      BY <1>8, <2>1, <3>1
    <3>3. Part(t, a, b) \in Seq(Hit)
      BY <1>4, <3>2, PartType
    <3> QED  BY <3>1, <3>3
  <2>3. job.pending \o Part(t, n, hits) \in Seq(Hit)
    BY <1>3, <2>2, ConcatProperties
  <2>4. pending \in Seq(Hit)
    BY <1>11, <2>3
  <2>5. Hit \subseteq FoundHit
    BY SearchAssumption DEF Hit, FoundHit, Files
  <2>6. pending \in Seq(FoundHit)
    BY <2>4, <2>5
  <2> QED  BY <2>4, <2>6
<1>13. Worked'
  <2>1. job'.at \in 1..(Len(t) + 1) /\ job'.at - 1 = at
    BY <1>4, <1>5, <1>10
  <2>2. job'.pending \in Seq(Hit)
    BY <1>10, <1>12
  <2>3. LimitReached(hits) => MaxHits > 0
    BY DEF LimitReached
  <2> QED  BY <1>3, <1>7, <1>10, <2>1, <2>2, <2>3 DEF Worked
<1> DEFINE b == Batch(job.gen, pending)
           p == Progress(job.gen, hits)
<1>14. /\ b \in Signal /\ b.gen = job.gen /\ p \in Signal /\ p.gen = job.gen /\ p.signal = "progress"
  BY <1>1, <1>8, <1>12, JobFields, SignalTypes DEF Batch, Progress
<1>15. CASE sent
  <2> DEFINE signals == <<b>> \o <<p>>
  <2> HIDE DEF b, p
  <2>1. /\ signals \in Seq(Signal) /\ signals # <<>> /\ signals[1] = b
        /\ \A i \in DOMAIN signals : signals[i].gen = job.gen /\ (i # 1 => signals[i].signal = "progress")
    BY <1>14
  <2>3. Send(signals)
    BY <1>9, <1>15 DEF b, p
  <2>4. signals[1] = Batch(job.gen, job.pending \o Part(job.tree, job.hits, job'.hits))
    BY <1>10, <1>11, <2>1 DEF b
  <2>5. job'.pending = <<>>
    BY <1>10, <1>15
  <2> HIDE DEF signals
  <2> QED  BY <1>2, <1>8, <1>10, <1>13, <2>1, <2>3, <2>4, <2>5, WalkShows
<1>16. CASE ~sent
  <2> DEFINE signals == <<>> \o <<p>>
  <2> HIDE DEF p
  <2>1. /\ signals \in Seq(Signal)
        /\ \A i \in DOMAIN signals : signals[i].gen = job.gen /\ signals[i].signal = "progress"
    BY <1>14
  <2>3. Send(signals)
    BY <1>9, <1>16 DEF p
  <2>4. job'.pending = job.pending \o Part(job.tree, job.hits, job'.hits)
    BY <1>10, <1>11, <1>16
  <2> HIDE DEF signals
  <2> QED  BY <1>2, <1>8, <1>10, <1>13, <2>1, <2>3, <2>4, WalkShows
<1> QED  BY <1>15, <1>16

(* What a finished search says of its hits.                                 *)
LEMMA EndIsRight ==
  ASSUME ShowInv, Working, ~Walking, Finished(job, FALSE).says \in {"done", "limit"}
  PROVE  /\ job.hits = Limit(job.tree)
         /\ Finished(job, FALSE).says = "done" => ~LimitReached(Len(Found(job.tree)))
<1>1. SearchInv /\ Worked /\ job \in Job
  BY DEF ShowInv, SearchInv, Types
<1> DEFINE t == job.tree
           len == Len(Found(t))
<1>2. /\ t \in Trees /\ job.at \in 1..(Len(t) + 1) /\ job.hits <= Limit(t)
      /\ IF job.truncated THEN MaxHits > 0 /\ job.hits = MaxHits
         ELSE job.hits = Len(FoundUpTo(t)[job.at - 1]) /\ ~LimitReached(job.hits)
  BY <1>1 DEF Worked
<1>3. Known(t) /\ Len(t) \in Nat /\ len \in Nat
  BY <1>2, TreesKnown, FoundPrefix DEF Known
<1>4. ~job.cancelled /\ (job.truncated <=> Finished(job, FALSE).says = "limit")
  BY <1>1, JobFields DEF Finished
<1> HIDE DEF len
<1>5. Limit(t) = IF MaxHits = 0 \/ len < MaxHits - 0 THEN len ELSE MaxHits - 0
  BY DEF Limit, Room, len
<1>6. MaxHits \in Nat /\ job.hits \in Nat
  BY <1>1, JobFields, SearchAssumption
<1>7. CASE job.truncated
  <2>1. MaxHits > 0 /\ job.hits = MaxHits /\ MaxHits <= Limit(t)
    BY <1>2, <1>7
  <2>2. Limit(t) \in Nat /\ Limit(t) <= MaxHits
    <3>1. CASE MaxHits = 0 \/ len < MaxHits - 0
      BY <1>3, <1>5, <1>6, <2>1, <3>1
    <3>2. CASE ~(MaxHits = 0 \/ len < MaxHits - 0)
      BY <1>5, <1>6, <3>2
    <3> QED  BY <3>1, <3>2
  <2>3. job.hits = Limit(t)
    BY <1>6, <2>1, <2>2
  <2>4. Finished(job, FALSE).says = "limit"
    BY <1>4, <1>7
  <2> QED  BY <2>3, <2>4
<1>8. CASE ~job.truncated
  <2>1. job.at - 1 = Len(t)
    BY <1>2, <1>3, <1>4, <1>8 DEF Walking
  <2>2. job.hits = len /\ ~LimitReached(len)
    BY <1>2, <1>8, <2>1 DEF Found, len
  <2>3. ~(MaxHits > 0 /\ len >= MaxHits)
    BY <2>2 DEF LimitReached
  <2>4. Limit(t) = len
    BY <1>3, <1>5, <1>6, <2>3
  <2> QED  BY <2>2, <2>4 DEF len
<1> QED  BY <1>7, <1>8

LEMMA EndShows ==
  ASSUME ShowInv, SearchEnds
  PROVE  Typed' /\ Worked' /\ Flight'
<1>1. SearchInv /\ Typed /\ Worked /\ Flight /\ job \in Job
  BY DEF ShowInv, SearchInv, Types
<1>2. /\ Working /\ ~Walking /\ UNCHANGED <<panel, open, toWorker, stopped>> /\ job' = NoJob
      /\ Send((IF job.pending # <<>> THEN <<Batch(job.gen, job.pending)>> ELSE <<>>)
              \o <<Progress(job.gen, job.hits), Finished(job, FALSE)>>)
  BY DEF SearchEnds
<1>3. ~Working'
  BY <1>2 DEF Working, NoJob
<1>4. Typed' /\ Worked'
  <2>1. job'.pending = <<>>
    BY <1>2 DEF NoJob
  <2>2. job'.pending \in Seq(Hit)
    BY <2>1
  <2> QED  BY <1>1, <1>2, <1>3, <2>2 DEF Typed, Worked, panel
<1>5. generation' = generation /\ tree' = tree /\ toWorker' = toWorker
  BY <1>2 DEF panel
<1>6. job.hits \in Nat /\ job.gen \in Nat /\ job.pending \in Seq(FoundHit) /\ job.hits <= Limit(job.tree)
  BY <1>1, <1>2, JobFields DEF Worked
<1> DEFINE b == Batch(job.gen, job.pending)
           p == Progress(job.gen, job.hits)
           e == Finished(job, FALSE)
           signals == (IF job.pending # <<>> THEN <<b>> ELSE <<>>) \o <<p, e>>
<1>7. /\ b \in Signal /\ b.gen = job.gen /\ b.signal = "batch" /\ b.hits = job.pending
      /\ p \in Signal /\ p.gen = job.gen /\ p.signal = "progress"
      /\ e \in Signal /\ e.gen = job.gen /\ e.signal = "finished" /\ e.hits = job.hits
  BY <1>1, <1>6, SignalTypes, EndSignal DEF Batch, Progress, Finished
<1>8. e.says \in {"done", "limit"} =>
        /\ job.hits = Limit(job.tree)
        /\ e.says = "done" => ~LimitReached(Len(Found(job.tree)))
  BY <1>2, EndIsRight
<1> HIDE DEF b, p, e
<1>9. signals \in Seq(Signal) /\ signals # <<>>
      /\ \A i \in DOMAIN signals : signals[i].gen = job.gen
      /\ \A k \in DOMAIN signals :
            \/ k = 1 /\ job.pending # <<>> /\ signals[k] = b
            \/ (k # 1 \/ job.pending = <<>>) /\ (signals[k] = p \/ signals[k] = e)
  <2>1. CASE job.pending # <<>>
    <3>1. signals = <<b>> \o <<p, e>>
      BY <2>1
    <3> HIDE DEF signals
    <3> QED  BY <1>7, <2>1, <3>1
  <2>2. CASE job.pending = <<>>
    <3>1. signals = <<>> \o <<p, e>>
      BY <2>2
    <3> HIDE DEF signals
    <3> QED  BY <1>7, <2>2, <3>1
  <2> QED  BY <2>1, <2>2
<1>10. Send(signals)
  BY <1>2 DEF b, p, e
<1> HIDE DEF signals
<1>11. ASSUME NEW m \in 0..Limit(tree), Sent(m)
       PROVE  \E m2 : Carried(signals, m, m2) /\ Sent(m2)'
  <2>1. Limit(tree) \in Nat /\ Known(tree) /\ m \in Nat
    BY <1>1, TreeKnown
  <2>2. CASE job.gen # generation
    <3>1. Carried(signals, m, m)
      BY <1>9, <2>1, <2>2 DEF Carried
    <3>2. Sent(m)'
      BY <1>3, <1>5, <1>11 DEF Sent
    <3> QED  BY <3>1, <3>2
  <2>3. CASE job.gen = generation
    <3>1. job.tree = tree /\ m <= job.hits /\ job.pending = Part(tree, m, job.hits)
      BY <1>2, <1>11, <2>3 DEF Sent
    <3>2. \A i \in DOMAIN toWorker : toWorker[i].gen # generation
      BY <1>1, <1>2, <2>3 DEF SearchInv, OnePlace
    <3>3. PICK h \in Nat : h = job.hits
      BY <1>6
    <3>4. m <= h /\ h <= Limit(tree) /\ job.pending = Part(tree, m, h)
      BY <1>6, <3>1, <3>3
    <3>5. job.pending = <<>> => m = h
      <4>1. h <= Len(Found(tree))
        <5>1. Limit(tree) <= Len(Found(tree)) /\ Len(Found(tree)) \in Nat
          BY <1>1, TreeKnown
        <5> QED  BY <2>1, <3>4, <5>1
      <4>2. Len(Part(tree, m, h)) = h - m
        BY <2>1, <3>4, <4>1, PartType
      <4> QED  BY <2>1, <3>4, <4>2
    <3>6. Brings(b, tree, m, h) /\ Brings(p, tree, h, h) /\ Brings(e, tree, h, h)
      BY <1>7, <1>8, <3>1, <3>3, <3>4 DEF Brings
    <3>7. \A i \in DOMAIN signals : Brings(signals[i], tree, IF i = 1 THEN m ELSE h, h)
      BY <1>9, <3>5, <3>6
    <3>8. Carried(signals, m, h)
      BY <1>9, <2>1, <2>3, <3>4, <3>7 DEF Carried
    <3>9. Sent(h)'
      BY <1>3, <1>5, <3>2 DEF Sent
    <3> QED  BY <3>8, <3>9
  <2> QED  BY <2>2, <2>3
<1>12. Flight'
  BY <1>1, <1>2, <1>9, <1>10, <1>11, WorkerFlight
<1> QED  BY <1>4, <1>12

LEMMA WorkerShows ==
  ASSUME ShowInv, Worker
  PROVE  Typed' /\ Worked' /\ Flight'
<1>1. CASE ThreadEnds
  <2>1. ~open /\ UNCHANGED <<panel, open, job, stopped>> /\ toWorker' = <<>>
    BY <1>1 DEF ThreadEnds
  <2>2. Typed' /\ Worked'
    BY <2>1 DEF ShowInv, Typed, Worked, Working, panel
  <2>3. PICK n, from : InFlight(n, from)
    BY DEF ShowInv, Flight
  <2>4. InFlight(n, from)'
    BY <2>1, <2>3 DEF InFlight, panel
  <2> QED  BY <2>2, <2>4 DEF Flight
<1> QED  BY <1>1, TakeShows, WalkPastShows, WalkFoundShows, EndShows DEF Worker

-----------------------------------------------------------------------------
(* The panel's slots.                                                       *)
LEMMA SlotShows ==
  ASSUME ShowInv, Slots
  PROVE  Typed' /\ Worked' /\ Flight'
<1> DEFINE first == toPanel[1]
<1>1. SearchInv /\ Typed /\ Worked
  BY DEF ShowInv
<1>2. /\ open /\ toPanel # <<>> /\ toPanel' = Tail(toPanel) /\ Head(toPanel) = first
      /\ UNCHANGED <<generation, tree, open, job, toWorker, stopped>>
  BY DEF Slots, OnBatch, OnProgress, OnFinished, NextSignal, SearchInv, Types
<1>3. PICK n, from : InFlight(n, from)
  BY DEF ShowInv, Flight
<1>4. /\ Rightly(rows, tree, n) /\ n <= Limit(tree)
      /\ status.says \in {"done", "limit"} =>
            /\ status.hits = n /\ n = Limit(tree)
            /\ status.says = "done" => ~LimitReached(Len(Found(tree)))
      /\ from[1] = n /\ Brought(from) /\ Sent(from[Len(toPanel) + 1])
  BY <1>2, <1>3 DEF InFlight
<1>5. toPanel \in Seq(Signal) /\ toPanel' \in Seq(Signal) /\ first \in Signal /\ 1 \in DOMAIN toPanel
      /\ Len(toPanel) \in Nat \ {0} /\ Len(toPanel') = Len(toPanel) - 1
      /\ \A i \in DOMAIN toPanel' : i + 1 \in DOMAIN toPanel /\ toPanel'[i] = toPanel[i + 1]
  BY <1>1, <1>2 DEF SearchInv, Types
<1>6. /\ Known(tree) /\ Limit(tree) \in Nat /\ Limit(tree) <= Len(Found(tree))
      /\ Len(Found(tree)) \in Nat
  BY <1>1, TreeKnown
<1>7. from \in [1..(Len(toPanel) + 1) -> 0..Limit(tree)]
      /\ \A i \in DOMAIN toPanel :
            IF toPanel[i].gen = generation THEN Brings(toPanel[i], tree, from[i], from[i + 1])
            ELSE from[i + 1] = from[i]
  BY <1>4 DEF Brought
<1>8. PICK b \in 0..Limit(tree) : b = from[2]
  BY <1>5, <1>7
<1>9. n \in Nat /\ b \in Nat /\ (IF first.gen = generation THEN Brings(first, tree, n, b) ELSE b = n)
  <2>1. n \in Nat
    BY <1>4, <1>6 DEF Rightly
  <2>2. IF first.gen = generation THEN Brings(first, tree, from[1], from[1 + 1]) ELSE from[1 + 1] = from[1]
    BY <1>5, <1>7
  <2> QED  BY <1>4, <1>6, <1>8, <2>1, <2>2
<1>10. Typed'
  <2>1. first.gen = generation /\ first.signal = "finished" => first.says \in Says /\ first.hits \in Nat
    BY <1>5 DEF Signal, Verdict, Says
  <2>2. first.signal = "progress" => first.hits \in Nat
    BY <1>5 DEF Signal
  <2>3. status' \in [says : Says, hits : Nat]
    <3>1. \/ status' = status
          \/ /\ first.signal = "progress"
             /\ status' = [says |-> "searching", hits |-> first.hits]
          \/ /\ first.gen = generation /\ first.signal = "finished"
             /\ status' = [says |-> first.says, hits |-> first.hits]
      BY <1>2 DEF Slots, OnBatch, OnProgress, OnFinished, NextSignal, Current
    <3>2. "searching" \in Says /\ status \in [says : Says, hits : Nat]
      BY <1>1 DEF Typed, Says
    <3> HIDE DEF first
    <3> QED  BY <2>1, <2>2, <3>1, <3>2
  <2> QED  BY <1>1, <1>2, <2>3 DEF Typed
<1>11. Worked'
  BY <1>1, <1>2 DEF Worked, Working
<1>12. /\ Rightly(rows', tree, b)
       /\ status'.says \in {"done", "limit"} =>
            /\ status'.hits = b /\ b = Limit(tree)
            /\ status'.says = "done" => ~LimitReached(Len(Found(tree)))
  <2>1. CASE first.gen # generation
    <3>1. rows' = rows /\ status' = status
      BY <1>2, <2>1 DEF Slots, OnBatch, OnProgress, OnFinished, NextSignal, Current
    <3> QED  BY <1>4, <1>9, <2>1, <3>1
  <2>2. CASE first.gen = generation /\ first.signal = "batch"
    <3>1. rows' = AddHits(rows, first.hits) /\ status' = status
      BY <1>2, <2>2 DEF Slots, OnBatch, OnProgress, OnFinished, NextSignal, Current
    <3>2. n <= b /\ first.hits = Part(tree, n, b)
      BY <1>9, <2>2 DEF Brings
    <3>3. b <= Len(Found(tree))
      BY <1>6, <1>8
    <3>4. Rightly(AddHits(rows, Part(tree, n, b)), tree, b)
      BY <1>4, <1>6, <1>9, <3>2, <3>3, HitsAdded
    <3>5. status.says \in {"done", "limit"} => b = n
      BY <1>4, <1>6, <1>8, <1>9, <3>2
    <3> QED  BY <1>4, <3>1, <3>2, <3>4, <3>5
  <2>3. CASE first.gen = generation /\ first.signal = "progress"
    <3>1. rows' = rows /\ status'.says = "searching"
      BY <1>2, <2>3 DEF Slots, OnBatch, OnProgress, OnFinished, NextSignal, Current
    <3>2. b = n
      BY <1>9, <2>3 DEF Brings
    <3> QED  BY <1>4, <3>1, <3>2
  <2>4. CASE first.gen = generation /\ first.signal = "finished"
    <3>1. rows' = rows /\ status' = [says |-> first.says, hits |-> first.hits]
      BY <1>2, <2>4 DEF Slots, OnBatch, OnProgress, OnFinished, NextSignal, Current
    <3>2. /\ b = n
          /\ first.says \in {"done", "limit"} =>
               /\ first.hits = n /\ n = Limit(tree)
               /\ first.says = "done" => ~LimitReached(Len(Found(tree)))
      BY <1>9, <2>4 DEF Brings
    <3> QED  BY <1>4, <3>1, <3>2
  <2>5. first.signal \in {"batch", "progress", "finished"}
    BY <1>5 DEF Signal
  <2> QED  BY <2>1, <2>2, <2>3, <2>4, <2>5
<1>13. PICK to : to = [i \in 1..Len(toPanel) |-> from[i + 1]]
  OBVIOUS
<1>14. Brought(to)'
  <2>1. to \in [1..(Len(toPanel') + 1) -> 0..Limit(tree)]
    <3>1. \A i \in 1..Len(toPanel) : from[i + 1] \in 0..Limit(tree)
      BY <1>5, <1>7
    <3> QED  BY <1>5, <1>13, <3>1
  <2>2. ASSUME NEW i \in DOMAIN toPanel'
        PROVE  IF toPanel'[i].gen = generation THEN Brings(toPanel'[i], tree, to[i], to[i + 1])
               ELSE to[i + 1] = to[i]
    <3>1. toPanel'[i] = toPanel[i + 1] /\ i + 1 \in DOMAIN toPanel
      BY <1>5
    <3>2. i \in 1..Len(toPanel) /\ i + 1 \in 1..Len(toPanel)
      BY <1>5
    <3>3. to[i] = from[i + 1] /\ to[i + 1] = from[(i + 1) + 1]
      BY <1>13, <3>2
    <3>4. IF toPanel[i + 1].gen = generation
          THEN Brings(toPanel[i + 1], tree, from[i + 1], from[(i + 1) + 1])
          ELSE from[(i + 1) + 1] = from[i + 1]
      BY <1>7, <3>1
    <3> QED  BY <3>1, <3>3, <3>4
  <2> QED  BY <1>2, <2>1, <2>2 DEF Brought
<1>15. to[1] = b /\ to[Len(toPanel') + 1] = from[Len(toPanel) + 1]
  BY <1>5, <1>8, <1>13
<1>16. Sent(to[Len(toPanel) + 1])'
  <2>1. PICK m : m = from[Len(toPanel) + 1]
    OBVIOUS
  <2>2. Sent(m)
    BY <1>4, <2>1
  <2>3. Sent(m)'
    BY <1>2, <2>2 DEF Sent, Working
  <2>4. m = to[Len(toPanel') + 1]
    BY <1>15, <2>1
  <2> QED  BY <2>3, <2>4
<1>17. InFlight(b, to)'
  BY <1>2, <1>8, <1>12, <1>14, <1>15, <1>16 DEF InFlight
<1> QED  BY <1>10, <1>11, <1>17 DEF Flight

-----------------------------------------------------------------------------
LEMMA ShowsAtFirst ==
  ASSUME Init
  PROVE  Typed /\ Worked /\ Flight
<1>1. /\ generation = 0 /\ rows = NoRows /\ status = [says |-> "nothing", hits |-> 0] /\ tree = <<>>
      /\ open /\ job = NoJob /\ toWorker = <<>> /\ toPanel = <<>> /\ stopped = {}
  BY DEF Init
<1>2. ~Working
  BY <1>1 DEF Working, NoJob
<1>3. Typed
  BY <1>1 DEF Typed, Says
<1>4. Worked
  <2>1. job.pending = <<>>
    BY <1>1 DEF NoJob
  <2>2. job.pending \in Seq(Hit)
    BY <2>1
  <2> QED  BY <1>2, <2>2 DEF Worked
<1>5. Known(tree) /\ Rightly(NoRows, tree, 0) /\ Limit(tree) \in Nat
  BY <1>3, TreeKnown, NothingShown
<1>6. Len(toPanel) = 0 /\ DOMAIN toPanel = {} /\ DOMAIN toWorker = {}
  BY <1>1
<1>7. PICK from : from = [i \in 1..1 |-> 0]
  OBVIOUS
<1>8. from[1] = 0 /\ Brought(from)
  BY <1>5, <1>6, <1>7 DEF Brought
<1>9. Sent(0)
  BY <1>2, <1>6 DEF Sent
<1>10. InFlight(0, from)
  BY <1>1, <1>5, <1>6, <1>8, <1>9 DEF InFlight
<1> QED  BY <1>3, <1>4, <1>10 DEF Flight

(* Every step of either thread keeps the rows and what is on its way right. *)
THEOREM ShowsInductive == Spec => []ShowInv
<1>1. Init => ShowInv
  BY Begins, ShowsAtFirst DEF ShowInv
<1>2. ShowInv /\ SearchInv' /\ [Next]_vars => ShowInv'
  <2> SUFFICES ASSUME ShowInv, SearchInv', [Next]_vars
               PROVE  Typed' /\ Worked' /\ Flight'
    BY DEF ShowInv
  <2>1. CASE UNCHANGED vars
    <3>1. UNCHANGED <<generation, rows, tree, job, toWorker, open, toPanel, status, stopped>>
      BY <2>1 DEF vars, panel
    <3>2. stopped' \subseteq Nat /\ status' \in [says : Says, hits : Nat]
      BY <3>1 DEF ShowInv, Typed
    <3> QED  BY <3>1, <3>2, UntouchedShows
  <2> QED  BY <2>1, UserShows, WorkerShows, SlotShows DEF Next
<1> QED  BY <1>1, <1>2, SearchInductive, PTL DEF Spec

(* Whatever is abandoned, started or queued meanwhile, the results on       *)
(* screen are the first matches of the search they are shown for, each on   *)
(* the row of its line and counted there, and never more of them than the   *)
(* limit (onBatch, addHits).                                                *)
THEOREM RowsAreTheSearch == Spec => []ShowsTheSearch
<1>1. ShowInv => ShowsTheSearch
  <2> SUFFICES ASSUME ShowInv PROVE ShowsTheSearch
    OBVIOUS
  <2>1. PICK n, from : InFlight(n, from)
    BY DEF ShowInv, Flight
  <2>2. Shows(rows, tree, n) /\ n \in 0..Limit(tree)
    <3>1. Limit(tree) \in Nat /\ Len(Found(tree)) \in Nat
      BY TreeKnown DEF ShowInv
    <3> QED  BY <2>1, <3>1 DEF InFlight, Rightly
  <2> QED  BY <2>2 DEF ShowsTheSearch
<1> QED  BY <1>1, ShowsInductive, PTL

(* When the status line says that a search is done, or that the limit was   *)
(* reached, all its matches up to the limit are on screen and their number  *)
(* is the one it says: no batch is lost, none is counted twice and none     *)
(* comes after the end (flush, onFinished).                                 *)
THEOREM FinishedShowsEverything == Spec => []FinishedShowsAll
<1>1. ShowInv => FinishedShowsAll
  BY DEF ShowInv, Flight, InFlight, Rightly, FinishedShowsAll
<1> QED  BY <1>1, ShowsInductive, PTL

(* What the status line says of the end of a search is so, whichever end it *)
(* says: done, at the limit or stopped (onFinished).                        *)
THEOREM StatusTrue == Spec => []StatusIsTrue
<1>1. FinishedShowsAll /\ StoppedOnRequest => StatusIsTrue
  BY DEF StatusIsTrue
<1> QED  BY <1>1, FinishedShowsEverything, StopsOnRequest, PTL

(* The state has the types TypeOK states.                                   *)
THEOREM FileTyped == Spec => []TypeOK
<1>1. ShowInv => TypeOK
  <2> SUFFICES ASSUME ShowInv PROVE TypeOK
    OBVIOUS
  <2>1. SearchInv /\ Typed /\ Worked /\ Flight
    BY DEF ShowInv
  <2>2. generation \in Nat /\ running \in BOOLEAN /\ open \in BOOLEAN /\ cancelBelow \in Nat
    BY <2>1 DEF SearchInv, Types
  <2>3. rows \in [Files -> Seq([line : Nat, matchCount : Nat])]
    BY <2>1 DEF Flight, InFlight, Rightly, Rows, Row
  <2>4. toWorker \in Seq([gen : Nat, tree : Trees \cup {NoFolder}])
    BY <2>1 DEF SearchInv, Types, Call
  <2>5. \A i \in DOMAIN toPanel :
           toPanel[i].signal \in {"batch", "progress", "finished"} /\ toPanel[i].gen \in Nat
    <3> SUFFICES ASSUME NEW i \in DOMAIN toPanel
                 PROVE  /\ toPanel[i].signal \in {"batch", "progress", "finished"}
                        /\ toPanel[i].gen \in Nat
      OBVIOUS
    <3>1. toPanel[i] \in Signal
      BY <2>1 DEF SearchInv, Types
    <3> QED  BY <3>1 DEF Signal
  <2>6. job \in [gen : Nat, tree : Trees \cup {<<>>}, at : Nat, pending : Seq(Hit),
                 hits : Nat, cancelled : BOOLEAN, truncated : BOOLEAN]
    <3>1. job \in Job
      BY <2>1 DEF SearchInv, Types
    <3>2. job.pending \in Seq(Hit)
      BY <2>1 DEF Worked
    <3> QED  BY <3>1, <3>2 DEF Job
  <2> QED  BY <2>1, <2>2, <2>3, <2>4, <2>5, <2>6 DEF TypeOK, Typed, Says
<1> QED  BY <1>1, ShowsInductive, PTL
=============================================================================
