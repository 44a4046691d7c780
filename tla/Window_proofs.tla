--------------------------- MODULE Window_proofs ---------------------------
(***************************************************************************)
(* Theorems about three parts of the window that share no state. WindowTabs, *)
(* proved for any files and any number of tabs: no tab is lost against the *)
(* user's will, and a closing of the window takes all of them or none.     *)
(* ServerTree, proved for any strings, databases, folders, launches and    *)
(* numbers of servers: the list kept is the list shown, every database is  *)
(* of its server, every folder of the server it was kept for. ScriptCache, *)
(* for any servers and directives: what is kept of the scripts is whole,   *)
(* cut as its directives mean, and of the folder that would win now.       *)
(***************************************************************************)
EXTENDS WindowTabs, ServerTree, ScriptCache, Recursion, FiniteSetTheorems, SequenceTheorems, TLAPS

TabRecords(n) == [id : 1..n, text : Torn..(n + 1), modified : BOOLEAN, file : Files \cup {"none"},
                  generated : BOOLEAN, run : BOOLEAN, timer : BOOLEAN, spoilt : BOOLEAN]

TabsAreTyped ==
    /\ ids \in Nat /\ tabs \in Seq(TabRecords(ids)) /\ Len(tabs) <= MaxTabs
    /\ disk \in [Files -> Torn..(ids + 1)]
    /\ asking \in [at : Nat, window : BOOLEAN]
    /\ givenUp \subseteq 1..ids /\ lateRuns \subseteq 1..ids

TabsApart(list) == \A i, j \in DOMAIN list : list[i].id = list[j].id => i = j

(* A text without changes is empty, a script, or in its file, unless the    *)
(* file was spoilt.                                                         *)
InFile(t, d) == t.text \in {0, 1} \/ t.spoilt \/ (t.file # "none" /\ d[t.file] = t.text)
Written(list, d) == \A i \in DOMAIN list : ~list[i].modified => InFile(list[i], d)

(* The tab a question is about has changes, and in a closing of the window  *)
(* the tabs before it have agreed.                                          *)
Passed(t, given, late) == (t.modified => t.id \in given) /\ (t.run => t.id \in late)
Asked ==
    asking # NotAsking =>
        /\ asking.at \in DOMAIN tabs /\ tabs[asking.at].modified
        /\ asking.window =>
             \A i \in DOMAIN tabs : i < asking.at => Passed(tabs[i], givenUp, lateRuns)

TabsInv == TabsAreTyped /\ TabsApart(tabs) /\ Written(tabs, disk) /\ Asked

Lost == {t \in ToSet(tabs) : \A u \in ToSet(tabs') : u.id # t.id}
Consent ==
    /\ \A t \in Lost : GoesByConsent(t)
    /\ asking.window \/ asking'.window => Lost = {} \/ tabs' = <<>>

-----------------------------------------------------------------------------
(* Lists.                                                                   *)
LEMMA Least ==
  ASSUME NEW S, S \subseteq Nat, S # {}
  PROVE  Min(S) \in S /\ \A y \in S : Min(S) <= y
<1>1. \E x \in S : \A y \in S : x <= y
  <2> SUFFICES ASSUME \A x \in S : \E y \in S : ~(x <= y) PROVE FALSE
    OBVIOUS
  <2> DEFINE T == {n \in Nat : \A x \in S : x > n}
  <2>1. 0 \in T
    <3> SUFFICES ASSUME NEW x \in S PROVE x > 0
      OBVIOUS
    <3>1. PICK y \in S : ~(x <= y)
      OBVIOUS
    <3> QED  BY <3>1
  <2>2. \A n \in Nat : n \in T => n + 1 \in T
    <3> SUFFICES ASSUME NEW n \in Nat, \A x \in S : x > n, NEW x \in S PROVE x > n + 1
      OBVIOUS
    <3>1. PICK y \in S : ~(x <= y)
      OBVIOUS
    <3>2. y > n /\ x \in Nat /\ y \in Nat
      OBVIOUS
    <3> QED  BY <3>1, <3>2
  <2> HIDE DEF T
  <2>3. Nat \subseteq T
    BY <2>1, <2>2, SetInduction
  <2>4. PICK x \in S : TRUE
    OBVIOUS
  <2>5. x \in T
    BY <2>3
  <2> QED  BY <2>5 DEF T
<1> QED  BY <1>1 DEF Min

-----------------------------------------------------------------------------
(* Records of tabs.                                                         *)
LEMMA TabFields ==
  ASSUME NEW n, NEW t \in TabRecords(n)
  PROVE  /\ t.id \in 1..n /\ t.text \in Torn..(n + 1) /\ t.modified \in BOOLEAN
         /\ t.file \in Files \cup {"none"} /\ t.run \in BOOLEAN /\ t.spoilt \in BOOLEAN
BY DEF TabRecords

SavedTab(t, f) == [t EXCEPT !.file = f, !.modified = FALSE, !.spoilt = FALSE]
SpoiltTab(t, f) == [t EXCEPT !.spoilt = t.spoilt \/ t.file = f]

LEMMA SavedFields ==
  ASSUME NEW n, NEW t \in TabRecords(n), NEW f \in Files
  PROVE  /\ SavedTab(t, f) \in TabRecords(n) /\ SavedTab(t, f).id = t.id /\ SavedTab(t, f).text = t.text
         /\ SavedTab(t, f).file = f /\ SavedTab(t, f).modified = FALSE /\ SavedTab(t, f).run = t.run
BY DEF TabRecords, SavedTab

LEMMA SpoiltFields ==
  ASSUME NEW n, NEW t \in TabRecords(n), NEW f
  PROVE  /\ SpoiltTab(t, f) \in TabRecords(n) /\ SpoiltTab(t, f).id = t.id /\ SpoiltTab(t, f).text = t.text
         /\ SpoiltTab(t, f).file = t.file /\ SpoiltTab(t, f).modified = t.modified
         /\ SpoiltTab(t, f).run = t.run
         /\ SpoiltTab(t, f).spoilt <=> (t.spoilt \/ t.file = f)
<1> DEFINE b == t.spoilt \/ t.file = f
<1>1. b \in BOOLEAN
  OBVIOUS
<1>2. SpoiltTab(t, f) = [t EXCEPT !.spoilt = b]
  BY DEF SpoiltTab
<1> HIDE DEF b
<1>3. \A x \in BOOLEAN : [t EXCEPT !.spoilt = x] \in TabRecords(n) /\ [t EXCEPT !.spoilt = x].id = t.id
        /\ [t EXCEPT !.spoilt = x].text = t.text /\ [t EXCEPT !.spoilt = x].file = t.file
        /\ [t EXCEPT !.spoilt = x].modified = t.modified /\ [t EXCEPT !.spoilt = x].run = t.run
        /\ [t EXCEPT !.spoilt = x].spoilt = x
  BY DEF TabRecords
<1> QED  BY <1>1, <1>2, <1>3 DEF b

LEMMA Grows ==
  ASSUME NEW n \in Nat, NEW m \in Nat, n <= m
  PROVE  TabRecords(n) \subseteq TabRecords(m) /\ Torn..(n + 1) \subseteq Torn..(m + 1) /\ 1..n \subseteq 1..m
<1>1. Torn..(n + 1) \subseteq Torn..(m + 1) /\ 1..n \subseteq 1..m
  BY DEF Torn
<1> QED  BY <1>1 DEF TabRecords

-----------------------------------------------------------------------------
(* Steps that keep the tabs in their places.                                *)
SameTabs(list) == DOMAIN list = DOMAIN tabs /\ \A i \in DOMAIN tabs : list[i].id = tabs[i].id

LEMMA NoneLost ==
  ASSUME \A i \in DOMAIN tabs : \E j \in DOMAIN tabs' : tabs'[j].id = tabs[i].id
  PROVE  Lost = {} /\ Consent
<1>1. Lost = {}
  <2> SUFFICES ASSUME NEW t \in Lost PROVE FALSE
    OBVIOUS
  <2>1. PICK i \in DOMAIN tabs : t = tabs[i]
    BY DEF Lost, ToSet
  <2>2. PICK j \in DOMAIN tabs' : tabs'[j].id = tabs[i].id
    OBVIOUS
  <2>3. tabs'[j] \in ToSet(tabs')
    BY DEF ToSet
  <2> QED  BY <2>1, <2>2, <2>3 DEF Lost
<1> QED  BY <1>1 DEF Consent

LEMMA OneLength ==
  ASSUME NEW m \in Nat, NEW n \in Nat, 1..m = 1..n
  PROVE  m = n
<1>1. (m \in 1..n \/ m = 0) /\ (n \in 1..m \/ n = 0)
  OBVIOUS
<1> QED  BY <1>1

LEMMA SameLength ==
  ASSUME NEW S, NEW T, tabs \in Seq(S), tabs' \in Seq(T), SameTabs(tabs')
  PROVE  Len(tabs') = Len(tabs)
<1>1. Len(tabs) \in Nat /\ Len(tabs') \in Nat /\ 1..Len(tabs) = 1..Len(tabs')
  BY DEF SameTabs
<1> QED  BY <1>1, OneLength

LEMMA TabsPlaced ==
  ASSUME SameTabs(tabs'), TabsApart(tabs)
  PROVE  TabsApart(tabs') /\ Lost = {} /\ Consent
<1>1. Lost = {} /\ Consent
  <2>1. \A i \in DOMAIN tabs : \E j \in DOMAIN tabs' : tabs'[j].id = tabs[i].id
    BY DEF SameTabs
  <2> QED  BY <2>1, NoneLost
<1>2. TabsApart(tabs')
  BY DEF SameTabs, TabsApart
<1> QED  BY <1>1, <1>2

(* ... and after which no question is open.                                 *)
LEMMA Settled ==
  ASSUME TabsInv, tabs' \in Seq(TabRecords(ids')), SameTabs(tabs'), ids' \in Nat,
         disk' \in [Files -> Torn..(ids' + 1)], Written(tabs', disk'), asking' = NotAsking,
         givenUp' \subseteq 1..ids', lateRuns' \subseteq 1..ids'
  PROVE  TabsInv' /\ Consent
<1>1. TabsApart(tabs') /\ Consent
  BY TabsPlaced DEF TabsInv
<1>2. Len(tabs') = Len(tabs)
  BY SameLength DEF TabsInv, TabsAreTyped, SameTabs
<1>3. asking' \in [at : Nat, window : BOOLEAN]
  BY DEF NotAsking
<1>4. TabsAreTyped'
  BY <1>2, <1>3 DEF TabsInv, TabsAreTyped
<1>5. Asked'
  BY DEF Asked
<1> QED  BY <1>1, <1>4, <1>5 DEF TabsInv

(* A tab saved to a file; its write failing half-way.                       *)
SavedList(i, f) == [j \in DOMAIN tabs |-> IF j = i THEN SavedTab(tabs[i], f) ELSE SpoiltTab(tabs[j], f)]
TornList(f) == [j \in DOMAIN tabs |-> SpoiltTab(tabs[j], f)]

LEMMA SeqLike ==
  ASSUME NEW S, NEW s, NEW l, s \in Seq(S), DOMAIN l = DOMAIN s, l = [j \in DOMAIN l |-> l[j]],
         \A j \in DOMAIN s : l[j] \in S
  PROVE  l \in Seq(S)
<1>1. PICK n \in Nat : n = Len(s) /\ DOMAIN s = 1..n
  <2>1. Len(s) \in Nat /\ DOMAIN s = 1..Len(s)
    OBVIOUS
  <2> QED  BY <2>1
<1>2. l \in [1..n -> S]
  BY <1>1
<1> QED  BY <1>2

LEMMA SavedIs ==
  ASSUME TabsInv, NEW i \in DOMAIN tabs, NEW f \in Files
  PROVE  /\ SavedList(i, f) \in Seq(TabRecords(ids)) /\ SameTabs(SavedList(i, f))
         /\ Written(SavedList(i, f), [disk EXCEPT ![f] = tabs[i].text])
         /\ [disk EXCEPT ![f] = tabs[i].text] \in [Files -> Torn..(ids + 1)]
         /\ \A j \in DOMAIN tabs : SavedList(i, f)[j].run = tabs[j].run
         /\ \A j \in DOMAIN tabs : j # i => SavedList(i, f)[j].modified = tabs[j].modified
         /\ SavedList(i, f)[i].modified = FALSE
<1> DEFINE l == SavedList(i, f)
           d == [disk EXCEPT ![f] = tabs[i].text]
<1>1. tabs \in Seq(TabRecords(ids)) /\ disk \in [Files -> Torn..(ids + 1)] /\ Written(tabs, disk)
  BY DEF TabsInv, TabsAreTyped
<1>2. \A j \in DOMAIN tabs : tabs[j] \in TabRecords(ids)
  BY <1>1
<1>3. DOMAIN l = DOMAIN tabs /\ l = [j \in DOMAIN l |-> l[j]]
  BY DEF SavedList
<1>4. l[i] = SavedTab(tabs[i], f) /\ \A j \in DOMAIN tabs : j # i => l[j] = SpoiltTab(tabs[j], f)
  BY DEF SavedList
<1>5. d \in [Files -> Torn..(ids + 1)] /\ d[f] = tabs[i].text /\ \A g \in Files : g # f => d[g] = disk[g]
  <2>1. tabs[i].text \in Torn..(ids + 1)
    BY <1>2, TabFields
  <2> QED  BY <1>1, <2>1
<1> HIDE DEF l, d
<1>6. /\ l[i] \in TabRecords(ids) /\ l[i].id = tabs[i].id /\ l[i].text = tabs[i].text
      /\ l[i].file = f /\ l[i].modified = FALSE /\ l[i].run = tabs[i].run
  <2>1. PICK t \in TabRecords(ids) : t = tabs[i]
    BY <1>2
  <2>2. /\ SavedTab(t, f) \in TabRecords(ids) /\ SavedTab(t, f).id = t.id /\ SavedTab(t, f).text = t.text
        /\ SavedTab(t, f).file = f /\ SavedTab(t, f).modified = FALSE /\ SavedTab(t, f).run = t.run
    BY SavedFields
  <2> QED  BY <1>4, <2>1, <2>2
<1>7. \A j \in DOMAIN tabs : j # i =>
        /\ l[j] \in TabRecords(ids) /\ l[j].id = tabs[j].id /\ l[j].text = tabs[j].text
        /\ l[j].file = tabs[j].file /\ l[j].modified = tabs[j].modified /\ l[j].run = tabs[j].run
        /\ l[j].spoilt <=> (tabs[j].spoilt \/ tabs[j].file = f)
  BY <1>2, <1>4, SpoiltFields
<1>8. l \in Seq(TabRecords(ids))
  BY <1>1, <1>3, <1>6, <1>7, SeqLike
<1>9. SameTabs(l)
  BY <1>3, <1>6, <1>7 DEF SameTabs
<1>10. Written(l, d)
  <2> SUFFICES ASSUME NEW j \in DOMAIN tabs, ~l[j].modified PROVE InFile(l[j], d)
    BY <1>3 DEF Written
  <2>1. CASE j = i
    <3>1. f # "none"
      BY WindowTabsBounds
    <3> QED  BY <1>5, <1>6, <2>1, <3>1 DEF InFile
  <2>2. CASE j # i
    <3>1. InFile(tabs[j], disk)
      BY <1>1, <1>7, <2>2 DEF Written
    <3>2. tabs[j].file # "none" => tabs[j].file \in Files
      BY <1>2, TabFields
    <3> QED  BY <1>5, <1>7, <2>2, <3>1, <3>2 DEF InFile
  <2> QED  BY <2>1, <2>2
<1> QED  BY <1>5, <1>6, <1>7, <1>8, <1>9, <1>10 DEF l, d

LEMMA TornIs ==
  ASSUME TabsInv, NEW f \in Files
  PROVE  /\ TornList(f) \in Seq(TabRecords(ids)) /\ SameTabs(TornList(f))
         /\ Written(TornList(f), [disk EXCEPT ![f] = Torn])
         /\ [disk EXCEPT ![f] = Torn] \in [Files -> Torn..(ids + 1)]
<1> DEFINE l == TornList(f)
           d == [disk EXCEPT ![f] = Torn]
<1>1. tabs \in Seq(TabRecords(ids)) /\ disk \in [Files -> Torn..(ids + 1)] /\ Written(tabs, disk) /\ ids \in Nat
  BY DEF TabsInv, TabsAreTyped
<1>2. \A j \in DOMAIN tabs : tabs[j] \in TabRecords(ids)
  BY <1>1
<1>3. DOMAIN l = DOMAIN tabs /\ l = [j \in DOMAIN l |-> l[j]]
      /\ \A j \in DOMAIN tabs : l[j] = SpoiltTab(tabs[j], f)
  BY DEF TornList
<1>4. d \in [Files -> Torn..(ids + 1)] /\ \A g \in Files : g # f => d[g] = disk[g]
  <2>1. Torn \in Torn..(ids + 1)
    BY <1>1 DEF Torn
  <2> HIDE DEF Torn
  <2> QED  BY <1>1, <2>1
<1> HIDE DEF l, d
<1>5. \A j \in DOMAIN tabs :
        /\ l[j] \in TabRecords(ids) /\ l[j].id = tabs[j].id /\ l[j].text = tabs[j].text
        /\ l[j].file = tabs[j].file /\ l[j].modified = tabs[j].modified
        /\ l[j].spoilt <=> (tabs[j].spoilt \/ tabs[j].file = f)
  BY <1>2, <1>3, SpoiltFields
<1>6. l \in Seq(TabRecords(ids))
  BY <1>1, <1>3, <1>5, SeqLike
<1>7. SameTabs(l)
  BY <1>3, <1>5 DEF SameTabs
<1>8. Written(l, d)
  <2> SUFFICES ASSUME NEW j \in DOMAIN tabs, ~l[j].modified PROVE InFile(l[j], d)
    BY <1>3 DEF Written
  <2>1. InFile(tabs[j], disk)
    BY <1>1, <1>5 DEF Written
  <2>2. tabs[j].file # "none" => tabs[j].file \in Files
    BY <1>2, TabFields
  <2> QED  BY <1>4, <1>5, <2>1, <2>2 DEF InFile
<1> QED  BY <1>4, <1>6, <1>7, <1>8 DEF l, d

(* One tab alters.                                                          *)
LEMMA OneChanged ==
  ASSUME TabsInv, NEW i \in DOMAIN tabs, NEW n \in Nat, ids <= n, NEW t \in TabRecords(n),
         t.id = tabs[i].id, t.modified \/ InFile(t, disk), tabs' = [tabs EXCEPT ![i] = t]
  PROVE  /\ tabs' \in Seq(TabRecords(n)) /\ SameTabs(tabs') /\ Written(tabs', disk)
         /\ disk \in [Files -> Torn..(n + 1)] /\ givenUp \subseteq 1..n /\ lateRuns \subseteq 1..n
<1> DEFINE l == [tabs EXCEPT ![i] = t]
<1>1. /\ ids \in Nat /\ tabs \in Seq(TabRecords(ids)) /\ disk \in [Files -> Torn..(ids + 1)]
      /\ Written(tabs, disk) /\ givenUp \subseteq 1..ids /\ lateRuns \subseteq 1..ids
  BY DEF TabsInv, TabsAreTyped
<1>2. TabRecords(ids) \subseteq TabRecords(n) /\ Torn..(ids + 1) \subseteq Torn..(n + 1) /\ 1..ids \subseteq 1..n
  BY <1>1, Grows
<1>3. \A j \in DOMAIN tabs : tabs[j] \in TabRecords(n)
  BY <1>1, <1>2
<1>4. /\ DOMAIN l = DOMAIN tabs /\ l = [j \in DOMAIN l |-> l[j]]
      /\ l[i] = t /\ \A j \in DOMAIN tabs : j # i => l[j] = tabs[j]
  OBVIOUS
<1> HIDE DEF l
<1>5. l \in Seq(TabRecords(n))
  <2>1. \A j \in DOMAIN tabs : l[j] \in TabRecords(n)
    BY <1>3, <1>4
  <2> QED  BY <1>1, <1>4, <2>1, SeqLike
<1>6. SameTabs(l)
  BY <1>4 DEF SameTabs
<1>7. Written(l, disk)
  BY <1>1, <1>4 DEF Written
<1>8. disk \in [Files -> Torn..(n + 1)]
  BY <1>1, <1>2
<1> QED  BY <1>1, <1>2, <1>5, <1>6, <1>7, <1>8 DEF l

-----------------------------------------------------------------------------
(* What the user does with no question open.                                *)
LEMMA SaveKept == ASSUME TabsInv, Save PROVE TabsInv' /\ Consent
<1>1. asking = NotAsking /\ UNCHANGED <<asking, ids, givenUp, lateRuns>>
  BY DEF Save, Idle
<1>2. ids \in Nat /\ givenUp \subseteq 1..ids /\ lateRuns \subseteq 1..ids /\ tabs \in Seq(TabRecords(ids))
  BY DEF TabsInv, TabsAreTyped
<1>3. PICK i \in DOMAIN tabs, ask_name \in BOOLEAN :
        \E f \in SaveNames(i, ask_name) : SaveTo(i, f) \/ SaveTorn(f)
  BY DEF Save
<1>4. PICK f \in Files : SaveTo(i, f) \/ SaveTorn(f)
  <2>1. tabs[i].file \in Files \cup {"none"}
    BY <1>2, TabFields
  <2> QED  BY <1>3, <2>1 DEF SaveNames
<1>5. CASE SaveTo(i, f)
  <2>1. tabs' = SavedList(i, f) /\ disk' = [disk EXCEPT ![f] = tabs[i].text]
    BY <1>5 DEF SaveTo, SavedList, SavedTab, SpoiltTab
  <2>2. /\ tabs' \in Seq(TabRecords(ids)) /\ SameTabs(tabs') /\ Written(tabs', disk')
        /\ disk' \in [Files -> Torn..(ids + 1)]
    BY <2>1, SavedIs
  <2> QED  BY <1>1, <1>2, <2>2, Settled
<1>6. CASE SaveTorn(f)
  <2>1. tabs' = TornList(f) /\ disk' = [disk EXCEPT ![f] = Torn]
    BY <1>6 DEF SaveTorn, TornList, SpoiltTab
  <2>2. /\ tabs' \in Seq(TabRecords(ids)) /\ SameTabs(tabs') /\ Written(tabs', disk')
        /\ disk' \in [Files -> Torn..(ids + 1)]
    BY <2>1, TornIs
  <2> QED  BY <1>1, <1>2, <2>2, Settled
<1> QED  BY <1>4, <1>5, <1>6

LEMMA ReloadKept == ASSUME TabsInv, Reload PROVE TabsInv' /\ Consent
<1>1. asking = NotAsking /\ UNCHANGED <<disk, asking, ids, givenUp, lateRuns>>
  BY DEF Reload, Idle
<1>2. /\ ids \in Nat /\ tabs \in Seq(TabRecords(ids)) /\ disk \in [Files -> Torn..(ids + 1)]
      /\ \A j \in DOMAIN tabs : tabs[j] \in TabRecords(ids)
  BY DEF TabsInv, TabsAreTyped
<1>3. PICK i \in DOMAIN tabs :
        /\ tabs[i].file # "none"
        /\ tabs' = [tabs EXCEPT ![i].text = disk[tabs[i].file], ![i].modified = FALSE, ![i].spoilt = FALSE]
  BY DEF Reload
<1>4. PICK x \in Torn..(ids + 1) : x = disk[tabs[i].file]
  <2>1. tabs[i].file \in Files
    BY <1>2, <1>3, TabFields
  <2> QED  BY <1>2, <2>1
<1> DEFINE t == [tabs[i] EXCEPT !.text = x, !.modified = FALSE, !.spoilt = FALSE]
<1>5. t \in TabRecords(ids) /\ t.id = tabs[i].id /\ t.text = x /\ t.file = tabs[i].file
  <2>1. \A u \in TabRecords(ids) :
          /\ [u EXCEPT !.text = x, !.modified = FALSE, !.spoilt = FALSE] \in TabRecords(ids)
          /\ [u EXCEPT !.text = x, !.modified = FALSE, !.spoilt = FALSE].id = u.id
          /\ [u EXCEPT !.text = x, !.modified = FALSE, !.spoilt = FALSE].text = x
          /\ [u EXCEPT !.text = x, !.modified = FALSE, !.spoilt = FALSE].file = u.file
    BY DEF TabRecords
  <2> QED  BY <1>2, <2>1
<1>6. tabs' = [tabs EXCEPT ![i] = t]
  BY <1>3, <1>4
<1> HIDE DEF t
<1>7. InFile(t, disk)
  BY <1>3, <1>4, <1>5 DEF InFile
<1>8. /\ tabs' \in Seq(TabRecords(ids)) /\ SameTabs(tabs') /\ Written(tabs', disk)
      /\ givenUp \subseteq 1..ids /\ lateRuns \subseteq 1..ids
  <2>1. PICK n \in Nat : n = ids
    BY <1>2
  <2>2. ids <= n /\ t \in TabRecords(n)
    BY <1>5, <2>1
  <2> QED  BY <1>5, <1>6, <1>7, <2>1, <2>2, OneChanged
<1> QED  BY <1>1, <1>2, <1>8, Settled

LEMMA SqlChangedKept == ASSUME TabsInv, SqlChanged PROVE TabsInv' /\ Consent
<1>1. asking = NotAsking /\ UNCHANGED <<disk, asking, givenUp, lateRuns>> /\ ids' = ids + 1
  BY DEF SqlChanged, Idle
<1>2. ids \in Nat /\ ids + 1 \in Nat /\ tabs \in Seq(TabRecords(ids)) /\ \A j \in DOMAIN tabs : tabs[j] \in TabRecords(ids)
  BY DEF TabsInv, TabsAreTyped
<1>3. PICK i \in DOMAIN tabs : tabs' = [tabs EXCEPT ![i].text = ids + 2, ![i].modified = TRUE]
  BY DEF SqlChanged
<1> DEFINE t == [tabs[i] EXCEPT !.text = ids + 2, !.modified = TRUE]
<1>4. t \in TabRecords(ids + 1) /\ t.id = tabs[i].id /\ t.modified
  <2>1. tabs[i] \in TabRecords(ids + 1)
    BY <1>2, Grows
  <2>2. ids + 2 \in Torn..(ids + 1 + 1)
    BY <1>2 DEF Torn
  <2>3. \A u \in TabRecords(ids + 1), x \in Torn..(ids + 1 + 1) :
          /\ [u EXCEPT !.text = x, !.modified = TRUE] \in TabRecords(ids + 1)
          /\ [u EXCEPT !.text = x, !.modified = TRUE].id = u.id
          /\ [u EXCEPT !.text = x, !.modified = TRUE].modified
    BY DEF TabRecords
  <2> QED  BY <2>1, <2>2, <2>3
<1>5. tabs' = [tabs EXCEPT ![i] = t]
  BY <1>3
<1> HIDE DEF t
<1>6. /\ tabs' \in Seq(TabRecords(ids + 1)) /\ SameTabs(tabs') /\ Written(tabs', disk)
      /\ disk \in [Files -> Torn..(ids + 1 + 1)]
      /\ givenUp \subseteq 1..(ids + 1) /\ lateRuns \subseteq 1..(ids + 1)
  <2>1. PICK n \in Nat : n = ids + 1
    BY <1>2
  <2>2. ids <= n /\ t \in TabRecords(n)
    BY <1>2, <1>4, <2>1
  <2>3. /\ tabs' \in Seq(TabRecords(n)) /\ SameTabs(tabs') /\ Written(tabs', disk)
        /\ disk \in [Files -> Torn..(n + 1)] /\ givenUp \subseteq 1..n /\ lateRuns \subseteq 1..n
    BY <1>4, <1>5, <2>2, OneChanged
  <2> QED  BY <2>1, <2>3
<1> QED  BY <1>1, <1>2, <1>6, Settled

(* A run or a timer of a tab starts or ends.                                *)
Running(t, r, s) == [t EXCEPT !.run = r, !.timer = s]

LEMMA RunChanged ==
  ASSUME TabsInv, NEW i \in DOMAIN tabs, NEW r \in BOOLEAN, NEW s \in BOOLEAN,
         tabs' = [tabs EXCEPT ![i] = Running(tabs[i], r, s)]
  PROVE  /\ tabs' \in Seq(TabRecords(ids)) /\ SameTabs(tabs') /\ Written(tabs', disk)
         /\ \A j \in DOMAIN tabs : tabs'[j].modified = tabs[j].modified
         /\ \A j \in DOMAIN tabs : j # i => tabs'[j] = tabs[j]
         /\ tabs'[i].run = r
<1>1. /\ ids \in Nat /\ tabs \in Seq(TabRecords(ids)) /\ \A j \in DOMAIN tabs : tabs[j] \in TabRecords(ids)
  BY DEF TabsInv, TabsAreTyped
<1>2. Written(tabs, disk)
  BY DEF TabsInv
<1>3. PICK t \in TabRecords(ids) : t = Running(tabs[i], r, s) /\ t.id = tabs[i].id /\ t.run = r
        /\ t.text = tabs[i].text /\ t.modified = tabs[i].modified /\ t.file = tabs[i].file
        /\ t.spoilt = tabs[i].spoilt
  <2>1. \A u \in TabRecords(ids) :
          /\ Running(u, r, s) \in TabRecords(ids) /\ Running(u, r, s).id = u.id /\ Running(u, r, s).run = r
          /\ Running(u, r, s).text = u.text /\ Running(u, r, s).modified = u.modified
          /\ Running(u, r, s).file = u.file /\ Running(u, r, s).spoilt = u.spoilt
    BY DEF TabRecords, Running
  <2> QED  BY <1>1, <2>1
<1>4. t.modified \/ InFile(t, disk)
  <2>1. tabs[i].modified \/ InFile(tabs[i], disk)
    BY <1>2 DEF Written
  <2> QED  BY <1>3, <2>1 DEF InFile
<1>5. tabs' \in Seq(TabRecords(ids)) /\ SameTabs(tabs') /\ Written(tabs', disk)
  <2>1. PICK n \in Nat : n = ids
    BY <1>1
  <2>2. ids <= n /\ t \in TabRecords(n) /\ tabs' = [tabs EXCEPT ![i] = t]
    BY <1>3, <2>1
  <2> QED  BY <1>3, <1>4, <2>1, <2>2, OneChanged
<1> QED  BY <1>3, <1>5

LEMMA ExecuteQueryKept == ASSUME TabsInv, ExecuteQuery PROVE TabsInv' /\ Consent
<1>1. asking = NotAsking /\ UNCHANGED <<disk, asking, ids, givenUp, lateRuns>>
  BY DEF ExecuteQuery, Idle
<1>2. PICK i \in DOMAIN tabs, s \in BOOLEAN :
        tabs' = [tabs EXCEPT ![i].run = TRUE, ![i].timer = s]
  BY DEF ExecuteQuery
<1>3. tabs' = [tabs EXCEPT ![i] = Running(tabs[i], TRUE, s)]
  BY <1>2 DEF Running
<1>4. tabs' \in Seq(TabRecords(ids)) /\ SameTabs(tabs') /\ Written(tabs', disk)
  BY <1>3, RunChanged
<1> QED  BY <1>1, <1>4, Settled DEF TabsInv, TabsAreTyped

LEMMA StopTimerKeepsTabs == ASSUME TabsInv, StopTimer PROVE TabsInv' /\ Consent
<1>1. asking = NotAsking /\ UNCHANGED <<disk, asking, ids, givenUp, lateRuns>>
  BY DEF StopTimer, Idle
<1>2. PICK i \in DOMAIN tabs : tabs' = [tabs EXCEPT ![i].timer = FALSE]
  BY DEF StopTimer
<1>3. tabs[i] \in TabRecords(ids)
  BY DEF TabsInv, TabsAreTyped
<1>4. tabs' = [tabs EXCEPT ![i] = Running(tabs[i], tabs[i].run, FALSE)] /\ tabs[i].run \in BOOLEAN
  <2>1. \A u \in TabRecords(ids) : [u EXCEPT !.timer = FALSE] = Running(u, u.run, FALSE) /\ u.run \in BOOLEAN
    BY DEF TabRecords, Running
  <2> QED  BY <1>2, <1>3, <2>1
<1>5. PICK r \in BOOLEAN : r = tabs[i].run
  BY <1>4
<1>6. tabs' \in Seq(TabRecords(ids)) /\ SameTabs(tabs') /\ Written(tabs', disk)
  BY <1>4, <1>5, RunChanged
<1> QED  BY <1>1, <1>6, Settled DEF TabsInv, TabsAreTyped

(* A tab more.                                                              *)
LEMMA Opened ==
  ASSUME TabsInv, asking = NotAsking, NEW t \in TabRecords(ids + 1), t.id = ids + 1, InFile(t, disk),
         NEW p, HasMore(tabs', tabs, p, t), tabs' \in Seq(TabRecords(ids + 1)), Len(tabs) < MaxTabs,
         ids' = ids + 1, UNCHANGED <<disk, asking, givenUp, lateRuns>>
  PROVE  TabsInv' /\ Consent
<1>1. /\ ids \in Nat /\ tabs \in Seq(TabRecords(ids)) /\ disk \in [Files -> Torn..(ids + 1)]
      /\ Written(tabs, disk) /\ TabsApart(tabs) /\ givenUp \subseteq 1..ids /\ lateRuns \subseteq 1..ids
      /\ asking \in [at : Nat, window : BOOLEAN]
  BY DEF TabsInv, TabsAreTyped
<1>2. PICK n \in Nat : n = Len(tabs) /\ DOMAIN tabs = 1..n
  <2>1. Len(tabs) \in Nat /\ DOMAIN tabs = 1..Len(tabs)
    BY <1>1
  <2> QED  BY <2>1
<1>3. /\ Len(tabs') = n + 1 /\ DOMAIN tabs' = 1..(n + 1) /\ p \in 1..(n + 1)
      /\ \A i \in 1..(n + 1) : tabs'[i] = IF i < p THEN tabs[i] ELSE IF i = p THEN t ELSE tabs[i - 1]
  BY <1>2, SMTT(30) DEF HasMore
<1>4. ASSUME NEW i \in 1..(n + 1), i # p
      PROVE  /\ (IF i < p THEN i ELSE i - 1) \in DOMAIN tabs
             /\ tabs'[i] = tabs[IF i < p THEN i ELSE i - 1]
  <2>1. CASE i < p
    <3>1. i \in 1..n
      BY <1>3, <2>1
    <3> QED  BY <1>2, <1>3, <2>1, <3>1
  <2>2. CASE ~(i < p)
    <3>1. i - 1 \in 1..n
      BY <1>3, <1>4, <2>2
    <3> QED  BY <1>2, <1>3, <1>4, <2>2, <3>1
  <2> QED  BY <2>1, <2>2
<1>5. \A i \in DOMAIN tabs : tabs[i].id \in 1..ids
  <2>1. \A i \in DOMAIN tabs : tabs[i] \in TabRecords(ids)
    BY <1>1
  <2> QED  BY <2>1, TabFields
<1>6. TabsApart(tabs')
  <2> SUFFICES ASSUME NEW i \in 1..(n + 1), NEW j \in 1..(n + 1), tabs'[i].id = tabs'[j].id
               PROVE  i = j
    BY <1>3 DEF TabsApart
  <2>1. CASE i # p /\ j # p
    <3>1. (IF i < p THEN i ELSE i - 1) = (IF j < p THEN j ELSE j - 1)
      <4>1. /\ (IF i < p THEN i ELSE i - 1) \in DOMAIN tabs
            /\ tabs'[i] = tabs[IF i < p THEN i ELSE i - 1]
        BY <1>4, <2>1
      <4>2. /\ (IF j < p THEN j ELSE j - 1) \in DOMAIN tabs
            /\ tabs'[j] = tabs[IF j < p THEN j ELSE j - 1]
        BY <1>4, <2>1
      <4> QED  BY <1>1, <4>1, <4>2 DEF TabsApart
    <3> QED  BY <1>3, <2>1, <3>1
  <2>2. CASE i = p /\ j # p
    <3>1. tabs'[i].id = ids + 1 /\ tabs'[j].id \in 1..ids
      BY <1>3, <1>4, <1>5, <2>2
    <3> QED  BY <1>1, <3>1
  <2>3. CASE i # p /\ j = p
    <3>1. tabs'[j].id = ids + 1 /\ tabs'[i].id \in 1..ids
      BY <1>3, <1>4, <1>5, <2>3
    <3> QED  BY <1>1, <3>1
  <2>4. CASE i = p /\ j = p
    BY <2>4
  <2> QED  BY <2>1, <2>2, <2>3, <2>4
<1>7. Written(tabs', disk)
  <2> SUFFICES ASSUME NEW i \in 1..(n + 1), ~tabs'[i].modified PROVE InFile(tabs'[i], disk)
    BY <1>3 DEF Written
  <2>1. CASE i = p
    BY <1>3, <2>1
  <2>2. CASE i # p
    BY <1>1, <1>4, <2>2 DEF Written
  <2> QED  BY <2>1, <2>2
<1>8. Consent
  <2>1. ASSUME NEW i \in DOMAIN tabs PROVE \E j \in DOMAIN tabs' : tabs'[j].id = tabs[i].id
    <3>1. CASE i < p
      <4>1. i \in 1..(n + 1) /\ tabs'[i] = tabs[i]
        BY <1>2, <1>3, <3>1
      <4> QED  BY <1>3, <4>1
    <3>2. CASE ~(i < p)
      <4>1. PICK j \in 1..(n + 1) : j = i + 1
        BY <1>2
      <4>2. ~(j < p) /\ j # p /\ j - 1 = i
        <5>1. i \in 1..n /\ p \in 1..(n + 1)
          BY <1>2, <1>3
        <5> QED  BY <3>2, <4>1, <5>1
      <4>3. tabs'[j] = tabs[i]
        BY <1>3, <4>2
      <4> QED  BY <1>3, <4>3
    <3> QED  BY <3>1, <3>2
  <2> QED  BY <2>1, NoneLost
<1>9. TabsAreTyped'
  <2>1. ids + 1 \in Nat /\ ids <= ids + 1
    BY <1>1
  <2>2. disk \in [Files -> Torn..(ids + 1 + 1)] /\ givenUp \subseteq 1..(ids + 1) /\ lateRuns \subseteq 1..(ids + 1)
    BY <1>1, <2>1, Grows
  <2>3. Len(tabs') <= MaxTabs
    BY <1>2, <1>3, WindowTabsBounds
  <2> QED  BY <1>1, <2>1, <2>2, <2>3 DEF TabsAreTyped
<1>10. Asked'
  BY DEF Asked
<1> QED  BY <1>6, <1>7, <1>8, <1>9, <1>10 DEF TabsInv

LEMMA FreshIs ==
  ASSUME NEW n \in Nat, n # 0, NEW file \in Files \cup {"none"}, NEW text \in Torn..(n + 1)
  PROVE  /\ FreshTab(n, file, text).id = n /\ FreshTab(n, file, text).text = text
         /\ FreshTab(n, file, text).file = file /\ FreshTab(n, file, text) \in TabRecords(n)
<1>1. n \in 1..n
  OBVIOUS
<1> QED  BY <1>1 DEF FreshTab, TabRecords

LEMMA BesideKept ==
  ASSUME TabsInv, asking' = asking, asking = NotAsking, NEW t \in TabRecords(ids + 1), t.id = ids + 1,
         InFile(t, disk), OpenBeside(t)
  PROVE  TabsInv' /\ Consent
<1>1. ids \in Nat /\ tabs \in Seq(TabRecords(ids)) /\ Len(tabs) \in Nat
  BY DEF TabsInv, TabsAreTyped
<1>2. tabs \in Seq(TabRecords(ids + 1))
  <2>1. TabRecords(ids) \subseteq TabRecords(ids + 1)
    BY <1>1, Grows
  <2> QED  BY <1>1, <2>1
<1>3. PICK p \in Min({2, Len(tabs) + 1})..(Len(tabs) + 1) : tabs' = InsertAt(tabs, p, t)
  BY DEF OpenBeside
<1>4. p \in 1..(Len(tabs) + 1)
  <2>1. Min({2, Len(tabs) + 1}) \in {2, Len(tabs) + 1}
    <3>1. {2, Len(tabs) + 1} \subseteq Nat /\ {2, Len(tabs) + 1} # {}
      BY <1>1
    <3> QED  BY <3>1, Least
  <2> QED  BY <1>1, <2>1
<1>5. tabs' \in Seq(TabRecords(ids + 1)) /\ HasMore(tabs', tabs, p, t)
  BY <1>2, <1>3, <1>4, Inserted
<1> QED  BY <1>5, Opened DEF OpenBeside

LEMMA NewKept == ASSUME TabsInv, New PROVE TabsInv' /\ Consent
<1>1. PICK n \in Nat : n = ids + 1 /\ n # 0
  BY DEF TabsInv, TabsAreTyped
<1>2. 0 \in Torn..(n + 1)
  BY DEF Torn
<1>3. PICK t : t = FreshTab(n, "none", 0) /\ t.id = n /\ t.text = 0 /\ t \in TabRecords(n)
  <2>1. "none" \in Files \cup {"none"}
    OBVIOUS
  <2> QED  BY <1>1, <1>2, <2>1, FreshIs
<1>4. asking = NotAsking /\ asking' = asking /\ OpenBeside(t)
  BY <1>1, <1>3 DEF New, Idle, OpenBeside
<1>5. InFile(t, disk)
  BY <1>3 DEF InFile
<1> QED  BY <1>1, <1>3, <1>4, <1>5, BesideKept

LEMMA FileTab ==
  ASSUME TabsInv, NEW f \in Files
  PROVE  /\ FreshTab(ids + 1, f, disk[f]) \in TabRecords(ids + 1)
         /\ FreshTab(ids + 1, f, disk[f]).id = ids + 1
         /\ InFile(FreshTab(ids + 1, f, disk[f]), disk)
<1>1. ids \in Nat /\ disk[f] \in Torn..(ids + 1)
  BY DEF TabsInv, TabsAreTyped
<1>2. PICK n \in Nat : n = ids + 1 /\ n # 0
  BY <1>1
<1>3. PICK text \in Torn..(n + 1) : text = disk[f]
  <2>1. Torn..(ids + 1) \subseteq Torn..(n + 1)
    BY <1>1, <1>2 DEF Torn
  <2> QED  BY <1>1, <2>1
<1>4. PICK t : t = FreshTab(n, f, text) /\ t.id = n /\ t.text = text /\ t.file = f /\ t \in TabRecords(n)
  <2>1. f \in Files \cup {"none"}
    OBVIOUS
  <2> QED  BY <1>2, <2>1, FreshIs
<1>5. InFile(t, disk)
  <2>1. f # "none"
    BY WindowTabsBounds
  <2> QED  BY <1>3, <1>4, <2>1 DEF InFile
<1> QED  BY <1>2, <1>3, <1>4, <1>5

LEMMA OpenFileKept == ASSUME TabsInv, OpenFile PROVE TabsInv' /\ Consent
<1>1. PICK f \in Files : OpenBeside(FreshTab(ids + 1, f, disk[f]))
  BY DEF OpenFile
<1>2. PICK t \in TabRecords(ids + 1) : t = FreshTab(ids + 1, f, disk[f]) /\ t.id = ids + 1 /\ InFile(t, disk)
  BY FileTab
<1>3. OpenBeside(t) /\ asking = NotAsking /\ asking' = asking
  BY <1>1, <1>2 DEF OpenFile, Idle, OpenBeside
<1> QED  BY <1>2, <1>3, BesideKept

LEMMA OpenScriptTabKept == ASSUME TabsInv, OpenScriptTab PROVE TabsInv' /\ Consent
<1>1. PICK n \in Nat : n = ids + 1 /\ n # 0
  BY DEF TabsInv, TabsAreTyped
<1>2. PICK t : t = [FreshTab(n, "none", 1) EXCEPT !.generated = TRUE] /\ t.id = n /\ t.text = 1 /\ t \in TabRecords(n)
  <2>1. "none" \in Files \cup {"none"} /\ 1 \in Torn..(n + 1)
    BY <1>1 DEF Torn
  <2>2. PICK u \in TabRecords(n) : u = FreshTab(n, "none", 1) /\ u.id = n /\ u.text = 1
    BY <1>1, <2>1, FreshIs
  <2>3. /\ [u EXCEPT !.generated = TRUE] \in TabRecords(n) /\ [u EXCEPT !.generated = TRUE].id = u.id
        /\ [u EXCEPT !.generated = TRUE].text = u.text
    BY DEF TabRecords
  <2> QED  BY <2>2, <2>3
<1>3. asking = NotAsking /\ asking' = asking /\ OpenBeside(t)
  BY <1>1, <1>2 DEF OpenScriptTab, Idle, OpenBeside
<1>4. InFile(t, disk)
  BY <1>2 DEF InFile
<1> QED  BY <1>1, <1>2, <1>3, <1>4, BesideKept

LEMMA OpenHitKept == ASSUME TabsInv, OpenFileHitInEditor PROVE TabsInv' /\ Consent
<1>1. PICK f \in Files : tabs' = Append(tabs, FreshTab(ids + 1, f, disk[f]))
  BY DEF OpenFileHitInEditor
<1>2. PICK t \in TabRecords(ids + 1) : t = FreshTab(ids + 1, f, disk[f]) /\ t.id = ids + 1 /\ InFile(t, disk)
  BY FileTab
<1>3. tabs \in Seq(TabRecords(ids + 1))
  <2>1. TabRecords(ids) \subseteq TabRecords(ids + 1) /\ tabs \in Seq(TabRecords(ids))
    BY Grows DEF TabsInv, TabsAreTyped
  <2> QED  BY <2>1
<1>4. tabs' \in Seq(TabRecords(ids + 1)) /\ HasMore(tabs', tabs, Len(tabs) + 1, t)
  <2>1. PICK n \in Nat : n = Len(tabs)
    BY <1>3
  <2>2. /\ tabs' \in Seq(TabRecords(ids + 1)) /\ Len(tabs') = n + 1
        /\ (\A i \in 1..n : tabs'[i] = tabs[i]) /\ tabs'[n + 1] = t
    <3>1. tabs' = Append(tabs, t)
      BY <1>1, <1>2
    <3> QED  BY <1>3, <2>1, <3>1, AppendProperties
  <2>3. \A i \in 1..(n + 1) : tabs'[i] = IF i < n + 1 THEN tabs[i] ELSE IF i = n + 1 THEN t ELSE tabs[i - 1]
    <3> TAKE i \in 1..(n + 1)
    <3>1. (i \in 1..n /\ i < n + 1) \/ (i = n + 1 /\ ~(i < n + 1))
      OBVIOUS
    <3> QED  BY <2>2, <3>1
  <2> QED  BY <2>1, <2>2, <2>3 DEF HasMore
<1> QED  BY <1>2, <1>4, Opened DEF OpenFileHitInEditor, Idle

-----------------------------------------------------------------------------
(* What happens by itself, during a question too.                           *)
LEMMA Ran ==
  ASSUME TabsInv, NEW i \in DOMAIN tabs, NEW r \in BOOLEAN, NEW s \in BOOLEAN,
         tabs' = [tabs EXCEPT ![i] = Running(tabs[i], r, s)],
         UNCHANGED <<disk, asking, ids, givenUp>>,
         lateRuns \subseteq lateRuns', lateRuns' \subseteq 1..ids,
         r /\ asking # NotAsking => tabs[i].id \in lateRuns'
  PROVE  TabsInv' /\ Consent
<1>1. /\ tabs' \in Seq(TabRecords(ids)) /\ SameTabs(tabs') /\ Written(tabs', disk)
      /\ \A j \in DOMAIN tabs : tabs'[j].modified = tabs[j].modified
      /\ \A j \in DOMAIN tabs : j # i => tabs'[j] = tabs[j]
      /\ tabs'[i].run = r
  BY RunChanged
<1>2. TabsApart(tabs') /\ Consent
  BY <1>1, TabsPlaced DEF TabsInv
<1>3. TabsAreTyped'
  <2>1. Len(tabs') = Len(tabs)
    BY <1>1, SameLength DEF TabsInv, TabsAreTyped
  <2> QED  BY <1>1, <2>1 DEF TabsInv, TabsAreTyped
<1>4. Asked'
  <2> SUFFICES ASSUME asking # NotAsking
               PROVE  /\ asking.at \in DOMAIN tabs' /\ tabs'[asking.at].modified
                      /\ asking.window =>
                           \A j \in DOMAIN tabs' : j < asking.at => Passed(tabs'[j], givenUp, lateRuns')
    BY DEF Asked
  <2>1. /\ asking.at \in DOMAIN tabs /\ tabs[asking.at].modified
        /\ asking.window =>
             \A j \in DOMAIN tabs : j < asking.at => Passed(tabs[j], givenUp, lateRuns)
    BY DEF TabsInv, Asked
  <2>2. ASSUME NEW j \in DOMAIN tabs, Passed(tabs[j], givenUp, lateRuns)
        PROVE  Passed(tabs'[j], givenUp, lateRuns')
    <3>1. tabs'[j].modified = tabs[j].modified /\ tabs'[j].id = tabs[j].id
      BY <1>1 DEF SameTabs
    <3>2. CASE j = i
      BY <1>1, <2>2, <3>1, <3>2 DEF Passed
    <3>3. CASE j # i
      BY <1>1, <2>2, <3>1, <3>3 DEF Passed
    <3> QED  BY <3>2, <3>3
  <2> QED  BY <1>1, <2>1, <2>2 DEF SameTabs
<1> QED  BY <1>1, <1>2, <1>3, <1>4 DEF TabsInv

LEMMA RunEndsKept == ASSUME TabsInv, RunEnds PROVE TabsInv' /\ Consent
<1>1. PICK i \in DOMAIN tabs : tabs' = [tabs EXCEPT ![i].run = FALSE]
  BY DEF RunEnds
<1>2. tabs[i] \in TabRecords(ids) /\ lateRuns \subseteq 1..ids
  BY DEF TabsInv, TabsAreTyped
<1>3. tabs' = [tabs EXCEPT ![i] = Running(tabs[i], FALSE, tabs[i].timer)] /\ tabs[i].timer \in BOOLEAN
  <2>1. \A u \in TabRecords(ids) : [u EXCEPT !.run = FALSE] = Running(u, FALSE, u.timer) /\ u.timer \in BOOLEAN
    BY DEF TabRecords, Running
  <2> QED  BY <1>1, <1>2, <2>1
<1>4. PICK s \in BOOLEAN : s = tabs[i].timer
  BY <1>3
<1> QED  BY <1>2, <1>3, <1>4, Ran DEF RunEnds

LEMMA TimerFiresKept == ASSUME TabsInv, TimerFires PROVE TabsInv' /\ Consent
<1>1. PICK i \in DOMAIN tabs :
        /\ tabs' = [tabs EXCEPT ![i].run = TRUE]
        /\ lateRuns' = IF asking = NotAsking THEN lateRuns ELSE lateRuns \cup {tabs[i].id}
  BY DEF TimerFires
<1>2. tabs[i] \in TabRecords(ids) /\ lateRuns \subseteq 1..ids
  BY DEF TabsInv, TabsAreTyped
<1>3. tabs' = [tabs EXCEPT ![i] = Running(tabs[i], TRUE, tabs[i].timer)] /\ tabs[i].timer \in BOOLEAN
  <2>1. \A u \in TabRecords(ids) : [u EXCEPT !.run = TRUE] = Running(u, TRUE, u.timer) /\ u.timer \in BOOLEAN
    BY DEF TabRecords, Running
  <2> QED  BY <1>1, <1>2, <2>1
<1>4. PICK s \in BOOLEAN : s = tabs[i].timer
  BY <1>3
<1>5. /\ lateRuns \subseteq lateRuns' /\ lateRuns' \subseteq 1..ids
      /\ asking # NotAsking => tabs[i].id \in lateRuns'
  <2>1. tabs[i].id \in 1..ids
    BY <1>2, TabFields
  <2> QED  BY <1>1, <1>2, <2>1
<1> QED  BY <1>3, <1>4, <1>5, Ran DEF TimerFires

-----------------------------------------------------------------------------
(* Closings.  What a step leaves alone, and what an answer makes of the     *)
(* tabs: those it leaves without changes may go.                            *)
TextGoes(t) ==
    \/ t.text \in {0, 1} \/ t.id \in givenUp'
    \/ \E f \in Files : disk'[f] = t.text
    \/ t.spoilt \/ Overwritten(t)

Steady ==
    /\ ids' = ids /\ disk' \in [Files -> Torn..(ids + 1)]
    /\ givenUp' \subseteq 1..ids /\ lateRuns' \subseteq lateRuns

Answered(list) ==
    /\ list \in Seq(TabRecords(ids)) /\ SameTabs(list) /\ Written(list, disk')
    /\ \A j \in DOMAIN tabs : list[j].run = tabs[j].run
    /\ \A j \in DOMAIN tabs : ~list[j].modified => TextGoes(tabs[j])

LEMMA UnchangedAnswer ==
  ASSUME TabsInv, disk' = disk
  PROVE  Answered(tabs)
<1>1. tabs \in Seq(TabRecords(ids)) /\ Written(tabs, disk)
  BY DEF TabsInv, TabsAreTyped
<1>2. ASSUME NEW j \in DOMAIN tabs, ~tabs[j].modified PROVE TextGoes(tabs[j])
  <2>1. InFile(tabs[j], disk)
    BY <1>1, <1>2 DEF Written
  <2>2. tabs[j].file \in Files \cup {"none"}
    BY <1>1, TabFields
  <2> QED  BY <2>1, <2>2 DEF InFile, TextGoes
<1> QED  BY <1>1, <1>2 DEF Answered, SameTabs

LEMMA VetoedOn ==
  ASSUME TabsInv, Steady, NEW list, Answered(list), Vetoed(list)
  PROVE  TabsInv' /\ Consent
<1>1. ids \in Nat /\ lateRuns \subseteq 1..ids
  BY DEF TabsInv, TabsAreTyped
<1>2. tabs' = list /\ asking' = NotAsking
  BY DEF Vetoed
<1>3. tabs' \in Seq(TabRecords(ids')) /\ SameTabs(tabs') /\ Written(tabs', disk')
  BY <1>2 DEF Answered, Steady
<1>4. ids' \in Nat /\ disk' \in [Files -> Torn..(ids' + 1)] /\ givenUp' \subseteq 1..ids'
      /\ lateRuns' \subseteq 1..ids'
  BY <1>1 DEF Steady
<1> QED  BY <1>2, <1>3, <1>4, Settled

(* All tabs go.                                                             *)
LEMMA AllGone ==
  ASSUME TabsInv, Steady, NEW list, Answered(list), tabs' = <<>>, asking' = NotAsking,
         \A i \in DOMAIN tabs : Passed(list[i], givenUp', lateRuns')
  PROVE  TabsInv' /\ Consent
<1>1. ids \in Nat /\ lateRuns \subseteq 1..ids /\ tabs \in Seq(TabRecords(ids))
  BY DEF TabsInv, TabsAreTyped
<1>2. ASSUME NEW i \in DOMAIN tabs PROVE GoesByConsent(tabs[i])
  <2>1. /\ Passed(list[i], givenUp', lateRuns') /\ list[i].id = tabs[i].id
        /\ list[i].run = tabs[i].run /\ (~list[i].modified => TextGoes(tabs[i]))
    BY DEF Answered, SameTabs
  <2>2. TextGoes(tabs[i])
    BY <2>1 DEF Passed, TextGoes
  <2>3. tabs[i].run => tabs[i].id \in lateRuns
    BY <2>1 DEF Passed, Steady
  <2> QED  BY <2>2, <2>3 DEF TextGoes, GoesByConsent
<1>3. Consent
  <2>1. ASSUME NEW t \in Lost PROVE GoesByConsent(t)
    <3>1. PICK i \in DOMAIN tabs : t = tabs[i]
      BY DEF Lost, ToSet
    <3> QED  BY <1>2, <3>1
  <2> QED  BY <2>1 DEF Consent
<1>4. /\ tabs' \in Seq(TabRecords(ids')) /\ Len(tabs') = 0 /\ DOMAIN tabs' = {}
  OBVIOUS
<1>5. TabsAreTyped'
  <2>1. asking' \in [at : Nat, window : BOOLEAN]
    BY DEF NotAsking
  <2> QED  BY <1>1, <1>4, <2>1, WindowTabsBounds DEF TabsAreTyped, Steady
<1>6. TabsApart(tabs') /\ Written(tabs', disk') /\ Asked'
  BY <1>4 DEF TabsApart, Written, Asked
<1> QED  BY <1>3, <1>5, <1>6 DEF TabsInv

LEMMA AskedOn ==
  ASSUME TabsInv, Steady, NEW list, Answered(list), NEW from \in 1..(Len(tabs) + 1),
         \A i \in DOMAIN tabs : i < from => Passed(list[i], givenUp', lateRuns'),
         AskFrom(list, from)
  PROVE  TabsInv' /\ Consent
<1>1. /\ ids \in Nat /\ lateRuns \subseteq 1..ids /\ tabs \in Seq(TabRecords(ids)) /\ TabsApart(tabs)
      /\ Len(tabs) <= MaxTabs
  BY DEF TabsInv, TabsAreTyped
<1>2. list \in Seq(TabRecords(ids)) /\ SameTabs(list)
  BY DEF Answered
<1>3. PICK n \in Nat : n = Len(tabs) /\ n = Len(list) /\ DOMAIN tabs = 1..n /\ DOMAIN list = 1..n
  <2>1. Len(tabs) \in Nat /\ DOMAIN tabs = 1..Len(tabs) /\ Len(list) \in Nat
        /\ DOMAIN list = 1..Len(list) /\ DOMAIN list = DOMAIN tabs
    BY <1>1, <1>2 DEF SameTabs
  <2>2. Len(tabs) = Len(list)
    BY <2>1, OneLength
  <2> QED  BY <2>1, <2>2
<1> DEFINE stops == {i \in from..n : list[i].modified \/ ~MayGo(list, i)}
           i == Min(stops)
<1>4. IF stops = {} THEN Vetoed(<<>>)
      ELSE IF list[i].modified THEN tabs' = list /\ asking' = [at |-> i, window |-> TRUE]
      ELSE Vetoed(list)
  BY <1>3 DEF AskFrom
<1>5. \A j \in 1..n : j \notin stops => Passed(list[j], givenUp', lateRuns')
  <2> SUFFICES ASSUME NEW j \in 1..n, j \notin stops PROVE Passed(list[j], givenUp', lateRuns')
    OBVIOUS
  <2>1. CASE j < from
    BY <1>3, <2>1
  <2>2. CASE ~(j < from)
    <3>1. j \in from..n
      BY <2>2
    <3>2. ~list[j].modified /\ ~list[j].run
      BY <3>1 DEF MayGo
    <3> QED  BY <3>2 DEF Passed
  <2> QED  BY <2>1, <2>2
<1>6. stops \subseteq 1..n
  OBVIOUS
<1> HIDE DEF stops
<1>7. CASE stops = {}
  <2>1. tabs' = <<>> /\ asking' = NotAsking
    BY <1>4, <1>7 DEF Vetoed
  <2> QED  BY <1>3, <1>5, <1>7, <2>1, AllGone
<1>8. CASE stops # {}
  <2>1. i \in stops /\ \A y \in stops : i <= y
    <3>1. stops \subseteq Nat
      BY <1>6
    <3> QED  BY <1>8, <3>1, Least
  <2> HIDE DEF i
  <2>2. CASE ~list[i].modified
    <3>1. Vetoed(list)
      BY <1>4, <1>8, <2>2
    <3> QED  BY <3>1, VetoedOn
  <2>3. CASE list[i].modified
    <3>1. tabs' = list /\ asking' = [at |-> i, window |-> TRUE]
      BY <1>4, <1>8, <2>3
    <3>2. TabsApart(tabs') /\ Consent
      BY <1>1, <1>2, <3>1, TabsPlaced
    <3>3. i \in 1..n
      BY <1>6, <2>1
    <3>4. TabsAreTyped'
      <4>1. asking' \in [at : Nat, window : BOOLEAN]
        BY <3>1, <3>3
      <4>2. lateRuns' \subseteq 1..ids' /\ givenUp' \subseteq 1..ids'
        BY <1>1 DEF Steady
      <4> QED  BY <1>1, <1>2, <1>3, <3>1, <4>1, <4>2 DEF TabsAreTyped, Steady
    <3>5. Asked'
      <4>1. \A j \in 1..n : j < i => Passed(list[j], givenUp', lateRuns')
        <5> SUFFICES ASSUME NEW j \in 1..n, j < i PROVE j \notin stops
          BY <1>5
        <5> QED  BY <2>1, <3>3
      <4>2. asking'.at = i
        BY <3>1
      <4> QED  BY <1>3, <2>3, <3>1, <3>3, <4>1, <4>2 DEF Asked
    <3> QED  BY <3>1, <3>2, <3>4, <3>5 DEF TabsInv, Answered
  <2> QED  BY <2>2, <2>3
<1> QED  BY <1>7, <1>8

(* One tab goes, or is kept by its running query.                           *)
LEMMA ClosedOne ==
  ASSUME TabsInv, Steady, NEW list, Answered(list), NEW i \in DOMAIN tabs, TextGoes(tabs[i]),
         ~asking.window, CloseOne(list, i)
  PROVE  TabsInv' /\ Consent
<1>1. /\ ids \in Nat /\ lateRuns \subseteq 1..ids /\ tabs \in Seq(TabRecords(ids)) /\ TabsApart(tabs)
      /\ Len(tabs) <= MaxTabs
  BY DEF TabsInv, TabsAreTyped
<1>2. list \in Seq(TabRecords(ids)) /\ SameTabs(list) /\ Written(list, disk')
  BY DEF Answered
<1>3. PICK n \in Nat : n = Len(list) /\ DOMAIN tabs = 1..n /\ DOMAIN list = 1..n /\ n <= MaxTabs
  <2>1. Len(tabs) \in Nat /\ DOMAIN tabs = 1..Len(tabs) /\ Len(list) \in Nat
        /\ DOMAIN list = 1..Len(list) /\ DOMAIN list = DOMAIN tabs
    BY <1>1, <1>2 DEF SameTabs
  <2>2. Len(tabs) = Len(list)
    BY <2>1, OneLength
  <2> QED  BY <1>1, <2>1, <2>2
<1>4. CASE list[i].run
  <2>1. Vetoed(list)
    BY <1>4 DEF CloseOne, MayGo
  <2> QED  BY <2>1, VetoedOn
<1>5. CASE ~list[i].run
  <2>1. tabs' = RemoveAt(list, i) /\ asking' = NotAsking
    BY <1>5 DEF CloseOne, MayGo, Vetoed
  <2>2. tabs' \in Seq(TabRecords(ids)) /\ HasLess(tabs', list, i)
    BY <1>2, <1>3, <2>1, Removed
  <2>3. /\ Len(tabs') = n - 1 /\ DOMAIN tabs' = 1..(n - 1) /\ i \in 1..n
        /\ \A j \in 1..(n - 1) : tabs'[j] = IF j < i THEN list[j] ELSE list[j + 1]
    BY <1>3, <2>2 DEF HasLess
  <2>4. ASSUME NEW j \in 1..(n - 1)
        PROVE  /\ (IF j < i THEN j ELSE j + 1) \in 1..n
               /\ tabs'[j] = list[IF j < i THEN j ELSE j + 1]
    BY <1>3, <2>3
  <2>5. TabsApart(tabs')
    <3> SUFFICES ASSUME NEW j \in 1..(n - 1), NEW k \in 1..(n - 1), tabs'[j].id = tabs'[k].id
                 PROVE  j = k
      BY <2>3 DEF TabsApart
    <3>1. /\ (IF j < i THEN j ELSE j + 1) \in 1..n
          /\ tabs'[j] = list[IF j < i THEN j ELSE j + 1]
      BY <2>4
    <3>2. /\ (IF k < i THEN k ELSE k + 1) \in 1..n
          /\ tabs'[k] = list[IF k < i THEN k ELSE k + 1]
      BY <2>4
    <3>3. (IF j < i THEN j ELSE j + 1) = (IF k < i THEN k ELSE k + 1)
      BY <1>1, <1>2, <1>3, <3>1, <3>2 DEF TabsApart, SameTabs
    <3> QED  BY <1>3, <2>3, <3>3
  <2>6. Written(tabs', disk')
    <3> SUFFICES ASSUME NEW j \in 1..(n - 1), ~tabs'[j].modified PROVE InFile(tabs'[j], disk')
      BY <2>3 DEF Written
    <3>1. PICK k \in 1..n : tabs'[j] = list[k]
      BY <2>4
    <3> QED  BY <1>2, <1>3, <3>1 DEF Written
  <2>7. ASSUME NEW k \in 1..n, k # i PROVE \E j \in 1..(n - 1) : tabs'[j].id = tabs[k].id
    <3>1. tabs[k].id = list[k].id
      BY <1>2, <1>3 DEF SameTabs
    <3>2. CASE k < i
      <4>1. k \in 1..(n - 1) /\ tabs'[k] = list[k]
        BY <1>3, <2>3, <3>2
      <4> QED  BY <3>1, <4>1
    <3>3. CASE ~(k < i)
      <4>1. PICK j \in 1..(n - 1) : j = k - 1
        BY <1>3, <2>3, <2>7, <3>3
      <4>2. ~(j < i) /\ j + 1 = k
        BY <1>3, <2>3, <2>7, <3>3, <4>1
      <4>3. tabs'[j] = list[k]
        BY <2>3, <4>2
      <4> QED  BY <3>1, <4>3
    <3> QED  BY <3>2, <3>3
  <2>8. Consent
    <3>1. ASSUME NEW t \in Lost PROVE GoesByConsent(t)
      <4>1. PICK k \in 1..n : t = tabs[k]
        BY <1>3 DEF Lost, ToSet
      <4>2. k = i
        <5> SUFFICES ASSUME k # i PROVE FALSE
          OBVIOUS
        <5>1. PICK j \in 1..(n - 1) : tabs'[j].id = tabs[k].id
          BY <2>7
        <5>2. tabs'[j] \in ToSet(tabs')
          BY <2>3 DEF ToSet
        <5> QED  BY <4>1, <5>1, <5>2 DEF Lost
      <4>3. ~tabs[i].run
        BY <1>5 DEF Answered
      <4> QED  BY <4>1, <4>2, <4>3 DEF TextGoes, GoesByConsent
    <3>2. ~asking'.window
      BY <2>1 DEF NotAsking
    <3> QED  BY <3>1, <3>2 DEF Consent
  <2>9. TabsAreTyped'
    <3>1. asking' \in [at : Nat, window : BOOLEAN]
      BY <2>1 DEF NotAsking
    <3>2. Len(tabs') <= MaxTabs
      BY <1>3, <2>3, WindowTabsBounds
    <3> QED  BY <1>1, <2>2, <3>1, <3>2 DEF TabsAreTyped, Steady
  <2>10. Asked'
    BY <2>1 DEF Asked
  <2> QED  BY <2>5, <2>6, <2>8, <2>9, <2>10 DEF TabsInv
<1> QED  BY <1>4, <1>5

LEMMA AgreedOn ==
  ASSUME TabsInv, Steady, asking # NotAsking, NEW list, Answered(list),
         \A j \in DOMAIN tabs : j # asking.at => list[j].modified = tabs[j].modified,
         list[asking.at].modified => tabs[asking.at].id \in givenUp',
         givenUp \subseteq givenUp', lateRuns' = lateRuns, Agreed(list)
  PROVE  TabsInv' /\ Consent
<1>1. PICK i \in DOMAIN tabs : i = asking.at
  BY DEF TabsInv, Asked
<1>2. asking.window => \A j \in DOMAIN tabs : j < i => Passed(tabs[j], givenUp, lateRuns)
  BY <1>1 DEF TabsInv, Asked
<1>3. asking.window \in BOOLEAN /\ tabs \in Seq(TabRecords(ids))
  BY DEF TabsInv, TabsAreTyped
<1>4. CASE ~asking.window
  <2>1. CloseOne(list, i)
    BY <1>1, <1>4 DEF Agreed
  <2>2. TextGoes(tabs[i])
    BY <1>1 DEF Answered, TextGoes
  <2> QED  BY <1>4, <2>1, <2>2, ClosedOne
<1>5. CASE asking.window /\ ~MayGo(list, i)
  <2>1. Vetoed(list)
    BY <1>1, <1>5 DEF Agreed
  <2> QED  BY <2>1, VetoedOn
<1>6. CASE asking.window /\ MayGo(list, i)
  <2>1. AskFrom(list, i + 1) /\ i + 1 \in 1..(Len(tabs) + 1)
    BY <1>1, <1>3, <1>6 DEF Agreed
  <2>2. ASSUME NEW j \in DOMAIN tabs, j < i + 1 PROVE Passed(list[j], givenUp', lateRuns')
    <3>1. list[j].id = tabs[j].id /\ list[j].run = tabs[j].run
      BY DEF Answered, SameTabs
    <3>2. CASE j = i
      BY <1>1, <1>6, <3>1, <3>2 DEF Passed, MayGo
    <3>3. CASE j # i
      <4>1. j < i
        BY <1>3, <2>2, <3>3
      <4>2. Passed(tabs[j], givenUp, lateRuns)
        BY <1>2, <1>6, <4>1
      <4> QED  BY <1>1, <3>1, <3>3, <4>2 DEF Passed
    <3> QED  BY <3>2, <3>3
  <2>3. PICK from \in 1..(Len(tabs) + 1) : from = i + 1
    BY <2>1
  <2> QED  BY <2>1, <2>2, <2>3, AskedOn
<1> QED  BY <1>3, <1>4, <1>5, <1>6

LEMMA CloseTabKept == ASSUME TabsInv, CloseTab PROVE TabsInv' /\ Consent
<1>1. /\ asking = NotAsking /\ givenUp' = {} /\ lateRuns' = {} /\ UNCHANGED <<disk, ids>>
  BY DEF CloseTab, Idle
<1>2. /\ ids \in Nat /\ disk \in [Files -> Torn..(ids + 1)] /\ tabs \in Seq(TabRecords(ids))
      /\ TabsApart(tabs) /\ Written(tabs, disk) /\ Len(tabs) <= MaxTabs
  BY DEF TabsInv, TabsAreTyped
<1>3. Steady /\ Answered(tabs) /\ ~asking.window
  BY <1>1, <1>2, UnchangedAnswer DEF Steady, NotAsking
<1>4. PICK i \in DOMAIN tabs :
        IF tabs[i].modified
        THEN asking' = [at |-> i, window |-> FALSE] /\ UNCHANGED tabs
        ELSE CloseOne(tabs, i)
  BY DEF CloseTab
<1>5. CASE ~tabs[i].modified
  <2>1. CloseOne(tabs, i) /\ TextGoes(tabs[i])
    BY <1>3, <1>4, <1>5 DEF Answered
  <2> QED  BY <1>3, <2>1, ClosedOne
<1>6. CASE tabs[i].modified
  <2>1. asking' = [at |-> i, window |-> FALSE] /\ tabs' = tabs
    BY <1>4, <1>6
  <2>2. Consent
    <3>1. SameTabs(tabs')
      BY <2>1 DEF SameTabs
    <3> QED  BY <1>2, <3>1, TabsPlaced
  <2>3. TabsAreTyped'
    <3>1. asking' \in [at : Nat, window : BOOLEAN]
      BY <1>2, <2>1
    <3> QED  BY <1>1, <1>2, <2>1, <3>1 DEF TabsAreTyped
  <2>4. Asked'
    BY <1>6, <2>1 DEF Asked
  <2> QED  BY <1>1, <1>2, <2>1, <2>2, <2>3, <2>4 DEF TabsInv
<1> QED  BY <1>5, <1>6

LEMMA CloseWindowKept == ASSUME TabsInv, CloseWindow PROVE TabsInv' /\ Consent
<1>1. /\ asking = NotAsking /\ givenUp' = {} /\ lateRuns' = {} /\ UNCHANGED <<disk, ids>>
      /\ AskFrom(tabs, 1)
  BY DEF CloseWindow, Idle
<1>2. /\ ids \in Nat /\ disk \in [Files -> Torn..(ids + 1)] /\ tabs \in Seq(TabRecords(ids))
  BY DEF TabsInv, TabsAreTyped
<1>3. Steady /\ Answered(tabs)
  BY <1>1, <1>2, UnchangedAnswer DEF Steady
<1>4. 1 \in 1..(Len(tabs) + 1) /\ \A i \in DOMAIN tabs : ~(i < 1)
  BY <1>2
<1> QED  BY <1>1, <1>3, <1>4, AskedOn

LEMMA NameInFiles ==
  ASSUME TabsInv, NEW i \in DOMAIN tabs, NEW f \in SaveNames(i, FALSE)
  PROVE  f \in Files
<1>1. tabs[i].file \in Files \cup {"none"}
  <2>1. tabs[i] \in TabRecords(ids)
    BY DEF TabsInv, TabsAreTyped
  <2> QED  BY <2>1, TabFields
<1> QED  BY <1>1 DEF SaveNames

LEMMA AnswerYesKept == ASSUME TabsInv, AnswerYes PROVE TabsInv' /\ Consent
<1>1. asking # NotAsking /\ UNCHANGED <<ids, givenUp, lateRuns>>
  BY DEF AnswerYes
<1>2. /\ ids \in Nat /\ disk \in [Files -> Torn..(ids + 1)] /\ tabs \in Seq(TabRecords(ids))
      /\ TabsApart(tabs) /\ Written(tabs, disk) /\ givenUp \subseteq 1..ids
  BY DEF TabsInv, TabsAreTyped
<1>3. PICK i \in DOMAIN tabs : i = asking.at
  BY <1>1 DEF TabsInv, Asked
<1>4. PICK f \in Files :
        disk' = [disk EXCEPT ![f] = tabs[i].text] /\ Agreed(SavedList(i, f))
  <2>1. PICK f \in SaveNames(i, FALSE) :
          /\ disk' = [disk EXCEPT ![f] = tabs[i].text]
          /\ Agreed([j \in DOMAIN tabs |->
                       IF j = i THEN [tabs[j] EXCEPT !.file = f, !.modified = FALSE, !.spoilt = FALSE]
                       ELSE [tabs[j] EXCEPT !.spoilt = @ \/ tabs[j].file = f]])
    BY <1>3 DEF AnswerYes
  <2>2. [j \in DOMAIN tabs |->
           IF j = i THEN [tabs[j] EXCEPT !.file = f, !.modified = FALSE, !.spoilt = FALSE]
           ELSE [tabs[j] EXCEPT !.spoilt = @ \/ tabs[j].file = f]] = SavedList(i, f)
    BY DEF SavedList, SavedTab, SpoiltTab
  <2> QED  BY <2>1, <2>2, NameInFiles
<1>5. PICK l : /\ l = SavedList(i, f) /\ l \in Seq(TabRecords(ids)) /\ SameTabs(l) /\ Written(l, disk')
               /\ disk' \in [Files -> Torn..(ids + 1)]
               /\ \A j \in DOMAIN tabs : l[j].run = tabs[j].run
               /\ \A j \in DOMAIN tabs : j # i => l[j].modified = tabs[j].modified
               /\ l[i].modified = FALSE
  BY <1>4, SavedIs
<1>6. disk'[f] = tabs[i].text
  BY <1>2, <1>4
<1>7. ASSUME NEW j \in DOMAIN tabs, ~l[j].modified PROVE TextGoes(tabs[j])
  <2>1. CASE j = i
    BY <1>6, <2>1 DEF TextGoes
  <2>2. CASE j # i
    <3>1. InFile(tabs[j], disk)
      BY <1>2, <1>5, <1>7, <2>2 DEF Written
    <3>2. tabs[j].file \in Files \cup {"none"}
      BY <1>2, TabFields
    <3>3. tabs[j].id # tabs[i].id
      BY <1>2, <2>2 DEF TabsApart
    <3>4. tabs[j].file # "none" /\ disk'[tabs[j].file] # disk[tabs[j].file] => Overwritten(tabs[j])
      BY <1>1, <1>3, <3>3 DEF Overwritten
    <3> QED  BY <3>1, <3>2, <3>4 DEF InFile, TextGoes
  <2> QED  BY <2>1, <2>2
<1>8. Steady /\ Answered(l)
  BY <1>1, <1>2, <1>5, <1>7 DEF Steady, Answered
<1> QED  BY <1>1, <1>3, <1>4, <1>5, <1>8, AgreedOn

LEMMA AnswerNoKept == ASSUME TabsInv, AnswerNo PROVE TabsInv' /\ Consent
<1>1. /\ asking # NotAsking /\ UNCHANGED <<disk, ids, lateRuns>>
      /\ givenUp' = givenUp \cup {tabs[asking.at].id} /\ Agreed(tabs)
  BY DEF AnswerNo
<1>2. /\ ids \in Nat /\ disk \in [Files -> Torn..(ids + 1)] /\ tabs \in Seq(TabRecords(ids))
      /\ givenUp \subseteq 1..ids /\ asking.at \in DOMAIN tabs
  BY <1>1 DEF TabsInv, TabsAreTyped, Asked
<1>3. tabs[asking.at].id \in 1..ids
  BY <1>2, TabFields
<1>4. Steady /\ Answered(tabs)
  BY <1>1, <1>2, <1>3, UnchangedAnswer DEF Steady
<1> QED  BY <1>1, <1>4, AgreedOn

LEMMA AnswerCancelKept == ASSUME TabsInv, AnswerCancel PROVE TabsInv' /\ Consent
<1>1. UNCHANGED <<disk, ids, givenUp, lateRuns>> /\ Vetoed(tabs)
  BY DEF AnswerCancel
<1>2. Steady /\ Answered(tabs)
  BY <1>1, UnchangedAnswer DEF Steady, TabsInv, TabsAreTyped
<1> QED  BY <1>1, <1>2, VetoedOn

LEMMA AnswerYesTornKept == ASSUME TabsInv, AnswerYesTorn PROVE TabsInv' /\ Consent
<1>1. asking # NotAsking /\ asking' = NotAsking /\ UNCHANGED <<ids, givenUp, lateRuns>>
  BY DEF AnswerYesTorn
<1>2. ids \in Nat /\ givenUp \subseteq 1..ids /\ lateRuns \subseteq 1..ids /\ asking.at \in DOMAIN tabs
  BY <1>1 DEF TabsInv, TabsAreTyped, Asked
<1>3. PICK f \in Files : SaveTorn(f)
  BY <1>2, NameInFiles DEF AnswerYesTorn
<1>4. tabs' = TornList(f) /\ disk' = [disk EXCEPT ![f] = Torn]
  BY <1>3 DEF SaveTorn, TornList, SpoiltTab
<1>5. /\ tabs' \in Seq(TabRecords(ids)) /\ SameTabs(tabs') /\ Written(tabs', disk')
      /\ disk' \in [Files -> Torn..(ids + 1)]
  BY <1>4, TornIs
<1> QED  BY <1>1, <1>2, <1>5, Settled

-----------------------------------------------------------------------------
LEMMA TabsStep == ASSUME TabsInv, [TabsNext]_tabVars PROVE TabsInv' /\ Consent
<1>1. CASE UNCHANGED tabVars
  <2>1. TabsInv'
    BY <1>1 DEF TabsInv, TabsAreTyped, Asked, tabVars
  <2>2. Consent
    BY <1>1, NoneLost DEF tabVars
  <2> QED  BY <2>1, <2>2
<1>2. CASE Save
  BY <1>2, SaveKept
<1>3. CASE Reload
  BY <1>3, ReloadKept
<1>4. CASE New
  BY <1>4, NewKept
<1>5. CASE OpenFile
  BY <1>5, OpenFileKept
<1>6. CASE OpenScriptTab
  BY <1>6, OpenScriptTabKept
<1>7. CASE OpenFileHitInEditor
  BY <1>7, OpenHitKept
<1>8. CASE SqlChanged
  BY <1>8, SqlChangedKept
<1>9. CASE ExecuteQuery
  BY <1>9, ExecuteQueryKept
<1>10. CASE StopTimer
  BY <1>10, StopTimerKeepsTabs
<1>11. CASE RunEnds
  BY <1>11, RunEndsKept
<1>12. CASE TimerFires
  BY <1>12, TimerFiresKept
<1>13. CASE CloseTab
  BY <1>13, CloseTabKept
<1>14. CASE CloseWindow
  BY <1>14, CloseWindowKept
<1>15. CASE AnswerYes
  BY <1>15, AnswerYesKept
<1>16. CASE AnswerNo
  BY <1>16, AnswerNoKept
<1>17. CASE AnswerCancel
  BY <1>17, AnswerCancelKept
<1>18. CASE AnswerYesTorn
  BY <1>18, AnswerYesTornKept
<1> QED
  BY <1>1, <1>2, <1>3, <1>4, <1>5, <1>6, <1>7, <1>8, <1>9, <1>10, <1>11, <1>12, <1>13, <1>14,
     <1>15, <1>16, <1>17, <1>18 DEF TabsNext

LEMMA TabsStart == ASSUME TabsInit PROVE TabsInv
<1>1. ids = 0 /\ tabs = <<>> /\ asking = NotAsking /\ givenUp = {} /\ lateRuns = {}
      /\ disk = [f \in Files |-> 0]
  BY DEF TabsInit
<1>2. tabs \in Seq(TabRecords(ids)) /\ Len(tabs) = 0 /\ DOMAIN tabs = {}
  BY <1>1
<1>3. TabsAreTyped
  <2>1. disk \in [Files -> Torn..(ids + 1)]
    BY <1>1 DEF Torn
  <2>2. asking \in [at : Nat, window : BOOLEAN]
    BY <1>1 DEF NotAsking
  <2> QED  BY <1>1, <1>2, <2>1, <2>2, WindowTabsBounds DEF TabsAreTyped
<1> QED  BY <1>1, <1>2, <1>3 DEF TabsInv, TabsApart, Written, Asked

THEOREM TabsKept == TabsSpec => []TabsInv
<1>1. TabsInv /\ [TabsNext]_tabVars => TabsInv'
  BY TabsStep
<1> QED  BY <1>1, TabsStart, PTL DEF TabsSpec

(* The list of tabs keeps its shape, and a question is always about a tab   *)
(* that is there and has changes (confirmTabClose).                         *)
THEOREM TabsTyped == TabsSpec => []TabsTypeOK
<1>1. TabsInv => TabsTypeOK
  <2> SUFFICES ASSUME TabsInv PROVE TabsTypeOK
    OBVIOUS
  <2>1. \A t \in ToSet(tabs) : t \in TabRecords(ids)
    BY DEF TabsInv, TabsAreTyped, ToSet
  <2> QED  BY <2>1 DEF TabsInv, TabsAreTyped, Asked, TabsTypeOK, TabRecords
<1> QED  BY <1>1, TabsKept, PTL

(* No tab is lost against the user's will, for any files, any number of     *)
(* tabs and any length of a session.                                        *)
THEOREM ClosedByConsent == TabsSpec => TabsGoByConsent
<1>1. TabsInv /\ [TabsNext]_tabVars =>
        [LET lost == {t \in ToSet(tabs) : \A u \in ToSet(tabs') : u.id # t.id}
         IN /\ \A t \in lost : GoesByConsent(t)
            /\ asking.window \/ asking'.window => lost = {} \/ tabs' = <<>>]_tabVars
  BY TabsStep DEF Consent, Lost
<1> QED  BY <1>1, TabsKept, PTL DEF TabsSpec, TabsGoByConsent

-----------------------------------------------------------------------------
(* The list of servers.                                                     *)
Child == [database : Range(Databases), link : Links, expanded : BOOLEAN, filled : BOOLEAN,
          parent : BOOLEAN]
Node == [key : 1..MaxKeys, string : Strings, id : 0..MaxKeys, link : Links, parent : BOOLEAN,
         children : Seq(Child)]
ServerEntries == [key : 1..MaxKeys, string : Strings, id : 0..MaxKeys]
Profile == [id : 0..MaxKeys, key : 0..MaxKeys, folder : Folders \cup {"none"}]
Root == [folder : Folders \cup {"none"}, by : 0..MaxKeys]

TreeTypes ==
    /\ servers \in Seq(Node) /\ tab \in Links /\ profile \in Profile
    /\ roots \in [1..MaxKeys -> Root]
    /\ keys \in 0..MaxKeys /\ \A i \in DOMAIN servers : servers[i].key <= keys

(* The settings hold the list that is shown, and no two servers share an    *)
(* id.                                                                      *)
SettingsListed == settings = [i \in DOMAIN servers |-> Entry(servers[i])]
IdsApart ==
    \A i, j \in DOMAIN servers : i # j => servers[i].id # servers[j].id \/ servers[i].id = 0

(* There is room for the ids the next launch will give: each server of this *)
(* session that has none was added after the ids in use were given.         *)
Unnumbered(list) == {i \in DOMAIN list : list[i].id = 0}
Room(list) ==
    /\ Cardinality(Unnumbered(list)) <= keys
    /\ \A i \in DOMAIN list : list[i].id + Cardinality(Unnumbered(list)) <= keys

(* A server's connection carries its id and names its entry, and those of   *)
(* its databases what the connection they were given carries.               *)
Bears(link, node) ==
    link.string \in Strings /\ link.id = node.id /\ link.key = node.key
SameServer(link, own) == link.string = own.string /\ link.id = own.id /\ link.key = own.key
Belongs(node) ==
    /\ node.link = NoLink \/ Bears(node.link, node)
    /\ \A j \in DOMAIN node.children :
         node.link # NoLink /\ SameServer(node.children[j].link, node.link)
AllBelong == \A i \in DOMAIN servers : Belongs(servers[i])

(* An id in use outside the tree is that of a listed server, by its entry,  *)
(* or of a removed one.                                                     *)
Owns(id, key) ==
    \/ id \in removedIds \cup {0}
    \/ \E i \in DOMAIN servers : servers[i].id = id /\ servers[i].key = key
Owned ==
    /\ Owns(tab.id, tab.key) /\ Owns(profile.id, profile.key)
    /\ \A id \in 1..MaxKeys : roots[id].folder # "none" => Owns(id, roots[id].by)

TreeInv == TreeTypes /\ SettingsListed /\ IdsApart /\ Room(servers) /\ AllBelong /\ Owned

-----------------------------------------------------------------------------
LEMMA TreeBounds ==
  /\ MaxServers \in Nat /\ MaxKeys \in Nat /\ MaxLaunches \in Nat /\ MaxTurns \in Nat
  /\ "none" \notin Strings /\ "none" \notin Folders
  /\ Databases \in Seq(Range(Databases))
BY ServerTreeBounds

(* The largest of a bounded set of numbers.                                 *)
LEMMA Largest ==
  ASSUME NEW S \in SUBSET Nat, S # {}, NEW n \in Nat, \A x \in S : x <= n
  PROVE  Max(S) \in S /\ \A x \in S : x <= Max(S)
<1> DEFINE T == {m \in Nat : \A x \in S : x <= m}
           R == OpToRel(<, Nat)
<1>1. PICK m \in T : \A y \in T : ~(<<y, m>> \in R)
  <2>1. T \subseteq Nat /\ T # {}
    OBVIOUS
  <2>2. IsWellFoundedOn(R, Nat)
    BY NatLessThanWellFounded
  <2> HIDE DEF T, R
  <2> QED  BY <2>1, <2>2, WFMin
<1>2. \A y \in T : ~(y < m)
  BY <1>1 DEF OpToRel
<1>3. m \in S
  <2>1. SUFFICES ASSUME m \notin S PROVE FALSE
    OBVIOUS
  <2>2. PICK x \in S : TRUE
    OBVIOUS
  <2>3. m - 1 \in Nat /\ \A y \in S : y <= m - 1
    BY <2>1, <2>2
  <2> QED  BY <1>2, <2>3
<1>4. \A x \in S : m >= x
  OBVIOUS
<1>5. \A y \in S : Max(S) >= y /\ Max(S) \in S
  BY <1>3, <1>4 DEF Max
<1> QED  BY <1>3, <1>5

(* How many places of a list have no id.                                    *)
LEMMA UnnumberedFinite ==
  ASSUME NEW Set, NEW list \in Seq(Set)
  PROVE  /\ IsFiniteSet(Unnumbered(list)) /\ Cardinality(Unnumbered(list)) \in Nat
         /\ \A T \in SUBSET Unnumbered(list) :
              /\ IsFiniteSet(T) /\ Cardinality(T) \in Nat
              /\ Cardinality(T) <= Cardinality(Unnumbered(list))
<1>1. IsFiniteSet(1..Len(list)) /\ DOMAIN list = 1..Len(list)
  BY FS_Interval
<1>2. IsFiniteSet(Unnumbered(list))
  BY <1>1, FS_Subset DEF Unnumbered
<1>3. \A T \in SUBSET Unnumbered(list) :
        IsFiniteSet(T) /\ Cardinality(T) <= Cardinality(Unnumbered(list))
  BY <1>2, FS_Subset
<1> QED  BY <1>2, <1>3, FS_CardinalityType

(* The ids a launch gives are new, in the room there is, and apart.         *)
LEMMA IdsGiven ==
  ASSUME keys \in 0..MaxKeys, NEW list \in Seq(ServerEntries), Room(list),
         \A i, j \in DOMAIN list : i # j => list[i].id # list[j].id \/ list[i].id = 0
  PROVE  /\ WithIds(list) \in Seq(ServerEntries) /\ DOMAIN WithIds(list) = DOMAIN list
         /\ \A i \in DOMAIN list :
              /\ WithIds(list)[i].key = list[i].key /\ WithIds(list)[i].string = list[i].string
              /\ WithIds(list)[i].id \in 1..keys
              /\ list[i].id # 0 => WithIds(list)[i] = list[i]
         /\ \A i, j \in DOMAIN list : i # j => WithIds(list)[i].id # WithIds(list)[j].id
<1> DEFINE Given == {0} \cup {list[i].id : i \in DOMAIN list}
           U == Unnumbered(list)
           Before(i) == {j \in DOMAIN list : j < i /\ list[j].id = 0}
           top == Max(Given)
<1>1. keys \in Nat /\ MaxKeys \in Nat /\ keys <= MaxKeys
  BY TreeBounds
<1>2. \A i \in DOMAIN list : list[i] \in ServerEntries
  OBVIOUS
<1>3. \A i \in DOMAIN list : list[i].id \in Nat /\ list[i].id <= keys
  BY <1>1, <1>2, UnnumberedFinite DEF Room, ServerEntries
<1>4. top \in Nat /\ \A i \in DOMAIN list : list[i].id <= top
  <2>1. Given \subseteq Nat /\ Given # {} /\ \A x \in Given : x <= keys
    BY <1>1, <1>3
  <2>2. \A i \in DOMAIN list : list[i].id \in Given
    OBVIOUS
  <2> HIDE DEF Given
  <2> QED  BY <1>1, <2>1, <2>2, Largest
<1>5. top + Cardinality(U) <= keys /\ Cardinality(U) \in Nat
  <2>1. top \in Given
    <3>1. Given \subseteq Nat /\ Given # {} /\ \A x \in Given : x <= keys
      BY <1>1, <1>3
    <3> HIDE DEF Given
    <3> QED  BY <1>1, <3>1, Largest
  <2>2. Cardinality(U) \in Nat
    BY UnnumberedFinite
  <2> HIDE DEF U, top
  <2>3. CASE top = 0
    BY <2>2, <2>3, <1>1 DEF Room, U
  <2>4. CASE \E i \in DOMAIN list : top = list[i].id
    BY <2>2, <2>4 DEF Room, U
  <2> QED  BY <2>1, <2>2, <2>3, <2>4
<1>6. \A i \in DOMAIN list :
        /\ IsFiniteSet(Before(i)) /\ Cardinality(Before(i)) \in Nat
        /\ list[i].id = 0 => Cardinality(Before(i)) + 1 <= Cardinality(U)
  <2> TAKE i \in DOMAIN list
  <2>1. Before(i) \subseteq U /\ (list[i].id = 0 => Before(i) \cup {i} \subseteq U) /\ i \notin Before(i)
    BY DEF Unnumbered
  <2> HIDE DEF Before, U
  <2>2. IsFiniteSet(Before(i)) /\ Cardinality(Before(i)) \in Nat
    BY <2>1, UnnumberedFinite DEF U
  <2>3. Cardinality(Before(i) \cup {i}) = Cardinality(Before(i)) + 1
    BY <2>1, <2>2, FS_AddElement
  <2> QED  BY <2>1, <2>2, <2>3, UnnumberedFinite DEF U
<1>7. \A i, j \in DOMAIN list :
        i < j /\ list[i].id = 0 => Cardinality(Before(i)) < Cardinality(Before(j))
  <2> SUFFICES ASSUME NEW i \in DOMAIN list, NEW j \in DOMAIN list, i < j, list[i].id = 0
               PROVE  Cardinality(Before(i)) < Cardinality(Before(j))
    OBVIOUS
  <2>1. Before(i) \cup {i} \subseteq Before(j) /\ i \notin Before(i)
    OBVIOUS
  <2> HIDE DEF Before
  <2>2. Cardinality(Before(i) \cup {i}) = Cardinality(Before(i)) + 1
    BY <1>6, <2>1, FS_AddElement
  <2>3. Cardinality(Before(i) \cup {i}) <= Cardinality(Before(j))
    BY <1>6, <2>1, FS_Subset
  <2> QED  BY <1>6, <2>2, <2>3
<1>8. WithIds(list) = [i \in DOMAIN list |->
                        IF list[i].id # 0 THEN list[i]
                        ELSE [list[i] EXCEPT !.id = 1 + top + Cardinality(Before(i))]]
  BY DEF WithIds, NextId
<1> HIDE DEF Before, top, U, Given
<1>9. \A i \in DOMAIN list :
        /\ WithIds(list)[i] \in ServerEntries
        /\ WithIds(list)[i].key = list[i].key /\ WithIds(list)[i].string = list[i].string
        /\ WithIds(list)[i].id \in 1..keys
        /\ list[i].id # 0 => WithIds(list)[i] = list[i]
        /\ list[i].id = 0 => WithIds(list)[i].id = 1 + top + Cardinality(Before(i))
  <2> TAKE i \in DOMAIN list
  <2>1. CASE list[i].id # 0
    BY <1>1, <1>2, <1>3, <1>8, <2>1 DEF ServerEntries
  <2>2. CASE list[i].id = 0
    <3> DEFINE new == 1 + top + Cardinality(Before(i))
    <3>1. new \in 1..keys /\ new \in 0..MaxKeys
      BY <1>1, <1>4, <1>5, <1>6, <2>2
    <3>2. WithIds(list)[i] = [list[i] EXCEPT !.id = new]
      BY <1>8, <2>2
    <3>3. list[i] \in ServerEntries
      BY <1>2
    <3> HIDE DEF new
    <3>4. /\ WithIds(list)[i] \in ServerEntries /\ WithIds(list)[i].id = new
          /\ WithIds(list)[i].key = list[i].key /\ WithIds(list)[i].string = list[i].string
      BY <3>1, <3>2, <3>3 DEF ServerEntries
    <3> QED  BY <2>2, <3>1, <3>4 DEF new
  <2> QED  BY <2>1, <2>2
<1>10. \A i, j \in DOMAIN list : i # j => WithIds(list)[i].id # WithIds(list)[j].id
  <2>0. DOMAIN list \subseteq Int
    OBVIOUS
  <2> SUFFICES \A i, j \in DOMAIN list : i < j => WithIds(list)[i].id # WithIds(list)[j].id
    BY <2>0
  <2> TAKE i, j \in DOMAIN list
  <2> HAVE i < j
  <2>1. /\ list[i].id # 0 => WithIds(list)[i].id <= top
        /\ list[i].id = 0 => WithIds(list)[i].id = 1 + top + Cardinality(Before(i))
        /\ list[j].id # 0 => WithIds(list)[j].id <= top
        /\ list[j].id = 0 => WithIds(list)[j].id = 1 + top + Cardinality(Before(j))
    BY <1>4, <1>9
  <2>2. Cardinality(Before(i)) \in Nat /\ Cardinality(Before(j)) \in Nat
    BY <1>6
  <2>3. CASE list[i].id # 0 /\ list[j].id # 0
    BY <1>9, <2>3
  <2>4. CASE list[i].id = 0 /\ list[j].id = 0
    BY <1>4, <1>7, <2>1, <2>2, <2>4
  <2>5. CASE (list[i].id = 0) # (list[j].id = 0)
    BY <1>3, <1>4, <1>9, <2>1, <2>2, <2>5
  <2> QED  BY <2>3, <2>4, <2>5
<1>11. DOMAIN WithIds(list) = DOMAIN list /\ DOMAIN list = 1..Len(list) /\ Len(list) \in Nat
  BY <1>8
<1>12. WithIds(list) = [i \in 1..Len(list) |-> WithIds(list)[i]]
  BY <1>8, <1>11
<1>13. WithIds(list) \in Seq(ServerEntries)
  BY <1>9, <1>11, <1>12
<1> QED  BY <1>9, <1>10, <1>11, <1>13

-----------------------------------------------------------------------------
(* Ids stay owned while servers keep theirs or are recorded as removed.     *)
LEMMA OwnsKept ==
  ASSUME removedIds \subseteq removedIds',
         \A i \in DOMAIN servers :
            \/ servers[i].id \in removedIds' \cup {0}
            \/ \E j \in DOMAIN servers' : servers'[j].id = servers[i].id /\ servers'[j].key = servers[i].key
  PROVE  \A id, key : Owns(id, key) => Owns(id, key)'
BY DEF Owns

(* A connection is not the absence of one.                                  *)
LEMMA LinkFacts ==
  /\ NoLink \in Links /\ NoLink.id = 0 /\ NoLink.key = 0
  /\ \A link : link.string \in Strings => link # NoLink
BY TreeBounds DEF NoLink, Links

(* What the links of the tree carry is owned.                               *)
LEMMA OwnOwned ==
  ASSUME TreeInv, NEW i \in DOMAIN servers
  PROVE  /\ servers[i] \in Node /\ Belongs(servers[i])
         /\ servers[i].link \in Links /\ Owns(servers[i].link.id, servers[i].link.key)
         /\ \A j \in DOMAIN servers[i].children :
              LET link == servers[i].children[j].link IN
              link \in Links /\ Owns(link.id, link.key)
<1>1. servers[i] \in Node /\ Belongs(servers[i])
  BY DEF TreeInv, TreeTypes, AllBelong
<1>2. servers[i].link \in Links /\ Owns(servers[i].link.id, servers[i].link.key)
  BY <1>1, LinkFacts DEF Node, Belongs, Bears, Owns
<1>3. \A j \in DOMAIN servers[i].children : servers[i].children[j] \in Child
  BY <1>1 DEF Node
<1>4. \A j \in DOMAIN servers[i].children :
        /\ servers[i].children[j].link \in Links
        /\ servers[i].children[j].link.id = servers[i].link.id
        /\ servers[i].children[j].link.key = servers[i].link.key
  BY <1>1, <1>3 DEF Belongs, SameServer, Child
<1> QED  BY <1>1, <1>2, <1>4

(* A step that leaves every entry as it is keeps the invariant when its     *)
(* nodes belong to their servers.                                           *)
LEMMA SameList ==
  ASSUME TreeInv, Still, servers' \in Seq(Node), DOMAIN servers' = DOMAIN servers,
         \A i \in DOMAIN servers : Entry(servers'[i]) = Entry(servers[i]) /\ Belongs(servers'[i]),
         tab' \in Links, Owns(tab'.id, tab'.key)
  PROVE  TreeInv'
<1>1. \A i \in DOMAIN servers :
        servers'[i].key = servers[i].key /\ servers'[i].id = servers[i].id
  BY DEF Entry
<1>2. TreeTypes'
  BY <1>1 DEF TreeInv, TreeTypes, Still
<1>3. SettingsListed'
  BY DEF TreeInv, SettingsListed, Still
<1>4. IdsApart'
  BY <1>1 DEF TreeInv, IdsApart
<1>5. Room(servers)'
  <2>1. Unnumbered(servers') = Unnumbered(servers)
    BY <1>1 DEF Unnumbered
  <2> QED  BY <1>1, <2>1 DEF TreeInv, Room, Still
<1>6. AllBelong'
  BY DEF AllBelong, Belongs, Bears, SameServer
<1>7. \A id, key : Owns(id, key) => Owns(id, key)'
  BY <1>1, OwnsKept DEF Still
<1>8. Owned'
  BY <1>7 DEF TreeInv, Owned, Still
<1> QED  BY <1>2, <1>3, <1>4, <1>5, <1>6, <1>8 DEF TreeInv

(* A step in the subtree of one server.                                     *)
LEMMA OneNode ==
  ASSUME TreeInv, Still, NEW i \in DOMAIN servers, NEW node \in Node,
         Belongs(node), Entry(node) = Entry(servers[i]),
         servers' = [servers EXCEPT ![i] = node],
         tab' = tab \/ (tab' \in Links /\ Owns(tab'.id, tab'.key))
  PROVE  TreeInv'
<1>1. servers \in Seq(Node)
  BY DEF TreeInv, TreeTypes
<1>2. servers' \in Seq(Node) /\ DOMAIN servers' = DOMAIN servers
  BY <1>1
<1>3. \A j \in DOMAIN servers : Entry(servers'[j]) = Entry(servers[j]) /\ Belongs(servers'[j])
  BY <1>1 DEF TreeInv, AllBelong
<1>4. tab' \in Links /\ Owns(tab'.id, tab'.key)
  BY DEF TreeInv, TreeTypes, Owned
<1> QED  BY <1>2, <1>3, <1>4, SameList

(* A child may be replaced by one whose link goes to the same server.       *)
LEMMA OneChild ==
  ASSUME TreeInv, Still, NEW i \in DOMAIN servers, NEW j \in DOMAIN servers[i].children,
         NEW child \in Child, SameServer(child.link, servers[i].children[j].link),
         servers' = [servers EXCEPT ![i].children[j] = child],
         tab' = tab \/ (tab' \in Links /\ Owns(tab'.id, tab'.key))
  PROVE  TreeInv'
<1> DEFINE old == servers[i]
           node == [old EXCEPT !.children[j] = child]
<1>1. old \in Node /\ Belongs(old)
  BY OwnOwned
<1>2. /\ node \in Node /\ Entry(node) = Entry(old)
      /\ node.link = old.link /\ node.id = old.id /\ node.key = old.key
      /\ node.children = [old.children EXCEPT ![j] = child]
  <2>1. [old.children EXCEPT ![j] = child] \in Seq(Child)
    BY <1>1 DEF Node
  <2> QED  BY <1>1, <2>1 DEF Node, Entry
<1>3. Belongs(node)
  <2>1. old.children \in Seq(Child) /\ j \in DOMAIN old.children
    BY <1>1 DEF Node
  <2>2. DOMAIN node.children = DOMAIN old.children
    BY <1>2, <2>1
  <2>3. \A k \in DOMAIN old.children :
          node.children[k].link = IF k = j THEN child.link ELSE old.children[k].link
    BY <1>2, <2>1
  <2> HIDE DEF node, old
  <2>4. \A k \in DOMAIN old.children : SameServer(node.children[k].link, old.link)
    BY <1>1, <2>1, <2>3 DEF Belongs, SameServer, old
  <2> QED  BY <1>1, <1>2, <2>1, <2>2, <2>4 DEF Belongs, Bears
<1>4. servers' = [servers EXCEPT ![i] = node]
  OBVIOUS
<1> HIDE DEF node
<1> QED  BY <1>2, <1>3, <1>4, OneNode

(* Filling the branch of a server that has a connection.                    *)
LEMMA FillingBelongs ==
  ASSUME NEW node \in Node, Belongs(node), NEW opens \in BOOLEAN
  PROVE  /\ Filled(node, opens) \in Node /\ Belongs(Filled(node, opens))
         /\ Entry(Filled(node, opens)) = Entry(node)
<1> DEFINE filled == [node EXCEPT !.link.up = TRUE,
                        !.children = [j \in DOMAIN Databases |-> DatabaseNode(node.link, Databases[j])],
                        !.parent = Databases # <<>>]
           children == [j \in DOMAIN Databases |-> DatabaseNode(node.link, Databases[j])]
           link == [node.link EXCEPT !.up = TRUE]
<1>1. CASE node.link = NoLink \/ ~opens
  <2>1. Filled(node, opens) = [node EXCEPT !.parent = FALSE]
    BY <1>1 DEF Filled
  <2> QED  BY <2>1 DEF Node, Belongs, Bears, Entry
<1>2. CASE ~(node.link = NoLink \/ ~opens)
  <2>1. Filled(node, opens) = filled
    BY <1>2 DEF Filled
  <2>2. node.link \in Links /\ Bears(node.link, node)
    BY <1>2 DEF Node, Belongs
  <2>3. /\ link \in Links /\ SameServer(link, node.link) /\ Bears(link, node)
    BY <2>2 DEF Links, SameServer, Bears
  <2>4. \A j \in DOMAIN Databases :
          children[j] \in Child /\ SameServer(children[j].link, link)
    BY <2>2, <2>3 DEF DatabaseNode, NewLink, Child, Links, SameServer, Bears, Range
  <2>5. children \in Seq(Child)
    <3>1. DOMAIN Databases = 1..Len(Databases) /\ Len(Databases) \in Nat
      BY TreeBounds
    <3> HIDE DEF children
    <3>2. children = [j \in 1..Len(Databases) |-> children[j]]
      BY <3>1 DEF children
    <3> QED  BY <2>4, <3>1, <3>2
  <2>6. /\ filled \in Node /\ filled.link = link /\ filled.children = children
        /\ filled.id = node.id /\ filled.key = node.key /\ Entry(filled) = Entry(node)
    <3>1. node \in Node /\ (Databases # <<>>) \in BOOLEAN
      OBVIOUS
    <3>2. filled = [node EXCEPT !.link = link, !.children = children, !.parent = (Databases # <<>>)]
      BY <3>1 DEF Node
    <3> HIDE DEF link, children, filled
    <3> QED  BY <2>3, <2>5, <3>1, <3>2 DEF Node, Entry
  <2>7. link # NoLink
    BY <2>3, LinkFacts DEF Bears
  <2>8. DOMAIN children = DOMAIN Databases
    OBVIOUS
  <2> HIDE DEF link, children, filled
  <2> QED  BY <2>1, <2>3, <2>4, <2>6, <2>7, <2>8 DEF Belongs, Bears
<1> QED  BY <1>1, <1>2

-----------------------------------------------------------------------------
(* A server connects, at the first time or again.                           *)
LEMMA ActivateStep ==
  ASSUME TreeInv, NEW i \in DOMAIN servers, Activate(i)
  PROVE  TreeInv'
<1> DEFINE old == servers[i]
           link == NewLink(old.string, "none", old.id, old.key, TRUE)
           node == [old EXCEPT !.link = link, !.parent = TRUE]
           full == [node EXCEPT !.link.up = TRUE,
                      !.children = [j \in DOMAIN Databases |-> DatabaseNode(link, Databases[j])],
                      !.parent = Databases # <<>>]
           bare == [node EXCEPT !.children = <<>>]
<1>1. old \in Node /\ Belongs(old)
  BY OwnOwned
<1>2. link \in Links /\ link.string \in Strings /\ link.id = old.id /\ link.key = old.key
  BY <1>1, TreeBounds DEF Node, NewLink, Links
<1>3. link # NoLink
  BY <1>2, LinkFacts
<1> HIDE DEF link
<1>4. bare \in Node /\ bare.link = link /\ bare.children = <<>> /\ Entry(bare) = Entry(old)
      /\ bare.id = old.id /\ bare.key = old.key
  <2> DEFINE none == <<>>
  <2>1. none \in Seq(Child)
    OBVIOUS
  <2> HIDE DEF none
  <2>2. LET emptied == [node EXCEPT !.children = none] IN
        /\ emptied \in Node /\ emptied.link = link /\ emptied.children = none
        /\ Entry(emptied) = Entry(old) /\ emptied.id = old.id /\ emptied.key = old.key
    BY <1>1, <1>2, <2>1 DEF Node, Entry
  <2> QED  BY <2>2 DEF none
<1>5. Belongs(bare)
  BY <1>2, <1>4 DEF Belongs, Bears
<1>6. Filled(bare, TRUE) = Filled(node, TRUE)
  <2>1. node.link = link /\ node \in Node
    BY <1>1, <1>2 DEF Node
  <2>2. Filled(node, TRUE) = full
    BY <1>3, <2>1 DEF Filled
  <2>3. Filled(bare, TRUE) = [bare EXCEPT !.link.up = TRUE,
                      !.children = [j \in DOMAIN Databases |-> DatabaseNode(link, Databases[j])],
                      !.parent = Databases # <<>>]
    BY <1>3, <1>4 DEF Filled
  <2> QED  BY <1>4, <2>1, <2>2, <2>3, ZenonT(60) DEF Node
<1>7. Filled(node, TRUE) \in Node /\ Belongs(Filled(node, TRUE)) /\ Entry(Filled(node, TRUE)) = Entry(old)
  BY <1>4, <1>5, <1>6, FillingBelongs
<1>8. servers' = [servers EXCEPT ![i] = Filled(node, TRUE)] /\ tab' = tab /\ Still
  BY DEF Activate, Connected, link
<1> HIDE DEF node
<1> QED  BY <1>7, <1>8, OneNode

(* A connection that opens or closes is still that of its server.           *)
LEMMA OwnLink ==
  ASSUME TreeInv, NEW i \in DOMAIN servers, NEW up \in BOOLEAN, servers[i].link # NoLink
  PROVE  LET node == [servers[i] EXCEPT !.link.up = up]
         IN node \in Node /\ Belongs(node) /\ Entry(node) = Entry(servers[i])
<1> DEFINE old == servers[i]
           link == [old.link EXCEPT !.up = up]
           node == [old EXCEPT !.link = link]
<1>1. old \in Node /\ Belongs(old)
  BY OwnOwned
<1>2. old.link \in Links /\ Bears(old.link, old)
  BY <1>1 DEF Node, Belongs
<1>3. link \in Links /\ SameServer(link, old.link) /\ Bears(link, old)
  BY <1>2 DEF Links, SameServer, Bears
<1>4. link # NoLink
  BY <1>3, LinkFacts DEF Bears
<1> HIDE DEF link
<1>5. /\ node \in Node /\ node.link = link /\ node.children = old.children
      /\ node.id = old.id /\ node.key = old.key /\ Entry(node) = Entry(old)
  BY <1>1, <1>3 DEF Node, Entry
<1>6. Belongs(node)
  BY <1>1, <1>3, <1>4, <1>5 DEF Belongs, Bears, SameServer
<1> QED  BY <1>5, <1>6 DEF link

(* Without its databases a node belongs as before.                          *)
LEMMA EmptiedBelongs ==
  ASSUME NEW node \in Node, Belongs(node)
  PROVE  Emptied(node) \in Node /\ Belongs(Emptied(node)) /\ Entry(Emptied(node)) = Entry(node)
<1>1. /\ Emptied(node) \in Node /\ Emptied(node).children = <<>> /\ Emptied(node).link = node.link
      /\ Emptied(node).id = node.id /\ Emptied(node).key = node.key
      /\ Entry(Emptied(node)) = Entry(node)
  <2> DEFINE none == <<>>
  <2>1. none \in Seq(Child)
    OBVIOUS
  <2> HIDE DEF none
  <2>2. LET emptied == [node EXCEPT !.children = none] IN
        /\ emptied \in Node /\ emptied.link = node.link /\ emptied.children = none
        /\ Entry(emptied) = Entry(node) /\ emptied.id = node.id /\ emptied.key = node.key
    BY <2>1 DEF Node, Entry
  <2> QED  BY <2>2 DEF Emptied, none
<1> QED  BY <1>1 DEF Belongs, Bears

(* The other steps of a server's node.                                      *)
LEMMA FetchMoreStep ==
  ASSUME TreeInv, NEW i \in DOMAIN servers, NEW opens \in BOOLEAN, FetchMore(i, opens)
  PROVE  TreeInv'
<1>1. servers[i] \in Node /\ Belongs(servers[i])
  BY OwnOwned
<1>2. servers' = [servers EXCEPT ![i] = Filled(servers[i], opens)] /\ tab' = tab /\ Still
  BY DEF FetchMore
<1> QED  BY <1>1, <1>2, FillingBelongs, OneNode

LEMMA OwnLinkSteps ==
  ASSUME TreeInv, NEW i \in DOMAIN servers, SelectServer(i) \/ LinkLost(i) \/ NewTab(i)
  PROVE  TreeInv'
<1>1. servers[i].link # NoLink
  BY DEF SelectServer, LinkLost, NewTab, NoLink
<1>2. PICK up \in BOOLEAN : servers' = [servers EXCEPT ![i] = [servers[i] EXCEPT !.link.up = up]]
  BY DEF SelectServer, LinkLost, NewTab
<1>3. Still
  BY DEF SelectServer, LinkLost, NewTab
<1>4. tab' = tab \/ (tab' \in Links /\ Owns(tab'.id, tab'.key))
  <2>1. tab' = tab \/ tab' = Clone(servers[i].link)
    BY DEF SelectServer, LinkLost, NewTab
  <2>2. servers[i].link \in Links /\ Owns(servers[i].link.id, servers[i].link.key)
    BY OwnOwned
  <2>3. /\ Clone(servers[i].link) \in Links /\ Clone(servers[i].link).id = servers[i].link.id
        /\ Clone(servers[i].link).key = servers[i].link.key
    BY <2>2 DEF Clone, Links
  <2> QED  BY <2>1, <2>2, <2>3
<1> DEFINE node == [servers[i] EXCEPT !.link.up = up]
<1>5. node \in Node /\ Belongs(node) /\ Entry(node) = Entry(servers[i])
  BY <1>1, OwnLink
<1>6. servers' = [servers EXCEPT ![i] = node]
  BY <1>2
<1> HIDE DEF node
<1> QED  BY <1>3, <1>4, <1>5, <1>6, OneNode

LEMMA DisconnectStep ==
  ASSUME TreeInv, NEW i \in DOMAIN servers, Disconnect(i)
  PROVE  TreeInv'
<1> DEFINE node == [Emptied(servers[i]) EXCEPT !.link = NoLink, !.parent = FALSE]
<1>1. servers[i] \in Node /\ Belongs(servers[i])
  BY OwnOwned
<1>2. Emptied(servers[i]) \in Node /\ Entry(Emptied(servers[i])) = Entry(servers[i])
      /\ Emptied(servers[i]).children = <<>>
  BY <1>1, EmptiedBelongs DEF Emptied, Node
<1>3. /\ node \in Node /\ node.link = NoLink /\ node.children = <<>>
      /\ Entry(node) = Entry(servers[i])
  BY <1>2, LinkFacts DEF Node, Entry
<1>4. Belongs(node)
  BY <1>3 DEF Belongs
<1>5. servers' = [servers EXCEPT ![i] = node] /\ tab' = tab /\ Still
  BY DEF Disconnect
<1> HIDE DEF node
<1> QED  BY <1>3, <1>4, <1>5, OneNode

LEMMA RefreshServerStep ==
  ASSUME TreeInv, NEW i \in DOMAIN servers, NEW opens \in BOOLEAN, RefreshServer(i, opens)
  PROVE  TreeInv'
<1> DEFINE up == [servers[i] EXCEPT !.link.up = opens]
           node == [Emptied(servers[i]) EXCEPT !.link.up = opens]
<1>1. servers[i] \in Node /\ Belongs(servers[i])
  BY OwnOwned
<1>2. servers[i].link # NoLink
  <2>1. servers[i].children \in Seq(Child) /\ servers[i].children # <<>>
    BY <1>1 DEF RefreshServer, Node
  <2>2. 1 \in DOMAIN servers[i].children
    BY <2>1
  <2> QED  BY <1>1, <2>2 DEF Belongs
<1>3. up \in Node /\ Belongs(up) /\ Entry(up) = Entry(servers[i])
  BY <1>2, OwnLink
<1>4. node = Emptied(up)
  BY <1>1 DEF Emptied, Node
<1>5. servers' = [servers EXCEPT ![i] = node] /\ tab' = tab /\ Still
  BY DEF RefreshServer
<1> HIDE DEF node, up
<1> QED  BY <1>3, <1>4, <1>5, EmptiedBelongs, OneNode

(* What a step does to the node of a database leaves its link's server.     *)
LEMMA ChildMoves ==
  ASSUME NEW child \in Child
  PROVE  /\ \A up, busy \in BOOLEAN :
              LET moved == [child EXCEPT !.link = [child.link EXCEPT !.up = up, !.busy = busy]]
              IN moved \in Child /\ SameServer(moved.link, child.link)
         /\ \A up \in BOOLEAN :
              LET moved == [child EXCEPT !.link.up = up]
              IN moved \in Child /\ SameServer(moved.link, child.link)
         /\ \A up, filled, parent, expanded \in BOOLEAN :
              LET moved == [child EXCEPT !.link.up = up, !.filled = filled, !.parent = parent,
                                         !.expanded = expanded]
              IN moved \in Child /\ SameServer(moved.link, child.link)
         /\ \A filled, expanded \in BOOLEAN :
              LET shown == [child EXCEPT !.expanded = expanded]
                  kept == [child EXCEPT !.filled = filled]
              IN /\ shown \in Child /\ SameServer(shown.link, child.link)
                 /\ kept \in Child /\ SameServer(kept.link, child.link)
         /\ SameServer(child.link, child.link)
         /\ child.link.up \in BOOLEAN /\ child.link.busy \in BOOLEAN
<1>1. child.link \in Links /\ child.link.up \in BOOLEAN /\ child.link.busy \in BOOLEAN
  BY DEF Child, Links
<1>2. \A link \in Links : [child EXCEPT !.link = link] \in Child
  BY DEF Child
<1>3. \A link : [child EXCEPT !.link = link].link = link
  BY DEF Child
<1>4. \A up, busy \in BOOLEAN :
        LET link == [child.link EXCEPT !.up = up, !.busy = busy]
        IN link \in Links /\ SameServer(link, child.link)
  BY <1>1 DEF Links, SameServer
<1>5. \A up \in BOOLEAN :
        LET link == [child.link EXCEPT !.up = up]
        IN link \in Links /\ SameServer(link, child.link)
  BY <1>1 DEF Links, SameServer
<1>6. \A up, filled, parent, expanded \in BOOLEAN :
        LET moved == [child EXCEPT !.link.up = up, !.filled = filled, !.parent = parent,
                                   !.expanded = expanded]
        IN moved \in Child /\ SameServer(moved.link, child.link)
  <2> TAKE up, filled, parent, expanded \in BOOLEAN
  <2> DEFINE link == [child.link EXCEPT !.up = up]
             moved == [child EXCEPT !.link = link, !.filled = filled, !.parent = parent,
                                    !.expanded = expanded]
  <2>1. link \in Links /\ SameServer(link, child.link)
    BY <1>5
  <2> HIDE DEF link
  <2>2. moved \in Child /\ moved.link = link
    BY <2>1 DEF Child
  <2> QED  BY <2>1, <2>2 DEF link
<1>7. \A filled, expanded \in BOOLEAN :
        LET shown == [child EXCEPT !.expanded = expanded]
            kept == [child EXCEPT !.filled = filled]
        IN /\ shown \in Child /\ SameServer(shown.link, child.link)
           /\ kept \in Child /\ SameServer(kept.link, child.link)
  BY DEF Child, SameServer
<1>8. \A up, busy \in BOOLEAN :
        LET moved == [child EXCEPT !.link = [child.link EXCEPT !.up = up, !.busy = busy]]
        IN moved \in Child /\ SameServer(moved.link, child.link)
  BY <1>2, <1>3, <1>4, ZenonT(60)
<1>9. \A up \in BOOLEAN :
        LET moved == [child EXCEPT !.link.up = up]
        IN moved \in Child /\ SameServer(moved.link, child.link)
  BY <1>2, <1>3, <1>5
<1> QED  BY <1>1, <1>6, <1>7, <1>8, <1>9 DEF SameServer

LEMMA ReleasedMoves ==
  ASSUME NEW child \in Child
  PROVE  Released(child) \in Child /\ SameServer(Released(child).link, child.link)
<1>1. Released(child) = child \/ Released(child) = [child EXCEPT !.link.up = FALSE]
  BY DEF Released
<1> QED  BY <1>1, ChildMoves

LEMMA ScriptedMoves ==
  ASSUME NEW child \in Child, NEW opens \in BOOLEAN, NEW transaction \in BOOLEAN
  PROVE  /\ Scripted(child, opens, transaction) \in Child
         /\ SameServer(Scripted(child, opens, transaction).link, child.link)
<1> DEFINE busy == child.link.busy \/ transaction
           run == [child EXCEPT !.link = [child.link EXCEPT !.up = TRUE, !.busy = busy]]
<1>1. run \in Child /\ SameServer(run.link, child.link)
  <2>1. busy \in BOOLEAN
    BY ChildMoves
  <2> HIDE DEF busy
  <2> QED  BY <2>1, ChildMoves
<1>2. Scripted(child, opens, transaction) = child \/ Scripted(child, opens, transaction) = Released(run)
  BY DEF Scripted
<1> HIDE DEF run
<1>3. Released(run) \in Child /\ SameServer(Released(run).link, child.link)
  BY <1>1, ReleasedMoves DEF SameServer
<1> QED  BY <1>2, <1>3, ChildMoves

(* The steps of a database's node.                                          *)
LEMMA DatabaseSteps ==
  ASSUME TreeInv, NEW i \in DOMAIN servers, NEW j \in DOMAIN servers[i].children,
         NEW opens \in BOOLEAN, NEW transaction \in BOOLEAN
  PROVE  /\ ExpandDatabase(i, j, opens) => TreeInv'
         /\ CollapseDatabase(i, j) => TreeInv'
         /\ SelectDatabase(i, j, opens, transaction) => TreeInv'
         /\ RefreshDatabase(i, j, opens, transaction) => TreeInv'
         /\ NewTabOf(i, j) => TreeInv'
         /\ DatabaseLinkLost(i, j) => TreeInv'
<1> DEFINE child == servers[i].children[j]
<1>1. child \in Child
  <2>1. servers[i] \in Node
    BY OwnOwned
  <2> QED  BY <2>1 DEF Node
<1>2. child.link \in Links /\ Owns(child.link.id, child.link.key)
  BY OwnOwned
<1>3. ASSUME Still, NEW moved \in Child, SameServer(moved.link, child.link),
             servers' = [servers EXCEPT ![i].children[j] = moved],
             tab' = tab \/ tab' = Clone(child.link)
      PROVE  TreeInv'
  <2>1. /\ Clone(child.link) \in Links /\ Clone(child.link).id = child.link.id
        /\ Clone(child.link).key = child.link.key
    BY <1>2 DEF Clone, Links
  <2>2. tab' = tab \/ (tab' \in Links /\ Owns(tab'.id, tab'.key))
    BY <1>2, <1>3, <2>1
  <2> QED  BY <1>3, <2>2, OneChild
<1>4. ExpandDatabase(i, j, opens) => TreeInv'
  <2> SUFFICES ASSUME ExpandDatabase(i, j, opens) PROVE TreeInv'
    OBVIOUS
  <2> DEFINE moved == IF child.filled THEN [child EXCEPT !.expanded = TRUE]
                      ELSE [child EXCEPT !.link.up = opens, !.filled = opens, !.parent = opens,
                                         !.expanded = TRUE]
  <2>1. moved \in Child /\ SameServer(moved.link, child.link)
    BY <1>1, ChildMoves
  <2>2. servers' = [servers EXCEPT ![i].children[j] = moved] /\ tab' = tab /\ Still
    BY DEF ExpandDatabase
  <2> HIDE DEF moved, child
  <2> QED  BY <1>3, <2>1, <2>2
<1>5. CollapseDatabase(i, j) => TreeInv'
  <2> SUFFICES ASSUME CollapseDatabase(i, j) PROVE TreeInv'
    OBVIOUS
  <2> DEFINE moved == [child EXCEPT !.expanded = FALSE]
  <2>1. moved \in Child /\ SameServer(moved.link, child.link)
    BY <1>1, ChildMoves
  <2>2. servers' = [servers EXCEPT ![i].children[j] = moved] /\ tab' = tab /\ Still
    BY DEF CollapseDatabase
  <2> HIDE DEF moved, child
  <2> QED  BY <1>3, <2>1, <2>2
<1>6. SelectDatabase(i, j, opens, transaction) => TreeInv'
  <2> SUFFICES ASSUME SelectDatabase(i, j, opens, transaction) PROVE TreeInv'
    OBVIOUS
  <2> DEFINE moved == Scripted(child, opens, transaction)
  <2>1. moved \in Child /\ SameServer(moved.link, child.link)
    BY <1>1, ScriptedMoves
  <2>2. servers' = [servers EXCEPT ![i].children[j] = moved] /\ tab' = tab /\ Still
    BY DEF SelectDatabase
  <2> HIDE DEF moved, child
  <2> QED  BY <1>3, <2>1, <2>2
<1>7. RefreshDatabase(i, j, opens, transaction) => TreeInv'
  <2> SUFFICES ASSUME RefreshDatabase(i, j, opens, transaction) PROVE TreeInv'
    OBVIOUS
  <2> DEFINE empty == [child EXCEPT !.filled = FALSE]
             moved == Scripted(empty, opens, transaction)
  <2>1. empty \in Child /\ SameServer(empty.link, child.link)
    BY <1>1, ChildMoves
  <2>2. servers' = [servers EXCEPT ![i].children[j] = moved] /\ tab' = tab /\ Still
    BY DEF RefreshDatabase
  <2> HIDE DEF empty, child
  <2>3. moved \in Child /\ SameServer(moved.link, child.link)
    BY <2>1, ScriptedMoves DEF SameServer
  <2> HIDE DEF moved
  <2> QED  BY <1>3, <2>2, <2>3
<1>8. NewTabOf(i, j) => TreeInv'
  <2> SUFFICES ASSUME NewTabOf(i, j) PROVE TreeInv'
    OBVIOUS
  <2> DEFINE lent == [child EXCEPT !.link.up = TRUE]
             moved == Released(lent)
  <2>1. lent \in Child /\ SameServer(lent.link, child.link)
    BY <1>1, ChildMoves
  <2>2. /\ servers' = [servers EXCEPT ![i].children[j] = moved]
        /\ tab' = Clone(child.link) /\ Still
    BY DEF NewTabOf
  <2> HIDE DEF lent, child
  <2>3. moved \in Child /\ SameServer(moved.link, child.link)
    BY <2>1, ReleasedMoves DEF SameServer
  <2> HIDE DEF moved
  <2> QED  BY <1>3, <2>2, <2>3
<1>9. DatabaseLinkLost(i, j) => TreeInv'
  <2> SUFFICES ASSUME DatabaseLinkLost(i, j) PROVE TreeInv'
    OBVIOUS
  <2> DEFINE moved == [child EXCEPT !.link = [child.link EXCEPT !.up = FALSE, !.busy = FALSE]]
  <2>1. moved \in Child /\ SameServer(moved.link, child.link)
    BY <1>1, ChildMoves
  <2>2. servers' = [servers EXCEPT ![i].children[j] = moved]
    BY DEF DatabaseLinkLost
  <2>3. tab' = tab /\ Still
    BY DEF DatabaseLinkLost
  <2> HIDE DEF moved, child
  <2> QED  BY <1>3, <2>1, <2>2, <2>3
<1> QED  BY <1>4, <1>5, <1>6, <1>7, <1>8, <1>9

(* The panel asks with a connection of the tree, or of a tab.               *)
LEMMA SettingsMoves ==
  ASSUME TreeInv, UNCHANGED <<servers, settings, tab, removedIds, keys>>,
         profile' \in Profile, Owns(profile'.id, profile'.key),
         roots' \in [1..MaxKeys -> Root],
         \A id \in 1..MaxKeys : roots'[id].folder # "none" => Owns(id, roots'[id].by)
  PROVE  TreeInv'
<1>1. \A id, key : Owns(id, key)' = Owns(id, key)
  BY DEF Owns
<1>2. TreeTypes' /\ SettingsListed' /\ IdsApart' /\ AllBelong'
  BY DEF TreeInv, TreeTypes, SettingsListed, IdsApart, AllBelong
<1>3. Room(servers)'
  BY DEF TreeInv, Room
<1>4. Owned'
  BY <1>1 DEF TreeInv, Owned
<1> QED  BY <1>2, <1>3, <1>4 DEF TreeInv

LEMMA RememberedTypes ==
  ASSUME TreeInv
  PROVE  /\ Remembered \in [1..MaxKeys -> Root]
         /\ \A id \in 1..MaxKeys : Remembered[id].folder # "none" => Owns(id, Remembered[id].by)
<1>1. /\ roots \in [1..MaxKeys -> Root] /\ profile \in Profile /\ MaxKeys \in Nat
      /\ Owns(profile.id, profile.key)
      /\ \A id \in 1..MaxKeys : roots[id].folder # "none" => Owns(id, roots[id].by)
  BY TreeBounds DEF TreeInv, TreeTypes, Owned
<1>2. CASE profile.id = 0 \/ profile.folder = "none"
  BY <1>1, <1>2 DEF Remembered
<1>3. CASE ~(profile.id = 0 \/ profile.folder = "none")
  <2> DEFINE root == [folder |-> profile.folder, by |-> profile.key]
  <2>1. root \in Root /\ root.by = profile.key /\ profile.id \in 1..MaxKeys
    BY <1>1, <1>3 DEF Root, Profile
  <2>2. Remembered = [roots EXCEPT ![profile.id] = root]
    BY <1>3 DEF Remembered
  <2> HIDE DEF root
  <2> QED  BY <1>1, <2>1, <2>2
<1> QED  BY <1>2, <1>3

LEMMA FindInFilesStep ==
  ASSUME TreeInv, NEW con \in Links, Owns(con.id, con.key), FindInFiles(con)
  PROVE  TreeInv'
<1>1. UNCHANGED <<servers, settings, tab, removedIds, keys>>
  BY DEF FindInFiles
<1>2. CASE con.id = profile.id
  BY <1>1, <1>2, SettingsMoves DEF FindInFiles, SetConnectionProfile, TreeInv, TreeTypes, Owned
<1>3. CASE con.id # profile.id
  <2>1. /\ roots' = Remembered
        /\ profile' = [id |-> con.id, key |-> IF con.id = 0 THEN 0 ELSE con.key,
                       folder |-> IF con.id # 0 /\ roots'[con.id].folder # "none"
                                  THEN roots'[con.id].folder ELSE profile.folder]
    BY <1>3 DEF FindInFiles, SetConnectionProfile
  <2>2. /\ roots' \in [1..MaxKeys -> Root]
        /\ \A id \in 1..MaxKeys : roots'[id].folder # "none" => Owns(id, roots'[id].by)
    BY <2>1, RememberedTypes
  <2>3. con.id \in 0..MaxKeys /\ con.key \in 0..MaxKeys /\ MaxKeys \in Nat /\ profile \in Profile
    BY TreeBounds DEF Links, TreeInv, TreeTypes
  <2>4. con.id # 0 => roots'[con.id].folder \in Folders \cup {"none"}
    BY <2>2, <2>3 DEF Root
  <2>5. profile' \in Profile
    BY <2>1, <2>3, <2>4 DEF Profile
  <2>6. Owns(profile'.id, profile'.key)
    BY <2>1 DEF Owns
  <2> QED  BY <1>1, <2>2, <2>5, <2>6, SettingsMoves
<1> QED  BY <1>2, <1>3

LEMMA SearchStep ==
  ASSUME TreeInv, NEW folder \in Folders, Search(folder)
  PROVE  TreeInv'
<1>1. UNCHANGED <<servers, settings, tab, removedIds, keys>>
  BY DEF Search
<1>2. /\ roots \in [1..MaxKeys -> Root] /\ profile \in Profile /\ MaxKeys \in Nat
      /\ Owns(profile.id, profile.key)
      /\ \A id \in 1..MaxKeys : roots[id].folder # "none" => Owns(id, roots[id].by)
  BY TreeBounds DEF TreeInv, TreeTypes, Owned
<1>3. /\ profile' \in Profile /\ profile'.id = profile.id /\ profile'.key = profile.key
  BY <1>2 DEF Search, Profile
<1>4. CASE profile.id = 0
  BY <1>1, <1>2, <1>3, <1>4, SettingsMoves DEF Search
<1>5. CASE profile.id # 0
  <2> DEFINE root == [folder |-> folder, by |-> profile.key]
  <2>1. root \in Root /\ root.by = profile.key /\ profile.id \in 1..MaxKeys
    BY <1>2, <1>5 DEF Root, Profile
  <2>2. roots' = [roots EXCEPT ![profile.id] = root]
    BY <1>5 DEF Search
  <2> HIDE DEF root
  <2>3. /\ roots' \in [1..MaxKeys -> Root]
        /\ \A id \in 1..MaxKeys : roots'[id].folder # "none" => Owns(id, roots'[id].by)
    BY <1>2, <2>1, <2>2
  <2> QED  BY <1>1, <1>2, <1>3, <2>3, SettingsMoves
<1> QED  BY <1>4, <1>5

-----------------------------------------------------------------------------
(* An entry is altered.                                                     *)
LEMMA AlterConnectionStep ==
  ASSUME TreeInv, NEW i \in DOMAIN servers, NEW cs \in Strings, AlterConnection(i, cs)
  PROVE  TreeInv'
<1> DEFINE node == [servers[i] EXCEPT !.string = cs]
<1>1. servers \in Seq(Node) /\ servers[i] \in Node /\ Belongs(servers[i])
  BY OwnOwned DEF TreeInv, TreeTypes
<1>2. /\ node \in Node /\ node.id = servers[i].id /\ node.key = servers[i].key
      /\ node.link = servers[i].link /\ node.children = servers[i].children
  BY <1>1 DEF Node
<1>3. Belongs(node)
  BY <1>1, <1>2 DEF Belongs, Bears
<1>4. /\ servers' = [servers EXCEPT ![i] = node]
      /\ SaveConnectionSettings(servers')
      /\ UNCHANGED <<tab, profile, roots, removedIds, keys, launches>>
  BY DEF AlterConnection
<1> HIDE DEF node
<1>5. servers' \in Seq(Node) /\ DOMAIN servers' = DOMAIN servers
  BY <1>1, <1>2, <1>4
<1>6. \A j \in DOMAIN servers :
        servers'[j].id = servers[j].id /\ servers'[j].key = servers[j].key
  BY <1>1, <1>2, <1>4
<1>7. TreeTypes'
  BY <1>4, <1>5, <1>6 DEF TreeInv, TreeTypes
<1>8. SettingsListed' /\ IdsApart'
  BY <1>4, <1>5, <1>6 DEF TreeInv, IdsApart, SettingsListed, SaveConnectionSettings
<1>9. Room(servers)'
  <2>1. Unnumbered(servers') = Unnumbered(servers)
    BY <1>5, <1>6 DEF Unnumbered
  <2> QED  BY <1>4, <1>5, <1>6, <2>1 DEF TreeInv, Room
<1>10. AllBelong'
  <2>1. \A j \in DOMAIN servers : Belongs(servers'[j])
    BY <1>1, <1>3, <1>4 DEF TreeInv, AllBelong
  <2> QED  BY <1>5, <2>1 DEF AllBelong, Belongs, Bears, SameServer
<1>11. \A id, key : Owns(id, key) => Owns(id, key)'
  BY <1>4, <1>5, <1>6, OwnsKept
<1>12. Owned'
  BY <1>4, <1>11 DEF TreeInv, Owned
<1> QED  BY <1>7, <1>8, <1>9, <1>10, <1>12 DEF TreeInv

(* A server is added: it is the last of the list and has no id.             *)
LEMMA AddServerStep ==
  ASSUME TreeInv, NEW cs \in Strings, AddServer(cs)
  PROVE  TreeInv'
<1> DEFINE node == ServerNode([key |-> keys + 1, string |-> cs, id |-> 0])
           last == Len(servers) + 1
<1>1. /\ servers \in Seq(Node) /\ keys \in Nat /\ keys < MaxKeys /\ MaxKeys \in Nat
      /\ keys' = keys + 1 /\ servers' = Append(servers, node)
      /\ SaveConnectionSettings(servers')
      /\ UNCHANGED <<tab, profile, roots, removedIds, launches>>
  BY TreeBounds DEF TreeInv, TreeTypes, AddServer
<1>2. /\ node \in Node /\ node.id = 0 /\ node.key = keys + 1
      /\ node.link = NoLink /\ node.children = <<>>
  <2> DEFINE none == <<>>
  <2>1. none \in Seq(Child)
    OBVIOUS
  <2> HIDE DEF none
  <2>2. node = [key |-> keys + 1, string |-> cs, id |-> 0, link |-> NoLink, parent |-> FALSE,
                children |-> none]
    BY DEF ServerNode, none
  <2>3. keys + 1 \in 1..MaxKeys /\ 0 \in 0..MaxKeys /\ NoLink \in Links
    BY <1>1, LinkFacts
  <2> HIDE DEF node
  <2>4. node \in Node /\ node.children = none
    BY <2>1, <2>2, <2>3 DEF Node
  <2> QED  BY <2>2, <2>4 DEF none
<1>3. Belongs(node)
  BY <1>2 DEF Belongs
<1> HIDE DEF node
<1>4. /\ servers' \in Seq(Node) /\ DOMAIN servers' = DOMAIN servers \cup {last}
      /\ servers'[last] = node /\ last \notin DOMAIN servers
      /\ \A j \in DOMAIN servers : servers'[j] = servers[j]
  BY <1>1, <1>2
<1>5. TreeTypes'
  <2>1. \A j \in DOMAIN servers : servers[j].key <= keys
    BY DEF TreeInv, TreeTypes
  <2>2. \A j \in DOMAIN servers : servers[j].key \in Nat
    <3>1. \A j \in DOMAIN servers : servers[j] \in Node
      BY <1>1
    <3> QED  BY <1>1, <3>1 DEF Node
  <2>3. \A j \in DOMAIN servers' : servers'[j].key <= keys'
    BY <1>1, <1>2, <1>4, <2>1, <2>2
  <2> QED  BY <1>1, <1>4, <2>3 DEF TreeInv, TreeTypes
<1>6. SettingsListed'
  BY <1>1 DEF SettingsListed, SaveConnectionSettings
<1>7. IdsApart'
  BY <1>2, <1>4 DEF TreeInv, IdsApart
<1>8. Room(servers)'
  <2> DEFINE U == Unnumbered(servers)
  <2>1. Unnumbered(servers') = U \cup {last} /\ last \notin U
    BY <1>2, <1>4 DEF Unnumbered
  <2>2. IsFiniteSet(U) /\ Cardinality(U) \in Nat
    BY <1>1, UnnumberedFinite
  <2>3. Cardinality(U) <= keys /\ \A j \in DOMAIN servers : servers[j].id + Cardinality(U) <= keys
    BY DEF TreeInv, Room
  <2> HIDE DEF U
  <2>4. Cardinality(Unnumbered(servers')) = Cardinality(U) + 1
    BY <2>1, <2>2, FS_AddElement
  <2>5. \A j \in DOMAIN servers : servers[j].id \in Nat
    <3>1. \A j \in DOMAIN servers : servers[j] \in Node
      BY <1>1
    <3> QED  BY <1>1, <3>1 DEF Node
  <2>6. Cardinality(Unnumbered(servers')) <= keys'
    BY <1>1, <2>2, <2>3, <2>4
  <2>7. \A j \in DOMAIN servers' : servers'[j].id + Cardinality(Unnumbered(servers')) <= keys'
    BY <1>1, <1>2, <1>4, <2>2, <2>3, <2>4, <2>5
  <2> QED  BY <2>6, <2>7 DEF Room
<1>9. AllBelong'
  <2>1. \A j \in DOMAIN servers' : Belongs(servers'[j])
    BY <1>3, <1>4 DEF TreeInv, AllBelong
  <2> QED  BY <2>1 DEF AllBelong, Belongs, Bears, SameServer
<1>10. \A id, key : Owns(id, key) => Owns(id, key)'
  BY <1>1, <1>4, OwnsKept
<1>11. Owned'
  BY <1>1, <1>10 DEF TreeInv, Owned
<1> QED  BY <1>5, <1>6, <1>7, <1>8, <1>9, <1>11 DEF TreeInv

(* What a list is without one of its servers.                               *)
LEMMA RemoveAtIs ==
  ASSUME NEW Set, NEW list \in Seq(Set), NEW i \in DOMAIN list
  PROVE  /\ RemoveAt(list, i) \in Seq(Set)
         /\ DOMAIN RemoveAt(list, i) = 1..(Len(list) - 1)
         /\ \A j \in 1..(Len(list) - 1) :
              /\ j \in DOMAIN list /\ j + 1 \in DOMAIN list
              /\ RemoveAt(list, i)[j] = IF j < i THEN list[j] ELSE list[j + 1]
<1> DEFINE front == SubSeq(list, 1, i - 1)
           rest == SubSeq(list, i + 1, Len(list))
<1>1. Len(list) \in Nat /\ DOMAIN list = 1..Len(list) /\ i \in 1..Len(list)
  OBVIOUS
<1>2. /\ front \in Seq(Set) /\ Len(front) = i - 1
      /\ \A j \in 1..(i - 1) : front[j] = list[j]
  BY <1>1
<1>3. /\ rest \in Seq(Set) /\ Len(rest) = Len(list) - i
      /\ \A j \in 1..(Len(list) - i) : rest[j] = list[j + i]
  BY <1>1
<1>4. /\ RemoveAt(list, i) = front \o rest
      /\ Len(list) - 1 = Len(front) + Len(rest) /\ Len(list) - 1 \in Nat
  BY <1>1, <1>2, <1>3, SMTT(30) DEF RemoveAt
<1> HIDE DEF front, rest
<1>5. /\ front \o rest \in Seq(Set) /\ Len(front \o rest) = Len(list) - 1
      /\ \A j \in 1..(Len(list) - 1) :
           (front \o rest)[j] = IF j <= i - 1 THEN front[j] ELSE rest[j - (i - 1)]
  <2>1. /\ front \o rest \in Seq(Set) /\ Len(front \o rest) = Len(front) + Len(rest)
        /\ \A j \in 1..(Len(front) + Len(rest)) :
             (front \o rest)[j] = IF j <= Len(front) THEN front[j] ELSE rest[j - Len(front)]
    BY <1>2, <1>3, ConcatProperties
  <2> QED  BY <1>2, <1>4, <2>1
<1>6. \A j \in 1..(Len(list) - 1) : (front \o rest)[j] = IF j < i THEN list[j] ELSE list[j + 1]
  <2> TAKE j \in 1..(Len(list) - 1)
  <2>1. CASE j < i
    BY <1>1, <1>2, <1>5, <2>1
  <2>2. CASE ~(j < i)
    <3>1. j - (i - 1) \in 1..(Len(list) - i) /\ j - (i - 1) + i = j + 1
      BY <1>1, <2>2
    <3>2. (front \o rest)[j] = rest[j - (i - 1)]
      <4>1. ~(j <= i - 1)
        BY <1>1, <2>2
      <4> QED  BY <1>5, <4>1
    <3> QED  BY <1>3, <2>2, <3>1, <3>2
  <2> QED  BY <2>1, <2>2
<1>7. DOMAIN (front \o rest) = 1..(Len(list) - 1)
  BY <1>4, <1>5
<1>8. \A j \in 1..(Len(list) - 1) : j \in DOMAIN list /\ j + 1 \in DOMAIN list
  BY <1>1
<1> QED  BY <1>4, <1>5, <1>6, <1>7, <1>8

(* A server is removed: the rest keep their places and their ids.           *)
LEMMA RemoveConnectionStep ==
  ASSUME TreeInv, NEW i \in DOMAIN servers, RemoveConnection(i)
  PROVE  TreeInv'
<1> DEFINE n == Len(servers) - 1
           was(j) == IF j < i THEN j ELSE j + 1
<1>1. /\ servers \in Seq(Node) /\ Len(servers) \in Nat /\ DOMAIN servers = 1..Len(servers)
      /\ i \in 1..Len(servers)
  BY DEF TreeInv, TreeTypes
<1>2. /\ servers' = RemoveAt(servers, i) /\ removedIds' = removedIds \cup {servers[i].id}
      /\ SaveConnectionSettings(servers')
      /\ UNCHANGED <<tab, profile, roots, keys, launches>>
  BY DEF RemoveConnection
<1>3. /\ servers' \in Seq(Node) /\ DOMAIN servers' = 1..n
      /\ \A j \in 1..n : was(j) \in DOMAIN servers /\ servers'[j] = servers[was(j)]
  BY <1>1, <1>2, RemoveAtIs
<1>4. /\ \A j, k \in 1..n : j # k => was(j) # was(k)
      /\ \A k \in DOMAIN servers : k # i => \E j \in 1..n : was(j) = k
  <2>1. \A j, k \in 1..n : j # k => was(j) # was(k)
    BY <1>1
  <2>2. ASSUME NEW k \in DOMAIN servers, k # i
        PROVE  \E j \in 1..n : was(j) = k
    <3>1. CASE k < i
      BY <1>1, <2>2, <3>1
    <3>2. CASE k > i
      <4>1. k - 1 \in 1..n /\ was(k - 1) = k
        BY <1>1, <2>2, <3>2
      <4> QED  BY <4>1
    <3> QED  BY <1>1, <2>2, <3>1, <3>2
  <2> QED  BY <2>1, <2>2
<1> HIDE DEF was, n
<1>5. TreeTypes'
  BY <1>2, <1>3 DEF TreeInv, TreeTypes
<1>6. SettingsListed'
  BY <1>2 DEF SettingsListed, SaveConnectionSettings
<1>7. IdsApart'
  BY <1>3, <1>4 DEF TreeInv, IdsApart
<1>8. Room(servers)'
  <2> DEFINE U == Unnumbered(servers)
             V == Unnumbered(servers')
             f == [j \in V |-> was(j)]
  <2>1. \A j \in V : j \in 1..n /\ was(j) \in U
    BY <1>3 DEF Unnumbered
  <2>2. f \in [V -> U] /\ \A j, k \in V : f[j] = f[k] => j = k
    BY <1>4, <2>1
  <2>3. IsFiniteSet(U) /\ Cardinality(U) \in Nat
    BY <1>1, UnnumberedFinite
  <2>4. IsFiniteSet(V) /\ Cardinality(V) \in Nat
    BY <1>3, UnnumberedFinite
  <2> HIDE DEF U, V, f
  <2>5. f \in Injection(V, U)
    BY <2>2 DEF Injection, IsInjective
  <2>6. Cardinality(V) <= Cardinality(U)
    BY <2>3, <2>5, FS_Injection
  <2>7. Cardinality(U) <= keys /\ \A j \in DOMAIN servers : servers[j].id + Cardinality(U) <= keys
    BY DEF TreeInv, Room, U
  <2>8. keys \in Nat /\ \A j \in DOMAIN servers : servers[j].id \in Nat
    <3>1. \A j \in DOMAIN servers : servers[j] \in Node
      BY <1>1
    <3> QED  BY <3>1, TreeBounds DEF TreeInv, TreeTypes, Node
  <2>9. Cardinality(V) <= keys'
    BY <1>2, <2>3, <2>4, <2>6, <2>7, <2>8
  <2>10. \A j \in DOMAIN servers' : servers'[j].id + Cardinality(V) <= keys'
    <3> TAKE j \in DOMAIN servers'
    <3>1. was(j) \in DOMAIN servers /\ servers'[j].id = servers[was(j)].id
      BY <1>3
    <3>2. servers[was(j)].id \in Nat /\ servers[was(j)].id + Cardinality(U) <= keys
      BY <2>7, <2>8, <3>1
    <3> QED  BY <1>2, <2>3, <2>4, <2>6, <2>8, <3>1, <3>2
  <2> QED  BY <2>9, <2>10 DEF Room, V
<1>9. AllBelong'
  <2>1. \A j \in DOMAIN servers' : Belongs(servers'[j])
    BY <1>3 DEF TreeInv, AllBelong
  <2> QED  BY <2>1 DEF AllBelong, Belongs, Bears, SameServer
<1>10. \A id, key : Owns(id, key) => Owns(id, key)'
  <2>1. ASSUME NEW k \in DOMAIN servers
        PROVE  \/ servers[k].id \in removedIds' \cup {0}
               \/ \E j \in DOMAIN servers' :
                    servers'[j].id = servers[k].id /\ servers'[j].key = servers[k].key
    BY <1>2, <1>3, <1>4
  <2> QED  BY <1>2, <2>1, OwnsKept
<1>11. Owned'
  BY <1>2, <1>10 DEF TreeInv, Owned
<1> QED  BY <1>5, <1>6, <1>7, <1>8, <1>9, <1>11 DEF TreeInv

(* A launch lists the servers of the settings, and those without an id get  *)
(* one.                                                                     *)
LEMMA FillRootLists ==
  ASSUME TreeInv, FillRoot(settings)
  PROVE  /\ servers' \in Seq(Node) /\ DOMAIN servers' = DOMAIN servers
         /\ \A i \in DOMAIN servers :
              /\ servers'[i].key = servers[i].key /\ servers'[i].id \in 1..keys
              /\ servers[i].id # 0 => servers'[i].id = servers[i].id
              /\ Belongs(servers'[i])
         /\ \A i, j \in DOMAIN servers : i # j => servers'[i].id # servers'[j].id
         /\ settings' = [i \in DOMAIN servers' |-> Entry(servers'[i])]
<1>1. /\ servers \in Seq(Node) /\ keys \in 0..MaxKeys
      /\ DOMAIN servers = 1..Len(servers) /\ Len(servers) \in Nat
  BY DEF TreeInv, TreeTypes
<1>2. /\ settings = [i \in DOMAIN servers |-> Entry(servers[i])] /\ DOMAIN settings = DOMAIN servers
      /\ \A i \in DOMAIN servers :
           /\ settings[i] = Entry(servers[i])
           /\ settings[i].id = servers[i].id /\ settings[i].key = servers[i].key
  BY DEF TreeInv, SettingsListed, Entry
<1>3. settings \in Seq(ServerEntries)
  <2>1. \A i \in DOMAIN servers : Entry(servers[i]) \in ServerEntries
    <3>1. \A i \in DOMAIN servers : servers[i] \in Node
      BY <1>1
    <3> QED  BY <3>1 DEF Node, Entry, ServerEntries
  <2> QED  BY <1>1, <1>2, <2>1
<1>4. Room(settings)
  <2>1. Unnumbered(settings) = Unnumbered(servers)
    BY <1>2 DEF Unnumbered
  <2> QED  BY <1>2, <2>1 DEF TreeInv, Room
<1>5. \A i, j \in DOMAIN settings : i # j => settings[i].id # settings[j].id \/ settings[i].id = 0
  BY <1>2 DEF TreeInv, IdsApart
<1> DEFINE list == WithIds(settings)
<1>6. /\ list \in Seq(ServerEntries) /\ DOMAIN list = DOMAIN servers
      /\ \A i \in DOMAIN servers :
           /\ list[i] \in ServerEntries /\ list[i].key = servers[i].key /\ list[i].id \in 1..keys
           /\ servers[i].id # 0 => list[i] = settings[i]
      /\ \A i, j \in DOMAIN servers : i # j => list[i].id # list[j].id
  <2>1. /\ list \in Seq(ServerEntries) /\ DOMAIN list = DOMAIN settings
        /\ \A i \in DOMAIN settings :
             /\ list[i].key = settings[i].key /\ list[i].id \in 1..keys
             /\ settings[i].id # 0 => list[i] = settings[i]
        /\ \A i, j \in DOMAIN settings : i # j => list[i].id # list[j].id
    BY <1>1, <1>3, <1>4, <1>5, IdsGiven
  <2> HIDE DEF list
  <2> QED  BY <1>2, <2>1
<1>7. servers' = [i \in DOMAIN servers |-> ServerNode(list[i])]
  BY <1>2 DEF FillRoot
<1> HIDE DEF list
<1>8. \A entry \in ServerEntries :
        /\ ServerNode(entry) \in Node /\ Belongs(ServerNode(entry)) /\ Entry(ServerNode(entry)) = entry
        /\ ServerNode(entry).id = entry.id /\ ServerNode(entry).key = entry.key
  <2> TAKE entry \in ServerEntries
  <2> DEFINE none == <<>>
             node == ServerNode(entry)
  <2>1. none \in Seq(Child)
    OBVIOUS
  <2> HIDE DEF none
  <2>2. node = [key |-> entry.key, string |-> entry.string, id |-> entry.id, link |-> NoLink,
                parent |-> FALSE, children |-> none]
    BY DEF ServerNode, none
  <2> HIDE DEF node
  <2>3. node \in Node /\ Entry(node) = entry /\ node.id = entry.id /\ node.key = entry.key
    BY <2>1, <2>2, LinkFacts DEF Node, ServerEntries, Entry
  <2>4. node.link = NoLink /\ node.children = <<>>
    BY <2>2 DEF none
  <2>5. Belongs(node)
    BY <2>4 DEF Belongs
  <2> QED  BY <2>3, <2>5 DEF node
<1>9. /\ servers' \in Seq(Node) /\ DOMAIN servers' = DOMAIN servers
      /\ \A i \in DOMAIN servers :
           /\ servers'[i] \in Node /\ Entry(servers'[i]) = list[i] /\ Belongs(servers'[i])
           /\ servers'[i].id = list[i].id /\ servers'[i].key = list[i].key
  <2>1. \A i \in DOMAIN servers :
           /\ servers'[i] \in Node /\ Entry(servers'[i]) = list[i] /\ Belongs(servers'[i])
           /\ servers'[i].id = list[i].id /\ servers'[i].key = list[i].key
    BY <1>6, <1>7, <1>8
  <2> QED  BY <1>1, <1>7, <2>1
<1>10. settings' = [i \in DOMAIN servers' |-> Entry(servers'[i])]
  <2>1. CASE \E i \in DOMAIN settings : settings[i].id = 0
    BY <2>1 DEF FillRoot, SaveConnectionSettings
  <2>2. CASE ~\E i \in DOMAIN settings : settings[i].id = 0
    <3>1. settings' = settings
      BY <2>2 DEF FillRoot
    <3>2. \A i \in DOMAIN servers : list[i] = settings[i]
      BY <1>2, <1>6, <2>2
    <3> QED  BY <1>2, <1>9, <3>1, <3>2
  <2> QED  BY <2>1, <2>2
<1> QED  BY <1>2, <1>6, <1>9, <1>10

LEMMA RelaunchStep ==
  ASSUME TreeInv, Relaunch
  PROVE  TreeInv'
<1>1. /\ roots' = Remembered /\ profile' = [profile EXCEPT !.id = 0, !.key = 0] /\ tab' = NoLink
      /\ UNCHANGED <<removedIds, keys>>
  BY DEF Relaunch
<1>2. FillRoot(settings)
  BY DEF Relaunch
<1>3. /\ keys \in Nat /\ MaxKeys \in Nat /\ profile \in Profile
      /\ \A i \in DOMAIN servers : servers[i].key <= keys
  BY TreeBounds DEF TreeInv, TreeTypes
<1>4. TreeTypes'
  <2>1. profile' \in Profile
    <3>1. 0 \in 0..MaxKeys
      BY <1>3
    <3>2. \A p \in Profile : [p EXCEPT !.id = 0, !.key = 0] \in Profile
      BY <3>1 DEF Profile
    <3> QED  BY <1>1, <1>3, <3>2
  <2>2. \A i \in DOMAIN servers' : servers'[i].key <= keys'
    BY <1>1, <1>2, <1>3, FillRootLists
  <2>3. servers' \in Seq(Node) /\ tab' \in Links /\ roots' \in [1..MaxKeys -> Root]
    BY <1>1, <1>2, FillRootLists, LinkFacts, RememberedTypes
  <2>4. keys' \in 0..MaxKeys
    BY <1>1 DEF TreeInv, TreeTypes
  <2> QED  BY <2>1, <2>2, <2>3, <2>4 DEF TreeTypes
<1>5. SettingsListed' /\ IdsApart'
  BY <1>2, FillRootLists DEF SettingsListed, IdsApart
<1>6. Room(servers)'
  <2>1. /\ DOMAIN servers' = DOMAIN servers
        /\ \A i \in DOMAIN servers : servers'[i].id \in 1..keys
    BY <1>2, FillRootLists
  <2>2. Unnumbered(servers') = {}
    <3>1. \A i \in DOMAIN servers' : servers'[i].id # 0
      BY <1>3, <2>1
    <3> QED  BY <3>1 DEF Unnumbered
  <2>3. Cardinality(Unnumbered(servers')) = 0
    BY <2>2, FS_EmptySet
  <2> QED  BY <1>1, <1>3, <2>1, <2>3 DEF Room
<1>7. AllBelong'
  <2>1. \A i \in DOMAIN servers' : Belongs(servers'[i])
    BY <1>2, FillRootLists
  <2> QED  BY <2>1 DEF AllBelong, Belongs, Bears, SameServer
<1>8. \A id, key : Owns(id, key) => Owns(id, key)'
  <2>1. ASSUME NEW i \in DOMAIN servers
        PROVE  \/ servers[i].id \in removedIds' \cup {0}
               \/ \E j \in DOMAIN servers' :
                    servers'[j].id = servers[i].id /\ servers'[j].key = servers[i].key
    BY <1>2, FillRootLists
  <2> QED  BY <1>1, <2>1, OwnsKept
<1>9. Owned'
  <2>1. tab'.id = 0 /\ profile'.id = 0
    BY <1>1, <1>3, LinkFacts DEF Profile
  <2>2. \A id \in 1..MaxKeys : roots'[id].folder # "none" => Owns(id, roots'[id].by)
    BY <1>1, RememberedTypes
  <2> QED  BY <1>8, <2>1, <2>2 DEF Owned, Owns
<1> QED  BY <1>4, <1>5, <1>6, <1>7, <1>9 DEF TreeInv

-----------------------------------------------------------------------------
LEMMA TreeInitInv == TreeInit => TreeInv
<1> SUFFICES ASSUME TreeInit PROVE TreeInv
  OBVIOUS
<1> DEFINE none == <<>>
<1>1. none \in Seq(Node) /\ DOMAIN none = {}
  OBVIOUS
<1>2. /\ servers = none /\ settings = none /\ tab = NoLink
      /\ profile = [id |-> 0, key |-> 0, folder |-> "none"]
      /\ roots = [id \in 1..MaxKeys |-> [folder |-> "none", by |-> 0]]
      /\ removedIds = {} /\ keys = 0
  BY DEF TreeInit
<1> HIDE DEF none
<1>3. TreeTypes
  BY <1>1, <1>2, LinkFacts, TreeBounds DEF TreeTypes, Profile, Root
<1>4. SettingsListed /\ IdsApart /\ AllBelong
  <2>1. settings = [i \in DOMAIN servers |-> Entry(servers[i])]
    BY <1>1, <1>2 DEF none
  <2> QED  BY <1>1, <1>2, <2>1 DEF SettingsListed, IdsApart, AllBelong
<1>5. Room(servers)
  <2>1. Unnumbered(servers) = {}
    BY <1>1, <1>2 DEF Unnumbered
  <2>2. Cardinality(Unnumbered(servers)) = 0
    BY <2>1, FS_EmptySet
  <2> QED  BY <1>1, <1>2, <2>2 DEF Room
<1>6. Owned
  BY <1>2, LinkFacts DEF Owned, Owns
<1> QED  BY <1>3, <1>4, <1>5, <1>6 DEF TreeInv

LEMMA TreeStep == TreeInv /\ [TreeNext]_treeVars => TreeInv'
<1> SUFFICES ASSUME TreeInv, [TreeNext]_treeVars PROVE TreeInv'
  OBVIOUS
<1>1. CASE Relaunch
  BY <1>1, RelaunchStep
<1>2. CASE \E cs \in Strings : AddServer(cs)
  BY <1>2, AddServerStep
<1>3. ASSUME NEW i \in DOMAIN servers,
             \/ ContextMenu(i)
             \/ servers[i].link # NoLink /\ Activate(i)
             \/ \E opens \in BOOLEAN : FetchMore(i, opens) \/ RefreshServer(i, opens)
             \/ LinkLost(i) \/ SelectServer(i) \/ NewTab(i)
             \/ FindInFiles(servers[i].link)
      PROVE  TreeInv'
  <2>1. CASE ContextMenu(i)
    BY <2>1, ActivateStep, DisconnectStep, AlterConnectionStep, RemoveConnectionStep DEF ContextMenu
  <2>2. CASE Activate(i)
    BY <2>2, ActivateStep
  <2>3. CASE \E opens \in BOOLEAN : FetchMore(i, opens) \/ RefreshServer(i, opens)
    BY <2>3, FetchMoreStep, RefreshServerStep
  <2>4. CASE LinkLost(i) \/ SelectServer(i) \/ NewTab(i)
    BY <2>4, OwnLinkSteps
  <2>5. CASE FindInFiles(servers[i].link)
    BY <2>5, OwnOwned, FindInFilesStep
  <2> QED  BY <1>3, <2>1, <2>2, <2>3, <2>4, <2>5
<1>4. ASSUME NEW i \in DOMAIN servers, NEW j \in DOMAIN servers[i].children,
             \/ \E opens \in BOOLEAN : ExpandDatabase(i, j, opens)
             \/ \E opens, transaction \in BOOLEAN :
                  SelectDatabase(i, j, opens, transaction) \/ RefreshDatabase(i, j, opens, transaction)
             \/ CollapseDatabase(i, j) \/ NewTabOf(i, j)
             \/ DatabaseLinkLost(i, j) \/ FindInFiles(servers[i].children[j].link)
      PROVE  TreeInv'
  <2>1. CASE FindInFiles(servers[i].children[j].link)
    BY <2>1, OwnOwned, FindInFilesStep
  <2>2. CASE \E opens \in BOOLEAN : ExpandDatabase(i, j, opens)
    BY <2>2, DatabaseSteps
  <2>3. CASE \E opens, transaction \in BOOLEAN :
               SelectDatabase(i, j, opens, transaction) \/ RefreshDatabase(i, j, opens, transaction)
    BY <2>3, DatabaseSteps
  <2>4. CASE CollapseDatabase(i, j) \/ NewTabOf(i, j) \/ DatabaseLinkLost(i, j)
    BY <2>4, DatabaseSteps
  <2> QED  BY <1>4, <2>1, <2>2, <2>3, <2>4
<1>5. CASE FindInFiles(tab)
  BY <1>5, FindInFilesStep DEF TreeInv, TreeTypes, Owned
<1>6. CASE \E folder \in Folders : Search(folder)
  BY <1>6, SearchStep
<1>7. CASE UNCHANGED treeVars
  <2>1. UNCHANGED <<servers, settings, tab, removedIds, keys, profile, roots>>
    BY <1>7 DEF treeVars
  <2> QED  BY <2>1, SettingsMoves DEF TreeInv, TreeTypes, Owned
<1> QED  BY <1>1, <1>2, <1>3, <1>4, <1>5, <1>6, <1>7 DEF TreeNext

LEMMA TreeAlways == TreeSpec => []TreeInv
BY TreeInitInv, TreeStep, PTL DEF TreeSpec

(* The variables are of their types.                                        *)
THEOREM TreeTyped == TreeSpec => []TreeTypeOK
<1>1. TreeInv => TreeTypeOK
  <2> SUFFICES ASSUME TreeInv PROVE TreeTypeOK
    OBVIOUS
  <2>1. /\ servers \in Seq(Node) /\ tab \in Links /\ profile \in Profile
        /\ roots \in [1..MaxKeys -> Root]
        /\ keys \in Nat /\ \A i \in DOMAIN servers : servers[i].key <= keys
    BY TreeBounds DEF TreeInv, TreeTypes
  <2>2. ASSUME NEW i \in DOMAIN servers
        PROVE  /\ servers[i].key \in 1..keys /\ servers[i].id \in 0..MaxKeys
               /\ servers[i].string \in Strings /\ servers[i].link \in Links
    <3>1. servers[i] \in Node
      BY <2>1
    <3> QED  BY <2>1, <3>1, TreeBounds DEF Node
  <2> QED  BY <2>1, <2>2 DEF TreeTypeOK, Profile, Root
<1> QED  BY <1>1, TreeAlways, PTL

(* However servers are added, altered, removed and given their ids, the list *)
(* the next launch reads is the one on the screen, in its order, and no two  *)
(* servers share an id (saveConnectionSettings, fillChildren of the root).   *)
THEOREM ListIsKept == TreeSpec => []ListKept
<1>1. TreeInv => ListKept
  <2> SUFFICES ASSUME TreeInv PROVE ListKept
    OBVIOUS
  <2>1. /\ servers \in Seq(Node) /\ DOMAIN servers = 1..Len(servers) /\ Len(servers) \in Nat
        /\ settings = [i \in 1..Len(servers) |-> Entry(servers[i])]
    BY DEF TreeInv, TreeTypes, SettingsListed
  <2>2. Len(settings) = Len(servers)
    BY <2>1
  <2>3. \A i \in DOMAIN servers : settings[i] = Entry(servers[i])
    BY <2>1
  <2> QED  BY <2>2, <2>3 DEF TreeInv, IdsApart, ListKept
<1> QED  BY <1>1, TreeAlways, PTL

(* The databases below a server connect with the string and the id its own   *)
(* connection has (fillChildren, on_objectsView_activated, alterConnection). *)
THEOREM DatabasesBelong == TreeSpec => []DatabasesOfTheirServer
<1>1. TreeInv => DatabasesOfTheirServer
  <2> SUFFICES ASSUME TreeInv, NEW i \in DOMAIN servers, NEW j \in DOMAIN servers[i].children
               PROVE  LET own == servers[i].link
                          link == servers[i].children[j].link
                      IN /\ own # NoLink /\ link.string = own.string
                         /\ link.id = own.id /\ link.key = servers[i].key
    BY DEF DatabasesOfTheirServer
  <2>1. Belongs(servers[i])
    BY OwnOwned
  <2> QED  BY <2>1 DEF Belongs, Bears, SameServer
<1> QED  BY <1>1, TreeAlways, PTL

(* The folder kept under the id of a listed server was kept while the panel  *)
(* had a connection of that very server (setConnectionProfile, WithIds).     *)
THEOREM RootsAreOwned == TreeSpec => []RootsOwned
<1>1. TreeInv => RootsOwned
  <2> SUFFICES ASSUME TreeInv, NEW i \in DOMAIN servers, servers[i].id # 0,
                      roots[servers[i].id].folder # "none", servers[i].id \notin removedIds
               PROVE  roots[servers[i].id].by = servers[i].key
    BY DEF RootsOwned
  <2>1. servers[i].id \in 1..MaxKeys
    BY OwnOwned, TreeBounds DEF Node
  <2>2. Owns(servers[i].id, roots[servers[i].id].by)
    BY <2>1 DEF TreeInv, Owned
  <2> QED  BY <2>2 DEF TreeInv, IdsApart, Owns
<1> QED  BY <1>1, TreeAlways, PTL

-----------------------------------------------------------------------------
(* The caches of scripts: for any servers, version and directives.          *)
(*                                                                          *)
(* A scan's stack, read from the bottom, is the blocks around the text, the *)
(* outermost first: frame j belongs to the "if" at pos[j].                  *)

Directive == [is : {"if", "elif", "else", "endif"}, least : Nat]
DirectiveLists == Seq(Directive)

LEMMA ScriptOf ==
  ASSUME NEW script \in DirectiveLists
  PROVE  Len(script) \in Nat /\ \A i \in 1..Len(script) : i \in Nat /\ i + 1 \in Nat /\ (i + 1) - 1 = i /\ script[i] \in Directive
<1>1. Len(script) \in Nat
  BY DEF DirectiveLists
<1>2. \A i \in 1..Len(script) : script[i] \in Directive
  BY DEF DirectiveLists
<1> QED  BY <1>1, <1>2

Count(script, kind, o, q) == Cardinality({i \in o..q : Is(script, i, {kind})})

LEMMA CountNext ==
  ASSUME NEW script, NEW kind, NEW o \in Nat, NEW q \in Nat, o <= q
  PROVE  /\ Count(script, kind, o, q - 1) \in Nat
         /\ Count(script, kind, o, q) = Count(script, kind, o, q - 1) + IF Is(script, q, {kind}) THEN 1 ELSE 0
<1> DEFINE S == {i \in o..(q - 1) : Is(script, i, {kind})}
           T == {i \in o..q : Is(script, i, {kind})}
<1>1. IsFiniteSet(S)
  <2>1. IsFiniteSet(o..(q - 1))
    BY FS_Interval
  <2> QED  BY <2>1, FS_Subset
<1>2. T = IF Is(script, q, {kind}) THEN S \cup {q} ELSE S
  OBVIOUS
<1>3. q \notin S
  OBVIOUS
<1>4. Count(script, kind, o, q - 1) = Cardinality(S) /\ Count(script, kind, o, q) = Cardinality(T)
  BY DEF Count
<1> HIDE DEF S, T
<1>5. Cardinality(S) \in Nat /\ Cardinality(S \cup {q}) = Cardinality(S) + 1
  BY <1>1, <1>3, FS_CardinalityType, FS_AddElement
<1> QED  BY <1>2, <1>4, <1>5

LEMMA CountNone ==
  ASSUME NEW script, NEW kind, NEW o \in Nat
  PROVE  Count(script, kind, o, o - 1) = 0
<1>1. {i \in o..(o - 1) : Is(script, i, {kind})} = {}
  OBVIOUS
<1> QED  BY <1>1, FS_EmptySet DEF Count

(* How deep the text before the directive p + 1 is under the directive o.   *)
Height(script, o, q) == Count(script, "if", o, q) - Count(script, "endif", o, q)

LEMMA HeightNext ==
  ASSUME NEW script, NEW o \in Nat, NEW q \in Nat, o <= q
  PROVE  /\ Height(script, o, q - 1) \in Int
         /\ Height(script, o, q) = Height(script, o, q - 1)
              + (IF Is(script, q, {"if"}) THEN 1 ELSE 0) - (IF Is(script, q, {"endif"}) THEN 1 ELSE 0)
         /\ Height(script, o, o - 1) = 0
<1>1. PICK a \in Nat, b \in Nat : a = Count(script, "if", o, q - 1) /\ b = Count(script, "endif", o, q - 1)
  BY CountNext
<1>2. /\ Count(script, "if", o, q) = a + IF Is(script, q, {"if"}) THEN 1 ELSE 0
      /\ Count(script, "endif", o, q) = b + IF Is(script, q, {"endif"}) THEN 1 ELSE 0
  BY <1>1, CountNext
<1>3. Count(script, "if", o, o - 1) = 0 /\ Count(script, "endif", o, o - 1) = 0
  BY CountNone
<1> QED  BY <1>1, <1>2, <1>3 DEF Height

LEMMA OpenIs ==
  ASSUME NEW script, NEW o \in Nat, NEW p \in Nat
  PROVE  Open(script, o, p) <=> /\ o < p /\ Is(script, o, {"if"})
                                /\ \A q \in o..(p - 1) : Height(script, o, q) > 0
<1>1. ASSUME NEW q \in o..(p - 1)
      PROVE  Height(script, o, q) > 0
                <=> Cardinality({i \in o..q : Is(script, i, {"if"})})
                      > Cardinality({i \in o..q : Is(script, i, {"endif"})})
  <2>1. q \in Nat /\ o <= q /\ q + 1 \in Nat /\ o <= q + 1 /\ (q + 1) - 1 = q
    OBVIOUS
  <2>2. Count(script, "if", o, (q + 1) - 1) \in Nat /\ Count(script, "endif", o, (q + 1) - 1) \in Nat
    BY <2>1, CountNext
  <2>3. Count(script, "if", o, q) \in Nat /\ Count(script, "endif", o, q) \in Nat
    BY <2>1, <2>2
  <2>4. Height(script, o, q) > 0 <=> Count(script, "if", o, q) > Count(script, "endif", o, q)
    BY <2>3 DEF Height
  <2> QED  BY <2>4 DEF Count
<1> QED  BY <1>1 DEF Open

(* A block the next text is in as well, or one that begins between them.    *)
LEMMA OpenNext ==
  ASSUME NEW script, NEW o \in Nat, NEW p \in Nat
  PROVE  Open(script, o, p + 1) <=> \/ o = p /\ Is(script, p, {"if"})
                                    \/ Open(script, o, p) /\ Height(script, o, p) > 0
<1>1. CASE o < p
  <2>1. o..((p + 1) - 1) = (o..(p - 1)) \cup {p}
    BY <1>1
  <2>2. Open(script, o, p + 1) <=> /\ Is(script, o, {"if"})
                                   /\ \A q \in o..((p + 1) - 1) : Height(script, o, q) > 0
    BY <1>1, OpenIs
  <2>3. Open(script, o, p) <=> /\ Is(script, o, {"if"})
                               /\ \A q \in o..(p - 1) : Height(script, o, q) > 0
    BY <1>1, OpenIs
  <2> QED  BY <1>1, <2>1, <2>2, <2>3
<1>2. CASE o = p
  <2>1. Open(script, o, p + 1) <=> /\ Is(script, p, {"if"})
                                   /\ \A q \in p..((p + 1) - 1) : Height(script, o, q) > 0
    BY <1>2, OpenIs, SMTT(30)
  <2>2. p..((p + 1) - 1) = {p}
    OBVIOUS
  <2>3. Is(script, p, {"if"}) => Height(script, p, p) = 1
    <3>1. Is(script, p, {"if"}) => ~Is(script, p, {"endif"})
      BY DEF Is
    <3>2. /\ Height(script, p, p) = Height(script, p, p - 1)
              + (IF Is(script, p, {"if"}) THEN 1 ELSE 0) - (IF Is(script, p, {"endif"}) THEN 1 ELSE 0)
          /\ Height(script, p, p - 1) = 0
      BY HeightNext
    <3> QED  BY <3>1, <3>2
  <2>4. ~Open(script, o, p)
    BY <1>2 DEF Open
  <2> QED  BY <1>2, <2>1, <2>2, <2>3, <2>4
<1>3. CASE o > p
  BY <1>3 DEF Open
<1> QED  BY <1>1, <1>2, <1>3

(* The blocks the text before the directive p is in, the outermost first.   *)
Nests(script, pos, m, p) ==
    /\ \A j \in 1..m : /\ pos[j] \in 1..(p - 1) /\ Is(script, pos[j], {"if"})
                       /\ Height(script, pos[j], p - 1) = m - j + 1
    /\ \A i \in 1..m, j \in 1..m : i < j => pos[i] < pos[j]
    /\ BlocksOf(script, p) = {pos[j] : j \in 1..m}

LEMMA IsOne ==
  ASSUME NEW script \in DirectiveLists, NEW i \in 1..Len(script)
  PROVE  /\ Is(script, i, {"if"}) \/ Is(script, i, {"endif"}) \/ Is(script, i, {"elif", "else"})
         /\ Is(script, i, {"if"}) => ~Is(script, i, {"endif"}) /\ ~Is(script, i, {"elif", "else"})
         /\ Is(script, i, {"endif"}) => ~Is(script, i, {"elif", "else"})
<1>1. script[i].is \in {"if", "elif", "else", "endif"}
  BY ScriptOf DEF Directive
<1> QED  BY <1>1 DEF Is

LEMMA BlocksNext ==
  ASSUME NEW script \in DirectiveLists, NEW p \in 1..Len(script)
  PROVE  BlocksOf(script, p + 1) = {o \in BlocksOf(script, p) : Height(script, o, p) > 0}
                                     \cup (IF Is(script, p, {"if"}) THEN {p} ELSE {})
<1>1. Len(script) \in Nat /\ p \in Nat /\ p + 1 \in Nat
  BY ScriptOf
<1>2. ASSUME NEW o \in 1..Len(script)
      PROVE  Open(script, o, p + 1) <=> \/ o = p /\ Is(script, p, {"if"})
                                        \/ Open(script, o, p) /\ Height(script, o, p) > 0
  <2>1. o \in Nat
    BY <1>1
  <2> QED  BY <1>1, <2>1, OpenNext
<1>3. \A o : o \in BlocksOf(script, p + 1) <=> o \in 1..Len(script) /\ Open(script, o, p + 1)
  BY DEF BlocksOf
<1>4. \A o : o \in BlocksOf(script, p) <=> o \in 1..Len(script) /\ Open(script, o, p)
  BY DEF BlocksOf
<1> QED  BY <1>2, <1>3, <1>4

LEMMA NestsIf ==
  ASSUME NEW script \in DirectiveLists, NEW p \in 1..Len(script), NEW m \in Nat, NEW pos \in [1..m -> Nat],
         Nests(script, pos, m, p), Is(script, p, {"if"}),
         NEW to, to = [j \in 1..(m + 1) |-> IF j = m + 1 THEN p ELSE pos[j]]
  PROVE  Nests(script, to, m + 1, p + 1)
<1>1. Len(script) \in Nat /\ p \in Nat /\ (p + 1) - 1 = p
  BY ScriptOf
<1>2. ~Is(script, p, {"endif"})
  BY IsOne
<1>3. ASSUME NEW j \in 1..m
      PROVE  to[j] = pos[j] /\ pos[j] \in 1..(p - 1) /\ Is(script, pos[j], {"if"}) /\ Height(script, pos[j], p) = m - j + 2
             /\ pos[j] < p /\ pos[j] \in Nat
  <2>1. pos[j] \in 1..(p - 1) /\ Is(script, pos[j], {"if"}) /\ Height(script, pos[j], p - 1) = m - j + 1
    BY DEF Nests
  <2>2. pos[j] \in Nat /\ pos[j] <= p
    BY <2>1, <1>1
  <2>3. Height(script, pos[j], p) = Height(script, pos[j], p - 1)
            + (IF Is(script, p, {"if"}) THEN 1 ELSE 0) - (IF Is(script, p, {"endif"}) THEN 1 ELSE 0)
    BY <2>2, <1>1, HeightNext
  <2> QED  BY <1>2, <2>1, <2>3
<1>4. to[m + 1] = p
  OBVIOUS
<1>5. Height(script, p, p) = 1
  <2>1. /\ Height(script, p, p) = Height(script, p, p - 1)
            + (IF Is(script, p, {"if"}) THEN 1 ELSE 0) - (IF Is(script, p, {"endif"}) THEN 1 ELSE 0)
        /\ Height(script, p, p - 1) = 0
    BY <1>1, HeightNext
  <2> QED  BY <2>1, <1>2
<1>6. ASSUME NEW j \in 1..(m + 1)
      PROVE  /\ to[j] \in 1..((p + 1) - 1) /\ Is(script, to[j], {"if"})
             /\ Height(script, to[j], (p + 1) - 1) = (m + 1) - j + 1
  <2>1. CASE j = m + 1
    BY <1>1, <1>4, <1>5, <2>1
  <2>2. CASE j # m + 1
    <3>1. j \in 1..m
      BY <2>2
    <3>2. to[j] = pos[j] /\ pos[j] \in 1..(p - 1) /\ Is(script, pos[j], {"if"}) /\ Height(script, to[j], p) = m - j + 2
      BY <1>3, <3>1
    <3>3. to[j] \in 1..((p + 1) - 1)
      BY <1>1, <3>2
    <3> QED  BY <1>1, <3>1, <3>2, <3>3
  <2> QED  BY <2>1, <2>2
<1>7. ASSUME NEW i \in 1..(m + 1), NEW j \in 1..(m + 1), i < j PROVE to[i] < to[j]
  <2>1. i \in 1..m
    BY <1>7
  <2>2. CASE j = m + 1
    BY <1>3, <1>4, <2>1, <2>2
  <2>3. CASE j # m + 1
    <3>1. j \in 1..m
      BY <2>3
    <3> QED  BY <1>3, <1>7, <2>1, <3>1 DEF Nests
  <2> QED  BY <2>2, <2>3
<1>8. BlocksOf(script, p + 1) = {to[j] : j \in 1..(m + 1)}
  <2>1. BlocksOf(script, p) = {pos[j] : j \in 1..m}
    BY DEF Nests
  <2>2. ASSUME NEW j \in 1..m PROVE Height(script, pos[j], p) > 0
    <3>1. m - j + 2 > 0
      OBVIOUS
    <3>2. Height(script, pos[j], p) = m - j + 2
      BY <1>3
    <3> QED  BY <3>1, <3>2
  <2>3. {o \in BlocksOf(script, p) : Height(script, o, p) > 0} = {pos[j] : j \in 1..m}
    BY <2>1, <2>2
  <2>4. {to[j] : j \in 1..(m + 1)} = {pos[j] : j \in 1..m} \cup {p}
    <3>1. \A j \in 1..m : j \in 1..(m + 1)
      OBVIOUS
    <3>2. m + 1 \in 1..(m + 1) /\ \A j \in 1..(m + 1) : j = m + 1 \/ j \in 1..m
      OBVIOUS
    <3> QED  BY <1>3, <1>4, <3>1, <3>2
  <2> QED  BY <2>3, <2>4, BlocksNext
<1> QED  BY <1>6, <1>7, <1>8 DEF Nests

LEMMA NestsArm ==
  ASSUME NEW script \in DirectiveLists, NEW p \in 1..Len(script), NEW m \in Nat, NEW pos \in [1..m -> Nat],
         Nests(script, pos, m, p), Is(script, p, {"elif", "else"})
  PROVE  Nests(script, pos, m, p + 1)
<1>1. Len(script) \in Nat /\ p \in Nat /\ (p + 1) - 1 = p
  BY ScriptOf
<1>2. ~Is(script, p, {"endif"}) /\ ~Is(script, p, {"if"})
  BY IsOne
<1>3. ASSUME NEW j \in 1..m
      PROVE  /\ pos[j] \in 1..(p - 1) /\ pos[j] \in 1..((p + 1) - 1) /\ Is(script, pos[j], {"if"})
             /\ Height(script, pos[j], (p + 1) - 1) = m - j + 1
  <2>1. pos[j] \in 1..(p - 1) /\ Is(script, pos[j], {"if"}) /\ Height(script, pos[j], p - 1) = m - j + 1
    BY DEF Nests
  <2>2. pos[j] \in Nat /\ pos[j] <= p /\ pos[j] \in 1..((p + 1) - 1)
    BY <2>1, <1>1
  <2>3. Height(script, pos[j], p) = Height(script, pos[j], p - 1)
            + (IF Is(script, p, {"if"}) THEN 1 ELSE 0) - (IF Is(script, p, {"endif"}) THEN 1 ELSE 0)
    BY <2>2, <1>1, HeightNext
  <2> QED  BY <1>1, <1>2, <2>1, <2>2, <2>3
<1>4. BlocksOf(script, p + 1) = {pos[j] : j \in 1..m}
  <2>1. BlocksOf(script, p) = {pos[j] : j \in 1..m}
    BY DEF Nests
  <2>2. \A j \in 1..m : Height(script, pos[j], p) > 0
    BY <1>1, <1>3
  <2>3. {o \in BlocksOf(script, p) : Height(script, o, p) > 0} = {pos[j] : j \in 1..m}
    BY <2>1, <2>2
  <2> QED  BY <1>2, <2>3, BlocksNext
<1>5. \A i \in 1..m, j \in 1..m : i < j => pos[i] < pos[j]
  BY DEF Nests
<1> QED  BY <1>3, <1>4, <1>5 DEF Nests

LEMMA NestsEnd ==
  ASSUME NEW script \in DirectiveLists, NEW p \in 1..Len(script), NEW m \in Nat, NEW pos \in [1..m -> Nat],
         Nests(script, pos, m, p), Is(script, p, {"endif"}), m # 0,
         NEW to, to = [j \in 1..(m - 1) |-> pos[j]]
  PROVE  Nests(script, to, m - 1, p + 1)
<1>1. Len(script) \in Nat /\ p \in Nat /\ (p + 1) - 1 = p
  BY ScriptOf
<1>2. ~Is(script, p, {"if"})
  BY IsOne
<1>3. ASSUME NEW j \in 1..m
      PROVE  /\ pos[j] \in 1..(p - 1) /\ pos[j] \in 1..((p + 1) - 1) /\ Is(script, pos[j], {"if"})
             /\ Height(script, pos[j], (p + 1) - 1) = m - j
  <2>1. pos[j] \in 1..(p - 1) /\ Is(script, pos[j], {"if"}) /\ Height(script, pos[j], p - 1) = m - j + 1
    BY DEF Nests
  <2>2. pos[j] \in Nat /\ pos[j] <= p /\ pos[j] \in 1..((p + 1) - 1)
    BY <2>1, <1>1
  <2>3. Height(script, pos[j], p) = Height(script, pos[j], p - 1)
            + (IF Is(script, p, {"if"}) THEN 1 ELSE 0) - (IF Is(script, p, {"endif"}) THEN 1 ELSE 0)
    BY <2>2, <1>1, HeightNext
  <2> QED  BY <1>1, <1>2, <2>1, <2>2, <2>3
<1>4. \A j \in 1..(m - 1) : j \in 1..m /\ to[j] = pos[j] /\ m - j = (m - 1) - j + 1
  OBVIOUS
<1>5. BlocksOf(script, p + 1) = {to[j] : j \in 1..(m - 1)}
  <2>1. BlocksOf(script, p) = {pos[j] : j \in 1..m}
    BY DEF Nests
  <2>2. \A j \in 1..m : Height(script, pos[j], p) > 0 <=> j \in 1..(m - 1)
    BY <1>1, <1>3
  <2>3. {o \in BlocksOf(script, p) : Height(script, o, p) > 0} = {pos[j] : j \in 1..(m - 1)}
    BY <1>4, <2>1, <2>2
  <2>4. {to[j] : j \in 1..(m - 1)} = {pos[j] : j \in 1..(m - 1)}
    BY <1>4
  <2> QED  BY <1>2, <2>3, <2>4, BlocksNext
<1>6. \A i \in 1..(m - 1), j \in 1..(m - 1) : i < j => to[i] < to[j]
  BY <1>4 DEF Nests
<1>7. \A j \in 1..(m - 1) : /\ to[j] \in 1..((p + 1) - 1) /\ Is(script, to[j], {"if"})
                            /\ Height(script, to[j], (p + 1) - 1) = (m - 1) - j + 1
  BY <1>3, <1>4
<1> QED  BY <1>5, <1>6, <1>7 DEF Nests

(* The arm the text before the directive p is in is the first that suits;   *)
(* some arm up to it suits.                                                 *)
Good(script, v, o, p) == FirstThatSuits(script, Arms(script, o, p), v)
TookArm(script, v, o, p) == \E a \in Arms(script, o, p) : Suits(script, a, v)

(* The directive p is an arm of the block the directive o begins.           *)
Continues(script, o, p) ==
    Is(script, p, {"elif", "else"}) /\ Open(script, o, p) /\ \A q \in BlocksOf(script, p) : q <= o

LEMMA ArmsNext ==
  ASSUME NEW script \in DirectiveLists, NEW p \in 1..Len(script), NEW o \in 1..(p - 1)
  PROVE  /\ Arms(script, o, p) \subseteq 1..(p - 1)
         /\ Continues(script, o, p) => Arms(script, o, p + 1) = Arms(script, o, p) \cup {p}
         /\ ~Continues(script, o, p) => Arms(script, o, p + 1) = Arms(script, o, p)
<1>1. Len(script) \in Nat /\ p \in Nat /\ (p + 1) - 1 = p
  BY ScriptOf
<1>2. o \in Nat /\ o < p /\ (o + 1)..p = ((o + 1)..(p - 1)) \cup {p}
  BY <1>1
<1> DEFINE P(a) == Is(script, a, {"elif", "else"}) /\ Open(script, o, a) /\ \A q \in BlocksOf(script, a) : q <= o
<1>3. Arms(script, o, p) = {o} \cup {a \in (o + 1)..(p - 1) : P(a)}
  BY DEF Arms
<1>4. Arms(script, o, p + 1) = {o} \cup {a \in (o + 1)..p : P(a)}
  BY <1>1 DEF Arms
<1>5. P(p) <=> Continues(script, o, p)
  BY DEF Continues
<1> HIDE DEF P
<1>6. {a \in (o + 1)..p : P(a)} = {a \in (o + 1)..(p - 1) : P(a)} \cup (IF P(p) THEN {p} ELSE {})
  BY <1>2
<1>7. Arms(script, o, p) \subseteq 1..(p - 1)
  BY <1>1, <1>2, <1>3
<1>8. Arms(script, o, p + 1) = Arms(script, o, p) \cup (IF P(p) THEN {p} ELSE {})
  BY <1>3, <1>4, <1>6
<1> QED  BY <1>5, <1>7, <1>8

LEMMA ArmsOwn ==
  ASSUME NEW script \in DirectiveLists, NEW p \in 1..Len(script)
  PROVE  Arms(script, p, p + 1) = {p}
<1>1. p \in Nat /\ (p + 1) - 1 = p
  BY ScriptOf
<1>2. (p + 1)..p = {}
  BY <1>1
<1>3. Arms(script, p, p + 1) = {p} \cup {a \in (p + 1)..p : Is(script, a, {"elif", "else"}) /\ Open(script, p, a)
                                                             /\ \A q \in BlocksOf(script, a) : q <= p}
  BY <1>1 DEF Arms
<1> QED  BY <1>2, <1>3

(* The newest arm is the first that suits.                                  *)
LEMMA NewestArm ==
  ASSUME NEW script, NEW v, NEW p \in Nat, NEW A, A \subseteq 1..(p - 1)
  PROVE  FirstThatSuits(script, A \cup {p}, v) <=> Suits(script, p, v) /\ \A a \in A : ~Suits(script, a, v)
<1> DEFINE now == CHOOSE a \in A \cup {p} : \A b \in A \cup {p} : b <= a
<1>1. now = p
  <2>1. p \in A \cup {p} /\ \A b \in A \cup {p} : b <= p
    OBVIOUS
  <2>2. now \in A \cup {p} /\ \A b \in A \cup {p} : b <= now
    BY <2>1
  <2> HIDE DEF now
  <2>3. now \in Nat /\ p <= now
    BY <2>2
  <2>4. now <= p
    BY <2>1, <2>2
  <2> QED  BY <2>3, <2>4
<1>2. FirstThatSuits(script, A \cup {p}, v) <=> {a \in A \cup {p} : Suits(script, a, v)} = {now}
  BY DEF FirstThatSuits
<1> HIDE DEF now
<1>3. p \notin A
  OBVIOUS
<1> QED  BY <1>1, <1>2, <1>3

(* What a directive does to the blocks around it.                           *)
LEMMA VerdictKeeps ==
  ASSUME NEW script \in DirectiveLists, NEW p \in 1..Len(script), NEW o \in 1..(p - 1), NEW v,
         ~Is(script, p, {"elif", "else"}) \/ \E q \in BlocksOf(script, p) : ~(q <= o)
  PROVE  /\ Good(script, v, o, p + 1) <=> Good(script, v, o, p)
         /\ TookArm(script, v, o, p + 1) <=> TookArm(script, v, o, p)
<1>1. ~Continues(script, o, p)
  BY DEF Continues
<1>2. Arms(script, o, p + 1) = Arms(script, o, p)
  BY <1>1, ArmsNext
<1> QED  BY <1>2 DEF Good, TookArm

LEMMA VerdictOwn ==
  ASSUME NEW script \in DirectiveLists, NEW p \in 1..Len(script), NEW v
  PROVE  /\ Good(script, v, p, p + 1) <=> Suits(script, p, v)
         /\ TookArm(script, v, p, p + 1) <=> Suits(script, p, v)
<1>1. Arms(script, p, p + 1) = {p} \cup {} /\ p \in Nat
  BY ArmsOwn, ScriptOf
<1>2. FirstThatSuits(script, {} \cup {p}, v) <=> Suits(script, p, v)
  BY <1>1, NewestArm
<1>3. {} \cup {p} = Arms(script, p, p + 1)
  BY <1>1
<1> QED  BY <1>1, <1>2, <1>3 DEF Good, TookArm

LEMMA VerdictArm ==
  ASSUME NEW script \in DirectiveLists, NEW p \in 1..Len(script), NEW o \in 1..(p - 1), NEW v,
         Is(script, p, {"elif", "else"}), o \in BlocksOf(script, p), \A q \in BlocksOf(script, p) : q <= o
  PROVE  /\ Good(script, v, o, p + 1) <=> Suits(script, p, v) /\ ~TookArm(script, v, o, p)
         /\ TookArm(script, v, o, p + 1) <=> Suits(script, p, v) \/ TookArm(script, v, o, p)
<1>1. Open(script, o, p)
  BY DEF BlocksOf
<1>2. Arms(script, o, p + 1) = Arms(script, o, p) \cup {p} /\ Arms(script, o, p) \subseteq 1..(p - 1) /\ p \in Nat
  BY <1>1, ArmsNext, ScriptOf DEF Continues
<1>3. Good(script, v, o, p + 1) <=> Suits(script, p, v) /\ \A a \in Arms(script, o, p) : ~Suits(script, a, v)
  BY <1>2, NewestArm, SMTT(30) DEF Good
<1> QED  BY <1>2, <1>3 DEF TookArm

(* The stack of the scan tells of the blocks around the text.               *)
Frames(script, v, s, pos, m, p) ==
    /\ Len(s.stack) = m
    /\ \A j \in 1..m : s.stack[j].enclosing <=> \A k \in 1..(j - 1) : Good(script, v, pos[k], p)
    /\ \A j \in 1..m : s.stack[j].taken <=> s.stack[j].enclosing /\ TookArm(script, v, pos[j], p)
    /\ s.emits <=> \A k \in 1..m : Good(script, v, pos[k], p)

LEMMA FramesIf ==
  ASSUME NEW script \in DirectiveLists, NEW v, NEW p \in 1..Len(script), NEW m \in Nat, NEW pos \in [1..m -> Nat],
         Nests(script, pos, m, p), Is(script, p, {"if"}),
         NEW s, Frames(script, v, s, pos, m, p),
         NEW to, to = [j \in 1..(m + 1) |-> IF j = m + 1 THEN p ELSE pos[j]],
         NEW t, Len(t.stack) = m + 1, \A j \in 1..m : t.stack[j] = s.stack[j],
         t.stack[m + 1].enclosing <=> s.emits, t.stack[m + 1].taken <=> t.emits,
         t.emits <=> s.emits /\ Suits(script, p, v)
  PROVE  Frames(script, v, t, to, m + 1, p + 1)
<1>1. ASSUME NEW j \in 1..m
      PROVE  /\ to[j] = pos[j] /\ (Good(script, v, to[j], p + 1) <=> Good(script, v, pos[j], p))
             /\ TookArm(script, v, to[j], p + 1) <=> TookArm(script, v, pos[j], p)
  <2>1. to[j] = pos[j] /\ pos[j] \in 1..(p - 1)
    BY DEF Nests
  <2>2. ~Is(script, p, {"elif", "else"})
    BY IsOne
  <2> QED  BY <2>1, <2>2, VerdictKeeps
<1>2. to[m + 1] = p
  OBVIOUS
<1>3. /\ Good(script, v, to[m + 1], p + 1) <=> Suits(script, p, v)
      /\ TookArm(script, v, to[m + 1], p + 1) <=> Suits(script, p, v)
  BY <1>2, VerdictOwn
<1>4. \A j \in 1..(m + 1) : j = m + 1 \/ j \in 1..m
  OBVIOUS
<1>5. s.emits <=> \A k \in 1..m : Good(script, v, pos[k], p)
  BY DEF Frames
<1>6. t.emits <=> \A k \in 1..(m + 1) : Good(script, v, to[k], p + 1)
  <2>1. (\A k \in 1..m : Good(script, v, pos[k], p)) <=> \A k \in 1..m : Good(script, v, to[k], p + 1)
    BY <1>1
  <2>2. (\A k \in 1..(m + 1) : Good(script, v, to[k], p + 1))
           <=> Good(script, v, to[m + 1], p + 1) /\ \A k \in 1..m : Good(script, v, to[k], p + 1)
    <3>1. m + 1 \in 1..(m + 1) /\ \A k \in 1..m : k \in 1..(m + 1)
      OBVIOUS
    <3> QED  BY <1>4, <3>1
  <2> QED  BY <1>3, <1>5, <2>1, <2>2
<1>7. ASSUME NEW j \in 1..(m + 1)
      PROVE  /\ t.stack[j].enclosing <=> \A k \in 1..(j - 1) : Good(script, v, to[k], p + 1)
             /\ t.stack[j].taken <=> t.stack[j].enclosing /\ TookArm(script, v, to[j], p + 1)
  <2>1. CASE j = m + 1
    <3>1. j - 1 = m
      BY <2>1
    <3>2. t.stack[j].enclosing <=> \A k \in 1..(j - 1) : Good(script, v, to[k], p + 1)
      BY <1>1, <1>5, <2>1, <3>1
    <3> QED  BY <1>3, <2>1, <3>2
  <2>2. CASE j # m + 1
    <3>1. j \in 1..m /\ \A k \in 1..(j - 1) : k \in 1..m
      BY <2>2
    <3>2. /\ s.stack[j].enclosing <=> \A k \in 1..(j - 1) : Good(script, v, pos[k], p)
          /\ s.stack[j].taken <=> s.stack[j].enclosing /\ TookArm(script, v, pos[j], p)
      BY <3>1 DEF Frames
    <3> QED  BY <1>1, <3>1, <3>2
  <2> QED  BY <2>1, <2>2
<1> QED  BY <1>6, <1>7 DEF Frames

LEMMA FramesArm ==
  ASSUME NEW script \in DirectiveLists, NEW v, NEW p \in 1..Len(script), NEW m \in Nat, NEW pos \in [1..m -> Nat],
         Nests(script, pos, m, p), Is(script, p, {"elif", "else"}), m # 0,
         NEW s, Frames(script, v, s, pos, m, p),
         NEW t, Len(t.stack) = m, \A j \in 1..(m - 1) : t.stack[j] = s.stack[j],
         t.stack[m].enclosing <=> s.stack[m].enclosing, t.stack[m].taken <=> s.stack[m].taken \/ t.emits,
         t.emits <=> s.stack[m].enclosing /\ ~s.stack[m].taken /\ Suits(script, p, v)
  PROVE  Frames(script, v, t, pos, m, p + 1)
<1>1. ASSUME NEW j \in 1..m
      PROVE  pos[j] \in 1..(p - 1) /\ pos[j] \in BlocksOf(script, p)
  BY DEF Nests
<1>2. m \in 1..m
  OBVIOUS
<1>3. ASSUME NEW j \in 1..(m - 1)
      PROVE  /\ j \in 1..m /\ (Good(script, v, pos[j], p + 1) <=> Good(script, v, pos[j], p))
             /\ TookArm(script, v, pos[j], p + 1) <=> TookArm(script, v, pos[j], p)
  <2>1. j \in 1..m /\ j < m
    OBVIOUS
  <2>2. pos[j] < pos[m]
    BY <1>2, <2>1 DEF Nests
  <2>3. pos[j] \in 1..(p - 1) /\ pos[m] \in BlocksOf(script, p) /\ ~(pos[m] <= pos[j])
    BY <1>1, <1>2, <2>1, <2>2, SMTT(30)
  <2> QED  BY <2>1, <2>3, VerdictKeeps
<1>4. /\ Good(script, v, pos[m], p + 1) <=> Suits(script, p, v) /\ ~TookArm(script, v, pos[m], p)
      /\ TookArm(script, v, pos[m], p + 1) <=> Suits(script, p, v) \/ TookArm(script, v, pos[m], p)
  <2>1. \A q \in BlocksOf(script, p) : q <= pos[m]
    <3>1. ASSUME NEW j \in 1..m PROVE pos[j] <= pos[m]
      <4>1. CASE j = m
        BY <4>1
      <4>2. CASE j # m
        <5>1. pos[j] < pos[m]
          BY <1>2, <4>2 DEF Nests
        <5> QED  BY <5>1
      <4> QED  BY <4>1, <4>2
    <3> QED  BY <3>1 DEF Nests
  <2> QED  BY <1>1, <1>2, <2>1, VerdictArm
<1>5. /\ s.stack[m].enclosing <=> \A k \in 1..(m - 1) : Good(script, v, pos[k], p)
      /\ s.stack[m].taken <=> s.stack[m].enclosing /\ TookArm(script, v, pos[m], p)
  BY <1>2 DEF Frames
<1>6. t.emits <=> \A k \in 1..m : Good(script, v, pos[k], p + 1)
  <2>1. (\A k \in 1..(m - 1) : Good(script, v, pos[k], p))
           <=> \A k \in 1..(m - 1) : Good(script, v, pos[k], p + 1)
    BY <1>3
  <2>2. (\A k \in 1..m : Good(script, v, pos[k], p + 1))
           <=> Good(script, v, pos[m], p + 1) /\ \A k \in 1..(m - 1) : Good(script, v, pos[k], p + 1)
    <3>1. \A k \in 1..m : k = m \/ k \in 1..(m - 1)
      OBVIOUS
    <3> QED  BY <1>2, <1>3, <3>1
  <2> QED  BY <1>4, <1>5, <2>1, <2>2
<1>7. ASSUME NEW j \in 1..m
      PROVE  /\ t.stack[j].enclosing <=> \A k \in 1..(j - 1) : Good(script, v, pos[k], p + 1)
             /\ t.stack[j].taken <=> t.stack[j].enclosing /\ TookArm(script, v, pos[j], p + 1)
  <2>1. CASE j = m
    <3>1. t.stack[j].enclosing <=> \A k \in 1..(j - 1) : Good(script, v, pos[k], p + 1)
      BY <1>3, <1>5, <2>1
    <3> QED  BY <1>4, <1>5, <2>1, <3>1
  <2>2. CASE j # m
    <3>1. j \in 1..(m - 1) /\ \A k \in 1..(j - 1) : k \in 1..(m - 1)
      BY <2>2
    <3>2. /\ s.stack[j].enclosing <=> \A k \in 1..(j - 1) : Good(script, v, pos[k], p)
          /\ s.stack[j].taken <=> s.stack[j].enclosing /\ TookArm(script, v, pos[j], p)
      BY DEF Frames
    <3> QED  BY <1>3, <3>1, <3>2
  <2> QED  BY <2>1, <2>2
<1> QED  BY <1>6, <1>7 DEF Frames

LEMMA FramesEnd ==
  ASSUME NEW script \in DirectiveLists, NEW v, NEW p \in 1..Len(script), NEW m \in Nat, NEW pos \in [1..m -> Nat],
         Nests(script, pos, m, p), Is(script, p, {"endif"}), m # 0,
         NEW s, Frames(script, v, s, pos, m, p),
         NEW to, to = [j \in 1..(m - 1) |-> pos[j]],
         NEW t, Len(t.stack) = m - 1, \A j \in 1..(m - 1) : t.stack[j] = s.stack[j],
         t.emits <=> s.stack[m].enclosing
  PROVE  Frames(script, v, t, to, m - 1, p + 1)
<1>1. ASSUME NEW j \in 1..(m - 1)
      PROVE  /\ j \in 1..m /\ to[j] = pos[j] /\ (Good(script, v, to[j], p + 1) <=> Good(script, v, pos[j], p))
             /\ TookArm(script, v, to[j], p + 1) <=> TookArm(script, v, pos[j], p)
  <2>1. j \in 1..m /\ to[j] = pos[j]
    OBVIOUS
  <2>2. pos[j] \in 1..(p - 1)
    BY <2>1 DEF Nests
  <2>3. ~Is(script, p, {"elif", "else"})
    BY IsOne
  <2> QED  BY <2>1, <2>2, <2>3, VerdictKeeps
<1>2. t.emits <=> \A k \in 1..(m - 1) : Good(script, v, to[k], p + 1)
  <2>1. m \in 1..m
    OBVIOUS
  <2>2. s.stack[m].enclosing <=> \A k \in 1..(m - 1) : Good(script, v, pos[k], p)
    BY <2>1 DEF Frames
  <2> QED  BY <1>1, <2>2
<1>3. ASSUME NEW j \in 1..(m - 1)
      PROVE  /\ t.stack[j].enclosing <=> \A k \in 1..(j - 1) : Good(script, v, to[k], p + 1)
             /\ t.stack[j].taken <=> t.stack[j].enclosing /\ TookArm(script, v, to[j], p + 1)
  <2>1. \A k \in 1..(j - 1) : k \in 1..(m - 1)
    OBVIOUS
  <2>2. /\ s.stack[j].enclosing <=> \A k \in 1..(j - 1) : Good(script, v, pos[k], p)
        /\ s.stack[j].taken <=> s.stack[j].enclosing /\ TookArm(script, v, pos[j], p)
    BY <1>1 DEF Frames
  <2> QED  BY <1>1, <2>1, <2>2
<1> QED  BY <1>2, <1>3 DEF Frames

Frame == [enclosing : BOOLEAN, taken : BOOLEAN]
Scans == [kept : SUBSET Nat, emits : BOOLEAN, stack : Seq(Frame), thrown : BOOLEAN]

LEMMA ScanOf ==
  ASSUME NEW s \in Scans
  PROVE  /\ s.kept \subseteq Nat /\ s.emits \in BOOLEAN /\ s.stack \in Seq(Frame) /\ s.thrown \in BOOLEAN
         /\ Len(s.stack) \in Nat /\ (s.stack = <<>> <=> Len(s.stack) = 0)
         /\ \A j \in 1..Len(s.stack) : /\ s.stack[j] \in Frame
                                       /\ s.stack[j].enclosing \in BOOLEAN /\ s.stack[j].taken \in BOOLEAN
<1>1. s.kept \subseteq Nat /\ s.emits \in BOOLEAN /\ s.stack \in Seq(Frame) /\ s.thrown \in BOOLEAN
  BY DEF Scans
<1>2. Len(s.stack) \in Nat /\ (s.stack = <<>> <=> Len(s.stack) = 0)
  BY <1>1, EmptySeq, LenProperties
<1>3. \A j \in 1..Len(s.stack) : s.stack[j] \in Frame
  BY <1>1
<1> QED  BY <1>1, <1>2, <1>3 DEF Frame

(* What is kept after a directive: the text before it, if it was emitted.   *)
TextPassed(s, i) == IF s.emits THEN s.kept \cup {i} ELSE s.kept

LEMMA TextPassedIs ==
  ASSUME NEW s \in Scans, NEW i \in Nat
  PROVE  LET passed == IF s.emits THEN [s EXCEPT !.kept = @ \cup {i}] ELSE s
         IN  passed \in Scans /\ passed.kept = TextPassed(s, i) /\ passed.emits = s.emits
             /\ passed.stack = s.stack /\ passed.thrown = s.thrown
BY DEF Scans, TextPassed

LEMMA PastThrown ==
  ASSUME NEW script \in DirectiveLists, NEW v \in Int, NEW i \in 1..Len(script), NEW s \in Scans,
         s.thrown \/ (~Is(script, i, {"if"}) /\ s.stack = <<>>)
  PROVE  PastDirective(script, v, s, i) \in Scans /\ PastDirective(script, v, s, i).thrown
<1>1. PastDirective(script, v, s, i) = [s EXCEPT !.thrown = TRUE]
  BY DEF PastDirective, Is
<1>2. [s EXCEPT !.thrown = TRUE] \in Scans /\ [s EXCEPT !.thrown = TRUE].thrown
  BY DEF Scans
<1> QED  BY <1>1, <1>2

(* What a directive leaves of the scan, m blocks deep.                      *)
AfterIf(script, v, s, t, m, i) ==
    /\ ~t.thrown /\ t.kept = TextPassed(s, i)
    /\ t.emits <=> s.emits /\ Suits(script, i, v)
    /\ Len(t.stack) = m + 1 /\ \A j \in 1..m : t.stack[j] = s.stack[j]
    /\ t.stack[m + 1].enclosing <=> s.emits
    /\ t.stack[m + 1].taken <=> t.emits
AfterArm(script, v, s, t, m, i) ==
    /\ ~t.thrown /\ t.kept = TextPassed(s, i)
    /\ t.emits <=> s.stack[m].enclosing /\ ~s.stack[m].taken /\ Suits(script, i, v)
    /\ Len(t.stack) = m /\ \A j \in 1..(m - 1) : t.stack[j] = s.stack[j]
    /\ t.stack[m].enclosing <=> s.stack[m].enclosing
    /\ t.stack[m].taken <=> s.stack[m].taken \/ t.emits

LEMMA PastIf ==
  ASSUME NEW script \in DirectiveLists, NEW v \in Int, NEW i \in 1..Len(script), NEW s \in Scans,
         ~s.thrown, Is(script, i, {"if"}), NEW m \in Nat, m = Len(s.stack), NEW t, t = PastDirective(script, v, s, i)
  PROVE  t \in Scans /\ AfterIf(script, v, s, t, m, i)
<1> DEFINE d == script[i]
           holds == d.is = "else" \/ v >= d.least
           passed == IF s.emits THEN [s EXCEPT !.kept = @ \cup {i}] ELSE s
           frame == Last(s.stack)
           take == IF d.is = "if" THEN s.emits /\ holds
                   ELSE frame.enclosing /\ ~frame.taken /\ holds
           top == [enclosing |-> s.emits, taken |-> take]
<1>1. d.is = "if"
  BY DEF Is
<1>2. t = [passed EXCEPT !.emits = take, !.stack = Append(@, top)]
  BY <1>1 DEF PastDirective
<1>3. take <=> s.emits /\ Suits(script, i, v)
  BY <1>1 DEF Suits, Is
<1>4. take \in BOOLEAN
  BY <1>1, <1>3
<1>5. passed \in Scans /\ passed.kept = TextPassed(s, i) /\ passed.stack = s.stack /\ passed.thrown = s.thrown
  BY TextPassedIs, ScriptOf
<1> HIDE DEF take, passed
<1>6. top \in Frame /\ (top.enclosing <=> s.emits) /\ (top.taken <=> take)
  BY <1>4, ScanOf DEF Frame
<1> HIDE DEF top
<1>7. /\ Append(s.stack, top) \in Seq(Frame) /\ Len(Append(s.stack, top)) = Len(s.stack) + 1
      /\ Append(s.stack, top)[Len(s.stack) + 1] = top
      /\ \A j \in 1..Len(s.stack) : Append(s.stack, top)[j] = s.stack[j]
  BY <1>6, ScanOf, AppendProperties
<1>8. t.stack = Append(s.stack, top) /\ t.kept = TextPassed(s, i) /\ t.thrown = s.thrown /\ (t.emits <=> take)
  BY <1>2, <1>5 DEF Scans
<1>9. t \in Scans
  BY <1>2, <1>4, <1>5, <1>7 DEF Scans
<1> QED  BY <1>3, <1>6, <1>7, <1>8, <1>9, ScanOf DEF AfterIf

LEMMA PastArm ==
  ASSUME NEW script \in DirectiveLists, NEW v \in Int, NEW i \in 1..Len(script), NEW s \in Scans,
         ~s.thrown, Is(script, i, {"elif", "else"}), NEW m \in Nat, m = Len(s.stack), m # 0,
         NEW t, t = PastDirective(script, v, s, i)
  PROVE  t \in Scans /\ AfterArm(script, v, s, t, m, i)
<1> DEFINE d == script[i]
           holds == d.is = "else" \/ v >= d.least
           passed == IF s.emits THEN [s EXCEPT !.kept = @ \cup {i}] ELSE s
           frame == Last(s.stack)
           take == IF d.is = "if" THEN s.emits /\ holds
                   ELSE frame.enclosing /\ ~frame.taken /\ holds
<1>1. d.is # "if" /\ d.is # "endif"
  BY DEF Is
<1>2. s.stack # <<>>
  BY ScanOf
<1>3. t = [passed EXCEPT !.emits = take, !.stack[Len(s.stack)].taken = @ \/ take]
  BY <1>1, <1>2 DEF PastDirective
<1>4. frame = s.stack[m] /\ m \in 1..m
  BY DEF Last
<1>5. take <=> s.stack[m].enclosing /\ ~s.stack[m].taken /\ Suits(script, i, v)
  BY <1>1, <1>4 DEF Suits, Is
<1>6. take \in BOOLEAN
  BY <1>1
<1>7. passed \in Scans /\ passed.kept = TextPassed(s, i) /\ passed.stack = s.stack /\ passed.thrown = s.thrown
  BY TextPassedIs, ScriptOf
<1> HIDE DEF take, passed, frame
<1> DEFINE top == [s.stack[m] EXCEPT !.taken = @ \/ take]
           stack == [s.stack EXCEPT ![m] = top]
<1>8. s.stack[m] \in Frame
  BY <1>4, ScanOf
<1>9. top \in Frame /\ (top.enclosing <=> s.stack[m].enclosing) /\ (top.taken <=> s.stack[m].taken \/ take)
  BY <1>6, <1>8, Zenon DEF Frame
<1>10. t = [passed EXCEPT !.emits = take, !.stack = stack]
  BY <1>3, <1>7
<1> HIDE DEF top
<1>11. stack \in Seq(Frame) /\ Len(stack) = m /\ stack[m] = top /\ \A j \in 1..(m - 1) : stack[j] = s.stack[j]
  BY <1>4, <1>9, ScanOf, ExceptSeq
<1> HIDE DEF stack
<1>12. t.stack = stack /\ t.kept = TextPassed(s, i) /\ t.thrown = s.thrown /\ (t.emits <=> take)
  BY <1>7, <1>10 DEF Scans
<1>13. t \in Scans
  BY <1>6, <1>7, <1>10, <1>11 DEF Scans
<1> QED  BY <1>5, <1>9, <1>11, <1>12, <1>13 DEF AfterArm

LEMMA PastEnd ==
  ASSUME NEW script \in DirectiveLists, NEW v \in Int, NEW i \in 1..Len(script), NEW s \in Scans,
         ~s.thrown, Is(script, i, {"endif"}), NEW m \in Nat, m = Len(s.stack), m # 0,
         NEW t, t = PastDirective(script, v, s, i)
  PROVE  /\ t \in Scans /\ ~t.thrown /\ t.kept = TextPassed(s, i)
         /\ t.emits <=> s.stack[m].enclosing
         /\ Len(t.stack) = m - 1 /\ \A j \in 1..(m - 1) : t.stack[j] = s.stack[j]
<1> DEFINE d == script[i]
           passed == IF s.emits THEN [s EXCEPT !.kept = @ \cup {i}] ELSE s
           frame == Last(s.stack)
<1>1. d.is # "if" /\ d.is = "endif"
  BY DEF Is
<1>2. s.stack # <<>>
  BY ScanOf
<1>3. t = [passed EXCEPT !.emits = frame.enclosing, !.stack = Front(@)]
  BY <1>1, <1>2 DEF PastDirective
<1>4. frame = s.stack[m] /\ m \in 1..m
  BY DEF Last
<1>5. passed \in Scans /\ passed.kept = TextPassed(s, i) /\ passed.stack = s.stack /\ passed.thrown = s.thrown
  BY TextPassedIs, ScriptOf
<1> HIDE DEF passed, frame
<1> DEFINE stack == Front(s.stack)
<1>6. stack \in Seq(Frame) /\ Len(stack) = m - 1 /\ \A j \in 1..(m - 1) : stack[j] = s.stack[j]
  BY <1>2, ScanOf, SubSeqProperties DEF Front
<1>7. t = [passed EXCEPT !.emits = s.stack[m].enclosing, !.stack = stack]
  BY <1>3, <1>4, <1>5
<1> HIDE DEF stack
<1>8. t.stack = stack /\ t.kept = TextPassed(s, i) /\ t.thrown = s.thrown /\ t.emits = s.stack[m].enclosing
  BY <1>5, <1>7 DEF Scans
<1>9. t \in Scans
  <2>1. s.stack[m].enclosing \in BOOLEAN
    BY <1>4, ScanOf
  <2> QED  BY <1>5, <1>6, <1>7, <2>1 DEF Scans
<1> QED  BY <1>6, <1>8, <1>9

(* What the scan has kept is what is meant, and every directive that is not *)
(* the first of a block is in one.                                          *)
Meant(script, v, p) == \A o \in BlocksOf(script, p) : Good(script, v, o, p)
KeptAsMeant(script, v, s, p) ==
    /\ s.kept = {i \in 1..(p - 1) : Meant(script, v, i)}
    /\ \A i \in 1..(p - 1) : Is(script, i, {"if"}) \/ BlocksOf(script, i) # {}

FitsWith(script, v, s, p, pos, m) ==
    Nests(script, pos, m, p) /\ Frames(script, v, s, pos, m, p) /\ KeptAsMeant(script, v, s, p)
Fits(script, v, s, p) == \E m \in Nat : \E pos \in [1..m -> Nat] : FitsWith(script, v, s, p, pos, m)

LEMMA KeptNext ==
  ASSUME NEW script \in DirectiveLists, NEW v, NEW p \in 1..Len(script), NEW m \in Nat, NEW pos \in [1..m -> Nat],
         NEW s \in Scans, FitsWith(script, v, s, p, pos, m), Is(script, p, {"if"}) \/ m # 0,
         NEW t, t.kept = TextPassed(s, p)
  PROVE  KeptAsMeant(script, v, t, p + 1)
<1>1. p \in Nat /\ (p + 1) - 1 = p
  BY ScriptOf
<1>2. BlocksOf(script, p) = {pos[j] : j \in 1..m}
  BY DEF FitsWith, Nests
<1>3. s.emits <=> Meant(script, v, p)
  BY <1>2 DEF FitsWith, Frames, Meant
<1>4. s.kept = {i \in 1..(p - 1) : Meant(script, v, i)}
  BY DEF FitsWith, KeptAsMeant
<1>5. 1..p = (1..(p - 1)) \cup {p}
  BY <1>1
<1>6. t.kept = {i \in 1..p : Meant(script, v, i)}
  <2>1. CASE s.emits
    BY <1>3, <1>4, <1>5, <2>1 DEF TextPassed
  <2>2. CASE ~s.emits
    BY <1>3, <1>4, <1>5, <2>2 DEF TextPassed
  <2> QED  BY <2>1, <2>2
<1>7. Is(script, p, {"if"}) \/ BlocksOf(script, p) # {}
  <2>1. CASE m # 0
    <3>1. 1 \in 1..m
      BY <2>1
    <3> QED  BY <1>2, <3>1
  <2> QED  BY <2>1
<1>8. \A i \in 1..p : Is(script, i, {"if"}) \/ BlocksOf(script, i) # {}
  BY <1>5, <1>7 DEF FitsWith, KeptAsMeant
<1> QED  BY <1>1, <1>6, <1>8 DEF KeptAsMeant

(* One directive more.                                                      *)
LEMMA FitsNext ==
  ASSUME NEW script \in DirectiveLists, NEW v \in Int, NEW p \in 1..Len(script),
         NEW s \in Scans, s.thrown \/ Fits(script, v, s, p),
         NEW t, t = PastDirective(script, v, s, p)
  PROVE  t \in Scans /\ (t.thrown \/ Fits(script, v, t, p + 1))
<1>1. CASE s.thrown \/ (~Is(script, p, {"if"}) /\ s.stack = <<>>)
  BY <1>1, PastThrown
<1>2. CASE ~s.thrown /\ (Is(script, p, {"if"}) \/ s.stack # <<>>)
  <2>0. PICK m \in Nat : \E pos \in [1..m -> Nat] : FitsWith(script, v, s, p, pos, m)
    BY <1>2 DEF Fits
  <2>1. PICK pos \in [1..m -> Nat] : FitsWith(script, v, s, p, pos, m)
    BY <2>0
  <2>2. Nests(script, pos, m, p) /\ Frames(script, v, s, pos, m, p)
    BY <2>1 DEF FitsWith
  <2>3. m = Len(s.stack)
    BY <2>2 DEF Frames
  <2>4. s.stack # <<>> <=> m # 0
    BY <2>3, ScanOf
  <2>5. CASE Is(script, p, {"if"})
    <3> DEFINE to == [j \in 1..(m + 1) |-> IF j = m + 1 THEN p ELSE pos[j]]
    <3>1. to \in [1..(m + 1) -> Nat] /\ m + 1 \in Nat
      <4>1. p \in Nat
        BY ScriptOf
      <4> QED  BY <4>1
    <3>2. Nests(script, to, m + 1, p + 1)
      BY <2>2, <2>5, NestsIf
    <3>3. t \in Scans /\ AfterIf(script, v, s, t, m, p)
      BY <1>2, <2>3, <2>5, PastIf
    <3>4. Frames(script, v, t, to, m + 1, p + 1)
      BY <2>2, <2>5, <3>3, FramesIf, ZenonT(60) DEF AfterIf
    <3>5. KeptAsMeant(script, v, t, p + 1)
      BY <2>1, <2>5, <3>3, KeptNext DEF AfterIf
    <3> HIDE DEF to
    <3>6. FitsWith(script, v, t, p + 1, to, m + 1)
      BY <3>2, <3>4, <3>5 DEF FitsWith
    <3> QED  BY <3>1, <3>3, <3>6 DEF Fits
  <2>6. CASE Is(script, p, {"elif", "else"})
    <3>1. m # 0
      BY <1>2, <2>4, <2>6, IsOne
    <3>2. Nests(script, pos, m, p + 1)
      BY <2>2, <2>6, NestsArm
    <3>3. t \in Scans /\ AfterArm(script, v, s, t, m, p)
      BY <1>2, <2>3, <2>6, <3>1, PastArm
    <3>4. Frames(script, v, t, pos, m, p + 1)
      BY <2>2, <2>6, <3>1, <3>3, FramesArm, ZenonT(60) DEF AfterArm
    <3>5. KeptAsMeant(script, v, t, p + 1)
      BY <2>1, <3>1, <3>3, KeptNext DEF AfterArm
    <3>6. FitsWith(script, v, t, p + 1, pos, m)
      BY <3>2, <3>4, <3>5 DEF FitsWith
    <3> QED  BY <3>3, <3>6 DEF Fits
  <2>7. CASE Is(script, p, {"endif"})
    <3> DEFINE to == [j \in 1..(m - 1) |-> pos[j]]
    <3>1. m # 0
      BY <1>2, <2>4, <2>7, IsOne
    <3>2. to \in [1..(m - 1) -> Nat] /\ m - 1 \in Nat
      BY <3>1
    <3>3. Nests(script, to, m - 1, p + 1)
      BY <2>2, <2>7, <3>1, NestsEnd
    <3>4. /\ t \in Scans /\ ~t.thrown /\ t.kept = TextPassed(s, p)
          /\ t.emits <=> s.stack[m].enclosing
          /\ Len(t.stack) = m - 1 /\ \A j \in 1..(m - 1) : t.stack[j] = s.stack[j]
      BY <1>2, <2>3, <2>7, <3>1, PastEnd
    <3>5. Frames(script, v, t, to, m - 1, p + 1)
      BY <2>2, <2>7, <3>1, <3>4, FramesEnd
    <3>6. KeptAsMeant(script, v, t, p + 1)
      BY <2>1, <3>1, <3>4, KeptNext
    <3> HIDE DEF to
    <3>7. FitsWith(script, v, t, p + 1, to, m - 1)
      BY <3>3, <3>5, <3>6 DEF FitsWith
    <3> QED  BY <3>2, <3>4, <3>7 DEF Fits
  <2> QED  BY <2>5, <2>6, <2>7, IsOne
<1> QED  BY <1>1, <1>2

(* Before the first directive.                                              *)
LEMMA FitsFirst ==
  ASSUME NEW script \in DirectiveLists, NEW v,
         NEW s, s = [kept |-> {}, emits |-> TRUE, stack |-> <<>>, thrown |-> FALSE]
  PROVE  s \in Scans /\ Fits(script, v, s, 1)
<1> DEFINE pos == [j \in 1..0 |-> 0]
<1>1. s.kept = {} /\ s.emits /\ s.stack = <<>> /\ <<>> \in Seq(Frame) /\ s.emits \in BOOLEAN /\ s.thrown \in BOOLEAN
  BY EmptySeq
<1>2. s \in Scans
  BY <1>1 DEF Scans
<1>3. 1..0 = {} /\ 1..(1 - 1) = {} /\ pos \in [1..0 -> Nat]
  OBVIOUS
<1>4. BlocksOf(script, 1) = {}
  <2>1. Len(script) \in Nat
    BY ScriptOf
  <2>2. ASSUME NEW o \in 1..Len(script) PROVE ~Open(script, o, 1)
    BY <2>1 DEF Open
  <2> QED  BY <2>2 DEF BlocksOf
<1>5. Len(s.stack) = 0
  BY <1>1, EmptySeq
<1> HIDE DEF pos
<1>6. {pos[j] : j \in 1..0} = {}
  BY <1>3
<1>7. Nests(script, pos, 0, 1)
  BY <1>3, <1>4, <1>6 DEF Nests
<1>8. Frames(script, v, s, pos, 0, 1)
  BY <1>1, <1>3, <1>5 DEF Frames
<1>9. KeptAsMeant(script, v, s, 1)
  BY <1>1, <1>3 DEF KeptAsMeant
<1>10. FitsWith(script, v, s, 1, pos, 0)
  BY <1>7, <1>8, <1>9 DEF FitsWith
<1> QED  BY <1>2, <1>3, <1>10 DEF Fits

(* At the end, outside every block, what is kept is what is meant.          *)
LEMMA FitsLast ==
  ASSUME NEW script \in DirectiveLists, NEW v, NEW s \in Scans, Fits(script, v, s, Len(script) + 1), s.stack = <<>>
  PROVE  Balanced(script) /\ s.kept \cup {Len(script) + 1} = MeantFor(script, v)
<1>1. PICK n \in Nat : n = Len(script)
  BY ScriptOf
<1>0. PICK m \in Nat : \E pos \in [1..m -> Nat] : FitsWith(script, v, s, n + 1, pos, m)
  BY <1>1 DEF Fits
<1>2. PICK pos \in [1..m -> Nat] : FitsWith(script, v, s, n + 1, pos, m)
  BY <1>0
<1>3. m = 0
  BY <1>2, ScanOf DEF FitsWith, Frames
<1>4. BlocksOf(script, n + 1) = {}
  <2>1. BlocksOf(script, n + 1) = {pos[j] : j \in 1..m}
    BY <1>2 DEF FitsWith, Nests
  <2> QED  BY <1>3, <2>1
<1>5. KeptAsMeant(script, v, s, n + 1) /\ (n + 1) - 1 = n
  BY <1>2 DEF FitsWith
<1>6. Balanced(script)
  <2>1. DOMAIN script = 1..n
    BY <1>1 DEF DirectiveLists
  <2>2. BlocksOf(script, Len(script) + 1) = {}
    BY <1>1, <1>4
  <2>3. \A i \in DOMAIN script : Is(script, i, {"if"}) \/ BlocksOf(script, i) # {}
    BY <1>5, <2>1 DEF KeptAsMeant
  <2> QED  BY <2>2, <2>3 DEF Balanced
<1>7. MeantFor(script, v) = {p \in 1..(n + 1) : Meant(script, v, p)}
  BY <1>1 DEF MeantFor, Meant, Good
<1>8. Meant(script, v, n + 1)
  BY <1>4 DEF Meant
<1>9. s.kept = {i \in 1..n : Meant(script, v, i)}
  BY <1>5 DEF KeptAsMeant
<1>10. 1..(n + 1) = (1..n) \cup {n + 1}
  OBVIOUS
<1> QED  BY <1>1, <1>6, <1>7, <1>8, <1>9, <1>10

(* A script that is cut without an error is cut as its directives mean.     *)
LEMMA CutIs ==
  ASSUME NEW script \in DirectiveLists, NEW v \in Int, NEW c, c = Cut(script, v), ~c.thrown
  PROVE  Balanced(script) /\ c.kept = MeantFor(script, v)
<1> DEFINE base == [kept |-> {}, emits |-> TRUE, stack |-> <<>>, thrown |-> FALSE]
           Cuts(h) == h = [i \in 0..Len(script) |-> IF i = 0 THEN base ELSE PastDirective(script, v, h[i - 1], i)]
           next == [k \in 1..Len(script) |-> [s \in Scans |-> PastDirective(script, v, s, k)]]
           good == [k \in 0..Len(script) |-> {s \in Scans : s.thrown \/ Fits(script, v, s, k + 1)}]
           r == CHOOSE h : Cuts(h)
           end == r[Len(script)]
<1>1. c = [kept |-> end.kept \cup {Len(script) + 1}, thrown |-> end.thrown \/ end.stack # <<>>]
  BY DEF Cut
<1>2. Len(script) \in Nat
  BY ScriptOf
<1>3. base \in good[0]
  <2>1. base \in Scans /\ Fits(script, v, base, 1)
    BY FitsFirst
  <2> HIDE DEF base
  <2>2. 0 \in 0..Len(script) /\ 0 + 1 = 1
    BY <1>2
  <2> QED  BY <2>1, <2>2
<1> HIDE DEF base
<1>4. \A k \in 1..Len(script) : \A s \in Scans : next[k][s] = PastDirective(script, v, s, k)
  OBVIOUS
<1>5. \A k \in 0..Len(script) : good[k] = {s \in Scans : s.thrown \/ Fits(script, v, s, k + 1)}
  OBVIOUS
<1>6. \A k \in 1..Len(script) : k \in 0..Len(script) /\ k - 1 \in 0..Len(script) /\ (k - 1) + 1 = k /\ k # 0
  BY <1>2
<1> HIDE DEF next, good
<1>7. \A k \in 1..Len(script) : \A x \in good[k - 1] : next[k][x] \in good[k]
  <2> SUFFICES ASSUME NEW k \in 1..Len(script), NEW x \in good[k - 1] PROVE next[k][x] \in good[k]
    OBVIOUS
  <2>1. x \in Scans /\ (x.thrown \/ Fits(script, v, x, k))
    BY <1>5, <1>6
  <2>2. next[k][x] = PastDirective(script, v, x, k)
    BY <1>4, <2>1
  <2>3. next[k][x] \in Scans /\ (next[k][x].thrown \/ Fits(script, v, next[k][x], k + 1))
    BY <2>1, <2>2, FitsNext
  <2> QED  BY <1>5, <1>6, <2>3
<1>8. /\ \E g : Staged(g, Len(script), base, next) /\ \A k \in 0..Len(script) : g[k] \in good[k]
      /\ \A h : Climbs(h, Len(script), base, next, good) => \A k \in 0..Len(script) : h[k] \in good[k]
  BY <1>2, <1>3, <1>7, StagedRecursion
<1>9. \E g : Cuts(g)
  <2>1. PICK g : Staged(g, Len(script), base, next) /\ \A k \in 0..Len(script) : g[k] \in good[k]
    BY <1>8
  <2>2. \A k \in 0..Len(script) : (IF k = 0 THEN base ELSE next[k][g[k - 1]])
                                    = (IF k = 0 THEN base ELSE PastDirective(script, v, g[k - 1], k))
    <3> SUFFICES ASSUME NEW k \in 0..Len(script), k # 0
                 PROVE  next[k][g[k - 1]] = PastDirective(script, v, g[k - 1], k)
      OBVIOUS
    <3>1. k \in 1..Len(script) /\ k - 1 \in 0..Len(script)
      BY <1>2
    <3>2. g[k - 1] \in Scans
      BY <1>5, <2>1, <3>1
    <3> QED  BY <1>4, <3>1, <3>2
  <2>3. Cuts(g)
    BY <2>1, <2>2 DEF Staged
  <2> QED  BY <2>3
<1>10. Cuts(r)
  BY <1>9
<1> HIDE DEF r
<1>11. r[0] = base /\ \A k \in 1..Len(script) : r[k] = PastDirective(script, v, r[k - 1], k)
  <2>1. \A k \in 0..Len(script) : r[k] = IF k = 0 THEN base ELSE PastDirective(script, v, r[k - 1], k)
    BY <1>10
  <2>2. 0 \in 0..Len(script)
    BY <1>2
  <2> QED  BY <1>6, <2>1, <2>2
<1>12. Climbs(r, Len(script), base, next, good)
  <2>1. ASSUME NEW k \in 1..Len(script), r[k - 1] \in good[k - 1] PROVE r[k] = next[k][r[k - 1]]
    <3>1. r[k - 1] \in Scans
      BY <1>5, <1>6, <2>1
    <3> QED  BY <1>4, <1>11, <3>1
  <2> QED  BY <1>11, <2>1 DEF Climbs
<1>13. end \in Scans /\ (end.thrown \/ Fits(script, v, end, Len(script) + 1))
  <2>1. Len(script) \in 0..Len(script)
    BY <1>2
  <2> QED  BY <1>5, <1>8, <1>12, <2>1
<1> HIDE DEF end
<1>14. ~end.thrown /\ end.stack = <<>>
  <2>1. c.thrown = (end.thrown \/ end.stack # <<>>)
    BY <1>1
  <2> QED  BY <2>1
<1>15. c.kept = end.kept \cup {Len(script) + 1}
  BY <1>1
<1> QED  BY <1>13, <1>14, <1>15, FitsLast

(* A bunch that is kept: all the scripts of its folder, each cut to the      *)
(* parts for its version.                                                    *)
ScriptFile == [from : {"user", "shipped"}, kept : SUBSET Nat]
Bunch == [files : UNION {[names -> ScriptFile] : names \in SUBSET Names}, version : Int]
Versions == {-1, 0, ServerVersion, Newest}
FolderMaps == [Servers -> {None, "own", "default", "scripts"}]
BunchMaps == [Servers -> [Contexts -> Bunch]]

BunchSound(folder, context, b) ==
    /\ b.version \in Versions
    /\ \A name \in DOMAIN b.files : b.files[name].kept \subseteq 1..(Len(body) + 1)
    /\ DOMAIN b.files # {} =>
         /\ DOMAIN b.files = DOMAIN Merged(folder, context)
         /\ \A name \in DOMAIN b.files : b.files[name].from = Merged(folder, context)[name]
         /\ Balanced(body) /\ b.files["table"].kept = MeantFor(body, b.version)
StateSound(f, b) ==
    /\ f \in FolderMaps /\ b \in BunchMaps
    /\ \A id \in Servers : /\ f[id] \in {None, Winner(id, assets)}
                           /\ \A c \in Contexts : BunchSound(f[id], c, b[id][c])
SoundStates == {s \in [folders : FolderMaps, bunches : BunchMaps, thrown : BOOLEAN] : StateSound(s.folders, s.bunches)}

LEMMA SoundOf ==
  ASSUME NEW s
  PROVE  s \in SoundStates <=> /\ s \in [folders : FolderMaps, bunches : BunchMaps, thrown : BOOLEAN]
                               /\ StateSound(s.folders, s.bunches)
BY DEF SoundStates

LEMMA SoundNow ==
  ASSUME StateSound(folders, bunches)
  PROVE  Now \in SoundStates /\ ~Now.thrown
<1>1. folders \in FolderMaps /\ bunches \in BunchMaps
  BY DEF StateSound
<1> QED  BY <1>1 DEF SoundStates, Now

LEMMA BunchOf ==
  ASSUME NEW b \in Bunch
  PROVE  DOMAIN b.files \subseteq Names /\ \A name \in DOMAIN b.files : b.files[name] \in ScriptFile
<1>1. b.files \in UNION {[names -> ScriptFile] : names \in SUBSET Names}
  BY DEF Bunch
<1>2. PICK names \in SUBSET Names : b.files \in [names -> ScriptFile]
  BY <1>1
<1> QED  BY <1>2

LEMMA MergedOf ==
  ASSUME NEW folder, NEW context
  PROVE  /\ folder # "own" => DOMAIN Merged(folder, context) = {}
         /\ folder = "own" => "table" \in DOMAIN Merged(folder, context)
         /\ DOMAIN Merged(folder, context) \subseteq Names
         /\ \A name \in DOMAIN Merged(folder, context) : Merged(folder, context)[name] \in {"user", "shipped"}
<1> DEFINE names == {n \in Names : folder = "own" /\ (n = "version" => context = "root")}
<1>1. Merged(folder, context) = [name \in names |-> IF assets /\ name = "table" THEN "user" ELSE "shipped"]
  BY DEF Merged
<1>2. names \subseteq Names /\ (folder # "own" => names = {}) /\ (folder = "own" => "table" \in names)
  BY DEF Names
<1> HIDE DEF names
<1> QED  BY <1>1, <1>2

LEMMA NothingKept ==
  ASSUME NEW folder, NEW context, NEW b, DOMAIN b.files = {}, b.version \in Versions
  PROVE  BunchSound(folder, context, b)
BY DEF BunchSound

LEMMA NothingSound ==
  ASSUME NEW folder, NEW context
  PROVE  NoScripts \in Bunch /\ BunchSound(folder, context, NoScripts)
<1>1. NoScripts.files = <<>> /\ NoScripts.version = 0 /\ NoScripts = [files |-> <<>>, version |-> 0]
  BY DEF NoScripts
<1>2. DOMAIN <<>> = {} /\ <<>> \in [{} -> ScriptFile]
  OBVIOUS
<1>3. NoScripts \in Bunch
  BY <1>1, <1>2, SMTT(30) DEF Bunch
<1>4. BunchSound(folder, context, NoScripts)
  BY <1>1, <1>2, NothingKept DEF Versions
<1> QED  BY <1>3, <1>4

LEMMA ResolveSound ==
  ASSUME NEW s \in SoundStates, NEW id \in Servers, NEW r, r = ResolveScriptRoot(s, id)
  PROVE  /\ r \in SoundStates /\ r.folders[id] = Winner(id, assets) /\ r.bunches = s.bunches
         /\ r.thrown = s.thrown
<1>1. s \in [folders : FolderMaps, bunches : BunchMaps, thrown : BOOLEAN] /\ StateSound(s.folders, s.bunches)
  BY SoundOf
<1>2. Winner(id, assets) # None /\ Winner(id, assets) \in {"own", "default", "scripts"}
  BY DEF Winner, None
<1>3. CASE s.folders[id] # None
  <2>1. r = s
    BY <1>3 DEF ResolveScriptRoot
  <2>2. s.folders[id] = Winner(id, assets)
    BY <1>1, <1>3 DEF StateSound
  <2> QED  BY <2>1, <2>2
<1>4. CASE s.folders[id] = None
  <2> DEFINE f == [s.folders EXCEPT ![id] = Winner(id, assets)]
  <2>1. r = [s EXCEPT !.folders = f]
    BY <1>4 DEF ResolveScriptRoot
  <2>2. s.folders \in FolderMaps
    BY <1>1
  <2>3. f \in FolderMaps /\ f[id] = Winner(id, assets) /\ \A x \in Servers : x # id => f[x] = s.folders[x]
    BY <1>2, <2>2 DEF FolderMaps
  <2> HIDE DEF f
  <2>4. r.folders = f /\ r.bunches = s.bunches /\ r.thrown = s.thrown
        /\ r \in [folders : FolderMaps, bunches : BunchMaps, thrown : BOOLEAN]
    BY <1>1, <2>1, <2>3
  <2>5. ASSUME NEW x \in Servers
        PROVE  f[x] \in {None, Winner(x, assets)} /\ \A c \in Contexts : BunchSound(f[x], c, s.bunches[x][c])
    <3>1. CASE x # id
      BY <1>1, <2>3, <3>1 DEF StateSound
    <3>2. CASE x = id
      <4>1. ASSUME NEW c \in Contexts PROVE BunchSound(f[id], c, s.bunches[id][c])
        <5>1. BunchSound(None, c, s.bunches[id][c])
          BY <1>1, <1>4 DEF StateSound
        <5>2. DOMAIN Merged(None, c) = {}
          BY MergedOf DEF None
        <5>3. DOMAIN s.bunches[id][c].files = {} /\ s.bunches[id][c].version \in Versions
          BY <5>1, <5>2 DEF BunchSound
        <5> QED  BY <5>3, NothingKept
      <4> QED  BY <2>3, <3>2, <4>1
    <3> QED  BY <3>1, <3>2
  <2>6. StateSound(r.folders, r.bunches)
    BY <1>1, <2>3, <2>4, <2>5 DEF StateSound
  <2> QED  BY <2>3, <2>4, <2>6, SoundOf
<1> QED  BY <1>3, <1>4

(* What is published for one context.                                       *)
LEMMA CutSound ==
  ASSUME body \in DirectiveLists, NEW folder, NEW context, NEW version \in Versions, version \in Int,
         "table" \in DOMAIN Merged(folder, context) => ~Cut(body, version).thrown,
         NEW b, b = [files |-> CutTo(Merged(folder, context), version), version |-> version]
  PROVE  b \in Bunch /\ BunchSound(folder, context, b)
<1> DEFINE files == Merged(folder, context)
           cut == CutTo(files, version)
           kept(name) == IF name = "table" THEN Cut(body, version).kept ELSE {1}
<1>1. cut = [name \in DOMAIN files |-> [from |-> files[name], kept |-> kept(name)]]
  BY DEF CutTo
<1>2. PICK n \in Nat : n = Len(body)
  BY ScriptOf
<1>3. "table" \in DOMAIN files => Balanced(body) /\ Cut(body, version).kept = MeantFor(body, version)
  BY CutIs
<1>4. MeantFor(body, version) \subseteq 1..(Len(body) + 1)
  BY DEF MeantFor
<1>5. DOMAIN files \subseteq Names /\ \A name \in DOMAIN files : files[name] \in {"user", "shipped"}
  BY MergedOf
<1>6. DOMAIN files # {} => "table" \in DOMAIN files
  BY MergedOf
<1>7. ASSUME NEW name \in DOMAIN files PROVE kept(name) \subseteq 1..(Len(body) + 1) /\ kept(name) \subseteq Nat
  <2>1. CASE name = "table"
    <3>1. kept(name) \subseteq 1..(Len(body) + 1)
      BY <1>3, <1>4, <2>1
    <3> QED  BY <1>2, <3>1
  <2>2. CASE name # "table"
    <3>1. kept(name) = {1} /\ 1 \in 1..(n + 1)
      BY <2>2
    <3> QED  BY <1>2, <3>1
  <2> QED  BY <2>1, <2>2
<1>8. kept("table") = Cut(body, version).kept
  OBVIOUS
<1>9. b.files = cut /\ b.version = version /\ b = [files |-> cut, version |-> version]
  OBVIOUS
<1> HIDE DEF files, kept, cut
<1>10. /\ DOMAIN cut = DOMAIN files
       /\ \A name \in DOMAIN files : /\ cut[name] \in ScriptFile /\ cut[name].from = files[name]
                                     /\ cut[name].kept = kept(name)
  BY <1>1, <1>5, <1>7 DEF ScriptFile
<1>11. cut \in [DOMAIN files -> ScriptFile]
  BY <1>1, <1>10
<1>12. b \in Bunch
  BY <1>5, <1>9, <1>11 DEF Bunch
<1>13. BunchSound(folder, context, b)
  <2>1. DOMAIN b.files # {} => "table" \in DOMAIN files
    BY <1>6, <1>9, <1>10
  <2>2. \A name \in DOMAIN b.files : b.files[name].kept \subseteq 1..(Len(body) + 1)
    BY <1>7, <1>9, <1>10
  <2>3. \A name \in DOMAIN b.files : b.files[name].from = files[name]
    BY <1>9, <1>10
  <2>4. DOMAIN b.files # {} => Balanced(body) /\ b.files["table"].kept = MeantFor(body, b.version)
    BY <1>3, <1>8, <1>9, <1>10, <2>1
  <2>5. DOMAIN b.files = DOMAIN files
    BY <1>9, <1>10
  <2> QED  BY <1>9, <2>2, <2>3, <2>4, <2>5 DEF BunchSound, files
<1> QED  BY <1>12, <1>13

LEMMA PublishSound ==
  ASSUME body \in DirectiveLists, NEW s \in SoundStates, NEW id \in Servers, NEW context \in Contexts,
         NEW version \in Versions, version \in Int, NEW readable,
         NEW t, t = Publish(s, id, context, version, readable)
  PROVE  t \in SoundStates
<1> DEFINE root == ResolveScriptRoot(s, id)
           files == Merged(root.folders[id], context)
           b == [files |-> CutTo(files, version), version |-> version]
<1>1. root \in SoundStates
  BY ResolveSound
<1>2. root \in [folders : FolderMaps, bunches : BunchMaps, thrown : BOOLEAN] /\ StateSound(root.folders, root.bunches)
  BY <1>1, SoundOf
<1>3. CASE ~readable \/ ("table" \in DOMAIN files /\ Cut(body, version).thrown)
  <2>1. t = [root EXCEPT !.thrown = TRUE]
    BY <1>3 DEF Publish
  <2> HIDE DEF root
  <2>2. /\ t \in [folders : FolderMaps, bunches : BunchMaps, thrown : BOOLEAN]
        /\ t.folders = root.folders /\ t.bunches = root.bunches
    BY <1>2, <2>1
  <2> QED  BY <1>2, <2>2, SoundOf
<1>4. CASE ~(~readable \/ ("table" \in DOMAIN files /\ Cut(body, version).thrown))
  <2>1. t = [root EXCEPT !.bunches[id][context] = b]
    BY <1>4 DEF Publish
  <2>2. b \in Bunch /\ BunchSound(root.folders[id], context, b)
    <3>1. "table" \in DOMAIN Merged(root.folders[id], context) => ~Cut(body, version).thrown
      BY <1>4
    <3> HIDE DEF root
    <3> QED  BY <3>1, CutSound
  <2> HIDE DEF root, b
  <2> DEFINE bs == [root.bunches EXCEPT ![id][context] = b]
  <2>3. t = [root EXCEPT !.bunches = bs]
    BY <2>1
  <2>4. root.bunches \in [Servers -> [Contexts -> Bunch]]
    BY <1>2 DEF BunchMaps
  <2>5. /\ bs \in BunchMaps /\ bs[id][context] = b
        /\ \A x \in Servers, c \in Contexts : ~(x = id /\ c = context) => bs[x][c] = root.bunches[x][c]
    BY <2>2, <2>4 DEF BunchMaps
  <2> HIDE DEF bs
  <2>6. /\ t \in [folders : FolderMaps, bunches : BunchMaps, thrown : BOOLEAN]
        /\ t.folders = root.folders /\ t.bunches = bs
    BY <1>2, <2>3, <2>5
  <2>7. ASSUME NEW x \in Servers, NEW c \in Contexts PROVE BunchSound(root.folders[x], c, bs[x][c])
    <3>1. CASE x = id /\ c = context
      BY <2>2, <2>5, <3>1
    <3>2. CASE ~(x = id /\ c = context)
      BY <1>2, <2>5, <3>2 DEF StateSound
    <3> QED  BY <3>1, <3>2
  <2>8. StateSound(t.folders, t.bunches)
    BY <1>2, <2>5, <2>6, <2>7 DEF StateSound
  <2> QED  BY <2>6, <2>8, SoundOf
<1> QED  BY <1>3, <1>4

LEMMA VersionsAre ==
  Versions \subseteq Int /\ -1 \in Versions /\ ServerVersion \in Versions /\ Newest \in Versions
BY ScriptCacheBounds DEF Versions, Newest

LEMMA VersionSound ==
  ASSUME body \in DirectiveLists, NEW s \in SoundStates, NEW id \in Servers, NEW linked, NEW readable, NEW reachable,
         NEW v, v = ComparableVersion(s, id, linked, readable, reachable)
  PROVE  v.state \in SoundStates /\ v.version \in Versions
<1>1. CASE id \in OdbcServers
  <2> DEFINE read == IF Cached(s, id, "root") THEN s ELSE Publish(s, id, "root", -1, readable)
  <2>1. read \in SoundStates
    <3>1. "root" \in Contexts
      BY DEF Contexts
    <3> QED  BY <3>1, VersionsAre, PublishSound
  <2>2. v = VersionKnown(read, id, reachable)
    BY <1>1 DEF ComparableVersion, OdbcVersion
  <2> HIDE DEF read
  <2>3. v.state = read /\ v.version \in {ServerVersion, Newest}
    BY <2>2 DEF VersionKnown
  <2> QED  BY <2>1, <2>3, VersionsAre
<1>2. CASE id \notin OdbcServers
  <2>1. v = [state |-> s, version |-> IF linked THEN ServerVersion ELSE Newest]
    BY <1>2 DEF ComparableVersion
  <2>2. v.state = s /\ v.version \in {ServerVersion, Newest}
    BY <2>1
  <2> QED  BY <2>2, VersionsAre
<1> QED  BY <1>1, <1>2

LEMMA RereadSound ==
  ASSUME body \in DirectiveLists, NEW s \in SoundStates, NEW id \in Servers, NEW context \in Contexts,
         NEW linked, NEW readable, NEW reachable
  PROVE  /\ Reread(s, id, context, linked, readable, reachable) \in SoundStates
         /\ GetScript(s, id, context, linked, readable, reachable) \in SoundStates
<1> DEFINE r == Reread(s, id, context, linked, readable, reachable)
<1>1. r \in SoundStates
  <2>1. CASE s.thrown
    BY <2>1 DEF Reread
  <2>2. CASE ~s.thrown /\ context = "root" /\ id \in OdbcServers
    <3>1. r = Publish(s, id, context, -1, readable)
      BY <2>2 DEF Reread
    <3> QED  BY <3>1, VersionsAre, PublishSound
  <2>3. CASE ~s.thrown /\ ~(context = "root" /\ id \in OdbcServers)
    <3> DEFINE v == ComparableVersion(s, id, linked, readable, reachable)
    <3>1. r = PublishFor(v, id, context, readable)
      BY <2>3 DEF Reread
    <3>2. v.state \in SoundStates /\ v.version \in Versions /\ v.version \in Int
      BY VersionSound, VersionsAre
    <3> HIDE DEF v, r
    <3>3. CASE v.state.thrown
      BY <3>1, <3>2, <3>3 DEF PublishFor
    <3>4. CASE ~v.state.thrown
      <4>1. r = Publish(v.state, id, context, v.version, readable)
        BY <3>1, <3>4 DEF PublishFor
      <4> QED  BY <3>2, <4>1, PublishSound
    <3> QED  BY <3>3, <3>4
  <2> QED  BY <2>1, <2>2, <2>3
<1>2. GetScript(s, id, context, linked, readable, reachable) \in {s, r}
  BY DEF GetScript
<1> QED  BY <1>1, <1>2

(* The contexts of a node, read one after another.                          *)
LEMMA RefreshSound ==
  ASSUME body \in DirectiveLists, StateSound(folders, bunches), NEW id \in Servers, NEW unreadable, NEW reachable,
         Refresh(id, unreadable, reachable)
  PROVE  \E s \in SoundStates : /\ Keeps(s)
                                /\ lexers' = IF s.thrown THEN lexers ELSE [x \in Servers |-> None]
<1> DEFINE order == <<"root", "content", "preview", "autocomplete", "tree">>
           n == Len(order)
           step(s, context) == Reread(s, id, context, id \in open, context # unreadable, reachable)
           Reads(h) == h = [k \in 0..n |-> IF k = 0 THEN Now ELSE step(h[k - 1], order[k])]
           r == CHOOSE h : Reads(h)
           next == [k \in 1..n |-> [s \in SoundStates |-> step(s, order[k])]]
           base == Now
<1>1. Keeps(r[n]) /\ lexers' = IF r[n].thrown THEN lexers ELSE [x \in Servers |-> None]
  BY DEF Refresh
<1>2. n \in Nat /\ \A k \in 1..n : order[k] \in Contexts
  BY DEF Contexts
<1> HIDE DEF n, order
<1>3. base \in SoundStates
  BY SoundNow
<1>4. \A k \in 1..n : \A s \in SoundStates : next[k][s] = step(s, order[k]) /\ next[k][s] \in SoundStates
  BY <1>2, RereadSound
<1> HIDE DEF next, step
<1>5. /\ \E g : Staged(g, n, base, next) /\ g \in [0..n -> SoundStates]
      /\ \A h : Proceeds(h, n, base, next, SoundStates) => \A k \in 0..n : h[k] \in SoundStates
  BY <1>2, <1>3, <1>4, Recursive
<1>6. \E g : Reads(g)
  <2>1. PICK g : Staged(g, n, base, next) /\ g \in [0..n -> SoundStates]
    BY <1>5
  <2>2. \A k \in 0..n : (IF k = 0 THEN base ELSE next[k][g[k - 1]])
                          = (IF k = 0 THEN base ELSE step(g[k - 1], order[k]))
    <3> SUFFICES ASSUME NEW k \in 0..n, k # 0 PROVE next[k][g[k - 1]] = step(g[k - 1], order[k])
      OBVIOUS
    <3>1. k \in 1..n /\ k - 1 \in 0..n
      BY <1>2
    <3> QED  BY <1>4, <2>1, <3>1
  <2>3. Reads(g)
    BY <2>1, <2>2 DEF Staged
  <2> QED  BY <2>3
<1>7. Reads(r)
  BY <1>6
<1> HIDE DEF r
<1>8. r[0] = base /\ \A k \in 1..n : r[k] = step(r[k - 1], order[k])
  <2>1. \A k \in 0..n : r[k] = IF k = 0 THEN base ELSE step(r[k - 1], order[k])
    BY <1>7
  <2>2. 0 \in 0..n /\ \A k \in 1..n : k \in 0..n /\ k # 0
    BY <1>2
  <2> QED  BY <2>1, <2>2
<1>9. Proceeds(r, n, base, next, SoundStates)
  BY <1>4, <1>8 DEF Proceeds
<1>10. r[n] \in SoundStates
  BY <1>2, <1>5, <1>9
<1> QED  BY <1>1, <1>10

-----------------------------------------------------------------------------
CacheInv ==
    /\ body \in Seq(Directives) /\ assets \in BOOLEAN /\ open \subseteq Servers /\ cacheCalls \in Nat
    /\ StateSound(folders, bunches)
    /\ lexers \in [Servers -> {None, Using}] /\ painted \in [Servers -> {None, Using}]
    /\ cacheCalls = 0 => \A id \in Servers, c \in Contexts : bunches[id][c] = NoScripts

LEMMA BodyIs ==
  ASSUME NEW b \in Seq(Directives)
  PROVE  b \in DirectiveLists
<1>1. \A i \in 1..Len(b) : b[i] \in Directives
  OBVIOUS
<1>2. \A i \in 1..Len(b) : b[i] \in Directive
  BY <1>1, ScriptCacheBounds DEF Directive
<1>3. Len(b) \in Nat /\ b \in [1..Len(b) -> Directive]
  BY <1>2
<1> QED  BY <1>3 DEF DirectiveLists

LEMMA NoneIs ==
  None # "user" /\ None # "shipped" /\ Using \in {"user", "shipped"}
BY DEF None, Using

(* What a state owes to the texts and to the roots, it goes on owing.       *)
LEMMA SoundStays ==
  ASSUME body' = body, assets' = assets, NEW s \in SoundStates, Keeps(s)
  PROVE  StateSound(folders, bunches)'
<1>1. StateSound(s.folders, s.bunches) /\ folders' = s.folders /\ bunches' = s.bunches
  BY SoundOf DEF Keeps
<1>2. ASSUME NEW folder, NEW c PROVE Merged(folder, c)' = Merged(folder, c)
  BY DEF Merged
<1>3. ASSUME NEW folder, NEW c, NEW b, BunchSound(folder, c, b)
      PROVE  BunchSound(folder, c, b)'
  BY <1>2, <1>3 DEF BunchSound
<1> DEFINE f == s.folders
           b == s.bunches
<1>4. StateSound(f, b)
  BY <1>1
<1>5. \A id \in Servers : \A c \in Contexts : BunchSound(f[id], c, b[id][c])'
  BY <1>3, <1>4 DEF StateSound
<1>6. StateSound(f, b)'
  BY <1>4, <1>5 DEF StateSound
<1> QED  BY <1>1, <1>6

LEMMA CacheStarts ==
  ASSUME CacheInit
  PROVE  CacheInv
<1>1. \A id \in Servers, c \in Contexts : bunches[id][c] = NoScripts
  BY DEF CacheInit
<1>2. StateSound(folders, bunches)
  <2>1. folders \in FolderMaps /\ \A id \in Servers : folders[id] = None
    BY DEF CacheInit, FolderMaps
  <2>2. bunches \in BunchMaps
    BY NothingSound DEF CacheInit, BunchMaps
  <2> QED  BY <1>1, <2>1, <2>2, NothingSound DEF StateSound
<1>3. body \in Seq(Directives) /\ assets \in BOOLEAN /\ open \subseteq Servers /\ cacheCalls \in Nat
  BY EmptySeq DEF CacheInit
<1>4. lexers \in [Servers -> {None, Using}] /\ painted \in [Servers -> {None, Using}]
  BY DEF CacheInit
<1> QED  BY <1>1, <1>2, <1>3, <1>4 DEF CacheInv

(* Every call counts, and leaves the texts alone.                           *)
LEMMA CalledIs ==
  ASSUME cacheCalls \in Nat, Called
  PROVE  cacheCalls' \in Nat /\ cacheCalls' # 0
BY DEF Called

LEMMA CallKeeps ==
  ASSUME CacheInv, Called, body' = body, assets' = assets, open' \subseteq Servers,
         NEW s \in SoundStates, Keeps(s),
         lexers' \in [Servers -> {None, Using}], painted' \in [Servers -> {None, Using}]
  PROVE  CacheInv'
<1>1. cacheCalls' \in Nat /\ cacheCalls' # 0
  BY CalledIs DEF CacheInv
<1>2. StateSound(folders, bunches)'
  BY SoundStays
<1>3. body' \in Seq(Directives) /\ assets' \in BOOLEAN
  BY DEF CacheInv
<1>4. Using' = Using
  BY DEF Using
<1> QED  BY <1>1, <1>2, <1>3, <1>4 DEF CacheInv

LEMMA CacheSteps ==
  ASSUME CacheInv, [CacheNext]_cacheVars
  PROVE  CacheInv'
<1>1. /\ StateSound(folders, bunches) /\ body \in DirectiveLists /\ open \subseteq Servers
      /\ lexers \in [Servers -> {None, Using}] /\ painted \in [Servers -> {None, Using}]
  BY BodyIs DEF CacheInv
<1>2. Now \in SoundStates
  BY <1>1, SoundNow
<1>3. ASSUME NEW id \in Servers, NEW context \in Contexts, NEW readable, RunScript(id, context, readable)
      PROVE  CacheInv'
  <2>1. GetScript(Now, id, context, TRUE, readable, TRUE) \in SoundStates
    BY <1>1, <1>2, RereadSound
  <2>2. /\ Called /\ Keeps(GetScript(Now, id, context, TRUE, readable, TRUE)) /\ open' = open \cup {id}
        /\ body' = body /\ assets' = assets /\ lexers' = lexers /\ painted' = painted
    BY <1>3, Zenon DEF RunScript
  <2>3. open' \subseteq Servers
    BY <1>1, <2>2
  <2> QED  BY <1>1, <2>1, <2>2, <2>3, CallKeeps
<1>4. ASSUME NEW id \in Servers, CloseLink(id) PROVE CacheInv'
  <2>1. /\ Called /\ open' \subseteq open /\ folders' = folders /\ bunches' = bunches
        /\ body' = body /\ assets' = assets /\ lexers' = lexers /\ painted' = painted
    BY <1>4 DEF CloseLink
  <2>2. Keeps(Now)
    BY <2>1 DEF Keeps, Now
  <2>3. open' \subseteq Servers
    BY <1>1, <2>1
  <2> QED  BY <1>1, <1>2, <2>1, <2>2, <2>3, CallKeeps
<1>5. ASSUME NEW id \in Servers, NEW busy, NEW readable, onCompleterRequest(id, busy, readable)
      PROVE  CacheInv'
  <2>1. GetScript(Now, id, "autocomplete", ~busy, readable, TRUE) \in SoundStates
    <3>1. "autocomplete" \in Contexts
      BY DEF Contexts
    <3> QED  BY <1>1, <1>2, <3>1, RereadSound
  <2>2. /\ Called /\ Keeps(GetScript(Now, id, "autocomplete", ~busy, readable, TRUE)) /\ open' = open
        /\ body' = body /\ assets' = assets /\ lexers' = lexers /\ painted' = painted
    BY <1>5, Zenon DEF onCompleterRequest
  <2> QED  BY <1>1, <2>1, <2>2, CallKeeps
<1>6. ASSUME NEW id \in Servers, NEW unreadable, NEW reachable, Refresh(id, unreadable, reachable)
      PROVE  CacheInv'
  <2>1. PICK s \in SoundStates : /\ Keeps(s)
                                 /\ lexers' = IF s.thrown THEN lexers ELSE [x \in Servers |-> None]
    BY <1>1, <1>6, RefreshSound
  <2>2. Called /\ body' = body /\ assets' = assets /\ open' = open /\ painted' = painted
    BY <1>6, Zenon DEF Refresh
  <2>3. lexers' \in [Servers -> {None, Using}]
    BY <1>1, <2>1
  <2> QED  BY <1>1, <2>1, <2>2, <2>3, CallKeeps
<1>7. ASSUME NEW id \in Servers, UseLexer(id) PROVE CacheInv'
  <2>1. ResolveScriptRoot(Now, id) \in SoundStates
    BY <1>2, ResolveSound
  <2>2. /\ Called /\ Keeps(ResolveScriptRoot(Now, id)) /\ lexers' = [lexers EXCEPT ![id] = Using]
        /\ body' = body /\ assets' = assets /\ painted' = painted /\ open' = open
    BY <1>7, Zenon DEF UseLexer
  <2>3. lexers' \in [Servers -> {None, Using}]
    BY <1>1, <2>2
  <2> QED  BY <1>1, <2>1, <2>2, <2>3, CallKeeps
<1>8. ASSUME NEW id \in Servers, Highlight(id) PROVE CacheInv'
  <2>1. ResolveScriptRoot(Now, id) \in SoundStates
    BY <1>2, ResolveSound
  <2>2. /\ Called /\ Keeps(ResolveScriptRoot(Now, id)) /\ painted' = [painted EXCEPT ![id] = Using]
        /\ body' = body /\ assets' = assets /\ lexers' = lexers /\ open' = open
    BY <1>8, Zenon DEF Highlight
  <2>3. painted' \in [Servers -> {None, Using}]
    BY <1>1, <2>2
  <2> QED  BY <1>1, <2>1, <2>2, <2>3, CallKeeps
<1>9. ASSUME ReloadAssets PROVE CacheInv'
  <2>1. /\ Called /\ assets' = ~assets /\ body' = body /\ open' = open
        /\ bunches' = [id \in Servers |-> [c \in Contexts |-> NoScripts]]
        /\ folders' = [id \in Servers |-> None]
        /\ lexers' = [id \in Servers |-> None]
        /\ painted' = [id \in Servers |-> IF painted[id] = None THEN None
                                          ELSE IF assets' THEN "user" ELSE "shipped"]
    BY <1>9, Zenon DEF ReloadAssets, ClearCache
  <2>2. cacheCalls' \in Nat /\ cacheCalls' # 0
    BY <2>1, CalledIs DEF CacheInv
  <2>3. StateSound(folders, bunches)'
    <3>1. folders' \in FolderMaps /\ \A id \in Servers : folders'[id] = None
      BY <2>1 DEF FolderMaps
    <3>2. bunches' \in BunchMaps /\ \A id \in Servers, c \in Contexts : bunches'[id][c] = NoScripts
      BY <2>1, NothingSound DEF BunchMaps
    <3>3. ASSUME NEW c PROVE BunchSound(None, c, NoScripts)'
      <4>1. NoScripts.version \in Versions /\ DOMAIN NoScripts.files = {}
        BY DEF NoScripts, Versions
      <4> QED  BY <4>1 DEF BunchSound
    <3> QED  BY <3>1, <3>2, <3>3 DEF StateSound
  <2>4. assets' \in BOOLEAN
    BY <2>1
  <2>5. lexers' \in [Servers -> {None, Using}]' /\ painted' \in [Servers -> {None, Using}]'
    BY <2>1 DEF Using
  <2> QED  BY <1>1, <2>1, <2>2, <2>3, <2>4, <2>5 DEF CacheInv
<1>10. ASSUME NEW directive \in Directives, WriteScript(directive) PROVE CacheInv'
  <2>1. /\ cacheCalls = 0 /\ body' = Append(body, directive)
        /\ UNCHANGED <<assets, folders, bunches, lexers, painted, open, cacheCalls>>
    BY <1>10 DEF WriteScript
  <2>2. body' \in Seq(Directives)
    BY <2>1 DEF CacheInv
  <2>3. \A id \in Servers, c \in Contexts : bunches[id][c] = NoScripts
    BY <2>1 DEF CacheInv
  <2>4. StateSound(folders, bunches)'
    <3>1. ASSUME NEW folder, NEW c PROVE BunchSound(folder, c, NoScripts)'
      <4>1. NoScripts.version \in Versions /\ DOMAIN NoScripts.files = {}
        BY DEF NoScripts, Versions
      <4> QED  BY <4>1 DEF BunchSound
    <3> QED  BY <1>1, <2>1, <2>3, <3>1 DEF StateSound
  <2>5. Using' = Using
    BY <2>1 DEF Using
  <2> QED  BY <2>1, <2>2, <2>4, <2>5 DEF CacheInv
<1>11. ASSUME UNCHANGED cacheVars PROVE CacheInv'
  <2>1. /\ body' = body /\ assets' = assets /\ folders' = folders /\ bunches' = bunches /\ lexers' = lexers
        /\ painted' = painted /\ open' = open /\ cacheCalls' = cacheCalls
    BY <1>11 DEF cacheVars
  <2>2. StateSound(folders, bunches)'
    <3>1. Keeps(Now)
      BY <2>1 DEF Keeps, Now
    <3> QED  BY <1>2, <2>1, <3>1, SoundStays
  <2>3. Using' = Using
    BY <2>1 DEF Using
  <2> QED  BY <2>1, <2>2, <2>3 DEF CacheInv
<1> QED  BY <1>3, <1>4, <1>5, <1>6, <1>7, <1>8, <1>9, <1>10, <1>11 DEF CacheNext

LEMMA CacheIs ==
  CacheSpec => []CacheInv
<1>1. CacheInit => CacheInv
  BY CacheStarts
<1>2. CacheInv /\ [CacheNext]_cacheVars => CacheInv'
  BY CacheSteps
<1> QED  BY <1>1, <1>2, PTL DEF CacheSpec

(* The types of the caches.                                                 *)
THEOREM CacheTyped == CacheSpec => []CacheTypeOK
<1>1. CacheInv => CacheTypeOK
  <2> SUFFICES ASSUME CacheInv PROVE CacheTypeOK
    OBVIOUS
  <2>1. StateSound(folders, bunches)
    BY DEF CacheInv
  <2>2. ASSUME NEW id \in Servers, NEW c \in Contexts
        PROVE  /\ DOMAIN bunches[id][c].files \subseteq Names
               /\ \A name \in DOMAIN bunches[id][c].files :
                    bunches[id][c].files[name].kept \subseteq 1..(Len(body) + 1)
               /\ bunches[id][c].version \in {-1, 0, ServerVersion, Newest}
    <3>1. bunches[id][c] \in Bunch
      BY <2>1 DEF StateSound, BunchMaps
    <3>2. BunchSound(folders[id], c, bunches[id][c])
      BY <2>1 DEF StateSound
    <3> QED  BY <3>1, <3>2, BunchOf DEF BunchSound, Versions
  <2>3. lexers \in [Servers -> {None, "user", "shipped"}] /\ painted \in [Servers -> {None, "user", "shipped"}]
    BY NoneIs DEF CacheInv
  <2>4. folders \in [Servers -> {None, "own", "default", "scripts"}]
    BY <2>1 DEF StateSound, FolderMaps
  <2> QED  BY <2>2, <2>3, <2>4 DEF CacheInv, CacheTypeOK
<1> QED  BY <1>1, CacheIs, PTL

(* A bunch that is kept has all the scripts of its folder, cut to the arms  *)
(* their directives mean for its version, and comes from the folder that    *)
(* would win now (refresh, versionSpecificPart, resolveScriptRoot).         *)
THEOREM BundlesStayWhole == CacheSpec => []BundlesWhole
<1>1. CacheInv => BundlesWhole
  <2> SUFFICES ASSUME CacheInv, NEW id \in Servers
               PROVE  /\ folders[id] \in {None, Winner(id, assets)}
                      /\ \A c \in Contexts : Cached(Now, id, c) =>
                           LET files == bunches[id][c].files
                               merged == Merged(folders[id], c)
                           IN
                           /\ DOMAIN files = DOMAIN merged
                           /\ \A name \in DOMAIN files : files[name].from = merged[name]
                           /\ Balanced(body) /\ files["table"].kept = MeantFor(body, bunches[id][c].version)
                      /\ lexers[id] \in {None, Using} /\ painted[id] \in {None, Using}
    BY DEF BundlesWhole
  <2>1. StateSound(folders, bunches)
    BY DEF CacheInv
  <2>2. ASSUME NEW c \in Contexts, Cached(Now, id, c) PROVE DOMAIN bunches[id][c].files # {}
    BY <2>2 DEF Cached, Now
  <2>3. \A c \in Contexts : BunchSound(folders[id], c, bunches[id][c])
    BY <2>1 DEF StateSound
  <2>4. folders[id] \in {None, Winner(id, assets)}
    BY <2>1 DEF StateSound
  <2>5. lexers[id] \in {None, Using} /\ painted[id] \in {None, Using}
    BY DEF CacheInv
  <2> QED  BY <2>2, <2>3, <2>4, <2>5 DEF BunchSound
<1> QED  BY <1>1, CacheIs, PTL

=============================================================================
