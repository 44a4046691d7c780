-------------------------- MODULE QueryTab_proofs ---------------------------
(***************************************************************************)
(* Theorems about three parts of a query's tab that share no state.         *)
(* ResultRows, proved for any addresses, sizes of a result and numbers of   *)
(* tables and runs: every row the server has sent is on the screen or in    *)
(* its table, once and in the server's order. DecimalSum, proved for        *)
(* numbers of any width: what is printed is the exact sum. SqlLexer, proved *)
(* for any scripts: the statement and the list the scanner finds are those  *)
(* of the text's tokens, and a split of the list loses nothing.             *)
(***************************************************************************)
EXTENDS ResultRows, DecimalSum, SqlLexer, Recursion, SequenceTheorems, FiniteSetTheorems

Rows == Seq(Nat)
Table == [columns : {"raw", "clear"}, rows : Rows]
View == [name : TableAddresses, rows : Rows]
Signals == {Fetched(a) : a \in TableAddresses} \cup {Inactive}

RowTypes ==
    /\ {running, clarify, timer, overtaken} \subseteq BOOLEAN
    /\ DOMAIN tables \subseteq TableAddresses /\ tables \in [DOMAIN tables -> Table]
    /\ resultsets \in Seq(TableAddresses) /\ unclear \in Seq(TableAddresses)
    /\ tempRows \in Nat /\ sent \in Nat
    /\ posted \in Seq(Signals)
    /\ querySettings \in {"tables", "charts"}
    /\ views \in Seq(View) /\ plotted \in Rows

(* The tables of the run are those of its list, each once, the one being    *)
(* filled is the last, and those still to be clarified are among them.      *)
TablesListed ==
    /\ \A a \in DOMAIN tables : \E i \in DOMAIN resultsets : resultsets[i] = a
    /\ \A i \in DOMAIN resultsets : resultsets[i] \in DOMAIN tables
    /\ \A i, j \in DOMAIN resultsets : resultsets[i] = resultsets[j] => i = j
    /\ tempResult # NoTable =>
          resultsets # <<>> /\ tempResult = resultsets[Len(resultsets)]
    /\ \A i \in DOMAIN unclear : unclear[i] \in DOMAIN tables
    /\ \A a \in DOMAIN tables :
          Len(tables[a].rows) <= sent /\ Len(tables[a].rows) <= MaxSent

(* What is shown is shown in one place, and the tab copies the columns of   *)
(* the table the signal it is handling names.                               *)
PlacesKnown ==
    /\ querySettings = "tables" => plotted = <<>>
    /\ querySettings = "charts" => views = <<>>
    /\ copying # NoTable =>
          /\ querySettings = "tables" /\ copying \in DOMAIN tables
          /\ posted # <<>> /\ Head(posted) = Fetched(copying)

(* Every row but those since the last announcement of the table being       *)
(* filled was announced, and the announcements are in the order of the      *)
(* tables.                                                                  *)
Announced(a) == \E i \in DOMAIN posted : posted[i] = Fetched(a)
AllAnnounced ==
    \A a \in DOMAIN tables :
       tables[a].rows # <<>> /\ (a # tempResult \/ tempRows % NotifyEvery = 0) => Announced(a)
Named ==
    \A i \in DOMAIN posted : posted[i].signal = "fetched" => posted[i].table \in DOMAIN tables
InOrder ==
    \A i, j \in DOMAIN posted : \A k, l \in DOMAIN resultsets :
       i < j /\ posted[i] = Fetched(resultsets[k]) /\ posted[j] = Fetched(resultsets[l])
          => k <= l
Announcements == AllAnnounced /\ Named /\ InOrder

Conserved == Shown \o Unread = [i \in 1..sent |-> i]

RowsInv == RowTypes /\ TablesListed /\ PlacesKnown /\ (~overtaken => Announcements /\ Conserved)

-----------------------------------------------------------------------------
(* A list of lists flattened: the equations of FlattenSeq.                  *)
LEMMA FlattenSteps ==
  ASSUME NEW D, NEW ss \in Seq(Seq(D)), ss # <<>>
  PROVE  \E f \in [1..Len(ss) -> Seq(D)] :
           /\ f[1] = ss[1]
           /\ \A i \in 2..Len(ss) : f[i] = f[i - 1] \o ss[i]
           /\ FlattenSeq(ss) = f[Len(ss)]
<1> DEFINE N == Len(ss)
           step == [i \in 1..N |-> [d \in Seq(D) |-> d \o ss[i]]]
           none == <<>>
           F == CHOOSE f : f = [i \in 1..N |-> IF i = 1 THEN ss[i] ELSE f[i - 1] \o ss[i]]
<1>1. N \in Nat /\ N >= 1 /\ N # 0 /\ \A i \in 1..N : ss[i] \in Seq(D)
  OBVIOUS
<1>2. step \in [1..N -> [Seq(D) -> Seq(D)]]
  <2> SUFFICES ASSUME NEW i \in 1..N
               PROVE  [d \in Seq(D) |-> d \o ss[i]] \in [Seq(D) -> Seq(D)]
    OBVIOUS
  <2>1. \A d \in Seq(D) : d \o ss[i] \in Seq(D)
    BY <1>1, ConcatProperties
  <2> QED  BY <2>1
<1>3. none \in Seq(D)
  OBVIOUS
<1>4. PICK g : Recurs(g, Seq(D), none, N, step)
  <2> HIDE DEF none, step, N
  <2> QED  BY <1>1, <1>2, <1>3, RecursionExists
<1>5. g[0] = none /\ g \in [0..N -> Seq(D)]
  <2> HIDE DEF none, step, N
  <2>1. g \in [0..N -> Seq(D)] /\ g = [k \in 0..N |-> IF k = 0 THEN none ELSE step[k][g[k - 1]]]
    BY <1>4 DEF Recurs
  <2>2. 0 \in 0..N
    BY <1>1
  <2> QED  BY <2>1, <2>2
<1>6. ASSUME NEW i \in 1..N PROVE g[i] = g[i - 1] \o ss[i]
  <2>1. g = [k \in 0..N |-> IF k = 0 THEN none ELSE step[k][g[k - 1]]]
    BY <1>4 DEF Recurs
  <2>2. i \in 0..N /\ i # 0 /\ g[i - 1] \in Seq(D)
    <3> HIDE DEF N
    <3>1. i \in 0..N /\ i # 0 /\ i - 1 \in 0..N
      BY <1>1
    <3> QED  BY <1>5, <3>1
  <2>3. g[i] = step[i][g[i - 1]]
    <3> HIDE DEF step, none, N
    <3> QED  BY <2>1, <2>2
  <2>4. step[i] = [d \in Seq(D) |-> d \o ss[i]]
    OBVIOUS
  <2> HIDE DEF step
  <2> QED  BY <2>2, <2>3, <2>4
<1> HIDE DEF step
<1> DEFINE h == [i \in 1..N |-> g[i]]
<1>7. h \in [1..N -> Seq(D)]
  BY <1>5
<1>8. h[1] = ss[1]
  <2>1. g[1] = none \o ss[1]
    <3>1. PICK i \in 1..N : i = 1
      BY <1>1
    <3>2. g[i] = g[i - 1] \o ss[i]
      BY <1>6
    <3>3. i - 1 = 0
      BY <3>1
    <3> HIDE DEF none, N
    <3> QED  BY <1>5, <3>1, <3>2, <3>3
  <2>2. none \o ss[1] = ss[1]
    BY <1>1, ConcatEmptySeq
  <2> QED  BY <1>1, <2>1, <2>2
<1>9. ASSUME NEW i \in 2..N PROVE h[i] = h[i - 1] \o ss[i]
  <2> HIDE DEF N
  <2>1. i \in 1..N /\ i - 1 \in 1..N
    BY <1>1
  <2>2. h[i] = g[i] /\ h[i - 1] = g[i - 1]
    BY <2>1
  <2>3. g[i] = g[i - 1] \o ss[i]
    BY <1>6, <2>1
  <2> QED  BY <2>2, <2>3
<1>10. h = [i \in 1..N |-> IF i = 1 THEN ss[i] ELSE h[i - 1] \o ss[i]]
  <2> HIDE DEF N
  <2>1. ASSUME NEW i \in 1..N PROVE h[i] = IF i = 1 THEN ss[i] ELSE h[i - 1] \o ss[i]
    <3>1. CASE i = 1
      BY <1>8, <3>1
    <3>2. CASE i # 1
      <4>1. i \in 2..N
        BY <1>1, <3>2
      <4> HIDE DEF h
      <4> QED  BY <1>9, <3>2, <4>1
    <3> QED  BY <3>1, <3>2
  <2>2. h = [i \in 1..N |-> h[i]]
    OBVIOUS
  <2> HIDE DEF h
  <2> QED  BY <2>1, <2>2
<1> HIDE DEF h
<1>11. F = [i \in 1..N |-> IF i = 1 THEN ss[i] ELSE F[i - 1] \o ss[i]]
  BY <1>10
<1>12. FlattenSeq(ss) = F[N]
  BY <1>1 DEF FlattenSeq
<1> HIDE DEF F, N
<1>13. \A i \in 1..N : F[i] = IF i = 1 THEN ss[i] ELSE F[i - 1] \o ss[i]
  BY <1>11
<1>14. ASSUME NEW i \in 1..N PROVE F[i] \in Seq(D)
  <2> DEFINE S == {k \in Nat : k + 1 <= N => F[k + 1] \in Seq(D)}
  <2>1. 0 \in S
    BY <1>1, <1>13
  <2>2. ASSUME NEW k \in Nat, k \in S PROVE k + 1 \in S
    <3> SUFFICES ASSUME k + 2 <= N PROVE F[k + 2] \in Seq(D)
      BY <1>1
    <3>1. k + 2 \in 1..N /\ k + 2 # 1 /\ k + 2 - 1 = k + 1 /\ k + 1 <= N
      BY <1>1
    <3>2. F[k + 1] \in Seq(D)
      BY <2>2, <3>1
    <3>3. F[k + 2] = F[k + 2 - 1] \o ss[k + 2]
      <4>1. PICK j \in 1..N : j = k + 2
        BY <3>1
      <4>2. j # 1
        BY <3>1, <4>1
      <4>3. F[j] = F[j - 1] \o ss[j]
        BY <1>13, <4>2
      <4>4. j - 1 = k + 2 - 1
        BY <4>1
      <4> QED  BY <4>1, <4>3, <4>4
    <3>4. ss[k + 2] \in Seq(D)
      BY <1>1, <3>1
    <3> QED  BY <3>1, <3>2, <3>3, <3>4, ConcatProperties
  <2> HIDE DEF S
  <2>3. Nat \subseteq S
    BY <2>1, <2>2, SetInduction
  <2>4. i - 1 \in S
    BY <1>1, <2>3
  <2> QED  BY <1>1, <2>4 DEF S
<1>15. F \in [1..N -> Seq(D)]
  <2>1. F = [i \in 1..N |-> F[i]]
    BY <1>11
  <2> QED  BY <1>14, <2>1
<1>16. F[1] = ss[1]
  BY <1>1, <1>13
<1>17. ASSUME NEW i \in 2..N PROVE F[i] = F[i - 1] \o ss[i]
  <2>1. i \in 1..N /\ i # 1
    BY <1>1
  <2> QED  BY <1>13, <2>1
<1> QED  BY <1>12, <1>15, <1>16, <1>17 DEF N

(* A list more is flattened at the end.                                     *)
LEMMA FlattenAppend ==
  ASSUME NEW D, NEW ss \in Seq(Seq(D)), NEW s \in Seq(D)
  PROVE  /\ FlattenSeq(ss) \in Seq(D) /\ FlattenSeq(Append(ss, s)) \in Seq(D)
         /\ FlattenSeq(Append(ss, s)) = FlattenSeq(ss) \o s
<1> DEFINE tt == Append(ss, s)
           N == Len(ss)
<1>1. /\ tt \in Seq(Seq(D)) /\ tt # <<>> /\ Len(tt) = N + 1
      /\ (\A i \in 1..N : tt[i] = ss[i]) /\ tt[N + 1] = s /\ N \in Nat
  BY AppendProperties
<1> HIDE DEF tt
<1>2. PICK g \in [1..(N + 1) -> Seq(D)] :
        /\ g[1] = tt[1]
        /\ \A i \in 2..(N + 1) : g[i] = g[i - 1] \o tt[i]
        /\ FlattenSeq(tt) = g[N + 1]
  <2> HIDE DEF N
  <2>1. \E f \in [1..Len(tt) -> Seq(D)] :
           /\ f[1] = tt[1]
           /\ \A i \in 2..Len(tt) : f[i] = f[i - 1] \o tt[i]
           /\ FlattenSeq(tt) = f[Len(tt)]
    BY <1>1, FlattenSteps
  <2>2. Len(tt) = N + 1
    BY <1>1
  <2> QED  BY <2>1, <2>2
<1>3. CASE ss = <<>>
  <2>1. N = 0 /\ FlattenSeq(ss) = <<>>
    BY <1>3 DEF FlattenSeq
  <2>2. FlattenSeq(tt) = s
    BY <1>1, <1>2, <2>1
  <2> QED  BY <2>1, <2>2, ConcatEmptySeq, EmptySeq DEF tt
<1>4. CASE ss # <<>>
  <2>1. PICK f \in [1..N -> Seq(D)] :
          /\ f[1] = ss[1]
          /\ \A i \in 2..N : f[i] = f[i - 1] \o ss[i]
          /\ FlattenSeq(ss) = f[N]
    BY <1>4, FlattenSteps
  <2>2. N >= 1
    BY <1>4
  <2> DEFINE S == {k \in Nat : k + 1 <= N => g[k + 1] = f[k + 1]}
  <2>3. 0 \in S
    BY <1>1, <1>2, <2>1, <2>2
  <2>4. ASSUME NEW k \in Nat, k \in S PROVE k + 1 \in S
    <3> SUFFICES ASSUME k + 2 <= N PROVE g[k + 2] = f[k + 2]
      BY <1>1
    <3>1. k + 2 \in 2..N /\ k + 2 - 1 = k + 1 /\ k + 1 <= N /\ k + 2 \in 2..(N + 1) /\ k + 2 \in 1..N
      BY <1>1
    <3>2. g[k + 1] = f[k + 1]
      BY <2>4, <3>1
    <3>3. g[k + 2] = g[k + 2 - 1] \o tt[k + 2] /\ f[k + 2] = f[k + 2 - 1] \o ss[k + 2]
      <4> HIDE DEF N
      <4>1. PICK j \in 2..N : j = k + 2
        BY <3>1
      <4>2. j \in 2..(N + 1)
        BY <3>1, <4>1
      <4>3. g[j] = g[j - 1] \o tt[j]
        BY <1>2, <4>2
      <4>4. f[j] = f[j - 1] \o ss[j]
        BY <2>1, <4>1
      <4> QED  BY <4>1, <4>3, <4>4
    <3> QED  BY <1>1, <3>1, <3>2, <3>3
  <2> HIDE DEF S
  <2>5. Nat \subseteq S
    BY <2>3, <2>4, SetInduction
  <2>6. N - 1 \in S
    BY <1>1, <2>2, <2>5
  <2>7. g[N] = f[N]
    BY <1>1, <2>6 DEF S
  <2>8. N + 1 \in 2..(N + 1) /\ N + 1 - 1 = N
    BY <1>1, <2>2
  <2>9. g[N + 1] = g[N] \o tt[N + 1]
    <3> HIDE DEF N
    <3>1. PICK j \in 2..(N + 1) : j = N + 1
      BY <2>8
    <3>2. g[j] = g[j - 1] \o tt[j]
      BY <1>2
    <3>3. j - 1 = N
      BY <1>1, <3>1
    <3> QED  BY <3>1, <3>2, <3>3
  <2>10. f[N] \in Seq(D)
    <3> HIDE DEF N
    <3>1. N \in 1..N
      BY <1>1, <2>2
    <3> QED  BY <2>1, <3>1
  <2> QED  BY <1>1, <1>2, <2>1, <2>7, <2>9, <2>10, ConcatProperties DEF tt
<1> QED  BY <1>3, <1>4

LEMMA FlattenPrefix ==
  ASSUME NEW D, NEW ss \in Seq(Seq(D)), NEW k \in 1..Len(ss)
  PROVE  /\ FlattenSeq(SubSeq(ss, 1, k - 1)) \in Seq(D)
         /\ FlattenSeq(SubSeq(ss, 1, k)) = FlattenSeq(SubSeq(ss, 1, k - 1)) \o ss[k]
<1>1. k \in Int /\ 1 \in Int /\ k - 1 \in Int /\ 1 <= k /\ ss[k] \in Seq(D)
  OBVIOUS
<1>2. \A i \in 1..k : ss[i] \in Seq(D)
  OBVIOUS
<1>3. SubSeq(ss, 1, k - 1) \in Seq(Seq(D)) /\ SubSeq(ss, 1, k) = Append(SubSeq(ss, 1, k - 1), ss[k])
  <2> DEFINE u == SubSeq(ss, 1, k - 1)
             v == SubSeq(ss, 1, k)
  <2>1. u \in Seq(Seq(D)) /\ Len(u) = k - 1 /\ \A i \in 1..(k - 1) : u[i] = ss[i]
    <3>1. /\ u \in Seq(Seq(D)) /\ Len(u) = IF 1 <= k - 1 THEN k - 1 - 1 + 1 ELSE 0
          /\ \A i \in 1..(k - 1 - 1 + 1) : u[i] = ss[1 + i - 1]
      <4>1. \A i \in 1..(k - 1) : ss[i] \in Seq(D)
        BY <1>2
      <4> HIDE DEF u
      <4> QED  BY <1>1, <4>1, SubSeqProperties DEF u
    <3> HIDE DEF u
    <3> QED  BY <1>1, <3>1
  <2>2. v \in Seq(Seq(D)) /\ Len(v) = k /\ \A i \in 1..k : v[i] = ss[i]
    <3>1. /\ v \in Seq(Seq(D)) /\ Len(v) = IF 1 <= k THEN k - 1 + 1 ELSE 0
          /\ \A i \in 1..(k - 1 + 1) : v[i] = ss[1 + i - 1]
      BY <1>1, <1>2, SubSeqProperties
    <3> HIDE DEF v
    <3> QED  BY <1>1, <3>1
  <2> DEFINE w == Append(u, ss[k])
  <2> HIDE DEF u, v
  <2>3. /\ w \in Seq(Seq(D)) /\ Len(w) = Len(u) + 1
        /\ (\A i \in 1..Len(u) : w[i] = u[i]) /\ w[Len(u) + 1] = ss[k]
    BY <1>1, <2>1, AppendProperties
  <2> HIDE DEF w
  <2>4. \A i \in 1..Len(v) : v[i] = w[i]
    <3> TAKE i \in 1..Len(v)
    <3>1. CASE i = k
      <4>1. w[k] = ss[k]
        BY <1>1, <2>1, <2>3
      <4> QED  BY <1>1, <2>2, <3>1, <4>1
    <3>2. CASE i # k
      <4>1. i \in 1..k /\ i \in 1..(k - 1) /\ i \in 1..Len(u)
        BY <1>1, <2>1, <2>2, <3>2
      <4> QED  BY <2>1, <2>2, <2>3, <4>1
    <3> QED  BY <3>1, <3>2
  <2>5. v = w
    BY <2>1, <2>2, <2>3, <2>4, SeqEqual
  <2> QED  BY <2>1, <2>5 DEF u, v, w
<1> QED  BY <1>1, <1>3, FlattenAppend

LEMMA Associative ==
  ASSUME NEW D
  PROVE  \A s, t, u \in Seq(D) : (s \o t) \o u = s \o (t \o u)
BY ConcatAssociative

(* What is added to the last list is added at the end.                      *)
AddsToLast(ss, tt, x) ==
    /\ ss # <<>> /\ Len(tt) = Len(ss) /\ \A i \in 1..(Len(ss) - 1) : tt[i] = ss[i]
    /\ tt[Len(ss)] = ss[Len(ss)] \o x

LEMMA FlattenLast ==
  ASSUME NEW D, NEW ss \in Seq(Seq(D)), NEW tt \in Seq(Seq(D)), NEW x \in Seq(D),
         AddsToLast(ss, tt, x)
  PROVE  FlattenSeq(tt) = FlattenSeq(ss) \o x
<1>1. PICK front \in Seq(Seq(D)), last \in Seq(D) : ss = Append(front, last)
  BY SequenceEmptyOrAppend DEF AddsToLast
<1>2. /\ Len(ss) = Len(front) + 1 /\ last = ss[Len(ss)] /\ Len(front) \in Nat
      /\ \A i \in 1..Len(front) : ss[i] = front[i]
  BY <1>1, AppendProperties
<1>3. last \o x \in Seq(D)
  BY ConcatProperties
<1> DEFINE more == Append(front, last \o x)
<1>4. /\ more \in Seq(Seq(D)) /\ Len(more) = Len(front) + 1
      /\ (\A i \in 1..Len(front) : more[i] = front[i]) /\ more[Len(front) + 1] = last \o x
  BY <1>3, AppendProperties
<1> HIDE DEF more
<1>5. \A i \in 1..Len(tt) : tt[i] = more[i]
  <2> TAKE i \in 1..Len(tt)
  <2>1. CASE i = Len(ss)
    BY <1>2, <1>4, <2>1 DEF AddsToLast
  <2>2. CASE i # Len(ss)
    <3>1. i \in 1..Len(front) /\ i \in 1..(Len(ss) - 1)
      BY <1>2, <2>2 DEF AddsToLast
    <3> QED  BY <1>2, <1>4, <3>1 DEF AddsToLast
  <2> QED  BY <2>1, <2>2
<1>6. tt = more
  <2>1. Len(tt) = Len(more)
    BY <1>2, <1>4 DEF AddsToLast
  <2> QED  BY <1>4, <1>5, <2>1, SeqEqual
<1>7. FlattenSeq(ss) = FlattenSeq(front) \o last /\ FlattenSeq(front) \in Seq(D)
  BY <1>1, FlattenAppend
<1>8. FlattenSeq(more) = FlattenSeq(front) \o (last \o x)
  BY <1>3, FlattenAppend DEF more
<1>9. (FlattenSeq(front) \o last) \o x = FlattenSeq(front) \o (last \o x)
  <2>1. \A t, u, v \in Seq(D) : (t \o u) \o v = t \o (u \o v)
    BY Associative, SMTT(60)
  <2>2. FlattenSeq(front) \in Seq(D) /\ last \in Seq(D) /\ x \in Seq(D)
    BY <1>7
  <2> QED  BY <2>1, <2>2, Zenon
<1> QED  BY <1>6, <1>7, <1>8, <1>9

(* The first list that is not empty may be taken out.                       *)
Joins(f, a, n, D) ==
    /\ a \in [1..n -> Seq(D)] /\ f \in [0..n -> Seq(D)]
    /\ f[0] = <<>> /\ \A k \in 1..n : f[k] = f[k - 1] \o a[k]
SplitsInto(all, first, rest) == all = first \o rest
FirstTaken(a, b, i, n) ==
    /\ \A j \in 1..n : j < i => a[j] = <<>>
    /\ b[i] = <<>> /\ \A j \in 1..n : j # i => b[j] = a[j]

LEMMA TakenSteps ==
  ASSUME NEW D, NEW n \in Nat, NEW a, NEW b, NEW F, NEW G,
         Joins(F, a, n, D), Joins(G, b, n, D), NEW i \in 1..n, FirstTaken(a, b, i, n)
  PROVE  SplitsInto(F[n], a[i], G[n])
<1> DEFINE Taken(k) == IF k < i THEN F[k] = <<>> /\ G[k] = <<>> ELSE F[k] = a[i] \o G[k]
           S == {k \in Nat : Taken(k)}
<1> HIDE DEF Taken
<1>1. 0 \in S
  BY DEF Taken, Joins
<1>2. ASSUME NEW k \in Nat, k < n, k \in S PROVE k + 1 \in S
  <2> SUFFICES Taken(k + 1)
    OBVIOUS
  <2>1. Taken(k)
    BY <1>2
  <2>2. PICK m \in 1..n : m = k + 1
    BY <1>2
  <2>3. m - 1 = k /\ k \in 0..n /\ m \in 0..n
    BY <1>2, <2>2
  <2>4. F[k] \in Seq(D) /\ G[k] \in Seq(D) /\ a[m] \in Seq(D) /\ b[m] \in Seq(D) /\ a[i] \in Seq(D)
        /\ G[m] \in Seq(D)
    BY <2>3 DEF Joins
  <2>5. F[m] = F[k] \o a[m] /\ G[m] = G[k] \o b[m]
    BY <2>3 DEF Joins
  <2>6. CASE m < i
    <3>1. a[m] = <<>> /\ b[m] = <<>> /\ k < i
      <4>1. m # i /\ k < i
        BY <2>3, <2>6
      <4>2. a[m] = <<>>
        BY <2>6 DEF FirstTaken
      <4>3. b[m] = a[m]
        BY <4>1 DEF FirstTaken
      <4> QED  BY <4>1, <4>2, <4>3
    <3>2. F[k] = <<>> /\ G[k] = <<>>
      BY <2>1, <3>1 DEF Taken
    <3>3. F[m] = <<>> /\ G[m] = <<>>
      BY <2>4, <2>5, <3>1, <3>2, ConcatEmptySeq
    <3> QED  BY <2>2, <2>6, <3>3 DEF Taken
  <2>7. CASE m = i
    <3>1. F[k] = <<>> /\ G[k] = <<>>
      <4>1. k < i
        BY <2>3, <2>7
      <4> QED  BY <2>1, <4>1 DEF Taken
    <3>2. F[m] = a[i] /\ G[m] = <<>>
      <4>1. b[m] = <<>>
        BY <2>7 DEF FirstTaken
      <4> QED  BY <2>4, <2>5, <2>7, <3>1, <4>1, ConcatEmptySeq
    <3>3. F[m] = a[i] \o G[m]
      BY <2>4, <3>2, ConcatEmptySeq
    <3>4. ~(m < i)
      BY <2>7
    <3> QED  BY <2>2, <3>3, <3>4 DEF Taken
  <2>8. CASE m > i
    <3>1. b[m] = a[m] /\ ~(k < i) /\ ~(m < i)
      BY <2>3, <2>8 DEF FirstTaken
    <3>2. F[k] = a[i] \o G[k]
      BY <2>1, <3>1 DEF Taken
    <3>3. (a[i] \o G[k]) \o a[m] = a[i] \o (G[k] \o a[m])
      <4>1. PICK l \in Seq(D) : l = a[i]
        BY <2>4
      <4>2. PICK g \in Seq(D) : g = G[k]
        BY <2>4
      <4>3. PICK c \in Seq(D) : c = a[m]
        BY <2>4
      <4>4. (l \o g) \o c = l \o (g \o c)
        BY ConcatAssociative
      <4> QED  BY <4>1, <4>2, <4>3, <4>4
    <3>4. F[m] = a[i] \o G[m]
      BY <2>5, <3>1, <3>2, <3>3
    <3> QED  BY <2>2, <3>1, <3>4 DEF Taken
  <2>9. m < i \/ m = i \/ m > i
    OBVIOUS
  <2> QED  BY <2>6, <2>7, <2>8, <2>9
<1> HIDE DEF S
<1>3. 0..n \subseteq S
  BY <1>1, <1>2, BoundedInduction
<1>4. Taken(n) /\ ~(n < i)
  BY <1>3 DEF S
<1> QED  BY <1>4 DEF Taken, SplitsInto

LEMMA FlattenTaken ==
  ASSUME NEW D, NEW ss \in Seq(Seq(D)), NEW tt \in Seq(Seq(D)), Len(tt) = Len(ss),
         NEW i \in 1..Len(ss), FirstTaken(ss, tt, i, Len(ss))
  PROVE  FlattenSeq(ss) = ss[i] \o FlattenSeq(tt)
<1>1. PICK n \in Nat : n = Len(ss)
  OBVIOUS
<1>2. ss \in [1..n -> Seq(D)] /\ tt \in [1..n -> Seq(D)] /\ i \in 1..n
  BY <1>1
<1> DEFINE F == [k \in 0..n |-> FlattenSeq(SubSeq(ss, 1, k))]
           G == [k \in 0..n |-> FlattenSeq(SubSeq(tt, 1, k))]
<1>3. ASSUME NEW k \in 1..n
      PROVE  /\ F[k] = F[k - 1] \o ss[k] /\ G[k] = G[k - 1] \o tt[k]
             /\ F[k - 1] \in Seq(D) /\ G[k - 1] \in Seq(D)
  <2>1. k \in 0..n /\ k - 1 \in 0..n
    OBVIOUS
  <2>2. k \in 1..Len(ss) /\ k \in 1..Len(tt)
    BY <1>1
  <2>3. /\ FlattenSeq(SubSeq(ss, 1, k - 1)) \in Seq(D)
        /\ FlattenSeq(SubSeq(ss, 1, k)) = FlattenSeq(SubSeq(ss, 1, k - 1)) \o ss[k]
        /\ FlattenSeq(SubSeq(tt, 1, k - 1)) \in Seq(D)
        /\ FlattenSeq(SubSeq(tt, 1, k)) = FlattenSeq(SubSeq(tt, 1, k - 1)) \o tt[k]
    BY <2>2, FlattenPrefix
  <2> QED  BY <2>1, <2>3
<1>4. F[0] = <<>> /\ G[0] = <<>>
  <2>1. SubSeq(ss, 1, 0) = <<>> /\ SubSeq(tt, 1, 0) = <<>>
    BY SubSeqEmpty
  <2>2. FlattenSeq(<<>>) = <<>>
    BY DEF FlattenSeq
  <2>3. 0 \in 0..n
    OBVIOUS
  <2> QED  BY <2>1, <2>2, <2>3
<1>5. SubSeq(ss, 1, n) = ss /\ SubSeq(tt, 1, n) = tt
  BY <1>1, SubSeqFull
<1>6. F[n] = FlattenSeq(ss) /\ G[n] = FlattenSeq(tt)
  <2>1. n \in 0..n
    OBVIOUS
  <2> QED  BY <1>5, <2>1
<1>7. F \in [0..n -> Seq(D)] /\ G \in [0..n -> Seq(D)]
  <2>1. ASSUME NEW k \in 0..n PROVE F[k] \in Seq(D) /\ G[k] \in Seq(D)
    <3>1. CASE k \in 1..n
      <4>1. FlattenSeq(SubSeq(ss, 1, k - 1)) \o ss[k] \in Seq(D)
            /\ FlattenSeq(SubSeq(tt, 1, k - 1)) \o tt[k] \in Seq(D)
        <5>1. ss[k] \in Seq(D) /\ tt[k] \in Seq(D)
          BY <1>1, <3>1
        <5>2. k \in 1..Len(ss) /\ k \in 1..Len(tt)
          BY <1>1, <3>1
        <5>3. FlattenSeq(SubSeq(ss, 1, k - 1)) \in Seq(D) /\ FlattenSeq(SubSeq(tt, 1, k - 1)) \in Seq(D)
          BY <5>2, FlattenPrefix
        <5> QED  BY <5>1, <5>3, ConcatProperties
      <4>2. k \in 1..Len(ss) /\ k \in 1..Len(tt)
        BY <1>1, <3>1
      <4>3. FlattenSeq(SubSeq(ss, 1, k)) \in Seq(D) /\ FlattenSeq(SubSeq(tt, 1, k)) \in Seq(D)
        BY <4>1, <4>2, FlattenPrefix
      <4> QED  BY <4>3
    <3>2. CASE k = 0
      <4> HIDE DEF F, G
      <4> QED  BY <1>4, <3>2, EmptySeq
    <3> QED  BY <3>1, <3>2
  <2> QED  BY <2>1
<1> HIDE DEF F, G
<1>8. Joins(F, ss, n, D) /\ Joins(G, tt, n, D) /\ FirstTaken(ss, tt, i, n)
  BY <1>1, <1>2, <1>3, <1>4, <1>7 DEF Joins
<1>9. SplitsInto(F[n], ss[i], G[n])
  BY <1>2, <1>8, TakenSteps
<1> QED  BY <1>6, <1>9 DEF SplitsInto

-----------------------------------------------------------------------------
LEMMA Bounds ==
  /\ NotifyEvery \in Nat \ {0} /\ NoTable \notin TableAddresses
  /\ MaxSent \in Nat /\ MaxTables \in Nat /\ MaxQueries \in Nat
BY ResultRowsBounds DEF NoTable

LEMMA SignalFacts ==
  /\ \A a : Fetched(a).signal = "fetched" /\ Fetched(a).table = a /\ Fetched(a) # Inactive
  /\ \A a, b : Fetched(a) = Fetched(b) => a = b
  /\ Inactive.signal = "inactive" /\ Inactive \in Signals
  /\ \A a \in TableAddresses : Fetched(a) \in Signals
  /\ \A s \in Signals : s.signal = "fetched" => s.table \in TableAddresses /\ s = Fetched(s.table)
<1>1. \A a : Fetched(a).signal = "fetched" /\ Fetched(a).table = a
  BY DEF Fetched
<1>2. Inactive.signal = "inactive" /\ Inactive \in Signals
  BY DEF Inactive, Signals
<1> QED  BY <1>1, <1>2 DEF Signals

(* The rows of the views, and of the tables in the order of the list.       *)
Viewed(list) == [i \in DOMAIN list |-> list[i].rows]
InTables(list, ts) == [i \in DOMAIN list |-> ts[list[i]].rows]

LEMMA ListsTyped ==
  ASSUME RowTypes, TablesListed
  PROVE  /\ Viewed(views) \in Seq(Rows) /\ Len(Viewed(views)) = Len(views)
         /\ InTables(resultsets, tables) \in Seq(Rows)
         /\ Len(InTables(resultsets, tables)) = Len(resultsets)
<1>1. views \in Seq(View) /\ DOMAIN views = 1..Len(views) /\ Len(views) \in Nat
  BY DEF RowTypes
<1>2. \A i \in 1..Len(views) : views[i].rows \in Rows
  <2>1. \A i \in 1..Len(views) : views[i] \in View
    BY <1>1
  <2> QED  BY <2>1 DEF View
<1>3. Viewed(views) = [i \in 1..Len(views) |-> views[i].rows]
  BY <1>1 DEF Viewed
<1>4. /\ resultsets \in Seq(TableAddresses) /\ DOMAIN resultsets = 1..Len(resultsets)
      /\ Len(resultsets) \in Nat
  BY DEF RowTypes
<1>5. \A i \in 1..Len(resultsets) : tables[resultsets[i]].rows \in Rows
  <2>1. \A a \in DOMAIN tables : tables[a] \in Table
    BY DEF RowTypes
  <2> QED  BY <1>4, <2>1 DEF TablesListed, Table
<1>6. InTables(resultsets, tables) = [i \in 1..Len(resultsets) |-> tables[resultsets[i]].rows]
  BY <1>4 DEF InTables
<1> QED  BY <1>1, <1>2, <1>3, <1>4, <1>5, <1>6

LEMMA ShownTyped ==
  ASSUME RowTypes, TablesListed
  PROVE  /\ FlattenSeq(Viewed(views)) \in Rows /\ Shown \in Rows /\ Unread \in Rows
         /\ Shown = FlattenSeq(Viewed(views)) \o plotted
         /\ Unread = FlattenSeq(InTables(resultsets, tables))
<1>1. Viewed(views) \in Seq(Rows) /\ InTables(resultsets, tables) \in Seq(Rows)
  BY ListsTyped
<1>2. FlattenSeq(Viewed(views)) \in Rows /\ FlattenSeq(InTables(resultsets, tables)) \in Rows
  BY <1>1, FlattenAppend DEF Rows
<1>3. plotted \in Rows
  BY DEF RowTypes
<1>4. FlattenSeq(Viewed(views)) \o plotted \in Rows
  BY <1>2, <1>3, ConcatProperties DEF Rows
<1> QED  BY <1>2, <1>4 DEF Shown, Unread, Viewed, InTables

(* What is shown and what is not yet read, when no row is moved.            *)
LEMMA SameRows ==
  ASSUME RowTypes, TablesListed, UNCHANGED <<views, plotted, resultsets>>,
         \A a \in DOMAIN tables : tables'[a].rows = tables[a].rows
  PROVE  Shown' = Shown /\ Unread' = Unread
<1>1. \A i \in DOMAIN resultsets : tables'[resultsets[i]].rows = tables[resultsets[i]].rows
  BY DEF TablesListed
<1>2. InTables(resultsets', tables') = InTables(resultsets, tables)
  BY <1>1 DEF InTables
<1>3. Unread' = FlattenSeq(InTables(resultsets', tables')) /\ Unread = FlattenSeq(InTables(resultsets, tables))
  BY DEF Unread, InTables
<1>4. Shown' = Shown
  BY DEF Shown
<1> QED  BY <1>2, <1>3, <1>4

(* A signal more: the end of the run, or rows of the last table.            *)
LEMMA PostedMore ==
  ASSUME RowTypes, TablesListed, Named, InOrder, NEW s,
         s = Inactive \/ (tempResult # NoTable /\ s = Fetched(tempResult)),
         posted' = Append(posted, s), resultsets' = resultsets, DOMAIN tables' = DOMAIN tables
  PROVE  /\ Named' /\ InOrder' /\ posted' \in Seq(Signals)
         /\ \A a : Announced(a) => Announced(a)'
         /\ \A a : s = Fetched(a) => Announced(a)'
<1>1. s \in Signals
  <2>1. CASE s = Inactive
    BY <2>1, SignalFacts
  <2>2. CASE tempResult # NoTable /\ s = Fetched(tempResult)
    <3>1. tempResult \in TableAddresses
      BY <2>2 DEF TablesListed, RowTypes
    <3> QED  BY <2>2, <3>1, SignalFacts
  <2> QED  BY <2>1, <2>2
<1>2. posted \in Seq(Signals) /\ Len(posted) \in Nat /\ DOMAIN posted = 1..Len(posted)
  BY DEF RowTypes
<1>3. PICK n \in Nat : n = Len(posted)
  BY <1>2
<1>4. /\ posted' \in Seq(Signals) /\ DOMAIN posted' = 1..(n + 1)
      /\ (\A i \in 1..n : posted'[i] = posted[i]) /\ posted'[n + 1] = s
  <2>1. /\ posted' \in Seq(Signals) /\ Len(posted') = n + 1
        /\ (\A i \in 1..n : posted'[i] = posted[i]) /\ posted'[n + 1] = s
    BY <1>1, <1>2, <1>3, AppendProperties
  <2> QED  BY <2>1
<1>5. ASSUME NEW i \in DOMAIN posted'
      PROVE  (i \in DOMAIN posted /\ posted'[i] = posted[i]) \/ (i = n + 1 /\ posted'[i] = s)
  <2>1. i \in 1..n \/ i = n + 1
    BY <1>4
  <2>2. CASE i \in 1..n
    <3>1. i \in DOMAIN posted
      BY <1>2, <1>3, <2>2
    <3>2. posted'[i] = posted[i]
      BY <1>4, <2>2
    <3> QED  BY <3>1, <3>2
  <2>3. CASE i = n + 1
    BY <1>4, <2>3
  <2> QED  BY <2>1, <2>2, <2>3
<1>6. Named'
  <2> SUFFICES ASSUME NEW i \in DOMAIN posted', posted'[i].signal = "fetched"
               PROVE  posted'[i].table \in DOMAIN tables
    BY DEF Named
  <2>1. CASE i \in DOMAIN posted /\ posted'[i] = posted[i]
    BY <2>1 DEF Named
  <2>2. CASE posted'[i] = s
    <3>1. s = Fetched(tempResult) /\ tempResult # NoTable
      BY <2>2, SignalFacts
    <3>2. tempResult \in DOMAIN tables
      BY <3>1 DEF TablesListed, RowTypes
    <3> QED  BY <2>2, <3>1, <3>2, SignalFacts
  <2> QED  BY <1>5, <2>1, <2>2
<1>7. InOrder'
  <2> SUFFICES ASSUME NEW i \in DOMAIN posted', NEW j \in DOMAIN posted', NEW k \in DOMAIN resultsets,
                      NEW l \in DOMAIN resultsets, i < j, posted'[i] = Fetched(resultsets[k]),
                      posted'[j] = Fetched(resultsets[l])
               PROVE  k <= l
    BY DEF InOrder
  <2>1. i \in DOMAIN posted /\ posted'[i] = posted[i]
    BY <1>2, <1>3, <1>4
  <2>2. CASE j \in DOMAIN posted /\ posted'[j] = posted[j]
    BY <2>1, <2>2 DEF InOrder
  <2>3. CASE posted'[j] = s
    <3>1. s = Fetched(tempResult) /\ tempResult # NoTable
      BY <2>3, SignalFacts
    <3>2. resultsets[l] = tempResult
      BY <2>3, <3>1, SignalFacts
    <3>3. resultsets \in Seq(TableAddresses) /\ tempResult = resultsets[Len(resultsets)]
          /\ Len(resultsets) \in DOMAIN resultsets
      BY <3>1 DEF TablesListed, RowTypes
    <3>4. l = Len(resultsets)
      BY <3>2, <3>3 DEF TablesListed
    <3> QED  BY <3>3, <3>4
  <2> QED  BY <1>5, <2>2, <2>3
<1>8. ASSUME NEW a, Announced(a) PROVE Announced(a)'
  <2>1. PICK i \in DOMAIN posted : posted[i] = Fetched(a)
    BY <1>8 DEF Announced
  <2>2. i \in DOMAIN posted' /\ posted'[i] = Fetched(a)
    BY <1>2, <1>3, <1>4, <2>1
  <2> QED  BY <2>2 DEF Announced
<1>9. ASSUME NEW a, s = Fetched(a) PROVE Announced(a)'
  <2>1. n + 1 \in DOMAIN posted'
    BY <1>4
  <2> QED  BY <1>4, <1>9, <2>1 DEF Announced
<1> QED  BY <1>4, <1>6, <1>7, <1>8, <1>9

(* A signal has been handled.                                               *)
LEMMA PostedLess ==
  ASSUME RowTypes, TablesListed, posted # <<>>,
         posted' = Tail(posted), resultsets' = resultsets, DOMAIN tables' = DOMAIN tables
  PROVE  /\ posted' \in Seq(Signals) /\ (Named => Named') /\ (InOrder => InOrder')
         /\ \A a : Announced(a) /\ Head(posted) # Fetched(a) => Announced(a)'
<1>1. posted \in Seq(Signals) /\ Len(posted) \in Nat /\ DOMAIN posted = 1..Len(posted)
      /\ Head(posted) = posted[1]
  BY DEF RowTypes
<1>2. PICK n \in Nat : n = Len(posted) /\ n > 0
  <2>1. Len(posted) # 0
    BY <1>1, EmptySeq
  <2>2. Len(posted) \in Nat
    BY <1>1
  <2>3. PICK n \in Nat : n = Len(posted)
    BY <2>2
  <2>4. n > 0
    BY <2>1, <2>3
  <2> QED  BY <2>3, <2>4
<1>3. /\ posted' \in Seq(Signals) /\ DOMAIN posted' = 1..(n - 1)
      /\ \A i \in 1..(n - 1) : posted'[i] = posted[i + 1]
  <2>1. /\ posted' \in Seq(Signals) /\ Len(posted') = n - 1
        /\ \A i \in 1..Len(posted') : posted'[i] = posted[i + 1]
    BY <1>1, <1>2, HeadTailProperties
  <2> QED  BY <2>1
<1>4. \A i \in DOMAIN posted' : i + 1 \in DOMAIN posted /\ posted'[i] = posted[i + 1]
  BY <1>1, <1>2, <1>3
<1>5. Named => Named'
  BY <1>4 DEF Named
<1>6. InOrder => InOrder'
  <2> SUFFICES ASSUME InOrder, NEW i \in DOMAIN posted', NEW j \in DOMAIN posted', NEW k \in DOMAIN resultsets,
                      NEW l \in DOMAIN resultsets, i < j, posted'[i] = Fetched(resultsets[k]),
                      posted'[j] = Fetched(resultsets[l])
               PROVE  k <= l
    BY DEF InOrder
  <2>1. i + 1 \in DOMAIN posted /\ j + 1 \in DOMAIN posted /\ i + 1 < j + 1
    BY <1>3, <1>4
  <2>2. posted[i + 1] = Fetched(resultsets[k]) /\ posted[j + 1] = Fetched(resultsets[l])
    BY <1>4
  <2> QED  BY <2>1, <2>2 DEF InOrder
<1>7. ASSUME NEW a, Announced(a), Head(posted) # Fetched(a) PROVE Announced(a)'
  <2>1. PICK i \in DOMAIN posted : posted[i] = Fetched(a)
    BY <1>7 DEF Announced
  <2>2. i # 1
    BY <1>1, <1>7, <2>1
  <2>3. i - 1 \in DOMAIN posted' /\ posted'[i - 1] = posted[i]
    <3>1. i - 1 \in 1..(n - 1) /\ i - 1 + 1 = i
      BY <1>1, <1>2, <2>2
    <3> QED  BY <1>3, <3>1
  <2> QED  BY <2>1, <2>3 DEF Announced
<1> QED  BY <1>3, <1>5, <1>6, <1>7

(* A list of addresses and the tables there.                                *)
LEMMA ListOfRows ==
  ASSUME NEW list \in Seq(TableAddresses), NEW ts,
         \A i \in DOMAIN list : ts[list[i]].rows \in Rows
  PROVE  /\ InTables(list, ts) \in Seq(Rows) /\ Len(InTables(list, ts)) = Len(list)
         /\ \A i \in 1..Len(list) : InTables(list, ts)[i] = ts[list[i]].rows
<1>1. DOMAIN list = 1..Len(list) /\ Len(list) \in Nat
  OBVIOUS
<1>2. InTables(list, ts) = [i \in 1..Len(list) |-> ts[list[i]].rows]
  BY <1>1 DEF InTables
<1> QED  BY <1>1, <1>2

WithRows(t, a, x) == [t EXCEPT ![a].rows = x]

LEMMA RowsChanged ==
  ASSUME NEW t, t \in [DOMAIN t -> Table], NEW a \in DOMAIN t, NEW x \in Rows
  PROVE  /\ WithRows(t, a, x) \in [DOMAIN t -> Table] /\ DOMAIN WithRows(t, a, x) = DOMAIN t
         /\ WithRows(t, a, x)[a].rows = x
         /\ \A b \in DOMAIN t : b # a => WithRows(t, a, x)[b] = t[b]
BY DEF Table, WithRows

Cleared(t, a) == [t EXCEPT ![a].columns = "clear"]

LEMMA ColumnsChanged ==
  ASSUME NEW t, t \in [DOMAIN t -> Table], NEW a \in DOMAIN t
  PROVE  /\ Cleared(t, a) \in [DOMAIN t -> Table] /\ DOMAIN Cleared(t, a) = DOMAIN t
         /\ \A b \in DOMAIN t : Cleared(t, a)[b].rows = t[b].rows
BY DEF Table, Cleared

(* The rows as the server numbers them.                                     *)
Upto(n) == [i \in 1..n |-> i]

LEMMA OneMore == ASSUME NEW n \in Nat PROVE Upto(n) \o <<n + 1>> = Upto(n + 1) /\ Upto(n) \in Rows
BY DEF Upto, Rows

LEMMA StartOfRows ==
  ASSUME NEW s \in Rows, NEW t \in Rows, NEW n \in Nat, s \o t = Upto(n)
  PROVE  s = Upto(Len(s))
<1>1. Len(s) \in Nat /\ Len(t) \in Nat /\ s \in Seq(Nat) /\ t \in Seq(Nat)
  BY DEF Rows
<1>2. Len(s \o t) = Len(s) + Len(t) /\ \A i \in 1..Len(s) : (s \o t)[i] = s[i]
  BY <1>1, ConcatProperties
<1>3. Len(Upto(n)) = n
  BY DEF Upto
<1>4. ASSUME NEW i \in 1..Len(s) PROVE s[i] = i
  <2>1. s[i] = Upto(n)[i]
    BY <1>2
  <2>2. i \in 1..n
    <3>1. PICK l \in Nat : l = Len(s)
      BY <1>1
    <3>2. PICK m \in Nat : m = Len(t)
      BY <1>1
    <3>3. n = l + m /\ i \in 1..l
      BY <1>2, <1>3, <3>1, <3>2
    <3> QED  BY <3>3
  <2> QED  BY <2>1, <2>2 DEF Upto
<1>5. s = [i \in 1..Len(s) |-> s[i]]
  BY <1>1
<1> QED  BY <1>4, <1>5 DEF Upto

LEMMA Regrouped ==
  ASSUME NEW s \in Rows, NEW t \in Rows, NEW u \in Rows
  PROVE  (s \o t) \o u = s \o (t \o u)
BY ConcatAssociative, SMTT(60) DEF Rows

LEMMA MovedOn ==
  ASSUME NEW s \in Rows, NEW t, NEW r \in Rows, NEW u \in Rows, SplitsInto(t, r, u)
  PROVE  (s \o r) \o u = s \o t
<1>1. (s \o r) \o u = s \o (r \o u)
  BY Regrouped
<1> QED  BY <1>1 DEF SplitsInto

(* A table is made, at the end of the list.                                 *)
LEMMA NewTableKept ==
  ASSUME RowsInv, NEW a \in TableAddresses, NewTable(a)
  PROVE  RowsInv'
<1> USE DEF NewTable, workerVars, shownVars
<1>1. RowTypes /\ TablesListed /\ PlacesKnown
  BY DEF RowsInv
<1>2. PICK n \in Nat : n = Len(resultsets) /\ DOMAIN resultsets = 1..n
  <2>1. resultsets \in Seq(TableAddresses)
    BY <1>1 DEF RowTypes
  <2>2. Len(resultsets) \in Nat /\ DOMAIN resultsets = 1..Len(resultsets)
    BY <2>1
  <2> HIDE DEF NewTable
  <2> QED  BY <2>2
<1>3. /\ resultsets' \in Seq(TableAddresses) /\ DOMAIN resultsets' = 1..(n + 1)
      /\ (\A i \in 1..n : resultsets'[i] = resultsets[i]) /\ resultsets'[n + 1] = a
      /\ Len(resultsets') = n + 1
  BY <1>1, <1>2, AppendProperties DEF RowTypes
<1>4. /\ DOMAIN tables' = DOMAIN tables \cup {a} /\ a \notin DOMAIN tables
      /\ tables'[a] = [columns |-> "raw", rows |-> <<>>]
      /\ \A b \in DOMAIN tables : tables'[b] = tables[b]
  OBVIOUS
<1>5. [columns |-> "raw", rows |-> <<>>] \in Table
  <2>1. <<>> \in Rows
    BY DEF Rows
  <2> QED  BY <2>1 DEF Table
<1>6. RowTypes'
  <2>1. tables' \in [DOMAIN tables' -> Table]
    BY <1>1, <1>4, <1>5 DEF RowTypes
  <2> QED  BY <1>1, <1>3, <1>4, <2>1 DEF RowTypes
<1>7. TablesListed'
  <2>1. \A b \in DOMAIN tables' : \E i \in DOMAIN resultsets' : resultsets'[i] = b
    <3> TAKE b \in DOMAIN tables'
    <3>1. CASE b = a
      BY <1>3, <3>1
    <3>2. CASE b \in DOMAIN tables
      <4>1. PICK i \in DOMAIN resultsets : resultsets[i] = b
        BY <1>1, <3>2 DEF TablesListed
      <4> QED  BY <1>2, <1>3, <4>1
    <3> QED  BY <1>4, <3>1, <3>2
  <2>2. \A i \in 1..n : resultsets'[i] \in DOMAIN tables
    BY <1>1, <1>2, <1>3 DEF TablesListed
  <2>3. \A i \in DOMAIN resultsets' : resultsets'[i] \in DOMAIN tables'
    <3> TAKE i \in DOMAIN resultsets'
    <3>1. i \in 1..n \/ i = n + 1
      BY <1>3
    <3> QED  BY <1>3, <1>4, <2>2, <3>1
  <2>4. \A i, j \in DOMAIN resultsets' : resultsets'[i] = resultsets'[j] => i = j
    <3> SUFFICES ASSUME NEW i \in DOMAIN resultsets', NEW j \in DOMAIN resultsets',
                        resultsets'[i] = resultsets'[j]
                 PROVE  i = j
      OBVIOUS
    <3>1. (i \in 1..n \/ i = n + 1) /\ (j \in 1..n \/ j = n + 1)
      BY <1>3
    <3>2. CASE i \in 1..n /\ j \in 1..n
      BY <1>1, <1>2, <1>3, <3>2 DEF TablesListed
    <3>3. CASE ~(i \in 1..n /\ j \in 1..n)
      BY <1>3, <1>4, <2>2, <3>1, <3>3
    <3> QED  BY <3>2, <3>3
  <2>5. tempResult' = resultsets'[Len(resultsets')] /\ resultsets' # <<>>
    BY <1>3
  <2>6. \A i \in DOMAIN unclear' : unclear'[i] \in DOMAIN tables'
    BY <1>1, <1>4 DEF TablesListed
  <2>7. \A b \in DOMAIN tables' : Len(tables'[b].rows) <= sent' /\ Len(tables'[b].rows) <= MaxSent
    <3> TAKE b \in DOMAIN tables'
    <3>1. CASE b = a
      <4>1. Len(tables'[b].rows) = 0
        BY <1>4, <3>1
      <4> QED  BY <1>1, <4>1, Bounds DEF RowTypes
    <3>2. CASE b \in DOMAIN tables
      BY <1>1, <1>4, <3>2 DEF TablesListed
    <3> QED  BY <1>4, <3>1, <3>2
  <2> QED  BY <2>1, <2>3, <2>4, <2>5, <2>6, <2>7 DEF TablesListed
<1>8. PlacesKnown'
  BY <1>1, <1>4 DEF PlacesKnown
<1>9. ASSUME ~overtaken PROVE Announcements' /\ Conserved'
  <2>1. Announcements /\ Conserved
    BY <1>9 DEF RowsInv
  <2>2. AllAnnounced'
    <3> SUFFICES ASSUME NEW b \in DOMAIN tables', tables'[b].rows # <<>>
                 PROVE  Announced(b)'
      BY DEF AllAnnounced
    <3>1. b \in DOMAIN tables /\ tables[b].rows # <<>>
      BY <1>4
    <3>2. b # tempResult
      BY <1>1, <3>1, Bounds DEF RowTypes
    <3>3. Announced(b)
      BY <2>1, <3>1, <3>2 DEF Announcements, AllAnnounced
    <3> QED  BY <3>3 DEF Announced
  <2>3. Named'
    BY <1>4, <2>1 DEF Announcements, Named
  <2>4. InOrder'
    <3> SUFFICES ASSUME NEW i \in DOMAIN posted, NEW j \in DOMAIN posted, NEW k \in DOMAIN resultsets',
                        NEW l \in DOMAIN resultsets', i < j, posted[i] = Fetched(resultsets'[k]),
                        posted[j] = Fetched(resultsets'[l])
                 PROVE  k <= l
      BY DEF InOrder
    <3>1. resultsets'[k] \in DOMAIN tables /\ resultsets'[l] \in DOMAIN tables
      <4>1. posted[i].signal = "fetched" /\ posted[i].table = resultsets'[k]
            /\ posted[j].signal = "fetched" /\ posted[j].table = resultsets'[l]
        BY SignalFacts
      <4> QED  BY <2>1, <4>1 DEF Announcements, Named
    <3>2. k \in 1..n /\ l \in 1..n
      BY <1>3, <1>4, <3>1
    <3> QED  BY <1>2, <1>3, <2>1, <3>2 DEF Announcements, InOrder
  <2>5. Unread' = Unread
    <3>1. InTables(resultsets, tables) \in Seq(Rows) /\ Len(InTables(resultsets, tables)) = n
      BY <1>1, <1>2, ListsTyped
    <3>2. InTables(resultsets', tables') = Append(InTables(resultsets, tables), <<>>)
      <4> DEFINE u == InTables(resultsets, tables)
                 v == InTables(resultsets', tables')
                 w == Append(u, <<>>)
      <4>1. v = [i \in 1..(n + 1) |-> tables'[resultsets'[i]].rows]
        BY <1>3 DEF InTables
      <4>2. u = [i \in 1..n |-> tables[resultsets[i]].rows]
        BY <1>2 DEF InTables
      <4>3. /\ w = [i \in 1..(n + 1) |-> w[i]] /\ (\A i \in 1..n : w[i] = u[i]) /\ w[n + 1] = <<>>
        <5>1. <<>> \in Rows
          BY DEF Rows
        <5> HIDE DEF u
        <5>2. /\ w \in Seq(Rows) /\ Len(w) = n + 1
              /\ (\A i \in 1..n : w[i] = u[i]) /\ w[n + 1] = <<>>
          BY <3>1, <5>1, AppendProperties DEF u
        <5> HIDE DEF w
        <5> QED  BY <5>2
      <4>4. \A i \in 1..(n + 1) : tables'[resultsets'[i]].rows = w[i]
        <5> HIDE DEF u, w
        <5> TAKE i \in 1..(n + 1)
        <5>1. CASE i = n + 1
          BY <1>3, <1>4, <4>3, <5>1
        <5>2. CASE i \in 1..n
          <6>1. resultsets'[i] = resultsets[i] /\ resultsets[i] \in DOMAIN tables
            BY <1>1, <1>2, <1>3, <5>2 DEF TablesListed
          <6> QED  BY <1>4, <4>2, <4>3, <5>2, <6>1
        <5>3. i = n + 1 \/ i \in 1..n
          OBVIOUS
        <5> QED  BY <5>1, <5>2, <5>3
      <4> HIDE DEF u, v, w
      <4>5. v = w
        BY <4>1, <4>3, <4>4
      <4> QED  BY <4>5 DEF u, v, w
    <3>3. Unread' = FlattenSeq(InTables(resultsets', tables'))
      BY DEF Unread, InTables
    <3>4. Unread = FlattenSeq(InTables(resultsets, tables)) /\ Unread \in Rows
      BY <1>1, ShownTyped
    <3>5. <<>> \in Rows /\ Unread \o <<>> = Unread
      BY <3>4, ConcatEmptySeq DEF Rows
    <3> QED  BY <3>1, <3>2, <3>3, <3>4, <3>5, FlattenAppend DEF Rows
  <2>6. Shown' = Shown
    BY DEF Shown
  <2> QED  BY <2>1, <2>2, <2>3, <2>4, <2>5, <2>6 DEF Announcements, Conserved
<1> QED  BY <1>6, <1>7, <1>8, <1>9 DEF RowsInv

(* A row comes, at the end of the last table.                               *)
LEMMA AppendRowKept ==
  ASSUME RowsInv, AppendRow
  PROVE  RowsInv'
<1> USE DEF shownVars
<1>1. RowTypes /\ TablesListed /\ PlacesKnown
  BY DEF RowsInv
<1>2. /\ tempResult # NoTable /\ sent < MaxSent /\ sent' = sent + 1 /\ tempRows' = tempRows + 1
      /\ tables' = [tables EXCEPT ![tempResult].rows = Append(tables[tempResult].rows, sent + 1)]
      /\ UNCHANGED <<running, resultsets, tempResult, clarify, unclear, shownVars>>
  BY DEF AppendRow
<1>3. PICK n \in Nat : n = Len(resultsets) /\ DOMAIN resultsets = 1..n /\ resultsets \in Seq(TableAddresses)
  <2>1. resultsets \in Seq(TableAddresses)
    BY <1>1 DEF RowTypes
  <2>2. Len(resultsets) \in Nat /\ DOMAIN resultsets = 1..Len(resultsets)
    BY <2>1
  <2> QED  BY <2>1, <2>2
<1>4. /\ n \in DOMAIN resultsets /\ tempResult = resultsets[n] /\ tempResult \in DOMAIN tables
      /\ \A i \in 1..(n - 1) : resultsets[i] # tempResult /\ resultsets[i] \in DOMAIN tables
  <2>1. tempResult = resultsets[n] /\ n # 0
    <3>1. resultsets # <<>> /\ tempResult = resultsets[Len(resultsets)]
      BY <1>1, <1>2 DEF TablesListed
    <3>2. Len(resultsets) # 0
      BY <1>3, <3>1, EmptySeq
    <3> QED  BY <1>3, <3>1, <3>2
  <2>2. n \in 1..n
    BY <2>1
  <2>3. resultsets[n] \in DOMAIN tables
    BY <1>1, <1>3, <2>2 DEF TablesListed
  <2>4. ASSUME NEW i \in 1..(n - 1)
        PROVE  resultsets[i] # tempResult /\ resultsets[i] \in DOMAIN tables
    <3>1. i \in 1..n /\ i # n
      OBVIOUS
    <3> QED  BY <1>1, <1>3, <2>1, <2>2, <3>1 DEF TablesListed
  <2> QED  BY <1>3, <2>1, <2>2, <2>3, <2>4
<1>5. PICK old \in Rows : old = tables[tempResult].rows
  <2>1. tables[tempResult] \in Table
    BY <1>1, <1>4 DEF RowTypes
  <2> QED  BY <2>1 DEF Table
<1>6. sent \in Nat /\ Append(old, sent + 1) \in Rows /\ Len(Append(old, sent + 1)) = Len(old) + 1
      /\ Append(old, sent + 1) = old \o <<sent + 1>> /\ Len(old) \in Nat /\ <<sent + 1>> \in Rows
  <2>1. sent \in Nat /\ old \in Seq(Nat)
    BY <1>1, <1>5 DEF RowTypes, Rows
  <2>2. sent + 1 \in Nat
    BY <2>1
  <2> QED  BY <2>1, <2>2, AppendProperties, AppendIsConcat DEF Rows
<1>7. PICK more \in Rows : more = Append(old, sent + 1)
  BY <1>6
<1>8. /\ tables' \in [DOMAIN tables -> Table] /\ DOMAIN tables' = DOMAIN tables
      /\ tables'[tempResult].rows = more
      /\ \A b \in DOMAIN tables : b # tempResult => tables'[b] = tables[b]
  <2>1. tables \in [DOMAIN tables -> Table]
    BY <1>1 DEF RowTypes
  <2>2. tables' = WithRows(tables, tempResult, more)
    BY <1>2, <1>5, <1>7 DEF WithRows
  <2> QED  BY <1>4, <2>1, <2>2, RowsChanged
<1>9. posted' = posted \/ posted' = Append(posted, Fetched(tempResult))
  BY DEF AppendRow
<1>10. tempRows' % NotifyEvery = 0 => posted' = Append(posted, Fetched(tempResult))
  BY DEF AppendRow
<1>11. RowTypes'
  <2>1. posted' \in Seq(Signals)
    <3>1. tempResult \in TableAddresses
      BY <1>1, <1>4 DEF RowTypes
    <3>2. Fetched(tempResult) \in Signals /\ posted \in Seq(Signals)
      BY <1>1, <3>1, SignalFacts DEF RowTypes
    <3> QED  BY <1>9, <3>2, AppendProperties
  <2>2. tempRows' \in Nat /\ sent' \in Nat
    BY <1>1, <1>2 DEF RowTypes
  <2> QED  BY <1>1, <1>2, <1>8, <2>1, <2>2 DEF RowTypes
<1>12. TablesListed'
  <2>1. \A b \in DOMAIN tables : Len(tables'[b].rows) <= sent' /\ Len(tables'[b].rows) <= MaxSent
    <3> TAKE b \in DOMAIN tables
    <3>1. CASE b = tempResult
      <4>1. Len(tables'[b].rows) = Len(old) + 1 /\ Len(old) <= sent
        BY <1>1, <1>4, <1>5, <1>6, <1>7, <1>8, <3>1 DEF TablesListed
      <4> QED  BY <1>2, <1>6, <4>1, Bounds
    <3>2. CASE b # tempResult
      <4>1. tables'[b] = tables[b] /\ Len(tables[b].rows) <= sent /\ Len(tables[b].rows) <= MaxSent
        BY <1>1, <1>8, <3>2 DEF TablesListed
      <4>2. Len(tables[b].rows) \in Nat
        <5>1. tables[b] \in Table
          BY <1>1 DEF RowTypes
        <5> QED  BY <5>1 DEF Table, Rows
      <4> QED  BY <1>2, <1>6, <4>1, <4>2, Bounds
    <3> QED  BY <3>1, <3>2
  <2> QED  BY <1>1, <1>2, <1>8, <2>1 DEF TablesListed
<1>13. PlacesKnown'
  <2>1. ASSUME copying # NoTable PROVE posted' # <<>> /\ Head(posted') = Head(posted)
    <3>1. posted \in Seq(Signals) /\ posted # <<>>
      BY <1>1, <2>1 DEF PlacesKnown, RowTypes
    <3>2. CASE posted' = posted
      BY <3>1, <3>2
    <3>3. CASE posted' = Append(posted, Fetched(tempResult))
      <4>1. tempResult \in TableAddresses
        BY <1>1, <1>4 DEF RowTypes
      <4>2. Fetched(tempResult) \in Signals
        BY <4>1, SignalFacts
      <4>3. 1 \in 1..Len(posted)
        BY <3>1
      <4> QED  BY <3>1, <3>3, <4>2, <4>3, AppendProperties
    <3> QED  BY <1>9, <3>2, <3>3
  <2> QED  BY <1>1, <1>2, <1>8, <2>1 DEF PlacesKnown
<1>14. ASSUME ~overtaken PROVE Announcements' /\ Conserved'
  <2>1. AllAnnounced /\ Named /\ InOrder /\ Conserved
    BY <1>14 DEF RowsInv, Announcements
  <2>2. /\ Named' /\ InOrder' /\ \A a : Announced(a) => Announced(a)'
        /\ \A a : a = tempResult /\ tempRows' % NotifyEvery = 0 => Announced(a)'
    <3>1. CASE posted' = Append(posted, Fetched(tempResult))
      <4>1. /\ Named' /\ InOrder' /\ \A a : Announced(a) => Announced(a)'
            /\ \A a : Fetched(tempResult) = Fetched(a) => Announced(a)'
        BY <1>1, <1>2, <1>8, <2>1, <3>1, PostedMore
      <4>2. \A a : a = tempResult => Announced(a)'
        BY <4>1
      <4> QED  BY <4>1, <4>2
    <3>2. CASE posted' = posted
      <4>1. ASSUME tempRows' % NotifyEvery = 0 PROVE FALSE
        <5>1. posted' = Append(posted, Fetched(tempResult))
          BY <1>10, <4>1
        <5>2. tempResult \in TableAddresses
          BY <1>1, <1>4 DEF RowTypes
        <5>3. posted \in Seq(Signals) /\ Fetched(tempResult) \in Signals
          BY <1>1, <5>2, SignalFacts DEF RowTypes
        <5>4. Len(posted') = Len(posted) + 1 /\ Len(posted) \in Nat
          BY <5>1, <5>3, AppendProperties
        <5> QED  BY <3>2, <5>4
      <4> QED  BY <1>2, <1>8, <2>1, <3>2, <4>1 DEF Named, InOrder, Announced
    <3> QED  BY <1>9, <3>1, <3>2
  <2>3. AllAnnounced'
    <3> SUFFICES ASSUME NEW a \in DOMAIN tables, tables'[a].rows # <<>>,
                        a # tempResult \/ tempRows' % NotifyEvery = 0
                 PROVE  Announced(a)'
      BY <1>2, <1>8 DEF AllAnnounced
    <3>1. CASE a = tempResult
      BY <2>2, <3>1
    <3>2. CASE a # tempResult
      <4>1. tables[a].rows # <<>>
        BY <1>8, <3>2
      <4>2. Announced(a)
        BY <2>1, <3>2, <4>1 DEF AllAnnounced
      <4> QED  BY <2>2, <4>2
    <3> QED  BY <3>1, <3>2
  <2>4. Unread' = Unread \o <<sent + 1>>
    <3>1. /\ InTables(resultsets, tables) \in Seq(Rows) /\ Len(InTables(resultsets, tables)) = n
          /\ \A i \in 1..n : InTables(resultsets, tables)[i] = tables[resultsets[i]].rows
      <4>1. \A i \in DOMAIN resultsets : tables[resultsets[i]].rows \in Rows
        BY <1>1 DEF RowTypes, TablesListed, Table
      <4> QED  BY <1>3, <4>1, ListOfRows
    <3>2. /\ InTables(resultsets, tables') \in Seq(Rows) /\ Len(InTables(resultsets, tables')) = n
          /\ \A i \in 1..n : InTables(resultsets, tables')[i] = tables'[resultsets[i]].rows
      <4>1. \A i \in DOMAIN resultsets : tables'[resultsets[i]].rows \in Rows
        BY <1>1, <1>8 DEF TablesListed, Table
      <4> QED  BY <1>3, <4>1, ListOfRows
    <3>3. AddsToLast(InTables(resultsets, tables), InTables(resultsets, tables'), <<sent + 1>>)
      <4>1. \A i \in 1..(n - 1) : InTables(resultsets, tables')[i] = InTables(resultsets, tables)[i]
        <5> TAKE i \in 1..(n - 1)
        <5>1. i \in 1..n /\ tables'[resultsets[i]] = tables[resultsets[i]]
          BY <1>4, <1>8
        <5> QED  BY <3>1, <3>2, <5>1
      <4>2. n \in 1..n
        BY <1>3, <1>4
      <4>3. InTables(resultsets, tables)[n] = old /\ InTables(resultsets, tables')[n] = old \o <<sent + 1>>
        BY <1>4, <1>5, <1>6, <1>7, <1>8, <3>1, <3>2, <4>2
      <4>4. InTables(resultsets, tables) # <<>>
        <5>1. Len(InTables(resultsets, tables)) # 0
          BY <3>1, <4>2
        <5> QED  BY <5>1
      <4> QED  BY <3>1, <3>2, <4>1, <4>3, <4>4 DEF AddsToLast
    <3>4. Unread' = FlattenSeq(InTables(resultsets, tables')) /\ Unread = FlattenSeq(InTables(resultsets, tables))
      <4>1. resultsets' = resultsets
        BY <1>2
      <4> QED  BY <4>1 DEF Unread, InTables
    <3>5. FlattenSeq(InTables(resultsets, tables')) = FlattenSeq(InTables(resultsets, tables)) \o <<sent + 1>>
      BY <1>6, <3>1, <3>2, <3>3, FlattenLast DEF Rows
    <3> QED  BY <3>4, <3>5
  <2>5. Shown' = Shown /\ Shown \in Rows /\ Unread \in Rows
    BY <1>1, <1>2, ShownTyped DEF Shown
  <2>6. Shown \o (Unread \o <<sent + 1>>) = (Shown \o Unread) \o <<sent + 1>>
    BY <1>6, <2>5, Regrouped
  <2>7. Conserved'
    <3>1. Shown \o Unread = Upto(sent)
      BY <2>1 DEF Conserved, Upto
    <3>2. Upto(sent) \o <<sent + 1>> = Upto(sent + 1)
      BY <1>6, OneMore
    <3>3. Shown' \o Unread' = Upto(sent')
      BY <1>2, <2>4, <2>5, <2>6, <3>1, <3>2
    <3> QED  BY <3>3 DEF Conserved, Upto
  <2> QED  BY <2>2, <2>3, <2>7 DEF Announcements
<1> QED  BY <1>2, <1>11, <1>12, <1>13, <1>14 DEF RowsInv

(* The table is complete: what was not announced of it is.                  *)
LEMMA EndTableKept ==
  ASSUME RowsInv, NEW failed \in BOOLEAN, EndTable(failed)
  PROVE  RowsInv'
<1> USE DEF shownVars
<1>1. RowTypes /\ TablesListed /\ PlacesKnown
  BY DEF RowsInv
<1>2. /\ tempResult # NoTable /\ tempResult' = NoTable
      /\ UNCHANGED <<running, tables, resultsets, tempRows, clarify, unclear, sent, shownVars>>
  BY DEF EndTable
<1>3. posted' = posted \/ posted' = Append(posted, Fetched(tempResult))
  BY DEF EndTable
<1>4. tempRows % NotifyEvery # 0 => posted' = Append(posted, Fetched(tempResult))
  BY DEF EndTable
<1>5. tempResult \in TableAddresses /\ posted \in Seq(Signals) /\ Fetched(tempResult) \in Signals
  <2>1. resultsets \in Seq(TableAddresses) /\ resultsets # <<>>
        /\ tempResult = resultsets[Len(resultsets)] /\ posted \in Seq(Signals)
    BY <1>1, <1>2 DEF TablesListed, RowTypes
  <2>2. Len(resultsets) \in 1..Len(resultsets)
    BY <2>1
  <2>3. tempResult \in TableAddresses
    BY <2>1, <2>2
  <2> QED  BY <2>1, <2>3, SignalFacts
<1>6. RowTypes'
  <2>1. posted' \in Seq(Signals)
    BY <1>3, <1>5, AppendProperties
  <2> QED  BY <1>1, <1>2, <2>1 DEF RowTypes
<1>7. TablesListed'
  BY <1>1, <1>2 DEF TablesListed
<1>8. PlacesKnown'
  <2>1. ASSUME copying # NoTable PROVE posted' # <<>> /\ Head(posted') = Head(posted)
    <3>1. posted # <<>>
      BY <1>1, <2>1 DEF PlacesKnown
    <3>2. CASE posted' = posted
      BY <3>1, <3>2
    <3>3. CASE posted' = Append(posted, Fetched(tempResult))
      <4>1. 1 \in 1..Len(posted)
        BY <1>5, <3>1
      <4> QED  BY <1>5, <3>1, <3>3, <4>1, AppendProperties
    <3> QED  BY <1>3, <3>2, <3>3
  <2> QED  BY <1>1, <1>2, <2>1 DEF PlacesKnown
<1>9. ASSUME ~overtaken PROVE Announcements' /\ Conserved'
  <2>1. AllAnnounced /\ Named /\ InOrder /\ Conserved
    BY <1>9 DEF RowsInv, Announcements
  <2>2. /\ Named' /\ InOrder' /\ \A a : Announced(a) => Announced(a)'
        /\ \A a : a = tempResult /\ tempRows % NotifyEvery # 0 => Announced(a)'
    <3>1. CASE posted' = Append(posted, Fetched(tempResult))
      <4>1. /\ Named' /\ InOrder' /\ \A a : Announced(a) => Announced(a)'
            /\ \A a : Fetched(tempResult) = Fetched(a) => Announced(a)'
        BY <1>1, <1>2, <2>1, <3>1, PostedMore
      <4>2. \A a : a = tempResult => Announced(a)'
        BY <4>1
      <4> QED  BY <4>1, <4>2
    <3>2. CASE posted' = posted
      <4>1. ASSUME tempRows % NotifyEvery # 0 PROVE FALSE
        <5>1. posted' = Append(posted, Fetched(tempResult))
          BY <1>4, <4>1
        <5>2. Len(posted') = Len(posted) + 1 /\ Len(posted) \in Nat
          BY <1>5, <5>1, AppendProperties
        <5> QED  BY <3>2, <5>2
      <4> QED  BY <1>2, <2>1, <3>2, <4>1 DEF Named, InOrder, Announced
    <3> QED  BY <1>3, <3>1, <3>2
  <2>3. AllAnnounced'
    <3> SUFFICES ASSUME NEW a \in DOMAIN tables, tables[a].rows # <<>>
                 PROVE  Announced(a)'
      BY <1>2 DEF AllAnnounced
    <3>1. CASE a = tempResult /\ tempRows % NotifyEvery # 0
      BY <2>2, <3>1
    <3>2. CASE ~(a = tempResult /\ tempRows % NotifyEvery # 0)
      <4>1. Announced(a)
        BY <2>1, <3>2 DEF AllAnnounced
      <4> QED  BY <2>2, <4>1
    <3> QED  BY <3>1, <3>2
  <2>4. Shown' = Shown /\ Unread' = Unread
    BY <1>1, <1>2, SameRows
  <2>5. Conserved'
    BY <1>2, <2>1, <2>4 DEF Conserved
  <2> QED  BY <2>2, <2>3, <2>5 DEF Announcements
<1> QED  BY <1>2, <1>6, <1>7, <1>8, <1>9 DEF RowsInv

(* The run is over.                                                         *)
LEMMA RunOverKept ==
  ASSUME RowsInv, NEW lost \in BOOLEAN, RunOver(lost)
  PROVE  RowsInv'
<1> USE DEF shownVars
<1>1. RowTypes /\ TablesListed /\ PlacesKnown
  BY DEF RowsInv
<1>2. /\ running' = FALSE /\ clarify' = TRUE /\ posted' = Append(posted, Inactive)
      /\ UNCHANGED <<tables, resultsets, tempResult, tempRows, unclear, sent, shownVars>>
  BY DEF RunOver
<1>3. posted \in Seq(Signals) /\ Inactive \in Signals
  BY <1>1, SignalFacts DEF RowTypes
<1>4. RowTypes'
  BY <1>1, <1>2, <1>3, AppendProperties DEF RowTypes
<1>5. TablesListed'
  BY <1>1, <1>2 DEF TablesListed
<1>6. PlacesKnown'
  <2>1. ASSUME copying # NoTable PROVE posted' # <<>> /\ Head(posted') = Head(posted)
    <3>1. posted # <<>>
      BY <1>1, <2>1 DEF PlacesKnown
    <3>2. 1 \in 1..Len(posted)
      BY <1>3, <3>1
    <3> QED  BY <1>2, <1>3, <3>1, <3>2, AppendProperties
  <2> QED  BY <1>1, <1>2, <2>1 DEF PlacesKnown
<1>7. ASSUME ~overtaken PROVE Announcements' /\ Conserved'
  <2>1. AllAnnounced /\ Named /\ InOrder /\ Conserved
    BY <1>7 DEF RowsInv, Announcements
  <2>2. Named' /\ InOrder' /\ \A a : Announced(a) => Announced(a)'
    BY <1>1, <1>2, <2>1, PostedMore
  <2>3. AllAnnounced'
    <3> SUFFICES ASSUME NEW a \in DOMAIN tables, tables[a].rows # <<>>,
                        a # tempResult \/ tempRows % NotifyEvery = 0
                 PROVE  Announced(a)'
      BY <1>2 DEF AllAnnounced
    <3>1. Announced(a)
      BY <2>1 DEF AllAnnounced
    <3> QED  BY <2>2, <3>1
  <2>4. Shown' = Shown /\ Unread' = Unread
    BY <1>1, <1>2, SameRows
  <2>5. Conserved'
    BY <1>2, <2>1, <2>4 DEF Conserved
  <2> QED  BY <2>2, <2>3, <2>5 DEF Announcements
<1> QED  BY <1>2, <1>4, <1>5, <1>6, <1>7 DEF RowsInv

(* Steps that move no row and post no signal.                               *)
LEMMA QuietKept ==
  ASSUME RowsInv, RowTypes', TablesListed', PlacesKnown',
         UNCHANGED <<resultsets, tempResult, tempRows, sent, posted, views, plotted, overtaken>>,
         DOMAIN tables' = DOMAIN tables, \A a \in DOMAIN tables : tables'[a].rows = tables[a].rows
  PROVE  RowsInv'
<1>1. RowTypes /\ TablesListed
  BY DEF RowsInv
<1>2. Shown' = Shown /\ Unread' = Unread
  BY <1>1, SameRows
<1>3. ASSUME ~overtaken PROVE Announcements' /\ Conserved'
  <2>1. AllAnnounced /\ Named /\ InOrder /\ Conserved
    BY <1>3 DEF RowsInv, Announcements
  <2>2. Conserved'
    BY <1>2, <2>1 DEF Conserved
  <2>3. AllAnnounced'
    <3> SUFFICES ASSUME NEW a \in DOMAIN tables, tables[a].rows # <<>>,
                        a # tempResult \/ tempRows % NotifyEvery = 0
                 PROVE  Announced(a)'
      BY DEF AllAnnounced
    <3>1. Announced(a)
      BY <2>1 DEF AllAnnounced
    <3> QED  BY <3>1 DEF Announced
  <2>4. Named' /\ InOrder'
    BY <2>1 DEF Named, InOrder
  <2> QED  BY <2>2, <2>3, <2>4 DEF Announcements
<1> QED  BY <1>3 DEF RowsInv

LEMMA ClarifyTablesKept ==
  ASSUME RowsInv, ClarifyTables
  PROVE  RowsInv'
<1> USE DEF shownVars
<1>1. RowTypes /\ TablesListed /\ PlacesKnown
  BY DEF RowsInv
<1>2. /\ clarify' = FALSE /\ unclear' = resultsets
      /\ UNCHANGED <<running, tables, resultsets, tempResult, tempRows, sent, posted, shownVars>>
  BY DEF ClarifyTables
<1>3. RowTypes' /\ TablesListed' /\ PlacesKnown'
  BY <1>1, <1>2 DEF RowTypes, TablesListed, PlacesKnown
<1> QED  BY <1>2, <1>3, QuietKept

LEMMA ClarifyTableKept ==
  ASSUME RowsInv, ClarifyTable
  PROVE  RowsInv'
<1> USE DEF shownVars
<1>1. RowTypes /\ TablesListed /\ PlacesKnown
  BY DEF RowsInv
<1>2. /\ unclear # <<>> /\ unclear' = Tail(unclear)
      /\ tables' = [tables EXCEPT ![Head(unclear)].columns = "clear"]
      /\ UNCHANGED <<running, resultsets, tempResult, tempRows, clarify, sent, posted, shownVars>>
  BY DEF ClarifyTable
<1>3. unclear \in Seq(TableAddresses) /\ Len(unclear) \in Nat /\ DOMAIN unclear = 1..Len(unclear)
      /\ Head(unclear) = unclear[1] /\ 1 \in DOMAIN unclear
  <2>1. unclear \in Seq(TableAddresses)
    BY <1>1 DEF RowTypes
  <2> QED  BY <1>2, <2>1
<1>4. PICK a \in DOMAIN tables : a = Head(unclear)
  BY <1>1, <1>3 DEF TablesListed
<1>5. /\ tables' \in [DOMAIN tables -> Table] /\ DOMAIN tables' = DOMAIN tables
      /\ \A b \in DOMAIN tables : tables'[b].rows = tables[b].rows
  <2>1. tables \in [DOMAIN tables -> Table]
    BY <1>1 DEF RowTypes
  <2>2. tables' = Cleared(tables, a)
    BY <1>2, <1>4 DEF Cleared
  <2> QED  BY <2>1, <2>2, ColumnsChanged
<1>6. /\ unclear' \in Seq(TableAddresses)
      /\ \A i \in DOMAIN unclear' : i + 1 \in DOMAIN unclear /\ unclear'[i] = unclear[i + 1]
  <2>1. /\ unclear' \in Seq(TableAddresses) /\ Len(unclear') = Len(unclear) - 1
        /\ \A i \in 1..Len(unclear') : unclear'[i] = unclear[i + 1]
    BY <1>2, <1>3, HeadTailProperties
  <2> QED  BY <1>3, <2>1
<1>7. RowTypes'
  BY <1>1, <1>2, <1>5, <1>6 DEF RowTypes
<1>8. TablesListed'
  BY <1>1, <1>2, <1>5, <1>6 DEF TablesListed
<1>9. PlacesKnown'
  BY <1>1, <1>2, <1>5 DEF PlacesKnown
<1> QED  BY <1>2, <1>5, <1>7, <1>8, <1>9, QuietKept

LEMMA StopTimerKept ==
  ASSUME RowsInv, stopTimer
  PROVE  RowsInv'
<1> USE DEF workerVars
<1>1. RowTypes /\ TablesListed /\ PlacesKnown
  BY DEF RowsInv
<1>2. /\ timer' = FALSE
      /\ UNCHANGED <<workerVars, tables, posted, querySettings, views, plotted, copying, overtaken>>
  BY DEF stopTimer
<1>3. RowTypes' /\ TablesListed' /\ PlacesKnown'
  BY <1>1, <1>2 DEF RowTypes, TablesListed, PlacesKnown
<1> QED  BY <1>2, <1>3, QuietKept

LEMMA NewViewKept ==
  ASSUME RowsInv, NEW a \in TableAddresses, FetchedForNewView(a)
  PROVE  RowsInv'
<1> USE DEF workerVars
<1>1. RowTypes /\ TablesListed /\ PlacesKnown
  BY DEF RowsInv
<1>2. /\ copying' = a /\ querySettings = "tables" /\ a \in DOMAIN tables
      /\ posted # <<>> /\ Head(posted) = Fetched(a)
      /\ UNCHANGED <<workerVars, tables, posted, querySettings, timer, views, plotted, overtaken>>
  BY DEF FetchedForNewView, Fetches
<1>3. RowTypes' /\ TablesListed' /\ PlacesKnown'
  BY <1>1, <1>2 DEF RowTypes, TablesListed, PlacesKnown
<1> QED  BY <1>2, <1>3, QuietKept

(* Steps that handle a signal.                                              *)
LEMMA HeadIs ==
  ASSUME RowTypes, posted # <<>>
  PROVE  1 \in DOMAIN posted /\ Head(posted) = posted[1]
<1>1. posted \in Seq(Signals)
  BY DEF RowTypes
<1> QED  BY <1>1

LEMMA OtherSignalKept ==
  ASSUME RowsInv, OtherSignal
  PROVE  RowsInv'
<1> USE DEF workerVars, shownVars
<1>1. RowTypes /\ TablesListed /\ PlacesKnown
  BY DEF RowsInv
<1>2. /\ posted # <<>> /\ posted' = Tail(posted) /\ copying = NoTable
      /\ UNCHANGED <<workerVars, tables, shownVars>>
  BY DEF OtherSignal
<1>3. \A a \in DOMAIN tables : Head(posted) # Fetched(a)
  BY SignalFacts DEF OtherSignal
<1>4. /\ posted' \in Seq(Signals) /\ (Named => Named') /\ (InOrder => InOrder')
      /\ \A a : Announced(a) /\ Head(posted) # Fetched(a) => Announced(a)'
  BY <1>1, <1>2, PostedLess
<1>5. RowTypes' /\ TablesListed' /\ PlacesKnown'
  BY <1>1, <1>2, <1>4 DEF RowTypes, TablesListed, PlacesKnown
<1>6. ASSUME ~overtaken PROVE Announcements' /\ Conserved'
  <2>1. AllAnnounced /\ Named /\ InOrder /\ Conserved
    BY <1>6 DEF RowsInv, Announcements
  <2>2. AllAnnounced'
    <3> SUFFICES ASSUME NEW a \in DOMAIN tables, tables[a].rows # <<>>,
                        a # tempResult \/ tempRows % NotifyEvery = 0
                 PROVE  Announced(a)'
      BY <1>2 DEF AllAnnounced
    <3>1. Announced(a)
      BY <2>1 DEF AllAnnounced
    <3> QED  BY <1>3, <1>4, <3>1
  <2>3. Shown' = Shown /\ Unread' = Unread
    BY <1>1, <1>2, SameRows
  <2>4. Conserved'
    BY <1>2, <2>1, <2>3 DEF Conserved
  <2> QED  BY <1>4, <2>1, <2>2, <2>4 DEF Announcements
<1> QED  BY <1>2, <1>5, <1>6 DEF RowsInv

(* The rows of the table a signal names are taken: they are the next that   *)
(* were not yet read, for the tables before it in the list are empty.       *)
Taking(a) ==
    /\ a \in DOMAIN tables /\ posted # <<>> /\ Head(posted) = Fetched(a)
    /\ TakeRows(a) /\ posted' = Tail(posted)
    /\ UNCHANGED <<workerVars, querySettings, timer, overtaken, queries>>

LEMMA TakingKept ==
  ASSUME RowTypes, TablesListed, NEW a, Taking(a)
  PROVE  /\ tables' \in [DOMAIN tables -> Table] /\ DOMAIN tables' = DOMAIN tables
         /\ posted' \in Seq(Signals) /\ TablesListed' /\ (Announcements => Announcements')
         /\ tables[a].rows \in Rows
<1>1. tables' \in [DOMAIN tables -> Table] /\ DOMAIN tables' = DOMAIN tables
      /\ tables'[a].rows = <<>> /\ \A b \in DOMAIN tables : b # a => tables'[b] = tables[b]
  <2>1. <<>> \in Rows
    BY DEF Rows
  <2>2. tables \in [DOMAIN tables -> Table] /\ a \in DOMAIN tables
    BY DEF RowTypes, Taking
  <2>3. tables' = WithRows(tables, a, <<>>)
    BY DEF Taking, TakeRows, WithRows
  <2> QED  BY <2>1, <2>2, <2>3, RowsChanged
<1>2. UNCHANGED <<resultsets, tempResult, tempRows, unclear, sent>>
  BY DEF Taking, workerVars
<1>3. /\ posted' \in Seq(Signals) /\ (Named => Named') /\ (InOrder => InOrder')
      /\ \A b : Announced(b) /\ Head(posted) # Fetched(b) => Announced(b)'
  BY <1>1, <1>2, PostedLess DEF Taking
<1>4. TablesListed'
  <2>1. \A b \in DOMAIN tables : Len(tables'[b].rows) <= sent /\ Len(tables'[b].rows) <= MaxSent
    <3> TAKE b \in DOMAIN tables
    <3>1. CASE b = a
      <4>1. Len(tables'[b].rows) = 0 /\ sent \in Nat
        BY <1>1, <3>1 DEF RowTypes
      <4> QED  BY <4>1, Bounds
    <3>2. CASE b # a
      BY <1>1, <3>2 DEF TablesListed
    <3> QED  BY <3>1, <3>2
  <2> QED  BY <1>1, <1>2, <2>1 DEF TablesListed
<1>5. ASSUME Announcements PROVE AllAnnounced'
  <2> SUFFICES ASSUME NEW b \in DOMAIN tables, tables'[b].rows # <<>>,
                      b # tempResult \/ tempRows % NotifyEvery = 0
               PROVE  Announced(b)'
    BY <1>1, <1>2 DEF AllAnnounced
  <2>1. b # a /\ tables[b].rows # <<>>
    BY <1>1
  <2>2. Announced(b)
    BY <1>5, <2>1 DEF Announcements, AllAnnounced
  <2>3. Head(posted) # Fetched(b)
    BY <2>1, SignalFacts DEF Taking
  <2> QED  BY <1>3, <2>2, <2>3
<1>6. tables[a].rows \in Rows
  <2>1. tables[a] \in Table
    BY DEF RowTypes, Taking
  <2> QED  BY <2>1 DEF Table
<1> QED  BY <1>1, <1>3, <1>4, <1>5, <1>6 DEF Announcements

LEMMA EmptyBefore ==
  ASSUME RowTypes, TablesListed, Announcements, NEW a, Taking(a),
         NEW i \in DOMAIN resultsets, resultsets[i] = a, NEW j \in DOMAIN resultsets, j < i
  PROVE  tables[resultsets[j]].rows = <<>>
<1> SUFFICES ASSUME tables[resultsets[j]].rows # <<>> PROVE FALSE
  OBVIOUS
<1>1. resultsets \in Seq(TableAddresses)
  BY DEF RowTypes
<1>2. resultsets[j] # tempResult
  <2> SUFFICES ASSUME resultsets[j] = tempResult PROVE FALSE
    OBVIOUS
  <2>1. resultsets[j] \in TableAddresses
    BY <1>1
  <2>2. tempResult # NoTable
    BY <2>1, Bounds
  <2>3. tempResult = resultsets[Len(resultsets)]
    BY <2>2 DEF TablesListed
  <2>4. Len(resultsets) \in DOMAIN resultsets /\ i <= Len(resultsets)
    BY <1>1
  <2>5. j = Len(resultsets)
    BY <2>3, <2>4 DEF TablesListed
  <2> QED  BY <1>1, <2>4, <2>5
<1>3. resultsets[j] \in DOMAIN tables
  BY DEF TablesListed
<1>4. PICK p \in DOMAIN posted : posted[p] = Fetched(resultsets[j])
  BY <1>2, <1>3 DEF Announcements, AllAnnounced, Announced
<1>5. 1 \in DOMAIN posted /\ posted[1] = Fetched(resultsets[i])
  BY HeadIs DEF Taking
<1>6. p # 1
  <2> SUFFICES ASSUME p = 1 PROVE FALSE
    OBVIOUS
  <2>1. resultsets[i] = resultsets[j]
    BY <1>4, <1>5, SignalFacts
  <2>2. i = j
    BY <2>1 DEF TablesListed
  <2> QED  BY <1>1, <2>2
<1>7. p \in Nat /\ p > 1
  <2>1. posted \in Seq(Signals)
    BY DEF RowTypes
  <2> QED  BY <1>6, <2>1
<1>8. i <= j
  BY <1>4, <1>5, <1>7 DEF Announcements, InOrder
<1> QED  BY <1>1, <1>8

LEMMA TakenFirst ==
  ASSUME RowTypes, TablesListed, Announcements, NEW a, Taking(a)
  PROVE  SplitsInto(Unread, tables[a].rows, Unread') /\ Unread' \in Rows
<1>1. PICK n \in Nat : n = Len(resultsets) /\ DOMAIN resultsets = 1..n /\ resultsets \in Seq(TableAddresses)
  <2>1. resultsets \in Seq(TableAddresses)
    BY DEF RowTypes
  <2>2. Len(resultsets) \in Nat /\ DOMAIN resultsets = 1..Len(resultsets)
    BY <2>1
  <2> QED  BY <2>1, <2>2
<1>2. PICK i \in DOMAIN resultsets : resultsets[i] = a
  BY DEF Taking, TablesListed
<1>3. tables' \in [DOMAIN tables -> Table] /\ DOMAIN tables' = DOMAIN tables
      /\ tables'[a].rows = <<>> /\ \A b \in DOMAIN tables : b # a => tables'[b] = tables[b]
  <2>1. <<>> \in Rows
    BY DEF Rows
  <2>2. tables \in [DOMAIN tables -> Table] /\ a \in DOMAIN tables
    BY DEF RowTypes, Taking
  <2>3. tables' = WithRows(tables, a, <<>>)
    BY DEF Taking, TakeRows, WithRows
  <2> QED  BY <2>1, <2>2, <2>3, RowsChanged
<1>4. /\ InTables(resultsets, tables) \in Seq(Rows) /\ Len(InTables(resultsets, tables)) = n
      /\ \A k \in 1..n : InTables(resultsets, tables)[k] = tables[resultsets[k]].rows
  <2>1. \A k \in DOMAIN resultsets : tables[resultsets[k]].rows \in Rows
    BY DEF RowTypes, TablesListed, Table
  <2> QED  BY <1>1, <2>1, ListOfRows
<1>5. /\ InTables(resultsets, tables') \in Seq(Rows) /\ Len(InTables(resultsets, tables')) = n
      /\ \A k \in 1..n : InTables(resultsets, tables')[k] = tables'[resultsets[k]].rows
  <2>1. \A k \in DOMAIN resultsets : tables'[resultsets[k]].rows \in Rows
    BY <1>3 DEF TablesListed, Table
  <2> QED  BY <1>1, <2>1, ListOfRows
<1>6. FirstTaken(InTables(resultsets, tables), InTables(resultsets, tables'), i, n)
  <2>1. \A j \in 1..n : j < i => InTables(resultsets, tables)[j] = <<>>
    BY <1>1, <1>2, <1>4, EmptyBefore
  <2>2. InTables(resultsets, tables')[i] = <<>>
    BY <1>1, <1>2, <1>3, <1>5
  <2>3. \A j \in 1..n : j # i => InTables(resultsets, tables')[j] = InTables(resultsets, tables)[j]
    <3> SUFFICES ASSUME NEW j \in 1..n, j # i
                 PROVE  InTables(resultsets, tables')[j] = InTables(resultsets, tables)[j]
      OBVIOUS
    <3>1. resultsets[j] # a /\ resultsets[j] \in DOMAIN tables
      BY <1>1, <1>2 DEF TablesListed
    <3> QED  BY <1>3, <1>4, <1>5, <3>1
  <2> QED  BY <2>1, <2>2, <2>3 DEF FirstTaken
<1>7. FlattenSeq(InTables(resultsets, tables))
        = InTables(resultsets, tables)[i] \o FlattenSeq(InTables(resultsets, tables'))
  BY <1>1, <1>2, <1>4, <1>5, <1>6, FlattenTaken DEF Rows
<1>8. InTables(resultsets, tables)[i] = tables[a].rows
  BY <1>1, <1>2, <1>4
<1>9. Unread' = FlattenSeq(InTables(resultsets, tables')) /\ Unread = FlattenSeq(InTables(resultsets, tables))
  <2>1. resultsets' = resultsets
    BY DEF Taking, workerVars
  <2> QED  BY <2>1 DEF Unread, InTables
<1>10. Unread' \in Rows
  BY <1>5, <1>9, FlattenAppend DEF Rows
<1> QED  BY <1>7, <1>8, <1>9, <1>10 DEF SplitsInto

(* The rows taken are shown after those that were.                          *)
LEMMA TakenAndShown ==
  ASSUME RowsInv, NEW a, Taking(a), ~overtaken, Shown' = Shown \o tables[a].rows
  PROVE  Announcements' /\ Conserved'
<1>1. RowTypes /\ TablesListed /\ Announcements /\ Conserved
  BY DEF RowsInv
<1>2. Announcements' /\ tables[a].rows \in Rows
  BY <1>1, TakingKept
<1>3. SplitsInto(Unread, tables[a].rows, Unread') /\ Unread' \in Rows
  BY <1>1, TakenFirst
<1>4. Shown \in Rows
  BY <1>1, ShownTyped
<1>5. (Shown \o tables[a].rows) \o Unread' = Shown \o Unread
  BY <1>2, <1>3, <1>4, MovedOn
<1>6. sent' = sent
  BY DEF Taking, workerVars
<1> QED  BY <1>1, <1>2, <1>5, <1>6 DEF Conserved

LEMMA ChartsKept ==
  ASSUME RowsInv, NEW a \in TableAddresses, FetchedForCharts(a)
  PROVE  RowsInv'
<1>1. RowTypes /\ TablesListed /\ PlacesKnown
  BY DEF RowsInv
<1>2. /\ Taking(a) /\ querySettings = "charts" /\ copying = NoTable
      /\ plotted' = plotted \o tables[a].rows
      /\ UNCHANGED <<workerVars, querySettings, timer, views, copying, overtaken>>
  BY DEF FetchedForCharts, Fetches, Taking, workerVars
<1>3. /\ tables' \in [DOMAIN tables -> Table] /\ DOMAIN tables' = DOMAIN tables
      /\ posted' \in Seq(Signals) /\ TablesListed' /\ tables[a].rows \in Rows
  BY <1>1, <1>2, TakingKept
<1>4. plotted' \in Rows
  <2>1. plotted \in Rows
    BY <1>1 DEF RowTypes
  <2> QED  BY <1>2, <1>3, <2>1, ConcatProperties DEF Rows
<1>5. RowTypes' /\ PlacesKnown'
  BY <1>1, <1>2, <1>3, <1>4 DEF RowTypes, PlacesKnown, workerVars
<1>6. Shown' = Shown \o tables[a].rows
  <2>1. Shown = FlattenSeq(Viewed(views)) \o plotted /\ FlattenSeq(Viewed(views)) \in Rows
    BY <1>1, ShownTyped
  <2>2. Shown' = FlattenSeq(Viewed(views)) \o (plotted \o tables[a].rows)
    BY <1>2 DEF Shown, Viewed
  <2>3. plotted \in Rows
    BY <1>1 DEF RowTypes
  <2>4. (FlattenSeq(Viewed(views)) \o plotted) \o tables[a].rows
          = FlattenSeq(Viewed(views)) \o (plotted \o tables[a].rows)
    BY <1>3, <2>1, <2>3, Regrouped
  <2> QED  BY <2>1, <2>2, <2>4
<1> QED  BY <1>2, <1>3, <1>5, <1>6, TakenAndShown DEF RowsInv

(* Views typed as a list.                                                   *)
LEMMA ViewsTyped ==
  ASSUME NEW list \in Seq(View)
  PROVE  /\ Viewed(list) \in Seq(Rows) /\ Len(Viewed(list)) = Len(list) /\ Len(list) \in Nat
         /\ \A i \in 1..Len(list) : Viewed(list)[i] = list[i].rows
<1>1. DOMAIN list = 1..Len(list) /\ Len(list) \in Nat
  OBVIOUS
<1>2. Viewed(list) = [i \in 1..Len(list) |-> list[i].rows]
  BY <1>1 DEF Viewed
<1>3. \A i \in 1..Len(list) : list[i].rows \in Rows
  <2>1. \A i \in 1..Len(list) : list[i] \in View
    OBVIOUS
  <2> QED  BY <2>1 DEF View
<1> QED  BY <1>1, <1>2, <1>3

LEMMA ViewKept ==
  ASSUME RowsInv, NEW a \in TableAddresses, FetchedForView(a)
  PROVE  RowsInv'
<1>1. RowTypes /\ TablesListed /\ PlacesKnown
  BY DEF RowsInv
<1>2. /\ Taking(a) /\ querySettings = "tables" /\ copying = NoTable /\ views # <<>>
      /\ views' = [views EXCEPT ![Len(views)].rows = views[Len(views)].rows \o tables[a].rows]
      /\ UNCHANGED <<workerVars, querySettings, timer, plotted, copying, overtaken>>
  BY DEF FetchedForView, Fetches, Taking, workerVars, ViewOf
<1>3. /\ tables' \in [DOMAIN tables -> Table] /\ DOMAIN tables' = DOMAIN tables
      /\ posted' \in Seq(Signals) /\ TablesListed' /\ tables[a].rows \in Rows
  BY <1>1, <1>2, TakingKept
<1>4. PICK n \in Nat : n = Len(views) /\ DOMAIN views = 1..n /\ n > 0
  <2>1. views \in Seq(View)
    BY <1>1 DEF RowTypes
  <2>2. Len(views) \in Nat /\ DOMAIN views = 1..Len(views) /\ Len(views) # 0
    BY <1>2, <2>1, EmptySeq
  <2>3. PICK n \in Nat : n = Len(views)
    BY <2>2
  <2>4. n > 0
    BY <2>2, <2>3
  <2> QED  BY <2>2, <2>3, <2>4
<1>5. PICK old \in View : old = views[n]
  <2>1. views \in Seq(View)
    BY <1>1 DEF RowTypes
  <2> QED  BY <1>4, <2>1
<1>6. PICK more \in Rows : more = old.rows \o tables[a].rows
  <2>1. old.rows \in Rows
    BY DEF View
  <2> QED  BY <1>3, <2>1, ConcatProperties DEF Rows
<1>7. /\ views' \in Seq(View) /\ Len(views') = n /\ views'[n].rows = more
      /\ \A i \in 1..(n - 1) : views'[i] = views[i]
  <2>1. views \in [1..n -> View]
    <3>1. views \in Seq(View)
      BY <1>1 DEF RowTypes
    <3> QED  BY <1>4, <3>1
  <2>2. views' = [views EXCEPT ![n].rows = more]
    BY <1>2, <1>4, <1>5, <1>6
  <2>3. views' \in [1..n -> View] /\ views'[n].rows = more /\ \A i \in 1..(n - 1) : views'[i] = views[i]
    BY <1>4, <2>1, <2>2 DEF View
  <2> QED  BY <2>3
<1>8. RowTypes' /\ PlacesKnown'
  BY <1>1, <1>2, <1>3, <1>7 DEF RowTypes, PlacesKnown, workerVars
<1>9. Shown' = Shown \o tables[a].rows
  <2>1. plotted = <<>> /\ plotted' = <<>>
    BY <1>1, <1>2 DEF PlacesKnown
  <2>2. /\ Viewed(views) \in Seq(Rows) /\ Len(Viewed(views)) = n
        /\ \A i \in 1..n : Viewed(views)[i] = views[i].rows
    <3>1. views \in Seq(View)
      BY <1>1 DEF RowTypes
    <3> QED  BY <1>4, <3>1, ViewsTyped
  <2>3. /\ Viewed(views') \in Seq(Rows) /\ Len(Viewed(views')) = n
        /\ \A i \in 1..n : Viewed(views')[i] = views'[i].rows
    BY <1>7, ViewsTyped
  <2>4. AddsToLast(Viewed(views), Viewed(views'), tables[a].rows)
    <3>1. \A i \in 1..(n - 1) : Viewed(views')[i] = Viewed(views)[i]
      <4> TAKE i \in 1..(n - 1)
      <4>1. i \in 1..n
        OBVIOUS
      <4> QED  BY <1>7, <2>2, <2>3, <4>1
    <3>2. n \in 1..n
      BY <1>4
    <3>3. Viewed(views')[n] = Viewed(views)[n] \o tables[a].rows
      BY <1>5, <1>6, <1>7, <2>2, <2>3, <3>2
    <3>4. Viewed(views) # <<>>
      <4>1. Len(Viewed(views)) # 0
        BY <1>4, <2>2
      <4> QED  BY <4>1
    <3> QED  BY <2>2, <2>3, <3>1, <3>3, <3>4 DEF AddsToLast
  <2>5. FlattenSeq(Viewed(views')) = FlattenSeq(Viewed(views)) \o tables[a].rows
    BY <1>3, <2>2, <2>3, <2>4, FlattenLast DEF Rows
  <2>6. FlattenSeq(Viewed(views)) \in Rows /\ FlattenSeq(Viewed(views')) \in Rows
    BY <2>2, <2>3, FlattenAppend DEF Rows
  <2>7. Shown = FlattenSeq(Viewed(views)) /\ Shown' = FlattenSeq(Viewed(views'))
    <3>1. Shown = FlattenSeq(Viewed(views)) \o <<>> /\ Shown' = FlattenSeq(Viewed(views')) \o <<>>
      BY <2>1 DEF Shown, Viewed
    <3> QED  BY <2>6, <3>1, ConcatEmptySeq DEF Rows
  <2> QED  BY <2>5, <2>7
<1> QED  BY <1>2, <1>3, <1>8, <1>9, TakenAndShown DEF RowsInv

LEMMA TakeKept ==
  ASSUME RowsInv, Take
  PROVE  RowsInv'
<1>1. RowTypes /\ TablesListed /\ PlacesKnown
  BY DEF RowsInv
<1>2. PICK a \in DOMAIN tables : a = copying
  BY <1>1 DEF Take, PlacesKnown
<1>3. /\ Taking(a) /\ querySettings = "tables" /\ copying' = NoTable
      /\ views' = Append(views, [name |-> a, rows |-> tables[a].rows])
      /\ UNCHANGED <<workerVars, querySettings, timer, plotted, overtaken>>
  BY <1>1, <1>2 DEF Take, PlacesKnown, Taking
<1>4. /\ tables' \in [DOMAIN tables -> Table] /\ DOMAIN tables' = DOMAIN tables
      /\ posted' \in Seq(Signals) /\ TablesListed' /\ tables[a].rows \in Rows
  BY <1>1, <1>3, TakingKept
<1>5. PICK view \in View : view = [name |-> a, rows |-> tables[a].rows]
  <2>1. a \in TableAddresses
    BY <1>1 DEF RowTypes
  <2> QED  BY <1>4, <2>1 DEF View
<1>6. views \in Seq(View)
  BY <1>1 DEF RowTypes
<1>7. PICK n \in Nat : n = Len(views)
  BY <1>6
<1>8. /\ views' \in Seq(View) /\ Len(views') = n + 1 /\ views'[n + 1] = view
      /\ \A i \in 1..n : views'[i] = views[i]
  <2>1. views' = Append(views, view)
    BY <1>3, <1>5
  <2> QED  BY <1>6, <1>7, <2>1, AppendProperties
<1>9. RowTypes' /\ PlacesKnown'
  BY <1>1, <1>3, <1>4, <1>8 DEF RowTypes, PlacesKnown, workerVars
<1>10. Shown' = Shown \o tables[a].rows
  <2>1. plotted = <<>> /\ plotted' = <<>>
    BY <1>1, <1>3 DEF PlacesKnown
  <2>2. /\ Viewed(views) \in Seq(Rows) /\ Len(Viewed(views)) = n
        /\ \A i \in 1..n : Viewed(views)[i] = views[i].rows
    BY <1>6, <1>7, ViewsTyped
  <2>3. /\ Viewed(views') \in Seq(Rows) /\ Len(Viewed(views')) = n + 1
        /\ \A i \in 1..(n + 1) : Viewed(views')[i] = views'[i].rows
    BY <1>8, ViewsTyped
  <2>4. Viewed(views') = Append(Viewed(views), tables[a].rows)
    <3> DEFINE u == Viewed(views)
               v == Viewed(views')
               w == Append(u, tables[a].rows)
    <3> HIDE DEF u, v
    <3>1. /\ w \in Seq(Rows) /\ Len(w) = n + 1 /\ (\A i \in 1..n : w[i] = u[i])
          /\ w[n + 1] = tables[a].rows
      BY <1>4, <2>2, AppendProperties DEF u
    <3> HIDE DEF w
    <3>2. ASSUME NEW i \in 1..(n + 1) PROVE v[i] = w[i]
      <4>1. CASE i = n + 1
        BY <1>5, <1>8, <2>3, <3>1, <4>1 DEF v
      <4>2. CASE i \in 1..n
        BY <1>8, <2>2, <2>3, <3>1, <4>2 DEF u, v
      <4>3. i = n + 1 \/ i \in 1..n
        OBVIOUS
      <4> QED  BY <4>1, <4>2, <4>3
    <3>3. v \in Seq(Rows) /\ Len(v) = Len(w)
      BY <2>3, <3>1 DEF v
    <3>4. \A i \in 1..Len(v) : v[i] = w[i]
      BY <2>3, <3>2 DEF v
    <3>5. v = w
      BY <3>1, <3>3, <3>4, SeqEqual
    <3> QED  BY <3>5 DEF u, v, w
  <2>5. FlattenSeq(Viewed(views')) = FlattenSeq(Viewed(views)) \o tables[a].rows
    <3>1. PICK list \in Seq(Seq(Nat)) : list = Viewed(views)
      BY <2>2 DEF Rows
    <3>2. PICK s \in Seq(Nat) : s = tables[a].rows
      BY <1>4 DEF Rows
    <3>3. FlattenSeq(Append(list, s)) = FlattenSeq(list) \o s
      BY FlattenAppend
    <3> QED  BY <2>4, <3>1, <3>2, <3>3
  <2>6. FlattenSeq(Viewed(views)) \in Rows /\ FlattenSeq(Viewed(views')) \in Rows
    BY <2>2, <2>3, FlattenAppend DEF Rows
  <2>7. Shown = FlattenSeq(Viewed(views)) /\ Shown' = FlattenSeq(Viewed(views'))
    <3>1. Shown = FlattenSeq(Viewed(views)) \o <<>> /\ Shown' = FlattenSeq(Viewed(views')) \o <<>>
      BY <2>1 DEF Shown, Viewed
    <3> QED  BY <2>6, <3>1, ConcatEmptySeq DEF Rows
  <2> QED  BY <2>5, <2>7
<1> QED  BY <1>3, <1>4, <1>9, <1>10, TakenAndShown DEF RowsInv

(* A run starts: its tables are none, and what is shown is nothing, or what *)
(* the runs on the timer have shown.                                        *)
LEMMA NoRows == Upto(0) = <<>> /\ <<>> \in Rows /\ FlattenSeq(<<>>) = <<>> /\ Viewed(<<>>) = <<>>
<1>1. Upto(0) = <<>> /\ <<>> \in Rows
  BY DEF Upto, Rows
<1>2. FlattenSeq(<<>>) = <<>>
  BY DEF FlattenSeq
<1>3. Viewed(<<>>) = <<>>
  BY DEF Viewed
<1> QED  BY <1>1, <1>2, <1>3

LEMMA StartKept ==
  ASSUME RowsInv, Start, sent' \in Nat, views' \in Seq(View), plotted' \in Rows, timer' \in BOOLEAN,
         querySettings' \in {"tables", "charts"},
         querySettings' = "tables" => plotted' = <<>>, querySettings' = "charts" => views' = <<>>,
         ~overtaken' => Shown' = Upto(sent')
  PROVE  RowsInv'
<1>1. RowTypes /\ TablesListed /\ PlacesKnown
  BY DEF RowsInv
<1>2. /\ copying = NoTable /\ unclear = <<>> /\ running' = TRUE
      /\ tables' = <<>> /\ resultsets' = <<>> /\ tempResult' = NoTable /\ tempRows' = 0
      /\ overtaken' = (Pending \/ (timer /\ overtaken))
      /\ UNCHANGED <<clarify, unclear, posted, copying>>
  BY DEF Start
<1>3. DOMAIN tables' = {} /\ resultsets' \in Seq(TableAddresses) /\ DOMAIN resultsets' = {}
      /\ tables' \in [DOMAIN tables' -> Table]
  BY <1>2
<1>4. overtaken' \in BOOLEAN
  BY <1>2
<1>5. RowTypes'
  BY <1>1, <1>2, <1>3, <1>4 DEF RowTypes
<1>6. TablesListed'
  BY <1>2, <1>3 DEF TablesListed
<1>7. PlacesKnown'
  BY <1>2 DEF PlacesKnown
<1>8. ASSUME ~overtaken' PROVE Announcements' /\ Conserved'
  <2>1. \A i \in DOMAIN posted : posted[i].signal # "fetched"
    BY <1>2, <1>8 DEF Pending
  <2>2. Announcements'
    BY <1>2, <1>3, <2>1 DEF Announcements, AllAnnounced, Named, InOrder
  <2>3. Unread' = <<>>
    <3>1. InTables(resultsets', tables') = <<>>
      BY <1>2 DEF InTables
    <3>2. Unread' = FlattenSeq(InTables(resultsets', tables'))
      BY DEF Unread, InTables
    <3> QED  BY <3>1, <3>2, NoRows
  <2>4. Upto(sent') \o <<>> = Upto(sent')
    BY OneMore, ConcatEmptySeq DEF Rows
  <2> QED  BY <1>8, <2>2, <2>3, <2>4 DEF Conserved, Upto
<1> QED  BY <1>5, <1>6, <1>7, <1>8 DEF RowsInv

LEMMA ExecuteKept ==
  ASSUME RowsInv, NEW asks \in {"tables", "charts", "timed", "huge"}, Execute(asks)
  PROVE  RowsInv'
<1>1. RowTypes /\ TablesListed /\ PlacesKnown
  BY DEF RowsInv
<1>2. Start /\ views' = <<>> /\ plotted' = <<>> /\ sent' = 0 /\ timer' \in BOOLEAN
  BY DEF Execute
<1>3. querySettings' \in {"tables", "charts"}
  BY <1>1 DEF Execute, RowTypes
<1>4. views' \in Seq(View) /\ plotted' \in Rows /\ sent' \in Nat
  BY <1>2, NoRows
<1>5. Shown' = Upto(sent')
  <2>1. Shown' = FlattenSeq(Viewed(views')) \o plotted'
    BY DEF Shown, Viewed
  <2>2. Viewed(views') = <<>>
    BY <1>2, NoRows
  <2>3. <<>> \o <<>> = <<>>
    OBVIOUS
  <2> QED  BY <1>2, <2>1, <2>2, <2>3, NoRows
<1> QED  BY <1>2, <1>3, <1>4, <1>5, StartKept

LEMMA TimeoutKept ==
  ASSUME RowsInv, Timeout
  PROVE  RowsInv'
<1>1. RowTypes /\ TablesListed /\ PlacesKnown
  BY DEF RowsInv
<1>2. /\ timer /\ Start /\ sent' = Len(Shown) /\ UNCHANGED <<querySettings, timer, views, plotted>>
  BY DEF Timeout
<1>3. Shown \in Rows /\ Unread \in Rows
  BY <1>1, ShownTyped
<1>4. sent' \in Nat
  BY <1>2, <1>3 DEF Rows
<1>5. Shown' = Shown
  BY <1>2 DEF Shown
<1>6. ASSUME ~overtaken' PROVE Shown = Upto(Len(Shown))
  <2>1. ~overtaken
    BY <1>2, <1>6 DEF Start
  <2>2. Shown \o Unread = Upto(sent) /\ sent \in Nat
    BY <1>1, <2>1 DEF RowsInv, Conserved, Upto, RowTypes
  <2> QED  BY <1>3, <2>2, StartOfRows
<1>7. /\ views' \in Seq(View) /\ plotted' \in Rows /\ timer' \in BOOLEAN
      /\ querySettings' \in {"tables", "charts"}
      /\ querySettings' = "tables" => plotted' = <<>>
      /\ querySettings' = "charts" => views' = <<>>
  BY <1>1, <1>2 DEF RowTypes, PlacesKnown
<1> QED  BY <1>2, <1>4, <1>5, <1>6, <1>7, StartKept
-----------------------------------------------------------------------------
LEMMA RowsStart == RowsInit => RowsInv
<1> SUFFICES ASSUME RowsInit PROVE RowsInv
  OBVIOUS
<1>1. /\ running = FALSE /\ tables = <<>> /\ resultsets = <<>> /\ tempResult = NoTable /\ tempRows = 0
      /\ clarify = FALSE /\ unclear = <<>> /\ posted = <<>>
      /\ querySettings = "tables" /\ timer = FALSE /\ views = <<>> /\ plotted = <<>>
      /\ copying = NoTable /\ sent = 0 /\ overtaken = FALSE
  BY DEF RowsInit
<1>2. tables \in [DOMAIN tables -> Table] /\ DOMAIN tables = {}
  BY <1>1
<1>3. RowTypes
  <2>1. resultsets \in Seq(TableAddresses) /\ unclear \in Seq(TableAddresses)
    BY <1>1
  <2>2. posted \in Seq(Signals) /\ views \in Seq(View)
    BY <1>1
  <2>3. plotted \in Rows
    BY <1>1, NoRows
  <2>4. {running, clarify, timer, overtaken} \subseteq BOOLEAN /\ DOMAIN tables \subseteq TableAddresses
    BY <1>1, <1>2
  <2>5. tempRows \in Nat /\ sent \in Nat /\ querySettings \in {"tables", "charts"}
    BY <1>1
  <2> QED  BY <1>2, <2>1, <2>2, <2>3, <2>4, <2>5 DEF RowTypes
<1>4. TablesListed /\ PlacesKnown /\ Announcements
  BY <1>1, <1>2 DEF TablesListed, PlacesKnown, Announcements, AllAnnounced, Named, InOrder
<1>5. Shown = <<>> /\ Unread = <<>>
  <2>1. Shown = FlattenSeq(Viewed(views)) \o plotted
    BY DEF Shown, Viewed
  <2>2. Unread = FlattenSeq(InTables(resultsets, tables)) /\ InTables(resultsets, tables) = <<>>
    BY <1>1 DEF Unread, InTables
  <2>3. Viewed(views) = <<>> /\ <<>> \o <<>> = <<>>
    BY <1>1, NoRows
  <2> QED  BY <1>1, <2>1, <2>2, <2>3, NoRows
<1>6. Conserved
  BY <1>1, <1>5, NoRows DEF Conserved, Upto
<1> QED  BY <1>3, <1>4, <1>6 DEF RowsInv

LEMMA RowsStep == RowsInv /\ [RowsNext]_rowVars => RowsInv'
<1> SUFFICES ASSUME RowsInv, [RowsNext]_rowVars PROVE RowsInv'
  OBVIOUS
<1>1. CASE UNCHANGED rowVars
  <2>1. UNCHANGED <<tables, resultsets, tempResult, tempRows, sent, posted, views, plotted, overtaken>>
    BY <1>1 DEF rowVars
  <2>2. RowTypes' /\ TablesListed' /\ PlacesKnown'
    BY <1>1 DEF RowsInv, RowTypes, TablesListed, PlacesKnown, rowVars
  <2> QED  BY <2>1, <2>2, QuietKept
<1>2. CASE \E a \in TableAddresses :
             NewTable(a) \/ FetchedForCharts(a) \/ FetchedForView(a) \/ FetchedForNewView(a)
  BY <1>2, NewTableKept, ChartsKept, ViewKept, NewViewKept
<1>3. CASE AppendRow \/ ClarifyTables \/ ClarifyTable
  BY <1>3, AppendRowKept, ClarifyTablesKept, ClarifyTableKept
<1>4. CASE \E failed \in BOOLEAN : EndTable(failed)
  BY <1>4, EndTableKept
<1>5. CASE \E lost \in BOOLEAN : RunOver(lost)
  BY <1>5, RunOverKept
<1>6. CASE \E asks \in {"tables", "charts", "timed", "huge"} : Execute(asks)
  BY <1>6, ExecuteKept
<1>7. CASE Timeout \/ stopTimer \/ Take \/ OtherSignal
  BY <1>7, TimeoutKept, StopTimerKept, TakeKept, OtherSignalKept
<1> QED  BY <1>1, <1>2, <1>3, <1>4, <1>5, <1>6, <1>7 DEF RowsNext

LEMMA RowsInductive == RowsSpec => []RowsInv
BY RowsStart, RowsStep, PTL DEF RowsSpec

(* The type invariant of ResultRows, for any addresses and bounds.          *)
THEOREM RowsTyped == RowsSpec => []RowsTypeOK
<1>1. RowsInv => RowsTypeOK
  <2> SUFFICES ASSUME RowTypes, TablesListed, PlacesKnown PROVE RowsTypeOK
    BY DEF RowsInv
  <2>1. \A a \in DOMAIN tables :
          tables[a].columns \in {"raw", "clear"} /\ Len(tables[a].rows) <= MaxSent
    <3> TAKE a \in DOMAIN tables
    <3>1. tables[a] \in Table
      BY DEF RowTypes
    <3>2. tables[a].columns \in {"raw", "clear"}
      BY <3>1 DEF Table
    <3> QED  BY <3>2 DEF TablesListed
  <2>2. tempResult \in {NoTable} \cup DOMAIN tables
    <3> SUFFICES ASSUME tempResult # NoTable PROVE tempResult \in DOMAIN tables
      OBVIOUS
    <3>1. resultsets \in Seq(TableAddresses) /\ resultsets # <<>>
          /\ tempResult = resultsets[Len(resultsets)]
      BY DEF TablesListed, RowTypes
    <3>2. Len(resultsets) \in DOMAIN resultsets
      BY <3>1
    <3> QED  BY <3>1, <3>2 DEF TablesListed
  <2>3. copying \in {NoTable} \cup DOMAIN tables
    BY DEF PlacesKnown
  <2> QED  BY <2>1, <2>2, <2>3 DEF RowsTypeOK, RowTypes
<1> QED  BY <1>1, RowsInductive, PTL

(* For runs that start after the signals of the last have been handled:     *)
(* every row is on the screen or in its table, once and in the server's     *)
(* order; no signal names a table that is gone; and when a run is over and  *)
(* its signals handled, only a table cut off keeps rows                     *)
(* (appendRawDataToTable, fetch, fetched, take, takeRows).                  *)
THEOREM RowsOnce == RowsSpec => []RowsShownOnce
<1>1. RowsInv => RowsShownOnce
  <2> SUFFICES ASSUME RowsInv, ~overtaken
               PROVE  /\ Shown \o Unread = [i \in 1..sent |-> i]
                      /\ \A i \in DOMAIN posted :
                           posted[i].signal = "fetched" => posted[i].table \in DOMAIN tables
                      /\ ~Pending => \A a \in DOMAIN tables : tables[a].rows # <<>> => a = tempResult
    BY DEF RowsShownOnce
  <2>1. Conserved /\ Named /\ AllAnnounced
    BY DEF RowsInv, Announcements
  <2>2. ASSUME ~Pending, NEW a \in DOMAIN tables, tables[a].rows # <<>>, a # tempResult PROVE FALSE
    <3>1. PICK i \in DOMAIN posted : posted[i] = Fetched(a)
      BY <2>1, <2>2 DEF AllAnnounced, Announced
    <3>2. posted[i].signal = "fetched"
      BY <3>1, SignalFacts
    <3> QED  BY <2>2, <3>2 DEF Pending
  <2> QED  BY <2>1, <2>2 DEF Conserved, Named
<1> QED  BY <1>1, RowsInductive, PTL

-----------------------------------------------------------------------------
DigitString == Seq(0..9)
Value(d) == Low(d)[Len(d)]

-----------------------------------------------------------------------------
(* Recursive functions of the numbers.                                      *)
Stepping(g, D, base, step) ==
    g \in [Nat -> D] /\ \A n \in Nat : g[n] = IF n = 0 THEN base ELSE step[n - 1][g[n - 1]]

LEMMA NumbersRecurse ==
  ASSUME NEW D, NEW base \in D, NEW step \in [Nat -> [D -> D]]
  PROVE  \E g : Stepping(g, D, base, step)
<1>1. PICK g : Repeats(g, D, base, step)
  BY Iterates
<1>2. g \in [Nat -> D] /\ g[0] = base /\ \A n \in Nat : g[n + 1] = step[n][g[n]]
  BY <1>1 DEF Repeats
<1>3. ASSUME NEW n \in Nat PROVE g[n] = IF n = 0 THEN base ELSE step[n - 1][g[n - 1]]
  <2>1. CASE n = 0
    BY <1>2, <2>1
  <2>2. CASE n # 0
    <3>1. n - 1 \in Nat /\ n - 1 + 1 = n
      BY <2>2
    <3>2. g[n - 1 + 1] = step[n - 1][g[n - 1]]
      BY <1>2, <3>1
    <3> QED  BY <2>2, <3>1, <3>2
  <2> QED  BY <2>1, <2>2
<1> QED  BY <1>2, <1>3 DEF Stepping

LEMMA TenIs ==
  /\ Ten \in [Nat -> Nat] /\ Ten[0] = 1
  /\ \A n \in Nat : Ten[n + 1] = 10 * Ten[n]
<1> DEFINE step == [n \in Nat |-> [x \in Nat |-> 10 * x]]
           Is(g) == g = [n \in Nat |-> IF n = 0 THEN 1 ELSE 10 * g[n - 1]]
<1>1. PICK g : Stepping(g, Nat, 1, step)
  <2>1. step \in [Nat -> [Nat -> Nat]] /\ 1 \in Nat
    OBVIOUS
  <2> HIDE DEF step
  <2> QED  BY <2>1, NumbersRecurse
<1>2. Is(g)
  <2>1. \A n \in Nat : n # 0 => n - 1 \in Nat /\ g[n - 1] \in Nat
    BY <1>1 DEF Stepping
  <2>2. \A n \in Nat : n # 0 => step[n - 1][g[n - 1]] = 10 * g[n - 1]
    BY <2>1
  <2> HIDE DEF step
  <2> QED  BY <1>1, <2>2 DEF Stepping
<1>3. Is(Ten)
  <2>1. Ten = CHOOSE h : Is(h)
    BY DEF Ten
  <2> HIDE DEF Is
  <2> QED  BY <1>2, <2>1
<1>4. Ten[0] = 1 /\ \A n \in Nat : Ten[n + 1] = 10 * Ten[n]
  <2>1. \A n \in Nat : n + 1 \in Nat /\ n + 1 # 0 /\ n + 1 - 1 = n
    OBVIOUS
  <2> QED  BY <1>3, <2>1
<1>5. \A n \in Nat : Ten[n] \in Nat
  <2> DEFINE S == {n \in Nat : Ten[n] \in Nat}
  <2>1. 0 \in S /\ \A n \in Nat : n \in S => n + 1 \in S
    BY <1>4
  <2> HIDE DEF S
  <2>2. Nat \subseteq S
    BY <2>1, SetInduction
  <2> QED  BY <2>2 DEF S
<1> QED  BY <1>3, <1>4, <1>5

LEMMA TenGrows ==
  /\ \A n \in Nat : Ten[n] \in Nat \ {0}
  /\ \A m, n \in Nat : Ten[m + n] = Ten[m] * Ten[n]
  /\ \A m, n \in Nat : m <= n => Ten[m] <= Ten[n]
<1>1. \A n \in Nat : Ten[n] \in Nat \ {0}
  <2> DEFINE S == {n \in Nat : Ten[n] \in Nat \ {0}}
  <2>1. 0 \in S /\ \A n \in Nat : n \in S => n + 1 \in S
    BY TenIs
  <2> HIDE DEF S
  <2>2. Nat \subseteq S
    BY <2>1, SetInduction
  <2> QED  BY <2>2 DEF S
<1>2. ASSUME NEW m \in Nat PROVE \A n \in Nat : Ten[m + n] = Ten[m] * Ten[n]
  <2> DEFINE S == {n \in Nat : Ten[m + n] = Ten[m] * Ten[n]}
  <2>1. 0 \in S
    BY TenIs
  <2>2. ASSUME NEW n \in Nat, n \in S PROVE n + 1 \in S
    <3>1. m + (n + 1) = (m + n) + 1 /\ m + n \in Nat
      OBVIOUS
    <3>2. Ten[m + (n + 1)] = 10 * Ten[m + n]
      BY <3>1, TenIs
    <3>3. PICK x \in Nat, y \in Nat : x = Ten[m] /\ y = Ten[n]
      BY TenIs
    <3>4. Ten[m + n] = x * y /\ Ten[n + 1] = 10 * y
      BY <2>2, <3>3, TenIs
    <3>5. 10 * (x * y) = x * (10 * y)
      OBVIOUS
    <3> QED  BY <3>2, <3>3, <3>4, <3>5
  <2> HIDE DEF S
  <2>3. Nat \subseteq S
    BY <2>1, <2>2, SetInduction
  <2> QED  BY <2>3 DEF S
<1>3. ASSUME NEW m \in Nat, NEW n \in Nat, m <= n PROVE Ten[m] <= Ten[n]
  <2>1. PICK k \in Nat : m + k = n
    <3>1. n - m \in Nat /\ m + (n - m) = n
      BY <1>3
    <3> QED  BY <3>1
  <2>2. PICK x \in Nat, y \in Nat \ {0} : x = Ten[m] /\ y = Ten[k]
    BY <1>1
  <2>3. Ten[n] = x * y
    BY <1>2, <2>1, <2>2
  <2>4. x <= x * y
    <3>1. PICK z \in Nat : y = z + 1
      <4>1. y - 1 \in Nat /\ y = y - 1 + 1
        OBVIOUS
      <4> QED  BY <4>1
    <3>2. x * (z + 1) = x * z + x /\ x * z \in Nat
      OBVIOUS
    <3> QED  BY <3>1, <3>2
  <2> QED  BY <2>2, <2>3, <2>4
<1> QED  BY <1>1, <1>2, <1>3

-----------------------------------------------------------------------------
(* The value of digits by their places.                                     *)
LEMMA DigitIs ==
  ASSUME NEW d \in DigitString, NEW i \in Nat \ {0}
  PROVE  DigitAt(d, i) \in 0..9 /\ (i > Len(d) => DigitAt(d, i) = 0)
<1>1. Len(d) \in Nat /\ \A k \in 1..Len(d) : d[k] \in 0..9
  BY DEF DigitString
<1>2. i <= Len(d) => Len(d) + 1 - i \in 1..Len(d)
  BY <1>1
<1> QED  BY <1>1, <1>2 DEF DigitAt

LEMMA LowIs ==
  ASSUME NEW d \in DigitString
  PROVE  /\ Low(d) \in [Nat -> Nat] /\ Low(d)[0] = 0
         /\ \A n \in Nat : Low(d)[n + 1] = Low(d)[n] + DigitAt(d, n + 1) * Ten[n]
<1> DEFINE step == [n \in Nat |-> [x \in Nat |-> x + DigitAt(d, n + 1) * Ten[n]]]
           Is(g) == g = [n \in Nat |-> IF n = 0 THEN 0 ELSE g[n - 1] + DigitAt(d, n) * Ten[n - 1]]
<1>1. \A n \in Nat : DigitAt(d, n + 1) \in Nat /\ Ten[n] \in Nat /\ DigitAt(d, n + 1) * Ten[n] \in Nat
  <2> SUFFICES ASSUME NEW n \in Nat
               PROVE  DigitAt(d, n + 1) \in Nat /\ Ten[n] \in Nat /\ DigitAt(d, n + 1) * Ten[n] \in Nat
    OBVIOUS
  <2>1. DigitAt(d, n + 1) \in Nat
    BY DigitIs
  <2>2. Ten[n] \in Nat
    BY TenIs
  <2>3. \A x, y \in Nat : x * y \in Nat
    OBVIOUS
  <2> QED  BY <2>1, <2>2, <2>3
<1>2. PICK g : Stepping(g, Nat, 0, step)
  <2>1. step \in [Nat -> [Nat -> Nat]] /\ 0 \in Nat
    <3>1. \A n, x \in Nat : x + DigitAt(d, n + 1) * Ten[n] \in Nat
      <4> SUFFICES ASSUME NEW n \in Nat, NEW x \in Nat PROVE x + DigitAt(d, n + 1) * Ten[n] \in Nat
        OBVIOUS
      <4>1. PICK y \in Nat : y = DigitAt(d, n + 1) * Ten[n]
        BY <1>1
      <4> QED  BY <4>1
    <3> QED  BY <3>1
  <2> HIDE DEF step
  <2> QED  BY <2>1, NumbersRecurse
<1>3. Is(g)
  <2>1. \A n \in Nat : n # 0 => n - 1 \in Nat /\ g[n - 1] \in Nat /\ n - 1 + 1 = n
    BY <1>2 DEF Stepping
  <2>2. \A n \in Nat : n # 0 => step[n - 1][g[n - 1]] = g[n - 1] + DigitAt(d, n) * Ten[n - 1]
    BY <2>1
  <2> HIDE DEF step
  <2> QED  BY <1>2, <2>2 DEF Stepping
<1>4. Is(Low(d))
  <2>1. Low(d) = CHOOSE h : Is(h)
    BY DEF Low
  <2> HIDE DEF Is
  <2> QED  BY <1>3, <2>1
<1>5. Low(d)[0] = 0 /\ \A n \in Nat : Low(d)[n + 1] = Low(d)[n] + DigitAt(d, n + 1) * Ten[n]
  <2>1. \A n \in Nat : n + 1 \in Nat /\ n + 1 # 0 /\ n + 1 - 1 = n
    OBVIOUS
  <2>2. PICK l : l = Low(d)
    OBVIOUS
  <2>3. Is(l)
    BY <1>4, <2>2
  <2>4. l[0] = 0 /\ \A n \in Nat : l[n + 1] = l[n] + DigitAt(d, n + 1) * Ten[n]
    BY <2>1, <2>3
  <2> QED  BY <2>2, <2>4
<1>6. \A n \in Nat : Low(d)[n] \in Nat
  <2> DEFINE S == {n \in Nat : Low(d)[n] \in Nat}
  <2>1. 0 \in S
    BY <1>5
  <2>2. ASSUME NEW n \in Nat, n \in S PROVE n + 1 \in S
    <3>1. PICK y \in Nat : y = DigitAt(d, n + 1) * Ten[n]
      BY <1>1
    <3>2. Low(d)[n + 1] = Low(d)[n] + y
      BY <1>5, <3>1
    <3> QED  BY <2>2, <3>2
  <2> HIDE DEF S
  <2>3. Nat \subseteq S
    BY <2>1, <2>2, SetInduction
  <2> QED  BY <2>3 DEF S
<1> QED  BY <1>4, <1>5, <1>6

(* Digits are worth less than the next power of ten.                        *)
LEMMA LowBound ==
  ASSUME NEW d \in DigitString
  PROVE  \A n \in Nat : Low(d)[n] < Ten[n]
<1> DEFINE S == {n \in Nat : Low(d)[n] < Ten[n]}
<1>1. 0 \in S
  BY LowIs, TenIs
<1>2. ASSUME NEW n \in Nat, n \in S PROVE n + 1 \in S
  <2>1. PICK x \in Nat, t \in Nat, c \in 0..9 : x = Low(d)[n] /\ t = Ten[n] /\ c = DigitAt(d, n + 1)
    <3>1. n + 1 \in Nat \ {0}
      OBVIOUS
    <3> QED  BY <3>1, LowIs, TenIs, DigitIs
  <2>2. Low(d)[n + 1] = x + c * t /\ Ten[n + 1] = 10 * t
    BY <2>1, LowIs, TenIs
  <2>3. x < t
    BY <1>2, <2>1
  <2>4. c * t <= 9 * t
    BY <2>1
  <2>5. c * t \in Nat
    BY <2>1
  <2> QED  BY <2>2, <2>3, <2>4, <2>5
<1> HIDE DEF S
<1>3. Nat \subseteq S
  BY <1>1, <1>2, SetInduction
<1> QED  BY <1>3 DEF S

(* Two that agree from some place on differ by the same up there.           *)
LEMMA LowFrom ==
  ASSUME NEW d \in DigitString, NEW e \in DigitString, NEW m \in Nat, NEW k \in Nat,
         \A i \in Nat : m < i /\ i <= m + k => DigitAt(d, i) = DigitAt(e, i)
  PROVE  Low(d)[m + k] - Low(d)[m] = Low(e)[m + k] - Low(e)[m]
<1> DEFINE S == {n \in Nat : n <= k => Low(d)[m + n] - Low(d)[m] = Low(e)[m + n] - Low(e)[m]}
<1>1. 0 \in S
  <2>1. m + 0 = m /\ Low(d)[m] \in Nat /\ Low(e)[m] \in Nat
    BY LowIs
  <2> QED  BY <2>1
<1>2. ASSUME NEW n \in Nat, n \in S PROVE n + 1 \in S
  <2> SUFFICES ASSUME n + 1 <= k
               PROVE  Low(d)[m + (n + 1)] - Low(d)[m] = Low(e)[m + (n + 1)] - Low(e)[m]
    OBVIOUS
  <2>1. PICK j \in Nat : j = m + n /\ j + 1 = m + (n + 1)
    OBVIOUS
  <2>2. DigitAt(d, j + 1) = DigitAt(e, j + 1)
    BY <2>1
  <2>3. PICK y \in Nat : y = DigitAt(d, j + 1) * Ten[j]
    <3>1. DigitAt(d, j + 1) \in 0..9 /\ Ten[j] \in Nat
      <4>1. j + 1 \in Nat \ {0}
        OBVIOUS
      <4> QED  BY <4>1, DigitIs, TenIs
    <3>2. \A a \in 0..9, b \in Nat : a * b \in Nat
      OBVIOUS
    <3> QED  BY <3>1, <3>2
  <2>4. Low(d)[j + 1] = Low(d)[j] + y /\ Low(e)[j + 1] = Low(e)[j] + y
    BY <2>2, <2>3, LowIs
  <2>5. Low(d)[j] - Low(d)[m] = Low(e)[j] - Low(e)[m]
    BY <1>2, <2>1
  <2>6. Low(d)[j] \in Nat /\ Low(d)[m] \in Nat /\ Low(e)[j] \in Nat /\ Low(e)[m] \in Nat
    BY LowIs
  <2> QED  BY <2>1, <2>4, <2>5, <2>6
<1> HIDE DEF S
<1>3. k \in S
  BY <1>1, <1>2, SetInduction
<1> QED  BY <1>3 DEF S

LEMMA LowBeyond ==
  ASSUME NEW d \in DigitString, NEW n \in Nat, Len(d) <= n
  PROVE  Low(d)[n] = Value(d) /\ Value(d) \in Nat /\ Len(d) \in Nat
<1>1. Len(d) \in Nat /\ <<>> \in DigitString /\ Len(<<>>) = 0
  BY DEF DigitString
<1>2. PICK k \in Nat : n = Len(d) + k
  <2>1. n - Len(d) \in Nat /\ n = Len(d) + (n - Len(d))
    BY <1>1
  <2> QED  BY <2>1
<1> DEFINE S == {i \in Nat : Low(d)[Len(d) + i] = Low(d)[Len(d)]}
<1>3. 0 \in S
  BY <1>1
<1>4. ASSUME NEW i \in Nat, i \in S PROVE i + 1 \in S
  <2>1. PICK j \in Nat : j = Len(d) + i /\ j + 1 = Len(d) + (i + 1)
    BY <1>1
  <2>2. DigitAt(d, j + 1) = 0
    <3>1. j + 1 \in Nat \ {0} /\ j + 1 > Len(d)
      BY <1>1, <2>1
    <3> QED  BY <3>1, DigitIs
  <2>3. Low(d)[j + 1] = Low(d)[j]
    <3>1. Ten[j] \in Nat /\ Low(d)[j] \in Nat
      BY LowIs, TenIs
    <3>2. 0 * Ten[j] = 0
      BY <3>1
    <3>3. Low(d)[j + 1] = Low(d)[j] + DigitAt(d, j + 1) * Ten[j]
      BY LowIs
    <3> QED  BY <2>2, <3>1, <3>2, <3>3
  <2> QED  BY <1>4, <2>1, <2>3
<1> HIDE DEF S
<1>5. k \in S
  BY <1>3, <1>4, SetInduction
<1>6. Low(d)[Len(d)] \in Nat
  BY <1>1, LowIs
<1> QED  BY <1>1, <1>2, <1>5, <1>6 DEF S, Value

(* The same digits in the same places are worth the same.                   *)
LEMMA SameDigits ==
  ASSUME NEW d \in DigitString, NEW e \in DigitString,
         \A i \in Nat \ {0} : DigitAt(d, i) = DigitAt(e, i)
  PROVE  Value(d) = Value(e)
<1>1. PICK n \in Nat : Len(d) <= n /\ Len(e) <= n
  <2>1. Len(d) \in Nat /\ Len(e) \in Nat
    BY DEF DigitString
  <2>2. Len(d) + Len(e) \in Nat /\ Len(d) <= Len(d) + Len(e) /\ Len(e) <= Len(d) + Len(e)
    BY <2>1
  <2> QED  BY <2>2
<1>2. Low(d)[0 + n] - Low(d)[0] = Low(e)[0 + n] - Low(e)[0]
  <2>1. \A i \in Nat : 0 < i /\ i <= 0 + n => DigitAt(d, i) = DigitAt(e, i)
    OBVIOUS
  <2> QED  BY <2>1, LowFrom
<1>3. Low(d)[0] = 0 /\ Low(e)[0] = 0 /\ Low(d)[n] \in Nat /\ Low(e)[n] \in Nat /\ 0 + n = n
  BY LowIs
<1>4. Low(d)[n] = Low(e)[n]
  BY <1>2, <1>3
<1> QED  BY <1>1, <1>4, LowBeyond

-----------------------------------------------------------------------------
(* Zeros in front and behind.                                               *)
NoZeroFirst(d) == d = <<>> \/ d[1] # 0

LEMMA TrimIs ==
  ASSUME NEW d \in DigitString
  PROVE  /\ trimLeadingZeros(d) \in DigitString /\ NoZeroFirst(trimLeadingZeros(d))
         /\ Value(trimLeadingZeros(d)) = Value(d)
<1>1. PICK n \in Nat : n = Len(d) /\ DOMAIN d = 1..n /\ \A i \in 1..n : d[i] \in 0..9
  <2>1. Len(d) \in Nat /\ DOMAIN d = 1..Len(d) /\ \A i \in 1..Len(d) : d[i] \in 0..9
    BY DEF DigitString
  <2> QED  BY <2>1
<1>2. CASE \A i \in DOMAIN d : d[i] = 0
  <2>1. trimLeadingZeros(d) = <<>>
    BY <1>2 DEF trimLeadingZeros
  <2>2. <<>> \in DigitString /\ Len(<<>>) = 0
    BY DEF DigitString
  <2>3. \A i \in Nat \ {0} : DigitAt(d, i) = DigitAt(<<>>, i)
    <3> SUFFICES ASSUME NEW i \in Nat \ {0} PROVE DigitAt(d, i) = 0 /\ DigitAt(<<>>, i) = 0
      OBVIOUS
    <3>1. DigitAt(<<>>, i) = 0
      BY <2>2, DigitIs
    <3>2. i <= n => n + 1 - i \in 1..n
      OBVIOUS
    <3> QED  BY <1>1, <1>2, <3>1, <3>2 DEF DigitAt
  <2> QED  BY <2>1, <2>2, <2>3, SameDigits DEF NoZeroFirst
<1>3. CASE \E i \in DOMAIN d : d[i] # 0
  <2> DEFINE First(i) == d[i] # 0 /\ \A k \in 1..i - 1 : d[k] = 0
  <2>1. \E i \in DOMAIN d : First(i)
    <3> DEFINE S == {i \in Nat : i \in 1..n /\ d[i] # 0}
    <3>1. PICK m \in S : \A y \in S : ~(y < m)
      <4>1. S # {} /\ S \subseteq Nat
        BY <1>1, <1>3
      <4> HIDE DEF S
      <4> QED  BY <4>1, LeastNumber
    <3>2. \A k \in 1..m - 1 : d[k] = 0
      <4> SUFFICES ASSUME NEW k \in 1..m - 1, d[k] # 0 PROVE FALSE
        OBVIOUS
      <4>1. k \in S /\ k < m
        BY <3>1
      <4> QED  BY <3>1, <4>1
    <3> QED  BY <1>1, <3>1, <3>2
  <2>2. PICK f \in 1..n : First(f) /\ trimLeadingZeros(d) = SubSeq(d, f, n)
    <3> DEFINE f == CHOOSE i \in DOMAIN d : First(i)
    <3>1. f \in DOMAIN d /\ First(f)
      <4> HIDE DEF First
      <4> QED  BY <2>1
    <3>2. trimLeadingZeros(d) = SubSeq(d, f, Len(d))
      <4>1. ~\A i \in DOMAIN d : d[i] = 0
        BY <1>3
      <4> QED  BY <4>1 DEF trimLeadingZeros
    <3> QED  BY <1>1, <3>1, <3>2
  <2> DEFINE t == SubSeq(d, f, n)
  <2>3. t \in DigitString /\ Len(t) = n - f + 1 /\ \A i \in 1..(n - f + 1) : t[i] = d[f + i - 1]
    <3>1. \A i \in f..n : d[i] \in 0..9
      BY <1>1
    <3>2. /\ t \in Seq(0..9) /\ Len(t) = IF f <= n THEN n - f + 1 ELSE 0
          /\ \A i \in 1..(n - f + 1) : t[i] = d[f + i - 1]
      BY <1>1, <3>1, SubSeqProperties
    <3> HIDE DEF t
    <3> QED  BY <3>2 DEF DigitString
  <2> HIDE DEF t
  <2>4. t[1] # 0
    <3>1. 1 \in 1..(n - f + 1) /\ f + 1 - 1 = f
      OBVIOUS
    <3> QED  BY <2>2, <2>3, <3>1
  <2>5. ASSUME NEW i \in Nat \ {0} PROVE DigitAt(t, i) = DigitAt(d, i)
    <3>1. CASE i <= n - f + 1
      <4>1. (n - f + 1) + 1 - i \in 1..(n - f + 1) /\ f + ((n - f + 1) + 1 - i) - 1 = n + 1 - i /\ i <= n
        BY <3>1
      <4> QED  BY <1>1, <2>3, <3>1, <4>1 DEF DigitAt
    <3>2. CASE ~(i <= n - f + 1)
      <4>1. DigitAt(t, i) = 0
        BY <2>3, <3>2 DEF DigitAt
      <4>2. CASE i <= n
        <5>1. n + 1 - i \in 1..f - 1
          BY <3>2, <4>2
        <5> QED  BY <1>1, <2>2, <4>1, <4>2, <5>1 DEF DigitAt
      <4>3. CASE ~(i <= n)
        BY <1>1, <4>1, <4>3 DEF DigitAt
      <4> QED  BY <4>2, <4>3
    <3> QED  BY <3>1, <3>2
  <2>6. Value(t) = Value(d)
    BY <2>3, <2>5, SameDigits
  <2> QED  BY <2>2, <2>3, <2>4, <2>6 DEF t, NoZeroFirst
<1> QED  BY <1>1, <1>2, <1>3

LEMMA JoinDigits ==
  ASSUME NEW a \in DigitString, NEW b \in DigitString
  PROVE  /\ a \o b \in DigitString /\ Joined(a \o b, a, b)
         /\ Len(a) \in Nat /\ Len(b) \in Nat /\ (a # <<>> <=> Len(a) > 0)
<1>1. a \in Seq(0..9) /\ b \in Seq(0..9)
  BY DEF DigitString
<1>2. a \o b \in Seq(0..9) /\ Joined(a \o b, a, b)
  BY <1>1, Join
<1>3. Len(a) \in Nat /\ Len(b) \in Nat /\ (a # <<>> <=> Len(a) > 0)
  BY <1>1
<1> QED  BY <1>2, <1>3 DEF DigitString

LEMMA ZerosAre ==
  ASSUME NEW k \in Nat
  PROVE  /\ Zeros(k) \in DigitString /\ Len(Zeros(k)) = k
         /\ \A i \in 1..k : Zeros(k)[i] = 0
<1>1. Zeros(k) \in [1..k -> 0..9]
  BY DEF Zeros
<1> QED  BY <1>1 DEF DigitString, Zeros

LEMMA Shifted ==
  ASSUME NEW d \in DigitString, NEW k \in Nat
  PROVE  /\ d \o Zeros(k) \in DigitString /\ Len(d \o Zeros(k)) = Len(d) + k
         /\ Value(d \o Zeros(k)) = Value(d) * Ten[k]
         /\ d # <<>> /\ NoZeroFirst(d) => NoZeroFirst(d \o Zeros(k))
<1>1. PICK w \in DigitString : w = d \o Zeros(k) /\ Joined(w, d, Zeros(k))
  BY ZerosAre, JoinDigits
<1>2. PICK l \in Nat : l = Len(d) /\ (d # <<>> <=> l > 0) /\ \A i \in 1..l : d[i] \in 0..9
  <2>1. \A i \in 1..Len(d) : d[i] \in 0..9
    BY DEF DigitString
  <2> QED  BY <2>1, JoinDigits
<1>3. Len(w) = l + k /\ \A i \in 1..(l + k) : w[i] = IF i <= l THEN d[i] ELSE 0
  <2>1. Len(Zeros(k)) = k
    BY ZerosAre
  <2>2. \A i \in 1..(l + k) : ~(i <= l) => i - l \in 1..k
    BY <1>2
  <2> QED  BY <1>1, <1>2, <2>1, <2>2, ZerosAre DEF Joined
<1>4. ASSUME NEW i \in Nat \ {0}, i <= k PROVE DigitAt(w, i) = 0
  <2>1. l + k + 1 - i \in 1..(l + k) /\ ~(l + k + 1 - i <= l) /\ i <= l + k
    BY <1>2, <1>4
  <2> QED  BY <1>3, <2>1 DEF DigitAt
<1>5. ASSUME NEW i \in Nat \ {0} PROVE DigitAt(w, k + i) = DigitAt(d, i)
  <2>1. CASE i <= l
    <3>1. l + k + 1 - (k + i) = l + 1 - i /\ l + 1 - i \in 1..(l + k) /\ l + 1 - i <= l /\ k + i <= l + k
      BY <1>2, <2>1
    <3> QED  BY <1>2, <1>3, <2>1, <3>1 DEF DigitAt
  <2>2. CASE ~(i <= l)
    <3>1. ~(k + i <= l + k)
      BY <1>2, <2>2
    <3> QED  BY <1>2, <1>3, <2>2, <3>1 DEF DigitAt
  <2> QED  BY <2>1, <2>2
<1>6. Low(w)[k] = 0
  <2>1. <<>> \in DigitString /\ Len(<<>>) = 0
    BY DEF DigitString
  <2>2. \A i \in Nat : 0 < i /\ i <= 0 + k => DigitAt(w, i) = DigitAt(<<>>, i)
    <3> SUFFICES ASSUME NEW i \in Nat, 0 < i, i <= 0 + k PROVE DigitAt(w, i) = DigitAt(<<>>, i)
      OBVIOUS
    <3>1. i \in Nat \ {0} /\ i <= k
      OBVIOUS
    <3>2. DigitAt(<<>>, i) = 0
      BY <2>1, <3>1, DigitIs
    <3> QED  BY <1>4, <3>1, <3>2
  <2>3. Low(w)[0 + k] - Low(w)[0] = Low(<<>>)[0 + k] - Low(<<>>)[0]
    BY <2>1, <2>2, LowFrom
  <2>4. Low(<<>>)[k] = Value(<<>>) /\ Value(<<>>) = Low(<<>>)[0]
    <3>1. Low(<<>>)[k] = Value(<<>>)
      BY <2>1, LowBeyond
    <3> QED  BY <2>1, <3>1 DEF Value
  <2>5. Low(w)[0] = 0 /\ Low(<<>>)[0] = 0 /\ Low(w)[k] \in Nat /\ 0 + k = k
    BY <2>1, LowIs
  <2> QED  BY <2>3, <2>4, <2>5
<1> DEFINE S == {n \in Nat : Low(w)[k + n] = Low(d)[n] * Ten[k]}
<1>7. 0 \in S
  <2>1. k + 0 = k /\ Low(d)[0] = 0 /\ Ten[k] \in Nat
    BY LowIs, TenIs
  <2>2. 0 * Ten[k] = 0
    BY <2>1
  <2> QED  BY <1>6, <2>1, <2>2
<1>8. ASSUME NEW n \in Nat, n \in S PROVE n + 1 \in S
  <2>1. PICK j \in Nat : j = k + n /\ j + 1 = k + (n + 1)
    OBVIOUS
  <2>2. PICK x \in Nat, t \in Nat, u \in Nat, c \in Nat :
          x = Low(d)[n] /\ t = Ten[k] /\ u = Ten[n] /\ c = DigitAt(d, n + 1)
    <3>1. n + 1 \in Nat \ {0}
      OBVIOUS
    <3>2. DigitAt(d, n + 1) \in Nat
      BY <3>1, DigitIs
    <3> QED  BY <3>2, LowIs, TenIs
  <2>3. DigitAt(w, j + 1) = c
    <3>1. n + 1 \in Nat \ {0}
      OBVIOUS
    <3> QED  BY <1>5, <2>1, <2>2, <3>1
  <2>4. Low(w)[j + 1] = Low(w)[j] + c * Ten[j] /\ Low(d)[n + 1] = x + c * u
    BY <2>2, <2>3, LowIs
  <2>5. Low(w)[j] = x * t /\ Ten[j] = t * u
    BY <1>8, <2>1, <2>2, TenGrows
  <2>6. x * t + c * (t * u) = (x + c * u) * t
    OBVIOUS
  <2> QED  BY <2>1, <2>2, <2>4, <2>5, <2>6
<1> HIDE DEF S
<1>9. l \in S
  BY <1>7, <1>8, SetInduction
<1>10. Value(w) = Value(d) * Ten[k]
  <2>1. l + k = k + l /\ Low(w)[k + l] = Low(d)[l] * Ten[k]
    BY <1>9 DEF S
  <2> QED  BY <1>2, <1>3, <2>1 DEF Value
<1>11. d # <<>> /\ NoZeroFirst(d) => NoZeroFirst(w)
  <2> SUFFICES ASSUME d # <<>>, NoZeroFirst(d) PROVE w[1] # 0
    BY DEF NoZeroFirst
  <2>1. d[1] # 0 /\ 1 \in 1..(l + k) /\ 1 <= l
    BY <1>2 DEF NoZeroFirst
  <2> QED  BY <1>3, <2>1
<1> QED  BY <1>1, <1>2, <1>3, <1>10, <1>11

(* The same for a zero, which stays without digits.                         *)
LEMMA WidenedIs ==
  ASSUME NEW d \in DigitString, NoZeroFirst(d), NEW k \in Nat
  PROVE  /\ Widened(d, k) \in DigitString /\ NoZeroFirst(Widened(d, k))
         /\ Value(Widened(d, k)) = Value(d) * Ten[k]
<1>1. CASE d = <<>>
  <2>1. Widened(d, k) = <<>>
    BY <1>1 DEF Widened
  <2>2. Value(<<>>) = 0
    <3>1. <<>> \in DigitString /\ Len(<<>>) = 0
      BY DEF DigitString
    <3> QED  BY <3>1, LowIs DEF Value
  <2>3. 0 * Ten[k] = 0
    BY TenIs
  <2> QED  BY <1>1, <2>1, <2>2, <2>3
<1>2. CASE d # <<>> /\ k = 0
  <2>1. Widened(d, k) = d
    BY <1>2 DEF Widened
  <2>2. Value(d) \in Nat
    <3>1. Len(d) \in Nat
      BY DEF DigitString
    <3> QED  BY <3>1, LowIs DEF Value
  <2>3. Value(d) * 1 = Value(d) /\ Ten[k] = 1
    BY <1>2, <2>2, TenIs
  <2> QED  BY <2>1, <2>3
<1>3. CASE d # <<>> /\ k # 0
  <2>1. Widened(d, k) = d \o Zeros(k)
    BY <1>3 DEF Widened
  <2> QED  BY <1>3, <2>1, Shifted
<1> QED  BY <1>1, <1>2, <1>3

-----------------------------------------------------------------------------
(* Digits made place by place.                                              *)
LEMMA ReversedIs ==
  ASSUME NEW n \in Nat, NEW digit, \A i \in 1..n : digit[i] \in 0..9
  PROVE  /\ Reversed(digit, n) \in DigitString /\ Len(Reversed(digit, n)) = n
         /\ \A i \in 1..n : DigitAt(Reversed(digit, n), i) = digit[i]
<1>1. Reversed(digit, n) \in [1..n -> 0..9]
  <2>1. \A k \in 1..n : n + 1 - k \in 1..n
    OBVIOUS
  <2> QED  BY <2>1 DEF Reversed
<1>2. Reversed(digit, n) \in DigitString /\ Len(Reversed(digit, n)) = n
  BY <1>1 DEF DigitString
<1>3. ASSUME NEW i \in 1..n PROVE DigitAt(Reversed(digit, n), i) = digit[i]
  <2>1. n + 1 - i \in 1..n /\ n + 1 - (n + 1 - i) = i /\ i <= n
    OBVIOUS
  <2>2. Reversed(digit, n)[n + 1 - i] = digit[n + 1 - (n + 1 - i)]
    BY <2>1 DEF Reversed
  <2> QED  BY <1>2, <2>1, <2>2 DEF DigitAt
<1> QED  BY <1>2, <1>3

LEMMA LongerIs ==
  ASSUME NEW a \in DigitString, NEW b \in DigitString
  PROVE  Longer(a, b) \in Nat /\ Len(a) <= Longer(a, b) /\ Len(b) <= Longer(a, b)
<1>1. Len(a) \in Nat /\ Len(b) \in Nat
  BY DEF DigitString
<1> QED  BY <1>1 DEF Longer

LEMMA CarriesAre ==
  ASSUME NEW a \in DigitString, NEW b \in DigitString
  PROVE  /\ Carries(a, b) \in [Nat -> 0..1] /\ Carries(a, b)[0] = 0
         /\ \A n \in Nat : Carries(a, b)[n + 1] =
              (Carries(a, b)[n] + DigitAt(a, n + 1) + DigitAt(b, n + 1)) \div 10
<1> DEFINE step == [n \in Nat |-> [x \in 0..1 |-> (x + DigitAt(a, n + 1) + DigitAt(b, n + 1)) \div 10]]
           Is(g) == g = [n \in Nat |-> IF n = 0 THEN 0 ELSE (g[n - 1] + DigitAt(a, n) + DigitAt(b, n)) \div 10]
<1>1. PICK g : Stepping(g, 0..1, 0, step)
  <2>1. \A n \in Nat, x \in 0..1 : (x + DigitAt(a, n + 1) + DigitAt(b, n + 1)) \div 10 \in 0..1
    <3> SUFFICES ASSUME NEW n \in Nat, NEW x \in 0..1
                 PROVE  (x + DigitAt(a, n + 1) + DigitAt(b, n + 1)) \div 10 \in 0..1
      OBVIOUS
    <3>1. n + 1 \in Nat \ {0}
      OBVIOUS
    <3>2. DigitAt(a, n + 1) \in 0..9 /\ DigitAt(b, n + 1) \in 0..9
      BY <3>1, DigitIs
    <3>3. \A s \in 0..19 : s \div 10 \in 0..1
      OBVIOUS
    <3>4. x + DigitAt(a, n + 1) + DigitAt(b, n + 1) \in 0..19
      BY <3>2
    <3> QED  BY <3>3, <3>4
  <2>2. step \in [Nat -> [0..1 -> 0..1]] /\ 0 \in 0..1
    BY <2>1
  <2> HIDE DEF step
  <2> QED  BY <2>2, NumbersRecurse
<1>2. Is(g)
  <2>1. \A n \in Nat : n # 0 => n - 1 \in Nat /\ g[n - 1] \in 0..1 /\ n - 1 + 1 = n
    BY <1>1 DEF Stepping
  <2>2. \A n \in Nat : n # 0 =>
          step[n - 1][g[n - 1]] = (g[n - 1] + DigitAt(a, n) + DigitAt(b, n)) \div 10
    BY <2>1
  <2>3. g = [n \in Nat |-> g[n]]
    BY <1>1 DEF Stepping
  <2> HIDE DEF step
  <2> QED  BY <1>1, <2>2, <2>3 DEF Stepping
<1>3. PICK l : l = Carries(a, b) /\ Is(l)
  <2>1. Carries(a, b) = CHOOSE h : Is(h)
    BY DEF Carries
  <2> HIDE DEF Is
  <2> QED  BY <1>2, <2>1
<1>4. l[0] = 0 /\ \A n \in Nat : l[n + 1] = (l[n] + DigitAt(a, n + 1) + DigitAt(b, n + 1)) \div 10
  <2>1. \A n \in Nat : n + 1 \in Nat /\ n + 1 # 0 /\ n + 1 - 1 = n
    OBVIOUS
  <2> QED  BY <1>3, <2>1
<1>5. \A n \in Nat : l[n] \in 0..1
  <2> DEFINE S == {n \in Nat : l[n] \in 0..1}
  <2>1. 0 \in S
    BY <1>4
  <2>2. ASSUME NEW n \in Nat, n \in S PROVE n + 1 \in S
    <3>1. n + 1 \in Nat \ {0}
      OBVIOUS
    <3>2. DigitAt(a, n + 1) \in 0..9 /\ DigitAt(b, n + 1) \in 0..9
      BY <3>1, DigitIs
    <3>3. \A s \in 0..19 : s \div 10 \in 0..1
      OBVIOUS
    <3>4. l[n] + DigitAt(a, n + 1) + DigitAt(b, n + 1) \in 0..19
      BY <2>2, <3>2
    <3> QED  BY <1>4, <3>1, <3>3, <3>4
  <2> HIDE DEF S
  <2>3. Nat \subseteq S
    BY <2>1, <2>2, SetInduction
  <2> QED  BY <2>3 DEF S
<1> QED  BY <1>3, <1>4, <1>5

LEMMA AddIs ==
  ASSUME NEW a \in DigitString, NEW b \in DigitString
  PROVE  addAbs(a, b) \in DigitString /\ Value(addAbs(a, b)) = Value(a) + Value(b)
<1>1. PICK n \in Nat : n = Longer(a, b) /\ Len(a) <= n /\ Len(b) <= n
  BY LongerIs
<1>2. PICK c : c = Carries(a, b) /\ c \in [Nat -> 0..1] /\ c[0] = 0
               /\ \A i \in Nat : c[i + 1] = (c[i] + DigitAt(a, i + 1) + DigitAt(b, i + 1)) \div 10
  BY CarriesAre
<1> DEFINE digit == [i \in 1..n |-> (c[i - 1] + DigitAt(a, i) + DigitAt(b, i)) % 10]
<1>3. ASSUME NEW i \in Nat, i + 1 \in 1..n
      PROVE  /\ digit[i + 1] \in 0..9 /\ c[i + 1] \in 0..1 /\ c[i] \in 0..1
             /\ digit[i + 1] + 10 * c[i + 1] = c[i] + DigitAt(a, i + 1) + DigitAt(b, i + 1)
  <2>1. i + 1 \in Nat \ {0} /\ i + 1 - 1 = i
    OBVIOUS
  <2>2. PICK s \in Nat : s = c[i] + DigitAt(a, i + 1) + DigitAt(b, i + 1)
    <3>1. DigitAt(a, i + 1) \in 0..9 /\ DigitAt(b, i + 1) \in 0..9 /\ c[i] \in 0..1
      BY <1>2, <2>1, DigitIs
    <3> QED  BY <3>1
  <2>3. s % 10 \in 0..9 /\ (s % 10) + 10 * (s \div 10) = s
    OBVIOUS
  <2>4. digit[i + 1] = s % 10
    BY <1>3, <2>1, <2>2
  <2>5. c[i + 1] = s \div 10
    BY <1>2, <2>2
  <2>6. c[i + 1] \in 0..1 /\ c[i] \in 0..1
    BY <1>2
  <2>7. digit[i + 1] + 10 * c[i + 1] = s
    BY <2>3, <2>4, <2>5
  <2> HIDE DEF digit
  <2> QED  BY <2>2, <2>3, <2>4, <2>6, <2>7
<1>4. PICK r \in DigitString :
        r = Reversed(digit, n) /\ Len(r) = n /\ \A i \in 1..n : DigitAt(r, i) = digit[i]
  <2>1. \A i \in 1..n : digit[i] \in 0..9
    <3> SUFFICES ASSUME NEW i \in 1..n PROVE digit[i] \in 0..9
      OBVIOUS
    <3>1. i - 1 \in Nat /\ i - 1 + 1 = i
      OBVIOUS
    <3> HIDE DEF digit
    <3> QED  BY <1>3, <3>1
  <2> HIDE DEF digit
  <2> QED  BY <2>1, ReversedIs
<1>5. addAbs(a, b) = IF c[n] = 0 THEN r ELSE <<c[n]>> \o r
  BY <1>1, <1>2, <1>4 DEF addAbs, Carried
<1> HIDE DEF digit
<1> DEFINE S == {i \in Nat : i <= n => Low(r)[i] + c[i] * Ten[i] = Low(a)[i] + Low(b)[i]}
<1>6. 0 \in S
  <2>1. Low(r)[0] = 0 /\ Low(a)[0] = 0 /\ Low(b)[0] = 0 /\ Ten[0] = 1
    BY LowIs, TenIs
  <2> QED  BY <1>2, <2>1
<1>7. ASSUME NEW i \in Nat, i \in S PROVE i + 1 \in S
  <2> SUFFICES ASSUME i + 1 <= n
               PROVE  Low(r)[i + 1] + c[i + 1] * Ten[i + 1] = Low(a)[i + 1] + Low(b)[i + 1]
    OBVIOUS
  <2>1. i + 1 \in 1..n /\ i + 1 \in Nat \ {0}
    OBVIOUS
  <2>2. PICK t \in Nat, x \in Nat, y \in Nat, z \in Nat :
          t = Ten[i] /\ x = Low(r)[i] /\ y = Low(a)[i] /\ z = Low(b)[i]
    BY LowIs, TenIs
  <2>3. PICK da \in 0..9, db \in 0..9, dr \in 0..9, p \in 0..1, q \in 0..1 :
          /\ da = DigitAt(a, i + 1) /\ db = DigitAt(b, i + 1) /\ dr = DigitAt(r, i + 1)
          /\ p = c[i] /\ q = c[i + 1] /\ dr + 10 * q = p + da + db
    <3>1. DigitAt(a, i + 1) \in 0..9 /\ DigitAt(b, i + 1) \in 0..9
      BY <2>1, DigitIs
    <3>2. DigitAt(r, i + 1) = digit[i + 1]
      BY <1>4, <2>1
    <3>3. /\ digit[i + 1] \in 0..9 /\ c[i + 1] \in 0..1 /\ c[i] \in 0..1
          /\ digit[i + 1] + 10 * c[i + 1] = c[i] + DigitAt(a, i + 1) + DigitAt(b, i + 1)
      BY <1>3, <2>1
    <3> QED  BY <3>1, <3>2, <3>3
  <2>4. /\ Low(r)[i + 1] = x + dr * t /\ Low(a)[i + 1] = y + da * t /\ Low(b)[i + 1] = z + db * t
        /\ Ten[i + 1] = 10 * t
    BY <2>2, <2>3, LowIs, TenIs
  <2>5. x + p * t = y + z
    BY <1>7, <2>2, <2>3
  <2>6. (dr + 10 * q) * t = (p + da + db) * t
    BY <2>3
  <2>7. (dr + 10 * q) * t = dr * t + q * (10 * t) /\ (p + da + db) * t = p * t + da * t + db * t
    OBVIOUS
  <2>8. dr * t \in Nat /\ q * (10 * t) \in Nat /\ p * t \in Nat /\ da * t \in Nat /\ db * t \in Nat
    OBVIOUS
  <2>9. x + dr * t + q * (10 * t) = y + da * t + (z + db * t)
    BY <2>5, <2>6, <2>7, <2>8
  <2> QED  BY <2>3, <2>4, <2>9
<1> HIDE DEF S
<1>8. n \in S
  BY <1>6, <1>7, SetInduction
<1>9. Value(r) + c[n] * Ten[n] = Value(a) + Value(b)
  <2>1. Low(r)[n] = Value(r) /\ Low(a)[n] = Value(a) /\ Low(b)[n] = Value(b)
    BY <1>1, <1>4, LowBeyond
  <2> QED  BY <1>8, <2>1 DEF S
<1>10. Value(r) \in Nat /\ Ten[n] \in Nat
  <2>1. Len(r) <= n
    BY <1>4
  <2> QED  BY <2>1, LowBeyond, TenIs
<1>11. CASE c[n] = 0
  <2>1. Value(r) + 0 * Ten[n] = Value(r)
    BY <1>10
  <2> QED  BY <1>4, <1>5, <1>9, <1>11, <2>1
<1>12. CASE c[n] = 1
  <2>1. <<1>> \in DigitString /\ Len(<<1>>) = 1 /\ <<1>>[1] = 1
    BY DEF DigitString
  <2>2. PICK w \in DigitString : w = <<1>> \o r /\ Joined(w, <<1>>, r)
    BY <2>1, JoinDigits
  <2>3. Len(w) = n + 1 /\ \A i \in 1..(n + 1) : w[i] = IF i <= 1 THEN 1 ELSE r[i - 1]
    <3>1. 1 + n = n + 1 /\ \A i \in 1..(n + 1) : i <= 1 => i = 1
      OBVIOUS
    <3> QED  BY <1>4, <2>1, <2>2, <3>1 DEF Joined
  <2>4. DigitAt(w, n + 1) = 1
    <3>1. n + 1 <= n + 1 /\ n + 1 + 1 - (n + 1) = 1 /\ 1 \in 1..(n + 1)
      OBVIOUS
    <3> QED  BY <2>3, <3>1 DEF DigitAt
  <2>5. \A i \in Nat : 0 < i /\ i <= 0 + n => DigitAt(w, i) = DigitAt(r, i)
    <3> SUFFICES ASSUME NEW i \in Nat, 0 < i, i <= 0 + n PROVE DigitAt(w, i) = DigitAt(r, i)
      OBVIOUS
    <3>1. i <= n /\ i <= n + 1 /\ n + 1 + 1 - i \in 1..(n + 1) /\ ~(n + 1 + 1 - i <= 1)
          /\ n + 1 + 1 - i - 1 = n + 1 - i
      OBVIOUS
    <3> QED  BY <1>4, <2>3, <3>1 DEF DigitAt
  <2>6. Low(w)[n] = Value(r)
    <3>1. Low(w)[0 + n] - Low(w)[0] = Low(r)[0 + n] - Low(r)[0]
      BY <2>5, LowFrom
    <3>2. Low(w)[0] = 0 /\ Low(r)[0] = 0 /\ Low(w)[n] \in Nat /\ Low(r)[n] \in Nat /\ 0 + n = n
      BY LowIs
    <3> QED  BY <1>4, <3>1, <3>2 DEF Value
  <2>7. Value(w) = Low(w)[n] + 1 * Ten[n]
    BY <2>3, <2>4, LowIs DEF Value
  <2> QED  BY <1>5, <1>9, <1>12, <2>2, <2>6, <2>7
<1> QED  BY <1>2, <1>11, <1>12

-----------------------------------------------------------------------------
(* Which number is the greater one.                                         *)
LEMMA LeadWorth ==
  ASSUME NEW d \in DigitString, NoZeroFirst(d), d # <<>>
  PROVE  Len(d) - 1 \in Nat /\ Ten[Len(d) - 1] <= Value(d) /\ Value(d) > 0
<1>1. PICK n \in Nat : n + 1 = Len(d) /\ n = Len(d) - 1
  <2>1. Len(d) \in Nat /\ Len(d) # 0
    BY DEF DigitString
  <2>2. Len(d) - 1 \in Nat /\ Len(d) - 1 + 1 = Len(d)
    BY <2>1
  <2> QED  BY <2>2
<1>2. PICK c \in 0..9 : c = DigitAt(d, n + 1) /\ c # 0
  <2>1. DigitAt(d, n + 1) = d[1]
    <3>1. n + 1 + 1 - (n + 1) = 1 /\ n + 1 <= n + 1
      OBVIOUS
    <3> QED  BY <1>1, <3>1 DEF DigitAt
  <2>2. n + 1 \in Nat \ {0}
    OBVIOUS
  <2>3. DigitAt(d, n + 1) \in 0..9
    BY <2>2, DigitIs
  <2> QED  BY <2>1, <2>3 DEF NoZeroFirst
<1>3. PICK t \in Nat \ {0}, x \in Nat : t = Ten[n] /\ x = Low(d)[n]
  BY LowIs, TenGrows
<1>4. Value(d) = x + c * t
  BY <1>1, <1>2, <1>3, LowIs DEF Value
<1>5. t <= c * t
  <2>1. PICK e \in Nat : c = e + 1
    <3>1. c - 1 \in Nat /\ c = c - 1 + 1
      BY <1>2
    <3> QED  BY <3>1
  <2>2. (e + 1) * t = e * t + t /\ e * t \in Nat
    OBVIOUS
  <2> QED  BY <2>1, <2>2
<1> QED  BY <1>1, <1>3, <1>4, <1>5

LEMMA WiderIsMore ==
  ASSUME NEW a \in DigitString, NEW b \in DigitString, NoZeroFirst(b), Len(a) < Len(b)
  PROVE  Value(a) < Value(b)
<1>1. Len(a) \in Nat /\ Len(b) \in Nat /\ b # <<>> /\ Len(b) - 1 \in Nat /\ Len(a) <= Len(b) - 1
  BY DEF DigitString
<1>2. Value(a) < Ten[Len(a)] /\ Ten[Len(a)] <= Ten[Len(b) - 1] /\ Ten[Len(b) - 1] <= Value(b)
  BY <1>1, LowBound, TenGrows, LeadWorth DEF Value
<1>3. Value(a) \in Nat /\ Value(b) \in Nat /\ Ten[Len(a)] \in Nat /\ Ten[Len(b) - 1] \in Nat
  BY <1>1, TenIs, LowIs DEF Value
<1> QED  BY <1>2, <1>3

LEMMA FirstDifferenceDecides ==
  ASSUME NEW a \in DigitString, NEW b \in DigitString, NEW n \in Nat, Len(a) = n, Len(b) = n,
         NEW i \in 1..n, a[i] < b[i], \A k \in 1..i - 1 : a[k] = b[k]
  PROVE  Value(a) < Value(b)
<1>1. PICK m \in Nat, k \in Nat : m = n - i /\ k = i - 1 /\ m + 1 + k = n
  <2>1. n - i \in Nat /\ i - 1 \in Nat /\ n - i + 1 + (i - 1) = n
    OBVIOUS
  <2> QED  BY <2>1
<1>2. PICK c \in 0..9, e \in 0..9 : c = DigitAt(a, m + 1) /\ e = DigitAt(b, m + 1) /\ c + 1 <= e
  <2>1. n + 1 - (m + 1) = i /\ m + 1 <= n /\ m + 1 \in Nat \ {0}
    BY <1>1
  <2>2. DigitAt(a, m + 1) = a[i] /\ DigitAt(b, m + 1) = b[i]
    BY <2>1 DEF DigitAt
  <2>3. DigitAt(a, m + 1) \in 0..9 /\ DigitAt(b, m + 1) \in 0..9
    BY <2>1, DigitIs
  <2> QED  BY <2>2, <2>3
<1>3. PICK t \in Nat, x \in Nat, y \in Nat : t = Ten[m] /\ x = Low(a)[m] /\ y = Low(b)[m]
  BY LowIs, TenIs
<1>4. Low(a)[m + 1] = x + c * t /\ Low(b)[m + 1] = y + e * t
  BY <1>2, <1>3, LowIs
<1>5. x < t
  BY <1>3, LowBound
<1>6. t + c * t <= e * t
  <2>1. PICK z \in Nat : e = c + 1 + z
    <3>1. e - c - 1 \in Nat /\ e = c + 1 + (e - c - 1)
      BY <1>2
    <3> QED  BY <3>1
  <2>2. (c + 1 + z) * t = c * t + t + z * t /\ z * t \in Nat /\ c * t \in Nat
    OBVIOUS
  <2> QED  BY <2>1, <2>2
<1>7. Low(a)[m + 1] < Low(b)[m + 1]
  <2>1. c * t \in Nat /\ e * t \in Nat
    OBVIOUS
  <2> QED  BY <1>4, <1>5, <1>6, <2>1
<1>8. Low(a)[m + 1 + k] - Low(a)[m + 1] = Low(b)[m + 1 + k] - Low(b)[m + 1]
  <2>1. \A j \in Nat : m + 1 < j /\ j <= m + 1 + k => DigitAt(a, j) = DigitAt(b, j)
    <3> SUFFICES ASSUME NEW j \in Nat, m + 1 < j, j <= m + 1 + k PROVE DigitAt(a, j) = DigitAt(b, j)
      OBVIOUS
    <3>1. j <= n /\ n + 1 - j \in 1..i - 1
      BY <1>1
    <3> QED  BY <3>1 DEF DigitAt
  <2>2. PICK p \in Nat : p = m + 1
    OBVIOUS
  <2>3. \A j \in Nat : p < j /\ j <= p + k => DigitAt(a, j) = DigitAt(b, j)
    BY <2>1, <2>2
  <2>4. Low(a)[p + k] - Low(a)[p] = Low(b)[p + k] - Low(b)[p]
    BY <2>3, LowFrom
  <2> QED  BY <2>2, <2>4
<1>9. Low(a)[n] < Low(b)[n]
  <2>1. Low(a)[n] \in Nat /\ Low(b)[n] \in Nat /\ Low(a)[m + 1] \in Nat /\ Low(b)[m + 1] \in Nat
    <3>1. m + 1 \in Nat
      OBVIOUS
    <3> QED  BY <3>1, LowIs
  <2> QED  BY <1>1, <1>7, <1>8, <2>1
<1> QED  BY <1>9 DEF Value

LEMMA LessIs ==
  ASSUME NEW a \in DigitString, NEW b \in DigitString, NoZeroFirst(a), NoZeroFirst(b)
  PROVE  /\ LessAbs(a, b) <=> Value(a) < Value(b)
         /\ Value(a) \in Nat /\ Value(b) \in Nat
<1>1. PICK m \in Nat, n \in Nat : m = Len(a) /\ n = Len(b) /\ DOMAIN a = 1..m /\ DOMAIN b = 1..n
  <2>1. Len(a) \in Nat /\ Len(b) \in Nat /\ DOMAIN a = 1..Len(a) /\ DOMAIN b = 1..Len(b)
    BY DEF DigitString
  <2> QED  BY <2>1
<1>2. Value(a) \in Nat /\ Value(b) \in Nat
  BY <1>1, LowIs DEF Value
<1>3. ASSUME LessAbs(a, b) PROVE Value(a) < Value(b)
  <2>1. CASE Len(a) < Len(b)
    BY <2>1, WiderIsMore
  <2>2. CASE m = n /\ \E i \in DOMAIN a : a[i] < b[i] /\ \A k \in 1..i - 1 : a[k] = b[k]
    <3>1. PICK i \in 1..n : a[i] < b[i] /\ \A k \in 1..i - 1 : a[k] = b[k]
      BY <1>1, <2>2
    <3> QED  BY <1>1, <2>2, <3>1, FirstDifferenceDecides
  <2> QED  BY <1>1, <1>3, <2>1, <2>2 DEF LessAbs
<1>4. ASSUME ~LessAbs(a, b) PROVE ~(Value(a) < Value(b))
  <2>1. CASE n < m
    <3>1. Value(b) < Value(a)
      BY <1>1, <2>1, WiderIsMore
    <3> QED  BY <1>2, <3>1
  <2>2. CASE m = n
    <3> DEFINE S == {i \in Nat : i \in 1..n /\ a[i] # b[i]}
    <3>1. CASE S = {}
      <4>1. \A i \in 1..n : a[i] = b[i]
        BY <3>1
      <4>2. \A i \in Nat \ {0} : DigitAt(a, i) = DigitAt(b, i)
        <5> SUFFICES ASSUME NEW i \in Nat \ {0} PROVE DigitAt(a, i) = DigitAt(b, i)
          OBVIOUS
        <5>1. i <= n => n + 1 - i \in 1..n
          OBVIOUS
        <5> QED  BY <1>1, <2>2, <4>1, <5>1 DEF DigitAt
      <4>3. Value(a) = Value(b)
        BY <4>2, SameDigits
      <4> QED  BY <1>2, <4>3
    <3>2. CASE S # {}
      <4>1. PICK i \in S : \A y \in S : ~(y < i)
        <5>1. S \subseteq Nat
          OBVIOUS
        <5> HIDE DEF S
        <5> QED  BY <3>2, <5>1, LeastNumber
      <4>2. i \in 1..n /\ a[i] # b[i]
        BY <4>1
      <4>3. \A k \in 1..i - 1 : a[k] = b[k]
        <5> SUFFICES ASSUME NEW k \in 1..i - 1, a[k] # b[k] PROVE FALSE
          OBVIOUS
        <5>1. k \in S /\ k < i
          BY <4>2
        <5> QED  BY <4>1, <5>1
      <4>4. ~(a[i] < b[i])
        BY <1>1, <1>4, <2>2, <4>2, <4>3 DEF LessAbs
      <4>5. a[i] \in 0..9 /\ b[i] \in 0..9
        BY <1>1, <2>2, <4>2 DEF DigitString
      <4>6. b[i] < a[i]
        BY <4>2, <4>4, <4>5
      <4>7. \A k \in 1..i - 1 : b[k] = a[k]
        BY <4>3
      <4>8. Value(b) < Value(a)
        BY <1>1, <2>2, <4>2, <4>6, <4>7, FirstDifferenceDecides
      <4> QED  BY <1>2, <4>8
    <3> QED  BY <3>1, <3>2
  <2>3. ~(m < n)
    BY <1>1, <1>4 DEF LessAbs
  <2> QED  BY <2>1, <2>2, <2>3
<1> QED  BY <1>2, <1>3, <1>4

LEMMA BorrowsAre ==
  ASSUME NEW a \in DigitString, NEW b \in DigitString
  PROVE  /\ Borrows(a, b) \in [Nat -> 0..1] /\ Borrows(a, b)[0] = 0
         /\ \A n \in Nat : Borrows(a, b)[n + 1] =
              IF DigitAt(a, n + 1) - Borrows(a, b)[n] - DigitAt(b, n + 1) < 0 THEN 1 ELSE 0
<1> DEFINE step == [n \in Nat |-> [x \in 0..1 |->
                      IF DigitAt(a, n + 1) - x - DigitAt(b, n + 1) < 0 THEN 1 ELSE 0]]
           Is(g) == g = [n \in Nat |-> IF n = 0 THEN 0
                           ELSE IF DigitAt(a, n) - g[n - 1] - DigitAt(b, n) < 0 THEN 1 ELSE 0]
<1>1. PICK g : Stepping(g, 0..1, 0, step)
  <2>1. step \in [Nat -> [0..1 -> 0..1]] /\ 0 \in 0..1
    OBVIOUS
  <2> HIDE DEF step
  <2> QED  BY <2>1, NumbersRecurse
<1>2. Is(g)
  <2>1. \A n \in Nat : n # 0 => n - 1 \in Nat /\ g[n - 1] \in 0..1 /\ n - 1 + 1 = n
    BY <1>1 DEF Stepping
  <2>2. \A n \in Nat : n # 0 =>
          step[n - 1][g[n - 1]] = IF DigitAt(a, n) - g[n - 1] - DigitAt(b, n) < 0 THEN 1 ELSE 0
    BY <2>1
  <2>3. g = [n \in Nat |-> g[n]]
    BY <1>1 DEF Stepping
  <2> HIDE DEF step
  <2> QED  BY <1>1, <2>2, <2>3 DEF Stepping
<1>3. PICK l : l = Borrows(a, b) /\ Is(l)
  <2>1. Borrows(a, b) = CHOOSE h : Is(h)
    BY DEF Borrows
  <2> HIDE DEF Is
  <2> QED  BY <1>2, <2>1
<1>4. l[0] = 0 /\ \A n \in Nat :
        l[n + 1] = IF DigitAt(a, n + 1) - l[n] - DigitAt(b, n + 1) < 0 THEN 1 ELSE 0
  <2>1. \A n \in Nat : n + 1 \in Nat /\ n + 1 # 0 /\ n + 1 - 1 = n
    OBVIOUS
  <2> QED  BY <1>3, <2>1
<1>5. \A n \in Nat : l[n] \in 0..1
  BY <1>3
<1> QED  BY <1>3, <1>4, <1>5

LEMMA SubIs ==
  ASSUME NEW a \in DigitString, NEW b \in DigitString, NoZeroFirst(b), Value(b) <= Value(a)
  PROVE  /\ subAbs(a, b) \in DigitString /\ NoZeroFirst(subAbs(a, b))
         /\ Value(subAbs(a, b)) = Value(a) - Value(b)
<1>1. PICK n \in Nat : n = Len(a) /\ Len(b) <= n
  <2>1. Len(a) \in Nat /\ Len(b) \in Nat
    BY DEF DigitString
  <2>2. Value(a) \in Nat /\ Value(b) \in Nat
    BY <2>1, LowIs DEF Value
  <2>3. ~(Len(a) < Len(b))
    BY <2>2, WiderIsMore
  <2> QED  BY <2>1, <2>3
<1>2. PICK c : c = Borrows(a, b) /\ c \in [Nat -> 0..1] /\ c[0] = 0
               /\ \A i \in Nat : c[i + 1] =
                    IF DigitAt(a, i + 1) - c[i] - DigitAt(b, i + 1) < 0 THEN 1 ELSE 0
  BY BorrowsAre
<1> DEFINE digit == [i \in 1..n |-> (DigitAt(a, i) - c[i - 1] - DigitAt(b, i)) % 10]
<1>3. ASSUME NEW i \in Nat, i + 1 \in 1..n
      PROVE  /\ digit[i + 1] \in 0..9 /\ c[i + 1] \in 0..1 /\ c[i] \in 0..1
             /\ digit[i + 1] - 10 * c[i + 1] = DigitAt(a, i + 1) - c[i] - DigitAt(b, i + 1)
  <2>1. i + 1 \in Nat \ {0} /\ i + 1 - 1 = i
    OBVIOUS
  <2>2. PICK s \in -10..9 : s = DigitAt(a, i + 1) - c[i] - DigitAt(b, i + 1)
    <3>1. DigitAt(a, i + 1) \in 0..9 /\ DigitAt(b, i + 1) \in 0..9 /\ c[i] \in 0..1
      BY <1>2, <2>1, DigitIs
    <3> QED  BY <3>1
  <2>3. s % 10 \in 0..9 /\ s % 10 = IF s < 0 THEN s + 10 ELSE s
    OBVIOUS
  <2>4. digit[i + 1] = s % 10
    BY <1>3, <2>1, <2>2
  <2>5. c[i + 1] = IF s < 0 THEN 1 ELSE 0
    BY <1>2, <2>2
  <2>6. c[i + 1] \in 0..1 /\ c[i] \in 0..1
    BY <1>2
  <2>7. digit[i + 1] - 10 * c[i + 1] = s
    BY <2>3, <2>4, <2>5
  <2> HIDE DEF digit
  <2> QED  BY <2>2, <2>3, <2>4, <2>6, <2>7
<1>4. PICK r \in DigitString :
        r = Reversed(digit, n) /\ Len(r) = n /\ \A i \in 1..n : DigitAt(r, i) = digit[i]
  <2>1. \A i \in 1..n : digit[i] \in 0..9
    <3> SUFFICES ASSUME NEW i \in 1..n PROVE digit[i] \in 0..9
      OBVIOUS
    <3>1. i - 1 \in Nat /\ i - 1 + 1 = i
      OBVIOUS
    <3> HIDE DEF digit
    <3> QED  BY <1>3, <3>1
  <2> HIDE DEF digit
  <2> QED  BY <2>1, ReversedIs
<1>5. subAbs(a, b) = trimLeadingZeros(r)
  BY <1>1, <1>2, <1>4 DEF subAbs
<1> HIDE DEF digit
<1> DEFINE S == {i \in Nat : i <= n => Low(r)[i] - c[i] * Ten[i] = Low(a)[i] - Low(b)[i]}
<1>6. 0 \in S
  <2>1. Low(r)[0] = 0 /\ Low(a)[0] = 0 /\ Low(b)[0] = 0 /\ Ten[0] = 1
    BY LowIs, TenIs
  <2> QED  BY <1>2, <2>1
<1>7. ASSUME NEW i \in Nat, i \in S PROVE i + 1 \in S
  <2> SUFFICES ASSUME i + 1 <= n
               PROVE  Low(r)[i + 1] - c[i + 1] * Ten[i + 1] = Low(a)[i + 1] - Low(b)[i + 1]
    OBVIOUS
  <2>1. i + 1 \in 1..n /\ i + 1 \in Nat \ {0}
    OBVIOUS
  <2>2. PICK t \in Nat, x \in Nat, y \in Nat, z \in Nat :
          t = Ten[i] /\ x = Low(r)[i] /\ y = Low(a)[i] /\ z = Low(b)[i]
    BY LowIs, TenIs
  <2>3. PICK da \in 0..9, db \in 0..9, dr \in 0..9, p \in 0..1, q \in 0..1 :
          /\ da = DigitAt(a, i + 1) /\ db = DigitAt(b, i + 1) /\ dr = DigitAt(r, i + 1)
          /\ p = c[i] /\ q = c[i + 1] /\ dr - 10 * q = da - p - db
    <3>1. DigitAt(a, i + 1) \in 0..9 /\ DigitAt(b, i + 1) \in 0..9
      BY <2>1, DigitIs
    <3>2. DigitAt(r, i + 1) = digit[i + 1]
      BY <1>4, <2>1
    <3>3. /\ digit[i + 1] \in 0..9 /\ c[i + 1] \in 0..1 /\ c[i] \in 0..1
          /\ digit[i + 1] - 10 * c[i + 1] = DigitAt(a, i + 1) - c[i] - DigitAt(b, i + 1)
      BY <1>3, <2>1
    <3> QED  BY <3>1, <3>2, <3>3
  <2>4. /\ Low(r)[i + 1] = x + dr * t /\ Low(a)[i + 1] = y + da * t /\ Low(b)[i + 1] = z + db * t
        /\ Ten[i + 1] = 10 * t
    BY <2>2, <2>3, LowIs, TenIs
  <2>5. x - p * t = y - z
    BY <1>7, <2>2, <2>3
  <2>6. (dr - 10 * q) * t = (da - p - db) * t
    BY <2>3
  <2>7. (dr - 10 * q) * t = dr * t - q * (10 * t) /\ (da - p - db) * t = da * t - p * t - db * t
    OBVIOUS
  <2>8. dr * t \in Nat /\ q * (10 * t) \in Nat /\ p * t \in Nat /\ da * t \in Nat /\ db * t \in Nat
    OBVIOUS
  <2>9. x + dr * t - q * (10 * t) = y + da * t - (z + db * t)
    BY <2>5, <2>6, <2>7, <2>8
  <2> QED  BY <2>3, <2>4, <2>9
<1> HIDE DEF S
<1>8. n \in S
  BY <1>6, <1>7, SetInduction
<1>9. Value(r) - c[n] * Ten[n] = Value(a) - Value(b)
  <2>1. Low(r)[n] = Value(r) /\ Low(a)[n] = Value(a) /\ Low(b)[n] = Value(b)
    BY <1>1, <1>4, LowBeyond
  <2> QED  BY <1>8, <2>1 DEF S
<1>10. Value(r) \in Nat /\ Ten[n] \in Nat /\ Value(r) < Ten[n] /\ Value(a) \in Nat /\ Value(b) \in Nat
  <2>1. Low(r)[n] = Value(r) /\ Value(r) \in Nat /\ Value(a) \in Nat /\ Value(b) \in Nat
    BY <1>1, <1>4, LowBeyond
  <2> QED  BY <2>1, LowBound, TenIs
<1>11. c[n] = 0
  <2> SUFFICES ASSUME c[n] = 1 PROVE FALSE
    BY <1>2
  <2>1. Value(r) - 1 * Ten[n] = Value(a) - Value(b)
    BY <1>9
  <2> QED  BY <1>10, <2>1
<1>12. Value(r) = Value(a) - Value(b)
  <2>1. Value(r) - 0 * Ten[n] = Value(r)
    BY <1>10
  <2> QED  BY <1>9, <1>11, <2>1
<1> QED  BY <1>5, <1>12, TrimIs

-----------------------------------------------------------------------------
(* The sum of two signed numbers of one scale.                              *)
LEMMA ValueIsNat ==
  ASSUME NEW d \in DigitString
  PROVE  /\ Value(d) \in Nat /\ Len(d) \in Nat
         /\ d = <<>> => Value(d) = 0
         /\ NoZeroFirst(d) /\ Value(d) = 0 => d = <<>>
<1>1. Len(d) \in Nat /\ (d = <<>> => Len(d) = 0)
  BY DEF DigitString
<1>2. Value(d) \in Nat /\ (d = <<>> => Value(d) = 0)
  BY <1>1, LowIs DEF Value
<1>3. ASSUME NoZeroFirst(d), d # <<>> PROVE Value(d) # 0
  BY <1>2, <1>3, LeadWorth
<1> QED  BY <1>1, <1>2, <1>3

Signs == {1, -1}
BalancedAt(r, n) ==
    /\ r.digits \in DigitString /\ NoZeroFirst(r.digits) /\ r.sign \in Signs
    /\ r.digits = <<>> => r.sign = 1
    /\ r.sign * Value(r.digits) = n

LEMMA SignedIs ==
  ASSUME NEW s \in Signs, NEW t \in Signs, NEW a \in DigitString, NEW b \in DigitString,
         NoZeroFirst(a), NoZeroFirst(b)
  PROVE  BalancedAt(Signed(s, a, t, b), s * Value(a) + t * Value(b))
<1>1. PICK x \in Nat, y \in Nat : x = Value(a) /\ y = Value(b)
  BY ValueIsNat
<1> DEFINE d == Signed(s, a, t, b).digits
           g == Signed(s, a, t, b).sign
<1>2. /\ d = IF s = t THEN trimLeadingZeros(addAbs(a, b))
              ELSE IF LessAbs(a, b) THEN subAbs(b, a) ELSE subAbs(a, b)
      /\ g = IF d = <<>> THEN 1 ELSE IF s # t /\ LessAbs(a, b) THEN t ELSE s
  BY DEF Signed
<1>3. LessAbs(a, b) <=> x < y
  BY <1>1, LessIs
<1> HIDE DEF d, g
<1>4. CASE s = t
  <2>1. d \in DigitString /\ NoZeroFirst(d) /\ Value(d) = x + y
    BY <1>1, <1>2, <1>4, AddIs, TrimIs
  <2>2. d = <<>> => x + y = 0
    BY <2>1, ValueIsNat
  <2>3. s * (x + y) = s * x + s * y
    BY DEF Signs
  <2>4. CASE d = <<>>
    <3>1. g = 1 /\ 1 * (x + y) = 0 /\ s * (x + y) = 0
      BY <1>2, <2>2, <2>4 DEF Signs
    <3> QED  BY <1>1, <1>4, <2>1, <2>3, <3>1 DEF BalancedAt, Signs, d, g
  <2>5. CASE d # <<>>
    <3>1. g = s
      BY <1>2, <1>4, <2>5
    <3> QED  BY <1>1, <1>4, <2>1, <2>3, <2>5, <3>1 DEF BalancedAt, d, g
  <2> QED  BY <2>4, <2>5
<1>5. CASE s # t /\ x < y
  <2>1. d \in DigitString /\ NoZeroFirst(d) /\ Value(d) = y - x
    BY <1>1, <1>2, <1>3, <1>5, SubIs
  <2>2. d # <<>>
    BY <1>5, <2>1, ValueIsNat
  <2>3. g = t
    BY <1>2, <1>3, <1>5, <2>2
  <2>4. t * (y - x) = s * x + t * y
    BY <1>5 DEF Signs
  <2> QED  BY <1>1, <2>1, <2>2, <2>3, <2>4 DEF BalancedAt, d, g
<1>6. CASE s # t /\ ~(x < y)
  <2>1. d \in DigitString /\ NoZeroFirst(d) /\ Value(d) = x - y
    BY <1>1, <1>2, <1>3, <1>6, SubIs
  <2>2. s * (x - y) = s * x + t * y
    BY <1>6 DEF Signs
  <2>3. CASE d = <<>>
    <3>1. x - y = 0 /\ g = 1
      BY <1>2, <2>1, <2>3, ValueIsNat
    <3>2. 1 * (x - y) = s * x + t * y
      BY <2>2, <3>1 DEF Signs
    <3> QED  BY <1>1, <2>1, <3>1, <3>2 DEF BalancedAt, Signs, d, g
  <2>4. CASE d # <<>>
    <3>1. g = s
      BY <1>2, <1>3, <1>6, <2>4
    <3> QED  BY <1>1, <2>1, <2>2, <2>4, <3>1 DEF BalancedAt, d, g
  <2> QED  BY <2>3, <2>4
<1> QED  BY <1>4, <1>5, <1>6

-----------------------------------------------------------------------------
(* One more value.                                                          *)
LEMMA AcceptedIs ==
  ASSUME NEW v \in Numbers, Accepted(v)
  PROVE  /\ v.sign \in Signs /\ Digits(v) \in DigitString
         /\ Scale(v) \in 0..MaxDigits
<1>1. /\ v.sign \in Signs /\ v.exp \in Int /\ v.whole \in DigitString /\ v.fraction \in DigitString
      /\ MaxDigits \in Nat
  BY DecimalSumBounds DEF Numbers, Signs, DigitString
<1>2. PICK k \in Nat : k = Len(v.fraction)
  BY <1>1 DEF DigitString
<1>3. Scale(v) \in 0..MaxDigits
  BY <1>1, <1>2 DEF Accepted, Scale
<1>4. v.whole \o v.fraction \in DigitString
  BY <1>1, JoinDigits
<1>5. CASE v.exp > k
  <2>1. v.exp - k \in Nat
    BY <1>1, <1>5
  <2>2. (v.whole \o v.fraction) \o Zeros(v.exp - k) \in DigitString
    BY <1>4, <2>1, Shifted
  <2>3. Digits(v) = (v.whole \o v.fraction) \o Zeros(v.exp - k)
    BY <1>2, <1>5 DEF Digits
  <2> QED  BY <1>1, <1>3, <2>2, <2>3
<1>6. CASE ~(v.exp > k)
  <2>1. Digits(v) = (v.whole \o v.fraction) \o <<>>
    BY <1>2, <1>6 DEF Digits
  <2>2. (v.whole \o v.fraction) \o <<>> = v.whole \o v.fraction
    BY <1>4 DEF DigitString
  <2> QED  BY <1>1, <1>3, <1>4, <2>1, <2>2
<1> QED  BY <1>5, <1>6

(* What a sum is worth, times 10^MaxDigits, and what its parts are.         *)
Holds(s, n) ==
    /\ BalancedAt(s, s.sign * Value(s.digits))
    /\ s.scale \in 0..MaxDigits
    /\ n = s.sign * Value(s.digits) * Ten[MaxDigits - s.scale]

LEMMA AddedHolds ==
  ASSUME NEW s, NEW n \in Int, Holds(s, n), NEW v \in Numbers, Accepted(v)
  PROVE  Holds(Added(s, v), n + ValueOf(v)) /\ n + ValueOf(v) \in Int
<1>1. /\ s.sign \in Signs /\ s.digits \in DigitString /\ NoZeroFirst(s.digits)
      /\ s.scale \in 0..MaxDigits /\ MaxDigits \in Nat
      /\ n = s.sign * Value(s.digits) * Ten[MaxDigits - s.scale]
  BY DecimalSumBounds DEF Holds, BalancedAt
<1>2. v.sign \in Signs /\ Digits(v) \in DigitString /\ Scale(v) \in 0..MaxDigits
  BY AcceptedIs
<1> DEFINE scale == IF Scale(v) > s.scale THEN Scale(v) ELSE s.scale
           e == trimLeadingZeros(Digits(v))
           a == Widened(s.digits, scale - s.scale)
           b == Widened(e, scale - Scale(v))
           r == Signed(s.sign, a, v.sign, b)
<1>3. Added(s, v) = [sign |-> r.sign, digits |-> r.digits, scale |-> scale, count |-> s.count + 1]
  BY DEF Added
<1>4. scale \in 0..MaxDigits /\ scale - s.scale \in Nat /\ scale - Scale(v) \in Nat /\ MaxDigits - scale \in Nat
  BY <1>1, <1>2
<1>5. e \in DigitString /\ NoZeroFirst(e) /\ Value(e) = Value(Digits(v))
  BY <1>2, TrimIs
<1> HIDE DEF scale, e
<1>6. /\ a \in DigitString /\ NoZeroFirst(a) /\ Value(a) = Value(s.digits) * Ten[scale - s.scale]
      /\ b \in DigitString /\ NoZeroFirst(b) /\ Value(b) = Value(e) * Ten[scale - Scale(v)]
  BY <1>1, <1>4, <1>5, WidenedIs
<1> HIDE DEF a, b
<1>7. BalancedAt(r, s.sign * Value(a) + v.sign * Value(b))
  BY <1>1, <1>2, <1>6, SignedIs
<1> HIDE DEF r
<1>8. PICK x \in Nat, y \in Nat, p \in Nat, q \in Nat, w \in Nat :
        /\ x = Value(s.digits) /\ y = Value(Digits(v))
        /\ p = Ten[scale - s.scale] /\ q = Ten[scale - Scale(v)] /\ w = Ten[MaxDigits - scale]
  BY <1>1, <1>2, <1>4, ValueIsNat, TenIs
<1>9. Ten[MaxDigits - s.scale] = p * w /\ Ten[MaxDigits - Scale(v)] = q * w
  <2>1. \A j, k \in Nat : Ten[j + k] = Ten[j] * Ten[k]
    BY TenGrows
  <2>2. /\ (scale - s.scale) + (MaxDigits - scale) = MaxDigits - s.scale
        /\ (scale - Scale(v)) + (MaxDigits - scale) = MaxDigits - Scale(v)
    BY <1>1, <1>2, <1>4
  <2>3. /\ Ten[(scale - s.scale) + (MaxDigits - scale)] = Ten[scale - s.scale] * Ten[MaxDigits - scale]
        /\ Ten[(scale - Scale(v)) + (MaxDigits - scale)] = Ten[scale - Scale(v)] * Ten[MaxDigits - scale]
    BY <1>4, <2>1
  <2> QED  BY <1>8, <2>2, <2>3
<1>10. PICK i \in Signs, j \in Signs : i = s.sign /\ j = v.sign
  BY <1>1, <1>2
<1>11. n = i * x * (p * w) /\ ValueOf(v) = j * y * (q * w)
  <2>1. ValueOf(v) = v.sign * Value(Digits(v)) * Ten[MaxDigits - Scale(v)]
    BY DEF ValueOf, Value
  <2> QED  BY <1>1, <1>8, <1>9, <1>10, <2>1
<1>12. r.sign * Value(r.digits) = i * (x * p) + j * (y * q)
  BY <1>5, <1>6, <1>7, <1>8, <1>10 DEF BalancedAt
<1>13. (i * (x * p) + j * (y * q)) * w = i * x * (p * w) + j * y * (q * w)
  <2>1. PICK k \in Nat, l \in Nat : k = x * p /\ l = y * q
    OBVIOUS
  <2>2. (i * k + j * l) * w = i * (k * w) + j * (l * w)
    BY DEF Signs
  <2>3. i * x * (p * w) = i * ((x * p) * w) /\ j * y * (q * w) = j * ((y * q) * w)
    BY DEF Signs
  <2> QED  BY <2>1, <2>2, <2>3
<1>14. n + ValueOf(v) = r.sign * Value(r.digits) * Ten[MaxDigits - scale]
  BY <1>8, <1>11, <1>12, <1>13
<1>15. n + ValueOf(v) \in Int
  <2>1. j * y * (q * w) \in Int
    BY DEF Signs
  <2> QED  BY <1>11, <2>1
<1>16. BalancedAt(Added(s, v), r.sign * Value(r.digits))
  BY <1>3, <1>7 DEF BalancedAt
<1> QED  BY <1>3, <1>4, <1>14, <1>15, <1>16 DEF Holds

-----------------------------------------------------------------------------
(* What is printed.                                                         *)
LEMMA ZerosInFront ==
  ASSUME NEW d \in DigitString, NEW k \in Nat
  PROVE  /\ Zeros(k) \o d \in DigitString /\ Len(Zeros(k) \o d) = k + Len(d)
         /\ Value(Zeros(k) \o d) = Value(d)
<1>1. PICK w \in DigitString : w = Zeros(k) \o d /\ Joined(w, Zeros(k), d)
  BY ZerosAre, JoinDigits
<1>2. PICK l \in Nat : l = Len(d)
  BY ValueIsNat
<1>3. Len(w) = k + l /\ \A i \in 1..(k + l) : w[i] = IF i <= k THEN Zeros(k)[i] ELSE d[i - k]
  <2>1. Len(Zeros(k)) = k
    BY ZerosAre
  <2> QED  BY <1>1, <1>2, <2>1 DEF Joined
<1>4. ASSUME NEW i \in Nat \ {0} PROVE DigitAt(w, i) = DigitAt(d, i)
  <2>1. CASE i <= l
    <3>1. /\ k + l + 1 - i \in 1..(k + l) /\ ~(k + l + 1 - i <= k)
          /\ k + l + 1 - i - k = l + 1 - i /\ i <= k + l
      BY <2>1
    <3> QED  BY <1>2, <1>3, <2>1, <3>1 DEF DigitAt
  <2>2. CASE l < i /\ i <= k + l
    <3>1. k + l + 1 - i \in 1..k /\ k + l + 1 - i \in 1..(k + l) /\ k + l + 1 - i <= k
      BY <2>2
    <3>2. Zeros(k)[k + l + 1 - i] = 0
      BY <3>1, ZerosAre
    <3>3. DigitAt(d, i) = 0
      BY <1>2, <2>2, DigitIs
    <3>4. DigitAt(w, i) = w[k + l + 1 - i]
      BY <1>3, <2>2 DEF DigitAt
    <3> QED  BY <1>3, <3>1, <3>2, <3>3, <3>4
  <2>3. CASE k + l < i
    <3>1. DigitAt(d, i) = 0 /\ DigitAt(w, i) = 0
      BY <1>2, <1>3, <2>3, DigitIs
    <3> QED  BY <3>1
  <2> QED  BY <2>1, <2>2, <2>3
<1>5. Value(w) = Value(d)
  BY <1>4, SameDigits
<1> QED  BY <1>1, <1>2, <1>3, <1>5

Shows(p, n) ==
    /\ ValueOf(p) = n
    /\ p.whole # <<>> /\ (Len(p.whole) > 1 => p.whole[1] # 0)
    /\ n = 0 => p.sign = 1

LEMMA PrintedIs ==
  ASSUME NEW s, NEW n, Holds(s, n)
  PROVE  Shows(Printed(s), n)
<1>1. /\ s.sign \in Signs /\ s.digits \in DigitString /\ NoZeroFirst(s.digits)
      /\ s.digits = <<>> => s.sign = 1
      /\ s.scale \in 0..MaxDigits /\ MaxDigits \in Nat
      /\ n = s.sign * Value(s.digits) * Ten[MaxDigits - s.scale]
  BY DecimalSumBounds DEF Holds, BalancedAt
<1>2. PICK l \in Nat, c \in Nat : l = Len(s.digits) /\ c = s.scale
  BY <1>1, ValueIsNat
<1> DEFINE d == IF c + 1 - l > 0 THEN Zeros(c + 1 - l) \o s.digits ELSE s.digits
           u == Len(d)
           whole == SubSeq(d, 1, u - c)
           fraction == SubSeq(d, u - c + 1, u)
<1>3. Printed(s) = [sign |-> s.sign, whole |-> whole, fraction |-> fraction, exp |-> 0]
  BY <1>2 DEF Printed
<1>4. /\ d \in DigitString /\ Value(d) = Value(s.digits) /\ u \in Nat /\ c + 1 <= u
      /\ u > c + 1 => d[1] # 0
  <2>1. CASE c + 1 - l > 0
    <3>1. c + 1 - l \in Nat /\ c + 1 - l + l = c + 1
      BY <2>1
    <3>2. /\ Zeros(c + 1 - l) \o s.digits \in DigitString
          /\ Value(Zeros(c + 1 - l) \o s.digits) = Value(s.digits)
          /\ Len(Zeros(c + 1 - l) \o s.digits) = c + 1
      BY <1>1, <1>2, <3>1, ZerosInFront
    <3>3. d = Zeros(c + 1 - l) \o s.digits
      BY <2>1
    <3> HIDE DEF d
    <3>4. u = c + 1
      BY <3>2, <3>3
    <3>5. u \in Nat /\ c + 1 <= u /\ ~(u > c + 1)
      BY <3>4
    <3> QED  BY <3>2, <3>3, <3>5
  <2>2. CASE ~(c + 1 - l > 0)
    <3>1. l # 0
      BY <2>2
    <3>2. s.digits # <<>>
      BY <1>2, <3>1
    <3> QED  BY <1>1, <1>2, <2>2, <3>2 DEF NoZeroFirst
  <2> QED  BY <2>1, <2>2
<1> HIDE DEF d
<1>5. /\ whole \in DigitString /\ Len(whole) = u - c /\ whole[1] = d[1]
      /\ fraction \in DigitString /\ Len(fraction) = c
      /\ whole \o fraction = d
  <2>1. d \in Seq(0..9) /\ 1 \in 1..(u - c) /\ u - c \in 1..u /\ u - c \in Nat
    BY <1>4 DEF DigitString
  <2>2. \A i \in 1..u : d[i] \in 0..9
    BY <2>1
  <2>3. \A i \in 1..(u - c) : d[i] \in 0..9
    BY <2>1, <2>2
  <2>4. \A i \in (u - c + 1)..u : d[i] \in 0..9
    BY <2>1, <2>2
  <2>5. /\ whole \in Seq(0..9) /\ Len(whole) = u - c
        /\ \A i \in 1..(u - c) : whole[i] = d[i]
    <3>1. /\ SubSeq(d, 1, u - c) \in Seq(0..9)
          /\ Len(SubSeq(d, 1, u - c)) = IF 1 <= u - c THEN (u - c) - 1 + 1 ELSE 0
          /\ \A i \in 1..((u - c) - 1 + 1) : SubSeq(d, 1, u - c)[i] = d[1 + i - 1]
      BY <2>1, <2>3, SubSeqProperties
    <3>2. (u - c) - 1 + 1 = u - c /\ 1 <= u - c /\ \A i \in 1..(u - c) : 1 + i - 1 = i
      BY <2>1
    <3> QED  BY <3>1, <3>2
  <2>6. fraction \in Seq(0..9) /\ Len(fraction) = c
    <3>1. /\ SubSeq(d, u - c + 1, u) \in Seq(0..9)
          /\ Len(SubSeq(d, u - c + 1, u)) = IF u - c + 1 <= u THEN u - (u - c + 1) + 1 ELSE 0
      BY <1>4, <2>4, SubSeqProperties
    <3>2. (IF u - c + 1 <= u THEN u - (u - c + 1) + 1 ELSE 0) = c
      BY <1>4
    <3> QED  BY <3>1, <3>2
  <2>7. SubSeq(d, 1, u - c) \o SubSeq(d, u - c + 1, u) = SubSeq(d, 1, u)
    BY <1>4, <2>1, ConcatAdjacentSubSeq
  <2>8. SubSeq(d, 1, u) = d
    BY <2>1, SubSeqFull
  <2> QED  BY <2>1, <2>5, <2>6, <2>7, <2>8 DEF DigitString
<1> HIDE DEF whole, fraction
<1> DEFINE p == Printed(s)
<1>6. Digits(p) = d /\ Scale(p) = c
  <2>1. ~(0 > c) /\ (IF c > 0 THEN c - 0 ELSE 0) = c
    OBVIOUS
  <2>2. p.whole = whole /\ p.fraction = fraction /\ p.exp = 0
    BY <1>3
  <2>3. Digits(p) = (whole \o fraction) \o <<>>
    BY <1>5, <2>1, <2>2 DEF Digits
  <2>4. d \o <<>> = d
    BY <1>4 DEF DigitString
  <2> QED  BY <1>5, <2>1, <2>2, <2>3, <2>4 DEF Scale
<1>7. ValueOf(p) = n
  <2>1. ValueOf(p) = s.sign * Value(d) * Ten[MaxDigits - c]
    BY <1>3, <1>6 DEF ValueOf, Value
  <2> QED  BY <1>1, <1>2, <1>4, <2>1
<1>8. whole # <<>> /\ (Len(whole) > 1 => whole[1] # 0)
  <2>1. Len(whole) > 0
    BY <1>4, <1>5
  <2>2. Len(whole) > 1 => u > c + 1
    BY <1>4, <1>5
  <2>3. whole # <<>>
    BY <2>1
  <2> QED  BY <1>4, <1>5, <2>2, <2>3
<1>9. ASSUME n = 0 PROVE s.sign = 1
  <2>1. PICK x \in Nat, t \in Nat \ {0}, i \in Signs :
          x = Value(s.digits) /\ t = Ten[MaxDigits - s.scale] /\ i = s.sign
    <3>1. MaxDigits - s.scale \in Nat
      BY <1>1
    <3> QED  BY <1>1, <3>1, ValueIsNat, TenGrows
  <2>2. i * x * t = 0
    BY <1>1, <1>9, <2>1
  <2>3. x = 0
    <3> SUFFICES ASSUME x > 0 PROVE FALSE
      BY <2>1
    <3>1. x * t > 0
      OBVIOUS
    <3>2. i * x * t = i * (x * t)
      BY DEF Signs
    <3> QED  BY <2>2, <3>1, <3>2 DEF Signs
  <2>4. s.digits = <<>>
    BY <1>1, <2>1, <2>3, ValueIsNat
  <2> QED  BY <1>1, <2>4
<1> QED  BY <1>3, <1>7, <1>8, <1>9 DEF Shows

-----------------------------------------------------------------------------
(* The invariant: the digits and their sign, at their scale, are the sum.   *)
SumInv ==
    /\ Holds(sum, total) /\ total \in Int
    /\ sum.count \in 0..cells /\ cells \in Nat

LEMMA SumBegins == SumInit => SumInv
<1> SUFFICES ASSUME SumInit PROVE SumInv
  OBVIOUS
<1>1. sum.sign = 1 /\ sum.digits = <<>> /\ sum.scale = 0 /\ sum.count = 0 /\ total = 0 /\ cells = 0
  BY DEF SumInit
<1>2. <<>> \in DigitString /\ NoZeroFirst(<<>>) /\ MaxDigits \in Nat
  BY DecimalSumBounds DEF DigitString, NoZeroFirst
<1>3. Value(<<>>) = 0 /\ Ten[MaxDigits - 0] \in Nat
  <2>1. MaxDigits - 0 = MaxDigits
    BY <1>2
  <2> QED  BY <1>2, <2>1, ValueIsNat, TenIs
<1>4. 1 * Value(<<>>) * Ten[MaxDigits - 0] = 0
  BY <1>3
<1>5. Holds(sum, total)
  BY <1>1, <1>2, <1>4 DEF Holds, BalancedAt, Signs
<1> QED  BY <1>1, <1>5 DEF SumInv

LEMMA SumKeeps == SumInv /\ [SumNext]_sumVars => SumInv'
<1> SUFFICES ASSUME SumInv, [SumNext]_sumVars PROVE SumInv'
  OBVIOUS
<1>1. CASE SumCell
  <2>1. cells' = cells + 1 /\ cells' \in Nat /\ sum.count \in 0..cells'
    BY <1>1 DEF SumCell, SumInv
  <2>2. PICK v \in Numbers : IF Accepted(v) THEN sum' = Added(sum, v) /\ total' = total + ValueOf(v)
                             ELSE UNCHANGED <<sum, total>>
    BY <1>1 DEF SumCell
  <2>3. CASE Accepted(v)
    <3>1. Holds(sum', total') /\ total' \in Int
      BY <2>2, <2>3, AddedHolds DEF SumInv
    <3>2. sum'.count = sum.count + 1
      BY <2>2, <2>3 DEF Added
    <3>3. sum'.count \in 0..cells'
      BY <2>1, <3>2 DEF SumInv
    <3> QED  BY <2>1, <3>1, <3>3 DEF SumInv
  <2>4. CASE ~Accepted(v)
    <3>1. sum' = sum /\ total' = total
      BY <2>2, <2>4
    <3> QED  BY <2>1, <3>1 DEF SumInv
  <2> QED  BY <2>3, <2>4
<1>2. CASE UNCHANGED sumVars
  BY <1>2 DEF sumVars, SumInv
<1> QED  BY <1>1, <1>2 DEF SumNext

(* The parts of a sum: digits, a scale within the limit, and no more values *)
(* counted than cells were read (DecimalSum::add).                          *)
THEOREM SumTyped == SumSpec => []SumTypeOK
<1>1. SumInv => SumTypeOK
  BY DEF SumInv, SumTypeOK, Holds, BalancedAt, Signs, DigitString
<1> QED  BY <1>1, SumBegins, SumKeeps, PTL DEF SumSpec

(* For numbers of any width, sign, scale and exponent below the limit, and  *)
(* any number of them, what is printed is their exact sum.                  *)
THEOREM SumIsExact == SumSpec => []SumExact
<1>1. SumInv => SumExact
  <2> SUFFICES ASSUME SumInv PROVE SumExact
    OBVIOUS
  <2>1. Shows(Printed(sum), total)
    BY PrintedIs DEF SumInv
  <2> QED  BY <2>1 DEF Shows, SumExact
<1> QED  BY <1>1, SumBegins, SumKeeps, PTL DEF SumSpec

-----------------------------------------------------------------------------
(* Counting occurrences from i on.                                          *)
PlacesOf(t, S, l, i, j) == {k \in S : k \in i..j /\ t[k] = l}

LEMMA CountedOf ==
  ASSUME NEW t, NEW S, NEW l, NEW i \in Int, NEW j \in Int
  PROVE  /\ Counted(t, S, l, i, j) \in Nat /\ IsFiniteSet(PlacesOf(t, S, l, i, j))
         /\ Counted(t, S, l, i, j) = Cardinality(PlacesOf(t, S, l, i, j))
<1>1. IsFiniteSet(i..j)
  BY FS_Interval
<1>2. PlacesOf(t, S, l, i, j) \subseteq i..j
  BY DEF PlacesOf
<1>3. IsFiniteSet(PlacesOf(t, S, l, i, j)) /\ Cardinality(PlacesOf(t, S, l, i, j)) \in Nat
  BY <1>1, <1>2, FS_Subset, FS_CardinalityType
<1> QED  BY <1>3 DEF Counted, PlacesOf

LEMMA CountedNext ==
  ASSUME NEW t, NEW S, NEW l, NEW i \in Int, NEW j \in Int, i <= j + 1
  PROVE  Counted(t, S, l, i, j + 1) = Counted(t, S, l, i, j) + (IF j + 1 \in S /\ t[j + 1] = l THEN 1 ELSE 0)
<1> DEFINE C == PlacesOf(t, S, l, i, j)
           D == PlacesOf(t, S, l, i, j + 1)
<1>1. IsFiniteSet(C) /\ Counted(t, S, l, i, j) \in Nat /\ Counted(t, S, l, i, j) = Cardinality(C)
  BY CountedOf
<1>2. Counted(t, S, l, i, j + 1) = Cardinality(D)
  BY CountedOf
<1>3. \A k : k \in i..(j + 1) <=> k \in i..j \/ k = j + 1
  OBVIOUS
<1>4. CASE j + 1 \in S /\ t[j + 1] = l
  <2>1. D = C \cup {j + 1} /\ j + 1 \notin C
    BY <1>3, <1>4 DEF PlacesOf
  <2> HIDE DEF C, D
  <2>2. Cardinality(D) = Cardinality(C) + 1
    BY <1>1, <2>1, FS_AddElement
  <2> QED  BY <1>1, <1>2, <1>4, <2>2
<1>5. CASE ~(j + 1 \in S /\ t[j + 1] = l)
  <2>1. D = C
    BY <1>3, <1>5 DEF PlacesOf
  <2> HIDE DEF C, D
  <2> QED  BY <1>1, <1>2, <1>5, <2>1
<1> QED  BY <1>4, <1>5

LEMMA CountedNone ==
  ASSUME NEW t, NEW S, NEW l, NEW i \in Int, NEW j \in Int, j < i
  PROVE  Counted(t, S, l, i, j) = 0
<1>1. PlacesOf(t, S, l, i, j) = {}
  BY DEF PlacesOf
<1> QED  BY <1>1, CountedOf, FS_EmptySet

LEMMA DoubleQuoteApart == DoubleQuote \notin {"'", "/*", "--", "*/", LineFeed, "x", "$a$", "$$"}
BY Zenon DEF DoubleQuote, LineFeed
LEMMA NoTagApart == NoTag \notin DollarTags
BY Zenon DEF NoTag, DollarTags

(* What each lexeme does to the scanner.                                    *)
Modes == {"code", "literal", "name", "block", "line"}
LexStates == [mode : Modes, level : Int, tag : {NoTag} \cup DollarTags, claimed : SUBSET Nat]

AfterCode(s, l, n) ==
    /\ l = "'" => n.mode = "literal" /\ n.tag = NoTag
    /\ l = DoubleQuote => n.mode = "name" /\ n.tag = NoTag
    /\ l = "/*" => n.mode = "block" /\ n.tag = NoTag /\ n.level = 1
    /\ l = "--" => n.mode = "line" /\ n.tag = NoTag
    /\ l \in DollarTags => n.mode = "code" /\ n.tag = l
    /\ ~Quotes(l) => InCode(n)

LEMMA TurnedCode ==
  ASSUME NEW s \in LexStates, NEW l, InCode(s)
  PROVE  /\ Turned(s, l) \in LexStates /\ Turned(s, l).claimed = s.claimed
         /\ AfterCode(s, l, Turned(s, l))
<1>1. s.mode = "code" /\ s.tag = NoTag
  BY DEF InCode
<1>2. Turned(s, l) = Plain(s, l)
  <2>1. s.mode \notin DOMAIN Closing
    BY <1>1 DEF Closing
  <2> QED  BY <1>1, <2>1 DEF Turned
<1>3. DOMAIN Opening = {"'", DoubleQuote, "/*", "--"}
  BY DEF Opening
<1>4. CASE l \in DOMAIN Opening
  <2>0. l \notin DollarTags
    BY <1>3, <1>4, DoubleQuoteApart DEF DollarTags
  <2>1. Turned(s, l) = [s EXCEPT !.mode = Opening[l], !.level = 1]
    BY <1>2, <1>4, <2>0 DEF Plain
  <2>2. /\ l = "'" => Opening[l] = "literal"
        /\ l = DoubleQuote => Opening[l] = "name"
        /\ l = "/*" => Opening[l] = "block"
        /\ l = "--" => Opening[l] = "line"
    BY <1>4, DoubleQuoteApart DEF Opening
  <2>3. Opening[l] \in Modes /\ Quotes(l)
    BY <1>3, <1>4, <2>2 DEF Modes, Quotes
  <2> PICK m \in Modes : m = Opening[l]
    BY <2>3
  <2> DEFINE n == [s EXCEPT !.mode = m, !.level = 1]
  <2>4. /\ n \in LexStates /\ n.claimed = s.claimed
        /\ n.mode = m /\ n.level = 1 /\ n.tag = NoTag
    <3>1. n \in LexStates
      <4>1. [s EXCEPT !.mode = m] \in LexStates
        BY DEF LexStates
      <4>2. \A u \in LexStates : [u EXCEPT !.level = 1] \in LexStates
        BY DEF LexStates
      <4>3. n = [[s EXCEPT !.mode = m] EXCEPT !.level = 1]
        BY Zenon
      <4> HIDE DEF n
      <4> QED  BY <4>1, <4>2, <4>3
    <3>2. n.mode = m /\ n.level = 1
      BY DEF LexStates
    <3>3. n.claimed = s.claimed /\ n.tag = s.tag
      BY DEF LexStates
    <3> QED  BY <1>1, <3>1, <3>2, <3>3
  <2> HIDE DEF n
  <2>5. AfterCode(s, l, n)
    BY <2>0, <2>2, <2>3, <2>4, DoubleQuoteApart DEF AfterCode
  <2> QED  BY <2>1, <2>4, <2>5 DEF n
<1>5. CASE l \in DollarTags
  <2>1. l \notin DOMAIN Opening
    BY <1>3, <1>5, DoubleQuoteApart DEF DollarTags
  <2>2. Turned(s, l) = [s EXCEPT !.tag = l]
    BY <1>2, <1>5, <2>1 DEF Plain
  <2>3. Quotes(l)
    BY <1>5 DEF Quotes
  <2> QED  BY <1>1, <1>3, <1>5, <2>1, <2>2, <2>3 DEF LexStates, AfterCode
<1>6. CASE l \notin DOMAIN Opening /\ l \notin DollarTags
  <2>1. Turned(s, l) = s
    BY <1>2, <1>6 DEF Plain
  <2> QED  BY <1>3, <1>6, <2>1 DEF AfterCode
<1> QED  BY <1>4, <1>5, <1>6

LEMMA TurnedTag ==
  ASSUME NEW s \in LexStates, NEW l, s.mode = "code", s.tag # NoTag
  PROVE  /\ Turned(s, l) \in LexStates /\ Turned(s, l).claimed = s.claimed
         /\ l = s.tag => InCode(Turned(s, l))
         /\ l # s.tag => Turned(s, l) = s
<1>1. Turned(s, l) = IF l = s.tag THEN [s EXCEPT !.tag = NoTag] ELSE s
  BY DEF Turned, DollarQuoted
<1>2. CASE l = s.tag
  BY <1>1, <1>2 DEF LexStates, InCode
<1>3. CASE l # s.tag
  BY <1>1, <1>3
<1> QED  BY <1>2, <1>3

LEMMA TurnedQuoted ==
  ASSUME NEW s \in LexStates, NEW l, s.tag = NoTag, s.mode \in {"literal", "name", "line"}
  PROVE  /\ Turned(s, l) \in LexStates /\ Turned(s, l).claimed = s.claimed
         /\ l = Closing[s.mode] => InCode(Turned(s, l))
         /\ l # Closing[s.mode] => Turned(s, l) = s
<1>1. s.mode # "code" /\ s.mode # "block" /\ s.mode \in DOMAIN Closing
  BY DEF Closing
<1>2. Turned(s, l) = IF l = Closing[s.mode] THEN [s EXCEPT !.mode = "code"] ELSE s
  BY <1>1 DEF Turned, Quoted
<1>3. CASE l = Closing[s.mode]
  BY <1>2, <1>3 DEF LexStates, Modes, InCode
<1>4. CASE l # Closing[s.mode]
  BY <1>2, <1>4
<1> QED  BY <1>3, <1>4

LEMMA TurnedBlock ==
  ASSUME NEW s \in LexStates, NEW l, s.tag = NoTag, s.mode = "block"
  PROVE  /\ Turned(s, l) \in LexStates /\ Turned(s, l).claimed = s.claimed /\ Turned(s, l).tag = NoTag
         /\ Turned(s, l).level = s.level + (IF l = "/*" THEN 1 ELSE 0) - (IF l = "*/" THEN 1 ELSE 0)
         /\ Turned(s, l).mode = IF Turned(s, l).level = 0 THEN "code" ELSE "block"
<1>1. Turned(s, l) = CommentBlock(s, l)
  <2>1. s.mode # "code" /\ s.mode \notin DOMAIN Closing
    BY DEF Closing
  <2> QED  BY <2>1 DEF Turned
<1> DEFINE c == CASE l = "/*" -> 1 [] l = "*/" -> -1 [] OTHER -> 0
           v == s.level + c
<1>2. CommentBlock(s, l) = [s EXCEPT !.level = v, !.mode = IF v = 0 THEN "code" ELSE @]
  BY DEF CommentBlock
<1>3. v = s.level + (IF l = "/*" THEN 1 ELSE 0) - (IF l = "*/" THEN 1 ELSE 0) /\ v \in Int
  <2>1. s.level \in Int
    BY DEF LexStates
  <2>2. CASE l = "/*"
    <3>1. c = 1
      BY <2>2
    <3> HIDE DEF c
    <3> QED  BY <2>1, <2>2, <3>1
  <2>3. CASE l = "*/"
    <3>1. c = -1
      BY <2>3
    <3> HIDE DEF c
    <3> QED  BY <2>1, <2>3, <3>1
  <2>4. CASE l # "/*" /\ l # "*/"
    <3>1. c = 0
      BY <2>4
    <3> HIDE DEF c
    <3> QED  BY <2>1, <2>4, <3>1
  <2> QED  BY <2>2, <2>3, <2>4
<1> HIDE DEF v
<1> QED  BY <1>1, <1>2, <1>3 DEF LexStates, Modes

(* Every state of the scanner is one of these.                              *)
Sensible(s) == s \in LexStates /\ (s.tag # NoTag => s.mode = "code")

LEMMA AfterCodeSensible ==
  ASSUME NEW s, NEW l, NEW n, AfterCode(s, l, n)
  PROVE  n.tag # NoTag => n.mode = "code"
<1>1. CASE l \in DollarTags \/ ~Quotes(l)
  BY <1>1 DEF AfterCode, InCode
<1>2. CASE l \in {"'", DoubleQuote, "/*", "--"}
  BY <1>2 DEF AfterCode
<1>3. Quotes(l) => l \in DollarTags \/ l \in {"'", DoubleQuote, "/*", "--"}
  BY DEF Quotes, Opening
<1> QED  BY <1>1, <1>2, <1>3

LEMMA TurnedSensible ==
  ASSUME NEW s, Sensible(s), NEW l
  PROVE  Sensible(Turned(s, l)) /\ Turned(s, l).claimed = s.claimed
<1>1. s \in LexStates
  BY DEF Sensible
<1>2. CASE s.tag # NoTag
  <2>1. s.mode = "code"
    BY <1>2 DEF Sensible
  <2>2. Turned(s, l) \in LexStates /\ Turned(s, l).claimed = s.claimed
    BY <1>1, <1>2, <2>1, TurnedTag
  <2>3. Turned(s, l).mode = "code"
    BY <1>1, <1>2, <2>1, TurnedTag DEF InCode
  <2> QED  BY <2>2, <2>3 DEF Sensible
<1>3. CASE s.tag = NoTag /\ s.mode = "code"
  <2>1. InCode(s)
    BY <1>3 DEF InCode
  <2>2. /\ Turned(s, l) \in LexStates /\ Turned(s, l).claimed = s.claimed
        /\ AfterCode(s, l, Turned(s, l))
    BY <1>1, <2>1, TurnedCode
  <2>3. Turned(s, l).tag # NoTag => Turned(s, l).mode = "code"
    BY <2>2, AfterCodeSensible
  <2> QED  BY <2>2, <2>3 DEF Sensible
<1>4. CASE s.tag = NoTag /\ s.mode = "block"
  <2>1. Turned(s, l) \in LexStates /\ Turned(s, l).claimed = s.claimed /\ Turned(s, l).tag = NoTag
    BY <1>1, <1>4, TurnedBlock
  <2> QED  BY <2>1 DEF Sensible
<1>5. CASE s.tag = NoTag /\ s.mode \in {"literal", "name", "line"}
  <2>1. Turned(s, l) \in LexStates /\ Turned(s, l).claimed = s.claimed
    BY <1>1, <1>5, TurnedQuoted
  <2>2. InCode(Turned(s, l)) \/ Turned(s, l) = s
    BY <1>1, <1>5, TurnedQuoted
  <2> QED  BY <1>5, <2>1, <2>2 DEF Sensible, InCode
<1>6. s.mode \in Modes
  BY <1>1 DEF LexStates
<1> QED  BY <1>2, <1>3, <1>4, <1>5, <1>6 DEF Modes

(* Where a token ends.                                                      *)
LEMMA TokenEndIs ==
  ASSUME NEW t, NEW N \in Nat, N = Len(t), NEW j \in 1..N
  PROVE  /\ TokenEnd(t, j) \in j..N
         /\ \A i \in j..N : i < TokenEnd(t, j) => ~Closes(t, j, i)
         /\ TokenEnd(t, j) < N => Closes(t, j, TokenEnd(t, j))
<1> DEFINE S == {N} \cup {i \in j..N : Closes(t, j, i)}
<1>1. S \subseteq Nat /\ S # {}
  OBVIOUS
<1>2. TokenEnd(t, j) = Min(S)
  BY DEF TokenEnd
<1>3. Min(S) \in S /\ \A x \in S : Min(S) <= x
  <2> HIDE DEF S
  <2> QED  BY <1>1, MinIs
<1> HIDE DEF S
<1>4. PICK e : e = TokenEnd(t, j)
  OBVIOUS
<1>5. e \in S /\ \A x \in S : e <= x
  BY <1>2, <1>3, <1>4
<1>6. e \in j..N
  BY <1>5 DEF S
<1>7. \A i \in j..N : i < e => ~Closes(t, j, i)
  <2> SUFFICES ASSUME NEW i \in j..N, i < e, Closes(t, j, i) PROVE FALSE
    OBVIOUS
  <2>1. i \in S
    BY DEF S
  <2> QED  BY <1>5, <1>6, <2>1
<1>8. e < N => Closes(t, j, e)
  BY <1>5, <1>6 DEF S
<1> QED  BY <1>4, <1>6, <1>7, <1>8

(* When a token of each kind closes.                                        *)
LEMMA ClosesIs ==
  ASSUME NEW t, NEW j, NEW i
  PROVE  /\ t[j] \in DollarTags \cup {"'", DoubleQuote} => (Closes(t, j, i) <=> i > j /\ t[i] = t[j])
         /\ t[j] = "/*" => (Closes(t, j, i) <=> Counted(t, DOMAIN t, "/*", j, i) = Counted(t, DOMAIN t, "*/", j, i))
         /\ t[j] = "--" => (Closes(t, j, i) <=> i = Len(t) \/ t[i + 1] = LineFeed)
         /\ t[j] = "x" => (Closes(t, j, i) <=> i = Len(t) \/ t[i + 1] # "x")
         /\ ~Quotes(t[j]) /\ t[j] # "x" => Closes(t, j, i)
<1> DEFINE l == t[j]
<1>1. CASE l \in DollarTags \cup {"'", DoubleQuote}
  <2>1. l \notin {"/*", "--", "x"} /\ Quotes(l)
    BY <1>1, DoubleQuoteApart DEF DollarTags, Quotes, Opening
  <2> QED  BY <1>1, <2>1 DEF Closes
<1>2. CASE l = "/*"
  <2>1. l \notin DollarTags \cup {"'", DoubleQuote} /\ l \notin {"--", "x"} /\ Quotes(l)
    BY <1>2, DoubleQuoteApart DEF DollarTags, Quotes, Opening
  <2> QED  BY <1>2, <2>1 DEF Closes
<1>3. CASE l = "--"
  <2>1. l \notin DollarTags \cup {"'", DoubleQuote} /\ l \notin {"/*", "x"} /\ Quotes(l)
    BY <1>3, DoubleQuoteApart DEF DollarTags, Quotes, Opening
  <2> QED  BY <1>3, <2>1 DEF Closes
<1>4. CASE l = "x"
  <2>1. l \notin DollarTags \cup {"'", DoubleQuote} /\ l \notin {"/*", "--"}
    BY <1>4, DoubleQuoteApart DEF DollarTags
  <2> QED  BY <1>4, <2>1 DEF Closes
<1>5. CASE l \notin DollarTags \cup {"'", DoubleQuote} /\ l \notin {"/*", "--", "x"}
  BY <1>5 DEF Closes
<1> QED  BY <1>1, <1>2, <1>3, <1>4, <1>5

(* What the scanner's state is within the token that starts at j.           *)
Depth(t, j, i) == Counted(t, DOMAIN t, "/*", j, i) - Counted(t, DOMAIN t, "*/", j, i)
WithinToken(t, j, i, s) ==
    /\ t[j] \in DollarTags => s.mode = "code" /\ s.tag = t[j]
    /\ t[j] = "'" => s.mode = "literal" /\ s.tag = NoTag
    /\ t[j] = DoubleQuote => s.mode = "name" /\ s.tag = NoTag
    /\ t[j] = "/*" => s.mode = "block" /\ s.tag = NoTag /\ s.level = Depth(t, j, i) /\ s.level >= 1
    /\ t[j] = "--" => s.mode = "line" /\ s.tag = NoTag
    /\ ~Quotes(t[j]) => InCode(s)
Shape(t, j, i, s) ==
    IF Quotes(t[j]) /\ t[j] # "--" /\ Closes(t, j, i) THEN InCode(s) ELSE WithinToken(t, j, i, s)

QuoteKinds == DollarTags \cup {"'", DoubleQuote, "/*", "--"}
LEMMA QuotesAre ==
  ASSUME NEW l
  PROVE  /\ Quotes(l) <=> l \in QuoteKinds
         /\ ~Quotes(LineFeed) /\ ~Quotes("x")
<1>1. Quotes(l) <=> l \in QuoteKinds
  BY DEF Quotes, QuoteKinds, Opening
<1>2. ~Quotes(LineFeed) /\ ~Quotes("x")
  BY DoubleQuoteApart DEF Quotes, Opening, DollarTags, LineFeed
<1> QED  BY <1>1, <1>2

(* A token begins in the code.                                              *)
LEMMA TokenBegins ==
  ASSUME NEW t, NEW N \in Nat, N = Len(t), DOMAIN t = 1..N, NEW j \in 1..N,
         NEW s \in LexStates, InCode(s)
  PROVE  LET n == Turned(s, t[j]) IN Shape(t, j, j, n) /\ (InCode(n) <=> ~Quotes(t[j]))
<1> DEFINE n == Turned(s, t[j])
<1>1. n \in LexStates /\ AfterCode(s, t[j], n)
  BY TurnedCode
<1>2. Counted(t, DOMAIN t, "/*", j, j) = IF t[j] = "/*" THEN 1 ELSE 0
  <2>1. Counted(t, DOMAIN t, "/*", j, (j - 1) + 1)
          = Counted(t, DOMAIN t, "/*", j, j - 1) + (IF (j - 1) + 1 \in DOMAIN t /\ t[(j - 1) + 1] = "/*" THEN 1 ELSE 0)
    BY CountedNext
  <2>2. Counted(t, DOMAIN t, "/*", j, j - 1) = 0
    BY CountedNone
  <2>3. (j - 1) + 1 = j
    OBVIOUS
  <2> QED  BY <2>1, <2>2, <2>3
<1>3. Counted(t, DOMAIN t, "*/", j, j) = IF t[j] = "*/" THEN 1 ELSE 0
  <2>1. Counted(t, DOMAIN t, "*/", j, (j - 1) + 1)
          = Counted(t, DOMAIN t, "*/", j, j - 1) + (IF (j - 1) + 1 \in DOMAIN t /\ t[(j - 1) + 1] = "*/" THEN 1 ELSE 0)
    BY CountedNext
  <2>2. Counted(t, DOMAIN t, "*/", j, j - 1) = 0
    BY CountedNone
  <2>3. (j - 1) + 1 = j
    OBVIOUS
  <2> QED  BY <2>1, <2>2, <2>3
<1> HIDE DEF n
<1>4. CASE t[j] \in DollarTags
  <2>1. n.mode = "code" /\ n.tag = t[j] /\ Quotes(t[j]) /\ ~Closes(t, j, j)
    BY <1>1, <1>4, ClosesIs DEF AfterCode, Quotes
  <2>2. n.tag # NoTag /\ t[j] \notin {"'", DoubleQuote, "/*", "--"}
    BY <1>4, <2>1, NoTagApart, DoubleQuoteApart DEF DollarTags
  <2> QED  BY <1>4, <2>1, <2>2 DEF Shape, WithinToken, InCode, n
<1>5. CASE t[j] = "'" \/ t[j] = DoubleQuote
  <2>1. Quotes(t[j]) /\ ~Closes(t, j, j) /\ t[j] \notin DollarTags \cup {"/*", "--"}
    BY <1>5, ClosesIs, DoubleQuoteApart DEF Quotes, Opening, DollarTags
  <2>2. /\ t[j] = "'" => n.mode = "literal" /\ n.tag = NoTag
        /\ t[j] = DoubleQuote => n.mode = "name" /\ n.tag = NoTag
    BY <1>1 DEF AfterCode
  <2> QED  BY <1>5, <2>1, <2>2, DoubleQuoteApart DEF Shape, WithinToken, InCode, n
<1>6. CASE t[j] = "/*"
  <2>1. n.mode = "block" /\ n.tag = NoTag /\ n.level = 1 /\ Quotes(t[j])
    BY <1>1, <1>6 DEF AfterCode, Quotes, Opening
  <2>2. Counted(t, DOMAIN t, "/*", j, j) = 1 /\ Counted(t, DOMAIN t, "*/", j, j) = 0
    BY <1>2, <1>3, <1>6
  <2>3. ~Closes(t, j, j) /\ Depth(t, j, j) = 1
    BY <1>6, <2>2, ClosesIs DEF Depth
  <2>4. t[j] \notin DollarTags \cup {"'", DoubleQuote, "--"}
    BY <1>6, DoubleQuoteApart DEF DollarTags
  <2> QED  BY <2>1, <2>3, <2>4 DEF Shape, WithinToken, InCode, n
<1>7. CASE t[j] = "--"
  <2>1. n.mode = "line" /\ n.tag = NoTag /\ Quotes(t[j])
    BY <1>1, <1>7 DEF AfterCode, Quotes, Opening
  <2>2. t[j] \notin DollarTags \cup {"'", DoubleQuote, "/*"}
    BY <1>7, DoubleQuoteApart DEF DollarTags
  <2> QED  BY <1>7, <2>1, <2>2 DEF Shape, WithinToken, InCode, n
<1>8. CASE ~Quotes(t[j])
  <2>1. InCode(n)
    BY <1>1, <1>8 DEF AfterCode
  <2>2. t[j] \notin QuoteKinds
    BY <1>8, QuotesAre
  <2> QED  BY <1>8, <2>1, <2>2 DEF Shape, WithinToken, QuoteKinds, n
<1>9. Quotes(t[j]) => t[j] \in QuoteKinds
  BY QuotesAre
<1> QED  BY <1>4, <1>5, <1>6, <1>7, <1>8, <1>9 DEF QuoteKinds

(* A token that is not over at i takes the next lexeme, which is no code but *)
(* within a word.                                                           *)
LEMMA TokenGoesOn ==
  ASSUME NEW t, NEW N \in Nat, N = Len(t), DOMAIN t = 1..N, NEW j \in 1..N, NEW i \in j..N, i < N,
         NEW s \in LexStates, Shape(t, j, i, s), ~Closes(t, j, i)
  PROVE  LET n == Turned(s, t[i + 1]) IN
            /\ Shape(t, j, i + 1, n)
            /\ t[i + 1] # "x" => ~(InCode(s) /\ InCode(n))
<1> DEFINE l == t[i + 1]
           n == Turned(s, l)
<1>1. WithinToken(t, j, i, s)
  BY DEF Shape
<1>2. CASE t[j] \in DollarTags
  <2>1. s.mode = "code" /\ s.tag = t[j] /\ s.tag # NoTag
    BY <1>1, <1>2, NoTagApart DEF WithinToken
  <2>2. ~InCode(s)
    BY <2>1 DEF InCode
  <2>3. Closes(t, j, i + 1) <=> l = t[j]
    BY <1>2, ClosesIs
  <2>4. t[j] \notin {"'", DoubleQuote, "/*", "--"} /\ Quotes(t[j])
    BY <1>2, DoubleQuoteApart DEF DollarTags, Quotes
  <2>5. /\ l = s.tag => InCode(n)
        /\ l # s.tag => n = s
    BY <2>1, TurnedTag
  <2>6. CASE l = t[j]
    <3>1. InCode(n) /\ Closes(t, j, i + 1)
      BY <2>1, <2>3, <2>5, <2>6
    <3> HIDE DEF n
    <3>2. Shape(t, j, i + 1, n)
      BY <2>4, <3>1 DEF Shape
    <3> QED  BY <2>2, <3>2 DEF n
  <2>7. CASE l # t[j]
    <3>1. n = s
      BY <2>1, <2>5, <2>7
    <3> HIDE DEF n
    <3> QED  BY <2>1, <2>2, <2>3, <2>4, <2>7, <3>1 DEF Shape, WithinToken, n
  <2> QED  BY <2>2, <2>6, <2>7
<1>3. ASSUME NEW q, q = t[j], NEW m, <<q, m>> \in {<<"'", "literal">>, <<DoubleQuote, "name">>}
      PROVE  Shape(t, j, i + 1, n) /\ ~InCode(s)
  <2>1. s.mode = m /\ s.tag = NoTag /\ m \in {"literal", "name"}
    BY <1>1, <1>3 DEF WithinToken
  <2>2. Closing[s.mode] = q
    BY <1>3, <2>1 DEF Closing
  <2>3. Closes(t, j, i + 1) <=> l = q
    BY <1>3, ClosesIs
  <2>4. t[j] \notin DollarTags \cup {"/*", "--"} /\ Quotes(t[j])
    BY <1>3, DoubleQuoteApart DEF DollarTags, Quotes, Opening
  <2>5. /\ l = q => InCode(n)
        /\ l # q => n = s
    BY <2>1, <2>2, TurnedQuoted
  <2>6. CASE l = q
    BY <1>3, <2>1, <2>3, <2>4, <2>5, <2>6 DEF Shape, InCode
  <2>7. CASE l # q
    <3>1. n = s /\ ~Closes(t, j, i + 1)
      BY <2>3, <2>5, <2>7
    <3>2. WithinToken(t, j, i + 1, s)
      BY <1>1, <2>4 DEF WithinToken
    <3> QED  BY <2>1, <3>1, <3>2 DEF Shape, InCode
  <2> QED  BY <2>6, <2>7
<1>4. CASE t[j] = "/*"
  <2>1. s.mode = "block" /\ s.tag = NoTag /\ s.level = Depth(t, j, i) /\ s.level >= 1
    BY <1>1, <1>4 DEF WithinToken
  <2>2. t[j] \notin DollarTags \cup {"'", DoubleQuote, "--"} /\ Quotes(t[j])
    BY <1>4, DoubleQuoteApart DEF DollarTags, Quotes, Opening
  <2>3. /\ Counted(t, DOMAIN t, "/*", j, i + 1) = Counted(t, DOMAIN t, "/*", j, i) + (IF l = "/*" THEN 1 ELSE 0)
        /\ Counted(t, DOMAIN t, "*/", j, i + 1) = Counted(t, DOMAIN t, "*/", j, i) + (IF l = "*/" THEN 1 ELSE 0)
    <3>1. i + 1 \in DOMAIN t
      OBVIOUS
    <3>2. ASSUME NEW q PROVE Counted(t, DOMAIN t, q, j, i + 1) = Counted(t, DOMAIN t, q, j, i) + (IF l = q THEN 1 ELSE 0)
      <4>1. Counted(t, DOMAIN t, q, j, i + 1)
              = Counted(t, DOMAIN t, q, j, i) + (IF i + 1 \in DOMAIN t /\ t[i + 1] = q THEN 1 ELSE 0)
        BY CountedNext
      <4> QED  BY <3>1, <4>1
    <3> QED  BY <3>2
  <2>4. PICK a \in Nat, b \in Nat, c \in Nat, d \in Nat :
           /\ a = Counted(t, DOMAIN t, "/*", j, i) /\ b = Counted(t, DOMAIN t, "*/", j, i)
           /\ c = Counted(t, DOMAIN t, "/*", j, i + 1) /\ d = Counted(t, DOMAIN t, "*/", j, i + 1)
    BY CountedOf
  <2>5. /\ n.tag = NoTag
        /\ n.level = s.level + (IF l = "/*" THEN 1 ELSE 0) - (IF l = "*/" THEN 1 ELSE 0)
        /\ n.mode = IF n.level = 0 THEN "code" ELSE "block"
    BY <2>1, TurnedBlock
  <2> HIDE DEF n
  <2>6. n.level = c - d /\ n.level >= 0
    <3> DEFINE u == IF l = "/*" THEN 1 ELSE 0
               v == IF l = "*/" THEN 1 ELSE 0
    <3>1. c = a + u /\ d = b + v
      BY <2>3, <2>4
    <3>2. s.level = a - b
      BY <2>1, <2>4 DEF Depth
    <3>3. u \in {0, 1} /\ v \in {0, 1}
      OBVIOUS
    <3>4. n.level = s.level + u - v
      BY <2>5
    <3> HIDE DEF u, v
    <3> QED  BY <2>1, <3>1, <3>2, <3>3, <3>4
  <2>7. Closes(t, j, i + 1) <=> n.level = 0
    <3>1. Closes(t, j, i + 1) <=> c = d
      BY <1>4, <2>4, ClosesIs
    <3> QED  BY <2>6, <3>1
  <2>8. CASE n.level = 0
    BY <2>1, <2>2, <2>5, <2>7, <2>8, <1>4 DEF Shape, InCode, n
  <2>9. CASE n.level # 0
    <3>1. n.mode = "block" /\ n.level = Depth(t, j, i + 1) /\ n.level >= 1
      BY <2>4, <2>5, <2>6, <2>9 DEF Depth
    <3>2. WithinToken(t, j, i + 1, n)
      BY <1>4, <2>2, <2>5, <3>1 DEF WithinToken
    <3> QED  BY <2>1, <2>7, <2>9, <3>2 DEF Shape, InCode, n
  <2> QED  BY <2>8, <2>9
<1>5. CASE t[j] = "--"
  <2>1. s.mode = "line" /\ s.tag = NoTag
    BY <1>1, <1>5 DEF WithinToken
  <2>2. l # LineFeed
    BY <1>5, ClosesIs
  <2>3. Closing[s.mode] = LineFeed
    BY <2>1 DEF Closing
  <2>4. n = s
    BY <2>1, <2>2, <2>3, TurnedQuoted
  <2>5. t[j] \notin DollarTags \cup {"'", DoubleQuote, "/*"} /\ Quotes(t[j])
    BY <1>5, DoubleQuoteApart DEF DollarTags, Quotes, Opening
  <2>6. WithinToken(t, j, i + 1, s)
    BY <1>5, <2>1, <2>5 DEF WithinToken
  <2> QED  BY <1>5, <2>1, <2>4, <2>6 DEF Shape, InCode
<1>6. CASE ~Quotes(t[j])
  <2>1. t[j] = "x" /\ l = "x"
    BY <1>6, ClosesIs
  <2>2. InCode(s)
    BY <1>1, <1>6 DEF WithinToken
  <2>3. AfterCode(s, l, n)
    BY <2>2, TurnedCode
  <2>4. InCode(n)
    BY <2>1, <2>3, QuotesAre DEF AfterCode
  <2>5. t[j] \notin QuoteKinds
    BY <1>6, QuotesAre
  <2> QED  BY <1>6, <2>1, <2>4, <2>5 DEF Shape, WithinToken, QuoteKinds
<1>7. Quotes(t[j]) => t[j] \in QuoteKinds
  BY QuotesAre
<1>8. CASE t[j] \in {"'", DoubleQuote}
  <2>1. t[j] = "'" => Shape(t, j, i + 1, n) /\ ~InCode(s)
    BY <1>3
  <2>2. t[j] = DoubleQuote => Shape(t, j, i + 1, n) /\ ~InCode(s)
    BY <1>3
  <2> QED  BY <1>8, <2>1, <2>2
<1> QED  BY <1>2, <1>4, <1>5, <1>6, <1>7, <1>8 DEF QuoteKinds

(* Where one is over, the next lexeme begins one.                           *)
LEMMA TokenFollows ==
  ASSUME NEW t, NEW N \in Nat, N = Len(t), DOMAIN t = 1..N, NEW j \in 1..N, NEW i \in j..N, i < N,
         NEW s \in LexStates, Shape(t, j, i, s), Closes(t, j, i)
  PROVE  LET n == Turned(s, t[i + 1]) IN
            /\ Shape(t, i + 1, i + 1, n)
            /\ t[i + 1] # LineFeed => (InCode(s) /\ InCode(n) <=> ~Quotes(t[i + 1]))
<1> DEFINE l == t[i + 1]
           n == Turned(s, l)
<1>1. CASE t[j] = "--"
  <2>1. l = LineFeed
    BY <1>1, ClosesIs
  <2>2. s.mode = "line" /\ s.tag = NoTag
    BY <1>1 DEF Shape, WithinToken
  <2>3. Closing[s.mode] = LineFeed
    BY <2>2 DEF Closing
  <2>4. InCode(n)
    BY <2>1, <2>2, <2>3, TurnedQuoted
  <2>5. ~Quotes(l) /\ l \notin QuoteKinds
    BY <2>1, QuotesAre
  <2> QED  BY <2>1, <2>4, <2>5 DEF Shape, WithinToken, QuoteKinds
<1>2. CASE t[j] # "--"
  <2>1. InCode(s)
    BY <1>2 DEF Shape, WithinToken
  <2>2. i + 1 \in 1..N
    OBVIOUS
  <2> QED  BY <2>1, <2>2, TokenBegins
<1> QED  BY <1>1, <1>2

LEMMA PastIs ==
  ASSUME NEW s, Sensible(s), NEW l, NEW i \in Nat
  PROVE  /\ Sensible(Past(s, l, i))
         /\ Past(s, l, i).mode = Turned(s, l).mode /\ Past(s, l, i).tag = Turned(s, l).tag
         /\ Past(s, l, i).level = Turned(s, l).level
         /\ InCode(s) /\ InCode(Turned(s, l)) => Past(s, l, i).claimed = s.claimed
         /\ ~(InCode(s) /\ InCode(Turned(s, l))) => Past(s, l, i).claimed = s.claimed \cup {i}
<1> DEFINE n == Turned(s, l)
           p == [n EXCEPT !.claimed = n.claimed \cup {i}]
<1>1. Sensible(n) /\ n.claimed = s.claimed
  BY TurnedSensible
<1>2. Past(s, l, i) = IF InCode(s) /\ InCode(n) THEN n ELSE p
  BY DEF Past
<1> HIDE DEF n
<1>3. n \in LexStates
  BY <1>1 DEF Sensible
<1>4. /\ p.mode = n.mode /\ p.tag = n.tag /\ p.level = n.level
      /\ p.claimed = n.claimed \cup {i}
  BY <1>3 DEF LexStates
<1>5. p \in LexStates
  BY <1>3 DEF LexStates
<1> HIDE DEF p
<1>6. Sensible(p)
  BY <1>1, <1>4, <1>5 DEF Sensible
<1> QED  BY <1>1, <1>2, <1>4, <1>6 DEF n

LEMMA ShapeSame ==
  ASSUME NEW t, NEW j, NEW i, NEW s, NEW n, s.mode = n.mode, s.tag = n.tag, s.level = n.level, Shape(t, j, i, s)
  PROVE  Shape(t, j, i, n)
BY DEF Shape, WithinToken, InCode

(* The scanner, lexeme by lexeme.                                           *)
ScansOf(t, N, r) ==
    /\ r[0] = InitialState /\ \A k \in 1..N : r[k] = Past(r[k - 1], t[k], k)
    /\ \A k \in 0..N : Sensible(r[k])

LEMMA ScannedIs ==
  ASSUME NEW t, NEW N \in Nat, N = Len(t)
  PROVE  \E r : ScansOf(t, N, r) /\ Scanned(t) = r[N]
<1> DEFINE base == InitialState
           D == {s \in LexStates : Sensible(s)}
           Reads(h) == h = [i \in 0..Len(t) |-> IF i = 0 THEN base ELSE Past(h[i - 1], t[i], i)]
           next == [k \in 1..Len(t) |-> [s \in D |-> Past(s, t[k], k)]]
           r == CHOOSE h : Reads(h)
<1>1. Scanned(t) = r[Len(t)]
  BY DEF Scanned
<1>2. base \in D
  <2>1. InitialState \in LexStates /\ InitialState.tag = NoTag
    BY DEF InitialState, LexStates, Modes
  <2> QED  BY <2>1 DEF Sensible
<1> HIDE DEF base
<1>3. \A k \in 1..Len(t) : \A s \in D : next[k][s] = Past(s, t[k], k) /\ next[k][s] \in D
  <2> SUFFICES ASSUME NEW k \in 1..Len(t), NEW s \in D
               PROVE  next[k][s] = Past(s, t[k], k) /\ next[k][s] \in D
    OBVIOUS
  <2>1. next[k][s] = Past(s, t[k], k)
    OBVIOUS
  <2>2. Sensible(Past(s, t[k], k))
    BY PastIs
  <2> HIDE DEF next
  <2> QED  BY <2>1, <2>2 DEF Sensible
<1>4. Len(t) \in Nat
  OBVIOUS
<1> HIDE DEF next
<1>5. \A s \in D : Sensible(s)
  OBVIOUS
<1> HIDE DEF D
<1>6. /\ \E g : Staged(g, Len(t), base, next) /\ g \in [0..Len(t) -> D]
      /\ \A h : Proceeds(h, Len(t), base, next, D) => \A k \in 0..Len(t) : h[k] \in D
  BY <1>2, <1>3, <1>4, Recursive
<1>7. \E g : Reads(g)
  <2>1. PICK g : Staged(g, Len(t), base, next) /\ g \in [0..Len(t) -> D]
    BY <1>6
  <2>2. \A k \in 0..Len(t) : (IF k = 0 THEN base ELSE next[k][g[k - 1]])
                               = (IF k = 0 THEN base ELSE Past(g[k - 1], t[k], k))
    <3> SUFFICES ASSUME NEW k \in 0..Len(t), k # 0
                 PROVE  next[k][g[k - 1]] = Past(g[k - 1], t[k], k)
      OBVIOUS
    <3>1. k \in 1..Len(t) /\ k - 1 \in 0..Len(t)
      BY <1>4
    <3>2. g[k - 1] \in D
      BY <2>1, <3>1
    <3> QED  BY <1>3, <3>1, <3>2
  <2>3. Reads(g)
    BY <2>1, <2>2 DEF Staged
  <2> QED  BY <2>3
<1>8. Reads(r)
  BY <1>7
<1> HIDE DEF r
<1>9. r[0] = base /\ \A k \in 1..Len(t) : r[k] = Past(r[k - 1], t[k], k)
  <2>1. \A k \in 0..Len(t) : r[k] = IF k = 0 THEN base ELSE Past(r[k - 1], t[k], k)
    BY <1>8
  <2>2. 0 \in 0..Len(t) /\ \A k \in 1..Len(t) : k \in 0..Len(t) /\ k # 0
    BY <1>4
  <2> QED  BY <2>1, <2>2
<1>10. \A k \in 0..Len(t) : r[k] \in D
  <2>1. Proceeds(r, Len(t), base, next, D)
    BY <1>3, <1>9 DEF Proceeds
  <2> QED  BY <1>6, <2>1
<1>11. ScansOf(t, N, r)
  BY <1>5, <1>9, <1>10 DEF ScansOf, base
<1> QED  BY <1>1, <1>11

(* The tokens, as they are found from the front.                            *)
Begins(t, u, k) == k = 1 \/ \E j \in u[k - 1] : TokenEnd(t, j) = k - 1
Parts(t, N, u) ==
    /\ u[0] = {}
    /\ \A k \in 1..N : u[k] = IF Begins(t, u, k) THEN u[k - 1] \cup {k} ELSE u[k - 1]
    /\ \A k \in 0..N : u[k] \subseteq 1..k

LEMMA TokensIs ==
  ASSUME NEW t, NEW N \in Nat, N = Len(t)
  PROVE  \E u : Parts(t, N, u) /\ Tokens(t) = u[N]
<1> DEFINE base == {}
           Starts(S, k) == k = 1 \/ \E j \in S : TokenEnd(t, j) = k - 1
           Reads(h) == h = [i \in 0..Len(t) |->
                               IF i = 0 THEN base
                               ELSE IF i = 1 \/ \E j \in h[i - 1] : TokenEnd(t, j) = i - 1 THEN h[i - 1] \cup {i}
                               ELSE h[i - 1]]
           good == [k \in 0..Len(t) |-> SUBSET (1..k)]
           next == [k \in 1..Len(t) |-> [S \in SUBSET (1..(k - 1)) |-> IF Starts(S, k) THEN S \cup {k} ELSE S]]
           u == CHOOSE h : Reads(h)
<1>1. Tokens(t) = u[Len(t)]
  BY DEF Tokens
<1> HIDE DEF u
<1>2. Len(t) \in Nat
  OBVIOUS
<1>3. base \in good[0]
  BY <1>2
<1>4. \A k \in 0..Len(t) : good[k] = SUBSET (1..k)
  OBVIOUS
<1>5. \A k \in 1..Len(t) : k \in 0..Len(t) /\ k - 1 \in 0..Len(t)
  BY <1>2
<1>6. ASSUME NEW k \in 1..Len(t), NEW S \in good[k - 1]
      PROVE  next[k][S] = (IF Starts(S, k) THEN S \cup {k} ELSE S) /\ next[k][S] \in good[k]
  <2>1. S \in SUBSET (1..(k - 1))
    BY <1>4, <1>5
  <2>2. next[k][S] = IF Starts(S, k) THEN S \cup {k} ELSE S
    BY <2>1
  <2>3. S \subseteq 1..k /\ S \cup {k} \subseteq 1..k
    BY <2>1
  <2> HIDE DEF Starts, next, good
  <2>4. next[k][S] \in SUBSET (1..k)
    BY <2>2, <2>3
  <2> QED  BY <1>4, <1>5, <2>2, <2>4
<1> HIDE DEF next, good
<1>7. \A k \in 1..Len(t) : \A S \in good[k - 1] : next[k][S] \in good[k]
  BY <1>6
<1>8. /\ \E g : Staged(g, Len(t), base, next) /\ \A k \in 0..Len(t) : g[k] \in good[k]
      /\ \A h : Climbs(h, Len(t), base, next, good) => \A k \in 0..Len(t) : h[k] \in good[k]
  <2> HIDE DEF base
  <2> QED  BY <1>2, <1>3, <1>7, StagedRecursion
<1>9. \E g : Reads(g)
  <2>1. PICK g : Staged(g, Len(t), base, next) /\ \A k \in 0..Len(t) : g[k] \in good[k]
    BY <1>8
  <2>2. \A k \in 0..Len(t) : (IF k = 0 THEN base ELSE next[k][g[k - 1]])
                               = (IF k = 0 THEN base
                                  ELSE IF k = 1 \/ \E j \in g[k - 1] : TokenEnd(t, j) = k - 1 THEN g[k - 1] \cup {k}
                                  ELSE g[k - 1])
    <3> SUFFICES ASSUME NEW k \in 0..Len(t), k # 0
                 PROVE  next[k][g[k - 1]] = IF Starts(g[k - 1], k) THEN g[k - 1] \cup {k} ELSE g[k - 1]
      OBVIOUS
    <3>1. k \in 1..Len(t) /\ k - 1 \in 0..Len(t)
      BY <1>2
    <3>2. g[k - 1] \in good[k - 1]
      BY <2>1, <3>1
    <3> HIDE DEF Starts
    <3> QED  BY <1>6, <3>1, <3>2
  <2>3. Reads(g)
    BY <2>1, <2>2 DEF Staged
  <2> QED  BY <2>3
<1>10. Reads(u)
  BY <1>9 DEF u
<1>11. u[0] = base /\ \A k \in 1..Len(t) : u[k] = IF Starts(u[k - 1], k) THEN u[k - 1] \cup {k} ELSE u[k - 1]
  <2>1. \A k \in 0..Len(t) : u[k] = IF k = 0 THEN base ELSE IF Starts(u[k - 1], k) THEN u[k - 1] \cup {k} ELSE u[k - 1]
    BY <1>10
  <2>2. 0 \in 0..Len(t) /\ \A k \in 1..Len(t) : k \in 0..Len(t) /\ k # 0
    BY <1>2
  <2> HIDE DEF Starts
  <2> QED  BY <2>1, <2>2
<1>12. \A k \in 0..Len(t) : u[k] \in good[k]
  <2>1. Climbs(u, Len(t), base, next, good)
    <3> HIDE DEF Starts, base
    <3> QED  BY <1>6, <1>11 DEF Climbs
  <2> QED  BY <1>8, <2>1
<1>13. Parts(t, N, u)
  <2>1. \A k \in 0..N : u[k] \subseteq 1..k
    BY <1>4, <1>12
  <2>2. \A k \in 1..N : u[k] = IF Begins(t, u, k) THEN u[k - 1] \cup {k} ELSE u[k - 1]
    BY <1>11 DEF Begins
  <2> QED  BY <1>11, <2>1, <2>2 DEF Parts
<1> QED  BY <1>1, <1>13

(* At each place the scanner is in a token, and has taken for code what the  *)
(* tokens so far say is code.                                               *)
PlainStep(r, k) == InCode(r[k - 1]) /\ InCode(r[k])
InToken(t, r, u, i, j) ==
    /\ j \in u[i] /\ j <= i /\ i <= TokenEnd(t, j)
    /\ Shape(t, j, i, r[i])
    /\ \A m \in u[i] : m # j => TokenEnd(t, m) < j
AsMeant(t, r, u, i) ==
    \A k \in 1..i : t[k] \notin {"x", LineFeed} => (PlainStep(r, k) <=> k \in u[i] /\ ~Quotes(t[k]))
InAccord(t, r, u, i) == (\E j \in u[i] : InToken(t, r, u, i, j)) /\ AsMeant(t, r, u, i)

LEMMA PlainStepIs ==
  ASSUME NEW t, NEW N \in Nat, NEW r, ScansOf(t, N, r), NEW k \in 1..N
  PROVE  /\ PlainStep(r, k) <=> InCode(r[k - 1]) /\ InCode(Turned(r[k - 1], t[k]))
         /\ r[k - 1] \in LexStates
         /\ \A j \in Nat : \A i \in Nat : Shape(t, j, i, Turned(r[k - 1], t[k])) => Shape(t, j, i, r[k])
<1>1. k - 1 \in 0..N /\ Sensible(r[k - 1]) /\ r[k] = Past(r[k - 1], t[k], k)
  BY DEF ScansOf
<1>2. r[k].mode = Turned(r[k - 1], t[k]).mode /\ r[k].tag = Turned(r[k - 1], t[k]).tag
      /\ r[k].level = Turned(r[k - 1], t[k]).level
  BY <1>1, PastIs
<1>3. InCode(r[k]) <=> InCode(Turned(r[k - 1], t[k]))
  BY <1>2 DEF InCode
<1>4. \A j \in Nat : \A i \in Nat : Shape(t, j, i, Turned(r[k - 1], t[k])) => Shape(t, j, i, r[k])
  BY <1>2, ShapeSame
<1> QED  BY <1>1, <1>3, <1>4 DEF PlainStep, Sensible

LEMMA TogetherFirst ==
  ASSUME NEW t, NEW N \in Nat, N = Len(t), DOMAIN t = 1..N, N >= 1,
         NEW r, ScansOf(t, N, r), NEW u, Parts(t, N, u)
  PROVE  InAccord(t, r, u, 1)
<1>1. r[0] = InitialState /\ InCode(r[0])
  BY DEF ScansOf, InCode, InitialState
<1>2. u[1] = {1}
  <2>1. 1 \in 1..N /\ Begins(t, u, 1) /\ 1 - 1 = 0
    BY DEF Begins
  <2>2. u[1] = u[1 - 1] \cup {1} /\ u[0] = {}
    BY <2>1 DEF Parts
  <2> QED  BY <2>1, <2>2
<1> DEFINE n == Turned(r[0], t[1])
<1>3. 1 \in 1..N /\ 1 - 1 = 0
  OBVIOUS
<1>4. /\ PlainStep(r, 1) <=> InCode(r[0]) /\ InCode(n)
      /\ r[0] \in LexStates
      /\ Shape(t, 1, 1, n) => Shape(t, 1, 1, r[1])
  BY <1>3, PlainStepIs
<1>5. Shape(t, 1, 1, n) /\ (InCode(n) <=> ~Quotes(t[1]))
  BY <1>1, <1>3, <1>4, TokenBegins
<1> HIDE DEF n
<1>6. TokenEnd(t, 1) \in 1..N
  BY <1>3, TokenEndIs
<1>7. InToken(t, r, u, 1, 1)
  BY <1>2, <1>4, <1>5, <1>6 DEF InToken
<1>8. \A k \in 1..1 : k = 1
  OBVIOUS
<1>9. AsMeant(t, r, u, 1)
  BY <1>1, <1>2, <1>4, <1>5, <1>8 DEF AsMeant
<1> QED  BY <1>2, <1>7, <1>9 DEF InAccord

LEMMA TogetherNext ==
  ASSUME NEW t, NEW N \in Nat, N = Len(t), DOMAIN t = 1..N,
         NEW r, ScansOf(t, N, r), NEW u, Parts(t, N, u),
         NEW i \in 1..N, i < N, InAccord(t, r, u, i)
  PROVE  InAccord(t, r, u, i + 1)
<1>1. PICK j \in u[i] : InToken(t, r, u, i, j)
  BY DEF InAccord
<1>2. j \in 1..i /\ u[i] \subseteq 1..i
  BY DEF Parts
<1>3. PICK e \in j..N : e = TokenEnd(t, j)
  BY <1>2, TokenEndIs
<1>4. i <= e /\ Shape(t, j, i, r[i]) /\ \A m \in u[i] : m # j => TokenEnd(t, m) < j
  BY <1>1, <1>3 DEF InToken
<1> DEFINE n == Turned(r[i], t[i + 1])
<1>5. i + 1 \in 1..N /\ (i + 1) - 1 = i /\ j \in 1..N /\ i \in j..N
  BY <1>2
<1>6. /\ PlainStep(r, i + 1) <=> InCode(r[i]) /\ InCode(n)
      /\ r[i] \in LexStates
      /\ \A m \in Nat : \A p \in Nat : Shape(t, m, p, n) => Shape(t, m, p, r[i + 1])
  BY <1>5, PlainStepIs
<1>7. u[i + 1] = IF Begins(t, u, i + 1) THEN u[i] \cup {i + 1} ELSE u[i]
  BY <1>5 DEF Parts
<1>8. Begins(t, u, i + 1) <=> \E m \in u[i] : TokenEnd(t, m) = i
  BY <1>5 DEF Begins
<1>9. \A k \in 1..i : k \in u[i + 1] <=> k \in u[i]
  BY <1>7
<1>10. \A k \in 1..(i + 1) : k \in 1..i \/ k = i + 1
  OBVIOUS
<1>11. \A k \in 1..i : t[k] \notin {"x", LineFeed} => (PlainStep(r, k) <=> k \in u[i + 1] /\ ~Quotes(t[k]))
  BY <1>9 DEF InAccord, AsMeant
<1>12. CASE i < e
  <2>1. ~Closes(t, j, i)
    BY <1>3, <1>5, <1>12, TokenEndIs
  <2>2. /\ Shape(t, j, i + 1, n)
        /\ t[i + 1] # "x" => ~(InCode(r[i]) /\ InCode(n))
    BY <1>4, <1>5, <1>6, <2>1, TokenGoesOn
  <2>3. \A m \in u[i] : TokenEnd(t, m) # i
    <3> SUFFICES ASSUME NEW m \in u[i], TokenEnd(t, m) = i PROVE FALSE
      OBVIOUS
    <3>1. m # j
      BY <1>3, <1>12
    <3>2. i < j
      BY <1>4, <3>1
    <3> QED  BY <1>2, <3>2
  <2>4. u[i + 1] = u[i] /\ i + 1 \notin u[i]
    <3>1. i + 1 \notin 1..i
      OBVIOUS
    <3> QED  BY <1>2, <1>7, <1>8, <2>3, <3>1
  <2>5. Shape(t, j, i + 1, r[i + 1])
    BY <1>5, <1>6, <2>2
  <2> HIDE DEF n
  <2>6. InToken(t, r, u, i + 1, j)
    <3>1. j <= i + 1 /\ i + 1 <= e
      BY <1>2, <1>12
    <3> QED  BY <1>3, <1>4, <2>4, <2>5, <3>1 DEF InToken
  <2>7. AsMeant(t, r, u, i + 1)
    BY <1>6, <1>10, <1>11, <2>2, <2>4 DEF AsMeant
  <2> QED  BY <2>4, <2>6, <2>7 DEF InAccord
<1>13. CASE i = e
  <2>1. Closes(t, j, i)
    BY <1>3, <1>5, <1>13, TokenEndIs
  <2>2. /\ Shape(t, i + 1, i + 1, n)
        /\ t[i + 1] # LineFeed => (InCode(r[i]) /\ InCode(n) <=> ~Quotes(t[i + 1]))
    BY <1>4, <1>5, <1>6, <2>1, TokenFollows
  <2>3. u[i + 1] = u[i] \cup {i + 1}
    BY <1>3, <1>7, <1>8, <1>13
  <2>4. Shape(t, i + 1, i + 1, r[i + 1])
    BY <1>5, <1>6, <2>2
  <2> HIDE DEF n
  <2>5. TokenEnd(t, i + 1) \in (i + 1)..N
    BY <1>5, TokenEndIs
  <2>6. ASSUME NEW m \in u[i] PROVE TokenEnd(t, m) < i + 1
    <3>1. m \in 1..N
      BY <1>2
    <3>2. TokenEnd(t, m) \in Int
      <4>1. TokenEnd(t, m) \in m..N
        BY <3>1, TokenEndIs
      <4> QED  BY <3>1, <4>1
    <3>3. CASE m = j
      BY <1>3, <1>13, <3>3
    <3>4. CASE m # j
      BY <1>2, <1>4, <3>2, <3>4
    <3> QED  BY <3>3, <3>4
  <2>7. InToken(t, r, u, i + 1, i + 1)
    BY <2>3, <2>4, <2>5, <2>6 DEF InToken
  <2>8. AsMeant(t, r, u, i + 1)
    BY <1>6, <1>10, <1>11, <2>2, <2>3 DEF AsMeant
  <2> QED  BY <2>3, <2>7, <2>8 DEF InAccord
<1> QED  BY <1>4, <1>12, <1>13

(* What the scanner claims.                                                 *)
LEMMA ClaimedIs ==
  ASSUME NEW t, NEW N \in Nat, NEW r, ScansOf(t, N, r)
  PROVE  r[N].claimed = {k \in 1..N : ~PlainStep(r, k)}
<1> DEFINE G == {i \in 0..N : r[i].claimed = {k \in 1..i : ~PlainStep(r, k)}}
<1>1. 0 \in G
  <2>1. r[0].claimed = {}
    BY DEF ScansOf, InitialState
  <2>2. {k \in 1..0 : ~PlainStep(r, k)} = {}
    OBVIOUS
  <2> QED  BY <2>1, <2>2
<1>2. ASSUME NEW i \in Nat, i < N, i \in G PROVE i + 1 \in G
  <2>1. i + 1 \in 1..N /\ (i + 1) - 1 = i /\ i \in 0..N /\ i + 1 \in 0..N
    BY <1>2
  <2>2. Sensible(r[i]) /\ r[i + 1] = Past(r[i], t[i + 1], i + 1)
    BY <2>1 DEF ScansOf
  <2>3. PlainStep(r, i + 1) <=> InCode(r[i]) /\ InCode(Turned(r[i], t[i + 1]))
    BY <2>1, PlainStepIs
  <2>4. r[i].claimed = {k \in 1..i : ~PlainStep(r, k)}
    BY <1>2
  <2>5. \A k : k \in 1..(i + 1) <=> k \in 1..i \/ k = i + 1
    OBVIOUS
  <2>6. CASE PlainStep(r, i + 1)
    <3>1. r[i + 1].claimed = r[i].claimed
      BY <2>2, <2>3, <2>6, PastIs
    <3>2. {k \in 1..(i + 1) : ~PlainStep(r, k)} = {k \in 1..i : ~PlainStep(r, k)}
      BY <2>5, <2>6
    <3> QED  BY <2>1, <2>4, <3>1, <3>2
  <2>7. CASE ~PlainStep(r, i + 1)
    <3>1. r[i + 1].claimed = r[i].claimed \cup {i + 1}
      BY <2>1, <2>2, <2>3, <2>7, PastIs
    <3>2. {k \in 1..(i + 1) : ~PlainStep(r, k)} = {k \in 1..i : ~PlainStep(r, k)} \cup {i + 1}
      BY <2>5, <2>7
    <3> QED  BY <2>1, <2>4, <3>1, <3>2
  <2> QED  BY <2>6, <2>7
<1> HIDE DEF G
<1>3. 0..N \subseteq G
  BY <1>1, <1>2, BoundedInduction
<1>4. N \in G
  BY <1>3
<1> QED  BY <1>4 DEF G

(* What the scanner takes for code is what the tokens say is: of words the   *)
(* first lexeme, and not the end of a line behind a comment, which the       *)
(* scanner counts to it.                                                    *)
LEMMA CodeIsMeant ==
  ASSUME NEW L, NEW t \in Seq(L), NEW i \in 1..Len(t), t[i] \notin {"x", LineFeed}
  PROVE  i \in CodeOf(t) <=> i \in MeantCode(t)
<1>1. PICK N \in Nat : N = Len(t)
  OBVIOUS
<1>2. DOMAIN t = 1..N /\ i \in 1..N
  BY <1>1
<1>3. PICK r : ScansOf(t, N, r) /\ Scanned(t) = r[N]
  BY <1>1, ScannedIs
<1>4. PICK u : Parts(t, N, u) /\ Tokens(t) = u[N]
  BY <1>1, TokensIs
<1> DEFINE G == {k \in 0..N : k >= 1 => InAccord(t, r, u, k)}
<1>5. 0 \in G
  OBVIOUS
<1>6. ASSUME NEW k \in Nat, k < N, k \in G PROVE k + 1 \in G
  <2>1. CASE k = 0
    <3>1. InAccord(t, r, u, 1)
      BY <1>1, <1>2, <1>3, <1>4, TogetherFirst
    <3> QED  BY <1>6, <2>1, <3>1
  <2>2. CASE k # 0
    <3>1. k \in 1..N /\ InAccord(t, r, u, k)
      BY <1>6, <2>2
    <3>2. InAccord(t, r, u, k + 1)
      BY <1>1, <1>2, <1>3, <1>4, <1>6, <3>1, TogetherNext
    <3> QED  BY <1>6, <3>2
  <2> QED  BY <2>1, <2>2
<1> HIDE DEF G
<1>7. 0..N \subseteq G
  BY <1>5, <1>6, BoundedInduction
<1>8. InAccord(t, r, u, N)
  BY <1>2, <1>7 DEF G
<1>9. PlainStep(r, i) <=> i \in Tokens(t) /\ ~Quotes(t[i])
  BY <1>2, <1>4, <1>8 DEF InAccord, AsMeant
<1>10. i \in CodeOf(t) <=> PlainStep(r, i)
  BY <1>2, <1>3, ClaimedIs DEF CodeOf
<1>11. i \in MeantCode(t) <=> i \in Tokens(t) /\ ~Quotes(t[i])
  BY DEF MeantCode
<1> QED  BY <1>9, <1>10, <1>11

LEMMA CodesWithin ==
  ASSUME NEW L, NEW t \in Seq(L)
  PROVE  CodeOf(t) \subseteq 1..Len(t) /\ MeantCode(t) \subseteq 1..Len(t)
<1>1. PICK N \in Nat : N = Len(t)
  OBVIOUS
<1>2. PICK u : Parts(t, N, u) /\ Tokens(t) = u[N]
  BY <1>1, TokensIs
<1>3. Tokens(t) \subseteq 1..N
  BY <1>2 DEF Parts
<1> QED  BY <1>1, <1>3 DEF CodeOf, MeantCode

LEMMA MarksAre ==
  /\ ";" \notin {"x", LineFeed} /\ "(" \notin {"x", LineFeed} /\ ")" \notin {"x", LineFeed}
  /\ Comma \notin {"x", LineFeed} /\ \A l \in Keywords : l \notin {"x", LineFeed}
BY DEF LineFeed, Keywords, Comma

(* The lexemes a stretch is trimmed to.                                     *)
Solid(t, from, to) == {i \in from + 1 .. to : t[i] \notin White}

LEMMA TrimmedIs ==
  ASSUME NEW t, NEW from \in Int, NEW to \in Nat, from >= -1
  PROVE  /\ Solid(t, from, to) = {} => Trimmed(t, from, to) = <<to, to>>
         /\ Solid(t, from, to) # {} =>
               LET a == Min(Solid(t, from, to)) b == Max(Solid(t, from, to))
               IN  /\ Trimmed(t, from, to) = <<a - 1, b>> /\ a \in Solid(t, from, to) /\ b \in Solid(t, from, to)
                   /\ a \in from + 1 .. to /\ b \in a..to
<1> DEFINE S == Solid(t, from, to)
<1>1. S \subseteq 0..to /\ S \subseteq Nat /\ \A i \in S : i \in from + 1 .. to
  BY DEF Solid
<1>2. Trimmed(t, from, to) = IF S = {} THEN <<to, to>> ELSE <<Min(S) - 1, Max(S)>>
  BY DEF Trimmed, Solid
<1> HIDE DEF S
<1>3. CASE S # {}
  <2>1. Min(S) \in S /\ \A x \in S : Min(S) <= x
    BY <1>1, <1>3, MinIs
  <2>2. Max(S) \in S /\ \A x \in S : x <= Max(S)
    BY <1>1, <1>3, MaxIs
  <2>3. PICK a \in S, b \in S : a = Min(S) /\ b = Max(S)
    BY <2>1, <2>2
  <2>4. a \in from + 1 .. to /\ b \in from + 1 .. to /\ a <= b
    BY <1>1, <2>1, <2>3
  <2>5. b \in a..to
    BY <2>4
  <2> QED  BY <1>2, <1>3, <2>3, <2>4, <2>5 DEF S
<1> QED  BY <1>2, <1>3 DEF S

(* The statement at a caret is what lies between the ends around it.        *)
LEMMA StatementIs ==
  ASSUME NEW L, NEW t \in Seq(L), NEW pos \in 0..Len(t), StatementSplit
  PROVE  LET own == StatementAt(t, MeantCode(t), pos)
             bounds == StatementBounds(t, pos)
         IN  IF own = {} THEN bounds[1] = bounds[2] ELSE bounds = <<Min(own) - 1, Max(own)>>
<1>1. PICK N \in Nat : N = Len(t) /\ DOMAIN t = 1..N
  OBVIOUS
<1> DEFINE ends == {i \in CodeOf(t) : t[i] = ";"}
           past == {i \in ends : i <= pos}
           A == {0} \cup past
           B == {N} \cup (ends \ past)
           from == Max(A)
           to == Min(B)
           code == MeantCode(t)
           own == StatementAt(t, code, pos)
<1>2. ends \subseteq 1..N /\ \A i : i \in ends <=> i \in code /\ t[i] = ";"
  <2>1. CodeOf(t) \subseteq 1..N /\ code \subseteq 1..N
    BY <1>1, CodesWithin
  <2>2. \A i \in 1..N : t[i] = ";" => (i \in CodeOf(t) <=> i \in code)
    BY <1>1, CodeIsMeant, MarksAre
  <2> QED  BY <2>1, <2>2
<1>3. StatementBounds(t, pos) = Trimmed(t, from, to)
  BY <1>1 DEF StatementBounds
<1>4. pos \in 0..N
  BY <1>1
<1> HIDE DEF ends
<1>15. \A i : i \in past <=> i \in ends /\ i <= pos
  OBVIOUS
<1>16. \A i \in ends : i \in Nat /\ i >= 1 /\ i <= N
  <2>1. ends \subseteq 1..N
    BY <1>2
  <2> HIDE DEF code
  <2> QED  BY <2>1
<1> HIDE DEF past
<1>5. A \subseteq 0..N /\ A # {} /\ B \subseteq Nat /\ B # {}
  BY <1>15, <1>16
<1>6. from \in A /\ \A x \in A : x <= from
  <2> HIDE DEF A
  <2> QED  BY <1>5, MaxIs
<1>7. to \in B /\ \A x \in B : to <= x
  <2> HIDE DEF B
  <2> QED  BY <1>5, MinIs
<1> HIDE DEF from, to
<1>17. \A x : (x \in A <=> x = 0 \/ (x \in ends /\ x <= pos)) /\ (x \in B <=> x = N \/ (x \in ends /\ ~(x <= pos)))
  BY <1>15
<1> HIDE DEF A, B
<1>8. from \in 0..pos /\ to \in 0..N /\ (to > pos \/ to = N) /\ pos <= to
  BY <1>4, <1>6, <1>7, <1>16, <1>17
<1>9. \A k \in ends : (k <= pos => k <= from) /\ (k > pos => to <= k)
  BY <1>4, <1>6, <1>7, <1>16, <1>17
<1>10. (from = 0 \/ from \in ends) /\ (to = N \/ (to \in ends /\ to > pos))
  BY <1>4, <1>6, <1>7, <1>16, <1>17
<1>11. own = Solid(t, from, to)
  <2> DEFINE ended(i, j) == \E k \in code : k \in i..j /\ t[k] = ";"
  <2>1. own = {i \in 1..N : t[i] \notin White /\ IF i > pos THEN ~ended(pos + 1, i - 1) ELSE ~ended(i, pos)}
    BY <1>1 DEF StatementAt
  <2>2. \A i, j : ended(i, j) <=> \E k \in ends : k \in i..j
    BY <1>2
  <2> HIDE DEF ended, code
  <2>3. ASSUME NEW i \in 1..N, i > pos PROVE ~ended(pos + 1, i - 1) <=> i \in from + 1 .. to
    <3>1. CASE i <= to
      <4>1. ~ended(pos + 1, i - 1)
        <5> SUFFICES ASSUME NEW k \in ends, k \in pos + 1 .. i - 1 PROVE FALSE
          BY <2>2
        <5>1. k \in Nat /\ (k <= pos => k <= from) /\ (k > pos => to <= k)
          BY <1>9, <1>16
        <5> QED  BY <1>8, <3>1, <5>1
      <4> QED  BY <1>8, <2>3, <3>1, <4>1
    <3>2. CASE i > to
      <4>1. to \in ends /\ to > pos
        BY <1>8, <1>10, <3>2
      <4>2. to \in pos + 1 .. i - 1
        BY <1>8, <3>2, <4>1
      <4> QED  BY <1>8, <2>2, <3>2, <4>1, <4>2
    <3> QED  BY <1>8, <3>1, <3>2
  <2>4. ASSUME NEW i \in 1..N, ~(i > pos) PROVE ~ended(i, pos) <=> i \in from + 1 .. to
    <3>1. CASE i > from
      <4>1. ~ended(i, pos)
        <5> SUFFICES ASSUME NEW k \in ends, k \in i..pos PROVE FALSE
          BY <2>2
        <5>1. k \in Nat /\ (k <= pos => k <= from) /\ (k > pos => to <= k)
          BY <1>9, <1>16
        <5> QED  BY <1>8, <3>1, <5>1
      <4> QED  BY <1>8, <2>4, <3>1, <4>1
    <3>2. CASE i <= from
      <4>1. from \in ends
        BY <1>8, <1>10, <3>2
      <4>2. from \in i..pos
        BY <1>8, <3>2
      <4> QED  BY <1>8, <2>2, <3>2, <4>1, <4>2
    <3> QED  BY <1>8, <3>1, <3>2
  <2>5. \A i \in from + 1 .. to : i \in 1..N
    BY <1>8
  <2>6. \A i \in 1..N : (IF i > pos THEN ~ended(pos + 1, i - 1) ELSE ~ended(i, pos)) <=> i \in from + 1 .. to
    BY <2>3, <2>4
  <2> QED  BY <2>1, <2>5, <2>6 DEF Solid
<1> HIDE DEF own, code
<1>12. from \in Int /\ from >= -1 /\ to \in Nat
  BY <1>8
<1>13. CASE own = {}
  <2>1. StatementBounds(t, pos) = <<to, to>>
    BY <1>3, <1>11, <1>12, <1>13, TrimmedIs
  <2> QED  BY <1>13, <2>1 DEF own, code
<1>14. CASE own # {}
  <2>1. StatementBounds(t, pos) = <<Min(own) - 1, Max(own)>>
    BY <1>3, <1>11, <1>12, <1>14, TrimmedIs
  <2> QED  BY <1>14, <2>1 DEF own, code
<1> QED  BY <1>13, <1>14

LEMMA FoldedIs ==
  ASSUME NEW L, NEW t \in Seq(L), NEW i \in DOMAIN t
  PROVE  FoldKeywords(t)[i] # t[i] <=> i \in MeantCode(t) /\ t[i] \in Keywords
<1>1. FoldKeywords(t)[i] = IF i \in CodeOf(t) /\ t[i] \in Keywords THEN Folded[t[i]] ELSE t[i]
  BY DEF FoldKeywords
<1>2. i \in 1..Len(t)
  OBVIOUS
<1>3. t[i] \in Keywords => (i \in CodeOf(t) <=> i \in MeantCode(t))
  BY <1>2, CodeIsMeant, MarksAre
<1>4. t[i] \in Keywords => Folded[t[i]] # t[i]
  BY DEF Folded, Keywords
<1> QED  BY <1>1, <1>3, <1>4

(* How many brackets are open at m, of those from b on.                     *)
Deep(t, C, b, m) == Counted(t, C, "(", b, m) - Counted(t, C, ")", b, m)

LEMMA DeepNext ==
  ASSUME NEW t, NEW C, NEW b \in Nat, NEW k \in Nat, b <= k
  PROVE  /\ Deep(t, C, b, k - 1) \in Int /\ Deep(t, C, b, k) \in Int
         /\ k \in C /\ t[k] = "(" => Deep(t, C, b, k) = Deep(t, C, b, k - 1) + 1
         /\ k \in C /\ t[k] = ")" => Deep(t, C, b, k) = Deep(t, C, b, k - 1) - 1
         /\ ~(k \in C /\ t[k] \in {"(", ")"}) => Deep(t, C, b, k) = Deep(t, C, b, k - 1)
<1>1. k - 1 \in Int /\ b <= (k - 1) + 1 /\ (k - 1) + 1 = k
  OBVIOUS
<1>2. ASSUME NEW l
      PROVE  /\ Counted(t, C, l, b, k) = Counted(t, C, l, b, k - 1) + (IF k \in C /\ t[k] = l THEN 1 ELSE 0)
             /\ Counted(t, C, l, b, k - 1) \in Nat
  <2>1. Counted(t, C, l, b, (k - 1) + 1)
          = Counted(t, C, l, b, k - 1) + (IF (k - 1) + 1 \in C /\ t[(k - 1) + 1] = l THEN 1 ELSE 0)
    BY <1>1, CountedNext
  <2>2. Counted(t, C, l, b, k - 1) \in Nat
    BY <1>1, CountedOf
  <2> QED  BY <1>1, <2>1, <2>2
<1>3. PICK p \in Nat, q \in Nat : p = Counted(t, C, "(", b, k - 1) /\ q = Counted(t, C, ")", b, k - 1)
  BY <1>2
<1>4. /\ Counted(t, C, "(", b, k) = p + (IF k \in C /\ t[k] = "(" THEN 1 ELSE 0)
      /\ Counted(t, C, ")", b, k) = q + (IF k \in C /\ t[k] = ")" THEN 1 ELSE 0)
  BY <1>2, <1>3
<1>5. Deep(t, C, b, k - 1) = p - q
  BY <1>3 DEF Deep
<1>6. CASE k \in C /\ t[k] = "("
  BY <1>4, <1>5, <1>6 DEF Deep
<1>7. CASE k \in C /\ t[k] = ")"
  BY <1>4, <1>5, <1>7 DEF Deep
<1>8. CASE ~(k \in C /\ t[k] \in {"(", ")"})
  BY <1>4, <1>5, <1>8 DEF Deep
<1> QED  BY <1>5, <1>6, <1>7, <1>8

LEMMA DeepNone ==
  ASSUME NEW t, NEW C, NEW b \in Nat
  PROVE  Deep(t, C, b, b - 1) = 0
BY CountedNone DEF Deep

(* A bracket is open until it is, and stays so as long as it is not closed.  *)
LEMMA BracketOpenIs ==
  ASSUME NEW t, NEW C, NEW b \in Nat, NEW j \in Nat
  PROVE  OpenFrom(t, C, b, j) <=> b \in C /\ t[b] = "(" /\ \A m \in b .. j - 1 : Deep(t, C, b, m) > 0
<1>1. ASSUME NEW m \in b .. j - 1
      PROVE  Counted(t, C, "(", b, m) > Counted(t, C, ")", b, m) <=> Deep(t, C, b, m) > 0
  <2>1. Counted(t, C, "(", b, m) \in Nat /\ Counted(t, C, ")", b, m) \in Nat
    BY CountedOf
  <2> QED  BY <2>1 DEF Deep
<1> QED  BY <1>1 DEF OpenFrom

LEMMA BracketOpenNext ==
  ASSUME NEW t, NEW C, NEW b \in Nat, NEW k \in Nat, b <= k
  PROVE  OpenFrom(t, C, b, k + 1) <=> OpenFrom(t, C, b, k) /\ Deep(t, C, b, k) > 0
<1>1. (k + 1) - 1 = k /\ k + 1 \in Nat
  OBVIOUS
<1>2. \A m : m \in b..k <=> m \in b .. k - 1 \/ m = k
  OBVIOUS
<1> QED  BY <1>1, <1>2, BracketOpenIs

LEMMA OpenItself ==
  ASSUME NEW t, NEW C, NEW b \in Nat
  PROVE  (OpenFrom(t, C, b, b) <=> b \in C /\ t[b] = "(") /\ (OpenFrom(t, C, b, b + 1) <=> b \in C /\ t[b] = "(")
<1>1. OpenFrom(t, C, b, b) <=> b \in C /\ t[b] = "("
  <2>1. b .. b - 1 = {}
    OBVIOUS
  <2> QED  BY <2>1, BracketOpenIs
<1>2. b \in C /\ t[b] = "(" => Deep(t, C, b, b) = 1
  <2>1. Deep(t, C, b, b - 1) = 0
    BY DeepNone
  <2>2. b \in C /\ t[b] = "(" => Deep(t, C, b, b) = Deep(t, C, b, b - 1) + 1
    BY DeepNext
  <2> QED  BY <2>1, <2>2
<1>3. OpenFrom(t, C, b, b + 1) <=> OpenFrom(t, C, b, b) /\ Deep(t, C, b, b) > 0
  BY BracketOpenNext
<1> QED  BY <1>1, <1>2, <1>3

(* The brackets on the stack are those open, outermost first.               *)
Level == [open : Nat, commas : Seq(Nat)]
OpensAt(stack, s) == stack[s].open + 1
Bracket(t, C, b) == b \in C /\ t[b] = "("
Nested(t, C, stack, i) ==
    /\ \A s \in 1..Len(stack) : /\ OpensAt(stack, s) \in 1..i /\ OpenFrom(t, C, OpensAt(stack, s), i + 1)
                                /\ Deep(t, C, OpensAt(stack, s), i) = Len(stack) - s + 1
    /\ \A s, p \in 1..Len(stack) : s < p => stack[s].open < stack[p].open
    /\ \A b \in 1..i : OpenFrom(t, C, b, i + 1) => \E s \in 1..Len(stack) : b = OpensAt(stack, s)
(* The commas of the nesting of b, up to i.                                 *)
OwnComma(t, C, b, k) == k \in C /\ t[k] = Comma /\ \A i \in b + 1 .. k : ~OpenFrom(t, C, i, k)
Separated(t, C, stack, i) ==
    \A s \in 1..Len(stack) : \A x \in Nat :
        x \in Range(stack[s].commas) <=> x + 1 \in OpensAt(stack, s) .. i /\ OwnComma(t, C, OpensAt(stack, s), x + 1)

LEMMA NestedNone ==
  ASSUME NEW t, NEW C
  PROVE  Nested(t, C, <<>>, 0) /\ Separated(t, C, <<>>, 0)
BY DEF Nested, Separated

(* A lexeme that is no bracket of the code leaves the brackets as they are.  *)
LEMMA NestedSame ==
  ASSUME NEW t, NEW C, NEW stack \in Seq(Level), NEW k \in Nat \ {0}, Nested(t, C, stack, k - 1),
         ~(k \in C /\ t[k] \in {"(", ")"})
  PROVE  Nested(t, C, stack, k)
<1>1. PICK n \in Nat : n = Len(stack)
  OBVIOUS
<1>2. (k - 1) + 1 = k /\ k - 1 \in Nat
  OBVIOUS
<1>3. ASSUME NEW s \in 1..n
      PROVE  /\ OpensAt(stack, s) \in 1..k /\ OpenFrom(t, C, OpensAt(stack, s), k + 1)
             /\ Deep(t, C, OpensAt(stack, s), k) = n - s + 1
  <2>1. PICK b \in 1..(k - 1) : b = OpensAt(stack, s) /\ OpenFrom(t, C, b, k) /\ Deep(t, C, b, k - 1) = n - s + 1
    BY <1>1, <1>2 DEF Nested
  <2>2. Deep(t, C, b, k) = n - s + 1
    BY <2>1, DeepNext
  <2>3. OpenFrom(t, C, b, k + 1)
    BY <1>1, <2>1, <2>2, BracketOpenNext
  <2> QED  BY <2>1, <2>2, <2>3
<1>4. ASSUME NEW b \in 1..k, OpenFrom(t, C, b, k + 1) PROVE \E s \in 1..n : b = OpensAt(stack, s)
  <2>1. OpenFrom(t, C, b, k) /\ Bracket(t, C, b)
    <3>1. b \in Nat /\ b <= k
      OBVIOUS
    <3>2. OpenFrom(t, C, b, k)
      BY <1>4, <3>1, BracketOpenNext
    <3>3. b \in C /\ t[b] = "("
      BY <3>1, <3>2, BracketOpenIs
    <3> QED  BY <3>2, <3>3 DEF Bracket
  <2>2. b # k
    BY <2>1 DEF Bracket
  <2>3. b \in 1..(k - 1)
    BY <2>2
  <2> QED  BY <1>1, <1>2, <2>1, <2>3 DEF Nested
<1> QED  BY <1>1, <1>3, <1>4 DEF Nested

LEMMA NestedPush ==
  ASSUME NEW t, NEW C, NEW stack \in Seq(Level), NEW k \in Nat \ {0}, Nested(t, C, stack, k - 1),
         Bracket(t, C, k), NEW level \in Level, level.open = k - 1
  PROVE  Nested(t, C, Append(stack, level), k)
<1>1. PICK n \in Nat : n = Len(stack)
  OBVIOUS
<1> DEFINE next == Append(stack, level)
<1>2. (k - 1) + 1 = k /\ k - 1 \in Nat
  OBVIOUS
<1>3. Len(next) = n + 1 /\ next[n + 1] = level /\ \A s \in 1..n : next[s] = stack[s]
  BY <1>1
<1> HIDE DEF next
<1>4. ASSUME NEW s \in 1..(n + 1)
      PROVE  /\ OpensAt(next, s) \in 1..k /\ OpenFrom(t, C, OpensAt(next, s), k + 1)
             /\ Deep(t, C, OpensAt(next, s), k) = (n + 1) - s + 1
  <2>1. CASE s = n + 1
    <3>1. OpensAt(next, s) = k
      BY <1>2, <1>3, <2>1 DEF OpensAt
    <3>2. OpenFrom(t, C, k, k + 1)
      BY OpenItself DEF Bracket
    <3>3. Deep(t, C, k, k) = 1
      <4>1. Deep(t, C, k, k - 1) = 0
        BY DeepNone
      <4>2. Deep(t, C, k, k) = Deep(t, C, k, k - 1) + 1
        BY DeepNext DEF Bracket
      <4> QED  BY <4>1, <4>2
    <3> QED  BY <2>1, <3>1, <3>2, <3>3
  <2>2. CASE s # n + 1
    <3>1. s \in 1..n /\ OpensAt(next, s) = OpensAt(stack, s)
      BY <1>3, <2>2 DEF OpensAt
    <3>2. PICK b \in 1..(k - 1) : b = OpensAt(stack, s) /\ OpenFrom(t, C, b, k) /\ Deep(t, C, b, k - 1) = n - s + 1
      BY <1>1, <1>2, <3>1 DEF Nested
    <3>3. Deep(t, C, b, k) = (n - s + 1) + 1
      BY <3>2, DeepNext DEF Bracket
    <3>4. OpenFrom(t, C, b, k + 1)
      BY <3>1, <3>2, <3>3, BracketOpenNext
    <3> QED  BY <3>1, <3>2, <3>3, <3>4
  <2> QED  BY <2>1, <2>2
<1>5. ASSUME NEW b \in 1..k, OpenFrom(t, C, b, k + 1) PROVE \E s \in 1..(n + 1) : b = OpensAt(next, s)
  <2>1. CASE b = k
    <3>1. b = OpensAt(next, n + 1)
      BY <1>2, <1>3, <2>1 DEF OpensAt
    <3> QED  BY <3>1
  <2>2. CASE b # k
    <3>1. OpenFrom(t, C, b, k) /\ b \in 1..(k - 1)
      BY <1>5, <2>2, BracketOpenNext
    <3>2. PICK s \in 1..n : b = OpensAt(stack, s)
      BY <1>1, <1>2, <3>1 DEF Nested
    <3>3. b = OpensAt(next, s) /\ s \in 1..(n + 1)
      BY <1>3, <3>2 DEF OpensAt
    <3> QED  BY <3>3
  <2> QED  BY <2>1, <2>2
<1>6. ASSUME NEW s \in 1..(n + 1), NEW p \in 1..(n + 1), s < p PROVE next[s].open < next[p].open
  <2>1. s \in 1..n /\ next[s] = stack[s]
    BY <1>3, <1>6
  <2>2. CASE p = n + 1
    <3>1. OpensAt(stack, s) \in 1..(k - 1) /\ stack[s].open \in Nat
      <4>1. OpensAt(stack, s) \in 1..(k - 1)
        BY <1>1, <2>1 DEF Nested
      <4>2. stack[s] \in Level
        BY <1>1, <2>1
      <4> QED  BY <4>1, <4>2 DEF Level
    <3>2. next[p].open = k - 1
      BY <1>3, <2>2
    <3> QED  BY <2>1, <3>1, <3>2 DEF OpensAt
  <2>3. CASE p # n + 1
    <3>1. p \in 1..n /\ next[p] = stack[p]
      BY <1>3, <2>3
    <3> QED  BY <1>1, <1>6, <2>1, <3>1 DEF Nested
  <2> QED  BY <2>2, <2>3
<1>7. Nested(t, C, next, k)
  BY <1>3, <1>4, <1>5, <1>6 DEF Nested
<1> QED  BY <1>7 DEF next

(* A closing bracket closes the innermost, and no other.                    *)
Closed(t, C, b, k) == OpenFrom(t, C, b, k) /\ ~OpenFrom(t, C, b, k + 1)

LEMMA NestedPop ==
  ASSUME NEW t, NEW C, NEW stack \in Seq(Level), NEW k \in Nat \ {0}, Nested(t, C, stack, k - 1),
         k \in C, t[k] = ")", NEW n \in Nat, n = Len(stack), n > 0
  PROVE  /\ Closed(t, C, OpensAt(stack, n), k)
         /\ \A s \in 1..(n - 1) : OpenFrom(t, C, OpensAt(stack, s), k + 1) /\ Deep(t, C, OpensAt(stack, s), k) = (n - 1) - s + 1
         /\ \A next \in Seq(Level) : Len(next) = n - 1 /\ (\A s \in 1..(n - 1) : next[s] = stack[s]) => Nested(t, C, next, k)
<1>2. (k - 1) + 1 = k /\ k - 1 \in Nat /\ n \in 1..n
  OBVIOUS
<1>1. \A s \in 1..n : /\ OpensAt(stack, s) \in 1..(k - 1) /\ OpenFrom(t, C, OpensAt(stack, s), k)
                      /\ Deep(t, C, OpensAt(stack, s), k - 1) = n - s + 1
  BY <1>2 DEF Nested
<1>3. Closed(t, C, OpensAt(stack, n), k)
  <2>0. n - n + 1 = 1
    OBVIOUS
  <2>1. PICK b \in 1..(k - 1) : b = OpensAt(stack, n) /\ OpenFrom(t, C, b, k) /\ Deep(t, C, b, k - 1) = 1
    BY <1>1, <1>2, <2>0
  <2>2. Deep(t, C, b, k) = 0
    BY <2>1, DeepNext
  <2>3. ~OpenFrom(t, C, b, k + 1)
    BY <2>1, <2>2, BracketOpenNext
  <2> QED  BY <2>1, <2>3 DEF Closed
<1>4. ASSUME NEW s \in 1..(n - 1)
      PROVE  /\ OpensAt(stack, s) \in 1..k /\ OpenFrom(t, C, OpensAt(stack, s), k + 1)
             /\ Deep(t, C, OpensAt(stack, s), k) = (n - 1) - s + 1
  <2>1. PICK b \in 1..(k - 1) : b = OpensAt(stack, s) /\ OpenFrom(t, C, b, k) /\ Deep(t, C, b, k - 1) = n - s + 1
    <3>1. s \in 1..n
      OBVIOUS
    <3> QED  BY <1>1, <3>1
  <2>2. Deep(t, C, b, k) = (n - 1) - s + 1
    BY <2>1, DeepNext
  <2>3. OpenFrom(t, C, b, k + 1)
    BY <2>1, <2>2, BracketOpenNext
  <2> QED  BY <2>1, <2>2, <2>3
<1>5. ASSUME NEW next \in Seq(Level), Len(next) = n - 1, \A s \in 1..(n - 1) : next[s] = stack[s]
      PROVE  Nested(t, C, next, k)
  <2>1. \A s \in 1..(n - 1) : OpensAt(next, s) = OpensAt(stack, s) /\ s \in 1..n
    BY <1>5 DEF OpensAt
  <2>2. ASSUME NEW b \in 1..k, OpenFrom(t, C, b, k + 1) PROVE \E s \in 1..(n - 1) : b = OpensAt(next, s)
    <3>1. OpenFrom(t, C, b, k) /\ Bracket(t, C, b)
      <4>1. b \in Nat /\ b <= k
        OBVIOUS
      <4>2. OpenFrom(t, C, b, k)
        BY <2>2, <4>1, BracketOpenNext
      <4>3. b \in C /\ t[b] = "("
        BY <4>1, <4>2, BracketOpenIs
      <4> QED  BY <4>2, <4>3 DEF Bracket
    <3>2. b # k
      BY <3>1 DEF Bracket
    <3>3. b \in 1..(k - 1)
      BY <3>2
    <3>4. PICK s \in 1..n : b = OpensAt(stack, s)
      BY <1>2, <3>1, <3>3 DEF Nested
    <3>5. s # n
      BY <1>3, <2>2, <3>4 DEF Closed
    <3>6. s \in 1..(n - 1)
      BY <3>5
    <3> QED  BY <2>1, <3>4, <3>6
  <2>3. \A s, p \in 1..(n - 1) : s < p => next[s].open < next[p].open
    BY <1>5, <2>1 DEF Nested
  <2>4. \A s \in 1..(n - 1) : /\ OpensAt(next, s) \in 1..k /\ OpenFrom(t, C, OpensAt(next, s), k + 1)
                              /\ Deep(t, C, OpensAt(next, s), k) = (n - 1) - s + 1
    BY <1>4, <2>1
  <2> QED  BY <1>5, <2>2, <2>3, <2>4 DEF Nested
<1> QED  BY <1>3, <1>4, <1>5

LEMMA CommaApart == Comma # "(" /\ Comma # ")"
BY Zenon DEF Comma

LEMMA SeparatedSame ==
  ASSUME NEW t, NEW C, NEW stack \in Seq(Level), NEW k \in Nat \ {0},
         \A s \in 1..Len(stack) : OpensAt(stack, s) \in 1..k,
         Separated(t, C, stack, k - 1), ~(k \in C /\ t[k] = Comma)
  PROVE  Separated(t, C, stack, k)
<1> SUFFICES ASSUME NEW s \in 1..Len(stack), NEW x \in Nat
             PROVE  x \in Range(stack[s].commas)
                      <=> x + 1 \in OpensAt(stack, s) .. k /\ OwnComma(t, C, OpensAt(stack, s), x + 1)
  BY DEF Separated
<1>1. x \in Range(stack[s].commas)
        <=> x + 1 \in OpensAt(stack, s) .. k - 1 /\ OwnComma(t, C, OpensAt(stack, s), x + 1)
  BY DEF Separated
<1>2. OwnComma(t, C, OpensAt(stack, s), x + 1) => x + 1 # k
  BY DEF OwnComma
<1>3. PICK b \in 1..k : b = OpensAt(stack, s)
  OBVIOUS
<1>4. x + 1 # k => (x + 1 \in b .. k - 1 <=> x + 1 \in b..k)
  OBVIOUS
<1>5. x + 1 \in b .. k - 1 => x + 1 \in b..k
  OBVIOUS
<1> QED  BY <1>1, <1>2, <1>3, <1>4, <1>5

(* What is true of the levels of a stack is true of those of its beginning.  *)
LEMMA SeparatedFront ==
  ASSUME NEW t, NEW C, NEW stack \in Seq(Level), NEW next \in Seq(Level), NEW k, Separated(t, C, stack, k),
         Len(next) <= Len(stack), \A s \in 1..Len(next) : next[s] = stack[s]
  PROVE  Separated(t, C, next, k)
<1>1. PICK n \in Nat, m \in Nat : n = Len(stack) /\ m = Len(next)
  OBVIOUS
<1>2. \A s \in 1..m : s \in 1..n /\ next[s] = stack[s] /\ OpensAt(next, s) = OpensAt(stack, s)
  BY <1>1 DEF OpensAt
<1> QED  BY <1>1, <1>2 DEF Separated

LEMMA SeparatedPush ==
  ASSUME NEW t, NEW C, NEW stack \in Seq(Level), NEW k \in Nat \ {0}, Separated(t, C, stack, k),
         Bracket(t, C, k), NEW level \in Level, level.open = k - 1, level.commas = <<>>
  PROVE  Separated(t, C, Append(stack, level), k)
<1>1. PICK n \in Nat : n = Len(stack)
  OBVIOUS
<1> DEFINE next == Append(stack, level)
<1>2. Len(next) = n + 1 /\ next[n + 1] = level /\ \A s \in 1..n : next[s] = stack[s]
  BY <1>1
<1> HIDE DEF next
<1>3. ASSUME NEW s \in 1..(n + 1), NEW x \in Nat
      PROVE  x \in Range(next[s].commas) <=> x + 1 \in OpensAt(next, s) .. k /\ OwnComma(t, C, OpensAt(next, s), x + 1)
  <2>1. CASE s = n + 1
    <3>1. OpensAt(next, s) = k /\ next[s].commas = <<>>
      BY <1>2, <2>1 DEF OpensAt
    <3>2. x \notin Range(<<>>)
      BY DEF Range
    <3>3. x + 1 \in k..k => x + 1 = k
      OBVIOUS
    <3>4. ~OwnComma(t, C, k, k)
      BY CommaApart DEF OwnComma, Bracket
    <3> QED  BY <3>1, <3>2, <3>3, <3>4
  <2>2. CASE s # n + 1
    <3>1. s \in 1..n /\ next[s] = stack[s] /\ OpensAt(next, s) = OpensAt(stack, s)
      BY <1>2, <2>2 DEF OpensAt
    <3> QED  BY <1>1, <3>1 DEF Separated
  <2> QED  BY <2>1, <2>2
<1>4. Separated(t, C, next, k)
  BY <1>2, <1>3 DEF Separated
<1> QED  BY <1>4 DEF next

LEMMA RangeAppend ==
  ASSUME NEW S, NEW q \in Seq(S), NEW x \in S
  PROVE  Range(Append(q, x)) = Range(q) \cup {x}
<1>1. PICK n \in Nat : n = Len(q)
  OBVIOUS
<1>2. PICK a \in Seq(S) : a = Append(q, x)
  BY AppendProperties
<1>3. Len(a) = n + 1 /\ a[n + 1] = x /\ \A i \in 1..n : a[i] = q[i]
  BY <1>1, <1>2
<1>4. DOMAIN a = 1..(n + 1) /\ DOMAIN q = 1..n
  BY <1>1, <1>3
<1>5. \A y : y \in Range(a) <=> y \in Range(q) \/ y = x
  <2>1. \A i : i \in 1..(n + 1) <=> i \in 1..n \/ i = n + 1
    OBVIOUS
  <2> QED  BY <1>3, <1>4, <2>1 DEF Range
<1> QED  BY <1>2, <1>5

LEMMA NextBehind ==
  ASSUME NEW k \in Nat \ {0}, NEW b \in 1..(k - 1), NEW p \in Nat, NEW q \in Nat, p < q, b = q + 1
  PROVE  b \in (p + 1) + 1 .. k
OBVIOUS

LEMMA SeparatedComma ==
  ASSUME NEW t, NEW C, NEW stack \in Seq(Level), NEW k \in Nat \ {0}, Nested(t, C, stack, k - 1),
         Separated(t, C, stack, k - 1), k \in C, t[k] = Comma, NEW n \in Nat, n = Len(stack), n > 0,
         NEW next \in Seq(Level), Len(next) = n, \A s \in 1..n : next[s].open = stack[s].open,
         \A s \in 1..(n - 1) : next[s].commas = stack[s].commas,
         next[n].commas = Append(stack[n].commas, k - 1)
  PROVE  Separated(t, C, next, k)
<1>1. (k - 1) + 1 = k /\ k - 1 \in Nat /\ n \in 1..n
  OBVIOUS
<1>2. \A s \in 1..n : /\ OpensAt(stack, s) \in 1..(k - 1) /\ OpenFrom(t, C, OpensAt(stack, s), k)
                      /\ OpensAt(next, s) = OpensAt(stack, s)
  BY <1>1 DEF Nested, OpensAt
<1>3. PICK b \in 1..(k - 1) : b = OpensAt(stack, n)
  BY <1>1, <1>2
<1>4. OwnComma(t, C, b, k)
  <2> SUFFICES ASSUME NEW i \in b + 1 .. k, OpenFrom(t, C, i, k) PROVE FALSE
    BY DEF OwnComma
  <2>1. CASE i = k
    BY <2>1, OpenItself, CommaApart
  <2>2. CASE i # k
    <3>1. i \in 1..(k - 1) /\ i > b
      BY <2>2
    <3>2. PICK s \in 1..n : i = OpensAt(stack, s)
      BY <1>1, <3>1 DEF Nested
    <3>3. stack[s].open \in Nat /\ stack[n].open \in Nat
      <4>1. stack[s] \in Level /\ stack[n] \in Level
        BY <1>1
      <4> QED  BY <4>1 DEF Level
    <3>4. s < n => stack[s].open < stack[n].open
      BY <1>1 DEF Nested
    <3> QED  BY <1>3, <3>1, <3>2, <3>3, <3>4 DEF OpensAt
  <2> QED  BY <2>1, <2>2
<1>5. ASSUME NEW s \in 1..(n - 1) PROVE ~OwnComma(t, C, OpensAt(stack, s), k)
  <2>1. s \in 1..n
    OBVIOUS
  <2>2. stack[s].open < stack[n].open
    <3>1. s < n
      OBVIOUS
    <3> QED  BY <1>1, <2>1, <3>1 DEF Nested
  <2>3. stack[s].open \in Nat /\ stack[n].open \in Nat
    <3>1. stack[s] \in Level /\ stack[n] \in Level
      BY <1>1, <2>1
    <3> QED  BY <3>1 DEF Level
  <2>4. b \in OpensAt(stack, s) + 1 .. k
    <3>1. PICK p \in Nat, q \in Nat : p = stack[s].open /\ q = stack[n].open /\ p < q
      BY <2>2, <2>3
    <3>2. b = q + 1 /\ OpensAt(stack, s) = p + 1
      BY <1>3, <3>1 DEF OpensAt
    <3>3. b \in (p + 1) + 1 .. k
      BY <3>1, <3>2, NextBehind
    <3> QED  BY <3>2, <3>3
  <2>5. OpenFrom(t, C, b, k)
    BY <1>1, <1>2, <1>3
  <2> QED  BY <2>4, <2>5 DEF OwnComma
<1>6. ASSUME NEW s \in 1..n, NEW x \in Nat
      PROVE  x \in Range(stack[s].commas)
               <=> x + 1 \in OpensAt(stack, s) .. k - 1 /\ OwnComma(t, C, OpensAt(stack, s), x + 1)
  BY DEF Separated
<1>7. ASSUME NEW s \in 1..n, NEW x \in Nat
      PROVE  x \in Range(next[s].commas)
               <=> x + 1 \in OpensAt(next, s) .. k /\ OwnComma(t, C, OpensAt(next, s), x + 1)
  <2>1. PICK o \in 1..(k - 1) : o = OpensAt(stack, s) /\ o = OpensAt(next, s)
    BY <1>2
  <2>2. x + 1 \in o..k <=> x + 1 \in o .. k - 1 \/ x = k - 1
    BY <2>1
  <2>3. x = k - 1 => x + 1 = k /\ x + 1 \notin o .. k - 1
    OBVIOUS
  <2>4. x \in Range(stack[s].commas) <=> x + 1 \in o .. k - 1 /\ OwnComma(t, C, o, x + 1)
    BY <1>6, <2>1
  <2>5. CASE s = n
    <3>1. stack[n] \in Level /\ stack[n].commas \in Seq(Nat)
      <4>1. stack[n] \in Level
        BY <1>1
      <4> QED  BY <4>1 DEF Level
    <3>2. Range(Append(stack[n].commas, k - 1)) = Range(stack[n].commas) \cup {k - 1}
      <4>1. PICK q \in Seq(Nat), y \in Nat : q = stack[n].commas /\ y = k - 1
        BY <1>1, <3>1
      <4>2. Range(Append(q, y)) = Range(q) \cup {y}
        BY RangeAppend
      <4> QED  BY <4>1, <4>2
    <3>3. x \in Range(next[n].commas) <=> x \in Range(stack[n].commas) \/ x = k - 1
      BY <3>2
    <3> QED  BY <1>3, <1>4, <2>1, <2>2, <2>3, <2>4, <2>5, <3>3
  <2>6. CASE s # n
    <3>1. s \in 1..(n - 1)
      BY <2>6
    <3>2. ~OwnComma(t, C, o, k) /\ next[s].commas = stack[s].commas
      BY <1>5, <2>1, <3>1
    <3> QED  BY <2>1, <2>2, <2>3, <2>4, <3>2
  <2> QED  BY <2>5, <2>6
<1> QED  BY <1>7 DEF Separated

(* What is found when the innermost bracket closes.                         *)
LEMMA ListIs ==
  ASSUME NEW t, NEW C, NEW stack \in Seq(Level), NEW k \in Nat \ {0}, Separated(t, C, stack, k - 1),
         NEW s \in 1..Len(stack), OpensAt(stack, s) \in 1..k, t[k] = ")"
  PROVE  AsSet([open |-> stack[s].open, close |-> k - 1, separators |-> stack[s].commas])
           = ListOf(t, C, <<OpensAt(stack, s), k>>)
<1>1. stack[s] \in Level
  OBVIOUS
<1>2. stack[s].open \in Nat /\ stack[s].commas \in Seq(Nat)
  BY <1>1 DEF Level
<1>3. PICK b \in 1..k : b = OpensAt(stack, s) /\ b - 1 = stack[s].open
  BY <1>2 DEF OpensAt
<1> DEFINE own == {j \in C : /\ j \in b..k /\ t[j] = Comma /\ \A i \in b + 1 .. j : ~OpenFrom(t, C, i, j)}
<1>4. ListOf(t, C, <<b, k>>) = [open |-> b - 1, close |-> k - 1, commas |-> {j - 1 : j \in own}]
  BY DEF ListOf
<1>5. Range(stack[s].commas) = {j - 1 : j \in own}
  <2>1. ASSUME NEW x, x \in Range(stack[s].commas) PROVE x \in {j - 1 : j \in own}
    <3>1. x \in Nat
      BY <1>2, <2>1 DEF Range
    <3>2. x + 1 \in b .. k - 1 /\ OwnComma(t, C, b, x + 1)
      BY <1>3, <2>1, <3>1 DEF Separated
    <3>3. x + 1 \in own /\ (x + 1) - 1 = x
      BY <3>1, <3>2 DEF OwnComma
    <3> HIDE DEF own
    <3> QED  BY <3>3
  <2>2. ASSUME NEW j \in own PROVE j - 1 \in Range(stack[s].commas)
    <3>1. j \in b..k /\ OwnComma(t, C, b, j)
      BY DEF OwnComma
    <3>2. j # k
      BY <3>1, CommaApart DEF OwnComma
    <3>3. PICK x \in Nat : x = j - 1
      BY <3>1
    <3>4. x + 1 = j /\ x + 1 \in b .. k - 1
      BY <3>1, <3>2, <3>3
    <3> HIDE DEF own
    <3>5. x \in Range(stack[s].commas)
      BY <1>3, <3>1, <3>4 DEF Separated
    <3> QED  BY <3>3, <3>5
  <2> HIDE DEF own
  <2> QED  BY <2>1, <2>2
<1> HIDE DEF own
<1> QED  BY <1>3, <1>4, <1>5 DEF AsSet

(* What a lexeme of the code does to the search for the list.               *)
Find == [open : Int, close : Int, separators : Seq(Nat)]
Searching == [stack : Seq(Level), found : Find]

LEMMA VisitFound ==
  ASSUME NEW r, r.found.close # -1, NEW t, NEW i, NEW pos
  PROVE  ListVisit(r, t, i, pos) = r
BY DEF ListVisit

LEMMA VisitOpen ==
  ASSUME NEW r \in Searching, r.found.close = -1, NEW t, NEW i \in Nat \ {0}, t[i] = "(", NEW pos
  PROVE  /\ [open |-> i - 1, commas |-> <<>>] \in Level
         /\ ListVisit(r, t, i, pos)
              = [stack |-> Append(r.stack, [open |-> i - 1, commas |-> <<>>]), found |-> r.found]
<1>1. [open |-> i - 1, commas |-> <<>>] \in Level
  BY DEF Level
<1>2. t[i] # ")" /\ t[i] # Comma
  BY CommaApart
<1>3. ListVisit(r, t, i, pos) = [r EXCEPT !.stack = Append(@, [open |-> i - 1, commas |-> <<>>])]
  BY <1>2 DEF ListVisit
<1> QED  BY <1>1, <1>3 DEF Searching

LEMMA VisitClose ==
  ASSUME NEW r \in Searching, r.found.close = -1, NEW t, NEW i \in Nat \ {0}, t[i] = ")", NEW pos,
         NEW n \in Nat, n = Len(r.stack), n > 0
  PROVE  ListVisit(r, t, i, pos)
           = IF IsMatch(r.stack[n].open, n, pos, i - 1)
             THEN [stack |-> r.stack, found |-> [open |-> r.stack[n].open, close |-> i - 1,
                                                 separators |-> r.stack[n].commas]]
             ELSE [stack |-> Front(r.stack), found |-> r.found]
<1>1. t[i] # "(" /\ t[i] # Comma
  BY CommaApart
<1>2. r.stack \in Seq(Level) /\ Last(r.stack) = r.stack[n]
  <2>1. r.stack \in Seq(Level) /\ r.stack # <<>>
    BY DEF Searching
  <2> QED  BY <2>1, FrontIs
<1>3. ListVisit(r, t, i, pos)
        = IF IsMatch(r.stack[n].open, n, pos, i - 1)
          THEN [r EXCEPT !.found = [open |-> r.stack[n].open, close |-> i - 1,
                                    separators |-> r.stack[n].commas]]
          ELSE [r EXCEPT !.stack = Front(@)]
  BY <1>1, <1>2 DEF ListVisit
<1> QED  BY <1>3 DEF Searching

LEMMA LevelWith ==
  ASSUME NEW level \in Level, NEW d \in Seq(Nat)
  PROVE  [level EXCEPT !.commas = d] = [open |-> level.open, commas |-> d]
BY DEF Level

WithComma(stack, n, x) ==
    [stack EXCEPT ![n] = [open |-> stack[n].open, commas |-> Append(stack[n].commas, x)]]

LEMMA VisitComma ==
  ASSUME NEW r \in Searching, r.found.close = -1, NEW t, NEW i \in Nat \ {0}, t[i] = Comma, NEW pos,
         NEW n \in Nat, n = Len(r.stack), n > 0
  PROVE  ListVisit(r, t, i, pos) = [stack |-> WithComma(r.stack, n, i - 1), found |-> r.found]
<1>1. t[i] # "(" /\ t[i] # ")"
  BY CommaApart
<1>2. r.stack \in Seq(Level) /\ n \in 1..Len(r.stack) /\ r.stack[n] \in Level
  <2>1. r.stack \in Seq(Level) /\ n \in 1..Len(r.stack)
    BY DEF Searching
  <2> QED  BY <2>1
<1>3. ListVisit(r, t, i, pos) = [r EXCEPT !.stack[n].commas = Append(@, i - 1)]
  BY <1>1 DEF ListVisit
<1>4. [r EXCEPT !.stack[n].commas = Append(@, i - 1)]
        = [r EXCEPT !.stack = [r.stack EXCEPT ![n] = [r.stack[n] EXCEPT !.commas = Append(@, i - 1)]]]
  BY <1>2 DEF Searching
<1>5. [r.stack[n] EXCEPT !.commas = Append(@, i - 1)]
        = [open |-> r.stack[n].open, commas |-> Append(r.stack[n].commas, i - 1)]
  <2>1. PICK d : d = Append(r.stack[n].commas, i - 1)
    OBVIOUS
  <2>2. [r.stack[n] EXCEPT !.commas = d] = [open |-> r.stack[n].open, commas |-> d]
    <3>1. r.stack[n].commas \in Seq(Nat) /\ i - 1 \in Nat
      BY <1>2 DEF Level
    <3>2. d \in Seq(Nat)
      BY <2>1, <3>1
    <3> QED  BY <1>2, <3>2, LevelWith
  <2>3. [r.stack[n] EXCEPT !.commas = Append(@, i - 1)] = [r.stack[n] EXCEPT !.commas = d]
    BY <2>1, Zenon
  <2> QED  BY <2>1, <2>2, <2>3
<1> QED  BY <1>3, <1>4, <1>5 DEF Searching, WithComma

LEMMA VisitOther ==
  ASSUME NEW r, NEW t, NEW i, NEW pos, t[i] # "(",
         t[i] \in {")", Comma} => ~(Len(r.stack) > 0)
  PROVE  ListVisit(r, t, i, pos) = r
BY DEF ListVisit

LEMMA OpenEarlier ==
  ASSUME NEW t, NEW C, NEW b \in Nat, NEW j \in Nat, NEW i \in Nat, i <= j, OpenFrom(t, C, b, j)
  PROVE  OpenFrom(t, C, b, i)
<1>1. \A m \in b .. i - 1 : m \in b .. j - 1
  OBVIOUS
<1> QED  BY <1>1, BracketOpenIs

LEMMA PairIs ==
  ASSUME NEW t, NEW C, C \subseteq Nat \ {0}, NEW p \in Pairs(t, C)
  PROVE  /\ p[1] \in Nat \ {0} /\ p[2] \in Nat \ {0} /\ p[1] < p[2] /\ p[1] \in C /\ p[2] \in C
         /\ p = <<p[1], p[2]>> /\ Closed(t, C, p[1], p[2]) /\ t[p[2]] = ")"
<1>1. p \in C \X C /\ p[1] < p[2] /\ Closed(t, C, p[1], p[2])
  BY DEF Pairs, Closed
<1>2. PICK b \in C, k \in C : p[1] = b /\ p[2] = k /\ p = <<b, k>>
  <2>1. PICK b \in C, k \in C : p = <<b, k>>
    <3>1. p \in C \X C
      BY <1>1
    <3>2. p = <<p[1], p[2]>> /\ p[1] \in C /\ p[2] \in C
      BY <3>1
    <3> QED  BY <3>2
  <2>2. p[1] = b /\ p[2] = k
    BY <2>1
  <2> QED  BY <2>1, <2>2
<1>3. b \in Nat \ {0} /\ k \in Nat \ {0} /\ b < k /\ k - 1 \in b .. k - 1
  BY <1>1, <1>2
<1>4. OpenFrom(t, C, b, k) /\ ~OpenFrom(t, C, b, k + 1)
  BY <1>1, <1>2 DEF Closed
<1>5. Deep(t, C, b, k - 1) > 0
  BY <1>3, <1>4, BracketOpenIs
<1>6. ~(Deep(t, C, b, k) > 0)
  BY <1>3, <1>4, BracketOpenNext
<1>7. t[k] = ")"
  <2>1. /\ Deep(t, C, b, k - 1) \in Int /\ Deep(t, C, b, k) \in Int
        /\ k \in C /\ t[k] = "(" => Deep(t, C, b, k) = Deep(t, C, b, k - 1) + 1
        /\ ~(k \in C /\ t[k] \in {"(", ")"}) => Deep(t, C, b, k) = Deep(t, C, b, k - 1)
    BY <1>3, DeepNext
  <2> QED  BY <1>2, <1>5, <1>6, <2>1
<1> QED  BY <1>1, <1>2, <1>3, <1>7

(* What is known in the middle of the search.                               *)
Around(p, pos) == p[1] <= pos /\ pos < p[2]
Answer(t, C, pos, found) ==
    \E p \in Pairs(t, C) :
        /\ AsSet(found) = ListOf(t, C, p)
        /\ pos >= 0 => Around(p, pos) /\ \A q \in Pairs(t, C) : Around(q, pos) => q[2] - q[1] >= p[2] - p[1]
        /\ pos < 0 => \A b \in C : t[b] = "(" => p[1] <= b
Looking(t, C, pos, i, stack) ==
    /\ Nested(t, C, stack, i) /\ Separated(t, C, stack, i)
    /\ pos >= 0 => \A p \in Pairs(t, C) : p[2] <= i => ~Around(p, pos)
    /\ pos < 0 => \A b \in 1..i : Bracket(t, C, b) => stack # <<>> /\ OpensAt(stack, 1) <= b
Looked(t, C, pos, i, r) ==
    /\ r \in Searching
    /\ r.found.close = -1 => Looking(t, C, pos, i, r.stack)
    /\ r.found.close # -1 => Answer(t, C, pos, r.found)

(* A stack with the same brackets.                                          *)
LEMMA NestedOpens ==
  ASSUME NEW t, NEW C, NEW stack \in Seq(Level), NEW next \in Seq(Level), NEW i, Nested(t, C, stack, i),
         Len(next) = Len(stack), \A s \in 1..Len(stack) : next[s].open = stack[s].open
  PROVE  Nested(t, C, next, i)
<1>1. PICK n \in Nat : n = Len(stack) /\ n = Len(next)
  OBVIOUS
<1>2. \A s \in 1..n : OpensAt(next, s) = OpensAt(stack, s) /\ next[s].open = stack[s].open
  BY <1>1 DEF OpensAt
<1>3. \A s \in 1..n : /\ OpensAt(next, s) \in 1..i /\ OpenFrom(t, C, OpensAt(next, s), i + 1)
                       /\ Deep(t, C, OpensAt(next, s), i) = n - s + 1
  BY <1>1, <1>2 DEF Nested
<1>4. \A s, p \in 1..n : s < p => next[s].open < next[p].open
  BY <1>1, <1>2 DEF Nested
<1>5. \A b \in 1..i : OpenFrom(t, C, b, i + 1) => \E s \in 1..n : b = OpensAt(next, s)
  BY <1>1, <1>2 DEF Nested
<1> QED  BY <1>1, <1>3, <1>4, <1>5 DEF Nested

LEMMA LookSame ==
  ASSUME NEW t, NEW C, C \subseteq Nat \ {0}, NEW pos \in Int, NEW k \in Nat \ {0}, ~(k \in C /\ t[k] \in {"(", ")"}),
         NEW stack \in Seq(Level), Looking(t, C, pos, k - 1, stack),
         NEW next \in Seq(Level), Len(next) = Len(stack), \A s \in 1..Len(stack) : next[s].open = stack[s].open,
         Separated(t, C, next, k)
  PROVE  Looking(t, C, pos, k, next)
<1>1. Nested(t, C, next, k)
  <2>1. Nested(t, C, stack, k)
    BY NestedSame DEF Looking
  <2> QED  BY <2>1, NestedOpens
<1>2. ASSUME pos >= 0, NEW p \in Pairs(t, C), p[2] <= k PROVE ~Around(p, pos)
  <2>1. p[2] \in Nat /\ p[2] # k
    BY PairIs
  <2>2. p[2] <= k - 1
    BY <1>2, <2>1
  <2> QED  BY <1>2, <2>2 DEF Looking
<1>3. ASSUME pos < 0, NEW b \in 1..k, Bracket(t, C, b) PROVE next # <<>> /\ OpensAt(next, 1) <= b
  <2>1. b \in 1 .. k - 1
    BY <1>3 DEF Bracket
  <2>2. stack # <<>> /\ OpensAt(stack, 1) <= b
    BY <1>3, <2>1 DEF Looking
  <2>3. 1 \in 1..Len(stack) /\ next # <<>>
    BY <2>2
  <2> QED  BY <2>2, <2>3 DEF OpensAt
<1> QED  BY <1>1, <1>2, <1>3 DEF Looking

LEMMA LookOpen ==
  ASSUME NEW t, NEW C, C \subseteq Nat \ {0}, NEW pos \in Int, NEW k \in Nat \ {0}, k \in C, t[k] = "(",
         NEW stack \in Seq(Level), Looking(t, C, pos, k - 1, stack),
         NEW level \in Level, level.open = k - 1, level.commas = <<>>
  PROVE  Looking(t, C, pos, k, Append(stack, level))
<1>1. Bracket(t, C, k) /\ Nested(t, C, stack, k - 1)
  BY DEF Bracket, Looking
<1>2. Nested(t, C, Append(stack, level), k)
  BY <1>1, NestedPush
<1>3. Separated(t, C, Append(stack, level), k)
  <2>1. \A s \in 1..Len(stack) : OpensAt(stack, s) \in 1..k
    <3>1. \A b \in 1 .. k - 1 : b \in 1..k
      OBVIOUS
    <3> QED  BY <1>1, <3>1 DEF Nested
  <2>2. Separated(t, C, stack, k)
    BY <2>1, SeparatedSame, CommaApart DEF Looking
  <2> QED  BY <1>1, <2>2, SeparatedPush
<1>4. ASSUME pos >= 0, NEW p \in Pairs(t, C), p[2] <= k PROVE ~Around(p, pos)
  <2>1. p[2] \in Nat /\ p[2] # k
    BY PairIs
  <2>2. p[2] <= k - 1
    BY <1>4, <2>1
  <2> QED  BY <1>4, <2>2 DEF Looking
<1>5. ASSUME pos < 0, NEW b \in 1..k, Bracket(t, C, b)
      PROVE  Append(stack, level) # <<>> /\ OpensAt(Append(stack, level), 1) <= b
  <2>1. Append(stack, level) # <<>>
    OBVIOUS
  <2>2. CASE stack = <<>>
    <3>1. b = k
      <4>1. b \notin 1 .. k - 1
        BY <1>5, <2>2 DEF Looking
      <4> QED  BY <4>1
    <3>2. Append(stack, level)[1] = level
      BY <2>2
    <3> QED  BY <2>1, <3>1, <3>2 DEF OpensAt
  <2>3. CASE stack # <<>>
    <3>1. Append(stack, level)[1] = stack[1] /\ 1 \in 1..Len(stack)
      BY <2>3
    <3>2. OpensAt(stack, 1) \in 1 .. k - 1
      BY <1>1, <3>1 DEF Nested
    <3>3. OpensAt(stack, 1) <= b
      <4>1. CASE b \in 1 .. k - 1
        BY <1>5, <4>1 DEF Looking
      <4>2. CASE b \notin 1 .. k - 1
        BY <3>2, <4>2
      <4> QED  BY <4>1, <4>2
    <3> QED  BY <2>1, <3>1, <3>3 DEF OpensAt
  <2> QED  BY <2>2, <2>3
<1> QED  BY <1>2, <1>3, <1>4, <1>5 DEF Looking

(* The pair that closes at k is that of the innermost bracket.              *)
EndsAt(t, C, b, k) == \A p \in Pairs(t, C) : p[2] = k => p[1] = b

LEMMA PairAtEnd ==
  ASSUME NEW t, NEW C, C \subseteq Nat \ {0}, NEW k \in Nat \ {0}, k \in C, t[k] = ")",
         NEW stack \in Seq(Level), Nested(t, C, stack, k - 1), NEW n \in Nat, n = Len(stack), n > 0
  PROVE  EndsAt(t, C, OpensAt(stack, n), k)
<1> SUFFICES ASSUME NEW p \in Pairs(t, C), p[2] = k PROVE p[1] = OpensAt(stack, n)
  BY DEF EndsAt
<1>1. p[1] \in 1 .. k - 1 /\ OpenFrom(t, C, p[1], k) /\ ~OpenFrom(t, C, p[1], k + 1)
  <2>1. p[1] \in Nat \ {0} /\ p[1] < k
    BY PairIs
  <2>2. Closed(t, C, p[1], k)
    BY PairIs
  <2> QED  BY <2>1, <2>2 DEF Closed
<1>2. (k - 1) + 1 = k
  OBVIOUS
<1>3. PICK s \in 1..n : p[1] = OpensAt(stack, s)
  BY <1>1, <1>2 DEF Nested
<1>4. s \notin 1..(n - 1)
  <2>1. \A z \in 1..(n - 1) : OpenFrom(t, C, OpensAt(stack, z), k + 1)
    BY NestedPop
  <2> QED  BY <1>1, <1>3, <2>1
<1>5. s = n
  BY <1>4
<1> QED  BY <1>3, <1>5

LEMMA LookPop ==
  ASSUME NEW t, NEW C, C \subseteq Nat \ {0}, NEW pos \in Int, NEW k \in Nat \ {0}, k \in C, t[k] = ")",
         NEW stack \in Seq(Level), Looking(t, C, pos, k - 1, stack), NEW n \in Nat, n = Len(stack), n > 0,
         ~IsMatch(stack[n].open, n, pos, k - 1),
         NEW next \in Seq(Level), Len(next) = n - 1, \A s \in 1..(n - 1) : next[s] = stack[s]
  PROVE  Looking(t, C, pos, k, next)
<1>1. Nested(t, C, stack, k - 1)
  BY DEF Looking
<1>2. Nested(t, C, next, k)
  BY <1>1, NestedPop
<1>3. \A s \in 1..n : OpensAt(stack, s) \in 1 .. k - 1
  BY <1>1 DEF Nested
<1>4. Separated(t, C, next, k)
  <2>1. \A s \in 1..Len(stack) : OpensAt(stack, s) \in 1..k
    <3>1. \A b \in 1 .. k - 1 : b \in 1..k
      OBVIOUS
    <3> QED  BY <1>3, <3>1
  <2>2. Separated(t, C, stack, k)
    BY <2>1, SeparatedSame, CommaApart DEF Looking
  <2>3. Len(next) <= Len(stack) /\ \A s \in 1..Len(next) : next[s] = stack[s]
    OBVIOUS
  <2> QED  BY <2>2, <2>3, SeparatedFront
<1>7. \A q \in Pairs(t, C) : q[2] = k => q[1] = OpensAt(stack, n)
  <2>1. EndsAt(t, C, OpensAt(stack, n), k)
    BY <1>1, PairAtEnd
  <2> QED  BY <2>1 DEF EndsAt
<1>5. ASSUME pos >= 0, NEW p \in Pairs(t, C), p[2] <= k PROVE ~Around(p, pos)
  <2>1. p[2] \in Nat
    BY PairIs
  <2>2. CASE p[2] # k
    <3>1. p[2] <= k - 1
      BY <1>5, <2>1, <2>2
    <3> QED  BY <1>5, <3>1 DEF Looking
  <2>3. CASE p[2] = k
    <3>1. p[1] = OpensAt(stack, n)
      BY <2>3, <1>7
    <3>2. ~(pos > stack[n].open /\ pos <= k - 1)
      BY <1>5 DEF IsMatch
    <3>3. stack[n].open \in Nat
      <4>1. stack[n] \in Level
        OBVIOUS
      <4> QED  BY <4>1 DEF Level
    <3>4. PICK o \in Nat : o = stack[n].open /\ p[1] = o + 1
      BY <3>1, <3>3 DEF OpensAt
    <3>5. ~(o + 1 <= pos /\ pos < k)
      BY <3>2, <3>4
    <3> QED  BY <2>3, <3>4, <3>5 DEF Around
  <2> QED  BY <2>2, <2>3
<1>6. ASSUME pos < 0, NEW b \in 1..k, Bracket(t, C, b) PROVE next # <<>> /\ OpensAt(next, 1) <= b
  <2>1. b \in 1 .. k - 1
    BY <1>6 DEF Bracket
  <2>2. OpensAt(stack, 1) <= b
    BY <1>6, <2>1 DEF Looking
  <2>3. n # 1
    BY <1>6 DEF IsMatch
  <2>4. next # <<>> /\ next[1] = stack[1]
    BY <2>3
  <2> QED  BY <2>2, <2>4 DEF OpensAt
<1> QED  BY <1>2, <1>4, <1>5, <1>6 DEF Looking

LEMMA LookMatch ==
  ASSUME NEW t, NEW C, C \subseteq Nat \ {0}, NEW pos \in Int, NEW k \in Nat \ {0}, k \in C, t[k] = ")",
         NEW stack \in Seq(Level), Looking(t, C, pos, k - 1, stack), NEW n \in Nat, n = Len(stack), n > 0,
         IsMatch(stack[n].open, n, pos, k - 1)
  PROVE  Answer(t, C, pos, [open |-> stack[n].open, close |-> k - 1, separators |-> stack[n].commas])
<1>1. Nested(t, C, stack, k - 1) /\ Separated(t, C, stack, k - 1)
  BY DEF Looking
<1>2. stack[n].open \in Nat
  <2>1. stack[n] \in Level
    OBVIOUS
  <2> QED  BY <2>1 DEF Level
<1>3. OpensAt(stack, n) \in 1 .. k - 1
  BY <1>1 DEF Nested
<1>4. PICK b \in 1 .. k - 1 : b = OpensAt(stack, n) /\ b - 1 = stack[n].open
  BY <1>2, <1>3 DEF OpensAt
<1>5. Closed(t, C, b, k) /\ b \in C
  <2>1. Closed(t, C, b, k)
    BY <1>1, <1>4, NestedPop
  <2> QED  BY <2>1 DEF Closed, OpenFrom
<1> DEFINE p == <<b, k>>
<1>6. p \in Pairs(t, C) /\ p[1] = b /\ p[2] = k
  <2>1. p \in C \X C /\ p[1] = b /\ p[2] = k /\ b < k
    BY <1>5
  <2> QED  BY <1>5, <2>1 DEF Pairs, Closed
<1>7. AsSet([open |-> stack[n].open, close |-> k - 1, separators |-> stack[n].commas]) = ListOf(t, C, p)
  <2>1. n \in 1..Len(stack) /\ OpensAt(stack, n) \in 1..k
    BY <1>4
  <2> QED  BY <1>1, <1>4, <2>1, ListIs
<1> HIDE DEF p
<1>8. ASSUME pos >= 0
      PROVE  Around(p, pos) /\ \A q \in Pairs(t, C) : Around(q, pos) => q[2] - q[1] >= p[2] - p[1]
  <2>1. pos > b - 1 /\ pos <= k - 1
    BY <1>4, <1>8 DEF IsMatch
  <2>2. Around(p, pos)
    BY <1>6, <2>1 DEF Around
  <2>3. ASSUME NEW q \in Pairs(t, C), Around(q, pos) PROVE q[2] - q[1] >= p[2] - p[1]
    <3>1. PICK u \in Nat \ {0}, v \in Nat \ {0} : u = q[1] /\ v = q[2] /\ u < v
      BY PairIs
    <3>2. v >= k
      <4>1. ~(v <= k - 1)
        BY <1>8, <2>3, <3>1 DEF Looking
      <4> QED  BY <3>1, <4>1
    <3>3. u \in 1 .. k - 1 /\ u <= k
      BY <2>1, <2>3, <3>1 DEF Around
    <3>4. OpenFrom(t, C, u, k)
      <4>1. OpenFrom(t, C, u, v)
        BY <3>1, PairIs DEF Closed
      <4> QED  BY <3>1, <3>2, <4>1, OpenEarlier
    <3>5. (k - 1) + 1 = k
      OBVIOUS
    <3>6. PICK s \in 1..n : u = OpensAt(stack, s)
      BY <1>1, <3>3, <3>4, <3>5 DEF Nested
    <3>7. stack[s].open \in Nat
      <4>1. stack[s] \in Level
        OBVIOUS
      <4> QED  BY <4>1 DEF Level
    <3>8. s < n => stack[s].open < stack[n].open
      BY <1>1 DEF Nested
    <3>9. u <= b
      <4>1. u = stack[s].open + 1
        BY <3>6 DEF OpensAt
      <4>2. CASE s = n
        BY <1>4, <3>6, <4>2
      <4>3. CASE s # n
        BY <1>2, <1>4, <3>7, <3>8, <4>1, <4>3
      <4> QED  BY <4>2, <4>3
    <3>10. v - u >= k - b
      BY <3>1, <3>2, <3>9
    <3> QED  BY <1>6, <3>1, <3>10
  <2> QED  BY <2>2, <2>3
<1>9. ASSUME pos < 0, NEW x \in C, t[x] = "(" PROVE p[1] <= x
  <2>1. n = 1
    BY <1>9 DEF IsMatch
  <2>2. x \in Nat \ {0}
    OBVIOUS
  <2>3. CASE x \in 1 .. k - 1
    <3>1. Bracket(t, C, x)
      BY <1>9 DEF Bracket
    <3>2. OpensAt(stack, 1) <= x
      BY <1>9, <2>3, <3>1 DEF Looking
    <3> QED  BY <1>4, <1>6, <2>1, <3>2
  <2>4. CASE x \notin 1 .. k - 1
    BY <1>6, <2>2, <2>4
  <2> QED  BY <2>3, <2>4
<1> QED  BY <1>6, <1>7, <1>8, <1>9 DEF Answer

(* A bracket that closes nothing.                                           *)
LEMMA LookNone ==
  ASSUME NEW t, NEW C, C \subseteq Nat \ {0}, NEW pos \in Int, NEW k \in Nat \ {0}, k \in C, t[k] = ")",
         NEW stack \in Seq(Level), Looking(t, C, pos, k - 1, stack), Len(stack) = 0
  PROVE  Looking(t, C, pos, k, stack)
<1>1. Nested(t, C, stack, k - 1) /\ (k - 1) + 1 = k
  BY DEF Looking
<1>2. ASSUME NEW b \in 1..k, OpenFrom(t, C, b, k) PROVE FALSE
  <2>1. t[b] = "("
    BY <1>2 DEF OpenFrom
  <2>2. b \in 1 .. k - 1
    BY <2>1
  <2>3. \E s \in 1..Len(stack) : b = OpensAt(stack, s)
    BY <1>1, <1>2, <2>2 DEF Nested
  <2> QED  BY <2>3
<1>3. ASSUME NEW b \in 1..k, OpenFrom(t, C, b, k + 1) PROVE FALSE
  BY <1>2, <1>3, OpenEarlier
<1>4. Nested(t, C, stack, k)
  BY <1>3 DEF Nested
<1>5. Separated(t, C, stack, k)
  BY DEF Separated
<1>6. ASSUME pos >= 0, NEW p \in Pairs(t, C), p[2] <= k PROVE ~Around(p, pos)
  <2>1. PICK u \in Nat \ {0}, v \in Nat \ {0} : u = p[1] /\ v = p[2] /\ u < v /\ OpenFrom(t, C, u, v)
    BY PairIs DEF Closed
  <2>2. v # k
    BY <1>2, <2>1
  <2>3. p[2] <= k - 1
    BY <1>6, <2>1, <2>2
  <2> QED  BY <1>6, <2>3 DEF Looking
<1>7. ASSUME pos < 0, NEW b \in 1..k, Bracket(t, C, b) PROVE stack # <<>> /\ OpensAt(stack, 1) <= b
  <2>1. b \in 1 .. k - 1
    BY <1>7 DEF Bracket
  <2> QED  BY <1>7, <2>1 DEF Looking
<1> QED  BY <1>4, <1>5, <1>6, <1>7 DEF Looking

(* What has not been found by the end is not there.                         *)
LEMMA LookEnd ==
  ASSUME NEW t, NEW C, NEW N \in Nat, C \subseteq 1..N, NEW pos \in Int,
         NEW stack \in Seq(Level), Looking(t, C, pos, N, stack), NEW p \in Pairs(t, C)
  PROVE  /\ pos >= 0 => ~Around(p, pos)
         /\ pos < 0 => \E b \in C : t[b] = "(" /\ ~(p[1] <= b)
<1>0. C \subseteq Nat \ {0}
  OBVIOUS
<1>1. p[2] \in 1..N /\ p[1] \in 1..N /\ p[1] < p[2] /\ Closed(t, C, p[1], p[2]) /\ p[1] \in C
  BY <1>0, PairIs
<1>2. pos >= 0 => ~Around(p, pos)
  BY <1>1 DEF Looking
<1>3. ASSUME pos < 0 PROVE \E b \in C : t[b] = "(" /\ ~(p[1] <= b)
  <2>1. Bracket(t, C, p[1])
    BY <1>1 DEF Closed, Bracket, OpenFrom
  <2>2. stack # <<>> /\ OpensAt(stack, 1) <= p[1]
    BY <1>1, <1>3, <2>1 DEF Looking
  <2>3. 1 \in 1..Len(stack)
    BY <2>2
  <2>4. OpensAt(stack, 1) \in 1..N /\ OpenFrom(t, C, OpensAt(stack, 1), N + 1)
    BY <2>3 DEF Looking, Nested
  <2>5. PICK b \in 1..N : b = OpensAt(stack, 1) /\ OpenFrom(t, C, b, N + 1)
    BY <2>4
  <2>6. b \in C /\ t[b] = "("
    BY <2>5 DEF OpenFrom
  <2>7. ASSUME b = p[1] PROVE FALSE
    <3>1. PICK v \in 1..N : v = p[2] /\ ~OpenFrom(t, C, b, v + 1)
      BY <1>1, <2>7 DEF Closed
    <3>2. OpenFrom(t, C, b, v + 1)
      BY <2>5, OpenEarlier
    <3> QED  BY <3>1, <3>2
  <2>8. ~(p[1] <= b)
    BY <1>1, <2>2, <2>5, <2>7
  <2> QED  BY <2>6, <2>8
<1> QED  BY <1>2, <1>3

LEMMA LookedSame ==
  ASSUME NEW t, NEW C, C \subseteq Nat \ {0}, NEW pos \in Int, NEW k \in Nat \ {0},
         NEW r \in Searching, Looked(t, C, pos, k - 1, r), ~(k \in C /\ t[k] \in {"(", ")", Comma})
  PROVE  Looked(t, C, pos, k, r)
<1>1. CASE r.found.close # -1
  BY <1>1 DEF Looked
<1>2. CASE r.found.close = -1
  <2>1. Looking(t, C, pos, k - 1, r.stack) /\ r.stack \in Seq(Level)
    BY <1>2 DEF Looked, Searching
  <2>2. PICK stack \in Seq(Level) : stack = r.stack
    BY <2>1
  <2>3. Nested(t, C, stack, k - 1) /\ Separated(t, C, stack, k - 1) /\ Looking(t, C, pos, k - 1, stack)
    BY <2>1, <2>2 DEF Looking
  <2>4. \A s \in 1..Len(stack) : OpensAt(stack, s) \in 1..k
    <3>1. \A b \in 1 .. k - 1 : b \in 1..k
      OBVIOUS
    <3> QED  BY <2>3, <3>1 DEF Nested
  <2>5. Separated(t, C, stack, k)
    BY <2>3, <2>4, SeparatedSame
  <2>6. Looking(t, C, pos, k, stack)
    BY <2>3, <2>5, LookSame
  <2> QED  BY <1>2, <2>2, <2>6 DEF Looked
<1> QED  BY <1>1, <1>2

LEMMA LookedOpen ==
  ASSUME NEW t, NEW C, C \subseteq Nat \ {0}, NEW pos \in Int, NEW k \in Nat \ {0},
         NEW r \in Searching, Looked(t, C, pos, k - 1, r), r.found.close = -1, k \in C, t[k] = "("
  PROVE  Looked(t, C, pos, k, ListVisit(r, t, k, pos))
<1>1. Looking(t, C, pos, k - 1, r.stack) /\ r.stack \in Seq(Level) /\ r.found \in Find
  BY DEF Looked, Searching
<1>2. PICK level : level = [open |-> k - 1, commas |-> <<>>]
  OBVIOUS
<1>3. level \in Level /\ level.open = k - 1 /\ level.commas = <<>>
  BY <1>2, VisitOpen
<1>4. ListVisit(r, t, k, pos) = [stack |-> Append(r.stack, level), found |-> r.found]
  BY <1>2, VisitOpen
<1>5. Looking(t, C, pos, k, Append(r.stack, level))
  BY <1>1, <1>3, LookOpen
<1>6. PICK next \in Seq(Level) : next = Append(r.stack, level)
  <2>1. PICK stack \in Seq(Level) : stack = r.stack
    BY <1>1
  <2>2. Append(stack, level) \in Seq(Level)
    BY <1>3
  <2> QED  BY <2>1, <2>2
<1>7. [stack |-> next, found |-> r.found] \in Searching
  BY <1>1 DEF Searching
<1>8. ListVisit(r, t, k, pos) = [stack |-> next, found |-> r.found]
  BY <1>4, <1>6
<1> QED  BY <1>5, <1>6, <1>7, <1>8 DEF Looked

LEMMA LookedComma ==
  ASSUME NEW t, NEW C, C \subseteq Nat \ {0}, NEW pos \in Int, NEW k \in Nat \ {0},
         NEW r \in Searching, Looked(t, C, pos, k - 1, r), r.found.close = -1, k \in C, t[k] = Comma
  PROVE  Looked(t, C, pos, k, ListVisit(r, t, k, pos))
<1>1. Looking(t, C, pos, k - 1, r.stack) /\ r.stack \in Seq(Level) /\ r.found \in Find
  BY DEF Looked, Searching
<1>2. PICK stack \in Seq(Level), n \in Nat : stack = r.stack /\ n = Len(stack)
  BY <1>1
<1>3. Nested(t, C, stack, k - 1) /\ Separated(t, C, stack, k - 1) /\ Looking(t, C, pos, k - 1, stack)
  BY <1>1, <1>2 DEF Looking
<1>4. ~(k \in C /\ t[k] \in {"(", ")"})
  BY CommaApart
<1>5. CASE n = 0
  <2>1. ListVisit(r, t, k, pos) = r
    <3>1. t[k] # "(" /\ ~(Len(r.stack) > 0)
      BY <1>2, <1>4, <1>5
    <3> QED  BY <3>1, VisitOther
  <2>2. Separated(t, C, stack, k)
    BY <1>2, <1>5 DEF Separated
  <2>3. Looking(t, C, pos, k, stack)
    BY <1>3, <1>4, <2>2, LookSame
  <2> QED  BY <1>2, <2>1, <2>3 DEF Looked
<1>6. CASE n > 0
  <2> DEFINE level == [open |-> stack[n].open, commas |-> Append(stack[n].commas, k - 1)]
             next == [stack EXCEPT ![n] = level]
  <2>1. ListVisit(r, t, k, pos) = [stack |-> next, found |-> r.found]
    <3>1. ListVisit(r, t, k, pos) = [stack |-> WithComma(r.stack, n, k - 1), found |-> r.found]
      BY <1>2, <1>6, VisitComma
    <3>2. WithComma(stack, n, k - 1) = next
      BY DEF WithComma
    <3> QED  BY <1>2, <3>1, <3>2, Zenon
  <2>2. stack[n] \in Level /\ n \in 1..n
    BY <1>2, <1>6
  <2>3. level \in Level /\ level.open = stack[n].open /\ level.commas = Append(stack[n].commas, k - 1)
    BY <2>2 DEF Level
  <2> HIDE DEF level
  <2>4. /\ next \in Seq(Level) /\ Len(next) = n /\ next[n] = level
        /\ \A s \in 1..(n - 1) : next[s] = stack[s]
    BY <1>2, <2>2, <2>3
  <2> HIDE DEF next
  <2>5. \A s \in 1..n : next[s].open = stack[s].open
    <3>1. \A s \in 1..n : s = n \/ s \in 1..(n - 1)
      OBVIOUS
    <3> QED  BY <2>3, <2>4, <3>1
  <2>6. Separated(t, C, next, k)
    BY <1>2, <1>3, <1>6, <2>3, <2>4, <2>5, SeparatedComma
  <2>7. Looking(t, C, pos, k, next)
    BY <1>2, <1>3, <1>4, <2>4, <2>5, <2>6, LookSame
  <2>8. [stack |-> next, found |-> r.found] \in Searching
    BY <1>1, <2>4 DEF Searching
  <2> QED  BY <2>1, <2>7, <2>8 DEF Looked
<1> QED  BY <1>5, <1>6

LEMMA LookedClose ==
  ASSUME NEW t, NEW C, C \subseteq Nat \ {0}, NEW pos \in Int, NEW k \in Nat \ {0},
         NEW r \in Searching, Looked(t, C, pos, k - 1, r), r.found.close = -1, k \in C, t[k] = ")"
  PROVE  Looked(t, C, pos, k, ListVisit(r, t, k, pos))
<1>1. Looking(t, C, pos, k - 1, r.stack) /\ r.stack \in Seq(Level) /\ r.found \in Find
  BY DEF Looked, Searching
<1>2. PICK stack \in Seq(Level), n \in Nat : stack = r.stack /\ n = Len(stack)
  BY <1>1
<1>3. Looking(t, C, pos, k - 1, stack)
  BY <1>1, <1>2
<1>4. CASE n = 0
  <2>1. ListVisit(r, t, k, pos) = r
    <3>1. t[k] # "(" /\ ~(Len(r.stack) > 0)
      BY <1>2, <1>4
    <3> QED  BY <3>1, VisitOther
  <2>2. Looking(t, C, pos, k, stack)
    BY <1>2, <1>3, <1>4, LookNone
  <2> QED  BY <1>2, <2>1, <2>2 DEF Looked
<1>5. CASE n > 0
  <2> DEFINE found == [open |-> stack[n].open, close |-> k - 1, separators |-> stack[n].commas]
             next == Front(stack)
             matched == [stack |-> stack, found |-> found]
             popped == [stack |-> next, found |-> r.found]
  <2>1. ListVisit(r, t, k, pos) = IF IsMatch(stack[n].open, n, pos, k - 1) THEN matched ELSE popped
    BY <1>2, <1>5, VisitClose
  <2>2. CASE IsMatch(stack[n].open, n, pos, k - 1)
    <3>1. Answer(t, C, pos, found)
      BY <1>2, <1>3, <1>5, <2>2, LookMatch
    <3>2. stack[n] \in Level
      BY <1>2, <1>5
    <3>3. found \in Find /\ found.close = k - 1
      BY <3>2 DEF Find, Level
    <3> HIDE DEF found
    <3>4. matched \in Searching /\ matched.found = found /\ matched.found.close # -1
      BY <3>3 DEF Searching
    <3> HIDE DEF matched
    <3>5. Looked(t, C, pos, k, matched)
      BY <3>1, <3>4 DEF Looked
    <3> QED  BY <2>1, <2>2, <3>5
  <2>3. CASE ~IsMatch(stack[n].open, n, pos, k - 1)
    <3>1. stack # <<>>
      BY <1>2, <1>5
    <3>2. next \in Seq(Level) /\ Len(next) = n - 1 /\ \A s \in 1..(n - 1) : next[s] = stack[s]
      <4>1. /\ Front(stack) \in Seq(Level) /\ Len(Front(stack)) = Len(stack) - 1
            /\ \A i \in 1..(Len(stack) - 1) : Front(stack)[i] = stack[i]
        BY <3>1, FrontIs
      <4> QED  BY <1>2, <4>1
    <3> HIDE DEF next
    <3>3. Looking(t, C, pos, k, next)
      BY <1>2, <1>3, <1>5, <2>3, <3>2, LookPop
    <3>4. popped \in Searching /\ popped.stack = next /\ popped.found = r.found
      BY <1>1, <3>2 DEF Searching
    <3> HIDE DEF popped
    <3>5. Looked(t, C, pos, k, popped)
      BY <3>3, <3>4 DEF Looked
    <3> QED  BY <2>1, <2>3, <3>5
  <2> QED  BY <2>2, <2>3
<1> QED  BY <1>4, <1>5

LEMMA LookedNext ==
  ASSUME NEW t, NEW C, C \subseteq Nat \ {0}, NEW pos \in Int, NEW k \in Nat \ {0}, NEW code,
         t[k] \in {"(", ")", Comma} => (k \in code <=> k \in C),
         NEW r, Looked(t, C, pos, k - 1, r)
  PROVE  Looked(t, C, pos, k, IF k \in code THEN ListVisit(r, t, k, pos) ELSE r)
<1>1. r \in Searching
  BY DEF Looked
<1>2. CASE k \in code /\ r.found.close = -1 /\ t[k] \in {"(", ")", Comma}
  <2>1. Looked(t, C, pos, k, ListVisit(r, t, k, pos))
    BY <1>1, <1>2, LookedOpen, LookedClose, LookedComma
  <2> QED  BY <1>2, <2>1
<1>3. CASE k \in code /\ r.found.close # -1
  <2>1. ListVisit(r, t, k, pos) = r
    BY <1>3, VisitFound
  <2>2. Looked(t, C, pos, k, r)
    BY <1>3 DEF Looked
  <2> QED  BY <2>1, <2>2
<1>4. CASE k \in code /\ t[k] \notin {"(", ")", Comma}
  <2>1. ListVisit(r, t, k, pos) = r
    BY <1>4, VisitOther
  <2>2. Looked(t, C, pos, k, r)
    BY <1>1, <1>4, LookedSame
  <2> QED  BY <2>1, <2>2
<1>5. CASE k \notin code
  <2>1. Looked(t, C, pos, k, r)
    BY <1>1, <1>5, LookedSame
  <2> QED  BY <1>5, <2>1
<1> QED  BY <1>2, <1>3, <1>4, <1>5

LEMMA LookedFirst ==
  ASSUME NEW t, NEW C, NEW pos \in Int, \A p \in Pairs(t, C) : p[2] \in Nat \ {0}
  PROVE  Looked(t, C, pos, 0, NothingOpen)
<1>1. NothingOpen.stack = <<>> /\ NothingOpen.found.close = -1 /\ NothingOpen \in Searching
  <2>1. NoList \in Find /\ NoList.close = -1
    BY DEF NoList, Find
  <2>2. <<>> \in Seq(Level)
    OBVIOUS
  <2> QED  BY <2>1, <2>2 DEF NothingOpen, Searching
<1>2. Nested(t, C, <<>>, 0) /\ Separated(t, C, <<>>, 0)
  BY NestedNone
<1>3. Looking(t, C, pos, 0, <<>>)
  <2>1. \A p \in Pairs(t, C) : ~(p[2] <= 0)
    OBVIOUS
  <2>2. 1..0 = {}
    OBVIOUS
  <2> QED  BY <1>2, <2>1, <2>2 DEF Looking
<1> QED  BY <1>1, <1>3 DEF Looked

(* A level's commas stand in the text's order, all of them read already.    *)
CommasAscend(s) == \A i, j \in 1..Len(s) : i < j => s[i] < s[j]
Read(s, k) == CommasAscend(s) /\ \A i \in 1..Len(s) : s[i] < k
ReadInOrder(r, k) ==
    (\A s \in 1..Len(r.stack) : Read(r.stack[s].commas, k)) /\ CommasAscend(r.found.separators)

LEMMA ReadLater ==
  ASSUME NEW s \in Seq(Nat), NEW k \in Nat \ {0}, Read(s, k - 1)
  PROVE  Read(s, k)
<1>1. ASSUME NEW i \in 1..Len(s) PROVE s[i] < k
  <2>1. s[i] \in Nat /\ s[i] < k - 1
    BY DEF Read
  <2> QED  BY <2>1
<1> QED  BY <1>1 DEF Read

LEMMA ReadNext ==
  ASSUME NEW s \in Seq(Nat), NEW k \in Nat \ {0}, Read(s, k - 1)
  PROVE  Append(s, k - 1) \in Seq(Nat) /\ Read(Append(s, k - 1), k)
<1>1. PICK n \in Nat : n = Len(s)
  OBVIOUS
<1>2. PICK d : d = Append(s, k - 1)
  OBVIOUS
<1>3. d \in Seq(Nat) /\ Len(d) = n + 1 /\ d[n + 1] = k - 1 /\ \A i \in 1..n : d[i] = s[i]
  BY <1>1, <1>2
<1>4. \A i \in 1..n : d[i] \in Nat /\ d[i] < k - 1
  BY <1>1, <1>3 DEF Read
<1>5. ASSUME NEW i \in 1..(n + 1), NEW j \in 1..(n + 1), i < j PROVE d[i] < d[j]
  <2>1. i \in 1..n
    BY <1>5
  <2>2. CASE j = n + 1
    BY <1>3, <1>4, <2>1, <2>2
  <2>3. CASE j # n + 1
    <3>1. j \in 1..n
      BY <2>3
    <3>2. s[i] < s[j]
      BY <1>1, <1>5, <2>1, <3>1 DEF Read, CommasAscend
    <3> QED  BY <1>3, <2>1, <3>1, <3>2
  <2> QED  BY <2>2, <2>3
<1>6. ASSUME NEW i \in 1..(n + 1) PROVE d[i] < k
  <2>1. CASE i = n + 1
    BY <1>3, <2>1
  <2>2. CASE i # n + 1
    <3>1. i \in 1..n
      BY <2>2
    <3>2. PICK x \in Nat : x = d[i] /\ x < k - 1
      BY <1>4, <3>1
    <3> QED  BY <3>2
  <2> QED  BY <2>1, <2>2
<1> QED  BY <1>2, <1>3, <1>5, <1>6 DEF Read, CommasAscend

LEMMA InOrderSame ==
  ASSUME NEW r \in Searching, NEW k \in Nat \ {0}, ReadInOrder(r, k - 1)
  PROVE  ReadInOrder(r, k)
<1>1. ASSUME NEW s \in 1..Len(r.stack) PROVE Read(r.stack[s].commas, k)
  <2>1. PICK stack \in Seq(Level) : stack = r.stack
    BY DEF Searching
  <2>2. stack[s] \in Level
    BY <2>1
  <2>3. r.stack[s].commas \in Seq(Nat) /\ Read(r.stack[s].commas, k - 1)
    BY <2>1, <2>2 DEF ReadInOrder, Level
  <2> QED  BY <2>3, ReadLater
<1> QED  BY <1>1 DEF ReadInOrder

LEMMA InOrderOpen ==
  ASSUME NEW r \in Searching, NEW k \in Nat \ {0}, ReadInOrder(r, k), r.found.close = -1,
         NEW t, t[k] = "(", NEW pos
  PROVE  ReadInOrder(ListVisit(r, t, k, pos), k)
<1>1. PICK level : level = [open |-> k - 1, commas |-> <<>>]
  OBVIOUS
<1>2. level \in Level /\ level.commas = <<>>
  BY <1>1, VisitOpen
<1>3. PICK v : v = ListVisit(r, t, k, pos) /\ v = [stack |-> Append(r.stack, level), found |-> r.found]
  BY <1>1, VisitOpen
<1>4. PICK stack \in Seq(Level), n \in Nat : stack = r.stack /\ n = Len(stack)
  BY DEF Searching
<1>5. Len(v.stack) = n + 1 /\ v.stack[n + 1] = level /\ \A s \in 1..n : v.stack[s] = stack[s]
  BY <1>2, <1>3, <1>4
<1>6. Read(level.commas, k)
  BY <1>2 DEF Read, CommasAscend
<1>7. ASSUME NEW s \in 1..(n + 1) PROVE Read(v.stack[s].commas, k)
  <2>1. CASE s = n + 1
    BY <1>5, <1>6, <2>1
  <2>2. CASE s # n + 1
    <3>1. s \in 1..n
      BY <2>2
    <3> QED  BY <1>4, <1>5, <3>1 DEF ReadInOrder
  <2> QED  BY <2>1, <2>2
<1> QED  BY <1>3, <1>5, <1>7 DEF ReadInOrder

LEMMA InOrderComma ==
  ASSUME NEW r \in Searching, NEW k \in Nat \ {0}, ReadInOrder(r, k - 1), r.found.close = -1,
         NEW t, t[k] = Comma, NEW pos
  PROVE  ReadInOrder(ListVisit(r, t, k, pos), k)
<1>1. PICK stack \in Seq(Level), n \in Nat : stack = r.stack /\ n = Len(stack)
  BY DEF Searching
<1>2. ReadInOrder(r, k)
  BY InOrderSame
<1>3. CASE n = 0
  <2>1. ListVisit(r, t, k, pos) = r
    <3>1. t[k] # "(" /\ ~(Len(r.stack) > 0)
      BY <1>1, <1>3, CommaApart
    <3> QED  BY <3>1, VisitOther
  <2> QED  BY <1>2, <2>1
<1>4. CASE n > 0
  <2>1. PICK v : v = ListVisit(r, t, k, pos) /\ v = [stack |-> WithComma(stack, n, k - 1), found |-> r.found]
    BY <1>1, <1>4, VisitComma
  <2>2. stack[n] \in Level /\ n \in 1..n
    BY <1>1, <1>4
  <2>3. PICK d : d = Append(stack[n].commas, k - 1)
    OBVIOUS
  <2>4. d \in Seq(Nat) /\ Read(d, k)
    <3>1. stack[n].commas \in Seq(Nat) /\ Read(stack[n].commas, k - 1)
      BY <1>1, <2>2 DEF ReadInOrder, Level
    <3> QED  BY <2>3, <3>1, ReadNext
  <2>5. PICK level : level = [open |-> stack[n].open, commas |-> d]
    OBVIOUS
  <2>6. v.stack = [stack EXCEPT ![n] = level]
    BY <2>1, <2>3, <2>5 DEF WithComma
  <2>7. Len(v.stack) = n /\ \A s \in 1..n : v.stack[s] = IF s = n THEN level ELSE stack[s]
    BY <1>1, <2>6
  <2>8. ASSUME NEW s \in 1..n PROVE Read(v.stack[s].commas, k)
    <3>1. CASE s = n
      <4>1. v.stack[s].commas = d
        BY <2>5, <2>7, <3>1
      <4> QED  BY <2>4, <4>1
    <3>2. CASE s # n
      <4>1. v.stack[s] = r.stack[s]
        BY <1>1, <2>7, <3>2
      <4> QED  BY <1>1, <1>2, <4>1 DEF ReadInOrder
    <3> QED  BY <3>1, <3>2
  <2> QED  BY <1>2, <2>1, <2>7, <2>8 DEF ReadInOrder
<1> QED  BY <1>1, <1>3, <1>4

LEMMA InOrderClose ==
  ASSUME NEW r \in Searching, NEW k \in Nat \ {0}, ReadInOrder(r, k), r.found.close = -1,
         NEW t, t[k] = ")", NEW pos
  PROVE  ReadInOrder(ListVisit(r, t, k, pos), k)
<1>1. PICK stack \in Seq(Level), n \in Nat : stack = r.stack /\ n = Len(stack)
  BY DEF Searching
<1>2. CASE n = 0
  <2>1. ListVisit(r, t, k, pos) = r
    <3>1. t[k] # "(" /\ ~(Len(r.stack) > 0)
      BY <1>1, <1>2
    <3> QED  BY <3>1, VisitOther
  <2> QED  BY <2>1
<1>3. CASE n > 0
  <2>6. PICK matched : matched = [stack |-> stack, found |-> [open |-> stack[n].open, close |-> k - 1,
                                                              separators |-> stack[n].commas]]
    OBVIOUS
  <2>7. PICK popped : popped = [stack |-> Front(stack), found |-> r.found]
    OBVIOUS
  <2>1. /\ matched = [stack |-> stack, found |-> [open |-> stack[n].open, close |-> k - 1,
                                                  separators |-> stack[n].commas]]
        /\ popped = [stack |-> Front(stack), found |-> r.found]
    BY <2>6, <2>7
  <2>2. ListVisit(r, t, k, pos) = IF IsMatch(stack[n].open, n, pos, k - 1) THEN matched ELSE popped
    BY <1>1, <1>3, <2>1, VisitClose
  <2>3. n \in 1..n
    BY <1>3
  <2>4. ReadInOrder(matched, k)
    BY <1>1, <2>1, <2>3 DEF ReadInOrder, Read
  <2>5. ReadInOrder(popped, k)
    <3>1. stack # <<>>
      BY <1>1, <1>3
    <3>2. Len(Front(stack)) = n - 1 /\ \A s \in 1..(n - 1) : Front(stack)[s] = stack[s]
      BY <1>1, <3>1, FrontIs
    <3>3. \A s \in 1..(n - 1) : s \in 1..n
      OBVIOUS
    <3> QED  BY <1>1, <2>1, <3>2, <3>3 DEF ReadInOrder
  <2> QED  BY <2>2, <2>4, <2>5
<1> QED  BY <1>1, <1>2, <1>3

LEMMA InOrderNext ==
  ASSUME NEW r \in Searching, NEW k \in Nat \ {0}, ReadInOrder(r, k - 1), NEW t, NEW pos, NEW code
  PROVE  ReadInOrder(IF k \in code THEN ListVisit(r, t, k, pos) ELSE r, k)
<1>1. ReadInOrder(r, k)
  BY InOrderSame
<1>2. CASE r.found.close # -1
  BY <1>1, <1>2, VisitFound
<1>3. CASE r.found.close = -1 /\ t[k] \in {"(", ")", Comma}
  <2>1. ReadInOrder(ListVisit(r, t, k, pos), k)
    BY <1>1, <1>3, InOrderOpen, InOrderClose, InOrderComma
  <2> QED  BY <1>1, <2>1
<1>4. CASE t[k] \notin {"(", ")", Comma}
  <2>1. ListVisit(r, t, k, pos) = r
    BY <1>4, VisitOther
  <2> QED  BY <1>1, <2>1
<1> QED  BY <1>2, <1>3, <1>4

FoundBy(t, C, pos, k, r) == Looked(t, C, pos, k, r) /\ ReadInOrder(r, k)

LEMMA ListBoundsIs ==
  ASSUME NEW L, NEW t \in Seq(L), NEW pos \in Int
  PROVE  \E r : /\ Looked(t, MeantCode(t), pos, Len(t), r) /\ CommasAscend(r.found.separators)
                /\ ListBounds(t, pos) = r.found
<1>1. PICK N \in Nat : N = Len(t)
  OBVIOUS
<1>2. PICK C : C = MeantCode(t)
  OBVIOUS
<1>3. PICK code : code = CodeOf(t)
  OBVIOUS
<1>4. C \subseteq 1..N /\ C \subseteq Nat \ {0}
  <2>1. C \subseteq 1..N
    BY <1>1, <1>2, CodesWithin
  <2>2. 1..N \subseteq Nat \ {0}
    OBVIOUS
  <2> QED  BY <2>1, <2>2
<1>5. ASSUME NEW k \in 1..N, t[k] \in {"(", ")", Comma} PROVE k \in code <=> k \in C
  <2>1. t[k] \notin {"x", LineFeed} /\ k \in 1..Len(t)
    BY <1>1, <1>5, MarksAre
  <2> QED  BY <1>2, <1>3, <2>1, CodeIsMeant
<1> DEFINE base == NothingOpen
           good == [k \in 0..N |-> {r \in Searching : FoundBy(t, C, pos, k, r)}]
           next == [k \in 1..N |-> [r \in Searching |-> IF k \in code THEN ListVisit(r, t, k, pos) ELSE r]]
           Reads(h) == h = [i \in 0..N |-> IF i = 0 THEN base
                                           ELSE IF i \in code THEN ListVisit(h[i - 1], t, i, pos) ELSE h[i - 1]]
           r == CHOOSE h : Reads(h)
<1>6. ListBounds(t, pos) = r[N].found
  BY <1>1, <1>3 DEF ListBounds
<1>7. \A k \in 0..N : \A x : x \in good[k] <=> FoundBy(t, C, pos, k, x)
  BY DEF FoundBy, Looked
<1>8. base \in good[0]
  <2>1. \A p \in Pairs(t, C) : p[2] \in Nat \ {0}
    BY <1>4, PairIs
  <2>2. Looked(t, C, pos, 0, base)
    BY <2>1, LookedFirst
  <2>3. ReadInOrder(base, 0)
    BY DEF ReadInOrder, NothingOpen, NoList, CommasAscend
  <2> QED  BY <1>7, <2>2, <2>3 DEF FoundBy
<1> HIDE DEF base
<1>9. ASSUME NEW k \in 1..N, NEW x \in good[k - 1]
      PROVE  /\ next[k][x] = (IF k \in code THEN ListVisit(x, t, k, pos) ELSE x)
             /\ next[k][x] \in good[k]
  <2>1. k - 1 \in 0..N /\ k \in 0..N /\ k \in Nat \ {0}
    OBVIOUS
  <2>2. Looked(t, C, pos, k - 1, x) /\ ReadInOrder(x, k - 1) /\ x \in Searching
    BY <1>7, <2>1 DEF FoundBy, Looked
  <2>3. next[k][x] = (IF k \in code THEN ListVisit(x, t, k, pos) ELSE x)
    BY <2>2
  <2>4. Looked(t, C, pos, k, IF k \in code THEN ListVisit(x, t, k, pos) ELSE x)
    BY <1>4, <1>5, <2>1, <2>2, LookedNext
  <2>6. ReadInOrder(IF k \in code THEN ListVisit(x, t, k, pos) ELSE x, k)
    BY <2>1, <2>2, InOrderNext
  <2> HIDE DEF next, good
  <2>5. next[k][x] \in good[k]
    BY <1>7, <2>1, <2>3, <2>4, <2>6 DEF FoundBy
  <2> QED  BY <2>3, <2>5
<1> HIDE DEF next, good
<1>10. \A k \in 1..N : \A x \in good[k - 1] : next[k][x] \in good[k]
  BY <1>9
<1>11. /\ \E g : Staged(g, N, base, next) /\ \A k \in 0..N : g[k] \in good[k]
       /\ \A h : Climbs(h, N, base, next, good) => \A k \in 0..N : h[k] \in good[k]
  BY <1>8, <1>10, StagedRecursion
<1>12. \E g : Reads(g)
  <2>1. PICK g : Staged(g, N, base, next) /\ \A k \in 0..N : g[k] \in good[k]
    BY <1>11
  <2>2. \A k \in 0..N : (IF k = 0 THEN base ELSE next[k][g[k - 1]])
                          = (IF k = 0 THEN base
                             ELSE IF k \in code THEN ListVisit(g[k - 1], t, k, pos) ELSE g[k - 1])
    <3> SUFFICES ASSUME NEW k \in 0..N, k # 0
                 PROVE  next[k][g[k - 1]] = (IF k \in code THEN ListVisit(g[k - 1], t, k, pos) ELSE g[k - 1])
      OBVIOUS
    <3>1. k \in 1..N /\ k - 1 \in 0..N
      OBVIOUS
    <3>2. g[k - 1] \in good[k - 1]
      BY <2>1, <3>1
    <3> QED  BY <1>9, <3>1, <3>2
  <2>3. Reads(g)
    BY <2>1, <2>2 DEF Staged
  <2> QED  BY <2>3
<1>13. Reads(r)
  BY <1>12
<1> HIDE DEF r
<1>14. Climbs(r, N, base, next, good)
  <2>1. r[0] = base
    BY <1>13
  <2>2. ASSUME NEW k \in 1..N, r[k - 1] \in good[k - 1] PROVE r[k] = next[k][r[k - 1]]
    <3>1. k \in 0..N /\ k # 0
      OBVIOUS
    <3>2. r[k] = IF k \in code THEN ListVisit(r[k - 1], t, k, pos) ELSE r[k - 1]
      BY <1>13, <3>1
    <3> QED  BY <1>9, <2>2, <3>2
  <2> QED  BY <2>1, <2>2 DEF Climbs
<1>15. r[N] \in good[N]
  BY <1>11, <1>14
<1>16. Looked(t, C, pos, N, r[N]) /\ CommasAscend(r[N].found.separators)
  <2>1. N \in 0..N
    OBVIOUS
  <2> QED  BY <1>7, <1>15, <2>1 DEF FoundBy, ReadInOrder
<1> QED  BY <1>1, <1>2, <1>6, <1>16

LEMMA AroundIs ==
  ASSUME NEW L, NEW t \in Seq(L), NEW pos \in 0..Len(t)
  PROVE  LET around == {p \in Pairs(t, MeantCode(t)) : p[1] <= pos /\ pos < p[2]}
             found == AsSet(ListBounds(t, pos))
         IN  IF around = {} THEN found.close = -1
             ELSE \E p \in around : /\ found = ListOf(t, MeantCode(t), p)
                                    /\ \A q \in around : q[2] - q[1] >= p[2] - p[1]
<1>1. PICK N, C : N \in Nat /\ N = Len(t) /\ C = MeantCode(t) /\ C \subseteq 1..N
  <2>1. MeantCode(t) \subseteq 1..Len(t) /\ Len(t) \in Nat
    BY CodesWithin
  <2> QED  BY <2>1
<1>2. pos \in Int /\ pos >= 0
  OBVIOUS
<1>3. PICK r : Looked(t, C, pos, N, r) /\ ListBounds(t, pos) = r.found
  BY <1>1, <1>2, ListBoundsIs
<1> DEFINE around == {p \in Pairs(t, C) : p[1] <= pos /\ pos < p[2]}
           found == AsSet(r.found)
<1>4. found.close = r.found.close
  BY DEF AsSet
<1>5. \A p : p \in around <=> p \in Pairs(t, C) /\ Around(p, pos)
  BY DEF Around
<1> HIDE DEF around, found
<1>6. CASE r.found.close = -1
  <2>1. r.stack \in Seq(Level) /\ Looking(t, C, pos, N, r.stack)
    BY <1>3, <1>6 DEF Looked, Searching
  <2>2. ASSUME NEW p \in Pairs(t, C) PROVE ~Around(p, pos)
    BY <1>1, <1>2, <2>1, LookEnd
  <2>3. around = {}
    BY <1>5, <2>2
  <2> QED  BY <1>1, <1>3, <1>4, <1>6, <2>3 DEF around, found
<1>7. CASE r.found.close # -1
  <2>1. PICK p \in Pairs(t, C) :
            /\ AsSet(r.found) = ListOf(t, C, p)
            /\ Around(p, pos) /\ \A q \in Pairs(t, C) : Around(q, pos) => q[2] - q[1] >= p[2] - p[1]
    BY <1>2, <1>3, <1>7 DEF Looked, Answer
  <2>2. p \in around /\ \A q \in around : q[2] - q[1] >= p[2] - p[1]
    BY <1>5, <2>1
  <2>3. found = ListOf(t, C, p)
    BY <2>1 DEF found
  <2>4. around # {} /\ \E x \in around : /\ found = ListOf(t, C, x)
                                         /\ \A q \in around : q[2] - q[1] >= x[2] - x[1]
    BY <2>2, <2>3
  <2> QED  BY <1>1, <1>3, <2>4 DEF around, found
<1> QED  BY <1>6, <1>7

LEMMA FirstIs ==
  ASSUME NEW L, NEW t \in Seq(L)
  PROVE  LET pairs == Pairs(t, MeantCode(t))
             brackets == {i \in MeantCode(t) : t[i] = "("}
             found == AsSet(ListBounds(t, -1))
         IN  IF \E p \in pairs : p[1] = Min(brackets)
             THEN \E p \in pairs : p[1] = Min(brackets) /\ found = ListOf(t, MeantCode(t), p)
             ELSE found.close = -1
<1>1. PICK N, C : N \in Nat /\ N = Len(t) /\ C = MeantCode(t) /\ C \subseteq 1..N
  <2>1. MeantCode(t) \subseteq 1..Len(t) /\ Len(t) \in Nat
    BY CodesWithin
  <2> QED  BY <2>1
<1>2. C \subseteq Nat \ {0}
  BY <1>1
<1>3. PICK pos \in Int : pos = -1
  OBVIOUS
<1>4. PICK r : Looked(t, C, pos, N, r) /\ ListBounds(t, pos) = r.found
  BY <1>1, ListBoundsIs
<1> DEFINE brackets == {i \in C : t[i] = "("}
           found == AsSet(r.found)
<1>5. found.close = r.found.close
  BY DEF AsSet
<1>6. ASSUME NEW p \in Pairs(t, C)
      PROVE  p[1] \in brackets /\ (p[1] = Min(brackets) <=> \A b \in C : t[b] = "(" => p[1] <= b)
  <2>1. p[1] \in brackets
    <3>1. p[1] \in C /\ Closed(t, C, p[1], p[2])
      BY <1>2, PairIs
    <3> QED  BY <3>1 DEF Closed, OpenFrom
  <2>2. brackets \subseteq Nat /\ brackets # {}
    BY <1>2, <2>1
  <2>3. Min(brackets) \in brackets /\ \A x \in brackets : Min(brackets) <= x
    BY <2>2, MinIs
  <2>4. PICK m \in Nat, b \in Nat : m = Min(brackets) /\ b = p[1]
    BY <2>1, <2>2, <2>3
  <2>5. ASSUME \A x \in C : t[x] = "(" => p[1] <= x PROVE p[1] = Min(brackets)
    <3>1. b <= m /\ m <= b
      BY <2>1, <2>3, <2>4, <2>5
    <3> QED  BY <2>4, <3>1
  <2>6. ASSUME p[1] = Min(brackets) PROVE \A x \in C : t[x] = "(" => p[1] <= x
    BY <2>3, <2>6
  <2> QED  BY <2>1, <2>5, <2>6
<1> HIDE DEF brackets, found
<1>7. CASE r.found.close = -1
  <2>1. r.stack \in Seq(Level) /\ Looking(t, C, pos, N, r.stack)
    BY <1>4, <1>7 DEF Looked, Searching
  <2>2. ASSUME NEW p \in Pairs(t, C) PROVE \E b \in C : t[b] = "(" /\ ~(p[1] <= b)
    BY <1>1, <1>3, <2>1, LookEnd
  <2>3. ~\E p \in Pairs(t, C) : p[1] = Min(brackets)
    BY <1>6, <2>2
  <2> QED  BY <1>1, <1>3, <1>4, <1>5, <1>7, <2>3 DEF brackets, found
<1>8. CASE r.found.close # -1
  <2>1. PICK p \in Pairs(t, C) :
            AsSet(r.found) = ListOf(t, C, p) /\ \A b \in C : t[b] = "(" => p[1] <= b
    BY <1>3, <1>4, <1>8 DEF Looked, Answer
  <2>2. p[1] = Min(brackets) /\ found = ListOf(t, C, p)
    BY <1>6, <2>1 DEF found
  <2> QED  BY <1>1, <1>3, <1>4, <2>1, <2>2 DEF brackets, found
<1> QED  BY <1>7, <1>8

(* As long as no list was split, the text is what was typed.                *)
AsTyped == lists \in {0, 1} /\ (lists = 0 => sql \in Seq(UNION {script.of : script \in Scripts}))

LEMMA TypedHolds == SqlSpec => []AsTyped
<1> DEFINE L == UNION {script.of : script \in Scripts}
<1>1. SqlInit => AsTyped
  <2>1. <<>> \in Seq(L)
    OBVIOUS
  <2> QED  BY <2>1 DEF SqlInit, AsTyped
<1>2. ASSUME AsTyped, [SqlNext]_sqlVars PROVE AsTyped'
  <2>1. ASSUME NEW l \in L, TypeLexeme(l) PROVE AsTyped'
    <3>1. lists = 0 /\ lists' = lists /\ sql' = Append(sql, l) /\ sql \in Seq(L)
      BY <1>2, <2>1 DEF TypeLexeme, AsTyped
    <3>2. Append(sql, l) \in Seq(L)
      BY <3>1
    <3> QED  BY <3>1, <3>2 DEF AsTyped
  <2>2. ASSUME NEW from, NEW to, OnSplitListRequest(from, to) PROVE AsTyped'
    BY <2>2 DEF OnSplitListRequest, AsTyped
  <2>3. ASSUME NEW long, AutoSplitRoutineSignature(long) PROVE AsTyped'
    BY <2>3 DEF AutoSplitRoutineSignature, AsTyped
  <2>4. CASE UNCHANGED sqlVars
    BY <1>2, <2>4 DEF sqlVars, AsTyped
  <2> QED  BY <1>2, <2>1, <2>2, <2>3, <2>4 DEF SqlNext
<1> QED  BY <1>1, <1>2, PTL DEF SqlSpec

(* The statement selected or sent is the one the caret is in, and keywords  *)
(* are folded in the code and nowhere else, in texts of any length: the     *)
(* scanner that goes lexeme by lexeme, carrying its mode over the lines'    *)
(* ends, claims just what the tokens claim (statementBounds(), scanLine()). *)
THEOREM StatementIsChosen == SqlSpec => []StatementChosen
<1>1. AsTyped => StatementChosen
  <2> SUFFICES ASSUME AsTyped, lists = 0, sql # <<>>
               PROVE  /\ \A i \in DOMAIN sql : FoldKeywords(sql)[i] # sql[i]
                                                 <=> i \in MeantCode(sql) /\ sql[i] \in Keywords
                      /\ StatementSplit => \A pos \in 0..Len(sql) :
                             LET own == StatementAt(sql, MeantCode(sql), pos)
                                 bounds == StatementBounds(sql, pos)
                             IN  IF own = {} THEN bounds[1] = bounds[2] ELSE bounds = <<Min(own) - 1, Max(own)>>
    BY DEF StatementChosen
  <2>1. PICK L : sql \in Seq(L)
    BY DEF AsTyped
  <2>2. \A i \in DOMAIN sql : FoldKeywords(sql)[i] # sql[i] <=> i \in MeantCode(sql) /\ sql[i] \in Keywords
    BY <2>1, FoldedIs
  <2>3. ASSUME StatementSplit, NEW pos \in 0..Len(sql)
        PROVE  LET own == StatementAt(sql, MeantCode(sql), pos)
                   bounds == StatementBounds(sql, pos)
               IN  IF own = {} THEN bounds[1] = bounds[2] ELSE bounds = <<Min(own) - 1, Max(own)>>
    BY <2>1, <2>3, StatementIs
  <2> QED  BY <2>2, <2>3
<1> QED  BY <1>1, TypedHolds, PTL

(* The list found around a caret is that of the innermost brackets, the one *)
(* of a routine's signature that of the first, with the commas of its own   *)
(* nesting, in texts of any length (listBounds()).                          *)
THEOREM ListIsFound == SqlSpec => []ListFound
<1>1. AsTyped => ListFound
  <2> SUFFICES ASSUME AsTyped, lists = 0, sql # <<>>
               PROVE  LET code == MeantCode(sql)
                          pairs == Pairs(sql, code)
                          brackets == {i \in code : sql[i] = "("} IN
       /\ \A pos \in 0 .. Len(sql) :
             LET around == {p \in pairs : p[1] <= pos /\ pos < p[2]}
                 found == AsSet(ListBounds(sql, pos))
             IN  IF around = {} THEN found.close = -1
                 ELSE \E p \in around : /\ found = ListOf(sql, code, p)
                                        /\ \A q \in around : q[2] - q[1] >= p[2] - p[1]
       /\ LET found == AsSet(ListBounds(sql, -1)) IN
          IF \E p \in pairs : p[1] = Min(brackets)
          THEN \E p \in pairs : p[1] = Min(brackets) /\ found = ListOf(sql, code, p)
          ELSE found.close = -1
    BY DEF ListFound
  <2>1. PICK L : sql \in Seq(L)
    BY DEF AsTyped
  <2>2. ASSUME NEW pos \in 0..Len(sql)
        PROVE  LET around == {p \in Pairs(sql, MeantCode(sql)) : p[1] <= pos /\ pos < p[2]}
                   found == AsSet(ListBounds(sql, pos))
               IN  IF around = {} THEN found.close = -1
                   ELSE \E p \in around : /\ found = ListOf(sql, MeantCode(sql), p)
                                          /\ \A q \in around : q[2] - q[1] >= p[2] - p[1]
    BY <2>1, AroundIs
  <2>3. LET pairs == Pairs(sql, MeantCode(sql))
            brackets == {i \in MeantCode(sql) : sql[i] = "("}
            found == AsSet(ListBounds(sql, -1))
        IN  IF \E p \in pairs : p[1] = Min(brackets)
            THEN \E p \in pairs : p[1] = Min(brackets) /\ found = ListOf(sql, MeantCode(sql), p)
            ELSE found.close = -1
    BY <2>1, FirstIs
  <2> QED  BY <2>2, <2>3
<1> QED  BY <1>1, TypedHolds, PTL

(* What is cut out of a text is of its lexemes.                             *)
LEMMA CutOutIs ==
  ASSUME NEW A, NEW t \in Seq(A), NEW a \in Int, NEW b \in Int, a >= 1, b <= Len(t)
  PROVE  SubSeq(t, a, b) \in Seq(A)
<1>1. PICK N \in Nat : N = Len(t) /\ \A i \in 1..N : t[i] \in A
  OBVIOUS
<1>2. \A i \in a..b : t[i] \in A
  BY <1>1
<1> QED  BY <1>2, SubSeqProperties

LEMMA ItemIs ==
  ASSUME NEW A, NEW t \in Seq(A), NEW from \in Int, NEW to \in 0..Len(t), from >= 0
  PROVE  LET b == Trimmed(t, from, to) IN SubSeq(t, b[1] + 1, b[2]) \in Seq(A)
<1>1. PICK N \in Nat, v \in Nat : N = Len(t) /\ v = to /\ v <= N
  OBVIOUS
<1>2. CASE Solid(t, from, v) = {}
  <2>1. Trimmed(t, from, to) = <<v, v>>
    BY <1>1, <1>2, TrimmedIs
  <2>2. SubSeq(t, v + 1, v) \in Seq(A)
    BY <1>1, CutOutIs
  <2> QED  BY <2>1, <2>2
<1>3. CASE Solid(t, from, v) # {}
  <2>1. PICK a, b : /\ Trimmed(t, from, v) = <<a - 1, b>>
                    /\ a \in from + 1 .. v /\ b \in a..v
    BY <1>3, TrimmedIs
  <2>2. a \in Nat /\ b \in Nat /\ a >= 1 /\ b <= N /\ (a - 1) + 1 = a
    BY <1>1, <2>1
  <2>3. SubSeq(t, a, b) \in Seq(A)
    BY <1>1, <2>2, CutOutIs
  <2> QED  BY <1>1, <2>1, <2>2, <2>3
<1> QED  BY <1>2, <1>3

LEMMA BeforeIs ==
  ASSUME NEW t, NEW p \in Nat, NEW white
  PROVE  SolidBefore(t, p, white) \in 0..p
<1> DEFINE S == {0} \cup {i \in 1..p : t[i] \notin white}
<1>1. S \subseteq 0..p /\ S # {}
  OBVIOUS
<1>2. SolidBefore(t, p, white) = Max(S)
  BY DEF SolidBefore
<1> HIDE DEF S
<1>3. Max(S) \in S
  BY <1>1, MaxIs
<1> QED  BY <1>1, <1>2, <1>3

LEMMA AfterIs ==
  ASSUME NEW A, NEW t \in Seq(A), NEW p \in 0..Len(t), NEW white
  PROVE  SolidAfter(t, p, white) \in 0..Len(t)
<1>1. PICK N \in Nat : N = Len(t)
  OBVIOUS
<1> DEFINE S == {Len(t)} \cup {i \in p .. Len(t) - 1 : t[i + 1] \notin white}
<1>2. S \subseteq 0..N /\ S \subseteq Nat /\ S # {}
  BY <1>1
<1>3. SolidAfter(t, p, white) = Min(S)
  BY DEF SolidAfter
<1> HIDE DEF S
<1>4. Min(S) \in S
  BY <1>2, MinIs
<1> QED  BY <1>1, <1>2, <1>3, <1>4

(* Where the list is cut: at its bracket, its commas and its end.           *)
Bounded(t, bounds) ==
    /\ bounds.open \in -1 .. Len(t) - 1 /\ bounds.close \in 0 .. Len(t)
    /\ bounds.separators \in Seq(0 .. Len(t) - 1)

LEMMA CutsAre ==
  ASSUME NEW N \in Nat, NEW o \in -1 .. N - 1, NEW s \in Seq(0 .. N - 1), NEW c \in 0..N
  PROVE  LET cuts == <<o>> \o s \o <<c>> IN
         /\ Len(cuts) = Len(s) + 2
         /\ \A k \in 1 .. Len(s) + 1 : cuts[k] \in -1 .. N - 1
         /\ \A k \in 2 .. Len(s) + 2 : cuts[k] \in 0..N
<1>1. PICK n \in Nat : n = Len(s) /\ \A k \in 1..n : s[k] \in 0 .. N - 1
  OBVIOUS
<1>2. <<o>> \in Seq(Int) /\ s \in Seq(Int) /\ <<c>> \in Seq(Int)
  <2>1. s \in Seq(Int)
    BY <1>1
  <2> QED  BY <2>1
<1> DEFINE front == <<o>> \o s
           cuts == <<o>> \o s \o <<c>>
<1>3. front \in Seq(Int) /\ Joined(front, <<o>>, s)
  BY <1>2, Join
<1>4. Joined(cuts, front, <<c>>)
  BY <1>2, <1>3, Join
<1> HIDE DEF front, cuts
<1>5. Len(front) = n + 1 /\ front[1] = o /\ \A k \in 2 .. n + 1 : front[k] = s[k - 1]
  BY <1>1, <1>3 DEF Joined
<1>6. Len(cuts) = n + 2 /\ cuts[n + 2] = c /\ \A k \in 1 .. n + 1 : cuts[k] = front[k]
  BY <1>4, <1>5 DEF Joined
<1>7. \A k \in 2 .. n + 1 : k - 1 \in 1..n /\ cuts[k] \in 0 .. N - 1
  BY <1>1, <1>5, <1>6
<1>8. \A k \in 1 .. n + 1 : cuts[k] \in -1 .. N - 1
  <2> SUFFICES ASSUME NEW k \in 1 .. n + 1 PROVE cuts[k] \in -1 .. N - 1
    OBVIOUS
  <2>1. CASE k = 1
    BY <1>5, <1>6, <2>1
  <2>2. CASE k # 1
    <3>1. cuts[k] \in 0 .. N - 1
      BY <1>7, <2>2
    <3> QED  BY <3>1
  <2> QED  BY <2>1, <2>2
<1>9. \A k \in 2 .. n + 2 : cuts[k] \in 0..N
  <2> SUFFICES ASSUME NEW k \in 2 .. n + 2 PROVE cuts[k] \in 0..N
    OBVIOUS
  <2>1. CASE k = n + 2
    BY <1>6, <2>1
  <2>2. CASE k # n + 2
    <3>1. cuts[k] \in 0 .. N - 1
      BY <1>7, <2>2
    <3> QED  BY <3>1
  <2> QED  BY <2>1, <2>2
<1> QED  BY <1>1, <1>6, <1>8, <1>9 DEF cuts

(* The lines of the items from the first to the last.                       *)
LaidLines(first, last, indent, items) ==
    CHOOSE lines : lines = [k \in first - 1 .. last |->
        IF k < first THEN <<>>
        ELSE lines[k - 1] \o (IF k > first THEN <<Comma, LineFeed>> ELSE <<>>) \o indent \o items[k]]

Parting(first, k) == IF k > first THEN <<Comma, LineFeed>> ELSE <<>>
WithLine(x, first, k, indent, items) == x \o Parting(first, k) \o indent \o items[k]

LEMMA LinesAre ==
  ASSUME NEW A, {Comma, LineFeed} \subseteq A, NEW first \in Nat \ {0}, NEW last \in Nat, first <= last,
         NEW indent \in Seq(A), NEW items, \A k \in first..last : items[k] \in Seq(A)
  PROVE  LET lines == LaidLines(first, last, indent, items)
         IN  /\ lines[first - 1] = <<>>
             /\ \A k \in first..last : /\ lines[k] = WithLine(lines[k - 1], first, k, indent, items)
                                       /\ lines[k - 1] \in Seq(A) /\ lines[k] \in Seq(A)
<1> DEFINE M == last - first + 1
           With(x, k) == WithLine(x, first, k, indent, items)
           D == Seq(A)
           base == <<>>
           next == [j \in 1..M |-> [x \in D |-> With(x, j + first - 1)]]
           Reads(h) == h = [k \in first - 1 .. last |-> IF k < first THEN <<>> ELSE With(h[k - 1], k)]
           lines == CHOOSE h : Reads(h)
<1>1. LaidLines(first, last, indent, items) = lines
  BY DEF LaidLines, WithLine, Parting
<1>2. M \in Nat /\ \A j \in 1..M : j + first - 1 \in first..last
  OBVIOUS
<1>3. ASSUME NEW x \in D, NEW k \in first..last PROVE With(x, k) \in D
  <2>1. Parting(first, k) \in D
    <3>1. <<Comma, LineFeed>> \in Seq(A) /\ <<>> \in Seq(A)
      OBVIOUS
    <3> QED  BY <3>1 DEF Parting
  <2>2. items[k] \in D
    OBVIOUS
  <2>3. x \o Parting(first, k) \in D
    BY <2>1
  <2>4. (x \o Parting(first, k)) \o indent \in D
    BY <2>3
  <2>5. ((x \o Parting(first, k)) \o indent) \o items[k] \in D
    BY <2>2, <2>4
  <2> QED  BY <2>5 DEF WithLine
<1>4. base \in D
  OBVIOUS
<1> HIDE DEF With, base, D
<1>5. \A j \in 1..M : \A x \in D : next[j][x] = With(x, j + first - 1) /\ next[j][x] \in D
  BY <1>2, <1>3
<1> HIDE DEF next
<1>6. /\ \E g : Staged(g, M, base, next) /\ g \in [0..M -> D]
      /\ \A h : Proceeds(h, M, base, next, D) => \A k \in 0..M : h[k] \in D
  BY <1>2, <1>4, <1>5, Recursive
<1>7. PICK g : Staged(g, M, base, next) /\ g \in [0..M -> D]
  BY <1>6
<1> DEFINE h == [k \in first - 1 .. last |-> g[k - (first - 1)]]
<1>8. g[0] = base /\ \A j \in 1..M : g[j] = With(g[j - 1], j + first - 1)
  <2>1. g[0] = base
    BY <1>2, <1>7 DEF Staged
  <2>2. ASSUME NEW j \in 1..M PROVE g[j] = With(g[j - 1], j + first - 1)
    <3>1. g[j] = next[j][g[j - 1]] /\ j - 1 \in 0..M
      BY <1>2, <1>7 DEF Staged
    <3>2. g[j - 1] \in D
      BY <1>7, <3>1
    <3> QED  BY <1>5, <3>1, <3>2
  <2> QED  BY <2>1, <2>2
<1>9. Reads(h)
  <2> SUFFICES ASSUME NEW k \in first - 1 .. last
               PROVE  h[k] = IF k < first THEN <<>> ELSE With(h[k - 1], k)
    OBVIOUS
  <2>1. CASE k < first
    <3>1. k - (first - 1) = 0
      BY <2>1
    <3> QED  BY <1>8, <2>1, <3>1 DEF base
  <2>2. CASE k >= first
    <3>1. PICK j \in 1..M : j = k - (first - 1) /\ j + first - 1 = k /\ (k - 1) - (first - 1) = j - 1
      BY <2>2
    <3>2. k - 1 \in first - 1 .. last
      BY <2>2
    <3>3. h[k] = g[j] /\ h[k - 1] = g[j - 1]
      BY <3>1, <3>2
    <3> QED  BY <1>8, <2>2, <3>1, <3>3
  <2> QED  BY <2>1, <2>2
<1> HIDE DEF h
<1>10. Reads(lines)
  BY <1>9
<1> HIDE DEF lines
<1>11. lines[first - 1] = base /\ \A k \in first..last : lines[k] = With(lines[k - 1], k)
  <2>1. \A k \in first - 1 .. last : lines[k] = IF k < first THEN <<>> ELSE With(lines[k - 1], k)
    BY <1>10
  <2>2. first - 1 \in first - 1 .. last /\ \A k \in first..last : k \in first - 1 .. last /\ ~(k < first)
    OBVIOUS
  <2> QED  BY <2>1, <2>2 DEF base
<1> DEFINE G == {j \in 0..M : lines[j + first - 1] \in D}
<1>12. 0 \in G
  <2>1. 0 + first - 1 = first - 1
    OBVIOUS
  <2> QED  BY <1>2, <1>4, <1>11, <2>1
<1>13. \A j \in Nat : j < M /\ j \in G => j + 1 \in G
  <2> SUFFICES ASSUME NEW j \in Nat, j < M, j \in G PROVE j + 1 \in G
    OBVIOUS
  <2>1. PICK k \in first..last : k = (j + 1) + first - 1 /\ k - 1 = j + first - 1
    OBVIOUS
  <2>2. lines[k - 1] \in D
    BY <2>1
  <2>3. lines[k] \in D
    BY <1>3, <1>11, <2>2
  <2> QED  BY <1>2, <2>1, <2>3
<1> HIDE DEF G
<1>14. 0..M \subseteq G
  BY <1>2, <1>12, <1>13, BoundedInduction
<1>15. ASSUME NEW k \in first - 1 .. last PROVE lines[k] \in D
  <2>1. PICK j \in 0..M : j + first - 1 = k
    <3>1. k - (first - 1) \in 0..M /\ (k - (first - 1)) + first - 1 = k
      OBVIOUS
    <3> QED  BY <3>1
  <2> QED  BY <1>14, <2>1 DEF G
<1>16. \A k \in first..last : k \in first - 1 .. last /\ k - 1 \in first - 1 .. last
  OBVIOUS
<1>17. \A k \in first..last : lines[k] \in D /\ lines[k - 1] \in D
  BY <1>15, <1>16
<1>18. \A k \in first..last : lines[k] = WithLine(lines[k - 1], first, k, indent, items)
  BY <1>11 DEF With
<1> QED  BY <1>1, <1>11, <1>17, <1>18 DEF D, base

LEMMA LaidOutIs ==
  ASSUME NEW A, {Comma, LineFeed, Indentation} \subseteq A, NEW t \in Seq(A), NEW cuts, NEW items,
         NEW first \in Nat \ {0}, NEW last \in Nat, first <= last,
         cuts[first] \in -1 .. Len(t) - 1, cuts[last + 1] \in 0..Len(t),
         \A k \in first..last : items[k] \in Seq(A)
  PROVE  LaidOut(t, cuts, items, first, last) \in Seq(A)
<1> DEFINE effectiveOpen == cuts[first]
           home == Max({0} \cup {i \in 1 .. effectiveOpen + 1 : t[i] = LineFeed})
           baseIndent == SubSeq(t, home + 1, SolidAfter(t, home, Spacing))
           start == SolidBefore(t, effectiveOpen + 1, Spacing)
           end == SolidAfter(t, cuts[last + 1], Spacing)
           indent == IF NeedsLeadingBreak(t, start) THEN baseIndent \o <<Indentation>> ELSE baseIndent
           lines == LaidLines(first, last, indent, items)
           replacement == (IF NeedsLeadingBreak(t, start) THEN <<LineFeed>> ELSE <<>>) \o lines[last]
                             \o (IF NeedsTrailingBreak(t, end) THEN <<LineFeed>> \o baseIndent ELSE <<>>)
<1>1. LaidOut(t, cuts, items, first, last) = SubSeq(t, 1, start) \o replacement \o SubSeq(t, end + 1, Len(t))
  BY DEF LaidOut, LaidLines
<1>2. PICK N \in Nat : N = Len(t)
  OBVIOUS
<1>10. PICK o \in 0..N : o = effectiveOpen + 1
  BY <1>2
<1> HIDE DEF effectiveOpen
<1>11. home \in 0..N
  <2> DEFINE S == {0} \cup {i \in 1 .. effectiveOpen + 1 : t[i] = LineFeed}
  <2>1. S \subseteq 0..o /\ S # {} /\ o \in Nat
    BY <1>10
  <2>2. Max(S) \in S
    <3> HIDE DEF S
    <3> QED  BY <2>1, MaxIs
  <2>3. Max(S) \in 0..o
    BY <2>1, <2>2
  <2> QED  BY <1>10, <2>3
<1> HIDE DEF home
<1>12. baseIndent \in Seq(A)
  <2>1. SolidAfter(t, home, Spacing) \in 0..N
    BY <1>2, <1>11, AfterIs
  <2> QED  BY <1>2, <1>11, <2>1, CutOutIs
<1> HIDE DEF baseIndent
<1>13. start \in 0..N
  <2>1. SolidBefore(t, o, Spacing) \in 0..o
    BY <1>10, BeforeIs
  <2> QED  BY <1>10, <2>1
<1>14. end \in 0..N
  BY <1>2, AfterIs
<1> HIDE DEF start, end
<1>15. /\ <<Indentation>> \in Seq(A) /\ <<LineFeed>> \in Seq(A) /\ <<>> \in Seq(A)
       /\ baseIndent \o <<Indentation>> \in Seq(A) /\ <<LineFeed>> \o baseIndent \in Seq(A)
  BY <1>12
<1>16. indent \in Seq(A)
  BY <1>12, <1>15
<1> HIDE DEF indent
<1>17. lines[last] \in Seq(A)
  <2>1. last \in first..last
    OBVIOUS
  <2> QED  BY <1>16, <2>1, LinesAre
<1> HIDE DEF lines
<1>18. replacement \in Seq(A)
  <2>1. PICK x \in Seq(A), y \in Seq(A) :
            /\ x = IF NeedsLeadingBreak(t, start) THEN <<LineFeed>> ELSE <<>>
            /\ y = IF NeedsTrailingBreak(t, end) THEN <<LineFeed>> \o baseIndent ELSE <<>>
    BY <1>15
  <2>2. x \o lines[last] \in Seq(A)
    BY <1>17
  <2>3. (x \o lines[last]) \o y \in Seq(A)
    BY <2>2
  <2> QED  BY <2>1, <2>3
<1> HIDE DEF replacement
<1>19. SubSeq(t, 1, start) \in Seq(A) /\ SubSeq(t, end + 1, Len(t)) \in Seq(A)
  BY <1>2, <1>13, <1>14, CutOutIs
<1>20. SubSeq(t, 1, start) \o replacement \in Seq(A)
  BY <1>18, <1>19
<1>21. (SubSeq(t, 1, start) \o replacement) \o SubSeq(t, end + 1, Len(t)) \in Seq(A)
  BY <1>19, <1>20
<1> QED  BY <1>1, <1>21

LEMMA ReflowedIs ==
  ASSUME NEW A, {Comma, LineFeed, Indentation} \subseteq A, NEW t \in Seq(A),
         NEW bounds, Bounded(t, bounds)
  PROVE  Reflowed(t, bounds) \in Seq(A)
<1> DEFINE cuts == <<bounds.open>> \o bounds.separators \o <<SolidBefore(t, bounds.close, White)>>
           items == [k \in 1 .. Len(cuts) - 1 |->
                        LET b == Trimmed(t, cuts[k] + 1, cuts[k + 1]) IN SubSeq(t, b[1] + 1, b[2])]
           filled == {k \in DOMAIN items : items[k] # <<>>}
           first == Min({Len(items)} \cup filled)
           last == Max({first} \cup filled)
<1>1. Reflowed(t, bounds) = LaidOut(t, cuts, items, first, last)
  BY DEF Reflowed
<1>2. PICK N \in Nat : N = Len(t)
  OBVIOUS
<1>3. PICK n \in Nat : n = Len(bounds.separators)
  BY <1>2 DEF Bounded
<1>4. /\ Len(cuts) = n + 2
      /\ \A k \in 1 .. n + 1 : cuts[k] \in -1 .. N - 1
      /\ \A k \in 2 .. n + 2 : cuts[k] \in 0..N
  <2>1. PICK c \in 0..N : c = SolidBefore(t, bounds.close, White)
    <3>1. bounds.close \in Nat /\ \A c \in 0..bounds.close : c \in 0..N
      BY <1>2 DEF Bounded
    <3> QED  BY <3>1, BeforeIs
  <2>2. bounds.open \in -1 .. N - 1 /\ bounds.separators \in Seq(0 .. N - 1)
    BY <1>2 DEF Bounded
  <2> QED  BY <1>3, <2>1, <2>2, CutsAre
<1> HIDE DEF cuts
<1>5. DOMAIN items = 1 .. n + 1 /\ Len(items) = n + 1
  BY <1>4
<1>6. ASSUME NEW k \in 1 .. n + 1 PROVE items[k] \in Seq(A)
  <2>1. k + 1 \in 2 .. n + 2
    OBVIOUS
  <2>2. PICK from \in Int, to \in 0..N : from = cuts[k] + 1 /\ to = cuts[k + 1] /\ from >= 0
    BY <1>4, <2>1
  <2>3. LET b == Trimmed(t, from, to) IN SubSeq(t, b[1] + 1, b[2]) \in Seq(A)
    BY <1>2, <2>2, ItemIs
  <2>4. items[k] = LET b == Trimmed(t, from, to) IN SubSeq(t, b[1] + 1, b[2])
    <3>1. k \in 1 .. Len(cuts) - 1
      BY <1>4
    <3>2. items[k] = LET b == Trimmed(t, cuts[k] + 1, cuts[k + 1]) IN SubSeq(t, b[1] + 1, b[2])
      BY <3>1
    <3> QED  BY <2>2, <3>2
  <2> QED  BY <2>3, <2>4
<1>7. filled \subseteq 1 .. n + 1
  BY <1>5
<1> HIDE DEF items, filled
<1>8. first \in 1 .. n + 1
  <2>1. {Len(items)} \cup filled \subseteq 1 .. n + 1 /\ {Len(items)} \cup filled \subseteq Nat /\ {Len(items)} \cup filled # {}
    BY <1>5, <1>7
  <2>2. first \in {Len(items)} \cup filled
    BY <2>1, MinIs
  <2> QED  BY <2>1, <2>2
<1> HIDE DEF first
<1>9. last \in 1 .. n + 1 /\ first <= last
  <2>1. {first} \cup filled \subseteq 1 .. n + 1 /\ {first} \cup filled \subseteq 0 .. n + 1 /\ {first} \cup filled # {}
    BY <1>7, <1>8
  <2>2. n + 1 \in Nat
    OBVIOUS
  <2>3. last \in {first} \cup filled /\ \A x \in {first} \cup filled : x <= last
    BY <2>1, <2>2, MaxIs
  <2> QED  BY <2>1, <2>3
<1> HIDE DEF last
<1>10. \A k \in first..last : items[k] \in Seq(A)
  <2>1. \A k \in first..last : k \in 1 .. n + 1
    BY <1>8, <1>9
  <2> QED  BY <1>6, <2>1
<1>11. cuts[first] \in -1 .. N - 1 /\ cuts[last + 1] \in 0..N
  <2>1. last + 1 \in 2 .. n + 2
    BY <1>9
  <2> QED  BY <1>4, <1>8, <2>1
<1>12. first \in Nat \ {0} /\ last \in Nat /\ first <= last
  BY <1>8, <1>9
<1>13. LaidOut(t, cuts, items, first, last) \in Seq(A)
  BY <1>2, <1>10, <1>11, <1>12, LaidOutIs
<1> QED  BY <1>1, <1>13

(* The bounds found are places of the text.                                 *)
LEMMA FoundWithin ==
  ASSUME NEW L, NEW t \in Seq(L), NEW pos \in Int, ListBounds(t, pos).close >= 0
  PROVE  Bounded(t, ListBounds(t, pos))
<1>1. PICK N, C : N \in Nat /\ N = Len(t) /\ C = MeantCode(t) /\ C \subseteq 1..N
  <2>1. MeantCode(t) \subseteq 1..Len(t) /\ Len(t) \in Nat
    BY CodesWithin
  <2> QED  BY <2>1
<1>2. PICK r : Looked(t, C, pos, N, r) /\ ListBounds(t, pos) = r.found
  BY <1>1, ListBoundsIs
<1>3. r.found \in Find /\ r.found.close # -1
  BY <1>2 DEF Looked, Searching, Find
<1>4. PICK p \in Pairs(t, C) : AsSet(r.found) = ListOf(t, C, p)
  BY <1>2, <1>3 DEF Looked, Answer
<1>5. C \subseteq Nat \ {0}
  BY <1>1
<1>6. p[1] \in 1..N /\ p[2] \in 1..N
  BY <1>1, <1>4, <1>5, PairIs
<1>7. r.found.open = p[1] - 1 /\ r.found.close = p[2] - 1
  BY <1>4 DEF AsSet, ListOf
<1>8. Range(r.found.separators) = {k - 1 : k \in {k \in C : /\ k \in p[1] .. p[2] /\ t[k] = Comma
                                                         /\ \A i \in p[1] + 1 .. k : ~OpenFrom(t, C, i, k)}}
  BY <1>4 DEF AsSet, ListOf
<1>9. Range(r.found.separators) \subseteq 0 .. N - 1
  <2>1. \A k \in C : k - 1 \in 0 .. N - 1
    BY <1>1
  <2> QED  BY <1>8, <2>1
<1>10. r.found.separators \in Seq(0 .. N - 1)
  <2>1. PICK s \in Seq(Nat) : s = r.found.separators
    BY <1>3 DEF Find
  <2>2. PICK S : S = 0 .. N - 1
    OBVIOUS
  <2>3. \A i \in 1..Len(s) : s[i] \in S
    BY <1>9, <2>1, <2>2 DEF Range
  <2>4. s \in Seq(S)
    BY <2>3
  <2> QED  BY <2>1, <2>2, <2>4
<1>11. r.found.open \in -1 .. N - 1 /\ r.found.close \in 0..N
  <2>1. \A x \in 1..N : x - 1 \in -1 .. N - 1 /\ x - 1 \in 0..N
    BY <1>1
  <2> QED  BY <1>6, <1>7, <2>1
<1> QED  BY <1>1, <1>2, <1>10, <1>11 DEF Bounded

(* The bounds found are the list's commas in the text's order.              *)
OnCommas(t, bounds) ==
    /\ Bounded(t, bounds) /\ CommasAscend(bounds.separators)
    /\ \A i \in 1..Len(bounds.separators) :
          /\ bounds.open < bounds.separators[i] /\ bounds.separators[i] < bounds.close
          /\ t[bounds.separators[i] + 1] = Comma

LEMMA FoundOnCommas ==
  ASSUME NEW L, NEW t \in Seq(L), NEW pos \in Int, ListBounds(t, pos).close >= 0
  PROVE  OnCommas(t, ListBounds(t, pos))
<1>1. PICK N, C : N \in Nat /\ N = Len(t) /\ C = MeantCode(t) /\ C \subseteq 1..N
  <2>1. MeantCode(t) \subseteq 1..Len(t) /\ Len(t) \in Nat
    BY CodesWithin
  <2> QED  BY <2>1
<1>2. PICK r : Looked(t, C, pos, N, r) /\ CommasAscend(r.found.separators) /\ ListBounds(t, pos) = r.found
  BY <1>1, ListBoundsIs
<1>3. r.found \in Find /\ r.found.close # -1
  BY <1>2 DEF Looked, Searching, Find
<1>4. PICK p \in Pairs(t, C) : AsSet(r.found) = ListOf(t, C, p)
  BY <1>2, <1>3 DEF Looked, Answer
<1>5. C \subseteq Nat \ {0}
  BY <1>1
<1>6. p[1] \in Nat \ {0} /\ p[2] \in Nat \ {0} /\ t[p[2]] = ")" /\ t[p[1]] = "("
  <2>1. OpenFrom(t, C, p[1], p[2])
    BY <1>4 DEF Pairs
  <2> QED  BY <1>4, <1>5, <2>1, PairIs DEF OpenFrom
<1>7. r.found.open = p[1] - 1 /\ r.found.close = p[2] - 1
  BY <1>4 DEF AsSet, ListOf
<1>8. Range(r.found.separators) = {k - 1 : k \in {k \in C : /\ k \in p[1] .. p[2] /\ t[k] = Comma
                                                         /\ \A i \in p[1] + 1 .. k : ~OpenFrom(t, C, i, k)}}
  BY <1>4 DEF AsSet, ListOf
<1>9. ASSUME NEW i \in 1..Len(r.found.separators)
      PROVE  /\ r.found.open < r.found.separators[i] /\ r.found.separators[i] < r.found.close
             /\ t[r.found.separators[i] + 1] = Comma
  <2>1. r.found.separators[i] \in Range(r.found.separators)
    <3>1. DOMAIN r.found.separators = 1..Len(r.found.separators)
      BY <1>3 DEF Find
    <3> QED  BY <3>1 DEF Range
  <2>2. PICK k \in C : r.found.separators[i] = k - 1 /\ k \in p[1] .. p[2] /\ t[k] = Comma
    BY <1>8, <2>1
  <2>3. k # p[1] /\ k # p[2]
    BY <1>6, <2>2, CommaApart
  <2>4. k \in Nat /\ p[1] < k /\ k < p[2] /\ (k - 1) + 1 = k
    BY <1>5, <1>6, <2>2, <2>3
  <2>5. p[1] - 1 < k - 1 /\ k - 1 < p[2] - 1
    BY <1>6, <2>4
  <2> QED  BY <1>7, <2>2, <2>4, <2>5
<1>10. Bounded(t, ListBounds(t, pos))
  BY FoundWithin
<1> QED  BY <1>2, <1>9, <1>10 DEF OnCommas

(* The same of a selection, whose commas are read at depth 0.               *)
Ranges == [depth : Int, commas : Seq(Nat)]
Ranged(t, from, to, r, k) ==
    /\ r \in Ranges /\ Read(r.commas, k)
    /\ \A i \in 1..Len(r.commas) : from <= r.commas[i] /\ r.commas[i] < to /\ t[r.commas[i] + 1] = Comma

LEMMA RangedLater ==
  ASSUME NEW t, NEW from, NEW to, NEW k \in Nat \ {0}, NEW r, Ranged(t, from, to, r, k - 1)
  PROVE  Ranged(t, from, to, r, k)
<1>1. r.commas \in Seq(Nat) /\ Read(r.commas, k - 1)
  BY DEF Ranged, Ranges
<1> QED  BY <1>1, ReadLater DEF Ranged

LEMMA RangedVisit ==
  ASSUME NEW t, NEW from \in Nat, NEW to \in Nat, NEW k \in from + 1 .. to,
         NEW r, Ranged(t, from, to, r, k - 1)
  PROVE  Ranged(t, from, to, RangeVisit(r, t, k), k)
<1>0. k \in Nat \ {0} /\ r \in Ranges /\ Ranged(t, from, to, r, k)
  <2>1. k \in Nat \ {0} /\ r \in Ranges
    BY DEF Ranged
  <2> QED  BY <2>1, RangedLater
<1>1. CASE t[k] = "("
  <2>0. t[k] # ")" /\ t[k] # Comma
    BY <1>1, CommaApart
  <2>1. RangeVisit(r, t, k) = [r EXCEPT !.depth = @ + 1]
    BY <1>1, <2>0 DEF RangeVisit
  <2>2. PICK v : v = RangeVisit(r, t, k) /\ v \in Ranges /\ v.commas = r.commas
    BY <1>0, <2>1 DEF Ranges
  <2> QED  BY <1>0, <2>2 DEF Ranged
<1>2. CASE t[k] = ")"
  <2>1. t[k] # "(" /\ t[k] # Comma
    BY <1>2, CommaApart
  <2>2. RangeVisit(r, t, k) = [r EXCEPT !.depth = Max({0, @ - 1})]
    BY <1>2, <2>1 DEF RangeVisit
  <2>3. PICK d \in Int : d = r.depth - 1
    BY <1>0 DEF Ranges
  <2>4. Max({0, d}) \in Int
    <3>1. \E x \in {0, d} : \A y \in {0, d} : x >= y
      <4>1. CASE d >= 0
        BY <4>1
      <4>2. CASE ~(d >= 0)
        BY <4>2
      <4> QED  BY <4>1, <4>2
    <3>2. Max({0, d}) \in {0, d}
      BY <3>1 DEF Max
    <3> QED  BY <3>2
  <2>5. PICK m \in Int : m = Max({0, r.depth - 1})
    BY <2>3, <2>4
  <2>6. RangeVisit(r, t, k) = [r EXCEPT !.depth = m]
    BY <2>2, <2>5
  <2>7. PICK v : v = RangeVisit(r, t, k) /\ v \in Ranges /\ v.commas = r.commas
    BY <1>0, <2>6 DEF Ranges
  <2> QED  BY <1>0, <2>7 DEF Ranged
<1>3. CASE t[k] = Comma /\ r.depth = 0
  <2>1. t[k] # "(" /\ t[k] # ")"
    BY <1>3, CommaApart
  <2>2. PICK s \in Seq(Nat), n \in Nat : s = r.commas /\ n = Len(s) /\ Read(s, k - 1)
    BY <1>0 DEF Ranged, Ranges
  <2>3. PICK d : d = Append(s, k - 1)
    OBVIOUS
  <2>4. d \in Seq(Nat) /\ Read(d, k)
    BY <1>0, <2>2, <2>3, ReadNext
  <2>5. Len(d) = n + 1 /\ d[n + 1] = k - 1 /\ \A i \in 1..n : d[i] = s[i]
    BY <2>2, <2>3
  <2>6. RangeVisit(r, t, k) = [r EXCEPT !.commas = d]
    BY <1>3, <2>1, <2>2, <2>3 DEF RangeVisit
  <2>7. PICK v : v = RangeVisit(r, t, k) /\ v \in Ranges /\ v.commas = d
    BY <1>0, <2>4, <2>6 DEF Ranges
  <2>8. ASSUME NEW i \in 1..(n + 1) PROVE from <= d[i] /\ d[i] < to /\ t[d[i] + 1] = Comma
    <3>1. CASE i = n + 1
      <4>1. from <= k - 1 /\ k - 1 < to /\ (k - 1) + 1 = k
        OBVIOUS
      <4> QED  BY <1>3, <2>5, <3>1, <4>1
    <3>2. CASE i # n + 1
      <4>1. i \in 1..n
        BY <3>2
      <4> QED  BY <1>0, <2>2, <2>5, <4>1 DEF Ranged
    <3> QED  BY <3>1, <3>2
  <2> QED  BY <2>4, <2>5, <2>7, <2>8 DEF Ranged
<1>4. CASE t[k] # "(" /\ t[k] # ")" /\ ~(t[k] = Comma /\ r.depth = 0)
  <2>1. RangeVisit(r, t, k) = r
    BY <1>4 DEF RangeVisit
  <2> QED  BY <1>0, <2>1
<1> QED  BY <1>1, <1>2, <1>3, <1>4

LEMMA RangedOnCommas ==
  ASSUME NEW L, NEW t \in Seq(L), NEW from \in 0..Len(t), NEW to \in 0..Len(t), from < to
  PROVE  OnCommas(t, ListBoundsInRange(t, from, to))
<1>1. PICK N \in Nat : N = Len(t) /\ from \in Nat /\ to \in 0..N
  OBVIOUS
<1>2. PICK code : code = {i \in CodeOf(t) : i > from /\ i <= to}
  OBVIOUS
<1> DEFINE base == [depth |-> 0, commas |-> <<>>]
           good == [k \in 0..N |-> {r \in Ranges : Ranged(t, from, to, r, k)}]
           next == [k \in 1..N |-> [r \in Ranges |-> IF k \in code THEN RangeVisit(r, t, k) ELSE r]]
           Reads(h) == h = [i \in 0..N |-> IF i = 0 THEN base
                                           ELSE IF i \in code THEN RangeVisit(h[i - 1], t, i) ELSE h[i - 1]]
           r == CHOOSE h : Reads(h)
<1>3. ListBoundsInRange(t, from, to) = [open |-> from - 1, close |-> to, separators |-> r[N].commas]
  <2>1. ~(from < 0 \/ to < from \/ to > Len(t))
    OBVIOUS
  <2> QED  BY <1>1, <1>2, <2>1 DEF ListBoundsInRange
<1>4. \A k \in 0..N : \A x : x \in good[k] <=> Ranged(t, from, to, x, k)
  BY DEF Ranged
<1>5. base \in good[0]
  <2>1. Ranged(t, from, to, base, 0)
    BY DEF Ranged, Ranges, Read, CommasAscend
  <2>2. 0 \in 0..N
    OBVIOUS
  <2> QED  BY <1>4, <2>1, <2>2
<1> HIDE DEF base
<1>6. ASSUME NEW k \in 1..N, NEW x \in good[k - 1]
      PROVE  /\ next[k][x] = (IF k \in code THEN RangeVisit(x, t, k) ELSE x)
             /\ next[k][x] \in good[k]
  <2>1. k - 1 \in 0..N /\ k \in 0..N /\ k \in Nat \ {0}
    OBVIOUS
  <2>2. Ranged(t, from, to, x, k - 1) /\ x \in Ranges
    BY <1>4, <2>1 DEF Ranged
  <2>3. next[k][x] = (IF k \in code THEN RangeVisit(x, t, k) ELSE x)
    BY <2>2
  <2>4. Ranged(t, from, to, IF k \in code THEN RangeVisit(x, t, k) ELSE x, k)
    <3>1. k \in code => k \in from + 1 .. to
      BY <1>1, <1>2
    <3>2. to \in Nat
      OBVIOUS
    <3> QED  BY <1>1, <2>1, <2>2, <3>1, <3>2, RangedVisit, RangedLater
  <2> HIDE DEF next, good
  <2> QED  BY <1>4, <2>1, <2>3, <2>4
<1> HIDE DEF next, good
<1>7. \A k \in 1..N : \A x \in good[k - 1] : next[k][x] \in good[k]
  BY <1>6
<1>8. /\ \E g : Staged(g, N, base, next) /\ \A k \in 0..N : g[k] \in good[k]
      /\ \A h : Climbs(h, N, base, next, good) => \A k \in 0..N : h[k] \in good[k]
  BY <1>5, <1>7, StagedRecursion
<1>9. \E g : Reads(g)
  <2>1. PICK g : Staged(g, N, base, next) /\ \A k \in 0..N : g[k] \in good[k]
    BY <1>8
  <2>2. \A k \in 0..N : (IF k = 0 THEN base ELSE next[k][g[k - 1]])
                          = (IF k = 0 THEN base
                             ELSE IF k \in code THEN RangeVisit(g[k - 1], t, k) ELSE g[k - 1])
    <3> SUFFICES ASSUME NEW k \in 0..N, k # 0
                 PROVE  next[k][g[k - 1]] = (IF k \in code THEN RangeVisit(g[k - 1], t, k) ELSE g[k - 1])
      OBVIOUS
    <3>1. k \in 1..N /\ k - 1 \in 0..N
      OBVIOUS
    <3>2. g[k - 1] \in good[k - 1]
      BY <2>1, <3>1
    <3> QED  BY <1>6, <3>1, <3>2
  <2>3. Reads(g)
    BY <2>1, <2>2 DEF Staged
  <2> QED  BY <2>3
<1>10. Reads(r)
  BY <1>9
<1> HIDE DEF r
<1>11. Climbs(r, N, base, next, good)
  <2>1. r[0] = base
    BY <1>10
  <2>2. ASSUME NEW k \in 1..N, r[k - 1] \in good[k - 1] PROVE r[k] = next[k][r[k - 1]]
    <3>1. k \in 0..N /\ k # 0
      OBVIOUS
    <3>2. r[k] = IF k \in code THEN RangeVisit(r[k - 1], t, k) ELSE r[k - 1]
      BY <1>10, <3>1
    <3> QED  BY <1>6, <2>2, <3>2
  <2> QED  BY <2>1, <2>2 DEF Climbs
<1>12. Ranged(t, from, to, r[N], N)
  <2>1. N \in 0..N
    OBVIOUS
  <2> QED  BY <1>4, <1>8, <1>11, <2>1
<1>13. PICK s \in Seq(Nat) : s = r[N].commas
  BY <1>12 DEF Ranged, Ranges
<1>14. /\ CommasAscend(s)
       /\ \A i \in 1..Len(s) : s[i] < N /\ from <= s[i] /\ s[i] < to /\ t[s[i] + 1] = Comma
  BY <1>12, <1>13 DEF Ranged, Read
<1>15. PICK bounds : /\ bounds = ListBoundsInRange(t, from, to) /\ bounds.separators = s
                     /\ bounds.open = from - 1 /\ bounds.close = to
  BY <1>3, <1>13
<1>16. Bounded(t, bounds)
  <2>1. PICK S : S = 0 .. N - 1
    OBVIOUS
  <2>2. \A i \in 1..Len(s) : s[i] \in S
    BY <1>14, <2>1
  <2>3. s \in Seq(S)
    BY <2>2
  <2>4. from - 1 \in -1 .. N - 1 /\ to \in 0..N
    BY <1>1
  <2> QED  BY <1>1, <1>15, <2>1, <2>3, <2>4 DEF Bounded
<1>17. ASSUME NEW i \in 1..Len(s) PROVE bounds.open < s[i] /\ s[i] < bounds.close /\ t[s[i] + 1] = Comma
  <2>1. s[i] \in Nat /\ from <= s[i]
    BY <1>14
  <2>2. from - 1 < s[i]
    BY <1>1, <2>1
  <2> QED  BY <1>14, <1>15, <2>2
<1> QED  BY <1>14, <1>15, <1>16, <1>17 DEF OnCommas

(* Every text is of the lexemes of a script, with the layout of a split.    *)
LEMMA SplitTyped ==
  ASSUME SqlTypeOK, NEW bounds, Bounded(sql, bounds), Comma \in Range(sql),
         sql' = Reflowed(sql, bounds), lists' = 1
  PROVE  SqlTypeOK'
<1>1. PICK script \in Scripts : sql \in Seq(script.of \cup {Indentation, LineFeed})
  BY DEF SqlTypeOK
<1> DEFINE A == script.of \cup {Indentation, LineFeed}
<1>2. {Comma, LineFeed, Indentation} \subseteq A
  <2>1. PICK i \in DOMAIN sql : sql[i] = Comma
    BY DEF Range
  <2> QED  BY <1>1, <2>1
<1> HIDE DEF A
<1>3. sql' \in Seq(A)
  <2>1. sql \in Seq(A)
    BY <1>1 DEF A
  <2> QED  BY <1>2, <2>1, ReflowedIs
<1> QED  BY <1>3 DEF A, SqlTypeOK

(* Every text is of the lexemes of one script, with the layout a split      *)
(* gives it, for any scripts: whatever the bounds found, the pieces a list  *)
(* is made of anew are pieces of the text (reflowList()).                   *)
THEOREM SqlTyped == SqlSpec => []SqlTypeOK
<1>1. SqlInit => SqlTypeOK
  <2> SUFFICES ASSUME SqlInit PROVE SqlTypeOK
    OBVIOUS
  <2>1. PICK script \in Scripts : script.upTo \in Nat
    BY SqlAssumption
  <2>2. sql = <<>> /\ lists = 0 /\ Len(sql) = 0 /\ sql \in Seq(script.of \cup {Indentation, LineFeed})
    BY DEF SqlInit
  <2> QED  BY <2>1, <2>2 DEF SqlTypeOK
<1>2. ASSUME SqlTypeOK, [SqlNext]_sqlVars PROVE SqlTypeOK'
  <2>1. ASSUME NEW l, TypeLexeme(l) PROVE SqlTypeOK'
    <3>1. PICK script \in Scripts : Len(sql) < script.upTo /\ Range(sql) \cup {l} \subseteq script.of
      BY <2>1 DEF TypeLexeme
    <3>2. PICK X : sql \in Seq(X)
      BY <1>2 DEF SqlTypeOK
    <3>3. \A i \in 1..Len(sql) : sql[i] \in script.of
      BY <3>1, <3>2 DEF Range
    <3> DEFINE A == script.of \cup {Indentation, LineFeed}
    <3>4. sql \in Seq(A) /\ l \in A
      BY <3>1, <3>2, <3>3
    <3> HIDE DEF A
    <3>5. sql' = Append(sql, l) /\ lists' = lists /\ lists = 0
      BY <2>1 DEF TypeLexeme
    <3>6. sql' \in Seq(A) /\ Len(sql') = Len(sql) + 1
      BY <3>4, <3>5
    <3>7. script.upTo \in Nat /\ Len(sql) \in Nat
      BY <3>2, SqlAssumption
    <3>8. Len(sql') <= script.upTo
      BY <3>1, <3>6, <3>7
    <3> QED  BY <3>5, <3>6, <3>8 DEF A, SqlTypeOK
  <2>2. ASSUME NEW to \in 0..Len(sql), NEW from \in 0..Len(sql), from <= to, OnSplitListRequest(from, to)
        PROVE  SqlTypeOK'
    <3>1. PICK bounds : bounds = CurrentListBounds(sql, from, to)
      OBVIOUS
    <3>2. /\ Comma \in Range(sql) /\ bounds.close >= 0 /\ sql' = Reflowed(sql, bounds) /\ lists' = 1
      BY <2>2, <3>1 DEF OnSplitListRequest
    <3>3. PICK X : sql \in Seq(X)
      BY <1>2 DEF SqlTypeOK
    <3>4. Bounded(sql, bounds)
      <4>1. CASE from < to
        BY <3>1, <3>3, <4>1, RangedOnCommas DEF CurrentListBounds, OnCommas
      <4>2. CASE ~(from < to)
        <5>1. bounds = ListBounds(sql, to) /\ to \in Int
          BY <3>1, <4>2 DEF CurrentListBounds
        <5> QED  BY <3>2, <3>3, <5>1, FoundWithin
      <4> QED  BY <4>1, <4>2
    <3> QED  BY <1>2, <3>2, <3>4, SplitTyped
  <2>3. ASSUME NEW long, AutoSplitRoutineSignature(long) PROVE SqlTypeOK'
    <3>1. PICK bounds : bounds = ListBounds(sql, -1)
      OBVIOUS
    <3>2. /\ Comma \in Range(sql) /\ bounds.close >= 0 /\ sql' = Reflowed(sql, bounds) /\ lists' = 1
      BY <2>3, <3>1 DEF AutoSplitRoutineSignature
    <3>3. PICK X : sql \in Seq(X)
      BY <1>2 DEF SqlTypeOK
    <3>4. Bounded(sql, bounds)
      BY <3>1, <3>2, <3>3, FoundWithin
    <3> QED  BY <1>2, <3>2, <3>4, SplitTyped
  <2>4. CASE UNCHANGED sqlVars
    BY <1>2, <2>4 DEF sqlVars, SqlTypeOK
  <2> QED  BY <1>2, <2>1, <2>2, <2>3, <2>4 DEF SqlNext
<1> QED  BY <1>1, <1>2, PTL DEF SqlSpec

(* What is gathered of a text, lexeme by lexeme.                            *)
Gathers(g, t, S) ==
    /\ g \in [0..Len(t) -> S] /\ g[0] = <<>>
    /\ \A i \in 1..Len(t) : g[i] = IF t[i] \in White THEN g[i - 1] ELSE Append(g[i - 1], t[i])

LEMMA SolidsGather ==
  ASSUME NEW A, NEW t \in Seq(A)
  PROVE  \E g : Gathers(g, t, Seq(A)) /\ Solids(t) = g[Len(t)]
<1>1. PICK N \in Nat : N = Len(t) /\ \A i \in 1..N : t[i] \in A
  OBVIOUS
<1> DEFINE D == Seq(A)
           base == <<>>
           next == [k \in 1..N |-> [x \in D |-> IF t[k] \in White THEN x ELSE Append(x, t[k])]]
           Reads(h) == h = [i \in 0..N |-> IF i = 0 THEN base
                                           ELSE IF t[i] \in White THEN h[i - 1] ELSE Append(h[i - 1], t[i])]
           r == CHOOSE h : Reads(h)
<1>2. Solids(t) = r[N]
  BY <1>1 DEF Solids
<1>3. base \in D
  OBVIOUS
<1> HIDE DEF base
<1>4. ASSUME NEW k \in 1..N, NEW x \in D
      PROVE  /\ next[k][x] = (IF t[k] \in White THEN x ELSE Append(x, t[k]))
             /\ next[k][x] \in D
  <2>1. next[k][x] = (IF t[k] \in White THEN x ELSE Append(x, t[k]))
    OBVIOUS
  <2>2. t[k] \in A
    BY <1>1
  <2>3. Append(x, t[k]) \in D
    BY <2>2
  <2> HIDE DEF D, next
  <2> QED  BY <2>1, <2>3
<1> HIDE DEF next, D
<1>5. \A k \in 1..N : \A x \in D : next[k][x] \in D
  BY <1>4
<1>6. /\ \E g : Staged(g, N, base, next) /\ g \in [0..N -> D]
      /\ \A h : Proceeds(h, N, base, next, D) => \A k \in 0..N : h[k] \in D
  BY <1>3, <1>5, Recursive
<1>7. PICK g : Staged(g, N, base, next) /\ g \in [0..N -> D]
  BY <1>6
<1>8. \A k \in 0..N : (IF k = 0 THEN base ELSE next[k][g[k - 1]])
                        = (IF k = 0 THEN base
                           ELSE IF t[k] \in White THEN g[k - 1] ELSE Append(g[k - 1], t[k]))
  <2> SUFFICES ASSUME NEW k \in 0..N, k # 0
               PROVE  next[k][g[k - 1]] = (IF t[k] \in White THEN g[k - 1] ELSE Append(g[k - 1], t[k]))
    OBVIOUS
  <2>1. k \in 1..N /\ k - 1 \in 0..N
    OBVIOUS
  <2>2. g[k - 1] \in D
    BY <1>7, <2>1
  <2> QED  BY <1>4, <2>1, <2>2
<1>9. Reads(g)
  BY <1>7, <1>8 DEF Staged
<1>10. Reads(r)
  BY <1>9
<1> HIDE DEF r
<1>11. Proceeds(r, N, base, next, D)
  <2>1. r[0] = base
    BY <1>10
  <2>2. ASSUME NEW k \in 1..N, r[k - 1] \in D PROVE r[k] = next[k][r[k - 1]]
    <3>1. k \in 0..N /\ k # 0
      OBVIOUS
    <3>2. r[k] = IF t[k] \in White THEN r[k - 1] ELSE Append(r[k - 1], t[k])
      BY <1>10, <3>1
    <3> QED  BY <1>4, <2>2, <3>2
  <2> QED  BY <2>1, <2>2 DEF Proceeds
<1>12. \A k \in 0..N : r[k] \in D
  BY <1>6, <1>11
<1>13. r = [k \in 0..N |-> r[k]]
  BY <1>10
<1>14. r \in [0..N -> D]
  BY <1>12, <1>13
<1>15. \A k \in 0..N : r[k] = IF k = 0 THEN base
                               ELSE IF t[k] \in White THEN r[k - 1] ELSE Append(r[k - 1], t[k])
  BY <1>10
<1>16. r[0] = base /\ \A k \in 1..N : r[k] = IF t[k] \in White THEN r[k - 1] ELSE Append(r[k - 1], t[k])
  <2>1. 0 \in 0..N /\ \A k \in 1..N : k \in 0..N /\ k # 0
    OBVIOUS
  <2> QED  BY <1>15, <2>1
<1> QED  BY <1>1, <1>2, <1>14, <1>16 DEF Gathers, D, base

LEMMA SolidsOf ==
  ASSUME NEW A, NEW t \in Seq(A)
  PROVE  Solids(t) \in Seq(A)
<1>1. PICK N \in Nat : N = Len(t)
  OBVIOUS
<1>2. PICK g : Gathers(g, t, Seq(A)) /\ Solids(t) = g[N]
  BY <1>1, SolidsGather
<1> QED  BY <1>1, <1>2 DEF Gathers

LEMMA SolidsBlank ==
  ASSUME NEW A, NEW t \in Seq(A), \A i \in 1..Len(t) : t[i] \in White
  PROVE  Solids(t) = <<>>
<1>1. PICK N \in Nat : N = Len(t)
  OBVIOUS
<1>2. PICK g : Gathers(g, t, Seq(A)) /\ Solids(t) = g[N]
  BY <1>1, SolidsGather
<1> DEFINE G == {i \in 0..N : g[i] = <<>>}
<1>3. 0 \in G
  BY <1>2 DEF Gathers
<1>4. \A i \in Nat : i < N /\ i \in G => i + 1 \in G
  <2> SUFFICES ASSUME NEW i \in Nat, i < N, i \in G PROVE i + 1 \in G
    OBVIOUS
  <2>1. i + 1 \in 1..N /\ i + 1 \in 0..N /\ (i + 1) - 1 = i
    OBVIOUS
  <2>2. t[i + 1] \in White
    BY <1>1, <2>1
  <2>3. g[i + 1] = g[i]
    BY <1>1, <1>2, <2>1, <2>2 DEF Gathers
  <2> QED  BY <2>1, <2>3
<1> HIDE DEF G
<1>5. N \in G
  <2>1. 0..N \subseteq G
    BY <1>3, <1>4, BoundedInduction
  <2> QED  BY <2>1
<1> QED  BY <1>2, <1>5 DEF G

LEMMA SolidsOne ==
  ASSUME NEW A, NEW x \in A, x \notin White
  PROVE  Solids(<<x>>) = <<x>>
<1>0. PICK t : t = <<x>>
  OBVIOUS
<1>1. t \in Seq(A) /\ t = <<x>> /\ Len(t) = 1 /\ t[1] = x
  BY <1>0
<1>2. PICK g : Gathers(g, t, Seq(A)) /\ Solids(t) = g[1]
  BY <1>1, SolidsGather
<1>3. g[1] = Append(g[0], x) /\ g[0] = <<>>
  <2>1. 1 \in 1..1 /\ 1 - 1 = 0
    OBVIOUS
  <2> QED  BY <1>1, <1>2, <2>1 DEF Gathers
<1>4. Append(<<>>, x) = <<x>>
  OBVIOUS
<1> QED  BY <1>1, <1>2, <1>3, <1>4

GrowsBy(p, q, x) == Append(p \o q, x) = p \o Append(q, x)
LEMMA OneMoreSolid ==
  ASSUME NEW A, NEW p \in Seq(A), NEW q \in Seq(A), NEW x \in A
  PROVE  GrowsBy(p, q, x)
<1>1. <<x>> \in Seq(A) /\ p \o q \in Seq(A)
  OBVIOUS
<1>2. ASSUME NEW w \in Seq(A) PROVE Append(w, x) = w \o <<x>>
  <2>1. PICK n \in Nat : n = Len(w)
    OBVIOUS
  <2>2. PICK y : y = Append(w, x)
    OBVIOUS
  <2>3. y \in Seq(A) /\ Len(y) = n + 1 /\ \A i \in 1..(n + 1) : y[i] = IF i = n + 1 THEN x ELSE w[i]
    BY <2>1, <2>2
  <2>4. PICK z : z = w \o <<x>>
    OBVIOUS
  <2>5. z \in Seq(A) /\ Joined(z, w, <<x>>) /\ Len(<<x>>) = 1 /\ <<x>>[1] = x
    BY <1>1, <2>4, Join
  <2>6. Len(z) = n + 1 /\ \A i \in 1..(n + 1) : z[i] = IF i = n + 1 THEN x ELSE w[i]
    <3>1. Len(z) = n + 1 /\ \A i \in 1..(n + 1) : z[i] = IF i <= n THEN w[i] ELSE <<x>>[i - n]
      BY <2>1, <2>5 DEF Joined
    <3>2. \A i \in 1..(n + 1) : ~(i <= n) => i = n + 1 /\ i - n = 1
      OBVIOUS
    <3>3. \A i \in 1..(n + 1) : i = n + 1 => ~(i <= n)
      OBVIOUS
    <3> QED  BY <2>5, <3>1, <3>2, <3>3
  <2>7. y = z
    BY <2>3, <2>5, <2>6, SeqEqual
  <2> QED  BY <2>2, <2>4, <2>7
<1>4. Append(p \o q, x) = (p \o q) \o <<x>> /\ Append(q, x) = q \o <<x>>
  BY <1>1, <1>2
<1>3. (p \o q) \o <<x>> = p \o (q \o <<x>>)
  BY <1>1, ConcatAssociative
<1> QED  BY <1>3, <1>4 DEF GrowsBy

LEMMA SolidsJoin ==
  ASSUME NEW A, NEW a \in Seq(A), NEW b \in Seq(A)
  PROVE  Solids(a \o b) = Solids(a) \o Solids(b)
<1>1. PICK m \in Nat, n \in Nat : m = Len(a) /\ n = Len(b)
  OBVIOUS
<1>2. PICK c \in Seq(A) : c = a \o b /\ Joined(c, a, b)
  BY Join
<1>3. Len(c) = m + n /\ \A i \in 1..(m + n) : c[i] = IF i <= m THEN a[i] ELSE b[i - m]
  BY <1>1, <1>2 DEF Joined
<1>4. PICK s : Gathers(s, c, Seq(A)) /\ Solids(c) = s[m + n]
  BY <1>3, SolidsGather
<1>5. PICK u : Gathers(u, a, Seq(A)) /\ Solids(a) = u[m]
  BY <1>1, SolidsGather
<1>6. PICK v : Gathers(v, b, Seq(A)) /\ Solids(b) = v[n]
  BY <1>1, SolidsGather
<1>7. /\ s[0] = <<>> /\ u[0] = <<>> /\ v[0] = <<>>
      /\ \A i \in 1..(m + n) : s[i] = IF c[i] \in White THEN s[i - 1] ELSE Append(s[i - 1], c[i])
      /\ \A i \in 1..m : u[i] = IF a[i] \in White THEN u[i - 1] ELSE Append(u[i - 1], a[i])
      /\ \A i \in 1..n : v[i] = IF b[i] \in White THEN v[i - 1] ELSE Append(v[i - 1], b[i])
      /\ \A i \in 0..m : u[i] \in Seq(A)
      /\ \A i \in 0..n : v[i] \in Seq(A)
  BY <1>1, <1>3, <1>4, <1>5, <1>6 DEF Gathers
<1> DEFINE G == {i \in 0..m : s[i] = u[i]}
           H == {j \in 0..n : s[m + j] = u[m] \o v[j]}
<1>8. 0 \in G
  BY <1>7
<1>9. \A i \in Nat : i < m /\ i \in G => i + 1 \in G
  <2> SUFFICES ASSUME NEW i \in Nat, i < m, i \in G PROVE i + 1 \in G
    OBVIOUS
  <2>1. /\ i + 1 \in 1..m /\ i + 1 \in 1..(m + n) /\ i + 1 \in 0..m /\ (i + 1) - 1 = i
        /\ i + 1 <= m
    OBVIOUS
  <2>2. c[i + 1] = a[i + 1]
    BY <1>3, <2>1
  <2>3. s[i + 1] = u[i + 1]
    BY <1>7, <2>1, <2>2
  <2> QED  BY <2>1, <2>3
<1> HIDE DEF G
<1>10. m \in G
  <2>1. 0..m \subseteq G
    BY <1>8, <1>9, BoundedInduction
  <2> QED  BY <2>1
<1>11. s[m] = u[m] /\ u[m] \in Seq(A)
  BY <1>7, <1>10 DEF G
<1>12. 0 \in H
  <2>1. PICK p \in Seq(A) : p = u[m] /\ p \o <<>> = p
    BY <1>11, ConcatEmptySeq
  <2>2. s[m + 0] = p /\ v[0] = <<>> /\ 0 \in 0..n
    BY <1>7, <1>11, <2>1
  <2>3. s[m + 0] = u[m] \o v[0]
    BY <2>1, <2>2
  <2> QED  BY <2>2, <2>3
<1>13. \A j \in Nat : j < n /\ j \in H => j + 1 \in H
  <2> SUFFICES ASSUME NEW j \in Nat, j < n, j \in H PROVE j + 1 \in H
    OBVIOUS
  <2>1. PICK k \in 1..(m + n) : k = m + (j + 1) /\ ~(k <= m) /\ k - m = j + 1 /\ k - 1 = m + j
    OBVIOUS
  <2>2. j + 1 \in 1..n /\ j + 1 \in 0..n /\ (j + 1) - 1 = j /\ j \in 0..n
    OBVIOUS
  <2>3. c[k] = b[j + 1] /\ b[j + 1] \in A
    BY <1>1, <1>3, <2>1, <2>2
  <2>4. s[m + j] = u[m] \o v[j] /\ v[j] \in Seq(A)
    BY <1>7, <2>2
  <2>5. CASE b[j + 1] \in White
    <3>1. s[k] = s[m + j] /\ v[j + 1] = v[j]
      BY <1>7, <2>1, <2>2, <2>3, <2>5
    <3> QED  BY <2>1, <2>2, <2>4, <3>1
  <2>6. CASE b[j + 1] \notin White
    <3>1. s[k] = Append(s[m + j], b[j + 1]) /\ v[j + 1] = Append(v[j], b[j + 1])
      BY <1>7, <2>1, <2>2, <2>3, <2>6
    <3>2. Append(u[m] \o v[j], b[j + 1]) = u[m] \o Append(v[j], b[j + 1])
      <4>1. PICK p \in Seq(A), q \in Seq(A), x \in A : p = u[m] /\ q = v[j] /\ x = b[j + 1]
        BY <1>11, <2>3, <2>4
      <4>2. GrowsBy(p, q, x)
        BY OneMoreSolid
      <4> QED  BY <4>1, <4>2 DEF GrowsBy
    <3> QED  BY <2>1, <2>2, <2>4, <3>1, <3>2
  <2> QED  BY <2>5, <2>6
<1> HIDE DEF H
<1>14. n \in H
  <2>1. 0..n \subseteq H
    BY <1>12, <1>13, BoundedInduction
  <2> QED  BY <2>1
<1> QED  BY <1>2, <1>4, <1>5, <1>6, <1>14 DEF H

PartsAt(t, a, b, c) == Solids(SubSeq(t, a, c)) = Solids(SubSeq(t, a, b)) \o Solids(SubSeq(t, b + 1, c))
LEMMA SolidsPart ==
  ASSUME NEW A, NEW t \in Seq(A), NEW a \in Nat \ {0}, NEW b \in Nat, NEW c \in Nat,
         a - 1 <= b, b <= c, c <= Len(t)
  PROVE  PartsAt(t, a, b, c)
<1>1. PICK N \in Nat : N = Len(t)
  OBVIOUS
<1>2. a \in 1..(N + 1) /\ b \in (a - 1)..N /\ c \in b..N
  BY <1>1
<1>3. SubSeq(t, a, b) \o SubSeq(t, b + 1, c) = SubSeq(t, a, c)
  BY <1>1, <1>2, ConcatAdjacentSubSeq
<1>4. SubSeq(t, a, b) \in Seq(A) /\ SubSeq(t, b + 1, c) \in Seq(A)
  BY <1>1, CutOutIs
<1> QED  BY <1>3, <1>4, SolidsJoin DEF PartsAt

LEMMA BlankPart ==
  ASSUME NEW A, NEW t \in Seq(A), NEW a \in Nat \ {0}, NEW b \in Nat, b <= Len(t),
         \A i \in a..b : t[i] \in White
  PROVE  Solids(SubSeq(t, a, b)) = <<>>
<1>1. PICK N \in Nat : N = Len(t) /\ \A i \in 1..N : t[i] \in A
  OBVIOUS
<1>2. \A i \in a..b : t[i] \in A
  BY <1>1
<1>3. PICK p : p = SubSeq(t, a, b)
  OBVIOUS
<1>4. /\ p \in Seq(A) /\ Len(p) = (IF a <= b THEN b - a + 1 ELSE 0)
      /\ \A i \in 1..(b - a + 1) : p[i] = t[a + i - 1]
  BY <1>2, <1>3, SubSeqProperties
<1>5. \A i \in 1..Len(p) : p[i] \in White
  <2> SUFFICES ASSUME NEW i \in 1..Len(p) PROVE p[i] \in White
    OBVIOUS
  <2>1. i \in 1..(b - a + 1) /\ a + i - 1 \in a..b
    BY <1>4
  <2> QED  BY <1>4, <2>1
<1> QED  BY <1>3, <1>4, <1>5, SolidsBlank

(* What lies between a place and the solid lexeme before or after it.       *)
LEMMA BeforeBlank ==
  ASSUME NEW t, NEW p \in Nat, NEW white
  PROVE  /\ \A i \in SolidBefore(t, p, white) + 1 .. p : t[i] \in white
         /\ \A i \in 1..p : t[i] \notin white => i <= SolidBefore(t, p, white)
<1> DEFINE S == {0} \cup {i \in 1..p : t[i] \notin white}
<1>1. S \subseteq 0..p /\ S # {}
  OBVIOUS
<1>2. PICK m : m = SolidBefore(t, p, white) /\ m = Max(S)
  BY DEF SolidBefore
<1>3. \A i \in 1..p : t[i] \notin white => i \in S
  OBVIOUS
<1> HIDE DEF S
<1>4. m \in 0..p /\ \A x \in S : x <= m
  BY <1>1, <1>2, MaxIs
<1>5. \A i \in 1..p : t[i] \notin white => i <= m
  BY <1>3, <1>4
<1>6. \A i \in m + 1 .. p : i \in 1..p /\ ~(i <= m)
  BY <1>4
<1> QED  BY <1>2, <1>5, <1>6

LEMMA AfterBlank ==
  ASSUME NEW A, NEW t \in Seq(A), NEW p \in 0..Len(t), NEW white
  PROVE  /\ SolidAfter(t, p, white) \in p..Len(t)
         /\ \A i \in p + 1 .. SolidAfter(t, p, white) : t[i] \in white
<1>1. PICK N \in Nat : N = Len(t)
  OBVIOUS
<1> DEFINE S == {N} \cup {i \in p .. N - 1 : t[i + 1] \notin white}
<1>2. S \subseteq p..N /\ S \subseteq Nat /\ S # {}
  BY <1>1
<1>3. PICK m : m = SolidAfter(t, p, white) /\ m = Min(S)
  BY <1>1 DEF SolidAfter
<1>4. N \in S /\ \A i \in p .. N - 1 : t[i + 1] \notin white => i \in S
  OBVIOUS
<1> HIDE DEF S
<1>5. m \in S /\ \A x \in S : m <= x
  BY <1>2, <1>3, MinIs
<1>6. m \in p..N
  BY <1>2, <1>5
<1>7. ASSUME NEW i \in p + 1 .. m PROVE t[i] \in white
  <2>1. i - 1 \in p .. N - 1 /\ (i - 1) + 1 = i /\ ~(m <= i - 1)
    BY <1>1, <1>6
  <2> QED  BY <1>4, <1>5, <2>1
<1> QED  BY <1>1, <1>3, <1>6, <1>7

LEMMA Blanks ==
  Spacing \subseteq White /\ LineFeed \in White /\ Indentation \in White /\ Comma \notin White
<1>1. Comma # LineFeed /\ Comma # Indentation /\ Comma # " "
  BY DEF Comma, LineFeed, Indentation
<1> QED  BY <1>1 DEF White, Spacing

(* An item says what its stretch of the text does.                          *)
LEMMA ItemSolids ==
  ASSUME NEW A, NEW t \in Seq(A), NEW from \in Nat, NEW to \in 0..Len(t), from <= to
  PROVE  LET b == Trimmed(t, from, to)
         IN  Solids(SubSeq(t, b[1] + 1, b[2])) = Solids(SubSeq(t, from + 1, to))
<1>1. PICK N \in Nat : N = Len(t) /\ to \in 0..N /\ to \in Nat
  OBVIOUS
<1> DEFINE S == Solid(t, from, to)
<1>2. S \subseteq 0..to /\ S \subseteq Nat
  BY DEF Solid
<1>3. CASE S = {}
  <2>1. Trimmed(t, from, to) = <<to, to>>
    BY <1>1, <1>3, TrimmedIs
  <2>2. \A i \in from + 1 .. to : t[i] \in White
    BY <1>3 DEF Solid
  <2>3. Solids(SubSeq(t, from + 1, to)) = <<>>
    BY <1>1, <2>2, BlankPart
  <2>4. Solids(SubSeq(t, to + 1, to)) = <<>>
    <3>1. \A i \in to + 1 .. to : t[i] \in White
      OBVIOUS
    <3> QED  BY <1>1, <3>1, BlankPart
  <2> QED  BY <2>1, <2>3, <2>4
<1>4. CASE S # {}
  <2>1. PICK a, b : /\ a = Min(S) /\ b = Max(S)
                    /\ Trimmed(t, from, to) = <<a - 1, b>> /\ a \in from + 1 .. to /\ b \in a..to
    BY <1>1, <1>4, TrimmedIs
  <2>2. a \in Nat \ {0} /\ b \in Nat /\ (a - 1) + 1 = a /\ a - 1 <= b /\ b <= N /\ to <= N
    BY <1>1, <2>1
  <2>3. \A x \in S : a <= x /\ x <= b
    <3> HIDE DEF S
    <3>1. \A x \in S : a <= x
      BY <1>2, <1>4, <2>1, MinIs
    <3>2. \A x \in S : x <= b
      BY <1>1, <1>2, <1>4, <2>1, MaxIs
    <3> QED  BY <3>1, <3>2
  <2>4. \A i \in from + 1 .. to : t[i] \notin White => a <= i /\ i <= b
    BY <2>3 DEF Solid
  <2>5. \A i \in from + 1 .. a - 1 : t[i] \in White
    <3>1. \A i \in from + 1 .. a - 1 : i \in from + 1 .. to /\ ~(a <= i)
      BY <2>1, <2>2
    <3> QED  BY <2>4, <3>1
  <2>6. \A i \in b + 1 .. to : t[i] \in White
    <3>1. \A i \in b + 1 .. to : i \in from + 1 .. to /\ ~(i <= b)
      BY <2>1, <2>2
    <3> QED  BY <2>4, <3>1
  <2>7. PICK u, v, w : u = Solids(SubSeq(t, from + 1, a - 1)) /\ v = Solids(SubSeq(t, a, b)) /\ w = Solids(SubSeq(t, b + 1, to))
    OBVIOUS
  <2>8. from + 1 \in Nat \ {0} /\ a - 1 \in Nat /\ from <= a - 1 /\ a - 1 <= to /\ b <= to
    BY <1>1, <2>1, <2>2
  <2>9. u = <<>> /\ w = <<>>
    <3>1. u = <<>>
      BY <1>1, <2>2, <2>5, <2>7, <2>8, BlankPart
    <3>2. b + 1 \in Nat \ {0}
      BY <2>2
    <3>3. w = <<>>
      BY <1>1, <2>6, <2>7, <3>2, BlankPart
    <3> QED  BY <3>1, <3>3
  <2>10. Solids(SubSeq(t, from + 1, to)) = u \o Solids(SubSeq(t, a, to))
    <3>1. (from + 1) - 1 <= a - 1 /\ to <= Len(t)
      BY <1>1, <2>2, <2>8
    <3>2. PartsAt(t, from + 1, a - 1, to)
      BY <1>1, <2>8, <3>1, SolidsPart
    <3> QED  BY <2>2, <2>7, <3>2 DEF PartsAt
  <2>11. Solids(SubSeq(t, a, to)) = v \o w
    <3>1. PartsAt(t, a, b, to)
      BY <1>1, <2>2, <2>8, SolidsPart
    <3> QED  BY <2>7, <3>1 DEF PartsAt
  <2>12. v \in Seq(A)
    <3>1. SubSeq(t, a, b) \in Seq(A)
      BY <1>1, <2>2, CutOutIs
    <3> QED  BY <2>7, <3>1, SolidsOf
  <2>13. Solids(SubSeq(t, from + 1, to)) = v
    BY <2>9, <2>10, <2>11, <2>12, ConcatEmptySeq
  <2> QED  BY <2>1, <2>2, <2>7, <2>13
<1> QED  BY <1>3, <1>4

LEMMA SolidsBeside ==
  ASSUME NEW A, NEW x \in Seq(A), NEW y \in Seq(A), Solids(y) = <<>>
  PROVE  x \o y \in Seq(A) /\ Solids(x \o y) = Solids(x) /\ Solids(y \o x) = Solids(x)
<1>1. PICK p \in Seq(A) : p = Solids(x)
  BY SolidsOf
<1>2. p \o <<>> = p /\ <<>> \o p = p
  BY ConcatEmptySeq
<1>3. Solids(x \o y) = p \o <<>>
  BY <1>1, SolidsJoin
<1>4. Solids(y \o x) = <<>> \o p
  BY <1>1, SolidsJoin
<1> QED  BY <1>1, <1>2, <1>3, <1>4

LEMMA BlankOne ==
  ASSUME NEW A, NEW x \in A, x \in White
  PROVE  <<x>> \in Seq(A) /\ Solids(<<x>>) = <<>>
<1>1. PICK t : t = <<x>>
  OBVIOUS
<1>2. t \in Seq(A) /\ \A i \in 1..Len(t) : t[i] \in White
  BY <1>1
<1> QED  BY <1>1, <1>2, SolidsBlank

LEMMA NothingSolid == \A A : <<>> \in Seq(A) /\ Solids(<<>>) = <<>>
<1> SUFFICES ASSUME NEW A PROVE <<>> \in Seq(A) /\ Solids(<<>>) = <<>>
  OBVIOUS
<1>1. PICK e : e = <<>>
  OBVIOUS
<1>2. e \in Seq(A) /\ \A i \in 1..Len(e) : e[i] \in White
  BY <1>1
<1>3. Solids(e) = <<>>
  BY <1>2, SolidsBlank
<1> QED  BY <1>1, <1>2, <1>3

LEMMA PartingSolids ==
  ASSUME NEW A, {Comma, LineFeed} \subseteq A, NEW first \in Nat, NEW k \in Nat
  PROVE  /\ Parting(first, k) \in Seq(A)
         /\ Solids(Parting(first, k)) = IF k > first THEN <<Comma>> ELSE <<>>
<1>1. CASE k > first
  <2>1. <<Comma>> \in Seq(A) /\ Solids(<<Comma>>) = <<Comma>>
    BY Blanks, SolidsOne
  <2>2. <<LineFeed>> \in Seq(A) /\ Solids(<<LineFeed>>) = <<>>
    BY Blanks, BlankOne
  <2>3. Solids(<<Comma>> \o <<LineFeed>>) = <<Comma>>
    BY <2>1, <2>2, SolidsBeside
  <2>4. PICK u, v : u = <<Comma>> \o <<LineFeed>> /\ v = <<Comma, LineFeed>>
    OBVIOUS
  <2>5. v \in Seq(A) /\ Len(v) = 2 /\ v[1] = Comma /\ v[2] = LineFeed
    BY <2>4
  <2>6. u \in Seq(A) /\ Joined(u, <<Comma>>, <<LineFeed>>)
    BY <2>1, <2>2, <2>4, Join
  <2>7. Len(u) = 2 /\ u[1] = Comma /\ u[2] = LineFeed
    BY <2>6 DEF Joined
  <2>8. u = v
    <3>1. \A i \in 1..2 : u[i] = v[i]
      BY <2>5, <2>7
    <3> QED  BY <2>5, <2>6, <2>7, <3>1, SeqEqual
  <2> QED  BY <1>1, <2>3, <2>4, <2>5, <2>8 DEF Parting
<1>2. CASE ~(k > first)
  <2>1. <<>> \in Seq(A) /\ Solids(<<>>) = <<>>
    BY NothingSolid
  <2> QED  BY <1>2, <2>1 DEF Parting
<1> QED  BY <1>1, <1>2

(* A line says what its item does, behind the comma of the one before.      *)
LongerBy(s, first, k, u) == (s \o (IF k > first THEN <<Comma>> ELSE <<>>)) \o u
LEMMA LineSolids ==
  ASSUME NEW A, {Comma, LineFeed} \subseteq A, NEW first \in Nat, NEW k \in Nat,
         NEW x \in Seq(A), NEW indent \in Seq(A), Solids(indent) = <<>>, NEW items, items[k] \in Seq(A)
  PROVE  Solids(WithLine(x, first, k, indent, items)) = LongerBy(Solids(x), first, k, Solids(items[k]))
<1>1. PICK y \in Seq(A), z \in Seq(A) : y = Parting(first, k) /\ z = items[k]
  BY PartingSolids
<1>2. PICK v \in Seq(A) : v = x \o y /\ Solids(v) = Solids(x) \o Solids(y)
  <2>1. x \o y \in Seq(A)
    BY Join
  <2> QED  BY <2>1, SolidsJoin
<1>3. PICK w \in Seq(A) : w = v \o indent /\ Solids(w) = Solids(v)
  BY SolidsBeside
<1>4. Solids(w \o z) = Solids(w) \o Solids(z)
  BY SolidsJoin
<1>5. WithLine(x, first, k, indent, items) = w \o z
  BY <1>1, <1>2, <1>3 DEF WithLine
<1>6. Solids(y) = IF k > first THEN <<Comma>> ELSE <<>>
  BY <1>1, PartingSolids
<1> QED  BY <1>1, <1>2, <1>3, <1>4, <1>5, <1>6 DEF LongerBy

(* The list is cut at commas, one behind the other.                         *)
CutAtCommas(t, cuts, first, last) ==
    /\ cuts[first] \in -1 .. Len(t) - 1 /\ cuts[last + 1] \in 0 .. Len(t)
    /\ \A k \in first + 1 .. last : cuts[k] \in 0 .. Len(t) - 1 /\ t[cuts[k] + 1] = Comma
    /\ \A i, k \in first .. last + 1 : i < k => cuts[i] < cuts[k]

LEMMA CommaPart ==
  ASSUME NEW A, NEW t \in Seq(A), Comma \in A, NEW p \in 1..Len(t), t[p] = Comma
  PROVE  Solids(SubSeq(t, p, p)) = <<Comma>>
<1>1. SubSeq(t, p, p) = <<t[p]>> \o SubSeq(t, p + 1, p)
  BY SubSeqRecursiveFirst
<1>2. SubSeq(t, p + 1, p) = <<>>
  BY SubSeqEmpty
<1>3. <<Comma>> \in Seq(A)
  OBVIOUS
<1>4. <<Comma>> \o <<>> = <<Comma>>
  BY <1>3, ConcatEmptySeq
<1>5. SubSeq(t, p, p) = <<Comma>>
  BY <1>1, <1>2, <1>4
<1> QED  BY <1>5, Blanks, SolidsOne

CommaBetween(t, b, c, d) ==
    Solids(SubSeq(t, b, d)) = (Solids(SubSeq(t, b, c)) \o <<Comma>>) \o Solids(SubSeq(t, c + 2, d))
LEMMA NextPart ==
  ASSUME NEW A, NEW t \in Seq(A), Comma \in A, NEW b \in Nat \ {0}, NEW c \in Nat, NEW d \in Nat,
         b - 1 <= c, c < d, d <= Len(t), t[c + 1] = Comma
  PROVE  CommaBetween(t, b, c, d)
<1>1. PICK N \in Nat : N = Len(t)
  OBVIOUS
<1>2. PICK p \in 1..N : p = c + 1 /\ p <= d /\ p + 1 = c + 2 /\ b - 1 <= p /\ p \in Nat
  BY <1>1
<1>3. PartsAt(t, b, c, p)
  BY <1>1, <1>2, SolidsPart
<1>4. PartsAt(t, b, p, d)
  BY <1>1, <1>2, SolidsPart
<1>5. Solids(SubSeq(t, p, p)) = <<Comma>>
  BY <1>1, <1>2, CommaPart
<1>6. Solids(SubSeq(t, b, p)) = Solids(SubSeq(t, b, c)) \o <<Comma>>
  BY <1>2, <1>3, <1>5 DEF PartsAt
<1>7. Solids(SubSeq(t, b, d)) = Solids(SubSeq(t, b, p)) \o Solids(SubSeq(t, c + 2, d))
  BY <1>2, <1>4 DEF PartsAt
<1> QED  BY <1>6, <1>7 DEF CommaBetween

(* Each item says what stands between its two cuts.                         *)
ItemsFit(A, t, cuts, items, first, last) ==
    \A k \in first..last : /\ items[k] \in Seq(A)
                            /\ Solids(items[k]) = Solids(SubSeq(t, cuts[k] + 2, cuts[k + 1]))

(* So the lines say what the text says from the first cut to the last.      *)
LEMMA LinesSolid ==
  ASSUME NEW A, {Comma, LineFeed} \subseteq A, NEW t \in Seq(A), NEW cuts, NEW items,
         NEW first \in Nat \ {0}, NEW last \in Nat, first <= last, CutAtCommas(t, cuts, first, last),
         NEW indent \in Seq(A), Solids(indent) = <<>>,
         ItemsFit(A, t, cuts, items, first, last)
  PROVE  Solids(LaidLines(first, last, indent, items)[last]) = Solids(SubSeq(t, cuts[first] + 2, cuts[last + 1]))
<1>0. \A k \in first..last : /\ items[k] \in Seq(A)
                              /\ Solids(items[k]) = Solids(SubSeq(t, cuts[k] + 2, cuts[k + 1]))
  BY DEF ItemsFit
<1>1. PICK N \in Nat, M \in Nat : N = Len(t) /\ M = last - first
  OBVIOUS
<1>2. PICK lines : /\ lines = LaidLines(first, last, indent, items) /\ lines[first - 1] = <<>>
                   /\ \A k \in first..last : /\ lines[k] = WithLine(lines[k - 1], first, k, indent, items)
                                             /\ lines[k - 1] \in Seq(A) /\ lines[k] \in Seq(A)
  BY <1>0, LinesAre
<1>3. PICK b \in Nat \ {0} : b = cuts[first] + 2 /\ b - 1 = cuts[first] + 1
  BY <1>1 DEF CutAtCommas
<1> DEFINE Says(k) == Solids(lines[k]) = Solids(SubSeq(t, b, cuts[k + 1]))
           G == {j \in 0..M : Says(j + first)}
<1>4. \A k \in first..last : Solids(lines[k]) = LongerBy(Solids(lines[k - 1]), first, k, Solids(items[k]))
  <2> SUFFICES ASSUME NEW k \in first..last
               PROVE  Solids(lines[k]) = LongerBy(Solids(lines[k - 1]), first, k, Solids(items[k]))
    OBVIOUS
  <2>1. PICK x \in Seq(A) : x = lines[k - 1] /\ lines[k] = WithLine(x, first, k, indent, items)
    BY <1>2
  <2>2. k \in Nat /\ first \in Nat /\ items[k] \in Seq(A)
    BY <1>0
  <2>3. Solids(WithLine(x, first, k, indent, items)) = LongerBy(Solids(x), first, k, Solids(items[k]))
    BY <2>2, LineSolids
  <2> QED  BY <2>1, <2>3
<1>5. Solids(<<>>) = <<>>
  BY NothingSolid
<1>6. 0 \in G
  <2>1. first \in first..last /\ 0 + first = first
    OBVIOUS
  <2>2. PICK u \in Seq(A) : u = Solids(items[first])
    BY <1>0, <2>1, SolidsOf
  <2>3. Solids(lines[first]) = LongerBy(<<>>, first, first, u)
    BY <1>2, <1>4, <1>5, <2>1, <2>2
  <2>4. LongerBy(<<>>, first, first, u) = u
    <3>1. ~(first > first) /\ <<>> \in Seq(A)
      OBVIOUS
    <3>2. <<>> \o <<>> = <<>> /\ <<>> \o u = u
      BY <3>1, ConcatEmptySeq
    <3> QED  BY <3>1, <3>2 DEF LongerBy
  <2>5. u = Solids(SubSeq(t, b, cuts[first + 1]))
    BY <1>0, <1>3, <2>1, <2>2
  <2> QED  BY <2>1, <2>3, <2>4, <2>5
<1>7. \A j \in Nat : j < M /\ j \in G => j + 1 \in G
  <2> SUFFICES ASSUME NEW j \in Nat, j < M, j \in G PROVE j + 1 \in G
    OBVIOUS
  <2>1. PICK k \in first + 1 .. last : k = (j + 1) + first /\ k - 1 = j + first /\ (k - 1) + 1 = k
    BY <1>1
  <2>2. /\ k \in first..last /\ k > first /\ k \in first .. last + 1 /\ k + 1 \in first .. last + 1
        /\ first \in first .. last + 1 /\ k < k + 1 /\ first < k
    OBVIOUS
  <2>3. Solids(lines[k - 1]) = Solids(SubSeq(t, b, cuts[k]))
    BY <2>1
  <2>4. cuts[k] \in 0 .. N - 1 /\ t[cuts[k] + 1] = Comma /\ cuts[first] < cuts[k] /\ cuts[k] < cuts[k + 1]
    BY <1>1, <2>2 DEF CutAtCommas
  <2>5. cuts[k + 1] \in 0..N
    <3>1. CASE k = last
      BY <1>1, <3>1 DEF CutAtCommas
    <3>2. CASE k # last
      <4>1. k + 1 \in first + 1 .. last
        BY <3>2
      <4>2. cuts[k + 1] \in 0 .. N - 1
        BY <1>1, <4>1 DEF CutAtCommas
      <4> QED  BY <4>2
    <3> QED  BY <3>1, <3>2
  <2>6. PICK c, d : c = cuts[k] /\ d = cuts[k + 1]
    OBVIOUS
  <2>7. c \in Nat /\ d \in Nat /\ c < d /\ d <= N /\ t[c + 1] = Comma
    BY <1>1, <2>4, <2>5, <2>6
  <2>13. PICK a : a = cuts[first]
    OBVIOUS
  <2>15. a \in -1 .. N - 1 /\ a < c /\ b = a + 2
    BY <1>1, <1>3, <2>4, <2>6, <2>13 DEF CutAtCommas
  <2>14. b - 1 <= c
    BY <2>7, <2>15
  <2>8. CommaBetween(t, b, c, d)
    BY <1>1, <2>7, <2>14, NextPart
  <2>9. Solids(lines[k]) = (Solids(lines[k - 1]) \o <<Comma>>) \o Solids(items[k])
    BY <1>4, <2>2 DEF LongerBy
  <2>10. Solids(items[k]) = Solids(SubSeq(t, c + 2, d))
    BY <1>0, <2>2, <2>6
  <2>11. Says(k)
    BY <2>3, <2>6, <2>8, <2>9, <2>10 DEF CommaBetween
  <2>12. j + 1 \in 0..M
    OBVIOUS
  <2> QED  BY <2>1, <2>11, <2>12
<1> HIDE DEF G
<1>8. M \in G
  <2>1. 0..M \subseteq G
    BY <1>6, <1>7, BoundedInduction
  <2> QED  BY <2>1
<1>9. M + first = last
  BY <1>1
<1>10. Says(last)
  BY <1>8, <1>9 DEF G
<1> QED  BY <1>2, <1>3, <1>10

LEMMA CutsExact ==
  ASSUME NEW N \in Nat, NEW o \in -1 .. N - 1, NEW s \in Seq(0 .. N - 1), NEW c \in 0..N
  PROVE  LET cuts == <<o>> \o s \o <<c>>
         IN  cuts[1] = o /\ cuts[Len(s) + 2] = c /\ \A k \in 2 .. Len(s) + 1 : cuts[k] = s[k - 1]
<1>1. PICK n \in Nat : n = Len(s) /\ \A k \in 1..n : s[k] \in 0 .. N - 1
  OBVIOUS
<1>2. <<o>> \in Seq(Int) /\ s \in Seq(Int) /\ <<c>> \in Seq(Int)
  <2>1. s \in Seq(Int)
    BY <1>1
  <2> QED  BY <2>1
<1> DEFINE front == <<o>> \o s
           cuts == <<o>> \o s \o <<c>>
<1>3. front \in Seq(Int) /\ Joined(front, <<o>>, s)
  BY <1>2, Join
<1>4. Joined(cuts, front, <<c>>)
  BY <1>2, <1>3, Join
<1> HIDE DEF front, cuts
<1>5. Len(front) = n + 1 /\ front[1] = o /\ \A k \in 2 .. n + 1 : front[k] = s[k - 1]
  BY <1>1, <1>3 DEF Joined
<1>6. cuts[n + 2] = c /\ \A k \in 1 .. n + 1 : cuts[k] = front[k]
  BY <1>4, <1>5 DEF Joined
<1>7. cuts[1] = o /\ \A k \in 2 .. n + 1 : cuts[k] = s[k - 1]
  BY <1>5, <1>6
<1> QED  BY <1>1, <1>6, <1>7 DEF cuts

(* The text made anew says what the text says.                              *)
LEMMA LaidOutSolid ==
  ASSUME NEW A, {Comma, LineFeed, Indentation} \subseteq A, NEW t \in Seq(A), NEW cuts, NEW items,
         NEW first \in Nat \ {0}, NEW last \in Nat, first <= last, CutAtCommas(t, cuts, first, last),
         ItemsFit(A, t, cuts, items, first, last)
  PROVE  Solids(LaidOut(t, cuts, items, first, last)) = Solids(t)
<1> DEFINE effectiveOpen == cuts[first]
           home == Max({0} \cup {i \in 1 .. effectiveOpen + 1 : t[i] = LineFeed})
           baseIndent == SubSeq(t, home + 1, SolidAfter(t, home, Spacing))
           start == SolidBefore(t, effectiveOpen + 1, Spacing)
           end == SolidAfter(t, cuts[last + 1], Spacing)
           indent == IF NeedsLeadingBreak(t, start) THEN baseIndent \o <<Indentation>> ELSE baseIndent
           lines == LaidLines(first, last, indent, items)
           replacement == (IF NeedsLeadingBreak(t, start) THEN <<LineFeed>> ELSE <<>>) \o lines[last]
                             \o (IF NeedsTrailingBreak(t, end) THEN <<LineFeed>> \o baseIndent ELSE <<>>)
<1>1. LaidOut(t, cuts, items, first, last) = SubSeq(t, 1, start) \o replacement \o SubSeq(t, end + 1, Len(t))
  BY DEF LaidOut, LaidLines
<1>2. PICK N \in Nat : N = Len(t)
  OBVIOUS
<1>3. cuts[first] \in -1 .. N - 1 /\ cuts[last + 1] \in 0..N /\ cuts[first] < cuts[last + 1]
  <2>1. first \in first .. last + 1 /\ last + 1 \in first .. last + 1 /\ first < last + 1
    OBVIOUS
  <2> QED  BY <1>2, <2>1 DEF CutAtCommas
<1>4. PICK c : c = cuts[last + 1]
  OBVIOUS
<1>6. PICK v : v = cuts[first]
  OBVIOUS
<1>5. c \in 0..N /\ v \in -1 .. N - 1 /\ v < c
  BY <1>3, <1>4, <1>6
<1>10. PICK o \in 0..N : o = effectiveOpen + 1 /\ o <= c /\ cuts[first] + 2 = o + 1
  <2>1. v + 1 \in 0..N /\ v + 1 <= c /\ v + 2 = (v + 1) + 1
    BY <1>5
  <2>2. effectiveOpen = v
    BY <1>6
  <2> HIDE DEF effectiveOpen
  <2> QED  BY <1>6, <2>1, <2>2
<1> HIDE DEF effectiveOpen
<1>11. home \in 0..N
  <2> DEFINE S == {0} \cup {i \in 1 .. effectiveOpen + 1 : t[i] = LineFeed}
  <2>1. S \subseteq 0..o /\ S # {} /\ o \in Nat
    BY <1>10
  <2>2. Max(S) \in S
    <3> HIDE DEF S
    <3> QED  BY <2>1, MaxIs
  <2>3. Max(S) \in 0..o
    BY <2>1, <2>2
  <2> QED  BY <1>10, <2>3
<1> HIDE DEF home
<1>12. baseIndent \in Seq(A) /\ Solids(baseIndent) = <<>>
  <2>1. PICK e \in 0..N : e = SolidAfter(t, home, Spacing) /\ \A i \in home + 1 .. e : t[i] \in Spacing
    <3>1. SolidAfter(t, home, Spacing) \in home..Len(t)
      BY <1>2, <1>11, AfterBlank
    <3>2. \A i \in home + 1 .. SolidAfter(t, home, Spacing) : t[i] \in Spacing
      BY <1>2, <1>11, AfterBlank
    <3> QED  BY <1>2, <1>11, <3>1, <3>2
  <2>2. \A i \in home + 1 .. e : t[i] \in White
    BY <2>1, Blanks
  <2>3. home + 1 \in Nat \ {0} /\ e \in Nat /\ e <= Len(t)
    BY <1>2, <1>11, <2>1
  <2>4. SubSeq(t, home + 1, e) \in Seq(A)
    BY <2>3, CutOutIs
  <2>5. Solids(SubSeq(t, home + 1, e)) = <<>>
    BY <2>2, <2>3, BlankPart
  <2> QED  BY <2>1, <2>4, <2>5
<1> HIDE DEF baseIndent
<1>13. start \in 0..o /\ \A i \in start + 1 .. o : t[i] \in White
  <2>1. SolidBefore(t, o, Spacing) \in 0..o /\ \A i \in SolidBefore(t, o, Spacing) + 1 .. o : t[i] \in Spacing
    BY <1>10, BeforeIs, BeforeBlank
  <2> QED  BY <1>10, <2>1, Blanks
<1>14. end \in c..N /\ \A i \in c + 1 .. end : t[i] \in White
  <2>1. SolidAfter(t, c, Spacing) \in c..N /\ \A i \in c + 1 .. SolidAfter(t, c, Spacing) : t[i] \in Spacing
    BY <1>2, <1>5, AfterBlank
  <2> QED  BY <1>4, <2>1, Blanks
<1> HIDE DEF start, end
<1>15. /\ <<LineFeed>> \in Seq(A) /\ Solids(<<LineFeed>>) = <<>>
       /\ <<Indentation>> \in Seq(A) /\ Solids(<<Indentation>>) = <<>>
       /\ <<>> \in Seq(A) /\ Solids(<<>>) = <<>>
  BY Blanks, BlankOne, NothingSolid
<1>16. indent \in Seq(A) /\ Solids(indent) = <<>>
  <2>1. baseIndent \o <<Indentation>> \in Seq(A) /\ Solids(baseIndent \o <<Indentation>>) = <<>>
    BY <1>12, <1>15, SolidsBeside
  <2> QED  BY <1>12, <2>1
<1> HIDE DEF indent
<1>17. lines[last] \in Seq(A)
  <2>1. last \in first..last
    OBVIOUS
  <2>2. \A k \in first..last : items[k] \in Seq(A)
    BY DEF ItemsFit
  <2> QED  BY <1>16, <2>1, <2>2, LinesAre
<1>18. Solids(lines[last]) = Solids(SubSeq(t, o + 1, c))
  <2>1. Solids(lines[last]) = Solids(SubSeq(t, cuts[first] + 2, cuts[last + 1]))
    BY <1>16, LinesSolid
  <2> QED  BY <1>4, <1>10, <2>1
<1> HIDE DEF lines
<1>19. replacement \in Seq(A) /\ Solids(replacement) = Solids(SubSeq(t, o + 1, c))
  <2>1. <<LineFeed>> \o baseIndent \in Seq(A) /\ Solids(<<LineFeed>> \o baseIndent) = <<>>
    BY <1>12, <1>15, SolidsBeside
  <2>2. PICK x \in Seq(A), y \in Seq(A) :
            /\ x = IF NeedsLeadingBreak(t, start) THEN <<LineFeed>> ELSE <<>>
            /\ y = IF NeedsTrailingBreak(t, end) THEN <<LineFeed>> \o baseIndent ELSE <<>>
            /\ Solids(x) = <<>> /\ Solids(y) = <<>>
    BY <1>15, <2>1
  <2>3. PICK l \in Seq(A) : l = lines[last]
    BY <1>17
  <2>4. PICK z \in Seq(A) : z = x \o l /\ Solids(z) = Solids(l)
    <3>1. x \o l \in Seq(A)
      BY Join
    <3> QED  BY <2>2, <3>1, SolidsBeside
  <2>5. z \o y \in Seq(A) /\ Solids(z \o y) = Solids(z)
    <3>1. z \o y \in Seq(A)
      BY Join
    <3>2. PICK u : u = z \o y
      OBVIOUS
    <3>3. Solids(u) = Solids(z)
      <4>1. Solids(y) = <<>>
        BY <2>2
      <4>2. z \o y \in Seq(A) /\ Solids(z \o y) = Solids(z) /\ Solids(y \o z) = Solids(z)
        BY <4>1, SolidsBeside, Zenon
      <4> QED  BY <3>2, <4>2
    <3> QED  BY <3>1, <3>2, <3>3
  <2> QED  BY <1>18, <2>2, <2>3, <2>4, <2>5
<1> HIDE DEF replacement
<1>20. PICK a, b, d : a = SubSeq(t, 1, start) /\ b = replacement /\ d = SubSeq(t, end + 1, N)
  OBVIOUS
<1>21. a \in Seq(A) /\ b \in Seq(A) /\ d \in Seq(A)
  <2>1. start \in Int /\ start <= N /\ end + 1 \in Int /\ end + 1 >= 1
    BY <1>5, <1>10, <1>13, <1>14
  <2> QED  BY <1>2, <1>19, <1>20, <2>1, CutOutIs
<1>22. Solids((a \o b) \o d) = (Solids(a) \o Solids(b)) \o Solids(d)
  <2>1. PICK e \in Seq(A) : e = a \o b /\ Solids(e) = Solids(a) \o Solids(b)
    <3>1. a \o b \in Seq(A)
      BY <1>21, Join
    <3> QED  BY <1>21, <3>1, SolidsJoin
  <2>2. Solids(e \o d) = Solids(e) \o Solids(d)
    BY <1>21, SolidsJoin
  <2> QED  BY <2>1, <2>2
<1>23. PICK p, q, r : p = Solids(a) /\ q = Solids(b) /\ r = Solids(d)
  OBVIOUS
<1>24. p \in Seq(A) /\ q \in Seq(A) /\ r \in Seq(A)
  BY <1>21, <1>23, SolidsOf
<1>25. Solids(SubSeq(t, c + 1, N)) = r
  <2>1. PartsAt(t, c + 1, end, N)
    <3>1. c + 1 \in Nat \ {0} /\ end \in Nat /\ (c + 1) - 1 <= end /\ end <= N
      BY <1>5, <1>14
    <3> QED  BY <1>2, <3>1, SolidsPart
  <2>2. Solids(SubSeq(t, c + 1, end)) = <<>>
    <3>1. c + 1 \in Nat \ {0} /\ end \in Nat /\ end <= N
      BY <1>5, <1>14
    <3> QED  BY <1>2, <1>14, <3>1, BlankPart
  <2>3. <<>> \o r = r
    BY <1>24, ConcatEmptySeq
  <2> QED  BY <1>20, <1>23, <2>1, <2>2, <2>3 DEF PartsAt
<1>26. Solids(SubSeq(t, o + 1, N)) = q \o r
  <2>1. o + 1 \in Nat \ {0} /\ c \in Nat /\ (o + 1) - 1 <= c /\ c <= N
    BY <1>5, <1>10
  <2>2. PartsAt(t, o + 1, c, N)
    BY <1>2, <2>1, SolidsPart
  <2> QED  BY <1>19, <1>20, <1>23, <1>25, <2>2 DEF PartsAt
<1>27. Solids(SubSeq(t, start + 1, N)) = q \o r
  <2>1. start + 1 \in Nat \ {0} /\ o \in Nat /\ (start + 1) - 1 <= o /\ o <= N
    BY <1>10, <1>13
  <2>2. PartsAt(t, start + 1, o, N)
    BY <1>2, <2>1, SolidsPart
  <2>3. Solids(SubSeq(t, start + 1, o)) = <<>>
    BY <1>2, <1>13, <2>1, BlankPart
  <2>4. <<>> \o (q \o r) = q \o r
    <3>1. q \o r \in Seq(A)
      BY <1>24, Join
    <3> QED  BY <3>1, ConcatEmptySeq
  <2> QED  BY <1>26, <2>2, <2>3, <2>4 DEF PartsAt
<1>28. Solids(t) = p \o (q \o r)
  <2>1. start \in Nat /\ 1 - 1 <= start /\ start <= N /\ 1 \in Nat \ {0}
    BY <1>10, <1>13
  <2>2. PartsAt(t, 1, start, N)
    BY <1>2, <2>1, SolidsPart
  <2>3. SubSeq(t, 1, N) = t
    BY <1>2, SubSeqFull
  <2> QED  BY <1>20, <1>23, <1>27, <2>2, <2>3 DEF PartsAt
<1>29. (p \o q) \o r = p \o (q \o r)
  BY <1>24, ConcatAssociative
<1> QED  BY <1>1, <1>2, <1>20, <1>22, <1>23, <1>28, <1>29

LEMMA ReflowedSolid ==
  ASSUME NEW A, {Comma, LineFeed, Indentation} \subseteq A, NEW t \in Seq(A),
         NEW bounds, OnCommas(t, bounds), bounds.separators # <<>>
  PROVE  Solids(Reflowed(t, bounds)) = Solids(t)
<1> DEFINE cuts == <<bounds.open>> \o bounds.separators \o <<SolidBefore(t, bounds.close, White)>>
           items == [k \in 1 .. Len(cuts) - 1 |->
                        LET b == Trimmed(t, cuts[k] + 1, cuts[k + 1]) IN SubSeq(t, b[1] + 1, b[2])]
           filled == {k \in DOMAIN items : items[k] # <<>>}
           first == Min({Len(items)} \cup filled)
           last == Max({first} \cup filled)
<1>1. Reflowed(t, bounds) = LaidOut(t, cuts, items, first, last)
  BY DEF Reflowed
<1>2. PICK N \in Nat : N = Len(t)
  OBVIOUS
<1>3. PICK s \in Seq(0 .. N - 1), n \in Nat : s = bounds.separators /\ n = Len(s) /\ n >= 1
  BY <1>2 DEF OnCommas, Bounded
<1>14. PICK c : c = SolidBefore(t, bounds.close, White)
  OBVIOUS
<1>15. c \in 0..N /\ s[n] < c
  <2>1. bounds.close \in Nat /\ bounds.close <= N
    BY <1>2 DEF OnCommas, Bounded
  <2>2. c \in 0..bounds.close /\ \A i \in 1..bounds.close : t[i] \notin White => i <= c
    BY <1>14, <2>1, BeforeIs, BeforeBlank
  <2>3. n \in 1..n /\ s[n] \in Nat
    BY <1>3
  <2>4. s[n] < bounds.close /\ t[s[n] + 1] = Comma
    BY <1>3, <2>3 DEF OnCommas
  <2>5. s[n] + 1 \in 1..bounds.close /\ t[s[n] + 1] \notin White
    BY <2>1, <2>3, <2>4, Blanks
  <2> QED  BY <2>1, <2>2, <2>3, <2>5
<1>16. bounds.open \in -1 .. N - 1
  BY <1>2 DEF OnCommas, Bounded
<1>4. /\ Len(cuts) = n + 2
      /\ \A k \in 1 .. n + 1 : cuts[k] \in -1 .. N - 1
      /\ \A k \in 2 .. n + 2 : cuts[k] \in 0..N
  BY <1>3, <1>14, <1>15, <1>16, CutsAre
<1>19. cuts[1] = bounds.open /\ cuts[n + 2] = c /\ \A k \in 2 .. n + 1 : cuts[k] = s[k - 1]
  BY <1>3, <1>14, <1>15, <1>16, CutsExact
<1> HIDE DEF cuts
<1>17. \A k \in 2 .. n + 1 : /\ cuts[k] \in 0 .. N - 1 /\ t[cuts[k] + 1] = Comma /\ bounds.open < cuts[k]
  <2> SUFFICES ASSUME NEW k \in 2 .. n + 1
               PROVE  cuts[k] \in 0 .. N - 1 /\ t[cuts[k] + 1] = Comma /\ bounds.open < cuts[k]
    OBVIOUS
  <2>1. k - 1 \in 1..n /\ cuts[k] = s[k - 1]
    BY <1>19
  <2> QED  BY <1>3, <2>1 DEF OnCommas
<1>18. \A i, k \in 1 .. n + 2 : i < k => cuts[i] < cuts[k]
  <2> SUFFICES ASSUME NEW i \in 1 .. n + 2, NEW k \in 1 .. n + 2, i < k PROVE cuts[i] < cuts[k]
    OBVIOUS
  <2>0. s[n] \in Int /\ n \in 1..n
    BY <1>3
  <2>1. ASSUME NEW j \in 2 .. n + 1 PROVE cuts[j] <= s[n]
    <3>1. j - 1 \in 1..n /\ cuts[j] = s[j - 1] /\ s[j - 1] \in Int
      BY <1>3, <1>19
    <3>2. j - 1 < n => s[j - 1] < s[n]
      BY <1>3, <2>0, <3>1 DEF OnCommas, CommasAscend
    <3>3. CASE j - 1 < n
      BY <2>0, <3>1, <3>2, <3>3
    <3>4. CASE ~(j - 1 < n)
      <4>1. j - 1 = n
        BY <3>1, <3>4
      <4> QED  BY <2>0, <3>1, <4>1
    <3> QED  BY <3>3, <3>4
  <2>2. CASE i = 1 /\ k \in 2 .. n + 1
    BY <1>17, <1>19, <2>2
  <2>3. CASE i \in 2 .. n + 1 /\ k \in 2 .. n + 1
    <3>1. i - 1 \in 1..n /\ k - 1 \in 1..n /\ i - 1 < k - 1 /\ cuts[i] = s[i - 1] /\ cuts[k] = s[k - 1]
      BY <1>19, <2>3
    <3> QED  BY <1>3, <3>1 DEF OnCommas, CommasAscend
  <2>4. CASE k = n + 2 /\ i \in 2 .. n + 1
    <3>1. cuts[i] <= s[n] /\ cuts[i] \in Int /\ s[n] < c /\ c \in Int
      BY <1>15, <1>17, <2>1, <2>4
    <3> QED  BY <1>19, <2>0, <2>4, <3>1
  <2>5. CASE k = n + 2 /\ i = 1
    <3>1. n + 1 \in 2 .. n + 1
      BY <1>3
    <3>2. PICK x : x = cuts[n + 1]
      OBVIOUS
    <3>3. x <= s[n] /\ x \in Int /\ bounds.open < x
      BY <1>17, <2>1, <3>1, <3>2
    <3> QED  BY <1>15, <1>16, <1>19, <2>0, <2>5, <3>3
  <2> QED  BY <2>2, <2>3, <2>4, <2>5
<1>5. DOMAIN items = 1 .. n + 1 /\ Len(items) = n + 1
  BY <1>4
<1>6. ASSUME NEW k \in 1 .. n + 1
      PROVE  items[k] \in Seq(A) /\ Solids(items[k]) = Solids(SubSeq(t, cuts[k] + 2, cuts[k + 1]))
  <2>1. k + 1 \in 2 .. n + 2 /\ k \in 1 .. n + 2 /\ k + 1 \in 1 .. n + 2 /\ k < k + 1
    OBVIOUS
  <2>2. cuts[k] \in -1 .. N - 1 /\ cuts[k + 1] \in 0..N /\ cuts[k] < cuts[k + 1]
    BY <1>4, <1>18, <2>1
  <2>3. PICK from \in Nat, to \in 0..N : from = cuts[k] + 1 /\ to = cuts[k + 1] /\ from <= to
                                         /\ from + 1 = cuts[k] + 2
    BY <2>2
  <2>4. LET b == Trimmed(t, from, to) IN SubSeq(t, b[1] + 1, b[2]) \in Seq(A)
    BY <1>2, <2>3, ItemIs
  <2>5. LET b == Trimmed(t, from, to)
        IN  Solids(SubSeq(t, b[1] + 1, b[2])) = Solids(SubSeq(t, from + 1, to))
    BY <1>2, <2>3, ItemSolids
  <2>6. items[k] = LET b == Trimmed(t, from, to) IN SubSeq(t, b[1] + 1, b[2])
    <3>1. k \in 1 .. Len(cuts) - 1
      BY <1>4
    <3>2. items[k] = LET b == Trimmed(t, cuts[k] + 1, cuts[k + 1]) IN SubSeq(t, b[1] + 1, b[2])
      BY <3>1
    <3> QED  BY <2>3, <3>2
  <2> QED  BY <2>3, <2>4, <2>5, <2>6
<1>7. filled \subseteq 1 .. n + 1
  BY <1>5
<1> HIDE DEF items, filled
<1>8. first \in 1 .. n + 1
  <2>1. {Len(items)} \cup filled \subseteq 1 .. n + 1 /\ {Len(items)} \cup filled \subseteq Nat /\ {Len(items)} \cup filled # {}
    BY <1>5, <1>7
  <2>2. first \in {Len(items)} \cup filled
    BY <2>1, MinIs
  <2> QED  BY <2>1, <2>2
<1> HIDE DEF first
<1>9. last \in 1 .. n + 1 /\ first <= last
  <2>1. {first} \cup filled \subseteq 1 .. n + 1 /\ {first} \cup filled \subseteq 0 .. n + 1 /\ {first} \cup filled # {}
    BY <1>7, <1>8
  <2>2. n + 1 \in Nat
    OBVIOUS
  <2>3. last \in {first} \cup filled /\ \A x \in {first} \cup filled : x <= last
    BY <2>1, <2>2, MaxIs
  <2> QED  BY <2>1, <2>3
<1> HIDE DEF last
<1>10. ItemsFit(A, t, cuts, items, first, last)
  <2>1. \A k \in first..last : k \in 1 .. n + 1
    BY <1>8, <1>9
  <2> QED  BY <1>6, <2>1 DEF ItemsFit
<1>11. CutAtCommas(t, cuts, first, last)
  <2>1. last + 1 \in 2 .. n + 2
    BY <1>9
  <2>2. cuts[first] \in -1 .. N - 1 /\ cuts[last + 1] \in 0..N
    BY <1>4, <1>8, <2>1
  <2>3. \A k \in first + 1 .. last : k \in 2 .. n + 1
    BY <1>8, <1>9
  <2>4. \A k \in first .. last + 1 : k \in 1 .. n + 2
    BY <1>8, <1>9
  <2>5. \A k \in first + 1 .. last : cuts[k] \in 0 .. N - 1 /\ t[cuts[k] + 1] = Comma
    BY <1>17, <2>3
  <2>6. \A i, k \in first .. last + 1 : i < k => cuts[i] < cuts[k]
    BY <1>18, <2>4
  <2> QED  BY <1>2, <2>2, <2>5, <2>6 DEF CutAtCommas
<1>12. first \in Nat \ {0} /\ last \in Nat /\ first <= last
  BY <1>8, <1>9
<1>13. Solids(LaidOut(t, cuts, items, first, last)) = Solids(t)
  BY <1>10, <1>11, <1>12, LaidOutSolid
<1> QED  BY <1>1, <1>13

(* Splitting a list loses, repeats and moves nothing, whatever the text is  *)
(* and wherever the selection starts and ends: the commas of the list are   *)
(* in the text's order, so the lines and what is left beside them are the   *)
(* stretches of the text, one after the other (reflowList()).               *)
THEOREM SplitsLoseNothing == SqlSpec => SplitLosesNothing
<1>1. ASSUME SqlTypeOK, [SqlNext]_sqlVars PROVE lists' # lists => Solids(sql') = Solids(sql)
  <2> SUFFICES ASSUME lists' # lists PROVE Solids(sql') = Solids(sql)
    OBVIOUS
  <2>1. PICK script \in Scripts : sql \in Seq(script.of \cup {Indentation, LineFeed})
    BY <1>1 DEF SqlTypeOK
  <2> DEFINE A == script.of \cup {Indentation, LineFeed}
  <2>2. ASSUME Comma \in Range(sql), NEW bounds, OnCommas(sql, bounds), bounds.separators # <<>>,
               sql' = Reflowed(sql, bounds)
        PROVE  Solids(sql') = Solids(sql)
    <3>1. sql \in Seq(A) /\ {Comma, LineFeed, Indentation} \subseteq A
      <4>1. PICK i \in DOMAIN sql : sql[i] = Comma
        BY <2>2 DEF Range
      <4> QED  BY <2>1, <4>1
    <3> HIDE DEF A
    <3> QED  BY <2>2, <3>1, ReflowedSolid
  <2>3. ASSUME NEW l, TypeLexeme(l) PROVE FALSE
    BY <2>3 DEF TypeLexeme
  <2>4. ASSUME NEW to \in 0..Len(sql), NEW from \in 0..Len(sql), from <= to, OnSplitListRequest(from, to)
        PROVE  Solids(sql') = Solids(sql)
    <3>1. PICK bounds : bounds = CurrentListBounds(sql, from, to)
      OBVIOUS
    <3>2. /\ Comma \in Range(sql) /\ bounds.close >= 0 /\ bounds.separators # <<>>
          /\ sql' = Reflowed(sql, bounds)
      BY <2>4, <3>1 DEF OnSplitListRequest
    <3>3. OnCommas(sql, bounds)
      <4>1. CASE from < to
        BY <2>1, <3>1, <4>1, RangedOnCommas DEF CurrentListBounds
      <4>2. CASE ~(from < to)
        <5>1. bounds = ListBounds(sql, to) /\ to \in Int
          BY <3>1, <4>2 DEF CurrentListBounds
        <5> QED  BY <2>1, <3>2, <5>1, FoundOnCommas
      <4> QED  BY <4>1, <4>2
    <3> QED  BY <2>2, <3>2, <3>3
  <2>5. ASSUME NEW long, AutoSplitRoutineSignature(long) PROVE Solids(sql') = Solids(sql)
    <3>1. PICK bounds : bounds = ListBounds(sql, -1)
      OBVIOUS
    <3>2. /\ Comma \in Range(sql) /\ bounds.close >= 0 /\ bounds.separators # <<>>
          /\ sql' = Reflowed(sql, bounds)
      BY <2>5, <3>1 DEF AutoSplitRoutineSignature
    <3>3. OnCommas(sql, bounds)
      BY <2>1, <3>1, <3>2, FoundOnCommas
    <3> QED  BY <2>2, <3>2, <3>3
  <2>6. ~UNCHANGED sqlVars
    BY DEF sqlVars
  <2> QED  BY <1>1, <2>3, <2>4, <2>5, <2>6 DEF SqlNext
<1> QED  BY <1>1, SqlTyped, PTL DEF SqlSpec, SplitLosesNothing
=============================================================================
