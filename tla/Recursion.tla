------------------------------ MODULE Recursion ------------------------------
(***************************************************************************)
(* Induction and recursion over the natural numbers, in a form without     *)
(* operator parameters: a predicate is the set of the numbers it holds for,*)
(* a step the function that takes it.  They are what the proofs about lists*)
(* and folds of the other modules rest on.                                 *)
(***************************************************************************)
EXTENDS Integers, SequencesExt, SequenceTheorems, WellFoundedInduction, TLAPS

(* A set of numbers that 0 is in, and the next of each, has them all.       *)
LEMMA SetInduction ==
  ASSUME NEW S, 0 \in S, \A n \in Nat : n \in S => n + 1 \in S
  PROVE  Nat \subseteq S
<1> DEFINE T == Nat \ S
           R == OpToRel(<, Nat)
<1>1. SUFFICES ASSUME T # {} PROVE FALSE
  OBVIOUS
<1>2. PICK m \in T : \A y \in T : ~(<<y, m>> \in R)
  <2>1. IsWellFoundedOn(R, Nat) /\ T \subseteq Nat
    BY NatLessThanWellFounded
  <2> HIDE DEF T, R
  <2> QED  BY <1>1, <2>1, WFMin
<1>3. \A y \in T : ~(y < m)
  BY <1>2 DEF OpToRel
<1>4. m - 1 \in Nat /\ m - 1 \in S
  BY <1>3
<1> QED  BY <1>4

(* The same up to a number.                                                 *)
LEMMA BoundedInduction ==
  ASSUME NEW N \in Nat, NEW S, 0 \in S, \A n \in Nat : n < N /\ n \in S => n + 1 \in S
  PROVE  0..N \subseteq S
<1> DEFINE T == {n \in Nat : n <= N => n \in S}
<1>1. 0 \in T
  OBVIOUS
<1>2. \A n \in Nat : n \in T => n + 1 \in T
  OBVIOUS
<1> HIDE DEF T
<1>3. Nat \subseteq T
  BY <1>1, <1>2, SetInduction
<1> QED  BY <1>3 DEF T

(* g takes the steps, one after the other, from its base.                   *)
Repeats(g, D, base, step) ==
    g \in [Nat -> D] /\ g[0] = base /\ \A n \in Nat : g[n + 1] = step[n][g[n]]

(* A step that can be taken from everywhere can be repeated.                *)
LEMMA Iterates ==
  ASSUME NEW D, NEW base \in D, NEW step \in [Nat -> [D -> D]]
  PROVE  \E g : Repeats(g, D, base, step)
<1> DEFINE Begins(n, h) == h[0] = base /\ \A k \in Nat : k < n => h[k + 1] = step[k][h[k]]
           S == {n \in Nat : \E h \in [0..n -> D] : Begins(n, h)}
<1>1. Nat \subseteq S
  <2>1. 0 \in S
    <3> DEFINE first == [k \in 0..0 |-> base]
    <3>1. first \in [0..0 -> D] /\ Begins(0, first)
      OBVIOUS
    <3> QED  BY <3>1
  <2>2. ASSUME NEW n \in Nat, n \in S PROVE n + 1 \in S
    <3>1. PICK h \in [0..n -> D] : Begins(n, h)
      BY <2>2
    <3> DEFINE more == [k \in 0..(n + 1) |-> IF k = n + 1 THEN step[n][h[n]] ELSE h[k]]
    <3>2. h[n] \in D /\ step[n][h[n]] \in D
      OBVIOUS
    <3>3. more \in [0..(n + 1) -> D]
      BY <3>2
    <3>4. more[0] = base
      BY <3>1
    <3>5. ASSUME NEW k \in Nat, k < n + 1 PROVE more[k + 1] = step[k][more[k]]
      BY <3>1, <3>5
    <3> HIDE DEF more
    <3>6. Begins(n + 1, more)
      BY <3>4, <3>5
    <3> HIDE DEF Begins
    <3>7. n + 1 \in Nat
      OBVIOUS
    <3> QED  BY <3>3, <3>6, <3>7
  <2> HIDE DEF S
  <2> QED  BY <2>1, <2>2, SetInduction
<1> DEFINE pick == [n \in Nat |-> CHOOSE h \in [0..n -> D] : Begins(n, h)]
           g == [n \in Nat |-> pick[n][n]]
<1>2. \A n \in Nat : pick[n] \in [0..n -> D] /\ Begins(n, pick[n])
  BY <1>1
<1>3. \A n \in Nat : \A k \in 0..n : pick[n][k] = g[k]
  <2> DEFINE U == {k \in Nat : \A n \in Nat : k <= n => pick[n][k] = g[k]}
  <2> HIDE DEF pick
  <2>1. 0 \in U
    BY <1>2
  <2>2. ASSUME NEW k \in Nat, k \in U PROVE k + 1 \in U
    <3> SUFFICES ASSUME NEW n \in Nat, k + 1 <= n PROVE pick[n][k + 1] = g[k + 1]
      OBVIOUS
    <3>1. pick[n][k + 1] = step[k][pick[n][k]]
      BY <1>2
    <3>2. pick[k + 1][k + 1] = step[k][pick[k + 1][k]]
      BY <1>2
    <3>3. pick[n][k] = g[k] /\ pick[k + 1][k] = g[k]
      BY <2>2
    <3> QED  BY <3>1, <3>2, <3>3
  <2> HIDE DEF U
  <2>3. Nat \subseteq U
    BY <2>1, <2>2, SetInduction
  <2> QED  BY <2>3 DEF U
<1> HIDE DEF pick
<1>4. g \in [Nat -> D]
  BY <1>2
<1>5. g[0] = base
  BY <1>2
<1>6. ASSUME NEW n \in Nat PROVE g[n + 1] = step[n][g[n]]
  <2>1. pick[n + 1][n + 1] = step[n][pick[n + 1][n]]
    BY <1>2
  <2>2. pick[n + 1][n] = g[n]
    BY <1>3
  <2> QED  BY <2>1, <2>2
<1>7. Repeats(g, D, base, step)
  BY <1>4, <1>5, <1>6 DEF Repeats
<1> QED  BY <1>7

(* So the equation of a recursive function of the numbers up to N has a     *)
(* solution.                                                                *)
Recurs(g, D, base, N, step) ==
    /\ g \in [0..N -> D]
    /\ g = [k \in 0..N |-> IF k = 0 THEN base ELSE step[k][g[k - 1]]]

LEMMA RecursionExists ==
  ASSUME NEW D, NEW base \in D, NEW N \in Nat, NEW step \in [1..N -> [D -> D]]
  PROVE  \E g : Recurs(g, D, base, N, step)
<1> DEFINE all == [n \in Nat |-> IF n < N THEN step[n + 1] ELSE [d \in D |-> d]]
<1>1. all \in [Nat -> [D -> D]]
  OBVIOUS
<1>2. \A n \in Nat : n < N => all[n] = step[n + 1]
  OBVIOUS
<1> HIDE DEF all
<1>3. PICK h : Repeats(h, D, base, all)
  BY <1>1, Iterates
<1>4. h \in [Nat -> D] /\ h[0] = base /\ \A n \in Nat : h[n + 1] = all[n][h[n]]
  BY <1>3 DEF Repeats
<1> DEFINE g == [k \in 0..N |-> h[k]]
<1>5. g \in [0..N -> D]
  BY <1>4
<1>6. ASSUME NEW k \in 0..N PROVE g[k] = IF k = 0 THEN base ELSE step[k][g[k - 1]]
  <2>1. CASE k = 0
    BY <1>4, <2>1
  <2>2. CASE k # 0
    <3>1. k - 1 \in Nat /\ k - 1 < N /\ k - 1 + 1 = k /\ k - 1 \in 0..N
      BY <2>2
    <3>2. h[k] = all[k - 1][h[k - 1]] /\ all[k - 1] = step[k]
      BY <1>2, <1>4, <3>1
    <3> QED  BY <2>2, <3>1, <3>2
  <2> QED  BY <2>1, <2>2
<1>7. g = [k \in 0..N |-> IF k = 0 THEN base ELSE step[k][g[k - 1]]]
  BY <1>6
<1>8. Recurs(g, D, base, N, step)
  BY <1>5, <1>7 DEF Recurs
<1> QED  BY <1>8

(* The same where what a step may take grows with it: good[k] is what the    *)
(* steps before the k-th leave.                                              *)
Staged(g, N, base, next) == g = [k \in 0..N |-> IF k = 0 THEN base ELSE next[k][g[k - 1]]]
Climbs(h, N, base, next, good) ==
    h[0] = base /\ \A k \in 1..N : h[k - 1] \in good[k - 1] => h[k] = next[k][h[k - 1]]

LEMMA StagedRecursion ==
  ASSUME NEW N \in Nat, NEW base, NEW next, NEW good, base \in good[0],
         \A k \in 1..N : \A x \in good[k - 1] : next[k][x] \in good[k]
  PROVE  /\ \E g : Staged(g, N, base, next) /\ \A k \in 0..N : g[k] \in good[k]
         /\ \A h : Climbs(h, N, base, next, good) => \A k \in 0..N : h[k] \in good[k]
<1> DEFINE D == UNION {good[k] : k \in 0..N}
           step == [k \in 1..N |-> [x \in D |-> IF x \in good[k - 1] THEN next[k][x] ELSE x]]
<1>1. \A k \in 0..N : good[k] \subseteq D
  OBVIOUS
<1>2. base \in D
  BY <1>1
<1> HIDE DEF D
<1>3. step \in [1..N -> [D -> D]]
  <2>1. ASSUME NEW k \in 1..N, NEW x \in D PROVE (IF x \in good[k - 1] THEN next[k][x] ELSE x) \in D
    <3>1. k \in 0..N
      OBVIOUS
    <3> QED  BY <1>1, <3>1
  <2> QED  BY <2>1
<1>4. \A k \in 1..N : \A x \in D : x \in good[k - 1] => step[k][x] = next[k][x]
  OBVIOUS
<1> HIDE DEF step
<1>5. PICK g : Recurs(g, D, base, N, step)
  BY <1>2, <1>3, RecursionExists
<1>6. g \in [0..N -> D] /\ g = [k \in 0..N |-> IF k = 0 THEN base ELSE step[k][g[k - 1]]]
  BY <1>5 DEF Recurs
<1>7. ASSUME NEW h, h[0] = base, \A k \in 1..N : h[k - 1] \in good[k - 1] => h[k] = next[k][h[k - 1]]
      PROVE  \A k \in 0..N : h[k] \in good[k]
  <2> DEFINE G == {k \in 0..N : h[k] \in good[k]}
  <2>1. 0 \in G
    BY <1>7
  <2>2. ASSUME NEW k \in Nat, k < N, k \in G PROVE k + 1 \in G
    <3>1. k + 1 \in 1..N /\ (k + 1) - 1 = k
      BY <2>2
    <3> QED  BY <1>7, <2>2, <3>1
  <2> HIDE DEF G
  <2>3. 0..N \subseteq G
    BY <2>1, <2>2, BoundedInduction
  <2> QED  BY <2>3 DEF G
<1>8. g[0] = base /\ \A k \in 1..N : g[k] = step[k][g[k - 1]]
  <2>1. \A k \in 1..N : k \in 0..N /\ k # 0 /\ k - 1 \in 0..N
    OBVIOUS
  <2>2. 0 \in 0..N
    OBVIOUS
  <2>3. \A k \in 0..N : g[k] = IF k = 0 THEN base ELSE step[k][g[k - 1]]
    BY <1>6
  <2> QED  BY <2>1, <2>2, <2>3
<1>9. \A k \in 1..N : g[k - 1] \in good[k - 1] => g[k] = next[k][g[k - 1]]
  <2>1. \A k \in 1..N : k - 1 \in 0..N
    OBVIOUS
  <2> QED  BY <1>4, <1>6, <1>8, <2>1
<1>10. \A k \in 0..N : g[k] \in good[k]
  BY <1>7, <1>8, <1>9
<1>11. g = [k \in 0..N |-> IF k = 0 THEN base ELSE next[k][g[k - 1]]]
  <2>1. \A k \in 0..N : g[k] = IF k = 0 THEN base ELSE next[k][g[k - 1]]
    <3>1. ASSUME NEW k \in 0..N, k # 0 PROVE g[k] = next[k][g[k - 1]]
      <4>1. k \in 1..N /\ k - 1 \in 0..N
        BY <3>1
      <4> QED  BY <1>9, <1>10, <4>1
    <3> QED  BY <1>8, <3>1
  <2>2. g = [k \in 0..N |-> g[k]]
    BY <1>6
  <2> QED  BY <2>1, <2>2
<1> QED  BY <1>7, <1>10, <1>11 DEF Staged, Climbs

(* A recursion whose every step leaves something of D.                      *)
Proceeds(h, N, base, next, D) == h[0] = base /\ \A k \in 1..N : h[k - 1] \in D => h[k] = next[k][h[k - 1]]

LEMMA Recursive ==
  ASSUME NEW N \in Nat, NEW D, NEW base \in D, NEW next, \A k \in 1..N : \A x \in D : next[k][x] \in D
  PROVE  /\ \E g : Staged(g, N, base, next) /\ g \in [0..N -> D]
         /\ \A h : Proceeds(h, N, base, next, D) => \A k \in 0..N : h[k] \in D
<1> DEFINE good == [k \in 0..N |-> D]
<1>1. base \in good[0] /\ \A k \in 1..N : \A x \in good[k - 1] : next[k][x] \in good[k]
  <2>1. \A k \in 1..N : k - 1 \in 0..N /\ k \in 0..N
    OBVIOUS
  <2> QED  BY <2>1
<1>2. \A k \in 0..N : good[k] = D
  OBVIOUS
<1> HIDE DEF good
<1>3. /\ \E g : Staged(g, N, base, next) /\ \A k \in 0..N : g[k] \in good[k]
      /\ \A h : Climbs(h, N, base, next, good) => \A k \in 0..N : h[k] \in good[k]
  BY <1>1, StagedRecursion
<1>4. \E g : Staged(g, N, base, next) /\ g \in [0..N -> D]
  <2>1. PICK g : Staged(g, N, base, next) /\ \A k \in 0..N : g[k] \in good[k]
    BY <1>3
  <2>2. g = [k \in 0..N |-> IF k = 0 THEN base ELSE next[k][g[k - 1]]]
    BY <2>1 DEF Staged
  <2>3. g = [k \in 0..N |-> g[k]]
    BY <2>2
  <2>4. g \in [0..N -> D]
    BY <1>2, <2>1, <2>3
  <2> QED  BY <2>1, <2>4
<1>5. ASSUME NEW h, h[0] = base, \A k \in 1..N : h[k - 1] \in D => h[k] = next[k][h[k - 1]]
      PROVE  \A k \in 0..N : h[k] \in D
  <2>1. \A k \in 1..N : k - 1 \in 0..N
    OBVIOUS
  <2>2. Climbs(h, N, base, next, good)
    BY <1>2, <1>5, <2>1 DEF Climbs
  <2> QED  BY <1>2, <1>3, <2>2
<1> QED  BY <1>4, <1>5 DEF Proceeds

(* The least of some numbers.                                               *)
LEMMA LeastNumber ==
  ASSUME NEW S, S \subseteq Nat, S # {}
  PROVE  \E m \in S : \A y \in S : ~(y < m)
<1> DEFINE R == OpToRel(<, Nat)
<1>1. PICK m \in S : \A y \in S : ~(<<y, m>> \in R)
  <2>1. IsWellFoundedOn(R, Nat)
    BY NatLessThanWellFounded
  <2> HIDE DEF R
  <2> QED  BY <2>1, WFMin
<1> QED  BY <1>1 DEF OpToRel

(* The least and the greatest of some numbers.                              *)
LEMMA MinIs ==
  ASSUME NEW S, S \subseteq Nat, S # {}
  PROVE  Min(S) \in S /\ \A x \in S : Min(S) <= x
<1>1. PICK m \in S : \A y \in S : ~(y < m)
  BY LeastNumber
<1>2. \A y \in S : m =< y
  BY <1>1
<1> QED  BY <1>1, <1>2 DEF Min

LEMMA MaxIs ==
  ASSUME NEW N \in Nat, NEW S, S \subseteq 0..N, S # {}
  PROVE  Max(S) \in S /\ \A x \in S : x <= Max(S)
<1> DEFINE T == {N - x : x \in S}
<1>1. T \subseteq Nat /\ T # {}
  <2>1. ASSUME NEW x \in S PROVE N - x \in Nat
    <3>1. x \in 0..N
      OBVIOUS
    <3> QED  BY <3>1
  <2> QED  BY <2>1
<1>2. PICK m \in T : \A y \in T : ~(y < m)
  <2> HIDE DEF T
  <2> QED  BY <1>1, LeastNumber
<1>3. PICK x \in S : m = N - x
  BY <1>2
<1>4. \A y \in S : x >= y
  <2> SUFFICES ASSUME NEW y \in S PROVE x >= y
    OBVIOUS
  <2>1. N - y \in T /\ ~(N - y < m)
    BY <1>2
  <2>2. x \in 0..N /\ y \in 0..N
    OBVIOUS
  <2> QED  BY <1>3, <2>1, <2>2
<1> QED  BY <1>3, <1>4 DEF Max

-----------------------------------------------------------------------------
(* Two lists one after the other.                                           *)
Joined(u, a, b) ==
    /\ Len(u) = Len(a) + Len(b)
    /\ \A i \in 1..(Len(a) + Len(b)) : u[i] = IF i <= Len(a) THEN a[i] ELSE b[i - Len(a)]

LEMMA Join ==
  ASSUME NEW S, NEW a \in Seq(S), NEW b \in Seq(S)
  PROVE  a \o b \in Seq(S) /\ Joined(a \o b, a, b)
BY ConcatProperties DEF Joined

(* An element more at p.                                                    *)
HasMore(u, s, p, e) ==
    /\ Len(u) = Len(s) + 1 /\ p \in 1..(Len(s) + 1)
    /\ \A i \in 1..(Len(s) + 1) : u[i] = IF i < p THEN s[i] ELSE IF i = p THEN e ELSE s[i - 1]

LEMMA Inserted ==
  ASSUME NEW S, NEW s \in Seq(S), NEW e \in S, NEW p \in 1..(Len(s) + 1)
  PROVE  InsertAt(s, p, e) \in Seq(S) /\ HasMore(InsertAt(s, p, e), s, p, e)
<1>1. PICK n \in Nat : n = Len(s)
  OBVIOUS
<1> DEFINE a == SubSeq(s, 1, p - 1)
           b == <<e>>
           c == SubSeq(s, p, n)
<1>2. a \in Seq(S) /\ Len(a) = p - 1 /\ \A i \in 1..(p - 1) : a[i] = s[i]
  <2>1. \A i \in 1..(p - 1) : s[i] \in S
    BY <1>1
  <2>2. /\ a \in Seq(S) /\ Len(a) = IF 1 <= p - 1 THEN p - 1 - 1 + 1 ELSE 0
        /\ \A i \in 1..(p - 1 - 1 + 1) : a[i] = s[1 + i - 1]
    BY <1>1, <2>1, SubSeqProperties
  <2> HIDE DEF a
  <2> QED  BY <1>1, <2>2
<1>3. c \in Seq(S) /\ Len(c) = n - p + 1 /\ \A i \in 1..(n - p + 1) : c[i] = s[p + i - 1]
  <2>1. \A i \in p..n : s[i] \in S
    BY <1>1
  <2>2. /\ c \in Seq(S) /\ Len(c) = IF p <= n THEN n - p + 1 ELSE 0
        /\ \A i \in 1..(n - p + 1) : c[i] = s[p + i - 1]
    BY <1>1, <2>1, SubSeqProperties
  <2> HIDE DEF c
  <2>3. (IF p <= n THEN n - p + 1 ELSE 0) = n - p + 1
    BY <1>1
  <2> QED  BY <2>2, <2>3
<1>4. b \in Seq(S) /\ Len(b) = 1 /\ b[1] = e
  OBVIOUS
<1> HIDE DEF a, b, c
<1>5. PICK ab \in Seq(S) : ab = a \o b /\ Joined(ab, a, b)
  BY <1>2, <1>4, Join
<1>6. PICK u \in Seq(S) : u = ab \o c /\ Joined(u, ab, c)
  BY <1>3, Join
<1>7. Len(ab) = p /\ (\A i \in 1..(p - 1) : ab[i] = s[i]) /\ ab[p] = e
  <2>1. Len(ab) = p
    BY <1>2, <1>4, <1>5 DEF Joined
  <2>2. \A i \in 1..p : ab[i] = IF i <= p - 1 THEN a[i] ELSE b[i - (p - 1)]
    BY <1>2, <1>4, <1>5 DEF Joined
  <2>3. p - (p - 1) = 1 /\ p \in 1..p /\ ~(p <= p - 1)
    OBVIOUS
  <2>4. ab[p] = e
    BY <1>4, <2>2, <2>3
  <2> QED  BY <1>2, <2>1, <2>2, <2>4
<1>8. InsertAt(s, p, e) = u
  BY <1>1, <1>5, <1>6 DEF InsertAt, a, b, c
<1>9. Len(u) = n + 1 /\ \A i \in 1..(n + 1) : u[i] = IF i <= p THEN ab[i] ELSE c[i - p]
  BY <1>1, <1>3, <1>6, <1>7 DEF Joined
<1>10. ASSUME NEW i \in 1..(n + 1)
      PROVE  u[i] = IF i < p THEN s[i] ELSE IF i = p THEN e ELSE s[i - 1]
  <2>1. CASE i < p
    BY <1>7, <1>9, <2>1
  <2>2. CASE i = p
    BY <1>7, <1>9, <2>2
  <2>3. CASE i > p
    <3>1. PICK k \in 1..(n - p + 1) : k = i - p
      BY <1>1, <2>3
    <3>2. c[k] = s[p + k - 1] /\ p + k - 1 = i - 1
      BY <1>3, <3>1
    <3>3. u[i] = c[k]
      BY <1>9, <2>3, <3>1
    <3>4. ~(i < p) /\ i # p
      BY <2>3
    <3> QED  BY <3>2, <3>3, <3>4
  <2>4. i < p \/ i = p \/ i > p
    OBVIOUS
  <2> QED  BY <2>1, <2>2, <2>3, <2>4
<1> QED  BY <1>1, <1>6, <1>8, <1>9, <1>10 DEF HasMore

(* The last element, and those before it.                                   *)
LEMMA FrontIs ==
  ASSUME NEW S, NEW m \in Seq(S), m # <<>>
  PROVE  /\ Len(m) \in Nat /\ Len(m) >= 1 /\ Last(m) \in S /\ Last(m) = m[Len(m)]
         /\ Front(m) \in Seq(S) /\ Len(Front(m)) = Len(m) - 1
         /\ \A i \in 1..(Len(m) - 1) : Front(m)[i] = m[i]
<1>1. PICK n \in Nat : n = Len(m)
  OBVIOUS
<1>2. n >= 1 /\ \A i \in 1..n : m[i] \in S
  BY <1>1
<1>3. \A i \in 1..(n - 1) : m[i] \in S
  BY <1>2
<1>4. /\ SubSeq(m, 1, n - 1) \in Seq(S)
      /\ Len(SubSeq(m, 1, n - 1)) = (IF 1 <= n - 1 THEN n - 1 - 1 + 1 ELSE 0)
      /\ \A i \in 1..(n - 1 - 1 + 1) : SubSeq(m, 1, n - 1)[i] = m[1 + i - 1]
  BY <1>1, <1>3, SubSeqProperties
<1>5. (IF 1 <= n - 1 THEN n - 1 - 1 + 1 ELSE 0) = n - 1 /\ n - 1 - 1 + 1 = n - 1
      /\ \A i \in 1..(n - 1) : 1 + i - 1 = i
  BY <1>2
<1>6. Front(m) = SubSeq(m, 1, n - 1)
  BY <1>1 DEF Front
<1> QED  BY <1>1, <1>2, <1>4, <1>5, <1>6 DEF Last

(* An element less, at p.                                                   *)
HasLess(u, s, p) ==
    /\ Len(u) = Len(s) - 1
    /\ \A i \in 1..(Len(s) - 1) : u[i] = IF i < p THEN s[i] ELSE s[i + 1]

LEMMA Removed ==
  ASSUME NEW S, NEW s \in Seq(S), NEW p \in 1..Len(s)
  PROVE  RemoveAt(s, p) \in Seq(S) /\ HasLess(RemoveAt(s, p), s, p)
<1>1. PICK n \in Nat : n = Len(s)
  OBVIOUS
<1> DEFINE a == SubSeq(s, 1, p - 1)
           c == SubSeq(s, p + 1, n)
<1>2. a \in Seq(S) /\ Len(a) = p - 1 /\ \A i \in 1..(p - 1) : a[i] = s[i]
  <2>1. \A i \in 1..(p - 1) : s[i] \in S
    BY <1>1
  <2>2. /\ a \in Seq(S) /\ Len(a) = IF 1 <= p - 1 THEN p - 1 - 1 + 1 ELSE 0
        /\ \A i \in 1..(p - 1 - 1 + 1) : a[i] = s[1 + i - 1]
    BY <1>1, <2>1, SubSeqProperties
  <2> HIDE DEF a
  <2> QED  BY <1>1, <2>2
<1>3. c \in Seq(S) /\ Len(c) = n - p /\ \A i \in 1..(n - p) : c[i] = s[p + i]
  <2>1. \A i \in (p + 1)..n : s[i] \in S
    BY <1>1
  <2>2. /\ c \in Seq(S) /\ Len(c) = IF p + 1 <= n THEN n - (p + 1) + 1 ELSE 0
        /\ \A i \in 1..(n - (p + 1) + 1) : c[i] = s[p + 1 + i - 1]
    BY <1>1, <2>1, SubSeqProperties
  <2> HIDE DEF c
  <2>3. \A i \in 1..(n - p) : p + 1 + i - 1 = p + i
    BY <1>1
  <2> QED  BY <1>1, <2>2, <2>3
<1> HIDE DEF a, c
<1>4. PICK u \in Seq(S) : u = a \o c /\ Joined(u, a, c)
  BY <1>2, <1>3, Join
<1>5. RemoveAt(s, p) = u
  BY <1>1, <1>4 DEF RemoveAt, a, c
<1>6. Len(u) = n - 1 /\ \A i \in 1..(n - 1) : u[i] = IF i <= p - 1 THEN a[i] ELSE c[i - (p - 1)]
  <2>1. p - 1 + (n - p) = n - 1
    BY <1>1
  <2> QED  BY <1>2, <1>3, <1>4, <2>1 DEF Joined
<1>7. ASSUME NEW i \in 1..(n - 1)
      PROVE  u[i] = IF i < p THEN s[i] ELSE s[i + 1]
  <2>1. CASE i < p
    BY <1>2, <1>6, <2>1
  <2>2. CASE ~(i < p)
    <3>1. PICK k \in 1..(n - p) : k = i - (p - 1)
      BY <1>1, <2>2
    <3>2. c[k] = s[p + k] /\ p + k = i + 1
      BY <1>3, <3>1
    <3>3. ~(i <= p - 1)
      BY <2>2
    <3>4. u[i] = c[k]
      BY <1>6, <3>1, <3>3
    <3> QED  BY <2>2, <3>2, <3>4
  <2> QED  BY <2>1, <2>2
<1> QED  BY <1>1, <1>4, <1>5, <1>6, <1>7 DEF HasLess

=============================================================================
