--------------------------- MODULE Editor_proofs ----------------------------
(***************************************************************************)
(* Theorems about CodeEditor, proved for any texts, characters typed and    *)
(* any number of cursors: every cursor is within the text, the histories    *)
(* of cursor sets stay in step with the document's stacks, undo and redo    *)
(* of an edit through several cursors give back what was there, and after   *)
(* an edit no two cursors touch. And about Bookmarks, which is of the same  *)
(* documents and shares no state with it, for any number of editors, lines  *)
(* and addresses: the list holds the data of exactly the marked blocks.     *)
(***************************************************************************)
EXTENDS CodeEditor, Bookmarks, Recursion, SequenceTheorems, FiniteSetTheorems

(* Characters (no prover knows that a string is one of STRING).             *)
Char == STRING \union Word \union Blank \union {NL}
Text == Seq(Char)
Spot == [anchor : Nat, pos : Nat]

LEMMA Ends ==
  ASSUME NEW c \in Spot
  PROVE  /\ c = Cursor(c.anchor, c.pos) /\ c.anchor \in Nat /\ c.pos \in Nat
         /\ SelStart(c) = IF c.anchor <= c.pos THEN c.anchor ELSE c.pos
         /\ SelEnd(c) = IF c.anchor <= c.pos THEN c.pos ELSE c.anchor
         /\ HasSelection(c) <=> SelStart(c) < SelEnd(c)
<1>1. c.anchor \in Nat /\ c.pos \in Nat /\ c = Cursor(c.anchor, c.pos)
  BY DEF Spot, Cursor
<1> DEFINE S == {c.anchor, c.pos}
<1>2. S \subseteq Nat /\ S # {}
  BY <1>1
<1>3. Min(S) \in S /\ \A x \in S : Min(S) <= x
  <2> HIDE DEF S
  <2> QED  BY <1>2, MinIs
<1>4. SelStart(c) = IF c.anchor <= c.pos THEN c.anchor ELSE c.pos
  BY <1>1, <1>3 DEF SelStart
<1>5. PICK N \in Nat : N >= c.anchor /\ N >= c.pos
  BY <1>1
<1>6. S \subseteq 0..N
  BY <1>1, <1>5
<1>7. Max(S) \in S /\ \A x \in S : x <= Max(S)
  <2> HIDE DEF S
  <2> QED  BY <1>2, <1>6, MaxIs
<1>8. SelEnd(c) = IF c.anchor <= c.pos THEN c.pos ELSE c.anchor
  BY <1>1, <1>7 DEF SelEnd
<1> QED  BY <1>1, <1>4, <1>8 DEF HasSelection

-----------------------------------------------------------------------------
(* Documents with n live cursors, all within the text.                      *)
Docs(n) == {d \in [text : Text, cursors : [1..n -> Spot], touched : BOOLEAN] :
    \A i \in 1..n : CursorIn(d.cursors[i], d.text)}

LEMMA DocIs ==
  ASSUME NEW n \in Nat, NEW d \in Docs(n)
  PROVE  /\ d.text \in Text /\ Len(d.text) \in Nat /\ d.touched \in BOOLEAN
         /\ d.cursors \in [1..n -> Spot] /\ DOMAIN d.cursors = 1..n
         /\ d = [text |-> d.text, cursors |-> d.cursors, touched |-> d.touched]
         /\ \A i \in 1..n : /\ d.cursors[i] \in Spot
                            /\ d.cursors[i].anchor \in 0..Len(d.text) /\ d.cursors[i].pos \in 0..Len(d.text)
BY DEF Docs, CursorIn, Text

LEMMA MakeDoc ==
  ASSUME NEW n \in Nat, NEW t \in Text, NEW cs \in [1..n -> Spot], NEW b \in BOOLEAN,
         \A i \in 1..n : cs[i].anchor \in 0..Len(t) /\ cs[i].pos \in 0..Len(t)
  PROVE  [text |-> t, cursors |-> cs, touched |-> b] \in Docs(n)
BY DEF Docs, CursorIn

(* The text before a place, what comes between, and the text from a place.  *)
Spliced(u, t, from, s, to) ==
    /\ u \in Text /\ Len(u) = from + Len(s) + Len(t) - to
    /\ \A k \in 1..Len(u) : u[k] = IF k <= from THEN t[k] ELSE IF k <= from + Len(s) THEN s[k - from]
                                   ELSE t[k - from - Len(s) + to]

LEMMA Splice ==
  ASSUME NEW t \in Text, NEW from \in 0..Len(t), NEW to \in 0..Len(t), NEW s \in Text, from <= to
  PROVE  Spliced(SubSeq(t, 1, from) \o s \o SubSeq(t, to + 1, Len(t)), t, from, s, to)
<1> DEFINE a == SubSeq(t, 1, from)
           c == SubSeq(t, to + 1, Len(t))
           u == a \o s \o c
<1>1. Len(t) \in Nat /\ Len(s) \in Nat /\ \A k \in 1..Len(t) : t[k] \in Char
  BY DEF Text
<1>2. a \in Text /\ Len(a) = from /\ \A k \in 1..from : a[k] = t[k]
  <2>1. \A k \in 1..from : t[k] \in Char
    BY <1>1
  <2> QED  BY <1>1, <2>1, SubSeqProperties DEF Text
<1>3. c \in Text /\ Len(c) = Len(t) - to /\ \A k \in 1..(Len(t) - to) : c[k] = t[to + k]
  <2>1. \A k \in (to + 1)..Len(t) : t[k] \in Char
    BY <1>1
  <2>2. c \in Seq(Char) /\ Len(c) = (IF to + 1 <= Len(t) THEN Len(t) - (to + 1) + 1 ELSE 0)
        /\ \A k \in 1..(Len(t) - (to + 1) + 1) : c[k] = t[(to + 1) + k - 1]
    BY <1>1, <2>1, SubSeqProperties
  <2>3. Len(c) = Len(t) - to
    BY <1>1, <2>2
  <2>4. \A k \in 1..(Len(t) - to) : c[k] = t[to + k]
    <3> SUFFICES ASSUME NEW k \in 1..(Len(t) - to) PROVE c[k] = t[to + k]
      OBVIOUS
    <3>1. (to + 1) + k - 1 = to + k /\ k \in 1..(Len(t) - (to + 1) + 1)
      BY <1>1
    <3> QED  BY <2>2, <3>1
  <2> QED  BY <2>2, <2>3, <2>4 DEF Text
<1> HIDE DEF a, c
<1>4. a \o s \in Text /\ Joined(a \o s, a, s)
  BY <1>2, Join DEF Text
<1>5. u \in Text /\ Joined(u, a \o s, c)
  BY <1>3, <1>4, Join DEF Text
<1> HIDE DEF u
<1>6. Len(u) = from + Len(s) + Len(t) - to
  BY <1>1, <1>2, <1>3, <1>4, <1>5 DEF Joined
<1>7. ASSUME NEW k \in 1..Len(u)
      PROVE  u[k] = IF k <= from THEN t[k] ELSE IF k <= from + Len(s) THEN s[k - from]
                    ELSE t[k - from - Len(s) + to]
  <2>1. CASE k <= from + Len(s)
    <3>1. Len(a \o s) = from + Len(s) /\ k \in 1..Len(a \o s) /\ k \in 1..(Len(a \o s) + Len(c))
      BY <1>1, <1>2, <1>3, <1>4, <1>6, <2>1 DEF Joined
    <3>2. u[k] = (a \o s)[k]
      BY <1>5, <3>1 DEF Joined
    <3>3. (a \o s)[k] = IF k <= from THEN a[k] ELSE s[k - from]
      BY <1>2, <1>4, <3>1 DEF Joined
    <3> QED  BY <1>1, <1>2, <2>1, <3>1, <3>2, <3>3
  <2>2. CASE k > from + Len(s)
    <3>1. u[k] = c[k - (from + Len(s))]
      BY <1>1, <1>2, <1>3, <1>4, <1>5, <1>6, <2>2 DEF Joined
    <3>2. k - (from + Len(s)) \in 1..(Len(t) - to)
      BY <1>1, <1>6, <2>2
    <3>3. to + (k - (from + Len(s))) = k - from - Len(s) + to
      BY <1>1
    <3>4. ~(k <= from) /\ ~(k <= from + Len(s))
      BY <1>1, <2>2
    <3>5. u[k] = t[to + (k - (from + Len(s)))]
      BY <1>3, <3>1, <3>2
    <3> QED  BY <3>3, <3>4, <3>5
  <2> QED  BY <1>1, <2>1, <2>2
<1>8. u = SubSeq(t, 1, from) \o s \o SubSeq(t, to + 1, Len(t))
  BY DEF u, a, c
<1> QED  BY <1>5, <1>6, <1>7, <1>8 DEF Spliced

(* Where an insertion and a removal leave a place.                          *)
Pushed(p, at, len) == IF p >= at THEN p + len ELSE p
Pulled(p, from, to) == IF p <= from THEN p ELSE IF p <= to THEN from ELSE p - (to - from)

LEMMA PushedIn ==
  ASSUME NEW N \in Nat, NEW len \in Nat, NEW p \in 0..N, NEW place \in 0..N
  PROVE  Pushed(p, place, len) \in 0..(N + len)
BY DEF Pushed

LEMMA PulledIn ==
  ASSUME NEW N \in Nat, NEW from \in 0..N, NEW to \in 0..N, from <= to, NEW p \in 0..N
  PROVE  Pulled(p, from, to) \in 0..(N - (to - from))
BY DEF Pulled

LEMMA InsertIs ==
  ASSUME NEW n \in Nat, NEW d \in Docs(n), NEW place \in 0..Len(d.text), NEW s \in Text
  PROVE  LET e == Insert(d, place, s) IN
         /\ e \in Docs(n) /\ Spliced(e.text, d.text, place, s, place)
         /\ Len(e.text) = Len(d.text) + Len(s)
         /\ e.touched = (d.touched \/ s # <<>>)
         /\ \A i \in 1..n : e.cursors[i] = Cursor(Pushed(d.cursors[i].anchor, place, Len(s)),
                                                  Pushed(d.cursors[i].pos, place, Len(s)))
<1> DEFINE e == Insert(d, place, s)
           cs == [i \in 1..n |-> Cursor(Pushed(d.cursors[i].anchor, place, Len(s)), Pushed(d.cursors[i].pos, place, Len(s)))]
           u == SubSeq(d.text, 1, place) \o s \o SubSeq(d.text, place + 1, Len(d.text))
           b == d.touched \/ s # <<>>
<1>1. /\ d.text \in Text /\ Len(d.text) \in Nat /\ DOMAIN d.cursors = 1..n
      /\ \A i \in 1..n : d.cursors[i].anchor \in 0..Len(d.text) /\ d.cursors[i].pos \in 0..Len(d.text)
  BY DocIs
<1>2. Len(s) \in Nat
  BY DEF Text
<1>3. e = [text |-> u, cursors |-> cs, touched |-> b]
  BY <1>1 DEF Insert, Pushed
<1>4. Spliced(u, d.text, place, s, place)
  BY <1>1, Splice
<1>5. u \in Text /\ Len(u) = Len(d.text) + Len(s)
  <2> HIDE DEF u
  <2>1. u \in Text /\ Len(u) = place + Len(s) + Len(d.text) - place
    BY <1>4 DEF Spliced
  <2>2. \A x, y, z \in Nat : x + y + z - x = z + y
    OBVIOUS
  <2>3. place \in Nat
    BY <1>1
  <2> QED  BY <1>1, <1>2, <2>1, <2>2, <2>3
<1>6. cs \in [1..n -> Spot] /\ \A i \in 1..n : cs[i].anchor \in 0..Len(u) /\ cs[i].pos \in 0..Len(u)
  <2> SUFFICES ASSUME NEW i \in 1..n
               PROVE  cs[i] \in Spot /\ cs[i].anchor \in 0..Len(u) /\ cs[i].pos \in 0..Len(u)
    OBVIOUS
  <2>1. d.cursors[i].anchor \in 0..Len(d.text) /\ d.cursors[i].pos \in 0..Len(d.text)
    BY <1>1
  <2> DEFINE a == Pushed(d.cursors[i].anchor, place, Len(s))
             p == Pushed(d.cursors[i].pos, place, Len(s))
  <2>2. cs[i] = Cursor(a, p)
    OBVIOUS
  <2> HIDE DEF u, cs
  <2>3. a \in 0..Len(u) /\ p \in 0..Len(u)
    BY <1>1, <1>2, <1>5, <2>1, PushedIn
  <2>4. \A x \in 0..Len(u) : x \in Nat
    BY <1>5 DEF Text
  <2> HIDE DEF a, p
  <2> QED  BY <1>1, <1>2, <2>4, <2>2, <2>3 DEF Cursor, Spot
<1> HIDE DEF u, cs, b
<1>7. b \in BOOLEAN
  BY DEF b
<1>8. e \in Docs(n)
  BY <1>3, <1>5, <1>6, <1>7, MakeDoc
<1>9. e.text = u /\ e.cursors = cs /\ e.touched = b
  BY <1>3
<1> QED  BY <1>4, <1>5, <1>8, <1>9 DEF cs, b

LEMMA DeleteIs ==
  ASSUME NEW n \in Nat, NEW d \in Docs(n), NEW from \in 0..Len(d.text), NEW to \in 0..Len(d.text), from <= to
  PROVE  LET e == Delete(d, from, to) IN
         /\ e \in Docs(n) /\ Spliced(e.text, d.text, from, <<>>, to)
         /\ Len(e.text) = Len(d.text) - (to - from)
         /\ e.touched = (d.touched \/ from < to)
         /\ \A i \in 1..n : e.cursors[i] = Cursor(Pulled(d.cursors[i].anchor, from, to),
                                                  Pulled(d.cursors[i].pos, from, to))
<1> DEFINE e == Delete(d, from, to)
           cs == [i \in 1..n |-> Cursor(Pulled(d.cursors[i].anchor, from, to), Pulled(d.cursors[i].pos, from, to))]
           u == SubSeq(d.text, 1, from) \o SubSeq(d.text, to + 1, Len(d.text))
           b == d.touched \/ from < to
<1>1. /\ d.text \in Text /\ Len(d.text) \in Nat /\ DOMAIN d.cursors = 1..n
      /\ \A i \in 1..n : d.cursors[i].anchor \in 0..Len(d.text) /\ d.cursors[i].pos \in 0..Len(d.text)
  BY DocIs
<1>2. <<>> \in Text /\ Len(<<>>) = 0
  BY DEF Text
<1>3. e = [text |-> u, cursors |-> cs, touched |-> b]
  BY <1>1 DEF Delete, Pulled
<1>4. Spliced(u, d.text, from, <<>>, to)
  <2>1. Spliced(SubSeq(d.text, 1, from) \o <<>> \o SubSeq(d.text, to + 1, Len(d.text)), d.text, from, <<>>, to)
    BY <1>1, <1>2, Splice
  <2>2. SubSeq(d.text, 1, from) \in Seq(Char)
    <3>1. \A k \in 1..from : d.text[k] \in Char
      BY <1>1 DEF Text
    <3> QED  BY <3>1, SubSeqProperties
  <2>3. SubSeq(d.text, 1, from) \o <<>> = SubSeq(d.text, 1, from)
    BY <2>2, ConcatEmptySeq
  <2> QED  BY <2>1, <2>3
<1>5. u \in Text /\ Len(u) = Len(d.text) - (to - from)
  <2> HIDE DEF u
  <2>1. u \in Text /\ Len(u) = from + Len(<<>>) + Len(d.text) - to
    BY <1>4 DEF Spliced
  <2> QED  BY <1>1, <1>2, <2>1
<1>6. cs \in [1..n -> Spot] /\ \A i \in 1..n : cs[i].anchor \in 0..Len(u) /\ cs[i].pos \in 0..Len(u)
  <2> SUFFICES ASSUME NEW i \in 1..n
               PROVE  cs[i] \in Spot /\ cs[i].anchor \in 0..Len(u) /\ cs[i].pos \in 0..Len(u)
    OBVIOUS
  <2>1. d.cursors[i].anchor \in 0..Len(d.text) /\ d.cursors[i].pos \in 0..Len(d.text)
    BY <1>1
  <2> DEFINE a == Pulled(d.cursors[i].anchor, from, to)
             p == Pulled(d.cursors[i].pos, from, to)
  <2>2. cs[i] = Cursor(a, p)
    OBVIOUS
  <2> HIDE DEF u, cs
  <2>3. a \in 0..Len(u) /\ p \in 0..Len(u)
    BY <1>1, <1>5, <2>1, PulledIn
  <2>4. \A x \in 0..Len(u) : x \in Nat
    BY <1>5 DEF Text
  <2> HIDE DEF a, p
  <2> QED  BY <1>1, <2>4, <2>2, <2>3 DEF Cursor, Spot
<1> HIDE DEF u, cs, b
<1>7. b \in BOOLEAN
  BY DEF b
<1>8. e \in Docs(n)
  BY <1>3, <1>5, <1>6, <1>7, MakeDoc
<1>9. e.text = u /\ e.cursors = cs /\ e.touched = b
  BY <1>3
<1> QED  BY <1>4, <1>5, <1>8, <1>9 DEF cs, b

LEMMA PlaceIs ==
  ASSUME NEW n \in Nat, NEW d \in Docs(n), NEW i \in 1..n,
         NEW a \in 0..Len(d.text), NEW p \in 0..Len(d.text)
  PROVE  LET e == Place(d, i, a, p) IN
         /\ e \in Docs(n) /\ e.text = d.text /\ e.touched = d.touched /\ e.cursors[i] = Cursor(a, p)
<1>1. /\ d.text \in Text /\ Len(d.text) \in Nat /\ d.touched \in BOOLEAN /\ d.cursors \in [1..n -> Spot]
      /\ d = [text |-> d.text, cursors |-> d.cursors, touched |-> d.touched]
      /\ \A j \in 1..n : d.cursors[j].anchor \in 0..Len(d.text) /\ d.cursors[j].pos \in 0..Len(d.text)
  BY DocIs
<1> DEFINE cs == [d.cursors EXCEPT ![i] = Cursor(a, p)]
           e == Place(d, i, a, p)
<1>2. e = [text |-> d.text, cursors |-> cs, touched |-> d.touched]
  <2>1. d \in [text : Text, cursors : [1..n -> Spot], touched : BOOLEAN]
    BY DEF Docs
  <2>2. e = [d EXCEPT !.cursors = cs]
    BY DEF Place
  <2> HIDE DEF cs, e
  <2> QED  BY <2>1, <2>2
<1>3. Cursor(a, p) \in Spot /\ Cursor(a, p).anchor = a /\ Cursor(a, p).pos = p
  BY <1>1 DEF Cursor, Spot
<1>4. cs \in [1..n -> Spot] /\ cs[i] = Cursor(a, p)
      /\ \A j \in 1..n : cs[j].anchor \in 0..Len(d.text) /\ cs[j].pos \in 0..Len(d.text)
  BY <1>1, <1>3
<1> HIDE DEF cs
<1>5. e \in Docs(n)
  BY <1>1, <1>2, <1>4, MakeDoc
<1> QED  BY <1>2, <1>4, <1>5

LEMMA RemoveSelectedIs ==
  ASSUME NEW n \in Nat, NEW d \in Docs(n), NEW i \in 1..n
  PROVE  LET e == RemoveSelected(d, i)
             from == SelStart(d.cursors[i])
             to == SelEnd(d.cursors[i])
         IN /\ e \in Docs(n) /\ from \in 0..Len(d.text) /\ to \in 0..Len(d.text) /\ from <= to
            /\ Spliced(e.text, d.text, from, <<>>, to) /\ Len(e.text) = Len(d.text) - (to - from)
            /\ e.touched = (d.touched \/ from < to)
            /\ \A j \in 1..n : e.cursors[j] = Cursor(Pulled(d.cursors[j].anchor, from, to),
                                                     Pulled(d.cursors[j].pos, from, to))
            /\ e.cursors[i] = Caret(from)
<1> DEFINE from == SelStart(d.cursors[i])
           to == SelEnd(d.cursors[i])
           e == RemoveSelected(d, i)
<1>1. /\ d.cursors[i] \in Spot /\ Len(d.text) \in Nat
      /\ d.cursors[i].anchor \in 0..Len(d.text) /\ d.cursors[i].pos \in 0..Len(d.text)
  BY DocIs
<1>2. /\ from = IF d.cursors[i].anchor <= d.cursors[i].pos THEN d.cursors[i].anchor ELSE d.cursors[i].pos
      /\ to = IF d.cursors[i].anchor <= d.cursors[i].pos THEN d.cursors[i].pos ELSE d.cursors[i].anchor
  BY <1>1, Ends
<1> HIDE DEF from, to
<1>3. from \in 0..Len(d.text) /\ to \in 0..Len(d.text) /\ from <= to
  BY <1>1, <1>2
<1>4. e = Delete(d, from, to)
  BY DEF RemoveSelected, from, to
<1> HIDE DEF e
<1>5. /\ e \in Docs(n) /\ Spliced(e.text, d.text, from, <<>>, to) /\ Len(e.text) = Len(d.text) - (to - from)
      /\ e.touched = (d.touched \/ from < to)
      /\ \A j \in 1..n : e.cursors[j] = Cursor(Pulled(d.cursors[j].anchor, from, to),
                                               Pulled(d.cursors[j].pos, from, to))
  BY <1>3, <1>4, DeleteIs
<1>6. Pulled(d.cursors[i].anchor, from, to) = from /\ Pulled(d.cursors[i].pos, from, to) = from
  BY <1>1, <1>2, <1>3 DEF Pulled
<1>7. e.cursors[i] = Caret(from)
  BY <1>5, <1>6 DEF Caret
<1> QED  BY <1>3, <1>5, <1>7 DEF e, from, to

LEMMA InsertTextIs ==
  ASSUME NEW n \in Nat, NEW d \in Docs(n), NEW i \in 1..n, NEW s \in Text
  PROVE  LET e == InsertText(d, i, s)
             from == SelStart(d.cursors[i])
             to == SelEnd(d.cursors[i])
         IN /\ e \in Docs(n) /\ Len(e.text) = Len(d.text) - (to - from) + Len(s)
            /\ \A j \in 1..n : d.cursors[i] = d.cursors[j] => e.cursors[i] = e.cursors[j]
<1> DEFINE from == SelStart(d.cursors[i])
           to == SelEnd(d.cursors[i])
           r == RemoveSelected(d, i)
           e == InsertText(d, i, s)
<1>1. /\ r \in Docs(n) /\ Len(r.text) = Len(d.text) - (to - from)
      /\ \A j \in 1..n : r.cursors[j] = Cursor(Pulled(d.cursors[j].anchor, from, to),
                                               Pulled(d.cursors[j].pos, from, to))
  BY RemoveSelectedIs
<1> HIDE DEF r, from, to
<1>2. Len(r.text) \in Nat /\ r.cursors[i].pos \in 0..Len(r.text)
  BY <1>1, DocIs
<1> DEFINE place == r.cursors[i].pos
<1>3. e = Insert(r, place, s)
  BY DEF InsertText, r
<1> HIDE DEF place, e
<1>4. place \in 0..Len(r.text)
  BY <1>2 DEF place
<1>5. /\ e \in Docs(n) /\ Len(e.text) = Len(r.text) + Len(s)
      /\ \A j \in 1..n : e.cursors[j] = Cursor(Pushed(r.cursors[j].anchor, place, Len(s)),
                                               Pushed(r.cursors[j].pos, place, Len(s)))
  BY <1>1, <1>3, <1>4, InsertIs
<1>6. \A j \in 1..n : d.cursors[i] = d.cursors[j] => r.cursors[i] = r.cursors[j]
  BY <1>1
<1>7. \A j \in 1..n : r.cursors[i] = r.cursors[j] => e.cursors[i] = e.cursors[j]
  BY <1>5
<1> QED  BY <1>1, <1>5, <1>6, <1>7 DEF e, from, to

LEMMA DeleteCharIs ==
  ASSUME NEW n \in Nat, NEW d \in Docs(n), NEW i \in 1..n
  PROVE  /\ DeleteChar(d, i) \in Docs(n) /\ DeletePreviousChar(d, i) \in Docs(n)
         /\ \A j \in 1..n : d.cursors[i] = d.cursors[j] =>
                /\ DeleteChar(d, i).cursors[i] = DeleteChar(d, i).cursors[j]
                /\ DeletePreviousChar(d, i).cursors[i] = DeletePreviousChar(d, i).cursors[j]
<1>1. PICK N \in Nat, p \in Nat : N = Len(d.text) /\ p = d.cursors[i].pos /\ p <= N
  BY DocIs
<1>4. DeleteChar(d, i) \in Docs(n) /\ \A j \in 1..n : d.cursors[i] = d.cursors[j] =>
          DeleteChar(d, i).cursors[i] = DeleteChar(d, i).cursors[j]
  <2>1. CASE p < N
    <3>1. p \in 0..N /\ p + 1 \in 0..N /\ p <= p + 1 /\ DeleteChar(d, i) = Delete(d, p, p + 1)
      BY <1>1, <2>1 DEF DeleteChar
    <3> DEFINE e == Delete(d, p, p + 1)
    <3>2. e \in Docs(n) /\ \A j \in 1..n : e.cursors[j] = Cursor(Pulled(d.cursors[j].anchor, p, p + 1),
                                                                 Pulled(d.cursors[j].pos, p, p + 1))
      BY <1>1, <3>1, DeleteIs
    <3> HIDE DEF e
    <3>3. DeleteChar(d, i) = e
      BY <3>1 DEF e
    <3> QED  BY <3>2, <3>3
  <2>2. CASE ~(p < N)
    BY <1>1, <2>2 DEF DeleteChar
  <2> QED  BY <2>1, <2>2
<1>5. DeletePreviousChar(d, i) \in Docs(n) /\ \A j \in 1..n : d.cursors[i] = d.cursors[j] =>
          DeletePreviousChar(d, i).cursors[i] = DeletePreviousChar(d, i).cursors[j]
  <2>1. CASE p > 0
    <3>1. p - 1 \in 0..N /\ p \in 0..N /\ p - 1 <= p /\ DeletePreviousChar(d, i) = Delete(d, p - 1, p)
      BY <1>1, <2>1 DEF DeletePreviousChar
    <3> DEFINE e == Delete(d, p - 1, p)
    <3>2. e \in Docs(n) /\ \A j \in 1..n : e.cursors[j] = Cursor(Pulled(d.cursors[j].anchor, p - 1, p),
                                                                 Pulled(d.cursors[j].pos, p - 1, p))
      BY <1>1, <3>1, DeleteIs
    <3> HIDE DEF e
    <3>3. DeletePreviousChar(d, i) = e
      BY <3>1 DEF e
    <3> QED  BY <3>2, <3>3
  <2>2. CASE ~(p > 0)
    BY <1>1, <2>2 DEF DeletePreviousChar
  <2> QED  BY <2>1, <2>2
<1> QED  BY <1>4, <1>5

-----------------------------------------------------------------------------
(* Where lines and runs of characters begin and end.                        *)
(* What the editor finds past the end of a text.                            *)
NoChar == ""

LEMMA CharIs ==
  ASSUME NEW t \in Text, NEW p \in Nat
  PROVE  /\ p < Len(t) => CharAt(t, p) = t[p + 1] /\ CharAt(t, p) \in Char
         /\ p >= Len(t) => CharAt(t, p) = NoChar
<1>1. Len(t) \in Nat /\ \A k \in 1..Len(t) : t[k] \in Char
  BY DEF Text
<1>2. p < Len(t) => p \in 0..(Len(t) - 1) /\ p + 1 \in 1..Len(t)
  BY <1>1
<1>3. p >= Len(t) => ~(p \in 0..(Len(t) - 1))
  BY <1>1
<1> QED  BY <1>1, <1>2, <1>3 DEF CharAt, NoChar

LEMMA LineStartIs ==
  ASSUME NEW t \in Text, NEW p \in Nat
  PROVE  /\ LineStart(t, p) \in LineStarts(t) /\ LineStart(t, p) \in 0..p /\ LineStart(t, p) <= Len(t)
         /\ \A s \in LineStarts(t) : s <= p => s <= LineStart(t, p)
<1> DEFINE S == {s \in LineStarts(t) : s <= p}
<1>1. Len(t) \in Nat
  BY DEF Text
<1>2. LineStarts(t) \subseteq 0..Len(t)
  BY <1>1 DEF LineStarts
<1>3. S \subseteq 0..p /\ S \subseteq 0..Len(t)
  BY <1>1, <1>2
<1>4. 0 \in S
  BY DEF LineStarts
<1>5. LineStart(t, p) = Max(S)
  BY DEF LineStart
<1>6. Max(S) \in S /\ \A x \in S : x <= Max(S)
  <2> HIDE DEF S
  <2> QED  BY <1>3, <1>4, MaxIs
<1> QED  BY <1>1, <1>3, <1>5, <1>6

LEMMA LineEndIs ==
  ASSUME NEW t \in Text, NEW p \in 0..Len(t)
  PROVE  /\ LineEnd(t, p) \in p..Len(t) /\ LineEnd(t, p) \in 0..Len(t)
         /\ LineEnd(t, p) = Len(t) \/ CharAt(t, LineEnd(t, p)) = NL
<1> DEFINE S == {e \in p..Len(t) : e = Len(t) \/ CharAt(t, e) = NL}
<1>1. Len(t) \in Nat
  BY DEF Text
<1>2. S \subseteq Nat /\ Len(t) \in S
  BY <1>1
<1>3. LineEnd(t, p) = Min(S)
  BY DEF LineEnd
<1>4. Min(S) \in S
  <2> HIDE DEF S
  <2> QED  BY <1>2, MinIs
<1> QED  BY <1>1, <1>3, <1>4

LEMMA RunEndIs ==
  ASSUME NEW t \in Text, NEW p \in 0..Len(t), NEW S, ~(NoChar \in S)
  PROVE  /\ RunEnd(t, p, S) \in p..Len(t) /\ RunEnd(t, p, S) \in 0..Len(t)
         /\ \A e \in p..Len(t) : CharAt(t, e) \notin S => RunEnd(t, p, S) <= e
<1> DEFINE E == {e \in p..Len(t) : CharAt(t, e) \notin S}
<1>1. Len(t) \in Nat
  BY DEF Text
<1>2. Len(t) \in E
  BY <1>1, CharIs
<1>3. E \subseteq Nat
  BY <1>1
<1>4. RunEnd(t, p, S) = Min(E)
  BY DEF RunEnd
<1>5. Min(E) \in E /\ \A x \in E : Min(E) <= x
  <2> HIDE DEF E
  <2> QED  BY <1>2, <1>3, MinIs
<1> QED  BY <1>1, <1>4, <1>5

LEMMA RunStartIs ==
  ASSUME NEW t \in Text, NEW p \in 0..Len(t), NEW S
  PROVE  RunStart(t, p, S) \in 0..p /\ RunStart(t, p, S) \in 0..Len(t)
<1> DEFINE E == {s \in 0..p : s = 0 \/ t[s] \notin S}
<1>1. Len(t) \in Nat /\ p \in Nat
  BY DEF Text
<1>2. E \subseteq 0..p /\ 0 \in E
  BY <1>1
<1>3. RunStart(t, p, S) = Max(E)
  BY DEF RunStart
<1>4. Max(E) \in E
  <2> HIDE DEF E
  <2> QED  BY <1>1, <1>2, MaxIs
<1> QED  BY <1>1, <1>2, <1>3, <1>4

LEMMA NoEnd == ~(NoChar \in Blank) /\ ~(NoChar \in Word) /\ NL \notin Blank /\ \A ch : ~(NoChar \in ClassOf(ch))
BY DEF NoChar, Blank, Word, ClassOf, NL, Tab

LEMMA Remainder ==
  ASSUME NEW a \in Nat, NEW b \in Nat \ {0}
  PROVE  (a % b) \in Nat /\ (a % b) < b /\ (a % b) <= a
OBVIOUS

LEMMA ColumnIs ==
  ASSUME NEW t, NEW from \in Nat, NEW to \in Nat, from <= to
  PROVE  Column(t, from, to) \in Nat /\ Column(t, from, to) >= to - from
         /\ (from = to => Column(t, from, to) = 0)
<1> DEFINE N == to - from
           next(k, before) == IF t[from + k] = Tab THEN before + Indent - (before % Indent) ELSE before + 1
           step == [k \in 1..N |-> [x \in Nat |-> next(k, x)]]
           Is(h) == h = [k \in 0..N |-> IF k = 0 THEN 0 ELSE LET before == h[k - 1] IN
                         IF t[from + k] = Tab THEN before + Indent - (before % Indent) ELSE before + 1]
<1>1. N \in Nat
  OBVIOUS
<1>2. ASSUME NEW k \in 1..N, NEW x \in Nat PROVE next(k, x) \in Nat /\ next(k, x) >= x + 1
  <2>1. (x % Indent) \in Nat /\ (x % Indent) < Indent /\ Indent \in Nat
    BY EditAssumption, Remainder
  <2>2. x + Indent - (x % Indent) \in Nat /\ x + Indent - (x % Indent) >= x + 1
    <3>1. \A a, b \in Nat : b < a => x + a - b \in Nat /\ x + a - b >= x + 1
      OBVIOUS
    <3> QED  BY <2>1, <3>1
  <2> QED  BY <2>2
<1>3. step \in [1..N -> [Nat -> Nat]]
  <2> HIDE DEF N, next
  <2> QED  BY <1>2
<1>4. PICK g : Recurs(g, Nat, 0, N, step)
  <2> HIDE DEF step, N
  <2> QED  BY <1>1, <1>3, RecursionExists
<1>5. Is(g)
  <2>1. g \in [0..N -> Nat] /\ g = [k \in 0..N |-> IF k = 0 THEN 0 ELSE step[k][g[k - 1]]]
    BY <1>4 DEF Recurs
  <2>2. \A k \in 1..N : k - 1 \in 0..N
    BY <1>1
  <2>3. \A k \in 0..N : g[k] = IF k = 0 THEN 0 ELSE next(k, g[k - 1])
    <3> HIDE DEF next
    <3>1. ASSUME NEW k \in 0..N PROVE g[k] = IF k = 0 THEN 0 ELSE step[k][g[k - 1]]
      <4> HIDE DEF step, N
      <4> QED  BY <2>1
    <3>2. ASSUME NEW k \in 1..N PROVE step[k][g[k - 1]] = next(k, g[k - 1])
      <4>1. g[k - 1] \in Nat
        <5> HIDE DEF step, N
        <5> QED  BY <2>1, <2>2
      <4> HIDE DEF N
      <4> QED  BY <4>1
    <3>3. \A k \in 0..N : k # 0 => k \in 1..N
      BY <1>1
    <3> HIDE DEF step, N
    <3> QED  BY <3>1, <3>2, <3>3
  <2>4. g = [k \in 0..N |-> g[k]]
    BY <2>1
  <2> HIDE DEF N
  <2> QED  BY <2>3, <2>4
<1>6. Is(CHOOSE h : Is(h))
  BY <1>5
<1> DEFINE c == CHOOSE h : Is(h)
<1>7. Column(t, from, to) = c[N]
  BY DEF Column
<1> HIDE DEF step
<1>8. c[0] = 0 /\ \A k \in 1..N : c[k] = next(k, c[k - 1])
  <2> HIDE DEF c
  <2>1. Is(c)
    BY <1>6 DEF c
  <2> HIDE DEF N
  <2> QED  BY <1>1, <2>1
<1> HIDE DEF c
<1> DEFINE G == {k \in 0..N : c[k] \in Nat /\ c[k] >= k}
<1>9. 0 \in G
  BY <1>1, <1>8
<1>10. \A k \in Nat : k < N /\ k \in G => k + 1 \in G
  <2> SUFFICES ASSUME NEW k \in Nat, k < N, k \in G PROVE k + 1 \in G
    OBVIOUS
  <2>1. c[k] \in Nat /\ c[k] >= k /\ k + 1 \in 1..N /\ (k + 1) - 1 = k
    BY <1>1
  <2>2. c[k + 1] = next(k + 1, c[k])
    <3> HIDE DEF next, N
    <3> QED  BY <1>8, <2>1
  <2>3. next(k + 1, c[k]) \in Nat /\ next(k + 1, c[k]) >= c[k] + 1
    <3> HIDE DEF next, N
    <3> QED  BY <1>2, <2>1
  <2> HIDE DEF next
  <2> QED  BY <1>1, <2>1, <2>2, <2>3
<1> HIDE DEF G
<1>11. 0..N \subseteq G
  <2> HIDE DEF N
  <2> QED  BY <1>1, <1>9, <1>10, BoundedInduction
<1> QED  BY <1>1, <1>7, <1>8, <1>11 DEF G

LEMMA PieceIs ==
  ASSUME NEW t \in Text, NEW a \in 0..Len(t), NEW b \in 0..Len(t), a <= b
  PROVE  SubSeq(t, a + 1, b) \in Text /\ Len(SubSeq(t, a + 1, b)) = b - a
<1>1. Len(t) \in Nat /\ \A k \in 1..Len(t) : t[k] \in Char
  BY DEF Text
<1>2. \A k \in (a + 1)..b : t[k] \in Char
  BY <1>1
<1>3. SubSeq(t, a + 1, b) \in Seq(Char)
      /\ Len(SubSeq(t, a + 1, b)) = (IF a + 1 <= b THEN b - (a + 1) + 1 ELSE 0)
  BY <1>1, <1>2, SubSeqProperties
<1>4. (IF a + 1 <= b THEN b - (a + 1) + 1 ELSE 0) = b - a
  BY <1>1
<1> QED  BY <1>3, <1>4 DEF Text

LEMMA BlanksAre ==
  /\ <<>> \in Text /\ <<NL>> \in Text /\ <<Tab>> \in Text
  /\ \A k \in Nat : Spaces(k) \in Text /\ [j \in 1..k |-> Tab] \in Text
<1>0. NL \in Char /\ Tab \in Char /\ " " \in Char
  BY DEF Char, Blank
<1>3. NL \in Char /\ Tab \in Char
  BY <1>0
<1>1. <<>> \in Text /\ <<NL>> \in Text /\ <<Tab>> \in Text
  BY <1>3 DEF Text
<1>2. ASSUME NEW k \in Nat PROVE Spaces(k) \in Text /\ [j \in 1..k |-> Tab] \in Text
  <2>1. \A c \in Char : [j \in 1..k |-> c] \in [1..k -> Char]
    OBVIOUS
  <2>2. Spaces(k) \in [1..k -> Char] /\ [j \in 1..k |-> Tab] \in [1..k -> Char]
    BY <1>0, <2>1, Zenon DEF Spaces
  <2> QED  BY <2>2, SeqDef DEF Text
<1> QED  BY <1>1, <1>2

(* The cursors of a document that are at the same place as the i-th stay with it. *)
Together(d, e, n, i) == \A j \in 1..n : d.cursors[i] = d.cursors[j] => e.cursors[i] = e.cursors[j]

LEMMA TogetherRemoved ==
  ASSUME NEW n \in Nat, NEW d \in Docs(n), NEW i \in 1..n
  PROVE  RemoveSelected(d, i) \in Docs(n) /\ Together(d, RemoveSelected(d, i), n, i)
<1> DEFINE from == SelStart(d.cursors[i])
           to == SelEnd(d.cursors[i])
           e == RemoveSelected(d, i)
<1>1. e \in Docs(n) /\ \A j \in 1..n : e.cursors[j] = Cursor(Pulled(d.cursors[j].anchor, from, to),
                                                             Pulled(d.cursors[j].pos, from, to))
  BY RemoveSelectedIs
<1> HIDE DEF from, to, e
<1>2. e \in Docs(n) /\ Together(d, e, n, i)
  BY <1>1 DEF Together
<1> QED  BY <1>2 DEF e

LEMMA TogetherDeleted ==
  ASSUME NEW n \in Nat, NEW d \in Docs(n), NEW i \in 1..n,
         NEW from \in 0..Len(d.text), NEW to \in 0..Len(d.text), from <= to
  PROVE  Delete(d, from, to) \in Docs(n) /\ Together(d, Delete(d, from, to), n, i)
<1> DEFINE e == Delete(d, from, to)
<1>1. e \in Docs(n) /\ \A j \in 1..n : e.cursors[j] = Cursor(Pulled(d.cursors[j].anchor, from, to),
                                                             Pulled(d.cursors[j].pos, from, to))
  BY DeleteIs
<1> HIDE DEF e
<1>2. e \in Docs(n) /\ Together(d, e, n, i)
  BY <1>1 DEF Together
<1> QED  BY <1>2 DEF e

LEMMA TogetherInserted ==
  ASSUME NEW n \in Nat, NEW d \in Docs(n), NEW i \in 1..n, NEW s \in Text
  PROVE  InsertText(d, i, s) \in Docs(n) /\ Together(d, InsertText(d, i, s), n, i)
BY InsertTextIs DEF Together

LEMMA BackIn ==
  ASSUME NEW N \in Nat, NEW p \in 0..N, NEW r \in 0..p, NEW b \in Nat, p - r >= b
  PROVE  p - b \in 0..N /\ p - b <= p
OBVIOUS

LEMMA SmartBackspaceIs ==
  ASSUME NEW n \in Nat, NEW d \in Docs(n), NEW i \in 1..n, SmartBackspaceApplies(d, i)
  PROVE  \E from, to \in 0..Len(d.text) : from <= to /\ applySmartBackspace(d, i) = Delete(d, from, to)
<1>1. PICK t \in Text, N \in Nat, p \in Nat : t = d.text /\ N = Len(t) /\ p = d.cursors[i].pos /\ p <= N
  BY DocIs
<1> DEFINE start == LineStart(t, p)
           col == Column(t, start, p)
           back == ((col - 1) % Indent) + 1
           run == Max({start, RunStart(t, p, {" "})})
<1>2. start \in 0..p
  BY <1>1, LineStartIs
<1>3. RunStart(t, p, {" "}) \in 0..p
  <2>1. p \in 0..Len(t)
    BY <1>1
  <2> QED  BY <2>1, RunStartIs
<1>4. run \in 0..p
  <2> DEFINE S == {start, RunStart(t, p, {" "})}
  <2>1. S \subseteq 0..p /\ S # {}
    BY <1>2, <1>3
  <2>2. Max(S) \in S
    <3> HIDE DEF S
    <3> QED  BY <1>1, <2>1, MaxIs
  <2> QED  BY <2>1, <2>2
<1>5. col > 0 /\ p - run >= back
  BY <1>1 DEF SmartBackspaceApplies
<1>10. col > 0
  BY <1>5
<1>6. col \in Nat
  BY <1>1, <1>2, ColumnIs
<1>7. applySmartBackspace(d, i) = Delete(d, p - back, p)
  BY <1>1 DEF applySmartBackspace
<1>8. back \in Nat
  <2> HIDE DEF col
  <2>1. col - 1 \in Nat
    BY <1>10, <1>6
  <2> QED  BY <2>1, EditAssumption, Remainder
<1>11. p - run >= back
  BY <1>5
<1> HIDE DEF back, run, col, start
<1>9. p - back \in 0..N /\ p \in 0..N /\ p - back <= p
  <2>1. p \in 0..N
    BY <1>1
  <2> QED  BY <1>4, <1>8, <1>11, <2>1, BackIn
<1> QED  BY <1>1, <1>7, <1>9

LEMMA SmartBackspaceKeeps ==
  ASSUME NEW n \in Nat, NEW d \in Docs(n), NEW i \in 1..n, SmartBackspaceApplies(d, i)
  PROVE  applySmartBackspace(d, i) \in Docs(n) /\ Together(d, applySmartBackspace(d, i), n, i)
BY SmartBackspaceIs, TogetherDeleted

LEMMA BackspaceKeeps ==
  ASSUME NEW n \in Nat, NEW d \in Docs(n), NEW i \in 1..n
  PROVE  BackspaceAt(d, i) \in Docs(n) /\ Together(d, BackspaceAt(d, i), n, i)
<1>1. CASE HasSelection(d.cursors[i])
  BY <1>1, TogetherRemoved DEF BackspaceAt
<1>2. CASE ~HasSelection(d.cursors[i]) /\ SmartBackspaceApplies(d, i)
  BY <1>2, SmartBackspaceKeeps DEF BackspaceAt
<1>3. CASE ~HasSelection(d.cursors[i]) /\ ~SmartBackspaceApplies(d, i)
  BY <1>3, DeleteCharIs DEF BackspaceAt, Together
<1> QED  BY <1>1, <1>2, <1>3

LEMMA DeleteKeeps ==
  ASSUME NEW n \in Nat, NEW d \in Docs(n), NEW i \in 1..n
  PROVE  DeleteAt(d, i) \in Docs(n) /\ Together(d, DeleteAt(d, i), n, i)
BY TogetherRemoved, DeleteCharIs DEF DeleteAt, Together

LEMMA OvertypeKeeps ==
  ASSUME NEW n \in Nat, NEW d \in Docs(n), NEW i \in 1..n, NEW s \in Text
  PROVE  Overtype(d, i, s) \in Docs(n) /\ Together(d, Overtype(d, i, s), n, i)
<1> DEFINE p == d.cursors[i].pos
           e == IF HasSelection(d.cursors[i]) THEN RemoveSelected(d, i)
                ELSE IF _overwriteMode /\ p < LineEnd(d.text, p) THEN DeleteChar(d, i) ELSE d
<1>1. e \in Docs(n) /\ Together(d, e, n, i)
  BY TogetherRemoved, DeleteCharIs DEF Together
<1>2. Overtype(d, i, s) = InsertText(e, i, s)
  BY DEF Overtype
<1> HIDE DEF e
<1>3. InsertText(e, i, s) \in Docs(n) /\ Together(e, InsertText(e, i, s), n, i)
  BY <1>1, TogetherInserted
<1> QED  BY <1>1, <1>2, <1>3 DEF Together

LEMMA ReturnKeeps ==
  ASSUME NEW n \in Nat, NEW d \in Docs(n), NEW i \in 1..n
  PROVE  applyReturnWithIndent(d, i) \in Docs(n)
<1>1. PICK e \in Docs(n) : e = RemoveSelected(d, i)
  BY TogetherRemoved
<1>2. PICK t \in Text, N \in Nat, p \in Nat : t = e.text /\ N = Len(t) /\ p = e.cursors[i].pos /\ p <= N
  BY DocIs
<1> DEFINE near == {s \in Inked(t) : s < p}
           within == near # {} /\ RunEnd(t, Max(near), Blank) >= p
           above == IF within THEN near \ {Max(near)} ELSE near
           indent == IF above = {} THEN <<>> ELSE SubSeq(t, Max(above) + 1, RunEnd(t, Max(above), Blank))
           after == RunEnd(t, p, Blank)
           trimmed == IF above # {} /\ after < LineEnd(t, p) THEN Delete(e, p, after) ELSE e
           left == LineStart(t, p)
           selected == IF RunEnd(t, left, Blank) >= p THEN Place(trimmed, i, p, left) ELSE trimmed
<1>3. applyReturnWithIndent(d, i) = InsertText(selected, i, <<NL>> \o indent)
  BY <1>1, <1>2 DEF applyReturnWithIndent
<1>4. near \subseteq 0..N
  BY <1>2 DEF Inked, LineStarts
<1>5. indent \in Text
  <2>1. CASE above = {}
    BY <2>1, BlanksAre
  <2>2. CASE above # {}
    <3>1. above \subseteq 0..N
      BY <1>4
    <3>2. Max(above) \in 0..N
      <4> HIDE DEF above
      <4> QED  BY <1>2, <2>2, <3>1, MaxIs
    <3> DEFINE m == Max(above)
               r == RunEnd(t, m, Blank)
    <3>3. r \in m..N /\ r \in 0..N
      <4> HIDE DEF m
      <4> QED  BY <1>2, <3>2, NoEnd, RunEndIs DEF m
    <3>4. SubSeq(t, m + 1, r) \in Text
      <4> HIDE DEF m, r
      <4> QED  BY <1>2, <3>2, <3>3, PieceIs DEF m
    <3> QED  BY <2>2, <3>4
  <2> QED  BY <2>1, <2>2
<1> HIDE DEF indent, above
<1>6. after \in p..N /\ after \in 0..N
  <2>1. p \in 0..Len(t)
    BY <1>2
  <2> QED  BY <1>2, <2>1, NoEnd, RunEndIs
<1>7. trimmed \in Docs(n) /\ p \in 0..Len(trimmed.text)
  <2>1. CASE above # {} /\ after < LineEnd(t, p)
    <3> DEFINE f == Delete(e, p, after)
    <3>1. trimmed = f
      BY <2>1
    <3> HIDE DEF after
    <3>2. f \in Docs(n) /\ Len(f.text) = N - (after - p)
      BY <1>2, <1>6, DeleteIs
    <3>3. p \in 0..(N - (after - p))
      BY <1>2, <1>6
    <3> HIDE DEF f, trimmed
    <3> QED  BY <3>1, <3>2, <3>3
  <2>2. CASE ~(above # {} /\ after < LineEnd(t, p))
    <3>1. trimmed = e
      BY <2>2
    <3> QED  BY <1>2, <3>1
  <2> QED  BY <2>1, <2>2
<1> HIDE DEF trimmed, after
<1>8. left \in 0..p
  BY <1>2, LineStartIs
<1>9. selected \in Docs(n)
  <2>1. Len(trimmed.text) \in Nat
    BY <1>7, DocIs
  <2>2. left \in 0..Len(trimmed.text)
    <3> HIDE DEF left
    <3>1. \A L \in Nat : p \in 0..L => left \in 0..L
      BY <1>2, <1>8
    <3> QED  BY <1>7, <2>1, <3>1
  <2>3. Place(trimmed, i, p, left) \in Docs(n)
    <3> HIDE DEF left
    <3> QED  BY <1>7, <2>2, PlaceIs
  <2> QED  BY <1>7, <2>3
<1> HIDE DEF selected
<1>10. <<NL>> \o indent \in Text
  BY <1>5, BlanksAre, ConcatProperties DEF Text
<1> QED  BY <1>3, <1>9, <1>10, InsertTextIs

LEMMA SingleLineTabKeeps ==
  ASSUME NEW n \in Nat, NEW d \in Docs(n), NEW i \in 1..n
  PROVE  applySingleLineTab(d, i) \in Docs(n)
<1>1. PICK e \in Docs(n) : e = RemoveSelected(d, i)
  BY TogetherRemoved
<1>2. PICK t \in Text, N \in Nat, p \in Nat : t = e.text /\ N = Len(t) /\ p = e.cursors[i].pos /\ p <= N
  BY DocIs
<1> DEFINE col == Column(t, LineStart(t, p), p)
           s == IF TabsIndent THEN <<Tab>> ELSE Spaces(Indent - (col % Indent))
<1>3. LineStart(t, p) \in 0..p
  BY <1>2, LineStartIs
<1>4. col \in Nat
  BY <1>2, <1>3, ColumnIs
<1>5. applySingleLineTab(d, i) = InsertText(e, i, s)
  BY <1>1, <1>2 DEF applySingleLineTab
<1> HIDE DEF col
<1>6. (col % Indent) \in Nat /\ (col % Indent) < Indent /\ Indent \in Nat
  BY <1>4, EditAssumption, Remainder
<1>7. Indent - (col % Indent) \in Nat
  <2>1. \A a, b \in Nat : b < a => a - b \in Nat
    OBVIOUS
  <2> QED  BY <1>6, <2>1
<1>8. s \in Text
  BY <1>7, BlanksAre
<1> HIDE DEF s
<1> QED  BY <1>5, <1>8, InsertTextIs

-----------------------------------------------------------------------------
(* Tab and Backtab over several lines: a document and the selection to restore. *)
Lined(n) == {x \in [doc : Docs(n), start : Nat, end : Nat] :
    x.start \in 0..Len(x.doc.text) /\ x.end \in 0..Len(x.doc.text)}

LEMMA LinedIs ==
  ASSUME NEW n \in Nat, NEW x \in Lined(n)
  PROVE  /\ x.doc \in Docs(n) /\ x.doc.text \in Text /\ Len(x.doc.text) \in Nat
         /\ x.start \in 0..Len(x.doc.text) /\ x.end \in 0..Len(x.doc.text)
<1>1. x.doc \in Docs(n) /\ x.start \in 0..Len(x.doc.text) /\ x.end \in 0..Len(x.doc.text)
  BY DEF Lined
<1> QED  BY <1>1, DocIs

LEMMA MakeLined ==
  ASSUME NEW n \in Nat, NEW d \in Docs(n), NEW a \in 0..Len(d.text), NEW b \in 0..Len(d.text)
  PROVE  [doc |-> d, start |-> a, end |-> b] \in Lined(n)
<1>1. Len(d.text) \in Nat
  BY DocIs
<1>2. a \in Nat /\ b \in Nat
  BY <1>1
<1> DEFINE x == [doc |-> d, start |-> a, end |-> b]
<1>3. x.doc = d /\ x.start = a /\ x.end = b /\ x \in [doc : Docs(n), start : Nat, end : Nat]
  BY <1>2
<1> HIDE DEF x
<1> QED  BY <1>3 DEF Lined, x

(* The characters of t that come after a place are found shifted in u.      *)
Behind(u, t, place, shift) == \A j \in (place + 1)..Len(t) : u[j + shift] = t[j]

LEMMA ReindentedIs ==
  ASSUME NEW n \in Nat, NEW x \in Lined(n), NEW from \in 0..Len(x.doc.text), NEW ink \in 0..Len(x.doc.text),
         from <= ink, NEW lead \in Text
  PROVE  LET y == Reindented(x, from, ink, lead) IN
         /\ y \in Lined(n)
         /\ Len(y.doc.text) = Len(x.doc.text) + (Len(lead) - (ink - from))
         /\ Behind(y.doc.text, x.doc.text, ink, Len(lead) - (ink - from))
<1>1. PICK d \in Docs(n), t \in Text, N \in Nat : d = x.doc /\ t = d.text /\ N = Len(t)
  BY LinedIs
<1>2. PICK l \in Nat : l = Len(lead)
  BY DEF Text
<1>3. from \in 0..N /\ ink \in 0..N /\ x.start \in 0..N /\ x.end \in 0..N
  BY <1>1, LinedIs
<1>4. PICK f \in Docs(n) : f = Delete(d, from, ink) /\ Spliced(f.text, t, from, <<>>, ink)
                           /\ Len(f.text) = N - (ink - from)
  BY <1>1, <1>3, DeleteIs
<1>5. PICK v \in Text, M \in Nat : v = f.text /\ M = Len(v)
  BY DocIs
<1>6. M = N - (ink - from)
  BY <1>4, <1>5
<1>7. from \in 0..M
  BY <1>3, <1>6
<1>8. PICK g \in Docs(n) : g = Insert(f, from, lead) /\ Spliced(g.text, v, from, lead, from)
                           /\ Len(g.text) = M + l
  BY <1>2, <1>5, <1>7, InsertIs
<1>9. PICK u \in Text, K \in Nat : u = g.text /\ K = Len(u)
  BY DocIs
<1>10. K = N + (l - (ink - from))
  BY <1>3, <1>6, <1>8, <1>9
<1> DEFINE moved(p) == IF p <= from THEN p ELSE Len(lead) + (IF p >= ink THEN p - (ink - from) ELSE from)
           y == Reindented(x, from, ink, lead)
<1>11. y = [doc |-> g, start |-> moved(x.start), end |-> moved(x.end)]
  BY <1>1, <1>4, <1>8 DEF Reindented
<1>12. ASSUME NEW p \in 0..N PROVE moved(p) \in 0..K
  BY <1>2, <1>3, <1>10
<1>13. moved(x.start) \in 0..K /\ moved(x.end) \in 0..K
  BY <1>3, <1>12
<1> HIDE DEF moved, y
<1>14. y \in Lined(n)
  BY <1>9, <1>11, <1>13, MakeLined
<1>15. y.doc = g
  BY <1>11
<1>16. Behind(u, t, ink, l - (ink - from))
  <2> SUFFICES ASSUME NEW j \in (ink + 1)..N PROVE u[j + (l - (ink - from))] = t[j]
    BY <1>1 DEF Behind
  <2> DEFINE k == j + (l - (ink - from))
             q == j - ink + from
  <2>1. k \in 1..K /\ ~(k <= from) /\ ~(k <= from + l) /\ k - from - l + from = q
    BY <1>2, <1>3, <1>10
  <2>2. q \in 1..M /\ ~(q <= from) /\ ~(q <= from + 0) /\ q - from - 0 + ink = j
    BY <1>3, <1>6
  <2> HIDE DEF k, q
  <2>3. \A r \in 1..K : u[r] = IF r <= from THEN v[r] ELSE IF r <= from + l THEN lead[r - from]
                               ELSE v[r - from - l + from]
    BY <1>2, <1>8, <1>9 DEF Spliced
  <2>4. u[k] = v[q]
    BY <2>1, <2>3
  <2>5. \A r \in 1..M : v[r] = IF r <= from THEN t[r] ELSE IF r <= from + Len(<<>>) THEN <<>>[r - from]
                               ELSE t[r - from - Len(<<>>) + ink]
    BY <1>4, <1>5 DEF Spliced
  <2>6. Len(<<>>) = 0
    OBVIOUS
  <2>7. v[q] = t[j]
    BY <2>2, <2>5, <2>6
  <2> QED  BY <2>4, <2>7 DEF k
<1> QED  BY <1>1, <1>2, <1>9, <1>10, <1>14, <1>15, <1>16 DEF y

LEMMA IndentedFromIs ==
  ASSUME NEW t, NEW start \in Nat, NEW ink \in Nat, start < ink
  PROVE  IndentedFrom(t, start, ink) \in start..ink
<1> DEFINE width == Column(t, start, ink)
           back == ((width - 1) % Indent) + 1
           S == {f \in start..ink : width - Column(t, start, f) >= back}
<1>1. width \in Nat /\ width >= 1
  <2>1. width \in Nat /\ width >= ink - start
    BY ColumnIs
  <2> HIDE DEF width
  <2> QED  BY <2>1
<1>2. Column(t, start, start) = 0
  BY ColumnIs
<1>3. back <= width
  <2> HIDE DEF width
  <2>1. width - 1 \in Nat
    BY <1>1
  <2>2. ((width - 1) % Indent) \in Nat /\ ((width - 1) % Indent) <= width - 1
    BY <2>1, EditAssumption, Remainder
  <2> QED  BY <1>1, <2>2
<1>4. back \in Nat
  <2> HIDE DEF width
  <2>1. width - 1 \in Nat
    BY <1>1
  <2>2. ((width - 1) % Indent) \in Nat
    BY <2>1, EditAssumption, Remainder
  <2> QED  BY <2>2
<1> HIDE DEF width, back
<1>5. start \in S
  <2>1. width - 0 >= back
    BY <1>1, <1>3, <1>4
  <2> QED  BY <1>2, <2>1
<1>6. S \subseteq 0..ink
  OBVIOUS
<1>7. IndentedFrom(t, start, ink) = Max(S)
  BY DEF IndentedFrom, width, back
<1>8. Max(S) \in S
  <2> HIDE DEF S
  <2> QED  BY <1>5, <1>6, MaxIs
<1> QED  BY <1>7, <1>8

LEMMA ReindentLineIs ==
  ASSUME NEW n \in Nat, NEW x \in Lined(n), NEW start \in 0..Len(x.doc.text), NEW forward
  PROVE  LET ink == RunEnd(x.doc.text, start, Blank) IN
         \/ ReindentLine(x, start, forward) = x
         \/ \E from \in start..ink, lead \in Text : ReindentLine(x, start, forward) = Reindented(x, from, ink, lead)
<1>1. PICK t \in Text, N \in Nat : t = x.doc.text /\ N = Len(t)
  BY LinedIs
<1> DEFINE ink == RunEnd(t, start, Blank)
<1>2. start \in 0..N /\ ink \in start..N
  BY <1>1, NoEnd, RunEndIs
<1>3. ReindentLine(x, start, forward) = IF forward THEN IndentBlanks(x, start, ink) ELSE OutdentBlanks(x, start, ink)
  BY <1>1 DEF ReindentLine
<1> HIDE DEF ink
<1>4. start \in Nat /\ ink \in Nat /\ start <= ink
  BY <1>2
<1>5. CASE forward
  <2> DEFINE stops == Column(t, start, ink) \div Indent + 1
             lead == IF TabsIndent THEN [k \in 1..stops |-> Tab] ELSE Spaces(stops * Indent)
  <2>1. IndentBlanks(x, start, ink) = Reindented(x, start, ink, lead)
    BY <1>1 DEF IndentBlanks
  <2>2. stops \in Nat
    <3>1. PICK c \in Nat : c = Column(t, start, ink)
      BY <1>4, ColumnIs
    <3>2. c \div Indent \in Nat
      BY EditAssumption
    <3> QED  BY <3>1, <3>2
  <2>3. stops * Indent \in Nat
    <3> HIDE DEF stops
    <3> QED  BY <2>2, EditAssumption
  <2>4. lead \in Text
    <3> HIDE DEF stops
    <3> QED  BY <2>2, <2>3, BlanksAre
  <2>5. start \in start..ink
    BY <1>4
  <2> HIDE DEF lead
  <2> QED  BY <1>1, <1>3, <1>5, <2>1, <2>4, <2>5 DEF ink
<1>6. CASE ~forward /\ start = ink
  BY <1>3, <1>6 DEF OutdentBlanks
<1>7. CASE ~forward /\ start # ink
  <2> DEFINE from == IndentedFrom(t, start, ink)
  <2>1. from \in start..ink
    BY <1>4, <1>7, IndentedFromIs
  <2>2. ReindentLine(x, start, forward) = Reindented(x, from, ink, <<>>)
    BY <1>1, <1>3, <1>7 DEF OutdentBlanks
  <2> HIDE DEF from
  <2> QED  BY <1>1, <2>1, <2>2, BlanksAre DEF ink
<1> QED  BY <1>5, <1>6, <1>7

(* Before the line at k is looked at, all from there on is as it was, only moved. *)
Ahead(n, t, k, x) ==
    /\ x \in Lined(n)
    /\ \A q \in LineStarts(t) : q >= k =>
          /\ q + (Len(x.doc.text) - Len(t)) \in Nat
          /\ Behind(x.doc.text, t, q, Len(x.doc.text) - Len(t))

LEMMA ShiftIn ==
  ASSUME NEW N \in Nat, NEW M \in Nat, NEW q \in Nat, NEW ink \in Nat, NEW from \in Nat, NEW l \in Nat,
         ink <= q + (M - N) - 1
  PROVE  q + (M + (l - (ink - from)) - N) \in Nat
OBVIOUS

LEMMA LineReindented ==
  ASSUME NEW n \in Nat, NEW t \in Text, NEW k \in LineStarts(t), NEW x, Ahead(n, t, k, x), NEW forward
  PROVE  LET start == k + Len(x.doc.text) - Len(t) IN
         /\ start \in 0..Len(x.doc.text)
         /\ Ahead(n, t, k + 1, ReindentLine(x, start, forward))
<1>1. x \in Lined(n)
  BY DEF Ahead
<1>2. PICK N \in Nat, u \in Text, M \in Nat : N = Len(t) /\ u = x.doc.text /\ M = Len(u)
  BY <1>1, LinedIs DEF Text
<1>3. LineStarts(t) \subseteq 0..N /\ k \in 0..N /\ \A q \in LineStarts(t) : q > 0 => t[q] = NL
  BY <1>2 DEF LineStarts
<1>4. \A q \in LineStarts(t) : q >= k => q + (M - N) \in Nat /\ Behind(u, t, q, M - N)
  BY <1>2 DEF Ahead
<1> DEFINE start == k + Len(x.doc.text) - Len(t)
<1>5. start = k + (M - N)
  BY <1>2, <1>3
<1> HIDE DEF start
<1>6. start \in 0..M
  BY <1>2, <1>3, <1>4, <1>5
<1> DEFINE ink == RunEnd(u, start, Blank)
<1>7. ink \in start..M /\ ink \in 0..M /\ \A e \in start..M : CharAt(u, e) \notin Blank => ink <= e
  BY <1>2, <1>6, NoEnd, RunEndIs
<1> HIDE DEF ink
<1>8. ASSUME NEW q \in LineStarts(t), q >= k + 1 PROVE ink <= q + (M - N) - 1
  <2>1. q \in 0..N /\ q > k /\ t[q] = NL
    BY <1>3, <1>8
  <2> DEFINE e == q + (M - N) - 1
  <2>2. e \in start..M /\ e \in Nat /\ e < M /\ e + 1 = q + (M - N)
    BY <1>2, <1>3, <1>5, <1>6, <2>1
  <2>3. u[e + 1] = NL
    <3>1. Behind(u, t, k, M - N)
      BY <1>3, <1>4
    <3>2. q \in (k + 1)..Len(t)
      BY <1>2, <1>3, <2>1
    <3> QED  BY <2>1, <2>2, <3>1, <3>2 DEF Behind
  <2> HIDE DEF e
  <2>4. CharAt(u, e) = NL
    BY <1>2, <2>2, <2>3, CharIs
  <2>5. ink <= e
    BY <1>7, <2>2, <2>4, NoEnd
  <2> QED  BY <2>5 DEF e
<1> DEFINE y == ReindentLine(x, start, forward)
<1>9. CASE y = x
  <2>1. Ahead(n, t, k + 1, x)
    BY <1>1, <1>2, <1>3, <1>4 DEF Ahead
  <2> HIDE DEF y
  <2> QED  BY <1>2, <1>6, <1>9, <2>1 DEF y, start
<1>10. CASE \E from \in start..ink, lead \in Text : y = Reindented(x, from, ink, lead)
  <2>1. PICK from \in start..ink, lead \in Text : y = Reindented(x, from, ink, lead)
    BY <1>10
  <2> HIDE DEF y
  <2>2. from \in 0..M /\ from <= ink
    BY <1>6, <1>7
  <2>3. PICK l \in Nat : l = Len(lead)
    BY DEF Text
  <2> DEFINE shift == l - (ink - from)
  <2>4. y \in Lined(n) /\ Len(y.doc.text) = M + shift /\ Behind(y.doc.text, u, ink, shift)
    <3> DEFINE r == Reindented(x, from, ink, lead)
    <3>1. from \in 0..Len(x.doc.text) /\ ink \in 0..Len(x.doc.text)
      BY <1>2, <1>7, <2>2
    <3>2. /\ r \in Lined(n) /\ Len(r.doc.text) = Len(x.doc.text) + (Len(lead) - (ink - from))
          /\ Behind(r.doc.text, x.doc.text, ink, Len(lead) - (ink - from))
      BY <1>1, <2>2, <3>1, ReindentedIs
    <3> HIDE DEF r
    <3>3. y = r
      BY <2>1 DEF r
    <3> QED  BY <1>2, <2>3, <3>2, <3>3
  <2>5. PICK w : w = y.doc.text
    OBVIOUS
  <2>6. shift \in Int
    BY <1>7, <2>2, <2>3
  <2>7. ASSUME NEW q \in LineStarts(t), q >= k + 1
        PROVE  q + (M + shift - N) \in Nat /\ Behind(w, t, q, M + shift - N)
    <3>1. q \in 0..N /\ q > k /\ ink <= q + (M - N) - 1
      BY <1>3, <1>8, <2>7
    <3>2. q + (M + shift - N) \in Nat
      <4>1. N \in Nat /\ M \in Nat /\ q \in Nat /\ ink \in Nat /\ from \in Nat /\ l \in Nat
        BY <1>2, <1>7, <2>2, <2>3, <3>1
      <4>2. ink <= q + (M - N) - 1
        BY <3>1
      <4> QED  BY <4>1, <4>2, ShiftIn
    <3>3. ASSUME NEW j \in (q + 1)..N PROVE w[j + (M + shift - N)] = t[j]
      <4>1. Behind(u, t, q, M - N)
        BY <1>3, <1>4, <3>1
      <4>2. u[j + (M - N)] = t[j]
        BY <1>2, <4>1 DEF Behind
      <4>3. j + (M - N) \in (ink + 1)..M
        BY <1>2, <1>7, <3>1
      <4>4. w[j + (M - N) + shift] = u[j + (M - N)]
        BY <1>2, <2>4, <2>5, <4>3 DEF Behind
      <4>5. j + (M - N) + shift = j + (M + shift - N)
        BY <2>6, <3>1
      <4> QED  BY <4>2, <4>4, <4>5
    <3> QED  BY <1>2, <3>2, <3>3 DEF Behind
  <2> HIDE DEF shift
  <2>8. Ahead(n, t, k + 1, y)
    <3>1. Len(y.doc.text) - Len(t) = M + shift - N
      <4>1. Len(y.doc.text) = M + shift /\ N = Len(t)
        BY <1>2, <2>4
      <4>2. \A a, b, c \in Int : (a + b) - c = a + b - c
        OBVIOUS
      <4>3. M \in Int /\ shift \in Int /\ N \in Int
        BY <1>2, <2>6
      <4> QED  BY <4>1, <4>2, <4>3
    <3> QED  BY <2>4, <2>5, <2>7, <3>1 DEF Ahead
  <2> QED  BY <1>2, <1>6, <2>8 DEF y, start
<1>11. y = x \/ \E from \in start..ink, lead \in Text : y = Reindented(x, from, ink, lead)
  BY <1>1, <1>2, <1>6, ReindentLineIs DEF ink
<1> QED  BY <1>9, <1>10, <1>11

LEMMA MultiLineIndentKeeps ==
  ASSUME NEW n \in Nat, NEW d \in Docs(n), NEW i \in 1..n, NEW forward
  PROVE  applyMultiLineIndent(d, i, forward) \in Docs(n)
<1>1. PICK t \in Text, N \in Nat : t = d.text /\ N = Len(t)
  BY DocIs
<1> DEFINE c == d.cursors[i]
           base == [doc |-> d, start |-> SelStart(c), end |-> SelEnd(c)]
           start(k, x) == k - 1 + Len(x.doc.text) - Len(t)
           next(k, x) == IF k - 1 \in LinesTouched(t, c) THEN ReindentLine(x, start(k, x), forward) ELSE x
           safe(k, x) == IF next(k, x) \in Lined(n) THEN next(k, x) ELSE x
           step == [k \in 1..(N + 1) |-> [x \in Lined(n) |-> safe(k, x)]]
           Is(h) == h = [k \in 0..Len(t) + 1 |->
                            IF k = 0 THEN base
                            ELSE LET x == h[k - 1] IN
                                 IF k - 1 \in LinesTouched(t, c)
                                 THEN ReindentLine(x, k - 1 + Len(x.doc.text) - Len(t), forward) ELSE x]
<1>2. base \in Lined(n)
  <2>1. c \in Spot /\ c.anchor \in 0..N /\ c.pos \in 0..N
    BY <1>1, DocIs
  <2>2. SelStart(c) \in 0..N /\ SelEnd(c) \in 0..N
    <3> HIDE DEF c
    <3> QED  BY <2>1, Ends
  <2> HIDE DEF c
  <2> QED  BY <1>1, <2>2, MakeLined
<1>3. step \in [1..(N + 1) -> [Lined(n) -> Lined(n)]]
  <2> HIDE DEF next
  <2> QED  OBVIOUS
<1>4. PICK g : Recurs(g, Lined(n), base, N + 1, step)
  <2> HIDE DEF step, base
  <2> QED  BY <1>2, <1>3, RecursionExists
<1>5. /\ g \in [0..(N + 1) -> Lined(n)] /\ g[0] = base
      /\ \A k \in 1..(N + 1) : g[k] = safe(k, g[k - 1])
  <2> HIDE DEF base, safe
  <2>1. g \in [0..(N + 1) -> Lined(n)]
        /\ g = [k \in 0..(N + 1) |-> IF k = 0 THEN base ELSE step[k][g[k - 1]]]
    BY <1>4 DEF Recurs
  <2>2. g[0] = base
    BY <2>1
  <2>3. ASSUME NEW k \in 1..(N + 1) PROVE g[k] = safe(k, g[k - 1])
    <3>1. k \in 0..(N + 1) /\ k # 0 /\ k - 1 \in 0..(N + 1)
      OBVIOUS
    <3>2. g[k] = step[k][g[k - 1]]
      <4> HIDE DEF step
      <4> QED  BY <2>1, <3>1
    <3>3. g[k - 1] \in Lined(n)
      BY <2>1, <3>1
    <3> QED  BY <3>2, <3>3
  <2> QED  BY <2>1, <2>2, <2>3
<1> DEFINE G == {k \in 0..(N + 1) : Ahead(n, t, k, g[k])}
<1>6. LineStarts(t) \subseteq 0..N
  BY <1>1 DEF LineStarts
<1>7. 0 \in G
  <2>1. base.doc = d
    OBVIOUS
  <2> HIDE DEF base
  <2>2. Len(base.doc.text) = N
    BY <1>1, <2>1
  <2>3. ASSUME NEW q \in LineStarts(t) PROVE q + (N - N) \in Nat /\ Behind(base.doc.text, t, q, N - N)
    BY <1>1, <1>6, <2>1 DEF Behind
  <2>4. Len(base.doc.text) - Len(t) = N - N
    <3> HIDE DEF base
    <3> QED  BY <1>1, <2>2
  <2>5. 0 \in 0..(N + 1)
    BY <1>1
  <2>6. Ahead(n, t, 0, base)
    BY <1>2, <2>3, <2>4 DEF Ahead
  <2> QED  BY <1>5, <2>5, <2>6
<1>8. ASSUME NEW k \in Nat, k < N + 1, k \in G
      PROVE  next(k + 1, g[k]) \in Lined(n) /\ Ahead(n, t, k + 1, next(k + 1, g[k]))
  <2>1. k \in 0..(N + 1) /\ k + 1 \in 1..(N + 1) /\ (k + 1) - 1 = k /\ Ahead(n, t, k, g[k])
    BY <1>8
  <2> DEFINE x == g[k]
  <2>2. CASE k \in LinesTouched(t, c)
    <3>1. k \in LineStarts(t)
      BY <2>2 DEF LinesTouched
    <3> DEFINE y == ReindentLine(x, k + Len(x.doc.text) - Len(t), forward)
    <3>2. Ahead(n, t, k + 1, y)
      <4> HIDE DEF x
      <4> QED  BY <2>1, <3>1, LineReindented DEF x
    <3>3. next(k + 1, x) = y
      BY <2>1, <2>2
    <3>4. y \in Lined(n)
      BY <3>2 DEF Ahead
    <3> HIDE DEF y, next, x
    <3> QED  BY <3>2, <3>3, <3>4 DEF x
  <2>3. CASE ~(k \in LinesTouched(t, c))
    <3>1. next(k + 1, x) = x
      BY <2>1, <2>3
    <3>2. \A q \in LineStarts(t) : q >= k + 1 => q >= k
      BY <1>6
    <3> HIDE DEF next, x
    <3>3. x \in Lined(n) /\ Ahead(n, t, k + 1, x)
      BY <2>1, <3>2 DEF Ahead, x
    <3> QED  BY <3>1, <3>3 DEF x
  <2> QED  BY <2>2, <2>3
<1>9. \A k \in Nat : k < N + 1 /\ k \in G => k + 1 \in G
  <2> SUFFICES ASSUME NEW k \in Nat, k < N + 1, k \in G PROVE k + 1 \in G
    OBVIOUS
  <2>1. next(k + 1, g[k]) \in Lined(n) /\ Ahead(n, t, k + 1, next(k + 1, g[k]))
    BY <1>8
  <2>2. k + 1 \in 1..(N + 1) /\ k + 1 \in 0..(N + 1) /\ (k + 1) - 1 = k
    OBVIOUS
  <2> HIDE DEF next
  <2>3. g[k + 1] = next(k + 1, g[k])
    BY <1>5, <2>1, <2>2
  <2> QED  BY <2>1, <2>2, <2>3
<1> HIDE DEF G
<1>10. 0..(N + 1) \subseteq G
  BY <1>7, <1>9, BoundedInduction
<1>11. \A k \in 1..(N + 1) : g[k] = next(k, g[k - 1])
  <2> SUFFICES ASSUME NEW k \in 1..(N + 1) PROVE g[k] = next(k, g[k - 1])
    OBVIOUS
  <2>1. k - 1 \in Nat /\ k - 1 < N + 1 /\ (k - 1) + 1 = k /\ k - 1 \in 0..(N + 1)
    OBVIOUS
  <2>2. next((k - 1) + 1, g[k - 1]) \in Lined(n)
    <3> HIDE DEF next
    <3> QED  BY <1>8, <1>10, <2>1
  <2> HIDE DEF next
  <2> QED  BY <1>5, <2>1, <2>2
<1>12. Is(g)
  <2>1. \A k \in 0..(N + 1) : k # 0 => k \in 1..(N + 1)
    OBVIOUS
  <2>2. \A k \in 0..(N + 1) : g[k] = IF k = 0 THEN base ELSE next(k, g[k - 1])
    <3> HIDE DEF base, next
    <3> QED  BY <1>5, <1>11, <2>1
  <2>3. g = [k \in 0..(N + 1) |-> g[k]]
    BY <1>5
  <2> HIDE DEF base, c
  <2> QED  BY <1>1, <2>2, <2>3
<1>13. Is(CHOOSE h : Is(h))
  BY <1>12
<1> DEFINE r == CHOOSE h : Is(h)
<1>14. r[0] = base /\ \A k \in 1..(N + 1) : r[k] = next(k, r[k - 1])
  <2> HIDE DEF r
  <2>1. Is(r)
    BY <1>13 DEF r
  <2>2. 0..(N + 1) = 0..Len(t) + 1
    BY <1>1
  <2>3. r = [k \in 0..(N + 1) |-> IF k = 0 THEN base ELSE next(k, r[k - 1])]
    <3> HIDE DEF base, c
    <3> QED  BY <2>1, <2>2, Zenon
  <2> HIDE DEF base, next
  <2>4. 0 \in 0..(N + 1) /\ \A k \in 1..(N + 1) : k \in 0..(N + 1) /\ k # 0
    BY <1>1
  <2> QED  BY <2>3, <2>4
<1> DEFINE E == {k \in 0..(N + 1) : r[k] = g[k]}
<1>15. 0..(N + 1) \subseteq E
  <2> HIDE DEF r
  <2>1. 0 \in E
    BY <1>5, <1>14
  <2>2. ASSUME NEW k \in Nat, k < N + 1, k \in E PROVE k + 1 \in E
    <3>1. k + 1 \in 1..(N + 1) /\ (k + 1) - 1 = k
      BY <2>2
    <3> HIDE DEF next
    <3> QED  BY <1>11, <1>14, <2>2, <3>1
  <2> HIDE DEF E
  <2> QED  BY <2>1, <2>2, BoundedInduction
<1> DEFINE e == r[Len(t) + 1]
<1>16. e \in Lined(n)
  <2> HIDE DEF r
  <2>1. N + 1 \in 0..(N + 1)
    OBVIOUS
  <2> QED  BY <1>1, <1>5, <1>15, <2>1
<1>17. applyMultiLineIndent(d, i, forward) =
          IF SelStart(c) = c.pos THEN Place(e.doc, i, e.end, e.start) ELSE Place(e.doc, i, e.start, e.end)
  BY <1>1 DEF applyMultiLineIndent
<1> HIDE DEF e, r
<1>18. e.doc \in Docs(n) /\ e.start \in 0..Len(e.doc.text) /\ e.end \in 0..Len(e.doc.text)
  BY <1>16, LinedIs
<1>19. Place(e.doc, i, e.end, e.start) \in Docs(n) /\ Place(e.doc, i, e.start, e.end) \in Docs(n)
  BY <1>18, PlaceIs
<1> QED  BY <1>17, <1>19

LEMMA TabKeeps ==
  ASSUME NEW n \in Nat, NEW d \in Docs(n), NEW i \in 1..n, NEW forward
  PROVE  applyTab(d, i, forward) \in Docs(n)
<1> DEFINE c == d.cursors[i]
           e == Place(d, i, SelStart(c), SelEnd(c))
<1>1. c \in Spot /\ Len(d.text) \in Nat /\ c.anchor \in 0..Len(d.text) /\ c.pos \in 0..Len(d.text)
  BY DocIs
<1>2. SelStart(c) \in 0..Len(d.text) /\ SelEnd(c) \in 0..Len(d.text)
  <2> HIDE DEF c
  <2> QED  BY <1>1, Ends
<1>3. e \in Docs(n)
  <2> HIDE DEF c
  <2> QED  BY <1>2, PlaceIs
<1>4. \/ applyTab(d, i, forward) = applyMultiLineIndent(d, i, FALSE)
      \/ applyTab(d, i, forward) = applyMultiLineIndent(e, i, TRUE)
      \/ applyTab(d, i, forward) = applySingleLineTab(d, i)
  BY DEF applyTab
<1> HIDE DEF e
<1> QED  BY <1>3, <1>4, MultiLineIndentKeeps, SingleLineTabKeeps

LEMMA FoldCaseKeeps ==
  ASSUME NEW n \in Nat, NEW d \in Docs(n), NEW i \in 1..n, NEW upper
  PROVE  foldCase(d, i, upper) \in Docs(n)
<1>1. PICK t \in Text, N \in Nat, c \in Spot :
          t = d.text /\ N = Len(t) /\ c = d.cursors[i] /\ c.anchor \in 0..N /\ c.pos \in 0..N
  BY DocIs
<1>2. PICK a \in 0..N, b \in 0..N : a = SelStart(c) /\ b = SelEnd(c) /\ a <= b
  BY <1>1, Ends
<1> DEFINE old == Selected(t, c)
           new == [k \in DOMAIN old |-> IF upper THEN UpperOf(old[k]) ELSE LowerOf(old[k])]
           e == InsertText(d, i, new)
<1>3. old \in Text /\ Len(old) = b - a
  BY <1>1, <1>2, PieceIs DEF Selected
<1> HIDE DEF old
<1>4. \A ch \in Char : UpperOf(ch) \in Char /\ LowerOf(ch) \in Char
  BY DEF UpperOf, LowerOf, Char, Word
<1>5. new \in Text /\ Len(new) = b - a
  <2>1. DOMAIN old = 1..(b - a) /\ b - a \in Nat
    BY <1>2, <1>3 DEF Text
  <2>2. \A k \in DOMAIN old : old[k] \in Char
    BY <1>3 DEF Text
  <2>3. new \in [1..(b - a) -> Char]
    BY <1>4, <2>1, <2>2
  <2> HIDE DEF new
  <2>4. new \in Seq(Char)
    BY <2>1, <2>3, SeqDef
  <2>5. Len(new) = b - a
    BY <2>1, <2>3, <2>4
  <2> QED  BY <2>4, <2>5 DEF Text
<1>6. foldCase(d, i, upper) = IF ~HasSelection(c) THEN d ELSE Place(e, i, a, b)
  BY <1>1, <1>2 DEF foldCase, old
<1> HIDE DEF new
<1>7. e \in Docs(n) /\ Len(e.text) = N - (b - a) + (b - a)
  BY <1>1, <1>2, <1>5, InsertTextIs
<1>8. N - (b - a) + (b - a) = N
  BY <1>2
<1> HIDE DEF e
<1>9. Place(e, i, a, b) \in Docs(n)
  BY <1>2, <1>7, <1>8, PlaceIs
<1> QED  BY <1>6, <1>9

-----------------------------------------------------------------------------
(* A replacement in a document.                                             *)
LEMMA ReplacedIs ==
  ASSUME NEW n \in Nat, NEW d \in Docs(n), NEW from \in 0..Len(d.text), NEW to \in 0..Len(d.text), from <= to,
         NEW s \in Text
  PROVE  LET e == Insert(Delete(d, from, to), from, s) IN
         e \in Docs(n) /\ Len(e.text) = Len(d.text) - (to - from) + Len(s)
<1>1. PICK N \in Nat : N = Len(d.text)
  BY DocIs
<1>2. PICK f \in Docs(n) : f = Delete(d, from, to) /\ Len(f.text) = N - (to - from)
  BY <1>1, DeleteIs
<1>3. from \in 0..(N - (to - from))
  BY <1>1
<1>4. Insert(f, from, s) \in Docs(n) /\ Len(Insert(f, from, s).text) = Len(f.text) + Len(s)
  <2>1. from \in 0..Len(f.text)
    BY <1>2, <1>3
  <2> QED  BY <2>1, InsertIs
<1> QED  BY <1>1, <1>2, <1>4

LEMMA LettersAre == <<"b">> \in Text
<1>1. "b" \in Char
  BY DEF Char, Word
<1> DEFINE b == "b"
<1>2. b \in Char
  BY <1>1
<1> HIDE DEF b
<1>3. <<b>> \in Text
  BY <1>2 DEF Text
<1> QED  BY <1>3 DEF b

LEMMA CompleteKeeps ==
  ASSUME NEW n \in Nat, NEW d \in Docs(n), NEW i \in 1..n
  PROVE  Complete(d, i) \in Docs(n)
<1>1. PICK t \in Text, N \in Nat, p \in Nat : t = d.text /\ N = Len(t) /\ p = d.cursors[i].pos /\ p \in 0..N
  BY DocIs
<1> DEFINE end == RunEnd(t, p, Word)
<1>2. end \in p..N
  BY <1>1, NoEnd, RunEndIs
<1>3. Complete(d, i) = Insert(Delete(d, p, end), p, <<"b">>)
  BY <1>1 DEF Complete
<1> HIDE DEF end
<1>4. end \in 0..N /\ p <= end
  BY <1>1, <1>2
<1> DEFINE s == <<"b">>
<1>5. s \in Text
  BY LettersAre
<1> HIDE DEF s
<1>6. Insert(Delete(d, p, end), p, s) \in Docs(n)
  BY <1>1, <1>4, <1>5, ReplacedIs
<1> QED  BY <1>3, <1>6 DEF s

LEMMA ReplaceAllKeeps ==
  ASSUME NEW n \in Nat, NEW d \in Docs(n), NEW i \in 1..n
  PROVE  ReplaceAllText(d, i) \in Docs(n)
<1>1. PICK t \in Text, N \in Nat : t = d.text /\ N = Len(t)
  BY DocIs
<1> DEFINE new == ReplaceAll(t, "a", "b")
<1>2. new \in Text
  <2>1. \A k \in 1..Len(t) : t[k] \in Char
    BY DEF Text
  <2>2. "b" \in Char
    BY DEF Char, Word
  <2>3. new = [k \in 1..Len(t) |-> IF t[k] = "a" THEN "b" ELSE t[k]]
    BY DEF ReplaceAll
  <2>4. ASSUME NEW k \in 1..Len(t) PROVE (IF t[k] = "a" THEN "b" ELSE t[k]) \in Char
    BY <2>1, <2>2
  <2>5. new \in [1..N -> Char]
    BY <1>1, <2>3, <2>4
  <2> HIDE DEF new
  <2> QED  BY <2>5, SeqDef DEF Text
<1>3. ReplaceAllText(d, i) = IF new = t THEN d ELSE Insert(Delete(d, 0, N), 0, new)
  BY <1>1 DEF ReplaceAllText
<1> HIDE DEF new
<1>4. 0 \in 0..N /\ N \in 0..N /\ 0 <= N
  BY <1>1
<1>5. Insert(Delete(d, 0, N), 0, new) \in Docs(n)
  BY <1>1, <1>2, <1>4, ReplacedIs
<1> QED  BY <1>3, <1>5

LEMMA ReplaceSelectionKeeps ==
  ASSUME NEW n \in Nat, NEW d \in Docs(n), NEW i \in 1..n
  PROVE  ReplaceSelection(d, i) \in Docs(n)
<1> DEFINE s == <<"b">>
<1>1. s \in Text
  BY LettersAre
<1>2. ReplaceSelection(d, i) = IF HasSelection(d.cursors[i]) THEN InsertText(d, i, s) ELSE d
  BY DEF ReplaceSelection
<1> HIDE DEF s
<1>3. InsertText(d, i, s) \in Docs(n)
  BY <1>1, TogetherInserted
<1> QED  BY <1>2, <1>3

(* A step of the document's undo as an edit.                                *)
LEMMA StepIs ==
  ASSUME NEW n \in Nat, NEW d \in Docs(n), NEW new \in Text
  PROVE  LET s == Step(d, new) IN
         /\ s.doc \in Docs(n) /\ Len(s.doc.text) = Len(new)
         /\ s.places \subseteq 0..Len(new) /\ s.places # {}
<1>1. PICK old \in Text, N \in Nat, M \in Nat : old = d.text /\ N = Len(old) /\ M = Len(new)
  BY DocIs DEF Text
<1> DEFINE shorter == Min({N, M})
           F == {shorter} \cup {k \in 0..shorter - 1 : old[k + 1] # new[k + 1]}
           first == Min(F)
           R == {shorter - first} \cup {k \in 0..shorter - 1 : old[N - k] # new[M - k]}
           rest == Min(R)
           piece == SubSeq(new, first + 1, M - rest)
           s == Step(d, new)
<1>2. shorter \in Nat /\ shorter <= N /\ shorter <= M
  <2> DEFINE S == {N, M}
  <2>1. Min(S) \in S /\ \A x \in S : Min(S) <= x
    <3>1. S \subseteq Nat /\ S # {}
      OBVIOUS
    <3> HIDE DEF S
    <3> QED  BY <3>1, MinIs
  <2> QED  BY <2>1
<1>3. s = [doc |-> Insert(Delete(d, first, N - rest), first, piece), places |-> {first, M - rest}]
  BY <1>1 DEF Step
<1> HIDE DEF shorter
<1>4. first \in 0..shorter
  <2>1. F \subseteq Nat /\ F # {} /\ shorter \in F
    BY <1>2
  <2> HIDE DEF F
  <2>2. Min(F) \in Nat /\ Min(F) <= shorter
    BY <2>1, MinIs
  <2> QED  BY <1>2, <2>2
<1> HIDE DEF first
<1>5. rest \in 0..(shorter - first)
  <2>1. shorter - first \in Nat
    BY <1>2, <1>4
  <2>2. R \subseteq Nat /\ R # {} /\ shorter - first \in R
    BY <1>2, <2>1
  <2> HIDE DEF R
  <2>3. Min(R) \in Nat /\ Min(R) <= shorter - first
    BY <2>2, MinIs
  <2> QED  BY <2>1, <2>3
<1> HIDE DEF rest
<1>6. first \in 0..N /\ N - rest \in 0..N /\ first <= N - rest /\ first \in 0..M /\ M - rest \in 0..M /\ first <= M - rest
  BY <1>2, <1>4, <1>5
<1>7. piece \in Text /\ Len(piece) = M - rest - first
  BY <1>1, <1>6, PieceIs
<1> HIDE DEF piece
<1> DEFINE e == Insert(Delete(d, first, N - rest), first, piece)
<1>8. e \in Docs(n) /\ Len(e.text) = M
  <2>1. /\ e \in Docs(n)
        /\ Len(e.text) = N - ((N - rest) - first) + Len(piece)
    BY <1>1, <1>6, <1>7, ReplacedIs
  <2>3. first \in Nat /\ rest \in Nat /\ first <= N /\ rest <= N - first /\ first + rest <= M
    BY <1>2, <1>4, <1>5
  <2> HIDE DEF e
  <2>4. N - ((N - rest) - first) + (M - rest - first) = M
    <3>1. PICK p \in Nat, q \in Nat : p = first /\ q = rest
      BY <2>3
    <3>2. N - ((N - q) - p) + (M - q - p) = M
      OBVIOUS
    <3> QED  BY <3>1, <3>2
  <2>5. Len(piece) = M - rest - first
    BY <1>7
  <2> QED  BY <2>1, <2>4, <2>5
<1>10. s.doc = e /\ s.places = {first, M - rest}
  BY <1>3
<1> HIDE DEF e, s
<1> QED  BY <1>1, <1>6, <1>8, <1>10 DEF s

-----------------------------------------------------------------------------
(* Where the keys take a cursor.                                            *)
LEMMA NextBoundaryIs ==
  ASSUME NEW t \in Text, NEW p \in 0..Len(t)
  PROVE  nextBoundary(t, p) \in 0..Len(t)
<1>1. PICK end \in Nat : end = Len(t)
  BY DEF Text
<1> DEFINE line == IF CharAt(t, p) = NL THEN p + 1 ELSE p
           ink == RunEnd(t, line, Blank)
           run == RunEnd(t, ink, ClassOf(CharAt(t, ink)))
<1>2. \/ nextBoundary(t, p) = end
      \/ line < end /\ nextBoundary(t, p) = ink
      \/ line < end /\ nextBoundary(t, p) = run
      \/ line < end /\ run < end /\ nextBoundary(t, p) = RunEnd(t, run, Word)
  <2>1. \/ nextBoundary(t, p) = end
        \/ ~(line >= end) /\ nextBoundary(t, p) = ink
        \/ ~(line >= end) /\ nextBoundary(t, p) = run
        \/ ~(line >= end) /\ run < end /\ nextBoundary(t, p) = RunEnd(t, run, Word)
    BY <1>1, Zenon DEF nextBoundary
  <2>2. line \in Nat
    BY <1>1
  <2>3. ~(line >= end) <=> line < end
    <3> HIDE DEF line
    <3> QED  BY <1>1, <2>2
  <2> QED  BY <2>1, <2>3
<1>3. line < end => line \in 0..end
  BY <1>1
<1> HIDE DEF line
<1>4. line < end => ink \in 0..end
  BY <1>1, <1>3, NoEnd, RunEndIs
<1> HIDE DEF ink
<1>5. line < end => run \in 0..end
  BY <1>1, <1>4, NoEnd, RunEndIs
<1> HIDE DEF run
<1>6. line < end => RunEnd(t, run, Word) \in 0..end
  BY <1>1, <1>5, NoEnd, RunEndIs
<1> QED  BY <1>1, <1>2, <1>4, <1>5, <1>6

LEMMA PreviousBoundaryIs ==
  ASSUME NEW t \in Text, NEW p \in 0..Len(t)
  PROVE  previousBoundary(t, p) \in 0..Len(t)
<1>1. Len(t) \in Nat
  BY DEF Text
<1> DEFINE line == IF p > 0 /\ t[p] = NL THEN p - 1 ELSE p
           ink == RunStart(t, line, Blank)
           run == RunStart(t, ink, ClassOf(t[ink]))
<1>2. \/ previousBoundary(t, p) = 0
      \/ previousBoundary(t, p) = ink
      \/ previousBoundary(t, p) = run
      \/ previousBoundary(t, p) = RunStart(t, run, Word)
  BY Zenon DEF previousBoundary
<1>3. line \in 0..Len(t)
  BY <1>1
<1> HIDE DEF line
<1>4. ink \in 0..Len(t)
  BY <1>3, RunStartIs
<1> HIDE DEF ink
<1>5. run \in 0..Len(t)
  BY <1>4, RunStartIs
<1> HIDE DEF run
<1>6. RunStart(t, run, Word) \in 0..Len(t)
  BY <1>5, RunStartIs
<1> QED  BY <1>1, <1>2, <1>4, <1>5, <1>6

LEMMA CaretAtColumnIs ==
  ASSUME NEW t \in Text, NEW target \in 0..Len(t), NEW col
  PROVE  caretAtColumn(t, target, col) \in Spot /\ CursorIn(caretAtColumn(t, target, col), t)
         /\ caretAtColumn(t, target, col) = Caret(caretAtColumn(t, target, col).pos)
<1> DEFINE end == LineEnd(t, target)
           S == {p \in target..end : p = end \/ Column(t, target, p) >= col}
<1>1. Len(t) \in Nat
  BY DEF Text
<1>2. end \in target..Len(t)
  BY LineEndIs
<1> HIDE DEF end
<1>3. end \in S /\ S \subseteq 0..Len(t) /\ S \subseteq Nat
  BY <1>1, <1>2
<1>4. Min(S) \in S
  <2> HIDE DEF S
  <2> QED  BY <1>3, MinIs
<1>5. caretAtColumn(t, target, col) = Caret(Min(S))
  BY DEF caretAtColumn, end
<1> DEFINE m == Min(S)
<1>6. m \in 0..Len(t) /\ m \in Nat
  BY <1>3, <1>4
<1> HIDE DEF m
<1>7. Caret(m) \in Spot /\ CursorIn(Caret(m), t) /\ Caret(m).pos = m
  BY <1>6 DEF Caret, Cursor, Spot, CursorIn
<1> QED  BY <1>5, <1>7 DEF m

LEMMA PositionAfterIs ==
  ASSUME NEW c \in Spot, text \in Text, CursorIn(c, text), NEW direction \in Directions, NEW keep
  PROVE  PositionAfter(c, direction, keep) \in 0..Len(text)
<1>1. PICK N \in Nat : N = Len(text)
  BY DEF Text
<1>2. c.anchor \in 0..N /\ c.pos \in 0..N
  BY <1>1 DEF CursorIn
<1> DEFINE start == LineStart(text, c.pos)
           col == Column(text, start, c.pos)
           next == LineEnd(text, c.pos) + 1
<1>3. start \in LineStarts(text) /\ start \in 0..c.pos
  BY <1>2, LineStartIs
<1>4. next - 1 \in 0..N /\ next \in Nat
  <2>1. LineEnd(text, c.pos) \in 0..N
    BY <1>1, <1>2, LineEndIs
  <2> QED  BY <1>1, <2>1
<1>5. CASE direction = "Left"
  <2>1. SelStart(c) \in 0..N
    BY <1>2, Ends
  <2>2. Max({0, c.pos - 1}) \in 0..N
    <3> DEFINE S == {0, c.pos - 1}
               T == {0} \union (IF c.pos = 0 THEN {} ELSE {c.pos - 1})
    <3>1. c.pos = 0 \/ S \subseteq 0..N
      BY <1>1, <1>2
    <3>2. CASE c.pos = 0
      <4>1. 0 \in S /\ \A y \in S : 0 >= y
        BY <3>2
      <4>2. S = {0, -1}
        BY <3>2
      <4>3. Max(S) = 0
        <5>1. Max(S) \in S /\ \A y \in S : Max(S) >= y
          <6> HIDE DEF S
          <6> QED  BY <4>1 DEF Max
        <5> QED  BY <4>2, <5>1
      <4> QED  BY <1>1, <4>3
    <3>3. CASE S \subseteq 0..N
      <4>1. S # {}
        OBVIOUS
      <4> HIDE DEF S
      <4> QED  BY <1>1, <3>3, <4>1, MaxIs DEF S
    <3> QED  BY <3>1, <3>2, <3>3
  <2> QED  BY <1>1, <1>5, <2>1, <2>2, Zenon DEF PositionAfter
<1>6. CASE direction = "Right"
  <2>1. SelEnd(c) \in 0..N
    BY <1>2, Ends
  <2>2. Min({Len(text), c.pos + 1}) \in 0..N
    <3> DEFINE S == {Len(text), c.pos + 1}
    <3>1. S \subseteq Nat /\ N \in S
      BY <1>1, <1>2
    <3> HIDE DEF S
    <3>2. Min(S) \in Nat /\ Min(S) <= N
      BY <3>1, MinIs
    <3> QED  BY <1>1, <3>2 DEF S
  <2>3. PositionAfter(c, direction, keep) = IF ~keep /\ HasSelection(c) THEN SelEnd(c) ELSE Min({Len(text), c.pos + 1})
    BY <1>6, Zenon DEF PositionAfter
  <2> QED  BY <1>1, <2>1, <2>2, <2>3
<1>7. CASE direction = "End"
  <2>1. PositionAfter(c, direction, keep) = LineEnd(text, c.pos)
    BY <1>7, Zenon DEF PositionAfter
  <2>2. LineEnd(text, c.pos) \in 0..Len(text)
    BY <1>1, <1>2, LineEndIs
  <2> QED  BY <2>1, <2>2
<1>8. CASE direction = "Up"
  <2>1. PositionAfter(c, direction, keep) = IF start = 0 THEN c.pos ELSE caretAtColumn(text, LineStart(text, start - 1), col).pos
    BY <1>8, Zenon DEF PositionAfter
  <2>2. start # 0 => LineStart(text, start - 1) \in 0..Len(text)
    <3> HIDE DEF start
    <3>1. start # 0 => start - 1 \in Nat /\ start - 1 <= N
      BY <1>1, <1>2, <1>3
    <3>2. start # 0 => LineStart(text, start - 1) \in 0..(start - 1)
      BY <3>1, LineStartIs
    <3> QED  BY <1>1, <3>1, <3>2
  <2> HIDE DEF start, col
  <2> QED  BY <1>1, <1>2, <2>1, <2>2, CaretAtColumnIs DEF CursorIn
<1>9. CASE direction = "Down"
  <2>1. PositionAfter(c, direction, keep) = IF next > Len(text) THEN c.pos ELSE caretAtColumn(text, next, col).pos
    BY <1>9, Zenon DEF PositionAfter
  <2>2. ~(next > Len(text)) => next \in 0..Len(text)
    <3> HIDE DEF next
    <3> QED  BY <1>1, <1>4
  <2> HIDE DEF next, col
  <2> QED  BY <1>1, <1>2, <2>1, <2>2, CaretAtColumnIs DEF CursorIn
<1> QED  BY <1>5, <1>6, <1>7, <1>8, <1>9 DEF Directions

LEMMA HomeIs ==
  ASSUME NEW c \in Spot, text \in Text, CursorIn(c, text), NEW keep
  PROVE  applyHome(Document(text, <<c>>), 1, keep).cursors[1].pos \in 0..Len(text)
<1>1. PICK N \in Nat : N = Len(text)
  BY DEF Text
<1>2. c.anchor \in 0..N /\ c.pos \in 0..N
  BY <1>1 DEF CursorIn
<1> DEFINE d == Document(text, <<c>>)
           p == d.cursors[1].pos
           start == LineStart(d.text, p)
           ink == RunEnd(d.text, start, Blank)
           shown == IF ink = LineEnd(d.text, p) THEN start ELSE ink
           to == IF p <= shown /\ p > start THEN start ELSE shown
           a == IF keep THEN d.cursors[1].anchor ELSE to
<1>3. d.text = text /\ d.cursors = <<c>> /\ p = c.pos
  BY DEF Document
<1> HIDE DEF d
<1>4. start \in 0..N
  <2>1. start \in 0..p
    BY <1>2, <1>3, LineStartIs
  <2> QED  BY <1>1, <1>2, <1>3, <2>1
<1> HIDE DEF start
<1>5. ink \in 0..N
  BY <1>1, <1>3, <1>4, NoEnd, RunEndIs
<1> HIDE DEF ink
<1>6. to \in 0..N
  BY <1>4, <1>5
<1>7. applyHome(d, 1, keep) = Place(d, 1, a, to)
  BY DEF applyHome, start, ink
<1> HIDE DEF to
<1>8. Place(d, 1, a, to).cursors = [d.cursors EXCEPT ![1] = Cursor(a, to)]
  <2>1. d = [text |-> text, cursors |-> <<c>>, touched |-> FALSE]
    BY DEF d, Document
  <2> HIDE DEF a
  <2> QED  BY <2>1 DEF Place
<1>9. Place(d, 1, a, to).cursors[1] = Cursor(a, to)
  BY <1>3, <1>8
<1> QED  BY <1>1, <1>6, <1>7, <1>9 DEF Cursor, d

LEMMA CutRangeIs ==
  ASSUME NEW t \in Text, NEW c \in Spot, CursorIn(c, t)
  PROVE  lineRangeForCut(t, c) \in Spot /\ CursorIn(lineRangeForCut(t, c), t)
<1>1. PICK N \in Nat : N = Len(t)
  BY DEF Text
<1>2. PICK a \in 0..N, b \in 0..N : a = SelStart(c) /\ b = SelEnd(c) /\ a <= b
  BY <1>1, Ends DEF CursorIn
<1> DEFINE first == LineStart(t, a)
           end == IF HasSelection(c) /\ b = LineStart(t, b) /\ b > first THEN b - 1 ELSE LineEnd(t, b)
           r == IF end < N THEN Cursor(first, end + 1) ELSE Cursor(IF first > 0 THEN first - 1 ELSE 0, N)
<1>3. lineRangeForCut(t, c) = r
  BY <1>1, <1>2 DEF lineRangeForCut
<1>4. first \in 0..N
  <2>1. first \in 0..a
    BY <1>1, <1>2, LineStartIs
  <2> QED  BY <1>1, <1>2, <2>1
<1>5. LineEnd(t, b) \in 0..N
  BY <1>1, <1>2, LineEndIs
<1> HIDE DEF first
<1>6. end \in 0..N
  BY <1>1, <1>2, <1>4, <1>5
<1> HIDE DEF end
<1>7. r \in Spot /\ r.anchor \in 0..N /\ r.pos \in 0..N
  BY <1>1, <1>4, <1>6 DEF Cursor, Spot
<1> HIDE DEF r
<1> QED  BY <1>1, <1>3, <1>7 DEF CursorIn

-----------------------------------------------------------------------------
(* The order of the cursors: o names the first k of them, by their keys.    *)
Ordered(o, k, key) ==
    /\ \A i \in 1..k : \E q \in 1..k : o[q] = i
    /\ \A p, q \in 1..k : p < q => key[o[p]] <= key[o[q]]
Orders(n, k) == {o \in Seq(1..n) : Len(o) = k}

LEMMA OrderMore ==
  ASSUME NEW n \in Nat, NEW k \in 1..n, NEW key \in [1..n -> Nat], NEW o \in Orders(n, k - 1)
  PROVE  LET after == {q \in 1..k - 1 : key[o[q]] > key[k]}
             behind == {q \in 1..k - 1 : key[o[q]] < key[k]}
         IN /\ InsertAt(o, Min({k} \cup behind), k) \in Orders(n, k)
            /\ InsertAt(o, Min({k} \cup after), k) \in Orders(n, k)
            /\ Ordered(o, k - 1, key) => Ordered(InsertAt(o, Min({k} \cup after), k), k, key)
<1>1. o \in Seq(1..n) /\ Len(o) = k - 1 /\ \A q \in 1..(k - 1) : o[q] \in 1..n
  BY DEF Orders
<1>2. \A i \in 1..n : key[i] \in Nat
  OBVIOUS
<1>3. ASSUME NEW S, S \subseteq 1..(k - 1)
      PROVE  LET p == Min({k} \cup S) u == InsertAt(o, p, k) IN
             /\ p \in 1..k /\ p \in {k} \cup S /\ \A q \in S : p <= q
             /\ u \in Orders(n, k) /\ HasMore(u, o, p, k)
  <2> DEFINE T == {k} \cup S
             p == Min(T)
             u == InsertAt(o, p, k)
  <2>1. T \subseteq Nat /\ T # {} /\ T \subseteq 1..k
    BY <1>3
  <2>2. Min(T) \in T /\ \A x \in T : Min(T) <= x
    <3> HIDE DEF T
    <3> QED  BY <2>1, MinIs
  <2>3. p \in 1..(Len(o) + 1)
    <3>1. p \in 1..k
      BY <2>1, <2>2
    <3> HIDE DEF p
    <3> QED  BY <1>1, <3>1
  <2>4. u \in Seq(1..n) /\ HasMore(u, o, p, k)
    <3> HIDE DEF p
    <3> QED  BY <1>1, <2>3, Inserted
  <2>5. Len(u) = k
    <3> HIDE DEF u, p
    <3> QED  BY <1>1, <2>4 DEF HasMore
  <2> QED  BY <2>1, <2>2, <2>4, <2>5 DEF Orders
<1> DEFINE after == {q \in 1..k - 1 : key[o[q]] > key[k]}
           behind == {q \in 1..k - 1 : key[o[q]] < key[k]}
           p == Min({k} \cup after)
           u == InsertAt(o, p, k)
<1>4. InsertAt(o, Min({k} \cup behind), k) \in Orders(n, k)
  BY <1>3
<1>5. /\ p \in 1..k /\ p \in {k} \cup after /\ \A q \in after : p <= q
      /\ u \in Orders(n, k) /\ HasMore(u, o, p, k)
  BY <1>3
<1>6. ASSUME Ordered(o, k - 1, key) PROVE Ordered(u, k, key)
  <2> HIDE DEF p
  <2>1. \A i \in 1..k : u[i] = IF i < p THEN o[i] ELSE IF i = p THEN k ELSE o[i - 1]
    <3> HIDE DEF u
    <3> QED  BY <1>1, <1>5 DEF HasMore
  <2> HIDE DEF u
  <2>6. \A i \in 1..(k - 1) : \E q \in 1..(k - 1) : o[q] = i
    BY <1>6 DEF Ordered
  <2>7. \A a, b \in 1..(k - 1) : a < b => key[o[a]] <= key[o[b]]
    BY <1>6 DEF Ordered
  <2>8. \A a, b \in 1..(k - 1) : a = b => key[o[a]] <= key[o[b]]
    <3> HIDE DEF after, behind, u, p
    <3>1. ASSUME NEW a \in 1..(k - 1) PROVE key[o[a]] \in Nat
      <4>1. o[a] \in 1..n
        BY <1>1
      <4> QED  BY <1>2, <4>1
    <3>2. ASSUME NEW a \in 1..(k - 1) PROVE key[o[a]] <= key[o[a]]
      BY <3>1
    <3> QED  BY <3>2
  <2>2. ASSUME NEW i \in 1..k PROVE \E q \in 1..k : u[q] = i
    <3>1. CASE i = k
      BY <1>5, <2>1, <3>1
    <3>2. CASE i # k
      <4>1. PICK q \in 1..(k - 1) : o[q] = i
        <5>1. i \in 1..(k - 1)
          BY <3>2
        <5> QED  BY <2>6, <5>1
      <4>2. CASE q < p
        BY <2>1, <4>1, <4>2
      <4>3. CASE q >= p
        <5>1. q + 1 \in 1..k /\ ~(q + 1 < p) /\ q + 1 # p /\ (q + 1) - 1 = q
          BY <1>5, <4>3
        <5>2. u[q + 1] = o[q]
          BY <2>1, <5>1
        <5> QED  BY <4>1, <5>1, <5>2
      <4> QED  BY <1>5, <4>2, <4>3
    <3> QED  BY <3>1, <3>2
  <2>3. \A q \in 1..(k - 1) : q < p => key[o[q]] <= key[k]
    <3> SUFFICES ASSUME NEW q \in 1..(k - 1), q < p PROVE key[o[q]] <= key[k]
      OBVIOUS
    <3>1. ~(key[o[q]] > key[k])
      BY <1>5
    <3>2. key[o[q]] \in Nat /\ key[k] \in Nat
      BY <1>1, <1>2
    <3> QED  BY <3>1, <3>2
  <2>4. \A q \in 1..(k - 1) : q >= p => key[k] <= key[o[q]]
    <3> SUFFICES ASSUME NEW q \in 1..(k - 1), q >= p PROVE key[k] <= key[o[q]]
      OBVIOUS
    <3>1. p \in after
      BY <1>5
    <3>2. p \in 1..(k - 1) /\ key[o[p]] > key[k]
      BY <3>1
    <3>3. key[o[q]] \in Nat /\ key[k] \in Nat /\ key[o[p]] \in Nat
      BY <1>1, <1>2, <3>2
    <3>4. p = q \/ p < q
      BY <3>2
    <3>5. key[o[p]] <= key[o[q]]
      BY <2>7, <2>8, <3>2, <3>4
    <3> QED  BY <3>2, <3>3, <3>5
  <2>5. ASSUME NEW i \in 1..k, NEW j \in 1..k, i < j PROVE key[u[i]] <= key[u[j]]
    <3>1. CASE j < p
      <4>1. u[i] = o[i] /\ u[j] = o[j] /\ i \in 1..(k - 1) /\ j \in 1..(k - 1)
        BY <1>5, <2>1, <2>5, <3>1
      <4> QED  BY <1>6, <2>5, <4>1 DEF Ordered
    <3>2. CASE j = p
      <4>1. u[i] = o[i] /\ u[j] = k /\ i \in 1..(k - 1) /\ i < p
        BY <1>5, <2>1, <2>5, <3>2
      <4> QED  BY <2>3, <4>1
    <3>3. CASE j > p /\ i < p
      <4>1. u[i] = o[i] /\ u[j] = o[j - 1] /\ i \in 1..(k - 1) /\ j - 1 \in 1..(k - 1)
        BY <1>5, <2>1, <2>5, <3>3
      <4>2. i = j - 1 \/ i < j - 1
        BY <2>5
      <4>3. key[o[i]] \in Nat
        BY <1>1, <1>2, <4>1
      <4> QED  BY <2>7, <2>8, <4>1, <4>2
    <3>4. CASE j > p /\ i = p
      <4>1. u[i] = k /\ u[j] = o[j - 1] /\ j - 1 \in 1..(k - 1) /\ j - 1 >= p
        BY <1>5, <2>1, <2>5, <3>4
      <4> QED  BY <2>4, <4>1
    <3>5. CASE j > p /\ i > p
      <4>1. u[i] = o[i - 1] /\ u[j] = o[j - 1] /\ i - 1 \in 1..(k - 1) /\ j - 1 \in 1..(k - 1) /\ i - 1 < j - 1
        BY <1>5, <2>1, <2>5, <3>5
      <4> QED  BY <1>6, <4>1 DEF Ordered
    <3> QED  BY <1>5, <3>1, <3>2, <3>3, <3>4, <3>5
  <2> QED  BY <2>2, <2>5 DEF Ordered
<1> QED  BY <1>4, <1>5, <1>6

LEMMA AscendingIs ==
  ASSUME NEW cs \in Seq(Spot)
  PROVE  LET o == Ascending(cs)
             key == [i \in 1..Len(cs) |-> SelStart(cs[i])]
         IN o \in Orders(Len(cs), Len(cs)) /\ Ordered(o, Len(cs), key)
<1>1. PICK n \in Nat : n = Len(cs)
  OBVIOUS
<1> DEFINE key == [i \in 1..n |-> SelStart(cs[i])]
           after(k, o) == {q \in 1..k - 1 : SelStart(cs[o[q]]) > SelStart(cs[k])}
           next == [k \in 1..n |-> [o \in Seq(1..n) |-> InsertAt(o, Min({k} \cup after(k, o)), k)]]
           good == [k \in 0..n |-> {o \in Orders(n, k) : Ordered(o, k, key)}]
           Is(h) == h = [k \in 0..Len(cs) |->
                    IF k = 0 THEN <<>>
                    ELSE LET o == h[k - 1]
                             later == {q \in 1..k - 1 : SelStart(cs[o[q]]) > SelStart(cs[k])}
                         IN InsertAt(o, Min({k} \cup later), k)]
<1>2. key \in [1..n -> Nat]
  <2>1. \A i \in 1..n : cs[i] \in Spot
    BY <1>1
  <2>2. \A c \in Spot : SelStart(c) \in Nat
    BY Ends
  <2> QED  BY <2>1, <2>2
<1>3. <<>> \in good[0]
  BY <1>1 DEF Orders, Ordered
<1>4. ASSUME NEW k \in 1..n, NEW o \in good[k - 1] PROVE o \in Seq(1..n) /\ next[k][o] \in good[k]
  <2>1. o \in Orders(n, k - 1) /\ Ordered(o, k - 1, key)
    <3>1. k - 1 \in 0..n
      OBVIOUS
    <3> HIDE DEF key
    <3> QED  BY <3>1
  <2>2. o \in Seq(1..n) /\ \A q \in 1..(k - 1) : o[q] \in 1..n
    BY <2>1 DEF Orders
  <2>3. after(k, o) = {q \in 1..k - 1 : key[o[q]] > key[k]}
    BY <2>2
  <2> HIDE DEF key
  <2>4. InsertAt(o, Min({k} \cup after(k, o)), k) \in Orders(n, k)
        /\ Ordered(InsertAt(o, Min({k} \cup after(k, o)), k), k, key)
    BY <1>2, <2>1, <2>3, OrderMore
  <2>5. next[k][o] = InsertAt(o, Min({k} \cup after(k, o)), k)
    <3> HIDE DEF after
    <3> QED  BY <2>2
  <2>6. k \in 0..n
    OBVIOUS
  <2> HIDE DEF next, after
  <2> QED  BY <2>2, <2>4, <2>5, <2>6
<1> HIDE DEF good, key
<1> DEFINE base == <<>>
<1>5. /\ \E g : Staged(g, n, base, next) /\ \A k \in 0..n : g[k] \in good[k]
      /\ \A h : Climbs(h, n, base, next, good) => \A k \in 0..n : h[k] \in good[k]
  <2> HIDE DEF next, base
  <2>1. \A k \in 1..n : \A o \in good[k - 1] : next[k][o] \in good[k]
    BY <1>4
  <2>2. base \in good[0]
    BY <1>3 DEF base
  <2> QED  BY <2>1, <2>2, StagedRecursion
<1>6. \A k \in 1..n : \A o \in good[k - 1] : next[k][o] = InsertAt(o, Min({k} \cup after(k, o)), k)
  <2> SUFFICES ASSUME NEW k \in 1..n, NEW o \in good[k - 1]
               PROVE  next[k][o] = InsertAt(o, Min({k} \cup after(k, o)), k)
    OBVIOUS
  <2>1. o \in Seq(1..n)
    BY <1>4
  <2> HIDE DEF after
  <2> QED  BY <2>1
<1> HIDE DEF next
<1>7. PICK g : Is(g)
  <2>1. PICK g : /\ g = [k \in 0..n |-> IF k = 0 THEN <<>> ELSE next[k][g[k - 1]]]
                 /\ \A k \in 0..n : g[k] \in good[k]
    BY <1>5 DEF Staged
  <2>2. \A k \in 0..n : k # 0 => k \in 1..n /\ k - 1 \in 0..n
    OBVIOUS
  <2>3. \A k \in 0..n : k # 0 => next[k][g[k - 1]] = InsertAt(g[k - 1], Min({k} \cup after(k, g[k - 1])), k)
    <3> HIDE DEF after
    <3> QED  BY <1>6, <2>1, <2>2
  <2>4. g = [k \in 0..n |-> IF k = 0 THEN <<>> ELSE InsertAt(g[k - 1], Min({k} \cup after(k, g[k - 1])), k)]
    <3> HIDE DEF after
    <3> QED  BY <2>1, <2>3
  <2>5. Is(g)
    BY <1>1, <2>4
  <2> QED  BY <2>5
<1>8. Is(CHOOSE h : Is(h))
  BY <1>7
<1> DEFINE r == CHOOSE h : Is(h)
<1>9. Ascending(cs) = r[n]
  BY <1>1 DEF Ascending
<1>10. r[0] = <<>> /\ \A k \in 1..n : r[k] = InsertAt(r[k - 1], Min({k} \cup after(k, r[k - 1])), k)
  <2> HIDE DEF r
  <2>1. Is(r)
    BY <1>8 DEF r
  <2>2. 0 \in 0..n /\ \A k \in 1..n : k \in 0..n /\ k # 0
    OBVIOUS
  <2> QED  BY <1>1, <2>1, <2>2
<1> HIDE DEF r, after
<1>11. \A k \in 0..n : r[k] \in good[k]
  <2>1. Climbs(r, n, base, next, good)
    BY <1>6, <1>10 DEF Climbs
  <2> QED  BY <1>5, <2>1
<1>12. r[n] \in good[n] /\ n \in 0..n
  BY <1>11
<1> QED  BY <1>1, <1>9, <1>12 DEF good, key

LEMMA DescendingIs ==
  ASSUME NEW cs \in Seq(Spot)
  PROVE  Descending(cs) \in Orders(Len(cs), Len(cs))
<1>1. PICK n \in Nat : n = Len(cs)
  OBVIOUS
<1> DEFINE key == [i \in 1..n |-> SelStart(cs[i])]
           behind(k, o) == {q \in 1..k - 1 : SelStart(cs[o[q]]) < SelStart(cs[k])}
           next == [k \in 1..n |-> [o \in Seq(1..n) |-> InsertAt(o, Min({k} \cup behind(k, o)), k)]]
           good == [k \in 0..n |-> Orders(n, k)]
           Is(h) == h = [k \in 0..Len(cs) |->
                    IF k = 0 THEN <<>>
                    ELSE LET o == h[k - 1]
                             later == {q \in 1..k - 1 : SelStart(cs[o[q]]) < SelStart(cs[k])}
                         IN InsertAt(o, Min({k} \cup later), k)]
<1>2. key \in [1..n -> Nat]
  <2>1. \A i \in 1..n : cs[i] \in Spot
    BY <1>1
  <2>2. \A c \in Spot : SelStart(c) \in Nat
    BY Ends
  <2> QED  BY <2>1, <2>2
<1>3. <<>> \in good[0]
  BY <1>1 DEF Orders
<1>4. ASSUME NEW k \in 1..n, NEW o \in good[k - 1] PROVE o \in Seq(1..n) /\ next[k][o] \in good[k]
  <2>1. o \in Orders(n, k - 1)
    <3>1. k - 1 \in 0..n
      OBVIOUS
    <3> HIDE DEF key
    <3> QED  BY <3>1
  <2>2. o \in Seq(1..n) /\ \A q \in 1..(k - 1) : o[q] \in 1..n
    BY <2>1 DEF Orders
  <2>3. behind(k, o) = {q \in 1..k - 1 : key[o[q]] < key[k]}
    BY <2>2
  <2> HIDE DEF key
  <2>4. InsertAt(o, Min({k} \cup behind(k, o)), k) \in Orders(n, k)
    BY <1>2, <2>1, <2>3, OrderMore
  <2>5. next[k][o] = InsertAt(o, Min({k} \cup behind(k, o)), k)
    <3> HIDE DEF behind
    <3> QED  BY <2>2
  <2>6. k \in 0..n
    OBVIOUS
  <2> HIDE DEF next, behind
  <2> QED  BY <2>2, <2>4, <2>5, <2>6
<1> HIDE DEF good, key
<1> DEFINE base == <<>>
<1>5. /\ \E g : Staged(g, n, base, next) /\ \A k \in 0..n : g[k] \in good[k]
      /\ \A h : Climbs(h, n, base, next, good) => \A k \in 0..n : h[k] \in good[k]
  <2> HIDE DEF next, base
  <2>1. \A k \in 1..n : \A o \in good[k - 1] : next[k][o] \in good[k]
    BY <1>4
  <2>2. base \in good[0]
    BY <1>3 DEF base
  <2> QED  BY <2>1, <2>2, StagedRecursion
<1>6. \A k \in 1..n : \A o \in good[k - 1] : next[k][o] = InsertAt(o, Min({k} \cup behind(k, o)), k)
  <2> SUFFICES ASSUME NEW k \in 1..n, NEW o \in good[k - 1]
               PROVE  next[k][o] = InsertAt(o, Min({k} \cup behind(k, o)), k)
    OBVIOUS
  <2>1. o \in Seq(1..n)
    BY <1>4
  <2> HIDE DEF behind
  <2> QED  BY <2>1
<1> HIDE DEF next
<1>7. PICK g : Is(g)
  <2>1. PICK g : /\ g = [k \in 0..n |-> IF k = 0 THEN <<>> ELSE next[k][g[k - 1]]]
                 /\ \A k \in 0..n : g[k] \in good[k]
    BY <1>5 DEF Staged
  <2>2. \A k \in 0..n : k # 0 => k \in 1..n /\ k - 1 \in 0..n
    OBVIOUS
  <2>3. \A k \in 0..n : k # 0 => next[k][g[k - 1]] = InsertAt(g[k - 1], Min({k} \cup behind(k, g[k - 1])), k)
    <3> HIDE DEF behind
    <3> QED  BY <1>6, <2>1, <2>2
  <2>4. g = [k \in 0..n |-> IF k = 0 THEN <<>> ELSE InsertAt(g[k - 1], Min({k} \cup behind(k, g[k - 1])), k)]
    <3> HIDE DEF behind
    <3> QED  BY <2>1, <2>3
  <2>5. Is(g)
    BY <1>1, <2>4
  <2> QED  BY <2>5
<1>8. Is(CHOOSE h : Is(h))
  BY <1>7
<1> DEFINE r == CHOOSE h : Is(h)
<1>9. Descending(cs) = r[n]
  BY <1>1 DEF Descending
<1>10. r[0] = <<>> /\ \A k \in 1..n : r[k] = InsertAt(r[k - 1], Min({k} \cup behind(k, r[k - 1])), k)
  <2> HIDE DEF r
  <2>1. Is(r)
    BY <1>8 DEF r
  <2>2. 0 \in 0..n /\ \A k \in 1..n : k \in 0..n /\ k # 0
    OBVIOUS
  <2> QED  BY <1>1, <2>1, <2>2
<1> HIDE DEF r, behind
<1>11. \A k \in 0..n : r[k] \in good[k]
  <2>1. Climbs(r, n, base, next, good)
    BY <1>6, <1>10 DEF Climbs
  <2> QED  BY <1>5, <2>1
<1>12. r[n] \in good[n] /\ n \in 0..n
  BY <1>11
<1> QED  BY <1>1, <1>9, <1>12 DEF good, key

-----------------------------------------------------------------------------
(* Lists of cursors, and those that touch made one.                         *)
LEMMA TwoIs ==
  ASSUME NEW a \in Nat, NEW b \in Nat
  PROVE  Min({a, b}) = (IF a <= b THEN a ELSE b) /\ Max({a, b}) = (IF a <= b THEN b ELSE a)
<1> DEFINE S == {a, b}
<1>1. S \subseteq Nat /\ S # {} /\ S \subseteq 0..(a + b)
  OBVIOUS
<1>2. Min(S) \in S /\ (\A x \in S : Min(S) <= x) /\ Max(S) \in S /\ \A x \in S : x <= Max(S)
  <2>1. a + b \in Nat
    OBVIOUS
  <2> HIDE DEF S
  <2> QED  BY <1>1, <2>1, MinIs, MaxIs
<1> QED  BY <1>2

SpotsWithin(m, N) == \A i \in 1..Len(m) : m[i].anchor \in 0..N /\ m[i].pos \in 0..N
Chain(m) == \A i, j \in 1..Len(m) : i < j => SelEnd(m[i]) < SelStart(m[j])

LEMMA JoiningIs ==
  ASSUME NEW N \in Nat, NEW m \in Seq(Spot), SpotsWithin(m, N), Chain(m),
         NEW c \in Spot, c.anchor \in 0..N, c.pos \in 0..N,
         m # <<>> => SelStart(Last(m)) <= SelStart(c)
  PROVE  LET u == Joining(m, c) IN
         /\ u \in Seq(Spot) /\ u # <<>> /\ SpotsWithin(u, N) /\ Chain(u) /\ SelStart(Last(u)) <= SelStart(c)
<1>1. PICK a \in 0..N, b \in 0..N : a = SelStart(c) /\ b = SelEnd(c) /\ a <= b
  BY Ends
<1>2. PICK n \in Nat : n = Len(m)
  OBVIOUS
<1>3. \A i \in 1..n : m[i] \in Spot /\ SelStart(m[i]) \in 0..N /\ SelEnd(m[i]) \in 0..N /\ SelStart(m[i]) <= SelEnd(m[i])
  <2> SUFFICES ASSUME NEW i \in 1..n
               PROVE  /\ m[i] \in Spot /\ SelStart(m[i]) \in 0..N /\ SelEnd(m[i]) \in 0..N
                      /\ SelStart(m[i]) <= SelEnd(m[i])
    OBVIOUS
  <2>1. m[i] \in Spot /\ m[i].anchor \in 0..N /\ m[i].pos \in 0..N
    BY <1>2 DEF SpotsWithin
  <2> QED  BY <2>1, Ends
<1> DEFINE u == Joining(m, c)
<1>4. CASE m # <<>> /\ Touching(c, Last(m))
  <2> DEFINE l == Last(m)
             p == SelStart(l)
             q == SelEnd(l)
             f == Front(m)
             z == Cursor(Min({p, a}), Max({q, b}))
  <2>1. n >= 1 /\ l \in Spot /\ l = m[n] /\ f \in Seq(Spot) /\ Len(f) = n - 1 /\ \A i \in 1..(n - 1) : f[i] = m[i]
    BY <1>2, <1>4, FrontIs
  <2>2. p \in 0..N /\ q \in 0..N /\ p <= q /\ p <= a
    <3>1. n \in 1..n
      BY <1>2, <2>1
    <3> QED  BY <1>1, <1>3, <1>4, <2>1, <3>1
  <2>3. u = Append(f, z)
    BY <1>1, <1>4 DEF Joining
  <2> HIDE DEF l, f
  <2> DEFINE e == IF q <= b THEN b ELSE q
  <2>4. Min({p, a}) = p /\ Max({q, b}) = e
    <3> HIDE DEF p, q
    <3>1. p \in Nat /\ a \in Nat /\ q \in Nat /\ b \in Nat
      BY <1>1, <2>2
    <3> QED  BY <2>2, <3>1, TwoIs
  <2> HIDE DEF p, q
  <2>5. e \in 0..N /\ p <= e
    BY <1>1, <2>2
  <2> HIDE DEF e
  <2>6. z = Cursor(p, e)
    BY <2>4
  <2> HIDE DEF z
  <2>7. z \in Spot /\ z.anchor = p /\ z.pos = e
    BY <2>2, <2>5, <2>6 DEF Cursor, Spot
  <2>8. SelStart(z) = p /\ SelEnd(z) = e
    BY <2>2, <2>5, <2>7, Ends
  <2>9. /\ u \in Seq(Spot) /\ Len(u) = n /\ u[n] = z /\ \A i \in 1..(n - 1) : u[i] = m[i]
    BY <1>2, <2>1, <2>3, <2>7
  <2> HIDE DEF u
  <2>10. SpotsWithin(u, N)
    <3>1. \A i \in 1..n : i = n \/ i \in 1..(n - 1)
      OBVIOUS
    <3>2. \A i \in 1..(n - 1) : m[i].anchor \in 0..N /\ m[i].pos \in 0..N
      BY <1>2 DEF SpotsWithin
    <3> QED  BY <2>2, <2>5, <2>7, <2>9, <3>1, <3>2 DEF SpotsWithin
  <2>11. Chain(u)
    <3> SUFFICES ASSUME NEW i \in 1..n, NEW j \in 1..n, i < j PROVE SelEnd(u[i]) < SelStart(u[j])
      BY <2>9 DEF Chain
    <3>1. i \in 1..(n - 1) /\ SelEnd(m[i]) < SelStart(m[j])
      BY <1>2 DEF Chain
    <3>2. SelStart(u[j]) = SelStart(m[j])
      <4>1. CASE j = n
        BY <2>1, <2>8, <2>9, <4>1 DEF p
      <4>2. CASE j # n
        <5>1. j \in 1..(n - 1)
          BY <4>2
        <5> QED  BY <2>9, <5>1
      <4> QED  BY <4>1, <4>2
    <3> QED  BY <2>9, <3>1, <3>2
  <2>12. SelStart(Last(u)) <= SelStart(c)
    BY <1>1, <2>2, <2>8, <2>9 DEF Last
  <2>13. u # <<>>
    BY <2>1, <2>9
  <2> QED  BY <2>9, <2>10, <2>11, <2>12, <2>13 DEF u
<1>5. CASE ~(m # <<>> /\ Touching(c, Last(m)))
  <2>1. u = Append(m, c)
    BY <1>5 DEF Joining
  <2>2. u \in Seq(Spot) /\ Len(u) = n + 1 /\ u[n + 1] = c /\ \A i \in 1..n : u[i] = m[i]
    BY <1>2, <2>1
  <2> HIDE DEF u
  <2>3. SpotsWithin(u, N)
    <3>1. \A i \in 1..(n + 1) : i = n + 1 \/ i \in 1..n
      OBVIOUS
    <3>2. \A i \in 1..n : m[i].anchor \in 0..N /\ m[i].pos \in 0..N
      BY <1>2 DEF SpotsWithin
    <3> QED  BY <2>2, <3>1, <3>2 DEF SpotsWithin
  <2>4. Chain(u)
    <3> SUFFICES ASSUME NEW i \in 1..(n + 1), NEW j \in 1..(n + 1), i < j PROVE SelEnd(u[i]) < SelStart(u[j])
      BY <2>2 DEF Chain
    <3>1. i \in 1..n /\ u[i] = m[i]
      BY <2>2
    <3>2. CASE j # n + 1
      <4>1. j \in 1..n /\ u[j] = m[j]
        BY <2>2, <3>2
      <4> QED  BY <1>2, <3>1, <4>1 DEF Chain
    <3>3. CASE j = n + 1
      <4>1. m # <<>> /\ n \in 1..n /\ Last(m) = m[n]
        BY <1>2, <3>1 DEF Last
      <4>2. ~(a <= SelEnd(m[n]))
        BY <1>1, <1>5, <4>1 DEF Touching
      <4>3. SelEnd(m[n]) < a
        BY <1>1, <1>3, <4>1, <4>2
      <4>4. SelEnd(m[i]) <= SelEnd(m[n])
        <5>1. CASE i = n
          BY <1>3, <4>1, <5>1
        <5>2. CASE i # n
          <6>1. SelEnd(m[i]) < SelStart(m[n])
            BY <1>2, <3>1, <4>1, <5>2 DEF Chain
          <6> QED  BY <1>3, <3>1, <4>1, <6>1
        <5> QED  BY <5>1, <5>2
      <4>5. SelEnd(m[i]) \in 0..N /\ SelEnd(m[n]) \in 0..N
        BY <1>3, <3>1, <4>1
      <4> QED  BY <1>1, <2>2, <3>1, <3>3, <4>3, <4>4, <4>5
    <3> QED  BY <3>2, <3>3
  <2>5. SelStart(Last(u)) <= SelStart(c)
    BY <1>1, <2>2 DEF Last
  <2>6. u # <<>>
    BY <2>2
  <2> QED  BY <2>2, <2>3, <2>4, <2>5, <2>6 DEF u
<1> QED  BY <1>4, <1>5

(* A set of cursors within a text of N characters.                          *)
Set(N) == {z \in [cursors : Seq(Spot), main : Nat] :
    z.cursors # <<>> /\ z.main \in 1..Len(z.cursors) /\ SpotsWithin(z.cursors, N)}

LEMMA SetIs ==
  ASSUME NEW N \in Nat, NEW z \in Set(N)
  PROVE  /\ z.cursors \in Seq(Spot) /\ z.cursors # <<>> /\ Len(z.cursors) \in Nat /\ Len(z.cursors) >= 1
         /\ z.main \in 1..Len(z.cursors) /\ SpotsWithin(z.cursors, N)
         /\ z = [cursors |-> z.cursors, main |-> z.main] /\ z.cursors[z.main] \in Spot
BY DEF Set

LEMMA MakeSet ==
  ASSUME NEW N \in Nat, NEW cs \in Seq(Spot), cs # <<>>, SpotsWithin(cs, N), NEW k \in 1..Len(cs)
  PROVE  [cursors |-> cs, main |-> k] \in Set(N)
<1> DEFINE z == [cursors |-> cs, main |-> k]
<1>1. z.cursors = cs /\ z.main = k /\ z \in [cursors : Seq(Spot), main : Nat]
  OBVIOUS
<1> HIDE DEF z
<1>2. z \in Set(N)
  BY <1>1 DEF Set
<1> QED  BY <1>2 DEF z

LEMMA ChainApart ==
  ASSUME NEW m \in Seq(Spot), Chain(m)
  PROVE  Apart(m)
<1> SUFFICES ASSUME NEW i \in DOMAIN m, NEW j \in DOMAIN m, i # j, Overlap(m[i], m[j]) PROVE FALSE
  BY DEF Apart
<1>1. i \in 1..Len(m) /\ j \in 1..Len(m) /\ m[i] \in Spot /\ m[j] \in Spot
  OBVIOUS
<1>2. PICK a \in Nat, b \in Nat : a = SelStart(m[i]) /\ b = SelEnd(m[i]) /\ a <= b
  BY <1>1, Ends
<1>3. PICK c \in Nat, d \in Nat : c = SelStart(m[j]) /\ d = SelEnd(m[j]) /\ c <= d
  BY <1>1, Ends
<1>4. b < c \/ d < a
  <2>1. i < j \/ j < i
    BY <1>1
  <2> QED  BY <1>1, <1>2, <1>3, <2>1 DEF Chain
<1>5. Max({a, c}) <= Min({b, d})
  BY <1>2, <1>3 DEF Overlap
<1>6. Max({a, c}) = (IF a <= c THEN c ELSE a) /\ Min({b, d}) = (IF b <= d THEN b ELSE d)
  BY TwoIs
<1> QED  BY <1>2, <1>3, <1>4, <1>5, <1>6

LEMMA SpotWithin ==
  ASSUME NEW N \in Nat, NEW cs \in Seq(Spot), SpotsWithin(cs, N), NEW i \in 1..Len(cs)
  PROVE  /\ cs[i] \in Spot /\ cs[i].anchor \in 0..N /\ cs[i].pos \in 0..N
         /\ SelStart(cs[i]) \in 0..N /\ SelEnd(cs[i]) \in 0..N /\ SelStart(cs[i]) <= SelEnd(cs[i])
<1>1. cs[i] \in Spot /\ cs[i].anchor \in 0..N /\ cs[i].pos \in 0..N
  BY DEF SpotsWithin
<1> QED  BY <1>1, Ends

LEMMA MergeIs ==
  ASSUME NEW N \in Nat, NEW z \in Set(N)
  PROVE  MergeOverlapping(z) \in Set(N) /\ Apart(MergeOverlapping(z).cursors)
<1>1. PICK cs \in Seq(Spot), n \in Nat : cs = z.cursors /\ n = Len(cs) /\ n >= 1 /\ cs # <<>> /\ SpotsWithin(cs, N)
                                        /\ z.main \in 1..n
  BY SetIs
<1>2. CASE n < 2
  <2>1. MergeOverlapping(z) = z
    BY <1>1, <1>2 DEF MergeOverlapping
  <2>2. DOMAIN cs = 1..1
    BY <1>1, <1>2
  <2>3. Apart(cs)
    BY <2>2 DEF Apart
  <2> QED  BY <1>1, <2>1, <2>3
<1>3. CASE ~(n < 2)
  <2> DEFINE place == cs[z.main].pos
             order == Ascending(cs)
             key == [i \in 1..n |-> SelStart(cs[i])]
             Is(h) == h = [k \in 0..Len(cs) |-> IF k = 0 THEN <<>> ELSE Joining(h[k - 1], cs[order[k]])]
             base == <<>>
             next == [k \in 1..n |-> [m \in Seq(Spot) |-> Joining(m, cs[order[k]])]]
             good == [k \in 0..n |-> {m \in Seq(Spot) :
                         /\ SpotsWithin(m, N) /\ Chain(m)
                         /\ k = 0 => m = <<>>
                         /\ k > 0 => m # <<>> /\ SelStart(Last(m)) <= key[order[k]]}]
  <2>1. order \in Seq(1..n) /\ Len(order) = n /\ Ordered(order, n, key)
    BY <1>1, AscendingIs DEF Orders
  <2> HIDE DEF order
  <2>2. ASSUME NEW k \in 1..n
        PROVE  /\ order[k] \in 1..n /\ cs[order[k]] \in Spot /\ key[order[k]] = SelStart(cs[order[k]])
               /\ cs[order[k]].anchor \in 0..N /\ cs[order[k]].pos \in 0..N /\ key[order[k]] \in 0..N
    <3>1. order[k] \in 1..n
      BY <2>1
    <3> QED  BY <1>1, <3>1, SpotWithin
  <2>3. base \in good[0]
    BY <1>1 DEF SpotsWithin, Chain
  <2>4. ASSUME NEW k \in 1..n, NEW m \in good[k - 1] PROVE m \in Seq(Spot) /\ next[k][m] \in good[k]
    <3>1. k - 1 \in 0..n /\ k \in 0..n /\ k > 0 /\ k # 0
      OBVIOUS
    <3>2. /\ m \in Seq(Spot) /\ SpotsWithin(m, N) /\ Chain(m) /\ (k - 1 = 0 => m = <<>>)
          /\ (k - 1 > 0 => m # <<>> /\ SelStart(Last(m)) <= key[order[k - 1]])
      <4> HIDE DEF key
      <4> QED  BY <3>1
    <3> DEFINE c == cs[order[k]]
    <3>3. m # <<>> => SelStart(Last(m)) <= SelStart(c)
      <4> SUFFICES ASSUME m # <<>> PROVE SelStart(Last(m)) <= SelStart(c)
        OBVIOUS
      <4>1. k - 1 \in 1..n /\ k - 1 < k /\ k - 1 > 0
        BY <3>2
      <4>2. SelStart(Last(m)) <= key[order[k - 1]]
        <5> HIDE DEF key
        <5> QED  BY <3>2, <4>1
      <4>3. key[order[k - 1]] <= key[order[k]]
        <5> HIDE DEF key
        <5> QED  BY <2>1, <4>1 DEF Ordered
      <4>4. SelStart(Last(m)) \in 0..N
        <5> HIDE DEF key, c, next, good
        <5>2. m \in Seq(Spot)
          BY <3>2
        <5>3. Last(m) = m[Len(m)] /\ Len(m) \in Nat /\ Len(m) >= 1
          BY <5>2, FrontIs
        <5>1. Last(m) = m[Len(m)] /\ Len(m) \in 1..Len(m)
          BY <5>3
        <5> QED  BY <3>2, <5>1, SpotWithin
      <4>5. key[order[k - 1]] \in 0..N /\ key[order[k]] \in 0..N /\ key[order[k]] = SelStart(c)
        BY <2>2, <4>1
      <4> HIDE DEF key, c
      <4> QED  BY <4>2, <4>3, <4>4, <4>5
    <3>4. c \in Spot /\ c.anchor \in 0..N /\ c.pos \in 0..N /\ key[order[k]] = SelStart(c)
      BY <2>2
    <3> DEFINE u == Joining(m, c)
    <3>5. next[k][m] = u
      BY <3>2
    <3> HIDE DEF c, key, next
    <3>6. u \in Seq(Spot) /\ u # <<>> /\ SpotsWithin(u, N) /\ Chain(u) /\ SelStart(Last(u)) <= SelStart(c)
      BY <3>2, <3>3, <3>4, JoiningIs
    <3> HIDE DEF u
    <3> QED  BY <3>1, <3>2, <3>4, <3>5, <3>6
  <2> HIDE DEF good, key
  <2>5. /\ \E g : Staged(g, n, base, next) /\ \A k \in 0..n : g[k] \in good[k]
        /\ \A h : Climbs(h, n, base, next, good) => \A k \in 0..n : h[k] \in good[k]
    <3>1. \A k \in 1..n : \A m \in good[k - 1] : next[k][m] \in good[k]
      BY <2>4
    <3> HIDE DEF next, base
    <3> QED  BY <2>3, <3>1, StagedRecursion
  <2>6. \A k \in 1..n : \A m \in good[k - 1] : next[k][m] = Joining(m, cs[order[k]])
    BY <2>4
  <2> HIDE DEF next
  <2>7. PICK g : Is(g)
    <3>1. PICK g : /\ g = [k \in 0..n |-> IF k = 0 THEN base ELSE next[k][g[k - 1]]]
                   /\ \A k \in 0..n : g[k] \in good[k]
      BY <2>5 DEF Staged
    <3>2. \A k \in 0..n : k # 0 => k \in 1..n /\ k - 1 \in 0..n
      OBVIOUS
    <3>3. \A k \in 0..n : k # 0 => next[k][g[k - 1]] = Joining(g[k - 1], cs[order[k]])
      BY <2>6, <3>1, <3>2
    <3>4. g = [k \in 0..n |-> IF k = 0 THEN base ELSE Joining(g[k - 1], cs[order[k]])]
      <4> HIDE DEF base
      <4> QED  BY <3>1, <3>3
    <3>5. Is(g)
      BY <1>1, <3>4
    <3> QED  BY <3>5
  <2>8. Is(CHOOSE h : Is(h))
    BY <2>7
  <2> DEFINE r == CHOOSE h : Is(h)
             merged == r[Len(cs)]
             covering == {i \in DOMAIN merged : SelStart(merged[i]) <= place /\ place <= SelEnd(merged[i])}
             main == IF covering = {} THEN 1 ELSE Min(covering)
  <2>9. MergeOverlapping(z) = [cursors |-> merged, main |-> main]
    BY <1>1, <1>3 DEF MergeOverlapping, order
  <2>10. r[0] = base /\ \A k \in 1..n : r[k] = Joining(r[k - 1], cs[order[k]])
    <3> HIDE DEF r
    <3>1. Is(r)
      BY <2>8 DEF r
    <3>2. 0 \in 0..n /\ \A k \in 1..n : k \in 0..n /\ k # 0
      OBVIOUS
    <3> QED  BY <1>1, <3>1, <3>2
  <2> HIDE DEF r
  <2>11. \A k \in 0..n : r[k] \in good[k]
    <3>1. Climbs(r, n, base, next, good)
      <4> HIDE DEF base
      <4> QED  BY <2>6, <2>10 DEF Climbs
    <3> HIDE DEF base
    <3> QED  BY <2>5, <3>1
  <2>12. merged \in Seq(Spot) /\ merged # <<>> /\ SpotsWithin(merged, N) /\ Chain(merged)
    <3>1. r[n] \in good[n] /\ n \in 0..n /\ n > 0
      BY <1>1, <2>11
    <3> QED  BY <1>1, <3>1 DEF good
  <2> HIDE DEF merged
  <2>13. main \in 1..Len(merged)
    <3>1. 1 \in 1..Len(merged) /\ DOMAIN merged = 1..Len(merged)
      BY <2>12
    <3>2. covering \subseteq 1..Len(merged) /\ covering \subseteq Nat
      BY <3>1
    <3> HIDE DEF covering
    <3> QED  BY <3>1, <3>2, MinIs
  <2> HIDE DEF main
  <2> QED  BY <2>9, <2>12, <2>13, MakeSet, ChainApart
<1> QED  BY <1>2, <1>3

LEMMA AddCursorIs ==
  ASSUME NEW N \in Nat, NEW z \in Set(N), NEW c \in Spot, c.anchor \in 0..N, c.pos \in 0..N
  PROVE  AddCursor(z, c) \in Set(N)
<1>1. PICK cs \in Seq(Spot), n \in Nat : cs = z.cursors /\ n = Len(cs) /\ n >= 1 /\ cs # <<>> /\ SpotsWithin(cs, N)
  BY SetIs
<1> DEFINE same == {i \in DOMAIN cs : cs[i].pos = c.pos}
<1>2. CASE ~HasSelection(c) /\ \E i \in same : ~HasSelection(cs[i])
  <2>1. AddCursor(z, c) = [z EXCEPT !.main = Min(same)]
    BY <1>1, <1>2 DEF AddCursor
  <2>2. AddCursor(z, c) = [cursors |-> cs, main |-> Min(same)]
    <3>1. z = [cursors |-> cs, main |-> z.main]
      BY <1>1, SetIs
    <3> HIDE DEF same
    <3> QED  BY <2>1, <3>1
  <2>3. Min(same) \in same
    <3>1. same # {} /\ same \subseteq Nat
      BY <1>1, <1>2
    <3> HIDE DEF same
    <3> QED  BY <3>1, MinIs
  <2>4. Min(same) \in 1..Len(cs)
    BY <2>3
  <2> HIDE DEF same
  <2> QED  BY <1>1, <2>2, <2>4, MakeSet
<1>3. CASE ~(~HasSelection(c) /\ \E i \in same : ~HasSelection(cs[i]))
  <2>1. AddCursor(z, c) = [cursors |-> Append(cs, c), main |-> n + 1]
    BY <1>1, <1>3 DEF AddCursor
  <2> DEFINE u == Append(cs, c)
  <2>2. u \in Seq(Spot) /\ Len(u) = n + 1 /\ u # <<>> /\ u[n + 1] = c /\ \A i \in 1..n : u[i] = cs[i]
    BY <1>1
  <2> HIDE DEF u
  <2>3. SpotsWithin(u, N)
    <3>1. \A i \in 1..(n + 1) : i = n + 1 \/ i \in 1..n
      OBVIOUS
    <3>2. \A i \in 1..n : cs[i].anchor \in 0..N /\ cs[i].pos \in 0..N
      BY <1>1 DEF SpotsWithin
    <3> QED  BY <2>2, <3>1, <3>2 DEF SpotsWithin
  <2>4. n + 1 \in 1..Len(u)
    BY <2>2
  <2>5. [cursors |-> u, main |-> n + 1] \in Set(N)
    BY <2>2, <2>3, <2>4, MakeSet
  <2> QED  BY <2>1, <2>5 DEF u
<1> QED  BY <1>2, <1>3

LEMMA OneIs ==
  ASSUME NEW N \in Nat, NEW c \in Spot, c.anchor \in 0..N, c.pos \in 0..N
  PROVE  [cursors |-> <<c>>, main |-> 1] \in Set(N) /\ Apart(<<c>>)
<1>1. <<c>> \in Seq(Spot) /\ Len(<<c>>) = 1 /\ <<c>>[1] = c /\ <<c>> # <<>> /\ DOMAIN <<c>> = 1..1
  OBVIOUS
<1>2. SpotsWithin(<<c>>, N)
  BY <1>1 DEF SpotsWithin
<1>3. Apart(<<c>>)
  BY <1>1 DEF Apart
<1>4. 1 \in 1..Len(<<c>>) /\ <<c>> \in Seq(Spot) /\ <<c>> # <<>>
  BY <1>1
<1> DEFINE s == <<c>>
<1>5. s \in Seq(Spot) /\ s # <<>> /\ SpotsWithin(s, N) /\ 1 \in 1..Len(s)
  BY <1>2, <1>4
<1> HIDE DEF s
<1>6. [cursors |-> s, main |-> 1] \in Set(N)
  BY <1>5, MakeSet
<1> QED  BY <1>3, <1>6 DEF s

(* The lines of a text.                                                     *)
LinesList == {l \in Seq(Text) : l # <<>>}

LEMMA LinesOfIs ==
  ASSUME NEW s \in Text
  PROVE  LinesOf(s) \in LinesList
<1>1. PICK n \in Nat : n = Len(s)
  BY DEF Text
<1> DEFINE line(k, l) == IF s[k] = NL THEN Append(l, <<>>) ELSE Append(Front(l), Append(Last(l), s[k]))
           next == [k \in 1..n |-> [l \in LinesList |-> line(k, l)]]
           base == << <<>> >>
           Is(h) == h = [k \in 0..Len(s) |->
                           IF k = 0 THEN << <<>> >>
                           ELSE LET l == h[k - 1] IN
                                IF s[k] = NL THEN Append(l, <<>>) ELSE Append(Front(l), Append(Last(l), s[k]))]
<1>2. base \in LinesList
  <2>1. <<>> \in Text
    BY DEF Text
  <2> DEFINE e == <<>>
  <2>2. e \in Text
    BY <2>1
  <2> HIDE DEF e
  <2>3. <<e>> \in Seq(Text) /\ <<e>> # <<>>
    BY <2>2
  <2> QED  BY <2>3 DEF LinesList, e
<1>3. ASSUME NEW k \in 1..n, NEW l \in LinesList PROVE line(k, l) \in LinesList
  <2>1. l \in Seq(Text) /\ l # <<>>
    BY DEF LinesList
  <2>2. Front(l) \in Seq(Text) /\ Last(l) \in Text
    BY <2>1, FrontIs
  <2>3. Append(Last(l), s[k]) \in Text
    <3>1. s[k] \in Char
      BY <1>1 DEF Text
    <3> QED  BY <2>2, <3>1 DEF Text
  <2>4. <<>> \in Text
    BY DEF Text
  <2>5. Append(l, <<>>) \in LinesList
    <3> DEFINE e == <<>>
    <3>1. e \in Text
      BY <2>4
    <3> HIDE DEF e
    <3>2. Append(l, e) \in Seq(Text) /\ Len(Append(l, e)) = Len(l) + 1 /\ Len(l) \in Nat
      BY <2>1, <3>1
    <3>3. Append(l, e) # <<>>
      BY <3>2
    <3> QED  BY <3>2, <3>3 DEF LinesList, e
  <2>6. Append(Front(l), Append(Last(l), s[k])) \in LinesList
    <3> DEFINE e == Append(Last(l), s[k])
               f == Front(l)
    <3> HIDE DEF e, f
    <3>1. e \in Text /\ f \in Seq(Text)
      BY <2>2, <2>3 DEF e, f
    <3>2. Append(f, e) \in Seq(Text) /\ Len(Append(f, e)) = Len(f) + 1 /\ Len(f) \in Nat
      BY <3>1
    <3>3. Append(f, e) # <<>>
      BY <3>2
    <3> QED  BY <3>2, <3>3 DEF LinesList, e, f
  <2> QED  BY <2>5, <2>6
<1>4. \A k \in 1..n : \A l \in LinesList : next[k][l] = line(k, l)
  <2> HIDE DEF line
  <2> QED  OBVIOUS
<1> HIDE DEF next
<1>5. /\ \E g : Staged(g, n, base, next) /\ g \in [0..n -> LinesList]
      /\ \A h : Proceeds(h, n, base, next, LinesList) => \A k \in 0..n : h[k] \in LinesList
  <2>1. \A k \in 1..n : \A l \in LinesList : next[k][l] \in LinesList
    <3> HIDE DEF line
    <3> QED  BY <1>3, <1>4
  <2> HIDE DEF base
  <2> QED  BY <1>2, <2>1, Recursive
<1>6. PICK g : Is(g)
  <2>1. PICK g \in [0..n -> LinesList] : g = [k \in 0..n |-> IF k = 0 THEN base ELSE next[k][g[k - 1]]]
    <3> HIDE DEF base
    <3> QED  BY <1>5 DEF Staged
  <2>2. \A k \in 0..n : k # 0 => next[k][g[k - 1]] = line(k, g[k - 1])
    <3>1. \A k \in 0..n : k # 0 => k \in 1..n /\ g[k - 1] \in LinesList
      BY <2>1
    <3> HIDE DEF line
    <3> QED  BY <1>4, <3>1
  <2>3. g = [k \in 0..n |-> IF k = 0 THEN base ELSE line(k, g[k - 1])]
    <3> HIDE DEF base, line
    <3> QED  BY <2>1, <2>2
  <2>4. Is(g)
    BY <1>1, <2>3
  <2> QED  BY <2>4
<1>7. Is(CHOOSE h : Is(h))
  BY <1>6
<1> DEFINE r == CHOOSE h : Is(h)
<1>8. LinesOf(s) = r[n]
  BY <1>1 DEF LinesOf
<1>9. r[0] = base /\ \A k \in 1..n : r[k] = line(k, r[k - 1])
  <2> HIDE DEF r
  <2>1. Is(r)
    BY <1>7 DEF r
  <2>2. 0 \in 0..n /\ \A k \in 1..n : k \in 0..n /\ k # 0
    OBVIOUS
  <2> QED  BY <1>1, <2>1, <2>2
<1> HIDE DEF r
<1>10. n \in 0..n
  OBVIOUS
<1> HIDE DEF line, base
<1>11. r[n] \in LinesList
  <2>1. Proceeds(r, n, base, next, LinesList)
    BY <1>4, <1>9 DEF Proceeds
  <2> QED  BY <1>5, <1>10, <2>1
<1> QED  BY <1>8, <1>11

-----------------------------------------------------------------------------
(* An edit through every cursor of the set, the highest first.              *)
Typing == text \in Text /\ cursors \in Seq(Spot) /\ cursors # <<>> /\ SpotsWithin(cursors, Len(text))

LEMMA DocumentIs ==
  ASSUME NEW t \in Text, NEW cs \in Seq(Spot), SpotsWithin(cs, Len(t))
  PROVE  Document(t, cs) \in Docs(Len(cs)) /\ Document(t, cs).text = t /\ Document(t, cs).cursors = cs
         /\ Document(t, cs).touched = FALSE
<1>1. PICK n \in Nat : n = Len(cs)
  OBVIOUS
<1>2. cs \in [1..n -> Spot] /\ \A i \in 1..n : cs[i].anchor \in 0..Len(t) /\ cs[i].pos \in 0..Len(t)
  BY <1>1 DEF SpotsWithin
<1> DEFINE no == FALSE
<1>3. no \in BOOLEAN
  OBVIOUS
<1> HIDE DEF no
<1>4. [text |-> t, cursors |-> cs, touched |-> no] \in Docs(n)
  BY <1>2, <1>3, MakeDoc
<1> QED  BY <1>1, <1>4 DEF Document, no

(* What edits f of the cursors do to the document, in that order.           *)
Passes(g, f) ==
    g = [k \in 0..Len(cursors) |-> IF k = 0 THEN Document(text, cursors) ELSE f[Descending(cursors)[k]][g[k - 1]]]
Passing(h, f) ==
    /\ h[0] = Document(text, cursors)
    /\ \A k \in 1..Len(cursors) :
          h[k - 1] \in Docs(Len(cursors)) => h[k] = f[Descending(cursors)[k]][h[k - 1]]
EditsOf(n) == [1..n -> [Docs(n) -> Docs(n)]]

LEMMA PassedAll ==
  ASSUME Typing, NEW f \in EditsOf(Len(cursors))
  PROVE  /\ \E g : Passes(g, f) /\ g \in [0..Len(cursors) -> Docs(Len(cursors))]
         /\ \A h : Passing(h, f) => \A k \in 0..Len(cursors) : h[k] \in Docs(Len(cursors))
         /\ \A k \in 1..Len(cursors) : Descending(cursors)[k] \in 1..Len(cursors)
<1>1. PICK n \in Nat : n = Len(cursors)
  BY DEF Typing
<1> DEFINE base == Document(text, cursors)
           order == Descending(cursors)
           next == [k \in 1..n |-> f[order[k]]]
<1>2. base \in Docs(n)
  BY <1>1, DocumentIs DEF Typing
<1>3. \A k \in 1..n : order[k] \in 1..n
  BY <1>1, DescendingIs DEF Orders, Typing
<1> HIDE DEF base, order
<1>4. \A k \in 1..n : \A x \in Docs(n) : next[k][x] \in Docs(n)
  BY <1>1, <1>3 DEF EditsOf
<1>5. \A k \in 1..n : next[k] = f[order[k]]
  OBVIOUS
<1> HIDE DEF next
<1>6. /\ \E g : Staged(g, n, base, next) /\ g \in [0..n -> Docs(n)]
      /\ \A h : Proceeds(h, n, base, next, Docs(n)) => \A k \in 0..n : h[k] \in Docs(n)
  BY <1>2, <1>4, Recursive
<1>7. \E g : Passes(g, f) /\ g \in [0..n -> Docs(n)]
  <2>1. PICK g : g = [k \in 0..n |-> IF k = 0 THEN base ELSE next[k][g[k - 1]]] /\ g \in [0..n -> Docs(n)]
    BY <1>6 DEF Staged
  <2>2. \A k \in 0..n : k # 0 => next[k] = f[order[k]]
    <3>1. \A k \in 0..n : k # 0 => k \in 1..n
      OBVIOUS
    <3> QED  BY <1>5, <3>1
  <2>3. g = [k \in 0..n |-> IF k = 0 THEN base ELSE f[order[k]][g[k - 1]]]
    BY <2>1, <2>2
  <2> QED  BY <1>1, <2>1, <2>3 DEF Passes, base, order
<1>8. ASSUME NEW h, Passing(h, f) PROVE Proceeds(h, n, base, next, Docs(n))
  BY <1>1, <1>5, <1>8 DEF Passing, Proceeds, base, order
<1> QED  BY <1>1, <1>3, <1>6, <1>7, <1>8 DEF order

-----------------------------------------------------------------------------
(* What each key does through every cursor.                                 *)
LEMMA TypeThrough ==
  ASSUME Typing, Multiple, NEW ch, <<ch>> \in Text, TypeText(ch)
  PROVE  \E d \in Docs(Len(cursors)) : PerformMultiEdit(d)
<1>1. PICK n \in Nat : n = Len(cursors)
  BY DEF Typing
<1> DEFINE order == Descending(cursors)
           f == [i \in 1..n |-> [d \in Docs(n) |-> Overtype(d, i, <<ch>>)]]
           Is(h) == h = [k \in 0..Len(cursors) |->
                            IF k = 0 THEN Document(text, cursors) ELSE Overtype(h[k - 1], order[k], <<ch>>)]
<1>2. f \in EditsOf(n)
  BY OvertypeKeeps DEF EditsOf
<1>3. /\ \E g : Passes(g, f) /\ g \in [0..n -> Docs(n)]
      /\ \A h : Passing(h, f) => \A k \in 0..n : h[k] \in Docs(n)
      /\ \A k \in 1..n : order[k] \in 1..n
  <2> HIDE DEF f
  <2> QED  BY <1>1, <1>2, PassedAll
<1> HIDE DEF order
<1>4. \A k \in 1..n : \A d \in Docs(n) : f[order[k]][d] = Overtype(d, order[k], <<ch>>)
  BY <1>3
<1> HIDE DEF f
<1>5. PICK g : Is(g)
  <2>1. PICK g \in [0..n -> Docs(n)] :
          g = [k \in 0..n |-> IF k = 0 THEN Document(text, cursors) ELSE f[order[k]][g[k - 1]]]
    BY <1>1, <1>3 DEF Passes, order
  <2>2. \A k \in 0..n : k # 0 => f[order[k]][g[k - 1]] = Overtype(g[k - 1], order[k], <<ch>>)
    <3>1. \A k \in 0..n : k # 0 => k \in 1..n /\ g[k - 1] \in Docs(n)
      BY <2>1
    <3> QED  BY <1>4, <3>1
  <2>3. g = [k \in 0..n |-> IF k = 0 THEN Document(text, cursors) ELSE Overtype(g[k - 1], order[k], <<ch>>)]
    BY <2>1, <2>2
  <2>4. Is(g)
    BY <1>1, <2>3
  <2> QED  BY <2>4
<1>6. Is(CHOOSE h : Is(h))
  BY <1>5
<1> DEFINE r == CHOOSE h : Is(h)
<1>7. PerformMultiEdit(r[n])
  BY <1>1 DEF TypeText, ThroughAll, order
<1>8. r[0] = Document(text, cursors) /\ \A k \in 1..n : r[k] = Overtype(r[k - 1], order[k], <<ch>>)
  <2> HIDE DEF r
  <2>1. Is(r)
    BY <1>6 DEF r
  <2>2. 0 \in 0..n /\ \A k \in 1..n : k \in 0..n /\ k # 0
    OBVIOUS
  <2> QED  BY <1>1, <2>1, <2>2
<1> HIDE DEF r
<1>9. Passing(r, f)
  BY <1>1, <1>4, <1>8 DEF Passing, order
<1>10. n \in 0..n
  OBVIOUS
<1> QED  BY <1>1, <1>3, <1>7, <1>9, <1>10

LEMMA BackspaceThrough ==
  ASSUME Typing, Multiple, Backspace
  PROVE  \E d \in Docs(Len(cursors)) : PerformMultiEdit(d)
<1>1. PICK n \in Nat : n = Len(cursors)
  BY DEF Typing
<1> DEFINE order == Descending(cursors)
           f == [i \in 1..n |-> [d \in Docs(n) |-> BackspaceAt(d, i)]]
           Is(h) == h = [k \in 0..Len(cursors) |->
                            IF k = 0 THEN Document(text, cursors) ELSE BackspaceAt(h[k - 1], order[k])]
<1>2. f \in EditsOf(n)
  BY BackspaceKeeps DEF EditsOf
<1>3. /\ \E g : Passes(g, f) /\ g \in [0..n -> Docs(n)]
      /\ \A h : Passing(h, f) => \A k \in 0..n : h[k] \in Docs(n)
      /\ \A k \in 1..n : order[k] \in 1..n
  <2> HIDE DEF f
  <2> QED  BY <1>1, <1>2, PassedAll
<1> HIDE DEF order
<1>4. \A k \in 1..n : \A d \in Docs(n) : f[order[k]][d] = BackspaceAt(d, order[k])
  BY <1>3
<1> HIDE DEF f
<1>5. PICK g : Is(g)
  <2>1. PICK g \in [0..n -> Docs(n)] :
          g = [k \in 0..n |-> IF k = 0 THEN Document(text, cursors) ELSE f[order[k]][g[k - 1]]]
    BY <1>1, <1>3 DEF Passes, order
  <2>2. \A k \in 0..n : k # 0 => f[order[k]][g[k - 1]] = BackspaceAt(g[k - 1], order[k])
    <3>1. \A k \in 0..n : k # 0 => k \in 1..n /\ g[k - 1] \in Docs(n)
      BY <2>1
    <3> QED  BY <1>4, <3>1
  <2>3. g = [k \in 0..n |-> IF k = 0 THEN Document(text, cursors) ELSE BackspaceAt(g[k - 1], order[k])]
    BY <2>1, <2>2
  <2>4. Is(g)
    BY <1>1, <2>3
  <2> QED  BY <2>4
<1>6. Is(CHOOSE h : Is(h))
  BY <1>5
<1> DEFINE r == CHOOSE h : Is(h)
<1>7. PerformMultiEdit(r[n])
  BY <1>1 DEF Backspace, ThroughAll, order
<1>8. r[0] = Document(text, cursors) /\ \A k \in 1..n : r[k] = BackspaceAt(r[k - 1], order[k])
  <2> HIDE DEF r
  <2>1. Is(r)
    BY <1>6 DEF r
  <2>2. 0 \in 0..n /\ \A k \in 1..n : k \in 0..n /\ k # 0
    OBVIOUS
  <2> QED  BY <1>1, <2>1, <2>2
<1> HIDE DEF r
<1>9. Passing(r, f)
  BY <1>1, <1>4, <1>8 DEF Passing, order
<1>10. n \in 0..n
  OBVIOUS
<1> QED  BY <1>1, <1>3, <1>7, <1>9, <1>10

LEMMA DeleteThrough ==
  ASSUME Typing, Multiple, DeleteKey
  PROVE  \E d \in Docs(Len(cursors)) : PerformMultiEdit(d)
<1>1. PICK n \in Nat : n = Len(cursors)
  BY DEF Typing
<1> DEFINE order == Descending(cursors)
           f == [i \in 1..n |-> [d \in Docs(n) |-> DeleteAt(d, i)]]
           Is(h) == h = [k \in 0..Len(cursors) |->
                            IF k = 0 THEN Document(text, cursors) ELSE DeleteAt(h[k - 1], order[k])]
<1>2. f \in EditsOf(n)
  BY DeleteKeeps DEF EditsOf
<1>3. /\ \E g : Passes(g, f) /\ g \in [0..n -> Docs(n)]
      /\ \A h : Passing(h, f) => \A k \in 0..n : h[k] \in Docs(n)
      /\ \A k \in 1..n : order[k] \in 1..n
  <2> HIDE DEF f
  <2> QED  BY <1>1, <1>2, PassedAll
<1> HIDE DEF order
<1>4. \A k \in 1..n : \A d \in Docs(n) : f[order[k]][d] = DeleteAt(d, order[k])
  BY <1>3
<1> HIDE DEF f
<1>5. PICK g : Is(g)
  <2>1. PICK g \in [0..n -> Docs(n)] :
          g = [k \in 0..n |-> IF k = 0 THEN Document(text, cursors) ELSE f[order[k]][g[k - 1]]]
    BY <1>1, <1>3 DEF Passes, order
  <2>2. \A k \in 0..n : k # 0 => f[order[k]][g[k - 1]] = DeleteAt(g[k - 1], order[k])
    <3>1. \A k \in 0..n : k # 0 => k \in 1..n /\ g[k - 1] \in Docs(n)
      BY <2>1
    <3> QED  BY <1>4, <3>1
  <2>3. g = [k \in 0..n |-> IF k = 0 THEN Document(text, cursors) ELSE DeleteAt(g[k - 1], order[k])]
    BY <2>1, <2>2
  <2>4. Is(g)
    BY <1>1, <2>3
  <2> QED  BY <2>4
<1>6. Is(CHOOSE h : Is(h))
  BY <1>5
<1> DEFINE r == CHOOSE h : Is(h)
<1>7. PerformMultiEdit(r[n])
  BY <1>1 DEF DeleteKey, ThroughAll, order
<1>8. r[0] = Document(text, cursors) /\ \A k \in 1..n : r[k] = DeleteAt(r[k - 1], order[k])
  <2> HIDE DEF r
  <2>1. Is(r)
    BY <1>6 DEF r
  <2>2. 0 \in 0..n /\ \A k \in 1..n : k \in 0..n /\ k # 0
    OBVIOUS
  <2> QED  BY <1>1, <2>1, <2>2
<1> HIDE DEF r
<1>9. Passing(r, f)
  BY <1>1, <1>4, <1>8 DEF Passing, order
<1>10. n \in 0..n
  OBVIOUS
<1> QED  BY <1>1, <1>3, <1>7, <1>9, <1>10

LEMMA ReturnThrough ==
  ASSUME Typing, Multiple, ReturnKey
  PROVE  \E d \in Docs(Len(cursors)) : PerformMultiEdit(d)
<1>1. PICK n \in Nat : n = Len(cursors)
  BY DEF Typing
<1> DEFINE order == Descending(cursors)
           f == [i \in 1..n |-> [d \in Docs(n) |-> applyReturnWithIndent(d, i)]]
           Is(h) == h = [k \in 0..Len(cursors) |->
                            IF k = 0 THEN Document(text, cursors) ELSE applyReturnWithIndent(h[k - 1], order[k])]
<1>2. f \in EditsOf(n)
  BY ReturnKeeps DEF EditsOf
<1>3. /\ \E g : Passes(g, f) /\ g \in [0..n -> Docs(n)]
      /\ \A h : Passing(h, f) => \A k \in 0..n : h[k] \in Docs(n)
      /\ \A k \in 1..n : order[k] \in 1..n
  <2> HIDE DEF f
  <2> QED  BY <1>1, <1>2, PassedAll
<1> HIDE DEF order
<1>4. \A k \in 1..n : \A d \in Docs(n) : f[order[k]][d] = applyReturnWithIndent(d, order[k])
  BY <1>3
<1> HIDE DEF f
<1>5. PICK g : Is(g)
  <2>1. PICK g \in [0..n -> Docs(n)] :
          g = [k \in 0..n |-> IF k = 0 THEN Document(text, cursors) ELSE f[order[k]][g[k - 1]]]
    BY <1>1, <1>3 DEF Passes, order
  <2>2. \A k \in 0..n : k # 0 => f[order[k]][g[k - 1]] = applyReturnWithIndent(g[k - 1], order[k])
    <3>1. \A k \in 0..n : k # 0 => k \in 1..n /\ g[k - 1] \in Docs(n)
      BY <2>1
    <3> QED  BY <1>4, <3>1
  <2>3. g = [k \in 0..n |-> IF k = 0 THEN Document(text, cursors) ELSE applyReturnWithIndent(g[k - 1], order[k])]
    BY <2>1, <2>2
  <2>4. Is(g)
    BY <1>1, <2>3
  <2> QED  BY <2>4
<1>6. Is(CHOOSE h : Is(h))
  BY <1>5
<1> DEFINE r == CHOOSE h : Is(h)
<1>7. PerformMultiEdit(r[n])
  BY <1>1 DEF ReturnKey, ThroughAll, order
<1>8. r[0] = Document(text, cursors) /\ \A k \in 1..n : r[k] = applyReturnWithIndent(r[k - 1], order[k])
  <2> HIDE DEF r
  <2>1. Is(r)
    BY <1>6 DEF r
  <2>2. 0 \in 0..n /\ \A k \in 1..n : k \in 0..n /\ k # 0
    OBVIOUS
  <2> QED  BY <1>1, <2>1, <2>2
<1> HIDE DEF r
<1>9. Passing(r, f)
  BY <1>1, <1>4, <1>8 DEF Passing, order
<1>10. n \in 0..n
  OBVIOUS
<1> QED  BY <1>1, <1>3, <1>7, <1>9, <1>10

LEMMA TabThrough ==
  ASSUME Typing, Multiple, NEW forward \in BOOLEAN, TabKey(forward)
  PROVE  \E d \in Docs(Len(cursors)) : PerformMultiEdit(d)
<1>1. PICK n \in Nat : n = Len(cursors)
  BY DEF Typing
<1> DEFINE order == Descending(cursors)
           f == [i \in 1..n |-> [d \in Docs(n) |-> applyTab(d, i, forward)]]
           Is(h) == h = [k \in 0..Len(cursors) |->
                            IF k = 0 THEN Document(text, cursors) ELSE applyTab(h[k - 1], order[k], forward)]
<1>2. f \in EditsOf(n)
  BY TabKeeps DEF EditsOf
<1>3. /\ \E g : Passes(g, f) /\ g \in [0..n -> Docs(n)]
      /\ \A h : Passing(h, f) => \A k \in 0..n : h[k] \in Docs(n)
      /\ \A k \in 1..n : order[k] \in 1..n
  <2> HIDE DEF f
  <2> QED  BY <1>1, <1>2, PassedAll
<1> HIDE DEF order
<1>4. \A k \in 1..n : \A d \in Docs(n) : f[order[k]][d] = applyTab(d, order[k], forward)
  BY <1>3
<1> HIDE DEF f
<1>5. PICK g : Is(g)
  <2>1. PICK g \in [0..n -> Docs(n)] :
          g = [k \in 0..n |-> IF k = 0 THEN Document(text, cursors) ELSE f[order[k]][g[k - 1]]]
    BY <1>1, <1>3 DEF Passes, order
  <2>2. \A k \in 0..n : k # 0 => f[order[k]][g[k - 1]] = applyTab(g[k - 1], order[k], forward)
    <3>1. \A k \in 0..n : k # 0 => k \in 1..n /\ g[k - 1] \in Docs(n)
      BY <2>1
    <3> QED  BY <1>4, <3>1
  <2>3. g = [k \in 0..n |-> IF k = 0 THEN Document(text, cursors) ELSE applyTab(g[k - 1], order[k], forward)]
    BY <2>1, <2>2
  <2>4. Is(g)
    BY <1>1, <2>3
  <2> QED  BY <2>4
<1>6. Is(CHOOSE h : Is(h))
  BY <1>5
<1> DEFINE r == CHOOSE h : Is(h)
<1>7. PerformMultiEdit(r[n])
  BY <1>1 DEF TabKey, ThroughAll, order
<1>8. r[0] = Document(text, cursors) /\ \A k \in 1..n : r[k] = applyTab(r[k - 1], order[k], forward)
  <2> HIDE DEF r
  <2>1. Is(r)
    BY <1>6 DEF r
  <2>2. 0 \in 0..n /\ \A k \in 1..n : k \in 0..n /\ k # 0
    OBVIOUS
  <2> QED  BY <1>1, <2>1, <2>2
<1> HIDE DEF r
<1>9. Passing(r, f)
  BY <1>1, <1>4, <1>8 DEF Passing, order
<1>10. n \in 0..n
  OBVIOUS
<1> QED  BY <1>1, <1>3, <1>7, <1>9, <1>10

LEMMA CaseThrough ==
  ASSUME Typing, Multiple, NEW upper \in BOOLEAN, ChangeCase(upper)
  PROVE  \E d \in Docs(Len(cursors)) : PerformMultiEdit(d)
<1>1. PICK n \in Nat : n = Len(cursors)
  BY DEF Typing
<1> DEFINE order == Descending(cursors)
           f == [i \in 1..n |-> [d \in Docs(n) |-> foldCase(d, i, upper)]]
           Is(h) == h = [k \in 0..Len(cursors) |->
                            IF k = 0 THEN Document(text, cursors) ELSE foldCase(h[k - 1], order[k], upper)]
<1>2. f \in EditsOf(n)
  BY FoldCaseKeeps DEF EditsOf
<1>3. /\ \E g : Passes(g, f) /\ g \in [0..n -> Docs(n)]
      /\ \A h : Passing(h, f) => \A k \in 0..n : h[k] \in Docs(n)
      /\ \A k \in 1..n : order[k] \in 1..n
  <2> HIDE DEF f
  <2> QED  BY <1>1, <1>2, PassedAll
<1> HIDE DEF order
<1>4. \A k \in 1..n : \A d \in Docs(n) : f[order[k]][d] = foldCase(d, order[k], upper)
  BY <1>3
<1> HIDE DEF f
<1>5. PICK g : Is(g)
  <2>1. PICK g \in [0..n -> Docs(n)] :
          g = [k \in 0..n |-> IF k = 0 THEN Document(text, cursors) ELSE f[order[k]][g[k - 1]]]
    BY <1>1, <1>3 DEF Passes, order
  <2>2. \A k \in 0..n : k # 0 => f[order[k]][g[k - 1]] = foldCase(g[k - 1], order[k], upper)
    <3>1. \A k \in 0..n : k # 0 => k \in 1..n /\ g[k - 1] \in Docs(n)
      BY <2>1
    <3> QED  BY <1>4, <3>1
  <2>3. g = [k \in 0..n |-> IF k = 0 THEN Document(text, cursors) ELSE foldCase(g[k - 1], order[k], upper)]
    BY <2>1, <2>2
  <2>4. Is(g)
    BY <1>1, <2>3
  <2> QED  BY <2>4
<1>6. Is(CHOOSE h : Is(h))
  BY <1>5
<1> DEFINE r == CHOOSE h : Is(h)
<1>7. PerformMultiEdit(r[n])
  BY <1>1 DEF ChangeCase, ThroughAll, order
<1>8. r[0] = Document(text, cursors) /\ \A k \in 1..n : r[k] = foldCase(r[k - 1], order[k], upper)
  <2> HIDE DEF r
  <2>1. Is(r)
    BY <1>6 DEF r
  <2>2. 0 \in 0..n /\ \A k \in 1..n : k \in 0..n /\ k # 0
    OBVIOUS
  <2> QED  BY <1>1, <2>1, <2>2
<1> HIDE DEF r
<1>9. Passing(r, f)
  BY <1>1, <1>4, <1>8 DEF Passing, order
<1>10. n \in 0..n
  OBVIOUS
<1> QED  BY <1>1, <1>3, <1>7, <1>9, <1>10

-----------------------------------------------------------------------------
(* Cutting the selections: each is removed, a cursor without one stays.     *)
CutAt(d, i) == IF HasSelection(d.cursors[i]) THEN RemoveSelected(d, i) ELSE d

LEMMA CutKeeps ==
  ASSUME NEW n \in Nat, NEW d \in Docs(n), NEW i \in 1..n
  PROVE  CutAt(d, i) \in Docs(n) /\ Together(d, CutAt(d, i), n, i)
<1>1. RemoveSelected(d, i) \in Docs(n) /\ Together(d, RemoveSelected(d, i), n, i)
  BY TogetherRemoved
<1>2. Together(d, d, n, i)
  BY DEF Together
<1> QED  BY <1>1, <1>2 DEF CutAt

(* Pasting: with as many lines as cursors, each gets the line of its rank.  *)
LEMMA PasteKeeps ==
  ASSUME Typing, clipboard \in Text, NEW n \in Nat, n = Len(cursors), NEW d \in Docs(n), NEW i \in 1..n
  PROVE  PasteAt(d, i) \in Docs(n)
<1> DEFINE all == LinesOf(clipboard)
           last == Last(all) = <<>>
           lines == IF Len(all) = Len(cursors) + 1 /\ last THEN Front(all) ELSE all
           rank == CHOOSE k \in DOMAIN cursors : Ascending(cursors)[k] = i
           piece == IF Len(lines) = Len(cursors) THEN lines[rank] ELSE clipboard
<1>1. all \in Seq(Text) /\ all # <<>>
  BY LinesOfIs DEF LinesList
<1> HIDE DEF all, last
<1>2. lines \in Seq(Text)
  BY <1>1, FrontIs
<1>3. \E k \in 1..n : Ascending(cursors)[k] = i
  <2> DEFINE key == [j \in 1..n |-> SelStart(cursors[j])]
  <2>1. Ordered(Ascending(cursors), n, key)
    BY AscendingIs DEF Typing
  <2> HIDE DEF key
  <2> QED  BY <2>1 DEF Ordered
<1>4. rank \in 1..n
  <2>1. DOMAIN cursors = 1..n
    BY DEF Typing
  <2> QED  BY <1>3, <2>1
<1> HIDE DEF lines, rank
<1>5. Len(lines) = Len(cursors) => lines[rank] \in Text
  BY <1>2, <1>4
<1>6. piece \in Text
  BY <1>5
<1>7. PasteAt(d, i) = InsertText(d, i, piece)
  BY DEF PasteAt, all, last, lines, rank
<1> HIDE DEF piece
<1> QED  BY <1>6, <1>7, InsertTextIs

LEMMA CutThrough ==
  ASSUME Typing, Multiple, CutSelections
  PROVE  \E d \in Docs(Len(cursors)) : PerformMultiEdit(d)
<1>1. PICK n \in Nat : n = Len(cursors)
  BY DEF Typing
<1> DEFINE order == Descending(cursors)
           f == [i \in 1..n |-> [d \in Docs(n) |-> CutAt(d, i)]]
           Is(h) == h = [k \in 0..Len(cursors) |->
                            IF k = 0 THEN Document(text, cursors) ELSE CutAt(h[k - 1], order[k])]
<1>2. f \in EditsOf(n)
  BY CutKeeps DEF EditsOf
<1>3. /\ \E g : Passes(g, f) /\ g \in [0..n -> Docs(n)]
      /\ \A h : Passing(h, f) => \A k \in 0..n : h[k] \in Docs(n)
      /\ \A k \in 1..n : order[k] \in 1..n
  <2> HIDE DEF f
  <2> QED  BY <1>1, <1>2, PassedAll
<1> HIDE DEF order
<1>4. \A k \in 1..n : \A d \in Docs(n) : f[order[k]][d] = CutAt(d, order[k])
  BY <1>3
<1> HIDE DEF f
<1>5. PICK g : Is(g)
  <2>1. PICK g \in [0..n -> Docs(n)] :
          g = [k \in 0..n |-> IF k = 0 THEN Document(text, cursors) ELSE f[order[k]][g[k - 1]]]
    BY <1>1, <1>3 DEF Passes, order
  <2>2. \A k \in 0..n : k # 0 => f[order[k]][g[k - 1]] = CutAt(g[k - 1], order[k])
    <3>1. \A k \in 0..n : k # 0 => k \in 1..n /\ g[k - 1] \in Docs(n)
      BY <2>1
    <3> QED  BY <1>4, <3>1
  <2>3. g = [k \in 0..n |-> IF k = 0 THEN Document(text, cursors) ELSE CutAt(g[k - 1], order[k])]
    BY <2>1, <2>2
  <2>4. Is(g)
    BY <1>1, <2>3
  <2> QED  BY <2>4
<1>6. Is(CHOOSE h : Is(h))
  BY <1>5
<1> DEFINE r == CHOOSE h : Is(h)
<1>7. PerformMultiEdit(r[n])
  BY <1>1 DEF CutSelections, CutAt, ThroughAll, order
<1>8. r[0] = Document(text, cursors) /\ \A k \in 1..n : r[k] = CutAt(r[k - 1], order[k])
  <2> HIDE DEF r
  <2>1. Is(r)
    BY <1>6 DEF r
  <2>2. 0 \in 0..n /\ \A k \in 1..n : k \in 0..n /\ k # 0
    OBVIOUS
  <2> QED  BY <1>1, <2>1, <2>2
<1> HIDE DEF r
<1>9. Passing(r, f)
  BY <1>1, <1>4, <1>8 DEF Passing, order
<1>10. n \in 0..n
  OBVIOUS
<1> QED  BY <1>1, <1>3, <1>7, <1>9, <1>10


LEMMA PasteThrough ==
  ASSUME Typing, Multiple, clipboard \in Text, Paste
  PROVE  \E d \in Docs(Len(cursors)) : PerformMultiEdit(d)
<1>1. PICK n \in Nat : n = Len(cursors)
  BY DEF Typing
<1> DEFINE order == Descending(cursors)
           f == [i \in 1..n |-> [d \in Docs(n) |-> PasteAt(d, i)]]
           Is(h) == h = [k \in 0..Len(cursors) |->
                            IF k = 0 THEN Document(text, cursors) ELSE PasteAt(h[k - 1], order[k])]
<1>2. f \in EditsOf(n)
  BY <1>1, PasteKeeps DEF EditsOf
<1>3. /\ \E g : Passes(g, f) /\ g \in [0..n -> Docs(n)]
      /\ \A h : Passing(h, f) => \A k \in 0..n : h[k] \in Docs(n)
      /\ \A k \in 1..n : order[k] \in 1..n
  <2> HIDE DEF f
  <2> QED  BY <1>1, <1>2, PassedAll
<1> HIDE DEF order
<1>4. \A k \in 1..n : \A d \in Docs(n) : f[order[k]][d] = PasteAt(d, order[k])
  BY <1>3
<1> HIDE DEF f
<1>5. PICK g : Is(g)
  <2>1. PICK g \in [0..n -> Docs(n)] :
          g = [k \in 0..n |-> IF k = 0 THEN Document(text, cursors) ELSE f[order[k]][g[k - 1]]]
    BY <1>1, <1>3 DEF Passes, order
  <2>2. \A k \in 0..n : k # 0 => f[order[k]][g[k - 1]] = PasteAt(g[k - 1], order[k])
    <3>1. \A k \in 0..n : k # 0 => k \in 1..n /\ g[k - 1] \in Docs(n)
      BY <2>1
    <3> QED  BY <1>4, <3>1
  <2>3. g = [k \in 0..n |-> IF k = 0 THEN Document(text, cursors) ELSE PasteAt(g[k - 1], order[k])]
    BY <2>1, <2>2
  <2>4. Is(g)
    BY <1>1, <2>3
  <2> QED  BY <2>4
<1>6. Is(CHOOSE h : Is(h))
  BY <1>5
<1> DEFINE r == CHOOSE h : Is(h)
<1>7. PerformMultiEdit(r[n])
  BY <1>1 DEF Paste, ThroughAll, order
<1>8. r[0] = Document(text, cursors) /\ \A k \in 1..n : r[k] = PasteAt(r[k - 1], order[k])
  <2> HIDE DEF r
  <2>1. Is(r)
    BY <1>6 DEF r
  <2>2. 0 \in 0..n /\ \A k \in 1..n : k \in 0..n /\ k # 0
    OBVIOUS
  <2> QED  BY <1>1, <2>1, <2>2
<1> HIDE DEF r
<1>9. Passing(r, f)
  BY <1>1, <1>4, <1>8 DEF Passing, order
<1>10. n \in 0..n
  OBVIOUS
<1> QED  BY <1>1, <1>3, <1>7, <1>9, <1>10

-----------------------------------------------------------------------------
(* Restoring a snapshot: a caret that is there already is not added again.  *)
LEMMA AddedIs ==
  ASSUME NEW N \in Nat, NEW z \in Set(N), NEW c \in Spot
  PROVE  \/ AddCursor(z, c).cursors = z.cursors /\ \E i \in 1..Len(z.cursors) : z.cursors[i] = c
         \/ AddCursor(z, c).cursors = Append(z.cursors, c)
<1>1. PICK cs \in Seq(Spot), n \in Nat : cs = z.cursors /\ n = Len(cs)
  BY SetIs
<1> DEFINE same == {i \in DOMAIN cs : cs[i].pos = c.pos}
<1>2. CASE ~HasSelection(c) /\ \E i \in same : ~HasSelection(cs[i])
  <2>1. AddCursor(z, c) = [z EXCEPT !.main = Min(same)]
    BY <1>1, <1>2 DEF AddCursor
  <2>2. AddCursor(z, c).cursors = cs
    <3>1. z = [cursors |-> cs, main |-> z.main]
      BY <1>1, SetIs
    <3> HIDE DEF same
    <3> QED  BY <2>1, <3>1
  <2>3. PICK i \in 1..n : cs[i].pos = c.pos /\ ~HasSelection(cs[i])
    BY <1>1, <1>2
  <2>4. cs[i] \in Spot
    BY <1>1
  <2>5. cs[i] = c
    <3>1. cs[i] = Cursor(cs[i].anchor, cs[i].pos) /\ c = Cursor(c.anchor, c.pos)
      BY <2>4, Ends
    <3>2. cs[i].anchor = cs[i].pos /\ c.anchor = c.pos
      BY <1>2, <2>3 DEF HasSelection
    <3> QED  BY <2>3, <3>1, <3>2
  <2> QED  BY <1>1, <2>2, <2>5
<1>3. CASE ~(~HasSelection(c) /\ \E i \in same : ~HasSelection(cs[i]))
  <2>1. AddCursor(z, c) = [cursors |-> Append(cs, c), main |-> Len(cs) + 1]
    BY <1>1, <1>3 DEF AddCursor
  <2> QED  BY <1>1, <2>1
<1> QED  BY <1>2, <1>3

(* The first k cursors of a snapshot, each once; as they were if no two touch. *)
Took(cs, snapshot, k) ==
    /\ \A i \in 1..k : \E j \in 1..Len(cs) : cs[j] = snapshot[i]
    /\ \A j \in 1..Len(cs) : \E i \in 1..k : cs[j] = snapshot[i]
    /\ Apart(snapshot) => Len(cs) = k /\ \A i \in 1..k : cs[i] = snapshot[i]

LEMMA TookMore ==
  ASSUME NEW snapshot \in Seq(Spot), NEW k \in Nat, k + 1 <= Len(snapshot),
         NEW cs \in Seq(Spot), Took(cs, snapshot, k), NEW u,
         \/ u = cs /\ \E i \in 1..Len(cs) : cs[i] = snapshot[k + 1]
         \/ u = Append(cs, snapshot[k + 1])
  PROVE  Took(u, snapshot, k + 1)
<1>1. \A i \in 1..(k + 1) : i = k + 1 \/ i \in 1..k
  OBVIOUS
<1>2. CASE u = cs /\ \E i \in 1..Len(cs) : cs[i] = snapshot[k + 1]
  <2>1. PICK j \in 1..Len(cs) : cs[j] = snapshot[k + 1]
    BY <1>2
  <2>2. PICK i \in 1..k : cs[j] = snapshot[i]
    BY DEF Took
  <2>3. ~Apart(snapshot)
    <3>1. snapshot[i] \in Spot /\ i \in DOMAIN snapshot /\ k + 1 \in DOMAIN snapshot /\ i # k + 1
      OBVIOUS
    <3>2. Overlap(snapshot[i], snapshot[k + 1])
      <4>1. snapshot[i] = snapshot[k + 1]
        BY <2>1, <2>2
      <4> DEFINE c == snapshot[i]
      <4>2. SelStart(c) \in Nat /\ SelEnd(c) \in Nat /\ SelStart(c) <= SelEnd(c)
        BY <3>1, Ends
      <4>3. Max({SelStart(c), SelStart(c)}) = SelStart(c) /\ Min({SelEnd(c), SelEnd(c)}) = SelEnd(c)
        BY <4>2, TwoIs
      <4>4. Overlap(c, c)
        BY <4>2, <4>3 DEF Overlap
      <4> QED  BY <4>1, <4>4
    <3> QED  BY <3>1, <3>2 DEF Apart
  <2>4. \A m \in 1..(k + 1) : \E q \in 1..Len(u) : u[q] = snapshot[m]
    BY <1>1, <1>2, <2>1 DEF Took
  <2>5. \A q \in 1..Len(u) : \E m \in 1..(k + 1) : u[q] = snapshot[m]
    <3>1. \A m \in 1..k : m \in 1..(k + 1)
      OBVIOUS
    <3> QED  BY <1>2, <3>1 DEF Took
  <2> QED  BY <2>3, <2>4, <2>5 DEF Took
<1>3. CASE u = Append(cs, snapshot[k + 1])
  <2>1. PICK n \in Nat : n = Len(cs)
    OBVIOUS
  <2>2. snapshot[k + 1] \in Spot
    OBVIOUS
  <2>3. Len(u) = n + 1 /\ u[n + 1] = snapshot[k + 1] /\ \A i \in 1..n : u[i] = cs[i]
    BY <1>3, <2>1, <2>2
  <2>4. \A q \in 1..(n + 1) : q = n + 1 \/ q \in 1..n
    OBVIOUS
  <2>5. \A m \in 1..(k + 1) : \E q \in 1..Len(u) : u[q] = snapshot[m]
    <3>1. \A q \in 1..n : q \in 1..Len(u)
      BY <2>3
    <3>2. n + 1 \in 1..Len(u)
      BY <2>3
    <3>3. ASSUME NEW m \in 1..k PROVE \E q \in 1..Len(u) : u[q] = snapshot[m]
      <4>1. PICK q \in 1..n : cs[q] = snapshot[m]
        BY <1>1, <2>1 DEF Took
      <4> QED  BY <2>3, <3>1, <4>1
    <3>4. \A m \in 1..(k + 1) : m = k + 1 \/ m \in 1..k
      OBVIOUS
    <3> QED  BY <2>3, <3>2, <3>3, <3>4
  <2>6. \A q \in 1..Len(u) : \E m \in 1..(k + 1) : u[q] = snapshot[m]
    <3> SUFFICES ASSUME NEW q \in 1..(n + 1) PROVE \E m \in 1..(k + 1) : u[q] = snapshot[m]
      BY <2>3
    <3>1. CASE q = n + 1
      BY <2>3, <3>1
    <3>2. CASE q \in 1..n
      <4>1. PICK m \in 1..k : cs[q] = snapshot[m]
        BY <2>1, <3>2 DEF Took
      <4>2. m \in 1..(k + 1)
        OBVIOUS
      <4> QED  BY <2>3, <3>2, <4>1, <4>2
    <3> QED  BY <2>4, <3>1, <3>2
  <2>7. Apart(snapshot) => Len(u) = k + 1 /\ \A i \in 1..(k + 1) : u[i] = snapshot[i]
    BY <1>1, <2>1, <2>3 DEF Took
  <2> QED  BY <2>5, <2>6, <2>7 DEF Took
<1> QED  BY <1>2, <1>3

LEMMA RestoredIs ==
  ASSUME NEW t \in Text, NEW snapshot \in Seq(Spot), snapshot # <<>>
  PROVE  LET z == Restored(snapshot, t) IN
         /\ z \in Set(Len(t))
         /\ SpotsWithin(snapshot, Len(t)) => /\ ToSet(z.cursors) = ToSet(snapshot)
                                             /\ Apart(snapshot) => z.cursors = snapshot
<1>1. PICK N \in Nat : N = Len(t)
  BY DEF Text
<1>2. PICK m \in Nat : m = Len(snapshot) /\ m >= 1
  OBVIOUS
<1> DEFINE within(p, else) == IF p <= Len(t) THEN p ELSE else
           cursor(c) == LET a == within(c.anchor, 0) IN Cursor(a, within(c.pos, a))
           base == [cursors |-> <<cursor(snapshot[1])>>, main |-> 1]
           next == [k \in 1..(m - 1) |-> [z \in Set(N) |-> AddCursor(z, cursor(snapshot[k + 1]))]]
           good == [k \in 0..(m - 1) |-> {z \in Set(N) : SpotsWithin(snapshot, N) => Took(z.cursors, snapshot, k + 1)}]
           Is(h) == h = [k \in 0 .. Len(snapshot) - 1 |->
                           IF k = 0 THEN base ELSE AddCursor(h[k - 1], cursor(snapshot[k + 1]))]
<1>3. ASSUME NEW k \in 1..m
      PROVE  /\ cursor(snapshot[k]) \in Spot
             /\ cursor(snapshot[k]).anchor \in 0..N /\ cursor(snapshot[k]).pos \in 0..N
             /\ SpotsWithin(snapshot, N) => cursor(snapshot[k]) = snapshot[k]
  <2>1. PICK a \in Nat, p \in Nat : snapshot[k] = Cursor(a, p) /\ a = snapshot[k].anchor /\ p = snapshot[k].pos
    <3>1. snapshot[k] \in Spot
      BY <1>2
    <3> QED  BY <3>1, Ends
  <2>2. PICK x \in 0..N : x = within(a, 0) /\ (a <= N => x = a)
    BY <1>1
  <2>3. PICK y \in 0..N : y = within(p, x) /\ (p <= N => y = p)
    BY <1>1
  <2>4. cursor(snapshot[k]) = Cursor(x, y)
    BY <2>1, <2>2, <2>3
  <2>5. Cursor(x, y) \in Spot /\ Cursor(x, y).anchor = x /\ Cursor(x, y).pos = y
    BY DEF Cursor, Spot
  <2>6. SpotsWithin(snapshot, N) => a <= N /\ p <= N
    BY <1>2, <2>1 DEF SpotsWithin
  <2> HIDE DEF cursor
  <2> QED  BY <2>1, <2>2, <2>3, <2>4, <2>5, <2>6
<1> HIDE DEF cursor
<1>4. base \in good[0]
  <2>1. PICK c \in Spot : c = cursor(snapshot[1]) /\ c.anchor \in 0..N /\ c.pos \in 0..N
                          /\ (SpotsWithin(snapshot, N) => c = snapshot[1])
    BY <1>2, <1>3
  <2>2. [cursors |-> <<c>>, main |-> 1] \in Set(N)
    BY <2>1, OneIs
  <2> DEFINE s == <<c>>
  <2>3. Len(s) = 1 /\ s[1] = c
    OBVIOUS
  <2> HIDE DEF s
  <2>4. c = snapshot[1] => Took(s, snapshot, 1)
    BY <2>3 DEF Took
  <2>5. base \in Set(N) /\ base.cursors = s
    BY <2>1, <2>2 DEF s
  <2> HIDE DEF base
  <2>6. 0 + 1 = 1 /\ 0 \in 0..(m - 1)
    BY <1>2
  <2>7. SpotsWithin(snapshot, N) => Took(base.cursors, snapshot, 0 + 1)
    BY <2>1, <2>4, <2>5, <2>6
  <2> QED  BY <2>5, <2>6, <2>7
<1>5. \A k \in 1..(m - 1) : \A z \in good[k - 1] : next[k][z] \in good[k]
  <2> SUFFICES ASSUME NEW k \in 1..(m - 1), NEW z \in good[k - 1] PROVE next[k][z] \in good[k]
    OBVIOUS
  <2>1. k - 1 \in 0..(m - 1) /\ k \in 0..(m - 1) /\ k + 1 \in 1..m /\ k - 1 + 1 = k /\ k \in Nat
    OBVIOUS
  <2>2. z \in Set(N) /\ (SpotsWithin(snapshot, N) => Took(z.cursors, snapshot, k))
    BY <2>1
  <2>3. PICK c \in Spot : c = cursor(snapshot[k + 1]) /\ c.anchor \in 0..N /\ c.pos \in 0..N
                          /\ (SpotsWithin(snapshot, N) => c = snapshot[k + 1])
    BY <1>3, <2>1
  <2>4. next[k][z] = AddCursor(z, c)
    BY <2>2, <2>3
  <2>5. AddCursor(z, c) \in Set(N)
    BY <2>2, <2>3, AddCursorIs
  <2>6. z.cursors \in Seq(Spot)
    BY <2>2, SetIs
  <2>7. SpotsWithin(snapshot, N) => Took(AddCursor(z, c).cursors, snapshot, k + 1)
    <3> SUFFICES ASSUME SpotsWithin(snapshot, N) PROVE Took(AddCursor(z, c).cursors, snapshot, k + 1)
      OBVIOUS
    <3>1. k + 1 <= Len(snapshot)
      BY <1>2, <2>1
    <3>2. c = snapshot[k + 1] /\ Took(z.cursors, snapshot, k)
      BY <2>2, <2>3
    <3> DEFINE u == AddCursor(z, c).cursors
    <3>3. \/ u = z.cursors /\ \E i \in 1..Len(z.cursors) : z.cursors[i] = snapshot[k + 1]
          \/ u = Append(z.cursors, snapshot[k + 1])
      BY <2>2, <3>2, AddedIs
    <3> HIDE DEF u
    <3>4. Took(u, snapshot, k + 1)
      BY <2>1, <2>6, <3>1, <3>2, <3>3, TookMore
    <3> QED  BY <3>4 DEF u
  <2> HIDE DEF next
  <2>8. AddCursor(z, c) \in good[k]
    BY <2>1, <2>5, <2>7
  <2> QED  BY <2>4, <2>8
<1>6. \A k \in 1..(m - 1) : \A z \in Set(N) : next[k][z] = AddCursor(z, cursor(snapshot[k + 1]))
  OBVIOUS
<1>7. \A k \in 0..(m - 1) : \A z \in good[k] : z \in Set(N) /\ (SpotsWithin(snapshot, N) => Took(z.cursors, snapshot, k + 1))
  OBVIOUS
<1> HIDE DEF base, next, good
<1>8. /\ \E g : Staged(g, m - 1, base, next) /\ \A k \in 0..(m - 1) : g[k] \in good[k]
      /\ \A h : Climbs(h, m - 1, base, next, good) => \A k \in 0..(m - 1) : h[k] \in good[k]
  <2>1. m - 1 \in Nat
    BY <1>2
  <2> QED  BY <1>4, <1>5, <2>1, StagedRecursion
<1>9. PICK g : Is(g)
  <2>1. PICK g : g = [k \in 0..(m - 1) |-> IF k = 0 THEN base ELSE next[k][g[k - 1]]] /\ \A k \in 0..(m - 1) : g[k] \in good[k]
    BY <1>8 DEF Staged
  <2>2. \A k \in 0..(m - 1) : k # 0 => next[k][g[k - 1]] = AddCursor(g[k - 1], cursor(snapshot[k + 1]))
    <3>1. \A k \in 0..(m - 1) : k # 0 => k \in 1..(m - 1) /\ k - 1 \in 0..(m - 1)
      OBVIOUS
    <3>2. \A k \in 0..(m - 1) : g[k] \in Set(N)
      BY <1>7, <2>1
    <3> QED  BY <1>6, <3>1, <3>2
  <2>3. g = [k \in 0..(m - 1) |-> IF k = 0 THEN base ELSE AddCursor(g[k - 1], cursor(snapshot[k + 1]))]
    BY <2>1, <2>2
  <2>4. Is(g)
    BY <1>2, <2>3
  <2> QED  BY <2>4
<1>10. Is(CHOOSE h : Is(h))
  BY <1>9
<1> DEFINE r == CHOOSE h : Is(h)
<1>11. Restored(snapshot, t) = r[m - 1]
  BY <1>2 DEF Restored, base, cursor
<1>12. r[0] = base /\ \A k \in 1..(m - 1) : r[k] = AddCursor(r[k - 1], cursor(snapshot[k + 1]))
  <2> HIDE DEF r
  <2>1. Is(r)
    BY <1>10 DEF r
  <2>2. 0 \in 0..(m - 1) /\ \A k \in 1..(m - 1) : k \in 0..(m - 1) /\ k # 0
    BY <1>2
  <2> QED  BY <1>2, <2>1, <2>2
<1> HIDE DEF r
<1>13. Climbs(r, m - 1, base, next, good)
  <2>1. \A k \in 1..(m - 1) : k - 1 \in 0..(m - 1)
    OBVIOUS
  <2> QED  BY <1>6, <1>7, <1>12, <2>1 DEF Climbs
<1>14. r[m - 1] \in good[m - 1]
  <2>1. m - 1 \in 0..(m - 1)
    BY <1>2
  <2> QED  BY <1>8, <1>13, <2>1
<1>15. PICK z : z = Restored(snapshot, t) /\ z \in Set(N) /\ (SpotsWithin(snapshot, N) => Took(z.cursors, snapshot, m))
  <2>1. m - 1 \in 0..(m - 1) /\ m - 1 + 1 = m
    BY <1>2
  <2> QED  BY <1>7, <1>11, <1>14, <2>1
<1>16. ASSUME SpotsWithin(snapshot, N) PROVE ToSet(z.cursors) = ToSet(snapshot) /\ (Apart(snapshot) => z.cursors = snapshot)
  <2>1. PICK cs \in Seq(Spot) : cs = z.cursors
    BY <1>15, SetIs
  <2>2. Took(cs, snapshot, m)
    BY <1>15, <1>16, <2>1
  <2>3. ToSet(cs) = ToSet(snapshot)
    <3>1. ToSet(cs) = {cs[i] : i \in 1..Len(cs)} /\ ToSet(snapshot) = {snapshot[i] : i \in 1..m}
      BY <1>2 DEF ToSet
    <3>2. (\A i \in 1..m : \E j \in 1..Len(cs) : cs[j] = snapshot[i]) /\ (\A j \in 1..Len(cs) : \E i \in 1..m : cs[j] = snapshot[i])
      BY <2>2 DEF Took
    <3>3. ToSet(cs) \subseteq ToSet(snapshot) /\ ToSet(snapshot) \subseteq ToSet(cs)
      BY <3>1, <3>2
    <3> QED  BY <3>3
  <2>4. Apart(snapshot) => cs = snapshot
    <3>1. Apart(snapshot) => Len(cs) = m /\ \A i \in 1..m : cs[i] = snapshot[i]
      BY <2>2 DEF Took
    <3> QED  BY <1>2, <3>1
  <2> QED  BY <2>1, <2>3, <2>4
<1> QED  BY <1>1, <1>15, <1>16

-----------------------------------------------------------------------------
(* What is copied and cut.                                                  *)
LEMMA SelectedIs ==
  ASSUME NEW t \in Text, NEW c \in Spot, CursorIn(c, t)
  PROVE  /\ Selected(t, c) \in Text
         /\ SelStart(c) \in 0..Len(t) /\ SelEnd(c) \in 0..Len(t) /\ SelStart(c) <= SelEnd(c)
<1>1. PICK N \in Nat : N = Len(t)
  BY DEF Text
<1>2. c.anchor \in 0..N /\ c.pos \in 0..N
  BY <1>1 DEF CursorIn
<1>3. SelStart(c) \in 0..N /\ SelEnd(c) \in 0..N /\ SelStart(c) <= SelEnd(c)
  BY <1>2, Ends
<1>4. SubSeq(t, SelStart(c) + 1, SelEnd(c)) \in Text
  BY <1>1, <1>3, PieceIs
<1> QED  BY <1>1, <1>3, <1>4 DEF Selected

LEMMA TextsJoin ==
  ASSUME NEW s \in Text, NEW u \in Text
  PROVE  s \o u \in Text /\ Append(s, NL) \in Text
<1>1. NL \in Char
  BY DEF Char
<1> QED  BY <1>1 DEF Text

LEMMA NothingIs == <<>> \in Text
  BY DEF Text

LEMMA SelectedTextIs ==
  ASSUME text \in Text, NEW cs \in Seq(Spot), SpotsWithin(cs, Len(text))
  PROVE  SelectedText(cs) \in Text
<1>1. PICK n \in Nat : n = Len(cs)
  OBVIOUS
<1> DEFINE order == Ascending(cs)
           nothing == <<>>
           piece(k, s) == IF HasSelection(cs[order[k]])
                          THEN (IF s = nothing THEN s ELSE Append(s, NL)) \o Selected(text, cs[order[k]]) ELSE s
           next == [k \in 1..n |-> [s \in Text |-> piece(k, s)]]
           Is(h) == h = [k \in 0..Len(cs) |-> IF k = 0 THEN nothing ELSE piece(k, h[k - 1])]
<1>2. \A k \in 1..n : order[k] \in 1..n
  <2>1. order \in Orders(n, n)
    BY <1>1, AscendingIs
  <2> HIDE DEF order
  <2> QED  BY <2>1 DEF Orders
<1> HIDE DEF order
<1>3. ASSUME NEW k \in 1..n, NEW s \in Text PROVE piece(k, s) \in Text
  <2>1. cs[order[k]] \in Spot /\ CursorIn(cs[order[k]], text)
    <3>1. order[k] \in 1..n
      BY <1>2
    <3> QED  BY <1>1, <3>1 DEF SpotsWithin, CursorIn
  <2>2. Selected(text, cs[order[k]]) \in Text
    BY <2>1, SelectedIs
  <2>3. (IF s = nothing THEN s ELSE Append(s, NL)) \in Text
    <3> HIDE DEF nothing
    <3> QED  BY TextsJoin
  <2> QED  BY <2>2, <2>3, TextsJoin
<1>4. nothing \in Text
  BY NothingIs
<1>5. \A k \in 1..n : \A s \in Text : next[k][s] = piece(k, s)
  <2> HIDE DEF piece
  <2> QED  OBVIOUS
<1> HIDE DEF next, piece, nothing
<1>6. /\ \E g : Staged(g, n, nothing, next) /\ g \in [0..n -> Text]
      /\ \A h : Proceeds(h, n, nothing, next, Text) => \A k \in 0..n : h[k] \in Text
  <2>1. \A k \in 1..n : \A s \in Text : next[k][s] \in Text
    BY <1>3, <1>5
  <2> QED  BY <1>4, <2>1, Recursive
<1>7. PICK g : Is(g)
  <2>1. PICK g \in [0..n -> Text] : g = [k \in 0..n |-> IF k = 0 THEN nothing ELSE next[k][g[k - 1]]]
    BY <1>6 DEF Staged
  <2>2. \A k \in 0..n : k # 0 => next[k][g[k - 1]] = piece(k, g[k - 1])
    <3>1. ASSUME NEW k \in 0..n, k # 0 PROVE k \in 1..n /\ g[k - 1] \in Text
      <4>1. k \in 1..n /\ k - 1 \in 0..n
        BY <3>1
      <4>2. g \in [0..n -> Text]
        BY <2>1
      <4> QED  BY <4>1, <4>2
    <3> QED  BY <1>5, <3>1
  <2>3. g = [k \in 0..n |-> IF k = 0 THEN nothing ELSE piece(k, g[k - 1])]
    BY <2>1, <2>2
  <2>4. Is(g)
    BY <1>1, <2>3
  <2> QED  BY <2>4
<1>8. Is(CHOOSE h : Is(h))
  BY <1>7
<1> DEFINE r == CHOOSE h : Is(h)
<1>9. SelectedText(cs) = r[n]
  BY <1>1 DEF SelectedText, order, piece, nothing
<1>10. r[0] = nothing /\ \A k \in 1..n : r[k] = piece(k, r[k - 1])
  <2> HIDE DEF r
  <2>1. Is(r)
    BY <1>8 DEF r
  <2>2. 0 \in 0..n /\ \A k \in 1..n : k \in 0..n /\ k # 0
    OBVIOUS
  <2> QED  BY <1>1, <2>1, <2>2
<1> HIDE DEF r
<1>11. Proceeds(r, n, nothing, next, Text)
  BY <1>5, <1>10 DEF Proceeds
<1>12. n \in 0..n
  OBVIOUS
<1> QED  BY <1>6, <1>9, <1>11, <1>12

Gathered(n, ranges, fresh) ==
    LET parts[k \in 0 .. n] ==
            IF k = 0 THEN <<>> ELSE parts[k - 1] \o IF k \in fresh THEN Selected(text, ranges[k]) ELSE <<>>
    IN parts[n]

LEMMA GatheredIs ==
  ASSUME text \in Text, NEW n \in Nat, NEW ranges \in [1..n -> Spot], NEW fresh,
         \A k \in 1..n : CursorIn(ranges[k], text)
  PROVE  Gathered(n, ranges, fresh) \in Text /\ (fresh = {} => Gathered(n, ranges, fresh) = <<>>)
<1> DEFINE nothing == <<>>
           piece(k, s) == s \o IF k \in fresh THEN Selected(text, ranges[k]) ELSE nothing
           D == {s \in Text : fresh = {} => s = nothing}
           next == [k \in 1..n |-> [s \in D |-> piece(k, s)]]
           Is(h) == h = [k \in 0..n |-> IF k = 0 THEN nothing ELSE piece(k, h[k - 1])]
<1>1. nothing \in D
  BY NothingIs
<1>2. ASSUME NEW k \in 1..n, NEW s \in D PROVE piece(k, s) \in D
  <2>1. Selected(text, ranges[k]) \in Text
    BY SelectedIs
  <2>2. piece(k, s) \in Text
    <3>1. nothing \in Text
      BY NothingIs
    <3> HIDE DEF nothing
    <3> QED  BY <2>1, <3>1, TextsJoin
  <2>3. ASSUME fresh = {} PROVE piece(k, s) = nothing
    BY <2>3
  <2> HIDE DEF piece, nothing
  <2> QED  BY <2>2, <2>3
<1>3. \A k \in 1..n : \A s \in D : next[k][s] = piece(k, s)
  <2> HIDE DEF piece, D
  <2> QED  OBVIOUS
<1>4. D \subseteq Text /\ \A s \in D : fresh = {} => s = nothing
  OBVIOUS
<1> HIDE DEF next, piece, nothing, D
<1>5. /\ \E g : Staged(g, n, nothing, next) /\ g \in [0..n -> D]
      /\ \A h : Proceeds(h, n, nothing, next, D) => \A k \in 0..n : h[k] \in D
  <2>1. \A k \in 1..n : \A s \in D : next[k][s] \in D
    BY <1>2, <1>3
  <2> QED  BY <1>1, <2>1, Recursive
<1>6. PICK g : Is(g)
  <2>1. PICK g \in [0..n -> D] : g = [k \in 0..n |-> IF k = 0 THEN nothing ELSE next[k][g[k - 1]]]
    BY <1>5 DEF Staged
  <2>2. \A k \in 0..n : k # 0 => next[k][g[k - 1]] = piece(k, g[k - 1])
    <3>1. \A k \in 0..n : k # 0 => k \in 1..n /\ g[k - 1] \in D
      BY <2>1
    <3> QED  BY <1>3, <3>1
  <2>3. g = [k \in 0..n |-> IF k = 0 THEN nothing ELSE piece(k, g[k - 1])]
    BY <2>1, <2>2
  <2> QED  BY <2>3
<1>7. Is(CHOOSE h : Is(h))
  BY <1>6
<1> DEFINE r == CHOOSE h : Is(h)
<1>8. Gathered(n, ranges, fresh) = r[n]
  BY DEF Gathered, piece, nothing
<1>9. r[0] = nothing /\ \A k \in 1..n : r[k] = piece(k, r[k - 1])
  <2> HIDE DEF r
  <2>1. Is(r)
    BY <1>7 DEF r
  <2>2. 0 \in 0..n /\ \A k \in 1..n : k \in 0..n /\ k # 0
    OBVIOUS
  <2> QED  BY <2>1, <2>2
<1> HIDE DEF r
<1>10. Proceeds(r, n, nothing, next, D)
  BY <1>3, <1>9 DEF Proceeds
<1>11. n \in 0..n
  OBVIOUS
<1>12. r[n] \in D
  BY <1>5, <1>10, <1>11
<1> QED  BY <1>4, <1>8, <1>12 DEF nothing

-----------------------------------------------------------------------------
(* The lines cut, from the bottom up.                                       *)
Stripped(n, ranges, fresh, base) ==
    LET removed[k \in 0 .. n] ==
            IF k = 0 THEN base
            ELSE LET e == removed[k - 1] IN IF n - k + 1 \in fresh THEN RemoveSelected(e, n + n - k + 1) ELSE e
    IN removed[n]

LEMMA StrippedIs ==
  ASSUME NEW n \in Nat, NEW ranges \in [1..n -> Spot], NEW base \in Docs(n + n),
         \A k \in 1..n : base.cursors[n + k] = ranges[k],
         NEW fresh, fresh \subseteq 1..n, \A k \in fresh : HasSelection(ranges[k])
  PROVE  /\ Stripped(n, ranges, fresh, base) \in Docs(n + n)
         /\ fresh # {} => Stripped(n, ranges, fresh, base).touched
<1> DEFINE step(k, e) == IF n - k + 1 \in fresh THEN RemoveSelected(e, n + n - k + 1) ELSE e
           good == [k \in 0..n |-> {e \in Docs(n + n) : \/ e = base /\ \A j \in fresh : j <= n - k
                                                        \/ e.touched}]
           next == [k \in 1..n |-> [e \in Docs(n + n) |-> step(k, e)]]
           Is(h) == h = [k \in 0..n |-> IF k = 0 THEN base ELSE step(k, h[k - 1])]
<1>1. base \in good[0]
  OBVIOUS
<1>2. ASSUME NEW k \in 1..n, NEW e \in good[k - 1] PROVE step(k, e) \in good[k]
  <2>1. k - 1 \in 0..n /\ k \in 0..n /\ n - (k - 1) = n - k + 1
    OBVIOUS
  <2>2. e \in Docs(n + n) /\ (e.touched \/ (e = base /\ \A j \in fresh : j <= n - k + 1))
    BY <2>1
  <2>3. CASE ~(n - k + 1 \in fresh)
    <3>1. \A j \in fresh : j <= n - k + 1 => j <= n - k
      BY <2>3
    <3>2. step(k, e) = e
      BY <2>3
    <3> HIDE DEF step
    <3> QED  BY <2>1, <2>2, <3>1, <3>2
  <2>4. CASE n - k + 1 \in fresh
    <3>1. PICK i \in 1..(n + n) : i = n + (n - k + 1) /\ i = n + n - k + 1
      OBVIOUS
    <3>2. n + n \in Nat
      OBVIOUS
    <3>3. /\ RemoveSelected(e, i) \in Docs(n + n)
          /\ RemoveSelected(e, i).touched = (e.touched \/ SelStart(e.cursors[i]) < SelEnd(e.cursors[i]))
      BY <2>2, <3>2, RemoveSelectedIs
    <3>4. e = base => SelStart(e.cursors[i]) < SelEnd(e.cursors[i])
      <4>1. n - k + 1 \in 1..n
        BY <2>4
      <4>2. base.cursors[i] = ranges[n - k + 1] /\ ranges[n - k + 1] \in Spot
        BY <3>1, <4>1
      <4>3. HasSelection(ranges[n - k + 1])
        BY <2>4
      <4> QED  BY <4>2, <4>3, Ends
    <3>5. step(k, e) = RemoveSelected(e, i)
      BY <2>4, <3>1
    <3>6. RemoveSelected(e, i).touched
      BY <2>2, <3>3, <3>4
    <3> HIDE DEF step
    <3> QED  BY <2>1, <3>3, <3>5, <3>6
  <2> QED  BY <2>3, <2>4
<1>3. \A k \in 1..n : \A e \in Docs(n + n) : next[k][e] = step(k, e)
  <2> HIDE DEF step
  <2> QED  OBVIOUS
<1>4. /\ \A k \in 0..n : good[k] \subseteq Docs(n + n)
      /\ \A e \in good[n] : fresh # {} => e.touched
  <2>1. \A j \in fresh : ~(j <= n - n)
    OBVIOUS
  <2>2. n \in 0..n
    OBVIOUS
  <2> QED  BY <2>1, <2>2
<1> HIDE DEF step, next, good
<1>5. /\ \E g : Staged(g, n, base, next) /\ \A k \in 0..n : g[k] \in good[k]
      /\ \A h : Climbs(h, n, base, next, good) => \A k \in 0..n : h[k] \in good[k]
  <2>1. \A k \in 1..n : \A e \in good[k - 1] : next[k][e] \in good[k]
    <3>1. \A k \in 1..n : k - 1 \in 0..n
      OBVIOUS
    <3> QED  BY <1>2, <1>3, <1>4, <3>1
  <2> QED  BY <1>1, <2>1, StagedRecursion
<1>6. PICK g : Is(g)
  <2>1. PICK g : g = [k \in 0..n |-> IF k = 0 THEN base ELSE next[k][g[k - 1]]] /\ \A k \in 0..n : g[k] \in good[k]
    BY <1>5 DEF Staged
  <2>2. \A k \in 0..n : k # 0 => next[k][g[k - 1]] = step(k, g[k - 1])
    <3>1. \A k \in 0..n : k # 0 => k \in 1..n /\ k - 1 \in 0..n
      OBVIOUS
    <3> QED  BY <1>3, <1>4, <2>1, <3>1
  <2>3. g = [k \in 0..n |-> IF k = 0 THEN base ELSE step(k, g[k - 1])]
    BY <2>1, <2>2
  <2> QED  BY <2>3
<1>7. Is(CHOOSE h : Is(h))
  BY <1>6
<1> DEFINE r == CHOOSE h : Is(h)
<1>8. Stripped(n, ranges, fresh, base) = r[n]
  BY DEF Stripped, step
<1>9. r[0] = base /\ \A k \in 1..n : r[k] = step(k, r[k - 1])
  <2> HIDE DEF r
  <2>1. Is(r)
    BY <1>7 DEF r
  <2>2. 0 \in 0..n /\ \A k \in 1..n : k \in 0..n /\ k # 0
    OBVIOUS
  <2> QED  BY <2>1, <2>2
<1> HIDE DEF r
<1>10. Climbs(r, n, base, next, good)
  <2>1. \A k \in 1..n : k - 1 \in 0..n
    OBVIOUS
  <2> QED  BY <1>3, <1>4, <1>9, <2>1 DEF Climbs
<1>11. r[n] \in good[n] /\ n \in 0..n
  BY <1>5, <1>10
<1> QED  BY <1>4, <1>8, <1>11

Cutting(d, z) ==
    /\ z \in Set(Len(d.text)) /\ Apart(z.cursors)
    /\ Edited(d)
    /\ SyncToNative(z)
    /\ IF IsMultiple(Refreshed.cursors) THEN Record(Refreshed.cursors, z.cursors, d) ELSE ClearHistories

LEMMA CutLinesIs ==
  ASSUME text \in Text, Refreshed \in Set(Len(text)), CutLines
  PROVE  \E n \in Nat : \E d \in Docs(n) : \E z : d.touched /\ Cutting(d, z) /\ clipboard' \in Text
<1> DEFINE cs == Refreshed.cursors
           n == Len(cs)
           order == Ascending(cs)
           ranges == [k \in 1..n |-> lineRangeForCut(text, cs[order[k]])]
           fresh == {k \in DOMAIN ranges : /\ HasSelection(ranges[k])
                                           /\ k = 1 \/ SelStart(ranges[k]) # SelStart(ranges[k - 1])}
           base == Document(text, cs \o ranges)
           cut == Gathered(n, ranges, fresh)
           d == Stripped(n, ranges, fresh, base)
           carets == [i \in 1..n |-> Caret(d.cursors[i].pos)]
           z == MergeOverlapping([cursors |-> carets, main |-> Refreshed.main])
<1>0. /\ cut # <<>>
      /\ clipboard' = IF Last(cut) = NL THEN cut ELSE Append(cut, NL)
      /\ Edited(d) /\ SyncToNative(z)
      /\ IF IsMultiple(cs) THEN Record(cs, z.cursors, d) ELSE ClearHistories
  BY DEF CutLines, Gathered, Stripped
<1>1. n \in Nat /\ n = Len(cs) /\ n >= 1
  BY SetIs DEF Text
<1>2. cs \in Seq(Spot) /\ SpotsWithin(cs, Len(text)) /\ Refreshed.main \in 1..n
  BY <1>1, SetIs DEF Text
<1> HIDE DEF cs, n
<1>3. \A k \in 1..n : order[k] \in 1..n
  <2>1. order \in Orders(n, n)
    BY <1>1, <1>2, AscendingIs
  <2> HIDE DEF order
  <2> QED  BY <2>1 DEF Orders
<1> HIDE DEF order
<1>4. ranges \in [1..n -> Spot] /\ \A k \in 1..n : CursorIn(ranges[k], text)
  <2>1. \A k \in 1..n : lineRangeForCut(text, cs[order[k]]) \in Spot /\ CursorIn(lineRangeForCut(text, cs[order[k]]), text)
    <3> SUFFICES ASSUME NEW k \in 1..n
                 PROVE  lineRangeForCut(text, cs[order[k]]) \in Spot /\ CursorIn(lineRangeForCut(text, cs[order[k]]), text)
      OBVIOUS
    <3>1. order[k] \in 1..Len(cs)
      BY <1>1, <1>3
    <3>2. cs[order[k]] \in Spot /\ CursorIn(cs[order[k]], text)
      BY <1>2, <3>1 DEF SpotsWithin, CursorIn
    <3> QED  BY <3>2, CutRangeIs
  <2> QED  BY <2>1
<1>6. fresh \subseteq 1..n /\ \A k \in fresh : HasSelection(ranges[k])
  BY <1>4
<1> HIDE DEF ranges, fresh
<1>7. cut \in Text /\ (fresh = {} => cut = <<>>)
  BY <1>1, <1>4, GatheredIs
<1>8. fresh # {}
  BY <1>0, <1>7
<1>9. base \in Docs(n + n) /\ \A k \in 1..n : base.cursors[n + k] = ranges[k]
  <2>1. ranges \in Seq(Spot) /\ Len(ranges) = n
    BY <1>1, <1>4
  <2> DEFINE u == cs \o ranges
  <2>2. u \in Seq(Spot) /\ Joined(u, cs, ranges)
    BY <1>2, <2>1, Join
  <2> HIDE DEF u
  <2>3. Len(u) = n + n /\ \A i \in 1..(n + n) : u[i] = IF i <= n THEN cs[i] ELSE ranges[i - n]
    BY <1>1, <2>1, <2>2 DEF Joined
  <2>4. SpotsWithin(u, Len(text))
    <3> SUFFICES ASSUME NEW i \in 1..(n + n) PROVE u[i].anchor \in 0..Len(text) /\ u[i].pos \in 0..Len(text)
      BY <2>3 DEF SpotsWithin
    <3>1. CASE i <= n
      <4>1. i \in 1..Len(cs) /\ u[i] = cs[i]
        BY <1>1, <2>3, <3>1
      <4> QED  BY <1>2, <4>1 DEF SpotsWithin
    <3>2. CASE ~(i <= n)
      <4>1. i - n \in 1..n /\ u[i] = ranges[i - n]
        BY <1>1, <2>3, <3>2
      <4> QED  BY <1>4, <4>1 DEF CursorIn
    <3> QED  BY <3>1, <3>2
  <2>5. base \in Docs(n + n) /\ base.cursors = u
    BY <2>2, <2>3, <2>4, DocumentIs DEF u
  <2>6. \A k \in 1..n : n + k \in 1..(n + n) /\ ~(n + k <= n) /\ n + k - n = k
    BY <1>1
  <2> HIDE DEF base
  <2>7. \A k \in 1..n : u[n + k] = ranges[k]
    BY <1>1, <2>3, <2>6
  <2> QED  BY <2>5, <2>7
<1> HIDE DEF base
<1>10. d \in Docs(n + n) /\ d.touched
  BY <1>1, <1>4, <1>6, <1>8, <1>9, StrippedIs
<1> HIDE DEF d, cut
<1>11. [cursors |-> carets, main |-> Refreshed.main] \in Set(Len(d.text))
  <2>1. \A i \in 1..n : i \in 1..(n + n)
    BY <1>1
  <2>2. n + n \in Nat
    BY <1>1
  <2>3. \A i \in 1..n : d.cursors[i].pos \in 0..Len(d.text)
    BY <1>10, <2>1, <2>2, DocIs
  <2>4. \A i \in 1..n : /\ Caret(d.cursors[i].pos) \in Spot
                        /\ Caret(d.cursors[i].pos).anchor \in 0..Len(d.text)
                        /\ Caret(d.cursors[i].pos).pos \in 0..Len(d.text)
    BY <2>3 DEF Caret, Cursor, Spot
  <2>5. carets \in Seq(Spot) /\ Len(carets) = n /\ SpotsWithin(carets, Len(d.text))
    <3>1. carets \in [1..n -> Spot]
      BY <2>4
    <3>2. \A i \in 1..n : carets[i] = Caret(d.cursors[i].pos)
      OBVIOUS
    <3> HIDE DEF carets
    <3>3. carets \in Seq(Spot) /\ Len(carets) = n
      BY <1>1, <3>1
    <3> QED  BY <2>4, <3>2, <3>3 DEF SpotsWithin
  <2> HIDE DEF carets
  <2>6. Len(d.text) \in Nat
    BY <1>10, <2>2, DocIs
  <2>7. carets # <<>>
    BY <1>1, <2>5
  <2> QED  BY <1>2, <2>5, <2>6, <2>7, MakeSet
<1>12. z \in Set(Len(d.text)) /\ Apart(z.cursors)
  <2> DEFINE y == [cursors |-> carets, main |-> Refreshed.main]
  <2>1. y \in Set(Len(d.text)) /\ Len(d.text) \in Nat
    <3>1. n + n \in Nat
      BY <1>1
    <3> QED  BY <1>10, <1>11, <3>1, DocIs
  <2> HIDE DEF y
  <2>2. MergeOverlapping(y) \in Set(Len(d.text)) /\ Apart(MergeOverlapping(y).cursors)
    BY <2>1, MergeIs
  <2> QED  BY <2>2 DEF y
<1> HIDE DEF z
<1>13. clipboard' \in Text
  BY <1>0, <1>7, TextsJoin
<1>14. Cutting(d, z)
  BY <1>0, <1>12 DEF Cutting, cs
<1>15. n + n \in Nat
  BY <1>1
<1> QED  BY <1>10, <1>13, <1>14, <1>15

-----------------------------------------------------------------------------
(* An edit that has not touched a document has left its text as it was.     *)
Untouched(d, e) == (d.touched => e.touched) /\ (~e.touched => e.text = d.text)

LEMMA SameText ==
  ASSUME NEW t \in Text, NEW from \in 0..Len(t), NEW s \in Text, Len(s) = 0, NEW u, Spliced(u, t, from, s, from)
  PROVE  u = t
<1>1. PICK n \in Nat : n = Len(t)
  BY DEF Text
<1>2. u \in Seq(Char) /\ Len(u) = n
  BY <1>1 DEF Spliced, Text
<1>3. \A k \in 1..n : u[k] = t[k]
  <2> SUFFICES ASSUME NEW k \in 1..n PROVE u[k] = t[k]
    OBVIOUS
  <2>1. u[k] = IF k <= from THEN t[k] ELSE IF k <= from + 0 THEN s[k - from] ELSE t[k - from - 0 + from]
    BY <1>2 DEF Spliced
  <2>2. k - from - 0 + from = k /\ from + 0 = from
    BY <1>1
  <2> QED  BY <2>1, <2>2
<1> QED  BY <1>1, <1>2, <1>3 DEF Text

LEMMA StillDeleted ==
  ASSUME NEW n \in Nat, NEW d \in Docs(n), NEW from \in 0..Len(d.text), NEW to \in 0..Len(d.text), from <= to
  PROVE  Delete(d, from, to) \in Docs(n) /\ Untouched(d, Delete(d, from, to))
<1> DEFINE e == Delete(d, from, to)
           none == <<>>
<1>1. PICK t \in Text, N \in Nat : t = d.text /\ N = Len(t)
  BY DocIs
<1>2. e \in Docs(n) /\ Spliced(e.text, t, from, none, to) /\ e.touched = (d.touched \/ from < to)
  BY <1>1, DeleteIs
<1>3. none \in Text /\ Len(none) = 0
  BY NothingIs
<1> HIDE DEF e, none
<1>4. ~e.touched => e.text = t
  <2> SUFFICES ASSUME ~e.touched PROVE e.text = t
    OBVIOUS
  <2>2. ~(from < to)
    BY <1>2, Zenon
  <2>3. from \in 0..N /\ to \in 0..N
    BY <1>1
  <2>1. from = to
    BY <2>2, <2>3
  <2> QED  BY <1>1, <1>2, <1>3, <2>1, SameText
<1> QED  BY <1>1, <1>2, <1>4 DEF Untouched, e

LEMMA StillInserted ==
  ASSUME NEW n \in Nat, NEW d \in Docs(n), NEW place \in 0..Len(d.text), NEW s \in Text
  PROVE  Insert(d, place, s) \in Docs(n) /\ Untouched(d, Insert(d, place, s))
<1> DEFINE e == Insert(d, place, s)
<1>1. PICK t \in Text, N \in Nat : t = d.text /\ N = Len(t)
  BY DocIs
<1>2. e \in Docs(n) /\ Spliced(e.text, t, place, s, place) /\ e.touched = (d.touched \/ s # <<>>)
  BY <1>1, InsertIs
<1> HIDE DEF e
<1>3. ~e.touched => e.text = t
  <2> SUFFICES ASSUME ~e.touched PROVE e.text = t
    OBVIOUS
  <2>2. ~(s # <<>>)
    BY <1>2, Zenon
  <2>1. Len(s) = 0
    BY <2>2
  <2> QED  BY <1>1, <1>2, <2>1, SameText
<1> QED  BY <1>1, <1>2, <1>3 DEF Untouched, e

LEMMA StillSame ==
  ASSUME NEW d
  PROVE  Untouched(d, d)
BY DEF Untouched

LEMMA StillBoth ==
  ASSUME NEW d, NEW e, NEW f, Untouched(d, e), Untouched(e, f)
  PROVE  Untouched(d, f)
BY DEF Untouched

LEMMA StillRemoved ==
  ASSUME NEW n \in Nat, NEW d \in Docs(n), NEW i \in 1..n
  PROVE  RemoveSelected(d, i) \in Docs(n) /\ Untouched(d, RemoveSelected(d, i))
<1>1. /\ SelStart(d.cursors[i]) \in 0..Len(d.text) /\ SelEnd(d.cursors[i]) \in 0..Len(d.text)
      /\ SelStart(d.cursors[i]) <= SelEnd(d.cursors[i])
  BY RemoveSelectedIs
<1> QED  BY <1>1, StillDeleted DEF RemoveSelected

LEMMA StillTyped ==
  ASSUME NEW n \in Nat, NEW d \in Docs(n), NEW i \in 1..n, NEW s \in Text
  PROVE  Untouched(d, InsertText(d, i, s))
<1>1. PICK e \in Docs(n) : e = RemoveSelected(d, i) /\ Untouched(d, e)
  BY StillRemoved
<1>2. e.cursors[i].pos \in 0..Len(e.text)
  BY DocIs
<1>3. Untouched(e, Insert(e, e.cursors[i].pos, s))
  BY <1>2, StillInserted
<1> QED  BY <1>1, <1>3, StillBoth DEF InsertText

LEMMA StillOneLess ==
  ASSUME NEW n \in Nat, NEW d \in Docs(n), NEW i \in 1..n
  PROVE  Untouched(d, DeleteChar(d, i)) /\ Untouched(d, DeletePreviousChar(d, i))
<1>1. PICK N \in Nat, p \in Nat : N = Len(d.text) /\ p = d.cursors[i].pos /\ p \in 0..N
  BY DocIs
<1>2. p < N => Untouched(d, Delete(d, p, p + 1))
  <2> SUFFICES ASSUME p < N PROVE Untouched(d, Delete(d, p, p + 1))
    OBVIOUS
  <2>1. p + 1 \in 0..N /\ p \in 0..N /\ p <= p + 1
    BY <1>1
  <2> QED  BY <1>1, <2>1, StillDeleted
<1>3. p > 0 => Untouched(d, Delete(d, p - 1, p))
  <2> SUFFICES ASSUME p > 0 PROVE Untouched(d, Delete(d, p - 1, p))
    OBVIOUS
  <2>1. p - 1 \in 0..N /\ p \in 0..N /\ p - 1 <= p
    BY <1>1
  <2> QED  BY <1>1, <2>1, StillDeleted
<1> QED  BY <1>1, <1>2, <1>3, StillSame DEF DeleteChar, DeletePreviousChar

LEMMA StillKeys ==
  ASSUME NEW n \in Nat, NEW d \in Docs(n), NEW i \in 1..n, NEW s \in Text
  PROVE  /\ Untouched(d, BackspaceAt(d, i)) /\ Untouched(d, DeleteAt(d, i)) /\ Untouched(d, CutAt(d, i))
         /\ Untouched(d, Overtype(d, i, s))
<1>1. Untouched(d, BackspaceAt(d, i))
  <2>1. SmartBackspaceApplies(d, i) => Untouched(d, applySmartBackspace(d, i))
    BY SmartBackspaceIs, StillDeleted
  <2> QED  BY <2>1, StillRemoved, StillOneLess DEF BackspaceAt
<1>2. Untouched(d, DeleteAt(d, i)) /\ Untouched(d, CutAt(d, i))
  BY StillRemoved, StillOneLess, StillSame DEF DeleteAt, CutAt
<1>3. Untouched(d, Overtype(d, i, s))
  <2> DEFINE p == d.cursors[i].pos
             e == IF HasSelection(d.cursors[i]) THEN RemoveSelected(d, i)
                  ELSE IF _overwriteMode /\ p < LineEnd(d.text, p) THEN DeleteChar(d, i) ELSE d
  <2>1. e \in Docs(n) /\ Untouched(d, e)
    BY StillRemoved, StillOneLess, StillSame, DeleteCharIs
  <2>2. Overtype(d, i, s) = InsertText(e, i, s)
    BY DEF Overtype
  <2> HIDE DEF e
  <2>3. Untouched(e, InsertText(e, i, s))
    BY <2>1, StillTyped
  <2> QED  BY <2>1, <2>2, <2>3, StillBoth
<1> QED  BY <1>1, <1>2, <1>3

-----------------------------------------------------------------------------
(* The histories and the document's stacks.  Back: the entries of the undo  *)
(* history are the latest steps the document can undo, and each leads on to *)
(* the next, the last one to the text; Forth: the same for redo.            *)
Entries == {e \in [pre : Seq(Spot), post : Seq(Spot), before : Text, after : Text] :
    /\ e.pre # <<>> /\ SpotsWithin(e.pre, Len(e.before))
    /\ e.post # <<>> /\ SpotsWithin(e.post, Len(e.after)) /\ Apart(e.post)}

Back(t, h, stack) ==
    /\ Len(h) <= Len(stack)
    /\ \A k \in 1..Len(h) : /\ h[k].before = stack[k + (Len(stack) - Len(h))]
                            /\ h[k].after = IF k = Len(h) THEN t ELSE h[k + 1].before
Forth(t, h, stack) ==
    /\ Len(h) <= Len(stack)
    /\ \A k \in 1..Len(h) : /\ h[k].after = stack[k + (Len(stack) - Len(h))]
                            /\ h[k].before = IF k = Len(h) THEN t ELSE h[k + 1].after

LEMMA NoHistory ==
  ASSUME NEW t, NEW stack \in Seq(Text)
  PROVE  Back(t, <<>>, stack) /\ Forth(t, <<>>, stack)
<1> DEFINE none == <<>>
<1>1. Len(none) = 0
  OBVIOUS
<1> HIDE DEF none
<1>2. Len(stack) \in Nat
  OBVIOUS
<1>3. Back(t, none, stack) /\ Forth(t, none, stack)
  BY <1>1, <1>2 DEF Back, Forth
<1> QED  BY <1>3 DEF none

(* An edit more.                                                            *)
LEMMA BackMore ==
  ASSUME NEW t \in Text, NEW u, NEW h \in Seq(Entries), NEW stack \in Seq(Text), NEW e \in Entries,
         Back(t, h, stack), e.before = t, e.after = u
  PROVE  Back(u, Append(h, e), Append(stack, t))
<1>1. PICK n \in Nat, m \in Nat : n = Len(h) /\ m = Len(stack)
  OBVIOUS
<1> DEFINE g == Append(h, e)
           s == Append(stack, t)
<1>2. Len(g) = n + 1 /\ g[n + 1] = e /\ \A k \in 1..n : g[k] = h[k]
  BY <1>1
<1>3. Len(s) = m + 1 /\ s[m + 1] = t /\ \A k \in 1..m : s[k] = stack[k]
  BY <1>1
<1> HIDE DEF g, s
<1>4. n <= m /\ \A k \in 1..n : h[k].before = stack[k + (m - n)] /\ h[k].after = IF k = n THEN t ELSE h[k + 1].before
  BY <1>1 DEF Back
<1>5. \A k \in 1..(n + 1) : /\ g[k].before = s[k + (m + 1 - (n + 1))]
                            /\ g[k].after = IF k = n + 1 THEN u ELSE g[k + 1].before
  <2> SUFFICES ASSUME NEW k \in 1..(n + 1)
               PROVE  /\ g[k].before = s[k + (m + 1 - (n + 1))]
                      /\ g[k].after = IF k = n + 1 THEN u ELSE g[k + 1].before
    OBVIOUS
  <2>1. PICK p \in Int : p = k + (m - n) /\ p = k + (m + 1 - (n + 1))
    BY <1>4
  <2>2. CASE k = n + 1
    <3>1. p = m + 1
      BY <2>1, <2>2
    <3> QED  BY <1>2, <1>3, <2>1, <2>2, <3>1
  <2>3. CASE k # n + 1
    <3>1. k \in 1..n /\ p \in 1..m
      BY <1>4, <2>1, <2>3
    <3>2. g[k].before = s[p]
      BY <1>2, <1>3, <1>4, <2>1, <3>1
    <3>3. k # n => k + 1 \in 1..n
      BY <3>1
    <3>4. g[k].after = g[k + 1].before
      <4>1. CASE k = n
        BY <1>2, <1>4, <3>1, <4>1
      <4>2. CASE k # n
        BY <1>2, <1>4, <3>1, <3>3, <4>2
      <4> QED  BY <4>1, <4>2
    <3> QED  BY <2>1, <2>3, <3>2, <3>4
  <2> QED  BY <2>2, <2>3
<1>6. n + 1 <= m + 1
  BY <1>4
<1>7. Back(u, g, s)
  BY <1>2, <1>3, <1>5, <1>6 DEF Back
<1> QED  BY <1>7 DEF g, s

(* An edit less.                                                            *)
LEMMA BackLess ==
  ASSUME NEW t \in Text, NEW h \in Seq(Entries), NEW stack \in Seq(Text), Back(t, h, stack), h # <<>>
  PROVE  /\ stack # <<>> /\ Last(stack) = Last(h).before /\ Last(h).after = t
         /\ Back(Last(h).before, Front(h), Front(stack))
<1>1. PICK n \in Nat, m \in Nat : n = Len(h) /\ m = Len(stack)
  OBVIOUS
<1>2. n >= 1 /\ n <= m
  BY <1>1 DEF Back
<1>3. stack # <<>>
  BY <1>1, <1>2
<1> DEFINE g == Front(h)
           s == Front(stack)
<1>4. Last(h) = h[n] /\ Len(g) = n - 1 /\ \A k \in 1..(n - 1) : g[k] = h[k]
  BY <1>1, FrontIs
<1>5. Last(stack) = stack[m] /\ Len(s) = m - 1 /\ \A k \in 1..(m - 1) : s[k] = stack[k]
  BY <1>1, <1>3, FrontIs
<1> HIDE DEF g, s
<1>6. \A k \in 1..n : h[k].before = stack[k + (m - n)] /\ h[k].after = IF k = n THEN t ELSE h[k + 1].before
  BY <1>1 DEF Back
<1>7. h[n].before = stack[m] /\ h[n].after = t
  <2>1. n \in 1..n /\ n + (m - n) = m
    BY <1>2
  <2> QED  BY <1>6, <2>1
<1>8. \A k \in 1..(n - 1) : /\ g[k].before = s[k + (m - 1 - (n - 1))]
                            /\ g[k].after = IF k = n - 1 THEN Last(h).before ELSE g[k + 1].before
  <2> SUFFICES ASSUME NEW k \in 1..(n - 1)
               PROVE  /\ g[k].before = s[k + (m - 1 - (n - 1))]
                      /\ g[k].after = IF k = n - 1 THEN Last(h).before ELSE g[k + 1].before
    OBVIOUS
  <2>1. PICK p \in 1..(m - 1) : p = k + (m - n) /\ p = k + (m - 1 - (n - 1))
    BY <1>2
  <2>2. k \in 1..n /\ k # n
    OBVIOUS
  <2>3. g[k].before = s[p]
    BY <1>4, <1>5, <1>6, <2>1, <2>2
  <2>4. k = n - 1 => k + 1 = n
    OBVIOUS
  <2>5. k # n - 1 => k + 1 \in 1..(n - 1)
    OBVIOUS
  <2>6. g[k].after = h[k + 1].before
    BY <1>4, <1>6, <2>2
  <2> QED  BY <1>4, <2>1, <2>3, <2>4, <2>5, <2>6
<1>9. n - 1 <= m - 1
  BY <1>2
<1>10. Back(Last(h).before, g, s)
  BY <1>4, <1>5, <1>8, <1>9 DEF Back
<1> QED  BY <1>3, <1>4, <1>5, <1>7, <1>10 DEF g, s

(* The same for redo.                                                       *)
LEMMA ForthMore ==
  ASSUME NEW t \in Text, NEW u, NEW h \in Seq(Entries), NEW stack \in Seq(Text), NEW e \in Entries,
         Forth(t, h, stack), e.after = t, e.before = u
  PROVE  Forth(u, Append(h, e), Append(stack, t))
<1>1. PICK n \in Nat, m \in Nat : n = Len(h) /\ m = Len(stack)
  OBVIOUS
<1> DEFINE g == Append(h, e)
           s == Append(stack, t)
<1>2. Len(g) = n + 1 /\ g[n + 1] = e /\ \A k \in 1..n : g[k] = h[k]
  BY <1>1
<1>3. Len(s) = m + 1 /\ s[m + 1] = t /\ \A k \in 1..m : s[k] = stack[k]
  BY <1>1
<1> HIDE DEF g, s
<1>4. n <= m /\ \A k \in 1..n : h[k].after = stack[k + (m - n)] /\ h[k].before = IF k = n THEN t ELSE h[k + 1].after
  BY <1>1 DEF Forth
<1>5. \A k \in 1..(n + 1) : /\ g[k].after = s[k + (m + 1 - (n + 1))]
                            /\ g[k].before = IF k = n + 1 THEN u ELSE g[k + 1].after
  <2> SUFFICES ASSUME NEW k \in 1..(n + 1)
               PROVE  /\ g[k].after = s[k + (m + 1 - (n + 1))]
                      /\ g[k].before = IF k = n + 1 THEN u ELSE g[k + 1].after
    OBVIOUS
  <2>1. PICK p \in Int : p = k + (m - n) /\ p = k + (m + 1 - (n + 1))
    BY <1>4
  <2>2. CASE k = n + 1
    <3>1. p = m + 1
      BY <2>1, <2>2
    <3> QED  BY <1>2, <1>3, <2>1, <2>2, <3>1
  <2>3. CASE k # n + 1
    <3>1. k \in 1..n /\ p \in 1..m
      BY <1>4, <2>1, <2>3
    <3>2. g[k].after = s[p]
      BY <1>2, <1>3, <1>4, <2>1, <3>1
    <3>3. k # n => k + 1 \in 1..n
      BY <3>1
    <3>4. g[k].before = g[k + 1].after
      <4>1. CASE k = n
        BY <1>2, <1>4, <3>1, <4>1
      <4>2. CASE k # n
        BY <1>2, <1>4, <3>1, <3>3, <4>2
      <4> QED  BY <4>1, <4>2
    <3> QED  BY <2>1, <2>3, <3>2, <3>4
  <2> QED  BY <2>2, <2>3
<1>6. n + 1 <= m + 1
  BY <1>4
<1>7. Forth(u, g, s)
  BY <1>2, <1>3, <1>5, <1>6 DEF Forth
<1> QED  BY <1>7 DEF g, s

LEMMA ForthLess ==
  ASSUME NEW t \in Text, NEW h \in Seq(Entries), NEW stack \in Seq(Text), Forth(t, h, stack), h # <<>>
  PROVE  /\ stack # <<>> /\ Last(stack) = Last(h).after /\ Last(h).before = t
         /\ Forth(Last(h).after, Front(h), Front(stack))
<1>1. PICK n \in Nat, m \in Nat : n = Len(h) /\ m = Len(stack)
  OBVIOUS
<1>2. n >= 1 /\ n <= m
  BY <1>1 DEF Forth
<1>3. stack # <<>>
  BY <1>1, <1>2
<1> DEFINE g == Front(h)
           s == Front(stack)
<1>4. Last(h) = h[n] /\ Len(g) = n - 1 /\ \A k \in 1..(n - 1) : g[k] = h[k]
  BY <1>1, FrontIs
<1>5. Last(stack) = stack[m] /\ Len(s) = m - 1 /\ \A k \in 1..(m - 1) : s[k] = stack[k]
  BY <1>1, <1>3, FrontIs
<1> HIDE DEF g, s
<1>6. \A k \in 1..n : h[k].after = stack[k + (m - n)] /\ h[k].before = IF k = n THEN t ELSE h[k + 1].after
  BY <1>1 DEF Forth
<1>7. h[n].after = stack[m] /\ h[n].before = t
  <2>1. n \in 1..n /\ n + (m - n) = m
    BY <1>2
  <2> QED  BY <1>6, <2>1
<1>8. \A k \in 1..(n - 1) : /\ g[k].after = s[k + (m - 1 - (n - 1))]
                            /\ g[k].before = IF k = n - 1 THEN Last(h).after ELSE g[k + 1].after
  <2> SUFFICES ASSUME NEW k \in 1..(n - 1)
               PROVE  /\ g[k].after = s[k + (m - 1 - (n - 1))]
                      /\ g[k].before = IF k = n - 1 THEN Last(h).after ELSE g[k + 1].after
    OBVIOUS
  <2>1. PICK p \in 1..(m - 1) : p = k + (m - n) /\ p = k + (m - 1 - (n - 1))
    BY <1>2
  <2>2. k \in 1..n /\ k # n
    OBVIOUS
  <2>3. g[k].after = s[p]
    BY <1>4, <1>5, <1>6, <2>1, <2>2
  <2>4. k = n - 1 => k + 1 = n
    OBVIOUS
  <2>5. k # n - 1 => k + 1 \in 1..(n - 1)
    OBVIOUS
  <2>6. g[k].before = h[k + 1].after
    BY <1>4, <1>6, <2>2
  <2> QED  BY <1>4, <2>1, <2>3, <2>4, <2>5, <2>6
<1>9. n - 1 <= m - 1
  BY <1>2
<1>10. Forth(Last(h).after, g, s)
  BY <1>4, <1>5, <1>8, <1>9 DEF Forth
<1> QED  BY <1>3, <1>4, <1>5, <1>7, <1>10 DEF g, s

-----------------------------------------------------------------------------
(* The inductive invariant of the editor: every cursor is within the text,  *)
(* every snapshot within the text it belongs to, and the histories are in   *)
(* step with the document's stacks while none has strayed.                  *)
Placed ==
    /\ text \in Text
    /\ cursors \in Seq(Spot) /\ cursors # <<>> /\ SpotsWithin(cursors, Len(text))
    /\ mainIndex \in 1..Len(cursors)
    /\ native \in Spot /\ CursorIn(native, text)
Stacked == undoStack \in Seq(Text) /\ redoStack \in Seq(Text)
SnapshotsFit == _multiUndoHistory \in Seq(Entries) /\ _multiRedoHistory \in Seq(Entries)
Flagged ==
    /\ clipboard \in Text
    /\ _overwriteMode \in BOOLEAN /\ _altGesture \in BOOLEAN /\ strayed \in BOOLEAN
    /\ edits \in 0..MaxEdits /\ moves \in 0..MaxMoves
Linked == Back(text, _multiUndoHistory, undoStack) /\ Forth(text, _multiRedoHistory, redoStack)
EditorInv == Placed /\ Stacked /\ SnapshotsFit /\ Flagged /\ (~strayed => Linked)

LEMMA PlacedIs ==
  ASSUME Placed
  PROVE  /\ Typing /\ \E N \in Nat : N = Len(text)
         /\ \E n \in Nat : n = Len(cursors) /\ n >= 1
BY DEF Placed, Typing, Text

LEMMA RefreshedIs ==
  ASSUME Placed
  PROVE  /\ Refreshed \in Set(Len(text))
         /\ ~Multiple => Refreshed.cursors = <<native>> /\ Refreshed.main = 1
<1>1. PICK N \in Nat : N = Len(text)
  BY PlacedIs
<1>2. CASE IsMultiple(cursors)
  <2>1. [cursors |-> cursors, main |-> mainIndex] \in Set(N)
    BY <1>1, MakeSet DEF Placed
  <2> QED  BY <1>1, <1>2, <2>1 DEF Refreshed, Multiple
<1>3. CASE ~IsMultiple(cursors)
  <2>1. [cursors |-> <<native>>, main |-> 1] \in Set(N)
    BY <1>1, OneIs DEF Placed, CursorIn
  <2>2. Refreshed = [cursors |-> <<native>>, main |-> 1]
    BY <1>3 DEF Refreshed
  <2> DEFINE s == <<native>>
  <2> HIDE DEF s
  <2>3. Refreshed = [cursors |-> s, main |-> 1]
    BY <2>2 DEF s
  <2>4. Refreshed.cursors = s /\ Refreshed.main = 1
    BY <2>3
  <2> QED  BY <1>1, <2>1, <2>2, <2>4 DEF s
<1> QED  BY <1>2, <1>3

(* The set and the native cursor brought together.                          *)
LEMMA SyncIs ==
  ASSUME NEW N \in Nat, NEW z \in Set(N), SyncToNative(z), text' \in Text, Len(text') = N
  PROVE  Placed' /\ cursors' = z.cursors /\ native' = cursors'[mainIndex']
<1>1. cursors' = z.cursors /\ mainIndex' = z.main /\ native' = z.cursors[z.main]
  BY DEF SyncToNative
<1>2. PICK cs \in Seq(Spot), n \in Nat, k \in Nat :
        cs = z.cursors /\ k = z.main /\ n = Len(cs) /\ cs # <<>> /\ k \in 1..n /\ SpotsWithin(cs, N)
  BY SetIs
<1>3. cs[k] \in Spot /\ cs[k].anchor \in 0..N /\ cs[k].pos \in 0..N
  BY <1>2 DEF SpotsWithin
<1>4. cursors' = cs /\ mainIndex' = k /\ native' = cs[k]
  BY <1>1, <1>2
<1>5. SpotsWithin(cursors', Len(text'))
  BY <1>2, <1>4
<1>6. CursorIn(native', text')
  BY <1>3, <1>4 DEF CursorIn
<1>7. cursors' \in Seq(Spot) /\ cursors' # <<>> /\ mainIndex' \in 1..Len(cursors') /\ native' \in Spot
  BY <1>2, <1>3, <1>4
<1> QED  BY <1>1, <1>4, <1>5, <1>6, <1>7 DEF Placed, SpotsWithin, CursorIn

LEMMA SyncOneIs ==
  ASSUME NEW c \in Spot, SyncFromNative(c), text' \in Text, CursorIn(c, text')
  PROVE  Placed' /\ Apart(cursors') /\ native' = cursors'[mainIndex']
<1>1. PICK N \in Nat : N = Len(text')
  BY DEF Text
<1> DEFINE z == [cursors |-> <<c>>, main |-> 1]
<1>2. z \in Set(N) /\ Apart(<<c>>)
  BY <1>1, OneIs DEF CursorIn
<1>3. SyncToNative(z)
  BY DEF SyncFromNative
<1>4. z.cursors = <<c>>
  OBVIOUS
<1> HIDE DEF z
<1>5. Placed' /\ cursors' = z.cursors /\ native' = cursors'[mainIndex']
  BY <1>1, <1>2, <1>3, SyncIs
<1>6. Apart(cursors')
  BY <1>2, <1>4, <1>5
<1> QED  BY <1>5, <1>6

(* What every event that edits leaves.                                      *)
LEMMA EditedIs ==
  ASSUME Placed, Stacked, NEW n \in Nat, NEW d \in Docs(n), Edited(d)
  PROVE  /\ text' = d.text /\ text' \in Text /\ Stacked'
         /\ d.touched => undoStack' = Append(undoStack, text) /\ redoStack' = <<>>
         /\ ~d.touched => undoStack' = undoStack /\ redoStack' = redoStack
<1>1. d.text \in Text
  BY DocIs
<1>2. text \in Text /\ undoStack \in Seq(Text) /\ redoStack \in Seq(Text)
  BY DEF Placed, Stacked
<1>3. Append(undoStack, text) \in Seq(Text)
  BY <1>2
<1> DEFINE none == <<>>
<1>4. none \in Seq(Text)
  OBVIOUS
<1> HIDE DEF none
<1>5. /\ text' = d.text
      /\ d.touched => undoStack' = Append(undoStack, text) /\ redoStack' = none
      /\ ~d.touched => undoStack' = undoStack /\ redoStack' = redoStack
  BY DEF Edited, none
<1>6. undoStack' \in Seq(Text) /\ redoStack' \in Seq(Text)
  BY <1>2, <1>3, <1>4, <1>5
<1> QED  BY <1>1, <1>5, <1>6 DEF Stacked, none

LEMMA FlaggedIs ==
  ASSUME Flagged, Edit, clipboard' \in Text, _overwriteMode' \in BOOLEAN, strayed' \in BOOLEAN
  PROVE  Flagged'
<1>1. edits \in 0..MaxEdits /\ edits < MaxEdits /\ edits' = edits + 1 /\ moves' = moves /\ _altGesture' = _altGesture
  BY DEF Flagged, Edit
<1>2. edits' \in 0..MaxEdits
  BY <1>1, EditorAssumption
<1> QED  BY <1>1, <1>2 DEF Flagged

LEMMA ClearedIs ==
  ASSUME ClearHistories, Stacked'
  PROVE  SnapshotsFit' /\ Linked'
<1> DEFINE none == <<>>
<1>1. none \in Seq(Entries)
  OBVIOUS
<1>2. Back(text', none, undoStack') /\ Forth(text', none, redoStack')
  BY NoHistory DEF Stacked
<1> HIDE DEF none
<1>3. _multiUndoHistory' = none /\ _multiRedoHistory' = none
  BY DEF ClearHistories, none
<1> QED  BY <1>1, <1>2, <1>3 DEF SnapshotsFit, Linked, Back, Forth

(* An entry recorded.                                                       *)
LEMMA RecordIs ==
  ASSUME Placed, Stacked, SnapshotsFit, NEW n \in Nat, NEW d \in Docs(n), Edited(d),
         NEW pre \in Seq(Spot), pre # <<>>, SpotsWithin(pre, Len(text)),
         NEW z \in Set(Len(d.text)), Apart(z.cursors), Record(pre, z.cursors, d)
  PROVE  SnapshotsFit' /\ (Linked /\ d.touched => Linked')
<1>1. d.text \in Text /\ Len(d.text) \in Nat
  BY DocIs
<1>2. PICK post \in Seq(Spot) : post = z.cursors /\ post # <<>> /\ SpotsWithin(post, Len(d.text)) /\ Apart(post)
  BY <1>1, SetIs
<1> DEFINE e == [pre |-> pre, post |-> post, before |-> text, after |-> d.text]
           none == <<>>
<1>3. e \in Entries /\ e.before = text /\ e.after = d.text
  BY <1>1, <1>2 DEF Entries, Placed
<1>4. none \in Seq(Entries)
  OBVIOUS
<1>5. _multiUndoHistory' = Append(_multiUndoHistory, e) /\ _multiRedoHistory' = none
  BY <1>2 DEF Record
<1> HIDE DEF e, none
<1>6. SnapshotsFit'
  <2>1. Append(_multiUndoHistory, e) \in Seq(Entries)
    BY <1>3 DEF SnapshotsFit
  <2> QED  BY <1>4, <1>5, <2>1 DEF SnapshotsFit
<1>7. ASSUME Linked, d.touched PROVE Linked'
  <2>1. text' = d.text /\ Stacked' /\ undoStack' = Append(undoStack, text)
    BY <1>7, EditedIs
  <2>2. Back(d.text, Append(_multiUndoHistory, e), Append(undoStack, text))
    BY <1>3, <1>7, BackMore DEF Placed, Stacked, SnapshotsFit, Linked
  <2>3. Back(text', _multiUndoHistory', undoStack')
    BY <1>5, <2>1, <2>2
  <2>4. Forth(text', none, redoStack')
    BY <2>1, NoHistory DEF Stacked, none
  <2>5. Forth(text', _multiRedoHistory', redoStack')
    BY <1>5, <2>4
  <2> QED  BY <2>3, <2>5 DEF Linked, Back, Forth
<1> QED  BY <1>6, <1>7

-----------------------------------------------------------------------------
(* An edit through every cursor.                                            *)
LEMMA MultiEditKeeps ==
  ASSUME EditorInv, Edit, NEW d \in Docs(Len(cursors)), PerformMultiEdit(d), clipboard' \in Text
  PROVE  EditorInv' /\ Apart(cursors') /\ native' = cursors'[mainIndex']
<1>1. PICK n \in Nat : n = Len(cursors) /\ n >= 1
  BY PlacedIs DEF EditorInv
<1>2. d \in Docs(n)
  BY <1>1
<1>3. Edited(d) /\ strayed' = (strayed \/ ~d.touched) /\ _overwriteMode' = _overwriteMode
  BY DEF PerformMultiEdit
<1>4. text' = d.text /\ text' \in Text /\ Stacked'
  BY <1>2, <1>3, EditedIs DEF EditorInv
<1>5. PICK N \in Nat : N = Len(d.text)
  BY <1>2, DocIs
<1> DEFINE y == [cursors |-> d.cursors, main |-> mainIndex]
           z == MergeOverlapping(y)
<1>6. y \in Set(N)
  <2>1. d.cursors \in [1..n -> Spot] /\ \A i \in 1..n : d.cursors[i].anchor \in 0..N /\ d.cursors[i].pos \in 0..N
    BY <1>2, <1>5, DocIs
  <2>2. PICK cs : cs = d.cursors
    OBVIOUS
  <2>3. cs \in Seq(Spot) /\ Len(cs) = n /\ cs # <<>>
    BY <1>1, <2>1, <2>2
  <2>4. SpotsWithin(cs, N)
    BY <2>1, <2>2, <2>3 DEF SpotsWithin
  <2>5. mainIndex \in 1..Len(cs)
    BY <1>1, <2>3 DEF EditorInv, Placed
  <2> QED  BY <2>2, <2>3, <2>4, <2>5, MakeSet
<1> HIDE DEF y
<1>7. z \in Set(N) /\ Apart(z.cursors)
  BY <1>6, MergeIs
<1>8. SyncToNative(z) /\ Record(cursors, z.cursors, d)
  BY DEF PerformMultiEdit, y
<1> HIDE DEF z
<1>9. Placed' /\ cursors' = z.cursors /\ native' = cursors'[mainIndex']
  BY <1>4, <1>5, <1>7, <1>8, SyncIs
<1>10. SnapshotsFit' /\ (Linked /\ d.touched => Linked')
  <2>1. cursors \in Seq(Spot) /\ cursors # <<>> /\ SpotsWithin(cursors, Len(text))
    BY DEF EditorInv, Placed
  <2> QED  BY <1>2, <1>3, <1>5, <1>7, <1>8, <2>1, RecordIs DEF EditorInv
<1>11. ~strayed' => Linked'
  BY <1>3, <1>10, Zenon DEF EditorInv
<1>12. Flagged'
  <2>1. strayed' \in BOOLEAN /\ _overwriteMode' \in BOOLEAN
    BY <1>3 DEF EditorInv, Flagged
  <2> QED  BY <2>1, FlaggedIs DEF EditorInv
<1>13. Apart(cursors')
  BY <1>7, <1>9
<1> QED  BY <1>4, <1>9, <1>10, <1>11, <1>12, <1>13 DEF EditorInv

(* An edit of the editor's own through one cursor.                          *)
LEMMA SingleEditKeeps ==
  ASSUME EditorInv, Edit, NEW d \in Docs(1), SingleCursorEdit(d), clipboard' = clipboard
  PROVE  EditorInv' /\ Apart(cursors') /\ native' = cursors'[mainIndex']
<1>1. Edited(d) /\ SyncFromNative(d.cursors[1]) /\ ClearHistories
      /\ strayed' = strayed /\ _overwriteMode' = _overwriteMode
  BY DEF SingleCursorEdit
<1>2. text' = d.text /\ text' \in Text /\ Stacked'
  BY <1>1, EditedIs DEF EditorInv
<1>3. d.cursors[1] \in Spot /\ CursorIn(d.cursors[1], text')
  BY <1>2, DocIs DEF CursorIn
<1>4. Placed' /\ Apart(cursors') /\ native' = cursors'[mainIndex']
  BY <1>1, <1>2, <1>3, SyncOneIs
<1>5. SnapshotsFit' /\ Linked'
  BY <1>1, <1>2, ClearedIs
<1>6. Flagged'
  BY <1>1, FlaggedIs DEF EditorInv, Flagged
<1> QED  BY <1>2, <1>4, <1>5, <1>6 DEF EditorInv

-----------------------------------------------------------------------------
(* An edit Qt makes through the native cursor.                              *)
Base1 == Document(text, <<native>>)
Base2 == Document(text, Append(Refreshed.cursors, native))

LEMMA Pair ==
  ASSUME NEW S, NEW c \in S
  PROVE  Append(<<c>>, c) = <<c, c>> /\ <<c, c>> \in Seq(S)
<1> DEFINE one == <<c>>
           two == <<c, c>>
<1>1. one \in Seq(S) /\ Len(one) = 1 /\ one[1] = c
  OBVIOUS
<1>2. two \in Seq(S) /\ Len(two) = 2 /\ two[1] = c /\ two[2] = c
  OBVIOUS
<1> HIDE DEF one, two
<1> DEFINE u == Append(one, c)
<1>3. PICK n \in Nat : n = Len(one)
  BY <1>1
<1>4. one \in Seq(S)
  BY <1>1
<1>5. u \in Seq(S) /\ Len(u) = n + 1 /\ u[n + 1] = c /\ \A i \in 1..n : u[i] = one[i]
  BY <1>3, <1>4
<1> HIDE DEF u
<1>6. n + 1 = 2 /\ 1 \in 1..n
  BY <1>1, <1>3
<1>7. u \in Seq(S) /\ Len(u) = 2 /\ u[2] = c /\ u[1] = c
  BY <1>1, <1>5, <1>6
<1>8. Len(u) = 2 /\ u[1] = c /\ u[2] = c
  BY <1>7
<1>9. \A k \in 1..2 : u[k] = two[k]
  <2>1. \A k \in 1..2 : k = 1 \/ k = 2
    OBVIOUS
  <2> QED  BY <1>2, <1>8, <2>1
<1>10. u = two
  <2>1. Len(u) = Len(two) /\ \A k \in 1..Len(u) : u[k] = two[k]
    BY <1>2, <1>8, <1>9
  <2> QED  BY <1>2, <1>7, <2>1, SeqEqual
<1> QED  BY <1>2, <1>10 DEF u, one, two

LEMMA PairSeq ==
  ASSUME NEW S, NEW cs \in [1..2 -> S]
  PROVE  cs \in Seq(S) /\ Len(cs) = 2 /\ cs # <<>>
<1>1. PICK m \in Nat : m = 2
  OBVIOUS
<1>2. cs \in [1..m -> S]
  BY <1>1
<1>3. cs \in Seq(S) /\ Len(cs) = m
  BY <1>2
<1> QED  BY <1>1, <1>3

LEMMA BasesAre ==
  ASSUME Placed
  PROVE  /\ Base1 \in Docs(1)
         /\ ~Multiple => /\ Base2 \in Docs(2) /\ Base2.text = text /\ ~Base2.touched
                         /\ Base2.cursors[1] = Base2.cursors[2] /\ Len(Refreshed.cursors) + 1 = 2
<1>1. text \in Text /\ native \in Spot /\ native.anchor \in 0..Len(text) /\ native.pos \in 0..Len(text)
  BY DEF Placed, CursorIn
<1> DEFINE one == <<native>>
           two == <<native, native>>
<1>2. one \in Seq(Spot) /\ Len(one) = 1 /\ \A i \in 1..1 : one[i] = native
  BY <1>1
<1>3. two \in Seq(Spot) /\ Len(two) = 2 /\ two[1] = native /\ two[2] = native /\ \A i \in 1..2 : two[i] = native
  BY <1>1
<1>4. Append(one, native) = two
  BY <1>1, Pair
<1>5. ~Multiple => Refreshed.cursors = one
  BY RefreshedIs
<1> HIDE DEF one, two
<1>6. Document(text, one) \in Docs(1)
  <2>1. SpotsWithin(one, Len(text))
    BY <1>1, <1>2 DEF SpotsWithin
  <2> QED  BY <1>1, <1>2, <2>1, DocumentIs
<1>7. /\ Document(text, two) \in Docs(2) /\ Document(text, two).text = text
      /\ ~Document(text, two).touched /\ Document(text, two).cursors = two
  <2>1. SpotsWithin(two, Len(text))
    BY <1>1, <1>3 DEF SpotsWithin
  <2> DEFINE b == Document(text, two)
  <2>2. b \in Docs(2) /\ b.text = text /\ b.cursors = two /\ b.touched = FALSE
    <3>1. two \in Seq(Spot) /\ Len(two) = 2
      BY <1>3
    <3>2. text \in Text
      BY <1>1
    <3>3. Document(text, two) \in Docs(Len(two)) /\ Document(text, two).text = text
          /\ Document(text, two).cursors = two /\ Document(text, two).touched = FALSE
      BY <2>1, <3>1, <3>2, DocumentIs
    <3> QED  BY <3>1, <3>3
  <2> HIDE DEF b
  <2>3. b \in Docs(2) /\ b.text = text /\ b.cursors = two /\ ~b.touched
    BY <2>2
  <2> QED  BY <2>3 DEF b
<1>8. ~Multiple => Base2 = Document(text, two)
  BY <1>4, <1>5 DEF Base2
<1>9. Base1 = Document(text, one)
  BY DEF Base1, one
<1>10. ~Multiple => Len(Refreshed.cursors) + 1 = 2
  <2>1. Len(one) + 1 = 2
    BY <1>2
  <2> QED  BY <1>5, <2>1
<1> DEFINE b == Document(text, two)
<1> HIDE DEF b
<1>11. b.cursors[1] = b.cursors[2] /\ b \in Docs(2) /\ b.text = text /\ ~b.touched
  BY <1>3, <1>7 DEF b
<1>12. ~Multiple => Base2 = b
  BY <1>8 DEF b
<1> QED  BY <1>6, <1>9, <1>10, <1>11, <1>12

LEMMA NativeEditKeeps ==
  ASSUME EditorInv, Edit, ~Multiple, NEW d \in Docs(2), Together(Base2, d, 2, 2), Untouched(Base2, d),
         NativeEdit(d), clipboard' \in Text
  PROVE  EditorInv' /\ Apart(cursors') /\ native' = cursors'[mainIndex']
<1>1. Edited(d) /\ strayed' = strayed /\ _overwriteMode' = _overwriteMode
  BY DEF NativeEdit
<1>2. text' = d.text /\ text' \in Text /\ Stacked'
  BY <1>1, EditedIs DEF EditorInv
<1>3. d.cursors \in [1..2 -> Spot] /\ d.cursors[2] \in Spot /\ CursorIn(d.cursors[2], text')
  <2>1. 2 \in Nat /\ 2 \in 1..2
    OBVIOUS
  <2>2. /\ d.cursors \in [1..2 -> Spot] /\ d.cursors[2] \in Spot
        /\ d.cursors[2].anchor \in 0..Len(d.text) /\ d.cursors[2].pos \in 0..Len(d.text)
    BY <2>1, DocIs
  <2> QED  BY <1>2, <2>2 DEF CursorIn
<1>4. d.cursors[2] = d.cursors[1]
  <2>1. 1 \in 1..2 /\ Base2.cursors[2] = Base2.cursors[1]
    BY BasesAre DEF EditorInv
  <2> QED  BY <2>1 DEF Together
<1>5. SyncFromNative(d.cursors[2])
  <2>1. PICK cs \in [1..2 -> Spot], c \in Spot : cs = d.cursors /\ c = d.cursors[2] /\ c = d.cursors[1]
    BY <1>3, <1>4
  <2>2. cs \in Seq(Spot) /\ Len(cs) = 2 /\ cs[1] = c /\ cs[2] = c /\ cs # <<>>
    BY <2>1, PairSeq
  <2>3. Front(cs) \in Seq(Spot) /\ Len(Front(cs)) = 1 /\ Front(cs)[1] = c
    <3>1. /\ Front(cs) \in Seq(Spot) /\ Len(Front(cs)) = Len(cs) - 1
          /\ \A i \in 1..(Len(cs) - 1) : Front(cs)[i] = cs[i]
      BY <2>2, FrontIs
    <3>2. Len(cs) - 1 = 1 /\ 1 \in 1..(Len(cs) - 1)
      BY <2>2
    <3>3. Front(cs)[1] = cs[1]
      BY <3>1, <3>2
    <3> QED  BY <2>2, <3>1, <3>2, <3>3
  <2>4. PICK f \in Seq(Spot) : f = Front(cs)
    BY <2>3
  <2>5. f = <<c>>
    BY <2>3, <2>4
  <2>6. native' = c /\ cursors' = <<c>> /\ mainIndex' = 1
    <3>1. /\ native' = cs[2]
          /\ IF cs[2] # native THEN cursors' = <<cs[2]>> /\ mainIndex' = 1
             ELSE cursors' = Front(cs) /\ mainIndex' = Refreshed.main
      BY <2>1, <2>2 DEF NativeEdit
    <3>2. Refreshed.main = 1
      BY RefreshedIs DEF EditorInv
    <3> QED  BY <2>2, <2>4, <2>5, <3>1, <3>2
  <2> DEFINE z == [cursors |-> <<c>>, main |-> 1]
             s == <<c>>
  <2>7. z.cursors = s /\ z.main = 1 /\ s[1] = c
    OBVIOUS
  <2>8. SyncToNative(z)
    <3>1. cursors' = s
      BY <2>6
    <3> HIDE DEF z, s
    <3> QED  BY <2>6, <2>7, <3>1 DEF SyncToNative
  <2> QED  BY <2>1, <2>8 DEF SyncFromNative
<1>6. Placed' /\ Apart(cursors') /\ native' = cursors'[mainIndex']
  BY <1>2, <1>3, <1>5, SyncOneIs
<1>7. SnapshotsFit' /\ (~strayed' => Linked')
  <2>1. CASE d.touched
    <3>1. ClearHistories
      BY <2>1 DEF NativeEdit
    <3> QED  BY <1>2, <3>1, ClearedIs
  <2>2. CASE ~d.touched
    <3>1. _multiUndoHistory' = _multiUndoHistory /\ _multiRedoHistory' = _multiRedoHistory
      BY <2>2 DEF NativeEdit, histories
    <3>2. undoStack' = undoStack /\ redoStack' = redoStack
      BY <1>1, <2>2, EditedIs DEF EditorInv
    <3>3. text' = text
      <4>1. d.text = Base2.text /\ Base2.text = text
        BY <2>2, BasesAre DEF EditorInv, Untouched
      <4> QED  BY <1>2, <4>1
    <3> QED  BY <1>1, <3>1, <3>2, <3>3 DEF EditorInv, SnapshotsFit, Linked, Back, Forth
  <2> QED  BY <2>1, <2>2
<1>8. Flagged'
  <2>1. strayed' \in BOOLEAN /\ _overwriteMode' \in BOOLEAN
    BY <1>1 DEF EditorInv, Flagged
  <2> QED  BY <2>1, FlaggedIs DEF EditorInv
<1> QED  BY <1>2, <1>6, <1>7, <1>8 DEF EditorInv
-----------------------------------------------------------------------------
(* The keys that edit.                                                      *)
After == EditorInv' /\ Apart(cursors') /\ native' = cursors'[mainIndex']

LEMMA TypeKeeps ==
  ASSUME EditorInv, NEW ch \in Typed, TypeText(ch)
  PROVE  After
<1>1. Edit /\ clipboard' = clipboard /\ clipboard' \in Text
  BY DEF TypeText, EditorInv, Flagged
<1>2. <<ch>> \in Text
  <2>1. ch \in Char
    BY EditorAssumption DEF Char
  <2> QED  BY <2>1 DEF Text
<1>3. CASE Multiple
  <2>1. \E d \in Docs(Len(cursors)) : PerformMultiEdit(d)
    BY <1>2, <1>3, TypeThrough, PlacedIs DEF EditorInv
  <2> QED  BY <1>1, <2>1, MultiEditKeeps DEF After
<1>4. CASE ~Multiple
  <2>1. NativeEdit(Overtype(Base2, 2, <<ch>>))
    <3>1. NativeEdit(Overtype(Base2, Len(Refreshed.cursors) + 1, <<ch>>))
      BY <1>4 DEF TypeText, ThroughNative, Base2
    <3> QED  BY <1>4, <3>1, BasesAre DEF EditorInv
  <2>2. Base2 \in Docs(2)
    BY <1>4, BasesAre DEF EditorInv
  <2>3. Overtype(Base2, 2, <<ch>>) \in Docs(2) /\ Together(Base2, Overtype(Base2, 2, <<ch>>), 2, 2)
    BY <1>2, <2>2, OvertypeKeeps
  <2>4. Untouched(Base2, Overtype(Base2, 2, <<ch>>))
    BY <1>2, <2>2, StillKeys
  <2> QED  BY <1>1, <1>4, <2>1, <2>3, <2>4, NativeEditKeeps DEF After
<1> QED  BY <1>3, <1>4

LEMMA BackspaceKeyKeeps ==
  ASSUME EditorInv, Backspace
  PROVE  After
<1>1. Edit /\ clipboard' = clipboard /\ clipboard' \in Text
  BY DEF Backspace, EditorInv, Flagged
<1>2. CASE Multiple
  <2>1. \E d \in Docs(Len(cursors)) : PerformMultiEdit(d)
    BY <1>2, BackspaceThrough, PlacedIs DEF EditorInv
  <2> QED  BY <1>1, <2>1, MultiEditKeeps DEF After
<1>3. CASE ~Multiple /\ SmartBackspaceApplies(Base1, 1)
  <2>1. SingleCursorEdit(BackspaceAt(Base1, 1))
    BY <1>3 DEF Backspace, ThroughOne, Base1
  <2>2. Base1 \in Docs(1)
    BY BasesAre DEF EditorInv
  <2>3. BackspaceAt(Base1, 1) \in Docs(1)
    BY <2>2, BackspaceKeeps
  <2> QED  BY <1>1, <2>1, <2>3, SingleEditKeeps DEF After
<1>4. CASE ~Multiple /\ ~SmartBackspaceApplies(Base1, 1)
  <2>1. NativeEdit(BackspaceAt(Base2, 2))
    <3>1. NativeEdit(BackspaceAt(Base2, Len(Refreshed.cursors) + 1))
      BY <1>4 DEF Backspace, ThroughNative, Base1, Base2
    <3> QED  BY <1>4, <3>1, BasesAre DEF EditorInv
  <2>2. Base2 \in Docs(2)
    BY <1>4, BasesAre DEF EditorInv
  <2>3. BackspaceAt(Base2, 2) \in Docs(2) /\ Together(Base2, BackspaceAt(Base2, 2), 2, 2)
    BY <2>2, BackspaceKeeps
  <2>4. Untouched(Base2, BackspaceAt(Base2, 2))
    BY <2>2, StillKeys, NothingIs
  <2> QED  BY <1>1, <1>4, <2>1, <2>3, <2>4, NativeEditKeeps DEF After
<1> QED  BY <1>2, <1>3, <1>4

LEMMA DeleteKeyKeeps ==
  ASSUME EditorInv, DeleteKey
  PROVE  After
<1>1. Edit /\ clipboard' = clipboard /\ clipboard' \in Text
  BY DEF DeleteKey, EditorInv, Flagged
<1>2. CASE Multiple
  <2>1. \E d \in Docs(Len(cursors)) : PerformMultiEdit(d)
    BY <1>2, DeleteThrough, PlacedIs DEF EditorInv
  <2> QED  BY <1>1, <2>1, MultiEditKeeps DEF After
<1>3. CASE ~Multiple
  <2>1. NativeEdit(DeleteAt(Base2, 2))
    <3>1. NativeEdit(DeleteAt(Base2, Len(Refreshed.cursors) + 1))
      BY <1>3 DEF DeleteKey, ThroughNative, Base2
    <3> QED  BY <1>3, <3>1, BasesAre DEF EditorInv
  <2>2. Base2 \in Docs(2)
    BY <1>3, BasesAre DEF EditorInv
  <2>3. DeleteAt(Base2, 2) \in Docs(2) /\ Together(Base2, DeleteAt(Base2, 2), 2, 2)
    BY <2>2, DeleteKeeps
  <2>4. Untouched(Base2, DeleteAt(Base2, 2))
    BY <2>2, StillKeys, NothingIs
  <2> QED  BY <1>1, <1>3, <2>1, <2>3, <2>4, NativeEditKeeps DEF After
<1> QED  BY <1>2, <1>3

LEMMA ReturnKeyKeeps ==
  ASSUME EditorInv, ReturnKey
  PROVE  After
<1>1. Edit /\ clipboard' = clipboard /\ clipboard' \in Text
  BY DEF ReturnKey, EditorInv, Flagged
<1>2. CASE Multiple
  <2>1. \E d \in Docs(Len(cursors)) : PerformMultiEdit(d)
    BY <1>2, ReturnThrough, PlacedIs DEF EditorInv
  <2> QED  BY <1>1, <2>1, MultiEditKeeps DEF After
<1>3. CASE ~Multiple
  <2>1. SingleCursorEdit(applyReturnWithIndent(Base1, 1))
    BY <1>3 DEF ReturnKey, ThroughOne, Base1
  <2>2. applyReturnWithIndent(Base1, 1) \in Docs(1)
    BY BasesAre, ReturnKeeps DEF EditorInv
  <2> QED  BY <1>1, <2>1, <2>2, SingleEditKeeps DEF After
<1> QED  BY <1>2, <1>3

LEMMA TabKeyKeeps ==
  ASSUME EditorInv, NEW forward \in BOOLEAN, TabKey(forward)
  PROVE  After
<1>1. Edit /\ clipboard' = clipboard /\ clipboard' \in Text
  <2>1. Edit /\ clipboard' = clipboard
    BY Zenon DEF TabKey
  <2> QED  BY <2>1 DEF EditorInv, Flagged
<1>2. CASE Multiple
  <2>1. \E d \in Docs(Len(cursors)) : PerformMultiEdit(d)
    BY <1>2, TabThrough, PlacedIs DEF EditorInv
  <2> QED  BY <1>1, <2>1, MultiEditKeeps DEF After
<1>3. CASE ~Multiple
  <2>1. SingleCursorEdit(applyTab(Base1, 1, forward))
    BY <1>3 DEF TabKey, ThroughOne, ThroughAll, Base1
  <2>2. applyTab(Base1, 1, forward) \in Docs(1)
    BY BasesAre, TabKeeps DEF EditorInv
  <2> QED  BY <1>1, <2>1, <2>2, SingleEditKeeps DEF After
<1> QED  BY <1>2, <1>3

LEMMA CaseKeeps ==
  ASSUME EditorInv, NEW upper \in BOOLEAN, ChangeCase(upper)
  PROVE  After
<1>1. Edit /\ clipboard' = clipboard /\ clipboard' \in Text
  <2>1. Edit /\ clipboard' = clipboard
    BY Zenon DEF ChangeCase
  <2> QED  BY <2>1 DEF EditorInv, Flagged
<1>2. CASE Multiple
  <2>1. \E d \in Docs(Len(cursors)) : PerformMultiEdit(d)
    BY <1>2, CaseThrough, PlacedIs DEF EditorInv
  <2> QED  BY <1>1, <2>1, MultiEditKeeps DEF After
<1>3. CASE ~Multiple
  <2>1. SingleCursorEdit(foldCase(Base1, 1, upper))
    BY <1>3 DEF ChangeCase, ThroughOne, ThroughAll, Base1
  <2>2. foldCase(Base1, 1, upper) \in Docs(1)
    BY BasesAre, FoldCaseKeeps DEF EditorInv
  <2> QED  BY <1>1, <2>1, <2>2, SingleEditKeeps DEF After
<1> QED  BY <1>2, <1>3

LEMMA CutSelectionsKeeps ==
  ASSUME EditorInv, CutSelections
  PROVE  After
<1>1. Edit /\ clipboard' \in Text
  <2>1. Edit /\ clipboard' = SelectedText(Refreshed.cursors)
    BY Zenon DEF CutSelections
  <2>2. PICK N \in Nat : N = Len(text)
    BY PlacedIs DEF EditorInv
  <2>3. Refreshed.cursors \in Seq(Spot) /\ SpotsWithin(Refreshed.cursors, Len(text))
    BY <2>2, RefreshedIs, SetIs DEF EditorInv
  <2>4. text \in Text
    BY DEF EditorInv, Placed
  <2> QED  BY <2>1, <2>3, <2>4, SelectedTextIs
<1>2. CASE Multiple
  <2>1. \E d \in Docs(Len(cursors)) : PerformMultiEdit(d)
    BY <1>2, CutThrough, PlacedIs DEF EditorInv
  <2> QED  BY <1>1, <2>1, MultiEditKeeps DEF After
<1>3. CASE ~Multiple
  <2>1. NativeEdit(CutAt(Base2, 2))
    <3>1. NativeEdit(CutAt(Base2, Len(Refreshed.cursors) + 1))
      BY <1>3 DEF CutSelections, ThroughNative, ThroughAll, Base2, CutAt
    <3> QED  BY <1>3, <3>1, BasesAre DEF EditorInv
  <2>2. Base2 \in Docs(2)
    BY <1>3, BasesAre DEF EditorInv
  <2>3. CutAt(Base2, 2) \in Docs(2) /\ Together(Base2, CutAt(Base2, 2), 2, 2)
    BY <2>2, CutKeeps
  <2>4. Untouched(Base2, CutAt(Base2, 2))
    BY <2>2, StillKeys, NothingIs
  <2> QED  BY <1>1, <1>3, <2>1, <2>3, <2>4, NativeEditKeeps DEF After
<1> QED  BY <1>2, <1>3

LEMMA PasteKeyKeeps ==
  ASSUME EditorInv, Paste
  PROVE  After
<1>1. Edit /\ clipboard' = clipboard /\ clipboard' \in Text /\ clipboard \in Text
  BY DEF Paste, EditorInv, Flagged
<1>2. CASE Multiple
  <2>1. \E d \in Docs(Len(cursors)) : PerformMultiEdit(d)
    BY <1>1, <1>2, PasteThrough, PlacedIs DEF EditorInv
  <2> QED  BY <1>1, <2>1, MultiEditKeeps DEF After
<1>3. CASE ~Multiple
  <2>1. NativeEdit(InsertText(Base2, 2, clipboard))
    <3>1. NativeEdit(InsertText(Base2, Len(Refreshed.cursors) + 1, clipboard))
      BY <1>3 DEF Paste, ThroughNative, Base2
    <3> QED  BY <1>3, <3>1, BasesAre DEF EditorInv
  <2>2. Base2 \in Docs(2)
    BY <1>3, BasesAre DEF EditorInv
  <2>3. InsertText(Base2, 2, clipboard) \in Docs(2) /\ Together(Base2, InsertText(Base2, 2, clipboard), 2, 2)
    BY <1>1, <2>2, TogetherInserted
  <2>4. Untouched(Base2, InsertText(Base2, 2, clipboard))
    BY <1>1, <2>2, StillTyped
  <2> QED  BY <1>1, <1>3, <2>1, <2>3, <2>4, NativeEditKeeps DEF After
<1> QED  BY <1>2, <1>3

LEMMA CutLinesKeeps ==
  ASSUME EditorInv, CutLines
  PROVE  After
<1>1. Edit /\ strayed' = strayed /\ _overwriteMode' = _overwriteMode
  BY Zenon DEF CutLines
<1>2. PICK N \in Nat : N = Len(text) /\ Refreshed \in Set(N) /\ text \in Text
  BY PlacedIs, RefreshedIs DEF EditorInv, Placed
<1>3. PICK n \in Nat : \E d \in Docs(n) : \E z : d.touched /\ Cutting(d, z) /\ clipboard' \in Text
  BY <1>2, CutLinesIs
<1>0. PICK d \in Docs(n) : \E z : d.touched /\ Cutting(d, z) /\ clipboard' \in Text
  BY <1>3
<1>4. PICK z : d.touched /\ Cutting(d, z) /\ clipboard' \in Text
  BY <1>0
<1>5. /\ z \in Set(Len(d.text)) /\ Apart(z.cursors) /\ Edited(d) /\ SyncToNative(z)
      /\ IF IsMultiple(Refreshed.cursors) THEN Record(Refreshed.cursors, z.cursors, d) ELSE ClearHistories
  BY <1>4 DEF Cutting
<1>6. text' = d.text /\ text' \in Text /\ Stacked'
  BY <1>5, EditedIs DEF EditorInv
<1>7. Placed' /\ cursors' = z.cursors /\ native' = cursors'[mainIndex']
  <2>1. Len(d.text) \in Nat
    BY DocIs
  <2> QED  BY <1>5, <1>6, <2>1, SyncIs
<1>8. SnapshotsFit' /\ (~strayed' => Linked')
  <2>1. CASE IsMultiple(Refreshed.cursors)
    <3>1. Record(Refreshed.cursors, z.cursors, d)
      BY <1>5, <2>1
    <3>2. Refreshed.cursors \in Seq(Spot) /\ Refreshed.cursors # <<>> /\ SpotsWithin(Refreshed.cursors, Len(text))
      BY <1>2, SetIs
    <3>3. SnapshotsFit' /\ (Linked /\ d.touched => Linked')
      BY <1>5, <3>1, <3>2, RecordIs DEF EditorInv
    <3> QED  BY <1>1, <1>4, <3>3 DEF EditorInv
  <2>2. CASE ~IsMultiple(Refreshed.cursors)
    BY <1>5, <1>6, <2>2, ClearedIs
  <2> QED  BY <2>1, <2>2
<1>9. Flagged'
  <2>1. strayed' \in BOOLEAN /\ _overwriteMode' \in BOOLEAN
    BY <1>1 DEF EditorInv, Flagged
  <2> QED  BY <1>1, <1>4, <2>1, FlaggedIs DEF EditorInv
<1>10. Apart(cursors')
  BY <1>5, <1>7
<1> QED  BY <1>6, <1>7, <1>8, <1>9, <1>10 DEF EditorInv, After

-----------------------------------------------------------------------------
(* Undo and redo.                                                           *)
LEMMA EntryIs ==
  ASSUME NEW e \in Entries
  PROVE  /\ e.pre \in Seq(Spot) /\ e.pre # <<>> /\ e.post \in Seq(Spot) /\ e.post # <<>>
         /\ e.before \in Text /\ e.after \in Text
         /\ SpotsWithin(e.pre, Len(e.before)) /\ SpotsWithin(e.post, Len(e.after)) /\ Apart(e.post)
BY DEF Entries

LEMMA DocumentUndoIs ==
  ASSUME Placed, Stacked, DocumentUndo
  PROVE  /\ text' \in Text /\ Stacked'
         /\ undoStack # <<>> => /\ text' = Last(undoStack) /\ undoStack' = Front(undoStack)
                                /\ redoStack' = Append(redoStack, text)
<1>1. CASE undoStack = <<>>
  <2>1. text' = text /\ undoStack' = undoStack /\ redoStack' = redoStack
    BY <1>1 DEF DocumentUndo, document
  <2> QED  BY <1>1, <2>1 DEF Placed, Stacked
<1>2. CASE undoStack # <<>>
  <2>1. text' = Last(undoStack) /\ undoStack' = Front(undoStack) /\ redoStack' = Append(redoStack, text)
    BY <1>2 DEF DocumentUndo
  <2>2. Last(undoStack) \in Text /\ Front(undoStack) \in Seq(Text)
    BY <1>2, FrontIs DEF Stacked
  <2>3. Append(redoStack, text) \in Seq(Text)
    BY DEF Stacked, Placed
  <2> QED  BY <2>1, <2>2, <2>3 DEF Stacked
<1> QED  BY <1>1, <1>2

LEMMA DocumentRedoIs ==
  ASSUME Placed, Stacked, DocumentRedo
  PROVE  /\ text' \in Text /\ Stacked'
         /\ redoStack # <<>> => /\ text' = Last(redoStack) /\ redoStack' = Front(redoStack)
                                /\ undoStack' = Append(undoStack, text)
<1>1. CASE redoStack = <<>>
  <2>1. text' = text /\ undoStack' = undoStack /\ redoStack' = redoStack
    BY <1>1 DEF DocumentRedo, document
  <2> QED  BY <1>1, <2>1 DEF Placed, Stacked
<1>2. CASE redoStack # <<>>
  <2>1. text' = Last(redoStack) /\ redoStack' = Front(redoStack) /\ undoStack' = Append(undoStack, text)
    BY <1>2 DEF DocumentRedo
  <2>2. Last(redoStack) \in Text /\ Front(redoStack) \in Seq(Text)
    BY <1>2, FrontIs DEF Stacked
  <2>3. Append(undoStack, text) \in Seq(Text)
    BY DEF Stacked, Placed
  <2> QED  BY <2>1, <2>2, <2>3 DEF Stacked
<1> QED  BY <1>1, <1>2

LEMMA UndoKeeps ==
  ASSUME EditorInv, UndoMultiEdit
  PROVE  /\ EditorInv'
         /\ ~strayed => /\ text' = Last(_multiUndoHistory).before
                        /\ ToSet(cursors') = ToSet(Last(_multiUndoHistory).pre)
<1>1. PICK e \in Entries : e = Last(_multiUndoHistory)
  BY FrontIs DEF UndoMultiEdit, EditorInv, SnapshotsFit
<1>2. Front(_multiUndoHistory) \in Seq(Entries) /\ _multiUndoHistory # <<>>
  BY FrontIs DEF UndoMultiEdit, EditorInv, SnapshotsFit
<1>3. /\ DocumentUndo /\ SyncToNative(Restored(e.pre, text'))
      /\ _multiUndoHistory' = Front(_multiUndoHistory) /\ _multiRedoHistory' = Append(_multiRedoHistory, e)
      /\ UNCHANGED <<_overwriteMode, _altGesture, clipboard, strayed, edits, moves>>
  BY <1>1 DEF UndoMultiEdit
<1>4. /\ text' \in Text /\ Stacked'
      /\ undoStack # <<>> => /\ text' = Last(undoStack) /\ undoStack' = Front(undoStack)
                             /\ redoStack' = Append(redoStack, text)
  BY <1>3, DocumentUndoIs DEF EditorInv
<1>5. PICK N \in Nat : N = Len(text')
  BY <1>4 DEF Text
<1>6. /\ Restored(e.pre, text') \in Set(N)
      /\ SpotsWithin(e.pre, N) => ToSet(Restored(e.pre, text').cursors) = ToSet(e.pre)
  BY <1>4, <1>5, EntryIs, RestoredIs
<1>7. Placed' /\ cursors' = Restored(e.pre, text').cursors
  BY <1>3, <1>4, <1>5, <1>6, SyncIs
<1>8. SnapshotsFit'
  <2>1. Append(_multiRedoHistory, e) \in Seq(Entries)
    BY DEF EditorInv, SnapshotsFit
  <2> QED  BY <1>2, <1>3, <2>1 DEF SnapshotsFit
<1>9. Flagged'
  BY <1>3 DEF EditorInv, Flagged
<1>10. ASSUME ~strayed
       PROVE  Linked' /\ text' = e.before /\ ToSet(cursors') = ToSet(e.pre)
  <2>1. /\ undoStack # <<>> /\ Last(undoStack) = e.before /\ e.after = text
        /\ Back(e.before, Front(_multiUndoHistory), Front(undoStack))
    BY <1>1, <1>2, <1>10, BackLess DEF EditorInv, Placed, Stacked, SnapshotsFit, Linked
  <2>2. Forth(e.before, Append(_multiRedoHistory, e), Append(redoStack, text))
    BY <1>10, <2>1, ForthMore DEF EditorInv, Placed, Stacked, SnapshotsFit, Linked
  <2>3. text' = e.before /\ undoStack' = Front(undoStack) /\ redoStack' = Append(redoStack, text)
    BY <1>4, <2>1
  <2>4. Back(text', _multiUndoHistory', undoStack') /\ Forth(text', _multiRedoHistory', redoStack')
    BY <1>3, <2>1, <2>2, <2>3
  <2>5. ToSet(cursors') = ToSet(e.pre)
    BY <1>5, <1>6, <1>7, <2>3, EntryIs
  <2> QED  BY <2>3, <2>4, <2>5 DEF Linked, Back, Forth
<1>11. strayed' = strayed
  BY <1>3
<1> QED  BY <1>1, <1>4, <1>7, <1>8, <1>9, <1>10, <1>11 DEF EditorInv

LEMMA RedoKeeps ==
  ASSUME EditorInv, RedoMultiEdit
  PROVE  /\ EditorInv'
         /\ ~strayed => text' = Last(_multiRedoHistory).after /\ cursors' = Last(_multiRedoHistory).post
<1>1. PICK e \in Entries : e = Last(_multiRedoHistory)
  BY FrontIs DEF RedoMultiEdit, EditorInv, SnapshotsFit
<1>2. Front(_multiRedoHistory) \in Seq(Entries) /\ _multiRedoHistory # <<>>
  BY FrontIs DEF RedoMultiEdit, EditorInv, SnapshotsFit
<1>3. /\ DocumentRedo /\ SyncToNative(Restored(e.post, text'))
      /\ _multiRedoHistory' = Front(_multiRedoHistory) /\ _multiUndoHistory' = Append(_multiUndoHistory, e)
      /\ UNCHANGED <<_overwriteMode, _altGesture, clipboard, strayed, edits, moves>>
  BY <1>1 DEF RedoMultiEdit
<1>4. /\ text' \in Text /\ Stacked'
      /\ redoStack # <<>> => /\ text' = Last(redoStack) /\ redoStack' = Front(redoStack)
                             /\ undoStack' = Append(undoStack, text)
  BY <1>3, DocumentRedoIs DEF EditorInv
<1>5. PICK N \in Nat : N = Len(text')
  BY <1>4 DEF Text
<1>6. /\ Restored(e.post, text') \in Set(N)
      /\ SpotsWithin(e.post, N) => Restored(e.post, text').cursors = e.post
  BY <1>4, <1>5, EntryIs, RestoredIs
<1>7. Placed' /\ cursors' = Restored(e.post, text').cursors
  BY <1>3, <1>4, <1>5, <1>6, SyncIs
<1>8. SnapshotsFit'
  <2>1. Append(_multiUndoHistory, e) \in Seq(Entries)
    BY DEF EditorInv, SnapshotsFit
  <2> QED  BY <1>2, <1>3, <2>1 DEF SnapshotsFit
<1>9. Flagged'
  BY <1>3 DEF EditorInv, Flagged
<1>10. ASSUME ~strayed
       PROVE  Linked' /\ text' = e.after /\ cursors' = e.post
  <2>1. /\ redoStack # <<>> /\ Last(redoStack) = e.after /\ e.before = text
        /\ Forth(e.after, Front(_multiRedoHistory), Front(redoStack))
    BY <1>1, <1>2, <1>10, ForthLess DEF EditorInv, Placed, Stacked, SnapshotsFit, Linked
  <2>2. Back(e.after, Append(_multiUndoHistory, e), Append(undoStack, text))
    BY <1>10, <2>1, BackMore DEF EditorInv, Placed, Stacked, SnapshotsFit, Linked
  <2>3. text' = e.after /\ redoStack' = Front(redoStack) /\ undoStack' = Append(undoStack, text)
    BY <1>4, <2>1
  <2>4. Back(text', _multiUndoHistory', undoStack') /\ Forth(text', _multiRedoHistory', redoStack')
    BY <1>3, <2>1, <2>2, <2>3
  <2>5. cursors' = e.post
    BY <1>5, <1>6, <1>7, <2>3, EntryIs
  <2> QED  BY <2>3, <2>4, <2>5 DEF Linked, Back, Forth
<1>11. strayed' = strayed
  BY <1>3
<1> QED  BY <1>1, <1>4, <1>7, <1>8, <1>9, <1>10, <1>11 DEF EditorInv

(* What is left to Qt: a caret at the place of the change.                  *)
LEMMA CaretIs ==
  ASSUME NEW N \in Nat, NEW p \in 0..N
  PROVE  Caret(p) \in Spot /\ Caret(p).anchor \in 0..N /\ Caret(p).pos \in 0..N
BY DEF Caret, Cursor, Spot

LEMMA CursorIs ==
  ASSUME NEW N \in Nat, NEW a \in 0..N, NEW p \in 0..N
  PROVE  Cursor(a, p) \in Spot /\ Cursor(a, p).anchor = a /\ Cursor(a, p).pos = p
BY DEF Cursor, Spot

LEMMA NativeStepKeeps ==
  ASSUME EditorInv, text' \in Text, Stacked', NativeStep,
         UNCHANGED <<_overwriteMode, _altGesture, clipboard, edits, moves>>
  PROVE  EditorInv'
<1>1. PICK n \in Nat, N \in Nat : n = Len(cursors) /\ N = Len(text') /\ n >= 1
  BY PlacedIs DEF EditorInv, Text
<1> DEFINE s == Step(Document(text, cursors), text')
<1>2. s.doc \in Docs(n) /\ Len(s.doc.text) = N /\ s.places \subseteq 0..N
  <2>1. Document(text, cursors) \in Docs(n)
    BY <1>1, DocumentIs DEF EditorInv, Placed
  <2> QED  BY <1>1, <2>1, StepIs
<1>3. PICK p \in s.places :
        IF Caret(p) # native THEN SyncFromNative(Caret(p)) /\ UNCHANGED strayed
        ELSE cursors' = s.doc.cursors /\ strayed' = (strayed \/ Multiple) /\ UNCHANGED <<native, mainIndex>>
  BY Zenon DEF NativeStep
<1> HIDE DEF s
<1>4. p \in 0..N
  BY <1>2
<1>5. Caret(p) \in Spot /\ CursorIn(Caret(p), text')
  BY <1>1, <1>4, CaretIs DEF CursorIn
<1>6. Placed' /\ strayed' \in BOOLEAN
  <2>1. CASE Caret(p) # native
    <3>1. SyncFromNative(Caret(p)) /\ strayed' = strayed
      BY <1>3, <2>1
    <3> QED  BY <1>5, <3>1, SyncOneIs DEF EditorInv, Flagged
  <2>2. CASE Caret(p) = native
    <3>1. cursors' = s.doc.cursors /\ strayed' = (strayed \/ Multiple) /\ native' = native /\ mainIndex' = mainIndex
      BY <1>3, <2>2
    <3>2. PICK cs \in [1..n -> Spot] : cs = s.doc.cursors
      BY <1>2, DocIs
    <3>3. cs \in Seq(Spot) /\ Len(cs) = n /\ cs # <<>>
      BY <1>1
    <3>4. SpotsWithin(cs, N)
      BY <1>2, <3>2, <3>3, DocIs DEF SpotsWithin
    <3>5. mainIndex \in 1..n
      BY <1>1 DEF EditorInv, Placed
    <3>6. strayed' \in BOOLEAN
      BY <3>1, Zenon
    <3>7. CursorIn(native', text') /\ native' \in Spot
      BY <1>5, <2>2, <3>1
    <3>8. SpotsWithin(cursors', Len(text'))
      BY <1>1, <3>1, <3>2, <3>4
    <3>9. cursors' \in Seq(Spot) /\ cursors' # <<>> /\ mainIndex' \in 1..Len(cursors')
      BY <3>1, <3>2, <3>3, <3>5
    <3> QED  BY <3>6, <3>7, <3>8, <3>9 DEF Placed, CursorIn, SpotsWithin
  <2> QED  BY <2>1, <2>2
<1>7. SnapshotsFit' /\ Linked'
  <2>1. ClearHistories
    BY DEF NativeStep
  <2> QED  BY <2>1, ClearedIs
<1>8. Flagged'
  BY <1>6 DEF EditorInv, Flagged
<1> QED  BY <1>6, <1>7, <1>8 DEF EditorInv

LEMMA NativeUndoKeeps ==
  ASSUME EditorInv, NativeUndo \/ NativeRedo
  PROVE  EditorInv'
<1>1. /\ DocumentUndo \/ DocumentRedo
      /\ NativeStep /\ UNCHANGED <<_overwriteMode, _altGesture, clipboard, edits, moves>>
  BY DEF NativeUndo, NativeRedo
<1>2. text' \in Text /\ Stacked'
  BY <1>1, DocumentUndoIs, DocumentRedoIs DEF EditorInv
<1> QED  BY <1>1, <1>2, NativeStepKeeps

-----------------------------------------------------------------------------
(* Moving the cursors.                                                      *)
Stays == text' = text /\ undoStack' = undoStack /\ redoStack' = redoStack
         /\ _multiUndoHistory' = _multiUndoHistory /\ _multiRedoHistory' = _multiRedoHistory
         /\ strayed' = strayed /\ edits' = edits

LEMMA StaysIs ==
  ASSUME EditorInv, Stays
  PROVE  text' \in Text /\ Stacked' /\ SnapshotsFit' /\ (~strayed' => Linked')
BY DEF EditorInv, Placed, Stays, Stacked, SnapshotsFit, Linked, Back, Forth

LEMMA MoveIs ==
  ASSUME EditorInv, Move, Placed', _overwriteMode' \in BOOLEAN, _altGesture' \in BOOLEAN
  PROVE  EditorInv'
<1>1. Stays /\ clipboard' = clipboard /\ moves' = moves + 1 /\ moves < MaxMoves
  BY DEF Move, Movable, document, histories, Stays
<1>2. text' \in Text /\ Stacked' /\ SnapshotsFit' /\ (~strayed' => Linked')
  BY <1>1, StaysIs
<1>3. moves' \in 0..MaxMoves
  BY <1>1, EditorAssumption DEF EditorInv, Flagged
<1>4. Flagged'
  BY <1>1, <1>3 DEF EditorInv, Flagged, Stays
<1> QED  BY <1>2, <1>4 DEF EditorInv

LEMMA MoveStays ==
  ASSUME EditorInv, Move
  PROVE  text' = text /\ text' \in Text /\ text \in Text /\ edits' = edits
BY DEF Move, document, EditorInv, Placed

LEMMA ForEachKeeps ==
  ASSUME EditorInv, Move, NEW places, NEW keep, places \in [1..Len(cursors) -> 0..Len(text)],
         ForEachCursor(places, keep)
  PROVE  Placed' /\ Apart(cursors') /\ native' = cursors'[mainIndex']
<1>1. PICK n \in Nat, N \in Nat : n = Len(cursors) /\ N = Len(text) /\ n >= 1
  BY PlacedIs DEF EditorInv
<1>2. cursors \in Seq(Spot) /\ SpotsWithin(cursors, N) /\ mainIndex \in 1..n /\ DOMAIN cursors = 1..n
  BY <1>1 DEF EditorInv, Placed
<1> DEFINE moved(i) == Cursor(IF keep THEN cursors[i].anchor ELSE places[i], places[i])
           all == [i \in 1..n |-> moved(i)]
           z == [cursors |-> all, main |-> mainIndex]
<1>3. SyncToNative(MergeOverlapping(z))
  BY <1>2 DEF ForEachCursor
<1>4. \A i \in 1..n : moved(i) \in Spot /\ moved(i).anchor \in 0..N /\ moved(i).pos \in 0..N
  <2> SUFFICES ASSUME NEW i \in 1..n PROVE moved(i) \in Spot /\ moved(i).anchor \in 0..N /\ moved(i).pos \in 0..N
    OBVIOUS
  <2>1. places[i] \in 0..N /\ cursors[i].anchor \in 0..N
    BY <1>1, <1>2 DEF SpotsWithin
  <2>2. PICK a \in 0..N : a = IF keep THEN cursors[i].anchor ELSE places[i]
    BY <2>1
  <2>3. PICK q \in 0..N : q = places[i]
    BY <2>1
  <2>4. moved(i) = Cursor(a, q)
    BY <2>2, <2>3
  <2>5. a \in Nat /\ q \in Nat
    BY <1>1
  <2> HIDE DEF moved
  <2> QED  BY <2>4, <2>5, CursorIs
<1> HIDE DEF moved
<1>5. all \in Seq(Spot) /\ Len(all) = n /\ all # <<>>
  BY <1>1, <1>4
<1>6. SpotsWithin(all, N)
  BY <1>4, <1>5 DEF SpotsWithin
<1> HIDE DEF all
<1>7. z \in Set(N)
  BY <1>2, <1>5, <1>6, MakeSet
<1> HIDE DEF z
<1>8. MergeOverlapping(z) \in Set(N) /\ Apart(MergeOverlapping(z).cursors)
  BY <1>7, MergeIs
<1>9. text' \in Text /\ Len(text') = N
  BY <1>1, MoveStays
<1>10. Placed' /\ cursors' = MergeOverlapping(z).cursors /\ native' = cursors'[mainIndex']
  BY <1>3, <1>8, <1>9, SyncIs
<1>11. Apart(cursors')
  BY <1>8, <1>10
<1> QED  BY <1>10, <1>11

LEMMA CursorAt ==
  ASSUME EditorInv, NEW i \in 1..Len(cursors)
  PROVE  cursors[i] \in Spot /\ CursorIn(cursors[i], text)
BY DEF EditorInv, Placed, SpotsWithin, CursorIn

LEMMA CursorsDomain ==
  ASSUME EditorInv
  PROVE  DOMAIN cursors = 1..Len(cursors)
BY DEF EditorInv, Placed

LEMMA MoveCursorsKeeps ==
  ASSUME EditorInv, NEW direction \in Directions, NEW keep \in BOOLEAN, MoveCursors(direction, keep)
  PROVE  After
<1> DEFINE places == [i \in 1..Len(cursors) |-> PositionAfter(cursors[i], direction, keep)]
<1>1. Move /\ _overwriteMode' = _overwriteMode /\ _altGesture' = _altGesture
  BY Zenon DEF MoveCursors
<1>2. ForEachCursor(places, keep)
  BY CursorsDomain DEF MoveCursors, Places
<1>3. places \in [1..Len(cursors) -> 0..Len(text)]
  <2>1. \A i \in 1..Len(cursors) : PositionAfter(cursors[i], direction, keep) \in 0..Len(text)
    BY CursorAt, PositionAfterIs DEF EditorInv, Placed
  <2> QED  BY <2>1
<1> HIDE DEF places
<1>4. Placed' /\ Apart(cursors') /\ native' = cursors'[mainIndex']
  BY <1>1, <1>2, <1>3, ForEachKeeps
<1> QED  BY <1>1, <1>4, MoveIs DEF After, EditorInv, Flagged

LEMMA NativeMoved ==
  ASSUME EditorInv, NEW keep, NEW p \in 0..Len(text)
  PROVE  LET c == Cursor(IF keep THEN native.anchor ELSE p, p) IN c \in Spot /\ CursorIn(c, text)
<1>1. PICK N \in Nat : N = Len(text)
  BY PlacedIs DEF EditorInv
<1>2. native.anchor \in 0..N
  BY <1>1 DEF EditorInv, Placed, CursorIn
<1>3. PICK a \in 0..N : a = IF keep THEN native.anchor ELSE p
  BY <1>1, <1>2
<1> QED  BY <1>1, <1>3, CursorIs DEF CursorIn

LEMMA MoveByWordKeeps ==
  ASSUME EditorInv, NEW forward \in BOOLEAN, NEW keep \in BOOLEAN, MoveByWord(forward, keep)
  PROVE  EditorInv'
<1> DEFINE to(c) == IF forward THEN nextBoundary(text, c.pos) ELSE previousBoundary(text, c.pos)
           places == [i \in 1..Len(cursors) |-> to(cursors[i])]
<1>1. Move /\ _overwriteMode' = _overwriteMode /\ _altGesture' = _altGesture
  BY Zenon DEF MoveByWord
<1>2. \A c \in Spot : CursorIn(c, text) => to(c) \in 0..Len(text)
  BY NextBoundaryIs, PreviousBoundaryIs DEF CursorIn, EditorInv, Placed
<1>3. CASE Multiple
  <2>1. ForEachCursor(places, keep)
    BY <1>3, CursorsDomain DEF MoveByWord, Places
  <2> HIDE DEF to
  <2>2. places \in [1..Len(cursors) -> 0..Len(text)]
    BY <1>2, CursorAt
  <2> HIDE DEF places
  <2>3. Placed'
    BY <1>1, <2>1, <2>2, ForEachKeeps
  <2> QED  BY <1>1, <2>3, MoveIs DEF EditorInv, Flagged
<1>4. CASE ~Multiple
  <2>1. /\ cursors' = Refreshed.cursors /\ mainIndex' = 1
        /\ native' = Cursor(IF keep THEN native.anchor ELSE to(native), to(native))
    BY <1>4 DEF MoveByWord, Places
  <2>2. to(native) \in 0..Len(text)
    BY <1>2 DEF EditorInv, Placed
  <2> HIDE DEF to
  <2>3. native' \in Spot /\ CursorIn(native', text)
    BY <2>1, <2>2, NativeMoved
  <2>4. text' = text /\ text \in Text
    BY <1>1, MoveStays
  <2>5. Refreshed \in Set(Len(text)) /\ Refreshed.main = 1
    BY <1>4, RefreshedIs DEF EditorInv
  <2>6. PICK cs \in Seq(Spot) : cs = Refreshed.cursors /\ cs # <<>> /\ SpotsWithin(cs, Len(text)) /\ 1 \in 1..Len(cs)
    BY <2>4, <2>5, SetIs DEF Text
  <2>7. cursors' = cs /\ mainIndex' = 1
    BY <2>1, <2>6
  <2>8. SpotsWithin(cursors', Len(text')) /\ CursorIn(native', text')
    BY <2>3, <2>4, <2>6, <2>7
  <2>9. cursors' \in Seq(Spot) /\ cursors' # <<>> /\ mainIndex' \in 1..Len(cursors') /\ text' \in Text
    BY <2>4, <2>6, <2>7
  <2>10. Placed'
    BY <2>3, <2>8, <2>9 DEF Placed, SpotsWithin, CursorIn
  <2> QED  BY <1>1, <2>10, MoveIs DEF EditorInv, Flagged
<1> QED  BY <1>3, <1>4

LEMMA HomeKeyKeeps ==
  ASSUME EditorInv, NEW keep \in BOOLEAN, HomeKey(keep)
  PROVE  EditorInv'
<1> DEFINE to(c) == applyHome(Document(text, <<c>>), 1, keep).cursors[1].pos
           places == [i \in 1..Len(cursors) |-> to(cursors[i])]
<1>1. Move /\ _overwriteMode' = _overwriteMode /\ _altGesture' = _altGesture
  BY Zenon DEF HomeKey
<1>2. \A c \in Spot : CursorIn(c, text) => to(c) \in 0..Len(text)
  BY HomeIs DEF EditorInv, Placed
<1>3. CASE Multiple
  <2>1. ForEachCursor(places, keep)
    BY <1>3, CursorsDomain DEF HomeKey, Places
  <2> HIDE DEF to
  <2>2. places \in [1..Len(cursors) -> 0..Len(text)]
    BY <1>2, CursorAt
  <2> HIDE DEF places
  <2>3. Placed'
    BY <1>1, <2>1, <2>2, ForEachKeeps
  <2> QED  BY <1>1, <2>3, MoveIs DEF EditorInv, Flagged
<1>4. CASE ~Multiple
  <2>1. SyncFromNative(Cursor(IF keep THEN native.anchor ELSE to(native), to(native)))
    BY <1>4 DEF HomeKey, Places
  <2>2. to(native) \in 0..Len(text)
    BY <1>2 DEF EditorInv, Placed
  <2> HIDE DEF to
  <2>3. PICK c \in Spot : CursorIn(c, text) /\ SyncFromNative(c)
    BY <2>1, <2>2, NativeMoved
  <2>4. CursorIn(c, text') /\ text' \in Text
    BY <1>1, <2>3, MoveStays
  <2>5. Placed'
    BY <2>3, <2>4, SyncOneIs
  <2> QED  BY <1>1, <2>5, MoveIs DEF EditorInv, Flagged
<1> QED  BY <1>3, <1>4

(* One cursor alone, or one more.                                           *)
LEMMA AloneKeeps ==
  ASSUME EditorInv, Move, NEW c \in Spot, CursorIn(c, text), SyncFromNative(c),
         _overwriteMode' \in BOOLEAN, _altGesture' \in BOOLEAN
  PROVE  EditorInv'
<1>1. CursorIn(c, text') /\ text' \in Text
  BY MoveStays
<1>2. Placed'
  BY <1>1, SyncOneIs
<1> QED  BY <1>2, MoveIs

LEMMA OneMoreKeeps ==
  ASSUME EditorInv, Move, NEW z \in Set(Len(text)), NEW c \in Spot, CursorIn(c, text),
         SyncToNative(AddCursor(z, c)), _overwriteMode' \in BOOLEAN, _altGesture' \in BOOLEAN
  PROVE  EditorInv'
<1>1. PICK N \in Nat : N = Len(text)
  BY PlacedIs DEF EditorInv
<1>2. text' \in Text /\ Len(text') = N
  BY <1>1, MoveStays
<1>3. AddCursor(z, c) \in Set(N)
  BY <1>1, AddCursorIs DEF CursorIn
<1>4. Placed'
  BY <1>2, <1>3, SyncIs
<1> QED  BY <1>4, MoveIs

LEMMA SelectNextKeeps ==
  ASSUME EditorInv, SelectNextOccurrence
  PROVE  EditorInv'
<1> DEFINE set == Refreshed
           main == set.cursors[set.main]
           from == IF HasSelection(main) THEN main ELSE WordAt(main.pos)
           needle == Selected(text, from)
<1>1. /\ Move
      /\ IF ~HasSelection(main) /\ ~IsMultiple(set.cursors) THEN SyncFromNative(from)
         ELSE \E p \in NextOccurrence(needle, SelEnd(from)) : SyncToNative(AddCursor(set, Cursor(p, p + Len(needle))))
      /\ _overwriteMode' = _overwriteMode /\ _altGesture' = _altGesture
  BY DEF SelectNextOccurrence
<1>2. PICK N \in Nat : N = Len(text) /\ text \in Text
  BY PlacedIs DEF EditorInv, Placed
<1>3. set \in Set(N)
  BY <1>2, RefreshedIs DEF EditorInv
<1>4. main \in Spot /\ CursorIn(main, text)
  BY <1>2, <1>3, SetIs DEF SpotsWithin, CursorIn
<1>5. from \in Spot /\ CursorIn(from, text)
  <2>1. PICK p \in 0..N : p = main.pos
    BY <1>2, <1>4 DEF CursorIn
  <2>2. RunStart(text, p, Word) \in 0..N /\ RunEnd(text, p, Word) \in 0..N
    BY <1>2, NoEnd, RunStartIs, RunEndIs
  <2>3. WordAt(p) \in Spot /\ CursorIn(WordAt(p), text)
    BY <1>2, <2>2, CursorIs DEF WordAt, CursorIn
  <2> HIDE DEF main
  <2> QED  BY <1>4, <2>1, <2>3
<1>6. ASSUME NEW p \in NextOccurrence(needle, SelEnd(from))
      PROVE  Cursor(p, p + Len(needle)) \in Spot /\ CursorIn(Cursor(p, p + Len(needle)), text)
  <2> HIDE DEF from
  <2>1. needle \in Text
    BY <1>2, <1>5, SelectedIs
  <2>2. PICK m \in Nat : m = Len(needle)
    BY <2>1 DEF Text
  <2> DEFINE all == {q \in 0..N - m : SubSeq(text, q + 1, q + m) = needle}
             further == {q \in all : q >= SelEnd(from)}
  <2> HIDE DEF needle
  <2>3. NextOccurrence(needle, SelEnd(from)) = IF further # {} THEN {Min(further)} ELSE IF all # {} THEN {Min(all)} ELSE {}
    BY <1>2, <2>2 DEF NextOccurrence, Occurrences
  <2>4. all \subseteq 0..N - m /\ further \subseteq all
    OBVIOUS
  <2> HIDE DEF all, further
  <2>5. all \subseteq Nat /\ further \subseteq Nat
    BY <2>4
  <2>6. p \in 0..N - m
    BY <2>3, <2>4, <2>5, MinIs
  <2>7. p \in 0..N /\ p + m \in 0..N
    BY <2>2, <2>6
  <2> QED  BY <1>2, <2>2, <2>7, CursorIs DEF CursorIn
<1>7. _overwriteMode' \in BOOLEAN /\ _altGesture' \in BOOLEAN
  BY <1>1 DEF EditorInv, Flagged
<1>8. CASE ~HasSelection(main) /\ ~IsMultiple(set.cursors)
  <2>1. SyncFromNative(from)
    BY <1>1, <1>8
  <2> HIDE DEF from
  <2> QED  BY <1>1, <1>5, <1>7, <2>1, AloneKeeps
<1>9. CASE ~(~HasSelection(main) /\ ~IsMultiple(set.cursors))
  <2>1. PICK p \in NextOccurrence(needle, SelEnd(from)) : SyncToNative(AddCursor(set, Cursor(p, p + Len(needle))))
    BY <1>1, <1>9
  <2>2. PICK c \in Spot : c = Cursor(p, p + Len(needle)) /\ CursorIn(c, text)
    BY <1>6
  <2>3. SyncToNative(AddCursor(set, c))
    BY <2>1, <2>2
  <2> HIDE DEF needle, from, main, set
  <2> QED  BY <1>1, <1>2, <1>3, <1>7, <2>2, <2>3, OneMoreKeeps
<1> QED  BY <1>8, <1>9

LEMMA AdjacentLineKeeps ==
  ASSUME EditorInv, NEW below \in BOOLEAN, AddCursorOnAdjacentLine(below)
  PROVE  EditorInv'
<1> DEFINE set == Refreshed
           p == set.cursors[set.main].pos
           start == LineStart(text, p)
           col == Column(text, start, p)
           target == IF below THEN LineEnd(text, p) + 1 ELSE LineStart(text, start - 1)
<1>1. /\ IF below THEN LineEnd(text, p) < Len(text) ELSE start > 0
      /\ Move /\ SyncToNative(AddCursor(set, caretAtColumn(text, target, col)))
      /\ _overwriteMode' = _overwriteMode /\ _altGesture' = _altGesture
  BY DEF AddCursorOnAdjacentLine
<1>2. PICK N \in Nat : N = Len(text) /\ text \in Text
  BY PlacedIs DEF EditorInv, Placed
<1>3. set \in Set(N)
  BY <1>2, RefreshedIs DEF EditorInv
<1>4. PICK q \in 0..N : q = p
  BY <1>2, <1>3, SetIs DEF SpotsWithin
<1> HIDE DEF p
<1>5. LineEnd(text, q) \in 0..N /\ LineStart(text, q) \in 0..q
  BY <1>2, LineEndIs, LineStartIs
<1>6. target \in 0..Len(text)
  <2>1. CASE below
    <3>1. LineEnd(text, q) < N
      BY <1>1, <1>2, <1>4, <2>1
    <3> QED  BY <1>2, <1>4, <1>5, <2>1, <3>1
  <2>2. CASE ~below
    <3>1. PICK r \in Nat : r = LineStart(text, q) - 1 /\ r <= N
      BY <1>1, <1>4, <1>5, <2>2
    <3>2. LineStart(text, r) \in 0..N
      BY <1>2, <3>1, LineStartIs
    <3> QED  BY <1>2, <1>4, <2>2, <3>1, <3>2
  <2> QED  BY <2>1, <2>2
<1> HIDE DEF target, col
<1>7. caretAtColumn(text, target, col) \in Spot /\ CursorIn(caretAtColumn(text, target, col), text)
  BY <1>2, <1>6, CaretAtColumnIs
<1>8. _overwriteMode' \in BOOLEAN /\ _altGesture' \in BOOLEAN
  BY <1>1 DEF EditorInv, Flagged
<1> HIDE DEF set
<1> QED  BY <1>1, <1>2, <1>3, <1>7, <1>8, OneMoreKeeps

-----------------------------------------------------------------------------
(* What leaves the document alone.                                          *)
LEMMA CopyKeeps ==
  ASSUME EditorInv, Copy
  PROVE  EditorInv'
<1>1. /\ clipboard' = SelectedText(Refreshed.cursors) /\ moves < MaxMoves /\ moves' = moves + 1
      /\ UNCHANGED <<document, native, cursors, mainIndex, histories, _overwriteMode, _altGesture, strayed, edits>>
  BY DEF Copy, Movable
<1>2. Stays /\ native' = native /\ cursors' = cursors /\ mainIndex' = mainIndex
      /\ _overwriteMode' = _overwriteMode /\ _altGesture' = _altGesture
  BY <1>1 DEF document, histories, Stays
<1>3. clipboard' \in Text
  <2>1. PICK N \in Nat : N = Len(text) /\ text \in Text
    BY PlacedIs DEF EditorInv, Placed
  <2>2. Refreshed \in Set(N)
    BY <2>1, RefreshedIs DEF EditorInv
  <2>3. Refreshed.cursors \in Seq(Spot) /\ SpotsWithin(Refreshed.cursors, N)
    BY <2>1, <2>2, SetIs
  <2> QED  BY <1>1, <2>1, <2>3, SelectedTextIs
<1>4. text' \in Text /\ Stacked' /\ SnapshotsFit' /\ (~strayed' => Linked')
  BY <1>2, StaysIs
<1>5. Placed'
  BY <1>2 DEF EditorInv, Placed, Stays, SpotsWithin, CursorIn
<1>6. moves' \in 0..MaxMoves
  BY <1>1, EditorAssumption DEF EditorInv, Flagged
<1>7. Flagged'
  BY <1>2, <1>3, <1>6 DEF EditorInv, Flagged, Stays
<1> QED  BY <1>4, <1>5, <1>7 DEF EditorInv

LEMMA EscapeKeeps ==
  ASSUME EditorInv, Escape
  PROVE  EditorInv'
<1>1. Move /\ SyncFromNative(Caret(cursors[mainIndex].pos)) /\ _overwriteMode' = _overwriteMode /\ _altGesture' = _altGesture
  BY DEF Escape
<1>2. PICK N \in Nat : N = Len(text)
  BY PlacedIs DEF EditorInv
<1>3. PICK p \in 0..N : p = cursors[mainIndex].pos
  BY <1>2 DEF EditorInv, Placed, SpotsWithin
<1>4. Caret(p) \in Spot /\ CursorIn(Caret(p), text)
  BY <1>2, CaretIs DEF CursorIn
<1>5. SyncFromNative(Caret(p)) /\ _overwriteMode' \in BOOLEAN /\ _altGesture' \in BOOLEAN
  BY <1>1, <1>3 DEF EditorInv, Flagged
<1> QED  BY <1>1, <1>4, <1>5, AloneKeeps

LEMMA InsertKeyKeeps ==
  ASSUME EditorInv, InsertKey
  PROVE  EditorInv'
<1>1. /\ Move /\ cursors' = Refreshed.cursors /\ mainIndex' = Refreshed.main
      /\ native' = native /\ _altGesture' = _altGesture
  BY DEF InsertKey
<1>2. _overwriteMode' \in BOOLEAN
  BY Zenon DEF InsertKey
<1>3. text' = text /\ text \in Text
  BY <1>1, MoveStays
<1>4. PICK N \in Nat : N = Len(text)
  BY PlacedIs DEF EditorInv
<1>5. Refreshed \in Set(N)
  BY <1>4, RefreshedIs DEF EditorInv
<1>6. PICK cs \in Seq(Spot), k \in Nat :
        cs = Refreshed.cursors /\ k = Refreshed.main /\ cs # <<>> /\ SpotsWithin(cs, N) /\ k \in 1..Len(cs)
  BY <1>4, <1>5, SetIs
<1>7. cursors' = cs /\ mainIndex' = k
  BY <1>1, <1>6
<1>8. SpotsWithin(cursors', Len(text')) /\ CursorIn(native', text') /\ native' \in Spot
  BY <1>1, <1>3, <1>4, <1>6, <1>7 DEF EditorInv, Placed
<1>9. Placed'
  BY <1>3, <1>6, <1>7, <1>8 DEF Placed, SpotsWithin, CursorIn
<1> QED  BY <1>1, <1>2, <1>9, MoveIs DEF EditorInv, Flagged

(* The mouse.                                                               *)
LEMMA ClickKeeps ==
  ASSUME EditorInv, NEW p \in 0..Len(text), NEW a \in 0..p, Click(a, p)
  PROVE  EditorInv'
<1>1. Move /\ SyncFromNative(Cursor(a, p)) /\ _altGesture' = FALSE /\ _overwriteMode' = _overwriteMode
  BY DEF Click
<1>2. PICK N \in Nat : N = Len(text)
  BY PlacedIs DEF EditorInv
<1>3. a \in 0..N /\ p \in 0..N
  BY <1>2
<1>4. Cursor(a, p) \in Spot /\ CursorIn(Cursor(a, p), text)
  BY <1>2, <1>3, CursorIs DEF CursorIn
<1>5. _overwriteMode' \in BOOLEAN /\ _altGesture' \in BOOLEAN
  BY <1>1 DEF EditorInv, Flagged
<1> QED  BY <1>1, <1>4, <1>5, AloneKeeps

LEMMA AltClickKeeps ==
  ASSUME EditorInv, NEW p \in 0..Len(text), AltClick(p)
  PROVE  EditorInv'
<1> DEFINE z == [cursors |-> cursors, main |-> mainIndex]
<1>1. Move /\ SyncToNative(AddCursor(z, Caret(p))) /\ _altGesture' = TRUE /\ _overwriteMode' = _overwriteMode
  BY DEF AltClick
<1>2. PICK N \in Nat : N = Len(text)
  BY PlacedIs DEF EditorInv
<1>3. z \in Set(N)
  BY <1>2, MakeSet DEF EditorInv, Placed
<1>4. Caret(p) \in Spot /\ CursorIn(Caret(p), text)
  BY <1>2, CaretIs DEF CursorIn
<1>5. _overwriteMode' \in BOOLEAN /\ _altGesture' \in BOOLEAN
  BY <1>1 DEF EditorInv, Flagged
<1> HIDE DEF z
<1> QED  BY <1>1, <1>2, <1>3, <1>4, <1>5, OneMoreKeeps

LEMMA AltDragKeeps ==
  ASSUME EditorInv, NEW p \in 0..Len(text), AltDrag(p)
  PROVE  EditorInv'
<1> DEFINE cs == [cursors EXCEPT ![mainIndex].pos = p]
           z == [cursors |-> cs, main |-> mainIndex]
<1>1. Move /\ SyncToNative(z) /\ _overwriteMode' = _overwriteMode /\ _altGesture' = _altGesture
  BY DEF AltDrag
<1>2. PICK N \in Nat, n \in Nat : N = Len(text) /\ n = Len(cursors) /\ n >= 1
  BY PlacedIs DEF EditorInv
<1>3. cursors \in [1..n -> Spot] /\ mainIndex \in 1..n /\ SpotsWithin(cursors, N)
  BY <1>2 DEF EditorInv, Placed
<1> DEFINE c == [cursors[mainIndex] EXCEPT !.pos = p]
<1>4. c \in Spot /\ c.anchor = cursors[mainIndex].anchor /\ c.pos = p /\ p \in 0..N
  BY <1>2, <1>3 DEF Spot
<1>5. cs = [cursors EXCEPT ![mainIndex] = c]
  BY <1>3
<1> HIDE DEF c, cs
<1>6. cs \in [1..n -> Spot] /\ \A i \in 1..n : cs[i] = IF i = mainIndex THEN c ELSE cursors[i]
  BY <1>3, <1>4, <1>5
<1>7. cs \in Seq(Spot) /\ Len(cs) = n /\ cs # <<>>
  BY <1>2, <1>6
<1>8. SpotsWithin(cs, N)
  <2>1. \A i \in 1..n : cursors[i].anchor \in 0..N /\ cursors[i].pos \in 0..N
    BY <1>2, <1>3 DEF SpotsWithin
  <2>2. \A i \in 1..n : cs[i].anchor \in 0..N /\ cs[i].pos \in 0..N
    <3> SUFFICES ASSUME NEW i \in 1..n PROVE cs[i].anchor \in 0..N /\ cs[i].pos \in 0..N
      OBVIOUS
    <3>1. CASE i = mainIndex
      BY <1>3, <1>4, <1>6, <2>1, <3>1
    <3>2. CASE i # mainIndex
      BY <1>6, <2>1, <3>2
    <3> QED  BY <3>1, <3>2
  <2> QED  BY <1>7, <2>2 DEF SpotsWithin
<1>9. z \in Set(N)
  BY <1>3, <1>7, <1>8, MakeSet
<1> HIDE DEF z
<1>10. text' \in Text /\ Len(text') = N
  BY <1>1, <1>2, MoveStays
<1>11. Placed'
  BY <1>1, <1>9, <1>10, SyncIs
<1> QED  BY <1>1, <1>11, MoveIs DEF EditorInv, Flagged

LEMMA ReleaseKeeps ==
  ASSUME EditorInv, Release
  PROVE  EditorInv'
BY DEF Release, document, histories, EditorInv, Placed, Stacked, SnapshotsFit, Flagged, Linked,
       SpotsWithin, CursorIn, Back, Forth

LEMMA JumpKeeps ==
  ASSUME EditorInv, NEW p \in 0..Len(text) - 1, SetTextCursor(p)
  PROVE  EditorInv'
<1>1. /\ Move /\ native' = Cursor(p, p + 1) /\ cursors' = cursors /\ mainIndex' = mainIndex
      /\ _overwriteMode' = _overwriteMode /\ _altGesture' = _altGesture
  BY DEF SetTextCursor
<1>2. PICK N \in Nat : N = Len(text)
  BY PlacedIs DEF EditorInv
<1>3. p \in 0..N /\ p + 1 \in 0..N
  BY <1>2
<1>4. native' \in Spot /\ CursorIn(native', text)
  BY <1>1, <1>2, <1>3, CursorIs DEF CursorIn
<1>5. text' = text /\ text \in Text
  BY <1>1, MoveStays
<1>6. Placed'
  BY <1>1, <1>4, <1>5 DEF EditorInv, Placed, SpotsWithin, CursorIn
<1> QED  BY <1>1, <1>6, MoveIs DEF EditorInv, Flagged

-----------------------------------------------------------------------------
(* Edits that do not pass the handlers.                                     *)
Base == Document(text, Append(cursors, native))

LEMMA BaseIs ==
  ASSUME Placed
  PROVE  \E n \in Nat : n = Len(cursors) /\ n >= 1 /\ Base \in Docs(n + 1) /\ n + 1 \in 1..n + 1
<1>1. PICK n \in Nat, N \in Nat : n = Len(cursors) /\ N = Len(text) /\ n >= 1
  BY PlacedIs
<1>2. cursors \in Seq(Spot) /\ native \in Spot /\ SpotsWithin(cursors, N) /\ text \in Text
      /\ native.anchor \in 0..N /\ native.pos \in 0..N
  BY <1>1 DEF Placed, CursorIn
<1> DEFINE cs == Append(cursors, native)
<1>3. cs \in Seq(Spot) /\ Len(cs) = n + 1 /\ cs[n + 1] = native /\ \A i \in 1..n : cs[i] = cursors[i]
  BY <1>1, <1>2
<1> HIDE DEF cs
<1>4. SpotsWithin(cs, N)
  <2> SUFFICES ASSUME NEW i \in 1..n + 1 PROVE cs[i].anchor \in 0..N /\ cs[i].pos \in 0..N
    BY <1>3 DEF SpotsWithin
  <2>1. CASE i = n + 1
    BY <1>2, <1>3, <2>1
  <2>2. CASE i \in 1..n
    BY <1>1, <1>2, <1>3, <2>2 DEF SpotsWithin
  <2> QED  BY <2>1, <2>2
<1>5. Document(text, cs) \in Docs(Len(cs))
  BY <1>1, <1>2, <1>3, <1>4, DocumentIs
<1>6. Document(text, cs) \in Docs(n + 1)
  BY <1>3, <1>5
<1> QED  BY <1>1, <1>6 DEF Base, cs

(* The cursors of the set go along, and the native one.                     *)
LEMMA AlongIs ==
  ASSUME NEW n \in Nat, n >= 1, NEW d \in Docs(n + 1), NEW k \in 1..n,
         text' \in Text, Len(text') = Len(d.text), cursors' = Front(d.cursors), mainIndex' = k,
         native' \in Spot, CursorIn(native', text')
  PROVE  Placed'
<1>1. PICK N \in Nat : N = Len(d.text)
  BY DocIs
<1>2. PICK cs \in [1..n + 1 -> Spot] : cs = d.cursors /\ \A i \in 1..n + 1 : cs[i].anchor \in 0..N /\ cs[i].pos \in 0..N
  BY <1>1, DocIs
<1>3. cs \in Seq(Spot) /\ Len(cs) = n + 1 /\ cs # <<>>
  <2>1. PICK m \in Nat : m = n + 1 /\ m >= 1
    OBVIOUS
  <2>2. cs \in [1..m -> Spot]
    BY <1>2, <2>1
  <2>3. cs \in Seq(Spot) /\ Len(cs) = m /\ cs # <<>>
    BY <2>1, <2>2
  <2> QED  BY <2>1, <2>3
<1>4. PICK f \in Seq(Spot) : f = Front(cs) /\ Len(f) = n /\ \A i \in 1..n : f[i] = cs[i]
  BY <1>3, FrontIs
<1>5. f # <<>> /\ cursors' = f
  BY <1>2, <1>4
<1>0. SpotsWithin(f, N)
  <2>1. \A i \in 1..n : f[i].anchor \in 0..N /\ f[i].pos \in 0..N
    <3> SUFFICES ASSUME NEW i \in 1..n PROVE f[i].anchor \in 0..N /\ f[i].pos \in 0..N
      OBVIOUS
    <3>1. f[i] = cs[i] /\ i \in 1..n + 1
      BY <1>4
    <3> QED  BY <1>2, <3>1
  <2> QED  BY <1>4, <2>1 DEF SpotsWithin
<1>6. SpotsWithin(cursors', Len(text'))
  BY <1>0, <1>1, <1>5
<1>7. cursors' \in Seq(Spot) /\ cursors' # <<>> /\ mainIndex' \in 1..Len(cursors')
  BY <1>4, <1>5
<1> QED  BY <1>6, <1>7 DEF Placed, SpotsWithin, CursorIn

LEMMA ForeignEditKeeps ==
  ASSUME EditorInv, NEW n \in Nat, n = Len(cursors), n >= 1, NEW d \in Docs(n + 1), ForeignEdit(d)
  PROVE  EditorInv' /\ strayed'
<1>1. /\ Edit /\ Edited(d) /\ native' = d.cursors[Len(d.cursors)] /\ cursors' = Front(d.cursors) /\ strayed' = TRUE
      /\ UNCHANGED <<mainIndex, histories, _overwriteMode, clipboard>>
  BY DEF ForeignEdit
<1>2. text' = d.text /\ text' \in Text /\ Stacked'
  BY <1>1, EditedIs DEF EditorInv
<1>3. Len(d.cursors) = n + 1
  <2>1. PICK cs \in [1..n + 1 -> Spot] : cs = d.cursors
    BY DocIs
  <2>2. Len(cs) = n + 1
    <3>1. PICK m \in Nat : m = n + 1
      OBVIOUS
    <3>2. cs \in [1..m -> Spot]
      BY <3>1
    <3> QED  BY <3>1, <3>2
  <2> QED  BY <2>1, <2>2
<1>4. native' \in Spot /\ CursorIn(native', text')
  <2>1. n + 1 \in 1..n + 1
    OBVIOUS
  <2>2. d.cursors[n + 1] \in Spot /\ d.cursors[n + 1].anchor \in 0..Len(d.text) /\ d.cursors[n + 1].pos \in 0..Len(d.text)
    BY <2>1, DocIs
  <2>3. native' = d.cursors[n + 1]
    BY <1>1, <1>3
  <2> QED  BY <1>2, <2>2, <2>3 DEF CursorIn
<1>5. mainIndex \in 1..n /\ mainIndex' = mainIndex
  BY <1>1 DEF EditorInv, Placed
<1>6. Placed'
  <2>1. Len(text') = Len(d.text)
    BY <1>2
  <2> QED  BY <1>1, <1>2, <1>4, <1>5, <2>1, AlongIs
<1>7. SnapshotsFit'
  BY <1>1 DEF histories, EditorInv, SnapshotsFit
<1>8. Flagged'
  BY <1>1, FlaggedIs DEF EditorInv, Flagged
<1> QED  BY <1>1, <1>2, <1>6, <1>7, <1>8 DEF EditorInv

LEMMA ForeignStepKeeps ==
  ASSUME EditorInv, NEW back \in BOOLEAN, ForeignStep(back)
  PROVE  EditorInv' /\ strayed'
<1> DEFINE s == Step(Base, text')
<1>1. /\ Edit /\ (DocumentUndo \/ DocumentRedo) /\ strayed' = TRUE /\ cursors' = Front(s.doc.cursors)
      /\ \E p \in s.places : native' = Caret(p)
      /\ UNCHANGED <<mainIndex, histories, _overwriteMode, clipboard>>
  BY DEF ForeignStep, Base
<1>2. text' \in Text /\ Stacked'
  BY <1>1, DocumentUndoIs, DocumentRedoIs DEF EditorInv
<1>3. PICK n \in Nat, N \in Nat : n = Len(cursors) /\ n >= 1 /\ Base \in Docs(n + 1) /\ N = Len(text')
  BY <1>2, BaseIs DEF EditorInv, Text
<1>4. n + 1 \in Nat
  OBVIOUS
<1>5. s.doc \in Docs(n + 1) /\ Len(s.doc.text) = N /\ s.places \subseteq 0..N
  BY <1>2, <1>3, <1>4, StepIs
<1>6. PICK p \in s.places : native' = Caret(p)
  BY <1>1
<1> HIDE DEF s
<1>7. p \in 0..N
  BY <1>5
<1>8. native' \in Spot /\ CursorIn(native', text')
  BY <1>3, <1>6, <1>7, CaretIs DEF CursorIn
<1>9. mainIndex \in 1..n /\ mainIndex' = mainIndex
  BY <1>1, <1>3 DEF EditorInv, Placed
<1>10. Placed'
  BY <1>1, <1>2, <1>3, <1>5, <1>8, <1>9, AlongIs
<1>11. SnapshotsFit'
  BY <1>1 DEF histories, EditorInv, SnapshotsFit
<1>12. Flagged'
  <2>1. Edit /\ strayed' \in BOOLEAN /\ clipboard' = clipboard /\ _overwriteMode' = _overwriteMode
    BY <1>1, Zenon
  <2> QED  BY <2>1, FlaggedIs DEF EditorInv, Flagged
<1> QED  BY <1>1, <1>2, <1>10, <1>11, <1>12 DEF EditorInv

LEMMA PastTheHandlersKeeps ==
  ASSUME EditorInv, PastTheHandlers
  PROVE  EditorInv' /\ strayed'
<1>1. PICK n \in Nat : n = Len(cursors) /\ n >= 1 /\ Base \in Docs(n + 1) /\ n + 1 \in 1..n + 1
  BY BaseIs DEF EditorInv
<1>2. n + 1 \in Nat
  OBVIOUS
<1>3. CASE ForeignEdit(ThroughLast(RemoveSelected))
  <2>1. ForeignEdit(RemoveSelected(Base, n + 1))
    BY <1>1, <1>3 DEF ThroughLast, Base
  <2>2. RemoveSelected(Base, n + 1) \in Docs(n + 1)
    BY <1>1, <1>2, TogetherRemoved
  <2> QED  BY <1>1, <2>1, <2>2, ForeignEditKeeps
<1>4. CASE ForeignEdit(ThroughLast(LAMBDA d, i : InsertText(d, i, clipboard)))
  <2>1. ForeignEdit(InsertText(Base, n + 1, clipboard))
    BY <1>1, <1>4 DEF ThroughLast, Base
  <2>2. InsertText(Base, n + 1, clipboard) \in Docs(n + 1)
    BY <1>1, <1>2, TogetherInserted DEF EditorInv, Flagged
  <2> QED  BY <1>1, <2>1, <2>2, ForeignEditKeeps
<1>5. CASE ForeignEdit(ThroughLast(Complete))
  <2>1. ForeignEdit(Complete(Base, n + 1))
    BY <1>1, <1>5 DEF ThroughLast, Base
  <2>2. Complete(Base, n + 1) \in Docs(n + 1)
    BY <1>1, <1>2, CompleteKeeps
  <2> QED  BY <1>1, <2>1, <2>2, ForeignEditKeeps
<1>6. CASE ForeignEdit(ThroughLast(ReplaceSelection))
  <2>1. ForeignEdit(ReplaceSelection(Base, n + 1))
    BY <1>1, <1>6 DEF ThroughLast, Base
  <2>2. ReplaceSelection(Base, n + 1) \in Docs(n + 1)
    BY <1>1, <1>2, ReplaceSelectionKeeps
  <2> QED  BY <1>1, <2>1, <2>2, ForeignEditKeeps
<1>7. CASE ForeignEdit(ThroughLast(ReplaceAllText))
  <2>1. ForeignEdit(ReplaceAllText(Base, n + 1))
    BY <1>1, <1>7 DEF ThroughLast, Base
  <2>2. ReplaceAllText(Base, n + 1) \in Docs(n + 1)
    BY <1>1, <1>2, ReplaceAllKeeps
  <2> QED  BY <1>1, <2>1, <2>2, ForeignEditKeeps
<1>8. CASE \E back \in BOOLEAN : ForeignStep(back)
  BY <1>8, ForeignStepKeeps
<1>9. \/ ForeignEdit(ThroughLast(RemoveSelected))
      \/ ~Multiple /\ ForeignEdit(ThroughLast(LAMBDA d, i : InsertText(d, i, clipboard)))
      \/ ForeignEdit(ThroughLast(Complete)) \/ ForeignEdit(ThroughLast(ReplaceSelection))
      \/ ForeignEdit(ThroughLast(ReplaceAllText)) \/ \E back \in BOOLEAN : ForeignStep(back)
  BY DEF PastTheHandlers
<1> QED  BY <1>3, <1>4, <1>5, <1>6, <1>7, <1>8, <1>9

-----------------------------------------------------------------------------
(* Every event, and what it leaves.                                         *)
LEMMA Wider ==
  ASSUME NEW S, NEW T, S \subseteq T, NEW t \in Seq(S)
  PROVE  t \in Seq(T)
<1>1. PICK n \in Nat : n = Len(t)
  OBVIOUS
<1>2. t \in [1..n -> T]
  <2>1. \A i \in 1..n : t[i] \in T
    BY <1>1
  <2>2. t = [i \in 1..n |-> t[i]]
    BY <1>1
  <2> QED  BY <2>1, <2>2
<1> QED  BY <1>2

LEMMA EditorBegins == EditorInit => EditorInv
<1> SUFFICES ASSUME EditorInit PROVE EditorInv
  OBVIOUS
<1> DEFINE z == [cursors |-> <<Caret(0)>>, main |-> 1]
           one == <<Caret(0)>>
           none == <<>>
<1>1. /\ text \in Texts /\ native = Caret(0) /\ cursors = one /\ mainIndex = 1
      /\ undoStack = none /\ redoStack = none /\ _multiUndoHistory = none /\ _multiRedoHistory = none
      /\ clipboard \in Pasted /\ edits = 0 /\ moves = 0
      /\ _overwriteMode \in BOOLEAN /\ _altGesture \in BOOLEAN /\ strayed \in BOOLEAN
  BY DEF EditorInit
<1>2. \A t \in Seq(STRING) : t \in Text
  <2> SUFFICES ASSUME NEW t \in Seq(STRING) PROVE t \in Seq(Char)
    BY DEF Text
  <2>1. STRING \subseteq Char
    BY DEF Char
  <2> HIDE DEF Char
  <2> QED  BY <2>1, Wider
<1>3. text \in Text /\ clipboard \in Text
  BY <1>1, <1>2, EditorAssumption
<1>4. PICK N \in Nat : N = Len(text)
  BY <1>3 DEF Text
<1>5. Caret(0) \in Spot /\ Caret(0).anchor \in 0..N /\ Caret(0).pos \in 0..N
  BY CaretIs
<1>6. z \in Set(N)
  BY <1>5, OneIs
<1>7. z.cursors = one /\ z.main = 1
  OBVIOUS
<1>8. none \in Seq(Text) /\ none \in Seq(Entries)
  OBVIOUS
<1>9. \A s \in Seq(Text) : Back(text, none, s) /\ Forth(text, none, s)
  BY NoHistory
<1> HIDE DEF z, one, none
<1>10. cursors \in Seq(Spot) /\ cursors # <<>> /\ SpotsWithin(cursors, N) /\ mainIndex \in 1..Len(cursors)
  BY <1>1, <1>6, <1>7, SetIs
<1>11. Placed
  BY <1>1, <1>3, <1>4, <1>5, <1>10 DEF Placed, CursorIn
<1>12. Stacked /\ SnapshotsFit /\ Linked
  BY <1>1, <1>8, <1>9 DEF Stacked, SnapshotsFit, Linked
<1>13. Flagged
  BY <1>1, <1>3, EditorAssumption DEF Flagged
<1> QED  BY <1>11, <1>12, <1>13 DEF EditorInv

(* What a step comes to: an edit that has passed the handlers leaves the     *)
(* cursors apart, another has strayed, and nothing else counts as an edit.   *)
Kept == EditorInv' /\ (edits' # edits /\ ~strayed' => Apart(cursors') /\ native' = cursors'[mainIndex'])

LEMMA KeysKeep ==
  ASSUME EditorInv, Keys
  PROVE  Kept
<1>1. CASE \/ \E ch \in Typed : TypeText(ch)
           \/ Backspace \/ DeleteKey \/ ReturnKey
           \/ \E b \in BOOLEAN : TabKey(b) \/ ChangeCase(b)
           \/ CutSelections \/ CutLines \/ Paste
  BY <1>1, TypeKeeps, BackspaceKeyKeeps, DeleteKeyKeeps, ReturnKeyKeeps, TabKeyKeeps, CaseKeeps,
     CutSelectionsKeeps, CutLinesKeeps, PasteKeyKeeps DEF After, Kept
<1>2. CASE UndoMultiEdit \/ RedoMultiEdit
  <2>1. edits' = edits
    BY <1>2 DEF UndoMultiEdit, RedoMultiEdit
  <2> QED  BY <1>2, <2>1, UndoKeeps, RedoKeeps DEF Kept
<1>3. CASE NativeUndo \/ NativeRedo
  <2>1. edits' = edits
    BY <1>3 DEF NativeUndo, NativeRedo
  <2> QED  BY <1>3, <2>1, NativeUndoKeeps DEF Kept
<1>4. ASSUME NEW keep \in BOOLEAN,
             \/ \E way \in Directions : MoveCursors(way, keep)
             \/ \E forward \in BOOLEAN : MoveByWord(forward, keep)
             \/ HomeKey(keep)
      PROVE  Kept
  <2>1. Move
    BY <1>4, Zenon DEF MoveCursors, MoveByWord, HomeKey
  <2>2. EditorInv'
    BY <1>4, MoveCursorsKeeps, MoveByWordKeeps, HomeKeyKeeps DEF After
  <2> QED  BY <2>1, <2>2, MoveStays DEF Kept
<1>5. CASE SelectNextOccurrence \/ Escape \/ InsertKey \/ \E b \in BOOLEAN : AddCursorOnAdjacentLine(b)
  <2>1. Move
    BY <1>5, Zenon DEF SelectNextOccurrence, Escape, InsertKey, AddCursorOnAdjacentLine
  <2>2. EditorInv'
    BY <1>5, SelectNextKeeps, EscapeKeeps, InsertKeyKeeps, AdjacentLineKeeps
  <2> QED  BY <2>1, <2>2, MoveStays DEF Kept
<1>6. CASE Copy
  <2>1. edits' = edits
    BY <1>6 DEF Copy
  <2> QED  BY <1>6, <2>1, CopyKeeps DEF Kept
<1> QED  BY <1>1, <1>2, <1>3, <1>4, <1>5, <1>6, Zenon DEF Keys

LEMMA MouseKeeps ==
  ASSUME EditorInv, Mouse \/ Jumps
  PROVE  Kept
<1>1. ASSUME NEW p \in 0..Len(text), \/ \E a \in 0..p : Click(a, p)
                                     \/ AltClick(p)
                                     \/ AltDrag(p)
      PROVE  Kept
  <2>1. Move
    BY <1>1, Zenon DEF Click, AltClick, AltDrag
  <2>2. EditorInv'
    BY <1>1, ClickKeeps, AltClickKeeps, AltDragKeeps
  <2> QED  BY <2>1, <2>2, MoveStays DEF Kept
<1>2. CASE Release
  <2>1. edits' = edits
    BY <1>2 DEF Release
  <2> QED  BY <1>2, <2>1, ReleaseKeeps DEF Kept
<1>3. ASSUME NEW p \in 0..Len(text) - 1, SetTextCursor(p)
      PROVE  Kept
  <2>1. Move
    BY <1>3 DEF SetTextCursor
  <2> QED  BY <1>3, <2>1, JumpKeeps, MoveStays DEF Kept
<1> QED  BY <1>1, <1>2, <1>3, Zenon DEF Mouse, Jumps

LEMMA EditorKeeps ==
  ASSUME EditorInv, [EditorNext]_editorVars
  PROVE  Kept
<1>1. CASE UNCHANGED editorVars
  BY <1>1 DEF editorVars, EditorInv, Placed, Stacked, SnapshotsFit, Flagged, Linked,
              SpotsWithin, CursorIn, Back, Forth, Kept
<1>2. CASE EditorNext
  BY <1>2, KeysKeep, MouseKeeps, PastTheHandlersKeeps DEF EditorNext, Kept
<1> QED  BY <1>1, <1>2

(* For every text, any number of cursors and any history of edits: every     *)
(* cursor is within the text, and the main one is one of the set             *)
(* (codeeditor.cpp, MultiCursor).                                            *)
THEOREM EditorTyped == EditorSpec => []EditorTypeOK
<1>1. EditorInv => EditorTypeOK
  <2> SUFFICES ASSUME EditorInv PROVE EditorTypeOK
    OBVIOUS
  <2>1. \A i \in DOMAIN cursors : CursorIn(cursors[i], text)
    BY CursorAt, CursorsDomain
  <2>2. mainIndex \in DOMAIN cursors
    BY CursorsDomain DEF EditorInv, Placed
  <2> QED  BY <2>1, <2>2 DEF EditorInv, Placed, Flagged, EditorTypeOK
<1>2. EditorInv /\ [EditorNext]_editorVars => EditorInv'
  BY EditorKeeps DEF Kept
<1> QED  BY <1>1, <1>2, EditorBegins, PTL DEF EditorSpec

(* The histories of cursor sets stay in step with the document's undo and    *)
(* redo stacks, however long they grow (recordMultiEditUndo, keyPressEvent). *)
THEOREM HistoriesInStep == EditorSpec => []InStep
<1>1. EditorInv => InStep
  <2> SUFFICES ASSUME EditorInv, ~strayed PROVE InStep
    BY DEF InStep
  <2>1. /\ _multiUndoHistory \in Seq(Entries) /\ _multiRedoHistory \in Seq(Entries)
        /\ undoStack \in Seq(Text) /\ redoStack \in Seq(Text)
    BY DEF EditorInv, SnapshotsFit, Stacked
  <2>2. PICK h \in Nat, u \in Nat : h = Len(_multiUndoHistory) /\ u = Len(undoStack)
    BY <2>1
  <2>3. PICK i \in Nat, r \in Nat : i = Len(_multiRedoHistory) /\ r = Len(redoStack)
    BY <2>1
  <2>4. DOMAIN _multiUndoHistory = 1..h /\ DOMAIN _multiRedoHistory = 1..i
    BY <2>1, <2>2, <2>3
  <2>5. h <= u /\ \A k \in 1..h : _multiUndoHistory[k].before = undoStack[k + (u - h)]
    BY <2>2 DEF EditorInv, Linked, Back
  <2>6. i <= r /\ \A k \in 1..i : _multiRedoHistory[k].after = redoStack[k + (r - i)]
    BY <2>3 DEF EditorInv, Linked, Forth
  <2>7. h - u <= 0 /\ \A k \in 1..h : k + (u - h) = k - (h - u)
    BY <2>5
  <2>8. i - r <= 0 /\ \A k \in 1..i : k + (r - i) = k - (i - r)
    BY <2>6
  <2> QED  BY <2>2, <2>3, <2>4, <2>5, <2>6, <2>7, <2>8 DEF InStep
<1>2. EditorInv /\ [EditorNext]_editorVars => EditorInv'
  BY EditorKeeps DEF Kept
<1> QED  BY <1>1, <1>2, EditorBegins, PTL DEF EditorSpec

(* Undo of an edit made through any number of cursors gives back the text    *)
(* and the cursors before it, redo those after it, whatever came in between  *)
(* (undoMultiEdit, redoMultiEdit, restoreCursorSnapshot).                    *)
THEOREM UndoGivesBack == EditorSpec => UndoRestores
<1> DEFINE Back2 == UndoMultiEdit /\ ~strayed =>
               LET e == Last(_multiUndoHistory) IN text' = e.before /\ ToSet(cursors') = ToSet(e.pre)
           Forth2 == RedoMultiEdit /\ ~strayed =>
               LET e == Last(_multiRedoHistory) IN text' = e.after /\ cursors' = e.post
<1>1. EditorInv => Back2 /\ Forth2
  BY UndoKeeps, RedoKeeps
<1>2. EditorInv /\ [EditorNext]_editorVars => EditorInv'
  BY EditorKeeps DEF Kept
<1> QED  BY <1>1, <1>2, EditorBegins, PTL DEF EditorSpec, UndoRestores

(* No key edits one place twice: after one that edits or moves every cursor, *)
(* for any number of cursors, no two of them touch (MultiCursor's            *)
(* mergeOverlapping, syncToNativeCursor).                                    *)
THEOREM CursorsStayApart == EditorSpec => CursorsApart
<1> DEFINE EditedAll == edits' # edits /\ ~strayed'
           MovedAll == \E way \in Directions, keep \in BOOLEAN : MoveCursors(way, keep)
           Shown == Apart(cursors') /\ native' = cursors'[mainIndex']
<1>1. EditorInv /\ [EditorNext]_editorVars => EditorInv' /\ (EditedAll => Shown)
  BY EditorKeeps DEF Kept
<1>2. EditorInv => (MovedAll => Shown)
  BY MoveCursorsKeeps DEF After
<1> QED  BY <1>1, <1>2, EditorBegins, PTL DEF EditorSpec, CursorsApart

-----------------------------------------------------------------------------
(* Where a pointer is in the list.                                          *)
LEMMA IndexIs ==
  ASSUME NEW list \in Seq(Addresses), NEW p
  PROVE  LET i == IndexOf(list, p) IN
         /\ i \in -1..Len(list) - 1
         /\ p \notin ToSet(list) => i = -1
         /\ p \in ToSet(list) => i >= 0 /\ list[i + 1] = p /\ \A k \in 1..i : list[k] # p
<1> DEFINE Is(i) == IF p \in ToSet(list)
                    THEN i >= 0 /\ list[i + 1] = p /\ \A k \in 1..i : list[k] # p ELSE i = -1
<1>1. \E i \in -1..Len(list) - 1 : Is(i)
  <2>1. CASE p \in ToSet(list)
    <3> DEFINE S == {i \in 1..Len(list) : list[i] = p}
    <3>1. S \subseteq Nat /\ S # {}
      BY <2>1 DEF ToSet
    <3>2. PICK m \in S : \A y \in S : ~(y < m)
      <4> HIDE DEF S
      <4> QED  BY <3>1, LeastNumber
    <3>3. m - 1 \in -1..Len(list) - 1 /\ m - 1 >= 0 /\ list[m - 1 + 1] = p
      BY <3>2
    <3>4. \A k \in 1..(m - 1) : list[k] # p
      BY <3>2
    <3> QED  BY <2>1, <3>3, <3>4
  <2>2. CASE p \notin ToSet(list)
    <3>1. -1 \in -1..Len(list) - 1
      OBVIOUS
    <3> QED  BY <2>2, <3>1
  <2> QED  BY <2>1, <2>2
<1>2. IndexOf(list, p) = CHOOSE i \in -1..Len(list) - 1 : Is(i)
  BY DEF IndexOf
<1>3. IndexOf(list, p) \in -1..Len(list) - 1 /\ Is(IndexOf(list, p))
  <2> HIDE DEF Is
  <2> QED  BY <1>1, <1>2
<1> QED  BY <1>3

(* The position is one of the list, or a half position next to one.         *)
InList(list, pos) ==
    list # <<>> => pos <= 2 * Len(list) - 1 /\ \A h \in Int : pos = 2 * h => h >= 0

LEMMA RemoveIs ==
  ASSUME NEW list \in Seq(Addresses), NEW pos \in Int, NEW p \in Addresses
  PROVE  LET r == RemoveBookmark(p, Listed(list, pos)) IN
         /\ r = Listed(r.list, r.pos)
         /\ r.list \in Seq(Addresses) /\ r.pos \in Int /\ r.pos >= -3
         /\ InList(r.list, r.pos)
         /\ IsInjective(list) => IsInjective(r.list) /\ ToSet(r.list) = ToSet(list) \ {p}
<1> DEFINE i == IndexOf(list, p)
           left == IF i < 0 THEN list ELSE RemoveAt(list, i + 1)
           at == IF i = 0 THEN 2 * Len(left) - 1 ELSE 2 * i - 1
<1>1. RemoveBookmark(p, Listed(list, pos)) = Listed(left, at)
  BY DEF RemoveBookmark, Listed
<1>2. Listed(left, at).list = left /\ Listed(left, at).pos = at
  BY DEF Listed
<1>3. /\ i \in -1..Len(list) - 1
      /\ p \notin ToSet(list) => i = -1
      /\ p \in ToSet(list) => i >= 0 /\ list[i + 1] = p /\ \A k \in 1..i : list[k] # p
  BY IndexIs
<1> HIDE DEF i
<1>4. /\ left \in Seq(Addresses)
      /\ i < 0 => left = list
      /\ i >= 0 => HasLess(left, list, i + 1)
  <2>1. CASE i < 0
    BY <1>3, <2>1
  <2>2. CASE i >= 0
    <3>1. i + 1 \in 1..Len(list)
      BY <1>3, <2>2
    <3> QED  BY <1>3, <2>2, <3>1, Removed
  <2> QED  BY <1>3, <2>1, <2>2
<1> HIDE DEF left
<1>5. i >= 0 => Len(left) = Len(list) - 1
  BY <1>4 DEF HasLess
<1>6. Len(left) \in Nat /\ (left # <<>> => Len(left) >= 1)
  BY <1>4
<1>7. at \in Int /\ at >= -3
  BY <1>3, <1>6
<1>8. InList(left, at)
  <2> SUFFICES ASSUME left # <<>>
               PROVE  at <= 2 * Len(left) - 1 /\ \A h \in Int : at = 2 * h => h >= 0
    BY DEF InList
  <2>1. at <= 2 * Len(left) - 1
    BY <1>3, <1>5, <1>6
  <2>2. \A h \in Int : at # 2 * h
    BY <1>3, <1>6
  <2> QED  BY <2>1, <2>2
<1>9. ASSUME IsInjective(list) PROVE IsInjective(left) /\ ToSet(left) = ToSet(list) \ {p}
  <2>1. CASE i < 0
    BY <1>3, <1>4, <1>9, <2>1
  <2>2. CASE i >= 0
    <3>1. p \in ToSet(list) /\ list[i + 1] = p /\ i + 1 \in 1..Len(list)
      BY <1>3, <2>2
    <3>2. \A k \in 1..Len(left) : left[k] = IF k < i + 1 THEN list[k] ELSE list[k + 1]
      BY <1>4, <1>5, <2>2 DEF HasLess
    <3>3. DOMAIN left = 1..Len(left) /\ DOMAIN list = 1..Len(list)
      BY <1>4
    <3>4. IsInjective(left)
      <4> SUFFICES ASSUME NEW k \in 1..Len(left), NEW l \in 1..Len(left), left[k] = left[l]
                   PROVE  k = l
        BY <3>3 DEF IsInjective
      <4> DEFINE f(x) == IF x < i + 1 THEN x ELSE x + 1
      <4>1. f(k) \in DOMAIN list /\ f(l) \in DOMAIN list
        BY <1>3, <1>5, <2>2, <3>3
      <4>2. list[f(k)] = list[f(l)]
        BY <3>2
      <4>3. f(k) = f(l)
        <5> HIDE DEF f
        <5> QED  BY <1>9, <4>1, <4>2 DEF IsInjective
      <4> QED  BY <1>3, <4>3
    <3>5. ASSUME NEW k \in 1..Len(left) PROVE left[k] \in ToSet(list) \ {p}
      <4> DEFINE f == IF k < i + 1 THEN k ELSE k + 1
      <4>1. f \in DOMAIN list /\ f # i + 1
        BY <1>3, <1>5, <2>2, <3>3
      <4>2. left[k] = list[f]
        BY <3>2
      <4> HIDE DEF f
      <4>3. list[f] # p
        BY <1>9, <3>1, <3>3, <4>1 DEF IsInjective
      <4> QED  BY <4>1, <4>2, <4>3 DEF ToSet
    <3>6. ASSUME NEW j \in 1..Len(list), list[j] # p PROVE \E k \in 1..Len(left) : left[k] = list[j]
      <4> DEFINE f == IF j < i + 1 THEN j ELSE j - 1
      <4>1. j # i + 1
        BY <3>1, <3>6
      <4>2. f \in 1..Len(left)
        BY <1>3, <1>5, <2>2, <3>1, <4>1
      <4>3. left[f] = list[j]
        <5>1. CASE j < i + 1
          BY <3>2, <4>2, <5>1
        <5>2. CASE ~(j < i + 1)
          <6>1. f = j - 1 /\ ~(f < i + 1) /\ f + 1 = j
            BY <1>3, <4>1, <5>2
          <6> HIDE DEF f
          <6> QED  BY <3>2, <4>2, <6>1
        <5> QED  BY <5>1, <5>2
      <4> QED  BY <4>2, <4>3
    <3>7. ToSet(left) = ToSet(list) \ {p}
      <4>1. ToSet(left) \subseteq ToSet(list) \ {p}
        BY <3>3, <3>5 DEF ToSet
      <4>2. ASSUME NEW x \in ToSet(list) \ {p} PROVE x \in ToSet(left)
        <5>1. PICK j \in 1..Len(list) : list[j] = x
          BY <3>3 DEF ToSet
        <5> QED  BY <3>3, <3>6, <5>1 DEF ToSet
      <4> QED  BY <4>1, <4>2
    <3> QED  BY <3>4, <3>7
  <2> QED  BY <1>3, <2>1, <2>2
<1> QED  BY <1>1, <1>2, <1>4, <1>7, <1>8, <1>9

(* The destructors of the data of some blocks.                              *)
LEMMA DestroyedIs ==
  ASSUME NEW list \in Seq(Addresses), NEW pos \in Int, pos >= -3, InList(list, pos),
         NEW data \in Seq(Addresses \cup {0})
  PROVE  LET d == Destroyed(Listed(list, pos), data) IN
         /\ d.list \in Seq(Addresses) /\ d.pos \in Int /\ d.pos >= -3
         /\ InList(d.list, d.pos)
         /\ IsInjective(list) => IsInjective(d.list) /\ ToSet(d.list) = ToSet(list) \ ToSet(data)
<1> DEFINE N == Len(data)
           m == Listed(list, pos)
           D == [list : Seq(Addresses), pos : Int]
           step == [k \in 1..N |-> [d \in D |-> IF data[k] = 0 THEN d ELSE RemoveBookmark(data[k], d)]]
           Is(g) == g = [k \in 0..N |->
                            IF k = 0 THEN m
                            ELSE IF data[k] = 0 THEN g[k - 1] ELSE RemoveBookmark(data[k], g[k - 1])]
<1>1. N \in Nat /\ \A k \in 1..N : data[k] \in Addresses \/ data[k] = 0
  OBVIOUS
<1>2. \A d \in D : d = Listed(d.list, d.pos) /\ d.list \in Seq(Addresses) /\ d.pos \in Int
  BY DEF Listed
<1>3. \A l \in Seq(Addresses), i \in Int : Listed(l, i) \in D
  BY DEF Listed
<1>4. m \in D /\ m.list = list /\ m.pos = pos
  BY <1>3 DEF Listed
<1>5. ASSUME NEW d \in D, NEW p \in Addresses PROVE RemoveBookmark(p, d) \in D
  <2>1. d = Listed(d.list, d.pos) /\ d.list \in Seq(Addresses) /\ d.pos \in Int
    BY <1>2
  <2>2. PICK r : r = RemoveBookmark(p, Listed(d.list, d.pos))
    OBVIOUS
  <2>3. r = Listed(r.list, r.pos) /\ r.list \in Seq(Addresses) /\ r.pos \in Int
    BY <2>1, <2>2, RemoveIs
  <2>4. r \in D
    <3> HIDE DEF D
    <3> QED  BY <1>3, <2>3
  <2> QED  BY <2>1, <2>2, <2>4
<1> HIDE DEF D
<1>6. step \in [1..N -> [D -> D]]
  BY <1>1, <1>5
<1>7. PICK g : Recurs(g, D, m, N, step)
  <2> HIDE DEF step, m, N
  <2> QED  BY <1>1, <1>4, <1>6, RecursionExists
<1>8. Is(g)
  <2>1. g \in [0..N -> D] /\ g = [k \in 0..N |-> IF k = 0 THEN m ELSE step[k][g[k - 1]]]
    <3> HIDE DEF step, m, N
    <3> QED  BY <1>7 DEF Recurs
  <2>2. \A k \in 0..N : k # 0 => k \in 1..N /\ k - 1 \in 0..N
    BY <1>1
  <2>3. \A k \in 0..N : k # 0 =>
          step[k][g[k - 1]] = IF data[k] = 0 THEN g[k - 1] ELSE RemoveBookmark(data[k], g[k - 1])
    <3> HIDE DEF m, N
    <3> QED  BY <2>1, <2>2
  <2> HIDE DEF step, m, N
  <2> QED  BY <2>1, <2>3
<1> DEFINE left == CHOOSE h : Is(h)
<1>9. Is(left)
  <2> HIDE DEF Is
  <2> QED  BY <1>8
<1>10. Destroyed(m, data) = left[N]
  BY DEF Destroyed
<1> HIDE DEF left, step
<1> DEFINE Good(k) ==
      /\ left[k] \in D /\ left[k].pos >= -3 /\ InList(left[k].list, left[k].pos)
      /\ IsInjective(list) =>
            /\ IsInjective(left[k].list)
            /\ ToSet(left[k].list) = ToSet(list) \ {data[j] : j \in 1..k}
    S == {k \in 0..N : Good(k)}
<1>11. left[0] = m /\ \A k \in 1..N :
          left[k] = IF data[k] = 0 THEN left[k - 1] ELSE RemoveBookmark(data[k], left[k - 1])
  <2>1. 0 \in 0..N /\ \A k \in 1..N : k \in 0..N /\ k # 0
    BY <1>1
  <2> HIDE DEF m, N
  <2> QED  BY <1>9, <2>1
<1>12. 0 \in S
  <2>1. {data[j] : j \in 1..0} = {}
    OBVIOUS
  <2> HIDE DEF m
  <2> QED  BY <1>1, <1>4, <1>11, <2>1
<1>13. ASSUME NEW k \in Nat, k < N, k \in S PROVE k + 1 \in S
  <2>1. k + 1 \in 1..N /\ k + 1 - 1 = k /\ k + 1 \in 0..N
    BY <1>1, <1>13
  <2>2. left[k + 1] = IF data[k + 1] = 0 THEN left[k] ELSE RemoveBookmark(data[k + 1], left[k])
    BY <1>11, <2>1
  <2>3. {data[j] : j \in 1..(k + 1)} = {data[j] : j \in 1..k} \cup {data[k + 1]}
    <3>1. \A j : j \in 1..(k + 1) <=> j \in 1..k \/ j = k + 1
      OBVIOUS
    <3> QED  BY <3>1
  <2>4. Good(k)
    BY <1>13
  <2>5. CASE data[k + 1] = 0
    <3>1. 0 \notin ToSet(list)
      BY BookmarksBounds DEF ToSet
    <3>2. ToSet(list) \ {data[j] : j \in 1..(k + 1)} = ToSet(list) \ {data[j] : j \in 1..k}
      BY <2>3, <2>5, <3>1
    <3>3. left[k + 1] = left[k]
      BY <2>2, <2>5
    <3> QED  BY <2>1, <2>4, <3>2, <3>3
  <2>6. CASE data[k + 1] # 0
    <3> DEFINE l == left[k].list
               i == left[k].pos
               p == data[k + 1]
    <3>1. left[k] = Listed(l, i) /\ l \in Seq(Addresses) /\ i \in Int /\ p \in Addresses
      BY <1>1, <1>2, <2>1, <2>4, <2>6
    <3>2. left[k + 1] = RemoveBookmark(p, Listed(l, i))
      BY <2>2, <2>6, <3>1
    <3> HIDE DEF l, i, p
    <3>3. PICK r : r = RemoveBookmark(p, Listed(l, i))
      OBVIOUS
    <3>4. /\ r = Listed(r.list, r.pos)
          /\ r.list \in Seq(Addresses) /\ r.pos \in Int /\ r.pos >= -3
          /\ InList(r.list, r.pos)
          /\ IsInjective(l) => IsInjective(r.list) /\ ToSet(r.list) = ToSet(l) \ {p}
      BY <3>1, <3>3, RemoveIs
    <3>5. r \in D
      BY <1>3, <3>4
    <3>6. ASSUME IsInjective(list)
          PROVE  IsInjective(r.list) /\ ToSet(r.list) = ToSet(list) \ {data[j] : j \in 1..(k + 1)}
      <4>1. IsInjective(l) /\ ToSet(l) = ToSet(list) \ {data[j] : j \in 1..k}
        BY <2>4, <3>6 DEF l
      <4>2. IsInjective(r.list) /\ ToSet(r.list) = ToSet(l) \ {p}
        BY <3>4, <4>1
      <4>3. (ToSet(list) \ {data[j] : j \in 1..k}) \ {p} = ToSet(list) \ ({data[j] : j \in 1..k} \cup {p})
        OBVIOUS
      <4> QED  BY <2>3, <4>1, <4>2, <4>3 DEF p
    <3>7. left[k + 1] = r
      BY <3>2, <3>3
    <3> QED  BY <2>1, <3>4, <3>5, <3>6, <3>7
  <2> QED  BY <2>5, <2>6
<1> HIDE DEF S
<1>14. 0..N \subseteq S
  BY <1>1, <1>12, <1>13, BoundedInduction
<1>15. Good(N)
  <2>1. N \in S
    BY <1>1, <1>14
  <2> QED  BY <2>1 DEF S
<1>16. {data[j] : j \in 1..N} = ToSet(data)
  BY DEF ToSet
<1>17. left[N].list \in Seq(Addresses) /\ left[N].pos \in Int
  BY <1>2, <1>15
<1> HIDE DEF Is, m, N
<1> QED  BY <1>10, <1>15, <1>16, <1>17 DEF m

-----------------------------------------------------------------------------
Marked(s) == ToSet(s) \ {0}
Single(s) == \A i, j \in DOMAIN s : s[i] # 0 /\ s[i] = s[j] => i = j
Others(e) == UNION {Marked(docs[f]) : f \in Editors \ {e}}

MarkTypes ==
    /\ docs \in [Editors -> Seq(Addresses \cup {0})]
    /\ \A e \in Editors : Len(docs[e]) \in 1..MaxLines
    /\ marks \in Seq(Addresses)
    /\ lastUsed \in Int /\ lastUsed >= -3 /\ InList(marks, lastUsed)
    /\ unlisted \in BOOLEAN
Alive ==
    /\ \A e \in Editors : Single(docs[e])
    /\ \A e, f \in Editors : e # f => Marked(docs[e]) \cap Marked(docs[f]) = {}
    /\ IsInjective(marks) /\ ToSet(marks) = Live
MarksInv == MarkTypes /\ (~unlisted => Alive)

LEMMA MarkedIs ==
  ASSUME NEW s \in Seq(Addresses \cup {0})
  PROVE  /\ Marked(s) \subseteq Addresses
         /\ \A x : x \in Marked(s) <=> x # 0 /\ \E i \in 1..Len(s) : s[i] = x
<1>1. DOMAIN s = 1..Len(s) /\ \A i \in 1..Len(s) : s[i] \in Addresses \cup {0}
  OBVIOUS
<1> QED  BY <1>1 DEF Marked, ToSet

LEMMA LiveIs ==
  ASSUME NEW e \in Editors
  PROVE  /\ Live = Others(e) \cup Marked(docs[e])
         /\ Alive => Others(e) \cap Marked(docs[e]) = {}
<1>1. ASSUME NEW x \in Live PROVE x \in Others(e) \cup Marked(docs[e])
  <2>1. PICK f \in Editors : x \in ToSet(docs[f]) /\ x # 0
    BY DEF Live
  <2>2. x \in Marked(docs[f])
    BY <2>1 DEF Marked
  <2> QED  BY <2>2 DEF Others
<1>2. ASSUME NEW x \in Others(e) \cup Marked(docs[e]) PROVE x \in Live
  <2>1. PICK f \in Editors : x \in Marked(docs[f])
    BY DEF Others
  <2> QED  BY <2>1 DEF Live, Marked
<1>3. Alive => Others(e) \cap Marked(docs[e]) = {}
  BY DEF Alive, Others
<1> QED  BY <1>1, <1>2, <1>3

(* Another text in an editor.                                               *)
LEMMA NewDoc ==
  ASSUME MarkTypes, NEW e \in Editors,
         NEW d \in Seq(Addresses \cup {0}), Len(d) \in 1..MaxLines,
         docs' = [docs EXCEPT ![e] = d]
  PROVE  /\ docs' \in [Editors -> Seq(Addresses \cup {0})]
         /\ \A f \in Editors : Len(docs'[f]) \in 1..MaxLines
         /\ Live' = Others(e) \cup Marked(d)
         /\ Alive /\ Single(d) /\ Others(e) \cap Marked(d) = {} =>
               /\ \A f \in Editors : Single(docs'[f])
               /\ \A f, g \in Editors : f # g => Marked(docs'[f]) \cap Marked(docs'[g]) = {}
<1>1. \A f \in Editors : docs'[f] = IF f = e THEN d ELSE docs[f]
  BY DEF MarkTypes
<1>2. docs' \in [Editors -> Seq(Addresses \cup {0})]
  BY DEF MarkTypes
<1>3. \A f \in Editors : Len(docs'[f]) \in 1..MaxLines
  BY <1>1 DEF MarkTypes
<1>4. Live' = Others(e) \cup Marked(d)
  <2>1. ASSUME NEW x \in Live' PROVE x \in Others(e) \cup Marked(d)
    <3>1. PICK f \in Editors : x \in ToSet(docs'[f]) /\ x # 0
      BY DEF Live
    <3>2. x \in Marked(docs'[f])
      BY <3>1 DEF Marked
    <3> QED  BY <1>1, <3>2 DEF Others
  <2>2. ASSUME NEW x \in Others(e) \cup Marked(d) PROVE x \in Live'
    <3>1. PICK f \in Editors : x \in Marked(docs'[f])
      BY <1>1 DEF Others
    <3> QED  BY <3>1 DEF Live, Marked
  <2> QED  BY <2>1, <2>2
<1>5. ASSUME Alive, Single(d), Others(e) \cap Marked(d) = {}
      PROVE  /\ \A f \in Editors : Single(docs'[f])
             /\ \A f, g \in Editors : f # g => Marked(docs'[f]) \cap Marked(docs'[g]) = {}
  <2>1. \A f \in Editors : Single(docs'[f])
    BY <1>1, <1>5 DEF Alive
  <2>2. ASSUME NEW f \in Editors, f # e PROVE Marked(docs[f]) \cap Marked(d) = {}
    BY <1>5, <2>2 DEF Others
  <2>3. ASSUME NEW f \in Editors, NEW g \in Editors, f # g
        PROVE  Marked(docs'[f]) \cap Marked(docs'[g]) = {}
    <3>1. CASE f = e
      BY <1>1, <2>2, <2>3, <3>1
    <3>2. CASE g = e
      BY <1>1, <2>2, <2>3, <3>2
    <3>3. CASE f # e /\ g # e
      BY <1>1, <1>5, <2>3, <3>3 DEF Alive
    <3> QED  BY <3>1, <3>2, <3>3
  <2> QED  BY <2>1, <2>3
<1> QED  BY <1>2, <1>3, <1>4, <1>5

(* Blocks go with their data.                                               *)
LEMMA Forgets ==
  ASSUME MarkTypes, Alive, NEW e \in Editors,
         NEW d \in Seq(Addresses \cup {0}), Len(d) \in 1..MaxLines,
         docs' = [docs EXCEPT ![e] = d],
         NEW data \in Seq(Addresses \cup {0}),
         Single(d), Marked(docs[e]) = Marked(d) \cup Marked(data), Marked(d) \cap Marked(data) = {},
         Keep(Destroyed(Present, data)), unlisted' = unlisted
  PROVE  MarksInv'
<1> DEFINE gone == Destroyed(Listed(marks, lastUsed), data)
<1>1. marks' = gone.list /\ lastUsed' = gone.pos
  BY DEF Keep, Present
<1>2. /\ gone.list \in Seq(Addresses) /\ gone.pos \in Int /\ gone.pos >= -3
      /\ InList(gone.list, gone.pos)
      /\ IsInjective(gone.list) /\ ToSet(gone.list) = ToSet(marks) \ ToSet(data)
  BY DestroyedIs DEF MarkTypes, Alive
<1> HIDE DEF gone
<1>3. Others(e) \cap Marked(docs[e]) = {} /\ Live = Others(e) \cup Marked(docs[e])
  BY LiveIs
<1>4. Others(e) \cap Marked(d) = {} /\ Others(e) \cap Marked(data) = {}
  BY <1>3
<1>5. /\ docs' \in [Editors -> Seq(Addresses \cup {0})]
      /\ \A f \in Editors : Len(docs'[f]) \in 1..MaxLines
      /\ Live' = Others(e) \cup Marked(d)
      /\ \A f \in Editors : Single(docs'[f])
      /\ \A f, g \in Editors : f # g => Marked(docs'[f]) \cap Marked(docs'[g]) = {}
  BY <1>4, NewDoc
<1>6. ToSet(marks') = Live'
  <2>1. 0 \notin Live
    BY DEF Live
  <2>2. Live \ ToSet(data) = Live \ Marked(data)
    BY <2>1 DEF Marked
  <2>3. Live \ Marked(data) = Others(e) \cup Marked(d)
    BY <1>3, <1>4
  <2> QED  BY <1>1, <1>2, <1>5, <2>2, <2>3 DEF Alive
<1>7. MarkTypes'
  BY <1>1, <1>2, <1>5 DEF MarkTypes
<1>8. Alive'
  BY <1>1, <1>2, <1>5, <1>6 DEF Alive
<1> QED  BY <1>7, <1>8 DEF MarksInv

-----------------------------------------------------------------------------
LEMMA ToggleOnKeeps ==
  ASSUME MarkTypes, Alive, NEW e \in Editors, NEW l \in DOMAIN docs[e], ToggleOn(e, l)
  PROVE  MarksInv'
<1>1. docs[e] \in Seq(Addresses \cup {0}) /\ l \in 1..Len(docs[e]) /\ docs[e][l] = 0
  BY DEF MarkTypes, ToggleOn
<1>2. PICK p : p = Free
  OBVIOUS
<1>3. p \in Addresses /\ p \notin Live
  BY <1>2 DEF Free, ToggleOn
<1>4. p # 0
  BY <1>3, BookmarksBounds
<1>5. PICK d : d = [docs[e] EXCEPT ![l] = p]
  OBVIOUS
<1>6. docs' = [docs EXCEPT ![e] = d]
  BY <1>2, <1>5 DEF ToggleOn
<1>7. /\ d \in Seq(Addresses \cup {0}) /\ Len(d) = Len(docs[e]) /\ d[l] = p
      /\ \A k \in 1..Len(docs[e]) : k # l => d[k] = docs[e][k]
  BY <1>1, <1>3, <1>5
<1>8. Live = Others(e) \cup Marked(docs[e]) /\ Others(e) \cap Marked(docs[e]) = {}
  BY LiveIs
<1>9. \A k \in 1..Len(docs[e]) : docs[e][k] # p
  BY <1>1, <1>3, <1>4, <1>8, MarkedIs
<1>10. Marked(d) = Marked(docs[e]) \cup {p}
  <2>1. ASSUME NEW x \in Marked(d) PROVE x \in Marked(docs[e]) \cup {p}
    BY <1>1, <1>7, <2>1, MarkedIs
  <2>2. ASSUME NEW x \in Marked(docs[e]) PROVE x \in Marked(d)
    BY <1>1, <1>7, <2>2, MarkedIs
  <2>3. p \in Marked(d)
    BY <1>1, <1>4, <1>7, MarkedIs
  <2> QED  BY <2>1, <2>2, <2>3
<1>11. Single(d)
  <2>1. Single(docs[e])
    BY DEF Alive
  <2>2. DOMAIN d = 1..Len(docs[e]) /\ DOMAIN docs[e] = 1..Len(docs[e])
    BY <1>1, <1>7
  <2> QED  BY <1>1, <1>7, <1>9, <2>1, <2>2 DEF Single
<1>12. Others(e) \cap Marked(d) = {}
  BY <1>3, <1>8, <1>10
<1>13. Len(d) \in 1..MaxLines
  BY <1>7 DEF MarkTypes
<1>14. /\ docs' \in [Editors -> Seq(Addresses \cup {0})]
       /\ \A f \in Editors : Len(docs'[f]) \in 1..MaxLines
       /\ Live' = Others(e) \cup Marked(d)
       /\ \A f \in Editors : Single(docs'[f])
       /\ \A f, g \in Editors : f # g => Marked(docs'[f]) \cap Marked(docs'[g]) = {}
  BY <1>6, <1>7, <1>11, <1>12, <1>13, NewDoc
<1>15. PICK n \in Nat : n = Len(marks)
  BY DEF MarkTypes
<1>16. marks' = Append(marks, p) /\ lastUsed' = 2 * n /\ unlisted' = unlisted
  BY <1>2, <1>15 DEF ToggleOn, Keep, Listed
<1>17. /\ marks' \in Seq(Addresses) /\ Len(marks') = n + 1 /\ marks'[n + 1] = p
       /\ \A k \in 1..n : marks'[k] = marks[k]
  BY <1>3, <1>15, <1>16 DEF MarkTypes
<1>18. DOMAIN marks' = 1..(n + 1) /\ DOMAIN marks = 1..n
  BY <1>15, <1>17 DEF MarkTypes
<1>19. \A k \in 1..n : marks[k] # p
  BY <1>3, <1>18 DEF Alive, ToSet
<1>20. IsInjective(marks')
  BY <1>17, <1>18, <1>19 DEF Alive, IsInjective
<1>21. ToSet(marks') = ToSet(marks) \cup {p}
  <2>1. ToSet(marks') \subseteq ToSet(marks) \cup {p}
    BY <1>17, <1>18 DEF ToSet
  <2>2. p \in ToSet(marks')
    BY <1>17, <1>18 DEF ToSet
  <2>3. ToSet(marks) \subseteq ToSet(marks')
    BY <1>17, <1>18 DEF ToSet
  <2> QED  BY <2>1, <2>2, <2>3
<1>22. InList(marks', lastUsed') /\ lastUsed' \in Int /\ lastUsed' >= -3
  BY <1>15, <1>16, <1>17 DEF InList
<1>23. MarkTypes'
  BY <1>14, <1>16, <1>17, <1>22 DEF MarkTypes
<1>24. Alive'
  BY <1>8, <1>10, <1>14, <1>20, <1>21 DEF Alive
<1> QED  BY <1>23, <1>24 DEF MarksInv

LEMMA ToggleOffKeeps ==
  ASSUME MarkTypes, Alive, NEW e \in Editors, NEW l \in DOMAIN docs[e], ToggleOff(e, l)
  PROVE  MarksInv'
<1>1. docs[e] \in Seq(Addresses \cup {0}) /\ l \in 1..Len(docs[e]) /\ docs[e][l] # 0
  BY DEF MarkTypes, ToggleOff
<1>2. PICK p : p = docs[e][l]
  OBVIOUS
<1>3. p \in Addresses /\ p # 0
  BY <1>1, <1>2
<1>4. PICK d : d = [docs[e] EXCEPT ![l] = 0]
  OBVIOUS
<1>5. docs' = [docs EXCEPT ![e] = d]
  BY <1>4 DEF ToggleOff
<1>6. /\ d \in Seq(Addresses \cup {0}) /\ Len(d) = Len(docs[e]) /\ d[l] = 0
      /\ \A k \in 1..Len(docs[e]) : k # l => d[k] = docs[e][k]
  BY <1>1, <1>4
<1>7. DOMAIN d = 1..Len(docs[e]) /\ DOMAIN docs[e] = 1..Len(docs[e]) /\ Single(docs[e])
  BY <1>1, <1>6 DEF Alive
<1>8. Single(d)
  BY <1>6, <1>7 DEF Single
<1>9. <<p>> \in Seq(Addresses \cup {0}) /\ Marked(<<p>>) = {p}
  <2>1. <<p>> \in Seq(Addresses \cup {0}) /\ Len(<<p>>) = 1 /\ <<p>>[1] = p
    BY <1>3
  <2>2. \A x : x \in Marked(<<p>>) <=> x # 0 /\ \E i \in 1..1 : <<p>>[i] = x
    BY <2>1, MarkedIs
  <2> QED  BY <1>3, <2>1, <2>2
<1>10. Marked(docs[e]) = Marked(d) \cup {p}
  <2>1. ASSUME NEW x \in Marked(d) PROVE x \in Marked(docs[e])
    BY <1>1, <1>6, <2>1, MarkedIs
  <2>2. ASSUME NEW x \in Marked(docs[e]) PROVE x \in Marked(d) \cup {p}
    BY <1>1, <1>2, <1>6, <2>2, MarkedIs
  <2>3. p \in Marked(docs[e])
    BY <1>1, <1>2, MarkedIs
  <2> QED  BY <2>1, <2>2, <2>3
<1>11. p \notin Marked(d)
  <2> SUFFICES ASSUME p \in Marked(d) PROVE FALSE
    OBVIOUS
  <2>1. PICK k \in 1..Len(docs[e]) : d[k] = p
    BY <1>6, MarkedIs
  <2>2. k # l /\ docs[e][k] = p
    BY <1>3, <1>6, <2>1
  <2> QED  BY <1>1, <1>2, <1>3, <1>7, <2>2 DEF Single
<1>12. Keep(Destroyed(Present, <<p>>)) /\ unlisted' = unlisted
  BY <1>2 DEF ToggleOff
<1>13. Len(d) \in 1..MaxLines
  BY <1>6 DEF MarkTypes
<1>14. PICK data \in Seq(Addresses \cup {0}) : data = <<p>>
  BY <1>9
<1>15. Marked(docs[e]) = Marked(d) \cup Marked(data) /\ Marked(d) \cap Marked(data) = {}
  BY <1>9, <1>10, <1>11, <1>14
<1>16. Keep(Destroyed(Present, data)) /\ unlisted' = unlisted
  BY <1>12, <1>14
<1> QED  BY <1>5, <1>6, <1>8, <1>13, <1>15, <1>16, Forgets

LEMMA InsertLineKeeps ==
  ASSUME MarkTypes, Alive, NEW e \in Editors, NEW l \in DOMAIN docs[e], InsertLine(e, l)
  PROVE  MarksInv'
<1>1. PICK s \in Seq(Addresses \cup {0}) : s = docs[e]
  BY DEF MarkTypes
<1>2. l \in 1..Len(s) /\ Len(s) < MaxLines /\ Len(s) \in 1..MaxLines /\ Single(s)
  BY <1>1 DEF InsertLine, MarkTypes, Alive
<1>3. PICK d : d = InsertAt(s, l + 1, 0)
  OBVIOUS
<1>4. docs' = [docs EXCEPT ![e] = d]
  BY <1>1, <1>3 DEF InsertLine
<1>5. d \in Seq(Addresses \cup {0}) /\ HasMore(d, s, l + 1, 0)
  <2>1. l + 1 \in 1..(Len(s) + 1)
    BY <1>2
  <2> QED  BY <1>3, <2>1, Inserted
<1>6. PICK n \in Nat : n = Len(s)
  BY <1>1
<1>7. Len(d) = n + 1 /\ \A i \in 1..(n + 1) :
        d[i] = IF i < l + 1 THEN s[i] ELSE IF i = l + 1 THEN 0 ELSE s[i - 1]
  BY <1>5, <1>6 DEF HasMore
<1>8. DOMAIN d = 1..(n + 1) /\ DOMAIN s = 1..n /\ l \in 1..n
  BY <1>1, <1>2, <1>5, <1>6, <1>7
<1>9. Single(d)
  <2> SUFFICES ASSUME NEW i \in 1..(n + 1), NEW j \in 1..(n + 1), d[i] # 0, d[i] = d[j]
               PROVE  i = j
    BY <1>8 DEF Single
  <2> DEFINE f(x) == IF x < l + 1 THEN x ELSE x - 1
  <2>1. i # l + 1 /\ j # l + 1
    BY <1>7
  <2>2. f(i) \in DOMAIN s /\ f(j) \in DOMAIN s /\ d[i] = s[f(i)] /\ d[j] = s[f(j)]
    BY <1>7, <1>8, <2>1
  <2>3. f(i) = f(j)
    <3> HIDE DEF f
    <3> QED  BY <1>2, <2>2 DEF Single
  <2> QED  BY <1>8, <2>1, <2>3
<1>10. Marked(d) = Marked(s)
  <2>1. ASSUME NEW x \in Marked(d) PROVE x \in Marked(s)
    <3>1. PICK i \in 1..(n + 1) : d[i] = x /\ x # 0
      BY <1>5, <1>7, MarkedIs
    <3>2. \E k \in 1..n : s[k] = x
      <4>1. CASE i < l + 1
        BY <1>7, <1>8, <3>1, <4>1
      <4>2. CASE ~(i < l + 1)
        <5>1. i # l + 1
          BY <1>7, <3>1
        <5>2. i - 1 \in 1..n /\ d[i] = s[i - 1]
          BY <1>7, <1>8, <4>2, <5>1
        <5> QED  BY <3>1, <5>2
      <4> QED  BY <4>1, <4>2
    <3> QED  BY <1>1, <1>6, <3>1, <3>2, MarkedIs
  <2>2. ASSUME NEW x \in Marked(s) PROVE x \in Marked(d)
    <3>1. PICK i \in 1..n : s[i] = x /\ x # 0
      BY <1>1, <1>6, MarkedIs
    <3>2. \E k \in 1..(n + 1) : d[k] = x
      <4>1. CASE i < l + 1
        <5>1. i \in 1..(n + 1) /\ d[i] = s[i]
          BY <1>7, <4>1
        <5> QED  BY <3>1, <5>1
      <4>2. CASE ~(i < l + 1)
        <5>1. i + 1 \in 1..(n + 1) /\ ~(i + 1 < l + 1) /\ i + 1 # l + 1 /\ i + 1 - 1 = i
          BY <1>8, <4>2
        <5>2. d[i + 1] = s[i]
          BY <1>7, <5>1
        <5> QED  BY <3>1, <5>1, <5>2
      <4> QED  BY <4>1, <4>2
    <3> QED  BY <1>5, <1>7, <3>1, <3>2, MarkedIs
  <2> QED  BY <2>1, <2>2
<1>11. Live = Others(e) \cup Marked(s) /\ Others(e) \cap Marked(s) = {}
  BY <1>1, LiveIs
<1>12. Len(d) \in 1..MaxLines
  BY <1>2, <1>6, <1>7, BookmarksBounds
<1>13. /\ docs' \in [Editors -> Seq(Addresses \cup {0})]
       /\ \A f \in Editors : Len(docs'[f]) \in 1..MaxLines
       /\ Live' = Others(e) \cup Marked(d)
       /\ \A f \in Editors : Single(docs'[f])
       /\ \A f, g \in Editors : f # g => Marked(docs'[f]) \cap Marked(docs'[g]) = {}
  BY <1>4, <1>5, <1>9, <1>10, <1>11, <1>12, NewDoc
<1>14. marks' = marks /\ lastUsed' = lastUsed /\ unlisted' = unlisted
  BY DEF InsertLine
<1>15. MarkTypes'
  BY <1>13, <1>14 DEF MarkTypes
<1>16. Alive'
  BY <1>10, <1>11, <1>13, <1>14 DEF Alive
<1> QED  BY <1>15, <1>16 DEF MarksInv

LEMMA DeleteLinesKeeps ==
  ASSUME MarkTypes, Alive, NEW e \in Editors, NEW from \in DOMAIN docs[e], NEW to \in DOMAIN docs[e],
         DeleteLines(e, from, to)
  PROVE  MarksInv'
<1>1. PICK s \in Seq(Addresses \cup {0}) : s = docs[e]
  BY DEF MarkTypes
<1>2. PICK n \in Nat : n = Len(s)
  BY <1>1
<1>3. /\ DOMAIN s = 1..n /\ from \in 1..n /\ to \in 1..n /\ n <= MaxLines
      /\ from <= to /\ to - from + 1 < n /\ Single(s)
  <2>1. DOMAIN s = 1..n /\ from \in 1..n /\ to \in 1..n
    BY <1>1, <1>2
  <2>2. n <= MaxLines
    BY <1>1, <1>2, BookmarksBounds DEF MarkTypes
  <2> QED  BY <1>1, <1>2, <2>1, <2>2 DEF DeleteLines, Alive
<1> DEFINE a == SubSeq(s, 1, from - 1)
           c == SubSeq(s, to + 1, n)
           g == SubSeq(s, from, to)
<1>4. \A i \in 1..n : s[i] \in Addresses \cup {0}
  BY <1>3
<1>5. a \in Seq(Addresses \cup {0}) /\ Len(a) = from - 1 /\ \A i \in 1..(from - 1) : a[i] = s[i]
  <2>1. \A i \in 1..(from - 1) : s[i] \in Addresses \cup {0}
    BY <1>3, <1>4
  <2>2. /\ a \in Seq(Addresses \cup {0}) /\ Len(a) = IF 1 <= from - 1 THEN from - 1 - 1 + 1 ELSE 0
        /\ \A i \in 1..(from - 1 - 1 + 1) : a[i] = s[1 + i - 1]
    BY <1>3, <2>1, SubSeqProperties
  <2> HIDE DEF a
  <2> QED  BY <1>3, <2>2
<1>6. c \in Seq(Addresses \cup {0}) /\ Len(c) = n - to /\ \A i \in 1..(n - to) : c[i] = s[to + i]
  <2>1. \A i \in (to + 1)..n : s[i] \in Addresses \cup {0}
    BY <1>3, <1>4
  <2>2. /\ c \in Seq(Addresses \cup {0}) /\ Len(c) = IF to + 1 <= n THEN n - (to + 1) + 1 ELSE 0
        /\ \A i \in 1..(n - (to + 1) + 1) : c[i] = s[to + 1 + i - 1]
    BY <1>3, <2>1, SubSeqProperties
  <2> HIDE DEF c
  <2>3. \A i \in 1..(n - to) : to + 1 + i - 1 = to + i
    BY <1>3
  <2> QED  BY <1>3, <2>2, <2>3
<1>7. g \in Seq(Addresses \cup {0}) /\ Len(g) = to - from + 1
      /\ \A i \in 1..(to - from + 1) : g[i] = s[from + i - 1]
  <2>1. \A i \in from..to : s[i] \in Addresses \cup {0}
    BY <1>3, <1>4
  <2>2. /\ g \in Seq(Addresses \cup {0}) /\ Len(g) = IF from <= to THEN to - from + 1 ELSE 0
        /\ \A i \in 1..(to - from + 1) : g[i] = s[from + i - 1]
    BY <1>3, <2>1, SubSeqProperties
  <2> HIDE DEF g
  <2> QED  BY <1>3, <2>2
<1>8. PICK d \in Seq(Addresses \cup {0}) : d = a \o c /\ Joined(d, a, c)
  <2> HIDE DEF a, c
  <2> QED  BY <1>5, <1>6, Join
<1>9. docs' = [docs EXCEPT ![e] = d] /\ Keep(Destroyed(Present, g)) /\ unlisted' = unlisted
  BY <1>1, <1>2, <1>8 DEF DeleteLines
<1> HIDE DEF a, c, g
<1> DEFINE N == n - (to - from + 1)
           f(x) == IF x < from THEN x ELSE x + (to - from + 1)
<1>10. N \in Nat /\ N >= 1 /\ N <= n /\ Len(d) = N
  <2>1. N \in Nat /\ N >= 1 /\ N <= n
    BY <1>3
  <2>2. from - 1 + (n - to) = N
    BY <1>3
  <2> QED  BY <1>5, <1>6, <1>8, <2>1, <2>2 DEF Joined
<1>11. \A x \in 1..N : f(x) \in 1..n /\ f(x) \notin from..to
  BY <1>3
<1>12. ASSUME NEW x \in 1..N PROVE d[x] = s[f(x)]
  <2>1. x \in 1..(from - 1 + (n - to))
    BY <1>3
  <2>2. d[x] = IF x <= from - 1 THEN a[x] ELSE c[x - (from - 1)]
    BY <1>5, <1>6, <1>8, <2>1 DEF Joined
  <2>3. CASE x < from
    <3>1. x \in 1..(from - 1) /\ x <= from - 1
      BY <1>3, <2>3
    <3> QED  BY <1>5, <2>2, <2>3, <3>1
  <2>4. CASE ~(x < from)
    <3>1. x - (from - 1) \in 1..(n - to) /\ ~(x <= from - 1)
      BY <1>3, <2>4
    <3>2. to + (x - (from - 1)) = f(x)
      BY <1>3, <2>4
    <3>3. c[x - (from - 1)] = s[to + (x - (from - 1))]
      BY <1>6, <3>1
    <3> HIDE DEF f, N
    <3> QED  BY <2>2, <3>1, <3>2, <3>3
  <2> QED  BY <2>3, <2>4
<1>13. ASSUME NEW i \in 1..n, i \notin from..to PROVE \E x \in 1..N : f(x) = i
  <2>1. CASE i < from
    <3>1. i \in 1..N /\ f(i) = i
      BY <1>3, <2>1
    <3> QED  BY <3>1
  <2>2. CASE i > to
    <3>1. i - (to - from + 1) \in 1..N /\ f(i - (to - from + 1)) = i
      BY <1>3, <2>2
    <3> QED  BY <3>1
  <2> QED  BY <1>3, <1>13, <2>1, <2>2
<1>14. \A x, y \in 1..N : f(x) = f(y) => x = y
  BY <1>3
<1> HIDE DEF f, N
<1>15. Single(d)
  <2> SUFFICES ASSUME NEW i \in 1..N, NEW j \in 1..N, d[i] # 0, d[i] = d[j] PROVE i = j
    BY <1>8, <1>10 DEF Single
  <2>1. f(i) = f(j)
    BY <1>3, <1>11, <1>12 DEF Single
  <2> QED  BY <1>14, <2>1
<1>16. ASSUME NEW x PROVE x \in Marked(g) <=> x # 0 /\ \E i \in from..to : s[i] = x
  <2>1. ASSUME NEW k \in 1..(to - from + 1) PROVE from + k - 1 \in from..to /\ g[k] = s[from + k - 1]
    BY <1>3, <1>7
  <2>2. ASSUME NEW i \in from..to PROVE i - from + 1 \in 1..(to - from + 1) /\ g[i - from + 1] = s[i]
    <3>1. i - from + 1 \in 1..(to - from + 1) /\ from + (i - from + 1) - 1 = i
      BY <1>3
    <3> QED  BY <1>7, <3>1
  <2>3. x \in Marked(g) <=> x # 0 /\ \E k \in 1..(to - from + 1) : g[k] = x
    BY <1>7, MarkedIs
  <2> QED  BY <2>1, <2>2, <2>3
<1>17. \A x : x \in Marked(d) <=> x # 0 /\ \E k \in 1..N : d[k] = x
  BY <1>10, MarkedIs
<1>18. \A x : x \in Marked(s) <=> x # 0 /\ \E k \in 1..n : s[k] = x
  BY <1>2, MarkedIs
<1>19. ASSUME NEW x \in Marked(s) PROVE x \in Marked(d) \cup Marked(g)
  <2>1. PICK i \in 1..n : s[i] = x /\ x # 0
    BY <1>18, <1>19
  <2>2. CASE i \in from..to
    BY <1>16, <2>1, <2>2
  <2>3. CASE i \notin from..to
    <3>1. PICK y \in 1..N : f(y) = i
      BY <1>13, <2>3
    <3>2. d[y] = x
      BY <1>12, <2>1, <3>1
    <3> QED  BY <1>17, <2>1, <3>2
  <2> QED  BY <2>2, <2>3
<1>20. ASSUME NEW x \in Marked(d) PROVE x \in Marked(s)
  BY <1>11, <1>12, <1>17, <1>18, <1>20
<1>21. ASSUME NEW x \in Marked(g) PROVE x \in Marked(s)
  <2>1. from..to \subseteq 1..n
    BY <1>3
  <2> QED  BY <1>16, <1>18, <1>21, <2>1
<1>22. ASSUME NEW x \in Marked(d) PROVE x \notin Marked(g)
  <2> SUFFICES ASSUME x \in Marked(g) PROVE FALSE
    OBVIOUS
  <2>1. PICK i \in from..to : s[i] = x /\ x # 0
    BY <1>16
  <2>2. PICK y \in 1..N : d[y] = x
    BY <1>17
  <2>3. s[f(y)] = x /\ f(y) \in 1..n /\ f(y) \notin from..to /\ i \in 1..n
    BY <1>3, <1>11, <1>12, <2>2
  <2> QED  BY <1>3, <2>1, <2>3 DEF Single
<1>23. Marked(docs[e]) = Marked(d) \cup Marked(g) /\ Marked(d) \cap Marked(g) = {}
  BY <1>1, <1>19, <1>20, <1>21, <1>22
<1>24. Len(d) \in 1..MaxLines
  BY <1>3, <1>10, BookmarksBounds
<1> QED  BY <1>7, <1>9, <1>15, <1>23, <1>24, Forgets

LEMMA CloseKeeps ==
  ASSUME MarkTypes, Alive, NEW e \in Editors, CloseEditor(e)
  PROVE  MarksInv'
<1>1. PICK d : d = <<0>>
  OBVIOUS
<1>2. d \in Seq(Addresses \cup {0}) /\ Len(d) = 1 /\ d[1] = 0
  BY <1>1
<1>3. Single(d)
  BY <1>2 DEF Single
<1>4. Marked(d) = {}
  BY <1>2, MarkedIs
<1>5. docs' = [docs EXCEPT ![e] = d] /\ Keep(Destroyed(Present, docs[e])) /\ unlisted' = unlisted
  BY <1>1 DEF CloseEditor
<1>6. docs[e] \in Seq(Addresses \cup {0}) /\ Len(d) \in 1..MaxLines
  BY <1>2, BookmarksBounds DEF MarkTypes
<1>7. Marked(docs[e]) = Marked(d) \cup Marked(docs[e]) /\ Marked(d) \cap Marked(docs[e]) = {}
  BY <1>4
<1> QED  BY <1>2, <1>3, <1>5, <1>6, <1>7, Forgets

-----------------------------------------------------------------------------
LEMMA WholeIs ==
  ASSUME NEW pos \in Int, pos >= -3
  PROVE  Whole(pos) \in Int /\ Whole(pos) >= -2 /\ \E h \in Int : Whole(pos) = 2 * h
<1>1. pos = 2 * (pos \div 2) + (pos % 2) /\ pos % 2 \in 0..1 /\ pos \div 2 \in Int
  OBVIOUS
<1>2. CASE pos >= 0
  BY <1>1, <1>2 DEF Whole
<1>3. CASE pos < 0
  <2>1. Whole(pos) = 2 * ((pos \div 2) + (pos % 2)) /\ (pos \div 2) + (pos % 2) \in Int
    BY <1>1, <1>3 DEF Whole
  <2>2. Whole(pos) >= -2
    BY <1>1, <1>3 DEF Whole
  <2> QED  BY <2>1, <2>2
<1> QED  BY <1>2, <1>3

LEMMA NextKeeps ==
  ASSUME MarkTypes, Alive, NextBookmark \/ PreviousBookmark
  PROVE  MarksInv'
<1>1. PICK n \in Nat : n = Len(marks) /\ n > 1
  BY DEF NextBookmark, PreviousBookmark, MarkTypes
<1>2. lastUsed \in Int /\ lastUsed >= -3 /\ lastUsed <= 2 * n - 1
  BY <1>1 DEF MarkTypes, InList
<1>3. lastUsed' \in Int /\ lastUsed' >= 0 /\ lastUsed' <= 2 * n - 1
  <2>1. CASE NextBookmark
    <3>1. Whole(lastUsed) \in Int /\ Whole(lastUsed) >= -2
      BY <1>2, WholeIs
    <3>2. lastUsed' = IF 2 * (n - 1) > Whole(lastUsed) THEN Whole(lastUsed) + 2 ELSE 0
      BY <1>1, <2>1 DEF NextBookmark
    <3> QED  BY <1>1, <3>1, <3>2
  <2>2. CASE PreviousBookmark
    <3>1. lastUsed + 1 \in Int /\ lastUsed + 1 >= -3
      BY <1>2
    <3>2. PICK h \in Int : Whole(lastUsed + 1) = 2 * h
      BY <3>1, WholeIs
    <3>3. Whole(lastUsed + 1) > 0 => Whole(lastUsed + 1) <= 2 * n
      <4>1. (lastUsed + 1) % 2 \in 0..1
        BY <3>1
      <4> QED  BY <1>2, <3>1, <4>1 DEF Whole
    <3>4. lastUsed' = IF Whole(lastUsed + 1) > 0 THEN Whole(lastUsed + 1) - 2 ELSE 2 * (n - 1)
      BY <1>1, <2>2 DEF PreviousBookmark
    <3> QED  BY <1>1, <3>2, <3>3, <3>4
  <2> QED  BY <2>1, <2>2
<1>4. docs' = docs /\ marks' = marks /\ unlisted' = unlisted
  BY DEF NextBookmark, PreviousBookmark
<1>5. InList(marks', lastUsed')
  BY <1>1, <1>3, <1>4 DEF InList
<1>6. Live' = Live
  BY <1>4 DEF Live
<1>7. MarkTypes'
  BY <1>3, <1>4, <1>5 DEF MarkTypes
<1>8. Alive'
  BY <1>4, <1>6 DEF Alive
<1> QED  BY <1>7, <1>8 DEF MarksInv

-----------------------------------------------------------------------------
LEMMA FoundIs ==
  ASSUME NEW n \in 1..MaxLines, NEW found \in Found[n]
  PROVE  /\ found \in Seq(Matches) /\ Len(found) \in {1, 2}
         /\ Len(found) = 1 => Within(found[1], n)
         /\ Len(found) = 2 => Within(found[2], n) /\ Follows(found[1], found[2])
<1>1. found \in {<<m>> : m \in {x \in Matches : Within(x, n)}}
               \cup {f \in Matches \X Matches : Within(f[2], n) /\ Follows(f[1], f[2])}
  BY DEF Found
<1>2. CASE \E m \in Matches : Within(m, n) /\ found = <<m>>
  <2>1. PICK m \in Matches : Within(m, n) /\ found = <<m>>
    BY <1>2
  <2> QED  BY <2>1
<1>3. CASE found \in Matches \X Matches /\ Within(found[2], n) /\ Follows(found[1], found[2])
  <2>1. PICK a \in Matches, b \in Matches : found = <<a, b>>
    BY <1>3
  <2> QED  BY <1>3, <2>1
<1> QED  BY <1>1, <1>2, <1>3

LEMMA MatchIs ==
  ASSUME NEW m \in Matches
  PROVE  /\ m.line \in Nat /\ m.line >= 1 /\ m.breaks \in 0..1 /\ m.newBreaks \in 0..1
         /\ m.atStart \in BOOLEAN
BY BookmarksBounds DEF Matches

(* At least one line is left.                                               *)
LEMMA GrownIs ==
  ASSUME NEW n \in 1..MaxLines, NEW found \in Found[n]
  PROVE  Grown(n, found) \in Int /\ Grown(n, found) >= 1
<1> DEFINE N == Len(found)
           step == [k \in 1..N |-> [x \in Int |-> x + found[k].newBreaks - found[k].breaks]]
           Is(g) == g = [k \in 0..N |->
                            IF k = 0 THEN n ELSE g[k - 1] + found[k].newBreaks - found[k].breaks]
<1>1. /\ found \in Seq(Matches) /\ N \in {1, 2}
      /\ N = 1 => Within(found[1], n)
      /\ N = 2 => Within(found[2], n) /\ Follows(found[1], found[2])
  BY FoundIs
<1>2. n \in Int /\ N \in Nat
  BY <1>1
<1>3. \A k \in 1..N : found[k] \in Matches
  BY <1>1
<1>4. \A k \in 1..N : found[k].newBreaks \in 0..1 /\ found[k].breaks \in 0..1
  BY <1>3, MatchIs
<1>5. step \in [1..N -> [Int -> Int]]
  BY <1>4
<1>6. PICK g : Recurs(g, Int, n, N, step)
  <2> HIDE DEF step, N
  <2> QED  BY <1>2, <1>5, RecursionExists
<1>7. Is(g)
  <2>1. g \in [0..N -> Int] /\ g = [k \in 0..N |-> IF k = 0 THEN n ELSE step[k][g[k - 1]]]
    <3> HIDE DEF step, N
    <3> QED  BY <1>6 DEF Recurs
  <2>2. \A k \in 0..N : k # 0 => k \in 1..N /\ k - 1 \in 0..N
    BY <1>2
  <2>3. \A k \in 0..N : k # 0 =>
          step[k][g[k - 1]] = g[k - 1] + found[k].newBreaks - found[k].breaks
    <3> HIDE DEF N
    <3> QED  BY <2>1, <2>2
  <2> HIDE DEF step, N
  <2> QED  BY <2>1, <2>3
<1> DEFINE grown == CHOOSE h : Is(h)
<1>8. Is(grown)
  <2> HIDE DEF Is
  <2> QED  BY <1>7
<1>9. Grown(n, found) = grown[N]
  BY DEF Grown
<1> HIDE DEF grown, step
<1>10. grown[0] = n /\ \A k \in 1..N : grown[k] = grown[k - 1] + found[k].newBreaks - found[k].breaks
  <2>1. 0 \in 0..N /\ \A k \in 1..N : k \in 0..N /\ k # 0
    BY <1>2
  <2> HIDE DEF N
  <2> QED  BY <1>8, <2>1
<1>11. CASE N = 1
  <2>1. grown[1] = n + found[1].newBreaks - found[1].breaks
    BY <1>10, <1>11
  <2>2. found[1] \in Matches
    BY <1>3, <1>11
  <2>3. found[1].line + found[1].breaks <= n
    BY <1>1, <1>11 DEF Within
  <2> QED  BY <1>9, <1>11, <2>1, <2>2, <2>3, MatchIs
<1>12. CASE N = 2
  <2>1. grown[2] = n + found[1].newBreaks - found[1].breaks + found[2].newBreaks - found[2].breaks
    <3>1. grown[1] = grown[0] + found[1].newBreaks - found[1].breaks
      BY <1>10, <1>12
    <3>2. grown[2] = grown[1] + found[2].newBreaks - found[2].breaks
      BY <1>10, <1>12
    <3> QED  BY <1>10, <3>1, <3>2
  <2>2. found[1] \in Matches /\ found[2] \in Matches
    BY <1>3, <1>12
  <2>3. found[2].line + found[2].breaks <= n /\ found[2].line >= found[1].line + found[1].breaks
    BY <1>1, <1>12 DEF Within, Follows
  <2>4. /\ found[1].line \in Nat /\ found[1].line >= 1
        /\ found[1].breaks \in 0..1 /\ found[1].newBreaks \in 0..1
    BY <2>2, MatchIs
  <2>5. found[2].line \in Nat /\ found[2].breaks \in 0..1 /\ found[2].newBreaks \in 0..1
    BY <2>2, MatchIs
  <2> QED  BY <1>9, <1>12, <2>1, <2>3, <2>4, <2>5
<1> QED  BY <1>1, <1>11, <1>12

(* The bookmark of the first line stays there.                              *)
LEMMA FirstStays ==
  ASSUME NEW n \in 1..MaxLines, NEW found \in Found[n]
  PROVE  Moved(1, found).number = 1 /\ ~Moved(1, found).dropped
<1> DEFINE N == Len(found)
           first == [at |-> 1, number |-> 1, dropped |-> FALSE]
           still == [k \in 0..N |-> first]
           Is(g) == g = [k \in 0..N |-> IF k = 0 THEN first ELSE Affected(g[k - 1], found[k])]
<1>1. found \in Seq(Matches) /\ N \in Nat
  BY FoundIs
<1>2. ASSUME NEW k \in 1..N PROVE Affected(first, found[k]) = first
  <2>1. found[k] \in Matches
    BY <1>1
  <2>2. PICK m \in Matches : m = found[k]
    BY <2>1
  <2>3. m.line \in Nat /\ m.line >= 1 /\ m.breaks \in 0..1 /\ m.newBreaks \in 0..1 /\ m.atStart \in BOOLEAN
    BY MatchIs
  <2>4. first.at = 1 /\ first.number = 1
    OBVIOUS
  <2> HIDE DEF first
  <2>5. ~(first.number > m.line + m.newBreaks) /\ ~(first.at > m.line + m.breaks)
    BY <2>3, <2>4
  <2> QED  BY <2>2, <2>5 DEF Affected
<1> HIDE DEF first
<1>3. Is(still)
  <2>1. \A k \in 0..N : k # 0 => k \in 1..N /\ k - 1 \in 0..N
    BY <1>1
  <2>2. \A k \in 0..N : still[k] = IF k = 0 THEN first ELSE Affected(still[k - 1], found[k])
    BY <1>2, <2>1
  <2>3. still = [k \in 0..N |-> still[k]]
    OBVIOUS
  <2> HIDE DEF still, N
  <2> QED  BY <2>2, <2>3
<1> DEFINE moved == CHOOSE h : Is(h)
<1>4. Is(moved)
  <2> HIDE DEF Is
  <2> QED  BY <1>3
<1>5. Moved(1, found) = moved[N]
  BY DEF Moved, first
<1> HIDE DEF moved, still
<1>6. moved[0] = first /\ \A k \in 1..N : moved[k] = Affected(moved[k - 1], found[k])
  <2>1. 0 \in 0..N /\ \A k \in 1..N : k \in 0..N /\ k # 0
    BY <1>1
  <2> HIDE DEF N
  <2> QED  BY <1>4, <2>1
<1> DEFINE S == {k \in 0..N : moved[k] = first}
<1>7. 0 \in S
  BY <1>1, <1>6
<1>8. ASSUME NEW k \in Nat, k < N, k \in S PROVE k + 1 \in S
  <2>1. k + 1 \in 1..N /\ k + 1 - 1 = k /\ k + 1 \in 0..N
    BY <1>1, <1>8
  <2>2. moved[k + 1] = Affected(moved[k], found[k + 1])
    BY <1>6, <2>1
  <2> QED  BY <1>2, <1>8, <2>1, <2>2
<1> HIDE DEF S
<1>9. 0..N \subseteq S
  BY <1>1, <1>7, <1>8, BoundedInduction
<1>10. N \in S
  BY <1>1, <1>9
<1>11. moved[N] = first
  BY <1>10 DEF S
<1> QED  BY <1>5, <1>11 DEF first

-----------------------------------------------------------------------------
(* The same members, in another order.                                      *)
Shuffle(q, n) ==
    /\ q \in [1..n -> 1..n] /\ \A i, j \in 1..n : q[i] = q[j] => i = j
    /\ \A i \in 1..n : \E j \in 1..n : q[j] = i
Permuted(list, cur, n) ==
    \E q : Shuffle(q, n) /\ \A j \in 1..n : list[j] = cur[q[j]]

OneElse(f, g, i, p, n) == \A j \in 1..n : g[j] = IF j = i THEN p ELSE f[j]

LEMMA SwapKeeps ==
  ASSUME NEW n \in Nat, NEW list, NEW cur, Permuted(list, cur, n),
         NEW j0 \in 1..n, NEW i0 \in 1..n, list[j0] = cur[i0],
         NEW p, NEW list2, NEW cur2,
         OneElse(list, list2, j0, p, n), OneElse(cur, cur2, i0, p, n)
  PROVE  Permuted(list2, cur2, n)
<1>0. /\ \A j \in 1..n : list2[j] = IF j = j0 THEN p ELSE list[j]
      /\ \A i \in 1..n : cur2[i] = IF i = i0 THEN p ELSE cur[i]
  BY DEF OneElse
<1>1. PICK q : Shuffle(q, n) /\ \A j \in 1..n : list[j] = cur[q[j]]
  BY DEF Permuted
<1>2. q \in [1..n -> 1..n] /\ \A i, j \in 1..n : q[i] = q[j] => i = j
  BY <1>1 DEF Shuffle
<1>3. PICK j1 \in 1..n : q[j1] = i0
  BY <1>1 DEF Shuffle
<1> DEFINE r == [j \in 1..n |-> IF j = j0 THEN i0 ELSE IF j = j1 THEN q[j0] ELSE q[j]]
<1>4. r \in [1..n -> 1..n]
  BY <1>2
<1>5. \A j \in 1..n : r[j] = IF j = j0 THEN i0 ELSE IF j = j1 THEN q[j0] ELSE q[j]
  OBVIOUS
<1> HIDE DEF r
<1>6. ASSUME NEW i \in 1..n, NEW j \in 1..n, r[i] = r[j] PROVE i = j
  <2>1. ASSUME NEW k \in 1..n, k # j0 PROVE r[k] # i0 /\ (k # j1 => r[k] = q[k] /\ r[k] # q[j0])
    <3>1. CASE k = j1
      <4>1. r[k] = q[j0]
        BY <1>5, <2>1, <3>1
      <4>2. q[j0] # q[j1]
        BY <1>2, <2>1, <3>1
      <4> QED  BY <1>3, <3>1, <4>1, <4>2
    <3>2. CASE k # j1
      <4>1. r[k] = q[k]
        BY <1>5, <2>1, <3>2
      <4>2. q[k] # q[j1] /\ q[k] # q[j0]
        BY <1>2, <2>1, <3>2
      <4> QED  BY <1>3, <4>1, <4>2
    <3> QED  BY <3>1, <3>2
  <2>2. r[j0] = i0
    BY <1>5
  <2>3. CASE i = j0 \/ j = j0
    BY <1>6, <2>1, <2>2, <2>3
  <2>4. CASE i # j0 /\ j # j0
    <3>1. j1 # j0 => r[j1] = q[j0]
      BY <1>5
    <3>2. CASE i = j1 \/ j = j1
      BY <1>6, <2>1, <2>4, <3>1, <3>2
    <3>3. CASE i # j1 /\ j # j1
      BY <1>2, <1>6, <2>1, <2>4, <3>3
    <3> QED  BY <3>2, <3>3
  <2> QED  BY <2>3, <2>4
<1>7. ASSUME NEW i \in 1..n PROVE \E j \in 1..n : r[j] = i
  <2>1. PICK j \in 1..n : q[j] = i
    BY <1>1 DEF Shuffle
  <2>2. CASE i = i0
    BY <1>5, <2>2
  <2>3. CASE i # i0 /\ j = j0
    <3>1. j1 # j0
      BY <1>3, <2>1, <2>3
    <3>2. r[j1] = q[j0]
      BY <1>5, <3>1
    <3> QED  BY <2>1, <2>3, <3>2
  <2>4. CASE i # i0 /\ j # j0
    <3>1. j # j1
      BY <1>3, <2>1, <2>4
    <3> QED  BY <1>5, <2>1, <2>4, <3>1
  <2> QED  BY <2>2, <2>3, <2>4
<1>8. ASSUME NEW j \in 1..n PROVE list2[j] = cur2[r[j]]
  <2>1. CASE j = j0
    BY <1>0, <1>5, <2>1
  <2>2. CASE j # j0 /\ j = j1
    <3>1. r[j] = q[j0] /\ q[j0] \in 1..n
      BY <1>2, <1>5, <2>2
    <3>2. q[j0] # i0
      BY <1>2, <1>3, <2>2
    <3>3. cur2[q[j0]] = cur[q[j0]]
      BY <1>0, <3>1, <3>2
    <3>4. list2[j] = list[j] /\ list[j] = cur[i0]
      BY <1>0, <1>1, <1>3, <2>2
    <3> QED  BY <1>1, <3>1, <3>3, <3>4
  <2>3. CASE j # j0 /\ j # j1
    <3>1. r[j] = q[j] /\ q[j] \in 1..n
      BY <1>2, <1>5, <2>3
    <3>2. q[j] # i0
      BY <1>2, <1>3, <2>3
    <3> QED  BY <1>0, <1>1, <2>3, <3>1, <3>2
  <2> QED  BY <2>1, <2>2, <2>3
<1>9. Shuffle(r, n)
  BY <1>4, <1>6, <1>7 DEF Shuffle
<1> QED  BY <1>8, <1>9 DEF Permuted

(* What is replaced by what: s is the text with the bookmarks, stay the     *)
(* lines whose bookmarks are made anew, at at[l], and end on number[l].     *)
Setting(s, list, others, stay, at, number, typed) ==
    /\ s \in Seq(Addresses \cup {0}) /\ Single(s) /\ Len(s) >= 1
    /\ list \in Seq(Addresses) /\ IsInjective(list)
    /\ ToSet(list) = others \cup Marked(s) /\ others \cap Marked(s) = {}
    /\ \A l \in stay : l \in 1..Len(s) /\ s[l] # 0
    /\ \A l \in stay : at[l] \in Addresses /\ at[l] \notin others /\ at[l] \notin ToSet(typed)
    /\ \A k, l \in stay : at[k] = at[l] => k = l
    /\ \A d \in 1..Len(s), k \in stay : s[d] # 0 /\ d \notin stay => s[d] # at[k]
    /\ typed \in Seq(Addresses \cup {0}) /\ Len(typed) >= 1
    /\ \A l \in stay : number[l] \in 1..Len(typed)
    /\ \A j \in 1..Len(typed) : typed[j] # 0 => j = 1 /\ 1 \in stay /\ typed[1] = s[1]
    /\ 1 \in stay => number[1] = 1

(* The list as it would be, were the new ones put at their old ones' places.*)
InPlace(s, list, stay, at, l) ==
    [i \in 1..Len(list) |->
        IF \E k \in stay : k <= l /\ s[k] = list[i]
        THEN at[CHOOSE k \in stay : s[k] = list[i]] ELSE list[i]]

RemadeUpTo(m, l, s, list, stay, at, typed) ==
    /\ m.list \in Seq(Addresses) /\ Len(m.list) = Len(list)
    /\ m.doc \in Seq(Addresses \cup {0}) /\ Len(m.doc) = Len(typed)
    /\ Permuted(m.list, InPlace(s, list, stay, at, l), Len(list))
    /\ \A j \in 1..Len(typed) : m.doc[j] # 0 =>
         \/ \E k \in stay : k <= l /\ m.doc[j] = at[k]
         \/ l = 0 /\ m.doc[j] = typed[j]
    /\ Single(m.doc)
    /\ \A d \in 1..Len(s) : s[d] # 0 /\ d \notin stay => s[d] \in m.deleted
    /\ \A k \in stay : k <= l => (at[k] \in m.deleted <=> at[k] \notin ToSet(m.doc))

LEMMA NothingRemade ==
  ASSUME NEW s, NEW list, NEW others, NEW stay, NEW at, NEW number, NEW typed, NEW m,
         Setting(s, list, others, stay, at, number, typed),
         m.list = list, m.doc = typed, m.deleted = (ToSet(s) \ {0}) \ ToSet(typed)
  PROVE  RemadeUpTo(m, 0, s, list, stay, at, typed)
<1>1. PICK n \in Nat : n = Len(list)
  BY DEF Setting
<1>2. \A k \in stay : ~(k <= 0)
  BY DEF Setting
<1> DEFINE c == InPlace(s, list, stay, at, 0)
           q == [i \in 1..n |-> i]
<1>3. \A i \in 1..n : c[i] = list[i]
  BY <1>1, <1>2 DEF InPlace
<1>4. Permuted(list, c, n)
  <2>1. \A i \in 1..n : q[i] = i
    OBVIOUS
  <2>2. q \in [1..n -> 1..n]
    OBVIOUS
  <2> HIDE DEF q, c
  <2>3. Shuffle(q, n)
    BY <2>1, <2>2 DEF Shuffle
  <2> QED  BY <1>3, <2>1, <2>3 DEF Permuted
<1>5. DOMAIN typed = 1..Len(typed) /\ DOMAIN s = 1..Len(s)
  BY DEF Setting
<1>6. Single(typed)
  BY <1>5 DEF Setting, Single
<1>7. ASSUME NEW d \in 1..Len(s), s[d] # 0, d \notin stay PROVE s[d] \in m.deleted
  <2>1. s[d] \in ToSet(s)
    BY <1>5 DEF ToSet
  <2>2. s[d] \notin ToSet(typed)
    <3> SUFFICES ASSUME NEW j \in 1..Len(typed), typed[j] = s[d] PROVE FALSE
      BY <1>5 DEF ToSet
    <3>1. j = 1 /\ 1 \in stay /\ typed[1] = s[1]
      BY <1>7 DEF Setting
    <3>2. s[1] = s[d] /\ 1 \in DOMAIN s /\ d \in DOMAIN s
      BY <1>5, <3>1 DEF Setting
    <3>3. d = 1
      BY <1>7, <3>2 DEF Setting, Single
    <3> QED  BY <1>7, <3>1, <3>3
  <2> QED  BY <1>7, <2>1, <2>2
<1> HIDE DEF c
<1>8. /\ m.list \in Seq(Addresses) /\ Len(m.list) = Len(list)
      /\ m.doc \in Seq(Addresses \cup {0}) /\ Len(m.doc) = Len(typed)
  BY DEF Setting
<1>9. Permuted(m.list, InPlace(s, list, stay, at, 0), Len(list))
  BY <1>1, <1>4 DEF c
<1>10. \A j \in 1..Len(typed) : m.doc[j] # 0 =>
         \/ \E k \in stay : k <= 0 /\ m.doc[j] = at[k]
         \/ 0 = 0 /\ m.doc[j] = typed[j]
  OBVIOUS
<1>11. \A k \in stay : k <= 0 => (at[k] \in m.deleted <=> at[k] \notin ToSet(m.doc))
  BY <1>2
<1> QED  BY <1>6, <1>7, <1>8, <1>9, <1>10, <1>11 DEF RemadeUpTo

LEMMA NotRemade ==
  ASSUME NEW s, NEW list, NEW others, NEW stay, NEW at, NEW number, NEW typed, NEW m,
         Setting(s, list, others, stay, at, number, typed),
         NEW l \in 1..Len(s), l \notin stay,
         RemadeUpTo(m, l - 1, s, list, stay, at, typed)
  PROVE  RemadeUpTo(m, l, s, list, stay, at, typed)
<1>0. Len(s) \in Nat /\ \A k \in stay : k \in 1..Len(s)
  BY DEF Setting
<1>1. \A k \in stay : k <= l - 1 <=> k <= l
  <2> SUFFICES ASSUME NEW k \in stay PROVE k <= l - 1 <=> k <= l
    OBVIOUS
  <2>1. k \in 1..Len(s) /\ k # l
    BY <1>0
  <2> QED  BY <1>0, <2>1
<1>2. InPlace(s, list, stay, at, l - 1) = InPlace(s, list, stay, at, l)
  BY <1>1 DEF InPlace
<1>3. ASSUME NEW j \in 1..Len(typed), m.doc[j] # 0 PROVE \E k \in stay : k <= l /\ m.doc[j] = at[k]
  <2>1. CASE \E k \in stay : k <= l - 1 /\ m.doc[j] = at[k]
    BY <1>1, <2>1
  <2>2. CASE l - 1 = 0 /\ m.doc[j] = typed[j]
    <3>1. 1 \in stay
      BY <1>3, <2>2 DEF Setting
    <3>2. l = 1
      BY <1>0, <2>2
    <3> QED  BY <3>1, <3>2
  <2> QED  BY <1>3, <2>1, <2>2 DEF RemadeUpTo
<1>4. \A k \in stay : k <= l => (at[k] \in m.deleted <=> at[k] \notin ToSet(m.doc))
  BY <1>1 DEF RemadeUpTo
<1>5. /\ m.list \in Seq(Addresses) /\ Len(m.list) = Len(list)
      /\ m.doc \in Seq(Addresses \cup {0}) /\ Len(m.doc) = Len(typed)
      /\ Permuted(m.list, InPlace(s, list, stay, at, l), Len(list))
      /\ Single(m.doc)
      /\ \A d \in 1..Len(s) : s[d] # 0 /\ d \notin stay => s[d] \in m.deleted
  BY <1>2 DEF RemadeUpTo
<1> QED  BY <1>3, <1>4, <1>5 DEF RemadeUpTo

LEMMA OneRemade ==
  ASSUME NEW s, NEW list, NEW others, NEW stay, NEW at, NEW number, NEW typed, NEW m,
         Setting(s, list, others, stay, at, number, typed),
         NEW l \in stay,
         RemadeUpTo(m, l - 1, s, list, stay, at, typed)
  PROVE  RemadeUpTo(Revived(m, s[l], at[l], number[l]), l, s, list, stay, at, typed)
<1>1. PICK n \in Nat : n = Len(list)
  BY DEF Setting
<1>2. /\ Len(s) \in Nat /\ (\A k \in stay : k \in 1..Len(s)) /\ l \in 1..Len(s)
      /\ DOMAIN s = 1..Len(s) /\ DOMAIN list = 1..n
  BY <1>1 DEF Setting
<1>3. PICK p : p = at[l]
  OBVIOUS
<1>4. PICK line \in 1..Len(typed) : line = number[l]
  BY DEF Setting
<1>5. p \in Addresses /\ p # 0 /\ p \notin ToSet(typed) /\ s[l] # 0
  BY <1>3, BookmarksBounds DEF Setting
<1>6. /\ m.list \in Seq(Addresses) /\ Len(m.list) = n
      /\ m.doc \in Seq(Addresses \cup {0}) /\ Len(m.doc) = Len(typed)
      /\ Permuted(m.list, InPlace(s, list, stay, at, l - 1), n)
      /\ Single(m.doc)
  BY <1>1 DEF RemadeUpTo
<1>7. DOMAIN m.doc = 1..Len(typed) /\ DOMAIN m.list = 1..n /\ line \in DOMAIN m.doc
  BY <1>6
<1> DEFINE j0 == IndexOf(m.list, s[l]) + 1
           list2 == ReplaceAt(m.list, j0, p)
           doc2 == [m.doc EXCEPT ![line] = p]
           deleted2 == (m.deleted \ {p}) \cup ({m.doc[line]} \ {0})
           r == Revived(m, s[l], at[l], number[l])
           c == InPlace(s, list, stay, at, l - 1)
           c2 == InPlace(s, list, stay, at, l)
<1>8. r.list = list2 /\ r.doc = doc2 /\ r.deleted = deleted2
  BY <1>3, <1>4, <1>7 DEF Revived
<1> HIDE DEF r
<1>9. PICK i0 \in 1..n : list[i0] = s[l]
  <2>1. s[l] \in Marked(s)
    BY <1>2, <1>5 DEF Marked, ToSet
  <2>2. s[l] \in ToSet(list)
    BY <2>1 DEF Setting
  <2> QED  BY <1>2, <2>2 DEF ToSet
<1>10. \A k \in stay : s[k] = list[i0] => k = l
  <2> SUFFICES ASSUME NEW k \in stay, s[k] = list[i0] PROVE k = l
    OBVIOUS
  <2>1. k \in DOMAIN s /\ l \in DOMAIN s /\ s[k] = s[l]
    BY <1>2, <1>9
  <2> QED  BY <1>5, <2>1 DEF Setting, Single
<1>11. c[i0] = s[l]
  <2>1. ~\E k \in stay : k <= l - 1 /\ s[k] = list[i0]
    BY <1>2, <1>10
  <2> QED  BY <1>1, <1>9, <2>1 DEF InPlace
<1>12. ASSUME NEW i \in 1..n PROVE c2[i] = IF i = i0 THEN p ELSE c[i]
  <2>1. CASE i = i0
    <3>1. (CHOOSE k \in stay : s[k] = list[i0]) = l
      BY <1>9, <1>10
    <3>2. \E k \in stay : k <= l /\ s[k] = list[i0]
      BY <1>2, <1>9
    <3>3. c2[i0] = IF \E k \in stay : k <= l /\ s[k] = list[i0]
                   THEN at[CHOOSE k \in stay : s[k] = list[i0]] ELSE list[i0]
      BY <1>1 DEF InPlace
    <3> HIDE DEF c2
    <3>4. c2[i0] = at[l]
      BY <3>1, <3>2, <3>3
    <3> QED  BY <1>3, <2>1, <3>4
  <2>2. CASE i # i0
    <3>1. list[i] # s[l]
      BY <1>2, <1>9, <2>2 DEF Setting, IsInjective
    <3>2. (\E k \in stay : k <= l /\ s[k] = list[i]) <=> (\E k \in stay : k <= l - 1 /\ s[k] = list[i])
      <4>1. \A k \in stay : s[k] = list[i] => (k <= l <=> k <= l - 1)
        <5> SUFFICES ASSUME NEW k \in stay, s[k] = list[i] PROVE k <= l <=> k <= l - 1
          OBVIOUS
        <5>1. k # l /\ k \in 1..Len(s)
          BY <1>2, <3>1
        <5> QED  BY <1>2, <5>1
      <4> QED  BY <4>1
    <3> QED  BY <1>1, <2>2, <3>2 DEF InPlace
  <2> QED  BY <2>1, <2>2
<1> HIDE DEF c, c2
<1>13. j0 \in 1..n /\ m.list[j0] = s[l]
  <2>1. PICK q : Shuffle(q, n) /\ \A j \in 1..n : m.list[j] = c[q[j]]
    BY <1>6 DEF Permuted, c
  <2>2. PICK j \in 1..n : q[j] = i0
    BY <2>1 DEF Shuffle
  <2>3. s[l] \in ToSet(m.list)
    BY <1>7, <1>11, <2>1, <2>2 DEF ToSet
  <2>4. IndexOf(m.list, s[l]) \in -1..n - 1 /\ IndexOf(m.list, s[l]) >= 0
        /\ m.list[IndexOf(m.list, s[l]) + 1] = s[l]
    BY <1>6, <2>3, IndexIs
  <2> QED  BY <2>4
<1> HIDE DEF j0
<1>14. /\ list2 \in Seq(Addresses) /\ Len(list2) = n
       /\ \A j \in 1..n : list2[j] = IF j = j0 THEN p ELSE m.list[j]
  BY <1>5, <1>6, <1>13 DEF ReplaceAt
<1> HIDE DEF list2
<1>15. Permuted(list2, c2, n)
  <2>1. Permuted(m.list, c, n)
    BY <1>6 DEF c
  <2>2. m.list[j0] = c[i0]
    BY <1>11, <1>13
  <2>3. \A j \in 1..n : list2[j] = IF j = j0 THEN p ELSE m.list[j]
    BY <1>14
  <2>4. \A i \in 1..n : c2[i] = IF i = i0 THEN p ELSE c[i]
    BY <1>12
  <2>5. j0 \in 1..n
    BY <1>13
  <2>6. OneElse(m.list, list2, j0, p, n) /\ OneElse(c, c2, i0, p, n)
    BY <2>3, <2>4 DEF OneElse
  <2> QED  BY <2>1, <2>2, <2>5, <2>6, SwapKeeps
<1>16. /\ doc2 \in Seq(Addresses \cup {0}) /\ Len(doc2) = Len(typed)
       /\ \A j \in 1..Len(typed) : doc2[j] = IF j = line THEN p ELSE m.doc[j]
  BY <1>5, <1>6, <1>7
<1>17. DOMAIN doc2 = 1..Len(typed)
  BY <1>7
<1> HIDE DEF doc2
<1>18. \A j \in 1..Len(typed) : m.doc[j] # p
  <2> SUFFICES ASSUME NEW j \in 1..Len(typed), m.doc[j] = p PROVE FALSE
    OBVIOUS
  <2>1. CASE \E k \in stay : k <= l - 1 /\ m.doc[j] = at[k]
    <3>1. PICK k \in stay : k <= l - 1 /\ at[k] = at[l]
      BY <1>3, <2>1
    <3>2. k = l
      BY <3>1 DEF Setting
    <3> QED  BY <1>2, <3>1, <3>2
  <2>2. CASE m.doc[j] = typed[j]
    <3>1. p \in ToSet(typed)
      BY <2>2 DEF ToSet, Setting
    <3> QED  BY <1>5, <3>1
  <2> QED  BY <1>5, <2>1, <2>2 DEF RemadeUpTo
<1>19. ASSUME NEW j \in 1..Len(typed), doc2[j] # 0 PROVE \E k \in stay : k <= l /\ doc2[j] = at[k]
  <2>1. CASE j = line
    <3>1. l <= l
      BY <1>2
    <3> QED  BY <1>3, <1>16, <2>1, <3>1
  <2>2. CASE j # line
    <3>1. doc2[j] = m.doc[j]
      BY <1>16, <2>2
    <3>2. CASE \E k \in stay : k <= l - 1 /\ m.doc[j] = at[k]
      <4>1. \A k \in stay : k <= l - 1 => k <= l
        BY <1>2
      <4> QED  BY <3>1, <3>2, <4>1
    <3>3. CASE l - 1 = 0 /\ m.doc[j] = typed[j]
      <4>1. l = 1 /\ line = 1
        BY <1>2, <1>4, <3>3 DEF Setting
      <4>2. j = 1
        BY <1>19, <3>1, <3>3 DEF Setting
      <4> QED  BY <2>2, <4>1, <4>2
    <3> QED  BY <1>19, <3>1, <3>2, <3>3 DEF RemadeUpTo
  <2> QED  BY <2>1, <2>2
<1>20. Single(doc2)
  BY <1>6, <1>7, <1>16, <1>17, <1>18 DEF Single
<1>21. ASSUME NEW d \in 1..Len(s), s[d] # 0, d \notin stay PROVE s[d] \in deleted2
  <2>1. s[d] \in m.deleted /\ s[d] # p
    BY <1>3, <1>21 DEF RemadeUpTo, Setting
  <2> QED  BY <2>1
<1>22. ASSUME NEW k \in stay, k <= l PROVE at[k] \in deleted2 <=> at[k] \notin ToSet(doc2)
  <2>1. CASE k = l
    <3>1. p \in ToSet(doc2)
      BY <1>16, <1>17 DEF ToSet
    <3>2. p \notin deleted2
      BY <1>18
    <3> QED  BY <1>3, <2>1, <3>1, <3>2
  <2>2. CASE k # l
    <3>1. k <= l - 1
      BY <1>2, <1>22, <2>2
    <3>2. at[k] \in m.deleted <=> at[k] \notin ToSet(m.doc)
      BY <3>1 DEF RemadeUpTo
    <3>3. at[k] # p /\ at[k] # 0
      BY <1>3, <2>2, BookmarksBounds DEF Setting
    <3>4. at[k] \in ToSet(doc2) <=> \E j \in 1..Len(typed) : j # line /\ m.doc[j] = at[k]
      BY <1>16, <1>17, <3>3 DEF ToSet
    <3>5. at[k] \in ToSet(m.doc) <=> \E j \in 1..Len(typed) : m.doc[j] = at[k]
      BY <1>7 DEF ToSet
    <3>6. CASE at[k] = m.doc[line]
      <4>1. at[k] \in deleted2
        BY <3>3, <3>6
      <4>2. \A j \in 1..Len(typed) : m.doc[j] = at[k] => j = line
        BY <1>6, <1>7, <3>3, <3>6 DEF Single
      <4> QED  BY <3>4, <4>1, <4>2
    <3>7. CASE at[k] # m.doc[line]
      <4>1. at[k] \in deleted2 <=> at[k] \in m.deleted
        BY <3>3, <3>7
      <4>2. at[k] \in ToSet(doc2) <=> at[k] \in ToSet(m.doc)
        BY <3>4, <3>5, <3>7
      <4> QED  BY <3>2, <4>1, <4>2
    <3> QED  BY <3>6, <3>7
  <2> QED  BY <2>1, <2>2
<1> HIDE DEF deleted2
<1>23. Permuted(list2, InPlace(s, list, stay, at, l), Len(list))
  BY <1>1, <1>15 DEF c2
<1>24. /\ r.list \in Seq(Addresses) /\ Len(r.list) = Len(list)
       /\ r.doc \in Seq(Addresses \cup {0}) /\ Len(r.doc) = Len(typed)
       /\ Permuted(r.list, InPlace(s, list, stay, at, l), Len(list))
       /\ Single(r.doc)
  BY <1>1, <1>8, <1>14, <1>16, <1>20, <1>23
<1>25. /\ \A j \in 1..Len(typed) : r.doc[j] # 0 => \E k \in stay : k <= l /\ r.doc[j] = at[k]
       /\ \A d \in 1..Len(s) : s[d] # 0 /\ d \notin stay => s[d] \in r.deleted
       /\ \A k \in stay : k <= l => (at[k] \in r.deleted <=> at[k] \notin ToSet(r.doc))
  BY <1>8, <1>19, <1>21, <1>22
<1>26. RemadeUpTo(r, l, s, list, stay, at, typed)
  BY <1>24, <1>25 DEF RemadeUpTo
<1> QED  BY <1>26 DEF r

LEMMA AllRemade ==
  ASSUME NEW s, NEW list, NEW others, NEW stay, NEW at, NEW number, NEW typed, NEW m,
         Setting(s, list, others, stay, at, number, typed),
         RemadeUpTo(m, Len(s), s, list, stay, at, typed),
         \A x \in m.deleted : x \in Marked(s) \/ \E k \in stay : x = at[k]
  PROVE  /\ IsInjective(m.list)
         /\ ToSet(m.list) \ m.deleted = others \cup Marked(m.doc)
         /\ others \cap Marked(m.doc) = {}
<1>1. PICK n \in Nat : n = Len(list)
  BY DEF Setting
<1>2. /\ Len(s) \in Nat /\ Len(s) >= 1 /\ (\A k \in stay : k \in 1..Len(s) /\ k <= Len(s) /\ s[k] # 0)
      /\ DOMAIN s = 1..Len(s) /\ DOMAIN list = 1..n
  BY <1>1 DEF Setting
<1>3. /\ m.list \in Seq(Addresses) /\ Len(m.list) = n
      /\ m.doc \in Seq(Addresses \cup {0}) /\ Len(m.doc) = Len(typed)
      /\ DOMAIN m.list = 1..n /\ DOMAIN m.doc = 1..Len(typed)
  BY <1>1 DEF RemadeUpTo
<1> DEFINE c == InPlace(s, list, stay, at, Len(s))
           Unmoved(i) == \A k \in stay : s[k] # list[i]
<1>4. ASSUME NEW i \in 1..n, Unmoved(i) PROVE c[i] = list[i]
  BY <1>1, <1>4 DEF InPlace
<1>5. ASSUME NEW k \in stay, NEW i \in 1..n, s[k] = list[i] PROVE c[i] = at[k]
  <2>1. ASSUME NEW x \in stay, s[x] = list[i] PROVE x = k
    <3>1. x \in DOMAIN s /\ k \in DOMAIN s /\ s[x] = s[k] /\ s[x] # 0
      BY <1>2, <1>5, <2>1
    <3> QED  BY <3>1 DEF Setting, Single
  <2>2. (CHOOSE x \in stay : s[x] = list[i]) = k
    BY <1>5, <2>1
  <2>3. \E x \in stay : x <= Len(s) /\ s[x] = list[i]
    BY <1>2, <1>5
  <2>4. c[i] = IF \E x \in stay : x <= Len(s) /\ s[x] = list[i]
               THEN at[CHOOSE x \in stay : s[x] = list[i]] ELSE list[i]
    BY <1>1 DEF InPlace
  <2> HIDE DEF c
  <2> QED  BY <2>2, <2>3, <2>4
<1>6. PICK q : Shuffle(q, n) /\ \A j \in 1..n : m.list[j] = c[q[j]]
  BY <1>1 DEF RemadeUpTo, Permuted
<1> HIDE DEF c
(* A bookmark that is not made anew is another editor's, or a dropped one.  *)
<1>7. ASSUME NEW i \in 1..n, Unmoved(i)
      PROVE  list[i] \in others \/ \E d \in 1..Len(s) : s[d] # 0 /\ d \notin stay /\ s[d] = list[i]
  <2>1. list[i] \in ToSet(list)
    BY <1>2 DEF ToSet
  <2>2. list[i] \in others \/ list[i] \in Marked(s)
    BY <2>1 DEF Setting
  <2>3. CASE list[i] \in Marked(s)
    <3>1. PICK d \in 1..Len(s) : s[d] = list[i] /\ s[d] # 0
      BY <1>2, <2>3 DEF Marked, ToSet
    <3>2. d \notin stay
      BY <1>7, <3>1
    <3> QED  BY <3>1, <3>2
  <2> QED  BY <2>2, <2>3
<1>8. ASSUME NEW i \in 1..n, Unmoved(i), NEW k \in stay PROVE list[i] # at[k]
  <2>1. CASE list[i] \in others
    BY <2>1 DEF Setting
  <2>2. CASE \E d \in 1..Len(s) : s[d] # 0 /\ d \notin stay /\ s[d] = list[i]
    BY <2>2 DEF Setting
  <2> QED  BY <1>7, <1>8, <2>1, <2>2
<1>9. \A i, j \in 1..n : list[i] = list[j] => i = j
  BY <1>2 DEF Setting, IsInjective
<1>10. ASSUME NEW i \in 1..n, NEW j \in 1..n, c[i] = c[j] PROVE i = j
  <2>1. CASE Unmoved(i) /\ Unmoved(j)
    <3>1. list[i] = list[j]
      BY <1>4, <1>10, <2>1
    <3> QED  BY <1>9, <3>1
  <2>2. CASE Unmoved(i) /\ ~Unmoved(j)
    <3>1. PICK k \in stay : s[k] = list[j]
      BY <2>2
    <3>2. c[j] = at[k] /\ c[i] = list[i]
      BY <1>4, <1>5, <2>2, <3>1
    <3> QED  BY <1>8, <1>10, <2>2, <3>2
  <2>3. CASE ~Unmoved(i) /\ Unmoved(j)
    <3>1. PICK k \in stay : s[k] = list[i]
      BY <2>3
    <3>2. c[i] = at[k] /\ c[j] = list[j]
      BY <1>4, <1>5, <2>3, <3>1
    <3> QED  BY <1>8, <1>10, <2>3, <3>2
  <2>4. CASE ~Unmoved(i) /\ ~Unmoved(j)
    <3>1. PICK k \in stay : s[k] = list[i]
      BY <2>4
    <3>2. PICK l \in stay : s[l] = list[j]
      BY <2>4
    <3>3. at[k] = at[l]
      BY <1>5, <1>10, <3>1, <3>2
    <3>4. k = l
      BY <3>3 DEF Setting
    <3> QED  BY <1>9, <3>1, <3>2, <3>4
  <2> QED  BY <2>1, <2>2, <2>3, <2>4
<1>11. q \in [1..n -> 1..n] /\ (\A i, j \in 1..n : q[i] = q[j] => i = j)
       /\ \A i \in 1..n : \E j \in 1..n : q[j] = i
  BY <1>6 DEF Shuffle
<1>12. IsInjective(m.list)
  <2> SUFFICES ASSUME NEW i \in 1..n, NEW j \in 1..n, m.list[i] = m.list[j] PROVE i = j
    BY <1>3 DEF IsInjective
  <2>1. c[q[i]] = c[q[j]] /\ q[i] \in 1..n /\ q[j] \in 1..n
    BY <1>6, <1>11
  <2> QED  BY <1>10, <1>11, <2>1
<1>13. \A x : x \in ToSet(m.list) <=> \E i \in 1..n : c[i] = x
  <2>1. \A x : x \in ToSet(m.list) <=> \E j \in 1..n : m.list[j] = x
    BY <1>3 DEF ToSet
  <2>2. ASSUME NEW j \in 1..n PROVE \E i \in 1..n : c[i] = m.list[j]
    BY <1>6, <1>11
  <2>3. ASSUME NEW i \in 1..n PROVE \E j \in 1..n : m.list[j] = c[i]
    <3>1. PICK j \in 1..n : q[j] = i
      BY <1>11
    <3> QED  BY <1>6, <3>1
  <2>4. ASSUME NEW x \in ToSet(m.list) PROVE \E i \in 1..n : c[i] = x
    BY <2>1, <2>2
  <2>5. ASSUME NEW i \in 1..n PROVE c[i] \in ToSet(m.list)
    BY <2>1, <2>3
  <2> QED  BY <2>4, <2>5
<1>14. ASSUME NEW k \in stay PROVE \E i \in 1..n : c[i] = at[k]
  <2>1. s[k] \in Marked(s)
    BY <1>2 DEF Marked, ToSet
  <2>2. s[k] \in ToSet(list)
    BY <2>1 DEF Setting
  <2>3. PICK i \in 1..n : list[i] = s[k]
    BY <1>2, <2>2 DEF ToSet
  <2> QED  BY <1>5, <2>3
<1>15. \A x : x \in Marked(m.doc) <=> x # 0 /\ \E j \in 1..Len(typed) : m.doc[j] = x
  BY <1>3, MarkedIs
<1>16. ASSUME NEW x \in Marked(m.doc) PROVE \E k \in stay : x = at[k]
  <2>1. PICK j \in 1..Len(typed) : m.doc[j] = x /\ x # 0
    BY <1>15
  <2>2. Len(s) # 0
    BY <1>2
  <2> QED  BY <2>1, <2>2 DEF RemadeUpTo
<1>17. \A k \in stay : at[k] \in m.deleted <=> at[k] \notin ToSet(m.doc)
  BY <1>2 DEF RemadeUpTo
<1>18. others \cap Marked(m.doc) = {}
  BY <1>16 DEF Setting
<1>19. ASSUME NEW x \in ToSet(m.list) \ m.deleted PROVE x \in others \cup Marked(m.doc)
  <2>1. PICK i \in 1..n : c[i] = x
    BY <1>13
  <2>2. CASE Unmoved(i)
    <3>1. x = list[i]
      BY <1>4, <2>1, <2>2
    <3>2. ~\E d \in 1..Len(s) : s[d] # 0 /\ d \notin stay /\ s[d] = list[i]
      BY <3>1 DEF RemadeUpTo
    <3> QED  BY <1>7, <2>2, <3>1, <3>2
  <2>3. CASE ~Unmoved(i)
    <3>1. PICK k \in stay : s[k] = list[i]
      BY <2>3
    <3>2. x = at[k] /\ x \in Addresses
      BY <1>5, <2>1, <3>1 DEF Setting
    <3>3. x \in ToSet(m.doc) /\ x # 0
      BY <1>17, <3>2, BookmarksBounds
    <3> QED  BY <3>3 DEF Marked
  <2> QED  BY <2>2, <2>3
<1>20. ASSUME NEW x \in others PROVE x \in ToSet(m.list) \ m.deleted
  <2>1. x \notin Marked(s) /\ x \in ToSet(list) /\ \A k \in stay : x # at[k]
    BY DEF Setting
  <2>2. PICK i \in 1..n : list[i] = x
    BY <1>2, <2>1 DEF ToSet
  <2>3. Unmoved(i)
    <3> SUFFICES ASSUME NEW k \in stay, s[k] = x PROVE FALSE
      BY <2>2
    <3>1. x \in Marked(s)
      BY <1>2 DEF Marked, ToSet
    <3> QED  BY <2>1, <3>1
  <2>4. x \in ToSet(m.list)
    BY <1>4, <1>13, <2>2, <2>3
  <2> QED  BY <2>1, <2>4
<1>21. ASSUME NEW x \in Marked(m.doc) PROVE x \in ToSet(m.list) \ m.deleted
  <2>1. PICK k \in stay : x = at[k]
    BY <1>16
  <2>2. x \in ToSet(m.doc)
    BY DEF Marked
  <2> QED  BY <1>13, <1>14, <1>17, <2>1, <2>2
<1> QED  BY <1>12, <1>18, <1>19, <1>20, <1>21

-----------------------------------------------------------------------------
LEMMA EffectIs ==
  ASSUME MarkTypes, NEW e \in Editors, NEW effect \in Effects(e)
  PROVE  /\ effect.lines \in Nat /\ effect.lines >= 1
         /\ effect.marked[1].number = 1 /\ ~effect.marked[1].dropped
<1>1. Len(docs[e]) \in 1..MaxLines /\ DOMAIN docs[e] = 1..Len(docs[e])
  BY DEF MarkTypes
<1>2. PICK n \in 1..MaxLines : n = Len(docs[e])
  BY <1>1
<1>3. PICK found \in Found[n] :
        effect = [marked |-> [l \in 1..n |-> Moved(l, found)], lines |-> Grown(n, found)]
  BY <1>1, <1>2 DEF Effects
<1>4. effect.lines = Grown(n, found) /\ effect.marked[1] = Moved(1, found)
  BY <1>3, BookmarksBounds
<1> QED  BY <1>4, GrownIs, FirstStays

LEMMA RewrittenIs ==
  ASSUME MarkTypes, NEW e \in Editors, NEW effect, effect.lines \in Nat, effect.lines >= 1,
         NEW firstKept
  PROVE  LET typed == Rewritten(e, effect, firstKept) IN
         /\ typed \in Seq(Addresses \cup {0}) /\ Len(typed) = effect.lines
         /\ \A l \in 1..effect.lines : typed[l] = IF l = 1 /\ firstKept THEN docs[e][1] ELSE 0
<1>1. docs[e][1] \in Addresses \cup {0}
  BY BookmarksBounds DEF MarkTypes
<1> QED  BY <1>1 DEF Rewritten

(* The steps of the loop.                                                   *)
Steps(made, e, effect, firstKept, at) ==
    /\ made[0] = [list |-> marks, doc |-> Rewritten(e, effect, firstKept),
                  deleted |-> (ToSet(docs[e]) \ {0}) \ ToSet(Rewritten(e, effect, firstKept))]
    /\ \A l \in 1..Len(docs[e]) :
         made[l] = IF l \in Staying(e, effect)
                   THEN Revived(made[l - 1], docs[e][l], at[l], effect.marked[l].number)
                   ELSE made[l - 1]

Hands(e, effect, at) == Marked(docs[e]) \cup {at[l] : l \in Staying(e, effect)}

LEMMA RemadeIs ==
  ASSUME MarkTypes, NEW e \in Editors, NEW effect, effect.lines \in Nat, effect.lines >= 1,
         NEW firstKept, NEW at, \A l \in Staying(e, effect) : at[l] \in Addresses
  PROVE  \E made :
           /\ Steps(made, e, effect, firstKept, at)
           /\ Remade(e, effect, firstKept, at) = made[Len(docs[e])]
           /\ \A l \in 0..Len(docs[e]) :
                /\ made[l].list \in Seq(Addresses) /\ Len(made[l].list) = Len(marks)
                /\ made[l].doc \in Seq(Addresses \cup {0}) /\ Len(made[l].doc) = effect.lines
                /\ made[l].deleted \subseteq Hands(e, effect, at)
<1> DEFINE N == Len(docs[e])
           stay == Staying(e, effect)
           typed == Rewritten(e, effect, firstKept)
           H == Hands(e, effect, at)
           Lists == {x \in Seq(Addresses) : Len(x) = Len(marks)}
           NewDocs == {x \in Seq(H \cup {0}) : Len(x) = effect.lines}
           D == [list : Lists, doc : NewDocs, deleted : SUBSET H]
           begin == [list |-> marks, doc |-> typed, deleted |-> (ToSet(docs[e]) \ {0}) \ ToSet(typed)]
           Then(l, m) == IF l \in stay THEN Revived(m, docs[e][l], at[l], effect.marked[l].number) ELSE m
           step == [l \in 1..N |-> [m \in D |-> Then(l, m)]]
           Is(g) == g = [l \in 0..N |->
                            IF l = 0 THEN begin
                            ELSE IF l \in stay
                                 THEN Revived(g[l - 1], docs[e][l], at[l], effect.marked[l].number)
                            ELSE g[l - 1]]
<1>1. docs[e] \in Seq(Addresses \cup {0}) /\ N \in Nat /\ N >= 1 /\ marks \in Seq(Addresses)
  BY BookmarksBounds DEF MarkTypes
<1>2. H \subseteq Addresses
  BY <1>1, MarkedIs DEF Hands
<1>3. begin \in D
  <2>1. docs[e][1] \in Marked(docs[e]) \cup {0}
    BY <1>1 DEF Marked, ToSet
  <2>2. typed \in Seq(H \cup {0}) /\ Len(typed) = effect.lines
    <3>1. \A l \in 1..effect.lines : (IF l = 1 /\ firstKept THEN docs[e][1] ELSE 0) \in H \cup {0}
      BY <2>1 DEF Hands
    <3> HIDE DEF H
    <3> QED  BY <3>1 DEF Rewritten
  <2>3. (ToSet(docs[e]) \ {0}) \ ToSet(typed) \subseteq H
    BY DEF Hands, Marked
  <2> HIDE DEF typed, H
  <2> QED  BY <1>1, <2>2, <2>3
<1>4. ASSUME NEW m \in D, NEW l \in 1..N PROVE Then(l, m) \in D
  <2>1. CASE l \in stay
    <3> DEFINE p == at[l]
               line == effect.marked[l].number
               j0 == IndexOf(m.list, docs[e][l]) + 1
               list2 == ReplaceAt(m.list, j0, p)
               doc2 == IF line \in DOMAIN m.doc THEN [m.doc EXCEPT ![line] = p] ELSE m.doc
               deleted2 == (m.deleted \ {p}) \cup IF line \in DOMAIN m.doc THEN {m.doc[line]} \ {0} ELSE {}
    <3>1. p \in Addresses /\ p \in H
      BY <2>1 DEF Hands
    <3>2. Then(l, m) = [list |-> list2, deleted |-> deleted2, doc |-> doc2]
      BY <2>1 DEF Revived
    <3> HIDE DEF p, line, j0, H
    <3>3. list2 \in Lists
      <4>1. PICK a \in Seq(Addresses) : a = m.list /\ Len(a) = Len(marks)
        OBVIOUS
      <4>2. [a EXCEPT ![j0] = p] \in Seq(Addresses) /\ Len([a EXCEPT ![j0] = p]) = Len(a)
        <5>1. CASE j0 \in 1..Len(a)
          BY <3>1, <5>1, ExceptSeq
        <5>2. CASE j0 \notin 1..Len(a)
          <6>1. DOMAIN a = 1..Len(a)
            OBVIOUS
          <6>2. \A i \in DOMAIN a : [a EXCEPT ![j0] = p][i] = a[i]
            BY <5>2, <6>1
          <6>3. a = [i \in DOMAIN a |-> a[i]]
            OBVIOUS
          <6>4. [a EXCEPT ![j0] = p] = [i \in DOMAIN a |-> [a EXCEPT ![j0] = p][i]]
            BY Zenon
          <6>5. [a EXCEPT ![j0] = p] = a
            BY <6>2, <6>3, <6>4
          <6> QED  BY <6>5
        <5> QED  BY <5>1, <5>2
      <4>3. list2 = [a EXCEPT ![j0] = p]
        BY <4>1 DEF ReplaceAt
      <4> HIDE DEF list2
      <4> QED  BY <4>1, <4>2, <4>3
    <3>4. doc2 \in NewDocs
      BY <3>1
    <3>5. deleted2 \subseteq H
      <4>1. line \in DOMAIN m.doc => m.doc[line] \in H \cup {0}
        OBVIOUS
      <4> QED  BY <4>1
    <3> HIDE DEF list2, doc2, deleted2, Lists, NewDocs, Then
    <3> QED  BY <3>2, <3>3, <3>4, <3>5
  <2>2. CASE l \notin stay
    BY <2>2
  <2> QED  BY <2>1, <2>2
<1>5. ASSUME NEW m \in D
      PROVE  /\ m.list \in Seq(Addresses) /\ Len(m.list) = Len(marks)
             /\ m.doc \in Seq(Addresses \cup {0}) /\ Len(m.doc) = effect.lines
             /\ m.deleted \subseteq H
  <2>1. m.list \in Lists /\ m.doc \in NewDocs /\ m.deleted \subseteq H
    OBVIOUS
  <2>2. m.doc \in Seq(H \cup {0}) /\ Len(m.doc) = effect.lines
    BY <2>1
  <2>3. m.doc \in Seq(Addresses \cup {0})
    <3> HIDE DEF H, D
    <3> QED  BY <1>2, <2>2
  <2> QED  BY <2>1, <2>2, <2>3
<1> HIDE DEF D
<1>6. step \in [1..N -> [D -> D]]
  <2> HIDE DEF Then
  <2> QED  BY <1>4
<1>7. PICK g : Recurs(g, D, begin, N, step)
  <2> HIDE DEF step, begin, N
  <2> QED  BY <1>1, <1>3, <1>6, RecursionExists
<1>8. Is(g)
  <2>1. g \in [0..N -> D] /\ g = [k \in 0..N |-> IF k = 0 THEN begin ELSE step[k][g[k - 1]]]
    <3> HIDE DEF step, begin, N
    <3> QED  BY <1>7 DEF Recurs
  <2>2. \A k \in 0..N : k # 0 => k \in 1..N /\ k - 1 \in 0..N
    BY <1>1
  <2>3. \A k \in 0..N : k # 0 => step[k][g[k - 1]] = Then(k, g[k - 1])
    <3> HIDE DEF begin, N, Then
    <3> QED  BY <2>1, <2>2
  <2> HIDE DEF step, begin, N
  <2> QED  BY <2>1, <2>3
<1> DEFINE made == CHOOSE h : Is(h)
<1>9. Is(made)
  <2> HIDE DEF Is
  <2> QED  BY <1>8
<1>10. Remade(e, effect, firstKept, at) = made[N]
  BY DEF Remade
<1> HIDE DEF made, step
<1>11. made[0] = begin /\ \A l \in 1..N : made[l] = Then(l, made[l - 1])
  <2>1. 0 \in 0..N /\ \A k \in 1..N : k \in 0..N /\ k # 0
    BY <1>1
  <2> HIDE DEF begin, N
  <2> QED  BY <1>9, <2>1
<1> DEFINE S == {l \in 0..N : made[l] \in D}
<1>12. 0 \in S
  BY <1>1, <1>3, <1>11
<1>13. ASSUME NEW k \in Nat, k < N, k \in S PROVE k + 1 \in S
  <2>1. k + 1 \in 1..N /\ k + 1 - 1 = k /\ k + 1 \in 0..N
    BY <1>1, <1>13
  <2>2. made[k + 1] = Then(k + 1, made[k])
    BY <1>11, <2>1
  <2> HIDE DEF Then
  <2> QED  BY <1>4, <1>13, <2>1, <2>2
<1> HIDE DEF S
<1>14. 0..N \subseteq S
  BY <1>1, <1>12, <1>13, BoundedInduction
<1>15. \A l \in 0..N : made[l] \in D
  BY <1>14 DEF S
<1>16. Steps(made, e, effect, firstKept, at)
  BY <1>11 DEF Steps
<1>17. \A l \in 0..N :
          /\ made[l].list \in Seq(Addresses) /\ Len(made[l].list) = Len(marks)
          /\ made[l].doc \in Seq(Addresses \cup {0}) /\ Len(made[l].doc) = effect.lines
          /\ made[l].deleted \subseteq H
  BY <1>5, <1>15
<1> QED  BY <1>10, <1>16, <1>17

(* Any order of the destructors lists what is deleted.                      *)
LEMMA OrderIs ==
  ASSUME NEW S, IsFiniteSet(S), NEW order \in SetToSeqs(S)
  PROVE  order \in Seq(S) /\ ToSet(order) = S
<1> DEFINE D == 1..Cardinality(S)
<1>1. Cardinality(S) \in Nat
  BY FS_CardinalityType
<1>2. order \in [D -> S] /\ \A i, j \in D : i # j => order[i] # order[j]
  BY DEF SetToSeqs
<1>3. order \in Injection(D, S)
  BY <1>2 DEF Injection, IsInjective
<1>4. IsFiniteSet(D) /\ Cardinality(D) = Cardinality(S)
  BY <1>1, FS_Interval
<1>5. order \in Surjection(D, S)
  <2> HIDE DEF D
  <2> QED  BY <1>3, <1>4, FS_Injection
<1>6. ToSet(order) = S
  BY <1>2, <1>5 DEF Surjection, ToSet
<1>7. order \in Seq(S)
  BY <1>1, <1>2
<1> QED  BY <1>6, <1>7

LEMMA HandsAreFinite ==
  ASSUME MarkTypes, NEW e \in Editors, NEW effect, NEW at
  PROVE  IsFiniteSet(Hands(e, effect, at))
<1> DEFINE s == docs[e]
           N == Len(s)
           stay == Staying(e, effect)
           olds == [l \in 1..N |-> s[l]]
           news == [l \in stay |-> at[l]]
<1>1. s \in Seq(Addresses \cup {0}) /\ N \in Nat /\ DOMAIN s = 1..N
  BY DEF MarkTypes
<1>2. IsFiniteSet(1..N)
  BY <1>1, FS_Interval
<1>3. stay \subseteq 1..N
  BY <1>1 DEF Staying
<1>4. IsFiniteSet(stay)
  <2> HIDE DEF stay, N
  <2> QED  BY <1>2, <1>3, FS_Subset
<1>5. IsFiniteSet(ToSet(s))
  <2>1. olds \in Surjection(1..N, ToSet(s))
    BY <1>1 DEF Surjection, ToSet
  <2> HIDE DEF olds, N, s
  <2> QED  BY <1>2, <2>1, FS_Surjection
<1>6. IsFiniteSet({at[l] : l \in stay})
  <2>1. news \in Surjection(stay, {at[l] : l \in stay})
    <3> HIDE DEF stay
    <3> QED  BY DEF Surjection
  <2> HIDE DEF news, stay
  <2> QED  BY <1>4, <2>1, FS_Surjection
<1>7. IsFiniteSet(Marked(s))
  <2> HIDE DEF s
  <2> QED  BY <1>5, FS_Difference DEF Marked
<1>8. IsFiniteSet(Marked(s) \cup {at[l] : l \in stay})
  <2> HIDE DEF s, stay
  <2> QED  BY <1>6, <1>7, FS_Union
<1> QED  BY <1>8 DEF Hands

Replacing(e, effect, firstKept, at) ==
    Setting(docs[e], marks, Others(e), Staying(e, effect), at,
            [l \in Staying(e, effect) |-> effect.marked[l].number], Rewritten(e, effect, firstKept))

LEMMA ReplacingIs ==
  ASSUME MarkTypes, Alive, NEW e \in Editors, NEW effect \in Effects(e),
         NEW firstKept \in {FALSE, docs[e][1] # 0}, NEW at \in Memory(e, effect, firstKept),
         \A l \in Staying(e, effect) : effect.marked[l].number \in 1..effect.lines,
         \A l \in DOMAIN docs[e], k \in Staying(e, effect) :
            ~(docs[e][l] # 0 /\ effect.marked[l].dropped /\ docs[e][l] = at[k])
  PROVE  Replacing(e, effect, firstKept, at)
<1> DEFINE s == docs[e]
           stay == Staying(e, effect)
           typed == Rewritten(e, effect, firstKept)
           number == [l \in stay |-> effect.marked[l].number]
<1>1. effect.lines \in Nat /\ effect.lines >= 1 /\ effect.marked[1].number = 1 /\ ~effect.marked[1].dropped
  BY EffectIs
<1>2. /\ typed \in Seq(Addresses \cup {0}) /\ Len(typed) = effect.lines
      /\ \A l \in 1..effect.lines : typed[l] = IF l = 1 /\ firstKept THEN s[1] ELSE 0
  BY <1>1, RewrittenIs
<1>3. /\ s \in Seq(Addresses \cup {0}) /\ Single(s) /\ Len(s) >= 1 /\ Len(s) \in Nat
      /\ marks \in Seq(Addresses) /\ IsInjective(marks) /\ DOMAIN s = 1..Len(s)
  BY BookmarksBounds DEF MarkTypes, Alive
<1>4. ToSet(marks) = Others(e) \cup Marked(s) /\ Others(e) \cap Marked(s) = {}
  BY LiveIs DEF Alive
<1>5. \A l : l \in stay <=> l \in 1..Len(s) /\ s[l] # 0 /\ ~effect.marked[l].dropped
  BY <1>3 DEF Staying
<1>6. /\ at \in [stay -> Addresses \ ((Live \ ToSet(s)) \cup ToSet(typed))]
      /\ IsInjective(at)
  BY DEF Memory
<1> HIDE DEF stay, typed
<1>7. \A l \in stay : at[l] \in Addresses /\ at[l] \notin Live \ ToSet(s) /\ at[l] \notin ToSet(typed)
  BY <1>6
<1>8. Others(e) \subseteq Live \ ToSet(s)
  <2>1. Live = Others(e) \cup Marked(s)
    BY LiveIs
  <2>2. 0 \notin Live
    BY DEF Live
  <2> QED  BY <1>4, <2>1, <2>2 DEF Marked
<1>9. \A k, l \in stay : at[k] = at[l] => k = l
  BY <1>6 DEF IsInjective
<1>10. ASSUME NEW d \in 1..Len(s), NEW k \in stay, s[d] # 0, d \notin stay PROVE s[d] # at[k]
  <2>1. effect.marked[d].dropped
    BY <1>5, <1>10
  <2> QED  BY <1>3, <1>10, <2>1 DEF stay
<1>11. \A l \in stay : number[l] \in 1..Len(typed)
  BY <1>2 DEF stay
<1>12. ASSUME NEW j \in 1..Len(typed), typed[j] # 0 PROVE j = 1 /\ 1 \in stay /\ typed[1] = s[1]
  <2>1. j = 1 /\ firstKept
    BY <1>2, <1>12
  <2>2. s[1] # 0 /\ typed[1] = s[1]
    BY <1>2, <1>12, <2>1
  <2>3. 1 \in 1..Len(s)
    BY <1>3
  <2> QED  BY <1>1, <1>5, <2>1, <2>2, <2>3
<1>13. 1 \in stay => number[1] = 1
  BY <1>1
<1> HIDE DEF number, s
<1>14. /\ \A l \in stay : l \in 1..Len(s) /\ s[l] # 0
       /\ \A l \in stay : at[l] \in Addresses /\ at[l] \notin Others(e) /\ at[l] \notin ToSet(typed)
       /\ \A d \in 1..Len(s), k \in stay : s[d] # 0 /\ d \notin stay => s[d] # at[k]
       /\ \A j \in 1..Len(typed) : typed[j] # 0 => j = 1 /\ 1 \in stay /\ typed[1] = s[1]
       /\ Len(typed) >= 1
  BY <1>1, <1>2, <1>5, <1>7, <1>8, <1>10, <1>12
<1>15. Setting(s, marks, Others(e), stay, at, number, typed)
  BY <1>2, <1>3, <1>4, <1>9, <1>11, <1>13, <1>14 DEF Setting
<1> QED  BY <1>15 DEF Replacing, s, stay, number, typed

LEMMA RemadeRight ==
  ASSUME NEW e \in Editors, NEW effect, NEW firstKept, NEW at,
         Replacing(e, effect, firstKept, at),
         NEW made, Steps(made, e, effect, firstKept, at)
  PROVE  RemadeUpTo(made[Len(docs[e])], Len(docs[e]), docs[e], marks, Staying(e, effect), at,
                    Rewritten(e, effect, firstKept))
<1> DEFINE s == docs[e]
           stay == Staying(e, effect)
           typed == Rewritten(e, effect, firstKept)
           number == [l \in stay |-> effect.marked[l].number]
           N == Len(s)
           S == {l \in 0..N : RemadeUpTo(made[l], l, s, marks, stay, at, typed)}
<1>1. Setting(s, marks, Others(e), stay, at, number, typed)
  BY DEF Replacing
<1>2. N \in Nat
  BY <1>1 DEF Setting
<1>3. /\ made[0] = [list |-> marks, doc |-> typed, deleted |-> (ToSet(s) \ {0}) \ ToSet(typed)]
      /\ \A l \in 1..N : made[l] = IF l \in stay THEN Revived(made[l - 1], s[l], at[l], effect.marked[l].number)
                                   ELSE made[l - 1]
  BY DEF Steps
<1>4. \A l \in stay : number[l] = effect.marked[l].number
  OBVIOUS
<1> HIDE DEF s, stay, typed, number
<1>5. 0 \in S
  <2>1. made[0].list = marks /\ made[0].doc = typed /\ made[0].deleted = (ToSet(s) \ {0}) \ ToSet(typed)
    BY <1>3
  <2>2. RemadeUpTo(made[0], 0, s, marks, stay, at, typed)
    BY <1>1, <2>1, NothingRemade
  <2> QED  BY <1>2, <2>2
<1>6. ASSUME NEW k \in Nat, k < N, k \in S PROVE k + 1 \in S
  <2>1. PICK l \in 1..N : l = k + 1 /\ l - 1 = k /\ l \in 0..N
    BY <1>2, <1>6
  <2>2. RemadeUpTo(made[l - 1], l - 1, s, marks, stay, at, typed)
    BY <1>6, <2>1
  <2>3. CASE l \in stay
    <3>1. made[l] = Revived(made[l - 1], s[l], at[l], number[l])
      BY <1>3, <1>4, <2>3
    <3>2. RemadeUpTo(made[l], l, s, marks, stay, at, typed)
      BY <1>1, <2>2, <2>3, <3>1, OneRemade
    <3> QED  BY <2>1, <3>2
  <2>4. CASE l \notin stay
    <3>1. made[l] = made[l - 1]
      BY <1>3, <2>4
    <3>2. RemadeUpTo(made[l], l, s, marks, stay, at, typed)
      BY <1>1, <2>2, <2>4, <3>1, NotRemade
    <3> QED  BY <2>1, <3>2
  <2> QED  BY <2>3, <2>4
<1> HIDE DEF S
<1>7. 0..N \subseteq S
  BY <1>2, <1>5, <1>6, BoundedInduction
<1>8. N \in S
  BY <1>2, <1>7
<1>9. RemadeUpTo(made[N], N, s, marks, stay, at, typed)
  BY <1>8 DEF S
<1> QED  BY <1>9 DEF s, stay, typed

LEMMA ReplaceKeeps ==
  ASSUME MarkTypes, Alive, NEW e \in Editors, NEW effect \in Effects(e),
         NEW firstKept \in {FALSE, docs[e][1] # 0}, ReplaceAllIn(e, effect, firstKept)
  PROVE  MarksInv'
<1>1. PICK at \in Memory(e, effect, firstKept) :
        LET end == Remade(e, effect, firstKept, at) IN
        /\ docs' = [docs EXCEPT ![e] = end.doc]
        /\ \E order \in SetToSeqs(end.deleted) : Keep(Destroyed(Listed(end.list, lastUsed), order))
        /\ unlisted' = \/ \E l \in DOMAIN at : effect.marked[l].number \notin 1..effect.lines
                       \/ \E l \in DOMAIN docs[e], k \in DOMAIN at :
                            docs[e][l] # 0 /\ effect.marked[l].dropped /\ docs[e][l] = at[k]
  BY DEF ReplaceAllIn
<1>2. effect.lines \in Nat /\ effect.lines >= 1 /\ effect.lines <= MaxLines
  BY EffectIs DEF ReplaceAllIn
<1>3. at \in [Staying(e, effect) -> Addresses] /\ DOMAIN at = Staying(e, effect)
  BY DEF Memory
<1>4. \A l \in Staying(e, effect) : at[l] \in Addresses
  BY <1>3
<1>5. PICK made :
        /\ Steps(made, e, effect, firstKept, at)
        /\ Remade(e, effect, firstKept, at) = made[Len(docs[e])]
        /\ \A l \in 0..Len(docs[e]) :
             /\ made[l].list \in Seq(Addresses) /\ Len(made[l].list) = Len(marks)
             /\ made[l].doc \in Seq(Addresses \cup {0}) /\ Len(made[l].doc) = effect.lines
             /\ made[l].deleted \subseteq Hands(e, effect, at)
  BY <1>2, <1>4, RemadeIs
<1>6. PICK m : m = made[Len(docs[e])]
  OBVIOUS
<1>7. /\ m.list \in Seq(Addresses) /\ Len(m.list) = Len(marks)
      /\ m.doc \in Seq(Addresses \cup {0}) /\ Len(m.doc) = effect.lines
      /\ m.deleted \subseteq Hands(e, effect, at)
  <2>1. Len(docs[e]) \in 0..Len(docs[e])
    BY DEF MarkTypes
  <2> QED  BY <1>5, <1>6, <2>1
<1>8. PICK order \in SetToSeqs(m.deleted) : Keep(Destroyed(Listed(m.list, lastUsed), order))
  BY <1>1, <1>5, <1>6
<1>9. docs' = [docs EXCEPT ![e] = m.doc]
  BY <1>1, <1>5, <1>6
<1>10. IsFiniteSet(m.deleted)
  BY <1>7, HandsAreFinite, FS_Subset
<1>11. order \in Seq(m.deleted) /\ ToSet(order) = m.deleted
  BY <1>10, OrderIs
<1>12. m.deleted \subseteq Addresses
  <2>1. docs[e] \in Seq(Addresses \cup {0})
    BY DEF MarkTypes
  <2>2. Hands(e, effect, at) \subseteq Addresses
    BY <1>4, <2>1, MarkedIs DEF Hands
  <2> QED  BY <1>7, <2>2
<1>13. order \in Seq(Addresses \cup {0})
  BY <1>11, <1>12
<1>14. InList(m.list, lastUsed) /\ lastUsed \in Int /\ lastUsed >= -3
  <2>1. m.list # <<>> => marks # <<>>
    BY <1>7 DEF MarkTypes
  <2> QED  BY <1>7, <2>1 DEF MarkTypes, InList
<1>15. PICK d : d = Destroyed(Listed(m.list, lastUsed), order)
  OBVIOUS
<1>16. marks' = d.list /\ lastUsed' = d.pos
  BY <1>8, <1>15 DEF Keep
<1>17. /\ d.list \in Seq(Addresses) /\ d.pos \in Int /\ d.pos >= -3
       /\ InList(d.list, d.pos)
       /\ IsInjective(m.list) => IsInjective(d.list) /\ ToSet(d.list) = ToSet(m.list) \ ToSet(order)
  BY <1>7, <1>13, <1>14, <1>15, DestroyedIs
<1>18. Len(m.doc) \in 1..MaxLines
  BY <1>2, <1>7, BookmarksBounds
<1>19. /\ docs' \in [Editors -> Seq(Addresses \cup {0})]
       /\ \A f \in Editors : Len(docs'[f]) \in 1..MaxLines
       /\ Live' = Others(e) \cup Marked(m.doc)
       /\ Alive /\ Single(m.doc) /\ Others(e) \cap Marked(m.doc) = {} =>
             /\ \A f \in Editors : Single(docs'[f])
             /\ \A f, g \in Editors : f # g => Marked(docs'[f]) \cap Marked(docs'[g]) = {}
  BY <1>7, <1>9, <1>18, NewDoc
<1>20. unlisted' \in BOOLEAN
  BY <1>1
<1>21. MarkTypes'
  BY <1>16, <1>17, <1>19, <1>20 DEF MarkTypes
<1>22. ASSUME ~unlisted' PROVE Alive'
  <2>1. /\ \A l \in Staying(e, effect) : effect.marked[l].number \in 1..effect.lines
        /\ \A l \in DOMAIN docs[e], k \in Staying(e, effect) :
             ~(docs[e][l] # 0 /\ effect.marked[l].dropped /\ docs[e][l] = at[k])
    BY <1>1, <1>3, <1>22
  <2>2. Replacing(e, effect, firstKept, at)
    BY <2>1, ReplacingIs
  <2>3. RemadeUpTo(m, Len(docs[e]), docs[e], marks, Staying(e, effect), at, Rewritten(e, effect, firstKept))
    BY <1>5, <1>6, <2>2, RemadeRight
  <2>4. \A x \in m.deleted : x \in Marked(docs[e]) \/ \E k \in Staying(e, effect) : x = at[k]
    BY <1>7 DEF Hands
  <2>5. PICK number : Setting(docs[e], marks, Others(e), Staying(e, effect), at, number,
                              Rewritten(e, effect, firstKept))
    BY <2>2 DEF Replacing
  <2>6. /\ IsInjective(m.list)
        /\ ToSet(m.list) \ m.deleted = Others(e) \cup Marked(m.doc)
        /\ Others(e) \cap Marked(m.doc) = {}
    BY <2>3, <2>4, <2>5, AllRemade
  <2>7. Single(m.doc)
    BY <2>3 DEF RemadeUpTo
  <2>8. IsInjective(marks') /\ ToSet(marks') = Live'
    BY <1>11, <1>16, <1>17, <1>19, <2>6
  <2> QED  BY <1>19, <2>6, <2>7, <2>8 DEF Alive
<1> QED  BY <1>21, <1>22 DEF MarksInv

-----------------------------------------------------------------------------
LEMMA MarksBegin == MarksInit => MarksInv
<1> SUFFICES ASSUME MarksInit PROVE MarksInv
  OBVIOUS
<1>1. /\ docs = [e \in Editors |-> [l \in 1..MaxLines |-> 0]]
      /\ marks = <<>> /\ lastUsed = 0 /\ unlisted = FALSE
  BY DEF MarksInit
<1>2. MaxLines \in Nat /\ MaxLines >= 1
  BY BookmarksBounds
<1>3. PICK blank : blank = [l \in 1..MaxLines |-> 0]
  OBVIOUS
<1>4. blank \in Seq(Addresses \cup {0}) /\ Len(blank) = MaxLines /\ \A l \in 1..MaxLines : blank[l] = 0
  BY <1>2, <1>3
<1>5. \A e \in Editors : docs[e] = blank
  BY <1>1, <1>3
<1>6. docs \in [Editors -> Seq(Addresses \cup {0})]
  BY <1>1, <1>3, <1>4
<1>7. Marked(blank) = {} /\ Single(blank)
  <2>1. DOMAIN blank = 1..MaxLines
    BY <1>3
  <2> QED  BY <1>4, <2>1 DEF Marked, Single, ToSet
<1>8. Live = {}
  BY <1>5, <1>7 DEF Live, Marked
<1>9. MarkTypes
  <2>1. marks \in Seq(Addresses)
    BY <1>1
  <2>2. InList(marks, lastUsed)
    BY <1>1 DEF InList
  <2>3. \A e \in Editors : Len(docs[e]) \in 1..MaxLines
    BY <1>2, <1>4, <1>5
  <2>4. lastUsed \in Int /\ lastUsed >= -3
    BY <1>1
  <2>5. unlisted \in BOOLEAN
    BY <1>1
  <2> QED  BY <1>6, <2>1, <2>2, <2>3, <2>4, <2>5 DEF MarkTypes
<1>10. IsInjective(marks) /\ ToSet(marks) = {}
  BY <1>1 DEF IsInjective, ToSet
<1>11. Alive
  BY <1>5, <1>7, <1>8, <1>10 DEF Alive
<1> QED  BY <1>9, <1>11 DEF MarksInv

LEMMA MarksKeep == MarksInv /\ [MarksNext]_markVars => MarksInv'
<1> SUFFICES ASSUME MarksInv, [MarksNext]_markVars PROVE MarksInv'
  OBVIOUS
<1>1. CASE UNCHANGED markVars
  <2>1. docs' = docs /\ marks' = marks /\ lastUsed' = lastUsed /\ unlisted' = unlisted
    BY <1>1 DEF markVars
  <2>2. Live' = Live
    BY <2>1 DEF Live
  <2>3. MarkTypes'
    BY <2>1 DEF MarksInv, MarkTypes
  <2>4. ~unlisted => Alive'
    BY <2>1, <2>2 DEF MarksInv, Alive
  <2> QED  BY <2>1, <2>3, <2>4 DEF MarksInv
<1>2. CASE MarksNext
  <2>1. ~unlisted
    BY <1>2 DEF MarksNext, ToggleOn, ToggleOff, InsertLine, DeleteLines, CloseEditor, ReplaceAllIn,
                NextBookmark, PreviousBookmark, WithinEdits
  <2>2. MarkTypes /\ Alive
    BY <2>1 DEF MarksInv
  <2>3. ASSUME NEW e \in Editors, NEW l \in DOMAIN docs[e], ToggleOn(e, l) PROVE MarksInv'
    BY <2>2, <2>3, ToggleOnKeeps
  <2>4. ASSUME NEW e \in Editors, NEW l \in DOMAIN docs[e], ToggleOff(e, l) PROVE MarksInv'
    BY <2>2, <2>4, ToggleOffKeeps
  <2>5. ASSUME NEW e \in Editors, NEW l \in DOMAIN docs[e], InsertLine(e, l) PROVE MarksInv'
    BY <2>2, <2>5, InsertLineKeeps
  <2>6. ASSUME NEW e \in Editors, NEW l \in DOMAIN docs[e], NEW to \in DOMAIN docs[e], DeleteLines(e, l, to)
        PROVE  MarksInv'
    BY <2>2, <2>6, DeleteLinesKeeps
  <2>7. ASSUME NEW e \in Editors, CloseEditor(e) PROVE MarksInv'
    BY <2>2, <2>7, CloseKeeps
  <2>8. ASSUME NEW e \in Editors, NEW effect \in Effects(e), NEW firstKept \in {FALSE, docs[e][1] # 0},
               ReplaceAllIn(e, effect, firstKept)
        PROVE  MarksInv'
    BY <2>2, <2>8, ReplaceKeeps
  <2>9. ASSUME NextBookmark \/ PreviousBookmark PROVE MarksInv'
    BY <2>2, <2>9, NextKeeps
  <2> QED  BY <1>2, <2>3, <2>4, <2>5, <2>6, <2>7, <2>8, <2>9 DEF MarksNext
<1> QED  BY <1>1, <1>2

(* Documents, the list and its position are what their types say, with an   *)
(* object left without a block or not (CodeBlockProperties, Bookmarks).     *)
THEOREM MarksTyped == MarksSpec => []MarksTypeOK
<1>1. MarksInv => MarksTypeOK
  <2> SUFFICES ASSUME MarksInv PROVE MarksTypeOK
    OBVIOUS
  <2>1. \A e \in Editors : docs[e] \in Seq(Addresses \cup {0})
    BY DEF MarksInv, MarkTypes
  <2> QED  BY <2>1 DEF MarksInv, MarkTypes, MarksTypeOK
<1> QED  BY <1>1, MarksBegin, MarksKeep, PTL DEF MarksSpec

(* However many editors and lines there are and wherever new objects get    *)
(* their memory, the list of bookmarks holds the data of exactly the marked *)
(* blocks (CodeBlockProperties, Bookmarks, on_btnReplaceAll_clicked).       *)
THEOREM MarksStayAlive == MarksSpec => []BookmarksAlive
<1>1. MarksInv => BookmarksAlive
  <2> SUFFICES ASSUME MarksInv, ~unlisted PROVE BookmarksAlive
    BY DEF BookmarksAlive
  <2>1. MarkTypes /\ Alive
    BY DEF MarksInv
  <2>2. ASSUME NEW e \in Editors, NEW f \in Editors, NEW l \in DOMAIN docs[e], NEW m \in DOMAIN docs[f],
               docs[e][l] # 0, docs[e][l] = docs[f][m]
        PROVE  e = f /\ l = m
    <3>1. docs[e][l] \in Marked(docs[e]) /\ docs[e][l] \in Marked(docs[f])
      BY <2>2 DEF Marked, ToSet
    <3>2. e = f
      BY <2>1, <3>1 DEF Alive
    <3> QED  BY <2>1, <2>2, <3>2 DEF Alive, Single
  <2>3. ASSUME marks # <<>> PROVE LastBookmark \in 0..Len(marks) - 1
    <3>1. PICK n \in Nat : n = Len(marks) /\ n >= 1
      BY <2>1, <2>3 DEF MarkTypes
    <3>2. lastUsed \in Int /\ lastUsed <= 2 * n - 1 /\ \A h \in Int : lastUsed = 2 * h => h >= 0
      BY <2>1, <2>3, <3>1 DEF MarkTypes, InList
    <3>3. CASE lastUsed % 2 # 0
      BY <3>1, <3>3 DEF LastBookmark
    <3>4. CASE lastUsed % 2 = 0
      <4>1. PICK h \in Int : h = lastUsed \div 2 /\ lastUsed = 2 * h
        BY <3>2, <3>4
      <4>2. h >= 0 /\ h <= n - 1
        BY <3>1, <3>2, <4>1
      <4> QED  BY <3>1, <3>4, <4>1, <4>2 DEF LastBookmark
    <3> QED  BY <3>3, <3>4
  <2> QED  BY <2>1, <2>2, <2>3 DEF BookmarksAlive, Alive
<1> QED  BY <1>1, MarksBegin, MarksKeep, PTL DEF MarksSpec
=============================================================================
