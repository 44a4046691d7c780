---- MODULE TextEdit ----
(***************************************************************************)
(* The editing primitives of the code editor (codeeditor.cpp, wordnav.cpp) *)
(* as functions of a document.  A document is a text, a sequence of        *)
(* characters, with the live cursors registered with it; a position is the *)
(* number of characters before it.  A cursor is live: an edit made         *)
(* anywhere moves it along.  touched says whether an edit has changed the  *)
(* document at all, which is what Qt's undo stack goes by.                 *)
(***************************************************************************)
EXTENDS Integers, Sequences, SequencesExt, FiniteSetsExt

CONSTANTS
    Indent,     \* the setting indentSize
    TabsIndent  \* the setting tabsIndent

ASSUME EditAssumption == Indent \in Nat \ {0} /\ TabsIndent \in BOOLEAN

NL == "\n"
Tab == "\t"
Blank == {" ", Tab}
Word == {"a", "b", "A", "B"}

Cursor(a, p) == [anchor |-> a, pos |-> p]
Caret(p) == Cursor(p, p)
SelStart(c) == Min({c.anchor, c.pos})
SelEnd(c) == Max({c.anchor, c.pos})
HasSelection(c) == c.anchor # c.pos

\* The character after position p, "" at the end of the text.
CharAt(t, p) == IF p \in 0 .. Len(t) - 1 THEN t[p + 1] ELSE ""
Selected(t, c) == SubSeq(t, SelStart(c) + 1, SelEnd(c))
Spaces(n) == [i \in 1 .. n |-> " "]

----
(* Lines (QTextBlock): where a line starts and ends, its number from 0.    *)

LineStarts(t) == {0} \union {i \in 1 .. Len(t) : t[i] = NL}
LineStart(t, p) == Max({s \in LineStarts(t) : s <= p})
LineEnd(t, p) == Min({e \in p .. Len(t) : e = Len(t) \/ CharAt(t, e) = NL})

\* The end of the run of characters of S that begins at p.
RunEnd(t, p, S) == Min({e \in p .. Len(t) : CharAt(t, e) \notin S})
\* The start of the run of characters of S that ends at p.
RunStart(t, p, S) == Max({s \in 0 .. p : s = 0 \/ t[s] \notin S})

\* The screen column reached after the first n characters of a line: a tab advances to the next stop.
Column(t, from, to) ==
    LET column[k \in 0 .. to - from] ==
            IF k = 0 THEN 0
            ELSE LET before == column[k - 1] IN
                 IF t[from + k] = Tab THEN before + Indent - (before % Indent) ELSE before + 1
    IN column[to - from]

----
(* What Qt does to a document and its live cursors on an edit.             *)

Document(t, cs) == [text |-> t, cursors |-> cs, touched |-> FALSE]

\* An insertion carries along the cursors at its place and after it.
Insert(d, at, s) ==
    LET moved(p) == IF p >= at THEN p + Len(s) ELSE p IN
    [text |-> SubSeq(d.text, 1, at) \o s \o SubSeq(d.text, at + 1, Len(d.text)),
     cursors |-> [i \in DOMAIN d.cursors |-> Cursor(moved(d.cursors[i].anchor), moved(d.cursors[i].pos))],
     touched |-> d.touched \/ s # <<>>]

\* A removal pulls the cursors within what is removed to its start.
Delete(d, from, to) ==
    LET moved(p) == IF p <= from THEN p ELSE IF p <= to THEN from ELSE p - (to - from) IN
    [text |-> SubSeq(d.text, 1, from) \o SubSeq(d.text, to + 1, Len(d.text)),
     cursors |-> [i \in DOMAIN d.cursors |-> Cursor(moved(d.cursors[i].anchor), moved(d.cursors[i].pos))],
     touched |-> d.touched \/ from < to]

Place(d, i, a, p) == [d EXCEPT !.cursors[i] = Cursor(a, p)]
RemoveSelected(d, i) == Delete(d, SelStart(d.cursors[i]), SelEnd(d.cursors[i]))

\* insertText(): replaces the selection; the cursor ends after what was inserted.
InsertText(d, i, s) ==
    LET e == RemoveSelected(d, i) IN Insert(e, e.cursors[i].pos, s)

DeleteChar(d, i) ==
    LET p == d.cursors[i].pos IN IF p < Len(d.text) THEN Delete(d, p, p + 1) ELSE d
DeletePreviousChar(d, i) ==
    LET p == d.cursors[i].pos IN IF p > 0 THEN Delete(d, p - 1, p) ELSE d

----
(* The editor's own primitives.  Each edits through cursor i of d.         *)

\* Backspace within blanks goes back to the last tab stop, if there are blanks enough.
SmartBackspaceApplies(d, i) ==
    LET p == d.cursors[i].pos
        col == Column(d.text, LineStart(d.text, p), p)
    IN /\ ~HasSelection(d.cursors[i])
       /\ col > 0
       /\ p - Max({LineStart(d.text, p), RunStart(d.text, p, {" "})}) >= ((col - 1) % Indent) + 1

applySmartBackspace(d, i) ==
    LET p == d.cursors[i].pos
        col == Column(d.text, LineStart(d.text, p), p)
    IN Delete(d, p - (((col - 1) % Indent) + 1), p)

\* The lines with something but blanks in them.
Inked(t) == {s \in LineStarts(t) : RunEnd(t, s, Blank) < LineEnd(t, s)}

\* Return: the new line gets the indentation of the nearest line above that has text; the
\* blanks on both sides of the split go.
applyReturnWithIndent(d, i) ==
    LET e == RemoveSelected(d, i)
        p == e.cursors[i].pos
        t == e.text
        near == {s \in Inked(t) : s < p}
        within == near # {} /\ RunEnd(t, Max(near), Blank) >= p   \* the caret is in that line's own indentation
        above == IF within THEN near \ {Max(near)} ELSE near
        indent == IF above = {} THEN <<>>
                  ELSE SubSeq(t, Max(above) + 1, RunEnd(t, Max(above), Blank))
        after == RunEnd(t, p, Blank)
        trimmed == IF above # {} /\ after < LineEnd(t, p) THEN Delete(e, p, after) ELSE e
        left == LineStart(t, p)
        selected == IF RunEnd(t, left, Blank) >= p
                    THEN Place(trimmed, i, p, left) ELSE trimmed
    IN InsertText(selected, i, <<NL>> \o indent)

\* Home: to the first character of the line that is not blank, from there to the line's start.
applyHome(d, i, keep) ==
    LET p == d.cursors[i].pos
        start == LineStart(d.text, p)
        ink == RunEnd(d.text, start, Blank)
        text == IF ink = LineEnd(d.text, p) THEN start ELSE ink
        to == IF p <= text /\ p > start THEN start ELSE text
    IN Place(d, i, IF keep THEN d.cursors[i].anchor ELSE to, to)

\* One line of applyMultiLineIndent(): e.doc is the document, e.start and e.end the selection to restore;
\* the blanks from a place of the line to its first character are replaced.
Reindented(e, from, ink, lead) ==
    LET moved(p) == IF p <= from THEN p ELSE Len(lead) + (IF p >= ink THEN p - (ink - from) ELSE from)
    IN [doc |-> Insert(Delete(e.doc, from, ink), from, lead), start |-> moved(e.start), end |-> moved(e.end)]

IndentedFrom(t, start, ink) ==
    LET width == Column(t, start, ink)
    IN Max({f \in start .. ink : width - Column(t, start, f) >= ((width - 1) % Indent) + 1})

OutdentBlanks(e, start, ink) ==
    IF start = ink THEN e ELSE Reindented(e, IndentedFrom(e.doc.text, start, ink), ink, <<>>)

IndentBlanks(e, start, ink) ==
    LET stops == Column(e.doc.text, start, ink) \div Indent + 1
    IN Reindented(e, start, ink, IF TabsIndent THEN [k \in 1 .. stops |-> Tab] ELSE Spaces(stops * Indent))

ReindentLine(e, start, forward) ==
    LET ink == RunEnd(e.doc.text, start, Blank)
    IN IF forward THEN IndentBlanks(e, start, ink) ELSE OutdentBlanks(e, start, ink)

\* The lines a selection touches, by where they start; one that ends at the start of a line leaves that line alone.
LinesTouched(t, c) ==
    {s \in LineStarts(t) : /\ LineStart(t, SelStart(c)) <= s /\ s <= SelEnd(c)
                           /\ ~(HasSelection(c) /\ s = SelEnd(c))}

\* Tab or Backtab over them, from the first to the last; a line moves along with what is done before it.
applyMultiLineIndent(d, i, forward) ==
    LET c == d.cursors[i]
        t == d.text
        indented[k \in 0 .. Len(t) + 1] ==
            IF k = 0 THEN [doc |-> d, start |-> SelStart(c), end |-> SelEnd(c)]
            ELSE LET x == indented[k - 1] IN
                 IF k - 1 \in LinesTouched(t, c) THEN ReindentLine(x, k - 1 + Len(x.doc.text) - Len(t), forward) ELSE x
        e == indented[Len(t) + 1]
    IN IF SelStart(c) = c.pos THEN Place(e.doc, i, e.end, e.start) ELSE Place(e.doc, i, e.start, e.end)

\* Tab without a selection of several lines: to the next tab stop.
applySingleLineTab(d, i) ==
    LET e == RemoveSelected(d, i)
        p == e.cursors[i].pos
        col == Column(e.text, LineStart(e.text, p), p)
    IN InsertText(e, i, IF TabsIndent THEN <<Tab>> ELSE Spaces(Indent - (col % Indent)))

\* handleKeyPress(), Tab and Backtab.
applyTab(d, i, forward) ==
    LET c == d.cursors[i] IN
    IF ~forward THEN applyMultiLineIndent(d, i, FALSE)
    ELSE IF LineStart(d.text, c.anchor) # LineStart(d.text, c.pos) THEN applyMultiLineIndent(Place(d, i, SelStart(c), SelEnd(c)), i, TRUE)
    ELSE applySingleLineTab(d, i)

UpperOf(ch) == CASE ch = "a" -> "A" [] ch = "b" -> "B" [] OTHER -> ch
LowerOf(ch) == CASE ch = "A" -> "a" [] ch = "B" -> "b" [] OTHER -> ch

\* changeSelectedTextCase(): the selection is replaced and selected again.
foldCase(d, i, upper) ==
    LET c == d.cursors[i]
        old == Selected(d.text, c)
        new == [k \in DOMAIN old |-> IF upper THEN UpperOf(old[k]) ELSE LowerOf(old[k])]
    IN IF ~HasSelection(c) THEN d
       ELSE Place(InsertText(d, i, new), i, SelStart(c), SelEnd(c))

\* lineRangeForCut(): the whole lines a cursor touches with the separator after them, on the
\* last line the one before.
lineRangeForCut(t, c) ==
    LET first == LineStart(t, SelStart(c))
        end == IF HasSelection(c) /\ SelEnd(c) = LineStart(t, SelEnd(c)) /\ SelEnd(c) > first
               THEN SelEnd(c) - 1 ELSE LineEnd(t, SelEnd(c))
    IN IF end < Len(t) THEN Cursor(first, end + 1)
       ELSE Cursor(IF first > 0 THEN first - 1 ELSE 0, Len(t))

\* addCursorOnAdjacentLine(): the caret at the same screen column of the line at target.
caretAtColumn(t, target, col) ==
    LET end == LineEnd(t, target) IN
    Caret(Min({p \in target .. end : p = end \/ Column(t, target, p) >= col}))

----
(* wordnav.cpp: where Ctrl+Right and Ctrl+Left stop.                       *)

ClassOf(ch) == CASE ch = NL -> {NL} [] ch \in Blank -> Blank [] ch \in Word -> Word
                 [] OTHER -> {"."}

\* A lone character of the class Other that touches a word is crossed with it.
nextBoundary(t, p) ==
    LET end == Len(t)
        line == IF CharAt(t, p) = NL THEN p + 1 ELSE p
        ink == RunEnd(t, line, Blank)
        run == RunEnd(t, ink, ClassOf(CharAt(t, ink)))
        glued == /\ ClassOf(CharAt(t, ink)) = {"."} /\ run = ink + 1
                 /\ run < end /\ CharAt(t, run) \in Word
    IN IF p >= end \/ line >= end THEN end
       ELSE IF ink >= end \/ CharAt(t, ink) = NL THEN ink
       ELSE IF glued THEN RunEnd(t, run, Word) ELSE run

previousBoundary(t, p) ==
    LET line == IF p > 0 /\ t[p] = NL THEN p - 1 ELSE p
        ink == RunStart(t, line, Blank)
        class == ClassOf(t[ink])
        run == RunStart(t, ink, class)
        glued == class = {"."} /\ run = ink - 1 /\ run > 0 /\ t[run] \in Word
    IN IF p = 0 \/ line = 0 \/ ink = 0 THEN 0
       ELSE IF t[ink] = NL THEN ink
       ELSE IF glued THEN RunStart(t, run, Word) ELSE run
====
