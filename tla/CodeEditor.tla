---- MODULE CodeEditor ----
(***************************************************************************)
(* The code editor with several cursors (codeeditor.cpp, multicursor.h).   *)
(* The document has one undo stack, which is Qt's and knows nothing of     *)
(* several cursors; the editor keeps a history of cursor sets beside it,   *)
(* one entry for an edit made through several cursors, and pops it in step *)
(* with the document's.  A step is one event: a key, a mouse event, or an  *)
(* edit that reaches the document without passing the editor's handlers.   *)
(***************************************************************************)
EXTENDS TextEdit, TLC

CONSTANTS
    Texts,      \* the texts an editor may start with
    Typed,      \* the characters typed
    Pasted,     \* the texts another program puts on the clipboard
    MaxEdits,   \* a bound on the edits of a behaviour
    MaxMoves,   \* a bound on the moves of the cursors
    MaxCursors  \* a bound on the cursors at one time

ASSUME EditorAssumption ==
    /\ Texts \subseteq Seq(STRING) /\ Typed \subseteq STRING /\ Pasted \subseteq Seq(STRING)
    /\ MaxEdits \in Nat /\ MaxMoves \in Nat /\ MaxCursors \in Nat \ {0}

VARIABLES
    text,       \* the document
    undoStack,  \* the texts undo() goes back to, the next one last (Qt)
    redoStack,  \* the texts redo() goes to, the next one last (Qt)
    native,     \* QPlainTextEdit's own cursor
    cursors,    \* _multiCursor: the set of cursors, which is a sequence,
    mainIndex,  \* and the one of them that is the main one
    _multiUndoHistory,
    _multiRedoHistory,
    _overwriteMode,
    _altGesture,
    clipboard,
    strayed,    \* an edit has gone past the handlers, one through several cursors has changed nothing, or an
                \* ordinary undo has left several cursors standing: what the histories do not follow
    edits, moves

document == <<text, undoStack, redoStack>>
histories == <<_multiUndoHistory, _multiRedoHistory>>
editorVars == <<text, undoStack, redoStack, native, cursors, mainIndex, _multiUndoHistory,
                _multiRedoHistory, _overwriteMode, _altGesture, clipboard, strayed, edits, moves>>

----
(* The set of cursors (multicursor.h).                                     *)

IsMultiple(cs) == Len(cs) > 1

\* addCursor(): a caret that is there already is not added again.  The set and its main index.
AddCursor(set, c) ==
    LET same == {i \in DOMAIN set.cursors : set.cursors[i].pos = c.pos}
    IN IF ~HasSelection(c) /\ \E i \in same : ~HasSelection(set.cursors[i])
       THEN [set EXCEPT !.main = Min(same)]   \* indexOf() compares positions
       ELSE [cursors |-> Append(set.cursors, c), main |-> Len(set.cursors) + 1]

\* The indices of the cursors, by where their selections start.
Ascending(cs) ==
    LET order[k \in 0 .. Len(cs)] ==
            IF k = 0 THEN <<>>
            ELSE LET o == order[k - 1]
                     after == {q \in 1 .. k - 1 : SelStart(cs[o[q]]) > SelStart(cs[k])}
                 IN InsertAt(o, Min({k} \cup after), k)
    IN order[Len(cs)]
Descending(cs) ==
    LET order[k \in 0 .. Len(cs)] ==
            IF k = 0 THEN <<>>
            ELSE LET o == order[k - 1]
                     after == {q \in 1 .. k - 1 : SelStart(cs[o[q]]) < SelStart(cs[k])}
                 IN InsertAt(o, Min({k} \cup after), k)
    IN order[Len(cs)]

\* Mutant: cursors that meet at an edge are kept.
Crossing(c, l) == SelStart(c) < SelEnd(l)

\* Whether a cursor reaches the one before it.
Touching(c, l) == SelStart(c) <= SelEnd(l)

\* One more cursor, behind the others or become one with the last of them.
Joining(m, c) ==
    IF m # <<>> /\ Touching(c, Last(m))
    THEN Append(Front(m), Cursor(Min({SelStart(Last(m)), SelStart(c)}), Max({SelEnd(Last(m)), SelEnd(c)})))
    ELSE Append(m, c)

\* mergeOverlapping(): cursors that touch become one, and main stays where it was.
MergeOverlapping(set) ==
    LET cs == set.cursors
        place == cs[set.main].pos
        order == Ascending(cs)
        joined[k \in 0 .. Len(cs)] == IF k = 0 THEN <<>> ELSE Joining(joined[k - 1], cs[order[k]])
        merged == joined[Len(cs)]
        covering == {i \in DOMAIN merged : SelStart(merged[i]) <= place /\ place <= SelEnd(merged[i])}
    IN IF Len(cs) < 2 THEN set
       ELSE [cursors |-> merged, main |-> IF covering = {} THEN 1 ELSE Min(covering)]

\* refreshSingleCursorState(): a set of one follows the native cursor.
Refreshed == IF IsMultiple(cursors) THEN [cursors |-> cursors, main |-> mainIndex]
             ELSE [cursors |-> <<native>>, main |-> 1]

\* syncToNativeCursor(): the native cursor becomes the set's main one.
SyncToNative(set) ==
    /\ cursors' = set.cursors
    /\ mainIndex' = set.main
    /\ native' = set.cursors[set.main]

\* syncFromNativeCursor(): the set becomes the native cursor alone.
SyncFromNative(c) == SyncToNative([cursors |-> <<c>>, main |-> 1])

----
(* What an edit leaves in the document's undo stack.                       *)

Edited(d) ==
    /\ text' = d.text
    /\ undoStack' = IF d.touched THEN Append(undoStack, text) ELSE undoStack
    /\ redoStack' = IF d.touched THEN <<>> ELSE redoStack

\* Mutant: an ordinary edit leaves the histories as they are.
KeepHistories == UNCHANGED histories

ClearHistories == _multiUndoHistory' = <<>> /\ _multiRedoHistory' = <<>>

\* recordMultiEditUndo(): before and after are the texts, for the properties only.
Record(pre, post, d) ==
    /\ _multiUndoHistory' = Append(_multiUndoHistory,
            [pre |-> pre, post |-> post, before |-> text, after |-> d.text])
    /\ _multiRedoHistory' = <<>>

\* Bounds: the cursors are moved before the last edit only, and while none has strayed.
Movable == moves < MaxMoves /\ edits < MaxEdits /\ ~strayed

\* What every event that edits has in common.  Bounds: no edit with the mouse button held, and one that
\* strays is the last: what the histories still hold is undone and redone after it.
Edit ==
    /\ edits < MaxEdits /\ ~strayed /\ ~_altGesture
    /\ edits' = edits + 1
    /\ UNCHANGED <<moves, _altGesture>>

\* performMultiEdit(): through every cursor, the highest first, as one step of undo.
ThroughAll(F(_, _)) ==
    LET order == Descending(cursors)
        through[k \in 0 .. Len(cursors)] ==
            IF k = 0 THEN Document(text, cursors) ELSE F(through[k - 1], order[k])
    IN through[Len(cursors)]
PerformMultiEdit(d) ==
    LET set == MergeOverlapping([cursors |-> d.cursors, main |-> mainIndex])
    IN /\ strayed' = (strayed \/ ~d.touched)
       /\ Edited(d)
       /\ SyncToNative(set)
       /\ Record(cursors, set.cursors, d)
       /\ UNCHANGED <<_overwriteMode>>

\* applySingleCursorEdit(): an edit of the editor's own through one cursor.
ThroughOne(F(_, _)) == F(Document(text, <<native>>), 1)
SingleCursorEdit(d) ==
    /\ Edited(d)
    /\ SyncFromNative(d.cursors[1])
    /\ ClearHistories
    /\ UNCHANGED <<_overwriteMode, strayed>>

\* keyPressEvent(): an edit Qt makes through the native cursor, and what is done after it.
ThroughNative(F(_, _)) ==
    F(Document(text, Append(Refreshed.cursors, native)), Len(Refreshed.cursors) + 1)
NativeEdit(d) ==
    LET k == Len(d.cursors)
    IN /\ Edited(d)
       /\ IF d.touched THEN ClearHistories ELSE UNCHANGED histories
       /\ native' = d.cursors[k]
       /\ IF d.cursors[k] # native
          THEN cursors' = <<d.cursors[k]>> /\ mainIndex' = 1
          ELSE cursors' = Front(d.cursors) /\ mainIndex' = Refreshed.main
       /\ UNCHANGED <<_overwriteMode, strayed>>

Multiple == IsMultiple(cursors)

----
(* Keys that edit (handleKeyPress).                                        *)

Overtype(d, i, s) ==
    LET p == d.cursors[i].pos
        e == IF HasSelection(d.cursors[i]) THEN RemoveSelected(d, i)
             ELSE IF _overwriteMode /\ p < LineEnd(d.text, p) THEN DeleteChar(d, i) ELSE d
    IN InsertText(e, i, s)

\* Plain typed text; a single cursor is typed into by Qt.
TypeText(ch) ==
    /\ Edit
    /\ IF Multiple THEN PerformMultiEdit(ThroughAll(LAMBDA d, i : Overtype(d, i, <<ch>>)))
       ELSE NativeEdit(ThroughNative(LAMBDA d, i : Overtype(d, i, <<ch>>)))
    /\ UNCHANGED clipboard

BackspaceAt(d, i) ==
    IF HasSelection(d.cursors[i]) THEN RemoveSelected(d, i)
    ELSE IF SmartBackspaceApplies(d, i) THEN applySmartBackspace(d, i)
    ELSE DeletePreviousChar(d, i)

Backspace ==
    /\ Edit
    /\ IF Multiple THEN PerformMultiEdit(ThroughAll(BackspaceAt))
       ELSE IF SmartBackspaceApplies(Document(text, <<native>>), 1) THEN SingleCursorEdit(ThroughOne(BackspaceAt))
       ELSE NativeEdit(ThroughNative(BackspaceAt))
    /\ UNCHANGED clipboard

DeleteAt(d, i) == IF HasSelection(d.cursors[i]) THEN RemoveSelected(d, i) ELSE DeleteChar(d, i)

DeleteKey ==
    /\ Edit
    /\ IF Multiple THEN PerformMultiEdit(ThroughAll(DeleteAt)) ELSE NativeEdit(ThroughNative(DeleteAt))
    /\ UNCHANGED clipboard

ReturnKey ==
    /\ Edit
    /\ IF Multiple THEN PerformMultiEdit(ThroughAll(applyReturnWithIndent)) ELSE SingleCursorEdit(ThroughOne(applyReturnWithIndent))
    /\ UNCHANGED clipboard

TabKey(forward) ==
    LET tab(d, i) == applyTab(d, i, forward) IN
    /\ Edit
    /\ IF Multiple THEN PerformMultiEdit(ThroughAll(tab)) ELSE SingleCursorEdit(ThroughOne(tab))
    /\ UNCHANGED clipboard

\* changeSelectedTextCase(), by a key or the context menu.
ChangeCase(upper) ==
    LET fold(d, i) == foldCase(d, i, upper) IN
    /\ \E i \in DOMAIN Refreshed.cursors : HasSelection(Refreshed.cursors[i])
    /\ Edit
    /\ IF Multiple THEN PerformMultiEdit(ThroughAll(fold)) ELSE SingleCursorEdit(ThroughOne(fold))
    /\ UNCHANGED clipboard

----
(* Cut, copy and paste.                                                    *)

AnySelection(cs) == \E i \in DOMAIN cs : HasSelection(cs[i])

\* multiCursorSelectedText(): in document order, a line for each.
SelectedText(cs) ==
    LET order == Ascending(cs)
        parts[k \in 0 .. Len(cs)] ==
            IF k = 0 THEN <<>>
            ELSE LET s == parts[k - 1] c == cs[order[k]] IN
                 IF HasSelection(c) THEN (IF s = <<>> THEN s ELSE Append(s, NL)) \o Selected(text, c) ELSE s
    IN parts[Len(cs)]

Copy ==
    /\ AnySelection(Refreshed.cursors)
    /\ Movable
    /\ moves' = moves + 1
    /\ clipboard' = SelectedText(Refreshed.cursors)
    /\ clipboard' # clipboard
    /\ UNCHANGED <<document, native, cursors, mainIndex, histories, _overwriteMode, _altGesture, strayed, edits>>

CutSelections ==
    /\ AnySelection(Refreshed.cursors)
    /\ Edit
    /\ clipboard' = SelectedText(Refreshed.cursors)
    /\ LET cut(d, i) == IF HasSelection(d.cursors[i]) THEN RemoveSelected(d, i) ELSE d
       IN IF Multiple THEN PerformMultiEdit(ThroughAll(cut)) ELSE NativeEdit(ThroughNative(cut))

\* cutCurrentLines(): with nothing selected the lines the cursors are on, from the bottom up.
CutLines ==
    LET set == Refreshed
        n == Len(set.cursors)
        order == Ascending(set.cursors)
        ranges == [k \in 1 .. n |-> lineRangeForCut(text, set.cursors[order[k]])]
        fresh == {k \in DOMAIN ranges :
                    /\ HasSelection(ranges[k])
                    /\ k = 1 \/ SelStart(ranges[k]) # SelStart(ranges[k - 1])}
        parts[k \in 0 .. n] ==
            IF k = 0 THEN <<>> ELSE parts[k - 1] \o IF k \in fresh THEN Selected(text, ranges[k]) ELSE <<>>
        cut == parts[n]
        \* from the bottom up; the ranges are live cursors too: one that overlaps a removed one shrinks
        removed[k \in 0 .. n] ==
            IF k = 0 THEN Document(text, set.cursors \o ranges)
            ELSE LET e == removed[k - 1] IN IF n - k + 1 \in fresh THEN RemoveSelected(e, n + n - k + 1) ELSE e
        d == removed[n]
        carets == [i \in 1 .. n |-> Caret(d.cursors[i].pos)]
        merged == MergeOverlapping([cursors |-> carets, main |-> set.main])
    IN /\ ~AnySelection(set.cursors)
       /\ cut # <<>>
       /\ Edit
       /\ clipboard' = IF Last(cut) = NL THEN cut ELSE Append(cut, NL)
       /\ Edited(d)
       /\ SyncToNative(merged)
       /\ IF IsMultiple(set.cursors) THEN Record(set.cursors, merged.cursors, d) ELSE ClearHistories
       /\ UNCHANGED <<_overwriteMode, strayed>>

\* The lines of a text, without their separators.
LinesOf(s) ==
    LET lines[k \in 0 .. Len(s)] ==
            IF k = 0 THEN << <<>> >>
            ELSE LET l == lines[k - 1] IN
                 IF s[k] = NL THEN Append(l, <<>>) ELSE Append(Front(l), Append(Last(l), s[k]))
    IN lines[Len(s)]

\* insertFromMimeData(): a line for each cursor if there are as many, else the whole text at each.  With
\* several cursors it is the whole step for a key and for the context menu alike.
PasteAt(d, i) ==
    LET all == LinesOf(clipboard)
        lines == IF Len(all) = Len(cursors) + 1 /\ Last(all) = <<>> THEN Front(all) ELSE all
        rank == CHOOSE k \in DOMAIN cursors : Ascending(cursors)[k] = i
    IN InsertText(d, i, IF Len(lines) = Len(cursors) THEN lines[rank] ELSE clipboard)

Paste ==
    /\ clipboard # <<>>
    /\ Edit
    /\ IF Multiple THEN PerformMultiEdit(ThroughAll(PasteAt))
       ELSE NativeEdit(ThroughNative(LAMBDA d, i : InsertText(d, i, clipboard)))
    /\ UNCHANGED clipboard

----
(* Undo and redo.                                                          *)

\* Mutant: only the places of the carets are kept.
RestoredCarets(snapshot, t) ==
    FoldLeft(LAMBDA set, c : AddCursor(set, Caret(Min({c.pos, Len(t)}))),
             [cursors |-> <<Caret(Min({snapshot[1].pos, Len(t)}))>>, main |-> 1], Tail(snapshot))

\* restoreCursorSnapshot(): a position past the end is refused, and leaves the cursor where it was.
Restored(snapshot, t) ==
    LET within(p, else) == IF p <= Len(t) THEN p ELSE else
        cursor(c) == LET a == within(c.anchor, 0) IN Cursor(a, within(c.pos, a))
        set[k \in 0 .. Len(snapshot) - 1] ==
            IF k = 0 THEN [cursors |-> <<cursor(snapshot[1])>>, main |-> 1]
            ELSE AddCursor(set[k - 1], cursor(snapshot[k + 1]))
    IN set[Len(snapshot) - 1]

DocumentUndo ==
    IF undoStack = <<>> THEN UNCHANGED document
    ELSE /\ text' = Last(undoStack)
         /\ undoStack' = Front(undoStack)
         /\ redoStack' = Append(redoStack, text)

DocumentRedo ==
    IF redoStack = <<>> THEN UNCHANGED document
    ELSE /\ text' = Last(redoStack)
         /\ redoStack' = Front(redoStack)
         /\ undoStack' = Append(undoStack, text)

\* Ctrl+Z while the history has an entry.
UndoMultiEdit ==
    /\ _multiUndoHistory # <<>>
    /\ DocumentUndo
    /\ SyncToNative(Restored(Last(_multiUndoHistory).pre, text'))
    /\ _multiUndoHistory' = Front(_multiUndoHistory)
    /\ _multiRedoHistory' = Append(_multiRedoHistory, Last(_multiUndoHistory))
    /\ UNCHANGED <<_overwriteMode, _altGesture, clipboard, strayed, edits, moves>>

RedoMultiEdit ==
    /\ _multiRedoHistory # <<>>
    /\ DocumentRedo
    /\ SyncToNative(Restored(Last(_multiRedoHistory).post, text'))
    /\ _multiRedoHistory' = Front(_multiRedoHistory)
    /\ _multiUndoHistory' = Append(_multiUndoHistory, Last(_multiRedoHistory))
    /\ UNCHANGED <<_overwriteMode, _altGesture, clipboard, strayed, edits, moves>>

\* A step of the document's undo as an edit: what differs is replaced, and the cursors go along.
Step(d, new) ==
    LET old == d.text
        shorter == Min({Len(old), Len(new)})
        first == Min({shorter} \cup {k \in 0 .. shorter - 1 : old[k + 1] # new[k + 1]})
        rest == Min({shorter - first} \cup {k \in 0 .. shorter - 1 : old[Len(old) - k] # new[Len(new) - k]})
    IN [doc |-> Insert(Delete(d, first, Len(old) - rest), first, SubSeq(new, first + 1, Len(new) - rest)),
        places |-> {first, Len(new) - rest}]

\* Ctrl+Z and Ctrl+Y left to Qt: the caret goes to the place of the change, here before or after it; the
\* set follows it if it has moved.
NativeStep ==
    LET s == Step(Document(text, cursors), text') IN
    /\ \E p \in s.places :
        IF Caret(p) # native THEN SyncFromNative(Caret(p)) /\ UNCHANGED strayed
        ELSE /\ cursors' = s.doc.cursors
             /\ strayed' = (strayed \/ Multiple)   \* the carets may have met
             /\ UNCHANGED <<native, mainIndex>>
    /\ ClearHistories

NativeUndo ==
    /\ _multiUndoHistory = <<>> /\ undoStack # <<>> /\ ~strayed
    /\ DocumentUndo
    /\ NativeStep
    /\ UNCHANGED <<_overwriteMode, _altGesture, clipboard, edits, moves>>

NativeRedo ==
    /\ _multiRedoHistory = <<>> /\ redoStack # <<>> /\ ~strayed
    /\ DocumentRedo
    /\ NativeStep
    /\ UNCHANGED <<_overwriteMode, _altGesture, clipboard, edits, moves>>

----
(* Moving the cursors and making more of them.                             *)

Move ==
    /\ Movable
    /\ moves' = moves + 1
    /\ UNCHANGED <<document, histories, clipboard, strayed, edits>>

\* forEachCursor(): every cursor moved, then those that meet become one.
Places(To(_)) == [i \in DOMAIN cursors |-> To(cursors[i])]
ForEachCursor(places, keep) ==
    LET moved(i) == Cursor(IF keep THEN cursors[i].anchor ELSE places[i], places[i])
    IN SyncToNative(MergeOverlapping(
            [cursors |-> [i \in DOMAIN cursors |-> moved(i)], main |-> mainIndex]))

Directions == {"Left", "Right", "End", "Up", "Down"}

\* movePosition(): where a key takes a cursor.
PositionAfter(c, direction, keep) ==
    LET start == LineStart(text, c.pos)
        col == Column(text, start, c.pos)
        next == LineEnd(text, c.pos) + 1
    IN CASE direction = "Left" -> IF ~keep /\ HasSelection(c) THEN SelStart(c) ELSE Max({0, c.pos - 1})
         [] direction = "Right" -> IF ~keep /\ HasSelection(c) THEN SelEnd(c) ELSE Min({Len(text), c.pos + 1})
         [] direction = "End" -> LineEnd(text, c.pos)
         [] direction = "Up" -> IF start = 0 THEN c.pos
                                ELSE caretAtColumn(text, LineStart(text, start - 1), col).pos
         [] direction = "Down" -> IF next > Len(text) THEN c.pos ELSE caretAtColumn(text, next, col).pos

\* moveAllCursors(): only with several, a single one is moved by Qt.
MoveCursors(direction, keep) ==
    /\ Multiple
    /\ Move
    /\ ForEachCursor(Places(LAMBDA c : PositionAfter(c, direction, keep)), keep)
    /\ UNCHANGED <<_overwriteMode, _altGesture>>

\* Ctrl+Left and Ctrl+Right: with a single cursor only the native one is moved.
MoveByWord(forward, keep) ==
    LET to(c) == IF forward THEN nextBoundary(text, c.pos) ELSE previousBoundary(text, c.pos) IN
    /\ Move
    /\ IF Multiple THEN ForEachCursor(Places(to), keep)
       ELSE /\ cursors' = Refreshed.cursors
            /\ mainIndex' = 1
            /\ native' = Cursor(IF keep THEN native.anchor ELSE to(native), to(native))
    /\ UNCHANGED <<_overwriteMode, _altGesture>>

HomeKey(keep) ==
    LET to(c) == applyHome(Document(text, <<c>>), 1, keep).cursors[1].pos IN
    /\ Move
    /\ IF Multiple THEN ForEachCursor(Places(to), keep)
       ELSE SyncFromNative(Cursor(IF keep THEN native.anchor ELSE to(native), to(native)))
    /\ UNCHANGED <<_overwriteMode, _altGesture>>

\* find() from a place on, then from the start: the first occurrence of the needle, {} if there is none.
Occurrences(needle) ==
    {p \in 0 .. Len(text) - Len(needle) : SubSeq(text, p + 1, p + Len(needle)) = needle}
NextOccurrence(needle, from) ==
    LET all == Occurrences(needle)
        further == {p \in all : p >= from}
    IN IF further # {} THEN {Min(further)} ELSE IF all # {} THEN {Min(all)} ELSE {}

WordAt(p) == Cursor(RunStart(text, p, Word), RunEnd(text, p, Word))

\* Ctrl+D: the word under the caret, then the next occurrence of what is selected, round the end of the text.
SelectNextOccurrence ==
    LET set == Refreshed
        main == set.cursors[set.main]
        from == IF HasSelection(main) THEN main ELSE WordAt(main.pos)
        needle == Selected(text, from)
    IN /\ needle # <<>> /\ ~Contains(needle, NL)   \* find() looks within lines
       /\ Move
       /\ IF ~HasSelection(main) /\ ~IsMultiple(set.cursors) THEN SyncFromNative(from)
          ELSE /\ Len(set.cursors) < MaxCursors
               /\ \E p \in NextOccurrence(needle, SelEnd(from)) :
                    SyncToNative(AddCursor(set, Cursor(p, p + Len(needle))))
       /\ UNCHANGED <<_overwriteMode, _altGesture>>

\* Alt+Shift+Up and Down: a caret on the next line, at the same column.
AddCursorOnAdjacentLine(below) ==
    LET set == Refreshed
        p == set.cursors[set.main].pos
        start == LineStart(text, p)
        col == Column(text, start, p)
    IN /\ IF below THEN LineEnd(text, p) < Len(text) ELSE start > 0
       /\ Len(set.cursors) < MaxCursors
       /\ Move
       /\ SyncToNative(AddCursor(set, caretAtColumn(text, IF below THEN LineEnd(text, p) + 1
                                                          ELSE LineStart(text, start - 1), col)))
       /\ UNCHANGED <<_overwriteMode, _altGesture>>

\* collapseToSingleCursor()
Escape ==
    /\ Multiple
    /\ Move
    /\ SyncFromNative(Caret(cursors[mainIndex].pos))
    /\ UNCHANGED <<_overwriteMode, _altGesture>>

InsertKey ==
    /\ Move
    /\ _overwriteMode' = ~_overwriteMode
    /\ cursors' = Refreshed.cursors /\ mainIndex' = Refreshed.main
    /\ UNCHANGED <<native, _altGesture>>

\* A click, a drag of the mouse, or a key that Qt moves a single cursor by: the set follows.
Click(a, p) ==
    /\ Move
    /\ SyncFromNative(Cursor(a, p))
    /\ _altGesture' = FALSE
    /\ UNCHANGED <<_overwriteMode>>

\* Alt+Click adds a caret to the set as it is; nothing brings the set up to date first.
AltClick(p) ==
    /\ Len(cursors) < MaxCursors
    /\ Move
    /\ SyncToNative(AddCursor([cursors |-> cursors, main |-> mainIndex], Caret(p)))
    /\ _altGesture' = TRUE
    /\ UNCHANGED <<_overwriteMode>>

\* With the button held: the added cursor selects.
AltDrag(p) ==
    /\ _altGesture
    /\ Move
    /\ SyncToNative([cursors |-> [cursors EXCEPT ![mainIndex].pos = p], main |-> mainIndex])
    /\ UNCHANGED <<_overwriteMode, _altGesture>>

Release ==
    /\ _altGesture
    /\ _altGesture' = FALSE
    /\ UNCHANGED <<document, histories, native, cursors, mainIndex, _overwriteMode, clipboard, strayed, edits, moves>>

\* The find panel selects what it has found: only the native cursor is set.
SetTextCursor(p) ==
    /\ Move
    /\ native' = Cursor(p, p + 1)
    /\ UNCHANGED <<cursors, mainIndex, _overwriteMode, _altGesture>>

----
(* Edits that do not pass the handlers: the context menu, a completion, the panel's Replace and Replace *)
(* All (the new list of Split list is of the same kind).  The cursors of the set are live and go along. *)
(* The menu's Paste passes them with one cursor only: see Paste.                                        *)

ThroughLast(F(_, _)) == F(Document(text, Append(cursors, native)), Len(cursors) + 1)
ForeignEdit(d) ==
    LET k == Len(d.cursors)
    IN /\ Edit
       /\ d.touched
       /\ Edited(d)
       /\ native' = d.cursors[k]
       /\ cursors' = Front(d.cursors)
       /\ strayed' = TRUE
       /\ UNCHANGED <<mainIndex, histories, _overwriteMode, clipboard>>

ReplaceSelection(d, i) == IF HasSelection(d.cursors[i]) THEN InsertText(d, i, <<"b">>) ELSE d

\* insertCompletion(): the rest of the word goes, the rest of the completion comes.
Complete(d, i) ==
    LET p == d.cursors[i].pos IN Insert(Delete(d, p, RunEnd(d.text, p, Word)), p, <<"b">>)

\* on_btnReplaceAll_clicked() without a selection: the whole text at once.
ReplaceAllText(d, i) ==
    LET new == ReplaceAll(d.text, "a", "b") IN
    IF new = d.text THEN d ELSE Insert(Delete(d, 0, Len(d.text)), 0, new)

\* Undo or redo of the context menu: the document steps, the history stays.
ForeignStep(back) ==
    /\ Edit
    /\ IF back THEN undoStack # <<>> /\ DocumentUndo ELSE redoStack # <<>> /\ DocumentRedo
    /\ strayed' = TRUE
    /\ LET s == Step(Document(text, Append(cursors, native)), text')
       IN cursors' = Front(s.doc.cursors) /\ \E p \in s.places : native' = Caret(p)
    /\ UNCHANGED <<mainIndex, histories, _overwriteMode, clipboard>>

----

EditorInit ==
    /\ text \in Texts
    /\ undoStack = <<>> /\ redoStack = <<>>
    /\ native = Caret(0)
    /\ cursors = <<Caret(0)>>
    /\ mainIndex = 1
    /\ _multiUndoHistory = <<>> /\ _multiRedoHistory = <<>>
    /\ _overwriteMode = FALSE
    /\ _altGesture = FALSE
    /\ clipboard \in Pasted
    /\ strayed = FALSE
    /\ edits = 0 /\ moves = 0

Keys ==
    \/ \E ch \in Typed : TypeText(ch)
    \/ Backspace \/ DeleteKey \/ ReturnKey
    \/ \E b \in BOOLEAN : TabKey(b) \/ ChangeCase(b)
    \/ Copy \/ CutSelections \/ CutLines \/ Paste
    \/ UndoMultiEdit \/ RedoMultiEdit \/ NativeUndo \/ NativeRedo
    \/ \E keep \in BOOLEAN : \/ \E way \in Directions : MoveCursors(way, keep)
                             \/ \E forward \in BOOLEAN : MoveByWord(forward, keep)
                             \/ HomeKey(keep)
    \/ SelectNextOccurrence
    \/ \E b \in BOOLEAN : AddCursorOnAdjacentLine(b)
    \/ Escape \/ InsertKey

Mouse == \E p \in 0 .. Len(text) :
    \/ \E a \in 0 .. p : Click(a, p)
    \/ AltClick(p)
    \/ AltDrag(p)
    \/ Release

Jumps == \E p \in 0 .. Len(text) - 1 : SetTextCursor(p)

PastTheHandlers ==
    \/ ForeignEdit(ThroughLast(RemoveSelected))
    \/ ~Multiple /\ ForeignEdit(ThroughLast(LAMBDA d, i : InsertText(d, i, clipboard)))
    \/ ForeignEdit(ThroughLast(Complete))
    \/ ForeignEdit(ThroughLast(ReplaceSelection))
    \/ ForeignEdit(ThroughLast(ReplaceAllText))
    \/ \E back \in BOOLEAN : ForeignStep(back)

EditorNext == Keys \/ Mouse \/ Jumps \/ PastTheHandlers
EditorSpec == EditorInit /\ [][EditorNext]_editorVars

----
(* Properties.                                                             *)

CursorIn(c, t) == c.anchor \in 0 .. Len(t) /\ c.pos \in 0 .. Len(t)

\* Every cursor, the native one and those of the set, is within the text, and the main index names one of the set.
EditorTypeOK ==
    /\ CursorIn(native, text)
    /\ \A i \in DOMAIN cursors : CursorIn(cursors[i], text)
    /\ mainIndex \in DOMAIN cursors
    /\ _overwriteMode \in BOOLEAN /\ _altGesture \in BOOLEAN /\ strayed \in BOOLEAN
    /\ edits \in 0 .. MaxEdits /\ moves \in 0 .. MaxMoves

\* While every edit has passed the handlers and changed something, the history of cursor sets stays in
\* step with the document's undo stack: its entries are the latest steps the document can undo, in their
\* order, and those of the redo history the next it can redo.
InStep ==
    LET n == Len(_multiUndoHistory) - Len(undoStack)
        m == Len(_multiRedoHistory) - Len(redoStack)
    IN ~strayed =>
        /\ n <= 0 /\ \A k \in DOMAIN _multiUndoHistory : _multiUndoHistory[k].before = undoStack[k - n]
        /\ m <= 0 /\ \A k \in DOMAIN _multiRedoHistory : _multiRedoHistory[k].after = redoStack[k - m]

\* Then undo of an edit made through several cursors gives back the text and every cursor as they were
\* before it, and redo as they were after it (of cursors that are the same, once).
UndoRestores ==
    [][/\ UndoMultiEdit /\ ~strayed =>
            LET e == Last(_multiUndoHistory) IN text' = e.before /\ ToSet(cursors') = ToSet(e.pre)
       /\ RedoMultiEdit /\ ~strayed =>
            LET e == Last(_multiRedoHistory) IN text' = e.after /\ cursors' = e.post]_editorVars

Overlap(c, d) == Max({SelStart(c), SelStart(d)}) <= Min({SelEnd(c), SelEnd(d)})
Apart(cs) == \A i, j \in DOMAIN cs : i # j => ~Overlap(cs[i], cs[j])

\* After a key that edits (while none has strayed), and after one that moves every cursor, no two cursors touch, so no place is
\* edited twice by the next key; and the main cursor is the one the widget shows.
CursorsApart ==
    [][(edits' # edits /\ ~strayed') \/ (\E way \in Directions, keep \in BOOLEAN : MoveCursors(way, keep))
        => Apart(cursors') /\ native' = cursors'[mainIndex']]_editorVars
====
