---- MODULE Bookmarks ----
(***************************************************************************)
(* The bookmarks of all editors: one list of pointers to the user data of  *)
(* marked blocks, kept up to date by the constructor and the destructor of *)
(* that data, and "Replace all", which destroys the data of the blocks it  *)
(* rewrites and makes it anew under the suspended list.                    *)
(*                                                                         *)
(* A pointer is an address, and the memory of a destroyed object may be    *)
(* given to a new one.  _lastUsedBookmarkPos is kept doubled: it holds     *)
(* half positions.                                                         *)
(***************************************************************************)
EXTENDS Integers, Sequences, FiniteSets, SequencesExt

CONSTANTS
    Editors,
    Addresses,      \* bound: the addresses objects may have
    MaxLines,       \* bound: lines of a document
    MaxEditsOfDocs  \* bound: actions of one behaviour

ASSUME BookmarksBounds ==
    Addresses \subseteq Nat \ {0} /\ MaxLines \in Nat \ {0} /\ MaxEditsOfDocs \in Nat

VARIABLES
    docs,       \* per editor: the user data of each block, 0 for none
    marks,      \* _bookmarks
    lastUsed,   \* _lastUsedBookmarkPos, doubled
    unlisted,   \* history: a replacement left an object without a block, or
                \* gave the memory of a dropped bookmark to another one
    docEdits

markVars == <<docs, marks, lastUsed, unlisted, docEdits>>

WithinEdits == docEdits < MaxEditsOfDocs /\ docEdits' = docEdits + 1 /\ ~unlisted

Listed(list, pos) == [list |-> list, pos |-> pos]
IndexOf(list, p) == CHOOSE i \in -1..Len(list) - 1 :
    IF p \in ToSet(list) THEN i >= 0 /\ list[i + 1] = p /\ \A k \in 1..i : list[k] # p ELSE i = -1

\* A mutant: the item stays in the list of the bookmarks.
ForgetOnly(p, m) == [m EXCEPT !.pos = 2 * IndexOf(m.list, p) - 1]

\* Bookmarks::remove: the position falls between its neighbours, or past the end.
RemoveBookmark(p, m) ==
    LET i == IndexOf(m.list, p)
        list == IF i < 0 THEN m.list ELSE RemoveAt(m.list, i + 1)
    IN Listed(list, IF i = 0 THEN 2 * Len(list) - 1 ELSE 2 * i - 1)

\* The destructors of the data of some blocks, in their order, the list not
\* suspended.
Destroyed(m, data) ==
    LET left[k \in 0..Len(data)] ==
            IF k = 0 THEN m
            ELSE IF data[k] = 0 THEN left[k - 1] ELSE RemoveBookmark(data[k], left[k - 1])
    IN left[Len(data)]
Present == Listed(marks, lastUsed)
Keep(m) == marks' = m.list /\ lastUsed' = m.pos

Live == (UNION {ToSet(docs[e]) : e \in Editors}) \ {0}
-----------------------------------------------------------------------------
\* Ctrl+M: setUserData of the block at the caret; any free address would do.
Free == CHOOSE p \in Addresses \ Live : TRUE
ToggleOn(e, l) ==
    /\ docs[e][l] = 0 /\ Addresses \ Live # {} /\ WithinEdits
    /\ docs' = [docs EXCEPT ![e][l] = Free]
    /\ Keep(Listed(Append(marks, Free), 2 * Len(marks)))
    /\ UNCHANGED unlisted
ToggleOff(e, l) ==
    /\ docs[e][l] # 0 /\ WithinEdits
    /\ docs' = [docs EXCEPT ![e][l] = 0]
    /\ Keep(Destroyed(Present, <<docs[e][l]>>))
    /\ UNCHANGED unlisted

\* Edits: lines come, and lines go with their data; an editor is closed.
InsertLine(e, l) ==
    /\ Len(docs[e]) < MaxLines /\ WithinEdits
    /\ docs' = [docs EXCEPT ![e] = InsertAt(@, l + 1, 0)]
    /\ UNCHANGED <<marks, lastUsed, unlisted>>
DeleteLines(e, from, to) ==
    /\ from <= to /\ to - from + 1 < Len(docs[e]) /\ WithinEdits
    /\ docs' = [docs EXCEPT ![e] = SubSeq(@, 1, from - 1) \o SubSeq(@, to + 1, Len(@))]
    /\ Keep(Destroyed(Present, SubSeq(docs[e], from, to)))
    /\ UNCHANGED unlisted
CloseEditor(e) ==
    /\ docs[e] # <<0>> /\ WithinEdits
    /\ docs' = [docs EXCEPT ![e] = <<0>>]
    /\ Keep(Destroyed(Present, docs[e]))
    /\ UNCHANGED unlisted
-----------------------------------------------------------------------------
\* Ctrl+period, Ctrl+comma, Ctrl+L (a conversion to int drops the half towards
\* zero).  A single bookmark is returned without moving the position.
Whole(pos) == IF pos >= 0 THEN pos - (pos % 2) ELSE pos + (pos % 2)
NextBookmark ==
    /\ Len(marks) > 1 /\ WithinEdits
    /\ lastUsed' = IF 2 * (Len(marks) - 1) > Whole(lastUsed) THEN Whole(lastUsed) + 2 ELSE 0
    /\ UNCHANGED <<docs, marks, unlisted>>
PreviousBookmark ==
    /\ Len(marks) > 1 /\ WithinEdits
    /\ lastUsed' = LET pos == Whole(lastUsed + 1) IN IF pos > 0 THEN pos - 2 ELSE 2 * (Len(marks) - 1)
    /\ UNCHANGED <<docs, marks, unlisted>>
\* The index Bookmarks::last() reads.
LastBookmark == IF lastUsed % 2 # 0 THEN Len(marks) - 1 ELSE lastUsed \div 2
-----------------------------------------------------------------------------
\* One match of "Replace all": it starts in a line (at its first character or
\* later), and its lineBreaks become newBreaks.
Matches == [line : 1..MaxLines, atStart : BOOLEAN, breaks : 0..1, newBreaks : 0..1]
Follows(m, next) ==
    /\ next.line >= m.line + m.breaks
    /\ next.line = m.line => ~next.atStart
Within(m, n) == m.line + m.breaks <= n
Found == [n \in 1..MaxLines |->
    {<<m>> : m \in {x \in Matches : Within(x, n)}}
        \cup {f \in Matches \X Matches : Within(f[2], n) /\ Follows(f[1], f[2])}]

\* What one match does to a bookmark [at: the line it was on, number: where it
\* is to go, dropped: whether it goes].
Affected(b, m) ==
    IF ~(b.at > m.line \/ (b.at = m.line /\ m.atStart)) THEN b
    ELSE IF b.number > m.line + m.newBreaks /\ b.number <= m.line + m.breaks
         THEN [b EXCEPT !.dropped = TRUE]
    ELSE IF b.at > m.line + m.breaks THEN [b EXCEPT !.number = @ + m.newBreaks - m.breaks]
    ELSE b
\* What the matches do to a bookmark on each line, and the lines they leave.
Moved(line, found) ==
    LET moved[k \in 0..Len(found)] ==
            IF k = 0 THEN [at |-> line, number |-> line, dropped |-> FALSE]
            ELSE Affected(moved[k - 1], found[k])
    IN moved[Len(found)]
Grown(n, found) ==
    LET grown[k \in 0..Len(found)] ==
            IF k = 0 THEN n ELSE grown[k - 1] + found[k].newBreaks - found[k].breaks
    IN grown[Len(found)]
Effects(e) ==
    {[marked |-> [l \in DOMAIN docs[e] |-> Moved(l, found)], lines |-> Grown(Len(docs[e]), found)]
        : found \in Found[Len(docs[e])]}

\* The text that replaces the document: its blocks are new; whether the first
\* one keeps its data is the document's affair.
Rewritten(e, effect, firstKept) ==
    [l \in 1..effect.lines |-> IF l = 1 /\ firstKept THEN docs[e][1] ELSE 0]

\* A mutant: an object made in reused memory remains among the deleted ones.
RevivedStillDeleted(s, old, p, line) ==
    LET placed == line \in DOMAIN s.doc IN
    [list |-> ReplaceAt(s.list, IndexOf(s.list, old) + 1, p),
     deleted |-> s.deleted \cup IF placed THEN {s.doc[line]} \ {0} ELSE {},
     doc |-> IF placed THEN [s.doc EXCEPT ![line] = p] ELSE s.doc]

\* A bookmark made anew takes the place of the old one in the list, and its
\* block destroys the data it has.
Revived(s, old, p, line) ==
    LET placed == line \in DOMAIN s.doc IN
    [list |-> ReplaceAt(s.list, IndexOf(s.list, old) + 1, p),
     deleted |-> (s.deleted \ {p}) \cup IF placed THEN {s.doc[line]} \ {0} ELSE {},
     doc |-> IF placed THEN [s.doc EXCEPT ![line] = p] ELSE s.doc]

\* The lines whose bookmarks are made anew, and the addresses these may get.
Staying(e, effect) == {l \in DOMAIN docs[e] : docs[e][l] # 0 /\ ~effect.marked[l].dropped}
Memory(e, effect, firstKept) ==
    LET used == (Live \ ToSet(docs[e])) \cup ToSet(Rewritten(e, effect, firstKept)) IN
    {at \in [Staying(e, effect) -> Addresses \ used] : IsInjective(at)}

\* on_btnReplaceAll_clicked over the whole text: the list is suspended, the
\* bookmarks that stay are made anew in their order, at new addresses, and
\* the deleted ones leave the list when it is resumed.
Remade(e, effect, firstKept, at) ==
    LET text == Rewritten(e, effect, firstKept)
        made[l \in 0..Len(docs[e])] ==
            IF l = 0 THEN [list |-> marks, doc |-> text, deleted |-> (ToSet(docs[e]) \ {0}) \ ToSet(text)]
            ELSE IF l \in Staying(e, effect)
                 THEN Revived(made[l - 1], docs[e][l], at[l], effect.marked[l].number)
            ELSE made[l - 1]
    IN made[Len(docs[e])]

ReplaceAllIn(e, effect, firstKept) ==
    /\ WithinEdits
    /\ effect.lines <= MaxLines
    /\ \E at \in Memory(e, effect, firstKept) :
       LET end == Remade(e, effect, firstKept, at) IN
       /\ docs' = [docs EXCEPT ![e] = end.doc]
       /\ \E order \in SetToSeqs(end.deleted) : Keep(Destroyed(Listed(end.list, lastUsed), order))
       /\ unlisted' = \/ \E l \in DOMAIN at : effect.marked[l].number \notin 1..effect.lines
                      \/ \E l \in DOMAIN docs[e], k \in DOMAIN at :
                           docs[e][l] # 0 /\ effect.marked[l].dropped /\ docs[e][l] = at[k]
-----------------------------------------------------------------------------
MarksInit ==
    /\ docs = [e \in Editors |-> [l \in 1..MaxLines |-> 0]]
    /\ marks = <<>> /\ lastUsed = 0 /\ unlisted = FALSE /\ docEdits = 0

MarksNext ==
    \/ \E e \in Editors :
         \/ \E l \in DOMAIN docs[e] :
              \/ ToggleOn(e, l) \/ ToggleOff(e, l) \/ InsertLine(e, l)
              \/ \E to \in DOMAIN docs[e] : DeleteLines(e, l, to)
         \/ CloseEditor(e)
         \/ \E effect \in Effects(e), firstKept \in {FALSE, docs[e][1] # 0} :
              ReplaceAllIn(e, effect, firstKept)
    \/ NextBookmark \/ PreviousBookmark

MarksSpec == MarksInit /\ [][MarksNext]_markVars
-----------------------------------------------------------------------------
MarksTypeOK ==
    /\ \A e \in Editors : docs[e] \in Seq(Addresses \cup {0}) /\ Len(docs[e]) \in 1..MaxLines
    /\ marks \in Seq(Addresses) /\ lastUsed \in Int /\ unlisted \in BOOLEAN

\* Unless a replacement has moved a bookmark past the text or reused a dropped
\* one's memory, the list holds the data of exactly the marked blocks, each
\* once, and the position jumps start from is within it: no pointer of the
\* list is dead, and no mark is out of reach (CodeBlockProperties, Bookmarks,
\* on_btnReplaceAll_clicked).
BookmarksAlive ==
    ~unlisted =>
        /\ ToSet(marks) = Live /\ IsInjective(marks)
        /\ \A e, f \in Editors : \A l \in DOMAIN docs[e], m \in DOMAIN docs[f] :
             docs[e][l] # 0 /\ docs[e][l] = docs[f][m] => e = f /\ l = m
        /\ marks # <<>> => LastBookmark \in 0..Len(marks) - 1
====
