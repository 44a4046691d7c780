---- MODULE SqlLexer ----
(***************************************************************************)
(* What of a script is code, and what is taken out of it on that ground:   *)
(* the statement under the caret, the list around it, the words to fold.   *)
(*                                                                         *)
(* A text is a sequence of lexemes: the quotes, the marks of comments and  *)
(* dollar quotes, separators, blanks, and words. The scanner goes line by  *)
(* line and carries its mode and the open dollar tag over a line's end.    *)
(* Positions are those of the source: position i is after i lexemes.       *)
(***************************************************************************)
EXTENDS Integers, Sequences, FiniteSetsExt, SequencesExt

CONSTANTS
    Scripts,        \* what the user types: [of |-> a set of lexemes, upTo |-> how many of them]
    StatementSplit  \* hl.conf's statement_split: ";" ends a statement of this dialect

ASSUME SqlAssumption ==
    Scripts # {} /\ (\A script \in Scripts : script.upTo \in Nat) /\ StatementSplit \in BOOLEAN

VARIABLES
    sql,        \* the text
    lists       \* bound: lists split in this behaviour, one

sqlVars == <<sql, lists>>

LineFeed == "\n"
Comma == ","
DoubleQuote == "\""
Indentation == "\t"
Spacing == {" ", Indentation}
White == Spacing \cup {LineFeed}
DollarTags == {"$a$", "$$"}
NoTag == ""
Keywords == {"SELECT"}
Folded == [SELECT |-> "select"]
Opening == [l \in {"'", DoubleQuote, "/*", "--"} |->
               CASE l = "'" -> "literal" [] l = DoubleQuote -> "name" [] l = "/*" -> "block" [] l = "--" -> "line"]
Closing == [literal |-> "'", name |-> DoubleQuote, line |-> LineFeed]

-----------------------------------------------------------------------------
\* scanLine: what a lexeme does to the mode, the nesting of comments and the tag.
InitialState == [mode |-> "code", level |-> 0, tag |-> NoTag, claimed |-> {}]
InCode(s) == s.mode = "code" /\ s.tag = NoTag

Quoted(s, l) == IF l = Closing[s.mode] THEN [s EXCEPT !.mode = "code"] ELSE s
CommentBlockFlat(s, l) == IF l = "*/" THEN [s EXCEPT !.mode = "code"] ELSE s
CommentBlock(s, l) ==
    LET level == s.level + (CASE l = "/*" -> 1 [] l = "*/" -> -1 [] OTHER -> 0)
    IN  [s EXCEPT !.level = level, !.mode = IF level = 0 THEN "code" ELSE @]
DollarQuoted(s, l) == IF l = s.tag THEN [s EXCEPT !.tag = NoTag] ELSE s
Plain(s, l) ==
    CASE l \in DOMAIN Opening -> [s EXCEPT !.mode = Opening[l], !.level = 1]
      [] l \in DollarTags -> [s EXCEPT !.tag = l]
      [] OTHER -> s
Turned(s, l) ==
    IF s.tag # NoTag THEN DollarQuoted(s, l)
    ELSE CASE s.mode = "code" -> Plain(s, l)
           [] s.mode = "block" -> CommentBlock(s, l)
           [] s.mode \in DOMAIN Closing -> Quoted(s, l)

Past(s, l, i) ==
    LET n == Turned(s, l)
    IN  IF InCode(s) /\ InCode(n) THEN n ELSE [n EXCEPT !.claimed = @ \cup {i}]
Scanned(t) ==
    LET after[i \in 0..Len(t)] == IF i = 0 THEN InitialState ELSE Past(after[i - 1], t[i], i)
    IN  after[Len(t)]

\* forEachCodeChar: the lexemes no span claims.
CodeOf(t) == DOMAIN t \ Scanned(t).claimed

-----------------------------------------------------------------------------
Trimmed(t, from, to) ==
    LET solid == {i \in from + 1 .. to : t[i] \notin White}
    IN  IF solid = {} THEN <<to, to>> ELSE <<Min(solid) - 1, Max(solid)>>

\* statementBounds: a caret before a ";" is in the statement it ends.
StatementBounds(t, pos) ==
    IF ~StatementSplit THEN <<-1, -1>>
    ELSE LET ends == {i \in CodeOf(t) : t[i] = ";"}
             past == {i \in ends : i <= pos}
         IN  Trimmed(t, Max({0} \cup past), Min({Len(t)} \cup (ends \ past)))

\* The list's bracket, the end of it and the commas of its own nesting.
NoList == [open |-> -1, close |-> -1, separators |-> <<>>]

\* Whether the n-th open bracket, closed at abs, is the one asked for.
IsMatchPast(open, n, pos, abs) == IF pos < 0 THEN n = 1 ELSE pos >= open /\ pos <= abs + 1
IsMatch(open, n, pos, abs) == IF pos < 0 THEN n = 1 ELSE pos > open /\ pos <= abs

\* listBounds: the first bracket to close around pos, or, without one, to close
\* the outermost nesting.
NothingOpen == [stack |-> <<>>, found |-> NoList]
ListVisit(r, t, i, pos) ==
    LET n == Len(r.stack)
        level == Last(r.stack)
    IN
    CASE r.found.close # -1 -> r
      [] r.found.close = -1 /\ t[i] = "(" ->
            [r EXCEPT !.stack = Append(@, [open |-> i - 1, commas |-> <<>>])]
      [] r.found.close = -1 /\ t[i] = ")" /\ n > 0 ->
            IF IsMatch(level.open, n, pos, i - 1)
            THEN [r EXCEPT !.found = [open |-> level.open, close |-> i - 1,
                                      separators |-> level.commas]]
            ELSE [r EXCEPT !.stack = Front(@)]
      [] r.found.close = -1 /\ t[i] = Comma /\ n > 0 ->
            [r EXCEPT !.stack[n].commas = Append(@, i - 1)]
      [] OTHER -> r
ListBounds(t, pos) ==
    LET code == CodeOf(t)
        after[i \in 0..Len(t)] ==
            IF i = 0 THEN NothingOpen
            ELSE IF i \in code THEN ListVisit(after[i - 1], t, i, pos) ELSE after[i - 1]
    IN  after[Len(t)].found

\* listBoundsInRange: a bracket opened before the range is none of its business.
RangeVisit(r, t, i) ==
    CASE t[i] = "(" -> [r EXCEPT !.depth = @ + 1]
      [] t[i] = ")" -> [r EXCEPT !.depth = Max({0, @ - 1})]
      [] t[i] = Comma /\ r.depth = 0 -> [r EXCEPT !.commas = Append(@, i - 1)]
      [] OTHER -> r
ListBoundsInRange(t, from, to) ==
    LET code == {i \in CodeOf(t) : i > from /\ i <= to}
        after[i \in 0..Len(t)] ==
            IF i = 0 THEN [depth |-> 0, commas |-> <<>>]
            ELSE IF i \in code THEN RangeVisit(after[i - 1], t, i) ELSE after[i - 1]
    IN  IF from < 0 \/ to < from \/ to > Len(t) THEN NoList
        ELSE [open |-> from - 1, close |-> to, separators |-> after[Len(t)].commas]

\* currentListBounds: a selection is the list; else the brackets around the caret.
CurrentListBounds(t, from, to) ==
    IF from < to THEN ListBoundsInRange(t, from, to) ELSE ListBounds(t, to)

-----------------------------------------------------------------------------
\* reflowList, put in place: one item per line, an item at an edge that is empty
\* left outside, blanks beside the list absorbed. The list has a separator.
SolidBefore(t, p, white) == Max({0} \cup {i \in 1..p : t[i] \notin white})
SolidAfterPast(t, p, white) == Min({Len(t)} \cup {i \in p + 1 .. Len(t) - 1 : t[i + 1] \notin white})
SolidAfter(t, p, white) == Min({Len(t)} \cup {i \in p .. Len(t) - 1 : t[i + 1] \notin white})

NeedsLeadingBreak(t, start) == start > 0 /\ t[start] # LineFeed
NeedsTrailingBreakOfBracket(t, end) == end < Len(t) /\ t[end + 1] = ")"
NeedsTrailingBreak(t, end) == end < Len(t) /\ t[end + 1] \notin {LineFeed, Comma}

\* The items from the first to the last that is filled, each on its line.
LaidOut(t, cuts, items, first, last) ==
    LET effectiveOpen == cuts[first]
        home == Max({0} \cup {i \in 1 .. effectiveOpen + 1 : t[i] = LineFeed})
        baseIndent == SubSeq(t, home + 1, SolidAfter(t, home, Spacing))
        start == SolidBefore(t, effectiveOpen + 1, Spacing)
        end == SolidAfter(t, cuts[last + 1], Spacing)
        indent == IF NeedsLeadingBreak(t, start) THEN baseIndent \o <<Indentation>> ELSE baseIndent
        lines[k \in first - 1 .. last] ==
            IF k < first THEN <<>>
            ELSE lines[k - 1] \o (IF k > first THEN <<Comma, LineFeed>> ELSE <<>>) \o indent \o items[k]
        replacement == (IF NeedsLeadingBreak(t, start) THEN <<LineFeed>> ELSE <<>>) \o lines[last]
                          \o (IF NeedsTrailingBreak(t, end) THEN <<LineFeed>> \o baseIndent ELSE <<>>)
    IN  SubSeq(t, 1, start) \o replacement \o SubSeq(t, end + 1, Len(t))
Reflowed(t, bounds) ==
    LET cuts == <<bounds.open>> \o bounds.separators \o <<SolidBefore(t, bounds.close, White)>>
        items == [k \in 1 .. Len(cuts) - 1 |->
                     LET b == Trimmed(t, cuts[k] + 1, cuts[k + 1]) IN SubSeq(t, b[1] + 1, b[2])]
        filled == {k \in DOMAIN items : items[k] # <<>>}
        first == Min({Len(items)} \cup filled)
    IN  LaidOut(t, cuts, items, first, Max({first} \cup filled))

\* foldKeywords: a word in quotes keeps its case, whatever span it is of.
FoldKeywords(t) ==
    LET code == CodeOf(t)
    IN  [i \in DOMAIN t |-> IF i \in code /\ t[i] \in Keywords THEN Folded[t[i]] ELSE t[i]]

-----------------------------------------------------------------------------
SqlInit == sql = <<>> /\ lists = 0

TypeLexeme(l) ==
    /\ lists = 0
    /\ \E script \in Scripts : Len(sql) < script.upTo /\ Range(sql) \cup {l} \subseteq script.of
    /\ sql' = Append(sql, l)
    /\ UNCHANGED lists

\* onSplitListRequest: with a selection from..to, or the caret at to.
OnSplitListRequest(from, to) ==
    LET bounds == CurrentListBounds(sql, from, to) IN
    /\ lists = 0 /\ Comma \in Range(sql)
    /\ bounds.close >= 0 /\ bounds.separators # <<>>
    /\ sql' = Reflowed(sql, bounds)
    /\ lists' = 1

\* autoSplitRoutineSignature: of a routine scripted by the server; the line of its
\* bracket may be long.
kMinCommasToSplit == 3
AutoSplitRoutineSignature(long) ==
    LET bounds == ListBounds(sql, -1) IN
    /\ lists = 0 /\ Comma \in Range(sql)
    /\ bounds.close >= 0 /\ bounds.separators # <<>>
    /\ Len(bounds.separators) >= kMinCommasToSplit \/ long
    /\ sql' = Reflowed(sql, bounds)
    /\ lists' = 1

SqlNext ==
    \/ \E l \in UNION {script.of : script \in Scripts} : TypeLexeme(l)
    \/ \E to \in 0 .. Len(sql), from \in 0 .. Len(sql) :
          from <= to /\ OnSplitListRequest(from, to)
    \/ \E long \in BOOLEAN : AutoSplitRoutineSignature(long)

SqlSpec == SqlInit /\ [][SqlNext]_sqlVars

SqlTypeOK ==
    /\ lists \in {0, 1}
    /\ \E script \in Scripts :
          sql \in Seq(script.of \cup {Indentation, LineFeed}) /\ (lists = 0 => Len(sql) <= script.upTo)

-----------------------------------------------------------------------------
\* What the text means, read token by token over the lines: a token from i ends
\* with the first lexeme that closes it.
Counted(t, S, l, i, j) == Cardinality({k \in S : k \in i..j /\ t[k] = l})
Closes(t, i, j) ==
    CASE t[i] \in DollarTags \cup {"'", DoubleQuote} -> j > i /\ t[j] = t[i]
      [] t[i] = "/*" -> Counted(t, DOMAIN t, "/*", i, j) = Counted(t, DOMAIN t, "*/", i, j)
      [] t[i] = "--" -> j = Len(t) \/ t[j + 1] = LineFeed
      [] t[i] = "x" -> j = Len(t) \/ t[j + 1] # "x"
      [] OTHER -> TRUE
TokenEnd(t, i) == Min({Len(t)} \cup {j \in i .. Len(t) : Closes(t, i, j)})
Tokens(t) ==
    LET upTo[i \in 0..Len(t)] ==
            IF i = 0 THEN {}
            ELSE IF i = 1 \/ \E j \in upTo[i - 1] : TokenEnd(t, j) = i - 1 THEN upTo[i - 1] \cup {i}
            ELSE upTo[i - 1]
    IN  upTo[Len(t)]
Quotes(l) == l \in DOMAIN Opening \cup DollarTags
MeantCode(t) == {i \in Tokens(t) : ~Quotes(t[i])}
\* A token left open is not over at the text's end.
BetweenTokens(t) ==
    (0 .. Len(t)) \ UNION {i .. TokenEnd(Append(t, " "), i) - 1 : i \in Tokens(t)}

\* A "(" at i open until before j.
OpenFrom(t, code, i, j) ==
    /\ i \in code /\ t[i] = "("
    /\ \A m \in i .. j - 1 : Counted(t, code, "(", i, m) > Counted(t, code, ")", i, m)
Pairs(t, code) ==
    {p \in code \X code : /\ p[1] < p[2] /\ OpenFrom(t, code, p[1], p[2])
                          /\ ~OpenFrom(t, code, p[1], p[2] + 1)}
ListOf(t, code, p) ==
    [open |-> p[1] - 1, close |-> p[2] - 1,
     commas |-> {k - 1 : k \in {k \in code : /\ k \in p[1] .. p[2] /\ t[k] = Comma
                                             /\ \A i \in p[1] + 1 .. k : ~OpenFrom(t, code, i, k)}}]
AsSet(b) == [open |-> b.open, close |-> b.close, commas |-> Range(b.separators)]

\* The lexemes of the statement at pos: no ";" parts them from the caret.
StatementAt(t, code, pos) ==
    LET ended(i, j) == \E k \in code : k \in i..j /\ t[k] = ";"
    IN  {i \in DOMAIN t : t[i] \notin White /\ IF i > pos THEN ~ended(pos + 1, i - 1) ELSE ~ended(i, pos)}

(* The statement selected or sent is the one the caret is in, whatever      *)
(* quotes and comments run over the lines before it; it is never cut in a   *)
(* literal, a comment or a routine's body (statementBounds()). The same code,*)
(* and no other, is subject to the folding of keywords.                     *)
StatementChosen ==
    lists = 0 /\ sql # <<>> => LET code == MeantCode(sql)
                                  folded == FoldKeywords(sql) IN
       /\ \A i \in DOMAIN sql : folded[i] # sql[i] <=> i \in code /\ sql[i] \in Keywords
       /\ StatementSplit => \A pos \in 0 .. Len(sql) :
          LET own == StatementAt(sql, code, pos)
              bounds == StatementBounds(sql, pos)
          IN  IF own = {} THEN bounds[1] = bounds[2] ELSE bounds = <<Min(own) - 1, Max(own)>>

(* The list found is that of the innermost brackets around the caret, the   *)
(* first outermost one for a routine's signature, and its separators are    *)
(* the commas of its own nesting (listBounds()).                            *)
ListFound ==
    lists = 0 /\ sql # <<>> => LET code == MeantCode(sql)
                     pairs == Pairs(sql, code)
                     brackets == {i \in code : sql[i] = "("} IN
       /\ \A pos \in 0 .. Len(sql) :
             LET around == {p \in pairs : p[1] <= pos /\ pos < p[2]}
                 found == AsSet(ListBounds(sql, pos))
             IN  IF around = {} THEN found.close = -1
                 ELSE \E p \in around : /\ found = ListOf(sql, code, p)
                                        /\ \A q \in around : q[2] - q[1] >= p[2] - p[1]
       /\ LET found == AsSet(ListBounds(sql, -1)) IN
          IF \E p \in pairs : p[1] = Min(brackets)
          THEN \E p \in pairs : p[1] = Min(brackets) /\ found = ListOf(sql, code, p)
          ELSE found.close = -1

\* The places of the comments that end with their line.
LineComments(t, tokens) == UNION {i .. TokenEnd(t, i) : i \in {i \in tokens : t[i] = "--"}}

\* The text without its layout: a run of blanks in the code is left only where
\* it parts two words, the line feed that ends a comment stays, the blanks before
\* it do not.
Meaning(t) ==
    LET tokens == Tokens(t)
        comments == LineComments(t, tokens)
        blank(i) ==
            /\ t[i] \in White
            /\ \/ i \in tokens /\ i - 1 \notin comments
               \/ i \in comments /\ \A k \in comments : k > i /\ i .. k \subseteq comments => t[k] \in White
        solid == {i \in DOMAIN t : ~blank(i)}
        parts(i) == /\ blank(i) /\ i - 1 \in solid
                    /\ \E j \in solid : j > i /\ t[j] = t[i - 1] /\ t[j] = "x" /\ \A k \in i .. j - 1 : blank(k)
        kept == SelectSeq([i \in DOMAIN t |-> i], LAMBDA i : i \in solid \/ parts(i))
    IN  [k \in DOMAIN kept |-> IF blank(kept[k]) THEN " " ELSE t[kept[k]]]

\* A comma of the list stands behind a line comment of the list: put right behind
\* the item it would be in the comment.
CommaBehindComment(t, comments, bounds) ==
    \E p \in Range(bounds.separators) :
       Max({0} \cup {i \in 1..p : t[i] \notin White}) \in comments \cap (bounds.open + 2 .. p)

(* Splitting a list changes nothing but the layout of the code, for a       *)
(* selection that starts and ends outside quotes and words, in a list no    *)
(* item of which ends in a line comment with a comma after it: that comma   *)
(* goes into the comment.  Split again at the same bracket, such a list with*)
(* an item stays as it is (reflowList()).                                   *)
SplitKeeps ==
    lists = 0 /\ Comma \in Range(sql) =>
       LET between == BetweenTokens(sql)
           meaning == Meaning(sql)
           comments == LineComments(sql, Tokens(sql)) IN
       \A to \in 0 .. Len(sql) : \A from \in 0 .. to :
          (from = to \/ (Comma \in {sql[i] : i \in from + 1 .. to} /\ {from, to} \subseteq between)) =>
          LET bounds == CurrentListBounds(sql, from, to) IN
          bounds.close >= 0 /\ bounds.separators # <<>> /\ ~CommaBehindComment(sql, comments, bounds) =>
             LET once == Reflowed(sql, bounds) IN
             /\ Meaning(once) = meaning
             /\ from = to /\ (\E i \in bounds.open + 2 .. bounds.close : sql[i] \notin White \cup {Comma})
                   => Reflowed(once, ListBounds(once, bounds.open + 1)) = once

\* The lexemes of a text but for its blanks.
Solids(t) ==
    LET upTo[i \in 0..Len(t)] ==
            IF i = 0 THEN <<>>
            ELSE IF t[i] \in White THEN upTo[i - 1] ELSE Append(upTo[i - 1], t[i])
    IN  upTo[Len(t)]

(* Splitting a list loses, repeats and moves nothing the user has written,  *)
(* wherever the selection starts and ends, in a word, a literal or a        *)
(* comment, and whichever items at its edges are left out (reflowList()).   *)
SplitLosesNothing == [][lists' # lists => Solids(sql') = Solids(sql)]_sqlVars
====
