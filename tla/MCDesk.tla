---- MODULE MCDesk ----
(***************************************************************************)
(* The parts of the window that share no state: each behaviour is one of   *)
(* one part, the others at rest.                                           *)
(***************************************************************************)
EXTENDS CodeEditor, ServerTree, Bookmarks, ScriptCache, WindowTabs, ResultRows, DecimalSum, SqlLexer

VARIABLE part

MCTexts == {<<"a", NL, "a">>}
MCPasted == {<<"b", NL, "A">>}
MCDatabases == <<"d">>
MCWhole == {<<>>, <<0>>, <<9>>, <<1, 0, 0>>}
MCFractions == {<<>>, <<1>>, <<0, 9>>}
MCExponents == {0, 2, -3}
MCDirectives == [is : {"if"}, least : {10, 11}] \cup [is : {"elif"}, least : {10}]
                    \cup [is : {"else", "endif"}, least : {0}]
MCScripts == {[of |-> {"'", "\"", "/*", "*/", "--", "\n", ";", "$a$", "$$", "SELECT"}, upTo |-> 4],
              [of |-> {"(", ")", ",", "'", "\n", " ", "x"}, upTo |-> 5],
              [of |-> {"(", ")", ",", "--", "\n", " ", "x"}, upTo |-> 5]}

DeskInit ==
    /\ part \in {"editor", "tree", "marks", "scripts", "tabs", "rows", "sum", "sql"}
    /\ EditorInit /\ (part # "editor" => text = CHOOSE t \in Texts : TRUE)
    /\ TreeInit /\ MarksInit /\ CacheInit /\ TabsInit /\ RowsInit /\ SumInit /\ SqlInit

EditorPart ==
    /\ part = "editor" /\ EditorNext
    /\ UNCHANGED <<part, treeVars, markVars, cacheVars, tabVars, rowVars, sumVars, sqlVars>>
TreePart ==
    /\ part = "tree" /\ TreeNext
    /\ UNCHANGED <<part, editorVars, markVars, cacheVars, tabVars, rowVars, sumVars, sqlVars>>
MarksPart ==
    /\ part = "marks" /\ MarksNext
    /\ UNCHANGED <<part, editorVars, treeVars, cacheVars, tabVars, rowVars, sumVars, sqlVars>>
CachePart ==
    /\ part = "scripts" /\ CacheNext
    /\ UNCHANGED <<part, editorVars, treeVars, markVars, tabVars, rowVars, sumVars, sqlVars>>
TabsPart ==
    /\ part = "tabs" /\ TabsNext
    /\ UNCHANGED <<part, editorVars, treeVars, markVars, cacheVars, rowVars, sumVars, sqlVars>>
RowsPart ==
    /\ part = "rows" /\ RowsNext
    /\ UNCHANGED <<part, editorVars, treeVars, markVars, cacheVars, tabVars, sumVars, sqlVars>>
SumPart ==
    /\ part = "sum" /\ SumNext
    /\ UNCHANGED <<part, editorVars, treeVars, markVars, cacheVars, tabVars, rowVars, sqlVars>>
SqlPart ==
    /\ part = "sql" /\ SqlNext
    /\ UNCHANGED <<part, editorVars, treeVars, markVars, cacheVars, tabVars, rowVars, sumVars>>
DeskNext == EditorPart \/ TreePart \/ MarksPart \/ CachePart \/ TabsPart \/ RowsPart \/ SumPart \/ SqlPart

DeskSpec == DeskInit /\ [][DeskNext]_<<part, editorVars, treeVars, markVars, cacheVars, tabVars, rowVars, sumVars, sqlVars>>

\* The part that is not at rest is well typed.
DeskTypeOK ==
    CASE part = "editor" -> EditorTypeOK [] part = "tree" -> TreeTypeOK
      [] part = "marks" -> MarksTypeOK   [] part = "scripts" -> CacheTypeOK
      [] part = "tabs" -> TabsTypeOK     [] part = "rows" -> RowsTypeOK
      [] part = "sum" -> SumTypeOK       [] part = "sql" -> SqlTypeOK
====
