---------------------------- MODULE Desk_proofs ----------------------------
(***************************************************************************)
(* What is proved of the parts of the window holds of all of them together *)
(* as MCDesk composes them: a behaviour of the desk is, to each part, a    *)
(* behaviour of that part.                                                 *)
(***************************************************************************)
EXTENDS MCDesk, QueryTab_proofs, Editor_proofs, Window_proofs

deskVars == <<part, editorVars, treeVars, markVars, cacheVars, tabVars, rowVars, sumVars, sqlVars>>
PartsOf == {"editor", "tree", "marks", "scripts", "tabs", "rows", "sum", "sql"}

-----------------------------------------------------------------------------
(* A step of the desk is a step of one part, or leaves it as it was.        *)
LEMMA DeskHasEditor == DeskSpec => EditorSpec
<1>1. DeskInit => EditorInit
  BY DEF DeskInit
<1>2. [DeskNext]_deskVars => [EditorNext]_editorVars
  BY DEF DeskNext, deskVars, EditorPart, TreePart, MarksPart, CachePart, TabsPart,
     RowsPart, SumPart, SqlPart
<1> QED  BY <1>1, <1>2, PTL DEF DeskSpec, EditorSpec, deskVars

LEMMA DeskHasTree == DeskSpec => TreeSpec
<1>1. DeskInit => TreeInit
  BY DEF DeskInit
<1>2. [DeskNext]_deskVars => [TreeNext]_treeVars
  BY DEF DeskNext, deskVars, EditorPart, TreePart, MarksPart, CachePart, TabsPart,
     RowsPart, SumPart, SqlPart
<1> QED  BY <1>1, <1>2, PTL DEF DeskSpec, TreeSpec, deskVars

LEMMA DeskHasMarks == DeskSpec => MarksSpec
<1>1. DeskInit => MarksInit
  BY DEF DeskInit
<1>2. [DeskNext]_deskVars => [MarksNext]_markVars
  BY DEF DeskNext, deskVars, EditorPart, TreePart, MarksPart, CachePart, TabsPart,
     RowsPart, SumPart, SqlPart
<1> QED  BY <1>1, <1>2, PTL DEF DeskSpec, MarksSpec, deskVars

LEMMA DeskHasCache == DeskSpec => CacheSpec
<1>1. DeskInit => CacheInit
  BY DEF DeskInit
<1>2. [DeskNext]_deskVars => [CacheNext]_cacheVars
  BY DEF DeskNext, deskVars, EditorPart, TreePart, MarksPart, CachePart, TabsPart,
     RowsPart, SumPart, SqlPart
<1> QED  BY <1>1, <1>2, PTL DEF DeskSpec, CacheSpec, deskVars

LEMMA DeskHasTabs == DeskSpec => TabsSpec
<1>1. DeskInit => TabsInit
  BY DEF DeskInit
<1>2. [DeskNext]_deskVars => [TabsNext]_tabVars
  BY DEF DeskNext, deskVars, EditorPart, TreePart, MarksPart, CachePart, TabsPart,
     RowsPart, SumPart, SqlPart
<1> QED  BY <1>1, <1>2, PTL DEF DeskSpec, TabsSpec, deskVars

LEMMA DeskHasRows == DeskSpec => RowsSpec
<1>1. DeskInit => RowsInit
  BY DEF DeskInit
<1>2. [DeskNext]_deskVars => [RowsNext]_rowVars
  BY DEF DeskNext, deskVars, EditorPart, TreePart, MarksPart, CachePart, TabsPart,
     RowsPart, SumPart, SqlPart
<1> QED  BY <1>1, <1>2, PTL DEF DeskSpec, RowsSpec, deskVars

LEMMA DeskHasSum == DeskSpec => SumSpec
<1>1. DeskInit => SumInit
  BY DEF DeskInit
<1>2. [DeskNext]_deskVars => [SumNext]_sumVars
  BY DEF DeskNext, deskVars, EditorPart, TreePart, MarksPart, CachePart, TabsPart,
     RowsPart, SumPart, SqlPart
<1> QED  BY <1>1, <1>2, PTL DEF DeskSpec, SumSpec, deskVars

LEMMA DeskHasSql == DeskSpec => SqlSpec
<1>1. DeskInit => SqlInit
  BY DEF DeskInit
<1>2. [DeskNext]_deskVars => [SqlNext]_sqlVars
  BY DEF DeskNext, deskVars, EditorPart, TreePart, MarksPart, CachePart, TabsPart,
     RowsPart, SumPart, SqlPart
<1> QED  BY <1>1, <1>2, PTL DEF DeskSpec, SqlSpec, deskVars

LEMMA OnePart == DeskSpec => [](part \in PartsOf)
<1>1. DeskInit => part \in PartsOf
  BY DEF DeskInit, PartsOf
<1>2. part \in PartsOf /\ [DeskNext]_deskVars => (part \in PartsOf)'
  BY DEF DeskNext, deskVars, EditorPart, TreePart, MarksPart, CachePart, TabsPart,
     RowsPart, SumPart, SqlPart
<1> QED  BY <1>1, <1>2, PTL DEF DeskSpec, deskVars

-----------------------------------------------------------------------------
(* The part of the window that is not at rest is well typed: whatever its   *)
(* keys, clicks, calls and answers, each component's state stays within     *)
(* what its code declares and counts (EditorTypeOK to SqlTypeOK).           *)
THEOREM DeskTyped == DeskSpec => []DeskTypeOK
<1>1. part \in PartsOf /\ EditorTypeOK /\ TreeTypeOK /\ MarksTypeOK /\ CacheTypeOK
      /\ TabsTypeOK /\ RowsTypeOK /\ SumTypeOK /\ SqlTypeOK
      => DeskTypeOK
  BY DEF PartsOf, DeskTypeOK
<1> QED
  BY <1>1, OnePart, DeskHasEditor, DeskHasTree, DeskHasMarks, DeskHasCache, DeskHasTabs,
     DeskHasRows, DeskHasSum, DeskHasSql, EditorTyped, TreeTyped, MarksTyped,
     CacheTyped, TabsTyped, RowsTyped, SumTyped, SqlTyped, PTL

(* The invariants of the parts hold of the desk: histories in step, the     *)
(* list of servers kept and its databases where they belong, bookmarks      *)
(* alive, bundles whole, rows shown once, sums exact, the statement and the *)
(* list found those of the text's tokens.                                   *)
THEOREM DeskSafe ==
    DeskSpec => [](/\ InStep /\ ListKept /\ DatabasesOfTheirServer /\ RootsOwned /\ BookmarksAlive
                   /\ BundlesWhole /\ RowsShownOnce /\ SumExact /\ StatementChosen /\ ListFound)
BY DeskHasEditor, DeskHasTree, DeskHasMarks, DeskHasCache, DeskHasRows, DeskHasSum,
   DeskHasSql,
   HistoriesInStep, ListIsKept, DatabasesBelong, RootsAreOwned, MarksStayAlive, BundlesStayWhole,
   RowsOnce, SumIsExact, StatementIsChosen, ListIsFound, PTL

(* And what its steps may never do: undo gives back what was there, no key  *)
(* leaves two cursors touching, no tab with changes goes without consent,   *)
(* no lexeme is lost when a list is split.                                  *)
THEOREM DeskSteps ==
    DeskSpec => UndoRestores /\ CursorsApart /\ TabsGoByConsent /\ SplitLosesNothing
BY DeskHasEditor, DeskHasTabs, DeskHasSql, UndoGivesBack, CursorsStayApart, ClosedByConsent,
   SplitsLoseNothing, PTL
=============================================================================
