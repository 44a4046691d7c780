---------------------------- MODULE MCFileSearch ----------------------------
(* FileSearch on small trees: files without a match, with two matches on a  *)
(* line, with matches on two lines, and more matches than the limit allows. *)
EXTENDS FileSearch

Skipped == [kind |-> "skipped", lines |-> <<1>>]
Text(lines) == [kind |-> "text", lines |-> lines]
MCTrees == {
    <<>>,
    <<Text(<<1>>), Skipped, Text(<<2, 2>>)>>,
    <<Text(<<>>), Text(<<1, 1, 2>>), Text(<<3, 4>>)>> }
=============================================================================
