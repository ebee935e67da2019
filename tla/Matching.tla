------------------------------ MODULE Matching ------------------------------
(***************************************************************************)
(* A query from its terms to its results: RankCompilers makes the plans    *)
(* that Matcher runs, and the results are compared with what the rows say, *)
(* and with the documents that have the words of the query.                *)
(***************************************************************************)
EXTENDS Matcher, RankCompilers

CONSTANTS Queries    \* the trees of terms that are run

(* Those that the planner throws at are not run.                           *)
Planned == {q \in DOMAIN Queries : ~Throws(Queries[q])}

ASSUME QueriesAssumption == Plans = [q \in Planned |-> PlanOf(Queries[q])]

-----------------------------------------------------------------------------
(* What the tree of rows says of a column, given the bits that count for   *)
(* it and the bits that count against it.                                  *)
RECURSIVE Holds(_, _, _, _)
Holds(node, column, for, against) ==
  CASE node.type = "And" -> /\ Holds(node.left, column, for, against)
                            /\ Holds(node.right, column, for, against)
    [] node.type = "Or" -> \/ Holds(node.left, column, for, against)
                           \/ Holds(node.right, column, for, against)
    [] node.type = "Not" -> ~Holds(node.child, column, against, for)
    [] node.type = "Row" ->
         LET bit == BitOf(column, plan.rows[node.row.id + 1].physical[column[1]])
         IN  IF node.row.inverted THEN ~IsSet(bit, against) ELSE IsSet(bit, for)

always == before \cap table
Found == ToSet(results)

(* The answer lies between what must and what may be reported: a column    *)
(* for which the tree of rows held throughout, and one for which every bit *)
(* could have been read as the tree wants it at some moment of the run.    *)
Between ==
  pc = "done" =>
    \A c \in Column :
      /\ Holds(plan.tree, c, always, ever) => c \in Found
      /\ c \in Found => Holds(plan.tree, c, ever, always)

(* Planning, rewriting (cross products, rows read below their rank),       *)
(* compiling and interpreting together answer what the rows say, whatever  *)
(* is ingested or deleted meanwhile, for queries that negate no more than  *)
(* single rows, and of which no more than one Or is left when the cross    *)
(* product ends, as in every instance that is run: of several Ors          *)
(* RankDownCompiler keeps one (MatchTreeRewriter, RankDownCompiler,        *)
(* CompileNode, ByteCodeInterpreter).                                      *)
ResultsBetween == ~ContainsNot(plan.tree) => Between

(* The same for every query: a Not of several rows, or of an Or, is the    *)
(* complement of its child ("accumulator = !accumulator" is meant to be).  *)
NegationBetween == Between

(* A document that has the words of the query and is active throughout is  *)
(* found: a Bloom filter has false positives, never false negatives        *)
(* (TermMatchTreeConverter, AbstractRowEnumerator and Document agree on    *)
(* rows, padding and n-grams).                                             *)
RECURSIVE Matches(_, _)
Matches(words, node) ==
  CASE node.type = "And" -> Matches(words, node.left) /\ Matches(words, node.right)
    [] node.type = "Or" -> Matches(words, node.left) \/ Matches(words, node.right)
    [] node.type = "Unigram" -> \E i \in DOMAIN words : node.term = <<words[i]>>
    [] node.type = "Phrase" ->
         \E i \in 1 .. Len(words) - Len(node.grams) + 1 :
           SubSeq(words, i, i + Len(node.grams) - 1) = node.grams

RECURSIVE Negates(_)
Negates(node) ==
  \/ node.type = "Not"
  \/ node.type \in {"And", "Or"} /\ (Negates(node.left) \/ Negates(node.right))

StableFound ==
  pc = "done" /\ ~Negates(Queries[query]) =>
    \A c \in DOMAIN documents :
      BitOf(c, DocumentActiveRow) \in always /\ Matches(documents[c], Queries[query])
        => c \in Found
=============================================================================
