--------------------------- MODULE RankCompilers ---------------------------
(***************************************************************************)
(* From the tree of terms to what ByteCodeQueryEngine::Run is given: the   *)
(* rows of the plan, the tree that code is generated from, and the rank at *)
(* which the interpreter starts (src/src/Plan/src: RankDownCompiler,       *)
(* RankZeroCompiler, QueryPlanner).                                        *)
(***************************************************************************)
EXTENDS RowPlan

(* Below a Report, at rank 0, a row is loaded and combined on the stack.   *)
RECURSIVE RankZeroCompile(_)
RankZeroCompile(node) ==
  CASE node.type = "And" -> [type |-> "AndTree", left |-> RankZeroCompile(node.left),
                             right |-> RankZeroCompile(node.right)]
    [] node.type = "Or" -> [type |-> "OrTree", left |-> RankZeroCompile(node.left),
                            right |-> RankZeroCompile(node.right)]
    [] node.type = "Not" -> [type |-> "Not", child |-> RankZeroCompile(node.child)]
    [] node.type = "Row" -> [type |-> "LoadRow", row |-> node.row]

(* The state of a RankDownCompiler: the tree built so far, which runs at   *)
(* m_currentRank.  The initial rank of the query is the highest one.       *)
NewCompiler == [accumulator |-> Null, currentRank |-> 0, maxRank |-> 0]

SetRank(c, rank) == [c EXCEPT !.currentRank = rank, !.maxRank = Max({@, rank})]

RankDownTo(c, rank) ==
  IF rank > c.currentRank
  THEN [SetRank(c, rank) EXCEPT !.accumulator =
          [type |-> "RankDown", delta |-> rank - c.currentRank, child |-> @]]
  ELSE c

RECURSIVE CompileTraversal(_, _, _)
CompileTraversal(c, node, leftmostChild) ==
  CASE node.type = "And" ->
         CompileTraversal(CompileTraversal(c, node.right, FALSE), node.left, leftmostChild)
    [] node.type = "Or" ->
         LET left == CompileTraversal(NewCompiler, node.left, leftmostChild)
             right == CompileTraversal(NewCompiler, node.right, leftmostChild)
             rank == Max({left.currentRank, right.currentRank})
         IN  [SetRank(c, rank) EXCEPT !.accumulator =
                [type |-> "Or", left |-> RankDownTo(left, rank).accumulator,
                 right |-> RankDownTo(right, rank).accumulator]]
    [] node.type = "Report" ->
         [c EXCEPT !.accumulator =
            [type |-> "Report", child |-> IF node.child = Null THEN Null
                                          ELSE RankZeroCompile(node.child)]]
    [] node.type = "Row" ->
         LET some == IF c.accumulator # Null THEN c
                     ELSE [c EXCEPT !.accumulator = [type |-> "Report", child |-> Null]]
             down == RankDownTo(some, node.row.rank)
         IN  [down EXCEPT !.accumulator =
                [type |-> IF leftmostChild THEN "LoadRowJz" ELSE "AndRowJz",
                 row |-> node.row, child |-> @]]

-----------------------------------------------------------------------------
(* QueryPlanner: what is fixed before the code is generated.  The query    *)
(* starts at the highest rank of its rows.                                 *)
Compiled(tree) == CompileTraversal(NewCompiler, Rewrite(tree), TRUE)
InitialRank(tree) == Compiled(tree).maxRank

Compilation(planned) ==
  LET initialRank == InitialRank(planned.tree)
  IN  [rows |-> planned.rows, tree |-> planned.tree, initialRank |-> initialRank,
       compileTree |-> RankDownTo(Compiled(planned.tree), initialRank).accumulator]

PlanOf(query) ==
  CHOOSE plan \in {Compilation(planned) : planned \in {BuildRowMatchTree(query)}} : TRUE
=============================================================================
