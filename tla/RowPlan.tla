------------------------------ MODULE RowPlan ------------------------------
(***************************************************************************)
(* Planning of a query, from the tree of terms to the tree of rows that    *)
(* the compilers take (src/src/Plan/src: TermMatchTreeConverter,           *)
(* AbstractRowEnumerator, PlanRows, RowMatchNode, MatchTreeRewriter).      *)
(* Everything here is a function of the query and of the term tables.      *)
(***************************************************************************)
EXTENDS PlanRows

CONSTANTS
  c_maxRowsPerQuery,
  c_maxGramSize,      \* the longest phrases that queries look for
  targetRowCount,
  targetCrossProductTermCount,
  None

ASSUME RowAssumption == \A r \in RowId : r # None

-----------------------------------------------------------------------------
(* Trees.  Term nodes are Unigram, Phrase, And, Or, Not; row nodes are     *)
(* Row, Report, And, Or, Not.                                              *)
Unigram(t) == [type |-> "Unigram", term |-> t]
Phrase(grams) == [type |-> "Phrase", grams |-> grams]
And(a, b) == [type |-> "And", left |-> a, right |-> b]
Or(a, b) == [type |-> "Or", left |-> a, right |-> b]
Not(a) == [type |-> "Not", child |-> a]
Report(a) == [type |-> "Report", child |-> a]
Row(row) == [type |-> "Row", row |-> row]

(* The row as it is read at a rank that is rankDelta below its own.        *)
RankUp(row, rankDelta) ==
  [row EXCEPT !.rank = @ + row.rankDelta - rankDelta, !.rankDelta = rankDelta]

(* RowMatchNode::Builder: AddChild puts the new child on the left.         *)
AddChild(type, node, child) ==
  CASE node = Null -> child
    [] child = Null -> node
    [] OTHER -> [type |-> type, left |-> child, right |-> node]

BuildNot(child) ==
  CASE child = Null -> Null
    [] child.type = "Not" -> child.child
    [] child.type = "Row" ->
         Row(AbstractRow(child.row.id, child.row.rank, ~child.row.inverted))
    [] OTHER -> Not(child)

-----------------------------------------------------------------------------
(* The rows of a term, in a plan that has one entry per abstract row: its  *)
(* rank and its physical row in every shard.                               *)
NoRows(plan) ==
  [plan |-> plan, rows |-> [r \in Rank |-> << >>],
   used |-> [s \in Shard |-> [r \in Rank |-> 0]]]

AddPhysicalRow(e, shard, row) ==
  LET rank == row[1]
      index == e.used[shard][rank] + 1
      fresh == index > Len(e.rows[rank])
      rows == IF fresh THEN [e.rows EXCEPT ![rank] = Append(@, Len(e.plan))] ELSE e.rows
      plan == IF fresh
              THEN Append(e.plan, [rank |-> rank, physical |-> [s \in Shard |-> None]])
              ELSE e.plan
  IN  IF fresh /\ Len(e.plan) >= c_maxRowsPerQuery
      THEN e
      ELSE [plan |-> [plan EXCEPT ![rows[rank][index] + 1].physical[shard] = row],
            rows |-> rows,
            used |-> [e.used EXCEPT ![shard][rank] = index]]

ProcessShard(e, shard, rowIds) ==
  FoldLeft(LAMBDA f, row : AddPhysicalRow(f, shard, row), e, rowIds)

(* mutated form: the padding repeats the row of the first shard            *)
PaddingOfFirstShard(e, rank, shard) ==
  IF e.used[shard][rank] = 0 THEN MatchAllRow
  ELSE e.plan[e.rows[rank][e.used[shard][rank]] + 1].physical[1]

(* A shard that has fewer rows at a rank than another one repeats its last *)
(* row of that rank, or takes the row that matches everything.             *)
Padding(e, rank, shard) ==
  IF e.used[shard][rank] = 0 THEN MatchAllRow
  ELSE e.plan[e.rows[rank][e.used[shard][rank]] + 1].physical[shard]

PadWithDuplicateRowIds(e) ==
  [i \in DOMAIN e.plan |->
     [e.plan[i] EXCEPT !.physical = [s \in Shard |->
        IF @[s] = None THEN Padding(e, e.plan[i].rank, s) ELSE @[s]]]]

(* AbstractRowEnumerator: the plan with the rows of one more term, and the *)
(* abstract rows of that term, the highest rank first.  rowIds gives the   *)
(* rows of the term in each shard.                                         *)
Enumerate(plan, rowIds) ==
  LET e == FoldLeft(LAMBDA f, s : ProcessShard(f, s, rowIds[s]), NoRows(plan),
                    [s \in Shard |-> s])
      AtRank(r) == [i \in DOMAIN e.rows[r] |-> AbstractRow(e.rows[r][i], r, FALSE)]
  IN  [plan |-> PadWithDuplicateRowIds(e),
       rows |-> FlattenSeq([k \in 1 .. c_maxRankValue + 1 |-> AtRank(c_maxRankValue + 1 - k)])]

(* A half-built tree, together with the plan so far.                       *)
AppendTermRows(b, rowIds) ==
  IF Len(b.plan) >= c_maxRowsPerQuery THEN b
  ELSE LET e == Enumerate(b.plan, rowIds)
       IN  [plan |-> e.plan,
            node |-> FoldLeft(LAMBDA n, row : AddChild("And", n, Row(row)), b.node, e.rows)]

AppendTerm(b, term) == AppendTermRows(b, [s \in Shard |-> TermRows[s][term]])

RECURSIVE BuildMatchTree(_, _)
BuildMatchTree(plan, node) ==
  LET Binary ==
        LET left == BuildMatchTree(plan, node.left)
            right == BuildMatchTree(left.plan, node.right)
        IN  [plan |-> right.plan, node |-> AddChild(node.type, left.node, right.node)]
  IN  CASE node.type \in {"And", "Or"} -> Binary
        [] node.type = "Not" ->
             LET child == BuildMatchTree(plan, node.child)
             IN  [child EXCEPT !.node = BuildNot(@)]
        [] node.type = "Unigram" ->
             AppendTerm([plan |-> plan, node |-> Null], node.term)
        [] node.type = "Phrase" ->
             FoldLeft(AppendTerm, [plan |-> plan, node |-> Null],
                      NGrams(node.grams, c_maxGramSize))

(* The row of active documents comes first, so that a full plan has it.    *)
(* A query that leaves no row of its own is not planned: an exception      *)
(* takes the place of the tree.                                            *)
BuildRowMatchTree(query) ==
  LET system == AppendTermRows([plan |-> << >>, node |-> Null],
                               [s \in Shard |-> <<DocumentActiveRow>>])
      main == BuildMatchTree(system.plan, query)
  IN  [rows |-> main.plan,
       tree |-> IF main.node = Null THEN Null ELSE AddChild("And", system.node, main.node)]
Throws(query) == BuildRowMatchTree(query).tree = Null

-----------------------------------------------------------------------------
(* MatchTreeRewriter: cross products of the Or nodes, up to the targets.   *)
(* A partition holds an And of four trees (rankN, orTree, rank0, other).   *)
EmptyPartition ==
  [rowCount |-> 0, minRank |-> c_maxRankValue, parentRank |-> c_maxRankValue,
   rows |-> [r \in Rank |-> Null],
   rankN |-> Null, orTree |-> Null, rank0 |-> Null, other |-> Null]

RECURSIVE RankUpToRankZero(_)
RankUpToRankZero(node) ==
  CASE node.type \in {"And", "Or"} ->
         [node EXCEPT !.left = RankUpToRankZero(@), !.right = RankUpToRankZero(@)]
    [] node.type = "Not" -> [node EXCEPT !.child = RankUpToRankZero(@)]
    [] node.type = "Row" -> IF node.row.rank > 0 THEN Row(RankUp(node.row, node.row.rank))
                            ELSE node

RECURSIVE ContainsNot(_)
ContainsNot(node) ==
  \/ node.type = "Not"
  \/ node.type \in {"And", "Or"} /\ (ContainsNot(node.left) \/ ContainsNot(node.right))

RECURSIVE ProcessTree(_, _)
ProcessTree(p, node) ==
  CASE node.type = "And" -> ProcessTree(ProcessTree(p, node.left), node.right)
    [] node.type = "Not" -> [p EXCEPT !.other = AddChild("And", @, RankUpToRankZero(node))]
    [] node.type = "Or" -> [p EXCEPT !.orTree = AddChild("And", @, node)]
    [] node.type = "Row" ->
         LET rank == node.row.rank
             row == IF rank > p.parentRank THEN Row(RankUp(node.row, rank - p.parentRank))
                    ELSE node
         IN  [p EXCEPT !.rowCount = @ + 1,
                       !.minRank = IF 0 < rank /\ rank < @ THEN rank ELSE @,
                       !.rows[rank] = AddChild("And", @, row)]

Partition(parent, node) ==
  LET p == ProcessTree([parent EXCEPT !.parentRank = parent.minRank,
                                      !.rows = EmptyPartition.rows], node)
      RankN[r \in Rank] ==
        IF r = 0 THEN p.rankN ELSE AddChild("And", RankN[r - 1], p.rows[r])
  IN  [p EXCEPT !.rank0 = AddChild("And", @, p.rows[0]), !.rankN = RankN[c_maxRankValue]]

CreateTree(p) ==
  LET up == RankUpToRankZero(p.orTree)
      report == CASE p.orTree = Null -> Report(p.other)
                  [] ContainsNot(p.orTree) -> Report(AddChild("And", p.other, up))
                  [] OTHER -> And(up, Report(p.other))
  IN  AddChild("And", AddChild("And", report, p.rank0), p.rankN)

FirstOr(orTree) == IF orTree.type = "And" THEN orTree.left ELSE orTree
(* mutated form: the expansion of one Or forgets the others                *)
NoOtherOrs(orTree) == Null

OtherOrs(orTree) == IF orTree.type = "And" THEN orTree.right ELSE Null

(* count is the number of terms of the cross product so far.               *)
RECURSIVE BuildCompileTree(_, _, _)
BuildCompileTree(parent, node, count) ==
  LET p == Partition(parent, node)
      q == [p EXCEPT !.rankN = Null, !.orTree = OtherOrs(p.orTree)]
      left == BuildCompileTree(q, FirstOr(p.orTree).left, count)
      right == BuildCompileTree(q, FirstOr(p.orTree).right, left.count)
  IN  IF \/ p.orTree = Null
         \/ targetRowCount < p.rowCount
         \/ count >= targetCrossProductTermCount
      THEN [tree |-> CreateTree(p), count |-> count + 1]
      ELSE [tree |-> AddChild("And", Or(left.tree, right.tree), p.rankN),
            count |-> right.count]

Rewrite(root) == BuildCompileTree(EmptyPartition, root, 0).tree
=============================================================================
