------------------------------ MODULE ByteCode ------------------------------
(***************************************************************************)
(* The trees that code is generated from, and the code (src/src/Plan/src:  *)
(* CompileNode, the generator and the instructions of                      *)
(* ByteCodeInterpreter).  An instruction is an opcode with an operand (the *)
(* field m_row: a row, a label or a shift), a rank delta and an inversion. *)
(***************************************************************************)
EXTENDS PlanRows

CONSTANTS
  Plans,              \* of each query: rows, tree, compileTree, initialRank
  TreeHeight,         \* no compile tree is higher
  c_rowFieldSize      \* 2 ^ c_rowBits: what m_row holds

-----------------------------------------------------------------------------
(* The nodes of trees no higher than n, and those of them that make sense  *)
(* at a rank, or below a Report (where they have a value, at rank 0).      *)
RowNode == [id : Nat, rank : Rank, rankDelta : Rank, inverted : BOOLEAN]

Parents(children) ==
  [type : {"LoadRow"}, row : RowNode]
  \cup [type : {"LoadRowJz", "AndRowJz"}, row : RowNode, child : children]
  \cup [type : {"Or", "AndTree", "OrTree"}, left : children, right : children]
  \cup [type : {"RankDown"}, delta : Rank, child : children]
  \cup [type : {"Not"}, child : children]
  \cup [type : {"Report"}, child : {Null} \cup children]

CompileNode[n \in Nat] == IF n = 0 THEN {} ELSE Parents(CompileNode[n - 1])

Value == -1

RowsAt(rows, rank) ==
  {row \in RowNode : /\ row.id + 1 \in DOMAIN rows /\ row.rank = rank
                     /\ rows[row.id + 1].rank = rank + row.rankDelta}

MakesSense(node, rank, rows, Sensible) ==
  CASE rank = Value ->
         \/ node.type = "LoadRow" /\ node.row \in RowsAt(rows, 0)
         \/ /\ node.type \in {"AndTree", "OrTree"}
            /\ node.left \in Sensible[Value] /\ node.right \in Sensible[Value]
         \/ node.type = "Not" /\ node.child \in Sensible[Value]
    [] OTHER ->
         \/ /\ node.type \in {"LoadRowJz", "AndRowJz"}
            /\ node.row \in RowsAt(rows, rank) /\ node.child \in Sensible[rank]
         \/ /\ node.type = "Or"
            /\ node.left \in Sensible[rank] /\ node.right \in Sensible[rank]
         \/ /\ node.type = "RankDown" /\ node.delta \in 1 .. rank
            /\ node.child \in Sensible[rank - node.delta]
         \/ /\ node.type = "Report" /\ rank = 0
            /\ node.child \in {Null} \cup Sensible[Value]

SensibleTrees[n \in Nat] ==
  IF n = 0 THEN [q \in DOMAIN Plans |-> [rank \in Rank \cup {Value} |-> {}]]
  ELSE [q \in DOMAIN Plans |-> [rank \in Rank \cup {Value} |->
         {node \in CompileNode[n] :
            MakesSense(node, rank, Plans[q].rows, SensibleTrees[n - 1][q])}]]

(* What the planner hands over.  A row that a shard does not have may be   *)
(* padded with one of a lower rank: the row that matches everything.       *)
PlanRow == {row \in [rank : Rank, physical : [Shard -> RowId]] :
              \A s \in Shard : row.physical[s][1] <= row.rank}

ASSUME PlansAssumption ==
  /\ TreeHeight \in Nat /\ c_rowFieldSize \in Nat \ {0}
  /\ \A q \in DOMAIN Plans :
       /\ Plans[q].rows \in Seq(PlanRow) /\ Plans[q].initialRank \in Rank
       /\ Plans[q].compileTree \in SensibleTrees[TreeHeight][q][Plans[q].initialRank]

-----------------------------------------------------------------------------
(* The generator: m_code, and m_jumpOffsets with the place of every label, *)
(* the number of instructions before it.                                   *)
Opcode == {"LoadRow", "AndRow", "LeftShiftOffset", "RightShiftOffset",
           "IncrementOffset", "Push", "Pop", "AndStack", "OrStack", "UpdateFlags",
           "Not", "Report", "Jmp", "Jz", "Call", "Return", "End"}
Instruction == [opcode : Opcode, row : Nat, delta : Rank, inverted : BOOLEAN]
NotPlaced == -1
Generator == [code : Seq(Instruction), jumpTable : Seq(Nat \cup {NotPlaced})]

(* The operand keeps the bits that m_row has.                              *)
Op(opcode, operand) ==
  [opcode |-> opcode, row |-> operand % c_rowFieldSize, delta |-> 0, inverted |-> FALSE]
RowOp(opcode, row) ==
  [Op(opcode, row.id) EXCEPT !.delta = row.rankDelta, !.inverted = row.inverted]

EmitAll(g, instructions) ==
  [code |-> g.code \o instructions, jumpTable |-> g.jumpTable]
Emit(g, instruction) == EmitAll(g, <<instruction>>)
NextLabel(g) == Len(g.jumpTable)
AllocateLabel(g) ==
  [code |-> g.code, jumpTable |-> Append(g.jumpTable, NotPlaced)]
PlaceLabel(g, label) ==
  [code |-> g.code, jumpTable |-> [g.jumpTable EXCEPT ![label + 1] = Len(g.code)]]

Repeat(instructions, n) ==
  [i \in 1 .. n * Len(instructions) |-> instructions[((i - 1) % Len(instructions)) + 1]]

(* CompileNode::Compile.  Code[child][g] is the generator g after the code *)
(* of the child.                                                           *)
RowCode(Code, node, g) ==
  LET opcode == IF node.type = "LoadRowJz" THEN "LoadRow" ELSE "AndRow"
      read == Emit(g, RowOp(opcode, node.row))
      label == NextLabel(read)
      tested == Emit(AllocateLabel(read), Op("Jz", label))
  IN  PlaceLabel(Code[node.child][tested], label)

OrCode(Code, node, g) ==
  LET left == Code[node.left][Emit(g, Op("Push", 0))]
  IN  Code[node.right][Emit(left, Op("Pop", 0))]

(* The child runs as a subroutine, once for each of the 2 ^ delta offsets  *)
(* below the current one, each time with the accumulator of the caller.    *)
RankDownCalls(node, g) ==
  LET label0 == NextLabel(g)
      calls == Repeat(<<Op("Push", 0), Op("Call", label0), Op("Pop", 0),
                        Op("IncrementOffset", 0)>>, TwoTo[node.delta] - 1)
      shifted == AllocateLabel(Emit(g, Op("LeftShiftOffset", node.delta)))
      called == AllocateLabel(Emit(EmitAll(shifted, calls), Op("Call", label0)))
  IN  PlaceLabel(Emit(called, Op("Jmp", NextLabel(shifted))), label0)

(* mutated form: the offset is not shifted back                            *)
RankDownCodeForgetful(Code, node, g) ==
  LET body == Emit(Code[node.child][RankDownCalls(node, g)], Op("Return", 0))
  IN  PlaceLabel(body, NextLabel(g) + 1)

RankDownCode(Code, node, g) ==
  LET body == Emit(Code[node.child][RankDownCalls(node, g)], Op("Return", 0))
  IN  Emit(PlaceLabel(body, NextLabel(g) + 1), Op("RightShiftOffset", node.delta))

ReportCode(Code, node, g) ==
  IF node.child = Null THEN Emit(g, Op("Report", 0))
  ELSE LET value == Emit(Code[node.child][Emit(g, Op("Push", 0))], Op("AndStack", 0))
           label == NextLabel(value)
           tested == Emit(AllocateLabel(value), Op("Jz", label))
       IN  PlaceLabel(Emit(tested, Op("Report", 0)), label)

AndTreeCode(Code, node, g) ==
  LET left == Code[node.left][g]
      label == NextLabel(left)
      tested == Emit(Emit(AllocateLabel(left), Op("UpdateFlags", 0)), Op("Jz", label))
  IN  PlaceLabel(Emit(Code[node.right][Emit(tested, Op("Push", 0))], Op("AndStack", 0)), label)

OrTreeCode(Code, node, g) ==
  LET left == Code[node.left][g]
  IN  Emit(Code[node.right][Emit(left, Op("Push", 0))], Op("OrStack", 0))

NodeCode(Code, node, g) ==
  CASE node.type = "LoadRow" -> Emit(g, RowOp("LoadRow", node.row))
    [] node.type \in {"LoadRowJz", "AndRowJz"} -> RowCode(Code, node, g)
    [] node.type = "Or" -> OrCode(Code, node, g)
    [] node.type = "RankDown" -> RankDownCode(Code, node, g)
    [] node.type = "Report" -> ReportCode(Code, node, g)
    [] node.type = "AndTree" -> AndTreeCode(Code, node, g)
    [] node.type = "OrTree" -> OrTreeCode(Code, node, g)
    [] node.type = "Not" -> Emit(Code[node.child][g], Op("Not", 0))

Compile[n \in Nat] ==
  IF n = 0 THEN << >>
  ELSE [node \in CompileNode[n] |->
          [g \in Generator |-> NodeCode(Compile[n - 1], node, g)]]

(* The engine generates the code of a query and seals it.                  *)
Seal(q) ==
  Emit(Compile[TreeHeight][Plans[q].compileTree][[code |-> << >>, jumpTable |-> << >>]],
       Op("End", 0))

(* Labels and rows are never tested against the width of m_row.            *)
OperandsFit(q) ==
  /\ Len(Seal(q).jumpTable) <= c_rowFieldSize /\ Len(Plans[q].rows) <= c_rowFieldSize
  /\ c_maxRankValue < c_rowFieldSize
=============================================================================
