------------------------------ MODULE Matcher ------------------------------
(***************************************************************************)
(* One query of the byte code engine (ByteCodeQueryEngine::Run and         *)
(* ByteCodeInterpreter, src/src/Plan/src) over the rows of an index        *)
(* (RowTableDescriptor and Slice, src/src/Index/src) to which another      *)
(* thread adds a document and from which a third one deletes.  Every       *)
(* instruction is a step, and so is every bit that is set or cleared.      *)
(*                                                                         *)
(* A column is <<shard, slice, quadword, bit>>: the place of a document.   *)
(* The bits that are set are tuples <<shard, slice, row, quadword, bit>>.  *)
(* The flag that UpdateFlags sets is left out: no instruction reads it.    *)
(***************************************************************************)
EXTENDS ByteCode

CONSTANTS
  SliceCount,         \* the slices of each shard
  QuadwordsPerRow,    \* of a row of rank 0: the capacity of a slice >> 6
  c_bitsPerQuadword,
  m_maxGramSize,      \* the longest phrases that documents are indexed for
  InitialDocuments,   \* the contents the index may start with
  AddedColumn, AddedDocument,   \* what is ingested meanwhile ...
  DeletableColumns              \* ... and what may be deleted

Bit == 0 .. c_bitsPerQuadword - 1
Slices(s) == 1 .. SliceCount[s]
Quadwords(rank) == 0 .. QuadwordsPerRow \div TwoTo[rank] - 1
Column == UNION {{<<s, k, q, b>> : k \in Slices(s), q \in Quadwords(0), b \in Bit} :
                 s \in Shard}

ASSUME MatcherAssumption ==
  /\ c_bitsPerQuadword \in Nat \ {0} /\ QuadwordsPerRow \in Nat \ {0}
  /\ QuadwordsPerRow % TwoTo[c_maxRankValue] = 0
  /\ \A s \in Shard : SliceCount[s] \in Nat
  /\ AddedColumn \in Column /\ DeletableColumns \subseteq Column
  /\ \A d \in InitialDocuments : DOMAIN d \subseteq Column \ {AddedColumn}

(* RowTableDescriptor: a quadword of a row of rank r stands for 2 ^ r      *)
(* quadwords of rank 0.                                                    *)
BitOf(column, row) ==
  <<column[1], column[2], row, column[3] \div TwoTo[row[1]], column[4]>>

Rows(shard, term) == TermRows[shard][term]
Terms(words) == ToSet(NGrams(words, m_maxGramSize))
Postings(column, words) ==
  {BitOf(column, row) : row \in {DocumentActiveRow}
                                 \cup UNION {ToSet(Rows(column[1], t)) : t \in Terms(words)}}

(* RowTableDescriptor::Initialize fills the row that matches everything,   *)
(* and nothing writes it: its bits are not listed.                         *)
IsSet(bit, bits) == bit[3] = MatchAllRow \/ bit \in bits

VARIABLES
  query,        \* the query of this behaviour
  plan,         \* what the planner made of it
  program,      \* m_code and m_jumpTable
  documents,    \* column -> words, the documents that are or will be there
  table,        \* the bits that are set
  posting,      \* the ingesting thread: terms to add, rows of the current one
  pc,           \* the query: "idle", "run" or "done"
  shard, slice, iteration,                        \* where the interpreter is
  ip, accumulator, offset, valueStack, callStack, \* its registers
  m_dedupe,     \* <<offset, bit>> reported in this iteration
  results,      \* the results buffer
  before, ever  \* history: the bits at the token, and all that were set since

machine == <<ip, accumulator, offset, valueStack, callStack, m_dedupe>>
position == <<shard, slice, iteration>>
engine == <<query, plan, program, pc, position, machine, results, before>>
vars == <<engine, documents, table, posting, ever>>

Iterations == QuadwordsPerRow \div TwoTo[plan.initialRank]
instruction == program.code[ip + 1]
Base == iteration * TwoTo[plan.initialRank]

Init ==
  /\ query \in DOMAIN Plans /\ plan = Plans[query]
  /\ program = Seal(query)
  /\ documents \in InitialDocuments
  /\ table = UNION {Postings(c, documents[c]) : c \in DOMAIN documents}
  /\ posting = [todo |-> Terms(AddedDocument), rows |-> << >>, active |-> FALSE]
  /\ pc = "idle"
  /\ shard = 1 /\ slice = 1 /\ iteration = 0
  /\ ip = 0 /\ accumulator = {} /\ offset = 0 /\ valueStack = << >> /\ callStack = << >>
  /\ m_dedupe = {} /\ results = << >>
  /\ before = {} /\ ever = {}

-----------------------------------------------------------------------------
(* The other threads.  The bits of a document are set term by term, in the *)
(* order of a hash table, and row by row; its active bit comes last.       *)
Write(bits) ==
  /\ table' = bits
  /\ ever' = IF pc = "run" THEN ever \cup bits ELSE ever
  /\ UNCHANGED <<engine, documents>>

SetBit(rows, todo) ==
  /\ posting' = [posting EXCEPT !.rows = Tail(rows), !.todo = todo]
  /\ Write(table \cup {BitOf(AddedColumn, Head(rows))})

AddPosting ==
  IF posting.rows # << >>
  THEN SetBit(posting.rows, posting.todo)
  ELSE \E t \in posting.todo : SetBit(Rows(AddedColumn[1], t), posting.todo \ {t})

Activate ==
  /\ posting = [todo |-> {}, rows |-> << >>, active |-> FALSE]
  /\ posting' = [posting EXCEPT !.active = TRUE]
  /\ Write(table \cup {BitOf(AddedColumn, DocumentActiveRow)})

Expire(column) ==
  /\ BitOf(column, DocumentActiveRow) \in table
  /\ Write(table \ {BitOf(column, DocumentActiveRow)})
  /\ UNCHANGED posting

-----------------------------------------------------------------------------
(* The interpreter.                                                        *)
Others == UNCHANGED <<query, plan, program, documents, table, posting, before>>

StartIteration(s, k, i) ==
  /\ shard' = s /\ slice' = k /\ iteration' = i
  /\ ip' = 0 /\ accumulator' = {} /\ offset' = i

(* Run takes a token; the slices of a shard are walked in order, and the   *)
(* iterations of a slice.                                                  *)
FirstShard(s) == {t \in Shard : t > s /\ SliceCount[t] > 0}

Begin ==
  /\ pc = "idle" /\ FirstShard(0) # {}
  /\ pc' = "run" /\ before' = table /\ ever' = table
  /\ StartIteration(Min(FirstShard(0)), 1, 0)
  /\ UNCHANGED <<query, plan, program, documents, table, posting, valueStack, callStack, m_dedupe, results>>

Step(opcodes) ==
  /\ pc = "run" /\ instruction.opcode \in opcodes
  /\ UNCHANGED <<pc, position, results, ever>>
  /\ Others

Advance == ip' = ip + 1

(* LoadRow and AndRow read one quadword, now.                              *)
PhysicalRow == plan.rows[instruction.row + 1].physical[shard]
RowOffset == offset \div TwoTo[instruction.delta]
Quadword ==
  LET value == {b \in Bit : IsSet(<<shard, slice, PhysicalRow, RowOffset, b>>, table)}
  IN  IF instruction.inverted THEN Bit \ value ELSE value

ReadRow ==
  /\ Step({"LoadRow", "AndRow"})
  /\ accumulator' = IF instruction.opcode = "LoadRow" THEN Quadword
                    ELSE accumulator \cap Quadword
  /\ Advance
  /\ UNCHANGED <<offset, valueStack, callStack, m_dedupe>>

MoveOffset ==
  /\ Step({"LeftShiftOffset", "RightShiftOffset", "IncrementOffset"})
  /\ offset' = CASE instruction.opcode = "LeftShiftOffset" -> offset * TwoTo[instruction.row]
                 [] instruction.opcode = "RightShiftOffset" -> offset \div TwoTo[instruction.row]
                 [] instruction.opcode = "IncrementOffset" -> offset + 1
  /\ Advance
  /\ UNCHANGED <<accumulator, valueStack, callStack, m_dedupe>>

Push ==
  /\ Step({"Push"})
  /\ valueStack' = Append(valueStack, accumulator)
  /\ Advance
  /\ UNCHANGED <<accumulator, offset, callStack, m_dedupe>>

Pop ==
  /\ Step({"Pop", "AndStack", "OrStack"})
  /\ LET value == Last(valueStack)
     IN  accumulator' = CASE instruction.opcode = "Pop" -> value
                          [] instruction.opcode = "AndStack" -> accumulator \cap value
                          [] instruction.opcode = "OrStack" -> accumulator \cup value
  /\ valueStack' = Front(valueStack)
  /\ Advance
  /\ UNCHANGED <<offset, callStack, m_dedupe>>

UpdateFlags ==
  /\ Step({"UpdateFlags"})
  /\ Advance
  /\ UNCHANGED <<accumulator, offset, valueStack, callStack, m_dedupe>>

(* The negation of C++, not that of the bits: 1 for zero, 0 for the rest.  *)
LogicalNot ==
  /\ Step({"Not"})
  /\ accumulator' = IF accumulator = {} THEN {0} ELSE {}
  /\ Advance
  /\ UNCHANGED <<offset, valueStack, callStack, m_dedupe>>

AddResult ==
  /\ Step({"Report"})
  /\ m_dedupe' = m_dedupe \cup {<<offset - Base, b>> : b \in accumulator}
  /\ Advance
  /\ UNCHANGED <<accumulator, offset, valueStack, callStack>>

Target == program.jumpTable[instruction.row + 1]

(* mutated form: a subroutine returns to its call                          *)
JumpAndReturnToCall ==
  /\ Step({"Jmp", "Jz", "Call"})
  /\ ip' = IF instruction.opcode = "Jz" /\ accumulator # {} THEN ip + 1 ELSE Target
  /\ callStack' = IF instruction.opcode = "Call" THEN Append(callStack, ip) ELSE callStack
  /\ UNCHANGED <<accumulator, offset, valueStack, m_dedupe>>

Jump ==
  /\ Step({"Jmp", "Jz", "Call"})
  /\ ip' = IF instruction.opcode = "Jz" /\ accumulator # {} THEN ip + 1 ELSE Target
  /\ callStack' = IF instruction.opcode = "Call" THEN Append(callStack, ip + 1) ELSE callStack
  /\ UNCHANGED <<accumulator, offset, valueStack, m_dedupe>>

Return ==
  /\ Step({"Return"})
  /\ ip' = Last(callStack) /\ callStack' = Front(callStack)
  /\ UNCHANGED <<accumulator, offset, valueStack, m_dedupe>>

(* Columns in the order of their documents: the place of one is the number *)
(* of those below it.                                                      *)
DocIndex(c) == c[3] * c_bitsPerQuadword + c[4]
Ordered(columns) ==
  [i \in 1 .. Cardinality(columns) |->
     CHOOSE c \in columns :
       Cardinality({d \in columns : DocIndex(d) < DocIndex(c)}) = i - 1]

(* mutated form: the place of the iteration in the row is left out         *)
ColumnsOfIteration(dedupe, base) ==
  Ordered({<<shard, slice, d[1], d[2]>> : d \in dedupe})

(* At the end of the code the columns of this iteration go to the buffer.  *)
Columns(dedupe, base) ==
  Ordered({<<shard, slice, base + d[1], d[2]>> : d \in dedupe})

FinishIteration ==
  /\ pc = "run" /\ instruction.opcode = "End"
  /\ results' = results \o Columns(m_dedupe, Base)
  /\ m_dedupe' = {}
  /\ CASE iteration + 1 < Iterations ->
            /\ StartIteration(shard, slice, iteration + 1)
            /\ UNCHANGED <<pc, valueStack, callStack>>
       [] iteration + 1 >= Iterations /\ slice + 1 \in Slices(shard) ->
            /\ StartIteration(shard, slice + 1, 0)
            /\ UNCHANGED <<pc, valueStack, callStack>>
       [] iteration + 1 >= Iterations /\ slice + 1 \notin Slices(shard) ->
            /\ IF FirstShard(shard) # {}
               THEN StartIteration(Min(FirstShard(shard)), 1, 0) /\ UNCHANGED pc
               ELSE /\ pc' = "done"
                    /\ UNCHANGED <<position, ip, accumulator, offset>>
            /\ valueStack' = << >> /\ callStack' = << >>
  /\ UNCHANGED ever
  /\ Others

Interpret ==
  \/ Begin \/ ReadRow \/ MoveOffset \/ Push \/ Pop \/ UpdateFlags \/ LogicalNot
  \/ AddResult \/ Jump \/ Return \/ FinishIteration

Next ==
  \/ Interpret
  \/ AddPosting
  \/ Activate
  \/ \E c \in DeletableColumns : Expire(c)

Spec == Init /\ [][Next]_vars
FairSpec == Spec /\ WF_vars(Interpret)

-----------------------------------------------------------------------------
(* Results are ordered by slice and document, and nothing is reported      *)
(* twice though an Or reports the same column from both sides (AddResult   *)
(* and FinishIteration, m_dedupe).                                         *)
Before(c, d) ==
  \/ c[1] < d[1]
  \/ c[1] = d[1] /\ c[2] < d[2]
  \/ c[1] = d[1] /\ c[2] = d[2]
       /\ DocIndex(c) < DocIndex(d)

OnceInOrder ==
  \A i \in 1 .. Len(results) - 1 : Before(results[i], results[i + 1])

(* What the interpreter relies on: a row is read within its quadwords, a   *)
(* stack is not empty when it is popped or looked at, a report lies in the *)
(* current iteration (AddResult tests for 64, the most there can be), both *)
(* stacks are empty at the end of the code, with the offset back where it  *)
(* was.                                                                    *)
MachineSound ==
  pc = "run" =>
    /\ ip + 1 \in DOMAIN program.code
    /\ CASE instruction.opcode \in {"LoadRow", "AndRow"} ->
              /\ instruction.row + 1 \in DOMAIN plan.rows
              /\ RowOffset \in Quadwords(PhysicalRow[1])
         [] instruction.opcode \in {"Pop", "AndStack", "OrStack", "UpdateFlags"} ->
              valueStack # << >>
         [] instruction.opcode = "Return" -> callStack # << >>
         [] instruction.opcode = "Report" ->
              offset - Base \in 0 .. TwoTo[plan.initialRank] - 1
         [] instruction.opcode = "End" ->
              valueStack = << >> /\ callStack = << >> /\ offset = iteration
         [] OTHER -> TRUE

(* A query ends, if the thread that runs it is scheduled.                  *)
QueryEnds == <>(pc = "done")
=============================================================================
