----------------------------- MODULE TermTable -----------------------------
(***************************************************************************)
(* How a term table is built and sealed (src/src/Index/src:                *)
(* TermTableBuilder, TermTable, RowIdSequence): the terms of the document  *)
(* frequency table get explicit rows, private or shared with others, until *)
(* they are so rare that they are left to the adhoc rows, which are picked *)
(* by a hash.                                                              *)
(*                                                                         *)
(* Frequencies are integers here.  A RowId is <<rank, index>>; a           *)
(* PackedRowIdSequence is [start, end], as in the code from 0.  Terms are  *)
(* known by their hash: the system terms are 0, 1 and 2, and the terms of  *)
(* the frequency table are numbered on from there.  No facts are defined:  *)
(* nothing in the program does.                                            *)
(***************************************************************************)
EXTENDS Naturals, Sequences, FiniteSets

Sets == INSTANCE FiniteSetsExt

CONSTANTS
  c_maxRankValue,
  c_maxIdfX10Value,
  Frequency,          \* the frequencies of terms, and ...
  FrequencyAtRank,    \* ... for each of them and each rank, that of its row
  IdfX10,             \* of each frequency
  UnknownFrequency,   \* of a term of the maximal idf
  density,            \* of a row
  adhocFrequency,     \* below it terms are adhoc
  Treatments,         \* for each idf, entries [rank, rowCount]
  randomSkipDistance,
  MaxTerms            \* bound: the entries of the frequency table

Rank == 0 .. c_maxRankValue
Idf == 0 .. c_maxIdfX10Value
c_systemTerms == 3              \* SystemTerm::Count
c_minAdhocRowCount == 10
unknownTermMultiplier == 10

ASSUME TermTableAssumption ==
  /\ c_maxRankValue \in Nat /\ c_maxIdfX10Value \in Nat
  /\ Frequency \subseteq Nat /\ UnknownFrequency \in Frequency
  /\ FrequencyAtRank \in [Frequency -> [Rank -> Nat]]
  /\ IdfX10 \in [Frequency -> Idf]
  /\ density \in Nat \ {0} /\ adhocFrequency \in Nat
  /\ randomSkipDistance \in Nat /\ MaxTerms \in Nat
  /\ \A t \in Treatments :
       /\ t \in [Idf -> Seq([rank : Rank, rowCount : Nat \ {0}])]
       /\ \A idf \in Idf : \A i, j \in 1 .. Len(t[idf]) :
            t[idf][i].rank = t[idf][j].rank => i = j

VARIABLES
  treatment,
  terms,              \* the frequencies that have been read
  pc,
  todo,               \* the entries of the current configuration that are left
  currentBins,        \* the bins of the current entry, so far
  m_bins, m_currentRow, m_adhocTotal, m_unknownTotal, knownTerms,
                      \* of each RowAssigner
  m_start, m_rowIds, m_ranksInUse,
  m_termHashToRows, m_adhocTerms, m_adhocRows,
  m_explicitRowCounts, m_adhocRowCounts

assigners == <<m_bins, m_currentRow, m_adhocTotal, m_unknownTotal, knownTerms>>
recorded == <<m_start, m_rowIds, m_ranksInUse>>
maps == <<m_termHashToRows, m_adhocTerms, m_adhocRows>>
counts == <<m_explicitRowCounts, m_adhocRowCounts>>
vars == <<treatment, terms, pc, todo, currentBins, assigners, recorded, maps, counts>>

(* The constructors: the system terms come first, a row of rank 0 each.    *)
Init ==
  /\ treatment \in Treatments
  /\ terms = << >> /\ pc = "terms" /\ todo = << >> /\ currentBins = << >>
  /\ m_bins = [r \in Rank |-> {}]
  /\ m_currentRow = [r \in Rank |-> IF r = 0 THEN c_systemTerms ELSE 0]
  /\ m_adhocTotal = [r \in Rank |-> 0] /\ m_unknownTotal = [r \in Rank |-> 0]
  /\ knownTerms = [r \in Rank |-> 0]
  /\ m_start = 0
  /\ m_rowIds = [i \in 1 .. c_systemTerms |-> <<0, i - 1>>]
  /\ m_ranksInUse = {0}
  /\ m_termHashToRows = [h \in 0 .. c_systemTerms - 1 |-> [start |-> h, end |-> h + 1]]
  /\ m_adhocTerms = << >> /\ m_adhocRows = << >>
  /\ m_explicitRowCounts = [r \in Rank |-> IF r = 0 THEN c_systemTerms ELSE 0]
  /\ m_adhocRowCounts = [r \in Rank |-> 0]

-----------------------------------------------------------------------------
(* The next entry of the frequency table, which is sorted; a term of the   *)
(* maximal idf ends the loop.                                              *)
NextEntry(f) ==
  /\ pc = "terms" /\ Len(terms) < MaxTerms
  /\ terms # << >> => f <= terms[Len(terms)]
  /\ IdfX10[f] < c_maxIdfX10Value
  /\ terms' = Append(terms, f)
Hash(i) == c_systemTerms + i - 1
Configuration(f) == treatment[IdfX10[f]]
RowCount(configuration, r) ==
  IF \E i \in 1 .. Len(configuration) : configuration[i].rank = r
  THEN configuration[CHOOSE i \in 1 .. Len(configuration) :
                       configuration[i].rank = r].rowCount
  ELSE 0

AddAdhocTerm(f) ==
  /\ NextEntry(f) /\ f < adhocFrequency
  /\ m_adhocTotal' = [r \in Rank |-> m_adhocTotal[r]
                        + FrequencyAtRank[f][r] * RowCount(Configuration(f), r)]
  /\ knownTerms' = [r \in Rank |-> knownTerms[r]
                      + (IF RowCount(Configuration(f), r) > 0 THEN 1 ELSE 0)]
  /\ m_adhocTerms' = IF Configuration(f) = << >> THEN m_adhocTerms
                     ELSE [h \in DOMAIN m_adhocTerms \cup {Hash(Len(terms'))} |->
                             IF h = Hash(Len(terms')) THEN IdfX10[f] ELSE m_adhocTerms[h]]
  /\ UNCHANGED <<treatment, pc, todo, currentBins, m_bins, m_currentRow, m_unknownTotal,
                 recorded, m_termHashToRows, m_adhocRows, counts>>

OpenTerm(f) ==
  /\ NextEntry(f) /\ f >= adhocFrequency
  /\ pc' = "assign" /\ todo' = Configuration(f)
  /\ m_start' = Len(m_rowIds)
  /\ UNCHANGED <<treatment, currentBins, assigners, m_rowIds, m_ranksInUse, maps, counts>>

(* AssignExplicit: a private row if the term fills one ...                 *)
rank == Head(todo).rank
f_rank == FrequencyAtRank[terms[Len(terms)]][rank]
IsAssigning == pc = "assign" /\ todo # << >>

AddRowIds(rows) ==
  /\ m_rowIds' = m_rowIds \o rows
  /\ m_ranksInUse' = IF rows = << >> THEN m_ranksInUse ELSE m_ranksInUse \cup {rank}
  /\ todo' = Tail(todo)

AssignPrivate ==
  /\ IsAssigning /\ f_rank >= density
  /\ AddRowIds(<<<<rank, m_currentRow[rank]>>>>)
  /\ m_currentRow' = [m_currentRow EXCEPT ![rank] = @ + 1]
  /\ knownTerms' = [knownTerms EXCEPT ![rank] = @ + 1]
  /\ UNCHANGED <<treatment, terms, pc, currentBins, m_bins, m_adhocTotal, m_unknownTotal,
                 m_start, maps, counts>>

(* ... or bins, one after another.  m_bins is ordered by space and index,  *)
(* and lower_bound(Bin(f)) is asked for the first bin that is not smaller. *)
(* The constructor of Bin(f) leaves its index uninitialized: which of the  *)
(* bins with exactly the space f come before it is anybody's guess, each   *)
(* time that it is asked.  Bins are skipped by taking them out for a while.*)
Exact == {b \in m_bins[rank] : b.space = f_rank}
Larger == {b \in m_bins[rank] : b.space > f_rank}
Smaller(b, c) == b.space < c.space \/ (b.space = c.space /\ b.index < c.index)

MayFind(b, skip) ==
  \/ b \in Exact /\ skip < Cardinality(Exact) + Cardinality(Larger)
  \/ /\ b \in Larger
     /\ LET before == Cardinality({c \in Larger : Smaller(c, b)})
        IN  skip \in before .. before + Cardinality(Exact)
MayFindNone(skip) == skip >= Cardinality(Larger)

IsSharing ==
  /\ IsAssigning /\ f_rank < density
  /\ Len(currentBins) < Head(todo).rowCount

StartBin ==
  /\ IsSharing
  /\ \E skip \in 0 .. randomSkipDistance : MayFindNone(skip)
  /\ currentBins' = Append(currentBins, [space |-> density - f_rank,
                                         index |-> m_currentRow[rank]])
  /\ m_currentRow' = [m_currentRow EXCEPT ![rank] = @ + 1]
  /\ UNCHANGED <<treatment, terms, pc, todo, m_bins, m_adhocTotal, m_unknownTotal, knownTerms,
                 recorded, maps, counts>>

ReserveNothing(b) ==        \* mutated form: the space is not reserved
  /\ currentBins' = Append(currentBins, b)
  /\ m_bins' = [m_bins EXCEPT ![rank] = @ \ {b}]

(* A bin stays out of m_bins until the entry has all its bins, lest it is  *)
(* found again.                                                            *)
Reserve(b) ==
  /\ currentBins' = Append(currentBins, [b EXCEPT !.space = @ - f_rank])
  /\ m_bins' = [m_bins EXCEPT ![rank] = @ \ {b}]

FindBin ==
  /\ IsSharing
  /\ \E skip \in 0 .. randomSkipDistance, b \in m_bins[rank] : MayFind(b, skip) /\ Reserve(b)
  /\ UNCHANGED <<treatment, terms, pc, todo, m_currentRow, m_adhocTotal, m_unknownTotal,
                 knownTerms, recorded, maps, counts>>

AssignShared ==
  /\ IsAssigning /\ f_rank < density
  /\ Len(currentBins) = Head(todo).rowCount
  /\ AddRowIds([i \in 1 .. Len(currentBins) |-> <<rank, currentBins[i].index>>])
  /\ m_bins' = [m_bins EXCEPT ![rank] = @ \cup {currentBins[i] : i \in 1 .. Len(currentBins)}]
  /\ currentBins' = << >>
  /\ knownTerms' = [knownTerms EXCEPT ![rank] = @ + 1]
  /\ UNCHANGED <<treatment, terms, pc, m_currentRow, m_adhocTotal, m_unknownTotal, m_start,
                 maps, counts>>

Recorded == [start |-> m_start, end |-> Len(m_rowIds)]

CloseTerm ==
  /\ pc = "assign" /\ todo = << >> /\ pc' = "terms"
  /\ m_termHashToRows' = [h \in DOMAIN m_termHashToRows \cup {Hash(Len(terms))} |->
       IF h = Hash(Len(terms)) THEN Recorded ELSE m_termHashToRows[h]]
  /\ UNCHANGED <<treatment, terms, todo, currentBins, assigners, recorded, m_adhocTerms,
                 m_adhocRows, counts>>

-----------------------------------------------------------------------------
(* After the last term, AssignUnknown: there may be ten unknown terms for  *)
(* each known one of rank 0.                                               *)
AssignUnknown ==
  /\ pc = "terms" /\ pc' = "recipes"
  /\ m_unknownTotal' = [r \in Rank |->
       IF RowCount(treatment[c_maxIdfX10Value], r) > 0
       THEN FrequencyAtRank[UnknownFrequency][r] * knownTerms[0] * unknownTermMultiplier
       ELSE 0]
  /\ UNCHANGED <<treatment, terms, todo, currentBins, m_bins, m_currentRow, m_adhocTotal,
                 knownTerms, recorded, maps, counts>>

(* A recipe for each idf, the same for every gram size.                    *)
OpenRecipe ==
  /\ pc = "recipes" /\ Len(m_adhocRows) <= c_maxIdfX10Value
  /\ pc' = "recipe" /\ todo' = treatment[Len(m_adhocRows)]
  /\ m_start' = Len(m_rowIds)
  /\ UNCHANGED <<treatment, terms, currentBins, assigners, m_rowIds, m_ranksInUse, maps, counts>>

AddRecipeRows ==
  /\ pc = "recipe" /\ todo # << >>
  /\ AddRowIds([i \in 1 .. Head(todo).rowCount |-> <<rank, 0>>])
  /\ UNCHANGED <<treatment, terms, pc, currentBins, assigners, m_start, maps, counts>>

CloseAdhocTerm ==
  /\ pc = "recipe" /\ todo = << >> /\ pc' = "recipes"
  /\ m_adhocRows' = Append(m_adhocRows, Recorded)
  /\ UNCHANGED <<treatment, terms, todo, currentBins, assigners, recorded, m_termHashToRows,
                 m_adhocTerms, counts>>

-----------------------------------------------------------------------------
(* The row counts; a rank that is in use has some adhoc rows.              *)
Rows(total) == (total + density - 1) \div density       \* rounded up

GetAdhocRowCount(r) ==
  IF r \notin m_ranksInUse THEN 0
  ELSE IF Rows(m_adhocTotal[r] + m_unknownTotal[r]) > c_minAdhocRowCount
       THEN Rows(m_adhocTotal[r] + m_unknownTotal[r])
       ELSE c_minAdhocRowCount

SetRowCounts ==
  /\ pc = "recipes" /\ Len(m_adhocRows) = c_maxIdfX10Value + 1 /\ pc' = "seal"
  /\ m_explicitRowCounts' = m_currentRow
  /\ m_adhocRowCounts' = [r \in Rank |-> GetAdhocRowCount(r)]
  /\ UNCHANGED <<treatment, terms, todo, currentBins, assigners, recorded, maps>>

SealedAtEnd(p) ==           \* mutated form: the gap of the system rows stays
  LET row == m_rowIds[p]
      adhoc == m_adhocRowCounts[row[1]]
  IN  IF row[1] = 0 /\ p <= c_systemTerms
      THEN <<0, row[2] + adhoc + m_explicitRowCounts[0] - c_systemTerms>>
      ELSE <<row[1], row[2] + adhoc>>

(* Explicit rows follow the adhoc rows.  The system rows go to the end,    *)
(* and the others of rank 0 fill the gap.                                  *)
Sealed(p) ==
  LET row == m_rowIds[p]
      adhoc == m_adhocRowCounts[row[1]]
  IN  IF row[1] = 0
      THEN IF p <= c_systemTerms
           THEN <<0, row[2] + adhoc + m_explicitRowCounts[0] - c_systemTerms>>
           ELSE <<0, row[2] + adhoc - c_systemTerms>>
      ELSE <<row[1], row[2] + adhoc>>

Positions(packed) == packed.start + 1 .. packed.end
IsExplicit(p) == \E h \in DOMAIN m_termHashToRows : p \in Positions(m_termHashToRows[h])

Seal ==
  /\ pc = "seal" /\ pc' = "sealed"
  /\ m_rowIds' = [p \in 1 .. Len(m_rowIds) |-> IF IsExplicit(p) THEN Sealed(p)
                                               ELSE m_rowIds[p]]
  /\ UNCHANGED <<treatment, terms, todo, currentBins, assigners, m_start, m_ranksInUse, maps,
                 counts>>

Next ==
  \/ \E f \in Frequency : AddAdhocTerm(f) \/ OpenTerm(f)
  \/ AssignPrivate \/ StartBin \/ FindBin \/ AssignShared \/ CloseTerm
  \/ AssignUnknown \/ OpenRecipe \/ AddRecipeRows \/ CloseAdhocTerm
  \/ SetRowCounts \/ Seal

Spec == Init /\ [][Next]_vars

-----------------------------------------------------------------------------
(* The reader's methods.                                                   *)
GetTotalRowCount(r) ==
  m_adhocRowCounts[r] + m_explicitRowCounts[r] + (IF r = 0 THEN c_systemTerms ELSE 0)
GetRowIdFact(h) == <<0, h + m_adhocRowCounts[0] + m_explicitRowCounts[0] - c_systemTerms>>
GetIdf(h) == IF h \in DOMAIN m_adhocTerms THEN m_adhocTerms[h] ELSE c_maxIdfX10Value

(* The rows that GetRows and RowIdSequence find for a term, one set for    *)
(* each of its rows; an adhoc one is any that the hash may pick.           *)
AdhocRows(r) == {<<r, i>> : i \in 0 .. m_adhocRowCounts[r] - 1}
GetRows(h) ==
  IF h < c_systemTerms THEN <<{GetRowIdFact(h)}>>
  ELSE IF h \in DOMAIN m_termHashToRows
       THEN LET packed == m_termHashToRows[h]
            IN  [i \in 1 .. packed.end - packed.start |-> {m_rowIds[packed.start + i]}]
       ELSE LET packed == m_adhocRows[GetIdf(h) + 1]
            IN  [i \in 1 .. packed.end - packed.start |->
                   AdhocRows(m_rowIds[packed.start + i][1])]

-----------------------------------------------------------------------------
Explicit == {h \in DOMAIN m_termHashToRows : h >= c_systemTerms}
ExplicitRows(h) == {m_rowIds[p] : p \in Positions(m_termHashToRows[h])}
Holders(row) == {h \in Explicit : row \in ExplicitRows(h)}
TermFrequency(h) == terms[h - c_systemTerms + 1]

(* TermTableBuilder::RowAssigner::AssignExplicit, and TermTable::Seal that *)
(* moves its rows: the rows of an explicit term are different ones, and    *)
(* those who share a row set no more bits in it than the density allows,   *)
(* whatever bins were skipped.  Only a term that has a row for itself may  *)
(* fill it further.                                                        *)
WithinDensity ==
  \A h \in Explicit :
    /\ Cardinality(ExplicitRows(h)) = Cardinality(Positions(m_termHashToRows[h]))
    /\ \A row \in ExplicitRows(h) :
         \/ Holders(row) = {h}
         \/ LET Bits(g) == FrequencyAtRank[TermFrequency(g)][row[1]]
            IN  Sets!MapThenSumSet(Bits, Holders(row)) <= density

(* TermTable::Seal, GetRows and RowIdSequence: in the sealed table every   *)
(* row that is found for a term, in the table or not, is a row of the row  *)
(* table; the rows of the system terms are the ones that GetRowIdFact      *)
(* computes and no other term's, and no explicit row is an adhoc one.  A   *)
(* hash always has rows to pick from.                                      *)
Term == 0 .. Hash(Len(terms) + 1)        \* the last one is in no table
IsAdhoc(h) == h \notin DOMAIN m_termHashToRows

RowsApart ==
  pc = "sealed" =>
    /\ \A h \in Term : \A i \in DOMAIN GetRows(h) :
         /\ GetRows(h)[i] # {}
         /\ \A row \in GetRows(h)[i] : row[2] \in 0 .. GetTotalRowCount(row[1]) - 1
    /\ \A h \in 0 .. c_systemTerms - 1 : ExplicitRows(h) = GetRows(h)[1]
    /\ \A g, h \in Term :
         (g < c_systemTerms /\ g # h) \/ (IsAdhoc(g) /\ ~ IsAdhoc(h)) =>
           \A i \in DOMAIN GetRows(g), j \in DOMAIN GetRows(h) :
             GetRows(g)[i] \cap GetRows(h)[j] = {}
=============================================================================
