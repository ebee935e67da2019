-------------------------- MODULE TermTableProofs --------------------------
(***************************************************************************)
(* RowsApart and WithinDensity, for any ranks, frequencies, treatments and *)
(* density, tables of any length and any skipping of bins.                 *)
(*                                                                         *)
(* The invariant says where the indices of explicit rows lie before Seal   *)
(* and after it.  That the ranges of explicit terms and of recipes do not  *)
(* overlap is not needed: Seal keeps the rank of every row, and of a       *)
(* recipe nothing else is read.                                            *)
(*                                                                         *)
(* For the density it is strengthened: what a bin says about the space of  *)
(* its row is true while bins are found, kept back and put back, and until *)
(* Seal no row without a bin is shared.  The bits of a row are a sum over  *)
(* the terms that have it; the sums come first.                            *)
(***************************************************************************)
EXTENDS TermTable, FiniteSetTheorems, WellFoundedInduction, TLAPS

Entries == [rank : Rank, rowCount : Nat \ {0}]
Bin == [space : Nat, index : Nat]
Packed == [start : Nat, end : Nat]

Types ==
  /\ treatment \in Treatments
  /\ terms \in Seq(Frequency)
  /\ pc \in {"terms", "assign", "recipes", "recipe", "seal", "sealed"}
  /\ todo \in Seq(Entries)
  /\ m_currentRow \in [Rank -> Nat]
  /\ m_adhocTotal \in [Rank -> Nat] /\ m_unknownTotal \in [Rank -> Nat]
  /\ knownTerms \in [Rank -> Nat]
  /\ m_start \in Nat
  /\ m_rowIds \in Seq(Rank \X Nat)
  /\ m_ranksInUse \in SUBSET Rank
  /\ DOMAIN m_termHashToRows \subseteq Nat
  /\ \A h \in DOMAIN m_termHashToRows : m_termHashToRows[h] \in Packed
  /\ \A h \in DOMAIN m_adhocTerms : m_adhocTerms[h] \in Idf
  /\ m_adhocRows \in Seq(Packed)
  /\ pc = "assign" => terms # << >>

(* The rows of rank 0 that the system terms have are never handed out.     *)
Low(r) == IF r = 0 THEN c_systemTerms ELSE 0
Within(row, currentRow) == Low(row[1]) <= row[2] /\ row[2] < currentRow[row[1]]
Assigned(row) == Within(row, m_currentRow)

Bins ==
  /\ m_currentRow[0] >= c_systemTerms
  /\ m_bins \in [Rank -> SUBSET Bin]
  /\ \A r \in Rank : \A b \in m_bins[r] : Assigned(<<r, b.index>>)
  /\ currentBins \in Seq(Bin)
  /\ currentBins # << >> => IsAssigning /\ f_rank < density
  /\ \A i \in 1 .. Len(currentBins) : Assigned(<<rank, currentBins[i].index>>)

(* Whatever has been recorded stays within m_rowIds, and no explicit term  *)
(* has a position of a system term.                                        *)
Ranges ==
  /\ c_systemTerms <= Len(m_rowIds)
  /\ m_start <= Len(m_rowIds)
  /\ pc \in {"assign", "recipe"} => c_systemTerms <= m_start
  /\ \A p \in 1 .. Len(m_rowIds) : m_rowIds[p][1] \in m_ranksInUse
  /\ 0 \in m_ranksInUse
  /\ \A h \in 0 .. c_systemTerms - 1 :
       h \in DOMAIN m_termHashToRows /\ m_termHashToRows[h] = [start |-> h, end |-> h + 1]
  /\ \A h \in Explicit : /\ c_systemTerms <= m_termHashToRows[h].start
                         /\ m_termHashToRows[h].end <= Len(m_rowIds)
  /\ \A i \in 1 .. Len(m_adhocRows) : m_adhocRows[i].end <= Len(m_rowIds)

Counted ==
  pc \in {"seal", "sealed"} =>
    /\ Len(m_adhocRows) = c_maxIdfX10Value + 1
    /\ m_explicitRowCounts = m_currentRow
    /\ m_adhocRowCounts \in [Rank -> Nat]
    /\ \A r \in m_ranksInUse : m_adhocRowCounts[r] > 0

Relative ==
  pc # "sealed" =>
    /\ \A p \in 1 .. c_systemTerms : m_rowIds[p] = <<0, p - 1>>
    /\ \A h \in Explicit : \A p \in Positions(m_termHashToRows[h]) : Assigned(m_rowIds[p])
    /\ pc = "assign" => \A p \in m_start + 1 .. Len(m_rowIds) : Assigned(m_rowIds[p])

Absolute ==
  pc = "sealed" =>
    /\ \A h \in 0 .. c_systemTerms - 1 : m_rowIds[h + 1] = GetRowIdFact(h)
    /\ \A h \in Explicit : \A p \in Positions(m_termHashToRows[h]) :
         /\ m_adhocRowCounts[m_rowIds[p][1]] <= m_rowIds[p][2]
         /\ m_rowIds[p][2] + Low(m_rowIds[p][1])
              < m_adhocRowCounts[m_rowIds[p][1]] + m_explicitRowCounts[m_rowIds[p][1]]

Inv == Types /\ Bins /\ Ranges /\ Counted /\ Relative /\ Absolute

-----------------------------------------------------------------------------
LEMMA RanksAndIdfs ==
  /\ 0 \in Rank /\ Rank \subseteq Nat /\ Idf \subseteq Nat /\ c_maxIdfX10Value \in Idf
  /\ \A t \in Treatments : \A idf \in Idf : t[idf] \in Seq(Entries)
<1>1. 0 \in Rank /\ Rank \subseteq Nat /\ Idf \subseteq Nat /\ c_maxIdfX10Value \in Idf
  BY TermTableAssumption DEF TermTableAssumption, Rank, Idf
<1>2. \A t \in Treatments : t \in [Idf -> Seq(Entries)]
  BY TermTableAssumption DEF TermTableAssumption, Entries
<1>3. QED
  BY <1>1, <1>2

LEMMA RowCountIsNat ==
  ASSUME NEW configuration \in Seq(Entries), NEW r
  PROVE  RowCount(configuration, r) \in Nat
<1> DEFINE Has(i) == configuration[i].rank = r
           i == CHOOSE j \in 1 .. Len(configuration) : Has(j)
<1>1. CASE \E j \in 1 .. Len(configuration) : Has(j)
  <2>1. i \in 1 .. Len(configuration)
    BY <1>1
  <2>2. configuration[i] \in Entries
    BY <2>1
  <2>3. configuration[i].rowCount \in Nat
    BY <2>2 DEF Entries
  <2>4. QED
    BY <1>1, <2>3 DEF RowCount
<1>2. CASE ~ \E j \in 1 .. Len(configuration) : Has(j)
  BY <1>2 DEF RowCount
<1>3. QED
  BY <1>1, <1>2

LEMMA ProductIsNat ==
  ASSUME NEW a \in Nat, NEW b \in Nat
  PROVE  a * b \in Nat
OBVIOUS

LEMMA ConfigurationIsEntries ==
  ASSUME Types, NEW f \in Frequency
  PROVE  Configuration(f) \in Seq(Entries)
BY RanksAndIdfs, TermTableAssumption DEF Types, Configuration, TermTableAssumption

LEMMA Initially == Init => Inv
<1> SUFFICES ASSUME Init PROVE Inv
  OBVIOUS
<1>1. Types
  BY RanksAndIdfs DEF Init, Types, Packed, c_systemTerms
<1>2. Bins
  BY RanksAndIdfs DEF Init, Bins, c_systemTerms
<1>3. Ranges
  BY RanksAndIdfs DEF Init, Ranges, Explicit, c_systemTerms
<1>4. Counted /\ Absolute
  BY DEF Init, Counted, Absolute
<1>5. Relative
  BY DEF Init, Relative, Explicit, c_systemTerms
<1>6. QED
  BY <1>1, <1>2, <1>3, <1>4, <1>5 DEF Inv

-----------------------------------------------------------------------------
(* The steps that only read entries and count.                             *)
LEMMA AddAdhocTermHolds ==
  ASSUME Inv, NEW f \in Frequency, AddAdhocTerm(f)
  PROVE  Inv'
<1>1. \A r \in Rank : /\ FrequencyAtRank[f][r] * RowCount(Configuration(f), r) \in Nat
                      /\ IdfX10[f] \in Idf
  BY ConfigurationIsEntries, RowCountIsNat, ProductIsNat, TermTableAssumption
     DEF Inv, TermTableAssumption
<1>2. Types'
  <2>1. m_adhocTotal' \in [Rank -> Nat] /\ knownTerms' \in [Rank -> Nat]
    BY <1>1, SMTT(20) DEF Inv, Types, AddAdhocTerm
  <2>2. \A h \in DOMAIN m_adhocTerms' : m_adhocTerms'[h] \in Idf
    BY RanksAndIdfs, <1>1 DEF Inv, Types, AddAdhocTerm
  <2>3. terms' \in Seq(Frequency) /\ terms' # << >> /\ pc = "terms" /\ pc' = "terms"
    BY DEF Inv, Types, AddAdhocTerm, NextEntry
  <2>4. QED
    BY <2>1, <2>2, <2>3 DEF Inv, Types, AddAdhocTerm, recorded
<1>3. (Bins /\ Ranges /\ Counted /\ Relative /\ Absolute)'
  BY DEF Inv, Bins, Ranges, Counted, Relative, Absolute, AddAdhocTerm, NextEntry, recorded,
         counts, Assigned, IsAssigning, rank, f_rank, Explicit, Positions
<1>4. QED
  BY <1>2, <1>3 DEF Inv

LEMMA OpenTermHolds ==
  ASSUME Inv, NEW f \in Frequency, OpenTerm(f)
  PROVE  Inv'
<1>1. Types'
  BY ConfigurationIsEntries, SMTT(20) DEF Inv, Types, OpenTerm, NextEntry, assigners, maps
<1>2. Bins'
  BY DEF Inv, Bins, OpenTerm, NextEntry, assigners, Assigned, IsAssigning
<1>3. Ranges'
  <2>1. /\ m_start' = Len(m_rowIds) /\ Len(m_rowIds) \in Nat
        /\ UNCHANGED <<m_rowIds, m_ranksInUse, m_termHashToRows, m_adhocRows>>
    BY DEF Inv, Types, OpenTerm, maps
  <2>2. c_systemTerms <= m_start' /\ m_start' <= Len(m_rowIds')
    BY <2>1 DEF Inv, Ranges, c_systemTerms
  <2>3. QED
    BY <2>1, <2>2 DEF Inv, Ranges, Explicit
<1>4. (Counted /\ Absolute)'
  BY DEF Counted, Absolute, OpenTerm
<1>5. Relative'
  <2>1. /\ pc = "terms" /\ m_start' = Len(m_rowIds) /\ Len(m_rowIds) \in Nat
        /\ UNCHANGED <<m_rowIds, m_currentRow, m_termHashToRows>>
    BY DEF Inv, Types, OpenTerm, NextEntry, assigners, maps
  <2>2. QED
    BY <2>1 DEF Inv, Relative, Assigned, Explicit, Positions
<1>6. QED
  BY <1>1, <1>2, <1>3, <1>4, <1>5 DEF Inv

LEMMA CloseTermHolds ==
  ASSUME Inv, CloseTerm
  PROVE  Inv'
<1> DEFINE here == Hash(Len(terms))
<1>1. here \in Nat /\ here >= c_systemTerms /\ Recorded \in Packed
  BY DEF Inv, Types, CloseTerm, Hash, Recorded, Packed, c_systemTerms
<1>2. /\ DOMAIN m_termHashToRows' = DOMAIN m_termHashToRows \cup {here}
      /\ m_termHashToRows'[here] = Recorded
      /\ \A h \in DOMAIN m_termHashToRows : h # here =>
           m_termHashToRows'[h] = m_termHashToRows[h]
  BY DEF CloseTerm
<1>3. \A h \in Explicit' : h = here \/ (h \in Explicit /\ h # here)
  BY <1>2 DEF Explicit
<1> HIDE DEF here
<1>4. Types'
  BY <1>1, <1>2 DEF Inv, Types, CloseTerm, assigners, recorded
<1>5. Bins'
  BY DEF Inv, Bins, CloseTerm, assigners, Assigned, IsAssigning
<1>6. Ranges'
  <2>1. \A h \in 0 .. c_systemTerms - 1 : h # here
    BY <1>1 DEF c_systemTerms
  <2>2. \A h \in Explicit' : /\ c_systemTerms <= m_termHashToRows'[h].start
                             /\ m_termHashToRows'[h].end <= Len(m_rowIds)
    BY <1>2, <1>3 DEF Inv, Types, Ranges, CloseTerm, Recorded, Explicit
  <2>3. QED
    BY <1>2, <2>1, <2>2 DEF Inv, Ranges, CloseTerm, recorded
<1>7. (Counted /\ Absolute)'
  BY DEF Counted, Absolute, CloseTerm
<1>8. Relative'
  <2>1. \A p \in Positions(Recorded) : Assigned(m_rowIds[p])
    BY DEF Inv, Relative, CloseTerm, Recorded, Positions
  <2>2. \A h \in Explicit' : \A p \in Positions(m_termHashToRows'[h]) : Assigned(m_rowIds[p])
    BY <1>2, <1>3, <2>1 DEF Inv, Relative, CloseTerm, Explicit
  <2>3. QED
    BY <2>2 DEF Inv, Relative, CloseTerm, assigners, recorded, Assigned, Positions
<1>9. QED
  BY <1>4, <1>5, <1>6, <1>7, <1>8 DEF Inv

-----------------------------------------------------------------------------
(* Rows are only added at the end of m_rowIds.                             *)
LEMMA RankIsRank ==
  ASSUME Types, todo # << >>
  PROVE  /\ rank \in Rank /\ Head(todo) \in Entries /\ Tail(todo) \in Seq(Entries)
         /\ Head(todo).rowCount \in Nat
<1>1. Head(todo) \in Entries /\ Tail(todo) \in Seq(Entries)
  BY DEF Types
<1>2. QED
  BY <1>1 DEF rank, Entries

LEMMA FrequencyIsNat ==
  ASSUME Types, pc = "assign", todo # << >>
  PROVE  f_rank \in Nat /\ density \in Nat
<1>1. terms[Len(terms)] \in Frequency
  BY DEF Types
<1>2. QED
  BY <1>1, RankIsRank, TermTableAssumption DEF f_rank, TermTableAssumption

LEMMA AddRowIdsHolds ==
  ASSUME Inv, NEW rows \in Seq({rank} \X Nat), AddRowIds(rows),
         pc \in {"assign", "recipe"}, todo # << >>,
         UNCHANGED <<pc, m_start, maps>>
  PROVE  /\ m_rowIds' \in Seq(Rank \X Nat) /\ m_ranksInUse' \in SUBSET Rank
         /\ todo' \in Seq(Entries)
         /\ Len(m_rowIds') = Len(m_rowIds) + Len(rows)
         /\ \A p \in 1 .. Len(m_rowIds) : m_rowIds'[p] = m_rowIds[p]
         /\ \A p \in Len(m_rowIds) + 1 .. Len(m_rowIds') :
              \E i \in 1 .. Len(rows) : m_rowIds'[p] = rows[i]
         /\ Ranges'
<1> DEFINE r == rank
<1>1. r \in Rank
  BY RankIsRank DEF Inv
<1>2. m_rowIds \in Seq(Rank \X Nat) /\ todo \in Seq(Entries) /\ m_ranksInUse \in SUBSET Rank
  BY DEF Inv, Types
<1>3. /\ m_rowIds' = m_rowIds \o rows /\ todo' = Tail(todo)
      /\ m_ranksInUse' = IF rows = << >> THEN m_ranksInUse ELSE m_ranksInUse \cup {r}
  BY DEF AddRowIds
<1>4. rows \in Seq({r} \X Nat)
  OBVIOUS
<1> HIDE DEF r
<1>5. m_rowIds' \in Seq(Rank \X Nat) /\ m_ranksInUse' \in SUBSET Rank
  <2>1. rows \in Seq(Rank \X Nat)
    BY <1>1, <1>4
  <2>2. QED
    BY <1>1, <1>2, <1>3, <2>1
<1>6. todo' \in Seq(Entries)
  BY <1>2, <1>3
<1>7. Len(m_rowIds') = Len(m_rowIds) + Len(rows)
  BY <1>2, <1>3, <1>4
<1>8. \A p \in 1 .. Len(m_rowIds) : m_rowIds'[p] = m_rowIds[p]
  BY <1>2, <1>3, <1>4
<1>9. \A p \in Len(m_rowIds) + 1 .. Len(m_rowIds') :
        p - Len(m_rowIds) \in 1 .. Len(rows) /\ m_rowIds'[p] = rows[p - Len(m_rowIds)]
  BY <1>2, <1>3, <1>4, <1>7
<1>10. Ranges'
  <2>1. \A p \in 1 .. Len(m_rowIds') : m_rowIds'[p][1] \in m_ranksInUse'
    <3> SUFFICES ASSUME NEW p \in 1 .. Len(m_rowIds')
                 PROVE  m_rowIds'[p][1] \in m_ranksInUse'
      OBVIOUS
    <3>1. CASE p \in 1 .. Len(m_rowIds)
      BY <3>1, <1>3, <1>8 DEF Inv, Ranges
    <3>2. CASE p \in Len(m_rowIds) + 1 .. Len(m_rowIds')
      BY <3>2, <1>3, <1>4, <1>9
    <3>3. QED
      BY <1>2, <3>1, <3>2
  <2>2. Len(m_rowIds) <= Len(m_rowIds') /\ Len(m_rowIds) \in Nat /\ Len(m_rowIds') \in Nat
    BY <1>2, <1>4, <1>5, <1>7
  <2>3. \A h \in Explicit' : /\ c_systemTerms <= m_termHashToRows'[h].start
                             /\ m_termHashToRows'[h].end <= Len(m_rowIds')
    BY <2>2 DEF Inv, Types, Ranges, maps, Explicit, Packed
  <2>4. \A i \in 1 .. Len(m_adhocRows') : m_adhocRows'[i].end <= Len(m_rowIds')
    <3>1. m_adhocRows' = m_adhocRows /\ m_adhocRows \in Seq(Packed)
      BY DEF Inv, Types, maps
    <3>2. \A i \in 1 .. Len(m_adhocRows) :
            m_adhocRows[i].end \in Nat /\ m_adhocRows[i].end <= Len(m_rowIds)
      <4> TAKE i \in 1 .. Len(m_adhocRows)
      <4>1. m_adhocRows[i] \in Packed
        BY <3>1
      <4>2. m_adhocRows[i].end \in Nat
        BY <4>1 DEF Packed
      <4>3. QED
        BY <4>2 DEF Inv, Ranges
    <3>3. QED
      BY <2>2, <3>1, <3>2
  <2>5. c_systemTerms <= Len(m_rowIds') /\ m_start' <= Len(m_rowIds')
    <3>1. c_systemTerms <= Len(m_rowIds) /\ m_start <= Len(m_rowIds)
      BY DEF Inv, Ranges
    <3>2. m_start \in Nat /\ m_start' = m_start
      BY DEF Inv, Types
    <3>3. QED
      BY <2>2, <3>1, <3>2 DEF c_systemTerms
  <2>6. 0 \in m_ranksInUse'
    BY <1>3 DEF Inv, Ranges
  <2>7. /\ pc' \in {"assign", "recipe"} => c_systemTerms <= m_start'
        /\ \A h \in 0 .. c_systemTerms - 1 :
             h \in DOMAIN m_termHashToRows' /\ m_termHashToRows'[h] = [start |-> h, end |-> h + 1]
    BY DEF Inv, Ranges, maps
  <2>8. QED
    BY <2>1, <2>3, <2>4, <2>5, <2>6, <2>7 DEF Ranges
<1>11. QED
  BY <1>5, <1>6, <1>7, <1>8, <1>9, <1>10

CurrentRowsGrow ==
  /\ m_currentRow' \in [Rank -> Nat]
  /\ \A r \in Rank : m_currentRow[r] <= m_currentRow'[r]

LEMMA AssignedStays ==
  ASSUME Types, CurrentRowsGrow, NEW row \in Rank \X Nat, Assigned(row)
  PROVE  Within(row, m_currentRow')
<1>1. PICK r \in Rank, i \in Nat : row = <<r, i>>
  OBVIOUS
<1>2. m_currentRow[r] \in Nat /\ m_currentRow'[r] \in Nat /\ m_currentRow[r] <= m_currentRow'[r]
  BY DEF Types, CurrentRowsGrow
<1>3. QED
  BY <1>1, <1>2 DEF Assigned, Within

LEMMA LowIsLow ==
  ASSUME Inv, NEW r \in Rank
  PROVE  Low(r) \in Nat /\ Low(r) <= m_currentRow[r]
<1>1. m_currentRow[r] \in Nat /\ m_currentRow[0] >= c_systemTerms
  BY DEF Inv, Types, Bins
<1>2. QED
  BY <1>1 DEF Low, c_systemTerms

LEMMA ExplicitWithin ==
  ASSUME Inv, NEW h \in Explicit, NEW p \in Positions(m_termHashToRows[h])
  PROVE  p \in c_systemTerms + 1 .. Len(m_rowIds) /\ p \in 1 .. Len(m_rowIds)
<1>1. m_termHashToRows[h] \in Packed /\ Len(m_rowIds) \in Nat
  BY DEF Inv, Types, Explicit
<1>2. QED
  BY <1>1 DEF Inv, Ranges, Packed, Positions, c_systemTerms

LEMMA BinsGrow ==
  ASSUME Inv, CurrentRowsGrow
  PROVE  /\ m_currentRow'[0] >= c_systemTerms
         /\ \A r \in Rank : \A b \in m_bins[r] : Within(<<r, b.index>>, m_currentRow')
         /\ IsAssigning => \A i \in 1 .. Len(currentBins) :
                             Within(<<rank, currentBins[i].index>>, m_currentRow')
<1>1. \A r \in Rank : \A b \in m_bins[r] : Within(<<r, b.index>>, m_currentRow')
  <2> TAKE r \in Rank
  <2> TAKE b \in m_bins[r]
  <2>1. b \in Bin
    BY DEF Inv, Bins
  <2>2. <<r, b.index>> \in Rank \X Nat
    BY <2>1 DEF Bin
  <2>3. Assigned(<<r, b.index>>)
    BY DEF Inv, Bins
  <2>4. QED
    BY <2>2, <2>3, AssignedStays DEF Inv
<1>2. m_currentRow'[0] >= c_systemTerms
  BY RanksAndIdfs DEF Inv, Types, Bins, CurrentRowsGrow, c_systemTerms
<1>3. ASSUME IsAssigning, NEW i \in 1 .. Len(currentBins)
      PROVE  Within(<<rank, currentBins[i].index>>, m_currentRow')
  <2>1. rank \in Rank
    BY <1>3, RankIsRank DEF Inv, IsAssigning
  <2>2. currentBins[i] \in Bin
    BY DEF Inv, Bins
  <2>3. <<rank, currentBins[i].index>> \in Rank \X Nat
    BY <2>1, <2>2 DEF Bin
  <2>4. Assigned(<<rank, currentBins[i].index>>)
    BY DEF Inv, Bins
  <2>5. QED
    BY <2>3, <2>4, AssignedStays DEF Inv
<1>4. QED
  BY <1>1, <1>2, <1>3

LEMMA RelativeStays ==
  ASSUME Inv, CurrentRowsGrow, UNCHANGED <<pc, recorded, maps>>
  PROVE  Relative'
<1>1. \A p \in 1 .. Len(m_rowIds) : Assigned(m_rowIds[p]) => Within(m_rowIds[p], m_currentRow')
  <2> TAKE p \in 1 .. Len(m_rowIds)
  <2>1. m_rowIds[p] \in Rank \X Nat
    BY DEF Inv, Types
  <2>2. QED
    BY <2>1, AssignedStays DEF Inv
<1>2. \A h \in Explicit : \A p \in Positions(m_termHashToRows[h]) : p \in 1 .. Len(m_rowIds)
  BY ExplicitWithin
<1>3. \A p \in m_start + 1 .. Len(m_rowIds) : p \in 1 .. Len(m_rowIds)
  BY DEF Inv, Types
<1>4. QED
  BY <1>1, <1>2, <1>3 DEF Inv, Relative, Assigned, recorded, maps, Explicit, Positions

(* The rows that an explicit entry adds.                                   *)
LEMMA AddExplicitHolds ==
  ASSUME Inv, NEW rows \in Seq({rank} \X Nat), AddRowIds(rows),
         pc = "assign", todo # << >>,
         UNCHANGED <<pc, m_start, maps>>,
         CurrentRowsGrow, \A i \in 1 .. Len(rows) : Within(rows[i], m_currentRow')
  PROVE  Relative'
<1>1. /\ \A p \in 1 .. Len(m_rowIds) : m_rowIds'[p] = m_rowIds[p]
      /\ \A p \in Len(m_rowIds) + 1 .. Len(m_rowIds') :
           \E i \in 1 .. Len(rows) : m_rowIds'[p] = rows[i]
      /\ Len(m_rowIds') = Len(m_rowIds) + Len(rows)
  BY AddRowIdsHolds
<1>2. /\ m_rowIds \in Seq(Rank \X Nat) /\ Len(m_rowIds) \in Nat /\ Len(rows) \in Nat
      /\ c_systemTerms <= Len(m_rowIds) /\ m_start \in Nat
  BY DEF Inv, Types, Ranges
<1>3. \A p \in 1 .. Len(m_rowIds) : Assigned(m_rowIds[p]) => Within(m_rowIds'[p], m_currentRow')
  BY <1>1, <1>2, AssignedStays DEF Inv
<1>4. \A p \in 1 .. c_systemTerms : m_rowIds'[p] = <<0, p - 1>>
  BY <1>1, <1>2, SMTT(20) DEF Inv, Relative, c_systemTerms
<1>5. \A h \in Explicit : \A p \in Positions(m_termHashToRows[h]) :
        Within(m_rowIds'[p], m_currentRow')
  <2> TAKE h \in Explicit
  <2> TAKE p \in Positions(m_termHashToRows[h])
  <2>1. p \in 1 .. Len(m_rowIds)
    BY ExplicitWithin
  <2>2. QED
    BY <1>3, <2>1 DEF Inv, Relative
<1>6. \A p \in m_start + 1 .. Len(m_rowIds') : Within(m_rowIds'[p], m_currentRow')
  <2> TAKE p \in m_start + 1 .. Len(m_rowIds')
  <2>1. CASE p \in m_start + 1 .. Len(m_rowIds)
    BY <1>2, <1>3, <2>1 DEF Inv, Relative
  <2>2. CASE p \in Len(m_rowIds) + 1 .. Len(m_rowIds')
    BY <1>1, <2>2
  <2>3. QED
    BY <1>1, <1>2, <2>1, <2>2
<1>7. QED
  BY <1>4, <1>5, <1>6 DEF Relative, Assigned, maps, Explicit, Positions

LEMMA AssignPrivateHolds ==
  ASSUME Inv, AssignPrivate
  PROVE  Inv'
<1> DEFINE row == <<rank, m_currentRow[rank]>>
           rows == <<row>>
<1>1. /\ rank \in Rank /\ m_currentRow \in [Rank -> Nat] /\ m_currentRow[rank] \in Nat
      /\ Low(rank) <= m_currentRow[rank]
  BY RankIsRank, LowIsLow DEF Inv, Types, AssignPrivate, IsAssigning
<1>2. /\ pc = "assign" /\ todo # << >> /\ AddRowIds(rows)
      /\ UNCHANGED <<treatment, terms, pc, m_start, maps, m_bins, currentBins>>
      /\ m_currentRow' = [m_currentRow EXCEPT ![rank] = @ + 1]
  BY DEF AssignPrivate, IsAssigning
<1>3. rows \in Seq({rank} \X Nat) /\ Len(rows) = 1 /\ rows[1] = row
  BY <1>1
<1>4. CurrentRowsGrow /\ Within(row, m_currentRow')
  BY <1>1, <1>2 DEF CurrentRowsGrow, Within
<1>5. currentBins = << >>
  <2>1. f_rank >= density /\ f_rank \in Nat /\ density \in Nat
    BY FrequencyIsNat DEF Inv, AssignPrivate, IsAssigning, Types
  <2>2. QED
    BY <2>1 DEF Inv, Bins
<1> HIDE DEF rows, row
<1>6. Ranges' /\ m_rowIds' \in Seq(Rank \X Nat) /\ m_ranksInUse' \in SUBSET Rank
      /\ todo' \in Seq(Entries)
  BY <1>2, <1>3, AddRowIdsHolds
<1>7. Relative'
  <2>1. \A i \in 1 .. Len(rows) : Within(rows[i], m_currentRow')
    BY <1>3, <1>4
  <2>2. QED
    BY <1>2, <1>3, <1>4, <2>1, AddExplicitHolds
<1>8. Types'
  <2>1. m_adhocTotal' \in [Rank -> Nat] /\ m_unknownTotal' \in [Rank -> Nat]
        /\ knownTerms' \in [Rank -> Nat] /\ m_currentRow' \in [Rank -> Nat]
    BY <1>4 DEF Inv, Types, AssignPrivate, CurrentRowsGrow
  <2>2. QED
    BY <1>2, <1>6, <2>1 DEF Inv, Types, maps
<1>9. Bins'
  <2>1. /\ m_currentRow'[0] >= c_systemTerms
        /\ \A r \in Rank : \A b \in m_bins[r] : Within(<<r, b.index>>, m_currentRow')
    BY <1>4, BinsGrow
  <2>2. m_bins' = m_bins /\ currentBins' = << >>
    BY <1>2, <1>5
  <2>3. QED
    BY <2>1, <2>2 DEF Inv, Bins, Assigned
<1>10. (Counted /\ Absolute)'
  BY <1>2 DEF Counted, Absolute
<1>11. QED
  BY <1>6, <1>7, <1>8, <1>9, <1>10 DEF Inv

-----------------------------------------------------------------------------
LEMMA StartBinHolds ==
  ASSUME Inv, StartBin
  PROVE  Inv'
<1> DEFINE r == rank
           bin == [space |-> density - f_rank, index |-> m_currentRow[r]]
<1>1. /\ r \in Rank /\ m_currentRow \in [Rank -> Nat] /\ m_currentRow[r] \in Nat
      /\ Low(r) \in Nat /\ Low(r) <= m_currentRow[r]
  BY RankIsRank, LowIsLow DEF Inv, Types, StartBin, IsSharing, IsAssigning
<1>2. /\ currentBins' = Append(currentBins, bin)
      /\ m_currentRow' = [m_currentRow EXCEPT ![r] = @ + 1]
      /\ IsAssigning /\ f_rank < density
      /\ UNCHANGED <<treatment, terms, pc, todo, m_bins, m_adhocTotal, m_unknownTotal,
                     knownTerms, recorded, maps, counts>>
  BY DEF StartBin, IsSharing
<1>3. f_rank \in Nat /\ density \in Nat
  BY <1>2, FrequencyIsNat DEF Inv, IsAssigning
<1>4. r' = r /\ (f_rank < density)' /\ IsAssigning'
  BY <1>2 DEF rank, f_rank, IsAssigning
<1>5. bin \in Bin
  BY <1>1, <1>2, <1>3 DEF Bin
<1>6. CurrentRowsGrow /\ Within(<<r, bin.index>>, m_currentRow')
  BY <1>1, <1>2 DEF CurrentRowsGrow, Within
<1>7. Bins'
  <2>1. /\ m_currentRow'[0] >= c_systemTerms
        /\ \A s \in Rank : \A b \in m_bins'[s] : Within(<<s, b.index>>, m_currentRow')
    BY <1>2, <1>6, BinsGrow DEF Inv
  <2>2. currentBins \in Seq(Bin)
        /\ \A i \in 1 .. Len(currentBins) : Within(<<r, currentBins[i].index>>, m_currentRow')
    BY <1>6, BinsGrow DEF Inv, Bins, IsAssigning
  <2> HIDE DEF r, bin
  <2>3. currentBins' \in Seq(Bin)
    BY <1>2, <1>5, <2>2
  <2>4. \A i \in 1 .. Len(currentBins') : Within(<<r, currentBins'[i].index>>, m_currentRow')
    <3> TAKE i \in 1 .. Len(currentBins')
    <3>1. CASE i \in 1 .. Len(currentBins)
      <4>1. currentBins'[i] = currentBins[i]
        BY <1>2, <2>2, <3>1
      <4>2. QED
        BY <2>2, <3>1, <4>1
    <3>2. CASE i \notin 1 .. Len(currentBins)
      <4>1. currentBins'[i] = bin
        BY <1>2, <2>2, <3>2
      <4>2. QED
        BY <1>6, <4>1
    <3>3. QED
      BY <3>1, <3>2
  <2> USE DEF r
  <2>5. \A i \in 1 .. Len(currentBins') : Assigned(<<rank, currentBins[i].index>>)'
    BY <1>4, <2>4 DEF Assigned
  <2>6. QED
    BY <1>2, <1>4, <2>1, <2>3, <2>5 DEF Inv, Bins, Assigned
<1>8. Types' /\ Ranges'
  BY <1>2, <1>6 DEF Inv, Types, Ranges, CurrentRowsGrow, recorded, maps, Explicit
<1>9. Relative'
  BY <1>2, <1>6, RelativeStays
<1>10. (Counted /\ Absolute)'
  BY <1>2 DEF Counted, Absolute, IsAssigning
<1>11. QED
  BY <1>7, <1>8, <1>9, <1>10 DEF Inv

LEMMA FoundBinHasSpace ==
  ASSUME Inv, IsSharing, NEW b \in m_bins[rank], NEW skip, MayFind(b, skip)
  PROVE  b \in Bin /\ b.space >= f_rank /\ f_rank \in Nat
<1>1. rank \in Rank /\ f_rank \in Nat
  BY RankIsRank, FrequencyIsNat DEF Inv, IsSharing, IsAssigning
<1>2. b \in Bin
  BY <1>1 DEF Inv, Bins
<1>3. b.space >= f_rank
  BY <1>1, <1>2 DEF MayFind, Exact, Larger, Bin
<1>4. QED
  BY <1>1, <1>2, <1>3

LEMMA FindBinHolds ==
  ASSUME Inv, FindBin
  PROVE  Inv'
<1> DEFINE r == rank
<1>1. PICK b \in m_bins[rank] : /\ \E skip \in 0 .. randomSkipDistance : MayFind(b, skip)
                                /\ Reserve(b)
  BY DEF FindBin
<1> DEFINE bin == [b EXCEPT !.space = @ - f_rank]
<1>2. /\ currentBins' = Append(currentBins, bin)
      /\ m_bins' = [m_bins EXCEPT ![r] = @ \ {b}]
      /\ IsSharing /\ IsAssigning /\ f_rank < density
      /\ UNCHANGED <<treatment, terms, pc, todo, m_currentRow, m_adhocTotal, m_unknownTotal,
                     knownTerms, recorded, maps, counts>>
  BY <1>1 DEF FindBin, Reserve, IsSharing
<1>3. r \in Rank /\ b \in Bin /\ b.space >= f_rank /\ f_rank \in Nat
  BY <1>1, <1>2, FoundBinHasSpace, RankIsRank DEF Inv, IsAssigning
<1>4. r' = r /\ (f_rank < density)' /\ IsAssigning'
  BY <1>2 DEF rank, f_rank, IsAssigning
<1>5. bin \in Bin /\ bin.index = b.index
  BY <1>3 DEF Bin
<1>6. Assigned(<<r, b.index>>)
  BY <1>1, <1>3 DEF Inv, Bins
<1>7. Bins'
  <2> HIDE DEF bin
  <2>1. /\ m_bins' \in [Rank -> SUBSET Bin]
        /\ \A s \in Rank : m_bins'[s] \subseteq m_bins[s]
    BY <1>2, <1>3 DEF Inv, Bins
  <2>2. currentBins' \in Seq(Bin)
    BY <1>2, <1>5 DEF Inv, Bins
  <2>3. \A i \in 1 .. Len(currentBins') : Assigned(<<r, currentBins'[i].index>>)
    BY <1>2, <1>5, <1>6 DEF Inv, Bins
  <2>4. \A i \in 1 .. Len(currentBins') : Assigned(<<rank, currentBins[i].index>>)'
    BY <1>2, <1>4, <2>3 DEF Assigned
  <2>5. QED
    BY <1>2, <1>4, <2>1, <2>2, <2>4 DEF Inv, Bins, Assigned
<1>8. Types' /\ Ranges'
  BY <1>2 DEF Inv, Types, Ranges, recorded, maps, Explicit
<1>9. Relative'
  BY <1>2 DEF Inv, Relative, recorded, maps, Explicit, Assigned, Positions
<1>10. (Counted /\ Absolute)'
  BY <1>2 DEF Counted, Absolute, IsAssigning
<1>11. QED
  BY <1>7, <1>8, <1>9, <1>10 DEF Inv

LEMMA AssignSharedHolds ==
  ASSUME Inv, AssignShared
  PROVE  Inv'
<1> DEFINE r == rank
           rows == [i \in 1 .. Len(currentBins) |-> <<r, currentBins[i].index>>]
           bins == {currentBins[i] : i \in 1 .. Len(currentBins)}
<1>1. /\ pc = "assign" /\ todo # << >> /\ AddRowIds(rows)
      /\ UNCHANGED <<treatment, terms, pc, m_start, maps, m_currentRow>>
      /\ m_bins' = [m_bins EXCEPT ![r] = @ \cup bins] /\ currentBins' = << >>
  BY DEF AssignShared, IsAssigning
<1>2. r \in Rank
  BY <1>1, RankIsRank DEF Inv
<1>3. /\ currentBins \in Seq(Bin)
      /\ \A i \in 1 .. Len(currentBins) :
           currentBins[i] \in Bin /\ Assigned(<<r, currentBins[i].index>>)
  BY DEF Inv, Bins
<1>4. rows \in Seq({rank} \X Nat) /\ Len(rows) = Len(currentBins)
      /\ \A i \in 1 .. Len(rows) : rows[i] = <<r, currentBins[i].index>>
  <2>1. \A i \in 1 .. Len(currentBins) : currentBins[i].index \in Nat
    BY <1>3 DEF Bin
  <2>2. QED
    BY <1>3, <2>1
<1>5. CurrentRowsGrow
  BY <1>1 DEF Inv, Types, CurrentRowsGrow
<1>6. \A i \in 1 .. Len(rows) : Within(rows[i], m_currentRow')
  BY <1>1, <1>3, <1>4 DEF Assigned
<1>7. bins \in SUBSET Bin /\ \A b \in bins : Assigned(<<r, b.index>>)
  BY <1>3
<1> HIDE DEF rows, bins
<1>8. Ranges' /\ m_rowIds' \in Seq(Rank \X Nat) /\ m_ranksInUse' \in SUBSET Rank
      /\ todo' \in Seq(Entries)
  BY <1>1, <1>4, AddRowIdsHolds
<1>9. Relative'
  BY <1>1, <1>4, <1>5, <1>6, AddExplicitHolds
<1>10. Types'
  <2>1. m_adhocTotal' \in [Rank -> Nat] /\ m_unknownTotal' \in [Rank -> Nat]
        /\ knownTerms' \in [Rank -> Nat]
    BY <1>2, SMTT(20) DEF Inv, Types, AssignShared
  <2>2. QED
    BY <1>1, <1>8, <2>1 DEF Inv, Types, maps
<1>11. Bins'
  <2>1. /\ m_bins' \in [Rank -> SUBSET Bin]
        /\ \A s \in Rank : \A b \in m_bins'[s] : Assigned(<<s, b.index>>)
    BY <1>1, <1>2, <1>7 DEF Inv, Bins
  <2>2. QED
    BY <1>1, <2>1 DEF Inv, Bins, Assigned
<1>12. (Counted /\ Absolute)'
  BY <1>1 DEF Counted, Absolute
<1>13. QED
  BY <1>8, <1>9, <1>10, <1>11, <1>12 DEF Inv

-----------------------------------------------------------------------------
LEMMA AssignUnknownHolds ==
  ASSUME Inv, AssignUnknown
  PROVE  Inv'
<1>1. \A r \in Rank :
        FrequencyAtRank[UnknownFrequency][r] * knownTerms[0] * unknownTermMultiplier \in Nat
  <2> TAKE r \in Rank
  <2>1. FrequencyAtRank[UnknownFrequency][r] \in Nat /\ knownTerms[0] \in Nat
    BY RanksAndIdfs, TermTableAssumption DEF Inv, Types, TermTableAssumption
  <2>2. FrequencyAtRank[UnknownFrequency][r] * knownTerms[0] \in Nat
    BY <2>1, ProductIsNat
  <2>3. QED
    BY <2>2 DEF unknownTermMultiplier
<1>2. Types'
  <2>1. m_unknownTotal' \in [Rank -> Nat]
    BY <1>1 DEF AssignUnknown
  <2>2. QED
    BY <2>1 DEF Inv, Types, AssignUnknown, recorded, maps
<1>3. (Bins /\ Ranges)'
  BY DEF Inv, Bins, Ranges, AssignUnknown, recorded, maps, Assigned, IsAssigning, Explicit
<1>4. (Counted /\ Relative /\ Absolute)'
  BY DEF Inv, Counted, Relative, Absolute, AssignUnknown, recorded, maps, Assigned, Explicit,
         Positions
<1>5. QED
  BY <1>2, <1>3, <1>4 DEF Inv

LEMMA OpenRecipeHolds ==
  ASSUME Inv, OpenRecipe
  PROVE  Inv'
<1>1. todo' \in Seq(Entries) /\ m_start' \in Nat /\ m_start' = Len(m_rowIds)
  <2>1. Len(m_adhocRows) \in Idf
    BY TermTableAssumption DEF Inv, Types, OpenRecipe, Idf, TermTableAssumption
  <2>2. QED
    BY <2>1, RanksAndIdfs DEF Inv, Types, OpenRecipe
<1>2. /\ pc = "recipes" /\ pc' = "recipe"
      /\ UNCHANGED <<treatment, terms, currentBins, assigners, m_rowIds, m_ranksInUse, maps,
                     counts>>
  BY DEF OpenRecipe
<1>3. Types'
  BY <1>1, <1>2 DEF Inv, Types, assigners, maps
<1>4. Bins'
  BY <1>2 DEF Inv, Bins, assigners, Assigned, IsAssigning
<1>5. Ranges'
  BY <1>1, <1>2 DEF Inv, Types, Ranges, maps, Explicit, c_systemTerms
<1>6. (Counted /\ Relative /\ Absolute)'
  BY <1>2 DEF Inv, Counted, Relative, Absolute, assigners, maps, Assigned, Explicit, Positions
<1>7. QED
  BY <1>3, <1>4, <1>5, <1>6 DEF Inv

LEMMA AddRecipeRowsHolds ==
  ASSUME Inv, AddRecipeRows
  PROVE  Inv'
<1> DEFINE rows == [i \in 1 .. Head(todo).rowCount |-> <<rank, 0>>]
<1>1. /\ pc = "recipe" /\ todo # << >> /\ AddRowIds(rows)
      /\ UNCHANGED <<treatment, terms, pc, currentBins, assigners, m_start, maps, counts>>
  BY DEF AddRecipeRows
<1>2. rows \in Seq({rank} \X Nat)
  BY <1>1, RankIsRank DEF Inv
<1> HIDE DEF rows
<1>3. /\ Ranges' /\ m_rowIds' \in Seq(Rank \X Nat) /\ m_ranksInUse' \in SUBSET Rank
      /\ todo' \in Seq(Entries)
      /\ \A p \in 1 .. Len(m_rowIds) : m_rowIds'[p] = m_rowIds[p]
  BY <1>1, <1>2, AddRowIdsHolds
<1>4. Types'
  BY <1>1, <1>3 DEF Inv, Types, assigners, maps
<1>5. Bins'
  BY <1>1 DEF Inv, Bins, assigners, Assigned, IsAssigning
<1>6. Relative'
  <2>1. \A p \in 1 .. c_systemTerms : p \in 1 .. Len(m_rowIds)
    <3>1. c_systemTerms <= Len(m_rowIds) /\ Len(m_rowIds) \in Nat
      BY DEF Inv, Types, Ranges
    <3>2. QED
      BY <3>1 DEF c_systemTerms
  <2>2. \A h \in Explicit : \A p \in Positions(m_termHashToRows[h]) : p \in 1 .. Len(m_rowIds)
    BY ExplicitWithin
  <2>3. QED
    BY <1>1, <1>3, <2>1, <2>2 DEF Inv, Relative, assigners, maps, Assigned, Explicit, Positions
<1>7. (Counted /\ Absolute)'
  BY <1>1 DEF Counted, Absolute
<1>8. QED
  BY <1>3, <1>4, <1>5, <1>6, <1>7 DEF Inv

LEMMA CloseAdhocTermHolds ==
  ASSUME Inv, CloseAdhocTerm
  PROVE  Inv'
<1>1. Recorded \in Packed /\ Recorded.end = Len(m_rowIds)
  BY DEF Inv, Types, Recorded, Packed
<1>2. /\ pc = "recipe" /\ pc' = "recipes" /\ m_adhocRows' = Append(m_adhocRows, Recorded)
      /\ UNCHANGED <<treatment, terms, todo, currentBins, assigners, recorded,
                     m_termHashToRows, m_adhocTerms, counts>>
  BY DEF CloseAdhocTerm
<1>3. m_adhocRows \in Seq(Packed) /\ m_adhocRows' \in Seq(Packed)
  BY <1>1, <1>2 DEF Inv, Types
<1>4. \A i \in 1 .. Len(m_adhocRows') : m_adhocRows'[i].end <= Len(m_rowIds)
  <2> TAKE i \in 1 .. Len(m_adhocRows')
  <2>1. CASE i \in 1 .. Len(m_adhocRows)
    BY <1>2, <1>3, <2>1 DEF Inv, Ranges
  <2>2. CASE i \notin 1 .. Len(m_adhocRows)
    <3>1. m_adhocRows'[i] = Recorded /\ Len(m_rowIds) \in Nat
      BY <1>2, <1>3, <2>2 DEF Inv, Types
    <3>2. QED
      BY <1>1, <3>1
  <2>3. QED
    BY <2>1, <2>2
<1>5. Types'
  BY <1>2, <1>3 DEF Inv, Types, assigners, recorded
<1>6. Bins'
  BY <1>2 DEF Inv, Bins, assigners, Assigned, IsAssigning
<1>7. Ranges'
  BY <1>2, <1>4 DEF Inv, Ranges, recorded, Explicit
<1>8. (Counted /\ Relative /\ Absolute)'
  BY <1>2 DEF Inv, Counted, Relative, Absolute, assigners, recorded, Assigned, Explicit,
              Positions
<1>9. QED
  BY <1>5, <1>6, <1>7, <1>8 DEF Inv

-----------------------------------------------------------------------------
LEMMA AdhocRowCountIsNat ==
  ASSUME Types, NEW r \in Rank
  PROVE  GetAdhocRowCount(r) \in Nat /\ (r \in m_ranksInUse => GetAdhocRowCount(r) > 0)
<1> DEFINE total == m_adhocTotal[r] + m_unknownTotal[r] + density - 1
<1>1. total \in Nat /\ density \in Nat \ {0}
  BY TermTableAssumption DEF Types, TermTableAssumption
<1> HIDE DEF total
<1>2. total \div density \in Nat
  BY <1>1
<1>3. QED
  BY <1>2 DEF GetAdhocRowCount, Rows, total, c_minAdhocRowCount

LEMMA SetRowCountsHolds ==
  ASSUME Inv, SetRowCounts
  PROVE  Inv'
<1>1. /\ pc = "recipes" /\ pc' = "seal"
      /\ UNCHANGED <<treatment, terms, todo, currentBins, assigners, recorded, maps>>
  BY DEF SetRowCounts
<1>2. Types'
  BY <1>1 DEF Inv, Types, assigners, recorded, maps
<1>3. Bins' /\ Ranges'
  BY <1>1 DEF Inv, Bins, Ranges, assigners, recorded, maps, Assigned, IsAssigning, Explicit
<1>4. Counted'
  BY AdhocRowCountIsNat DEF Inv, Types, Counted, SetRowCounts, assigners, recorded, maps
<1>5. (Relative /\ Absolute)'
  BY <1>1 DEF Inv, Relative, Absolute, assigners, recorded, maps, Assigned, Explicit, Positions
<1>6. QED
  BY <1>2, <1>3, <1>4, <1>5 DEF Inv

LEMMA ShiftSystemRow ==
  ASSUME NEW a \in Nat, NEW b \in Nat, NEW c \in Nat, c >= c_systemTerms
  PROVE  a + b + c - c_systemTerms \in Nat
BY DEF c_systemTerms

LEMMA ShiftRow ==
  ASSUME NEW r \in Rank, NEW i \in Nat, NEW a \in Nat, NEW e \in Nat, Low(r) <= i, i < e
  PROVE  /\ i + a - Low(r) \in Nat /\ Low(r) \in Nat /\ a <= i + a - Low(r)
         /\ i + a - Low(r) + Low(r) < a + e
<1>1. Low(r) \in Nat
  BY DEF Low, c_systemTerms
<1>2. QED
  BY <1>1

(* Seal moves the system rows behind the others and those up to the adhoc  *)
(* rows.                                                                   *)
LEMMA SealHolds ==
  ASSUME Inv, Seal
  PROVE  Inv'
<1>1. /\ pc = "seal" /\ pc' = "sealed"
      /\ UNCHANGED <<treatment, terms, todo, currentBins, assigners, m_start, m_ranksInUse,
                     maps, counts>>
      /\ m_rowIds' = [p \in 1 .. Len(m_rowIds) |->
                        IF IsExplicit(p) THEN Sealed(p) ELSE m_rowIds[p]]
  BY DEF Seal
<1>2. /\ m_rowIds \in Seq(Rank \X Nat) /\ Len(m_rowIds) \in Nat
      /\ m_currentRow \in [Rank -> Nat] /\ m_currentRow[0] >= c_systemTerms
      /\ m_adhocRowCounts \in [Rank -> Nat] /\ m_explicitRowCounts = m_currentRow
      /\ 0 \in Rank /\ c_systemTerms <= Len(m_rowIds)
      /\ m_currentRow[0] \in Nat /\ m_adhocRowCounts[0] \in Nat
  <2>1. m_rowIds \in Seq(Rank \X Nat) /\ m_currentRow \in [Rank -> Nat]
    BY DEF Inv, Types
  <2>2. m_adhocRowCounts \in [Rank -> Nat] /\ m_explicitRowCounts = m_currentRow
    BY <1>1 DEF Inv, Counted
  <2>3. m_currentRow[0] >= c_systemTerms /\ c_systemTerms <= Len(m_rowIds)
    BY DEF Inv, Bins, Ranges
  <2>4. QED
    BY <2>1, <2>2, <2>3, RanksAndIdfs
<1>3. \A h \in 0 .. c_systemTerms - 1 :
        /\ h + 1 \in 1 .. Len(m_rowIds)
        /\ m_rowIds'[h + 1] = GetRowIdFact(h)
        /\ GetRowIdFact(h) \in Rank \X Nat /\ GetRowIdFact(h)[1] = 0
        /\ m_rowIds[h + 1][1] = 0
  <2> TAKE h \in 0 .. c_systemTerms - 1
  <2>1. h + 1 \in 1 .. Len(m_rowIds) /\ h + 1 <= c_systemTerms /\ h \in Nat
    BY <1>2, SMTT(20) DEF c_systemTerms
  <2>2. m_rowIds[h + 1] = <<0, h>>
    BY <1>1, <2>1 DEF Inv, Relative, c_systemTerms
  <2>3. h \in DOMAIN m_termHashToRows /\ h + 1 \in Positions(m_termHashToRows[h])
    <3>1. h \in DOMAIN m_termHashToRows /\ m_termHashToRows[h] = [start |-> h, end |-> h + 1]
      BY DEF Inv, Ranges
    <3>2. Positions([start |-> h, end |-> h + 1]) = h + 1 .. h + 1
      BY DEF Positions
    <3>3. QED
      BY <2>1, <3>1, <3>2
  <2>4. IsExplicit(h + 1)
    BY <2>3 DEF IsExplicit
  <2>5. Sealed(h + 1) = GetRowIdFact(h)
    BY <1>2, <2>1, <2>2 DEF Sealed, GetRowIdFact, c_systemTerms
  <2>6. GetRowIdFact(h) \in Rank \X Nat /\ GetRowIdFact(h)[1] = 0
    <3>1. h + m_adhocRowCounts[0] + m_explicitRowCounts[0] - c_systemTerms \in Nat
      <4>1. m_explicitRowCounts[0] \in Nat /\ m_explicitRowCounts[0] >= c_systemTerms
        BY <1>2
      <4>2. QED
        BY <1>2, <2>1, <4>1, ShiftSystemRow
    <3>2. QED
      BY <1>2, <3>1 DEF GetRowIdFact
  <2>7. QED
    BY <1>1, <2>1, <2>2, <2>4, <2>5, <2>6
<1>4. \A h \in Explicit : \A p \in Positions(m_termHashToRows[h]) :
        /\ p \in 1 .. Len(m_rowIds)
        /\ m_rowIds'[p] \in Rank \X Nat
        /\ m_rowIds'[p][1] = m_rowIds[p][1]
        /\ m_adhocRowCounts[m_rowIds'[p][1]] <= m_rowIds'[p][2]
        /\ m_rowIds'[p][2] + Low(m_rowIds'[p][1])
             < m_adhocRowCounts[m_rowIds'[p][1]] + m_explicitRowCounts[m_rowIds'[p][1]]
  <2> TAKE h \in Explicit
  <2> TAKE p \in Positions(m_termHashToRows[h])
  <2>1. p \in 1 .. Len(m_rowIds) /\ ~ (p <= c_systemTerms) /\ IsExplicit(p)
    <3>1. p \in c_systemTerms + 1 .. Len(m_rowIds) /\ p \in 1 .. Len(m_rowIds)
      BY ExplicitWithin
    <3>2. IsExplicit(p)
      BY DEF IsExplicit, Explicit
    <3>3. QED
      BY <3>1, <3>2 DEF c_systemTerms
  <2>2. PICK r \in Rank, i \in Nat : m_rowIds[p] = <<r, i>>
    <3>1. m_rowIds[p] \in Rank \X Nat
      BY <1>2, <2>1
    <3>2. QED
      BY <3>1
  <2>3. /\ Low(r) <= i /\ i < m_currentRow[r] /\ m_currentRow[r] \in Nat
        /\ m_adhocRowCounts[r] \in Nat
    BY <1>1, <1>2, <2>2 DEF Inv, Relative, Assigned, Within
  <2> DEFINE k == i + m_adhocRowCounts[r] - Low(r)
  <2>4. m_rowIds'[p] = <<r, k>>
    <3>1. m_rowIds'[p] = Sealed(p) /\ m_rowIds[p][1] = r /\ m_rowIds[p][2] = i
      BY <1>1, <2>1, <2>2
    <3>2. CASE r = 0
      BY <2>1, <2>2, <3>1, <3>2 DEF Sealed, Low
    <3>3. CASE r # 0
      <4>1. Low(r) = 0 /\ m_adhocRowCounts[r] \in Nat
        BY <2>3, <3>3 DEF Low
      <4>2. k = i + m_adhocRowCounts[r]
        BY <4>1
      <4>3. QED
        BY <3>1, <3>3, <4>2 DEF Sealed
    <3>4. QED
      BY <3>2, <3>3
  <2>5. /\ k \in Nat /\ Low(r) \in Nat /\ m_adhocRowCounts[r] <= k
        /\ k + Low(r) < m_adhocRowCounts[r] + m_explicitRowCounts[r]
    BY <1>2, <2>3, ShiftRow
  <2> HIDE DEF k
  <2>6. m_rowIds'[p] \in Rank \X Nat /\ m_rowIds'[p][1] = r /\ m_rowIds'[p][2] = k
    BY <2>4, <2>5
  <2>7. QED
    BY <2>1, <2>2, <2>5, <2>6
<1>5. \A p \in 1 .. Len(m_rowIds) :
        m_rowIds'[p] \in Rank \X Nat /\ m_rowIds'[p][1] = m_rowIds[p][1]
  <2> TAKE p \in 1 .. Len(m_rowIds)
  <2>1. CASE ~ IsExplicit(p)
    BY <1>1, <1>2, <2>1
  <2>2. CASE IsExplicit(p)
    <3>1. PICK h \in DOMAIN m_termHashToRows : p \in Positions(m_termHashToRows[h])
      BY <2>2 DEF IsExplicit
    <3>2. CASE h \in Explicit
      BY <1>4, <3>1, <3>2
    <3>3. CASE h \notin Explicit
      <4>1. h \in 0 .. c_systemTerms - 1
        <5>1. h \in Nat /\ ~ (h >= c_systemTerms)
          BY <3>1, <3>3 DEF Inv, Types, Explicit
        <5>2. QED
          BY <5>1 DEF c_systemTerms
      <4>2. p = h + 1
        BY <3>1, <4>1 DEF Inv, Ranges, Positions, c_systemTerms
      <4>3. QED
        BY <1>3, <4>1, <4>2
    <3>4. QED
      BY <3>2, <3>3
  <2>3. QED
    BY <2>1, <2>2
<1>6. m_rowIds' \in Seq(Rank \X Nat) /\ Len(m_rowIds') = Len(m_rowIds)
  BY <1>1, <1>2, <1>5
<1>7. Types'
  BY <1>1, <1>6 DEF Inv, Types, assigners, maps
<1>8. Bins'
  BY <1>1 DEF Inv, Bins, assigners, Assigned, IsAssigning
<1>9. Ranges'
  BY <1>1, <1>5, <1>6 DEF Inv, Ranges, maps, Explicit
<1>10. (Counted /\ Relative)'
  BY <1>1 DEF Inv, Counted, Relative, assigners, maps, counts
<1>11. Absolute'
  <2>1. UNCHANGED <<m_termHashToRows, m_adhocRowCounts, m_explicitRowCounts>>
    BY <1>1 DEF maps, counts
  <2>2. Explicit' = Explicit
    BY <2>1 DEF Explicit
  <2>3. \A h : GetRowIdFact(h)' = GetRowIdFact(h)
    BY <2>1 DEF GetRowIdFact
  <2>4. QED
    BY <1>3, <1>4, <2>1, <2>2, <2>3 DEF Absolute, Positions
<1>12. QED
  BY <1>7, <1>8, <1>9, <1>10, <1>11 DEF Inv

-----------------------------------------------------------------------------
LEMMA NextHolds ==
  ASSUME Inv, [Next]_vars
  PROVE  Inv'
<1>1. CASE \E f \in Frequency : AddAdhocTerm(f) \/ OpenTerm(f)
  BY <1>1, AddAdhocTermHolds, OpenTermHolds
<1>2. CASE AssignPrivate \/ StartBin \/ FindBin \/ AssignShared \/ CloseTerm
  BY <1>2, AssignPrivateHolds, StartBinHolds, FindBinHolds, AssignSharedHolds, CloseTermHolds
<1>3. CASE AssignUnknown \/ OpenRecipe \/ AddRecipeRows \/ CloseAdhocTerm
  BY <1>3, AssignUnknownHolds, OpenRecipeHolds, AddRecipeRowsHolds, CloseAdhocTermHolds
<1>4. CASE SetRowCounts \/ Seal
  BY <1>4, SetRowCountsHolds, SealHolds
<1>5. CASE UNCHANGED vars
  <2>1. (Types /\ Bins)'
    BY <1>5 DEF Inv, Types, Bins, vars, assigners, recorded, maps, Assigned, IsAssigning, rank,
                f_rank
  <2>2. (Ranges /\ Counted /\ Relative)'
    BY <1>5 DEF Inv, Ranges, Counted, Relative, vars, assigners, recorded, maps, counts,
                Assigned, Explicit, Positions
  <2>3. Absolute'
    BY <1>5 DEF Inv, Absolute, vars, recorded, maps, counts, Explicit, Positions, GetRowIdFact
  <2>4. QED
    BY <2>1, <2>2, <2>3 DEF Inv
<1>6. QED
  BY <1>1, <1>2, <1>3, <1>4, <1>5 DEF Next

(* TermTableBuilder and TermTable: before and after Seal the rows that have *)
(* been handed out lie where the row counts say.                           *)
THEOREM Invariant == Spec => []Inv
  BY Initially, NextHolds, PTL DEF Spec

-----------------------------------------------------------------------------
(* What GetRows finds for each kind of term.                               *)
LEMMA RowsOfSystemTerm ==
  ASSUME NEW h \in 0 .. c_systemTerms - 1
  PROVE  GetRows(h) = <<{GetRowIdFact(h)}>>
BY DEF GetRows, c_systemTerms

LEMMA RowsOfExplicitTerm ==
  ASSUME Inv, pc = "sealed", NEW h \in Explicit, NEW i \in DOMAIN GetRows(h)
  PROVE  \E r \in Rank, k \in Nat :
           /\ GetRows(h)[i] = {<<r, k>>}
           /\ m_adhocRowCounts[r] <= k
           /\ k + Low(r) < m_adhocRowCounts[r] + m_explicitRowCounts[r]
<1> DEFINE packed == m_termHashToRows[h]
           p == packed.start + i
<1>1. packed.start \in Nat /\ packed.end \in Nat
  BY DEF Inv, Types, Explicit, Packed
<1>2. ~ (h < c_systemTerms) /\ h \in DOMAIN m_termHashToRows
  BY DEF Inv, Types, Explicit, c_systemTerms
<1>3. GetRows(h) = [j \in 1 .. packed.end - packed.start |-> {m_rowIds[packed.start + j]}]
  BY <1>2 DEF GetRows
<1>4. i \in 1 .. packed.end - packed.start /\ GetRows(h)[i] = {m_rowIds[p]}
  BY <1>3
<1>5. p \in Positions(packed)
  BY <1>1, <1>4 DEF Positions
<1>6. m_rowIds[p] \in Rank \X Nat
  <2>1. p \in 1 .. Len(m_rowIds)
    BY <1>5, ExplicitWithin
  <2> HIDE DEF p
  <2>2. QED
    BY <2>1 DEF Inv, Types
<1>7. PICK r \in Rank, k \in Nat : m_rowIds[p] = <<r, k>>
  BY <1>6
<1>8. m_adhocRowCounts[r] <= k /\ k + Low(r) < m_adhocRowCounts[r] + m_explicitRowCounts[r]
  BY <1>5, <1>7 DEF Inv, Absolute
<1>9. QED
  BY <1>4, <1>7, <1>8

LEMMA RowsOfAdhocTerm ==
  ASSUME Inv, pc = "sealed", NEW h \in Nat, IsAdhoc(h), NEW i \in DOMAIN GetRows(h)
  PROVE  \E r \in m_ranksInUse : GetRows(h)[i] = AdhocRows(r)
<1> DEFINE packed == m_adhocRows[GetIdf(h) + 1]
           p == packed.start + i
<1>1. h \notin DOMAIN m_termHashToRows /\ ~ (h < c_systemTerms)
  BY DEF Inv, Ranges, IsAdhoc, c_systemTerms
<1>2. GetIdf(h) + 1 \in 1 .. Len(m_adhocRows)
  <2>1. GetIdf(h) \in Idf
    BY RanksAndIdfs DEF Inv, Types, GetIdf
  <2>2. QED
    BY <2>1, TermTableAssumption DEF Inv, Counted, Idf, TermTableAssumption
<1>3. packed \in Packed /\ packed.end <= Len(m_rowIds)
  BY <1>2 DEF Inv, Types, Ranges
<1>4. GetRows(h) = [j \in 1 .. packed.end - packed.start |->
                      AdhocRows(m_rowIds[packed.start + j][1])]
  BY <1>1 DEF GetRows
<1>5. i \in 1 .. packed.end - packed.start /\ GetRows(h)[i] = AdhocRows(m_rowIds[p][1])
  BY <1>4
<1>6. p \in 1 .. Len(m_rowIds)
  <2>1. packed.start \in Nat /\ packed.end \in Nat /\ Len(m_rowIds) \in Nat
    BY <1>3 DEF Inv, Types, Packed
  <2>2. QED
    BY <1>3, <1>5, <2>1
<1>7. m_rowIds[p][1] \in m_ranksInUse
  BY <1>6 DEF Inv, Ranges
<1>8. QED
  BY <1>5, <1>7

LEMMA TermsAreKinds ==
  ASSUME Inv, NEW h \in Term
  PROVE  h \in Nat /\ (h \in 0 .. c_systemTerms - 1 \/ h \in Explicit \/ IsAdhoc(h))
<1>1. h \in Nat
  BY DEF Inv, Types, Term, Hash, c_systemTerms
<1>2. QED
  BY <1>1 DEF Explicit, IsAdhoc, c_systemTerms

LEMMA SealedCounts ==
  ASSUME Inv, pc = "sealed"
  PROVE  /\ \A r \in Rank : m_adhocRowCounts[r] \in Nat /\ m_explicitRowCounts[r] \in Nat
         /\ m_explicitRowCounts[0] >= c_systemTerms
         /\ \A r \in m_ranksInUse : r \in Rank /\ m_adhocRowCounts[r] > 0
BY DEF Inv, Types, Bins, Counted

(* The rows of a term exist, and lie below the row count.                  *)
LEMMA RowsInTable ==
  ASSUME Inv, pc = "sealed", NEW h \in Term, NEW i \in DOMAIN GetRows(h)
  PROVE  /\ GetRows(h)[i] # {}
         /\ \A row \in GetRows(h)[i] : row[2] \in 0 .. GetTotalRowCount(row[1]) - 1
<1>1. CASE h \in 0 .. c_systemTerms - 1
  <2>1. i = 1 /\ GetRows(h)[i] = {GetRowIdFact(h)}
    BY <1>1, RowsOfSystemTerm
  <2>2. m_adhocRowCounts[0] \in Nat /\ m_explicitRowCounts[0] \in Nat
        /\ m_explicitRowCounts[0] >= c_systemTerms
    BY SealedCounts, RanksAndIdfs
  <2>3. GetRowIdFact(h)[1] = 0 /\ GetRowIdFact(h)[2] \in 0 .. GetTotalRowCount(0) - 1
    BY <1>1, <2>2 DEF GetRowIdFact, GetTotalRowCount, c_systemTerms
  <2>4. QED
    BY <2>1, <2>3
<1>2. CASE h \in Explicit
  <2>1. PICK r \in Rank, k \in Nat :
           /\ GetRows(h)[i] = {<<r, k>>}
           /\ k + Low(r) < m_adhocRowCounts[r] + m_explicitRowCounts[r]
    BY <1>2, RowsOfExplicitTerm
  <2>2. m_adhocRowCounts[r] \in Nat /\ m_explicitRowCounts[r] \in Nat
    BY SealedCounts
  <2>3. k \in 0 .. GetTotalRowCount(r) - 1
    BY <2>1, <2>2 DEF GetTotalRowCount, Low, c_systemTerms
  <2>4. QED
    BY <2>1, <2>3
<1>3. CASE IsAdhoc(h)
  <2>1. PICK r \in m_ranksInUse : GetRows(h)[i] = AdhocRows(r)
    BY <1>3, TermsAreKinds, RowsOfAdhocTerm
  <2>2. m_adhocRowCounts[r] \in Nat /\ m_explicitRowCounts[r] \in Nat /\ m_adhocRowCounts[r] > 0
    BY SealedCounts
  <2>3. <<r, 0>> \in AdhocRows(r)
    BY <2>2 DEF AdhocRows
  <2>4. \A k \in 0 .. m_adhocRowCounts[r] - 1 : k \in 0 .. GetTotalRowCount(r) - 1
    <3>1. GetTotalRowCount(r) \in Nat /\ m_adhocRowCounts[r] <= GetTotalRowCount(r)
      BY <2>2 DEF GetTotalRowCount, c_systemTerms
    <3>2. QED
      BY <2>2, <3>1
  <2>5. \A row \in AdhocRows(r) :
          row[1] = r /\ row[2] \in 0 .. m_adhocRowCounts[r] - 1
    BY DEF AdhocRows
  <2>6. QED
    BY <2>1, <2>3, <2>4, <2>5
<1>4. QED
  BY <1>1, <1>2, <1>3, TermsAreKinds

LEMMA SystemTermHasItsRow ==
  ASSUME Inv, pc = "sealed", NEW h \in 0 .. c_systemTerms - 1
  PROVE  ExplicitRows(h) = GetRows(h)[1]
<1>1. m_termHashToRows[h] = [start |-> h, end |-> h + 1]
  BY DEF Inv, Ranges
<1>2. Positions([start |-> h, end |-> h + 1]) = {h + 1}
  BY DEF Positions, c_systemTerms
<1>3. m_rowIds[h + 1] = GetRowIdFact(h)
  BY DEF Inv, Absolute
<1>4. ExplicitRows(h) = {m_rowIds[p] : p \in {h + 1}}
  BY <1>1, <1>2 DEF ExplicitRows
<1>5. QED
  BY <1>3, <1>4, RowsOfSystemTerm

(* No row of a system term is another's, and no adhoc row is explicit.     *)
LEMMA SystemRowsApart ==
  ASSUME Inv, pc = "sealed", NEW g \in 0 .. c_systemTerms - 1, NEW h \in Term, g # h,
         NEW i \in DOMAIN GetRows(g), NEW j \in DOMAIN GetRows(h)
  PROVE  GetRows(g)[i] \cap GetRows(h)[j] = {}
<1> DEFINE fact == g + m_adhocRowCounts[0] + m_explicitRowCounts[0] - c_systemTerms
<1>1. GetRows(g)[i] = {<<0, fact>>}
  BY RowsOfSystemTerm DEF GetRowIdFact
<1>2. /\ m_adhocRowCounts[0] \in Nat /\ m_explicitRowCounts[0] \in Nat
      /\ m_explicitRowCounts[0] >= c_systemTerms
  BY SealedCounts, RanksAndIdfs
<1>3. g \in Nat /\ fact \in Nat /\ m_adhocRowCounts[0] <= fact
      /\ m_adhocRowCounts[0] + m_explicitRowCounts[0] <= fact + c_systemTerms
  BY <1>2 DEF c_systemTerms
<1>4. CASE h \in 0 .. c_systemTerms - 1
  <2> DEFINE other == h + m_adhocRowCounts[0] + m_explicitRowCounts[0] - c_systemTerms
  <2>1. GetRows(h)[j] = {<<0, other>>}
    BY <1>4, RowsOfSystemTerm DEF GetRowIdFact
  <2>2. h \in Nat /\ g \in Nat
    BY <1>3, TermsAreKinds
  <2>3. other # fact
    BY <1>2, <2>2 DEF c_systemTerms
  <2>4. QED
    BY <1>1, <2>1, <2>3
<1>5. CASE h \in Explicit
  <2>1. PICK r \in Rank, k \in Nat :
          /\ GetRows(h)[j] = {<<r, k>>}
          /\ k + Low(r) < m_adhocRowCounts[r] + m_explicitRowCounts[r]
    BY <1>5, RowsOfExplicitTerm
  <2>2. r = 0 => k # fact
    BY <1>2, <1>3, <2>1 DEF Low, c_systemTerms
  <2> HIDE DEF fact
  <2>3. QED
    BY <1>1, <2>1, <2>2
<1>6. CASE IsAdhoc(h)
  <2>1. PICK r \in m_ranksInUse : GetRows(h)[j] = AdhocRows(r)
    BY <1>6, TermsAreKinds, RowsOfAdhocTerm
  <2>2. fact \notin 0 .. m_adhocRowCounts[0] - 1
    BY <1>2, <1>3
  <2> HIDE DEF fact
  <2>3. QED
    BY <1>1, <2>1, <2>2 DEF AdhocRows
<1>7. QED
  BY <1>4, <1>5, <1>6, TermsAreKinds

LEMMA AdhocRowsApart ==
  ASSUME Inv, pc = "sealed", NEW g \in Term, NEW h \in Term, IsAdhoc(g), ~ IsAdhoc(h),
         NEW i \in DOMAIN GetRows(g), NEW j \in DOMAIN GetRows(h)
  PROVE  GetRows(g)[i] \cap GetRows(h)[j] = {}
<1>1. CASE h \in 0 .. c_systemTerms - 1
  <2>1. g # h
    OBVIOUS
  <2>2. QED
    BY <1>1, <2>1, SystemRowsApart
<1>2. CASE h \in Explicit
  <2>1. PICK r \in m_ranksInUse : GetRows(g)[i] = AdhocRows(r)
    BY TermsAreKinds, RowsOfAdhocTerm
  <2>2. PICK s \in Rank, k \in Nat : GetRows(h)[j] = {<<s, k>>} /\ m_adhocRowCounts[s] <= k
    BY <1>2, RowsOfExplicitTerm
  <2>3. k \notin 0 .. m_adhocRowCounts[s] - 1
    BY <2>2, SealedCounts
  <2>4. QED
    BY <2>1, <2>2, <2>3 DEF AdhocRows
<1>3. QED
  BY <1>1, <1>2, TermsAreKinds

(* TermTable::Seal, GetRows and RowIdSequence: the sealed table keeps the  *)
(* rows of the system terms, the explicit rows and the adhoc rows apart,   *)
(* and all of them within the row table.                                   *)
THEOREM SealedRowsApart == Spec => []RowsApart
<1>1. Inv => RowsApart
  <2> SUFFICES ASSUME Inv, pc = "sealed" PROVE RowsApart
    BY DEF RowsApart
  <2>1. \A g, h \in Term :
          (g < c_systemTerms /\ g # h) \/ (IsAdhoc(g) /\ ~ IsAdhoc(h)) =>
            \A i \in DOMAIN GetRows(g), j \in DOMAIN GetRows(h) :
              GetRows(g)[i] \cap GetRows(h)[j] = {}
    <3> SUFFICES ASSUME NEW g \in Term, NEW h \in Term,
                        (g < c_systemTerms /\ g # h) \/ (IsAdhoc(g) /\ ~ IsAdhoc(h)),
                        NEW i \in DOMAIN GetRows(g), NEW j \in DOMAIN GetRows(h)
                 PROVE  GetRows(g)[i] \cap GetRows(h)[j] = {}
      OBVIOUS
    <3>1. CASE g < c_systemTerms /\ g # h
      <4>1. g \in 0 .. c_systemTerms - 1
        BY <3>1, TermsAreKinds DEF c_systemTerms
      <4>2. QED
        BY <3>1, <4>1, SystemRowsApart
    <3>2. CASE IsAdhoc(g) /\ ~ IsAdhoc(h)
      BY <3>2, AdhocRowsApart
    <3>3. QED
      BY <3>1, <3>2
  <2>2. QED
    BY <2>1, RowsInTable, SystemTermHasItsRow DEF RowsApart
<1>2. QED
  BY <1>1, Invariant, PTL

-----------------------------------------------------------------------------
(* The numbers are well founded, so a set that has 0 and every successor   *)
(* has them all.                                                           *)

LEMMA Induction ==
  ASSUME NEW S, 0 \in S, \A n \in Nat : n \in S => n + 1 \in S
  PROVE  \A n \in Nat : n \in S
<1> DEFINE T == Nat \ S
<1>1. SUFFICES ASSUME T # {} PROVE FALSE
  OBVIOUS
<1>2. PICK x \in T : \A y \in T : <<y, x>> \notin OpToRel(<, Nat)
  <2> HIDE DEF T
  <2>1. T \subseteq Nat
    BY DEF T
  <2>2. QED
    BY <1>1, <2>1, NatLessThanWellFounded, WFMin
<1>3. x \in Nat /\ x # 0
  OBVIOUS
<1>4. x - 1 \in Nat /\ <<x - 1, x>> \in OpToRel(<, Nat)
  BY <1>3 DEF OpToRel
<1>5. x - 1 \in S
  BY <1>2, <1>4
<1>6. (x - 1) + 1 \in S
  BY <1>4, <1>5
<1>7. QED
  BY <1>3, <1>6

(* The sum of F over a finite set, and the recursion that it is defined by. *)
Sum(F, S) == Sets!MapThenSumSet(LAMBDA g : F[g], S)

Some(s) == CHOOSE x \in s : TRUE
Summing(i, F, S) ==
  i = [s \in SUBSET S |-> IF s = {} THEN 0 ELSE F[Some(s)] + i[s \ {Some(s)}]]

LEMMA SumIsOf ==
  ASSUME NEW F, NEW S
  PROVE  Sum(F, S) = (CHOOSE i : Summing(i, F, S))[S]
BY Zenon DEF Sum, Summing, Some, Sets!MapThenSumSet, Sets!MapThenFoldSet

(* The recursion over the subsets has a solution, and but one.             *)
UpTo(S, n) == {s \in SUBSET S : Cardinality(s) <= n}
SummingUpTo(i, F, S, n) ==
  i = [s \in UpTo(S, n) |-> IF s = {} THEN 0 ELSE F[Some(s)] + i[s \ {Some(s)}]]

LEMMA SomeLess ==
  ASSUME NEW S, IsFiniteSet(S), NEW s \in SUBSET S, s # {}
  PROVE  /\ Some(s) \in s /\ s \ {Some(s)} \in SUBSET S /\ IsFiniteSet(s)
         /\ Cardinality(s) \in Nat \ {0} /\ Cardinality(s \ {Some(s)}) = Cardinality(s) - 1
<1>1. Some(s) \in s
  BY DEF Some
<1>2. IsFiniteSet(s)
  BY FS_Subset
<1>3. Cardinality(s) \in Nat /\ Cardinality(s) # 0
  BY <1>2, FS_CardinalityType, FS_EmptySet
<1>4. Cardinality(s \ {Some(s)}) = Cardinality(s) - 1
  BY <1>1, <1>2, FS_RemoveElement
<1>5. QED
  BY <1>1, <1>2, <1>3, <1>4

LEMMA SummingExists ==
  ASSUME NEW S, IsFiniteSet(S), NEW F
  PROVE  \E i : Summing(i, F, S)
<1> DEFINE N == {n \in Nat : \E i : SummingUpTo(i, F, S, n)}
<1>1. 0 \in N
  <2> DEFINE i == [s \in UpTo(S, 0) |-> 0]
  <2>1. ASSUME NEW s \in UpTo(S, 0) PROVE s = {}
    <3>1. s \in SUBSET S /\ Cardinality(s) <= 0
      BY DEF UpTo
    <3>2. s # {} => Cardinality(s) \in Nat \ {0}
      BY <3>1, SomeLess
    <3>3. QED
      BY <3>1, <3>2
  <2>2. SummingUpTo(i, F, S, 0)
    BY <2>1 DEF SummingUpTo
  <2>3. QED
    BY <2>2
<1>2. ASSUME NEW n \in Nat, n \in N PROVE n + 1 \in N
  <2>1. PICK i : SummingUpTo(i, F, S, n)
    BY <1>2
  <2> DEFINE j == [s \in UpTo(S, n + 1) |->
                     IF s = {} THEN 0 ELSE F[Some(s)] + i[s \ {Some(s)}]]
  <2>2. ASSUME NEW s \in UpTo(S, n) PROVE s \in UpTo(S, n + 1) /\ j[s] = i[s]
    <3>1. Cardinality(s) \in Nat /\ s \in SUBSET S /\ Cardinality(s) <= n
      BY FS_Subset, FS_CardinalityType DEF UpTo
    <3>2. s \in UpTo(S, n + 1)
      BY <3>1 DEF UpTo
    <3>3. QED
      BY <2>1, <3>2 DEF SummingUpTo
  <2>3. ASSUME NEW s \in UpTo(S, n + 1), s # {} PROVE i[s \ {Some(s)}] = j[s \ {Some(s)}]
    <3>1. s \in SUBSET S /\ Cardinality(s) <= n + 1
      BY DEF UpTo
    <3>2. s \ {Some(s)} \in UpTo(S, n)
      BY <2>3, <3>1, SomeLess DEF UpTo
    <3>3. QED
      BY <2>2, <3>2
  <2>4. SummingUpTo(j, F, S, n + 1)
    BY <2>3 DEF SummingUpTo
  <2>5. QED
    BY <2>4
<1>3. Cardinality(S) \in N
  <2>1. Cardinality(S) \in Nat
    BY FS_CardinalityType
  <2> HIDE DEF N
  <2>2. QED
    BY <1>1, <1>2, <2>1, Induction
<1>4. UpTo(S, Cardinality(S)) = SUBSET S
  BY FS_Subset DEF UpTo
<1>5. QED
  BY <1>3, <1>4 DEF SummingUpTo, Summing

LEMMA SummingIsSum ==
  ASSUME NEW S, IsFiniteSet(S), NEW F, NEW i, Summing(i, F, S), NEW T \in SUBSET S
  PROVE  Sum(F, T) = i[T]
<1>1. IsFiniteSet(T)
  BY FS_Subset
<1>2. PICK j : j = CHOOSE k : Summing(k, F, T)
  OBVIOUS
<1>3. Summing(j, F, T)
  BY <1>1, <1>2, SummingExists
<1> DEFINE N == {n \in Nat : \A s \in SUBSET T : Cardinality(s) = n => j[s] = i[s]}
<1>4. 0 \in N
  <2>1. ASSUME NEW s \in SUBSET T, Cardinality(s) = 0 PROVE j[s] = i[s]
    <3>1. s = {}
      BY <1>1, <2>1, SomeLess
    <3>2. QED
      BY <1>3, <3>1 DEF Summing
  <2>2. QED
    BY <2>1
<1>5. ASSUME NEW n \in Nat, n \in N PROVE n + 1 \in N
  <2>1. ASSUME NEW s \in SUBSET T, Cardinality(s) = n + 1 PROVE j[s] = i[s]
    <3>1. s # {}
      BY <2>1, FS_EmptySet
    <3>2. PICK t : t = s \ {Some(s)}
      OBVIOUS
    <3>3. t \in SUBSET T /\ Cardinality(t) = n
      BY <1>1, <2>1, <3>1, <3>2, SomeLess
    <3>4. j[t] = i[t]
      BY <1>5, <3>3
    <3>5. s \in SUBSET T /\ s \in SUBSET S
      OBVIOUS
    <3>6. j[s] = F[Some(s)] + j[t] /\ i[s] = F[Some(s)] + i[t]
      BY <1>3, <3>1, <3>2, <3>5 DEF Summing
    <3>7. QED
      BY <3>4, <3>6
  <2>2. QED
    BY <2>1
<1>6. Cardinality(T) \in N
  <2>1. Cardinality(T) \in Nat
    BY <1>1, FS_CardinalityType
  <2> HIDE DEF N
  <2>2. QED
    BY <1>4, <1>5, <2>1, Induction
<1>7. j[T] = i[T]
  BY <1>6
<1>8. QED
  BY <1>2, <1>7, SumIsOf

LEMMA SumOfNone == ASSUME NEW F PROVE Sum(F, {}) = 0
<1>1. IsFiniteSet({})
  BY FS_EmptySet
<1>2. PICK i : Summing(i, F, {})
  BY <1>1, SummingExists
<1>3. i[{}] = 0
  BY <1>2 DEF Summing
<1>4. QED
  BY <1>1, <1>2, <1>3, SummingIsSum

LEMMA SumOfSome ==
  ASSUME NEW F, NEW S, IsFiniteSet(S), S # {}
  PROVE  Sum(F, S) = F[Some(S)] + Sum(F, S \ {Some(S)})
<1>1. PICK i : Summing(i, F, S)
  BY SummingExists
<1>2. PICK T : T = S \ {Some(S)}
  OBVIOUS
<1>3. i[S] = F[Some(S)] + i[T]
  BY <1>1, <1>2 DEF Summing
<1>4. Sum(F, S) = i[S] /\ Sum(F, T) = i[T]
  BY <1>1, <1>2, SummingIsSum
<1>5. QED
  BY <1>2, <1>3, <1>4

LEMMA SumIsNat ==
  ASSUME NEW F, NEW U, IsFiniteSet(U), \A x \in U : F[x] \in Nat
  PROVE  \A S \in SUBSET U : Sum(F, S) \in Nat
<1> DEFINE N == {n \in Nat : \A S \in SUBSET U : Cardinality(S) = n => Sum(F, S) \in Nat}
<1>1. 0 \in N
  <2>1. ASSUME NEW S \in SUBSET U, Cardinality(S) = 0 PROVE Sum(F, S) \in Nat
    <3>1. S = {}
      BY <2>1, SomeLess
    <3>2. QED
      BY <3>1, SumOfNone
  <2>2. QED
    BY <2>1
<1>2. ASSUME NEW n \in Nat, n \in N PROVE n + 1 \in N
  <2>1. ASSUME NEW S \in SUBSET U, Cardinality(S) = n + 1 PROVE Sum(F, S) \in Nat
    <3>1. IsFiniteSet(S) /\ S # {}
      BY <2>1, FS_Subset, FS_EmptySet
    <3>2. PICK c, T : c = Some(S) /\ T = S \ {c}
      OBVIOUS
    <3>3. c \in S /\ T \in SUBSET U /\ Cardinality(T) = (n + 1) - 1
      BY <2>1, <3>1, <3>2, SomeLess
    <3>4. Sum(F, S) = F[c] + Sum(F, T)
      BY <3>1, <3>2, SumOfSome
    <3>5. Cardinality(T) = n
      BY <3>3
    <3>6. Sum(F, T) \in Nat /\ F[c] \in Nat
      BY <1>2, <3>3, <3>5
    <3>7. QED
      BY <3>4, <3>6
  <2>2. QED
    BY <2>1
<1>3. ASSUME NEW S \in SUBSET U PROVE Sum(F, S) \in Nat
  <2>1. Cardinality(S) \in Nat
    BY FS_Subset, FS_CardinalityType
  <2>2. Cardinality(S) \in N
    <3> HIDE DEF N
    <3>1. QED
      BY <1>1, <1>2, <2>1, Induction
  <2>3. QED
    BY <2>2
<1>4. QED
  BY <1>3

(* It does not depend on the order.                                        *)
LEMMA SumOfAny ==
  ASSUME NEW F, NEW U, IsFiniteSet(U), \A x \in U : F[x] \in Nat
  PROVE  \A S \in SUBSET U : \A x \in S : Sum(F, S) = F[x] + Sum(F, S \ {x})
<1> DEFINE Any(S) == \A x \in S : Sum(F, S) = F[x] + Sum(F, S \ {x})
           N == {n \in Nat : \A S \in SUBSET U : Cardinality(S) = n => Any(S)}
<1>1. 0 \in N
  <2>1. ASSUME NEW S \in SUBSET U, Cardinality(S) = 0 PROVE Any(S)
    BY <2>1, SomeLess
  <2>2. QED
    BY <2>1
<1>2. ASSUME NEW n \in Nat, n \in N PROVE n + 1 \in N
  <2>1. ASSUME NEW S \in SUBSET U, Cardinality(S) = n + 1, NEW x \in S
        PROVE  Sum(F, S) = F[x] + Sum(F, S \ {x})
    <3>1. IsFiniteSet(S) /\ S # {}
      BY <2>1, FS_Subset, FS_EmptySet
    <3>2. PICK c : c = Some(S)
      OBVIOUS
    <3>3. c \in S /\ Sum(F, S) = F[c] + Sum(F, S \ {c})
      BY <3>1, <3>2, SumOfSome, SomeLess
    <3>4. ASSUME NEW y \in S PROVE Any(S \ {y})
      <4>1. Cardinality(S \ {y}) = Cardinality(S) - 1
        BY <3>1, FS_RemoveElement
      <4>2. Cardinality(S \ {y}) = n /\ S \ {y} \in SUBSET U
        BY <2>1, <4>1
      <4>3. QED
        BY <1>2, <4>2
    <3>5. CASE x = c
      BY <3>3, <3>5
    <3>6. CASE x # c
      <4>1. PICK T : T = (S \ {c}) \ {x}
        OBVIOUS
      <4>2. T = (S \ {x}) \ {c} /\ x \in S \ {c} /\ c \in S \ {x} /\ T \in SUBSET U
        BY <3>3, <3>6, <4>1
      <4>3. Sum(F, S \ {c}) = F[x] + Sum(F, T)
        BY <3>3, <3>4, <4>1, <4>2
      <4>4. Sum(F, S \ {x}) = F[c] + Sum(F, T)
        BY <3>4, <4>2
      <4>5. Sum(F, T) \in Nat /\ F[c] \in Nat /\ F[x] \in Nat
        BY <3>3, <4>2, SumIsNat
      <4>6. QED
        BY <3>3, <4>3, <4>4, <4>5
    <3>7. QED
      BY <3>5, <3>6
  <2>2. QED
    BY <2>1
<1>3. ASSUME NEW S \in SUBSET U PROVE Any(S)
  <2>1. Cardinality(S) \in Nat
    BY FS_Subset, FS_CardinalityType
  <2>2. Cardinality(S) \in N
    <3> HIDE DEF N
    <3>1. QED
      BY <1>1, <1>2, <2>1, Induction
  <2>3. QED
    BY <2>2
<1>4. QED
  BY <1>3

LEMMA SumOfOneMore ==
  ASSUME NEW F, NEW S, IsFiniteSet(S), NEW x, x \notin S, \A y \in S \cup {x} : F[y] \in Nat
  PROVE  Sum(F, S \cup {x}) = Sum(F, S) + F[x] /\ Sum(F, S) \in Nat
<1>1. PICK U : U = S \cup {x}
  OBVIOUS
<1>2. IsFiniteSet(U) /\ x \in U /\ U \ {x} = S
  BY <1>1, FS_AddElement
<1>3. Sum(F, U) = F[x] + Sum(F, S)
  BY <1>1, <1>2, SumOfAny
<1>4. Sum(F, S) \in Nat /\ F[x] \in Nat
  BY <1>1, <1>2, SumIsNat
<1>5. QED
  BY <1>1, <1>3, <1>4

LEMMA SumOfSame ==
  ASSUME NEW F, NEW G, NEW S, IsFiniteSet(S), \A x \in S : F[x] = G[x]
  PROVE  Sum(F, S) = Sum(G, S)
<1>1. PICK i : Summing(i, F, S)
  BY SummingExists
<1>2. \A s \in SUBSET S : s # {} => F[Some(s)] = G[Some(s)]
  BY SomeLess
<1>3. Summing(i, G, S)
  BY <1>1, <1>2 DEF Summing
<1>4. QED
  BY <1>1, <1>3, SummingIsSum

-----------------------------------------------------------------------------
(* Who sets bits in a row, and how many.                                   *)
Current == Hash(Len(terms))
Members == Explicit \cup {h \in {Current} : pc = "assign"}
PositionsOf(h) ==
  IF pc = "assign" /\ h = Current THEN m_start + 1 .. Len(m_rowIds)
  ELSE Positions(m_termHashToRows[h])
Has(h, row) == \E p \in PositionsOf(h) : m_rowIds[p] = row
Held(row) == {h \in Members : Has(h, row)}

BitsOf(ts, r, h) == FrequencyAtRank[ts[h - c_systemTerms + 1]][r]
Weight(ts, r, S) == Sum([h \in S |-> BitsOf(ts, r, h)], S)
Load(row) == Weight(terms, row[1], Held(row))
Reserved(i) == <<rank, currentBins[i].index>>

(* A term has each of its rows once, and the entries of its configuration  *)
(* are of different ranks.                                                 *)
Different ==
  /\ \A h \in Explicit : h <= Current /\ (pc = "assign" => h < Current)
  /\ \A h \in Members : \A p, q \in PositionsOf(h) : m_rowIds[p] = m_rowIds[q] => p = q
  /\ pc = "assign" =>
       /\ \A p \in PositionsOf(Current) : \A i \in 1 .. Len(todo) :
            m_rowIds[p][1] # todo[i].rank
       /\ \A i, j \in 1 .. Len(todo) : todo[i].rank = todo[j].rank => i = j

(* A row has one bin, ...                                                  *)
OneBin ==
  /\ \A r \in Rank : \A b, c \in m_bins[r] : b.index = c.index => b = c
  /\ \A i, j \in 1 .. Len(currentBins) : currentBins[i].index = currentBins[j].index => i = j
  /\ \A i \in 1 .. Len(currentBins) : \A b \in m_bins[rank] : currentBins[i].index # b.index

(* ... which knows how much space the row has at least, ...                *)
Fits ==
  /\ \A r \in Rank : \A b \in m_bins[r] : b.space + Load(<<r, b.index>>) <= density
  /\ \A i \in 1 .. Len(currentBins) :
       currentBins[i].space + f_rank + Load(Reserved(i)) <= density

(* ... and only a row that has one is shared.                              *)
HasBin(row) ==
  \/ \E r \in Rank : \E b \in m_bins[r] : row = <<r, b.index>>
  \/ \E i \in 1 .. Len(currentBins) : row = Reserved(i)
Shared ==
  \A g, h \in Members : \A p \in PositionsOf(g) : \A q \in PositionsOf(h) :
    m_rowIds[p] = m_rowIds[q] => g = h \/ HasBin(m_rowIds[p])

Dense == Different /\ OneBin /\ Fits /\ Shared

(* What remains of it in the sealed table.                                 *)
Sparse ==
  \A h \in Explicit :
    /\ \A p, q \in Positions(m_termHashToRows[h]) : m_rowIds[p] = m_rowIds[q] => p = q
    /\ \A p \in Positions(m_termHashToRows[h]) :
         \/ Holders(m_rowIds[p]) = {h}
         \/ Weight(terms, m_rowIds[p][1], Holders(m_rowIds[p])) <= density

DensityInv == Inv /\ (IF pc = "sealed" THEN Sparse ELSE Dense)

-----------------------------------------------------------------------------
LEMMA WeightStays ==
  ASSUME NEW t, NEW u, NEW r, NEW S, IsFiniteSet(S),
         \A h \in S : t[h - c_systemTerms + 1] = u[h - c_systemTerms + 1]
  PROVE  Weight(t, r, S) = Weight(u, r, S)
<1>1. [h \in S |-> BitsOf(t, r, h)] = [h \in S |-> BitsOf(u, r, h)]
  BY DEF BitsOf
<1>2. QED
  BY <1>1 DEF Weight

LEMMA WeightOfOneMore ==
  ASSUME NEW t, NEW r, NEW S, IsFiniteSet(S), NEW x, x \notin S,
         \A h \in S \cup {x} : BitsOf(t, r, h) \in Nat
  PROVE  /\ Weight(t, r, S \cup {x}) = Weight(t, r, S) + BitsOf(t, r, x)
         /\ Weight(t, r, S) \in Nat /\ Weight(t, r, S \cup {x}) \in Nat
<1> DEFINE T == S \cup {x}
           F == [h \in T |-> BitsOf(t, r, h)]
           G == [h \in S |-> BitsOf(t, r, h)]
<1>1. /\ \A y \in T : F[y] \in Nat
      /\ \A y \in S : F[y] = G[y]
      /\ F[x] = BitsOf(t, r, x) /\ BitsOf(t, r, x) \in Nat
  OBVIOUS
<1>2. Weight(t, r, T) = Sum(F, T) /\ Weight(t, r, S) = Sum(G, S)
  BY DEF Weight
<1> HIDE DEF F, G
<1>3. Sum(F, T) = Sum(F, S) + F[x] /\ Sum(F, S) \in Nat
  BY <1>1, SumOfOneMore
<1>4. Sum(F, S) = Sum(G, S)
  BY <1>1, SumOfSame
<1>5. QED
  BY <1>1, <1>2, <1>3, <1>4

LEMMA WeightOfNone ==
  ASSUME NEW t, NEW r
  PROVE  Weight(t, r, {}) = 0
BY SumOfNone DEF Weight

LEMMA WeightIsNat ==
  ASSUME NEW t, NEW r, NEW S, IsFiniteSet(S), \A h \in S : BitsOf(t, r, h) \in Nat
  PROVE  Weight(t, r, S) \in Nat
BY SumIsNat DEF Weight

(* Terms are numbered as they are read.                                    *)
LEMMA TermsAreRead ==
  ASSUME Types
  PROVE  /\ Current \in Nat /\ c_systemTerms <= Current + 1
         /\ Current - c_systemTerms + 1 = Len(terms)
         /\ \A r \in Rank : \A h \in c_systemTerms .. Current : BitsOf(terms, r, h) \in Nat
         /\ \A S \in SUBSET (c_systemTerms .. Current) : IsFiniteSet(S)
<1>1. terms \in Seq(Frequency) /\ Len(terms) \in Nat
  BY DEF Types
<1>2. /\ Current = Len(terms) + 2 /\ Current \in Nat /\ c_systemTerms = 3
      /\ Current - c_systemTerms + 1 = Len(terms)
  BY <1>1 DEF Current, Hash, c_systemTerms
<1>3. ASSUME NEW r \in Rank, NEW h \in c_systemTerms .. Current
      PROVE  BitsOf(terms, r, h) \in Nat
  <2>1. h - c_systemTerms + 1 \in 1 .. Len(terms)
    BY <1>1, <1>2
  <2>2. PICK i : i = h - c_systemTerms + 1
    OBVIOUS
  <2>3. terms[i] \in Frequency
    BY <1>1, <2>1, <2>2
  <2>4. FrequencyAtRank[terms[i]][r] \in Nat
    BY <2>3, TermTableAssumption DEF TermTableAssumption
  <2>5. QED
    BY <2>2, <2>4 DEF BitsOf
<1>4. IsFiniteSet(c_systemTerms .. Current)
  BY <1>2, FS_Interval
<1>5. \A S \in SUBSET (c_systemTerms .. Current) : IsFiniteSet(S)
  BY <1>4, FS_Subset
<1>6. QED
  BY <1>2, <1>3, <1>5

LEMMA MembersAreRead ==
  ASSUME Types, Different
  PROVE  /\ Members \subseteq c_systemTerms .. Current
         /\ \A row : Held(row) \in SUBSET (c_systemTerms .. Current) /\ IsFiniteSet(Held(row))
         /\ Explicit \subseteq c_systemTerms .. Current
<1>1. Explicit \subseteq c_systemTerms .. Current
  <2> SUFFICES ASSUME NEW h \in Explicit PROVE h \in c_systemTerms .. Current
    OBVIOUS
  <2>1. h \in Nat /\ h >= c_systemTerms
    BY DEF Types, Explicit
  <2>2. h <= Current /\ Current \in Nat
    BY TermsAreRead DEF Different
  <2>3. QED
    BY <2>1, <2>2 DEF c_systemTerms
<1>2. pc = "assign" => Current \in c_systemTerms .. Current
  BY DEF Types, Current, Hash, c_systemTerms
<1>3. Members \subseteq c_systemTerms .. Current
  BY <1>1, <1>2 DEF Members
<1>4. ASSUME NEW row
      PROVE  Held(row) \in SUBSET (c_systemTerms .. Current) /\ IsFiniteSet(Held(row))
  <2>1. Held(row) \in SUBSET (c_systemTerms .. Current)
    BY <1>3 DEF Held
  <2>2. QED
    BY <2>1, TermsAreRead
<1>5. QED
  BY <1>1, <1>3, <1>4

(* Rows that are held, or have a bin, have been assigned.                  *)
LEMMA HeldIsAssigned ==
  ASSUME Inv, pc # "sealed", NEW h \in Members, NEW p \in PositionsOf(h)
  PROVE  Assigned(m_rowIds[p]) /\ p \in 1 .. Len(m_rowIds) /\ m_rowIds[p] \in Rank \X Nat
<1>1. CASE pc = "assign" /\ h = Current
  <2>1. p \in m_start + 1 .. Len(m_rowIds)
    BY <1>1 DEF PositionsOf
  <2>2. p \in 1 .. Len(m_rowIds)
    BY <2>1 DEF Inv, Types
  <2>3. Assigned(m_rowIds[p])
    BY <1>1, <2>1 DEF Inv, Relative
  <2>4. QED
    BY <2>2, <2>3 DEF Inv, Types
<1>2. CASE ~ (pc = "assign" /\ h = Current)
  <2>1. h \in Explicit /\ p \in Positions(m_termHashToRows[h])
    BY <1>2 DEF Members, PositionsOf
  <2>2. p \in 1 .. Len(m_rowIds)
    BY <2>1, ExplicitWithin
  <2>3. Assigned(m_rowIds[p])
    BY <2>1 DEF Inv, Relative
  <2>4. QED
    BY <2>2, <2>3 DEF Inv, Types
<1>3. QED
  BY <1>1, <1>2

LEMMA NotAssignedIsNotHeld ==
  ASSUME Inv, pc # "sealed", NEW row, ~ Assigned(row)
  PROVE  Held(row) = {}
BY HeldIsAssigned DEF Held, Has

-----------------------------------------------------------------------------
(* The steps that give no term a row.                                      *)
TermsStay == \A i \in 1 .. Len(terms) : terms'[i] = terms[i]

LEMMA LoadStays ==
  ASSUME Types, Different, TermsStay, NEW row, Held(row)' = Held(row)
  PROVE  Load(row)' = Load(row)
<1> DEFINE S == Held(row)
<1>1. S \in SUBSET (c_systemTerms .. Current) /\ IsFiniteSet(S)
  BY MembersAreRead
<1>2. Current \in Nat /\ Current - c_systemTerms + 1 = Len(terms)
  BY TermsAreRead
<1>3. ASSUME NEW h \in S
      PROVE  terms'[h - c_systemTerms + 1] = terms[h - c_systemTerms + 1]
  <2>1. h \in c_systemTerms .. Current
    BY <1>1
  <2>2. h - c_systemTerms + 1 \in 1 .. Len(terms)
    BY <1>2, <2>1 DEF c_systemTerms
  <2>3. QED
    BY <2>2 DEF TermsStay
<1>4. Load(row)' = Weight(terms', row[1], S)
  BY DEF Load
<1>5. Weight(terms', row[1], S) = Weight(terms, row[1], S)
  <2>1. PICK t, u, r : t = terms' /\ u = terms /\ r = row[1]
    OBVIOUS
  <2>2. \A h \in S : t[h - c_systemTerms + 1] = u[h - c_systemTerms + 1]
    BY <1>3, <2>1
  <2>3. PICK U : U = S
    OBVIOUS
  <2>4. IsFiniteSet(U) /\ \A h \in U : t[h - c_systemTerms + 1] = u[h - c_systemTerms + 1]
    BY <1>1, <2>2, <2>3
  <2>5. Weight(t, r, U) = Weight(u, r, U)
    BY <2>4, WeightStays
  <2>6. QED
    BY <2>1, <2>3, <2>5
<1>6. QED
  BY <1>4, <1>5 DEF Load

LEMMA HeldStays ==
  ASSUME Inv, pc # "sealed", Members \subseteq Members',
         \A h \in Members' : \/ h \in Members /\ PositionsOf(h)' = PositionsOf(h)
                             \/ PositionsOf(h)' = {},
         \A h \in Members : PositionsOf(h)' = PositionsOf(h),
         \A p \in 1 .. Len(m_rowIds) : m_rowIds'[p] = m_rowIds[p],
         NEW row
  PROVE  Held(row)' = Held(row)
<1>1. ASSUME NEW h \in Held(row)' PROVE h \in Held(row)
  <2>1. PICK p \in PositionsOf(h)' : m_rowIds'[p] = row
    BY DEF Held, Has
  <2>2. h \in Members'
    BY DEF Held
  <2>3. h \in Members /\ p \in PositionsOf(h)
    BY <2>1, <2>2
  <2>4. m_rowIds[p] = row
    BY <2>1, <2>3, HeldIsAssigned
  <2>5. QED
    BY <2>3, <2>4 DEF Held, Has
<1>2. ASSUME NEW h \in Held(row) PROVE h \in Held(row)'
  <2>1. PICK p \in PositionsOf(h) : m_rowIds[p] = row
    BY DEF Held, Has
  <2>2. h \in Members
    BY DEF Held
  <2>3. m_rowIds'[p] = row /\ p \in PositionsOf(h)' /\ h \in Members'
    BY <2>1, <2>2, HeldIsAssigned
  <2>4. QED
    BY <2>3 DEF Held, Has
<1>3. QED
  BY <1>1, <1>2

LEMMA QuietStep ==
  ASSUME Inv, Dense, pc # "sealed", Members \subseteq Members',
         \A h \in Members' : \/ h \in Members /\ PositionsOf(h)' = PositionsOf(h)
                             \/ PositionsOf(h)' = {},
         \A h \in Members : PositionsOf(h)' = PositionsOf(h),
         \A p \in 1 .. Len(m_rowIds) : m_rowIds'[p] = m_rowIds[p],
         TermsStay, m_bins' = m_bins, currentBins = << >>, currentBins' = << >>
  PROVE  /\ \A h \in Members' : \A p, q \in PositionsOf(h)' : m_rowIds'[p] = m_rowIds'[q] => p = q
         /\ (OneBin /\ Fits /\ Shared)'
<1>1. ASSUME NEW row PROVE Load(row)' = Load(row)
  BY HeldStays, LoadStays DEF Inv, Dense
<1>2. \A h \in Members : \A p \in PositionsOf(h) : m_rowIds'[p] = m_rowIds[p]
  BY HeldIsAssigned
<1>3. \A h \in Members' : \A p, q \in PositionsOf(h)' : m_rowIds'[p] = m_rowIds'[q] => p = q
  BY <1>2 DEF Dense, Different
<1>4. OneBin'
  BY DEF Dense, OneBin
<1>5. Fits'
  <2>1. \A r \in Rank : \A b \in m_bins[r] : Load(<<r, b.index>>)' = Load(<<r, b.index>>)
    <3> TAKE r \in Rank
    <3> TAKE b \in m_bins[r]
    <3>1. PICK row : row = <<r, b.index>>
      OBVIOUS
    <3>2. Load(row)' = Load(row)
      BY <1>1
    <3>3. QED
      BY <3>1, <3>2
  <2>2. QED
    BY <2>1 DEF Dense, Fits
<1>6. Shared'
  <2> SUFFICES ASSUME NEW g \in Members', NEW h \in Members',
                      NEW p \in PositionsOf(g)', NEW q \in PositionsOf(h)',
                      m_rowIds'[p] = m_rowIds'[q], g # h
               PROVE  HasBin(m_rowIds[p])'
    BY DEF Shared
  <2>1. g \in Members /\ h \in Members /\ p \in PositionsOf(g) /\ q \in PositionsOf(h)
    OBVIOUS
  <2>2. m_rowIds'[p] = m_rowIds[p] /\ m_rowIds'[q] = m_rowIds[q]
    BY <1>2, <2>1
  <2>3. HasBin(m_rowIds[p])
    BY <2>1, <2>2 DEF Dense, Shared
  <2>4. QED
    BY <2>2, <2>3 DEF HasBin
<1>7. QED
  BY <1>3, <1>4, <1>5, <1>6

LEMMA NoCurrentBins ==
  ASSUME Inv, ~ IsAssigning
  PROVE  currentBins = << >>
BY DEF Inv, Bins

LEMMA MoreTerms ==
  ASSUME Types, NEW f \in Frequency, terms' = Append(terms, f)
  PROVE  TermsStay /\ Current' = Current + 1 /\ Current \in Nat
<1>1. terms \in Seq(Frequency) /\ Len(terms) \in Nat
  BY DEF Types
<1>2. Len(terms') = Len(terms) + 1 /\ TermsStay
  BY <1>1 DEF TermsStay
<1>3. QED
  BY <1>1, <1>2 DEF Current, Hash, c_systemTerms

LEMMA AddAdhocTermDense ==
  ASSUME Inv, Dense, NEW f \in Frequency, AddAdhocTerm(f)
  PROVE  Dense'
<1>1. /\ pc = "terms" /\ pc' = "terms" /\ terms' = Append(terms, f)
      /\ UNCHANGED <<currentBins, m_bins, m_rowIds, m_start, m_termHashToRows>>
  BY DEF AddAdhocTerm, NextEntry, recorded
<1>2. TermsStay /\ Current' = Current + 1 /\ Current \in Nat
  BY <1>1, MoreTerms DEF Inv
<1>3. Explicit' = Explicit /\ Members' = Members /\ Members = Explicit
  BY <1>1 DEF Explicit, Members
<1>4. \A h : PositionsOf(h)' = PositionsOf(h)
  BY <1>1 DEF PositionsOf, Positions
<1>5. currentBins = << >>
  BY <1>1, NoCurrentBins DEF IsAssigning
<1>6. /\ \A h \in Members' : \A p, q \in PositionsOf(h)' : m_rowIds'[p] = m_rowIds'[q] => p = q
      /\ (OneBin /\ Fits /\ Shared)'
  BY <1>1, <1>2, <1>3, <1>4, <1>5, QuietStep
<1>7. \A h \in Explicit' : h <= Current'
  <2>1. \A h \in Explicit : h \in Nat /\ h <= Current
    BY DEF Inv, Types, Explicit, Dense, Different
  <2>2. QED
    BY <1>2, <1>3, <2>1
<1>8. QED
  BY <1>1, <1>6, <1>7 DEF Dense, Different

LEMMA OpenTermDense ==
  ASSUME Inv, Dense, NEW f \in Frequency, OpenTerm(f)
  PROVE  Dense'
<1>1. /\ pc = "terms" /\ pc' = "assign" /\ terms' = Append(terms, f)
      /\ m_start' = Len(m_rowIds) /\ todo' = Configuration(f)
      /\ UNCHANGED <<currentBins, m_bins, m_rowIds, m_termHashToRows>>
  BY DEF OpenTerm, NextEntry, assigners, maps
<1>2. TermsStay /\ Current' = Current + 1 /\ Current \in Nat
  BY <1>1, MoreTerms DEF Inv
<1>3. Explicit' = Explicit /\ Members' = Members \cup {Current'} /\ Members = Explicit
  BY <1>1 DEF Explicit, Members
<1>4. \A h \in Explicit : h \in Nat /\ h <= Current /\ h < Current' /\ h # Current'
  <2>1. \A h \in Explicit : h \in Nat /\ h <= Current
    BY DEF Inv, Types, Explicit, Dense, Different
  <2>2. QED
    BY <1>2, <2>1
<1>5. PositionsOf(Current)' = {}
  <2>1. Len(m_rowIds) \in Nat
    BY DEF Inv, Types
  <2>2. Len(m_rowIds) + 1 .. Len(m_rowIds) = {}
    BY <2>1
  <2>3. QED
    BY <1>1, <2>2 DEF PositionsOf
<1>6. \A h \in Members : PositionsOf(h)' = PositionsOf(h)
  BY <1>1, <1>3, <1>4 DEF PositionsOf, Positions
<1>7. \A h \in Members' : \/ h \in Members /\ PositionsOf(h)' = PositionsOf(h)
                          \/ PositionsOf(h)' = {}
  <2> TAKE h \in Members'
  <2>1. CASE h = Current'
    BY <1>5, <2>1
  <2>2. CASE h # Current'
    BY <1>3, <1>6, <2>2
  <2>3. QED
    BY <2>1, <2>2
<1>8. currentBins = << >>
  BY <1>1, NoCurrentBins DEF IsAssigning
<1>9. /\ \A h \in Members' : \A p, q \in PositionsOf(h)' : m_rowIds'[p] = m_rowIds'[q] => p = q
      /\ (OneBin /\ Fits /\ Shared)'
  BY <1>1, <1>2, <1>3, <1>6, <1>7, <1>8, QuietStep
<1>10. \A i, j \in 1 .. Len(todo') : todo'[i].rank = todo'[j].rank => i = j
  <2>1. treatment \in Treatments /\ IdfX10[f] \in Idf
    BY TermTableAssumption DEF Inv, Types, TermTableAssumption
  <2>2. QED
    BY <1>1, <2>1, TermTableAssumption DEF TermTableAssumption, Configuration
<1>11. Different'
  <2>1. \A h \in Explicit' : h <= Current' /\ h < Current'
    BY <1>2, <1>3, <1>4
  <2>2. \A p \in PositionsOf(Current)' : \A i \in 1 .. Len(todo') :
          m_rowIds'[p][1] # todo'[i].rank
    BY <1>5
  <2>3. QED
    BY <1>9, <1>10, <2>1, <2>2 DEF Different
<1>12. QED
  BY <1>9, <1>11 DEF Dense

LEMMA CloseTermDense ==
  ASSUME Inv, Dense, CloseTerm
  PROVE  Dense'
<1>1. /\ pc = "assign" /\ pc' = "terms" /\ todo = << >>
      /\ UNCHANGED <<terms, currentBins, m_bins, m_rowIds, m_start>>
      /\ m_termHashToRows' = [h \in DOMAIN m_termHashToRows \cup {Current} |->
                                IF h = Current THEN Recorded ELSE m_termHashToRows[h]]
  BY DEF CloseTerm, assigners, recorded, Current
<1>2. Current' = Current /\ Current \in Nat /\ c_systemTerms <= Current
  BY <1>1 DEF Inv, Types, Current, Hash, c_systemTerms
<1>3. /\ DOMAIN m_termHashToRows' = DOMAIN m_termHashToRows \cup {Current}
      /\ m_termHashToRows'[Current] = Recorded
      /\ \A h \in DOMAIN m_termHashToRows : h # Current =>
           m_termHashToRows'[h] = m_termHashToRows[h]
  BY <1>1
<1>4. Explicit' = Explicit \cup {Current} /\ Members' = Members /\ Members' = Explicit'
  BY <1>1, <1>2, <1>3 DEF Explicit, Members
<1>5. \A h \in Members : PositionsOf(h)' = PositionsOf(h)
  <2> TAKE h \in Members
  <2>1. CASE h = Current
    <3>1. PositionsOf(h)' = Positions(Recorded)
      BY <1>1, <1>3, <2>1 DEF PositionsOf, Positions
    <3>2. PositionsOf(h) = m_start + 1 .. Len(m_rowIds)
      BY <1>1, <2>1 DEF PositionsOf
    <3>3. QED
      BY <3>1, <3>2 DEF Positions, Recorded
  <2>2. CASE h # Current
    <3>1. h \in DOMAIN m_termHashToRows
      BY <2>2 DEF Members, Explicit
    <3>2. QED
      BY <1>1, <1>3, <2>2, <3>1 DEF PositionsOf, Positions
  <2>3. QED
    BY <2>1, <2>2
<1>6. currentBins = << >>
  BY <1>1, NoCurrentBins DEF IsAssigning
<1>7. TermsStay
  BY <1>1 DEF TermsStay
<1>8. /\ \A h \in Members' : \A p, q \in PositionsOf(h)' : m_rowIds'[p] = m_rowIds'[q] => p = q
      /\ (OneBin /\ Fits /\ Shared)'
  BY <1>1, <1>4, <1>5, <1>6, <1>7, QuietStep
<1>9. \A h \in Explicit' : h <= Current'
  BY <1>2, <1>4 DEF Dense, Different
<1>10. QED
  BY <1>1, <1>8, <1>9 DEF Dense, Different

(* After the terms nothing changes but what the recipes add to m_rowIds.   *)
LEMMA RecipesDense ==
  ASSUME Inv, Dense, pc \in {"terms", "recipes", "recipe"}, pc' \in {"recipes", "recipe", "seal"},
         UNCHANGED <<terms, currentBins, m_bins, m_termHashToRows>>,
         \A p \in 1 .. Len(m_rowIds) : m_rowIds'[p] = m_rowIds[p]
  PROVE  Dense'
<1>1. Explicit' = Explicit /\ Members' = Members /\ Members = Explicit /\ Current' = Current
  BY DEF Explicit, Members, Current
<1>2. \A h : PositionsOf(h)' = PositionsOf(h)
  BY DEF PositionsOf, Positions
<1>3. currentBins = << >> /\ TermsStay
  BY NoCurrentBins DEF IsAssigning, TermsStay
<1>4. /\ \A h \in Members' : \A p, q \in PositionsOf(h)' : m_rowIds'[p] = m_rowIds'[q] => p = q
      /\ (OneBin /\ Fits /\ Shared)'
  BY <1>1, <1>2, <1>3, QuietStep
<1>5. QED
  BY <1>1, <1>4 DEF Dense, Different

LEMMA AddRecipeRowsDense ==
  ASSUME Inv, Dense, AddRecipeRows
  PROVE  Dense'
<1> DEFINE rows == [i \in 1 .. Head(todo).rowCount |-> <<rank, 0>>]
<1>1. /\ pc = "recipe" /\ pc' = "recipe" /\ todo # << >> /\ AddRowIds(rows)
      /\ UNCHANGED <<pc, m_start, maps>>
      /\ UNCHANGED <<terms, currentBins, m_bins, m_termHashToRows>>
  BY DEF AddRecipeRows, assigners, maps
<1>2. rows \in Seq({rank} \X Nat)
  BY <1>1, RankIsRank DEF Inv
<1> HIDE DEF rows
<1>3. \A p \in 1 .. Len(m_rowIds) : m_rowIds'[p] = m_rowIds[p]
  BY <1>1, <1>2, AddRowIdsHolds
<1>4. QED
  BY <1>1, <1>3, RecipesDense

LEMMA OtherStepsDense ==
  ASSUME Inv, Dense, AssignUnknown \/ OpenRecipe \/ CloseAdhocTerm \/ SetRowCounts
  PROVE  Dense'
<1>1. /\ pc \in {"terms", "recipes", "recipe"} /\ pc' \in {"recipes", "recipe", "seal"}
      /\ UNCHANGED <<terms, currentBins, m_bins, m_termHashToRows, m_rowIds>>
  BY DEF AssignUnknown, OpenRecipe, CloseAdhocTerm, SetRowCounts, assigners, recorded, maps
<1>2. QED
  BY <1>1, RecipesDense

-----------------------------------------------------------------------------
(* Bins are started and found before the term has the rows.                *)
LEMMA NothingHeldChanges ==
  ASSUME UNCHANGED <<terms, pc, m_start, m_rowIds, m_termHashToRows>>
  PROVE  /\ Explicit' = Explicit /\ Members' = Members /\ Current' = Current
         /\ \A h : PositionsOf(h)' = PositionsOf(h)
         /\ \A row : Held(row)' = Held(row) /\ Load(row)' = Load(row)
<1>1. Explicit' = Explicit /\ Members' = Members /\ Current' = Current
  BY DEF Explicit, Members, Current
<1>2. \A h : PositionsOf(h)' = PositionsOf(h)
  BY DEF PositionsOf, Positions, Current
<1>3. \A row : Held(row)' = Held(row)
  BY <1>1, <1>2 DEF Held, Has
<1>4. \A row : Load(row)' = Load(row)
  BY <1>3 DEF Load
<1>5. QED
  BY <1>1, <1>2, <1>3, <1>4

LEMMA OneMoreBin ==
  ASSUME NEW s \in Seq(Bin), NEW b \in Bin, NEW t, t = Append(s, b)
  PROVE  /\ Len(s) \in Nat /\ Len(t) = Len(s) + 1 /\ t[Len(s) + 1] = b
         /\ \A i \in 1 .. Len(s) : t[i] = s[i] /\ s[i] \in Bin /\ i \in 1 .. Len(t)
         /\ \A i \in 1 .. Len(t) : i \in 1 .. Len(s) \/ i = Len(s) + 1
         /\ Len(s) + 1 \in 1 .. Len(t)
OBVIOUS

LEMMA NextRowIsNew ==
  ASSUME Inv, Dense, IsAssigning
  PROVE  /\ rank \in Rank /\ m_currentRow[rank] \in Nat
         /\ Held(<<rank, m_currentRow[rank]>>) = {} /\ Load(<<rank, m_currentRow[rank]>>) = 0
         /\ \A b \in m_bins[rank] : b.index # m_currentRow[rank]
         /\ \A i \in 1 .. Len(currentBins) : currentBins[i].index # m_currentRow[rank]
<1>1. rank \in Rank /\ m_currentRow[rank] \in Nat
  BY RankIsRank DEF Inv, Types, IsAssigning
<1>2. PICK r, n : r = rank /\ n = m_currentRow[rank]
  OBVIOUS
<1>3. \A i : Assigned(<<r, i>>) => i < n
  BY <1>2 DEF Assigned, Within
<1>4. ~ Assigned(<<r, n>>)
  BY <1>1, <1>2, <1>3
<1>5. Held(<<r, n>>) = {}
  BY <1>4, NotAssignedIsNotHeld DEF IsAssigning
<1>6. Load(<<r, n>>) = 0
  BY <1>5, WeightOfNone DEF Load
<1>7. ASSUME NEW b \in m_bins[rank] PROVE b.index # n
  <2>1. Assigned(<<r, b.index>>)
    BY <1>1, <1>2 DEF Inv, Bins
  <2>2. QED
    BY <1>4, <2>1
<1>8. ASSUME NEW i \in 1 .. Len(currentBins) PROVE currentBins[i].index # n
  <2>1. Assigned(<<r, currentBins[i].index>>)
    BY <1>2 DEF Inv, Bins
  <2>2. QED
    BY <1>4, <2>1
<1>9. QED
  BY <1>1, <1>2, <1>5, <1>6, <1>7, <1>8

LEMMA StartBinDense ==
  ASSUME Inv, Dense, StartBin
  PROVE  Dense'
<1>1. /\ IsAssigning /\ pc = "assign" /\ f_rank < density
      /\ currentBins' = Append(currentBins, [space |-> density - f_rank,
                                             index |-> m_currentRow[rank]])
      /\ UNCHANGED <<terms, pc, todo, m_bins, m_start, m_rowIds, m_termHashToRows>>
  BY DEF StartBin, IsSharing, IsAssigning, recorded, maps
<1>2. /\ rank \in Rank /\ m_currentRow[rank] \in Nat
      /\ Load(<<rank, m_currentRow[rank]>>) = 0
      /\ \A b \in m_bins[rank] : b.index # m_currentRow[rank]
      /\ \A i \in 1 .. Len(currentBins) : currentBins[i].index # m_currentRow[rank]
  BY <1>1, NextRowIsNew
<1>3. f_rank \in Nat /\ density \in Nat
  BY <1>1, FrequencyIsNat DEF Inv, IsAssigning
<1>4. rank' = rank /\ f_rank' = f_rank
  BY <1>1 DEF rank, f_rank
<1>5. PICK r, n, f, new :
        /\ r = rank /\ n = m_currentRow[rank] /\ f = f_rank
        /\ new = [space |-> density - f, index |-> n]
  OBVIOUS
<1>6. new \in Bin /\ new.index = n /\ new.space + f = density
  BY <1>1, <1>2, <1>3, <1>5 DEF Bin
<1>7. PICK k : k = Len(currentBins) + 1
  OBVIOUS
<1>8. /\ currentBins'[k] = new /\ k \in 1 .. Len(currentBins')
      /\ \A i \in 1 .. Len(currentBins) :
           currentBins'[i] = currentBins[i] /\ i \in 1 .. Len(currentBins')
      /\ \A i \in 1 .. Len(currentBins') : i \in 1 .. Len(currentBins) \/ i = k
  <2>1. currentBins \in Seq(Bin) /\ currentBins' = Append(currentBins, new)
    BY <1>1, <1>5 DEF Inv, Bins
  <2>2. QED
    BY <1>6, <1>7, <2>1, OneMoreBin
<1>9. /\ Explicit' = Explicit /\ Members' = Members /\ Current' = Current
      /\ \A h : PositionsOf(h)' = PositionsOf(h)
      /\ \A row : Held(row)' = Held(row) /\ Load(row)' = Load(row)
  BY <1>1, NothingHeldChanges
<1>10. Different'
  BY <1>1, <1>9 DEF Dense, Different
<1>11. OneBin'
  <2>1. ASSUME NEW i \in 1 .. Len(currentBins'), NEW j \in 1 .. Len(currentBins'),
               currentBins'[i].index = currentBins'[j].index
        PROVE  i = j
    <3>1. \A l \in 1 .. Len(currentBins) : currentBins'[l].index # n
      BY <1>2, <1>5, <1>8
    <3>2. CASE i = k \/ j = k
      BY <1>6, <1>8, <2>1, <3>1, <3>2
    <3>3. CASE i \in 1 .. Len(currentBins) /\ j \in 1 .. Len(currentBins)
      BY <1>8, <2>1, <3>3 DEF Dense, OneBin
    <3>4. QED
      BY <1>8, <3>2, <3>3
  <2>2. \A i \in 1 .. Len(currentBins') : \A b \in m_bins[r] : currentBins'[i].index # b.index
    BY <1>2, <1>5, <1>6, <1>8 DEF Dense, OneBin
  <2>3. QED
    BY <1>1, <1>4, <1>5, <2>1, <2>2 DEF Dense, OneBin
<1>12. Fits'
  <2>1. \A s \in Rank : \A b \in m_bins'[s] : b.space + Load(<<s, b.index>>)' <= density
    BY <1>1, <1>9 DEF Dense, Fits
  <2>2. \A i \in 1 .. Len(currentBins') :
          currentBins'[i].space + f + Load(<<r, currentBins'[i].index>>) <= density
    <3> TAKE i \in 1 .. Len(currentBins')
    <3>1. CASE i \in 1 .. Len(currentBins)
      BY <1>5, <1>8, <3>1 DEF Dense, Fits, Reserved
    <3>2. CASE i = k
      <4>1. Load(<<r, n>>) = 0
        BY <1>2, <1>5
      <4>2. QED
        BY <1>3, <1>6, <1>8, <3>2, <4>1
    <3>3. QED
      BY <1>8, <3>1, <3>2
  <2>3. \A i \in 1 .. Len(currentBins') :
          currentBins'[i].space + f_rank' + Load(Reserved(i))' <= density
    <3> TAKE i \in 1 .. Len(currentBins')
    <3>1. PICK row : row = <<r, currentBins'[i].index>>
      OBVIOUS
    <3>2. Reserved(i)' = row
      BY <1>4, <1>5, <3>1 DEF Reserved
    <3>3. Load(Reserved(i))' = Load(row)'
      BY <3>2 DEF Load
    <3>4. Load(row)' = Load(row)
      BY <1>9
    <3>5. currentBins'[i].space + f + Load(row) <= density
      BY <2>2, <3>1
    <3>6. QED
      BY <1>4, <1>5, <3>3, <3>4, <3>5
  <2>4. QED
    BY <2>1, <2>3 DEF Fits
<1>13. Shared'
  <2>1. ASSUME NEW row, HasBin(row) PROVE HasBin(row)'
    <3>1. CASE \E i \in 1 .. Len(currentBins) : row = Reserved(i)
      BY <1>4, <1>8, <3>1 DEF HasBin, Reserved
    <3>2. CASE \E s \in Rank : \E b \in m_bins[s] : row = <<s, b.index>>
      BY <1>1, <3>2 DEF HasBin
    <3>3. QED
      BY <2>1, <3>1, <3>2 DEF HasBin
  <2>2. SUFFICES ASSUME NEW g \in Members, NEW h \in Members,
                        NEW p \in PositionsOf(g), NEW q \in PositionsOf(h),
                        m_rowIds[p] = m_rowIds[q], g # h
                 PROVE  HasBin(m_rowIds[p])'
    BY <1>1, <1>9 DEF Shared
  <2>3. PICK row : row = m_rowIds[p]
    OBVIOUS
  <2>4. HasBin(row)
    BY <2>2, <2>3 DEF Dense, Shared
  <2>5. HasBin(row)'
    BY <2>1, <2>4
  <2>6. QED
    BY <1>1, <2>3, <2>5
<1>14. QED
  BY <1>10, <1>11, <1>12, <1>13 DEF Dense

LEMMA FindBinDense ==
  ASSUME Inv, Dense, FindBin
  PROVE  Dense'
<1>1. PICK b \in m_bins[rank] : /\ \E skip \in 0 .. randomSkipDistance : MayFind(b, skip)
                                /\ Reserve(b)
  BY DEF FindBin
<1>2. PICK r, f, new : r = rank /\ f = f_rank /\ new = [b EXCEPT !.space = @ - f]
  OBVIOUS
<1>3. /\ IsSharing /\ IsAssigning /\ pc = "assign"
      /\ currentBins' = Append(currentBins, new) /\ m_bins' = [m_bins EXCEPT ![r] = @ \ {b}]
      /\ UNCHANGED <<terms, pc, todo, m_start, m_rowIds, m_termHashToRows>>
  BY <1>1, <1>2 DEF FindBin, Reserve, IsSharing, IsAssigning, recorded, maps
<1>4. r \in Rank /\ b \in Bin /\ b.space >= f /\ f \in Nat /\ b \in m_bins[r]
  BY <1>1, <1>2, <1>3, FoundBinHasSpace, RankIsRank DEF Inv, IsAssigning
<1>5. rank' = rank /\ f_rank' = f_rank
  BY <1>3 DEF rank, f_rank
<1>6. new \in Bin /\ new.index = b.index /\ new.space + f = b.space
  BY <1>2, <1>4 DEF Bin
<1>7. PICK k : k = Len(currentBins) + 1
  OBVIOUS
<1>8. /\ currentBins'[k] = new /\ k \in 1 .. Len(currentBins')
      /\ \A i \in 1 .. Len(currentBins) :
           currentBins'[i] = currentBins[i] /\ i \in 1 .. Len(currentBins')
      /\ \A i \in 1 .. Len(currentBins') : i \in 1 .. Len(currentBins) \/ i = k
  <2>1. currentBins \in Seq(Bin)
    BY DEF Inv, Bins
  <2>2. QED
    BY <1>3, <1>6, <1>7, <2>1, OneMoreBin
<1>9. /\ m_bins'[r] = m_bins[r] \ {b}
      /\ \A s \in Rank : s # r => m_bins'[s] = m_bins[s]
      /\ \A s \in Rank : m_bins'[s] \subseteq m_bins[s]
  BY <1>3, <1>4 DEF Inv, Bins
<1>10. /\ Explicit' = Explicit /\ Members' = Members /\ Current' = Current
       /\ \A h : PositionsOf(h)' = PositionsOf(h)
       /\ \A row : Held(row)' = Held(row) /\ Load(row)' = Load(row)
  BY <1>3, NothingHeldChanges
<1>11. Different'
  BY <1>3, <1>10 DEF Dense, Different
<1>12. OneBin'
  <2>1. \A l \in 1 .. Len(currentBins) : currentBins'[l].index # new.index
    BY <1>2, <1>4, <1>6, <1>8 DEF Dense, OneBin
  <2>2. ASSUME NEW i \in 1 .. Len(currentBins'), NEW j \in 1 .. Len(currentBins'),
               currentBins'[i].index = currentBins'[j].index
        PROVE  i = j
    <3>1. CASE i = k \/ j = k
      BY <1>8, <2>1, <2>2, <3>1
    <3>2. CASE i \in 1 .. Len(currentBins) /\ j \in 1 .. Len(currentBins)
      BY <1>8, <2>2, <3>2 DEF Dense, OneBin
    <3>3. QED
      BY <1>8, <3>1, <3>2
  <2>3. ASSUME NEW i \in 1 .. Len(currentBins'), NEW c \in m_bins'[r]
        PROVE  currentBins'[i].index # c.index
    <3>1. c \in m_bins[r] /\ c # b
      BY <1>9
    <3>2. CASE i = k
      BY <1>4, <1>6, <1>8, <3>1, <3>2 DEF Dense, OneBin
    <3>3. CASE i \in 1 .. Len(currentBins)
      BY <1>2, <1>8, <3>1, <3>3 DEF Dense, OneBin
    <3>4. QED
      BY <1>8, <3>2, <3>3
  <2>4. \A s \in Rank : \A c, d \in m_bins'[s] : c.index = d.index => c = d
    BY <1>9 DEF Dense, OneBin
  <2>5. QED
    BY <1>2, <1>5, <2>2, <2>3, <2>4 DEF OneBin
<1>13. Fits'
  <2>1. \A s \in Rank : \A c \in m_bins'[s] : c.space + Load(<<s, c.index>>)' <= density
    BY <1>9, <1>10 DEF Dense, Fits
  <2>2. \A i \in 1 .. Len(currentBins') :
          currentBins'[i].space + f + Load(<<r, currentBins'[i].index>>) <= density
    <3> TAKE i \in 1 .. Len(currentBins')
    <3>1. CASE i \in 1 .. Len(currentBins)
      BY <1>2, <1>8, <3>1 DEF Dense, Fits, Reserved
    <3>2. CASE i = k
      <4>1. b.space + Load(<<r, b.index>>) <= density
        BY <1>4 DEF Dense, Fits
      <4>2. QED
        BY <1>6, <1>8, <3>2, <4>1
    <3>3. QED
      BY <1>8, <3>1, <3>2
  <2>3. \A i \in 1 .. Len(currentBins') :
          currentBins'[i].space + f_rank' + Load(Reserved(i))' <= density
    <3> TAKE i \in 1 .. Len(currentBins')
    <3>1. PICK row : row = <<r, currentBins'[i].index>>
      OBVIOUS
    <3>2. Reserved(i)' = row
      BY <1>2, <1>5, <3>1 DEF Reserved
    <3>3. Load(Reserved(i))' = Load(row)'
      BY <3>2 DEF Load
    <3>4. Load(row)' = Load(row)
      BY <1>10
    <3>5. currentBins'[i].space + f + Load(row) <= density
      BY <2>2, <3>1
    <3>6. QED
      BY <1>2, <1>5, <3>3, <3>4, <3>5
  <2>4. QED
    BY <2>1, <2>3 DEF Fits
<1>14. Shared'
  <2>1. ASSUME NEW row, HasBin(row) PROVE HasBin(row)'
    <3>1. CASE \E i \in 1 .. Len(currentBins) : row = Reserved(i)
      BY <1>5, <1>8, <3>1 DEF HasBin, Reserved
    <3>2. ASSUME NEW s \in Rank, NEW c \in m_bins[s], row = <<s, c.index>> PROVE HasBin(row)'
      <4>1. CASE s = r /\ c = b
        <5>1. Reserved(k)' = row
          BY <1>2, <1>5, <1>6, <1>8, <3>2, <4>1 DEF Reserved
        <5>2. QED
          BY <1>8, <5>1 DEF HasBin
      <4>2. CASE ~ (s = r /\ c = b)
        <5>1. c \in m_bins'[s]
          BY <1>9, <3>2, <4>2
        <5>2. QED
          BY <3>2, <5>1 DEF HasBin
      <4>3. QED
        BY <4>1, <4>2
    <3>3. QED
      BY <2>1, <3>1, <3>2 DEF HasBin
  <2>2. SUFFICES ASSUME NEW g \in Members, NEW h \in Members,
                        NEW p \in PositionsOf(g), NEW q \in PositionsOf(h),
                        m_rowIds[p] = m_rowIds[q], g # h
                 PROVE  HasBin(m_rowIds[p])'
    BY <1>3, <1>10 DEF Shared
  <2>3. PICK row : row = m_rowIds[p]
    OBVIOUS
  <2>4. HasBin(row)
    BY <2>2, <2>3 DEF Dense, Shared
  <2>5. HasBin(row)'
    BY <2>1, <2>4
  <2>6. QED
    BY <1>3, <2>3, <2>5
<1>15. QED
  BY <1>11, <1>12, <1>13, <1>14 DEF Dense

-----------------------------------------------------------------------------
(* The term gets rows, all of the rank of its entry.                       *)
In(row, rows) == \E i \in 1 .. Len(rows) : row = rows[i]

LEMMA RowsAreAdded ==
  ASSUME Inv, IsAssigning, NEW rows \in Seq({rank} \X Nat), AddRowIds(rows),
         UNCHANGED <<terms, pc, m_start, m_termHashToRows>>
  PROVE  /\ Explicit' = Explicit /\ Members' = Members /\ Current' = Current
         /\ Current \in Members
         /\ \A h : h # Current => PositionsOf(h)' = PositionsOf(h)
         /\ PositionsOf(Current)' =
              PositionsOf(Current) \cup {Len(m_rowIds) + i : i \in 1 .. Len(rows)}
         /\ \A p \in 1 .. Len(m_rowIds) : m_rowIds'[p] = m_rowIds[p]
         /\ \A i \in 1 .. Len(rows) : m_rowIds'[Len(m_rowIds) + i] = rows[i]
<1>1. pc = "assign" /\ m_rowIds' = m_rowIds \o rows
  BY DEF IsAssigning, AddRowIds
<1>2. PICK n, k, r : n = Len(m_rowIds) /\ k = Len(rows) /\ r = rank
  OBVIOUS
<1>3. /\ m_rowIds \in Seq(Rank \X Nat) /\ rows \in Seq({r} \X Nat)
      /\ n \in Nat /\ k \in Nat /\ m_start \in Nat /\ m_start <= n
  BY <1>2 DEF Inv, Types, Ranges
<1>4. /\ Len(m_rowIds') = n + k
      /\ \A p \in 1 .. n : m_rowIds'[p] = m_rowIds[p]
      /\ \A i \in 1 .. k : m_rowIds'[n + i] = rows[i]
  BY <1>1, <1>2, <1>3
<1>5. Explicit' = Explicit /\ Members' = Members /\ Current' = Current /\ Current \in Members
  BY <1>1 DEF Explicit, Members, Current
<1>6. \A h : h # Current => PositionsOf(h)' = PositionsOf(h)
  BY <1>5 DEF PositionsOf, Positions
<1>7. PositionsOf(Current) = m_start + 1 .. n /\ PositionsOf(Current)' = m_start + 1 .. n + k
  BY <1>1, <1>2, <1>4, <1>5 DEF PositionsOf
<1>8. m_start + 1 .. n + k = (m_start + 1 .. n) \cup {n + i : i \in 1 .. k}
  <2>1. ASSUME NEW p \in m_start + 1 .. n + k, p \notin m_start + 1 .. n
        PROVE  p \in {n + i : i \in 1 .. k}
    <3>1. p - n \in 1 .. k /\ p = n + (p - n)
      BY <1>3, <2>1
    <3>2. QED
      BY <3>1
  <2>2. \A i \in 1 .. k : n + i \in m_start + 1 .. n + k
    BY <1>3
  <2>3. \A p \in m_start + 1 .. n : p \in m_start + 1 .. n + k
    BY <1>3
  <2>4. QED
    BY <2>1, <2>2, <2>3
<1>9. QED
  BY <1>2, <1>4, <1>5, <1>6, <1>7, <1>8

LEMMA AddedRowsHold ==
  ASSUME Inv, Dense, IsAssigning, NEW rows \in Seq({rank} \X Nat), AddRowIds(rows),
         UNCHANGED <<terms, pc, m_start, m_termHashToRows>>,
         \A i, j \in 1 .. Len(rows) : rows[i] = rows[j] => i = j
  PROVE  /\ Different'
         /\ \A row : In(row, rows) => /\ Held(row)' = Held(row) \cup {Current}
                                      /\ Load(row)' = Load(row) + f_rank
         /\ \A row : ~ In(row, rows) => /\ Held(row)' = Held(row)
                                        /\ Load(row)' = Load(row)
<1>1. /\ Explicit' = Explicit /\ Members' = Members /\ Current' = Current
      /\ Current \in Members
      /\ \A h : h # Current => PositionsOf(h)' = PositionsOf(h)
      /\ PositionsOf(Current)' =
           PositionsOf(Current) \cup {Len(m_rowIds) + i : i \in 1 .. Len(rows)}
      /\ \A p \in 1 .. Len(m_rowIds) : m_rowIds'[p] = m_rowIds[p]
      /\ \A i \in 1 .. Len(rows) : m_rowIds'[Len(m_rowIds) + i] = rows[i]
  BY RowsAreAdded
<1>2. PICK r, n, c : r = rank /\ n = Len(m_rowIds) /\ c = Current
  OBVIOUS
<1>3. /\ pc = "assign" /\ pc' = "assign" /\ todo # << >> /\ todo' = Tail(todo)
      /\ r = todo[1].rank /\ r \in Rank
      /\ todo \in Seq(Entries) /\ Len(todo) \in Nat \ {0}
  <2>1. pc = "assign" /\ pc' = "assign" /\ todo # << >> /\ todo' = Tail(todo)
    BY DEF IsAssigning, AddRowIds
  <2>2. todo \in Seq(Entries)
    BY DEF Inv, Types
  <2>3. Len(todo) \in Nat \ {0} /\ Head(todo) = todo[1]
    BY <2>1, <2>2
  <2>4. r \in Rank
    BY <1>2, <2>1, RankIsRank DEF Inv
  <2>5. QED
    BY <1>2, <2>1, <2>2, <2>3, <2>4 DEF rank
<1>4. \A i \in 1 .. Len(rows) : rows[i][1] = r
  BY <1>2
<1>5. \A p \in PositionsOf(c) : m_rowIds[p][1] # r
  BY <1>2, <1>3 DEF Dense, Different
<1>6. \A h \in Members : \A p \in PositionsOf(h) :
        p \in 1 .. n /\ m_rowIds'[p] = m_rowIds[p]
  BY <1>1, <1>2, <1>3, HeldIsAssigned
<1>7. \A p \in PositionsOf(c)' :
        \/ p \in PositionsOf(c) /\ m_rowIds'[p] = m_rowIds[p] /\ m_rowIds'[p][1] # r
        \/ \E i \in 1 .. Len(rows) : p = n + i /\ m_rowIds'[p] = rows[i] /\ m_rowIds'[p][1] = r
  <2> TAKE p \in PositionsOf(c)'
  <2>1. CASE p \in PositionsOf(c)
    BY <1>1, <1>2, <1>5, <1>6, <2>1
  <2>2. CASE p \notin PositionsOf(c)
    <3>1. PICK i \in 1 .. Len(rows) : p = n + i
      BY <1>1, <1>2, <2>2
    <3>2. m_rowIds'[p] = rows[i]
      BY <1>1, <1>2, <3>1
    <3>3. QED
      BY <1>4, <3>1, <3>2
  <2>3. QED
    BY <2>1, <2>2
<1>8. \A i \in 1 .. Len(rows) : n + i \in PositionsOf(c)' /\ m_rowIds'[n + i] = rows[i]
  BY <1>1, <1>2
<1>9. \A h \in Members : h # c => \A p \in PositionsOf(h)' :
        p \in PositionsOf(h) /\ m_rowIds'[p] = m_rowIds[p]
  BY <1>1, <1>2, <1>6
<1>10. \A p \in PositionsOf(c) : p \in PositionsOf(c)'
  BY <1>1, <1>2
<1>11. Different'
  <2>1. \A h \in Explicit' : h <= Current' /\ (pc' = "assign" => h < Current')
    BY <1>1, <1>3 DEF Dense, Different
  <2>2. ASSUME NEW h \in Members, NEW p \in PositionsOf(h)', NEW q \in PositionsOf(h)',
               m_rowIds'[p] = m_rowIds'[q]
        PROVE  p = q
    <3>1. CASE h # c
      BY <1>9, <2>2, <3>1 DEF Dense, Different
    <3>2. CASE h = c
      <4>1. p \in PositionsOf(c)' /\ q \in PositionsOf(c)'
        BY <3>2
      <4>2. CASE m_rowIds'[p][1] = r
        <5>1. PICK i \in 1 .. Len(rows) : p = n + i /\ m_rowIds'[p] = rows[i]
          BY <1>7, <4>1, <4>2
        <5>2. PICK j \in 1 .. Len(rows) : q = n + j /\ m_rowIds'[q] = rows[j]
          BY <1>7, <2>2, <4>1, <4>2
        <5>3. i = j
          BY <2>2, <5>1, <5>2
        <5>4. QED
          BY <5>1, <5>2, <5>3
      <4>3. CASE m_rowIds'[p][1] # r
        <5>1. /\ p \in PositionsOf(c) /\ m_rowIds'[p] = m_rowIds[p]
              /\ q \in PositionsOf(c) /\ m_rowIds'[q] = m_rowIds[q]
          BY <1>7, <2>2, <4>1, <4>3
        <5>2. QED
          BY <1>1, <1>2, <2>2, <5>1 DEF Dense, Different
      <4>4. QED
        BY <4>2, <4>3
    <3>3. QED
      BY <3>1, <3>2
  <2>3. \A i \in 1 .. Len(todo') : i + 1 \in 1 .. Len(todo) /\ i + 1 # 1 /\ todo'[i] = todo[i + 1]
    BY <1>3
  <2>4. \A i, j \in 1 .. Len(todo) : todo[i].rank = todo[j].rank => i = j
    BY <1>3 DEF Dense, Different
  <2>5. ASSUME NEW p \in PositionsOf(c)', NEW i \in 1 .. Len(todo')
        PROVE  m_rowIds'[p][1] # todo'[i].rank
    <3>1. PICK j : j = i + 1
      OBVIOUS
    <3>2. j \in 1 .. Len(todo) /\ j # 1 /\ todo'[i] = todo[j] /\ 1 \in 1 .. Len(todo)
      BY <1>3, <2>3, <3>1
    <3>3. todo[j].rank # r
      BY <1>3, <2>4, <3>2
    <3>4. CASE m_rowIds'[p][1] = r
      BY <3>2, <3>3, <3>4
    <3>5. CASE m_rowIds'[p][1] # r
      <4>1. p \in PositionsOf(c) /\ m_rowIds'[p] = m_rowIds[p]
        BY <1>7, <3>5
      <4>2. QED
        BY <1>2, <1>3, <3>2, <4>1 DEF Dense, Different
    <3>6. QED
      BY <3>4, <3>5
  <2>6. \A i, j \in 1 .. Len(todo') : todo'[i].rank = todo'[j].rank => i = j
    <3> TAKE i, j \in 1 .. Len(todo')
    <3>1. i \in Int /\ j \in Int
      OBVIOUS
    <3>2. PICK k, l : k = i + 1 /\ l = j + 1
      OBVIOUS
    <3>3. /\ k \in 1 .. Len(todo) /\ todo'[i] = todo[k]
          /\ l \in 1 .. Len(todo) /\ todo'[j] = todo[l]
      BY <2>3, <3>2
    <3>4. todo'[i].rank = todo'[j].rank => k = l
      BY <2>4, <3>3
    <3>5. QED
      BY <3>1, <3>2, <3>4
  <2>7. QED
    BY <1>1, <1>2, <2>1, <2>2, <2>5, <2>6 DEF Different
<1>12. ASSUME NEW row, In(row, rows)
       PROVE  Held(row)' = Held(row) \cup {c} /\ c \notin Held(row) /\ row[1] = r
  <2>1. row[1] = r
    BY <1>4, <1>12 DEF In
  <2>2. c \notin Held(row)
    BY <1>5, <2>1 DEF Held, Has
  <2>3. c \in Held(row)'
    BY <1>1, <1>2, <1>8, <1>12 DEF In, Held, Has
  <2>4. \A h \in Members : h # c => (h \in Held(row)' <=> h \in Held(row))
    BY <1>1, <1>2, <1>6, <1>9 DEF Held, Has
  <2>5. QED
    BY <1>1, <2>1, <2>2, <2>3, <2>4 DEF Held
<1>13. ASSUME NEW row, ~ In(row, rows) PROVE Held(row)' = Held(row)
  <2>1. \A h \in Members : h # c => (h \in Held(row)' <=> h \in Held(row))
    BY <1>1, <1>2, <1>6, <1>9 DEF Held, Has
  <2>2. c \in Held(row)' => c \in Held(row)
    BY <1>1, <1>2, <1>7, <1>13 DEF In, Held, Has
  <2>3. c \in Held(row) => c \in Held(row)'
    BY <1>1, <1>2, <1>6, <1>10 DEF Held, Has
  <2>4. QED
    BY <1>1, <2>1, <2>2, <2>3 DEF Held
<1>14. TermsStay
  BY DEF TermsStay
<1>15. ASSUME NEW row, ~ In(row, rows) PROVE Load(row)' = Load(row)
  BY <1>13, <1>14, <1>15, LoadStays DEF Inv, Dense
<1>16. ASSUME NEW row, In(row, rows) PROVE Load(row)' = Load(row) + f_rank
  <2>1. PICK S, t : S = Held(row) /\ t = terms
    OBVIOUS
  <2>2. /\ S \in SUBSET (c_systemTerms .. c) /\ IsFiniteSet(S) /\ c \in c_systemTerms .. c
        /\ c \notin S
    BY <1>1, <1>2, <1>12, <1>16, <2>1, MembersAreRead DEF Inv, Dense
  <2>3. \A h \in S \cup {c} : BitsOf(t, r, h) \in Nat
    BY <1>2, <1>3, <2>1, <2>2, TermsAreRead DEF Inv
  <2>4. Weight(t, r, S \cup {c}) = Weight(t, r, S) + BitsOf(t, r, c)
    BY <2>2, <2>3, WeightOfOneMore
  <2>5. BitsOf(t, r, c) = f_rank
    <3>1. c - c_systemTerms + 1 = Len(terms)
      BY <1>2, TermsAreRead DEF Inv
    <3>2. QED
      BY <1>2, <2>1, <3>1 DEF BitsOf, f_rank
  <2>6. Load(row)' = Weight(t, r, S \cup {c})
    BY <1>12, <1>16, <2>1 DEF Load
  <2>7. Load(row) = Weight(t, r, S)
    BY <1>12, <1>16, <2>1 DEF Load
  <2>8. QED
    BY <2>4, <2>5, <2>6, <2>7
<1>17. QED
  BY <1>2, <1>11, <1>12, <1>13, <1>15, <1>16

LEMMA LoadIsNat ==
  ASSUME Inv, Dense, NEW row, row[1] \in Rank
  PROVE  Load(row) \in Nat
<1>1. PICK S, t, r : S = Held(row) /\ t = terms /\ r = row[1]
  OBVIOUS
<1>2. S \in SUBSET (c_systemTerms .. Current) /\ IsFiniteSet(S)
  BY <1>1, MembersAreRead DEF Inv, Dense
<1>3. \A h \in S : BitsOf(t, r, h) \in Nat
  BY <1>1, <1>2, TermsAreRead DEF Inv
<1>4. Weight(t, r, S) \in Nat
  BY <1>2, <1>3, WeightIsNat
<1>5. QED
  BY <1>1, <1>4 DEF Load

LEMMA AssignPrivateDense ==
  ASSUME Inv, Dense, AssignPrivate
  PROVE  Dense'
<1>1. PICK r, new, rows : r = rank /\ new = <<rank, m_currentRow[rank]>> /\ rows = <<new>>
  OBVIOUS
<1>2. /\ IsAssigning /\ pc = "assign" /\ todo # << >> /\ AddRowIds(rows)
      /\ UNCHANGED <<terms, pc, m_start, m_termHashToRows, m_bins, currentBins>>
  BY <1>1 DEF AssignPrivate, IsAssigning, maps
<1>3. /\ r \in Rank /\ m_currentRow[r] \in Nat /\ Held(new) = {}
      /\ \A b \in m_bins[r] : b.index # m_currentRow[r]
  BY <1>1, <1>2, NextRowIsNew
<1>4. rows \in Seq({rank} \X Nat) /\ Len(rows) = 1 /\ rows[1] = new
  BY <1>1, <1>3
<1>5. \A row : In(row, rows) <=> row = new
  BY <1>4 DEF In
<1>6. \A i, j \in 1 .. Len(rows) : rows[i] = rows[j] => i = j
  BY <1>4
<1>7. currentBins = << >> /\ currentBins' = << >>
  <2>1. f_rank >= density /\ f_rank \in Nat /\ density \in Nat
    BY <1>2, FrequencyIsNat DEF Inv, AssignPrivate
  <2>2. QED
    BY <1>2, <2>1 DEF Inv, Bins
<1>8. /\ Different' /\ Held(new)' = {Current}
      /\ \A row : row # new => Held(row)' = Held(row) /\ Load(row)' = Load(row)
  BY <1>2, <1>3, <1>4, <1>5, <1>6, AddedRowsHold
<1>9. OneBin'
  BY <1>2, <1>7 DEF Dense, OneBin
<1>10. Fits'
  <2>1. ASSUME NEW s \in Rank, NEW b \in m_bins[s]
        PROVE  b.space + Load(<<s, b.index>>)' <= density
    <3>1. PICK row : row = <<s, b.index>>
      OBVIOUS
    <3>2. row # new
      BY <1>1, <1>3, <3>1
    <3>3. Load(row)' = Load(row)
      BY <1>8, <3>2
    <3>4. b.space + Load(row) <= density
      BY <3>1 DEF Dense, Fits
    <3>5. QED
      BY <3>1, <3>3, <3>4
  <2>2. QED
    BY <1>2, <1>7, <2>1 DEF Fits
<1>11. Shared'
  <2> SUFFICES ASSUME NEW g \in Members', NEW h \in Members',
                      NEW p \in PositionsOf(g)', NEW q \in PositionsOf(h)',
                      m_rowIds'[p] = m_rowIds'[q], g # h
               PROVE  HasBin(m_rowIds[p])'
    BY DEF Shared
  <2>1. PICK row : row = m_rowIds'[p]
    OBVIOUS
  <2>2. g \in Held(row)' /\ h \in Held(row)'
    BY <2>1 DEF Held, Has
  <2>3. row # new
    BY <1>8, <2>2
  <2>4. g \in Held(row) /\ h \in Held(row)
    BY <1>8, <2>2, <2>3
  <2>5. HasBin(row)
    BY <2>4 DEF Dense, Shared, Held, Has
  <2>6. HasBin(row)'
    BY <1>2, <1>7, <2>5 DEF HasBin
  <2>7. QED
    BY <2>1, <2>6
<1>12. QED
  BY <1>8, <1>9, <1>10, <1>11 DEF Dense

LEMMA AssignSharedDense ==
  ASSUME Inv, Dense, AssignShared
  PROVE  Dense'
<1>1. PICK r, f, rows, bins :
        /\ r = rank /\ f = f_rank
        /\ rows = [i \in 1 .. Len(currentBins) |-> <<rank, currentBins[i].index>>]
        /\ bins = {currentBins[i] : i \in 1 .. Len(currentBins)}
  OBVIOUS
<1>2. /\ IsAssigning /\ pc = "assign" /\ todo # << >> /\ AddRowIds(rows)
      /\ UNCHANGED <<terms, pc, m_start, m_termHashToRows>>
      /\ m_bins' = [m_bins EXCEPT ![r] = @ \cup bins] /\ currentBins' = << >>
  BY <1>1 DEF AssignShared, IsAssigning, maps
<1>3. r \in Rank /\ f \in Nat /\ density \in Nat
  BY <1>1, <1>2, RankIsRank, FrequencyIsNat DEF Inv
<1>4. currentBins \in Seq(Bin) /\ \A i \in 1 .. Len(currentBins) : currentBins[i] \in Bin
  BY DEF Inv, Bins
<1>5. /\ rows \in Seq({rank} \X Nat) /\ Len(rows) = Len(currentBins)
      /\ \A i \in 1 .. Len(rows) : rows[i] = <<r, currentBins[i].index>>
  <2>1. \A i \in 1 .. Len(currentBins) : currentBins[i].index \in Nat
    BY <1>4 DEF Bin
  <2>2. QED
    BY <1>1, <1>4, <2>1
<1>6. \A row : In(row, rows) <=> \E b \in bins : row = <<r, b.index>>
  BY <1>1, <1>5 DEF In
<1>7. \A i, j \in 1 .. Len(rows) : rows[i] = rows[j] => i = j
  BY <1>5 DEF Dense, OneBin
<1>8. /\ Different'
      /\ \A row : In(row, rows) => Load(row)' = Load(row) + f
      /\ \A row : ~ In(row, rows) => Held(row)' = Held(row) /\ Load(row)' = Load(row)
  BY <1>1, <1>2, <1>5, <1>7, AddedRowsHold
<1>9. /\ m_bins'[r] = m_bins[r] \cup bins
      /\ \A s \in Rank : s # r => m_bins'[s] = m_bins[s]
      /\ \A s \in Rank : m_bins[s] \subseteq m_bins'[s]
  BY <1>2, <1>3 DEF Inv, Bins
<1>10. /\ \A b \in bins : \A c \in m_bins[r] : b.index # c.index
       /\ \A b, c \in bins : b.index = c.index => b = c
  BY <1>1 DEF Dense, OneBin
<1>11. \A b \in bins : b \in Bin /\ b.space + f + Load(<<r, b.index>>) <= density
  BY <1>1, <1>4 DEF Dense, Fits, Reserved
<1>12. OneBin'
  <2>1. \A s \in Rank : \A b, c \in m_bins'[s] : b.index = c.index => b = c
    <3> TAKE s \in Rank
    <3>1. CASE s = r
      BY <1>9, <1>10, <3>1 DEF Dense, OneBin
    <3>2. CASE s # r
      BY <1>9, <3>2 DEF Dense, OneBin
    <3>3. QED
      BY <3>1, <3>2
  <2>2. QED
    BY <1>2, <2>1 DEF OneBin
<1>13. Fits'
  <2>1. ASSUME NEW s \in Rank, NEW b \in m_bins'[s]
        PROVE  b.space + Load(<<s, b.index>>)' <= density
    <3>1. PICK row : row = <<s, b.index>>
      OBVIOUS
    <3>2. CASE s = r /\ b \in bins
      <4>1. Load(row)' = Load(row) + f
        BY <1>6, <1>8, <3>1, <3>2
      <4>2. b.space \in Nat /\ b.space + f + Load(row) <= density
        BY <1>11, <3>1, <3>2 DEF Bin
      <4>3. row[1] \in Rank
        BY <3>1
      <4>4. Load(row) \in Nat
        BY <4>3, LoadIsNat
      <4>5. b.space + Load(row)' <= density
        BY <1>3, <4>1, <4>2, <4>4
      <4>6. QED
        BY <3>1, <4>5
    <3>3. CASE ~ (s = r /\ b \in bins)
      <4>1. b \in m_bins[s]
        BY <1>9, <3>3
      <4>2. ~ In(row, rows)
        BY <1>6, <1>10, <3>1, <4>1
      <4>3. Load(row)' = Load(row)
        BY <1>8, <4>2
      <4>4. b.space + Load(row) <= density
        BY <3>1, <4>1 DEF Dense, Fits
      <4>5. QED
        BY <3>1, <4>3, <4>4
    <3>4. QED
      BY <3>2, <3>3
  <2>2. QED
    BY <1>2, <2>1 DEF Fits
<1>14. Shared'
  <2> SUFFICES ASSUME NEW g \in Members', NEW h \in Members',
                      NEW p \in PositionsOf(g)', NEW q \in PositionsOf(h)',
                      m_rowIds'[p] = m_rowIds'[q], g # h
               PROVE  HasBin(m_rowIds[p])'
    BY DEF Shared
  <2>1. PICK row : row = m_rowIds'[p]
    OBVIOUS
  <2>2. g \in Held(row)' /\ h \in Held(row)'
    BY <2>1 DEF Held, Has
  <2>3. CASE In(row, rows)
    <3>1. \E b \in m_bins'[r] : row = <<r, b.index>>
      BY <1>6, <1>9, <2>3
    <3>2. HasBin(row)'
      BY <1>3, <3>1 DEF HasBin
    <3>3. QED
      BY <2>1, <3>2
  <2>4. CASE ~ In(row, rows)
    <3>1. g \in Held(row) /\ h \in Held(row)
      BY <1>8, <2>2, <2>4
    <3>2. HasBin(row)
      BY <3>1 DEF Dense, Shared, Held, Has
    <3>3. ~ \E i \in 1 .. Len(currentBins) : row = Reserved(i)
      BY <1>1, <1>5, <2>4 DEF In, Reserved
    <3>4. \E s \in Rank : \E b \in m_bins[s] : row = <<s, b.index>>
      BY <3>2, <3>3 DEF HasBin
    <3>5. HasBin(row)'
      BY <1>9, <3>4 DEF HasBin
    <3>6. QED
      BY <2>1, <3>5
  <2>5. QED
    BY <2>3, <2>4
<1>15. QED
  BY <1>8, <1>12, <1>13, <1>14 DEF Dense

-----------------------------------------------------------------------------
(* What WithinDensity says is Sparse, in other words.                      *)
LEMMA BitsAreWeight ==
  ASSUME NEW row
  PROVE  (LET Bits(g) == FrequencyAtRank[TermFrequency(g)][row[1]]
          IN  Sets!MapThenSumSet(Bits, Holders(row))) = Weight(terms, row[1], Holders(row))
<1> DEFINE Adding(i, S) ==
      i = [s \in SUBSET S |->
             IF s = {} THEN 0
             ELSE FrequencyAtRank[TermFrequency(Some(s))][row[1]] + i[s \ {Some(s)}]]
<1>1. PICK S, G : S = Holders(row) /\ G = [h \in S |-> BitsOf(terms, row[1], h)]
  OBVIOUS
<1>2. (LET Bits(g) == FrequencyAtRank[TermFrequency(g)][row[1]]
       IN  Sets!MapThenSumSet(Bits, S)) = (CHOOSE i : Adding(i, S))[S]
  BY Zenon DEF Some, Sets!MapThenSumSet, Sets!MapThenFoldSet
<1>3. \A s \in SUBSET S : s # {} => G[Some(s)] = FrequencyAtRank[TermFrequency(Some(s))][row[1]]
  <2> TAKE s \in SUBSET S
  <2>1. s # {} => Some(s) \in S
    BY DEF Some
  <2>2. QED
    BY <1>1, <2>1 DEF BitsOf, TermFrequency
<1>4. \A i : Adding(i, S) <=> Summing(i, G, S)
  BY <1>3 DEF Summing
<1> HIDE DEF Adding
<1>5. (CHOOSE i : Adding(i, S)) = (CHOOSE i : Summing(i, G, S))
  BY <1>4
<1>6. Sum(G, S) = (CHOOSE i : Summing(i, G, S))[S]
  BY SumIsOf
<1>7. QED
  BY <1>1, <1>2, <1>5, <1>6 DEF Weight

LEMMA RowsOfDifferentPositions ==
  ASSUME Inv, NEW h \in Explicit,
         \A p, q \in Positions(m_termHashToRows[h]) : m_rowIds[p] = m_rowIds[q] => p = q
  PROVE  Cardinality(ExplicitRows(h)) = Cardinality(Positions(m_termHashToRows[h]))
<1>1. PICK P, R, F : /\ P = Positions(m_termHashToRows[h]) /\ R = ExplicitRows(h)
                     /\ F = [p \in P |-> m_rowIds[p]]
  OBVIOUS
<1>2. IsFiniteSet(P)
  <2>1. m_termHashToRows[h] \in Packed
    BY DEF Inv, Types, Explicit
  <2>2. PICK a \in Nat, b \in Nat : P = a + 1 .. b
    BY <1>1, <2>1 DEF Packed, Positions
  <2>3. a + 1 \in Int /\ b \in Int
    OBVIOUS
  <2>4. IsFiniteSet(a + 1 .. b)
    BY <2>3, FS_Interval
  <2>5. QED
    BY <2>2, <2>4
<1>3. R = {F[p] : p \in P}
  BY <1>1 DEF ExplicitRows
<1>4. F \in [P -> R] /\ \A a, b \in P : F[a] = F[b] => a = b
  BY <1>1, <1>3
<1>5. F \in Injection(P, R) /\ F \in Surjection(P, R)
  BY <1>3, <1>4 DEF Injection, Surjection, IsInjective
<1>6. QED
  BY <1>1, <1>2, <1>5, FS_Surjection

LEMMA SparseIsWithinDensity ==
  ASSUME Inv, Sparse
  PROVE  WithinDensity
<1> SUFFICES ASSUME NEW h \in Explicit
             PROVE  /\ Cardinality(ExplicitRows(h)) = Cardinality(Positions(m_termHashToRows[h]))
                    /\ \A row \in ExplicitRows(h) :
                         \/ Holders(row) = {h}
                         \/ LET Bits(g) == FrequencyAtRank[TermFrequency(g)][row[1]]
                            IN  Sets!MapThenSumSet(Bits, Holders(row)) <= density
  BY Zenon DEF WithinDensity
<1>1. Cardinality(ExplicitRows(h)) = Cardinality(Positions(m_termHashToRows[h]))
  BY RowsOfDifferentPositions DEF Sparse
<1>2. ASSUME NEW row \in ExplicitRows(h)
      PROVE  Holders(row) = {h} \/ Weight(terms, row[1], Holders(row)) <= density
  BY DEF Sparse, ExplicitRows
<1>3. ASSUME NEW row \in ExplicitRows(h)
      PROVE  \/ Holders(row) = {h}
             \/ LET Bits(g) == FrequencyAtRank[TermFrequency(g)][row[1]]
                IN  Sets!MapThenSumSet(Bits, Holders(row)) <= density
  <2> DEFINE w == LET Bits(g) == FrequencyAtRank[TermFrequency(g)][row[1]]
                  IN  Sets!MapThenSumSet(Bits, Holders(row))
  <2>1. w = Weight(terms, row[1], Holders(row))
    BY BitsAreWeight
  <2> HIDE DEF w
  <2>2. Holders(row) = {h} \/ w <= density
    BY <1>2, <2>1
  <2>3. QED
    BY <2>2 DEF w
<1>4. QED
  BY <1>1, <1>3

-----------------------------------------------------------------------------
LEMMA BinnedWithinDensity ==
  ASSUME Inv, Dense, NEW row, HasBin(row)
  PROVE  row[1] \in Rank /\ Load(row) \in Nat /\ Load(row) <= density
<1>1. CASE \E r \in Rank : \E b \in m_bins[r] : row = <<r, b.index>>
  <2>1. PICK r \in Rank : \E b \in m_bins[r] : row = <<r, b.index>>
    BY <1>1
  <2>2. PICK b \in m_bins[r] : row = <<r, b.index>>
    BY <2>1
  <2>3. b.space \in Nat
    BY DEF Inv, Bins, Bin
  <2>4. b.space + Load(row) <= density
    BY <2>2 DEF Dense, Fits
  <2>5. Load(row) \in Nat /\ row[1] \in Rank
    BY <2>2, LoadIsNat
  <2>6. QED
    BY <2>3, <2>4, <2>5, TermTableAssumption DEF TermTableAssumption
<1>2. CASE \E i \in 1 .. Len(currentBins) : row = Reserved(i)
  <2>1. PICK i \in 1 .. Len(currentBins) : row = Reserved(i)
    BY <1>2
  <2>2. currentBins[i].space \in Nat /\ currentBins # << >>
    <3>1. currentBins \in Seq(Bin)
      BY DEF Inv, Bins
    <3>2. currentBins[i] \in Bin /\ currentBins # << >>
      BY <3>1
    <3>3. QED
      BY <3>2 DEF Bin
  <2>3. rank \in Rank /\ f_rank \in Nat
    BY <2>2, RankIsRank, FrequencyIsNat DEF Inv, Bins, IsAssigning
  <2>4. currentBins[i].space + f_rank + Load(row) <= density
    BY <2>1 DEF Dense, Fits
  <2>5. row[1] \in Rank
    BY <2>1, <2>3 DEF Reserved
  <2>6. Load(row) \in Nat
    BY <2>5, LoadIsNat
  <2>7. QED
    BY <2>2, <2>3, <2>4, <2>5, <2>6, TermTableAssumption DEF TermTableAssumption
<1>3. QED
  BY <1>1, <1>2 DEF HasBin

LEMMA DenseIsSparse ==
  ASSUME Inv, Dense
  PROVE  Sparse
<1>1. \A h \in Explicit : h \in Members /\ PositionsOf(h) = Positions(m_termHashToRows[h])
  <2> TAKE h \in Explicit
  <2>1. pc = "assign" => h # Current
    BY TermsAreRead DEF Inv, Types, Explicit, Dense, Different
  <2>2. QED
    BY <2>1 DEF Members, PositionsOf
<1>2. ASSUME NEW row PROVE Held(row) = Holders(row) \/ (/\ Held(row) = Holders(row) \cup {Current}
                                                        /\ Current \notin Holders(row))
  <2>1. \A h \in Explicit : Has(h, row) <=> row \in ExplicitRows(h)
    BY <1>1 DEF Has, ExplicitRows
  <2>2. \A h \in Explicit : h \in Held(row) <=> h \in Holders(row)
    BY <1>1, <2>1 DEF Held, Holders
  <2>3. \A h \in Held(row) : h \in Explicit \/ h = Current
    BY DEF Held, Members
  <2>4. \A h \in Holders(row) : h \in Explicit
    BY DEF Holders
  <2>5. QED
    BY <2>2, <2>3, <2>4
<1>3. ASSUME NEW row, HasBin(row)
      PROVE  Weight(terms, row[1], Holders(row)) <= density
  <2>1. row[1] \in Rank /\ Load(row) \in Nat /\ Load(row) <= density
    BY <1>3, BinnedWithinDensity
  <2>2. CASE Held(row) = Holders(row)
    BY <2>1, <2>2 DEF Load
  <2>3. CASE Held(row) = Holders(row) \cup {Current} /\ Current \notin Holders(row)
    <3>1. PICK S, t, r, c : S = Holders(row) /\ t = terms /\ r = row[1] /\ c = Current
      OBVIOUS
    <3>2. /\ S \cup {c} \in SUBSET (c_systemTerms .. Current) /\ IsFiniteSet(S \cup {c})
          /\ c \notin S
      BY <2>3, <3>1, MembersAreRead DEF Inv, Dense
    <3>3. IsFiniteSet(S)
      BY <3>2, FS_Subset
    <3>4. \A h \in S \cup {c} : BitsOf(t, r, h) \in Nat
      BY <2>1, <3>1, <3>2, TermsAreRead DEF Inv
    <3>5. /\ Weight(t, r, S \cup {c}) = Weight(t, r, S) + BitsOf(t, r, c)
          /\ Weight(t, r, S) \in Nat /\ BitsOf(t, r, c) \in Nat
      BY <3>2, <3>3, <3>4, WeightOfOneMore
    <3>6. Load(row) = Weight(t, r, S \cup {c})
      BY <2>3, <3>1 DEF Load
    <3>7. Weight(t, r, S) <= density
      BY <2>1, <3>5, <3>6, TermTableAssumption DEF TermTableAssumption
    <3>8. QED
      BY <3>1, <3>7
  <2>4. QED
    BY <1>2, <2>2, <2>3
<1>4. ASSUME NEW h \in Explicit, NEW p \in Positions(m_termHashToRows[h])
      PROVE  \/ Holders(m_rowIds[p]) = {h}
             \/ Weight(terms, m_rowIds[p][1], Holders(m_rowIds[p])) <= density
  <2>1. PICK row : row = m_rowIds[p]
    OBVIOUS
  <2>2. h \in Holders(row)
    BY <2>1 DEF Holders, ExplicitRows
  <2>3. ASSUME NEW g \in Holders(row), g # h PROVE HasBin(row)
    <3>1. PICK q \in Positions(m_termHashToRows[g]) : m_rowIds[q] = row
      BY DEF Holders, ExplicitRows
    <3>2. /\ g \in Members /\ q \in PositionsOf(g)
          /\ h \in Members /\ p \in PositionsOf(h)
      BY <1>1, <3>1 DEF Holders
    <3>3. QED
      BY <2>1, <2>3, <3>1, <3>2 DEF Dense, Shared
  <2>4. CASE HasBin(row)
    BY <1>3, <2>1, <2>4
  <2>5. CASE ~ HasBin(row)
    BY <2>1, <2>2, <2>3, <2>5
  <2>6. QED
    BY <2>4, <2>5
<1>5. QED
  BY <1>1, <1>4 DEF Sparse, Dense, Different

LEMMA InitiallyDense == Init => Dense
<1> SUFFICES ASSUME Init PROVE Dense
  OBVIOUS
<1>1. Explicit = {} /\ Members = {}
  BY DEF Init, Explicit, Members, c_systemTerms
<1>2. /\ pc = "terms" /\ currentBins = << >> /\ Len(currentBins) = 0
      /\ \A r \in Rank : m_bins[r] = {}
  BY DEF Init
<1>3. Different /\ Shared
  BY <1>1, <1>2 DEF Different, Shared
<1>4. OneBin /\ Fits
  BY <1>2 DEF OneBin, Fits
<1>5. QED
  BY <1>3, <1>4 DEF Dense

(* Seal moves the rows of a rank by the same distance.                     *)
LEMMA SealMoves ==
  ASSUME Inv, Seal, NEW h \in Explicit, NEW p \in Positions(m_termHashToRows[h])
  PROVE  \E r \in Rank, i \in Nat :
           /\ m_rowIds[p] = <<r, i>>
           /\ m_rowIds'[p] = <<r, i + m_adhocRowCounts[r] - Low(r)>>
           /\ m_adhocRowCounts[r] \in Nat /\ Low(r) \in Nat
<1>1. /\ pc = "seal"
      /\ m_rowIds' = [q \in 1 .. Len(m_rowIds) |->
                        IF IsExplicit(q) THEN Sealed(q) ELSE m_rowIds[q]]
  BY DEF Seal
<1>2. p \in 1 .. Len(m_rowIds) /\ ~ (p <= c_systemTerms) /\ IsExplicit(p)
  <2>1. p \in c_systemTerms + 1 .. Len(m_rowIds) /\ p \in 1 .. Len(m_rowIds)
    BY ExplicitWithin
  <2>2. IsExplicit(p)
    BY DEF IsExplicit, Explicit
  <2>3. QED
    BY <2>1, <2>2 DEF c_systemTerms
<1>3. m_rowIds[p] \in Rank \X Nat
  BY <1>2 DEF Inv, Types
<1>4. PICK r \in Rank, i \in Nat : m_rowIds[p] = <<r, i>>
  BY <1>3
<1>5. m_adhocRowCounts[r] \in Nat /\ Low(r) \in Nat
  BY <1>1 DEF Inv, Counted, Low, c_systemTerms
<1>6. m_rowIds'[p] = Sealed(p)
  BY <1>1, <1>2
<1>7. Sealed(p) = <<r, i + m_adhocRowCounts[r] - Low(r)>>
  <2>1. CASE r = 0
    BY <1>2, <1>4, <2>1 DEF Sealed, Low
  <2>2. CASE r # 0
    <3>1. Sealed(p) = <<r, i + m_adhocRowCounts[r]>>
      BY <1>4, <2>2 DEF Sealed
    <3>2. i + m_adhocRowCounts[r] - Low(r) = i + m_adhocRowCounts[r]
      BY <1>5, <2>2 DEF Low
    <3>3. QED
      BY <3>1, <3>2
  <2>3. QED
    BY <2>1, <2>2
<1>8. QED
  BY <1>4, <1>5, <1>6, <1>7

LEMMA SealSparse ==
  ASSUME Inv, Sparse, Seal
  PROVE  Sparse'
<1>1. UNCHANGED <<terms, m_termHashToRows>>
  BY DEF Seal, maps
<1>2. ASSUME NEW g \in Explicit, NEW h \in Explicit,
             NEW p \in Positions(m_termHashToRows[g]), NEW q \in Positions(m_termHashToRows[h])
      PROVE  /\ m_rowIds'[p] = m_rowIds'[q] <=> m_rowIds[p] = m_rowIds[q]
             /\ m_rowIds'[p][1] = m_rowIds[p][1]
  <2>1. PICK r \in Rank, i \in Nat :
          /\ m_rowIds[p] = <<r, i>>
          /\ m_rowIds'[p] = <<r, i + m_adhocRowCounts[r] - Low(r)>>
          /\ m_adhocRowCounts[r] \in Nat /\ Low(r) \in Nat
    BY SealMoves
  <2>2. PICK s \in Rank, j \in Nat :
          /\ m_rowIds[q] = <<s, j>>
          /\ m_rowIds'[q] = <<s, j + m_adhocRowCounts[s] - Low(s)>>
    BY SealMoves
  <2>3. PICK a, b : a = m_adhocRowCounts[r] /\ b = Low(r)
    OBVIOUS
  <2>4. r = s => (i + a - b = j + a - b <=> i = j)
    BY <2>1, <2>3
  <2>5. QED
    BY <2>1, <2>2, <2>3, <2>4
<1>3. Explicit' = Explicit
  BY <1>1 DEF Explicit
<1>4. ASSUME NEW h \in Explicit, NEW p \in Positions(m_termHashToRows[h])
      PROVE  Holders(m_rowIds[p])' = Holders(m_rowIds[p])
  <2>1. \A g \in Explicit : m_rowIds'[p] \in ExplicitRows(g)' <=> m_rowIds[p] \in ExplicitRows(g)
    <3> TAKE g \in Explicit
    <3>1. m_rowIds'[p] \in ExplicitRows(g)' <=>
            \E q \in Positions(m_termHashToRows[g]) : m_rowIds'[p] = m_rowIds'[q]
      BY <1>1 DEF ExplicitRows, Positions
    <3>2. m_rowIds[p] \in ExplicitRows(g) <=>
            \E q \in Positions(m_termHashToRows[g]) : m_rowIds[p] = m_rowIds[q]
      BY DEF ExplicitRows
    <3>3. QED
      BY <1>2, <3>1, <3>2
  <2>2. QED
    BY <1>3, <2>1 DEF Holders
<1>5. \A h \in Explicit : Positions(m_termHashToRows[h])' = Positions(m_termHashToRows[h])
  BY <1>1 DEF Positions
<1>6. ASSUME NEW h \in Explicit, NEW p \in Positions(m_termHashToRows[h])
      PROVE  \/ Holders(m_rowIds[p])' = {h}
             \/ Weight(terms, m_rowIds[p][1], Holders(m_rowIds[p]))' <= density
  <2>1. m_rowIds'[p][1] = m_rowIds[p][1]
    BY <1>2
  <2>2. Weight(terms, m_rowIds[p][1], Holders(m_rowIds[p]))'
          = Weight(terms, m_rowIds[p][1], Holders(m_rowIds[p]))
    BY <1>1, <1>4, <2>1
  <2>3. QED
    BY <1>4, <2>2 DEF Sparse
<1>7. \A h \in Explicit : \A p, q \in Positions(m_termHashToRows[h]) :
        m_rowIds'[p] = m_rowIds'[q] => p = q
  BY <1>2 DEF Sparse
<1>8. QED
  BY <1>3, <1>5, <1>6, <1>7 DEF Sparse

LEMMA NextDense ==
  ASSUME DensityInv, [Next]_vars
  PROVE  DensityInv'
<1>1. Inv /\ Inv'
  BY NextHolds DEF DensityInv
<1>2. CASE pc = "sealed"
  <2>1. UNCHANGED <<pc, terms, m_termHashToRows, m_rowIds>>
    BY <1>2 DEF Next, AddAdhocTerm, OpenTerm, NextEntry, AssignPrivate, StartBin, FindBin,
                AssignShared, IsSharing, IsAssigning, CloseTerm, AssignUnknown, OpenRecipe,
                AddRecipeRows, CloseAdhocTerm, SetRowCounts, Seal, vars, recorded, maps
  <2>2. Explicit' = Explicit
    BY <2>1 DEF Explicit
  <2>3. \A row : Holders(row)' = Holders(row)
    BY <2>1, <2>2 DEF Holders, ExplicitRows, Positions
  <2>4. \A h \in Explicit : Positions(m_termHashToRows[h])' = Positions(m_termHashToRows[h])
    BY <2>1 DEF Positions
  <2>5. Sparse'
    BY <1>2, <2>1, <2>2, <2>3, <2>4 DEF DensityInv, Sparse
  <2>6. QED
    BY <1>1, <1>2, <2>1, <2>5 DEF DensityInv
<1>3. CASE pc # "sealed" /\ Seal
  <2>1. Sparse
    BY <1>1, <1>3, DenseIsSparse DEF DensityInv
  <2>2. Sparse' /\ pc' = "sealed"
    BY <1>1, <1>3, <2>1, SealSparse DEF Seal
  <2>3. QED
    BY <1>1, <2>2 DEF DensityInv
<1>4. CASE pc # "sealed" /\ ~ Seal
  <2>1. Dense
    BY <1>4 DEF DensityInv
  <2>2. Dense'
    <3>1. CASE \E f \in Frequency : AddAdhocTerm(f) \/ OpenTerm(f)
      BY <1>1, <2>1, <3>1, AddAdhocTermDense, OpenTermDense
    <3>2. CASE AssignPrivate \/ StartBin \/ FindBin \/ AssignShared \/ CloseTerm
      BY <1>1, <2>1, <3>2, AssignPrivateDense, StartBinDense, FindBinDense, AssignSharedDense,
         CloseTermDense
    <3>3. CASE AddRecipeRows \/ AssignUnknown \/ OpenRecipe \/ CloseAdhocTerm \/ SetRowCounts
      BY <1>1, <2>1, <3>3, AddRecipeRowsDense, OtherStepsDense
    <3>4. CASE UNCHANGED vars
      <4>1. UNCHANGED <<terms, pc, todo, currentBins, m_bins, m_start, m_rowIds,
                        m_termHashToRows>>
        BY <3>4 DEF vars, assigners, recorded, maps
      <4>2. /\ Explicit' = Explicit /\ Members' = Members /\ Current' = Current
            /\ \A h : PositionsOf(h)' = PositionsOf(h)
            /\ \A row : Held(row)' = Held(row) /\ Load(row)' = Load(row)
        BY <4>1, NothingHeldChanges
      <4>3. (Different /\ OneBin /\ Shared)'
        BY <2>1, <4>1, <4>2 DEF Dense, Different, OneBin, Shared, HasBin, Reserved, rank
      <4>4. Fits'
        <5>1. f_rank' = f_rank /\ rank' = rank
          BY <4>1 DEF f_rank, rank
        <5>2. ASSUME NEW i \in 1 .. Len(currentBins) PROVE Load(Reserved(i))' = Load(Reserved(i))
          <6>1. PICK row : row = Reserved(i)
            OBVIOUS
          <6>2. Reserved(i)' = row
            BY <4>1, <5>1, <6>1 DEF Reserved
          <6>3. Load(Reserved(i))' = Load(row)'
            BY <6>2 DEF Load
          <6>4. QED
            BY <4>2, <6>1, <6>3
        <5>3. QED
          BY <2>1, <4>1, <4>2, <5>1, <5>2 DEF Dense, Fits
      <4>5. QED
        BY <4>3, <4>4 DEF Dense
    <3>5. QED
      BY <1>4, <3>1, <3>2, <3>3, <3>4 DEF Next
  <2>3. pc' # "sealed"
    BY <1>4 DEF Next, AddAdhocTerm, OpenTerm, NextEntry, AssignPrivate, StartBin, FindBin,
                AssignShared, IsSharing, IsAssigning, CloseTerm, AssignUnknown, OpenRecipe,
                AddRecipeRows, CloseAdhocTerm, SetRowCounts, vars
  <2>4. QED
    BY <1>1, <2>2, <2>3 DEF DensityInv
<1>5. QED
  BY <1>2, <1>3, <1>4

(* TermTableBuilder::RowAssigner::AssignExplicit, its bins and the skipping *)
(* of them, and TermTable::Seal: a term has each of its rows once, and the *)
(* terms that share a row set no more bits in it than the density allows.  *)
THEOREM RowsWithinDensity == Spec => []WithinDensity
<1>1. Init => DensityInv
  <2> SUFFICES ASSUME Init PROVE DensityInv
    OBVIOUS
  <2>1. pc # "sealed"
    BY DEF Init
  <2>2. QED
    BY <2>1, Initially, InitiallyDense DEF DensityInv
<1>2. DensityInv /\ [Next]_vars => DensityInv'
  BY NextDense
<1>3. DensityInv => WithinDensity
  <2> SUFFICES ASSUME DensityInv PROVE WithinDensity
    OBVIOUS
  <2>1. Inv /\ Sparse
    BY DenseIsSparse DEF DensityInv
  <2>2. QED
    BY <2>1, SparseIsWithinDensity
<1>4. QED
  BY <1>1, <1>2, <1>3, PTL DEF Spec
=============================================================================
