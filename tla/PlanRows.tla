------------------------------ MODULE PlanRows ------------------------------
(***************************************************************************)
(* The rows that planning, compiling and matching talk about: the term     *)
(* tables of the shards, the rows of the system, and the abstract rows     *)
(* that a plan numbers (src/src/Plan/src: AbstractRow, PlanRows; RowId).   *)
(***************************************************************************)
EXTENDS Integers, Sequences, FiniteSets, SequencesExt, FiniteSetsExt

CONSTANTS
  ShardCount,
  TermRows,           \* the term tables: for each shard and term, its RowIds
  c_maxRankValue

Shard == 1 .. ShardCount
Rank == 0 .. c_maxRankValue
Term == DOMAIN TermRows[1]

(* A term is a sequence of words: one word, or the words of a phrase.  A   *)
(* RowId is a pair of a rank and an index.  The three system terms have a  *)
(* row each, in every shard.                                               *)
DocumentActiveRow == <<0, 0>>
MatchAllRow == <<0, 1>>
RowId == {DocumentActiveRow, MatchAllRow}
         \cup UNION {ToSet(TermRows[s][t]) : s \in Shard, t \in Term}

ASSUME PlanAssumption ==
  /\ ShardCount \in Nat \ {0} /\ c_maxRankValue \in Nat
  /\ \A s \in Shard, t \in Term :
       /\ Len(TermRows[s][t]) > 0
       /\ \A i \in DOMAIN TermRows[s][t] : TermRows[s][t][i] \in Rank \X Nat

(* The null pointer of a tree.                                             *)
Null == [type |-> "Null"]

AbstractRow(id, rank, inverted) ==
  [id |-> id, rank |-> rank, rankDelta |-> 0, inverted |-> inverted]

(* 1 << n                                                                  *)
TwoTo[n \in Nat] == IF n = 0 THEN 1 ELSE 2 * TwoTo[n - 1]

(* The n-grams of a sequence of words, in the order in which the ring      *)
(* buffer of the last maxGramSize words yields them.                       *)
NGrams(words, maxGramSize) ==
  FlattenSeq([i \in DOMAIN words |->
    [n \in 1 .. Min({maxGramSize, Len(words) - i + 1}) |-> SubSeq(words, i, i + n - 1)]])
=============================================================================
