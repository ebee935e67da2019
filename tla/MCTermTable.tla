---------------------------- MODULE MCTermTable ----------------------------
(***************************************************************************)
(* An instance of TermTable: two ranks, five frequencies in 320ths.  At    *)
(* rank 1 a row stands for two columns of documents, which is how the bits *)
(* add up there.                                                           *)
(***************************************************************************)
EXTENDS TermTable, TLC

MCFrequency == {60, 32, 16, 8, 1}
MCFrequencyAtRank ==
  60 :> (0 :> 60 @@ 1 :> 108) @@ 32 :> (0 :> 32 @@ 1 :> 61) @@ 16 :> (0 :> 16 @@ 1 :> 31)
  @@ 8 :> (0 :> 8 @@ 1 :> 16) @@ 1 :> (0 :> 1 @@ 1 :> 2)
MCIdfX10 == 60 :> 0 @@ 32 :> 1 @@ 16 :> 1 @@ 8 :> 1 @@ 1 :> 2

Entry(r, n) == [rank |-> r, rowCount |-> n]

(* One that uses rank 0 only, and one that mixes the ranks.                *)
MCTreatments ==
  {0 :> <<Entry(0, 1)>> @@ 1 :> <<Entry(0, 2)>> @@ 2 :> <<Entry(0, 2)>>,
   0 :> <<Entry(0, 1)>> @@ 1 :> <<Entry(1, 1), Entry(0, 2)>>
     @@ 2 :> <<Entry(1, 2), Entry(0, 2)>>}
=============================================================================
