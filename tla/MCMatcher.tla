----------------------------- MODULE MCMatcher -----------------------------
(***************************************************************************)
(* An instance of Matching: three words, two shards that keep different    *)
(* rows for them, ranks up to 2, quadwords of two bits.                    *)
(***************************************************************************)
EXTENDS Matching

(* The hypothesis of the theorems in MatcherProofs.                        *)
ASSUME OperandsAssumption == \A q \in DOMAIN Plans : OperandsFit(q)

A == <<"a">>
B == <<"b">>
C == <<"c">>
AB == <<"a", "b">>

(* In shard 1 "a" has three rows and shares one of them with "c"; in       *)
(* shard 2 it has one row, which is padded.                                *)
MCTermRows ==
  <<(A :> <<<<0, 3>>, <<0, 2>>, <<2, 0>>>> @@ B :> <<<<0, 4>>>>
     @@ C :> <<<<0, 3>>, <<1, 0>>>> @@ AB :> <<<<1, 1>>>>
     @@ <<"b", "c">> :> <<<<1, 1>>>> @@ <<"c", "a">> :> <<<<0, 2>>>>
     @@ <<"b", "a">> :> <<<<0, 5>>>>),
    (A :> <<<<0, 2>>>> @@ B :> <<<<0, 3>>>>
     @@ C :> <<<<0, 4>>, <<1, 0>>>> @@ AB :> <<<<0, 5>>, <<1, 1>>>>
     @@ <<"b", "c">> :> <<<<1, 0>>>> @@ <<"c", "a">> :> <<<<0, 2>>>>
     @@ <<"b", "a">> :> <<<<1, 0>>>>)>>

MCQueries ==
  <<And(Unigram(A), Not(Unigram(B))),
    And(Or(Unigram(A), Unigram(B)), Or(Unigram(B), Unigram(C))),
    Phrase(AB),
    Or(Phrase(AB), And(Unigram(C), Not(Unigram(B)))),
    And(Unigram(B), Not(Unigram(C))),
    Unigram(B)>>

MCPlans == [q \in Planned |-> PlanOf(MCQueries[q])]

MCSliceCount == <<2, 1>>

(* A document of each shard and slice, one of them deleted perhaps.        *)
MCInitialDocuments ==
  {(<<1, 1, 0, 1>> :> <<"a", "b">> @@ <<1, 2, 3, 1>> :> d[1]
    @@ <<2, 1, 0, 1>> :> <<"b", "c">> @@ <<2, 1, 2, 0>> :> d[2]) :
   d \in {<<<<"a">>, <<"c">>>>, <<<<"b">>, <<"c", "a">>>>}}

MCAddedColumn == <<2, 1, 3, 0>>
MCAddedDocument == <<"b", "a">>
MCDeletableColumns == {<<1, 1, 0, 1>>}
=============================================================================
