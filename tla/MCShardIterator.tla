---- MODULE MCShardIterator ----
EXTENDS ShardIterator

(* Shards with two, one and no slices.                                     *)
MCInit == m_sliceBuffers \in {<<"s1", "s2">>, <<"s2">>, << >>} /\ Init
MCSpec == MCInit /\ [][Next]_vars
====
