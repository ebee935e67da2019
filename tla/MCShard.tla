---- MODULE MCShard ----
EXTENDS Shard, TLC

(* Addresses and threads of a kind are interchangeable.                    *)
Symmetric == Permutations(List) \cup Permutations(Slice) \cup Permutations(Adder)
             \cup Permutations(Deleter)
====
