---------------------------- MODULE DocumentSet ----------------------------
(***************************************************************************)
(* What IIngestor.h promises of Add, Delete and Contains: the index is a   *)
(* set of documents.  Add puts one in, Delete takes one out in one step    *)
(* and answers whether it was there.                                       *)
(***************************************************************************)
CONSTANTS DocId, Client, None

VARIABLES
  contents,
  answer      \* what a Delete that has taken effect is about to return

vars == <<contents, answer>>

Init ==
  /\ contents = {}
  /\ answer = [c \in Client |-> None]

Add(i) ==
  /\ contents' = contents \cup {i}
  /\ UNCHANGED answer

Delete(c, i) ==
  /\ answer[c] = None
  /\ answer' = [answer EXCEPT ![c] = i \in contents]
  /\ contents' = contents \ {i}

Return(c) ==
  /\ answer[c] # None
  /\ answer' = [answer EXCEPT ![c] = None]
  /\ UNCHANGED contents

Next ==
  \/ \E i \in DocId : Add(i)
  \/ \E c \in Client : Return(c) \/ \E i \in DocId : Delete(c, i)

Spec == Init /\ [][Next]_vars
=============================================================================
