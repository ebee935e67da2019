------------------------------ MODULE Ingestor ------------------------------
(***************************************************************************)
(* The ingestor as its clients see it: Add, Delete and Contains over the   *)
(* DocumentMap, the document active bits that queries match, and the count *)
(* of documents (src/src/Index/src: Ingestor, DocumentMap,                 *)
(* DocumentHandleInternal).  Where columns come from and how slices are    *)
(* recycled is the business of module Shard: here every Add gets a fresh   *)
(* column, or finds that there is no memory.                               *)
(***************************************************************************)
EXTENDS Naturals, FiniteSets

CONSTANTS
  Adder, Deleter,     \* threads that call Add, Delete
  DocId,
  MaxAdds,            \* bound: how often Add is called
  None

Thread == Adder \cup Deleter
Column == 1 .. MaxAdds

ASSUME IngestorAssumption ==
  /\ IsFiniteSet(Adder) /\ IsFiniteSet(Deleter) /\ Adder \cap Deleter = {}
  /\ MaxAdds \in Nat
  /\ None \notin Column \cup DocId \cup Thread /\ None \notin BOOLEAN

VARIABLES
  m_documentCount,
  columns,                \* the DocTable: the DocIds of the columns used
  active,                 \* the columns whose document active bit is set
  m_docIdToDocHandle,
  m_deleteDocumentLock,
  id, location,           \* locals of the threads
  pc,
  repeated                \* history: the DocIds that have been given to Add
                          \* while the index had them or was adding them

vars == <<m_documentCount, columns, active, m_docIdToDocHandle,
          m_deleteDocumentLock, id, location, pc, repeated>>

PC == {"idle", "allocate", "ingest", "activated",
       "delete", "erase", "clear", "unlock"}

Init ==
  /\ m_documentCount = 0
  /\ columns = [h \in Column |-> None]
  /\ active = {}
  /\ m_docIdToDocHandle = [i \in DocId |-> None]
  /\ m_deleteDocumentLock = None
  /\ id = [t \in Thread |-> None]
  /\ location = [t \in Thread |-> None]
  /\ pc = [t \in Thread |-> "idle"]
  /\ repeated = {}

Goto(t, from, to) ==
  /\ pc[t] = from
  /\ pc' = [pc EXCEPT ![t] = to]

Forget(t) ==
  /\ id' = [id EXCEPT ![t] = None]
  /\ location' = [location EXCEPT ![t] = None]

Contains(i) == m_docIdToDocHandle[i] # None
BeingAdded(i) == \E a \in Adder : id[a] = i

-----------------------------------------------------------------------------
CountDocument(a, i) ==
  /\ m_documentCount < MaxAdds
  /\ Goto(a, "idle", "allocate")
  /\ m_documentCount' = m_documentCount + 1
  /\ id' = [id EXCEPT ![a] = i]
  /\ repeated' = IF Contains(i) \/ BeingAdded(i) THEN repeated \cup {i} ELSE repeated
  /\ UNCHANGED <<columns, active, m_docIdToDocHandle, m_deleteDocumentLock, location>>

AllocateDocument(a) ==
  /\ Goto(a, "allocate", "ingest")
  /\ \E h \in Column :
       /\ columns[h] = None
       /\ columns' = [columns EXCEPT ![h] = id[a]]
       /\ location' = [location EXCEPT ![a] = h]
  /\ UNCHANGED <<m_documentCount, active, m_docIdToDocHandle, m_deleteDocumentLock,
                 id, repeated>>

(* No block is left for a slice, or the document cannot be ingested: the   *)
(* exception leaves Add; nothing is undone.                                *)
ThrowUncounted(a) ==        \* mutated form: whatever throws, one is taken off
  /\ Goto(a, "allocate", "idle") \/ Goto(a, "activated", "idle")
  /\ m_documentCount' = m_documentCount - 1
  /\ Forget(a)
  /\ UNCHANGED <<columns, active, m_docIdToDocHandle, m_deleteDocumentLock, repeated>>

AddThrows(a) ==
  /\ Goto(a, "allocate", "idle") \/ Goto(a, "ingest", "idle")
  /\ Forget(a)
  /\ UNCHANGED <<m_documentCount, columns, active, m_docIdToDocHandle,
                 m_deleteDocumentLock, repeated>>

Activate(a) ==
  /\ Goto(a, "ingest", "activated")
  /\ active' = active \cup {location[a]}
  /\ UNCHANGED <<m_documentCount, columns, m_docIdToDocHandle, m_deleteDocumentLock,
                 id, location, repeated>>

(* DocumentMap::Add: an error is constructed for a known DocId, but it is  *)
(* not thrown, and insert then changes nothing.                            *)
MapAdd(a) ==
  /\ Goto(a, "activated", "idle")
  /\ m_docIdToDocHandle' = IF Contains(id[a]) THEN m_docIdToDocHandle
                           ELSE [m_docIdToDocHandle EXCEPT ![id[a]] = location[a]]
  /\ Forget(a)
  /\ UNCHANGED <<m_documentCount, columns, active, m_deleteDocumentLock, repeated>>

-----------------------------------------------------------------------------
LockNothing(d, i) ==        \* mutated form: no m_deleteDocumentLock
  /\ Goto(d, "idle", "delete")
  /\ m_deleteDocumentLock' = d
  /\ id' = [id EXCEPT ![d] = i]
  /\ UNCHANGED <<m_documentCount, columns, active, m_docIdToDocHandle, location,
                 repeated>>

LockDelete(d, i) ==
  /\ m_deleteDocumentLock = None
  /\ Goto(d, "idle", "delete")
  /\ m_deleteDocumentLock' = d
  /\ id' = [id EXCEPT ![d] = i]
  /\ UNCHANGED <<m_documentCount, columns, active, m_docIdToDocHandle, location,
                 repeated>>

Find(d) ==
  /\ Goto(d, "delete", IF Contains(id[d]) THEN "erase" ELSE "unlock")
  /\ location' = [location EXCEPT ![d] = m_docIdToDocHandle[id[d]]]
  /\ UNCHANGED <<m_documentCount, columns, active, m_docIdToDocHandle,
                 m_deleteDocumentLock, id, repeated>>

MapKeeps(d) ==              \* mutated form: the map is not updated
  /\ Goto(d, "erase", "clear")
  /\ UNCHANGED <<m_documentCount, columns, active, m_docIdToDocHandle,
                 m_deleteDocumentLock, id, location, repeated>>

MapDelete(d) ==
  /\ Goto(d, "erase", "clear")
  /\ m_docIdToDocHandle' = [m_docIdToDocHandle EXCEPT ![id[d]] = None]
  /\ UNCHANGED <<m_documentCount, columns, active, m_deleteDocumentLock, id, location,
                 repeated>>

ExpireNothing(d) ==         \* mutated form: the bit stays set
  /\ Goto(d, "clear", "unlock")
  /\ UNCHANGED <<m_documentCount, columns, active, m_docIdToDocHandle,
                 m_deleteDocumentLock, id, location, repeated>>

Expire(d) ==
  /\ Goto(d, "clear", "unlock")
  /\ active' = active \ {location[d]}
  /\ UNCHANGED <<m_documentCount, columns, m_docIdToDocHandle, m_deleteDocumentLock,
                 id, location, repeated>>

EndDelete(d) ==
  /\ Goto(d, "unlock", "idle")
  /\ m_deleteDocumentLock' = None
  /\ Forget(d)
  /\ UNCHANGED <<m_documentCount, columns, active, m_docIdToDocHandle, repeated>>

Next ==
  \/ \E a \in Adder :
       \/ \E i \in DocId : CountDocument(a, i)
       \/ AllocateDocument(a) \/ AddThrows(a) \/ Activate(a) \/ MapAdd(a)
  \/ \E d \in Deleter :
       \/ \E i \in DocId : LockDelete(d, i)
       \/ Find(d) \/ MapDelete(d) \/ Expire(d) \/ EndDelete(d)

Spec == Init /\ [][Next]_vars

-----------------------------------------------------------------------------
TypeOK ==
  /\ m_documentCount \in 0 .. MaxAdds
  /\ columns \in [Column -> DocId \cup {None}]
  /\ active \subseteq Column
  /\ m_docIdToDocHandle \in [DocId -> Column \cup {None}]
  /\ m_deleteDocumentLock \in Deleter \cup {None}
  /\ id \in [Thread -> DocId \cup {None}]
  /\ location \in [Thread -> Column \cup {None}]
  /\ pc \in [Thread -> PC]
  /\ repeated \subseteq DocId

(* IIngestor.h:94-123: Add, Delete and Contains act on a set of documents: *)
(* of several Deletes of a document, one returns true.                     *)
Answer(d) ==
  IF pc[d] \in {"clear", "unlock"} THEN location[d] # None ELSE None

DocumentSet == INSTANCE DocumentSet WITH
  Client <- Deleter,
  contents <- {i \in DocId : Contains(i)},
  answer <- [d \in Deleter |-> Answer(d)]

DocumentSetSpec == DocumentSet!Spec

(* IIngestor.h:119-122: what the map has is served, under its own DocId.   *)
ContainedIsServed ==
  \A i \in DocId : Contains(i) =>
    /\ m_docIdToDocHandle[i] \in active
    /\ columns[m_docIdToDocHandle[i]] = i

(* Every column that is served can be taken out again: the map leads to    *)
(* it, or the call that adds or deletes it is not over yet.  Only columns  *)
(* of a DocId that clients have added while the index had it, or was       *)
(* adding it, can be out of reach (DocumentMap.cpp:42-51).                 *)
ServedCanBeDeleted ==
  \A h \in active :
    \/ columns[h] \in repeated
    \/ m_docIdToDocHandle[columns[h]] = h
    \/ \E a \in Adder : pc[a] = "activated" /\ location[a] = h
    \/ \E d \in Deleter : pc[d] = "clear" /\ location[d] = h

(* A Delete acts on what it has found: nobody else takes the document out, *)
(* or expires its column, in the meantime.                                 *)
DeleteIsNotStale ==
  /\ \A d \in Deleter : pc[d] = "erase" => m_docIdToDocHandle[id[d]] = location[d]
  /\ \A d \in Deleter : pc[d] \in {"erase", "clear"} => location[d] \in active

(* A results buffer that is made for GetDocumentCount() documents has room *)
(* for everything that is served at that time (QueryCommand.cpp:110).      *)
CountCoversServed ==
  Cardinality(active) + Cardinality({a \in Adder : pc[a] \in {"allocate", "ingest"}})
    <= m_documentCount
=============================================================================
