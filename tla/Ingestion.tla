----------------------------- MODULE Ingestion -----------------------------
(***************************************************************************)
(* Chunk files are ingested by the threads of a TaskDistributor            *)
(* (src/src/Chunks/src: ChunkEnumerator, ChunkManifestIngestor,            *)
(* ChunkIngestor, and module Document for ChunkReader and Document): each  *)
(* adder of module Ingestor takes chunks and adds what they contain, while *)
(* other clients delete, and while one walks the index (ShardIterator).    *)
(* More than one thread ingests: with a single one an exception reaches    *)
(* the caller of IngestChunks, here it ends the process.                   *)
(***************************************************************************)
EXTENDS Ingestor, Document

CONSTANTS
  Manifests,          \* the manifests that may be ingested, sequences of chunks
  Deletable,          \* the DocIds that clients delete
  m_sliceCapacity

ASSUME IngestionAssumption ==
  /\ Cardinality(Adder) > 1
  /\ m_sliceCapacity \in Nat \ {0}
  /\ Manifests \subseteq
       Seq([documents : Seq([id : DocId, streams : Seq(Seq(STRING))]), cut : Nat])
  /\ Deletable \subseteq DocId
  /\ None \notin Nat

VARIABLES
  manifest, chunks,   \* the chunk files, and what ChunkReader makes of them
  m_nextTaskId,       \* of the TaskDistributor: chunks not taken
  task,               \* of each adder: its chunk; Finished
  m_next, m_currentDocument,      \* its ChunkReader and ChunkIngestor
  postings,           \* of each column, once it is active
  m_documentCache,
  thrown,             \* an exception has ended the process
  m_sliceBuffers, m_sliceIndex, m_sliceOffset, at, visited, stable

walk == <<m_sliceBuffers, m_sliceIndex, m_sliceOffset, at, visited, stable>>
reading == <<m_nextTaskId, task, m_next, m_currentDocument, m_documentCache, thrown>>
allVars == <<vars, manifest, chunks, reading, postings, walk>>

Finished == 0
NoDocument == NewDocument(None)     \* the pointer is null

-----------------------------------------------------------------------------
(* Shard keeps the slices in the order of their making; one whose columns  *)
(* have all expired leaves the list before that Delete is over.            *)
Place(h) == <<(h - 1) \div m_sliceCapacity, (h - 1) % m_sliceCapacity>>
SliceOf(h) == Place(h)[1]
Places(s) == {h \in Column : SliceOf(h) = s}
Used == {h \in Column : columns[h] # None}
Expired == {h \in Used : h \notin active /\ ~\E a \in Adder : location[a] = h}
Full(s) == Cardinality(Places(s)) = m_sliceCapacity /\ Places(s) \subseteq Expired
Leaving(s) == \E d \in Deleter : pc[d] = "unlock" /\ location[d] \in Places(s)

Iterator == INSTANCE ShardIterator WITH
  Slice <- {SliceOf(h) : h \in Column},
  active <- {Place(h) : h \in active}, pc <- at

IngestionInit ==
  /\ Init
  /\ manifest \in Manifests
  /\ chunks = [c \in 1 .. Len(manifest) |-> ChunkReader(Items(manifest[c]))]
  /\ m_nextTaskId = 1
  /\ task = [a \in Adder |-> None]
  /\ m_next = [a \in Adder |-> 1] /\ m_currentDocument = [a \in Adder |-> NoDocument]
  /\ postings = [h \in Column |-> {}]
  /\ m_documentCache = {} /\ thrown = FALSE
  /\ m_sliceBuffers = << >> /\ m_sliceIndex = 0 /\ m_sliceOffset = 0
  /\ at = "none" /\ visited = {} /\ stable = {}

-----------------------------------------------------------------------------
(* The threads of the TaskDistributor.                                     *)
HasNone(a) == pc[a] = "idle" /\ task[a] = None

TakeNextChunk(a) ==         \* mutated form: incremented before it is read
  /\ HasNone(a)
  /\ IF m_nextTaskId < Len(manifest)
     THEN /\ task' = [task EXCEPT ![a] = m_nextTaskId + 1]
          /\ m_nextTaskId' = m_nextTaskId + 1
          /\ m_next' = [m_next EXCEPT ![a] = 1]
     ELSE /\ task' = [task EXCEPT ![a] = Finished]
          /\ UNCHANGED <<m_nextTaskId, m_next>>
  /\ UNCHANGED <<vars, m_currentDocument, m_documentCache, thrown, postings>>

TakeChunk(a) ==
  /\ HasNone(a)
  /\ IF m_nextTaskId <= Len(manifest)
     THEN /\ task' = [task EXCEPT ![a] = m_nextTaskId]
          /\ m_nextTaskId' = m_nextTaskId + 1
          /\ m_next' = [m_next EXCEPT ![a] = 1]
     ELSE /\ task' = [task EXCEPT ![a] = Finished]
          /\ UNCHANGED <<m_nextTaskId, m_next>>
  /\ UNCHANGED <<vars, m_currentDocument, m_documentCache, thrown, postings>>

IsReading(a) ==
  /\ pc[a] = "idle" /\ task[a] \notin {None, Finished}
  /\ m_currentDocument[a] = NoDocument

(* What ChunkReader does until it has a document, or the chunk ends, is    *)
(* the thread's own business: chunks has it read beforehand.               *)
Documents(a) == chunks[task[a]].documents
EndsWithNext(a, inside) ==  \* mutated form: one document more is expected
  m_next[a] > Len(Documents(a)) + 1 /\ chunks[task[a]].inside = inside
EndsWith(a, inside) == m_next[a] > Len(Documents(a)) /\ chunks[task[a]].inside = inside

ReadDocument(a) ==
  /\ IsReading(a)
  /\ m_next[a] <= Len(Documents(a))
  /\ m_currentDocument' = [m_currentDocument EXCEPT ![a] = Documents(a)[m_next[a]]]
  /\ m_next' = [m_next EXCEPT ![a] = @ + 1]
  /\ CountDocument(a, m_currentDocument'[a].m_docId)
  /\ UNCHANGED <<m_nextTaskId, task, m_documentCache, thrown, postings>>

EndChunk(a) ==
  /\ IsReading(a)
  /\ EndsWith(a, "end of file")
  /\ task' = [task EXCEPT ![a] = None]
  /\ UNCHANGED <<vars, m_nextTaskId, m_next, m_currentDocument, m_documentCache,
                 thrown, postings>>

(* A chunk that cannot be read, or a document that cannot be added.        *)
ReaderThrows(a) ==
  /\ IsReading(a)
  /\ EndsWith(a, "error")
  /\ thrown' = TRUE
  /\ UNCHANGED <<vars, m_nextTaskId, task, m_next, m_currentDocument, m_documentCache,
                 postings>>

IngestorThrows(a) ==
  /\ AddThrows(a)
  /\ thrown' = TRUE
  /\ UNCHANGED <<m_nextTaskId, task, m_next, m_currentDocument, m_documentCache, postings>>

(* Columns are given out in their order.                                   *)
Allocate(a) ==
  /\ AllocateDocument(a)
  /\ \A h \in Column : columns[h] = None => location'[a] <= h
  /\ UNCHANGED <<reading, postings>>

(* IDocument::Ingest and Activate; nobody reads the rows of a column that  *)
(* is not active.                                                          *)
Ingest(a) ==
  /\ Activate(a)
  /\ postings' = [postings EXCEPT ![location[a]] = m_currentDocument[a].m_postings]
  /\ UNCHANGED reading

EndAdd(a) ==
  /\ MapAdd(a)
  /\ UNCHANGED <<reading, postings>>

CacheDocumentFirst(a) ==    \* mutated form: cached while it is being added
  /\ pc[a] \in {"activated", "idle"} /\ m_currentDocument[a] # NoDocument
  /\ m_documentCache' = m_documentCache \cup {m_currentDocument[a].m_docId}
  /\ m_currentDocument' = [m_currentDocument EXCEPT ![a] = NoDocument]
  /\ UNCHANGED <<vars, m_nextTaskId, task, m_next, thrown, postings>>

CacheDocument(a) ==
  /\ pc[a] = "idle" /\ m_currentDocument[a] # NoDocument
  /\ m_documentCache' = m_documentCache \cup {m_currentDocument[a].m_docId}
  /\ m_currentDocument' = [m_currentDocument EXCEPT ![a] = NoDocument]
  /\ UNCHANGED <<vars, m_nextTaskId, task, m_next, thrown, postings>>

IngestChunks(a) ==
  \/ TakeChunk(a) \/ ReadDocument(a) \/ EndChunk(a) \/ ReaderThrows(a)
  \/ Allocate(a) \/ IngestorThrows(a) \/ Ingest(a) \/ EndAdd(a) \/ CacheDocument(a)

DeleteDocument(d) ==
  /\ \/ \E i \in Deletable : LockDelete(d, i)
     \/ Find(d) \/ MapDelete(d) \/ Expire(d) \/ EndDelete(d)
  /\ UNCHANGED <<reading, postings>>

-----------------------------------------------------------------------------
(* The walk begins with the list of the moment.                            *)
Ascending(S) ==
  {list \in [1 .. Cardinality(S) -> S] :
     \A i, j \in 1 .. Cardinality(S) : i < j => list[i] < list[j]}

BeginWalk ==
  /\ at = "none" /\ at' = "search"
  /\ LET made == {SliceOf(h) : h \in Used}
         full == {s \in made : Full(s)}
     IN  \E gone \in SUBSET full :
           /\ \A s \in full : ~Leaving(s) => s \in gone
           /\ m_sliceBuffers' \in Ascending(made \ gone)
  /\ stable' = {Place(h) : h \in active}
  /\ UNCHANGED <<vars, reading, postings, m_sliceIndex, m_sliceOffset, visited>>

Walk ==
  /\ UNCHANGED <<vars, reading, postings>>
  /\ Iterator!Walk

Beside ==
  /\ stable' = stable \cap {Place(h) : h \in active'}
  /\ UNCHANGED <<manifest, chunks, m_sliceBuffers, m_sliceIndex, m_sliceOffset, at, visited>>

IngestStep(a) == ~thrown /\ IngestChunks(a) /\ Beside
WalkStep == ~thrown /\ Walk /\ UNCHANGED <<manifest, chunks>>

IngestionNext ==
  \/ \E a \in Adder : IngestStep(a)
  \/ \E d \in Deleter : ~thrown /\ DeleteDocument(d) /\ Beside
  \/ ~thrown /\ BeginWalk /\ UNCHANGED <<manifest, chunks>>
  \/ WalkStep

(* The threads that ingest run; nobody has to call Delete or to walk.      *)
IngestionSpec ==
  /\ IngestionInit /\ [][IngestionNext]_allVars
  /\ \A a \in Adder : WF_allVars(IngestStep(a))

-----------------------------------------------------------------------------
Written == UNION {{manifest[c].documents[k] : k \in 1 .. Len(manifest[c].documents)} :
                  c \in 1 .. Len(manifest)}

(* What is served under a DocId are the n-grams of the streams that the    *)
(* chunk file has for it, no more and no less, whatever was cut off; and a *)
(* file from which nothing was cut is read to its end.                     *)
IndexedAsWritten ==
  /\ \A h \in active : \E document \in Written :
       document.id = columns[h] /\ postings[h] = GramsOf(document)
  /\ \A c \in 1 .. Len(manifest) : manifest[c].cut = 0 =>
       chunks[c].inside = "end of file"

(* IngestChunks.h:29-35: when the threads are through, each document of    *)
(* the manifest has been added once, and is in the cache.                  *)
DocumentsOf(c) == 1 .. Len(manifest[c].documents)
EverythingIngested ==
  (\A a \in Adder : task[a] = Finished) =>
    /\ m_documentCache = {document.id : document \in Written}
    /\ \A document \in Written :
         \/ Contains(document.id)
         \/ \E h \in Expired : columns[h] = document.id
         \/ \E d \in Deleter : pc[d] = "clear" /\ columns[location[d]] = document.id
    /\ Cardinality(Used) = Cardinality(UNION {{c} \X DocumentsOf(c) : c \in 1 .. Len(manifest)})

(* A document in the cache, which queries are verified against, is in the  *)
(* index, or has been deleted from it.                                     *)
CachedWasAdded ==
  \A i \in m_documentCache :
    \/ Contains(i)
    \/ \E h \in Expired : columns[h] = i
    \/ \E d \in Deleter : pc[d] = "clear" /\ columns[location[d]] = i

(* The ingestion ends, whatever it reads.                                  *)
IngestionEnds == <>(thrown \/ \A a \in Adder : task[a] = Finished)

FirstSliceComplete == at # "none" => Iterator!FirstSliceComplete
NeverTwice == Iterator!NeverTwice
=============================================================================
