------------------------------- MODULE Shard -------------------------------
(***************************************************************************)
(* A shard and the life of its slices (src/src/Index/src: Shard, Slice,    *)
(* Recycler, and what Ingestor, DocumentHandleInternal and DocumentMap do  *)
(* to them).  Adders fill the active slice and publish a longer slice list *)
(* when it is full; deleters expire documents and take a slice off the     *)
(* list when its last document is gone; queries walk whatever list they    *)
(* found, without a lock, under a token.  A list that has been replaced,   *)
(* and the slice that left with it, go through the recycler, which frees   *)
(* them when the tokens that existed at that time have been returned.      *)
(*                                                                         *)
(* The token manager is the one that GracePeriod describes and             *)
(* TokenManager implements, a token's return and what it tells the         *)
(* trackers in one step; the recycler's queue is a BlockingQueue.          *)
(***************************************************************************)
EXTENDS Naturals, Sequences, FiniteSets

CONSTANTS
  Adder, Deleter, Reader,   \* threads in Ingestor::Add, in Delete, in a query
  Slice,                    \* the allocator's blocks: each can hold a slice
  List,                     \* addresses a vector of slice buffers can have
  m_sliceCapacity,
  QueueCapacity,            \* of the recycler's queue
  None

Worker == Adder \cup Deleter
Client == Deleter \cup Reader
Thread == Worker \cup Reader
Handle == Slice \X (0 .. m_sliceCapacity - 1)

ASSUME ShardAssumption ==
  /\ Adder \cap Deleter = {} /\ Reader \cap Worker = {}
  /\ None \notin Slice \cup List \cup Thread \cup Handle
  /\ List # {}
  /\ m_sliceCapacity \in Nat \ {0}
  /\ QueueCapacity \in Nat \ {0}

VARIABLES
  slices, count,            \* the slices that exist, and their counters
  active,                   \* the handles whose document active bit is set
  indexed,                  \* the handles in the DocumentMap
  lists, contents,          \* the slice lists that exist, and what is in them
  m_sliceBuffers, m_activeSlice, m_slicesLock,
  m_deleteDocumentLock,
  tokens, blockers,         \* who holds a token; whom a tracker waits for
  victim,                   \* the slice that is retired with an old list
  m_queue, recycling,       \* retired lists: queued, and with the recycler
  handle, old, seen,        \* locals of the threads
  pc

sliceVars  == <<slices, count, active>>
listVars   == <<lists, contents, m_sliceBuffers, m_activeSlice>>
retireVars == <<blockers, victim, m_queue, recycling>>
localVars  == <<handle, old, seen>>
vars == <<sliceVars, indexed, listVars, m_slicesLock, m_deleteDocumentLock,
          tokens, retireVars, localVars, pc>>

PC == {"idle",
       "track", "schedule",                  \* retiring an old list
       "ingest", "activated", "committed",   \* Ingestor::Add
       "token", "clear", "expire", "recycle", "unlock", "return",  \* Delete
       "reading"}                            \* a query

Counters == [unallocated : 0 .. m_sliceCapacity,
             pending     : 0 .. m_sliceCapacity,
             expired     : 0 .. m_sliceCapacity]

NewSlice == [unallocated |-> m_sliceCapacity, pending |-> 0, expired |-> 0]

IsExpired(s) == count[s].expired = m_sliceCapacity

Init ==
  /\ slices = {} /\ count = [s \in Slice |-> NewSlice]
  /\ active = {} /\ indexed = {}
  /\ m_sliceBuffers \in List /\ lists = {m_sliceBuffers}
  /\ contents = [l \in List |-> {}]
  /\ m_activeSlice = None
  /\ m_slicesLock = None /\ m_deleteDocumentLock = None
  /\ tokens = {} /\ blockers = [l \in List |-> {}]
  /\ victim = [l \in List |-> None]
  /\ m_queue = << >> /\ recycling = None
  /\ handle = [t \in Worker |-> None]
  /\ old = [t \in Worker |-> None]
  /\ seen = [r \in Reader |-> None]
  /\ pc = [t \in Thread |-> "idle"]

Goto(t, from, to) ==
  /\ pc[t] = from
  /\ pc' = [pc EXCEPT ![t] = to]

-----------------------------------------------------------------------------
(* Tokens                                                                  *)

RequestToken(c) ==
  /\ Goto(c, "idle", "token")
  /\ tokens' = tokens \cup {c}
  /\ UNCHANGED <<sliceVars, indexed, listVars, m_slicesLock,
                 m_deleteDocumentLock, retireVars, localVars>>

ReturnToken(c) ==
  /\ tokens' = tokens \ {c}
  /\ blockers' = [l \in List |-> blockers[l] \ {c}]
  /\ UNCHANGED <<victim, m_queue, recycling>>

-----------------------------------------------------------------------------
(* The list of slices                                                      *)

SwapForgetsSlice(t, new, v) ==      \* mutated form: the slice is not retired
  /\ \E l \in List \ lists :
       /\ lists' = lists \cup {l}
       /\ contents' = [contents EXCEPT ![l] = new]
       /\ m_sliceBuffers' = l
  /\ victim' = victim
  /\ old' = [old EXCEPT ![t] = m_sliceBuffers]

(* A copy of the list, changed into "new", takes its place; the old one is *)
(* t's to retire, with slice "v" if that one left the list.                *)
Swap(t, new, v) ==
  /\ \E l \in List \ lists :
       /\ lists' = lists \cup {l}
       /\ contents' = [contents EXCEPT ![l] = new]
       /\ m_sliceBuffers' = l
  /\ victim' = [victim EXCEPT ![m_sliceBuffers] = v]
  /\ old' = [old EXCEPT ![t] = m_sliceBuffers]

(* DeferredSliceListDelete's constructor starts the tracker.               *)
StartTracker(t) ==
  /\ Goto(t, "track", "schedule")
  /\ blockers' = [blockers EXCEPT ![old[t]] = tokens]
  /\ UNCHANGED <<sliceVars, indexed, listVars, m_slicesLock, m_deleteDocumentLock,
                 tokens, victim, m_queue, recycling, localVars>>

(* Blocks while the queue is full.                                         *)
ScheduleRecyling(t) ==
  /\ Len(m_queue) < QueueCapacity
  /\ m_queue' = Append(m_queue, old[t])
  /\ old' = [old EXCEPT ![t] = None]
  /\ UNCHANGED <<blockers, victim, recycling>>

-----------------------------------------------------------------------------
(* Ingestor::Add                                                           *)

HasSpace == m_activeSlice # None /\ count[m_activeSlice].unallocated > 0

TryAllocateDocument(a) ==
  /\ count' = [count EXCEPT ![m_activeSlice].unallocated = @ - 1,
                            ![m_activeSlice].pending = @ + 1]
  /\ handle' = [handle EXCEPT ![a] =
       <<m_activeSlice, m_sliceCapacity - count[m_activeSlice].unallocated>>]

AllocateDocument(a) ==
  /\ m_slicesLock = None
  /\ HasSpace
  /\ Goto(a, "idle", "ingest")
  /\ TryAllocateDocument(a)
  /\ UNCHANGED <<slices, active, indexed, listVars, m_slicesLock,
                 m_deleteDocumentLock, tokens, retireVars, old, seen>>

CreateNewList(a) ==         \* mutated form: the new list is not a longer one
  /\ m_slicesLock = None /\ m_slicesLock' = a
  /\ ~HasSpace
  /\ Goto(a, "idle", "track")
  /\ \E s \in Slice \ slices :
       /\ slices' = slices \cup {s}
       /\ count' = [count EXCEPT ![s] = NewSlice]
       /\ active' = {h \in active : h[1] # s}
       /\ Swap(a, {s}, None)
       /\ m_activeSlice' = s
  /\ UNCHANGED <<indexed, m_deleteDocumentLock, tokens, blockers, m_queue,
                 recycling, handle, seen>>

(* AllocateDocument finds no space and makes a new slice.  It throws if    *)
(* the allocator has no block left; then nothing has changed.              *)
CreateNewActiveSlice(a) ==
  /\ m_slicesLock = None /\ m_slicesLock' = a
  /\ ~HasSpace
  /\ Goto(a, "idle", "track")
  /\ \E s \in Slice \ slices :
       /\ slices' = slices \cup {s}
       /\ count' = [count EXCEPT ![s] = NewSlice]
       /\ active' = {h \in active : h[1] # s}
       /\ Swap(a, contents[m_sliceBuffers] \cup {s}, None)
       /\ m_activeSlice' = s
  /\ UNCHANGED <<indexed, m_deleteDocumentLock, tokens, blockers, m_queue,
                 recycling, handle, seen>>

FinishLocked(a) ==          \* mutated form: m_slicesLock is kept
  /\ Goto(a, "schedule", "ingest")
  /\ ScheduleRecyling(a)
  /\ TryAllocateDocument(a)
  /\ UNCHANGED <<slices, active, indexed, listVars, m_slicesLock,
                 m_deleteDocumentLock, tokens, seen>>

FinishNewSlice(a) ==
  /\ Goto(a, "schedule", "ingest")
  /\ ScheduleRecyling(a)
  /\ TryAllocateDocument(a)
  /\ m_slicesLock' = None
  /\ UNCHANGED <<slices, active, indexed, listVars, m_deleteDocumentLock,
                 tokens, seen>>

(* IDocument::Ingest throws: the column stays pending.                     *)
IngestThrows(a) ==
  /\ Goto(a, "ingest", "idle")
  /\ handle' = [handle EXCEPT ![a] = None]
  /\ UNCHANGED <<sliceVars, indexed, listVars, m_slicesLock,
                 m_deleteDocumentLock, tokens, retireVars, old, seen>>

Activate(a) ==
  /\ Goto(a, "ingest", "activated")
  /\ active' = active \cup {handle[a]}
  /\ UNCHANGED <<slices, count, indexed, listVars, m_slicesLock,
                 m_deleteDocumentLock, tokens, retireVars, localVars>>

CommitDocument(a) ==
  /\ Goto(a, "activated", "committed")
  /\ count' = [count EXCEPT ![handle[a][1]].pending = @ - 1]
  /\ UNCHANGED <<slices, active, indexed, listVars, m_slicesLock,
                 m_deleteDocumentLock, tokens, retireVars, localVars>>

(* DocumentMap::Add drops the handle of a DocId that it has already.       *)
MapAdd(a) ==
  /\ Goto(a, "committed", "idle")
  /\ indexed' \in {indexed \cup {handle[a]}, indexed}
  /\ handle' = [handle EXCEPT ![a] = None]
  /\ UNCHANGED <<sliceVars, listVars, m_slicesLock, m_deleteDocumentLock,
                 tokens, retireVars, old, seen>>

-----------------------------------------------------------------------------
(* Ingestor::Delete                                                        *)

NotFound(d) ==
  /\ m_deleteDocumentLock = None
  /\ Goto(d, "token", "return")
  /\ UNCHANGED <<sliceVars, indexed, listVars, m_slicesLock,
                 m_deleteDocumentLock, tokens, retireVars, localVars>>

FindAndForget(d) ==
  /\ m_deleteDocumentLock = None /\ m_deleteDocumentLock' = d
  /\ Goto(d, "token", "clear")
  /\ \E h \in indexed :
       /\ indexed' = indexed \ {h}
       /\ handle' = [handle EXCEPT ![d] = h]
  /\ UNCHANGED <<sliceVars, listVars, m_slicesLock, tokens, retireVars, old, seen>>

ClearActiveBit(d) ==
  /\ Goto(d, "clear", "expire")
  /\ active' = active \ {handle[d]}
  /\ UNCHANGED <<slices, count, indexed, listVars, m_slicesLock,
                 m_deleteDocumentLock, tokens, retireVars, localVars>>

ExpireOneEarly(d) ==        \* mutated form: off by one
  /\ pc[d] = "expire"
  /\ LET s == handle[d][1] IN
       /\ count' = [count EXCEPT ![s].expired = @ + 1]
       /\ pc' = [pc EXCEPT ![d] = IF count[s].expired + 2 >= m_sliceCapacity
                                  THEN "recycle" ELSE "unlock"]
  /\ UNCHANGED <<slices, active, indexed, listVars, m_slicesLock,
                 m_deleteDocumentLock, tokens, retireVars, localVars>>

ExpireDocument(d) ==
  /\ pc[d] = "expire"
  /\ LET s == handle[d][1] IN
       /\ count' = [count EXCEPT ![s].expired = @ + 1]
       /\ pc' = [pc EXCEPT ![d] = IF count'[s].expired = m_sliceCapacity
                                  THEN "recycle" ELSE "unlock"]
  /\ UNCHANGED <<slices, active, indexed, listVars, m_slicesLock,
                 m_deleteDocumentLock, tokens, retireVars, localVars>>

(* The index drops the only reference to the slice.  RecycleSlice throws   *)
(* if the slice has live documents or is not on the list: see Recyclable.  *)
Recyclable(s) == IsExpired(s) /\ s \in contents[m_sliceBuffers]

RecycleSlice(d) ==
  /\ m_slicesLock = None
  /\ Goto(d, "recycle", "track")
  /\ LET s == handle[d][1] IN
       /\ Recyclable(s)
       /\ Swap(d, contents[m_sliceBuffers] \ {s}, s)
       /\ m_activeSlice' = IF m_activeSlice = s THEN None ELSE m_activeSlice
  /\ UNCHANGED <<sliceVars, indexed, m_slicesLock, m_deleteDocumentLock, tokens,
                 blockers, m_queue, recycling, handle, seen>>

FinishRecycleSlice(d) ==
  /\ Goto(d, "schedule", "unlock")
  /\ ScheduleRecyling(d)
  /\ UNCHANGED <<sliceVars, indexed, listVars, m_slicesLock,
                 m_deleteDocumentLock, tokens, handle, seen>>

Unlock(d) ==
  /\ Goto(d, "unlock", "return")
  /\ m_deleteDocumentLock' = None
  /\ UNCHANGED <<sliceVars, indexed, listVars, m_slicesLock, tokens, retireVars,
                 localVars>>

EndDelete(d) ==
  /\ Goto(d, "return", "idle")
  /\ ReturnToken(d)
  /\ handle' = [handle EXCEPT ![d] = None]
  /\ UNCHANGED <<sliceVars, indexed, listVars, m_slicesLock,
                 m_deleteDocumentLock, old, seen>>

-----------------------------------------------------------------------------
(* A query, an iterator, GetDensities or TemporaryWriteAllSlices           *)

GetSliceBuffers(r) ==
  /\ Goto(r, "token", "reading")
  /\ seen' = [seen EXCEPT ![r] = m_sliceBuffers]
  /\ UNCHANGED <<sliceVars, indexed, listVars, m_slicesLock,
                 m_deleteDocumentLock, tokens, retireVars, handle, old>>

EndQuery(r) ==
  /\ Goto(r, "reading", "idle")
  /\ ReturnToken(r)
  /\ seen' = [seen EXCEPT ![r] = None]
  /\ UNCHANGED <<sliceVars, indexed, listVars, m_slicesLock,
                 m_deleteDocumentLock, handle, old>>

-----------------------------------------------------------------------------
(* The recycler's thread                                                   *)

TakeItem ==
  /\ recycling = None
  /\ m_queue # << >>
  /\ recycling' = Head(m_queue)
  /\ m_queue' = Tail(m_queue)
  /\ UNCHANGED <<sliceVars, indexed, listVars, m_slicesLock,
                 m_deleteDocumentLock, tokens, blockers, victim, localVars, pc>>

RecycleAtOnce ==            \* mutated form: does not wait for the tracker
  /\ recycling # None
  /\ slices' = slices \ {victim[recycling]}
  /\ lists' = lists \ {recycling}
  /\ contents' = [contents EXCEPT ![recycling] = {}]
  /\ victim' = [victim EXCEPT ![recycling] = None]
  /\ recycling' = None
  /\ UNCHANGED <<count, active, indexed, m_sliceBuffers, m_activeSlice,
                 m_slicesLock, m_deleteDocumentLock, tokens, blockers, m_queue,
                 localVars, pc>>

(* WaitForCompletion has returned: the slice and the list are deleted.     *)
Recycle ==
  /\ recycling # None
  /\ blockers[recycling] = {}
  /\ slices' = slices \ {victim[recycling]}
  /\ lists' = lists \ {recycling}
  /\ contents' = [contents EXCEPT ![recycling] = {}]
  /\ victim' = [victim EXCEPT ![recycling] = None]
  /\ recycling' = None
  /\ UNCHANGED <<count, active, indexed, m_sliceBuffers, m_activeSlice,
                 m_slicesLock, m_deleteDocumentLock, tokens, blockers, m_queue,
                 localVars, pc>>

-----------------------------------------------------------------------------
Add(a) ==
  \/ AllocateDocument(a) \/ CreateNewActiveSlice(a) \/ StartTracker(a)
  \/ FinishNewSlice(a) \/ IngestThrows(a) \/ Activate(a)
  \/ CommitDocument(a) \/ MapAdd(a)

Delete(d) ==
  \/ RequestToken(d) \/ NotFound(d) \/ FindAndForget(d) \/ ClearActiveBit(d)
  \/ ExpireDocument(d) \/ RecycleSlice(d) \/ StartTracker(d)
  \/ FinishRecycleSlice(d) \/ Unlock(d) \/ EndDelete(d)

Query(r) == RequestToken(r) \/ GetSliceBuffers(r) \/ EndQuery(r)

Recycler == TakeItem \/ Recycle

Next ==
  \/ \E a \in Adder : Add(a)
  \/ \E d \in Deleter : Delete(d)
  \/ \E r \in Reader : Query(r)
  \/ Recycler

Spec == Init /\ [][Next]_vars

-----------------------------------------------------------------------------
TypeOK ==
  /\ slices \subseteq Slice /\ count \in [Slice -> Counters]
  /\ active \subseteq Handle /\ indexed \subseteq Handle
  /\ lists \subseteq List /\ contents \in [List -> SUBSET Slice]
  /\ m_sliceBuffers \in List /\ m_activeSlice \in Slice \cup {None}
  /\ m_slicesLock \in Adder \cup {None}
  /\ m_deleteDocumentLock \in Deleter \cup {None}
  /\ tokens \subseteq Client /\ blockers \in [List -> SUBSET Client]
  /\ victim \in [List -> Slice \cup {None}]
  /\ m_queue \in Seq(List) /\ recycling \in List \cup {None}
  /\ handle \in [Worker -> Handle \cup {None}]
  /\ old \in [Worker -> List \cup {None}]
  /\ seen \in [Reader -> List \cup {None}]
  /\ pc \in [Thread -> PC]

Queued == {m_queue[i] : i \in 1 .. Len(m_queue)}
Held   == {old[t] : t \in Worker} \ {None}
Retired == Queued \cup Held \cup ({recycling} \ {None})
Using(s) == {t \in Worker : /\ pc[t] \in {"ingest", "activated", "committed",
                                          "clear", "expire", "recycle"}
                            /\ handle[t][1] = s}

(* Shard.h:103-106, 284-287: under a token a query may use the list that   *)
(* it found and every slice on it, however old; an Add or a Delete may use *)
(* the slice of its document; and what the shard refers to exists.         *)
NothingFreedInUse ==
  /\ \A r \in Reader : pc[r] = "reading" =>
       seen[r] \in lists /\ contents[seen[r]] \subseteq slices
  /\ \A s \in Slice : Using(s) # {} => s \in slices
  /\ m_sliceBuffers \in lists /\ contents[m_sliceBuffers] \subseteq slices
  /\ m_activeSlice # None => m_activeSlice \in contents[m_sliceBuffers]

(* Every list but the current one is retired once, every slice is on the   *)
(* current list or retired with exactly one old list: nothing leaks and    *)
(* nothing is deleted twice.                                               *)
NoLeakNoDoubleFree ==
  /\ lists = Retired \cup {m_sliceBuffers}
  /\ m_sliceBuffers \notin Retired
  /\ Cardinality(Retired) = Len(m_queue)
                          + Cardinality({t \in Worker : old[t] # None})
                          + Cardinality({recycling} \ {None})
  /\ slices = contents[m_sliceBuffers] \cup ({victim[l] : l \in Retired} \ {None})
  /\ \A l \in Retired : victim[l] \notin contents[m_sliceBuffers]
  /\ \A k, l \in Retired : k # l /\ victim[k] # None => victim[k] # victim[l]

(* What the map contains can be found by every query that starts now: it   *)
(* is active, and on the current list.  IIngestor.h:119-122.                *)
IndexedIsServed ==
  \A h \in indexed : h \in active /\ h[1] \in contents[m_sliceBuffers]

(* The assertions and exceptions of CommitDocument, ExpireDocument and     *)
(* RecycleSlice are never met.                                             *)
Committed(s) == m_sliceCapacity - count[s].unallocated - count[s].pending
AssertionsHold ==
  /\ \A a \in Adder : pc[a] = "activated" => count[handle[a][1]].pending > 0
  /\ \A d \in Deleter : pc[d] = "expire" =>
       count[handle[d][1]].expired < Committed(handle[d][1])
  /\ \A d \in Deleter : pc[d] = "recycle" => Recyclable(handle[d][1])
=============================================================================
