------------------------------- MODULE Index -------------------------------
(***************************************************************************)
(* A shard in its index (src/src/Index/src/SimpleIndex.cpp): StartIndex    *)
(* has made blockCount blocks of memory and started the recycler's thread; *)
(* StopIndex shuts the recycler's queue down and joins that thread, while  *)
(* Adds and Deletes may be under way or begin.  Module Shard has what they *)
(* do; here the blocks come from the allocator's free list                 *)
(* (BlockAllocator), and the queue may refuse (BlockingQueue).             *)
(* A query meets none of this: to the recycler it is a Delete that finds   *)
(* nothing, which takes a token and returns it.                            *)
(***************************************************************************)
EXTENDS Shard

ASSUME IndexAssumption ==
  /\ IsFiniteSet(Slice) /\ Slice # {} /\ Slice = 1 .. Cardinality(Slice)
  /\ List = 1 .. Cardinality(List)

VARIABLES
  blockCount,         \* the blocks that StartIndex has made
  m_freeList,         \* of the allocator: the list that m_freeListHead heads
  m_shutdown, m_finished,     \* of the recycler's queue
  running,            \* the recycler's thread
  owner,              \* whoever owns the index, and calls StopIndex
  leaked              \* lists that nobody refers to any more

indexVars == <<blockCount, m_freeList, m_shutdown, m_finished, running, owner, leaked>>
allVars == <<vars, indexVars>>

IndexInit ==
  /\ Init /\ m_sliceBuffers = 1
  /\ blockCount \in 1 .. Cardinality(Slice)
  /\ m_freeList = [i \in 1 .. blockCount |-> i]
  /\ m_shutdown = FALSE /\ m_finished = FALSE /\ running = TRUE
  /\ owner = "running"
  /\ leaked = {}

-----------------------------------------------------------------------------
(* The calls.  Addresses of lists are interchangeable: a new list has the  *)
(* lowest that is free.                                                    *)
LowestFree == \A l \in List \ lists : m_sliceBuffers' <= l

(* AllocateBlock throws when no block is free; then nothing has changed.   *)
AllocateBlock(a) ==
  /\ CreateNewActiveSlice(a) /\ LowestFree
  /\ m_freeList # << >> /\ m_activeSlice' = Head(m_freeList)
  /\ m_freeList' = Tail(m_freeList)
  /\ UNCHANGED <<blockCount, m_shutdown, m_finished, running, owner, leaked>>

TakesBack(d) ==
  /\ RecycleSlice(d) /\ LowestFree
  /\ UNCHANGED indexVars

(* TryEnqueue takes the item, or waits ...                                 *)
AcceptAlways(t) ==          \* mutated form: the flag is not looked at
  /\ \/ t \in Adder /\ FinishNewSlice(t)
     \/ t \in Deleter /\ FinishRecycleSlice(t)
  /\ UNCHANGED indexVars

Accept(t) ==
  /\ ~m_shutdown
  /\ \/ t \in Adder /\ FinishNewSlice(t)
     \/ t \in Deleter /\ FinishRecycleSlice(t)
  /\ UNCHANGED indexVars

(* ... or refuses, and ScheduleRecyling, which has already released the    *)
(* item, throws: the call ends, its locks and its token are given back.    *)
ThrowItAway(t) ==
  /\ Goto(t, "schedule", "idle")
  /\ leaked' = leaked \cup {old[t]}
  /\ old' = [old EXCEPT ![t] = None]
  /\ handle' = [handle EXCEPT ![t] = None]
  /\ m_slicesLock' = IF t \in Adder THEN None ELSE m_slicesLock
  /\ m_deleteDocumentLock' = IF t \in Deleter THEN None ELSE m_deleteDocumentLock
  /\ tokens' = tokens \ {t}
  /\ blockers' = [l \in List |-> blockers[l] \ {t}]
  /\ UNCHANGED <<sliceVars, indexed, listVars, victim, m_queue, recycling, seen,
                 blockCount, m_freeList, m_shutdown, m_finished, running, owner>>

RefuseWaits(t) ==           \* mutated form: a thread that waits is not woken
  /\ m_shutdown /\ Len(m_queue) < QueueCapacity
  /\ ThrowItAway(t)

Refuse(t) ==
  /\ m_shutdown
  /\ ThrowItAway(t)

IndexAdd(a) ==
  \/ AllocateBlock(a) \/ Accept(a) \/ Refuse(a)
  \/ /\ \/ AllocateDocument(a) \/ StartTracker(a) \/ IngestThrows(a)
        \/ Activate(a) \/ CommitDocument(a) \/ MapAdd(a)
     /\ UNCHANGED indexVars

IndexDelete(d) ==
  \/ TakesBack(d) \/ Accept(d) \/ Refuse(d)
  \/ /\ \/ RequestToken(d) \/ NotFound(d) \/ FindAndForget(d) \/ ClearActiveBit(d)
        \/ ExpireDocument(d) \/ StartTracker(d) \/ Unlock(d) \/ EndDelete(d)
     /\ UNCHANGED indexVars

-----------------------------------------------------------------------------
(* The recycler's thread                                                   *)

TryDequeue ==
  /\ running /\ TakeItem
  /\ m_finished' = (m_shutdown /\ m_queue' = << >>)
  /\ UNCHANGED <<blockCount, m_freeList, m_shutdown, running, owner, leaked>>

DeleteKeepsBlock ==         \* mutated form: the buffer is not given back
  /\ running /\ Recycle
  /\ UNCHANGED indexVars

(* Deleting the slice gives its buffer back to the allocator.              *)
DeleteRetired ==
  /\ running /\ Recycle
  /\ m_freeList' = IF victim[recycling] = None THEN m_freeList
                   ELSE <<victim[recycling]>> \o m_freeList
  /\ UNCHANGED <<blockCount, m_shutdown, m_finished, running, owner, leaked>>

(* TryDequeue returns false.                                               *)
EndThread ==
  /\ running /\ recycling = None /\ m_finished
  /\ running' = FALSE
  /\ UNCHANGED <<vars, blockCount, m_freeList, m_shutdown, m_finished, owner, leaked>>

RecyclerThread == TryDequeue \/ DeleteRetired \/ EndThread

-----------------------------------------------------------------------------
(* StopIndex                                                               *)

Shutdown ==
  /\ owner = "running" /\ owner' = "shutdown"
  /\ m_shutdown' = TRUE
  /\ m_finished' = (m_queue = << >>)
  /\ UNCHANGED <<vars, blockCount, m_freeList, running, leaked>>

Spin ==
  /\ owner = "shutdown" /\ owner' = "join"
  /\ m_finished
  /\ UNCHANGED <<vars, blockCount, m_freeList, m_shutdown, m_finished, running, leaked>>

Join ==
  /\ owner = "join" /\ owner' = "stopped"
  /\ ~running
  /\ UNCHANGED <<vars, blockCount, m_freeList, m_shutdown, m_finished, running, leaked>>

StopIndex == Shutdown \/ Spin \/ Join

IndexNext ==
  \/ \E a \in Adder : IndexAdd(a)
  \/ \E d \in Deleter : IndexDelete(d)
  \/ RecyclerThread
  \/ StopIndex

(* Calls that have begun go on, the recycler runs, and so does StopIndex,  *)
(* once it has been called; nothing has to be called.                      *)
IndexSpec ==
  /\ IndexInit /\ [][IndexNext]_allVars
  /\ \A a \in Adder : WF_allVars(pc[a] # "idle" /\ IndexAdd(a))
  /\ \A d \in Deleter : WF_allVars(pc[d] # "idle" /\ IndexDelete(d))
  /\ WF_allVars(RecyclerThread)
  /\ WF_allVars(Spin \/ Join)

-----------------------------------------------------------------------------
(* StopIndex returns, whatever is going on: also when a Delete waits on a  *)
(* full queue for a recycler that waits for its token (ISimpleIndex.h:116).*)
StopReturns == owner = "shutdown" ~> owner = "stopped"

(* Once StopIndex has returned nothing is retired and nothing is freed.    *)
StoppedIsDrained ==
  /\ owner = "stopped" => recycling = None /\ m_queue = << >>
  /\ m_finished => m_queue = << >>

(* Every block is free, or holds a slice that is on the list, or one that  *)
(* is retired; what a refused call had retired is lost, but nothing is     *)
(* lost before StopIndex is called.                                        *)
Free == {m_freeList[i] : i \in 1 .. Len(m_freeList)}
BlocksAccounted ==
  /\ Cardinality(Free) = Len(m_freeList)
  /\ Free \cap slices = {} /\ Free \cup slices = 1 .. blockCount
  /\ lists = Retired \cup leaked \cup {m_sliceBuffers}
  /\ slices = contents[m_sliceBuffers]
                \cup ({victim[l] : l \in Retired \cup leaked} \ {None})
  /\ leaked # {} => m_shutdown

(* While the queue has room for whatever can be retired, Deletes end, and  *)
(* so does the recycler's wait for the tokens of each item that it takes   *)
(* from the queue, also if the index is stopped meanwhile.                 *)
RecyclingEnds ==
  blockCount <= QueueCapacity =>
    /\ \A d \in Deleter : pc[d] = "recycle" ~> pc[d] = "idle"
    /\ recycling # None ~> recycling = None
=============================================================================
