# BitFunnel in TLA+

BitFunnel is an in-memory index for bit-sliced signatures, in C++. Documents
are columns of bit matrices ("slices"); a query is compiled to a matching plan
that walks the rows of every slice. This directory models the parts of it
where the order of events matters, checks them with TLC on small instances and
proves the most important results with TLAPS. Paths below are relative to the
root of the repository; `Index/` stands for `src/Index/src/`, `Plan/` for
`src/Plan/src/`, `Chunks/` for `src/Chunks/src/` and `Utilities/` for
`src/Common/Utilities/src/`.

Contents: 1 the system, 2 plan, 3 modules and code, 4 runs, 5 proofs,
6 what disagrees with the documentation, 7 what is not modelled, 8 how to run.

## 1 The system

### Components, state and operations

| component | state | operations | what makes it correct |
|---|---|---|---|
| Token manager (`Utilities/Token*.cpp`) | next serial, tokens in flight, shutting-down flag, deque of trackers, a count per tracker | RequestToken, ~Token, StartTracker, WaitForCompletion, Shutdown | a tracker is complete exactly when every token older than itself is back; no waiter is forgotten |
| Blocking queue (`inc/BitFunnel/Utilities/BlockingQueue.h`) | deque, two condition variables, m_shutdown, m_finished | TryEnqueue, TryDequeue, Shutdown | bounded, no lost wake-up, drained before Shutdown returns, empty ever after |
| Shard and slices (`Index/Shard`, `Slice`, `DocumentHandleInternal`) | the published list of slice buffers, the active slice, three counters per slice, the active bit per column | AllocateDocument, CommitDocument, ExpireDocument, RecycleSlice, iteration | a reader's list and slices stay allocated; nothing leaks; counters add up |
| Recycler (`Index/Recycler.cpp`) | a blocking queue of retired lists and slices, one thread | ScheduleRecyling, Run, Shutdown | frees after the grace period, frees everything |
| Ingestor and document map (`Index/Ingestor.cpp`, `DocumentMap.cpp`) | map DocId to handle, document count, the delete lock | Add, Delete, Contains, GetDocumentCount | a set of documents, with atomic Delete |
| Query runner (`Plan/QueryRunner.cpp`, `Utilities/TaskDistributor*.cpp`, `ThreadManager.cpp`) | task counter, start barrier, results vector | Run | each query once, all threads start together, Run returns |
| Shard iterator (`Index/Shard.cpp:538-602`) | its snapshot of the list, slice index, offset | GetIterator, operator++ | every stable document once |
| Index lifecycle (`Index/SimpleIndex.cpp`) | started flag, recycler thread | Configure..., StartIndex, StopIndex | stop returns and drains the recycler |
| Slice buffers (`Utilities/BlockAllocator.cpp`) | free list threaded through the blocks | AllocateBlock, ReleaseBlock | a block has one owner |
| Row and document tables (`Index/RowTableDescriptor.cpp`, `DocTableDescriptor.cpp`) | offsets; bits in the slice buffer | GetBit, SetBit, ClearBit, Initialize | rows do not overlap; bits are set atomically |
| Term tables and treatments (`Index/TermTable*.cpp`, `Treatment*.cpp`) | hash of terms to row ids, sealed flag | OpenTerm, AddRowId, CloseTerm, Seal, GetRows | rows of a term are the ones its treatment gave it |
| Query parser (`Plan/QueryParser.cpp`) | position in the text | parse | the tree the text says |
| Query planning (`Plan/TermMatchTreeConverter.cpp`, `AbstractRowEnumerator.cpp`, `MatchTreeRewriter.cpp`, `QueryPlanner.cpp`) | trees, a table of rows per shard | convert, enumerate, rewrite | a rewritten tree matches the same columns, in every shard |
| Match compilers (`Plan/RankDownCompiler.cpp`, `RankZeroCompiler.cpp`, `ByteCodeInterpreter.cpp`) | code, labels, stacks | Compile, Run | the code finds the columns the tree describes, once each |
| NativeJIT engine (`Plan/NativeCodeGenerator.cpp`, `MachineCodeGenerator.cpp`, `RegisterAllocator.cpp`) | machine code | Compile, Run | as above |
| Match verifier (`Plan/MatchVerifier.cpp`) | sorted lists of expected and observed ids | Verify | false positives and negatives are set differences |
| Chunks (`Chunks/`), document (`Chunks/Document.cpp`), ring buffer (`inc/BitFunnel/Utilities/RingBuffer.h`) | position in a byte buffer, current document, the last words of its stream | ChunkReader, ChunkIngestor, ChunkManifestIngestor | each document of a chunk is ingested once, under the n-grams of its streams |
| Document cache (`Index/DocumentCache.cpp`) | a list of documents | Add | what is cached has been added |
| Shard definition (`src/Common/Configuration/src/ShardDefinition.cpp`) | increasing posting counts | AddShard, GetShard | shards partition the posting counts |
| Statistics, facts | counters, lists | record, write | (debugging aids) |
| Containers, allocators, streams, CSV, command line, logging, REPL, mocks | | | (support) |
| NativeJIT, googletest | | | vendored |

### How they interact

```
 clients --Add/Delete--> Ingestor --AllocateDocument--> Shard --ScheduleRecyling--> BlockingQueue
    |                       |  RequestToken                |  StartTracker                |
    |                       v                              v                              v
    +----query (token)--> TokenManager <-----------------------WaitForCompletion---- Recycler thread
    |                                                                                     |
    +---- reads m_sliceBuffers without a lock ------> slices <------------- delete --------+
```

* A **query** takes a token, loads `m_sliceBuffers` once, walks the slices and
  drops the token (`Plan/ByteCodeQueryEngine.cpp:86-117`). It holds no lock.
* An **Add** takes a column from the active slice under `m_slicesLock`; if the
  slice is full it publishes a copy of the list with a new slice and hands the
  old list to the recycler before it releases the lock.
* A **Delete** takes a token, then `m_deleteDocumentLock`; it expires the
  column, and if that was the last of its slice it publishes a list without
  the slice and hands the old list *and the slice* to the recycler, with both
  still in its hands.
* The **recycler** waits for one tracker at a time, so an item waits for those
  in front of it too.

### Hard behaviours

Lock-free readers against list replacement (use after free); trackers that
count tokens returned out of order; condition variables notified outside the
lock or one at a time; a barrier whose size is fixed in advance; a bounded
queue between threads that hold tokens and locks and the thread that waits for
tokens; an exception between two updates of the counters; calls of Add and
Delete for one DocId at the same time; StopIndex while calls are under way; a
query that reads rows while their bits are set and cleared; code that is
generated for a machine whose stacks and row bounds nothing tests; indices that
wrap in a ring buffer; row indices that are shifted when a table is sealed.
PROJECT.json lists them under "hazards", each at its line, with the properties that cover it.

## 2 Plan

Done, in this order:

1. `GracePeriod` (abstract) and `TokenManager`, which implements it; proofs.
2. `BlockingQueue`; proofs.
3. `Shard`: shards, slices, the recycler, over grace periods and a bounded
   queue. The most important behaviour of the system: memory reclamation.
   Proofs of all its safety properties.
4. `DocumentSet` (abstract) and `Ingestor`, which implements it; proofs.
5. `QueryRunner`; proofs.
6. `ShardIterator`; proofs.
7. `Index`: a shard in its index, with the allocator of blocks, the shutdown of
   the recycler's queue and StopIndex; proofs that a stopped index is drained,
   that no block is lost, and that the shard is safe in it.
8. `PlanRows`, `RowPlan`, `RankCompilers`, `ByteCode`, `Matcher`, `Matching`: a
   query from the tree of terms to its results, over rows that change; proofs that
   the generated code keeps the interpreter within its stacks and rows, and that
   results come once and in order.
9. `TermTable`: building and sealing a term table; proofs that rows are apart
   and that shared rows keep to the density.
10. `Document`, `Ingestion`: chunk files to index, which composes `Ingestor`,
    `Document` and `ShardIterator`; proofs of what a reader makes of a chunk and
    of all safety properties of the composition.

Left: `MatchVerifier`, `ShardDefinition` and the query parser as operators
against reference definitions; facts, once the builder of term tables gives
them rows; the register allocator of the NativeJIT engine; the unsynchronised
counter of `DocumentCountFilter`; a query runner that keeps one engine for
several queries. Of the proofs: that the code finds for a compile tree without
negations what the tree says of the rows, between what held throughout and what
could have been seen, which is the half of ResultsBetween below the rewriting.

## 3 Modules and code

A step of a thread in these models is what it does between two points where
another thread can see or change what it works on: the body of a `lock_guard`
is one step, an atomic read outside the lock is a step of its own. Names of
variables and actions are those of the members and methods where TLA+ allows.
Definitions marked "mutated form" are plausible bugs; nothing refers to them.
They stand in for the definition they follow to show that a property can fail.

### GracePeriod, TokenManager

`GracePeriod` is the promise of `inc/BitFunnel/Index/Token.h`: a client enters
and leaves, a grace period records who is inside when it starts, and it is over
when all of those have left and it has been told so, one by one. `TokenManager`
has the members of the class, the sequence `tracker` of all trackers made (a
`shared_ptr` keeps a tracker alive after it has left the deque `m_trackers`), how
far OnTokenComplete has got in the deque (`position`), and per thread a program
counter and the serial number of its token.

| action | code |
|---|---|
| RequestToken, IssueToken | the assertion on m_isShuttingDown *before* the lock; the increments under it |
| StartTracker | the pair (cutoff, remaining) copied under the lock; a tracker that is born complete is not pushed |
| DropToken, ReleaseLock, TestShutdown, SignalShutdown | OnTokenComplete: the decrement (visible to Shutdown, which reads it without the lock), the unlock, the test, notify_all |
| TellTracker, WakeWaiters | the walk over the deque under m_lock: one tracker's decrement under its m_conditionLock, then its notify_all outside that lock, the pop at the front and the assertion behind it |
| Shutdown, TestInFlight, ParkShutdown, ResumeShutdown | the flag; the loop's test outside the lock; wait; wake-up |
| WaitForCompletion, TestComplete, ParkTracking | the loop: the test takes m_conditionLock, which is held from a failed test until wait has begun (`tested`) |
| SpuriousWake | a condition variable may return by itself |

### BlockingQueue

One action per way through TryEnqueue and TryDequeue, since both hold `m_lock`
from their first test to the notification; Shutdown is four actions, because it
notifies both conditions after the unlock and then spins on `m_finished`.
`notify_one` picks any waiter, if there is one. Producers are the callers of
`ScheduleRecyling` and `TaskPool::TryEnqueue`, consumers the recycler's thread
and the threads of the task pool, owners the callers of `Shutdown` (the
destructor of Recycler calls it once more).

### Shard

Threads are adders (`Ingestor::Add`), deleters (`Ingestor::Delete`) and readers
(a query or an iterator). `slices` are the blocks that hold a slice, `lists` the
addresses that hold a vector of buffers; both are *reused* after they are freed,
so that a reader with a stale pointer would be seen to read someone else's
memory. `contents` is what is on a list, `victim` the slice that goes with a
retired list, `old` the list a thread is about to retire. A slice has the three
counters of the class; `active` holds the document active bits.

| action | code |
|---|---|
| AllocateDocument | `Shard::AllocateDocument` with space in the active slice |
| CreateNewActiveSlice, StartTracker, FinishNewSlice | without space: the new slice and list are published, the tracker is started, the old list is scheduled (this may block), the column is taken; `m_slicesLock` is held throughout |
| IngestThrows | `IDocument::Ingest` throws: the column stays pending for ever |
| Activate, CommitDocument, MapAdd | the rest of Add |
| RequestToken, FindAndForget / NotFound, ClearActiveBit, ExpireDocument | Delete, under its lock; ExpireDocument returns whether the slice is full of expired columns |
| RecycleSlice, StartTracker, FinishRecycleSlice | the list without the slice under `m_slicesLock`; tracker and scheduling outside it |
| Unlock, EndDelete | the lock is released before the token: they are destroyed in the reverse order of their declaration |
| GetSliceBuffers, EndQuery | a query |
| TakeItem, Recycle | the recycler's loop; Recycle deletes slice and list |

The token manager appears as its specification: `tokens` is who holds one and
`blockers[l]` whom the tracker of list l waits for. That `TokenManager`
implements grace periods is checked and proved (GracePeriodSpec). A token's
return is one step here, GracePeriod's Leave with a Tell to each tracker: what
can come in between sees a tracker complete no earlier than here. The queue appears as a
sequence of at most `QueueCapacity` items. A slice's reference count is always
1 (nothing calls `IncrementRefCount`), so `DecrementRefCount` is `RecycleSlice`.
A throwing `RecycleSlice` is left out of the next-state relation, and
`AssertionsHold` shows that it never would throw.

### Index

`Index` extends `Shard`: the calls of an Add or Delete are its actions, with
what the rest of the index adds. CreateNewActiveSlice takes the head of the
allocator's free list, and DeleteRetired puts a block back in front of it. The
queue may refuse an item (after `Shutdown`); ScheduleRecyling has by then
released the pointer, so the list is `leaked`, and the exception gives back the
caller's locks and token (Refuse, ThrowItAway).

| action | code |
|---|---|
| IndexInit | `SimpleIndex::StartIndex`: the allocator's blocks, the recycler's thread |
| AllocateBlock, DeleteRetired | `SliceBufferAllocator`, `BlockAllocator` |
| Accept, Refuse | the two results of `m_queue->TryEnqueue` in `Recycler::ScheduleRecyling` |
| TryDequeue, EndThread | the loop of `Recycler::Run` |
| Shutdown, Spin, Join | `SimpleIndex::StopIndex`, through `Recycler::Shutdown` and `BlockingQueue::Shutdown` |

Queries are left out of the instance: what the recycler sees of one is its
token, and a Delete of a DocId that is not there has the same.

### ShardIterator

`Shard::ConstIterator`, one column examined per step, while others set and clear
active bits. `visited` and `stable` are history variables. `MCShardIterator`
starts it on shards of two, one and no slices; `Ingestion` runs it beside
ingestion (INSTANCE).

### DocumentSet, Ingestor

`DocumentSet` is what `IIngestor.h` says about Add, Delete and Contains.
`Ingestor` has the document map, the DocIds in the DocTable, the active bits,
the document count and the delete lock. Each Add gets a fresh column (where
columns come from is `Shard`). Clients may add any DocId; the history variable
`repeated` has those that were added while the index had them or was adding them.

### Document, Ingestion

`Document` has the pure part. A chunk is a sequence of items (DocId, stream id,
word, the zero that ends something): `ReadItem` is one step of `ChunkReader`'s
parser, with where it is inside the file as its state, `ReadItems` folds it over
the items, and `ChunkReader` gives the documents of a chunk up to its end or the
first error. `AddTerm` and `CloseStream` are those of
the class, over a ring buffer with the members and the wrapping arithmetic of
`RingBuffer`.

`Ingestion` extends `Ingestor`: its adders are the threads of the
TaskDistributor that ChunkEnumerator makes.

| action | code |
|---|---|
| TakeChunk | `TaskDistributor::TryAllocateTask`, and a ChunkReader for that chunk |
| ReadDocument, EndChunk, ReaderThrows | the next document of `chunks[task[a]]`, up to `IngestDocument`; the end of the chunk; an exception, which on these threads ends the process |
| Allocate, IngestorThrows, Ingest, EndAdd | `Ingestor::Add`, with the columns in their order and the postings of the document |
| CacheDocument | the rest of `ChunkIngestor::OnDocumentExit`: the document cache |
| DeleteDocument, BeginWalk, Walk | clients beside it: `Ingestor::Delete`, `Shard::GetIterator` and the iterator |

A chunk may be cut short anywhere; a manifest may name a DocId twice. What
ChunkReader makes of a chunk depends on nothing but the chunk, and nobody sees
it before `IngestDocument`, so `chunks` has it read beforehand; how far a thread
has come in it is `m_next`. With a single thread `TaskDistributor` runs the task
in the caller, which an exception then reaches; IngestionAssumption asks for more
than one.

### PlanRows, RowPlan, RankCompilers, ByteCode, Matcher, Matching

`PlanRows` has what all of these talk about: the term tables of the shards, the
rows of a plan and the powers of two. `RowPlan` is a function of the query and
of the term tables: the tree of rows (TermMatchTreeConverter, with the n-grams of
phrases), the row table of the plan with padding for shards that have fewer rows
(AbstractRowEnumerator), and the rewritten tree (MatchTreeRewriter).
`RankCompilers` makes a tree of CompileNodes of it (RankDownCompiler,
RankZeroCompiler), `ByteCode` generates code and jump table from one
(ByteCodeGenerator, the `Compile` of each CompileNode). `Matcher` runs the code:
one action per kind of instruction, each with its registers and stacks; Begin and
FinishIteration are the loops of `ByteCodeQueryEngine::Run` and of
`ByteCodeInterpreter::Run` over shards, slices and iterations. Beside it another
thread sets the bits of a document one by one (AddPosting, then Activate), and
documents are deleted (Expire).

`ByteCode` and `Matcher` take the plans as a constant: of each query the rows,
the compile tree and the rank at which to start. What they ask of a plan
(PlansAssumption) is that its tree *makes sense*: a row is read at a rank that is
its own or is shifted to it, a RankDown leads from one rank to a lower one,
reports are at rank 0, below them are values. `Matching` puts the two halves
together, with the plans that RankCompilers makes of queries, and TLC evaluates
the assumption for those. The first half is recursive over trees whose depth
nothing bounds, which is why the prover sees only the second: the code is
generated by a recursive function on the height of trees.

A query that leaves no row of its own is thrown at (`Throws`), as a `const char*`,
which the handlers of RecoverableError in QueryRunner do not catch; `Matching` runs
the others. In the instance none throws: the parser makes no phrase of fewer than
two terms, every term has rows, and a query has far fewer than the 500 rows at
which AbstractRowEnumerator begins to drop them.

What the answer is compared with is not the plan but what a row means: `Holds`
reads the *unrewritten* tree of rows at a column, from the bits that were set
throughout (`always`) and those that were set at some time (`ever`). `Matches`
is the meaning of the query for the words of a document.

### TermTable

`TermTableBuilder` one entry of the document frequency table at a time: adhoc
terms, private rows, and bins shared between terms, which are found with
`lower_bound` and a random number of skips. The Bin that is searched for has an
index that is never initialised: which bin of exactly the right space comes
first is a free choice (`MayFind`). Then the unknown terms, the recipes of adhoc
terms, the row counts, and `TermTable::Seal`, which moves the rows of explicit
terms behind the adhoc rows and those of the system terms to the end. `GetRows`
is what RowIdSequence reads from a sealed table.

### QueryRunner

The threads of a TaskDistributor, the ThreadSynchronizer and the thread that
calls `QueryRunner::Run`. A query is one step. `m_queriesProcessed`, which no
other thread reads, is incremented with the result. A wake-up without
`m_threadCount = 0` goes straight back to sleep under the lock and is not a step.

## 4 Runs

Distinct states in parentheses.

| run | instance | shows |
|---|---|---|
| token_manager (60k) | 3 threads, 2 tokens, 2 trackers | counters are exact (CountsExact), trackers leave the deque in order, refinement of GracePeriod, whoever waits for a tracker returns |
| token_manager_hang | 2 threads, 2 tokens | section 6 |
| blocking_queue (26k) | 3 producers, 2 consumers, an owner, capacity 2, 2 items each | FinishedIsDrained, WakeUpsSuffice; every offer ends, every item is taken, Shutdown returns |
| shard (178k) | adder, deleter, reader; 2 slices of 2 columns, 5 lists, queue of 1; symmetry | NothingFreedInUse, NoLeakNoDoubleFree, IndexedIsServed, AssertionsHold |
| index (292k) | adder, deleter; 1 or 2 blocks of 1 column, 5 lists, queue of 1 | a stopped index is drained, blocks are accounted for, StopIndex returns whatever is going on, the recycler gets on (RecyclingEnds) |
| ingestion (370k) | 2 adders, 2 deleters, 3 DocIds, ring buffer of 4 slots, bigrams, slices of 2 columns, 4 manifests, one with a DocId twice | DocumentSetSpec, and how map, bits, count and cache agree; documents are indexed as they were written; each is ingested once; the walk misses nothing in the first slice and sees nothing twice; ingestion ends |
| matching (126k) | 6 queries, 2 shards with 2 and 1 slices, ranks 0 to 2, rows of 4 quadwords of 2 bits, a document added and one deleted | the answer lies between what held throughout and what could have been seen; no stable match is missed; each result once, in order; the machine keeps to its stacks and rows; the query ends |
| matching_not | the same | section 6 |
| term_table (82k) | 2 ranks, 5 frequencies, 2 treatments, tables of up to 4 terms, up to 2 skips | shared rows keep to the density; rows of a sealed table are apart |
| shard_iterator_skip | 2, 1 and no slices of 2 columns | section 6 |
| query_runner (114k) | 5 threads, 7 tasks | EveryTaskOnce, ResultsComplete, NobodyStranded; Run returns |
| query_runner_hang | 3 threads, 2 tasks | section 6 |

**Bounds.** Two tokens and two trackers let tokens come back in either order
and put a tracker before, between and after them, with a third thread that
waits or shuts down. Three producers against two free slots and two consumers
let a notification go to one of several sleepers while another thread barges
in. Two slices of two columns allow a slice to be filled, partly expired,
retired and its block reused while a reader has it on its list. Five lists are
the current one, one with the recycler, one queued and one each in the hands of
the adder and of the deleter, so that the number of addresses never blocks
anybody. In `index` one block means a pool that runs empty, and as many retired
slices as a queue of one holds; two blocks mean a queue that fills up, which is
where a Delete and the recycler may wait for each other until the index is
stopped. More tasks than threads make some threads come round again after the
barrier.

The manifests of `ingestion` are two chunks, one chunk of three documents (which
makes a second slice), two chunks with the same DocId, and a chunk that is cut
in the middle of a document; streams are longer than the ring buffer, so its
indices wrap, and shorter than an n-gram, and empty. The queries of `matching`
have a negated row, a cross product that reaches its target (so the rewriter
stops expanding), a phrase, an Or above a negation, a negation of several
rows (the run matching_not), and one row of rank 0, for which a slice takes four
iterations. In one shard a term has rows at two ranks, in the
other fewer, so that both kinds of padding occur; a RankDown of two ranks calls
its subroutine four times. `TermTable` with five terms passes as well (1.2
million states, five minutes); four are enough for a bin that is shared by two
terms, found by exact space, skipped, and used up.

`MaxSerial`, `MaxTrackers`, `MaxItems`, `MaxAdds` and `MaxTerms` bound how often
something new is made; they appear in the guards of IssueToken, PushTracker,
Offer, CountDocument and NextEntry only. `MaxAdds` in `ingestion` is the number
of documents of the largest manifest and stops nobody.

**Deadlock** is checked in `shard` (there is always something to do) and
switched off where the system may really be through: threads bounded out of
their work (token_manager, blocking_queue), a Run or a query that has returned,
a manifest that has been ingested, an index that has been stopped, a table that
is sealed.

**Fairness.** Weak fairness of the steps that a thread takes once it is inside a
call: the operating system runs threads, and none of the modelled code waits
except where a guard says so. Locks are not assumed to be fair, with one
exception; where a lock is taken by a guarded step, weak fairness of the step is
enough in the runs because the holder cannot take it again and again (in `index`
there is one adder and one deleter). The exception is a tracker's m_conditionLock
(`token_manager`): waiters that wake up spuriously for ever take it for ever, and
strong fairness of OnTokenComplete and of TestComplete says that whoever else
wants it gets it at some time. In `index` the recycler's thread is fair too, and
StopIndex after it has been called; in `ingestion` each ingesting thread; in
`matching` the thread that runs the query. Nobody is obliged to start a call, to offer an item, to
delete, to walk, to stop the index or to wake up spuriously. Tokens are returned
because they are scoped objects and queries end (QueryEnds).

## 5 Proofs

`TokenManagerProofs` proves for any finite set of threads and any bounds

* `TypeCorrect`: types, in particular that no tracker's count goes below zero
  (the "token count underflow" assertion);
* `CountsAreExact`, `InOrder`: the properties of the same names;
* `ImplementsGracePeriod`: Spec implies GracePeriod's Spec under the mapping.

The inductive invariant `IInv` adds to these: one thread at most is inside the
lock, and starts at the front; serial numbers in hand are below
`m_nextSerialNumber`; cutoffs grow with the index; the deque holds, in order of
age, exactly the trackers with something remaining, and the one that is being
completed until it is popped. The lemma `TellsInOrder` is the heart of InOrder:
a token counted by a tracker is counted by all younger ones, except the one that
is being returned and has been told to the older one already, so whoever
completes a tracker behind the front would find the front complete.

`BlockingQueueProofs` proves for any numbers of producers, consumers and owners
and any capacity `TypeCorrect`, `Drained` (FinishedIsDrained), `NoLostWakeUp`
(WakeUpsSuffice, and NobodyLeftAsleep, which follows from it) and `EmptyForGood`
(StaysEmpty: a finished queue never has an item again). The invariant is the
conjunction of those with the fact that an owner past the unlock implies
m_shutdown. WakeUpsSuffice is what makes one `notify_one` per operation enough:
the number of awake threads on their way to the queue bounds what a sleeper
could have been woken for.

`IndexProofs`, in its first part, proves every safety property of `Shard` for any
numbers of threads, slices and lists, any slice capacity and any capacity of the
queue:
`NothingFreed` (NothingFreedInUse), `NoLeak` (NoLeakNoDoubleFree), `Served`
(IndexedIsServed), `NoAssertionFails` (AssertionsHold), `TypeCorrect`. None of
them is inductive; IInv is the conjunction of

* `Places`: which thread is where, and with which lock, token or old list;
* `Columns`: the columns that Adds and Deletes work on, and those in the map,
  are distinct, allocated, and on the current list;
* `Counts`: per slice, `pending` covers the Adds that have not committed and
  committed minus expired covers the documents that can still be expired. Hence
  a slice whose columns are all expired is in nobody's use (ExpiredUnused), which
  is what RecycleSlice relies on;
* `Lists`: retired lists are distinct, each with a victim of its own, and every
  slice is on the current list or is a victim;
* `Readers`: a query's list is current, or *guarded*: retired, and its tracker
  waits for the query or has not been started. Every slice on that list is on
  the current one or the victim of a guarded list. This is why the tracker has
  to start after the new list is published.

`SwapLists` is the step that publishes a list, for both callers.

Its second part is about `Index`, for any number of blocks.

* `Stopped` (StoppedIsDrained): `m_finished` is final. It is set only when the
  queue that accepts nothing more is empty; the recycler's thread ends, and
  StopIndex goes on, only after that (Drained). Only the recycler's steps,
  StopIndex and Accept touch what Drained speaks of, and Accept wants
  `m_shutdown` to be false.
* `ShardInvariant`: the invariant above, which has the lists that are lost as its
  parameter, holds in the index with `leaked` for them. A step of the index is a
  step of the shard or the refusal of an item; a refused list stays retired, so
  whoever reads it is still guarded. Hence `NothingFreedAtAll`, `ServedAtAll` and
  `NoAssertionFailsAtAll`: what the shard promises holds while the index stops,
  with calls thrown back half way, and after it.
* `NoBlockIsLost` (BlocksAccounted): no block is twice on the free list, and free
  blocks and blocks with a slice are disjoint and make up the pool (Blocks). A
  block goes from the one to the other in one step of AllocateBlock or
  DeleteRetired; that DeleteRetired does not put a block back twice is NoLeak's
  invariant. Which lists and slices there are comes from Lists.

`IngestionProofs` proves, about `Document`, `ChunkRead`, for any DocIds, words, sizes of n-grams and
of the ring buffer: every document that a reader hands over is the one that was
written at that place in the file, with its DocId and exactly the n-grams of its
streams, wherever the file is cut; and a file that is whole is read to its end.
The layers of the proof are those of the code: the slots between tail and head
hold a window of the stream, also where indices wrap (PushHolds, PopHolds);
AddTerm and CloseStream keep "the postings are the n-grams of the streams before
this one and those that start in front of the window" (AddTermHolds, CloseHolds),
and never push into a full buffer; a reader that begins a stream, a document, a
file comes out behind it (StreamRead, DocumentRead, FileRead); and what comes
after a cut takes back nothing that was handed over (ItemsKeep, TwoParts). The
recursions (items, streams, the purge of the buffer) are functions on 0 .. n;
LEMMA Induction, which follows from the numbers being well founded, is cited for
the set of those n for which a statement holds.

About `Ingestor` it proves, for any numbers of threads, documents and Adds `ImplementsDocumentSet` (DocumentSetSpec), `MapAndBitsAgree`
(ContainedIsServed and DeleteIsNotStale) and `CountCovers` (CountCoversServed),
and `ServedIsReachable` (ServedCanBeDeleted), whatever DocIds clients add. The
refinement rests on the delete lock: what Find has found is still in the map when
MapDelete takes it out.

Then about `Ingestion`, for any manifests, slice capacity and numbers of threads:

* `ImplementsIngestor`: every behaviour is one of `Ingestor`, so what holds there
  holds here (`IngestedIsASet`, `IngestionAgrees`, `IngestedIsReachable`).
  `ThreadsInvariant` is what the threads have in their hands: chunks are taken
  once, and an Add is of the last document that its thread has read.
* `ServedIsWritten` (IndexedAsWritten): from ChunkRead, and from nobody writing
  the rows of a column that is active.
* `CachedIsAdded` (CachedWasAdded): what is in the cache, and what an Add has just
  ended with (Arrived), is in the map, about to be expired, or expired; a step
  only ever moves it on in this order.
* `ChunksAreIngested` (EverythingIngested) rests on two invariants. *Cached*: a
  chunk that was taken is with a thread or in the cache; of a thread's chunk all
  is there but the document in its hands. *Counted*: unless an exception has
  ended the process, the used columns are as many as the documents of the chunks
  taken so far that are no longer ahead of their thread (Placed). Taking a chunk
  adds to neither, an Allocate adds one to both.
* `FirstSliceIsVisited` (FirstSliceComplete) and `WalkedOnce` (NeverTwice): the
  walk keeps the invariant of `ShardIteratorProofs`, taken over by INSTANCE with
  the same mapping; what ingestion and deletion do beside it is a step that
  changes active bits only (BesideHolds).

`QueryRunnerProofs` proves for any numbers of threads and tasks `TasksOnce`
(EveryTaskOnce), `AllResults` (ResultsComplete), `AllStartTogether`
(StartTogether) and `NobodyIsStranded` (NobodyStranded). `m_threadCount` counts
the threads that have not come; NobodyStranded is a pigeon-hole argument: if
all were parked or gone, the parked threads would hold all tasks, and with one
thread gone they are fewer than the tasks.

`ShardIteratorProofs` proves for any shard, any capacity of slices and any
activation and expiry meanwhile `FirstSlice` (FirstSliceComplete) and
`NothingTwice` (NeverTwice), besides `TypeCorrect`. The invariant says that
whatever has been visited is passed, that the iterator stands on the list, that
the offset stays where the first slice has left it (OffsetKept, which is also
why the later slices are skipped), and that the slices of a list are distinct.

`TermTableProofs` proves `SealedRowsApart` (RowsApart) for any treatments,
frequencies and density, tables of any length and any choice of bins, the
uninitialised one included. The invariant is: the positions that belong to
explicit terms lie behind those of the system terms (Ranges), indices handed out
are below `m_currentRow`, at rank 0 above the system rows (Bins, Relative), each
rank in use has adhoc rows (Counted), and after Seal all rows lie where Absolute
says. That the ranges of different terms do not overlap is not needed for it.

`RowsWithinDensity` (WithinDensity) needs more, and for any density, skips and
order of frequencies: while the table is built, a term has a row but once
(Different); a row has at most one bin, in the pool or set aside (OneBin); a
bin's space and the frequencies of those that share its row are together within
the density (Fits); and only a row with a bin is shared (Shared). That is the
point at which the uninitialised index does no harm: which of the bins with
enough space is found does not matter, only that it is taken out of the pool and
put back with less. Closing a term and `Seal` keep who shares with whom, since
`Seal` moves all rows of a rank that explicit terms have by the same distance
(SealMoves), so that the sums stay as they are (Sparse). Sums over a set of terms
are a recursive function on its subsets; SumOfAny, by induction over the
cardinality, says that any element may be taken out of one.

`MatcherProofs` proves, for any queries whose compile trees make sense, of any
height, any shards, slices, rows and ranks, and any documents that come and go:

* `AlwaysSound` (MachineSound): the interpreter never reads a row beyond its
  quadwords, never pops, looks at or returns from an empty stack, reports only in
  its iteration, and ends it with both stacks empty and the offset where it was;
* `ResultsInOrder` (OnceInOrder), and `ResultsArePlaces`: every result is a
  column that the index has.

The code is fixed before it runs, so the argument has two parts. For the code:
every place has a *note*, which says at which rank the offset counts, at which rank
the subroutine that the place is in was entered, how far the offset has moved
since (`k`, below two to the difference of the ranks), and how many slots of the
value stack are its own. An instruction is right when it leads from the note of
its place to that of the next (Follows), a jump leads to a place with the same
note, a call to the note of a fresh subroutine, and Return stands where nothing is
left on the stack and the offset is back (Right). `TreesCompile` says that
whatever makes sense compiles to code with right notes, from and to the note at
which it is used, wherever it stands in the final code: later code is appended and
labels are placed once, so neither takes anything back (Keeps). It goes by
induction on the height of trees, with the 2^n calls of a RankDown and the shifts
and increments between them as an inner induction. `SealSound` is the same for the
whole code, with End behind it.

At run time, `MachineInv` says that the registers are the top of a stack of
*frames*, one for each return address: a frame has the note of its place, the
height of the value stack and the offset when it was entered; a frame starts where
the call in the one below it stands (Links), at the offset of that, and its
offsets are those of the iteration (Inside). Every instruction moves the top frame
along the notes, Call adds a frame and Return takes one off. MachineSound follows,
because a row of a rank has two to that many times fewer quadwords (RowsFit).
`OrderInv` adds that results ascend, that the last one lies behind the iteration
that is being matched, and that what this one has reported lies in it: that a
report is in its iteration is MachineSound. The columns of one iteration come in
order because as many documents lie below a column as its place says, which is a
bijection (OrderedAscends).

The hypothesis of these theorems (Fit) is that labels and rows of a query fit the
operand of an instruction, 10 bits in the code, where the test is commented out
(`ByteCodeInterpreter.h:143`): with 1025 labels a jump goes astray. TLC evaluates it for the
queries of the run (OperandsAssumption).

Assumptions are those of the modules: sets of threads are disjoint and, where
they are counted, finite; capacities are positive, the bounds natural numbers,
and None is nothing else; in `Ingestion` more than one thread ingests, and the
manifests are any sequences of chunks of DocIds and words. That a slice has some column is the hypothesis
`IteratorAssumption` of the theorems about the iterator.

Only model-checked:

* all liveness properties (TrackerWaitsEnd, OffersEnd, ItemsAreTaken,
  ShutdownReturns, RecyclingEnds, StopReturns, IngestionEnds, QueryEnds,
  RunEnds): fairness and ENABLED are beyond the prover;
* ResultsBetween and StableFound of `Matching`, which reach from the tree of terms
  to the results. The planning they start with is RECURSIVE over trees, which the
  prover does not take. Nor do they hold of every query: of several Ors that are
  left when the cross product has reached its target the compiler keeps one, and a
  plan that is full drops the child of an Or (section 6). The runs show them for
  queries of which neither is true.

## 6 Where code and documentation disagree

Shown by a run that finds the stated property violated:

* **Shutdown of the token manager may hang** (token_manager_hang,
  `TokenManager.cpp:91`): the count is tested outside the lock, the last token's
  notification may fall between test and wait.
* **The iterator skips slices** (shard_iterator_skip, `Shard.cpp:559`):
  `m_sliceOffset` is not reset, so only the first slice is visited.
* **Fewer tasks than threads** (query_runner_hang, `QueryRunner.cpp:135`): the
  barrier waits for threads that have found no task and gone.
* **Not is not the complement** (matching_not, `ByteCodeInterpreter.cpp:268`):
  `accumulator = !accumulator` makes 1 of zero and 0 of anything else; the native
  engine negates bits (`MachineCodeGenerator.cpp:285-288`). Only a Not of several
  rows compiles to this instruction; a single row is inverted when it is read.

Seen in the models or while reading, without a run of their own:

* *Delete and recycler* (`Recycler.cpp:80`): a Delete schedules with its token in
  hand; with the queue full and the recycler at an item newer than the token,
  neither goes on (until StopIndex, see StopReturns). The code's queue holds 100,
  so it takes 101 retired slices. RecyclingEnds therefore has the condition that
  the queue has room.
* *A DocId added twice* (`DocumentMap.cpp:44` against `IIngestor.h:97-98`): the
  error is constructed and not thrown; a document is served that no Delete can
  reach. ServedCanBeDeleted says that this happens to columns of such a DocId
  only; without its first disjunct the run `ingestion` finds the column. The
  same is true of duplicate hashes in `TermTable.cpp:191` and `:233`.
* *Token after Shutdown* (`TokenManager.cpp:55` against Token.h:138-139): a thread
  past the assertion of RequestToken gets its token after Shutdown has returned.
* *Document count* (`Ingestor.cpp:362` against IIngestor.h:129): it is the number
  of calls of Add, not of active documents; Ingestor.h:174-176 admits it.
* *Stopping twice* (ISimpleIndex.h:116-121): `~SimpleIndex` calls StopIndex again
  and joins a thread that is no longer joinable. A refused item leaks
  (`Recycler.cpp:77-82`: released before the assertion), and so do the slices of a destroyed Shard.
* *Reuse of an engine* (`QueryRunner.cpp:193,227,263`): the second Run of one
  ByteCodeQueryEngine emits into a sealed generator and fails its check.
* *Early end of the rewriting* (against MatchTreeRewriter.h, "equivalent to the
  input tree"): when the cross product or the row count has reached its target
  with Ors left over, the result is an And of those Ors, or of an Or and the Report
  of a Not. The compiler starts every Or afresh (`RankDownCompiler.cpp:105`) and
  forgets what it has built so far, so that one Or of several is left, and no
  Report: with a target of 1, And(Or(a, a), And(Or(a, a), Or(a, b))) reports
  documents that miss one of the Ors (ResultsBetween fails for that instance).
  A full PlanRows drops the child of an Or or narrows a Not.
* *Labels* above 1023 lose bits in the operand field; the check of Seal for
  labels that were never placed loops over an empty table.
* *Inverted rows*: a row read before a document is active may report it although
  it has the negated word, if the active row is read after Activate
  (DocumentHandleInternal.h:72). ResultsBetween counts this as a legal answer.
* *Phrases* longer than the grams that the index was built for never match.
* *Facts* (`TermTableBuilder.cpp:161` against TermTable.h:183-186): the builder
  gives facts no rows, but GetRowIdFact subtracts their count; handles begin at
  3, not at 1 (IFactSet.h). *Adhoc rows*: GetRowIdAdhoc does not ensure that the
  rows of a term differ. GetTotalRowCount counts the system rows twice.

## 7 Not modelled

Everything in PROJECT.json with status not_modelled, with the reason there:
I/O, text and formatting, statistics; the machine code of the NativeJIT engine;
vendored code (NativeJIT and googletest are most of the lines of the
repository); and what section 2 leaves for later. Within the modelled parts:

* sizes in bytes; memory order (atomics are sequentially consistent in this code:
  no explicit order is given anywhere in it); `bad_alloc` other than an empty
  slice pool;
* `TemporaryReadAllSlices` and `TemporaryWriteAllSlices`, which run with the
  index otherwise idle; the group operations and AssertFact, which throw
  NotImplemented or do nothing;
* in `QueryRunner`, the query itself, which is one step: a RecoverableError still
  writes a result, any other exception ends the process; with one thread it would
  reach the caller;
* in `Ingestion`, other filters than the one that keeps everything
  (DocumentCountFilter counts without synchronisation, DocumentFilters.cpp:100),
  the bytes of a chunk, and what follows its last zero; a deleted document stays
  in the document cache, in the code as in the model;
* the stream of a term, which neither the equality of terms nor the row lookup
  looks at (RowIdSequence.cpp:36);
* in `TermTable`, floating point: frequencies are integers; the largest rank in
  use; the random sequence, which is any sequence of skips;
* the flag register of the interpreter, which nothing reads;
* documents added between the making of a results buffer for GetDocumentCount()
  documents and the query are not covered by CountCoversServed: the REPL's query
  command does not guard against them, and uses handles after the token is back.

## 8 How to run

```
tlasany Shard.tla
tlc -workers 2 -config MCShard.cfg MCShard
tlapm IndexProofs.tla
```

The MC modules add to their modules what a .cfg cannot say (symmetry, functions,
manifests, queries); every .cfg names the specification, the constants and the
properties of one run in PROJECT.json. Definitions marked "mutated form" belong
to the "mutants" there.
