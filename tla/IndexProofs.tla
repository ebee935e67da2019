---------------------------- MODULE IndexProofs ----------------------------
(***************************************************************************)
(* Proofs about Shard and Index, for any numbers of threads, slices, lists *)
(* and blocks, and any capacities: nothing is freed while it is in use,    *)
(* nothing leaks, the counters of a slice agree with what is going on in   *)
(* it; and in an index, where the recycler's queue may refuse: what Shard  *)
(* promises holds nevertheless, every block is accounted for, and once     *)
(* StopIndex has returned the recycler has nothing in its hands or in its  *)
(* queue.                                                                  *)
(*                                                                         *)
(* The invariant has a parameter, "lost": lists that were retired and are  *)
(* with nobody any more.  In Shard there are none; in Index, where a queue *)
(* that is shut down refuses them, there are.                              *)
(***************************************************************************)
EXTENDS Index, FiniteSetTheorems, SequenceTheorems, TLAPS

-----------------------------------------------------------------------------
(* The inductive invariant                                                 *)

Col == 0 .. m_sliceCapacity - 1

(* Where threads can be, and what they hold there.                         *)
Places ==
  /\ \A a \in Adder : pc[a] \in {"idle", "track", "schedule", "ingest", "activated", "committed"}
  /\ \A d \in Deleter : pc[d] \in {"idle", "token", "clear", "expire", "recycle",
                                   "track", "schedule", "unlock", "return"}
  /\ \A r \in Reader : pc[r] \in {"idle", "token", "reading"}
  /\ \A r \in Reader : pc[r] # "idle" => r \in tokens
  /\ \A a \in Adder : pc[a] \in {"track", "schedule"} => m_slicesLock = a /\ HasSpace
  /\ \A d \in Deleter : pc[d] \notin {"idle", "token", "return"} => m_deleteDocumentLock = d
  /\ \A t \in Worker : old[t] # None <=> pc[t] \in {"track", "schedule"}

(* A column is in use by the thread that adds or deletes its document.     *)
InUse(t) == pc[t] \in {"ingest", "activated", "committed", "clear", "expire"}

Allocated(h) ==
  /\ h \in Handle
  /\ h[1] \in contents[m_sliceBuffers]
  /\ h[2] < m_sliceCapacity - count[h[1]].unallocated

Columns ==
  /\ \A h \in indexed : Allocated(h) /\ h \in active
  /\ \A t \in Worker : InUse(t) => Allocated(handle[t]) /\ handle[t] \notin indexed
  /\ \A t, u \in Worker : t # u /\ InUse(t) /\ InUse(u) => handle[t] # handle[u]
  /\ \A a \in Adder : pc[a] \in {"activated", "committed"} => handle[a] \in active
  /\ \A d \in Deleter : pc[d] = "recycle" =>
       handle[d] \in Handle /\ Recyclable(handle[d][1])
  /\ m_activeSlice # None => m_activeSlice \in contents[m_sliceBuffers]

(* The counters of a slice cover the columns in use: those of Adds that    *)
(* have not committed, and the documents that are committed or on their    *)
(* way out, each of which can still be expired.                            *)
PendingCols(s) ==
  {c \in Col : \E a \in Adder : pc[a] \in {"ingest", "activated"} /\ handle[a] = <<s, c>>}
CommittedCols(s) ==
  {c \in Col : \/ <<s, c>> \in indexed
               \/ \E t \in Worker : pc[t] \in {"committed", "clear", "expire"}
                                    /\ handle[t] = <<s, c>>}
Counts ==
  \A s \in Slice :
    /\ Cardinality(PendingCols(s)) <= count[s].pending
    /\ count[s].expired + Cardinality(CommittedCols(s)) <= Committed(s)

(* Lists that are not current are distinct and each has its own victim.    *)
Gone(lost) == Retired \cup lost
Lists(lost) ==
  /\ \A i, j \in 1 .. Len(m_queue) : m_queue[i] = m_queue[j] => i = j
  /\ recycling \notin Queued
  /\ \A t \in Worker : old[t] # None => old[t] \notin Queued /\ old[t] # recycling
  /\ \A t, u \in Worker : t # u /\ old[t] # None => old[t] # old[u]
  /\ Retired \cap lost = {}
  /\ m_sliceBuffers \notin Gone(lost)
  /\ lists = Gone(lost) \cup {m_sliceBuffers}
  /\ slices = contents[m_sliceBuffers] \cup ({victim[l] : l \in Gone(lost)} \ {None})
  /\ \A l \in Gone(lost) : victim[l] \notin contents[m_sliceBuffers]
  /\ \A k, l \in Gone(lost) : k # l /\ victim[k] # None => victim[k] # victim[l]

(* What the recycler cannot free before reader r has returned its token: a *)
(* list that it does not have, or whose tracker has r or is to be started. *)
Guards(lost, r, l) ==
  /\ l \in Gone(lost)
  /\ \/ l \in lost
     \/ r \in blockers[l]
     \/ \E t \in Worker : pc[t] = "track" /\ old[t] = l

Readers(lost) ==
  \A r \in Reader : pc[r] = "reading" =>
    /\ seen[r] = m_sliceBuffers \/ Guards(lost, r, seen[r])
    /\ \A s \in contents[seen[r]] :
         \/ s \in contents[m_sliceBuffers]
         \/ \E l \in Gone(lost) : Guards(lost, r, l) /\ victim[l] = s

IInv(lost) == TypeOK /\ Places /\ Columns /\ Counts /\ Lists(lost) /\ Readers(lost)

-----------------------------------------------------------------------------
(* What the groups of the invariant depend on                              *)

LEMMA Typed ==
  ASSUME TypeOK
  PROVE  /\ pc \in [Thread -> PC]
         /\ handle \in [Worker -> Handle \cup {None}] /\ old \in [Worker -> List \cup {None}]
         /\ seen \in [Reader -> List \cup {None}] /\ victim \in [List -> Slice \cup {None}]
         /\ contents \in [List -> SUBSET Slice] /\ blockers \in [List -> SUBSET Client]
         /\ count \in [Slice -> Counters] /\ indexed \subseteq Handle
         /\ m_sliceBuffers \in List /\ m_queue \in Seq(List)
BY DEF TypeOK

LEMMA Kinds ==
  /\ Thread = Adder \cup Deleter \cup Reader
  /\ Worker = Adder \cup Deleter /\ Client = Deleter \cup Reader
  /\ Adder \cap Deleter = {} /\ Reader \cap Adder = {} /\ Reader \cap Deleter = {}
  /\ None \notin Slice /\ None \notin List /\ None \notin Thread /\ None \notin Handle
BY ShardAssumption DEF Thread, Worker, Client

LEMMA ColsFinite ==
  ASSUME NEW S \in SUBSET Col
  PROVE  /\ IsFiniteSet(S) /\ Cardinality(S) \in Nat
         /\ Cardinality(S) = 0 <=> S = {}
<1>1. IsFiniteSet(Col)
  BY ShardAssumption, FS_Interval DEF Col
<1>2. QED
  BY <1>1, FS_Subset, FS_CardinalityType, FS_EmptySet

LEMMA ListsFrame ==
  ASSUME NEW lost, IInv(lost), UNCHANGED <<slices, lists, contents, m_sliceBuffers, victim, m_queue,
                           recycling, old>>
  PROVE  Lists(lost)'
BY DEF IInv, Lists, Gone, Retired, Queued, Held

LEMMA ReadersFrame ==
  ASSUME NEW lost, IInv(lost), UNCHANGED <<contents, m_sliceBuffers, blockers, victim, m_queue,
                           recycling, old, seen>>,
         \A t \in Worker : pc[t] = "track" => pc'[t] = "track",
         \A r \in Reader : pc'[r] = "reading" => pc[r] = "reading"
  PROVE  Readers(lost)'
<1>1. Gone(lost)' = Gone(lost)
  BY DEF Gone, Retired, Queued, Held
<1>2. \A r, l : Guards(lost, r, l) => Guards(lost, r, l)'
  BY <1>1 DEF Guards
<1>3. QED
  BY <1>1, <1>2 DEF IInv, Readers

LEMMA CountsFrame ==
  ASSUME NEW lost, IInv(lost), UNCHANGED <<count, indexed>>,
         \A t \in Worker : \/ pc'[t] = pc[t] /\ handle'[t] = handle[t]
                           \/ ~InUse(t) /\ ~InUse(t)'
  PROVE  Counts'
<1>1. \A s \in Slice : PendingCols(s)' = PendingCols(s)
  BY Kinds DEF PendingCols, InUse
<1>2. \A s \in Slice : CommittedCols(s)' = CommittedCols(s)
  BY Kinds DEF CommittedCols, InUse
<1>3. QED
  BY <1>1, <1>2 DEF IInv, Counts, Committed

LEMMA InitIInv == Init => IInv({})
<1> SUFFICES ASSUME Init PROVE IInv({})
  OBVIOUS
<1> USE ShardAssumption, Kinds DEF Init
<1>1. TypeOK
  <2>1. NewSlice \in Counters
    BY DEF NewSlice, Counters
  <2>2. m_queue \in Seq(List) /\ lists \subseteq List
    OBVIOUS
  <2>3. QED
    BY <2>1, <2>2 DEF TypeOK, PC
<1>2. Places /\ Columns /\ Readers({})
  BY DEF Places, Columns, InUse, Readers
<1>3. Queued = {} /\ Held = {} /\ Gone({}) = {}
  BY DEF Queued, Held, Gone, Retired
<1>4. Lists({})
  BY <1>3 DEF Lists
<1>5. \A s \in Slice : PendingCols(s) = {} /\ CommittedCols(s) = {}
  BY DEF PendingCols, CommittedCols
<1>6. Counts
  <2>1. \A s \in Slice : Cardinality(PendingCols(s)) = 0 /\ Cardinality(CommittedCols(s)) = 0
    BY <1>5, FS_EmptySet
  <2>2. QED
    BY <2>1 DEF Counts, Committed, NewSlice
<1>7. QED
  BY <1>1, <1>2, <1>4, <1>6 DEF IInv

-----------------------------------------------------------------------------
(* Steps outside the list of slices                                        *)

LEMMA RequestTokenIInv ==
  ASSUME NEW lost, IInv(lost), NEW c \in Client, RequestToken(c)
  PROVE  IInv(lost)'
<1> USE Kinds DEF RequestToken, Goto, sliceVars, listVars, retireVars, localVars
<1>1. TypeOK'
  BY DEF IInv, TypeOK, PC
<1>2. Places' /\ Columns'
  BY Typed DEF IInv, Places, HasSpace, Columns, InUse, Allocated, Recyclable, IsExpired
<1>3. Counts' /\ Lists(lost)' /\ Readers(lost)'
  BY Typed, CountsFrame, ListsFrame, ReadersFrame DEF InUse, IInv
<1>4. QED
  BY <1>1, <1>2, <1>3 DEF IInv

LEMMA NotFoundIInv ==
  ASSUME NEW lost, IInv(lost), NEW d \in Deleter, NotFound(d)
  PROVE  IInv(lost)'
<1> USE Kinds DEF NotFound, Goto, sliceVars, listVars, retireVars, localVars
<1>1. TypeOK'
  BY DEF IInv, TypeOK, PC
<1>2. Places' /\ Columns'
  BY Typed DEF IInv, Places, HasSpace, Columns, InUse, Allocated, Recyclable, IsExpired
<1>3. Counts' /\ Lists(lost)' /\ Readers(lost)'
  BY Typed, CountsFrame, ListsFrame, ReadersFrame DEF InUse, IInv
<1>4. QED
  BY <1>1, <1>2, <1>3 DEF IInv

LEMMA UnlockIInv ==
  ASSUME NEW lost, IInv(lost), NEW d \in Deleter, Unlock(d)
  PROVE  IInv(lost)'
<1> USE Kinds DEF Unlock, Goto, sliceVars, listVars, retireVars, localVars
<1>1. TypeOK'
  BY DEF IInv, TypeOK, PC
<1>2. Places' /\ Columns'
  BY Typed DEF IInv, Places, HasSpace, Columns, InUse, Allocated, Recyclable, IsExpired
<1>3. Counts' /\ Lists(lost)' /\ Readers(lost)'
  BY Typed, CountsFrame, ListsFrame, ReadersFrame DEF InUse, IInv
<1>4. QED
  BY <1>1, <1>2, <1>3 DEF IInv

LEMMA FindAndForgetIInv ==
  ASSUME NEW lost, IInv(lost), NEW d \in Deleter, FindAndForget(d)
  PROVE  IInv(lost)'
<1> USE Kinds DEF FindAndForget, Goto, sliceVars, listVars, retireVars
<1>0. PICK h \in indexed : indexed' = indexed \ {h} /\ handle' = [handle EXCEPT ![d] = h]
  OBVIOUS
<1>1. TypeOK'
  BY <1>0 DEF IInv, TypeOK, PC
<1>2. Places'
  BY Typed DEF IInv, Places, HasSpace
<1>3. Columns'
  BY <1>0, Typed DEF IInv, Columns, InUse, Allocated, Recyclable, IsExpired
<1>4. \A s \in Slice : PendingCols(s)' = PendingCols(s) /\ CommittedCols(s)' = CommittedCols(s)
  <2>1. ASSUME NEW s \in Slice PROVE PendingCols(s)' = PendingCols(s)
    BY <1>0, Typed DEF IInv, PendingCols
  <2>2. ASSUME NEW s \in Slice PROVE CommittedCols(s)' = CommittedCols(s)
    BY <1>0, Typed, ZenonT(20) DEF IInv, CommittedCols
  <2>3. QED
    BY <2>1, <2>2
<1>5. Counts'
  BY <1>4 DEF IInv, Counts, Committed
<1>6. Lists(lost)' /\ Readers(lost)'
  BY Typed, ListsFrame, ReadersFrame DEF IInv
<1>7. QED
  BY <1>1, <1>2, <1>3, <1>5, <1>6 DEF IInv

LEMMA ClearActiveBitIInv ==
  ASSUME NEW lost, IInv(lost), NEW d \in Deleter, ClearActiveBit(d)
  PROVE  IInv(lost)'
<1> USE Kinds DEF ClearActiveBit, Goto, listVars, retireVars, localVars
<1>1. TypeOK'
  BY DEF IInv, TypeOK, PC
<1>2. Places'
  BY Typed DEF IInv, Places, HasSpace
<1>3. Columns'
  BY Typed DEF IInv, Columns, InUse, Allocated, Recyclable, IsExpired
<1>4. \A s \in Slice : PendingCols(s)' = PendingCols(s) /\ CommittedCols(s)' = CommittedCols(s)
  BY Typed DEF IInv, PendingCols, CommittedCols
<1>5. Counts'
  BY <1>4 DEF IInv, Counts, Committed
<1>6. Lists(lost)' /\ Readers(lost)'
  BY Typed, ListsFrame, ReadersFrame DEF IInv
<1>7. QED
  BY <1>1, <1>2, <1>3, <1>5, <1>6 DEF IInv

LEMMA ActivateIInv ==
  ASSUME NEW lost, IInv(lost), NEW a \in Adder, Activate(a)
  PROVE  IInv(lost)'
<1> USE Kinds DEF Activate, Goto, listVars, retireVars, localVars
<1>1. TypeOK'
  BY DEF IInv, TypeOK, PC, Columns, InUse, Allocated
<1>2. Places'
  BY Typed DEF IInv, Places, HasSpace
<1>3. Columns'
  BY Typed DEF IInv, Columns, InUse, Allocated, Recyclable, IsExpired
<1>4. \A s \in Slice : PendingCols(s)' = PendingCols(s) /\ CommittedCols(s)' = CommittedCols(s)
  BY Typed DEF IInv, PendingCols, CommittedCols
<1>5. Counts'
  BY <1>4 DEF IInv, Counts, Committed
<1>6. Lists(lost)' /\ Readers(lost)'
  BY Typed, ListsFrame, ReadersFrame DEF IInv
<1>7. QED
  BY <1>1, <1>2, <1>3, <1>5, <1>6 DEF IInv

LEMMA GetSliceBuffersIInv ==
  ASSUME NEW lost, IInv(lost), NEW r \in Reader, GetSliceBuffers(r)
  PROVE  IInv(lost)'
<1> USE Kinds DEF GetSliceBuffers, Goto, sliceVars, listVars, retireVars
<1>1. TypeOK'
  BY DEF IInv, TypeOK, PC
<1>2. Places' /\ Columns'
  BY Typed DEF IInv, Places, HasSpace, Columns, InUse, Allocated, Recyclable, IsExpired
<1>3. Counts' /\ Lists(lost)'
  BY Typed, CountsFrame, ListsFrame DEF InUse, IInv
<1>4. Readers(lost)'
  <2>1. Gone(lost)' = Gone(lost)
    BY DEF Gone, Retired, Queued, Held
  <2>2. \A q, l : Guards(lost, q, l)' <=> Guards(lost, q, l)
    BY <2>1, Typed DEF Guards, IInv
  <2>3. QED
    BY <2>1, <2>2, Typed DEF IInv, Readers
<1>5. QED
  BY <1>1, <1>2, <1>3, <1>4 DEF IInv

-----------------------------------------------------------------------------
(* Steps that change counters                                              *)

LEMMA CountsShrink ==
  ASSUME NEW lost, IInv(lost), count' = count,
         \A s \in Slice : PendingCols(s)' \subseteq PendingCols(s),
         \A s \in Slice : CommittedCols(s)' \subseteq CommittedCols(s)
  PROVE  Counts'
<1> SUFFICES ASSUME NEW s \in Slice
             PROVE  /\ Cardinality(PendingCols(s)') <= count[s].pending
                    /\ count[s].expired + Cardinality(CommittedCols(s)') <= Committed(s)
  BY DEF Counts, Committed
<1>1. PendingCols(s) \subseteq Col /\ CommittedCols(s) \subseteq Col
  BY DEF PendingCols, CommittedCols
<1>2. /\ IsFiniteSet(PendingCols(s)) /\ IsFiniteSet(CommittedCols(s))
      /\ Cardinality(PendingCols(s)) \in Nat /\ Cardinality(CommittedCols(s)) \in Nat
      /\ Cardinality(PendingCols(s)') \in Nat /\ Cardinality(CommittedCols(s)') \in Nat
  BY <1>1, ColsFinite
<1>3. /\ Cardinality(PendingCols(s)') <= Cardinality(PendingCols(s))
      /\ Cardinality(CommittedCols(s)') <= Cardinality(CommittedCols(s))
  BY <1>2, FS_Subset
<1>4. /\ count[s].pending \in Nat /\ count[s].expired \in Nat /\ count[s].unallocated \in Nat
      /\ m_sliceCapacity \in Nat
  BY ShardAssumption, Typed DEF Counters, IInv
<1>5. QED
  BY <1>2, <1>3, <1>4 DEF IInv, Counts, Committed

LEMMA IngestThrowsIInv ==
  ASSUME NEW lost, IInv(lost), NEW a \in Adder, IngestThrows(a)
  PROVE  IInv(lost)'
<1> USE Kinds DEF IngestThrows, Goto, sliceVars, listVars, retireVars
<1>1. TypeOK'
  BY DEF IInv, TypeOK, PC
<1>2. Places'
  BY Typed DEF IInv, Places, HasSpace
<1>3. Columns'
  BY Typed DEF IInv, Columns, InUse, Allocated, Recyclable, IsExpired
<1>4. \A s \in Slice : PendingCols(s)' \subseteq PendingCols(s)
                       /\ CommittedCols(s)' \subseteq CommittedCols(s)
  BY Typed DEF IInv, PendingCols, CommittedCols
<1>5. Counts'
  BY <1>4, CountsShrink
<1>6. Lists(lost)' /\ Readers(lost)'
  BY Typed, ListsFrame, ReadersFrame DEF IInv
<1>7. QED
  BY <1>1, <1>2, <1>3, <1>5, <1>6 DEF IInv

LEMMA MapAddIInv ==
  ASSUME NEW lost, IInv(lost), NEW a \in Adder, MapAdd(a)
  PROVE  IInv(lost)'
<1> USE Kinds DEF MapAdd, Goto, sliceVars, listVars, retireVars
<1>0. Allocated(handle[a]) /\ handle[a] \in active
  BY DEF IInv, Columns, InUse
<1>1. TypeOK'
  BY <1>0 DEF IInv, TypeOK, PC, Allocated
<1>2. Places'
  BY Typed DEF IInv, Places, HasSpace
<1>3. Columns'
  BY <1>0, Typed DEF IInv, Columns, InUse, Allocated, Recyclable, IsExpired
<1>4. \A s \in Slice : PendingCols(s)' \subseteq PendingCols(s)
                       /\ CommittedCols(s)' \subseteq CommittedCols(s)
  <2>1. \A h : h \in indexed' => h \in indexed \/ h = handle[a]
    OBVIOUS
  <2>2. QED
    BY <2>1, Typed DEF IInv, PendingCols, CommittedCols
<1>5. Counts'
  BY <1>4, CountsShrink
<1>6. Lists(lost)' /\ Readers(lost)'
  BY Typed, ListsFrame, ReadersFrame DEF IInv
<1>7. QED
  BY <1>1, <1>2, <1>3, <1>5, <1>6 DEF IInv

LEMMA CountTyped ==
  ASSUME TypeOK, NEW s \in Slice
  PROVE  /\ count[s].pending \in 0 .. m_sliceCapacity
         /\ count[s].expired \in 0 .. m_sliceCapacity
         /\ count[s].unallocated \in 0 .. m_sliceCapacity
         /\ count[s] \in [unallocated : Nat, pending : Nat, expired : Nat]
         /\ m_sliceCapacity \in Nat \ {0}
         /\ PendingCols(s) \subseteq Col /\ CommittedCols(s) \subseteq Col
         /\ IsFiniteSet(PendingCols(s)) /\ IsFiniteSet(CommittedCols(s))
         /\ Cardinality(PendingCols(s)) \in Nat /\ Cardinality(CommittedCols(s)) \in Nat
<1>1. PendingCols(s) \subseteq Col /\ CommittedCols(s) \subseteq Col
  BY DEF PendingCols, CommittedCols
<1>2. count[s] \in Counters /\ m_sliceCapacity \in Nat \ {0}
  BY ShardAssumption, Typed
<1>3. QED
  BY <1>1, <1>2, ColsFinite DEF Counters

LEMMA HandleParts ==
  ASSUME NEW h \in Handle
  PROVE  h[1] \in Slice /\ h[2] \in Col /\ h = <<h[1], h[2]>>
BY DEF Handle, Col

LEMMA CommitDocumentIInv ==
  ASSUME NEW lost, IInv(lost), NEW a \in Adder, CommitDocument(a)
  PROVE  IInv(lost)'
<1> USE Kinds DEF CommitDocument, Goto, listVars, retireVars, localVars
<1>0. /\ Allocated(handle[a]) /\ handle[a] \notin indexed
      /\ \A t \in Worker : t # a /\ InUse(t) => handle[t] # handle[a]
  BY DEF IInv, Columns, InUse
<1>a. PICK z \in Slice, n \in Col : handle[a] = <<z, n>>
  BY <1>0, HandleParts DEF Allocated
<1>1. /\ z \in Slice /\ n \in Col /\ handle[a] = <<z, n>> /\ handle[a][1] = z
      /\ TypeOK /\ pc \in [Thread -> PC] /\ count \in [Slice -> Counters]
  BY <1>a, Typed DEF IInv
<1>2. PendingCols(z)' = PendingCols(z) \ {n} /\ n \in PendingCols(z)
  BY <1>0, <1>1 DEF PendingCols, InUse
<1>3. CommittedCols(z)' = CommittedCols(z) \cup {n} /\ n \notin CommittedCols(z)
  BY <1>0, <1>1 DEF CommittedCols, InUse
<1>4. \A s \in Slice \ {z} : PendingCols(s)' = PendingCols(s) /\ CommittedCols(s)' = CommittedCols(s)
  BY <1>1 DEF PendingCols, CommittedCols
<1>5. /\ Cardinality(PendingCols(z)') = Cardinality(PendingCols(z)) - 1
      /\ Cardinality(CommittedCols(z)') = Cardinality(CommittedCols(z)) + 1
      /\ Cardinality(PendingCols(z)') \in Nat
  <2>1. PendingCols(z)' \subseteq Col
    BY <1>2, CountTyped, <1>1
  <2>2. IsFiniteSet(PendingCols(z)) /\ IsFiniteSet(CommittedCols(z))
    BY <1>1, CountTyped
  <2>3. Cardinality(PendingCols(z) \ {n}) = Cardinality(PendingCols(z)) - 1
    BY <1>2, <2>2, FS_RemoveElement
  <2>4. Cardinality(CommittedCols(z) \cup {n}) = Cardinality(CommittedCols(z)) + 1
    BY <1>3, <2>2, FS_AddElement
  <2>5. Cardinality(PendingCols(z)') \in Nat
    BY <2>1, ColsFinite
  <2>6. QED
    BY <1>2, <1>3, <2>3, <2>4, <2>5
<1>6. /\ count' = [count EXCEPT ![z] = [count[z] EXCEPT !.pending = count[z].pending - 1]]
      /\ count[z].pending > 0
  BY <1>1, <1>5, CountTyped DEF IInv, Counts
<1>7. /\ count' \in [Slice -> Counters] /\ count'[z].pending = count[z].pending - 1
      /\ count'[z].expired = count[z].expired /\ count'[z].unallocated = count[z].unallocated
      /\ \A s \in Slice \ {z} : count'[s] = count[s]
  <2>1. [count[z] EXCEPT !.pending = count[z].pending - 1] \in Counters
    BY <1>1, <1>6, CountTyped DEF Counters
  <2>2. count[z] \in Counters
    BY <1>1
  <2>3. QED
    BY <1>1, <1>6, <2>1, <2>2 DEF Counters
<1>8. TypeOK'
  BY <1>1, <1>7 DEF TypeOK, PC
<1>9. Counts'
  BY <1>1, <1>4, <1>5, <1>7, CountTyped DEF IInv, Counts, Committed
<1>10. \A s \in Slice : count'[s].unallocated = count[s].unallocated
                        /\ count'[s].expired = count[s].expired
  BY <1>7
<1> HIDE DEF CommitDocument
<1>11. /\ pc[a] = "activated" /\ pc' = [pc EXCEPT ![a] = "committed"]
       /\ UNCHANGED <<slices, active, indexed, listVars, m_slicesLock,
                      m_deleteDocumentLock, tokens, retireVars, localVars>>
  BY DEF CommitDocument
<1>12. Places'
  BY <1>10, <1>11, Typed DEF IInv, TypeOK, Places, HasSpace
<1>13. Columns'
  BY <1>0, <1>10, <1>11, <1>1, HandleParts
  DEF IInv, Columns, InUse, Allocated, Recyclable, IsExpired
<1>14. Lists(lost)' /\ Readers(lost)'
  BY <1>1, <1>11, ListsFrame, ReadersFrame
<1>15. QED
  BY <1>8, <1>9, <1>12, <1>13, <1>14 DEF IInv

LEMMA ExpireDocumentIInv ==
  ASSUME NEW lost, IInv(lost), NEW d \in Deleter, ExpireDocument(d)
  PROVE  IInv(lost)'
<1> USE Kinds DEF listVars, retireVars, localVars
<1>0. /\ pc[d] = "expire"
      /\ pc' = [pc EXCEPT ![d] = IF count'[handle[d][1]].expired = m_sliceCapacity
                                 THEN "recycle" ELSE "unlock"]
      /\ count' = [count EXCEPT ![handle[d][1]] =
           [count[handle[d][1]] EXCEPT !.expired = count[handle[d][1]].expired + 1]]
      /\ UNCHANGED <<slices, active, indexed, listVars, m_slicesLock,
                     m_deleteDocumentLock, tokens, retireVars, localVars>>
  BY DEF ExpireDocument
<1>1. /\ Allocated(handle[d]) /\ handle[d] \notin indexed
      /\ \A t \in Worker : t # d /\ InUse(t) => handle[t] # handle[d]
  BY <1>0 DEF IInv, Columns, InUse
<1>a. PICK z \in Slice, n \in Col : handle[d] = <<z, n>>
  BY <1>1, HandleParts DEF Allocated
<1>2. /\ z \in Slice /\ n \in Col /\ handle[d] = <<z, n>> /\ handle[d][1] = z
      /\ TypeOK /\ pc \in [Thread -> PC] /\ count \in [Slice -> Counters]
  BY <1>a, Typed DEF IInv
<1>3. PendingCols(z)' = PendingCols(z)
  BY <1>0, <1>2 DEF PendingCols
<1>4. CommittedCols(z)' = CommittedCols(z) \ {n} /\ n \in CommittedCols(z)
  BY <1>0, <1>1, <1>2 DEF CommittedCols, InUse
<1>5. \A s \in Slice \ {z} : PendingCols(s)' = PendingCols(s) /\ CommittedCols(s)' = CommittedCols(s)
  BY <1>0, <1>2 DEF PendingCols, CommittedCols
<1>6. /\ Cardinality(CommittedCols(z)') = Cardinality(CommittedCols(z)) - 1
      /\ Cardinality(CommittedCols(z)') \in Nat
  <2>1. CommittedCols(z)' \subseteq Col
    BY <1>4, CountTyped, <1>2
  <2>2. IsFiniteSet(CommittedCols(z))
    BY <1>2, CountTyped
  <2>3. Cardinality(CommittedCols(z) \ {n}) = Cardinality(CommittedCols(z)) - 1
    BY <1>4, <2>2, FS_RemoveElement
  <2>4. Cardinality(CommittedCols(z)') \in Nat
    BY <2>1, ColsFinite
  <2>5. QED
    BY <1>4, <2>3, <2>4
<1>7. count[z].expired < m_sliceCapacity
  BY <1>2, <1>6, CountTyped DEF IInv, Counts, Committed
<1>8. /\ count' \in [Slice -> Counters] /\ count'[z].expired = count[z].expired + 1
      /\ count'[z].pending = count[z].pending /\ count'[z].unallocated = count[z].unallocated
      /\ \A s \in Slice \ {z} : count'[s] = count[s]
  <2>1. [count[z] EXCEPT !.expired = count[z].expired + 1] \in Counters
    BY <1>2, <1>7, CountTyped DEF Counters
  <2>2. count[z] \in Counters
    BY <1>2
  <2>3. QED
    BY <1>0, <1>2, <2>1, <2>2 DEF Counters
<1>9. TypeOK'
  BY <1>0, <1>2, <1>8 DEF TypeOK, PC
<1>10. Counts'
  <2>1. /\ Cardinality(PendingCols(z)') <= count'[z].pending
        /\ count'[z].expired + Cardinality(CommittedCols(z)') <= Committed(z)'
    BY <1>2, <1>3, <1>6, <1>8, CountTyped DEF IInv, Counts, Committed
  <2>2. \A s \in Slice \ {z} :
          /\ Cardinality(PendingCols(s)') <= count'[s].pending
          /\ count'[s].expired + Cardinality(CommittedCols(s)') <= Committed(s)'
    BY <1>5, <1>8 DEF IInv, Counts, Committed
  <2>3. QED
    BY <2>1, <2>2 DEF Counts
<1>11. \A s \in Slice : count'[s].unallocated = count[s].unallocated
  BY <1>8
<1>12. Places'
  BY <1>0, <1>2, <1>11 DEF IInv, TypeOK, Places, HasSpace
<1>13. \A e \in Deleter : pc[e] # "recycle"
  BY <1>0 DEF IInv, Places
<1>14. Columns'
  BY <1>0, <1>1, <1>2, <1>11, <1>13, HandleParts
  DEF IInv, Columns, InUse, Allocated, Recyclable, IsExpired
<1>15. Lists(lost)' /\ Readers(lost)'
  BY <1>0, <1>2, ListsFrame, ReadersFrame
<1>16. QED
  BY <1>9, <1>10, <1>12, <1>14, <1>15 DEF IInv

(* A column of the active slice for adder a, with or without a new slice.  *)
LEMMA TryAllocateDocumentCounts ==
  ASSUME NEW lost, IInv(lost), NEW a \in Adder, HasSpace, ~InUse(a), TryAllocateDocument(a),
         pc' = [pc EXCEPT ![a] = "ingest"],
         UNCHANGED <<active, indexed, contents, m_sliceBuffers, m_activeSlice>>
  PROVE  /\ count' \in [Slice -> Counters] /\ handle' \in [Worker -> Handle \cup {None}]
         /\ Columns' /\ Counts'
<1> USE Kinds
<1>a. PICK z \in Slice : z = m_activeSlice /\ z \in contents[m_sliceBuffers]
                         /\ count[z].unallocated > 0
  BY DEF IInv, TypeOK, HasSpace, Columns
<1>b. PICK n \in Col : n = m_sliceCapacity - count[z].unallocated
  BY <1>a, CountTyped DEF Col, IInv
<1>0. /\ TypeOK /\ pc \in [Thread -> PC] /\ count \in [Slice -> Counters]
      /\ handle \in [Worker -> Handle \cup {None}] /\ indexed \subseteq Handle
      /\ z \in Slice /\ z \in contents[m_sliceBuffers] /\ count[z].unallocated > 0
  BY <1>a, Typed DEF IInv
<1>1. <<z, n>> \in Handle /\ handle' = [handle EXCEPT ![a] = <<z, n>>]
      /\ n = m_sliceCapacity - count[z].unallocated
  BY <1>a, <1>b DEF TryAllocateDocument, Col, Handle
<1> DEFINE AllocatedNow(h) ==
             /\ h \in Handle
             /\ h[1] \in contents'[m_sliceBuffers']
             /\ h[2] < m_sliceCapacity - count'[h[1]].unallocated
           RecyclableNow(s) ==
             count'[s].expired = m_sliceCapacity /\ s \in contents'[m_sliceBuffers']
<1>2. /\ \A h \in indexed : h # <<z, n>>
      /\ \A t \in Worker : InUse(t) => handle[t] # <<z, n>>
  BY <1>0, <1>1, CountTyped DEF IInv, Columns, Allocated
<1>3. PendingCols(z)' = PendingCols(z) \cup {n} /\ n \notin PendingCols(z)
  BY <1>0, <1>1, <1>2 DEF PendingCols, InUse
<1>4. \A s \in Slice : CommittedCols(s)' = CommittedCols(s)
  BY <1>0, <1>1 DEF CommittedCols, InUse
<1>5. \A s \in Slice \ {z} : PendingCols(s)' = PendingCols(s)
  BY <1>0, <1>1 DEF PendingCols, InUse
<1>6. Cardinality(PendingCols(z)') = Cardinality(PendingCols(z)) + 1
  BY <1>0, <1>3, CountTyped, FS_AddElement
<1>7. count[z].pending < m_sliceCapacity
  BY <1>0, CountTyped DEF IInv, Counts, Committed
<1> DEFINE k == [count[z] EXCEPT !.unallocated = count[z].unallocated - 1,
                               !.pending = count[z].pending + 1]
<1>8. /\ k \in Counters /\ count[z] \in Counters
      /\ k.unallocated = count[z].unallocated - 1 /\ k.pending = count[z].pending + 1
      /\ k.expired = count[z].expired
  <2>1. count[z].unallocated - 1 \in 0 .. m_sliceCapacity
        /\ count[z].pending + 1 \in 0 .. m_sliceCapacity
    BY <1>0, <1>7, CountTyped
  <2>2. count[z] \in Counters
    BY <1>0
  <2>3. QED
    BY <2>1, <2>2 DEF Counters
<1>9. count' = [count EXCEPT ![z] = k]
  BY <1>a, <1>0, <1>8 DEF TryAllocateDocument
<1> HIDE DEF k
<1>10. /\ count' \in [Slice -> Counters] /\ count'[z] = k
       /\ \A s \in Slice \ {z} : count'[s] = count[s]
  BY <1>0, <1>8, <1>9
<1>11. Counts'
  BY <1>0, <1>4, <1>5, <1>6, <1>8, <1>10, CountTyped DEF IInv, Counts, Committed
<1>12. \A h \in Handle : Allocated(h) => AllocatedNow(h)
  BY <1>0, <1>8, <1>10, HandleParts, CountTyped, ShardAssumption DEF Allocated, Col
<1>13. AllocatedNow(<<z, n>>)
  <2>1. n < m_sliceCapacity - count'[z].unallocated
    BY <1>0, <1>1, <1>8, <1>10, CountTyped
  <2>2. <<z, n>>[1] = z /\ <<z, n>>[2] = n
    OBVIOUS
  <2>3. QED
    BY <1>0, <1>1, <2>1, <2>2
<1>14. \A s \in Slice : Recyclable(s) => RecyclableNow(s)
  BY <1>0, <1>8, <1>10 DEF Recyclable, IsExpired
<1>15. Columns'
  <2>1. \A t \in Worker : InUse(t)' => \/ t = a /\ handle'[t] = <<z, n>>
                                       \/ t # a /\ InUse(t) /\ handle'[t] = handle[t]
    BY <1>0, <1>1 DEF InUse
  <2>2. \A t \in Worker : InUse(t) => AllocatedNow(handle[t]) /\ handle[t] \notin indexed
    BY <1>12 DEF IInv, Columns, Allocated
  <2>3. \A h \in indexed' : AllocatedNow(h) /\ h \in active'
    BY <1>12 DEF IInv, Columns, Allocated
  <2>4. \A t \in Worker : InUse(t)' => AllocatedNow(handle'[t]) /\ handle'[t] \notin indexed'
    BY <1>2, <1>13, <2>1, <2>2
  <2>5. \A t, u \in Worker : t # u /\ InUse(t)' /\ InUse(u)' => handle'[t] # handle'[u]
    BY <1>2, <2>1 DEF IInv, Columns
  <2>6. \A b \in Adder : pc'[b] \in {"activated", "committed"} => handle'[b] \in active'
    BY <1>0, <1>1 DEF IInv, Columns
  <2>7. \A d \in Deleter : pc'[d] = "recycle" =>
          handle'[d] \in Handle /\ RecyclableNow(handle'[d][1])
    <3> SUFFICES ASSUME NEW d \in Deleter, pc'[d] = "recycle"
                 PROVE  handle'[d] \in Handle /\ RecyclableNow(handle'[d][1])
      OBVIOUS
    <3>1. pc[d] = "recycle" /\ handle'[d] = handle[d]
      BY <1>0, <1>1
    <3>2. handle[d] \in Handle /\ Recyclable(handle[d][1])
      BY <3>1 DEF IInv, Columns
    <3>3. QED
      BY <1>14, <3>1, <3>2, HandleParts
  <2>8. m_activeSlice' # None => m_activeSlice' \in contents'[m_sliceBuffers']
    BY DEF IInv, Columns
  <2>9. QED
    BY <2>3, <2>4, <2>5, <2>6, <2>7, <2>8 DEF Columns, Allocated, Recyclable, IsExpired
<1>16. QED
  BY <1>0, <1>1, <1>10, <1>11, <1>15

LEMMA AllocateDocumentIInv ==
  ASSUME NEW lost, IInv(lost), NEW a \in Adder, AllocateDocument(a)
  PROVE  IInv(lost)'
<1> USE Kinds DEF AllocateDocument, Goto, listVars, retireVars
<1>1. /\ count' \in [Slice -> Counters] /\ handle' \in [Worker -> Handle \cup {None}]
      /\ Columns' /\ Counts'
  BY TryAllocateDocumentCounts DEF InUse
<1>2. TypeOK'
  BY <1>1 DEF IInv, TypeOK, PC
<1>3. Places'
  BY Typed DEF IInv, Places
<1>4. Lists(lost)' /\ Readers(lost)'
  BY Typed, ListsFrame, ReadersFrame DEF IInv
<1>5. QED
  BY <1>1, <1>2, <1>3, <1>4 DEF IInv

-----------------------------------------------------------------------------
(* Steps that return tokens and start trackers                             *)

LEMMA ReturnTokenReaders ==
  ASSUME NEW lost, IInv(lost), NEW c \in Client, ReturnToken(c), UNCHANGED <<contents, m_sliceBuffers, old>>,
         \A t \in Worker : pc[t] = "track" => pc'[t] = "track",
         \A r \in Reader : pc'[r] = "reading" =>
           pc[r] = "reading" /\ r # c /\ seen'[r] = seen[r]
  PROVE  Readers(lost)'
<1>1. Gone(lost)' = Gone(lost)
  BY DEF Gone, Retired, Queued, Held, ReturnToken
<1>2. \A r, l : r # c /\ l \in List /\ Guards(lost, r, l) => Guards(lost, r, l)'
  BY <1>1 DEF Guards, ReturnToken
<1>3. Gone(lost) \subseteq List
  BY DEF IInv, TypeOK, Lists
<1>4. QED
  BY <1>1, <1>2, <1>3, Typed DEF IInv, Readers, Guards, ReturnToken

LEMMA EndDeleteIInv ==
  ASSUME NEW lost, IInv(lost), NEW d \in Deleter, EndDelete(d)
  PROVE  IInv(lost)'
<1> USE Kinds DEF EndDelete, Goto, sliceVars, listVars
<1>1. TypeOK'
  BY DEF IInv, TypeOK, PC, ReturnToken
<1>2. Places'
  BY Typed DEF IInv, Places, HasSpace, ReturnToken
<1>3. Columns'
  BY Typed DEF IInv, Columns, InUse, Allocated, Recyclable, IsExpired
<1>4. Counts'
  BY Typed, CountsFrame DEF InUse, IInv
<1>5. Lists(lost)' /\ Readers(lost)'
  BY Typed, ListsFrame, ReturnTokenReaders DEF IInv, ReturnToken
<1>6. QED
  BY <1>1, <1>2, <1>3, <1>4, <1>5 DEF IInv

LEMMA EndQueryIInv ==
  ASSUME NEW lost, IInv(lost), NEW r \in Reader, EndQuery(r)
  PROVE  IInv(lost)'
<1> USE Kinds DEF EndQuery, Goto, sliceVars, listVars
<1>1. TypeOK'
  BY DEF IInv, TypeOK, PC, ReturnToken
<1>2. Places'
  BY Typed DEF IInv, Places, HasSpace, ReturnToken
<1>3. Columns'
  BY Typed DEF IInv, Columns, InUse, Allocated, Recyclable, IsExpired
<1>4. Counts'
  BY Typed, CountsFrame DEF InUse, IInv
<1>5. Lists(lost)' /\ Readers(lost)'
  BY Typed, ListsFrame, ReturnTokenReaders DEF IInv, ReturnToken
<1>6. QED
  BY <1>1, <1>2, <1>3, <1>4, <1>5 DEF IInv

LEMMA StartTrackerIInv ==
  ASSUME NEW lost, IInv(lost), NEW t \in Worker, StartTracker(t)
  PROVE  IInv(lost)'
<1> USE Kinds DEF StartTracker, Goto, sliceVars, listVars, localVars
<1>1. TypeOK'
  BY DEF IInv, TypeOK, PC
<1>2. Places'
  BY Typed DEF IInv, Places, HasSpace
<1>3. Columns'
  BY Typed DEF IInv, Columns, InUse, Allocated, Recyclable, IsExpired
<1>4. Counts'
  BY Typed, CountsFrame DEF InUse, IInv
<1>5. Lists(lost)'
  BY ListsFrame
<1>6. Readers(lost)'
  <2>1. Gone(lost)' = Gone(lost) /\ Gone(lost) \subseteq List
    BY DEF IInv, TypeOK, Lists, Gone, Retired, Queued, Held
  <2>2. ASSUME NEW r \in Reader, pc[r] = "reading", NEW l, Guards(lost, r, l)
        PROVE  Guards(lost, r, l)'
    <3>1. r \in tokens /\ l \in List
      BY <2>1, <2>2 DEF IInv, Places, Guards
    <3>2. CASE l = old[t]
      BY <2>1, <2>2, <3>1, <3>2, Typed DEF IInv, Guards
    <3>3. CASE l # old[t]
      BY <2>1, <2>2, <3>1, <3>3, Typed DEF IInv, Guards
    <3>4. QED
      BY <3>2, <3>3
  <2>3. QED
    BY <2>1, <2>2, Typed DEF IInv, Readers
<1>7. QED
  BY <1>1, <1>2, <1>3, <1>4, <1>5, <1>6 DEF IInv

-----------------------------------------------------------------------------
(* Steps of the recycler's queue                                           *)

LEMMA ScheduleLists ==
  ASSUME NEW lost, IInv(lost), NEW t \in Worker, pc[t] = "schedule", ScheduleRecyling(t),
         UNCHANGED <<slices, lists, contents, m_sliceBuffers, seen>>,
         NEW to, to \in PC \ {"track", "schedule", "reading"}, pc' = [pc EXCEPT ![t] = to]
  PROVE  /\ m_queue' \in Seq(List) /\ old' \in [Worker -> List \cup {None}]
         /\ Lists(lost)' /\ Readers(lost)'
<1> USE Kinds
<1>0. /\ old \in [Worker -> List \cup {None}] /\ m_queue \in Seq(List)
      /\ pc \in [Thread -> PC]
  BY Typed DEF IInv
<1>1. old[t] \in List /\ old[t] \notin Queued /\ old[t] # recycling
      /\ \A u \in Worker : u # t => old[u] # old[t]
  BY <1>0 DEF IInv, Places, Lists
<1>2. old' \in [Worker -> List \cup {None}] /\ old' = [old EXCEPT ![t] = None]
      /\ m_queue' = Append(m_queue, old[t]) /\ UNCHANGED <<blockers, victim, recycling>>
  BY <1>0 DEF ScheduleRecyling
<1>3. /\ m_queue' \in Seq(List) /\ Len(m_queue') = Len(m_queue) + 1 /\ Len(m_queue) \in Nat
      /\ m_queue'[Len(m_queue) + 1] = old[t]
      /\ \A i \in 1 .. Len(m_queue) : m_queue'[i] = m_queue[i]
  BY <1>0, <1>1, <1>2, AppendProperties
<1>4. Queued' = Queued \cup {old[t]}
  BY <1>3 DEF Queued
<1>5. Held' = Held \ {old[t]} /\ old[t] \in Held
  BY <1>0, <1>1, <1>2 DEF Held
<1>6. Retired' = Retired /\ Gone(lost)' = Gone(lost)
  BY <1>2, <1>4, <1>5 DEF Gone, Retired
<1>7. \A i, j \in 1 .. Len(m_queue') : m_queue'[i] = m_queue'[j] => i = j
  BY <1>1, <1>3 DEF IInv, Lists, Queued
<1>8. /\ recycling' \notin Queued'
      /\ \A u \in Worker : old'[u] # None => old'[u] \notin Queued' /\ old'[u] # recycling'
      /\ \A u, w \in Worker : u # w /\ old'[u] # None => old'[u] # old'[w]
  BY <1>0, <1>1, <1>2, <1>4 DEF IInv, Lists
<1>9. Lists(lost)'
  BY <1>2, <1>6, <1>7, <1>8 DEF IInv, Lists
<1>10. \A r, l : Guards(lost, r, l) => Guards(lost, r, l)'
  BY <1>0, <1>2, <1>6 DEF Guards
<1>11. Readers(lost)'
  BY <1>0, <1>2, <1>6, <1>10 DEF IInv, Readers
<1>12. QED
  BY <1>2, <1>3, <1>9, <1>11

LEMMA FinishNewSliceIInv ==
  ASSUME NEW lost, IInv(lost), NEW a \in Adder, FinishNewSlice(a)
  PROVE  IInv(lost)'
<1> USE Kinds DEF FinishNewSlice, Goto, listVars
<1>1. HasSpace /\ ~InUse(a) /\ m_slicesLock = a
  BY DEF IInv, Places, InUse
<1>2. /\ count' \in [Slice -> Counters] /\ handle' \in [Worker -> Handle \cup {None}]
      /\ Columns' /\ Counts'
  BY <1>1, TryAllocateDocumentCounts
<1>3. /\ m_queue' \in Seq(List) /\ old' \in [Worker -> List \cup {None}]
      /\ Lists(lost)' /\ Readers(lost)'
  BY ScheduleLists DEF PC
<1>4. TypeOK'
  BY <1>2, <1>3 DEF IInv, TypeOK, PC, ScheduleRecyling
<1>5. Places'
  BY <1>1, Typed DEF IInv, Places, ScheduleRecyling
<1>6. QED
  BY <1>2, <1>3, <1>4, <1>5 DEF IInv

LEMMA FinishRecycleSliceIInv ==
  ASSUME NEW lost, IInv(lost), NEW d \in Deleter, FinishRecycleSlice(d)
  PROVE  IInv(lost)'
<1> USE Kinds DEF FinishRecycleSlice, Goto, listVars, sliceVars
<1>1. /\ m_queue' \in Seq(List) /\ old' \in [Worker -> List \cup {None}]
      /\ Lists(lost)' /\ Readers(lost)'
  BY ScheduleLists DEF PC
<1>2. TypeOK'
  BY <1>1 DEF IInv, TypeOK, PC, ScheduleRecyling
<1>3. Places'
  BY Typed DEF IInv, Places, ScheduleRecyling, HasSpace
<1>4. Columns'
  BY Typed DEF IInv, Columns, InUse, Allocated, Recyclable, IsExpired
<1>5. Counts'
  BY Typed, CountsFrame DEF InUse, IInv
<1>6. QED
  BY <1>1, <1>2, <1>3, <1>4, <1>5 DEF IInv

LEMMA TakeItemIInv ==
  ASSUME NEW lost, IInv(lost), TakeItem
  PROVE  IInv(lost)'
<1> USE Kinds DEF TakeItem, sliceVars, listVars, localVars
<1>0. /\ m_queue \in Seq(List) /\ m_queue # << >>
      /\ m_queue' = Tail(m_queue) /\ recycling' = Head(m_queue) /\ recycling = None
  BY Typed DEF IInv
<1>1. /\ m_queue' \in Seq(List) /\ Len(m_queue') = Len(m_queue) - 1 /\ Len(m_queue) \in Nat \ {0}
      /\ recycling' = m_queue[1] /\ recycling' \in List
      /\ \A i \in 1 .. Len(m_queue') : m_queue'[i] = m_queue[i + 1]
  BY <1>0
<1>2. Queued = Queued' \cup {recycling'} /\ recycling' \notin Queued'
  <2>1. \A i \in 1 .. Len(m_queue') : i + 1 \in 1 .. Len(m_queue) /\ i + 1 # 1
    BY <1>1
  <2>2. \A i \in 1 .. Len(m_queue') : m_queue'[i] # m_queue[1]
    BY <1>1, <2>1 DEF IInv, Lists
  <2>3. \A j \in 1 .. Len(m_queue) :
          j # 1 => j - 1 \in 1 .. Len(m_queue') /\ m_queue[j] = m_queue'[j - 1]
    BY <1>1
  <2>4. ASSUME NEW x PROVE x \in Queued <=> x \in Queued' \/ x = recycling'
    <3>1. ASSUME x \in Queued PROVE x \in Queued' \/ x = recycling'
      <4>1. PICK j \in 1 .. Len(m_queue) : x = m_queue[j]
        BY <3>1 DEF Queued
      <4>2. QED
        BY <1>1, <2>3, <4>1 DEF Queued
    <3>2. ASSUME x \in Queued' PROVE x \in Queued
      <4>1. PICK i \in 1 .. Len(m_queue') : x = m_queue'[i]
        BY <3>2 DEF Queued
      <4>2. x = m_queue[i + 1] /\ i + 1 \in 1 .. Len(m_queue)
        BY <1>1, <2>1, <4>1
      <4>3. QED
        BY <4>2 DEF Queued
    <3>3. recycling' \in Queued
      BY <1>1 DEF Queued
    <3>4. QED
      BY <3>1, <3>2, <3>3
  <2>5. recycling' \notin Queued'
    BY <1>1, <2>2 DEF Queued
  <2>6. QED
    BY <2>4, <2>5
<1>3. Held' = Held /\ Retired' = Retired /\ Gone(lost)' = Gone(lost)
  BY <1>0, <1>1, <1>2 DEF Held, Gone, Retired
<1>4. \A i, j \in 1 .. Len(m_queue') : m_queue'[i] = m_queue'[j] => i = j
  <2>1. \A i \in 1 .. Len(m_queue') : i + 1 \in 1 .. Len(m_queue)
    BY <1>1
  <2>2. QED
    BY <1>1, <2>1 DEF IInv, Lists
<1>5. Lists(lost)'
  BY <1>2, <1>3, <1>4 DEF IInv, Lists
<1>6. \A r, l : Guards(lost, r, l)' <=> Guards(lost, r, l)
  BY <1>3 DEF Guards
<1>7. Readers(lost)'
  BY <1>3, <1>6 DEF IInv, Readers
<1>8. TypeOK'
  BY <1>1 DEF IInv, TypeOK
<1>9. Places' /\ Columns' /\ Counts'
  BY CountsFrame DEF IInv, Places, HasSpace, Columns, InUse, Allocated, Recyclable, IsExpired
<1>10. QED
  BY <1>5, <1>7, <1>8, <1>9 DEF IInv

LEMMA RecycleIInv ==
  ASSUME NEW lost, IInv(lost), Recycle
  PROVE  IInv(lost)'
<1> USE Kinds DEF Recycle, localVars
<1>a. PICK l \in List : l = recycling
  BY DEF IInv, TypeOK
<1>0. /\ l = recycling /\ l \in Gone(lost) /\ l \notin lost /\ l # m_sliceBuffers /\ blockers[l] = {}
      /\ \A t \in Worker : old[t] # l
  BY <1>a DEF IInv, TypeOK, Lists, Gone, Retired
<1>1. TypeOK'
  BY DEF IInv, TypeOK
<1>2. contents'[m_sliceBuffers'] = contents[m_sliceBuffers]
  BY <1>0, Typed DEF IInv
<1>3. Places' /\ Columns' /\ Counts'
  BY <1>2, CountsFrame DEF IInv, Places, HasSpace, Columns, InUse, Allocated, Recyclable, IsExpired
<1>4. Retired' = Retired \ {l} /\ Gone(lost)' = Gone(lost) \ {l} /\ Queued' = Queued
  BY <1>0 DEF Gone, Retired, Queued, Held, IInv, Lists
<1>5. \A k \in Gone(lost) : k \in List
  BY DEF IInv, TypeOK, Lists
<1>6. \A k \in Gone(lost)' : victim'[k] = victim[k] /\ k # l /\ k \in Gone(lost)
  BY <1>0, <1>4, <1>5, Typed DEF IInv
<1>7. slices' = contents'[m_sliceBuffers'] \cup ({victim'[k] : k \in Gone(lost)'} \ {None})
  <2>1. {victim'[k] : k \in Gone(lost)'} = {victim[k] : k \in Gone(lost)'}
    BY <1>6
  <2>2. \A k \in Gone(lost) : k \in Gone(lost)' \/ k = l
    BY <1>4
  <2>3. victim[l] \notin contents[m_sliceBuffers]
        /\ \A k \in Gone(lost) : k # l /\ victim[k] # None => victim[k] # victim[l]
    BY <1>0 DEF IInv, Lists
  <2>4. slices = contents[m_sliceBuffers] \cup ({victim[k] : k \in Gone(lost)} \ {None})
    BY DEF IInv, Lists
  <2>5. slices' = slices \ {victim[l]}
    BY <1>0
  <2>6. QED
    BY <1>0, <1>2, <1>6, <2>1, <2>2, <2>3, <2>4, <2>5
<1>8. Lists(lost)'
  <2>1. lists' = Gone(lost)' \cup {m_sliceBuffers'} /\ m_sliceBuffers' \notin Gone(lost)'
    BY <1>0, <1>4 DEF IInv, Lists
  <2>2. /\ \A k \in Gone(lost)' : victim'[k] \notin contents'[m_sliceBuffers']
        /\ \A j, k \in Gone(lost)' : j # k /\ victim'[j] # None => victim'[j] # victim'[k]
    BY <1>2, <1>6 DEF IInv, Lists
  <2>3. /\ recycling' \notin Queued'
        /\ \A t \in Worker : old'[t] # None => old'[t] \notin Queued' /\ old'[t] # recycling'
    BY <1>4 DEF IInv, Lists, Queued, TypeOK
  <2>4. Retired' \cap lost = {}
    BY <1>4 DEF IInv, Lists
  <2>5. QED
    BY <1>7, <2>1, <2>2, <2>3, <2>4 DEF IInv, Lists
<1>9. \A r, k : Guards(lost, r, k) => k # l /\ Guards(lost, r, k)'
  BY <1>0, <1>4 DEF Guards
<1>10. Readers(lost)'
  <2>1. \A r \in Reader : pc[r] = "reading" => seen[r] # l
    BY <1>0, <1>9 DEF IInv, Readers
  <2>2. \A r \in Reader : pc[r] = "reading" => contents'[seen[r]] = contents[seen[r]]
    BY <1>0, <2>1, Typed DEF IInv
  <2>3. QED
    BY <1>2, <1>4, <1>5, <1>6, <1>9, <2>2 DEF IInv, Readers
<1>11. QED
  BY <1>1, <1>3, <1>8, <1>10 DEF IInv

-----------------------------------------------------------------------------
(* Steps that publish another list                                         *)

LEMMA SwapLists ==
  ASSUME NEW lost, IInv(lost), NEW t \in Worker, pc[t] \notin {"track", "schedule"},
         NEW new \in SUBSET Slice, NEW v \in contents[m_sliceBuffers] \cup {None},
         v \notin new, contents[m_sliceBuffers] \subseteq new \cup {v},
         new \cap slices \subseteq contents[m_sliceBuffers],
         Swap(t, new, v), slices' = slices \cup new,
         pc' = [pc EXCEPT ![t] = "track"],
         UNCHANGED <<blockers, m_queue, recycling, seen>>
  PROVE  /\ lists' \subseteq List /\ contents' \in [List -> SUBSET Slice]
         /\ m_sliceBuffers' \in List /\ victim' \in [List -> Slice \cup {None}]
         /\ old' = [old EXCEPT ![t] = m_sliceBuffers]
         /\ contents'[m_sliceBuffers'] = new
         /\ Lists(lost)' /\ Readers(lost)'
<1> USE Kinds
<1>1. PICK l \in List \ lists :
        /\ lists' = lists \cup {l}
        /\ contents' = [contents EXCEPT ![l] = new]
        /\ m_sliceBuffers' = l
  BY DEF Swap
<1>2. /\ lists \subseteq List /\ contents \in [List -> SUBSET Slice] /\ m_sliceBuffers \in List
      /\ victim \in [List -> Slice \cup {None}] /\ old \in [Worker -> List \cup {None}]
      /\ seen \in [Reader -> List \cup {None}] /\ pc \in [Thread -> PC]
      /\ lists = Gone(lost) \cup {m_sliceBuffers} /\ m_sliceBuffers \notin Gone(lost)
  BY DEF IInv, TypeOK, Lists
<1>3. /\ victim' = [victim EXCEPT ![m_sliceBuffers] = v]
      /\ old' = [old EXCEPT ![t] = m_sliceBuffers] /\ old[t] = None
  BY DEF Swap, IInv, Places
<1>4. /\ v \in Slice \cup {None} /\ contents' \in [List -> SUBSET Slice]
      /\ victim' \in [List -> Slice \cup {None}] /\ contents'[l] = new
      /\ \A k \in lists : contents'[k] = contents[k]
      /\ victim'[m_sliceBuffers] = v /\ \A k \in Gone(lost) : victim'[k] = victim[k]
  BY <1>1, <1>2, <1>3
<1>5. Queued' = Queued /\ Held' = Held \cup {m_sliceBuffers}
      /\ Retired' = Retired \cup {m_sliceBuffers}
      /\ Gone(lost)' = Gone(lost) \cup {m_sliceBuffers}
  BY <1>2, <1>3 DEF Queued, Held, Gone, Retired
<1>6. /\ \A u \in Worker : old'[u] # None => old'[u] \notin Queued' /\ old'[u] # recycling'
      /\ \A u, w \in Worker : u # w /\ old'[u] # None => old'[u] # old'[w]
      /\ recycling' \notin Queued'
  <2>1. m_sliceBuffers \notin Queued /\ m_sliceBuffers # recycling
        /\ \A u \in Worker : old[u] # m_sliceBuffers
    BY <1>2 DEF Gone, Retired, Held
  <2>2. QED
    BY <1>2, <1>3, <1>5, <2>1 DEF IInv, Lists
<1>7. \A k \in Gone(lost) : victim[k] \in slices \cup {None} /\ victim[k] \notin contents[m_sliceBuffers]
  BY DEF IInv, Lists
<1>8. /\ \A k \in Gone(lost)' : victim'[k] \notin new
      /\ \A j, k \in Gone(lost)' : j # k /\ victim'[j] # None => victim'[j] # victim'[k]
  <2>1. \A k \in Gone(lost)' : victim'[k] \notin new
    BY <1>4, <1>5, <1>7
  <2>2. \A k \in Gone(lost) : victim[k] # None => victim[k] # v
    BY <1>7
  <2>3. \A j, k \in Gone(lost) : j # k /\ victim[j] # None => victim[j] # victim[k]
    BY DEF IInv, Lists
  <2>4. QED
    BY <1>4, <1>5, <2>1, <2>2, <2>3
<1>9. slices' = new \cup ({victim'[k] : k \in Gone(lost)'} \ {None})
  <2>1. {victim'[k] : k \in Gone(lost)'} = {victim[k] : k \in Gone(lost)} \cup {v}
    BY <1>4, <1>5
  <2>2. slices = contents[m_sliceBuffers] \cup ({victim[k] : k \in Gone(lost)} \ {None})
    BY DEF IInv, Lists
  <2>3. None \notin contents[m_sliceBuffers]
    BY <1>2
  <2> DEFINE V == {victim[k] : k \in Gone(lost)}
             N == {victim'[k] : k \in Gone(lost)'}
  <2>4. N = V \cup {v} /\ slices = contents[m_sliceBuffers] \cup (V \ {None})
    BY <2>1, <2>2
  <2> HIDE DEF V, N
  <2>5. slices' = new \cup (N \ {None})
    BY <2>3, <2>4
  <2>6. QED
    BY <2>5 DEF N
<1>10. Lists(lost)'
  <2>1. lists' = Gone(lost)' \cup {m_sliceBuffers'} /\ m_sliceBuffers' \notin Gone(lost)'
    BY <1>1, <1>2, <1>5
  <2>2. Retired' \cap lost = {}
    BY <1>2, <1>5 DEF IInv, Lists, Gone
  <2>3. QED
    BY <1>1, <1>4, <1>6, <1>8, <1>9, <2>1, <2>2 DEF IInv, Lists
<1> DEFINE GuardsNow(r, k) ==
             /\ k \in Gone(lost)'
             /\ \/ k \in lost
                \/ r \in blockers'[k]
                \/ \E u \in Worker : pc'[u] = "track" /\ old'[u] = k
<1>11. \A r, k : Guards(lost, r, k) => GuardsNow(r, k) /\ victim'[k] = victim[k]
  BY <1>2, <1>3, <1>4, <1>5 DEF Guards
<1>12. \A r : GuardsNow(r, m_sliceBuffers)
  <2>1. m_sliceBuffers \in Gone(lost)' /\ pc'[t] = "track" /\ old'[t] = m_sliceBuffers
    BY <1>2, <1>3, <1>5
  <2>2. QED
    BY <2>1
<1> HIDE DEF GuardsNow
<1>13. Readers(lost)'
  <2> SUFFICES ASSUME NEW r \in Reader, pc'[r] = "reading"
               PROVE  /\ seen[r] = l \/ GuardsNow(r, seen[r])
                      /\ \A s \in contents'[seen[r]] :
                           \/ s \in new
                           \/ \E k \in Gone(lost)' : GuardsNow(r, k) /\ victim'[k] = s
    BY <1>1, <1>4 DEF Readers, Guards, GuardsNow
  <2>1. pc[r] = "reading"
    BY <1>2
  <2>2. seen[r] = m_sliceBuffers \/ Guards(lost, r, seen[r])
    BY <2>1 DEF IInv, Readers
  <2>3. GuardsNow(r, seen[r])
    BY <1>11, <1>12, <2>2
  <2>4. contents'[seen[r]] = contents[seen[r]]
    BY <1>2, <1>4, <2>2 DEF Guards
  <2>5. ASSUME NEW s \in contents[seen[r]]
        PROVE  s \in new \/ \E k \in Gone(lost)' : GuardsNow(r, k) /\ victim'[k] = s
    <3>1. CASE s \in contents[m_sliceBuffers]
      <4>1. s \in new \/ s = v
        BY <3>1
      <4>2. victim'[m_sliceBuffers] = v /\ m_sliceBuffers \in Gone(lost)'
        BY <1>4, <1>5
      <4>3. QED
        BY <1>12, <4>1, <4>2
    <3>2. CASE \E k \in Gone(lost) : Guards(lost, r, k) /\ victim[k] = s
      BY <1>5, <1>11, <3>2
    <3>3. QED
      BY <2>1, <3>1, <3>2 DEF IInv, Readers
  <2>6. QED
    BY <2>3, <2>4, <2>5
<1>14. QED
  BY <1>1, <1>2, <1>3, <1>4, <1>10, <1>13

LEMMA CreateNewActiveSliceIInv ==
  ASSUME NEW lost, IInv(lost), NEW a \in Adder, CreateNewActiveSlice(a)
  PROVE  IInv(lost)'
<1> USE Kinds
<1>1. PICK s \in Slice \ slices :
        /\ slices' = slices \cup {s}
        /\ count' = [count EXCEPT ![s] = NewSlice]
        /\ active' = {h \in active : h[1] # s}
        /\ Swap(a, contents[m_sliceBuffers] \cup {s}, None)
        /\ m_activeSlice' = s
  BY DEF CreateNewActiveSlice
<1>2. /\ m_slicesLock = None /\ m_slicesLock' = a
      /\ pc[a] = "idle" /\ pc' = [pc EXCEPT ![a] = "track"]
      /\ UNCHANGED <<indexed, m_deleteDocumentLock, tokens, blockers, m_queue,
                     recycling, handle, seen>>
  BY DEF CreateNewActiveSlice, Goto
<1>3. /\ TypeOK /\ contents \in [List -> SUBSET Slice] /\ count \in [Slice -> Counters]
      /\ m_sliceBuffers \in List /\ pc \in [Thread -> PC]
      /\ old \in [Worker -> List \cup {None}] /\ indexed \subseteq Handle
      /\ contents[m_sliceBuffers] \subseteq slices /\ contents[m_sliceBuffers] \subseteq Slice
  BY Typed DEF IInv, Lists
<1> DEFINE new == contents[m_sliceBuffers] \cup {s}
<1>4. /\ new \in SUBSET Slice /\ contents[m_sliceBuffers] \subseteq new \cup {None}
      /\ new \cap slices \subseteq contents[m_sliceBuffers] /\ slices' = slices \cup new
      /\ None \notin new
  BY <1>1, <1>3
<1>5. /\ lists' \subseteq List /\ contents' \in [List -> SUBSET Slice]
      /\ m_sliceBuffers' \in List /\ victim' \in [List -> Slice \cup {None}]
      /\ old' = [old EXCEPT ![a] = m_sliceBuffers]
      /\ contents'[m_sliceBuffers'] = new
      /\ Lists(lost)' /\ Readers(lost)'
  BY <1>1, <1>2, <1>4, SwapLists
<1> HIDE DEF new
<1>6. NewSlice \in Counters /\ NewSlice.unallocated = m_sliceCapacity
      /\ NewSlice.pending = 0 /\ NewSlice.expired = 0 /\ m_sliceCapacity \in Nat \ {0}
  BY ShardAssumption DEF NewSlice, Counters
<1>7. count' \in [Slice -> Counters] /\ count'[s] = NewSlice
      /\ \A z \in Slice : z # s => count'[z] = count[z]
  BY <1>1, <1>3, <1>6
<1>8. TypeOK'
  BY <1>1, <1>2, <1>3, <1>5, <1>7 DEF TypeOK, PC
<1>9. HasSpace'
  BY <1>1, <1>6, <1>7 DEF HasSpace
<1>10. Places'
  BY <1>2, <1>3, <1>5, <1>9 DEF IInv, Places
<1> DEFINE AllocatedNow(h) ==
             /\ h \in Handle
             /\ h[1] \in contents'[m_sliceBuffers']
             /\ h[2] < m_sliceCapacity - count'[h[1]].unallocated
<1>11. \A h : Allocated(h) => AllocatedNow(h) /\ h[1] # s
  BY <1>1, <1>3, <1>5, <1>7 DEF Allocated, new
<1>12. Columns'
  <2>1. \A h \in indexed' : AllocatedNow(h) /\ h \in active'
    BY <1>1, <1>2, <1>11 DEF IInv, Columns
  <2>2. \A t \in Worker : InUse(t)' => InUse(t) /\ handle'[t] = handle[t]
    BY <1>2, <1>3 DEF InUse
  <2>3. \A t \in Worker : InUse(t)' => AllocatedNow(handle'[t]) /\ handle'[t] \notin indexed'
    BY <1>2, <1>11, <2>2 DEF IInv, Columns
  <2>4. \A t, u \in Worker : t # u /\ InUse(t)' /\ InUse(u)' => handle'[t] # handle'[u]
    BY <2>2 DEF IInv, Columns
  <2>5. \A b \in Adder : pc'[b] \in {"activated", "committed"} => handle'[b] \in active'
    <3> SUFFICES ASSUME NEW b \in Adder, pc'[b] \in {"activated", "committed"}
                 PROVE  handle'[b] \in active'
      OBVIOUS
    <3>1. pc[b] = pc'[b] /\ handle'[b] = handle[b] /\ InUse(b)
      BY <1>2, <1>3 DEF InUse
    <3>2. handle[b] \in active /\ handle[b][1] # s
      BY <1>11, <3>1 DEF IInv, Columns
    <3>3. QED
      BY <1>1, <3>1, <3>2
  <2>6. \A d \in Deleter : pc'[d] = "recycle" =>
          /\ handle'[d] \in Handle /\ count'[handle'[d][1]].expired = m_sliceCapacity
          /\ handle'[d][1] \in contents'[m_sliceBuffers']
    <3> SUFFICES ASSUME NEW d \in Deleter, pc'[d] = "recycle"
                 PROVE  /\ handle[d] \in Handle
                        /\ count'[handle[d][1]].expired = m_sliceCapacity
                        /\ handle[d][1] \in new
      BY <1>2, <1>5
    <3>1. pc[d] = "recycle"
      BY <1>2, <1>3
    <3>2. handle[d] \in Handle /\ handle[d][1] \in contents[m_sliceBuffers]
          /\ count[handle[d][1]].expired = m_sliceCapacity
      BY <3>1 DEF IInv, Columns, Recyclable, IsExpired
    <3>3. QED
      BY <1>1, <1>3, <1>7, <3>2 DEF new
  <2>7. m_activeSlice' \in contents'[m_sliceBuffers']
    BY <1>1, <1>5 DEF new
  <2>8. QED
    BY <2>1, <2>3, <2>4, <2>5, <2>6, <2>7 DEF Columns, Allocated, Recyclable, IsExpired
<1>13. Counts'
  <2>1. \A z \in Slice : PendingCols(z)' = PendingCols(z) /\ CommittedCols(z)' = CommittedCols(z)
    BY <1>2, <1>3 DEF PendingCols, CommittedCols
  <2>2. PendingCols(s) = {} /\ CommittedCols(s) = {}
    <3>1. \A c : <<s, c>> \notin indexed
      BY <1>11 DEF IInv, Columns
    <3>2. \A t \in Worker : InUse(t) => \A c : handle[t] # <<s, c>>
      BY <1>11 DEF IInv, Columns
    <3>3. QED
      BY <3>1, <3>2 DEF PendingCols, CommittedCols, InUse
  <2>3. \A z \in Slice : z # s =>
          /\ Cardinality(PendingCols(z)') <= count'[z].pending
          /\ count'[z].expired + Cardinality(CommittedCols(z)') <= Committed(z)'
    BY <1>7, <2>1 DEF IInv, Counts, Committed
  <2>4. Cardinality(PendingCols(s)') = 0 /\ Cardinality(CommittedCols(s)') = 0
    BY <2>1, <2>2, FS_EmptySet
  <2>5. /\ Cardinality(PendingCols(s)') <= count'[s].pending
        /\ count'[s].expired + Cardinality(CommittedCols(s)') <= Committed(s)'
    BY <1>6, <1>7, <2>4 DEF Committed
  <2>6. QED
    BY <2>3, <2>5 DEF Counts
<1>14. QED
  BY <1>5, <1>8, <1>10, <1>12, <1>13 DEF IInv

(* A slice of expired columns only is in nobody's use.                     *)
LEMMA ExpiredUnused ==
  ASSUME NEW lost, IInv(lost), NEW s \in Slice, IsExpired(s)
  PROVE  /\ \A h \in indexed : h[1] # s
         /\ \A t \in Worker : InUse(t) => handle[t][1] # s
<1>1. /\ Cardinality(PendingCols(s)) <= count[s].pending
      /\ count[s].expired + Cardinality(CommittedCols(s)) <= Committed(s)
      /\ count[s].expired = m_sliceCapacity /\ TypeOK
  BY DEF IInv, Counts, IsExpired
<1>2. Cardinality(PendingCols(s)) = 0 /\ Cardinality(CommittedCols(s)) = 0
  BY <1>1, CountTyped DEF Committed
<1>3. PendingCols(s) = {} /\ CommittedCols(s) = {}
  BY <1>1, <1>2, CountTyped, ColsFinite
<1>4. ASSUME NEW h \in indexed PROVE h[1] # s
  BY <1>3, HandleParts DEF IInv, Columns, Allocated, CommittedCols
<1>5. ASSUME NEW t \in Worker, InUse(t) PROVE handle[t][1] # s
  <2>1. handle[t] \in Handle
    BY <1>5 DEF IInv, Columns, Allocated
  <2>2. PICK c \in Col : handle[t] = <<handle[t][1], c>>
    BY <2>1, HandleParts
  <2>3. t \in Adder \/ pc[t] \notin {"ingest", "activated"}
    BY Kinds DEF IInv, Places
  <2>4. QED
    BY <1>3, <1>5, <2>2, <2>3 DEF PendingCols, CommittedCols, InUse
<1>6. QED
  BY <1>4, <1>5

LEMMA RecycleSliceIInv ==
  ASSUME NEW lost, IInv(lost), NEW d \in Deleter, RecycleSlice(d)
  PROVE  IInv(lost)'
<1> USE Kinds
<1>1. PICK s \in Slice : handle[d][1] = s /\ Recyclable(s)
  BY HandleParts DEF IInv, Columns, RecycleSlice, Goto
<1>2. /\ m_slicesLock = None /\ pc[d] = "recycle" /\ pc' = [pc EXCEPT ![d] = "track"]
      /\ Swap(d, contents[m_sliceBuffers] \ {s}, s)
      /\ m_activeSlice' = IF m_activeSlice = s THEN None ELSE m_activeSlice
      /\ UNCHANGED <<sliceVars, indexed, m_slicesLock, m_deleteDocumentLock, tokens,
                     blockers, m_queue, recycling, handle, seen>>
  BY <1>1 DEF RecycleSlice, Goto
<1>3. /\ TypeOK /\ contents \in [List -> SUBSET Slice]
      /\ m_sliceBuffers \in List /\ pc \in [Thread -> PC]
      /\ old \in [Worker -> List \cup {None}]
      /\ contents[m_sliceBuffers] \subseteq slices /\ contents[m_sliceBuffers] \subseteq Slice
  BY Typed DEF IInv, Lists
<1> DEFINE new == contents[m_sliceBuffers] \ {s}
<1>4. /\ new \in SUBSET Slice /\ contents[m_sliceBuffers] \subseteq new \cup {s}
      /\ new \cap slices \subseteq contents[m_sliceBuffers] /\ slices' = slices \cup new
      /\ s \notin new /\ s \in contents[m_sliceBuffers]
  BY <1>1, <1>2, <1>3 DEF Recyclable, sliceVars
<1>5. /\ lists' \subseteq List /\ contents' \in [List -> SUBSET Slice]
      /\ m_sliceBuffers' \in List /\ victim' \in [List -> Slice \cup {None}]
      /\ old' = [old EXCEPT ![d] = m_sliceBuffers]
      /\ contents'[m_sliceBuffers'] = new
      /\ Lists(lost)' /\ Readers(lost)'
  BY <1>2, <1>4, SwapLists
<1> HIDE DEF new
<1>6. TypeOK'
  BY <1>2, <1>3, <1>5 DEF TypeOK, PC, sliceVars
<1>7. Places'
  BY <1>2, <1>3, <1>5 DEF IInv, Places
<1>8. /\ \A h \in indexed : h[1] # s
      /\ \A t \in Worker : InUse(t) => handle[t][1] # s
  BY <1>1, ExpiredUnused DEF Recyclable
<1>9. \A e \in Deleter : pc'[e] # "recycle"
  BY <1>2, <1>3 DEF IInv, Places
<1>10. \A t \in Worker : InUse(t)' => InUse(t)
  BY <1>2, <1>3 DEF InUse
<1>11. \A h : Allocated(h) /\ h[1] # s => h[1] \in new
  BY DEF Allocated, new
<1>12. Columns'
  <2>1. \A h \in indexed : h \in Handle /\ h[1] \in new /\ h \in active
                           /\ h[2] < m_sliceCapacity - count[h[1]].unallocated
    BY <1>8, <1>11 DEF IInv, Columns, Allocated
  <2>2. \A t \in Worker : InUse(t) =>
          /\ handle[t] \in Handle /\ handle[t][1] \in new /\ handle[t] \notin indexed
          /\ handle[t][2] < m_sliceCapacity - count[handle[t][1]].unallocated
    BY <1>8, <1>11 DEF IInv, Columns, Allocated
  <2>3. m_activeSlice' # None => m_activeSlice' \in new
    BY <1>2 DEF IInv, Columns, new
  <2>4. \A a \in Adder : pc'[a] \in {"activated", "committed"} => handle[a] \in active
    BY <1>2, <1>3 DEF IInv, Columns
  <2>5. QED
    BY <1>2, <1>5, <1>9, <1>10, <2>1, <2>2, <2>3, <2>4
    DEF IInv, Columns, Allocated, sliceVars
<1>13. Counts'
  BY <1>2, <1>3, CountsFrame DEF InUse, sliceVars
<1>14. QED
  BY <1>5, <1>6, <1>7, <1>12, <1>13 DEF IInv

LEMMA NextIInv ==
  ASSUME NEW lost, IInv(lost), [Next]_vars
  PROVE  IInv(lost)'
<1> USE Kinds
<1>1. CASE UNCHANGED vars
  <2> USE <1>1 DEF vars, sliceVars, listVars, retireVars, localVars
  <2>1. TypeOK' /\ Places' /\ Columns'
    BY DEF IInv, TypeOK, Places, HasSpace, Columns, InUse, Allocated, Recyclable, IsExpired
  <2>2. Counts' /\ Lists(lost)' /\ Readers(lost)'
    BY CountsFrame, ListsFrame, ReadersFrame
  <2>3. QED
    BY <2>1, <2>2 DEF IInv
<1>2. ASSUME NEW a \in Adder, Add(a) PROVE IInv(lost)'
  BY <1>2, AllocateDocumentIInv, CreateNewActiveSliceIInv, StartTrackerIInv,
     FinishNewSliceIInv, IngestThrowsIInv, ActivateIInv, CommitDocumentIInv, MapAddIInv
  DEF Add
<1>3. ASSUME NEW d \in Deleter, Delete(d) PROVE IInv(lost)'
  BY <1>3, RequestTokenIInv, NotFoundIInv, FindAndForgetIInv, ClearActiveBitIInv,
     ExpireDocumentIInv, RecycleSliceIInv, StartTrackerIInv, FinishRecycleSliceIInv,
     UnlockIInv, EndDeleteIInv
  DEF Delete
<1>4. ASSUME NEW r \in Reader, Query(r) PROVE IInv(lost)'
  BY <1>4, RequestTokenIInv, GetSliceBuffersIInv, EndQueryIInv DEF Query
<1>5. QED
  BY <1>1, <1>2, <1>3, <1>4, TakeItemIInv, RecycleIInv DEF Next, Recycler

-----------------------------------------------------------------------------
(* The inductive invariant holds in every reachable state.               *)
THEOREM Invariant == Spec => []IInv({})
<1>1. IInv({}) /\ [Next]_vars => IInv({})'
  BY NextIInv
<1>2. QED
  BY InitIInv, <1>1, PTL DEF Spec

(* Types: in particular no counter of a slice leaves 0 .. m_sliceCapacity. *)
THEOREM TypeCorrect == Spec => []TypeOK
<1>1. IInv({}) => TypeOK
  BY DEF IInv
<1>2. QED
  BY <1>1, Invariant, PTL

(* A reader's list is the current one or guarded, and so is every slice on *)
(* it; a column in use keeps its slice on the current list.                *)
LEMMA IInvNothingFreed ==
  ASSUME NEW lost, IInv(lost)
  PROVE  NothingFreedInUse
<1>1. /\ contents[m_sliceBuffers] \subseteq slices /\ m_sliceBuffers \in lists
      /\ Gone(lost) \subseteq lists
      /\ \A l \in Gone(lost) : victim[l] # None => victim[l] \in slices
      /\ contents[m_sliceBuffers] \subseteq Slice
  BY Typed DEF IInv, Lists
<1>2. ASSUME NEW r \in Reader, pc[r] = "reading"
      PROVE  seen[r] \in lists /\ contents[seen[r]] \subseteq slices
  <2>1. seen[r] \in lists /\ seen[r] \in List
    BY <1>1, <1>2 DEF IInv, Readers, Guards, TypeOK
  <2>2. contents[seen[r]] \subseteq Slice
    BY <2>1, Typed DEF IInv
  <2>3. QED
    BY <1>1, <1>2, <2>1, <2>2, Kinds DEF IInv, Readers
<1>3. ASSUME NEW s \in Slice, NEW t \in Using(s) PROVE s \in slices
  <2>1. CASE InUse(t)
    BY <1>1, <2>1 DEF Using, IInv, Columns, Allocated
  <2>2. CASE pc[t] = "recycle"
    BY <1>1, <2>2, Kinds DEF Using, IInv, Columns, Recyclable, Places
  <2>3. QED
    BY <2>1, <2>2 DEF Using, InUse
<1>4. m_activeSlice # None => m_activeSlice \in contents[m_sliceBuffers]
  BY DEF IInv, Columns
<1>5. QED
  BY <1>1, <1>2, <1>3, <1>4 DEF NothingFreedInUse

(* Shard.h:103-106, 284-287: a list and the slices on it outlive the       *)
(* queries that have found it.                                             *)
THEOREM NothingFreed == Spec => []NothingFreedInUse
<1>1. IInv({}) => NothingFreedInUse
  BY IInvNothingFreed
<1>2. QED
  BY <1>1, Invariant, PTL

(* What the map contains is on the current list, with its active bit set.  *)
THEOREM Served == Spec => []IndexedIsServed
<1>1. IInv({}) => IndexedIsServed
  BY DEF IInv, Columns, Allocated, IndexedIsServed
<1>2. QED
  BY <1>1, Invariant, PTL

(* A thread about to commit or to expire is counted, so the counter has    *)
(* room for its step.                                                      *)
LEMMA IInvAssertions ==
  ASSUME NEW lost, IInv(lost)
  PROVE  AssertionsHold
<1> USE Kinds
<1>0. TypeOK
  BY DEF IInv
<1>1. ASSUME NEW a \in Adder, pc[a] = "activated"
      PROVE  count[handle[a][1]].pending > 0
  <2>1. handle[a] \in Handle
    BY <1>1 DEF IInv, Columns, InUse, Allocated
  <2>2. PICK s \in Slice, c \in Col : handle[a] = <<s, c>>
    BY <2>1, HandleParts
  <2>3. c \in PendingCols(s)
    BY <1>1, <2>2 DEF PendingCols
  <2>4. Cardinality(PendingCols(s)) # 0
    BY <1>0, <2>3, CountTyped, ColsFinite
  <2>5. Cardinality(PendingCols(s)) <= count[s].pending
    BY DEF IInv, Counts
  <2>6. QED
    BY <1>0, <2>2, <2>4, <2>5, CountTyped
<1>2. ASSUME NEW d \in Deleter, pc[d] = "expire"
      PROVE  count[handle[d][1]].expired < Committed(handle[d][1])
  <2>1. handle[d] \in Handle
    BY <1>2 DEF IInv, Columns, InUse, Allocated
  <2>2. PICK s \in Slice, c \in Col : handle[d] = <<s, c>>
    BY <2>1, HandleParts
  <2>3. c \in CommittedCols(s)
    BY <1>2, <2>2 DEF CommittedCols
  <2>4. Cardinality(CommittedCols(s)) # 0
    BY <1>0, <2>3, CountTyped, ColsFinite
  <2>5. count[s].expired + Cardinality(CommittedCols(s)) <= Committed(s)
    BY DEF IInv, Counts
  <2>6. count[s].expired < Committed(s)
    BY <1>0, <2>4, <2>5, CountTyped DEF Committed
  <2>7. QED
    BY <2>2, <2>6
<1>3. \A d \in Deleter : pc[d] = "recycle" => Recyclable(handle[d][1])
  BY DEF IInv, Columns
<1>4. QED
  BY <1>1, <1>2, <1>3 DEF AssertionsHold

(* No CommitDocument, ExpireDocument or RecycleSlice ever throws.           *)
THEOREM NoAssertionFails == Spec => []AssertionsHold
<1>1. IInv({}) => AssertionsHold
  BY IInvAssertions
<1>2. QED
  BY <1>1, Invariant, PTL

(* The lists in the queue, with threads and with the recycler are distinct,*)
(* so that their numbers add up.                                           *)
LEMMA IInvNoLeak == IInv({}) => NoLeakNoDoubleFree
<1> SUFFICES ASSUME IInv({}) PROVE NoLeakNoDoubleFree
  OBVIOUS
<1> USE Kinds
<1> DEFINE Holders == {t \in Worker : old[t] # None}
           Current == {recycling} \ {None}
<1>0. /\ m_queue \in Seq(List) /\ Len(m_queue) \in Nat /\ DOMAIN m_queue = 1 .. Len(m_queue)
      /\ old \in [Worker -> List \cup {None}]
  BY Typed DEF IInv
<1>1. IsFiniteSet(Queued) /\ Cardinality(Queued) = Len(m_queue)
  <2> DEFINE f == [i \in 1 .. Len(m_queue) |-> m_queue[i]]
  <2>1. f \in Bijection(1 .. Len(m_queue), Queued)
    <3>1. f \in Injection(1 .. Len(m_queue), Queued)
      BY DEF IInv, Lists, Queued, Injection, IsInjective
    <3>2. f \in Surjection(1 .. Len(m_queue), Queued)
      BY DEF Queued, Surjection
    <3>3. QED
      BY <3>1, <3>2 DEF Bijection
  <2>2. IsFiniteSet(1 .. Len(m_queue)) /\ Cardinality(1 .. Len(m_queue)) = Len(m_queue)
    <3>1. /\ IsFiniteSet(1 .. Len(m_queue))
          /\ Cardinality(1 .. Len(m_queue)) = IF 1 > Len(m_queue) THEN 0 ELSE Len(m_queue) - 1 + 1
      BY <1>0, FS_Interval, SMTT(20)
    <3>2. QED
      BY <1>0, <3>1
  <2>3. ExistsBijection(1 .. Len(m_queue), Queued)
    BY <2>1 DEF ExistsBijection
  <2>4. QED
    BY <2>2, <2>3, FS_Bijection
<1>2. IsFiniteSet(Holders) /\ Cardinality(Holders) \in Nat
  <2>1. Holders \subseteq {m_slicesLock, m_deleteDocumentLock}
    BY DEF IInv, Places
  <2>2. IsFiniteSet({m_slicesLock} \cup {m_deleteDocumentLock})
    BY FS_Singleton, FS_Union
  <2>3. Holders \subseteq {m_slicesLock} \cup {m_deleteDocumentLock}
    BY <2>1
  <2>4. QED
    BY <2>2, <2>3, FS_Subset, FS_CardinalityType
<1>3. IsFiniteSet(Held) /\ Cardinality(Held) = Cardinality(Holders)
  <2> DEFINE f == [t \in Holders |-> old[t]]
  <2>1. f \in Bijection(Holders, Held)
    <3>1. f \in Injection(Holders, Held)
      BY DEF IInv, Lists, Held, Injection, IsInjective
    <3>2. f \in Surjection(Holders, Held)
      BY DEF Held, Surjection
    <3>3. QED
      BY <3>1, <3>2 DEF Bijection
  <2>2. ExistsBijection(Holders, Held)
    BY <2>1 DEF ExistsBijection
  <2>3. QED
    BY <1>2, <2>2, FS_Bijection
<1>4. IsFiniteSet(Current) /\ Cardinality(Current) \in Nat
  BY FS_Singleton, FS_Subset, FS_CardinalityType
<1>5. Queued \cap Held = {} /\ (Queued \cup Held) \cap Current = {}
  BY DEF IInv, Lists, Held
<1>6. /\ IsFiniteSet(Queued \cup Held)
      /\ Cardinality(Queued \cup Held) = Len(m_queue) + Cardinality(Holders)
  <2>1. Cardinality(Queued \cap Held) = 0
    BY <1>5, FS_EmptySet
  <2>2. /\ IsFiniteSet(Queued \cup Held)
        /\ Cardinality(Queued \cup Held) =
             Cardinality(Queued) + Cardinality(Held) - Cardinality(Queued \cap Held)
    BY <1>1, <1>3, FS_Union
  <2> HIDE DEF Holders
  <2>3. QED
    BY <1>0, <1>1, <1>2, <1>3, <2>1, <2>2
<1>7. Cardinality(Retired) = Len(m_queue) + Cardinality(Holders) + Cardinality(Current)
  <2>1. Cardinality((Queued \cup Held) \cap Current) = 0
    BY <1>5, FS_EmptySet
  <2>2. Retired = (Queued \cup Held) \cup Current
    BY DEF Retired
  <2>3. Cardinality((Queued \cup Held) \cup Current) =
          Cardinality(Queued \cup Held) + Cardinality(Current)
            - Cardinality((Queued \cup Held) \cap Current)
    BY <1>4, <1>6, FS_Union
  <2> HIDE DEF Holders, Current
  <2>4. QED
    BY <1>0, <1>2, <1>4, <1>6, <2>1, <2>2, <2>3
<1>8. QED
  BY <1>7 DEF IInv, Lists, Gone, NoLeakNoDoubleFree

(* Every list that is not the current one is retired once, every slice is  *)
(* on the current list or retired once: nothing leaks, nothing is freed    *)
(* twice.                                                                  *)
THEOREM NoLeak == Spec => []NoLeakNoDoubleFree
<1>1. QED
  BY IInvNoLeak, Invariant, PTL

-----------------------------------------------------------------------------
(* The recycler's queue and its end                                        *)

(* m_finished is final: it is set when the queue that accepts nothing more *)
(* is empty, and the thread ends, and StopIndex goes on, after that.       *)
Drained ==
  /\ m_shutdown \in BOOLEAN /\ running \in BOOLEAN
  /\ m_finished => m_shutdown /\ m_queue = << >>
  /\ ~running => m_finished /\ recycling = None
  /\ owner = "join" => m_finished
  /\ owner = "stopped" => ~running

(* What a step leaves alone unless it is the recycler's or an Accept.      *)
Idle == UNCHANGED <<m_queue, recycling, m_shutdown, m_finished, running, owner>>

LEMMA IdleHolds ==
  ASSUME Drained, Idle
  PROVE  Drained'
BY DEF Drained, Idle

LEMMA AddIsIdle ==
  ASSUME NEW a \in Adder, IndexAdd(a)
  PROVE  Idle \/ Accept(a)
<1>1. CASE AllocateBlock(a)
  BY <1>1 DEF AllocateBlock, CreateNewActiveSlice, Idle
<1>2. CASE Refuse(a)
  BY <1>2 DEF Refuse, ThrowItAway, Idle
<1>3. CASE /\ AllocateDocument(a) \/ StartTracker(a) \/ IngestThrows(a)
           /\ UNCHANGED indexVars
  BY <1>3 DEF AllocateDocument, StartTracker, IngestThrows, retireVars, indexVars, Idle
<1>4. CASE /\ Activate(a) \/ CommitDocument(a) \/ MapAdd(a)
           /\ UNCHANGED indexVars
  BY <1>4 DEF Activate, CommitDocument, MapAdd, retireVars, indexVars, Idle
<1>5. QED
  BY <1>1, <1>2, <1>3, <1>4 DEF IndexAdd

LEMMA DeleteIsIdle ==
  ASSUME NEW d \in Deleter, IndexDelete(d)
  PROVE  Idle \/ Accept(d)
<1>1. CASE TakesBack(d)
  BY <1>1 DEF TakesBack, RecycleSlice, indexVars, Idle
<1>2. CASE Refuse(d)
  BY <1>2 DEF Refuse, ThrowItAway, Idle
<1>3. CASE /\ RequestToken(d) \/ NotFound(d) \/ FindAndForget(d) \/ ClearActiveBit(d)
           /\ UNCHANGED indexVars
  BY <1>3 DEF RequestToken, NotFound, FindAndForget, ClearActiveBit, retireVars,
              indexVars, Idle
<1>4. CASE /\ ExpireDocument(d) \/ StartTracker(d) \/ Unlock(d)
           /\ UNCHANGED indexVars
  BY <1>4 DEF ExpireDocument, StartTracker, Unlock, retireVars, indexVars, Idle
<1>5. CASE EndDelete(d) /\ UNCHANGED indexVars
  BY <1>5 DEF EndDelete, ReturnToken, indexVars, Idle
<1>6. QED
  BY <1>1, <1>2, <1>3, <1>4, <1>5 DEF IndexDelete

(* A queue that accepts is not shut down, so nothing rests on its being    *)
(* empty.                                                                  *)
LEMMA AcceptHolds ==
  ASSUME NEW t, Drained, Accept(t)
  PROVE  Drained'
<1>1. ~m_finished /\ running /\ owner # "join" /\ owner # "stopped"
  BY DEF Drained, Accept
<1>2. UNCHANGED <<m_shutdown, m_finished, running, owner>>
  BY DEF Accept, indexVars
<1>3. QED
  BY <1>1, <1>2 DEF Drained

LEMMA RecyclerHolds ==
  ASSUME Drained, RecyclerThread
  PROVE  Drained'
<1>1. CASE TryDequeue
  BY <1>1 DEF TryDequeue, TakeItem, Drained
<1>2. CASE DeleteRetired
  BY <1>2 DEF DeleteRetired, Recycle, Drained
<1>3. CASE EndThread
  BY <1>3 DEF EndThread, vars, retireVars, Drained
<1>4. QED
  BY <1>1, <1>2, <1>3 DEF RecyclerThread

LEMMA StopHolds ==
  ASSUME Drained, StopIndex
  PROVE  Drained'
<1>1. CASE Shutdown
  BY <1>1 DEF Shutdown, vars, retireVars, Drained
<1>2. CASE Spin
  BY <1>2 DEF Spin, vars, retireVars, Drained
<1>3. CASE Join
  BY <1>3 DEF Join, vars, retireVars, Drained
<1>4. QED
  BY <1>1, <1>2, <1>3 DEF StopIndex

LEMMA StepHolds ==
  ASSUME Drained, [IndexNext]_allVars
  PROVE  Drained'
<1>1. CASE \E a \in Adder : IndexAdd(a)
  BY <1>1, AddIsIdle, IdleHolds, AcceptHolds
<1>2. CASE \E d \in Deleter : IndexDelete(d)
  BY <1>2, DeleteIsIdle, IdleHolds, AcceptHolds
<1>3. CASE RecyclerThread
  BY <1>3, RecyclerHolds
<1>4. CASE StopIndex
  BY <1>4, StopHolds
<1>5. CASE UNCHANGED allVars
  <2>1. Idle
    BY <1>5 DEF allVars, vars, retireVars, indexVars, Idle
  <2>2. QED
    BY <2>1, IdleHolds
<1>6. QED
  BY <1>1, <1>2, <1>3, <1>4, <1>5 DEF IndexNext

(* The queue is drained when m_finished is set.                            *)
THEOREM DrainedInvariant == IndexSpec => []Drained
<1>1. IndexInit => Drained
  BY DEF IndexInit, Init, Drained
<1>2. Drained /\ [IndexNext]_allVars => Drained'
  BY StepHolds
<1>3. QED
  BY <1>1, <1>2, PTL DEF IndexSpec

(* After SimpleIndex::StopIndex (SimpleIndex.cpp:373-387) the recycler     *)
(* frees nothing any more, and nothing waits for it to.                    *)
THEOREM Stopped == IndexSpec => []StoppedIsDrained
<1>1. Drained => StoppedIsDrained
  BY DEF Drained, StoppedIsDrained
<1>2. QED
  BY <1>1, DrainedInvariant, PTL

-----------------------------------------------------------------------------
(* The shard, when its queue may refuse: the lists that it has refused are *)
(* the ones that the invariant of Shard calls lost.                        *)

LEMMA ShardStep ==
  ASSUME IInv(leaked), [Next]_vars, leaked' = leaked
  PROVE  IInv(leaked)'
<1>1. PICK lost : lost = leaked
  OBVIOUS
<1>2. IInv(lost)'
  BY <1>1, NextIInv
<1>3. QED
  BY <1>1, <1>2

(* A list that is refused was with its thread, and stays a list that the   *)
(* recycler will not free.                                                 *)
LEMMA RefuseIInv ==
  ASSUME NEW lost, IInv(lost), NEW t \in Worker, Refuse(t),
         NEW more, lost = leaked, more = leaked'
  PROVE  IInv(more)'
<1> USE Kinds
<1>0. /\ pc[t] = "schedule" /\ pc' = [pc EXCEPT ![t] = "idle"]
      /\ more = lost \cup {old[t]}
      /\ old' = [old EXCEPT ![t] = None] /\ handle' = [handle EXCEPT ![t] = None]
      /\ m_slicesLock' = IF t \in Adder THEN None ELSE m_slicesLock
      /\ m_deleteDocumentLock' = IF t \in Deleter THEN None ELSE m_deleteDocumentLock
      /\ tokens' = tokens \ {t}
      /\ blockers' = [l \in List |-> blockers[l] \ {t}]
      /\ UNCHANGED <<slices, count, active, indexed, lists, contents, m_sliceBuffers,
                     m_activeSlice, victim, m_queue, recycling, seen>>
  BY DEF Refuse, ThrowItAway, Goto, sliceVars, listVars
<1>1. TypeOK'
  BY <1>0 DEF IInv, TypeOK, PC
<1>2. Places'
  BY <1>0, Typed DEF IInv, Places, HasSpace
<1>3. Columns'
  BY <1>0, Typed DEF IInv, Columns, InUse, Allocated, Recyclable, IsExpired
<1>4. Counts'
  <2>1. \A u \in Worker : \/ pc'[u] = pc[u] /\ handle'[u] = handle[u]
                          \/ ~InUse(u) /\ ~InUse(u)'
    BY <1>0, Typed DEF IInv, InUse
  <2>2. QED
    BY <1>0, <2>1, CountsFrame
<1>5. /\ old[t] \in List /\ old[t] \in Retired /\ old[t] \notin Queued
      /\ old[t] # recycling /\ old \in [Worker -> List \cup {None}]
      /\ \A u \in Worker : u # t => old[u] # old[t]
  BY <1>0, Typed DEF IInv, Places, Lists, Retired, Held
<1>6. Held' = Held \ {old[t]} /\ Queued' = Queued
  BY <1>0, <1>5 DEF Held, Queued
<1>7. Retired' = Retired \ {old[t]} /\ Gone(more)' = Gone(lost)
  BY <1>0, <1>5, <1>6 DEF Retired, Gone
<1>8. Lists(more)'
  <2>1. /\ \A u \in Worker : old'[u] # None => old'[u] \notin Queued' /\ old'[u] # recycling'
        /\ \A u, w \in Worker : u # w /\ old'[u] # None => old'[u] # old'[w]
    BY <1>0, <1>5, <1>6 DEF IInv, Lists
  <2>2. Retired' \cap more = {}
    BY <1>0, <1>7 DEF IInv, Lists
  <2>3. PICK G : G = Gone(lost) /\ G = Gone(more)'
    BY <1>7
  <2>4. /\ m_sliceBuffers' \notin G /\ lists' = G \cup {m_sliceBuffers'}
        /\ slices' = contents'[m_sliceBuffers'] \cup ({victim'[l] : l \in G} \ {None})
        /\ \A l \in G : victim'[l] \notin contents'[m_sliceBuffers']
        /\ \A k, l \in G : k # l /\ victim'[k] # None => victim'[k] # victim'[l]
    <3>1. /\ m_sliceBuffers \notin G /\ lists = G \cup {m_sliceBuffers}
          /\ slices = contents[m_sliceBuffers] \cup ({victim[l] : l \in G} \ {None})
          /\ \A l \in G : victim[l] \notin contents[m_sliceBuffers]
          /\ \A k, l \in G : k # l /\ victim[k] # None => victim[k] # victim[l]
      BY <2>3 DEF IInv, Lists
    <3>2. QED
      BY <1>0, <3>1
  <2>5. /\ \A i, j \in 1 .. Len(m_queue') : m_queue'[i] = m_queue'[j] => i = j
        /\ recycling' \notin Queued'
    BY <1>0, <1>6 DEF IInv, Lists
  <2>6. QED
    BY <2>1, <2>2, <2>3, <2>4, <2>5 DEF Lists
<1>9. \A r \in Reader : r # t
  OBVIOUS
<1>10. ASSUME NEW r \in Reader, NEW l, Guards(lost, r, l)
       PROVE  Guards(more, r, l)'
  <2>1. l \in Gone(more)' /\ l \in List
    BY <1>7, <1>10 DEF Guards, IInv, TypeOK, Lists
  <2>2. QED
    BY <1>0, <1>9, <1>10, <2>1, Typed DEF Guards, IInv
<1>11. Readers(more)'
  <2>1. PICK G : G = Gone(lost) /\ G = Gone(more)'
    BY <1>7
  <2>2. ASSUME NEW r \in Reader, pc'[r] = "reading"
        PROVE  /\ seen[r] = m_sliceBuffers \/ Guards(lost, r, seen[r])
               /\ \A s \in contents[seen[r]] :
                    \/ s \in contents[m_sliceBuffers]
                    \/ \E l \in G : Guards(lost, r, l) /\ victim[l] = s
    <3>1. pc[r] = "reading"
      BY <1>0, <1>9, <2>2, Typed DEF IInv
    <3>2. QED
      BY <2>1, <3>1 DEF IInv, Readers
  <2>3. ASSUME NEW r \in Reader, pc'[r] = "reading"
        PROVE  (/\ seen[r] = m_sliceBuffers \/ Guards(more, r, seen[r])
                /\ \A s \in contents[seen[r]] :
                     \/ s \in contents[m_sliceBuffers]
                     \/ \E l \in Gone(more) : Guards(more, r, l) /\ victim[l] = s)'
    <3>1. PICK k, list : k = seen[r] /\ list = m_sliceBuffers
      OBVIOUS
    <3>2. k = list \/ Guards(more, r, k)'
      BY <1>10, <2>2, <2>3, <3>1
    <3>3. ASSUME NEW s \in contents[k], s \notin contents[list]
          PROVE  \E l \in G : Guards(more, r, l)' /\ victim[l] = s
      <4>1. PICK l \in G : Guards(lost, r, l) /\ victim[l] = s
        BY <2>2, <2>3, <3>1, <3>3
      <4>2. Guards(more, r, l)'
        BY <1>10, <4>1
      <4>3. QED
        BY <4>1, <4>2
    <3>4. UNCHANGED <<seen, contents, m_sliceBuffers, victim>>
      BY <1>0
    <3>5. QED
      BY <2>1, <3>1, <3>2, <3>3, <3>4
  <2>4. QED
    BY <2>3 DEF Readers
<1>12. QED
  BY <1>1, <1>2, <1>3, <1>4, <1>8, <1>11 DEF IInv

LEMMA WhatHappens ==
  ASSUME [IndexNext]_allVars
  PROVE  \/ [Next]_vars /\ leaked' = leaked
         \/ \E t \in Worker : Refuse(t)
<1> USE Kinds
<1>1. ASSUME NEW a \in Adder, IndexAdd(a)
      PROVE  (Add(a) /\ leaked' = leaked) \/ Refuse(a)
  BY <1>1 DEF IndexAdd, Add, AllocateBlock, Accept, indexVars
<1>2. ASSUME NEW d \in Deleter, IndexDelete(d)
      PROVE  (Delete(d) /\ leaked' = leaked) \/ Refuse(d)
  BY <1>2 DEF IndexDelete, Delete, TakesBack, Accept, indexVars
<1>3. CASE RecyclerThread
  BY <1>3 DEF RecyclerThread, TryDequeue, DeleteRetired, EndThread, Next, Recycler
<1>4. CASE StopIndex
  BY <1>4 DEF StopIndex, Shutdown, Spin, Join
<1>5. CASE UNCHANGED allVars
  BY <1>5 DEF allVars, indexVars
<1>6. QED
  BY <1>1, <1>2, <1>3, <1>4, <1>5 DEF IndexNext, Next

(* The shard's invariant, with what the queue has refused.                 *)
THEOREM ShardInvariant == IndexSpec => []IInv(leaked)
<1>1. IndexInit => IInv(leaked)
  BY InitIInv DEF IndexInit
<1>2. IInv(leaked) /\ [IndexNext]_allVars => IInv(leaked)'
  <2>1. ASSUME IInv(leaked), NEW t \in Worker, Refuse(t)
        PROVE  IInv(leaked)'
    <3>1. PICK lost, more : lost = leaked /\ more = leaked'
      OBVIOUS
    <3>2. IInv(more)'
      BY <2>1, <3>1, RefuseIInv
    <3>3. QED
      BY <3>1, <3>2
  <2>2. QED
    BY <2>1, WhatHappens, ShardStep
<1>3. QED
  BY <1>1, <1>2, PTL DEF IndexSpec

(* Nothing is freed while it is in use, also while the index stops and     *)
(* calls are refused half way (Shard.h:103-106, 284-287).                  *)
THEOREM NothingFreedAtAll == IndexSpec => []NothingFreedInUse
<1>1. IInv(leaked) => NothingFreedInUse
  <2>1. PICK lost : lost = leaked
    OBVIOUS
  <2>2. QED
    BY <2>1, IInvNothingFreed
<1>2. QED
  BY <1>1, ShardInvariant, PTL

(* No assertion of the slices fails either, whatever has been refused.     *)
THEOREM NoAssertionFailsAtAll == IndexSpec => []AssertionsHold
<1>1. IInv(leaked) => AssertionsHold
  <2>1. PICK lost : lost = leaked
    OBVIOUS
  <2>2. QED
    BY <2>1, IInvAssertions
<1>2. QED
  BY <1>1, ShardInvariant, PTL

(* What the map contains is served until the end, and after it.            *)
THEOREM ServedAtAll == IndexSpec => []IndexedIsServed
<1>1. IInv(leaked) => IndexedIsServed
  <2>1. PICK lost : lost = leaked
    OBVIOUS
  <2>2. IInv(lost) => IndexedIsServed
    BY DEF IInv, Columns, Allocated, IndexedIsServed
  <2>3. QED
    BY <2>1, <2>2
<1>2. QED
  BY <1>1, ShardInvariant, PTL

-----------------------------------------------------------------------------
(* The blocks                                                              *)

Blocks ==
  /\ blockCount \in Slice
  /\ m_freeList \in Seq(1 .. blockCount)
  /\ \A i, j \in 1 .. Len(m_freeList) : m_freeList[i] = m_freeList[j] => i = j
  /\ Free \cap slices = {} /\ Free \cup slices = 1 .. blockCount
  /\ leaked # {} => m_shutdown

LEMMA BlocksFrame ==
  ASSUME Blocks, UNCHANGED <<slices, blockCount, m_freeList, leaked>>,
         m_shutdown => m_shutdown'
  PROVE  Blocks'
BY DEF Blocks, Free

LEMMA BlockCountIsNat ==
  ASSUME Blocks
  PROVE  blockCount \in Nat
<1>1. Cardinality(Slice) \in Nat
  BY IndexAssumption, FS_CardinalityType
<1>2. QED
  BY <1>1, IndexAssumption DEF Blocks

LEMMA InitBlocks == IndexInit => Blocks
<1> SUFFICES ASSUME IndexInit PROVE Blocks
  OBVIOUS
<1>1. Cardinality(Slice) \in Nat
  BY IndexAssumption, FS_CardinalityType
<1>2. blockCount \in Slice /\ blockCount \in Nat
  BY <1>1, IndexAssumption DEF IndexInit
<1>3. /\ m_freeList \in Seq(1 .. blockCount) /\ Len(m_freeList) = blockCount
      /\ \A i \in 1 .. blockCount : m_freeList[i] = i
  BY <1>2 DEF IndexInit
<1>4. Free = 1 .. blockCount
  BY <1>2, <1>3 DEF Free
<1>5. QED
  BY <1>2, <1>3, <1>4 DEF Blocks, IndexInit, Init

(* The first of the free blocks is taken.                                  *)
LEMMA TakeFirst ==
  ASSUME NEW S, NEW q \in Seq(S), q # << >>,
         \A i, j \in 1 .. Len(q) : q[i] = q[j] => i = j
  PROVE  /\ Head(q) \in {q[i] : i \in 1 .. Len(q)} /\ Tail(q) \in Seq(S)
         /\ {Tail(q)[i] : i \in 1 .. Len(Tail(q))} = {q[i] : i \in 1 .. Len(q)} \ {Head(q)}
         /\ \A i, j \in 1 .. Len(Tail(q)) : Tail(q)[i] = Tail(q)[j] => i = j
<1>1. /\ Len(q) \in Nat \ {0} /\ Head(q) = q[1] /\ Tail(q) \in Seq(S)
      /\ Len(Tail(q)) = Len(q) - 1
      /\ \A i \in 1 .. Len(q) - 1 : Tail(q)[i] = q[i + 1]
  OBVIOUS
<1>2. \A i \in 1 .. Len(q) - 1 : i + 1 \in 1 .. Len(q) /\ i + 1 # 1
  BY <1>1
<1>3. \A i, j \in 1 .. Len(Tail(q)) : Tail(q)[i] = Tail(q)[j] => i = j
  BY <1>1, <1>2
<1>4. ASSUME NEW x \in {q[i] : i \in 1 .. Len(q)}, x # Head(q)
      PROVE  x \in {Tail(q)[i] : i \in 1 .. Len(Tail(q))}
  <2>1. PICK i \in 1 .. Len(q) : x = q[i]
    OBVIOUS
  <2>2. i # 1 /\ i - 1 \in 1 .. Len(q) - 1 /\ (i - 1) + 1 = i
    BY <1>1, <1>4, <2>1
  <2>3. x = Tail(q)[i - 1]
    BY <1>1, <2>1, <2>2
  <2>4. QED
    BY <1>1, <2>2, <2>3
<1>5. ASSUME NEW i \in 1 .. Len(Tail(q))
      PROVE  Tail(q)[i] \in {q[j] : j \in 1 .. Len(q)} \ {Head(q)}
  <2>1. i \in 1 .. Len(q) - 1 /\ i + 1 \in 1 .. Len(q) /\ i + 1 # 1 /\ 1 \in 1 .. Len(q)
    BY <1>1, <1>2
  <2>2. Tail(q)[i] = q[i + 1] /\ q[i + 1] # q[1]
    BY <1>1, <2>1
  <2>3. QED
    BY <1>1, <2>1, <2>2
<1>6. Head(q) \in {q[i] : i \in 1 .. Len(q)}
  BY <1>1
<1>7. {Tail(q)[i] : i \in 1 .. Len(Tail(q))} = {q[i] : i \in 1 .. Len(q)} \ {Head(q)}
  BY <1>4, <1>5
<1>8. QED
  BY <1>1, <1>3, <1>6, <1>7

(* A block is put in front of the free ones.                               *)
LEMMA PutFirst ==
  ASSUME NEW S, NEW q \in Seq(S), NEW x \in S, x \notin {q[i] : i \in 1 .. Len(q)},
         \A i, j \in 1 .. Len(q) : q[i] = q[j] => i = j
  PROVE  /\ <<x>> \o q \in Seq(S)
         /\ {(<<x>> \o q)[i] : i \in 1 .. Len(<<x>> \o q)} = {q[i] : i \in 1 .. Len(q)} \cup {x}
         /\ \A i, j \in 1 .. Len(<<x>> \o q) : (<<x>> \o q)[i] = (<<x>> \o q)[j] => i = j
<1> DEFINE p == <<x>> \o q
<1>1. /\ p \in Seq(S) /\ Len(q) \in Nat /\ Len(p) = Len(q) + 1 /\ p[1] = x
      /\ \A i \in 2 .. Len(q) + 1 : p[i] = q[i - 1]
  OBVIOUS
<1> HIDE DEF p
<1>2. \A i \in 1 .. Len(p) : i = 1 \/ (i - 1 \in 1 .. Len(q) /\ p[i] = q[i - 1])
  BY <1>1
<1>3. ASSUME NEW i \in 1 .. Len(q) PROVE i + 1 \in 1 .. Len(p) /\ p[i + 1] = q[i]
  <2>1. i + 1 \in 2 .. Len(q) + 1 /\ (i + 1) - 1 = i
    BY <1>1
  <2>2. p[i + 1] = q[(i + 1) - 1]
    BY <1>1, <2>1
  <2>3. QED
    BY <1>1, <2>1, <2>2
<1>4. ASSUME NEW i \in 1 .. Len(p), NEW j \in 1 .. Len(p), p[i] = p[j]
      PROVE  i = j
  <2>1. ASSUME NEW k \in 1 .. Len(p), k # 1 PROVE p[k] # x
    BY <1>2, <2>1
  <2>2. CASE i = 1 \/ j = 1
    BY <1>1, <1>4, <2>1, <2>2
  <2>3. CASE i # 1 /\ j # 1
    <3>1. /\ i - 1 \in 1 .. Len(q) /\ j - 1 \in 1 .. Len(q)
          /\ q[i - 1] = q[j - 1]
      BY <1>2, <1>4, <2>3
    <3>2. i - 1 = j - 1
      BY <3>1
    <3>3. QED
      BY <1>1, <3>2
  <2>4. QED
    BY <2>2, <2>3
<1>5. {p[i] : i \in 1 .. Len(p)} \subseteq {q[i] : i \in 1 .. Len(q)} \cup {x}
  <2>1. ASSUME NEW i \in 1 .. Len(p) PROVE p[i] \in {q[j] : j \in 1 .. Len(q)} \cup {x}
    <3>1. CASE i = 1
      BY <1>1, <3>1
    <3>2. CASE i - 1 \in 1 .. Len(q) /\ p[i] = q[i - 1]
      BY <3>2
    <3>3. QED
      BY <1>2, <3>1, <3>2
  <2>2. QED
    BY <2>1
<1>6. {q[i] : i \in 1 .. Len(q)} \cup {x} \subseteq {p[i] : i \in 1 .. Len(p)}
  BY <1>1, <1>3
<1>7. QED
  BY <1>1, <1>4, <1>5, <1>6 DEF p

LEMMA AllocateBlocks ==
  ASSUME Blocks, NEW a, AllocateBlock(a)
  PROVE  Blocks'
<1>1. PICK s \in Slice \ slices : slices' = slices \cup {s} /\ m_activeSlice' = s
  BY DEF AllocateBlock, CreateNewActiveSlice
<1>2. /\ m_freeList # << >> /\ s = Head(m_freeList) /\ m_freeList' = Tail(m_freeList)
      /\ UNCHANGED <<blockCount, leaked, m_shutdown>>
  BY <1>1 DEF AllocateBlock
<1>3. /\ s \in Free /\ Free' = Free \ {s} /\ m_freeList' \in Seq(1 .. blockCount)
      /\ \A i, j \in 1 .. Len(m_freeList') : m_freeList'[i] = m_freeList'[j] => i = j
  BY <1>2, TakeFirst DEF Blocks, Free
<1>4. QED
  BY <1>1, <1>2, <1>3 DEF Blocks

LEMMA DeleteBlocks ==
  ASSUME IInv(leaked), Blocks, DeleteRetired
  PROVE  Blocks'
<1> USE Kinds
<1>1. PICK v : v = victim[recycling]
  OBVIOUS
<1>2. /\ slices' = slices \ {v}
      /\ m_freeList' = IF v = None THEN m_freeList ELSE <<v>> \o m_freeList
      /\ UNCHANGED <<blockCount, leaked, m_shutdown>>
  BY <1>1 DEF DeleteRetired, Recycle
<1>3. None \notin slices
  BY DEF IInv, TypeOK
<1>4. v # None => v \in slices
  BY <1>1 DEF DeleteRetired, Recycle, IInv, Lists, Gone, Retired
<1>5. CASE v = None
  BY <1>2, <1>3, <1>5, BlocksFrame
<1>6. CASE v # None
  <2>1. v \in 1 .. blockCount /\ v \notin Free
    BY <1>4, <1>6 DEF Blocks
  <2>2. /\ Free' = Free \cup {v} /\ m_freeList' \in Seq(1 .. blockCount)
        /\ \A i, j \in 1 .. Len(m_freeList') : m_freeList'[i] = m_freeList'[j] => i = j
    BY <1>2, <1>6, <2>1, PutFirst DEF Blocks, Free
  <2>3. QED
    BY <1>2, <1>4, <1>6, <2>1, <2>2 DEF Blocks
<1>7. QED
  BY <1>5, <1>6

LEMMA StepBlocks ==
  ASSUME IInv(leaked), Blocks, [IndexNext]_allVars
  PROVE  Blocks'
<1>1. ASSUME NEW a \in Adder, IndexAdd(a) PROVE Blocks'
  <2>1. CASE AllocateBlock(a)
    BY <2>1, AllocateBlocks
  <2>2. CASE Refuse(a)
    BY <2>2 DEF Refuse, ThrowItAway, sliceVars, Blocks, Free
  <2>3. CASE Accept(a) \/ (/\ \/ AllocateDocument(a) \/ StartTracker(a) \/ IngestThrows(a)
                             \/ Activate(a) \/ CommitDocument(a) \/ MapAdd(a)
                          /\ UNCHANGED indexVars)
    <3>1. UNCHANGED <<slices, indexVars>>
      BY <2>3 DEF Accept, FinishNewSlice, FinishRecycleSlice, AllocateDocument, StartTracker,
                  IngestThrows, Activate, CommitDocument, MapAdd, sliceVars
    <3>2. QED
      BY <3>1, BlocksFrame DEF indexVars
  <2>4. QED
    BY <1>1, <2>1, <2>2, <2>3 DEF IndexAdd
<1>2. ASSUME NEW d \in Deleter, IndexDelete(d) PROVE Blocks'
  <2>1. CASE Refuse(d)
    BY <2>1 DEF Refuse, ThrowItAway, sliceVars, Blocks, Free
  <2>2. CASE ~Refuse(d)
    <3>1. UNCHANGED <<slices, indexVars>>
      BY <1>2, <2>2 DEF IndexDelete, TakesBack, Accept, FinishNewSlice, FinishRecycleSlice,
           RecycleSlice, RequestToken, NotFound, FindAndForget, ClearActiveBit,
           ExpireDocument, StartTracker, Unlock, EndDelete, sliceVars
    <3>2. QED
      BY <3>1, BlocksFrame DEF indexVars
  <2>3. QED
    BY <2>1, <2>2
<1>3. CASE RecyclerThread
  <2>1. CASE TryDequeue
    BY <2>1, BlocksFrame DEF TryDequeue, TakeItem, sliceVars
  <2>2. CASE EndThread
    BY <2>2, BlocksFrame DEF EndThread, vars, sliceVars
  <2>3. QED
    BY <1>3, <2>1, <2>2, DeleteBlocks DEF RecyclerThread
<1>4. CASE StopIndex
  BY <1>4, BlocksFrame DEF StopIndex, Shutdown, Spin, Join, vars, sliceVars
<1>5. CASE UNCHANGED allVars
  BY <1>5, BlocksFrame DEF allVars, vars, sliceVars, indexVars
<1>6. QED
  BY <1>1, <1>2, <1>3, <1>4, <1>5 DEF IndexNext

(* The blocks on the free list are as many as its length.                  *)
LEMMA FreeCounted ==
  ASSUME Blocks
  PROVE  Cardinality(Free) = Len(m_freeList)
<1> DEFINE n == Len(m_freeList)
           f == [i \in 1 .. n |-> m_freeList[i]]
<1>1. n \in Nat
  BY DEF Blocks
<1>2. f \in Bijection(1 .. n, Free)
  <2>1. f \in Injection(1 .. n, Free)
    BY DEF Blocks, Free, Injection, IsInjective
  <2>2. f \in Surjection(1 .. n, Free)
    BY DEF Free, Surjection
  <2>3. QED
    BY <2>1, <2>2 DEF Bijection
<1>3. IsFiniteSet(1 .. n) /\ Cardinality(1 .. n) = n
  <2>1. IsFiniteSet(1 .. n) /\ Cardinality(1 .. n) = IF 1 > n THEN 0 ELSE n - 1 + 1
    BY <1>1, FS_Interval, SMTT(20)
  <2> HIDE DEF n
  <2>2. QED
    BY <1>1, <2>1
<1>4. ExistsBijection(1 .. n, Free)
  BY <1>2 DEF ExistsBijection
<1>5. QED
  BY <1>3, <1>4, FS_Bijection

(* Every block is free or holds a slice that is on the list or retired     *)
(* with one list; only what is refused, when the index stops, is lost.     *)
THEOREM NoBlockIsLost == IndexSpec => []BlocksAccounted
<1>1. IInv(leaked) /\ Blocks => BlocksAccounted
  BY FreeCounted DEF IInv, Lists, Gone, Blocks, BlocksAccounted
<1>2. IndexInit => Blocks
  BY InitBlocks
<1>3. IInv(leaked) /\ Blocks /\ [IndexNext]_allVars => Blocks'
  BY StepBlocks
<1>4. QED
  BY <1>1, <1>2, <1>3, ShardInvariant, PTL DEF IndexSpec
=============================================================================
