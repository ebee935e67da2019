--------------------------- MODULE ShardIterator ---------------------------
(***************************************************************************)
(* Shard::ConstIterator (src/src/Index/src/Shard.cpp:538-602): a walk over *)
(* the slices that were on the list when the iterator was made, while      *)
(* other threads add and delete documents.  The token that the iterator    *)
(* holds keeps list and slices alive: see module Shard.                    *)
(***************************************************************************)
EXTENDS Naturals, Sequences

CONSTANTS
  Slice,
  m_sliceCapacity

(* A parameter of the constructor; whoever instantiates the module has it. *)
IteratorAssumption == m_sliceCapacity \in Nat \ {0}

VARIABLES
  active,             \* the columns whose document active bit is set
  m_sliceBuffers,     \* the list of slices: the snapshot
  m_sliceIndex, m_sliceOffset,
  pc,
  visited,            \* history: the columns at which the iterator stopped
  stable              \* history: columns active ever since the walk began

vars == <<active, m_sliceBuffers, m_sliceIndex, m_sliceOffset, pc, visited, stable>>

Position == Slice \X (0 .. m_sliceCapacity - 1)
OnList(h) == \E i \in 1 .. Len(m_sliceBuffers) : m_sliceBuffers[i] = h[1]

Init ==
  /\ active \in SUBSET Position
  /\ m_sliceBuffers \in Seq(Slice)
  /\ \A i, j \in 1 .. Len(m_sliceBuffers) :     \* each slice once
       m_sliceBuffers[i] = m_sliceBuffers[j] => i = j
  /\ m_sliceIndex = 0 /\ m_sliceOffset = 0
  /\ pc = "search"                  \* the constructor calls EnsureActive
  /\ visited = {}
  /\ stable = active

AtEnd == m_sliceIndex >= Len(m_sliceBuffers)
Here == <<m_sliceBuffers[m_sliceIndex + 1], m_sliceOffset>>

(* EnsureActive: one column at a time, as its bit is read, until an active *)
(* one is found; the slices in turn.                                       *)
StopHere ==
  /\ pc = "search" /\ ~AtEnd /\ m_sliceOffset < m_sliceCapacity
  /\ Here \in active
  /\ pc' = "at"
  /\ visited' = visited \cup {Here}
  /\ UNCHANGED <<active, m_sliceBuffers, m_sliceIndex, m_sliceOffset, stable>>

SkipTwo ==                  \* mutated form: jumps over a column
  /\ pc = "search" /\ ~AtEnd /\ m_sliceOffset + 1 < m_sliceCapacity
  /\ Here \notin active
  /\ m_sliceOffset' = m_sliceOffset + 2
  /\ UNCHANGED <<active, m_sliceBuffers, m_sliceIndex, pc, visited, stable>>

SkipInactive ==
  /\ pc = "search" /\ ~AtEnd /\ m_sliceOffset < m_sliceCapacity
  /\ Here \notin active
  /\ m_sliceOffset' = m_sliceOffset + 1
  /\ UNCHANGED <<active, m_sliceBuffers, m_sliceIndex, pc, visited, stable>>

NextSlice ==
  /\ pc = "search" /\ ~AtEnd /\ m_sliceOffset >= m_sliceCapacity
  /\ m_sliceIndex' = m_sliceIndex + 1
  /\ UNCHANGED <<active, m_sliceBuffers, m_sliceOffset, pc, visited, stable>>

ReachEnd ==
  /\ pc = "search" /\ AtEnd
  /\ pc' = "end"
  /\ UNCHANGED <<active, m_sliceBuffers, m_sliceIndex, m_sliceOffset, visited, stable>>

(* operator++                                                              *)
IncrementNothing ==         \* mutated form: stays where it is
  /\ pc = "at"
  /\ pc' = "search"
  /\ UNCHANGED <<active, m_sliceBuffers, m_sliceIndex, m_sliceOffset, visited, stable>>

Increment ==
  /\ pc = "at"
  /\ m_sliceOffset' = m_sliceOffset + 1
  /\ pc' = "search"
  /\ UNCHANGED <<active, m_sliceBuffers, m_sliceIndex, visited, stable>>

(* Other threads activate and expire documents.                            *)
Activate(h) ==
  /\ active' = active \cup {h}
  /\ UNCHANGED <<m_sliceBuffers, m_sliceIndex, m_sliceOffset, pc, visited, stable>>

Expire(h) ==
  /\ active' = active \ {h}
  /\ stable' = stable \ {h}
  /\ UNCHANGED <<m_sliceBuffers, m_sliceIndex, m_sliceOffset, pc, visited>>

Walk == StopHere \/ SkipInactive \/ NextSlice \/ ReachEnd \/ Increment

Next == Walk \/ \E h \in Position : Activate(h) \/ Expire(h)

Spec == Init /\ [][Next]_vars

-----------------------------------------------------------------------------
TypeOK ==
  /\ active \subseteq Position
  /\ m_sliceBuffers \in Seq(Slice)
  /\ m_sliceIndex \in 0 .. Len(m_sliceBuffers) /\ m_sliceOffset \in 0 .. m_sliceCapacity
  /\ pc \in {"search", "at", "end"}
  /\ visited \subseteq Position /\ stable \subseteq active

(* Shard.h:120-122: the iterator goes to every document that is active     *)
(* from its beginning to its end, in the slices that it found.             *)
Complete == pc = "end" => \A h \in stable : OnList(h) => h \in visited

(* Within the first slice it does.                                         *)
FirstSliceComplete ==
  \A h \in stable :
    /\ Len(m_sliceBuffers) > 0 /\ h[1] = m_sliceBuffers[1]
    /\ pc = "end" \/ h[2] < m_sliceOffset
    => h \in visited

(* No document is seen twice, whatever is added and deleted meanwhile.     *)
NeverTwice == [][StopHere => Here \notin visited]_vars
=============================================================================
