------------------------ MODULE ShardIteratorProofs ------------------------
(***************************************************************************)
(* A walk stops at no document twice, and at every document of its first   *)
(* slice that is active all along: for any slices of any capacity, and     *)
(* whatever is added and deleted meanwhile.                                *)
(***************************************************************************)
EXTENDS ShardIterator, TLAPS

(* No slice is on the list twice.                                          *)
Distinct ==
  \A i, j \in 1 .. Len(m_sliceBuffers) :
    m_sliceBuffers[i] = m_sliceBuffers[j] => i = j

(* What has been visited lies behind the iterator, or is where it stands.  *)
Passed(h, i) ==
  \/ i < m_sliceIndex + 1
  \/ i = m_sliceIndex + 1 /\ h[2] < m_sliceOffset
  \/ i = m_sliceIndex + 1 /\ h[2] = m_sliceOffset /\ pc = "at"
VisitedIsPassed ==
  \A h \in visited : \E i \in 1 .. Len(m_sliceBuffers) :
    m_sliceBuffers[i] = h[1] /\ Passed(h, i)

(* Where the iterator stands there is a column; and it keeps its offset    *)
(* when it leaves a slice.                                                 *)
Standing ==
  pc = "at" => ~AtEnd /\ m_sliceOffset < m_sliceCapacity /\ Here \in visited
OffsetKept == m_sliceIndex > 0 => m_sliceOffset = m_sliceCapacity

IInv == TypeOK /\ Distinct /\ VisitedIsPassed /\ Standing /\ OffsetKept /\ FirstSliceComplete

LEMMA HereIsAPosition ==
  ASSUME IteratorAssumption, TypeOK, ~AtEnd, m_sliceOffset < m_sliceCapacity
  PROVE  Here \in Position /\ m_sliceIndex + 1 \in 1 .. Len(m_sliceBuffers)
<1>1. m_sliceIndex + 1 \in 1 .. Len(m_sliceBuffers)
  BY DEF TypeOK, AtEnd
<1>2. m_sliceBuffers[m_sliceIndex + 1] \in Slice
  BY <1>1 DEF TypeOK
<1>3. m_sliceOffset \in 0 .. m_sliceCapacity - 1
  BY DEF TypeOK, IteratorAssumption
<1>4. QED
  BY <1>1, <1>2, <1>3 DEF Here, Position

LEMMA InitHolds ==
  ASSUME IteratorAssumption, Init
  PROVE  IInv
<1>1. TypeOK
  BY DEF Init, TypeOK, IteratorAssumption
<1>2. Distinct /\ VisitedIsPassed /\ Standing /\ OffsetKept
  BY DEF Init, Distinct, VisitedIsPassed, Standing, OffsetKept
<1>3. FirstSliceComplete
  BY DEF Init, FirstSliceComplete, Position
<1>4. QED
  BY <1>1, <1>2, <1>3 DEF IInv

(* The walk does not stop where it has been.                               *)
LEMMA StopIsNew ==
  ASSUME IteratorAssumption, IInv, StopHere
  PROVE  Here \notin visited
<1>1. Here \in Position /\ m_sliceIndex + 1 \in 1 .. Len(m_sliceBuffers)
  BY HereIsAPosition DEF IInv, StopHere
<1>2. SUFFICES ASSUME Here \in visited PROVE FALSE
  OBVIOUS
<1>3. PICK i \in 1 .. Len(m_sliceBuffers) :
        m_sliceBuffers[i] = Here[1] /\ Passed(Here, i)
  BY <1>2 DEF IInv, VisitedIsPassed
<1>4. Here[1] = m_sliceBuffers[m_sliceIndex + 1] /\ Here[2] = m_sliceOffset
  BY DEF Here
<1>5. i = m_sliceIndex + 1
  BY <1>1, <1>3, <1>4 DEF IInv, Distinct
<1>6. m_sliceOffset \in Nat /\ m_sliceIndex \in Nat
  BY DEF IInv, TypeOK
<1>7. QED
  BY <1>3, <1>4, <1>5, <1>6 DEF Passed, StopHere

LEMMA StepHolds ==
  ASSUME IteratorAssumption, IInv, [Next]_vars
  PROVE  IInv'
<1>0. /\ m_sliceOffset \in 0 .. m_sliceCapacity /\ m_sliceCapacity \in Nat \ {0}
      /\ m_sliceIndex \in 0 .. Len(m_sliceBuffers) /\ Len(m_sliceBuffers) \in Nat
      /\ visited \subseteq Position /\ stable \subseteq active /\ active \subseteq Position
  BY DEF IInv, TypeOK, IteratorAssumption
<1>1. CASE StopHere
  <2>1. Here \in Position /\ m_sliceIndex + 1 \in 1 .. Len(m_sliceBuffers)
    BY <1>1, HereIsAPosition DEF IInv, StopHere
  <2>2. TypeOK'
    BY <1>1, <2>1 DEF IInv, TypeOK, StopHere
  <2>3. Distinct' /\ OffsetKept' /\ Standing'
    BY <1>1, <2>1 DEF IInv, Distinct, OffsetKept, Standing, StopHere, AtEnd, Here
  <2>4. VisitedIsPassed'
    <3>1. ASSUME NEW h \in visited
          PROVE  \E i \in 1 .. Len(m_sliceBuffers) :
                   m_sliceBuffers[i] = h[1] /\ Passed(h, i)'
      BY <1>1, <3>1 DEF IInv, VisitedIsPassed, Passed, StopHere
    <3>2. PICK c, k : c = Here /\ k = m_sliceIndex + 1
      OBVIOUS
    <3>3. m_sliceBuffers[k] = c[1] /\ Passed(c, k)'
      BY <1>1, <3>2 DEF Here, Passed, StopHere
    <3>4. k \in 1 .. Len(m_sliceBuffers) /\ visited' = visited \cup {c}
      BY <1>1, <2>1, <3>2 DEF StopHere
    <3>5. m_sliceBuffers' = m_sliceBuffers
      BY <1>1 DEF StopHere
    <3>6. QED
      BY <3>1, <3>3, <3>4, <3>5 DEF VisitedIsPassed
  <2>5. FirstSliceComplete'
    BY <1>1 DEF IInv, FirstSliceComplete, StopHere
  <2>6. QED
    BY <2>2, <2>3, <2>4, <2>5 DEF IInv
<1>2. CASE SkipInactive
  <2>1. Here \in Position /\ Here \notin stable
    BY <1>0, <1>2, HereIsAPosition DEF IInv, SkipInactive
  <2>2. TypeOK' /\ Distinct' /\ Standing' /\ OffsetKept'
    BY <1>0, <1>2 DEF IInv, TypeOK, Distinct, Standing, OffsetKept, SkipInactive
  <2>3. VisitedIsPassed'
    BY <1>0, <1>2 DEF IInv, VisitedIsPassed, Passed, Position, SkipInactive
  <2>4. FirstSliceComplete'
    <3>1. m_sliceIndex = 0
      BY <1>0, <1>2 DEF IInv, OffsetKept, SkipInactive
    <3>2. \A h \in stable : h[1] = m_sliceBuffers[1] => h[2] # m_sliceOffset
      BY <1>0, <2>1, <3>1 DEF Here, Position
    <3>3. QED
      BY <1>0, <1>2, <3>2 DEF IInv, FirstSliceComplete, Position, SkipInactive
  <2>5. QED
    BY <2>2, <2>3, <2>4 DEF IInv
<1>3. CASE NextSlice
  <2>1. TypeOK' /\ Distinct' /\ Standing' /\ OffsetKept'
    BY <1>0, <1>3 DEF IInv, TypeOK, Distinct, Standing, OffsetKept, NextSlice, AtEnd
  <2>2. VisitedIsPassed'
    BY <1>0, <1>3 DEF IInv, VisitedIsPassed, Passed, Position, NextSlice
  <2>3. FirstSliceComplete'
    BY <1>3 DEF IInv, FirstSliceComplete, NextSlice
  <2>4. QED
    BY <2>1, <2>2, <2>3 DEF IInv
<1>4. CASE ReachEnd
  <2>1. TypeOK' /\ Distinct' /\ Standing' /\ OffsetKept'
    BY <1>0, <1>4 DEF IInv, TypeOK, Distinct, Standing, OffsetKept, ReachEnd
  <2>2. VisitedIsPassed'
    BY <1>0, <1>4 DEF IInv, VisitedIsPassed, Passed, ReachEnd
  <2>3. FirstSliceComplete'
    BY <1>0, <1>4 DEF IInv, FirstSliceComplete, OffsetKept, Position, ReachEnd, AtEnd
  <2>4. QED
    BY <2>1, <2>2, <2>3 DEF IInv
<1>5. CASE Increment
  <2>1. ~AtEnd /\ m_sliceOffset < m_sliceCapacity /\ Here \in visited
    BY <1>5 DEF IInv, Standing, Increment
  <2>2. TypeOK' /\ Distinct' /\ Standing' /\ OffsetKept'
    BY <1>0, <1>5, <2>1 DEF IInv, TypeOK, Distinct, Standing, OffsetKept, Increment
  <2>3. VisitedIsPassed'
    BY <1>0, <1>5 DEF IInv, VisitedIsPassed, Passed, Position, Increment
  <2>4. FirstSliceComplete'
    <3>1. m_sliceIndex = 0
      BY <1>0, <2>1 DEF IInv, OffsetKept
    <3>2. \A h \in stable :
            h[1] = m_sliceBuffers[1] /\ h[2] = m_sliceOffset => h \in visited
      BY <1>0, <2>1, <3>1 DEF Here, Position
    <3>3. QED
      BY <1>0, <1>5, <3>2 DEF IInv, FirstSliceComplete, Position, Increment
  <2>5. QED
    BY <2>2, <2>3, <2>4 DEF IInv
<1>6. ASSUME NEW h \in Position, Activate(h) \/ Expire(h)
      PROVE  IInv'
  <2>1. TypeOK' /\ Distinct' /\ Standing' /\ OffsetKept'
    BY <1>6 DEF IInv, TypeOK, Distinct, Standing, OffsetKept, Activate, Expire, AtEnd, Here
  <2>2. VisitedIsPassed' /\ FirstSliceComplete'
    BY <1>6 DEF IInv, VisitedIsPassed, Passed, FirstSliceComplete, Activate, Expire
  <2>3. QED
    BY <2>1, <2>2 DEF IInv
<1>7. CASE UNCHANGED vars
  BY <1>7 DEF vars, IInv, TypeOK, Distinct, VisitedIsPassed, Passed, Standing, OffsetKept,
              FirstSliceComplete, AtEnd, Here
<1>8. QED
  BY <1>1, <1>2, <1>3, <1>4, <1>5, <1>6, <1>7 DEF Next, Walk

(* What other threads do beside the walk may touch several columns at once. *)
LEMMA BesideHolds ==
  ASSUME IInv, active' \subseteq Position, stable' \subseteq stable, stable' \subseteq active',
         UNCHANGED <<m_sliceBuffers, m_sliceIndex, m_sliceOffset, pc, visited>>
  PROVE  IInv'
<1>1. TypeOK' /\ Distinct' /\ Standing' /\ OffsetKept'
  BY DEF IInv, TypeOK, Distinct, Standing, OffsetKept, AtEnd, Here
<1>2. VisitedIsPassed'
  BY DEF IInv, VisitedIsPassed, Passed
<1>3. FirstSliceComplete'
  BY DEF IInv, FirstSliceComplete
<1>4. QED
  BY <1>1, <1>2, <1>3 DEF IInv

(* The inductive invariant behind the theorems below.                      *)
THEOREM Invariant == IteratorAssumption /\ Spec => []IInv
<1>1. SUFFICES ASSUME IteratorAssumption PROVE Spec => []IInv
  OBVIOUS
<1>2. Init => IInv
  BY <1>1, InitHolds
<1>3. IInv /\ [Next]_vars => IInv'
  BY <1>1, StepHolds
<1>4. QED
  BY <1>2, <1>3, PTL DEF Spec

(* The variables keep their types; in particular the iterator never reads  *)
(* beyond the list or beyond a slice (Shard.cpp:551-568).                  *)
THEOREM TypeCorrect == IteratorAssumption /\ Spec => []TypeOK
<1>1. IInv => TypeOK
  BY DEF IInv
<1>2. QED
  BY <1>1, Invariant, PTL

(* Every document of the first slice that stays active is stopped at       *)
(* before the iterator is past it (Shard.h:120-122, as far as it is so).   *)
THEOREM FirstSlice == IteratorAssumption /\ Spec => []FirstSliceComplete
<1>1. IInv => FirstSliceComplete
  BY DEF IInv
<1>2. QED
  BY <1>1, Invariant, PTL

(* The iterator never stops at a column where it has stopped before, also  *)
(* when documents are added behind it (Shard.cpp:551-589).                 *)
THEOREM NothingTwice == IteratorAssumption /\ Spec => NeverTwice
<1>1. SUFFICES ASSUME IteratorAssumption PROVE Spec => NeverTwice
  OBVIOUS
<1>2. IInv => (StopHere => Here \notin visited)
  BY <1>1, StopIsNew
<1>3. Spec => []IInv
  BY <1>1, Invariant
<1>4. QED
  BY <1>2, <1>3, PTL DEF Spec, NeverTwice
=============================================================================
