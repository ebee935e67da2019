------------------------- MODULE TokenManagerProofs -------------------------
(***************************************************************************)
(* Proofs about TokenManager, for any set of threads and any bounds.       *)
(* The counters alone are not inductive: that StartTracker copies the      *)
(* right count depends on who is inside m_lock and how far it has got in   *)
(* the deque, and that the deque empties in order depends on the cutoffs   *)
(* of the trackers in it being sorted.                                     *)
(***************************************************************************)
EXTENDS TokenManager, FiniteSetTheorems, SequenceTheorems, TLAPS

(* At most one thread is inside OnTokenComplete with m_lock, and it starts *)
(* from the front of the deque.                                            *)
LockExclusive ==
  \A t, u \in Thread : pc[t] \in Notifying /\ pc[u] \in Notifying => t = u
PositionReset == LockFree => position = 1

(* Who is about to wake a tracker's waiters has completed the front.       *)
WakingFront ==
  \A t \in Thread : pc[t] = "waking" =>
    position = 1 /\ m_trackers # << >> /\ tracker[m_trackers[1]].remaining = 0

(* Tokens and trackers carry numbers that have been given out already.     *)
Owning == {t \in Thread : pc[t] = "holding" \/ pc[t] \in Notifying}
NumbersIssued ==
  /\ \A t \in Owning : serial[t] < m_nextSerialNumber
  /\ \A k \in DOMAIN tracker : tracker[k].cutoff <= m_nextSerialNumber

CutoffsSorted ==
  \A j, k \in DOMAIN tracker : j < k => tracker[j].cutoff <= tracker[k].cutoff

(* The deque holds the incomplete trackers, oldest first, and the one that *)
(* has just been completed and is not popped yet.                          *)
DequeSorted ==
  \A i, j \in DOMAIN m_trackers : i < j => m_trackers[i] < m_trackers[j]
Completed(k) == k = m_trackers[1] /\ \E t \in Thread : pc[t] = "waking"
DequeHoldsIncomplete ==
  \A k \in DOMAIN tracker :
    k \in Range(m_trackers) <=> (tracker[k].remaining # 0 \/ Completed(k))

IInv ==
  /\ TypeOK
  /\ LockExclusive
  /\ PositionReset
  /\ WakingFront
  /\ NumbersIssued
  /\ CutoffsSorted
  /\ CountsExact
  /\ DequeSorted
  /\ DequeHoldsIncomplete

-----------------------------------------------------------------------------
(* Only finitely many threads own tokens.                                  *)
LEMMA OlderFinite ==
  ASSUME NEW k
  PROVE  IsFiniteSet(Older(k)) /\ Cardinality(Older(k)) \in Nat
<1>1. Older(k) \subseteq Thread
  BY DEF Older
<1>2. QED
  BY <1>1, ThreadAssumption, FS_Subset, FS_CardinalityType

LEMMA TrackerTyped ==
  ASSUME TypeOK, NEW k \in DOMAIN tracker
  PROVE  /\ tracker[k] \in TrackerState /\ k \in Nat
         /\ tracker[k].cutoff \in Nat /\ tracker[k].remaining \in Nat
<1>1. tracker \in Seq(TrackerState)
  BY DEF TypeOK
<1>2. k \in 1 .. Len(tracker) /\ Len(tracker) \in Nat
  BY <1>1
<1>3. tracker[k] \in TrackerState
  BY <1>1, <1>2, ElementOfSeq
<1>4. QED
  BY <1>2, <1>3 DEF TrackerState

LEMMA DequeTyped ==
  ASSUME TypeOK
  PROVE  /\ Len(m_trackers) \in Nat /\ DOMAIN m_trackers = 1 .. Len(m_trackers)
         /\ \A j \in 1 .. Len(m_trackers) : m_trackers[j] \in DOMAIN tracker
         /\ \A j \in 1 .. Len(m_trackers) : m_trackers[j] \in Nat
         /\ \A k : k \in Range(m_trackers)
                     <=> \E j \in 1 .. Len(m_trackers) : m_trackers[j] = k
<1>1. m_trackers \in Seq(DOMAIN tracker)
  BY DEF TypeOK
<1>2. Len(m_trackers) \in Nat /\ DOMAIN m_trackers = 1 .. Len(m_trackers)
  BY <1>1
<1>3. \A j \in 1 .. Len(m_trackers) : m_trackers[j] \in DOMAIN tracker
  BY <1>1, ElementOfSeq
<1>4. \A k : k \in Range(m_trackers)
               <=> \E j \in 1 .. Len(m_trackers) : m_trackers[j] = k
  BY <1>2 DEF Range
<1>5. \A j \in 1 .. Len(m_trackers) : m_trackers[j] \in Nat
  BY <1>3, TrackerTyped
<1>6. QED
  BY <1>2, <1>3, <1>4, <1>5

(* A tracker is in the deque once.                                         *)
LEMMA DequeDistinct ==
  ASSUME TypeOK, DequeSorted,
         NEW i \in 1 .. Len(m_trackers), NEW j \in 1 .. Len(m_trackers),
         m_trackers[i] = m_trackers[j]
  PROVE  i = j
<1>1. i \in Nat /\ j \in Nat /\ m_trackers[i] \in Nat /\ m_trackers[j] \in Nat
  BY DequeTyped
<1>2. i < j => m_trackers[i] < m_trackers[j]
  BY DequeTyped DEF DequeSorted
<1>3. j < i => m_trackers[j] < m_trackers[i]
  BY DequeTyped DEF DequeSorted
<1>4. QED
  BY <1>1, <1>2, <1>3

(* Which trackers a thread has still to tell.                              *)
LEMMA UntoldNotifying ==
  ASSUME TypeOK, NEW t \in Thread, pc[t] # "waking", NEW k
  PROVE  k \in Untold(t)
           <=> \E j \in 1 .. Len(m_trackers) : position <= j /\ m_trackers[j] = k
<1>1. position \in Nat /\ position >= 1 /\ Len(m_trackers) \in Nat
  BY DequeTyped DEF TypeOK
<1>2. \A j : j \in position .. Len(m_trackers)
               <=> (j \in 1 .. Len(m_trackers) /\ position <= j)
  BY <1>1
<1>3. k \in Untold(t) <=> \E j \in position .. Len(m_trackers) : m_trackers[j] = k
  BY DEF Untold
<1>4. QED
  BY <1>2, <1>3

LEMMA UntoldWaking ==
  ASSUME TypeOK, NEW t \in Thread, pc[t] = "waking", NEW k
  PROVE  k \in Untold(t)
           <=> \E j \in 1 .. Len(m_trackers) : position < j /\ m_trackers[j] = k
<1>1. position \in Nat /\ position >= 1 /\ Len(m_trackers) \in Nat
  BY DequeTyped DEF TypeOK
<1>2. \A j : j \in position + 1 .. Len(m_trackers)
               <=> (j \in 1 .. Len(m_trackers) /\ position < j)
  BY <1>1
<1>3. k \in Untold(t) <=> \E j \in position + 1 .. Len(m_trackers) : m_trackers[j] = k
  BY DEF Untold
<1>4. QED
  BY <1>2, <1>3

LEMMA InOlder ==
  ASSUME NEW k, NEW t
  PROVE  t \in Older(k) <=>
           /\ t \in Thread /\ serial[t] < tracker[k].cutoff
           /\ pc[t] = "holding" \/ (pc[t] \in Notifying /\ k \in Untold(t))
BY Zenon DEF Older, Holding

(* Whom a tracker still counts depends on nothing else than where the      *)
(* threads are, what the deque holds and the cutoff of the tracker.        *)
SameOwners ==
  /\ UNCHANGED <<m_trackers, position, serial>>
  /\ \A t \in Thread : pc'[t] = "holding" <=> pc[t] = "holding"
  /\ \A t \in Thread : pc'[t] = "notifying" <=> pc[t] = "notifying"
  /\ \A t \in Thread : pc'[t] = "waking" <=> pc[t] = "waking"

LEMMA SameOlder ==
  ASSUME SameOwners
  PROVE  /\ Holding' = Holding /\ Owning' = Owning /\ (LockFree' <=> LockFree)
         /\ \A t \in Thread : pc'[t] \in Notifying <=> pc[t] \in Notifying
         /\ \A t \in Thread : Untold(t)' = Untold(t)
         /\ \A k : tracker'[k].cutoff = tracker[k].cutoff => Older(k)' = Older(k)
<1> USE DEF SameOwners
<1>1. \A t \in Thread : pc'[t] \in Notifying <=> pc[t] \in Notifying
  BY DEF Notifying
<1>2. Holding' = Holding
  BY DEF Holding
<1>3. Owning' = Owning /\ (LockFree' <=> LockFree)
  BY <1>1 DEF Owning, LockFree
<1>4. \A t \in Thread : Untold(t)' = Untold(t)
  BY DEF Untold
<1> HIDE DEF SameOwners
<1>5. UNCHANGED serial
  BY DEF SameOwners
<1>6. ASSUME NEW k, tracker'[k].cutoff = tracker[k].cutoff
      PROVE  Older(k)' = Older(k)
  BY <1>1, <1>2, <1>4, <1>5, <1>6 DEF Older
<1>7. QED
  BY <1>1, <1>2, <1>3, <1>4, <1>6

LEMMA InitIInv == Init => IInv
<1> SUFFICES ASSUME Init PROVE IInv
  OBVIOUS
<1> USE DEF Init
<1>1. TypeOK
  <2>1. tracker \in Seq(TrackerState) /\ m_trackers \in Seq(DOMAIN tracker)
    OBVIOUS
  <2>2. m_nextSerialNumber \in 0 .. MaxSerial /\ m_tokensInFlight \in Nat
    BY BoundAssumption
  <2>3. m_isShuttingDown \in BOOLEAN /\ position \in Nat \ {0}
    <3>1. m_isShuttingDown \in BOOLEAN
      OBVIOUS
    <3>2. position \in Nat \ {0}
      OBVIOUS
    <3>3. QED
      BY <3>1, <3>2
  <2>4. pc \in [Thread -> PC]
    BY DEF PC
  <2>5. serial \in [Thread -> Nat] /\ waitsOn \in [Thread -> Nat]
    OBVIOUS
  <2> HIDE DEF Init
  <2>6. QED
    BY <2>1, <2>2, <2>3, <2>4, <2>5 DEF TypeOK
<1>2. \A t \in Thread : pc[t] = "idle"
  OBVIOUS
<1>3. DOMAIN tracker = {} /\ DOMAIN m_trackers = {}
  OBVIOUS
<1>4. LockExclusive /\ PositionReset /\ WakingFront
  BY <1>2 DEF LockExclusive, PositionReset, WakingFront, Notifying
<1>5. NumbersIssued /\ CutoffsSorted /\ DequeSorted /\ DequeHoldsIncomplete
  BY <1>2, <1>3
  DEF NumbersIssued, Owning, Notifying, CutoffsSorted, DequeSorted, DequeHoldsIncomplete
<1>6. Holding = {} /\ m_tokensInFlight = 0
  BY <1>2 DEF Holding
<1>7. CountsExact
  BY <1>3, <1>6, FS_EmptySet DEF CountsExact, TokensCounted, TrackersExact
<1>8. QED
  BY <1>1, <1>4, <1>5, <1>7 DEF IInv

(* A step that moves no thread into or out of the places where a token is  *)
(* owned, and leaves the counters and trackers alone, cannot disturb       *)
(* anything but the typing of what it does change.                         *)
LEMMA QuietStep ==
  ASSUME IInv, TypeOK', SameOwners,
         UNCHANGED <<m_nextSerialNumber, m_tokensInFlight, tracker>>
  PROVE  IInv'
<1>1. /\ Holding' = Holding /\ Owning' = Owning /\ (LockFree' <=> LockFree)
      /\ \A t \in Thread : pc'[t] \in Notifying <=> pc[t] \in Notifying
      /\ \A k : Older(k)' = Older(k)
  BY SameOlder
<1>2. CountsExact'
  BY <1>1 DEF IInv, CountsExact, TokensCounted, TrackersExact
<1>3. LockExclusive' /\ NumbersIssued' /\ PositionReset'
  BY <1>1 DEF IInv, LockExclusive, NumbersIssued, PositionReset, SameOwners
<1>4. CutoffsSorted' /\ DequeSorted' /\ WakingFront'
  BY DEF IInv, CutoffsSorted, DequeSorted, WakingFront, SameOwners
<1>5. DequeHoldsIncomplete'
  BY DEF IInv, DequeHoldsIncomplete, Completed, SameOwners
<1>6. QED
  BY <1>2, <1>3, <1>4, <1>5 DEF IInv

LEMMA NobodyWakes ==
  ASSUME LockFree
  PROVE  \A t \in Thread : pc[t] # "waking" /\ pc[t] # "notifying"
BY DEF LockFree, Notifying

LEMMA IssueOlder ==
  ASSUME IInv, NEW t \in Thread, IssueToken(t)
  PROVE  /\ t \notin Holding /\ Holding' = Holding \cup {t}
         /\ Owning' = Owning \cup {t} /\ LockFree'
         /\ \A k \in DOMAIN tracker : Older(k)' = Older(k) /\ t \notin Older(k)
<1> USE DEF IssueToken, Goto
<1>1. pc \in [Thread -> PC] /\ serial \in [Thread -> Nat]
      /\ m_nextSerialNumber \in Nat
  BY BoundAssumption DEF IInv, TypeOK
<1>2. /\ pc'[t] = "holding" /\ pc[t] = "requesting" /\ serial'[t] = m_nextSerialNumber
      /\ \A u \in Thread : u # t => pc'[u] = pc[u] /\ serial'[u] = serial[u]
      /\ \A u \in Thread : pc[u] \notin Notifying /\ pc'[u] \notin Notifying
  BY <1>1 DEF LockFree, Notifying
<1>3. t \notin Holding /\ Holding' = Holding \cup {t}
  BY <1>2 DEF Holding
<1>4. Owning' = Owning \cup {t} /\ LockFree'
  BY <1>2 DEF Owning, LockFree
<1>5. ASSUME NEW k \in DOMAIN tracker
      PROVE  Older(k)' = Older(k) /\ t \notin Older(k)
  <2>1. tracker[k].cutoff \in Nat /\ tracker[k].cutoff <= m_nextSerialNumber
    BY TrackerTyped DEF IInv, NumbersIssued
  <2>2. tracker' = tracker /\ ~(serial'[t] < tracker[k].cutoff)
    BY <1>1, <1>2, <2>1
  <2> HIDE DEF IssueToken
  <2>3. Older(k) = {u \in Holding : serial[u] < tracker[k].cutoff}
    BY <1>2 DEF Older, Holding
  <2>4. Older(k)' = {u \in Holding' : serial'[u] < tracker[k].cutoff}
    BY <1>2, <2>2 DEF Older, Holding
  <2>5. Older(k)' = {u \in Holding : serial'[u] < tracker[k].cutoff}
    BY <1>3, <2>2, <2>4
  <2>6. \A u \in Holding : serial'[u] = serial[u]
    BY <1>2, <1>3 DEF Holding
  <2>7. QED
    BY <1>3, <2>3, <2>5, <2>6
<1>6. QED
  BY <1>3, <1>4, <1>5

LEMMA IssueIInv ==
  ASSUME IInv, NEW t \in Thread, IssueToken(t)
  PROVE  IInv'
<1>1. TypeOK'
  BY BoundAssumption DEF IInv, TypeOK, PC, IssueToken, Goto
<1>2. /\ pc \in [Thread -> PC] /\ serial \in [Thread -> Nat]
      /\ m_nextSerialNumber \in Nat /\ m_tokensInFlight \in Nat
  BY BoundAssumption DEF IInv, TypeOK
<1>3. /\ LockFree /\ pc' = [pc EXCEPT ![t] = "holding"]
      /\ serial' = [serial EXCEPT ![t] = m_nextSerialNumber]
      /\ m_nextSerialNumber' = m_nextSerialNumber + 1
      /\ m_tokensInFlight' = m_tokensInFlight + 1
      /\ UNCHANGED <<m_trackers, tracker, position>>
  BY DEF IssueToken, Goto
<1>4. TrackersExact'
  BY <1>3, IssueOlder DEF IInv, CountsExact, TrackersExact
<1>5. TokensCounted'
  <2>1. Holding' = Holding \cup {t} /\ t \notin Holding
    BY IssueOlder
  <2>2. IsFiniteSet(Holding)
    BY ThreadAssumption, FS_Subset DEF Holding
  <2>3. Cardinality(Holding \cup {t}) = Cardinality(Holding) + 1
    BY <2>1, <2>2, FS_AddElement
  <2>4. QED
    BY <1>3, <2>1, <2>3 DEF IInv, CountsExact, TokensCounted
<1>6. NumbersIssued'
  <2>1. \A u \in Owning' : serial'[u] < m_nextSerialNumber'
    <3> SUFFICES ASSUME NEW u \in Owning' PROVE serial'[u] < m_nextSerialNumber'
      OBVIOUS
    <3>1. u = t \/ u \in Owning
      BY IssueOlder
    <3>2. u = t \/ (serial[u] < m_nextSerialNumber /\ u \in Thread)
      BY <3>1 DEF IInv, NumbersIssued, Owning
    <3>3. QED
      BY <3>2, <1>2, <1>3
  <2>2. \A k \in DOMAIN tracker : tracker[k].cutoff <= m_nextSerialNumber'
    BY <1>2, <1>3, TrackerTyped DEF IInv, NumbersIssued
  <2>3. QED
    BY <1>3, <2>1, <2>2 DEF NumbersIssued
<1>7. \A u \in Thread : pc[u] # "waking" /\ pc'[u] # "waking" /\ pc'[u] \notin Notifying
  BY <1>2, <1>3 DEF LockFree, Notifying
<1>8. LockExclusive' /\ PositionReset' /\ WakingFront'
  BY <1>3, <1>7 DEF IInv, LockExclusive, PositionReset, WakingFront
<1>9. CutoffsSorted' /\ DequeSorted' /\ DequeHoldsIncomplete'
  BY <1>3, <1>7 DEF IInv, CutoffsSorted, DequeSorted, DequeHoldsIncomplete, Completed
<1>10. QED
  BY <1>1, <1>4, <1>5, <1>6, <1>8, <1>9 DEF IInv, CountsExact

LEMMA StartIInv ==
  ASSUME IInv, NEW t \in Thread, StartTracker(t)
  PROVE  IInv'
<1> DEFINE n == Len(tracker) + 1
           r == m_tokensInFlight
<1> USE DEF StartTracker, PushTracker
<1>1. /\ tracker \in Seq(TrackerState) /\ Len(tracker) \in Nat
      /\ m_trackers \in Seq(DOMAIN tracker)
      /\ m_nextSerialNumber \in Nat /\ r \in Nat
      /\ serial \in [Thread -> Nat]
  BY BoundAssumption DEF IInv, TypeOK
<1>2. /\ Len(tracker') = n /\ DOMAIN tracker' = DOMAIN tracker \cup {n}
      /\ DOMAIN tracker = 1 .. Len(tracker)
      /\ tracker'[n] = [cutoff |-> m_nextSerialNumber, remaining |-> r]
      /\ \A k \in DOMAIN tracker : k # n /\ tracker'[k] = tracker[k]
  BY <1>1
<1>3. TypeOK'
  <2>1. tracker' \in Seq(TrackerState)
    BY <1>1 DEF TrackerState
  <2>2. m_trackers \in Seq(DOMAIN tracker')
    BY <1>1, <1>2
  <2>3. m_trackers' \in Seq(DOMAIN tracker')
    <3>1. \A Q, q, e : q \in Seq(Q) /\ e \in Q => Append(q, e) \in Seq(Q)
      OBVIOUS
    <3>2. n \in DOMAIN tracker'
      BY <1>2
    <3>3. m_trackers' = m_trackers \/ m_trackers' = Append(m_trackers, n)
      OBVIOUS
    <3> HIDE DEF n
    <3>4. QED
      BY <2>2, <3>1, <3>2, <3>3
  <2>4. QED
    BY <2>1, <2>3 DEF IInv, TypeOK
<1>4. /\ Holding' = Holding /\ Owning' = Owning /\ (LockFree' <=> LockFree)
      /\ \A u \in Thread : pc[u] \notin Notifying
  BY DEF Holding, Owning, LockFree
<1>5. \A u \in Thread : pc[u] # "waking" /\ pc'[u] = pc[u] /\ serial'[u] = serial[u]
  BY NobodyWakes
<1>6. /\ \A k : Older(k) = {u \in Holding : serial[u] < tracker[k].cutoff}
      /\ \A k : Older(k)' = {u \in Holding : serial[u] < tracker'[k].cutoff}
  <2>1. ASSUME NEW k PROVE Older(k) = {u \in Holding : serial[u] < tracker[k].cutoff}
    BY <1>4 DEF Older, Holding
  <2>2. ASSUME NEW k PROVE Older(k)' = {u \in Holding : serial[u] < tracker'[k].cutoff}
    BY <1>4, <1>5 DEF Older, Holding
  <2>3. QED
    BY <2>1, <2>2
<1>7. TrackersExact'
  <2>1. \A k \in DOMAIN tracker : Older(k)' = Older(k)
    BY <1>2, <1>6
  <2>2. \A u \in Holding : serial[u] < m_nextSerialNumber
    BY DEF IInv, NumbersIssued, Owning, Holding
  <2>3. PICK m : m = n
    OBVIOUS
  <2>4. tracker'[m].cutoff = m_nextSerialNumber /\ tracker'[m].remaining = r
    BY <1>2, <2>3
  <2>5. Older(m)' = Holding
    BY <1>6, <2>2, <2>4
  <2>6. r = Cardinality(Older(m)')
    BY <2>5 DEF IInv, CountsExact, TokensCounted
  <2>7. DOMAIN tracker' = DOMAIN tracker \cup {m}
    BY <1>2, <2>3
  <2>8. \A k \in DOMAIN tracker : tracker'[k].remaining = Cardinality(Older(k)')
    BY <1>2, <2>1 DEF IInv, CountsExact, TrackersExact
  <2> HIDE DEF StartTracker, n, r
  <2>9. QED
    BY <2>4, <2>6, <2>7, <2>8 DEF TrackersExact
<1>8. TokensCounted' /\ LockExclusive' /\ PositionReset' /\ WakingFront'
  BY <1>4, <1>5 DEF IInv, CountsExact, TokensCounted, LockExclusive, PositionReset, WakingFront
<1>9. NumbersIssued' /\ CutoffsSorted'
  BY <1>1, <1>2, <1>4 DEF IInv, NumbersIssued, CutoffsSorted
<1>10. /\ \A k : ~Completed(k) /\ ~Completed(k)'
       /\ \A k \in DOMAIN tracker : k \in Range(m_trackers) <=> tracker[k].remaining # 0
  BY <1>5 DEF Completed, IInv, DequeHoldsIncomplete
<1>11. DequeSorted' /\ DequeHoldsIncomplete'
  <2>1. CASE r = 0
    <3>1. m_trackers' = m_trackers /\ n \notin Range(m_trackers)
      BY <2>1, <1>1, <1>2 DEF Range
    <3>2. QED
      BY <2>1, <3>1, <1>2, <1>10 DEF IInv, DequeSorted, DequeHoldsIncomplete
  <2>2. CASE r # 0
    <3>1. /\ m_trackers' = Append(m_trackers, n)
          /\ DOMAIN m_trackers = 1 .. Len(m_trackers)
          /\ DOMAIN m_trackers' = 1 .. Len(m_trackers) + 1
          /\ m_trackers'[Len(m_trackers) + 1] = n
          /\ \A j \in 1 .. Len(m_trackers) :
               m_trackers'[j] = m_trackers[j] /\ m_trackers[j] \in DOMAIN tracker
      BY <2>2, <1>1
    <3>2. Range(m_trackers') = Range(m_trackers) \cup {n}
      <4>1. Len(m_trackers) \in Nat
        BY <1>1
      <4>2. \A x : x \in Range(m_trackers') <=>
                   \E j \in 1 .. Len(m_trackers) + 1 : x = m_trackers'[j]
        BY <3>1 DEF Range
      <4>3. \A x : x \in Range(m_trackers) <=>
                   \E j \in 1 .. Len(m_trackers) : x = m_trackers[j]
        BY <3>1 DEF Range
      <4>4. QED
        BY <3>1, <4>1, <4>2, <4>3
    <3>3. DequeSorted'
      BY <3>1, <1>1, <1>2 DEF IInv, DequeSorted
    <3>4. DequeHoldsIncomplete'
      BY <2>2, <3>2, <1>2, <1>10 DEF DequeHoldsIncomplete
    <3>5. QED
      BY <3>3, <3>4
  <2>3. QED
    BY <2>1, <2>2
<1>12. QED
  BY <1>3, <1>7, <1>8, <1>9, <1>11 DEF IInv, CountsExact

(* The thread that drops its token is counted as before: it has told       *)
(* nobody yet, and whoever counts it is in the deque.                      *)
LEMMA DropOlder ==
  ASSUME IInv, NEW t \in Thread, DropToken(t)
  PROVE  /\ t \in Holding /\ Holding' = Holding \ {t} /\ Owning' = Owning
         /\ \A k \in DOMAIN tracker : Older(k)' = Older(k)
<1>1. pc \in [Thread -> PC] /\ TypeOK
  BY DEF IInv, TypeOK
<1>2. /\ pc[t] = "holding" /\ pc'[t] = "notifying" /\ position = 1
      /\ \A u \in Thread : u # t => pc'[u] = pc[u]
      /\ \A u \in Thread : pc[u] \notin Notifying /\ pc[u] # "waking"
      /\ UNCHANGED <<m_trackers, tracker, position, serial>>
  BY <1>1 DEF DropToken, Goto, LockFree, Notifying, IInv, PositionReset
<1>3. t \in Holding /\ Holding' = Holding \ {t}
  BY <1>2 DEF Holding
<1>4. Owning' = Owning
  BY <1>2 DEF Owning, Notifying
<1>5. ASSUME NEW k \in DOMAIN tracker
      PROVE  Older(k)' = Older(k)
  <2>1. t \in Older(k) <=> serial[t] < tracker[k].cutoff
    BY <1>2 DEF Older, Holding
  <2>2. t \in Older(k)' <=> (serial[t] < tracker[k].cutoff /\ k \in Untold(t)')
    BY <1>2, <1>3 DEF Older, Notifying
  <2>3. Untold(t)' = {m_trackers[j] : j \in 1 .. Len(m_trackers)}
    BY <1>2 DEF Untold
  <2>4. k \in Range(m_trackers) => k \in Untold(t)'
    BY <1>1, <2>3, DequeTyped
  <2>5. t \in Older(k) => k \in Range(m_trackers)
    <3>1. t \in Older(k) => Cardinality(Older(k)) # 0
      BY OlderFinite, FS_EmptySet
    <3>2. QED
      BY <3>1 DEF IInv, CountsExact, TrackersExact, DequeHoldsIncomplete
  <2>6. \A u : u # t => (u \in Older(k)' <=> u \in Older(k))
    <3> SUFFICES ASSUME NEW u, u # t PROVE u \in Older(k)' <=> u \in Older(k)
      OBVIOUS
    <3>1. u \in Older(k) <=> (u \in Holding /\ serial[u] < tracker[k].cutoff)
      BY <1>2 DEF Older, Holding
    <3>2. u \in Older(k)' <=> (u \in Holding' /\ serial[u] < tracker[k].cutoff)
      BY <1>2 DEF Older, Holding, Notifying
    <3>3. QED
      BY <3>1, <3>2, <1>3
  <2>7. \A u : u \in Older(k)' <=> u \in Older(k)
    BY <2>1, <2>2, <2>4, <2>5, <2>6
  <2>8. QED
    BY <2>7
<1>6. QED
  BY <1>3, <1>4, <1>5

LEMMA DropIInv ==
  ASSUME IInv, NEW t \in Thread, DropToken(t)
  PROVE  IInv'
<1>1. pc \in [Thread -> PC] /\ m_tokensInFlight \in Nat
  BY DEF IInv, TypeOK
<1>2. /\ LockFree /\ pc' = [pc EXCEPT ![t] = "notifying"] /\ m_tokensInFlight > 0
      /\ m_tokensInFlight' = m_tokensInFlight - 1
      /\ UNCHANGED <<m_nextSerialNumber, m_isShuttingDown, m_trackers, tracker,
                     position, serial, waitsOn>>
  BY DEF DropToken, Goto
<1>3. TypeOK'
  BY <1>1, <1>2 DEF IInv, TypeOK, PC
<1>4. TokensCounted'
  <2>1. Holding' = Holding \ {t} /\ t \in Holding
    BY DropOlder
  <2>2. IsFiniteSet(Holding)
    BY ThreadAssumption, FS_Subset DEF Holding
  <2>3. Cardinality(Holding \ {t}) = Cardinality(Holding) - 1
    BY <2>1, <2>2, FS_RemoveElement
  <2>4. QED
    BY <1>2, <2>1, <2>3 DEF IInv, CountsExact, TokensCounted
<1>5. TrackersExact' /\ NumbersIssued'
  BY <1>2, DropOlder DEF IInv, CountsExact, TrackersExact, NumbersIssued
<1>6. /\ \A u \in Thread : pc[u] # "waking" /\ pc'[u] # "waking"
      /\ \A u \in Thread : pc'[u] \in Notifying <=> u = t
  BY <1>1, <1>2 DEF LockFree, Notifying
<1>7. LockExclusive' /\ PositionReset' /\ WakingFront'
  BY <1>6 DEF LockExclusive, PositionReset, LockFree, WakingFront
<1>8. CutoffsSorted' /\ DequeSorted' /\ DequeHoldsIncomplete'
  BY <1>2, <1>6 DEF IInv, CutoffsSorted, DequeSorted, DequeHoldsIncomplete, Completed
<1>9. QED
  BY <1>3, <1>4, <1>5, <1>7, <1>8 DEF IInv, CountsExact

(* The tracker at the front shields the ones behind it: its cutoff is not  *)
(* after theirs, so whoever is counted by the front is counted by them     *)
(* too; and the thread that tells them has told the front already.         *)
LEMMA TellsInOrder ==
  ASSUME IInv, NEW t \in Thread, pc[t] = "notifying",
         position <= Len(m_trackers), Completes(m_trackers[position], serial[t])
  PROVE  position = 1
<1> DEFINE f == m_trackers[1]
           b == m_trackers[position]
<1>1. TypeOK /\ DequeSorted /\ Len(m_trackers) \in Nat /\ position \in 1 .. Len(m_trackers)
  <2>1. TypeOK /\ DequeSorted
    BY DEF IInv
  <2>2. Len(m_trackers) \in Nat
    BY <2>1, DequeTyped
  <2>3. position \in Nat \ {0}
    BY <2>1 DEF TypeOK
  <2>4. QED
    BY <2>1, <2>2, <2>3
<1>2. SUFFICES ASSUME position > 1 PROVE FALSE
  BY <1>1
<1>3. /\ 1 \in 1 .. Len(m_trackers) /\ f \in DOMAIN tracker /\ b \in DOMAIN tracker
      /\ f \in Range(m_trackers) /\ f < b
  BY <1>1, <1>2, DequeTyped DEF DequeSorted
<1>4. f \notin Untold(t)
  <2>1. ASSUME f \in Untold(t) PROVE FALSE
    <3>1. PICK j \in 1 .. Len(m_trackers) : position <= j /\ m_trackers[j] = f
      BY <2>1, <1>1, UntoldNotifying
    <3>2. j = 1
      BY <1>1, <1>3, <3>1, DequeDistinct
    <3>3. QED
      BY <1>1, <1>2, <3>1, <3>2
  <2>2. QED
    BY <2>1
<1>5. b \in Untold(t)
  BY <1>1, UntoldNotifying
<1>6. tracker[f].cutoff <= tracker[b].cutoff
  BY <1>3 DEF IInv, CutoffsSorted
<1>7. Older(b) = {t}
  <2>1. t \in Older(b)
    BY <1>5, InOlder DEF Completes, Notifying
  <2>2. Cardinality(Older(b)) = 1 /\ IsFiniteSet(Older(b))
    BY <1>3, OlderFinite DEF Completes, IInv, CountsExact, TrackersExact
  <2>3. IsFiniteSet(Older(b) \ {t}) /\ Cardinality(Older(b) \ {t}) = 0
    BY <2>1, <2>2, FS_RemoveElement
  <2>4. Older(b) \ {t} = {}
    BY <2>3, FS_EmptySet
  <2>5. QED
    BY <2>1, <2>4
<1>8. Older(f) = {}
  <2> SUFFICES ASSUME NEW u \in Older(f) PROVE FALSE
    OBVIOUS
  <2>1. /\ u \in Thread /\ serial[u] < tracker[f].cutoff
        /\ pc[u] = "holding" \/ (pc[u] \in Notifying /\ f \in Untold(u))
    BY InOlder
  <2>2. pc[u] \in Notifying => u = t
    BY <2>1 DEF IInv, LockExclusive, Notifying
  <2>3. pc[u] = "holding"
    BY <2>1, <2>2, <1>4
  <2>4. serial[u] < tracker[b].cutoff
    <3>1. tracker[f].cutoff \in Nat /\ tracker[b].cutoff \in Nat
      BY <1>1, <1>3, TrackerTyped
    <3>2. serial[u] \in Nat
      BY <1>1, <2>1 DEF TypeOK
    <3>3. QED
      BY <3>1, <3>2, <2>1, <1>6
  <2>5. u \in Older(b)
    BY <2>1, <2>3, <2>4, InOlder
  <2>6. QED
    BY <2>3, <2>5, <1>7
<1>9. tracker[f].remaining = 0
  BY <1>3, <1>8, FS_EmptySet DEF IInv, CountsExact, TrackersExact
<1>10. ~Completed(f)
  <2>1. \A u \in Thread : pc[u] = "waking" => u = t
    BY DEF IInv, LockExclusive, Notifying
  <2>2. QED
    BY <2>1 DEF Completed
<1>11. QED
  BY <1>3, <1>9, <1>10 DEF IInv, DequeHoldsIncomplete

(* Telling a tracker takes the thread off what that tracker counts, and    *)
(* off nothing else.                                                       *)
LEMMA TellOlder ==
  ASSUME IInv, NEW t \in Thread, TellTracker(t)
  PROVE  /\ Holding' = Holding /\ Owning' = Owning /\ t \notin Holding
         /\ position \in 1 .. Len(m_trackers)
         /\ m_trackers[position] \in DOMAIN tracker
         /\ DOMAIN tracker' = DOMAIN tracker
         /\ \A k \in DOMAIN tracker : tracker'[k].cutoff = tracker[k].cutoff
         /\ (t \in Older(m_trackers[position]))
              <=> (serial[t] < tracker[m_trackers[position]].cutoff)
         /\ \A k \in DOMAIN tracker :
              Older(k)' = IF k = m_trackers[position] THEN Older(k) \ {t} ELSE Older(k)
<1>1. TypeOK /\ DequeSorted /\ pc \in [Thread -> PC] /\ tracker \in Seq(TrackerState)
  BY DEF IInv, TypeOK
<1>2. Len(m_trackers) \in Nat /\ position \in 1 .. Len(m_trackers)
  <2>1. Len(m_trackers) \in Nat /\ position \in Nat \ {0}
    BY <1>1, DequeTyped DEF TypeOK
  <2>2. position <= Len(m_trackers)
    BY DEF TellTracker
  <2>3. QED
    BY <2>1, <2>2
<1>3. PICK b : b = m_trackers[position]
  OBVIOUS
<1>4. b \in DOMAIN tracker
  BY <1>1, <1>2, <1>3, DequeTyped
<1>5. /\ pc[t] = "notifying" /\ pc'[t] \in Notifying
      /\ \A u \in Thread : u # t => pc'[u] = pc[u]
      /\ pc'[t] = "waking" => position' = position
      /\ pc'[t] # "waking" => position' = position + 1
      /\ UNCHANGED <<m_trackers, serial>>
      /\ tracker' = Counted(b, serial[t])
  BY <1>1, <1>3 DEF TellTracker, Notifying
<1>6. Holding' = Holding /\ Owning' = Owning /\ t \notin Holding
  BY <1>5 DEF Holding, Owning, Notifying
<1>7. /\ DOMAIN tracker' = DOMAIN tracker
      /\ \A k \in DOMAIN tracker : tracker'[k].cutoff = tracker[k].cutoff
  <2>1. tracker[b] \in TrackerState
    BY <1>1, <1>4, TrackerTyped
  <2>2. tracker' = tracker
          \/ tracker' = [tracker EXCEPT ![b].remaining = tracker[b].remaining - 1]
    BY <1>5 DEF Counted
  <2>3. QED
    BY <2>1, <2>2 DEF TrackerState
<1>8. Untold(t)' = {m_trackers[j] : j \in position + 1 .. Len(m_trackers)}
  <2>1. CASE pc'[t] = "waking"
    <3>1. Untold(t)' = {m_trackers'[j] : j \in position' + 1 .. Len(m_trackers')}
      BY <2>1 DEF Untold
    <3>2. QED
      BY <2>1, <3>1, <1>5
  <2>2. CASE pc'[t] # "waking"
    <3>1. Untold(t)' = {m_trackers'[j] : j \in position' .. Len(m_trackers')}
      BY <2>2 DEF Untold
    <3>2. QED
      BY <2>2, <3>1, <1>5
  <2>3. QED
    BY <2>1, <2>2
<1>9. \A k : k \in Untold(t)' <=> (k \in Untold(t) /\ k # b)
  <2> SUFFICES ASSUME NEW k PROVE k \in Untold(t)' <=> (k \in Untold(t) /\ k # b)
    OBVIOUS
  <2>1. k \in Untold(t)'
          <=> \E j \in position + 1 .. Len(m_trackers) : m_trackers[j] = k
    BY <1>8
  <2>2. k \in Untold(t)
          <=> \E j \in 1 .. Len(m_trackers) : position <= j /\ m_trackers[j] = k
    BY <1>1, <1>5, UntoldNotifying
  <2>3. ASSUME NEW j \in position + 1 .. Len(m_trackers), m_trackers[j] = k
        PROVE  j \in 1 .. Len(m_trackers) /\ position <= j /\ k # b
    <3>1. j \in 1 .. Len(m_trackers) /\ position <= j /\ j # position
      BY <1>2
    <3>2. QED
      BY <3>1, <2>3, <1>1, <1>2, <1>3, DequeDistinct
  <2>4. ASSUME NEW j \in 1 .. Len(m_trackers), position <= j, m_trackers[j] = k, k # b
        PROVE  j \in position + 1 .. Len(m_trackers)
    <3>1. j # position
      BY <2>4, <1>3
    <3>2. QED
      BY <3>1, <2>4, <1>2
  <2>5. QED
    BY <2>1, <2>2, <2>3, <2>4
<1>10. b \in Untold(t)
  BY <1>1, <1>2, <1>3, <1>5, UntoldNotifying
<1>11. (t \in Older(b)) <=> (serial[t] < tracker[b].cutoff)
  BY <1>5, <1>10, InOlder DEF Notifying
<1>12. \A u \in Thread : u # t => pc[u] \notin Notifying
  BY <1>5 DEF IInv, LockExclusive, Notifying
<1>13. ASSUME NEW k \in DOMAIN tracker, NEW u
       PROVE  u \in Older(k)' <=> (u \in Older(k) /\ (k = b => u # t))
  <2>1. u \in Older(k)' <=>
          /\ u \in Thread /\ serial[u] < tracker[k].cutoff
          /\ u \in Holding \/ (pc'[u] \in Notifying /\ k \in Untold(u)')
    BY <1>5, <1>6, <1>7 DEF Older
  <2>2. u \in Older(k) <=>
          /\ u \in Thread /\ serial[u] < tracker[k].cutoff
          /\ u \in Holding \/ (pc[u] \in Notifying /\ k \in Untold(u))
    BY DEF Older
  <2>3. CASE u = t
    <3>1. pc[u] \in Notifying /\ pc'[u] \in Notifying /\ u \notin Holding
      BY <2>3, <1>5, <1>6 DEF Notifying
    <3>2. QED
      BY <2>1, <2>2, <2>3, <3>1, <1>9
  <2>4. CASE u # t
    <3>1. u \in Thread => (pc[u] \notin Notifying /\ pc'[u] \notin Notifying)
      BY <2>4, <1>5, <1>12
    <3>2. QED
      BY <2>1, <2>2, <2>4, <3>1
  <2>5. QED
    BY <2>3, <2>4
<1>14. ASSUME NEW k \in DOMAIN tracker
       PROVE  Older(k)' = IF k = b THEN Older(k) \ {t} ELSE Older(k)
  <2>1. \A u : u \in Older(k)' <=> (u \in Older(k) /\ (k = b => u # t))
    BY <1>13
  <2> HIDE DEF Older
  <2>2. CASE k = b
    BY <2>1, <2>2
  <2>3. CASE k # b
    BY <2>1, <2>3
  <2>4. QED
    BY <2>2, <2>3
<1>15. QED
  BY <1>2, <1>3, <1>4, <1>6, <1>7, <1>11, <1>14

LEMMA TellIInv ==
  ASSUME IInv, NEW t \in Thread, TellTracker(t)
  PROVE  IInv'
<1>1. /\ TypeOK /\ pc \in [Thread -> PC] /\ tracker \in Seq(TrackerState)
      /\ position \in Nat \ {0}
  BY DEF IInv, TypeOK
<1>2. PICK b : b = m_trackers[position]
  OBVIOUS
<1>3. /\ Holding' = Holding /\ Owning' = Owning
      /\ position \in 1 .. Len(m_trackers) /\ b \in DOMAIN tracker
      /\ DOMAIN tracker' = DOMAIN tracker
      /\ \A k \in DOMAIN tracker : tracker'[k].cutoff = tracker[k].cutoff
      /\ (t \in Older(b)) <=> (serial[t] < tracker[b].cutoff)
      /\ \A k \in DOMAIN tracker :
           Older(k)' = IF k = b THEN Older(k) \ {t} ELSE Older(k)
  BY <1>2, TellOlder
<1>4. /\ pc[t] = "notifying" /\ pc'[t] \in Notifying
      /\ \A u \in Thread : u # t => pc'[u] = pc[u]
      /\ pc'[t] = "waking" <=> Completes(b, serial[t])
      /\ pc'[t] = "waking" => position' = position
      /\ pc'[t] # "waking" => position' = position + 1
      /\ tracker' = Counted(b, serial[t])
  BY <1>1, <1>2 DEF TellTracker, Notifying
<1>5. UNCHANGED <<m_nextSerialNumber, m_tokensInFlight, m_isShuttingDown, m_trackers,
                  serial, waitsOn>>
  BY DEF TellTracker
<1>6. \A u \in Thread : u # t => pc[u] \notin Notifying
  BY <1>4 DEF IInv, LockExclusive, Notifying
<1>7. /\ \A k \in DOMAIN tracker : k # b => tracker'[k] = tracker[k]
      /\ tracker'[b].remaining = IF serial[t] < tracker[b].cutoff
                                 THEN tracker[b].remaining - 1 ELSE tracker[b].remaining
  <2>1. tracker[b] \in TrackerState
    BY <1>1, <1>3, TrackerTyped
  <2>2. QED
    BY <2>1, <1>3, <1>4 DEF Counted, TrackerState
<1>8. TrackersExact'
  <2> SUFFICES ASSUME NEW k \in DOMAIN tracker
               PROVE  tracker'[k].remaining = Cardinality(Older(k)')
    BY <1>3 DEF TrackersExact
  <2>1. IsFiniteSet(Older(k)) /\ tracker[k].remaining = Cardinality(Older(k))
    BY OlderFinite DEF IInv, CountsExact, TrackersExact
  <2>2. CASE k # b
    BY <2>1, <2>2, <1>3, <1>7
  <2>3. CASE k = b /\ t \in Older(k)
    <3>1. Cardinality(Older(k) \ {t}) = Cardinality(Older(k)) - 1
      BY <2>1, <2>3, FS_RemoveElement
    <3>2. QED
      BY <2>1, <2>3, <3>1, <1>3, <1>7
  <2>4. CASE k = b /\ t \notin Older(k)
    <3>1. Older(k) \ {t} = Older(k)
      BY <2>4
    <3>2. QED
      BY <2>1, <2>4, <3>1, <1>3, <1>7
  <2>5. QED
    BY <2>2, <2>3, <2>4
<1>9. TokensCounted'
  BY <1>3, <1>5 DEF IInv, CountsExact, TokensCounted
<1>10. \A k \in DOMAIN tracker : tracker'[k].remaining \in Nat
  <2> SUFFICES ASSUME NEW k \in DOMAIN tracker PROVE tracker'[k].remaining \in Nat
    OBVIOUS
  <2>1. Older(k)' \subseteq Thread
    BY DEF Older
  <2>2. Cardinality(Older(k)') \in Nat
    BY <2>1, ThreadAssumption, FS_Subset, FS_CardinalityType
  <2>3. QED
    BY <2>2, <1>3, <1>8 DEF TrackersExact
<1>11. TypeOK'
  <2>1. ASSUME NEW k \in DOMAIN tracker PROVE tracker'[k] \in TrackerState
    <3>1. tracker[k] \in TrackerState /\ tracker[b] \in TrackerState
      BY <1>1, <1>3, TrackerTyped
    <3>2. CASE k # b
      BY <3>1, <3>2, <1>7
    <3>3. CASE k = b
      <4>1. tracker' = tracker \/ tracker' =
              [tracker EXCEPT ![b].remaining = tracker[b].remaining - 1]
        BY <1>4 DEF Counted
      <4>2. tracker'[b] = tracker[b] \/ tracker'[b] =
              [tracker[b] EXCEPT !.remaining = tracker[b].remaining - 1]
        BY <4>1, <1>3
      <4>3. tracker'[b].remaining \in Nat
        BY <1>3, <1>10
      <4>4. QED
        BY <3>1, <3>3, <4>2, <4>3 DEF TrackerState
    <3>4. QED
      BY <3>2, <3>3
  <2>2. tracker' \in Seq(TrackerState)
    <3>1. Len(tracker) \in Nat /\ DOMAIN tracker = 1 .. Len(tracker)
      BY <1>1
    <3>2. tracker' = tracker \/ tracker' = [tracker EXCEPT ![b] = tracker'[b]]
      <4>1. CASE tracker' = tracker
        BY <4>1
      <4>2. CASE tracker' = [tracker EXCEPT ![b].remaining = tracker[b].remaining - 1]
        <5>1. PICK x : tracker' = [tracker EXCEPT ![b] = x]
          BY <4>2, Zenon
        <5>2. tracker'[b] = x
          BY <5>1, <1>3
        <5>3. QED
          BY <5>1, <5>2, Zenon
      <4>3. QED
        BY <4>1, <4>2, <1>4 DEF Counted
    <3>3. tracker' \in [1 .. Len(tracker) -> TrackerState]
      <4>1. tracker'[b] \in TrackerState /\ tracker \in [1 .. Len(tracker) -> TrackerState]
        BY <2>1, <3>1, <1>1, <1>3
      <4>2. QED
        BY <3>2, <4>1, SMTT(20)
    <3>4. QED
      BY <3>1, <3>3, SeqDef
  <2>3. m_trackers' \in Seq(DOMAIN tracker')
    BY <1>3, <1>5 DEF IInv, TypeOK
  <2>4. pc' \in [Thread -> PC]
    BY <1>1 DEF TellTracker, PC
  <2>5. position' \in Nat \ {0}
    BY <1>1, <1>4
  <2>6. QED
    BY <2>2, <2>3, <2>4, <2>5, <1>5 DEF IInv, TypeOK
<1>12. LockExclusive' /\ PositionReset'
  BY <1>4, <1>6 DEF LockExclusive, PositionReset, LockFree
<1>13. pc'[t] = "waking" => (position = 1 /\ tracker'[b].remaining = 0)
  <2> SUFFICES ASSUME pc'[t] = "waking"
               PROVE  position = 1 /\ tracker'[b].remaining = 0
    OBVIOUS
  <2>1. Completes(b, serial[t]) /\ position <= Len(m_trackers)
    BY <1>4 DEF TellTracker
  <2>2. position = 1
    BY <2>1, <1>2, <1>4, TellsInOrder
  <2>3. tracker'[b].remaining = 0
    BY <2>1, <1>7 DEF Completes
  <2>4. QED
    BY <2>2, <2>3
<1>14. WakingFront'
  <2> SUFFICES ASSUME NEW u \in Thread, pc'[u] = "waking"
               PROVE  /\ position' = 1 /\ m_trackers' # << >>
                      /\ tracker'[m_trackers'[1]].remaining = 0
    BY DEF WakingFront
  <2>1. u = t
    BY <1>4, <1>6 DEF Notifying
  <2>2. position = 1 /\ position' = 1 /\ tracker'[b].remaining = 0
    BY <2>1, <1>4, <1>13
  <2>3. m_trackers # << >>
    BY <1>3
  <2>4. QED
    BY <2>2, <2>3, <1>2, <1>5
<1>15. NumbersIssued' /\ CutoffsSorted' /\ DequeSorted'
  BY <1>3, <1>5 DEF IInv, NumbersIssued, CutoffsSorted, DequeSorted
<1>16. DequeHoldsIncomplete'
  <2> SUFFICES ASSUME NEW k \in DOMAIN tracker
               PROVE  k \in Range(m_trackers) <=> (tracker'[k].remaining # 0 \/ Completed(k)')
    BY <1>3, <1>5 DEF DequeHoldsIncomplete
  <2>1. k \in Range(m_trackers) <=> tracker[k].remaining # 0
    <3>1. \A u \in Thread : pc[u] # "waking"
      BY <1>4, <1>6 DEF Notifying
    <3>2. QED
      BY <3>1 DEF IInv, DequeHoldsIncomplete, Completed
  <2>2. Completed(k)' <=> (k = m_trackers[1] /\ pc'[t] = "waking")
    BY <1>4, <1>5, <1>6 DEF Completed, Notifying
  <2>3. CASE k # b
    <3>1. ~Completed(k)'
      BY <2>2, <2>3, <1>2, <1>13
    <3>2. QED
      BY <2>1, <2>3, <3>1, <1>7
  <2>4. CASE k = b
    <3>1. k \in Range(m_trackers)
      BY <2>4, <1>1, <1>2, <1>3, DequeTyped
    <3>2. tracker[k].remaining # 0 /\ tracker[k].remaining \in Nat
      BY <2>1, <3>1, <1>1, TrackerTyped
    <3>3. CASE Completes(b, serial[t])
      BY <2>2, <2>4, <3>1, <3>3, <1>2, <1>4, <1>13
    <3>4. CASE ~Completes(b, serial[t])
      BY <2>4, <3>1, <3>2, <3>4, <1>7 DEF Completes
    <3>5. QED
      BY <3>3, <3>4
  <2>5. QED
    BY <2>3, <2>4
<1>17. QED
  BY <1>8, <1>9, <1>11, <1>12, <1>14, <1>15, <1>16 DEF IInv, CountsExact

(* Waking the waiters and popping the front leaves untold what was untold. *)
LEMMA WakeOlder ==
  ASSUME IInv, NEW t \in Thread, WakeWaiters(t)
  PROVE  /\ Holding' = Holding /\ Owning' = Owning
         /\ \A k : Older(k)' = Older(k)
<1>1. TypeOK /\ pc \in [Thread -> PC]
  BY DEF IInv, TypeOK
<1>2. /\ pc[t] = "waking" /\ position = 1 /\ m_trackers # << >>
      /\ m_trackers' = Tail(m_trackers)
      /\ UNCHANGED <<tracker, position, serial>>
  BY DEF WakeWaiters, IInv, WakingFront
<1>3. pc'[t] = "notifying"
  BY <1>2 DEF WakeWaiters
<1>4. \A u \in Thread : u # t =>
        /\ pc[u] = "holding" <=> pc'[u] = "holding"
        /\ pc[u] \notin Notifying /\ pc'[u] \notin Notifying
  BY <1>2 DEF WakeWaiters, WokenBy, IInv, LockExclusive, Notifying
<1>5. Holding' = Holding /\ Owning' = Owning
  BY <1>2, <1>3, <1>4 DEF Holding, Owning, Notifying
<1>6. \A k : k \in Untold(t)' <=> k \in Untold(t)
  <2>1. /\ Len(m_trackers) \in Nat /\ Len(m_trackers') = Len(m_trackers) - 1
        /\ \A j \in 1 .. Len(m_trackers) - 1 : m_trackers'[j] = m_trackers[j + 1]
    BY <1>1, <1>2 DEF TypeOK
  <2>2. Untold(t) = {m_trackers[j] : j \in 2 .. Len(m_trackers)}
    BY <1>2 DEF Untold
  <2>3. Untold(t)' = {m_trackers'[j] : j \in 1 .. Len(m_trackers) - 1}
    BY <2>1, <1>2, <1>3 DEF Untold
  <2> SUFFICES ASSUME NEW k PROVE k \in Untold(t)' <=> k \in Untold(t)
    OBVIOUS
  <2>4. k \in Untold(t) => k \in Untold(t)'
    <3> SUFFICES ASSUME NEW j \in 2 .. Len(m_trackers), k = m_trackers[j]
                 PROVE  k \in Untold(t)'
      BY <2>2
    <3>1. j - 1 \in 1 .. Len(m_trackers) - 1 /\ (j - 1) + 1 = j
      BY <2>1
    <3>2. k = m_trackers'[j - 1]
      BY <3>1, <2>1
    <3>3. QED
      BY <3>1, <3>2, <2>3
  <2>5. k \in Untold(t)' => k \in Untold(t)
    <3> SUFFICES ASSUME NEW j \in 1 .. Len(m_trackers) - 1, k = m_trackers'[j]
                 PROVE  k \in Untold(t)
      BY <2>3
    <3>1. j + 1 \in 2 .. Len(m_trackers) /\ k = m_trackers[j + 1]
      BY <2>1
    <3>2. QED
      BY <3>1, <2>2
  <2>6. QED
    BY <2>4, <2>5
<1>7. ASSUME NEW k, NEW u PROVE u \in Older(k)' <=> u \in Older(k)
  <2>1. u \in Older(k)' <=>
          /\ u \in Thread /\ serial[u] < tracker[k].cutoff
          /\ u \in Holding \/ (pc'[u] \in Notifying /\ k \in Untold(u)')
    BY <1>2, <1>5 DEF Older
  <2>2. u \in Older(k) <=>
          /\ u \in Thread /\ serial[u] < tracker[k].cutoff
          /\ u \in Holding \/ (pc[u] \in Notifying /\ k \in Untold(u))
    BY DEF Older
  <2>3. CASE u = t
    BY <2>1, <2>2, <2>3, <1>2, <1>3, <1>6 DEF Notifying
  <2>4. CASE u # t
    BY <2>1, <2>2, <2>4, <1>4
  <2>5. QED
    BY <2>3, <2>4
<1>8. ASSUME NEW k PROVE Older(k)' = Older(k)
  <2>1. \A u : u \in Older(k)' <=> u \in Older(k)
    BY <1>7
  <2> HIDE DEF Older
  <2>2. QED
    BY <2>1
<1>9. QED
  BY <1>5, <1>8

LEMMA WakeIInv ==
  ASSUME IInv, NEW t \in Thread, WakeWaiters(t)
  PROVE  IInv'
<1> DEFINE L == Len(m_trackers)
<1>1. TypeOK /\ pc \in [Thread -> PC] /\ DequeSorted
  BY DEF IInv, TypeOK
<1>2. /\ pc[t] = "waking" /\ position = 1 /\ m_trackers # << >>
      /\ tracker[m_trackers[1]].remaining = 0
      /\ m_trackers' = Tail(m_trackers)
      /\ UNCHANGED <<m_nextSerialNumber, m_tokensInFlight, m_isShuttingDown, tracker,
                     position, serial, waitsOn>>
  BY DEF WakeWaiters, IInv, WakingFront
<1>3. /\ L \in Nat /\ L >= 1 /\ Len(m_trackers') = L - 1
      /\ m_trackers' \in Seq(DOMAIN tracker)
      /\ DOMAIN m_trackers = 1 .. L /\ DOMAIN m_trackers' = 1 .. L - 1
      /\ \A j \in 1 .. L - 1 : m_trackers'[j] = m_trackers[j + 1]
  BY <1>1, <1>2, SMTT(20) DEF TypeOK
<1>4. /\ pc'[t] = "notifying"
      /\ \A u \in Thread : pc'[u] # "waking" /\ (u # t => pc'[u] \notin Notifying)
  BY <1>2 DEF WakeWaiters, WokenBy, IInv, LockExclusive, Notifying
<1>5. TypeOK'
  <2>1. \A u \in Thread : pc'[u] \in PC
    BY <1>1 DEF WakeWaiters, PC
  <2>2. pc' = [u \in Thread |-> pc'[u]]
    BY DEF WakeWaiters
  <2>3. pc' \in [Thread -> PC]
    BY <2>1, <2>2
  <2>4. QED
    BY <2>3, <1>2, <1>3 DEF IInv, TypeOK
<1>6. CountsExact' /\ NumbersIssued' /\ CutoffsSorted'
  BY <1>2, WakeOlder DEF IInv, CountsExact, TokensCounted, TrackersExact, NumbersIssued,
     CutoffsSorted
<1>7. LockExclusive' /\ PositionReset' /\ WakingFront'
  BY <1>2, <1>4 DEF LockExclusive, PositionReset, WakingFront
<1>8. DequeSorted'
  <2> SUFFICES ASSUME NEW i \in 1 .. L - 1, NEW j \in 1 .. L - 1, i < j
               PROVE  m_trackers'[i] < m_trackers'[j]
    BY <1>3 DEF DequeSorted
  <2>1. i + 1 \in DOMAIN m_trackers /\ j + 1 \in DOMAIN m_trackers /\ i + 1 < j + 1
    BY <1>3
  <2>2. m_trackers[i + 1] < m_trackers[j + 1]
    BY <2>1, <1>1 DEF DequeSorted
  <2>3. m_trackers'[i] = m_trackers[i + 1] /\ m_trackers'[j] = m_trackers[j + 1]
    BY <1>3
  <2>4. QED
    BY <2>2, <2>3
<1>9. DequeHoldsIncomplete'
  <2> SUFFICES ASSUME NEW k \in DOMAIN tracker
               PROVE  k \in Range(m_trackers') <=> (tracker[k].remaining # 0 \/ Completed(k)')
    BY <1>2 DEF DequeHoldsIncomplete
  <2>1. ~Completed(k)'
    BY <1>4 DEF Completed
  <2>2. k \in Range(m_trackers) <=> (tracker[k].remaining # 0 \/ k = m_trackers[1])
    BY <1>2 DEF IInv, DequeHoldsIncomplete, Completed
  <2>3. k \in Range(m_trackers') <=> \E j \in 1 .. L - 1 : m_trackers'[j] = k
    BY <1>3 DEF Range
  <2>4. k \in Range(m_trackers) <=> \E j \in 1 .. L : m_trackers[j] = k
    BY <1>1, DequeTyped
  <2>5. k \in Range(m_trackers') => (k \in Range(m_trackers) /\ k # m_trackers[1])
    <3> SUFFICES ASSUME NEW j \in 1 .. L - 1, m_trackers'[j] = k
                 PROVE  k \in Range(m_trackers) /\ k # m_trackers[1]
      BY <2>3
    <3>1. j + 1 \in 1 .. L /\ 1 \in 1 .. L /\ j + 1 # 1 /\ m_trackers[j + 1] = k
      BY <1>3
    <3>2. QED
      BY <3>1, <2>4, <1>1, DequeDistinct
  <2>6. (k \in Range(m_trackers) /\ k # m_trackers[1]) => k \in Range(m_trackers')
    <3> SUFFICES ASSUME NEW j \in 1 .. L, m_trackers[j] = k, k # m_trackers[1]
                 PROVE  k \in Range(m_trackers')
      BY <2>4
    <3>1. j - 1 \in 1 .. L - 1 /\ (j - 1) + 1 = j
      BY <1>3
    <3>2. m_trackers'[j - 1] = k
      BY <3>1, <1>3
    <3>3. QED
      BY <3>1, <3>2, <2>3
  <2>7. QED
    BY <2>1, <2>2, <2>5, <2>6, <1>2
<1>10. QED
  BY <1>5, <1>6, <1>7, <1>8, <1>9 DEF IInv

(* A thread that has told all of the deque is counted by nobody.           *)
LEMMA ReleaseOlder ==
  ASSUME IInv, NEW t \in Thread, ReleaseLock(t)
  PROVE  /\ Holding' = Holding /\ Owning' = Owning \ {t} /\ LockFree'
         /\ \A k : Older(k)' = Older(k)
<1>1. TypeOK /\ pc \in [Thread -> PC] /\ serial \in [Thread -> Nat]
  BY DEF IInv, TypeOK
<1>2. /\ pc[t] = "notifying" /\ pc'[t] = "released"
      /\ \A u \in Thread : u # t => pc'[u] = pc[u] /\ serial'[u] = serial[u]
      /\ position > Len(m_trackers) /\ UNCHANGED tracker
  BY <1>1 DEF ReleaseLock, Goto
<1>3. \A u \in Thread : u # t => pc[u] \notin Notifying /\ pc'[u] \notin Notifying
  BY <1>2 DEF IInv, LockExclusive, Notifying
<1>4. Holding' = Holding /\ Owning' = Owning \ {t} /\ LockFree'
  BY <1>2, <1>3 DEF Holding, Owning, LockFree, Notifying
<1>5. \A k : k \notin Untold(t)
  <2>1. Len(m_trackers) \in Nat /\ position \in Nat
    BY <1>1, DequeTyped DEF TypeOK
  <2>2. \A j \in 1 .. Len(m_trackers) : ~(position <= j)
    BY <2>1, <1>2
  <2>3. QED
    BY <2>2, <1>1, <1>2, UntoldNotifying
<1>6. ASSUME NEW k, NEW u PROVE u \in Older(k)' <=> u \in Older(k)
  <2>1. u \in Older(k)' <=>
          /\ u \in Thread /\ serial'[u] < tracker[k].cutoff
          /\ u \in Holding \/ (pc'[u] \in Notifying /\ k \in Untold(u)')
    BY <1>2, <1>4 DEF Older
  <2>2. u \in Older(k) <=>
          /\ u \in Thread /\ serial[u] < tracker[k].cutoff
          /\ u \in Holding \/ (pc[u] \in Notifying /\ k \in Untold(u))
    BY DEF Older
  <2>3. CASE u = t
    <3>1. u \notin Holding /\ pc'[u] \notin Notifying /\ k \notin Untold(u)
      BY <2>3, <1>2, <1>5 DEF Holding, Notifying
    <3>2. QED
      BY <2>1, <2>2, <3>1
  <2>4. CASE u # t
    <3>1. u \in Thread =>
            /\ serial'[u] = serial[u] /\ pc[u] \notin Notifying
            /\ pc'[u] \notin Notifying
      BY <2>4, <1>2, <1>3
    <3>2. QED
      BY <2>1, <2>2, <3>1
  <2>5. QED
    BY <2>3, <2>4
<1>7. ASSUME NEW k PROVE Older(k)' = Older(k)
  <2>1. \A u : u \in Older(k)' <=> u \in Older(k)
    BY <1>6
  <2> HIDE DEF Older
  <2>2. QED
    BY <2>1
<1>8. QED
  BY <1>4, <1>7

LEMMA ReleaseIInv ==
  ASSUME IInv, NEW t \in Thread, ReleaseLock(t)
  PROVE  IInv'
<1>1. TypeOK /\ pc \in [Thread -> PC] /\ serial \in [Thread -> Nat]
  BY DEF IInv, TypeOK
<1>2. /\ pc[t] = "notifying" /\ pc'[t] = "released" /\ position' = 1
      /\ \A u \in Thread : u # t => pc'[u] = pc[u] /\ serial'[u] = serial[u]
      /\ UNCHANGED <<m_nextSerialNumber, m_tokensInFlight, m_isShuttingDown, m_trackers,
                     tracker, waitsOn>>
  BY <1>1 DEF ReleaseLock, Goto
<1>3. TypeOK'
  <2>1. pc' \in [Thread -> PC] /\ serial' \in [Thread -> Nat]
    BY <1>1 DEF ReleaseLock, Goto, PC
  <2>2. QED
    BY <2>1, <1>2 DEF IInv, TypeOK
<1>4. CountsExact' /\ CutoffsSorted' /\ DequeSorted'
  BY <1>2, ReleaseOlder
  DEF IInv, CountsExact, TokensCounted, TrackersExact, CutoffsSorted, DequeSorted
<1>5. NumbersIssued'
  <2>1. \A u \in Owning \ {t} : serial'[u] = serial[u]
    BY <1>2 DEF Owning
  <2>2. QED
    BY <2>1, <1>2, ReleaseOlder DEF IInv, NumbersIssued
<1>6. \A u \in Thread : pc[u] # "waking" /\ pc'[u] \notin Notifying /\ pc'[u] # "waking"
  BY <1>2 DEF IInv, LockExclusive, Notifying
<1>7. LockExclusive' /\ PositionReset' /\ WakingFront'
  BY <1>2, <1>6 DEF LockExclusive, PositionReset, WakingFront
<1>8. DequeHoldsIncomplete'
  BY <1>2, <1>6 DEF IInv, DequeHoldsIncomplete, Completed
<1>9. QED
  BY <1>3, <1>4, <1>5, <1>7, <1>8 DEF IInv

(* What a thread does that owns no token changes nothing of the above.     *)
Quiet(t) ==
  \/ RequestToken(t) \/ TestShutdown(t) \/ SignalShutdown(t)
  \/ Shutdown(t) \/ TestInFlight(t) \/ ParkShutdown(t) \/ ResumeShutdown(t)
  \/ SpuriousWake(t) \/ TestComplete(t) \/ ParkTracking(t)
  \/ \E k \in DOMAIN tracker : WaitForCompletion(t, k)

LEMMA NextCases ==
  ASSUME NEW t \in Thread,
         \/ RequestToken(t) \/ IssueToken(t) \/ OnTokenComplete(t)
         \/ Tracking(t) \/ ShuttingDown(t) \/ SpuriousWake(t)
  PROVE  \/ IssueToken(t) \/ StartTracker(t) \/ DropToken(t) \/ TellTracker(t)
         \/ WakeWaiters(t) \/ ReleaseLock(t) \/ Quiet(t)
BY Zenon DEF OnTokenComplete, Tracking, ShuttingDown, Quiet

LEMMA QuietSame ==
  ASSUME TypeOK, NEW t \in Thread, Quiet(t)
  PROVE  /\ UNCHANGED <<m_nextSerialNumber, m_tokensInFlight, tracker>>
         /\ SameOwners /\ TypeOK'
<1>1. pc \in [Thread -> PC] /\ \A k \in DOMAIN tracker : k \in Nat
  BY TrackerTyped DEF TypeOK
<1>2. UNCHANGED <<m_nextSerialNumber, m_tokensInFlight, m_trackers, tracker, position,
                  serial>>
  BY DEF Quiet, RequestToken, TestShutdown, SignalShutdown, Shutdown, TestInFlight,
     ParkShutdown, ResumeShutdown, SpuriousWake, TestComplete, ParkTracking,
     WaitForCompletion, managerVars
<1>3. \A u \in Thread : /\ pc'[u] = "holding" <=> pc[u] = "holding"
                        /\ pc'[u] = "notifying" <=> pc[u] = "notifying"
                        /\ pc'[u] = "waking" <=> pc[u] = "waking"
  BY <1>1 DEF Quiet, RequestToken, TestShutdown, SignalShutdown, Shutdown, TestInFlight,
     ParkShutdown, ResumeShutdown, SpuriousWake, TestComplete, ParkTracking,
     WaitForCompletion, Goto
<1>4. waitsOn' \in [Thread -> Nat] /\ m_isShuttingDown' \in BOOLEAN
  <2>1. \/ waitsOn' = waitsOn
        \/ \E k \in DOMAIN tracker \cup {0} : waitsOn' = [waitsOn EXCEPT ![t] = k]
    BY DEF Quiet, RequestToken, TestShutdown, SignalShutdown, Shutdown, TestInFlight,
       ParkShutdown, ResumeShutdown, SpuriousWake, TestComplete, ParkTracking,
       WaitForCompletion
  <2>2. waitsOn' \in [Thread -> Nat]
    <3>1. waitsOn \in [Thread -> Nat] /\ \A k \in DOMAIN tracker \cup {0} : k \in Nat
      BY <1>1 DEF TypeOK
    <3>2. QED
      BY <2>1, <3>1
  <2>3. m_isShuttingDown' = m_isShuttingDown \/ m_isShuttingDown' = TRUE
    BY DEF Quiet, RequestToken, TestShutdown, SignalShutdown, Shutdown, TestInFlight,
       ParkShutdown, ResumeShutdown, SpuriousWake, TestComplete, ParkTracking,
       WaitForCompletion, managerVars
  <2>4. m_isShuttingDown' \in BOOLEAN
    BY <2>3 DEF TypeOK
  <2>5. QED
    BY <2>2, <2>4
<1>5. pc' \in [Thread -> PC]
  BY <1>1 DEF Quiet, RequestToken, TestShutdown, SignalShutdown, Shutdown, TestInFlight,
     ParkShutdown, ResumeShutdown, SpuriousWake, TestComplete, ParkTracking,
     WaitForCompletion, Goto, PC
<1>6. QED
  BY <1>2, <1>3, <1>4, <1>5 DEF TypeOK, SameOwners

LEMMA NextIInv == IInv /\ [Next]_vars => IInv'
<1> SUFFICES ASSUME IInv, [Next]_vars PROVE IInv'
  OBVIOUS
<1>1. CASE UNCHANGED vars
  BY <1>1, QuietStep DEF vars, IInv, TypeOK, SameOwners
<1>2. CASE Next
  <2>1. PICK t \in Thread :
          \/ IssueToken(t) \/ StartTracker(t) \/ DropToken(t) \/ TellTracker(t)
          \/ WakeWaiters(t) \/ ReleaseLock(t) \/ Quiet(t)
    BY <1>2, NextCases DEF Next
  <2>2. CASE Quiet(t)
    BY <2>2, QuietSame, QuietStep DEF IInv
  <2>3. QED
    BY <2>1, <2>2, IssueIInv, StartIInv, DropIInv, TellIInv, WakeIInv, ReleaseIInv
<1>3. QED
  BY <1>1, <1>2

-----------------------------------------------------------------------------
(* The inductive invariant holds in every reachable state.                 *)
THEOREM Invariant == Spec => []IInv
<1>1. QED
  BY InitIInv, NextIInv, PTL DEF Spec

(* The variables have their types; in particular no tracker's count ever   *)
(* runs below zero (the assertion "token count underflow").                *)
THEOREM TypeCorrect == Spec => []TypeOK
<1>1. IInv => TypeOK
  BY DEF IInv
<1>2. QED
  BY <1>1, Invariant, PTL

(* The manager's count and every tracker's count are exact.                *)
THEOREM CountsAreExact == Spec => []CountsExact
<1>1. IInv => CountsExact
  BY DEF IInv
<1>2. QED
  BY <1>1, Invariant, PTL

(* The assertion "Tracker completed out of order" never fails: whatever    *)
(* the order of returns, only the front of the deque is ever completed.    *)
THEOREM InOrder == Spec => []TrackersCompleteInOrder
<1>1. IInv => TrackersCompleteInOrder
  BY DEF IInv, WakingFront, TrackersCompleteInOrder
<1>2. QED
  BY <1>1, Invariant, PTL

-----------------------------------------------------------------------------
(* Under the refinement mapping.                                           *)
Blockers == [k \in DOMAIN tracker |-> Older(k)]
Over     == {k \in DOMAIN tracker : tracker[k].remaining = 0}

LEMMA OverIsElapsed == IInv => Over = {k \in DOMAIN Blockers : Blockers[k] = {}}
<1> SUFFICES ASSUME IInv, NEW k \in DOMAIN tracker
             PROVE  tracker[k].remaining = 0 <=> Older(k) = {}
  BY DEF Over, Blockers
<1>1. QED
  BY OlderFinite, FS_EmptySet DEF IInv, CountsExact, TrackersExact

LEMMA OverIsElapsedNext == IInv' => Over' = Promise!Elapsed(Blockers')
<1>1. IInv' => (Over = {k \in DOMAIN Blockers : Blockers[k] = {}})'
  BY OverIsElapsed, PTL
<1>2. QED
  BY <1>1 DEF Promise!Elapsed

(* Where neither the holders nor whom each tracker counts change, the      *)
(* abstract state does not change.                                         *)
LEMMA StutterStep ==
  ASSUME Holding' = Holding, tracker' = tracker, \A k : Older(k)' = Older(k)
  PROVE  UNCHANGED <<Holding, Blockers, Over>>
BY DEF Blockers, Over

LEMMA IssueEnters ==
  ASSUME IInv, NEW t \in Thread, IssueToken(t)
  PROVE  /\ t \notin Holding /\ Holding' = Holding \cup {t}
         /\ \A k \in DOMAIN Blockers : t \notin Blockers[k]
         /\ UNCHANGED <<Blockers, Over>>
<1>1. tracker' = tracker
  BY DEF IssueToken
<1>2. \A k \in DOMAIN tracker : Older(k)' = Older(k) /\ t \notin Older(k)
  BY IssueOlder
<1>3. UNCHANGED <<Blockers, Over>>
  BY <1>1, <1>2 DEF Blockers, Over
<1>4. QED
  BY <1>2, <1>3, IssueOlder DEF Blockers

LEMMA DropLeaves ==
  ASSUME IInv, NEW t \in Thread, DropToken(t)
  PROVE  /\ t \in Holding /\ Holding' = Holding \ {t}
         /\ UNCHANGED <<Blockers, Over>>
<1>1. tracker' = tracker
  BY DEF DropToken
<1>2. UNCHANGED <<Blockers, Over>>
  BY <1>1, DropOlder DEF Blockers, Over
<1>3. QED
  BY <1>2, DropOlder

LEMMA StartStarts ==
  ASSUME IInv, NEW t \in Thread, StartTracker(t)
  PROVE  Holding' = Holding /\ Blockers' = Append(Blockers, Holding)
<1> USE DEF StartTracker, PushTracker
<1>1. tracker \in Seq(TrackerState) /\ Len(tracker) \in Nat /\ m_nextSerialNumber \in Nat
  BY BoundAssumption DEF IInv, TypeOK
<1>2. Holding' = Holding /\ \A u \in Thread : pc[u] \notin Notifying
  BY DEF Holding, LockFree
<1>3. \A u \in Holding : serial[u] < m_nextSerialNumber
  BY DEF IInv, NumbersIssued, Owning, Holding
<1>4. /\ DOMAIN tracker = 1 .. Len(tracker)
      /\ DOMAIN tracker' = 1 .. Len(tracker) + 1
      /\ \A k \in 1 .. Len(tracker) : tracker'[k] = tracker[k]
      /\ tracker'[Len(tracker) + 1].cutoff = m_nextSerialNumber
  BY <1>1
<1>5. ASSUME NEW k \in 1 .. Len(tracker) PROVE Older(k)' = Older(k)
  BY <1>4, <1>5, <1>2 DEF Older, Holding
<1>6. ASSUME NEW k, k = Len(tracker) + 1 PROVE Older(k)' = Holding
  <2>1. Older(k)' = {u \in Holding : serial[u] < tracker'[k].cutoff}
    BY <1>2 DEF Older, Holding
  <2>2. QED
    BY <2>1, <1>3, <1>4, <1>6
<1>7. Blockers \in Seq(SUBSET Thread) /\ Len(Blockers) = Len(tracker)
  BY <1>1, <1>4 DEF Blockers, Older
<1>8. Blockers' = [k \in 1 .. Len(tracker) + 1 |->
                     IF k = Len(tracker) + 1 THEN Holding ELSE Blockers[k]]
  <2>1. \A k \in 1 .. Len(tracker) : Blockers[k] = Older(k)
    BY <1>4 DEF Blockers
  <2>2. Blockers' = [k \in 1 .. Len(tracker) + 1 |-> Older(k)']
    BY <1>4 DEF Blockers
  <2>3. ASSUME NEW k \in 1 .. Len(tracker) + 1
        PROVE  Older(k)' = IF k = Len(tracker) + 1 THEN Holding ELSE Blockers[k]
    <3>1. CASE k = Len(tracker) + 1
      BY <3>1, <1>6
    <3>2. CASE k # Len(tracker) + 1
      <4>1. k \in 1 .. Len(tracker)
        BY <3>2, <1>1
      <4>2. QED
        BY <4>1, <3>2, <2>1, <1>5
    <3>3. QED
      BY <3>1, <3>2
  <2>4. QED
    BY <2>2, <2>3, Zenon
<1>9. Holding \in SUBSET Thread
  BY DEF Holding
<1> DEFINE A == Append(Blockers, Holding)
<1>10. /\ A \in Seq(SUBSET Thread) /\ Len(A) = Len(Blockers) + 1
       /\ \A k \in 1 .. Len(Blockers) : A[k] = Blockers[k]
       /\ A[Len(Blockers) + 1] = Holding
  BY <1>7, <1>9, AppendProperties
<1> HIDE DEF StartTracker, A
<1>11. A = [k \in 1 .. Len(A) |-> A[k]]
  BY <1>10
<1>12. Blockers' = A
  BY <1>1, <1>7, <1>8, <1>10, <1>11
<1>13. QED
  BY <1>2, <1>12 DEF A

(* Telling a tracker that counts the thread is the abstract Tell; telling  *)
(* one that does not changes nothing.                                      *)
LEMMA TellTells ==
  ASSUME IInv, NEW t \in Thread, TellTracker(t)
  PROVE  /\ Holding' = Holding
         /\ \/ /\ m_trackers[position] \in DOMAIN Blockers
               /\ t \in Blockers[m_trackers[position]] \ Holding
               /\ Blockers' = [Blockers EXCEPT ![m_trackers[position]] = @ \ {t}]
            \/ UNCHANGED <<Blockers, Over>>
<1>1. PICK b : b = m_trackers[position]
  OBVIOUS
<1>2. /\ Holding' = Holding /\ t \notin Holding /\ b \in DOMAIN tracker
      /\ DOMAIN tracker' = DOMAIN tracker
      /\ (t \in Older(b)) <=> (serial[t] < tracker[b].cutoff)
      /\ \A k \in DOMAIN tracker :
           Older(k)' = IF k = b THEN Older(k) \ {t} ELSE Older(k)
  BY <1>1, TellOlder
<1>3. Blockers' = [k \in DOMAIN tracker |-> IF k = b THEN Older(k) \ {t} ELSE Older(k)]
  <2>1. Blockers' = [k \in DOMAIN tracker |-> Older(k)']
    BY <1>2 DEF Blockers
  <2>2. QED
    BY <2>1, <1>2, Zenon
<1>4. Blockers = [k \in DOMAIN tracker |-> Older(k)]
  BY DEF Blockers
<1>5. CASE t \in Older(b)
  <2>1. b \in DOMAIN Blockers /\ t \in Blockers[b] \ Holding
    BY <1>2, <1>4, <1>5
  <2>2. [Blockers EXCEPT ![b] = @ \ {t}] =
          [k \in DOMAIN tracker |-> IF k = b THEN Older(k) \ {t} ELSE Older(k)]
    BY <1>4
  <2>3. QED
    BY <2>1, <2>2, <1>1, <1>2, <1>3
<1>6. CASE t \notin Older(b)
  <2>1. Older(b) \ {t} = Older(b)
    BY <1>6
  <2>2. Blockers' = Blockers
    BY <2>1, <1>3, <1>4
  <2>3. tracker' = tracker
    BY <1>1, <1>2, <1>6 DEF TellTracker, Counted
  <2>4. Over' = Over
    BY <2>3 DEF Over
  <2>5. QED
    BY <2>2, <2>4, <1>2
<1>7. QED
  BY <1>5, <1>6

(* The token manager implements grace periods.                             *)
THEOREM ImplementsGracePeriod == Spec => GracePeriodSpec
<1>1. Init => Promise!Init
  <2> SUFFICES ASSUME Init PROVE Promise!Init
    OBVIOUS
  <2>1. Holding = {} /\ Over = {}
    BY DEF Init, Holding, Over
  <2>2. Blockers = << >>
    BY DEF Init, Blockers
  <2>3. QED
    BY <2>1, <2>2 DEF Promise!Init, Blockers, Over
<1>2. IInv /\ IInv' /\ [Next]_vars => [Promise!Next]_Promise!vars
  <2> SUFFICES ASSUME IInv, IInv', [Next]_vars
               PROVE  Promise!Next \/ UNCHANGED <<Holding, Blockers, Over>>
    BY DEF Promise!vars, Blockers, Over
  <2>1. CASE UNCHANGED vars
    <3>1. SameOwners /\ tracker' = tracker
      BY <2>1 DEF vars, SameOwners
    <3>2. QED
      BY <3>1, SameOlder, StutterStep
  <2>2. ASSUME NEW t \in Thread, IssueToken(t)
        PROVE  Promise!Next
    BY <2>2, IssueEnters DEF Promise!Next, Promise!Enter, Blockers, Over
  <2>3. ASSUME NEW t \in Thread, DropToken(t)
        PROVE  Promise!Next
    BY <2>3, DropLeaves DEF Promise!Next, Promise!Leave, Blockers, Over
  <2>4. ASSUME NEW t \in Thread, StartTracker(t)
        PROVE  Promise!Next
    BY <2>4, StartStarts, OverIsElapsedNext DEF Promise!Next, Promise!Start, Blockers, Over
  <2>5. ASSUME NEW t \in Thread, TellTracker(t)
        PROVE  Promise!Next \/ UNCHANGED <<Holding, Blockers, Over>>
    <3>1. PICK b : b = m_trackers[position]
      OBVIOUS
    <3>2. Over' = Promise!Elapsed(Blockers')
      BY OverIsElapsedNext
    <3>3. CASE /\ Holding' = Holding
               /\ b \in DOMAIN Blockers /\ t \in Blockers[b] \ Holding
               /\ Blockers' = [Blockers EXCEPT ![b] = @ \ {t}]
      BY <3>2, <3>3 DEF Promise!Next, Promise!Tell, Blockers, Over
    <3>4. QED
      BY <2>5, <3>1, <3>3, TellTells
  <2>6. ASSUME NEW t \in Thread, WakeWaiters(t)
        PROVE  UNCHANGED <<Holding, Blockers, Over>>
    <3>1. tracker' = tracker
      BY <2>6 DEF WakeWaiters
    <3>2. QED
      BY <2>6, <3>1, WakeOlder, StutterStep
  <2>7. ASSUME NEW t \in Thread, ReleaseLock(t)
        PROVE  UNCHANGED <<Holding, Blockers, Over>>
    <3>1. tracker' = tracker
      BY <2>7 DEF ReleaseLock
    <3>2. QED
      BY <2>7, <3>1, ReleaseOlder, StutterStep
  <2>8. ASSUME NEW t \in Thread, Quiet(t)
        PROVE  UNCHANGED <<Holding, Blockers, Over>>
    <3>1. SameOwners /\ tracker' = tracker
      BY <2>8, QuietSame DEF IInv
    <3>2. QED
      BY <3>1, SameOlder, StutterStep
  <2>9. CASE Next
    <3>1. PICK t \in Thread :
            \/ IssueToken(t) \/ StartTracker(t) \/ DropToken(t) \/ TellTracker(t)
            \/ WakeWaiters(t) \/ ReleaseLock(t) \/ Quiet(t)
      BY <2>9, NextCases DEF Next
    <3>2. QED
      BY <3>1, <2>2, <2>3, <2>4, <2>5, <2>6, <2>7, <2>8
  <2>10. QED
    BY <2>1, <2>9
<1>3. QED
  BY <1>1, <1>2, Invariant, PTL DEF Spec, GracePeriodSpec, Promise!Spec
=============================================================================
