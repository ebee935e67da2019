------------------------- MODULE BlockingQueueProofs -------------------------
(***************************************************************************)
(* Proofs about BlockingQueue, for any numbers of threads and any capacity.*)
(* That one notification per operation is enough is a counting argument:   *)
(* see WakeUpsSuffice, which needs the places where threads can be.        *)
(***************************************************************************)
EXTENDS BlockingQueue, FiniteSetTheorems, SequenceTheorems, TLAPS

(* A thread of a kind is only ever in an operation of its kind, and an     *)
(* operation that runs has been prepared for.                              *)
Places ==
  /\ \A p \in Producer : pc[p] \in {"idle", "enqueue", "enqueueWait"}
  /\ \A c \in Consumer : pc[c] \in {"dequeue", "dequeueWait", "process", "exited"}
  /\ \A o \in Owner : pc[o] \in {"idle", "wakeConsumers", "wakeProducers", "spin", "closed"}
  /\ \A p \in Producer : pc[p] # "idle" => offered[p] \in 1 .. MaxItems
  /\ \A o \in Owner : pc[o] # "idle" => m_shutdown

IInv ==
  /\ TypeOK
  /\ Places
  /\ FinishedIsDrained
  /\ WakeUpsSuffice
  /\ NobodyLeftAsleep

LEMMA AtFinite ==
  ASSUME NEW l
  PROVE  IsFiniteSet(At(l)) /\ Cardinality(At(l)) \in Nat
<1>1. IsFiniteSet(Thread)
  BY QueueAssumption, FS_Union DEF Thread
<1>2. QED
  BY <1>1, FS_Subset, FS_CardinalityType DEF At

LEMMA AtAdd ==
  ASSUME NEW S, IsFiniteSet(S), NEW t, t \notin S
  PROVE  Cardinality(S \cup {t}) = Cardinality(S) + 1
BY FS_AddElement

LEMMA AtRemove ==
  ASSUME NEW S, IsFiniteSet(S), NEW t \in S
  PROVE  Cardinality(S \ {t}) = Cardinality(S) - 1
BY FS_RemoveElement

LEMMA InitIInv == Init => IInv
<1> SUFFICES ASSUME Init PROVE IInv
  OBVIOUS
<1>1. pc \in [Thread -> PC] /\ offered \in [Producer -> 0 .. MaxItems]
  BY QueueAssumption DEF Init, PC
<1>2. m_queue \in Seq(Item) /\ Len(m_queue) = 0 /\ m_queue = << >>
  BY DEF Init
<1>3. TypeOK
  <2>1. m_shutdown \in BOOLEAN /\ m_finished \in BOOLEAN
    BY DEF Init
  <2>2. QED
    BY <1>1, <1>2, <2>1, QueueAssumption DEF TypeOK
<1>4. Places /\ FinishedIsDrained
  BY QueueAssumption DEF Init, Places, FinishedIsDrained, Thread
<1>5. At("dequeueWait") = {} /\ At("enqueueWait") = {}
  BY DEF Init, At, Thread
<1>6. QED
  BY <1>3, <1>4, <1>5 DEF IInv, WakeUpsSuffice, NobodyLeftAsleep

(* What a step that sends thread t from one place to another, and no other *)
(* thread anywhere, does to the sets of threads at each place.             *)
LEMMA GotoMoves ==
  ASSUME pc \in [Thread -> PC], NEW t \in Thread, NEW from, NEW to \in PC,
         from # to, Goto(t, from, to)
  PROVE  /\ pc' \in [Thread -> PC]
         /\ At(from)' = At(from) \ {t} /\ t \in At(from)
         /\ At(to)' = At(to) \cup {t} /\ t \notin At(to)
         /\ \A l : l # from /\ l # to => At(l)' = At(l)
         /\ \A u \in Thread : u # t => pc'[u] = pc[u]
         /\ pc'[t] = to /\ pc[t] = from
BY DEF Goto, At

LEMMA NotifyOneMoves ==
  ASSUME pc \in [Thread -> PC], NEW t \in Thread, NEW from, pc[t] = from,
         NEW to \in PC, NEW waiting, NEW ready \in PC,
         from # to, from # waiting, from # ready,
         to # waiting, to # ready, waiting # ready,
         GotoNotifyOne(t, to, waiting, ready)
  PROVE  /\ pc' \in [Thread -> PC]
         /\ At(from)' = At(from) \ {t} /\ t \in At(from)
         /\ \/ At(waiting) = {} /\ At(waiting)' = {} /\ At(ready)' = At(ready)
            \/ \E w \in At(waiting) : At(ready)' = At(ready) \cup {w} /\ w \notin At(ready)
         /\ At(waiting)' \subseteq At(waiting)
         /\ \A l : l \notin {from, to, waiting, ready} => At(l)' = At(l)
         /\ \A u \in Thread : u # t => pc'[u] = pc[u] \/ (pc[u] = waiting /\ pc'[u] = ready)
         /\ pc'[t] = to
<1>1. CASE At(waiting) = {}
  BY <1>1 DEF GotoNotifyOne, At
<1>2. ASSUME NEW w \in At(waiting), pc' = [pc EXCEPT ![t] = to, ![w] = ready]
      PROVE  /\ pc' \in [Thread -> PC]
             /\ At(from)' = At(from) \ {t} /\ t \in At(from)
             /\ At(ready)' = At(ready) \cup {w} /\ w \notin At(ready)
             /\ At(waiting)' \subseteq At(waiting)
             /\ \A l : l \notin {from, to, waiting, ready} => At(l)' = At(l)
             /\ \A u \in Thread : u # t => pc'[u] = pc[u] \/ (pc[u] = waiting /\ pc'[u] = ready)
             /\ pc'[t] = to
  <2>1. w \in Thread /\ pc[w] = waiting /\ w # t
    BY DEF At
  <2>2. pc' \in [Thread -> PC] /\ pc'[t] = to /\ pc'[w] = ready
        /\ \A u \in Thread : u # t /\ u # w => pc'[u] = pc[u]
    BY <1>2, <2>1
  <2>3. QED
    BY <2>1, <2>2 DEF At
<1>3. QED
  BY <1>1, <1>2 DEF GotoNotifyOne

-----------------------------------------------------------------------------
(* One lemma per action.                                                   *)
LEMMA Typed ==
  ASSUME IInv
  PROVE  /\ pc \in [Thread -> PC] /\ offered \in [Producer -> 0 .. MaxItems]
         /\ m_queue \in Seq(Item) /\ Len(m_queue) \in Nat /\ Len(m_queue) <= m_capacity
         /\ m_shutdown \in BOOLEAN /\ m_finished \in BOOLEAN
         /\ m_capacity \in Nat /\ MaxItems \in Nat
         /\ Producer \subseteq Thread /\ Consumer \subseteq Thread /\ Owner \subseteq Thread
BY QueueAssumption DEF IInv, TypeOK, Thread

LEMMA OfferIInv ==
  ASSUME IInv, NEW p \in Producer, Offer(p)
  PROVE  IInv'
<1> USE DEF Offer
<1>1. /\ pc' \in [Thread -> PC] /\ At("enqueue")' = At("enqueue") \cup {p}
      /\ p \notin At("enqueue")
      /\ \A l : l \notin {"idle", "enqueue"} => At(l)' = At(l)
      /\ \A u \in Thread : u # p => pc'[u] = pc[u]
      /\ pc'[p] = "enqueue" /\ pc[p] = "idle"
  BY Typed, GotoMoves DEF PC
<1>2. TypeOK'
  BY Typed, <1>1 DEF IInv, TypeOK
<1>3. Places'
  BY Typed, <1>1, QueueAssumption, SMTT(20) DEF IInv, Places
<1>4. WakeUpsSuffice'
  <2>1. Cardinality(At("enqueue")') = Cardinality(At("enqueue")) + 1
    BY <1>1, AtFinite, AtAdd
  <2>2. At("dequeue")' = At("dequeue") /\ At("dequeueWait")' = At("dequeueWait")
        /\ At("enqueueWait")' = At("enqueueWait")
    BY <1>1
  <2>3. QED
    BY Typed, <2>1, <2>2, AtFinite DEF IInv, WakeUpsSuffice
<1>5. FinishedIsDrained' /\ NobodyLeftAsleep'
  BY <1>1 DEF IInv, FinishedIsDrained, NobodyLeftAsleep
<1>6. QED
  BY <1>2, <1>3, <1>4, <1>5 DEF IInv

LEMMA WaitToEnqueueIInv ==
  ASSUME IInv, NEW p \in Producer, WaitToEnqueue(p)
  PROVE  IInv'
<1> USE DEF WaitToEnqueue
<1>1. /\ pc' \in [Thread -> PC]
      /\ \A l : l \notin {"enqueue", "enqueueWait"} => At(l)' = At(l)
      /\ \A u \in Thread : u # p => pc'[u] = pc[u]
      /\ pc'[p] = "enqueueWait" /\ pc[p] = "enqueue"
  BY Typed, GotoMoves DEF PC
<1>2. TypeOK'
  BY Typed, <1>1 DEF IInv, TypeOK
<1>3. Places'
  BY Typed, <1>1, QueueAssumption DEF IInv, Places
<1>4. WakeUpsSuffice'
  <2>1. Cardinality(At("enqueue")') \in Nat
    <3>1. IsFiniteSet(At("enqueue")')
      BY QueueAssumption, FS_Union, FS_Subset DEF At, Thread
    <3>2. QED
      BY <3>1, FS_CardinalityType
  <2>2. m_capacity - Len(m_queue) = 0
    BY Typed DEF Full
  <2>3. QED
    BY Typed, <1>1, <2>1, <2>2 DEF IInv, WakeUpsSuffice
<1>5. FinishedIsDrained' /\ NobodyLeftAsleep'
  BY <1>1 DEF IInv, FinishedIsDrained, NobodyLeftAsleep
<1>6. QED
  BY <1>2, <1>3, <1>4, <1>5 DEF IInv

LEMMA RefuseIInv ==
  ASSUME IInv, NEW p \in Producer, Refuse(p)
  PROVE  IInv'
<1> USE DEF Refuse
<1>1. /\ pc' \in [Thread -> PC]
      /\ \A l : l \notin {"enqueue", "idle"} => At(l)' = At(l)
      /\ \A u \in Thread : u # p => pc'[u] = pc[u]
      /\ pc'[p] = "idle" /\ pc[p] = "enqueue"
  BY Typed, GotoMoves DEF PC
<1>2. TypeOK'
  BY Typed, <1>1 DEF IInv, TypeOK
<1>3. Places'
  BY Typed, <1>1, QueueAssumption DEF IInv, Places
<1>4. WakeUpsSuffice' /\ FinishedIsDrained' /\ NobodyLeftAsleep'
  BY <1>1 DEF IInv, WakeUpsSuffice, FinishedIsDrained, NobodyLeftAsleep
<1>5. QED
  BY <1>2, <1>3, <1>4 DEF IInv

LEMMA EnqueueIInv ==
  ASSUME IInv, NEW p \in Producer, Enqueue(p)
  PROVE  IInv'
<1> USE DEF Enqueue
<1>1. /\ pc' \in [Thread -> PC]
      /\ At("enqueue")' = At("enqueue") \ {p} /\ p \in At("enqueue")
      /\ \/ At("dequeueWait") = {} /\ At("dequeueWait")' = {}
         \/ \E w : At("dequeue")' = At("dequeue") \cup {w} /\ w \notin At("dequeue")
      /\ At("dequeueWait")' \subseteq At("dequeueWait")
      /\ \A l : l \notin {"enqueue", "idle", "dequeueWait", "dequeue"} => At(l)' = At(l)
      /\ \A u \in Thread : u # p => pc'[u] = pc[u]
                                    \/ (pc[u] = "dequeueWait" /\ pc'[u] = "dequeue")
      /\ pc'[p] = "idle" /\ pc[p] = "enqueue"
  <2>1. "idle" \in PC /\ "dequeue" \in PC
    BY DEF PC
  <2>2. p \in Thread /\ pc[p] = "enqueue" /\ pc \in [Thread -> PC]
    BY Typed
  <2>3. GotoNotifyOne(p, "idle", "dequeueWait", "dequeue")
    OBVIOUS
  <2> HIDE DEF Enqueue
  <2>4. QED
    BY <2>1, <2>2, <2>3, NotifyOneMoves
<1>2. m_queue' \in Seq(Item) /\ Len(m_queue') = Len(m_queue) + 1 /\ Len(m_queue') <= m_capacity
  <2>1. <<p, offered[p]>> \in Item
    BY Typed, <1>1 DEF IInv, Places, Item
  <2>2. QED
    BY Typed, <2>1 DEF Full
<1>3. TypeOK'
  BY Typed, <1>1, <1>2 DEF IInv, TypeOK
<1>4. Places'
  BY Typed, <1>1, QueueAssumption DEF IInv, Places
<1>5. WakeUpsSuffice'
  <2> DEFINE E == At("enqueue")
             D == At("dequeue")
  <2>1. IsFiniteSet(D) /\ IsFiniteSet(E) /\ Cardinality(E) \in Nat /\ Cardinality(D) \in Nat
    BY AtFinite
  <2>2. Cardinality(E') = Cardinality(E) - 1
    BY <1>1, <2>1, AtRemove
  <2>3. At("dequeueWait")' = {} \/ Cardinality(D') = Cardinality(D) + 1
    BY <1>1, <2>1, AtAdd
  <2>4. At("dequeueWait")' # {} => At("dequeueWait") # {}
    BY <1>1
  <2>5. At("enqueueWait")' = At("enqueueWait")
    BY <1>1
  <2> HIDE DEF E, D
  <2>6. At("dequeueWait")' # {} => Len(m_queue') <= Cardinality(D')
    BY Typed, <1>2, <2>1, <2>3, <2>4 DEF IInv, WakeUpsSuffice, D
  <2>7. At("enqueueWait")' # {} => m_capacity - Len(m_queue') <= Cardinality(E')
    BY Typed, <1>2, <2>1, <2>2, <2>5 DEF IInv, WakeUpsSuffice, E
  <2>8. QED
    BY <2>6, <2>7 DEF WakeUpsSuffice, D, E
<1>6. FinishedIsDrained' /\ NobodyLeftAsleep'
  BY <1>1 DEF IInv, FinishedIsDrained, NobodyLeftAsleep
<1>7. QED
  BY <1>3, <1>4, <1>5, <1>6 DEF IInv

LEMMA DequeueIInv ==
  ASSUME IInv, NEW c \in Consumer, Dequeue(c)
  PROVE  IInv'
<1> USE DEF Dequeue
<1>1. /\ pc' \in [Thread -> PC]
      /\ At("dequeue")' = At("dequeue") \ {c} /\ c \in At("dequeue")
      /\ \/ At("enqueueWait") = {} /\ At("enqueueWait")' = {}
         \/ \E w : At("enqueue")' = At("enqueue") \cup {w} /\ w \notin At("enqueue")
      /\ At("enqueueWait")' \subseteq At("enqueueWait")
      /\ \A l : l \notin {"dequeue", "process", "enqueueWait", "enqueue"} => At(l)' = At(l)
      /\ \A u \in Thread : u # c => pc'[u] = pc[u]
                                    \/ (pc[u] = "enqueueWait" /\ pc'[u] = "enqueue")
      /\ pc'[c] = "process" /\ pc[c] = "dequeue"
  <2>1. "process" \in PC /\ "enqueue" \in PC
    BY DEF PC
  <2>2. c \in Thread /\ pc[c] = "dequeue" /\ pc \in [Thread -> PC]
    BY Typed
  <2>3. GotoNotifyOne(c, "process", "enqueueWait", "enqueue")
    OBVIOUS
  <2> HIDE DEF Dequeue
  <2>4. QED
    BY <2>1, <2>2, <2>3, NotifyOneMoves
<1>2. m_queue' \in Seq(Item) /\ Len(m_queue') = Len(m_queue) - 1 /\ Len(m_queue) # 0
  BY Typed, HeadTailProperties, EmptySeq
<1>3. TypeOK'
  <2>1. m_finished' \in BOOLEAN
    BY Typed
  <2>2. QED
    BY Typed, <1>1, <1>2, <2>1 DEF IInv, TypeOK
<1>4. Places'
  BY Typed, <1>1, QueueAssumption DEF IInv, Places
<1>5. WakeUpsSuffice'
  <2> DEFINE E == At("enqueue")
             D == At("dequeue")
  <2>1. IsFiniteSet(D) /\ IsFiniteSet(E) /\ Cardinality(E) \in Nat /\ Cardinality(D) \in Nat
    BY AtFinite
  <2>2. Cardinality(D') = Cardinality(D) - 1
    BY <1>1, <2>1, AtRemove
  <2>3. At("enqueueWait")' = {} \/ Cardinality(E') = Cardinality(E) + 1
    BY <1>1, <2>1, AtAdd
  <2>4. At("enqueueWait")' # {} => At("enqueueWait") # {}
    BY <1>1
  <2>5. At("dequeueWait")' = At("dequeueWait")
    BY <1>1
  <2> HIDE DEF E, D
  <2>6. At("dequeueWait")' # {} => Len(m_queue') <= Cardinality(D')
    BY Typed, <1>2, <2>1, <2>2, <2>5 DEF IInv, WakeUpsSuffice, D
  <2>7. At("enqueueWait")' # {} /\ ~m_shutdown' => m_capacity - Len(m_queue') <= Cardinality(E')
    BY Typed, <1>2, <2>1, <2>3, <2>4 DEF IInv, WakeUpsSuffice, E
  <2>8. QED
    BY <2>6, <2>7 DEF WakeUpsSuffice, D, E
<1>6. FinishedIsDrained' /\ NobodyLeftAsleep'
  BY <1>1 DEF IInv, FinishedIsDrained, NobodyLeftAsleep
<1>7. QED
  BY <1>3, <1>4, <1>5, <1>6 DEF IInv

LEMMA WaitToDequeueIInv ==
  ASSUME IInv, NEW c \in Consumer, WaitToDequeue(c)
  PROVE  IInv'
<1> USE DEF WaitToDequeue
<1>1. /\ pc' \in [Thread -> PC]
      /\ At("dequeue")' = At("dequeue") \ {c} /\ c \in At("dequeue")
      /\ At("dequeueWait")' = At("dequeueWait") \cup {c} /\ c \notin At("dequeueWait")
      /\ \A l : l \notin {"dequeue", "dequeueWait"} => At(l)' = At(l)
      /\ \A u \in Thread : u # c => pc'[u] = pc[u]
      /\ pc'[c] = "dequeueWait" /\ pc[c] = "dequeue"
  BY Typed, GotoMoves DEF PC
<1>2. TypeOK'
  BY Typed, <1>1 DEF IInv, TypeOK
<1>3. Places'
  BY Typed, <1>1, QueueAssumption DEF IInv, Places
<1>4. WakeUpsSuffice'
  <2>1. Cardinality(At("dequeue")') \in Nat
    <3>1. IsFiniteSet(At("dequeue")')
      BY QueueAssumption, FS_Union, FS_Subset DEF At, Thread
    <3>2. QED
      BY <3>1, FS_CardinalityType
  <2>2. Len(m_queue) = 0
    OBVIOUS
  <2>3. At("enqueue")' = At("enqueue") /\ At("enqueueWait")' = At("enqueueWait")
    BY <1>1
  <2>4. QED
    BY <2>1, <2>2, <2>3 DEF IInv, WakeUpsSuffice
<1>5. FinishedIsDrained' /\ NobodyLeftAsleep'
  BY <1>1 DEF IInv, FinishedIsDrained, NobodyLeftAsleep
<1>6. QED
  BY <1>2, <1>3, <1>4, <1>5 DEF IInv

LEMMA FindFinishedIInv ==
  ASSUME IInv, NEW c \in Consumer, FindFinished(c)
  PROVE  IInv'
<1> USE DEF FindFinished
<1>1. /\ pc' \in [Thread -> PC]
      /\ At("dequeue")' = At("dequeue") \ {c} /\ c \in At("dequeue")
      /\ At("exited")' = At("exited") \cup {c} /\ c \notin At("exited")
      /\ \A l : l \notin {"dequeue", "exited"} => At(l)' = At(l)
      /\ \A u \in Thread : u # c => pc'[u] = pc[u]
      /\ pc'[c] = "exited" /\ pc[c] = "dequeue"
  BY Typed, GotoMoves DEF PC
<1>2. TypeOK'
  BY Typed, <1>1 DEF IInv, TypeOK
<1>3. Places'
  BY Typed, <1>1, QueueAssumption DEF IInv, Places
<1>4. WakeUpsSuffice'
  <2>1. Cardinality(At("dequeue")') \in Nat
    <3>1. IsFiniteSet(At("dequeue")')
      BY QueueAssumption, FS_Union, FS_Subset DEF At, Thread
    <3>2. QED
      BY <3>1, FS_CardinalityType
  <2>2. Len(m_queue) = 0
    OBVIOUS
  <2>3. At("enqueue")' = At("enqueue") /\ At("enqueueWait")' = At("enqueueWait")
    BY <1>1
  <2>4. QED
    BY <2>1, <2>2, <2>3 DEF IInv, WakeUpsSuffice
<1>5. FinishedIsDrained' /\ NobodyLeftAsleep'
  BY <1>1 DEF IInv, FinishedIsDrained, NobodyLeftAsleep
<1>6. QED
  BY <1>2, <1>3, <1>4, <1>5 DEF IInv

LEMMA ProcessIInv ==
  ASSUME IInv, NEW c \in Consumer, Process(c)
  PROVE  IInv'
<1> USE DEF Process
<1>1. /\ pc' \in [Thread -> PC]
      /\ At("process")' = At("process") \ {c} /\ c \in At("process")
      /\ At("dequeue")' = At("dequeue") \cup {c} /\ c \notin At("dequeue")
      /\ \A l : l \notin {"process", "dequeue"} => At(l)' = At(l)
      /\ \A u \in Thread : u # c => pc'[u] = pc[u]
      /\ pc'[c] = "dequeue" /\ pc[c] = "process"
  BY Typed, GotoMoves DEF PC
<1>2. TypeOK'
  BY Typed, <1>1 DEF IInv, TypeOK
<1>3. Places'
  BY Typed, <1>1, QueueAssumption DEF IInv, Places
<1>4. WakeUpsSuffice'
  <2>1. Cardinality(At("dequeue")') = Cardinality(At("dequeue")) + 1
    BY <1>1, AtFinite, AtAdd
  <2>2. At("enqueue")' = At("enqueue") /\ At("dequeueWait")' = At("dequeueWait")
        /\ At("enqueueWait")' = At("enqueueWait")
    BY <1>1
  <2>3. QED
    BY Typed, <2>1, <2>2, AtFinite DEF IInv, WakeUpsSuffice
<1>5. FinishedIsDrained' /\ NobodyLeftAsleep'
  BY <1>1 DEF IInv, FinishedIsDrained, NobodyLeftAsleep
<1>6. QED
  BY <1>2, <1>3, <1>4, <1>5 DEF IInv

LEMMA CloseIInv ==
  ASSUME IInv, NEW o \in Owner, Close(o)
  PROVE  IInv'
<1> USE DEF Close
<1>1. /\ pc' \in [Thread -> PC]
      /\ At("idle")' = At("idle") \ {o} /\ o \in At("idle")
      /\ At("wakeConsumers")' = At("wakeConsumers") \cup {o} /\ o \notin At("wakeConsumers")
      /\ \A l : l \notin {"idle", "wakeConsumers"} => At(l)' = At(l)
      /\ \A u \in Thread : u # o => pc'[u] = pc[u]
      /\ pc'[o] = "wakeConsumers" /\ pc[o] = "idle"
  BY Typed, GotoMoves DEF PC
<1>2. TypeOK'
  BY Typed, <1>1 DEF IInv, TypeOK
<1>3. Places'
  BY Typed, <1>1, QueueAssumption DEF IInv, Places
<1>4. WakeUpsSuffice'
  BY <1>1 DEF IInv, WakeUpsSuffice
<1>5. FinishedIsDrained' /\ NobodyLeftAsleep'
  BY <1>1 DEF IInv, FinishedIsDrained, NobodyLeftAsleep
<1>6. QED
  BY <1>2, <1>3, <1>4, <1>5 DEF IInv

LEMMA SpinIInv ==
  ASSUME IInv, NEW o \in Owner, Spin(o)
  PROVE  IInv'
<1> USE DEF Spin
<1>1. /\ pc' \in [Thread -> PC]
      /\ At("spin")' = At("spin") \ {o} /\ o \in At("spin")
      /\ At("closed")' = At("closed") \cup {o} /\ o \notin At("closed")
      /\ \A l : l \notin {"spin", "closed"} => At(l)' = At(l)
      /\ \A u \in Thread : u # o => pc'[u] = pc[u]
      /\ pc'[o] = "closed" /\ pc[o] = "spin"
  BY Typed, GotoMoves DEF PC
<1>2. TypeOK'
  BY Typed, <1>1 DEF IInv, TypeOK
<1>3. Places'
  BY Typed, <1>1, QueueAssumption DEF IInv, Places
<1>4. WakeUpsSuffice'
  BY <1>1 DEF IInv, WakeUpsSuffice
<1>5. FinishedIsDrained' /\ NobodyLeftAsleep'
  BY <1>1 DEF IInv, FinishedIsDrained, NobodyLeftAsleep
<1>6. QED
  BY <1>2, <1>3, <1>4, <1>5 DEF IInv

LEMMA WakeConsumersIInv ==
  ASSUME IInv, NEW o \in Owner, WakeConsumers(o)
  PROVE  IInv'
<1> USE DEF WakeConsumers
<1>1. /\ pc' \in [Thread -> PC] /\ pc[o] = "wakeConsumers" /\ pc'[o] = "wakeProducers"
      /\ At("dequeueWait")' = {}
      /\ o \in At("wakeProducers")'
      /\ \A u \in Thread : u # o => pc'[u] = pc[u]
                                    \/ (pc[u] = "dequeueWait" /\ pc'[u] = "dequeue")
  <2>1. /\ "wakeProducers" \in PC /\ "dequeue" \in PC /\ o \in Thread /\ pc \in [Thread -> PC]
    BY Typed DEF PC, Thread
  <2>2. NotifyAll(o, "wakeConsumers", "wakeProducers", "dequeueWait", "dequeue")
    OBVIOUS
  <2> HIDE DEF WakeConsumers
  <2>3. QED
    BY <2>1, <2>2 DEF NotifyAll, At
<1>2. TypeOK'
  BY Typed, <1>1 DEF IInv, TypeOK
<1>3. Places'
  BY Typed, <1>1, QueueAssumption DEF IInv, Places
<1>4. m_shutdown'
  BY <1>1 DEF IInv, Places
<1>5. WakeUpsSuffice' /\ FinishedIsDrained' /\ NobodyLeftAsleep'
  BY <1>1, <1>4 DEF IInv, WakeUpsSuffice, FinishedIsDrained, NobodyLeftAsleep
<1>6. QED
  BY <1>2, <1>3, <1>5 DEF IInv

LEMMA WakeProducersIInv ==
  ASSUME IInv, NEW o \in Owner, WakeProducers(o)
  PROVE  IInv'
<1> USE DEF WakeProducers
<1>1. /\ pc' \in [Thread -> PC] /\ pc[o] = "wakeProducers" /\ pc'[o] = "spin"
      /\ At("enqueueWait")' = {}
      /\ \A l : l \notin {"wakeProducers", "spin", "enqueueWait", "enqueue"} => At(l)' = At(l)
      /\ \A u \in Thread : u # o => pc'[u] = pc[u]
                                    \/ (pc[u] = "enqueueWait" /\ pc'[u] = "enqueue")
  <2>1. /\ "spin" \in PC /\ "enqueue" \in PC /\ o \in Thread /\ pc \in [Thread -> PC]
    BY Typed DEF PC, Thread
  <2>2. NotifyAll(o, "wakeProducers", "spin", "enqueueWait", "enqueue")
    OBVIOUS
  <2> HIDE DEF WakeProducers
  <2>3. QED
    BY <2>1, <2>2 DEF NotifyAll, At
<1>2. TypeOK'
  BY Typed, <1>1 DEF IInv, TypeOK
<1>3. Places'
  BY Typed, <1>1, QueueAssumption DEF IInv, Places
<1>4. WakeUpsSuffice' /\ FinishedIsDrained' /\ NobodyLeftAsleep'
  BY <1>1 DEF IInv, WakeUpsSuffice, FinishedIsDrained, NobodyLeftAsleep
<1>5. QED
  BY <1>2, <1>3, <1>4 DEF IInv

LEMMA SpuriousWakeIInv ==
  ASSUME IInv, NEW t \in Thread, SpuriousWake(t)
  PROVE  IInv'
<1>1. UNCHANGED <<m_queue, m_shutdown, m_finished, offered>>
  BY DEF SpuriousWake
<1>2. ASSUME NEW from, NEW to,
             \/ from = "enqueueWait" /\ to = "enqueue"
             \/ from = "dequeueWait" /\ to = "dequeue",
             Goto(t, from, to)
      PROVE  IInv'
  <2>1. /\ pc' \in [Thread -> PC]
        /\ At(from)' \subseteq At(from)
        /\ At(to)' = At(to) \cup {t} /\ t \notin At(to)
        /\ \A l : l # from /\ l # to => At(l)' = At(l)
        /\ \A u \in Thread : u # t => pc'[u] = pc[u]
        /\ pc'[t] = to /\ pc[t] = from
    BY Typed, GotoMoves, <1>2 DEF PC
  <2>2. TypeOK'
    BY Typed, <1>1, <2>1 DEF IInv, TypeOK
  <2>3. Places'
    BY Typed, <1>1, <1>2, <2>1, QueueAssumption DEF IInv, Places
  <2>4. WakeUpsSuffice'
    <3>1. Cardinality(At(to)') = Cardinality(At(to)) + 1
      BY <2>1, AtFinite, AtAdd
    <3>2. /\ Cardinality(At("enqueue")) \in Nat /\ Cardinality(At("dequeue")) \in Nat
      BY AtFinite, FS_CardinalityType
    <3>3. /\ Cardinality(At("enqueue")') \in Nat
          /\ Cardinality(At("enqueue")') >= Cardinality(At("enqueue"))
          /\ Cardinality(At("dequeue")') \in Nat
          /\ Cardinality(At("dequeue")') >= Cardinality(At("dequeue"))
      <4>1. CASE from = "enqueueWait" /\ to = "enqueue"
        <5>1. At("dequeue")' = At("dequeue")
          BY <2>1, <4>1 DEF At
        <5>2. QED
          BY <3>1, <3>2, <4>1, <5>1, AtFinite
      <4>2. CASE from = "dequeueWait" /\ to = "dequeue"
        <5>1. At("enqueue")' = At("enqueue")
          BY <2>1, <4>2 DEF At
        <5>2. QED
          BY <3>1, <3>2, <4>2, <5>1, AtFinite
      <4>3. QED
        BY <1>2, <4>1, <4>2
    <3>4. \A l \in {"enqueueWait", "dequeueWait"} : At(l)' \subseteq At(l)
      BY <1>2, <2>1 DEF At
    <3>5. QED
      BY Typed, <1>1, <3>2, <3>3, <3>4 DEF IInv, WakeUpsSuffice
  <2>5. FinishedIsDrained' /\ NobodyLeftAsleep'
    <3>1. \A l \in {"wakeConsumers", "wakeProducers"} : At(l)' = At(l)
      BY <1>2, <2>1
    <3>2. \A l \in {"enqueueWait", "dequeueWait"} : At(l)' \subseteq At(l)
      BY <1>2, <2>1
    <3>3. QED
      BY <1>1, <3>1, <3>2 DEF IInv, FinishedIsDrained, NobodyLeftAsleep
  <2>6. QED
    BY <2>2, <2>3, <2>4, <2>5 DEF IInv
<1>3. QED
  BY <1>2 DEF SpuriousWake

LEMMA NextIInv == IInv /\ [Next]_vars => IInv'
<1> SUFFICES ASSUME IInv, [Next]_vars PROVE IInv'
  OBVIOUS
<1>1. CASE UNCHANGED vars
  BY <1>1 DEF vars, IInv, TypeOK, Places, FinishedIsDrained, WakeUpsSuffice,
              NobodyLeftAsleep, At
<1>2. QED
  BY <1>1, OfferIInv, WaitToEnqueueIInv, RefuseIInv, EnqueueIInv, WaitToDequeueIInv,
     FindFinishedIInv, DequeueIInv, ProcessIInv, CloseIInv, WakeConsumersIInv,
     WakeProducersIInv, SpinIInv, SpuriousWakeIInv
  DEF Next, TryEnqueue, TryDequeue

-----------------------------------------------------------------------------
(* The inductive invariant holds in every reachable state.               *)
THEOREM Invariant == Spec => []IInv
<1>1. QED
  BY InitIInv, NextIInv, PTL DEF Spec

(* Types, and the queue never exceeds its capacity.                        *)
THEOREM TypeCorrect == Spec => []TypeOK
<1>1. IInv => TypeOK
  BY DEF IInv
<1>2. QED
  BY <1>1, Invariant, PTL

(* m_finished is only set on a queue that is shut down and empty.          *)
THEOREM Drained == Spec => []FinishedIsDrained
<1>1. IInv => FinishedIsDrained
  BY DEF IInv
<1>2. QED
  BY <1>1, Invariant, PTL

(* One notification per operation suffices: no wake-up is lost.            *)
THEOREM NoLostWakeUp == Spec => [](WakeUpsSuffice /\ NobodyLeftAsleep)
<1>1. IInv => WakeUpsSuffice /\ NobodyLeftAsleep
  BY DEF IInv
<1>2. QED
  BY <1>1, Invariant, PTL

(* An empty queue that is shut down stays empty.                           *)
THEOREM EmptyForGood == Spec => StaysEmpty
<1>1. [Next]_vars => [m_shutdown /\ m_queue = << >> => m_queue' = << >>]_vars
  BY DEF Next, vars, Offer, TryEnqueue, WaitToEnqueue, Refuse, Enqueue, TryDequeue,
         WaitToDequeue, FindFinished, Dequeue, Process, Close, WakeConsumers,
         WakeProducers, Spin, SpuriousWake
<1>2. QED
  BY <1>1, PTL DEF Spec, StaysEmpty
=============================================================================
