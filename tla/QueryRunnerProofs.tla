-------------------------- MODULE QueryRunnerProofs --------------------------
(***************************************************************************)
(* Proofs about QueryRunner, for any number of threads and tasks.          *)
(***************************************************************************)
EXTENDS QueryRunner, FiniteSetTheorems, TLAPS

(* The threads that the synchronizer still waits for.                      *)
NotCome == {t \in Thread : pc[t] \notin {"parked", "query"} /\ m_queriesProcessed[t] = 0}

(* A thread has a task from TryAllocateTask until the result is written,   *)
(* and it only ends when the counter is used up.                           *)
Places ==
  /\ \A t \in Thread : taskId[t] \in Task <=> pc[t] \in {"process", "parked", "query"}
  /\ \A t \in Thread : pc[t] = "finished" => m_nextTaskId = m_taskCount
  /\ main = "done" => \A t \in Thread : pc[t] = "finished"

(* m_threadCount counts the threads still to come; until there are none of *)
(* them those that have come are parked, and nobody has started.           *)
Barrier ==
  /\ m_threadCount = Cardinality(NotCome)
  /\ \A t \in Thread : pc[t] = "parked" => m_threadCount > 0 /\ m_queriesProcessed[t] = 0
  /\ \A t \in Thread : Started(t) => m_threadCount = 0

(* Every result was written by a thread that has counted it.               *)
ResultsCounted ==
  /\ results # {} => \E t \in Thread : m_queriesProcessed[t] > 0
  /\ \A t \in Thread : m_queriesProcessed[t] <= Cardinality(results)

IInv ==
  /\ TypeOK
  /\ Places
  /\ EveryTaskOnce
  /\ Barrier
  /\ ResultsCounted

LEMMA Typed ==
  ASSUME IInv
  PROVE  /\ pc \in [Thread -> PC] /\ taskId \in [Thread -> Task \cup {None}]
         /\ m_queriesProcessed \in [Thread -> Nat]
         /\ m_nextTaskId \in Nat /\ m_taskCount \in Nat /\ m_nextTaskId <= m_taskCount
         /\ m_threadCount \in Nat /\ None \notin Task /\ results \subseteq Task
BY RunnerAssumption, FS_CardinalityType DEF IInv, TypeOK, Task

LEMMA ResultsFinite ==
  ASSUME NEW S \in SUBSET Task
  PROVE  IsFiniteSet(S) /\ Cardinality(S) \in 0 .. m_taskCount
<1>1. IsFiniteSet(Task) /\ Cardinality(Task) = m_taskCount
  BY RunnerAssumption, FS_Interval DEF Task
<1>2. QED
  BY <1>1, FS_Subset, FS_CardinalityType, RunnerAssumption

LEMMA NotComeFinite ==
  /\ IsFiniteSet(NotCome) /\ Cardinality(NotCome) \in 0 .. Cardinality(Thread)
  /\ Cardinality(NotCome) = 0 <=> NotCome = {}
BY RunnerAssumption, FS_Subset, FS_CardinalityType, FS_EmptySet DEF NotCome

LEMMA InitIInv == Init => IInv
<1> SUFFICES ASSUME Init PROVE IInv
  OBVIOUS
<1>1. m_threadCount \in 0 .. Cardinality(Thread)
  BY RunnerAssumption, FS_CardinalityType DEF Init
<1>2. TypeOK
  BY <1>1, RunnerAssumption DEF Init, TypeOK, Task, PC
<1>3. Places /\ EveryTaskOnce
  BY RunnerAssumption DEF Init, Places, EveryTaskOnce, Assigned, Task
<1>4. NotCome = Thread
  BY DEF Init, NotCome
<1>5. Barrier
  BY <1>4 DEF Init, Barrier, Started
<1>6. ResultsCounted
  BY FS_EmptySet DEF Init, ResultsCounted
<1>7. QED
  BY <1>2, <1>3, <1>5, <1>6 DEF IInv

LEMMA StartThreadIInv ==
  ASSUME IInv, NEW t \in Thread, StartThread(t)
  PROVE  IInv'
<1> USE Typed DEF StartThread, Goto
<1>1. TypeOK'
  BY DEF IInv, TypeOK, PC
<1>2. Places' /\ EveryTaskOnce' /\ ResultsCounted'
  BY DEF IInv, Places, EveryTaskOnce, Assigned, Task, ResultsCounted
<1>3. NotCome' = NotCome
  BY DEF NotCome
<1>4. Barrier'
  BY <1>3 DEF IInv, Barrier, Started
<1>5. QED
  BY <1>1, <1>2, <1>4 DEF IInv

LEMMA TryAllocateTaskIInv ==
  ASSUME IInv, NEW t \in Thread, TryAllocateTask(t)
  PROVE  IInv'
<1> USE Typed DEF TryAllocateTask, Goto
<1>0. m_nextTaskId \in Task /\ taskId[t] = None
      /\ (\A u \in Thread : taskId[u] # m_nextTaskId) /\ m_nextTaskId \notin results
  BY RunnerAssumption DEF IInv, Places, EveryTaskOnce, Assigned, Task
<1>1. TypeOK'
  BY <1>0 DEF IInv, TypeOK, PC
<1>2. Places' /\ ResultsCounted'
  BY <1>0 DEF IInv, Places, ResultsCounted, Task
<1>3. EveryTaskOnce'
  <2>1. Assigned' = Assigned \cup {m_nextTaskId}
    BY <1>0, RunnerAssumption DEF Assigned, Task
  <2>2. 0 .. m_nextTaskId' - 1 = (0 .. m_nextTaskId - 1) \cup {m_nextTaskId}
    OBVIOUS
  <2>3. \A u, v \in Thread : u # v /\ taskId'[u] # None => taskId'[u] # taskId'[v]
    BY <1>0 DEF IInv, EveryTaskOnce
  <2>4. (Assigned \cup results)' = 0 .. m_nextTaskId' - 1 /\ (Assigned \cap results)' = {}
    BY <1>0, <2>1, <2>2 DEF IInv, EveryTaskOnce
  <2>5. QED
    BY <2>3, <2>4 DEF EveryTaskOnce
<1>4. NotCome' = NotCome
  BY DEF NotCome
<1>5. Barrier'
  BY <1>4 DEF IInv, Barrier, Started
<1>6. QED
  BY <1>1, <1>2, <1>3, <1>5 DEF IInv

LEMMA NoTaskLeftIInv ==
  ASSUME IInv, NEW t \in Thread, NoTaskLeft(t)
  PROVE  IInv'
<1> USE Typed DEF NoTaskLeft, Goto
<1>1. TypeOK'
  BY DEF IInv, TypeOK, PC
<1>2. Places' /\ EveryTaskOnce' /\ ResultsCounted'
  BY DEF IInv, Places, EveryTaskOnce, Assigned, Task, ResultsCounted
<1>3. NotCome' = NotCome
  BY DEF NotCome
<1>4. Barrier'
  BY <1>3 DEF IInv, Barrier, Started
<1>5. QED
  BY <1>1, <1>2, <1>4 DEF IInv

LEMMA WaitIInv ==
  ASSUME IInv, NEW t \in Thread, Wait(t)
  PROVE  IInv'
<1> USE Typed DEF Wait, Goto, WakeAll
<1>1. t \in NotCome /\ m_threadCount > 0 /\ m_threadCount' = m_threadCount - 1
      /\ \A u \in Thread : ~Started(u)
  BY NotComeFinite DEF IInv, Barrier, NotCome
<1>2. /\ pc' \in [Thread -> PC]
      /\ UNCHANGED <<m_nextTaskId, taskId, m_queriesProcessed, results, main>>
      /\ pc[t] = "process" /\ pc'[t] \in {"query", "parked"}
      /\ \A u \in Thread : u # t /\ pc'[u] # pc[u] => pc[u] = "parked" /\ pc'[u] = "query"
  BY DEF PC
<1>3. TypeOK'
  BY <1>1, <1>2, RunnerAssumption, FS_CardinalityType DEF IInv, TypeOK
<1>4. Places'
  BY <1>2 DEF IInv, Places, Task
<1>5. EveryTaskOnce' /\ ResultsCounted'
  BY <1>2 DEF IInv, EveryTaskOnce, Assigned, ResultsCounted
<1>6. NotCome' = NotCome \ {t}
  BY <1>1, <1>2 DEF NotCome
<1>7. m_threadCount' = Cardinality(NotCome')
  BY <1>1, <1>6, NotComeFinite, FS_RemoveElement DEF IInv, Barrier
<1>8. Barrier'
  <2>1. CASE m_threadCount' = 0
    BY <1>1, <1>2, <1>7, <2>1 DEF Barrier, Started
  <2>2. CASE m_threadCount' # 0
    BY <1>1, <1>2, <1>7, <2>2 DEF IInv, Barrier, Started
  <2>3. QED
    BY <2>1, <2>2
<1>9. QED
  BY <1>3, <1>4, <1>5, <1>8 DEF IInv

LEMMA ProcessTaskIInv ==
  ASSUME IInv, NEW t \in Thread, ProcessTask(t)
  PROVE  IInv'
<1> USE Typed DEF ProcessTask, Goto
<1>1. TypeOK'
  BY DEF IInv, TypeOK, PC
<1>2. Places' /\ EveryTaskOnce' /\ ResultsCounted'
  BY DEF IInv, Places, EveryTaskOnce, Assigned, Task, ResultsCounted
<1>3. NotCome' = NotCome
  BY DEF NotCome
<1>4. Barrier'
  BY <1>3 DEF IInv, Barrier, Started
<1>5. QED
  BY <1>1, <1>2, <1>4 DEF IInv

LEMMA WriteResultIInv ==
  ASSUME IInv, NEW t \in Thread, WriteResult(t)
  PROVE  IInv'
<1> USE Typed DEF WriteResult, Goto
<1>0. taskId[t] \in Task /\ taskId[t] \notin results /\ taskId[t] # None
  BY DEF IInv, Places, EveryTaskOnce, Assigned
<1>1. Cardinality(results') = Cardinality(results) + 1
      /\ Cardinality(results) \in Nat /\ Cardinality(results') \in 0 .. m_taskCount
  BY <1>0, ResultsFinite, FS_AddElement
<1>2. ResultsCounted'
  BY <1>1 DEF IInv, ResultsCounted
<1>3. m_queriesProcessed' \in [Thread -> 0 .. m_taskCount]
  BY <1>1, <1>2 DEF ResultsCounted
<1>4. TypeOK'
  BY <1>0, <1>3 DEF IInv, TypeOK, PC
<1>5. Places'
  BY <1>0 DEF IInv, Places
<1>6. EveryTaskOnce'
  <2>1. \A u \in Thread : u # t => taskId[u] # taskId[t]
    BY <1>0 DEF IInv, EveryTaskOnce
  <2>2. Assigned' = Assigned \ {taskId[t]} /\ taskId[t] \in Assigned
    BY <1>0, <2>1 DEF Assigned
  <2>3. QED
    BY <1>0, <2>1, <2>2 DEF IInv, EveryTaskOnce
<1>7. NotCome' = NotCome
  BY DEF NotCome
<1>8. Barrier'
  BY <1>7 DEF IInv, Barrier, Started
<1>9. QED
  BY <1>2, <1>4, <1>5, <1>6, <1>8 DEF IInv

LEMMA NextIInv == IInv /\ [Next]_vars => IInv'
<1> SUFFICES ASSUME IInv, [Next]_vars PROVE IInv'
  OBVIOUS
<1>1. CASE UNCHANGED vars
  BY <1>1 DEF vars, IInv, TypeOK, Places, EveryTaskOnce, Assigned, Barrier, Started,
     NotCome, ResultsCounted
<1>2. CASE WaitForCompletion
  BY <1>2 DEF WaitForCompletion, IInv, TypeOK, Places, EveryTaskOnce, Assigned, Barrier,
     Started, NotCome, ResultsCounted
<1>3. QED
  BY <1>1, <1>2, StartThreadIInv, TryAllocateTaskIInv, NoTaskLeftIInv, WaitIInv,
     ProcessTaskIInv, WriteResultIInv
  DEF Next, EntryPoint

-----------------------------------------------------------------------------
(* The inductive invariant holds in every reachable state.               *)
THEOREM Invariant == Spec => []IInv
<1>1. QED
  BY InitIInv, NextIInv, PTL DEF Spec

(* No two threads work on one task, and none is lost.                      *)
THEOREM TasksOnce == Spec => [](TypeOK /\ EveryTaskOnce)
<1>1. IInv => TypeOK /\ EveryTaskOnce
  BY DEF IInv
<1>2. QED
  BY <1>1, Invariant, PTL

(* All results are there when Run returns.                                 *)
THEOREM AllResults == Spec => []ResultsComplete
<1>1. IInv => ResultsComplete
  <2> SUFFICES ASSUME IInv, main = "done" PROVE results = Task
    BY DEF ResultsComplete
  <2>1. Assigned = {} /\ m_nextTaskId = m_taskCount
    BY Typed, RunnerAssumption DEF IInv, Places, TypeOK, Assigned
  <2>2. QED
    BY <2>1 DEF IInv, EveryTaskOnce, Task
<1>2. QED
  BY <1>1, Invariant, PTL

(* The synchronizer holds everybody back until the last one has come.      *)
THEOREM AllStartTogether == Spec => []StartTogether
<1>1. IInv => StartTogether
  <2> SUFFICES ASSUME IInv, NEW t \in Thread, Started(t), NEW u \in Thread
               PROVE  Started(u)
    BY DEF StartTogether
  <2>1. m_threadCount = 0 /\ NotCome = {} /\ pc[u] # "parked"
    BY NotComeFinite DEF IInv, Barrier
  <2>2. QED
    BY <2>1, Typed DEF NotCome, Started
<1>2. QED
  BY <1>1, Invariant, PTL

(* With a task for every thread nobody waits for a thread that has gone:   *)
(* the parked threads would have all tasks, and they are too few for that. *)
LEMMA IInvNobodyStranded == IInv => NobodyStranded
<1> SUFFICES ASSUME IInv, m_taskCount >= Cardinality(Thread),
                    \E t \in Thread : pc[t] = "parked",
                    \A t \in Thread : pc[t] \in {"parked", "finished"}
             PROVE  FALSE
  BY DEF NobodyStranded
<1> DEFINE Parked == {t \in Thread : pc[t] = "parked"}
<1>1. m_threadCount > 0 /\ \A t \in Thread : m_queriesProcessed[t] = 0
  BY Typed DEF IInv, Barrier, Started
<1>2. results = {}
  BY <1>1 DEF IInv, ResultsCounted
<1>3. PICK f \in Thread : pc[f] = "finished"
  BY <1>1, NotComeFinite DEF IInv, Barrier, NotCome
<1>4. Assigned = Task
  BY <1>2, <1>3 DEF IInv, EveryTaskOnce, Places, Task
<1>5. Assigned = {taskId[t] : t \in Parked}
  BY Typed DEF IInv, Places, Assigned
<1>6. [t \in Parked |-> taskId[t]] \in Surjection(Parked, Task)
  BY <1>4, <1>5 DEF Surjection
<1>7. IsFiniteSet(Parked) /\ Cardinality(Parked) < Cardinality(Thread)
  BY <1>3, RunnerAssumption, FS_Subset, FS_CardinalityType
<1>8. Cardinality(Task) <= Cardinality(Parked)
  BY <1>6, <1>7, FS_Surjection
<1>9. Cardinality(Task) = m_taskCount
  BY RunnerAssumption, FS_Interval DEF Task
<1>10. QED
  BY <1>7, <1>8, <1>9, RunnerAssumption, FS_CardinalityType

(* The barrier always opens when there is a task for every thread.         *)
THEOREM NobodyIsStranded == Spec => []NobodyStranded
<1>1. QED
  BY IInvNobodyStranded, Invariant, PTL
=============================================================================
