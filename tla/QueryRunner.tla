---------------------------- MODULE QueryRunner ----------------------------
(***************************************************************************)
(* QueryRunner::Run over many queries: src/src/Plan/src/QueryRunner.cpp,   *)
(* with the TaskDistributor, its threads and the ThreadManager of          *)
(* src/src/Common/Utilities/src.  Each thread takes task numbers off one   *)
(* counter until none is left; before its first query it waits, in a       *)
(* ThreadSynchronizer, for all the other threads, so that the clock starts *)
(* when all of them are up.  A query is one step here.                     *)
(***************************************************************************)
EXTENDS Naturals, FiniteSets

CONSTANTS
  Thread,         \* one per QueryProcessor
  m_taskCount,    \* queries.size() * iterations
  None

ASSUME RunnerAssumption ==
  /\ IsFiniteSet(Thread) /\ Thread # {}
  /\ m_taskCount \in Nat
  /\ None \notin Nat

VARIABLES
  m_nextTaskId,
  m_threadCount,        \* of the ThreadSynchronizer: threads still to come
  taskId,               \* the task that a thread has
  m_queriesProcessed,   \* by each processor
  results,              \* the tasks whose result is written
  pc,
  main                  \* the thread that called Run

vars == <<m_nextTaskId, m_threadCount, taskId, m_queriesProcessed, results, pc, main>>

Task == 0 .. m_taskCount - 1

PC == {"unborn", "allocate", "process", "parked", "query", "finished"}

Init ==
  /\ m_nextTaskId = 0
  /\ m_threadCount = Cardinality(Thread)
  /\ taskId = [t \in Thread |-> None]
  /\ m_queriesProcessed = [t \in Thread |-> 0]
  /\ results = {}
  /\ pc = [t \in Thread |-> "unborn"]
  /\ main = "start"

Goto(t, from, to) ==
  /\ pc[t] = from
  /\ pc' = [pc EXCEPT ![t] = to]

(* The constructor of ThreadManager starts the threads one by one; they do *)
(* not wait for each other.                                                *)
StartThread(t) ==
  /\ main = "start"
  /\ Goto(t, "unborn", "allocate")
  /\ main' = IF \A u \in Thread \ {t} : pc[u] # "unborn" THEN "join" ELSE "start"
  /\ UNCHANGED <<m_nextTaskId, m_threadCount, taskId, m_queriesProcessed, results>>

TakeUnlocked(t) ==            \* mutated form: an increment can get lost
  /\ m_nextTaskId < m_taskCount
  /\ Goto(t, "allocate", "process")
  /\ taskId' = [taskId EXCEPT ![t] = m_nextTaskId]
  /\ m_nextTaskId' \in {m_nextTaskId, m_nextTaskId + 1}
  /\ UNCHANGED <<m_threadCount, m_queriesProcessed, results, main>>

TryAllocateTask(t) ==
  /\ m_nextTaskId < m_taskCount
  /\ Goto(t, "allocate", "process")
  /\ taskId' = [taskId EXCEPT ![t] = m_nextTaskId]
  /\ m_nextTaskId' = m_nextTaskId + 1
  /\ UNCHANGED <<m_threadCount, m_queriesProcessed, results, main>>

LastTaskLost(t) ==            \* mutated form: off by one
  /\ m_nextTaskId >= m_taskCount - 1
  /\ Goto(t, "allocate", "finished")
  /\ UNCHANGED <<m_nextTaskId, m_threadCount, taskId, m_queriesProcessed, results, main>>

NoTaskLeft(t) ==
  /\ m_nextTaskId >= m_taskCount
  /\ Goto(t, "allocate", "finished")
  /\ UNCHANGED <<m_nextTaskId, m_threadCount, taskId, m_queriesProcessed, results, main>>

(* ThreadSynchronizer::Wait, by the last thread and by the others.         *)
WakeNobody(t) ==              \* mutated form: no notify_all
  pc' = [pc EXCEPT ![t] = "query"]

WakeAll(t) ==
  pc' = [u \in Thread |-> IF u = t \/ pc[u] = "parked" THEN "query" ELSE pc[u]]

Wait(t) ==
  /\ pc[t] = "process" /\ m_queriesProcessed[t] = 0
  /\ m_threadCount' = m_threadCount - 1
  /\ IF m_threadCount' = 0 THEN WakeAll(t) ELSE Goto(t, "process", "parked")
  /\ UNCHANGED <<m_nextTaskId, taskId, m_queriesProcessed, results, main>>

ProcessTask(t) ==
  /\ m_queriesProcessed[t] > 0
  /\ Goto(t, "process", "query")
  /\ UNCHANGED <<m_nextTaskId, m_threadCount, taskId, m_queriesProcessed, results, main>>

(* The query succeeds or fails with a RecoverableError: the instrumentation *)
(* is written in either case.  m_queriesProcessed, which nobody else reads, *)
(* is counted up with it.                                                  *)
WriteResult(t) ==
  /\ Goto(t, "query", "allocate")
  /\ m_queriesProcessed' = [m_queriesProcessed EXCEPT ![t] = @ + 1]
  /\ results' = results \cup {taskId[t]}
  /\ taskId' = [taskId EXCEPT ![t] = None]
  /\ UNCHANGED <<m_nextTaskId, m_threadCount, main>>

WaitForCompletion ==
  /\ main = "join"
  /\ \A t \in Thread : pc[t] = "finished"
  /\ main' = "done"
  /\ UNCHANGED <<m_nextTaskId, m_threadCount, taskId, m_queriesProcessed, results, pc>>

EntryPoint(t) ==
  TryAllocateTask(t) \/ NoTaskLeft(t) \/ Wait(t) \/ ProcessTask(t) \/ WriteResult(t)

Next ==
  \/ \E t \in Thread : StartThread(t) \/ EntryPoint(t)
  \/ WaitForCompletion

Spec == Init /\ [][Next]_vars

(* The operating system runs every thread that can run.                    *)
Fairness ==
  /\ \A t \in Thread : WF_vars(EntryPoint(t))
  /\ WF_vars(\E t \in Thread : StartThread(t))
  /\ WF_vars(WaitForCompletion)

FairSpec == Spec /\ Fairness

-----------------------------------------------------------------------------
TypeOK ==
  /\ m_nextTaskId \in 0 .. m_taskCount
  /\ m_threadCount \in 0 .. Cardinality(Thread)
  /\ taskId \in [Thread -> Task \cup {None}]
  /\ m_queriesProcessed \in [Thread -> 0 .. m_taskCount]
  /\ results \subseteq Task
  /\ pc \in [Thread -> PC]
  /\ main \in {"start", "join", "done"}

(* ITaskDistributor.h:41-44: every task number below the counter is with   *)
(* exactly one thread or has its result, so no two threads write the same  *)
(* element of the results vector, which no lock protects.                  *)
Assigned == {taskId[t] : t \in Thread} \ {None}
EveryTaskOnce ==
  /\ Assigned \cup results = 0 .. m_nextTaskId - 1
  /\ Assigned \cap results = {}
  /\ \A t, u \in Thread : t # u /\ taskId[t] # None => taskId[t] # taskId[u]

(* When Run reads the results, all of them have been written.              *)
ResultsComplete == main = "done" => results = Task

(* QueryRunner.cpp:103-104: all threads wake on the n-th call: no query     *)
(* runs before every thread has come to the synchronizer.                  *)
Started(t) == pc[t] = "query" \/ m_queriesProcessed[t] > 0
StartTogether == (\E t \in Thread : Started(t)) => \A t \in Thread : Started(t)

(* If there are as many tasks as threads, the threads never all wait for   *)
(* a thread that will not come.                                            *)
NobodyStranded ==
  /\ m_taskCount >= Cardinality(Thread)
  /\ \E t \in Thread : pc[t] = "parked"
  => \E t \in Thread : pc[t] \notin {"parked", "finished"}

(* ITaskDistributor.h:61-62: WaitForCompletion waits for the tasks, and    *)
(* they complete.                                                          *)
RunEnds == <>(main = "done")
=============================================================================
