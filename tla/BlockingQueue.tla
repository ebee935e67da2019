---------------------------- MODULE BlockingQueue ----------------------------
(***************************************************************************)
(* src/inc/BitFunnel/Utilities/BlockingQueue.h: a queue of fixed capacity  *)
(* with one lock, a condition variable for producers and one for           *)
(* consumers, and a Shutdown that lets the consumers drain the queue.      *)
(* Its users are the Recycler and the REPL's TaskPool: producers offer     *)
(* items, consumers dequeue until they are told that the queue is shut     *)
(* down, owners shut it down, possibly more than once (~Recycler).         *)
(* Each operation holds m_lock from its first test to the notification, so *)
(* it is one step; only Shutdown notifies and spins after the unlock.      *)
(***************************************************************************)
EXTENDS Naturals, Sequences, FiniteSets, Functions

CONSTANTS
  Producer, Consumer, Owner,
  m_capacity,
  MaxItems      \* bound: how many items a producer offers

ASSUME QueueAssumption ==
  /\ IsFiniteSet(Producer) /\ IsFiniteSet(Consumer) /\ IsFiniteSet(Owner)
  /\ Producer \cap Consumer = {}
  /\ Producer \cap Owner = {}
  /\ Consumer \cap Owner = {}
  /\ m_capacity \in Nat \ {0}
  /\ MaxItems \in Nat

VARIABLES
  m_queue,      \* the items, each named <<producer, number>>
  m_shutdown,
  m_finished,
  offered,      \* how many items each producer has offered
  pc            \* where each thread is

vars == <<m_queue, m_shutdown, m_finished, offered, pc>>

Thread == Producer \cup Consumer \cup Owner
Item   == Producer \X (1 .. MaxItems)

PC == {"idle",          \* a producer or an owner between two calls
       "enqueue",       \* TryEnqueue, wants m_lock
       "enqueueWait",   \* TryEnqueue, in m_enqueueCond.wait
       "dequeue",       \* TryDequeue, wants m_lock
       "dequeueWait",   \* TryDequeue, in m_dequeueCond.wait
       "process",       \* a consumer at work on the item it got
       "exited",        \* a consumer whose TryDequeue returned false
       "wakeConsumers", "wakeProducers",   \* Shutdown, after the unlock
       "spin",          \* Shutdown, waiting for m_finished
       "closed"}        \* Shutdown has returned

At(label) == {t \in Thread : pc[t] = label}

Init ==
  /\ m_queue = << >>
  /\ m_shutdown = FALSE
  /\ m_finished = FALSE
  /\ offered = [p \in Producer |-> 0]
  /\ pc = [t \in Thread |-> IF t \in Consumer THEN "dequeue" ELSE "idle"]

Goto(t, from, to) ==
  /\ pc[t] = from
  /\ pc' = [pc EXCEPT ![t] = to]

(* Thread t goes on to "to"; one thread that waits at "waiting", if there  *)
(* is any, gets back to "ready".                                           *)
GotoNotifyNobody(t, to, waiting, ready) ==    \* mutated form: no notify_one
  pc' = [pc EXCEPT ![t] = to]
GotoNotifyOne(t, to, waiting, ready) ==
  IF At(waiting) = {}
  THEN pc' = [pc EXCEPT ![t] = to]
  ELSE \E w \in At(waiting) : pc' = [pc EXCEPT ![t] = to, ![w] = ready]

NotifyAll(t, from, to, waiting, ready) ==
  /\ pc[t] = from
  /\ pc' = [u \in Thread |-> IF u = t THEN to
                             ELSE IF pc[u] = waiting THEN ready
                             ELSE pc[u]]

-----------------------------------------------------------------------------
FullLate == Len(m_queue) > m_capacity   \* mutated form: off by one
Full == Len(m_queue) >= m_capacity

Offer(p) ==
  /\ offered[p] < MaxItems
  /\ Goto(p, "idle", "enqueue")
  /\ offered' = [offered EXCEPT ![p] = @ + 1]
  /\ UNCHANGED <<m_queue, m_shutdown, m_finished>>

WaitToEnqueue(p) ==
  /\ Full /\ ~m_shutdown
  /\ Goto(p, "enqueue", "enqueueWait")
  /\ UNCHANGED <<m_queue, m_shutdown, m_finished, offered>>

Refuse(p) ==
  /\ m_shutdown
  /\ Goto(p, "enqueue", "idle")
  /\ UNCHANGED <<m_queue, m_shutdown, m_finished, offered>>

EnqueueUnchecked(p) ==      \* mutated form: m_shutdown is not looked at again
  /\ pc[p] = "enqueue" /\ ~Full
  /\ m_queue' = Append(m_queue, <<p, offered[p]>>)
  /\ GotoNotifyOne(p, "idle", "dequeueWait", "dequeue")
  /\ UNCHANGED <<m_shutdown, m_finished, offered>>

Enqueue(p) ==
  /\ pc[p] = "enqueue"
  /\ ~Full /\ ~m_shutdown
  /\ m_queue' = Append(m_queue, <<p, offered[p]>>)
  /\ GotoNotifyOne(p, "idle", "dequeueWait", "dequeue")
  /\ UNCHANGED <<m_shutdown, m_finished, offered>>

TryEnqueue(p) == WaitToEnqueue(p) \/ Refuse(p) \/ Enqueue(p)

-----------------------------------------------------------------------------
WaitToDequeue(c) ==
  /\ m_queue = << >> /\ ~m_shutdown
  /\ Goto(c, "dequeue", "dequeueWait")
  /\ UNCHANGED <<m_queue, m_shutdown, m_finished, offered>>

ExitAtShutdown(c) ==        \* mutated form: a consumer leaves items behind
  /\ m_shutdown
  /\ Goto(c, "dequeue", "exited")
  /\ m_finished' = (m_finished \/ m_queue = << >>)
  /\ UNCHANGED <<m_queue, m_shutdown, offered>>

FindFinished(c) ==
  /\ m_queue = << >> /\ m_shutdown
  /\ Goto(c, "dequeue", "exited")
  /\ m_finished' = TRUE
  /\ UNCHANGED <<m_queue, m_shutdown, offered>>

Dequeue(c) ==
  /\ pc[c] = "dequeue"
  /\ m_queue # << >>
  /\ m_queue' = Tail(m_queue)
  /\ m_finished' = (m_finished \/ (m_shutdown /\ m_queue' = << >>))
  /\ GotoNotifyOne(c, "process", "enqueueWait", "enqueue")
  /\ UNCHANGED <<m_shutdown, offered>>

TryDequeue(c) == WaitToDequeue(c) \/ FindFinished(c) \/ Dequeue(c)

Process(c) ==
  /\ Goto(c, "process", "dequeue")
  /\ UNCHANGED <<m_queue, m_shutdown, m_finished, offered>>

-----------------------------------------------------------------------------
Close(o) ==
  /\ Goto(o, "idle", "wakeConsumers")
  /\ m_shutdown' = TRUE
  /\ m_finished' = (m_finished \/ m_queue = << >>)
  /\ UNCHANGED <<m_queue, offered>>

WakeConsumers(o) ==
  /\ NotifyAll(o, "wakeConsumers", "wakeProducers", "dequeueWait", "dequeue")
  /\ UNCHANGED <<m_queue, m_shutdown, m_finished, offered>>

WakeProducersSkipped(o) ==  \* mutated form: m_enqueueCond is not notified
  /\ Goto(o, "wakeProducers", "spin")
  /\ UNCHANGED <<m_queue, m_shutdown, m_finished, offered>>

WakeProducers(o) ==
  /\ NotifyAll(o, "wakeProducers", "spin", "enqueueWait", "enqueue")
  /\ UNCHANGED <<m_queue, m_shutdown, m_finished, offered>>

Spin(o) ==
  /\ m_finished
  /\ Goto(o, "spin", "closed")
  /\ UNCHANGED <<m_queue, m_shutdown, m_finished, offered>>

(* A condition variable may also wake up by itself.                        *)
SpuriousWake(t) ==
  /\ \/ Goto(t, "enqueueWait", "enqueue")
     \/ Goto(t, "dequeueWait", "dequeue")
  /\ UNCHANGED <<m_queue, m_shutdown, m_finished, offered>>

Next ==
  \/ \E p \in Producer : Offer(p) \/ TryEnqueue(p)
  \/ \E c \in Consumer : TryDequeue(c) \/ Process(c)
  \/ \E o \in Owner : Close(o) \/ WakeConsumers(o) \/ WakeProducers(o) \/ Spin(o)
  \/ \E t \in Thread : SpuriousWake(t)

Spec == Init /\ [][Next]_vars

(* Threads that are inside an operation or at work keep running; nobody    *)
(* has to offer an item or to call Shutdown.                               *)
Fairness ==
  /\ \A p \in Producer : WF_vars(TryEnqueue(p))
  /\ \A c \in Consumer : WF_vars(TryDequeue(c) \/ Process(c))
  /\ \A o \in Owner : WF_vars(WakeConsumers(o) \/ WakeProducers(o) \/ Spin(o))

FairSpec == Spec /\ Fairness

-----------------------------------------------------------------------------
TypeOK ==
  /\ m_queue \in Seq(Item)
  /\ Len(m_queue) <= m_capacity
  /\ m_shutdown \in BOOLEAN
  /\ m_finished \in BOOLEAN
  /\ offered \in [Producer -> 0 .. MaxItems]
  /\ pc \in [Thread -> PC]

(* BlockingQueue.h:73-77: finished means shut down and drained.            *)
FinishedIsDrained == m_finished => m_shutdown /\ m_queue = << >>

(* No wake-up is lost although the operations notify one thread only:      *)
(* while a consumer sleeps, every item in the queue has a consumer of its  *)
(* own on its way to it; the same for producers and free slots; and after  *)
(* a shutdown nobody is left asleep once the notifications are sent.       *)
WakeUpsSuffice ==
  /\ At("dequeueWait") # {} => Len(m_queue) <= Cardinality(At("dequeue"))
  /\ At("enqueueWait") # {} /\ ~m_shutdown =>
       m_capacity - Len(m_queue) <= Cardinality(At("enqueue"))
NobodyLeftAsleep ==
  /\ At("dequeueWait") # {} /\ m_shutdown => At("wakeConsumers") # {}
  /\ At("enqueueWait") # {} /\ m_shutdown =>
       At("wakeConsumers") \cup At("wakeProducers") # {}

(* BlockingQueue.h:75-77: the queue never goes from empty to non-empty     *)
(* while it is shut down, so what Shutdown's caller frees stays unused.    *)
StaysEmpty == [][m_shutdown /\ m_queue = << >> => m_queue' = << >>]_vars

(* Nobody blocks for ever: an offered item is accepted or refused, an      *)
(* accepted item is dequeued, and Shutdown returns (BlockingQueue.h:53).   *)
OffersEnd == \A p \in Producer :
  pc[p] \in {"enqueue", "enqueueWait"} ~> pc[p] = "idle"
ItemsAreTaken == \A i \in Item : i \in Range(m_queue) ~> i \notin Range(m_queue)
ShutdownReturns == \A o \in Owner : pc[o] = "wakeConsumers" ~> pc[o] = "closed"
=============================================================================
