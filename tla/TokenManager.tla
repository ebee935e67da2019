---------------------------- MODULE TokenManager ----------------------------
(***************************************************************************)
(* The token manager: Token, TokenTracker and TokenManager under           *)
(* src/src/Common/Utilities/src.  Any thread may request a token, return   *)
(* it, start a tracker, wait for a tracker, or shut the manager down.  A   *)
(* step is what a thread does between two points where another thread can  *)
(* see or change what it works on: the body of a lock_guard is one step,   *)
(* an atomic that is read outside the lock is read in a step of its own.   *)
(* A returned token is told to the trackers one by one: each has a lock    *)
(* and a condition variable of its own, on which other threads wait.       *)
(***************************************************************************)
EXTENDS Naturals, Sequences, FiniteSets, Functions

CONSTANTS
  Thread,       \* the threads that use the manager
  MaxSerial,    \* bound: how many tokens are issued in a behaviour
  MaxTrackers   \* bound: how many trackers are started in a behaviour

ASSUME ThreadAssumption == IsFiniteSet(Thread)
ASSUME BoundAssumption  == MaxSerial \in Nat /\ MaxTrackers \in Nat

VARIABLES
  m_nextSerialNumber,
  m_tokensInFlight,
  m_isShuttingDown,
  m_trackers,   \* the deque: indices into tracker, oldest first
  tracker,      \* every TokenTracker ever made: [cutoff, remaining]
  position,     \* of OnTokenComplete: the tracker in the deque it tells next
  pc,           \* where each thread is
  serial,       \* the serial number of the thread's token (0 without one)
  waitsOn       \* the tracker the thread waits for (0: none)

vars == <<m_nextSerialNumber, m_tokensInFlight, m_isShuttingDown, m_trackers,
          tracker, position, pc, serial, waitsOn>>
managerVars == <<m_nextSerialNumber, m_tokensInFlight, m_isShuttingDown,
                 m_trackers, tracker, position>>

PC == {"idle",
       "requesting",      \* past the assertion of RequestToken
       "holding",         \* owns a Token
       "notifying",       \* OnTokenComplete, holds m_lock, has decremented
       "waking",          \* the same, has completed the tracker at position
       "released",        \* OnTokenComplete, after the unlock
       "signalling",      \* OnTokenComplete, about to notify_all
       "aborted",         \* an assertion failed
       "checking",        \* Shutdown, about to test m_tokensInFlight
       "blocking",        \* Shutdown, has seen a token in flight
       "parked",          \* Shutdown, in m_shutdownCondition.wait
       "unparked",        \* Shutdown, woken, wants m_lock again
       "stopped",         \* Shutdown has returned
       "polling",         \* WaitForCompletion, wants m_conditionLock
       "tested",          \* WaitForCompletion, holds it, was not complete
       "tracking"}        \* WaitForCompletion, in m_condition.wait

TrackerState == [cutoff : Nat, remaining : Nat]

Init ==
  /\ m_nextSerialNumber = 0
  /\ m_tokensInFlight = 0
  /\ m_isShuttingDown = FALSE
  /\ m_trackers = << >>
  /\ tracker = << >>
  /\ position = 1
  /\ pc = [t \in Thread |-> "idle"]
  /\ serial = [t \in Thread |-> 0]
  /\ waitsOn = [t \in Thread |-> 0]

(* Mutated form: m_lock does not exclude anybody.                          *)
LockFreeAlways == TRUE

(* m_lock is held across a step boundary only inside OnTokenComplete.      *)
Notifying == {"notifying", "waking"}
LockFree == \A t \in Thread : pc[t] \notin Notifying

Goto(t, from, to) ==
  /\ pc[t] = from
  /\ pc' = [pc EXCEPT ![t] = to]

(***************************************************************************)
(* RequestToken: the assertion reads m_isShuttingDown before the lock.     *)
(***************************************************************************)
RequestToken(t) ==
  /\ Goto(t, "idle", IF m_isShuttingDown THEN "aborted" ELSE "requesting")
  /\ UNCHANGED <<managerVars, serial, waitsOn>>

IssueToken(t) ==
  /\ m_nextSerialNumber < MaxSerial
  /\ LockFree
  /\ Goto(t, "requesting", "holding")
  /\ serial' = [serial EXCEPT ![t] = m_nextSerialNumber]
  /\ m_nextSerialNumber' = m_nextSerialNumber + 1
  /\ m_tokensInFlight' = m_tokensInFlight + 1
  /\ UNCHANGED <<m_isShuttingDown, m_trackers, tracker, position, waitsOn>>

(***************************************************************************)
(* StartTracker: a tracker that is born complete never enters the deque.   *)
(* A thread may hold a token of its own while it starts one (Ingestor's    *)
(* Delete does, through Shard::RecycleSlice).                              *)
(***************************************************************************)
PushTrackerInFront(cutoff, remaining) ==   \* mutated form: push_front
  /\ Len(tracker) < MaxTrackers
  /\ tracker' = Append(tracker, [cutoff |-> cutoff, remaining |-> remaining])
  /\ m_trackers' = IF remaining = 0 THEN m_trackers
                   ELSE <<Len(tracker) + 1>> \o m_trackers

PushTracker(cutoff, remaining) ==
  /\ Len(tracker) < MaxTrackers
  /\ tracker' = Append(tracker, [cutoff |-> cutoff, remaining |-> remaining])
  /\ m_trackers' = IF remaining = 0 THEN m_trackers
                   ELSE Append(m_trackers, Len(tracker) + 1)

StartTracker(t) ==
  /\ pc[t] \in {"idle", "holding"}
  /\ LockFree
  /\ PushTracker(m_nextSerialNumber, m_tokensInFlight)
  /\ UNCHANGED <<m_nextSerialNumber, m_tokensInFlight, m_isShuttingDown, position,
                 pc, serial, waitsOn>>

(***************************************************************************)
(* OnTokenComplete, called by ~Token.  The decrement is visible at once to *)
(* Shutdown, which reads the count without the lock; the trackers are told *)
(* before the lock is released, from the front of the deque to its end:    *)
(* those that are completed at the front are popped, so that the next one  *)
(* is at the front again; behind the front none may be completed.          *)
(***************************************************************************)
DropToken(t) ==
  /\ LockFree
  /\ m_tokensInFlight > 0
  /\ Goto(t, "holding", "notifying")
  /\ m_tokensInFlight' = m_tokensInFlight - 1
  /\ UNCHANGED <<m_nextSerialNumber, m_isShuttingDown, m_trackers, tracker, position,
                 serial, waitsOn>>

(* m_conditionLock of tracker k: its waiters hold it from their test until *)
(* they wait, and the count goes down under it.  Mutated form: it does not *)
(* exclude anybody.                                                        *)
ConditionFreeAlways(k) == TRUE
ConditionFree(k) == \A t \in Thread : ~(pc[t] = "tested" /\ waitsOn[t] = k)

(* TokenTracker::OnTokenComplete(s) of tracker k: its result, its effect.  *)
Completes(k, s) == s < tracker[k].cutoff /\ tracker[k].remaining = 1
CountedInclusive(k, s) ==   \* mutated form: the cutoff is inclusive
  IF s <= tracker[k].cutoff THEN [tracker EXCEPT ![k].remaining = @ - 1] ELSE tracker
Counted(k, s) ==
  IF s < tracker[k].cutoff THEN [tracker EXCEPT ![k].remaining = @ - 1] ELSE tracker

TellTracker(t) ==
  /\ pc[t] = "notifying" /\ position <= Len(m_trackers)
  /\ LET k == m_trackers[position]
         s == serial[t]
     IN  /\ s < tracker[k].cutoff => ConditionFree(k)
         /\ tracker' = Counted(k, s)
         /\ IF Completes(k, s)
            THEN pc' = [pc EXCEPT ![t] = "waking"] /\ UNCHANGED position
            ELSE position' = position + 1 /\ UNCHANGED pc
  /\ UNCHANGED <<m_nextSerialNumber, m_tokensInFlight, m_isShuttingDown, m_trackers,
                 serial, waitsOn>>

(* notify_all comes after m_conditionLock has been released.               *)
WokenBy(k) == {t \in Thread : pc[t] = "tracking" /\ waitsOn[t] = k}

WakeWaiters(t) ==
  /\ pc[t] = "waking"
  /\ LET woken == WokenBy(m_trackers[position])
     IN  pc' = [u \in Thread |->
                  IF u = t THEN IF position = 1 THEN "notifying" ELSE "aborted"
                  ELSE IF u \in woken THEN "polling" ELSE pc[u]]
  /\ m_trackers' = IF position = 1 THEN Tail(m_trackers) ELSE m_trackers
  /\ UNCHANGED <<m_nextSerialNumber, m_tokensInFlight, m_isShuttingDown, tracker,
                 position, serial, waitsOn>>

ReleaseLock(t) ==
  /\ position > Len(m_trackers)
  /\ Goto(t, "notifying", "released")
  /\ position' = 1
  /\ serial' = [serial EXCEPT ![t] = 0]
  /\ UNCHANGED <<m_nextSerialNumber, m_tokensInFlight, m_isShuttingDown, m_trackers,
                 tracker, waitsOn>>

TestShutdown(t) ==
  /\ Goto(t, "released", IF m_tokensInFlight = 0 /\ m_isShuttingDown
                         THEN "signalling" ELSE "idle")
  /\ UNCHANGED <<managerVars, serial, waitsOn>>

SignalShutdown(t) ==
  /\ pc[t] = "signalling"
  /\ pc' = [u \in Thread |-> IF u = t THEN "idle"
                             ELSE IF pc[u] = "parked" THEN "unparked"
                             ELSE pc[u]]
  /\ UNCHANGED <<managerVars, serial, waitsOn>>

(***************************************************************************)
(* Shutdown: the test of the loop is made without m_lock.  A condition     *)
(* variable may also wake up by itself.                                    *)
(***************************************************************************)
Shutdown(t) ==
  /\ Goto(t, "idle", "checking")
  /\ m_isShuttingDown' = TRUE
  /\ UNCHANGED <<m_nextSerialNumber, m_tokensInFlight, m_trackers, tracker, position,
                 serial, waitsOn>>

TestInFlight(t) ==
  /\ Goto(t, "checking", IF m_tokensInFlight > 0 THEN "blocking" ELSE "stopped")
  /\ UNCHANGED <<managerVars, serial, waitsOn>>

ParkShutdown(t) ==
  /\ LockFree
  /\ Goto(t, "blocking", "parked")
  /\ UNCHANGED <<managerVars, serial, waitsOn>>

SpuriousWake(t) ==
  /\ \/ Goto(t, "parked", "unparked")
     \/ Goto(t, "tracking", "polling")
  /\ UNCHANGED <<managerVars, serial, waitsOn>>

ResumeShutdown(t) ==
  /\ LockFree
  /\ Goto(t, "unparked", "checking")
  /\ UNCHANGED <<managerVars, serial, waitsOn>>

(***************************************************************************)
(* WaitForCompletion on tracker k, by a thread that holds no token: the    *)
(* test is made under m_conditionLock, which wait gives up as it begins.   *)
(***************************************************************************)
WaitForCompletion(t, k) ==
  /\ Goto(t, "idle", "polling")
  /\ waitsOn' = [waitsOn EXCEPT ![t] = k]
  /\ UNCHANGED <<managerVars, serial>>

TestComplete(t) ==
  /\ pc[t] = "polling" /\ ConditionFree(waitsOn[t])
  /\ IF tracker[waitsOn[t]].remaining = 0
     THEN Goto(t, "polling", "idle") /\ waitsOn' = [waitsOn EXCEPT ![t] = 0]
     ELSE Goto(t, "polling", "tested") /\ UNCHANGED waitsOn
  /\ UNCHANGED <<managerVars, serial>>

ParkTracking(t) ==
  /\ Goto(t, "tested", "tracking")
  /\ UNCHANGED <<managerVars, serial, waitsOn>>

-----------------------------------------------------------------------------
Tracking(t) ==
  \/ StartTracker(t)
  \/ \E k \in DOMAIN tracker : WaitForCompletion(t, k)
  \/ TestComplete(t) \/ ParkTracking(t)

OnTokenComplete(t) ==
  \/ DropToken(t) \/ TellTracker(t) \/ WakeWaiters(t) \/ ReleaseLock(t)
  \/ TestShutdown(t) \/ SignalShutdown(t)

ShuttingDown(t) ==
  Shutdown(t) \/ TestInFlight(t) \/ ParkShutdown(t) \/ ResumeShutdown(t)

Next ==
  \E t \in Thread :
    \/ RequestToken(t)
    \/ IssueToken(t)
    \/ OnTokenComplete(t)
    \/ Tracking(t)
    \/ ShuttingDown(t)
    \/ SpuriousWake(t)

Spec == Init /\ [][Next]_vars

(* A running thread keeps running: what it has begun it carries on with,   *)
(* and it returns its token (tokens are scoped objects).  Nobody has to    *)
(* request a token, start a tracker or call Shutdown, and a condition      *)
(* variable need not wake up by itself.  Threads that wake up and test     *)
(* again may take the lock of a tracker without end; whoever else wants it *)
(* gets it all the same, as the mutex is not given to one thread for ever. *)
Fairness ==
  \A t \in Thread :
    /\ WF_vars(IssueToken(t))
    /\ SF_vars(OnTokenComplete(t))
    /\ SF_vars(TestComplete(t)) /\ WF_vars(ParkTracking(t))
    /\ WF_vars(TestInFlight(t) \/ ParkShutdown(t) \/ ResumeShutdown(t))

FairSpec == Spec /\ Fairness
-----------------------------------------------------------------------------
TypeOK ==
  /\ m_nextSerialNumber \in 0 .. MaxSerial
  /\ m_tokensInFlight \in Nat
  /\ m_isShuttingDown \in BOOLEAN
  /\ tracker \in Seq(TrackerState)
  /\ m_trackers \in Seq(DOMAIN tracker)
  /\ position \in Nat \ {0}
  /\ pc \in [Thread -> PC]
  /\ serial \in [Thread -> Nat]
  /\ waitsOn \in [Thread -> Nat]

(* The trackers that thread t, which returns its token, has still to tell. *)
Untold(t) ==
  {m_trackers[j] : j \in (IF pc[t] = "waking" THEN position + 1 ELSE position)
                           .. Len(m_trackers)}

(* The threads whose token, older than its cutoff, tracker k still counts. *)
Holding == {t \in Thread : pc[t] = "holding"}
Older(k) ==
  {t \in Thread : /\ serial[t] < tracker[k].cutoff
                  /\ t \in Holding \/ (pc[t] \in Notifying /\ k \in Untold(t))}

(* The counters agree with the tokens that exist: the manager's count with *)
(* the tokens in threads' hands, and every tracker's with those among them *)
(* that are older than the tracker, or that it has not been told of yet    *)
(* (TokenManager.h:91-100 says why one lock must cover both).              *)
TokensCounted == m_tokensInFlight = Cardinality(Holding)
TrackersExact ==
  \A k \in DOMAIN tracker : tracker[k].remaining = Cardinality(Older(k))
CountsExact == TokensCounted /\ TrackersExact

(* The assertion at TokenManager.cpp:124 never fails: whatever the order   *)
(* in which tokens come back, a tracker behind the front of the deque is   *)
(* never completed by a token that leaves the front incomplete.            *)
TrackersCompleteInOrder == \A t \in Thread : pc[t] = "waking" => position = 1

(* The manager implements grace periods: a tracker reports completion      *)
(* exactly when every token that existed at its start has been returned,   *)
(* and it has been told of it.                                             *)
Promise == INSTANCE GracePeriod WITH
  Client   <- Thread,
  active   <- Holding,
  blockers <- [k \in DOMAIN tracker |-> Older(k)],
  over     <- {k \in DOMAIN tracker : tracker[k].remaining = 0}
GracePeriodSpec == Promise!Spec

(* No notification is missed, although it is sent after m_conditionLock    *)
(* has been released: who waits for a tracker comes back, as long as       *)
(* tokens are returned (TokenTracker.cpp:55-68, 93-100).                   *)
Waiting(t) == pc[t] \in {"polling", "tested", "tracking"}
TrackerWaitsEnd == \A t \in Thread : Waiting(t) ~> ~Waiting(t)

(* Token.h:162-163: Shutdown "waits for all of the tokens in existence to  *)
(* be returned", and then returns.                                         *)
ShutdownReturns == \A t \in Thread : pc[t] = "checking" ~> pc[t] = "stopped"
=============================================================================
