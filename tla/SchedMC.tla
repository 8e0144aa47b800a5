------------------------------ MODULE SchedMC ------------------------------
(***************************************************************************)
(* The scheduler of Sched driven by an abstract caller on every task.  A   *)
(* task outside any call ("body") may yield, create or resume a task, exit, *)
(* wait for or post an event.  Waiting and posting follow the pattern the  *)
(* kernel's callers use with a wait channel: under a spinlock L test a     *)
(* condition and sleep on the queue with sched_sleep(q, timeout, &L),      *)
(* retesting after every wake-up and giving up on -ETIMEDOUT; set the      *)
(* condition under L and wake every sleeper.  Interrupts wake one sleeper  *)
(* (as a semaphore put from an interrupt handler does) and run the timer   *)
(* callbacks.                                                              *)
(***************************************************************************)
EXTENDS Sched, TLC

CONSTANTS
  L,            \* the caller's spinlock
  T1, T2, T3    \* task objects

VARIABLE cond   \* the condition each wait queue stands for, guarded by L

vars == <<schedVars, cond>>

MCTask == {T1, T2, T3}

\* Two tasks share the better priority 0, one has priority 1.
MCPriority == (T1 :> 0 @@ T2 :> 0 @@ T3 :> 1)

\* For liveness: one task of each priority, enough for an interrupt to wake
\* a better task than the one it interrupted.
MCTaskPair == {T1, T3}
MCPriorityPair == (T1 :> 0 @@ T3 :> 1)

\* The CPUs run the same code from the same initial state.
CpuSymmetry == Permutations(CPU)

\* T1 and T2 share a priority and are both free at boot, so swapping them,
\* together with the CPUs, maps behaviours to behaviours.
CpuTaskSymmetry ==
  {p @@ s : p \in Permutations(CPU), s \in Permutations({T1, T2})}

-----------------------------------------------------------------------------
\* Boot: the task of the lowest priority is created and resumed, the others
\* are free; every CPU enters sched_start(), whose first act is sched_lock().
Boot == T3

Init ==
  /\ tstate = [t \in Task |-> IF t = Boot THEN "READY" ELSE "FREE"]
  /\ resched = [t \in Task |-> FALSE]
  /\ sleepResult = [t \in Task |-> 0]
  /\ timer = [t \in Task |-> FALSE]
  /\ runq = [i \in Prios |-> IF i = Priority[Boot] THEN <<Boot>> ELSE <<>>]
  /\ waitq = [q \in WaitQueue |-> <<>>]
  /\ current = [c \in CPU |-> NoTask]
  /\ isrNesting = [c \in CPU |-> 0]
  /\ schedLock = NoCpu
  /\ lockOwner = [l \in SpinLock |-> NoCpu]
  /\ schedPc = [c \in CPU |-> "relock"]
  /\ reaping = [c \in CPU |-> NoTask]
  /\ pc = [t \in Task |-> "unlock"]
  /\ ret = [t \in Task |-> "body"]
  /\ sleepQ = [t \in Task |-> NoQueue]
  /\ sleepLock = [t \in Task |-> NoLock]
  /\ timedSleep = [t \in Task |-> FALSE]
  /\ returned = [t \in Task |-> 0]
  /\ wakeQ = [t \in Task |-> NoQueue]
  /\ irqPc = [t \in Task |-> NoPc]
  /\ firing = [c \in CPU |-> NoTask]
  /\ cond = [q \in WaitQueue |-> FALSE]

-----------------------------------------------------------------------------
(* The abstract caller.                                                     *)

\* Create a task whose entry point is the abstract caller.
DoCreate(c, u) ==
  /\ Running(c, current[c]) /\ pc[current[c]] = "body"
  /\ TaskCreate(u, "body")
  /\ UNCHANGED <<sleepResult, runq, waitq, current, isrNesting, schedLock,
                 lockOwner, schedPc, reaping, sleepQ, sleepLock, timedSleep,
                 returned, wakeQ, irqPc, firing, cond>>

\* Lock L and test the condition of q: consume it, or sleep on q.
Wait(c, q, timed) ==
  LET t == current[c] IN
  /\ Running(c, t) /\ pc[t] = "body" /\ lockOwner[L] = NoCpu
  /\ IF cond[q]
     THEN /\ cond' = [cond EXCEPT ![q] = FALSE]
          /\ UNCHANGED <<lockOwner, pc, ret, sleepQ, sleepLock, timedSleep>>
     ELSE /\ lockOwner' = [lockOwner EXCEPT ![L] = c]
          /\ pc' = [pc EXCEPT ![t] = "wait"]
          /\ ret' = [ret EXCEPT ![t] = "woken"]
          /\ sleepQ' = [sleepQ EXCEPT ![t] = q]
          /\ sleepLock' = [sleepLock EXCEPT ![t] = L]
          /\ timedSleep' = [timedSleep EXCEPT ![t] = timed]
          /\ UNCHANGED cond
  /\ UNCHANGED <<tstate, resched, sleepResult, timer, runq, waitq, current,
                 isrNesting, schedLock, schedPc, reaping, returned, wakeQ, irqPc, firing>>

\* Back from sched_sleep() holding L: give up on an error, consume the
\* condition, or sleep again.  Leaving the wait loop ends the scope of the
\* caller's result and of the sleep arguments.
Woken(c) ==
  LET t == current[c]
      q == sleepQ[t]
      Done == /\ lockOwner' = [lockOwner EXCEPT ![L] = NoCpu]
              /\ pc' = [pc EXCEPT ![t] = "body"]
              /\ returned' = [returned EXCEPT ![t] = 0]
              /\ sleepQ' = [sleepQ EXCEPT ![t] = NoQueue]
              /\ sleepLock' = [sleepLock EXCEPT ![t] = NoLock]
              /\ timedSleep' = [timedSleep EXCEPT ![t] = FALSE]
  IN
  /\ Running(c, t) /\ pc[t] = "woken"
  /\ CASE returned[t] < 0 -> Done /\ UNCHANGED cond
       [] cond[q] -> Done /\ cond' = [cond EXCEPT ![q] = FALSE]
       [] OTHER ->
            /\ pc' = [pc EXCEPT ![t] = "wait"]
            /\ UNCHANGED <<cond, lockOwner, returned, sleepQ, sleepLock,
                           timedSleep>>
  /\ UNCHANGED <<tstate, resched, sleepResult, timer, runq, waitq, current,
                 isrNesting, schedLock, schedPc, reaping, ret, wakeQ, irqPc, firing>>

\* Set the condition of q under L, then wake every sleeper of q.
Post(c, q) ==
  LET t == current[c] IN
  /\ Running(c, t) /\ pc[t] = "body" /\ lockOwner[L] = NoCpu
  /\ cond' = [cond EXCEPT ![q] = TRUE]
  /\ pc' = [pc EXCEPT ![t] = "wake_all"]
  /\ ret' = [ret EXCEPT ![t] = "body"]
  /\ wakeQ' = [wakeQ EXCEPT ![t] = q]
  /\ UNCHANGED <<tstate, resched, sleepResult, timer, runq, waitq, current,
                 isrNesting, schedLock, lockOwner, schedPc, reaping, sleepQ,
                 sleepLock, timedSleep, returned, irqPc, firing>>

-----------------------------------------------------------------------------
SchedStep(c) ==
  \/ SchedPick(c) \/ SchedIdle(c) \/ SchedRelock(c) \/ SchedReap(c)
  \/ UnlockReturn(c) \/ SchedSleep(c) \/ SleepReturn(c) \/ SleepRelock(c)
  \/ WakeAllBegin(c) \/ WakeAllStep(c)

IsrStep(c) ==
  \/ IsrEnter(c) \/ IsrExit(c)
  \/ \E q \in WaitQueue : IsrWakeOne(c, q)
  \/ \E u \in Task : TimerExpire(c, u)
  \/ TimerCallback(c)

CallerStep(c) ==
  \/ (\/ TaskYield(c, "body", "body")
      \/ TaskExit(c, "body")
      \/ \E u \in Task : TaskResume(c, u, "body", "body")) /\ UNCHANGED cond
  \/ \E u \in Task : DoCreate(c, u)
  \/ \E q \in WaitQueue : \E timed \in BOOLEAN : Wait(c, q, timed)
  \/ \E q \in WaitQueue : Post(c, q)
  \/ Woken(c)

Next ==
  \E c \in CPU :
    \/ (SchedStep(c) \/ IsrStep(c)) /\ UNCHANGED cond
    \/ CallerStep(c)

Spec == Init /\ [][Next]_vars

\* The scheduler's own steps are never abandoned; a spinlock is eventually
\* granted to a CPU it is repeatedly free for; interrupt handlers return.
Fairness ==
  \A c \in CPU :
    /\ WF_schedVars(SchedPick(c)) /\ WF_schedVars(SchedIdle(c)) /\ WF_schedVars(SchedReap(c))
    /\ WF_schedVars(UnlockReturn(c)) /\ WF_schedVars(SleepReturn(c))
    /\ WF_schedVars(WakeAllStep(c))
    /\ SF_schedVars(SchedRelock(c)) /\ SF_schedVars(SchedSleep(c))
    /\ SF_schedVars(SleepRelock(c)) /\ SF_schedVars(WakeAllBegin(c))
    /\ SF_schedVars(TimerCallback(c)) /\ SF_schedVars(IsrExit(c))

FairSpec == Spec /\ Fairness

-----------------------------------------------------------------------------
\* task->sleep_result is read only by the sched_sleep() it was written for:
\* outside "slept" its stale value decides nothing.
LiveSleepResult == [t \in Task |-> IF pc[t] = "slept" THEN sleepResult[t] ELSE 0]

SchedView ==
  <<tstate, resched, LiveSleepResult, timer, runq, waitq, current, isrNesting,
    schedLock, lockOwner, schedPc, reaping, pc, ret, sleepQ, sleepLock,
    timedSleep, returned, wakeQ, irqPc, firing, cond>>

-----------------------------------------------------------------------------
\* A wake-up posted under L is never lost: no task sleeps on a queue whose
\* condition is set while L is free, unless a poster is still waking it or
\* was preempted by an interrupt just before sched_wakeup_all().
NoLostWakeup ==
  \A t \in Task :
    (tstate[t] = "SLEEPING" /\ cond[sleepQ[t]] /\ lockOwner[L] = NoCpu)
      => \E w \in Task : /\ \/ pc[w] \in {"wake_all", "waking"}
                              \/ irqPc[w] = "wake_all"
                           /\ wakeQ[w] = sleepQ[t]

=============================================================================
