------------------------------- MODULE Sched -------------------------------
(***************************************************************************)
(* The task scheduler of the kernel (src/unnamed/part_003, lines 1-505):   *)
(* per-priority run queues, the per-CPU scheduler loop sched_start(), the  *)
(* global scheduler spinlock handed over across context switches,          *)
(* sched_sleep() with an optional caller lock and one-shot timeout timer,  *)
(* wake-one / wake-all, delayed preemption through isr_nesting and         *)
(* TASK_FLAGS_RESCHEDULE, and the task lifecycle create / resume / exit    *)
(* with the kernel stack reclaimed by the scheduler loop.                  *)
(*                                                                         *)
(* A critical section of one spinlock is one step when nothing else of it  *)
(* is observable; the scheduler lock stays owned by a CPU across a context *)
(* switch, exactly as the code keeps it held from sched_yield() in a task  *)
(* through sched_start() into the next task's sched_unlock().              *)
(*                                                                         *)
(* The callers of the scheduler are modelled elsewhere: SchedMC gives an   *)
(* abstract caller, Process the process layer.  A caller puts a task at a  *)
(* call pc ("wait", "wake_all", ...) with the arguments in sleepQ,         *)
(* sleepLock, timedSleep, wakeQ, and ret is where the task goes on after   *)
(* the call returns.                                                       *)
(***************************************************************************)
EXTENDS Integers, Sequences, SequencesExt, FiniteSets

CONSTANTS
  CPU,            \* the processors, each running sched_start()
  Task,           \* the struct Task objects of thread_cache
  WaitQueue,      \* the wait lists tasks sleep on
  SpinLock,       \* spinlocks other than __sched_lock a caller may hold
  Priority,       \* Priority[t]: the priority task t is created with
  NumPriorities,  \* TASK_MAX_PRIORITIES
  MaxIsrNesting,  \* bound on cpu->isr_nesting
  NoCpu, NoTask, NoQueue, NoLock   \* NULL pointers

ASSUME Priority \in [Task -> 0..(NumPriorities - 1)]
ASSUME MaxIsrNesting \in Nat \ {0}

\* irqPc of a task not preempted by sched_isr_exit().
NoPc == "none"

\* Error codes written into task->sleep_result.
ETIMEDOUT == -110
EINVAL    == -22
Results   == {0, ETIMEDOUT, EINVAL}

\* task->state; "FREE" is a struct Task not allocated from thread_cache.
TaskStates == {"FREE", "SUSPENDED", "READY", "RUNNING", "SLEEPING",
               "DESTROYED", "NONE"}

VARIABLES
  tstate,       \* task->state
  resched,      \* task->flags & TASK_FLAGS_RESCHEDULE
  sleepResult,  \* task->sleep_result
  timer,        \* task->sleep_timer is armed
  runq,         \* sched_queue[i], a FIFO list per priority
  waitq,        \* the wait lists, in list order
  current,      \* cpu->task
  isrNesting,   \* cpu->isr_nesting
  schedLock,    \* the CPU holding __sched_lock
  lockOwner,    \* the CPU holding each other spinlock
  schedPc,      \* where sched_start() of each CPU is
  reaping,      \* the destroyed task the scheduler loop is freeing
  pc,           \* where each task executes, or resumes when switched out
  ret,          \* where a task goes on when the current call returns
  sleepQ,       \* the queue argument of a task's sched_sleep()
  sleepLock,    \* the lock argument of a task's sched_sleep()
  timedSleep,   \* the timeout argument of a task's sched_sleep() is nonzero
  returned,     \* the value the last sched_sleep() of a task returned
  wakeQ,        \* the queue of a task's sched_wakeup_all()
  irqPc,        \* where a task preempted at sched_isr_exit() was interrupted
  firing        \* the task whose sleep callback an interrupt on a CPU runs

schedVars == <<tstate, resched, sleepResult, timer, runq, waitq, current,
               isrNesting, schedLock, lockOwner, schedPc, reaping, pc, ret,
               sleepQ, sleepLock, timedSleep, returned, wakeQ, irqPc, firing>>

Prios == 0..(NumPriorities - 1)

-----------------------------------------------------------------------------
(* Helpers.                                                                 *)

\* sched_enqueue(): append t to the run queue of its priority.
Enqueue(rq, t) == [rq EXCEPT ![Priority[t]] = Append(@, t)]

\* The index sched_dequeue() scans up to: the best non-empty priority.
BestReady == CHOOSE i \in Prios : runq[i] # <<>> /\ \A j \in 0..(i-1) : runq[j] = <<>>

\* task_priority_cmp(t1, t2) > 0: t1 has a strictly higher priority.
Higher(t1, t2) == Priority[t1] < Priority[t2]

\* The position sched_wakeup_one() picks: the first sleeper whose priority
\* no earlier sleeper beats and no later one strictly beats.
HighestIn(s) ==
  CHOOSE i \in DOMAIN s :
    /\ \A j \in 1..(i-1) : Higher(s[i], s[j])
    /\ \A j \in (i+1)..Len(s) : ~Higher(s[j], s[i])

\* The context switch from the task on c into the scheduler context of c;
\* sched_start() resumes with my_cpu->task = NULL still holding the lock.
SwitchOut(c) ==
  /\ current' = [current EXCEPT ![c] = NoTask]
  /\ schedPc' = [schedPc EXCEPT ![c] = "loop"]

\* sched_may_yield(cand) on CPU c, after the caller's critical section left
\* the task states st and run queues rq.  If the current task yields it
\* resumes at yieldPc with the lock still held; otherwise it goes on at
\* goPc and the scheduler lock is left to lockAfter.
MayYield(c, cand, st, rq, yieldPc, goPc, lockAfter) ==
  LET me == current[c] IN
  IF me # NoTask /\ Higher(cand, me) /\ isrNesting[c] = 0
  THEN /\ tstate' = [st EXCEPT ![me] = "READY"]
       /\ runq' = Enqueue(rq, me)
       /\ SwitchOut(c)
       /\ schedLock' = c
       /\ pc' = [pc EXCEPT ![me] = yieldPc]
       /\ UNCHANGED resched
  ELSE /\ tstate' = st
       /\ runq' = rq
       /\ resched' = IF me # NoTask /\ Higher(cand, me)
                     THEN [resched EXCEPT ![me] = TRUE] ELSE resched
       /\ schedLock' = lockAfter
       /\ pc' = IF me = NoTask THEN pc ELSE [pc EXCEPT ![me] = goPc]
       /\ UNCHANGED <<current, schedPc>>

\* The task executing on c, outside interrupt context.
Running(c, t) == current[c] = t /\ t # NoTask /\ isrNesting[c] = 0
                 /\ schedPc[c] = "switched"

\* Interrupts are enabled on c: no spinlock is held by c and either a task
\* runs at a point where it holds none (its body, between releasing its
\* lock and sched_wakeup_all(), between sched_unlock() and spin_lock() in
\* sched_sleep()), or the loop idles in wfi.
IrqEnabled(c) ==
  /\ schedLock # c
  /\ \A l \in SpinLock : lockOwner[l] # c
  /\ \/ schedPc[c] = "idle"
     \/ schedPc[c] = "switched" /\ pc[current[c]] \in {"body", "wake_all", "relock"}

-----------------------------------------------------------------------------
(* The scheduler loop sched_start(), one per CPU.                           *)

\* sched_dequeue() found a task: load it and switch to it, lock held.
SchedPick(c) ==
  /\ schedPc[c] = "loop" /\ schedLock = c
  /\ \E i \in Prios : runq[i] # <<>>
  /\ LET t == Head(runq[BestReady]) IN
       /\ runq' = [runq EXCEPT ![BestReady] = Tail(@)]
       /\ tstate' = [tstate EXCEPT ![t] = "RUNNING"]
       /\ current' = [current EXCEPT ![c] = t]
       /\ schedPc' = [schedPc EXCEPT ![c] = "switched"]
  /\ UNCHANGED <<resched, sleepResult, timer, waitq, isrNesting, schedLock,
                 lockOwner, reaping, pc, ret, sleepQ, sleepLock, timedSleep,
                 returned, wakeQ, irqPc, firing>>

\* No task is ready: unlock, enable interrupts and wait for one.
SchedIdle(c) ==
  /\ schedPc[c] = "loop" /\ schedLock = c
  /\ \A i \in Prios : runq[i] = <<>>
  /\ schedLock' = NoCpu
  /\ schedPc' = [schedPc EXCEPT ![c] = "idle"]
  /\ UNCHANGED <<tstate, resched, sleepResult, timer, runq, waitq, current,
                 isrNesting, lockOwner, reaping, pc, ret, sleepQ, sleepLock,
                 timedSleep, returned, wakeQ, irqPc, firing>>

\* sched_lock() again after wfi (once the interrupt that woke the CPU has
\* returned) or after freeing a destroyed task.
SchedRelock(c) ==
  /\ schedPc[c] \in {"idle", "relock"} /\ schedLock = NoCpu
  /\ isrNesting[c] = 0
  /\ schedLock' = c
  /\ schedPc' = [schedPc EXCEPT ![c] = "loop"]
  /\ UNCHANGED <<tstate, resched, sleepResult, timer, runq, waitq, current,
                 isrNesting, lockOwner, reaping, pc, ret, sleepQ, sleepLock,
                 timedSleep, returned, wakeQ, irqPc, firing>>

\* Outside the lock: free the kernel stack and the task object.
SchedReap(c) ==
  /\ schedPc[c] = "reap"
  /\ tstate' = [tstate EXCEPT ![reaping[c]] = "FREE"]
  /\ reaping' = [reaping EXCEPT ![c] = NoTask]
  /\ schedPc' = [schedPc EXCEPT ![c] = "relock"]
  /\ UNCHANGED <<resched, sleepResult, timer, runq, waitq, current,
                 isrNesting, schedLock, lockOwner, pc, ret, sleepQ, sleepLock,
                 timedSleep, returned, wakeQ, irqPc, firing>>

-----------------------------------------------------------------------------
(* Task-side operations.                                                    *)

\* A switched-in task continues after sched_yield() with only sched_unlock()
\* left to do: task_run(), task_yield(), task_resume() and sched_isr_exit().
\* Out of sched_isr_exit() the task returns from the interrupt to where it
\* was interrupted; otherwise the call returns to ret.
UnlockReturn(c) ==
  LET t == current[c] IN
  /\ schedPc[c] = "switched" /\ schedLock = c /\ pc[t] = "unlock"
  /\ schedLock' = NoCpu
  /\ pc' = [pc EXCEPT ![t] = IF irqPc[t] # NoPc THEN irqPc[t] ELSE ret[t]]
  /\ irqPc' = [irqPc EXCEPT ![t] = NoPc]
  /\ UNCHANGED <<tstate, resched, sleepResult, timer, runq, waitq, current,
                 isrNesting, lockOwner, schedPc, reaping, ret, sleepQ,
                 sleepLock, timedSleep, returned, wakeQ, firing>>

\* task_yield() called at pc at: enqueue self and switch to the scheduler;
\* the task goes on at next.
TaskYield(c, at, next) ==
  LET t == current[c] IN
  /\ Running(c, t) /\ pc[t] = at /\ schedLock = NoCpu
  /\ tstate' = [tstate EXCEPT ![t] = "READY"]
  /\ runq' = Enqueue(runq, t)
  /\ SwitchOut(c)
  /\ schedLock' = c
  /\ pc' = [pc EXCEPT ![t] = "unlock"]
  /\ ret' = [ret EXCEPT ![t] = next]
  /\ UNCHANGED <<resched, sleepResult, timer, waitq, isrNesting, lockOwner,
                 reaping, sleepQ, sleepLock, timedSleep, returned, wakeQ, irqPc, firing>>

\* task_resume(u) called at pc at: a suspended task is enqueued and may
\* preempt the caller, which goes on at next.
TaskResume(c, u, at, next) ==
  LET t == current[c] IN
  /\ Running(c, t) /\ pc[t] = at /\ schedLock = NoCpu
  /\ tstate[u] = "SUSPENDED"
  /\ MayYield(c, u, [tstate EXCEPT ![u] = "READY"], Enqueue(runq, u),
              "unlock", next, NoCpu)
  /\ ret' = [ret EXCEPT ![t] = next]
  /\ UNCHANGED <<sleepResult, timer, waitq, isrNesting, lockOwner, reaping,
                 sleepQ, sleepLock, timedSleep, returned, wakeQ, irqPc, firing>>

\* task_create(): a free task object becomes a suspended task whose first
\* switch-in lands in task_run(), which starts by sched_unlock().
TaskCreate(u, entry) ==
  /\ tstate[u] = "FREE"
  /\ tstate' = [tstate EXCEPT ![u] = "SUSPENDED"]
  /\ resched' = [resched EXCEPT ![u] = FALSE]
  /\ timer' = [timer EXCEPT ![u] = FALSE]
  /\ pc' = [pc EXCEPT ![u] = "unlock"]
  /\ ret' = [ret EXCEPT ![u] = entry]

\* task_exit(): task_cleanup() marks the task destroyed and it yields; the
\* scheduler loop sees DESTROYED, sets NONE and unlocks to free it.  All of
\* it is one critical section, so DESTROYED is never seen by another CPU.
TaskExit(c, at) ==
  LET t == current[c] IN
  /\ Running(c, t) /\ pc[t] = at /\ schedLock = NoCpu
  /\ tstate' = [tstate EXCEPT ![t] = "NONE"]
  /\ timer' = [timer EXCEPT ![t] = FALSE]
  /\ current' = [current EXCEPT ![c] = NoTask]
  /\ schedPc' = [schedPc EXCEPT ![c] = "reap"]
  /\ reaping' = [reaping EXCEPT ![c] = t]
  /\ UNCHANGED <<resched, sleepResult, runq, waitq, isrNesting, schedLock,
                 lockOwner, pc, ret, sleepQ, sleepLock, timedSleep, returned,
                 wakeQ, irqPc, firing>>

\* sched_sleep(queue, timeout, lock) up to its sched_yield(): take the
\* scheduler lock before releasing the caller's lock, arm the timer, mark
\* the task sleeping on the queue and switch out.
SchedSleep(c) ==
  LET t == current[c] IN
  /\ Running(c, t) /\ pc[t] = "wait" /\ schedLock = NoCpu
  /\ lockOwner' = IF sleepLock[t] = NoLock THEN lockOwner
                  ELSE [lockOwner EXCEPT ![sleepLock[t]] = NoCpu]
  /\ timer' = IF timedSleep[t] THEN [timer EXCEPT ![t] = TRUE] ELSE timer
  /\ tstate' = [tstate EXCEPT ![t] = "SLEEPING"]
  /\ waitq' = [waitq EXCEPT ![sleepQ[t]] = Append(@, t)]
  /\ SwitchOut(c)
  /\ schedLock' = c
  /\ pc' = [pc EXCEPT ![t] = "slept"]
  /\ UNCHANGED <<resched, sleepResult, runq, isrNesting, reaping, ret,
                 sleepQ, sleepLock, timedSleep, returned, wakeQ, irqPc, firing>>

\* sched_sleep() after sched_yield(): stop the timer, release the scheduler
\* lock, and fetch the sleep result.
SleepReturn(c) ==
  LET t == current[c] IN
  /\ schedPc[c] = "switched" /\ schedLock = c /\ pc[t] = "slept"
  /\ timer' = IF timedSleep[t] THEN [timer EXCEPT ![t] = FALSE] ELSE timer
  /\ schedLock' = NoCpu
  /\ returned' = [returned EXCEPT ![t] = sleepResult[t]]
  /\ pc' = [pc EXCEPT ![t] = IF sleepLock[t] = NoLock THEN ret[t] ELSE "relock"]
  /\ UNCHANGED <<tstate, resched, sleepResult, runq, waitq, current,
                 isrNesting, lockOwner, schedPc, reaping, ret, sleepQ,
                 sleepLock, timedSleep, wakeQ, irqPc, firing>>

\* sched_sleep() reacquires the caller's lock before returning.
SleepRelock(c) ==
  LET t == current[c] IN
  /\ Running(c, t) /\ pc[t] = "relock"
  /\ lockOwner[sleepLock[t]] = NoCpu
  /\ lockOwner' = [lockOwner EXCEPT ![sleepLock[t]] = c]
  /\ pc' = [pc EXCEPT ![t] = ret[t]]
  /\ UNCHANGED <<tstate, resched, sleepResult, timer, runq, waitq, current,
                 isrNesting, schedLock, schedPc, reaping, ret, sleepQ,
                 sleepLock, timedSleep, returned, wakeQ, irqPc, firing>>

\* The caller of sched_wakeup_all() takes the scheduler lock.
WakeAllBegin(c) ==
  LET t == current[c] IN
  /\ Running(c, t) /\ pc[t] = "wake_all" /\ schedLock = NoCpu
  /\ schedLock' = c
  /\ pc' = [pc EXCEPT ![t] = "waking"]
  /\ UNCHANGED <<tstate, resched, sleepResult, timer, runq, waitq, current,
                 isrNesting, lockOwner, schedPc, reaping, ret, sleepQ,
                 sleepLock, timedSleep, returned, wakeQ, irqPc, firing>>

\* Mutant of WakeAllStep: the loop ends after the first sleeper, as if
\* sched_wakeup_one() had been called.
WakeAllStepOnce(c) ==
  LET t == current[c]
      q == wakeQ[t]
  IN
  /\ schedPc[c] = "switched" /\ schedLock = c /\ pc[t] = "waking"
  /\ IF waitq[q] = <<>>
     THEN /\ schedLock' = NoCpu
          /\ pc' = [pc EXCEPT ![t] = ret[t]]
          /\ UNCHANGED <<tstate, runq, waitq, resched, sleepResult, current,
                         schedPc>>
     ELSE LET u == Head(waitq[q]) IN
          /\ waitq' = [waitq EXCEPT ![q] = Tail(@)]
          /\ sleepResult' = [sleepResult EXCEPT ![u] = 0]
          /\ MayYield(c, u, [tstate EXCEPT ![u] = "READY"], Enqueue(runq, u),
                      "unlock", ret[t], NoCpu)
  /\ UNCHANGED <<timer, isrNesting, lockOwner, reaping, ret, sleepQ,
                 sleepLock, timedSleep, returned, wakeQ, irqPc, firing>>

\* One iteration of sched_wakeup_all(): wake the head sleeper, which may
\* preempt the waker in the middle of the loop; an empty list ends the loop
\* and the caller unlocks.
WakeAllStep(c) ==
  LET t == current[c]
      q == wakeQ[t]
  IN
  /\ schedPc[c] = "switched" /\ schedLock = c /\ pc[t] = "waking"
  /\ IF waitq[q] = <<>>
     THEN /\ schedLock' = NoCpu
          /\ pc' = [pc EXCEPT ![t] = ret[t]]
          /\ UNCHANGED <<tstate, runq, waitq, resched, sleepResult, current,
                         schedPc>>
     ELSE LET u == Head(waitq[q]) IN
          /\ waitq' = [waitq EXCEPT ![q] = Tail(@)]
          /\ sleepResult' = [sleepResult EXCEPT ![u] = 0]
          /\ MayYield(c, u, [tstate EXCEPT ![u] = "READY"], Enqueue(runq, u),
                      "waking", "waking", c)
  /\ UNCHANGED <<timer, isrNesting, lockOwner, reaping, ret, sleepQ,
                 sleepLock, timedSleep, returned, wakeQ, irqPc, firing>>

-----------------------------------------------------------------------------
(* Interrupt context.                                                       *)

\* sched_isr_enter() on an interrupt taken with interrupts enabled.
IsrEnter(c) ==
  /\ isrNesting[c] < MaxIsrNesting
  /\ IrqEnabled(c)
  /\ isrNesting' = [isrNesting EXCEPT ![c] = @ + 1]
  /\ UNCHANGED <<tstate, resched, sleepResult, timer, runq, waitq, current,
                 schedLock, lockOwner, schedPc, reaping, pc, ret, sleepQ,
                 sleepLock, timedSleep, returned, wakeQ, irqPc, firing>>

\* Mutant of IsrExit: the "isr_nesting <= 0" panic check is dropped.
IsrExitNoCheck(c) ==
  LET me == current[c] IN
  /\ schedLock = NoCpu /\ firing[c] = NoTask
  /\ isrNesting' = [isrNesting EXCEPT ![c] = @ - 1]
  /\ IF isrNesting[c] = 1 /\ me # NoTask /\ resched[me]
     THEN /\ resched' = [resched EXCEPT ![me] = FALSE]
          /\ tstate' = [tstate EXCEPT ![me] = "READY"]
          /\ runq' = Enqueue(runq, me)
          /\ SwitchOut(c)
          /\ schedLock' = c
          /\ pc' = [pc EXCEPT ![me] = "unlock"]
          /\ irqPc' = [irqPc EXCEPT ![me] = pc[me]]
     ELSE UNCHANGED <<resched, tstate, runq, current, schedPc, schedLock, pc,
                      irqPc>>
  /\ UNCHANGED <<sleepResult, timer, waitq, lockOwner, reaping, ret, sleepQ,
                 sleepLock, timedSleep, returned, wakeQ, firing>>

\* Mutant of IsrExit: the outermost exit is tested before the decrement
\* (isr_nesting-- == 0 for --isr_nesting == 0).
IsrExitPostDecrement(c) ==
  LET me == current[c] IN
  /\ isrNesting[c] > 0 /\ schedLock = NoCpu /\ firing[c] = NoTask
  /\ isrNesting' = [isrNesting EXCEPT ![c] = @ - 1]
  /\ IF isrNesting[c] = 0 /\ me # NoTask /\ resched[me]
     THEN /\ resched' = [resched EXCEPT ![me] = FALSE]
          /\ tstate' = [tstate EXCEPT ![me] = "READY"]
          /\ runq' = Enqueue(runq, me)
          /\ SwitchOut(c)
          /\ schedLock' = c
          /\ pc' = [pc EXCEPT ![me] = "unlock"]
          /\ irqPc' = [irqPc EXCEPT ![me] = pc[me]]
     ELSE UNCHANGED <<resched, tstate, runq, current, schedPc, schedLock, pc,
                      irqPc>>
  /\ UNCHANGED <<sleepResult, timer, waitq, lockOwner, reaping, ret, sleepQ,
                 sleepLock, timedSleep, returned, wakeQ, firing>>

\* sched_isr_exit(): at the outermost exit a pending reschedule of the
\* interrupted task is honoured by enqueueing it and yielding.
IsrExit(c) ==
  LET me == current[c] IN
  /\ isrNesting[c] > 0 /\ schedLock = NoCpu /\ firing[c] = NoTask
  /\ isrNesting' = [isrNesting EXCEPT ![c] = @ - 1]
  /\ IF isrNesting[c] = 1 /\ me # NoTask /\ resched[me]
     THEN /\ resched' = [resched EXCEPT ![me] = FALSE]
          /\ tstate' = [tstate EXCEPT ![me] = "READY"]
          /\ runq' = Enqueue(runq, me)
          /\ SwitchOut(c)
          /\ schedLock' = c
          /\ pc' = [pc EXCEPT ![me] = "unlock"]
          /\ irqPc' = [irqPc EXCEPT ![me] = pc[me]]
     ELSE UNCHANGED <<resched, tstate, runq, current, schedPc, schedLock, pc,
                      irqPc>>
  /\ UNCHANGED <<sleepResult, timer, waitq, lockOwner, reaping, ret, sleepQ,
                 sleepLock, timedSleep, returned, wakeQ, firing>>

\* An interrupt handler calls sched_wakeup_one(q, 0) under the scheduler
\* lock (as k_semaphore_put() does from interrupt_thread_notify()).
IsrWakeOne(c, q) ==
  /\ isrNesting[c] > 0 /\ schedLock = NoCpu
  /\ waitq[q] # <<>>
  /\ LET i == HighestIn(waitq[q])
         u == waitq[q][i]
     IN /\ waitq' = [waitq EXCEPT ![q] = RemoveAt(@, i)]
        /\ sleepResult' = [sleepResult EXCEPT ![u] = 0]
        /\ MayYield(c, u, [tstate EXCEPT ![u] = "READY"], Enqueue(runq, u),
                    "unlock", pc[current[c]], NoCpu)
  /\ UNCHANGED <<timer, isrNesting, lockOwner, reaping, ret, sleepQ,
                 sleepLock, timedSleep, returned, wakeQ, irqPc, firing>>

\* The timer of u expires on c: the timer layer takes it off its list and
\* starts its callback task_sleep_callback(u) in interrupt context.  A
\* callback once started is no longer stopped by ktimer_stop().
TimerExpire(c, u) ==
  /\ isrNesting[c] > 0 /\ firing[c] = NoTask
  /\ timer[u]
  /\ timer' = [timer EXCEPT ![u] = FALSE]
  /\ firing' = [firing EXCEPT ![c] = u]
  /\ UNCHANGED <<tstate, resched, sleepResult, runq, waitq, current,
                 isrNesting, schedLock, lockOwner, schedPc, reaping, pc, ret,
                 sleepQ, sleepLock, timedSleep, returned, wakeQ, irqPc>>

\* Mutant of TimerCallback: the task is woken whatever its state.
TimerCallbackNoStateCheck(c) ==
  LET u == firing[c] IN
  /\ isrNesting[c] > 0 /\ u # NoTask /\ schedLock = NoCpu
  /\ firing' = [firing EXCEPT ![c] = NoTask]
  /\ sleepResult' = [sleepResult EXCEPT ![u] = ETIMEDOUT]
  /\ waitq' = [q \in WaitQueue |-> Remove(waitq[q], u)]
  /\ MayYield(c, u, [tstate EXCEPT ![u] = "READY"], Enqueue(runq, u),
              "unlock", pc[current[c]], NoCpu)
  /\ UNCHANGED <<timer, isrNesting, lockOwner, reaping, ret, sleepQ,
                 sleepLock, timedSleep, returned, wakeQ, irqPc>>

\* task_sleep_callback() once it holds the scheduler lock: a task still
\* sleeping is unlinked, given -ETIMEDOUT and enqueued.
TimerCallback(c) ==
  LET u == firing[c] IN
  /\ isrNesting[c] > 0 /\ u # NoTask /\ schedLock = NoCpu
  /\ firing' = [firing EXCEPT ![c] = NoTask]
  /\ IF tstate[u] = "SLEEPING"
     THEN /\ sleepResult' = [sleepResult EXCEPT ![u] = ETIMEDOUT]
          /\ waitq' = [q \in WaitQueue |-> Remove(waitq[q], u)]
          /\ MayYield(c, u, [tstate EXCEPT ![u] = "READY"], Enqueue(runq, u),
                      "unlock", pc[current[c]], NoCpu)
     ELSE UNCHANGED <<sleepResult, waitq, tstate, runq, resched, schedLock,
                      pc, current, schedPc>>
  /\ UNCHANGED <<timer, isrNesting, lockOwner, reaping, ret, sleepQ,
                 sleepLock, timedSleep, returned, wakeQ, irqPc>>

-----------------------------------------------------------------------------
(* Properties of the scheduler.                                             *)

TypeOK ==
  /\ tstate \in [Task -> TaskStates]
  /\ resched \in [Task -> BOOLEAN]
  /\ sleepResult \in [Task -> Results]
  /\ timer \in [Task -> BOOLEAN]
  /\ runq \in [Prios -> Seq(Task)]
  /\ waitq \in [WaitQueue -> Seq(Task)]
  /\ current \in [CPU -> Task \cup {NoTask}]
  /\ isrNesting \in [CPU -> 0..MaxIsrNesting]
  /\ schedLock \in CPU \cup {NoCpu}
  /\ lockOwner \in [SpinLock -> CPU \cup {NoCpu}]
  /\ schedPc \in [CPU -> {"loop", "idle", "relock", "reap", "switched"}]
  /\ reaping \in [CPU -> Task \cup {NoTask}]
  /\ sleepQ \in [Task -> WaitQueue \cup {NoQueue}]
  /\ sleepLock \in [Task -> SpinLock \cup {NoLock}]
  /\ timedSleep \in [Task -> BOOLEAN]
  /\ returned \in [Task -> Results]
  /\ wakeQ \in [Task -> WaitQueue \cup {NoQueue}]
  /\ irqPc \in [Task -> {NoPc, "body", "wake_all", "relock"}]
  /\ firing \in [CPU -> Task \cup {NoTask}]

\* The number of times t occurs on list s.
Occurrences(s, t) == Cardinality({i \in DOMAIN s : s[i] = t})

\* Spec section 8, invariant 1, as kept by every path through sched_enqueue,
\* sched_dequeue, sched_sleep, the wake-ups, the timer callback and the
\* context switches of sched_start(): a task is on at most one list; it is
\* READY iff it is on the run queue of its own priority, SLEEPING iff it is
\* on a wait list, RUNNING iff exactly one CPU has it as current; a task
\* whose object is free or being freed is referenced by no list, no CPU and
\* no armed timer.
SchedConsistent ==
  \A t \in Task :
    LET onRun  == {i \in Prios : Occurrences(runq[i], t) > 0}
        onWait == {q \in WaitQueue : Occurrences(waitq[q], t) > 0}
        onCpu  == {c \in CPU : current[c] = t}
    IN
    /\ \A i \in Prios : Occurrences(runq[i], t) <= 1
    /\ \A q \in WaitQueue : Occurrences(waitq[q], t) <= 1
    /\ Cardinality(onRun) + Cardinality(onWait) + Cardinality(onCpu) <= 1
    /\ (tstate[t] = "READY")    <=> (onRun = {Priority[t]})
    /\ (tstate[t] = "SLEEPING") <=> (onWait # {})
    /\ (tstate[t] = "RUNNING")  <=> (onCpu # {})
    /\ tstate[t] \in {"FREE", "NONE"} => ~timer[t]

\* A reschedule that sched_may_yield() deferred in interrupt context by
\* setting TASK_FLAGS_RESCHEDULE is carried out: the flagged task is
\* eventually put back on the run queue with the flag cleared.
RescheduleHonoured ==
  \A t \in Task : resched[t] ~> (~resched[t] /\ tstate[t] = "READY")

\* Spec section 5: a higher-priority task that becomes ready preempts a
\* lower-priority running task by the next ISR exit.  Stated for the
\* outermost sched_isr_exit() on every CPU.
PreemptAtIsrExit ==
  [][\A c \in CPU :
       (/\ isrNesting[c] = 1 /\ isrNesting'[c] = 0
        /\ current[c] # NoTask
        /\ \E u \in Task : tstate[u] = "READY" /\ Higher(u, current[c]))
         => current'[c] # current[c]]_schedVars

=============================================================================
