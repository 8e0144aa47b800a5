-------------------------------- MODULE LwipSys --------------------------------
(***************************************************************************)
(* The lwIP system layer (src/kernel/core/wchan.c, from line 50): lwIP's   *)
(* semaphores, mailboxes and SYS_ARCH_PROTECT on top of the kernel's       *)
(* semaphore (ksem_get/put), message queue (kqueue_send/receive) and a    *)
(* spinlock.                                                               *)
(*                                                                         *)
(* The glue converts lwIP's millisecond timeouts into ticks (timeout / 10, *)
(* 0 meaning no timer), measures the wait with ktime_get() and maps a      *)
(* negative kernel result to SYS_ARCH_TIMEOUT.  ksem and kqueue are       *)
(* not under src/: a get or receive is the loop of k_mailbox_timed_receive *)
(* (part_003), try, else sleep through sched_sleep with the timeout and    *)
(* try again when woken, leaving on a negative sleep result; a put or send *)
(* wakes one sleeper on the transition from empty (a receive on the one    *)
(* from full), as spec section 4.4 says.  All lwIP threads have priority 0 *)
(* (sys_thread_new ignores prio), so a wake-up takes the head of the list. *)
(* Messages are not told apart: the mailbox holds a number of them.        *)
(* Each kernel call under the object's lock is one step.                   *)
(***************************************************************************)
EXTENDS Integers, Sequences

CONSTANTS
  Thread,     \* lwIP threads
  Timeouts,   \* the millisecond timeouts lwIP passes to a wait
  SemCounts,  \* the initial counts lwIP gives sys_sem_new()
  Cap,        \* mailbox capacity (a page of pointers in the code)
  MaxOps,     \* bound on signals and on posts, each
  None        \* no thread

\* The thread that calls tcpip_init() and creates the others.
FirstThread == CHOOSE t \in Thread : TRUE

MaxTimeout == CHOOSE m \in Timeouts : \A n \in Timeouts : n <= m

\* lwIP's u32_t SYS_ARCH_TIMEOUT, 0xffffffff, written as the int32 with the
\* same bits; sys.h defines SYS_MBOX_EMPTY as the same value.
SysArchTimeout == -1
SysMboxEmpty == SysArchTimeout
ETIMEDOUT == -110
EAGAIN == 11
NoRet == -2     \* no value returned yet

Lists == {"sem", "recv", "send"}

VARIABLES
  count,      \* the kernel semaphore's counter
  size,       \* messages in the kernel queue
  sleepers,   \* sleepers[l]: the threads asleep on list l, in order
  holder,     \* the CPU's thread holding lwip_lock, or None
  pc,         \* "unborn", "idle", "sleeping", "woken" or "protected"
  op,         \* the call in progress or last made: "semwait", "fetch",
              \* "post", "trypost" or "tryfetch"
  ms,         \* its lwIP timeout
  timer,      \* ticks left on the sleep timer, 0 when not armed
  elapsed,    \* ticks since the call began (saturating, see Tick)
  res,        \* sleep_result when woken: 0 or ETIMEDOUT
  ret,        \* what the last sys_arch_* call returned, or NoRet
  signals,    \* sys_sem_signal calls made
  posts       \* sys_mbox_post and trypost calls made

vars == <<count, size, sleepers, holder, pc, op, ms, timer, elapsed, res, ret,
          signals, posts>>

\* The ticks the glue asks for: timeout / 10 in C, 0 being no timeout.
Ticks(m) == m \div 10

ListOf(o) == CASE o = "semwait" -> "sem" [] o = "fetch" -> "recv"
                  [] o = "post" -> "send"

\* The thread _k_sched_wakeup_one() takes from list l when cond holds.
WokenBy(l, cond) ==
  IF cond /\ sleepers[l] # <<>> THEN {Head(sleepers[l])} ELSE {}

\* The kernel semaphore has a token for ksem_get().
SemHasToken == count > 0

\* k_mailbox_try_receive_locked() finds a message.
MboxHasMessage == size > 0

\* Mutant: a send that does not check for a full mailbox.
MboxNoFullCheck == TRUE

\* k_mailbox_try_send_locked() finds room for the message.
MboxHasRoom == size < Cap

\* The kernel's try on behalf of a call o: whether it succeeds, and the
\* thread it wakes when it does.
CanTake(o) == CASE o = "semwait" -> SemHasToken [] o = "fetch" -> MboxHasMessage
                   [] o = "post" -> MboxHasRoom

Wakes(o) == CASE o = "semwait" -> {}
                 [] o = "fetch" -> WokenBy("send", size = Cap)
                 [] o = "post" -> WokenBy("recv", size = 0)

\* The effect of a successful try of o: the counter or queue changes, the
\* woken thread leaves its list and is ready with sleep_result 0 and its
\* timer stopped.
Take(o, w) ==
  /\ count' = IF o = "semwait" THEN count - 1 ELSE count
  /\ size' = CASE o = "fetch" -> size - 1 [] o = "post" -> size + 1
                  [] OTHER -> size
  /\ sleepers' = [l \in Lists |-> IF sleepers[l] # <<>> /\ Head(sleepers[l]) \in w
                                   THEN Tail(sleepers[l]) ELSE sleepers[l]]

\* The glue's result for a call with timeout m, e ticks after it began:
\* a negative kernel result is SYS_ARCH_TIMEOUT, else MIN(timeout,
\* (end - start) * 10).
Finish(m, e, r) ==
  IF r < 0 THEN SysArchTimeout ELSE IF m < e * 10 THEN m ELSE e * 10

\* One pass of the kernel loop for the call o (timeout m, e ticks so far)
\* of thread t: take and return to the glue, or sleep on the list with the
\* ticks of the timeout (sched_sleep arms its timer again on every pass).
Pass(t, o, m, e) ==
  IF CanTake(o)
  THEN LET w == Wakes(o) IN
       /\ Take(o, w)
       /\ pc' = [u \in Thread |-> IF u \in w THEN "woken"
                                  ELSE IF u = t THEN "idle" ELSE pc[u]]
       /\ res' = [u \in Thread |-> IF u \in w THEN 0 ELSE res[u]]
       /\ timer' = [u \in Thread |-> IF u \in w \/ u = t THEN 0 ELSE timer[u]]
       /\ ret' = [ret EXCEPT ![t] = IF o = "post" THEN NoRet ELSE Finish(m, e, 0)]
  ELSE /\ sleepers' = [sleepers EXCEPT ![ListOf(o)] = Append(@, t)]
       /\ pc' = [pc EXCEPT ![t] = "sleeping"]
       /\ timer' = [timer EXCEPT ![t] = Ticks(m)]
       /\ ret' = [ret EXCEPT ![t] = NoRet]
       /\ UNCHANGED <<count, size, res>>

-----------------------------------------------------------------------------
\* sys_arch_sem_wait(), sys_arch_mbox_fetch() and sys_mbox_post(): start =
\* ktime_get(), then ksem_get(sem, timeout / 10, 1) or kqueue_receive(...,
\* timeout / 10, 1), or kqueue_send(..., 0, 1) for a post.
Call(t, o, m) ==
  /\ pc[t] = "idle"
  /\ o = "post" => posts < MaxOps
  /\ posts' = IF o = "post" THEN posts + 1 ELSE posts
  /\ op' = [op EXCEPT ![t] = o]
  /\ ms' = [ms EXCEPT ![t] = m]
  /\ elapsed' = [elapsed EXCEPT ![t] = 0]
  /\ Pass(t, o, m, 0)
  /\ UNCHANGED <<holder, signals>>

SysArchSemWait(t, m) == Call(t, "semwait", m)
SysArchMboxFetch(t, m) == Call(t, "fetch", m)
SysMboxPost(t) == Call(t, "post", 0)

Retry(t) ==
  /\ pc[t] = "woken"
  /\ IF res[t] < 0
     THEN /\ pc' = [pc EXCEPT ![t] = "idle"]
          /\ ret' = [ret EXCEPT ![t] = IF op[t] = "post" THEN NoRet
                                       ELSE Finish(ms[t], elapsed[t], res[t])]
          /\ UNCHANGED <<count, size, sleepers, timer, res>>
     ELSE Pass(t, op[t], ms[t], elapsed[t])
  /\ UNCHANGED <<holder, op, ms, elapsed, signals, posts>>

\* sys_sem_signal(): ksem_put() adds one and wakes a sleeper if the counter
\* was zero.
SysSemSignal(t) ==
  LET w == WokenBy("sem", count = 0) IN
  /\ pc[t] = "idle" /\ signals < MaxOps
  /\ count' = count + 1
  /\ signals' = signals + 1
  /\ sleepers' = [sleepers EXCEPT !["sem"] = IF w = {} THEN @ ELSE Tail(@)]
  /\ pc' = [u \in Thread |-> IF u \in w THEN "woken" ELSE pc[u]]
  /\ res' = [u \in Thread |-> IF u \in w THEN 0 ELSE res[u]]
  /\ timer' = [u \in Thread |-> IF u \in w THEN 0 ELSE timer[u]]
  /\ UNCHANGED <<size, holder, op, ms, elapsed, ret, posts>>

\* sys_mbox_trypost() and sys_mbox_trypost_fromisr(): kqueue_send(..., 0, 0)
\* either queues the message or fails at once; its -EAGAIN is returned as
\* the err_t.
SysMboxTrypost(t) ==
  /\ pc[t] = "idle" /\ posts < MaxOps
  /\ posts' = posts + 1
  /\ IF CanTake("post")
     THEN LET w == Wakes("post") IN
          /\ Take("post", w)
          /\ pc' = [u \in Thread |-> IF u \in w THEN "woken" ELSE pc[u]]
          /\ res' = [u \in Thread |-> IF u \in w THEN 0 ELSE res[u]]
          /\ timer' = [u \in Thread |-> IF u \in w THEN 0 ELSE timer[u]]
          /\ ret' = [ret EXCEPT ![t] = 0]
     ELSE /\ ret' = [ret EXCEPT ![t] = -EAGAIN]
          /\ UNCHANGED <<count, size, sleepers, pc, res, timer>>
  /\ op' = [op EXCEPT ![t] = "trypost"]
  /\ ms' = [ms EXCEPT ![t] = 0]
  /\ UNCHANGED <<holder, elapsed, signals>>

\* sys_arch_mbox_tryfetch(): kqueue_receive(..., 0, 0); failure is
\* SYS_MBOX_EMPTY.
SysArchMboxTryfetch(t) ==
  /\ pc[t] = "idle"
  /\ IF CanTake("fetch")
     THEN LET w == Wakes("fetch") IN
          /\ Take("fetch", w)
          /\ pc' = [u \in Thread |-> IF u \in w THEN "woken" ELSE pc[u]]
          /\ res' = [u \in Thread |-> IF u \in w THEN 0 ELSE res[u]]
          /\ timer' = [u \in Thread |-> IF u \in w THEN 0 ELSE timer[u]]
          /\ ret' = [ret EXCEPT ![t] = 0]
     ELSE /\ ret' = [ret EXCEPT ![t] = SysMboxEmpty]
          /\ UNCHANGED <<count, size, sleepers, pc, res, timer>>
  /\ op' = [op EXCEPT ![t] = "tryfetch"]
  /\ ms' = [ms EXCEPT ![t] = 0]
  /\ UNCHANGED <<holder, elapsed, signals, posts>>

\* Mutant: the timer callback does not unlink the sleeper.
TickNoUnlink ==
  LET fired == {t \in Thread : timer[t] = 1} IN
  /\ \E t \in Thread : timer[t] > 0
  /\ timer' = [t \in Thread |-> IF timer[t] > 0 THEN timer[t] - 1 ELSE 0]
  /\ elapsed' = [t \in Thread |->
                   IF pc[t] \in {"sleeping", "woken"} /\ elapsed[t] <= Ticks(ms[t])
                   THEN elapsed[t] + 1 ELSE elapsed[t]]
  /\ pc' = [t \in Thread |-> IF t \in fired THEN "woken" ELSE pc[t]]
  /\ res' = [t \in Thread |-> IF t \in fired THEN ETIMEDOUT ELSE res[t]]
  /\ UNCHANGED <<count, size, sleepers, holder, op, ms, ret, signals, posts>>

\* A timer tick.  Every armed sleep timer counts down; one that reaches 0
\* runs task_sleep_callback(): the sleeper gets -ETIMEDOUT, leaves its list
\* and is made ready.  Threads inside a call see the tick in their elapsed
\* time, kept up to Ticks(ms) + 1, past which MIN(timeout, ...) no longer
\* changes.
Tick ==
  LET fired == {t \in Thread : timer[t] = 1} IN
  /\ \E t \in Thread : timer[t] > 0
  /\ timer' = [t \in Thread |-> IF timer[t] > 0 THEN timer[t] - 1 ELSE 0]
  /\ elapsed' = [t \in Thread |->
                   IF pc[t] \in {"sleeping", "woken"} /\ elapsed[t] <= Ticks(ms[t])
                   THEN elapsed[t] + 1 ELSE elapsed[t]]
  /\ pc' = [t \in Thread |-> IF t \in fired THEN "woken" ELSE pc[t]]
  /\ res' = [t \in Thread |-> IF t \in fired THEN ETIMEDOUT ELSE res[t]]
  /\ sleepers' = [l \in Lists |-> SelectSeq(sleepers[l], LAMBDA u : u \notin fired)]
  /\ UNCHANGED <<count, size, holder, op, ms, ret, signals, posts>>

\* sys_thread_new() by the running thread t: task_create() with priority 0
\* whatever prio lwIP asks for, then task_resume(); the new thread n runs.
SysThreadNew(t, n) ==
  /\ pc[t] = "idle" /\ pc[n] = "unborn"
  /\ pc' = [pc EXCEPT ![n] = "idle"]
  /\ UNCHANGED <<count, size, sleepers, holder, op, ms, timer, elapsed, res,
                 ret, signals, posts>>

\* sys_arch_protect(): spin_lock(&lwip_lock), spinning while another CPU
\* holds it.
SysArchProtect(t) ==
  /\ pc[t] = "idle" /\ holder = None
  /\ holder' = t
  /\ pc' = [pc EXCEPT ![t] = "protected"]
  /\ UNCHANGED <<count, size, sleepers, op, ms, timer, elapsed, res, ret,
                 signals, posts>>

\* sys_arch_unprotect(): spin_unlock(&lwip_lock).
SysArchUnprotect(t) ==
  /\ pc[t] = "protected"
  /\ holder' = None
  /\ pc' = [pc EXCEPT ![t] = "idle"]
  /\ UNCHANGED <<count, size, sleepers, op, ms, timer, elapsed, res, ret,
                 signals, posts>>

-----------------------------------------------------------------------------
\* sys_sem_new(&sem, n): a kernel semaphore with n tokens and no sleeper.
SysSemNew(n) == count = n /\ sleepers["sem"] = <<>>

\* sys_mbox_new(&mbox, size): a queue over one page whatever size lwIP asks
\* for, empty, with no sender or receiver asleep.
SysMboxNew == size = 0 /\ sleepers["recv"] = <<>> /\ sleepers["send"] = <<>>

\* After sys_init(), one semaphore and one mailbox created by lwIP.
Init ==
  /\ sleepers \in [Lists -> {<<>>}]
  /\ \E n \in SemCounts : SysSemNew(n)
  /\ SysMboxNew
  /\ holder = None
  /\ pc = [t \in Thread |-> IF t = FirstThread THEN "idle" ELSE "unborn"]
  /\ op = [t \in Thread |-> "semwait"]
  /\ ms = [t \in Thread |-> 0]
  /\ timer = [t \in Thread |-> 0]
  /\ elapsed = [t \in Thread |-> 0]
  /\ res = [t \in Thread |-> 0]
  /\ ret = [t \in Thread |-> NoRet]
  /\ signals = 0
  /\ posts = 0

Next ==
  \/ \E t \in Thread :
       \/ \E m \in Timeouts : SysArchSemWait(t, m) \/ SysArchMboxFetch(t, m)
       \/ SysMboxPost(t)
       \/ Retry(t)
       \/ SysSemSignal(t)
       \/ SysMboxTrypost(t)
       \/ SysArchMboxTryfetch(t)
       \/ \E n \in Thread : SysThreadNew(t, n)
       \/ SysArchProtect(t)
       \/ SysArchUnprotect(t)
  \/ Tick

Spec == Init /\ [][Next]_vars

\* The periodic tick keeps coming, a ready thread is eventually run (the
\* scheduler's own fairness) and lwip_lock is held only briefly.  What the
\* threads call, and when, is left free.
Fairness ==
  /\ WF_vars(Tick)
  /\ \A t \in Thread : WF_vars(Retry(t)) /\ WF_vars(SysArchUnprotect(t))

FairSpec == Spec /\ Fairness

-----------------------------------------------------------------------------
TypeOK ==
  /\ count \in 0..(MaxOps + 1)
  /\ size \in 0..Cap
  /\ \A l \in Lists : sleepers[l] \in Seq(Thread)
  /\ holder \in Thread \cup {None}
  /\ pc \in [Thread -> {"unborn", "idle", "sleeping", "woken", "protected"}]
  /\ op \in [Thread -> {"semwait", "fetch", "post", "trypost", "tryfetch"}]
  /\ ms \in [Thread -> Timeouts \cup {0}]
  /\ timer \in [Thread -> 0..Ticks(MaxTimeout)]
  /\ res \in [Thread -> {0, ETIMEDOUT}]
  /\ signals \in 0..MaxOps /\ posts \in 0..MaxOps

\* The sleep lists are exact across the races of a wake-up, a timer firing
\* and a retry: a thread is on a list exactly when it is asleep, on the
\* list of its own call and once; an armed timer belongs to a sleeper.
SleepListsExact ==
  \A t \in Thread :
    /\ \A l \in Lists :
         Len(SelectSeq(sleepers[l], LAMBDA u : u = t))
           = IF pc[t] = "sleeping" /\ l = ListOf(op[t]) THEN 1 ELSE 0
    /\ timer[t] > 0 => pc[t] = "sleeping"

====
