------------------------------- MODULE Process -------------------------------
(***************************************************************************)
(* The process layer (src/kernel/process/process.c): processes and their  *)
(* threads come from two object caches, process_cache and thread_cache;   *)
(* a thread object carries the pid and the pid-hash link; parent/children *)
(* links, the zombie flag and the exit code are guarded by process_lock;   *)
(* a parent sleeps on its own wait queue in process_wait() and a child     *)
(* wakes it from process_destroy().  After process_destroy() the thread    *)
(* calls task_destroy() and the scheduler frees the thread object through  *)
(* process_thread_destroy(); the zombie's struct Process still points at   *)
(* it until the parent frees the process.                                  *)
(*                                                                         *)
(* Each critical section of process_lock or pid_hash.lock is one step.     *)
(* wchan_sleep() releases process_lock atomically with respect to a waker *)
(* (sched_sleep() takes the scheduler lock before releasing it; the Sched *)
(* model checks that this loses no wake-up).  Code runs on threads, so    *)
(* control state is kept per thread object.  Address spaces, files, cwd   *)
(* and credentials are copied or released without any effect on the      *)
(* state below and are left out.                                          *)
(***************************************************************************)
EXTENDS Integers, Sequences, SequencesExt, TLC

CONSTANTS
  ProcObj,        \* the objects of process_cache
  ThreadObj,      \* the objects of thread_cache
  InitProc,       \* init_process
  InitThread,     \* its thread
  MaxPid,         \* the largest pid_t, scaled down so that the overflow is reached
  VmCloneMayFail, \* vm_space_clone() may return NULL
  NoProc, NoThread

ASSUME InitProc \in ProcObj /\ InitThread \in ThreadObj
ASSUME MaxPid \in Nat /\ VmCloneMayFail \in BOOLEAN

ECHILD == -10

Pids == 1..MaxPid

\* The pid selectors process_wait() is called with: a group (-2), any child,
\* the caller's group, or one pid.
Selectors == {-2, -1, 0} \cup Pids

VARIABLES
  pstate,     \* "free" in process_cache, "alive", or "zombie"
  pthread,    \* process->thread
  parent,     \* process->parent
  children,   \* process->children, in list order
  tstate,     \* "free" in thread_cache, or "live"
  tpid,       \* thread->pid: memory that keeps its value when freed
  tproc,      \* thread->process
  tpc,        \* where the thread runs: "user", "forked" (process_copy()
              \* about to return), "waiting", "woken", "unhashed" (in
              \* process_destroy() between its two sections), "exiting", or
              \* "suspended" (created, never resumed)
  forkChild,  \* the child of the thread's process_copy() in progress
  wsel,       \* the pid argument of the thread's process_wait()
  pidHash,    \* the threads linked into pid_hash
  nextPid,    \* next_pid
  pidOf,      \* the pid process_alloc() gave each process (history)
  result      \* the pid the thread's last process_copy() or process_wait()
              \* returned and the pid of the child it is about

vars == <<pstate, pthread, parent, children, tstate, tpid, tproc, tpc,
          forkChild, wsel, pidHash, nextPid, pidOf, result>>

NoResult == [ret |-> 0, pid |-> 0]

-----------------------------------------------------------------------------
(* The scan of process_wait().                                              *)

\* The pid process_wait() reads for child c: p->thread->pid.
SeenPid(c) == tpid[pthread[c]]

\* LIST_FOREACH over the children list from position i with selector sel:
\* [found, at] where found is the last pid recorded and at the position of
\* the zombie child to reap (0 if none).  pid > 0 skips other pids; pid 0
\* and pid < -1 break out before anything is found.
RECURSIVE Scan(_, _, _, _)
Scan(list, sel, i, found) ==
  IF i > Len(list) THEN [found |-> found, at |-> 0]
  ELSE LET c == list[i] IN
       CASE sel > 0 /\ SeenPid(c) # sel -> Scan(list, sel, i + 1, found)
         [] sel = 0 \/ sel < -1 -> [found |-> found, at |-> 0]
         [] pstate[c] = "zombie" -> [found |-> SeenPid(c), at |-> i]
         [] OTHER -> Scan(list, sel, i + 1, SeenPid(c))

\* The process a thread runs for: thread->process, set by process_alloc().
Self(th) == tproc[th]

-----------------------------------------------------------------------------
(* Operations.                                                              *)

\* ++next_pid on a pid_t whose largest value is MaxPid: past it the
\* counter wraps to the most negative value.
PidInc(n) == IF n = MaxPid THEN -(MaxPid + 1) ELSE n + 1

\* Mutant: process_alloc() without the "pid overflow" panic.
ProcessAllocNoPidCheck(q, u) ==
  LET pid == PidInc(nextPid) IN
  /\ pstate[q] = "free" /\ tstate[u] = "free"
  /\ nextPid' = pid
  /\ tstate' = [tstate EXCEPT ![u] = "live"]
  /\ tpid' = [tpid EXCEPT ![u] = pid]
  /\ tproc' = [tproc EXCEPT ![u] = q]
  /\ pthread' = [pthread EXCEPT ![q] = u]
  /\ pidHash' = pidHash \cup {u}

\* process_alloc(): a process object q and a thread object u linked to
\* each other, the thread's task created, and under pid_hash.lock the pid
\* ++next_pid assigned, a negative one being a panic (the kernel stops:
\* no step), and the thread put into pid_hash.  Failures of the
\* allocations undo everything and change nothing.
ProcessAlloc(q, u) ==
  LET pid == PidInc(nextPid) IN
  /\ pstate[q] = "free" /\ tstate[u] = "free"
  /\ pid >= 0
  /\ nextPid' = pid
  /\ tstate' = [tstate EXCEPT ![u] = "live"]
  /\ tpid' = [tpid EXCEPT ![u] = pid]
  /\ tproc' = [tproc EXCEPT ![u] = q]
  /\ pthread' = [pthread EXCEPT ![q] = u]
  /\ pidHash' = pidHash \cup {u}

\* process_copy() by the thread th: process_alloc(); then vm_space_clone()
\* either fails, and only the process object is returned with
\* process_free() before -ENOMEM is returned, or the child gets th's
\* process as parent, is linked into its children under process_lock and
\* is resumed.
Fork(th, q, u, cloneOk) ==
  LET p == Self(th) IN
  /\ tstate[th] = "live" /\ tpc[th] = "user"
  /\ ProcessAlloc(q, u)
  /\ IF cloneOk
     THEN /\ pstate' = [pstate EXCEPT ![q] = "alive"]
          /\ parent' = [parent EXCEPT ![q] = p]
          /\ children' = [children EXCEPT ![p] = Append(@, q)]
          /\ pidOf' = [pidOf EXCEPT ![q] = nextPid']
          /\ tpc' = [tpc EXCEPT ![u] = "user", ![th] = "forked"]
          /\ forkChild' = [forkChild EXCEPT ![th] = q]
          /\ result' = [result EXCEPT ![th] = NoResult]
     ELSE /\ tpc' = [tpc EXCEPT ![u] = "suspended"]
          /\ result' = [result EXCEPT ![th] = NoResult]
          /\ UNCHANGED <<pstate, parent, children, pidOf, forkChild>>
  /\ UNCHANGED wsel

\* The return of process_copy(): child->thread->pid, read after the child
\* has been resumed.
ForkReturn(th) ==
  LET q == forkChild[th] IN
  /\ tstate[th] = "live" /\ tpc[th] = "forked"
  /\ result' = [result EXCEPT ![th] = [ret |-> tpid[pthread[q]], pid |-> pidOf[q]]]
  /\ tpc' = [tpc EXCEPT ![th] = "user"]
  /\ forkChild' = [forkChild EXCEPT ![th] = NoProc]
  /\ UNCHANGED <<pstate, pthread, parent, children, tstate, tpid, tproc, wsel,
                 pidHash, nextPid, pidOf>>

\* wchan_sleep(&current->wait_queue, &process_lock): the thread sleeps on
\* its process's wait channel, the lock released as it goes to sleep.
WchanSleep(pcs, th) == [pcs EXCEPT ![th] = "waiting"]

\* wchan_wakeup_all(&q->wait_queue): every thread asleep on q's wait
\* channel, the threads of q waiting in process_wait(), becomes ready.
WakeWaiters(pcs, q) ==
  [t \in ThreadObj |-> IF pcs[t] = "waiting" /\ tproc[t] = q /\ tstate[t] = "live"
                       THEN "woken" ELSE pcs[t]]

\* process_destroy(status) by the thread th, first critical section: the
\* thread leaves pid_hash under pid_hash.lock.  The address space, files
\* and cwd released next change nothing below.  init never exits: its own
\* children loop would move them onto its own list forever.
ExitUnhash(th) ==
  /\ tstate[th] = "live" /\ tpc[th] = "user" /\ Self(th) # InitProc
  /\ pidHash' = pidHash \ {th}
  /\ tpc' = [tpc EXCEPT ![th] = "unhashed"]
  /\ UNCHANGED <<pstate, pthread, parent, children, tstate, tpid, tproc,
                 forkChild, wsel, nextPid, pidOf, result>>

\* The wake-ups at the end of process_destroy(): init if a moved child is
\* a zombie, then the parent.
ExitWakeups(p) ==
  LET hasZombies == \E i \in DOMAIN children[p] : pstate[children[p][i]] = "zombie"
      afterInit == IF hasZombies THEN WakeWaiters(tpc, InitProc) ELSE tpc
  IN IF parent[p] # NoProc THEN WakeWaiters(afterInit, parent[p]) ELSE afterInit

\* Mutants of Exit: children moved without their parent field, no wake-up
\* of the parent, children given to the exiting process's parent.
ExitNoReparent(th) ==
  LET p == Self(th) IN
  /\ tstate[th] = "live" /\ tpc[th] = "unhashed"
  /\ children' = [children EXCEPT ![p] = <<>>, ![InitProc] = @ \o children[p]]
  /\ pstate' = [pstate EXCEPT ![p] = "zombie"]
  /\ tpc' = [ExitWakeups(p) EXCEPT ![th] = "exiting"]
  /\ UNCHANGED <<parent, pthread, tstate, tpid, tproc, forkChild, wsel,
                 pidHash, nextPid, pidOf, result>>

ExitNoParentWake(th) ==
  LET p == Self(th) IN
  /\ tstate[th] = "live" /\ tpc[th] = "unhashed"
  /\ children' = [children EXCEPT ![p] = <<>>, ![InitProc] = @ \o children[p]]
  /\ parent' = [c \in ProcObj |-> IF c \in ToSet(children[p]) THEN InitProc
                                  ELSE parent[c]]
  /\ pstate' = [pstate EXCEPT ![p] = "zombie"]
  /\ tpc' = [tpc EXCEPT ![th] = "exiting"]
  /\ UNCHANGED <<pthread, tstate, tpid, tproc, forkChild, wsel, pidHash,
                 nextPid, pidOf, result>>

ExitToGrandparent(th) ==
  LET p == Self(th)
      g == parent[p]
  IN
  /\ tstate[th] = "live" /\ tpc[th] = "unhashed"
  /\ children' = [children EXCEPT ![p] = <<>>, ![g] = @ \o children[p]]
  /\ parent' = [c \in ProcObj |-> IF c \in ToSet(children[p]) THEN g
                                  ELSE parent[c]]
  /\ pstate' = [pstate EXCEPT ![p] = "zombie"]
  /\ tpc' = [WakeWaiters(tpc, g) EXCEPT ![th] = "exiting"]
  /\ UNCHANGED <<pthread, tstate, tpid, tproc, forkChild, wsel, pidHash,
                 nextPid, pidOf, result>>

\* process_destroy(), second critical section, under process_lock: move
\* every child to the back of init's list, waking init if one of them is
\* a zombie, become a zombie and wake the parent.  The exit code is
\* copied to the parent unchanged and is left out.
Exit(th) ==
  LET p == Self(th) IN
  /\ tstate[th] = "live" /\ tpc[th] = "unhashed"
  /\ children' = [children EXCEPT ![p] = <<>>, ![InitProc] = @ \o children[p]]
  /\ parent' = [c \in ProcObj |-> IF c \in ToSet(children[p]) THEN InitProc
                                  ELSE parent[c]]
  /\ pstate' = [pstate EXCEPT ![p] = "zombie"]
  /\ tpc' = [ExitWakeups(p) EXCEPT ![th] = "exiting"]
  /\ UNCHANGED <<pthread, tstate, tpid, tproc, forkChild, wsel, pidHash,
                 nextPid, pidOf, result>>

\* task_destroy(): the scheduler switches away from the exited thread and
\* process_thread_destroy() frees its stack and returns it to thread_cache.
TaskDestroy(th) ==
  /\ tstate[th] = "live" /\ tpc[th] = "exiting"
  /\ tstate' = [tstate EXCEPT ![th] = "free"]
  /\ tpc' = [tpc EXCEPT ![th] = "user"]
  /\ UNCHANGED <<pstate, pthread, parent, children, tpid, tproc, forkChild,
                 wsel, pidHash, nextPid, pidOf, result>>

\* One pass of the loop of process_wait(sel, &status, nohang ? WNOHANG : 0)
\* under process_lock: reap the zombie child the scan stops at (unlink it,
\* read its exit code, process_free() it, return the pid found), return
\* -ECHILD if nothing matched, 0 under WNOHANG, or sleep on the caller's
\* wait queue and scan again when woken.
WaitPass(th, sel, nohang) ==
  LET p == Self(th)
      r == Scan(children[p], sel, 1, 0)
      c == children[p][r.at]
  IN
  /\ tstate[th] = "live"
  /\ CASE r.at # 0 ->
            /\ children' = [children EXCEPT ![p] = RemoveAt(@, r.at)]
            /\ pstate' = [pstate EXCEPT ![c] = "free"]
            /\ result' = [result EXCEPT ![th] = [ret |-> r.found, pid |-> pidOf[c]]]
            /\ tpc' = [tpc EXCEPT ![th] = "user"]
            /\ wsel' = [wsel EXCEPT ![th] = -1]
       [] r.found = 0 \/ nohang ->
            /\ result' = [result EXCEPT ![th] = NoResult]
            /\ tpc' = [tpc EXCEPT ![th] = "user"]
            /\ wsel' = [wsel EXCEPT ![th] = -1]
            /\ UNCHANGED <<children, pstate>>
       [] OTHER ->
            /\ tpc' = WchanSleep(tpc, th)
            /\ wsel' = [wsel EXCEPT ![th] = sel]
            /\ UNCHANGED <<children, pstate, result>>
  /\ UNCHANGED <<pthread, parent, tstate, tpid, tproc, forkChild, pidHash,
                 nextPid, pidOf>>

\* process_wait() called from user code.
Wait(th, sel, nohang) == tpc[th] = "user" /\ WaitPass(th, sel, nohang)

\* A woken waiter takes process_lock again and rescans (nohang is 0 here).
Rewait(th) == tpc[th] = "woken" /\ WaitPass(th, wsel[th], FALSE)

-----------------------------------------------------------------------------
\* process_init(): the init process with pid 1 and its thread, resumed.
Init ==
  /\ pstate = [p \in ProcObj |-> IF p = InitProc THEN "alive" ELSE "free"]
  /\ pthread = [p \in ProcObj |-> IF p = InitProc THEN InitThread ELSE NoThread]
  /\ parent = [p \in ProcObj |-> NoProc]
  /\ children = [p \in ProcObj |-> <<>>]
  /\ tstate = [t \in ThreadObj |-> IF t = InitThread THEN "live" ELSE "free"]
  /\ tpid = [t \in ThreadObj |-> IF t = InitThread THEN 1 ELSE 0]
  /\ tproc = [t \in ThreadObj |-> IF t = InitThread THEN InitProc ELSE NoProc]
  /\ tpc = [t \in ThreadObj |-> "user"]
  /\ forkChild = [t \in ThreadObj |-> NoProc]
  /\ wsel = [t \in ThreadObj |-> -1]
  /\ pidHash = {InitThread}
  /\ nextPid = 1
  /\ pidOf = [p \in ProcObj |-> IF p = InitProc THEN 1 ELSE 0]
  /\ result = [t \in ThreadObj |-> NoResult]

Next ==
  \E th \in ThreadObj :
    \/ \E q \in ProcObj, u \in ThreadObj, ok \in {TRUE, ~VmCloneMayFail} :
         Fork(th, q, u, ok)
    \/ ForkReturn(th)
    \/ ExitUnhash(th)
    \/ Exit(th)
    \/ TaskDestroy(th)
    \/ \E sel \in Selectors, nohang \in BOOLEAN : Wait(th, sel, nohang)
    \/ Rewait(th)

Spec == Init /\ [][Next]_vars

-----------------------------------------------------------------------------
TypeOK ==
  /\ pstate \in [ProcObj -> {"free", "alive", "zombie"}]
  /\ pthread \in [ProcObj -> ThreadObj \cup {NoThread}]
  /\ parent \in [ProcObj -> ProcObj \cup {NoProc}]
  /\ \A p \in ProcObj : children[p] \in Seq(ProcObj)
  /\ tstate \in [ThreadObj -> {"free", "live"}]
  /\ tpid \in [ThreadObj -> 0..MaxPid]
  /\ tproc \in [ThreadObj -> ProcObj \cup {NoProc}]
  /\ tpc \in [ThreadObj -> {"user", "forked", "waiting", "woken", "unhashed",
                            "exiting", "suspended"}]
  /\ forkChild \in [ThreadObj -> ProcObj \cup {NoProc}]
  /\ wsel \in [ThreadObj -> Selectors]
  /\ pidHash \subseteq ThreadObj
  /\ nextPid \in 1..MaxPid
  /\ pidOf \in [ProcObj -> 0..MaxPid]
  /\ result \in [ThreadObj -> [ret : 0..MaxPid, pid : 0..MaxPid]]

\* The parent/children links stay a tree rooted at init through fork,
\* reparenting in process_destroy() and reaping in process_wait(): a
\* process object is on a children list exactly when it is in use, is not
\* init, and its parent field names that list's owner, which is itself in
\* use; no list holds a process twice.
ChildLinks ==
  /\ \A q \in ProcObj : IsInjective(children[q])
  /\ \A p, q \in ProcObj :
       p \in ToSet(children[q]) <=> (pstate[p] # "free" /\ p # InitProc /\ parent[p] = q)
  /\ \A p \in ProcObj \ {InitProc} :
       pstate[p] # "free" => pstate[parent[p]] # "free"

\* No wake-up of process_wait() is lost: a parent asleep on its wait queue
\* never has a child that its own scan would reap.  A child exiting wakes
\* its parent, and one exiting with zombie children wakes init for them.
NoSleepWithZombie ==
  \A th \in ThreadObj :
    (tstate[th] = "live" /\ tpc[th] = "waiting")
      => Scan(children[Self(th)], wsel[th], 1, 0).at = 0

\* The process tree, seen through pids, as ProcessTree describes it: the
\* pid of each process in use, its parent's pid and whether it is a zombie.
PidOfProc(q) == IF q = NoProc THEN 0 ELSE pidOf[q]

InUse(pid) == {q \in ProcObj : pstate[q] # "free" /\ pidOf[q] = pid}

Tree == INSTANCE ProcessTree WITH
          Pid <- Pids, InitPid <- 1, NoPid <- 0,
          procs <- {pidOf[q] : q \in {r \in ProcObj : pstate[r] # "free"}},
          zombies <- {pidOf[q] : q \in {r \in ProcObj : pstate[r] = "zombie"}},
          parentOf <- [pid \in Pids |-> IF InUse(pid) = {} THEN 0
                                        ELSE PidOfProc(parent[CHOOSE q \in InUse(pid) : TRUE])]

\* Fork, exit with reparenting and reaping in process_wait() implement the
\* abstract process tree: every step of the code is a step of ProcessTree
\* or leaves the tree as it is.
TreeRefinement == Tree!Spec

\* process_copy() returns the pid of the child it created, and
\* process_wait() the pid of the child it reaped.
ReturnedPidIsChild ==
  \A th \in ThreadObj : result[th].ret = result[th].pid

=============================================================================
