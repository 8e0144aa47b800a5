------------------------------- MODULE Mailbox -------------------------------
(***************************************************************************)
(* The kernel mailbox (src/unnamed/part_003, lines 506-777): a ring buffer *)
(* of Capacity message slots with a read and a write cursor and a size,    *)
(* a list of sleeping senders and one of sleeping receivers, all guarded   *)
(* by mailbox->lock; the object comes from and returns to an object pool.  *)
(*                                                                         *)
(* Every section under mailbox->lock is one step, so the lock needs no     *)
(* variable of its own.  Sleeping is _k_sched_sleep(list, ..., timeout,    *)
(* &mailbox->lock): append the thread to the list and release the lock,   *)
(* atomically with respect to a waker (the Sched model checks that         *)
(* sched_sleep loses no wake-up); a woken thread takes the lock again      *)
(* before the loop retries.  Waking is _k_sched_wakeup_one/all, which      *)
(* removes sleepers from the head of the list: the mailbox's threads share *)
(* one priority, so the first sleeper is the one of highest priority.      *)
(* Message copies are modelled by the value copied: a slot holds a Msg.    *)
(***************************************************************************)
EXTENDS Integers, Sequences, SequencesExt, TLC

CONSTANTS
  Thread,     \* threads calling the mailbox
  Msg,        \* message values
  Capacity,   \* buf_size / msg_size
  NoMsg       \* the content of a slot never written

ASSUME Capacity \in Nat \ {0}

EAGAIN    == -11
EINVAL    == -22
ETIMEDOUT == -110

Slots == 0..(Capacity - 1)

VARIABLES
  allocated,  \* the mailbox object is taken from k_mailbox_pool
  buf,        \* buf[i]: the message in slot i
  readPtr,    \* read_ptr, as a slot index
  writePtr,   \* write_ptr, as a slot index
  size,       \* mailbox->size
  senders,    \* mailbox->senders
  receivers,  \* mailbox->receivers
  pc,         \* "idle", "sleeping" on a list, or "woken" and about to relock
  op,         \* the call a thread is in: "send", "recv", or "none"
  timed,      \* the call's timeout is nonzero
  out,        \* the message a sender passes
  sleepResult,\* the result the sleep of a thread returns
  got         \* the message a thread received last

\* The threads run the same code.
ThreadSymmetry == Permutations(Thread)

vars == <<allocated, buf, readPtr, writePtr, size, senders, receivers, pc,
          op, timed, out, sleepResult, got>>

-----------------------------------------------------------------------------
(* Helpers.                                                                 *)

\* Advance a cursor by msg_size, wrapping at buf_end.
Advance(p) == IF p + 1 >= Capacity THEN 0 ELSE p + 1

\* _k_sched_wakeup_one(list, 0) when cond holds: the head sleeper becomes
\* ready with result 0.  The record gives the list, pc and sleepResult after.
WakeOneIf(cond, list) ==
  IF cond /\ list # <<>>
  THEN [list |-> Tail(list), pc |-> [pc EXCEPT ![Head(list)] = "woken"],
        res |-> [sleepResult EXCEPT ![Head(list)] = 0]]
  ELSE [list |-> list, pc |-> pc, res |-> sleepResult]

\* Thread t returns from its call; its arguments go out of scope.
Finish(t, pcs) ==
  /\ pc' = [pcs EXCEPT ![t] = "idle"]
  /\ op' = [op EXCEPT ![t] = "none"]
  /\ timed' = [timed EXCEPT ![t] = FALSE]
  /\ out' = [out EXCEPT ![t] = NoMsg]

\* k_mailbox_try_send_locked(m) succeeding for t, and t's call returning 0:
\* copy the message to the write cursor, advance it, and wake one receiver
\* if the box was empty.
SendLocked(t, m) ==
  LET w == WakeOneIf(size = 0, receivers) IN
  /\ buf' = [buf EXCEPT ![writePtr] = m]
  /\ writePtr' = Advance(writePtr)
  /\ size' = size + 1
  /\ receivers' = w.list /\ sleepResult' = w.res
  /\ Finish(t, w.pc)
  /\ UNCHANGED <<readPtr, senders, got>>

\* Mutant of RecvLocked: the message is copied from the write cursor.
RecvLockedWrongCursor(t) ==
  LET w == WakeOneIf(size = Capacity, senders) IN
  /\ got' = [got EXCEPT ![t] = buf[writePtr]]
  /\ readPtr' = Advance(readPtr)
  /\ size' = size - 1
  /\ senders' = w.list /\ sleepResult' = w.res
  /\ Finish(t, w.pc)
  /\ UNCHANGED <<buf, writePtr, receivers>>

\* k_mailbox_try_receive_locked() succeeding for t, and t's call returning
\* 0: copy the message at the read cursor, advance it, and wake one sender
\* if the box was full.
RecvLocked(t) ==
  LET w == WakeOneIf(size = Capacity, senders) IN
  /\ got' = [got EXCEPT ![t] = buf[readPtr]]
  /\ readPtr' = Advance(readPtr)
  /\ size' = size - 1
  /\ senders' = w.list /\ sleepResult' = w.res
  /\ Finish(t, w.pc)
  /\ UNCHANGED <<buf, writePtr, receivers>>

\* t's call is left at once (-EAGAIN, or a negative sleep result).
Fail(t) ==
  /\ Finish(t, pc)
  /\ UNCHANGED <<buf, readPtr, writePtr, size, senders, receivers,
                 sleepResult, got>>

\* Mutant of Blocked: the full test is "size > capacity".
BlockedPastFull(k) == IF k = "send" THEN size > Capacity ELSE size = 0

\* The try_*_locked() of a call of kind k would return -EAGAIN.
Blocked(k) == IF k = "send" THEN size = Capacity ELSE size = 0

\* _k_sched_sleep(list, ..., timeout tm, &mailbox->lock) in t's call of
\* kind k sending m: join the list and release the lock.
Sleep(t, k, tm, m) ==
  /\ pc' = [pc EXCEPT ![t] = "sleeping"]
  /\ op' = [op EXCEPT ![t] = k]
  /\ timed' = [timed EXCEPT ![t] = tm]
  /\ out' = [out EXCEPT ![t] = m]
  /\ IF k = "send"
     THEN senders' = Append(senders, t) /\ UNCHANGED receivers
     ELSE receivers' = Append(receivers, t) /\ UNCHANGED senders
  /\ UNCHANGED <<buf, readPtr, writePtr, size, sleepResult, got>>

\* A successful try_*_locked() in t's call of kind k sending m.
Attempt(t, k, m) ==
  IF k = "send" THEN SendLocked(t, m) ELSE RecvLocked(t)

-----------------------------------------------------------------------------
(* Operations.                                                              *)

\* k_mailbox_create(): a pool object with a fresh buffer and empty cursors.
Create ==
  /\ ~allocated
  /\ allocated' = TRUE
  /\ buf' = [i \in Slots |-> NoMsg]
  /\ readPtr' = 0 /\ writePtr' = 0 /\ size' = 0
  /\ UNCHANGED <<senders, receivers, pc, op, timed, out, sleepResult, got>>

\* k_mailbox_try_send() / k_mailbox_try_receive() (kind k, message m):
\* lock, one attempt, unlock; -EAGAIN on a full (empty) box.
TryCall(t, k, m) ==
  /\ allocated /\ pc[t] = "idle"
  /\ IF Blocked(k) THEN Fail(t) ELSE Attempt(t, k, m)
  /\ UNCHANGED allocated

\* k_mailbox_timed_send() / k_mailbox_timed_receive(): lock and make the
\* first attempt of the loop; sleep on the list if it returns -EAGAIN.
TimedCall(t, k, m, tm) ==
  /\ allocated /\ pc[t] = "idle"
  /\ IF Blocked(k) THEN Sleep(t, k, tm, m) ELSE Attempt(t, k, m)
  /\ UNCHANGED allocated

\* A woken thread is back from _k_sched_sleep() holding mailbox->lock: it
\* leaves the loop on a negative sleep result, or makes the next attempt
\* and sleeps again if that returns -EAGAIN.
Retry(t) ==
  /\ pc[t] = "woken"
  /\ CASE sleepResult[t] < 0 -> Fail(t)
       [] Blocked(op[t]) -> Sleep(t, op[t], timed[t], out[t])
       [] OTHER -> Attempt(t, op[t], out[t])
  /\ UNCHANGED allocated

\* The sleep timer of a timed call expires: task_sleep_callback() takes the
\* thread off its list with -ETIMEDOUT.
Expire(t) ==
  /\ pc[t] = "sleeping" /\ timed[t]
  /\ senders' = Remove(senders, t)
  /\ receivers' = Remove(receivers, t)
  /\ sleepResult' = [sleepResult EXCEPT ![t] = ETIMEDOUT]
  /\ pc' = [pc EXCEPT ![t] = "woken"]
  /\ UNCHANGED <<allocated, buf, readPtr, writePtr, size, op, timed, out,
                 got>>

\* k_mailbox_destroy() by an idle thread: wake every receiver and sender
\* with -EINVAL, free the buffer, return the object to the pool.
Destroy(t) ==
  LET waiters == ToSet(receivers) \cup ToSet(senders) IN
  /\ allocated /\ pc[t] = "idle"
  /\ allocated' = FALSE
  /\ receivers' = <<>> /\ senders' = <<>>
  /\ pc' = [u \in Thread |-> IF u \in waiters THEN "woken" ELSE pc[u]]
  /\ sleepResult' = [u \in Thread |-> IF u \in waiters THEN EINVAL
                                       ELSE sleepResult[u]]
  /\ UNCHANGED <<buf, readPtr, writePtr, size, op, timed, out, got>>

-----------------------------------------------------------------------------
Init ==
  /\ allocated = FALSE
  /\ buf = [i \in Slots |-> NoMsg]
  /\ readPtr = 0 /\ writePtr = 0 /\ size = 0
  /\ senders = <<>> /\ receivers = <<>>
  /\ pc = [t \in Thread |-> "idle"]
  /\ op = [t \in Thread |-> "none"]
  /\ timed = [t \in Thread |-> FALSE]
  /\ out = [t \in Thread |-> NoMsg]
  /\ sleepResult = [t \in Thread |-> 0]
  /\ got = [t \in Thread |-> NoMsg]

\* A call of each kind: a receive passes no message.
Calls == ({"send"} \X Msg) \cup {<<"recv", NoMsg>>}

Next ==
  \/ Create
  \/ \E t \in Thread :
       \/ Retry(t) \/ Expire(t) \/ Destroy(t)
       \/ \E c \in Calls : TryCall(t, c[1], c[2])
       \/ \E c \in Calls, tm \in BOOLEAN : TimedCall(t, c[1], c[2], tm)

Spec == Init /\ [][Next]_vars

\* Callers that never destroy a mailbox while a thread woken from it has yet
\* to take mailbox->lock again.  Waiters still on the lists are allowed:
\* they are woken with -EINVAL.
NoWokenThread == \A u \in Thread : pc[u] # "woken"

NextCareful ==
  \/ Create
  \/ \E t \in Thread :
       \/ Retry(t) \/ Expire(t)
       \/ NoWokenThread /\ Destroy(t)
       \/ \E c \in Calls : TryCall(t, c[1], c[2])
       \/ \E c \in Calls, tm \in BOOLEAN : TimedCall(t, c[1], c[2], tm)

CarefulSpec == Init /\ [][NextCareful]_vars

-----------------------------------------------------------------------------
(* Properties.                                                              *)

TypeOK ==
  /\ allocated \in BOOLEAN
  /\ buf \in [Slots -> Msg \cup {NoMsg}]
  /\ readPtr \in Slots /\ writePtr \in Slots
  /\ size \in 0..Capacity
  /\ senders \in Seq(Thread) /\ receivers \in Seq(Thread)
  /\ pc \in [Thread -> {"idle", "sleeping", "woken"}]
  /\ op \in [Thread -> {"send", "recv", "none"}]
  /\ timed \in [Thread -> BOOLEAN]
  /\ out \in [Thread -> Msg \cup {NoMsg}]
  /\ sleepResult \in [Thread -> {0, EINVAL, ETIMEDOUT}]
  /\ got \in [Thread -> Msg \cup {NoMsg}]

\* The messages in the ring, oldest first: size slots from the read cursor;
\* a mailbox back in the pool holds none.
Contents == IF allocated THEN [i \in 1..size |-> buf[(readPtr + i - 1) % Capacity]]
            ELSE <<>>

Fifo == INSTANCE MailboxFifo WITH queue <- Contents, alive <- allocated

\* The ring buffer with its two cursors, size and wake-ups implements the
\* bounded FIFO: every step of the mailbox is a step of the FIFO or leaves
\* its queue, its receivers' messages and its existence unchanged.
FifoRefinement == Fifo!Spec

\* Spec section 4.4: "on a full send or empty receive the caller sleeps";
\* a sender sleeps on a full box and a receiver on an empty one.  Waking
\* one sender only when a receive leaves a full box, and one receiver only
\* when a send fills an empty one, must keep it so: a sleeper may find the
\* box changed only while a thread of its kind is woken and about to retry.
NoStrandedWaiter ==
  LET Pending(kind) == \E u \in Thread :
                         pc[u] = "woken" /\ op[u] = kind /\ sleepResult[u] = 0
  IN
  /\ senders # <<>> => size = Capacity \/ Pending("send")
  /\ receivers # <<>> => size = 0 \/ Pending("recv")

\* The object pool contract (spec section 3): an object put back in the
\* pool is not used.  A thread woken from a mailbox's list still takes and
\* releases mailbox->lock and may read the ring after k_mailbox_destroy()
\* returned the mailbox to k_mailbox_pool.
NoUseAfterDestroy == \A t \in Thread : pc[t] = "woken" => allocated

=============================================================================
