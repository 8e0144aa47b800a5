----------------------------- MODULE MailboxFifo -----------------------------
(***************************************************************************)
(* What a kernel mailbox promises (spec section 4.4): a bounded FIFO of    *)
(* messages.  A send appends when there is room, a receive hands the       *)
(* oldest message to the receiving thread, and destroying the mailbox      *)
(* drops whatever it still holds.  Nothing else changes the queue.         *)
(***************************************************************************)
EXTENDS Sequences, Naturals

CONSTANTS
  Thread,     \* the threads using the mailbox
  Msg,        \* message values
  Capacity,   \* the number of message slots
  NoMsg       \* no message received yet

VARIABLES
  queue,      \* the messages sent and not yet received, oldest first
  got,        \* got[t]: the message thread t received last
  alive       \* the mailbox exists

Init ==
  /\ queue = <<>>
  /\ got = [t \in Thread |-> NoMsg]
  /\ alive = FALSE

Create ==
  /\ ~alive
  /\ alive' = TRUE
  /\ queue' = <<>>
  /\ UNCHANGED got

Put(m) ==
  /\ alive /\ Len(queue) < Capacity
  /\ queue' = Append(queue, m)
  /\ UNCHANGED <<got, alive>>

Get(t) ==
  /\ alive /\ queue # <<>>
  /\ got' = [got EXCEPT ![t] = Head(queue)]
  /\ queue' = Tail(queue)
  /\ UNCHANGED alive

Destroy ==
  /\ alive
  /\ alive' = FALSE
  /\ queue' = <<>>
  /\ UNCHANGED got

Next ==
  \/ Create \/ Destroy
  \/ \E m \in Msg : Put(m)
  \/ \E t \in Thread : Get(t)

Spec == Init /\ [][Next]_<<queue, got, alive>>

=============================================================================
