------------------------------- MODULE IrqThread -------------------------------
(***************************************************************************)
(* Interrupt dispatch (src/kernel/interrupt.c).  Lines are attached either *)
(* directly, with the handler run by interrupt_dispatch() in hard-IRQ      *)
(* context, or to an interrupt thread: the hard-IRQ stub                   *)
(* interrupt_thread_notify() ups the thread's semaphore and leaves the     *)
(* line masked, and interrupt_thread_entry() downs the semaphore, runs the *)
(* handler and unmasks the line.  A device holds its line raised (level    *)
(* triggered) until its handler services it.                               *)
(*                                                                         *)
(* interrupt_dispatch() runs with interrupts off on the CPU the line is    *)
(* routed to and is one step.  The semaphore (k_semaphore_put/get) is not  *)
(* under src/ and follows spec section 4.4: put increments and wakes one   *)
(* sleeper if the count was zero; get decrements if positive and sleeps    *)
(* otherwise (no timeout here).                                            *)
(***************************************************************************)
EXTENDS Naturals

CONSTANTS
  Line,       \* interrupt lines that get a handler
  Threaded,   \* the lines attached with interrupt_attach_thread()
  MaxCount    \* bound on a semaphore count, far above what is reached

ASSUME Threaded \subseteq Line

VARIABLES
  attached,   \* interrupt_handlers[irq].handler is set, line enabled
  raised,     \* the device asserts the line
  masked,     \* the line is masked at the interrupt controller
  count,      \* the count of the line's semaphore (threaded lines)
  tpc         \* the interrupt thread: "none" (not yet resumed), "get",
              \* "sleep" (on the semaphore), "handle"

vars == <<attached, raised, masked, count, tpc>>

-----------------------------------------------------------------------------
\* interrupt_attach(): set the handler, route the line to this CPU and
\* unmask it.  For interrupt_attach_thread() the thread has been created
\* suspended and its semaphore set to 0; it is resumed after the attach.
Attach(i) ==
  /\ ~attached[i]
  /\ attached' = [attached EXCEPT ![i] = TRUE]
  /\ masked' = [masked EXCEPT ![i] = FALSE]
  /\ UNCHANGED <<raised, count, tpc>>

\* k_thread_resume() at the end of interrupt_attach_thread().
ResumeThread(i) ==
  /\ i \in Threaded /\ attached[i] /\ tpc[i] = "none"
  /\ tpc' = [tpc EXCEPT ![i] = "get"]
  /\ UNCHANGED <<attached, raised, masked, count>>

\* The device raises its line for a new event.
Raise(i) ==
  /\ ~raised[i]
  /\ raised' = [raised EXCEPT ![i] = TRUE]
  /\ UNCHANGED <<attached, masked, count, tpc>>

\* k_semaphore_put() from interrupt_thread_notify(): count + 1, and a
\* sleeper is woken to retry its get.
SemPut(i) ==
  /\ count' = [count EXCEPT ![i] = @ + 1]
  /\ tpc' = [tpc EXCEPT ![i] = IF @ = "sleep" THEN "get" ELSE @]

\* Mutant: the hard-IRQ stub asks for the line to be unmasked.
DispatchUnmaskEarly(i) ==
  /\ attached[i] /\ raised[i] /\ ~masked[i]
  /\ IF i \in Threaded
     THEN /\ SemPut(i) /\ count[i] < MaxCount
          /\ UNCHANGED <<masked, raised>>
     ELSE /\ raised' = [raised EXCEPT ![i] = FALSE]
          /\ UNCHANGED <<masked, count, tpc>>
  /\ UNCHANGED attached

\* interrupt_dispatch() for a raised, unmasked, attached line: mask it and
\* EOI, then call the handler.  interrupt_thread_notify() ups the semaphore
\* and returns 0, leaving the line masked; a direct handler services the
\* device and returns 1, and the line is unmasked again.
Dispatch(i) ==
  /\ attached[i] /\ raised[i] /\ ~masked[i]
  /\ IF i \in Threaded
     THEN /\ SemPut(i) /\ count[i] < MaxCount
          /\ masked' = [masked EXCEPT ![i] = TRUE]
          /\ UNCHANGED raised
     ELSE /\ raised' = [raised EXCEPT ![i] = FALSE]
          /\ UNCHANGED <<masked, count, tpc>>
  /\ UNCHANGED attached

\* Mutant: a get that takes the count without testing it.
SemGetNoCheck(i) ==
  /\ tpc[i] = "get"
  /\ count' = [count EXCEPT ![i] = @ - 1]
  /\ tpc' = [tpc EXCEPT ![i] = "handle"]
  /\ UNCHANGED <<attached, raised, masked>>

\* k_semaphore_get() at the top of the loop of interrupt_thread_entry().
SemGet(i) ==
  /\ tpc[i] = "get"
  /\ IF count[i] > 0
     THEN /\ count' = [count EXCEPT ![i] = @ - 1]
          /\ tpc' = [tpc EXCEPT ![i] = "handle"]
     ELSE /\ tpc' = [tpc EXCEPT ![i] = "sleep"]
          /\ UNCHANGED count
  /\ UNCHANGED <<attached, raised, masked>>

\* Mutant: the thread runs the handler and never unmasks.
HandleNoUnmask(i) ==
  /\ tpc[i] = "handle"
  /\ raised' = [raised EXCEPT ![i] = FALSE]
  /\ tpc' = [tpc EXCEPT ![i] = "get"]
  /\ UNCHANGED <<attached, masked, count>>

\* The rest of the loop: the handler services the device and asks for the
\* line to be unmasked, and the thread unmasks it.
Handle(i) ==
  /\ tpc[i] = "handle"
  /\ raised' = [raised EXCEPT ![i] = FALSE]
  /\ masked' = [masked EXCEPT ![i] = FALSE]
  /\ tpc' = [tpc EXCEPT ![i] = "get"]
  /\ UNCHANGED <<attached, count>>

-----------------------------------------------------------------------------
\* Before attach no handler is set and the line is disabled (masked).
Init ==
  /\ attached = [i \in Line |-> FALSE]
  /\ raised = [i \in Line |-> FALSE]
  /\ masked = [i \in Line |-> TRUE]
  /\ count = [i \in Line |-> 0]
  /\ tpc = [i \in Line |-> "none"]

Next ==
  \E i \in Line :
    \/ Attach(i) \/ ResumeThread(i) \/ Raise(i) \/ Dispatch(i)
    \/ SemGet(i) \/ Handle(i)

Spec == Init /\ [][Next]_vars

\* The CPU takes a deliverable interrupt, and the interrupt thread runs,
\* whenever they stay enabled; the device's own events are not forced.
Fairness ==
  \A i \in Line :
    /\ WF_vars(Dispatch(i)) /\ WF_vars(ResumeThread(i))
    /\ WF_vars(SemGet(i)) /\ WF_vars(Handle(i))

FairSpec == Spec /\ Fairness

-----------------------------------------------------------------------------
TypeOK ==
  /\ attached \in [Line -> BOOLEAN]
  /\ raised \in [Line -> BOOLEAN]
  /\ masked \in [Line -> BOOLEAN]
  /\ count \in [Line -> 0..MaxCount]
  /\ tpc \in [Line -> {"none", "get", "sleep", "handle"}]

\* The threaded hand-off passes one token: from the notify that masks an
\* attached threaded line until the thread unmasks it, exactly one of the
\* semaphore count and the thread's handling stands for that interrupt, and
\* none while the line is unmasked.  So the count never exceeds 1 and no
\* interrupt is signalled twice or dropped.
OneTokenPerMask ==
  \A i \in Threaded :
    attached[i] =>
      (count[i] + (IF tpc[i] = "handle" THEN 1 ELSE 0))
        = (IF masked[i] THEN 1 ELSE 0)

\* Every event a device raises on an attached line is eventually serviced.
RaisedServiced ==
  \A i \in Line : (attached[i] /\ raised[i]) ~> ~raised[i]

=============================================================================
