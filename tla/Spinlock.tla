------------------------------- MODULE Spinlock -------------------------------
(***************************************************************************)
(* spin_lock() and spin_unlock() (src/kernel/nano/spinlock.c) used by CPUs *)
(* that each run a critical section incrementing a shared counter x.       *)
(*                                                                         *)
(* Memory: the lock word "locked", the debug owner field "cpu" and x.  The *)
(* code has no dmb: the asm "memory" clobbers order the compiler only.     *)
(* With Weak, as on an ARMv7 SMP core, every plain store of a CPU waits in *)
(* a per-CPU buffer and reaches memory later, stores to different          *)
(* addresses in any order and stores to one address in program order; a   *)
(* CPU reads its own buffered stores.  ldrex/strex act on memory with an   *)
(* exclusive monitor that another CPU's store to the word clears.  Without *)
(* Weak every store reaches memory at once.  irq_save()/irq_restore() are  *)
(* not under src/; they mask interrupts on the CPU only and are left out.  *)
(***************************************************************************)
EXTENDS Naturals, FiniteSets, TLC

CONSTANTS
  CPU,
  Weak,       \* stores may become visible out of order
  MaxRounds,  \* bound on the critical sections run in total
  NoCpu, None

Addr == {"locked", "cpu", "x"}

VARIABLES
  mem,        \* memory
  buf,        \* buf[c][a]: the store of c to a not yet in memory, or None
  monitor,    \* the exclusive monitor of c is armed for "locked"
  pc,         \* where each CPU is
  r,          \* the value of x the CPU read in its critical section
  done        \* critical sections completed (history)

vars == <<mem, buf, monitor, pc, r, done>>

\* What c reads at a: its own pending store, else memory.
Read(c, a) == IF buf[c][a] # None THEN buf[c][a] ELSE mem[a]

\* A plain store by c: buffered under Weak, else straight to memory.  A
\* store to the lock word disarms the other CPUs' monitors when it lands.
Store(c, a, v) ==
  IF Weak
  THEN /\ buf' = [buf EXCEPT ![c][a] = v]
       /\ UNCHANGED <<mem, monitor>>
  ELSE /\ mem' = [mem EXCEPT ![a] = v]
       /\ monitor' = IF a = "locked" THEN [d \in CPU |-> monitor[d] /\ d = c]
                     ELSE monitor
       /\ UNCHANGED buf

\* spin_holding(): lock->locked && lock->cpu == my_cpu().
Holding(c) == Read(c, "locked") = 1 /\ Read(c, "cpu") = c

Goto(c, l) == pc' = [pc EXCEPT ![c] = l]

\* Critical sections begun and not yet completed.
Active == Cardinality({c \in CPU : pc[c] \notin {"idle", "panic"}})

-----------------------------------------------------------------------------
\* spin_lock(): the recursion check, then the ldrex/strex loop.
LockCheck(c) ==
  /\ pc[c] = "idle" /\ done + Active < MaxRounds
  /\ Goto(c, IF Holding(c) THEN "panic" ELSE "ldrex")
  /\ UNCHANGED <<mem, buf, monitor, r, done>>

\* Mutant: the lock word is not compared with 0 after ldrex.
LdrexNoCheck(c) ==
  /\ pc[c] = "ldrex"
  /\ monitor' = [monitor EXCEPT ![c] = TRUE]
  /\ Goto(c, "strex")
  /\ UNCHANGED <<mem, buf, r, done>>

\* ldrex; cmp; bne 1b: spin until the word reads 0, arming the monitor.
Ldrex(c) ==
  /\ pc[c] = "ldrex"
  /\ Read(c, "locked") = 0
  /\ monitor' = [monitor EXCEPT ![c] = TRUE]
  /\ Goto(c, "strex")
  /\ UNCHANGED <<mem, buf, r, done>>

\* strex; cmp; bne 1b: the store of 1 succeeds only while the monitor is
\* armed (it also waits for c's own earlier store to the word to land).
Strex(c) ==
  /\ pc[c] = "strex" /\ buf[c]["locked"] = None
  /\ IF monitor[c]
     THEN /\ mem' = [mem EXCEPT !["locked"] = 1]
          /\ Goto(c, "setcpu")
     ELSE /\ Goto(c, "ldrex")
          /\ UNCHANGED mem
  /\ monitor' = [d \in CPU |-> FALSE]
  /\ UNCHANGED <<buf, r, done>>

\* lock->cpu = my_cpu().
SetCpu(c) ==
  /\ pc[c] = "setcpu"
  /\ Store(c, "cpu", c)
  /\ Goto(c, "read")
  /\ UNCHANGED <<r, done>>

\* The caller's critical section: x = x + 1, a load and a store.
CsRead(c) ==
  /\ pc[c] = "read"
  /\ r' = [r EXCEPT ![c] = Read(c, "x")]
  /\ Goto(c, "write")
  /\ UNCHANGED <<mem, buf, monitor, done>>

CsWrite(c) ==
  /\ pc[c] = "write"
  /\ Store(c, "x", r[c] + 1)
  /\ Goto(c, "unlock")
  /\ UNCHANGED <<r, done>>

\* spin_unlock(): panic unless holding, then lock->cpu = NULL.
UnlockCpu(c) ==
  /\ pc[c] = "unlock"
  /\ IF Holding(c)
     THEN Store(c, "cpu", NoCpu) /\ Goto(c, "release")
     ELSE Goto(c, "panic") /\ UNCHANGED <<mem, buf, monitor>>
  /\ UNCHANGED <<r, done>>

\* str 0 to the lock word; the critical section is over.
UnlockRelease(c) ==
  /\ pc[c] = "release"
  /\ Store(c, "locked", 0)
  /\ Goto(c, "idle")
  /\ done' = done + 1
  /\ UNCHANGED r

\* A buffered store of c to a reaches memory.
Commit(c, a) ==
  /\ buf[c][a] # None
  /\ mem' = [mem EXCEPT ![a] = buf[c][a]]
  /\ buf' = [buf EXCEPT ![c][a] = None]
  /\ monitor' = IF a = "locked" THEN [d \in CPU |-> monitor[d] /\ d = c]
                ELSE monitor
  /\ UNCHANGED <<pc, r, done>>

-----------------------------------------------------------------------------
\* spin_init(): locked = 0, cpu = NULL; x starts at 0.
Init ==
  /\ mem = [a \in Addr |-> IF a = "cpu" THEN NoCpu ELSE 0]
  /\ buf = [c \in CPU |-> [a \in Addr |-> None]]
  /\ monitor = [c \in CPU |-> FALSE]
  /\ pc = [c \in CPU |-> "idle"]
  /\ r = [c \in CPU |-> 0]
  /\ done = 0

Next ==
  \/ \E c \in CPU :
       \/ LockCheck(c) \/ Ldrex(c) \/ Strex(c) \/ SetCpu(c)
       \/ CsRead(c) \/ CsWrite(c) \/ UnlockCpu(c) \/ UnlockRelease(c)
       \/ \E a \in Addr : Commit(c, a)
  \/ /\ \/ done = MaxRounds /\ \A c \in CPU : pc[c] = "idle"
        \/ \E c \in CPU : pc[c] = "panic"   \* panic() halts the machine
     /\ UNCHANGED vars

Spec == Init /\ [][Next]_vars

\* The CPUs run the same code.
CpuSymmetry == Permutations(CPU)

-----------------------------------------------------------------------------
InCs(c) == pc[c] \in {"setcpu", "read", "write", "unlock", "release"}

\* The lock excludes: at most one CPU is between a successful strex and the
\* store that releases the word.
MutualExclusion == \A c, d \in CPU : InCs(c) /\ InCs(d) => c = d

\* The critical section sees the work of every earlier one: the x a CPU
\* read equals the number of critical sections completed before it.
NoLostUpdate == \A c \in CPU : pc[c] = "write" => r[c] = done

\* Neither spin_lock() nor spin_unlock() panics in a correct caller: the
\* owner field always names the holder when it checks.
NoSpuriousPanic == \A c \in CPU : pc[c] # "panic"

\* What a caller of spin_lock() relies on: the critical section sees every
\* earlier holder's writes, and the holder checks never fire.
LockContract == NoLostUpdate /\ NoSpuriousPanic

=============================================================================
