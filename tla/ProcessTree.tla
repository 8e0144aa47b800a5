----------------------------- MODULE ProcessTree -----------------------------
(***************************************************************************)
(* What the process layer promises (spec sections 3 and 4.6), over pids    *)
(* only: a running process forks a child with a pid no process has, a     *)
(* process other than init exits and becomes a zombie, its children going  *)
(* to init, and a running process reaps one of its zombie children, whose  *)
(* pid then leaves the system.  Nothing else changes the tree.             *)
(***************************************************************************)
EXTENDS Naturals, FiniteSets

CONSTANTS
  Pid,        \* the pids that can be handed out
  InitPid,    \* the pid of init
  NoPid       \* no parent

VARIABLES
  procs,      \* the pids of the processes that exist, zombies included
  zombies,    \* the pids of the zombies
  parentOf    \* parentOf[p]: the parent pid of p, NoPid if none

treeVars == <<procs, zombies, parentOf>>

Running == procs \ zombies

Init ==
  /\ procs = {InitPid}
  /\ zombies = {}
  /\ parentOf = [p \in Pid |-> NoPid]

\* p forks: the child c gets a pid that no process has.
Fork(p, c) ==
  /\ p \in Running /\ c \in Pid \ procs
  /\ procs' = procs \cup {c}
  /\ parentOf' = [parentOf EXCEPT ![c] = p]
  /\ UNCHANGED zombies

\* p exits: it becomes a zombie and every child of it a child of init.
Exit(p) ==
  /\ p \in Running /\ p # InitPid
  /\ zombies' = zombies \cup {p}
  /\ parentOf' = [c \in Pid |-> IF c \in procs /\ parentOf[c] = p THEN InitPid
                                ELSE parentOf[c]]
  /\ UNCHANGED procs

\* p reaps its zombie child c.
Reap(p, c) ==
  /\ p \in Running /\ c \in zombies /\ parentOf[c] = p
  /\ procs' = procs \ {c}
  /\ zombies' = zombies \ {c}
  /\ parentOf' = [parentOf EXCEPT ![c] = NoPid]

Next ==
  \/ \E p, c \in Pid : Fork(p, c) \/ Reap(p, c)
  \/ \E p \in Pid : Exit(p)

Spec == Init /\ [][Next]_treeVars

=============================================================================
