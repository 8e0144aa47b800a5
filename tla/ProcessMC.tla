----------------------------- MODULE ProcessMC -----------------------------
(***************************************************************************)
(* Process with four process objects and four thread objects: init, a    *)
(* child, a grandchild and a great-grandchild run at once, and a freed     *)
(* thread object is reused by a later fork while a zombie points at it.    *)
(***************************************************************************)
EXTENDS Process

CONSTANTS p1, p2, p3, u1, u2, u3

\* The objects other than init's are interchangeable in the caches.
ObjSymmetry == Permutations({p1, p2, p3}) \cup Permutations({u1, u2, u3})

=============================================================================
