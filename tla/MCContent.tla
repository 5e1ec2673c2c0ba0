------------------------------ MODULE MCContent ------------------------------
(* Instances of ContentActions for TLC.                                     *)
EXTENDS ContentActions, TLC

CONSTANTS ann, bob, r1, r2, j1, j2

\* All properties are invariants that name no user, no request and no task.
Symmetry == Permutations(User) \cup Permutations(Request) \cup Permutations(Task)
=============================================================================
