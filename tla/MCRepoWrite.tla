---------------------------- MODULE MCRepoWrite ----------------------------
(* Small instances of RepoWrite: a first write, then rivals for generation 1. *)
EXTENDS RepoWrite, TLC

CONSTANTS r1, r2, r3, a, b, c

Everywhere   == [o \in Op |-> Replica]
ThreeCopies  == [o \in Op |-> 3]
ZeroThenOne  == [o \in Op |-> IF o = a THEN 0 ELSE 1]
NoneThenZero == [o \in Op |-> IF o = a THEN -1 ELSE 0]
OneThenQuorum == [o \in Op |-> IF o = a THEN "ONE" ELSE "QUORUM"]

\* r3 alone accepts copies made by repair; b and c ask for the same.
Symmetry == Permutations({r1, r2}) \cup Permutations({b, c})
=============================================================================
