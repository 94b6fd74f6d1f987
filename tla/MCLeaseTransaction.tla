------------------------- MODULE MCLeaseTransaction -------------------------
(* Small instances of LeaseTransaction: one or two users and two providers. *)
EXTENDS LeaseTransaction

CONSTANTS u1, u2, q1, q2, pa, pb

OwnerOf == [q \in Requests |-> IF q = q1 THEN u1 ELSE u2]

\* The users name the providers in opposite orders.
Crossed == [q \in Requests |-> IF q = q1 THEN <<pa, pb>> ELSE <<pb, pa>>]
=============================================================================
