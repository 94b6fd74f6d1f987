-------------------------- MODULE MCExecutionLease --------------------------
(* Small instances of ExecutionLease for TLC. *)
EXTENDS ExecutionLease, TLC

CONSTANTS u1, u2, q1, q2, q3, p1, p2, k1, k2, i1, i2, s1

\* Two requesters; the first one has two requests.
OwnerOf == [q \in Requests |-> IF q = q2 THEN u2 ELSE u1]

\* The resolver issues one key or both; an empty key is refused.
AnyKeys == {{k1}, {k1, k2}, {k2, NoKey}}
OneKey  == {{k1}}

\* Few idempotency keys, reused for different leases and arguments.
ReusedKeys(op, subject) == IF op = "PREPARE" THEN {i1, i2, NoIdem} ELSE {i1}

\* Only reservations that arrive, wait and time out: the waiter queues.
QueueKeys(op, subject) == IF op = "PREPARE" THEN {i1, i2} ELSE {}
=============================================================================
