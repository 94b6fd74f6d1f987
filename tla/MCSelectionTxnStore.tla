------------------------ MODULE MCSelectionTxnStore ------------------------
(***************************************************************************)
(* Small instances of SelectionTxnStore for TLC.                           *)
(***************************************************************************)
EXTENDS SelectionTxnStore, TLC

CONSTANTS t1, t2, k1, k2, s1, s2, p1, p2, l1

Context(t, k, s, p, l) == [txn |-> t, token |-> k, sel |-> s, payload |-> p, lease |-> l]

\* An exact retry and a conflicting payload of t1; t2 competes for its token.
TokenContexts ==
  {Context(t1, k1, s1, p1, NoLease), Context(t1, k1, s1, p2, NoLease),
   Context(t2, k1, s2, p1, NoLease)}

\* Two transactions with tokens of their own compete for one lease.
LeaseContexts == {Context(t1, k1, s1, p1, l1), Context(t2, k2, s2, p1, l1)}
=============================================================================
