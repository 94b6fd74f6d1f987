------------------------ MODULE ExecutionLeaseProofs ------------------------
(***************************************************************************)
(* Safety of the execution-lease table for every number of requests,       *)
(* conflict keys, idempotency keys, leases and restarts.                   *)
(***************************************************************************)
EXTENDS ExecutionLease, TLAPS

\* Cleanup may turn a lease that holds capacity into an expired one, no more.
Cleaned(t, u) ==
  /\ u = [t EXCEPT !.leases = u.leases]
  /\ DOMAIN u.leases = DOMAIN t.leases
  /\ \A i \in DOMAIN t.leases :
       \/ u.leases[i] = t.leases[i]
       \/ /\ isActive(t.leases[i].state)
          /\ u.leases[i] = [t.leases[i] EXCEPT !.state = "Expired"]

LEMMA CleanupCleans ==
  ASSUME NEW t, NEW r \in Nat, TableTypeOK(t)
  PROVE  /\ Cleaned(t, cleanupExpiredLocked(t, r))
         /\ TableTypeOK(cleanupExpiredLocked(t, r))
<1> DEFINE u == cleanupExpiredLocked(t, r)
<1>1. u.leases = [i \in DOMAIN t.leases |-> expireIfNeeded(t.leases[i], r)]
  BY DEF cleanupExpiredLocked, TableTypeOK
<1>2. Cleaned(t, u)
  BY <1>1 DEF Cleaned, cleanupExpiredLocked, expireIfNeeded, TimedOut, TableTypeOK
<1>3. /\ u.epoch = t.epoch /\ u.next = t.next /\ u.replays = t.replays
      /\ u.waiters = t.waiters /\ u.waiterExp = t.waiterExp
      /\ u = [epoch |-> u.epoch, next |-> u.next, leases |-> u.leases, replays |-> u.replays,
              waiters |-> u.waiters, waiterExp |-> u.waiterExp]
  BY DEF cleanupExpiredLocked, TableTypeOK
<1>4. \A i \in DOMAIN u.leases : u.leases[i] \in Leases
  BY <1>1 DEF expireIfNeeded, TableTypeOK, LeasesTypeOK, Leases, LeaseStates
<1>5. TableTypeOK(u)
  BY <1>1, <1>3, <1>4 DEF TableTypeOK, LeasesTypeOK, ReplaysTypeOK, QueuesTypeOK
<1> QED BY <1>2, <1>5

\* A lease that advances holds capacity only if it did before, with the same keys.
LEMMA AdvanceKeepsExclusive ==
  ASSUME NEW t, NEW u, DOMAIN u.leases = DOMAIN t.leases, Advances(t, u), Exclusive(t)
  PROVE  Exclusive(u)
<1>1. \A i \in DOMAIN t.leases :
        /\ u.leases[i].keys = t.leases[i].keys
        /\ isActive(u.leases[i].state) => isActive(t.leases[i].state)
  BY DEF Advances, LeaseAdvances, Successors, isActive
<1> QED BY <1>1 DEF Exclusive

LEMMA CleanedAdvances ==
  ASSUME NEW t, NEW u, TableTypeOK(t), Cleaned(t, u)
  PROVE  Advances(t, u)
<1> SUFFICES ASSUME NEW i \in DOMAIN t.leases
             PROVE  i \in DOMAIN u.leases /\ LeaseAdvances(t.leases[i], u.leases[i])
  BY DEF Advances
<1>1. t.leases[i] \in Leases
  BY DEF TableTypeOK, LeasesTypeOK
<1>2. CASE u.leases[i] = t.leases[i]
  BY <1>1, <1>2 DEF Cleaned, LeaseAdvances, Successors, Leases, LeaseStates
<1>3. CASE isActive(t.leases[i].state) /\ u.leases[i] = [t.leases[i] EXCEPT !.state = "Expired"]
  <2>1. /\ u.leases[i].state = "Expired" /\ u.leases[i].req = t.leases[i].req
        /\ u.leases[i].plan = t.leases[i].plan /\ u.leases[i].keys = t.leases[i].keys
    BY <1>1, <1>3 DEF Leases
  <2> QED BY <1>3, <2>1 DEF Cleaned, LeaseAdvances, Successors, isActive
<1> QED BY <1>2, <1>3 DEF Cleaned

\* A cleaned lease that advances further has advanced from where it was.
LEMMA CleanedThenAdvances ==
  ASSUME NEW t, NEW c, NEW u, TableTypeOK(t), Cleaned(t, c), Advances(c, u)
  PROVE  Advances(t, u)
<1> SUFFICES ASSUME NEW i \in DOMAIN t.leases
             PROVE  i \in DOMAIN u.leases /\ LeaseAdvances(t.leases[i], u.leases[i])
  BY DEF Advances
<1>1. t.leases[i] \in Leases
  BY DEF TableTypeOK, LeasesTypeOK
<1>2. i \in DOMAIN u.leases /\ LeaseAdvances(c.leases[i], u.leases[i])
  BY DEF Cleaned, Advances
<1>3. CASE c.leases[i] = t.leases[i]
  BY <1>2, <1>3
<1>4. CASE isActive(t.leases[i].state) /\ c.leases[i] = [t.leases[i] EXCEPT !.state = "Expired"]
  <2>1. /\ c.leases[i].state = "Expired" /\ c.leases[i].req = t.leases[i].req
        /\ c.leases[i].plan = t.leases[i].plan /\ c.leases[i].keys = t.leases[i].keys
    BY <1>1, <1>4 DEF Leases
  <2>2. u.leases[i].state = "Expired"
    BY <1>2, <2>1 DEF LeaseAdvances, Successors
  <2>3. "Expired" \in Successors(t.leases[i].state)
    BY <1>4 DEF Successors, isActive
  <2> QED BY <1>2, <2>1, <2>2, <2>3 DEF LeaseAdvances
<1> QED BY <1>3, <1>4 DEF Cleaned

-----------------------------------------------------------------------------
(* What every operation that names a lease guarantees. *)

Kept(t, u) ==
  /\ TableTypeOK(u)
  /\ u.epoch = t.epoch
  /\ DOMAIN u.leases = DOMAIN t.leases
  /\ Advances(t, u)
  /\ u.waiters = t.waiters

LEMMA SameAdvances ==
  ASSUME NEW t, TableTypeOK(t)
  PROVE  Kept(t, t)
BY DEF Kept, Advances, LeaseAdvances, Successors, TableTypeOK, LeasesTypeOK, Leases, LeaseStates

LEMMA OnLeaseKeeps ==
  ASSUME NEW t, TableTypeOK(t), NEW op, NEW idem, NEW fp, NEW epoch, NEW id, NEW why,
         NEW updated, NEW replay,
         id \in DOMAIN t.leases /\ why = "OK"
           => updated \in Leases /\ LeaseAdvances(t.leases[id], updated)
  PROVE  Kept(t, OnLease(t, op, idem, fp, epoch, id, why, updated, replay).table)
<1> DEFINE o == OnLease(t, op, idem, fp, epoch, id, why, updated, replay)
           m == [t EXCEPT !.leases[id] = updated]
           n == rememberReplay(m, op, idem, fp, id, updated)
<1>1. CASE o.table = t
  BY <1>1, SameAdvances
<1>2. CASE o.table # t
  <2> DEFINE verdict == replayOrConflict(t, op, idem, fp)
  <2>0. /\ \A reason : reject(t, reason).table = t
        /\ \A x, l, b : success(t, x, l, b).table = t
        /\ replayed(t, op, idem).table = t
        /\ success(n, id, updated, replay).table = n
    BY DEF reject, success, replayed
  <2>1. id \in DOMAIN t.leases /\ why = "OK" /\ o.table = n
    <3> HIDE DEF n
    <3>1. verdict # "OK"
      BY <1>2, <2>0 DEF OnLease
    <3>2. verdict = "FRESH"
      BY <1>2, <2>0, <3>1 DEF OnLease
    <3>3. epoch = t.epoch /\ id \in DOMAIN t.leases /\ why = "OK"
      BY <1>2, <2>0, <3>2 DEF OnLease
    <3>4. o = success(n, id, updated, replay)
      BY <3>2, <3>3 DEF OnLease, n
    <3> QED BY <2>0, <3>3, <3>4
  <2>2. /\ n.leases = [t.leases EXCEPT ![id] = updated]
        /\ n.epoch = t.epoch /\ n.next = t.next
        /\ n.waiters = t.waiters /\ n.waiterExp = t.waiterExp
        /\ n = [epoch |-> n.epoch, next |-> n.next, leases |-> n.leases, replays |-> n.replays,
                waiters |-> n.waiters, waiterExp |-> n.waiterExp]
    <3>1. /\ m.leases = [t.leases EXCEPT ![id] = updated]
          /\ m = [epoch |-> t.epoch, next |-> t.next, leases |-> m.leases, replays |-> t.replays,
                  waiters |-> t.waiters, waiterExp |-> t.waiterExp]
      BY DEF TableTypeOK
    <3> HIDE DEF m
    <3> QED BY <3>1 DEF rememberReplay
  <2>3. n.replays = Assign(t.replays, <<op, idem>>,
                           [fingerprint |-> fp, id |-> id, lease |-> updated])
    BY DEF rememberReplay, TableTypeOK
  <2>4. LeasesTypeOK(n) /\ DOMAIN n.leases = DOMAIN t.leases
    BY <2>1, <2>2 DEF LeasesTypeOK, TableTypeOK
  <2>5. ReplaysTypeOK(n)
    BY <2>1, <2>3, <2>4 DEF ReplaysTypeOK, TableTypeOK, Assign
  <2>6. TableTypeOK(n)
    BY <2>2, <2>4, <2>5 DEF TableTypeOK, QueuesTypeOK
  <2>7. \A i \in DOMAIN t.leases : LeaseAdvances(t.leases[i], t.leases[i])
    BY DEF LeaseAdvances, Successors, TableTypeOK, LeasesTypeOK, Leases, LeaseStates
  <2>8. Advances(t, n)
    BY <2>1, <2>2, <2>4, <2>7 DEF Advances
  <2> QED BY <2>1, <2>2, <2>4, <2>6, <2>8 DEF Kept
<1> QED BY <1>1, <1>2

\* Cleanup first, then an operation on the cleaned table.
LEMMA CleanupThenKept ==
  ASSUME NEW t, NEW r \in Nat, NEW u, TableTypeOK(t), Kept(cleanupExpiredLocked(t, r), u)
  PROVE  Kept(t, u)
<1> DEFINE c == cleanupExpiredLocked(t, r)
<1>1. Cleaned(t, c)
  BY CleanupCleans
<1>2. Advances(t, u)
  BY <1>1, CleanedThenAdvances DEF Kept
<1>3. c.epoch = t.epoch /\ c.waiters = t.waiters /\ DOMAIN c.leases = DOMAIN t.leases
  BY DEF cleanupExpiredLocked, TableTypeOK
<1> HIDE DEF c
<1> QED BY <1>2, <1>3 DEF Kept, c

LEMMA CleanupKept ==
  ASSUME NEW t, NEW r \in Nat, TableTypeOK(t)
  PROVE  Kept(t, cleanupExpiredLocked(t, r))
BY CleanupCleans, SameAdvances, CleanupThenKept

LEMMA CommitKept ==
  ASSUME NEW t, NEW r \in Nat, TableTypeOK(t), NEW id, NEW epoch, NEW who, NEW idem
  PROVE  Kept(t, commit(t, r, id, epoch, who, idem).table)
<1> DEFINE c   == cleanupExpiredLocked(t, r)
           l   == c.leases[id]
           why == IF l.state = "Expired" THEN "LEASE_EXPIRED"
                 ELSE IF Owner[l.req] # who THEN "LEASE_REQUESTER_MISMATCH"
                 ELSE IF l.state # "Prepared" THEN "LEASE_INVALID_TRANSITION" ELSE "OK"
           new == [l EXCEPT !.state = "Committed"]
<1>1. TableTypeOK(c)
  BY CleanupCleans
<1>2. id \in DOMAIN c.leases /\ why = "OK" => new \in Leases /\ LeaseAdvances(l, new)
  <2> HIDE DEF c
  <2> SUFFICES ASSUME id \in DOMAIN c.leases, why = "OK"
               PROVE  new \in Leases /\ LeaseAdvances(l, new)
    OBVIOUS
  <2>1. l \in Leases
    BY <1>1 DEF TableTypeOK, LeasesTypeOK
  <2> QED BY <2>1 DEF Leases, LeaseStates, LeaseAdvances, Successors
<1>3. Kept(c, commit(t, r, id, epoch, who, idem).table)
  <2> HIDE DEF c
  <2>1. \A op, fp, replay :
          Kept(c, OnLease(c, op, idem, fp, epoch, id, why, new, replay).table)
    BY <1>1, <1>2, OnLeaseKeeps
  <2> QED BY <2>1 DEF commit, c
<1> QED BY <1>3, CleanupThenKept

LEMMA ActivateKept ==
  ASSUME NEW t, NEW r \in Nat, TableTypeOK(t), NEW id, NEW epoch, NEW q, NEW plan, NEW idem, NEW deadline \in Nat
  PROVE  Kept(t, validateAndActivate(t, r, id, epoch, q, plan, idem, deadline).table)
<1> DEFINE c   == cleanupExpiredLocked(t, r)
           l   == c.leases[id]
           why == IF ActivationRefusal(l, q, plan) = "OK" /\ deadline <= r
                 THEN "LEASE_EXPIRED" ELSE ActivationRefusal(l, q, plan)
           new == [l EXCEPT !.state = "Executing", !.deadline = deadline]
<1>1. TableTypeOK(c)
  BY CleanupCleans
<1>2. id \in DOMAIN c.leases /\ why = "OK" => new \in Leases /\ LeaseAdvances(l, new)
  <2> HIDE DEF c
  <2> SUFFICES ASSUME id \in DOMAIN c.leases, why = "OK"
               PROVE  new \in Leases /\ LeaseAdvances(l, new)
    OBVIOUS
  <2>1. l \in Leases
    BY <1>1 DEF TableTypeOK, LeasesTypeOK
  <2> QED BY <2>1 DEF Leases, LeaseStates, LeaseAdvances, Successors, ActivationRefusal
<1>3. Kept(c, validateAndActivate(t, r, id, epoch, q, plan, idem, deadline).table)
  <2> HIDE DEF c
  <2>1. \A op, fp, replay :
          Kept(c, OnLease(c, op, idem, fp, epoch, id, why, new, replay).table)
    BY <1>1, <1>2, OnLeaseKeeps
  <2> QED BY <2>1 DEF validateAndActivate, c
<1> QED BY <1>3, CleanupThenKept

LEMMA AbortKept ==
  ASSUME NEW t, NEW r \in Nat, TableTypeOK(t), NEW id, NEW epoch, NEW who, NEW idem
  PROVE  Kept(t, abort(t, r, id, epoch, who, idem).table)
<1> DEFINE c   == cleanupExpiredLocked(t, r)
           l   == c.leases[id]
           why == IF Owner[l.req] # who THEN "LEASE_REQUESTER_MISMATCH"
                 ELSE IF l.state \notin {"Prepared", "Committed"}
                 THEN "LEASE_INVALID_TRANSITION" ELSE "OK"
           new == [l EXCEPT !.state = "Aborted"]
<1>1. TableTypeOK(c)
  BY CleanupCleans
<1>2. id \in DOMAIN c.leases /\ why = "OK" => new \in Leases /\ LeaseAdvances(l, new)
  <2> HIDE DEF c
  <2> SUFFICES ASSUME id \in DOMAIN c.leases, why = "OK"
               PROVE  new \in Leases /\ LeaseAdvances(l, new)
    OBVIOUS
  <2>1. l \in Leases
    BY <1>1 DEF TableTypeOK, LeasesTypeOK
  <2> QED BY <2>1 DEF Leases, LeaseStates, LeaseAdvances, Successors
<1>3. Kept(c, abort(t, r, id, epoch, who, idem).table)
  <2> HIDE DEF c
  <2>1. \A op, fp, replay :
          Kept(c, OnLease(c, op, idem, fp, epoch, id, why, new, replay).table)
    BY <1>1, <1>2, OnLeaseKeeps
  <2> QED BY <2>1 DEF abort, c
<1> QED BY <1>3, CleanupThenKept

LEMMA RenewKept ==
  ASSUME NEW t, NEW r \in Nat, TableTypeOK(t), NEW id, NEW epoch, NEW who, NEW idem, NEW expiresAt \in Nat
  PROVE  Kept(t, renew(t, r, id, epoch, who, idem, expiresAt).table)
<1> DEFINE c   == cleanupExpiredLocked(t, r)
           l   == c.leases[id]
           why == IF Owner[l.req] # who THEN "LEASE_REQUESTER_MISMATCH"
                 ELSE IF l.state = "Expired" THEN "LEASE_EXPIRED"
                 ELSE IF ~isActive(l.state) THEN "LEASE_INVALID_TRANSITION"
                 ELSE IF \/ expiresAt <= r
                         \/ l.state = "Executing" /\ l.deadline # 0 /\ expiresAt > l.deadline
                 THEN "LEASE_EXPIRED" ELSE "OK"
           new == [l EXCEPT !.expiresAt = expiresAt]
<1>1. TableTypeOK(c)
  BY CleanupCleans
<1>2. id \in DOMAIN c.leases /\ why = "OK" => new \in Leases /\ LeaseAdvances(l, new)
  <2> HIDE DEF c
  <2> SUFFICES ASSUME id \in DOMAIN c.leases, why = "OK"
               PROVE  new \in Leases /\ LeaseAdvances(l, new)
    OBVIOUS
  <2>1. l \in Leases
    BY <1>1 DEF TableTypeOK, LeasesTypeOK
  <2> QED BY <2>1 DEF Leases, LeaseStates, LeaseAdvances, Successors, isActive
<1>3. Kept(c, renew(t, r, id, epoch, who, idem, expiresAt).table)
  <2> HIDE DEF c
  <2>1. \A op, fp, replay :
          Kept(c, OnLease(c, op, idem, fp, epoch, id, why, new, replay).table)
    BY <1>1, <1>2, OnLeaseKeeps
  <2> QED BY <2>1 DEF renew, c
<1> QED BY <1>3, CleanupThenKept

LEMMA ReleaseKept ==
  ASSUME NEW t, NEW r \in Nat, TableTypeOK(t), NEW id, NEW epoch, NEW who, NEW idem
  PROVE  Kept(t, release(t, r, id, epoch, who, idem).table)
<1> DEFINE c   == cleanupExpiredLocked(t, r)
           l   == c.leases[id]
           why == IF Owner[l.req] # who THEN "LEASE_REQUESTER_MISMATCH"
                 ELSE IF l.state \notin {"Released", "Committed", "Executing"}
                 THEN "LEASE_INVALID_TRANSITION" ELSE "OK"
           new == [l EXCEPT !.state = "Released"]
<1>1. TableTypeOK(c)
  BY CleanupCleans
<1>2. id \in DOMAIN c.leases /\ why = "OK" => new \in Leases /\ LeaseAdvances(l, new)
  <2> HIDE DEF c
  <2> SUFFICES ASSUME id \in DOMAIN c.leases, why = "OK"
               PROVE  new \in Leases /\ LeaseAdvances(l, new)
    OBVIOUS
  <2>1. l \in Leases
    BY <1>1 DEF TableTypeOK, LeasesTypeOK
  <2> QED BY <2>1 DEF Leases, LeaseStates, LeaseAdvances, Successors
<1>3. Kept(c, release(t, r, id, epoch, who, idem).table)
  <2> HIDE DEF c
  <2>1. \A op, fp, replay :
          Kept(c, OnLease(c, op, idem, fp, epoch, id, why, new, replay).table)
    BY <1>1, <1>2, OnLeaseKeeps
  <2> QED BY <2>1 DEF release, c
<1> QED BY <1>3, CleanupThenKept

-----------------------------------------------------------------------------
(* prepare: it may also prune, extend or shorten the queues and add a lease. *)

Alive(t, r) == {w \in Requests : t.waiterExp[w] > r}

\* Writing two fields of a table.
LEMMA TwoFields ==
  ASSUME NEW t, TableTypeOK(t), NEW a, NEW b
  PROVE  /\ WithQueues(t, a, b)
            = [epoch |-> t.epoch, next |-> t.next, leases |-> t.leases, replays |-> t.replays,
               waiters |-> a, waiterExp |-> b]
         /\ WithLeases(t, a, b)
            = [epoch |-> t.epoch, next |-> a, leases |-> b, replays |-> t.replays,
               waiters |-> t.waiters, waiterExp |-> t.waiterExp]
<1>1. t = [epoch |-> t.epoch, next |-> t.next, leases |-> t.leases, replays |-> t.replays,
           waiters |-> t.waiters, waiterExp |-> t.waiterExp]
  BY DEF TableTypeOK
<1>2. [t EXCEPT !.waiters = a, !.waiterExp = b]
      = [epoch |-> t.epoch, next |-> t.next, leases |-> t.leases, replays |-> t.replays,
         waiters |-> a, waiterExp |-> b]
  <2> DEFINE u == [t EXCEPT !.waiters = a]
  <2>1. u = [epoch |-> t.epoch, next |-> t.next, leases |-> t.leases, replays |-> t.replays,
             waiters |-> a, waiterExp |-> t.waiterExp]
    BY <1>1
  <2>2. [t EXCEPT !.waiters = a, !.waiterExp = b] = [u EXCEPT !.waiterExp = b]
    OBVIOUS
  <2> HIDE DEF u
  <2> QED BY <2>1, <2>2
<1>3. [t EXCEPT !.next = a, !.leases = b]
      = [epoch |-> t.epoch, next |-> a, leases |-> b, replays |-> t.replays,
         waiters |-> t.waiters, waiterExp |-> t.waiterExp]
  <2> DEFINE u == [t EXCEPT !.next = a]
  <2>1. u = [epoch |-> t.epoch, next |-> a, leases |-> t.leases, replays |-> t.replays,
             waiters |-> t.waiters, waiterExp |-> t.waiterExp]
    BY <1>1
  <2>2. [t EXCEPT !.next = a, !.leases = b] = [u EXCEPT !.leases = b]
    OBVIOUS
  <2> HIDE DEF u
  <2> QED BY <2>1, <2>2
<1> QED BY <1>2, <1>3 DEF WithQueues, WithLeases

\* The table on which prepare decides.
Pruned(t, r) == pruneWaiters(cleanupExpiredLocked(t, r), r)

LEMMA PrunedTable ==
  ASSUME NEW t, NEW r \in Nat, TableTypeOK(t)
  PROVE  /\ Pruned(t, r).leases = cleanupExpiredLocked(t, r).leases
         /\ Pruned(t, r).epoch = t.epoch /\ Pruned(t, r).replays = t.replays
         /\ \A k \in Keys : Pruned(t, r).waiters[k] = Retain(t.waiters[k], Alive(t, r))
         /\ TableTypeOK(Pruned(t, r))
<1> DEFINE c == cleanupExpiredLocked(t, r)
           p == pruneWaiters(c, r)
<1>1. /\ TableTypeOK(c) /\ c.epoch = t.epoch /\ c.replays = t.replays
      /\ c.waiters = t.waiters /\ c.waiterExp = t.waiterExp
  BY CleanupCleans DEF cleanupExpiredLocked, TableTypeOK
<1> HIDE DEF c
<1>2. /\ p.leases = c.leases /\ p.epoch = c.epoch /\ p.next = c.next /\ p.replays = c.replays
      /\ p.waiters = [k \in Keys |-> Retain(c.waiters[k], Alive(c, r))]
      /\ p.waiterExp = [w \in Requests |-> IF w \in Alive(c, r) THEN c.waiterExp[w] ELSE 0]
      /\ p = [epoch |-> p.epoch, next |-> p.next, leases |-> p.leases, replays |-> p.replays,
              waiters |-> p.waiters, waiterExp |-> p.waiterExp]
  <2>1. p = [epoch |-> c.epoch, next |-> c.next, leases |-> c.leases, replays |-> c.replays,
             waiters |-> [k \in Keys |-> Retain(c.waiters[k], Alive(c, r))],
             waiterExp |-> [w \in Requests |-> IF w \in Alive(c, r) THEN c.waiterExp[w] ELSE 0]]
    <3>1. p = WithQueues(c, [k \in Keys |-> Retain(c.waiters[k], Alive(c, r))],
                [w \in Requests |-> IF w \in Alive(c, r) THEN c.waiterExp[w] ELSE 0])
      BY DEF pruneWaiters, Alive
    <3> HIDE DEF p
    <3> QED BY <1>1, <3>1, TwoFields
  <2> HIDE DEF p
  <2> QED BY <2>1
<1>3. \A k \in Keys : p.waiters[k] = Retain(t.waiters[k], Alive(t, r))
  BY <1>1, <1>2 DEF Alive
<1> HIDE DEF p
<1>4. QueuesTypeOK(p)
  BY <1>1, <1>2 DEF QueuesTypeOK, TableTypeOK, Retain, Alive
<1>5. TableTypeOK(p)
  BY <1>1, <1>2, <1>4 DEF TableTypeOK, LeasesTypeOK, ReplaysTypeOK
<1> QED BY <1>1, <1>2, <1>3, <1>5 DEF Pruned, p, c

LEMMA EnqueueTable ==
  ASSUME NEW p, TableTypeOK(p), NEW q \in Requests, NEW ks \in SUBSET Keys, NEW x \in Nat
  PROVE  /\ Enqueue(p, q, ks, x).leases = p.leases
         /\ Enqueue(p, q, ks, x).epoch = p.epoch /\ Enqueue(p, q, ks, x).replays = p.replays
         /\ \A k \in Keys : Enqueue(p, q, ks, x).waiters[k]
              = IF k \in ks THEN PushBack(p.waiters[k], q) ELSE p.waiters[k]
         /\ TableTypeOK(Enqueue(p, q, ks, x))
<1> DEFINE u == Enqueue(p, q, ks, x)
<1>1. /\ u.leases = p.leases /\ u.epoch = p.epoch /\ u.next = p.next /\ u.replays = p.replays
      /\ u.waiters = [k \in Keys |-> IF k \in ks THEN PushBack(p.waiters[k], q) ELSE p.waiters[k]]
      /\ u.waiterExp = [p.waiterExp EXCEPT ![q] = x]
      /\ u = [epoch |-> u.epoch, next |-> u.next, leases |-> u.leases, replays |-> u.replays,
              waiters |-> u.waiters, waiterExp |-> u.waiterExp]
  <2>1. u = [epoch |-> p.epoch, next |-> p.next, leases |-> p.leases, replays |-> p.replays,
             waiters |-> [k \in Keys |-> IF k \in ks THEN PushBack(p.waiters[k], q) ELSE p.waiters[k]],
             waiterExp |-> [p.waiterExp EXCEPT ![q] = x]]
    BY TwoFields DEF Enqueue
  <2> HIDE DEF u
  <2> QED BY <2>1
<1> HIDE DEF u
<1>2. \A k \in Keys : PushBack(p.waiters[k], q) \in SUBSET (Requests \X Requests)
  BY DEF PushBack, Members, TableTypeOK, QueuesTypeOK
<1>3. QueuesTypeOK(u)
  BY <1>1, <1>2 DEF QueuesTypeOK, TableTypeOK
<1>4. TableTypeOK(u)
  BY <1>1, <1>3 DEF TableTypeOK, LeasesTypeOK, ReplaysTypeOK
<1> QED BY <1>1, <1>4 DEF u

LEMMA DequeueTable ==
  ASSUME NEW p, TableTypeOK(p), NEW q \in Requests, NEW ks \in SUBSET Keys
  PROVE  /\ Dequeue(p, q, ks).leases = p.leases
         /\ Dequeue(p, q, ks).epoch = p.epoch /\ Dequeue(p, q, ks).replays = p.replays
         /\ \A k \in Keys : Dequeue(p, q, ks).waiters[k] \subseteq p.waiters[k]
         /\ TableTypeOK(Dequeue(p, q, ks))
<1> DEFINE u == Dequeue(p, q, ks)
<1>1. /\ u.leases = p.leases /\ u.epoch = p.epoch /\ u.next = p.next /\ u.replays = p.replays
      /\ u.waiters = [k \in Keys |-> IF k \in ks THEN Retain(p.waiters[k], Requests \ {q})
                                     ELSE p.waiters[k]]
      /\ u.waiterExp = [p.waiterExp EXCEPT ![q] = 0]
      /\ u = [epoch |-> u.epoch, next |-> u.next, leases |-> u.leases, replays |-> u.replays,
              waiters |-> u.waiters, waiterExp |-> u.waiterExp]
  <2>1. u = [epoch |-> p.epoch, next |-> p.next, leases |-> p.leases, replays |-> p.replays,
             waiters |-> [k \in Keys |-> IF k \in ks THEN Retain(p.waiters[k], Requests \ {q}) ELSE p.waiters[k]],
             waiterExp |-> [p.waiterExp EXCEPT ![q] = 0]]
    BY TwoFields DEF Dequeue
  <2> HIDE DEF u
  <2> QED BY <2>1
<1> HIDE DEF u
<1>2. \A k \in Keys : u.waiters[k] \subseteq p.waiters[k]
  BY <1>1 DEF Retain
<1>3. QueuesTypeOK(u)
  <2>1. \A k \in Keys : u.waiters[k] \in SUBSET (Requests \X Requests)
    BY <1>2 DEF QueuesTypeOK, TableTypeOK
  <2>2. u.waiters \in [Keys -> SUBSET (Requests \X Requests)]
    BY <1>1, <2>1
  <2>3. p.waiterExp \in [Requests -> Nat]
    BY DEF QueuesTypeOK, TableTypeOK
  <2>4. u.waiterExp \in [Requests -> Nat]
    BY <1>1, <2>3
  <2> QED BY <2>2, <2>4 DEF QueuesTypeOK
<1>4. TableTypeOK(u)
  BY <1>1, <1>3 DEF TableTypeOK, LeasesTypeOK, ReplaysTypeOK
<1> QED BY <1>1, <1>2, <1>4 DEF u

\* No result of an operation on a lease is forgotten, replaced or added.
ReplaysKept(t, u) ==
  \A x \in DOMAIN u.replays : x[1] # "PREPARE" => x \in DOMAIN t.replays /\ u.replays[x] = t.replays[x]

\* Admit leaves the table alone or stores one PREPARED lease for q on ks.
LEMMA AdmitTable ==
  ASSUME NEW d, TableTypeOK(d), NEW q \in Requests, NEW plan \in Plans, NEW ks \in SUBSET Keys,
         NEW x \in Nat, NEW idem, NEW fp, NEW wish \in {NoLease} \cup SuppliedIds
  PROVE  LET u == Admit(d, q, plan, ks, x, idem, fp, wish).table IN
         /\ TableTypeOK(u) /\ u.epoch = d.epoch /\ u.waiters = d.waiters /\ ReplaysKept(d, u)
         /\ DOMAIN d.leases \subseteq DOMAIN u.leases
         /\ \A i \in DOMAIN d.leases : u.leases[i] = d.leases[i]
         /\ \A i \in DOMAIN u.leases \ DOMAIN d.leases : u.leases[i].req = q /\ u.leases[i].keys = ks
         /\ \A i, j \in DOMAIN u.leases \ DOMAIN d.leases : i = j
<1> DEFINE lease == [req |-> q, plan |-> plan, keys |-> ks, expiresAt |-> x,
                     deadline |-> 0, state |-> "Prepared"]
           id    == IF wish = NoLease THEN <<d.epoch, d.next>> ELSE wish
           made  == WithLeases(d, IF wish = NoLease THEN d.next + 1 ELSE d.next,
                               Emplace(d.leases, id, lease))
           kept  == rememberReplay(made, "PREPARE", idem, fp, id, lease)
           o     == Admit(d, q, plan, ks, x, idem, fp, wish)
<1>1. CASE wish # NoLease /\ wish \in DOMAIN d.leases
  <2>1. o.table = d
    BY <1>1 DEF Admit, reject
  <2> QED BY <2>1 DEF ReplaysKept
<1>2. CASE ~(wish # NoLease /\ wish \in DOMAIN d.leases)
  <2>1. o.table = kept
    BY <1>2 DEF Admit, success
  <2>2. id \in LeaseIds /\ lease \in Leases
    BY DEF LeaseIds, Leases, LeaseStates, TableTypeOK
  <2> HIDE DEF lease, id
  <2>3. /\ made.next \in Nat
        /\ made = [epoch |-> d.epoch, next |-> made.next, leases |-> Emplace(d.leases, id, lease),
                   replays |-> d.replays, waiters |-> d.waiters, waiterExp |-> d.waiterExp]
    <3> DEFINE n == IF wish = NoLease THEN d.next + 1 ELSE d.next
               e == Emplace(d.leases, id, lease)
    <3>1. n \in Nat
      BY DEF TableTypeOK
    <3> HIDE DEF n, e
    <3>2. made = [epoch |-> d.epoch, next |-> n, leases |-> e,
                  replays |-> d.replays, waiters |-> d.waiters, waiterExp |-> d.waiterExp]
      BY TwoFields DEF made, n, e
    <3> HIDE DEF made
    <3> QED BY <3>1, <3>2 DEF e
  <2> HIDE DEF made
  <2>4. kept = [epoch |-> d.epoch, next |-> made.next, leases |-> Emplace(d.leases, id, lease),
                replays |-> Assign(d.replays, <<"PREPARE", idem>>,
                                   [fingerprint |-> fp, id |-> id, lease |-> lease]),
                waiters |-> d.waiters, waiterExp |-> d.waiterExp]
    BY <2>3 DEF rememberReplay
  <2> HIDE DEF kept
  <2>5. /\ DOMAIN kept.leases = DOMAIN d.leases \cup {id}
        /\ \A i \in DOMAIN d.leases : kept.leases[i] = d.leases[i]
        /\ \A i \in DOMAIN kept.leases \ DOMAIN d.leases : i = id /\ kept.leases[i] = lease
    BY <2>4 DEF Emplace, Assign
  <2>6. LeasesTypeOK(kept)
    BY <2>2, <2>5 DEF TableTypeOK, LeasesTypeOK
  <2>7. ReplaysTypeOK(kept)
    BY <2>2, <2>4, <2>5 DEF TableTypeOK, ReplaysTypeOK, Assign
  <2>8. TableTypeOK(kept)
    BY <2>3, <2>4, <2>6, <2>7 DEF TableTypeOK, QueuesTypeOK
  <2>9. lease.req = q /\ lease.keys = ks
    BY DEF lease
  <2>10. ReplaysKept(d, kept)
    BY <2>4 DEF ReplaysKept, Assign
  <2> QED BY <2>1, <2>4, <2>5, <2>8, <2>9, <2>10
<1> QED BY <1>1, <1>2

\* The outcome of a PREPARE on t with clock reading r.
PrepareEffect(t, r, u) ==
  /\ TableTypeOK(u)
  /\ u.epoch = t.epoch /\ ReplaysKept(t, u)
  /\ Advances(t, u)
  /\ Exclusive(t) => Exclusive(u)
  /\ \A k \in Keys, w \in Requests :
       w \in Members(t.waiters[k]) /\ t.waiterExp[w] > r => KeepsTurn(t, u, w, k)

LEMMA PrepareTable ==
  ASSUME NEW t, NEW r \in Nat, TableTypeOK(t), NEW q \in Requests,
         NEW plan \in Plans \cup {NoPlan}, NEW ks \in SUBSET (Keys \cup {NoKey}),
         NEW x \in Nat, NEW idem, NEW wish \in {NoLease} \cup SuppliedIds
  PROVE  PrepareEffect(t, r, prepare(t, r, q, plan, ks, x, idem, wish).table)
<1> DEFINE c  == cleanupExpiredLocked(t, r)
           p  == Pruned(t, r)
           fp == <<q, plan, ks, x>>
           o  == prepare(t, r, q, plan, ks, x, idem, wish)
<1>1. /\ TableTypeOK(p) /\ p.epoch = t.epoch /\ p.leases = c.leases /\ p.replays = t.replays
      /\ \A k \in Keys : p.waiters[k] = Retain(t.waiters[k], Alive(t, r))
  BY PrunedTable
<1>2. Cleaned(t, c) /\ Advances(t, c)
  BY CleanupCleans, CleanedAdvances
<1>3. DOMAIN p.leases = DOMAIN t.leases /\ Advances(t, p)
  BY <1>1, <1>2 DEF Cleaned, Advances
<1>4. Exclusive(t) => Exclusive(p)
  BY <1>3, AdvanceKeepsExclusive
\* A live waiter is still queued after pruning, behind the same requests.
<1>5. ASSUME NEW k \in Keys, NEW w \in Requests, w \in Members(t.waiters[k]), t.waiterExp[w] > r
      PROVE  w \in Members(p.waiters[k])
  BY <1>1, <1>5 DEF Members, Retain, Alive
<1>6. \A k \in Keys : p.waiters[k] \subseteq t.waiters[k]
  BY <1>1 DEF Retain
<1> HIDE DEF p, c
<1>7. CASE o.table = p
  <2>1. ASSUME NEW k \in Keys, NEW w \in Requests PROVE KeepsTurn(t, p, w, k)
    BY <1>3, <1>6 DEF KeepsTurn
  <2> QED BY <1>1, <1>3, <1>4, <1>7, <2>1 DEF PrepareEffect, ReplaysKept
<1>8. CASE plan \in Plans /\ ks \in SUBSET Keys /\ MustWait(p, q, ks)
           /\ o.table = Enqueue(p, q, ks, x)
  <2> DEFINE u == Enqueue(p, q, ks, x)
  <2>1. /\ TableTypeOK(u) /\ u.leases = p.leases /\ u.epoch = p.epoch /\ u.replays = p.replays
        /\ \A k \in Keys : u.waiters[k] = IF k \in ks THEN PushBack(p.waiters[k], q)
                                          ELSE p.waiters[k]
    <3>1. TableTypeOK(p) /\ ks \in SUBSET Keys
      BY <1>1, <1>8
    <3>2. /\ TableTypeOK(u) /\ u.leases = p.leases /\ u.epoch = p.epoch
          /\ \A k \in Keys : u.waiters[k] = IF k \in ks THEN PushBack(p.waiters[k], q)
                                            ELSE p.waiters[k]
      BY <3>1, EnqueueTable
    <3>3. u.replays = p.replays
      BY <3>1, EnqueueTable
    <3> QED BY <3>2, <3>3
  <2> HIDE DEF u
  <2>2. Advances(t, u) /\ (Exclusive(t) => Exclusive(u))
    BY <1>3, <1>4, <2>1 DEF Advances, Exclusive
  <2>3. ASSUME NEW k \in Keys, NEW w \in Requests, w \in Members(t.waiters[k]), t.waiterExp[w] > r
        PROVE  KeepsTurn(t, u, w, k)
    <3>1. w \in Members(p.waiters[k])
      BY <1>5, <2>3
    <3>2. ASSUME NEW v \in Requests, <<v, w>> \in u.waiters[k] PROVE <<v, w>> \in p.waiters[k]
      <4>1. CASE k \notin ks \/ q \in Members(p.waiters[k])
        BY <2>1, <3>2, <4>1 DEF PushBack
      <4>2. CASE k \in ks /\ q \notin Members(p.waiters[k])
        <5>1. w # q
          BY <3>1, <4>2
        <5>2. u.waiters[k] = p.waiters[k] \cup {<<q, q>>} \cup (Members(p.waiters[k]) \X {q})
          BY <2>1, <4>2 DEF PushBack
        <5> QED BY <3>2, <5>1, <5>2
      <4> QED BY <4>1, <4>2
    <3> QED BY <1>3, <1>6, <2>1, <3>2 DEF KeepsTurn
  <2> QED BY <1>1, <1>8, <2>1, <2>2, <2>3 DEF PrepareEffect, ReplaysKept, u
<1>9. CASE plan \in Plans /\ ks \in SUBSET Keys /\ ~MustWait(p, q, ks)
           /\ o.table = Admit(Dequeue(p, q, ks), q, plan, ks, x, idem, fp, wish).table
  <2> DEFINE d == Dequeue(p, q, ks)
             u == Admit(d, q, plan, ks, x, idem, fp, wish).table
  <2>1. /\ TableTypeOK(d) /\ d.leases = p.leases /\ d.epoch = p.epoch /\ d.replays = p.replays
        /\ \A k \in Keys : d.waiters[k] \subseteq p.waiters[k]
    BY <1>1, <1>9, DequeueTable
  <2> HIDE DEF d
  <2>2. /\ TableTypeOK(u) /\ u.epoch = d.epoch /\ u.waiters = d.waiters /\ ReplaysKept(d, u)
        /\ DOMAIN d.leases \subseteq DOMAIN u.leases
        /\ \A i \in DOMAIN d.leases : u.leases[i] = d.leases[i]
        /\ \A i \in DOMAIN u.leases \ DOMAIN d.leases : u.leases[i].req = q /\ u.leases[i].keys = ks
        /\ \A i, j \in DOMAIN u.leases \ DOMAIN d.leases : i = j
    BY <1>9, <2>1, AdmitTable
  <2> HIDE DEF u
  <2>3. Advances(t, u)
    BY <1>3, <2>1, <2>2 DEF Advances
  <2>4. Exclusive(t) => Exclusive(u)
    <3> SUFFICES ASSUME Exclusive(p), NEW i \in DOMAIN u.leases, NEW j \in DOMAIN u.leases,
                        isActive(u.leases[i].state), isActive(u.leases[j].state), i # j
                 PROVE  u.leases[i].keys \cap u.leases[j].keys = {}
      BY <1>4 DEF Exclusive
    <3>1. \A n \in DOMAIN p.leases : isActive(p.leases[n].state) => p.leases[n].keys \cap ks = {}
      BY <1>9 DEF MustWait, hasActiveConflictKey
    <3>2. CASE i \in DOMAIN p.leases /\ j \in DOMAIN p.leases
      BY <2>1, <2>2, <3>2 DEF Exclusive
    <3>3. CASE i \in DOMAIN p.leases /\ j \notin DOMAIN p.leases
      BY <2>1, <2>2, <3>1, <3>3
    <3>4. CASE i \notin DOMAIN p.leases /\ j \in DOMAIN p.leases
      BY <2>1, <2>2, <3>1, <3>4
    <3> QED BY <2>1, <2>2, <3>2, <3>3, <3>4
  <2>5. ASSUME NEW k \in Keys, NEW w \in Requests, w \in Members(t.waiters[k]), t.waiterExp[w] > r
        PROVE  KeepsTurn(t, u, w, k)
    <3>1. w \in Members(p.waiters[k])
      BY <1>5, <2>5
    <3>2. k \in ks => <<q, w>> \in t.waiters[k]
      BY <1>6, <1>9, <3>1 DEF MustWait, IsFront
    <3> QED BY <1>3, <1>6, <2>1, <2>2, <3>2 DEF KeepsTurn
  <2>6. ReplaysKept(t, u)
    BY <1>1, <2>1, <2>2 DEF ReplaysKept
  <2> QED BY <1>1, <1>9, <2>1, <2>2, <2>3, <2>4, <2>5, <2>6 DEF PrepareEffect, u, d
<1>10. \/ o.table = p
       \/ /\ plan \in Plans /\ ks \in SUBSET Keys
          /\ MustWait(p, q, ks) /\ o.table = Enqueue(p, q, ks, x)
       \/ /\ plan \in Plans /\ ks \in SUBSET Keys
          /\ ~MustWait(p, q, ks)
          /\ o.table = Admit(Dequeue(p, q, ks), q, plan, ks, x, idem, fp, wish).table
  <2> DEFINE e       == Enqueue(p, q, ks, x)
             a       == Admit(Dequeue(p, q, ks), q, plan, ks, x, idem, fp, wish)
             verdict == replayOrConflict(p, "PREPARE", idem, fp)
  <2>1. /\ \A reason : reject(p, reason).table = p
        /\ \A reason : reject(e, reason).table = e
        /\ replayed(p, "PREPARE", idem).table = p
    BY DEF reject, replayed, success
  <2>2. o = IF verdict = "OK" THEN replayed(p, "PREPARE", idem)
            ELSE IF verdict # "FRESH" THEN reject(p, verdict)
            ELSE IF plan = NoPlan \/ x <= r THEN reject(p, "LEASE_UNAVAILABLE")
            ELSE IF NoKey \in ks THEN reject(p, "LEASE_CAPACITY_REJECTED")
            ELSE IF MustWait(p, q, ks) THEN reject(e, "LEASE_CAPACITY_REJECTED")
            ELSE a
    BY DEF prepare, p, Pruned
  <2> HIDE DEF e, a, verdict, o
  <2> QED BY <2>1, <2>2 DEF e, a
<1> QED BY <1>7, <1>8, <1>9, <1>10

-----------------------------------------------------------------------------
(* One step of the specification. *)

LEMMA NewTableOK ==
  ASSUME NEW e \in Nat
  PROVE  TableTypeOK(NewTable(e)) /\ Exclusive(NewTable(e))
BY DEF NewTable, TableTypeOK, LeasesTypeOK, ReplaysTypeOK, QueuesTypeOK, Exclusive

StepEffect ==
  \/ /\ Kept(table, table')
     /\ now' = now
  \/ /\ \E r \in Readings : PrepareEffect(table, r, table')
     /\ now' = now
  \/ /\ table' = NewTable(table.epoch + 1)
     /\ now' = now
  \/ /\ table' = table
     /\ now' \in Nat

LEMMA NextEffect ==
  ASSUME TypeOK, [Next]_vars
  PROVE  StepEffect
<1> USE DEF TypeOK
<1>0. Readings \subseteq Nat /\ 0..MaxTime \subseteq Nat
  BY ExecutionLeaseAssumption DEF Readings
<1>1. CASE Prepare
  <2>1. PICK r \in Readings, q \in Requests, plan \in Plans \cup {NoPlan}, ks \in KeySets,
             x \in 0..MaxTime, wish \in {NoLease} \cup SuppliedIds :
          \E idem \in KeyChoice("PREPARE", q) :
            table' = prepare(table, r, q, plan, ks, x, idem, wish).table
    BY <1>1 DEF Prepare
  <2>2. ks \in SUBSET (Keys \cup {NoKey})
    BY ExecutionLeaseAssumption
  <2>3. PrepareEffect(table, r, table')
    BY <1>0, <2>1, <2>2, PrepareTable
  <2> QED BY <1>1, <2>3 DEF Prepare, StepEffect
<1>2. CASE Commit
  BY <1>0, <1>2, CommitKept DEF Commit, StepEffect
<1>3. CASE ValidateAndActivate
  <2>1. PICK r \in Readings, id \in NamedIds, e \in 1..MaxEpoch, q \in Requests, plan \in Plans,
             d \in 0..MaxTime :
          \E idem \in KeyChoice("VALIDATE_AND_ACTIVATE", id) :
            table' = validateAndActivate(table, r, id, e, q, plan, idem, d).table
    BY <1>3 DEF ValidateAndActivate
  <2>2. Kept(table, table')
    BY <1>0, <2>1, ActivateKept
  <2> QED BY <1>3, <2>2 DEF ValidateAndActivate, StepEffect
<1>4. CASE Abort
  BY <1>0, <1>4, AbortKept DEF Abort, StepEffect
<1>5. CASE Renew
  BY <1>0, <1>5, RenewKept DEF Renew, StepEffect
<1>6. CASE Release
  BY <1>0, <1>6, ReleaseKept DEF Release, StepEffect
<1>7. CASE CleanupExpired
  BY <1>0, <1>7, CleanupKept DEF CleanupExpired, StepEffect
<1>8. CASE Restart
  BY <1>8 DEF Restart, StepEffect
<1>9. CASE Tick
  BY <1>9 DEF Tick, StepEffect
<1>10. CASE UNCHANGED vars
  BY <1>10 DEF vars, StepEffect
<1> QED BY <1>1, <1>2, <1>3, <1>4, <1>5, <1>6, <1>7, <1>8, <1>9, <1>10 DEF Next

\* The inductive invariant.
LeaseInv == TypeOK /\ ConflictKeysExclusive

LEMMA LeaseInvInit == Init => LeaseInv
BY NewTableOK DEF Init, LeaseInv, TypeOK, ConflictKeysExclusive

LEMMA LeaseInvNext == LeaseInv /\ [Next]_vars => LeaseInv'
<1> SUFFICES ASSUME LeaseInv, [Next]_vars PROVE LeaseInv'
  OBVIOUS
<1>1. StepEffect
  BY NextEffect DEF LeaseInv
<1>2. now \in Nat /\ TableTypeOK(table) /\ Exclusive(table)
  BY DEF LeaseInv, TypeOK, ConflictKeysExclusive
<1>3. now' \in Nat
  BY <1>1, <1>2 DEF StepEffect
<1>4. TableTypeOK(table') /\ Exclusive(table')
  <2>1. CASE Kept(table, table')
    BY <1>2, <2>1, AdvanceKeepsExclusive DEF Kept
  <2>2. CASE \E r \in Readings : PrepareEffect(table, r, table')
    BY <1>2, <2>2 DEF PrepareEffect
  <2>3. CASE table' = NewTable(table.epoch + 1)
    <3>1. table.epoch + 1 \in Nat
      BY <1>2 DEF TableTypeOK
    <3> QED BY <2>3, <3>1, NewTableOK
  <2>4. CASE table' = table
    BY <1>2, <2>4
  <2> QED BY <1>1, <2>1, <2>2, <2>3, <2>4 DEF StepEffect
<1> QED BY <1>3, <1>4 DEF LeaseInv, TypeOK, ConflictKeysExclusive

\* Every reachable table is well formed, and every remembered idempotent result
\* names a lease the table still stores.
THEOREM TypeCorrect == Spec => []TypeOK
<1>1. LeaseInv => TypeOK
  BY DEF LeaseInv
<1> QED BY <1>1, LeaseInvInit, LeaseInvNext, PTL DEF Spec

\* No conflict key is ever held by two PREPARED, COMMITTED or EXECUTING leases,
\* for any number of requests, keys, leases, retries, clock readings and restarts.
THEOREM ConflictKeysAreExclusive == Spec => []ConflictKeysExclusive
<1>1. LeaseInv => ConflictKeysExclusive
  BY DEF LeaseInv
<1> QED BY <1>1, LeaseInvInit, LeaseInvNext, PTL DEF Spec

\* Terminal leases stay terminal and no call skips a stage of the lifecycle.
THEOREM LeasesFollowTheLifecycle == Spec => LifecycleOrder
<1>1. LeaseInv /\ [Next]_vars
        => [table'.epoch = table.epoch => Advances(table, table')]_vars
  <2> SUFFICES ASSUME LeaseInv, [Next]_vars, table'.epoch = table.epoch
               PROVE  Advances(table, table')
    OBVIOUS
  <2>0. TypeOK /\ TableTypeOK(table)
    BY DEF LeaseInv, TypeOK
  <2>1. StepEffect
    BY <2>0, NextEffect
  <2>2. table' # NewTable(table.epoch + 1)
    BY <2>0 DEF NewTable, TableTypeOK
  <2>3. CASE table' = table
    BY <2>0, <2>3, SameAdvances DEF Kept
  <2> QED BY <2>1, <2>2, <2>3 DEF StepEffect, Kept, PrepareEffect
<1> QED BY <1>1, LeaseInvInit, LeaseInvNext, PTL DEF Spec, LifecycleOrder

\* Capacity waiters are served in arrival order on every conflict key.
THEOREM WaitersKeepTheirTurn == Spec => NoOvertaking
<1>1. LeaseInv /\ [Next]_vars
        => [table'.epoch = table.epoch =>
              \A k \in Keys, w \in Requests :
                LiveWaiter(w, k) => KeepsTurn(table, table', w, k)]_vars
  <2> SUFFICES ASSUME LeaseInv, [Next]_vars, table'.epoch = table.epoch,
                      NEW k \in Keys, NEW w \in Requests, LiveWaiter(w, k)
               PROVE  KeepsTurn(table, table', w, k)
    OBVIOUS
  <2>0. TypeOK /\ TableTypeOK(table) /\ now \in Nat /\ table.waiterExp[w] \in Nat
    BY DEF LeaseInv, TypeOK, TableTypeOK, QueuesTypeOK
  <2>1. StepEffect
    BY <2>0, NextEffect
  <2>2. table' # NewTable(table.epoch + 1)
    BY <2>0 DEF NewTable, TableTypeOK
  <2>3. CASE table' = table
    BY <2>3 DEF KeepsTurn
  <2>4. CASE Kept(table, table')
    BY <2>4 DEF Kept, KeepsTurn
  <2>5. CASE \E r \in Readings : PrepareEffect(table, r, table')
    <3>1. PICK r \in Readings : PrepareEffect(table, r, table')
      BY <2>5
    <3>2. w \in Members(table.waiters[k]) /\ table.waiterExp[w] > r
      BY <2>0 DEF LiveWaiter, Readings
    <3> QED BY <3>1, <3>2 DEF PrepareEffect
  <2> QED BY <2>1, <2>2, <2>3, <2>4, <2>5 DEF StepEffect
<1> QED BY <1>1, LeaseInvInit, LeaseInvNext, PTL DEF Spec, NoOvertaking

-----------------------------------------------------------------------------
(* What callers are told. *)

\* A success reports the state of a stored lease.
Reports(o) ==
  o.reply.status => /\ o.reply.id \in DOMAIN o.table.leases
                    /\ o.table.leases[o.reply.id].state = o.reply.state

\* The fingerprint of every remembered operation on a lease carries the table's epoch.
EpochBound(t) ==
  \A x \in DOMAIN t.replays : x[1] # "PREPARE" => t.replays[x].fingerprint[2] = t.epoch

\* The outcome of an operation on a lease that names epoch e, on the cleaned table c.
GoodOutcome(c, e, o) ==
  /\ Reports(o)
  /\ EpochBound(c) => EpochBound(o.table)
  /\ EpochBound(c) /\ e # c.epoch => ~o.reply.status /\ o.table = c

LEMMA OnLeaseIsGood ==
  ASSUME NEW t, TableTypeOK(t), NEW op, NEW idem, NEW fp, NEW e, NEW id, NEW why,
         NEW updated, NEW replay, op # "PREPARE", fp[2] = e
  PROVE  GoodOutcome(t, e, OnLease(t, op, idem, fp, e, id, why, updated, replay))
<1> DEFINE o == OnLease(t, op, idem, fp, e, id, why, updated, replay)
           m == [t EXCEPT !.leases[id] = updated]
           n == rememberReplay(m, op, idem, fp, id, updated)
           past == t.replays[<<op, idem>>]
           verdict == replayOrConflict(t, op, idem, fp)
<1> SUFFICES GoodOutcome(t, e, o)
  OBVIOUS
<1>0. /\ \A reason : reject(t, reason).table = t /\ reject(t, reason).reply.status = FALSE
      /\ replayed(t, op, idem).table = t
      /\ replayed(t, op, idem).reply.id = past.id
      /\ replayed(t, op, idem).reply.state = past.lease.state
      /\ success(n, id, updated, replay).table = n
      /\ success(n, id, updated, replay).reply.id = id
      /\ success(n, id, updated, replay).reply.state = updated.state
  BY DEF reject, success, replayed
<1>1. CASE verdict = "OK"
  <2>1. o = replayed(t, op, idem)
    BY <1>1 DEF OnLease
  <2>2. /\ <<op, idem>> \in DOMAIN t.replays /\ past.fingerprint = fp
        /\ past.id \in DOMAIN t.leases /\ t.leases[past.id].state = past.lease.state
    BY <1>1 DEF replayOrConflict
  <2>3. EpochBound(t) => e = t.epoch
    <3>1. <<op, idem>>[1] = op
      OBVIOUS
    <3> QED BY <2>2, <3>1 DEF EpochBound
  <2>4. /\ o.table = t /\ o.reply.id = past.id /\ o.reply.state = past.lease.state
    BY <1>0, <2>1
  <2> HIDE DEF o, past
  <2> QED BY <2>2, <2>3, <2>4 DEF GoodOutcome, Reports
<1>2. CASE verdict # "OK" /\ (verdict # "FRESH" \/ e # t.epoch \/ id \notin DOMAIN t.leases \/ why # "OK")
  <2>1. \E reason : o = reject(t, reason)
    BY <1>2 DEF OnLease
  <2>2. o.table = t /\ o.reply.status = FALSE
    BY <1>0, <2>1
  <2> HIDE DEF o
  <2> QED BY <2>2 DEF GoodOutcome, Reports
<1>3. CASE verdict = "FRESH" /\ e = t.epoch /\ id \in DOMAIN t.leases /\ why = "OK"
  <2>1. o = success(n, id, updated, replay)
    BY <1>3 DEF OnLease
  <2>2. /\ n.leases = [t.leases EXCEPT ![id] = updated] /\ n.epoch = t.epoch
        /\ n.replays = Assign(t.replays, <<op, idem>>, [fingerprint |-> fp, id |-> id, lease |-> updated])
    <3>1. /\ m.leases = [t.leases EXCEPT ![id] = updated] /\ m.epoch = t.epoch /\ m.replays = t.replays
          /\ m = [epoch |-> t.epoch, next |-> t.next, leases |-> m.leases, replays |-> t.replays,
                  waiters |-> t.waiters, waiterExp |-> t.waiterExp]
      BY DEF TableTypeOK
    <3> HIDE DEF m
    <3> QED BY <3>1 DEF rememberReplay
  <2> HIDE DEF n, o
  <2>3. EpochBound(t) => EpochBound(n)
    BY <1>3, <2>2 DEF EpochBound, Assign
  <2>4. id \in DOMAIN n.leases /\ n.leases[id].state = updated.state
    BY <1>3, <2>2
  <2>5. o.table = n /\ o.reply.id = id /\ o.reply.state = updated.state
    BY <1>0, <2>1
  <2> QED BY <1>3, <2>3, <2>4, <2>5 DEF GoodOutcome, Reports
<1> QED BY <1>1, <1>2, <1>3

LEMMA OutcomesAreGood ==
  ASSUME NEW t, NEW r \in Nat, TableTypeOK(t), NEW id, NEW e, NEW who, NEW idem, NEW x, NEW q, NEW plan
  PROVE  LET c == cleanupExpiredLocked(t, r) IN
         /\ GoodOutcome(c, e, commit(t, r, id, e, who, idem))
         /\ GoodOutcome(c, e, abort(t, r, id, e, who, idem))
         /\ GoodOutcome(c, e, release(t, r, id, e, who, idem))
         /\ GoodOutcome(c, e, renew(t, r, id, e, who, idem, x))
         /\ GoodOutcome(c, e, validateAndActivate(t, r, id, e, q, plan, idem, x))
<1> DEFINE c == cleanupExpiredLocked(t, r)
<1>1. TableTypeOK(c)
  BY CleanupCleans
<1> HIDE DEF c
<1>2. \A op, fp, why, updated, replay : op # "PREPARE" /\ fp[2] = e
        => GoodOutcome(c, e, OnLease(c, op, idem, fp, e, id, why, updated, replay))
  BY <1>1, OnLeaseIsGood
<1>3. /\ <<id, e, who>>[2] = e /\ <<id, e, x, who>>[2] = e /\ <<id, e, x, q, plan>>[2] = e
  OBVIOUS
<1>4. GoodOutcome(c, e, commit(t, r, id, e, who, idem))
  BY <1>2, <1>3 DEF commit, c
<1>5. GoodOutcome(c, e, abort(t, r, id, e, who, idem))
  BY <1>2, <1>3 DEF abort, c
<1>6. GoodOutcome(c, e, release(t, r, id, e, who, idem))
  BY <1>2, <1>3 DEF release, c
<1>7. GoodOutcome(c, e, renew(t, r, id, e, who, idem, x))
  BY <1>2, <1>3 DEF renew, c
<1>8. GoodOutcome(c, e, validateAndActivate(t, r, id, e, q, plan, idem, x))
  BY <1>2, <1>3 DEF validateAndActivate, c
<1> QED BY <1>4, <1>5, <1>6, <1>7, <1>8 DEF c

\* A successful reply, replays included, reports the state the lease is in when the call
\* returns, for every table the provider can reach.
THEOREM RepliesAreCurrent == Spec => []RepliesReportCurrentState
<1>1. LeaseInv => RepliesReportCurrentState
  <2> SUFFICES ASSUME LeaseInv, NEW id \in NamedIds, NEW who \in Requesters, NEW idem \in IdemKeys,
                      NEW x \in 0..MaxTime, NEW o \in Outcomes(id, table.epoch, who, idem, x)
               PROVE  Reports(o)
    BY DEF RepliesReportCurrentState, Reports
  <2>1. TableTypeOK(table) /\ now \in Nat
    BY DEF LeaseInv, TypeOK
  <2>2. GoodOutcome(cleanupExpiredLocked(table, now), table.epoch, o)
    BY <2>1, OutcomesAreGood DEF Outcomes
  <2> QED BY <2>2 DEF GoodOutcome
<1> QED BY <1>1, LeaseInvInit, LeaseInvNext, PTL DEF Spec

\* The inductive invariant behind OldEpochHasNoAuthority: a remembered result is found
\* before the epoch is compared, so it must not be reachable from another epoch.
EpochInv == LeaseInv /\ EpochBound(table)

LEMMA EpochInvInit == Init => EpochInv
<1>1. EpochBound(NewTable(1))
  BY DEF EpochBound, NewTable
<1> QED BY <1>1, LeaseInvInit DEF Init, EpochInv

LEMMA CleanedBound ==
  ASSUME NEW t, NEW r \in Nat, TableTypeOK(t), EpochBound(t)
  PROVE  EpochBound(cleanupExpiredLocked(t, r)) /\ cleanupExpiredLocked(t, r).epoch = t.epoch
<1> DEFINE c == cleanupExpiredLocked(t, r)
<1>1. c.epoch = t.epoch /\ c.replays = t.replays
  BY DEF cleanupExpiredLocked, TableTypeOK
<1> HIDE DEF c
<1> QED BY <1>1 DEF EpochBound, c

LEMMA EpochInvNext == EpochInv /\ [Next]_vars => EpochInv'
<1> SUFFICES ASSUME EpochInv, [Next]_vars PROVE EpochBound(table')
  BY LeaseInvNext DEF EpochInv
<1>0. /\ TableTypeOK(table) /\ EpochBound(table) /\ Readings \subseteq Nat
      /\ 0..MaxTime \subseteq Nat
  BY ExecutionLeaseAssumption DEF EpochInv, LeaseInv, TypeOK, Readings
<1>1. ASSUME NEW r \in Readings, NEW e, NEW o, table' = o.table,
             GoodOutcome(cleanupExpiredLocked(table, r), e, o)
      PROVE  EpochBound(table')
  BY <1>0, <1>1, CleanedBound DEF GoodOutcome
<1>2. CASE Prepare
  <2>1. PICK r \in Readings, q \in Requests, plan \in Plans \cup {NoPlan}, ks \in KeySets,
             x \in 0..MaxTime, wish \in {NoLease} \cup SuppliedIds :
          \E idem \in KeyChoice("PREPARE", q) :
            table' = prepare(table, r, q, plan, ks, x, idem, wish).table
    BY <1>2 DEF Prepare
  <2>2. ks \in SUBSET (Keys \cup {NoKey})
    BY ExecutionLeaseAssumption
  <2>3. PrepareEffect(table, r, table')
    BY <1>0, <2>1, <2>2, PrepareTable
  <2> QED BY <1>0, <2>3 DEF PrepareEffect, ReplaysKept, EpochBound
<1>3. CASE Commit
  <2>1. PICK r \in Readings, id \in NamedIds, e \in 1..MaxEpoch, who \in Requesters :
          \E idem \in KeyChoice("COMMIT", id) : table' = commit(table, r, id, e, who, idem).table
    BY <1>3 DEF Commit
  <2> QED BY <1>0, <1>1, <2>1, OutcomesAreGood
<1>4. CASE ValidateAndActivate
  <2>1. PICK r \in Readings, id \in NamedIds, e \in 1..MaxEpoch, q \in Requests, plan \in Plans,
             d \in 0..MaxTime :
          \E idem \in KeyChoice("VALIDATE_AND_ACTIVATE", id) :
            table' = validateAndActivate(table, r, id, e, q, plan, idem, d).table
    BY <1>4 DEF ValidateAndActivate
  <2> QED BY <1>0, <1>1, <2>1, OutcomesAreGood
<1>5. CASE Abort
  <2>1. PICK r \in Readings, id \in NamedIds, e \in 1..MaxEpoch, who \in Requesters :
          \E idem \in KeyChoice("ABORT", id) : table' = abort(table, r, id, e, who, idem).table
    BY <1>5 DEF Abort
  <2> QED BY <1>0, <1>1, <2>1, OutcomesAreGood
<1>6. CASE Renew
  <2>1. PICK r \in Readings, id \in NamedIds, e \in 1..MaxEpoch, who \in Requesters, x \in 0..MaxTime :
          \E idem \in KeyChoice("RENEW", id) : table' = renew(table, r, id, e, who, idem, x).table
    BY <1>6 DEF Renew
  <2> QED BY <1>0, <1>1, <2>1, OutcomesAreGood
<1>7. CASE Release
  <2>1. PICK r \in Readings, id \in NamedIds, e \in 1..MaxEpoch, who \in Requesters :
          \E idem \in KeyChoice("RELEASE", id) : table' = release(table, r, id, e, who, idem).table
    BY <1>7 DEF Release
  <2> QED BY <1>0, <1>1, <2>1, OutcomesAreGood
<1>8. CASE CleanupExpired
  BY <1>0, <1>8, CleanedBound DEF CleanupExpired
<1>9. CASE Restart
  BY <1>9 DEF Restart, NewTable, EpochBound
<1>10. CASE Tick \/ UNCHANGED vars
  BY <1>0, <1>10 DEF Tick, vars
<1> QED BY <1>2, <1>3, <1>4, <1>5, <1>6, <1>7, <1>8, <1>9, <1>10 DEF Next

\* A restarted provider refuses every operation that names an earlier epoch and changes
\* nothing but expired leases, whatever idempotency key the operation brings.
THEOREM OldEpochsHaveNoAuthority == Spec => []OldEpochHasNoAuthority
<1>1. EpochInv => OldEpochHasNoAuthority
  <2> SUFFICES ASSUME EpochInv, NEW e \in 1..MaxEpoch, e # table.epoch, NEW id \in NamedIds,
                      NEW who \in Requesters, NEW idem \in IdemKeys,
                      NEW x \in 0..MaxTime, NEW o \in Outcomes(id, e, who, idem, x)
               PROVE  ~o.reply.status /\ o.table = cleanupExpiredLocked(table, now)
    BY DEF OldEpochHasNoAuthority
  <2>1. TableTypeOK(table) /\ now \in Nat /\ EpochBound(table)
    BY DEF EpochInv, LeaseInv, TypeOK
  <2>2. GoodOutcome(cleanupExpiredLocked(table, now), e, o)
    BY <2>1, OutcomesAreGood DEF Outcomes
  <2> QED BY <2>1, <2>2, CleanedBound DEF GoodOutcome
<1> QED BY <1>1, EpochInvInit, EpochInvNext, PTL DEF Spec

\* A request is not kept waiting by nobody: when no unexpired lease holds its keys and no
\* live waiter is ahead of it, its PREPARE is granted, whatever is left in the queues.
THEOREM IdleCapacityIsAlwaysGranted == Spec => []IdleCapacityIsGranted
<1>1. LeaseInv => IdleCapacityIsGranted
  <2> SUFFICES ASSUME LeaseInv, NEW q \in Requests, NEW ks \in KeySets, NEW plan \in Plans, NEW idem \in IdemKeys,
                      NoKey \notin ks,
                      <<"PREPARE", idem>> \notin DOMAIN table.replays,
                      \A k \in ks : ~hasActiveConflictKey(cleanupExpiredLocked(table, now), k),
                      \A k \in ks, w \in Requests \ {q} :
                        LiveWaiter(w, k) => LiveWaiter(q, k) /\ <<q, w>> \in table.waiters[k]
               PROVE  prepare(table, now, q, plan, ks, now + 1, idem, NoLease).reply.status
    BY DEF IdleCapacityIsGranted
  <2> DEFINE p == Pruned(table, now)
             fp == <<q, plan, ks, now + 1>>
             a == Admit(Dequeue(p, q, ks), q, plan, ks, now + 1, idem, fp, NoLease)
  <2>0. TableTypeOK(table) /\ now \in Nat /\ ks \subseteq Keys
    BY ExecutionLeaseAssumption DEF LeaseInv, TypeOK
  <2>1. /\ p.leases = cleanupExpiredLocked(table, now).leases /\ p.replays = table.replays
        /\ \A k \in Keys : p.waiters[k] = Retain(table.waiters[k], Alive(table, now))
    BY <2>0, PrunedTable
  <2>2. replayOrConflict(p, "PREPARE", idem, fp) = "FRESH"
    BY <2>1, LeaseTableAssumption DEF replayOrConflict
  <2> HIDE DEF p
  <2>3. ~MustWait(p, q, ks)
    <3> SUFFICES ASSUME NEW k \in ks PROVE ~hasActiveConflictKey(p, k) /\ IsFront(p.waiters[k], q)
      BY DEF MustWait
    <3>1. ~hasActiveConflictKey(p, k)
      BY <2>1 DEF hasActiveConflictKey
    <3>2. ASSUME NEW v \in Members(p.waiters[k]) PROVE <<q, v>> \in p.waiters[k]
      <4>1. /\ v \in Requests /\ <<v, v>> \in p.waiters[k]
            /\ p.waiters[k] = Retain(table.waiters[k], Alive(table, now))
        BY <2>0, <2>1 DEF Members
      <4>2. v \in Alive(table, now) /\ <<v, v>> \in table.waiters[k]
        BY <4>1 DEF Retain
      <4>3. LiveWaiter(v, k)
        BY <4>1, <4>2 DEF LiveWaiter, Members, Alive
      <4>4. CASE v # q
        <5>1. q \in Alive(table, now) /\ <<q, v>> \in table.waiters[k]
          BY <4>1, <4>3, <4>4 DEF LiveWaiter, Alive
        <5> QED BY <4>1, <4>2, <5>1 DEF Retain
      <4> QED BY <4>1, <4>4
    <3> QED BY <3>1, <3>2 DEF IsFront
  <2>4. prepare(table, now, q, plan, ks, now + 1, idem, NoLease) = a
    <3>1. plan # NoPlan /\ ~(now + 1 <= now)
      BY <2>0, LeaseTableAssumption
    <3> HIDE DEF a, fp
    <3> QED BY <2>2, <2>3, <3>1 DEF prepare, p, Pruned, a, fp
  <2>5. a.reply.status
    BY DEF Admit, success
  <2> QED BY <2>4, <2>5
<1> QED BY <1>1, LeaseInvInit, LeaseInvNext, PTL DEF Spec

=============================================================================
