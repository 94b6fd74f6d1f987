----------------------------- MODULE LeaseTable -----------------------------
(***************************************************************************)
(* ProviderExecutionLeaseTable (ndn-service-framework/ExecutionLease.cpp)  *)
(* as pure operators on a table record.  The C++ class serialises every    *)
(* member function with m_mutex, so one call is one atomic transformation: *)
(* an operator takes the table, the caller's clock reading and the call's  *)
(* arguments and yields an outcome [table, reply].                         *)
(*                                                                         *)
(* Data abstraction: a request stands for the triple (requesterName,       *)
(* requestId, serviceName), which is also the waiter key; a plan stands    *)
(* for planDigest, binding schema and binding proof; a fingerprint is the  *)
(* tuple of the values the code joins into a string.  A refused reply      *)
(* carries its reason only.                                                *)
(***************************************************************************)
EXTENDS Naturals

CONSTANTS
  Requesters,   \* authenticated identities
  Requests,     \* requester x requestId x service
  Owner,        \* Owner[q] is the requester of request q
  Plans,        \* plan digest with its resource binding
  NoPlan,       \* a request that leaves a required field empty
  Keys,         \* conflict keys issued by the provider
  NoKey,        \* the empty conflict key
  IdemKeys,     \* idempotency keys
  NoIdem,       \* the empty idempotency key
  NoLease       \* the empty lease id

ASSUME LeaseTableAssumption ==
  /\ Owner \in [Requests -> Requesters]
  /\ NoPlan \notin Plans
  /\ NoKey \notin Keys
  /\ NoIdem \notin IdemKeys

LeaseStates == {"Prepared", "Committed", "Executing", "Aborted", "Released", "Expired"}

\* A table that has just been constructed; a restarted provider has a new epoch.
NewTable(epoch) ==
  [epoch     |-> epoch,
   next      |-> 1,
   leases    |-> [i \in {} |-> 0],
   replays   |-> [i \in {} |-> 0],
   waiters   |-> [k \in Keys |-> {}],
   waiterExp |-> [q \in Requests |-> 0]]

-----------------------------------------------------------------------------
(* Functions as maps: emplace keeps an existing entry, assign replaces it. *)

Assign(f, i, x) == [j \in DOMAIN f \cup {i} |-> IF j = i THEN x ELSE f[j]]

Emplace(f, i, x) == IF i \in DOMAIN f THEN f ELSE Assign(f, i, x)

(***************************************************************************)
(* The deque of one conflict key holds no request twice.  It is the total  *)
(* order of its members: <<v, w>> \in queue iff v = w or v is ahead of w.  *)
(* m_waiterExpiresAt has no entry where waiterExp is 0.                    *)
(***************************************************************************)
Members(queue) == {w \in Requests : <<w, w>> \in queue}

PushBack(queue, w) ==
  IF w \in Members(queue) THEN queue
  ELSE queue \cup {<<w, w>>} \cup (Members(queue) \X {w})

Retain(queue, S) == {p \in queue : p[1] \in S /\ p[2] \in S}

IsFront(queue, w) == \A v \in Members(queue) : <<w, v>> \in queue

-----------------------------------------------------------------------------
isActive(state) == state \in {"Prepared", "Committed", "Executing"}

\* Fault: an executing lease has no backstop.
TimedOut_NoHardDeadline(lease, now) ==
  lease.state \in {"Prepared", "Committed"} /\ lease.expiresAt # 0 /\ now >= lease.expiresAt

TimedOut(lease, now) ==
  /\ isActive(lease.state)
  /\ IF lease.state = "Executing"
     THEN lease.deadline # 0 /\ now >= lease.deadline
     ELSE lease.expiresAt # 0 /\ now >= lease.expiresAt

expireIfNeeded(lease, now) ==
  IF TimedOut(lease, now) THEN [lease EXCEPT !.state = "Expired"] ELSE lease

\* Run first by every operation of the table.
cleanupExpiredLocked(t, now) ==
  [t EXCEPT !.leases = [i \in DOMAIN t.leases |-> expireIfNeeded(t.leases[i], now)]]

WithQueues(t, waiters, waiterExp) == [t EXCEPT !.waiters = waiters, !.waiterExp = waiterExp]

\* Fault: expired waiters are forgotten but stay in the deques.
pruneWaiters_KeepsGhosts(t, now) ==
  [t EXCEPT !.waiterExp = [w \in Requests |-> IF t.waiterExp[w] > now THEN t.waiterExp[w] ELSE 0]]

pruneWaiters(t, now) ==
  LET alive == {w \in Requests : t.waiterExp[w] > now}
  IN  WithQueues(t, [k \in Keys |-> Retain(t.waiters[k], alive)],
                    [w \in Requests |-> IF w \in alive THEN t.waiterExp[w] ELSE 0])

hasActiveConflictKey(t, key) ==
  \E i \in DOMAIN t.leases : isActive(t.leases[i].state) /\ key \in t.leases[i].keys

-----------------------------------------------------------------------------
reject(t, reason) ==
  [table |-> t,
   reply |-> [status |-> FALSE, reason |-> reason, id |-> NoLease, state |-> "None",
              expiresAt |-> 0, epoch |-> 0, replay |-> FALSE]]

success(t, id, lease, replay) ==
  [table |-> t,
   reply |-> [status |-> TRUE, reason |-> "OK", id |-> id, state |-> lease.state,
              expiresAt |-> lease.expiresAt, epoch |-> t.epoch, replay |-> replay]]

\* Fault: a remembered result is returned whatever became of the lease.
replayOrConflict_TrustsRecord(t, op, idem, fingerprint) ==
  IF idem = NoIdem THEN "LEASE_IDEMPOTENCY_CONFLICT"
  ELSE IF <<op, idem>> \notin DOMAIN t.replays THEN "FRESH"
  ELSE IF t.replays[<<op, idem>>].fingerprint # fingerprint THEN "LEASE_IDEMPOTENCY_CONFLICT"
  ELSE "OK"

\* "FRESH" when the key is new, "OK" for a replay, otherwise the rejection.
replayOrConflict(t, op, idem, fingerprint) ==
  IF idem = NoIdem THEN "LEASE_IDEMPOTENCY_CONFLICT"
  ELSE IF <<op, idem>> \notin DOMAIN t.replays THEN "FRESH"
  ELSE LET past == t.replays[<<op, idem>>] IN
       IF past.fingerprint # fingerprint THEN "LEASE_IDEMPOTENCY_CONFLICT"
       ELSE IF past.id \notin DOMAIN t.leases THEN "LEASE_NOT_FOUND"
       ELSE LET current == t.leases[past.id].state IN
            IF current = past.lease.state THEN "OK"
            ELSE IF current = "Expired" THEN "LEASE_EXPIRED"
            ELSE "LEASE_INVALID_TRANSITION"

\* The recorded result, exactly as it was when it was remembered.
replayed(t, op, idem) ==
  LET past == t.replays[<<op, idem>>] IN success(t, past.id, past.lease, TRUE)

rememberReplay(t, op, idem, fingerprint, id, lease) ==
  [t EXCEPT !.replays = Assign(t.replays, <<op, idem>>,
     [fingerprint |-> fingerprint, id |-> id, lease |-> lease])]

\* Fault: the epoch of the call is not compared.
OnLease_NoEpochCheck(t, op, idem, fingerprint, epoch, id, why, updated, replay) ==
  LET verdict == replayOrConflict(t, op, idem, fingerprint) IN
  IF verdict = "OK" THEN replayed(t, op, idem)
  ELSE IF verdict # "FRESH" THEN reject(t, verdict)
  ELSE IF id \notin DOMAIN t.leases THEN reject(t, "LEASE_NOT_FOUND")
  ELSE IF why # "OK" THEN reject(t, why)
  ELSE success(rememberReplay([t EXCEPT !.leases[id] = updated],
                              op, idem, fingerprint, id, updated),
               id, updated, replay)

(***************************************************************************)
(* The common course of the operations that name a lease: replay, epoch,   *)
(* lookup, the operation's own refusal `why', then the updated lease.      *)
(***************************************************************************)
OnLease(t, op, idem, fingerprint, epoch, id, why, updated, replay) ==
  LET verdict == replayOrConflict(t, op, idem, fingerprint) IN
  IF verdict = "OK" THEN replayed(t, op, idem)
  ELSE IF verdict # "FRESH" THEN reject(t, verdict)
  ELSE IF epoch # t.epoch THEN reject(t, "LEASE_STALE_EPOCH")
  ELSE IF id \notin DOMAIN t.leases THEN reject(t, "LEASE_NOT_FOUND")
  ELSE IF why # "OK" THEN reject(t, why)
  ELSE success(rememberReplay([t EXCEPT !.leases[id] = updated],
                              op, idem, fingerprint, id, updated),
               id, updated, replay)

-----------------------------------------------------------------------------
\* Faults: only the queues, or only the holders, make a request wait.
MustWait_IgnoresHolders(t, q, ks) ==
  \E k \in ks : Members(t.waiters[k]) # {} /\ ~IsFront(t.waiters[k], q)

MustWait_IgnoresQueue(t, q, ks) == \E k \in ks : hasActiveConflictKey(t, k)

MustWait(t, q, ks) ==
  \E k \in ks : hasActiveConflictKey(t, k)
                \/ (Members(t.waiters[k]) # {} /\ ~IsFront(t.waiters[k], q))

Enqueue(t, q, ks, expiresAt) ==
  WithQueues(t, [k \in Keys |-> IF k \in ks THEN PushBack(t.waiters[k], q) ELSE t.waiters[k]],
                [t.waiterExp EXCEPT ![q] = expiresAt])

Dequeue(t, q, ks) ==
  WithQueues(t, [k \in Keys |-> IF k \in ks THEN Retain(t.waiters[k], Requests \ {q})
                               ELSE t.waiters[k]],
                [t.waiterExp EXCEPT ![q] = 0])

WithLeases(t, next, leases) == [t EXCEPT !.next = next, !.leases = leases]

\* Fault: the lease is announced and remembered but not stored.
Admit_NotStored(t, q, plan, ks, expiresAt, idem, fingerprint, wish) ==
  LET lease == [req |-> q, plan |-> plan, keys |-> ks, expiresAt |-> expiresAt,
                deadline |-> 0, state |-> "Prepared"]
      id    == <<t.epoch, t.next>>
  IN success(rememberReplay(t, "PREPARE", idem, fingerprint, id, lease), id, lease, FALSE)

\* `wish' is the lease id of the argument: NoLease asks for a generated one.
Admit(t, q, plan, ks, expiresAt, idem, fingerprint, wish) ==
  LET lease == [req |-> q, plan |-> plan, keys |-> ks, expiresAt |-> expiresAt,
                deadline |-> 0, state |-> "Prepared"]
      id    == IF wish = NoLease THEN <<t.epoch, t.next>> ELSE wish
      made  == WithLeases(t, IF wish = NoLease THEN t.next + 1 ELSE t.next,
                             Emplace(t.leases, id, lease))
  IN IF wish # NoLease /\ wish \in DOMAIN t.leases
     THEN reject(t, "LEASE_IDEMPOTENCY_CONFLICT")
     ELSE success(rememberReplay(made, "PREPARE", idem, fingerprint, id, lease),
                  id, lease, FALSE)

prepare(t0, now, q, plan, ks, expiresAt, idem, wish) ==
  LET t           == pruneWaiters(cleanupExpiredLocked(t0, now), now)
      fingerprint == <<q, plan, ks, expiresAt>>
      verdict     == replayOrConflict(t, "PREPARE", idem, fingerprint)
  IN IF verdict = "OK" THEN replayed(t, "PREPARE", idem)
     ELSE IF verdict # "FRESH" THEN reject(t, verdict)
     ELSE IF plan = NoPlan \/ expiresAt <= now THEN reject(t, "LEASE_UNAVAILABLE")
     ELSE IF NoKey \in ks THEN reject(t, "LEASE_CAPACITY_REJECTED")
     ELSE IF MustWait(t, q, ks)
     THEN reject(Enqueue(t, q, ks, expiresAt), "LEASE_CAPACITY_REJECTED")
     ELSE Admit(Dequeue(t, q, ks), q, plan, ks, expiresAt, idem, fingerprint, wish)

\* Fault: only expiry and ownership are checked, not the source state.
commit_AnyState(t0, now, id, epoch, who, idem) ==
  LET t == cleanupExpiredLocked(t0, now)
      l == t.leases[id]
  IN OnLease(t, "COMMIT", idem, <<id, epoch, who>>, epoch, id,
       IF l.state = "Expired" THEN "LEASE_EXPIRED"
       ELSE IF Owner[l.req] # who THEN "LEASE_REQUESTER_MISMATCH" ELSE "OK",
       [l EXCEPT !.state = "Committed"], FALSE)

commit(t0, now, id, epoch, who, idem) ==
  LET t == cleanupExpiredLocked(t0, now)
      l == t.leases[id]
  IN OnLease(t, "COMMIT", idem, <<id, epoch, who>>, epoch, id,
       IF l.state = "Expired" THEN "LEASE_EXPIRED"
       ELSE IF Owner[l.req] # who THEN "LEASE_REQUESTER_MISMATCH"
       ELSE IF l.state # "Prepared" THEN "LEASE_INVALID_TRANSITION"
       ELSE "OK",
       [l EXCEPT !.state = "Committed"], FALSE)

bindingMatches(l, q, plan) == l.req = q /\ l.plan = plan

ActivationRefusal(l, q, plan) ==
  IF l.state = "Expired" THEN "LEASE_EXPIRED"
  ELSE IF l.state # "Committed" THEN "LEASE_INVALID_TRANSITION"
  ELSE IF ~bindingMatches(l, q, plan) THEN "LEASE_BINDING_MISMATCH"
  ELSE "OK"

validateAndActivate(t0, now, id, epoch, q, plan, idem, deadline) ==
  LET t == cleanupExpiredLocked(t0, now)
      l == t.leases[id]
      r == ActivationRefusal(l, q, plan)
  IN OnLease(t, "VALIDATE_AND_ACTIVATE", idem, <<id, epoch, deadline, q, plan>>, epoch, id,
       IF r = "OK" /\ deadline <= now THEN "LEASE_EXPIRED" ELSE r,
       [l EXCEPT !.state = "Executing", !.deadline = deadline], FALSE)

\* Read-only but for the cleanup; it has no idempotency key.
validate(t0, now, id, epoch, q, plan) ==
  LET t == cleanupExpiredLocked(t0, now) IN
  IF epoch # t.epoch THEN reject(t, "LEASE_STALE_EPOCH")
  ELSE IF id \notin DOMAIN t.leases THEN reject(t, "LEASE_NOT_FOUND")
  ELSE LET r == ActivationRefusal(t.leases[id], q, plan) IN
       IF r # "OK" THEN reject(t, r) ELSE success(t, id, t.leases[id], FALSE)

abort(t0, now, id, epoch, who, idem) ==
  LET t == cleanupExpiredLocked(t0, now)
      l == t.leases[id]
  IN OnLease(t, "ABORT", idem, <<id, epoch, who>>, epoch, id,
       IF Owner[l.req] # who THEN "LEASE_REQUESTER_MISMATCH"
       ELSE IF l.state \notin {"Prepared", "Committed"} THEN "LEASE_INVALID_TRANSITION"
       ELSE "OK",
       [l EXCEPT !.state = "Aborted"], FALSE)

renew(t0, now, id, epoch, who, idem, expiresAt) ==
  LET t == cleanupExpiredLocked(t0, now)
      l == t.leases[id]
  IN OnLease(t, "RENEW", idem, <<id, epoch, expiresAt, who>>, epoch, id,
       IF Owner[l.req] # who THEN "LEASE_REQUESTER_MISMATCH"
       ELSE IF l.state = "Expired" THEN "LEASE_EXPIRED"
       ELSE IF ~isActive(l.state) THEN "LEASE_INVALID_TRANSITION"
       ELSE IF \/ expiresAt <= now
               \/ l.state = "Executing" /\ l.deadline # 0 /\ expiresAt > l.deadline
       THEN "LEASE_EXPIRED" ELSE "OK",
       [l EXCEPT !.expiresAt = expiresAt], FALSE)

\* Releasing a released lease succeeds again and is reported as a replay.
release(t0, now, id, epoch, who, idem) ==
  LET t == cleanupExpiredLocked(t0, now)
      l == t.leases[id]
  IN OnLease(t, "RELEASE", idem, <<id, epoch, who>>, epoch, id,
       IF Owner[l.req] # who THEN "LEASE_REQUESTER_MISMATCH"
       ELSE IF l.state \notin {"Released", "Committed", "Executing"}
       THEN "LEASE_INVALID_TRANSITION" ELSE "OK",
       [l EXCEPT !.state = "Released"], l.state = "Released")
=============================================================================
