--------------------------- MODULE ExecutionLease ---------------------------
(***************************************************************************)
(* One provider's execution-lease table under concurrent callers: the      *)
(* lease service's handler threads, the execution handler that activates   *)
(* a lease, the periodic cleanup thread and provider restarts.  Calls are  *)
(* atomic (m_mutex), but a caller reads the clock before it takes the      *)
(* lock, so a call may run with a reading up to MaxLag ticks old.          *)
(***************************************************************************)
EXTENDS LeaseTable

CONSTANTS
  KeySets,      \* the conflict-key vectors the provider's resolver may issue
  KeyChoice(_, _),  \* KeyChoice(op, subject): idempotency keys callers use for op
  SuppliedIds,  \* lease ids a caller of the table may bring along
  MaxTime,      \* bound: last clock value
  MaxLag,       \* bound: how old a caller's clock reading may be
  MaxLeases,    \* bound: generated leases per epoch
  MaxEpoch      \* bound: provider starts

ASSUME ExecutionLeaseAssumption ==
  /\ \A ks \in KeySets : ks \subseteq Keys \cup {NoKey}
  /\ MaxTime \in Nat /\ MaxLag \in Nat /\ MaxLeases \in Nat /\ MaxEpoch \in Nat \ {0}
  /\ NoLease \notin SuppliedIds
  /\ SuppliedIds \cap (Nat \X Nat) = {}   \* not of the generated form

VARIABLES table, now

vars == <<table, now>>

LeaseIds == (Nat \X Nat) \cup SuppliedIds

\* What callers may name: ids generated so far in any epoch, and their own.
NamedIds == ((1..MaxEpoch) \X (1..MaxLeases)) \cup SuppliedIds

Readings == {r \in 0..now : now - r <= MaxLag}

Init == table = NewTable(1) /\ now = 0

-----------------------------------------------------------------------------
Prepare ==
  \E r \in Readings, q \in Requests, plan \in Plans \cup {NoPlan}, ks \in KeySets,
     expiresAt \in 0..MaxTime, wish \in {NoLease} \cup SuppliedIds :
    \E idem \in KeyChoice("PREPARE", q) :
      /\ wish = NoLease => table.next <= MaxLeases
      /\ table' = prepare(table, r, q, plan, ks, expiresAt, idem, wish).table
      /\ UNCHANGED now

Commit ==
  \E r \in Readings, id \in NamedIds, e \in 1..MaxEpoch, who \in Requesters :
    \E idem \in KeyChoice("COMMIT", id) :
      /\ table' = commit(table, r, id, e, who, idem).table
      /\ UNCHANGED now

ValidateAndActivate ==
  \E r \in Readings, id \in NamedIds, e \in 1..MaxEpoch, q \in Requests, plan \in Plans,
     deadline \in 0..MaxTime :
    \E idem \in KeyChoice("VALIDATE_AND_ACTIVATE", id) :
      /\ table' = validateAndActivate(table, r, id, e, q, plan, idem, deadline).table
      /\ UNCHANGED now

Abort ==
  \E r \in Readings, id \in NamedIds, e \in 1..MaxEpoch, who \in Requesters :
    \E idem \in KeyChoice("ABORT", id) :
      /\ table' = abort(table, r, id, e, who, idem).table
      /\ UNCHANGED now

Renew ==
  \E r \in Readings, id \in NamedIds, e \in 1..MaxEpoch, who \in Requesters,
     expiresAt \in 0..MaxTime :
    \E idem \in KeyChoice("RENEW", id) :
      /\ table' = renew(table, r, id, e, who, idem, expiresAt).table
      /\ UNCHANGED now

Release ==
  \E r \in Readings, id \in NamedIds, e \in 1..MaxEpoch, who \in Requesters :
    \E idem \in KeyChoice("RELEASE", id) :
      /\ table' = release(table, r, id, e, who, idem).table
      /\ UNCHANGED now

\* cleanupExpired, and the queries (validate, hasActiveConflictKey,
\* hasPinnedBindingProof, counters), which change nothing else.
CleanupExpired ==
  \E r \in Readings :
    /\ table' = cleanupExpiredLocked(table, r)
    /\ UNCHANGED now

\* The process dies and a new table is constructed under a new epoch.
Restart ==
  /\ table.epoch < MaxEpoch
  /\ table' = NewTable(table.epoch + 1)
  /\ UNCHANGED now

Tick ==
  /\ now < MaxTime
  /\ now' = now + 1
  /\ UNCHANGED table

Next ==
  \/ Prepare \/ Commit \/ ValidateAndActivate \/ Abort \/ Renew \/ Release
  \/ CleanupExpired \/ Restart \/ Tick

\* The cleanup thread and the clock never stop.
Fairness == WF_vars(Tick) /\ WF_vars(table' = cleanupExpiredLocked(table, now) /\ UNCHANGED now)

Spec == Init /\ [][Next]_vars /\ Fairness

-----------------------------------------------------------------------------
Leases == [req : Requests, plan : Plans, keys : SUBSET Keys, expiresAt : Nat,
           deadline : Nat, state : LeaseStates]

LeasesTypeOK(t) ==
  /\ DOMAIN t.leases \subseteq LeaseIds
  /\ \A i \in DOMAIN t.leases : t.leases[i] \in Leases

ReplaysTypeOK(t) ==
  \A x \in DOMAIN t.replays :
    /\ t.replays[x].id \in DOMAIN t.leases
    /\ t.replays[x].lease \in Leases

QueuesTypeOK(t) ==
  /\ t.waiters \in [Keys -> SUBSET (Requests \X Requests)]
  /\ t.waiterExp \in [Requests -> Nat]

TableTypeOK(t) ==
  /\ t = [epoch |-> t.epoch, next |-> t.next, leases |-> t.leases, replays |-> t.replays,
          waiters |-> t.waiters, waiterExp |-> t.waiterExp]
  /\ t.epoch \in Nat /\ t.next \in Nat
  /\ LeasesTypeOK(t) /\ ReplaysTypeOK(t) /\ QueuesTypeOK(t)

\* The table and the clock are well formed: leases, remembered results and waiter
\* queues have the types of ProviderExecutionLeaseTable's members, and every
\* remembered result names a lease that the table still stores.
TypeOK == now \in Nat /\ TableTypeOK(table)

Active(i) == i \in DOMAIN table.leases /\ isActive(table.leases[i].state)

Exclusive(t) ==
  \A i, j \in DOMAIN t.leases :
    isActive(t.leases[i].state) /\ isActive(t.leases[j].state) /\ i # j
      => t.leases[i].keys \cap t.leases[j].keys = {}

\* Two leases that hold capacity (PREPARED, COMMITTED, EXECUTING) never share a
\* conflict key: prepare's scan of m_leases and its waiting rule keep them apart
\* whatever the interleaving of renewals, expiry, replays and releases.
ConflictKeysExclusive == Exclusive(table)

Successors(state) ==
  CASE state = "Prepared"  -> {"Prepared", "Committed", "Aborted", "Expired"}
    [] state = "Committed" -> {"Committed", "Executing", "Aborted", "Released", "Expired"}
    [] state = "Executing" -> {"Executing", "Released", "Expired"}
    [] OTHER               -> {state}

LeaseAdvances(l, m) ==
  /\ m.state \in Successors(l.state)
  /\ m.req = l.req /\ m.plan = l.plan /\ m.keys = l.keys

Advances(t, u) ==
  \A i \in DOMAIN t.leases : i \in DOMAIN u.leases /\ LeaseAdvances(t.leases[i], u.leases[i])

\* Within an epoch a lease is never forgotten, changes hands or keys, or leaves a
\* terminal state: an aborted, released or expired lease cannot be revived by a
\* late, duplicated or replayed commit, activation, renewal or release.
LifecycleOrder == [][table'.epoch = table.epoch => Advances(table, table')]_vars

LiveWaiter(w, k) == w \in Members(table.waiters[k]) /\ table.waiterExp[w] > now

\* New leases of u on key k belong to requests not behind w in t's queue, and
\* nobody is ahead of w in u who was not ahead of w in t.
KeepsTurn(t, u, w, k) ==
  /\ \A i \in DOMAIN u.leases \ DOMAIN t.leases :
       k \in u.leases[i].keys => <<u.leases[i].req, w>> \in t.waiters[k]
  /\ \A v \in Requests : <<v, w>> \in u.waiters[k] => <<v, w>> \in t.waiters[k]

\* FIFO per conflict key: while a waiter's reservation is live, a key it waits for
\* is granted only to itself or to a request ahead of it, and nobody new gets
\* ahead of it (arrival order of capacity waiters, over several keys at once).
NoOvertaking ==
  [][table'.epoch = table.epoch =>
       \A k \in Keys, w \in Requests :
         LiveWaiter(w, k) => KeepsTurn(table, table', w, k)]_vars

\* Nobody waits for a ghost: if no unexpired lease holds any of the keys and every
\* live waiter on them is q or comes after a live q, then q's PREPARE under a new idempotency key
\* is granted, whatever expired or already granted waiters left in the queues.
IdleCapacityIsGranted ==
  \A q \in Requests, ks \in KeySets, plan \in Plans, idem \in IdemKeys :
    (/\ NoKey \notin ks
     /\ <<"PREPARE", idem>> \notin DOMAIN table.replays
     /\ \A k \in ks : ~hasActiveConflictKey(cleanupExpiredLocked(table, now), k)
     /\ \A k \in ks, w \in Requests \ {q} :
          LiveWaiter(w, k) => LiveWaiter(q, k) /\ <<q, w>> \in table.waiters[k])
    => prepare(table, now, q, plan, ks, now + 1, idem, NoLease).reply.status

\* Every outcome a caller may be given now for a lease id, epoch and key.
Outcomes(id, e, who, idem, expiresAt) ==
  {commit(table, now, id, e, who, idem), abort(table, now, id, e, who, idem),
   release(table, now, id, e, who, idem), renew(table, now, id, e, who, idem, expiresAt)}
  \cup {validateAndActivate(table, now, id, e, q, plan, idem, expiresAt) :
          q \in Requests, plan \in Plans}

\* A call that succeeds, replays of remembered results included, reports the state
\* the lease is in when the call returns: a duplicated request answered from
\* m_replays can never make its caller believe in a lease that is gone.
RepliesReportCurrentState ==
  \A id \in NamedIds, who \in Requesters, idem \in IdemKeys, x \in 0..MaxTime :
    \A o \in Outcomes(id, table.epoch, who, idem, x) :
      o.reply.status => /\ o.reply.id \in DOMAIN o.table.leases
                        /\ o.table.leases[o.reply.id].state = o.reply.state

\* A restarted provider refuses every operation that names an earlier epoch, so a
\* lease of the dead process authorises nothing (FR-004 of specs/085).
OldEpochHasNoAuthority ==
  \A e \in 1..MaxEpoch : e # table.epoch =>
    \A id \in NamedIds, who \in Requesters, idem \in IdemKeys, x \in 0..MaxTime :
      \A o \in Outcomes(id, e, who, idem, x) :
        ~o.reply.status /\ o.table = cleanupExpiredLocked(table, now)

\* Capacity is always handed back: every lease stops being active, even when its
\* owner's ABORT or RELEASE is lost or its execution never ends (TTL, hard deadline).
CapacityIsReclaimed == \A i \in NamedIds : Active(i) ~> ~Active(i)
=============================================================================
