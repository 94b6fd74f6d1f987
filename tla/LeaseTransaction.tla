-------------------------- MODULE LeaseTransaction --------------------------
(***************************************************************************)
(* DistributedLeaseTransaction: a user's prepare-all / commit-all over the *)
(* lease tables of several providers, and the provider handlers that       *)
(* activate and complete the committed leases.  Each provider runs the     *)
(* table of module LeaseTable behind ExecutionLeaseService.                *)
(*                                                                         *)
(* A call is synchronous for the user and retried by its transport, so     *)
(* copies of a request may be delayed past the call, handled more than     *)
(* once or never, and a reply may be lost.  Every provider has one         *)
(* exclusive slot: the resolver gives all requests the same conflict keys. *)
(***************************************************************************)
EXTENDS LeaseTable, Sequences, FiniteSets

CONSTANTS
  Providers,       \* provider identities
  Assignment,      \* Assignment[q]: q's providers, in the order of `assignments'
  Roles,           \* roles that each assigned provider runs
  Plan,            \* the plan digest and binding of every request
  CapacityWait,    \* capacity_wait_ms, in ticks
  ReservationTtl,  \* reservation_ttl_ms, in ticks
  HardDeadline,    \* executionLeaseHardDeadlineMs, in ticks
  Revalidation,    \* TRUE: acquire() is given feasibility requirements
  Prompt,          \* TRUE: calls and executions are short against a tick
  MaxStart,        \* bound: requests start until this time
  MaxTime,         \* bound: the clock
  MaxFaults,       \* bound: calls lost, delayed past their timeout, or duplicated
  MaxBoots         \* bound: starts per provider

ASSUME LeaseTransactionAssumption ==
  /\ Assignment \in [Requests -> Seq(Providers)]
  /\ \A q \in Requests : Len(Assignment[q]) > 0 /\ \A i, j \in DOMAIN Assignment[q] :
       i # j => Assignment[q][i] # Assignment[q][j]
  /\ Plan \in Plans
  /\ ReservationTtl \in Nat \ {0} /\ HardDeadline \in Nat \ {0}
  /\ MaxStart \in Nat /\ CapacityWait \in Nat /\ MaxTime \in Nat
  /\ MaxStart + CapacityWait <= MaxTime
  /\ NoIdem \notin {"ABORT", "RELEASE"} \X Requests \X ((Providers \X Nat) \X Nat)

VARIABLES
  now,      \* the clock, in ticks
  tables,   \* each provider's lease table
  txn,      \* each request's position in acquire(), execute() and release()
  calls,    \* requests under way
  roles,    \* roles[q][p]: roles by state, in p's collaboration handler
  faults,   \* faults so far
  granted   \* history: <<request, lease id>> of every COMMIT a provider granted

vars == <<now, tables, txn, calls, roles, faults, granted>>

NoCall == [op |-> "none"]
NoReply == [reason |-> "none"]

Start == [pc |-> "idle", attempt |-> 0, deadline |-> 0, exp |-> 0, prepared |-> <<>>,
          committed |-> 0, next |-> 1, retry |-> FALSE, call |-> NoCall, reply |-> NoReply]

Init ==
  /\ now = 0
  /\ tables = [p \in Providers |-> NewTable(<<p, 1>>)]
  /\ txn = [q \in Requests |-> Start]
  /\ calls = {}
  /\ roles = [q \in Requests |-> [p \in Providers |-> [r \in Roles |-> "waiting"]]]
  /\ faults = 0 /\ granted = {}

user == <<txn, calls, faults>>
provider == <<tables, roles, granted>>

-----------------------------------------------------------------------------
(* The user.                                                               *)

Fault == faults < MaxFaults /\ faults' = faults + 1

\* Faults here and below: operators named after the definition they falsify.
Attempt_KeepsPrepared(x) ==
  [x EXCEPT !.pc = "preparing", !.attempt = @ + 1, !.exp = now + ReservationTtl,
            !.committed = 0, !.next = 1]

Attempt(x) ==
  [x EXCEPT !.pc = "preparing", !.attempt = @ + 1, !.exp = now + ReservationTtl,
            !.prepared = <<>>, !.committed = 0, !.next = 1]

\* acquire() begins.
Begin(q) ==
  /\ txn[q].pc = "idle" /\ now <= MaxStart
  /\ txn' = [txn EXCEPT ![q] = Attempt([@ EXCEPT !.deadline = now + CapacityWait])]
  /\ UNCHANGED <<now, calls, faults, provider>>

cleanupOperation_ReleaseAll(x) == "RELEASE"

cleanupOperation(x) == IF x.next <= x.committed THEN "RELEASE" ELSE "ABORT"

\* The call that q makes next; tag discriminates the idempotency key.
Call(q) ==
  LET x == txn[q]
      l == x.prepared[x.next]
      Named(op) == [op |-> op, q |-> q, p |-> l.p, id |-> l.id, epoch |-> l.epoch,
                    exp |-> 0, tag |-> l.id]
  IN CASE x.pc = "preparing"  -> [op |-> "PREPARE", q |-> q, p |-> Assignment[q][x.next],
                                  id |-> NoLease, epoch |-> NoLease, exp |-> x.exp,
                                  tag |-> x.attempt]
       [] x.pc = "committing" -> Named("COMMIT")
       [] x.pc = "cleaning"   -> Named(cleanupOperation(x))
       [] x.pc = "releasing"  -> Named("RELEASE")

HasNext(x) ==
  \/ x.pc \in {"preparing", "committing"}
  \/ x.pc \in {"cleaning", "releasing"} /\ x.next <= Len(x.prepared)

Send(q) ==
  /\ HasNext(txn[q]) /\ txn[q].call = NoCall
  /\ calls' = calls \cup {Call(q)}
  /\ txn' = [txn EXCEPT ![q].call = Call(q)]
  /\ UNCHANGED <<now, faults, provider>>

\* The except clause of _acquire_once.
Clean(x, retry) == [x EXCEPT !.pc = "cleaning", !.next = 1, !.retry = retry]

Step(x) == [x EXCEPT !.next = @ + 1]

OnPrepared(x, q) ==
  IF ~x.reply.status THEN Clean(x, x.reply.reason = "LEASE_CAPACITY_REJECTED")
  ELSE LET y == [x EXCEPT !.prepared = Append(@, [p |-> x.call.p, id |-> x.reply.id,
                                                  epoch |-> x.reply.epoch])]
       IN IF x.next < Len(Assignment[q]) THEN Step(y)
          ELSE [y EXCEPT !.pc = "committing", !.next = 1]

OnCommitted_StatusUnchecked(x) ==
  LET y == [x EXCEPT !.committed = @ + 1] IN
  IF x.next < Len(x.prepared) THEN Step(y) ELSE [y EXCEPT !.pc = "executing"]

OnCommitted(x) ==
  IF ~x.reply.status THEN Clean(x, x.reply.reason = "LEASE_CAPACITY_REJECTED")
  ELSE LET y == [x EXCEPT !.committed = @ + 1]
       IN IF x.next < Len(x.prepared) THEN Step(y) ELSE [y EXCEPT !.pc = "executing"]

Answered(x) == [x EXCEPT !.call = NoCall, !.reply = NoReply]

OnReply(q) ==
  LET x == txn[q] IN
  /\ x.reply # NoReply
  /\ txn' = [txn EXCEPT ![q] = Answered(CASE x.pc = "preparing"  -> OnPrepared(x, q)
                                          [] x.pc = "committing" -> OnCommitted(x)
                                          [] OTHER               -> Step(x))]
  /\ UNCHANGED <<now, calls, faults, provider>>

\* The transport gives up: acquire() raises after its cleanup; cleanup and
\* release are best effort and go on.
OnCallFailed(x) == IF x.pc \in {"preparing", "committing"} THEN Clean(x, FALSE) ELSE Step(x)

\* The copy that is still under way, if any, may be handled later or never.
CallTimeout(q) ==
  /\ txn[q].call # NoCall /\ txn[q].reply = NoReply
  /\ IF txn[q].call \in calls THEN Fault ELSE UNCHANGED faults
  /\ txn' = [txn EXCEPT ![q] = Answered(OnCallFailed(txn[q]))]
  /\ UNCHANGED <<now, calls, provider>>

\* evaluate_plan_feasibility does not say "reuse".
RevalidationFails(q) ==
  /\ Revalidation /\ txn[q].pc = "committing" /\ txn[q].call = NoCall
  /\ txn' = [txn EXCEPT ![q] = Clean(@, FALSE)]
  /\ UNCHANGED <<now, calls, faults, provider>>

EndCleanup_NoDeadline(q) ==
  /\ txn[q].pc = "cleaning" /\ ~HasNext(txn[q]) /\ txn[q].call = NoCall
  /\ txn' = [txn EXCEPT ![q].pc = IF txn[q].retry THEN "sleeping" ELSE "failed",
                        ![q].next = now + 1]
  /\ UNCHANGED <<now, calls, faults, provider>>

\* After the cleanup acquire() raises, or sleeps and tries again.
EndCleanup(q) ==
  /\ txn[q].pc = "cleaning" /\ ~HasNext(txn[q]) /\ txn[q].call = NoCall
  /\ txn' = [txn EXCEPT ![q].pc = IF txn[q].retry /\ now < txn[q].deadline
                                  THEN "sleeping" ELSE "failed",
                        ![q].next = now + 1]
  /\ UNCHANGED <<now, calls, faults, provider>>

Retry(q) ==
  /\ txn[q].pc = "sleeping" /\ now >= txn[q].next
  /\ txn' = [txn EXCEPT ![q] = Attempt(@)]
  /\ UNCHANGED <<now, calls, faults, provider>>

\* execute() returns or raises, also while roles still run.
EndExecution(q) ==
  /\ txn[q].pc = "executing"
  /\ Prompt => \A i \in DOMAIN Assignment[q], r \in Roles :
                 roles[q][Assignment[q][i]][r] \in {"done", "refused"}
  /\ txn' = [txn EXCEPT ![q].pc = "releasing", ![q].next = 1]
  /\ UNCHANGED <<now, calls, faults, provider>>

EndRelease(q) ==
  /\ txn[q].pc = "releasing" /\ ~HasNext(txn[q]) /\ txn[q].call = NoCall
  /\ txn' = [txn EXCEPT ![q].pc = "done"]
  /\ UNCHANGED <<now, calls, faults, provider>>

-----------------------------------------------------------------------------
(* The providers.                                                          *)

\* ExecutionLeaseService::handle on a decoded and authenticated request.
handle(t, m) ==
  LET idem == <<m.op, m.q, m.tag>>
      who  == Owner[m.q]
  IN CASE m.op = "PREPARE" -> prepare(t, now, m.q, Plan, Keys, m.exp, idem, NoLease)
       [] m.op = "COMMIT"  -> commit(t, now, m.id, m.epoch, who, idem)
       [] m.op = "ABORT"   -> abort(t, now, m.id, m.epoch, who, idem)
       [] m.op = "RELEASE" -> release(t, now, m.id, m.epoch, who, idem)

Awaits(m) == txn[m.q].call = m /\ txn[m.q].reply = NoReply

Handle(m) ==
  LET o == handle(tables[m.p], m) IN
  /\ tables' = [tables EXCEPT ![m.p] = o.table]
  /\ granted' = IF m.op = "COMMIT" /\ o.reply.status
                THEN granted \cup {<<m.q, m.id>>} ELSE granted
  /\ \/ /\ calls' = calls \ {m}
        /\ txn' = IF Awaits(m) THEN [txn EXCEPT ![m.q].reply = o.reply] ELSE txn
        /\ UNCHANGED faults
     \/ /\ Fault   \* another copy of the request follows
        /\ txn' = IF Awaits(m) THEN [txn EXCEPT ![m.q].reply = o.reply] ELSE txn
        /\ UNCHANGED calls
     \/ /\ Fault /\ Awaits(m)   \* the reply is lost
        /\ calls' = calls \ {m}
        /\ UNCHANGED txn
  /\ UNCHANGED <<now, roles>>

LeaseOf(q, p) == CHOOSE l \in {txn[q].prepared[i] : i \in DOMAIN txn[q].prepared} : l.p = p
AssignedTo(q, p) == \E i \in DOMAIN Assignment[q] : Assignment[q][i] = p

\* The collaboration handler starts role r: it activates the lease.
StartRole(q, p, r) ==
  LET l == LeaseOf(q, p)
      o == validateAndActivate(tables[p], now, l.id, l.epoch, q, Plan, <<"activate", q>>,
                               now + HardDeadline)
  IN
  /\ txn[q].pc \in {"executing", "releasing", "done"} /\ AssignedTo(q, p)
  /\ roles[q][p][r] = "waiting"
  /\ tables' = [tables EXCEPT ![p] = o.table]
  /\ roles' = [roles EXCEPT ![q][p][r] = IF o.reply.status THEN "running" ELSE "refused"]
  /\ UNCHANGED <<now, user, granted>>

\* completeExecutionLease: the last role of the provider releases the lease.
EndRole(q, p, r) ==
  LET l    == LeaseOf(q, p)
      done == {s \in Roles : roles[q][p][s] = "done"} \cup {r}
  IN
  /\ roles[q][p][r] = "running"
  /\ roles' = [roles EXCEPT ![q][p][r] = "done"]
  /\ tables' = [tables EXCEPT ![p] =
       IF done = Roles
       THEN release(@, now, l.id, l.epoch, Owner[q], <<"provider-complete", l.id>>).table
       ELSE @]
  /\ UNCHANGED <<now, user, granted>>

\* A provider process dies and comes back with an empty table and a new epoch.
Restart(p) ==
  /\ tables[p].epoch[2] < MaxBoots
  /\ tables' = [tables EXCEPT ![p] = NewTable(<<p, @.epoch[2] + 1>>)]
  /\ roles' = [q \in Requests |-> [roles[q] EXCEPT ![p] =
                 [r \in Roles |-> IF roles[q][p][r] = "running" THEN "refused" ELSE roles[q][p][r]]]]
  /\ UNCHANGED <<now, user, granted>>

Settled(q) ==
  \/ txn[q].pc \in {"idle", "done", "failed"}
  \/ txn[q].pc = "sleeping" /\ now < txn[q].next

Tick ==
  /\ now < MaxTime
  /\ Prompt => \A q \in Requests : Settled(q)
  /\ now' = now + 1
  /\ UNCHANGED <<user, provider>>

userStep(q) ==
  \/ Begin(q) \/ Send(q) \/ OnReply(q) \/ CallTimeout(q) \/ RevalidationFails(q)
  \/ EndCleanup(q) \/ Retry(q) \/ EndExecution(q) \/ EndRelease(q)

Next ==
  \/ \E q \in Requests : userStep(q)
  \/ \E m \in calls : Handle(m)
  \/ \E q \in Requests, p \in Providers, r \in Roles : StartRole(q, p, r) \/ EndRole(q, p, r)
  \/ \E p \in Providers : Restart(p)
  \/ Tick

\* Steps that q's thread takes by itself; a call ends with its reply or with
\* the transport's timeout.
runs(q) ==
  \/ Send(q) \/ OnReply(q) \/ CallTimeout(q) \/ EndCleanup(q) \/ Retry(q)
  \/ EndExecution(q) \/ EndRelease(q)

\* Time passes and users' threads run; a call that its transport does not give
\* up is handled, and assigned roles start and end.
Fairness ==
  /\ WF_vars(Tick) /\ \A q \in Requests : WF_vars(runs(q))
  /\ \A q \in Requests : WF_vars(txn[q].call \in calls /\ Handle(txn[q].call))
  /\ WF_vars(\E q \in Requests, p \in Providers, r \in Roles : StartRole(q, p, r) \/ EndRole(q, p, r))

Spec == Init /\ [][Next]_vars /\ Fairness

-----------------------------------------------------------------------------
Positions == {"idle", "preparing", "committing", "executing", "cleaning", "sleeping",
              "releasing", "done", "failed"}

\* Transactions and roles have the states of the code, a user has at most one
\* call under way that it still waits for, and it committed only what it prepared.
TypeOK ==
  /\ now \in 0..MaxTime
  /\ \A q \in Requests :
       /\ txn[q].pc \in Positions
       /\ txn[q].committed <= Len(txn[q].prepared)
       /\ Len(txn[q].prepared) <= Len(Assignment[q])
       /\ txn[q].reply # NoReply => txn[q].call # NoCall
  /\ \A m \in calls : m.p \in Providers /\ m.q \in Requests
  /\ \A q \in Requests, p \in Providers, r \in Roles :
       roles[q][p][r] \in {"waiting", "running", "done", "refused"}

ActiveLease(q, p) ==
  \E i \in DOMAIN tables[p].leases : LET l == tables[p].leases[i] IN l.req = q /\ isActive(l.state)

Executing(q, p) ==
  \E i \in DOMAIN tables[p].leases :
    tables[p].leases[i].req = q /\ tables[p].leases[i].state = "Executing"

\* A partial commit is never executable (FR-005 and FR-006 of specs/085): if one
\* provider executes q, every provider of q granted the COMMIT of the lease that
\* q holds there, over lost, late and duplicated calls, expiry and restarts.
PartialCommitNeverExecutes ==
  \A q \in Requests, p \in Providers :
    Executing(q, p) => /\ Len(txn[q].prepared) = Len(Assignment[q])
                       /\ \A i \in DOMAIN txn[q].prepared : <<q, txn[q].prepared[i].id>> \in granted

\* When calls get through, a transaction that ended, whether it failed half-way,
\* was retried, or executed, holds no provider's capacity any more.
NothingLeftBehind ==
  faults = 0 =>
    \A q \in Requests, p \in Providers : txn[q].pc \in {"done", "failed"} => ~ActiveLease(q, p)

\* No global deadlock (FR-008 of specs/087): every transaction ends, although
\* users that name the same providers in different orders wait for each other.
TransactionEnds == \A q \in Requests : (txn[q].pc # "idle") ~> (txn[q].pc \in {"done", "failed"})
=============================================================================
