----------------------- MODULE LeaseTransactionProofs -----------------------
(***************************************************************************)
(* Proofs about DistributedLeaseTransaction: for any number of users,      *)
(* providers and roles, and over lost, late and duplicated calls, expiry   *)
(* and restarts, a partial commit is never executed.                       *)
(***************************************************************************)
EXTENDS LeaseTransaction, SequenceTheorems, TLAPS

Epochs == Providers \X Nat
Ids    == Epochs \X Nat
Held   == [p : Providers, id : Ids, epoch : Epochs]

Operations == {"PREPARE", "COMMIT", "ABORT", "RELEASE"}

\* acquire() has returned: every provider granted its COMMIT.
Past == {"executing", "releasing", "done"}

\* l has the fields of a lease, and no others.
LeaseShape(l) ==
  l \in [req : {l.req}, plan : {l.plan}, keys : {l.keys}, expiresAt : {l.expiresAt},
         deadline : {l.deadline}, state : {l.state}]

TableShape(t) ==
  t \in [epoch : {t.epoch}, next : {t.next}, leases : {t.leases}, replays : {t.replays},
         waiters : {t.waiters}, waiterExp : {t.waiterExp}]

TableOK(t) ==
  /\ TableShape(t)
  /\ t.epoch \in Epochs /\ t.next \in Nat
  /\ t.leases = [i \in DOMAIN t.leases |-> t.leases[i]]
  /\ \A i \in DOMAIN t.leases : i \in Ids /\ LeaseShape(t.leases[i])
  /\ \A k \in DOMAIN t.replays : t.replays[k].id \in Ids

TablesOK == tables = [p \in Providers |-> tables[p]] /\ \A p \in Providers : TableOK(tables[p])

TxnShape(x) ==
  x \in [pc : {x.pc}, attempt : {x.attempt}, deadline : {x.deadline}, exp : {x.exp},
         prepared : {x.prepared}, committed : {x.committed}, next : {x.next}, retry : {x.retry},
         call : {x.call}, reply : {x.reply}]

\* The position of q in acquire(), with what its replies have told it.
TxnOK(x, q) ==
  /\ TxnShape(x) /\ x.pc \in Positions
  /\ x.prepared \in Seq(Held) /\ x.committed \in Nat /\ x.next \in Nat \ {0}
  /\ x.committed <= Len(x.prepared) /\ Len(x.prepared) <= Len(Assignment[q])
  /\ x.pc = "preparing" => x.next = Len(x.prepared) + 1 /\ x.next <= Len(Assignment[q])
                           /\ x.committed = 0
  /\ x.pc = "committing" => /\ Len(x.prepared) = Len(Assignment[q])
                            /\ x.next <= Len(x.prepared) /\ x.committed = x.next - 1

\* What q counts as committed was granted, and so was what a reply reports.
CommitsGranted(x, q) ==
  /\ x.pc = "committing" => \A i \in 1..(x.next - 1) : <<q, x.prepared[i].id>> \in granted
  /\ x.pc \in Past => /\ Len(x.prepared) = Len(Assignment[q])
                      /\ \A i \in 1..Len(x.prepared) : <<q, x.prepared[i].id>> \in granted
  /\ x.reply # NoReply /\ x.pc = "committing" /\ x.reply.status
       => <<q, x.prepared[x.next].id>> \in granted

\* The call that q waits for is the one of its position.
CallOK(x, q) ==
  /\ x.pc \in {"idle", "sleeping"} => x.call = NoCall
  /\ x.call # NoCall =>
       /\ x.call.p \in Providers /\ x.call.q = q
       /\ x.pc = "preparing" => x.call.op = "PREPARE"
       /\ x.pc = "committing" => x.call.op = "COMMIT" /\ x.call.id = x.prepared[x.next].id
  /\ x.reply # NoReply =>
       /\ x.call # NoCall
       /\ x.pc = "preparing" /\ x.reply.status => x.reply.id \in Ids /\ x.reply.epoch \in Epochs

TxnInv ==
  /\ txn = [q \in Requests |-> txn[q]]
  /\ \A q \in Requests : TxnOK(txn[q], q) /\ CallOK(txn[q], q) /\ CommitsGranted(txn[q], q)

RoleStates == {"waiting", "running", "done", "refused"}

\* Roles run, and leases execute, only for a transaction that is past acquire().
ExecutesPast == \A q \in Requests, p \in Providers : Executing(q, p) => txn[q].pc \in Past

TransactionInv ==
  /\ now \in 0..MaxTime
  /\ TablesOK
  /\ TxnInv
  /\ \A m \in calls : m.p \in Providers /\ m.q \in Requests /\ m.op \in Operations
  /\ roles \in [Requests -> [Providers -> [Roles -> RoleStates]]]
  /\ ExecutesPast

-----------------------------------------------------------------------------
(* The lease table: which leases may execute after an operation. *)

\* Every lease that executes in u executed in t, for the same request.
NoNewExecution(t, u) ==
  \A i \in DOMAIN u.leases :
    u.leases[i].state = "Executing"
      => i \in DOMAIN t.leases /\ t.leases[i].state = "Executing" /\ t.leases[i].req = u.leases[i].req

LEMMA CleanupTable ==
  ASSUME NEW t, TableOK(t), NEW r
  PROVE  /\ TableOK(cleanupExpiredLocked(t, r))
         /\ NoNewExecution(t, cleanupExpiredLocked(t, r))
         /\ DOMAIN cleanupExpiredLocked(t, r).leases = DOMAIN t.leases
         /\ cleanupExpiredLocked(t, r).replays = t.replays
<1> DEFINE c == cleanupExpiredLocked(t, r)
<1>1. /\ c.leases = [i \in DOMAIN t.leases |-> expireIfNeeded(t.leases[i], r)]
      /\ c.epoch = t.epoch /\ c.next = t.next /\ c.replays = t.replays
      /\ TableShape(c)
  BY DEF cleanupExpiredLocked, TableOK, TableShape
<1>2. ASSUME NEW i \in DOMAIN t.leases
      PROVE  /\ LeaseShape(c.leases[i]) /\ c.leases[i].req = t.leases[i].req
             /\ c.leases[i].state = "Executing" => t.leases[i].state = "Executing"
  <2>1. LeaseShape(t.leases[i])
    BY DEF TableOK
  <2>2. c.leases[i] \in {t.leases[i], [t.leases[i] EXCEPT !.state = "Expired"]}
    BY <1>1 DEF expireIfNeeded
  <2> HIDE DEF c
  <2>3. CASE c.leases[i] = [t.leases[i] EXCEPT !.state = "Expired"]
    BY <2>1, <2>3 DEF LeaseShape
  <2> QED  BY <2>1, <2>2, <2>3
<1> HIDE DEF c
<1>3. TableOK(c)
  BY <1>1, <1>2 DEF TableOK
<1> QED  BY <1>1, <1>2, <1>3 DEF c, NoNewExecution

\* An operation that names a lease changes no other one.
LEMMA OnLeaseTable ==
  ASSUME NEW t, TableOK(t), NEW op, NEW idem, NEW fp, NEW epoch, NEW id, NEW why,
         NEW updated, NEW replay,
         id \in DOMAIN t.leases /\ why = "OK" => LeaseShape(updated)
  PROVE  LET u == OnLease(t, op, idem, fp, epoch, id, why, updated, replay).table IN
         /\ TableOK(u)
         /\ \A i \in DOMAIN u.leases :
              i \in DOMAIN t.leases
                /\ (u.leases[i] = t.leases[i] \/ (i = id /\ why = "OK" /\ u.leases[i] = updated))
         /\ u.epoch = t.epoch /\ DOMAIN u.leases = DOMAIN t.leases
         /\ \/ u = t
            \/ /\ id \in DOMAIN t.leases /\ why = "OK" /\ u.leases[id] = updated
               /\ DOMAIN u.replays = DOMAIN t.replays \cup {<<op, idem>>}
<1> DEFINE o == OnLease(t, op, idem, fp, epoch, id, why, updated, replay)
           m == [t EXCEPT !.leases[id] = updated]
           n == rememberReplay(m, op, idem, fp, id, updated)
<1>1. /\ \A reason : reject(t, reason).table = t
      /\ replayed(t, op, idem).table = t
      /\ success(n, id, updated, replay).table = n
  BY DEF reject, success, replayed
<1>2. o.table = t \/ (id \in DOMAIN t.leases /\ why = "OK" /\ o.table = n)
  <2> HIDE DEF n
  <2> QED  BY <1>1 DEF OnLease, n
<1>3. CASE o.table = t
  BY <1>3
<1>4. CASE id \in DOMAIN t.leases /\ why = "OK" /\ o.table = n
  <2> DEFINE rep == Assign(t.replays, <<op, idem>>, [fingerprint |-> fp, id |-> id, lease |-> updated])
  <2>1. /\ TableShape(m) /\ m.leases = [t.leases EXCEPT ![id] = updated]
        /\ m.replays = t.replays /\ m.epoch = t.epoch /\ m.next = t.next
    BY DEF TableOK, TableShape
  <2>2. n = [m EXCEPT !.replays = rep]
    <3> HIDE DEF m
    <3> QED  BY <2>1 DEF rememberReplay
  <2>3. id \in Ids
    BY <1>4 DEF TableOK
  <2>4. \A k \in DOMAIN rep : rep[k].id \in Ids
    BY <2>3 DEF Assign, TableOK
  <2> HIDE DEF rep, m, n
  <2>5. /\ n.leases = [t.leases EXCEPT ![id] = updated] /\ n.replays = rep
        /\ n.epoch = t.epoch /\ n.next = t.next /\ TableShape(n)
    BY <2>1, <2>2 DEF TableShape
  <2>6. DOMAIN n.leases = DOMAIN t.leases /\ n.leases = [i \in DOMAIN n.leases |-> n.leases[i]]
    BY <2>5
  <2>7. \A i \in DOMAIN t.leases : n.leases[i] = IF i = id THEN updated ELSE t.leases[i]
    BY <2>5 DEF TableOK
  <2>8. TableOK(n)
    BY <1>4, <2>4, <2>5, <2>6, <2>7 DEF TableOK
  <2>9. DOMAIN n.replays = DOMAIN t.replays \cup {<<op, idem>>}
    BY <2>5 DEF rep, Assign
  <2> QED  BY <1>4, <2>5, <2>6, <2>7, <2>8, <2>9
<1> QED  BY <1>2, <1>3, <1>4

\* COMMIT, ABORT and RELEASE start no execution.
LEMMA EndingTable ==
  ASSUME NEW t, TableOK(t), NEW r, NEW op, NEW idem, NEW fp, NEW epoch, NEW id, NEW why,
         NEW s \in {"Committed", "Aborted", "Released"}, NEW replay
  PROVE  LET c == cleanupExpiredLocked(t, r)
             u == OnLease(c, op, idem, fp, epoch, id, why, [c.leases[id] EXCEPT !.state = s], replay).table
         IN  TableOK(u) /\ NoNewExecution(t, u)
<1> DEFINE c == cleanupExpiredLocked(t, r)
           new == [c.leases[id] EXCEPT !.state = s]
           u == OnLease(c, op, idem, fp, epoch, id, why, new, replay).table
<1>1. TableOK(c) /\ NoNewExecution(t, c)
  BY CleanupTable
<1>2. id \in DOMAIN c.leases => LeaseShape(new) /\ new.state = s
  <2> HIDE DEF c
  <2> QED  BY <1>1 DEF TableOK, LeaseShape
<1> HIDE DEF c, new
<1>3. /\ TableOK(u)
      /\ \A i \in DOMAIN u.leases :
           i \in DOMAIN c.leases
             /\ (u.leases[i] = c.leases[i] \/ (i = id /\ why = "OK" /\ u.leases[i] = new))
  BY <1>1, <1>2, OnLeaseTable
<1> HIDE DEF u
<1>4. NoNewExecution(t, u)
  BY <1>1, <1>2, <1>3 DEF NoNewExecution
<1> QED  BY <1>3, <1>4 DEF c, new, u

LEMMA CommitTable ==
  ASSUME NEW t, TableOK(t), NEW r, NEW id, NEW epoch, NEW who, NEW idem
  PROVE  /\ TableOK(commit(t, r, id, epoch, who, idem).table)
         /\ NoNewExecution(t, commit(t, r, id, epoch, who, idem).table)
BY EndingTable DEF commit

LEMMA AbortTable ==
  ASSUME NEW t, TableOK(t), NEW r, NEW id, NEW epoch, NEW who, NEW idem
  PROVE  /\ TableOK(abort(t, r, id, epoch, who, idem).table)
         /\ NoNewExecution(t, abort(t, r, id, epoch, who, idem).table)
BY EndingTable DEF abort

LEMMA ReleaseTable ==
  ASSUME NEW t, TableOK(t), NEW r, NEW id, NEW epoch, NEW who, NEW idem
  PROVE  /\ TableOK(release(t, r, id, epoch, who, idem).table)
         /\ NoNewExecution(t, release(t, r, id, epoch, who, idem).table)
BY EndingTable DEF release

LEMMA ActivatedShape ==
  ASSUME NEW l, LeaseShape(l), NEW d
  PROVE  LET n == [l EXCEPT !.state = "Executing", !.deadline = d]
         IN  LeaseShape(n) /\ n.req = l.req
BY DEF LeaseShape

\* An activation starts at most the lease of its own request.
LEMMA ActivateTable ==
  ASSUME NEW t, TableOK(t), NEW r, NEW id, NEW epoch, NEW q, NEW plan, NEW idem, NEW deadline
  PROVE  LET u == validateAndActivate(t, r, id, epoch, q, plan, idem, deadline).table IN
         /\ TableOK(u)
         /\ \A i \in DOMAIN u.leases :
              u.leases[i].state = "Executing"
                => \/ u.leases[i].req = q
                   \/ /\ i \in DOMAIN t.leases /\ t.leases[i].state = "Executing"
                      /\ t.leases[i].req = u.leases[i].req
<1> DEFINE c == cleanupExpiredLocked(t, r)
           new == [c.leases[id] EXCEPT !.state = "Executing", !.deadline = deadline]
           v == ActivationRefusal(c.leases[id], q, plan)
           why == IF v = "OK" /\ deadline <= r THEN "LEASE_EXPIRED" ELSE v
           fp == <<id, epoch, deadline, q, plan>>
           fresh == FALSE
           u == OnLease(c, "VALIDATE_AND_ACTIVATE", idem, fp, epoch, id, why, new, fresh).table
<1>1. TableOK(c) /\ NoNewExecution(t, c)
  BY CleanupTable
<1>2. id \in DOMAIN c.leases /\ why = "OK" => LeaseShape(new) /\ new.req = q
  <2> HIDE DEF c
  <2>1. why = "OK" => c.leases[id].req = q
    BY DEF ActivationRefusal, bindingMatches
  <2>2. id \in DOMAIN c.leases => LeaseShape(new) /\ new.req = c.leases[id].req
    BY <1>1, ActivatedShape DEF TableOK
  <2> QED  BY <2>1, <2>2
<1>3. u = validateAndActivate(t, r, id, epoch, q, plan, idem, deadline).table
  BY DEF validateAndActivate
<1> HIDE DEF c, new, why, fp, fresh
<1>4. /\ TableOK(u)
      /\ \A i \in DOMAIN u.leases :
           i \in DOMAIN c.leases
             /\ (u.leases[i] = c.leases[i] \/ (i = id /\ why = "OK" /\ u.leases[i] = new))
  BY <1>1, <1>2, OnLeaseTable
<1> HIDE DEF u
<1> QED  BY <1>1, <1>2, <1>3, <1>4 DEF NoNewExecution

-----------------------------------------------------------------------------
(* prepare, and the provider's handler. *)

\* Queueing and leaving the queues change no lease.
LEMMA QueuesTable ==
  ASSUME NEW t, TableOK(t), NEW w, NEW e
  PROVE  LET u == WithQueues(t, w, e) IN
         /\ TableOK(u) /\ u.leases = t.leases /\ u.replays = t.replays
         /\ u.epoch = t.epoch /\ u.next = t.next
<1> DEFINE u == WithQueues(t, w, e)
<1>1. /\ TableShape(u) /\ u.leases = t.leases /\ u.replays = t.replays
      /\ u.epoch = t.epoch /\ u.next = t.next
  BY DEF WithQueues, TableOK, TableShape
<1> HIDE DEF u
<1> QED  BY <1>1 DEF TableOK, u

\* A reply that reports a lease names one of a provider's epoch.
NamesLease(reply) == reply.status => reply.id \in Ids /\ reply.epoch \in Epochs

\* A reply is never the mark for none.
IsReply(reply) == reply # NoReply /\ reply.status \in BOOLEAN

LEMMA ReplyForms ==
  ASSUME NEW t, TableOK(t)
  PROVE  /\ \A reason : LET o == reject(t, reason) IN
              o.table = t /\ IsReply(o.reply) /\ ~o.reply.status
         /\ \A id, lease, replay : LET o == success(t, id, lease, replay) IN
              o.table = t /\ IsReply(o.reply) /\ (id \in Ids => NamesLease(o.reply))
BY DEF reject, success, IsReply, NamesLease, NoReply, TableOK

LEMMA AdmitTable ==
  ASSUME NEW t, TableOK(t), NEW q, NEW plan, NEW ks, NEW e, NEW idem, NEW fp
  PROVE  LET o == Admit(t, q, plan, ks, e, idem, fp, NoLease) IN
         /\ TableOK(o.table) /\ NoNewExecution(t, o.table)
         /\ IsReply(o.reply) /\ NamesLease(o.reply)
<1> DEFINE lease == [req |-> q, plan |-> plan, keys |-> ks, expiresAt |-> e,
                     deadline |-> 0, state |-> "Prepared"]
           id == <<t.epoch, t.next>>
           all == Emplace(t.leases, id, lease)
           made == WithLeases(t, t.next + 1, all)
           rep == Assign(t.replays, <<"PREPARE", idem>>,
                         [fingerprint |-> fp, id |-> id, lease |-> lease])
           n == rememberReplay(made, "PREPARE", idem, fp, id, lease)
           fresh == FALSE
<1>1. id \in Ids /\ LeaseShape(lease) /\ lease.state = "Prepared"
  BY DEF TableOK, Ids, LeaseShape
<1>2. /\ all = [i \in DOMAIN all |-> all[i]]
      /\ \A i \in DOMAIN all : i \in Ids /\ LeaseShape(all[i])
      /\ \A i \in DOMAIN all : all[i] = lease \/ (i \in DOMAIN t.leases /\ all[i] = t.leases[i])
  <2> HIDE DEF id, lease
  <2> QED  BY <1>1 DEF Emplace, Assign, TableOK
<1>3. \A k \in DOMAIN rep : rep[k].id \in Ids
  <2> HIDE DEF id, lease
  <2> QED  BY <1>1 DEF Assign, TableOK
<1>4. n = [made EXCEPT !.replays = rep] /\ made.replays = t.replays
  <2> HIDE DEF all, id, lease
  <2> QED  BY DEF rememberReplay, WithLeases, TableOK, TableShape
<1>5. Admit(t, q, plan, ks, e, idem, fp, NoLease) = success(n, id, lease, fresh)
  BY DEF Admit
<1> HIDE DEF all, id, lease, rep
<1>6. /\ TableShape(made) /\ made.leases = all /\ made.epoch = t.epoch /\ made.next = t.next + 1
  BY DEF WithLeases, TableOK, TableShape
<1> HIDE DEF made, n
<1>7. /\ TableShape(n) /\ n.leases = all /\ n.epoch = t.epoch /\ n.next = t.next + 1
      /\ n.replays = rep
  BY <1>4, <1>6 DEF TableShape
<1>8. TableOK(n)
  BY <1>2, <1>3, <1>7 DEF TableOK
<1>9. NoNewExecution(t, n)
  BY <1>1, <1>2, <1>7 DEF NoNewExecution
<1> HIDE DEF fresh
<1> QED  BY <1>1, <1>5, <1>8, <1>9, ReplyForms

LEMMA PrepareTable ==
  ASSUME NEW t, TableOK(t), NEW r, NEW q, NEW plan, NEW ks, NEW e, NEW idem
  PROVE  LET o == prepare(t, r, q, plan, ks, e, idem, NoLease) IN
         /\ TableOK(o.table) /\ NoNewExecution(t, o.table)
         /\ IsReply(o.reply) /\ NamesLease(o.reply)
<1> DEFINE c == cleanupExpiredLocked(t, r)
           a == pruneWaiters(c, r)
           fp == <<q, plan, ks, e>>
           verdict == replayOrConflict(a, "PREPARE", idem, fp)
           w == Enqueue(a, q, ks, e)
           d == Dequeue(a, q, ks)
           o == prepare(t, r, q, plan, ks, e, idem, NoLease)
<1>1. TableOK(c) /\ NoNewExecution(t, c)
  BY CleanupTable
<1> HIDE DEF c
<1>2. TableOK(a) /\ a.leases = c.leases
  BY <1>1, QueuesTable DEF pruneWaiters
<1> HIDE DEF a
<1>3. TableOK(w) /\ w.leases = a.leases /\ TableOK(d) /\ d.leases = a.leases
  BY <1>2, QueuesTable DEF Enqueue, Dequeue
<1> HIDE DEF w, d, fp
<1>4. verdict = "OK" => /\ replayed(a, "PREPARE", idem).table = a
                        /\ IsReply(replayed(a, "PREPARE", idem).reply)
                        /\ NamesLease(replayed(a, "PREPARE", idem).reply)
  <2> DEFINE k == <<"PREPARE", idem>>
             replay == TRUE
  <2>1. verdict = "OK" => a.replays[k].id \in Ids
    BY <1>2 DEF replayOrConflict, TableOK
  <2>2. replayed(a, "PREPARE", idem) = success(a, a.replays[k].id, a.replays[k].lease, replay)
    BY DEF replayed
  <2> HIDE DEF k, verdict, replay
  <2> QED  BY <1>2, <2>1, <2>2, ReplyForms
<1> DEFINE ad == Admit(d, q, plan, ks, e, idem, fp, NoLease)
<1>5. /\ TableOK(ad.table) /\ NoNewExecution(d, ad.table)
      /\ IsReply(ad.reply) /\ NamesLease(ad.reply)
  BY <1>3, AdmitTable
<1>6. \/ verdict = "OK" /\ o = replayed(a, "PREPARE", idem)
      \/ \E reason : o = reject(a, reason)
      \/ \E reason : o = reject(w, reason)
      \/ o = ad
  <2> HIDE DEF verdict, ad
  <2> QED  BY DEF prepare, c, a, fp, verdict, w, d, ad
<1> HIDE DEF o, ad, verdict
<1>7. NoNewExecution(t, a) /\ NoNewExecution(t, w) /\ NoNewExecution(t, d)
  BY <1>1, <1>2, <1>3 DEF NoNewExecution
<1>8. CASE verdict = "OK" /\ o = replayed(a, "PREPARE", idem)
  BY <1>2, <1>4, <1>7, <1>8 DEF o
<1>9. CASE \E reason : o = reject(a, reason)
  BY <1>2, <1>7, <1>9, ReplyForms DEF o, NamesLease
<1>10. CASE \E reason : o = reject(w, reason)
  BY <1>3, <1>7, <1>10, ReplyForms DEF o, NamesLease
<1>11. CASE o = ad
  BY <1>5, <1>7, <1>11 DEF o, NoNewExecution
<1> QED  BY <1>6, <1>8, <1>9, <1>10, <1>11

LEMMA OnLeaseReplies ==
  ASSUME NEW t, NEW op, NEW idem, NEW fp, NEW epoch, NEW id, NEW why, NEW updated, NEW replay
  PROVE  IsReply(OnLease(t, op, idem, fp, epoch, id, why, updated, replay).reply)
<1>1. /\ \A u, reason : IsReply(reject(u, reason).reply)
      /\ \A u, i, lease, b : IsReply(success(u, i, lease, b).reply)
  BY DEF reject, success, IsReply, NoReply
<1> DEFINE n == rememberReplay([t EXCEPT !.leases[id] = updated], op, idem, fp, id, updated)
           o == OnLease(t, op, idem, fp, epoch, id, why, updated, replay)
           past == t.replays[<<op, idem>>]
           again == TRUE
<1>2. \/ o = success(t, past.id, past.lease, again)
      \/ \E reason : o = reject(t, reason)
      \/ o = success(n, id, updated, replay)
  <2> HIDE DEF n
  <2> QED  BY DEF OnLease, n, replayed
<1> HIDE DEF n, o, past, again
<1> QED  BY <1>1, <1>2 DEF o

\* ExecutionLeaseService::handle starts no execution.
LEMMA HandleTable ==
  ASSUME NEW t, TableOK(t), NEW m, m.op \in Operations
  PROVE  LET o == handle(t, m) IN
         /\ TableOK(o.table) /\ NoNewExecution(t, o.table)
         /\ IsReply(o.reply) /\ (m.op = "PREPARE" => NamesLease(o.reply))
<1> DEFINE idem == <<m.op, m.q, m.tag>>
           who == Owner[m.q]
<1>1. CASE m.op = "PREPARE"
  <2>1. handle(t, m) = prepare(t, now, m.q, Plan, Keys, m.exp, idem, NoLease)
    BY <1>1 DEF handle
  <2> HIDE DEF idem
  <2> QED  BY <2>1, PrepareTable
<1>2. CASE m.op = "COMMIT"
  <2>1. handle(t, m) = commit(t, now, m.id, m.epoch, who, idem)
    BY <1>2 DEF handle
  <2> HIDE DEF idem, who
  <2>2. IsReply(commit(t, now, m.id, m.epoch, who, idem).reply)
    BY OnLeaseReplies DEF commit
  <2> QED  BY <1>2, <2>1, <2>2, CommitTable
<1>3. CASE m.op = "ABORT"
  <2>1. handle(t, m) = abort(t, now, m.id, m.epoch, who, idem)
    BY <1>3 DEF handle
  <2> HIDE DEF idem, who
  <2>2. IsReply(abort(t, now, m.id, m.epoch, who, idem).reply)
    BY OnLeaseReplies DEF abort
  <2> QED  BY <1>3, <2>1, <2>2, AbortTable
<1>4. CASE m.op = "RELEASE"
  <2>1. handle(t, m) = release(t, now, m.id, m.epoch, who, idem)
    BY <1>4 DEF handle
  <2> HIDE DEF idem, who
  <2>2. IsReply(release(t, now, m.id, m.epoch, who, idem).reply)
    BY OnLeaseReplies DEF release
  <2> QED  BY <1>4, <2>1, <2>2, ReleaseTable
<1> QED  BY <1>1, <1>2, <1>3, <1>4 DEF Operations

-----------------------------------------------------------------------------
(* The steps of a user. *)

\* A step of q's thread: q is at y afterwards, and the providers have not moved.
LEMMA UserStep ==
  ASSUME TransactionInv, NEW q \in Requests, NEW y,
         TxnOK(y, q), CallOK(y, q), CommitsGranted(y, q),
         txn[q].pc \in Past => y.pc \in Past,
         txn' = [txn EXCEPT ![q] = y],
         UNCHANGED <<now, tables, roles, granted>>,
         \A m \in calls' : m \in calls \/ (m.p \in Providers /\ m.q \in Requests /\ m.op \in Operations)
  PROVE  TransactionInv'
<1>1. \A s \in Requests : txn'[s] = IF s = q THEN y ELSE txn[s]
  BY DEF TransactionInv, TxnInv
<1>2. TxnInv'
  <2>1. txn' = [s \in Requests |-> txn'[s]]
    BY DEF TransactionInv, TxnInv
  <2>2. ASSUME NEW s \in Requests
        PROVE  TxnOK(txn'[s], s) /\ CallOK(txn'[s], s) /\ CommitsGranted(txn[s], s)'
    <3>1. CASE s = q
      BY <1>1, <3>1 DEF CommitsGranted
    <3>2. CASE s # q
      BY <1>1, <3>2 DEF TransactionInv, TxnInv, CommitsGranted
    <3> QED  BY <3>1, <3>2
  <2> QED  BY <2>1, <2>2 DEF TxnInv, TxnOK, CallOK
<1>3. ExecutesPast'
  BY <1>1 DEF TransactionInv, ExecutesPast, Executing
<1>4. TablesOK'
  BY DEF TransactionInv, TablesOK
<1> QED  BY <1>2, <1>3, <1>4 DEF TransactionInv

LEMMA Attempts ==
  ASSUME NEW q \in Requests, NEW x, TxnOK(x, q), x.call = NoCall, x.reply = NoReply
  PROVE  LET y == Attempt(x) IN TxnOK(y, q) /\ CallOK(y, q) /\ CommitsGranted(y, q)
<1> DEFINE y == Attempt(x)
<1>1. /\ TxnShape(y) /\ y.pc = "preparing" /\ y.prepared = <<>> /\ y.committed = 0 /\ y.next = 1
      /\ y.call = NoCall /\ y.reply = NoReply
  BY DEF Attempt, TxnOK, TxnShape
<1> HIDE DEF y
<1>2. TxnOK(y, q)
  <2>1. Len(Assignment[q]) \in Nat /\ Len(Assignment[q]) > 0
    BY LeaseTransactionAssumption
  <2>2. y.prepared \in Seq(Held) /\ Len(y.prepared) = 0
    BY <1>1
  <2> QED  BY <1>1, <2>1, <2>2 DEF TxnOK, Positions
<1> QED  BY <1>1, <1>2 DEF y, CallOK, CommitsGranted, Past

LEMMA BeginStep ==
  ASSUME TransactionInv, NEW q \in Requests, Begin(q)
  PROVE  TransactionInv'
<1> DEFINE x == [txn[q] EXCEPT !.deadline = now + CapacityWait]
           y == Attempt(x)
<1>1. TxnOK(txn[q], q) /\ CallOK(txn[q], q) /\ txn[q].pc = "idle"
  BY DEF TransactionInv, TxnInv, Begin
<1>2. TxnOK(x, q) /\ x.call = NoCall /\ x.reply = NoReply
  <2>1. /\ TxnShape(x) /\ x.pc = txn[q].pc /\ x.prepared = txn[q].prepared
        /\ x.committed = txn[q].committed /\ x.next = txn[q].next
        /\ x.call = txn[q].call /\ x.reply = txn[q].reply
    BY <1>1 DEF TxnOK, TxnShape
  <2> HIDE DEF x
  <2> QED  BY <1>1, <2>1 DEF TxnOK, CallOK
<1>3. txn' = [txn EXCEPT ![q] = y]
  BY DEF Begin
<1> HIDE DEF x
<1>4. TxnOK(y, q) /\ CallOK(y, q) /\ CommitsGranted(y, q)
  BY <1>2, Attempts
<1> HIDE DEF y
<1> QED  BY <1>1, <1>3, <1>4, UserStep DEF Begin, provider, Past

LEMMA RetryStep ==
  ASSUME TransactionInv, NEW q \in Requests, Retry(q)
  PROVE  TransactionInv'
<1> DEFINE y == Attempt(txn[q])
<1>1. TxnOK(txn[q], q) /\ CallOK(txn[q], q) /\ txn[q].pc = "sleeping"
  BY DEF TransactionInv, TxnInv, Retry
<1>2. txn[q].call = NoCall /\ txn[q].reply = NoReply
  BY <1>1 DEF CallOK
<1>3. txn' = [txn EXCEPT ![q] = y]
  BY DEF Retry
<1>4. TxnOK(y, q) /\ CallOK(y, q) /\ CommitsGranted(y, q)
  BY <1>1, <1>2, Attempts
<1> HIDE DEF y
<1> QED  BY <1>1, <1>3, <1>4, UserStep DEF Retry, provider, Past

\* The next call names a provider, and while committing the next lease.
LEMMA NextCall ==
  ASSUME TransactionInv, NEW q \in Requests, HasNext(txn[q])
  PROVE  /\ Call(q).p \in Providers /\ Call(q).q = q /\ Call(q).op \in Operations
         /\ txn[q].pc = "preparing" => Call(q).op = "PREPARE"
         /\ txn[q].pc = "committing" =>
              Call(q).op = "COMMIT" /\ Call(q).id = txn[q].prepared[txn[q].next].id
         /\ txn[q].pc \notin {"idle", "sleeping"}
<1> DEFINE x == txn[q]
           l == x.prepared[x.next]
<1>1. TxnOK(x, q)
  BY DEF TransactionInv, TxnInv
<1>2. CASE x.pc = "preparing"
  <2>1. Assignment[q][x.next] \in Providers
    BY <1>1, <1>2, LeaseTransactionAssumption DEF TxnOK
  <2> QED  BY <1>2, <2>1 DEF Call, Operations
<1>3. CASE x.pc \in {"committing", "cleaning", "releasing"}
  <2>1. l \in Held
    <3>1. x.next \in 1..Len(x.prepared)
      BY <1>1, <1>3 DEF TxnOK, HasNext
    <3> QED  BY <1>1, <3>1 DEF TxnOK
  <2>2. l.p \in Providers
    BY <2>1 DEF Held
  <2> QED  BY <1>3, <2>2 DEF Call, Operations, cleanupOperation
<1> QED  BY <1>2, <1>3 DEF HasNext

LEMMA SendStep ==
  ASSUME TransactionInv, NEW q \in Requests, Send(q)
  PROVE  TransactionInv'
<1> DEFINE x == txn[q]
           c == Call(q)
           y == [x EXCEPT !.call = c]
<1>1. TxnOK(x, q) /\ CallOK(x, q) /\ CommitsGranted(x, q) /\ x.call = NoCall /\ x.reply = NoReply
  BY DEF TransactionInv, TxnInv, Send, CallOK
<1>2. /\ c.p \in Providers /\ c.q = q /\ c.op \in Operations
      /\ x.pc = "preparing" => c.op = "PREPARE"
      /\ x.pc = "committing" => c.op = "COMMIT" /\ c.id = x.prepared[x.next].id
      /\ x.pc \notin {"idle", "sleeping"}
  BY NextCall DEF Send
<1>3. txn' = [txn EXCEPT ![q] = y] /\ calls' = calls \cup {c}
  BY DEF Send, TransactionInv, TxnInv
<1> HIDE DEF c, x
<1>4. /\ TxnShape(y) /\ y.pc = x.pc /\ y.prepared = x.prepared /\ y.committed = x.committed
      /\ y.next = x.next /\ y.call = c /\ y.reply = x.reply
  BY <1>1 DEF TxnOK, TxnShape
<1> HIDE DEF y
<1>5. TxnOK(y, q) /\ CallOK(y, q) /\ CommitsGranted(y, q)
  BY <1>1, <1>2, <1>4 DEF TxnOK, CallOK, CommitsGranted
<1>6. txn[q].pc \in Past => y.pc \in Past
  BY <1>4 DEF x
<1> QED  BY <1>2, <1>3, <1>5, <1>6, UserStep DEF Send, provider

\* A cleanup, or the step of a best-effort loop.
LEMMA CleanOrStep ==
  ASSUME NEW q \in Requests, NEW x, TxnOK(x, q), CommitsGranted(x, q), NEW retry, NEW y,
         \/ y = Answered(Clean(x, retry))
         \/ y = Answered(Step(x)) /\ x.pc \notin {"preparing", "committing"}
  PROVE  /\ TxnOK(y, q) /\ CallOK(y, q) /\ CommitsGranted(y, q)
         /\ (x.pc \in Past /\ y = Answered(Step(x))) => y.pc \in Past
<1>1. CASE y = Answered(Clean(x, retry))
  <2>1. /\ TxnShape(y) /\ y.pc = "cleaning" /\ y.prepared = x.prepared
        /\ y.committed = x.committed /\ y.next = 1 /\ y.call = NoCall /\ y.reply = NoReply
    BY <1>1 DEF Answered, Clean, TxnOK, TxnShape
  <2>2. TxnOK(y, q) /\ CallOK(y, q) /\ CommitsGranted(y, q)
    BY <2>1 DEF TxnOK, CallOK, CommitsGranted, Positions, Past
  <2>3. y = Answered(Step(x)) => y.pc = x.pc
    BY DEF Answered, Step, TxnOK, TxnShape
  <2> QED  BY <2>2, <2>3
<1>2. CASE y = Answered(Step(x)) /\ x.pc \notin {"preparing", "committing"}
  <2>1. /\ TxnShape(y) /\ y.pc = x.pc /\ y.prepared = x.prepared
        /\ y.committed = x.committed /\ y.next = x.next + 1 /\ y.call = NoCall /\ y.reply = NoReply
    BY <1>2 DEF Answered, Step, TxnOK, TxnShape
  <2> QED  BY <1>2, <2>1 DEF TxnOK, CallOK, CommitsGranted
<1> QED  BY <1>1, <1>2

LEMMA CallTimeoutStep ==
  ASSUME TransactionInv, NEW q \in Requests, CallTimeout(q)
  PROVE  TransactionInv'
<1> DEFINE x == txn[q]
           y == Answered(OnCallFailed(x))
           no == FALSE
<1>1. TxnOK(x, q) /\ CommitsGranted(x, q)
  BY DEF TransactionInv, TxnInv
<1>2. txn' = [txn EXCEPT ![q] = y] /\ UNCHANGED <<now, calls, tables, roles, granted>>
  BY DEF CallTimeout, provider
<1>3. \/ y = Answered(Clean(x, no)) /\ x.pc \in {"preparing", "committing"}
      \/ y = Answered(Step(x)) /\ x.pc \notin {"preparing", "committing"}
  BY DEF OnCallFailed
<1> HIDE DEF x, y, no
<1>4. /\ TxnOK(y, q) /\ CallOK(y, q) /\ CommitsGranted(y, q)
      /\ x.pc \in Past => y.pc \in Past
  BY <1>1, <1>3, CleanOrStep DEF Past
<1> QED  BY <1>2, <1>4, UserStep DEF x

LEMMA RevalidationStep ==
  ASSUME TransactionInv, NEW q \in Requests, RevalidationFails(q)
  PROVE  TransactionInv'
<1> DEFINE x == txn[q]
           y == Clean(x, FALSE)
<1>1. TxnOK(x, q) /\ CallOK(x, q) /\ x.pc = "committing" /\ x.call = NoCall
  BY DEF TransactionInv, TxnInv, RevalidationFails
<1>2. txn' = [txn EXCEPT ![q] = y] /\ UNCHANGED <<now, calls, tables, roles, granted>>
  BY DEF RevalidationFails, provider
<1>3. /\ TxnShape(y) /\ y.pc = "cleaning" /\ y.prepared = x.prepared /\ y.committed = x.committed
      /\ y.next = 1 /\ y.call = NoCall /\ y.reply = x.reply
  BY <1>1 DEF Clean, TxnOK, TxnShape
<1> HIDE DEF y
<1>4. TxnOK(y, q) /\ CallOK(y, q) /\ CommitsGranted(y, q)
  BY <1>1, <1>3 DEF TxnOK, CallOK, CommitsGranted, Positions, Past
<1> QED  BY <1>1, <1>2, <1>4, UserStep DEF Past

\* The user moves on to pc with its index at n.
LEMMA Moves ==
  ASSUME NEW q \in Requests, NEW x, TxnOK(x, q), CallOK(x, q), CommitsGranted(x, q),
         NEW pc \in Positions \ {"preparing", "committing"}, NEW n \in Nat \ {0},
         pc \in Past => x.pc \in Past, pc \in {"idle", "sleeping"} => x.call = NoCall,
         NEW y, TxnShape(y), y.pc = pc, y.next = n, y.prepared = x.prepared,
         y.committed = x.committed, y.call = x.call, y.reply = x.reply
  PROVE  TxnOK(y, q) /\ CallOK(y, q) /\ CommitsGranted(y, q)
BY DEF TxnOK, CallOK, CommitsGranted, Positions, Past

LEMMA EndCleanupStep ==
  ASSUME TransactionInv, NEW q \in Requests, EndCleanup(q)
  PROVE  TransactionInv'
<1> DEFINE x == txn[q]
           pc == IF x.retry /\ now < x.deadline THEN "sleeping" ELSE "failed"
           y == [x EXCEPT !.pc = pc, !.next = now + 1]
<1>1. /\ TxnOK(x, q) /\ CallOK(x, q) /\ CommitsGranted(x, q)
      /\ x.pc = "cleaning" /\ x.call = NoCall /\ now \in Nat
  BY LeaseTransactionAssumption DEF TransactionInv, TxnInv, EndCleanup
<1>2. txn' = [txn EXCEPT ![q] = y] /\ UNCHANGED <<now, calls, tables, roles, granted>>
  BY DEF EndCleanup, provider, TransactionInv, TxnInv
<1>3. pc \in {"sleeping", "failed"}
  OBVIOUS
<1> HIDE DEF pc, x
<1>4. /\ TxnShape(y) /\ y.pc = pc /\ y.prepared = x.prepared /\ y.committed = x.committed
      /\ y.next = now + 1 /\ y.call = x.call /\ y.reply = x.reply
  BY <1>1 DEF TxnOK, TxnShape
<1> HIDE DEF y
<1>5. TxnOK(y, q) /\ CallOK(y, q) /\ CommitsGranted(y, q)
  BY <1>1, <1>3, <1>4, now + 1 \in Nat \ {0}, Moves DEF Positions, Past
<1> QED  BY <1>1, <1>2, <1>5, UserStep DEF Past, x

LEMMA EndExecutionStep ==
  ASSUME TransactionInv, NEW q \in Requests, EndExecution(q)
  PROVE  TransactionInv'
<1> DEFINE x == txn[q]
           y == [x EXCEPT !.pc = "releasing", !.next = 1]
<1>1. TxnOK(x, q) /\ CallOK(x, q) /\ CommitsGranted(x, q) /\ x.pc = "executing"
  BY DEF TransactionInv, TxnInv, EndExecution
<1>2. txn' = [txn EXCEPT ![q] = y] /\ UNCHANGED <<now, calls, tables, roles, granted>>
  BY DEF EndExecution, provider, TransactionInv, TxnInv
<1> HIDE DEF x
<1>3. /\ TxnShape(y) /\ y.pc = "releasing" /\ y.prepared = x.prepared
      /\ y.committed = x.committed /\ y.next = 1 /\ y.call = x.call /\ y.reply = x.reply
  BY <1>1 DEF TxnOK, TxnShape
<1> HIDE DEF y
<1>4. TxnOK(y, q) /\ CallOK(y, q) /\ CommitsGranted(y, q)
  BY <1>1, <1>3, Moves DEF Positions, Past
<1> QED  BY <1>2, <1>3, <1>4, UserStep DEF Past

LEMMA EndReleaseStep ==
  ASSUME TransactionInv, NEW q \in Requests, EndRelease(q)
  PROVE  TransactionInv'
<1> DEFINE x == txn[q]
           y == [x EXCEPT !.pc = "done"]
<1>1. TxnOK(x, q) /\ CallOK(x, q) /\ CommitsGranted(x, q) /\ x.pc = "releasing"
  BY DEF TransactionInv, TxnInv, EndRelease
<1>2. txn' = [txn EXCEPT ![q] = y] /\ UNCHANGED <<now, calls, tables, roles, granted>>
  BY DEF EndRelease, provider, TransactionInv, TxnInv
<1> HIDE DEF x
<1>3. /\ TxnShape(y) /\ y.pc = "done" /\ y.prepared = x.prepared
      /\ y.committed = x.committed /\ y.next = x.next /\ y.call = x.call /\ y.reply = x.reply
  BY <1>1 DEF TxnOK, TxnShape
<1> HIDE DEF y
<1>4. TxnOK(y, q) /\ CallOK(y, q) /\ CommitsGranted(y, q)
  <2>1. x.next \in Nat \ {0}
    BY <1>1 DEF TxnOK
  <2> QED  BY <1>1, <1>3, <2>1, Moves DEF Positions, Past
<1> QED  BY <1>2, <1>3, <1>4, UserStep DEF Past

\* A provider prepared: the lease of the reply is the next of `prepared'.
LEMMA Prepared ==
  ASSUME NEW q \in Requests, NEW x, TxnOK(x, q), CallOK(x, q), CommitsGranted(x, q),
         x.pc = "preparing", x.reply # NoReply, NEW y, y = Answered(OnPrepared(x, q))
  PROVE  TxnOK(y, q) /\ CallOK(y, q) /\ CommitsGranted(y, q)
<1> DEFINE h == [p |-> x.call.p, id |-> x.reply.id, epoch |-> x.reply.epoch]
           ps == Append(x.prepared, h)
           z == [x EXCEPT !.prepared = ps]
           retry == x.reply.reason = "LEASE_CAPACITY_REJECTED"
<1>1. CASE ~x.reply.status
  <2>1. y = Answered(Clean(x, retry))
    BY <1>1 DEF OnPrepared
  <2> HIDE DEF retry
  <2> QED  BY <2>1, CleanOrStep
<1>2. CASE x.reply.status
  <2>1. h \in Held
    BY <1>2 DEF CallOK, Held
  <2>2. ps \in Seq(Held) /\ Len(ps) = Len(x.prepared) + 1 /\ Len(x.prepared) \in Nat
    <3> HIDE DEF h
    <3> QED  BY <2>1 DEF TxnOK
  <2>3. Len(Assignment[q]) \in Nat
    BY LeaseTransactionAssumption
  <2>4. \/ y = Answered(Step(z)) /\ x.next < Len(Assignment[q])
        \/ y = Answered([z EXCEPT !.pc = "committing", !.next = 1]) /\ ~(x.next < Len(Assignment[q]))
    BY <1>2 DEF OnPrepared
  <2> HIDE DEF h, ps
  <2>5. /\ TxnShape(z) /\ z.pc = "preparing" /\ z.prepared = ps /\ z.committed = x.committed
        /\ z.next = x.next
    BY DEF TxnOK, TxnShape
  <2> HIDE DEF z
  <2>6. CASE y = Answered(Step(z)) /\ x.next < Len(Assignment[q])
    <3>1. /\ TxnShape(y) /\ y.pc = "preparing" /\ y.prepared = ps /\ y.committed = x.committed
          /\ y.next = x.next + 1 /\ y.call = NoCall /\ y.reply = NoReply
      BY <2>5, <2>6 DEF Answered, Step, TxnShape
    <3> QED  BY <2>2, <2>3, <2>6, <3>1 DEF TxnOK, CallOK, CommitsGranted, Positions, Past
  <2>7. CASE y = Answered([z EXCEPT !.pc = "committing", !.next = 1]) /\ ~(x.next < Len(Assignment[q]))
    <3>1. /\ TxnShape(y) /\ y.pc = "committing" /\ y.prepared = ps /\ y.committed = x.committed
          /\ y.next = 1 /\ y.call = NoCall /\ y.reply = NoReply
      BY <2>5, <2>7 DEF Answered, TxnShape
    <3>2. Len(ps) = Len(Assignment[q]) /\ x.committed = 0
      BY <2>2, <2>3, <2>7 DEF TxnOK
    <3>3. Len(Assignment[q]) > 0
      BY LeaseTransactionAssumption
    <3>4. TxnOK(y, q)
      BY <2>2, <2>3, <3>1, <3>2, <3>3 DEF TxnOK, Positions
    <3>5. CommitsGranted(y, q)
      BY <3>1 DEF CommitsGranted, Past
    <3> QED  BY <3>1, <3>4, <3>5 DEF CallOK
  <2> QED  BY <2>4, <2>6, <2>7
<1> QED  BY <1>1, <1>2

\* A provider granted the COMMIT: after the last one every lease is granted.
LEMMA Committed ==
  ASSUME NEW q \in Requests, NEW x, TxnOK(x, q), CallOK(x, q), CommitsGranted(x, q),
         x.pc = "committing", x.reply # NoReply, NEW y, y = Answered(OnCommitted(x))
  PROVE  TxnOK(y, q) /\ CallOK(y, q) /\ CommitsGranted(y, q)
<1> DEFINE z == [x EXCEPT !.committed = @ + 1]
           retry == x.reply.reason = "LEASE_CAPACITY_REJECTED"
<1>1. CASE ~x.reply.status
  <2>1. y = Answered(Clean(x, retry))
    BY <1>1 DEF OnCommitted
  <2> HIDE DEF retry
  <2> QED  BY <2>1, CleanOrStep
<1>2. CASE x.reply.status
  <2>1. \/ y = Answered(Step(z)) /\ x.next < Len(x.prepared)
        \/ y = Answered([z EXCEPT !.pc = "executing"]) /\ ~(x.next < Len(x.prepared))
    BY <1>2 DEF OnCommitted
  <2>2. /\ TxnShape(z) /\ z.pc = "committing" /\ z.prepared = x.prepared
        /\ z.committed = x.committed + 1 /\ z.next = x.next
    BY DEF TxnOK, TxnShape
  <2> HIDE DEF z
  <2>3. /\ x.next \in Nat \ {0} /\ Len(x.prepared) \in Nat /\ x.next <= Len(x.prepared)
        /\ x.committed = x.next - 1
    BY DEF TxnOK
  <2>4. \A i \in 1..x.next : <<q, x.prepared[i].id>> \in granted
    BY <1>2, <2>3 DEF CommitsGranted
  <2>5. CASE y = Answered(Step(z)) /\ x.next < Len(x.prepared)
    <3>1. /\ TxnShape(y) /\ y.pc = "committing" /\ y.prepared = x.prepared
          /\ y.committed = x.committed + 1 /\ y.next = x.next + 1
          /\ y.call = NoCall /\ y.reply = NoReply
      BY <2>2, <2>5 DEF Answered, Step, TxnShape
    <3>2. TxnOK(y, q)
      BY <2>3, <2>5, <3>1 DEF TxnOK
    <3>3. CommitsGranted(y, q)
      BY <2>3, <2>4, <3>1 DEF CommitsGranted, Past
    <3> QED  BY <3>1, <3>2, <3>3 DEF CallOK
  <2>6. CASE y = Answered([z EXCEPT !.pc = "executing"]) /\ ~(x.next < Len(x.prepared))
    <3>1. /\ TxnShape(y) /\ y.pc = "executing" /\ y.prepared = x.prepared
          /\ y.committed = x.committed + 1 /\ y.next = x.next
          /\ y.call = NoCall /\ y.reply = NoReply
      BY <2>2, <2>6 DEF Answered, TxnShape
    <3>2. TxnOK(y, q)
      BY <2>3, <3>1 DEF TxnOK, Positions
    <3>3. Len(x.prepared) = Len(Assignment[q]) /\ x.next = Len(x.prepared)
      BY <2>3, <2>6 DEF TxnOK
    <3>4. \A i \in 1..Len(x.prepared) : <<q, x.prepared[i].id>> \in granted
      BY <2>4, <3>3
    <3>5. CommitsGranted(y, q)
      BY <3>1, <3>3, <3>4 DEF CommitsGranted
    <3> QED  BY <3>1, <3>2, <3>5 DEF CallOK
  <2> QED  BY <2>1, <2>5, <2>6
<1> QED  BY <1>1, <1>2

LEMMA OnReplyStep ==
  ASSUME TransactionInv, NEW q \in Requests, OnReply(q)
  PROVE  TransactionInv'
<1> DEFINE x == txn[q]
           y == Answered(CASE x.pc = "preparing"  -> OnPrepared(x, q)
                           [] x.pc = "committing" -> OnCommitted(x)
                           [] OTHER               -> Step(x))
<1>1. TxnOK(x, q) /\ CallOK(x, q) /\ CommitsGranted(x, q) /\ x.reply # NoReply
  BY DEF TransactionInv, TxnInv, OnReply
<1>2. txn' = [txn EXCEPT ![q] = y] /\ UNCHANGED <<now, calls, tables, roles, granted>>
  BY DEF OnReply, provider
<1>3. \/ x.pc = "preparing" /\ y = Answered(OnPrepared(x, q))
      \/ x.pc = "committing" /\ y = Answered(OnCommitted(x))
      \/ x.pc \notin {"preparing", "committing"} /\ y = Answered(Step(x))
  OBVIOUS
<1> HIDE DEF x, y
<1>4. /\ TxnOK(y, q) /\ CallOK(y, q) /\ CommitsGranted(y, q)
      /\ x.pc \in Past => y.pc \in Past
  <2>1. CASE x.pc = "preparing" /\ y = Answered(OnPrepared(x, q))
    BY <1>1, <2>1, Prepared DEF Past
  <2>2. CASE x.pc = "committing" /\ y = Answered(OnCommitted(x))
    BY <1>1, <2>2, Committed DEF Past
  <2>3. CASE x.pc \notin {"preparing", "committing"} /\ y = Answered(Step(x))
    BY <1>1, <2>3, CleanOrStep
  <2> QED  BY <1>3, <2>1, <2>2, <2>3
<1> QED  BY <1>2, <1>4, UserStep DEF x

LEMMA UserSteps ==
  ASSUME TransactionInv, NEW q \in Requests, userStep(q)
  PROVE  TransactionInv'
BY BeginStep, SendStep, OnReplyStep, CallTimeoutStep, RevalidationStep, EndCleanupStep, RetryStep,
   EndExecutionStep, EndReleaseStep DEF userStep

-----------------------------------------------------------------------------
(* The steps of a provider. *)

\* Provider p's table becomes u, in which only requests past acquire() start.
LEMMA TableStep ==
  ASSUME TransactionInv, NEW p \in Providers, NEW u, TableOK(u),
         tables' = [tables EXCEPT ![p] = u],
         \A i \in DOMAIN u.leases :
           u.leases[i].state = "Executing" =>
             \/ u.leases[i].req \in Requests => txn[u.leases[i].req].pc \in Past
             \/ /\ i \in DOMAIN tables[p].leases /\ tables[p].leases[i].state = "Executing"
                /\ tables[p].leases[i].req = u.leases[i].req,
         \A q \in Requests : txn'[q].pc = txn[q].pc
  PROVE  TablesOK' /\ ExecutesPast'
<1>1. \A a \in Providers : tables'[a] = IF a = p THEN u ELSE tables[a]
  BY DEF TransactionInv, TablesOK
<1>2. TablesOK'
  <2>1. tables' = [a \in Providers |-> tables'[a]]
    BY DEF TransactionInv, TablesOK
  <2>2. \A a \in Providers : TableOK(tables'[a])
    BY <1>1 DEF TransactionInv, TablesOK
  <2> QED  BY <2>1, <2>2 DEF TablesOK, TableOK, TableShape, LeaseShape
<1>3. ASSUME NEW q \in Requests, NEW a \in Providers, Executing(q, a)'
      PROVE  txn'[q].pc \in Past
  <2>1. PICK i \in DOMAIN tables'[a].leases :
          tables'[a].leases[i].req = q /\ tables'[a].leases[i].state = "Executing"
    BY <1>3 DEF Executing
  <2>2. CASE a = p
    <3>1. i \in DOMAIN u.leases /\ u.leases[i].req = q /\ u.leases[i].state = "Executing"
      BY <1>1, <2>1, <2>2
    <3>2. CASE txn[q].pc \in Past
      BY <3>2
    <3>3. CASE i \in DOMAIN tables[p].leases /\ tables[p].leases[i].state = "Executing"
               /\ tables[p].leases[i].req = q
      BY <3>3 DEF TransactionInv, ExecutesPast, Executing
    <3> QED  BY <3>1, <3>2, <3>3
  <2>3. CASE a # p
    BY <1>1, <2>1, <2>3 DEF TransactionInv, ExecutesPast, Executing
  <2> QED  BY <2>2, <2>3
<1> QED  BY <1>2, <1>3 DEF ExecutesPast

\* A call is handled: its reply, if q still waits for it, is the call's own.
LEMMA HandleStep ==
  ASSUME TransactionInv, NEW m \in calls, Handle(m)
  PROVE  TransactionInv'
<1> DEFINE o == handle(tables[m.p], m)
           q == m.q
           x == txn[q]
           y == [x EXCEPT !.reply = o.reply]
<1>1. m.p \in Providers /\ q \in Requests /\ m.op \in Operations /\ TableOK(tables[m.p])
  BY DEF TransactionInv, TablesOK
<1>2. /\ TableOK(o.table) /\ NoNewExecution(tables[m.p], o.table)
      /\ IsReply(o.reply) /\ (m.op = "PREPARE" => NamesLease(o.reply))
  BY <1>1, HandleTable
<1>3. /\ tables' = [tables EXCEPT ![m.p] = o.table] /\ UNCHANGED <<now, roles>>
      /\ granted \subseteq granted' /\ calls' \subseteq calls
      /\ m.op = "COMMIT" /\ o.reply.status => <<q, m.id>> \in granted'
      /\ \/ txn' = txn
         \/ Awaits(m) /\ txn' = [txn EXCEPT ![q] = y]
  BY DEF Handle, TransactionInv, TxnInv
<1> HIDE DEF o
<1>4. TxnOK(x, q) /\ CallOK(x, q) /\ CommitsGranted(x, q) /\ m # NoCall
  BY <1>1 DEF TransactionInv, TxnInv, Operations, NoCall
<1>5. /\ TxnShape(y) /\ y.pc = x.pc /\ y.prepared = x.prepared /\ y.committed = x.committed
      /\ y.next = x.next /\ y.call = x.call /\ y.reply = o.reply
  BY <1>4 DEF TxnOK, TxnShape
<1>6. Awaits(m) /\ txn'[q] = y => TxnOK(y, q) /\ CallOK(y, q) /\ CommitsGranted(txn[q], q)'
  <2> SUFFICES ASSUME x.call = m, txn'[q] = y
               PROVE  TxnOK(y, q) /\ CallOK(y, q) /\ CommitsGranted(txn[q], q)'
    BY DEF Awaits
  <2> HIDE DEF y, x
  <2>1. TxnOK(y, q)
    BY <1>4, <1>5 DEF TxnOK
  <2>2. CallOK(y, q)
    BY <1>2, <1>4, <1>5 DEF CallOK, NamesLease
  <2>3. x.pc = "committing" /\ o.reply.status => <<q, x.prepared[x.next].id>> \in granted'
    BY <1>3, <1>4 DEF CallOK
  <2> QED  BY <1>3, <1>4, <1>5, <2>1, <2>2, <2>3 DEF CommitsGranted
<1>7. TxnInv' /\ \A s \in Requests : txn'[s].pc = txn[s].pc
  <2>1. txn' = [s \in Requests |-> txn'[s]]
    BY <1>3 DEF TransactionInv, TxnInv
  <2>2. ASSUME NEW s \in Requests
        PROVE  /\ TxnOK(txn'[s], s) /\ CallOK(txn'[s], s) /\ CommitsGranted(txn[s], s)'
               /\ txn'[s].pc = txn[s].pc
    <3>1. TxnOK(txn[s], s) /\ CallOK(txn[s], s) /\ CommitsGranted(txn[s], s)
      BY DEF TransactionInv, TxnInv
    <3>2. CASE txn'[s] = txn[s]
      BY <1>3, <3>1, <3>2 DEF CommitsGranted
    <3>3. CASE Awaits(m) /\ s = q /\ txn'[s] = y
      BY <1>5, <1>6, <3>3
    <3>4. \/ txn'[s] = txn[s]
          \/ Awaits(m) /\ s = q /\ txn'[s] = y
      BY <1>3 DEF TransactionInv, TxnInv
    <3> QED  BY <3>2, <3>3, <3>4
  <2> QED  BY <2>1, <2>2 DEF TxnInv, TxnOK, CallOK
<1>8. TablesOK' /\ ExecutesPast'
  BY <1>1, <1>2, <1>3, <1>7, TableStep DEF NoNewExecution
<1> QED  BY <1>3, <1>7, <1>8 DEF TransactionInv

LEMMA StartRoleStep ==
  ASSUME TransactionInv, NEW q \in Requests, NEW p \in Providers, NEW r \in Roles, StartRole(q, p, r)
  PROVE  TransactionInv'
<1> DEFINE l == LeaseOf(q, p)
           idem == <<"activate", q>>
           o == validateAndActivate(tables[p], now, l.id, l.epoch, q, Plan, idem, now + HardDeadline)
           u == o.table
<1>1. TableOK(tables[p])
  BY DEF TransactionInv, TablesOK
<1>2. /\ txn[q].pc \in Past /\ tables' = [tables EXCEPT ![p] = u]
      /\ roles' = [roles EXCEPT ![q][p][r] = IF o.reply.status THEN "running" ELSE "refused"]
      /\ UNCHANGED <<now, txn, calls, granted>>
  BY DEF StartRole, user, Past
<1> HIDE DEF l, idem
<1>3. /\ TableOK(u)
      /\ \A i \in DOMAIN u.leases :
           u.leases[i].state = "Executing"
             => \/ u.leases[i].req = q
                \/ /\ i \in DOMAIN tables[p].leases /\ tables[p].leases[i].state = "Executing"
                   /\ tables[p].leases[i].req = u.leases[i].req
  BY <1>1, ActivateTable
<1> HIDE DEF o, u
<1>4. TablesOK' /\ ExecutesPast'
  BY <1>2, <1>3, TableStep
<1>5. roles' \in [Requests -> [Providers -> [Roles -> RoleStates]]]
  BY <1>2 DEF TransactionInv, RoleStates
<1>6. TxnInv'
  BY <1>2 DEF TransactionInv, TxnInv, TxnOK, CallOK, CommitsGranted, TxnShape
<1> QED  BY <1>2, <1>4, <1>5, <1>6 DEF TransactionInv

LEMMA EndRoleStep ==
  ASSUME TransactionInv, NEW q \in Requests, NEW p \in Providers, NEW r \in Roles, EndRole(q, p, r)
  PROVE  TransactionInv'
<1> DEFINE l == LeaseOf(q, p)
           done == {s \in Roles : roles[q][p][s] = "done"} \cup {r}
           idem == <<"provider-complete", l.id>>
           rel == release(tables[p], now, l.id, l.epoch, Owner[q], idem).table
           u == IF done = Roles THEN rel ELSE tables[p]
<1>1. TableOK(tables[p])
  BY DEF TransactionInv, TablesOK
<1>2. /\ tables' = [tables EXCEPT ![p] = u] /\ roles' = [roles EXCEPT ![q][p][r] = "done"]
      /\ UNCHANGED <<now, txn, calls, granted>>
  BY DEF EndRole, user
<1> HIDE DEF l, idem, done
<1>3. TableOK(rel) /\ NoNewExecution(tables[p], rel)
  BY <1>1, ReleaseTable
<1> HIDE DEF rel
<1>4. TableOK(u) /\ NoNewExecution(tables[p], u)
  BY <1>1, <1>3 DEF NoNewExecution
<1> HIDE DEF u
<1>5. TablesOK' /\ ExecutesPast'
  BY <1>2, <1>4, TableStep DEF NoNewExecution
<1>6. roles' \in [Requests -> [Providers -> [Roles -> RoleStates]]]
  BY <1>2 DEF TransactionInv, RoleStates
<1>7. TxnInv'
  BY <1>2 DEF TransactionInv, TxnInv, TxnOK, CallOK, CommitsGranted, TxnShape
<1> QED  BY <1>2, <1>5, <1>6, <1>7 DEF TransactionInv

LEMMA NewTableOK ==
  ASSUME NEW e \in Epochs
  PROVE  TableOK(NewTable(e)) /\ DOMAIN NewTable(e).leases = {}
BY DEF TableOK, TableShape, NewTable

LEMMA RestartStep ==
  ASSUME TransactionInv, NEW p \in Providers, Restart(p)
  PROVE  TransactionInv'
<1> DEFINE e == <<p, tables[p].epoch[2] + 1>>
           u == NewTable(e)
<1>1. TableOK(tables[p])
  BY DEF TransactionInv, TablesOK
<1>2. e \in Epochs
  BY <1>1 DEF TableOK, Epochs
<1>3. tables' = [tables EXCEPT ![p] = u] /\ UNCHANGED <<now, txn, calls, granted>>
  BY DEF Restart, user
<1> HIDE DEF e
<1>4. TableOK(u) /\ DOMAIN u.leases = {}
  BY <1>2, NewTableOK
<1> HIDE DEF u
<1>5. TablesOK' /\ ExecutesPast'
  BY <1>3, <1>4, TableStep
<1>6. roles' \in [Requests -> [Providers -> [Roles -> RoleStates]]]
  BY DEF Restart, TransactionInv, RoleStates
<1>7. TxnInv'
  BY <1>3 DEF TransactionInv, TxnInv, TxnOK, CallOK, CommitsGranted, TxnShape
<1> QED  BY <1>3, <1>5, <1>6, <1>7 DEF TransactionInv

LEMMA TickStep ==
  ASSUME TransactionInv, Tick
  PROVE  TransactionInv'
<1>1. now' \in 0..MaxTime
  BY LeaseTransactionAssumption DEF TransactionInv, Tick
<1>2. UNCHANGED <<tables, roles, granted, txn, calls>>
  BY DEF Tick, user, provider
<1>3. TxnInv'
  BY <1>2 DEF TransactionInv, TxnInv, TxnOK, CallOK, CommitsGranted, TxnShape
<1>4. TablesOK'
  BY <1>2 DEF TransactionInv, TablesOK
<1>5. ExecutesPast'
  BY <1>2 DEF TransactionInv, ExecutesPast, Executing
<1> QED  BY <1>1, <1>2, <1>3, <1>4, <1>5 DEF TransactionInv

-----------------------------------------------------------------------------
LEMMA InvInit ==
  ASSUME Init
  PROVE  TransactionInv
<1>1. \A p \in Providers : TableOK(tables[p]) /\ DOMAIN tables[p].leases = {}
  BY NewTableOK DEF Init, Epochs
<1>2. TablesOK /\ ExecutesPast
  BY <1>1 DEF Init, TablesOK, ExecutesPast, Executing
<1>3. ASSUME NEW q \in Requests
      PROVE  TxnOK(Start, q) /\ CallOK(Start, q) /\ CommitsGranted(Start, q)
  <2>1. Len(Assignment[q]) \in Nat
    BY LeaseTransactionAssumption
  <2>2. /\ TxnShape(Start) /\ Start.pc = "idle" /\ Start.prepared = <<>> /\ Start.committed = 0
        /\ Start.next = 1 /\ Start.call = NoCall /\ Start.reply = NoReply
    BY DEF Start, TxnShape
  <2> QED  BY <2>1, <2>2 DEF TxnOK, CallOK, CommitsGranted, Positions, Past
<1>4. TxnInv
  BY <1>3 DEF Init, TxnInv
<1> QED  BY <1>2, <1>4, LeaseTransactionAssumption DEF Init, TransactionInv, RoleStates

LEMMA InvStep ==
  ASSUME TransactionInv, [Next]_vars
  PROVE  TransactionInv'
<1>1. CASE UNCHANGED vars
  <2>1. UNCHANGED <<now, tables, roles, granted, txn, calls>>
    BY <1>1 DEF vars
  <2> QED  BY <2>1 DEF TransactionInv, TxnInv, TxnOK, CallOK, CommitsGranted, TxnShape, TablesOK,
                       ExecutesPast, Executing
<1>2. CASE Next
  BY <1>2, UserSteps, HandleStep, StartRoleStep, EndRoleStep, RestartStep, TickStep DEF Next
<1> QED  BY <1>1, <1>2

LEMMA InvAlways == Spec => []TransactionInv
<1>1. Init => TransactionInv
  BY InvInit
<1>2. TransactionInv /\ [Next]_vars => TransactionInv'
  BY InvStep
<1> QED  BY <1>1, <1>2, PTL DEF Spec

\* Transactions, calls and roles keep the forms that acquire(), execute() and
\* release() rely on, in every interleaving with the providers.
THEOREM TypeCorrect == Spec => []TypeOK
<1>1. TransactionInv => TypeOK
  BY DEF TransactionInv, TypeOK, TxnInv, TxnOK, CallOK, RoleStates
<1> QED  BY <1>1, InvAlways, PTL

\* If one provider executes q, every provider of q granted the COMMIT of the
\* lease that q holds there, whatever calls are lost, repeated or late and
\* whichever providers restart.
THEOREM PartialCommitIsNeverExecuted == Spec => []PartialCommitNeverExecutes
<1>1. TransactionInv => PartialCommitNeverExecutes
  <2> SUFFICES ASSUME TransactionInv, NEW q \in Requests, NEW p \in Providers, Executing(q, p)
               PROVE  /\ Len(txn[q].prepared) = Len(Assignment[q])
                      /\ \A i \in DOMAIN txn[q].prepared : <<q, txn[q].prepared[i].id>> \in granted
    BY DEF PartialCommitNeverExecutes
  <2>1. txn[q].pc \in Past /\ TxnOK(txn[q], q) /\ CommitsGranted(txn[q], q)
    BY DEF TransactionInv, ExecutesPast, TxnInv
  <2>2. DOMAIN txn[q].prepared = 1..Len(txn[q].prepared)
    BY <2>1 DEF TxnOK
  <2> QED  BY <2>1, <2>2 DEF CommitsGranted
<1> QED  BY <1>1, InvAlways, PTL

-----------------------------------------------------------------------------
(***************************************************************************)
(* Nothing is left behind.  A provider remembers under the idempotency key *)
(* of a call only what happened to the lease that the key names, so a call *)
(* refused because of its key finds that lease ended already.              *)
(***************************************************************************)

Named == {"COMMIT", "ABORT", "RELEASE"}

\* k is the key of a call that names lease k[2][3].
CallKey(k) == k[1] \in Named /\ k[2][1] = k[1]

LogOK(t) ==
  \A k \in DOMAIN t.replays :
    CallKey(k) => /\ k[2][3] \in DOMAIN t.leases /\ t.leases[k[2][3]].state # "Prepared"
                  /\ k[1] # "COMMIT" => ~isActive(t.leases[k[2][3]].state)

\* From t to u no lease became active and none went back to Prepared.
Settles(t, u) ==
  /\ u.epoch = t.epoch /\ DOMAIN u.leases = DOMAIN t.leases
  /\ \A i \in DOMAIN t.leases :
       /\ u.leases[i].req = t.leases[i].req
       /\ isActive(u.leases[i].state) => isActive(t.leases[i].state)
       /\ u.leases[i].state = "Prepared" => t.leases[i].state = "Prepared"

LEMMA SettledLog ==
  ASSUME NEW t, NEW u, LogOK(t), Settles(t, u), u.replays = t.replays
  PROVE  LogOK(u)
BY DEF LogOK, Settles

LEMMA SettlesTwice ==
  ASSUME NEW t, NEW u, NEW v, Settles(t, u), Settles(u, v)
  PROVE  Settles(t, v)
BY DEF Settles

LEMMA CleanupSettles ==
  ASSUME NEW t, TableOK(t), LogOK(t), NEW r
  PROVE  Settles(t, cleanupExpiredLocked(t, r)) /\ LogOK(cleanupExpiredLocked(t, r))
<1> DEFINE c == cleanupExpiredLocked(t, r)
<1>1. /\ c.leases = [i \in DOMAIN t.leases |-> expireIfNeeded(t.leases[i], r)]
      /\ c.epoch = t.epoch /\ c.replays = t.replays
  BY DEF cleanupExpiredLocked, TableOK, TableShape
<1> HIDE DEF c
<1>2. ASSUME NEW i \in DOMAIN t.leases
      PROVE  /\ c.leases[i].req = t.leases[i].req
             /\ c.leases[i].state \in {t.leases[i].state, "Expired"}
  <2> DEFINE l == t.leases[i]
  <2>1. LeaseShape(l)
    BY DEF TableOK
  <2>2. c.leases[i] = l \/ c.leases[i] = [l EXCEPT !.state = "Expired"]
    BY <1>1 DEF expireIfNeeded
  <2> HIDE DEF l
  <2> QED  BY <2>1, <2>2 DEF LeaseShape, l
<1>3. Settles(t, c)
  BY <1>1, <1>2 DEF Settles, isActive
<1> QED  BY <1>1, <1>3, SettledLog DEF c

\* The update of an operation that names a lease settles it further.
Update(t, op, idem, id, updated) ==
  /\ updated.req = t.leases[id].req /\ updated.state # "Prepared"
  /\ isActive(updated.state) => isActive(t.leases[id].state)
  /\ CallKey(<<op, idem>>) => idem[3] = id /\ (op # "COMMIT" => ~isActive(updated.state))

LEMMA OnLeaseSettles ==
  ASSUME NEW t, TableOK(t), LogOK(t), NEW op, NEW idem, NEW fp, NEW epoch, NEW id, NEW why,
         NEW updated, NEW replay,
         id \in DOMAIN t.leases /\ why = "OK" => LeaseShape(updated) /\ Update(t, op, idem, id, updated)
  PROVE  LET u == OnLease(t, op, idem, fp, epoch, id, why, updated, replay).table
         IN  Settles(t, u) /\ LogOK(u)
<1> DEFINE u == OnLease(t, op, idem, fp, epoch, id, why, updated, replay).table
<1>1. /\ \A i \in DOMAIN u.leases :
           i \in DOMAIN t.leases
             /\ (u.leases[i] = t.leases[i] \/ (i = id /\ why = "OK" /\ u.leases[i] = updated))
      /\ u.epoch = t.epoch /\ DOMAIN u.leases = DOMAIN t.leases
      /\ \/ u = t
         \/ /\ id \in DOMAIN t.leases /\ why = "OK" /\ u.leases[id] = updated
            /\ DOMAIN u.replays = DOMAIN t.replays \cup {<<op, idem>>}
  BY OnLeaseTable
<1> HIDE DEF u
<1>2. Settles(t, u)
  BY <1>1 DEF Settles, Update
<1>3. CASE u = t
  BY <1>2, <1>3 DEF u
<1>4. CASE /\ id \in DOMAIN t.leases /\ why = "OK" /\ u.leases[id] = updated
           /\ DOMAIN u.replays = DOMAIN t.replays \cup {<<op, idem>>}
  <2>1. ASSUME NEW k \in DOMAIN u.replays, CallKey(k)
        PROVE  /\ k[2][3] \in DOMAIN u.leases /\ u.leases[k[2][3]].state # "Prepared"
               /\ k[1] # "COMMIT" => ~isActive(u.leases[k[2][3]].state)
    <3>1. CASE k \in DOMAIN t.replays
      BY <1>2, <2>1, <3>1 DEF LogOK, Settles
    <3>2. CASE k = <<op, idem>>
      BY <1>1, <1>4, <2>1, <3>2 DEF Update
    <3> QED  BY <1>4, <3>1, <3>2
  <2> QED  BY <1>2, <2>1 DEF LogOK, u
<1> QED  BY <1>1, <1>3, <1>4

\* The operations of the table by their updates: s is the state they give.
LEMMA UpdateSettles ==
  ASSUME NEW t, TableOK(t), LogOK(t), NEW r, NEW op, NEW idem, NEW fp, NEW epoch, NEW id, NEW why,
         NEW s \in {"Committed", "Aborted", "Released"}, NEW replay,
         LET c == cleanupExpiredLocked(t, r) IN
           id \in DOMAIN c.leases /\ why = "OK" /\ s = "Committed" => isActive(c.leases[id].state),
         CallKey(<<op, idem>>) => idem[3] = id /\ (op # "COMMIT" => s # "Committed")
  PROVE  LET c == cleanupExpiredLocked(t, r)
             u == OnLease(c, op, idem, fp, epoch, id, why, [c.leases[id] EXCEPT !.state = s], replay).table
         IN  Settles(c, u) /\ Settles(t, u) /\ LogOK(u)
<1> DEFINE c == cleanupExpiredLocked(t, r)
           new == [c.leases[id] EXCEPT !.state = s]
           u == OnLease(c, op, idem, fp, epoch, id, why, new, replay).table
<1>1. TableOK(c) /\ LogOK(c) /\ Settles(t, c)
  BY CleanupTable, CleanupSettles
<1>2. id \in DOMAIN c.leases => LeaseShape(new) /\ new.state = s /\ new.req = c.leases[id].req
  <2> HIDE DEF c
  <2> QED  BY <1>1 DEF TableOK, LeaseShape
<1>3. id \in DOMAIN c.leases /\ why = "OK" /\ s = "Committed" => isActive(c.leases[id].state)
  OBVIOUS
<1> HIDE DEF c, new
<1>4. id \in DOMAIN c.leases /\ why = "OK" => LeaseShape(new) /\ Update(c, op, idem, id, new)
  BY <1>2, <1>3 DEF Update, isActive
<1>5. Settles(c, u) /\ LogOK(u)
  BY <1>1, <1>4, OnLeaseSettles
<1> HIDE DEF u
<1> QED  BY <1>1, <1>5, SettlesTwice DEF c, new, u

LEMMA CommitSettles ==
  ASSUME NEW t, TableOK(t), LogOK(t), NEW r, NEW id, NEW epoch, NEW who, NEW q
  PROVE  LET o == commit(t, r, id, epoch, who, <<"COMMIT", q, id>>) IN
         /\ Settles(t, o.table) /\ LogOK(o.table)
         /\ o.reply.status /\ id \in DOMAIN o.table.leases => o.table.leases[id].state # "Prepared"
<1> DEFINE idem == <<"COMMIT", q, id>>
           c == cleanupExpiredLocked(t, r)
           l == c.leases[id]
           fp == <<id, epoch, who>>
           why == IF l.state = "Expired" THEN "LEASE_EXPIRED"
                  ELSE IF Owner[l.req] # who THEN "LEASE_REQUESTER_MISMATCH"
                  ELSE IF l.state # "Prepared" THEN "LEASE_INVALID_TRANSITION" ELSE "OK"
           new == [l EXCEPT !.state = "Committed"]
           fresh == FALSE
           o == OnLease(c, "COMMIT", idem, fp, epoch, id, why, new, fresh)
           k == <<"COMMIT", idem>>
<1>1. o = commit(t, r, id, epoch, who, idem)
  BY DEF commit
<1>2. why = "OK" => isActive(l.state)
  BY DEF isActive
<1>3. CallKey(k) /\ idem[3] = id /\ k[2][3] = id
  BY DEF CallKey, Named
<1> HIDE DEF why, fp, fresh, idem
<1>4. Settles(t, o.table) /\ LogOK(o.table) /\ Settles(c, o.table)
  BY <1>2, <1>3, UpdateSettles
<1>5. TableOK(c) /\ LogOK(c)
  BY CleanupTable, CleanupSettles
<1>6. ASSUME o.reply.status, id \in DOMAIN o.table.leases
      PROVE  o.table.leases[id].state # "Prepared"
  <2> HIDE DEF c
  <2>1. CASE k \in DOMAIN c.replays
    <3>1. id \in DOMAIN c.leases /\ c.leases[id].state # "Prepared"
      BY <1>3, <1>5, <2>1 DEF LogOK
    <3> HIDE DEF o
    <3> QED  BY <1>4, <3>1 DEF Settles
  <2>2. CASE k \notin DOMAIN c.replays
    <3>1. /\ \A u, reason : ~reject(u, reason).reply.status
          /\ \A u, i, x, b : success(u, i, x, b).table = u
      BY DEF reject, success
    <3>2. /\ id \in DOMAIN c.leases
          /\ o = success(rememberReplay([c EXCEPT !.leases[id] = new], "COMMIT", idem, fp, id, new),
                         id, new, fresh)
      <4> HIDE DEF new
      <4> QED  BY <1>6, <2>2, <3>1 DEF OnLease, replayOrConflict
    <3> DEFINE m == [c EXCEPT !.leases[id] = new]
               n == rememberReplay(m, "COMMIT", idem, fp, id, new)
    <3>3. LeaseShape(l)
      BY <1>5, <3>2 DEF TableOK
    <3>4. new.state = "Committed"
      <4> HIDE DEF l
      <4> QED  BY <3>3 DEF LeaseShape
    <3> HIDE DEF new
    <3>5. TableShape(m) /\ m.leases = [c.leases EXCEPT ![id] = new]
      BY <1>5 DEF TableOK, TableShape
    <3> HIDE DEF m
    <3>6. n.leases = m.leases
      BY <3>5 DEF rememberReplay, TableShape
    <3> HIDE DEF n
    <3>7. o.table = n
      BY <3>1, <3>2 DEF n, m
    <3> HIDE DEF o
    <3> QED  BY <1>5, <3>2, <3>4, <3>5, <3>6, <3>7 DEF TableOK
  <2> QED  BY <2>1, <2>2
<1> HIDE DEF o
<1> QED  BY <1>1, <1>4, <1>6 DEF idem

\* A call that ends an active lease it may end, ends it.
LEMMA OnLeaseEnds ==
  ASSUME NEW c, TableOK(c), LogOK(c), NEW op \in {"ABORT", "RELEASE"}, NEW q, NEW id \in DOMAIN c.leases,
         NEW fp, NEW why, NEW new, NEW replay, <<op, q, id>> # NoIdem,
         isActive(c.leases[id].state) => why = "OK",
         LeaseShape(new), ~isActive(new.state), new.req = c.leases[id].req
  PROVE  ~isActive(OnLease(c, op, <<op, q, id>>, fp, c.epoch, id, why, new, replay).table.leases[id].state)
<1> DEFINE idem == <<op, q, id>>
           k == <<op, idem>>
           o == OnLease(c, op, idem, fp, c.epoch, id, why, new, replay)
<1>1. CallKey(k) /\ k[2][3] = id /\ idem[3] = id /\ k[1] # "COMMIT"
  BY DEF CallKey, Named
<1> HIDE DEF idem
<1>2. Update(c, op, idem, id, new)
  BY <1>1 DEF Update, isActive
<1>3. Settles(c, o.table)
  BY <1>2, OnLeaseSettles
<1>4. CASE ~isActive(c.leases[id].state)
  <2> HIDE DEF o
  <2> QED  BY <1>3, <1>4 DEF Settles, o, idem
<1>5. CASE isActive(c.leases[id].state)
  <2>1. k \notin DOMAIN c.replays
    BY <1>1, <1>5 DEF LogOK
  <2> DEFINE m == [c EXCEPT !.leases[id] = new]
             n == rememberReplay(m, op, idem, fp, id, new)
  <2>2. o = success(n, id, new, replay)
    BY <1>5, <2>1 DEF OnLease, replayOrConflict, idem
  <2>3. TableShape(m) /\ m.leases = [c.leases EXCEPT ![id] = new]
    BY DEF TableOK, TableShape
  <2> HIDE DEF m
  <2>4. n.leases = m.leases
    BY <2>3 DEF rememberReplay, TableShape
  <2> HIDE DEF n
  <2>5. o.table = n
    BY <2>2 DEF success
  <2> HIDE DEF o
  <2> QED  BY <2>3, <2>4, <2>5 DEF TableOK, o, idem
<1> QED  BY <1>4, <1>5

\* Unless it executes, an active lease of the caller is ended by its ABORT.
LEMMA AbortSettles ==
  ASSUME NEW t, TableOK(t), LogOK(t), NEW r, NEW id, NEW epoch, NEW who, NEW q
  PROVE  LET o == abort(t, r, id, epoch, who, <<"ABORT", q, id>>) IN
         /\ Settles(t, o.table) /\ LogOK(o.table)
         /\ /\ id \in DOMAIN t.leases /\ epoch = t.epoch /\ Owner[t.leases[id].req] = who
            /\ t.leases[id].state # "Executing" /\ <<"ABORT", q, id>> # NoIdem
            => ~isActive(o.table.leases[id].state)
<1> DEFINE idem == <<"ABORT", q, id>>
           c == cleanupExpiredLocked(t, r)
           l == c.leases[id]
           fp == <<id, epoch, who>>
           why == IF Owner[l.req] # who THEN "LEASE_REQUESTER_MISMATCH"
                  ELSE IF l.state \notin {"Prepared", "Committed"} THEN "LEASE_INVALID_TRANSITION"
                  ELSE "OK"
           new == [l EXCEPT !.state = "Aborted"]
           fresh == FALSE
           o == OnLease(c, "ABORT", idem, fp, epoch, id, why, new, fresh)
<1>1. o = abort(t, r, id, epoch, who, idem)
  BY DEF abort
<1>2. CallKey(<<"ABORT", idem>>) /\ idem[3] = id
  BY DEF CallKey, Named
<1>3. TableOK(c) /\ LogOK(c) /\ Settles(t, c) /\ NoNewExecution(t, c)
  BY CleanupTable, CleanupSettles
<1> HIDE DEF fp, fresh, idem
<1>4. Settles(t, o.table) /\ LogOK(o.table)
  <2> HIDE DEF why
  <2> QED  BY <1>2, UpdateSettles
<1>5. ASSUME id \in DOMAIN t.leases, epoch = t.epoch, Owner[t.leases[id].req] = who,
             t.leases[id].state # "Executing", idem # NoIdem
      PROVE  ~isActive(o.table.leases[id].state)
  <2> HIDE DEF c
  <2>1. id \in DOMAIN c.leases /\ c.epoch = t.epoch /\ l.req = t.leases[id].req /\ l.state # "Executing"
    BY <1>3, <1>5 DEF Settles, NoNewExecution
  <2>2. isActive(l.state) => why = "OK"
    BY <1>5, <2>1 DEF isActive
  <2>3. LeaseShape(l)
    BY <1>3, <2>1 DEF TableOK
  <2>4. LeaseShape(new) /\ new.state = "Aborted" /\ new.req = l.req
    <3> HIDE DEF l
    <3> QED  BY <2>3 DEF LeaseShape
  <2> HIDE DEF why, new
  <2> QED  BY <1>3, <1>5, <2>1, <2>2, <2>4, OnLeaseEnds DEF idem, isActive
<1> HIDE DEF o
<1> QED  BY <1>1, <1>4, <1>5 DEF idem

\* Once it is committed, an active lease of the caller is ended by its RELEASE.
LEMMA ReleaseSettles ==
  ASSUME NEW t, TableOK(t), LogOK(t), NEW r, NEW id, NEW epoch, NEW who, NEW idem,
         idem[1] = "RELEASE" => idem[3] = id
  PROVE  LET o == release(t, r, id, epoch, who, idem) IN
         /\ Settles(t, o.table) /\ LogOK(o.table)
         /\ \A q : /\ id \in DOMAIN t.leases /\ epoch = t.epoch /\ Owner[t.leases[id].req] = who
                   /\ t.leases[id].state # "Prepared"
                   /\ idem = <<"RELEASE", q, id>> /\ idem # NoIdem
                   => ~isActive(o.table.leases[id].state)
<1> DEFINE c == cleanupExpiredLocked(t, r)
           l == c.leases[id]
           fp == <<id, epoch, who>>
           why == IF Owner[l.req] # who THEN "LEASE_REQUESTER_MISMATCH"
                  ELSE IF l.state \notin {"Released", "Committed", "Executing"}
                  THEN "LEASE_INVALID_TRANSITION" ELSE "OK"
           new == [l EXCEPT !.state = "Released"]
           again == l.state = "Released"
           o == OnLease(c, "RELEASE", idem, fp, epoch, id, why, new, again)
<1>1. o = release(t, r, id, epoch, who, idem)
  BY DEF release
<1>2. CallKey(<<"RELEASE", idem>>) => idem[3] = id
  BY DEF CallKey, Named
<1>3. TableOK(c) /\ LogOK(c) /\ Settles(t, c)
  BY CleanupTable, CleanupSettles
<1> HIDE DEF fp, again
<1>4. Settles(t, o.table) /\ LogOK(o.table)
  <2> HIDE DEF why
  <2> QED  BY <1>2, UpdateSettles
<1>5. ASSUME NEW q, id \in DOMAIN t.leases, epoch = t.epoch, Owner[t.leases[id].req] = who,
             t.leases[id].state # "Prepared", idem = <<"RELEASE", q, id>>, idem # NoIdem
      PROVE  ~isActive(o.table.leases[id].state)
  <2> HIDE DEF c
  <2>1. id \in DOMAIN c.leases /\ c.epoch = t.epoch /\ l.req = t.leases[id].req /\ l.state # "Prepared"
    BY <1>3, <1>5 DEF Settles
  <2>2. isActive(l.state) => why = "OK"
    BY <1>5, <2>1 DEF isActive
  <2>3. LeaseShape(l)
    BY <1>3, <2>1 DEF TableOK
  <2>4. LeaseShape(new) /\ new.state = "Released" /\ new.req = l.req
    <3> HIDE DEF l
    <3> QED  BY <2>3 DEF LeaseShape
  <2> HIDE DEF why, new
  <2> QED  BY <1>3, <1>5, <2>1, <2>2, <2>4, OnLeaseEnds DEF isActive
<1> HIDE DEF o
<1> QED  BY <1>1, <1>4, <1>5

LEMMA ActivateSettles ==
  ASSUME NEW t, TableOK(t), LogOK(t), NEW r, NEW id, NEW epoch, NEW q, NEW plan, NEW idem, NEW deadline
  PROVE  LET u == validateAndActivate(t, r, id, epoch, q, plan, idem, deadline).table
         IN  Settles(t, u) /\ LogOK(u)
<1> DEFINE c == cleanupExpiredLocked(t, r)
           l == c.leases[id]
           new == [l EXCEPT !.state = "Executing", !.deadline = deadline]
           v == ActivationRefusal(l, q, plan)
           why == IF v = "OK" /\ deadline <= r THEN "LEASE_EXPIRED" ELSE v
           fp == <<id, epoch, deadline, q, plan>>
           fresh == FALSE
           u == OnLease(c, "VALIDATE_AND_ACTIVATE", idem, fp, epoch, id, why, new, fresh).table
<1>1. TableOK(c) /\ LogOK(c) /\ Settles(t, c)
  BY CleanupTable, CleanupSettles
<1>2. u = validateAndActivate(t, r, id, epoch, q, plan, idem, deadline).table
  BY DEF validateAndActivate
<1>3. id \in DOMAIN c.leases /\ why = "OK"
        => LeaseShape(new) /\ Update(c, "VALIDATE_AND_ACTIVATE", idem, id, new)
  <2> HIDE DEF c
  <2>1. why = "OK" => l.state = "Committed"
    BY DEF ActivationRefusal
  <2>2. id \in DOMAIN c.leases => LeaseShape(l)
    BY <1>1 DEF TableOK
  <2>3. LeaseShape(l) => LeaseShape(new) /\ new.state = "Executing" /\ new.req = l.req
    <3> HIDE DEF l
    <3> QED  BY DEF LeaseShape
  <2> HIDE DEF new, why
  <2> QED  BY <2>1, <2>2, <2>3 DEF Update, isActive, CallKey, Named
<1> HIDE DEF c, new, why, fp, fresh
<1>4. Settles(c, u) /\ LogOK(u)
  BY <1>1, <1>3, OnLeaseSettles
<1> HIDE DEF u
<1> QED  BY <1>1, <1>2, <1>4, SettlesTwice

\* i was active before, and Prepared if it still is.
Kept(t, u, i) ==
  /\ i \in DOMAIN t.leases /\ isActive(t.leases[i].state) /\ u.leases[i].req = t.leases[i].req
  /\ u.leases[i].state = "Prepared" => t.leases[i].state = "Prepared"

\* A lease that a PREPARE makes active is the one its reply names.
LEMMA PrepareSettles ==
  ASSUME NEW t, TableOK(t), LogOK(t), NEW r, NEW q, NEW plan, NEW ks, NEW e, NEW idem
  PROVE  LET o == prepare(t, r, q, plan, ks, e, idem, NoLease) IN
         /\ LogOK(o.table) /\ o.table.epoch = t.epoch
         /\ \A i \in DOMAIN o.table.leases :
              isActive(o.table.leases[i].state) =>
                \/ Kept(t, o.table, i)
                \/ /\ o.reply.status /\ o.reply.id = i /\ o.reply.epoch = t.epoch
                   /\ o.table.leases[i].req = q
<1> DEFINE c == cleanupExpiredLocked(t, r)
           a == pruneWaiters(c, r)
           fp == <<q, plan, ks, e>>
           w == Enqueue(a, q, ks, e)
           d == Dequeue(a, q, ks)
           o == prepare(t, r, q, plan, ks, e, idem, NoLease)
           ad == Admit(d, q, plan, ks, e, idem, fp, NoLease)
<1>1. TableOK(c) /\ LogOK(c) /\ Settles(t, c)
  BY CleanupTable, CleanupSettles
<1> HIDE DEF c
<1>2. TableOK(a) /\ a.leases = c.leases /\ a.replays = c.replays /\ a.epoch = c.epoch
  BY <1>1, QueuesTable DEF pruneWaiters
<1> HIDE DEF a
<1>3. /\ w.leases = a.leases /\ w.replays = a.replays /\ w.epoch = a.epoch
      /\ TableOK(d) /\ d.leases = a.leases /\ d.replays = a.replays /\ d.epoch = a.epoch
  BY <1>2, QueuesTable DEF Enqueue, Dequeue
<1> HIDE DEF w, d, fp
<1>4. \/ o.table = a \/ o.table = w \/ o = ad
  <2>1. /\ \A u, reason : reject(u, reason).table = u
        /\ replayed(a, "PREPARE", idem).table = a
    BY DEF reject, replayed, success
  <2> HIDE DEF ad
  <2> QED  BY <2>1 DEF prepare, c, a, fp, w, d, ad
<1>5. /\ Settles(t, a) /\ LogOK(a) /\ Settles(t, w) /\ LogOK(w) /\ Settles(t, d) /\ LogOK(d)
  BY <1>1, <1>2, <1>3 DEF Settles, LogOK
<1> HIDE DEF o, ad
<1>6. CASE o.table = a \/ o.table = w
  BY <1>5, <1>6 DEF Settles, Kept, o
<1>7. CASE o = ad
  <2> DEFINE lease == [req |-> q, plan |-> plan, keys |-> ks, expiresAt |-> e,
                       deadline |-> 0, state |-> "Prepared"]
             id == <<d.epoch, d.next>>
             all == Emplace(d.leases, id, lease)
             made == WithLeases(d, d.next + 1, all)
             n == rememberReplay(made, "PREPARE", idem, fp, id, lease)
             fresh == FALSE
  <2>1. ad = success(n, id, lease, fresh)
    BY DEF Admit, ad
  <2>2. lease.req = q /\ lease.state = "Prepared"
    OBVIOUS
  <2> HIDE DEF id, lease
  <2>3. /\ \A i \in DOMAIN d.leases : i \in DOMAIN all /\ all[i] = d.leases[i]
        /\ \A i \in DOMAIN all : i \in DOMAIN d.leases \/ (i = id /\ all[i] = lease)
    BY DEF Emplace, Assign
  <2> HIDE DEF all
  <2>4. /\ TableShape(made) /\ made.leases = all /\ made.epoch = d.epoch /\ made.replays = d.replays
    BY <1>3 DEF WithLeases, TableOK, TableShape
  <2> HIDE DEF made
  <2>5. /\ n.leases = all /\ n.epoch = d.epoch
        /\ DOMAIN n.replays = DOMAIN d.replays \cup {<<"PREPARE", idem>>}
    BY <2>4 DEF rememberReplay, TableShape, Assign
  <2> HIDE DEF n
  <2>6. /\ ad.table = n /\ ad.reply.status /\ ad.reply.id = id /\ ad.reply.epoch = n.epoch
    BY <2>1 DEF success
  <2>7. ~CallKey(<<"PREPARE", idem>>)
    BY DEF CallKey, Named
  <2>8. LogOK(n)
    BY <1>5, <2>3, <2>5, <2>7 DEF LogOK
  <2>9. n.epoch = t.epoch
    BY <1>5, <2>5 DEF Settles
  <2>10. ASSUME NEW i \in DOMAIN n.leases, isActive(n.leases[i].state)
         PROVE  Kept(t, n, i) \/ (id = i /\ n.leases[i].req = q)
    <3>1. CASE i \in DOMAIN d.leases
      BY <1>5, <2>3, <2>5, <2>10, <3>1 DEF Settles, Kept
    <3>2. CASE i = id /\ all[i] = lease
      BY <2>2, <2>5, <3>2
    <3> QED  BY <2>3, <2>5, <3>1, <3>2
  <2> QED  BY <1>7, <2>6, <2>8, <2>9, <2>10 DEF o
<1> QED  BY <1>4, <1>6, <1>7

-----------------------------------------------------------------------------
(* Every active lease is on its user's list. *)

\* Lease id of provider p, in state s and epoch e, is the i-th that x prepared,
\* and x will still end it with the operation that its state needs.
Listed(x, p, e, id, s, i) ==
  /\ x.prepared[i] = [p |-> p, id |-> id, epoch |-> e]
  /\ i <= x.committed => s # "Prepared"
  /\ x.pc \in {"cleaning", "releasing"} => x.next <= i /\ (x.next = i => x.reply = NoReply)
  /\ x.pc = "committing" /\ x.next = i /\ x.reply # NoReply /\ x.reply.status => s # "Prepared"
  /\ x.pc \notin {"idle", "sleeping", "done", "failed"}

\* The reply that x has yet to read names lease id.
Announced(x, p, e, id) ==
  /\ x.pc = "preparing" /\ x.reply # NoReply /\ x.reply.status
  /\ x.reply.id = id /\ x.reply.epoch = e /\ x.call.p = p

Accounted(x, t, q, p) ==
  \A id \in DOMAIN t.leases :
    t.leases[id].req = q /\ isActive(t.leases[id].state) =>
      \/ \E i \in 1..Len(x.prepared) : Listed(x, p, t.epoch, id, t.leases[id].state, i)
      \/ Announced(x, p, t.epoch, id)

\* The call under way is the one of the user's position.
CallsAreNext ==
  \A q \in Requests : txn[q].call # NoCall => HasNext(txn[q]) /\ txn[q].call = Call(q)

CommitsCounted == \A q \in Requests : txn[q].pc \in Past => txn[q].committed = Len(txn[q].prepared)

LogsOK == \A p \in Providers : LogOK(tables[p])

Tagged == \A m \in calls : m.op # "PREPARE" => m.tag = m.id

\* Without faults the calls under way are those that users wait for.
CallsAwaited ==
  /\ \A m \in calls : txn[m.q].call = m /\ txn[m.q].reply = NoReply
  /\ \A q \in Requests : txn[q].call # NoCall /\ txn[q].reply = NoReply => txn[q].call \in calls

AllAccounted == \A q \in Requests, p \in Providers : Accounted(txn[q], tables[p], q, p)

LeftInv ==
  /\ faults \in Nat
  /\ CallsAreNext /\ CommitsCounted /\ LogsOK /\ Tagged
  /\ faults = 0 => CallsAwaited /\ AllAccounted

\* A step of q's thread that makes no call.
LEMMA LeftUser ==
  ASSUME TransactionInv, LeftInv, NEW q \in Requests, NEW y,
         txn' = [txn EXCEPT ![q] = y], UNCHANGED <<tables, calls>>, faults' \in Nat,
         y.call = NoCall, y.reply = NoReply,
         y.pc \in Past => y.committed = Len(y.prepared),
         faults' = 0 =>
           /\ faults = 0 /\ (txn[q].call = NoCall \/ txn[q].reply # NoReply)
           /\ \A p \in Providers : Accounted(txn[q], tables[p], q, p) => Accounted(y, tables[p], q, p)
  PROVE  LeftInv'
<1>1. \A s \in Requests : txn'[s] = IF s = q THEN y ELSE txn[s]
  BY DEF TransactionInv, TxnInv
<1>2. CallsAreNext'
  <2> SUFFICES ASSUME NEW s \in Requests, txn'[s].call # NoCall
               PROVE  HasNext(txn'[s]) /\ txn'[s].call = Call(s)'
    BY DEF CallsAreNext, HasNext
  <2>1. txn'[s] = txn[s]
    BY <1>1
  <2>2. Call(s)' = Call(s)
    BY <2>1 DEF Call
  <2> QED  BY <2>1, <2>2 DEF LeftInv, CallsAreNext
<1>3. CommitsCounted'
  BY <1>1 DEF LeftInv, CommitsCounted
<1>4. LogsOK' /\ Tagged'
  BY DEF LeftInv, LogsOK, Tagged, LogOK
<1>5. ASSUME faults' = 0
      PROVE  CallsAwaited' /\ AllAccounted'
  <2>1. faults = 0 /\ CallsAwaited /\ AllAccounted
    BY <1>5 DEF LeftInv
  <2>2. CallsAwaited'
    <3>1. \A m \in calls : m.q \in Requests /\ m # NoCall
      BY DEF TransactionInv, Operations, NoCall
    <3>2. \A m \in calls : m.q # q
      BY <1>5, <2>1, <3>1 DEF CallsAwaited
    <3> QED  BY <1>1, <2>1, <3>1, <3>2 DEF CallsAwaited
  <2>3. ASSUME NEW s \in Requests, NEW p \in Providers
        PROVE  Accounted(txn'[s], tables[p], s, p)
    BY <1>1, <1>5, <2>1 DEF AllAccounted
  <2> QED  BY <2>2, <2>3 DEF AllAccounted, Accounted, Listed, Announced
<1> QED  BY <1>2, <1>3, <1>4, <1>5 DEF LeftInv

\* x has ended all its leases.
LEMMA NothingToAccount ==
  ASSUME NEW x, NEW y, NEW t, NEW q, NEW p, Accounted(x, t, q, p), Len(x.prepared) \in Nat,
         x.reply = NoReply,
         x.pc \in {"idle", "sleeping", "done", "failed"}
           \/ (x.pc \in {"cleaning", "releasing"} /\ x.next \in Nat /\ ~(x.next <= Len(x.prepared)))
  PROVE  Accounted(y, t, q, p)
<1>1. ASSUME NEW id \in DOMAIN t.leases, t.leases[id].req = q, isActive(t.leases[id].state)
      PROVE  FALSE
  <2>1. ~Announced(x, p, t.epoch, id)
    BY DEF Announced
  <2>2. PICK i \in 1..Len(x.prepared) : Listed(x, p, t.epoch, id, t.leases[id].state, i)
    BY <1>1, <2>1 DEF Accounted
  <2> QED  BY <2>2 DEF Listed
<1> QED  BY <1>1 DEF Accounted

\* x goes on with the same list: what was on it still is.
LEMMA StillAccounted ==
  ASSUME NEW x, NEW y, NEW t, NEW q, NEW p, Accounted(x, t, q, p),
         Len(x.prepared) \in Nat, Len(y.prepared) \in Nat, Len(x.prepared) <= Len(y.prepared),
         \A id, s : \A i \in 1..Len(x.prepared) :
           Listed(x, p, t.epoch, id, s, i) => Listed(y, p, t.epoch, id, s, i),
         \A id : Announced(x, p, t.epoch, id) =>
           \E i \in 1..Len(y.prepared) : \A s : Listed(y, p, t.epoch, id, s, i)
  PROVE  Accounted(y, t, q, p)
<1> SUFFICES ASSUME NEW id \in DOMAIN t.leases, t.leases[id].req = q, isActive(t.leases[id].state)
             PROVE  \E i \in 1..Len(y.prepared) : Listed(y, p, t.epoch, id, t.leases[id].state, i)
  BY DEF Accounted
<1>1. CASE Announced(x, p, t.epoch, id)
  BY <1>1
<1>2. CASE \E i \in 1..Len(x.prepared) : Listed(x, p, t.epoch, id, t.leases[id].state, i)
  <2>1. PICK i \in 1..Len(x.prepared) : Listed(x, p, t.epoch, id, t.leases[id].state, i)
    BY <1>2
  <2>2. i \in 1..Len(y.prepared) /\ Listed(y, p, t.epoch, id, t.leases[id].state, i)
    BY <2>1
  <2> QED  BY <2>2
<1> QED  BY <1>1, <1>2 DEF Accounted

\* The state of q's transaction that the steps below start from.
LEMMA TxnFacts ==
  ASSUME TransactionInv, LeftInv, NEW q \in Requests
  PROVE  /\ TxnOK(txn[q], q) /\ CallOK(txn[q], q) /\ Len(txn[q].prepared) \in Nat
         /\ txn[q].call # NoCall => HasNext(txn[q]) /\ txn[q].call = Call(q)
         /\ txn[q].call = NoCall => txn[q].reply = NoReply
         /\ txn[q].pc \in Past => txn[q].committed = Len(txn[q].prepared)
BY DEF TransactionInv, TxnInv, LeftInv, CallsAreNext, CommitsCounted, TxnOK, CallOK

LEMMA LeftBegin ==
  ASSUME TransactionInv, LeftInv, NEW q \in Requests, Begin(q) \/ Retry(q)
  PROVE  LeftInv'
<1> DEFINE x == txn[q]
           z == IF Begin(q) THEN [x EXCEPT !.deadline = now + CapacityWait] ELSE x
           y == Attempt(z)
<1>1. TxnOK(x, q) /\ x.call = NoCall /\ x.reply = NoReply /\ x.pc \in {"idle", "sleeping"}
  BY TxnFacts DEF Begin, Retry, CallOK
<1>2. txn' = [txn EXCEPT ![q] = y] /\ UNCHANGED <<tables, calls, faults>>
  BY DEF Begin, Retry, provider
<1> HIDE DEF x
<1>3. TxnShape(z) /\ z.call = x.call /\ z.reply = x.reply
  BY <1>1 DEF TxnOK, TxnShape
<1> HIDE DEF z
<1>4. y.pc = "preparing" /\ y.call = NoCall /\ y.reply = NoReply
  BY <1>1, <1>3 DEF Attempt, TxnShape
<1> HIDE DEF y
<1>5. ASSUME NEW p \in Providers, Accounted(x, tables[p], q, p)
      PROVE  Accounted(y, tables[p], q, p)
  <2>1. Len(x.prepared) \in Nat
    BY <1>1 DEF TxnOK
  <2> QED  BY <1>1, <1>5, <2>1, NothingToAccount
<1> QED  BY <1>1, <1>2, <1>4, <1>5, LeftUser DEF x, Past, LeftInv

LEMMA LeftEnd ==
  ASSUME TransactionInv, LeftInv, NEW q \in Requests, EndCleanup(q) \/ EndRelease(q)
  PROVE  LeftInv'
<1> DEFINE x == txn[q]
           pc == IF x.retry /\ now < x.deadline THEN "sleeping" ELSE "failed"
           y == IF EndCleanup(q) THEN [x EXCEPT !.pc = pc, !.next = now + 1]
                ELSE [x EXCEPT !.pc = "done"]
<1>1. /\ TxnOK(x, q) /\ x.call = NoCall /\ x.reply = NoReply
      /\ x.pc \in Past => x.committed = Len(x.prepared)
      /\ x.pc \in {"cleaning", "releasing"} /\ ~HasNext(x)
      /\ ~EndCleanup(q) => x.pc = "releasing"
  BY TxnFacts DEF EndCleanup, EndRelease
<1>2. txn' = [txn EXCEPT ![q] = y] /\ UNCHANGED <<tables, calls, faults>>
  BY DEF EndCleanup, EndRelease, provider, TransactionInv, TxnInv
<1>3. pc \notin Past
  BY DEF Past
<1> HIDE DEF x, pc
<1>4. /\ y.call = x.call /\ y.reply = x.reply /\ y.prepared = x.prepared /\ y.committed = x.committed
      /\ y.pc = pc \/ x.pc = "releasing"
  BY <1>1 DEF TxnOK, TxnShape
<1> HIDE DEF y
<1>5. ASSUME NEW p \in Providers, Accounted(x, tables[p], q, p)
      PROVE  Accounted(y, tables[p], q, p)
  <2>1. Len(x.prepared) \in Nat /\ x.next \in Nat /\ ~(x.next <= Len(x.prepared))
    BY <1>1 DEF TxnOK, HasNext
  <2> QED  BY <1>1, <1>5, <2>1, NothingToAccount
<1> QED  BY <1>1, <1>2, <1>3, <1>4, <1>5, LeftUser DEF x, Past, LeftInv

\* The leases on the list are to be ended from the first on.
LEMMA ListedAgain ==
  ASSUME NEW x, NEW y, NEW q, TxnOK(x, q), x.pc \notin {"idle", "sleeping", "done", "failed"},
         y.prepared = x.prepared, y.committed = x.committed, y.next = 1, y.reply = NoReply,
         y.pc \in {"cleaning", "releasing"}, NEW p, NEW t, Accounted(x, t, q, p),
         x.pc = "preparing" /\ x.reply # NoReply => ~x.reply.status
  PROVE  Accounted(y, t, q, p)
<1>1. Len(x.prepared) \in Nat
  BY DEF TxnOK
<1>2. ASSUME NEW id, NEW s, NEW i \in 1..Len(x.prepared), Listed(x, p, t.epoch, id, s, i)
      PROVE  Listed(y, p, t.epoch, id, s, i)
  BY <1>1, <1>2 DEF Listed
<1>3. \A id : ~Announced(x, p, t.epoch, id)
  BY DEF Announced
<1> QED  BY <1>1, <1>2, <1>3, StillAccounted

LEMMA LeftEndExecution ==
  ASSUME TransactionInv, LeftInv, NEW q \in Requests, EndExecution(q)
  PROVE  LeftInv'
<1> DEFINE x == txn[q]
           y == [x EXCEPT !.pc = "releasing", !.next = 1]
<1>1. /\ TxnOK(x, q) /\ x.call = NoCall /\ x.reply = NoReply /\ x.pc = "executing"
      /\ x.committed = Len(x.prepared)
  BY TxnFacts DEF EndExecution, HasNext, Past
<1>2. txn' = [txn EXCEPT ![q] = y] /\ UNCHANGED <<tables, calls, faults>>
  BY DEF EndExecution, provider, TransactionInv, TxnInv
<1> HIDE DEF x
<1>3. /\ y.pc = "releasing" /\ y.prepared = x.prepared /\ y.committed = x.committed /\ y.next = 1
      /\ y.call = NoCall /\ y.reply = NoReply
  BY <1>1 DEF TxnOK, TxnShape
<1> HIDE DEF y
<1>4. \A p \in Providers : Accounted(x, tables[p], q, p) => Accounted(y, tables[p], q, p)
  BY <1>1, <1>3, ListedAgain
<1> QED  BY <1>1, <1>2, <1>3, <1>4, LeftUser DEF x, LeftInv

LEMMA LeftRevalidation ==
  ASSUME TransactionInv, LeftInv, NEW q \in Requests, RevalidationFails(q)
  PROVE  LeftInv'
<1> DEFINE x == txn[q]
           no == FALSE
           y == Clean(x, no)
<1>1. TxnOK(x, q) /\ x.call = NoCall /\ x.reply = NoReply /\ x.pc = "committing"
  BY TxnFacts DEF RevalidationFails
<1>2. txn' = [txn EXCEPT ![q] = y] /\ UNCHANGED <<tables, calls, faults>>
  BY DEF RevalidationFails, provider
<1> HIDE DEF x, no
<1>3. /\ y.pc = "cleaning" /\ y.prepared = x.prepared /\ y.committed = x.committed /\ y.next = 1
      /\ y.call = NoCall /\ y.reply = NoReply
  BY <1>1 DEF TxnOK, TxnShape, Clean
<1> HIDE DEF y
<1>4. \A p \in Providers : Accounted(x, tables[p], q, p) => Accounted(y, tables[p], q, p)
  BY <1>1, <1>3, ListedAgain
<1> QED  BY <1>1, <1>2, <1>3, <1>4, LeftUser DEF x, LeftInv, Past

\* Without faults no call times out.
LEMMA LeftTimeout ==
  ASSUME TransactionInv, LeftInv, NEW q \in Requests, CallTimeout(q)
  PROVE  LeftInv'
<1> DEFINE x == txn[q]
           y == Answered(OnCallFailed(x))
<1>1. /\ TxnOK(x, q) /\ x.call # NoCall /\ x.reply = NoReply
      /\ x.pc \in Past => x.committed = Len(x.prepared)
  BY TxnFacts DEF CallTimeout
<1>2. txn' = [txn EXCEPT ![q] = y] /\ UNCHANGED <<tables, calls>>
  BY DEF CallTimeout, provider
<1>3. faults' \in Nat /\ faults' # 0
  BY <1>1 DEF LeftInv, CallsAwaited, CallTimeout, Fault
<1> HIDE DEF x
<1>4. /\ y.call = NoCall /\ y.reply = NoReply /\ y.prepared = x.prepared
      /\ y.committed = x.committed /\ y.pc \in {x.pc, "cleaning"}
  BY <1>1 DEF TxnOK, TxnShape, Answered, OnCallFailed, Clean, Step
<1> HIDE DEF y
<1> QED  BY <1>1, <1>2, <1>3, <1>4, LeftUser DEF x, Past

\* The leases that a reply leaves on the list.
LEMMA RepliesAccounted ==
  ASSUME NEW x, NEW q \in Requests, TxnOK(x, q), x.reply # NoReply, NEW y,
         NEW t, NEW p, Accounted(x, t, q, p),
         \/ x.pc = "preparing" /\ y = Answered(OnPrepared(x, q))
         \/ x.pc = "committing" /\ y = Answered(OnCommitted(x))
         \/ x.pc \in {"cleaning", "releasing"} /\ y = Answered(Step(x))
  PROVE  Accounted(y, t, q, p)
<1>1. Len(x.prepared) \in Nat /\ x.next \in Nat /\ x.committed \in Nat
  BY DEF TxnOK
<1>2. CASE x.pc \in {"cleaning", "releasing"} /\ y = Answered(Step(x))
  <2>1. /\ y.pc = x.pc /\ y.prepared = x.prepared /\ y.committed = x.committed
        /\ y.next = x.next + 1 /\ y.reply = NoReply
    BY <1>2 DEF Answered, Step, TxnOK, TxnShape
  <2>2. ASSUME NEW id, NEW s, NEW i \in 1..Len(x.prepared), Listed(x, p, t.epoch, id, s, i)
        PROVE  Listed(y, p, t.epoch, id, s, i)
    BY <1>1, <1>2, <2>1, <2>2 DEF Listed
  <2>3. \A id : ~Announced(x, p, t.epoch, id)
    BY <1>2 DEF Announced
  <2> QED  BY <1>1, <2>1, <2>2, <2>3, StillAccounted
<1> DEFINE retry == x.reply.reason = "LEASE_CAPACITY_REJECTED"
<1>3. CASE x.pc \in {"preparing", "committing"} /\ ~x.reply.status
  <2>1. y = Answered(Clean(x, retry))
    BY <1>3 DEF OnPrepared, OnCommitted
  <2> HIDE DEF retry
  <2>2. /\ y.pc = "cleaning" /\ y.prepared = x.prepared /\ y.committed = x.committed
        /\ y.next = 1 /\ y.reply = NoReply
    BY <2>1 DEF Answered, Clean, TxnOK, TxnShape
  <2> QED  BY <1>3, <2>2, ListedAgain
<1>4. CASE x.pc = "preparing" /\ x.reply.status
  <2> DEFINE h == [p |-> x.call.p, id |-> x.reply.id, epoch |-> x.reply.epoch]
             ps == Append(x.prepared, h)
             z == [x EXCEPT !.prepared = ps]
  <2>1. y \in {Answered(Step(z)), Answered([z EXCEPT !.pc = "committing", !.next = 1])}
    BY <1>4 DEF OnPrepared
  <2>2. /\ Len(ps) = Len(x.prepared) + 1 /\ ps[Len(x.prepared) + 1] = h
        /\ \A i \in 1..Len(x.prepared) : ps[i] = x.prepared[i]
    <3>1. x.prepared \in Seq(Held)
      BY DEF TxnOK
    <3> HIDE DEF h
    <3> QED  BY <3>1
  <2> HIDE DEF ps
  <2>3. /\ TxnShape(z) /\ z.pc = "preparing" /\ z.prepared = ps /\ z.committed = x.committed
    BY <1>4 DEF TxnOK, TxnShape
  <2> HIDE DEF z
  <2>4. /\ y.pc \in {"preparing", "committing"} /\ y.prepared = ps /\ y.committed = 0 /\ y.reply = NoReply
    <3>1. x.committed = 0
      BY <1>4 DEF TxnOK
    <3> QED  BY <2>1, <2>3, <3>1 DEF Answered, Step, TxnShape
  <2>5. ASSUME NEW id, NEW s, NEW i \in 1..Len(x.prepared), Listed(x, p, t.epoch, id, s, i)
        PROVE  Listed(y, p, t.epoch, id, s, i)
    BY <1>1, <2>2, <2>4, <2>5 DEF Listed
  <2>6. ASSUME NEW id, Announced(x, p, t.epoch, id)
        PROVE  \E i \in 1..Len(y.prepared) : \A s : Listed(y, p, t.epoch, id, s, i)
    <3>1. h = [p |-> p, id |-> id, epoch |-> t.epoch]
      BY <2>6 DEF Announced
    <3> HIDE DEF h
    <3>2. \A s : Listed(y, p, t.epoch, id, s, Len(x.prepared) + 1)
      BY <1>1, <2>2, <2>4, <3>1 DEF Listed
    <3>3. Len(x.prepared) + 1 \in 1..Len(y.prepared)
      BY <1>1, <2>2, <2>4
    <3> QED  BY <3>2, <3>3
  <2>7. Len(y.prepared) \in Nat /\ Len(x.prepared) <= Len(y.prepared)
    BY <1>1, <2>2, <2>4
  <2> QED  BY <1>1, <2>5, <2>6, <2>7, StillAccounted
<1>5. CASE x.pc = "committing" /\ x.reply.status
  <2> DEFINE z == [x EXCEPT !.committed = @ + 1]
  <2>1. y \in {Answered(Step(z)), Answered([z EXCEPT !.pc = "executing"])}
    BY <1>5 DEF OnCommitted
  <2>2. TxnShape(z) /\ z.pc = "committing" /\ z.prepared = x.prepared /\ z.committed = x.committed + 1
    BY <1>5 DEF TxnOK, TxnShape
  <2> HIDE DEF z
  <2>3. /\ y.pc \in {"committing", "executing"} /\ y.prepared = x.prepared /\ y.reply = NoReply
        /\ y.committed = x.committed + 1
    BY <2>1, <2>2 DEF Answered, Step, TxnShape
  <2>4. x.committed + 1 = x.next
    BY <1>5, <1>1 DEF TxnOK
  <2>5. ASSUME NEW id, NEW s, NEW i \in 1..Len(x.prepared), Listed(x, p, t.epoch, id, s, i)
        PROVE  Listed(y, p, t.epoch, id, s, i)
    <3>1. i <= x.next => s # "Prepared"
      BY <1>1, <1>5, <2>4, <2>5 DEF Listed
    <3> QED  BY <2>3, <2>4, <2>5, <3>1 DEF Listed
  <2>6. \A id : ~Announced(x, p, t.epoch, id)
    BY <1>5 DEF Announced
  <2> QED  BY <1>1, <2>3, <2>5, <2>6, StillAccounted
<1> QED  BY <1>2, <1>3, <1>4, <1>5

LEMMA LeftReply ==
  ASSUME TransactionInv, TransactionInv', LeftInv, NEW q \in Requests, OnReply(q)
  PROVE  LeftInv'
<1> DEFINE x == txn[q]
           y == Answered(CASE x.pc = "preparing"  -> OnPrepared(x, q)
                           [] x.pc = "committing" -> OnCommitted(x)
                           [] OTHER               -> Step(x))
<1>1. /\ TxnOK(x, q) /\ x.reply # NoReply /\ HasNext(x)
      /\ x.pc \in Past => x.committed = Len(x.prepared)
  BY TxnFacts DEF OnReply
<1>2. txn' = [txn EXCEPT ![q] = y] /\ UNCHANGED <<tables, calls, faults>>
  BY DEF OnReply, provider
<1>3. \/ x.pc = "preparing" /\ y = Answered(OnPrepared(x, q))
      \/ x.pc = "committing" /\ y = Answered(OnCommitted(x))
      \/ x.pc \in {"cleaning", "releasing"} /\ y = Answered(Step(x))
  BY <1>1 DEF HasNext
<1> HIDE DEF y
<1>4. \A p \in Providers : Accounted(x, tables[p], q, p) => Accounted(y, tables[p], q, p)
  BY <1>1, <1>3, RepliesAccounted
<1> HIDE DEF x
<1>5. y.call = NoCall /\ y.reply = NoReply /\ (y.pc \in Past => y.committed = Len(y.prepared))
  <2>1. CASE x.pc = "preparing" /\ y = Answered(OnPrepared(x, q))
    <3> DEFINE ps == Append(x.prepared, [p |-> x.call.p, id |-> x.reply.id, epoch |-> x.reply.epoch])
               retry == x.reply.reason = "LEASE_CAPACITY_REJECTED"
               z == [x EXCEPT !.prepared = ps]
    <3>1. y \in {Answered(Clean(x, retry)), Answered(Step(z)),
                 Answered([z EXCEPT !.pc = "committing", !.next = 1])}
      BY <2>1 DEF OnPrepared
    <3> HIDE DEF ps, retry
    <3>2. TxnShape(x) /\ TxnShape(z) /\ z.pc = "preparing"
      BY <1>1, <2>1 DEF TxnOK, TxnShape
    <3> HIDE DEF z
    <3> QED  BY <3>1, <3>2 DEF Answered, Clean, Step, TxnShape, Past
  <2>2. CASE x.pc = "committing" /\ y = Answered(OnCommitted(x))
    <3> DEFINE retry == x.reply.reason = "LEASE_CAPACITY_REJECTED"
               z == [x EXCEPT !.committed = @ + 1]
    <3>1. \/ y \in {Answered(Clean(x, retry)), Answered(Step(z))}
          \/ y = Answered([z EXCEPT !.pc = "executing"]) /\ ~(x.next < Len(x.prepared))
      BY <2>2 DEF OnCommitted
    <3> HIDE DEF retry
    <3>2. /\ TxnShape(x) /\ TxnShape(z) /\ z.pc = "committing" /\ z.prepared = x.prepared
          /\ z.committed = x.committed + 1
      BY <1>1, <2>2 DEF TxnOK, TxnShape
    <3>3. ~(x.next < Len(x.prepared)) => x.committed + 1 = Len(x.prepared)
      BY <1>1, <2>2 DEF TxnOK
    <3> HIDE DEF z
    <3> QED  BY <3>1, <3>2, <3>3 DEF Answered, Clean, Step, TxnShape, Past
  <2>3. CASE x.pc \in {"cleaning", "releasing"} /\ y = Answered(Step(x))
    BY <1>1, <2>3 DEF Answered, Step, TxnOK, TxnShape
  <2> QED  BY <1>3, <2>1, <2>2, <2>3
<1> QED  BY <1>1, <1>2, <1>4, <1>5, LeftUser DEF x, LeftInv

LEMMA LeftSend ==
  ASSUME TransactionInv, LeftInv, NEW q \in Requests, Send(q)
  PROVE  LeftInv'
<1> DEFINE x == txn[q]
           c == Call(q)
           y == [x EXCEPT !.call = c]
<1>1. TxnOK(x, q) /\ x.call = NoCall /\ x.reply = NoReply /\ HasNext(x)
  BY TxnFacts DEF Send
<1>2. txn' = [txn EXCEPT ![q] = y] /\ UNCHANGED <<tables, faults>> /\ calls' = calls \cup {c}
  BY DEF Send, provider, TransactionInv, TxnInv
<1>3. c.q = q /\ c.op \in Operations /\ (c.op # "PREPARE" => c.tag = c.id)
  <2>1. c.q = q /\ c.op \in Operations
    BY <1>1, NextCall
  <2>2. c.op # "PREPARE" => c.tag = c.id
    BY <1>1 DEF Call, HasNext, cleanupOperation
  <2> QED  BY <2>1, <2>2
<1> HIDE DEF c
<1>4. /\ y.pc = x.pc /\ y.prepared = x.prepared /\ y.committed = x.committed /\ y.next = x.next
      /\ y.exp = x.exp /\ y.attempt = x.attempt /\ y.call = c /\ y.reply = x.reply
  <2> HIDE DEF x
  <2> QED  BY <1>1 DEF TxnOK, TxnShape
<1> HIDE DEF y
<1>5. \A s \in Requests : txn'[s] = IF s = q THEN y ELSE txn[s]
  BY <1>2 DEF TransactionInv, TxnInv
<1>6. CallsAreNext'
  <2> SUFFICES ASSUME NEW s \in Requests, txn'[s].call # NoCall
               PROVE  HasNext(txn'[s]) /\ txn'[s].call = Call(s)'
    BY DEF CallsAreNext, HasNext
  <2>1. CASE s = q
    <3>1. Call(q)' = Call(q)
      BY <1>4, <1>5 DEF Call, cleanupOperation
    <3>2. HasNext(y)
      BY <1>1, <1>4 DEF HasNext
    <3> QED  BY <1>4, <1>5, <2>1, <3>1, <3>2 DEF c
  <2>2. CASE s # q
    <3>1. txn'[s] = txn[s]
      BY <1>5, <2>2
    <3>2. Call(s)' = Call(s)
      BY <3>1 DEF Call
    <3> QED  BY <3>1, <3>2 DEF LeftInv, CallsAreNext
  <2> QED  BY <2>1, <2>2
<1>7. CommitsCounted' /\ LogsOK' /\ Tagged'
  BY <1>2, <1>3, <1>4, <1>5 DEF LeftInv, CommitsCounted, LogsOK, Tagged, LogOK
<1>8. ASSUME faults' = 0
      PROVE  CallsAwaited' /\ AllAccounted'
  <2>1. CallsAwaited /\ AllAccounted
    BY <1>2, <1>8 DEF LeftInv
  <2>2. CallsAwaited'
    <3>1. \A m \in calls : m.q \in Requests /\ m # NoCall
      BY DEF TransactionInv, Operations, NoCall
    <3>2. \A m \in calls : m.q # q
      BY <1>1, <2>1, <3>1 DEF CallsAwaited
    <3> QED  BY <1>1, <1>2, <1>3, <1>4, <1>5, <2>1, <3>1, <3>2 DEF CallsAwaited
  <2>3. ASSUME NEW s \in Requests, NEW p \in Providers
        PROVE  Accounted(txn'[s], tables[p], s, p)
    <3>1. CASE s # q
      BY <1>5, <2>1, <3>1 DEF AllAccounted
    <3>2. CASE s = q
      <4>1. Accounted(x, tables[p], q, p) /\ Len(x.prepared) \in Nat
        BY <1>1, <2>1 DEF AllAccounted, TxnOK
      <4>2. \A id, st, i : Listed(x, p, tables[p].epoch, id, st, i)
                             => Listed(y, p, tables[p].epoch, id, st, i)
        BY <1>4 DEF Listed
      <4>3. \A id : ~Announced(x, p, tables[p].epoch, id)
        BY <1>1 DEF Announced
      <4>4. Accounted(y, tables[p], q, p)
        BY <1>4, <4>1, <4>2, <4>3, StillAccounted
      <4> QED  BY <1>5, <3>2, <4>4
    <3> QED  BY <3>1, <3>2
  <2> QED  BY <1>2, <2>2, <2>3 DEF AllAccounted, Accounted, Listed, Announced
<1> QED  BY <1>2, <1>6, <1>7, <1>8 DEF LeftInv

LEMMA SettlesKept ==
  ASSUME NEW t, NEW u, Settles(t, u)
  PROVE  u.epoch = t.epoch /\ \A i \in DOMAIN u.leases : isActive(u.leases[i].state) => Kept(t, u, i)
BY DEF Settles, Kept

\* What handling a call does to the leases of the table.
LEMMA HandleSettles ==
  ASSUME NEW t, TableOK(t), LogOK(t), NEW m, m.op \in Operations, m.op # "PREPARE" => m.tag = m.id
  PROVE  LET o == handle(t, m)
             u == o.table
             Names(op) == /\ m.op = op /\ m.id \in DOMAIN t.leases /\ m.epoch = t.epoch
                          /\ t.leases[m.id].req = m.q /\ <<op, m.q, m.id>> # NoIdem
         IN
         /\ LogOK(u) /\ u.epoch = t.epoch
         /\ \A i \in DOMAIN u.leases : isActive(u.leases[i].state) =>
              \/ Kept(t, u, i)
              \/ /\ m.op = "PREPARE" /\ u.leases[i].req = m.q
                 /\ o.reply.status /\ o.reply.id = i /\ o.reply.epoch = t.epoch
         /\ m.op = "COMMIT" /\ o.reply.status /\ m.id \in DOMAIN u.leases => u.leases[m.id].state # "Prepared"
         /\ Names("ABORT") /\ t.leases[m.id].state # "Executing" => ~isActive(u.leases[m.id].state)
         /\ Names("RELEASE") /\ t.leases[m.id].state # "Prepared" => ~isActive(u.leases[m.id].state)
<1> DEFINE o == handle(t, m)
           idem == <<m.op, m.q, m.tag>>
           who == Owner[m.q]
<1>1. CASE m.op = "PREPARE"
  <2>1. o = prepare(t, now, m.q, Plan, Keys, m.exp, idem, NoLease)
    BY <1>1 DEF handle
  <2> HIDE DEF idem, o
  <2>2. /\ LogOK(o.table) /\ o.table.epoch = t.epoch
        /\ \A i \in DOMAIN o.table.leases :
             isActive(o.table.leases[i].state) =>
               \/ Kept(t, o.table, i)
               \/ /\ o.reply.status /\ o.reply.id = i /\ o.reply.epoch = t.epoch
                  /\ o.table.leases[i].req = m.q
    BY <2>1, PrepareSettles
  <2> QED  BY <1>1, <2>2 DEF o
<1>2. CASE m.op = "COMMIT"
  <2>1. o = commit(t, now, m.id, m.epoch, who, <<"COMMIT", m.q, m.id>>)
    BY <1>2 DEF handle
  <2> HIDE DEF who, o
  <2>2. /\ Settles(t, o.table) /\ LogOK(o.table)
        /\ o.reply.status /\ m.id \in DOMAIN o.table.leases => o.table.leases[m.id].state # "Prepared"
    BY <2>1, CommitSettles
  <2>3. /\ o.table.epoch = t.epoch
        /\ \A i \in DOMAIN o.table.leases : isActive(o.table.leases[i].state) => Kept(t, o.table, i)
    BY <2>2, SettlesKept
  <2> QED  BY <1>2, <2>2, <2>3 DEF o
<1>3. CASE m.op = "ABORT"
  <2>1. o = abort(t, now, m.id, m.epoch, who, <<"ABORT", m.q, m.id>>)
    BY <1>3 DEF handle
  <2> HIDE DEF o
  <2>2. /\ Settles(t, o.table) /\ LogOK(o.table)
        /\ /\ m.id \in DOMAIN t.leases /\ m.epoch = t.epoch /\ Owner[t.leases[m.id].req] = who
           /\ t.leases[m.id].state # "Executing" /\ <<"ABORT", m.q, m.id>> # NoIdem
           => ~isActive(o.table.leases[m.id].state)
    <3> HIDE DEF who
    <3> QED  BY <2>1, AbortSettles
  <2>3. /\ o.table.epoch = t.epoch
        /\ \A i \in DOMAIN o.table.leases : isActive(o.table.leases[i].state) => Kept(t, o.table, i)
    BY <2>2, SettlesKept
  <2> QED  BY <1>3, <2>2, <2>3 DEF o
<1>4. CASE m.op = "RELEASE"
  <2> DEFINE key == <<"RELEASE", m.q, m.id>>
  <2>1. o = release(t, now, m.id, m.epoch, who, key)
    BY <1>4 DEF handle
  <2> HIDE DEF o
  <2>2. key[1] = "RELEASE" => key[3] = m.id
    OBVIOUS
  <2>3. /\ Settles(t, o.table) /\ LogOK(o.table)
        /\ /\ m.id \in DOMAIN t.leases /\ m.epoch = t.epoch /\ Owner[t.leases[m.id].req] = who
           /\ t.leases[m.id].state # "Prepared" /\ key # NoIdem
           => ~isActive(o.table.leases[m.id].state)
    <3>1. key = <<"RELEASE", m.q, m.id>>
      OBVIOUS
    <3> HIDE DEF who, key
    <3> QED  BY <2>1, <2>2, <3>1, ReleaseSettles
  <2>4. /\ o.table.epoch = t.epoch
        /\ \A i \in DOMAIN o.table.leases : isActive(o.table.leases[i].state) => Kept(t, o.table, i)
    BY <2>3, SettlesKept
  <2> QED  BY <1>4, <2>3, <2>4 DEF o
<1> QED  BY <1>1, <1>2, <1>3, <1>4 DEF Operations

\* Leases that p keeps stay on the list.
LEMMA KeptAccounted ==
  ASSUME NEW x, NEW t, NEW u, NEW q, NEW p, Accounted(x, t, q, p), u.epoch = t.epoch,
         NEW id \in DOMAIN u.leases, Kept(t, u, id), u.leases[id].req = q, isActive(u.leases[id].state)
  PROVE  \/ \E i \in 1..Len(x.prepared) :
              /\ Listed(x, p, t.epoch, id, t.leases[id].state, i)
              /\ Listed(x, p, u.epoch, id, u.leases[id].state, i)
         \/ Announced(x, p, u.epoch, id)
<1>1. id \in DOMAIN t.leases /\ t.leases[id].req = q /\ isActive(t.leases[id].state)
  BY DEF Kept
<1>2. CASE Announced(x, p, t.epoch, id)
  BY <1>2
<1>3. CASE \E i \in 1..Len(x.prepared) : Listed(x, p, t.epoch, id, t.leases[id].state, i)
  <2>1. PICK i \in 1..Len(x.prepared) : Listed(x, p, t.epoch, id, t.leases[id].state, i)
    BY <1>3
  <2>2. Listed(x, p, u.epoch, id, u.leases[id].state, i)
    BY <2>1 DEF Listed, Kept
  <2> QED  BY <2>1, <2>2
<1> QED  BY <1>1, <1>2, <1>3 DEF Accounted

\* p's table becomes u, in which no lease is active that was not.
LEMMA LeftTable ==
  ASSUME TransactionInv, LeftInv, NEW p \in Providers, NEW u, LogOK(u),
         tables' = [tables EXCEPT ![p] = u], UNCHANGED <<txn, calls, faults>>,
         u.epoch = tables[p].epoch \/ DOMAIN u.leases = {},
         \A i \in DOMAIN u.leases : isActive(u.leases[i].state) => Kept(tables[p], u, i)
  PROVE  LeftInv'
<1>1. \A a \in Providers : tables'[a] = IF a = p THEN u ELSE tables[a]
  BY DEF TransactionInv, TablesOK
<1>2. CallsAreNext' /\ CommitsCounted' /\ Tagged'
  BY DEF LeftInv, CallsAreNext, CommitsCounted, Tagged, HasNext, Call
<1>3. LogsOK'
  <2>1. \A a \in Providers : LogOK(tables'[a])
    BY <1>1 DEF LeftInv, LogsOK
  <2> QED  BY <2>1 DEF LogsOK, LogOK
<1>4. ASSUME faults' = 0
      PROVE  CallsAwaited' /\ AllAccounted'
  <2>1. CallsAwaited /\ AllAccounted
    BY <1>4 DEF LeftInv
  <2>2. CallsAwaited'
    BY <2>1 DEF CallsAwaited
  <2>3. ASSUME NEW q \in Requests, NEW a \in Providers
        PROVE  Accounted(txn[q], tables'[a], q, a)
    <3>1. CASE a # p
      BY <1>1, <2>1, <3>1 DEF AllAccounted
    <3>2. CASE a = p
      <4>1. Accounted(txn[q], tables[p], q, p)
        BY <2>1 DEF AllAccounted
      <4>2. Accounted(txn[q], u, q, p)
        <5> SUFFICES ASSUME NEW id \in DOMAIN u.leases, u.leases[id].req = q, isActive(u.leases[id].state)
                     PROVE  \/ \E i \in 1..Len(txn[q].prepared) :
                                 Listed(txn[q], p, u.epoch, id, u.leases[id].state, i)
                            \/ Announced(txn[q], p, u.epoch, id)
          BY DEF Accounted
        <5> QED  BY <4>1, KeptAccounted
      <4> QED  BY <1>1, <3>2, <4>2
    <3> QED  BY <3>1, <3>2
  <2> QED  BY <2>2, <2>3 DEF AllAccounted, Accounted, Listed, Announced
<1> QED  BY <1>2, <1>3, <1>4 DEF LeftInv

LEMMA LeftRoles ==
  ASSUME TransactionInv, LeftInv, NEW q \in Requests, NEW p \in Providers, NEW r \in Roles,
         StartRole(q, p, r) \/ EndRole(q, p, r)
  PROVE  LeftInv'
<1> DEFINE l == LeaseOf(q, p)
           t == tables[p]
<1>1. TableOK(t) /\ LogOK(t)
  BY DEF TransactionInv, TablesOK, LeftInv, LogsOK
<1>2. CASE StartRole(q, p, r)
  <2> DEFINE idem == <<"activate", q>>
             u == validateAndActivate(t, now, l.id, l.epoch, q, Plan, idem, now + HardDeadline).table
  <2>1. tables' = [tables EXCEPT ![p] = u] /\ UNCHANGED <<txn, calls, faults>>
    BY <1>2 DEF StartRole, user
  <2> HIDE DEF l, idem, t
  <2>2. Settles(t, u) /\ LogOK(u)
    BY <1>1, ActivateSettles
  <2> HIDE DEF u
  <2> QED  BY <2>1, <2>2, SettlesKept, LeftTable DEF t
<1>3. CASE EndRole(q, p, r)
  <2> DEFINE done == {s \in Roles : roles[q][p][s] = "done"} \cup {r}
             idem == <<"provider-complete", l.id>>
             rel == release(t, now, l.id, l.epoch, Owner[q], idem).table
             u == IF done = Roles THEN rel ELSE t
  <2>1. tables' = [tables EXCEPT ![p] = u] /\ UNCHANGED <<txn, calls, faults>>
    BY <1>3 DEF EndRole, user
  <2>2. idem[1] = "RELEASE" => idem[3] = l.id
    OBVIOUS
  <2> HIDE DEF l, idem, t, done
  <2>3. Settles(t, rel) /\ LogOK(rel)
    BY <1>1, <2>2, ReleaseSettles
  <2> HIDE DEF rel
  <2>4. Settles(t, u) /\ LogOK(u)
    BY <1>1, <2>3 DEF Settles
  <2> HIDE DEF u
  <2> QED  BY <2>1, <2>4, SettlesKept, LeftTable DEF t
<1> QED  BY <1>2, <1>3

LEMMA LeftRestart ==
  ASSUME TransactionInv, LeftInv, NEW p \in Providers, Restart(p)
  PROVE  LeftInv'
<1> DEFINE u == NewTable(<<p, tables[p].epoch[2] + 1>>)
<1>1. tables' = [tables EXCEPT ![p] = u] /\ UNCHANGED <<txn, calls, faults>>
  BY DEF Restart, user
<1>2. DOMAIN u.leases = {} /\ LogOK(u)
  BY DEF NewTable, LogOK
<1> HIDE DEF u
<1> QED  BY <1>1, <1>2, LeftTable

\* The lease that a call of position x names is active, and the call is the one
\* that ends it: it names the lease with its epoch and its owner.
LEMMA HandleAccounts ==
  ASSUME TransactionInv, LeftInv, NEW m \in calls, txn[m.q].call = m, txn[m.q].reply = NoReply,
         AllAccounted, NEW y, y = [txn[m.q] EXCEPT !.reply = handle(tables[m.p], m).reply],
         NEW p \in Providers
  PROVE  Accounted(y, IF p = m.p THEN handle(tables[m.p], m).table ELSE tables[p], m.q, p)
<1> DEFINE q == m.q
           x == txn[q]
           t == tables[p]
           o == handle(tables[m.p], m)
           u == IF p = m.p THEN o.table ELSE t
<1>1. /\ m.p \in Providers /\ q \in Requests /\ m.op \in Operations
      /\ m.op # "PREPARE" => m.tag = m.id
      /\ TableOK(tables[m.p]) /\ LogOK(tables[m.p]) /\ m # NoCall
  BY DEF TransactionInv, TablesOK, LeftInv, Tagged, LogsOK, Operations, NoCall
<1>2. /\ TxnOK(x, q) /\ Len(x.prepared) \in Nat /\ HasNext(x) /\ m = Call(q)
      /\ x.pc \in Past => x.committed = Len(x.prepared)
      /\ x.pc # "preparing" => m.op # "PREPARE"
  <2>1. /\ TxnOK(x, q) /\ Len(x.prepared) \in Nat /\ HasNext(x) /\ m = Call(q)
        /\ x.pc \in Past => x.committed = Len(x.prepared)
    BY <1>1, TxnFacts
  <2> QED  BY <2>1 DEF Call, HasNext, cleanupOperation
<1>3. /\ o.table.epoch = tables[m.p].epoch
      /\ \A i \in DOMAIN o.table.leases : isActive(o.table.leases[i].state) =>
           \/ Kept(tables[m.p], o.table, i)
           \/ /\ m.op = "PREPARE" /\ o.table.leases[i].req = m.q
              /\ o.reply.status /\ o.reply.id = i /\ o.reply.epoch = tables[m.p].epoch
      /\ m.op = "COMMIT" /\ o.reply.status /\ m.id \in DOMAIN o.table.leases
           => o.table.leases[m.id].state # "Prepared"
  BY <1>1, HandleSettles
<1>4. /\ y.pc = x.pc /\ y.prepared = x.prepared /\ y.committed = x.committed /\ y.next = x.next
      /\ y.call = m /\ y.reply = o.reply
  <2> HIDE DEF x, o
  <2>1. x.call = m
    BY DEF x
  <2> QED  BY <1>2, <2>1 DEF TxnOK, TxnShape, x, o
<1>5. o.reply # NoReply
  BY <1>1, HandleTable DEF IsReply
<1> SUFFICES ASSUME NEW id \in DOMAIN u.leases, u.leases[id].req = q, isActive(u.leases[id].state)
             PROVE  \/ \E i \in 1..Len(y.prepared) : Listed(y, p, u.epoch, id, u.leases[id].state, i)
                    \/ Announced(y, p, u.epoch, id)
  BY DEF Accounted
<1>6. CASE ~Kept(t, u, id)
  <2>1. /\ p = m.p /\ m.op = "PREPARE"
        /\ o.reply.status /\ o.reply.id = id /\ o.reply.epoch = u.epoch
    BY <1>3, <1>6 DEF Kept
  <2>2. x.pc = "preparing"
    BY <1>2, <2>1
  <2> HIDE DEF o, x, u
  <2> QED  BY <1>4, <1>5, <2>1, <2>2 DEF Announced
<1>7. CASE Kept(t, u, id)
  <2>1. Accounted(x, t, q, p) /\ u.epoch = t.epoch
    BY <1>1, <1>3 DEF AllAccounted
  <2>2. ~Announced(x, p, u.epoch, id)
    BY DEF Announced
  <2> DEFINE s == t.leases[id].state
             z == u.leases[id].state
  <2>3. PICK i \in 1..Len(x.prepared) : Listed(x, p, t.epoch, id, s, i) /\ Listed(x, p, u.epoch, id, z, i)
    <3> HIDE DEF u, x, t
    <3> QED  BY <1>7, <2>1, <2>2, KeptAccounted
  <2>4. id \in DOMAIN t.leases /\ t.leases[id].req = q /\ isActive(s)
    BY <1>7 DEF Kept
  <2>5. x.pc # "preparing" /\ x.next = i => /\ m.p = p /\ m.id = id /\ m.epoch = t.epoch
                                            /\ m.p = p => u = o.table
    <3>1. x.prepared[i] = [p |-> p, id |-> id, epoch |-> t.epoch]
      BY <2>3 DEF Listed
    <3>2. x.pc # "preparing" => /\ m.p = x.prepared[x.next].p /\ m.id = x.prepared[x.next].id
                                /\ m.epoch = x.prepared[x.next].epoch
      <4>1. CASE x.pc = "committing"
        BY <1>2, <4>1 DEF Call
      <4>2. CASE x.pc = "cleaning"
        BY <1>2, <4>2 DEF Call
      <4>3. CASE x.pc = "releasing"
        BY <1>2, <4>3 DEF Call
      <4> QED  BY <1>2, <4>1, <4>2, <4>3 DEF HasNext
    <3> HIDE DEF x
    <3> QED  BY <3>1, <3>2
  <2>6. x.pc = "committing" /\ x.next = i /\ o.reply.status => z # "Prepared"
    <3>1. x.pc = "committing" => m.op = "COMMIT"
      BY <1>2 DEF Call
    <3> QED  BY <1>3, <2>5, <3>1
  <2>7. x.pc \in {"cleaning", "releasing"} => x.next # i
    <3> SUFFICES ASSUME x.pc \in {"cleaning", "releasing"}, x.next = i
                 PROVE  FALSE
      OBVIOUS
    <3>1. m.p = p /\ m.id = id /\ m.epoch = t.epoch /\ u = o.table
      BY <2>5
    <3>2. id \in Ids
      BY <1>1, <2>4, <3>1 DEF TableOK
    <3>3. <<"ABORT", m.q, m.id>> # NoIdem /\ <<"RELEASE", m.q, m.id>> # NoIdem
      BY <1>1, <3>1, <3>2, LeaseTransactionAssumption DEF Ids, Epochs
    <3>4. /\ m.op = "ABORT" /\ s # "Executing" => ~isActive(o.table.leases[m.id].state)
          /\ m.op = "RELEASE" /\ s # "Prepared" => ~isActive(o.table.leases[m.id].state)
      <4> HIDE DEF o
      <4> QED  BY <1>1, <2>4, <3>1, <3>3, HandleSettles DEF o
    <3>5. CASE i <= x.committed
      <4>1. s # "Prepared"
        BY <2>3, <3>5 DEF Listed
      <4>2. m.op = "RELEASE"
        BY <1>2, <3>5 DEF Call, cleanupOperation
      <4> QED  BY <3>1, <3>4, <4>1, <4>2
    <3>6. CASE ~(i <= x.committed)
      <4>1. x.pc = "cleaning"
        BY <1>2, <2>3, <3>6 DEF Past
      <4>2. m.op = "ABORT"
        BY <1>2, <3>6, <4>1 DEF Call, cleanupOperation
      <4>3. s # "Executing"
        <5>1. s = "Executing" => Executing(q, p)
          BY <2>4 DEF Executing
        <5> QED  BY <1>1, <4>1, <5>1 DEF TransactionInv, ExecutesPast, Past
      <4> QED  BY <3>1, <3>4, <4>2, <4>3
    <3> QED  BY <3>5, <3>6
  <2>8. Listed(y, p, u.epoch, id, z, i)
    <3> HIDE DEF x, u, o, z
    <3> QED  BY <1>4, <2>3, <2>6, <2>7 DEF Listed
  <2> QED  BY <1>4, <2>3, <2>8
<1> QED  BY <1>6, <1>7

LEMMA LeftHandle ==
  ASSUME TransactionInv, LeftInv, NEW m \in calls, Handle(m)
  PROVE  LeftInv'
<1> DEFINE q == m.q
           x == txn[q]
           o == handle(tables[m.p], m)
           y == [x EXCEPT !.reply = o.reply]
<1>1. /\ m.p \in Providers /\ q \in Requests /\ m.op \in Operations /\ m # NoCall
      /\ m.op # "PREPARE" => m.tag = m.id
      /\ TableOK(tables[m.p]) /\ LogOK(tables[m.p])
  BY DEF TransactionInv, TablesOK, LeftInv, Tagged, LogsOK, Operations, NoCall
<1>2. LogOK(o.table) /\ o.reply # NoReply
  <2>1. LogOK(o.table)
    BY <1>1, HandleSettles
  <2>2. o.reply # NoReply
    BY <1>1, HandleTable DEF IsReply
  <2> QED  BY <2>1, <2>2
<1>3. /\ tables' = [tables EXCEPT ![m.p] = o.table] /\ calls' \subseteq calls /\ faults' \in Nat
      /\ txn' = txn \/ txn' = [txn EXCEPT ![q] = y]
      /\ faults' = 0 =>
           /\ faults = 0 /\ calls' = calls \ {m}
           /\ Awaits(m) => txn' = [txn EXCEPT ![q] = y]
  BY DEF Handle, Fault, LeftInv, TransactionInv, TxnInv
<1> HIDE DEF o
<1>4. /\ y.pc = x.pc /\ y.prepared = x.prepared /\ y.committed = x.committed /\ y.next = x.next
      /\ y.exp = x.exp /\ y.attempt = x.attempt /\ y.call = x.call /\ y.reply = o.reply
  <2>1. TxnShape(x)
    BY <1>1 DEF TransactionInv, TxnInv, TxnOK
  <2> HIDE DEF x
  <2> QED  BY <2>1 DEF TxnShape
<1> HIDE DEF y
<1>5. \A s \in Requests : txn'[s] = txn[s] \/ (s = q /\ txn'[s] = y)
  BY <1>3 DEF TransactionInv, TxnInv
<1>6. \A s \in Requests :
        /\ txn'[s].pc = txn[s].pc /\ txn'[s].prepared = txn[s].prepared
        /\ txn'[s].committed = txn[s].committed /\ txn'[s].next = txn[s].next
        /\ txn'[s].exp = txn[s].exp /\ txn'[s].attempt = txn[s].attempt
        /\ txn'[s].call = txn[s].call
  BY <1>4, <1>5
<1>7. CallsAreNext'
  <2> SUFFICES ASSUME NEW s \in Requests, txn'[s].call # NoCall
               PROVE  HasNext(txn'[s]) /\ txn'[s].call = Call(s)'
    BY DEF CallsAreNext, HasNext
  <2>1. Call(s)' = Call(s)
    BY <1>6 DEF Call, cleanupOperation
  <2>2. HasNext(txn[s]) /\ txn[s].call = Call(s)
    BY <1>6 DEF LeftInv, CallsAreNext
  <2> QED  BY <1>6, <2>1, <2>2 DEF HasNext
<1>8. CommitsCounted' /\ Tagged'
  BY <1>3, <1>6 DEF LeftInv, CommitsCounted, Tagged
<1>9. \A p \in Providers : tables'[p] = IF p = m.p THEN o.table ELSE tables[p]
  BY <1>3 DEF TransactionInv, TablesOK
<1>10. LogsOK'
  <2>1. \A p \in Providers : LogOK(tables'[p])
    BY <1>2, <1>9 DEF LeftInv, LogsOK
  <2> QED  BY <2>1 DEF LogsOK, LogOK
<1>11. ASSUME faults' = 0
       PROVE  CallsAwaited' /\ AllAccounted'
  <2>1. CallsAwaited /\ AllAccounted /\ calls' = calls \ {m}
    BY <1>3, <1>11 DEF LeftInv
  <2>2. x.call = m /\ x.reply = NoReply
    BY <2>1 DEF CallsAwaited
  <2>3. txn' = [txn EXCEPT ![q] = y]
    BY <1>3, <1>11, <2>2 DEF Awaits
  <2>4. \A s \in Requests : txn'[s] = IF s = q THEN y ELSE txn[s]
    BY <2>3 DEF TransactionInv, TxnInv
  <2>5. CallsAwaited'
    <3>1. \A n \in calls : n.q \in Requests
      BY DEF TransactionInv
    <3>2. ASSUME NEW n \in calls'
          PROVE  txn'[n.q].call = n /\ txn'[n.q].reply = NoReply
      <4>1. n \in calls /\ n # m /\ txn[n.q].call = n /\ txn[n.q].reply = NoReply
        BY <2>1 DEF CallsAwaited
      <4>2. n.q # q
        BY <2>2, <4>1
      <4> QED  BY <2>4, <3>1, <4>1, <4>2
    <3>3. ASSUME NEW s \in Requests, txn'[s].call # NoCall, txn'[s].reply = NoReply
          PROVE  txn'[s].call \in calls'
      <4>1. s # q
        BY <1>2, <1>4, <2>4, <3>3
      <4>2. txn'[s] = txn[s]
        BY <2>4, <4>1
      <4>3. txn[s].call.q = s
        BY <3>3, <4>2 DEF TransactionInv, TxnInv, CallOK
      <4> QED  BY <2>1, <3>3, <4>1, <4>2, <4>3 DEF CallsAwaited
    <3> QED  BY <3>2, <3>3 DEF CallsAwaited
  <2>6. ASSUME NEW s \in Requests, NEW p \in Providers
        PROVE  Accounted(txn'[s], tables'[p], s, p)
    <3>1. CASE s = q
      <4>1. Accounted(y, tables'[p], q, p)
        BY <1>9, <2>1, <2>2, HandleAccounts DEF y, o
      <4> QED  BY <2>4, <3>1, <4>1
    <3>2. CASE s # q
      <4>1. txn'[s] = txn[s] /\ Accounted(txn[s], tables[p], s, p)
        BY <2>1, <2>4, <3>2 DEF AllAccounted
      <4>2. CASE p # m.p
        BY <1>9, <4>1, <4>2
      <4>3. CASE p = m.p
        <5>1. /\ o.table.epoch = tables[p].epoch
              /\ \A i \in DOMAIN o.table.leases : isActive(o.table.leases[i].state) =>
                   Kept(tables[p], o.table, i) \/ o.table.leases[i].req = q
          BY <1>1, <4>3, HandleSettles DEF o
        <5>2. Accounted(txn[s], o.table, s, p)
          <6> SUFFICES ASSUME NEW id \in DOMAIN o.table.leases, o.table.leases[id].req = s,
                              isActive(o.table.leases[id].state)
                       PROVE  \/ \E i \in 1..Len(txn[s].prepared) :
                                   Listed(txn[s], p, o.table.epoch, id, o.table.leases[id].state, i)
                              \/ Announced(txn[s], p, o.table.epoch, id)
            BY DEF Accounted
          <6>1. Kept(tables[p], o.table, id)
            BY <3>2, <5>1
          <6> QED  BY <4>1, <5>1, <6>1, KeptAccounted
        <5> QED  BY <1>9, <4>1, <4>3, <5>2
      <4> QED  BY <4>2, <4>3
    <3> QED  BY <3>1, <3>2
  <2> QED  BY <2>5, <2>6 DEF AllAccounted, Accounted, Listed, Announced
<1> QED  BY <1>3, <1>7, <1>8, <1>10, <1>11 DEF LeftInv

LEMMA LeftInit ==
  ASSUME Init
  PROVE  LeftInv
<1>1. \A q \in Requests : txn[q].call = NoCall /\ txn[q].pc = "idle"
  BY DEF Init, Start
<1>2. \A p \in Providers : DOMAIN tables[p].leases = {} /\ DOMAIN tables[p].replays = {}
  BY DEF Init, NewTable
<1>3. LogsOK /\ AllAccounted
  BY <1>2 DEF LogsOK, LogOK, AllAccounted, Accounted
<1> QED  BY <1>1, <1>3 DEF Init, LeftInv, CallsAreNext, CommitsCounted, Tagged, CallsAwaited, Past

LEMMA LeftStep ==
  ASSUME TransactionInv, TransactionInv', LeftInv, [Next]_vars
  PROVE  LeftInv'
<1>1. CASE UNCHANGED vars \/ Tick
  <2>1. UNCHANGED <<tables, txn, calls, faults>>
    BY <1>1 DEF vars, Tick, user, provider
  <2>2. CallsAreNext' /\ CommitsCounted' /\ Tagged' /\ LogsOK'
    BY <2>1 DEF LeftInv, CallsAreNext, CommitsCounted, Tagged, LogsOK, LogOK, HasNext, Call
  <2>3. CallsAwaited' = CallsAwaited /\ AllAccounted' = AllAccounted
    BY <2>1 DEF CallsAwaited, AllAccounted
  <2> QED  BY <2>1, <2>2, <2>3 DEF LeftInv
<1>2. ASSUME NEW q \in Requests, userStep(q)
      PROVE  LeftInv'
  BY <1>2, LeftBegin, LeftSend, LeftReply, LeftTimeout, LeftRevalidation, LeftEnd, LeftEndExecution
     DEF userStep
<1> QED  BY <1>1, <1>2, LeftHandle, LeftRoles, LeftRestart DEF Next

\* Without faults, a transaction that ended holds no provider's capacity any
\* more: every lease it was granted, in any attempt, was aborted, released, has
\* expired or is gone with its provider's table.
THEOREM NothingIsLeftBehind == Spec => []NothingLeftBehind
<1>1. Init => LeftInv
  BY LeftInit
<1>2. TransactionInv /\ TransactionInv' /\ LeftInv /\ [Next]_vars => LeftInv'
  BY LeftStep
<1>3. TransactionInv /\ LeftInv => NothingLeftBehind
  <2> SUFFICES ASSUME LeftInv, faults = 0, NEW q \in Requests, NEW p \in Providers,
                      txn[q].pc \in {"done", "failed"}, ActiveLease(q, p)
               PROVE  FALSE
    BY DEF NothingLeftBehind
  <2>1. Accounted(txn[q], tables[p], q, p)
    BY DEF LeftInv, AllAccounted
  <2> QED  BY <2>1 DEF ActiveLease, Accounted, Listed, Announced
<1> QED  BY <1>1, <1>2, <1>3, InvAlways, PTL DEF Spec
=============================================================================
