----------------------------- MODULE RepoWrite -----------------------------
(***************************************************************************)
(* Replicated writes of one object in the distributed repository: the      *)
(* client's store_versioned (STORE to every selected replica, collect      *)
(* receipts, FINALIZE_WRITE to those that gave one), the replicas' SQLite  *)
(* object row and durable receipts, DELETE, and the repair jobs by which a *)
(* replica that lists no copy pulls one from a peer.                       *)
(*                                                                         *)
(* A request may be lost, arrive late or arrive twice (a targeted call     *)
(* that times out is sent again by the fallback), so every request that    *)
(* was ever sent can be handled at any later time, any number of times.    *)
(* Each handler holds the object's lock and one database transaction.      *)
(* Receipts, jobs and rows survive a crash; a crash after the transaction  *)
(* only loses the catalog entry that should have followed it.              *)
(***************************************************************************)
EXTENDS Integers, FiniteSets

CONSTANTS
  Replica,     \* repository nodes
  Op,          \* write operations of clients, one operation id each
  Placement,   \* [Op -> the replicas chosen for it, at most its factor]
  Factor,      \* [Op -> replication factor]
  Consistency, \* [Op -> "ONE", "QUORUM" or "ALL"]
  Generation,  \* [Op -> generation it proposes]
  Expected,    \* [Op -> generation it expects, -1 for none]
  Backup,      \* replicas that accept copies made by repair
  MaxFault,    \* bound: deletions, pulls and crashes
  MaxJob,      \* bound: repair jobs
  NoOp

ASSUME WriteAssumption ==
  /\ IsFiniteSet(Replica) /\ NoOp \notin Op
  /\ Factor \in [Op -> Nat \ {0}]
  /\ Placement \in [Op -> SUBSET Replica]
  /\ \A o \in Op : Cardinality(Placement[o]) <= Factor[o]
  /\ Consistency \in [Op -> {"ONE", "QUORUM", "ALL"}]
  /\ Generation \in [Op -> Nat]
  /\ Expected \in [Op -> Nat \cup {-1}]
  /\ Backup \subseteq Replica /\ MaxFault \in Nat /\ MaxJob \in Nat

VARIABLES
  obj,        \* [Replica -> row of the object: operation, bytes, generation, final]
  receipts,   \* [Replica -> operations with a durable receipt]
  listed,     \* replicas whose own catalog has an entry for the object
  job,        \* [Job -> state of the durable repair job]
  pull,       \* [Job -> was STORE_PACKET_PULL "sent", "admitted", "answered" for it]
  pc,         \* [Op -> where its client is]
  selected,   \* [Op -> replicas the client sent STORE to]
  confirmed,  \* [Op -> replicas whose receipts the client validated]
  finalized,  \* operations for which a replica answered FINALIZE_WRITE
  lowered,    \* replicas whose generation was ever set back (history)
  faults      \* deletions, pulls and crashes so far

vars == <<obj, receipts, listed, job, pull, pc, selected, confirmed, finalized,
          lowered, faults>>
client == <<pc, selected, confirmed, finalized>>
repair == <<job, pull>>

NoObj == [op |-> NoOp, data |-> NoOp, gen |-> -1, final |-> FALSE]

\* A repair job names its target, its source and the digest it is to restore.
Job == {j \in [target : Backup, source : Replica, data : Op] : j.target # j.source}

Init ==
  /\ obj = [r \in Replica |-> NoObj]
  /\ receipts = [r \in Replica |-> {}]
  /\ listed = {}
  /\ job = [j \in Job |-> "NONE"]
  /\ pull = [j \in Job |-> "none"]
  /\ pc = [o \in Op |-> "idle"]
  /\ selected = [o \in Op |-> {}]
  /\ confirmed = [o \in Op |-> {}]
  /\ finalized = {} /\ lowered = {} /\ faults = 0

-----------------------------------------------------------------------------
RequiredWriteAcks(o) ==
  CASE Consistency[o] = "ONE"    -> 1
    [] Consistency[o] = "QUORUM" -> Factor[o] \div 2 + 1
    [] OTHER                     -> Factor[o]

\* A plausible bug: off by one, two receipts count as no quorum to wait for.
FinalAtOnce_OffByOne(o) == RequiredWriteAcks(o) <= 2

\* _manifest_for_write_intent: a copy is staged unless one receipt is enough.
FinalAtOnce(o) == RequiredWriteAcks(o) <= 1

\* A plausible bug: any generation from the expected one on is accepted.
AcceptsGeneration_OrNewer(r, o) ==
  Expected[o] >= 0 => obj[r].gen >= Expected[o] /\ Generation[o] = Expected[o] + 1

\* Compare-and-set; a negative expectation is none.
AcceptsGeneration(r, o) ==
  Expected[o] >= 0 => obj[r].gen = Expected[o] /\ Generation[o] = Expected[o] + 1

\* The row becomes x.
Put(r, x) ==
  /\ obj' = [obj EXCEPT ![r] = x]
  /\ lowered' = IF x.gen < obj[r].gen THEN lowered \cup {r} ELSE lowered

\* The catalog is told after the transaction, unless the process stops before;
\* n is what the operation itself counts against the bound.
Remember(r, n) ==
  \/ /\ faults + n <= MaxFault /\ faults' = faults + n
     /\ listed' = listed \cup {r}
  \/ /\ faults + n < MaxFault /\ faults' = faults + n + 1
     /\ UNCHANGED listed

\* Replicas in cooldown are skipped as long as enough others remain.
StartStore(o) ==
  /\ pc[o] = "idle"
  /\ \E s \in SUBSET Placement[o] :
       /\ Cardinality(s) >= RequiredWriteAcks(o)
       /\ selected' = [selected EXCEPT ![o] = s]
  /\ pc' = [pc EXCEPT ![o] = "storing"]
  /\ UNCHANGED <<obj, receipts, listed, repair, confirmed, finalized, lowered, faults>>

\* STORE and STORE_PACKETS: an operation with a receipt is answered from it, and
\* a stale generation or a full disk leaves everything as it was.
HandleStore(r, o) ==
  /\ r \in selected[o] /\ o \notin receipts[r]
  /\ AcceptsGeneration(r, o)
  /\ Put(r, [op |-> o, data |-> o, gen |-> Generation[o], final |-> FinalAtOnce(o)])
  /\ receipts' = [receipts EXCEPT ![r] = @ \cup {o}]
  /\ Remember(r, 0)
  /\ UNCHANGED <<repair, client>>

\* A plausible bug: every replica that was asked counts, failed or not.
CollectReceipts_CountsFailures(o, got) ==
  /\ pc[o] = "storing" /\ got = selected[o]
  /\ pc' = [pc EXCEPT ![o] = IF FinalAtOnce(o) THEN "committed" ELSE "finalizing"]
  /\ confirmed' = [confirmed EXCEPT ![o] = got]
  /\ UNCHANGED <<obj, receipts, listed, repair, selected, finalized, lowered, faults>>

\* The deadline has passed or everyone has answered: the receipts that arrived
\* in time are validated.
CollectReceipts(o, got) ==
  /\ pc[o] = "storing"
  /\ got \subseteq {r \in selected[o] : o \in receipts[r]}
  /\ \/ /\ Cardinality(got) < RequiredWriteAcks(o)
        /\ pc' = [pc EXCEPT ![o] = "incomplete"] /\ UNCHANGED confirmed
     \/ /\ Cardinality(got) >= RequiredWriteAcks(o)
        /\ pc' = [pc EXCEPT ![o] =
                    IF FinalAtOnce(o) THEN "committed" ELSE "finalizing"]
        /\ confirmed' = [confirmed EXCEPT ![o] = got]
  /\ UNCHANGED <<obj, receipts, listed, repair, selected, finalized, lowered, faults>>

\* FINALIZE_WRITE on a replica whose receipt it carries and whose row is still
\* that of the operation.
HandleFinalize(r, o) ==
  /\ r \in confirmed[o] /\ ~FinalAtOnce(o)
  /\ Cardinality(confirmed[o]) >= RequiredWriteAcks(o)
  /\ obj[r].op = o
  /\ obj' = [obj EXCEPT ![r].final = TRUE]
  /\ Remember(r, 0)
  /\ finalized' = IF faults' = faults THEN finalized \cup {o} ELSE finalized
  /\ UNCHANGED <<receipts, repair, pc, selected, confirmed, lowered>>

\* One answer is enough for success.  Without any in time the client reports the
\* same RepoIncompleteWriteError as below the quorum, whatever the replicas did.
CollectFinalized(o) ==
  /\ pc[o] = "finalizing"
  /\ \/ o \in finalized /\ pc' = [pc EXCEPT ![o] = "committed"]
     \/ pc' = [pc EXCEPT ![o] = "incomplete"]
  /\ UNCHANGED <<obj, receipts, listed, repair, selected, confirmed, finalized,
                 lowered, faults>>

\* A plausible bug: the row goes but keeps serving.
DeleteObject_KeepsServing(r) ==
  /\ obj[r] # NoObj
  /\ Put(r, [NoObj EXCEPT !.final = obj[r].final]) /\ Remember(r, 1)
  /\ UNCHANGED <<receipts, repair, client>>

\* DELETE of a row that is there; receipts stay.
DeleteObject(r) ==
  /\ obj[r] # NoObj
  /\ Put(r, NoObj) /\ Remember(r, 1)
  /\ UNCHANGED <<receipts, repair, client>>

-----------------------------------------------------------------------------
(* Repair: the target scans its catalog, a worker claims the job there. *)

\* A peer advertises a copy and the target's catalog has no entry of its own for
\* the object.  A lookup also advertises a staged row that the peer has not listed.
ScanRepairJobs(j) ==
  /\ j.target \notin listed
  /\ obj[j.source].final \/ j.source \notin listed
  /\ obj[j.source].data = j.data
  /\ job[j] = "NONE" /\ Cardinality({k \in Job : job[k] # "NONE"}) < MaxJob
  /\ job' = [job EXCEPT ![j] = "PENDING"]
  /\ UNCHANGED <<obj, receipts, listed, pull, client, lowered, faults>>

ClaimRepairJob(j) ==
  /\ job[j] \in {"PENDING", "RETRY"} /\ job' = [job EXCEPT ![j] = "RUNNING"]
  /\ UNCHANGED <<obj, receipts, listed, pull, client, lowered, faults>>

\* catalog_repair up to the pull: the source must still hold those bytes, final.
PrepareRepair(j) ==
  /\ job[j] = "RUNNING" /\ pull[j] = "none"
  /\ obj[j.source].final /\ obj[j.source].data = j.data
  /\ pull' = [pull EXCEPT ![j] = "sent"]
  /\ UNCHANGED <<obj, receipts, listed, job, client, lowered, faults>>

\* Copies of STORE_PACKET_PULL start to be handled, authorized by the running job.
AdmitPull(j) ==
  /\ pull[j] = "sent" /\ job[j] = "RUNNING"
  /\ pull' = [pull EXCEPT ![j] = "admitted"]
  /\ UNCHANGED <<obj, receipts, listed, job, client, lowered, faults>>

\* An admitted copy has fetched the packets, from whoever still has them, the
\* forwarders' caches included, and stores them whatever became of the job: a fresh
\* operation id, generation 0, no expected generation, final at once.
HandlePull(j) ==
  /\ pull[j] \in {"admitted", "answered"}
  /\ Put(j.target, [op |-> NoOp, data |-> j.data, gen |-> 0, final |-> TRUE])
  /\ Remember(j.target, 1)
  /\ pull' = [pull EXCEPT ![j] = "answered"]
  /\ UNCHANGED <<receipts, job, client>>

\* REPAIR_COMPLETE, REPAIR_FAIL and the lapse of a worker's lease.  None of the
\* reports is checked against the job's state or its present owner.
FinishRepairJob(j) ==
  /\ job[j] \notin {"NONE", "PENDING"}
  /\ \/ pull[j] = "answered" /\ job' = [job EXCEPT ![j] = "COMPLETED"]
     \/ job' = [job EXCEPT ![j] = "RETRY"]
  /\ UNCHANGED <<obj, receipts, listed, pull, client, lowered, faults>>

-----------------------------------------------------------------------------
Write(o) ==
  \/ StartStore(o)
  \/ \E got \in SUBSET Placement[o] : CollectReceipts(o, got)
  \/ CollectFinalized(o)
  \/ \E r \in Replica : HandleStore(r, o) \/ HandleFinalize(r, o)

Repair(j) ==
  \/ ScanRepairJobs(j) \/ ClaimRepairJob(j) \/ PrepareRepair(j)
  \/ AdmitPull(j) \/ HandlePull(j) \/ FinishRepairJob(j)

Next ==
  \/ \E o \in Op : Write(o)
  \/ \E r \in Replica : DeleteObject(r)
  \/ \E j \in Job : Repair(j)

\* The client's deadlines always fire.
Fairness ==
  \A o \in Op : /\ WF_vars(\E got \in SUBSET Placement[o] : CollectReceipts(o, got))
                /\ WF_vars(CollectFinalized(o))

Spec == Init /\ [][Next]_vars /\ Fairness

-----------------------------------------------------------------------------
TypeOK ==
  /\ obj \in [Replica -> {NoObj} \cup
                 [op : Op \cup {NoOp}, data : Op, gen : Nat, final : BOOLEAN]]
  /\ receipts \in [Replica -> SUBSET Op]
  /\ listed \subseteq Replica
  /\ job \in [Job -> {"NONE", "PENDING", "RUNNING", "RETRY", "COMPLETED"}]
  /\ pull \in [Job -> {"none", "sent", "admitted", "answered"}]
  /\ pc \in [Op -> {"idle", "storing", "finalizing", "committed", "incomplete"}]
  /\ selected \in [Op -> SUBSET Replica]
  /\ confirmed \in [Op -> SUBSET Replica]
  /\ finalized \subseteq Op
  /\ lowered \subseteq Replica /\ faults \in 0..MaxFault

HasQuorum(o) == Cardinality({r \in Replica : o \in receipts[r]}) >= RequiredWriteAcks(o)

\* No replica holds as final, and so serves, bytes that fewer replicas than the
\* write required have durably accepted, however often they were repaired on.
FinalizedHasQuorum == \A r \in Replica : obj[r].final => HasQuorum(obj[r].data)

\* A write that needs several receipts and was reported incomplete is readable
\* somewhere only if its client had validated a quorum of receipts, and it was the
\* answers to FINALIZE_WRITE that were missing.  One whose receipts stayed below the
\* quorum is hidden for good, also when its last STOREs are applied after the error.
BelowQuorumStaysHidden ==
  \A o \in Op : pc[o] = "incomplete" /\ RequiredWriteAcks(o) > 1
    => \A r \in Replica : obj[r].final /\ obj[r].data = o
         => Cardinality(confirmed[o]) >= RequiredWriteAcks(o)

\* Two writes that compare-and-set the same generation.
Rivals(o, p) ==
  /\ o # p /\ Expected[o] >= 0 /\ Expected[p] = Expected[o]
  /\ Placement[o] = Placement[p] /\ Factor[o] = Factor[p]
  /\ Consistency[o] # "ONE" /\ Consistency[p] # "ONE"

\* Of two writers that expect the same generation at most one gets its quorum,
\* unless some replica of that placement was set back to an older generation.
OneWinnerPerGeneration ==
  \A o, p \in Op : Rivals(o, p) /\ HasQuorum(o) /\ HasQuorum(p)
    => \E r \in lowered : {o, p} \subseteq receipts[r]

\* A repair that is replayed, by the fallback or by a retry of its job, replaces
\* the copy it made and never the finalized bytes of another write.
ReplayIsSafe ==
  [][\A j \in Job :
       /\ HandlePull(j) /\ pull[j] = "answered"
       /\ obj[j.source].data = j.data /\ obj[j.target].final
       => obj[j.target].data = j.data]_vars
=============================================================================
