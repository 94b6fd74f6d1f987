--------------------------- MODULE ArtifactStore ---------------------------
(***************************************************************************)
(* One Repo node's artifact store: the content-addressed payload files     *)
(* (FilesystemCasPayloadStore), the SQLite metadata that owns them         *)
(* (SqliteRepositoryPersistence) and the three kinds of work that drive    *)
(* them: resumable upload sessions under a lease (ArtifactReplicaSession), *)
(* STORE assignments from the network (_execute_repo_store_assignment)     *)
(* and the garbage collector.  A process crash may fall between any two    *)
(* steps; files and database survive it, everything else does not.         *)
(*                                                                         *)
(* Every database transaction and every payload-store call is one step,    *)
(* because each holds its own lock and nothing is held across both         *)
(* (except by the collector, see DbFree).  Bytes are abstracted to the set *)
(* of chunks a file holds, and a lease to its number: a renewed lease has  *)
(* a larger number and a later expiry, and lapsed[o] is the last one that  *)
(* has expired.                                                            *)
(***************************************************************************)
EXTENDS Naturals, FiniteSets, FiniteSetsExt

CONSTANTS
  Op,          \* operation ids
  Kind,        \* [Op -> "network" (a STORE assignment), "reserved" (a session
               \* that reserves capacity) or "assigned" (one that does not)]
  Digest,      \* [Op -> content digest]
  Generation,  \* [Op -> storage generation]
  Name,        \* [Op -> logical name and policy epoch]
  Chunk,       \* chunks of every artifact
  Capacity,    \* configured capacity, in artifacts
  MaxLease,    \* bound: leases issued to one session
  MaxCrash,    \* bound: crashes of the process
  NoFile, NoOp

ASSUME StoreAssumption ==
  /\ IsFiniteSet(Op) /\ Kind \in [Op -> {"network", "reserved", "assigned"}]
  /\ IsFiniteSet(Chunk) /\ Chunk # {}
  /\ Capacity \in Nat /\ MaxLease \in Nat /\ MaxCrash \in Nat
  /\ NoOp \notin Op /\ NoFile # Chunk

Id(o)   == <<Digest[o], Generation[o]>>
Digests == {Digest[o] : o \in Op}
Idents  == {Id(o) : o \in Op}
Names   == {Name[o] : o \in Op}

VARIABLES
  payload,    \* [Digests -> chunks of the finalized file, or NoFile]
  part,       \* [Idents -> chunks written to the staging file, or NoFile]
  ranges,     \* [Idents -> chunks recorded as verified]
  lifecycle,  \* [Op -> last accepted state of the lifecycle journal]
  session,    \* [Op -> durable transfer session]
  resv,       \* [Op -> capacity reservation]
  phase,      \* [Op -> phase of the finalization journal]
  receipts,   \* operations with a durable receipt
  catalog,    \* [Names -> operation that is active under it, or NoOp]
  claim,      \* [Idents -> collector's claim]
  up,         \* "up", "down", or "recovering" (inside __init__)
  todo,       \* finalizations that start-up has still to replay
  obj,        \* [Op -> in-memory resume session]
  pc,         \* [Op -> next step of the thread that drives it]
  gc,         \* the collector: its next step and the row it works on
  rb,         \* [Op -> next step of a rollback of it]
  lapsed,     \* [Op -> number of the last lease that has expired]
  crashes

disk == <<payload, part, ranges>>
db   == <<lifecycle, session, resv, phase, receipts, catalog, claim>>
mem  == <<up, todo, obj, pc, gc, rb>>
vars == <<disk, db, mem, lapsed, crashes>>

NoSession == [state |-> "NONE", lease |-> 0, chunks |-> 0]
NoResv    == [state |-> "NONE", lease |-> 0, bytes |-> 0]
NoClaim   == [state |-> "NONE", op |-> NoOp, live |-> FALSE, due |-> FALSE]
NoObj     == [state |-> "NONE", lease |-> 0, ver |-> {}, cur |-> {}]
GcIdle    == [pc |-> "idle", op |-> NoOp]

Unsettled  == {"QUEUED", "RESERVED", "RECEIVING", "VERIFIED"}
InProgress == {"INTENT_RECORDED", "PAYLOAD_FINALIZED", "METADATA_COMMITTED"}

Init ==
  /\ payload = [d \in Digests |-> NoFile]
  /\ part = [i \in Idents |-> NoFile]
  /\ ranges = [i \in Idents |-> {}]
  /\ lifecycle = [o \in Op |-> "ABSENT"]
  /\ session = [o \in Op |-> NoSession]
  /\ resv = [o \in Op |-> NoResv]
  /\ phase = [o \in Op |-> "NONE"]
  /\ receipts = {}
  /\ catalog = [n \in Names |-> NoOp]
  /\ claim = [i \in Idents |-> NoClaim]
  /\ up = "up" /\ todo = {}
  /\ obj = [o \in Op |-> NoObj]
  /\ pc = [o \in Op |-> "idle"]
  /\ gc = GcIdle
  /\ rb = [o \in Op |-> "none"]
  /\ lapsed = [o \in Op |-> 0]
  /\ crashes = 0

-----------------------------------------------------------------------------
(* Shared pieces of the operations. *)

Live(o, l) == l > lapsed[o]

\* The collector keeps the metadata lock from marking a claim RECLAIMING until
\* it is RECLAIMED, while the payload store's own lock is free.
DbFree == gc.pc \notin {"abort", "complete"}

\* A new method call may start on o.
Ready(o) == up = "up" /\ pc[o] = "idle" /\ rb[o] = "none"

Goto(o, step) == pc' = [pc EXCEPT ![o] = step]

\* The collector owns the generation: OPEN checkpoints and intents are refused.
GcOwned(i) == claim[i].state \in {"CLAIMED", "RECLAIMING"} /\ claim[i].live

\* A finalized file counts as complete coverage.
VerifiedRanges(o) == IF payload[Digest[o]] # NoFile THEN Chunk ELSE ranges[Id(o)]

\* abort() drops the staging file and its sidecars.
Abort(i) ==
  /\ part' = [part EXCEPT ![i] = NoFile]
  /\ ranges' = [ranges EXCEPT ![i] = {}]
  /\ UNCHANGED payload

\* save_transfer_session: the states a stored session may be overwritten with.
Allowed ==
  [NONE      |-> {"OPEN"},
   OPEN      |-> {"OPEN", "CANCELLED", "EXPIRED", "COMPLETED", "FAILED"},
   CANCELLED |-> {"CANCELLED", "OPEN", "FAILED"},
   EXPIRED   |-> {"EXPIRED", "OPEN", "FAILED"},
   COMPLETED |-> {"COMPLETED"},
   FAILED    |-> {"FAILED"}]

\* The resume object s is an acceptable next checkpoint of o: not owned by the
\* collector, monotonic, and a changed lease is a renewal.
Accepts(o, s) ==
  LET old == session[o] IN
  /\ s.state = "OPEN" => ~GcOwned(Id(o))
  /\ s.state \in Allowed[old.state]
  /\ Cardinality(s.ver) >= old.chunks \/ s.state = "FAILED"
  /\ old.state \in {"CANCELLED", "EXPIRED"} /\ s.state = "OPEN" => s.lease > old.lease
  /\ old.state # "NONE" /\ s.lease # old.lease => s.state = "OPEN" /\ s.lease > old.lease

Save(o, s) ==
  session' = [session EXCEPT ![o] =
                [state |-> s.state, lease |-> s.lease, chunks |-> Cardinality(s.ver)]]

\* The object moves to s in memory, then the checkpoint is written or refused.
Record(o, s, step) ==
  /\ DbFree
  /\ obj' = [obj EXCEPT ![o] = s]
  /\ \/ Accepts(o, s) /\ Save(o, s) /\ Goto(o, step)
     \/ ~Accepts(o, s) /\ Goto(o, "idle") /\ UNCHANGED session

CommittedBytes == Cardinality({Id(catalog[n]) : n \in {m \in Names : catalog[m] # NoOp}})
ReservedBytes ==
  MapThenSumSet(LAMBDA o : resv[o].bytes,
                {o \in Op : resv[o].state \in {"ACTIVE", "FINALIZING"}})

-----------------------------------------------------------------------------
(* ArtifactReplicaSession: one resumable upload. *)

sessionOnly == <<disk, lifecycle, resv, phase, receipts, catalog, claim,
                 up, todo, gc, rb, lapsed, crashes>>

\* The constructor, on a fresh upload or on what a crash left behind.
Open(o) ==
  /\ Ready(o) /\ DbFree /\ Kind[o] # "network" /\ obj[o] = NoObj
  /\ \E l \in (lapsed[o] + 1)..MaxLease :
       LET ver == VerifiedRanges(o)
           s   == [NoObj EXCEPT !.state = "OPEN", !.lease = l, !.ver = ver]
       IN  /\ session[o].state # "FAILED" /\ session[o].chunks <= Cardinality(ver)
           /\ \/ /\ session[o].state = "COMPLETED" /\ ver = Chunk
                 /\ obj' = [obj EXCEPT ![o] = [s EXCEPT !.state = "COMPLETED"]]
                 /\ UNCHANGED session
              \/ /\ session[o].state # "COMPLETED" /\ Accepts(o, s)
                 /\ obj' = [obj EXCEPT ![o] = s] /\ Save(o, s)
  /\ UNCHANGED <<sessionOnly, pc>>

\* reserve(): the deduplication check is made before the lock is taken.
Reserve(o) ==
  /\ Ready(o) /\ Kind[o] = "reserved" /\ obj[o] # NoObj
  /\ Goto(o, IF payload[Digest[o]] = Chunk THEN "insertDedup" ELSE "insert")
  /\ UNCHANGED <<disk, db, up, todo, obj, gc, rb, lapsed, crashes>>

ReserveInsert(o) ==
  LET bytes == IF pc[o] = "insert" THEN 1 ELSE 0
      fits  == bytes = 0 \/ CommittedBytes + ReservedBytes + bytes <= Capacity
      row   == [state |-> "ACTIVE", lease |-> obj[o].lease, bytes |-> bytes]
  IN  /\ pc[o] \in {"insert", "insertDedup"} /\ DbFree
      /\ \/ /\ resv[o] = NoResv /\ fits /\ Live(o, obj[o].lease)
            /\ resv' = [resv EXCEPT ![o] = row] /\ Goto(o, "reserved")
         \/ /\ resv[o] # NoResv /\ [resv[o] EXCEPT !.state = "ACTIVE"] = row
            /\ resv[o].state # "RELEASED" /\ Live(o, obj[o].lease)
            /\ UNCHANGED resv /\ Goto(o, "reserved")
         \/ /\ \/ resv[o] = NoResv /\ ~fits
               \/ resv[o] # NoResv /\ [resv[o] EXCEPT !.state = "ACTIVE"] # row
               \/ resv[o].state = "RELEASED"
               \/ ~Live(o, obj[o].lease)
            /\ UNCHANGED resv /\ Goto(o, "idle")
      /\ UNCHANGED <<disk, lifecycle, session, phase, receipts, catalog, claim,
                     up, todo, obj, gc, rb, lapsed, crashes>>

\* The rest of reserve(), and begin_assigned_task(): enter the lifecycle.
Enter(o) ==
  LET first == IF Kind[o] = "assigned" THEN "QUEUED" ELSE "RESERVED" IN
  /\ DbFree /\ obj[o] # NoObj
  /\ \/ Kind[o] = "reserved" /\ pc[o] = "reserved"
     \/ Kind[o] = "assigned" /\ Ready(o)
  /\ \/ lifecycle[o] = "ABSENT" /\ Goto(o, "begin")
        /\ lifecycle' = [lifecycle EXCEPT ![o] = first]
     \/ lifecycle[o] \in {first, "RECEIVING", "VERIFIED", "ACTIVE"}
        /\ Goto(o, "begin") /\ UNCHANGED lifecycle
     \/ lifecycle[o] \notin {"ABSENT", first, "RECEIVING", "VERIFIED", "ACTIVE"}
        /\ Goto(o, "idle") /\ UNCHANGED lifecycle
  /\ UNCHANGED <<disk, session, resv, phase, receipts, catalog, claim,
                 up, todo, obj, gc, rb, lapsed, crashes>>

\* FilesystemCasPayloadStore.begin: nothing to stage when the bytes are final.
Begin(o) ==
  /\ pc[o] = "begin"
  /\ part' = IF payload[Digest[o]] = NoFile /\ part[Id(o)] = NoFile
             THEN [part EXCEPT ![Id(o)] = {}] ELSE part
  /\ Goto(o, IF Kind[o] = "network" THEN "fetch" ELSE "idle")
  /\ UNCHANGED <<payload, ranges, db, up, todo, obj, gc, rb, lapsed, crashes>>

\* receive_chunk up to the write: checkpoint, then RECEIVING.
Receive(o, c) ==
  /\ Ready(o) /\ DbFree /\ obj[o].state = "OPEN" /\ Live(o, obj[o].lease)
  /\ Accepts(o, obj[o]) /\ Save(o, obj[o])
  /\ lifecycle[o] \in {"QUEUED", "RESERVED", "RECEIVING"}
  /\ lifecycle' = [lifecycle EXCEPT ![o] = "RECEIVING"]
  /\ c \notin obj[o].ver
  /\ obj' = [obj EXCEPT ![o].cur = {c}]
  /\ Goto(o, "write")
  /\ UNCHANGED <<disk, resv, phase, receipts, catalog, claim,
                 up, todo, gc, rb, lapsed, crashes>>

\* The call that worked on a chunk no longer needs it.
ForgetChunk(o) == obj' = [obj EXCEPT ![o].cur = {}]

\* write_range: the staging file must still be there.
Write(o) ==
  /\ pc[o] = "write"
  /\ \/ /\ part[Id(o)] # NoFile
        /\ part' = [part EXCEPT ![Id(o)] = @ \cup obj[o].cur]
        /\ \/ Kind[o] = "network" /\ Goto(o, "fetch") /\ ForgetChunk(o)
           \/ Kind[o] # "network" /\ Goto(o, "mark") /\ UNCHANGED obj
     \/ part[Id(o)] = NoFile /\ Goto(o, "idle") /\ ForgetChunk(o) /\ UNCHANGED part
  /\ UNCHANGED <<payload, ranges, db, up, todo, gc, rb, lapsed, crashes>>

\* mark_verified creates the range map even if the staging file has gone.
MarkRange(o) ==
  /\ pc[o] = "mark"
  /\ ranges' = [ranges EXCEPT ![Id(o)] = @ \cup obj[o].cur]
  /\ \/ Kind[o] = "network" /\ Goto(o, "fetch") /\ ForgetChunk(o)
     \/ Kind[o] # "network" /\ Goto(o, "checkpoint") /\ UNCHANGED obj
  /\ UNCHANGED <<payload, part, db, up, todo, gc, rb, lapsed, crashes>>

\* The end of receive_chunk; a lapsed lease expires the object instead.
ChunkVerified(o) ==
  /\ pc[o] = "checkpoint"
  /\ \/ /\ Live(o, obj[o].lease)
        /\ Record(o, [obj[o] EXCEPT !.ver = @ \cup obj[o].cur, !.cur = {}], "idle")
     \/ /\ ~Live(o, obj[o].lease)
        /\ obj' = [obj EXCEPT ![o].state = "EXPIRED", ![o].cur = {}]
        /\ Goto(o, "idle") /\ UNCHANGED session
  /\ UNCHANGED sessionOnly

\* verify_complete: the session is COMPLETED first, the lifecycle VERIFIED after.
VerifyComplete(o) ==
  /\ Ready(o) /\ obj[o].state = "OPEN" /\ Live(o, obj[o].lease)
  /\ lifecycle[o] = "RECEIVING" /\ VerifiedRanges(o) = Chunk /\ obj[o].ver = Chunk
  /\ Record(o, [obj[o] EXCEPT !.state = "COMPLETED"], "verified")
  /\ UNCHANGED sessionOnly

Verified(o) ==
  /\ pc[o] = "verified" /\ DbFree
  /\ lifecycle' = [lifecycle EXCEPT ![o] = IF @ = "RECEIVING" THEN "VERIFIED" ELSE @]
  /\ Goto(o, IF Kind[o] = "network" THEN "intent" ELSE "idle")
  /\ UNCHANGED <<disk, session, resv, phase, receipts, catalog, claim,
                 up, todo, obj, gc, rb, lapsed, crashes>>

\* cancel(preserve_progress=True), and expire().
Pause(o, s) ==
  /\ Ready(o) /\ obj[o].state = "OPEN"
  /\ s = "EXPIRED" => ~Live(o, obj[o].lease)
  /\ Record(o, [obj[o] EXCEPT !.state = s], "idle")
  /\ UNCHANGED sessionOnly

\* renew_lease and resume: capacity first, then the checkpoint.
Renew(o, l) ==
  /\ Ready(o) /\ DbFree /\ obj[o].state \in {"OPEN", "CANCELLED", "EXPIRED"}
  /\ l > obj[o].lease /\ Live(o, l)
  /\ obj' = [obj EXCEPT ![o].state = "OPEN", ![o].lease = l]
  /\ \/ resv[o] = NoResv /\ Goto(o, "renewed") /\ UNCHANGED resv
     \/ /\ resv[o].state = "ACTIVE" /\ l > resv[o].lease
        /\ resv' = [resv EXCEPT ![o].lease = l] /\ Goto(o, "renewed")
     \/ /\ resv[o] # NoResv /\ ~(resv[o].state = "ACTIVE" /\ l > resv[o].lease)
        /\ Goto(o, "idle") /\ UNCHANGED resv
  /\ UNCHANGED <<disk, lifecycle, session, phase, receipts, catalog, claim,
                 up, todo, gc, rb, lapsed, crashes>>

Renewed(o) ==
  /\ pc[o] = "renewed" /\ Record(o, obj[o], "idle")
  /\ UNCHANGED sessionOnly

\* A plausible bug: the reservation is given back before the bytes are dropped.
Abandon_ReleasesFirst(o) ==
  /\ Ready(o) /\ obj[o].state \notin {"NONE", "COMPLETED", "FAILED"}
  /\ obj' = [obj EXCEPT ![o].state = "FAILED"] /\ Goto(o, "release")
  /\ UNCHANGED <<disk, db, up, todo, gc, rb, lapsed, crashes>>

\* A plausible bug: an upload that is already complete may still be failed.
Abandon_AnyState(o) ==
  /\ Ready(o) /\ obj[o].state \notin {"NONE", "FAILED"}
  /\ obj' = [obj EXCEPT ![o].state = "FAILED"] /\ Goto(o, "failed")
  /\ UNCHANGED <<disk, db, up, todo, gc, rb, lapsed, crashes>>

\* fail(), and cancel(preserve_progress=False): abort, release, checkpoint,
\* lifecycle, each on its own.
Abandon(o) ==
  /\ Ready(o) /\ obj[o].state \notin {"NONE", "COMPLETED", "FAILED"}
  /\ obj' = [obj EXCEPT ![o].state = "FAILED"] /\ Goto(o, "abort")
  /\ UNCHANGED <<disk, db, up, todo, gc, rb, lapsed, crashes>>

AbandonAbort(o) ==
  /\ pc[o] = "abort" /\ Abort(Id(o)) /\ Goto(o, "release")
  /\ UNCHANGED <<db, up, todo, obj, gc, rb, lapsed, crashes>>

AbandonRelease(o) ==
  /\ pc[o] = "release" /\ DbFree
  /\ resv' = IF resv[o].state \in {"ACTIVE", "FINALIZING"}
             THEN [resv EXCEPT ![o].state = "RELEASED"] ELSE resv
  /\ Goto(o, "failing")
  /\ UNCHANGED <<disk, lifecycle, session, phase, receipts, catalog, claim,
                 up, todo, obj, gc, rb, lapsed, crashes>>

AbandonSave(o) ==
  /\ pc[o] = "failing" /\ Record(o, obj[o], "failed")
  /\ UNCHANGED sessionOnly

AbandonTransition(o) ==
  /\ pc[o] = "failed" /\ DbFree
  /\ lifecycle' = [lifecycle EXCEPT ![o] = IF @ \in Unsettled THEN "FAILED" ELSE @]
  /\ Goto(o, "idle")
  /\ UNCHANGED <<disk, session, resv, phase, receipts, catalog, claim,
                 up, todo, obj, gc, rb, lapsed, crashes>>

-----------------------------------------------------------------------------
(* _execute_repo_store_assignment: accept, fetch every chunk, mark them. *)

Assign(o) ==
  /\ Ready(o) /\ DbFree /\ Kind[o] = "network" /\ lifecycle[o] # "ACTIVE"
  /\ lifecycle' = [lifecycle EXCEPT ![o] =
                     IF @ \in {"ABSENT", "QUEUED"} THEN "RECEIVING" ELSE @]
  /\ Goto(o, "begin")
  /\ UNCHANGED <<disk, session, resv, phase, receipts, catalog, claim,
                 up, todo, obj, gc, rb, lapsed, crashes>>

Fetch(o) ==
  LET i == Id(o) IN
  /\ pc[o] = "fetch"
  /\ \/ /\ payload[Digest[o]] # NoFile \/ (part[i] = Chunk /\ ranges[i] = Chunk)
        /\ Goto(o, "verified") /\ UNCHANGED obj
     \/ /\ payload[Digest[o]] = NoFile /\ part[i] # NoFile
        /\ \E c \in Chunk \ part[i] :
             obj' = [obj EXCEPT ![o].cur = {c}] /\ Goto(o, "write")
     \/ /\ payload[Digest[o]] = NoFile /\ part[i] = Chunk
        /\ \E c \in Chunk \ ranges[i] :
             obj' = [obj EXCEPT ![o].cur = {c}] /\ Goto(o, "mark")
     \/ Goto(o, "idle") /\ UNCHANGED obj   \* a timeout, or the file has gone
  /\ UNCHANGED <<disk, db, up, todo, gc, rb, lapsed, crashes>>

-----------------------------------------------------------------------------
(* Finalization: intent, payload, receipt, activation.  Drivers and start-up
   reconciliation take the same steps; an exception frees the thread. *)

finalUnchanged == <<session, claim, up, todo, obj, gc, rb, lapsed, crashes>>

\* begin_finalization.  A repeated intent must be identical to the stored one,
\* including its commit time; an assignment reads a new time on every attempt.
BeginFinalization(o) ==
  /\ \/ Kind[o] = "network" /\ pc[o] = "intent"
     \/ Ready(o) /\ obj[o] # NoObj /\ lifecycle[o] = "VERIFIED"
  /\ DbFree
  /\ \/ /\ phase[o] = "NONE" /\ lifecycle[o] \in {"VERIFIED", "COMMITTED", "ACTIVE"}
        /\ ~GcOwned(Id(o))
        /\ phase' = [phase EXCEPT ![o] = "INTENT_RECORDED"]
        /\ resv' = IF resv[o].state = "ACTIVE"
                   THEN [resv EXCEPT ![o].state = "FINALIZING"] ELSE resv
        /\ Goto(o, "finalize")
     \/ /\ phase[o] # "NONE" /\ Kind[o] # "network" /\ ~GcOwned(Id(o))
        /\ Goto(o, "finalize") /\ UNCHANGED <<phase, resv>>
     \/ /\ \/ GcOwned(Id(o))
           \/ lifecycle[o] \notin {"VERIFIED", "COMMITTED", "ACTIVE"}
           \/ phase[o] # "NONE"
        /\ Goto(o, "idle") /\ UNCHANGED <<phase, resv>>
  /\ UNCHANGED <<disk, lifecycle, receipts, catalog, finalUnchanged>>

\* A plausible bug: complete ranges are taken for complete bytes.
FinalizePayload_TrustsRanges(o) ==
  LET d == Digest[o]
      i == Id(o)
  IN  /\ pc[o] = "finalize"
      /\ payload[d] # NoFile \/ (part[i] # NoFile /\ ranges[i] = Chunk)
      /\ payload' = IF payload[d] = NoFile THEN [payload EXCEPT ![d] = part[i]] ELSE payload
      /\ part' = [part EXCEPT ![i] = NoFile]
      /\ ranges' = [ranges EXCEPT ![i] = {}]
      /\ Goto(o, "markFinal")
      /\ UNCHANGED <<db, up, todo, obj, gc, rb, lapsed, crashes>>

\* FilesystemCasPayloadStore.finalize: the whole digest decides.
FinalizePayload(o) ==
  LET d == Digest[o]
      i == Id(o)
      staged == part[i] = Chunk /\ ranges[i] = Chunk
  IN  /\ pc[o] = "finalize"
      /\ \/ /\ payload[d] = Chunk \/ (payload[d] = NoFile /\ staged)
            /\ payload' = [payload EXCEPT ![d] = Chunk]
            /\ part' = [part EXCEPT ![i] = NoFile]
            /\ ranges' = [ranges EXCEPT ![i] = {}]
            /\ Goto(o, "markFinal")
         \/ /\ ~(payload[d] = Chunk \/ (payload[d] = NoFile /\ staged))
            /\ Goto(o, "idle") /\ UNCHANGED disk
      /\ UNCHANGED <<db, up, todo, obj, gc, rb, lapsed, crashes>>

MarkPayloadFinalized(o) ==
  /\ pc[o] = "markFinal" /\ DbFree
  /\ \/ /\ payload[Digest[o]] = Chunk /\ phase[o] # "ROLLED_BACK"
        /\ phase' = [phase EXCEPT ![o] =
                       IF @ = "INTENT_RECORDED" THEN "PAYLOAD_FINALIZED" ELSE @]
        /\ Goto(o, "commit")
     \/ /\ payload[Digest[o]] # Chunk \/ phase[o] = "ROLLED_BACK"
        /\ Goto(o, "idle") /\ UNCHANGED phase
  /\ UNCHANGED <<disk, lifecycle, resv, receipts, catalog, finalUnchanged>>

CommitFinalizedArtifact(o) ==
  LET commits == phase[o] = "PAYLOAD_FINALIZED"
                   /\ lifecycle[o] \in {"VERIFIED", "COMMITTED", "ACTIVE"}
      done    == phase[o] \in {"METADATA_COMMITTED", "ACTIVE"}
  IN  /\ pc[o] = "commit" /\ DbFree
      /\ \/ /\ commits
            /\ receipts' = receipts \cup {o}
            /\ lifecycle' = [lifecycle EXCEPT ![o] = IF @ = "VERIFIED" THEN "COMMITTED" ELSE @]
            /\ phase' = [phase EXCEPT ![o] = "METADATA_COMMITTED"]
            /\ Goto(o, "activate")
         \/ /\ ~commits
            /\ Goto(o, IF done THEN "activate" ELSE "idle")
            /\ UNCHANGED <<receipts, lifecycle, phase>>
      /\ UNCHANGED <<disk, resv, catalog, finalUnchanged>>

ActivateFinalizedArtifact(o) ==
  LET free == catalog[Name[o]] \in {NoOp, o} IN
  /\ pc[o] = "activate" /\ DbFree
  /\ \/ /\ phase[o] = "METADATA_COMMITTED" /\ free
        /\ lifecycle[o] \in {"COMMITTED", "ACTIVE"}
        /\ catalog' = [catalog EXCEPT ![Name[o]] = o]
        /\ lifecycle' = [lifecycle EXCEPT ![o] = "ACTIVE"]
        /\ phase' = [phase EXCEPT ![o] = "ACTIVE"]
        /\ resv' = IF resv[o] = NoResv THEN resv
                   ELSE [resv EXCEPT ![o].state = "COMMITTED"]
     \/ /\ ~(phase[o] = "METADATA_COMMITTED" /\ free /\ lifecycle[o] \in {"COMMITTED", "ACTIVE"})
        /\ UNCHANGED <<catalog, lifecycle, phase, resv>>
  /\ Goto(o, "idle")
  /\ UNCHANGED <<disk, receipts, finalUnchanged>>

-----------------------------------------------------------------------------
(* rollback_finalization: checked, written under the lock, then the files. *)

\* Nothing in the repository calls rollback_finalization.  The model's caller gives
\* up an artifact that no thread drives and whose bytes no other operation shares.
CallerOwns(o) == pc[o] = "idle" /\ \A p \in Op \ {o} : Digest[p] # Digest[o]

\* A plausible bug: a committed finalization may be rolled back.
RollbackCheck_AnyPhase(o) ==
  /\ up = "up" /\ rb[o] = "none" /\ phase[o] \in InProgress
  /\ CallerOwns(o)
  /\ rb' = [rb EXCEPT ![o] = "lock"]
  /\ UNCHANGED <<disk, db, up, todo, obj, pc, gc, lapsed, crashes>>

RollbackCheck(o) ==
  /\ up = "up" /\ rb[o] = "none" /\ phase[o] \in {"INTENT_RECORDED", "PAYLOAD_FINALIZED"}
  /\ CallerOwns(o)
  /\ rb' = [rb EXCEPT ![o] = "lock"]
  /\ UNCHANGED <<disk, db, up, todo, obj, pc, gc, lapsed, crashes>>

\* Some metadata row still refers to this digest and generation.
Referenced(o) ==
  \E p \in Op : /\ Id(p) = Id(o)
                /\ \/ p \in receipts
                   \/ catalog[Name[p]] = p
                   \/ p # o /\ phase[p] \notin {"NONE", "ROLLED_BACK"}

RollbackCommit(o) ==
  /\ rb[o] = "lock" /\ DbFree
  /\ lifecycle' = [lifecycle EXCEPT ![o] = IF @ = "VERIFIED" THEN "FAILED" ELSE @]
  /\ phase' = [phase EXCEPT ![o] = "ROLLED_BACK"]
  /\ session' = IF session[o] = NoSession THEN session
                ELSE [session EXCEPT ![o].state = "FAILED", ![o].chunks = 0]
  /\ resv' = IF resv[o] = NoResv THEN resv ELSE [resv EXCEPT ![o].state = "RELEASED"]
  /\ rb' = [rb EXCEPT ![o] = IF Referenced(o) THEN "abort" ELSE "abortReclaim"]
  /\ UNCHANGED <<disk, receipts, catalog, claim, up, todo, obj, pc, gc, lapsed, crashes>>

RollbackAbort(o) ==
  /\ rb[o] \in {"abort", "abortReclaim"} /\ Abort(Id(o))
  /\ rb' = [rb EXCEPT ![o] = IF @ = "abort" THEN "none" ELSE "reclaim"]
  /\ UNCHANGED <<db, up, todo, obj, pc, gc, lapsed, crashes>>

\* reclaim_unreferenced_finalized: the path is named by the digest alone.
RollbackReclaim(o) ==
  /\ rb[o] = "reclaim"
  /\ payload' = [payload EXCEPT ![Digest[o]] = NoFile]
  /\ rb' = [rb EXCEPT ![o] = "none"]
  /\ UNCHANGED <<part, ranges, db, up, todo, obj, pc, gc, lapsed, crashes>>

-----------------------------------------------------------------------------
(* collect_expired_temporaries, one row at a time. *)

gcUnchanged == <<phase, receipts, catalog, up, todo, obj, pc, rb, lapsed, crashes>>

CollectSelect(o) ==
  /\ up = "up" /\ gc = GcIdle
  /\ \/ session[o].state = "FAILED"
     \/ session[o].state \in {"OPEN", "EXPIRED", "CANCELLED"} /\ ~Live(o, session[o].lease)
  /\ gc' = [pc |-> IF session[o].state = "OPEN" THEN "expire" ELSE "claim", op |-> o]
  /\ UNCHANGED <<disk, lifecycle, session, resv, claim, gcUnchanged>>

CollectExpire ==
  /\ gc.pc = "expire"
  /\ session' = IF session[gc.op].state = "OPEN"
                THEN [session EXCEPT ![gc.op].state = "EXPIRED"] ELSE session
  /\ gc' = [gc EXCEPT !.pc = "claim"]
  /\ UNCHANGED <<disk, lifecycle, resv, claim, gcUnchanged>>

\* A plausible bug: the finalization journal is not consulted.
Unprotected_NoJournal(i) ==
  LET ops == {o \in Op : Id(o) = i} IN
  /\ \A o \in ops : o \notin receipts /\ catalog[Name[o]] # o
  /\ \A o \in ops : ~(session[o].state = "OPEN" /\ Live(o, session[o].lease))

\* _gc_protection_reason finds none.  The journal and the reservation are
\* looked up with LIMIT 1: of several rows any one may be the one that is read.
Unprotected(i) ==
  LET ops    == {o \in Op : Id(o) = i}
      finals == {o \in ops : phase[o] # "NONE"}
      rows   == {o \in ops : resv[o] # NoResv}
  IN  /\ \A o \in ops : o \notin receipts /\ catalog[Name[o]] # o
      /\ finals = {} \/ \E o \in finals : phase[o] = "ROLLED_BACK"
      /\ rows = {} \/ \E o \in rows : \/ resv[o].state = "RELEASED"
                                      \/ resv[o].state = "ACTIVE" /\ ~Live(o, resv[o].lease)
      /\ \A o \in ops : ~(session[o].state = "OPEN" /\ Live(o, session[o].lease))

ClaimGarbageCollection ==
  LET o == gc.op
      i == Id(o)
      taken == GcOwned(i) /\ claim[i].op # o
  IN  /\ gc.pc = "claim"
      /\ \/ /\ Unprotected(i) /\ ~taken
            /\ claim' = [claim EXCEPT ![i] =
                 [state |-> "CLAIMED", op |-> o, live |-> TRUE,
                  due |-> ~Live(o, session[o].lease)]]
            /\ gc' = [gc EXCEPT !.pc = "reclaim"]
         \/ (~Unprotected(i) \/ taken) /\ gc' = GcIdle /\ UNCHANGED claim
      /\ UNCHANGED <<disk, lifecycle, session, resv, gcUnchanged>>

ReclaimTemporaryGeneration ==
  LET i    == Id(gc.op)
      mine == claim[i].op = gc.op /\ claim[i].live /\ claim[i].state = "CLAIMED"
  IN  /\ gc.pc = "reclaim"
      /\ \/ /\ mine /\ Unprotected(i)
            /\ claim' = [claim EXCEPT ![i].state = "RECLAIMING"]
            /\ gc' = [gc EXCEPT !.pc = "abort"]
         \/ ~(mine /\ Unprotected(i)) /\ gc' = GcIdle /\ UNCHANGED claim
      /\ UNCHANGED <<disk, lifecycle, session, resv, gcUnchanged>>

ReclaimAbort ==
  /\ gc.pc = "abort" /\ Abort(Id(gc.op))
  /\ gc' = [gc EXCEPT !.pc = "complete"]
  /\ UNCHANGED <<db, up, todo, obj, pc, rb, lapsed, crashes>>

\* _complete_gc_metadata for the claim on i, whose deadline matters no more.
CompleteGcMetadata(i) ==
  LET o == claim[i].op IN
  /\ lifecycle' = [lifecycle EXCEPT ![o] =
        IF @ \in Unsettled THEN (IF claim[i].due THEN "EXPIRED" ELSE "FAILED") ELSE @]
  /\ session' = [session EXCEPT ![o].state = "FAILED", ![o].chunks = 0]
  /\ resv' = IF resv[o] = NoResv THEN resv ELSE [resv EXCEPT ![o].state = "RELEASED"]
  /\ claim' = [claim EXCEPT ![i] = [state |-> "RECLAIMED", op |-> o, live |-> FALSE, due |-> FALSE]]

ReclaimComplete ==
  /\ gc.pc = "complete" /\ CompleteGcMetadata(Id(gc.op)) /\ gc' = GcIdle
  /\ UNCHANGED <<disk, gcUnchanged>>

-----------------------------------------------------------------------------
(* Time, crashes and start-up. *)

LeaseLapses(o) ==
  /\ lapsed[o] < Max({obj[o].lease, session[o].lease, resv[o].lease})
  /\ lapsed' = [lapsed EXCEPT ![o] = @ + 1]
  /\ UNCHANGED <<disk, db, mem, crashes>>

ClaimLapses(i) ==
  /\ claim[i].live /\ claim' = [claim EXCEPT ![i].live = FALSE]
  /\ UNCHANGED <<disk, lifecycle, session, resv, phase, receipts, catalog, mem, lapsed, crashes>>

\* The machine stops.  Sessions do not flush staged bytes before finalize(), so any
\* of them may be lost although the range map, written with fsync, lists them (an
\* assignment flushes after its last chunk, which the model does not rely on).
Crash ==
  /\ up # "down" /\ crashes < MaxCrash
  /\ \E kept \in SUBSET Chunk :
       part' = [i \in Idents |-> IF part[i] = NoFile THEN NoFile ELSE part[i] \cap kept]
  /\ up' = "down" /\ todo' = {}
  /\ obj' = [o \in Op |-> NoObj] /\ pc' = [o \in Op |-> "idle"]
  /\ gc' = GcIdle /\ rb' = [o \in Op |-> "none"]
  /\ crashes' = crashes + 1
  /\ UNCHANGED <<payload, ranges, db, lapsed>>

\* A plausible bug: start-up replays only what is not yet committed.
Restart_UncommittedOnly ==
  /\ up = "down" /\ up' = "recovering"
  /\ todo' = {o \in Op : phase[o] \in {"INTENT_RECORDED", "PAYLOAD_FINALIZED"}}
  /\ UNCHANGED <<disk, db, obj, pc, gc, rb, lapsed, crashes>>

Restart ==
  /\ up = "down" /\ up' = "recovering"
  /\ todo' = {o \in Op : phase[o] \in InProgress}
  /\ UNCHANGED <<disk, db, obj, pc, gc, rb, lapsed, crashes>>

Quiet == \A o \in Op : pc[o] = "idle"

\* reconcile_finalizations takes up the next row where its phase left it.
ReconcileFinalization(o) ==
  /\ up = "recovering" /\ Quiet /\ o \in todo
  /\ todo' = todo \ {o}
  /\ Goto(o, CASE phase[o] = "INTENT_RECORDED"   -> "finalize"
               [] phase[o] = "PAYLOAD_FINALIZED" -> "commit"
               [] OTHER                          -> "activate")
  /\ UNCHANGED <<disk, db, up, obj, gc, rb, lapsed, crashes>>

Interrupted(i) == claim[i].state = "RECLAIMING" /\ session[claim[i].op] # NoSession

ReconcileGcClaim(i) ==
  /\ up = "recovering" /\ Quiet /\ todo = {} /\ Interrupted(i)
  /\ Abort(i) /\ CompleteGcMetadata(i)
  /\ UNCHANGED <<gc, gcUnchanged>>

Started ==
  /\ up = "recovering" /\ Quiet /\ todo = {} /\ \A i \in Idents : ~Interrupted(i)
  /\ up' = "up"
  /\ UNCHANGED <<disk, db, todo, obj, pc, gc, rb, lapsed, crashes>>

-----------------------------------------------------------------------------
Session(o) ==
  \/ Open(o) \/ Reserve(o) \/ ReserveInsert(o) \/ Enter(o) \/ Begin(o)
  \/ \E c \in Chunk : Receive(o, c)
  \/ Write(o) \/ MarkRange(o) \/ ChunkVerified(o) \/ VerifyComplete(o) \/ Verified(o)
  \/ \E s \in {"CANCELLED", "EXPIRED"} : Pause(o, s)
  \/ \E l \in 1..MaxLease : Renew(o, l)
  \/ Renewed(o) \/ Abandon(o) \/ AbandonAbort(o) \/ AbandonRelease(o)
  \/ AbandonSave(o) \/ AbandonTransition(o) \/ Assign(o) \/ Fetch(o)

Finalization(o) ==
  \/ BeginFinalization(o) \/ FinalizePayload(o) \/ MarkPayloadFinalized(o)
  \/ CommitFinalizedArtifact(o) \/ ActivateFinalizedArtifact(o)

Rollback(o) ==
  RollbackCheck(o) \/ RollbackCommit(o) \/ RollbackAbort(o) \/ RollbackReclaim(o)

Collector ==
  \/ \E o \in Op : CollectSelect(o)
  \/ CollectExpire \/ ClaimGarbageCollection \/ ReclaimTemporaryGeneration
  \/ ReclaimAbort \/ ReclaimComplete

Startup ==
  \/ Restart \/ Started
  \/ \E o \in Op : ReconcileFinalization(o)
  \/ \E i \in Idents : ReconcileGcClaim(i)

Next ==
  \/ \E o \in Op : Session(o) \/ Finalization(o) \/ Rollback(o) \/ LeaseLapses(o)
  \/ Collector \/ Crash \/ Startup
  \/ \E i \in Idents : ClaimLapses(i)

\* A stopped process is restarted, and a finalization that has begun runs on; a
\* thread that waits for the metadata lock gets it if it is free again and again.
Fairness ==
  /\ WF_vars(Startup) /\ WF_vars(ReclaimAbort \/ ReclaimComplete)
  /\ \A o \in Op : SF_vars(FinalizePayload(o) \/ MarkPayloadFinalized(o)
                           \/ CommitFinalizedArtifact(o) \/ ActivateFinalizedArtifact(o))

Spec == Init /\ [][Next]_vars /\ Fairness

-----------------------------------------------------------------------------
TypeOK ==
  /\ payload \in [Digests -> {NoFile, Chunk}]
  /\ part \in [Idents -> {NoFile} \cup SUBSET Chunk]
  /\ ranges \in [Idents -> SUBSET Chunk]
  /\ lifecycle \in [Op -> Unsettled \cup {"ABSENT", "COMMITTED", "ACTIVE", "FAILED", "EXPIRED"}]
  /\ session \in [Op -> [state : DOMAIN Allowed, lease : 0..MaxLease,
                         chunks : 0..Cardinality(Chunk)]]
  /\ resv \in [Op -> [state : {"NONE", "ACTIVE", "FINALIZING", "COMMITTED", "RELEASED"},
                      lease : 0..MaxLease, bytes : {0, 1}]]
  /\ phase \in [Op -> InProgress \cup {"NONE", "ACTIVE", "ROLLED_BACK"}]
  /\ receipts \subseteq Op
  /\ catalog \in [Names -> Op \cup {NoOp}]
  /\ claim \in [Idents -> [state : {"NONE", "CLAIMED", "RECLAIMING", "RECLAIMED"},
                           op : Op \cup {NoOp}, live : BOOLEAN, due : BOOLEAN]]
  /\ up \in {"up", "down", "recovering"} /\ todo \subseteq Op
  /\ obj \in [Op -> [state : DOMAIN Allowed, lease : 0..MaxLease,
                     ver : SUBSET Chunk, cur : SUBSET Chunk]]
  /\ lapsed \in [Op -> 0..MaxLease] /\ crashes \in 0..MaxCrash

\* The four durable records of one operation tell the same story after any
\* crash: lifecycle journal, finalization journal, receipt and catalog.
JournalsAgree ==
  \A o \in Op :
    /\ phase[o] = "ACTIVE" <=> catalog[Name[o]] = o
    /\ phase[o] = "ACTIVE" <=> lifecycle[o] = "ACTIVE"
    /\ phase[o] = "METADATA_COMMITTED" <=> lifecycle[o] = "COMMITTED"
    /\ phase[o] \in {"METADATA_COMMITTED", "ACTIVE"} <=> o \in receipts
    /\ phase[o] \in {"INTENT_RECORDED", "PAYLOAD_FINALIZED"} => lifecycle[o] = "VERIFIED"

\* Bytes on the disk are paid for: a staging file of operations that reserve
\* capacity has a reservation of full size behind it, or a FAILED session that
\* keeps it on the collector's list.
StagedIsReserved ==
  \A i \in Idents :
    LET ops == {o \in Op : Id(o) = i} IN
    (part[i] # NoFile /\ \A o \in ops : Kind[o] = "reserved")
      => \E o \in ops : \/ resv[o].state \in {"ACTIVE", "FINALIZING"} /\ resv[o].bytes = 1
                        \/ session[o].state = "FAILED"

\* The collector deletes no staging file of an upload whose reservation is
\* still running or whose finalization is under way.
CollectorSparesLiveUploads ==
  [][ReclaimAbort =>
       \A o \in Op : Id(o) = Id(gc.op)
         => /\ phase[o] \notin InProgress
            /\ ~(resv[o].state \in {"ACTIVE", "FINALIZING"} /\ Live(o, resv[o].lease))]_vars

\* The promise of ArtifactPromise, kept by the store.
Promise == INSTANCE ArtifactPromise WITH
  certified <- {o \in receipts : payload[Digest[o]] = Chunk},
  visible   <- {o \in Op : catalog[Name[o]] = o /\ payload[Digest[o]] = Chunk},
  dropped   <- {o \in Op : phase[o] = "ROLLED_BACK"}

KeepsPromise == Promise!Spec

\* An intent is carried through: once its driver is past begin_finalization, or
\* the process is down, it ends ACTIVE or rolled back, unless its bytes were
\* lost before they were flushed or its name belongs to another operation.
IntentsSettle ==
  \A o \in Op :
    phase[o] \in InProgress
      /\ (up = "down" \/ pc[o] \in {"finalize", "markFinal", "commit", "activate"})
      ~> \/ phase[o] \in {"ACTIVE", "ROLLED_BACK"}
         \/ catalog[Name[o]] \notin {NoOp, o}
         \/ phase[o] = "INTENT_RECORDED" /\ payload[Digest[o]] = NoFile
            /\ (part[Id(o)] # Chunk \/ ranges[Id(o)] # Chunk)
=============================================================================
