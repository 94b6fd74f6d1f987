------------------------ MODULE ArtifactStoreProofs ------------------------
(***************************************************************************)
(* Proofs about the artifact store of one Repo node: that the four durable *)
(* records of an operation agree after any crash, that the store keeps the *)
(* safety part of ArtifactPromise, that the collector spares live uploads  *)
(* and that staged bytes are paid for.                                     *)
(***************************************************************************)
EXTENDS ArtifactStore, FiniteSetTheorems, TLAPS

Steps == {"idle", "insert", "insertDedup", "reserved", "begin", "write", "mark",
          "checkpoint", "verified", "renewed", "abort", "release", "failing", "failed",
          "fetch", "intent", "finalize", "markFinal", "commit", "activate"}

\* The values of the variables, with those TypeOK leaves out.
Payloads     == [Digests -> {NoFile, Chunk}]
Parts        == [Idents -> {NoFile} \cup SUBSET Chunk]
RangeMaps    == [Idents -> SUBSET Chunk]
Lifecycles   == [Op -> Unsettled \cup {"ABSENT", "COMMITTED", "ACTIVE", "FAILED", "EXPIRED"}]
Sessions     == [Op -> [state : DOMAIN Allowed, lease : 0..MaxLease,
                        chunks : 0..Cardinality(Chunk)]]
Reservations == [Op -> [state : {"NONE", "ACTIVE", "FINALIZING", "COMMITTED", "RELEASED"},
                        lease : 0..MaxLease, bytes : {0, 1}]]
Phases       == [Op -> InProgress \cup {"NONE", "ACTIVE", "ROLLED_BACK"}]
Catalogs     == [Names -> Op \cup {NoOp}]
ClaimRows    == [state : {"NONE", "CLAIMED", "RECLAIMING", "RECLAIMED"},
                 op : Op \cup {NoOp}, live : BOOLEAN, due : BOOLEAN]
Claims       == [Idents -> ClaimRows]
Resumable    == [state : DOMAIN Allowed, lease : 0..MaxLease,
                 ver : SUBSET Chunk, cur : SUBSET Chunk]
Objects      == [Op -> Resumable]
Programs     == [Op -> Steps]
Rollbacks    == [Op -> {"none", "lock", "abort", "abortReclaim", "reclaim"}]
Lapses       == [Op -> 0..MaxLease]

\* A collector g at work and every claim of the table c name an operation.
CollectorTyped(g, c) ==
  /\ g \in [pc : {"idle", "expire", "claim", "reclaim", "abort", "complete"},
            op : Op \cup {NoOp}]
  /\ g.pc # "idle" => g.op \in Op
  /\ g.pc \in {"abort", "complete"} => c[Id(g.op)].op = g.op
  /\ \A i \in Idents : c[i].state # "NONE" => c[i].op \in Op

TypeInv ==
  /\ payload \in Payloads /\ part \in Parts /\ ranges \in RangeMaps
  /\ lifecycle \in Lifecycles /\ session \in Sessions /\ resv \in Reservations
  /\ phase \in Phases /\ receipts \subseteq Op /\ catalog \in Catalogs /\ claim \in Claims
  /\ up \in {"up", "down", "recovering"} /\ todo \subseteq Op
  /\ obj \in Objects /\ pc \in Programs /\ rb \in Rollbacks /\ CollectorTyped(gc, claim)
  /\ lapsed \in Lapses /\ crashes \in 0..MaxCrash

-----------------------------------------------------------------------------
Uncommitted == {"INTENT_RECORDED", "PAYLOAD_FINALIZED"}

\* An upload is VERIFIED only with a COMPLETED session, which no checkpoint
\* overwrites: fail() cannot reach the lifecycle of an upload with an intent.
VerifiedIsComplete ==
  \A o \in Op :
    /\ /\ Kind[o] # "network"
       /\ lifecycle[o] = "VERIFIED" \/ (lifecycle[o] = "RECEIVING" /\ pc[o] = "verified")
       => session[o].state = "COMPLETED"
    /\ Kind[o] = "network" => obj[o].state = "NONE" /\ pc[o] # "checkpoint"
    /\ pc[o] \in {"abort", "release", "failing"} => obj[o].state = "FAILED"
    /\ pc[o] = "fetch" => Kind[o] = "network"
    /\ pc[o] = "failed" => phase[o] \notin Uncommitted

\* A rollback owns its operation and its bytes until the files have gone.
RollbackOwns ==
  \A o \in Op :
    /\ rb[o] # "none" => up = "up" /\ pc[o] = "idle"
    /\ rb[o] # "none" \/ phase[o] = "ROLLED_BACK"
       => \A p \in Op \ {o} : Digest[p] # Digest[o]
    /\ rb[o] = "lock" => phase[o] \in Uncommitted
    /\ rb[o] \in {"abort", "abortReclaim", "reclaim"} => phase[o] = "ROLLED_BACK"

\* Before the process is up, only finalizations are replayed.
ReplayOnly ==
  up # "up" => /\ gc.pc = "idle"
               /\ \A o \in Op : pc[o] \in {"idle", "finalize", "markFinal", "commit", "activate"}

\* A claim is RECLAIMING while the collector holds the lock, or until start-up
\* has completed it, and no finalization begins under it.
ClaimsAreHeld ==
  /\ gc.pc # "idle" => session[gc.op].state # "NONE"
  /\ gc.pc \in {"abort", "complete"}
     => claim[Id(gc.op)].state = "RECLAIMING" /\ claim[Id(gc.op)].op = gc.op
  /\ \A i \in Idents :
       claim[i].state = "RECLAIMING"
         => /\ Id(claim[i].op) = i /\ session[claim[i].op].state # "NONE"
            /\ up = "up" => gc.pc \in {"abort", "complete"} /\ Id(gc.op) = i
            /\ \A o \in Op : Id(o) = i => phase[o] \in {"NONE", "ROLLED_BACK"}

JournalInv ==
  TypeInv /\ JournalsAgree /\ VerifiedIsComplete /\ RollbackOwns /\ ReplayOnly /\ ClaimsAreHeld

\* A finalized payload stays until its operation is rolled back.
Finalized ==
  \A o \in Op :
    pc[o] = "markFinal" \/ phase[o] \in {"PAYLOAD_FINALIZED", "METADATA_COMMITTED", "ACTIVE"}
      => payload[Digest[o]] = Chunk /\ part[Id(o)] = NoFile

StoreInv == JournalInv /\ Finalized

\* An operation answers for the staging file of its generation.
Holds(o) ==
  \/ resv[o].state \in {"ACTIVE", "FINALIZING"} /\ resv[o].bytes = 1 /\ pc[o] # "release"
  \/ session[o].state = "FAILED"

StagedIsHeld ==
  \A i \in Idents :
    part[i] # NoFile /\ (\A o \in Op : Id(o) = i => Kind[o] = "reserved")
      => \E o \in Op : Id(o) = i /\ Holds(o)

\* The reservation of o, and what reserve() knows about it while it runs.
ReservationRow(o) ==
  /\ resv[o] # NoResv => Kind[o] = "reserved" /\ resv[o].state # "NONE"
  /\ resv[o].state = "COMMITTED" => phase[o] = "ACTIVE"
  /\ pc[o] \in {"insert", "insertDedup"} => Kind[o] = "reserved"
  /\ pc[o] = "insertDedup" => payload[Digest[o]] = Chunk
  /\ Kind[o] = "reserved" /\ pc[o] \in {"reserved", "begin"}
       => Holds(o) \/ payload[Digest[o]] = Chunk

ReservationInv == StoreInv /\ StagedIsHeld /\ \A o \in Op : ReservationRow(o)

ReclaimsIdle ==
  gc.pc = "abort" => \A o \in Op : Id(o) = Id(gc.op) =>
     ~(resv[o].state \in {"ACTIVE", "FINALIZING"} /\ Live(o, resv[o].lease))

-----------------------------------------------------------------------------
(* Facts about the data. *)

\* Idents, digests and names of an operation are in the domains of the tables.
LEMMA Domains ==
  ASSUME NEW o \in Op
  PROVE  Id(o) \in Idents /\ Digest[o] \in Digests /\ Name[o] \in Names
BY DEF Idents, Digests, Names

\* The number of verified chunks, as a session row records it.
LEMMA ChunkCount ==
  ASSUME NEW S \in SUBSET Chunk
  PROVE  Cardinality(S) \in 0..Cardinality(Chunk)
<1>1. IsFiniteSet(S) /\ Cardinality(S) <= Cardinality(Chunk)
  BY StoreAssumption, FS_Subset
<1>2. Cardinality(S) \in Nat /\ Cardinality(Chunk) \in Nat
  BY <1>1, StoreAssumption, FS_CardinalityType
<1> QED  BY <1>1, <1>2

\* The latest of three leases is one of them.
LEMMA LastLease ==
  ASSUME NEW n \in Nat, NEW x \in 0..n, NEW y \in 0..n, NEW z \in 0..n
  PROVE  Max({x, y, z}) \in 0..n
<1>1. \E m \in {x, y, z} : \A k \in {x, y, z} : m >= k
  <2>1. CASE x >= y /\ x >= z  BY <2>1
  <2>2. CASE y >= x /\ y >= z  BY <2>2
  <2>3. CASE z >= x /\ z >= y  BY <2>3
  <2> QED  BY <2>1, <2>2, <2>3
<1>2. Max({x, y, z}) \in {x, y, z}
  BY <1>1 DEF Max
<1> QED  BY <1>2

-----------------------------------------------------------------------------
(* Type correctness. *)

LEMMA TypeInit == Init => TypeInv
<1> SUFFICES ASSUME Init PROVE TypeInv
  OBVIOUS
<1>1. 0 \in 0..Cardinality(Chunk) /\ 0 \in 0..MaxLease /\ 0 \in 0..MaxCrash
  BY ChunkCount, StoreAssumption, FS_CardinalityType
<1>2. /\ payload \in Payloads /\ part \in Parts /\ ranges \in RangeMaps
      /\ lifecycle \in Lifecycles /\ phase \in Phases /\ catalog \in Catalogs
  BY DEF Init, Payloads, Parts, RangeMaps, Lifecycles, Phases, Catalogs, Unsettled, InProgress
<1>3. session \in Sessions /\ resv \in Reservations /\ claim \in Claims /\ obj \in Objects
  BY <1>1 DEF Init, Sessions, Reservations, Claims, ClaimRows, Objects, Resumable, NoSession, NoResv, NoClaim, NoObj,
     Allowed
<1>4. pc \in Programs /\ rb \in Rollbacks /\ lapsed \in Lapses
  BY <1>1 DEF Init, Programs, Steps, Rollbacks, Lapses
<1>5. CollectorTyped(gc, claim)
  BY DEF Init, CollectorTyped, GcIdle, NoClaim
<1> QED
  BY <1>1, <1>2, <1>3, <1>4, <1>5 DEF Init, TypeInv

LEMMA ObjectType ==
  ASSUME TypeInv, NEW o \in Op
  PROVE  obj[o] \in Resumable
BY DEF TypeInv, Objects

\* The row that a checkpoint writes.
LEMMA SaveType ==
  ASSUME TypeInv, NEW o \in Op, NEW s \in Resumable, Save(o, s)
  PROVE  session' \in Sessions
<1>1. Cardinality(s.ver) \in 0..Cardinality(Chunk)
  BY ChunkCount DEF Resumable
<1> QED
  BY <1>1 DEF TypeInv, Sessions, Save, Resumable

LEMMA RecordType ==
  ASSUME TypeInv, NEW o \in Op, NEW s \in Resumable, NEW step \in Steps, Record(o, s, step)
  PROVE  obj' \in Objects /\ session' \in Sessions /\ pc' \in Programs
<1>1. obj' \in Objects
  BY DEF TypeInv, Record, Objects
<1>2. session' \in Sessions
  BY SaveType DEF TypeInv, Record
<1>3. pc' \in Programs
  BY DEF TypeInv, Record, Goto, Programs, Steps
<1> QED  BY <1>1, <1>2, <1>3

\* _complete_gc_metadata keeps the types.
LEMMA CompletionType ==
  ASSUME TypeInv, NEW i \in Idents, CompleteGcMetadata(i)
  PROVE  /\ lifecycle' \in Lifecycles /\ session' \in Sessions
         /\ resv' \in Reservations /\ claim' \in Claims
<1> USE DEF TypeInv, CompleteGcMetadata
<1>1. lifecycle' \in Lifecycles
  BY DEF Lifecycles, Unsettled
<1>2. session' \in Sessions
  <2>1. 0 \in 0..Cardinality(Chunk)
    BY StoreAssumption, FS_CardinalityType
  <2> QED  BY <2>1 DEF Sessions, Allowed
<1>3. resv' \in Reservations
  BY DEF Reservations
<1>4. claim' \in Claims
  BY DEF Claims, ClaimRows
<1> QED  BY <1>1, <1>2, <1>3, <1>4

LEMMA TypeStep ==
  ASSUME TypeInv, [Next]_vars
  PROVE  TypeInv'
<1> USE StoreAssumption, Domains DEF TypeInv, vars, disk, db, mem
<1>1. ASSUME NEW o \in Op, Session(o) PROVE TypeInv'
  <2>1. CASE Open(o)
    <3> PICK l \in (lapsed[o] + 1)..MaxLease :
          LET ver == VerifiedRanges(o)
              s   == [NoObj EXCEPT !.state = "OPEN", !.lease = l, !.ver = ver]
          IN  \/ obj' = [obj EXCEPT ![o] = [s EXCEPT !.state = "COMPLETED"]] /\ UNCHANGED session
              \/ obj' = [obj EXCEPT ![o] = s] /\ Save(o, s)
      BY <2>1 DEF Open
    <3> DEFINE s == [NoObj EXCEPT !.state = "OPEN", !.lease = l, !.ver = VerifiedRanges(o)]
    <3>1. VerifiedRanges(o) \in SUBSET Chunk
      BY DEF VerifiedRanges, RangeMaps
    <3>2. l \in 0..MaxLease
      BY DEF Lapses
    <3>3. s \in Resumable /\ [s EXCEPT !.state = "COMPLETED"] \in Resumable
      BY <3>1, <3>2 DEF Resumable, NoObj, Allowed
    <3>4. obj' \in Objects
      BY <3>3 DEF Objects
    <3>5. session' \in Sessions
      BY <3>3, SaveType
    <3> QED  BY <2>1, <3>4, <3>5 DEF Open, sessionOnly
  <2>2. CASE Reserve(o)
    <3>1. pc' \in Programs
      BY <2>2 DEF Reserve, Goto, Programs, Steps
    <3> QED
      BY <2>2, <3>1 DEF Reserve
  <2>3. CASE ReserveInsert(o)
    <3>1. resv' \in Reservations
      BY <2>3, ObjectType DEF ReserveInsert, Reservations, Resumable
    <3>2. pc' \in Programs
      BY <2>3 DEF ReserveInsert, Goto, Programs, Steps
    <3> QED
      BY <2>3, <3>1, <3>2 DEF ReserveInsert
  <2>4. CASE Enter(o)
    <3>1. lifecycle' \in Lifecycles
      BY <2>4 DEF Enter, Lifecycles, Unsettled
    <3>2. pc' \in Programs
      BY <2>4 DEF Enter, Goto, Programs, Steps
    <3> QED
      BY <2>4, <3>1, <3>2 DEF Enter
  <2>5. CASE Begin(o)
    <3>1. part' \in Parts
      BY <2>5 DEF Begin, Parts
    <3>2. pc' \in Programs
      BY <2>5 DEF Begin, Goto, Programs, Steps
    <3> QED
      BY <2>5, <3>1, <3>2 DEF Begin
  <2>6. ASSUME NEW c \in Chunk, Receive(o, c) PROVE TypeInv'
    <3>1. session' \in Sessions
      BY <2>6, SaveType, ObjectType DEF Receive
    <3>2. lifecycle' \in Lifecycles
      BY <2>6 DEF Receive, Lifecycles, Unsettled
    <3>3. obj' \in Objects
      BY <2>6, ObjectType DEF Receive, Objects, Resumable, Allowed
    <3>4. pc' \in Programs
      BY <2>6 DEF Receive, Goto, Programs, Steps
    <3> QED
      BY <2>6, <3>1, <3>2, <3>3, <3>4 DEF Receive
  <2>7. CASE Write(o)
    <3>1. part' \in Parts
      <4>1. part[Id(o)] # NoFile => part[Id(o)] \cup obj[o].cur \in SUBSET Chunk
        BY ObjectType DEF Parts, Resumable
      <4> QED  BY <2>7, <4>1 DEF Write, Parts
    <3>2. obj' \in Objects
      BY <2>7, ObjectType DEF Write, ForgetChunk, Objects, Resumable, Allowed
    <3>3. pc' \in Programs
      BY <2>7 DEF Write, ForgetChunk, Goto, Programs, Steps
    <3> QED
      BY <2>7, <3>1, <3>2, <3>3 DEF Write, ForgetChunk
  <2>8. CASE MarkRange(o)
    <3>1. ranges' \in RangeMaps
      <4>1. ranges[Id(o)] \cup obj[o].cur \in SUBSET Chunk
        BY ObjectType DEF RangeMaps, Resumable
      <4> QED  BY <2>8, <4>1 DEF MarkRange, RangeMaps
    <3>2. obj' \in Objects
      BY <2>8, ObjectType DEF MarkRange, ForgetChunk, Objects, Resumable, Allowed
    <3>3. pc' \in Programs
      BY <2>8 DEF MarkRange, ForgetChunk, Goto, Programs, Steps
    <3> QED
      BY <2>8, <3>1, <3>2, <3>3 DEF MarkRange, ForgetChunk
  <2>9. CASE ChunkVerified(o)
    <3>1. [obj[o] EXCEPT !.ver = @ \cup obj[o].cur, !.cur = {}] \in Resumable
      BY ObjectType DEF Resumable
    <3>2. CASE Live(o, obj[o].lease)
      BY <2>9, <3>1, <3>2, RecordType DEF ChunkVerified, sessionOnly, Steps
    <3>3. CASE ~Live(o, obj[o].lease)
      <4>1. obj' \in Objects
        BY <2>9, <3>3 DEF ChunkVerified, Objects, Resumable, Allowed
      <4>2. pc' \in Programs
        BY <2>9, <3>3 DEF ChunkVerified, Goto, Programs, Steps
      <4> QED  BY <2>9, <3>3, <4>1, <4>2 DEF ChunkVerified, sessionOnly
    <3> QED  BY <3>2, <3>3
  <2>10. CASE VerifyComplete(o)
    <3>1. [obj[o] EXCEPT !.state = "COMPLETED"] \in Resumable
      BY ObjectType DEF Resumable, Allowed
    <3> QED  BY <2>10, <3>1, RecordType DEF VerifyComplete, sessionOnly, Steps
  <2>11. CASE Verified(o)
    <3>1. lifecycle' \in Lifecycles
      BY <2>11 DEF Verified, Lifecycles, Unsettled
    <3>2. pc' \in Programs
      BY <2>11 DEF Verified, Goto, Programs, Steps
    <3> QED
      BY <2>11, <3>1, <3>2 DEF Verified
  <2>12. ASSUME NEW s \in {"CANCELLED", "EXPIRED"}, Pause(o, s) PROVE TypeInv'
    <3>1. [obj[o] EXCEPT !.state = s] \in Resumable
      BY ObjectType DEF Resumable, Allowed
    <3> QED  BY <2>12, <3>1, RecordType DEF Pause, sessionOnly, Steps
  <2>13. ASSUME NEW l \in 1..MaxLease, Renew(o, l) PROVE TypeInv'
    <3>1. obj' \in Objects
      BY <2>13, ObjectType DEF Renew, Objects, Resumable, Allowed
    <3>2. resv' \in Reservations
      BY <2>13 DEF Renew, Reservations
    <3>3. pc' \in Programs
      BY <2>13 DEF Renew, Goto, Programs, Steps
    <3> QED
      BY <2>13, <3>1, <3>2, <3>3 DEF Renew
  <2>14. CASE Renewed(o)
    <3>1. obj[o] \in Resumable
      BY ObjectType DEF Resumable, Allowed
    <3> QED  BY <2>14, <3>1, RecordType DEF Renewed, sessionOnly, Steps
  <2>15. CASE Abandon(o)
    <3>1. obj' \in Objects
      BY <2>15, ObjectType DEF Abandon, Objects, Resumable, Allowed
    <3>2. pc' \in Programs
      BY <2>15 DEF Abandon, Goto, Programs, Steps
    <3> QED
      BY <2>15, <3>1, <3>2 DEF Abandon
  <2>16. CASE AbandonAbort(o)
    <3>1. part' \in Parts
      BY <2>16 DEF AbandonAbort, Abort, Parts
    <3>2. ranges' \in RangeMaps
      BY <2>16 DEF AbandonAbort, Abort, RangeMaps
    <3>3. pc' \in Programs
      BY <2>16 DEF AbandonAbort, Abort, Goto, Programs, Steps
    <3> QED
      BY <2>16, <3>1, <3>2, <3>3 DEF AbandonAbort, Abort
  <2>17. CASE AbandonRelease(o)
    <3>1. resv' \in Reservations
      BY <2>17 DEF AbandonRelease, Reservations
    <3>2. pc' \in Programs
      BY <2>17 DEF AbandonRelease, Goto, Programs, Steps
    <3> QED
      BY <2>17, <3>1, <3>2 DEF AbandonRelease
  <2>18. CASE AbandonSave(o)
    <3>1. obj[o] \in Resumable
      BY ObjectType DEF Resumable, Allowed
    <3> QED  BY <2>18, <3>1, RecordType DEF AbandonSave, sessionOnly, Steps
  <2>19. CASE AbandonTransition(o)
    <3>1. lifecycle' \in Lifecycles
      BY <2>19 DEF AbandonTransition, Lifecycles, Unsettled
    <3>2. pc' \in Programs
      BY <2>19 DEF AbandonTransition, Goto, Programs, Steps
    <3> QED
      BY <2>19, <3>1, <3>2 DEF AbandonTransition
  <2>20. CASE Assign(o)
    <3>1. lifecycle' \in Lifecycles
      BY <2>20 DEF Assign, Lifecycles, Unsettled
    <3>2. pc' \in Programs
      BY <2>20 DEF Assign, Goto, Programs, Steps
    <3> QED
      BY <2>20, <3>1, <3>2 DEF Assign
  <2>21. CASE Fetch(o)
    <3>1. obj' \in Objects
      BY <2>21, ObjectType DEF Fetch, Objects, Resumable, Allowed
    <3>2. pc' \in Programs
      BY <2>21 DEF Fetch, Goto, Programs, Steps
    <3> QED
      BY <2>21, <3>1, <3>2 DEF Fetch
  <2> QED
    BY <1>1, <2>1, <2>2, <2>3, <2>4, <2>5, <2>6, <2>7, <2>8, <2>9, <2>10, <2>11, <2>12, <2>13, <2>14, <2>15, <2>16, <2>17, <2>18, <2>19, <2>20, <2>21 DEF Session
<1>2. ASSUME NEW o \in Op, Finalization(o) PROVE TypeInv'
  <2>1. CASE BeginFinalization(o)
    <3>1. phase' \in Phases
      BY <2>1 DEF BeginFinalization, finalUnchanged, Phases, InProgress
    <3>2. resv' \in Reservations
      BY <2>1 DEF BeginFinalization, finalUnchanged, Reservations
    <3>3. pc' \in Programs
      BY <2>1 DEF BeginFinalization, finalUnchanged, Goto, Programs, Steps
    <3> QED
      BY <2>1, <3>1, <3>2, <3>3 DEF BeginFinalization, finalUnchanged
  <2>2. CASE FinalizePayload(o)
    <3>1. payload' \in Payloads
      BY <2>2 DEF FinalizePayload, Payloads
    <3>2. part' \in Parts
      BY <2>2 DEF FinalizePayload, Parts
    <3>3. ranges' \in RangeMaps
      BY <2>2 DEF FinalizePayload, RangeMaps
    <3>4. pc' \in Programs
      BY <2>2 DEF FinalizePayload, Goto, Programs, Steps
    <3> QED
      BY <2>2, <3>1, <3>2, <3>3, <3>4 DEF FinalizePayload
  <2>3. CASE MarkPayloadFinalized(o)
    <3>1. phase' \in Phases
      BY <2>3 DEF MarkPayloadFinalized, finalUnchanged, Phases, InProgress
    <3>2. pc' \in Programs
      BY <2>3 DEF MarkPayloadFinalized, finalUnchanged, Goto, Programs, Steps
    <3> QED
      BY <2>3, <3>1, <3>2 DEF MarkPayloadFinalized, finalUnchanged
  <2>4. CASE CommitFinalizedArtifact(o)
    <3>1. lifecycle' \in Lifecycles
      BY <2>4 DEF CommitFinalizedArtifact, finalUnchanged, Lifecycles, Unsettled
    <3>2. phase' \in Phases
      BY <2>4 DEF CommitFinalizedArtifact, finalUnchanged, Phases, InProgress
    <3>3. pc' \in Programs
      BY <2>4 DEF CommitFinalizedArtifact, finalUnchanged, Goto, Programs, Steps
    <3> QED
      BY <2>4, <3>1, <3>2, <3>3 DEF CommitFinalizedArtifact, finalUnchanged
  <2>5. CASE ActivateFinalizedArtifact(o)
    <3>1. catalog' \in Catalogs
      BY <2>5 DEF ActivateFinalizedArtifact, finalUnchanged, Catalogs
    <3>2. lifecycle' \in Lifecycles
      BY <2>5 DEF ActivateFinalizedArtifact, finalUnchanged, Lifecycles, Unsettled
    <3>3. phase' \in Phases
      BY <2>5 DEF ActivateFinalizedArtifact, finalUnchanged, Phases, InProgress
    <3>4. resv' \in Reservations
      BY <2>5 DEF ActivateFinalizedArtifact, finalUnchanged, Reservations
    <3>5. pc' \in Programs
      BY <2>5 DEF ActivateFinalizedArtifact, finalUnchanged, Goto, Programs, Steps
    <3> QED
      BY <2>5, <3>1, <3>2, <3>3, <3>4, <3>5 DEF ActivateFinalizedArtifact, finalUnchanged
  <2> QED
    BY <1>2, <2>1, <2>2, <2>3, <2>4, <2>5 DEF Finalization
<1>3. ASSUME NEW o \in Op, Rollback(o) PROVE TypeInv'
  <2>1. CASE RollbackCheck(o)
    <3>1. rb' \in Rollbacks
      BY <2>1 DEF RollbackCheck, Rollbacks
    <3> QED
      BY <2>1, <3>1 DEF RollbackCheck
  <2>2. CASE RollbackCommit(o)
    <3>1. lifecycle' \in Lifecycles
      BY <2>2 DEF RollbackCommit, Lifecycles, Unsettled
    <3>2. phase' \in Phases
      BY <2>2 DEF RollbackCommit, Phases, InProgress
    <3>3. session' \in Sessions
      <4>1. 0 \in 0..Cardinality(Chunk)
        BY FS_CardinalityType
      <4> QED  BY <2>2, <4>1 DEF RollbackCommit, Sessions, Allowed
    <3>4. resv' \in Reservations
      BY <2>2 DEF RollbackCommit, Reservations
    <3>5. rb' \in Rollbacks
      BY <2>2 DEF RollbackCommit, Rollbacks
    <3> QED
      BY <2>2, <3>1, <3>2, <3>3, <3>4, <3>5 DEF RollbackCommit
  <2>3. CASE RollbackAbort(o)
    <3>1. part' \in Parts
      BY <2>3 DEF RollbackAbort, Abort, Parts
    <3>2. ranges' \in RangeMaps
      BY <2>3 DEF RollbackAbort, Abort, RangeMaps
    <3>3. rb' \in Rollbacks
      BY <2>3 DEF RollbackAbort, Abort, Rollbacks
    <3> QED
      BY <2>3, <3>1, <3>2, <3>3 DEF RollbackAbort, Abort
  <2>4. CASE RollbackReclaim(o)
    <3>1. payload' \in Payloads
      BY <2>4 DEF RollbackReclaim, Payloads
    <3>2. rb' \in Rollbacks
      BY <2>4 DEF RollbackReclaim, Rollbacks
    <3> QED
      BY <2>4, <3>1, <3>2 DEF RollbackReclaim
  <2> QED
    BY <1>3, <2>1, <2>2, <2>3, <2>4 DEF Rollback
<1>4. CASE Collector
  <2>1. ASSUME NEW o \in Op, CollectSelect(o) PROVE TypeInv'
    BY <2>1 DEF CollectSelect, gcUnchanged, CollectorTyped
  <2>2. CASE CollectExpire
    <3>1. session' \in Sessions
      BY <2>2 DEF CollectExpire, CollectorTyped, Sessions, Allowed
    <3>2. CollectorTyped(gc', claim')
      BY <2>2 DEF CollectExpire, CollectorTyped
    <3> QED  BY <2>2, <3>1, <3>2 DEF CollectExpire, gcUnchanged
  <2>3. CASE ClaimGarbageCollection
    <3> DEFINE o == gc.op
               d == ~Live(o, session[o].lease)
               row == [state |-> "CLAIMED", op |-> o, live |-> TRUE, due |-> d]
    <3>1. o \in Op
      BY <2>3 DEF ClaimGarbageCollection, CollectorTyped
    <3>2. d \in BOOLEAN
      OBVIOUS
    <3>3. \/ claim' = [claim EXCEPT ![Id(o)] = row] /\ gc' = [gc EXCEPT !.pc = "reclaim"]
          \/ UNCHANGED claim /\ gc' = GcIdle
      BY <2>3 DEF ClaimGarbageCollection
    <3> HIDE DEF o, d
    <3>4. claim' \in Claims
      <4>1. row \in ClaimRows
        <5>1. CASE d = TRUE
          BY <3>1, <5>1 DEF ClaimRows
        <5>2. CASE d = FALSE
          BY <3>1, <5>2 DEF ClaimRows
        <5> QED  BY <3>2, <5>1, <5>2
      <4> HIDE DEF row
      <4> QED  BY <3>3, <4>1 DEF Claims
    <3>5. \A i \in Idents : claim'[i].state # "NONE" => claim'[i].op \in Op
      BY <3>1, <3>3 DEF CollectorTyped, Claims, ClaimRows
    <3>6. CollectorTyped(gc', claim')
      BY <2>3, <3>3, <3>5 DEF ClaimGarbageCollection, CollectorTyped, GcIdle
    <3> QED  BY <2>3, <3>4, <3>6 DEF ClaimGarbageCollection, gcUnchanged
  <2>4. CASE ReclaimTemporaryGeneration
    <3>1. claim' \in Claims
      BY <2>4 DEF ReclaimTemporaryGeneration, Claims, ClaimRows
    <3>2. CollectorTyped(gc', claim')
      BY <2>4 DEF ReclaimTemporaryGeneration, CollectorTyped, Claims, ClaimRows, GcIdle
    <3> QED  BY <2>4, <3>1, <3>2 DEF ReclaimTemporaryGeneration, gcUnchanged
  <2>5. CASE ReclaimAbort
    <3>1. part' \in Parts /\ ranges' \in RangeMaps
      BY <2>5 DEF ReclaimAbort, Abort, Parts, RangeMaps
    <3>2. CollectorTyped(gc', claim')
      BY <2>5 DEF ReclaimAbort, CollectorTyped
    <3> QED  BY <2>5, <3>1, <3>2 DEF ReclaimAbort, Abort
  <2>6. CASE ReclaimComplete
    <3>1. CollectorTyped(gc', claim')
      <4>1. \A i \in Idents : claim'[i].state # "NONE" => claim'[i].op \in Op
        BY <2>6 DEF ReclaimComplete, CompleteGcMetadata, CollectorTyped, Claims, ClaimRows
      <4> QED  BY <2>6, <4>1 DEF ReclaimComplete, CollectorTyped, GcIdle
    <3>2. Id(gc.op) \in Idents
      BY <2>6 DEF ReclaimComplete, CollectorTyped
    <3> QED  BY <2>6, <3>1, <3>2, CompletionType DEF ReclaimComplete, gcUnchanged
  <2> QED
    BY <1>4, <2>1, <2>2, <2>3, <2>4, <2>5, <2>6 DEF Collector
<1>5. CASE Startup
  <2>1. CASE Restart
    BY <2>1 DEF Restart
  <2>2. CASE Started
    BY <2>2 DEF Started
  <2>3. ASSUME NEW o \in Op, ReconcileFinalization(o) PROVE TypeInv'
    <3>1. pc' \in Programs
      BY <2>3 DEF ReconcileFinalization, Goto, Programs, Steps
    <3> QED  BY <2>3, <3>1 DEF ReconcileFinalization
  <2>4. ASSUME NEW i \in Idents, ReconcileGcClaim(i) PROVE TypeInv'
    <3>1. part' \in Parts /\ ranges' \in RangeMaps
      BY <2>4 DEF ReconcileGcClaim, Abort, Parts, RangeMaps
    <3>2. CollectorTyped(gc', claim')
      BY <2>4 DEF ReconcileGcClaim, CompleteGcMetadata, Interrupted, CollectorTyped, Claims, ClaimRows
    <3> QED  BY <2>4, <3>1, <3>2, CompletionType DEF ReconcileGcClaim, Abort, gcUnchanged
  <2> QED
    BY <1>5, <2>1, <2>2, <2>3, <2>4 DEF Startup
<1>6. CASE Crash
  <2>1. part' \in Parts
    BY <1>6 DEF Crash, Parts
  <2>2. obj' \in Objects /\ pc' \in Programs /\ rb' \in Rollbacks
    BY <1>6 DEF Crash, NoObj, Objects, Resumable, Allowed, Programs, Steps, Rollbacks
  <2>3. CollectorTyped(gc', claim')
    BY <1>6 DEF Crash, GcIdle, CollectorTyped
  <2> QED  BY <1>6, <2>1, <2>2, <2>3 DEF Crash
<1>7. ASSUME NEW o \in Op, LeaseLapses(o) PROVE TypeInv'
  <2>1. Max({obj[o].lease, session[o].lease, resv[o].lease}) \in 0..MaxLease
    BY LastLease DEF Objects, Resumable, Sessions, Reservations
  <2>2. lapsed' \in Lapses
    BY <1>7, <2>1 DEF LeaseLapses, Lapses
  <2> QED  BY <1>7, <2>2 DEF LeaseLapses
<1>8. ASSUME NEW i \in Idents, ClaimLapses(i) PROVE TypeInv'
  <2>1. claim' \in Claims /\ CollectorTyped(gc', claim')
    <3>1. claim' \in Claims
      BY <1>8 DEF ClaimLapses, Claims, ClaimRows
    <3>2. /\ \A j \in Idents : claim'[j].op = claim[j].op /\ claim'[j].state = claim[j].state
          /\ UNCHANGED gc
      BY <1>8 DEF ClaimLapses, Claims, ClaimRows
    <3> QED  BY <3>1, <3>2 DEF CollectorTyped
  <2> QED  BY <1>8, <2>1 DEF ClaimLapses
<1>9. CASE UNCHANGED vars
  BY <1>9
<1> QED
  BY <1>1, <1>2, <1>3, <1>4, <1>5, <1>6, <1>7, <1>8, <1>9 DEF Next

\* Every state of the store has the types of TypeOK: no crash, retry or
\* collection leaves a row of the tables with a state the code does not know.
THEOREM TypeCorrect == Spec => []TypeOK
<1>1. TypeInv => TypeOK
  BY DEF TypeInv, TypeOK, Payloads, Parts, RangeMaps, Lifecycles, Sessions, Reservations,
     Phases, Catalogs, Claims, ClaimRows, Objects, Resumable, Lapses
<1> QED
  BY <1>1, TypeInit, TypeStep, PTL DEF Spec

-----------------------------------------------------------------------------
(* The journals agree. *)

\* What a step of one upload or assignment may do to the journals.
SessionEffect(o) ==
  /\ up = "up" /\ (rb[o] = "none" \/ pc[o] # "idle")
  /\ UNCHANGED <<phase, receipts, catalog, claim, up, gc, rb>>
  /\ \A p \in Op \ {o} : /\ lifecycle'[p] = lifecycle[p] /\ session'[p] = session[p]
                         /\ pc'[p] = pc[p] /\ obj'[p] = obj[p]
  /\ \/ lifecycle'[o] = lifecycle[o]
     \/ /\ lifecycle[o] \in {"ABSENT", "QUEUED", "RESERVED", "RECEIVING"}
        /\ lifecycle'[o] \in {"QUEUED", "RESERVED", "RECEIVING"}
     \/ pc[o] = "verified" /\ lifecycle[o] = "RECEIVING" /\ lifecycle'[o] = "VERIFIED"
     \/ pc[o] = "failed" /\ lifecycle[o] \in Unsettled /\ lifecycle'[o] = "FAILED"
  /\ session[o].state # "NONE" => session'[o].state # "NONE"
  /\ session[o].state = "COMPLETED" => session'[o].state = "COMPLETED"
  /\ Kind[o] = "network" => obj'[o].state = "NONE" /\ pc'[o] # "checkpoint"
  /\ Kind[o] # "network" /\ pc'[o] = "verified" => session'[o].state = "COMPLETED"
  /\ pc'[o] \in {"abort", "release", "failing"} => obj'[o].state = "FAILED"
  /\ pc'[o] = "fetch" => Kind[o] = "network"
  /\ pc'[o] = "failed" => Kind[o] # "network" /\ session[o].state # "COMPLETED"

\* A checkpoint that is refused leaves the row and frees the thread; one that
\* is accepted never takes a row out of COMPLETED or back to NONE.
LEMMA RecordEffect ==
  ASSUME TypeInv, NEW o \in Op, NEW s \in Resumable, NEW step, Record(o, s, step)
  PROVE  /\ obj'[o] = s
         /\ \A p \in Op \ {o} : session'[p] = session[p] /\ obj'[p] = obj[p] /\ pc'[p] = pc[p]
         /\ \/ /\ pc'[o] = step /\ session'[o].state = s.state
               /\ s.state \in Allowed[session[o].state] /\ s.state # "NONE"
               /\ session[o].state = "COMPLETED" => s.state = "COMPLETED"
               /\ session[o].state = "FAILED" => s.state = "FAILED"
            \/ pc'[o] = "idle" /\ session' = session
BY DEF TypeInv, Record, Save, Accepts, Allowed, Goto, Sessions, Objects, Resumable, Programs

LEMMA SessionEffects ==
  ASSUME JournalInv, NEW o \in Op, Session(o)
  PROVE  SessionEffect(o)
<1> USE DEF JournalInv, TypeInv, VerifiedIsComplete, ReplayOnly, SessionEffect, Lifecycles, Sessions,
            Objects, Resumable, Programs, Unsettled, Ready, Goto, disk, db, mem
<1>1. CASE Open(o)
  BY <1>1 DEF Open, sessionOnly, Save, Accepts, Allowed, NoObj
<1>2. CASE Reserve(o)
  BY <1>2 DEF Reserve
<1>3. CASE ReserveInsert(o)
  BY <1>3 DEF ReserveInsert
<1>4. CASE Enter(o)
  BY <1>4 DEF Enter
<1>5. CASE Begin(o)
  BY <1>5 DEF Begin
<1>6. ASSUME NEW c \in Chunk, Receive(o, c) PROVE SessionEffect(o)
  BY <1>6 DEF Receive, Save, Accepts, Allowed
<1>7. CASE Write(o)
  <2>1. obj'[o].state = obj[o].state /\ \A p \in Op \ {o} : obj'[p] = obj[p]
    BY <1>7 DEF Write, ForgetChunk
  <2>2. pc'[o] \in {"fetch", "mark", "idle"} /\ \A p \in Op \ {o} : pc'[p] = pc[p]
    BY <1>7 DEF Write
  <2> QED  BY <1>7, <2>1, <2>2 DEF Write
<1>8. CASE MarkRange(o)
  <2>1. obj'[o].state = obj[o].state /\ \A p \in Op \ {o} : obj'[p] = obj[p]
    BY <1>8 DEF MarkRange, ForgetChunk
  <2>2. /\ pc'[o] = (IF Kind[o] = "network" THEN "fetch" ELSE "checkpoint")
        /\ \A p \in Op \ {o} : pc'[p] = pc[p]
    BY <1>8 DEF MarkRange
  <2> QED  BY <1>8, <2>1, <2>2 DEF MarkRange
<1>9. CASE ChunkVerified(o)
  <2>1. CASE Live(o, obj[o].lease)
    <3> DEFINE s == [obj[o] EXCEPT !.ver = @ \cup obj[o].cur, !.cur = {}]
    <3>1. s \in Resumable /\ s.state = obj[o].state
      BY ObjectType DEF Resumable
    <3>2. Record(o, s, "idle") /\ pc[o] = "checkpoint"
      BY <1>9, <2>1 DEF ChunkVerified
    <3>3. /\ obj'[o].state = obj[o].state /\ pc'[o] = "idle"
          /\ \A p \in Op \ {o} : session'[p] = session[p] /\ obj'[p] = obj[p] /\ pc'[p] = pc[p]
          /\ \/ /\ session'[o].state = obj[o].state /\ obj[o].state # "NONE"
                /\ session[o].state = "COMPLETED" => obj[o].state = "COMPLETED"
             \/ session' = session
      <4> HIDE DEF s
      <4> QED  BY <3>1, <3>2, RecordEffect
    <3> QED  BY <1>9, <3>2, <3>3 DEF ChunkVerified, sessionOnly
  <2>2. CASE ~Live(o, obj[o].lease)
    BY <1>9, <2>2 DEF ChunkVerified, sessionOnly
  <2> QED  BY <2>1, <2>2
<1>10. CASE VerifyComplete(o)
  BY <1>10 DEF VerifyComplete, Record, Save, Accepts, Allowed, sessionOnly
<1>11. CASE Verified(o)
  BY <1>11 DEF Verified
<1>12. ASSUME NEW s \in {"CANCELLED", "EXPIRED"}, Pause(o, s) PROVE SessionEffect(o)
  BY <1>12 DEF Pause, Record, Save, Accepts, Allowed, sessionOnly
<1>13. ASSUME NEW l \in 1..MaxLease, Renew(o, l) PROVE SessionEffect(o)
  BY <1>13 DEF Renew
<1>14. CASE Renewed(o)
  <2>1. Record(o, obj[o], "idle") /\ pc[o] = "renewed"
    BY <1>14 DEF Renewed
  <2>2. /\ obj'[o] = obj[o]
        /\ \A p \in Op \ {o} : session'[p] = session[p] /\ obj'[p] = obj[p] /\ pc'[p] = pc[p]
        /\ \/ /\ pc'[o] = "idle" /\ session'[o].state = obj[o].state /\ obj[o].state # "NONE"
              /\ session[o].state = "COMPLETED" => obj[o].state = "COMPLETED"
           \/ pc'[o] = "idle" /\ session' = session
    BY <2>1, RecordEffect, ObjectType
  <2> QED  BY <1>14, <2>1, <2>2 DEF Renewed, sessionOnly
<1>15. CASE Abandon(o)
  BY <1>15 DEF Abandon
<1>16. CASE AbandonAbort(o)
  BY <1>16 DEF AbandonAbort, Abort
<1>17. CASE AbandonRelease(o)
  BY <1>17 DEF AbandonRelease
<1>18. CASE AbandonSave(o)
  <2>1. Record(o, obj[o], "failed") /\ pc[o] = "failing"
    BY <1>18 DEF AbandonSave
  <2>2. /\ obj'[o] = obj[o]
        /\ \A p \in Op \ {o} : session'[p] = session[p] /\ obj'[p] = obj[p] /\ pc'[p] = pc[p]
        /\ \/ /\ pc'[o] = "failed" /\ session'[o].state = obj[o].state /\ obj[o].state # "NONE"
              /\ session[o].state = "COMPLETED" => obj[o].state = "COMPLETED"
           \/ pc'[o] = "idle" /\ session' = session
    BY <2>1, RecordEffect, ObjectType
  <2> QED  BY <1>18, <2>1, <2>2 DEF AbandonSave, sessionOnly
<1>19. CASE AbandonTransition(o)
  BY <1>19 DEF AbandonTransition
<1>20. CASE Assign(o)
  BY <1>20 DEF Assign
<1>21. CASE Fetch(o)
  <2>1. obj'[o].state = obj[o].state /\ \A p \in Op \ {o} : obj'[p] = obj[p]
    BY <1>21 DEF Fetch
  <2>2. pc'[o] \in {"verified", "write", "mark", "idle"} /\ \A p \in Op \ {o} : pc'[p] = pc[p]
    BY <1>21 DEF Fetch
  <2>3. Kind[o] = "network"
    BY <1>21 DEF Fetch
  <2> QED  BY <1>21, <2>1, <2>2, <2>3 DEF Fetch
<1> QED
  BY <1>1, <1>2, <1>3, <1>4, <1>5, <1>6, <1>7, <1>8, <1>9, <1>10, <1>11, <1>12, <1>13, <1>14, <1>15, <1>16, <1>17, <1>18, <1>19, <1>20, <1>21 DEF Session

LEMMA JournalInit == Init => JournalInv
<1> SUFFICES ASSUME Init PROVE JournalInv
  OBVIOUS
<1>1. TypeInv
  BY TypeInit
<1>2. JournalsAgree
  BY Domains, StoreAssumption DEF Init, JournalsAgree
<1>3. VerifiedIsComplete /\ RollbackOwns /\ ReplayOnly /\ ClaimsAreHeld
  BY DEF Init, VerifiedIsComplete, RollbackOwns, ReplayOnly, ClaimsAreHeld, NoObj, GcIdle, NoClaim,
     Uncommitted
<1> QED  BY <1>1, <1>2, <1>3 DEF JournalInv

LEMMA SessionJournals ==
  ASSUME JournalInv, TypeInv', NEW o \in Op, SessionEffect(o)
  PROVE  JournalInv'
<1> USE DEF JournalInv, SessionEffect
<1>1. JournalsAgree'
  BY DEF JournalsAgree, VerifiedIsComplete, Uncommitted, Unsettled
<1>2. VerifiedIsComplete'
  <2> SUFFICES ASSUME NEW p \in Op
      PROVE  /\ /\ Kind[p] # "network"
                /\ lifecycle'[p] = "VERIFIED" \/ (lifecycle'[p] = "RECEIVING" /\ pc'[p] = "verified")
                => session'[p].state = "COMPLETED"
             /\ Kind[p] = "network" => obj'[p].state = "NONE" /\ pc'[p] # "checkpoint"
             /\ pc'[p] \in {"abort", "release", "failing"} => obj'[p].state = "FAILED"
             /\ pc'[p] = "fetch" => Kind[p] = "network"
             /\ pc'[p] = "failed" => phase'[p] \notin Uncommitted
    BY DEF VerifiedIsComplete
  <2>1. CASE p # o
    BY <2>1 DEF VerifiedIsComplete
  <2>2. CASE p = o
    BY <2>2 DEF VerifiedIsComplete, JournalsAgree, Uncommitted, Unsettled
  <2> QED  BY <2>1, <2>2
<1>3. RollbackOwns'
  BY DEF RollbackOwns
<1>4. ReplayOnly'
  BY DEF ReplayOnly
<1>5. ClaimsAreHeld'
  BY DEF ClaimsAreHeld, TypeInv, CollectorTyped
<1> QED  BY <1>1, <1>2, <1>3, <1>4, <1>5

LEMMA FinalizationJournals ==
  ASSUME JournalInv, TypeInv', NEW o \in Op, Finalization(o)
  PROVE  JournalInv'
<1> USE Domains, StoreAssumption
    DEF JournalInv, TypeInv, Goto, Ready, disk, db, finalUnchanged, Programs
<1>1. CASE BeginFinalization(o)
  <2> USE <1>1 DEF BeginFinalization
  <2>1. JournalsAgree'
    BY DEF JournalsAgree, Phases, InProgress, Uncommitted
  <2>2. VerifiedIsComplete'
    BY DEF VerifiedIsComplete, Phases
  <2>3. RollbackOwns'
    BY DEF RollbackOwns, Phases, ReplayOnly, Uncommitted
  <2>4. ReplayOnly'
    BY DEF ReplayOnly
  <2>5. ClaimsAreHeld'
    BY DEF ClaimsAreHeld, ReplayOnly, DbFree
  <2> QED  BY <2>1, <2>2, <2>3, <2>4, <2>5
<1>2. CASE FinalizePayload(o)
  BY <1>2 DEF FinalizePayload, JournalsAgree, VerifiedIsComplete, RollbackOwns, ReplayOnly, ClaimsAreHeld
<1>3. CASE MarkPayloadFinalized(o)
  <2> USE <1>3 DEF MarkPayloadFinalized
  <2>1. JournalsAgree'
    BY DEF JournalsAgree, Phases
  <2>2. VerifiedIsComplete'
    BY DEF VerifiedIsComplete, Phases
  <2>3. RollbackOwns'
    BY DEF RollbackOwns, Phases
  <2>4. ReplayOnly'
    BY DEF ReplayOnly
  <2>5. ClaimsAreHeld'
    BY DEF ClaimsAreHeld, Phases
  <2> QED  BY <2>1, <2>2, <2>3, <2>4, <2>5
<1>4. CASE CommitFinalizedArtifact(o)
  <2> USE <1>4 DEF CommitFinalizedArtifact
  <2>1. JournalsAgree'
    BY DEF JournalsAgree, Phases, Lifecycles
  <2>2. VerifiedIsComplete'
    BY DEF VerifiedIsComplete, Phases, Lifecycles, Uncommitted
  <2>3. RollbackOwns'
    BY DEF RollbackOwns, Phases
  <2>4. ReplayOnly'
    BY DEF ReplayOnly
  <2>5. ClaimsAreHeld'
    BY DEF ClaimsAreHeld, Phases
  <2> QED  BY <2>1, <2>2, <2>3, <2>4, <2>5
<1>5. CASE ActivateFinalizedArtifact(o)
  <2> USE <1>5 DEF ActivateFinalizedArtifact
  <2>1. JournalsAgree'
    BY DEF JournalsAgree, Phases, Lifecycles, Catalogs
  <2>2. VerifiedIsComplete'
    BY DEF VerifiedIsComplete, Phases, Lifecycles, Uncommitted
  <2>3. RollbackOwns'
    BY DEF RollbackOwns, Phases
  <2>4. ReplayOnly'
    BY DEF ReplayOnly
  <2>5. ClaimsAreHeld'
    BY DEF ClaimsAreHeld, Phases
  <2> QED  BY <2>1, <2>2, <2>3, <2>4, <2>5
<1> QED  BY <1>1, <1>2, <1>3, <1>4, <1>5 DEF Finalization

LEMMA RollbackJournals ==
  ASSUME JournalInv, TypeInv', NEW o \in Op, Rollback(o)
  PROVE  JournalInv'
<1> USE Domains, StoreAssumption DEF JournalInv, TypeInv, disk, db, Rollbacks
<1>1. CASE RollbackCheck(o)
  BY <1>1 DEF RollbackCheck, CallerOwns, Uncommitted, JournalsAgree, VerifiedIsComplete, RollbackOwns,
     ReplayOnly, ClaimsAreHeld
<1>2. CASE RollbackCommit(o)
  <2> USE <1>2 DEF RollbackCommit
  <2>1. JournalsAgree'
    BY DEF JournalsAgree, RollbackOwns, Phases, Lifecycles, Uncommitted
  <2>2. VerifiedIsComplete'
    BY DEF VerifiedIsComplete, RollbackOwns, Phases, Lifecycles, Sessions, Uncommitted
  <2>3. RollbackOwns'
    BY DEF RollbackOwns, Phases, Uncommitted
  <2>4. ReplayOnly'
    BY DEF ReplayOnly
  <2>5. ClaimsAreHeld'
    BY DEF ClaimsAreHeld, Phases, Sessions, CollectorTyped
  <2> QED  BY <2>1, <2>2, <2>3, <2>4, <2>5
<1>3. CASE RollbackAbort(o)
  BY <1>3 DEF RollbackAbort, JournalsAgree, VerifiedIsComplete, RollbackOwns, ReplayOnly, ClaimsAreHeld
<1>4. CASE RollbackReclaim(o)
  BY <1>4 DEF RollbackReclaim, JournalsAgree, VerifiedIsComplete, RollbackOwns, ReplayOnly, ClaimsAreHeld
<1> QED  BY <1>1, <1>2, <1>3, <1>4 DEF Rollback

\* The protection lookup, although it reads any one row: what it lets pass has
\* no finalization that is under way or done.
LEMMA UnprotectedIsSettled ==
  ASSUME JournalInv, NEW i \in Idents, Unprotected(i), NEW o \in Op, Id(o) = i
  PROVE  phase[o] \in {"NONE", "ROLLED_BACK"}
<1>1. CASE phase[o] = "NONE"
  BY <1>1
<1>2. CASE phase[o] # "NONE"
  <2>1. PICK p \in Op : Id(p) = i /\ phase[p] = "ROLLED_BACK"
    BY <1>2 DEF Unprotected
  <2>2. Digest[p] = Digest[o]
    BY <2>1 DEF Id
  <2>3. p = o
    BY <2>1, <2>2 DEF JournalInv, RollbackOwns
  <2> QED  BY <2>1, <2>3
<1> QED  BY <1>1, <1>2

\* _complete_gc_metadata on a claim that is RECLAIMING.
LEMMA CompletionJournals ==
  ASSUME JournalInv, NEW i \in Idents, claim[i].state = "RECLAIMING", CompleteGcMetadata(i),
         UNCHANGED <<phase, receipts, catalog, up, obj, pc, rb>>,
         gc' = GcIdle \/ (gc' = gc /\ gc.pc = "idle"),
         up = "up" => Id(gc.op) = i
  PROVE  JournalsAgree' /\ VerifiedIsComplete' /\ RollbackOwns' /\ ReplayOnly' /\ ClaimsAreHeld'
<1> DEFINE o == claim[i].op
<1>1. o \in Op /\ Id(o) = i /\ phase[o] \in {"NONE", "ROLLED_BACK"}
  BY DEF JournalInv, ClaimsAreHeld, TypeInv, CollectorTyped
<1> USE DEF JournalInv, TypeInv, CompleteGcMetadata
<1>2. JournalsAgree'
  BY <1>1 DEF JournalsAgree, Lifecycles, Unsettled
<1>3. VerifiedIsComplete'
  BY <1>1 DEF VerifiedIsComplete, Lifecycles, Sessions, Unsettled
<1>4. RollbackOwns' /\ ReplayOnly'
  BY DEF RollbackOwns, ReplayOnly, GcIdle
<1>5. ClaimsAreHeld'
  BY <1>1 DEF ClaimsAreHeld, Claims, ClaimRows, Sessions, GcIdle, CollectorTyped
<1> QED  BY <1>2, <1>3, <1>4, <1>5

LEMMA CollectorJournals ==
  ASSUME JournalInv, TypeInv', Collector
  PROVE  JournalInv'
<1> USE Domains DEF JournalInv, TypeInv, disk, db, gcUnchanged
<1> DEFINE Rest == JournalsAgree' /\ VerifiedIsComplete' /\ RollbackOwns' /\ ReplayOnly'
<1>1. ASSUME NEW o \in Op, CollectSelect(o) PROVE JournalInv'
  <2>1. Rest
    BY <1>1 DEF CollectSelect, JournalsAgree, VerifiedIsComplete, RollbackOwns, ReplayOnly
  <2>2. ClaimsAreHeld'
    BY <1>1 DEF CollectSelect, ClaimsAreHeld, GcIdle, Sessions
  <2> QED  BY <2>1, <2>2
<1>2. CASE CollectExpire
  <2>1. Rest
    BY <1>2 DEF CollectExpire, JournalsAgree, VerifiedIsComplete, RollbackOwns, ReplayOnly, Sessions,
       CollectorTyped
  <2>2. ClaimsAreHeld'
    BY <1>2 DEF CollectExpire, ClaimsAreHeld, CollectorTyped, Sessions
  <2> QED  BY <2>1, <2>2
<1>3. CASE ClaimGarbageCollection
  <2>1. Rest
    BY <1>3 DEF ClaimGarbageCollection, JournalsAgree, VerifiedIsComplete, RollbackOwns, ReplayOnly,
       GcIdle, CollectorTyped
  <2>2. /\ gc.pc = "claim" /\ gc'.pc \in {"idle", "reclaim"} /\ (gc'.pc = "idle" \/ gc'.op = gc.op)
        /\ \A i \in Idents : claim'[i] = claim[i] \/ claim'[i].state = "CLAIMED"
    BY <1>3 DEF ClaimGarbageCollection, GcIdle, CollectorTyped, Claims
  <2> QED  BY <1>3, <2>1, <2>2 DEF ClaimGarbageCollection, ClaimsAreHeld
<1>4. CASE ReclaimTemporaryGeneration
  <2>1. Rest
    BY <1>4 DEF ReclaimTemporaryGeneration, JournalsAgree, VerifiedIsComplete, RollbackOwns, ReplayOnly,
       GcIdle, CollectorTyped
  <2>2. ClaimsAreHeld'
    <3>1. gc.op \in Op /\ gc.pc = "reclaim"
      BY <1>4 DEF ReclaimTemporaryGeneration, CollectorTyped
    <3>2. CASE gc' = GcIdle /\ UNCHANGED claim
      BY <1>4, <3>1, <3>2 DEF ReclaimTemporaryGeneration, ClaimsAreHeld, GcIdle
    <3>3. CASE /\ claim[Id(gc.op)].op = gc.op /\ Unprotected(Id(gc.op))
               /\ claim' = [claim EXCEPT ![Id(gc.op)].state = "RECLAIMING"]
               /\ gc' = [gc EXCEPT !.pc = "abort"]
      <4>1. \A o \in Op : Id(o) = Id(gc.op) => phase[o] \in {"NONE", "ROLLED_BACK"}
        BY <3>1, <3>3, UnprotectedIsSettled
      <4>2. /\ claim'[Id(gc.op)].state = "RECLAIMING" /\ claim'[Id(gc.op)].op = gc.op
            /\ \A i \in Idents : i # Id(gc.op) => claim'[i] = claim[i]
            /\ gc'.pc = "abort" /\ gc'.op = gc.op
        BY <3>1, <3>3 DEF Claims, ClaimRows, CollectorTyped
      <4>3. \A i \in Idents : i # Id(gc.op) => claim[i].state # "RECLAIMING"
        BY <3>1 DEF ClaimsAreHeld, ReplayOnly
      <4>4. session' = session /\ phase' = phase
        BY <1>4 DEF ReclaimTemporaryGeneration
      <4>5. session[gc.op].state # "NONE"
        BY <3>1 DEF ClaimsAreHeld
      <4> QED  BY <3>1, <4>1, <4>2, <4>3, <4>4, <4>5 DEF ClaimsAreHeld
    <3> QED  BY <1>4, <3>2, <3>3 DEF ReclaimTemporaryGeneration
  <2> QED  BY <2>1, <2>2
<1>5. CASE ReclaimAbort
  <2>1. Rest
    BY <1>5 DEF ReclaimAbort, JournalsAgree, VerifiedIsComplete, RollbackOwns, ReplayOnly
  <2>2. ClaimsAreHeld'
    BY <1>5 DEF ReclaimAbort, ClaimsAreHeld, CollectorTyped
  <2> QED  BY <2>1, <2>2
<1>6. CASE ReclaimComplete
  <2>1. Id(gc.op) \in Idents /\ claim[Id(gc.op)].state = "RECLAIMING"
    BY <1>6 DEF ReclaimComplete, ClaimsAreHeld, CollectorTyped
  <2> QED  BY <1>6, <2>1, CompletionJournals DEF ReclaimComplete
<1> QED  BY <1>1, <1>2, <1>3, <1>4, <1>5, <1>6 DEF Collector

LEMMA StartupJournals ==
  ASSUME JournalInv, TypeInv', Startup
  PROVE  JournalInv'
<1> USE DEF JournalInv, TypeInv, disk, db, gcUnchanged
<1>1. CASE Restart
  BY <1>1 DEF Restart, JournalsAgree, VerifiedIsComplete, RollbackOwns, ReplayOnly, ClaimsAreHeld
<1>2. CASE Started
  <2>1. JournalsAgree' /\ VerifiedIsComplete' /\ RollbackOwns' /\ ReplayOnly'
    BY <1>2 DEF Started, JournalsAgree, VerifiedIsComplete, RollbackOwns, ReplayOnly
  <2>2. \A i \in Idents : claim[i].state # "RECLAIMING"
    BY <1>2 DEF Started, Interrupted, ClaimsAreHeld, NoSession
  <2> QED  BY <1>2, <2>1, <2>2 DEF Started, ClaimsAreHeld, ReplayOnly
<1>3. ASSUME NEW o \in Op, ReconcileFinalization(o) PROVE JournalInv'
  <2>1. /\ pc'[o] \in {"finalize", "commit", "activate"}
        /\ \A p \in Op \ {o} : pc'[p] = pc[p]
    BY <1>3 DEF ReconcileFinalization, Goto, Programs
  <2> QED  BY <1>3, <2>1 DEF ReconcileFinalization, JournalsAgree, VerifiedIsComplete, RollbackOwns,
              ReplayOnly, ClaimsAreHeld
<1>4. ASSUME NEW i \in Idents, ReconcileGcClaim(i) PROVE JournalInv'
  BY <1>4, CompletionJournals DEF ReconcileGcClaim, Interrupted, ReplayOnly
<1> QED  BY <1>1, <1>2, <1>3, <1>4 DEF Startup

LEMMA JournalStep ==
  ASSUME JournalInv, [Next]_vars
  PROVE  JournalInv'
<1>1. TypeInv'
  BY TypeStep DEF JournalInv
<1>2. ASSUME NEW o \in Op, Session(o) PROVE JournalInv'
  BY <1>1, <1>2, SessionEffects, SessionJournals
<1>3. ASSUME NEW o \in Op, Finalization(o) PROVE JournalInv'
  BY <1>1, <1>3, FinalizationJournals
<1>4. ASSUME NEW o \in Op, Rollback(o) PROVE JournalInv'
  BY <1>1, <1>4, RollbackJournals
<1>5. CASE Collector
  BY <1>1, <1>5, CollectorJournals
<1>6. CASE Startup
  BY <1>1, <1>6, StartupJournals
<1>7. CASE Crash
  BY <1>1, <1>7 DEF Crash, db, JournalInv, JournalsAgree, VerifiedIsComplete, RollbackOwns, ReplayOnly,
     ClaimsAreHeld, NoObj, GcIdle
<1>8. ASSUME NEW o \in Op, LeaseLapses(o) PROVE JournalInv'
  BY <1>1, <1>8 DEF LeaseLapses, db, mem, JournalInv, JournalsAgree, VerifiedIsComplete, RollbackOwns,
     ReplayOnly, ClaimsAreHeld
<1>9. ASSUME NEW i \in Idents, ClaimLapses(i) PROVE JournalInv'
  <2>1. \A j \in Idents : claim'[j].op = claim[j].op /\ claim'[j].state = claim[j].state
    BY <1>9 DEF ClaimLapses, JournalInv, TypeInv, Claims, ClaimRows
  <2>2. JournalsAgree' /\ VerifiedIsComplete' /\ RollbackOwns' /\ ReplayOnly'
    BY <1>9 DEF ClaimLapses, mem, JournalInv, JournalsAgree, VerifiedIsComplete, RollbackOwns, ReplayOnly
  <2>3. ClaimsAreHeld'
    BY <1>9, <2>1, Domains DEF ClaimLapses, mem, JournalInv, ClaimsAreHeld, TypeInv, CollectorTyped
  <2> QED  BY <1>1, <2>2, <2>3 DEF JournalInv
<1>10. CASE UNCHANGED vars
  BY <1>1, <1>10 DEF vars, db, mem, JournalInv, JournalsAgree, VerifiedIsComplete, RollbackOwns,
     ReplayOnly, ClaimsAreHeld
<1> QED
  BY <1>2, <1>3, <1>4, <1>5, <1>6, <1>7, <1>8, <1>9, <1>10 DEF Next

\* After any crash, retry, rollback or collection the lifecycle journal, the
\* finalization journal, the receipt and the catalog of an operation tell the
\* same story.
THEOREM JournalsAlwaysAgree == Spec => []JournalsAgree
<1>1. JournalInv => JournalsAgree
  BY DEF JournalInv
<1> QED
  BY <1>1, JournalInit, JournalStep, PTL DEF Spec

-----------------------------------------------------------------------------
(* The payload behind a finalization. *)

\* No upload stages bytes that are final, or finalizes any.
LEMMA SessionFiles ==
  ASSUME TypeInv, NEW o \in Op, Session(o)
  PROVE  /\ UNCHANGED payload /\ pc'[o] # "markFinal"
         /\ \A q \in Op : payload[Digest[q]] = Chunk /\ part[Id(q)] = NoFile => part'[Id(q)] = NoFile
<1> USE Domains, StoreAssumption DEF TypeInv, Programs, Goto, Ready, disk
<1> DEFINE Kept == /\ UNCHANGED payload /\ pc'[o] # "markFinal"
                   /\ \A q \in Op : payload[Digest[q]] = Chunk /\ part[Id(q)] = NoFile
                                    => part'[Id(q)] = NoFile
<1>1. CASE Open(o)
  BY <1>1 DEF Open, sessionOnly
<1>2. CASE Reserve(o)
  BY <1>2 DEF Reserve
<1>3. CASE ReserveInsert(o)
  BY <1>3 DEF ReserveInsert
<1>4. CASE Enter(o)
  BY <1>4 DEF Enter
<1>5. CASE Begin(o)
  BY <1>5 DEF Begin, Parts, Id
<1>6. ASSUME NEW c \in Chunk, Receive(o, c) PROVE Kept
  BY <1>6 DEF Receive
<1>7. CASE Write(o)
  BY <1>7 DEF Write, Parts
<1>8. CASE MarkRange(o)
  BY <1>8 DEF MarkRange
<1>9. CASE ChunkVerified(o)
  BY <1>9 DEF ChunkVerified, Record, sessionOnly
<1>10. CASE VerifyComplete(o)
  BY <1>10 DEF VerifyComplete, Record, sessionOnly
<1>11. CASE Verified(o)
  BY <1>11 DEF Verified
<1>12. ASSUME NEW s \in {"CANCELLED", "EXPIRED"}, Pause(o, s) PROVE Kept
  BY <1>12 DEF Pause, Record, sessionOnly
<1>13. ASSUME NEW l \in 1..MaxLease, Renew(o, l) PROVE Kept
  BY <1>13 DEF Renew
<1>14. CASE Renewed(o)
  BY <1>14 DEF Renewed, Record, sessionOnly
<1>15. CASE Abandon(o)
  BY <1>15 DEF Abandon
<1>16. CASE AbandonAbort(o)
  BY <1>16 DEF AbandonAbort, Abort, Parts
<1>17. CASE AbandonRelease(o)
  BY <1>17 DEF AbandonRelease
<1>18. CASE AbandonSave(o)
  BY <1>18 DEF AbandonSave, Record, sessionOnly
<1>19. CASE AbandonTransition(o)
  BY <1>19 DEF AbandonTransition
<1>20. CASE Assign(o)
  BY <1>20 DEF Assign
<1>21. CASE Fetch(o)
  BY <1>21 DEF Fetch
<1> QED
  BY <1>1, <1>2, <1>3, <1>4, <1>5, <1>6, <1>7, <1>8, <1>9, <1>10, <1>11, <1>12, <1>13, <1>14, <1>15, <1>16, <1>17, <1>18, <1>19, <1>20, <1>21 DEF Session

LEMMA StoreInit == Init => StoreInv
BY JournalInit DEF Init, StoreInv, Finalized

LEMMA StoreStep ==
  ASSUME StoreInv, [Next]_vars
  PROVE  StoreInv'
<1>1. JournalInv /\ JournalInv' /\ TypeInv
  BY JournalStep DEF StoreInv, JournalInv
<1> SUFFICES Finalized'
  BY <1>1 DEF StoreInv
<1> USE Domains, StoreAssumption DEF StoreInv, TypeInv, Programs, Phases, Parts, Payloads, Goto, disk, db
<1>2. ASSUME NEW o \in Op, Session(o) PROVE Finalized'
  <2>1. SessionEffect(o)
    BY <1>1, <1>2, SessionEffects
  <2> QED  BY <1>1, <1>2, <2>1, SessionFiles DEF SessionEffect, Finalized
<1>3. ASSUME NEW o \in Op, Finalization(o) PROVE Finalized'
  <2>1. CASE BeginFinalization(o)
    BY <1>1, <2>1 DEF BeginFinalization, Finalized
  <2>2. CASE FinalizePayload(o)
    BY <1>1, <2>2 DEF FinalizePayload, Finalized, Id
  <2>3. CASE MarkPayloadFinalized(o)
    BY <1>1, <2>3 DEF MarkPayloadFinalized, Finalized
  <2>4. CASE CommitFinalizedArtifact(o)
    BY <1>1, <2>4 DEF CommitFinalizedArtifact, Finalized
  <2>5. CASE ActivateFinalizedArtifact(o)
    BY <1>1, <2>5 DEF ActivateFinalizedArtifact, Finalized
  <2> QED  BY <1>3, <2>1, <2>2, <2>3, <2>4, <2>5 DEF Finalization
<1>4. ASSUME NEW o \in Op, Rollback(o) PROVE Finalized'
  <2>1. CASE RollbackCheck(o)
    BY <1>1, <2>1 DEF RollbackCheck, Finalized
  <2>2. CASE RollbackCommit(o)
    BY <1>1, <2>2 DEF RollbackCommit, Finalized
  <2>3. CASE RollbackAbort(o)
    BY <1>1, <2>3 DEF RollbackAbort, Abort, Finalized
  <2>4. CASE RollbackReclaim(o)
    BY <1>1, <2>4 DEF RollbackReclaim, Finalized, JournalInv, RollbackOwns
  <2> QED  BY <1>4, <2>1, <2>2, <2>3, <2>4 DEF Rollback
<1>5. CASE Collector
  <2>1. CASE ReclaimAbort
    BY <1>1, <2>1 DEF ReclaimAbort, Abort, Finalized
  <2>2. CASE ~ReclaimAbort
    <3>1. UNCHANGED <<disk, phase, pc>>
      BY <1>5, <2>2 DEF Collector, CollectSelect, CollectExpire, ClaimGarbageCollection,
         ReclaimTemporaryGeneration, ReclaimComplete, gcUnchanged
    <3> QED  BY <1>1, <3>1 DEF Finalized
  <2> QED  BY <2>1, <2>2
<1>6. CASE Startup
  <2>1. CASE Restart \/ Started
    BY <1>1, <2>1 DEF Restart, Started, Finalized
  <2>2. ASSUME NEW o \in Op, ReconcileFinalization(o) PROVE Finalized'
    BY <1>1, <2>2 DEF ReconcileFinalization, Finalized
  <2>3. ASSUME NEW i \in Idents, ReconcileGcClaim(i) PROVE Finalized'
    BY <1>1, <2>3 DEF ReconcileGcClaim, Abort, gcUnchanged, Finalized
  <2> QED  BY <1>6, <2>1, <2>2, <2>3 DEF Startup
<1>7. CASE Crash
  BY <1>1, <1>7 DEF Crash, Finalized
<1>8. CASE UNCHANGED <<disk, phase, pc>>
  BY <1>1, <1>8 DEF Finalized
<1>9. ASSUME NEW o \in Op, LeaseLapses(o) PROVE UNCHANGED <<disk, phase, pc>>
  BY <1>9 DEF LeaseLapses, mem
<1>10. ASSUME NEW i \in Idents, ClaimLapses(i) PROVE UNCHANGED <<disk, phase, pc>>
  BY <1>10 DEF ClaimLapses, mem
<1>11. CASE UNCHANGED vars
  BY <1>8, <1>11 DEF vars, mem
<1> QED
  BY <1>2, <1>3, <1>4, <1>5, <1>6, <1>7, <1>8, <1>9, <1>10, <1>11 DEF Next

-----------------------------------------------------------------------------
(* The store implements the safety part of ArtifactPromise. *)

\* Under the invariant, the bytes of every receipt can be read, so the mapped
\* variables are the receipts, the catalog entries and the rollbacks.
LEMMA PromiseState ==
  ASSUME StoreInv
  PROVE  /\ {o \in receipts : payload[Digest[o]] = Chunk} = receipts
         /\ {o \in Op : catalog[Name[o]] = o /\ payload[Digest[o]] = Chunk}
              = {o \in Op : catalog[Name[o]] = o}
BY DEF StoreInv, JournalInv, TypeInv, JournalsAgree, Finalized

LEMMA PromiseStateNext ==
  ASSUME StoreInv'
  PROVE  /\ {o \in receipts' : payload'[Digest[o]] = Chunk} = receipts'
         /\ {o \in Op : catalog'[Name[o]] = o /\ payload'[Digest[o]] = Chunk}
              = {o \in Op : catalog'[Name[o]] = o}
BY DEF StoreInv, JournalInv, TypeInv, JournalsAgree, Finalized

\* A step that touches neither receipts nor catalog nor rollbacks.
LEMMA PromiseStutter ==
  ASSUME StoreInv, StoreInv', UNCHANGED <<receipts, catalog>>,
         \A o \in Op : phase'[o] = "ROLLED_BACK" <=> phase[o] = "ROLLED_BACK"
  PROVE  UNCHANGED Promise!vars
<1>1. {o \in Op : phase'[o] = "ROLLED_BACK"} = {o \in Op : phase[o] = "ROLLED_BACK"}
  OBVIOUS
<1> QED  BY <1>1, PromiseState, PromiseStateNext DEF Promise!vars

LEMMA PromiseStep ==
  ASSUME StoreInv, [Next]_vars
  PROVE  [Promise!Next]_(Promise!vars)
<1> DEFINE Still == UNCHANGED <<receipts, catalog>>
                    /\ \A o \in Op : phase'[o] = "ROLLED_BACK" <=> phase[o] = "ROLLED_BACK"
<1>1. StoreInv'
  BY StoreStep
<1> SUFFICES ASSUME ~Still
             PROVE  \E o \in Op : Promise!Certify(o) \/ Promise!Show(o) \/ Promise!Drop(o)
  BY <1>1, PromiseStutter DEF Promise!Next
<1> USE Domains, StoreAssumption DEF Goto, disk, db
<1>2. ASSUME NEW o \in Op, Session(o) PROVE FALSE
  BY <1>2, SessionEffects DEF StoreInv, SessionEffect
<1>3. ASSUME NEW o \in Op, Finalization(o) PROVE Promise!Certify(o) \/ Promise!Show(o)
  <2> USE DEF StoreInv, JournalInv, TypeInv, Phases
  <2>1. CASE BeginFinalization(o) \/ FinalizePayload(o) \/ MarkPayloadFinalized(o)
    BY <2>1 DEF BeginFinalization, FinalizePayload, MarkPayloadFinalized
  <2>2. CASE CommitFinalizedArtifact(o)
    <3>1. /\ phase[o] = "PAYLOAD_FINALIZED" /\ receipts' = receipts \cup {o} /\ catalog' = catalog
          /\ phase' = [phase EXCEPT ![o] = "METADATA_COMMITTED"]
      BY <2>2 DEF CommitFinalizedArtifact
    <3>2. o \notin receipts
      BY <3>1 DEF JournalsAgree
    <3>3. {p \in Op : phase'[p] = "ROLLED_BACK"} = {p \in Op : phase[p] = "ROLLED_BACK"}
      BY <3>1
    <3> HIDE DEF StoreInv
    <3> QED  BY <1>1, <3>1, <3>2, <3>3, PromiseState, PromiseStateNext DEF Promise!Certify
  <2>3. CASE ActivateFinalizedArtifact(o)
    <3>1. /\ phase[o] = "METADATA_COMMITTED" /\ catalog[Name[o]] \in {NoOp, o}
          /\ catalog' = [catalog EXCEPT ![Name[o]] = o] /\ receipts' = receipts
          /\ phase' = [phase EXCEPT ![o] = "ACTIVE"]
      BY <2>3 DEF ActivateFinalizedArtifact
    <3>2. o \in receipts /\ catalog[Name[o]] # o
      BY <3>1 DEF JournalsAgree
    <3>3. {p \in Op : phase'[p] = "ROLLED_BACK"} = {p \in Op : phase[p] = "ROLLED_BACK"}
      BY <3>1
    <3>4. \A p \in Op : catalog[Name[p]] = p => Name[p] # Name[o]
      BY <3>1, <3>2
    <3>5. {p \in Op : catalog'[Name[p]] = p} = {p \in Op : catalog[Name[p]] = p} \cup {o}
      BY <3>1, <3>2 DEF Catalogs
    <3> HIDE DEF StoreInv
    <3> QED  BY <1>1, <3>2, <3>1, <3>3, <3>4, <3>5, PromiseState, PromiseStateNext DEF Promise!Show
  <2> QED  BY <1>3, <2>1, <2>2, <2>3 DEF Finalization
<1>4. ASSUME NEW o \in Op, Rollback(o) PROVE Promise!Drop(o)
  <2> USE DEF StoreInv, JournalInv, TypeInv, Phases
  <2>1. RollbackCommit(o)
    BY <1>4 DEF Rollback, RollbackCheck, RollbackAbort, RollbackReclaim
  <2>2. phase[o] \in Uncommitted
    BY <2>1 DEF RollbackCommit, RollbackOwns
  <2>3. o \notin receipts /\ phase[o] # "ROLLED_BACK"
    BY <2>2 DEF Uncommitted, JournalsAgree
  <2>4. UNCHANGED <<receipts, catalog>> /\ phase' = [phase EXCEPT ![o] = "ROLLED_BACK"]
    BY <2>1 DEF RollbackCommit
  <2>5. {p \in Op : phase'[p] = "ROLLED_BACK"} = {p \in Op : phase[p] = "ROLLED_BACK"} \cup {o}
    BY <2>4
  <2> HIDE DEF StoreInv
  <2> QED  BY <1>1, <2>3, <2>4, <2>5, PromiseState, PromiseStateNext DEF Promise!Drop
<1>5. CASE Collector
  BY <1>5 DEF Collector, CollectSelect, CollectExpire, ClaimGarbageCollection,
     ReclaimTemporaryGeneration, ReclaimAbort, ReclaimComplete, gcUnchanged
<1>6. CASE Startup
  BY <1>6 DEF Startup, Restart, Started, ReconcileFinalization, ReconcileGcClaim, gcUnchanged
<1>7. CASE Crash \/ UNCHANGED vars
  BY <1>7 DEF Crash, vars
<1>8. ASSUME NEW o \in Op, LeaseLapses(o) PROVE FALSE
  BY <1>8 DEF LeaseLapses
<1>9. ASSUME NEW i \in Idents, ClaimLapses(i) PROVE FALSE
  BY <1>9 DEF ClaimLapses
<1> QED
  BY <1>2, <1>3, <1>4, <1>5, <1>6, <1>7, <1>8, <1>9 DEF Next

\* The store implements the safety part of ArtifactPromise: an operation is
\* certified (a receipt whose bytes can be read) or dropped, never both and never
\* undone, and at most one certified artifact becomes visible under a name.
THEOREM ImplementsPromise == Spec => Promise!Safety
<1>1. Init => Promise!Init
  <2> SUFFICES ASSUME Init PROVE Promise!Init
    OBVIOUS
  <2>1. {o \in receipts : payload[Digest[o]] = Chunk} = {}
    BY DEF Init
  <2>2. {o \in Op : catalog[Name[o]] = o /\ payload[Digest[o]] = Chunk} = {}
    BY Domains, StoreAssumption DEF Init
  <2>3. {o \in Op : phase[o] = "ROLLED_BACK"} = {}
    BY DEF Init
  <2> QED  BY <2>1, <2>2, <2>3 DEF Promise!Init
<1> QED
  BY <1>1, StoreInit, StoreStep, PromiseStep, PTL DEF Spec, Promise!Safety

-----------------------------------------------------------------------------
(* Staged bytes are paid for. *)

\* A step of the thread of o, as the reservations see it.
ReservationEffect(o) ==
  /\ \A p \in Op \ {o} : resv'[p] = resv[p] /\ session'[p] = session[p] /\ pc'[p] = pc[p]
  /\ \A i \in Idents : part'[i] # NoFile /\ part[i] = NoFile
                       => i = Id(o) /\ (Kind[o] = "reserved" => Holds(o)')
  /\ Holds(o) => Holds(o)' \/ part'[Id(o)] = NoFile
  /\ ReservationRow(o)'

LEMMA ReservationKept ==
  ASSUME ReservationInv, NEW o \in Op, ReservationEffect(o), UNCHANGED payload,
         \A p \in Op \ {o} : phase'[p] = phase[p]
  PROVE  StagedIsHeld' /\ \A p \in Op : ReservationRow(p)'
<1>1. \A p \in Op \ {o} : Holds(p)' <=> Holds(p)
  BY DEF ReservationEffect, Holds
<1>2. StagedIsHeld'
  <2> SUFFICES ASSUME NEW i \in Idents, part'[i] # NoFile,
                      \A p \in Op : Id(p) = i => Kind[p] = "reserved"
               PROVE  \E p \in Op : Id(p) = i /\ Holds(p)'
    BY DEF StagedIsHeld
  <2>1. CASE part[i] = NoFile
    BY <2>1 DEF ReservationEffect
  <2>2. CASE part[i] # NoFile
    <3>1. PICK p \in Op : Id(p) = i /\ Holds(p)
      BY <2>2 DEF ReservationInv, StagedIsHeld
    <3> QED  BY <1>1, <3>1 DEF ReservationEffect
  <2> QED  BY <2>1, <2>2
<1>3. ASSUME NEW p \in Op \ {o} PROVE ReservationRow(p)'
  BY <1>1 DEF ReservationInv, ReservationEffect, ReservationRow
<1> QED  BY <1>2, <1>3 DEF ReservationEffect

LEMMA ReservationInit == Init => ReservationInv
BY StoreInit DEF Init, ReservationInv, StagedIsHeld, ReservationRow, NoResv

LEMMA RecordReservations ==
  ASSUME TypeInv, NEW o \in Op, ReservationRow(o), NEW s \in Resumable,
         NEW step \in {"idle", "verified", "failed"}, Record(o, s, step),
         UNCHANGED <<part, payload, resv, phase>>
  PROVE  ReservationEffect(o)
<1>1. /\ pc'[o] \in {"idle", "verified", "failed"}
      /\ session[o].state = "FAILED" => session'[o].state = "FAILED"
      /\ \A p \in Op \ {o} : session'[p] = session[p] /\ pc'[p] = pc[p]
  BY RecordEffect
<1> QED  BY <1>1 DEF ReservationEffect, ReservationRow, Holds

LEMMA SessionReservations ==
  ASSUME ReservationInv, NEW o \in Op, Session(o)
  PROVE  ReservationEffect(o)
<1>1. TypeInv /\ ReservationRow(o) /\ StagedIsHeld
  BY DEF ReservationInv, StoreInv, JournalInv
<1> USE <1>1, Domains, StoreAssumption
    DEF TypeInv, Programs, Parts, Payloads, Sessions, Reservations, Goto, Ready, disk, db, Holds,
        ReservationEffect, ReservationRow
<1>2. CASE Open(o)
  BY <1>2 DEF Open, Save, sessionOnly
<1>3. CASE Reserve(o)
  BY <1>3 DEF Reserve
<1>4. CASE ReserveInsert(o)
  <2>1. /\ UNCHANGED <<part, payload, session, phase>> /\ Kind[o] = "reserved"
        /\ \A p \in Op \ {o} : resv'[p] = resv[p] /\ pc'[p] = pc[p]
    BY <1>4 DEF ReserveInsert
  <2>2. CASE pc'[o] = "reserved" /\ resv[o] = NoResv
    <3>1. resv'[o].state = "ACTIVE" /\ resv'[o].bytes = (IF pc[o] = "insert" THEN 1 ELSE 0)
      BY <1>4, <2>2 DEF ReserveInsert, NoResv
    <3>2. resv'[o] # NoResv
      BY <3>1 DEF NoResv
    <3>3. pc[o] \in {"insert", "insertDedup"}
      BY <1>4 DEF ReserveInsert
    <3>4. pc[o] = "insert" => Holds(o)'
      BY <2>2, <3>1
    <3>5. ReservationRow(o)'
      BY <2>1, <2>2, <3>1, <3>2, <3>3, <3>4
    <3>6. Holds(o) => Holds(o)'
      BY <2>1, <2>2 DEF NoResv
    <3> QED  BY <2>1, <3>5, <3>6
  <2>3. CASE pc'[o] = "reserved" /\ resv[o] # NoResv
    <3>1. /\ resv' = resv /\ resv[o].state # "RELEASED"
          /\ resv[o].bytes = (IF pc[o] = "insert" THEN 1 ELSE 0)
      BY <1>4, <2>3 DEF ReserveInsert, NoResv
    <3>2. resv[o].state = "COMMITTED" => payload[Digest[o]] = Chunk
      BY DEF ReservationInv, StoreInv, Finalized
    <3> QED  BY <1>4, <2>1, <2>3, <3>1, <3>2 DEF ReserveInsert
  <2>4. CASE pc'[o] = "idle" /\ resv' = resv
    BY <1>4, <2>1, <2>4 DEF ReserveInsert
  <2> QED  BY <1>4, <2>2, <2>3, <2>4 DEF ReserveInsert
<1>5. CASE Enter(o)
  BY <1>5 DEF Enter
<1>6. CASE Begin(o)
  BY <1>6 DEF Begin
<1>7. ASSUME NEW c \in Chunk, Receive(o, c) PROVE ReservationEffect(o)
  BY <1>7 DEF Receive, Save, Accepts, Allowed
<1>8. CASE Write(o)
  BY <1>8 DEF Write
<1>9. CASE MarkRange(o)
  BY <1>9 DEF MarkRange
<1>10. CASE ChunkVerified(o)
  <2>1. CASE Live(o, obj[o].lease)
    <3> DEFINE s == [obj[o] EXCEPT !.ver = @ \cup obj[o].cur, !.cur = {}]
    <3>1. s \in Resumable
      BY ObjectType DEF Resumable
    <3>2. Record(o, s, "idle") /\ UNCHANGED <<part, payload, resv, phase>>
      BY <1>10, <2>1 DEF ChunkVerified, sessionOnly
    <3> HIDE DEF s
    <3> QED  BY ONLY <1>1, <3>1, <3>2, RecordReservations
  <2>2. CASE ~Live(o, obj[o].lease)
    BY <1>10, <2>2 DEF ChunkVerified, sessionOnly
  <2> QED  BY <2>1, <2>2
<1>11. CASE VerifyComplete(o)
  <2>1. [obj[o] EXCEPT !.state = "COMPLETED"] \in Resumable
    <3>1. obj[o] \in Resumable
      BY ObjectType
    <3> QED  BY ONLY <3>1 DEF Resumable, Allowed
  <2>2. Record(o, [obj[o] EXCEPT !.state = "COMPLETED"], "verified") /\ UNCHANGED <<part, payload, resv, phase>>
    BY <1>11 DEF VerifyComplete, sessionOnly
  <2> QED  BY ONLY <1>1, <2>1, <2>2, RecordReservations
<1>12. CASE Verified(o)
  BY <1>12 DEF Verified
<1>13. ASSUME NEW s \in {"CANCELLED", "EXPIRED"}, Pause(o, s) PROVE ReservationEffect(o)
  <2>1. [obj[o] EXCEPT !.state = s] \in Resumable
    <3>1. obj[o] \in Resumable
      BY ObjectType
    <3> QED  BY ONLY <1>13, <3>1 DEF Resumable, Allowed
  <2>2. Record(o, [obj[o] EXCEPT !.state = s], "idle") /\ UNCHANGED <<part, payload, resv, phase>>
    BY <1>13 DEF Pause, sessionOnly
  <2> QED  BY ONLY <1>1, <2>1, <2>2, RecordReservations
<1>14. ASSUME NEW l \in 1..MaxLease, Renew(o, l) PROVE ReservationEffect(o)
  BY <1>14 DEF Renew, NoResv
<1>15. CASE Renewed(o)
  <2>1. obj[o] \in Resumable
    BY ObjectType DEF Resumable, Allowed
  <2>2. Record(o, obj[o], "idle") /\ UNCHANGED <<part, payload, resv, phase>>
    BY <1>15 DEF Renewed, sessionOnly
  <2> QED  BY ONLY <1>1, <2>1, <2>2, RecordReservations
<1>16. CASE Abandon(o)
  BY <1>16 DEF Abandon
<1>17. CASE AbandonAbort(o)
  BY <1>17 DEF AbandonAbort, Abort
<1>18. CASE AbandonRelease(o)
  BY <1>18 DEF AbandonRelease, NoResv
<1>19. CASE AbandonSave(o)
  <2>1. obj[o] \in Resumable
    BY ObjectType DEF Resumable, Allowed
  <2>2. Record(o, obj[o], "failed") /\ UNCHANGED <<part, payload, resv, phase>>
    BY <1>19 DEF AbandonSave, sessionOnly
  <2> QED  BY ONLY <1>1, <2>1, <2>2, RecordReservations
<1>20. CASE AbandonTransition(o)
  BY <1>20 DEF AbandonTransition
<1>21. CASE Assign(o)
  BY <1>21 DEF Assign
<1>22. CASE Fetch(o)
  BY <1>22 DEF Fetch
<1> QED
  BY <1>2, <1>3, <1>4, <1>5, <1>6, <1>7, <1>8, <1>9, <1>10, <1>11, <1>12, <1>13, <1>14, <1>15, <1>16, <1>17, <1>18, <1>19, <1>20, <1>21, <1>22 DEF Session

LEMMA FinalizationReservations ==
  ASSUME ReservationInv, NEW o \in Op, Finalization(o)
  PROVE  StagedIsHeld' /\ \A p \in Op : ReservationRow(p)'
<1>1. TypeInv /\ StagedIsHeld /\ (\A p \in Op : ReservationRow(p)) /\ Finalized
  BY DEF ReservationInv, StoreInv, JournalInv
<1> USE <1>1, Domains, StoreAssumption
    DEF TypeInv, Programs, Phases, Parts, Payloads, Reservations, Goto, Ready, disk, db, finalUnchanged
<1>2. CASE BeginFinalization(o)
  <2>1. ReservationEffect(o)
    BY <1>2 DEF BeginFinalization, ReservationEffect, ReservationRow, Holds, NoResv
  <2> QED  BY <1>2, <2>1, ReservationKept DEF BeginFinalization
<1>3. CASE FinalizePayload(o)
  <2>1. /\ \A p \in Op : (Holds(p) => Holds(p)') /\ (p # o => pc'[p] = pc[p])
        /\ UNCHANGED <<resv, phase, session>> /\ pc'[o] \in {"markFinal", "idle"}
    BY <1>3 DEF FinalizePayload, Holds
  <2>2. \A i \in Idents : part[i] = NoFile => part'[i] = NoFile
    BY <1>3 DEF FinalizePayload
  <2>3. \A d \in Digests : payload[d] = Chunk => payload'[d] = Chunk
    BY <1>3 DEF FinalizePayload
  <2>4. StagedIsHeld'
    BY <2>1, <2>2 DEF StagedIsHeld
  <2>5. \A p \in Op : ReservationRow(p)'
    BY <2>1, <2>3 DEF ReservationRow
  <2> QED  BY <2>4, <2>5
<1>4. CASE MarkPayloadFinalized(o)
  <2>1. ReservationEffect(o)
    BY <1>4 DEF MarkPayloadFinalized, ReservationEffect, ReservationRow, Holds
  <2> QED  BY <1>4, <2>1, ReservationKept DEF MarkPayloadFinalized
<1>5. CASE CommitFinalizedArtifact(o)
  <2>1. ReservationEffect(o)
    BY <1>5 DEF CommitFinalizedArtifact, ReservationEffect, ReservationRow, Holds
  <2> QED  BY <1>5, <2>1, ReservationKept DEF CommitFinalizedArtifact
<1>6. CASE ActivateFinalizedArtifact(o)
  <2>1. ReservationEffect(o)
    BY <1>6 DEF ActivateFinalizedArtifact, ReservationEffect, ReservationRow, Holds, Finalized, NoResv
  <2> QED  BY <1>6, <2>1, ReservationKept DEF ActivateFinalizedArtifact
<1> QED  BY <1>2, <1>3, <1>4, <1>5, <1>6 DEF Finalization, ReservationInv

\* A step that changes no reservation, deletes files only, and leaves FAILED
\* sessions and the threads that enter alone.
LEMMA ReservationFrame ==
  ASSUME ReservationInv, UNCHANGED <<resv, phase>>,
         \A i \in Idents : part[i] = NoFile => part'[i] = NoFile,
         \A p \in Op : session[p].state = "FAILED" => session'[p].state = "FAILED",
         \A p \in Op : \/ pc'[p] = pc[p] /\ payload'[Digest[p]] = payload[Digest[p]]
                       \/ pc'[p] \in {"idle", "finalize", "commit", "activate"}
  PROVE  StagedIsHeld' /\ \A p \in Op : ReservationRow(p)'
<1>1. \A p \in Op : Holds(p) => Holds(p)'
  BY DEF Holds
<1>2. StagedIsHeld'
  BY <1>1 DEF ReservationInv, StagedIsHeld
<1>3. \A p \in Op : ReservationRow(p)'
  BY <1>1 DEF ReservationInv, ReservationRow
<1> QED  BY <1>2, <1>3

\* _complete_gc_metadata gives the reservation back and fails the session.
LEMMA CompletionReservations ==
  ASSUME ReservationInv, NEW i \in Idents, claim[i].op \in Op, CompleteGcMetadata(i),
         UNCHANGED <<payload, phase, pc>>, \A j \in Idents : part[j] = NoFile => part'[j] = NoFile
  PROVE  StagedIsHeld' /\ \A p \in Op : ReservationRow(p)'
<1>1. TypeInv
  BY DEF ReservationInv, StoreInv, JournalInv
<1>2. ReservationEffect(claim[i].op)
  BY <1>1 DEF CompleteGcMetadata, ReservationEffect, ReservationInv, ReservationRow, Holds, TypeInv,
     Sessions, Reservations, NoResv
<1> QED  BY <1>2, ReservationKept

LEMMA ReservationStep ==
  ASSUME ReservationInv, [Next]_vars
  PROVE  ReservationInv'
<1>1. StoreInv /\ StoreInv' /\ JournalInv /\ TypeInv /\ RollbackOwns
  BY StoreStep DEF ReservationInv, StoreInv, JournalInv
<1> DEFINE Kept == StagedIsHeld' /\ \A p \in Op : ReservationRow(p)'
<1> SUFFICES Kept
  BY <1>1 DEF ReservationInv
<1> USE Domains, StoreAssumption DEF TypeInv, Parts, disk, db, mem
<1>2. ASSUME NEW o \in Op, Session(o) PROVE Kept
  BY <1>1, <1>2, SessionReservations, SessionEffects, SessionFiles, ReservationKept DEF SessionEffect
<1>3. ASSUME NEW o \in Op, Finalization(o) PROVE Kept
  BY <1>3, FinalizationReservations
<1>4. ASSUME NEW o \in Op, Rollback(o) PROVE Kept
  <2>1. CASE RollbackCheck(o)
    BY <2>1, ReservationFrame DEF RollbackCheck
  <2>2. CASE RollbackCommit(o)
    <3>1. Kind[o] = "reserved" => session[o] # NoSession
      BY <1>1, <2>2 DEF RollbackCommit, JournalInv, RollbackOwns, JournalsAgree, VerifiedIsComplete,
         Uncommitted, NoSession
    <3>2. ReservationEffect(o)
      BY <1>1, <2>2, <3>1 DEF RollbackCommit, ReservationEffect, ReservationInv, ReservationRow, Holds,
         Sessions, Reservations, Phases, NoResv, RollbackOwns
    <3> QED  BY <1>1, <2>2, <3>2, ReservationKept DEF RollbackCommit, Phases
  <2>3. CASE RollbackAbort(o)
    BY <1>1, <2>3, ReservationFrame DEF RollbackAbort, Abort
  <2>4. CASE RollbackReclaim(o)
    <3>1. \A p \in Op : pc'[p] = pc[p] /\ (p # o => payload'[Digest[p]] = payload[Digest[p]])
      BY <1>1, <2>4 DEF RollbackReclaim, RollbackOwns, Payloads
    <3>2. pc'[o] = "idle"
      BY <1>1, <2>4, <3>1 DEF RollbackReclaim, RollbackOwns
    <3> QED  BY <2>4, <3>1, <3>2, ReservationFrame DEF RollbackReclaim
  <2> QED  BY <1>4, <2>1, <2>2, <2>3, <2>4 DEF Rollback
<1>5. CASE Collector
  <2>1. ASSUME NEW o \in Op, CollectSelect(o) PROVE Kept
    BY <2>1, ReservationFrame DEF CollectSelect, gcUnchanged
  <2>2. CASE CollectExpire
    BY <1>1, <2>2, ReservationFrame DEF CollectExpire, gcUnchanged, Sessions
  <2>3. CASE ClaimGarbageCollection \/ ReclaimTemporaryGeneration
    BY <2>3, ReservationFrame DEF ClaimGarbageCollection, ReclaimTemporaryGeneration, gcUnchanged
  <2>4. CASE ReclaimAbort
    BY <1>1, <2>4, ReservationFrame DEF ReclaimAbort, Abort
  <2>5. CASE ReclaimComplete
    BY <1>1, <2>5, CompletionReservations DEF ReclaimComplete, CollectorTyped, gcUnchanged
  <2> QED  BY <1>5, <2>1, <2>2, <2>3, <2>4, <2>5 DEF Collector
<1>6. CASE Startup
  <2>1. CASE Restart \/ Started
    BY <2>1, ReservationFrame DEF Restart, Started
  <2>2. ASSUME NEW o \in Op, ReconcileFinalization(o) PROVE Kept
    <3>1. /\ pc'[o] \in {"finalize", "commit", "activate"} /\ UNCHANGED <<disk, db>>
          /\ \A p \in Op \ {o} : pc'[p] = pc[p]
      BY <1>1, <2>2 DEF ReconcileFinalization, Goto, Programs
    <3> QED  BY <3>1, ReservationFrame
  <2>3. ASSUME NEW i \in Idents, ReconcileGcClaim(i) PROVE Kept
    BY <1>1, <2>3, CompletionReservations
       DEF ReconcileGcClaim, Interrupted, Abort, CollectorTyped, gcUnchanged
  <2> QED  BY <1>6, <2>1, <2>2, <2>3 DEF Startup
<1>7. CASE Crash
  BY <1>1, <1>7, ReservationFrame DEF Crash
<1>8. ASSUME NEW o \in Op, LeaseLapses(o) PROVE Kept
  BY <1>8, ReservationFrame DEF LeaseLapses
<1>9. ASSUME NEW i \in Idents, ClaimLapses(i) PROVE Kept
  BY <1>9, ReservationFrame DEF ClaimLapses
<1>10. CASE UNCHANGED vars
  BY <1>10, ReservationFrame DEF vars
<1> QED
  BY <1>2, <1>3, <1>4, <1>5, <1>6, <1>7, <1>8, <1>9, <1>10 DEF Next

\* Bytes on the disk are paid for: a staging file of operations that reserve
\* capacity has a reservation of full size behind it, or a FAILED session that
\* keeps it on the collector's list, in whatever order fail(), the collector, a
\* rollback and a crash release what an upload held.
THEOREM StagedBytesAreReserved == Spec => []StagedIsReserved
<1>1. ReservationInv => StagedIsReserved
  BY DEF ReservationInv, StagedIsHeld, StagedIsReserved, Holds
<1> QED
  BY <1>1, ReservationInit, ReservationStep, PTL DEF Spec

-----------------------------------------------------------------------------
(* The collector spares live uploads. *)

\* A generation has at most one capacity reservation.
OneReservation ==
  \A o, p \in Op : Kind[o] = "reserved" /\ Kind[p] = "reserved" /\ Id(o) = Id(p) => o = p

CollectorInv == ReservationInv /\ ReclaimsIdle

LEMMA CollectorStep ==
  ASSUME OneReservation, CollectorInv, [Next]_vars
  PROVE  CollectorInv'
<1>1. ReservationInv /\ ReservationInv' /\ TypeInv /\ TypeInv' /\ ReplayOnly
  BY ReservationStep DEF CollectorInv, ReservationInv, StoreInv, JournalInv
<1> SUFFICES ASSUME gc'.pc = "abort" PROVE ReclaimsIdle'
  BY <1>1 DEF CollectorInv, ReclaimsIdle
<1> USE DEF disk, db, mem, CollectorInv
<1>2. CASE ReclaimTemporaryGeneration
  <2>1. /\ gc.op \in Op /\ gc'.op = gc.op /\ Unprotected(Id(gc.op)) /\ UNCHANGED <<resv, lapsed>>
    BY <1>1, <1>2 DEF ReclaimTemporaryGeneration, gcUnchanged, GcIdle, TypeInv, CollectorTyped
  <2>2. SUFFICES ASSUME NEW o \in Op, Id(o) = Id(gc.op), resv[o].state \in {"ACTIVE", "FINALIZING"}
                 PROVE  ~Live(o, resv[o].lease)
    BY <2>1 DEF ReclaimsIdle, Live
  <2>3. resv[o] # NoResv
    BY <2>2 DEF NoResv
  <2>4. PICK p \in Op : /\ Id(p) = Id(gc.op) /\ resv[p] # NoResv
                        /\ \/ resv[p].state = "RELEASED"
                           \/ resv[p].state = "ACTIVE" /\ ~Live(p, resv[p].lease)
    BY <2>1, <2>2, <2>3 DEF Unprotected
  <2>5. p = o
    BY <1>1, <2>2, <2>3, <2>4 DEF ReservationInv, ReservationRow, OneReservation
  <2> QED  BY <2>2, <2>4, <2>5
<1>3. CASE ~ReclaimTemporaryGeneration
  <2>1. gc' = gc /\ UNCHANGED resv
    <3>1. ASSUME NEW o \in Op, Session(o) PROVE gc' = gc /\ UNCHANGED resv
      <4>1. gc' = gc
        BY <1>1, <3>1, SessionEffects DEF SessionEffect, ReservationInv, StoreInv
      <4> QED
        BY <3>1, <4>1 DEF Session, Open, Reserve, ReserveInsert, Enter, Begin, Receive, Write, MarkRange,
           ChunkVerified, VerifyComplete, Verified, Pause, Renew, Renewed, Abandon, AbandonAbort,
           AbandonRelease, AbandonSave, AbandonTransition, Assign, Fetch, sessionOnly, DbFree
    <3>2. ASSUME NEW o \in Op, Finalization(o) PROVE gc' = gc /\ UNCHANGED resv
      BY <3>2 DEF Finalization, BeginFinalization, FinalizePayload, MarkPayloadFinalized,
         CommitFinalizedArtifact, ActivateFinalizedArtifact, finalUnchanged, DbFree
    <3>3. ASSUME NEW o \in Op, Rollback(o) PROVE gc' = gc /\ UNCHANGED resv
      BY <3>3 DEF Rollback, RollbackCheck, RollbackCommit, RollbackAbort, RollbackReclaim, DbFree
    <3>4. CASE Collector
      BY <1>1, <1>3, <3>4 DEF Collector, CollectSelect, CollectExpire, ClaimGarbageCollection, ReclaimAbort,
         ReclaimComplete, GcIdle, TypeInv, CollectorTyped
    <3>5. CASE Startup
      BY <1>1, <3>5 DEF Startup, Restart, Started, ReconcileFinalization, ReconcileGcClaim, ReplayOnly
    <3>6. CASE Crash
      BY <3>6 DEF Crash, GcIdle
    <3>7. ASSUME NEW o \in Op, LeaseLapses(o) PROVE gc' = gc /\ UNCHANGED resv
      BY <3>7 DEF LeaseLapses
    <3>8. ASSUME NEW i \in Idents, ClaimLapses(i) PROVE gc' = gc /\ UNCHANGED resv
      BY <3>8 DEF ClaimLapses
    <3> QED  BY <3>1, <3>2, <3>3, <3>4, <3>5, <3>6, <3>7, <3>8 DEF Next, vars
  <2>2. \A o \in Op : lapsed'[o] >= lapsed[o]
    <3>1. CASE lapsed' = lapsed
      BY <1>1, <3>1 DEF TypeInv, Lapses
    <3>2. ASSUME NEW o \in Op, LeaseLapses(o) PROVE \A p \in Op : lapsed'[p] >= lapsed[p]
      BY <1>1, <3>2 DEF LeaseLapses, TypeInv, Lapses
    <3>3. lapsed' = lapsed \/ \E o \in Op : LeaseLapses(o)
      <4>1. ASSUME NEW o \in Op, Session(o) PROVE lapsed' = lapsed
        BY <4>1 DEF Session, Open, Reserve, ReserveInsert, Enter, Begin, Receive, Write, MarkRange,
           ChunkVerified, VerifyComplete, Verified, Pause, Renew, Renewed, Abandon, AbandonAbort,
           AbandonRelease, AbandonSave, AbandonTransition, Assign, Fetch, sessionOnly
      <4>2. ASSUME NEW o \in Op, Finalization(o) \/ Rollback(o) PROVE lapsed' = lapsed
        BY <4>2 DEF Finalization, BeginFinalization, FinalizePayload, MarkPayloadFinalized,
           CommitFinalizedArtifact, ActivateFinalizedArtifact, finalUnchanged, Rollback, RollbackCheck,
           RollbackCommit, RollbackAbort, RollbackReclaim
      <4>3. CASE Collector \/ Startup \/ Crash
        BY <4>3 DEF Collector, CollectSelect, CollectExpire, ClaimGarbageCollection,
           ReclaimTemporaryGeneration, ReclaimAbort, ReclaimComplete, gcUnchanged, Startup, Restart, Started,
           ReconcileFinalization, ReconcileGcClaim, Crash
      <4> QED  BY <4>1, <4>2, <4>3 DEF Next, vars, ClaimLapses
    <3> QED  BY <3>1, <3>2, <3>3
  <2>3. \A o \in Op : resv[o].lease \in Nat /\ lapsed[o] \in Nat /\ lapsed'[o] \in Nat
    BY <1>1 DEF TypeInv, Reservations, Lapses
  <2> QED  BY <2>1, <2>2, <2>3 DEF ReclaimsIdle, Live
<1> QED  BY <1>2, <1>3

\* The collector deletes no staging file of an upload whose reservation is still
\* running or whose finalization is under way, if no generation has two
\* reservations: the protection lookup reads one of them (LIMIT 1) and any of
\* several may be the one it reads.
THEOREM CollectorIsCareful ==
  ASSUME OneReservation
  PROVE  Spec => CollectorSparesLiveUploads
<1>1. Init => CollectorInv
  BY ReservationInit DEF CollectorInv, ReclaimsIdle, Init, GcIdle
<1>2. CollectorInv /\ [Next]_vars => CollectorInv'
  BY CollectorStep
<1>3. ASSUME CollectorInv, ReclaimAbort, NEW o \in Op, Id(o) = Id(gc.op)
      PROVE  /\ phase[o] \notin InProgress
             /\ ~(resv[o].state \in {"ACTIVE", "FINALIZING"} /\ Live(o, resv[o].lease))
  <2>1. gc.op \in Op /\ gc.pc = "abort"
    BY <1>3 DEF CollectorInv, ReservationInv, StoreInv, JournalInv, TypeInv, CollectorTyped, ReclaimAbort
  <2>2. phase[o] \in {"NONE", "ROLLED_BACK"}
    BY <1>3, <2>1, Domains DEF CollectorInv, ReservationInv, StoreInv, JournalInv, ClaimsAreHeld
  <2> QED  BY <1>3, <2>1, <2>2 DEF CollectorInv, ReclaimsIdle, InProgress
<1>4. CollectorInv => [ReclaimAbort => \A o \in Op : Id(o) = Id(gc.op)
         => /\ phase[o] \notin InProgress
            /\ ~(resv[o].state \in {"ACTIVE", "FINALIZING"} /\ Live(o, resv[o].lease))]_vars
  BY <1>3
<1> QED
  BY <1>1, <1>2, <1>4, PTL DEF Spec, CollectorSparesLiveUploads
=============================================================================
