-------------------------- MODULE RepoWriteProofs --------------------------
(***************************************************************************)
(* Safety of replicated writes for every number of replicas, writes and    *)
(* repair jobs, every placement, replication factor and consistency.       *)
(***************************************************************************)
EXTENDS RepoWrite, FiniteSetTheorems, TLAPS

Holders(o) == {r \in Replica : o \in receipts[r]}

\* The client has validated a quorum of receipts and gone on to finalization.
Sent(o) == /\ pc[o] \in {"finalizing", "committed", "incomplete"}
           /\ Cardinality(confirmed[o]) >= RequiredWriteAcks(o)

\* What a readable copy shows of the write it came from.
Served(o) == HasQuorum(o) /\ (RequiredWriteAcks(o) > 1 => Sent(o))

RowsAreWrites   == \A r \in Replica : obj[r].op \in {NoOp, obj[r].data}
ReadableServed  == \A r \in Replica : obj[r].final => Served(obj[r].data)
PullsServed     == \A j \in Job : pull[j] # "none" => Served(j.data)
ConfirmedHolds  == \A o \in Op : /\ confirmed[o] \subseteq Holders(o)
                                 /\ confirmed[o] # {} => Sent(o)

\* The inductive invariant behind the first two theorems.
ServedInv == TypeOK /\ RowsAreWrites /\ ReadableServed /\ PullsServed /\ ConfirmedHolds

SelectedPlaced  == \A o \in Op : selected[o] \subseteq Placement[o]
ReceiptsPlaced  == \A r \in Replica : \A o \in receipts[r] : r \in Placement[o]
ReceiptsFollow  == \A r \in Replica : \A o \in receipts[r] :
                     Expected[o] >= 0 => Generation[o] = Expected[o] + 1
ReceiptsPast    == \A r \in Replica \ lowered : \A o \in receipts[r] :
                     Generation[o] <= obj[r].gen
RivalsExclude   == \A r \in Replica \ lowered : \A o, p \in receipts[r] : ~Rivals(o, p)

\* The inductive invariant behind the third.
WinnerInv == /\ TypeOK /\ SelectedPlaced /\ ReceiptsPlaced /\ ReceiptsFollow
             /\ ReceiptsPast /\ RivalsExclude

-----------------------------------------------------------------------------
LEMMA AcksType ==
  ASSUME NEW o \in Op
  PROVE  RequiredWriteAcks(o) \in Nat \ {0}
BY WriteAssumption DEF RequiredWriteAcks

LEMMA NoObjType == /\ NoObj.op = NoOp /\ NoObj.data = NoOp
                   /\ NoObj.gen = -1 /\ NoObj.final = FALSE
BY DEF NoObj

\* The fields of a row.
LEMMA RowType ==
  ASSUME TypeOK, NEW r \in Replica
  PROVE  /\ obj[r].gen \in Int /\ obj[r].final \in BOOLEAN
         /\ obj[r].op \in Op \cup {NoOp} /\ obj[r].data \in Op \cup {NoOp}
         /\ obj[r].final => obj[r].data \in Op
<1>1. CASE obj[r] = NoObj
  <2>1. NoObj.gen \in Int
    BY SMT DEF NoObj
  <2>2. NoObj.final \in BOOLEAN /\ ~NoObj.final
    BY Zenon, NoObjType
  <2> QED BY <1>1, <2>1, <2>2, NoObjType
<1>2. CASE obj[r] \in [op : Op \cup {NoOp}, data : Op, gen : Nat, final : BOOLEAN]
  BY <1>2
<1> QED BY <1>1, <1>2 DEF TypeOK

LEMMA TypeInit == Init => TypeOK
<1>1. 0 \in 0..MaxFault
  BY WriteAssumption
<1> QED BY <1>1 DEF Init, TypeOK

LEMMA RememberType ==
  ASSUME TypeOK, NEW r \in Replica, NEW n \in {0, 1}, Remember(r, n)
  PROVE  listed' \subseteq Replica /\ faults' \in 0..MaxFault
BY WriteAssumption DEF TypeOK, Remember

LEMMA PutType ==
  ASSUME TypeOK, NEW r \in Replica, NEW x, Put(r, x),
         x \in {NoObj} \cup [op : Op \cup {NoOp}, data : Op, gen : Nat, final : BOOLEAN]
  PROVE  /\ obj' \in [Replica -> {NoObj} \cup
                        [op : Op \cup {NoOp}, data : Op, gen : Nat, final : BOOLEAN]]
         /\ lowered' \subseteq Replica
BY DEF TypeOK, Put

LEMMA TypeNext == TypeOK /\ [Next]_vars => TypeOK'
<1> SUFFICES ASSUME TypeOK, [Next]_vars PROVE TypeOK'
  OBVIOUS
<1>1. ASSUME NEW o \in Op, StartStore(o) PROVE TypeOK'
  <2>1. PICK s \in SUBSET Placement[o] : selected' = [selected EXCEPT ![o] = s]
    BY <1>1 DEF StartStore
  <2>2. s \subseteq Replica
    BY <2>1, WriteAssumption
  <2>3. selected' \in [Op -> SUBSET Replica]
    BY <2>1, <2>2 DEF TypeOK
  <2> QED BY <1>1, <2>3 DEF StartStore, TypeOK, repair
<1>2. ASSUME NEW o \in Op, NEW r \in Replica, HandleStore(r, o) PROVE TypeOK'
  <2> DEFINE x == [op |-> o, data |-> o, gen |-> Generation[o], final |-> FinalAtOnce(o)]
  <2>1. FinalAtOnce(o) \in BOOLEAN
    BY AcksType DEF FinalAtOnce
  <2>2. x \in [op : Op \cup {NoOp}, data : Op, gen : Nat, final : BOOLEAN]
    BY <2>1, WriteAssumption
  <2>3. Put(r, x) /\ Remember(r, 0)
    BY <1>2 DEF HandleStore
  <2> HIDE DEF x
  <2> QED BY <1>2, <2>2, <2>3, PutType, RememberType DEF HandleStore, TypeOK, repair, client
<1>3. ASSUME NEW o \in Op, NEW got \in SUBSET Placement[o], CollectReceipts(o, got) PROVE TypeOK'
  BY <1>3, WriteAssumption DEF CollectReceipts, TypeOK, repair
<1>4. ASSUME NEW o \in Op, NEW r \in Replica, HandleFinalize(r, o) PROVE TypeOK'
  <2>1. obj[r] \in [op : Op \cup {NoOp}, data : Op, gen : Nat, final : BOOLEAN]
    BY <1>4, WriteAssumption, NoObjType DEF HandleFinalize, TypeOK
  <2>2. [obj[r] EXCEPT !.final = TRUE] \in
          [op : Op \cup {NoOp}, data : Op, gen : Nat, final : BOOLEAN]
    BY <2>1
  <2>3. obj' = [obj EXCEPT ![r] = [obj[r] EXCEPT !.final = TRUE]]
    BY <1>4 DEF HandleFinalize
  <2>4. obj' \in [Replica -> {NoObj} \cup
                    [op : Op \cup {NoOp}, data : Op, gen : Nat, final : BOOLEAN]]
    BY <2>2, <2>3 DEF TypeOK
  <2>5. Remember(r, 0) /\ finalized' \subseteq Op
    BY <1>4 DEF HandleFinalize, TypeOK
  <2> QED BY <1>4, <2>4, <2>5, RememberType DEF HandleFinalize, TypeOK, repair
<1>5. ASSUME NEW o \in Op, CollectFinalized(o) PROVE TypeOK'
  BY <1>5 DEF CollectFinalized, TypeOK, repair
<1>6. ASSUME NEW r \in Replica, DeleteObject(r) PROVE TypeOK'
  <2>1. Put(r, NoObj) /\ Remember(r, 1)
    BY <1>6 DEF DeleteObject
  <2> QED BY <1>6, <2>1, PutType, RememberType DEF DeleteObject, TypeOK, repair, client
<1>7. ASSUME NEW j \in Job, HandlePull(j) PROVE TypeOK'
  <2> DEFINE x == [op |-> NoOp, data |-> j.data, gen |-> 0, final |-> TRUE]
  <2>1. j.target \in Replica /\ j.data \in Op
    BY WriteAssumption DEF Job
  <2>2. x \in [op : Op \cup {NoOp}, data : Op, gen : Nat, final : BOOLEAN]
    BY <2>1
  <2>3. Put(j.target, x) /\ Remember(j.target, 1)
    BY <1>7 DEF HandlePull
  <2> HIDE DEF x
  <2> QED BY <1>7, <2>1, <2>2, <2>3, PutType, RememberType DEF HandlePull, TypeOK, client
<1>8. ASSUME NEW j \in Job,
             \/ ScanRepairJobs(j) \/ ClaimRepairJob(j) \/ PrepareRepair(j)
             \/ AdmitPull(j) \/ FinishRepairJob(j)
      PROVE  TypeOK'
  BY <1>8 DEF ScanRepairJobs, ClaimRepairJob, PrepareRepair, AdmitPull, FinishRepairJob,
     TypeOK, client
<1>9. CASE UNCHANGED vars
  BY <1>9 DEF vars, TypeOK
<1> QED BY <1>1, <1>2, <1>3, <1>4, <1>5, <1>6, <1>7, <1>8, <1>9 DEF Next, Write, Repair

\* Type correctness of the replicated-write protocol.
THEOREM TypeCorrect == Spec => []TypeOK
BY TypeInit, TypeNext, PTL DEF Spec
-----------------------------------------------------------------------------
(* What the client has been told, and the receipts behind it, never shrink. *)

LEMMA HoldersFinite ==
  ASSUME NEW o
  PROVE  IsFiniteSet(Holders(o)) /\ Cardinality(Holders(o)) \in Nat
<1>1. Holders(o) \in SUBSET Replica
  BY DEF Holders
<1>2. IsFiniteSet(Holders(o))
  BY <1>1, FS_Subset, WriteAssumption
<1> QED BY <1>2, FS_CardinalityType

LEMMA ReceiptsGrow ==
  ASSUME TypeOK, [Next]_vars, NEW r \in Replica
  PROVE  receipts[r] \subseteq receipts'[r]
<1>1. CASE UNCHANGED receipts
  BY <1>1
<1>2. ASSUME NEW o \in Op, NEW q \in Replica, HandleStore(q, o)
      PROVE  receipts[r] \subseteq receipts'[r]
  BY <1>2 DEF HandleStore, TypeOK
<1> QED
  BY <1>1, <1>2 DEF Next, Write, Repair, vars, StartStore, CollectReceipts, HandleFinalize,
     CollectFinalized, DeleteObject, ScanRepairJobs, ClaimRepairJob, PrepareRepair,
     AdmitPull, HandlePull, FinishRepairJob

LEMMA SentPersists ==
  ASSUME TypeOK, [Next]_vars, NEW o \in Op, Sent(o)
  PROVE  Sent(o)'
<1>0. RequiredWriteAcks(o)' = RequiredWriteAcks(o)
  BY DEF RequiredWriteAcks
<1>1. CASE UNCHANGED <<pc, confirmed>>
  BY <1>0, <1>1 DEF Sent
<1>2. ASSUME NEW p \in Op, StartStore(p) PROVE Sent(o)'
  BY <1>0, <1>2 DEF StartStore, TypeOK, Sent
<1>3. ASSUME NEW p \in Op, NEW got \in SUBSET Placement[p], CollectReceipts(p, got)
      PROVE  Sent(o)'
  BY <1>0, <1>3 DEF CollectReceipts, TypeOK, Sent
<1>4. ASSUME NEW p \in Op, CollectFinalized(p) PROVE Sent(o)'
  BY <1>0, <1>4 DEF CollectFinalized, TypeOK, Sent
<1> QED
  BY <1>1, <1>2, <1>3, <1>4 DEF Next, Write, Repair, vars, client, HandleStore,
     HandleFinalize, DeleteObject, ScanRepairJobs, ClaimRepairJob, PrepareRepair,
     AdmitPull, HandlePull, FinishRepairJob

LEMMA QuorumPersists ==
  ASSUME TypeOK, [Next]_vars, NEW o \in Op, HasQuorum(o)
  PROVE  HasQuorum(o)'
<1>1. Holders(o) \subseteq Holders(o)'
  BY ReceiptsGrow DEF Holders
<1>2. IsFiniteSet(Holders(o)')
  <2>1. Holders(o)' \in SUBSET Replica
    BY DEF Holders
  <2> QED BY <2>1, FS_Subset, WriteAssumption
<1>3. Cardinality(Holders(o)) <= Cardinality(Holders(o)')
  BY <1>1, <1>2, FS_Subset
<1>4. Cardinality(Holders(o)') \in Nat /\ Cardinality(Holders(o)) \in Nat
  BY <1>2, FS_CardinalityType, HoldersFinite
<1>5. Cardinality(Holders(o)) >= RequiredWriteAcks(o)
  BY DEF HasQuorum, Holders
<1>6. Cardinality(Holders(o)') >= RequiredWriteAcks(o)
  BY <1>3, <1>4, <1>5, AcksType
<1>7. RequiredWriteAcks(o)' = RequiredWriteAcks(o)
  BY DEF RequiredWriteAcks
<1> QED BY <1>6, <1>7 DEF HasQuorum, Holders

LEMMA ServedPersists ==
  ASSUME TypeOK, [Next]_vars, NEW o \in Op, Served(o)
  PROVE  Served(o)'
<1>1. RequiredWriteAcks(o)' = RequiredWriteAcks(o)
  BY DEF RequiredWriteAcks
<1> QED BY <1>1, QuorumPersists, SentPersists DEF Served

\* A replica with the receipt is one holder, as many as a quorum of one needs.
Solo == \A o \in Op : \A r \in Replica : o \in receipts[r] /\ FinalAtOnce(o) => Served(o)

LEMMA OneHolder == Solo
<1> SUFFICES ASSUME NEW o \in Op, NEW r \in Replica, o \in receipts[r], FinalAtOnce(o)
             PROVE  Served(o)
  BY DEF Solo
<1>1. r \in Holders(o)
  BY DEF Holders
<1>2. Cardinality(Holders(o)) # 0
  BY <1>1, HoldersFinite, FS_EmptySet
<1>3. RequiredWriteAcks(o) = 1
  BY AcksType DEF FinalAtOnce
<1>4. Cardinality(Holders(o)) >= RequiredWriteAcks(o)
  BY <1>2, <1>3, HoldersFinite
<1>5. ~(RequiredWriteAcks(o) > 1)
  BY <1>3
<1> QED BY <1>4, <1>5 DEF Served, HasQuorum, Holders

\* Whoever is asked to finalize presents a quorum of receipts.
LEMMA FinalizeServed ==
  ASSUME ServedInv, NEW r \in Replica, NEW o \in Op, HandleFinalize(r, o)
  PROVE  Served(o)
<1>1. confirmed[o] \subseteq Holders(o) /\ Sent(o)
  BY DEF ServedInv, ConfirmedHolds, HandleFinalize
<1>2. Cardinality(confirmed[o]) <= Cardinality(Holders(o))
  BY <1>1, HoldersFinite, FS_Subset
<1>3. IsFiniteSet(confirmed[o])
  BY <1>1, HoldersFinite, FS_Subset
<1>4. Cardinality(confirmed[o]) \in Nat
  BY <1>3, FS_CardinalityType
<1>5. Cardinality(Holders(o)) >= RequiredWriteAcks(o)
  BY <1>2, <1>4, HoldersFinite, AcksType DEF HandleFinalize
<1> QED BY <1>1, <1>5 DEF Served, HasQuorum, Holders

LEMMA RowsNext == ServedInv /\ [Next]_vars => RowsAreWrites'
<1> SUFFICES ASSUME ServedInv, [Next]_vars, NEW q \in Replica
             PROVE  obj'[q].op \in {NoOp, obj'[q].data}
  BY DEF RowsAreWrites
<1>0. obj[q].op \in {NoOp, obj[q].data} /\ obj \in [Replica -> {NoObj} \cup
        [op : Op \cup {NoOp}, data : Op, gen : Nat, final : BOOLEAN]]
  BY DEF ServedInv, RowsAreWrites, TypeOK
<1>1. CASE UNCHANGED obj
  BY <1>0, <1>1
<1>2. ASSUME NEW o \in Op, NEW r \in Replica, HandleStore(r, o)
      PROVE  obj'[q].op \in {NoOp, obj'[q].data}
  BY <1>0, <1>2 DEF HandleStore, Put
<1>3. ASSUME NEW o \in Op, NEW r \in Replica, HandleFinalize(r, o)
      PROVE  obj'[q].op \in {NoOp, obj'[q].data}
  <2>1. obj[r].op = o /\ o # NoOp /\ obj[r] # NoObj
    BY <1>3, WriteAssumption, NoObjType DEF HandleFinalize
  <2>2. obj[r] \in [op : Op \cup {NoOp}, data : Op, gen : Nat, final : BOOLEAN]
    BY <1>0, <2>1
  <2>3. obj' = [obj EXCEPT ![r] = [obj[r] EXCEPT !.final = TRUE]]
    BY <1>3 DEF HandleFinalize
  <2>4. CASE q = r
    BY <1>0, <2>2, <2>3, <2>4
  <2>5. CASE q # r
    BY <1>0, <2>3, <2>5
  <2> QED BY <2>4, <2>5
<1>4. ASSUME NEW r \in Replica, DeleteObject(r) PROVE obj'[q].op \in {NoOp, obj'[q].data}
  BY <1>0, <1>4, NoObjType DEF DeleteObject, Put
<1>5. ASSUME NEW j \in Job, HandlePull(j) PROVE obj'[q].op \in {NoOp, obj'[q].data}
  BY <1>0, <1>5 DEF HandlePull, Put
<1> QED
  BY <1>1, <1>2, <1>3, <1>4, <1>5 DEF Next, Write, Repair, vars, StartStore,
     CollectReceipts, CollectFinalized, ScanRepairJobs, ClaimRepairJob, PrepareRepair,
     AdmitPull, FinishRepairJob

LEMMA ReadableNext == ServedInv /\ [Next]_vars => ReadableServed'
<1> SUFFICES ASSUME ServedInv, [Next]_vars, NEW q \in Replica, obj'[q].final
             PROVE  Served(obj[q].data)'
  BY DEF ReadableServed
<1>0. /\ TypeOK /\ RowsAreWrites /\ ReadableServed /\ PullsServed /\ Solo'
      /\ obj \in [Replica -> {NoObj} \cup
           [op : Op \cup {NoOp}, data : Op, gen : Nat, final : BOOLEAN]]
  <2>1. Solo'
    BY OneHolder, PTL
  <2> QED BY <2>1 DEF ServedInv, TypeOK
<1>1. ASSUME obj'[q] = obj[q] PROVE Served(obj[q].data)'
  <2>1. obj[q].data \in Op /\ Served(obj[q].data)
    BY <1>0, <1>1, RowType DEF ReadableServed
  <2>2. PICK d \in Op : d = obj[q].data
    BY <2>1
  <2>3. Served(d)'
    BY <1>0, <2>1, <2>2, ServedPersists
  <2>4. obj'[q].data = d
    BY <1>1, <2>2
  <2> QED BY <2>3, <2>4 DEF Served, HasQuorum, RequiredWriteAcks, Sent
<1>2. ASSUME NEW o \in Op, NEW r \in Replica, HandleStore(r, o), obj'[q] # obj[q]
      PROVE  Served(obj[q].data)'
  <2>1. /\ q = r /\ obj'[q].data = o /\ FinalAtOnce(o) /\ o \in receipts'[r]
    BY <1>0, <1>2 DEF HandleStore, Put, TypeOK
  <2>2. FinalAtOnce(o)'
    BY <2>1 DEF FinalAtOnce, RequiredWriteAcks
  <2>3. Served(o)'
    BY <1>0, <2>1, <2>2 DEF Solo
  <2> QED BY <2>1, <2>3 DEF Served, HasQuorum, RequiredWriteAcks, Sent
<1>3. ASSUME NEW o \in Op, NEW r \in Replica, HandleFinalize(r, o), obj'[q] # obj[q]
      PROVE  Served(obj[q].data)'
  <2>1. obj[r].op = o /\ o # NoOp /\ obj[r] # NoObj
    BY <1>3, WriteAssumption, NoObjType DEF HandleFinalize
  <2>2. obj[r] \in [op : Op \cup {NoOp}, data : Op, gen : Nat, final : BOOLEAN]
    BY <1>0, <2>1
  <2>3. obj' = [obj EXCEPT ![r] = [obj[r] EXCEPT !.final = TRUE]]
    BY <1>3 DEF HandleFinalize
  <2>4. q = r
    BY <1>0, <1>3, <2>3
  <2>5. obj[r].data = o
    BY <1>0, <2>1 DEF RowsAreWrites
  <2>6. obj'[q].data = o
    BY <1>0, <2>2, <2>3, <2>4, <2>5
  <2>7. Served(o)'
    BY <1>0, <1>3, FinalizeServed, ServedPersists
  <2> QED BY <2>6, <2>7 DEF Served, HasQuorum, RequiredWriteAcks, Sent
<1>4. ASSUME NEW r \in Replica, DeleteObject(r) PROVE obj'[q] = obj[q]
  <2>1. ~NoObj.final
    BY Zenon, NoObjType
  <2> QED BY <1>0, <1>4, <2>1 DEF DeleteObject, Put
<1>5. ASSUME NEW j \in Job, HandlePull(j), obj'[q] # obj[q] PROVE Served(obj[q].data)'
  <2>1. j.data \in Op /\ j.target \in Replica
    BY WriteAssumption DEF Job
  <2>2. Served(j.data)
    BY <1>0, <1>5 DEF HandlePull, PullsServed
  <2>3. PICK d \in Op : d = j.data
    BY <2>1
  <2>4. Served(d)'
    BY <1>0, <2>2, <2>3, ServedPersists
  <2>5. obj'[q].data = d
    BY <1>0, <1>5, <2>1, <2>3 DEF HandlePull, Put
  <2> QED BY <2>4, <2>5 DEF Served, HasQuorum, RequiredWriteAcks, Sent
<1> QED
  BY <1>1, <1>2, <1>3, <1>4, <1>5 DEF Next, Write, Repair, vars, StartStore,
     CollectReceipts, CollectFinalized, ScanRepairJobs, ClaimRepairJob, PrepareRepair,
     AdmitPull, FinishRepairJob

LEMMA PullsNext == ServedInv /\ [Next]_vars => PullsServed'
<1> SUFFICES ASSUME ServedInv, [Next]_vars, NEW j \in Job, pull'[j] # "none"
             PROVE  Served(j.data)'
  BY DEF PullsServed
<1>0. TypeOK /\ ReadableServed /\ PullsServed /\ j.data \in Op /\ j.source \in Replica
  BY DEF ServedInv, Job
<1>1. ASSUME pull[j] # "none" PROVE Served(j.data)
  BY <1>0, <1>1 DEF PullsServed
<1>2. ASSUME NEW k \in Job, PrepareRepair(k), pull[j] = "none" PROVE Served(j.data)
  <2>1. k = j
    BY <1>0, <1>2 DEF PrepareRepair, TypeOK
  <2> QED BY <1>0, <1>2, <2>1 DEF PrepareRepair, ReadableServed
<1>3. ASSUME NEW k \in Job, AdmitPull(k) \/ HandlePull(k) PROVE pull[j] # "none"
  BY <1>0, <1>3 DEF AdmitPull, HandlePull, TypeOK
<1>4. CASE UNCHANGED pull
  BY <1>1, <1>4, <1>0, ServedPersists
<1>5. ASSUME Served(j.data) PROVE Served(j.data)'
  BY <1>0, <1>5, ServedPersists
<1> QED
  BY <1>1, <1>2, <1>3, <1>4, <1>5 DEF Next, Write, Repair, vars, repair, client, StartStore,
     HandleStore, CollectReceipts, HandleFinalize, CollectFinalized, DeleteObject,
     ScanRepairJobs, ClaimRepairJob, FinishRepairJob

LEMMA ConfirmedNext == ServedInv /\ [Next]_vars => ConfirmedHolds'
<1> SUFFICES ASSUME ServedInv, [Next]_vars, NEW o \in Op
             PROVE  confirmed'[o] \subseteq Holders(o)' /\ (confirmed'[o] # {} => Sent(o)')
  BY DEF ConfirmedHolds
<1>0. /\ TypeOK /\ confirmed[o] \subseteq Holders(o) /\ (confirmed[o] # {} => Sent(o))
      /\ Holders(o) \subseteq Holders(o)' /\ (Sent(o) => Sent(o)')
  <2>1. TypeOK /\ confirmed[o] \subseteq Holders(o) /\ (confirmed[o] # {} => Sent(o))
    BY DEF ServedInv, ConfirmedHolds
  <2>2. Holders(o) \subseteq Holders(o)'
    BY <2>1, ReceiptsGrow DEF Holders
  <2> QED BY <2>1, <2>2, SentPersists
<1>1. CASE confirmed'[o] = confirmed[o]
  BY <1>0, <1>1
<1>2. ASSUME NEW p \in Op, NEW got \in SUBSET Placement[p], CollectReceipts(p, got),
             confirmed'[o] # confirmed[o]
      PROVE  confirmed'[o] \subseteq Holders(o)' /\ Sent(o)'
  <2>1. /\ p = o /\ confirmed'[o] = got /\ pc'[o] \in {"committed", "finalizing"}
        /\ Cardinality(got) >= RequiredWriteAcks(o)
    BY <1>0, <1>2 DEF CollectReceipts, TypeOK
  <2>2. got \subseteq Holders(o)
    BY <1>0, <1>2, <2>1 DEF CollectReceipts, Holders, TypeOK
  <2>3. RequiredWriteAcks(o)' = RequiredWriteAcks(o)
    BY DEF RequiredWriteAcks
  <2> QED BY <1>0, <2>1, <2>2, <2>3 DEF Sent
<1> QED
  BY <1>1, <1>2 DEF Next, Write, Repair, vars, repair, client, StartStore, HandleStore,
     HandleFinalize, CollectFinalized, DeleteObject, ScanRepairJobs, ClaimRepairJob,
     PrepareRepair, AdmitPull, HandlePull, FinishRepairJob

LEMMA ServedInit == Init => ServedInv
<1> SUFFICES ASSUME Init PROVE ServedInv
  OBVIOUS
<1>1. \A r \in Replica : obj[r] = NoObj
  BY DEF Init
<1>2. RowsAreWrites
  BY <1>1, NoObjType DEF RowsAreWrites
<1>3. ReadableServed
  <2>1. ~NoObj.final
    BY Zenon, NoObjType
  <2> QED BY <1>1, <2>1 DEF ReadableServed
<1>4. PullsServed /\ ConfirmedHolds
  BY DEF Init, PullsServed, ConfirmedHolds
<1> QED BY <1>2, <1>3, <1>4, TypeInit DEF ServedInv

LEMMA ServedNext == ServedInv /\ [Next]_vars => ServedInv'
BY TypeNext, RowsNext, ReadableNext, PullsNext, ConfirmedNext DEF ServedInv

\* Whatever a replica holds as final was durably accepted by as many replicas as its write
\* required: staging, finalization, repair, replays and crashes in any order.
THEOREM ReadableHasQuorum == Spec => []FinalizedHasQuorum
<1>1. ServedInv => FinalizedHasQuorum
  BY DEF ServedInv, ReadableServed, Served, FinalizedHasQuorum
<1> QED BY <1>1, ServedInit, ServedNext, PTL DEF Spec

\* A write that needs several receipts and was reported incomplete is never served,
\* also when its STOREs arrive afterwards, unless its client had validated a quorum
\* of receipts and only the answers to FINALIZE_WRITE were missing.
THEOREM BelowQuorumIsHidden == Spec => []BelowQuorumStaysHidden
<1>1. ServedInv => BelowQuorumStaysHidden
  BY DEF ServedInv, ReadableServed, Served, Sent, BelowQuorumStaysHidden
<1> QED BY <1>1, ServedInit, ServedNext, PTL DEF Spec

-----------------------------------------------------------------------------
(* Two writers that compare-and-set the same generation. *)

\* Two quorums of one placement share a replica.
LEMMA QuorumsIntersect ==
  ASSUME NEW P, IsFiniteSet(P), NEW F \in Nat, Cardinality(P) <= F,
         NEW S \in SUBSET P, NEW T \in SUBSET P,
         Cardinality(S) + Cardinality(T) > F
  PROVE  S \cap T # {}
<1>1. IsFiniteSet(S) /\ IsFiniteSet(T) /\ S \cup T \in SUBSET P
  BY FS_Subset
<1>2. IsFiniteSet(S \cup T) /\ Cardinality(S \cup T) <= Cardinality(P)
  BY <1>1, FS_Subset
<1>3. Cardinality(S \cup T) = Cardinality(S) + Cardinality(T) - Cardinality(S \cap T)
  BY <1>1, FS_Union
<1>4. /\ Cardinality(P) \in Nat /\ Cardinality(S) \in Nat /\ Cardinality(T) \in Nat
      /\ Cardinality(S \cup T) \in Nat
  BY <1>1, <1>2, FS_CardinalityType
<1>5. ASSUME S \cap T = {} PROVE FALSE
  <2>1. Cardinality(S \cap T) = 0
    BY <1>5, FS_EmptySet
  <2> QED BY <1>2, <1>3, <1>4, <2>1
<1> QED BY <1>5

\* What two rivals require is more than the placement has twice over.
LEMMA RivalQuorums ==
  ASSUME NEW o \in Op, NEW p \in Op, Rivals(o, p)
  PROVE  RequiredWriteAcks(o) + RequiredWriteAcks(p) > Factor[o]
<1>1. ASSUME NEW n \in Nat \ {0} PROVE n \div 2 + 1 + n \div 2 + 1 > n /\ n \div 2 \in Nat
  BY <1>1
<1>2. Factor[o] \in Nat \ {0} /\ Factor[p] = Factor[o]
  BY WriteAssumption DEF Rivals
<1>3. /\ RequiredWriteAcks(o) \in {Factor[o] \div 2 + 1, Factor[o]}
      /\ RequiredWriteAcks(p) \in {Factor[o] \div 2 + 1, Factor[o]}
  BY <1>2, WriteAssumption DEF Rivals, RequiredWriteAcks
<1> QED BY <1>1, <1>2, <1>3

\* What every step but HandleStore leaves alone or only makes weaker.
LEMMA NoNewReceipt ==
  ASSUME WinnerInv, UNCHANGED receipts, lowered \subseteq lowered',
         \A r \in Replica \ lowered' : obj'[r].gen \in Int /\ obj[r].gen <= obj'[r].gen
  PROVE  ReceiptsPlaced' /\ ReceiptsFollow' /\ ReceiptsPast' /\ RivalsExclude'
<1>1. ReceiptsPlaced' /\ ReceiptsFollow'
  BY DEF WinnerInv, ReceiptsPlaced, ReceiptsFollow
<1>2. RivalsExclude'
  BY DEF WinnerInv, RivalsExclude, Rivals
<1>3. ReceiptsPast'
  <2> SUFFICES ASSUME NEW r \in Replica \ lowered', NEW o \in receipts[r]
               PROVE  Generation[o] <= obj'[r].gen
    BY DEF ReceiptsPast
  <2>1. Generation[o] <= obj[r].gen /\ o \in Op
    BY DEF WinnerInv, ReceiptsPast, TypeOK
  <2>2. Generation[o] \in Int /\ obj[r].gen \in Int
    BY <2>1, WriteAssumption, RowType DEF WinnerInv
  <2> QED BY <2>1, <2>2
<1> QED BY <1>1, <1>2, <1>3

LEMMA StoreKeepsWinner ==
  ASSUME WinnerInv, NEW q \in Replica, NEW p \in Op, HandleStore(q, p)
  PROVE  ReceiptsPlaced' /\ ReceiptsFollow' /\ ReceiptsPast' /\ RivalsExclude'
<1> DEFINE x == [op |-> p, data |-> p, gen |-> Generation[p], final |-> FinalAtOnce(p)]
<1>0. /\ TypeOK /\ ReceiptsPlaced /\ ReceiptsFollow /\ ReceiptsPast /\ RivalsExclude
      /\ q \in Placement[p] /\ AcceptsGeneration(q, p) /\ Put(q, x) /\ x.gen = Generation[p]
  BY DEF WinnerInv, SelectedPlaced, HandleStore
<1> HIDE DEF x
<1>1. /\ \A r \in Replica : r # q => receipts'[r] = receipts[r] /\ obj'[r] = obj[r]
      /\ receipts'[q] = receipts[q] \cup {p} /\ obj'[q] = x
      /\ lowered \subseteq lowered'
  BY <1>0 DEF HandleStore, Put, TypeOK
<1>2. Generation \in [Op -> Nat] /\ Expected \in [Op -> Nat \cup {-1}] /\ obj[q].gen \in Int
  BY <1>0, WriteAssumption, RowType
<1>3. ReceiptsPlaced'
  BY <1>0, <1>1 DEF ReceiptsPlaced
<1>4. ReceiptsFollow'
  BY <1>0, <1>1 DEF ReceiptsFollow, AcceptsGeneration
<1>5. q \notin lowered' => obj[q].gen <= Generation[p]
  BY <1>0, <1>2 DEF Put
<1>6. ReceiptsPast'
  <2> SUFFICES ASSUME NEW r \in Replica \ lowered', NEW o \in receipts'[r]
               PROVE  Generation[o] <= obj'[r].gen
    BY DEF ReceiptsPast
  <2>1. CASE r # q
    BY <1>0, <1>1, <2>1 DEF ReceiptsPast
  <2>2. CASE r = q /\ o = p
    BY <1>0, <1>1, <1>2, <2>2
  <2>3. CASE r = q /\ o # p
    <3>1. o \in Op /\ Generation[o] <= obj[q].gen
      BY <1>0, <1>1, <2>3 DEF ReceiptsPast, TypeOK
    <3> QED BY <1>0, <1>1, <1>2, <1>5, <2>3, <3>1
  <2> QED BY <2>1, <2>2, <2>3
<1>7. \A o \in receipts[q] : q \notin lowered => ~Rivals(o, p) /\ ~Rivals(p, o)
  <2> SUFFICES ASSUME NEW o \in receipts[q], q \notin lowered,
                      Expected[p] >= 0, Expected[o] = Expected[p]
               PROVE  FALSE
    BY DEF Rivals
  <2>1. o \in Op /\ Generation[o] <= obj[q].gen /\ Generation[o] = Expected[o] + 1
    BY <1>0 DEF ReceiptsPast, ReceiptsFollow, TypeOK
  <2>2. obj[q].gen = Expected[p]
    BY <1>0 DEF AcceptsGeneration
  <2> QED BY <1>2, <2>1, <2>2
<1>8. ~Rivals(p, p)
  BY DEF Rivals
<1>9. RivalsExclude'
  <2> SUFFICES ASSUME NEW r \in Replica \ lowered',
                      NEW o1 \in receipts'[r], NEW o2 \in receipts'[r]
               PROVE  ~Rivals(o1, o2)
    BY DEF RivalsExclude, Rivals
  <2>1. CASE r # q
    BY <1>0, <1>1, <2>1 DEF RivalsExclude
  <2>2. CASE r = q
    BY <1>0, <1>1, <1>7, <1>8, <2>2 DEF RivalsExclude
  <2> QED BY <2>1, <2>2
<1> QED BY <1>3, <1>4, <1>6, <1>9

LEMMA WinnerNext == WinnerInv /\ [Next]_vars => WinnerInv'
<1> SUFFICES ASSUME WinnerInv, [Next]_vars
             PROVE  /\ SelectedPlaced'
                    /\ ReceiptsPlaced' /\ ReceiptsFollow' /\ ReceiptsPast' /\ RivalsExclude'
  BY TypeNext DEF WinnerInv
<1>0. TypeOK /\ TypeOK' /\ \A r \in Replica : obj[r].gen \in Int
  BY TypeNext, RowType DEF WinnerInv
<1>1. SelectedPlaced'
  <2>1. ASSUME NEW o \in Op, StartStore(o) PROVE SelectedPlaced'
    BY <1>0, <2>1 DEF StartStore, WinnerInv, SelectedPlaced, TypeOK
  <2>2. CASE UNCHANGED selected
    BY <2>2 DEF WinnerInv, SelectedPlaced
  <2> QED
    BY <2>1, <2>2 DEF Next, Write, Repair, vars, client, HandleStore, CollectReceipts,
       HandleFinalize, CollectFinalized, DeleteObject, ScanRepairJobs, ClaimRepairJob,
       PrepareRepair, AdmitPull, HandlePull, FinishRepairJob
<1>2. CASE \E o \in Op, q \in Replica : HandleStore(q, o)
  BY <1>1, <1>2, StoreKeepsWinner
<1>3. ASSUME NEW q \in Replica, NEW x, Put(q, x), x.gen \in Int, UNCHANGED receipts
      PROVE  ReceiptsPlaced' /\ ReceiptsFollow' /\ ReceiptsPast' /\ RivalsExclude'
  <2>1. lowered \subseteq lowered'
    BY <1>3 DEF Put
  <2>2. \A r \in Replica \ lowered' : obj'[r].gen \in Int /\ obj[r].gen <= obj'[r].gen
    BY <1>0, <1>3 DEF Put, TypeOK
  <2> QED BY <1>3, <2>1, <2>2, NoNewReceipt
<1>4. ASSUME NEW q \in Replica, NEW o \in Op, HandleFinalize(q, o)
      PROVE  ReceiptsPlaced' /\ ReceiptsFollow' /\ ReceiptsPast' /\ RivalsExclude'
  <2>1. \A r \in Replica : obj'[r].gen = obj[r].gen
    <3> SUFFICES ASSUME NEW r \in Replica PROVE obj'[r].gen = obj[r].gen
      OBVIOUS
    <3>1. obj[q] \in [op : Op \cup {NoOp}, data : Op, gen : Nat, final : BOOLEAN]
      BY <1>0, <1>4, WriteAssumption, NoObjType DEF HandleFinalize, TypeOK
    <3>2. obj' = [obj EXCEPT ![q] = [obj[q] EXCEPT !.final = TRUE]]
      BY <1>4 DEF HandleFinalize
    <3>3. CASE r = q
      BY <1>0, <3>1, <3>2, <3>3 DEF TypeOK
    <3>4. CASE r # q
      BY <1>0, <3>2, <3>4 DEF TypeOK
    <3> QED BY <3>3, <3>4
  <2>2. UNCHANGED <<receipts, lowered>>
    BY <1>4 DEF HandleFinalize
  <2> QED BY <1>0, <2>1, <2>2, NoNewReceipt
<1>5. ASSUME NEW q \in Replica, DeleteObject(q)
      PROVE  ReceiptsPlaced' /\ ReceiptsFollow' /\ ReceiptsPast' /\ RivalsExclude'
  <2>1. NoObj.gen \in Int
    BY SMT DEF NoObj
  <2> QED BY <1>3, <1>5, <2>1 DEF DeleteObject
<1>6. ASSUME NEW j \in Job, HandlePull(j)
      PROVE  ReceiptsPlaced' /\ ReceiptsFollow' /\ ReceiptsPast' /\ RivalsExclude'
  <2> DEFINE x == [op |-> NoOp, data |-> j.data, gen |-> 0, final |-> TRUE]
  <2>1. j.target \in Replica /\ x.gen \in Int
    BY WriteAssumption DEF Job
  <2>2. Put(j.target, x) /\ UNCHANGED receipts
    BY <1>6 DEF HandlePull
  <2> HIDE DEF x
  <2> QED BY <1>3, <2>1, <2>2
<1>7. CASE UNCHANGED <<obj, receipts, lowered>>
  BY <1>0, <1>1, <1>7, NoNewReceipt
<1> QED
  BY <1>1, <1>2, <1>4, <1>5, <1>6, <1>7 DEF Next, Write, Repair, vars, StartStore,
     CollectReceipts, CollectFinalized, ScanRepairJobs, ClaimRepairJob, PrepareRepair,
     AdmitPull, FinishRepairJob

LEMMA WinnerInit == Init => WinnerInv
BY TypeInit DEF Init, WinnerInv, SelectedPlaced, ReceiptsPlaced, ReceiptsFollow,
   ReceiptsPast, RivalsExclude

\* Of two writers that expect the same generation at most one gets its quorum, for
\* every placement, factor and interleaving, unless a replica both wrote to was set
\* back to an older generation by a deletion, a repair or an unconditional write.
THEOREM OneWinner == Spec => []OneWinnerPerGeneration
<1>1. WinnerInv => OneWinnerPerGeneration
  <2> SUFFICES ASSUME WinnerInv, NEW o \in Op, NEW p \in Op,
                      Rivals(o, p), HasQuorum(o), HasQuorum(p)
               PROVE  \E r \in lowered : {o, p} \subseteq receipts[r]
    BY DEF OneWinnerPerGeneration
  <2>1. Holders(o) \subseteq Placement[o] /\ Holders(p) \subseteq Placement[o]
    BY DEF WinnerInv, ReceiptsPlaced, Holders, Rivals
  <2>2. /\ IsFiniteSet(Placement[o]) /\ Factor[o] \in Nat
        /\ Cardinality(Placement[o]) <= Factor[o]
    BY WriteAssumption, FS_Subset
  <2>3. /\ Cardinality(Holders(o)) >= RequiredWriteAcks(o)
        /\ Cardinality(Holders(p)) >= RequiredWriteAcks(p)
    BY DEF HasQuorum, Holders
  <2>4. Cardinality(Holders(o)) + Cardinality(Holders(p)) > Factor[o]
    BY <2>2, <2>3, RivalQuorums, HoldersFinite, AcksType
  <2>5. PICK r \in Holders(o) \cap Holders(p) : TRUE
    BY <2>1, <2>2, <2>4, QuorumsIntersect
  <2>6. r \in Replica /\ {o, p} \subseteq receipts[r]
    BY <2>5 DEF Holders
  <2>7. r \in lowered
    BY <2>6 DEF WinnerInv, RivalsExclude
  <2> QED BY <2>6, <2>7
<1> QED BY <1>1, WinnerInit, WinnerNext, PTL DEF Spec
=============================================================================
