# A TLA+ model of NDN Service Framework

NDN Service Framework (NDNSF) lets users call services of providers over Named
Data Networking. A user publishes a Request, providers answer with ACKs that
carry one-time ProviderTokens, the user publishes a Selection that redeems one
of them, and the selected provider executes and responds. Distributed inference
(DI) runs one request on several providers at once and reserves their capacity
with execution leases. The distributed repository (Repo) keeps objects and large
artifacts on several nodes, as a service of the framework.

This directory models the parts of that system where authority is granted,
consumed and given back (the lease table, the DI transaction over several
tables, the durable store of Selection transactions, the provider's pending
requests and tokens) and the parts of the repository where data must survive
crashes and concurrency (a node's artifact store, replicated writes and their
repair). TLC checks them on small instances; TLAPS proves every safety property
that the passing runs check for all values of the constants (section 5 states
the hypotheses of those that need one). `PROJECT.json` links every definition to
the lines it models.

## 1. Inventory

| Component | State | Operations | Interaction |
|---|---|---|---|
| `ExecutionLease.cpp` | leases, remembered results, FIFO waiters per conflict key, epoch | prepare, commit, validateAndActivate, validate, abort, renew, release, cleanupExpired | called by lease services and provider handlers on any thread; one mutex |
| `deployment.py`, `ExecutionLeaseService.cpp`, `NativeProviderHandler.cpp` | the user's prepared and committed leases; completed roles per lease | acquire (prepare-all, commit-all, retry), cleanup, run, release; handle; activate and complete a role | secured targeted calls, retried by the transport |
| `GenericSelectionTxnStore.cpp` | records, owners of tokens, identities and leases, validation marks, encrypted log | commit, tombstone, findCommitted, replayCommitted, load | called by ServiceProvider when a Selection carries an opaque payload |
| `ServiceProvider.cpp` | pending requests, tokens, replay memory, cleanup deadlines, in-flight decryptions, R1 decisions, deployments, outstanding executions | request, ACK decision, Selection, expiry, execution, response | event loop, ACK and handler pools, timers, SVS messages |
| `ServiceUser.cpp` | pending calls, collected ACKs, selections, timeouts, admission | call, ACK, selection, response, timeout | event loop, SVS messages |
| `Stream.cpp`, `StreamFacade.cpp` | sessions, windows, buffers | open, chunk, pull, close | over ServiceUser and ServiceProvider |
| `ServiceController.cpp`, `CertificateBootstrap.cpp` | policies, epochs, bootstrap tokens | permission and certificate requests | Interests and Data |
| DI native runtime (`cpp/ndnsf-di`) | dependency waits, role queues, attempts | wait, notify, schedule, complete | provider handler threads |
| DI Python core (`core/`) | conflict coordination, recovery, lifecycle | plan, reserve, recover | user side |
| Repo artifact store (`persistence.py`, `artifact_lifecycle.py`, `network_artifact_backend.py`) | staged and finalized payload files; SQLite lifecycle journal, transfer sessions, reservations, finalization journal, receipts, catalog, collector claims | upload sessions, STORE assignments, finalize in four durable steps, rollback, collect, start-up reconciliation | two locks (payload, metadata), never held across both except by the collector |
| Repo replicated writes (`orchestration.py`) | per replica: object row with generation, durable receipts, own catalog, repair jobs; per client: selected and confirmed replicas | STORE, FINALIZE_WRITE, DELETE, repair scan, claim, pull, finish | targeted calls with a deadline and a fallback that sends them again |
| Repo catalog gossip, hot cache, fetch paths | soft state over the rows | merge, sync, admit, fetch | sync thread, four handler threads |
| Python wrapper, UAV application | bindings, application state | | over the framework |

What is hard in this code: handlers of one request run on the event loop, on
ACK and handler pools and in timers, with maps read before a hop and written
after it; messages are duplicated, late or lost; several deadlines bear on the
same state; the Selection store writes a log in steps that can fail separately;
lease transactions span providers that restart; the artifact store updates files
and five tables that no transaction covers together; repository writes meet late
requests, rival writers and repair. The hazards in `PROJECT.json`
name the lines.

What makes the parts correct:

- lease table: conflict keys are exclusive, waiters are served in order, no
  operation revives a dead lease, an old epoch authorises nothing, capacity
  comes back;
- lease transaction: a partial commit is never executed, an ended transaction
  holds nothing, and contending users end;
- Selection store: a token, identity or lease belongs to one committed
  transaction, which is committed once and stays committed;
- provider requests: a token authorises one execution, a token that lapsed is
  dead, pending state is always scheduled for removal and removed;
- artifact store: a receipt means readable bytes, for ever; the durable records
  agree after any crash; an interrupted finalization is carried through; the
  collector takes nothing that is in use; staged bytes are paid for;
- replicated writes: what is readable reached its quorum, a write whose client
  found its receipts below the quorum stays hidden, and of two writers for one
  generation one wins.

## 2. Modules

| Module | Models | Notes |
|---|---|---|
| `LeaseTable` | `ProviderExecutionLeaseTable` as pure operators `(table, now, arguments) -> [table, reply]` | shared by the next two modules |
| `ExecutionLease` | one table, its callers, the clock and restarts | one action per member function |
| `ExecutionLeaseProofs` | theorems about `ExecutionLease` | TLAPS |
| `LeaseTransaction` | users' transactions over one `LeaseTable` per provider | composes `LeaseTable` |
| `LeaseTransactionProofs` | theorems about `LeaseTransaction` | TLAPS |
| `SelectionTxnStore` | `GenericSelectionTxnStore` | one action per critical section of `commit` |
| `SelectionTxnStoreProofs` | theorems about `SelectionTxnStore` | TLAPS |
| `ProviderRequests` | `ServiceProvider`'s request, token and cleanup state | one action per event-loop handler |
| `ProviderRequestsProofs` | theorems about `ProviderRequests` | TLAPS |
| `ArtifactPromise` | what a Repo node promises about an artifact operation | abstract specification |
| `ArtifactStore` | one node's artifact store, its drivers, crash and recovery | one action per database transaction or payload-store call; implements `ArtifactPromise` |
| `ArtifactStoreProofs` | theorems about `ArtifactStore`, the refinement among them | TLAPS |
| `RepoWrite` | replicated writes of one object and their repair | one action per handler and per client decision |
| `RepoWriteProofs` | theorems about `RepoWrite` | TLAPS |
| `MC*` | instances for TLC | |

Definitions with an underscore suffix (`MustWait_IgnoresQueue`) are the faults
that show each property can fail; nothing else uses them.

### Lease table

Every member function holds `m_mutex`, so a call is one step. A request stands
for requester, request id and service, which is also the waiter key; a plan for
plan digest and binding. The deque of a conflict key holds no request twice and
is modelled as the total order of its members, which makes FIFO provable without
induction over sequences. `ExecutionLease` lets clock readings lag by `MaxLag`,
because callers read the time before they get the mutex.

### Lease transaction

`txn[q].pc` walks through `acquire` (`preparing`, `committing`, on failure
`cleaning`, then `sleeping` and a new attempt, or `failed`), `execute`
(`executing`) and `release` (`releasing`, `done`). `Send` and `OnReply` are the
two ends of `_call`; `Handle` is `ExecutionLeaseService::handle` at the
provider. The transport retries, so a copy of a request may be handled twice or
after the user gave up, and replies may be lost (`MaxFaults` bounds this).
`StartRole` and `EndRole` are the collaboration handler's activation and
`completeExecutionLease`. All requests compete for one slot per provider. The
case of one provider that holds the whole plan (`completedLocalPlan`) is left
out, as is the user process dying.

### Selection store

`commit` is entered (`entering`), waits for a duplicate (`joining`), runs the
participant's callback outside the lock (`preparing`), and ends in the section
that writes (`committing`) or in an abort (`aborting`, `rejecting`). The log is a
sequence of frames. An append fails with nothing written, and, in the runs that
enable it (`WriteFaults`), with a torn frame or with a whole frame that was not
synced. A crash may also cut an append. `told` and `commits` are history.

### Provider requests

For each request key the model keeps whether it is remembered, pending, selected
or being decrypted, and its token. Cleanup follows the code: a provisional
horizon, an authoritative one set by the ACK decision, a first timer that looks
at the deadline and a second one that does not. Time is relative (deadlines hold
the ticks that remain), so there is no last instant. ProviderTokens are random in
the code and numbered here, hence never equal. An ACK decision and a Selection's
decryption may complete at any later time.

### Artifact store

An operation is an upload session (`Kind` `"reserved"` or `"assigned"`) or a STORE
assignment (`"network"`). Files hold sets of chunks; a digest check is the test
that all chunks are there. A lease is its number, and `lapsed` the last number
that has expired, so every comparison of an expiry with the clock may turn over
at any moment, also between reading the lease and using it. `pc[o]` is the next
step of the thread that drives `o`; the same steps are taken by the drivers and
by `reconcile_finalizations`. Methods that fail leave the thread idle, as an
exception does. The collector holds the metadata lock while it deletes a staging
file (`DbFree`), and the payload store stays usable meanwhile, as in the code.
`Crash` loses unflushed staged bytes and all memory.

`ArtifactPromise` has three sets: certified, visible and dropped operations. The
refinement mapping takes as certified the receipts whose finalized file is whole,
as visible the catalogued ones with a whole file, as dropped the rolled-back ones.
That the mapped specification holds says, among others, that a certified artifact
never loses its bytes, that a rollback never meets a receipt, and that what is
certified becomes visible unless its name is taken. `rollback_finalization` has no
caller in the repository; `CallerOwns` states the use the model allows.

### Replicated writes

The model follows one object. A request once sent may be handled at any later
time and any number of times, which covers loss, delay, reordering and the
fallback's second copy; the client's deadlines are `CollectReceipts` and
`CollectFinalized`, which may look at fewer answers than exist. A handler holds
the object lock and one transaction, hence is one step; `Remember` is the catalog
update after it, which a crash loses. `lowered` is history: replicas whose
generation was ever set back, by DELETE, by repair or by an unconditional write.
Both errors of a client are `"incomplete"`, because it gets one
`RepoIncompleteWriteError` for receipts below the quorum and for a finalization that
nobody answered; `confirmed`, the receipts it validated, tells them apart.

Repair jobs are durable rows of the target; peers' catalogs are taken as current,
except that the target may not know its own copy and that a peer may advertise a
staged row it has not listed (`_catalog_lookup`). A stale advertisement adds
nothing, since a job may wait as long as it likes. A pull is authorized when its
handler starts (`AdmitPull`) and stored after the packets were fetched (`HandlePull`),
when the job need not run any more; as any number of copies may be under way, one
that was admitted stands for all. Operation records are cleaned
up beyond 4096 entries in the code and never in the model.

## 3. Runs

| Run | Instance | Shows |
|---|---|---|
| `lease_queue` | 3 requests, 2 keys in any combination | types, exclusivity, FIFO, no ghost waiters |
| `lease_restart` | every operation, 2 epochs, caller-supplied lease ids, reused idempotency keys, lagging clocks | old epochs are powerless, honest replays, lifecycle order, capacity is reclaimed |
| `txn_concurrent` | 2 callers, 2 transactions sharing references, crash | types, single consumption, one projection, no stuck validation |
| `txn_serialized` | 1 caller, 2 crashes, a shared lease | durability, final ownership |
| `requests_one_key` | 1 key, up to 3 tokens, 2 jobs of each kind, admission limit 1 | types, one use per token, lapsed tokens stay dead, one timer, horizon kept, eventual cleanup |
| `transaction_faults` | 1 user, 2 providers, 2 faults, a restart of each provider | no partial execution |
| `transaction_crossed` | 2 users, opposite orders, 1 fault | types, both end, nothing is left behind |
| `artifact_mixed` | an upload and an assignment with different bytes under one name, room for two, 1 crash | types, staged bytes are reserved, `ArtifactPromise` is implemented, intents settle |
| `artifact_shared` | an upload and an assignment of the same bytes under two names, room for one, renewed leases, 1 crash | the records agree, the collector spares live uploads |
| `repo_writers` | 3 replicas, a first write and two rivals for the next generation, 1 repair job, 1 deletion, pull or crash | types, readable means quorum, below the quorum means hidden, one winner |

Bounds: two reservations and one key show every conflict that the table's
pairwise rules can have; three requests are the fewest for overtaking; two keys
the fewest for waiting on several queues. `lease_restart` has one plan, because
none of its properties tells plans apart; the theorems of section 5 cover any
number. `lease_queue` has no renewals or releases; that keys stay exclusive
under them is `ConflictKeysAreExclusive`. Two attempts, two boots and two or
three ticks let every deadline pass both before and after the step that it races
with. `MaxTokens`, `MaxJobs` and `MaxFrames` only stop new work and cut no
started operation short. Deadlock is checked except in the store and transaction
runs, where everybody may be finished. `transaction_crossed` assumes prompt
calls (`Prompt`: time waits for calls in progress), which keeps the state graph
small enough for liveness; `transaction_faults` does not.

Two artifact operations are the fewest that share a name, a staging file or the
last free capacity, and one crash falls between any two steps of either. One chunk
is enough because a file matters only as absent, incomplete or whole, and all
three occur. A lease may lapse anywhere, so one is enough except for renewals;
`artifact_shared` has two. In `repo_writers`
three replicas are the fewest where a majority is not everyone; all rows, receipts
and messages of three writes are free, and the theorems of section 5 lift the
bounds. Deadlock is off in the repository runs: a finished or given-up write has
nothing more to do.

With opposite orders both transactions may fail: each waiter queue gives the
other user the turn, so neither passes its first provider. They fail closed after
their capacity wait, which is what specs/087 FR-008 asks. The shipped user driver
sorts its providers.

### Disagreements between the code and its documents

Two runs are expected to fail; `PROJECT.json` quotes the text.

| Run | What happens |
|---|---|
| `txn_unsynced` | a frame whose fsync failed is recovered as committed beside another owner of its token |
| `repo_replay` | a repeated STORE_PACKET_PULL puts old bytes in the place of a newer finalized write |

Others are behaviours of the models without a run of their own:

- A failed key fetch reports to nobody (`onError` has been moved away), and the
  Selection stays marked as being decrypted until cleanup (`OnKeyError`).
- An ACK TTL below the provisional 30 s moves the deadline and not the timer, so a
  token outlives the TTL its ACK set (`schedulePendingRequestCleanup`).
- A second role of a provider that starts in a later millisecond is refused,
  because the deadline is part of the activation's fingerprint (`StartRole`).
- RENEW accepts an earlier expiry, where the lease contract says "later".
- A failed caller of the Selection store appends ABORTED after it has cleared its
  validation mark, so with concurrent callers the record may replace a retry's
  COMMITTED one (ServiceProvider calls the store under `m_pendingRequestMutex`,
  which excludes this). A partial write is not truncated, so later commits stand
  behind a torn frame and recovery cuts them off.
- A retried STORE assignment carries a new commit time and conflicts with its own
  intent until the next start-up (`BeginFinalization`).
- A crash between the COMPLETED checkpoint and VERIFIED strands an upload with its
  reservation.
- A client that gets no answer to FINALIZE_WRITE reports the write incomplete with
  the same error as below the quorum, although its bytes may be readable at that
  time or become so when a late request is handled (`CollectFinalized`).
  `BelowQuorumStaysHidden` says exactly when an incomplete write can be readable.
- A write below its quorum leaves its generation staged on some replicas, where a
  later writer that expects the previous one is refused, although specs/077 says
  that it can commit.

## 4. Fairness

- `ExecutionLease`: time passes and the table is eventually swept (every
  operation sweeps first). Callers are never assumed to act.
- `SelectionTxnStore`: threads inside `commit` run on, because the participant's
  prepare is bounded by `maxPrepareTime`, and a dead process is restarted. The
  join timeout is not assumed.
- `ProviderRequests`: time passes and the event loop runs due timers. Nothing is
  assumed of requesters, ACK handlers or decryptions.
- `LeaseTransaction`: time passes, user threads run (each call ends with a reply
  or with its timeout, `execute` has its own timeout), and assigned roles start
  and end.
- `ArtifactStore`: a stopped process is restarted and its reconciliation runs, the
  collector finishes what it holds the lock for, and a finalization that has
  begun runs on (strong fairness: a thread waiting for the metadata lock gets it if
  it is free again and again). Nobody is assumed to open, feed or renew a session.
- `RepoWrite`: the client's two deadlines fire. Its checked properties are safety
  properties and need none of this.

## 5. Proofs

Every theorem holds for all values of the constants that satisfy the named
assumptions of the module; the hypotheses some of them need beyond these are in
their statements and below. The inductive invariants were checked with TLC, on
the instances of the runs, before they were proved.

| Module | Theorem | States |
|---|---|---|
| `ExecutionLeaseProofs` | `TypeCorrect` | `TypeOK` |
| | `ConflictKeysAreExclusive` | `ConflictKeysExclusive` |
| | `LeasesFollowTheLifecycle` | `LifecycleOrder` (action property) |
| | `WaitersKeepTheirTurn` | `NoOvertaking` (action property) |
| | `RepliesAreCurrent` | `RepliesReportCurrentState` |
| | `OldEpochsHaveNoAuthority` | `OldEpochHasNoAuthority` |
| | `IdleCapacityIsAlwaysGranted` | `IdleCapacityIsGranted` |
| `LeaseTransactionProofs` | `TypeCorrect` | `TypeOK` |
| | `PartialCommitIsNeverExecuted` | `PartialCommitNeverExecutes` |
| | `NothingIsLeftBehind` | `NothingLeftBehind` |
| `SelectionTxnStoreProofs` | `TypeCorrect` | `TypeOK` |
| | `ReferencesAreConsumedOnce` | `ReferenceCommittedOnce`, no unsynced frame |
| | `CommitsOnce` | `CommittedAtMostOnce`, no write fault |
| | `SuccessIsExact` | `SuccessIsForOneSelection`, no write fault |
| | `OwnershipIsFinal` | `OwnersAreFinal` (action property), no write fault |
| | `CommitsAreDurable` | `CommittedIsDurable`, no write fault, one caller |
| `ProviderRequestsProofs` | `TypeCorrect` | `TypeOK` |
| | `TokensAreOneTime` | `TokenConsumedOnce` |
| | `LapsedTokensStayDead` | `LapsedTokenStaysDead` |
| | `CleanupIsScheduled` | `PendingIsScheduled` |
| | `HorizonIsKept` | `RequestKeepsItsHorizon` (action property) |
| `ArtifactStoreProofs` | `TypeCorrect` | `TypeOK` |
| | `JournalsAlwaysAgree` | `JournalsAgree` |
| | `ImplementsPromise` | `Spec => Promise!Safety`, the refinement without its fairness |
| | `StagedBytesAreReserved` | `StagedIsReserved` |
| | `CollectorIsCareful` | `CollectorSparesLiveUploads` (action property), one reserved upload per generation |
| `RepoWriteProofs` | `TypeCorrect` | `TypeOK` |
| | `ReadableHasQuorum` | `FinalizedHasQuorum` |
| | `BelowQuorumIsHidden` | `BelowQuorumStaysHidden` |
| | `OneWinner` | `OneWinnerPerGeneration` |

### Lease table

The inductive invariant is `LeaseInv == TypeOK /\ ConflictKeysExclusive`.
Exclusivity alone is not inductive: an operation that updates a stored lease
needs to know that the update keeps its keys, and a replay that its lease exists,
which `TypeOK` says. The argument has a layer per level of the model: lemmas on
`cleanupExpiredLocked`, `pruneWaiters`, `Admit` and `OnLease` state what each does
to a well-formed table (expiry only removes active leases; `Admit` is reached
only when no active lease has one of the keys), one lemma per operation follows
from them, and the step lemma has one case per action. The action properties
use the same lemmas on the table before and after a step.

`OldEpochsHaveNoAuthority` needs `EpochInv`, which adds `EpochBound`: a replay is
looked up before the epoch is compared, so it must be known that every operation
on a lease that the table remembers named the table's epoch.

### Lease transaction

`PartialCommitNeverExecutes` follows from `TransactionInv`. Its core is
`ExecutesPast` (a lease executes only for a transaction that is past `acquire`)
and `CommitsGranted` (what the user counts as committed was granted, and so was
what an unread COMMIT reply reports). To preserve the second, the reply a user
reads must belong to the call of its position (`CallOK`), whatever copies of older
calls are handled meanwhile. Of the table only one thing matters: `handle` never
starts an execution, and an activation starts that of its own request
(`HandleTable`, `ActivateTable`).

`NothingLeftBehind` follows from `LeftInv`: without faults every active lease is on
its user's list, at an index that the user will still end with the operation its
state needs, or named by the reply it has yet to read (`Accounted`). A call that
ends a lease may be refused because of its idempotency key; `LogOK` shows that the
lease has then ended already. RELEASE is right for the first `committed` leases
because they are no longer Prepared, ABORT for the others because
`ExecutesPast` excludes that one executes. The assumption that no call has an
empty idempotency key is the code's: `_key` starts with the operation's name. Uniqueness
of lease ids is not needed.

### Selection store

`TypeInv` adds to the types that a transaction is being validated exactly while one
caller works on it (`Marks`). `LogInv` is about the log and not the records, because a
tombstone or an abort hides a committed frame that the log still has: no two
committed frames share a reference, the running store knows the owner of what they
consume, and a committed record has its frame. `HistoryInv` adds that
every promise of the store (an owner, a success told, a commit counted) is a
committed frame, and that only a crash tears the last one. `DurableInv` adds that
no caller works on a transaction with a committed frame, so nothing but tombstones
follows that frame and the running store keeps its record.

The hypotheses are where the properties really end. `ReferenceCommittedOnce` fails
when a frame survives whose sync failed (`txn_unsynced`); a torn frame is harmless
for it. The other properties also need that writes do not fail half-way, because a
torn frame hides the frames behind it from recovery. `CommittedIsDurable` is proved
for one caller, which is how ServiceProvider uses the store (under
`m_pendingRequestMutex`). `TransactionNamesSelection` assumes that transactions of
equal id have equal selection digests: ServiceProvider derives one from the
other. Without it, and with two callers, a late ABORTED record can replace a
COMMITTED one, a retry erases that, and another selection commits under the same
id.

### Provider requests

`TokenInv`: a token is held by one request until it is used or lapses, what is held
or not yet issued is unused, and nobody holds a lapsed one. `CleanupInv` describes the schedule of a pending request: exactly one
timer, and its deadline differs from the first timer only after an authoritative
ACK; without this a step of the first timer could not be shown to leave a second
one behind.

### Artifact store

`JournalInv` explains why the durable records agree although no transaction
covers them: an upload is VERIFIED only with a COMPLETED session, which no later
checkpoint overwrites (`VerifiedIsComplete`), a rollback owns its operation and its
bytes until the files have gone (`RollbackOwns`), only finalizations are replayed
before the process is up (`ReplayOnly`), and no finalization begins under a claim of
the collector (`ClaimsAreHeld`).
`StoreInv` adds that a finalized payload stays until its operation is rolled back
(`Finalized`), from which every step maps to a step of `ArtifactPromise` or to a stutter. `ReservationInv` relates
each staged file of a reserved upload to a reservation that pays for it. `CollectorIsCareful` assumes that no two
reserved uploads share a generation (`OneReservation`): the code's protection
lookup reads one row (`LIMIT 1`), and with two the collector may look at the wrong
one.

### Replicated writes

`ReadableHasQuorum` and `BelowQuorumIsHidden` follow from `ServedInv`.
`FinalizedHasQuorum` is not inductive:
a pull makes bytes readable at a place that never gave a receipt, so the quorum
must already be known when the pull is sent (`PullsServed`), which in turn comes
from the readable source it was prepared from; FINALIZE_WRITE relies on the client's list
(`ConfirmedHolds`) and on the row being that write's own (`RowsAreWrites`). The
argument needs that receipts only grow and that a client never goes back from
having validated a quorum (`ReceiptsGrow`, `SentPersists`; the error after an
unanswered finalization keeps the validated receipts), hence `Served` persists.
`OneWinner` follows from `WinnerInv` and the intersection of quorums of one
placement (`QuorumsIntersect`, by cardinalities): at a replica that was never set
back, every receipt's generation is at most the row's (`ReceiptsPast`), so after one
rival was accepted the other's expected generation can no longer match. The
assumptions are `WriteAssumption`: finite replicas, placements no larger than the
factor.

### Only model-checked

Liveness is outside the prover's reach: `CapacityIsReclaimed`, `ValidationEnds`,
`PendingIsCleaned`, `TransactionEnds`, `IntentsSettle`, and the fairness part of
`KeepsPromise` (its safety part is `ImplementsPromise`). The two runs that expect a
violation are counterexamples and have no theorem.

## 6. Not modelled

Cryptography, certificates and message encoding (a decryption succeeds or
fails), telemetry and traces, planners and model execution, the applications,
the experiments and their plotting. Parts of ServiceProvider are missing: R1
decisions, deployment READY and ACTIVATE, targeted requests, responses. The
thread pool runs tasks in the caller and adds no behaviour. Of the repository:
catalog gossip and its epochs, the hot cache, fetch paths, writes packet by
packet (`store_signed_packets`: STORE_PACKET_BATCH and COMMIT_PACKET_SET) and
STORE_MANIFEST, schema migration, the unjournaled legacy commit, `store_object`,
and the locks inside a handler (the order of `_db_lock` and `_catalog_lock`
differs between threads; see the hazards). Most of the repository's lines are
experiments, GUIs, planners and model code without protocol state.

## 7. Plan

1. Done, with proofs: `LeaseTable` and `ExecutionLease`; `SelectionTxnStore`;
   `ProviderRequests`; `LeaseTransaction`; `ArtifactStore` implementing
   `ArtifactPromise`; `RepoWrite`.
2. `UserCalls` (ServiceUser's pending calls, ACK windows, selection, timeouts),
   then a composition with `ProviderRequests` over an unreliable network, and an
   abstract at-most-once invocation that it implements.
3. Extend `ProviderRequests`: R1 reservations, opaque Selections through
   `SelectionTxnStore`, targeted tokens, outstanding-execution counters.
4. Repository: thread locks of a node, catalog epochs and gossip.
5. DI runtime: `DependencyWaitScheduler`, `ProviderRoleWorker`, execution attempts.
6. Controller: policy epochs, bootstrap tokens. Streams: session lifecycle.
7. Proofs of what these add; the safety properties of the present modules are proved.
