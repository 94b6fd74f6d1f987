------------------------- MODULE SelectionTxnStore -------------------------
(***************************************************************************)
(* GenericSelectionTxnStore: the provider's durable record of which        *)
(* Selection transaction consumed which ProviderToken, Selection identity  *)
(* and lease.  commit() runs in several critical sections of m_mutex with  *)
(* the participant's prepare callback between them; the write-ahead log    *)
(* outlives the process, everything else is rebuilt from it by load().     *)
(***************************************************************************)
EXTENDS Naturals, Sequences, FiniteSets, Functions

CONSTANTS
  Callers,      \* threads that may be inside commit()
  Contexts,     \* authenticated Selection contexts that callers may present
  NoLease,      \* leaseRecordRef is absent
  WriteFaults,  \* how a failed append may leave the log: subset of {"torn", "unsynced"}
  MaxFrames,    \* bound: calls start while the log is shorter than this
  MaxBoots      \* bound: process starts

ASSUME SelectionTxnAssumption ==
  /\ Contexts \subseteq [txn : {x.txn : x \in Contexts}, token : {x.token : x \in Contexts},
                         sel : {x.sel : x \in Contexts}, payload : {x.payload : x \in Contexts},
                         lease : {x.lease : x \in Contexts}]
  /\ WriteFaults \subseteq {"torn", "unsynced"}
  /\ MaxFrames \in Nat /\ MaxBoots \in Nat \ {0}

\* The provider derives transactionId from the digest of the Selection, which is
\* also its selectionIdentity (ServiceProvider::OnServiceSelectionMessageDecryptionSuccessCallbackV2).
ASSUME TransactionNamesSelection == \A x, y \in Contexts : x.txn = y.txn => x.sel = y.sel

VARIABLES
  records,     \* m_records: transaction -> last frame
  owners,      \* m_tokenOwners, m_selectionOwners, m_leaseOwners, by tagged reference
  validating,  \* m_validatingTransactions: transaction -> fingerprint
  wal,         \* the frames in the file, in order
  call,        \* each caller's position inside commit()
  up,          \* the process runs
  boots,       \* process starts so far
  expired,     \* transactions whose deadline has passed
  told,        \* history: contexts whose commit() returned a committed view
  commits      \* history: transactions' fresh commits, each projected once

vars == <<records, owners, validating, wal, call, up, boots, expired, told, commits>>
memory == <<records, owners, validating>>
history == <<told, commits>>

Txns == {x.txn : x \in Contexts}
Torn == [state |-> "Torn"]   \* a frame cut short

Refs(x) ==
  {<<"token", x.token>>, <<"selection", x.sel>>}
    \cup (IF x.lease = NoLease THEN {} ELSE {<<"lease", x.lease>>})

Fingerprint_NoPayload(x) == <<x.sel, x.token>>

\* validationFingerprint; the lease reference is not part of it.
Fingerprint(x) == <<x.payload, x.sel, x.token>>

Frame(state, x) == [state |-> state, ctx |-> x]

Put(f, k, v) == [i \in DOMAIN f \cup {k} |-> IF i = k THEN v ELSE f[i]]

SameAs(state, x) ==
  /\ x.txn \in DOMAIN records
  /\ records[x.txn].state = state
  /\ Fingerprint(records[x.txn].ctx) = Fingerprint(x)

OwnedByOther(x) == \E r \in Refs(x) \cap DOMAIN owners : owners[r] # x.txn
Owned(x) == Refs(x) \cap DOMAIN owners # {}

Idle == [pc |-> "idle"]
At(c, pc) == up /\ call[c].pc = pc
Goto(c, pc) == call' = [call EXCEPT ![c].pc = pc]
Return(c) == call' = [call EXCEPT ![c] = Idle]

Init ==
  /\ records = <<>> /\ owners = <<>> /\ validating = <<>> /\ wal = <<>>
  /\ call = [c \in Callers |-> Idle]
  /\ up = TRUE /\ boots = 1 /\ expired = {}
  /\ told = {} /\ commits = [t \in Txns |-> 0]

-----------------------------------------------------------------------------
\* appendRecord: open, write and fsync one frame.  A failure throws, having
\* written nothing, part of the frame, or all of it without a successful fsync.
Writes(frame) ==
  {[ok |-> TRUE, tail |-> <<frame>>], [ok |-> FALSE, tail |-> <<>>]}
    \cup {[ok |-> FALSE, tail |-> IF f = "torn" THEN <<Torn>> ELSE <<frame>>] : f \in WriteFaults}

\* commit's argument and deadline checks; live stands for providerTokenStillLive
\* and, when there is a lease, leaseStillLive.
Call(c) ==
  /\ At(c, "idle") /\ Len(wal) < MaxFrames
  /\ \E x \in Contexts, live \in BOOLEAN :
       /\ x.txn \notin expired
       /\ call' = [call EXCEPT ![c] = [pc |-> "entering", ctx |-> x, live |-> live]]
  /\ UNCHANGED <<memory, wal, up, boots, expired, history>>

\* The records after the entry loop: an exact ABORTED record is erased.
Entered(x) == IF SameAs("Aborted", x) THEN Restrict(records, DOMAIN records \ {x.txn}) ELSE records

Conflicts(x) == x.txn \in DOMAIN records /\ ~SameAs("Aborted", x) /\ ~SameAs("Committed", x)
Validating(x) == x.txn \in DOMAIN validating

ReturnExisting(c) ==
  /\ At(c, "entering") /\ SameAs("Committed", call[c].ctx)
  /\ told' = told \cup {call[c].ctx}
  /\ Return(c)
  /\ UNCHANGED <<memory, wal, up, boots, expired, commits>>

RefusesEntry(x) ==
  \/ Conflicts(x)
  \/ Validating(x) /\ validating[x.txn] # Fingerprint(x)
  \/ ~Validating(x) /\ OwnedByOther(x)

RefuseEntry(c) ==
  /\ At(c, "entering") /\ ~SameAs("Committed", call[c].ctx) /\ RefusesEntry(call[c].ctx)
  /\ records' = Entered(call[c].ctx)
  /\ Return(c)
  /\ UNCHANGED <<owners, validating, wal, up, boots, expired, history>>

\* An exact duplicate waits on m_stateChanged for the first caller ...
Join(c) ==
  /\ At(c, "entering") /\ ~SameAs("Committed", call[c].ctx) /\ ~RefusesEntry(call[c].ctx)
  /\ Validating(call[c].ctx)
  /\ records' = Entered(call[c].ctx)
  /\ Goto(c, "joining")
  /\ UNCHANGED <<owners, validating, wal, up, boots, expired, history>>

\* ... is notified, or gives up at its deadline.
Wake(c) ==
  /\ At(c, "joining") /\ ~Validating(call[c].ctx)
  /\ Goto(c, "entering")
  /\ UNCHANGED <<memory, wal, up, boots, expired, history>>

JoinTimeout(c) ==
  /\ At(c, "joining")
  /\ Return(c)
  /\ UNCHANGED <<memory, wal, up, boots, expired, history>>

StartValidating(c) ==
  LET x == call[c].ctx IN
  /\ At(c, "entering") /\ ~SameAs("Committed", x) /\ ~RefusesEntry(x) /\ ~Validating(x)
  /\ records' = Entered(x)
  /\ validating' = Put(validating, x.txn, Fingerprint(x))
  /\ Goto(c, "preparing")
  /\ UNCHANGED <<owners, wal, up, boots, expired, history>>

clearValidating_KeepsIt(x) == UNCHANGED validating   \* a path that forgets the mark

clearValidating(x) == validating' = Restrict(validating, DOMAIN validating \ {x.txn})

\* The participant prepares outside the lock and its output is checked, or the
\* authority is not live, prepare throws or times out, or its output is refused.
PrepareAccepted(c) ==
  /\ At(c, "preparing") /\ call[c].live /\ call[c].ctx.txn \notin expired
  /\ Goto(c, "committing")
  /\ UNCHANGED <<memory, wal, up, boots, expired, history>>

PrepareRejected(c) ==
  /\ At(c, "preparing")
  /\ clearValidating(call[c].ctx)
  /\ Goto(c, "aborting")
  /\ UNCHANGED <<records, owners, wal, up, boots, expired, history>>

\* appendAborted, a critical section of its own after clearValidating.
appendAborted(c) ==
  LET x == call[c].ctx IN
  /\ At(c, "aborting")
  /\ \E w \in Writes(Frame("Aborted", x)) :
       /\ wal' = wal \o w.tail
       /\ records' = IF w.ok THEN Put(records, x.txn, Frame("Aborted", x)) ELSE records
  /\ Return(c)
  /\ UNCHANGED <<owners, validating, up, boots, expired, history>>

RefusesCommit_EntryCheckOnly(x) == x.txn \in DOMAIN records
RefusesCommit_OwnersOnly(x) == OwnedByOther(x)

\* Why the last critical section throws before it writes.
RefusesCommit(x) == x.txn \in DOMAIN records \/ Owned(x)

\* The throw, or the return of a duplicate's view.  The validation mark keeps
\* duplicates out of this section, so the latter does not happen.
CommitRefused(c) ==
  LET x == call[c].ctx IN
  /\ At(c, "committing") /\ RefusesCommit(x)
  /\ IF SameAs("Committed", x)
     THEN clearValidating(x) /\ told' = told \cup {x} /\ Return(c)
     ELSE Goto(c, "rejecting") /\ UNCHANGED <<validating, told>>
  /\ UNCHANGED <<records, owners, wal, up, boots, expired, commits>>

Own(x) == [r \in DOMAIN owners \cup Refs(x) |-> IF r \in DOMAIN owners THEN owners[r] ELSE x.txn]

CommitRecord(c) ==
  LET x == call[c].ctx IN
  /\ At(c, "committing") /\ ~RefusesCommit(x)
  /\ \E w \in Writes(Frame("Committed", x)) :
       /\ wal' = wal \o w.tail
       /\ IF w.ok
          THEN /\ records' = Put(records, x.txn, Frame("Committed", x))
               /\ owners' = Own(x)
               /\ clearValidating(x)
               /\ told' = told \cup {x}
               /\ commits' = [commits EXCEPT ![x.txn] = @ + 1]
               /\ Return(c)
          ELSE /\ Goto(c, "rejecting")
               /\ UNCHANGED <<memory, history>>
  /\ UNCHANGED <<up, boots, expired>>

\* The catch of the last section: clearValidating and onAborted(COMMIT_REJECTED).
RejectCommit(c) ==
  /\ At(c, "rejecting")
  /\ clearValidating(call[c].ctx)
  /\ Return(c)
  /\ UNCHANGED <<records, owners, wal, up, boots, expired, history>>

-----------------------------------------------------------------------------
\* expiresAtUnixMs passes.
Expire(t) ==
  /\ t \in Txns \ expired
  /\ expired' = expired \cup {t}
  /\ UNCHANGED <<memory, wal, call, up, boots, history>>

tombstone(t) ==
  /\ up /\ t \in DOMAIN records /\ t \in expired /\ Len(wal) < MaxFrames
  /\ LET frame == [records[t] EXCEPT !.state = "Tombstoned"] IN
     \E w \in Writes(frame) :
       /\ wal' = wal \o w.tail
       /\ records' = IF w.ok THEN [records EXCEPT ![t] = frame] ELSE records
  /\ UNCHANGED <<owners, validating, call, up, boots, expired, history>>

\* The process dies, perhaps in the middle of an append or just after one.
Crash ==
  /\ up /\ boots < MaxBoots
  /\ up' = FALSE
  /\ \/ UNCHANGED wal
     \/ \E c \in Callers :
          /\ At(c, "committing") /\ ~RefusesCommit(call[c].ctx)
          /\ \E tail \in {Torn, Frame("Committed", call[c].ctx)} : wal' = Append(wal, tail)
     \/ \E c \in Callers :
          /\ At(c, "aborting")
          /\ \E tail \in {Torn, Frame("Aborted", call[c].ctx)} : wal' = Append(wal, tail)
  /\ call' = [c \in Callers |-> Idle]
  /\ UNCHANGED <<memory, boots, expired, history>>

Last(S) == CHOOSE i \in S : \A j \in S : j <= i

load_LiveOwnersOnly(w) ==
  LET txns == {w[i].ctx.txn : i \in DOMAIN w}
      last == [t \in txns |-> w[Last({i \in DOMAIN w : w[i].ctx.txn = t})]]
      live == {t \in txns : last[t].state = "Committed"}
      refs == UNION {Refs(last[t].ctx) : t \in live}
  IN [records |-> last,
      owners  |-> [r \in refs |-> CHOOSE t \in live : r \in Refs(last[t].ctx)]]

load_FirstFrameWins(w) ==
  LET txns == {w[i].ctx.txn : i \in DOMAIN w}
      committed == {i \in DOMAIN w : w[i].state = "Committed"}
      refs == UNION {Refs(w[i].ctx) : i \in committed}
      First(S) == CHOOSE i \in S : \A j \in S : i <= j
  IN [records |-> [t \in txns |-> w[First({i \in DOMAIN w : w[i].ctx.txn = t})]],
      owners  |-> [r \in refs |-> w[Last({i \in committed : r \in Refs(w[i].ctx)})].ctx.txn]]

\* load() on whole frames: the last frame of a transaction is its record, and
\* every COMMITTED frame enters its references into the owner maps.
load(w) ==
  LET txns == {w[i].ctx.txn : i \in DOMAIN w}
      committed == {i \in DOMAIN w : w[i].state = "Committed"}
      refs == UNION {Refs(w[i].ctx) : i \in committed}
  IN [records |-> [t \in txns |-> w[Last({i \in DOMAIN w : w[i].ctx.txn = t})]],
      owners  |-> [r \in refs |-> w[Last({i \in committed : r \in Refs(w[i].ctx)})].ctx.txn]]

\* What load() may keep.  A short frame at the end is cut off.  A short frame
\* with more bytes after it swallows them: either they do not fill it and the
\* rest of the file is cut off too, or it fails authentication and load throws,
\* which leaves the provider down (the state before Restart).
Loadable(w) ==
  LET torn == {i \in DOMAIN w : w[i] = Torn} IN
  IF torn = {} THEN {w} ELSE {SubSeq(w, 1, (CHOOSE i \in torn : \A j \in torn : i <= j) - 1)}

Restart ==
  /\ ~up
  /\ \E w \in Loadable(wal) :
       /\ wal' = w
       /\ records' = load(w).records
       /\ owners' = load(w).owners
  /\ validating' = <<>>
  /\ up' = TRUE /\ boots' = boots + 1
  /\ UNCHANGED <<call, expired, history>>

commitStep(c) ==
  \/ ReturnExisting(c) \/ RefuseEntry(c) \/ Join(c) \/ Wake(c) \/ StartValidating(c)
  \/ PrepareAccepted(c) \/ PrepareRejected(c) \/ appendAborted(c)
  \/ CommitRefused(c) \/ CommitRecord(c) \/ RejectCommit(c)

Next ==
  \/ \E c \in Callers : Call(c) \/ JoinTimeout(c) \/ commitStep(c)
  \/ \E t \in Txns : Expire(t) \/ tombstone(t)
  \/ Crash \/ Restart

\* Threads inside commit() keep running: prepare is bounded by maxPrepareTime.
\* Nothing is assumed of the join timeout.
Fairness == WF_vars(Restart) /\ \A c \in Callers : WF_vars(commitStep(c))

Spec == Init /\ [][Next]_vars /\ Fairness

-----------------------------------------------------------------------------
Frames == [state : {"Committed", "Aborted", "Tombstoned"}, ctx : Contexts]
Positions == {"entering", "joining", "preparing", "aborting", "committing", "rejecting"}

\* The store's maps, log and callers have the types of the class's members, and
\* a transaction is being validated exactly while one caller works on it.
TypeOK ==
  /\ DOMAIN records \subseteq Txns /\ \A t \in DOMAIN records : records[t] \in Frames
  /\ \A r \in DOMAIN owners : owners[r] \in Txns
  /\ \A i \in DOMAIN wal : wal[i] \in Frames \cup {Torn}
  /\ \A c \in Callers : call[c].pc \in Positions \cup {"idle"}
  /\ up => \A t \in Txns :
       LET workers == {c \in Callers : /\ call[c].pc \in {"preparing", "committing", "rejecting"}
                                       /\ call[c].ctx.txn = t}
       IN Cardinality(workers) = IF t \in DOMAIN validating THEN 1 ELSE 0

\* No ProviderToken, Selection identity or lease belongs to two transactions
\* that the store holds as committed, even when their callers validated at the
\* same time or the records come from a log written before a crash.
ReferenceCommittedOnce ==
  up => \A t, u \in DOMAIN records :
    records[t].state = "Committed" /\ records[u].state = "Committed" /\ t # u
      => Refs(records[t].ctx) \cap Refs(records[u].ctx) = {}

\* A transaction is committed and projected at most once, however many exact
\* duplicates race, are retried after an abort, or arrive after a restart.
CommittedAtMostOnce == \A t \in Txns : commits[t] <= 1

\* Callers that were told their transaction is committed presented the same
\* payload, Selection and token: a conflicting replay never borrows a success.
SuccessIsForOneSelection ==
  \A x, y \in told :
    x.txn = y.txn => x.payload = y.payload /\ x.sel = y.sel /\ x.token = y.token

\* A committed view that commit() handed out is backed by the store for ever:
\* the transaction stays COMMITTED, or TOMBSTONED once expired, over later
\* aborts, retries, crashes and recoveries.
CommittedIsDurable ==
  up => \A x \in told :
    x.txn \in DOMAIN records /\ records[x.txn].state \in {"Committed", "Tombstoned"}

\* What a committed transaction consumed is never given back or passed on to
\* another transaction, not by expiry, tombstoning, abort or recovery.
OwnersAreFinal ==
  [][\A r \in DOMAIN owners : r \in DOMAIN owners' /\ owners'[r] = owners[r]]_vars

\* A transaction never stays marked as validating: whatever fails on the way,
\* the mark is cleared, so a waiting duplicate and every later retry of the
\* transaction can proceed without running into its deadline.
ValidationEnds == \A t \in Txns : (t \in DOMAIN validating) ~> (t \notin DOMAIN validating)
=============================================================================
