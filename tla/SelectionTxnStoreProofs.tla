---------------------- MODULE SelectionTxnStoreProofs ----------------------
(***************************************************************************)
(* Safety of GenericSelectionTxnStore for every number of callers,         *)
(* contexts, frames and process starts.                                    *)
(***************************************************************************)
EXTENDS SelectionTxnStore, FiniteSetTheorems, SequenceTheorems, WellFoundedInduction, TLAPS

Entries == Frames \cup {Torn}
Active == [pc : Positions, ctx : Contexts, live : BOOLEAN]

\* A caller that validates or commits transaction t.
Works(c, t) == call[c].pc \in {"preparing", "committing", "rejecting"} /\ call[c].ctx.txn = t

Typed ==
  /\ DOMAIN records \subseteq Txns
  /\ \A t \in DOMAIN records : records[t] \in Frames /\ records[t].ctx.txn = t
  /\ \A r \in DOMAIN owners : owners[r] \in Txns
  /\ wal \in Seq(Entries)
  /\ call \in [Callers -> Active \cup {Idle}]
  /\ told \subseteq Contexts /\ commits \in [Txns -> Nat]

\* The validation mark of a transaction is held by one caller.
Marks ==
  /\ up => \A t \in Txns : /\ t \in DOMAIN validating <=> \E c \in Callers : Works(c, t)
                           /\ \A c, d \in Callers : Works(c, t) /\ Works(d, t) => c = d
  /\ ~up => \A c \in Callers : call[c] = Idle

TypeInv == Typed /\ Marks

\* No two committed frames of the log share a reference.
Sole ==
  \A i, j \in DOMAIN wal :
    wal[i].state = "Committed" /\ wal[j].state = "Committed" /\ i # j
      => Refs(wal[i].ctx) \cap Refs(wal[j].ctx) = {}

\* The running store knows the owner of whatever the log says is consumed.
Covered ==
  up => \A i \in DOMAIN wal : wal[i].state = "Committed" =>
          \A r \in Refs(wal[i].ctx) : r \in DOMAIN owners /\ owners[r] = wal[i].ctx.txn

\* A committed record is in the log.
Logged ==
  \A t \in DOMAIN records : records[t].state = "Committed" =>
    \E i \in DOMAIN wal : wal[i] = records[t]

\* The inductive invariant behind ReferenceCommittedOnce.  The records alone do not
\* carry it: a tombstone or an abort hides a committed frame that the log still has.
LogInv == TypeInv /\ Sole /\ Covered /\ Logged

\* Without failing writes, a crash alone leaves a short frame, at the end of the log.
Whole ==
  /\ up => \A i \in DOMAIN wal : wal[i] # Torn
  /\ ~up => \A i \in DOMAIN wal : wal[i] = Torn => i = Len(wal)

OwnersLogged ==
  \A r \in DOMAIN owners :
    \E i \in DOMAIN wal : /\ wal[i].state = "Committed" /\ r \in Refs(wal[i].ctx)
                          /\ wal[i].ctx.txn = owners[r]

ToldLogged ==
  \A x \in told :
    \E i \in DOMAIN wal : /\ wal[i].state = "Committed" /\ wal[i].ctx.txn = x.txn
                          /\ Fingerprint(wal[i].ctx) = Fingerprint(x)

CommitsLogged ==
  \A t \in Txns :
    /\ commits[t] <= 1
    /\ commits[t] # 0 => \E i \in DOMAIN wal : wal[i].state = "Committed" /\ wal[i].ctx.txn = t

\* The inductive invariant behind the properties of what was committed: every promise
\* the store made is a committed frame of the log.
HistoryInv == LogInv /\ Whole /\ OwnersLogged /\ ToldLogged /\ CommitsLogged

\* A caller past the entry checks of commit().
Past(c) == call[c].pc \in {"preparing", "aborting", "committing", "rejecting"}

Final(f) == f.state \in {"Committed", "Tombstoned"}

\* No caller works on a transaction that has a committed frame ...
Settled ==
  \A c \in Callers : Past(c) =>
    \A i \in DOMAIN wal : wal[i].state = "Committed" => wal[i].ctx.txn # call[c].ctx.txn

\* ... so nothing but tombstones follows that frame in the log ...
FramesFinal ==
  \A i, j \in DOMAIN wal :
    wal[i].state = "Committed" /\ i < j /\ wal[j] # Torn /\ wal[j].ctx.txn = wal[i].ctx.txn
      => Final(wal[j])

\* ... and the running store keeps its record.
RecordsFinal ==
  up => \A i \in DOMAIN wal : wal[i].state = "Committed" =>
          wal[i].ctx.txn \in DOMAIN records /\ Final(records[wal[i].ctx.txn])

\* The inductive invariant behind CommittedIsDurable, with one caller at a time.
DurableInv == HistoryInv /\ Settled /\ FramesFinal /\ RecordsFinal

-----------------------------------------------------------------------------
(* Least and greatest elements. *)

LEMMA LeastExists ==
  ASSUME NEW S, S \subseteq Nat, S # {}
  PROVE  \E i \in S : \A j \in S : i <= j
<1>1. PICK i \in S : \A j \in S : ~(<<j, i>> \in OpToRel(<, Nat))
  BY WFMin, NatLessThanWellFounded
<1>2. ASSUME NEW j \in S PROVE i <= j
  <2>1. <<j, i>> \in Nat \X Nat /\ <<j, i>>[1] = j /\ <<j, i>>[2] = i
    OBVIOUS
  <2>2. ~(j < i)
    BY <1>1, <2>1 DEF OpToRel
  <2> QED BY <2>2
<1> QED BY <1>2

LEMMA GreatestExists ==
  ASSUME NEW n \in Nat, NEW S, S \subseteq 1 .. n, S # {}
  PROVE  /\ Last(S) \in S
         /\ \A j \in S : j <= Last(S)
<1> DEFINE T == {n - i : i \in S}
<1>1. T \subseteq Nat /\ T # {}
  <2>1. \A i \in S : n - i \in Nat
    OBVIOUS
  <2> QED BY <2>1
<1>2. PICK m \in T : \A k \in T : m <= k
  BY <1>1, LeastExists
<1>3. PICK i \in S : m = n - i
  BY <1>2
<1>4. \A j \in S : j <= i
  BY <1>2, <1>3
<1> QED BY <1>3, <1>4 DEF Last

LEMMA LastOfOne ==
  ASSUME NEW i \in Nat
  PROVE  Last({i}) = i
BY DEF Last

-----------------------------------------------------------------------------
(* Calls and writes. *)

LEMMA FrameType ==
  ASSUME NEW x \in Contexts, NEW s \in {"Committed", "Aborted", "Tombstoned"}
  PROVE  /\ Frame(s, x) \in Frames /\ Frame(s, x).state = s /\ Frame(s, x).ctx = x
         /\ x.txn \in Txns
BY DEF Frame, Frames, Txns

LEMMA FrameFields ==
  ASSUME NEW f \in Frames
  PROVE  /\ f.state \in {"Committed", "Aborted", "Tombstoned"} /\ f.ctx \in Contexts
         /\ f # Torn /\ f = Frame(f.state, f.ctx)
BY DEF Frame, Frames, Torn

LEMMA InsideCall ==
  ASSUME Typed, NEW c \in Callers, call[c].pc \in Positions
  PROVE  call[c] \in Active /\ call[c].ctx \in Contexts /\ call[c].ctx.txn \in Txns
BY DEF Typed, Active, Idle, Positions, Txns

\* Goto and Return move one caller.
LEMMA Moves ==
  ASSUME Typed, NEW c \in Callers, NEW p \in Positions
  PROVE  /\ Return(c) => /\ call' \in [Callers -> Active \cup {Idle}]
                         /\ call'[c] = Idle
                         /\ \A d \in Callers \ {c} : call'[d] = call[d]
         /\ call[c].pc \in Positions /\ Goto(c, p) =>
              /\ call' \in [Callers -> Active \cup {Idle}]
              /\ call'[c].pc = p /\ call'[c].ctx = call[c].ctx
              /\ \A d \in Callers \ {c} : call'[d] = call[d]
<1>1. call \in [Callers -> Active \cup {Idle}]
  BY DEF Typed
<1>2. ASSUME Return(c) PROVE call' \in [Callers -> Active \cup {Idle}] /\ call'[c] = Idle
                             /\ \A d \in Callers \ {c} : call'[d] = call[d]
  BY <1>1, <1>2 DEF Return
<1>3. ASSUME call[c].pc \in Positions, Goto(c, p)
      PROVE  /\ call' \in [Callers -> Active \cup {Idle}]
             /\ call'[c].pc = p /\ call'[c].ctx = call[c].ctx
             /\ \A d \in Callers \ {c} : call'[d] = call[d]
  <2>1. call[c] \in Active
    BY <1>3, InsideCall
  <2>2. [call[c] EXCEPT !.pc = p] \in Active
    BY <2>1 DEF Active
  <2>3. call' = [call EXCEPT ![c] = [call[c] EXCEPT !.pc = p]]
    BY <1>3 DEF Goto
  <2>4. [call[c] EXCEPT !.pc = p].pc = p /\ [call[c] EXCEPT !.pc = p].ctx = call[c].ctx
    BY <2>1 DEF Active
  <2> QED BY <1>1, <2>2, <2>3, <2>4
<1> QED BY <1>2, <1>3

\* An append adds the whole frame when it succeeds, and otherwise nothing or one entry.
LEMMA WriteIs ==
  ASSUME NEW f \in Frames, NEW w \in Writes(f), NEW v \in Seq(Entries)
  PROVE  /\ w.ok \in BOOLEAN
         /\ w.ok => v \o w.tail = Append(v, f)
         /\ ~w.ok => \/ v \o w.tail = v
                     \/ "torn" \in WriteFaults /\ v \o w.tail = Append(v, Torn)
                     \/ "unsynced" \in WriteFaults /\ v \o w.tail = Append(v, f)
         /\ v \o w.tail \in Seq(Entries)
<1>0. f \in Entries /\ Torn \in Entries
  BY DEF Entries
<1>1. v \o <<>> = v /\ v \o <<f>> = Append(v, f) /\ v \o <<Torn>> = Append(v, Torn)
  BY <1>0, AppendIsConcat, ConcatEmptySeq
<1>2. Append(v, f) \in Seq(Entries) /\ Append(v, Torn) \in Seq(Entries)
  BY <1>0, AppendProperties
<1>3. CASE w = [ok |-> TRUE, tail |-> <<f>>]
  BY <1>1, <1>2, <1>3
<1>4. CASE w = [ok |-> FALSE, tail |-> <<>>]
  BY <1>1, <1>2, <1>4
<1>5. ASSUME NEW g \in WriteFaults, w = [ok |-> FALSE, tail |-> IF g = "torn" THEN <<Torn>> ELSE <<f>>]
      PROVE  /\ w.ok = FALSE
             /\ \/ "torn" \in WriteFaults /\ v \o w.tail = Append(v, Torn)
                \/ "unsynced" \in WriteFaults /\ v \o w.tail = Append(v, f)
  <2>1. g = "torn" \/ g = "unsynced"
    BY SelectionTxnAssumption
  <2> QED BY <1>1, <1>2, <1>5, <2>1
<1>6. \/ w = [ok |-> TRUE, tail |-> <<f>>] \/ w = [ok |-> FALSE, tail |-> <<>>]
      \/ \E g \in WriteFaults : w = [ok |-> FALSE, tail |-> IF g = "torn" THEN <<Torn>> ELSE <<f>>]
  BY DEF Writes
<1>7. CASE \E g \in WriteFaults : w = [ok |-> FALSE, tail |-> IF g = "torn" THEN <<Torn>> ELSE <<f>>]
  BY <1>2, <1>5, <1>7
<1> QED BY <1>3, <1>4, <1>6, <1>7

\* What appending one entry does to the log.
LEMMA AppendIs ==
  ASSUME NEW v \in Seq(Entries), NEW f \in Entries
  PROVE  /\ Append(v, f) \in Seq(Entries)
         /\ DOMAIN v = 1 .. Len(v) /\ Len(v) \in Nat
         /\ DOMAIN Append(v, f) = 1 .. Len(v) + 1 /\ Len(Append(v, f)) = Len(v) + 1
         /\ \A i \in DOMAIN v : i \in DOMAIN Append(v, f) /\ Append(v, f)[i] = v[i]
         /\ Append(v, f)[Len(v) + 1] = f
BY AppendProperties, LenProperties

\* The torn-free prefix that load() works on.
LEMMA LoadableIs ==
  ASSUME NEW v \in Seq(Entries), NEW w \in Loadable(v)
  PROVE  /\ w \in Seq(Frames) /\ w \in Seq(Entries)
         /\ Len(w) <= Len(v) /\ \A i \in 1 .. Len(w) : w[i] = v[i]
         /\ Len(w) < Len(v) => v[Len(w) + 1] = Torn
<1> DEFINE torn == {i \in DOMAIN v : v[i] = Torn}
<1>0. DOMAIN v = 1 .. Len(v) /\ Len(v) \in Nat /\ \A i \in 1 .. Len(v) : v[i] \in Entries
  BY LenProperties
<1>1. CASE torn = {}
  <2>1. w = v
    BY <1>1 DEF Loadable
  <2>2. \A i \in 1 .. Len(v) : v[i] \in Frames
    BY <1>0, <1>1 DEF Entries
  <2>3. v \in Seq(Frames)
    BY <1>0, <2>2, SubSeqProperties, SubSeqFull
  <2> QED BY <1>0, <2>1, <2>3
<1>2. CASE torn # {}
  <2> DEFINE n == CHOOSE i \in torn : \A j \in torn : i <= j
  <2>1. n \in torn /\ \A j \in torn : n <= j
    <3>1. torn \subseteq Nat
      BY <1>0
    <3> HIDE DEF torn
    <3>2. \E i \in torn : \A j \in torn : i <= j
      BY <1>2, <3>1, LeastExists
    <3> QED BY <3>2
  <2>2. w = SubSeq(v, 1, n - 1)
    BY <1>2 DEF Loadable
  <2> HIDE DEF n
  <2>3. \A i \in 1 .. n - 1 : v[i] \in Frames
    BY <1>0, <2>1 DEF Entries
  <2>4. n - 1 \in Nat /\ n - 1 < Len(v) /\ (n - 1) + 1 = n /\ v[n] = Torn
    BY <1>0, <2>1
  <2>5. w \in Seq(Frames) /\ Len(w) = n - 1 /\ \A i \in 1 .. n - 1 : w[i] = v[i]
    BY <2>2, <2>3, <2>4, SubSeqProperties
  <2>6. w \in Seq(Entries)
    BY <2>5, SeqMonotonic DEF Entries
  <2> QED BY <1>0, <2>4, <2>5, <2>6
<1> QED BY <1>1, <1>2

\* The records that load() makes: of every transaction in the log its last frame.
LEMMA LoadRecords ==
  ASSUME NEW w \in Seq(Frames)
  PROVE  /\ \A i \in DOMAIN w : w[i].ctx.txn \in DOMAIN load(w).records
         /\ \A t \in DOMAIN load(w).records :
              \E i \in DOMAIN w : /\ load(w).records[t] = w[i] /\ w[i].ctx.txn = t
                                  /\ \A j \in DOMAIN w : w[j].ctx.txn = t => j <= i
<1> DEFINE txns == {w[i].ctx.txn : i \in DOMAIN w}
           Of(t) == {i \in DOMAIN w : w[i].ctx.txn = t}
<1>0. DOMAIN w = 1 .. Len(w) /\ Len(w) \in Nat
  BY LenProperties
<1>1. load(w).records = [t \in txns |-> w[Last(Of(t))]]
  BY DEF load
<1>2. ASSUME NEW t \in txns
      PROVE  Last(Of(t)) \in Of(t) /\ \A j \in Of(t) : j <= Last(Of(t))
  <2>1. Of(t) \subseteq 1 .. Len(w) /\ Of(t) # {}
    BY <1>0
  <2> HIDE DEF Of
  <2> QED BY <1>0, <2>1, GreatestExists
<1> QED BY <1>1, <1>2

LEMMA LoadOwnersType ==
  ASSUME NEW w \in Seq(Frames), NEW r \in DOMAIN load(w).owners
  PROVE  \E i \in DOMAIN w : load(w).owners[r] = w[i].ctx.txn
<1> DEFINE committed == {i \in DOMAIN w : w[i].state = "Committed"}
           refs == UNION {Refs(w[i].ctx) : i \in committed}
           With(s) == {i \in committed : s \in Refs(w[i].ctx)}
<1>0. DOMAIN w = 1 .. Len(w) /\ Len(w) \in Nat
  BY LenProperties
<1>1. load(w).owners = [s \in refs |-> w[Last(With(s))].ctx.txn]
  BY DEF load
<1>2. r \in refs /\ With(r) \subseteq 1 .. Len(w) /\ With(r) # {} /\ With(r) \subseteq DOMAIN w
  BY <1>0, <1>1
<1>3. Last(With(r)) \in With(r)
  <2> HIDE DEF With
  <2> QED BY <1>0, <1>2, GreatestExists
<1> QED BY <1>1, <1>2, <1>3

\* The owners that load() makes when no two committed frames share a reference.
LEMMA LoadOwners ==
  ASSUME NEW w \in Seq(Frames),
         \A i, j \in DOMAIN w :
           w[i].state = "Committed" /\ w[j].state = "Committed" /\ i # j
             => Refs(w[i].ctx) \cap Refs(w[j].ctx) = {}
  PROVE  /\ \A i \in DOMAIN w : w[i].state = "Committed" =>
              \A r \in Refs(w[i].ctx) : r \in DOMAIN load(w).owners /\ load(w).owners[r] = w[i].ctx.txn
         /\ \A r \in DOMAIN load(w).owners :
              \E i \in DOMAIN w : w[i].state = "Committed" /\ r \in Refs(w[i].ctx)
<1> DEFINE committed == {i \in DOMAIN w : w[i].state = "Committed"}
           refs == UNION {Refs(w[i].ctx) : i \in committed}
           With(r) == {i \in committed : r \in Refs(w[i].ctx)}
<1>0. DOMAIN w = 1 .. Len(w) /\ Len(w) \in Nat
  BY LenProperties
<1>1. load(w).owners = [r \in refs |-> w[Last(With(r))].ctx.txn]
  BY DEF load
<1>2. ASSUME NEW i \in committed, NEW r \in Refs(w[i].ctx)
      PROVE  r \in refs /\ Last(With(r)) = i
  <2>1. With(r) = {i}
    OBVIOUS
  <2> QED BY <1>0, <2>1, LastOfOne
<1> HIDE DEF With
<1> QED BY <1>1, <1>2

-----------------------------------------------------------------------------
(* Types, and one caller per validation mark. *)
LEMMA EnteredIs ==
  ASSUME NEW x
  PROVE  /\ DOMAIN Entered(x) \subseteq DOMAIN records
         /\ \A t \in DOMAIN Entered(x) : Entered(x)[t] = records[t]
         /\ \A t \in DOMAIN records : t \notin DOMAIN Entered(x) => records[t].state = "Aborted"
<1>1. CASE SameAs("Aborted", x)
  <2>1. Entered(x) = Restrict(records, DOMAIN records \ {x.txn}) /\ records[x.txn].state = "Aborted"
    BY <1>1 DEF Entered, SameAs
  <2> DEFINE k == x.txn
             g == Restrict(records, DOMAIN records \ {k})
  <2>2. DOMAIN g = DOMAIN records \ {k} /\ \A i \in DOMAIN records \ {k} : g[i] = records[i]
    BY DEF Restrict
  <2> QED BY <2>1, <2>2
<1>2. CASE ~SameAs("Aborted", x)
  BY <1>2 DEF Entered
<1> QED BY <1>1, <1>2

\* What a step of caller c inside commit() does to the store, by its result.
Quiet(c) ==
  /\ DOMAIN records' \subseteq DOMAIN records
  /\ \A t \in DOMAIN records' : records'[t] = records[t]
  /\ \A t \in DOMAIN records : t \notin DOMAIN records' => records[t].state = "Aborted"
  /\ Past(c)' /\ ~Past(c) => LET t == call[c].ctx.txn IN
       t \in DOMAIN records => records[t].state = "Aborted"
  /\ UNCHANGED <<owners, wal, told, commits>>

Tells(c) ==
  /\ SameAs("Committed", call[c].ctx) /\ told' = told \cup {call[c].ctx}
  /\ call'[c] = Idle
  /\ UNCHANGED <<records, owners, wal, commits>>

Aborts(c) ==
  /\ call[c].pc = "aborting" /\ call'[c] = Idle
  /\ LET f == Frame("Aborted", call[c].ctx) IN
     \/ /\ wal' = Append(wal, f) /\ UNCHANGED records
        /\ "unsynced" \in WriteFaults
     \/ /\ wal' = Append(wal, f) /\ records' = Put(records, call[c].ctx.txn, f)
     \/ /\ wal' = wal \/ ("torn" \in WriteFaults /\ wal' = Append(wal, Torn))
        /\ UNCHANGED records
  /\ UNCHANGED <<owners, told, commits>>

Commits(c) ==
  LET x == call[c].ctx IN
  /\ call[c].pc = "committing" /\ ~RefusesCommit(x) /\ call'[c] = Idle
  /\ wal' = Append(wal, Frame("Committed", x))
  /\ records' = Put(records, x.txn, Frame("Committed", x))
  /\ owners' = Own(x)
  /\ told' = told \cup {x}
  /\ commits' = [commits EXCEPT ![x.txn] = @ + 1]

Fails(c) ==
  /\ call[c].pc = "committing" /\ Past(c)' /\ ~RefusesCommit(call[c].ctx)
  /\ \/ wal' = wal
     \/ "torn" \in WriteFaults /\ wal' = Append(wal, Torn)
     \/ "unsynced" \in WriteFaults /\ wal' = Append(wal, Frame("Committed", call[c].ctx))
  /\ UNCHANGED <<records, owners, told, commits>>

LEMMA InsideSteps ==
  ASSUME Typed, NEW c \in Callers, JoinTimeout(c) \/ commitStep(c)
  PROVE  /\ up /\ UNCHANGED up /\ call[c].pc \in Positions
         /\ call' \in [Callers -> Active \cup {Idle}]
         /\ \A d \in Callers \ {c} : call'[d] = call[d]
         /\ call'[c] = Idle \/ call'[c].ctx = call[c].ctx
         /\ Quiet(c) \/ Tells(c) \/ Aborts(c) \/ Commits(c) \/ Fails(c)
<1> DEFINE x == call[c].ctx
<1>0. call[c].pc \in Positions /\ up /\ UNCHANGED up
  BY DEF JoinTimeout, commitStep, ReturnExisting, RefuseEntry, Join, Wake, StartValidating,
         PrepareAccepted, PrepareRejected, appendAborted, CommitRefused, CommitRecord,
         RejectCommit, At, Positions
<1>x. x \in Contexts /\ x.txn \in Txns
  BY <1>0, InsideCall
<1>e. /\ DOMAIN Entered(x) \subseteq DOMAIN records
      /\ \A t \in DOMAIN Entered(x) : Entered(x)[t] = records[t]
      /\ \A t \in DOMAIN records : t \notin DOMAIN Entered(x) => records[t].state = "Aborted"
  BY EnteredIs
<1>i. ASSUME Return(c)
      PROVE  /\ call' \in [Callers -> Active \cup {Idle}] /\ call'[c] = Idle /\ ~Past(c)'
             /\ \A d \in Callers \ {c} : call'[d] = call[d]
  <2>1. "entering" \in Positions
    BY DEF Positions
  <2> QED BY <1>i, <2>1, Moves DEF Past, Idle
<1>g. ASSUME NEW q \in Positions, Goto(c, q)
      PROVE  /\ call' \in [Callers -> Active \cup {Idle}]
             /\ call'[c].pc = q /\ call'[c].ctx = x
             /\ \A d \in Callers \ {c} : call'[d] = call[d]
  BY <1>0, <1>g, Moves
<1>p. {"entering", "joining", "preparing", "aborting", "committing", "rejecting"} \subseteq Positions
  BY DEF Positions
<1>1. CASE JoinTimeout(c)
  <2>1. Return(c) /\ UNCHANGED <<records, owners, wal, told, commits>>
    BY <1>1 DEF JoinTimeout, memory, history
  <2>2. Quiet(c)
    BY <1>i, <2>1 DEF Quiet
  <2> QED BY <1>0, <1>i, <2>1, <2>2
<1>2. CASE ReturnExisting(c)
  <2>1. /\ Return(c) /\ SameAs("Committed", x) /\ told' = told \cup {x}
        /\ UNCHANGED <<records, owners, wal, commits>>
    BY <1>2 DEF ReturnExisting, memory
  <2>2. Tells(c)
    BY <1>i, <2>1 DEF Tells
  <2> QED BY <1>0, <1>i, <2>1, <2>2
<1>3. CASE RefuseEntry(c)
  <2>1. /\ Return(c) /\ records' = Entered(x)
        /\ UNCHANGED <<owners, wal, told, commits>>
    BY <1>3 DEF RefuseEntry, history
  <2>2. Quiet(c)
    BY <1>i, <1>e, <2>1 DEF Quiet
  <2> QED BY <1>0, <1>i, <2>1, <2>2
<1>4. CASE Join(c)
  <2>1. /\ Goto(c, "joining") /\ records' = Entered(x)
        /\ UNCHANGED <<owners, wal, told, commits>>
    BY <1>4 DEF Join, history
  <2>2. ~Past(c)'
    BY <1>g, <1>p, <2>1 DEF Past
  <2>3. Quiet(c)
    BY <1>e, <2>1, <2>2 DEF Quiet
  <2> QED BY <1>0, <1>g, <1>p, <2>1, <2>3
<1>5. CASE Wake(c)
  <2>1. /\ Goto(c, "entering") /\ UNCHANGED <<records, owners, wal, told, commits>>
    BY <1>5 DEF Wake, memory, history
  <2>2. ~Past(c)'
    BY <1>g, <1>p, <2>1 DEF Past
  <2>3. Quiet(c)
    BY <2>1, <2>2 DEF Quiet
  <2> QED BY <1>0, <1>g, <1>p, <2>1, <2>3
<1>6. CASE StartValidating(c)
  <2>1. /\ Goto(c, "preparing") /\ records' = Entered(x)
        /\ ~SameAs("Committed", x) /\ ~Conflicts(x)
        /\ UNCHANGED <<owners, wal, told, commits>>
    BY <1>6 DEF StartValidating, RefusesEntry, history
  <2>2. x.txn \in DOMAIN records => records[x.txn].state = "Aborted"
    BY <2>1 DEF Conflicts, SameAs
  <2>3. Quiet(c)
    BY <1>e, <2>1, <2>2 DEF Quiet
  <2> QED BY <1>0, <1>g, <1>p, <2>1, <2>3
<1>7. CASE PrepareAccepted(c)
  <2>1. /\ Goto(c, "committing") /\ Past(c) /\ UNCHANGED <<records, owners, wal, told, commits>>
    BY <1>7 DEF PrepareAccepted, Past, At, memory, history
  <2>2. Quiet(c)
    BY <2>1 DEF Quiet
  <2> QED BY <1>0, <1>g, <1>p, <2>1, <2>2
<1>8. CASE PrepareRejected(c)
  <2>1. /\ Goto(c, "aborting") /\ Past(c) /\ UNCHANGED <<records, owners, wal, told, commits>>
    BY <1>8 DEF PrepareRejected, Past, At, history
  <2>2. Quiet(c)
    BY <2>1 DEF Quiet
  <2> QED BY <1>0, <1>g, <1>p, <2>1, <2>2
<1>9. CASE appendAborted(c)
  <2> DEFINE f == Frame("Aborted", x)
  <2>1. /\ Return(c) /\ call[c].pc = "aborting" /\ UNCHANGED <<owners, told, commits>>
        /\ \E w \in Writes(f) : /\ wal' = wal \o w.tail
                                /\ records' = IF w.ok THEN Put(records, x.txn, f) ELSE records
    BY <1>9 DEF appendAborted, At, history
  <2>2. f \in Frames /\ wal \in Seq(Entries)
    BY <1>x, FrameType DEF Typed
  <2>3. Aborts(c)
    <3> HIDE DEF f
    <3>1. PICK w \in Writes(f) : /\ wal' = wal \o w.tail
                                 /\ records' = IF w.ok THEN Put(records, x.txn, f) ELSE records
      BY <2>1
    <3>2. CASE w.ok
      BY <1>i, <2>1, <2>2, <3>1, <3>2, WriteIs DEF Aborts, f
    <3>3. CASE ~w.ok
      BY <1>i, <2>1, <2>2, <3>1, <3>3, WriteIs DEF Aborts, f
    <3> QED BY <3>2, <3>3
  <2> QED BY <1>0, <1>i, <2>1, <2>3
<1>10. CASE CommitRefused(c)
  <2>1. CASE SameAs("Committed", x)
    <3>1. Return(c) /\ told' = told \cup {x} /\ UNCHANGED <<records, owners, wal, commits>>
      BY <1>10, <2>1 DEF CommitRefused
    <3>2. Tells(c)
      BY <1>i, <2>1, <3>1 DEF Tells
    <3> QED BY <1>0, <1>i, <3>1, <3>2
  <2>2. CASE ~SameAs("Committed", x)
    <3>1. /\ Goto(c, "rejecting") /\ Past(c) /\ UNCHANGED <<records, owners, wal, told, commits>>
      BY <1>10, <2>2 DEF CommitRefused, Past, At
    <3>2. Quiet(c)
      BY <3>1 DEF Quiet
    <3> QED BY <1>0, <1>g, <1>p, <3>1, <3>2
  <2> QED BY <2>1, <2>2
<1>11. CASE CommitRecord(c)
  <2> DEFINE f == Frame("Committed", x)
  <2>1. f \in Frames /\ wal \in Seq(Entries)
    BY <1>x, FrameType DEF Typed
  <2>2. call[c].pc = "committing" /\ ~RefusesCommit(x)
    BY <1>11 DEF CommitRecord, At
  <2>3. PICK w \in Writes(f) :
          /\ wal' = wal \o w.tail
          /\ w.ok => /\ records' = Put(records, x.txn, f) /\ owners' = Own(x)
                     /\ told' = told \cup {x} /\ commits' = [commits EXCEPT ![x.txn] = @ + 1]
                     /\ Return(c)
          /\ ~w.ok => Goto(c, "rejecting") /\ UNCHANGED <<records, owners, told, commits>>
    BY <1>11 DEF CommitRecord, memory, history
  <2>4. CASE w.ok
    <3>1. wal' = Append(wal, f)
      BY <2>1, <2>3, <2>4, WriteIs
    <3>2. Commits(c)
      BY <1>i, <2>2, <2>3, <2>4, <3>1 DEF Commits
    <3> QED BY <1>0, <1>i, <2>3, <2>4, <3>2
  <2>5. CASE ~w.ok
    <3>1. \/ wal' = wal
          \/ "torn" \in WriteFaults /\ wal' = Append(wal, Torn)
          \/ "unsynced" \in WriteFaults /\ wal' = Append(wal, f)
      BY <2>1, <2>3, <2>5, WriteIs
    <3>2. Past(c)'
      BY <1>g, <1>p, <2>3, <2>5 DEF Past
    <3>3. Fails(c)
      BY <2>2, <2>3, <2>5, <3>1, <3>2 DEF Fails
    <3> QED BY <1>0, <1>g, <1>p, <2>3, <2>5, <3>3
  <2> QED BY <2>4, <2>5
<1>12. CASE RejectCommit(c)
  <2>1. Return(c) /\ UNCHANGED <<records, owners, wal, told, commits>>
    BY <1>12 DEF RejectCommit, history
  <2>2. Quiet(c)
    BY <1>i, <2>1 DEF Quiet
  <2> QED BY <1>0, <1>i, <2>1, <2>2
<1> QED BY <1>1, <1>2, <1>3, <1>4, <1>5, <1>6, <1>7, <1>8, <1>9, <1>10, <1>11, <1>12 DEF commitStep

LEMMA CallIs ==
  ASSUME Typed, NEW c \in Callers, Call(c)
  PROVE  /\ call' \in [Callers -> Active \cup {Idle}] /\ ~Past(c)'
         /\ \A d \in Callers \ {c} : call'[d] = call[d]
         /\ \A d \in Callers, t \in Txns : Works(d, t)' <=> Works(d, t)
         /\ up /\ UNCHANGED <<records, owners, validating, wal, up, told, commits>>
<1>1. PICK x \in Contexts, live \in BOOLEAN :
        call' = [call EXCEPT ![c] = [pc |-> "entering", ctx |-> x, live |-> live]]
  BY DEF Call
<1>2. [pc |-> "entering", ctx |-> x, live |-> live] \in Active
  BY DEF Active, Positions
<1>3. call' \in [Callers -> Active \cup {Idle}]
  BY <1>1, <1>2 DEF Typed
<1>4. \A d \in Callers, t \in Txns : Works(d, t)' <=> Works(d, t)
  BY <1>1 DEF Works, Call, At, Typed
<1>5. call'[c].pc = "entering" /\ \A d \in Callers \ {c} : call'[d] = call[d]
  BY <1>1 DEF Typed
<1>6. up /\ UNCHANGED <<records, owners, validating, wal, up, told, commits>>
  BY DEF Call, At, memory, history
<1> QED BY <1>3, <1>4, <1>5, <1>6 DEF Past

\* tombstone() appends a TOMBSTONED frame for an existing record.
LEMMA TombstoneIs ==
  ASSUME Typed, NEW t \in Txns, tombstone(t)
  PROVE  /\ up /\ t \in DOMAIN records
         /\ UNCHANGED <<owners, validating, call, up, told, commits>>
         /\ \E f \in Frames :
              /\ f.state = "Tombstoned" /\ f.ctx = records[t].ctx
              /\ \/ wal' = Append(wal, f) /\ records' = [records EXCEPT ![t] = f]
                 \/ "unsynced" \in WriteFaults /\ wal' = Append(wal, f) /\ UNCHANGED records
                 \/ UNCHANGED <<wal, records>>
                 \/ "torn" \in WriteFaults /\ wal' = Append(wal, Torn) /\ UNCHANGED records
<1> DEFINE f == [records[t] EXCEPT !.state = "Tombstoned"]
<1>1. /\ up /\ t \in DOMAIN records
      /\ UNCHANGED <<owners, validating, call, up, told, commits>>
      /\ \E w \in Writes(f) : /\ wal' = wal \o w.tail
                              /\ records' = IF w.ok THEN [records EXCEPT ![t] = f] ELSE records
  BY DEF tombstone, history
<1>2. records[t] \in Frames /\ wal \in Seq(Entries)
  BY <1>1 DEF Typed
<1>3. f \in Frames /\ f.state = "Tombstoned" /\ f.ctx = records[t].ctx
  BY <1>2 DEF Frames
<1> HIDE DEF f
<1>4. PICK w \in Writes(f) : /\ wal' = wal \o w.tail
                             /\ records' = IF w.ok THEN [records EXCEPT ![t] = f] ELSE records
  BY <1>1
<1>5. CASE w.ok
  BY <1>1, <1>2, <1>3, <1>4, <1>5, WriteIs
<1>6. CASE ~w.ok
  BY <1>1, <1>2, <1>3, <1>4, <1>6, WriteIs
<1> QED BY <1>5, <1>6

\* A crash may leave the entry that a caller was writing.
LEMMA CrashIs ==
  ASSUME Typed, Crash
  PROVE  /\ up /\ up' = FALSE /\ call' = [c \in Callers |-> Idle]
         /\ UNCHANGED <<records, owners, told, commits>>
         /\ \/ UNCHANGED wal
            \/ wal' = Append(wal, Torn)
            \/ \E c \in Callers :
                 /\ call[c].pc = "committing" /\ ~RefusesCommit(call[c].ctx)
                 /\ wal' = Append(wal, Frame("Committed", call[c].ctx))
            \/ \E c \in Callers :
                 call[c].pc = "aborting" /\ wal' = Append(wal, Frame("Aborted", call[c].ctx))
BY DEF Crash, At, memory, history

LEMMA TypedStep == Typed /\ [Next]_vars => Typed'
<1> SUFFICES ASSUME Typed, [Next]_vars PROVE Typed'
  OBVIOUS
<1>0. Torn \in Entries /\ Frames \subseteq Entries
  BY DEF Entries
<1>w. wal \in Seq(Entries) /\ \A f \in Entries : Append(wal, f) \in Seq(Entries)
  BY AppendIs DEF Typed
<1>1. ASSUME NEW c \in Callers, Call(c) PROVE Typed'
  BY <1>1, CallIs DEF Typed
<1>2. ASSUME NEW c \in Callers, JoinTimeout(c) \/ commitStep(c) PROVE Typed'
  <2> DEFINE x == call[c].ctx
  <2>1. /\ call[c].pc \in Positions /\ call' \in [Callers -> Active \cup {Idle}]
        /\ Quiet(c) \/ Tells(c) \/ Aborts(c) \/ Commits(c) \/ Fails(c)
    BY <1>2, InsideSteps
  <2>2. x \in Contexts /\ x.txn \in Txns
    BY <2>1, InsideCall
  <2>3. CASE Quiet(c)
    BY <2>1, <2>3 DEF Quiet, Typed
  <2>4. CASE Tells(c)
    BY <2>1, <2>2, <2>4 DEF Tells, Typed
  <2>5. CASE Aborts(c)
    <3> DEFINE f == Frame("Aborted", x)
               k == x.txn
    <3>1. f \in Frames /\ f.ctx = x
      BY <2>2, FrameType
    <3>2. wal' \in Seq(Entries)
      BY <1>0, <1>w, <2>5, <3>1 DEF Aborts
    <3>3. records' = records \/ records' = Put(records, k, f)
      BY <2>5 DEF Aborts
    <3> HIDE DEF f
    <3>4. /\ DOMAIN Put(records, k, f) = DOMAIN records \cup {k} /\ Put(records, k, f)[k] = f
          /\ \A i \in DOMAIN records \ {k} : Put(records, k, f)[i] = records[i]
      BY DEF Put
    <3>5. /\ DOMAIN records' \subseteq Txns
          /\ \A t \in DOMAIN records' : records'[t] \in Frames /\ records'[t].ctx.txn = t
      BY <2>2, <3>1, <3>3, <3>4 DEF Typed
    <3> QED BY <2>1, <2>5, <3>2, <3>5 DEF Aborts, Typed
  <2>6. CASE Commits(c)
    <3> DEFINE f == Frame("Committed", x)
               k == x.txn
    <3>1. f \in Frames /\ f.ctx = x
      BY <2>2, FrameType
    <3>2. wal' \in Seq(Entries)
      BY <1>0, <1>w, <2>6, <3>1 DEF Commits
    <3>3. /\ records' = Put(records, k, f) /\ owners' = Own(x) /\ told' = told \cup {x}
          /\ commits' = [commits EXCEPT ![k] = @ + 1]
      BY <2>6 DEF Commits
    <3> HIDE DEF f
    <3>4. /\ DOMAIN Put(records, k, f) = DOMAIN records \cup {k} /\ Put(records, k, f)[k] = f
          /\ \A i \in DOMAIN records \ {k} : Put(records, k, f)[i] = records[i]
      BY DEF Put
    <3>5. /\ DOMAIN records' \subseteq Txns
          /\ \A t \in DOMAIN records' : records'[t] \in Frames /\ records'[t].ctx.txn = t
      BY <2>2, <3>1, <3>3, <3>4 DEF Typed
    <3>6. \A r \in DOMAIN owners' : owners'[r] \in Txns
      BY <2>2, <3>3 DEF Own, Typed
    <3>7. told' \subseteq Contexts /\ commits' \in [Txns -> Nat]
      BY <2>2, <3>3 DEF Typed
    <3> QED BY <2>1, <3>2, <3>5, <3>6, <3>7 DEF Typed
  <2>7. CASE Fails(c)
    <3>1. Frame("Committed", x) \in Frames
      BY <2>2, FrameType
    <3> QED BY <1>0, <1>w, <2>1, <2>7, <3>1 DEF Fails, Typed
  <2> QED BY <2>1, <2>3, <2>4, <2>5, <2>6, <2>7
<1>3. ASSUME NEW t \in Txns, Expire(t) PROVE Typed'
  BY <1>3 DEF Expire, Typed, memory, history
<1>4. ASSUME NEW t \in Txns, tombstone(t) PROVE Typed'
  <2>1. PICK f \in Frames :
          /\ f.ctx = records[t].ctx
          /\ \/ wal' = Append(wal, f) /\ records' = [records EXCEPT ![t] = f]
             \/ "unsynced" \in WriteFaults /\ wal' = Append(wal, f) /\ UNCHANGED records
             \/ UNCHANGED <<wal, records>>
             \/ "torn" \in WriteFaults /\ wal' = Append(wal, Torn) /\ UNCHANGED records
    BY <1>4, TombstoneIs
  <2>2. wal' \in Seq(Entries)
    BY <1>0, <1>w, <2>1
  <2>3. /\ DOMAIN records' \subseteq Txns
        /\ \A u \in DOMAIN records' : records'[u] \in Frames /\ records'[u].ctx.txn = u
    BY <1>4, <2>1, TombstoneIs DEF Typed
  <2> QED BY <1>4, <2>2, <2>3, TombstoneIs DEF Typed
<1>5. ASSUME Crash PROVE Typed'
  <2>1. ASSUME NEW c \in Callers, call[c].pc \in {"committing", "aborting"}
        PROVE  Frame("Committed", call[c].ctx) \in Frames /\ Frame("Aborted", call[c].ctx) \in Frames
    BY <2>1, InsideCall, FrameType DEF Positions
  <2>2. wal' \in Seq(Entries)
    BY <1>0, <1>5, <1>w, <2>1, CrashIs
  <2> QED BY <1>5, <2>2, CrashIs DEF Typed
<1>6. ASSUME Restart PROVE Typed'
  <2>1. PICK w \in Loadable(wal) : wal' = w /\ records' = load(w).records /\ owners' = load(w).owners
    BY <1>6 DEF Restart
  <2>2. w \in Seq(Frames) /\ w \in Seq(Entries)
    BY <1>w, LoadableIs
  <2>3. \A i \in DOMAIN w : w[i] \in Frames /\ w[i].ctx.txn \in Txns
    BY <2>2, LenProperties, FrameFields DEF Txns
  <2>4. /\ DOMAIN records' \subseteq Txns
        /\ \A t \in DOMAIN records' : records'[t] \in Frames /\ records'[t].ctx.txn = t
    BY <2>1, <2>2, <2>3, LoadRecords
  <2>5. \A r \in DOMAIN owners' : owners'[r] \in Txns
    BY <2>1, <2>2, <2>3, LoadOwnersType
  <2> QED BY <1>6, <2>1, <2>2, <2>4, <2>5 DEF Restart, Typed, history
<1>7. CASE UNCHANGED vars
  BY <1>7 DEF vars, Typed
<1> QED BY <1>1, <1>2, <1>3, <1>4, <1>5, <1>6, <1>7 DEF Next

LEMMA MarksKept ==
  ASSUME Marks, UNCHANGED validating, UNCHANGED up, up,
         \A d \in Callers, t \in Txns : Works(d, t)' <=> Works(d, t)
  PROVE  Marks'
BY DEF Marks

LEMMA MarkCleared ==
  ASSUME Typed, Marks, NEW c \in Callers, up, UNCHANGED up, Works(c, call[c].ctx.txn),
         clearValidating(call[c].ctx), \A t \in Txns : ~Works(c, t)',
         \A d \in Callers \ {c} : call'[d] = call[d]
  PROVE  Marks'
<1> DEFINE k == call[c].ctx.txn
<1>1. DOMAIN validating' = DOMAIN validating \ {k}
  BY DEF clearValidating, Restrict
<1>2. \A d \in Callers \ {c}, t \in Txns : Works(d, t)' <=> Works(d, t)
  BY DEF Works
<1>3. \A t \in Txns : Works(c, t) => t = k
  BY DEF Works
<1> HIDE DEF k
<1> QED BY <1>1, <1>2, <1>3 DEF Marks, k

LEMMA MarksStep == TypeInv /\ [Next]_vars => Marks'
<1> SUFFICES ASSUME Typed, Marks, [Next]_vars PROVE Marks'
  BY DEF TypeInv
<1>1. ASSUME NEW c \in Callers, Call(c) PROVE Marks'
  BY <1>1, CallIs, MarksKept
<1>2. ASSUME NEW c \in Callers, JoinTimeout(c) \/ commitStep(c) PROVE Marks'
  <2> DEFINE k == call[c].ctx.txn
  <2>0. /\ up /\ UNCHANGED up /\ k \in Txns
        /\ \A d \in Callers \ {c} : call'[d] = call[d]
        /\ call[c] \in Active
    BY <1>2, InsideSteps, InsideCall
  <2>1. \A d \in Callers \ {c}, t \in Txns : Works(d, t)' <=> Works(d, t)
    BY <2>0 DEF Works
  <2>p. {"entering", "joining", "preparing", "aborting", "committing", "rejecting"} \subseteq Positions
    BY DEF Positions
  <2>i. ASSUME Return(c) PROVE \A t \in Txns : ~Works(c, t)'
    BY <2>p, <2>i, Moves DEF Works, Idle
  <2>g. ASSUME NEW q \in Positions, Goto(c, q)
        PROVE  call'[c].pc = q /\ call'[c].ctx = call[c].ctx
    BY <2>0, <2>g, Moves DEF Active
  <2>2. CASE \/ JoinTimeout(c) \/ ReturnExisting(c) \/ RefuseEntry(c) \/ appendAborted(c)
    <3>1. /\ Return(c) /\ UNCHANGED validating
          /\ call[c].pc \in {"joining", "entering", "aborting"}
      BY <2>2 DEF JoinTimeout, ReturnExisting, RefuseEntry, appendAborted, At, memory
    <3>2. \A t \in Txns : ~Works(c, t)
      BY <3>1 DEF Works
    <3> QED BY <2>0, <2>1, <2>i, <3>1, <3>2, MarksKept
  <2>3. CASE Join(c) \/ Wake(c)
    <3>1. /\ Goto(c, "joining") \/ Goto(c, "entering")
          /\ UNCHANGED validating /\ call[c].pc \in {"joining", "entering"}
      BY <2>3 DEF Join, Wake, At, memory
    <3>2. \A t \in Txns : ~Works(c, t) /\ ~Works(c, t)'
      BY <2>p, <2>g, <3>1 DEF Works
    <3> QED BY <2>0, <2>1, <3>1, <3>2, MarksKept
  <2>4. CASE StartValidating(c)
    <3>1. /\ Goto(c, "preparing") /\ call[c].pc = "entering" /\ k \notin DOMAIN validating
          /\ validating' = Put(validating, k, Fingerprint(call[c].ctx))
      BY <2>4 DEF StartValidating, At, Validating
    <3>2. DOMAIN validating' = DOMAIN validating \cup {k}
      BY <3>1 DEF Put
    <3>3. \A t \in Txns : ~Works(c, t) /\ (Works(c, t)' <=> t = k)
      BY <2>p, <2>g, <3>1 DEF Works
    <3> HIDE DEF k
    <3> QED BY <2>0, <2>1, <3>1, <3>2, <3>3 DEF Marks
  <2>5. CASE PrepareAccepted(c)
    <3>1. /\ Goto(c, "committing") /\ UNCHANGED validating /\ call[c].pc = "preparing"
      BY <2>5 DEF PrepareAccepted, At, memory
    <3>2. \A t \in Txns : Works(c, t)' <=> Works(c, t)
      BY <2>p, <2>g, <3>1 DEF Works
    <3> QED BY <2>0, <2>1, <3>1, <3>2, MarksKept
  <2>6. CASE PrepareRejected(c)
    <3>1. Goto(c, "aborting") /\ clearValidating(call[c].ctx) /\ Works(c, k)
      BY <2>6 DEF PrepareRejected, At, Works
    <3>2. \A t \in Txns : ~Works(c, t)'
      BY <2>p, <2>g, <3>1 DEF Works
    <3> QED BY <2>0, <3>1, <3>2, MarkCleared
  <2>7. CASE RejectCommit(c)
    <3>1. Return(c) /\ clearValidating(call[c].ctx) /\ Works(c, k)
      BY <2>7 DEF RejectCommit, At, Works
    <3> QED BY <2>0, <2>i, <3>1, MarkCleared
  <2>8. CASE CommitRefused(c) \/ CommitRecord(c)
    <3>1. /\ Works(c, k) /\ call[c].pc = "committing"
          /\ \/ Return(c) /\ clearValidating(call[c].ctx)
             \/ Goto(c, "rejecting") /\ UNCHANGED validating
      BY <2>8 DEF CommitRefused, CommitRecord, At, Works, memory
    <3>2. CASE Return(c) /\ clearValidating(call[c].ctx)
      BY <2>0, <2>i, <3>1, <3>2, MarkCleared
    <3>3. CASE Goto(c, "rejecting") /\ UNCHANGED validating
      <4>1. \A t \in Txns : Works(c, t)' <=> Works(c, t)
        BY <2>p, <2>g, <3>1, <3>3 DEF Works
      <4> QED BY <2>0, <2>1, <3>3, <4>1, MarksKept
    <3> QED BY <3>1, <3>2, <3>3
  <2> QED BY <1>2, <2>2, <2>3, <2>4, <2>5, <2>6, <2>7, <2>8 DEF commitStep
<1>3. ASSUME NEW t \in Txns, Expire(t) PROVE Marks'
  BY <1>3 DEF Expire, Marks, Works, memory
<1>4. ASSUME NEW t \in Txns, tombstone(t) PROVE Marks'
  BY <1>4, TombstoneIs DEF Marks, Works
<1>5. ASSUME Crash PROVE Marks'
  BY <1>5, CrashIs DEF Marks
<1>6. ASSUME Restart PROVE Marks'
  <2>1. (\A c \in Callers : call'[c] = Idle) /\ DOMAIN validating' = {} /\ up' = TRUE
    BY <1>6 DEF Restart, Marks
  <2>2. \A c \in Callers, t \in Txns : ~Works(c, t)'
    BY <2>1 DEF Works, Idle
  <2> QED BY <2>1, <2>2 DEF Marks
<1>7. CASE UNCHANGED vars
  BY <1>7 DEF vars, Marks, Works
<1> QED BY <1>1, <1>2, <1>3, <1>4, <1>5, <1>6, <1>7 DEF Next

LEMMA TypeInvInit == Init => TypeInv
<1> SUFFICES ASSUME Init PROVE TypeInv
  OBVIOUS
<1>1. DOMAIN records = {} /\ DOMAIN owners = {} /\ DOMAIN validating = {}
  BY DEF Init
<1>2. wal \in Seq(Entries)
  BY EmptySeq DEF Init
<1>3. Typed
  BY <1>1, <1>2 DEF Init, Typed
<1>4. \A c \in Callers, t \in Txns : ~Works(c, t)
  BY DEF Init, Works, Idle
<1> QED BY <1>1, <1>3, <1>4 DEF TypeInv, Marks, Init

LEMMA TypeInvIsTypeOK == TypeInv => TypeOK
<1> SUFFICES ASSUME TypeInv PROVE TypeOK
  OBVIOUS
<1>1. \A i \in DOMAIN wal : wal[i] \in Frames \cup {Torn}
  BY LenProperties DEF TypeInv, Typed, Entries
<1>2. \A c \in Callers : call[c].pc \in Positions \cup {"idle"}
  BY DEF TypeInv, Typed, Active, Idle
<1>3. ASSUME up, NEW t \in Txns
      PROVE  Cardinality({c \in Callers : /\ call[c].pc \in {"preparing", "committing", "rejecting"}
                                          /\ call[c].ctx.txn = t})
               = IF t \in DOMAIN validating THEN 1 ELSE 0
  <2> DEFINE W == {c \in Callers : /\ call[c].pc \in {"preparing", "committing", "rejecting"}
                                   /\ call[c].ctx.txn = t}
  <2>1. CASE t \in DOMAIN validating
    <3>1. PICK c \in Callers : Works(c, t)
      BY <1>3, <2>1 DEF TypeInv, Marks
    <3>2. W = {c}
      BY <1>3, <3>1 DEF TypeInv, Marks, Works
    <3> QED BY <2>1, <3>2, FS_Singleton
  <2>2. CASE t \notin DOMAIN validating
    <3>1. W = {}
      BY <1>3, <2>2 DEF TypeInv, Marks, Works
    <3> QED BY <2>2, <3>1, FS_EmptySet
  <2> QED BY <2>1, <2>2
<1> QED BY <1>1, <1>2, <1>3 DEF TypeInv, Typed, TypeOK

\* The store's maps, log and callers keep their types, and a transaction is marked as
\* validating exactly while one caller works on it, however callers race, prepare fails,
\* writes fail and the process crashes.
THEOREM TypeCorrect == Spec => []TypeOK
<1>1. Init => TypeInv
  BY TypeInvInit
<1>2. TypeInv /\ [Next]_vars => TypeInv'
  BY TypedStep, MarksStep DEF TypeInv
<1>3. TypeInv => TypeOK
  BY TypeInvIsTypeOK
<1> QED BY <1>1, <1>2, <1>3, PTL DEF Spec

-----------------------------------------------------------------------------
(* What the log says is consumed. *)

\* An entry that is no committed frame, or one whose references are new.
Harmless(f) ==
  f.state = "Committed" =>
    \A i \in DOMAIN wal : wal[i].state = "Committed" => Refs(wal[i].ctx) \cap Refs(f.ctx) = {}

LEMMA SoleGrows ==
  ASSUME Typed, Sole, NEW f \in Entries, Harmless(f), wal' = Append(wal, f)
  PROVE  Sole'
<1>1. /\ DOMAIN wal = 1 .. Len(wal) /\ Len(wal) \in Nat
      /\ DOMAIN wal' = 1 .. Len(wal) + 1
      /\ \A i \in DOMAIN wal : wal'[i] = wal[i]
      /\ wal'[Len(wal) + 1] = f
  BY AppendIs DEF Typed
<1> SUFFICES ASSUME NEW i \in DOMAIN wal', NEW j \in DOMAIN wal', i # j,
                    wal'[i].state = "Committed", wal'[j].state = "Committed"
             PROVE  Refs(wal'[i].ctx) \cap Refs(wal'[j].ctx) = {}
  BY DEF Sole
<1>2. \A n \in DOMAIN wal' : n \in DOMAIN wal \/ n = Len(wal) + 1
  BY <1>1
<1>3. CASE i \in DOMAIN wal /\ j \in DOMAIN wal
  BY <1>1, <1>3 DEF Sole
<1>4. CASE i = Len(wal) + 1 /\ j \in DOMAIN wal
  BY <1>1, <1>4 DEF Harmless
<1>5. CASE i \in DOMAIN wal /\ j = Len(wal) + 1
  BY <1>1, <1>5 DEF Harmless
<1> QED BY <1>2, <1>3, <1>4, <1>5

\* An appended entry leaves what is logged in place.
LEMMA LoggedGrows ==
  ASSUME Typed, NEW f \in Entries, wal' = Append(wal, f)
  PROVE  /\ \A i \in DOMAIN wal : i \in DOMAIN wal' /\ wal'[i] = wal[i]
         /\ \E i \in DOMAIN wal' : wal'[i] = f
         /\ \A i \in DOMAIN wal' : i \in DOMAIN wal \/ wal'[i] = f
<1>1. /\ DOMAIN wal = 1 .. Len(wal) /\ Len(wal) \in Nat
      /\ DOMAIN wal' = 1 .. Len(wal) + 1
      /\ \A i \in DOMAIN wal : i \in DOMAIN wal' /\ wal'[i] = wal[i]
      /\ wal'[Len(wal) + 1] = f
  BY AppendIs DEF Typed
<1>2. Len(wal) + 1 \in DOMAIN wal' /\ \A i \in DOMAIN wal' : i \in DOMAIN wal \/ i = Len(wal) + 1
  BY <1>1
<1> QED BY <1>1, <1>2

\* The refusal of an owned reference in the last critical section is what keeps the
\* committed frames apart.
LEMMA CommitIsHarmless ==
  ASSUME Covered, up, NEW x \in Contexts, ~RefusesCommit(x)
  PROVE  Harmless(Frame("Committed", x))
BY FrameType DEF Covered, RefusesCommit, Owned, Harmless

\* An entry other than a committed frame keeps the three invariants.
LEMMA LogInvGrows ==
  ASSUME LogInv, NEW f \in Entries, f.state # "Committed", wal' = Append(wal, f), UNCHANGED owners,
         up' => up,
         \A t \in DOMAIN records' : records'[t] = f \/ (t \in DOMAIN records /\ records'[t] = records[t])
  PROVE  Sole' /\ Covered' /\ Logged'
<1>1. Sole'
  BY SoleGrows DEF LogInv, TypeInv, Harmless
<1>2. /\ \A i \in DOMAIN wal : i \in DOMAIN wal' /\ wal'[i] = wal[i]
      /\ \E i \in DOMAIN wal' : wal'[i] = f
      /\ \A i \in DOMAIN wal' : i \in DOMAIN wal \/ wal'[i] = f
  BY LoggedGrows DEF LogInv, TypeInv
<1>3. Covered'
  BY <1>2 DEF LogInv, Covered
<1>4. Logged'
  BY <1>2 DEF LogInv, Logged
<1> QED BY <1>1, <1>3, <1>4

LEMMA LogInvKept ==
  ASSUME LogInv, UNCHANGED <<wal, owners>>, up' => up,
         \A t \in DOMAIN records' : t \in DOMAIN records /\ records'[t] = records[t]
  PROVE  Sole' /\ Covered' /\ Logged'
BY DEF LogInv, Sole, Covered, Logged

LEMMA CommitKeepsLogInv ==
  ASSUME LogInv, NEW c \in Callers, call[c].pc \in Positions, up, Commits(c)
  PROVE  Sole' /\ Covered' /\ Logged'
<1> DEFINE x == call[c].ctx
           f == Frame("Committed", x)
           k == x.txn
<1>1. x \in Contexts
  BY InsideCall DEF LogInv, TypeInv
<1>2. f \in Frames /\ f \in Entries /\ f.ctx = x /\ f.state = "Committed"
  BY <1>1, FrameType DEF Entries
<1>3. ~RefusesCommit(x) /\ wal' = Append(wal, f) /\ records' = Put(records, k, f) /\ owners' = Own(x)
  BY DEF Commits
<1>4. Harmless(f)
  BY <1>1, <1>3, CommitIsHarmless DEF LogInv
<1> HIDE DEF f
<1>5. Sole'
  BY <1>2, <1>3, <1>4, SoleGrows DEF LogInv, TypeInv
<1>6. /\ \A i \in DOMAIN wal : i \in DOMAIN wal' /\ wal'[i] = wal[i]
      /\ \E i \in DOMAIN wal' : wal'[i] = f
      /\ \A i \in DOMAIN wal' : i \in DOMAIN wal \/ wal'[i] = f
  BY <1>2, <1>3, LoggedGrows DEF LogInv, TypeInv
<1>7. /\ \A r \in DOMAIN owners : r \in DOMAIN owners' /\ owners'[r] = owners[r]
      /\ \A r \in Refs(x) : r \in DOMAIN owners' /\ owners'[r] = k
  BY <1>3 DEF Own, RefusesCommit, Owned
<1>8. Covered'
  BY <1>2, <1>6, <1>7 DEF LogInv, Covered
<1>9. \A t \in DOMAIN records' : records'[t] = f \/ (t \in DOMAIN records /\ records'[t] = records[t])
  BY <1>3 DEF Put
<1>10. Logged'
  BY <1>6, <1>9 DEF LogInv, Logged
<1> QED BY <1>5, <1>8, <1>10

LEMMA RestartKeepsLogInv ==
  ASSUME LogInv, Restart
  PROVE  Sole' /\ Covered' /\ Logged'
<1>1. PICK w \in Loadable(wal) : wal' = w /\ records' = load(w).records /\ owners' = load(w).owners
  BY DEF Restart
<1>2. wal \in Seq(Entries)
  BY DEF LogInv, TypeInv, Typed
<1>3. w \in Seq(Frames) /\ Len(w) <= Len(wal) /\ \A i \in 1 .. Len(w) : w[i] = wal[i]
  BY <1>2, LoadableIs
<1>4. DOMAIN w = 1 .. Len(w) /\ DOMAIN wal = 1 .. Len(wal) /\ Len(w) \in Nat /\ Len(wal) \in Nat
  BY <1>2, <1>3, LenProperties
<1>5. \A i \in DOMAIN w : i \in DOMAIN wal /\ w[i] = wal[i]
  BY <1>3, <1>4
<1>6. Sole'
  BY <1>1, <1>5 DEF LogInv, Sole
<1>7. \A i, j \in DOMAIN w :
        w[i].state = "Committed" /\ w[j].state = "Committed" /\ i # j
          => Refs(w[i].ctx) \cap Refs(w[j].ctx) = {}
  BY <1>5 DEF LogInv, Sole
<1>8. Covered'
  <2>1. \A i \in DOMAIN w : w[i].state = "Committed" =>
          \A r \in Refs(w[i].ctx) : r \in DOMAIN load(w).owners /\ load(w).owners[r] = w[i].ctx.txn
    BY <1>3, <1>7, LoadOwners
  <2> QED BY <1>1, <2>1 DEF Covered
<1>9. Logged'
  BY <1>1, <1>3, LoadRecords DEF Logged
<1> QED BY <1>6, <1>8, <1>9

LEMMA LogInvStep ==
  ASSUME "unsynced" \notin WriteFaults
  PROVE  LogInv /\ [Next]_vars => LogInv'
<1> SUFFICES ASSUME LogInv, [Next]_vars PROVE LogInv'
  OBVIOUS
<1>0. TypeInv /\ Typed /\ TypeInv' /\ Torn \in Entries /\ Torn.state # "Committed" /\ Frames \subseteq Entries
  BY TypedStep, MarksStep DEF LogInv, TypeInv, Entries, Torn
<1> SUFFICES Sole' /\ Covered' /\ Logged'
  BY <1>0 DEF LogInv
<1>1. ASSUME NEW c \in Callers, Call(c) PROVE Sole' /\ Covered' /\ Logged'
  BY <1>0, <1>1, CallIs, LogInvKept
<1>2. ASSUME NEW c \in Callers, JoinTimeout(c) \/ commitStep(c) PROVE Sole' /\ Covered' /\ Logged'
  <2>1. /\ up /\ up' = up /\ call[c].pc \in Positions
        /\ Quiet(c) \/ Tells(c) \/ Aborts(c) \/ Commits(c) \/ Fails(c)
    BY <1>0, <1>2, InsideSteps
  <2>2. call[c].ctx \in Contexts
    BY <1>0, <2>1, InsideCall
  <2>3. CASE Quiet(c) \/ Tells(c)
    <3>1. /\ UNCHANGED <<wal, owners>>
          /\ \A t \in DOMAIN records' : t \in DOMAIN records /\ records'[t] = records[t]
      BY <2>3 DEF Quiet, Tells
    <3> QED BY <2>1, <3>1, LogInvKept
  <2>4. CASE Aborts(c)
    <3> DEFINE f == Frame("Aborted", call[c].ctx)
               k == call[c].ctx.txn
    <3>1. f \in Entries /\ f.state # "Committed"
      BY <1>0, <2>2, FrameType
    <3>2. CASE wal' = Append(wal, f) /\ records' = Put(records, k, f) /\ UNCHANGED owners
      <4> HIDE DEF f
      <4>1. \A t \in DOMAIN records' : records'[t] = f \/ (t \in DOMAIN records /\ records'[t] = records[t])
        BY <3>2 DEF Put
      <4> QED BY <2>1, <3>1, <3>2, <4>1, LogInvGrows
    <3>3. CASE UNCHANGED <<wal, records, owners>>
      BY <2>1, <3>3, LogInvKept
    <3>4. CASE wal' = Append(wal, Torn) /\ UNCHANGED <<records, owners>>
      BY <1>0, <2>1, <3>4, LogInvGrows
    <3> QED BY <2>4, <3>2, <3>3, <3>4 DEF Aborts
  <2>5. CASE Commits(c)
    BY <2>1, <2>5, CommitKeepsLogInv
  <2>6. CASE Fails(c)
    <3>1. CASE UNCHANGED <<wal, records, owners>>
      BY <2>1, <3>1, LogInvKept
    <3>2. CASE wal' = Append(wal, Torn) /\ UNCHANGED <<records, owners>>
      BY <1>0, <2>1, <3>2, LogInvGrows
    <3> QED BY <2>6, <3>1, <3>2 DEF Fails
  <2> QED BY <2>1, <2>3, <2>4, <2>5, <2>6
<1>3. ASSUME NEW t \in Txns, Expire(t) PROVE Sole' /\ Covered' /\ Logged'
  BY <1>3, LogInvKept DEF Expire, memory
<1>4. ASSUME NEW t \in Txns, tombstone(t) PROVE Sole' /\ Covered' /\ Logged'
  <2>1. PICK f \in Frames :
          /\ f.state = "Tombstoned"
          /\ \/ wal' = Append(wal, f) /\ records' = [records EXCEPT ![t] = f]
             \/ UNCHANGED <<wal, records>>
             \/ wal' = Append(wal, Torn) /\ UNCHANGED records
    BY <1>0, <1>4, TombstoneIs
  <2>2. up' = up /\ UNCHANGED owners
    BY <1>0, <1>4, TombstoneIs
  <2>3. CASE wal' = Append(wal, f) /\ records' = [records EXCEPT ![t] = f]
    <3>1. \A u \in DOMAIN records' : records'[u] = f \/ (u \in DOMAIN records /\ records'[u] = records[u])
      BY <2>3
    <3> QED BY <1>0, <2>1, <2>2, <2>3, <3>1, LogInvGrows
  <2>4. CASE UNCHANGED <<wal, records>>
    BY <2>2, <2>4, LogInvKept
  <2>5. CASE wal' = Append(wal, Torn) /\ UNCHANGED records
    BY <1>0, <2>2, <2>5, LogInvGrows
  <2> QED BY <2>1, <2>3, <2>4, <2>5
<1>5. ASSUME Crash PROVE Sole' /\ Covered' /\ Logged'
  <2>1. up /\ up' = FALSE /\ UNCHANGED <<records, owners>>
    BY <1>0, <1>5, CrashIs
  <2>2. CASE UNCHANGED wal
    BY <2>1, <2>2, LogInvKept
  <2>3. CASE wal' = Append(wal, Torn)
    BY <1>0, <2>1, <2>3, LogInvGrows
  <2>4. ASSUME NEW c \in Callers, call[c].pc = "aborting", wal' = Append(wal, Frame("Aborted", call[c].ctx))
        PROVE  Sole' /\ Covered' /\ Logged'
    <3> DEFINE f == Frame("Aborted", call[c].ctx)
    <3>1. f \in Entries /\ f.state # "Committed" /\ wal' = Append(wal, f)
      BY <1>0, <2>4, InsideCall, FrameType DEF Positions
    <3> HIDE DEF f
    <3> QED BY <2>1, <3>1, LogInvGrows
  <2>5. ASSUME NEW c \in Callers, call[c].pc = "committing", ~RefusesCommit(call[c].ctx),
               wal' = Append(wal, Frame("Committed", call[c].ctx))
        PROVE  Sole' /\ Covered' /\ Logged'
    <3> DEFINE f == Frame("Committed", call[c].ctx)
    <3>1. call[c].ctx \in Contexts
      BY <1>0, <2>5, InsideCall DEF Positions
    <3>2. f \in Entries /\ Harmless(f) /\ wal' = Append(wal, f)
      BY <1>0, <2>1, <2>5, <3>1, FrameType, CommitIsHarmless DEF LogInv
    <3> HIDE DEF f
    <3>3. Sole'
      BY <1>0, <3>2, SoleGrows DEF LogInv
    <3>4. Logged'
      BY <1>0, <2>1, <3>2, LoggedGrows DEF LogInv, Logged
    <3> QED BY <2>1, <3>3, <3>4 DEF Covered
  <2> QED BY <1>0, <1>5, <2>2, <2>3, <2>4, <2>5, CrashIs
<1>6. ASSUME Restart PROVE Sole' /\ Covered' /\ Logged'
  BY <1>6, RestartKeepsLogInv
<1>7. CASE UNCHANGED vars
  BY <1>7, LogInvKept DEF vars
<1> QED BY <1>1, <1>2, <1>3, <1>4, <1>5, <1>6, <1>7 DEF Next

LEMMA LogInvInit == Init => LogInv
BY TypeInvInit DEF Init, LogInv, Sole, Covered, Logged

\* No ProviderToken, Selection identity or lease belongs to two transactions that the store
\* holds as committed, as long as a frame whose fsync failed is not in the log; short frames
\* from failed or interrupted writes, crashes and any number of racing callers do no harm.
THEOREM ReferencesAreConsumedOnce ==
  ASSUME "unsynced" \notin WriteFaults
  PROVE  Spec => []ReferenceCommittedOnce
<1>1. Init => LogInv
  BY LogInvInit
<1>2. LogInv /\ [Next]_vars => LogInv'
  BY LogInvStep
<1>3. LogInv => ReferenceCommittedOnce
  <2> SUFFICES ASSUME LogInv, NEW t \in DOMAIN records, NEW u \in DOMAIN records, t # u,
                      records[t].state = "Committed", records[u].state = "Committed"
               PROVE  Refs(records[t].ctx) \cap Refs(records[u].ctx) = {}
    BY DEF ReferenceCommittedOnce
  <2>1. PICK i \in DOMAIN wal, j \in DOMAIN wal : wal[i] = records[t] /\ wal[j] = records[u]
    BY DEF LogInv, Logged
  <2>2. i # j
    BY <2>1 DEF LogInv, TypeInv, Typed
  <2> QED BY <2>1, <2>2 DEF LogInv, Sole
<1> QED BY <1>1, <1>2, <1>3, PTL DEF Spec

-----------------------------------------------------------------------------
(* What the store promised is in the log for good. *)

\* How the log changes when writes do not fail.
LEMMA LogStep ==
  ASSUME WriteFaults = {}, Typed, [Next]_vars
  PROVE  \/ UNCHANGED wal /\ (up' => up)
         \/ up /\ \E f \in Entries : wal' = Append(wal, f) /\ (up' => f \in Frames)
         \/ Restart
<1>0. Torn \in Entries /\ Frames \subseteq Entries
  BY DEF Entries
<1> DEFINE Goal == \/ UNCHANGED wal /\ (up' => up)
                   \/ up /\ \E f \in Entries : wal' = Append(wal, f) /\ (up' => f \in Frames)
                   \/ Restart
<1>f. ASSUME NEW c \in Callers, call[c].pc \in Positions
      PROVE  /\ Frame("Committed", call[c].ctx) \in Frames
             /\ Frame("Aborted", call[c].ctx) \in Frames
  BY <1>f, InsideCall, FrameType
<1>1. ASSUME NEW c \in Callers, Call(c) PROVE Goal
  BY <1>1, CallIs
<1>2. ASSUME NEW c \in Callers, JoinTimeout(c) \/ commitStep(c) PROVE Goal
  <2>1. /\ up /\ up' = up /\ call[c].pc \in Positions
        /\ Quiet(c) \/ Tells(c) \/ Aborts(c) \/ Commits(c) \/ Fails(c)
    BY <1>2, InsideSteps
  <2>2. CASE Quiet(c) \/ Tells(c) \/ Fails(c)
    BY <2>1, <2>2 DEF Quiet, Tells, Fails
  <2>3. CASE Aborts(c)
    BY <1>0, <1>f, <2>1, <2>3 DEF Aborts
  <2>4. CASE Commits(c)
    BY <1>0, <1>f, <2>1, <2>4 DEF Commits
  <2> QED BY <2>1, <2>2, <2>3, <2>4
<1>3. ASSUME NEW t \in Txns, Expire(t) PROVE Goal
  BY <1>3 DEF Expire
<1>4. ASSUME NEW t \in Txns, tombstone(t) PROVE Goal
  BY <1>0, <1>4, TombstoneIs
<1>5. ASSUME Crash PROVE Goal
  <2>1. up /\ up' = FALSE
    BY <1>5, CrashIs
  <2>2. \/ UNCHANGED wal \/ \E f \in Entries : wal' = Append(wal, f)
    BY <1>0, <1>5, <1>f, CrashIs DEF Positions
  <2> QED BY <2>1, <2>2
<1>6. CASE UNCHANGED vars
  BY <1>6 DEF vars
<1> HIDE DEF Goal
<1>7. Goal
  BY <1>1, <1>2, <1>3, <1>4, <1>5, <1>6 DEF Next, Goal
<1> QED BY <1>7 DEF Goal

\* Whole frames stay in the log, a short one is cut off by the next start.
LEMMA LogIsKept ==
  ASSUME WriteFaults = {}, Typed, Whole, [Next]_vars
  PROVE  /\ \A i \in DOMAIN wal : wal[i] # Torn => i \in DOMAIN wal' /\ wal'[i] = wal[i]
         /\ Whole'
<1>0. wal \in Seq(Entries) /\ DOMAIN wal = 1 .. Len(wal) /\ Len(wal) \in Nat
  BY LenProperties DEF Typed
<1>1. CASE UNCHANGED wal /\ (up' => up)
  BY <1>1 DEF Whole
<1>2. CASE up /\ \E f \in Entries : wal' = Append(wal, f) /\ (up' => f \in Frames)
  <2>1. PICK f \in Entries : wal' = Append(wal, f) /\ (up' => f \in Frames)
    BY <1>2
  <2>2. /\ DOMAIN wal' = 1 .. Len(wal) + 1 /\ Len(wal') = Len(wal) + 1
        /\ \A i \in DOMAIN wal : i \in DOMAIN wal' /\ wal'[i] = wal[i]
        /\ wal'[Len(wal) + 1] = f
    BY <1>0, <2>1, AppendIs
  <2>3. up' => f # Torn
    BY <2>1, FrameFields
  <2> QED BY <1>0, <1>2, <2>2, <2>3 DEF Whole
<1>3. CASE Restart
  <2>1. up' /\ ~up /\ wal' \in Loadable(wal)
    BY <1>3 DEF Restart
  <2>2. /\ wal' \in Seq(Frames) /\ Len(wal') <= Len(wal) /\ \A i \in 1 .. Len(wal') : wal'[i] = wal[i]
        /\ Len(wal') < Len(wal) => wal[Len(wal') + 1] = Torn
    BY <1>0, <2>1, LoadableIs
  <2>3. /\ DOMAIN wal' = 1 .. Len(wal') /\ Len(wal') \in Nat
        /\ \A i \in DOMAIN wal' : wal'[i] \in Frames
    BY <2>2, LenProperties
  <2>4. Len(wal') < Len(wal) => Len(wal') + 1 = Len(wal) /\ wal[Len(wal)] = Torn
    <3> SUFFICES ASSUME Len(wal') < Len(wal) PROVE Len(wal') + 1 = Len(wal)
      BY <2>2
    <3>1. Len(wal') + 1 \in DOMAIN wal
      BY <1>0, <2>3
    <3> QED BY <2>1, <2>2, <3>1 DEF Whole
  <2>5. \A i \in DOMAIN wal : wal[i] # Torn => i \in DOMAIN wal' /\ wal'[i] = wal[i]
    <3> SUFFICES ASSUME NEW i \in DOMAIN wal, wal[i] # Torn
                 PROVE  i \in DOMAIN wal' /\ wal'[i] = wal[i]
      OBVIOUS
    <3>1. i \in Nat /\ 1 <= i /\ i <= Len(wal)
      BY <1>0
    <3>2. i <= Len(wal')
      <4> SUFFICES ASSUME ~(i <= Len(wal')) PROVE FALSE
        OBVIOUS
      <4>1. Len(wal') \in Nat /\ Len(wal) \in Nat /\ Len(wal') < Len(wal)
        BY <1>0, <2>3, <3>1
      <4>2. i = Len(wal) /\ wal[Len(wal)] = Torn
        BY <2>4, <3>1, <4>1
      <4> QED BY <4>2
    <3> QED BY <2>2, <2>3, <3>1, <3>2
  <2>6. Whole'
    BY <2>1, <2>3, FrameFields DEF Whole
  <2> QED BY <2>5, <2>6
<1> QED BY <1>1, <1>2, <1>3, LogStep

LEMMA CommittedEntry ==
  ASSUME Typed, NEW i \in DOMAIN wal, wal[i].state = "Committed"
  PROVE  wal[i] \in Frames /\ wal[i] # Torn /\ wal[i].ctx \in Contexts
<1>1. wal[i] \in Entries
  BY LenProperties DEF Typed
<1> QED BY <1>1, FrameFields DEF Entries, Torn

\* A transaction with a committed frame is not committed again: the Selection that its
\* identifier names is owned.
LEMMA CommitIsFirst ==
  ASSUME LogInv, up, NEW x \in Contexts, ~RefusesCommit(x),
         NEW i \in DOMAIN wal, wal[i].state = "Committed"
  PROVE  wal[i].ctx.txn # x.txn
<1>1. wal[i].ctx \in Contexts
  BY CommittedEntry DEF LogInv, TypeInv
<1>2. Refs(wal[i].ctx) \cap Refs(x) = {}
  BY DEF LogInv, Covered, RefusesCommit, Owned
<1>3. wal[i].ctx.sel # x.sel
  BY <1>2 DEF Refs
<1> QED BY <1>1, <1>3, TransactionNamesSelection

\* The steps that make a promise.
LEMMA PromiseSteps ==
  ASSUME Typed, [Next]_vars
  PROVE  \/ /\ UNCHANGED <<owners, told, commits>>
         \/ \E c \in Callers : /\ up /\ call[c].pc \in Positions /\ call[c].ctx \in Contexts
                               /\ Tells(c) \/ Commits(c)
         \/ Restart /\ UNCHANGED <<told, commits>>
<1>1. ASSUME NEW c \in Callers, JoinTimeout(c) \/ commitStep(c)
      PROVE  \/ UNCHANGED <<owners, told, commits>>
             \/ /\ up /\ call[c].pc \in Positions /\ call[c].ctx \in Contexts
                /\ Tells(c) \/ Commits(c)
  <2>1. /\ up /\ call[c].pc \in Positions
        /\ Quiet(c) \/ Tells(c) \/ Aborts(c) \/ Commits(c) \/ Fails(c)
    BY <1>1, InsideSteps
  <2>2. Quiet(c) \/ Aborts(c) \/ Fails(c) => UNCHANGED <<owners, told, commits>>
    BY DEF Quiet, Aborts, Fails
  <2> QED BY <2>1, <2>2, InsideCall
<1>2. ASSUME NEW c \in Callers, Call(c) PROVE UNCHANGED <<owners, told, commits>>
  BY <1>2, CallIs
<1>3. ASSUME NEW t \in Txns, Expire(t) \/ tombstone(t) PROVE UNCHANGED <<owners, told, commits>>
  BY <1>3 DEF Expire, tombstone, memory, history
<1>4. Crash \/ UNCHANGED vars => UNCHANGED <<owners, told, commits>>
  BY CrashIs DEF vars
<1>5. Restart => UNCHANGED <<told, commits>>
  BY DEF Restart, history
<1> QED BY <1>1, <1>2, <1>3, <1>4, <1>5 DEF Next

LEMMA HistoryInvStep ==
  ASSUME WriteFaults = {}
  PROVE  HistoryInv /\ [Next]_vars => HistoryInv'
<1> SUFFICES ASSUME HistoryInv, [Next]_vars PROVE HistoryInv'
  OBVIOUS
<1>0. LogInv /\ TypeInv /\ Typed /\ LogInv' /\ Typed'
  BY LogInvStep DEF HistoryInv, LogInv, TypeInv
<1>1. /\ Whole'
      /\ \A i \in DOMAIN wal : wal[i] # Torn => i \in DOMAIN wal' /\ wal'[i] = wal[i]
  BY <1>0, LogIsKept DEF HistoryInv
<1>2. \A i \in DOMAIN wal : wal[i].state = "Committed" => i \in DOMAIN wal' /\ wal'[i] = wal[i]
  BY <1>0, <1>1, CommittedEntry
<1> SUFFICES OwnersLogged' /\ ToldLogged' /\ CommitsLogged'
  BY <1>0, <1>1 DEF HistoryInv
<1>t. UNCHANGED told => ToldLogged'
  BY <1>2 DEF HistoryInv, ToldLogged
<1>c. UNCHANGED commits => CommitsLogged'
  BY <1>2 DEF HistoryInv, CommitsLogged
<1>o. UNCHANGED owners => OwnersLogged'
  BY <1>2 DEF HistoryInv, OwnersLogged
<1>3. CASE UNCHANGED <<owners, told, commits>>
  BY <1>3, <1>c, <1>o, <1>t
<1>4. CASE Restart /\ UNCHANGED <<told, commits>>
  <2>1. up' /\ wal' \in Loadable(wal) /\ owners' = load(wal').owners
    BY <1>4 DEF Restart
  <2>2. wal' \in Seq(Frames)
    BY <1>0, <2>1, LoadableIs DEF Typed
  <2>3. Sole' /\ Covered'
    BY <1>0 DEF LogInv
  <2>4. \A r \in DOMAIN load(wal').owners :
          \E i \in DOMAIN wal' : wal'[i].state = "Committed" /\ r \in Refs(wal'[i].ctx)
    BY <2>2, <2>3, LoadOwners DEF Sole
  <2>5. OwnersLogged'
    BY <2>1, <2>3, <2>4 DEF OwnersLogged, Covered
  <2> QED BY <1>4, <1>c, <1>t, <2>5
<1>5. ASSUME NEW c \in Callers, call[c].ctx \in Contexts, Tells(c) PROVE OwnersLogged' /\ ToldLogged' /\ CommitsLogged'
  <2> DEFINE x == call[c].ctx
  <2>1. PICK i \in DOMAIN wal : wal[i] = records[x.txn]
    BY <1>0, <1>5 DEF Tells, SameAs, LogInv, Logged
  <2>2. /\ wal[i].state = "Committed" /\ wal[i].ctx.txn = x.txn
        /\ Fingerprint(wal[i].ctx) = Fingerprint(x)
    BY <1>0, <1>5, <2>1 DEF Tells, SameAs, Typed
  <2>3. ToldLogged'
    BY <1>2, <1>5, <2>2 DEF Tells, HistoryInv, ToldLogged
  <2> QED BY <1>5, <1>c, <1>o, <2>3 DEF Tells
<1>6. ASSUME NEW c \in Callers, up, call[c].ctx \in Contexts, Commits(c)
      PROVE  OwnersLogged' /\ ToldLogged' /\ CommitsLogged'
  <2> DEFINE x == call[c].ctx
             f == Frame("Committed", x)
             k == x.txn
  <2>1. f \in Entries /\ f.ctx = x /\ f.state = "Committed" /\ k \in Txns
    BY <1>6, FrameType DEF Entries
  <2>2. /\ ~RefusesCommit(x) /\ wal' = Append(wal, f) /\ owners' = Own(x)
        /\ told' = told \cup {x} /\ commits' = [commits EXCEPT ![k] = @ + 1]
    BY <1>6 DEF Commits
  <2>3. PICK n \in DOMAIN wal' : wal'[n] = f
    BY <1>0, <2>1, <2>2, LoggedGrows
  <2>4. \A i \in DOMAIN wal : wal[i].state = "Committed" => wal[i].ctx.txn # k
    BY <1>0, <1>6, <2>2, CommitIsFirst
  <2> HIDE DEF f
  <2>5. OwnersLogged'
    <3> SUFFICES ASSUME NEW r \in DOMAIN owners'
                 PROVE  \E i \in DOMAIN wal' : /\ wal'[i].state = "Committed" /\ r \in Refs(wal'[i].ctx)
                                               /\ wal'[i].ctx.txn = owners'[r]
      BY DEF OwnersLogged
    <3>1. CASE r \in DOMAIN owners
      <4>1. owners'[r] = owners[r]
        BY <2>2, <3>1 DEF Own
      <4> QED BY <1>2, <3>1, <4>1 DEF HistoryInv, OwnersLogged
    <3>2. CASE r \notin DOMAIN owners
      <4>1. r \in Refs(x) /\ owners'[r] = k
        BY <2>2, <3>2 DEF Own
      <4> QED BY <2>1, <2>3, <4>1
    <3> QED BY <3>1, <3>2
  <2>6. ToldLogged'
    BY <1>2, <2>1, <2>2, <2>3 DEF HistoryInv, ToldLogged
  <2>7. CommitsLogged'
    <3>1. commits[k] = 0 /\ commits \in [Txns -> Nat]
      BY <1>0, <2>1, <2>4 DEF HistoryInv, CommitsLogged, Typed
    <3> SUFFICES ASSUME NEW t \in Txns
                 PROVE  /\ commits'[t] <= 1
                        /\ commits'[t] # 0 => \E i \in DOMAIN wal' :
                             wal'[i].state = "Committed" /\ wal'[i].ctx.txn = t
      BY DEF CommitsLogged
    <3>2. CASE t = k
      BY <2>1, <2>2, <2>3, <3>1, <3>2
    <3>3. CASE t # k
      <4>1. commits'[t] = commits[t]
        BY <2>2, <3>1, <3>3
      <4> QED BY <1>2, <4>1 DEF HistoryInv, CommitsLogged
    <3> QED BY <3>2, <3>3
  <2> QED BY <2>5, <2>6, <2>7
<1> QED BY <1>0, <1>3, <1>4, <1>5, <1>6, PromiseSteps

LEMMA HistoryInvInit == Init => HistoryInv
<1> SUFFICES ASSUME Init PROVE HistoryInv
  OBVIOUS
<1>1. DOMAIN wal = {} /\ DOMAIN owners = {} /\ told = {} /\ \A t \in Txns : commits[t] = 0
  BY DEF Init
<1> QED BY <1>1, LogInvInit DEF HistoryInv, Whole, OwnersLogged, ToldLogged, CommitsLogged

\* When writes do not fail, a transaction is committed and projected at most once, however
\* many duplicates race, are retried after an abort, or arrive after a restart.
THEOREM CommitsOnce ==
  ASSUME WriteFaults = {}
  PROVE  Spec => []CommittedAtMostOnce
<1>1. HistoryInv => CommittedAtMostOnce
  BY DEF HistoryInv, CommitsLogged, CommittedAtMostOnce
<1>2. HistoryInv /\ [Next]_vars => HistoryInv'
  BY HistoryInvStep
<1> QED BY <1>1, <1>2, HistoryInvInit, PTL DEF Spec

\* When writes do not fail, all callers that are told of the success of one transaction
\* presented the same payload, Selection and token.
THEOREM SuccessIsExact ==
  ASSUME WriteFaults = {}
  PROVE  Spec => []SuccessIsForOneSelection
<1>1. HistoryInv => SuccessIsForOneSelection
  <2> SUFFICES ASSUME HistoryInv, NEW x \in told, NEW y \in told, x.txn = y.txn
               PROVE  x.payload = y.payload /\ x.sel = y.sel /\ x.token = y.token
    BY DEF SuccessIsForOneSelection
  <2>1. PICK i \in DOMAIN wal : /\ wal[i].state = "Committed" /\ wal[i].ctx.txn = x.txn
                                /\ Fingerprint(wal[i].ctx) = Fingerprint(x)
    BY DEF HistoryInv, ToldLogged
  <2>2. PICK j \in DOMAIN wal : /\ wal[j].state = "Committed" /\ wal[j].ctx.txn = y.txn
                                /\ Fingerprint(wal[j].ctx) = Fingerprint(y)
    BY DEF HistoryInv, ToldLogged
  <2>3. wal[i].ctx.sel = wal[j].ctx.sel
    BY <2>1, <2>2, CommittedEntry, TransactionNamesSelection DEF HistoryInv, LogInv, TypeInv
  <2>4. Refs(wal[i].ctx) \cap Refs(wal[j].ctx) # {}
    BY <2>3 DEF Refs
  <2>5. i = j
    BY <2>1, <2>2, <2>4 DEF HistoryInv, LogInv, Sole
  <2> QED BY <2>1, <2>2, <2>5 DEF Fingerprint
<1>2. HistoryInv /\ [Next]_vars => HistoryInv'
  BY HistoryInvStep
<1> QED BY <1>1, <1>2, HistoryInvInit, PTL DEF Spec

\* When writes do not fail, what a committed transaction consumed is never given back or
\* passed on, not by expiry, tombstoning, abort, crash or recovery.
THEOREM OwnershipIsFinal ==
  ASSUME WriteFaults = {}
  PROVE  Spec => OwnersAreFinal
<1>1. HistoryInv /\ HistoryInv' /\ [Next]_vars =>
        [\A r \in DOMAIN owners : r \in DOMAIN owners' /\ owners'[r] = owners[r]]_vars
  <2> SUFFICES ASSUME HistoryInv, HistoryInv', [Next]_vars, NEW r \in DOMAIN owners
               PROVE  r \in DOMAIN owners' /\ owners'[r] = owners[r]
    OBVIOUS
  <2>1. PICK i \in DOMAIN wal : /\ wal[i].state = "Committed" /\ r \in Refs(wal[i].ctx)
                                /\ wal[i].ctx.txn = owners[r]
    BY DEF HistoryInv, OwnersLogged
  <2>2. i \in DOMAIN wal' /\ wal'[i] = wal[i]
    BY <2>1, CommittedEntry, LogIsKept DEF HistoryInv, LogInv, TypeInv
  <2>3. CASE up'
    BY <2>1, <2>2, <2>3 DEF HistoryInv, LogInv, Covered
  <2>4. CASE UNCHANGED owners
    BY <2>4
  <2>5. ASSUME NEW c \in Callers, owners' = Own(call[c].ctx)
        PROVE  r \in DOMAIN owners' /\ owners'[r] = owners[r]
    BY <2>5 DEF Own
  <2>6. up' \/ UNCHANGED owners \/ \E c \in Callers : owners' = Own(call[c].ctx)
    <3>1. ASSUME NEW c \in Callers, Tells(c) \/ Commits(c)
          PROVE  UNCHANGED owners \/ owners' = Own(call[c].ctx)
      BY <3>1 DEF Tells, Commits
    <3>2. Restart => up'
      BY DEF Restart
    <3> QED BY <3>1, <3>2, PromiseSteps DEF HistoryInv, LogInv, TypeInv
  <2> QED BY <2>3, <2>4, <2>5, <2>6
<1>2. HistoryInv /\ [Next]_vars => HistoryInv'
  BY HistoryInvStep
<1> QED BY <1>1, <1>2, HistoryInvInit, PTL DEF Spec, OwnersAreFinal

-----------------------------------------------------------------------------
(* Committed transactions stay committed. *)

\* An entry that may follow the frames in the log.
Follows(f) ==
  f # Torn /\ ~Final(f) =>
    \A i \in DOMAIN wal : wal[i].state = "Committed" => wal[i].ctx.txn # f.ctx.txn

LEMMA FramesFinalGrows ==
  ASSUME Typed, FramesFinal, NEW f \in Entries, Follows(f), wal' = Append(wal, f)
  PROVE  FramesFinal'
<1>1. /\ DOMAIN wal = 1 .. Len(wal) /\ Len(wal) \in Nat
      /\ DOMAIN wal' = 1 .. Len(wal) + 1
      /\ \A i \in DOMAIN wal : wal'[i] = wal[i]
      /\ wal'[Len(wal) + 1] = f
  BY AppendIs DEF Typed
<1> SUFFICES ASSUME NEW i \in DOMAIN wal', NEW j \in DOMAIN wal', i < j,
                    wal'[i].state = "Committed", wal'[j] # Torn,
                    wal'[j].ctx.txn = wal'[i].ctx.txn
             PROVE  Final(wal'[j])
  BY DEF FramesFinal
<1>2. i \in DOMAIN wal /\ (j \in DOMAIN wal \/ j = Len(wal) + 1)
  BY <1>1
<1>3. CASE j \in DOMAIN wal
  BY <1>1, <1>2, <1>3 DEF FramesFinal
<1>4. CASE j = Len(wal) + 1
  BY <1>1, <1>2, <1>4 DEF Follows
<1> QED BY <1>2, <1>3, <1>4

\* A step that neither writes nor lets a caller in.
LEMMA DurableKept ==
  ASSUME DurableInv, UNCHANGED wal, up' => up,
         \A c \in Callers : Past(c)' => Past(c) /\ call'[c].ctx = call[c].ctx,
         \A t \in DOMAIN records : Final(records[t]) => t \in DOMAIN records' /\ records'[t] = records[t]
  PROVE  Settled' /\ FramesFinal' /\ RecordsFinal'
<1>1. Settled'
  BY DEF DurableInv, Settled
<1>2. FramesFinal'
  BY DEF DurableInv, FramesFinal
<1>3. RecordsFinal'
  BY DEF DurableInv, RecordsFinal
<1> QED BY <1>1, <1>2, <1>3

LEMMA DurableInvStep ==
  ASSUME WriteFaults = {}, \A c, d \in Callers : c = d
  PROVE  DurableInv /\ [Next]_vars => DurableInv'
<1> SUFFICES ASSUME DurableInv, [Next]_vars PROVE DurableInv'
  OBVIOUS
<1>0. HistoryInv /\ LogInv /\ Typed /\ HistoryInv' /\ Torn \in Entries /\ Frames \subseteq Entries
  BY HistoryInvStep DEF DurableInv, HistoryInv, LogInv, TypeInv, Entries
<1> SUFFICES Settled' /\ FramesFinal' /\ RecordsFinal'
  BY <1>0 DEF DurableInv
<1> DEFINE Goal == Settled' /\ FramesFinal' /\ RecordsFinal'
<1>1. ASSUME NEW c \in Callers, Call(c) PROVE Goal
  <2>1. UNCHANGED <<records, wal, up>> /\ \A d \in Callers : ~Past(d)'
    BY <1>0, <1>1, CallIs
  <2> QED BY <2>1, DurableKept
<1>2. ASSUME NEW c \in Callers, JoinTimeout(c) \/ commitStep(c) PROVE Goal
  <2> DEFINE x == call[c].ctx
             k == x.txn
  <2>1. /\ up /\ up' = up /\ call[c].pc \in Positions
        /\ Quiet(c) \/ Tells(c) \/ Aborts(c) \/ Commits(c) \/ Fails(c)
        /\ call'[c] = Idle \/ call'[c].ctx = call[c].ctx
    BY <1>0, <1>2, InsideSteps
  <2>2. x \in Contexts
    BY <1>0, <2>1, InsideCall
  <2>3. call'[c] = Idle => \A d \in Callers : ~Past(d)'
    BY DEF Past, Idle
  <2>4. Past(c)' => call'[c].ctx = x
    BY <2>1 DEF Past, Idle
  <2>5. CASE Quiet(c)
    <3>1. \A t \in DOMAIN records : Final(records[t]) => t \in DOMAIN records' /\ records'[t] = records[t]
      BY <2>5 DEF Quiet, Final
    <3>2. UNCHANGED wal
      BY <2>5 DEF Quiet
    <3>3. Settled'
      <4> SUFFICES ASSUME Past(c)', NEW i \in DOMAIN wal, wal[i].state = "Committed", wal[i].ctx.txn = k
                   PROVE  FALSE
        BY <2>4, <3>2 DEF Settled
      <4>1. CASE Past(c)
        BY <4>1 DEF DurableInv, Settled
      <4>2. CASE ~Past(c)
        <5>1. k \in DOMAIN records => records[k].state = "Aborted"
          BY <2>5, <4>2 DEF Quiet
        <5> QED BY <2>1, <5>1 DEF DurableInv, RecordsFinal, Final
      <4> QED BY <4>1, <4>2
    <3>4. FramesFinal'
      BY <3>2 DEF DurableInv, FramesFinal
    <3>5. RecordsFinal'
      BY <2>1, <3>1, <3>2 DEF DurableInv, RecordsFinal
    <3> QED BY <3>3, <3>4, <3>5
  <2>6. CASE Tells(c)
    <3>1. UNCHANGED <<records, wal>> /\ call'[c] = Idle
      BY <2>6 DEF Tells
    <3> QED BY <2>1, <2>3, <3>1, DurableKept
  <2>7. CASE Fails(c)
    <3>1. UNCHANGED <<records, wal>> /\ Past(c)
      BY <2>7 DEF Fails, Past
    <3> QED BY <2>1, <2>4, <3>1, DurableKept
  <2>8. CASE Aborts(c)
    <3> DEFINE f == Frame("Aborted", x)
    <3>1. call'[c] = Idle /\ Past(c)
      BY <2>8 DEF Aborts, Past
    <3>2. CASE UNCHANGED <<wal, records>>
      BY <2>1, <2>3, <3>1, <3>2, DurableKept
    <3>3. CASE wal' = Append(wal, f) /\ records' = Put(records, k, f)
      <4>1. f \in Entries /\ f.ctx = x /\ f.state = "Aborted"
        BY <1>0, <2>2, FrameType
      <4>2. \A i \in DOMAIN wal : wal[i].state = "Committed" => wal[i].ctx.txn # k
        BY <3>1 DEF DurableInv, Settled
      <4> HIDE DEF f
      <4>3. FramesFinal'
        BY <1>0, <3>3, <4>1, <4>2, FramesFinalGrows DEF DurableInv, Follows
      <4>4. \A i \in DOMAIN wal' : wal'[i].state = "Committed" => i \in DOMAIN wal /\ wal'[i] = wal[i]
        BY <1>0, <3>3, <4>1, LoggedGrows
      <4>5. \A t \in DOMAIN records \ {k} : t \in DOMAIN records' /\ records'[t] = records[t]
        BY <3>3 DEF Put
      <4>6. RecordsFinal'
        BY <2>1, <4>2, <4>4, <4>5 DEF DurableInv, RecordsFinal
      <4>7. Settled'
        BY <2>3, <3>1 DEF Settled
      <4> QED BY <4>3, <4>6, <4>7
    <3> QED BY <2>8, <3>2, <3>3 DEF Aborts
  <2>9. CASE Commits(c)
    <3> DEFINE f == Frame("Committed", x)
    <3>1. /\ call'[c] = Idle /\ wal' = Append(wal, f) /\ records' = Put(records, k, f)
      BY <2>9 DEF Commits
    <3>2. f \in Entries /\ f.ctx = x /\ f.state = "Committed" /\ Final(f)
      BY <1>0, <2>2, FrameType DEF Final
    <3> HIDE DEF f
    <3>3. FramesFinal'
      BY <1>0, <3>1, <3>2, FramesFinalGrows DEF DurableInv, Follows
    <3>4. \A i \in DOMAIN wal' : (i \in DOMAIN wal /\ wal'[i] = wal[i]) \/ wal'[i] = f
      BY <1>0, <3>1, <3>2, LoggedGrows
    <3>5. /\ k \in DOMAIN records' /\ records'[k] = f
          /\ \A t \in DOMAIN records \ {k} : t \in DOMAIN records' /\ records'[t] = records[t]
      BY <3>1 DEF Put
    <3>6. RecordsFinal'
      BY <2>1, <3>2, <3>4, <3>5 DEF DurableInv, RecordsFinal
    <3>7. Settled'
      BY <2>3, <3>1 DEF Settled
    <3> QED BY <3>3, <3>6, <3>7
  <2> QED BY <2>1, <2>5, <2>6, <2>7, <2>8, <2>9
<1>3. ASSUME NEW t \in Txns, Expire(t) PROVE Goal
  <2>1. UNCHANGED <<records, wal, up, call>>
    BY <1>3 DEF Expire, memory
  <2>2. \A c \in Callers : Past(c)' => Past(c) /\ call'[c].ctx = call[c].ctx
    BY <2>1 DEF Past
  <2> QED BY <2>1, <2>2, DurableKept
<1>4. ASSUME NEW t \in Txns, tombstone(t) PROVE Goal
  <2>1. up /\ up' = up /\ UNCHANGED call /\ t \in DOMAIN records
    BY <1>0, <1>4, TombstoneIs
  <2>2. PICK f \in Frames :
          /\ f.state = "Tombstoned"
          /\ \/ wal' = Append(wal, f) /\ records' = [records EXCEPT ![t] = f]
             \/ UNCHANGED <<wal, records>>
    BY <1>0, <1>4, TombstoneIs
  <2>3. \A c \in Callers : Past(c)' <=> Past(c)
    BY <2>1 DEF Past
  <2>4. CASE UNCHANGED <<wal, records>>
    BY <2>1, <2>3, <2>4, DurableKept
  <2>5. CASE wal' = Append(wal, f) /\ records' = [records EXCEPT ![t] = f]
    <3>1. f \in Entries /\ Final(f)
      BY <1>0, <2>2 DEF Final
    <3>2. FramesFinal'
      BY <1>0, <2>5, <3>1, FramesFinalGrows DEF DurableInv, Follows
    <3>3. \A i \in DOMAIN wal' : wal'[i].state = "Committed" => i \in DOMAIN wal /\ wal'[i] = wal[i]
      BY <1>0, <2>2, <2>5, <3>1, LoggedGrows
    <3>4. \A u \in DOMAIN records : u \in DOMAIN records' /\ records'[u] = IF u = t THEN f ELSE records[u]
      BY <2>5
    <3>5. RecordsFinal'
      BY <2>1, <3>1, <3>3, <3>4 DEF DurableInv, RecordsFinal
    <3>6. Settled'
      BY <2>1, <2>3, <3>3 DEF DurableInv, Settled
    <3> QED BY <3>2, <3>5, <3>6
  <2> QED BY <2>2, <2>4, <2>5
<1>5. ASSUME Crash PROVE Goal
  <2>1. up' = FALSE /\ \A c \in Callers : ~Past(c)'
    BY <1>0, <1>5, CrashIs DEF Past, Idle
  <2>2. Settled' /\ RecordsFinal'
    BY <2>1 DEF Settled, RecordsFinal
  <2>3. CASE UNCHANGED wal
    BY <2>2, <2>3 DEF DurableInv, FramesFinal
  <2>4. ASSUME NEW f \in Entries, Follows(f), wal' = Append(wal, f) PROVE FramesFinal'
    BY <1>0, <2>4, FramesFinalGrows DEF DurableInv
  <2>5. Follows(Torn)
    BY DEF Follows
  <2>6. ASSUME NEW c \in Callers, call[c].pc \in {"committing", "aborting"}
        PROVE  /\ Frame("Committed", call[c].ctx) \in Entries /\ Follows(Frame("Committed", call[c].ctx))
               /\ Frame("Aborted", call[c].ctx) \in Entries /\ Follows(Frame("Aborted", call[c].ctx))
    <3>1. call[c].ctx \in Contexts /\ Past(c)
      BY <1>0, <2>6, InsideCall DEF Positions, Past
    <3> QED BY <1>0, <3>1, FrameType DEF DurableInv, Settled, Follows
  <2> QED BY <1>0, <1>5, <2>2, <2>3, <2>4, <2>5, <2>6, CrashIs
<1>6. ASSUME Restart PROVE Goal
  <2>1. PICK w \in Loadable(wal) : wal' = w /\ records' = load(w).records
    BY <1>6 DEF Restart
  <2>2. ~up /\ UNCHANGED call
    BY <1>6 DEF Restart
  <2>3. w \in Seq(Frames) /\ Len(w) <= Len(wal) /\ \A i \in 1 .. Len(w) : w[i] = wal[i]
    BY <1>0, LoadableIs DEF Typed
  <2>4. DOMAIN w = 1 .. Len(w) /\ DOMAIN wal = 1 .. Len(wal) /\ Len(w) \in Nat /\ Len(wal) \in Nat
    BY <1>0, <2>3, LenProperties DEF Typed
  <2>5. \A i \in DOMAIN w : i \in DOMAIN wal /\ w[i] = wal[i] /\ w[i] \in Frames
    BY <2>3, <2>4, LenProperties
  <2>6. Settled'
    <3>1. \A c \in Callers : ~Past(c)'
      BY <1>0, <2>2 DEF LogInv, TypeInv, Marks, Past, Idle
    <3> QED BY <3>1 DEF Settled
  <2>7. FramesFinal'
    BY <2>1, <2>5 DEF DurableInv, FramesFinal
  <2>8. RecordsFinal'
    <3> SUFFICES ASSUME NEW i \in DOMAIN w, w[i].state = "Committed"
                 PROVE  w[i].ctx.txn \in DOMAIN records' /\ Final(records'[w[i].ctx.txn])
      BY <2>1 DEF RecordsFinal
    <3> DEFINE k == w[i].ctx.txn
    <3>1. k \in DOMAIN load(w).records
      BY <2>3, LoadRecords
    <3>2. PICK n \in DOMAIN w : /\ load(w).records[k] = w[n] /\ w[n].ctx.txn = k
                                /\ \A j \in DOMAIN w : w[j].ctx.txn = k => j <= n
      BY <2>3, <3>1, LoadRecords
    <3>3. i <= n /\ i \in Nat /\ n \in Nat
      BY <2>4, <3>2
    <3>4. Final(w[n])
      <4>1. CASE i = n
        BY <4>1 DEF Final
      <4>2. CASE i < n
        BY <2>1, <2>5, <2>7, <3>2, <4>2, FrameFields DEF FramesFinal
      <4> QED BY <3>3, <4>1, <4>2
    <3> QED BY <2>1, <3>1, <3>2, <3>4
  <2> QED BY <2>6, <2>7, <2>8
<1>7. CASE UNCHANGED vars
  <2>1. UNCHANGED <<records, wal, up, call>>
    BY <1>7 DEF vars
  <2>2. \A c \in Callers : Past(c)' => Past(c) /\ call'[c].ctx = call[c].ctx
    BY <2>1 DEF Past
  <2> QED BY <2>1, <2>2, DurableKept
<1> HIDE DEF Goal
<1>8. Goal
  BY <1>1, <1>2, <1>3, <1>4, <1>5, <1>6, <1>7 DEF Next, Goal
<1> QED BY <1>8 DEF Goal

LEMMA DurableInvInit == Init => DurableInv
<1> SUFFICES ASSUME Init PROVE DurableInv
  OBVIOUS
<1>1. DOMAIN wal = {}
  BY DEF Init
<1> QED BY <1>1, HistoryInvInit DEF DurableInv, Settled, FramesFinal, RecordsFinal

\* When writes do not fail and commit() runs for one caller at a time, as ServiceProvider
\* calls it, a committed view that was handed out is backed by the store for ever: the
\* transaction stays COMMITTED, or TOMBSTONED, over aborts, retries, crashes and recoveries.
THEOREM CommitsAreDurable ==
  ASSUME WriteFaults = {}, \A c, d \in Callers : c = d
  PROVE  Spec => []CommittedIsDurable
<1>1. DurableInv => CommittedIsDurable
  <2> SUFFICES ASSUME DurableInv, up, NEW x \in told
               PROVE  x.txn \in DOMAIN records /\ records[x.txn].state \in {"Committed", "Tombstoned"}
    BY DEF CommittedIsDurable
  <2>1. PICK i \in DOMAIN wal : wal[i].state = "Committed" /\ wal[i].ctx.txn = x.txn
    BY DEF DurableInv, HistoryInv, ToldLogged
  <2> QED BY <2>1 DEF DurableInv, RecordsFinal, Final
<1>2. DurableInv /\ [Next]_vars => DurableInv'
  BY DurableInvStep
<1> QED BY <1>1, <1>2, DurableInvInit, PTL DEF Spec

=============================================================================
