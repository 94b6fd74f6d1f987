----------------------- MODULE ProviderRequestsProofs -----------------------
(***************************************************************************)
(* Safety of the provider's pending requests and ProviderTokens for every  *)
(* number of requests, tokens, time-to-live values and jobs under way.     *)
(***************************************************************************)
EXTENDS ProviderRequests, FiniteSetTheorems, TLAPS

RequestType == [recent : UserTokens \cup {NoToken}, pending : BOOLEAN, token : Tokens,
                selected : BOOLEAN, selToken : Tokens, inFlight : BOOLEAN]

Timers == {"first", "second"} \X Nat

CleanupType == [deadline : Nat \cup {None, Overdue}, authoritative : BOOLEAN,
                timers : SUBSET Timers]

\* TypeOK with the exact range of a deadline.
Typed ==
  /\ req \in [Keys -> RequestType]
  /\ \A k \in Keys : req[k].selected => req[k].selToken # 0
  /\ consumed \subseteq Tokens /\ lapsed \subseteq Tokens
  /\ cleanup \in [Keys -> CleanupType]
  /\ ackJobs \in [Keys -> Nat] /\ decrypting \in [Keys \X Tokens -> Nat]
  /\ issued \in Tokens /\ uses \in [Tokens -> Nat]

LEMMA TypedIsTypeOK == Typed => TypeOK
<1> SUFFICES ASSUME Typed PROVE TypeOK
  OBVIOUS
<1>1. ASSUME NEW k \in Keys
      PROVE  /\ cleanup[k].deadline \in Int /\ cleanup[k].authoritative \in BOOLEAN
             /\ \A x \in cleanup[k].timers : x \in {"first", "second"} \X Nat
  <2>1. cleanup[k] \in CleanupType
    BY DEF Typed
  <2>2. cleanup[k].authoritative \in BOOLEAN
    BY <2>1, Zenon DEF CleanupType
  <2> QED BY <2>1, <2>2 DEF CleanupType, Timers, None, Overdue
<1> QED BY <1>1 DEF Typed, TypeOK, RequestType

-----------------------------------------------------------------------------
(* Tokens. *)

Held(t) == \E k \in Keys : req[k].token = t

HeldOnce   == \A j, k \in Keys : req[j].token # 0 /\ req[j].token = req[k].token => j = k
HeldUnused == \A k \in Keys : req[k].token # 0 => req[k].token <= issued /\ uses[req[k].token] = 0
NewUnused  == \A t \in Tokens : t > issued => uses[t] = 0
LapsedGone == \A t \in lapsed : t # 0 /\ t <= issued /\ uses[t] = 0 /\ ~Held(t)

\* The inductive invariant behind the two theorems on tokens.  A token is held by one request
\* until it is used or lapses, and nobody gets it back afterwards.
TokenInv == Typed /\ TokenConsumedOnce /\ HeldOnce /\ HeldUnused /\ NewUnused /\ LapsedGone

-----------------------------------------------------------------------------
(* Timers. *)

\* x runs out when the deadline passes.
Follows(x, deadline) == deadline = x[2] \/ (x[2] = 0 /\ deadline = Overdue)

\* One timer per scheduled cleanup.  Only an authoritative ACK makes the deadline
\* differ from the first timer's, and only then there is a second timer.
ScheduleOK(c) ==
  IF c.deadline = None THEN c.timers = {}
  ELSE \E x \in Timers :
         /\ c.timers = {x}
         /\ x[1] = "second" => c.authoritative /\ Follows(x, c.deadline)
         /\ ~c.authoritative => Follows(x, c.deadline)

\* The inductive invariant behind the theorems on cleanup.
CleanupInv ==
  /\ Typed
  /\ \A k \in Keys : ScheduleOK(cleanup[k])
  /\ \A k \in Keys : Remembered(k) => cleanup[k].deadline # None

-----------------------------------------------------------------------------
(* What the operators do. *)

LEMMA NoRequestType == NoRequest \in RequestType
BY ProviderRequestsAssumption DEF NoRequest, RequestType, Tokens

LEMMA NoCleanupType == NoCleanup \in CleanupType /\ ScheduleOK(NoCleanup)
BY DEF NoCleanup, CleanupType, ScheduleOK

LEMMA CleanupFields ==
  ASSUME NEW c \in CleanupType
  PROVE  /\ c.deadline \in Nat \cup {None, Overdue} /\ c.timers \subseteq Timers
         /\ c.authoritative \in BOOLEAN
         /\ c = [deadline |-> c.deadline, authoritative |-> c.authoritative, timers |-> c.timers]
BY Zenon DEF CleanupType

LEMMA ScheduleKeeps ==
  ASSUME NEW c \in CleanupType, NEW ttl \in Nat \ {0}, NEW a \in BOOLEAN
  PROVE  LET d == schedulePendingRequestCleanup(c, ttl, a) IN
         /\ d \in CleanupType /\ d.deadline # None
         /\ ScheduleOK(c) => ScheduleOK(d)
<1> DEFINE d == schedulePendingRequestCleanup(c, ttl, a)
<1>0. ttl \in Nat /\ ttl # None /\ ttl # Overdue
  BY DEF None, Overdue
<1>1. CASE c.deadline # None /\ (~a \/ c.authoritative)
  BY <1>1 DEF schedulePendingRequestCleanup
<1>2. CASE c.deadline = None
  <2> DEFINE x == <<"first", ttl>>
  <2>1. d = [deadline |-> ttl, authoritative |-> c.authoritative \/ a, timers |-> c.timers \cup {x}]
    BY <1>2 DEF schedulePendingRequestCleanup
  <2>2. x \in Timers /\ x[1] = "first" /\ x[2] = ttl
    BY DEF Timers
  <2> HIDE DEF x
  <2>3. d \in CleanupType /\ d.deadline = ttl /\ d.timers = c.timers \cup {x}
    BY <1>0, <2>1, <2>2, CleanupFields DEF CleanupType
  <2>4. ScheduleOK(c) => ScheduleOK(d)
    BY <1>0, <1>2, <2>2, <2>3 DEF ScheduleOK, Follows
  <2> QED BY <1>0, <2>3, <2>4
<1>3. CASE c.deadline # None /\ ~c.authoritative /\ a
  <2>1. d = [deadline |-> ttl, authoritative |-> TRUE, timers |-> c.timers]
    BY <1>3 DEF schedulePendingRequestCleanup
  <2>2. d \in CleanupType /\ d.deadline = ttl /\ d.timers = c.timers /\ d.authoritative
    BY <1>0, <2>1, CleanupFields DEF CleanupType
  <2>3. ScheduleOK(c) => ScheduleOK(d)
    BY <1>0, <1>3, <2>2 DEF ScheduleOK, Follows
  <2> QED BY <1>0, <2>2, <2>3
<1> QED BY <1>1, <1>2, <1>3

\* The part of a request or an ACK decision on key k that the invariants see.
AckStep(k) ==
  /\ req' \in [Keys -> RequestType] /\ cleanup' \in [Keys -> CleanupType]
  /\ issued' \in Tokens /\ ackJobs' \in [Keys -> Nat]
  /\ \A j \in Keys \ {k} : req'[j] = req[j] /\ cleanup'[j] = cleanup[j]
  /\ req'[k].selected = req[k].selected /\ req'[k].selToken = req[k].selToken
  /\ req[k].pending => req'[k].pending
  /\ \/ issued' = issued /\ req'[k].token = req[k].token
     \/ issued' = issued + 1 /\ req[k].token = 0 /\ req'[k].token = issued + 1
  /\ ScheduleOK(cleanup[k]) => ScheduleOK(cleanup'[k])
  /\ cleanup'[k].deadline = None => req'[k] = req[k] /\ cleanup[k].deadline = None
  /\ UNCHANGED <<consumed, decrypting, uses, lapsed>>

LEMMA FinishAck ==
  ASSUME Typed, NEW k \in Keys, NEW r \in RequestType, NEW c \in CleanupType,
         NEW decision \in Decisions, finishAckDecision(k, r, c, decision)
  PROVE  /\ req' \in [Keys -> RequestType] /\ cleanup' \in [Keys -> CleanupType]
         /\ issued' \in Tokens
         /\ \A j \in Keys \ {k} : req'[j] = req[j] /\ cleanup'[j] = cleanup[j]
         /\ req'[k].selected = r.selected /\ req'[k].selToken = r.selToken
         /\ r.pending => req'[k].pending
         /\ \/ issued' = issued /\ req'[k].token = r.token
            \/ issued' = issued + 1 /\ r.token = 0 /\ req'[k].token = issued + 1
         /\ ScheduleOK(c) => ScheduleOK(cleanup'[k])
         /\ cleanup'[k].deadline = None => req'[k] = r /\ c.deadline = None
<1>1. CASE decision = Refuse
  BY <1>1 DEF finishAckDecision, Typed
<1>2. CASE decision # Refuse
  <2> DEFINE d == IF decision = 0
                  THEN schedulePendingRequestCleanup(c, ProvisionalTtl, FALSE)
                  ELSE schedulePendingRequestCleanup(c, decision, TRUE)
             n == IF r.token = 0 THEN issued + 1 ELSE r.token
             s == [r EXCEPT !.pending = TRUE, !.token = n]
  <2>1. d \in CleanupType /\ d.deadline # None /\ (ScheduleOK(c) => ScheduleOK(d))
    BY <1>2, ScheduleKeeps, ProviderRequestsAssumption DEF Decisions
  <2>2. /\ cleanup' = [cleanup EXCEPT ![k] = d] /\ req' = [req EXCEPT ![k] = s]
        /\ issued' = (IF r.token = 0 THEN issued + 1 ELSE issued)
        /\ r.token = 0 => issued < MaxTokens
    BY <1>2 DEF finishAckDecision
  <2>3. n \in Tokens /\ issued' \in Tokens
    BY <2>2, ProviderRequestsAssumption DEF Typed, Tokens, RequestType
  <2> HIDE DEF n
  <2>4. /\ s \in RequestType /\ s.token = n /\ s.pending = TRUE
        /\ s.selected = r.selected /\ s.selToken = r.selToken
    BY <2>3, Zenon DEF RequestType
  <2> HIDE DEF s, d
  <2>5. req'[k] = s /\ cleanup'[k] = d
    BY <2>2 DEF Typed
  <2>6. /\ req' \in [Keys -> RequestType] /\ cleanup' \in [Keys -> CleanupType]
        /\ \A j \in Keys \ {k} : req'[j] = req[j] /\ cleanup'[j] = cleanup[j]
    BY <2>1, <2>2, <2>4 DEF Typed
  <2> QED BY <2>1, <2>2, <2>3, <2>4, <2>5, <2>6 DEF n
<1> QED BY <1>1, <1>2

LEMMA RequestStep ==
  ASSUME Typed, NEW k \in Keys, NEW ut \in UserTokens, OnRequest(k, ut)
  PROVE  AckStep(k)
<1> DEFINE r == [req[k] EXCEPT !.recent = ut]
           c == schedulePendingRequestCleanup(cleanup[k], ProvisionalTtl, FALSE)
<1>1. req[k] \in RequestType /\ cleanup[k] \in CleanupType
  BY DEF Typed
<1>2. /\ r \in RequestType /\ r.token = req[k].token /\ r.selected = req[k].selected
      /\ r.selToken = req[k].selToken /\ r.pending = req[k].pending
  BY <1>1, Zenon DEF RequestType
<1>3. c \in CleanupType /\ c.deadline # None /\ (ScheduleOK(cleanup[k]) => ScheduleOK(c))
  BY <1>1, ScheduleKeeps, ProviderRequestsAssumption
<1>4. UNCHANGED <<consumed, decrypting, uses, lapsed>>
  BY DEF OnRequest
<1>5. CASE /\ ackJobs' = [ackJobs EXCEPT ![k] = @ + 1] /\ req' = [req EXCEPT ![k] = r]
           /\ cleanup' = [cleanup EXCEPT ![k] = c] /\ UNCHANGED issued
  <2> HIDE DEF r, c
  <2> QED BY <1>2, <1>3, <1>4, <1>5 DEF Typed, AckStep
<1>6. CASE UNCHANGED ackJobs /\ \E decision \in Decisions : finishAckDecision(k, r, c, decision)
  <2>1. PICK decision \in Decisions : finishAckDecision(k, r, c, decision)
    BY <1>6
  <2> HIDE DEF r, c
  <2> QED BY <1>2, <1>3, <1>4, <1>6, <2>1, FinishAck DEF Typed, AckStep
<1> QED BY <1>5, <1>6 DEF OnRequest, Decisions

LEMMA DecisionStep ==
  ASSUME Typed, NEW k \in Keys, AckDecided(k)
  PROVE  AckStep(k)
<1>1. req[k] \in RequestType /\ cleanup[k] \in CleanupType
  BY DEF Typed
<1>2. PICK decision \in Decisions : finishAckDecision(k, req[k], cleanup[k], decision)
  BY DEF AckDecided
<1>3. /\ ackJobs' \in [Keys -> Nat]
      /\ UNCHANGED <<consumed, decrypting, uses, lapsed>>
  BY DEF AckDecided, Typed
<1> QED BY <1>1, <1>2, <1>3, FinishAck DEF AckStep

\* A Selection on key k that is not accepted moves its in-flight mark only.
MarkStep(k) ==
  /\ req' \in [Keys -> RequestType]
  /\ \A j \in Keys \ {k} : req'[j] = req[j]
  /\ req'[k].recent = req[k].recent /\ req'[k].pending = req[k].pending
  /\ req'[k].token = req[k].token
  /\ req'[k].selected = req[k].selected /\ req'[k].selToken = req[k].selToken
  /\ decrypting' \in [Keys \X Tokens -> Nat]
  /\ UNCHANGED <<consumed, cleanup, ackJobs, issued, uses, lapsed>>

\* An accepted one consumes the token of its request.
AcceptStep(k, t) ==
  /\ t # 0 /\ t = req[k].token /\ t \in Tokens
  /\ req' \in [Keys -> RequestType]
  /\ \A j \in Keys \ {k} : req'[j] = req[j]
  /\ req'[k].recent = NoToken /\ req'[k].pending = FALSE /\ req'[k].token = 0
  /\ req'[k].selToken = t
  /\ consumed' = consumed \cup {t}
  /\ uses' = [uses EXCEPT ![t] = @ + 1]
  /\ decrypting' \in [Keys \X Tokens -> Nat]
  /\ UNCHANGED <<cleanup, ackJobs, issued, lapsed>>

LEMMA MarkOnly ==
  ASSUME Typed, NEW k \in Keys, NEW b \in BOOLEAN, req' = [req EXCEPT ![k].inFlight = b]
  PROVE  /\ req' \in [Keys -> RequestType]
         /\ \A j \in Keys \ {k} : req'[j] = req[j]
         /\ req'[k].recent = req[k].recent /\ req'[k].pending = req[k].pending
         /\ req'[k].token = req[k].token
         /\ req'[k].selected = req[k].selected /\ req'[k].selToken = req[k].selToken
<1> DEFINE s == [req[k] EXCEPT !.inFlight = b]
<1>1. req[k] \in RequestType
  BY DEF Typed
<1>2. /\ s \in RequestType /\ s.recent = req[k].recent /\ s.pending = req[k].pending
      /\ s.token = req[k].token /\ s.selected = req[k].selected /\ s.selToken = req[k].selToken
  BY <1>1, Zenon DEF RequestType
<1>3. req' = [req EXCEPT ![k] = s]
  OBVIOUS
<1> HIDE DEF s
<1> QED BY <1>2, <1>3 DEF Typed

LEMMA DecryptedType ==
  ASSUME Typed, NEW k \in Keys, NEW t \in Tokens, Decrypted(k, t)
  PROVE  decrypting' \in [Keys \X Tokens -> Nat]
BY DEF Typed, Decrypted

LEMMA SelectionStep ==
  ASSUME Typed, NEW k \in Keys, NEW t \in Tokens,
         \/ OnSelection(k, t) \/ OnSelectionRejected(k, t)
         \/ OnKeyError(k, t) \/ OnSelectionDecrypted(k, t)
  PROVE  MarkStep(k) \/ AcceptStep(k, t)
<1>1. CASE OnSelection(k, t)
  <2>1. decrypting' \in [Keys \X Tokens -> Nat]
    BY <1>1 DEF OnSelection, Typed
  <2> QED BY <1>1, <2>1, MarkOnly DEF OnSelection, MarkStep
<1>2. CASE OnSelectionRejected(k, t)
  BY <1>2, MarkOnly, DecryptedType DEF OnSelectionRejected, MarkStep
<1>3. CASE OnKeyError(k, t)
  BY <1>3, DecryptedType DEF OnKeyError, MarkStep, Typed
<1>4. CASE OnSelectionDecrypted(k, t)
  <2>1. CASE ~acceptsSelection(k, t)
    BY <1>4, <2>1, MarkOnly, DecryptedType DEF OnSelectionDecrypted, MarkStep
  <2>2. CASE acceptsSelection(k, t)
    <3> DEFINE s == [NoRequest EXCEPT !.selected = TRUE, !.selToken = t]
    <3>1. /\ s \in RequestType /\ s.recent = NoToken /\ s.pending = FALSE
          /\ s.token = 0 /\ s.selToken = t
      BY NoRequestType DEF NoRequest, RequestType
    <3>2. /\ req' = [req EXCEPT ![k] = s] /\ consumed' = consumed \cup {t}
          /\ uses' = [uses EXCEPT ![t] = @ + 1]
          /\ UNCHANGED <<cleanup, ackJobs, issued, lapsed>>
      BY <1>4, <2>2 DEF OnSelectionDecrypted
    <3>3. t # 0 /\ t = req[k].token /\ decrypting' \in [Keys \X Tokens -> Nat]
      BY <1>4, <2>2, DecryptedType DEF OnSelectionDecrypted, acceptsSelection
    <3> HIDE DEF s
    <3> QED BY <3>1, <3>2, <3>3 DEF AcceptStep, Typed
  <2> QED BY <2>1, <2>2
<1> QED BY <1>1, <1>2, <1>3, <1>4

\* The timer x of key k ends the request's pending state, ...
ExpireStep(k, x) ==
  /\ cleanup' = [cleanup EXCEPT ![k] = [NoCleanup EXCEPT !.timers = cleanup[k].timers \ {x}]]
  /\ \/ /\ req' = [req EXCEPT ![k] = NoRequest]
        /\ consumed' = consumed \ {req[k].selToken}
        /\ lapsed' = lapsed \cup ({req[k].token} \ {0})
     \/ /\ ~Remembered(k)
        /\ UNCHANGED <<req, consumed, lapsed>>

\* ... is replaced by the second one, or finds nothing to do.
LaterStep(k, x) ==
  /\ \/ /\ cleanup[k].deadline = None
        /\ cleanup' = [cleanup EXCEPT ![k].timers = @ \ {x}]
     \/ /\ x[1] = "first" /\ cleanup[k].deadline \in Nat \ {0}
        /\ cleanup' = [cleanup EXCEPT ![k].timers = (@ \ {x}) \cup {<<"second", cleanup[k].deadline>>}]
  /\ UNCHANGED <<req, consumed, lapsed>>

LEMMA TimerStep ==
  ASSUME Typed, NEW k \in Keys, OnCleanupTimer(k)
  PROVE  /\ UNCHANGED <<ackJobs, decrypting, issued, uses>>
         /\ \E x \in cleanup[k].timers :
              /\ x[2] = 0
              /\ \/ LaterStep(k, x)
                 \/ /\ cleanup[k].deadline # None
                    /\ x[1] = "first" => ~(cleanup[k].deadline > 0)
                    /\ ExpireStep(k, x)
<1>1. PICK x \in cleanup[k].timers :
        /\ x[2] = 0
        /\ IF cleanup[k].deadline = None
           THEN /\ cleanup' = [cleanup EXCEPT ![k].timers = @ \ {x}]
                /\ UNCHANGED <<req, consumed, lapsed>>
           ELSE IF x[1] = "first" /\ cleanup[k].deadline > 0
           THEN /\ cleanup' = [cleanup EXCEPT ![k].timers =
                                 (@ \ {x}) \cup {<<"second", cleanup[k].deadline>>}]
                /\ UNCHANGED <<req, consumed, lapsed>>
           ELSE expirePendingRequestState(k, x)
        /\ UNCHANGED <<ackJobs, decrypting, issued, uses>>
  BY DEF OnCleanupTimer
<1>2. cleanup[k].deadline \in Nat \cup {None, Overdue}
  BY DEF Typed, CleanupType
<1>3. cleanup[k].deadline > 0 => cleanup[k].deadline \in Nat \ {0}
  BY <1>2 DEF None, Overdue
<1>4. expirePendingRequestState(k, x) => ExpireStep(k, x)
  BY DEF expirePendingRequestState, ExpireStep, hasPendingState, Remembered
<1> QED BY <1>1, <1>3, <1>4 DEF LaterStep

LEMMA LaterType ==
  ASSUME Typed, NEW k \in Keys, NEW x \in cleanup[k].timers, LaterStep(k, x)
  PROVE  /\ cleanup' \in [Keys -> CleanupType]
         /\ \A j \in Keys : cleanup'[j].deadline = cleanup[j].deadline
         /\ \A j \in Keys \ {k} : cleanup'[j] = cleanup[j]
         /\ cleanup'[k].authoritative = cleanup[k].authoritative
         /\ \/ /\ cleanup[k].deadline = None
               /\ cleanup'[k].timers = cleanup[k].timers \ {x}
            \/ /\ x[1] = "first" /\ cleanup[k].deadline \in Nat \ {0}
               /\ cleanup'[k].timers
                    = (cleanup[k].timers \ {x}) \cup {<<"second", cleanup[k].deadline>>}
<1>0. cleanup[k] \in CleanupType
  BY DEF Typed
<1>1. ASSUME NEW T \in SUBSET Timers, cleanup' = [cleanup EXCEPT ![k].timers = T]
      PROVE  /\ cleanup' \in [Keys -> CleanupType]
             /\ cleanup'[k].deadline = cleanup[k].deadline
             /\ \A j \in Keys \ {k} : cleanup'[j] = cleanup[j]
             /\ cleanup'[k].authoritative = cleanup[k].authoritative
             /\ cleanup'[k].timers = T
  <2> DEFINE d == [cleanup[k] EXCEPT !.timers = T]
  <2>1. d \in CleanupType /\ d.deadline = cleanup[k].deadline
        /\ d.authoritative = cleanup[k].authoritative /\ d.timers = T
    BY <1>0, Zenon DEF CleanupType
  <2>2. cleanup' = [cleanup EXCEPT ![k] = d]
    BY <1>1
  <2> HIDE DEF d
  <2> QED BY <2>1, <2>2 DEF Typed
<1>2. cleanup[k].timers \subseteq Timers
  BY <1>0 DEF CleanupType
<1>3. CASE cleanup[k].deadline = None /\ cleanup' = [cleanup EXCEPT ![k].timers = @ \ {x}]
  <2> DEFINE T == cleanup[k].timers \ {x}
  <2>1. T \in SUBSET Timers /\ cleanup' = [cleanup EXCEPT ![k].timers = T]
    BY <1>2, <1>3
  <2> HIDE DEF T
  <2>2. /\ cleanup' \in [Keys -> CleanupType]
        /\ cleanup'[k].deadline = cleanup[k].deadline
        /\ \A j \in Keys \ {k} : cleanup'[j] = cleanup[j]
        /\ cleanup'[k].authoritative = cleanup[k].authoritative
        /\ cleanup'[k].timers = T
    BY <1>1, <2>1
  <2> QED BY <1>3, <2>2 DEF T
<1>4. CASE /\ x[1] = "first" /\ cleanup[k].deadline \in Nat \ {0}
           /\ cleanup' = [cleanup EXCEPT ![k].timers
                            = (@ \ {x}) \cup {<<"second", cleanup[k].deadline>>}]
  <2> DEFINE T == (cleanup[k].timers \ {x}) \cup {<<"second", cleanup[k].deadline>>}
  <2>1. T \in SUBSET Timers /\ cleanup' = [cleanup EXCEPT ![k].timers = T]
    BY <1>2, <1>4 DEF Timers
  <2> HIDE DEF T
  <2>2. /\ cleanup' \in [Keys -> CleanupType]
        /\ cleanup'[k].deadline = cleanup[k].deadline
        /\ \A j \in Keys \ {k} : cleanup'[j] = cleanup[j]
        /\ cleanup'[k].authoritative = cleanup[k].authoritative
        /\ cleanup'[k].timers = T
    BY <1>1, <2>1
  <2> QED BY <1>4, <2>2 DEF T
<1> QED BY <1>3, <1>4 DEF LaterStep

LEMMA ExpireType ==
  ASSUME Typed, NEW k \in Keys, NEW x \in cleanup[k].timers, ExpireStep(k, x)
  PROVE  /\ cleanup' \in [Keys -> CleanupType]
         /\ \A j \in Keys \ {k} : cleanup'[j] = cleanup[j]
         /\ cleanup'[k].deadline = None /\ cleanup'[k].timers = cleanup[k].timers \ {x}
         /\ req' \in [Keys -> RequestType]
<1> DEFINE d == [NoCleanup EXCEPT !.timers = cleanup[k].timers \ {x}]
<1>1. cleanup[k].timers \subseteq Timers
  BY CleanupFields DEF Typed
<1>2. d \in CleanupType /\ d.deadline = None /\ d.timers = cleanup[k].timers \ {x}
  BY <1>1 DEF NoCleanup, CleanupType
<1>3. cleanup' = [cleanup EXCEPT ![k] = d]
  BY DEF ExpireStep
<1> HIDE DEF d
<1>4. req' \in [Keys -> RequestType]
  BY NoRequestType DEF ExpireStep, Typed
<1> QED BY <1>2, <1>3, <1>4 DEF Typed

TickedTimers(T) == {<<x[1], IF x[2] = 0 THEN 0 ELSE x[2] - 1>> : x \in T}

LEMMA TickType ==
  ASSUME Typed, Tick
  PROVE  /\ cleanup' \in [Keys -> CleanupType]
         /\ \A k \in Keys :
              /\ cleanup'[k].deadline = Earlier(cleanup[k].deadline)
              /\ cleanup'[k].authoritative = cleanup[k].authoritative
              /\ cleanup'[k].timers = TickedTimers(cleanup[k].timers)
<1>1. ASSUME NEW k \in Keys
      PROVE  LET d == [cleanup[k] EXCEPT !.deadline = Earlier(@),
                         !.timers = {<<x[1], IF x[2] = 0 THEN 0 ELSE x[2] - 1>> : x \in @}]
             IN  /\ d \in CleanupType /\ d.deadline = Earlier(cleanup[k].deadline)
                 /\ d.authoritative = cleanup[k].authoritative
                 /\ d.timers = TickedTimers(cleanup[k].timers)
  <2>1. cleanup[k] \in CleanupType
    BY DEF Typed
  <2>2. Earlier(cleanup[k].deadline) \in Nat \cup {None, Overdue}
    BY <2>1 DEF CleanupType, Earlier, None, Overdue
  <2>3. TickedTimers(cleanup[k].timers) \in SUBSET Timers
    BY <2>1 DEF CleanupType, TickedTimers, Timers
  <2> QED BY <2>1, <2>2, <2>3, Zenon DEF CleanupType, TickedTimers
<1> QED BY <1>1 DEF Tick

\* The steps of the specification, as the lemmas above describe them.
StepCases ==
  \/ \E k \in Keys : AckStep(k)
  \/ \E k \in Keys : MarkStep(k)
  \/ \E k \in Keys, t \in Tokens : AcceptStep(k, t)
  \/ \E k \in Keys : OnCleanupTimer(k)
  \/ Tick
  \/ UNCHANGED vars

LEMMA NextCases ==
  ASSUME Typed, [Next]_vars
  PROVE  StepCases
BY RequestStep, DecisionStep, SelectionStep DEF Next, StepCases

-----------------------------------------------------------------------------
LEMMA TypedInit == Init => Typed
<1> SUFFICES ASSUME Init PROVE Typed
  OBVIOUS
<1>1. 0 \in Tokens
  BY ProviderRequestsAssumption DEF Tokens
<1>2. \A k \in Keys : req[k].selected = FALSE
  BY DEF Init, NoRequest
<1>3. /\ req \in [Keys -> RequestType] /\ cleanup \in [Keys -> CleanupType]
  BY NoRequestType, NoCleanupType DEF Init
<1>4. /\ ackJobs \in [Keys -> Nat] /\ decrypting \in [Keys \X Tokens -> Nat]
      /\ uses \in [Tokens -> Nat] /\ issued = 0 /\ consumed = {} /\ lapsed = {}
  BY DEF Init
<1> QED BY <1>1, <1>2, <1>3, <1>4 DEF Typed

LEMMA TypedNext == Typed /\ [Next]_vars => Typed'
<1> SUFFICES ASSUME Typed, [Next]_vars PROVE Typed'
  OBVIOUS
<1>0. StepCases
  BY NextCases
<1>1. CASE \E k \in Keys : AckStep(k)
  <2>1. PICK k \in Keys : AckStep(k)
    BY <1>1
  <2>2. \A j \in Keys : req'[j].selected = req[j].selected /\ req'[j].selToken = req[j].selToken
    BY <2>1 DEF AckStep
  <2> QED BY <2>1, <2>2 DEF AckStep, Typed
<1>2. CASE \E k \in Keys : MarkStep(k)
  <2>1. PICK k \in Keys : MarkStep(k)
    BY <1>2
  <2>2. \A j \in Keys : req'[j].selected = req[j].selected /\ req'[j].selToken = req[j].selToken
    BY <2>1 DEF MarkStep
  <2> QED BY <2>1, <2>2 DEF MarkStep, Typed
<1>3. CASE \E k \in Keys, t \in Tokens : AcceptStep(k, t)
  <2>1. PICK k \in Keys, t \in Tokens : AcceptStep(k, t)
    BY <1>3
  <2>2. \A j \in Keys : req'[j].selected => req'[j].selToken # 0
    BY <2>1 DEF AcceptStep, Typed
  <2> QED BY <2>1, <2>2 DEF AcceptStep, Typed
<1>4. CASE \E k \in Keys : OnCleanupTimer(k)
  <2>1. PICK k \in Keys : OnCleanupTimer(k)
    BY <1>4
  <2>2. PICK x \in cleanup[k].timers : LaterStep(k, x) \/ ExpireStep(k, x)
    BY <2>1, TimerStep
  <2>3. UNCHANGED <<ackJobs, decrypting, issued, uses>>
    BY <2>1, TimerStep
  <2>4. CASE LaterStep(k, x)
    <3>1. cleanup' \in [Keys -> CleanupType]
      BY <2>4, LaterType
    <3> QED BY <2>3, <2>4, <3>1 DEF LaterStep, Typed
  <2>5. CASE ExpireStep(k, x)
    <3>1. req' \in [Keys -> RequestType] /\ cleanup' \in [Keys -> CleanupType]
      BY <2>5, ExpireType
    <3>2. \A j \in Keys : req'[j].selected => req'[j].selToken # 0
      BY <2>5 DEF ExpireStep, NoRequest, Typed
    <3>3. consumed' \subseteq Tokens /\ lapsed' \subseteq Tokens
      BY <2>5 DEF ExpireStep, Typed, RequestType
    <3> QED BY <2>3, <3>1, <3>2, <3>3 DEF Typed
  <2> QED BY <2>2, <2>4, <2>5
<1>5. CASE Tick
  BY <1>5, TickType DEF Tick, Typed
<1>6. CASE UNCHANGED vars
  BY <1>6 DEF vars, Typed
<1> QED BY <1>0, <1>1, <1>2, <1>3, <1>4, <1>5, <1>6 DEF StepCases

\* Requests, tokens, cleanup state, jobs and histories have their types in every
\* reachable state, and a selected request always remembers a token.
THEOREM TypeCorrect == Spec => []TypeOK
BY TypedInit, TypedNext, TypedIsTypeOK, PTL DEF Spec

-----------------------------------------------------------------------------
LEMMA TokenInvInit == Init => TokenInv
<1> SUFFICES ASSUME Init PROVE TokenInv
  OBVIOUS
<1>1. Typed /\ lapsed = {} /\ (\A t \in Tokens : uses[t] = 0)
  BY TypedInit DEF Init
<1>2. \A k \in Keys : req[k].token = 0
  BY DEF Init, NoRequest
<1> QED BY <1>1, <1>2 DEF TokenInv, TokenConsumedOnce, HeldOnce, HeldUnused, NewUnused, LapsedGone

LEMMA TokenInvNext == TokenInv /\ [Next]_vars => TokenInv'
<1> SUFFICES ASSUME TokenInv, [Next]_vars PROVE TokenInv'
  OBVIOUS
<1>0. Typed /\ Typed' /\ StepCases
  BY TypedNext, NextCases DEF TokenInv
<1>t. /\ issued \in Nat /\ \A t \in Tokens : t \in Nat /\ uses[t] \in Nat
      /\ \A k \in Keys : req[k].token \in Tokens
      /\ \A k \in Keys : req'[k].token \in Tokens
  <2>1. \A t \in Tokens : t \in Nat
    BY ProviderRequestsAssumption DEF Tokens
  <2>2. issued \in Tokens /\ uses \in [Tokens -> Nat]
    BY <1>0 DEF Typed
  <2>3. \A k \in Keys : req[k] \in RequestType /\ req'[k] \in RequestType
    BY <1>0 DEF Typed
  <2>4. \A r \in RequestType : r.token \in Tokens
    BY DEF RequestType
  <2> QED BY <2>1, <2>2, <2>3, <2>4
<1>1. ASSUME NEW k \in Keys, AckStep(k) PROVE TokenInv'
  <2>1. /\ UNCHANGED <<uses, lapsed>>
        /\ \A j \in Keys \ {k} : req'[j].token = req[j].token
    BY <1>1 DEF AckStep
  <2>2. CASE issued' = issued /\ req'[k].token = req[k].token
    <3>1. \A j \in Keys : req'[j].token = req[j].token
      BY <2>1, <2>2
    <3> QED BY <1>0, <2>1, <2>2, <3>1
            DEF TokenInv, TokenConsumedOnce, HeldOnce, HeldUnused, NewUnused, LapsedGone, Held
  <2>3. CASE issued' = issued + 1 /\ req[k].token = 0 /\ req'[k].token = issued + 1
    <3>1. HeldOnce'
      BY <1>t, <2>1, <2>3 DEF TokenInv, HeldOnce, HeldUnused
    <3>2. HeldUnused'
      BY <1>t, <2>1, <2>3 DEF TokenInv, HeldUnused, NewUnused
    <3>3. NewUnused' /\ TokenConsumedOnce'
      BY <1>t, <2>1, <2>3 DEF TokenInv, NewUnused, TokenConsumedOnce
    <3>4. LapsedGone'
      BY <1>0, <1>t, <2>1, <2>3 DEF TokenInv, LapsedGone, Held, Typed
    <3> QED BY <1>0, <3>1, <3>2, <3>3, <3>4 DEF TokenInv
  <2> QED BY <1>1, <2>2, <2>3 DEF AckStep
<1>2. ASSUME NEW k \in Keys, MarkStep(k) PROVE TokenInv'
  <2>1. UNCHANGED <<uses, lapsed, issued>> /\ \A j \in Keys : req'[j].token = req[j].token
    BY <1>2 DEF MarkStep
  <2> QED BY <1>0, <2>1
          DEF TokenInv, TokenConsumedOnce, HeldOnce, HeldUnused, NewUnused, LapsedGone, Held
<1>3. ASSUME NEW k \in Keys, NEW t \in Tokens, AcceptStep(k, t) PROVE TokenInv'
  <2>1. /\ UNCHANGED <<lapsed, issued>> /\ t # 0 /\ t = req[k].token
        /\ \A j \in Keys \ {k} : req'[j].token = req[j].token
        /\ req'[k].token = 0
    BY <1>3 DEF AcceptStep
  <2>2. /\ uses[t] = 0 /\ t <= issued
        /\ uses'[t] = 1 /\ \A u \in Tokens \ {t} : uses'[u] = uses[u]
    BY <1>0, <1>3, <2>1 DEF AcceptStep, TokenInv, HeldUnused, Typed
  <2>3. \A j \in Keys \ {k} : req[j].token # t
    BY <2>1 DEF TokenInv, HeldOnce
  <2>4. HeldOnce' /\ HeldUnused'
    BY <1>t, <2>1, <2>2, <2>3 DEF TokenInv, HeldOnce, HeldUnused
  <2>5. NewUnused' /\ TokenConsumedOnce'
    BY <1>t, <2>1, <2>2 DEF TokenInv, NewUnused, TokenConsumedOnce
  <2>6. LapsedGone'
    BY <1>0, <1>t, <2>1, <2>2 DEF TokenInv, LapsedGone, Held, Typed
  <2> QED BY <1>0, <2>4, <2>5, <2>6 DEF TokenInv
<1>4. ASSUME NEW k \in Keys, OnCleanupTimer(k) PROVE TokenInv'
  <2>1. UNCHANGED <<issued, uses>>
    BY <1>0, <1>4, TimerStep
  <2>2. PICK x \in cleanup[k].timers : LaterStep(k, x) \/ ExpireStep(k, x)
    BY <1>0, <1>4, TimerStep
  <2>3. CASE UNCHANGED <<req, lapsed>>
    BY <1>0, <2>1, <2>3
       DEF TokenInv, TokenConsumedOnce, HeldOnce, HeldUnused, NewUnused, LapsedGone, Held
  <2>4. CASE /\ req' = [req EXCEPT ![k] = NoRequest]
             /\ lapsed' = lapsed \cup ({req[k].token} \ {0})
    <3>1. req'[k].token = 0 /\ \A j \in Keys \ {k} : req'[j] = req[j]
      BY <1>0, <2>4 DEF Typed, NoRequest
    <3>2. HeldOnce' /\ HeldUnused'
      BY <2>1, <3>1 DEF TokenInv, HeldOnce, HeldUnused
    <3>3. NewUnused' /\ TokenConsumedOnce'
      BY <2>1 DEF TokenInv, NewUnused, TokenConsumedOnce
    <3>4. LapsedGone'
      <4> SUFFICES ASSUME NEW t \in lapsed'
                   PROVE  t # 0 /\ t <= issued /\ uses[t] = 0 /\ \A j \in Keys : req'[j].token # t
        BY <2>1 DEF LapsedGone, Held
      <4>1. CASE t \in lapsed
        BY <3>1, <4>1 DEF TokenInv, LapsedGone, Held
      <4>2. CASE t = req[k].token /\ t # 0
        BY <3>1, <4>2 DEF TokenInv, HeldOnce, HeldUnused
      <4> QED BY <2>4, <4>1, <4>2
    <3> QED BY <1>0, <3>2, <3>3, <3>4 DEF TokenInv
  <2> QED BY <2>2, <2>3, <2>4 DEF LaterStep, ExpireStep
<1>5. CASE Tick \/ UNCHANGED vars
  <2>1. UNCHANGED <<req, lapsed, issued, uses>>
    BY <1>5 DEF Tick, vars
  <2> QED BY <1>0, <2>1
          DEF TokenInv, TokenConsumedOnce, HeldOnce, HeldUnused, NewUnused, LapsedGone, Held
<1> QED BY <1>0, <1>1, <1>2, <1>3, <1>4, <1>5 DEF StepCases

\* However requests, ACK decisions, Selections and cleanups interleave, the provider
\* accepts a ProviderToken for execution at most once.
THEOREM TokensAreOneTime == Spec => []TokenConsumedOnce
<1>1. TokenInv => TokenConsumedOnce
  BY DEF TokenInv
<1> QED BY <1>1, TokenInvInit, TokenInvNext, PTL DEF Spec

\* A token that cleanup took from its request is never accepted afterwards.
THEOREM LapsedTokensStayDead == Spec => []LapsedTokenStaysDead
<1>1. TokenInv => LapsedTokenStaysDead
  BY DEF TokenInv, LapsedGone, LapsedTokenStaysDead
<1> QED BY <1>1, TokenInvInit, TokenInvNext, PTL DEF Spec

-----------------------------------------------------------------------------
LEMMA CleanupInvInit == Init => CleanupInv
<1> SUFFICES ASSUME Init PROVE CleanupInv
  OBVIOUS
<1>1. \A k \in Keys : ScheduleOK(cleanup[k])
  BY NoCleanupType DEF Init
<1>2. \A k \in Keys : ~Remembered(k)
  BY DEF Init, Remembered, NoRequest
<1> QED BY <1>1, <1>2, TypedInit DEF CleanupInv

\* A tick keeps the timer and its relation to the deadline.
LEMMA TickKeepsSchedule ==
  ASSUME NEW c \in CleanupType, NEW d, ScheduleOK(c),
         d.deadline = Earlier(c.deadline), d.authoritative = c.authoritative,
         d.timers = TickedTimers(c.timers)
  PROVE  ScheduleOK(d) /\ (c.deadline # None => d.deadline # None)
<1>0. c.deadline \in Nat \cup {None, Overdue}
  BY CleanupFields
<1>1. CASE c.deadline = None
  BY <1>1 DEF ScheduleOK, Earlier, TickedTimers
<1>2. CASE c.deadline # None
  <2>1. PICK x \in Timers :
          /\ c.timers = {x}
          /\ x[1] = "second" => c.authoritative /\ Follows(x, c.deadline)
          /\ ~c.authoritative => Follows(x, c.deadline)
    BY <1>2 DEF ScheduleOK
  <2> DEFINE y == <<x[1], IF x[2] = 0 THEN 0 ELSE x[2] - 1>>
  <2>2. x[2] \in Nat
    BY DEF Timers
  <2>3. y \in Timers /\ y[1] = x[1] /\ y[2] = IF x[2] = 0 THEN 0 ELSE x[2] - 1
    BY <2>2 DEF Timers
  <2>4. d.timers = {y}
    BY <2>1 DEF TickedTimers
  <2> HIDE DEF y
  <2>5. d.deadline # None
    BY <1>0, <1>2 DEF Earlier, None, Overdue
  <2>6. Follows(x, c.deadline) => Follows(y, d.deadline)
    BY <1>0, <2>2, <2>3 DEF Follows, Earlier, None, Overdue
  <2> QED BY <2>1, <2>3, <2>4, <2>5, <2>6 DEF ScheduleOK
<1> QED BY <1>1, <1>2

LEMMA CleanupInvNext == CleanupInv /\ [Next]_vars => CleanupInv'
<1> SUFFICES ASSUME CleanupInv, [Next]_vars PROVE CleanupInv'
  OBVIOUS
<1>0. Typed /\ Typed' /\ StepCases
  BY TypedNext, NextCases DEF CleanupInv
<1>1. ASSUME NEW k \in Keys, AckStep(k) PROVE CleanupInv'
  <2>1. \A j \in Keys : ScheduleOK(cleanup'[j])
    BY <1>1 DEF AckStep, CleanupInv
  <2>2. \A j \in Keys : Remembered(j)' => cleanup'[j].deadline # None
    BY <1>1 DEF AckStep, CleanupInv, Remembered
  <2> QED BY <1>0, <2>1, <2>2 DEF CleanupInv
<1>2. ASSUME NEW k \in Keys, MarkStep(k) PROVE CleanupInv'
  <2>1. \A j \in Keys : Remembered(j)' <=> Remembered(j)
    BY <1>2 DEF MarkStep, Remembered
  <2> QED BY <1>0, <1>2, <2>1 DEF MarkStep, CleanupInv
<1>3. ASSUME NEW k \in Keys, NEW t \in Tokens, AcceptStep(k, t) PROVE CleanupInv'
  <2>1. \A j \in Keys : Remembered(j)' => Remembered(j)
    BY <1>3 DEF AcceptStep, Remembered
  <2> QED BY <1>0, <1>3, <2>1 DEF AcceptStep, CleanupInv
<1>4. ASSUME NEW k \in Keys, OnCleanupTimer(k) PROVE CleanupInv'
  <2>1. PICK x \in cleanup[k].timers :
          /\ x[2] = 0
          /\ \/ LaterStep(k, x)
             \/ cleanup[k].deadline # None /\ ExpireStep(k, x)
    BY <1>0, <1>4, TimerStep
  <2>2. cleanup[k].timers = {x} /\ x \in Timers /\ cleanup[k].deadline # None
    BY DEF CleanupInv, ScheduleOK
  <2>3. CASE LaterStep(k, x)
    <3> DEFINE y == <<"second", cleanup[k].deadline>>
    <3>1. /\ cleanup'[k].timers = {y} /\ cleanup[k].deadline \in Nat \ {0}
          /\ \A j \in Keys : cleanup'[j].deadline = cleanup[j].deadline
          /\ \A j \in Keys \ {k} : cleanup'[j] = cleanup[j]
          /\ cleanup'[k].authoritative = cleanup[k].authoritative
      BY <1>0, <2>2, <2>3, LaterType
    <3>2. y \in Timers /\ Follows(y, cleanup[k].deadline)
      BY <3>1 DEF Timers, Follows
    <3>3. cleanup[k].authoritative   \* the first timer is late: the deadline was moved
      BY <2>1, <2>2, <3>1 DEF CleanupInv, ScheduleOK, Follows, Overdue
    <3> HIDE DEF y
    <3> QED
      <4>1. ScheduleOK(cleanup'[k])
        BY <2>2, <3>1, <3>2, <3>3 DEF ScheduleOK
      <4>2. \A j \in Keys : Remembered(j)' <=> Remembered(j)
        BY <2>3 DEF LaterStep, Remembered
      <4> QED BY <1>0, <3>1, <4>1, <4>2 DEF CleanupInv
  <2>4. CASE ExpireStep(k, x)
    <3>1. /\ cleanup'[k].deadline = None /\ cleanup'[k].timers = {}
          /\ \A j \in Keys \ {k} : cleanup'[j] = cleanup[j]
      BY <1>0, <2>2, <2>4, ExpireType
    <3>2. ~Remembered(k)' /\ \A j \in Keys \ {k} : req'[j] = req[j]
      BY <1>0, <2>4 DEF ExpireStep, Remembered, NoRequest, Typed
    <3>3. ScheduleOK(cleanup'[k])
      BY <3>1 DEF ScheduleOK
    <3> QED BY <1>0, <3>1, <3>2, <3>3 DEF CleanupInv, Remembered
  <2> QED BY <2>1, <2>3, <2>4
<1>5. CASE Tick
  <2>1. ASSUME NEW k \in Keys
        PROVE  ScheduleOK(cleanup'[k]) /\ (cleanup[k].deadline # None => cleanup'[k].deadline # None)
    BY <1>0, <1>5, TickType, TickKeepsSchedule DEF CleanupInv, Typed
  <2> QED BY <1>0, <1>5, <2>1 DEF CleanupInv, Tick, Remembered
<1>6. CASE UNCHANGED vars
  BY <1>0, <1>6 DEF vars, CleanupInv, Remembered
<1> QED BY <1>0, <1>1, <1>2, <1>3, <1>4, <1>5, <1>6 DEF StepCases

\* Whatever is remembered of an unselected request has exactly one timer under way
\* that will clean it up, over late ACKs, moved deadlines and returning requests.
THEOREM CleanupIsScheduled == Spec => []PendingIsScheduled
<1>1. CleanupInv => PendingIsScheduled
  <2> SUFFICES ASSUME CleanupInv, NEW k \in Keys
               PROVE  /\ Remembered(k) => cleanup[k].deadline # None
                      /\ Cardinality(cleanup[k].timers)
                           = IF cleanup[k].deadline = None THEN 0 ELSE 1
    BY DEF PendingIsScheduled
  <2>1. CASE cleanup[k].deadline = None
    BY <2>1, FS_EmptySet DEF CleanupInv, ScheduleOK
  <2>2. CASE cleanup[k].deadline # None
    <3>1. PICK x \in Timers : cleanup[k].timers = {x}
      BY <2>2 DEF CleanupInv, ScheduleOK
    <3> QED BY <2>2, <3>1, FS_Singleton
  <2> QED BY <2>1, <2>2 DEF CleanupInv
<1> QED BY <1>1, CleanupInvInit, CleanupInvNext, PTL DEF Spec

\* A pending request that nobody selected is dropped only after the deadline that
\* its last accepted schedule set, also when the second timer does not look again.
THEOREM HorizonIsKept == Spec => RequestKeepsItsHorizon
<1>1. CleanupInv /\ [Next]_vars
        => [\A k \in Keys : req[k].pending /\ ~req'[k].pending /\ uses' = uses
                              => cleanup[k].deadline \in {0, Overdue}]_vars
  <2> SUFFICES ASSUME CleanupInv, [Next]_vars, NEW k \in Keys,
                      req[k].pending, ~req'[k].pending, uses' = uses
               PROVE  cleanup[k].deadline \in {0, Overdue}
    OBVIOUS
  <2>0. Typed /\ StepCases
    BY NextCases DEF CleanupInv
  <2>1. ASSUME NEW j \in Keys, AckStep(j) PROVE FALSE
    BY <2>1 DEF AckStep
  <2>2. ASSUME NEW j \in Keys, MarkStep(j) PROVE FALSE
    BY <2>2 DEF MarkStep
  <2>3. ASSUME NEW j \in Keys, NEW t \in Tokens, AcceptStep(j, t) PROVE FALSE
    <3>1. uses'[t] = uses[t] + 1 /\ uses[t] \in Nat
      BY <2>0, <2>3 DEF AcceptStep, Typed
    <3> QED BY <3>1
  <2>4. ASSUME NEW j \in Keys, OnCleanupTimer(j) PROVE cleanup[k].deadline \in {0, Overdue}
    <3>1. PICK x \in cleanup[j].timers :
            /\ x[2] = 0
            /\ \/ LaterStep(j, x)
               \/ /\ cleanup[j].deadline # None
                  /\ x[1] = "first" => ~(cleanup[j].deadline > 0)
                  /\ ExpireStep(j, x)
      BY <2>0, <2>4, TimerStep
    <3>2. ~LaterStep(j, x)
      BY DEF LaterStep
    <3>3. j = k
      BY <2>0, <3>1, <3>2 DEF ExpireStep, Typed
    <3>4. x \in Timers /\ (x[1] = "second" => Follows(x, cleanup[k].deadline))
      BY <3>1, <3>2, <3>3 DEF CleanupInv, ScheduleOK
    <3>5. cleanup[k].deadline \in Nat \cup {None, Overdue}
      BY <2>0, CleanupFields DEF Typed
    <3> QED BY <3>1, <3>2, <3>3, <3>4, <3>5 DEF Timers, Follows, None, Overdue
  <2>5. ~Tick /\ ~UNCHANGED vars
    BY DEF Tick, vars
  <2> QED BY <2>0, <2>1, <2>2, <2>3, <2>4, <2>5 DEF StepCases
<1> QED BY <1>1, CleanupInvInit, CleanupInvNext, PTL DEF Spec, RequestKeepsItsHorizon
=============================================================================
