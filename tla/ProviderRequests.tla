-------------------------- MODULE ProviderRequests --------------------------
(***************************************************************************)
(* ServiceProvider's pending-request state and its one-time ProviderTokens *)
(* for ordinary V2 requests (no R1 decision, deployment plan, opaque       *)
(* participant or targeted mode).  Handlers run one at a time on the event *)
(* loop; ACK handlers and decryptions run on pool threads and come back    *)
(* later, so requests, ACK decisions, Selections and cleanup timers        *)
(* interleave.  Requests and Selections may be duplicated, delayed and     *)
(* reordered.  Time is relative: deadlines and timers hold the ticks that  *)
(* remain, so the model has no last instant.                               *)
(***************************************************************************)
EXTENDS Integers, FiniteSets

CONSTANTS
  Keys,            \* pendingKey: requester, service and request id
  UserTokens,      \* user tokens that requests carry
  NoToken,         \* no user token is remembered
  ProvisionalTtl,  \* default cleanup horizon (30 s plus grace), in ticks
  AckTtls,         \* AckDecision.pendingStateTtlMs > 0 (plus grace), in ticks
  MaxPending,      \* m_providerAckMaxPending, 0 when admission is not adaptive
  MaxTokens,       \* bound: ProviderTokens ever issued
  MaxJobs          \* bound: ACK handlers, and decryptions, under way per key

ASSUME ProviderRequestsAssumption ==
  /\ NoToken \notin UserTokens
  /\ ProvisionalTtl \in Nat \ {0} /\ AckTtls \subseteq Nat \ {0}
  /\ MaxPending \in Nat /\ MaxTokens \in Nat /\ MaxJobs \in Nat

VARIABLES
  req,         \* per key, the provider's maps and sets indexed by pendingKey
  consumed,    \* m_consumedProviderTokenHashes
  cleanup,     \* per key, cleanup deadline and scheduled timers
  ackJobs,     \* per key, ACK handlers running on m_ackPool
  decrypting,  \* Selections being decrypted, by key and carried token
  issued,      \* ProviderTokens made so far: 1..issued
  uses,        \* history: how often each token was accepted for execution
  lapsed       \* history: tokens whose pending state was cleaned up

vars == <<req, consumed, cleanup, ackJobs, decrypting, issued, uses, lapsed>>

None == -9           \* no deadline
Overdue == -1        \* a deadline in the past
Tokens == 0..MaxTokens   \* 0: no token, or one the provider never issued

\* recent: m_recentProviderRequests and m_pendingRequestTokenHashes;
\* pending: pendingRequests; token: pendingProviderTokens; selected:
\* m_selectedProviderRequests; selToken: m_selectedProviderTokenHashes;
\* inFlight: m_selectionDecryptsInFlight.
NoRequest == [recent |-> NoToken, pending |-> FALSE, token |-> 0,
              selected |-> FALSE, selToken |-> 0, inFlight |-> FALSE]

NoCleanup == [deadline |-> None, authoritative |-> FALSE, timers |-> {}]

Init ==
  /\ req = [k \in Keys |-> NoRequest]
  /\ consumed = {}
  /\ cleanup = [k \in Keys |-> NoCleanup]
  /\ ackJobs = [k \in Keys |-> 0]
  /\ decrypting = [s \in Keys \X Tokens |-> 0]
  /\ issued = 0
  /\ uses = [t \in Tokens |-> 0]
  /\ lapsed = {}

-----------------------------------------------------------------------------
schedulePendingRequestCleanup_TimerPerCall(c, ttl, authoritative) ==
  IF c.deadline # None /\ (~authoritative \/ c.authoritative)
  THEN c
  ELSE [deadline      |-> ttl,
        authoritative |-> c.authoritative \/ authoritative,
        timers        |-> c.timers \cup {<<"first", ttl>>}]

\* schedulePendingRequestCleanup on one key's cleanup state.
schedulePendingRequestCleanup(c, ttl, authoritative) ==
  IF c.deadline # None /\ (~authoritative \/ c.authoritative)
  THEN c
  ELSE [deadline      |-> ttl,
        authoritative |-> c.authoritative \/ authoritative,
        timers        |-> IF c.deadline = None THEN c.timers \cup {<<"first", ttl>>} ELSE c.timers]

Refuse == -2

\* An ACK decision: Refuse (negative, suppressed, failed, queue full), or
\* accept with the requested pending-state TTL, 0 for the default.
Decisions == {Refuse, 0} \cup AckTtls

\* finishAckDecisionOnEventLoop on key k, whose request entry is r and cleanup
\* state c: keep the request, set its horizon, and reuse or make its token.
finishAckDecision(k, r, c, decision) ==
  IF decision = Refuse
  THEN /\ req' = [req EXCEPT ![k] = r]
       /\ cleanup' = [cleanup EXCEPT ![k] = c]
       /\ UNCHANGED issued
  ELSE /\ r.token = 0 => issued < MaxTokens
       /\ issued' = IF r.token = 0 THEN issued + 1 ELSE issued
       /\ req' = [req EXCEPT ![k] =
                    [r EXCEPT !.pending = TRUE, !.token = IF @ = 0 THEN issued + 1 ELSE @]]
       /\ cleanup' = [cleanup EXCEPT ![k] =
                        IF decision = 0
                        THEN schedulePendingRequestCleanup(c, ProvisionalTtl, FALSE)
                        ELSE schedulePendingRequestCleanup(c, decision, TRUE)]

shouldSuppressAdaptiveAck ==
  MaxPending > 0 /\ Cardinality({k \in Keys : req[k].pending}) >= MaxPending

isDuplicate(k, ut) == req[k].recent # NoToken \/ \E j \in Keys : req[j].recent = ut

\* finishDecodedRequestOnEventLoop: remember the request, schedule its cleanup,
\* and decide the ACK inline or on the ACK pool.
OnRequest(k, ut) ==
  LET r == [req[k] EXCEPT !.recent = ut]
      c == schedulePendingRequestCleanup(cleanup[k], ProvisionalTtl, FALSE)
  IN
  /\ ~isDuplicate(k, ut)
  /\ \/ /\ ~shouldSuppressAdaptiveAck /\ ackJobs[k] < MaxJobs
        /\ ackJobs' = [ackJobs EXCEPT ![k] = @ + 1]
        /\ req' = [req EXCEPT ![k] = r]
        /\ cleanup' = [cleanup EXCEPT ![k] = c]
        /\ UNCHANGED issued
     \/ /\ \E decision \in IF shouldSuppressAdaptiveAck THEN {Refuse} ELSE Decisions :
             finishAckDecision(k, r, c, decision)
        /\ UNCHANGED ackJobs
  /\ UNCHANGED <<consumed, decrypting, uses, lapsed>>

\* An ACK handler's decision reaches the event loop.
AckDecided(k) ==
  /\ ackJobs[k] > 0
  /\ ackJobs' = [ackJobs EXCEPT ![k] = @ - 1]
  /\ \E decision \in Decisions : finishAckDecision(k, req[k], cleanup[k], decision)
  /\ UNCHANGED <<consumed, decrypting, uses, lapsed>>

-----------------------------------------------------------------------------
\* handleServiceSelectionMessage: a Selection for k carrying token t.
OnSelection(k, t) ==
  /\ ~req[k].selected /\ ~req[k].inFlight
  /\ decrypting[<<k, t>>] < MaxJobs /\ t <= issued
  /\ req' = [req EXCEPT ![k].inFlight = TRUE]
  /\ decrypting' = [decrypting EXCEPT ![<<k, t>>] = @ + 1]
  /\ UNCHANGED <<consumed, cleanup, ackJobs, issued, uses, lapsed>>

Decrypted(k, t) ==
  /\ decrypting[<<k, t>>] > 0
  /\ decrypting' = [decrypting EXCEPT ![<<k, t>>] = @ - 1]

\* The envelope or the message key does not authenticate, or the decrypted
\* Selection is malformed, names another provider or a stale policy epoch.
OnSelectionRejected(k, t) ==
  /\ Decrypted(k, t)
  /\ req' = [req EXCEPT ![k].inFlight = FALSE]
  /\ UNCHANGED <<consumed, cleanup, ackJobs, issued, uses, lapsed>>

\* The message key cannot be fetched or unwrapped.  onKeyError's callback was
\* moved into finish before, so nothing is called.
OnKeyError(k, t) ==
  /\ Decrypted(k, t)
  /\ UNCHANGED <<req, consumed, cleanup, ackJobs, issued, uses, lapsed>>

acceptsSelection_AnyToken(k, t) == ~req[k].selected /\ t \notin consumed /\ req[k].pending

\* The checks under m_pendingRequestMutex: no replay, a pending request, and
\* the token that was issued for it.
acceptsSelection(k, t) ==
  /\ ~req[k].selected /\ t \notin consumed
  /\ req[k].pending
  /\ t # 0 /\ t = req[k].token

\* OnServiceSelectionMessageDecryptionSuccessCallbackV2
OnSelectionDecrypted(k, t) ==
  /\ Decrypted(k, t)
  /\ IF acceptsSelection(k, t)
     THEN /\ req' = [req EXCEPT ![k] = [NoRequest EXCEPT !.selected = TRUE, !.selToken = t]]
          /\ consumed' = consumed \cup {t}
          /\ uses' = [uses EXCEPT ![t] = @ + 1]
     ELSE /\ req' = [req EXCEPT ![k].inFlight = FALSE]
          /\ UNCHANGED <<consumed, uses>>
  /\ UNCHANGED <<cleanup, ackJobs, issued, lapsed>>

-----------------------------------------------------------------------------
hasPendingState_RequestOnly(r) == r.pending

hasPendingState(r) == r.pending \/ r.token # 0 \/ r.recent # NoToken

expirePendingRequestState_KeepsToken(k, x) ==
  /\ cleanup' = [cleanup EXCEPT ![k] = [NoCleanup EXCEPT !.timers = cleanup[k].timers \ {x}]]
  /\ IF hasPendingState(req[k])
     THEN /\ req' = [req EXCEPT ![k] = [NoRequest EXCEPT !.token = req[k].token]]
          /\ consumed' = consumed \ {req[k].selToken}
          /\ lapsed' = lapsed \cup ({req[k].token} \ {0})
     ELSE UNCHANGED <<req, consumed, lapsed>>

\* expirePendingRequestState, run by the timer x.
expirePendingRequestState(k, x) ==
  /\ cleanup' = [cleanup EXCEPT ![k] = [NoCleanup EXCEPT !.timers = cleanup[k].timers \ {x}]]
  /\ IF hasPendingState(req[k])
     THEN /\ req' = [req EXCEPT ![k] = NoRequest]
          /\ consumed' = consumed \ {req[k].selToken}
          /\ lapsed' = lapsed \cup ({req[k].token} \ {0})
     ELSE UNCHANGED <<req, consumed, lapsed>>

OnCleanupTimer_NoDeadlineCheck(k) ==
  \E x \in cleanup[k].timers :
    /\ x[2] = 0
    /\ expirePendingRequestState(k, x)
    /\ UNCHANGED <<ackJobs, decrypting, issued, uses>>

\* The first timer looks at the deadline, which an authoritative ACK may have
\* moved; the second one does not.
OnCleanupTimer(k) ==
  \E x \in cleanup[k].timers :
    /\ x[2] = 0
    /\ IF cleanup[k].deadline = None
       THEN /\ cleanup' = [cleanup EXCEPT ![k].timers = @ \ {x}]
            /\ UNCHANGED <<req, consumed, lapsed>>
       ELSE IF x[1] = "first" /\ cleanup[k].deadline > 0
       THEN /\ cleanup' = [cleanup EXCEPT ![k].timers =
                             (@ \ {x}) \cup {<<"second", cleanup[k].deadline>>}]
            /\ UNCHANGED <<req, consumed, lapsed>>
       ELSE expirePendingRequestState(k, x)
    /\ UNCHANGED <<ackJobs, decrypting, issued, uses>>

Earlier(d) == IF d \in {None, Overdue} THEN d ELSE d - 1

Tick ==
  /\ cleanup' = [k \in Keys |->
       [cleanup[k] EXCEPT
          !.deadline = Earlier(@),
          !.timers = {<<x[1], IF x[2] = 0 THEN 0 ELSE x[2] - 1>> : x \in @}]]
  /\ UNCHANGED <<req, consumed, ackJobs, decrypting, issued, uses, lapsed>>

Next ==
  \/ \E k \in Keys, ut \in UserTokens : OnRequest(k, ut)
  \/ \E k \in Keys : AckDecided(k) \/ OnCleanupTimer(k)
  \/ \E k \in Keys, t \in Tokens :
       \/ OnSelection(k, t) \/ OnSelectionRejected(k, t) \/ OnKeyError(k, t)
       \/ OnSelectionDecrypted(k, t)
  \/ Tick

\* Time passes and the event loop runs its due timers.  Nothing is assumed of
\* requesters, ACK handlers or decryptions.
Fairness == WF_vars(Tick) /\ \A k \in Keys : WF_vars(OnCleanupTimer(k))

Spec == Init /\ [][Next]_vars /\ Fairness

-----------------------------------------------------------------------------
\* The provider's request state has the types of the members it models, and a
\* selected request remembers the token it consumed.
TypeOK ==
  /\ req \in [Keys -> [recent : UserTokens \cup {NoToken}, pending : BOOLEAN, token : Tokens,
                       selected : BOOLEAN, selToken : Tokens, inFlight : BOOLEAN]]
  /\ \A k \in Keys : req[k].selected => req[k].selToken # 0
  /\ consumed \subseteq Tokens /\ lapsed \subseteq Tokens
  /\ \A k \in Keys :
       /\ cleanup[k].deadline \in Int /\ cleanup[k].authoritative \in BOOLEAN
       /\ \A x \in cleanup[k].timers : x \in {"first", "second"} \X Nat
  /\ ackJobs \in [Keys -> Nat] /\ decrypting \in [Keys \X Tokens -> Nat]
  /\ issued \in Tokens /\ uses \in [Tokens -> Nat]

Remembered(k) == req[k].pending \/ req[k].token # 0 \/ req[k].recent # NoToken

\* A ProviderToken authorises at most one execution, over duplicated requests
\* and Selections, concurrent decryptions, and cleanups that forget which
\* requests were selected and which tokens were consumed.
TokenConsumedOnce == \A t \in Tokens : uses[t] <= 1

\* A token whose pending state was cleaned up is never accepted, not even when
\* an ACK decision that comes late revives its request.
LapsedTokenStaysDead == \A t \in lapsed : uses[t] = 0

\* Whatever the provider remembers of a request that is not selected has one
\* timer scheduled to clean it up, also when the request returns after its
\* Selection or its ACK decision arrives after its cleanup.
PendingIsScheduled ==
  \A k \in Keys :
    /\ Remembered(k) => cleanup[k].deadline # None
    /\ Cardinality(cleanup[k].timers) = IF cleanup[k].deadline = None THEN 0 ELSE 1

\* A timer removes a request that nobody selected only when the horizon that
\* the provider last promised for it has passed.
RequestKeepsItsHorizon ==
  [][\A k \in Keys :
       req[k].pending /\ ~req'[k].pending /\ uses' = uses => cleanup[k].deadline \in {0, Overdue}]_vars

\* pendingRequests, pendingProviderTokens and the replay memory of a request
\* are eventually cleaned, whatever becomes of its ACK and its Selection.
PendingIsCleaned == \A k \in Keys : Remembered(k) ~> ~Remembered(k)
=============================================================================
