-------------------------- MODULE OutboundDelivery --------------------------
(***************************************************************************)
(* The outbound email delivery ledger and the workers that dispatch from   *)
(* it.  The ledger is a set of SQLite rows: one head per delivery, one row *)
(* per attempt, append-only facts.  Every ledger call is one short         *)
(* transaction, hence one action.  A worker runs provider I/O strictly     *)
(* between two such calls, may stall or die between any two, and owns a    *)
(* delivery only through the claim token and lease stored on the head.     *)
(*                                                                         *)
(* A definition whose name ends in Slip is a deliberate mistake in the one *)
(* that follows it.  No specification uses it: it is there to show that    *)
(* the property named in its comment can fail.                             *)
(***************************************************************************)
EXTENDS Integers, FiniteSets

CONSTANTS
  Deliveries,      \* delivery identifiers
  Workers,         \* dispatch calls that can run at once, in any process
  ClaimIds,        \* tokens newClaimId can mint
  None,            \* SQL NULL
  NativeKey,       \* the provider deduplicates on the external delivery key
  LeaseTicks,      \* OUTBOUND_EMAIL_DELIVERY_LEASE_MS, in clock ticks
  BudgetTicks,     \* OUTBOUND_EMAIL_PROVIDER_REQUEST_BUDGET_MS, in clock ticks
  MaxAttempts,     \* bound of the model on the attempts of one delivery
  MaxCorrections,  \* bound of the model on the corrections of one delivery
  MaxCrashes       \* bound of the model on worker deaths

ASSUME OutboundDeliveryAssumption ==
  /\ None \notin Deliveries \cup ClaimIds
  /\ NativeKey \in BOOLEAN
  /\ LeaseTicks \in Nat /\ BudgetTicks \in Nat
  /\ BudgetTicks < LeaseTicks
  /\ MaxAttempts \in Nat /\ MaxCorrections \in Nat /\ MaxCrashes \in Nat

VARIABLES
  head,      \* communication_outbound_delivery_heads
  attempts,  \* communication_outbound_delivery_attempts, by attempt number
  facts,     \* communication_outbound_delivery_facts about attempts
  contact,   \* the recipient: bounce seen, address corrections, suppressions
  worker,    \* the local state of each dispatch call
  mailbox,   \* the attempts whose message the provider really took (history)
  crashes    \* worker deaths so far

vars == <<head, attempts, facts, contact, worker, mailbox, crashes>>

-----------------------------------------------------------------------------
(* Rows and local state.                                                   *)

Resolutions == {"accepted", "known_rejected_safe_retryable",
                "known_rejected_terminal", "acceptance_unknown"}
HeadStates == {"unregistered", "pending", "request_started"} \cup Resolutions
AttemptStates == {"absent", "request_started"} \cup Resolutions
Kinds == {"original", "marked_resend"}
Addresses == {"reviewed", "corrected"}
AttemptNumbers == 1..MaxAttempts

\* What a provider call can come back with.  A synchronous permanent bounce
\* is an acceptance that carries the bounce as evidence; a throw, a timeout
\* and an unreadable answer are all acceptance_unknown.
Answers == Resolutions \cup {"accepted_permanent_bounce"}

\* Mistake for TypeOK: the synchronous bounce is not normalized.
LandedSlip(answer) == answer

Landed(answer) ==
  IF answer = "accepted_permanent_bounce" THEN "accepted" ELSE answer

\* current_attempt_id is the attempt numbered attempt_count ("count").
HeadRow == [state: HeadStates, version: Nat, count: 0..MaxAttempts,
            unknown: Nat, exhausted: BOOLEAN,
            claim: ClaimIds \cup {None}, ttl: 0..LeaseTicks]
AttemptRow == [kind: Kinds, target: Addresses, state: AttemptStates]
FactRow == [attempt: AttemptNumbers, fenced: BOOLEAN, state: Resolutions]
ContactRow == [bounced: BOOLEAN, corrections: 0..MaxCorrections,
               suppressed: SUBSET Addresses]
WorkerState ==
  [phase: {"idle", "claimed", "submitting", "answered", "recovering"},
   delivery: Deliveries \cup {None}, claim: ClaimIds \cup {None},
   version: Nat, attempt: 0..MaxAttempts,
   elapsed: 0..BudgetTicks + 1, answer: Answers \cup {None}]

NewHead == [state |-> "unregistered", version |-> 0, count |-> 0,
            unknown |-> 0, exhausted |-> FALSE, claim |-> None, ttl |-> 0]
NoAttempt == [kind |-> "original", target |-> "reviewed", state |-> "absent"]
NewContact == [bounced |-> FALSE, corrections |-> 0, suppressed |-> {}]
IdleWorker == [phase |-> "idle", delivery |-> None, claim |-> None,
               version |-> 0, attempt |-> 0, elapsed |-> 0, answer |-> None]

TypeOK ==
  /\ head \in [Deliveries -> HeadRow]
  /\ attempts \in [Deliveries -> [AttemptNumbers -> AttemptRow]]
  /\ facts \in [Deliveries -> SUBSET FactRow]
  /\ contact \in [Deliveries -> ContactRow]
  /\ worker \in [Workers -> WorkerState]
  /\ mailbox \in [Deliveries -> SUBSET AttemptNumbers]
  /\ crashes \in 0..MaxCrashes

Init ==
  /\ head = [d \in Deliveries |-> NewHead]
  /\ attempts = [d \in Deliveries |-> [n \in AttemptNumbers |-> NoAttempt]]
  /\ facts = [d \in Deliveries |-> {}]
  /\ contact = [d \in Deliveries |-> NewContact]
  /\ worker = [w \in Workers |-> IdleWorker]
  /\ mailbox = [d \in Deliveries |-> {}]
  /\ crashes = 0

-----------------------------------------------------------------------------
(* Taking and giving back a delivery.                                      *)

\* Mistake for SettledStaysSettled: quarantined deliveries are sent again.
DispatchableSlip(h) ==
  h.state \in {"pending", "known_rejected_safe_retryable", "acceptance_unknown"}

Dispatchable(h) ==
  \/ h.state \in {"pending", "known_rejected_safe_retryable"}
  \/ h.state = "acceptance_unknown" /\ ~h.exhausted

\* Mistake for NoConcurrentSubmission: a started attempt is taken from its
\* owner without waiting for the lease.
ClaimableSlip(h) ==
  \/ h.ttl = 0 /\ Dispatchable(h)
  \/ h.state = "request_started"

\* The WHERE clause of the claiming update: an absent or lapsed lease.
Claimable(h) ==
  /\ h.ttl = 0
  /\ Dispatchable(h) \/ h.state = "request_started"

\* The model's bound on attempts: the last allowed one is never exceeded.
WithinAttemptBound(d) ==
  head[d].state # "request_started" => head[d].count < MaxAttempts

\* A minted token is only ever compared with the stored claim and with the
\* tokens of calls still running, so fresh means in neither.
Fresh(c) ==
  /\ \A d \in Deliveries : head[d].claim # c
  /\ \A w \in Workers : worker[w].claim # c
newClaimId == CHOOSE c \in ClaimIds : Fresh(c)

Idle(w) == worker' = [worker EXCEPT ![w] = IdleWorker]
LeaseCleared(h) == [h EXCEPT !.claim = None, !.ttl = 0]

\* Mistake for OrdinarySendKeepsLease: the attempt starts under what is left
\* of the claim's lease.
LeaseRenewedSlip(h) == h

LeaseRenewed(h) == [h EXCEPT !.ttl = LeaseTicks]

\* The send or sign-in unit of work inserts the head and links its receipt.
Register(d) ==
  /\ head[d].state = "unregistered"
  /\ head' = [head EXCEPT ![d].state = "pending", ![d].version = 1]
  /\ UNCHANGED <<attempts, facts, contact, worker, mailbox, crashes>>

\* dispatch, first ledger call.  A claim leaves the version alone.  Taking a
\* request_started head means its owner's lease lapsed: the call goes on to
\* close that attempt and never to resubmit it.
Claim(w, d) ==
  /\ worker[w].phase = "idle"
  /\ Claimable(head[d])
  /\ WithinAttemptBound(d)
  /\ \E c \in ClaimIds : Fresh(c)
  /\ head' = [head EXCEPT ![d].claim = newClaimId, ![d].ttl = LeaseTicks]
  /\ worker' = [worker EXCEPT ![w] =
       IF head[d].state = "request_started"
       THEN [IdleWorker EXCEPT !.phase = "recovering", !.delivery = d,
               !.claim = newClaimId, !.version = head[d].version,
               !.attempt = head[d].count, !.answer = "acceptance_unknown"]
       ELSE [IdleWorker EXCEPT !.phase = "claimed", !.delivery = d,
               !.claim = newClaimId, !.version = head[d].version]]
  /\ UNCHANGED <<attempts, facts, contact, mailbox, crashes>>

Owns(w) == head[worker[w].delivery].claim = worker[w].claim

\* The envelope cannot be resolved, no longer matches the reviewed digest,
\* or the authorized resend is refused: the claim is given back if it is
\* still this call's, and the error is rethrown.
PrepareFails(w) ==
  /\ worker[w].phase = "claimed"
  /\ head' = [head EXCEPT ![worker[w].delivery] =
       IF Owns(w) /\ @.state # "request_started" THEN LeaseCleared(@) ELSE @]
  /\ Idle(w)
  /\ UNCHANGED <<attempts, facts, contact, mailbox, crashes>>

-----------------------------------------------------------------------------
(* Starting an attempt.                                                    *)

\* Mistake for NoUnmarkedDuplicate: only the last landing is looked at, so a
\* retry after a rejected marked resend looks like the original again.
RequiredKindSlip(h) ==
  IF h.state = "acceptance_unknown" /\ ~NativeKey
  THEN "marked_resend" ELSE "original"

\* Mistake for OnlyCorrectionsAreRefused: every retry carries the mark.
RetryMarkedSlip(h) ==
  IF h.count > 0 /\ ~NativeKey THEN "marked_resend" ELSE "original"

RequiredKind(h) ==
  IF h.unknown > 0 /\ ~NativeKey THEN "marked_resend" ELSE "original"

\* The worker looks for a corrected recipient only before an original retry
\* of a rejected delivery whose recipient bounced.
AuthorizedResend(d) ==
  /\ RequiredKind(head[d]) = "original"
  /\ head[d].state = "known_rejected_safe_retryable"
  /\ contact[d].bounced
  /\ contact[d].corrections > 0

Started(h, n) == LeaseRenewed(
  [h EXCEPT !.state = "request_started", !.version = h.version + 1, !.count = n])

StartAttempt(w) ==
  LET d == worker[w].delivery
      n == head[d].count + 1
  IN /\ worker[w].phase = "claimed"
     /\ Owns(w)
     /\ head[d].version = worker[w].version
     /\ Dispatchable(head[d])
     /\ AuthorizedResend(d) => "corrected" \notin contact[d].suppressed
     /\ attempts' = [attempts EXCEPT ![d][n] =
          [kind |-> IF AuthorizedResend(d) THEN "marked_resend"
                    ELSE RequiredKind(head[d]),
           target |-> IF AuthorizedResend(d) THEN "corrected" ELSE "reviewed",
           state |-> "request_started"]]
     /\ head' = [head EXCEPT ![d] = Started(@, n)]
     /\ worker' = [worker EXCEPT ![w].phase = "submitting", ![w].attempt = n]
     /\ UNCHANGED <<facts, contact, mailbox, crashes>>

\* outbound_delivery_attempt_conflict: the claim lapsed and was taken, or the
\* correction ceremony cleared it.  A typed skip with nothing to release.
LoseClaim(w) ==
  /\ worker[w].phase = "claimed"
  /\ ~Owns(w) \/ head[worker[w].delivery].version # worker[w].version
  /\ Idle(w)
  /\ UNCHANGED <<head, attempts, facts, contact, mailbox, crashes>>

-----------------------------------------------------------------------------
(* The provider, and completing an attempt.                                *)

\* A natively idempotent provider keeps one message per delivery key.
Delivered(d, n) ==
  IF NativeKey /\ mailbox[d] # {} THEN mailbox[d] ELSE mailbox[d] \cup {n}

\* The request leaves and comes back.  The provider takes the message when it
\* says accepted, does not when it says rejected or bounced, and may or may
\* not have when the answer is unknown.
ProviderAnswers(w, answer) ==
  LET d == worker[w].delivery
  IN /\ worker[w].phase = "submitting"
     /\ worker' = [worker EXCEPT ![w].phase = "answered",
                                 ![w].answer = answer, ![w].elapsed = 0]
     /\ \/ /\ answer \in {"accepted", "acceptance_unknown"}
           /\ mailbox' = [mailbox EXCEPT ![d] = Delivered(d, worker[w].attempt)]
        \/ /\ answer # "accepted"
           /\ UNCHANGED mailbox
     /\ UNCHANGED <<head, attempts, facts, contact, crashes>>

Completing(w) == worker[w].phase \in {"answered", "recovering"}

\* Mistake for CopiesAreBounded: the marked resend is never spent.
ConsumesResendSlip(w) == FALSE

ConsumesResend(w) ==
  /\ worker[w].answer = "acceptance_unknown"
  /\ attempts[worker[w].delivery][worker[w].attempt].kind = "marked_resend"

\* Mistake for AmbiguityIsCounted: an unknown landing is not counted.
UnknownAfterSlip(w) == head[worker[w].delivery].unknown

UnknownAfter(w) ==
  LET h == head[worker[w].delivery]
  IN IF worker[w].answer = "acceptance_unknown" THEN h.unknown + 1 ELSE h.unknown

\* CHECK(marked_resend_exhausted = 0 OR unknown_attempt_count >= 2) on the
\* row the completion would write.
BreaksExhaustionCheck(w) ==
  /\ ConsumesResend(w) \/ head[worker[w].delivery].exhausted
  /\ UnknownAfter(w) < 2

\* Mistake for AnswersAreKept: a fenced answer is dropped.
AddFactSlip(w, fenced) ==
  facts' = IF fenced THEN facts
           ELSE [facts EXCEPT ![worker[w].delivery] = @ \cup
             {[attempt |-> worker[w].attempt, fenced |-> FALSE,
               state |-> Landed(worker[w].answer)]}]

\* Mistake for EvidenceAgreesWithAttempts: a fenced answer is recorded as the
\* resolution of its attempt.
UnfencedFactSlip(w, fenced) ==
  facts' = [facts EXCEPT ![worker[w].delivery] = @ \cup
    {[attempt |-> worker[w].attempt, fenced |-> FALSE,
      state |-> Landed(worker[w].answer)]}]

AddFact(w, fenced) ==
  facts' = [facts EXCEPT ![worker[w].delivery] = @ \cup
    {[attempt |-> worker[w].attempt, fenced |-> fenced,
      state |-> Landed(worker[w].answer)]}]

Settled(h, landed, unknown, spent) == LeaseCleared(
  [h EXCEPT !.state = landed, !.version = h.version + 1, !.unknown = unknown,
            !.exhausted = h.exhausted \/ spent])

Suppress(c) ==
  [c EXCEPT !.bounced = TRUE, !.suppressed = c.suppressed \cup {"reviewed"}]

\* #complete by the claim's owner: the attempt and the head settle together,
\* the lease goes, a synchronous bounce suppresses the reviewed address.
SettleAttempt(w) ==
  LET d == worker[w].delivery
      n == worker[w].attempt
      landed == Landed(worker[w].answer)
  IN /\ Completing(w)
     /\ Owns(w)
     /\ head[d].state = "request_started"
     /\ head[d].count = n
     /\ ~BreaksExhaustionCheck(w)
     /\ attempts' = [attempts EXCEPT ![d][n].state = landed]
     /\ head' = [head EXCEPT ![d] =
          Settled(@, landed, UnknownAfter(w), ConsumesResend(w))]
     /\ contact' = IF worker[w].answer = "accepted_permanent_bounce"
                   THEN [contact EXCEPT ![d] = Suppress(@)] ELSE contact
     /\ AddFact(w, FALSE)
     /\ Idle(w)
     /\ UNCHANGED <<mailbox, crashes>>

\* #complete by a call whose claim was taken: the answer is kept as evidence
\* and neither the attempt nor the head is touched.
KeepFencedAnswer(w) ==
  /\ Completing(w)
  /\ ~Owns(w)
  /\ AddFact(w, TRUE)
  /\ Idle(w)
  /\ UNCHANGED <<head, attempts, contact, mailbox, crashes>>

\* Mistake for LedgerIsConsistent: the attempt was written before the head was
\* refused, and stays written.
CompletionAbortsSlip(w) ==
  /\ Completing(w)
  /\ Owns(w)
  /\ BreaksExhaustionCheck(w)
  /\ attempts' = [attempts EXCEPT ![worker[w].delivery][worker[w].attempt].state =
                    "acceptance_unknown"]
  /\ Idle(w)
  /\ UNCHANGED <<head, facts, contact, mailbox, crashes>>

\* #complete aborted by the schema: the transaction rolls back, the error
\* escapes dispatch, and the claim stays until its lease lapses.
CompletionAborts(w) ==
  /\ Completing(w)
  /\ Owns(w)
  /\ BreaksExhaustionCheck(w)
  /\ Idle(w)
  /\ UNCHANGED <<head, attempts, facts, contact, mailbox, crashes>>

-----------------------------------------------------------------------------
(* The organizer, the provider's later observations, time and crashes.     *)

\* A conclusive bounce found by the observation lookup for an attempt the
\* provider accepted; that attempt need not be the current one any more.
ObserveBounce(d) ==
  /\ ~contact[d].bounced
  /\ \E n \in AttemptNumbers : attempts[d][n].state = "accepted"
  /\ contact' = [contact EXCEPT ![d].bounced = TRUE]
  /\ UNCHANGED <<head, attempts, facts, worker, mailbox, crashes>>

\* Another delivery's bounce suppresses the address this one was corrected to.
SuppressedElsewhere(d) ==
  /\ contact[d].corrections > 0
  /\ contact' = [contact EXCEPT ![d].suppressed = @ \cup {"corrected"}]
  /\ UNCHANGED <<head, attempts, facts, worker, mailbox, crashes>>

Correctable(h) == h.state \notin {"unregistered", "request_started"}

Corrected(h) == LeaseCleared(
  [h EXCEPT !.state = "known_rejected_safe_retryable", !.version = h.version + 1])

\* retry_message_delivery: whatever claim is held is cleared.
CorrectAddress(d) ==
  /\ Correctable(head[d])
  /\ contact[d].bounced
  /\ "corrected" \notin contact[d].suppressed
  /\ contact[d].corrections < MaxCorrections
  /\ contact' = [contact EXCEPT ![d].corrections = @ + 1]
  /\ head' = [head EXCEPT ![d] = Corrected(@)]
  /\ UNCHANGED <<attempts, facts, worker, mailbox, crashes>>

\* Time passes: leases run down, and requests still out grow older.
Tick ==
  /\ \/ \E d \in Deliveries : head[d].ttl > 0
     \/ \E w \in Workers : worker[w].phase = "submitting"
                           /\ worker[w].elapsed <= BudgetTicks
  /\ head' = [d \in Deliveries |->
       [head[d] EXCEPT !.ttl = IF @ > 0 THEN @ - 1 ELSE 0]]
  /\ worker' = [w \in Workers |->
       [worker[w] EXCEPT !.elapsed =
          IF worker[w].phase = "submitting" /\ @ <= BudgetTicks
          THEN @ + 1 ELSE @]]
  /\ UNCHANGED <<attempts, facts, contact, mailbox, crashes>>

\* The process dies; a request already out may still reach the provider.
Crash(w) ==
  /\ worker[w].phase # "idle"
  /\ crashes < MaxCrashes
  /\ crashes' = crashes + 1
  /\ Idle(w)
  /\ \/ /\ worker[w].phase = "submitting"
        /\ mailbox' = [mailbox EXCEPT ![worker[w].delivery] =
             Delivered(worker[w].delivery, worker[w].attempt)]
     \/ UNCHANGED mailbox
  /\ UNCHANGED <<head, attempts, facts, contact>>

WorkerStep(w) ==
  \/ PrepareFails(w)
  \/ StartAttempt(w)
  \/ LoseClaim(w)
  \/ \E answer \in Answers : ProviderAnswers(w, answer)
  \/ SettleAttempt(w)
  \/ KeepFencedAnswer(w)
  \/ CompletionAborts(w)
  \/ Crash(w)

Next ==
  \/ \E d \in Deliveries :
       \/ Register(d)
       \/ ObserveBounce(d)
       \/ SuppressedElsewhere(d)
       \/ CorrectAddress(d)
  \/ \E w \in Workers, d \in Deliveries : Claim(w, d)
  \/ \E w \in Workers : WorkerStep(w)
  \/ Tick

Spec == Init /\ [][Next]_vars

-----------------------------------------------------------------------------
(* What the lane promises.                                                 *)

\* A recipient never holds two copies of one message that both look like the
\* original, however claims, crashes, stalls, ambiguous answers and address
\* corrections interleave: a second copy always carries the resend mark.
NoUnmarkedDuplicate ==
  \A d \in Deliveries : \A m, n \in mailbox[d] :
    attempts[d][m].kind = "original" /\ attempts[d][n].kind = "original"
      => m = n

\* The single marked resend bounds the copies a recipient can hold: two, plus
\* one for each deliberate address correction.
CopiesAreBounded ==
  \A d \in Deliveries :
    Cardinality(mailbox[d]) <= 2 + contact[d].corrections

\* Once an attempt has landed with unknown acceptance, every later attempt is
\* marked, unless the provider deduplicates natively.
AmbiguityMarksLaterAttempts ==
  ~NativeKey => \A d \in Deliveries : \A m, n \in AttemptNumbers :
    /\ m < n
    /\ attempts[d][m].state = "acceptance_unknown"
    /\ attempts[d][n].state # "absent"
    => attempts[d][n].kind = "marked_resend"

\* The rows agree: attempts are numbered without holes, only the current one
\* can be open, and it is open exactly while the head says request_started,
\* which happens only under a claim.
LedgerIsConsistent ==
  \A d \in Deliveries :
    /\ \A n \in AttemptNumbers :
         /\ attempts[d][n].state = "absent" <=> n > head[d].count
         /\ attempts[d][n].state = "request_started"
              <=> n = head[d].count /\ head[d].state = "request_started"
    /\ head[d].state = "request_started" => head[d].claim # None
    /\ head[d].state \in {"unregistered", "pending"} <=> head[d].count = 0

\* unknown_attempt_count counts the attempts that landed unknown, and a
\* quarantined delivery really spent a marked resend after an earlier
\* ambiguity.
AmbiguityIsCounted ==
  \A d \in Deliveries :
    LET Unknown == {n \in AttemptNumbers :
                      attempts[d][n].state = "acceptance_unknown"}
    IN /\ head[d].unknown = Cardinality(Unknown)
       /\ head[d].exhausted =>
            \E m, n \in Unknown : m < n /\ attempts[d][n].kind = "marked_resend"

\* The schema's CHECK on the exhausted flag refuses no ordinary ambiguity: a
\* completion it aborts is that of a resend to a corrected address.
OnlyCorrectionsAreRefused ==
  \A w \in Workers :
    LET d == worker[w].delivery
    IN Completing(w) /\ Owns(w) /\ BreaksExhaustionCheck(w)
         => /\ attempts[d][worker[w].attempt].target = "corrected"
            /\ contact[d].corrections > 0

\* The lease is derived from the request budget and renewed when the attempt
\* starts, so a request no older than the budget never loses its lease.
OrdinarySendKeepsLease ==
  \A w \in Workers :
    worker[w].phase = "submitting" /\ worker[w].elapsed <= BudgetTicks
      => Owns(w) /\ head[worker[w].delivery].ttl > 0

\* Two calls never have requests of ordinary length out for one delivery: a
\* sweep that finds request_started finds an abandoned attempt, not a live one.
NoConcurrentSubmission ==
  \A v, w \in Workers :
    /\ worker[v].phase = "submitting" /\ worker[v].elapsed <= BudgetTicks
    /\ worker[w].phase = "submitting" /\ worker[w].elapsed <= BudgetTicks
    /\ worker[v].delivery = worker[w].delivery
    => v = w

\* Each attempt has one effective resolution, the one its evidence says; a
\* fenced answer is evidence beside it and never replaces it.
EvidenceAgreesWithAttempts ==
  \A d \in Deliveries : \A n \in AttemptNumbers : \A s \in Resolutions :
    [attempt |-> n, fenced |-> FALSE, state |-> s] \in facts[d]
      <=> attempts[d][n].state = s

\* A provider answer held by a live call is not thrown away: when the call
\* ends, other than by dying or by the schema refusing the row, the answer is
\* in the evidence, even if another worker has settled the delivery since.
AnswersAreKept ==
  [][\A w \in Workers :
       /\ worker[w].phase = "answered" /\ worker'[w].phase = "idle"
       /\ crashes' = crashes
       /\ ~(Owns(w) /\ BreaksExhaustionCheck(w))
       => \E f \in facts'[worker[w].delivery] :
            /\ f.attempt = worker[w].attempt
            /\ f.state = Landed(worker[w].answer)]_vars

\* A settled or quarantined delivery stays as it is until an organizer
\* corrects the address: no late writer, sweep or kick moves it.
SettledStaysSettled ==
  [][\A d \in Deliveries :
       /\ \/ head[d].state \in {"accepted", "known_rejected_terminal"}
          \/ head[d].state = "acceptance_unknown" /\ head[d].exhausted
       /\ contact'[d].corrections = contact[d].corrections
       => head'[d].state = head[d].state]_vars

\* The retry ceremony is an address-correcting resend: the attempt that
\* follows it goes to the corrected address.  The code does not keep this when
\* an earlier attempt landed unknown.
CorrectionReachesCorrectedAddress ==
  [][\A d \in Deliveries :
       /\ head'[d].count > head[d].count
       /\ head[d].state = "known_rejected_safe_retryable"
       /\ contact[d].corrections > 0
       => attempts'[d][head'[d].count].target = "corrected"]_vars

-----------------------------------------------------------------------------
(* The ledger implements DeliveryPromise.                                  *)

StageOf(d) ==
  CASE head[d].state = "unregistered" -> "absent"
    [] head[d].state \in {"pending", "known_rejected_safe_retryable"} -> "waiting"
    [] head[d].state = "request_started" ->
         IF attempts[d][head[d].count].kind = "original"
         THEN "sending_unmarked" ELSE "sending_marked"
    [] head[d].state \in {"accepted", "known_rejected_terminal"} -> "settled"
    [] head[d].state = "acceptance_unknown" ->
         IF head[d].exhausted THEN "quarantined" ELSE "ambiguous"

\* The recipient may hold, or be about to receive, attempt n unmarked.
MayBeOut(d, n) ==
  /\ attempts[d][n].kind = "original"
  /\ attempts[d][n].state \in
       {"request_started", "accepted", "acceptance_unknown"}

\* Its unmarked copies that are out or may have arrived.
ExposedOf(d) == {n \in AttemptNumbers : MayBeOut(d, n)}

Promise == INSTANCE DeliveryPromise WITH
  Copies <- AttemptNumbers,
  Dedupes <- NativeKey,
  stage <- [d \in Deliveries |-> StageOf(d)],
  exposed <- [d \in Deliveries |-> ExposedOf(d)]

\* Every step of the ledger, its workers and its crashes is a step of the
\* promise or changes nothing the promise can see: a submission is unmarked
\* only while no unmarked copy can be out, and only a definite rejection makes
\* room for another.
KeepsPromise == Promise!Spec
=============================================================================
