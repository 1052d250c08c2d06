-------------------------- MODULE OutboundDispatch --------------------------
(***************************************************************************)
(* Who calls the delivery worker: passes of the dispatch loop (the 2 s     *)
(* supervised sweep, and the pass after a send commits), which read the    *)
(* claimable deliveries once and then dispatch them one after another, and *)
(* single dispatchOne calls: the kick after a sign-in link is registered,  *)
(* and a deliberate retry.                                                 *)
(***************************************************************************)
EXTENDS OutboundDelivery

CONSTANTS
  Passes,             \* workers driven by runOnce
  Callers,            \* workers driven by dispatchOne
  Place,              \* a delivery's place by created_at_ms, delivery_id
  Poisoned,           \* deliveries whose envelope never resolves
  DeliberateRetries   \* whether dispatchOne is also called for a retry

ASSUME OutboundDispatchAssumption ==
  /\ Workers = Passes \cup Callers /\ Passes \cap Callers = {}
  /\ Place \in [Deliveries -> Nat]
  /\ \A d, e \in Deliveries : Place[d] = Place[e] => d = e
  /\ Poisoned \subseteq Deliveries
  /\ DeliberateRetries \in BOOLEAN

VARIABLES
  queue,  \* what each pass has read and not yet dispatched
  fresh   \* registered deliveries whose after-commit kick is still due

dispatchVars == <<vars, queue, fresh>>

DispatchTypeOK ==
  /\ TypeOK
  /\ queue \in [Passes -> SUBSET Deliveries]
  /\ fresh \subseteq Deliveries

DispatchInit ==
  /\ Init
  /\ queue = [p \in Passes |-> {}]
  /\ fresh = {}

-----------------------------------------------------------------------------

\* Mistake for OnlyTheSchemaStrands: stranded attempts are not swept up.
SelectedSlip(d) == head[d].state = "pending" /\ head[d].ttl = 0

\* claimableDeliveryIds: retryable and ambiguous deliveries are left out.
Selected(d) ==
  /\ head[d].state \in {"pending", "request_started"}
  /\ head[d].ttl = 0

\* worker.dispatch: the claim is granted, or the call is skipped or refused.
Dispatch(w, d) ==
  \/ Claim(w, d)
  \/ ~(Claimable(head[d]) /\ WithinAttemptBound(d)) /\ UNCHANGED vars

\* runOnce reads the queue once, before its first dispatch.
ReadClaimable(p) ==
  /\ worker[p].phase = "idle"
  /\ queue[p] = {}
  /\ queue' = [queue EXCEPT ![p] = {d \in Deliveries : Selected(d)}]
  /\ queue'[p] # {}
  /\ UNCHANGED <<vars, fresh>>

\* The delivery the pass has come to.
IsFirst(d, S) == d \in S /\ \A e \in S : Place[d] <= Place[e]

\* Mistake for PassesFinish: a delivery that cannot be prepared is retried in
\* place.
DispatchNextSlip(p) ==
  /\ worker[p].phase = "idle"
  /\ \E d \in Deliveries :
       /\ IsFirst(d, queue[p])
       /\ Dispatch(p, d)
       /\ queue' = [queue EXCEPT ![p] = @ \ ({d} \ Poisoned)]
  /\ UNCHANGED fresh

\* The next delivery of the pass; what became of the previous one is a
\* result or a collected fault, and the queue keeps moving either way.
DispatchNext(p) ==
  /\ worker[p].phase = "idle"
  /\ \E d \in Deliveries :
       /\ IsFirst(d, queue[p])
       /\ Dispatch(p, d)
       /\ queue' = [queue EXCEPT ![p] = @ \ {d}]
  /\ UNCHANGED fresh

Kick(w, d) ==
  /\ worker[w].phase = "idle"
  /\ \/ d \in fresh
     \/ DeliberateRetries /\ Dispatchable(head[d]) /\ head[d].state # "pending"
  /\ Dispatch(w, d)
  /\ fresh' = fresh \ {d}
  /\ UNCHANGED queue

RegisterAndKick(d) ==
  /\ Register(d)
  /\ fresh' = fresh \cup {d}
  /\ UNCHANGED queue

\* Preparing fails for a poisoned envelope or a refused authorization.
Refused(w) ==
  LET d == worker[w].delivery
  IN \/ d \in Poisoned
     \/ AuthorizedResend(d) /\ "corrected" \in contact[d].suppressed

Start(w) ==
  /\ worker[w].phase = "claimed" /\ ~Refused(w)
  /\ StartAttempt(w)
  /\ UNCHANGED <<queue, fresh>>

Settle(w) == SettleAttempt(w) /\ UNCHANGED <<queue, fresh>>

Proceed(w) ==
  /\ \/ worker[w].phase = "claimed" /\ Refused(w) /\ PrepareFails(w)
     \/ LoseClaim(w)
     \/ \E answer \in Answers : ProviderAnswers(w, answer)
     \/ KeepFencedAnswer(w)
     \/ CompletionAborts(w)
  /\ UNCHANGED <<queue, fresh>>

\* The process dies with the pass it was running.
CrashCall(w) ==
  /\ Crash(w)
  /\ queue' = [p \in Passes |-> IF p = w THEN {} ELSE queue[p]]
  /\ UNCHANGED fresh

Surroundings ==
  /\ \/ Tick
     \/ \E d \in Deliveries :
          ObserveBounce(d) \/ SuppressedElsewhere(d) \/ CorrectAddress(d)
  /\ UNCHANGED <<queue, fresh>>

DispatchLoopNext ==
  \/ \E d \in Deliveries : RegisterAndKick(d)
  \/ \E p \in Passes : ReadClaimable(p) \/ DispatchNext(p)
  \/ \E w \in Callers, d \in Deliveries : Kick(w, d)
  \/ \E w \in Workers : Start(w) \/ Settle(w) \/ Proceed(w) \/ CrashCall(w)
  \/ Surroundings

DispatchSpec == DispatchInit /\ [][DispatchLoopNext]_dispatchVars

\* The supervised sweep keeps coming, calls proceed, the clock runs, and a
\* call that is given its lease again and again is not stalled past its end
\* every time.  Nothing is assumed of kicks, retries, crashes or organizers.
Fairness ==
  /\ \A p \in Passes : /\ WF_dispatchVars(ReadClaimable(p))
                       /\ WF_dispatchVars(DispatchNext(p))
  /\ \A w \in Workers : /\ WF_dispatchVars(Proceed(w))
                        /\ SF_dispatchVars(Start(w))
                        /\ SF_dispatchVars(Settle(w))
  /\ WF_dispatchVars(Tick /\ UNCHANGED <<queue, fresh>>)

FairDispatchSpec == DispatchSpec /\ Fairness

-----------------------------------------------------------------------------

\* A registered delivery with a usable envelope is eventually attempted, and
\* an attempt stranded by a crash eventually recovered, whatever is queued in
\* front of it.
EveryDeliveryResolves ==
  \A d \in Deliveries \ Poisoned :
    head[d].state \in {"pending", "request_started"}
      ~> head[d].state \in Resolutions

\* A refusal of the schema is the only thing that can strand a delivery: an
\* attempt that is open, after any crash, deliberate retry or correction,
\* settles unless it is an authorized resend that lands unknown first.
OnlyTheSchemaStrands ==
  \A d \in Deliveries \ Poisoned :
    head[d].state \in {"pending", "request_started"}
      ~> \/ head[d].state \in Resolutions
         \/ /\ head[d].state = "request_started" /\ head[d].unknown = 0
            /\ attempts[d][head[d].count].kind = "marked_resend"

\* A pass ends, so the supervisor can start the next one: a delivery that
\* throws, a lost claim or a settled row never holds the queue.
PassesFinish ==
  \A p \in Passes : queue[p] # {} ~> queue[p] = {}

\* Recovery takes only abandoned attempts: when a call takes over an attempt,
\* no call has a request of ordinary length out for that delivery.
RecoversOnlyAbandonedAttempts ==
  [][\A w \in Workers :
       worker[w].phase # "recovering" /\ worker'[w].phase = "recovering"
       => ~\E v \in Workers :
             /\ worker[v].phase = "submitting"
             /\ worker[v].delivery = worker'[w].delivery
             /\ worker[v].elapsed <= BudgetTicks]_dispatchVars

\* After the ceremony answers dispatch_requested, the delivery is dispatched.
\* The code does not keep this: no caller selects the state it leaves.
CorrectionIsDispatched ==
  \A d \in Deliveries :
    contact[d].corrections > 0 /\ head[d].state = "known_rejected_safe_retryable"
      ~> head[d].state # "known_rejected_safe_retryable"
=============================================================================
