----------------------- MODULE OutboundDeliveryProofs -----------------------
(***************************************************************************)
(* Theorems about OutboundDelivery, for any number of deliveries, workers, *)
(* attempts, corrections and crashes, any lease and request budget, and a  *)
(* provider that does or does not deduplicate.                             *)
(***************************************************************************)
EXTENDS OutboundDelivery, TLAPS

Active(w) == worker[w].phase # "idle"
OnAttempt(w) == worker[w].phase \in {"submitting", "answered", "recovering"}
Submitted(w) == worker[w].phase \in {"submitting", "answered"}

\* A running call holds a token no other running call holds.
TokensInv ==
  /\ \A w \in Workers : Active(w) => /\ worker[w].delivery \in Deliveries
                                     /\ worker[w].claim \in ClaimIds
  /\ \A v, w \in Workers : Active(v) /\ Active(w) /\ v # w
                             => worker[v].claim # worker[w].claim

\* What a call knows about the delivery it works on.  While it owns the claim
\* nobody else has moved the head.
CallInv(w) ==
  LET h == head[worker[w].delivery]
  IN /\ worker[w].phase = "claimed" /\ Owns(w)
          => Dispatchable(h) /\ h.count < MaxAttempts
     /\ OnAttempt(w) => /\ worker[w].attempt \in AttemptNumbers
                        /\ worker[w].attempt <= h.count
     /\ OnAttempt(w) /\ Owns(w)
          => h.state = "request_started" /\ h.count = worker[w].attempt
     /\ worker[w].phase = "answered" => worker[w].answer \in Answers
     /\ worker[w].phase = "recovering" => worker[w].answer = "acceptance_unknown"
CallsInv == \A w \in Workers : CallInv(w)

\* Only a delivery that was attempted has a bounce on record.
BounceInv == \A d \in Deliveries : contact[d].bounced => head[d].count > 0

LedgerInv == TypeOK /\ TokensInv /\ CallsInv /\ LedgerIsConsistent /\ BounceInv

\* What the provider may hold.  An attempt's request is out in at most one
\* call, and a message it took belongs to an attempt that is open or did not
\* end in a rejection.
MailboxInv ==
  /\ \A d \in Deliveries : \A n \in mailbox[d] :
       attempts[d][n].state \in {"request_started", "accepted", "acceptance_unknown"}
  /\ NativeKey => \A d \in Deliveries : \A m, n \in mailbox[d] : m = n
  /\ \A v, w \in Workers :
       Submitted(v) /\ Submitted(w) /\ worker[v].delivery = worker[w].delivery
         /\ worker[v].attempt = worker[w].attempt => v = w
  /\ \A w \in Workers :
       LET d == worker[w].delivery
           n == worker[w].attempt
       IN /\ worker[w].phase = "submitting"
               => /\ n \notin mailbox[d]
                  /\ attempts[d][n].state \in {"request_started", "acceptance_unknown"}
          /\ worker[w].phase = "answered"
               /\ worker[w].answer \in {"known_rejected_safe_retryable",
                                        "known_rejected_terminal"}
               => n \notin mailbox[d]

\* What the head's counters say about copies that may be out: an unknown
\* landing is counted, and while none is and no bounced address has been
\* corrected, only the current attempt can have sent anything.
CountsInv(d) ==
  /\ \A n \in AttemptNumbers :
       attempts[d][n].state = "acceptance_unknown" => head[d].unknown > 0
  /\ head[d].state = "acceptance_unknown" => head[d].unknown > 0
OnlyCurrentInv(d) ==
  head[d].unknown = 0 /\ ~(contact[d].bounced /\ contact[d].corrections > 0)
    => \A n \in AttemptNumbers : MayBeOut(d, n)
         => n = head[d].count /\ head[d].state \in {"request_started", "accepted"}
SingleInv(d) ==
  ~NativeKey => \A m, n \in AttemptNumbers :
    MayBeOut(d, m) /\ MayBeOut(d, n) => m = n
ExposureInv ==
  \A d \in Deliveries : CountsInv(d) /\ OnlyCurrentInv(d) /\ SingleInv(d)

DeliveryInv == LedgerInv /\ MailboxInv /\ ExposureInv /\ AmbiguityMarksLaterAttempts

-----------------------------------------------------------------------------

\* A token that can be minted is minted, and it is fresh.
LEMMA NewClaimIsFresh ==
  ASSUME \E c \in ClaimIds : Fresh(c)
  PROVE  newClaimId \in ClaimIds /\ Fresh(newClaimId)
BY DEF newClaimId

\* Every answer a provider can give lands as one of the four resolutions.
LEMMA AnswersLand ==
  ASSUME NEW answer \in Answers
  PROVE  Landed(answer) \in Resolutions
BY DEF Landed, Answers, Resolutions

\* The initial rows are consistent.
LEMMA LedgerInvInit == Init => LedgerInv
<1> SUFFICES ASSUME Init PROVE LedgerInv
  OBVIOUS
<1> USE OutboundDeliveryAssumption DEF Init
<1>1. TypeOK
  BY DEF TypeOK, HeadRow, AttemptRow, FactRow, ContactRow, WorkerState, NewHead,
         NoAttempt, NewContact, IdleWorker, HeadStates, AttemptStates, Kinds,
         Addresses, Resolutions
<1>2. TokensInv
  BY DEF TokensInv, Active, IdleWorker
<1>3. CallsInv
  BY DEF CallsInv, CallInv, OnAttempt, IdleWorker
<1>4. LedgerIsConsistent
  BY DEF LedgerIsConsistent, NewHead, NoAttempt, AttemptNumbers
<1>5. BounceInv
  BY DEF BounceInv, NewContact
<1> QED
  BY <1>1, <1>2, <1>3, <1>4, <1>5 DEF LedgerInv

\* Taking, clearing and renewing a lease give rows of the table.
LEMMA LeaseRows ==
  ASSUME NEW h \in HeadRow
  PROVE  /\ LeaseCleared(h) \in HeadRow
         /\ LeaseRenewed(h) \in HeadRow
         /\ \A c \in ClaimIds : [h EXCEPT !.claim = c, !.ttl = LeaseTicks] \in HeadRow
<1>1. {0, LeaseTicks} \subseteq 0..LeaseTicks
  BY OutboundDeliveryAssumption
<1>2. LeaseCleared(h) \in HeadRow
  BY <1>1 DEF LeaseCleared, HeadRow
<1>3. LeaseRenewed(h) \in HeadRow
  BY <1>1 DEF LeaseRenewed, HeadRow
<1>4. ASSUME NEW c \in ClaimIds
      PROVE  [h EXCEPT !.claim = c, !.ttl = LeaseTicks] \in HeadRow
  BY <1>1 DEF HeadRow
<1> QED BY <1>2, <1>3, <1>4

\* So do starting an attempt, settling it and correcting an address.
LEMMA StartRow ==
  ASSUME NEW h \in HeadRow, NEW n \in 0..MaxAttempts
  PROVE  Started(h, n) \in HeadRow
<1>1. h.version + 1 \in Nat /\ "request_started" \in HeadStates
  BY DEF HeadRow, HeadStates
<1>2. [h EXCEPT !.state = "request_started", !.version = h.version + 1, !.count = n]
        \in HeadRow
  BY <1>1 DEF HeadRow
<1> QED BY <1>2, LeaseRows DEF Started

LEMMA SettledRow ==
  ASSUME NEW h \in HeadRow, NEW landed \in Resolutions, NEW unknown \in Nat,
         NEW spent \in BOOLEAN
  PROVE  Settled(h, landed, unknown, spent) \in HeadRow
<1> DEFINE e == h.exhausted \/ spent
<1>1. h.version + 1 \in Nat /\ landed \in HeadStates /\ e \in BOOLEAN
  BY DEF HeadRow, HeadStates
<1> HIDE DEF e
<1>2. [h EXCEPT !.state = landed, !.version = h.version + 1, !.unknown = unknown,
                !.exhausted = e] \in HeadRow
  BY <1>1 DEF HeadRow
<1> QED BY <1>2, LeaseRows DEF e, Settled

LEMMA CorrectedRow ==
  ASSUME NEW h \in HeadRow
  PROVE  Corrected(h) \in HeadRow
<1>1. h.version + 1 \in Nat /\ "known_rejected_safe_retryable" \in HeadStates
  BY DEF HeadRow, HeadStates, Resolutions
<1>2. [h EXCEPT !.state = "known_rejected_safe_retryable", !.version = h.version + 1]
        \in HeadRow
  BY <1>1 DEF HeadRow
<1> QED BY <1>2, LeaseRows DEF Corrected

LEMMA SuppressedRow ==
  ASSUME NEW c \in ContactRow
  PROVE  Suppress(c) \in ContactRow
<1>1. TRUE \in BOOLEAN /\ c.suppressed \cup {"reviewed"} \in SUBSET Addresses
  BY DEF ContactRow, Addresses
<1> QED BY <1>1 DEF Suppress, ContactRow

\* The invariant is inductive: one step per operation.
LEMMA LedgerInvNext == LedgerInv /\ [Next]_vars => LedgerInv'
<1> SUFFICES ASSUME LedgerInv, [Next]_vars PROVE LedgerInv'
  OBVIOUS
<1> USE DEF LedgerInv
<1>1. ASSUME NEW d \in Deliveries, Register(d) PROVE LedgerInv'
  <2> USE <1>1 DEF Register
  <2>1. TypeOK'
    <3>1. [head[d] EXCEPT !.state = "pending", !.version = 1] \in HeadRow
      BY DEF TypeOK, HeadRow, HeadStates
    <3> QED BY <3>1 DEF TypeOK
  <2>2. TokensInv'
    BY DEF TokensInv, Active
  <2>3. CallsInv'
    BY DEF CallsInv, CallInv, OnAttempt, TypeOK, TokensInv, Active, Owns, HeadRow, Dispatchable
  <2>4. LedgerIsConsistent'
    BY DEF LedgerIsConsistent, TypeOK, HeadRow, AttemptNumbers
  <2>5. BounceInv'
    BY DEF BounceInv, TypeOK, HeadRow
  <2> QED BY <2>1, <2>2, <2>3, <2>4, <2>5
<1>2. ASSUME NEW w \in Workers, NEW d \in Deliveries, Claim(w, d) PROVE LedgerInv'
  <2>1. newClaimId \in ClaimIds /\ Fresh(newClaimId)
    BY <1>2, NewClaimIsFresh DEF Claim
  <2> USE <1>2, <2>1 DEF Claim, IdleWorker
  <2>2. TypeOK'
    <3>1. head' \in [Deliveries -> HeadRow]
      BY LeaseRows DEF TypeOK
    <3>2. worker'[w] \in WorkerState
      <4>1. head[d].count \in 0..MaxAttempts /\ head[d].version \in Nat
        BY DEF TypeOK, HeadRow
      <4>2. 0 \in 0..MaxAttempts /\ 0 \in 0..BudgetTicks + 1
        BY OutboundDeliveryAssumption
      <4> QED BY <4>1, <4>2 DEF TypeOK, WorkerState, Answers, Resolutions
    <3>3. worker' \in [Workers -> WorkerState]
      BY <3>2 DEF TypeOK
    <3> QED BY <3>1, <3>3 DEF TypeOK
  <2>3. TokensInv'
    BY DEF TokensInv, Active, Fresh, TypeOK, WorkerState
  <2>4. CallsInv'
    BY DEF CallsInv, CallInv, OnAttempt, TypeOK, TokensInv, Active, Owns, HeadRow, Dispatchable,
           WorkerState, Fresh, Claimable, WithinAttemptBound, LedgerIsConsistent, AttemptNumbers
  <2>5. LedgerIsConsistent'
    BY OutboundDeliveryAssumption DEF LedgerIsConsistent, TypeOK, HeadRow, AttemptNumbers
  <2>6. BounceInv'
    BY DEF BounceInv, TypeOK, HeadRow
  <2> QED BY <2>2, <2>3, <2>4, <2>5, <2>6
<1>3. ASSUME NEW w \in Workers, PrepareFails(w) PROVE LedgerInv'
  <2> USE <1>3 DEF PrepareFails, Idle, IdleWorker
  <2>1. TypeOK'
    <3>1. head' \in [Deliveries -> HeadRow]
      BY LeaseRows DEF TypeOK
    <3>2. IdleWorker \in WorkerState
      BY OutboundDeliveryAssumption DEF WorkerState
    <3> QED BY <3>1, <3>2 DEF TypeOK
  <2>2. TokensInv'
    BY DEF TokensInv, Active, TypeOK, WorkerState
  <2>3. CallsInv'
    BY OutboundDeliveryAssumption
       DEF CallsInv, CallInv, OnAttempt, TypeOK, TokensInv, Active, Owns, HeadRow, Dispatchable,
           WorkerState, LeaseCleared
  <2>4. LedgerIsConsistent'
    BY DEF LedgerIsConsistent, TypeOK, HeadRow, AttemptNumbers, LeaseCleared
  <2>5. BounceInv'
    BY DEF BounceInv, TypeOK, HeadRow, LeaseCleared
  <2> QED BY <2>1, <2>2, <2>3, <2>4, <2>5
<1>4. ASSUME NEW w \in Workers, StartAttempt(w) PROVE LedgerInv'
  <2> DEFINE d == worker[w].delivery
             n == head[d].count + 1
  <2>1. /\ d \in Deliveries /\ worker[w].claim \in ClaimIds
        /\ worker[w].phase = "claimed" /\ Owns(w)
        /\ n \in AttemptNumbers /\ head[d].version \in Nat
        /\ head[d].state # "request_started" /\ head[d].state # "unregistered"
    <3>1. /\ d \in Deliveries /\ worker[w].claim \in ClaimIds
          /\ worker[w].phase = "claimed" /\ Owns(w)
      BY <1>4 DEF StartAttempt, TokensInv, Active
    <3>2. head[d] \in HeadRow /\ head[d].count < MaxAttempts
      BY <3>1 DEF TypeOK, CallsInv, CallInv
    <3>3. n \in AttemptNumbers /\ head[d].version \in Nat
      BY <3>2, OutboundDeliveryAssumption DEF HeadRow, AttemptNumbers
    <3> QED BY <3>1, <3>3, <1>4 DEF StartAttempt, Dispatchable
  <2>2. \A v \in Workers \ {w} : OnAttempt(v) => ~Owns(v) \/ worker[v].delivery # d
    BY <2>1 DEF TokensInv, Active, OnAttempt, Owns
  <2> USE <1>4, <2>1 DEF StartAttempt
  <2>3. TypeOK'
    <3>1. head[d] \in HeadRow /\ n \in 0..MaxAttempts
      BY DEF TypeOK, AttemptNumbers
    <3>2. head' \in [Deliveries -> HeadRow]
      BY <3>1, StartRow DEF TypeOK
    <3>3. attempts' \in [Deliveries -> [AttemptNumbers -> AttemptRow]]
      BY DEF TypeOK, AttemptRow, Kinds, Addresses, AttemptStates, RequiredKind
    <3>4. worker' \in [Workers -> WorkerState]
      <4>1. n \in 0..MaxAttempts
        BY DEF AttemptNumbers
      <4>2. [worker[w] EXCEPT !.phase = "submitting", !.attempt = n] \in WorkerState
        BY <4>1 DEF TypeOK, WorkerState
      <4> QED BY <4>2 DEF TypeOK
    <3> QED BY <3>2, <3>3, <3>4 DEF TypeOK
  <2>4. TokensInv'
    BY DEF TokensInv, Active, TypeOK, WorkerState
  <2>5. CallsInv'
    BY <2>2 DEF CallsInv, CallInv, OnAttempt, TypeOK, TokensInv, Active, Owns, HeadRow, Dispatchable,
           WorkerState, Started, LeaseRenewed, AttemptNumbers
  <2>6. LedgerIsConsistent'
    <3>1. /\ head'[d].count = n /\ head'[d].state = "request_started"
          /\ head'[d].claim = worker[w].claim
          /\ \A e \in Deliveries \ {d} : head'[e] = head[e]
      BY DEF TypeOK, HeadRow, Started, LeaseRenewed, Owns
    <3>2. /\ attempts'[d][n].state = "request_started"
          /\ \A m \in AttemptNumbers \ {n} : attempts'[d][m] = attempts[d][m]
          /\ \A e \in Deliveries \ {d} : attempts'[e] = attempts[e]
      BY DEF TypeOK, AttemptRow
    <3>3. head[d].count \in 0..MaxAttempts /\ MaxAttempts \in Nat
      BY OutboundDeliveryAssumption DEF TypeOK, HeadRow
    <3> HIDE <1>4
    <3> QED BY <3>1, <3>2, <3>3, OutboundDeliveryAssumption
            DEF LedgerIsConsistent, AttemptNumbers
  <2>7. BounceInv'
    BY DEF BounceInv, TypeOK, HeadRow, Started, LeaseRenewed
  <2> QED BY <2>3, <2>4, <2>5, <2>6, <2>7
<1>5. ASSUME NEW w \in Workers, LoseClaim(w) PROVE LedgerInv'
  <2> USE <1>5 DEF LoseClaim, Idle, IdleWorker
  <2>1. TypeOK'
    <3>1. IdleWorker \in WorkerState
      BY OutboundDeliveryAssumption DEF WorkerState
    <3> QED BY <3>1 DEF TypeOK
  <2>2. TokensInv'
    BY DEF TokensInv, Active, TypeOK, WorkerState
  <2>3. CallsInv'
    BY DEF CallsInv, CallInv, OnAttempt, TypeOK, Owns, Dispatchable, WorkerState
  <2>4. LedgerIsConsistent'
    BY DEF LedgerIsConsistent
  <2>5. BounceInv'
    BY DEF BounceInv, TypeOK, HeadRow
  <2> QED BY <2>1, <2>2, <2>3, <2>4, <2>5
<1>6. ASSUME NEW w \in Workers, NEW answer \in Answers, ProviderAnswers(w, answer)
      PROVE  LedgerInv'
  <2>1. /\ worker[w].delivery \in Deliveries /\ worker[w].phase = "submitting"
        /\ worker[w].attempt \in AttemptNumbers
    BY <1>6 DEF ProviderAnswers, TokensInv, Active, CallsInv, CallInv, OnAttempt
  <2> USE <1>6, <2>1 DEF ProviderAnswers
  <2>2. TypeOK'
    <3>1. worker' \in [Workers -> WorkerState]
      <4>1. 0 \in 0..BudgetTicks + 1
        BY OutboundDeliveryAssumption
      <4>2. [worker[w] EXCEPT !.phase = "answered", !.answer = answer, !.elapsed = 0]
              \in WorkerState
        BY <4>1 DEF TypeOK, WorkerState
      <4> QED BY <4>2 DEF TypeOK
    <3>2. mailbox' \in [Deliveries -> SUBSET AttemptNumbers]
      BY DEF TypeOK, Delivered
    <3> QED BY <3>1, <3>2 DEF TypeOK
  <2>3. TokensInv'
    BY DEF TokensInv, Active, TypeOK, WorkerState
  <2>4. CallsInv'
    BY DEF CallsInv, CallInv, OnAttempt, TypeOK, Owns, Dispatchable, WorkerState
  <2>5. LedgerIsConsistent'
    BY DEF LedgerIsConsistent
  <2>6. BounceInv'
    BY DEF BounceInv, TypeOK, HeadRow
  <2> QED BY <2>2, <2>3, <2>4, <2>5, <2>6
<1>7. ASSUME NEW w \in Workers, SettleAttempt(w) PROVE LedgerInv'
  <2> DEFINE d == worker[w].delivery
             n == worker[w].attempt
             landed == Landed(worker[w].answer)
  <2>1. /\ d \in Deliveries /\ worker[w].claim \in ClaimIds
        /\ OnAttempt(w) /\ Owns(w) /\ n \in AttemptNumbers
        /\ landed \in Resolutions
    <3>1. OnAttempt(w) /\ Owns(w) /\ Active(w) /\ Completing(w)
      BY <1>7 DEF SettleAttempt, Completing, OnAttempt, Active
    <3>2. d \in Deliveries /\ worker[w].claim \in ClaimIds /\ n \in AttemptNumbers
      BY <3>1 DEF TokensInv, CallsInv, CallInv
    <3>3. worker[w].answer \in Answers
      BY <3>1 DEF CallsInv, CallInv, Completing, Answers, Resolutions
    <3> QED BY <3>1, <3>2, <3>3, AnswersLand
  <2>2. \A v \in Workers \ {w} : Active(v) => ~Owns(v) \/ worker[v].delivery # d
    BY <2>1 DEF TokensInv, Active, OnAttempt, Owns
  <2>3. /\ head'[d].count = n /\ head'[d].state = landed /\ head'[d].claim = None
        /\ head[d].count = n /\ head[d].state = "request_started"
        /\ head' = [head EXCEPT ![d] = head'[d]]
    BY <1>7, <2>1 DEF SettleAttempt, TypeOK, HeadRow, Settled, LeaseCleared
  <2>4. /\ attempts'[d][n].state = landed
        /\ attempts' = [attempts EXCEPT ![d][n].state = landed]
        /\ worker' = [worker EXCEPT ![w] = IdleWorker]
        /\ UNCHANGED <<mailbox, crashes>>
    BY <1>7, <2>1 DEF SettleAttempt, TypeOK, AttemptRow, Idle
  <2>5. TypeOK'
    <3>1. head'[d] \in HeadRow
      <4>1. head[d] \in HeadRow /\ UnknownAfter(w) \in Nat /\ ConsumesResend(w) \in BOOLEAN
        BY <2>1 DEF TypeOK, HeadRow, UnknownAfter, ConsumesResend
      <4> QED BY <4>1, <2>1, <1>7, SettledRow DEF SettleAttempt, TypeOK
    <3>2. head' \in [Deliveries -> HeadRow]
      BY <2>3, <3>1 DEF TypeOK
    <3>3. attempts' \in [Deliveries -> [AttemptNumbers -> AttemptRow]]
      <4>1. attempts[d][n] \in AttemptRow /\ landed \in AttemptStates
        BY <2>1 DEF TypeOK, AttemptStates
      <4>2. [attempts[d][n] EXCEPT !.state = landed] \in AttemptRow
        BY <4>1 DEF AttemptRow
      <4> HIDE DEF landed
      <4> QED BY <4>2, <2>1, <2>4 DEF TypeOK
    <3>4. contact' \in [Deliveries -> ContactRow]
      BY <1>7, <2>1, SuppressedRow DEF SettleAttempt, TypeOK
    <3>5. facts' \in [Deliveries -> SUBSET FactRow]
      <4>1. [attempt |-> n, fenced |-> FALSE, state |-> landed] \in FactRow
        BY <2>1 DEF FactRow
      <4> QED BY <4>1, <1>7, <2>1 DEF SettleAttempt, TypeOK, AddFact
    <3>6. worker' \in [Workers -> WorkerState]
      <4>1. IdleWorker \in WorkerState
        BY OutboundDeliveryAssumption DEF WorkerState, IdleWorker
      <4> QED BY <4>1, <2>4 DEF TypeOK
    <3> QED BY <3>2, <3>3, <3>4, <3>5, <3>6, <2>4 DEF TypeOK
  <2>6. TokensInv'
    BY <2>4 DEF TokensInv, Active, TypeOK, WorkerState, IdleWorker
  <2>7. CallsInv'
    <3>1. worker'[w].phase = "idle"
      BY <2>4 DEF IdleWorker, TypeOK
    <3>2. ASSUME NEW v \in Workers \ {w}, Active(v)
          PROVE  /\ worker'[v] = worker[v]
                 /\ head'[worker[v].delivery].count = head[worker[v].delivery].count
                 /\ Owns(v)' => head'[worker[v].delivery] = head[worker[v].delivery]
      <4>1. worker'[v] = worker[v]
        BY <2>4 DEF TypeOK
      <4>2. worker[v].delivery \in Deliveries /\ worker[v].claim # None
        BY <3>2, OutboundDeliveryAssumption DEF TokensInv
      <4> QED BY <4>1, <4>2, <2>1, <2>3 DEF TypeOK, Owns
    <3>3. ASSUME NEW v \in Workers, v = w \/ ~Active(v) PROVE CallInv(v)'
      <4>1. worker'[v].phase = "idle"
        BY <3>1, <3>3, <2>4 DEF TypeOK, Active
      <4> QED BY <4>1 DEF CallInv, OnAttempt
    <3>4. ASSUME NEW v \in Workers \ {w}, Active(v) PROVE CallInv(v)'
      BY <3>2, <3>4 DEF CallsInv, CallInv, OnAttempt, Active, Owns, Dispatchable
    <3> QED BY <3>3, <3>4 DEF CallsInv
  <2>8. LedgerIsConsistent'
    BY <2>1, <2>3, <2>4 DEF LedgerIsConsistent, TypeOK, AttemptRow, Resolutions,
                           AttemptNumbers
  <2>9. BounceInv'
    BY <2>1, <2>3, <1>7 DEF SettleAttempt, Suppress, BounceInv, TypeOK, ContactRow, AttemptNumbers
  <2> QED BY <2>5, <2>6, <2>7, <2>8, <2>9
<1>8. ASSUME NEW w \in Workers, KeepFencedAnswer(w) PROVE LedgerInv'
  <2> DEFINE d == worker[w].delivery
             n == worker[w].attempt
  <2>1. d \in Deliveries /\ n \in AttemptNumbers /\ Landed(worker[w].answer) \in Resolutions
    <3>1. OnAttempt(w) /\ Active(w) /\ Completing(w)
      BY <1>8 DEF KeepFencedAnswer, Completing, OnAttempt, Active
    <3>2. d \in Deliveries /\ n \in AttemptNumbers
      BY <3>1 DEF TokensInv, CallsInv, CallInv
    <3>3. worker[w].answer \in Answers
      BY <3>1 DEF CallsInv, CallInv, Completing, Answers, Resolutions
    <3> QED BY <3>1, <3>2, <3>3, AnswersLand
  <2> USE <1>8 DEF KeepFencedAnswer, Idle, IdleWorker
  <2>2. TypeOK'
    <3>1. IdleWorker \in WorkerState
      BY OutboundDeliveryAssumption DEF WorkerState
    <3>2. [attempt |-> n, fenced |-> TRUE, state |-> Landed(worker[w].answer)] \in FactRow
      BY <2>1 DEF FactRow
    <3> QED BY <2>1, <3>1, <3>2 DEF TypeOK, AddFact
  <2>3. TokensInv'
    BY DEF TokensInv, Active, TypeOK, WorkerState
  <2>4. CallsInv'
    BY DEF CallsInv, CallInv, OnAttempt, TypeOK, Owns, Dispatchable, WorkerState
  <2>5. LedgerIsConsistent'
    BY DEF LedgerIsConsistent
  <2>6. BounceInv'
    BY DEF BounceInv, TypeOK, HeadRow
  <2> QED BY <2>2, <2>3, <2>4, <2>5, <2>6
<1>9. ASSUME NEW w \in Workers, CompletionAborts(w) PROVE LedgerInv'
  <2> USE <1>9 DEF CompletionAborts, Idle, IdleWorker
  <2>1. TypeOK'
    <3>1. IdleWorker \in WorkerState
      BY OutboundDeliveryAssumption DEF WorkerState
    <3> QED BY <3>1 DEF TypeOK
  <2>2. TokensInv'
    BY DEF TokensInv, Active, TypeOK, WorkerState
  <2>3. CallsInv'
    BY DEF CallsInv, CallInv, OnAttempt, TypeOK, Owns, Dispatchable, WorkerState
  <2>4. LedgerIsConsistent'
    BY DEF LedgerIsConsistent
  <2>5. BounceInv'
    BY DEF BounceInv, TypeOK, HeadRow
  <2> QED BY <2>1, <2>2, <2>3, <2>4, <2>5
<1>10. ASSUME NEW w \in Workers, Crash(w) PROVE LedgerInv'
  <2> USE <1>10 DEF Crash, Idle, IdleWorker
  <2>1. TypeOK'
    <3>1. IdleWorker \in WorkerState
      BY OutboundDeliveryAssumption DEF WorkerState
    <3>2. crashes' \in 0..MaxCrashes
      BY OutboundDeliveryAssumption DEF TypeOK
    <3>3. mailbox' \in [Deliveries -> SUBSET AttemptNumbers]
      <4>1. worker[w].phase = "submitting" =>
              worker[w].delivery \in Deliveries /\ worker[w].attempt \in AttemptNumbers
        BY DEF TokensInv, Active, CallsInv, CallInv, OnAttempt
      <4> QED BY <4>1 DEF TypeOK, Delivered
    <3> QED BY <3>1, <3>2, <3>3 DEF TypeOK
  <2>2. TokensInv'
    BY DEF TokensInv, Active, TypeOK, WorkerState
  <2>3. CallsInv'
    BY DEF CallsInv, CallInv, OnAttempt, TypeOK, Owns, Dispatchable, WorkerState
  <2>4. LedgerIsConsistent'
    BY DEF LedgerIsConsistent
  <2>5. BounceInv'
    BY DEF BounceInv, TypeOK, HeadRow
  <2> QED BY <2>1, <2>2, <2>3, <2>4, <2>5
<1>11. ASSUME NEW d \in Deliveries, ObserveBounce(d) \/ SuppressedElsewhere(d)
       PROVE  LedgerInv'
  <2> USE <1>11 DEF ObserveBounce, SuppressedElsewhere
  <2>1. TypeOK'
    <3>1. contact[d] \in ContactRow
      BY DEF TypeOK
    <3>2. /\ [contact[d] EXCEPT !.bounced = TRUE] \in ContactRow
          /\ [contact[d] EXCEPT !.suppressed = @ \cup {"corrected"}] \in ContactRow
      BY ONLY <3>1 DEF ContactRow, Addresses
    <3> QED BY <3>2 DEF TypeOK
  <2>2. TokensInv' /\ CallsInv' /\ LedgerIsConsistent'
    BY DEF TokensInv, Active, CallsInv, CallInv, OnAttempt, Owns, Dispatchable, LedgerIsConsistent
  <2>3. BounceInv'
    <3>1. contact'[d].bounced => head[d].count > 0
      <4>1. ASSUME NEW n \in AttemptNumbers, attempts[d][n].state = "accepted"
            PROVE  head[d].count > 0
        BY <4>1, OutboundDeliveryAssumption
           DEF LedgerIsConsistent, AttemptNumbers, TypeOK, HeadRow
      <4>2. contact'[d].bounced
              => contact[d].bounced \/ \E n \in AttemptNumbers : attempts[d][n].state = "accepted"
        BY DEF TypeOK, ContactRow
      <4> QED BY <4>1, <4>2 DEF BounceInv
    <3>2. \A e \in Deliveries \ {d} : contact'[e] = contact[e]
      BY DEF TypeOK
    <3> QED BY <3>1, <3>2 DEF BounceInv
  <2> QED BY <2>1, <2>2, <2>3
<1>12. ASSUME NEW d \in Deliveries, CorrectAddress(d) PROVE LedgerInv'
  <2>1. /\ head'[d].count = head[d].count
        /\ head'[d].state = "known_rejected_safe_retryable"
        /\ head'[d].claim = None
        /\ \A e \in Deliveries \ {d} : head'[e] = head[e]
        /\ head[d].state \notin {"unregistered", "request_started"}
        /\ UNCHANGED <<attempts, facts, worker, mailbox, crashes>>
    BY <1>12 DEF CorrectAddress, Correctable, TypeOK, HeadRow, Corrected, LeaseCleared
  <2>2. TypeOK'
    <3>1. Corrected(head[d]) \in HeadRow
      BY CorrectedRow DEF TypeOK
    <3>2. contact' \in [Deliveries -> ContactRow]
      <4>1. contact[d] \in ContactRow /\ contact[d].corrections + 1 \in 0..MaxCorrections
        BY <1>12, OutboundDeliveryAssumption DEF CorrectAddress, TypeOK, ContactRow
      <4>2. [contact[d] EXCEPT !.corrections = contact[d].corrections + 1] \in ContactRow
        BY ONLY <4>1 DEF ContactRow
      <4> QED BY <4>2, <1>12 DEF CorrectAddress, TypeOK
    <3> QED BY <3>1, <3>2, <1>12 DEF CorrectAddress, TypeOK
  <2>3. TokensInv'
    BY <2>1 DEF TokensInv, Active
  <2>4. CallsInv'
    BY <2>1, OutboundDeliveryAssumption
       DEF CallsInv, CallInv, TokensInv, Active, OnAttempt, Owns, Dispatchable
  <2>5. LedgerIsConsistent'
    BY <2>1, <1>12 DEF LedgerIsConsistent, CorrectAddress, BounceInv
  <2>6. BounceInv'
    BY <2>1, <1>12 DEF BounceInv, CorrectAddress, TypeOK, ContactRow
  <2> QED BY <2>2, <2>3, <2>4, <2>5, <2>6
<1>13. ASSUME Tick PROVE LedgerInv'
  <2>1. TypeOK'
    <3>1. \A h \in HeadRow : [h EXCEPT !.ttl = IF @ > 0 THEN @ - 1 ELSE 0] \in HeadRow
      <4> SUFFICES ASSUME NEW h \in HeadRow
                   PROVE  [h EXCEPT !.ttl = IF @ > 0 THEN @ - 1 ELSE 0] \in HeadRow
        OBVIOUS
      <4>1. (IF h.ttl > 0 THEN h.ttl - 1 ELSE 0) \in 0..LeaseTicks
        BY OutboundDeliveryAssumption DEF HeadRow
      <4> QED BY <4>1 DEF HeadRow
    <3>2. head' \in [Deliveries -> HeadRow]
      BY <1>13, <3>1 DEF Tick, TypeOK
    <3>3. worker' \in [Workers -> WorkerState]
      <4> SUFFICES ASSUME NEW w \in Workers
                   PROVE  worker'[w] \in WorkerState
        BY <1>13 DEF Tick
      <4> DEFINE e == IF worker[w].phase = "submitting" /\ worker[w].elapsed <= BudgetTicks
                      THEN worker[w].elapsed + 1 ELSE worker[w].elapsed
      <4>1. e \in 0..BudgetTicks + 1
        BY OutboundDeliveryAssumption DEF TypeOK, WorkerState
      <4>2. worker'[w] = [worker[w] EXCEPT !.elapsed = e]
        BY <1>13 DEF Tick
      <4> HIDE DEF e
      <4> QED BY <4>1, <4>2 DEF TypeOK, WorkerState
    <3> QED BY <3>2, <3>3, <1>13 DEF TypeOK, Tick
  <2>2. /\ \A d \in Deliveries : /\ head'[d].state = head[d].state
                                 /\ head'[d].count = head[d].count
                                 /\ head'[d].claim = head[d].claim
                                 /\ head'[d].exhausted = head[d].exhausted
        /\ \A w \in Workers : /\ worker'[w].phase = worker[w].phase
                              /\ worker'[w].delivery = worker[w].delivery
                              /\ worker'[w].claim = worker[w].claim
                              /\ worker'[w].attempt = worker[w].attempt
                              /\ worker'[w].answer = worker[w].answer
        /\ attempts' = attempts
    BY <1>13 DEF Tick, TypeOK, HeadRow, WorkerState
  <2>3. TokensInv'
    BY <2>2 DEF TokensInv, Active
  <2>4. CallsInv'
    BY <2>2 DEF CallsInv, CallInv, TokensInv, Active, OnAttempt, Owns, Dispatchable
  <2>5. LedgerIsConsistent'
    BY <2>2 DEF LedgerIsConsistent
  <2>6. BounceInv'
    BY <2>2, <1>13 DEF BounceInv, Tick
  <2> QED BY <2>1, <2>3, <2>4, <2>5, <2>6
<1>14. CASE UNCHANGED vars
  BY <1>14 DEF vars, TypeOK, TokensInv, CallsInv, CallInv, Active, OnAttempt, Owns, Dispatchable,
               LedgerIsConsistent, BounceInv
<1> QED
  BY <1>1, <1>2, <1>3, <1>4, <1>5, <1>6, <1>7, <1>8, <1>9, <1>10, <1>11, <1>12, <1>13,
     <1>14 DEF Next, WorkerStep

LEMMA LedgerInvAlways == Spec => []LedgerInv
  BY LedgerInvInit, LedgerInvNext, PTL DEF Spec

\* Every row and every call's local state keeps its type; in particular the
\* attempt number a call starts stays within the table, which needs the call's
\* claim to have kept everybody else off the head.
THEOREM TypeCorrectness == Spec => []TypeOK
  BY LedgerInvAlways, PTL DEF LedgerInv

\* Heads and attempts agree in every reachable state, whatever claims are
\* taken over, answers come late, processes die and addresses are corrected.
THEOREM LedgerConsistency == Spec => []LedgerIsConsistent
  BY LedgerInvAlways, PTL DEF LedgerInv

-----------------------------------------------------------------------------

\* A step that sends nothing, and after which every request still out was out
\* before, keeps what is known of the mailbox.
LEMMA MailboxInvKept ==
  ASSUME MailboxInv, UNCHANGED <<attempts, mailbox>>,
         \A v \in Workers : Submitted(v)' => /\ worker'[v].phase = worker[v].phase
                                             /\ worker'[v].delivery = worker[v].delivery
                                             /\ worker'[v].attempt = worker[v].attempt
                                             /\ worker'[v].answer = worker[v].answer
  PROVE  MailboxInv'
BY DEF MailboxInv, Submitted

LEMMA MailboxInvInit == Init => MailboxInv
BY DEF Init, MailboxInv, Submitted, IdleWorker

LEMMA MailboxInvNext == LedgerInv /\ MailboxInv /\ [Next]_vars => MailboxInv'
<1> SUFFICES ASSUME LedgerInv, MailboxInv, [Next]_vars PROVE MailboxInv'
  OBVIOUS
<1> USE DEF LedgerInv
<1>1. ASSUME NEW w \in Workers, StartAttempt(w) PROVE MailboxInv'
  <2> DEFINE d == worker[w].delivery
             n == head[d].count + 1
  <2>1. /\ d \in Deliveries /\ worker[w].phase = "claimed" /\ n \in AttemptNumbers
        /\ attempts[d][n].state = "absent" /\ n \notin mailbox[d]
        /\ head[d].count \in Nat
    <3>1. d \in Deliveries /\ worker[w].phase = "claimed" /\ Owns(w)
      BY <1>1 DEF StartAttempt, TokensInv, Active
    <3>2. head[d].count \in 0..MaxAttempts /\ head[d].count < MaxAttempts
      BY <3>1 DEF TypeOK, HeadRow, CallsInv, CallInv
    <3>3. n \in AttemptNumbers /\ n > head[d].count
      BY <3>2, OutboundDeliveryAssumption DEF AttemptNumbers
    <3>4. attempts[d][n].state = "absent"
      BY <3>1, <3>3 DEF LedgerIsConsistent
    <3> QED BY <3>1, <3>2, <3>3, <3>4 DEF MailboxInv
  <2>2. /\ worker' = [worker EXCEPT ![w].phase = "submitting", ![w].attempt = n]
        /\ attempts'[d][n].state = "request_started"
        /\ \A e \in Deliveries, m \in AttemptNumbers :
             e # d \/ m # n => attempts'[e][m] = attempts[e][m]
        /\ mailbox' = mailbox
    BY <1>1, <2>1 DEF StartAttempt, TypeOK
  <2>3. /\ worker'[w].phase = "submitting" /\ worker'[w].delivery = d
        /\ worker'[w].attempt = n
        /\ \A v \in Workers \ {w} : worker'[v] = worker[v]
    BY <2>2 DEF TypeOK, WorkerState
  <2>4. \A v \in Workers \ {w} : Submitted(v) /\ worker[v].delivery = d
                                   => worker[v].attempt # n
    BY <2>1, OutboundDeliveryAssumption
       DEF CallsInv, CallInv, Submitted, OnAttempt, AttemptNumbers
  <2>5. \A v \in Workers \ {w} : Submitted(v) => /\ worker[v].delivery \in Deliveries
                                                 /\ worker[v].attempt \in AttemptNumbers
    BY DEF CallsInv, CallInv, Submitted, OnAttempt, TokensInv, Active
  <2>6. \A e \in Deliveries : \A m \in mailbox'[e] :
          attempts'[e][m].state \in {"request_started", "accepted", "acceptance_unknown"}
    BY <2>1, <2>2 DEF MailboxInv, TypeOK
  <2> HIDE DEF d, n
  <2>7. ASSUME NEW u \in Workers, NEW v \in Workers, Submitted(u)', Submitted(v)',
               worker'[u].delivery = worker'[v].delivery,
               worker'[u].attempt = worker'[v].attempt
        PROVE  u = v
    BY <2>7, <2>3, <2>4 DEF MailboxInv, Submitted
  <2>8. ASSUME NEW v \in Workers, worker'[v].phase = "submitting"
        PROVE  /\ worker'[v].attempt \notin mailbox'[worker'[v].delivery]
               /\ attempts'[worker'[v].delivery][worker'[v].attempt].state
                    \in {"request_started", "acceptance_unknown"}
    <3>1. CASE v = w
      BY <3>1, <2>1, <2>2, <2>3
    <3>2. CASE v # w
      <4>1. worker'[v] = worker[v] /\ worker[v].phase = "submitting"
        BY <3>2, <2>8, <2>3
      <4>2. /\ worker[v].delivery \in Deliveries /\ worker[v].attempt \in AttemptNumbers
            /\ worker[v].delivery # d \/ worker[v].attempt # n
        BY <4>1, <3>2, <2>4, <2>5 DEF Submitted
      <4>3. /\ worker[v].attempt \notin mailbox[worker[v].delivery]
            /\ attempts[worker[v].delivery][worker[v].attempt].state
                 \in {"request_started", "acceptance_unknown"}
        BY <4>1 DEF MailboxInv
      <4> QED BY <4>1, <4>2, <4>3, <2>2
    <3> QED BY <3>1, <3>2
  <2>9. \A v \in Workers : worker'[v].phase = "answered" => worker'[v] = worker[v]
    BY <2>3
  <2>10. \A v \in Workers : worker'[v].phase = "answered"
           /\ worker'[v].answer \in {"known_rejected_safe_retryable",
                                     "known_rejected_terminal"}
           => worker'[v].attempt \notin mailbox'[worker'[v].delivery]
    BY <2>2, <2>9 DEF MailboxInv
  <2>11. NativeKey => \A e \in Deliveries : \A m, k \in mailbox'[e] : m = k
    BY <2>2 DEF MailboxInv
  <2> QED BY <2>6, <2>7, <2>8, <2>10, <2>11 DEF MailboxInv
<1>2. ASSUME NEW w \in Workers, NEW answer \in Answers, ProviderAnswers(w, answer)
      PROVE  MailboxInv'
  <2> DEFINE d == worker[w].delivery
             n == worker[w].attempt
  <2>1. /\ d \in Deliveries /\ worker[w].phase = "submitting" /\ n \in AttemptNumbers
        /\ attempts[d][n].state \in {"request_started", "acceptance_unknown"}
        /\ n \notin mailbox[d]
    BY <1>2 DEF ProviderAnswers, TokensInv, Active, CallsInv, CallInv, OnAttempt, MailboxInv
  <2>2. /\ worker'[w].phase = "answered" /\ worker'[w].delivery = d
        /\ worker'[w].attempt = n /\ worker'[w].answer = answer
        /\ \A v \in Workers \ {w} : worker'[v] = worker[v]
        /\ attempts' = attempts
    BY <1>2 DEF ProviderAnswers, TypeOK, WorkerState
  <2>3. /\ \A e \in Deliveries : \A m \in mailbox'[e] : m \in mailbox[e] \/ (e = d /\ m = n)
        /\ answer \in {"known_rejected_safe_retryable", "known_rejected_terminal"}
             => mailbox' = mailbox
        /\ NativeKey => \A e \in Deliveries : \A m, k \in mailbox'[e] : m = k
    <3>1. mailbox' = mailbox \/ mailbox' = [mailbox EXCEPT ![d] = Delivered(d, n)]
      BY <1>2 DEF ProviderAnswers
    <3>2. answer \in {"known_rejected_safe_retryable", "known_rejected_terminal"}
            => mailbox' = mailbox
      BY <1>2 DEF ProviderAnswers
    <3>3. CASE mailbox' = mailbox
      BY <3>2, <3>3 DEF MailboxInv
    <3>4. CASE mailbox' = [mailbox EXCEPT ![d] = Delivered(d, n)]
      BY <3>2, <3>4, <2>1 DEF Delivered, TypeOK, MailboxInv
    <3> QED BY <3>1, <3>3, <3>4
  <2>4. \A v \in Workers \ {w} : Submitted(v) => /\ worker[v].delivery \in Deliveries
                                                 /\ ~(/\ worker[v].delivery = d
                                                      /\ worker[v].attempt = n)
    BY <2>1 DEF MailboxInv, Submitted, TokensInv, Active
  <2> HIDE DEF d, n
  <2> QED BY <2>1, <2>2, <2>3, <2>4 DEF MailboxInv, Submitted
<1>3. ASSUME NEW w \in Workers, Crash(w) PROVE MailboxInv'
  <2> DEFINE d == worker[w].delivery
             n == worker[w].attempt
  <2>1. /\ worker'[w].phase = "idle" /\ attempts' = attempts
        /\ \A v \in Workers \ {w} : worker'[v] = worker[v]
    BY <1>3 DEF Crash, Idle, IdleWorker, TypeOK
  <2>2. CASE mailbox' = mailbox
    <3>1. \A v \in Workers : Submitted(v)' => worker'[v] = worker[v]
      BY <2>1 DEF Submitted
    <3> QED BY <3>1, <2>1, <2>2, MailboxInvKept DEF Submitted
  <2>3. CASE /\ worker[w].phase = "submitting"
             /\ mailbox' = [mailbox EXCEPT ![d] = Delivered(d, n)]
    <3>1. /\ d \in Deliveries /\ n \in AttemptNumbers
          /\ attempts[d][n].state \in {"request_started", "acceptance_unknown"}
      BY <2>3 DEF TokensInv, Active, CallsInv, CallInv, OnAttempt, MailboxInv
    <3>2. /\ \A e \in Deliveries : \A m \in mailbox'[e] :
               m \in mailbox[e] \/ (e = d /\ m = n)
          /\ NativeKey => \A e \in Deliveries : \A m, k \in mailbox'[e] : m = k
      BY <2>3, <3>1 DEF Delivered, TypeOK, MailboxInv
    <3>3. \A v \in Workers \ {w} : Submitted(v) => /\ worker[v].delivery \in Deliveries
                                                   /\ ~(/\ worker[v].delivery = d
                                                        /\ worker[v].attempt = n)
      BY <2>3 DEF MailboxInv, Submitted, TokensInv, Active
    <3> HIDE DEF d, n
    <3> QED BY <2>1, <3>1, <3>2, <3>3 DEF MailboxInv, Submitted
  <2> QED BY <2>2, <2>3, <1>3 DEF Crash
<1>4. ASSUME NEW w \in Workers, SettleAttempt(w) PROVE MailboxInv'
  <2> DEFINE d == worker[w].delivery
             n == worker[w].attempt
             landed == Landed(worker[w].answer)
  <2>1. /\ d \in Deliveries /\ n \in AttemptNumbers
        /\ worker[w].phase \in {"answered", "recovering"}
        /\ worker[w].phase = "answered" => worker[w].answer \in Answers
        /\ worker[w].phase = "recovering" => landed = "acceptance_unknown"
        /\ landed \in Resolutions
    <3>1. worker[w].phase \in {"answered", "recovering"}
      BY <1>4 DEF SettleAttempt, Completing
    <3>2. d \in Deliveries /\ n \in AttemptNumbers /\ worker[w].answer \in Answers
      BY <3>1 DEF TokensInv, Active, CallsInv, CallInv, OnAttempt, Answers, Resolutions
    <3>3. worker[w].phase = "recovering" => landed = "acceptance_unknown"
      BY <3>1 DEF CallsInv, CallInv, Landed
    <3> QED BY <3>1, <3>2, <3>3, AnswersLand
  <2>2. /\ attempts'[d][n].state = landed
        /\ \A e \in Deliveries, m \in AttemptNumbers :
             e # d \/ m # n => attempts'[e][m] = attempts[e][m]
        /\ worker'[w].phase = "idle"
        /\ \A v \in Workers \ {w} : worker'[v] = worker[v]
        /\ mailbox' = mailbox
    BY <1>4, <2>1 DEF SettleAttempt, TypeOK, AttemptRow, Idle, IdleWorker
  <2>3. \A v \in Workers \ {w} : Submitted(v) => /\ worker[v].delivery \in Deliveries
                                                 /\ worker[v].attempt \in AttemptNumbers
    BY DEF CallsInv, CallInv, Submitted, OnAttempt, TokensInv, Active
  <2>4. \/ landed \in {"accepted", "acceptance_unknown"}
        \/ n \notin mailbox[d]
    BY <2>1 DEF Landed, Answers, Resolutions, MailboxInv
  <2>5. \A v \in Workers \ {w} :
          worker[v].phase = "submitting" /\ worker[v].delivery = d /\ worker[v].attempt = n
            => landed = "acceptance_unknown"
    BY <2>1 DEF MailboxInv, Submitted
  <2>6. \A e \in Deliveries : \A m \in mailbox'[e] :
          attempts'[e][m].state \in {"request_started", "accepted", "acceptance_unknown"}
    BY <2>1, <2>2, <2>4 DEF MailboxInv, TypeOK
  <2> HIDE DEF d, n, landed
  <2> QED BY <2>1, <2>2, <2>3, <2>5, <2>6 DEF MailboxInv, Submitted
<1>5. ASSUME NEW w \in Workers,
             PrepareFails(w) \/ LoseClaim(w) \/ KeepFencedAnswer(w) \/ CompletionAborts(w)
      PROVE  MailboxInv'
  <2>1. /\ UNCHANGED <<attempts, mailbox>> /\ worker'[w].phase = "idle"
        /\ \A v \in Workers \ {w} : worker'[v] = worker[v]
    <3>1. UNCHANGED <<attempts, mailbox>> /\ Idle(w)
      BY <1>5 DEF PrepareFails, LoseClaim, KeepFencedAnswer, CompletionAborts
    <3> QED BY <3>1 DEF Idle, IdleWorker, TypeOK
  <2> QED BY <2>1, MailboxInvKept DEF Submitted
<1>6. ASSUME NEW w \in Workers, NEW d \in Deliveries, Claim(w, d) PROVE MailboxInv'
  <2>1. /\ UNCHANGED <<attempts, mailbox>>
        /\ worker'[w].phase \in {"claimed", "recovering"}
        /\ \A v \in Workers \ {w} : worker'[v] = worker[v]
    BY <1>6 DEF Claim, IdleWorker, TypeOK
  <2> QED BY <2>1, MailboxInvKept DEF Submitted
<1>7. ASSUME NEW d \in Deliveries,
             Register(d) \/ ObserveBounce(d) \/ SuppressedElsewhere(d) \/ CorrectAddress(d)
      PROVE  MailboxInv'
  <2>1. UNCHANGED <<attempts, mailbox, worker>>
    BY <1>7 DEF Register, ObserveBounce, SuppressedElsewhere, CorrectAddress
  <2> QED BY <2>1, MailboxInvKept
<1>8. ASSUME Tick PROVE MailboxInv'
  <2>1. /\ UNCHANGED <<attempts, mailbox>>
        /\ \A v \in Workers : /\ worker'[v].phase = worker[v].phase
                              /\ worker'[v].delivery = worker[v].delivery
                              /\ worker'[v].attempt = worker[v].attempt
                              /\ worker'[v].answer = worker[v].answer
    BY <1>8 DEF Tick, TypeOK, WorkerState
  <2> QED BY <2>1, MailboxInvKept
<1>9. CASE UNCHANGED vars
  BY <1>9, MailboxInvKept DEF vars
<1> QED
  BY <1>1, <1>2, <1>3, <1>4, <1>5, <1>6, <1>7, <1>8, <1>9 DEF Next, WorkerStep

-----------------------------------------------------------------------------

\* A step that leaves the attempts and what the heads say of them alone, and
\* takes back no bounce and no correction, keeps the exposure invariant.
LEMMA ExposureInvKept ==
  ASSUME ExposureInv, UNCHANGED attempts,
         \A d \in Deliveries :
           /\ head'[d].state = head[d].state
           /\ head'[d].count = head[d].count
           /\ head'[d].unknown = head[d].unknown
           /\ contact[d].bounced => contact'[d].bounced
           /\ contact[d].corrections > 0 => contact'[d].corrections > 0
  PROVE  ExposureInv'
BY DEF ExposureInv, CountsInv, OnlyCurrentInv, SingleInv, MayBeOut

LEMMA ExposureInvInit == Init => ExposureInv
BY DEF Init, ExposureInv, CountsInv, OnlyCurrentInv, SingleInv, MayBeOut, NoAttempt,
       NewHead

LEMMA ExposureInvNext == LedgerInv /\ ExposureInv /\ [Next]_vars => ExposureInv'
<1> SUFFICES ASSUME LedgerInv, ExposureInv, [Next]_vars PROVE ExposureInv'
  OBVIOUS
<1> USE DEF LedgerInv
<1>1. ASSUME NEW w \in Workers, StartAttempt(w) PROVE ExposureInv'
  <2>1. PICK d \in Deliveries, n \in AttemptNumbers :
          /\ d = worker[w].delivery /\ n = head[d].count + 1
          /\ n > head[d].count /\ Dispatchable(head[d])
          /\ head[d].unknown \in Nat /\ head[d].count \in Nat
    <3> DEFINE d == worker[w].delivery
    <3>1. d \in Deliveries /\ worker[w].phase = "claimed" /\ Owns(w)
      BY <1>1 DEF StartAttempt, TokensInv, Active
    <3>2. head[d].count \in 0..MaxAttempts /\ head[d].count < MaxAttempts
          /\ Dispatchable(head[d]) /\ head[d].unknown \in Nat
      BY <3>1 DEF TypeOK, HeadRow, CallsInv, CallInv
    <3>3. head[d].count + 1 \in AttemptNumbers /\ head[d].count + 1 > head[d].count
      BY <3>2, OutboundDeliveryAssumption DEF AttemptNumbers
    <3> QED BY <3>1, <3>2, <3>3
  <2>2. /\ head'[d].state = "request_started" /\ head'[d].count = n
        /\ head'[d].unknown = head[d].unknown
        /\ \A e \in Deliveries \ {d} : head'[e] = head[e]
        /\ contact' = contact
    BY <1>1, <2>1 DEF StartAttempt, TypeOK, HeadRow, Started, LeaseRenewed
  <2>3. /\ attempts'[d][n].state = "request_started"
        /\ attempts'[d][n].kind =
             IF AuthorizedResend(d) THEN "marked_resend" ELSE RequiredKind(head[d])
        /\ \A e \in Deliveries, m \in AttemptNumbers :
             e # d \/ m # n => attempts'[e][m] = attempts[e][m]
    BY <1>1, <2>1 DEF StartAttempt, TypeOK
  <2>4. head[d].state \notin {"request_started", "accepted"}
    BY <2>1 DEF Dispatchable
  <2>5. head[d].unknown = 0 /\ ~(contact[d].bounced /\ contact[d].corrections > 0)
          => \A m \in AttemptNumbers : ~MayBeOut(d, m)
    BY <2>1, <2>4 DEF ExposureInv, OnlyCurrentInv
  <2>6. attempts'[d][n].kind = "original" /\ ~NativeKey
          => \A m \in AttemptNumbers : ~MayBeOut(d, m)
    <3> SUFFICES ASSUME attempts'[d][n].kind = "original", ~NativeKey
                 PROVE  \A m \in AttemptNumbers : ~MayBeOut(d, m)
      OBVIOUS
    <3>1. head[d].unknown = 0 /\ ~AuthorizedResend(d)
      BY <2>1, <2>3 DEF RequiredKind
    <3>2. CASE head[d].state = "pending"
      BY <3>2, <2>1, OutboundDeliveryAssumption
         DEF LedgerIsConsistent, MayBeOut, AttemptNumbers
    <3>3. CASE head[d].state = "known_rejected_safe_retryable"
      BY <3>1, <3>3, <2>5, <2>1 DEF AuthorizedResend, RequiredKind
    <3>4. CASE head[d].state = "acceptance_unknown"
      BY <3>1, <3>4, <2>1 DEF ExposureInv, CountsInv
    <3> QED BY <3>2, <3>3, <3>4, <2>1 DEF Dispatchable
  <2>7. \A e \in Deliveries, m \in AttemptNumbers :
          e # d \/ m # n => MayBeOut(e, m)' = MayBeOut(e, m)
    BY <2>3 DEF MayBeOut
  <2>8. ASSUME NEW e \in Deliveries \ {d}
        PROVE  CountsInv(e)' /\ OnlyCurrentInv(e)' /\ SingleInv(e)'
    BY <2>2, <2>3, <2>7 DEF ExposureInv, CountsInv, OnlyCurrentInv, SingleInv
  <2>9. CountsInv(d)'
    BY <2>1, <2>2, <2>3 DEF ExposureInv, CountsInv
  <2>10. OnlyCurrentInv(d)'
    BY <2>1, <2>2, <2>5, <2>7 DEF OnlyCurrentInv
  <2>11. SingleInv(d)'
    <3>1. attempts'[d][n].kind # "original" => ~MayBeOut(d, n)'
      BY DEF MayBeOut
    <3> QED BY <3>1, <2>1, <2>6, <2>7 DEF ExposureInv, SingleInv
  <2> QED BY <2>8, <2>9, <2>10, <2>11 DEF ExposureInv
<1>2. ASSUME NEW w \in Workers, SettleAttempt(w) PROVE ExposureInv'
  <2>1. PICK d \in Deliveries, n \in AttemptNumbers, landed \in Resolutions :
          /\ d = worker[w].delivery /\ n = worker[w].attempt
          /\ landed = Landed(worker[w].answer) /\ head[d].unknown \in Nat
    <3>1. worker[w].phase \in {"answered", "recovering"}
      BY <1>2 DEF SettleAttempt, Completing
    <3>2. /\ worker[w].delivery \in Deliveries /\ worker[w].attempt \in AttemptNumbers
          /\ worker[w].answer \in Answers
      BY <3>1 DEF TokensInv, Active, CallsInv, CallInv, OnAttempt, Answers, Resolutions
    <3>3. head[worker[w].delivery].unknown \in Nat
      BY <3>2 DEF TypeOK, HeadRow
    <3> QED BY <3>2, <3>3, AnswersLand
  <2>2. /\ head'[d].state = landed /\ head'[d].count = n /\ head[d].count = n
        /\ head'[d].unknown = UnknownAfter(w)
        /\ \A e \in Deliveries \ {d} : head'[e] = head[e]
    BY <1>2, <2>1 DEF SettleAttempt, TypeOK, HeadRow, Settled, LeaseCleared
  <2>3. UnknownAfter(w) = IF landed = "acceptance_unknown" THEN head[d].unknown + 1
                          ELSE head[d].unknown
    BY <2>1 DEF UnknownAfter, Landed
  <2>4. /\ attempts'[d][n].state = landed
        /\ attempts'[d][n].kind = attempts[d][n].kind
        /\ \A e \in Deliveries, m \in AttemptNumbers :
             e # d \/ m # n => attempts'[e][m] = attempts[e][m]
    BY <1>2, <2>1 DEF SettleAttempt, TypeOK, AttemptRow
  <2>5. /\ \A e \in Deliveries : contact[e].bounced => contact'[e].bounced
        /\ \A e \in Deliveries : contact'[e].corrections = contact[e].corrections
    BY <1>2, <2>1 DEF SettleAttempt, Suppress, TypeOK, ContactRow
  <2>6. attempts[d][n].state = "request_started"
    BY <1>2, <2>1 DEF SettleAttempt, LedgerIsConsistent
  <2>7. \A e \in Deliveries, m \in AttemptNumbers : MayBeOut(e, m)' => MayBeOut(e, m)
    BY <2>4, <2>6 DEF MayBeOut
  <2>8. ASSUME NEW e \in Deliveries \ {d}
        PROVE  CountsInv(e)' /\ OnlyCurrentInv(e)' /\ SingleInv(e)'
    BY <2>2, <2>4, <2>5, <2>7 DEF ExposureInv, CountsInv, OnlyCurrentInv, SingleInv
  <2>9. CountsInv(d)'
    BY <2>1, <2>2, <2>3, <2>4 DEF ExposureInv, CountsInv
  <2>10. OnlyCurrentInv(d)'
    <3> SUFFICES ASSUME head'[d].unknown = 0,
                        ~(contact'[d].bounced /\ contact'[d].corrections > 0),
                        NEW m \in AttemptNumbers, MayBeOut(d, m)'
                 PROVE  m = head'[d].count /\ head'[d].state \in {"request_started", "accepted"}
      BY DEF OnlyCurrentInv
    <3>1. head[d].unknown = 0 /\ landed # "acceptance_unknown"
      BY <2>1, <2>2, <2>3
    <3>2. m = n
      BY <3>1, <2>1, <2>2, <2>5, <2>7 DEF ExposureInv, OnlyCurrentInv
    <3>3. landed = "accepted"
      BY <3>1, <3>2, <2>1, <2>4 DEF MayBeOut, Resolutions
    <3> QED BY <3>2, <3>3, <2>2
  <2>11. SingleInv(d)'
    BY <2>1, <2>7 DEF ExposureInv, SingleInv
  <2> QED BY <2>8, <2>9, <2>10, <2>11 DEF ExposureInv
<1>3. ASSUME NEW d \in Deliveries, Register(d) PROVE ExposureInv'
  <2>1. /\ head'[d].state = "pending" /\ head'[d].unknown = head[d].unknown
        /\ head[d].state = "unregistered"
        /\ \A e \in Deliveries \ {d} : head'[e] = head[e]
        /\ UNCHANGED <<attempts, contact>>
    BY <1>3 DEF Register, TypeOK, HeadRow
  <2>2. \A e \in Deliveries, n \in AttemptNumbers : MayBeOut(e, n)' = MayBeOut(e, n)
    BY <2>1 DEF MayBeOut
  <2>3. ASSUME NEW e \in Deliveries
        PROVE  CountsInv(e)' /\ OnlyCurrentInv(e)' /\ SingleInv(e)'
    BY <2>1, <2>2 DEF ExposureInv, CountsInv, OnlyCurrentInv, SingleInv
  <2> QED BY <2>3 DEF ExposureInv
<1>4. ASSUME NEW d \in Deliveries, CorrectAddress(d) PROVE ExposureInv'
  <2>1. /\ head'[d].state = "known_rejected_safe_retryable"
        /\ head'[d].unknown = head[d].unknown
        /\ \A e \in Deliveries \ {d} : head'[e] = head[e]
        /\ contact'[d].bounced /\ contact'[d].corrections > 0
        /\ \A e \in Deliveries \ {d} : contact'[e] = contact[e]
        /\ UNCHANGED attempts
    BY <1>4 DEF CorrectAddress, Corrected, LeaseCleared, TypeOK, HeadRow, ContactRow
  <2>2. \A e \in Deliveries, n \in AttemptNumbers : MayBeOut(e, n)' = MayBeOut(e, n)
    BY <2>1 DEF MayBeOut
  <2>3. ASSUME NEW e \in Deliveries
        PROVE  CountsInv(e)' /\ OnlyCurrentInv(e)' /\ SingleInv(e)'
    BY <2>1, <2>2 DEF ExposureInv, CountsInv, OnlyCurrentInv, SingleInv
  <2> QED BY <2>3 DEF ExposureInv
<1>5. ASSUME NEW w \in Workers, NEW d \in Deliveries, Claim(w, d) PROVE ExposureInv'
  <2>1. UNCHANGED <<attempts, contact>>
        /\ \A e \in Deliveries : /\ head'[e].state = head[e].state
                                 /\ head'[e].count = head[e].count
                                 /\ head'[e].unknown = head[e].unknown
    BY <1>5 DEF Claim, TypeOK, HeadRow
  <2> QED BY <2>1, ExposureInvKept
<1>6. ASSUME NEW w \in Workers, PrepareFails(w) PROVE ExposureInv'
  <2>1. UNCHANGED <<attempts, contact>>
        /\ \A e \in Deliveries : /\ head'[e].state = head[e].state
                                 /\ head'[e].count = head[e].count
                                 /\ head'[e].unknown = head[e].unknown
    BY <1>6 DEF PrepareFails, LeaseCleared, TypeOK, HeadRow
  <2> QED BY <2>1, ExposureInvKept
<1>7. ASSUME NEW w \in Workers,
             \/ LoseClaim(w) \/ KeepFencedAnswer(w) \/ CompletionAborts(w) \/ Crash(w)
             \/ \E answer \in Answers : ProviderAnswers(w, answer)
      PROVE  ExposureInv'
  <2>1. UNCHANGED <<attempts, contact, head>>
    BY <1>7 DEF LoseClaim, KeepFencedAnswer, CompletionAborts, Crash, ProviderAnswers
  <2> QED BY <2>1, ExposureInvKept
<1>8. ASSUME NEW d \in Deliveries, ObserveBounce(d) \/ SuppressedElsewhere(d)
      PROVE  ExposureInv'
  <2>1. UNCHANGED <<attempts, head>>
    BY <1>8 DEF ObserveBounce, SuppressedElsewhere
  <2>2. \A e \in Deliveries : /\ contact[e].bounced => contact'[e].bounced
                              /\ contact'[e].corrections = contact[e].corrections
    <3>1. CASE ObserveBounce(d)
      BY <3>1 DEF ObserveBounce, TypeOK, ContactRow
    <3>2. CASE SuppressedElsewhere(d)
      BY <3>2 DEF SuppressedElsewhere, TypeOK, ContactRow
    <3> QED BY <1>8, <3>1, <3>2
  <2> QED BY <2>1, <2>2, ExposureInvKept
<1>9. ASSUME Tick PROVE ExposureInv'
  <2>1. UNCHANGED <<attempts, contact>>
        /\ \A e \in Deliveries : /\ head'[e].state = head[e].state
                                 /\ head'[e].count = head[e].count
                                 /\ head'[e].unknown = head[e].unknown
    BY <1>9 DEF Tick, TypeOK, HeadRow
  <2> QED BY <2>1, ExposureInvKept
<1>10. CASE UNCHANGED vars
  BY <1>10, ExposureInvKept DEF vars
<1> QED
  BY <1>1, <1>2, <1>3, <1>4, <1>5, <1>6, <1>7, <1>8, <1>9, <1>10 DEF Next, WorkerStep

-----------------------------------------------------------------------------

\* Once an attempt landed unknown, the head counts it, so every later attempt
\* is marked.
LEMMA MarksNext ==
  LedgerInv /\ ExposureInv /\ AmbiguityMarksLaterAttempts /\ [Next]_vars
    => AmbiguityMarksLaterAttempts'
<1> SUFFICES ASSUME LedgerInv, ExposureInv, AmbiguityMarksLaterAttempts, [Next]_vars, ~NativeKey
             PROVE  AmbiguityMarksLaterAttempts'
  BY DEF AmbiguityMarksLaterAttempts
<1> USE DEF LedgerInv
<1>1. ASSUME NEW w \in Workers, StartAttempt(w) PROVE AmbiguityMarksLaterAttempts'
  <2>1. PICK d \in Deliveries, n \in AttemptNumbers :
          d = worker[w].delivery /\ n = head[d].count + 1
    <3>1. worker[w].delivery \in Deliveries /\ worker[w].phase = "claimed" /\ Owns(w)
      BY <1>1 DEF StartAttempt, TokensInv, Active
    <3>2. head[worker[w].delivery].count + 1 \in AttemptNumbers
      BY <3>1, OutboundDeliveryAssumption
         DEF TypeOK, HeadRow, CallsInv, CallInv, AttemptNumbers
    <3> QED BY <3>1, <3>2
  <2>2. /\ attempts'[d][n].state = "request_started"
        /\ head[d].unknown > 0 => attempts'[d][n].kind = "marked_resend"
        /\ \A e \in Deliveries, m \in AttemptNumbers :
             e # d \/ m # n => attempts'[e][m] = attempts[e][m]
    BY <1>1, <2>1 DEF StartAttempt, TypeOK, RequiredKind
  <2>3. \A m \in AttemptNumbers : m > n => attempts[d][m].state = "absent"
    BY <2>1, OutboundDeliveryAssumption DEF LedgerIsConsistent, AttemptNumbers, TypeOK, HeadRow
  <2>4. \A m \in AttemptNumbers : attempts[d][m].state = "acceptance_unknown"
                                    => head[d].unknown > 0
    BY DEF ExposureInv, CountsInv
  <2> QED BY <2>2, <2>3, <2>4 DEF AmbiguityMarksLaterAttempts
<1>2. ASSUME NEW w \in Workers, SettleAttempt(w) PROVE AmbiguityMarksLaterAttempts'
  <2>1. PICK d \in Deliveries, n \in AttemptNumbers :
          d = worker[w].delivery /\ n = worker[w].attempt
    <3>1. worker[w].phase \in {"answered", "recovering"}
      BY <1>2 DEF SettleAttempt, Completing
    <3> QED BY <3>1 DEF TokensInv, Active, CallsInv, CallInv, OnAttempt
  <2>2. /\ attempts[d][n].state = "request_started" /\ head[d].count = n
        /\ attempts'[d][n].kind = attempts[d][n].kind
        /\ \A e \in Deliveries, m \in AttemptNumbers :
             e # d \/ m # n => attempts'[e][m] = attempts[e][m]
    BY <1>2, <2>1 DEF SettleAttempt, TypeOK, AttemptRow, LedgerIsConsistent
  <2>3. \A m \in AttemptNumbers : m > n => attempts[d][m].state = "absent"
    BY <2>2 DEF LedgerIsConsistent
  <2> QED BY <2>2, <2>3 DEF AmbiguityMarksLaterAttempts
<1>3. CASE UNCHANGED attempts
  BY <1>3 DEF AmbiguityMarksLaterAttempts
<1> QED
  BY <1>1, <1>2, <1>3
     DEF Next, WorkerStep, vars, Register, ObserveBounce, SuppressedElsewhere, CorrectAddress,
         Claim, PrepareFails, LoseClaim, ProviderAnswers, KeepFencedAnswer, CompletionAborts,
         Crash, Tick

LEMMA DeliveryInvAlways == Spec => []DeliveryInv
<1>1. Init => DeliveryInv
  <2>1. Init => AmbiguityMarksLaterAttempts
    BY DEF Init, NoAttempt, AmbiguityMarksLaterAttempts
  <2> QED BY <2>1, LedgerInvInit, MailboxInvInit, ExposureInvInit DEF DeliveryInv
<1>2. DeliveryInv /\ [Next]_vars => DeliveryInv'
  BY LedgerInvNext, MailboxInvNext, ExposureInvNext, MarksNext DEF DeliveryInv
<1> QED BY <1>1, <1>2, PTL DEF Spec

\* No recipient is ever sent two copies that both look like the original.
\* While nothing landed unknown and no bounced address was corrected, a copy
\* that may be out rules out a further unmarked send; after that, every send
\* is marked.  A provider that deduplicates keeps one copy by itself.
THEOREM NoDuplicateLooksOriginal == Spec => []NoUnmarkedDuplicate
<1>1. DeliveryInv => NoUnmarkedDuplicate
  <2> SUFFICES ASSUME DeliveryInv, NEW d \in Deliveries, NEW m \in mailbox[d],
                      NEW n \in mailbox[d], attempts[d][m].kind = "original",
                      attempts[d][n].kind = "original"
               PROVE  m = n
    BY DEF NoUnmarkedDuplicate
  <2>1. m \in AttemptNumbers /\ n \in AttemptNumbers
    BY DEF DeliveryInv, LedgerInv, TypeOK
  <2>2. CASE NativeKey
    BY <2>2 DEF DeliveryInv, MailboxInv
  <2>3. CASE ~NativeKey
    <3>1. MayBeOut(d, m) /\ MayBeOut(d, n)
      BY DEF DeliveryInv, MailboxInv, MayBeOut
    <3> QED BY <2>1, <2>3, <3>1 DEF DeliveryInv, ExposureInv, SingleInv
  <2> QED BY <2>2, <2>3
<1> QED BY <1>1, DeliveryInvAlways, PTL

\* After an ambiguous landing every later attempt carries the resend mark.
THEOREM AmbiguityIsRemembered == Spec => []AmbiguityMarksLaterAttempts
<1>1. DeliveryInv => AmbiguityMarksLaterAttempts
  BY DEF DeliveryInv
<1> QED BY <1>1, DeliveryInvAlways, PTL

-----------------------------------------------------------------------------

\* A settled or quarantined delivery is moved by nothing but a correction.
THEOREM SettledIsFinal == Spec => SettledStaysSettled
<1>1. ASSUME LedgerInv, [Next]_vars, NEW d \in Deliveries,
             \/ head[d].state \in {"accepted", "known_rejected_terminal"}
             \/ head[d].state = "acceptance_unknown" /\ head[d].exhausted,
             contact'[d].corrections = contact[d].corrections
      PROVE  head'[d].state = head[d].state
  <2> USE <1>1 DEF LedgerInv
  <2>1. ASSUME NEW w \in Workers, StartAttempt(w) PROVE head'[d].state = head[d].state
    <3>1. worker[w].delivery # d
      BY <2>1 DEF StartAttempt, Dispatchable
    <3> QED BY <2>1, <3>1 DEF StartAttempt, TypeOK
  <2>2. ASSUME NEW w \in Workers, SettleAttempt(w) PROVE head'[d].state = head[d].state
    <3>1. worker[w].delivery # d
      BY <2>2 DEF SettleAttempt
    <3> QED BY <2>2, <3>1 DEF SettleAttempt, TypeOK
  <2>3. ASSUME NEW w \in Workers, PrepareFails(w) PROVE head'[d].state = head[d].state
    BY <2>3 DEF PrepareFails, LeaseCleared, TypeOK, HeadRow
  <2>4. ASSUME NEW w \in Workers, NEW e \in Deliveries, Claim(w, e)
        PROVE  head'[d].state = head[d].state
    BY <2>4 DEF Claim, TypeOK, HeadRow
  <2>5. ASSUME NEW e \in Deliveries, Register(e) PROVE head'[d].state = head[d].state
    BY <2>5 DEF Register, TypeOK
  <2>6. ASSUME NEW e \in Deliveries, CorrectAddress(e) PROVE head'[d].state = head[d].state
    <3>1. e # d
      BY <2>6 DEF CorrectAddress, TypeOK, ContactRow
    <3> QED BY <2>6, <3>1 DEF CorrectAddress, TypeOK
  <2>7. ASSUME Tick PROVE head'[d].state = head[d].state
    BY <2>7 DEF Tick, TypeOK, HeadRow
  <2>8. CASE UNCHANGED head
    BY <2>8
  <2> QED
    BY <2>1, <2>2, <2>3, <2>4, <2>5, <2>6, <2>7, <2>8
       DEF Next, WorkerStep, vars, ObserveBounce, SuppressedElsewhere, LoseClaim,
           ProviderAnswers, KeepFencedAnswer, CompletionAborts, Crash
<1>2. LedgerInv /\ [Next]_vars
        => [\A d \in Deliveries :
              /\ \/ head[d].state \in {"accepted", "known_rejected_terminal"}
                 \/ head[d].state = "acceptance_unknown" /\ head[d].exhausted
              /\ contact'[d].corrections = contact[d].corrections
              => head'[d].state = head[d].state]_vars
  BY <1>1
<1> QED BY <1>2, LedgerInvAlways, PTL DEF SettledStaysSettled, Spec

-----------------------------------------------------------------------------

\* While a request is no older than the budget, what is left of its lease and
\* its age together still make the whole lease.
Covered(w) ==
  Owns(w) /\ head[worker[w].delivery].ttl + worker[w].elapsed >= LeaseTicks
LeaseInv ==
  \A w \in Workers :
    worker[w].phase = "submitting" /\ worker[w].elapsed <= BudgetTicks => Covered(w)

LEMMA LeaseInvNext == LedgerInv /\ LeaseInv /\ [Next]_vars => LeaseInv'
<1> SUFFICES ASSUME LedgerInv, LeaseInv, [Next]_vars,
                    NEW v \in Workers, worker'[v].phase = "submitting",
                    worker'[v].elapsed <= BudgetTicks
             PROVE  Covered(v)'
  BY DEF LeaseInv
<1> USE DEF LedgerInv
<1>1. ASSUME worker'[v] = worker[v],
             worker[v].delivery \in Deliveries => head'[worker[v].delivery] = head[worker[v].delivery]
      PROVE  Covered(v)'
  BY <1>1 DEF LeaseInv, Covered, Owns, TokensInv, Active
<1>2. ASSUME worker[v].phase = "submitting", worker[v].elapsed <= BudgetTicks
      PROVE  /\ Owns(v) /\ head[worker[v].delivery].ttl > 0
             /\ head[worker[v].delivery].state = "request_started"
             /\ worker[v].delivery \in Deliveries
  BY <1>2, OutboundDeliveryAssumption
     DEF LeaseInv, Covered, TypeOK, HeadRow, WorkerState, TokensInv, Active, CallsInv, CallInv, OnAttempt
<1>3. ASSUME NEW w \in Workers, StartAttempt(w) PROVE Covered(v)'
  <2>1. worker[w].delivery \in Deliveries /\ Owns(w) /\ worker[w].phase = "claimed"
    BY <1>3 DEF StartAttempt, TokensInv, Active
  <2>2. CASE v = w
    BY <2>1, <2>2, <1>3, OutboundDeliveryAssumption
       DEF StartAttempt, TypeOK, HeadRow, WorkerState, Started, LeaseRenewed, Owns, Covered
  <2>3. CASE v # w
    <3>1. worker'[v] = worker[v]
      BY <1>3, <2>3 DEF StartAttempt, TypeOK
    <3>2. worker[v].delivery # worker[w].delivery
      BY <3>1, <1>2, <2>1, <2>3 DEF Owns, TokensInv, Active
    <3> QED BY <1>1, <1>3, <3>1, <3>2, <2>1 DEF StartAttempt, TypeOK
  <2> QED BY <2>2, <2>3
<1>4. ASSUME NEW w \in Workers, SettleAttempt(w) \/ PrepareFails(w) PROVE Covered(v)'
  <2>1. v # w /\ worker'[v] = worker[v] /\ worker[w].phase # "idle"
    <3>1. Idle(w) /\ worker[w].phase # "idle"
      BY <1>4 DEF SettleAttempt, PrepareFails, Completing
    <3> QED BY <3>1 DEF Idle, IdleWorker, TypeOK
  <2>2. Owns(w) => worker[v].delivery # worker[w].delivery
    BY <2>1, <1>2 DEF Owns, TokensInv, Active
  <2>3. worker[v].delivery \in Deliveries => head'[worker[v].delivery] = head[worker[v].delivery]
    BY <1>4, <2>1, <2>2 DEF SettleAttempt, PrepareFails, TypeOK
  <2> QED BY <2>1, <2>3, <1>1
<1>5. ASSUME NEW w \in Workers, NEW d \in Deliveries, Claim(w, d) PROVE Covered(v)'
  <2>1. v # w /\ worker'[v] = worker[v]
    BY <1>5 DEF Claim, IdleWorker, TypeOK
  <2>2. worker[v].delivery # d
    BY <2>1, <1>2, <1>5 DEF Claim, Claimable
  <2> QED BY <2>1, <2>2, <1>1, <1>5 DEF Claim, TypeOK
<1>6. ASSUME NEW d \in Deliveries, Register(d) \/ CorrectAddress(d) PROVE Covered(v)'
  <2>1. worker'[v] = worker[v]
    BY <1>6 DEF Register, CorrectAddress
  <2>2. worker[v].delivery # d
    BY <2>1, <1>2, <1>6 DEF Register, CorrectAddress, Correctable
  <2> QED BY <2>1, <2>2, <1>1, <1>6 DEF Register, CorrectAddress, TypeOK
<1>7. ASSUME Tick PROVE Covered(v)'
  <2>1. /\ worker'[v].delivery = worker[v].delivery /\ worker'[v].claim = worker[v].claim
        /\ worker[v].phase = "submitting" /\ worker[v].elapsed <= BudgetTicks
        /\ worker'[v].elapsed = worker[v].elapsed + 1
    BY <1>7, OutboundDeliveryAssumption DEF Tick, TypeOK, WorkerState
  <2>2. Owns(v) /\ head[worker[v].delivery].ttl > 0 /\ worker[v].delivery \in Deliveries
    BY <2>1, <1>2
  <2>3. /\ head'[worker[v].delivery].ttl = head[worker[v].delivery].ttl - 1
        /\ head'[worker[v].delivery].claim = head[worker[v].delivery].claim
    BY <2>2, <1>7 DEF Tick, TypeOK, HeadRow
  <2>4. head[worker[v].delivery].ttl \in Int /\ worker[v].elapsed \in Int
    BY <2>2, OutboundDeliveryAssumption DEF TypeOK, HeadRow, WorkerState
  <2> QED BY <2>1, <2>2, <2>3, <2>4, OutboundDeliveryAssumption DEF LeaseInv, Covered, Owns
<1>8. ASSUME UNCHANGED head, worker'[v] = worker[v]
      PROVE  Covered(v)'
  BY <1>8, <1>1
<1>9. ASSUME NEW w \in Workers,
             \/ LoseClaim(w) \/ KeepFencedAnswer(w) \/ CompletionAborts(w) \/ Crash(w)
             \/ \E answer \in Answers : ProviderAnswers(w, answer)
      PROVE  UNCHANGED head /\ worker'[v] = worker[v]
  <2>1. CASE Idle(w) /\ UNCHANGED head
    BY <2>1 DEF Idle, IdleWorker, TypeOK
  <2>2. CASE \E answer \in Answers : ProviderAnswers(w, answer)
    BY <2>2 DEF ProviderAnswers, TypeOK, WorkerState
  <2> QED BY <1>9, <2>1, <2>2 DEF LoseClaim, KeepFencedAnswer, CompletionAborts, Crash
<1>10. ASSUME NEW d \in Deliveries, ObserveBounce(d) \/ SuppressedElsewhere(d)
       PROVE  UNCHANGED head /\ worker'[v] = worker[v]
  BY <1>10 DEF ObserveBounce, SuppressedElsewhere
<1>11. CASE UNCHANGED vars
  BY <1>11, <1>8 DEF vars
<1> QED
  BY <1>3, <1>4, <1>5, <1>6, <1>7, <1>8, <1>9, <1>10, <1>11 DEF Next, WorkerStep

LEMMA LeaseInvAlways == Spec => [](LedgerInv /\ LeaseInv)
<1>1. Init => LeaseInv
  BY DEF Init, LeaseInv, IdleWorker
<1> QED BY <1>1, LedgerInvInit, LedgerInvNext, LeaseInvNext, PTL DEF Spec

\* A lease longer than the request budget, renewed as the attempt starts,
\* covers the whole of every request that keeps to the budget.
THEOREM LeaseCoversOrdinarySend == Spec => []OrdinarySendKeepsLease
<1>1. LedgerInv /\ LeaseInv => OrdinarySendKeepsLease
  BY OutboundDeliveryAssumption
     DEF LedgerInv, LeaseInv, Covered, OrdinarySendKeepsLease, TokensInv, Active, TypeOK, HeadRow,
         WorkerState
<1> QED BY <1>1, LeaseInvAlways, PTL

\* Two requests that keep to the budget are never out for one delivery.
THEOREM OneOrdinarySend == Spec => []NoConcurrentSubmission
<1>1. LedgerInv /\ LeaseInv => NoConcurrentSubmission
  BY DEF LedgerInv, LeaseInv, Covered, NoConcurrentSubmission, TokensInv, Active, Owns
<1> QED BY <1>1, LeaseInvAlways, PTL
=============================================================================
