----------------------- MODULE OutboundPromiseProofs -----------------------
(***************************************************************************)
(* What OutboundDelivery says about evidence, counters and copies, and     *)
(* that it implements DeliveryPromise, for any number of deliveries,       *)
(* workers, attempts, corrections and crashes.  These theorems rest on the *)
(* invariants of OutboundDeliveryProofs, and on facts about finite sets.   *)
(***************************************************************************)
EXTENDS OutboundDeliveryProofs, FiniteSetTheorems

\* The attempts of a delivery that landed unknown, and those the provider may
\* hold a copy of, marked or not.
UnknownOf(d) == {n \in AttemptNumbers : attempts[d][n].state = "acceptance_unknown"}
OutStates == {"request_started", "accepted", "acceptance_unknown"}
OutOf(d) == {n \in AttemptNumbers : attempts[d][n].state \in OutStates}

\* unknown_attempt_count counts the unknown landings, and quarantine followed
\* two of them, the later one marked.
CountInv(d) ==
  /\ head[d].unknown = Cardinality(UnknownOf(d))
  /\ head[d].exhausted => head[d].unknown >= 2
  /\ head[d].exhausted =>
       \E m, n \in UnknownOf(d) : m < n /\ attempts[d][n].kind = "marked_resend"

\* A provider that does not deduplicate: while nothing is ambiguous and no
\* bounced address was corrected, only the current attempt can be out; an open
\* attempt that looks like the original is the only one out; and while another
\* attempt may still be started there is room for its copy.
CopiesInv(d) ==
  ~NativeKey =>
    /\ head[d].unknown = 0 /\ ~(contact[d].bounced /\ contact[d].corrections > 0)
         => \A n \in OutOf(d) :
              n = head[d].count /\ head[d].state \in {"request_started", "accepted"}
    /\ head[d].state = "request_started"
         /\ attempts[d][head[d].count].kind = "original"
         => OutOf(d) = {head[d].count}
    /\ Cardinality(OutOf(d)) <= 2 + contact[d].corrections
    /\ Dispatchable(head[d]) => Cardinality(OutOf(d)) <= 1 + contact[d].corrections

\* A reviewed address is sent a marked resend only after an ambiguity, and a
\* corrected one only after a correction.
ResendInv(d) ==
  \A n \in AttemptNumbers :
    /\ attempts[d][n].kind = "marked_resend" /\ attempts[d][n].target = "reviewed"
         => head[d].unknown > 0
    /\ attempts[d][n].target = "corrected" => contact[d].corrections > 0

PromiseInv ==
  \A d \in Deliveries : CountInv(d) /\ CopiesInv(d) /\ ResendInv(d)

\* The effective resolution of attempt n, as evidence.
Evidence(n, s) == [attempt |-> n, fenced |-> FALSE, state |-> s]

\* A step that neither starts nor settles an attempt, registers a delivery or
\* corrects an address: what the heads say of the attempts stays, and only
\* fenced evidence is added.
Quiet ==
  /\ UNCHANGED attempts
  /\ \A d \in Deliveries :
       /\ head'[d].state = head[d].state
       /\ head'[d].count = head[d].count
       /\ head'[d].unknown = head[d].unknown
       /\ head'[d].exhausted = head[d].exhausted
       /\ contact[d].bounced => contact'[d].bounced
       /\ contact'[d].corrections = contact[d].corrections
       /\ \A n \in AttemptNumbers, s \in Resolutions :
            Evidence(n, s) \in facts'[d] <=> Evidence(n, s) \in facts[d]

\* Attempt n of d, the one after the head's last, is started.
Starts(d, n) ==
  /\ n = head[d].count + 1 /\ head[d].count \in Nat
  /\ head[d].unknown \in Nat /\ contact[d].corrections \in Nat
  /\ Dispatchable(head[d])
  /\ attempts[d][n].state = "absent"
  /\ attempts'[d][n].state = "request_started"
  /\ attempts'[d][n].kind =
       IF AuthorizedResend(d) THEN "marked_resend" ELSE RequiredKind(head[d])
  /\ attempts'[d][n].target =
       IF AuthorizedResend(d) THEN "corrected" ELSE "reviewed"
  /\ \A e \in Deliveries, m \in AttemptNumbers :
       e # d \/ m # n => attempts'[e][m] = attempts[e][m]
  /\ head'[d].state = "request_started" /\ head'[d].count = n
  /\ head'[d].unknown = head[d].unknown
  /\ head'[d].exhausted = head[d].exhausted
  /\ \A e \in Deliveries \ {d} : head'[e] = head[e]
  /\ UNCHANGED <<facts, contact>>

\* Attempt n of d, the open one, is settled as landed.
Settles(d, n, landed) ==
  /\ head[d].unknown \in Nat /\ contact[d].corrections \in Nat
  /\ head[d].state = "request_started" /\ head[d].count = n
  /\ attempts[d][n].state = "request_started"
  /\ attempts[d][n].kind \in Kinds
  /\ attempts'[d][n].state = landed
  /\ attempts'[d][n].kind = attempts[d][n].kind
  /\ attempts'[d][n].target = attempts[d][n].target
  /\ \A e \in Deliveries, m \in AttemptNumbers :
       e # d \/ m # n => attempts'[e][m] = attempts[e][m]
  /\ head'[d].state = landed /\ head'[d].count = n
  /\ head'[d].unknown = IF landed = "acceptance_unknown"
                        THEN head[d].unknown + 1 ELSE head[d].unknown
  /\ head'[d].exhausted
       <=> \/ head[d].exhausted
           \/ landed = "acceptance_unknown" /\ attempts[d][n].kind = "marked_resend"
  /\ head'[d].exhausted => head'[d].unknown >= 2
  /\ \A e \in Deliveries \ {d} : head'[e] = head[e]
  /\ \A e \in Deliveries : /\ contact[e].bounced => contact'[e].bounced
                           /\ contact'[e].corrections = contact[e].corrections
  /\ facts' = [facts EXCEPT ![d] = @ \cup {Evidence(n, landed)}]

-----------------------------------------------------------------------------
(* What the steps do, in the terms the invariants are stated in.           *)

\* Attempt numbers are natural numbers, and there are finitely many.
LEMMA AttemptSetsAreFinite ==
  ASSUME NEW S \in SUBSET AttemptNumbers
  PROVE  IsFiniteSet(S) /\ Cardinality(S) \in Nat
<1>1. IsFiniteSet(AttemptNumbers)
  BY FS_Interval, OutboundDeliveryAssumption DEF AttemptNumbers
<1>2. IsFiniteSet(S)
  BY <1>1, FS_Subset
<1> QED BY <1>2, FS_CardinalityType

\* One element more, and one fewer.
LEMMA OneMore ==
  ASSUME NEW S, IsFiniteSet(S), NEW x, x \notin S
  PROVE  Cardinality(S \cup {x}) = Cardinality(S) + 1
BY FS_AddElement

LEMMA OneFewer ==
  ASSUME NEW S, IsFiniteSet(S), NEW x \in S
  PROVE  Cardinality(S \ {x}) = Cardinality(S) - 1
BY FS_RemoveElement

\* A call starts the attempt after the head's last, which was absent.
LEMMA StartFacts ==
  ASSUME LedgerInv, NEW w \in Workers, StartAttempt(w)
  PROVE  \E d \in Deliveries, n \in AttemptNumbers : Starts(d, n)
<1> DEFINE d == worker[w].delivery
           n == head[d].count + 1
<1> USE DEF LedgerInv
<1>1. d \in Deliveries /\ worker[w].phase = "claimed" /\ Owns(w)
  BY DEF StartAttempt, TokensInv, Active
<1>2. /\ head[d].count \in 0..MaxAttempts /\ head[d].count < MaxAttempts
      /\ Dispatchable(head[d]) /\ head[d].unknown \in Nat
      /\ contact[d].corrections \in 0..MaxCorrections
  BY <1>1 DEF TypeOK, HeadRow, ContactRow, CallsInv, CallInv
<1>3. n \in AttemptNumbers /\ n > head[d].count /\ head[d].count \in Nat
      /\ contact[d].corrections \in Nat
  BY <1>2, OutboundDeliveryAssumption DEF AttemptNumbers
<1>4. attempts[d][n].state = "absent"
  BY <1>1, <1>3 DEF LedgerIsConsistent
<1>5. /\ head'[d].state = "request_started" /\ head'[d].count = n
      /\ head'[d].unknown = head[d].unknown /\ head'[d].exhausted = head[d].exhausted
      /\ \A e \in Deliveries \ {d} : head'[e] = head[e]
      /\ UNCHANGED <<facts, contact>>
  BY <1>1 DEF StartAttempt, TypeOK, HeadRow, Started, LeaseRenewed
<1>6. /\ attempts'[d][n].state = "request_started"
      /\ attempts'[d][n].kind =
           IF AuthorizedResend(d) THEN "marked_resend" ELSE RequiredKind(head[d])
      /\ attempts'[d][n].target =
           IF AuthorizedResend(d) THEN "corrected" ELSE "reviewed"
      /\ \A e \in Deliveries, m \in AttemptNumbers :
           e # d \/ m # n => attempts'[e][m] = attempts[e][m]
  BY <1>1, <1>3 DEF StartAttempt, TypeOK
<1>7. n = head[d].count + 1
  OBVIOUS
<1> HIDE DEF d, n
<1>8. Starts(d, n)
  BY <1>2, <1>3, <1>4, <1>5, <1>6, <1>7 DEF Starts
<1> QED BY <1>1, <1>3, <1>8

\* A call settles the attempt that is open, and only that one.
LEMMA SettleFacts ==
  ASSUME LedgerInv, NEW w \in Workers, SettleAttempt(w)
  PROVE  \E d \in Deliveries, n \in AttemptNumbers, landed \in Resolutions :
           /\ d = worker[w].delivery /\ n = worker[w].attempt
           /\ landed = Landed(worker[w].answer)
           /\ Settles(d, n, landed)
<1> DEFINE d == worker[w].delivery
           n == worker[w].attempt
           landed == Landed(worker[w].answer)
<1> USE DEF LedgerInv
<1>1. worker[w].phase \in {"answered", "recovering"}
  BY DEF SettleAttempt, Completing
<1>2. d \in Deliveries /\ n \in AttemptNumbers /\ worker[w].answer \in Answers
  BY <1>1 DEF TokensInv, Active, CallsInv, CallInv, OnAttempt, Answers, Resolutions
<1>3. landed \in Resolutions
  BY <1>2, AnswersLand
<1>4. /\ head[d].unknown \in Nat /\ contact[d].corrections \in Nat
      /\ attempts[d][n].kind \in Kinds
  BY <1>2, OutboundDeliveryAssumption DEF TypeOK, HeadRow, ContactRow, AttemptRow
<1>5. /\ head[d].state = "request_started" /\ head[d].count = n
      /\ attempts[d][n].state = "request_started"
  BY <1>2 DEF SettleAttempt, LedgerIsConsistent
<1>6. /\ attempts'[d][n].state = landed
      /\ attempts'[d][n].kind = attempts[d][n].kind
      /\ attempts'[d][n].target = attempts[d][n].target
      /\ \A e \in Deliveries, m \in AttemptNumbers :
           e # d \/ m # n => attempts'[e][m] = attempts[e][m]
  BY <1>2 DEF SettleAttempt, TypeOK, AttemptRow
<1>7. /\ head'[d].state = landed /\ head'[d].count = n
      /\ head'[d].unknown = UnknownAfter(w)
      /\ \A e \in Deliveries \ {d} : head'[e] = head[e]
  BY <1>2 DEF SettleAttempt, TypeOK, HeadRow, Settled, LeaseCleared
<1>8. UnknownAfter(w) = IF landed = "acceptance_unknown" THEN head[d].unknown + 1
                        ELSE head[d].unknown
  BY DEF UnknownAfter, Landed
<1>9. head'[d].exhausted <=> head[d].exhausted \/ ConsumesResend(w)
  BY <1>2 DEF SettleAttempt, TypeOK, HeadRow, Settled, LeaseCleared
<1>10. ConsumesResend(w) <=> landed = "acceptance_unknown"
                             /\ attempts[d][n].kind = "marked_resend"
  BY DEF ConsumesResend, Landed
<1>11. head'[d].exhausted => head'[d].unknown >= 2
  <2>1. head'[d].exhausted => ~(UnknownAfter(w) < 2)
    BY <1>9 DEF SettleAttempt, BreaksExhaustionCheck
  <2>2. UnknownAfter(w) \in Nat
    BY <1>4, <1>8
  <2>3. ~(UnknownAfter(w) < 2) => UnknownAfter(w) >= 2
    BY <2>2
  <2> QED BY <2>1, <2>3, <1>7
<1>12. \A e \in Deliveries : /\ contact[e].bounced => contact'[e].bounced
                             /\ contact'[e].corrections = contact[e].corrections
  BY <1>2 DEF SettleAttempt, Suppress, TypeOK, ContactRow
<1>13. facts' = [facts EXCEPT ![d] = @ \cup {Evidence(n, landed)}]
  BY DEF SettleAttempt, AddFact, Evidence
<1>14. d = worker[w].delivery /\ n = worker[w].attempt /\ landed = Landed(worker[w].answer)
  OBVIOUS
<1> HIDE DEF d, n, landed
<1>15. Settles(d, n, landed)
  BY <1>4, <1>5, <1>6, <1>7, <1>8, <1>9, <1>10, <1>11, <1>12, <1>13 DEF Settles
<1> QED BY <1>2, <1>3, <1>14, <1>15

\* Correcting an address makes room for one more copy and touches no attempt.
LEMMA CorrectFacts ==
  ASSUME LedgerInv, NEW d \in Deliveries, CorrectAddress(d)
  PROVE  /\ UNCHANGED <<attempts, facts>>
         /\ head[d].state \notin {"unregistered", "request_started"}
         /\ head'[d].state = "known_rejected_safe_retryable"
         /\ head'[d].count = head[d].count /\ head'[d].unknown = head[d].unknown
         /\ head'[d].exhausted = head[d].exhausted
         /\ \A e \in Deliveries \ {d} : head'[e] = head[e]
         /\ contact[d].corrections \in Nat
         /\ contact'[d].corrections = contact[d].corrections + 1
         /\ contact'[d].bounced
         /\ \A e \in Deliveries \ {d} : contact'[e] = contact[e]
<1>1. contact[d].corrections \in Nat
  BY OutboundDeliveryAssumption DEF LedgerInv, TypeOK, ContactRow
<1> QED
  BY <1>1 DEF LedgerInv, CorrectAddress, Correctable, Corrected, LeaseCleared, TypeOK,
              HeadRow, ContactRow

LEMMA RegisterFacts ==
  ASSUME LedgerInv, NEW d \in Deliveries, Register(d)
  PROVE  /\ UNCHANGED <<attempts, facts, contact>>
         /\ head[d].state = "unregistered" /\ head'[d].state = "pending"
         /\ head'[d].count = head[d].count /\ head'[d].unknown = head[d].unknown
         /\ head'[d].exhausted = head[d].exhausted
         /\ \A e \in Deliveries \ {d} : head'[e] = head[e]
         /\ \A n \in AttemptNumbers : attempts[d][n].state = "absent"
<1>1. head[d].count = 0
  BY DEF LedgerInv, LedgerIsConsistent, Register
<1>2. \A n \in AttemptNumbers : attempts[d][n].state = "absent"
  BY <1>1 DEF LedgerInv, LedgerIsConsistent, AttemptNumbers
<1> QED BY <1>2 DEF LedgerInv, Register, TypeOK, HeadRow

\* Every step starts or settles an attempt, registers a delivery, corrects an
\* address, or is quiet.
LEMMA StepCases ==
  ASSUME LedgerInv, [Next]_vars
  PROVE  \/ \E w \in Workers : StartAttempt(w) \/ SettleAttempt(w)
         \/ \E d \in Deliveries : Register(d) \/ CorrectAddress(d)
         \/ Quiet
<1> USE DEF LedgerInv
<1>1. ASSUME UNCHANGED <<head, attempts, facts, contact>> PROVE Quiet
  BY <1>1 DEF Quiet
<1>2. ASSUME NEW w \in Workers, NEW d \in Deliveries, Claim(w, d) PROVE Quiet
  BY <1>2 DEF Claim, Quiet, TypeOK, HeadRow
<1>3. ASSUME NEW w \in Workers, PrepareFails(w) PROVE Quiet
  BY <1>3 DEF PrepareFails, LeaseCleared, Quiet, TypeOK, HeadRow
<1>4. ASSUME NEW w \in Workers, KeepFencedAnswer(w) PROVE Quiet
  <2>1. UNCHANGED <<head, attempts, contact>>
    BY <1>4 DEF KeepFencedAnswer
  <2>2. ASSUME NEW d \in Deliveries, NEW n \in AttemptNumbers, NEW s \in Resolutions
        PROVE  Evidence(n, s) \in facts'[d] <=> Evidence(n, s) \in facts[d]
    BY <1>4 DEF KeepFencedAnswer, AddFact, Evidence, TypeOK
  <2> QED BY <2>1, <2>2 DEF Quiet
<1>5. ASSUME NEW d \in Deliveries, ObserveBounce(d) PROVE Quiet
  BY <1>5 DEF ObserveBounce, Quiet, TypeOK, ContactRow
<1>6. ASSUME NEW d \in Deliveries, SuppressedElsewhere(d) PROVE Quiet
  BY <1>6 DEF SuppressedElsewhere, Quiet, TypeOK, ContactRow
<1>7. ASSUME Tick PROVE Quiet
  BY <1>7 DEF Tick, Quiet, TypeOK, HeadRow
<1>8. ASSUME NEW w \in Workers,
             \/ LoseClaim(w) \/ CompletionAborts(w) \/ Crash(w)
             \/ \E answer \in Answers : ProviderAnswers(w, answer)
      PROVE  Quiet
  BY <1>1, <1>8 DEF LoseClaim, CompletionAborts, Crash, ProviderAnswers
<1>9. CASE UNCHANGED vars
  BY <1>1, <1>9 DEF vars
<1> QED
  BY <1>2, <1>3, <1>4, <1>5, <1>6, <1>7, <1>8, <1>9 DEF Next, WorkerStep

-----------------------------------------------------------------------------
(* Evidence.                                                               *)

\* The resolution of an attempt is written with its evidence or not at all.
LEMMA EvidenceNext ==
  LedgerInv /\ EvidenceAgreesWithAttempts /\ [Next]_vars => EvidenceAgreesWithAttempts'
<1> SUFFICES ASSUME LedgerInv, EvidenceAgreesWithAttempts, [Next]_vars,
                    NEW e \in Deliveries, NEW m \in AttemptNumbers, NEW s \in Resolutions
             PROVE  Evidence(m, s) \in facts'[e] <=> attempts'[e][m].state = s
  BY DEF EvidenceAgreesWithAttempts, Evidence
<1> DEFINE Agrees == Evidence(m, s) \in facts[e] <=> attempts[e][m].state = s
<1>1. Agrees
  BY DEF EvidenceAgreesWithAttempts, Evidence
<1>2. s \notin {"absent", "request_started"}
  BY DEF Resolutions
<1>3. ASSUME NEW w \in Workers, StartAttempt(w)
      PROVE  Evidence(m, s) \in facts'[e] <=> attempts'[e][m].state = s
  <2>1. PICK d \in Deliveries, n \in AttemptNumbers : Starts(d, n)
    BY <1>3, StartFacts
  <2> QED BY <1>1, <1>2, <2>1 DEF Starts
<1>4. ASSUME NEW w \in Workers, SettleAttempt(w)
      PROVE  Evidence(m, s) \in facts'[e] <=> attempts'[e][m].state = s
  <2>1. PICK d \in Deliveries, n \in AttemptNumbers, landed \in Resolutions :
          Settles(d, n, landed)
    BY <1>4, SettleFacts
  <2>2. facts'[e] = IF e = d THEN facts[d] \cup {Evidence(n, landed)} ELSE facts[e]
    BY <2>1 DEF Settles, LedgerInv, TypeOK
  <2>3. Evidence(m, s) = Evidence(n, landed) <=> m = n /\ s = landed
    BY DEF Evidence
  <2> QED BY <1>1, <1>2, <2>1, <2>2, <2>3 DEF Settles
<1>5. ASSUME NEW d \in Deliveries, Register(d) \/ CorrectAddress(d)
      PROVE  Evidence(m, s) \in facts'[e] <=> attempts'[e][m].state = s
  BY <1>1, <1>5, RegisterFacts, CorrectFacts
<1>6. CASE Quiet
  BY <1>1, <1>6 DEF Quiet
<1> QED BY <1>3, <1>4, <1>5, <1>6, StepCases

\* The evidence of an attempt says what the attempt's row says, and says it
\* once: answers that come after another call settled the attempt stay fenced.
THEOREM EvidenceIsSound == Spec => []EvidenceAgreesWithAttempts
<1>1. Init => EvidenceAgreesWithAttempts
  BY DEF Init, NoAttempt, EvidenceAgreesWithAttempts, Resolutions
<1> QED BY <1>1, LedgerInvAlways, EvidenceNext, PTL DEF Spec

\* A call that holds an answer leaves it in the evidence when it ends, unless
\* it dies or the schema refuses the row.
THEOREM NoAnswerIsLost == Spec => AnswersAreKept
<1> DEFINE Kept(w) == \E f \in facts'[worker[w].delivery] :
                        /\ f.attempt = worker[w].attempt
                        /\ f.state = Landed(worker[w].answer)
<1>1. ASSUME LedgerInv, [Next]_vars, NEW w \in Workers,
             worker[w].phase = "answered", worker'[w].phase = "idle",
             crashes' = crashes, ~(Owns(w) /\ BreaksExhaustionCheck(w))
      PROVE  Kept(w)
  <2> USE <1>1 DEF LedgerInv
  <2>1. worker[w].delivery \in Deliveries
    BY DEF TokensInv, Active
  <2>2. ASSUME NEW v \in Workers, v # w, WorkerStep(v) PROVE worker'[w] = worker[w]
    BY <2>2 DEF WorkerStep, PrepareFails, StartAttempt, LoseClaim, ProviderAnswers, SettleAttempt,
                KeepFencedAnswer, CompletionAborts, Crash, Idle, TypeOK
  <2>3. ASSUME NEW v \in Workers, NEW d \in Deliveries, Claim(v, d)
        PROVE  worker'[w] = worker[w]
    BY <2>3 DEF Claim, TypeOK
  <2>4. ASSUME NEW fenced \in BOOLEAN, AddFact(w, fenced) PROVE Kept(w)
    <3> DEFINE f == [attempt |-> worker[w].attempt, fenced |-> fenced,
                     state |-> Landed(worker[w].answer)]
    <3>1. f \in facts'[worker[w].delivery]
      BY <2>1, <2>4 DEF AddFact, TypeOK
    <3>2. f.attempt = worker[w].attempt /\ f.state = Landed(worker[w].answer)
      OBVIOUS
    <3> HIDE DEF f
    <3> QED BY <3>1, <3>2
  <2>5. ASSUME WorkerStep(w) PROVE Kept(w)
    <3>1. ~Crash(w)
      BY DEF Crash, TypeOK
    <3>2. ~CompletionAborts(w)
      BY DEF CompletionAborts
    <3>3. ~PrepareFails(w) /\ ~StartAttempt(w) /\ ~LoseClaim(w)
          /\ ~\E answer \in Answers : ProviderAnswers(w, answer)
      BY DEF PrepareFails, StartAttempt, LoseClaim, ProviderAnswers
    <3>4. SettleAttempt(w) \/ KeepFencedAnswer(w)
      BY <2>5, <3>1, <3>2, <3>3 DEF WorkerStep
    <3> QED BY <3>4, <2>4 DEF SettleAttempt, KeepFencedAnswer
  <2>6. ASSUME Tick PROVE worker'[w].phase = worker[w].phase
    BY <2>6 DEF Tick, TypeOK, WorkerState
  <2>7. ASSUME NEW d \in Deliveries,
               Register(d) \/ ObserveBounce(d) \/ SuppressedElsewhere(d) \/ CorrectAddress(d)
        PROVE  worker' = worker
    BY <2>7 DEF Register, ObserveBounce, SuppressedElsewhere, CorrectAddress
  <2>8. ~UNCHANGED vars
    BY DEF vars
  <2> QED BY <2>2, <2>3, <2>5, <2>6, <2>7, <2>8 DEF Next
<1>2. LedgerInv /\ [Next]_vars
        => [\A w \in Workers :
              /\ worker[w].phase = "answered" /\ worker'[w].phase = "idle"
              /\ crashes' = crashes
              /\ ~(Owns(w) /\ BreaksExhaustionCheck(w))
              => Kept(w)]_vars
  BY <1>1
<1> QED BY <1>2, LedgerInvAlways, PTL DEF AnswersAreKept, Spec

-----------------------------------------------------------------------------
(* Counters and copies.                                                    *)

\* A step that leaves a delivery's attempts and counters alone, and takes back
\* no bounce, keeps what is known of it.
LEMMA CountsKept ==
  ASSUME NEW d \in Deliveries, CountInv(d), CopiesInv(d), ResendInv(d),
         \A n \in AttemptNumbers : attempts'[d][n] = attempts[d][n],
         head'[d].state = head[d].state, head'[d].count = head[d].count,
         head'[d].unknown = head[d].unknown, head'[d].exhausted = head[d].exhausted,
         head[d].state = "request_started" => head[d].count \in AttemptNumbers,
         contact[d].bounced => contact'[d].bounced,
         contact'[d].corrections = contact[d].corrections
  PROVE  CountInv(d)' /\ CopiesInv(d)' /\ ResendInv(d)'
<1>1. UnknownOf(d)' = UnknownOf(d) /\ OutOf(d)' = OutOf(d)
  BY DEF UnknownOf, OutOf
<1>2. CountInv(d)'
  BY <1>1 DEF CountInv, UnknownOf
<1>3. CopiesInv(d)'
  BY <1>1 DEF CopiesInv, Dispatchable
<1>4. ResendInv(d)'
  BY DEF ResendInv
<1> QED BY <1>2, <1>3, <1>4

\* An attempt that is open is one of the table's.
LEMMA OpenAttemptIsNumbered ==
  ASSUME LedgerInv, NEW d \in Deliveries, head[d].state = "request_started"
  PROVE  head[d].count \in AttemptNumbers
<1>1. head[d].count \in 0..MaxAttempts /\ head[d].count # 0
  BY DEF LedgerInv, TypeOK, HeadRow, LedgerIsConsistent
<1> QED BY <1>1, OutboundDeliveryAssumption DEF AttemptNumbers

\* Without deduplication, an attempt starts as the original only while nothing
\* can be out: nothing was sent, or everything sent was definitely rejected.
LEMMA OriginalIsAlone ==
  ASSUME LedgerInv, ExposureInv, PromiseInv, ~NativeKey,
         NEW d \in Deliveries, NEW n \in AttemptNumbers, Starts(d, n),
         attempts'[d][n].kind = "original"
  PROVE  OutOf(d) = {}
<1> USE DEF Starts
<1>1. head[d].unknown = 0 /\ ~AuthorizedResend(d) /\ RequiredKind(head[d]) = "original"
  BY DEF RequiredKind
<1>2. CASE head[d].state = "pending"
  <2>1. head[d].count = 0
    BY <1>2 DEF LedgerInv, LedgerIsConsistent
  <2> QED BY <2>1 DEF LedgerInv, LedgerIsConsistent, OutOf, OutStates, AttemptNumbers
<1>3. CASE head[d].state = "known_rejected_safe_retryable"
  BY <1>1, <1>3 DEF AuthorizedResend, PromiseInv, CopiesInv
<1>4. CASE head[d].state = "acceptance_unknown"
  BY <1>1, <1>4 DEF ExposureInv, CountsInv
<1> QED BY <1>2, <1>3, <1>4 DEF Dispatchable

LEMMA CountStart ==
  ASSUME LedgerInv, ExposureInv, PromiseInv,
         NEW d \in Deliveries, NEW n \in AttemptNumbers, Starts(d, n)
  PROVE  CountInv(d)' /\ CopiesInv(d)' /\ ResendInv(d)'
<1> USE DEF Starts
<1>1. CountInv(d) /\ CopiesInv(d) /\ ResendInv(d)
  BY DEF PromiseInv
<1>2. UnknownOf(d)' = UnknownOf(d) /\ n \notin UnknownOf(d)
  BY DEF UnknownOf
<1>3. OutOf(d)' = OutOf(d) \cup {n} /\ n \notin OutOf(d)
  BY DEF OutOf, OutStates
<1>4. Cardinality(OutOf(d)) \in Nat /\ Cardinality(OutOf(d)') = Cardinality(OutOf(d)) + 1
  <2>1. IsFiniteSet(OutOf(d)) /\ Cardinality(OutOf(d)) \in Nat
    BY AttemptSetsAreFinite DEF OutOf
  <2>2. Cardinality(OutOf(d) \cup {n}) = Cardinality(OutOf(d)) + 1
    BY <2>1, <1>3, OneMore
  <2> QED BY <2>1, <2>2, <1>3
<1>5. CountInv(d)'
  <2>1. \A m \in UnknownOf(d) : attempts'[d][m] = attempts[d][m]
    BY <1>2 DEF UnknownOf
  <2> QED BY <1>1, <1>2, <2>1 DEF CountInv
<1>6. CopiesInv(d)'
  <2> SUFFICES ASSUME ~NativeKey PROVE CopiesInv(d)'
    BY DEF CopiesInv
  <2>1. head[d].state \notin {"request_started", "accepted"}
    BY DEF Dispatchable
  <2>2. head[d].unknown = 0 /\ ~(contact[d].bounced /\ contact[d].corrections > 0)
          => OutOf(d) = {}
    BY <1>1, <2>1 DEF CopiesInv
  <2>3. attempts'[d][n].kind = "original" => OutOf(d) = {}
    BY OriginalIsAlone
  <2>4. Cardinality(OutOf(d)) <= 1 + contact[d].corrections
    BY <1>1 DEF CopiesInv
  <2>5. Cardinality(OutOf(d)') <= 2 + contact'[d].corrections
    BY <1>4, <2>4
  <2>6. ~Dispatchable(head'[d])
    BY DEF Dispatchable
  <2> QED BY <1>3, <2>2, <2>3, <2>5, <2>6 DEF CopiesInv
<1>7. ResendInv(d)'
  <2>1. /\ attempts'[d][n].kind = "marked_resend" /\ attempts'[d][n].target = "reviewed"
             => head[d].unknown > 0
        /\ attempts'[d][n].target = "corrected" => contact[d].corrections > 0
    BY DEF RequiredKind, AuthorizedResend
  <2> QED BY <1>1, <2>1 DEF ResendInv
<1> QED BY <1>5, <1>6, <1>7

LEMMA CountSettle ==
  ASSUME LedgerInv, PromiseInv, NEW d \in Deliveries, NEW n \in AttemptNumbers,
         NEW landed \in Resolutions, Settles(d, n, landed)
  PROVE  CountInv(d)' /\ CopiesInv(d)' /\ ResendInv(d)'
<1> USE DEF Settles
<1>1. CountInv(d) /\ CopiesInv(d) /\ ResendInv(d)
  BY DEF PromiseInv
<1>2. \A m \in AttemptNumbers : attempts[d][m].state # "absent" => m <= n
  BY DEF LedgerInv, LedgerIsConsistent, AttemptNumbers
<1>3. /\ UnknownOf(d)' = IF landed = "acceptance_unknown" THEN UnknownOf(d) \cup {n}
                         ELSE UnknownOf(d)
      /\ n \notin UnknownOf(d)
      /\ \A m \in UnknownOf(d) : m < n /\ attempts'[d][m] = attempts[d][m]
  BY <1>2 DEF UnknownOf, AttemptNumbers
<1>4. /\ OutOf(d)' = IF landed \in {"accepted", "acceptance_unknown"} THEN OutOf(d)
                     ELSE OutOf(d) \ {n}
      /\ n \in OutOf(d)
  BY DEF OutOf, OutStates, Resolutions
<1>5. IsFiniteSet(UnknownOf(d)) /\ Cardinality(UnknownOf(d)) \in Nat
  BY AttemptSetsAreFinite DEF UnknownOf
<1>6. IsFiniteSet(OutOf(d)) /\ Cardinality(OutOf(d)) \in Nat
  BY AttemptSetsAreFinite DEF OutOf
<1>7. CountInv(d)'
  <2>1. head'[d].unknown = Cardinality(UnknownOf(d)')
    <3>1. Cardinality(UnknownOf(d) \cup {n}) = Cardinality(UnknownOf(d)) + 1
      BY <1>3, <1>5, OneMore
    <3> QED BY <3>1, <1>1, <1>3 DEF CountInv
  <2>2. ASSUME head'[d].exhausted
        PROVE  \E l, m \in UnknownOf(d)' : l < m /\ attempts'[d][m].kind = "marked_resend"
    <3>1. CASE head[d].exhausted
      BY <3>1, <1>1, <1>3 DEF CountInv
    <3>2. CASE landed = "acceptance_unknown" /\ attempts[d][n].kind = "marked_resend"
      <4>1. head'[d].unknown >= 2
        BY <2>2
      <4>2. head'[d].unknown = head[d].unknown + 1
        BY <3>2
      <4>3. head[d].unknown # 0
        BY <4>1, <4>2
      <4>4. UnknownOf(d) # {}
        BY <4>3, <1>1, FS_EmptySet DEF CountInv
      <4> QED BY <3>2, <4>4, <1>3
    <3> QED BY <2>2, <3>1, <3>2
  <2>3. head'[d].exhausted => head'[d].unknown >= 2
    OBVIOUS
  <2> QED BY <2>1, <2>2, <2>3 DEF CountInv
<1>8. CopiesInv(d)'
  <2> SUFFICES ASSUME ~NativeKey PROVE CopiesInv(d)'
    BY DEF CopiesInv
  <2>1. ASSUME head'[d].unknown = 0,
               ~(contact'[d].bounced /\ contact'[d].corrections > 0),
               NEW m \in OutOf(d)'
        PROVE  m = head'[d].count /\ head'[d].state \in {"request_started", "accepted"}
    <3>1. head[d].unknown = 0 /\ landed # "acceptance_unknown"
      BY <2>1
    <3>2. ~(contact[d].bounced /\ contact[d].corrections > 0)
      BY <2>1
    <3>3. m = n
      BY <2>1, <3>1, <3>2, <1>1, <1>4 DEF CopiesInv
    <3> QED BY <3>1, <3>3, <2>1, <1>4
  <2>2. head'[d].state # "request_started" /\ head'[d].state # "pending"
    BY DEF Resolutions
  <2>3. /\ Cardinality(OutOf(d)') \in Nat
        /\ Cardinality(OutOf(d)') <= Cardinality(OutOf(d))
        /\ landed = "known_rejected_safe_retryable"
             => Cardinality(OutOf(d)') = Cardinality(OutOf(d)) - 1
    <3>1. CASE landed \in {"accepted", "acceptance_unknown"}
      BY <3>1, <1>4, <1>6
    <3>2. CASE landed \notin {"accepted", "acceptance_unknown"}
      <4>1. OutOf(d)' = OutOf(d) \ {n} /\ n \in OutOf(d)
        BY <3>2, <1>4
      <4>2. Cardinality(OutOf(d) \ {n}) = Cardinality(OutOf(d)) - 1
        BY <4>1, <1>6, OneFewer
      <4>3. Cardinality(OutOf(d)') \in Nat
        BY <4>1, AttemptSetsAreFinite DEF OutOf
      <4> QED BY <4>1, <4>2, <4>3, <1>6
    <3> QED BY <3>1, <3>2
  <2>4. Cardinality(OutOf(d)) <= 2 + contact[d].corrections
    BY <1>1 DEF CopiesInv
  <2>5. Cardinality(OutOf(d)') <= 2 + contact'[d].corrections
    BY <2>3, <2>4, <1>6
  <2>6. ASSUME landed = "acceptance_unknown", ~head'[d].exhausted
        PROVE  Cardinality(OutOf(d)') <= 1 + contact'[d].corrections
    <3>1. attempts[d][n].kind = "original"
      BY <2>6 DEF Kinds
    <3>2. OutOf(d) = {n}
      BY <3>1, <1>1 DEF CopiesInv
    <3>3. Cardinality(OutOf(d)') = 1
      <4>1. OutOf(d)' = {n}
        BY <3>2, <2>6, <1>4
      <4>2. Cardinality({n}) = 1
        BY FS_Singleton
      <4> QED BY <4>1, <4>2
    <3> QED BY <3>3
  <2>7. ASSUME landed = "known_rejected_safe_retryable"
        PROVE  Cardinality(OutOf(d)') <= 1 + contact'[d].corrections
    BY <2>7, <2>3, <2>4, <1>6
  <2>8. Dispatchable(head'[d]) => \/ landed = "known_rejected_safe_retryable"
                                  \/ landed = "acceptance_unknown" /\ ~head'[d].exhausted
    BY <2>2 DEF Dispatchable
  <2> QED BY <2>1, <2>2, <2>5, <2>6, <2>7, <2>8 DEF CopiesInv
<1>9. ResendInv(d)'
  <2>1. head[d].unknown > 0 => head'[d].unknown > 0
    OBVIOUS
  <2> QED BY <1>1, <2>1 DEF ResendInv
<1> QED BY <1>7, <1>8, <1>9

\* The counters and the room for copies survive every step.
LEMMA PromiseInvNext ==
  LedgerInv /\ ExposureInv /\ PromiseInv /\ [Next]_vars => PromiseInv'
<1> SUFFICES ASSUME LedgerInv, ExposureInv, PromiseInv, [Next]_vars,
                    NEW e \in Deliveries
             PROVE  CountInv(e)' /\ CopiesInv(e)' /\ ResendInv(e)'
  BY DEF PromiseInv
<1>1. CountInv(e) /\ CopiesInv(e) /\ ResendInv(e)
  BY DEF PromiseInv
<1>2. head[e].state = "request_started" => head[e].count \in AttemptNumbers
  BY OpenAttemptIsNumbered
<1>3. ASSUME NEW w \in Workers, StartAttempt(w)
      PROVE  CountInv(e)' /\ CopiesInv(e)' /\ ResendInv(e)'
  <2>1. PICK d \in Deliveries, n \in AttemptNumbers : Starts(d, n)
    BY <1>3, StartFacts
  <2>2. CASE e = d
    BY <2>1, <2>2, CountStart
  <2>3. CASE e # d
    BY <2>1, <2>3, <1>1, <1>2, CountsKept DEF Starts
  <2> QED BY <2>2, <2>3
<1>4. ASSUME NEW w \in Workers, SettleAttempt(w)
      PROVE  CountInv(e)' /\ CopiesInv(e)' /\ ResendInv(e)'
  <2>1. PICK d \in Deliveries, n \in AttemptNumbers, landed \in Resolutions :
          Settles(d, n, landed)
    BY <1>4, SettleFacts
  <2>2. CASE e = d
    BY <2>1, <2>2, CountSettle
  <2>3. CASE e # d
    BY <2>1, <2>3, <1>1, <1>2, CountsKept DEF Settles
  <2> QED BY <2>2, <2>3
<1>5. ASSUME NEW d \in Deliveries, Register(d)
      PROVE  CountInv(e)' /\ CopiesInv(e)' /\ ResendInv(e)'
  <2>1. CASE e = d
    <3>1. UnknownOf(d)' = UnknownOf(d) /\ OutOf(d)' = {}
      BY <1>5, RegisterFacts DEF UnknownOf, OutOf, OutStates
    <3>2. contact[d].corrections \in Nat
      BY OutboundDeliveryAssumption DEF LedgerInv, TypeOK, ContactRow
    <3>3. Cardinality(OutOf(d)') = 0
      BY <3>1, FS_EmptySet
    <3>4. CountInv(d)'
      BY <2>1, <3>1, <1>1, <1>5, RegisterFacts DEF CountInv
    <3>5. CopiesInv(d)'
      BY <3>1, <3>2, <3>3, <1>5, RegisterFacts DEF CopiesInv
    <3>6. ResendInv(d)'
      BY <2>1, <1>1, <1>5, RegisterFacts DEF ResendInv
    <3> QED BY <2>1, <3>4, <3>5, <3>6
  <2>2. CASE e # d
    BY <2>2, <1>1, <1>2, <1>5, RegisterFacts, CountsKept
  <2> QED BY <2>1, <2>2
<1>6. ASSUME NEW d \in Deliveries, CorrectAddress(d)
      PROVE  CountInv(e)' /\ CopiesInv(e)' /\ ResendInv(e)'
  <2>1. CASE e = d
    <3>1. UnknownOf(d)' = UnknownOf(d) /\ OutOf(d)' = OutOf(d)
      BY <1>6, CorrectFacts DEF UnknownOf, OutOf
    <3>2. Cardinality(OutOf(d)) \in Nat
      BY AttemptSetsAreFinite DEF OutOf
    <3>3. CountInv(d)'
      BY <2>1, <3>1, <1>1, <1>6, CorrectFacts DEF CountInv
    <3>4. CopiesInv(d)'
      <4>1. /\ contact'[d].bounced /\ contact'[d].corrections > 0
            /\ contact[d].corrections \in Nat
            /\ contact'[d].corrections = contact[d].corrections + 1
            /\ head'[d].state = "known_rejected_safe_retryable"
        BY <1>6, CorrectFacts
      <4>2. ~NativeKey => Cardinality(OutOf(d)) <= 2 + contact[d].corrections
        BY <2>1, <1>1 DEF CopiesInv
      <4>3. ~NativeKey => /\ Cardinality(OutOf(d)') <= 1 + contact'[d].corrections
                          /\ Cardinality(OutOf(d)') <= 2 + contact'[d].corrections
        BY <4>1, <4>2, <3>1, <3>2
      <4> QED BY <4>1, <4>3 DEF CopiesInv
    <3>5. ResendInv(d)'
      BY <2>1, <1>1, <1>6, CorrectFacts DEF ResendInv
    <3> QED BY <2>1, <3>3, <3>4, <3>5
  <2>2. CASE e # d
    BY <2>2, <1>1, <1>2, <1>6, CorrectFacts, CountsKept
  <2> QED BY <2>1, <2>2
<1>7. CASE Quiet
  BY <1>1, <1>2, <1>7, CountsKept DEF Quiet
<1> QED BY <1>3, <1>4, <1>5, <1>6, <1>7, StepCases

LEMMA PromiseInvAlways == Spec => [](DeliveryInv /\ PromiseInv)
<1>1. Init => PromiseInv
  <2> SUFFICES ASSUME Init, NEW d \in Deliveries
               PROVE  CountInv(d) /\ CopiesInv(d) /\ ResendInv(d)
    BY DEF PromiseInv
  <2>1. UnknownOf(d) = {} /\ OutOf(d) = {}
    BY DEF Init, NoAttempt, UnknownOf, OutOf, OutStates
  <2>2. Cardinality(UnknownOf(d)) = 0 /\ Cardinality(OutOf(d)) = 0
    BY <2>1, FS_EmptySet
  <2>3. CountInv(d)
    BY <2>2 DEF Init, NewHead, CountInv
  <2>4. CopiesInv(d)
    BY <2>1, <2>2 DEF Init, NewHead, NewContact, CopiesInv
  <2>5. ResendInv(d)
    BY DEF Init, NoAttempt, ResendInv
  <2> QED BY <2>3, <2>4, <2>5
<1>2. DeliveryInv /\ PromiseInv /\ [Next]_vars => PromiseInv'
  BY PromiseInvNext DEF DeliveryInv
<1> QED BY <1>1, <1>2, DeliveryInvAlways, PTL DEF Spec

\* The head's counter of unknown landings is exact, and a delivery is
\* quarantined only after two of them, the later one a marked resend.
THEOREM AmbiguityCountIsExact == Spec => []AmbiguityIsCounted
<1>1. PromiseInv => AmbiguityIsCounted
  BY DEF PromiseInv, CountInv, UnknownOf, AmbiguityIsCounted
<1> QED BY <1>1, PromiseInvAlways, PTL

\* A recipient holds at most two copies, and one more for each correction: an
\* original that landed unknown and its marked resend spend the delivery, and
\* an accepted copy settles it, until an organizer corrects the address.
THEOREM CopiesStayBounded == Spec => []CopiesAreBounded
<1>1. DeliveryInv /\ PromiseInv => CopiesAreBounded
  <2> SUFFICES ASSUME DeliveryInv, PromiseInv, NEW d \in Deliveries
               PROVE  Cardinality(mailbox[d]) <= 2 + contact[d].corrections
    BY DEF CopiesAreBounded
  <2>1. mailbox[d] \in SUBSET AttemptNumbers /\ contact[d].corrections \in Nat
    BY OutboundDeliveryAssumption DEF DeliveryInv, LedgerInv, TypeOK, ContactRow
  <2>2. IsFiniteSet(mailbox[d]) /\ Cardinality(mailbox[d]) \in Nat
    BY <2>1, AttemptSetsAreFinite
  <2>3. CASE NativeKey
    <3>1. \A m, n \in mailbox[d] : m = n
      BY <2>3 DEF DeliveryInv, MailboxInv
    <3>2. mailbox[d] = {} \/ \E n : mailbox[d] = {n}
      BY <3>1
    <3>3. Cardinality(mailbox[d]) \in {0, 1}
      BY <3>2, FS_EmptySet, FS_Singleton
    <3> QED BY <3>3, <2>1
  <2>4. CASE ~NativeKey
    <3>1. mailbox[d] \in SUBSET OutOf(d)
      BY <2>1 DEF DeliveryInv, MailboxInv, OutOf, OutStates
    <3>2. IsFiniteSet(OutOf(d)) /\ Cardinality(OutOf(d)) \in Nat
      BY AttemptSetsAreFinite DEF OutOf
    <3>3. Cardinality(mailbox[d]) <= Cardinality(OutOf(d))
      BY <3>1, <3>2, FS_Subset
    <3>4. Cardinality(OutOf(d)) <= 2 + contact[d].corrections
      BY <2>4 DEF PromiseInv, CopiesInv
    <3> QED BY <3>2, <3>3, <3>4, <2>1, <2>2
  <2> QED BY <2>3, <2>4
<1> QED BY <1>1, PromiseInvAlways, PTL

\* Only the resend to a corrected address can be refused by the schema: a
\* marked resend to the reviewed address follows an ambiguity the head counted.
THEOREM RefusalsAreCorrections == Spec => []OnlyCorrectionsAreRefused
<1>1. DeliveryInv /\ PromiseInv => OnlyCorrectionsAreRefused
  <2> SUFFICES ASSUME DeliveryInv, PromiseInv, NEW w \in Workers,
                      Completing(w), Owns(w), BreaksExhaustionCheck(w)
               PROVE  /\ attempts[worker[w].delivery][worker[w].attempt].target = "corrected"
                      /\ contact[worker[w].delivery].corrections > 0
    BY DEF OnlyCorrectionsAreRefused
  <2>1. PICK d \in Deliveries, n \in AttemptNumbers :
          d = worker[w].delivery /\ n = worker[w].attempt
    BY DEF Completing, DeliveryInv, LedgerInv, TokensInv, Active, CallsInv, CallInv, OnAttempt
  <2>2. head[d].unknown \in Nat /\ attempts[d][n].target \in Addresses
    BY DEF DeliveryInv, LedgerInv, TypeOK, HeadRow, AttemptRow
  <2>3. CountInv(d) /\ ResendInv(d)
    BY DEF PromiseInv
  <2>4. UnknownAfter(w) \in Nat /\ UnknownAfter(w) >= head[d].unknown
    BY <2>1, <2>2 DEF UnknownAfter
  <2>5. ~head[d].exhausted
    BY <2>1, <2>2, <2>3, <2>4 DEF CountInv, BreaksExhaustionCheck
  <2>6. ConsumesResend(w)
    BY <2>1, <2>5 DEF BreaksExhaustionCheck
  <2>7. head[d].unknown = 0 /\ attempts[d][n].kind = "marked_resend"
    BY <2>1, <2>2, <2>6 DEF ConsumesResend, UnknownAfter, BreaksExhaustionCheck
  <2>8. attempts[d][n].target = "corrected"
    BY <2>2, <2>3, <2>7 DEF ResendInv, Addresses
  <2> QED BY <2>1, <2>3, <2>8 DEF ResendInv
<1> QED BY <1>1, PromiseInvAlways, PTL

-----------------------------------------------------------------------------
(* The ledger implements the promise.                                      *)

\* Where a delivery stands, by the state of its head.
StageFacts(d) ==
  /\ head[d].state = "unregistered" => StageOf(d) = "absent"
  /\ head[d].state \in {"pending", "known_rejected_safe_retryable"}
       => StageOf(d) = "waiting"
  /\ head[d].state = "request_started" =>
       StageOf(d) = IF attempts[d][head[d].count].kind = "original"
                    THEN "sending_unmarked" ELSE "sending_marked"
  /\ head[d].state \in {"accepted", "known_rejected_terminal"} => StageOf(d) = "settled"
  /\ head[d].state = "acceptance_unknown" =>
       StageOf(d) = IF head[d].exhausted THEN "quarantined" ELSE "ambiguous"

LEMMA StagesAre ==
  ASSUME NEW d
  PROVE  StageFacts(d) /\ StageFacts(d)'
<1>1. StageFacts(d)
  BY DEF StageFacts, StageOf
<1>2. StageFacts(d)'
  BY DEF StageFacts, StageOf
<1> QED BY <1>1, <1>2

\* A delivery whose attempts and head state stay is where it was.
LEMMA StageKept ==
  ASSUME LedgerInv, NEW d \in Deliveries,
         \A n \in AttemptNumbers : attempts'[d][n] = attempts[d][n],
         head'[d].state = head[d].state, head'[d].count = head[d].count,
         head'[d].exhausted = head[d].exhausted
  PROVE  StageOf(d)' = StageOf(d) /\ ExposedOf(d)' = ExposedOf(d)
<1>1. ExposedOf(d)' = ExposedOf(d)
  BY DEF ExposedOf, MayBeOut
<1>2. head[d].state = "request_started" => head[d].count \in AttemptNumbers
  BY OpenAttemptIsNumbered
<1>3. head[d].state \in HeadStates
  BY DEF LedgerInv, TypeOK, HeadRow
<1>4. StageOf(d)' = StageOf(d)
  BY <1>2, <1>3, StagesAre DEF StageFacts, HeadStates, Resolutions
<1> QED BY <1>1, <1>4

\* The promise's variables when one delivery moves.
LEMMA OneMoves ==
  ASSUME NEW d \in Deliveries,
         \A e \in Deliveries \ {d} : StageOf(e)' = StageOf(e) /\ ExposedOf(e)' = ExposedOf(e)
  PROVE  /\ [e \in Deliveries |-> StageOf(e)]'
              = [[e \in Deliveries |-> StageOf(e)] EXCEPT ![d] = StageOf(d)']
         /\ [e \in Deliveries |-> ExposedOf(e)]'
              = [[e \in Deliveries |-> ExposedOf(e)] EXCEPT ![d] = ExposedOf(d)']
         /\ ExposedOf(d)' = ExposedOf(d) => UNCHANGED [e \in Deliveries |-> ExposedOf(e)]
  OBVIOUS

\* A start is a send: unmarked only while no unmarked copy can be out, unless
\* the provider deduplicates.
LEMMA StartIsSend ==
  ASSUME LedgerInv, ExposureInv, PromiseInv, NEW d \in Deliveries, NEW n \in AttemptNumbers,
         Starts(d, n)
  PROVE  Promise!SendUnmarked(d) \/ Promise!SendMarked(d)
<1>1. StageOf(d) \in {"waiting", "ambiguous"}
  BY StagesAre DEF StageFacts, Starts, Dispatchable
<1>2. \A e \in Deliveries \ {d} : StageOf(e)' = StageOf(e) /\ ExposedOf(e)' = ExposedOf(e)
  BY StageKept DEF Starts
<1>3. /\ n \notin ExposedOf(d)
      /\ ExposedOf(d)' = IF attempts'[d][n].kind = "original" THEN ExposedOf(d) \cup {n}
                         ELSE ExposedOf(d)
  BY DEF ExposedOf, MayBeOut, Starts
<1>4. StageOf(d)' = IF attempts'[d][n].kind = "original"
                    THEN "sending_unmarked" ELSE "sending_marked"
  BY StagesAre DEF StageFacts, Starts
<1>5. CASE attempts'[d][n].kind = "original"
  <2>1. ExposedOf(d) = {} \/ NativeKey
    <3>1. ~NativeKey => OutOf(d) = {}
      BY <1>5, OriginalIsAlone
    <3> QED BY <3>1, OutboundDeliveryAssumption DEF ExposedOf, OutOf, MayBeOut, OutStates
  <2>2. /\ StageOf(d)' = "sending_unmarked" /\ ExposedOf(d)' = ExposedOf(d) \cup {n}
        /\ n \in AttemptNumbers \ ExposedOf(d)
    BY <1>3, <1>4, <1>5
  <2>3. Promise!SendUnmarked(d)
    BY <1>1, <1>2, <2>1, <2>2, OneMoves DEF Promise!SendUnmarked
  <2> QED BY <2>3
<1>6. CASE attempts'[d][n].kind # "original"
  <2>1. StageOf(d)' = "sending_marked" /\ ExposedOf(d)' = ExposedOf(d)
    BY <1>3, <1>4, <1>6
  <2>2. Promise!SendMarked(d)
    BY <1>1, <1>2, <2>1, OneMoves DEF Promise!SendMarked
  <2> QED BY <2>2
<1> QED BY <1>5, <1>6

\* A settlement ends the send, and takes its copy back only when the provider
\* definitely rejected it.
LEMMA SettleIsEnd ==
  ASSUME LedgerInv, NEW d \in Deliveries, NEW n \in AttemptNumbers,
         NEW landed \in Resolutions, Settles(d, n, landed)
  PROVE  Promise!Arrived(d) \/ Promise!Lost(d) \/ Promise!Refused(d)
<1>1. StageOf(d) = IF attempts[d][n].kind = "original"
                   THEN "sending_unmarked" ELSE "sending_marked"
  BY StagesAre DEF StageFacts, Settles
<1>2. \A e \in Deliveries \ {d} : StageOf(e)' = StageOf(e) /\ ExposedOf(e)' = ExposedOf(e)
  BY StageKept DEF Settles
<1>3. CASE landed = "accepted"
  <2>1. StageOf(d)' = "settled" /\ ExposedOf(d)' = ExposedOf(d)
    BY <1>3, StagesAre DEF StageFacts, ExposedOf, MayBeOut, Settles
  <2>2. Promise!Arrived(d)
    BY <1>1, <1>2, <2>1, OneMoves DEF Promise!Arrived, Promise!Sending
  <2> QED BY <2>2
<1>4. CASE landed = "acceptance_unknown"
  <2>1. StageOf(d)' \in {"ambiguous", "quarantined"} /\ ExposedOf(d)' = ExposedOf(d)
    BY <1>4, StagesAre DEF StageFacts, ExposedOf, MayBeOut, Settles
  <2>2. Promise!Lost(d)
    BY <1>1, <1>2, <2>1, OneMoves DEF Promise!Lost, Promise!Sending
  <2> QED BY <2>2
<1>5. CASE landed \in {"known_rejected_safe_retryable", "known_rejected_terminal"}
  <2>1. StageOf(d)' \in {"waiting", "settled"}
    BY <1>5, StagesAre DEF StageFacts, Settles
  <2>2. CASE attempts[d][n].kind = "original"
    <3>1. n \in ExposedOf(d) /\ ExposedOf(d)' = ExposedOf(d) \ {n}
      BY <1>5, <2>2 DEF ExposedOf, MayBeOut, Settles
    <3>2. Promise!Refused(d)
      BY <1>1, <1>2, <2>1, <2>2, <3>1, OneMoves DEF Promise!Refused
    <3> QED BY <3>2
  <2>3. CASE attempts[d][n].kind # "original"
    <3>1. ExposedOf(d)' = ExposedOf(d)
      BY <1>5, <2>3 DEF ExposedOf, MayBeOut, Settles
    <3>2. Promise!Refused(d)
      BY <1>1, <1>2, <2>1, <2>3, <3>1, OneMoves DEF Promise!Refused
    <3> QED BY <3>2
  <2> QED BY <2>2, <2>3
<1> QED BY <1>3, <1>4, <1>5 DEF Resolutions

\* Every step of the ledger is a step of the promise, or none.
LEMMA StepKeepsPromise ==
  LedgerInv /\ ExposureInv /\ PromiseInv /\ [Next]_vars => [Promise!Next]_(Promise!vars)
<1> SUFFICES ASSUME LedgerInv, ExposureInv, PromiseInv, [Next]_vars
             PROVE  [Promise!Next]_(Promise!vars)
  OBVIOUS
<1>1. ASSUME NEW w \in Workers, StartAttempt(w) PROVE Promise!Next
  <2>1. PICK d \in Deliveries, n \in AttemptNumbers : Starts(d, n)
    BY <1>1, StartFacts
  <2> QED BY <2>1, StartIsSend DEF Promise!Next
<1>2. ASSUME NEW w \in Workers, SettleAttempt(w) PROVE Promise!Next
  <2>1. PICK d \in Deliveries, n \in AttemptNumbers, landed \in Resolutions :
          Settles(d, n, landed)
    BY <1>2, SettleFacts
  <2> QED BY <2>1, SettleIsEnd DEF Promise!Next
<1>3. ASSUME NEW d \in Deliveries, Register(d) PROVE Promise!Next
  <2>1. \A e \in Deliveries \ {d} : StageOf(e)' = StageOf(e) /\ ExposedOf(e)' = ExposedOf(e)
    BY <1>3, RegisterFacts, StageKept
  <2>2. StageOf(d) = "absent" /\ StageOf(d)' = "waiting" /\ ExposedOf(d)' = ExposedOf(d)
    BY <1>3, RegisterFacts, StagesAre DEF StageFacts, ExposedOf, MayBeOut
  <2>3. Promise!Request(d)
    BY <2>1, <2>2, OneMoves DEF Promise!Request
  <2> QED BY <2>3 DEF Promise!Next
<1>4. ASSUME NEW d \in Deliveries, CorrectAddress(d) PROVE Promise!Next
  <2>1. \A e \in Deliveries \ {d} : StageOf(e)' = StageOf(e) /\ ExposedOf(e)' = ExposedOf(e)
    BY <1>4, CorrectFacts, StageKept
  <2>2. StageOf(d)' = "waiting" /\ ExposedOf(d)' = ExposedOf(d)
    BY <1>4, CorrectFacts, StagesAre DEF StageFacts, ExposedOf, MayBeOut
  <2>3. StageOf(d) \notin {"absent", "sending_unmarked", "sending_marked"}
    <3>1. head[d].state \in HeadStates \ {"unregistered", "request_started"}
      BY <1>4, CorrectFacts DEF LedgerInv, TypeOK, HeadRow
    <3> QED BY <3>1, StagesAre DEF StageFacts, HeadStates, Resolutions
  <2>4. Promise!Reopen(d)
    BY <2>1, <2>2, <2>3, OneMoves DEF Promise!Reopen, Promise!Sending
  <2> QED BY <2>4 DEF Promise!Next
<1>5. CASE Quiet
  <2>1. \A e \in Deliveries : StageOf(e)' = StageOf(e) /\ ExposedOf(e)' = ExposedOf(e)
    BY <1>5, StageKept DEF Quiet
  <2> QED BY <2>1 DEF Promise!vars
<1> QED BY <1>1, <1>2, <1>3, <1>4, <1>5, StepCases

\* The ledger, its workers, its crashes and its clock implement the promise:
\* whatever the claims, leases and late answers do, a message is sent unmarked
\* only while no unmarked copy can be out.
THEOREM LedgerKeepsPromise == Spec => KeepsPromise
<1>1. Init => Promise!Init
  <2> SUFFICES ASSUME Init PROVE Promise!Init
    OBVIOUS
  <2>1. \A d \in Deliveries : StageOf(d) = "absent" /\ ExposedOf(d) = {}
    BY StagesAre DEF Init, NewHead, NoAttempt, StageFacts, ExposedOf, MayBeOut
  <2> QED BY <2>1 DEF Promise!Init
<1>2. DeliveryInv /\ PromiseInv /\ [Next]_vars => [Promise!Next]_(Promise!vars)
  BY StepKeepsPromise DEF DeliveryInv
<1> QED BY <1>1, <1>2, PromiseInvAlways, PTL DEF Spec, KeepsPromise, Promise!Spec

\* The promise is worth keeping: whatever keeps it never has two unmarked
\* copies of one message out, since a send adds one only to none and nothing
\* else adds any.
THEOREM PromiseLimitsCopies == KeepsPromise => []Promise!OneUnmarkedCopy
<1>1. Promise!Init => Promise!OneUnmarkedCopy
  BY DEF Promise!Init, Promise!OneUnmarkedCopy
<1>2. Promise!OneUnmarkedCopy /\ [Promise!Next]_(Promise!vars) => Promise!OneUnmarkedCopy'
  <2> SUFFICES ASSUME Promise!OneUnmarkedCopy, [Promise!Next]_(Promise!vars)
               PROVE  Promise!OneUnmarkedCopy'
    OBVIOUS
  <2>1. CASE UNCHANGED [d \in Deliveries |-> ExposedOf(d)]
    BY <2>1 DEF Promise!OneUnmarkedCopy
  <2>2. ASSUME NEW d \in Deliveries, Promise!SendUnmarked(d)
        PROVE  Promise!OneUnmarkedCopy'
    BY <2>2 DEF Promise!SendUnmarked, Promise!OneUnmarkedCopy
  <2>3. ASSUME NEW d \in Deliveries, Promise!Refused(d)
        PROVE  Promise!OneUnmarkedCopy'
    <3>1. CASE UNCHANGED [e \in Deliveries |-> ExposedOf(e)]
      BY <3>1, <2>1
    <3>2. ASSUME NEW c \in ExposedOf(d),
                 [e \in Deliveries |-> ExposedOf(e)]' =
                   [[e \in Deliveries |-> ExposedOf(e)] EXCEPT ![d] = @ \ {c}]
          PROVE  \A e \in Deliveries : ExposedOf(e)' \subseteq ExposedOf(e)
      <4>1. ASSUME NEW e \in Deliveries
            PROVE  [x \in Deliveries |-> ExposedOf(x)]'[e] \subseteq ExposedOf(e)
        BY <3>2, <4>1
      <4> QED BY <4>1
    <3>3. ASSUME \A e \in Deliveries : ExposedOf(e)' \subseteq ExposedOf(e)
          PROVE  Promise!OneUnmarkedCopy'
      BY <3>3 DEF Promise!OneUnmarkedCopy
    <3> QED BY <2>3, <3>1, <3>2, <3>3 DEF Promise!Refused
  <2> QED
    BY <2>1, <2>2, <2>3
       DEF Promise!Next, Promise!vars, Promise!Request, Promise!SendMarked,
           Promise!Arrived, Promise!Lost, Promise!Reopen
<1> QED BY <1>1, <1>2, PTL DEF KeepsPromise, Promise!Spec
=============================================================================
