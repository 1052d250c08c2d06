----------------------- MODULE OutboundDispatchProofs -----------------------
(***************************************************************************)
(* Theorems about the dispatch loop, for any passes, callers and order of  *)
(* the queue.  The loop only ever does to the ledger what the ledger's own *)
(* specification allows, so what is proved of the ledger holds of the loop *)
(* whoever calls the worker.                                               *)
(***************************************************************************)
EXTENDS OutboundDispatch, OutboundPromiseProofs

\* A worker call that is granted its claim claims; any other changes nothing.
LEMMA DispatchIsClaim ==
  ASSUME NEW w \in Workers, NEW d \in Deliveries, Dispatch(w, d)
  PROVE  Claim(w, d) \/ UNCHANGED vars
BY DEF Dispatch

\* What a step of the loop does to the ledger, and to the deliveries a pass
\* and the kicks still have before them.
LEMMA LoopStepsAreLedgerSteps ==
  [DispatchLoopNext]_dispatchVars => [Next]_vars
<1> SUFFICES ASSUME [DispatchLoopNext]_dispatchVars PROVE [Next]_vars
  OBVIOUS
<1>0. Passes \subseteq Workers /\ Callers \subseteq Workers
  BY OutboundDispatchAssumption
<1>1. CASE UNCHANGED dispatchVars
  BY <1>1 DEF dispatchVars
<1>2. ASSUME NEW d \in Deliveries, RegisterAndKick(d) PROVE Next
  BY <1>2 DEF RegisterAndKick, Next
<1>3. ASSUME NEW p \in Passes, ReadClaimable(p) PROVE UNCHANGED vars
  BY <1>3 DEF ReadClaimable
<1>4. ASSUME NEW p \in Passes, DispatchNext(p) PROVE [Next]_vars
  BY <1>0, <1>4, DispatchIsClaim DEF DispatchNext, Next
<1>5. ASSUME NEW w \in Callers, NEW d \in Deliveries, Kick(w, d) PROVE [Next]_vars
  BY <1>0, <1>5, DispatchIsClaim DEF Kick, Next
<1>6. ASSUME NEW w \in Workers, Start(w) \/ Settle(w) \/ Proceed(w) \/ CrashCall(w)
      PROVE  Next
  BY <1>6 DEF Start, Settle, Proceed, CrashCall, Next, WorkerStep
<1>7. CASE Surroundings
  BY <1>7 DEF Surroundings, Next
<1> QED
  BY <1>1, <1>2, <1>3, <1>4, <1>5, <1>6, <1>7 DEF DispatchLoopNext

\* Sweeps, kicks and deliberate retries, in any number and order, leave the
\* ledger the ledger: every theorem about it holds under the loop.
THEOREM LoopImplementsLedger == DispatchSpec => Spec
<1>1. DispatchInit => Init
  BY DEF DispatchInit
<1> QED BY <1>1, LoopStepsAreLedgerSteps, PTL DEF DispatchSpec, Spec

\* The queue of every pass and the pending kicks name deliveries.
QueueInv ==
  /\ queue \in [Passes -> SUBSET Deliveries]
  /\ fresh \subseteq Deliveries

LEMMA QueueInvNext == QueueInv /\ [DispatchLoopNext]_dispatchVars => QueueInv'
<1> SUFFICES ASSUME QueueInv, [DispatchLoopNext]_dispatchVars PROVE QueueInv'
  OBVIOUS
<1> USE DEF QueueInv
<1>1. CASE UNCHANGED <<queue, fresh>>
  BY <1>1
<1>2. ASSUME NEW d \in Deliveries, RegisterAndKick(d) PROVE QueueInv'
  BY <1>2 DEF RegisterAndKick
<1>3. ASSUME NEW p \in Passes, ReadClaimable(p) PROVE QueueInv'
  BY <1>3 DEF ReadClaimable
<1>4. ASSUME NEW p \in Passes, DispatchNext(p) PROVE QueueInv'
  BY <1>4 DEF DispatchNext
<1>5. ASSUME NEW w \in Callers, NEW d \in Deliveries, Kick(w, d) PROVE QueueInv'
  BY <1>5 DEF Kick
<1>6. ASSUME NEW w \in Workers, CrashCall(w) PROVE QueueInv'
  BY <1>6 DEF CrashCall
<1> QED
  BY <1>1, <1>2, <1>3, <1>4, <1>5, <1>6
     DEF DispatchLoopNext, dispatchVars, Start, Settle, Proceed, Surroundings

\* The loop keeps its types, and so does the ledger under it.
THEOREM LoopIsTyped == DispatchSpec => []DispatchTypeOK
<1>1. DispatchInit => QueueInv
  BY DEF DispatchInit, QueueInv
<1>2. DispatchSpec => []QueueInv
  BY <1>1, QueueInvNext, PTL DEF DispatchSpec
<1>3. TypeOK /\ QueueInv => DispatchTypeOK
  BY DEF DispatchTypeOK, QueueInv
<1> QED BY <1>2, <1>3, LoopImplementsLedger, TypeCorrectness, PTL

\* A call comes to recover an attempt only by claiming its delivery.
LEMMA RecoveryIsClaim ==
  ASSUME LedgerInv, [Next]_vars, NEW w \in Workers,
         worker[w].phase # "recovering", worker'[w].phase = "recovering"
  PROVE  \E d \in Deliveries :
           Claim(w, d) /\ worker'[w].delivery = d
<1> USE DEF LedgerInv
<1>1. ASSUME NEW v \in Workers, NEW d \in Deliveries, Claim(v, d)
      PROVE  v = w /\ worker'[w].delivery = d
  <2>1. v = w
    BY <1>1 DEF Claim, TypeOK
  <2>2. worker'[w].delivery = d
    BY <1>1, <2>1 DEF Claim, TypeOK, IdleWorker
  <2> QED BY <2>1, <2>2
<1>2. ASSUME NEW v \in Workers, WorkerStep(v) PROVE FALSE
  <2>1. CASE Idle(v)
    BY <2>1 DEF Idle, IdleWorker, TypeOK
  <2>2. CASE StartAttempt(v)
    BY <2>2 DEF StartAttempt, TypeOK, WorkerState
  <2>3. CASE \E answer \in Answers : ProviderAnswers(v, answer)
    BY <2>3 DEF ProviderAnswers, TypeOK, WorkerState
  <2> QED
    BY <1>2, <2>1, <2>2, <2>3
       DEF WorkerStep, PrepareFails, LoseClaim, SettleAttempt, KeepFencedAnswer,
           CompletionAborts, Crash
<1>3. ~Tick
  BY DEF Tick, TypeOK, WorkerState
<1>4. ~UNCHANGED worker
  OBVIOUS
<1> QED
  BY <1>1, <1>2, <1>3, <1>4
     DEF Next, vars, Register, ObserveBounce, SuppressedElsewhere, CorrectAddress

\* Recovery takes only abandoned attempts: a claim needs a lapsed lease, and a
\* request of ordinary length still has its own.
THEOREM RecoveryWaitsForOwners == DispatchSpec => RecoversOnlyAbandonedAttempts
<1>1. ASSUME LedgerInv, OrdinarySendKeepsLease, [DispatchLoopNext]_dispatchVars,
             NEW w \in Workers,
             worker[w].phase # "recovering", worker'[w].phase = "recovering",
             NEW v \in Workers,
             worker[v].phase = "submitting",
             worker[v].delivery = worker'[w].delivery,
             worker[v].elapsed <= BudgetTicks
      PROVE  FALSE
  <2>1. PICK d \in Deliveries : Claim(w, d) /\ worker'[w].delivery = d
    BY <1>1, LoopStepsAreLedgerSteps, RecoveryIsClaim
  <2>2. head[d].ttl = 0
    BY <2>1 DEF Claim, Claimable
  <2>3. head[d].ttl > 0
    BY <1>1, <2>1 DEF OrdinarySendKeepsLease
  <2> QED BY <2>2, <2>3
<1>2. LedgerInv /\ OrdinarySendKeepsLease /\ [DispatchLoopNext]_dispatchVars
        => [\A w \in Workers :
              worker[w].phase # "recovering" /\ worker'[w].phase = "recovering"
              => ~\E v \in Workers :
                    /\ worker[v].phase = "submitting"
                    /\ worker[v].delivery = worker'[w].delivery
                    /\ worker[v].elapsed <= BudgetTicks]_dispatchVars
  BY <1>1
<1> QED
  BY <1>2, LoopImplementsLedger, LedgerInvAlways, LeaseCoversOrdinarySend, PTL
     DEF DispatchSpec, RecoversOnlyAbandonedAttempts

\* Under any sweeps, kicks, deliberate retries and deaths a message is sent
\* unmarked only while no unmarked copy can be out.
THEOREM LoopKeepsPromise == DispatchSpec => KeepsPromise
BY LoopImplementsLedger, LedgerKeepsPromise
=============================================================================
