------------------------ MODULE AgentActionRunsProofs ------------------------
(***************************************************************************)
(* Proofs about agent action runs, for any number of steps and processes,  *)
(* serialized or not.                                                      *)
(***************************************************************************)
EXTENDS AgentActionRuns, TLAPS

\* Everything before a step a call has chosen has succeeded, and stays so.
ChosenInv ==
  \A w \in WorkerIds : call[w].phase \in {"rechecking", "executing"} =>
    /\ call[w].step \in Steps
    /\ \A t \in 1..call[w].step - 1 : steps[t] = "succeeded"

\* What the status of the batch says about its lease and its steps.
StatusInv ==
  /\ batch.owner # None => batch.status \in {"running", "cancel_requested"}
  /\ (\E s \in Steps : steps[s] = "cancelled") => batch.status = "cancelled"
  /\ batch.status = "cancelled" =>
       \A s \in Steps : steps[s] \in {"succeeded", "cancelled", "running"}
  /\ batch.status = "succeeded" => \A s \in Steps : steps[s] = "succeeded"
  /\ batch.status \in {"unsubmitted", "awaiting_approval", "rejected"} =>
       \A s \in Steps : steps[s] = "pending"

RunInv == RunTypeOK /\ LogAgreesWithSteps /\ OneStepOut /\ ChosenInv /\ StatusInv

-----------------------------------------------------------------------------

\* A batch with none of its work started satisfies the invariant.
LEMMA RunInvInit == Init => RunInv
<1> SUFFICES ASSUME Init PROVE RunInv
  OBVIOUS
<1> USE AgentActionRunsAssumption DEF Init, NewBatch, NoCall
<1>1. RunTypeOK
  BY DEF RunTypeOK, BatchRow, BatchStatuses, StepStatuses, CallState, Finished,
         Advanceable
<1>2. LogAgreesWithSteps /\ OneStepOut
  BY DEF LogAgreesWithSteps, OneStepOut
<1>3. ChosenInv /\ StatusInv
  BY DEF ChosenInv, StatusInv
<1> QED BY <1>1, <1>2, <1>3 DEF RunInv

\* What the actions write into the batch's row is a row.
LEMMA BatchRows ==
  ASSUME NEW b \in BatchRow
  PROVE  /\ \A st \in BatchStatuses :
              /\ [b EXCEPT !.status = st] \in BatchRow
              /\ [b EXCEPT !.status = st, !.cancel = TRUE] \in BatchRow
              /\ [Unleased(b) EXCEPT !.status = st] \in BatchRow
              /\ [Unleased(b) EXCEPT !.status = st, !.cancel = TRUE] \in BatchRow
         /\ \A w \in WorkerIds : LeaseTaken(b, w) \in BatchRow
<1>1. 0 \in 0..LeaseTicks /\ LeaseTicks \in 0..LeaseTicks
  BY AgentActionRunsAssumption
<1>2. "running" \in BatchStatuses
  BY DEF BatchStatuses, Advanceable
<1> QED BY <1>1, <1>2 DEF BatchRow, Unleased, LeaseTaken

\* What the actions write into the calls are calls.
LEMMA CallRows ==
  ASSUME call \in [WorkerIds -> CallState], NEW w \in WorkerIds
  PROVE  /\ EndCall(w) => call' \in [WorkerIds -> CallState]
         /\ \A phase \in {"executing", "committed"} :
              Continue(w, phase) => call' \in [WorkerIds -> CallState]
         /\ \A s \in Steps :
              call' = [call EXCEPT ![w].phase = "rechecking", ![w].step = s]
                => call' \in [WorkerIds -> CallState]
<1>1. 0 \in 0..StepCount /\ Steps \subseteq 0..StepCount
  BY AgentActionRunsAssumption DEF Steps
<1>2. NoCall \in CallState
  BY <1>1 DEF NoCall, CallState
<1>3. EndCall(w) => call' \in [WorkerIds -> CallState]
  BY <1>2 DEF EndCall
<1>4. ASSUME NEW phase \in {"executing", "committed"}, Continue(w, phase)
      PROVE  call' \in [WorkerIds -> CallState]
  <2>1. [call[w] EXCEPT !.phase = phase] \in CallState
    BY DEF CallState
  <2> QED BY <2>1, <1>4 DEF Continue
<1>5. ASSUME NEW s \in Steps,
             call' = [call EXCEPT ![w].phase = "rechecking", ![w].step = s]
      PROVE  call' \in [WorkerIds -> CallState]
  <2>1. [call[w] EXCEPT !.phase = "rechecking", !.step = s] \in CallState
    BY <1>1 DEF CallState
  <2> QED BY <2>1, <1>5
<1> QED BY <1>3, <1>4, <1>5

\* What the actions write into the steps are statuses of steps.
LEMMA StepRows ==
  ASSUME steps \in [Steps -> StepStatuses]
  PROVE  /\ CancelledRemainder \in [Steps -> StepStatuses]
         /\ \A s \in Steps, st \in {"needs_attention", "waiting_external"} :
              PauseStep(s, st) => steps' \in [Steps -> StepStatuses]
         /\ \A s \in Steps : [steps EXCEPT ![s] = "running"] \in [Steps -> StepStatuses]
         /\ \A s \in Steps : [steps EXCEPT ![s] = "succeeded"] \in [Steps -> StepStatuses]
BY DEF CancelledRemainder, PauseStep, StepStatuses

\* Every action keeps the types of the rows and of the calls.
LEMMA TypesKept == RunTypeOK /\ ChosenInv /\ [Next]_vars => RunTypeOK'
<1> SUFFICES ASSUME RunTypeOK, ChosenInv, [Next]_vars PROVE RunTypeOK'
  OBVIOUS
<1> USE AgentActionRunsAssumption DEF RunTypeOK
<1>st. /\ Finished \cup Advanceable \cup {"unsubmitted", "awaiting_approval", "paused"}
            \subseteq BatchStatuses
  BY DEF BatchStatuses
<1>ca. ASSUME NEW w \in WorkerIds
       PROVE  /\ EndCall(w) => call' \in [WorkerIds -> CallState]
              /\ Continue(w, "executing") => call' \in [WorkerIds -> CallState]
              /\ Continue(w, "committed") => call' \in [WorkerIds -> CallState]
  BY CallRows
<1>pa. ASSUME NEW s \in Steps, NEW st \in {"needs_attention", "waiting_external"},
              PauseStep(s, st)
       PROVE  batch' \in BatchRow /\ steps' \in [Steps -> StepStatuses]
  BY <1>pa, <1>st, BatchRows, StepRows DEF PauseStep, Finish
<1>1. CASE Submit
  BY <1>1, <1>st, BatchRows DEF Submit
<1>2. CASE Approve
  <2>1. ApprovalTicks \in 0..ApprovalTicks /\ "queued" \in BatchStatuses
    BY <1>st DEF Advanceable
  <2>2. [batch EXCEPT !.status = "queued", !.approval = ApprovalTicks] \in BatchRow
    BY <2>1 DEF BatchRow
  <2> QED BY <1>2, <2>2 DEF Approve
<1>3. CASE Reject
  BY <1>3, <1>st, BatchRows DEF Reject, Finished
<1>4. CASE RequestPause
  <2>1. [batch EXCEPT !.pause = TRUE] \in BatchRow
    BY DEF BatchRow
  <2> QED BY <1>4, <2>1 DEF RequestPause
<1>5. CASE RequestCancel
  <2>1. "cancelled" \in BatchStatuses /\ CancelStatus \in BatchStatuses
    BY <1>st DEF CancelStatus, Finished, Advanceable
  <2>2. batch' \in BatchRow
    BY <1>5, <2>1, BatchRows DEF RequestCancel
  <2>3. steps' \in [Steps -> StepStatuses]
    BY <1>5, StepRows DEF RequestCancel
  <2> QED BY <1>5, <2>2, <2>3 DEF RequestCancel
<1>6. CASE Resume
  <2>1. [batch EXCEPT !.status = "queued", !.pause = FALSE] \in BatchRow
    BY <1>st DEF BatchRow, Advanceable
  <2>2. steps' \in [Steps -> StepStatuses]
    BY <1>6 DEF Resume, StepStatuses
  <2> QED BY <1>6, <2>1, <2>2 DEF Resume
<1>7. ASSUME NEW s \in Steps, ReconcileExternal(s) PROVE RunTypeOK'
  BY <1>7 DEF ReconcileExternal, StepStatuses
<1>8. ASSUME NEW w \in WorkerIds, AcquireLease(w) PROVE RunTypeOK'
  <2>1. batch' \in BatchRow
    BY <1>8, BatchRows DEF AcquireLease
  <2>2. steps' \in [Steps -> StepStatuses]
    BY <1>8 DEF AcquireLease, StepStatuses
  <2>3. (batch'.pause \/ batch'.cancel) \in BOOLEAN /\ ApprovalExpired \in BOOLEAN
    BY <2>1 DEF BatchRow, ApprovalExpired
  <2>4. [phase |-> "leased", step |-> 0, stop |-> batch'.pause \/ batch'.cancel,
         expired |-> ApprovalExpired] \in CallState
    BY <2>3 DEF CallState
  <2>5. call' \in [WorkerIds -> CallState]
    BY <1>8, <2>4 DEF AcquireLease
  <2> QED BY <1>8, <2>1, <2>2, <2>5 DEF AcquireLease
<1>9. ASSUME NEW w \in WorkerIds, ParkExternalOrphan(w) PROVE RunTypeOK'
  BY <1>9, <1>pa DEF ParkExternalOrphan
<1>10. ASSUME NEW w \in WorkerIds, ChooseStep(w) PROVE RunTypeOK'
  BY <1>10, CallRows DEF ChooseStep
<1>11. ASSUME NEW w \in WorkerIds, PauseStaleStep(w) PROVE RunTypeOK'
  BY <1>11, <1>pa, <1>ca DEF PauseStaleStep
<1>12. ASSUME NEW w \in WorkerIds, PauseRefusedStep(w) PROVE RunTypeOK'
  BY <1>12, <1>pa, <1>ca DEF PauseRefusedStep, ChosenInv
<1>13. ASSUME NEW w \in WorkerIds, WaitForExternal(w) PROVE RunTypeOK'
  BY <1>13, <1>pa, <1>ca DEF WaitForExternal, ChosenInv
<1>14. ASSUME NEW w \in WorkerIds, MarkStepRunning(w) PROVE RunTypeOK'
  BY <1>14, <1>ca, StepRows DEF MarkStepRunning, ChosenInv
<1>15. ASSUME NEW w \in WorkerIds, CommitStep(w) PROVE RunTypeOK'
  BY <1>15, <1>ca, StepRows DEF CommitStep, ChosenInv
<1>16. ASSUME NEW w \in WorkerIds, SettleSafeBoundary(w) PROVE RunTypeOK'
  <2>0. {"cancelled", "paused", "succeeded"} \subseteq BatchStatuses
    BY <1>st DEF Finished
  <2>1. batch' \in BatchRow
    <3>1. \/ UNCHANGED batch
          \/ Finish("cancelled") \/ Finish("paused") \/ Finish("succeeded")
      BY <1>16 DEF SettleSafeBoundary
    <3>2. ASSUME NEW st \in BatchStatuses, Finish(st) PROVE batch' \in BatchRow
      BY <3>2, BatchRows DEF Finish
    <3> QED BY <2>0, <3>1, <3>2
  <2>2. steps' \in [Steps -> StepStatuses]
    BY <1>16, StepRows DEF SettleSafeBoundary
  <2> QED BY <1>16, <1>ca, <2>1, <2>2 DEF SettleSafeBoundary
<1>17. ASSUME NEW w \in WorkerIds, Throw(w) PROVE RunTypeOK'
  BY <1>17, <1>ca DEF Throw
<1>18. CASE Tick
  <2> DEFINE Less(n) == IF n > 0 THEN n - 1 ELSE 0
  <2>1. Less(batch.ttl) \in 0..LeaseTicks /\ Less(batch.approval) \in 0..ApprovalTicks
    BY DEF BatchRow
  <2>2. batch' = [batch EXCEPT !.ttl = Less(batch.ttl), !.approval = Less(batch.approval)]
    BY <1>18 DEF Tick, BatchRow
  <2> HIDE DEF Less
  <2>3. batch' \in BatchRow
    BY <2>1, <2>2 DEF BatchRow
  <2> QED BY <1>18, <2>3 DEF Tick
<1>19. ASSUME NEW v \in WorkerIds, NEW w \in WorkerIds, Restart(v, w) PROVE RunTypeOK'
  BY <1>19, <1>ca DEF Restart
<1>20. CASE UNCHANGED vars
  BY <1>20 DEF vars
<1> QED
  BY <1>1, <1>2, <1>3, <1>4, <1>5, <1>6, <1>7, <1>8, <1>9, <1>10, <1>11, <1>12,
     <1>13, <1>14, <1>15, <1>16, <1>17, <1>18, <1>19, <1>20
  DEF Next, Control, Acquire, AdvanceStep

\* Every action keeps the order of the steps and the log that goes with it.
LEMMA OrderKept ==
  RunInv /\ [Next]_vars => LogAgreesWithSteps' /\ OneStepOut' /\ ChosenInv'
<1> SUFFICES ASSUME RunInv, [Next]_vars
             PROVE  LogAgreesWithSteps' /\ OneStepOut' /\ ChosenInv'
  OBVIOUS
<1>8. ASSUME NEW w \in WorkerIds, AcquireLease(w)
      PROVE  LogAgreesWithSteps' /\ OneStepOut' /\ ChosenInv'
  <2>1. \A s \in Steps : \/ steps'[s] = steps[s]
                         \/ steps[s] = "running" /\ steps'[s] = "pending"
    BY <1>8 DEF RunInv, RunTypeOK, AcquireLease, IsOrphan
  <2>2. LogAgreesWithSteps' /\ OneStepOut'
    BY <1>8, <2>1, AgentActionRunsAssumption
    DEF RunInv, AcquireLease, LogAgreesWithSteps, OneStepOut, Steps
  <2>3. ASSUME NEW v \in WorkerIds, call'[v].phase \in {"rechecking", "executing"}
        PROVE  call'[v] = call[v]
    BY <1>8, <2>3 DEF RunInv, RunTypeOK, AcquireLease
  <2>4. ChosenInv'
    <3> SUFFICES ASSUME NEW v \in WorkerIds, call'[v].phase \in {"rechecking", "executing"}
                 PROVE  /\ call'[v].step \in Steps
                        /\ \A t \in 1..call'[v].step - 1 : steps'[t] = "succeeded"
      BY DEF ChosenInv
    <3>1. call'[v] = call[v]
      BY <2>3
    <3>2. /\ call[v].step \in Steps
          /\ \A t \in 1..call[v].step - 1 : steps[t] = "succeeded"
      BY <3>1 DEF RunInv, ChosenInv
    <3>3. 1..call[v].step - 1 \subseteq Steps
      BY <3>2, AgentActionRunsAssumption DEF Steps
    <3> QED BY <2>1, <3>1, <3>2, <3>3
  <2> QED BY <2>2, <2>4
<1>16. ASSUME NEW w \in WorkerIds, SettleSafeBoundary(w)
       PROVE  LogAgreesWithSteps' /\ OneStepOut' /\ ChosenInv'
  <2>1. \A s \in Steps : \/ steps'[s] = steps[s]
                         \/ steps[s] # "succeeded" /\ steps'[s] = "cancelled"
    <3>1. steps' = steps \/ steps' = CancelledRemainder
      BY <1>16 DEF SettleSafeBoundary
    <3> QED BY <3>1 DEF CancelledRemainder
  <2>2. LogAgreesWithSteps' /\ OneStepOut'
    BY <1>16, <2>1, AgentActionRunsAssumption
    DEF RunInv, SettleSafeBoundary, LogAgreesWithSteps, OneStepOut, Steps
  <2>3. ASSUME NEW v \in WorkerIds, call'[v].phase \in {"rechecking", "executing"}
        PROVE  call'[v] = call[v]
    BY <1>16, <2>3 DEF RunInv, RunTypeOK, SettleSafeBoundary, EndCall, NoCall
  <2>4. ChosenInv'
    <3> SUFFICES ASSUME NEW v \in WorkerIds, call'[v].phase \in {"rechecking", "executing"}
                 PROVE  /\ call'[v].step \in Steps
                        /\ \A t \in 1..call'[v].step - 1 : steps'[t] = "succeeded"
      BY DEF ChosenInv
    <3>1. call'[v] = call[v]
      BY <2>3
    <3>2. /\ call[v].step \in Steps
          /\ \A t \in 1..call[v].step - 1 : steps[t] = "succeeded"
      BY <3>1 DEF RunInv, ChosenInv
    <3>3. 1..call[v].step - 1 \subseteq Steps
      BY <3>2, AgentActionRunsAssumption DEF Steps
    <3> QED BY <2>1, <3>1, <3>2, <3>3
  <2> QED BY <2>2, <2>4
<1> USE AgentActionRunsAssumption
    DEF RunInv, RunTypeOK, LogAgreesWithSteps, OneStepOut, ChosenInv, StatusInv,
        BatchRow, BatchStatuses, StepStatuses, CallState, Finished, Advanceable, Holds, Steps
<1>1. CASE Submit
  BY <1>1 DEF Submit
<1>2. CASE Approve
  BY <1>2 DEF Approve
<1>3. CASE Reject
  BY <1>3 DEF Reject
<1>4. CASE RequestPause
  BY <1>4 DEF RequestPause
<1>5. CASE RequestCancel
  BY <1>5 DEF RequestCancel, CancelStatus, CancelledRemainder, Unleased, Advanceable
<1>6. CASE Resume
  BY <1>6 DEF Resume
<1>7. ASSUME NEW s \in Steps, ReconcileExternal(s)
        PROVE  LogAgreesWithSteps' /\ OneStepOut' /\ ChosenInv'
  BY <1>7 DEF ReconcileExternal
<1>9. ASSUME NEW w \in WorkerIds, ParkExternalOrphan(w)
        PROVE  LogAgreesWithSteps' /\ OneStepOut' /\ ChosenInv'
  BY <1>9 DEF ParkExternalOrphan, CanAcquire, PauseStep, Finish, Unleased, IsOrphan, Advanceable
<1>10. ASSUME NEW w \in WorkerIds, ChooseStep(w)
        PROVE  LogAgreesWithSteps' /\ OneStepOut' /\ ChosenInv'
  BY <1>10 DEF ChooseStep, IsNext
<1>11. ASSUME NEW w \in WorkerIds, PauseStaleStep(w)
        PROVE  LogAgreesWithSteps' /\ OneStepOut' /\ ChosenInv'
  BY <1>11 DEF PauseStaleStep, PauseStep, Finish, Unleased, EndCall, NoCall, IsNext
<1>12. ASSUME NEW w \in WorkerIds, PauseRefusedStep(w)
        PROVE  LogAgreesWithSteps' /\ OneStepOut' /\ ChosenInv'
  BY <1>12 DEF PauseRefusedStep, PauseStep, Finish, Unleased, EndCall, NoCall
<1>13. ASSUME NEW w \in WorkerIds, WaitForExternal(w)
        PROVE  LogAgreesWithSteps' /\ OneStepOut' /\ ChosenInv'
  BY <1>13 DEF WaitForExternal, PauseStep, Finish, Unleased, EndCall, NoCall
<1>14. ASSUME NEW w \in WorkerIds, MarkStepRunning(w)
        PROVE  LogAgreesWithSteps' /\ OneStepOut' /\ ChosenInv'
  BY <1>14 DEF MarkStepRunning, Startable, Continue
<1>15. ASSUME NEW w \in WorkerIds, CommitStep(w)
        PROVE  LogAgreesWithSteps' /\ OneStepOut' /\ ChosenInv'
  BY <1>15 DEF CommitStep, Continue, StopAsked
<1>17. ASSUME NEW w \in WorkerIds, Throw(w)
        PROVE  LogAgreesWithSteps' /\ OneStepOut' /\ ChosenInv'
  BY <1>17 DEF Throw, EndCall, NoCall
<1>18. CASE Tick
  BY <1>18 DEF Tick
<1>19. ASSUME NEW v \in WorkerIds, NEW w \in WorkerIds, Restart(v, w)
        PROVE  LogAgreesWithSteps' /\ OneStepOut' /\ ChosenInv'
  BY <1>19 DEF Restart, EndCall, NoCall
<1>20. CASE UNCHANGED vars
  BY <1>20 DEF vars
<1> QED
  BY <1>1, <1>2, <1>3, <1>4, <1>5, <1>6, <1>7, <1>8, <1>9, <1>10, <1>11, <1>12,
     <1>13, <1>14, <1>15, <1>16, <1>17, <1>18, <1>19, <1>20
  DEF Next, Control, Acquire, AdvanceStep

\* Every action keeps what the batch's status says.
LEMMA StatusKept == RunInv /\ [Next]_vars => StatusInv'
<1> SUFFICES ASSUME RunInv, [Next]_vars PROVE StatusInv'
  OBVIOUS
<1> USE AgentActionRunsAssumption
    DEF RunInv, RunTypeOK, StatusInv, BatchRow, BatchStatuses, StepStatuses, CallState, Finished, Advanceable, Holds
<1>1. CASE Submit
  BY <1>1 DEF Submit
<1>2. CASE Approve
  BY <1>2 DEF Approve
<1>3. CASE Reject
  BY <1>3 DEF Reject
<1>4. CASE RequestPause
  BY <1>4 DEF RequestPause
<1>5. CASE RequestCancel
  <2>1. CASE \E s \in Steps : steps[s] = "running"
    BY <1>5, <2>1 DEF RequestCancel, CancelStatus
  <2>2. CASE ~\E s \in Steps : steps[s] = "running"
    <3>1. batch'.status = "cancelled" /\ batch'.owner = None
      BY <1>5, <2>2 DEF RequestCancel, CancelStatus, Unleased
    <3>2. \A s \in Steps : steps'[s] \in {"succeeded", "cancelled"}
      BY <1>5, <2>2 DEF RequestCancel, CancelStatus, CancelledRemainder
    <3> QED BY <3>1, <3>2
  <2> QED BY <2>1, <2>2
<1>6. CASE Resume
  BY <1>6 DEF Resume
<1>7. ASSUME NEW s \in Steps, ReconcileExternal(s) PROVE StatusInv'
  BY <1>7 DEF ReconcileExternal
<1>8. ASSUME NEW w \in WorkerIds, AcquireLease(w) PROVE StatusInv'
  BY <1>8 DEF AcquireLease, CanAcquire, LeaseTaken, ApprovalExpired, Advanceable
<1>9. ASSUME NEW w \in WorkerIds, ParkExternalOrphan(w) PROVE StatusInv'
  BY <1>9 DEF ParkExternalOrphan, CanAcquire, PauseStep, Finish, Unleased, IsOrphan, Advanceable
<1>10. ASSUME NEW w \in WorkerIds, ChooseStep(w) PROVE StatusInv'
  BY <1>10 DEF ChooseStep, IsNext
<1>11. ASSUME NEW w \in WorkerIds, PauseStaleStep(w) PROVE StatusInv'
  BY <1>11 DEF PauseStaleStep, PauseStep, Finish, Unleased, EndCall, NoCall, IsNext
<1>12. ASSUME NEW w \in WorkerIds, PauseRefusedStep(w) PROVE StatusInv'
  BY <1>12 DEF PauseRefusedStep, PauseStep, Finish, Unleased, EndCall, NoCall
<1>13. ASSUME NEW w \in WorkerIds, WaitForExternal(w) PROVE StatusInv'
  BY <1>13 DEF WaitForExternal, PauseStep, Finish, Unleased, EndCall, NoCall
<1>14. ASSUME NEW w \in WorkerIds, MarkStepRunning(w) PROVE StatusInv'
  BY <1>14 DEF MarkStepRunning, Startable, Continue
<1>15. ASSUME NEW w \in WorkerIds, CommitStep(w) PROVE StatusInv'
  BY <1>15 DEF CommitStep, Continue, StopAsked
<1>16. ASSUME NEW w \in WorkerIds, SettleSafeBoundary(w) PROVE StatusInv'
  <2>1. batch.status \in {"running", "cancel_requested"}
    BY <1>16 DEF SettleSafeBoundary
  <2>2. CASE batch.cancel \/ batch.status = "cancel_requested"
    <3>1. batch'.status = "cancelled" /\ batch'.owner = None
      BY <1>16, <2>2 DEF SettleSafeBoundary, Finish, Unleased, StopAsked
    <3>2. \A s \in Steps : steps'[s] \in {"succeeded", "cancelled", "running"}
      BY <1>16, <2>2 DEF SettleSafeBoundary, CancelledRemainder, StopAsked
    <3> QED BY <3>1, <3>2
  <2>3. CASE ~(batch.cancel \/ batch.status = "cancel_requested")
    <3>1. UNCHANGED steps
      BY <1>16, <2>3 DEF SettleSafeBoundary
    <3>2. \/ UNCHANGED batch
          \/ batch'.status = "paused" /\ batch'.owner = None
          \/ /\ batch'.status = "succeeded" /\ batch'.owner = None
             /\ \A s \in Steps : steps[s] = "succeeded"
      BY <1>16, <2>3 DEF SettleSafeBoundary, Finish, Unleased
    <3> QED BY <2>1, <3>1, <3>2
  <2> QED BY <2>2, <2>3
<1>17. ASSUME NEW w \in WorkerIds, Throw(w) PROVE StatusInv'
  BY <1>17 DEF Throw, EndCall, NoCall
<1>18. CASE Tick
  BY <1>18 DEF Tick
<1>19. ASSUME NEW v \in WorkerIds, NEW w \in WorkerIds, Restart(v, w) PROVE StatusInv'
  BY <1>19 DEF Restart, EndCall, NoCall
<1>20. CASE UNCHANGED vars
  BY <1>20 DEF vars
<1> QED
  BY <1>1, <1>2, <1>3, <1>4, <1>5, <1>6, <1>7, <1>8, <1>9, <1>10, <1>11, <1>12,
     <1>13, <1>14, <1>15, <1>16, <1>17, <1>18, <1>19, <1>20
  DEF Next, Control, Acquire, AdvanceStep

-----------------------------------------------------------------------------

\* The invariant is inductive.
LEMMA RunInvHolds == Spec => []RunInv
<1>1. RunInv /\ [Next]_vars => RunInv'
  BY TypesKept, OrderKept, StatusKept DEF RunInv
<1> QED BY RunInvInit, <1>1, PTL DEF Spec

\* The rows and the calls always have their types: no path of an advance call
\* writes a status into a step or a batch that its table does not allow.
THEOREM RunTypeCorrectness == Spec => []RunTypeOK
<1>1. RunInv => RunTypeOK
  BY DEF RunInv
<1> QED BY RunInvHolds, <1>1, PTL

\* The operation log and the steps' statuses agree, whatever crashes, throws or
\* loses its lease between starting a step, committing it and settling.
THEOREM CompletedStaysCompleted == Spec => []LogAgreesWithSteps
<1>1. RunInv => LogAgreesWithSteps
  BY DEF RunInv
<1> QED BY RunInvHolds, <1>1, PTL

\* Steps run in order and one at a time, however calls of several processes
\* interleave with pauses, resumes and takeovers.
THEOREM StepsRunInOrder == Spec => []OneStepOut
<1>1. RunInv => OneStepOut
  BY DEF RunInv
<1> QED BY RunInvHolds, <1>1, PTL

\* A batch that was rejected, cancelled or completed is never touched again: it
\* has no owner, so every write of a late call is fenced off.
THEOREM FinishedIsFinal == Spec => TerminalIsFinal
<1> DEFINE Untouched == batch.status \in Finished =>
             batch'.status = batch.status /\ steps' = steps /\ log' = log
<1>1. RunInv /\ [Next]_vars => [Untouched]_vars
  <2> SUFFICES ASSUME RunInv, [Next]_vars, batch.status \in Finished
               PROVE  batch'.status = batch.status /\ steps' = steps /\ log' = log
    OBVIOUS
  <2> USE AgentActionRunsAssumption
  <2>1. \A w \in WorkerIds : ~Holds(w)
    BY DEF RunInv, StatusInv, Finished, Holds
  <2>2. \A s \in Steps : steps[s] # "waiting_external"
    BY DEF RunInv, StatusInv, Finished
  <2>3. batch.status \notin Advanceable \cup {"unsubmitted", "awaiting_approval", "paused"}
    BY DEF Finished, Advanceable
  <2>4. CASE Control
    BY <2>2, <2>3, <2>4 DEF Control, Submit, Approve, Reject, RequestPause,
       RequestCancel, Resume, ReconcileExternal, Advanceable
  <2>5. ASSUME NEW w \in WorkerIds, Acquire(w) \/ AdvanceStep(w)
        PROVE  UNCHANGED <<batch, steps, log>>
    BY <2>1, <2>3, <2>5 DEF Acquire, AcquireLease, ParkExternalOrphan, CanAcquire,
       AdvanceStep, ChooseStep, PauseStaleStep, PauseRefusedStep, WaitForExternal,
       MarkStepRunning, CommitStep, SettleSafeBoundary, Throw
  <2>6. CASE Tick
    BY <2>6 DEF Tick, RunInv, RunTypeOK, BatchRow
  <2>7. ASSUME NEW v \in WorkerIds, NEW w \in WorkerIds, Restart(v, w)
        PROVE  UNCHANGED <<batch, steps, log>>
    BY <2>7 DEF Restart
  <2> QED BY <2>4, <2>5, <2>6, <2>7 DEF Next, vars
<1> QED BY RunInvHolds, <1>1, PTL DEF Spec, TerminalIsFinal
-----------------------------------------------------------------------------
(* A run implements the promise of PlanPromise.                            *)

\* After the one step that may still be committed when a stop was asked for,
\* the call that holds the lease has no further step in hand.
StopInv ==
  /\ ~StopAsked => sinceStop = 0
  /\ batch.status \in {"unsubmitted", "awaiting_approval"} => ~StopAsked
  /\ StopAsked /\ sinceStop > 0 =>
       \A w \in WorkerIds : Holds(w) =>
         \/ call[w].phase \in {"idle", "committed"}
         \/ call[w].phase = "leased" /\ call[w].stop

\* Every action keeps the limit on what is done after a stop.
LEMMA StopKept == RunInv /\ StopInv /\ [Next]_vars => StopInv'
<1> SUFFICES ASSUME RunInv, StopInv, [Next]_vars PROVE StopInv'
  OBVIOUS
<1> USE AgentActionRunsAssumption
    DEF RunInv, RunTypeOK, StatusInv, StopInv, StopAsked, BatchRow, CallState,
        Advanceable, Holds
<1>1. CASE Submit
  BY <1>1 DEF Submit
<1>2. CASE Approve
  BY <1>2 DEF Approve
<1>3. CASE Reject
  BY <1>3 DEF Reject
<1>4. CASE RequestPause
  BY <1>4 DEF RequestPause
<1>5. CASE RequestCancel
  <2>1. UNCHANGED <<call, sinceStop>> /\ batch'.cancel /\ batch'.pause = batch.pause
    BY <1>5 DEF RequestCancel, Unleased
  <2>2. batch'.status \notin {"unsubmitted", "awaiting_approval"}
    BY <1>5 DEF RequestCancel, CancelStatus, Unleased
  <2>3. batch'.owner \in {batch.owner, None}
    BY <1>5 DEF RequestCancel, Unleased
  <2> QED BY <2>1, <2>2, <2>3
<1>6. CASE Resume
  BY <1>6 DEF Resume
<1>7. ASSUME NEW s \in Steps, ReconcileExternal(s) PROVE StopInv'
  BY <1>7 DEF ReconcileExternal
<1>8. ASSUME NEW w \in WorkerIds, AcquireLease(w) PROVE StopInv'
  BY <1>8 DEF AcquireLease, CanAcquire, LeaseTaken
<1>9. ASSUME NEW w \in WorkerIds, ParkExternalOrphan(w) PROVE StopInv'
  BY <1>9 DEF ParkExternalOrphan, PauseStep, Finish, Unleased
<1>10. ASSUME NEW w \in WorkerIds, ChooseStep(w) PROVE StopInv'
  BY <1>10 DEF ChooseStep
<1>11. ASSUME NEW w \in WorkerIds, PauseStaleStep(w) PROVE StopInv'
  BY <1>11 DEF PauseStaleStep, PauseStep, Finish, Unleased
<1>12. ASSUME NEW w \in WorkerIds, PauseRefusedStep(w) PROVE StopInv'
  BY <1>12 DEF PauseRefusedStep, PauseStep, Finish, Unleased
<1>13. ASSUME NEW w \in WorkerIds, WaitForExternal(w) PROVE StopInv'
  BY <1>13 DEF WaitForExternal, PauseStep, Finish, Unleased
<1>14. ASSUME NEW w \in WorkerIds, MarkStepRunning(w) PROVE StopInv'
  BY <1>14 DEF MarkStepRunning, Continue
<1>15. ASSUME NEW w \in WorkerIds, CommitStep(w) PROVE StopInv'
  BY <1>15 DEF CommitStep, Continue
<1>16. ASSUME NEW w \in WorkerIds, SettleSafeBoundary(w) PROVE StopInv'
  <2>1. UNCHANGED sinceStop /\ batch'.cancel = batch.cancel /\ batch'.pause = batch.pause
    BY <1>16 DEF SettleSafeBoundary, Finish, Unleased
  <2>2. batch'.status \notin {"unsubmitted", "awaiting_approval"}
    BY <1>16 DEF SettleSafeBoundary, Finish, Unleased
  <2>3. batch'.owner \in {batch.owner, None}
    BY <1>16 DEF SettleSafeBoundary, Finish, Unleased
  <2>4. \A v \in WorkerIds : call'[v] = call[v] \/ call'[v].phase = "idle"
    BY <1>16 DEF SettleSafeBoundary, EndCall, NoCall
  <2> QED BY <2>1, <2>2, <2>3, <2>4
<1>17. ASSUME NEW w \in WorkerIds, Throw(w) PROVE StopInv'
  BY <1>17 DEF Throw, EndCall, NoCall
<1>18. CASE Tick
  BY <1>18 DEF Tick
<1>19. ASSUME NEW v \in WorkerIds, NEW w \in WorkerIds, Restart(v, w) PROVE StopInv'
  BY <1>19 DEF Restart, EndCall, NoCall
<1>20. CASE UNCHANGED vars
  BY <1>20 DEF vars
<1> QED
  BY <1>1, <1>2, <1>3, <1>4, <1>5, <1>6, <1>7, <1>8, <1>9, <1>10, <1>11, <1>12,
     <1>13, <1>14, <1>15, <1>16, <1>17, <1>18, <1>19, <1>20
  DEF Next, Control, Acquire, AdvanceStep

\* Where the plan stands, by the batch's row.
StageFacts ==
  /\ batch.status \in {"unsubmitted", "awaiting_approval"} => StageOf = "proposed"
  /\ batch.status \in Finished => StageOf = "closed"
  /\ batch.status \in Advanceable \cup {"paused"} =>
       /\ ~StopAsked => StageOf = "open"
       /\ StopAsked /\ sinceStop = 0 => StageOf = "stopping"
       /\ StopAsked /\ sinceStop # 0 => StageOf = "held"

\* StageOf computes these stages, now and in the next state.
LEMMA StagesAre == StageFacts /\ StageFacts'
<1>1. StageFacts
  BY DEF StageFacts, StageOf, Finished, Advanceable
<1>2. StageFacts'
  BY DEF StageFacts, StageOf, Finished, Advanceable
<1> QED BY <1>1, <1>2

\* A committed step is the first that was not yet in the log.
LEMMA CommitsInOrder ==
  ASSUME RunInv, NEW w \in WorkerIds, CommitStep(w)
  PROVE  \E s \in 1..StepCount : log = 1..s - 1 /\ log' = 1..s
<1> DEFINE s == call[w].step
<1>1. s \in Steps /\ steps[s] = "running" /\ log' = log \cup {s}
  BY DEF CommitStep, RunInv, ChosenInv
<1>2. \A t \in 1..s - 1 : steps[t] = "succeeded"
  BY <1>1 DEF RunInv, OneStepOut
<1>3. \A t \in Steps : steps[t] = "succeeded" => t < s
  BY <1>1, AgentActionRunsAssumption DEF RunInv, OneStepOut, Steps
<1> HIDE DEF s
<1>4. log = 1..s - 1
  BY <1>1, <1>2, <1>3, AgentActionRunsAssumption DEF RunInv, LogAgreesWithSteps, Steps
<1> QED BY <1>1, <1>4, AgentActionRunsAssumption DEF Steps

\* Every step of a run is a step of the plan, or none.
LEMMA StepKeepsPromise ==
  RunInv /\ StopInv /\ [Next]_vars => [Promise!Next]_(Promise!vars)
<1> SUFFICES ASSUME RunInv, StopInv, [Next]_vars
             PROVE  \/ StageOf' = StageOf /\ log' = log
                    \/ Promise!Next
  BY DEF Promise!vars
<1> DEFINE Goal == (StageOf' = StageOf /\ log' = log) \/ Promise!Next
<1>stage. StageFacts /\ StageFacts'
  BY StagesAre
<1>same. ASSUME batch'.status = batch.status, UNCHANGED <<log, sinceStop>>,
                batch'.pause = batch.pause, batch'.cancel = batch.cancel
         PROVE  Goal
  BY <1>same DEF StageOf, StopAsked
<1>row. batch \in BatchRow /\ batch.status \in BatchStatuses
  BY DEF RunInv, RunTypeOK, BatchRow
<1>close. ASSUME batch.status \notin Finished, batch'.status \in Finished, UNCHANGED log
          PROVE  Goal
  <2>1. StageOf # "closed" /\ StageOf' = "closed"
    BY <1>close, <1>stage, <1>row
    DEF StageFacts, BatchStatuses, Finished, Advanceable
  <2> QED BY <2>1, <1>close DEF Promise!Next, Promise!Close
<1>stay. ASSUME batch.status \in Advanceable \cup {"paused"},
                batch'.status \in Advanceable \cup {"paused"},
                UNCHANGED <<log, sinceStop>>,
                batch'.pause = batch.pause, batch'.cancel = batch.cancel
         PROVE  Goal
  <2>1. StopAsked' = StopAsked
    BY <1>stay DEF StopAsked
  <2>2. StageOf' = StageOf
    BY <1>stay, <1>stage, <2>1 DEF StageFacts
  <2> QED BY <1>stay, <2>2
<1> SUFFICES Goal
  OBVIOUS
<1> HIDE DEF Goal
<1>held. ASSUME NEW w \in WorkerIds, Holds(w)
         PROVE  batch.status \in {"running", "cancel_requested"}
  BY <1>held, AgentActionRunsAssumption DEF RunInv, StatusInv, Holds
<1>pau. ASSUME batch.status \in Advanceable \cup {"paused"}, Finish("paused"),
               UNCHANGED <<log, sinceStop>>
        PROVE  Goal
  <2>1. batch'.status = "paused" /\ batch'.pause = batch.pause /\ batch'.cancel = batch.cancel
    BY <1>pau, <1>row DEF Finish, Unleased, BatchRow
  <2> QED BY <1>pau, <1>stay, <2>1
<1>1. CASE Submit
  BY <1>1, <1>stage, <1>row DEF Submit, StageFacts, Goal, BatchRow
<1>2. CASE Approve
  <2>1. ~StopAsked /\ ~StopAsked'
    BY <1>2, <1>row DEF Approve, StopInv, StopAsked, BatchRow
  <2>2. batch'.status = "queued" /\ UNCHANGED log
    BY <1>2, <1>row DEF Approve, BatchRow
  <2>3. StageOf = "proposed" /\ StageOf' = "open"
    BY <1>2, <1>stage, <2>1, <2>2 DEF Approve, StageFacts, Advanceable
  <2> QED BY <2>2, <2>3 DEF Goal, Promise!Next, Promise!Approve
<1>3. CASE Reject
  BY <1>3, <1>close, <1>row DEF Reject, Finished, BatchRow
<1>4. CASE RequestPause
  <2>1. batch'.status = batch.status /\ StopAsked' /\ UNCHANGED <<log, sinceStop>>
    BY <1>4, <1>row DEF RequestPause, StopAsked, BatchRow
  <2>2. CASE StopAsked
    BY <1>4, <1>stage, <2>1, <2>2 DEF RequestPause, StageFacts, Goal, Advanceable
  <2>3. CASE ~StopAsked
    <3>1. StageOf = "open" /\ StageOf' = "stopping"
      BY <1>4, <1>stage, <2>1, <2>3 DEF RequestPause, StageFacts, StopInv, Advanceable
    <3> QED BY <2>1, <3>1 DEF Goal, Promise!Next, Promise!AskToStop
  <2> QED BY <2>2, <2>3
<1>5. CASE RequestCancel
  <2>1. CASE ~\E s \in Steps : steps[s] = "running"
    <3>1. batch'.status = "cancelled" /\ batch.status \notin Finished /\ UNCHANGED log
      BY <1>5, <1>row, <2>1
      DEF RequestCancel, CancelStatus, Unleased, Finished, Advanceable, BatchRow
    <3> QED BY <1>close, <3>1 DEF Finished
  <2>2. CASE \E s \in Steps : steps[s] = "running"
    <3>1. /\ batch'.status = "cancel_requested" /\ batch'.cancel
          /\ UNCHANGED <<log, sinceStop>>
      BY <1>5, <1>row, <2>2 DEF RequestCancel, CancelStatus, BatchRow
    <3>2. batch.status \in Advanceable \cup {"paused"}
      BY <1>5, <2>2 DEF RequestCancel, RunInv, StatusInv, Advanceable
    <3>3. StageOf' = IF sinceStop = 0 THEN "stopping" ELSE "held"
      BY <1>stage, <3>1 DEF StageFacts, StopAsked, Advanceable
    <3>4. CASE StopAsked
      BY <1>stage, <3>1, <3>2, <3>3, <3>4 DEF StageFacts, Goal
    <3>5. CASE ~StopAsked
      <4>1. StageOf = "open" /\ sinceStop = 0
        BY <1>stage, <3>2, <3>5 DEF StageFacts, StopInv
      <4> QED BY <3>1, <3>3, <4>1 DEF Goal, Promise!Next, Promise!AskToStop
    <3> QED BY <3>4, <3>5
  <2> QED BY <2>1, <2>2
<1>6. CASE Resume
  <2>1. /\ batch.status = "paused" /\ batch'.status = "queued" /\ UNCHANGED log
        /\ batch'.cancel = batch.cancel /\ ~batch'.pause
    BY <1>6, <1>row DEF Resume, BatchRow
  <2>2. CASE batch.cancel
    BY <1>6, <1>stage, <2>1, <2>2 DEF Resume, StageFacts, StopAsked, Goal, Advanceable
  <2>3. CASE ~batch.cancel
    <3>1. StageOf' = "open"
      BY <1>stage, <2>1, <2>3 DEF StageFacts, StopAsked, Advanceable
    <3>2. StageOf \in {"open", "stopping", "held"}
      BY <1>stage, <2>1 DEF StageFacts
    <3> QED BY <2>1, <3>1, <3>2 DEF Goal, Promise!Next, Promise!Reopen
  <2> QED BY <2>2, <2>3
<1>7. ASSUME NEW s \in Steps, ReconcileExternal(s) PROVE Goal
  BY <1>7, <1>same DEF ReconcileExternal
<1>8. ASSUME NEW w \in WorkerIds, AcquireLease(w) PROVE Goal
  <2>1. /\ batch.status \in Advanceable /\ batch'.status \in Advanceable
        /\ batch'.pause = batch.pause /\ batch'.cancel = batch.cancel
        /\ UNCHANGED <<log, sinceStop>>
    BY <1>8, <1>row DEF AcquireLease, CanAcquire, LeaseTaken, Advanceable, BatchRow
  <2> QED BY <1>stay, <2>1
<1>9. ASSUME NEW w \in WorkerIds, ParkExternalOrphan(w) PROVE Goal
  BY <1>9, <1>pau DEF ParkExternalOrphan, CanAcquire, PauseStep
<1>10. ASSUME NEW w \in WorkerIds, ChooseStep(w) PROVE Goal
  BY <1>10, <1>same DEF ChooseStep
<1>11. ASSUME NEW w \in WorkerIds, PauseStaleStep(w) PROVE Goal
  BY <1>11, <1>pau, <1>held DEF PauseStaleStep, PauseStep, Advanceable
<1>12. ASSUME NEW w \in WorkerIds, PauseRefusedStep(w) PROVE Goal
  BY <1>12, <1>pau, <1>held DEF PauseRefusedStep, PauseStep, Advanceable
<1>13. ASSUME NEW w \in WorkerIds, WaitForExternal(w) PROVE Goal
  BY <1>13, <1>pau, <1>held DEF WaitForExternal, PauseStep, Advanceable
<1>14. ASSUME NEW w \in WorkerIds, MarkStepRunning(w) PROVE Goal
  BY <1>14, <1>same DEF MarkStepRunning
<1>15. ASSUME NEW w \in WorkerIds, CommitStep(w) PROVE Goal
  <2>1. \E s \in 1..StepCount : log = 1..s - 1 /\ log' = 1..s
    BY <1>15, CommitsInOrder
  <2>2. batch.status \in {"running", "cancel_requested"} /\ UNCHANGED batch
    BY <1>15, <1>held DEF CommitStep
  <2>3. StopAsked' = StopAsked
    BY <2>2 DEF StopAsked
  <2>4. sinceStop \in Nat /\ sinceStop = 0
    BY <1>15 DEF CommitStep, RunInv, RunTypeOK, StopInv
  <2>5. CASE StopAsked
    <3>1. StageOf = "stopping" /\ StageOf' = "held"
      BY <1>15, <1>stage, <2>2, <2>3, <2>4, <2>5 DEF CommitStep, StageFacts, Advanceable
    <3> QED BY <2>1, <3>1 DEF Goal, Promise!Next, Promise!Apply
  <2>6. CASE ~StopAsked
    <3>1. StageOf = "open" /\ StageOf' = "open"
      BY <1>stage, <2>2, <2>3, <2>6 DEF StageFacts, Advanceable
    <3> QED BY <2>1, <3>1 DEF Goal, Promise!Next, Promise!Apply
  <2> QED BY <2>5, <2>6
<1>16. ASSUME NEW w \in WorkerIds, SettleSafeBoundary(w) PROVE Goal
  <2>1. batch.status \in {"running", "cancel_requested"} /\ UNCHANGED <<log, sinceStop>>
    BY <1>16, <1>held DEF SettleSafeBoundary
  <2>2. UNCHANGED batch \/ Finish("cancelled") \/ Finish("paused") \/ Finish("succeeded")
    BY <1>16 DEF SettleSafeBoundary
  <2>3. CASE UNCHANGED batch
    BY <1>same, <2>1, <2>3
  <2>4. CASE Finish("paused")
    BY <1>pau, <2>1, <2>4 DEF Advanceable
  <2>5. ASSUME NEW st \in {"cancelled", "succeeded"}, Finish(st) PROVE Goal
    <3>1. batch'.status = st
      BY <1>row, <2>5 DEF Finish, Unleased, BatchRow
    <3> QED BY <1>close, <2>1, <3>1 DEF Finished
  <2> QED BY <2>2, <2>3, <2>4, <2>5
<1>17. ASSUME NEW w \in WorkerIds, Throw(w) PROVE Goal
  BY <1>17, <1>same DEF Throw
<1>18. CASE Tick
  BY <1>18, <1>same, <1>row DEF Tick, BatchRow
<1>19. ASSUME NEW v \in WorkerIds, NEW w \in WorkerIds, Restart(v, w) PROVE Goal
  BY <1>19, <1>same DEF Restart
<1>20. CASE UNCHANGED vars
  BY <1>20, <1>same DEF vars
<1> QED
  BY <1>1, <1>2, <1>3, <1>4, <1>5, <1>6, <1>7, <1>8, <1>9, <1>10, <1>11, <1>12,
     <1>13, <1>14, <1>15, <1>16, <1>17, <1>18, <1>19, <1>20
  DEF Next, Control, Acquire, AdvanceStep

\* A run applies its plan as approved: in order, each step once, nothing before
\* the approval or after the end, and at most one step after a stop is asked
\* for, however calls, crashes and controls interleave.
THEOREM RunsKeepThePlan == Spec => KeepsPlanPromise
<1>1. Init => Promise!Init
  BY StagesAre DEF Init, NewBatch, StageFacts, Promise!Init
<1>2. Init => StopInv
  BY DEF Init, NewBatch, StopInv, StopAsked
<1> QED
  BY <1>1, <1>2, RunInvHolds, StopKept, StepKeepsPromise, PTL
  DEF Spec, KeepsPlanPromise, Promise!Spec

=============================================================================
