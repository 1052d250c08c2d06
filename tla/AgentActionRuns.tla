--------------------------- MODULE AgentActionRuns ---------------------------
(***************************************************************************)
(* The run of one approved agent action batch: its rows, the advance calls *)
(* of the processes that drive it, and the people who control it.  Every   *)
(* repository method is one transaction, hence one action; an advance call *)
(* awaits between them, and its process may die or its executor throw.     *)
(*                                                                         *)
(* Left out: the batch version (a control sent with a stale version is     *)
(* refused and changes nothing), lease_version (a process has one advance  *)
(* call at a time, so the owner names the call), current_ordinal and       *)
(* attempt_count (reported, never read).  The plan's own expiry is never   *)
(* before the approval's.                                                  *)
(*                                                                         *)
(* A definition whose name ends in Slip is a deliberate mistake in the one *)
(* that follows it; no specification uses it.                              *)
(***************************************************************************)
EXTENDS Integers

CONSTANTS
  StepCount,      \* the steps of the batch are 1..StepCount
  External,       \* the steps whose effect is outside the database
  WorkerIds,      \* actionWorkerId values, one per process ever started
  Processes,      \* the processes running at the start
  Serialized,     \* all work goes through one process's request lane
  None,           \* SQL NULL
  LeaseTicks,     \* leaseDurationMs, in clock ticks
  ApprovalTicks   \* the approval's lifetime, in clock ticks

Steps == 1..StepCount

ASSUME AgentActionRunsAssumption ==
  /\ StepCount \in Nat \ {0} /\ External \subseteq Steps
  /\ Processes \subseteq WorkerIds /\ None \notin WorkerIds
  /\ Serialized \in BOOLEAN
  /\ LeaseTicks \in Nat \ {0} /\ ApprovalTicks \in Nat \ {0}

VARIABLES
  batch,     \* agent_action_batches: the batch's row
  steps,     \* agent_action_steps: the status of each step
  log,       \* operation_log: steps whose change is committed
  call,      \* the advance call of each process
  alive,     \* the processes that run
  started,   \* the processes that ever ran
  sinceStop  \* steps committed since a stop was asked for (history)

vars == <<batch, steps, log, call, alive, started, sinceStop>>

-----------------------------------------------------------------------------

Finished == {"rejected", "cancelled", "succeeded"}
Advanceable == {"queued", "running", "cancel_requested"}
BatchStatuses == Finished \cup Advanceable \cup
                 {"unsubmitted", "awaiting_approval", "paused"}
StepStatuses == {"pending", "running", "waiting_external", "needs_attention",
                 "cancelled", "succeeded"}

BatchRow == [status: BatchStatuses, pause: BOOLEAN, cancel: BOOLEAN,
             owner: WorkerIds \cup {None}, ttl: 0..LeaseTicks,
             approval: 0..ApprovalTicks]

\* stop and expired are read when the lease is acquired and used after it.
CallState == [phase: {"idle", "leased", "rechecking", "executing", "committed"},
              step: 0..StepCount, stop: BOOLEAN, expired: BOOLEAN]

NewBatch == [status |-> "unsubmitted", pause |-> FALSE, cancel |-> FALSE,
             owner |-> None, ttl |-> 0, approval |-> 0]
NoCall == [phase |-> "idle", step |-> 0, stop |-> FALSE, expired |-> FALSE]

RunTypeOK ==
  /\ batch \in BatchRow
  /\ steps \in [Steps -> StepStatuses]
  /\ log \subseteq Steps
  /\ call \in [WorkerIds -> CallState]
  /\ alive \subseteq started /\ started \subseteq WorkerIds
  /\ sinceStop \in Nat

Init ==
  /\ batch = NewBatch
  /\ steps = [s \in Steps |-> "pending"]
  /\ log = {}
  /\ call = [w \in WorkerIds |-> NoCall]
  /\ alive = Processes /\ started = Processes
  /\ sinceStop = 0

-----------------------------------------------------------------------------
(* Rows.                                                                   *)

Unleased(b) == [b EXCEPT !.owner = None, !.ttl = 0]
Finish(status) == batch' = [Unleased(batch) EXCEPT !.status = status]

\* Mistake for LogAgreesWithSteps: the whole plan is cancelled.
CancelledRemainderSlip == [s \in Steps |-> "cancelled"]

\* Cancelling takes the steps that are not under way and not completed.
CancelledRemainder ==
  [s \in Steps |-> IF steps[s] \in {"pending", "needs_attention", "waiting_external"}
                   THEN "cancelled" ELSE steps[s]]

\* Mistake for RunTypeOK: the step is given the batch's status.
PauseStepSlip(s, status) ==
  /\ steps' = [steps EXCEPT ![s] = "paused"]
  /\ Finish("paused")

\* pauseStep: the step says what it waits for, the batch stops, the lease goes.
PauseStep(s, status) ==
  /\ steps' = [steps EXCEPT ![s] =
       IF @ \in {"succeeded", "cancelled"} THEN @ ELSE status]
  /\ Finish("paused")

EndCall(w) == call' = [call EXCEPT ![w] = NoCall]
Continue(w, phase) == call' = [call EXCEPT ![w].phase = phase]

\* Mistake for TerminalIsFinal: the writes of a call are not fenced.
HoldsSlip(w) == TRUE

\* assertLease: the row's lease is the one this call acquired, lapsed or not.
Holds(w) == batch.owner = w

\* One request or job at a time in the process's lane.
LaneFree == Serialized => \A w \in WorkerIds : call[w].phase = "idle"

Lapsed == batch.owner = None \/ batch.ttl = 0

\* The first step found running, whoever started it.
IsOrphan(s) == /\ steps[s] = "running"
               /\ \A t \in Steps : steps[t] = "running" => s <= t

\* Mistake for OneStepOut: a step that needs attention is passed over.
IsNextSlip(s) == /\ steps[s] = "pending"
                 /\ \A t \in Steps : steps[t] = "pending" => s <= t

\* nextStep: the first step neither succeeded nor cancelled.
IsNext(s) ==
  /\ steps[s] \notin {"succeeded", "cancelled"}
  /\ \A t \in Steps : steps[t] \notin {"succeeded", "cancelled"} => s <= t

-----------------------------------------------------------------------------
(* The people: the agent that submits, the organizer who controls.         *)

Submit ==
  /\ batch.status = "unsubmitted" /\ LaneFree
  /\ batch' = [batch EXCEPT !.status = "awaiting_approval"]
  /\ UNCHANGED <<steps, log, call, alive, started, sinceStop>>

Approve ==
  /\ batch.status = "awaiting_approval" /\ LaneFree
  /\ batch' = [batch EXCEPT !.status = "queued", !.approval = ApprovalTicks]
  /\ UNCHANGED <<steps, log, call, alive, started, sinceStop>>

Reject ==
  /\ batch.status = "awaiting_approval" /\ LaneFree
  /\ batch' = [batch EXCEPT !.status = "rejected"]
  /\ UNCHANGED <<steps, log, call, alive, started, sinceStop>>

RequestPause ==
  /\ batch.status \in {"queued", "running"} /\ LaneFree
  /\ batch' = [batch EXCEPT !.pause = TRUE]
  /\ UNCHANGED <<steps, log, call, alive, started, sinceStop>>

\* Mistake for CancelTakesEffect: a step under way makes the cancel a pause.
CancelStatusSlip == IF \E s \in Steps : steps[s] = "running"
                    THEN "paused" ELSE "cancelled"

CancelStatus == IF \E s \in Steps : steps[s] = "running"
                THEN "cancel_requested" ELSE "cancelled"

\* With a step running the batch is cancelled at the next safe boundary.
RequestCancel ==
  /\ batch.status \in Advanceable \cup {"awaiting_approval", "paused"}
  /\ LaneFree
  /\ IF CancelStatus = "cancelled"
     THEN /\ steps' = CancelledRemainder
          /\ batch' = [Unleased(batch) EXCEPT !.status = "cancelled", !.cancel = TRUE]
     ELSE /\ batch' = [batch EXCEPT !.status = CancelStatus, !.cancel = TRUE]
          /\ UNCHANGED steps
  /\ UNCHANGED <<log, call, alive, started, sinceStop>>

\* cancel_requested survives a resume: the next advance cancels.
Resume ==
  /\ batch.status = "paused" /\ LaneFree
  /\ \A s \in Steps : steps[s] # "waiting_external"
  /\ steps' = [s \in Steps |->
       IF steps[s] = "needs_attention" THEN "pending" ELSE steps[s]]
  /\ batch' = [batch EXCEPT !.status = "queued", !.pause = FALSE]
  /\ sinceStop' = IF batch.cancel THEN sinceStop ELSE 0
  /\ UNCHANGED <<log, call, alive, started>>

\* reconcileExternal with safeRetry; without it nothing the runner reads changes.
ReconcileExternal(s) ==
  /\ steps[s] = "waiting_external" /\ LaneFree
  /\ steps' = [steps EXCEPT ![s] = "needs_attention"]
  /\ UNCHANGED <<batch, log, call, alive, started, sinceStop>>

-----------------------------------------------------------------------------
(* An advance call.                                                        *)

\* Mistake for KeepsPlanPromise: taking the lease forgets a pause request.
LeaseTakenSlip(b, w) ==
  [b EXCEPT !.owner = w, !.ttl = LeaseTicks, !.pause = FALSE,
            !.status = IF b.status = "queued" THEN "running" ELSE b.status]

LeaseTaken(b, w) ==
  [b EXCEPT !.owner = w, !.ttl = LeaseTicks,
            !.status = IF b.status = "queued" THEN "running" ELSE b.status]

\* Mistake for EveryRunStops: the approval is taken to last for ever.
ApprovalExpiredSlip == FALSE

ApprovalExpired == batch.approval = 0

CanAcquire(w) ==
  /\ w \in alive /\ call[w].phase = "idle" /\ LaneFree
  /\ batch.status \in Advanceable
  /\ Lapsed \/ batch.owner = w

\* acquireLease, and the view advance reads right after it.  A step left
\* running under a lapsed lease is put back; under one's own live lease not.
AcquireLease(w) ==
  /\ CanAcquire(w)
  /\ ~\E s \in External : IsOrphan(s) /\ Lapsed
  /\ steps' = [s \in Steps |->
       IF IsOrphan(s) /\ Lapsed THEN "pending" ELSE steps[s]]
  /\ batch' = LeaseTaken(batch, w)
  /\ call' = [call EXCEPT ![w] =
       [phase |-> "leased", step |-> 0, stop |-> batch'.pause \/ batch'.cancel,
        expired |-> ApprovalExpired]]
  /\ UNCHANGED <<log, alive, started, sinceStop>>

\* acquireLease on an abandoned external step: nobody knows what happened
\* outside, so the batch waits for a person and no lease is given.
ParkExternalOrphan(w) ==
  /\ CanAcquire(w) /\ Lapsed
  /\ \E s \in External : IsOrphan(s) /\ PauseStep(s, "waiting_external")
  /\ UNCHANGED <<log, call, alive, started, sinceStop>>

\* nextStep and the checks that need no await.
ChooseStep(w) ==
  /\ call[w].phase = "leased" /\ ~call[w].stop /\ ~call[w].expired
  /\ Holds(w)
  /\ \E s \in Steps : IsNext(s) /\
       call' = [call EXCEPT ![w].phase = "rechecking", ![w].step = s]
  /\ UNCHANGED <<batch, steps, log, alive, started, sinceStop>>

\* The approval expired, or the operation or its contract changed meanwhile.
PauseStaleStep(w) ==
  /\ call[w].phase = "leased" /\ ~call[w].stop /\ Holds(w)
  /\ \E s \in Steps : IsNext(s) /\ PauseStep(s, "needs_attention")
  /\ EndCall(w)
  /\ UNCHANGED <<log, alive, started, sinceStop>>

\* The approver's authority is gone, or the executor answers a refusal.
PauseRefusedStep(w) ==
  /\ call[w].phase \in {"rechecking", "executing"} /\ Holds(w)
  /\ PauseStep(call[w].step, "needs_attention")
  /\ EndCall(w)
  /\ UNCHANGED <<log, alive, started, sinceStop>>

\* The executor answers that an outside effect is still open.
WaitForExternal(w) ==
  /\ call[w].phase = "executing" /\ Holds(w)
  /\ call[w].step \in External
  /\ PauseStep(call[w].step, "waiting_external")
  /\ EndCall(w)
  /\ UNCHANGED <<log, alive, started, sinceStop>>

Startable(s) == steps[s] \in {"pending", "needs_attention"}

MarkStepRunning(w) ==
  /\ call[w].phase = "rechecking" /\ Holds(w)
  /\ Startable(call[w].step)
  /\ steps' = [steps EXCEPT ![call[w].step] = "running"]
  /\ Continue(w, "executing")
  /\ UNCHANGED <<batch, log, alive, started, sinceStop>>

\* A stop the organizer asked for and has not taken back by resuming.
StopAsked == batch.pause \/ batch.cancel

\* The unit of work: domain rows, operation log and the step's success commit
\* together, unless the lease is gone, the step is not running, or the
\* operation already has its receipt.
CommitStep(w) ==
  LET s == call[w].step
  IN /\ call[w].phase = "executing" /\ Holds(w)
     /\ steps[s] = "running" /\ s \notin log
     /\ steps' = [steps EXCEPT ![s] = "succeeded"]
     /\ log' = log \cup {s}
     /\ Continue(w, "committed")
     /\ sinceStop' = IF StopAsked THEN sinceStop + 1 ELSE sinceStop
     /\ UNCHANGED <<batch, alive, started>>

\* Where advance settles: after its step, or with nothing to start.
AtBoundary(w) ==
  \/ call[w].phase = "committed"
  \/ /\ call[w].phase = "leased"
     /\ call[w].stop \/ ~\E s \in Steps : IsNext(s)

\* settleSafeBoundary.  A batch with steps left keeps its lease.
SettleSafeBoundary(w) ==
  /\ AtBoundary(w) /\ Holds(w)
  /\ EndCall(w)
  /\ \/ /\ batch.cancel \/ batch.status = "cancel_requested"
        /\ steps' = CancelledRemainder
        /\ Finish("cancelled")
     \/ /\ ~(batch.cancel \/ batch.status = "cancel_requested")
        /\ batch.pause
        /\ Finish("paused") /\ UNCHANGED steps
     \/ /\ ~(StopAsked \/ batch.status = "cancel_requested")
        /\ IF \A s \in Steps : steps[s] = "succeeded"
           THEN Finish("succeeded") ELSE UNCHANGED batch
        /\ UNCHANGED steps
  /\ UNCHANGED <<log, alive, started, sinceStop>>

\* The call throws: its lease is not the row's any more, the authority cannot
\* be asked, the step it chose cannot be started, or the executor fails before
\* or after the commit.  Nothing more is written, so a step started and not
\* committed stays running.
Throw(w) ==
  /\ call[w].phase # "idle"
  /\ \/ ~Holds(w)
     \/ call[w].phase \in {"rechecking", "executing", "committed"}
  /\ EndCall(w)
  /\ UNCHANGED <<batch, steps, log, alive, started, sinceStop>>

-----------------------------------------------------------------------------

Tick ==
  /\ batch.ttl > 0 \/ batch.approval > 0
  /\ batch' = [batch EXCEPT !.ttl = IF @ > 0 THEN @ - 1 ELSE 0,
                            !.approval = IF @ > 0 THEN @ - 1 ELSE 0]
  /\ UNCHANGED <<steps, log, call, alive, started, sinceStop>>

\* A process dies and another starts, under an id of its own.
Restart(v, w) ==
  /\ v \in alive /\ w \notin started
  /\ alive' = (alive \ {v}) \cup {w}
  /\ started' = started \cup {w}
  /\ EndCall(v)
  /\ UNCHANGED <<batch, steps, log, sinceStop>>

Acquire(w) == AcquireLease(w) \/ ParkExternalOrphan(w)

AdvanceStep(w) ==
  \/ ChooseStep(w)
  \/ PauseStaleStep(w)
  \/ PauseRefusedStep(w)
  \/ WaitForExternal(w)
  \/ MarkStepRunning(w)
  \/ CommitStep(w)
  \/ SettleSafeBoundary(w)
  \/ Throw(w)

Control ==
  \/ Submit \/ Approve \/ Reject
  \/ RequestPause \/ RequestCancel \/ Resume
  \/ \E s \in Steps : ReconcileExternal(s)

Next ==
  \/ Control
  \/ \E w \in WorkerIds : Acquire(w) \/ AdvanceStep(w)
  \/ \E v, w \in WorkerIds : Restart(v, w)
  \/ Tick

Spec == Init /\ [][Next]_vars

\* The supervised job keeps calling advance, calls go on, the clock runs.
\* Nothing is assumed of people, of restarts or of how an execution ends.
Fairness ==
  /\ \A w \in WorkerIds : WF_vars(Acquire(w)) /\ WF_vars(AdvanceStep(w))
  /\ WF_vars(Tick)

FairSpec == Spec /\ Fairness

-----------------------------------------------------------------------------
(* What a run promises.                                                    *)

\* Completed steps stay completed: the log holds a step's change exactly when
\* the step says succeeded, through crashes, lost leases and cancellation.
LogAgreesWithSteps == log = {s \in Steps : steps[s] = "succeeded"}

\* At most one step is started and unfinished, and everything before it has
\* succeeded, however often the batch is paused, resumed and taken over.
OneStepOut ==
  \A s \in Steps : steps[s] \notin {"pending", "cancelled"} =>
    \A t \in 1..s - 1 : steps[t] = "succeeded"

\* A finished batch is left alone by every late call and every control.
TerminalIsFinal ==
  [][batch.status \in Finished =>
       /\ batch'.status = batch.status
       /\ steps' = steps /\ log' = log]_vars

\* Every approved batch comes to an end or stops where a person is asked,
\* whatever throws, dies or is refused on the way.
EveryRunStops ==
  batch.status \in {"queued", "running"}
    ~> batch.status \in Finished \cup {"paused"}

\* A cancel that was answered cancel_requested is carried out.
CancelTakesEffect == batch.cancel ~> batch.status = "cancelled"

\* Cancel stops the remaining steps: no step of a cancelled batch is running.
\* The code does not keep this when the running step was left by a throw.
CancelledMeansStopped ==
  batch.status = "cancelled" => \A s \in Steps : steps[s] # "running"

StageOf ==
  CASE batch.status \in {"unsubmitted", "awaiting_approval"} -> "proposed"
    [] batch.status \in Finished -> "closed"
    [] OTHER -> IF ~StopAsked THEN "open"
                ELSE IF sinceStop = 0 THEN "stopping" ELSE "held"

Promise == INSTANCE PlanPromise WITH stage <- StageOf, applied <- log

\* Runs apply an approved plan in order, each step once, nothing before the
\* approval or after the end, and at most one step after a stop is asked for.
KeepsPlanPromise == Promise!Spec
=============================================================================
