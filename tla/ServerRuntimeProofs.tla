------------------------ MODULE ServerRuntimeProofs ------------------------
(***************************************************************************)
(* Proofs about the server runtime, for any requests, jobs and passes.     *)
(***************************************************************************)
EXTENDS ServerRuntime, RequestLaneProofs

----------------------------------------------------------------------------
(* The runtime uses the lane as the lane's own specification allows. *)

LEMMA RuntimeStepsAreLaneSteps == [Next]_vars => [LaneNext]_laneVars
<1> SUFFICES ASSUME [Next]_vars PROVE [LaneNext]_laneVars
  OBVIOUS
<1>1. CASE UNCHANGED vars
  BY <1>1 DEF vars
<1>2. CASE \/ StartServer \/ StartServerFails \/ StartSupervisor
           \/ StartSync \/ StartSyncFails \/ Sweep
           \/ Signal \/ ServerStops \/ ServerStopFails
           \/ CloseRuntime \/ CloseDatabase
  BY <1>2 DEF StartServer, StartServerFails, StartSupervisor, StartSync,
     StartSyncFails, Sweep, Signal, ServerStops, ServerStopFails, CloseRuntime,
     CloseDatabase
<1>3. CASE \E j \in Jobs : RunJob(j) \/ JobEnters(j) \/ JobEnds(j)
  BY <1>3, RuntimeAssumption DEF RunJob, JobEnters, JobEnds, LaneNext, LaneStep
<1>4. CASE \E r \in Requests : RequestArrives(r) \/ ClientLeaves(r) \/ Wake(r)
  BY <1>4, RuntimeAssumption DEF RequestArrives, ClientLeaves, Wake, LaneNext, LaneStep
<1>5. CASE \E p \in Passes : PassTimer(p) \/ PassEnds(p)
  BY <1>5, RuntimeAssumption DEF PassTimer, PassEnds, LaneNext, LaneStep
<1>6. CASE \E c \in Calls : WorkBegins(c) \/ WorkEnds(c) \/ WaitEnds(c)
  BY <1>6 DEF WorkBegins, WorkEnds, WaitEnds, LaneNext, LaneStep
<1> QED
  BY <1>1, <1>2, <1>3, <1>4, <1>5, <1>6 DEF Next

\* Whatever requests, jobs and Airtable passes do, the lane they share is the
\* lane: every theorem about it holds of the server.
THEOREM RuntimeImplementsLane == Spec => LaneSpec
<1>1. Init => LaneInit
  BY DEF Init
<1> QED
  BY <1>1, RuntimeStepsAreLaneSteps, PTL DEF Spec, LaneSpec

\* At most one request, job or pass is at work on the SQLite connection.
THEOREM ServerWorksOneAtATime == Spec => []OneAtATime
BY RuntimeImplementsLane, LaneExcludes

\* Under requests, jobs, passes and clients that leave, the lane's flag and
\* queue say who owns it and who waits: a release is neither lost nor doubled.
THEOREM ServerLaneIsTruthful == Spec => []LaneTellsTheTruth
BY RuntimeImplementsLane, LaneIsTruthful

\* However many requests, jobs and passes come at once, the queue stays within
\* its limit.
THEOREM ServerQueueIsBounded == Spec => []QueueIsBounded
BY RuntimeImplementsLane, LaneIsBounded

\* The server's callers are served one at a time and first come first served.
THEOREM ServerKeepsLanePromise == Spec => KeepsLanePromise
BY RuntimeImplementsLane, LaneKeepsItsPromise

----------------------------------------------------------------------------
(* Shutting down. *)

\* Who is in the lane is known to whoever must wait for it.
Accounted ==
  /\ server \in {"down", "stopped"} => \A r \in Requests : call[r] \notin Inside
  /\ \A j \in Jobs : call[j] \in Inside => job[j] = "laned"
  /\ \A p \in Passes : call[p] \in Inside => p \in pass
  /\ startup = "no" => lifecycle # "running" /\ \A j \in Jobs : job[j] = "idle"

\* Nothing is started any more once the runtime is closing.
ClosingInv ==
  /\ startup = "starting" => server = "listening"
  /\ closing => /\ server \in {"stopped", "stop_failed"}
                /\ lifecycle = "closed"
                /\ sync = "closed" /\ ~scheduled
  /\ database = "closed" => closing /\ ~Busy

RuntimeInv == RuntimeTypeOK /\ LaneInv /\ Accounted /\ ClosingInv
----------------------------------------------------------------------------

\* Only an acquiring call comes inside the lane.
LEMMA AcquireFrame ==
  ASSUME LaneInv, NEW c \in Calls, Acquire(c)
  PROVE  \A d \in Calls \ {c} : call'[d] = call[d]
BY DEF Acquire, RefuseAborted, Take, RefuseFull, Enqueue, LaneInv, LaneTypeOK

LEMMA OtherwiseFrame ==
  ASSUME LaneInv, NEW c \in Calls,
         Abort(c) \/ TimeOut(c) \/ Enter(c) \/ Withdraw(c) \/ Settle(c)
  PROVE  \A d \in Calls : call'[d] \in Inside => call[d] \in Inside
<1>1. call \in [Calls -> Status]
  BY DEF LaneInv, LaneTypeOK
<1>2. CASE Abort(c) \/ TimeOut(c)
  BY <1>1, <1>2 DEF Abort, TimeOut, cancelPending, Inside
<1>3. CASE Enter(c)
  BY <1>1, <1>3 DEF Enter, Inside
<1>4. CASE Withdraw(c) \/ Settle(c)
  <2>1. PICK outcome \in Ended : grantNext(c, outcome)
    BY <1>4 DEF Withdraw, Settle, Ended
  <2>2. outcome \notin Inside
    BY DEF Ended, Inside
  <2>3. CASE pending = <<>>
    BY <1>1, <2>1, <2>2, <2>3, GrantNextTakesTheHead
  <2>4. CASE pending # <<>>
    <3>1. /\ Head(pending) \in Calls
          /\ call[Head(pending)] = "queued"
      <4>1. pending \in Seq(Calls) /\ Len(pending) >= 1 /\ Head(pending) = pending[1]
        BY <2>4 DEF LaneInv, LaneTypeOK
      <4> QED BY <4>1 DEF LaneInv, LaneTellsTheTruth
    <3>2. call' = [call EXCEPT ![c] = outcome, ![Head(pending)] = "granted"]
      BY <2>1, <2>4, GrantNextTakesTheHead
    <3> QED BY <1>1, <2>2, <3>1, <3>2 DEF Inside
  <2> QED BY <2>3, <2>4
<1> QED BY <1>2, <1>3, <1>4

LEMMA InitHasRuntimeInv == Init => RuntimeInv
<1> SUFFICES ASSUME Init PROVE RuntimeInv
  OBVIOUS
<1>1. LaneInv
  BY InitHasInv DEF Init
<1>2. RuntimeTypeOK
  BY <1>1 DEF Init, RuntimeTypeOK, LaneInv
<1>3. \A c \in Calls : call[c] \notin Inside
  BY DEF Init, LaneInit, Inside
<1>4. Accounted
  BY <1>3, RuntimeAssumption DEF Accounted, Init
<1>5. ClosingInv
  BY DEF Init, ClosingInv
<1> QED BY <1>1, <1>2, <1>4, <1>5 DEF RuntimeInv

\* A step keeps the types: what the lane does is typed by its own theorem.
LEMMA StepKeepsTypes ==
  ASSUME RuntimeInv, [Next]_vars
  PROVE  RuntimeTypeOK' /\ LaneInv'
<1>1. LaneInv'
  BY RuntimeStepsAreLaneSteps, StepKeepsInv DEF RuntimeInv
<1>2. LaneTypeOK'
  BY <1>1 DEF LaneInv
<1>3. scheduled' \in BOOLEAN /\ owed' \in BOOLEAN /\ closing' \in BOOLEAN
  <2>1. scheduled \in BOOLEAN /\ owed \in BOOLEAN /\ closing \in BOOLEAN
    BY DEF RuntimeInv, RuntimeTypeOK
  <2>2. CASE UNCHANGED vars
    BY <2>1, <2>2, Zenon DEF vars, runtimeOwn
  <2>3. CASE \/ StartServer \/ StartServerFails \/ StartSupervisor
             \/ StartSyncFails \/ Signal \/ ServerStops \/ ServerStopFails
             \/ CloseRuntime \/ CloseDatabase \/ StartSync \/ Sweep
    BY <2>1, <2>3, Zenon DEF StartServer, StartServerFails, StartSupervisor, StartSync,
       StartSyncFails, Sweep, schedule, Signal, ServerStops, ServerStopFails,
       CloseRuntime, CloseDatabase
  <2>4. ASSUME NEW j \in Jobs, RunJob(j) \/ JobEnters(j) \/ JobEnds(j)
        PROVE  scheduled' \in BOOLEAN /\ owed' \in BOOLEAN /\ closing' \in BOOLEAN
    BY <2>1, <2>4, Zenon DEF RunJob, JobEnters, JobEnds
  <2>5. ASSUME NEW r \in Requests, RequestArrives(r) \/ ClientLeaves(r) \/ Wake(r)
        PROVE  scheduled' \in BOOLEAN /\ owed' \in BOOLEAN /\ closing' \in BOOLEAN
    BY <2>1, <2>5, Zenon DEF RequestArrives, ClientLeaves, Wake, schedule, runtimeOwn
  <2>6. ASSUME NEW p \in Passes, PassTimer(p) \/ PassEnds(p)
        PROVE  scheduled' \in BOOLEAN /\ owed' \in BOOLEAN /\ closing' \in BOOLEAN
    BY <2>1, <2>6, Zenon DEF PassTimer, PassEnds, schedule
  <2>7. ASSUME NEW c \in Calls, WorkBegins(c) \/ WorkEnds(c) \/ WaitEnds(c)
        PROVE  scheduled' \in BOOLEAN /\ owed' \in BOOLEAN /\ closing' \in BOOLEAN
    BY <2>1, <2>7, Zenon DEF WorkBegins, WorkEnds, WaitEnds, runtimeOwn
  <2> QED BY <2>2, <2>3, <2>4, <2>5, <2>6, <2>7 DEF Next
<1> DEFINE Rest ==
      /\ server \in {"down", "listening", "stopping", "stopped", "stop_failed"}
      /\ lifecycle \in {"not_started", "running", "closed"}
      /\ job \in [Jobs -> {"idle", "launched", "laned"}]
      /\ first \subseteq Jobs
      /\ startup \in {"no", "starting", "yes", "failed"}
      /\ sync \in {"not_started", "started", "closed"}
      /\ pass \subseteq Passes
      /\ database \in {"open", "closed"}
<1>4. Rest
  BY DEF RuntimeInv, RuntimeTypeOK
<1>5. Rest'
  <2>1. CASE UNCHANGED vars
    BY <1>4, <2>1 DEF vars, runtimeOwn
  <2>2. CASE \/ StartServer \/ StartServerFails \/ StartSupervisor
             \/ StartSync \/ StartSyncFails \/ Sweep
             \/ Signal \/ ServerStops \/ ServerStopFails
             \/ CloseRuntime \/ CloseDatabase
    BY <1>4, <2>2 DEF StartServer, StartServerFails, StartSupervisor, StartSync,
       StartSyncFails, Sweep, Signal, ServerStops, ServerStopFails, CloseRuntime,
       CloseDatabase
  <2>3. ASSUME NEW j \in Jobs, RunJob(j) \/ JobEnters(j) \/ JobEnds(j) PROVE Rest'
    BY <1>4, <2>3 DEF RunJob, JobEnters, JobEnds
  <2>4. ASSUME NEW r \in Requests, RequestArrives(r) \/ ClientLeaves(r) \/ Wake(r)
        PROVE  Rest'
    BY <1>4, <2>4 DEF RequestArrives, ClientLeaves, Wake, runtimeOwn
  <2>5. ASSUME NEW p \in Passes, PassTimer(p) \/ PassEnds(p) PROVE Rest'
    BY <1>4, <2>5 DEF PassTimer, PassEnds
  <2>6. ASSUME NEW c \in Calls, WorkBegins(c) \/ WorkEnds(c) \/ WaitEnds(c) PROVE Rest'
    BY <1>4, <2>6 DEF WorkBegins, WorkEnds, WaitEnds, runtimeOwn
  <2> QED BY <2>1, <2>2, <2>3, <2>4, <2>5, <2>6 DEF Next
<1> QED BY <1>1, <1>2, <1>3, <1>5 DEF RuntimeTypeOK

LEMMA StepKeepsAccounts ==
  ASSUME RuntimeInv, [Next]_vars
  PROVE  Accounted'
<1> USE DEF RuntimeInv, Accounted
<1>0. Requests \subseteq Calls /\ Jobs \subseteq Calls /\ Passes \subseteq Calls
  BY RuntimeAssumption
<1>1. CASE UNCHANGED vars
  BY <1>1 DEF vars, runtimeOwn, laneVars
<1>2. CASE \/ StartServer \/ StartServerFails \/ StartSync \/ StartSyncFails
           \/ Sweep \/ Signal \/ ServerStopFails \/ CloseRuntime \/ CloseDatabase
  BY <1>2 DEF StartServer, StartServerFails, StartSync, StartSyncFails, Sweep,
     Signal, ServerStopFails, CloseRuntime, CloseDatabase, laneVars
<1>3. CASE ServerStops
  BY <1>3 DEF ServerStops, laneVars
<1>4. CASE StartSupervisor
  BY <1>4 DEF StartSupervisor, laneVars
<1>5. ASSUME NEW j \in Jobs, RunJob(j) \/ JobEnds(j) PROVE Accounted'
  BY <1>5 DEF RunJob, JobEnds, laneVars, RuntimeTypeOK, Ended, Inside
<1>6. ASSUME NEW j \in Jobs, JobEnters(j) PROVE Accounted'
  <2>1. \A d \in Calls \ {j} : call'[d] = call[d]
    BY <1>0, <1>6, AcquireFrame DEF JobEnters
  <2> QED BY <1>0, <1>6, <2>1, RuntimeAssumption DEF JobEnters, RuntimeTypeOK
<1>7. ASSUME NEW r \in Requests, RequestArrives(r) PROVE Accounted'
  <2>1. \A d \in Calls \ {r} : call'[d] = call[d]
    BY <1>0, <1>7, AcquireFrame DEF RequestArrives
  <2> QED BY <1>0, <1>7, <2>1, RuntimeAssumption DEF RequestArrives, runtimeOwn
<1>8. ASSUME NEW r \in Requests, Wake(r) PROVE Accounted'
  BY <1>8 DEF Wake, laneVars
<1>9. ASSUME NEW p \in Passes, PassTimer(p) PROVE Accounted'
  <2>1. \A d \in Calls \ {p} : call'[d] = call[d]
    BY <1>0, <1>9, AcquireFrame DEF PassTimer
  <2> QED BY <1>0, <1>9, <2>1, RuntimeAssumption DEF PassTimer
<1>10. ASSUME NEW p \in Passes, PassEnds(p) PROVE Accounted'
  BY <1>10 DEF PassEnds, laneVars, Ended, Inside
<1>11. ASSUME NEW c \in Calls,
              \/ c \in Requests /\ ClientLeaves(c)
              \/ WorkBegins(c) \/ WorkEnds(c) \/ WaitEnds(c)
       PROVE  Accounted'
  <2>1. \A d \in Calls : call'[d] \in Inside => call[d] \in Inside
    BY <1>11, OtherwiseFrame DEF ClientLeaves, WorkBegins, WorkEnds, WaitEnds
  <2>2. UNCHANGED <<server, job, pass, startup, lifecycle>>
    BY <1>11 DEF ClientLeaves, WorkBegins, WorkEnds, WaitEnds, runtimeOwn
  <2> QED BY <1>0, <2>1, <2>2
<1> QED
  BY <1>0, <1>1, <1>2, <1>3, <1>4, <1>5, <1>6, <1>7, <1>8, <1>9, <1>10, <1>11 DEF Next

LEMMA StepKeepsClosing ==
  ASSUME RuntimeInv, [Next]_vars
  PROVE  ClosingInv'
<1> USE DEF RuntimeInv, ClosingInv, RuntimeTypeOK
<1>1. CASE UNCHANGED vars
  BY <1>1 DEF vars, runtimeOwn, Busy
<1>2. CASE \/ StartServer \/ StartServerFails \/ StartSupervisor
           \/ StartSync \/ StartSyncFails \/ Sweep \/ Signal
           \/ ServerStops \/ ServerStopFails
  BY <1>2 DEF StartServer, StartServerFails, StartSupervisor, StartSync,
     StartSyncFails, Sweep, schedule, Signal, ServerStops, ServerStopFails, Busy
<1>3. CASE CloseRuntime
  BY <1>3 DEF CloseRuntime, Busy
<1>4. CASE CloseDatabase
  BY <1>4 DEF CloseDatabase, Busy
<1>5. ASSUME NEW j \in Jobs, RunJob(j) \/ JobEnters(j) \/ JobEnds(j) PROVE ClosingInv'
  BY <1>5 DEF RunJob, JobEnters, JobEnds, Busy
<1>6. ASSUME NEW r \in Requests, RequestArrives(r) \/ ClientLeaves(r) \/ Wake(r)
      PROVE  ClosingInv'
  BY <1>6 DEF RequestArrives, ClientLeaves, Wake, schedule, runtimeOwn, Busy
<1>7. ASSUME NEW p \in Passes, PassTimer(p) \/ PassEnds(p) PROVE ClosingInv'
  BY <1>7 DEF PassTimer, PassEnds, schedule, Busy
<1>8. ASSUME NEW c \in Calls, WorkBegins(c) \/ WorkEnds(c) \/ WaitEnds(c)
      PROVE  ClosingInv'
  BY <1>8 DEF WorkBegins, WorkEnds, WaitEnds, runtimeOwn, Busy
<1> QED
  BY <1>1, <1>2, <1>3, <1>4, <1>5, <1>6, <1>7, <1>8 DEF Next

LEMMA RuntimeAlwaysHasInv == Spec => []RuntimeInv
<1>1. RuntimeInv /\ [Next]_vars => RuntimeInv'
  BY StepKeepsTypes, StepKeepsAccounts, StepKeepsClosing DEF RuntimeInv
<1> QED BY <1>1, InitHasRuntimeInv, PTL DEF Spec

\* The lane, the supervisor, the sync and the lifecycle keep their types.
THEOREM RuntimeIsTyped == Spec => []RuntimeTypeOK
<1>1. RuntimeInv => RuntimeTypeOK
  BY DEF RuntimeInv
<1> QED BY <1>1, RuntimeAlwaysHasInv, PTL

\* Whenever the database is closed, every job and pass has settled, none of
\* them is in the lane and no timer is left to enter it; and unless stopping
\* the listener was rejected, every request has left the lane too.
THEOREM RuntimeIsDrained == Spec => []DrainedBeforeClose
<1>1. RuntimeInv => DrainedBeforeClose
  <2> SUFFICES ASSUME RuntimeInv, database = "closed"
               PROVE  /\ server \in {"stopped", "stop_failed"}
                      /\ server = "stopped" => \A r \in Requests : call[r] \notin Inside
                      /\ \A c \in Jobs \cup Passes : call[c] \notin Inside
                      /\ ~Busy /\ ~scheduled
    BY DEF DrainedBeforeClose
  <2>1. server \in {"stopped", "stop_failed"} /\ ~Busy /\ ~scheduled
    BY DEF RuntimeInv, ClosingInv
  <2>2. ASSUME NEW c \in Jobs \cup Passes PROVE call[c] \notin Inside
    BY <2>1 DEF RuntimeInv, Accounted, Busy
  <2>3. server = "stopped" => \A r \in Requests : call[r] \notin Inside
    BY DEF RuntimeInv, Accounted
  <2> QED BY <2>1, <2>2, <2>3
<1> QED BY <1>1, RuntimeAlwaysHasInv, PTL
=============================================================================
