--------------------------- MODULE ServerRuntime ---------------------------
(***************************************************************************)
(* Everything that shares the one SQLite connection of the Bun server, and *)
(* how it is started and shut down: HTTP requests, the jobs of the         *)
(* background supervisor and the passes of the Airtable sync, around the   *)
(* request lane.  (The detached dispatch kicks of sign-in mail, which do   *)
(* not enter the lane, are callers of OutboundDispatch.)                   *)
(*   apps/server/src/runtime/background-supervisor.ts                      *)
(*   apps/server/src/runtime/airtable-live-runtime.ts (its scheduler)      *)
(*   apps/server/src/runtime/bun-runtime-lifecycle.ts                      *)
(*   apps/server/src/runtime/ephemeral-live.ts (the wiring and close)      *)
(*                                                                         *)
(* A definition whose name ends in Slip is a deliberate mistake in the one *)
(* that follows it; no specification uses it.                              *)
(***************************************************************************)
EXTENDS RequestLane

CONSTANTS
  Jobs,      \* the supervised jobs; all of them run on start
  Passes     \* identities for Airtable passes: as many as may overlap

Requests == Signalled

ASSUME RuntimeAssumption ==
  /\ Calls = Requests \cup Jobs \cup Passes
  /\ Requests \cap Jobs = {} /\ Requests \cap Passes = {} /\ Jobs \cap Passes = {}

VARIABLES
  server,      \* the listener: down, listening, stopping, stopped, stop_failed
  lifecycle,   \* the supervisor: not_started, running, closed
  job,         \* each job's pass: idle, launched (inFlight), laned (in run())
  first,       \* the passes start() waits for
  startup,     \* startBackgroundWork: no, starting, yes, failed
  sync,        \* the Airtable runtime: not_started, started, closed
  scheduled,   \* its timer is set
  pass,        \* the passes in activePasses
  owed,        \* a wake that no pump has followed yet
  closing,     \* runtime.close() was called
  database     \* open or closed

runtimeOwn == <<server, lifecycle, job, first, startup, sync, scheduled, pass,
                owed, closing, database>>
vars == <<laneVars, runtimeOwn>>

RuntimeTypeOK ==
  /\ LaneTypeOK
  /\ server \in {"down", "listening", "stopping", "stopped", "stop_failed"}
  /\ lifecycle \in {"not_started", "running", "closed"}
  /\ job \in [Jobs -> {"idle", "launched", "laned"}]
  /\ first \subseteq Jobs
  /\ startup \in {"no", "starting", "yes", "failed"}
  /\ sync \in {"not_started", "started", "closed"}
  /\ scheduled \in BOOLEAN /\ owed \in BOOLEAN /\ closing \in BOOLEAN
  /\ pass \subseteq Passes
  /\ database \in {"open", "closed"}

Init ==
  /\ LaneInit
  /\ server = "down" /\ lifecycle = "not_started" /\ startup = "no"
  /\ job = [j \in Jobs |-> "idle"] /\ first = {}
  /\ sync = "not_started" /\ scheduled = FALSE /\ pass = {} /\ owed = FALSE
  /\ closing = FALSE /\ database = "open"

----------------------------------------------------------------------------
(* Starting: startManagedBunRuntime. *)

\* input.start(): the listener accepts requests before the jobs run.
StartServer ==
  /\ server = "down"
  /\ server' = "listening"
  /\ UNCHANGED <<laneVars, lifecycle, job, first, startup, sync, scheduled,
                 pass, owed, closing, database>>

\* Mistake for RuntimeTypeOK: the listener is left in a state of its own.
StartServerFailsSlip ==
  /\ server = "down"
  /\ server' = "failed"
  /\ UNCHANGED <<laneVars, lifecycle, job, first, startup, sync, scheduled,
                 pass, owed, closing, database>>

\* It throws: the runtime is closed without ever having served.
StartServerFails ==
  /\ server = "down"
  /\ server' = "stopped"
  /\ UNCHANGED <<laneVars, lifecycle, job, first, startup, sync, scheduled,
                 pass, owed, closing, database>>

\* supervisor.start(): timers are set and every job runs once.
StartSupervisor ==
  /\ server = "listening" /\ startup = "no"
  /\ startup' = "starting"
  /\ lifecycle' = "running"
  /\ job' = [j \in Jobs |-> "launched"]
  /\ first' = Jobs
  /\ UNCHANGED <<laneVars, server, sync, scheduled, pass, owed, closing,
                 database>>

\* schedule(): one timer, none before start or after close.
schedule(wanted) ==
  scheduled' = (scheduled \/ (wanted /\ sync = "started"))

\* The first passes are over: airtableLive.start() schedules the connection
\* if there is one to serve (a wake means there is), and the signal handlers
\* are installed.
StartSync ==
  /\ startup = "starting" /\ first = {}
  /\ startup' = "yes"
  /\ sync' = "started"
  /\ \E connected \in BOOLEAN :
       /\ owed => connected
       /\ scheduled' = connected
  /\ UNCHANGED <<laneVars, server, lifecycle, job, first, pass, owed,
                 closing, database>>

\* It throws reading the connection, marked as started but without its sweep
\* interval: stopServerThenCloseRuntime.
StartSyncFails ==
  /\ startup = "starting" /\ first = {}
  /\ startup' = "failed"
  /\ sync' = "started"
  /\ server' = "stopping"
  /\ UNCHANGED <<laneVars, lifecycle, job, first, scheduled, pass, owed,
                 closing, database>>

----------------------------------------------------------------------------
(* The background supervisor. *)

\* run(): an interval timer or runNow finds the job idle.
RunJob(j) ==
  /\ lifecycle = "running"
  /\ job[j] = "idle"
  /\ job' = [job EXCEPT ![j] = "launched"]
  /\ UNCHANGED <<laneVars, server, lifecycle, first, startup, sync, scheduled,
                 pass, owed, closing, database>>

\* job.run(): every job goes through the lane, without a signal.
JobEnters(j) ==
  /\ job[j] = "launched"
  /\ Acquire(j)
  /\ job' = [job EXCEPT ![j] = "laned"]
  /\ UNCHANGED <<server, lifecycle, first, startup, sync, scheduled, pass, owed,
                 closing, database>>

\* Mistake for ShutdownCompletes: only a pass that went well is cleared.
JobEndsSlip(j) ==
  /\ job[j] = "laned" /\ call[j] \in Ended
  /\ job' = IF call[j] = "returned" THEN [job EXCEPT ![j] = "idle"] ELSE job
  /\ first' = first \ {j}
  /\ UNCHANGED <<laneVars, server, lifecycle, startup, sync, scheduled, pass,
                 owed, closing, database>>

\* The pass settles, well or not: its inFlight entry goes.
JobEnds(j) ==
  /\ job[j] = "laned" /\ call[j] \in Ended
  /\ job' = [job EXCEPT ![j] = "idle"]
  /\ first' = first \ {j}
  /\ UNCHANGED <<laneVars, server, lifecycle, startup, sync, scheduled, pass,
                 owed, closing, database>>

----------------------------------------------------------------------------
(* HTTP requests and what their handlers leave behind. *)

\* A listener whose stop() was rejected may go on accepting.
RequestArrives(r) ==
  /\ server \in {"listening", "stop_failed"}
  /\ Acquire(r)
  /\ UNCHANGED runtimeOwn

ClientLeaves(r) ==
  /\ Abort(r)
  /\ UNCHANGED runtimeOwn

\* A webhook or a change of the connection, both read from the database,
\* wakes the sync.
Wake(r) ==
  /\ call[r] = "working" /\ database = "open"
  /\ owed' = TRUE
  /\ schedule(TRUE)
  /\ UNCHANGED <<laneVars, server, lifecycle, job, first, startup, sync, pass,
                 closing, database>>

----------------------------------------------------------------------------
(* The Airtable sync. *)

\* The sweep interval: schedule() without anybody having asked.
Sweep ==
  /\ startup = "yes" /\ sync = "started" /\ ~scheduled
  /\ schedule(TRUE)
  /\ UNCHANGED <<laneVars, server, lifecycle, job, first, startup, sync, pass,
                 owed, closing, database>>

\* The timer fires: a pass asks for the lane.
PassTimer(p) ==
  /\ scheduled
  /\ p \in Passes \ pass
  /\ Acquire(p)
  /\ scheduled' = FALSE
  /\ pass' = pass \cup {p}
  /\ UNCHANGED <<server, lifecycle, job, first, startup, sync, owed,
                 closing, database>>

\* Mistake for WakesAreServed: a refused pass is not tried again.
PassEndsSlip(p) ==
  /\ p \in pass /\ call[p] \in Ended
  /\ pass' = pass \ {p}
  /\ \E again \in BOOLEAN : schedule(again)
  /\ UNCHANGED <<laneVars, server, lifecycle, job, first, startup, sync, owed,
                 closing, database>>

\* serializeWork rejects, the pump throws or it returns: catch and finally.
\* A failed pass, and a pump told to come back later, set the timer again.
PassEnds(p) ==
  /\ p \in pass /\ call[p] \in Ended
  /\ pass' = pass \ {p}
  /\ \E again \in BOOLEAN :
       /\ call[p] # "returned" => again
       /\ schedule(again)
  /\ UNCHANGED <<laneVars, server, lifecycle, job, first, startup, sync, owed,
                 closing, database>>

----------------------------------------------------------------------------
(* The lane at work.  A pump that starts after close returns at once. *)

WorkBegins(c) ==
  /\ Enter(c)
  /\ owed' = (owed /\ ~(c \in Passes /\ sync = "started"))
  /\ UNCHANGED <<server, lifecycle, job, first, startup, sync, scheduled, pass,
                 closing, database>>

WorkEnds(c) ==
  /\ Withdraw(c) \/ Settle(c)
  /\ UNCHANGED runtimeOwn

WaitEnds(c) ==
  /\ TimeOut(c)
  /\ UNCHANGED runtimeOwn

----------------------------------------------------------------------------
(* Shutting down. *)

\* SIGINT or SIGTERM.
Signal ==
  /\ startup = "yes" /\ server = "listening"
  /\ server' = "stopping"
  /\ UNCHANGED <<laneVars, lifecycle, job, first, startup, sync, scheduled,
                 pass, owed, closing, database>>

\* server.stop() resolves once the requests in progress are answered.
ServerStops ==
  /\ server = "stopping"
  /\ \A r \in Requests : call[r] \notin Inside
  /\ server' = "stopped"
  /\ UNCHANGED <<laneVars, lifecycle, job, first, startup, sync, scheduled,
                 pass, owed, closing, database>>

\* It rejects.  The error is kept, the runtime is closed all the same, and
\* nobody waits for the requests that are left.
ServerStopFails ==
  /\ server = "stopping"
  /\ server' = "stop_failed"
  /\ UNCHANGED <<laneVars, lifecycle, job, first, startup, sync, scheduled,
                 pass, owed, closing, database>>

\* Mistake for DrainedBeforeClose: the Airtable passes are not waited for.
BusySlip == \E j \in Jobs : job[j] # "idle"

Busy == (\E j \in Jobs : job[j] # "idle") \/ pass # {}

\* runtime.close(): supervisor and sync are closed, and the database with
\* them when neither has work under way.
CloseRuntime ==
  /\ server \in {"stopped", "stop_failed"} /\ ~closing
  /\ closing' = TRUE
  /\ lifecycle' = "closed"
  /\ sync' = "closed" /\ scheduled' = FALSE
  /\ database' = IF Busy THEN database ELSE "closed"
  /\ UNCHANGED <<laneVars, server, job, first, startup, pass, owed>>

\* The drains resolve: every pass that was under way has settled.
CloseDatabase ==
  /\ closing /\ database = "open" /\ ~Busy
  /\ database' = "closed"
  /\ UNCHANGED <<laneVars, server, lifecycle, job, first, startup, sync,
                 scheduled, pass, owed, closing>>

----------------------------------------------------------------------------

Next ==
  \/ StartServer \/ StartServerFails \/ StartSupervisor
  \/ StartSync \/ StartSyncFails
  \/ \E j \in Jobs : RunJob(j) \/ JobEnters(j) \/ JobEnds(j)
  \/ \E r \in Requests :
       RequestArrives(r) \/ ClientLeaves(r) \/ Wake(r)
  \/ Sweep
  \/ \E p \in Passes : PassTimer(p) \/ PassEnds(p)
  \/ \E c \in Calls : WorkBegins(c) \/ WorkEnds(c) \/ WaitEnds(c)
  \/ Signal \/ ServerStops \/ ServerStopFails \/ CloseRuntime \/ CloseDatabase

Spec == Init /\ [][Next]_vars

\* Promise reactions and due timers run, and the work in the lane settles.
\* Requests, wakes, signals, sweeps, intervals and lane timers need not come.
Fairness ==
  /\ WF_vars(StartSupervisor) /\ WF_vars(StartSync \/ StartSyncFails)
  /\ \A j \in Jobs : WF_vars(JobEnters(j)) /\ WF_vars(JobEnds(j))
  /\ WF_vars(\E p \in Passes : PassTimer(p))
  /\ \A p \in Passes : WF_vars(PassEnds(p))
  /\ \A c \in Calls : WF_vars(WorkBegins(c)) /\ WF_vars(WorkEnds(c))
  /\ WF_vars(ServerStops \/ ServerStopFails) /\ WF_vars(CloseRuntime) /\ WF_vars(CloseDatabase)

FairSpec == Spec /\ Fairness

----------------------------------------------------------------------------
(* Properties. *)

\* "close drains active work before returning" (background-supervisor.ts:50)
\* and stop-before-close: when the database closes, no job or pass is in the
\* lane or on its way to it, and none enters it afterwards.  No request is in
\* it either, unless stop() was rejected: then the runtime is closed without
\* waiting for them (bun-runtime-lifecycle.ts:46, its test at :130).
DrainedBeforeClose ==
  database = "closed" =>
    /\ server \in {"stopped", "stop_failed"}
    /\ server = "stopped" => \A r \in Requests : call[r] \notin Inside
    /\ \A c \in Jobs \cup Passes : call[c] \notin Inside
    /\ ~Busy /\ ~scheduled

\* A pass was refused by the lane or timed out in it.
PassRefused ==
  \E p \in pass : call[p] \in {"queue_full", "queue_timeout"}

\* No wake is lost: once the lane has stopped refusing passes, a wake is
\* followed by a pump that starts after it, or the sync is closed.  This
\* holds without the sweep, and for wakes before the sync was started.
WakesAreServed ==
  <>[](~PassRefused) => (owed ~> (~owed \/ sync = "closed"))

\* A shutdown that begins ends with the database closed, whether the listener
\* stopped or not.
ShutdownCompletes ==
  server \in {"stopping", "stopped", "stop_failed"} ~> database = "closed"
=============================================================================
