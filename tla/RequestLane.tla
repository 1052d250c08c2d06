---------------------------- MODULE RequestLane ----------------------------
(***************************************************************************)
(* The serialized request boundary, apps/server/src/http/                  *)
(* request-serialization.ts: one lane through which HTTP requests and      *)
(* supervised jobs reach the single SQLite connection.  A call acquires a  *)
(* lease, runs its work and releases; calls that find the lane held wait   *)
(* in a bounded queue from which an abort or a timer removes them.         *)
(*                                                                         *)
(* The code runs on one thread, so each action is one turn: everything the *)
(* code does between two awaits.  `await acquire' and `await work' are the *)
(* places where other turns come in between.  A call that has ended may be *)
(* made again, as a new call with a new signal.                            *)
(*                                                                         *)
(* A definition whose name ends in Slip is a deliberate mistake in the one *)
(* that follows it; no specification uses it.                              *)
(***************************************************************************)
EXTENDS Naturals, Sequences, SequencesExt, FiniteSetsExt

CONSTANTS
  Calls,       \* the callers of run()
  Signalled,   \* the callers that pass an abort signal: the HTTP requests
  MaxQueued    \* limits.maximumQueuedRequests

ASSUME LaneAssumption ==
  /\ Signalled \subseteq Calls
  /\ MaxQueued \in Nat

VARIABLES
  held,        \* the lane's flag
  pending,     \* the queue of leases, by the call that asked for them
  call,        \* where each call stands
  aborted      \* the calls whose signal is aborted

laneVars == <<held, pending, call, aborted>>

\* A lease is queued, granted (its promise resolved, the caller not yet
\* resumed) or behind running work; otherwise the call has not begun or has
\* ended, with the work's result or with one of the errors.
Inside == {"queued", "granted", "working"}
Ended  == {"returned", "aborted", "queue_full", "queue_timeout"}
Status == {"idle"} \cup Inside \cup Ended

Owner(c) == call[c] \in {"granted", "working"}

LaneTypeOK ==
  /\ held \in BOOLEAN
  /\ pending \in Seq(Calls)
  /\ call \in [Calls -> Status]
  /\ aborted \subseteq Signalled

LaneInit ==
  /\ held = FALSE
  /\ pending = <<>>
  /\ call = [c \in Calls |-> "idle"]
  /\ aborted = {}

----------------------------------------------------------------------------
(* acquire: a new call, whose signal may already be aborted. *)

NewSignal(c, gone) ==
  /\ call[c] \notin Inside
  /\ gone => c \in Signalled
  /\ aborted' = IF gone THEN aborted \cup {c} ELSE aborted \ {c}

RefuseAborted(c) ==
  /\ NewSignal(c, TRUE)
  /\ call' = [call EXCEPT ![c] = "aborted"]
  /\ UNCHANGED <<held, pending>>

\* Mistake for OneAtATime: the flag is not set.
TakeSlip(c) ==
  /\ NewSignal(c, FALSE)
  /\ ~held
  /\ call' = [call EXCEPT ![c] = "granted"]
  /\ UNCHANGED <<held, pending>>

Take(c) ==
  /\ NewSignal(c, FALSE)
  /\ ~held
  /\ held' = TRUE
  /\ call' = [call EXCEPT ![c] = "granted"]
  /\ UNCHANGED pending

RefuseFull(c) ==
  /\ NewSignal(c, FALSE)
  /\ held
  /\ Len(pending) >= MaxQueued
  /\ call' = [call EXCEPT ![c] = "queue_full"]
  /\ UNCHANGED <<held, pending>>

\* Mistake for QueueIsBounded: one more than the limit waits.
EnqueueSlip(c) ==
  /\ NewSignal(c, FALSE)
  /\ held
  /\ Len(pending) <= MaxQueued
  /\ pending' = Append(pending, c)
  /\ call' = [call EXCEPT ![c] = "queued"]
  /\ UNCHANGED held

Enqueue(c) ==
  /\ NewSignal(c, FALSE)
  /\ held
  /\ Len(pending) < MaxQueued
  /\ pending' = Append(pending, c)
  /\ call' = [call EXCEPT ![c] = "queued"]
  /\ UNCHANGED held

Acquire(c) == RefuseAborted(c) \/ Take(c) \/ RefuseFull(c) \/ Enqueue(c)

----------------------------------------------------------------------------
(* cancelPending: nothing happens to a lease that is granted or cancelled. *)

cancelPending(c, error) ==
  /\ \E i \in 1..Len(pending) :
       /\ pending[i] = c
       /\ pending' = RemoveAt(pending, i)
  /\ call' = [call EXCEPT ![c] = error]

\* The client goes away.  Its listener cancels a queued lease; work that has
\* begun keeps the lane until it settles.
Abort(c) ==
  /\ c \in Signalled \ aborted
  /\ call[c] \in Inside
  /\ aborted' = aborted \cup {c}
  /\ IF call[c] = "queued"
       THEN cancelPending(c, "aborted")
       ELSE UNCHANGED <<pending, call>>
  /\ UNCHANGED held

\* The timer of maximumWaitMilliseconds fires.
TimeOut(c) ==
  /\ call[c] = "queued"
  /\ cancelPending(c, "queue_timeout")
  /\ UNCHANGED <<held, aborted>>

----------------------------------------------------------------------------
(* grantNext, called by release: the first lease that is not cancelled. *)

Live == {i \in 1..Len(pending) : call[pending[i]] = "queued"}

\* Mistake for KeepsLanePromise: the newest lease is granted.
grantNextSlip(c, outcome) ==
  IF Live = {}
    THEN /\ held' = FALSE
         /\ pending' = <<>>
         /\ call' = [call EXCEPT ![c] = outcome]
    ELSE LET i == Max(Live)
         IN /\ pending' = RemoveAt(pending, i)
            /\ call' = [call EXCEPT ![c] = outcome, ![pending[i]] = "granted"]
            /\ UNCHANGED held

\* Mistake for WaitersAreServed: the lane is set free for the next to come.
FreeLaneSlip(c, outcome) ==
  /\ held' = FALSE
  /\ call' = [call EXCEPT ![c] = outcome]
  /\ UNCHANGED pending

grantNext(c, outcome) ==
  IF Live = {}
    THEN /\ held' = FALSE
         /\ pending' = <<>>
         /\ call' = [call EXCEPT ![c] = outcome]
    ELSE LET i == Min(Live)
         IN /\ pending' = SubSeq(pending, i + 1, Len(pending))
            /\ call' = [call EXCEPT ![c] = outcome, ![pending[i]] = "granted"]
            /\ UNCHANGED held

\* run, resumed with its lease: the work begins ...
Enter(c) ==
  /\ call[c] = "granted"
  /\ c \notin aborted
  /\ call' = [call EXCEPT ![c] = "working"]
  /\ UNCHANGED <<held, pending, aborted>>

\* Mistake for LaneTellsTheTruth: the throw passes the release by.
WithdrawSlip(c) ==
  /\ call[c] = "granted"
  /\ c \in aborted
  /\ call' = [call EXCEPT ![c] = "aborted"]
  /\ UNCHANGED <<held, pending, aborted>>

\* ... unless the signal was aborted since the grant: run throws, and the
\* finally clause gives the lane on.
Withdraw(c) ==
  /\ call[c] = "granted"
  /\ c \in aborted
  /\ grantNext(c, "aborted")
  /\ UNCHANGED aborted

\* The work settles, with a result or an error; the finally clause releases.
Settle(c) ==
  /\ call[c] = "working"
  /\ grantNext(c, "returned")
  /\ UNCHANGED aborted

LaneStep(c) ==
  Acquire(c) \/ Abort(c) \/ TimeOut(c) \/ Enter(c) \/ Withdraw(c) \/ Settle(c)

LaneNext == \E c \in Calls : LaneStep(c)

LaneSpec == LaneInit /\ [][LaneNext]_laneVars

----------------------------------------------------------------------------
(* Properties. *)

\* At most one call owns the lane, from its grant to the end of its work:
\* also when clients go away between the grant and the work.
OneAtATime == \A c, d \in Calls : Owner(c) /\ Owner(d) => c = d

\* The flag and the queue tell the truth: the lane is held exactly while a
\* call owns it (no release is lost, none happens twice), and the queue holds
\* exactly the calls that wait, each once (no cancelled lease keeps a place).
LaneTellsTheTruth ==
  /\ held <=> \E c \in Calls : Owner(c)
  /\ \A c \in Calls :
       call[c] = "queued" <=> \E i \in 1..Len(pending) : pending[i] = c
  /\ \A i, j \in 1..Len(pending) : pending[i] = pending[j] => i = j

\* The queue stays within its limit and nobody waits for a free lane.
QueueIsBounded ==
  /\ Len(pending) <= MaxQueued
  /\ pending # <<>> => held

\* The lane is the promised one: first come, first served, nobody overtakes,
\* and it is never left free while somebody waits.
Promise == INSTANCE LanePromise WITH
  owners <- {c \in Calls : Owner(c)},
  line   <- pending

KeepsLanePromise == Promise!Spec

\* Every call that waits gets its turn or leaves, as long as the work in the
\* lane settles: no handover is lost, whoever gives up around it.
WaitersAreServed ==
  \A c \in Calls : call[c] = "queued" ~> call[c] # "queued"
=============================================================================
