------------------------- MODULE RequestLaneProofs -------------------------
(***************************************************************************)
(* Proofs about the request lane, for any set of callers and any limit.    *)
(* The four invariants are inductive together: the flag is right only      *)
(* while one call owns the lane, and a grant goes to one caller only while *)
(* the queue holds each waiting call once.                                 *)
(***************************************************************************)
EXTENDS RequestLane, TLAPS

LaneInv == LaneTypeOK /\ OneAtATime /\ LaneTellsTheTruth /\ QueueIsBounded

\* Every queued lease is live, so grantNext takes the head of the queue.
LEMMA AllAreLive ==
  ASSUME LaneInv
  PROVE  /\ Live = 1..Len(pending)
         /\ Live = {} <=> pending = <<>>
         /\ Live # {} => Min(Live) = 1
  <1>1. Live = 1..Len(pending)
    BY DEF LaneInv, LaneTypeOK, LaneTellsTheTruth, Live
  <1>2. Live = {} <=> pending = <<>>
    <2>1. pending \in Seq(Calls)
      BY DEF LaneInv, LaneTypeOK
    <2>2. Len(pending) \in Nat /\ (pending = <<>> <=> Len(pending) = 0)
      BY <2>1
    <2> QED BY <1>1, <2>2
  <1>3. ASSUME Live # {} PROVE Min(Live) = 1
    <2>1. Len(pending) \in Nat /\ 1 \in Live /\ \A y \in Live : 1 <= y
      BY <1>1, <1>3 DEF LaneInv, LaneTypeOK
    <2>2. \A x \in Live : (\A y \in Live : x <= y) => x = 1
      BY <1>1, <2>1
    <2> QED BY <2>1, <2>2 DEF Min
  <1> QED BY <1>1, <1>2, <1>3

\* What release does to the lane, in terms of its queue's head.
LEMMA GrantNextTakesTheHead ==
  ASSUME LaneInv, NEW c \in Calls, NEW outcome, grantNext(c, outcome)
  PROVE  \/ /\ pending = <<>> /\ pending' = <<>>
            /\ held' = FALSE
            /\ call' = [call EXCEPT ![c] = outcome]
         \/ /\ pending # <<>> /\ pending' = Tail(pending)
            /\ held' = held
            /\ call' = [call EXCEPT ![c] = outcome, ![Head(pending)] = "granted"]
  <1>1. CASE pending = <<>>
    BY <1>1, AllAreLive DEF grantNext
  <1>2. CASE pending # <<>>
    <2>1. Live # {} /\ Min(Live) = 1
      BY <1>2, AllAreLive
    <2>2. pending \in Seq(Calls)
      BY DEF LaneInv, LaneTypeOK
    <2>3. SubSeq(pending, 1 + 1, Len(pending)) = Tail(pending) /\ pending[1] = Head(pending)
      BY <1>2, <2>2
    <2> QED BY <1>2, <2>1, <2>3 DEF grantNext
  <1> QED BY <1>1, <1>2

\* What splice leaves of a queue.
LEMMA RemoveAtFacts ==
  ASSUME NEW S, NEW s \in Seq(S), NEW i \in 1..Len(s)
  PROVE  /\ RemoveAt(s, i) \in Seq(S)
         /\ Len(RemoveAt(s, i)) = Len(s) - 1
         /\ \A j \in 1..(Len(s) - 1) :
              RemoveAt(s, i)[j] = IF j < i THEN s[j] ELSE s[j + 1]
  <1> DEFINE a == SubSeq(s, 1, i - 1)
             b == SubSeq(s, i + 1, Len(s))
  <1>1. Len(s) \in Nat /\ i \in Nat /\ 1 <= i /\ i <= Len(s)
    OBVIOUS
  <1>2. a \in Seq(S) /\ Len(a) = i - 1 /\ \A j \in 1..(i - 1) : a[j] = s[j]
    BY <1>1
  <1>3. b \in Seq(S) /\ Len(b) = Len(s) - i
        /\ \A j \in 1..(Len(s) - i) : b[j] = s[i + j]
    BY <1>1
  <1> HIDE DEF a, b
  <1>4. /\ a \o b \in Seq(S) /\ Len(a \o b) = Len(a) + Len(b)
        /\ \A j \in 1..(Len(a) + Len(b)) :
             (a \o b)[j] = IF j <= Len(a) THEN a[j] ELSE b[j - Len(a)]
    <2>1. a \in Seq(S) /\ b \in Seq(S)
      BY <1>2, <1>3
    <2>2. a \o b \in Seq(S)
      BY <2>1
    <2>3. Len(a \o b) = Len(a) + Len(b)
      BY <2>1
    <2>4. \A j \in 1..(Len(a) + Len(b)) :
             (a \o b)[j] = IF j <= Len(a) THEN a[j] ELSE b[j - Len(a)]
      BY <2>1
    <2> QED BY <2>2, <2>3, <2>4
  <1>5. RemoveAt(s, i) = a \o b
    BY DEF RemoveAt, a, b
  <1>6. ASSUME NEW j \in 1..(Len(s) - 1)
        PROVE  (a \o b)[j] = IF j < i THEN s[j] ELSE s[j + 1]
    <2>1. CASE j < i
      BY <2>1, <1>1, <1>2, <1>3, <1>4
    <2>2. CASE ~(j < i)
      <3>1. j - (i - 1) \in 1..(Len(s) - i) /\ i + (j - (i - 1)) = j + 1
        BY <2>2, <1>1
      <3>2. ~(j <= Len(a)) /\ j \in 1..(Len(a) + Len(b)) /\ j - Len(a) = j - (i - 1)
        BY <2>2, <1>1, <1>2, <1>3
      <3>3. (a \o b)[j] = b[j - (i - 1)]
        BY <3>2, <1>4
      <3>4. b[j - (i - 1)] = s[j + 1]
        BY <3>1, <1>3
      <3> QED BY <2>2, <3>3, <3>4
    <2> QED BY <2>1, <2>2
  <1>7. Len(a) + Len(b) = Len(s) - 1
    BY <1>1, <1>2, <1>3
  <1> QED BY <1>4, <1>5, <1>6, <1>7

\* A lease is taken out of the queue: the other waiting calls keep their order.
LEMMA CancelKeepsInv ==
  ASSUME LaneInv, NEW c \in Calls, NEW error \in Ended,
         call[c] = "queued", cancelPending(c, error), UNCHANGED held,
         aborted' \subseteq Signalled
  PROVE  LaneInv'
  <1>1. PICK i \in 1..Len(pending) : pending[i] = c /\ pending' = RemoveAt(pending, i)
    BY DEF cancelPending
  <1>2. call' = [call EXCEPT ![c] = error]
    BY DEF cancelPending
  <1>3. pending \in Seq(Calls) /\ Len(pending) \in Nat
    BY DEF LaneInv, LaneTypeOK
  <1>4. /\ pending' \in Seq(Calls) /\ Len(pending') = Len(pending) - 1
        /\ \A j \in 1..(Len(pending) - 1) :
             pending'[j] = IF j < i THEN pending[j] ELSE pending[j + 1]
    BY <1>1, <1>3, RemoveAtFacts
  <1>5. LaneTypeOK'
    BY <1>2, <1>4 DEF LaneInv, LaneTypeOK, Status, Ended
  <1>6. \A d \in Calls : Owner(d)' <=> Owner(d)
    BY <1>2 DEF LaneInv, LaneTypeOK, Owner, Ended
  <1>7. \A d \in Calls :
          (\E j \in 1..Len(pending') : pending'[j] = d)
            <=> (d # c /\ \E j \in 1..Len(pending) : pending[j] = d)
    <2> TAKE d \in Calls
    <2>1. ASSUME NEW j \in 1..Len(pending'), pending'[j] = d
          PROVE  d # c /\ \E k \in 1..Len(pending) : pending[k] = d
      BY <2>1, <1>1, <1>3, <1>4 DEF LaneInv, LaneTellsTheTruth
    <2>2. ASSUME d # c, NEW k \in 1..Len(pending), pending[k] = d
          PROVE  \E j \in 1..Len(pending') : pending'[j] = d
      <3>1. CASE k < i
        <4>1. k \in 1..Len(pending') /\ pending'[k] = d
          BY <2>2, <3>1, <1>3, <1>4
        <4> QED BY <4>1
      <3>2. CASE k > i
        <4>1. k - 1 \in 1..Len(pending') /\ pending'[k - 1] = d
          BY <2>2, <3>2, <1>3, <1>4
        <4> QED BY <4>1
      <3> QED BY <2>2, <1>1, <3>1, <3>2
    <2> QED BY <2>1, <2>2
  <1>8. LaneTellsTheTruth'
    <2>1. (held <=> \E d \in Calls : Owner(d))'
      BY <1>6 DEF LaneInv, LaneTellsTheTruth
    <2>2. \A d \in Calls : call'[d] = "queued" <=> (d # c /\ call[d] = "queued")
      BY <1>2 DEF LaneInv, LaneTypeOK, Ended
    <2>3. \A d \in Calls :
            call'[d] = "queued" <=> \E j \in 1..Len(pending') : pending'[j] = d
      BY <2>2, <1>7 DEF LaneInv, LaneTellsTheTruth
    <2>4. ASSUME NEW j \in 1..Len(pending'), NEW k \in 1..Len(pending'),
                 pending'[j] = pending'[k]
          PROVE  j = k
      <3> DEFINE was(n) == IF n < i THEN n ELSE n + 1
      <3>1. was(j) \in 1..Len(pending) /\ was(k) \in 1..Len(pending)
        BY <1>3, <1>4
      <3>2. pending[was(j)] = pending[was(k)]
        BY <2>4, <1>3, <1>4
      <3>3. was(j) = was(k)
        BY <3>1, <3>2 DEF LaneInv, LaneTellsTheTruth
      <3> QED BY <3>3, <1>3, <1>4
    <2> QED BY <2>1, <2>3, <2>4 DEF LaneTellsTheTruth
  <1>9. OneAtATime' /\ QueueIsBounded'
    <2>1. OneAtATime'
      BY <1>6 DEF LaneInv, OneAtATime
    <2>2. pending # <<>> /\ Len(pending) <= MaxQueued /\ held
      BY <1>1, <1>3 DEF LaneInv, QueueIsBounded
    <2> QED BY <2>1, <2>2, <1>3, <1>4, LaneAssumption DEF QueueIsBounded
  <1> QED BY <1>5, <1>8, <1>9 DEF LaneInv

\* The owner lets go and the head of the queue, if any, is granted the lane.
LEMMA ReleaseKeepsInv ==
  ASSUME LaneInv, NEW c \in Calls, NEW outcome \in Ended,
         Owner(c), grantNext(c, outcome), UNCHANGED aborted
  PROVE  LaneInv'
  <1>1. pending \in Seq(Calls) /\ Len(pending) \in Nat /\ call \in [Calls -> Status]
    BY DEF LaneInv, LaneTypeOK
  <1>2. \A d \in Calls : Owner(d) <=> d = c
    BY DEF LaneInv, OneAtATime
  <1>3. call[c] # "queued" /\ held
    BY <1>2 DEF Owner, LaneInv, LaneTellsTheTruth
  <1>a. CASE /\ pending = <<>> /\ pending' = <<>>
             /\ held' = FALSE
             /\ call' = [call EXCEPT ![c] = outcome]
    <2>1. LaneTypeOK'
      BY <1>a, <1>1 DEF LaneInv, LaneTypeOK, Status, Ended
    <2>2. \A d \in Calls : ~Owner(d)'
      BY <1>a, <1>1, <1>2 DEF Owner, Ended
    <2>3. \A d \in Calls : call'[d] # "queued"
      BY <1>a, <1>1, <1>3 DEF LaneInv, LaneTellsTheTruth, Ended
    <2>4. Len(pending') = 0
      BY <1>a
    <2> QED BY <1>a, <2>1, <2>2, <2>3, <2>4, LaneAssumption
            DEF LaneInv, OneAtATime, LaneTellsTheTruth, QueueIsBounded
  <1>b. CASE /\ pending # <<>> /\ pending' = Tail(pending)
             /\ held' = held
             /\ call' = [call EXCEPT ![c] = outcome, ![Head(pending)] = "granted"]
    <2> DEFINE h == Head(pending)
    <2>1. /\ h \in Calls /\ h = pending[1] /\ 1 \in 1..Len(pending)
          /\ pending' \in Seq(Calls) /\ Len(pending') = Len(pending) - 1
          /\ \A j \in 1..(Len(pending) - 1) : pending'[j] = pending[j + 1]
      BY <1>b, <1>1
    <2>2. call[h] = "queued" /\ h # c
      BY <2>1, <1>3 DEF LaneInv, LaneTellsTheTruth
    <2>3. /\ call'[h] = "granted" /\ call'[c] = outcome
          /\ \A d \in Calls \ {c, h} : call'[d] = call[d]
          /\ call' \in [Calls -> Status]
      BY <1>b, <1>1, <2>1, <2>2 DEF Status, Inside
    <2> HIDE DEF h
    <2>4. LaneTypeOK'
      BY <1>b, <2>1, <2>3 DEF LaneInv, LaneTypeOK
    <2>5. \A d \in Calls : Owner(d)' <=> d = h
      BY <1>2, <2>1, <2>2, <2>3 DEF Owner, Ended
    <2>6. \A d \in Calls :
            (\E j \in 1..Len(pending') : pending'[j] = d)
              <=> (d # h /\ \E j \in 1..Len(pending) : pending[j] = d)
      <3> TAKE d \in Calls
      <3>1. ASSUME NEW j \in 1..Len(pending'), pending'[j] = d
            PROVE  d # h /\ \E k \in 1..Len(pending) : pending[k] = d
        <4>1. j + 1 \in 1..Len(pending) /\ pending[j + 1] = d /\ j + 1 # 1
          BY <3>1, <1>1, <2>1
        <4> QED BY <4>1, <2>1 DEF LaneInv, LaneTellsTheTruth
      <3>2. ASSUME d # h, NEW k \in 1..Len(pending), pending[k] = d
            PROVE  \E j \in 1..Len(pending') : pending'[j] = d
        <4>1. k - 1 \in 1..Len(pending') /\ pending'[k - 1] = d
          BY <3>2, <1>1, <2>1
        <4> QED BY <4>1
      <3> QED BY <3>1, <3>2
    <2>7. \A d \in Calls : call'[d] = "queued" <=> (d # h /\ call[d] = "queued")
      BY <1>1, <1>3, <2>1, <2>2, <2>3 DEF Ended
    <2>8. LaneTellsTheTruth'
      <3>1. (held <=> \E d \in Calls : Owner(d))'
        BY <1>b, <1>3, <2>1, <2>5
      <3>2. \A d \in Calls :
              call'[d] = "queued" <=> \E j \in 1..Len(pending') : pending'[j] = d
        BY <2>6, <2>7 DEF LaneInv, LaneTellsTheTruth
      <3>3. \A j, k \in 1..Len(pending') : pending'[j] = pending'[k] => j = k
        BY <1>1, <2>1 DEF LaneInv, LaneTellsTheTruth
      <3> QED BY <3>1, <3>2, <3>3 DEF LaneTellsTheTruth
    <2>9. OneAtATime' /\ QueueIsBounded'
      <3>1. OneAtATime'
        BY <2>5 DEF OneAtATime
      <3>2. Len(pending) <= MaxQueued
        BY DEF LaneInv, QueueIsBounded
      <3> QED BY <3>1, <3>2, <1>b, <1>1, <1>3, <2>1, LaneAssumption DEF QueueIsBounded
    <2> QED BY <2>4, <2>8, <2>9 DEF LaneInv
  <1> QED BY <1>a, <1>b, GrantNextTakesTheHead

\* A call begins outside the queue and the lane.
LEMMA AcquireKeepsInv ==
  ASSUME LaneInv, NEW c \in Calls, Acquire(c)
  PROVE  LaneInv'
  <1>1. /\ pending \in Seq(Calls) /\ Len(pending) \in Nat
        /\ call \in [Calls -> Status] /\ held \in BOOLEAN /\ aborted \subseteq Signalled
    BY DEF LaneInv, LaneTypeOK
  <1>2. call[c] \notin Inside /\ aborted' \subseteq Signalled
    BY <1>1 DEF Acquire, RefuseAborted, Take, RefuseFull, Enqueue, NewSignal
  <1>3. ~Owner(c) /\ call[c] # "queued"
    BY <1>2 DEF Owner, Inside
  <1>a. ASSUME NEW e \in Ended, call' = [call EXCEPT ![c] = e], UNCHANGED <<held, pending>>
        PROVE  LaneInv'
    <2>1. LaneTypeOK'
      BY <1>a, <1>1, <1>2 DEF LaneTypeOK, Status
    <2>2. \A d \in Calls : /\ Owner(d)' <=> Owner(d)
                           /\ call'[d] = "queued" <=> call[d] = "queued"
      BY <1>a, <1>1, <1>3 DEF Owner, Ended
    <2> QED BY <1>a, <2>1, <2>2 DEF LaneInv, OneAtATime, LaneTellsTheTruth, QueueIsBounded
  <1>4. CASE RefuseAborted(c)
    BY <1>4, <1>a DEF RefuseAborted, Ended
  <1>5. CASE RefuseFull(c)
    BY <1>5, <1>a DEF RefuseFull, Ended
  <1>6. CASE Take(c)
    <2>1. ~held /\ held' = TRUE /\ pending' = pending /\ call' = [call EXCEPT ![c] = "granted"]
      BY <1>6 DEF Take
    <2>2. pending = <<>> /\ \A d \in Calls : ~Owner(d)
      BY <2>1 DEF LaneInv, LaneTellsTheTruth, QueueIsBounded
    <2>3. \A d \in Calls : /\ Owner(d)' <=> d = c
                           /\ call'[d] = "queued" <=> call[d] = "queued"
      BY <2>1, <2>2, <1>1, <1>3 DEF Owner
    <2>4. LaneTypeOK'
      BY <2>1, <1>1, <1>2 DEF LaneTypeOK, Status, Inside
    <2> QED BY <2>1, <2>3, <2>4 DEF LaneInv, OneAtATime, LaneTellsTheTruth, QueueIsBounded
  <1>7. CASE Enqueue(c)
    <2>1. /\ held /\ held' = held /\ Len(pending) < MaxQueued
          /\ pending' = Append(pending, c) /\ call' = [call EXCEPT ![c] = "queued"]
      BY <1>7 DEF Enqueue
    <2>2. /\ pending' \in Seq(Calls) /\ Len(pending') = Len(pending) + 1
          /\ \A j \in 1..Len(pending) : pending'[j] = pending[j]
          /\ pending'[Len(pending) + 1] = c
      BY <2>1, <1>1
    <2>3. LaneTypeOK'
      BY <2>1, <2>2, <1>1, <1>2 DEF LaneTypeOK, Status, Inside
    <2>4. \A d \in Calls : /\ Owner(d)' <=> Owner(d)
                           /\ call'[d] = "queued" <=> (d = c \/ call[d] = "queued")
      BY <2>1, <1>1, <1>3 DEF Owner
    <2>5. \A j \in 1..Len(pending) : pending[j] # c
      BY <1>3 DEF LaneInv, LaneTellsTheTruth
    <2>6. \A d \in Calls :
            (\E j \in 1..Len(pending') : pending'[j] = d)
              <=> (d = c \/ \E j \in 1..Len(pending) : pending[j] = d)
      BY <2>2, <1>1
    <2>7. \A j, k \in 1..Len(pending') : pending'[j] = pending'[k] => j = k
      BY <2>2, <2>5, <1>1 DEF LaneInv, LaneTellsTheTruth
    <2>8. LaneTellsTheTruth'
      BY <2>1, <2>4, <2>6, <2>7 DEF LaneInv, LaneTellsTheTruth
    <2>9. QueueIsBounded'
      BY <2>1, <2>2, <1>1, LaneAssumption DEF QueueIsBounded
    <2> QED BY <2>3, <2>4, <2>8, <2>9 DEF LaneInv, OneAtATime
  <1> QED BY <1>4, <1>5, <1>6, <1>7 DEF Acquire

LEMMA StepKeepsInv ==
  ASSUME LaneInv, [LaneNext]_laneVars
  PROVE  LaneInv'
  <1>1. CASE UNCHANGED laneVars
    BY <1>1 DEF laneVars, LaneInv, LaneTypeOK, OneAtATime, LaneTellsTheTruth,
                QueueIsBounded, Owner
  <1>2. ASSUME NEW c \in Calls, LaneStep(c) PROVE LaneInv'
    <2>1. CASE Acquire(c)
      BY <2>1, AcquireKeepsInv
    <2>2. CASE Abort(c)
      <3>1. aborted' \subseteq Signalled /\ held' = held
        BY <2>2 DEF Abort, LaneInv, LaneTypeOK
      <3>2. CASE call[c] = "queued"
        BY <2>2, <3>1, <3>2, CancelKeepsInv DEF Abort, Ended
      <3>3. CASE call[c] # "queued"
        BY <2>2, <3>1, <3>3 DEF Abort, LaneInv, LaneTypeOK, OneAtATime,
           LaneTellsTheTruth, QueueIsBounded, Owner
      <3> QED BY <3>2, <3>3
    <2>3. CASE TimeOut(c)
      <3>1. aborted' \subseteq Signalled
        BY <2>3 DEF TimeOut, LaneInv, LaneTypeOK
      <3> QED BY <2>3, <3>1, CancelKeepsInv DEF TimeOut, Ended
    <2>4. CASE Enter(c)
      <3>1. /\ call[c] = "granted" /\ call' = [call EXCEPT ![c] = "working"]
            /\ UNCHANGED <<held, pending, aborted>>
        BY <2>4 DEF Enter
      <3>2. call \in [Calls -> Status]
        BY DEF LaneInv, LaneTypeOK
      <3>3. \A d \in Calls : /\ Owner(d)' <=> Owner(d)
                             /\ call'[d] = "queued" <=> call[d] = "queued"
        BY <3>1, <3>2 DEF Owner
      <3>4. call' \in [Calls -> Status]
        BY <3>1, <3>2 DEF Status, Inside
      <3> QED BY <3>1, <3>3, <3>4 DEF LaneInv, LaneTypeOK, OneAtATime,
              LaneTellsTheTruth, QueueIsBounded
    <2>5. CASE Withdraw(c)
      BY <2>5, ReleaseKeepsInv DEF Withdraw, Owner, Ended
    <2>6. CASE Settle(c)
      BY <2>6, ReleaseKeepsInv DEF Settle, Owner, Ended
    <2> QED BY <1>2, <2>1, <2>2, <2>3, <2>4, <2>5, <2>6 DEF LaneStep
  <1> QED BY <1>1, <1>2 DEF LaneNext

LEMMA InitHasInv == LaneInit => LaneInv
  <1> SUFFICES ASSUME LaneInit PROVE LaneInv
    OBVIOUS
  <1>1. LaneTypeOK
    <2>1. "idle" \in Status
      BY DEF Status
    <2>2. call \in [Calls -> Status]
      BY <2>1 DEF LaneInit
    <2>3. pending \in Seq(Calls)
      BY DEF LaneInit
    <2> QED BY <2>2, <2>3 DEF LaneInit, LaneTypeOK
  <1>2. \A c \in Calls : call[c] = "idle"
    BY DEF LaneInit
  <1>3. Len(pending) = 0 /\ pending = <<>> /\ held = FALSE
    BY DEF LaneInit
  <1> QED BY <1>1, <1>2, <1>3, LaneAssumption
          DEF LaneInv, OneAtATime, LaneTellsTheTruth, QueueIsBounded, Owner

LEMMA LaneAlwaysHasInv == LaneSpec => []LaneInv
  BY InitHasInv, StepKeepsInv, PTL DEF LaneSpec

----------------------------------------------------------------------------

\* The lane's variables keep their types, for any callers and any limit.
THEOREM LaneIsTyped == LaneSpec => []LaneTypeOK
  <1>1. LaneInv => LaneTypeOK
    BY DEF LaneInv
  <1> QED BY <1>1, LaneAlwaysHasInv, PTL

\* Mutual exclusion: no two calls ever own the lane, whichever clients leave
\* between a grant and the work it is for.
THEOREM LaneExcludes == LaneSpec => []OneAtATime
  <1>1. LaneInv => OneAtATime
    BY DEF LaneInv
  <1> QED BY <1>1, LaneAlwaysHasInv, PTL

\* The flag is set exactly while a call owns the lane and the queue holds
\* exactly the waiting calls: a release is neither lost nor doubled.
THEOREM LaneIsTruthful == LaneSpec => []LaneTellsTheTruth
  <1>1. LaneInv => LaneTellsTheTruth
    BY DEF LaneInv
  <1> QED BY <1>1, LaneAlwaysHasInv, PTL

\* The queue never grows past its limit, and never outlives the owner.
THEOREM LaneIsBounded == LaneSpec => []QueueIsBounded
  <1>1. LaneInv => QueueIsBounded
    BY DEF LaneInv
  <1> QED BY <1>1, LaneAlwaysHasInv, PTL

----------------------------------------------------------------------------

owners == {c \in Calls : Owner(c)}

LEMMA StepIsPromised ==
  ASSUME LaneInv, [LaneNext]_laneVars
  PROVE  [Promise!Next]_(Promise!vars)
  <1> SUFFICES Promise!Next \/ (owners' = owners /\ pending' = pending)
    BY DEF Promise!vars, owners
  <1>0. /\ pending \in Seq(Calls) /\ Len(pending) \in Nat
        /\ call \in [Calls -> Status]
    BY DEF LaneInv, LaneTypeOK
  <1>u. CASE UNCHANGED laneVars
    BY <1>u DEF laneVars, owners, Owner
  <1>r. ASSUME NEW c \in Calls, NEW outcome \in Ended, Owner(c), grantNext(c, outcome)
        PROVE  Promise!PassOn
    <2>1. owners = {c}
      BY <1>r DEF owners, LaneInv, OneAtATime
    <2>2. CASE /\ pending = <<>> /\ pending' = <<>>
               /\ call' = [call EXCEPT ![c] = outcome]
      <3>1. owners' = {}
        BY <2>1, <2>2, <1>0 DEF owners, Owner, Ended
      <3> QED BY <2>1, <2>2, <3>1 DEF Promise!PassOn, owners
    <2>3. CASE /\ pending # <<>> /\ pending' = Tail(pending)
               /\ call' = [call EXCEPT ![c] = outcome, ![Head(pending)] = "granted"]
      <3>1. Head(pending) \in Calls /\ Head(pending) = pending[1] /\ 1 \in 1..Len(pending)
        BY <2>3, <1>0
      <3>2. Head(pending) # c
        BY <3>1, <1>r DEF LaneInv, LaneTellsTheTruth, Owner
      <3>3. owners' = {Head(pending)}
        BY <2>1, <2>3, <3>1, <3>2, <1>0 DEF owners, Owner, Ended
      <3> QED BY <2>1, <2>3, <3>3 DEF Promise!PassOn, owners
    <2> QED BY <1>r, <2>2, <2>3, GrantNextTakesTheHead
  <1>c. ASSUME NEW c \in Calls, NEW error \in Ended, call[c] = "queued",
               cancelPending(c, error)
        PROVE  \E i \in 1..Len(pending) : Promise!Leave(i)
    <2>1. PICK i \in 1..Len(pending) : pending' = RemoveAt(pending, i)
      BY <1>c DEF cancelPending
    <2>2. owners' = owners
      BY <1>c, <1>0 DEF cancelPending, owners, Owner, Ended
    <2> QED BY <2>1, <2>2 DEF Promise!Leave, owners, RemoveAt, Promise!RemoveAt
  <1>s. ASSUME NEW c \in Calls, LaneStep(c)
        PROVE  Promise!Next \/ (owners' = owners /\ pending' = pending)
    <2>1. ASSUME call[c] \notin Inside, NEW e \in Ended, call' = [call EXCEPT ![c] = e],
                 pending' = pending
          PROVE  owners' = owners /\ pending' = pending
      BY <2>1, <1>0 DEF owners, Owner, Ended, Inside
    <2>2. CASE RefuseAborted(c)
      BY <2>1, <2>2 DEF RefuseAborted, NewSignal, Ended
    <2>3. CASE RefuseFull(c)
      BY <2>1, <2>3 DEF RefuseFull, NewSignal, Ended
    <2>4. CASE Take(c)
      <3>1. owners = {} /\ owners' = {c} /\ pending' = pending
        BY <2>4, <1>0 DEF Take, owners, Owner, LaneInv, LaneTellsTheTruth
      <3>2. Promise!Take(c)
        BY <3>1 DEF Promise!Take, owners
      <3> QED BY <3>2 DEF Promise!Next
    <2>5. CASE Enqueue(c)
      <3>1. held /\ call[c] \notin Inside /\ pending' = Append(pending, c)
            /\ call' = [call EXCEPT ![c] = "queued"]
        BY <2>5 DEF Enqueue, NewSignal
      <3>2. owners # {} /\ owners' = owners /\ c \notin owners
        BY <3>1, <1>0 DEF owners, Owner, Inside, LaneInv, LaneTellsTheTruth
      <3>3. c \notin Promise!Waiting
        BY <3>1 DEF Promise!Waiting, Inside, LaneInv, LaneTellsTheTruth
      <3>4. Promise!Join(c)
        BY <3>1, <3>2, <3>3 DEF Promise!Join, owners
      <3> QED BY <3>4 DEF Promise!Next
    <2>6. CASE Abort(c)
      <3>1. CASE call[c] = "queued"
        BY <2>6, <3>1, <1>c DEF Abort, Ended, Promise!Next
      <3>2. CASE call[c] # "queued"
        BY <2>6, <3>2 DEF Abort, owners, Owner
      <3> QED BY <3>1, <3>2
    <2>7. CASE TimeOut(c)
      BY <2>7, <1>c DEF TimeOut, Ended, Promise!Next
    <2>8. CASE Enter(c)
      BY <2>8, <1>0 DEF Enter, owners, Owner
    <2>9. CASE Withdraw(c) \/ Settle(c)
      BY <2>9, <1>r DEF Withdraw, Settle, Owner, Ended, Promise!Next
    <2> QED BY <1>s, <2>2, <2>3, <2>4, <2>5, <2>6, <2>7, <2>8, <2>9 DEF LaneStep, Acquire
  <1> QED BY <1>u, <1>s DEF LaneNext

\* The queue with its aborts, timers and handovers implements the promised
\* lane: one owner, first come first served, never free while calls wait.
THEOREM LaneKeepsItsPromise == LaneSpec => KeepsLanePromise
  <1>1. LaneInit => Promise!Init
    BY DEF LaneInit, Promise!Init, Owner
  <1> QED BY <1>1, StepIsPromised, LaneAlwaysHasInv, PTL
          DEF LaneSpec, KeepsLanePromise, Promise!Spec
=============================================================================
