----------------------- MODULE WorkspaceTeamD1Proofs -----------------------
(***************************************************************************)
(* Proofs about the workspace team on D1, for every set of people, keys,   *)
(* calls and sign-ins and every limit on attempts.                         *)
(***************************************************************************)
EXTENDS WorkspaceTeamD1, FiniteSetTheorems, TLAPS

ACall == [key : Keys, request : Requests]

----------------------------------------------------------------------------
(* The inductive invariant. *)

\* Why the team cannot be read: an invitation the head still lists was used.
Broken ==
  \E p \in People :
    invitation[p].status = "consumed" /\ head.digest.invitations[p] # Blank

RowsOK ==
  /\ \A p \in People : invitation[p].status = "none" => invitation[p].version = 0
  /\ \A p \in People : invitation[p].status = "open" => invitation[p].role # "none"
  /\ Readable \/ Broken

\* Sign-ins without an invitation to use are those of newcomers.
SignInsOK ==
  \A s \in SignIns :
    signIn[s].phase = "planned" /\ signIn[s].role = "none" => signIn[s].found = "none"

ReceiptsOK ==
  /\ IsFiniteSet(log)
  /\ \A r \in log : r.version <= head.version
  /\ ReceiptsMatchVersions

\* The team a request was drafted on is the current one or older.
DraftOK(c) ==
  phase[c] # "idle" =>
    \/ Request(c).expected = head
    \/ Request(c).expected.version < head.version

\* An attempt has seen its actor authorised, and the row it saw is current
\* for as long as the team of the draft is.
AttemptOK(c) ==
  phase[c] \in InAttempt =>
    /\ authority[c].row.status = "active"
    /\ authority[c].row.role = "workspace_admin" \/ Actor(c) \in Granted
    /\ authority[c].stamp <= stamp[Actor(c)]
    /\ Request(c).expected = head => authority[c].row = member[Actor(c)]

PlanOK(c) ==
  phase[c] = "planned" => Plannable(Request(c), Actor(c), seen[c])

AnswerOK(c) ==
  /\ phase[c] = "done" =>
       \E r \in log : r.key = Key(c) /\ r.request = Request(c)
  /\ \A r \in log : r.call = c => phase[c] \in {"done", "failed"}

\* Nothing can come of a request: its team is gone for good or its key is
\* used.
Outdated(c) == Request(c).expected # head \/ Broken
Used(c) == Receipt(Key(c)) # {}

\* Each conflict so far goes back to a renewal, but for one if the request
\* has become hopeless.
Excused(c, renewals, hopeless) ==
  \/ attempts[c] <= renewals
  \/ hopeless /\ attempts[c] <= renewals + 1

\* An attempt of a hopeless request ends before it is planned.
ConflictOK(c) ==
  /\ phase[c] \in {"idle", "drafted", "authorised"} => attempts[c] = 0
  /\ phase[c] # "idle" => attempts[c] <= stamp[Actor(c)]
  /\ phase[c] = "attempting" =>
       Excused(c, stamp[Actor(c)] - 1, Outdated(c) \/ Used(c) \/ Actor(c) \notin live)
  /\ phase[c] \in InAttempt => authority[c].stamp > 0
  /\ phase[c] = "rechecked" =>
       Excused(c, authority[c].stamp - 1, Outdated(c) \/ Used(c))
  /\ phase[c] = "relooked" => Excused(c, authority[c].stamp - 1, Outdated(c))
  /\ phase[c] = "read" =>
       Excused(c, authority[c].stamp - 1, Request(c).expected # seen[c])
  /\ phase[c] = "planned" => attempts[c] < authority[c].stamp
  /\ phase[c] # "contended" => attempts[c] < MaxAttempts

CallOK(c) ==
  DraftOK(c) /\ AttemptOK(c) /\ PlanOK(c) /\ AnswerOK(c) /\ ConflictOK(c)

StampsOK == \A p \in People : stamp[p] > 0

TeamOK == RowsOK /\ SignInsOK /\ ReceiptsOK /\ AnOwnerRemains /\ StampsOK

IInv == TypeOK /\ TeamOK /\ \A c \in Calls : CallOK(c)

----------------------------------------------------------------------------
(* Types. *)

LEMMA TeamType ==
  ASSUME TypeOK
  PROVE  Team \in Teams
BY DEF TypeOK, Team, Teams, MemberRows, InvitationRows, Blank

LEMMA RowType ==
  ASSUME NEW w \in WishType, NEW team \in Teams
  PROVE  /\ w.kind = "member" => Row(w, team) \in MemberRows
         /\ w.kind # "member" => Row(w, team) \in InvitationRows
         /\ Row(w, team).version \in Nat
BY DEF Row, Teams, WishType, MemberRows, InvitationRows

LEMMA NewRowType ==
  ASSUME NEW w \in WishType, NEW row
  PROVE  /\ w.kind = "member" /\ row \in MemberRows => NewRow(w, row) \in MemberRows
         /\ w.kind # "member" /\ row \in InvitationRows => NewRow(w, row) \in InvitationRows
<1>1. w.action \in {"invite", "change_role", "remove"} /\ w.kind \in {"member", "invitation"}
      /\ w.role \in Roles /\ (w.action = "invite" => w.kind = "invitation")
  BY DEF WishType
<1>2. CASE w.action = "invite"
  BY <1>1, <1>2 DEF NewRow, InvitationRows
<1>3. CASE w.action = "change_role"
  <2>1. NewRow(w, row) = [row EXCEPT !.role = w.role, !.version = row.version + 1]
    BY <1>3 DEF NewRow
  <2>2. ASSUME row \in MemberRows PROVE NewRow(w, row) \in MemberRows
    <3>1. NewRow(w, row) =
            [status |-> row.status, role |-> w.role, version |-> row.version + 1]
      BY <2>1, <2>2 DEF MemberRows
    <3> QED BY <1>1, <2>2, <3>1 DEF MemberRows
  <2>3. ASSUME row \in InvitationRows PROVE NewRow(w, row) \in InvitationRows
    <3>1. NewRow(w, row) =
            [status |-> row.status, role |-> w.role, version |-> row.version + 1]
      BY <2>1, <2>3 DEF InvitationRows
    <3> QED BY <1>1, <2>3, <3>1 DEF InvitationRows
  <2> QED BY <2>2, <2>3
<1>4. CASE w.action = "remove"
  <2>1. NewRow(w, row) =
          [row EXCEPT !.status = IF w.kind = "member" THEN "deactivated" ELSE "revoked",
                      !.version = row.version + 1]
    BY <1>4 DEF NewRow
  <2>2. ASSUME row \in MemberRows, w.kind = "member" PROVE NewRow(w, row) \in MemberRows
    <3>1. NewRow(w, row) =
            [status |-> "deactivated", role |-> row.role, version |-> row.version + 1]
      BY <2>1, <2>2 DEF MemberRows
    <3> QED BY <2>2, <3>1 DEF MemberRows
  <2>3. ASSUME row \in InvitationRows, w.kind # "member"
        PROVE  NewRow(w, row) \in InvitationRows
    <3>1. NewRow(w, row) =
            [status |-> "revoked", role |-> row.role, version |-> row.version + 1]
      BY <2>1, <2>3 DEF InvitationRows
    <3> QED BY <2>3, <3>1 DEF InvitationRows
  <2> QED BY <2>2, <2>3
<1> QED BY <1>1, <1>2, <1>3, <1>4

LEMMA ResultingTeamType ==
  ASSUME NEW w \in WishType, NEW team \in Teams
  PROVE  ResultingTeam(w, team) \in Teams
<1>1. Blank \in MemberRows /\ Blank \in InvitationRows
  BY DEF Blank, MemberRows, InvitationRows
<1>2. w.kind = "member" => NewRow(w, Row(w, team)) \in MemberRows
  BY RowType, NewRowType
<1>3. w.kind # "member" => NewRow(w, Row(w, team)) \in InvitationRows
  BY RowType, NewRowType
<1> DEFINE row == IF w.action = "remove" THEN Blank ELSE NewRow(w, Row(w, team))
<1>4. w.kind = "member" => row \in MemberRows
  BY <1>1, <1>2
<1>5. w.kind # "member" => row \in InvitationRows
  BY <1>1, <1>3
<1>6. ResultingTeam(w, team) =
        IF w.kind = "member"
          THEN [team EXCEPT !.members = [team.members EXCEPT ![w.person] = row]]
          ELSE [team EXCEPT !.invitations = [team.invitations EXCEPT ![w.person] = row]]
  BY DEF ResultingTeam
<1> HIDE DEF row
<1> QED BY <1>4, <1>5, <1>6 DEF Teams

LEMMA InitTyped == Init => TypeOK
<1> SUFFICES ASSUME Init PROVE TypeOK
  OBVIOUS
<1>1. member \in [People -> MemberRows]
  BY DEF Init, InitialMember, MemberRows, Blank, Roles
<1>2. invitation \in [People -> InvitationRows]
  BY DEF Init, StandingInvitations, InvitationRows, Blank, Roles
<1>3. Team \in Teams
  BY <1>1, <1>2 DEF Team, Teams, MemberRows, InvitationRows, Blank
<1>4. head \in Heads
  BY <1>3 DEF Init, Heads
<1>5. log \subseteq [key : Keys, request : Requests, version : Nat, call : Calls]
  BY DEF Init
<1>6. live \subseteq People /\ stamp \in [People -> Nat] /\ expired \subseteq People
  BY TeamAssumption DEF Init
<1>7. phase \in [Calls -> Phases] /\ attempts \in [Calls -> 0..MaxAttempts]
  BY TeamAssumption DEF Init, Phases
<1>8. \A c \in Calls :
        phase[c] = "idle" /\ asked[c] = None /\ authority[c] = None /\ seen[c] = None
  BY DEF Init
<1>9. /\ asked \in [Calls -> [key : Keys, request : Requests] \cup {None}]
      /\ authority \in [Calls -> [row : MemberRows, stamp : Nat] \cup {None}]
      /\ seen \in [Calls -> Heads \cup {None}]
  BY DEF Init
<1>10. signIn \in [SignIns -> [phase : {"idle", "linked", "planned", "ended"},
                               found : {"none", "pending_review"},
                               role  : Roles \cup {"none"}]]
  BY DEF Init, SignInAt
<1>11. "idle" \notin InAttempt
  BY DEF InAttempt
<1> QED
  BY <1>1, <1>2, <1>4, <1>5, <1>6, <1>7, <1>8, <1>9, <1>10, <1>11 DEF TypeOK

LEMMA CallTyped ==
  ASSUME TypeOK, NEW c \in Calls, phase[c] # "idle"
  PROVE  /\ asked[c] \in ACall
         /\ Key(c) \in Keys /\ Actor(c) \in People /\ Request(c) \in Requests
         /\ Request(c).wish \in WishType /\ Request(c).expected \in Heads
BY TeamAssumption DEF TypeOK, ACall, Key, Actor, Request, Requests

\* A step of a call that leaves the rows alone keeps the types, if what it
\* stores is typed.
LEMMA MoveTyped ==
  ASSUME TypeOK, NEW c \in Calls, NEW from, NEW to \in Phases \ {"idle"},
         NEW auth, NEW team, NEW ask \in ACall,
         Move(c, from, to, auth, team),
         UNCHANGED <<rows, sessions, signIn>>,
         asked' = [asked EXCEPT ![c] = ask],
         to \in InAttempt => auth \in [row : MemberRows, stamp : Nat],
         to \notin InAttempt \cup Answers => auth = None,
         to \in {"read", "planned"} => team \in Heads,
         to \notin {"read", "planned"} \cup Answers => team = None,
         attempts' \in [Calls -> 0..MaxAttempts]
  PROVE  TypeOK'
<1>1. UNCHANGED <<member, invitation, head, log, live, stamp, expired, signIn>>
  BY DEF rows, sessions
<1>2. phase' \in [Calls -> Phases] /\ \A d \in Calls : d # c => phase'[d] = phase[d]
  BY DEF Move, TypeOK
<1>3. phase'[c] = to
  BY DEF Move, TypeOK
<1>4. /\ asked' \in [Calls -> ACall \cup {None}]
      /\ asked'[c] = ask
      /\ \A d \in Calls : d # c => asked'[d] = asked[d]
  BY DEF TypeOK, ACall
<1>5. InAttempt \cap Answers = {} /\ {"read", "planned"} \cap Answers = {}
  BY DEF InAttempt, Answers
<1>6. /\ authority' \in [Calls -> [row : MemberRows, stamp : Nat] \cup {None}]
      /\ authority'[c] = IF to \in Answers THEN None ELSE auth
      /\ \A d \in Calls : d # c => authority'[d] = authority[d]
  BY <1>5 DEF TypeOK, Move
<1>7. /\ seen' \in [Calls -> Heads \cup {None}]
      /\ seen'[c] = IF to \in Answers THEN None ELSE team
      /\ \A d \in Calls : d # c => seen'[d] = seen[d]
  BY <1>5 DEF TypeOK, Move
<1>8. asked'[c] # None
  BY <1>4, TeamAssumption DEF ACall
<1>9. authority'[c] = None <=> to \notin InAttempt
  BY <1>5, <1>6, TeamAssumption
<1>10. seen'[c] = None <=> to \notin {"read", "planned"}
  BY <1>5, <1>7, TeamAssumption
<1>11. \A d \in Calls :
         /\ asked'[d] = None <=> phase'[d] = "idle"
         /\ authority'[d] = None <=> phase'[d] \notin InAttempt
         /\ seen'[d] = None <=> phase'[d] \notin {"read", "planned"}
  BY <1>2, <1>3, <1>4, <1>6, <1>7, <1>8, <1>9, <1>10 DEF TypeOK
<1> QED
  BY <1>1, <1>2, <1>4, <1>6, <1>7, <1>11 DEF TypeOK, ACall

----------------------------------------------------------------------------
(* Steps of calls that leave the rows alone. *)

LEMMA MoveLocals ==
  ASSUME TypeOK, NEW c \in Calls, NEW from, NEW to, NEW auth, NEW team, NEW ask, NEW n,
         Move(c, from, to, auth, team),
         asked' = [asked EXCEPT ![c] = ask],
         attempts' = [attempts EXCEPT ![c] = n]
  PROVE  /\ phase'[c] = to /\ asked'[c] = ask /\ attempts'[c] = n
         /\ authority'[c] = IF to \in Answers THEN None ELSE auth
         /\ seen'[c] = IF to \in Answers THEN None ELSE team
         /\ \A d \in Calls : d # c =>
              /\ phase'[d] = phase[d] /\ asked'[d] = asked[d]
              /\ attempts'[d] = attempts[d]
              /\ authority'[d] = authority[d] /\ seen'[d] = seen[d]
BY DEF TypeOK, Move

\* What is known of the others depends on the rows, the sessions and their
\* own locals.
LEMMA CallFrame ==
  ASSUME NEW d \in Calls, CallOK(d), UNCHANGED <<rows, sessions>>,
         phase'[d] = phase[d], asked'[d] = asked[d], attempts'[d] = attempts[d],
         authority'[d] = authority[d], seen'[d] = seen[d]
  PROVE  CallOK(d)'
<1>1. UNCHANGED <<member, invitation, head, log, live, stamp, expired>>
  BY DEF rows, sessions
<1>2. Key(d)' = Key(d) /\ Actor(d)' = Actor(d) /\ Request(d)' = Request(d)
  BY DEF Key, Actor, Request
<1>3. Broken' = Broken
  BY <1>1 DEF Broken
<1>4. Outdated(d)' = Outdated(d) /\ Used(d)' = Used(d)
  BY <1>1, <1>2, <1>3 DEF Outdated, Used, Receipt
<1>5. DraftOK(d)' /\ AttemptOK(d)'
  BY <1>1, <1>2 DEF CallOK, DraftOK, AttemptOK
<1>6. PlanOK(d)'
  BY <1>1, <1>2 DEF CallOK, PlanOK
<1>7. AnswerOK(d)'
  BY <1>1, <1>2 DEF CallOK, AnswerOK
<1>8. ConflictOK(d)'
  BY <1>1, <1>2, <1>4 DEF CallOK, ConflictOK, Excused
<1> QED BY <1>5, <1>6, <1>7, <1>8 DEF CallOK

LEMMA TeamFrame ==
  ASSUME TeamOK, UNCHANGED <<rows, sessions, signIn>>
  PROVE  TeamOK'
<1>1. UNCHANGED <<member, invitation, head, log, live, stamp, expired, signIn>>
  BY DEF rows, sessions
<1>2. Team' = Team
  BY <1>1 DEF Team
<1>3. RowsOK'
  BY <1>1, <1>2 DEF TeamOK, RowsOK, Readable, Broken
<1>4. SignInsOK' /\ StampsOK'
  BY <1>1 DEF TeamOK, SignInsOK, StampsOK
<1>5. ReceiptsOK'
  BY <1>1 DEF TeamOK, ReceiptsOK, ReceiptsMatchVersions
<1>6. AnOwnerRemains'
  BY <1>2 DEF TeamOK, AnOwnerRemains, Owners
<1> QED BY <1>3, <1>4, <1>5, <1>6 DEF TeamOK

LEMMA CallMoves ==
  ASSUME IInv, NEW c \in Calls, NEW from, NEW to \in Phases \ {"idle"},
         NEW auth, NEW team, NEW ask \in ACall, NEW n \in 0..MaxAttempts,
         Move(c, from, to, auth, team),
         UNCHANGED <<rows, sessions, signIn>>,
         asked' = [asked EXCEPT ![c] = ask],
         attempts' = [attempts EXCEPT ![c] = n],
         to \in InAttempt => auth \in [row : MemberRows, stamp : Nat],
         to \notin InAttempt \cup Answers => auth = None,
         to \in {"read", "planned"} => team \in Heads,
         to \notin {"read", "planned"} \cup Answers => team = None,
         CallOK(c)'
  PROVE  IInv'
<1>0. TypeOK /\ TeamOK /\ \A d \in Calls : CallOK(d)
  BY DEF IInv
<1>1. attempts' \in [Calls -> 0..MaxAttempts]
  BY <1>0 DEF TypeOK
<1>2. TypeOK'
  BY <1>0, <1>1, MoveTyped
<1>3. TeamOK'
  BY <1>0, TeamFrame
<1>4. ASSUME NEW d \in Calls, d # c PROVE CallOK(d)'
  <2>1. /\ phase'[d] = phase[d] /\ asked'[d] = asked[d] /\ attempts'[d] = attempts[d]
        /\ authority'[d] = authority[d] /\ seen'[d] = seen[d]
    BY <1>0, <1>4, MoveLocals
  <2> QED BY <1>0, <2>1, CallFrame
<1> QED BY <1>2, <1>3, <1>4 DEF IInv

\* asked and attempts as they are, in the form of the lemmas above.
LEMMA AsIs ==
  ASSUME TypeOK, NEW c \in Calls
  PROVE  asked = [asked EXCEPT ![c] = asked[c]] /\ attempts = [attempts EXCEPT ![c] = attempts[c]]
BY DEF TypeOK

\* A call that goes on with the same request.
LEMMA CallGoesOn ==
  ASSUME IInv, NEW c \in Calls,
         NEW from, from \in {"drafted", "authorised", "attempting"} \cup InAttempt,
         NEW to, to \in {"authorised", "attempting"} \cup InAttempt,
         NEW auth, NEW team,
         Move(c, from, to, auth, team),
         UNCHANGED <<rows, sessions, asked, attempts, signIn>>,
         to \in InAttempt => auth \in [row : MemberRows, stamp : Nat],
         to \notin InAttempt => auth = None,
         to \in {"read", "planned"} => team \in Heads,
         to \notin {"read", "planned"} => team = None,
         AttemptOK(c)', PlanOK(c)', ConflictOK(c)'
  PROVE  IInv'
<1>0. TypeOK /\ CallOK(c)
  BY DEF IInv
<1>1. /\ to \in Phases \ {"idle"} /\ to \notin Answers
      /\ to \notin {"done", "failed", "contended", "idle"}
      /\ from \notin {"done", "failed", "contended", "idle"}
  BY DEF Phases, InAttempt, Answers
<1>2. phase[c] = from
  BY DEF Move
<1>3. asked[c] \in ACall
  BY <1>0, <1>1, <1>2, CallTyped
<1>4. phase'[c] = to
  BY <1>0 DEF Move, TypeOK
<1>5. UNCHANGED <<head, log>> /\ Request(c)' = Request(c)
  BY DEF rows, Request
<1>6. DraftOK(c)'
  BY <1>0, <1>1, <1>2, <1>5 DEF CallOK, DraftOK
<1>7. AnswerOK(c)'
  BY <1>0, <1>1, <1>2, <1>4, <1>5 DEF CallOK, AnswerOK
<1>8. CallOK(c)'
  BY <1>6, <1>7 DEF CallOK
<1>9. /\ asked' = [asked EXCEPT ![c] = asked[c]]
      /\ attempts' = [attempts EXCEPT ![c] = attempts[c]]
      /\ attempts[c] \in 0..MaxAttempts
  BY <1>0, AsIs DEF TypeOK
<1> QED BY <1>1, <1>3, <1>8, <1>9, CallMoves

\* A call that is answered without having written.
LEMMA CallEnds ==
  ASSUME IInv, NEW c \in Calls,
         NEW from, from \in {"drafted", "authorised", "attempting"} \cup InAttempt,
         NEW to \in Answers \ {"contended"}, NEW auth, NEW team,
         Move(c, from, to, auth, team),
         UNCHANGED <<rows, sessions, asked, attempts, signIn>>,
         to = "done" => \E r \in log : r.key = Key(c) /\ r.request = Request(c)
  PROVE  IInv'
<1>0. TypeOK /\ CallOK(c)
  BY DEF IInv
<1>1. /\ to \in Phases \ {"idle"} /\ to \in Answers /\ to \notin InAttempt
      /\ to \notin {"drafted", "authorised", "attempting", "idle"}
      /\ to \notin {"rechecked", "relooked", "read", "planned"}
      /\ from \notin {"done", "failed", "contended", "idle"}
  BY DEF Phases, InAttempt, Answers
<1>2. phase[c] = from
  BY DEF Move
<1>3. asked[c] \in ACall
  BY <1>0, <1>1, <1>2, CallTyped
<1>4. phase'[c] = to
  BY <1>0 DEF Move, TypeOK
<1>5. /\ UNCHANGED <<head, log, stamp>> /\ Request(c)' = Request(c)
      /\ Key(c)' = Key(c) /\ Actor(c)' = Actor(c)
  BY DEF rows, sessions, Request, Key, Actor
<1>6. DraftOK(c)'
  BY <1>0, <1>1, <1>2, <1>5 DEF CallOK, DraftOK
<1>7. AnswerOK(c)'
  BY <1>0, <1>1, <1>2, <1>4, <1>5 DEF CallOK, AnswerOK
<1>8. AttemptOK(c)' /\ PlanOK(c)'
  BY <1>1, <1>4 DEF AttemptOK, PlanOK
<1>9. ConflictOK(c)'
  BY <1>0, <1>1, <1>2, <1>4, <1>5 DEF CallOK, ConflictOK
<1>10. CallOK(c)'
  BY <1>6, <1>7, <1>8, <1>9 DEF CallOK
<1>11. /\ asked' = [asked EXCEPT ![c] = asked[c]]
       /\ attempts' = [attempts EXCEPT ![c] = attempts[c]]
       /\ attempts[c] \in 0..MaxAttempts
  BY <1>0, AsIs DEF TypeOK
<1>12. to \notin {"read", "planned"} /\ to \in InAttempt \cup Answers
       /\ to \in {"read", "planned"} \cup Answers
  BY <1>1
<1> QED BY <1>1, <1>3, <1>10, <1>11, <1>12, CallMoves
----------------------------------------------------------------------------
(* One lemma per step of a call. *)

LEMMA ReplayIsTrue ==
  ASSUME NEW c \in Calls, Receipt(Key(c)) # {}
  PROVE  /\ Replay(c) \in {"done", "request_changed"}
         /\ Replay(c) = "done" => \E r \in log : r.key = Key(c) /\ r.request = Request(c)
BY DEF Replay, Receipt

\* Drafting and resending: a call begins, with no attempt behind it.
LEMMA CallBegins ==
  ASSUME IInv, NEW c \in Calls, NEW ask \in ACall,
         Move(c, "idle", "drafted", None, None),
         asked' = [asked EXCEPT ![c] = ask],
         UNCHANGED <<rows, sessions, attempts, signIn>>,
         ask.request.expected = head \/ ask.request.expected.version < head.version
  PROVE  IInv'
<1>0. TypeOK /\ CallOK(c)
  BY DEF IInv
<1>1. "drafted" \in Phases \ {"idle"} /\ "drafted" \notin InAttempt \cup Answers
  BY DEF Phases, InAttempt, Answers
<1>2. phase[c] = "idle"
  BY DEF Move
<1>3. /\ attempts' = [attempts EXCEPT ![c] = attempts[c]]
      /\ attempts[c] \in 0..MaxAttempts
  BY <1>0, AsIs DEF TypeOK
<1>4. phase'[c] = "drafted" /\ asked'[c] = ask /\ attempts'[c] = attempts[c]
  BY <1>0 DEF Move, TypeOK
<1>5. UNCHANGED <<head, log, stamp>>
  BY DEF rows, sessions
<1>6. ActorOf[ask.key] \in People /\ Actor(c)' = ActorOf[ask.key] /\ Request(c)' = ask.request
  BY <1>4, TeamAssumption DEF ACall, Actor, Key, Request
<1>7. DraftOK(c)'
  BY <1>5, <1>6 DEF DraftOK
<1>8. AttemptOK(c)' /\ PlanOK(c)'
  BY <1>1, <1>4 DEF AttemptOK, PlanOK
<1>9. AnswerOK(c)'
  BY <1>0, <1>2, <1>4, <1>5 DEF CallOK, AnswerOK
<1>10. attempts[c] = 0 /\ 0 < MaxAttempts
  BY <1>0, <1>2, TeamAssumption DEF CallOK, ConflictOK
<1>11. stamp[ActorOf[ask.key]] \in Nat
  BY <1>0, <1>6 DEF TypeOK
<1>12. ConflictOK(c)'
  BY <1>1, <1>4, <1>5, <1>6, <1>10, <1>11 DEF ConflictOK
<1>13. CallOK(c)'
  BY <1>7, <1>8, <1>9, <1>12 DEF CallOK
<1> QED BY <1>1, <1>3, <1>13, CallMoves

LEMMA DraftStep ==
  ASSUME IInv, NEW c \in Calls, NEW i \in Intents[c], Draft(c, i[1], i[2])
  PROVE  IInv'
<1>0. TypeOK
  BY DEF IInv
<1>1. i[1] \in Keys /\ i[2] \in WishType
  BY TeamAssumption
<1> DEFINE ask == [key |-> i[1],
                   request |-> [wish |-> i[2], version |-> Row(i[2], Team).version,
                                expected |-> head]]
<1>2. Row(i[2], Team).version \in Nat
  BY <1>0, <1>1, TeamType, RowType
<1>3. ask \in ACall
  BY <1>0, <1>1, <1>2 DEF ACall, Requests, TypeOK
<1>4. ask.request.expected = head
  OBVIOUS
<1>5. /\ Move(c, "idle", "drafted", None, None)
      /\ asked' = [asked EXCEPT ![c] = ask]
      /\ UNCHANGED <<rows, sessions, attempts, signIn>>
  BY DEF Draft
<1> HIDE DEF ask
<1> QED BY <1>3, <1>4, <1>5, CallBegins

LEMMA ResendStep ==
  ASSUME IInv, NEW c \in Calls, NEW d \in Calls, Resend(c, d)
  PROVE  IInv'
<1>1. phase[d] # "idle" /\ TypeOK /\ CallOK(d)
  BY DEF Resend, IInv
<1>2. asked[d] \in ACall
  BY <1>1, CallTyped
<1>3. \/ asked[d].request.expected = head
      \/ asked[d].request.expected.version < head.version
  BY <1>1 DEF CallOK, DraftOK, Request
<1> QED BY <1>2, <1>3, CallBegins DEF Resend

LEMMA AuthoriseStep ==
  ASSUME IInv, NEW c \in Calls, Authorise(c)
  PROVE  IInv'
<1>1. UNCHANGED <<rows, sessions, asked, attempts, signIn>>
  BY DEF Authorise
<1>2. CASE Authorised(Actor(c))
  <2>1. Move(c, "drafted", "authorised", None, None)
    BY <1>2 DEF Authorise
  <2>2. TypeOK /\ CallOK(c) /\ phase[c] = "drafted"
    BY <2>1 DEF IInv, Move
  <2>3. phase'[c] = "authorised"
    BY <2>1, <2>2 DEF Move, TypeOK
  <2>4. AttemptOK(c)' /\ PlanOK(c)'
    BY <2>3 DEF AttemptOK, PlanOK, InAttempt
  <2>5. UNCHANGED stamp /\ Actor(c)' = Actor(c)
    BY <1>1 DEF sessions, Actor, Key
  <2>6. ConflictOK(c)'
    BY <1>1, <2>2, <2>3, <2>5 DEF CallOK, ConflictOK, InAttempt
  <2>7. "authorised" \notin InAttempt
    BY DEF InAttempt
  <2> QED BY <1>1, <2>1, <2>4, <2>6, <2>7, CallGoesOn
<1>3. CASE ~Authorised(Actor(c))
  <2>1. Move(c, "drafted", "denied", None, None)
    BY <1>3 DEF Authorise
  <2>2. "denied" \in Answers \ {"contended"}
    BY DEF Answers
  <2> QED BY <1>1, <2>1, <2>2, CallEnds
<1> QED BY <1>2, <1>3

LEMMA PreflightStep ==
  ASSUME IInv, NEW c \in Calls, Preflight(c)
  PROVE  IInv'
<1>1. UNCHANGED <<rows, sessions, asked, attempts, signIn>>
  BY DEF Preflight
<1>2. CASE Receipt(Key(c)) = {}
  <2>1. Move(c, "authorised", "attempting", None, None)
    BY <1>2 DEF Preflight
  <2>2. TypeOK /\ CallOK(c) /\ phase[c] = "authorised" /\ StampsOK
    BY <2>1 DEF IInv, TeamOK, Move
  <2>3. phase'[c] = "attempting"
    BY <2>1, <2>2 DEF Move, TypeOK
  <2>4. AttemptOK(c)' /\ PlanOK(c)'
    BY <2>3 DEF AttemptOK, PlanOK, InAttempt
  <2>5. UNCHANGED stamp /\ Actor(c)' = Actor(c)
    BY <1>1 DEF sessions, Actor, Key
  <2>6. stamp[Actor(c)] \in Nat /\ stamp[Actor(c)] > 0
    BY <2>2, CallTyped DEF StampsOK, TypeOK
  <2>7. ConflictOK(c)'
    BY <1>1, <2>2, <2>3, <2>5, <2>6 DEF CallOK, ConflictOK, Excused, InAttempt
  <2>8. "attempting" \notin InAttempt
    BY DEF InAttempt
  <2> QED BY <1>1, <2>1, <2>4, <2>7, <2>8, CallGoesOn
<1>3. CASE Receipt(Key(c)) # {}
  <2>1. Move(c, "authorised", Replay(c), None, None)
    BY <1>3 DEF Preflight
  <2>2. Replay(c) \in Answers \ {"contended"}
    BY <1>3, ReplayIsTrue DEF Answers
  <2> QED BY <1>1, <1>3, <2>1, <2>2, CallEnds, ReplayIsTrue
<1> QED BY <1>2, <1>3

LEMMA RecheckStep ==
  ASSUME IInv, NEW c \in Calls, Recheck(c)
  PROVE  IInv'
<1>1. UNCHANGED <<rows, sessions, asked, attempts, signIn>>
  BY DEF Recheck
<1> DEFINE auth == [row |-> member[Actor(c)], stamp |-> stamp[Actor(c)]]
<1>2. CASE Authorised(Actor(c))
  <2>1. Move(c, "attempting", "rechecked", auth, None)
    BY <1>2 DEF Recheck
  <2>2. TypeOK /\ CallOK(c) /\ phase[c] = "attempting" /\ StampsOK
    BY <2>1 DEF IInv, TeamOK, Move
  <2>3. Actor(c) \in People
    BY <2>2, CallTyped
  <2>4. auth \in [row : MemberRows, stamp : Nat] /\ auth.stamp > 0
    BY <2>2, <2>3 DEF TypeOK, StampsOK
  <2>5. "rechecked" \in InAttempt /\ "rechecked" \notin Answers
    BY DEF InAttempt, Answers
  <2>6. phase'[c] = "rechecked" /\ authority'[c] = auth
    BY <2>1, <2>2, <2>5 DEF Move, TypeOK
  <2>7. /\ UNCHANGED <<member, invitation, head, log, live, stamp, expired>>
        /\ Actor(c)' = Actor(c) /\ Request(c)' = Request(c) /\ Key(c)' = Key(c)
    BY <1>1 DEF rows, sessions, Actor, Key, Request
  <2>8. Outdated(c)' = Outdated(c) /\ Used(c)' = Used(c)
    BY <2>7 DEF Outdated, Used, Broken, Receipt
  <2>9. AttemptOK(c)'
    BY <1>2, <2>4, <2>6, <2>7 DEF AttemptOK, Authorised
  <2>10. PlanOK(c)'
    BY <2>6 DEF PlanOK
  <2>11. Excused(c, auth.stamp - 1, Outdated(c) \/ Used(c))
    BY <1>2, <2>2 DEF CallOK, ConflictOK, Authorised, Excused
  <2>12. ConflictOK(c)'
    BY <1>1, <2>2, <2>4, <2>6, <2>7, <2>8, <2>11 DEF CallOK, ConflictOK, Excused
  <2> HIDE DEF auth
  <2> QED BY <1>1, <2>1, <2>4, <2>5, <2>9, <2>10, <2>12, CallGoesOn
<1>3. CASE ~Authorised(Actor(c))
  <2>1. Move(c, "attempting", "denied", auth, None)
    BY <1>3 DEF Recheck
  <2>2. "denied" \in Answers \ {"contended"}
    BY DEF Answers
  <2> HIDE DEF auth
  <2> QED BY <1>1, <2>1, <2>2, CallEnds
<1> QED BY <1>2, <1>3
\* What an attempt knows stays with it from step to step.
LEMMA AttemptGoesOn ==
  ASSUME IInv, NEW c \in Calls,
         NEW from \in InAttempt, NEW to \in InAttempt, NEW team,
         Move(c, from, to, authority[c], team),
         UNCHANGED <<rows, sessions, asked, attempts, signIn>>,
         to \in {"read", "planned"} => team \in Heads,
         to \notin {"read", "planned"} => team = None,
         to = "planned" => Plannable(Request(c), Actor(c), team),
         to = "relooked" => Excused(c, authority[c].stamp - 1, Outdated(c)),
         to = "read" => Excused(c, authority[c].stamp - 1, Request(c).expected # team),
         to = "planned" => attempts[c] < authority[c].stamp,
         to # "rechecked"
  PROVE  IInv'
<1>1. TypeOK /\ CallOK(c) /\ phase[c] = from
  BY DEF IInv, Move
<1>2. authority[c] \in [row : MemberRows, stamp : Nat]
  BY <1>1 DEF TypeOK
<1>3. to \notin Answers /\ from # "contended" /\ from # "idle"
      /\ to \notin {"idle", "drafted", "authorised", "attempting", "contended"}
  BY DEF InAttempt, Answers
<1>4. /\ phase'[c] = to /\ authority'[c] = authority[c] /\ seen'[c] = team
      /\ attempts'[c] = attempts[c]
  BY <1>1, <1>3 DEF Move, TypeOK
<1>5. /\ UNCHANGED <<member, invitation, head, log, live, stamp, expired>>
      /\ Actor(c)' = Actor(c) /\ Request(c)' = Request(c) /\ Key(c)' = Key(c)
  BY DEF rows, sessions, Actor, Key, Request
<1>6. Outdated(c)' = Outdated(c)
  BY <1>5 DEF Outdated, Broken
<1>7. AttemptOK(c)'
  BY <1>1, <1>4, <1>5 DEF CallOK, AttemptOK
<1>8. PlanOK(c)'
  BY <1>4, <1>5 DEF PlanOK
<1>9. ConflictOK(c)'
  BY <1>1, <1>3, <1>4, <1>5, <1>6 DEF CallOK, ConflictOK, Excused
<1> QED BY <1>2, <1>7, <1>8, <1>9, CallGoesOn

LEMMA RelookStep ==
  ASSUME IInv, NEW c \in Calls, Relook(c)
  PROVE  IInv'
<1>1. UNCHANGED <<rows, sessions, asked, attempts, signIn>>
  BY DEF Relook
<1>2. "rechecked" \in InAttempt /\ "relooked" \in InAttempt
  BY DEF InAttempt
<1>3. CASE Receipt(Key(c)) = {}
  <2>1. Move(c, "rechecked", "relooked", authority[c], None)
    BY <1>3 DEF Relook
  <2>2. Excused(c, authority[c].stamp - 1, Outdated(c))
    BY <1>3, <2>1 DEF IInv, CallOK, ConflictOK, Excused, Used, Move
  <2> QED BY <1>1, <1>2, <2>1, <2>2, AttemptGoesOn
<1>4. CASE Receipt(Key(c)) # {}
  <2>1. Move(c, "rechecked", Replay(c), authority[c], None)
    BY <1>4 DEF Relook
  <2>2. Replay(c) \in Answers \ {"contended"}
    BY <1>4, ReplayIsTrue DEF Answers
  <2> QED BY <1>1, <1>2, <1>4, <2>1, <2>2, CallEnds, ReplayIsTrue
<1> QED BY <1>3, <1>4

LEMMA ReadableIsWhole ==
  ASSUME TypeOK, Readable
  PROVE  ~Broken
BY DEF Readable, Broken, Team, Blank, TypeOK

LEMMA ReadTeamStep ==
  ASSUME IInv, NEW c \in Calls, ReadTeam(c)
  PROVE  IInv'
<1>1. UNCHANGED <<rows, sessions, asked, attempts, signIn>>
  BY DEF ReadTeam
<1>2. "relooked" \in InAttempt /\ "read" \in InAttempt
  BY DEF InAttempt
<1>3. CASE Readable
  <2>1. Move(c, "relooked", "read", authority[c], head)
    BY <1>3 DEF ReadTeam
  <2>2. ~Broken /\ head \in Heads
    BY <1>3, ReadableIsWhole DEF IInv, TypeOK
  <2>3. Excused(c, authority[c].stamp - 1, Request(c).expected # head)
    BY <2>1, <2>2 DEF IInv, CallOK, ConflictOK, Excused, Outdated, Move
  <2> QED BY <1>1, <1>2, <2>1, <2>2, <2>3, AttemptGoesOn
<1>4. CASE ~Readable
  <2>1. Move(c, "relooked", "failed", authority[c], head)
    BY <1>4 DEF ReadTeam
  <2>2. "failed" \in Answers \ {"contended"}
    BY DEF Answers
  <2> QED BY <1>1, <1>2, <2>1, <2>2, CallEnds
<1> QED BY <1>3, <1>4

LEMMA PlanStep ==
  ASSUME IInv, NEW c \in Calls, Plan(c)
  PROVE  IInv'
<1>1. UNCHANGED <<rows, sessions, asked, attempts, signIn>> /\ phase[c] = "read"
  BY DEF Plan, Move
<1>2. "read" \in InAttempt /\ "planned" \in InAttempt
  BY DEF InAttempt
<1>3. CASE ~Torn(seen[c].digest) /\ Plannable(Request(c), Actor(c), seen[c])
  <2>1. Move(c, "read", "planned", authority[c], seen[c])
    BY <1>3 DEF Plan
  <2>2. seen[c] \in Heads /\ authority[c] \in [row : MemberRows, stamp : Nat]
        /\ attempts[c] \in Nat
    BY <1>1, <1>2 DEF IInv, TypeOK
  <2>3. Request(c).expected = seen[c]
    BY <1>3 DEF Plannable, CurrentGuard
  <2>4. Excused(c, authority[c].stamp - 1, Request(c).expected # seen[c])
    BY <1>1 DEF IInv, CallOK, ConflictOK
  <2>5. attempts[c] < authority[c].stamp
    BY <2>2, <2>3, <2>4 DEF Excused
  <2> QED BY <1>1, <1>2, <1>3, <2>1, <2>2, <2>5, AttemptGoesOn
<1>4. CASE Torn(seen[c].digest) \/ ~Plannable(Request(c), Actor(c), seen[c])
  <2>1. PICK to \in {"failed", "refused"} : Move(c, "read", to, authority[c], seen[c])
    BY <1>4 DEF Plan
  <2>2. to \in Answers \ {"contended"} /\ to # "done"
    BY DEF Answers
  <2> QED BY <1>1, <1>2, <2>1, <2>2, CallEnds
<1> QED BY <1>3, <1>4

LEMMA BatchFailsStep ==
  ASSUME IInv, NEW c \in Calls, BatchFails(c)
  PROVE  IInv'
<1>1. "failed" \in Answers \ {"contended"} /\ "planned" \in InAttempt
  BY DEF Answers, InAttempt
<1> QED BY <1>1, CallEnds DEF BatchFails

\* A conflict goes back to a renewal, or the request has become hopeless.
LEMMA ConflictIsExcused ==
  ASSUME IInv, NEW c \in Calls, phase[c] = "planned", ~Guards(c),
         authority[c].stamp = stamp[Actor(c)]
  PROVE  Outdated(c) \/ Used(c) \/ Actor(c) \notin live
<1>1. Request(c).expected = seen[c]
  BY DEF IInv, CallOK, PlanOK, Plannable, CurrentGuard
<1>2. Request(c).expected = head => authority[c].row = member[Actor(c)]
  BY DEF IInv, CallOK, AttemptOK, InAttempt
<1>3. CASE ~AuthorityHolds(c)
  BY <1>2, <1>3 DEF AuthorityHolds, Outdated
<1>4. CASE ~TeamHolds(c)
  BY <1>1, <1>4 DEF TeamHolds, Outdated, IInv, TeamOK, RowsOK, Readable
<1>5. CASE ~ReceiptAbsent(c)
  BY <1>5 DEF ReceiptAbsent, Used
<1> QED BY <1>3, <1>4, <1>5 DEF Guards

LEMMA ConflictStep ==
  ASSUME IInv, NEW c \in Calls, Conflict(c)
  PROVE  IInv'
<1> DEFINE n == attempts[c] + 1
           to == IF n < MaxAttempts THEN "attempting" ELSE "contended"
<1>1. /\ Move(c, "planned", to, None, None)
      /\ ~Guards(c)
      /\ attempts' = [attempts EXCEPT ![c] = n]
      /\ UNCHANGED <<rows, sessions, asked, signIn>>
  BY DEF Conflict
<1>2. TypeOK /\ CallOK(c) /\ phase[c] = "planned"
  BY <1>1 DEF IInv, Move
<1>3. asked[c] \in ACall /\ Actor(c) \in People
  BY <1>2, CallTyped
<1>4. /\ attempts[c] \in Nat /\ attempts[c] < MaxAttempts /\ MaxAttempts \in Nat
      /\ stamp[Actor(c)] \in Nat /\ authority[c] \in [row : MemberRows, stamp : Nat]
  BY <1>2, <1>3, TeamAssumption DEF TypeOK, CallOK, ConflictOK, InAttempt
<1>5. n \in 0..MaxAttempts
  BY <1>4
<1>6. /\ attempts[c] < authority[c].stamp
      /\ authority[c].stamp <= stamp[Actor(c)]
  BY <1>2 DEF CallOK, ConflictOK, AttemptOK, InAttempt
<1>7. n <= stamp[Actor(c)]
  BY <1>4, <1>6
<1>8. \/ n <= stamp[Actor(c)] - 1
      \/ (Outdated(c) \/ Used(c) \/ Actor(c) \notin live) /\ n <= stamp[Actor(c)] - 1 + 1
  <2>1. CASE authority[c].stamp = stamp[Actor(c)]
    BY <1>1, <1>2, <1>4, <1>7, <2>1, ConflictIsExcused
  <2>2. CASE authority[c].stamp # stamp[Actor(c)]
    BY <1>4, <1>6, <2>2
  <2> QED BY <2>1, <2>2
<1>9. /\ to \in Phases \ {"idle"} /\ to \notin InAttempt
      /\ to \in {"attempting", "contended"} /\ (to # "contended" => n < MaxAttempts)
      /\ to \notin {"read", "planned"}
  BY DEF Phases, InAttempt, Answers
<1>10. asked' = [asked EXCEPT ![c] = asked[c]]
  BY <1>1, <1>2, AsIs
<1>11. phase'[c] = to /\ attempts'[c] = n
  BY <1>1, <1>2 DEF Move, TypeOK
<1>12. /\ UNCHANGED <<member, invitation, head, log, live, stamp, expired>>
       /\ Actor(c)' = Actor(c) /\ Request(c)' = Request(c) /\ Key(c)' = Key(c)
  BY <1>1 DEF rows, sessions, Actor, Key, Request
<1>13. Outdated(c)' = Outdated(c) /\ Used(c)' = Used(c)
  BY <1>12 DEF Outdated, Broken, Used, Receipt
<1> HIDE DEF n, to
<1>14. DraftOK(c)'
  BY <1>2, <1>12 DEF CallOK, DraftOK
<1>15. AttemptOK(c)' /\ PlanOK(c)'
  BY <1>9, <1>11 DEF AttemptOK, PlanOK
<1>16. AnswerOK(c)'
  BY <1>2, <1>9, <1>11, <1>12 DEF CallOK, AnswerOK
<1>17. ConflictOK(c)'
  BY <1>7, <1>8, <1>9, <1>11, <1>12, <1>13 DEF ConflictOK, Excused, InAttempt
<1>18. CallOK(c)'
  BY <1>14, <1>15, <1>16, <1>17 DEF CallOK
<1> QED BY <1>1, <1>3, <1>5, <1>9, <1>10, <1>18, CallMoves
----------------------------------------------------------------------------
(* The batch. *)

\* When the batch goes through, the team planned on, the team drafted on and
\* the team as it is are the same.
LEMMA CommitFacts ==
  ASSUME IInv, NEW c \in Calls, Commit(c)
  PROVE  /\ phase[c] = "planned"
         /\ Key(c) \in Keys /\ Actor(c) \in People /\ Request(c) \in Requests
         /\ Request(c).wish \in WishType
         /\ seen[c] = head /\ Request(c).expected = head /\ Team = head.digest
         /\ Receipt(Key(c)) = {}
         /\ Actor(c) \in live /\ member[Actor(c)].status = "active"
         /\ member[Actor(c)].role = "workspace_admin" \/ Actor(c) \in Granted
         /\ Plannable(Request(c), Actor(c), head)
<1>1. phase[c] = "planned" /\ phase[c] \in InAttempt
  BY DEF Commit, Move, InAttempt
<1>2. /\ Key(c) \in Keys /\ Actor(c) \in People /\ Request(c) \in Requests
      /\ Request(c).wish \in WishType
  BY <1>1, CallTyped DEF IInv
<1>3. Plannable(Request(c), Actor(c), seen[c])
  BY <1>1 DEF IInv, CallOK, PlanOK
<1>4. Request(c).expected = seen[c]
  BY <1>3 DEF Plannable, CurrentGuard
<1>5. seen[c] = head /\ Team = head.digest
  BY DEF Commit, Guards, TeamHolds
<1>6. Receipt(Key(c)) = {}
  BY DEF Commit, Guards, ReceiptAbsent
<1>7. Actor(c) \in live /\ member[Actor(c)] = authority[c].row
  BY DEF Commit, Guards, AuthorityHolds
<1>8. /\ authority[c].row.status = "active"
      /\ authority[c].row.role = "workspace_admin" \/ Actor(c) \in Granted
  BY <1>1 DEF IInv, CallOK, AttemptOK
<1> QED BY <1>1, <1>2, <1>3, <1>4, <1>5, <1>6, <1>7, <1>8

LEMMA CommitMember ==
  ASSUME IInv, NEW c \in Calls, Commit(c), Request(c).wish.kind = "member",
         NEW w, w = Request(c).wish, NEW p, p = w.person
  PROVE  /\ p \in People /\ p # Actor(c) /\ w.action \in {"change_role", "remove"}
         /\ member[p].status = "active" /\ member[p] = Team.members[p]
         /\ member' = [member EXCEPT ![p] = NewRow(w, member[p])]
         /\ invitation' = invitation
         /\ NewRow(w, member[p]) \in MemberRows
         /\ NewRow(w, member[p]).version = member[p].version + 1
         /\ w.action = "change_role" => /\ NewRow(w, member[p]).status = "active"
                                        /\ NewRow(w, member[p]).role = w.role
         /\ w.action = "remove" => NewRow(w, member[p]).status = "deactivated"
<1>0. TypeOK
  BY DEF IInv
<1>1. w \in WishType /\ Team = head.digest /\ Plannable(Request(c), Actor(c), head)
  BY CommitFacts
<1>2. p \in People /\ w.action \in {"change_role", "remove"}
  BY <1>1 DEF WishType
<1>3. Team.members[p] # Blank /\ p # Actor(c)
  BY <1>1, <1>2 DEF Plannable, Row
<1>4. member[p].status = "active" /\ member[p] = Team.members[p]
  BY <1>2, <1>3 DEF Team
<1>5. /\ member' = [member EXCEPT ![p] = NewRow(w, member[p])]
      /\ invitation' = invitation
  BY DEF Commit, Apply
<1>6. member[p] \in MemberRows
  BY <1>0, <1>2 DEF TypeOK
<1>7. NewRow(w, member[p]) \in MemberRows
  BY <1>1, <1>6, NewRowType
<1>8. CASE w.action = "change_role"
  <2>1. NewRow(w, member[p]) =
          [member[p] EXCEPT !.role = w.role, !.version = member[p].version + 1]
    BY <1>8 DEF NewRow
  <2>2. NewRow(w, member[p]) =
          [status |-> member[p].status, role |-> w.role, version |-> member[p].version + 1]
    BY <1>6, <2>1 DEF MemberRows
  <2> QED BY <1>2, <1>3, <1>4, <1>5, <1>7, <1>8, <2>2
<1>9. CASE w.action = "remove"
  <2>1. NewRow(w, member[p]) =
          [member[p] EXCEPT !.status = "deactivated", !.version = member[p].version + 1]
    BY <1>9 DEF NewRow
  <2>2. NewRow(w, member[p]) =
          [status |-> "deactivated", role |-> member[p].role,
           version |-> member[p].version + 1]
    BY <1>6, <2>1 DEF MemberRows
  <2> QED BY <1>2, <1>3, <1>4, <1>5, <1>7, <1>9, <2>2
<1> QED BY <1>2, <1>8, <1>9

LEMMA CommitInvitation ==
  ASSUME IInv, NEW c \in Calls, Commit(c), Request(c).wish.kind # "member",
         NEW w, w = Request(c).wish, NEW p, p = w.person
  PROVE  /\ p \in People /\ w.kind = "invitation"
         /\ w.action \in {"invite", "change_role", "remove"}
         /\ w.action = "invite" => invitation[p].status = "none"
         /\ w.action # "invite" =>
              invitation[p].status = "open" /\ invitation[p] = Team.invitations[p]
         /\ invitation' = [invitation EXCEPT ![p] = NewRow(w, invitation[p])]
         /\ member' = member
         /\ NewRow(w, invitation[p]) \in InvitationRows
         /\ NewRow(w, invitation[p]).version = invitation[p].version + 1
         /\ w.action # "remove" => /\ NewRow(w, invitation[p]).status = "open"
                                   /\ NewRow(w, invitation[p]).role # "none"
         /\ w.action = "remove" => NewRow(w, invitation[p]).status = "revoked"
<1>0. TypeOK
  BY DEF IInv
<1>1. w \in WishType /\ Team = head.digest /\ Plannable(Request(c), Actor(c), head)
  BY CommitFacts
<1>2. /\ p \in People /\ w.action \in {"invite", "change_role", "remove"}
      /\ w.kind = "invitation" /\ w.role # "none"
  BY <1>1 DEF WishType, Roles
<1>3. w.action # "invite" =>
        invitation[p].status = "open" /\ invitation[p] = Team.invitations[p]
  BY <1>1, <1>2 DEF Plannable, Row, Team
<1>4. w.action = "invite" => invitation[p].status = "none"
  BY DEF Commit, Unique
<1>5. /\ invitation' = [invitation EXCEPT ![p] = NewRow(w, invitation[p])]
      /\ member' = member
  BY <1>2 DEF Commit, Apply
<1>6. invitation[p] \in InvitationRows
  BY <1>0, <1>2 DEF TypeOK
<1>7. NewRow(w, invitation[p]) \in InvitationRows
  BY <1>1, <1>2, <1>6, NewRowType
<1>8. CASE w.action = "invite"
  <2>1. invitation[p].version = 0
    BY <1>2, <1>4, <1>8 DEF IInv, TeamOK, RowsOK
  <2>2. NewRow(w, invitation[p]) = [status |-> "open", role |-> w.role, version |-> 1]
    BY <1>8 DEF NewRow
  <2> QED BY <1>2, <1>4, <1>5, <1>7, <1>8, <2>1, <2>2
<1>9. CASE w.action = "change_role"
  <2>1. NewRow(w, invitation[p]) =
          [invitation[p] EXCEPT !.role = w.role, !.version = invitation[p].version + 1]
    BY <1>9 DEF NewRow
  <2>2. NewRow(w, invitation[p]) =
          [status |-> invitation[p].status, role |-> w.role,
           version |-> invitation[p].version + 1]
    BY <1>6, <2>1 DEF InvitationRows
  <2> QED BY <1>2, <1>3, <1>5, <1>7, <1>9, <2>2
<1>10. CASE w.action = "remove"
  <2>1. NewRow(w, invitation[p]) =
          [invitation[p] EXCEPT !.status = "revoked", !.version = invitation[p].version + 1]
    BY <1>2, <1>10 DEF NewRow
  <2>2. NewRow(w, invitation[p]) =
          [status |-> "revoked", role |-> invitation[p].role,
           version |-> invitation[p].version + 1]
    BY <1>6, <2>1 DEF InvitationRows
  <2> QED BY <1>2, <1>3, <1>5, <1>7, <1>10, <2>2
<1> QED BY <1>2, <1>8, <1>9, <1>10

\* The digest written is the digest of the team that results.
LEMMA CommitTeam ==
  ASSUME IInv, NEW c \in Calls, Commit(c)
  PROVE  /\ Team' = ResultingTeam(Request(c).wish, Team)
         /\ head' = [version |-> head.version + 1, digest |-> Team']
<1> DEFINE w == Request(c).wish
           p == w.person
           row == IF w.action = "remove" THEN Blank ELSE NewRow(w, Row(w, Team))
<1>0. TypeOK /\ w \in WishType
  BY CommitFacts DEF IInv
<1>1. Team \in Teams
  BY <1>0, TeamType
<1>2. head' = [version |-> head.version + 1, digest |-> ResultingTeam(w, Team)]
  BY CommitFacts DEF Commit, Apply
<1>3. CASE w.kind = "member"
  <2>1. /\ p \in People /\ w.action \in {"change_role", "remove"}
        /\ member[p] = Team.members[p] /\ invitation' = invitation
        /\ member' = [member EXCEPT ![p] = NewRow(w, member[p])]
        /\ w.action = "change_role" => NewRow(w, member[p]).status = "active"
        /\ w.action = "remove" => NewRow(w, member[p]).status = "deactivated"
    BY <1>3, CommitMember
  <2>2. ResultingTeam(w, Team) =
          [Team EXCEPT !.members = [Team.members EXCEPT ![p] = row]]
    BY <1>3 DEF ResultingTeam
  <2>3. Row(w, Team) = member[p]
    BY <1>3, <2>1 DEF Row
  <2>4. row = IF w.action = "remove" THEN Blank ELSE NewRow(w, member[p])
    BY <2>3
  <2> HIDE DEF row
  <2>5. Team'.members = [Team.members EXCEPT ![p] = row]
    BY <1>0, <2>1, <2>4 DEF Team, TypeOK
  <2>6. Team'.invitations = Team.invitations
    BY <2>1 DEF Team
  <2>7. Team' = [members |-> Team'.members, invitations |-> Team'.invitations]
        /\ Team = [members |-> Team.members, invitations |-> Team.invitations]
    BY DEF Team
  <2>8. Team' = ResultingTeam(w, Team)
    BY <2>2, <2>5, <2>6, <2>7
  <2> QED BY <1>2, <2>8
<1>4. CASE w.kind # "member"
  <2>1. /\ p \in People /\ w.action \in {"invite", "change_role", "remove"}
        /\ w.kind = "invitation" /\ member' = member
        /\ w.action # "invite" => invitation[p] = Team.invitations[p]
        /\ invitation' = [invitation EXCEPT ![p] = NewRow(w, invitation[p])]
        /\ w.action # "remove" => NewRow(w, invitation[p]).status = "open"
        /\ w.action = "remove" => NewRow(w, invitation[p]).status = "revoked"
    BY <1>4, CommitInvitation
  <2>2. ResultingTeam(w, Team) =
          [Team EXCEPT !.invitations = [Team.invitations EXCEPT ![p] = row]]
    BY <1>4 DEF ResultingTeam
  <2>3. w.action # "invite" => Row(w, Team) = invitation[p]
    BY <1>4, <2>1 DEF Row
  <2>4. w.action = "invite" => NewRow(w, Row(w, Team)) = NewRow(w, invitation[p])
    BY DEF NewRow
  <2>5. row = IF w.action = "remove" THEN Blank ELSE NewRow(w, invitation[p])
    BY <2>3, <2>4
  <2> HIDE DEF row
  <2>6. Team'.invitations = [Team.invitations EXCEPT ![p] = row]
    BY <1>0, <2>1, <2>5 DEF Team, TypeOK
  <2>7. Team'.members = Team.members
    BY <2>1 DEF Team
  <2>8. Team' = [members |-> Team'.members, invitations |-> Team'.invitations]
        /\ Team = [members |-> Team.members, invitations |-> Team.invitations]
    BY DEF Team
  <2>9. Team' = ResultingTeam(w, Team)
    BY <2>2, <2>6, <2>7, <2>8
  <2> QED BY <1>2, <2>9
<1> QED BY <1>3, <1>4
LEMMA CommitTyped ==
  ASSUME IInv, NEW c \in Calls, Commit(c)
  PROVE  TypeOK'
<1>0. TypeOK
  BY DEF IInv
<1>1. PICK answer \in {"done", "failed"} : Move(c, "planned", answer, None, None)
  BY DEF Commit
<1>2. UNCHANGED <<live, stamp, expired, asked, attempts, signIn>>
  BY DEF Commit, sessions
<1>3. member' \in [People -> MemberRows] /\ invitation' \in [People -> InvitationRows]
  <2>1. CASE Request(c).wish.kind = "member"
    BY <1>0, <2>1, CommitMember DEF TypeOK
  <2>2. CASE Request(c).wish.kind # "member"
    <3> DEFINE w == Request(c).wish
               q == w.person
    <3>1. /\ q \in People /\ member' = member
          /\ invitation' = [invitation EXCEPT ![q] = NewRow(w, invitation[q])]
          /\ NewRow(w, invitation[q]) \in InvitationRows
      BY <2>2, CommitInvitation
    <3> QED BY <1>0, <3>1 DEF TypeOK
  <2> QED BY <2>1, <2>2
<1>4. head' \in Heads
  <2>1. ResultingTeam(Request(c).wish, Team) \in Teams
    BY <1>0, CommitFacts, TeamType, ResultingTeamType
  <2> QED BY <1>0, <2>1, CommitTeam DEF Heads, TypeOK
<1>5. log' \subseteq [key : Keys, request : Requests, version : Nat, call : Calls]
  <2> DEFINE new == [key |-> Key(c), request |-> Request(c),
                     version |-> seen[c].version + 1, call |-> c]
  <2>1. seen[c].version \in Nat
    BY <1>0, CommitFacts DEF TypeOK, Heads
  <2>2. new \in [key : Keys, request : Requests, version : Nat, call : Calls]
    BY <2>1, CommitFacts
  <2>3. log' = log \cup {new}
    BY DEF Commit, Apply
  <2> QED BY <1>0, <2>2, <2>3 DEF TypeOK
<1>6. /\ answer \in Phases /\ answer \in Answers /\ answer # "idle"
      /\ answer \notin InAttempt /\ answer \notin {"read", "planned"}
  BY DEF Phases, Answers, InAttempt
<1>7. phase' \in [Calls -> Phases] /\ phase'[c] = answer
      /\ \A d \in Calls : d # c => phase'[d] = phase[d]
  BY <1>0, <1>1, <1>6 DEF Move, TypeOK
<1>8. /\ authority' \in [Calls -> [row : MemberRows, stamp : Nat] \cup {None}]
      /\ authority'[c] = None
      /\ \A d \in Calls : d # c => authority'[d] = authority[d]
  BY <1>0, <1>1, <1>6 DEF Move, TypeOK
<1>9. /\ seen' \in [Calls -> Heads \cup {None}]
      /\ seen'[c] = None
      /\ \A d \in Calls : d # c => seen'[d] = seen[d]
  BY <1>0, <1>1, <1>6 DEF Move, TypeOK
<1>10. asked[c] # None
  BY <1>0, CommitFacts DEF TypeOK
<1>11. \A d \in Calls :
         /\ asked'[d] = None <=> phase'[d] = "idle"
         /\ authority'[d] = None <=> phase'[d] \notin InAttempt
         /\ seen'[d] = None <=> phase'[d] \notin {"read", "planned"}
  BY <1>0, <1>2, <1>6, <1>7, <1>8, <1>9, <1>10 DEF TypeOK
<1>12. /\ live' \subseteq People /\ stamp' \in [People -> Nat] /\ expired' \subseteq People
       /\ asked' \in [Calls -> [key : Keys, request : Requests] \cup {None}]
       /\ attempts' \in [Calls -> 0..MaxAttempts]
       /\ signIn' \in [SignIns -> [phase : {"idle", "linked", "planned", "ended"},
                                   found : {"none", "pending_review"},
                                   role  : Roles \cup {"none"}]]
  BY <1>0, <1>2 DEF TypeOK
<1> QED BY <1>3, <1>4, <1>5, <1>7, <1>8, <1>9, <1>11, <1>12 DEF TypeOK

\* The last owner stays: who may leave is decided on a team that is still the
\* team when the batch commits.
LEMMA CommitKeepsOwner ==
  ASSUME IInv, NEW c \in Calls, Commit(c)
  PROVE  AnOwnerRemains'
<1> DEFINE w == Request(c).wish
           p == w.person
<1>0. TypeOK /\ Owners(Team) # {}
  BY DEF IInv, TeamOK, AnOwnerRemains
<1>1. CASE w.kind # "member"
  <2>1. member' = member
    BY <1>1, CommitInvitation
  <2>2. Team'.members = Team.members
    BY <2>1 DEF Team
  <2>3. Owners(Team)' = Owners(Team)
    BY <2>2 DEF Owners
  <2> QED BY <1>0, <2>3 DEF AnOwnerRemains
<1>2. CASE w.kind = "member"
  <2>1. /\ p \in People /\ w.action \in {"change_role", "remove"}
        /\ member' = [member EXCEPT ![p] = NewRow(w, member[p])]
        /\ w.action = "change_role" => /\ NewRow(w, member[p]).status = "active"
                                       /\ NewRow(w, member[p]).role = w.role
    BY <1>2, CommitMember
  <2>2. \A q \in People : q # p => Team'.members[q] = Team.members[q]
    BY <1>0, <2>1 DEF Team, TypeOK
  <2>3. \A q \in Owners(Team) : q # p => q \in Owners(Team)'
    BY <2>2 DEF Owners
  <2>4. CASE p \notin Owners(Team)
    BY <1>0, <2>3, <2>4 DEF AnOwnerRemains
  <2>5. CASE p \in Owners(Team) /\ w.action = "change_role" /\ w.role = "workspace_admin"
    <3>1. member'[p].status = "active" /\ member'[p].role = "workspace_admin"
      BY <1>0, <2>1, <2>5 DEF TypeOK
    <3>2. p \in Owners(Team)'
      BY <2>1, <3>1 DEF Owners, Team
    <3> QED BY <3>2 DEF AnOwnerRemains
  <2>6. CASE p \in Owners(Team) /\ (w.action = "remove" \/ w.role # "workspace_admin")
    <3>1. Plannable(Request(c), Actor(c), head) /\ Team = head.digest
      BY CommitFacts
    <3>2. Cardinality(Owners(Team)) > 1
      BY <1>2, <2>1, <2>6, <3>1 DEF Plannable, OwnerMayLeave
    <3>3. Owners(Team) # {p}
      <4>1. Cardinality({p}) = 1
        BY FS_Singleton
      <4> HIDE DEF p
      <4> QED BY <3>2, <4>1
    <3>4. PICK q \in Owners(Team) : q # p
      BY <1>0, <3>3
    <3> QED BY <2>3, <3>4 DEF AnOwnerRemains
  <2> QED BY <2>1, <2>4, <2>5, <2>6
<1> QED BY <1>1, <1>2

LEMMA CommitReceipts ==
  ASSUME IInv, NEW c \in Calls, Commit(c)
  PROVE  ReceiptsOK'
<1> DEFINE new == [key |-> Key(c), request |-> Request(c),
                   version |-> head.version + 1, call |-> c]
<1>0. /\ IsFiniteSet(log) /\ \A r \in log : r.version <= head.version
      /\ \A r, t \in log : r.key = t.key \/ r.version = t.version => r = t
      /\ head.version = Cardinality(log) + 1
      /\ head.version \in Nat
      /\ \A r \in log : r.version \in Nat
  BY DEF IInv, TeamOK, ReceiptsOK, ReceiptsMatchVersions, TypeOK, Heads
<1>1. log' = log \cup {new}
  BY CommitFacts DEF Commit, Apply
<1>2. head'.version = head.version + 1
  BY CommitTeam
<1>3. new.key = Key(c) /\ new.version = head.version + 1
  OBVIOUS
<1> HIDE DEF new
<1>4. \A r \in log : r.key # new.key /\ r.version # new.version
  <2>1. Receipt(Key(c)) = {}
    BY CommitFacts
  <2> QED BY <1>0, <1>3, <2>1 DEF Receipt
<1>5. new \notin log
  BY <1>4
<1>6. IsFiniteSet(log') /\ Cardinality(log') = Cardinality(log) + 1
  BY <1>0, <1>1, <1>5, FS_AddElement
<1>7. \A r \in log' : r.version <= head'.version
  BY <1>0, <1>1, <1>2, <1>3
<1>8. \A r, t \in log' : r.key = t.key \/ r.version = t.version => r = t
  BY <1>0, <1>1, <1>4
<1>9. head'.version = Cardinality(log') + 1
  BY <1>0, <1>2, <1>6
<1> QED BY <1>6, <1>7, <1>8, <1>9 DEF ReceiptsOK, ReceiptsMatchVersions

\* For everybody else the team of their draft is now an old one.
LEMMA CommitOthers ==
  ASSUME IInv, NEW c \in Calls, Commit(c), NEW d \in Calls, d # c
  PROVE  CallOK(d)'
<1>0. TypeOK /\ CallOK(d)
  BY DEF IInv
<1>1. PICK answer \in {"done", "failed"} : Move(c, "planned", answer, None, None)
  BY DEF Commit
<1>2. UNCHANGED <<live, stamp, expired, asked, attempts>>
  BY DEF Commit, sessions
<1>3. phase'[d] = phase[d] /\ authority'[d] = authority[d] /\ seen'[d] = seen[d]
  BY <1>0, <1>1 DEF Move, TypeOK
<1>4. Key(d)' = Key(d) /\ Actor(d)' = Actor(d) /\ Request(d)' = Request(d)
  BY <1>2 DEF Key, Actor, Request
<1>5. head'.version = head.version + 1 /\ head.version \in Nat
  BY <1>0, CommitTeam DEF TypeOK, Heads
<1>6. log \subseteq log' /\ \A r \in log' : r.call = d => r \in log
  BY DEF Commit, Apply
<1>7. phase[d] # "idle" =>
        /\ Request(d).expected.version < head'.version
        /\ Request(d).expected # head'
        /\ Request(d).expected.version \in Nat
  <2> SUFFICES ASSUME phase[d] # "idle"
               PROVE  /\ Request(d).expected.version < head'.version
                      /\ Request(d).expected # head'
                      /\ Request(d).expected.version \in Nat
    OBVIOUS
  <2>1. Request(d).expected.version \in Nat
    BY <1>0, CallTyped DEF Heads
  <2>2. Request(d).expected.version < head'.version
    BY <1>0, <1>5, <2>1 DEF CallOK, DraftOK
  <2> QED BY <1>5, <2>1, <2>2
<1>8. DraftOK(d)'
  BY <1>3, <1>4, <1>7 DEF DraftOK
<1>9. AttemptOK(d)'
  BY <1>0, <1>2, <1>3, <1>4, <1>7 DEF CallOK, AttemptOK, InAttempt
<1>10. PlanOK(d)'
  BY <1>0, <1>3, <1>4 DEF CallOK, PlanOK
<1>11. AnswerOK(d)'
  BY <1>0, <1>3, <1>4, <1>6 DEF CallOK, AnswerOK
<1>12. phase[d] # "idle" => Outdated(d)'
  BY <1>4, <1>7 DEF Outdated
<1>13. ConflictOK(d)'
  BY <1>0, <1>2, <1>3, <1>4, <1>12 DEF CallOK, ConflictOK, Excused
<1> QED BY <1>8, <1>9, <1>10, <1>11, <1>13 DEF CallOK

LEMMA CommitItself ==
  ASSUME IInv, NEW c \in Calls, Commit(c)
  PROVE  CallOK(c)'
<1>0. TypeOK /\ CallOK(c) /\ phase[c] = "planned"
  BY CommitFacts DEF IInv
<1>1. PICK answer \in {"done", "failed"} : Move(c, "planned", answer, None, None)
  BY DEF Commit
<1>2. UNCHANGED <<live, stamp, expired, asked, attempts>>
  BY DEF Commit, sessions
<1>3. phase'[c] = answer
  BY <1>0, <1>1 DEF Move, TypeOK
<1>4. Key(c)' = Key(c) /\ Actor(c)' = Actor(c) /\ Request(c)' = Request(c)
  BY <1>2 DEF Key, Actor, Request
<1>5. head'.version = head.version + 1 /\ head.version \in Nat
  BY <1>0, CommitTeam DEF TypeOK, Heads
<1>6. \E r \in log' : r.key = Key(c) /\ r.request = Request(c)
  <2> DEFINE new == [key |-> Key(c), request |-> Request(c),
                     version |-> seen[c].version + 1, call |-> c]
  <2>1. log' = log \cup {new}
    BY DEF Commit, Apply
  <2>2. new \in log' /\ new.key = Key(c) /\ new.request = Request(c)
    BY <2>1
  <2> QED BY <2>2
<1>7. DraftOK(c)'
  BY <1>4, <1>5, CommitFacts DEF DraftOK
<1>8. AttemptOK(c)' /\ PlanOK(c)'
  BY <1>3 DEF AttemptOK, PlanOK, InAttempt
<1>9. AnswerOK(c)'
  BY <1>3, <1>4, <1>6 DEF AnswerOK
<1>10. ConflictOK(c)'
  BY <1>0, <1>2, <1>3, <1>4 DEF CallOK, ConflictOK, InAttempt
<1> QED BY <1>7, <1>8, <1>9, <1>10 DEF CallOK

LEMMA CommitStep ==
  ASSUME IInv, NEW c \in Calls, Commit(c)
  PROVE  IInv'
<1>0. TypeOK /\ TeamOK
  BY DEF IInv
<1>1. RowsOK'
  <2>1. Readable'
    BY CommitTeam DEF Readable
  <2>2. \A p \in People :
          /\ invitation'[p].status = "none" => invitation'[p].version = 0
          /\ invitation'[p].status = "open" => invitation'[p].role # "none"
    <3>1. CASE Request(c).wish.kind = "member"
      BY <1>0, <3>1, CommitMember DEF TeamOK, RowsOK
    <3>2. CASE Request(c).wish.kind # "member"
      <4> DEFINE w == Request(c).wish
                 q == w.person
      <4>1. /\ q \in People /\ invitation' = [invitation EXCEPT ![q] = NewRow(w, invitation[q])]
            /\ w.action # "remove" => /\ NewRow(w, invitation[q]).status = "open"
                                      /\ NewRow(w, invitation[q]).role # "none"
            /\ w.action = "remove" => NewRow(w, invitation[q]).status = "revoked"
        BY <3>2, CommitInvitation
      <4>2. /\ invitation'[q].status # "none"
            /\ invitation'[q].status = "open" => invitation'[q].role # "none"
        BY <1>0, <4>1 DEF TypeOK
      <4>3. \A p \in People : p # q => invitation'[p] = invitation[p]
        BY <1>0, <4>1 DEF TypeOK
      <4> QED BY <1>0, <4>2, <4>3 DEF TeamOK, RowsOK
    <3> QED BY <3>1, <3>2
  <2> QED BY <2>1, <2>2 DEF RowsOK
<1>2. SignInsOK' /\ StampsOK'
  BY <1>0 DEF Commit, sessions, TeamOK, SignInsOK, StampsOK
<1>3. TeamOK'
  BY <1>1, <1>2, CommitReceipts, CommitKeepsOwner DEF TeamOK
<1>4. \A d \in Calls : CallOK(d)'
  BY CommitOthers, CommitItself
<1> QED BY <1>3, <1>4, CommitTyped DEF IInv
----------------------------------------------------------------------------
(* Sign-ins and sessions. *)

LEMMA SignInReads ==
  ASSUME IInv, NEW s \in SignIns, NEW new,
         new \in [phase : {"idle", "linked", "planned", "ended"},
                 found : {"none", "pending_review"}, role : Roles \cup {"none"}],
         new.phase = "planned" /\ new.role = "none" => new.found = "none",
         signIn' = [signIn EXCEPT ![s] = new],
         UNCHANGED <<rows, sessions, callVars>>
  PROVE  IInv'
<1>0. TypeOK /\ TeamOK /\ \A c \in Calls : CallOK(c)
  BY DEF IInv
<1>1. /\ UNCHANGED <<member, invitation, head, log, live, stamp, expired>>
      /\ UNCHANGED <<phase, asked, authority, seen, attempts>>
  BY DEF rows, sessions, callVars
<1>2. /\ signIn' \in [SignIns -> [phase : {"idle", "linked", "planned", "ended"},
                                  found : {"none", "pending_review"},
                                  role  : Roles \cup {"none"}]]
      /\ signIn'[s] = new /\ \A t \in SignIns : t # s => signIn'[t] = signIn[t]
  BY <1>0 DEF TypeOK
<1>3. TypeOK'
  BY <1>0, <1>1, <1>2 DEF TypeOK
<1>4. SignInsOK'
  BY <1>0, <1>2 DEF TeamOK, SignInsOK
<1>5. Team' = Team
  BY <1>1 DEF Team
<1>6. RowsOK'
  BY <1>0, <1>1, <1>5 DEF TeamOK, RowsOK, Readable, Broken
<1>7. ReceiptsOK' /\ AnOwnerRemains' /\ StampsOK'
  BY <1>0, <1>1, <1>5 DEF TeamOK, ReceiptsOK, ReceiptsMatchVersions, AnOwnerRemains,
     Owners, StampsOK
<1>8. \A c \in Calls : CallOK(c)'
  BY <1>0, <1>1, CallFrame
<1> QED BY <1>3, <1>4, <1>6, <1>7, <1>8 DEF IInv, TeamOK

LEMMA SignInTyped ==
  ASSUME TypeOK, NEW s \in SignIns
  PROVE  /\ signIn[s] \in [phase : {"idle", "linked", "planned", "ended"},
                           found : {"none", "pending_review"}, role : Roles \cup {"none"}]
         /\ SignInAt("ended") \in [phase : {"idle", "linked", "planned", "ended"},
                           found : {"none", "pending_review"}, role : Roles \cup {"none"}]
         /\ SignInAt("ended").phase = "ended"
         /\ PersonOf[s] \in People
BY TeamAssumption DEF TypeOK, SignInAt

LEMMA ReadMembershipStep ==
  ASSUME IInv, NEW s \in SignIns, ReadMembership(s)
  PROVE  IInv'
<1> DEFINE status == member[PersonOf[s]].status
           linked == [signIn[s] EXCEPT !.phase = "linked", !.found = status]
           new == IF status \in {"none", "pending_review"} THEN linked ELSE SignInAt("ended")
<1>0. TypeOK
  BY DEF IInv
<1>1. signIn' = [signIn EXCEPT ![s] = new] /\ UNCHANGED <<rows, sessions, callVars>>
  BY DEF ReadMembership
<1>2. linked = [phase |-> "linked", found |-> status, role |-> signIn[s].role]
  <2> SUFFICES ASSUME NEW u, u = linked
               PROVE  u = [phase |-> "linked", found |-> status, role |-> signIn[s].role]
    OBVIOUS
  <2>1. u = [signIn[s] EXCEPT !.phase = "linked", !.found = status]
    OBVIOUS
  <2> HIDE DEF status, linked
  <2> QED BY <1>0, <2>1, SignInTyped
<1> HIDE DEF status
<1>3. status \in {"none", "pending_review"} =>
        linked \in [phase : {"idle", "linked", "planned", "ended"},
                   found : {"none", "pending_review"}, role : Roles \cup {"none"}]
  BY <1>0, <1>2, SignInTyped
<1>4. linked.phase = "linked"
  BY <1>2
<1> HIDE DEF linked
<1>5. /\ new \in [phase : {"idle", "linked", "planned", "ended"},
                 found : {"none", "pending_review"}, role : Roles \cup {"none"}]
      /\ new.phase # "planned"
  BY <1>0, <1>3, <1>4, SignInTyped
<1> HIDE DEF new
<1> QED BY <1>1, <1>5, SignInReads

LEMMA ReadReservationStep ==
  ASSUME IInv, NEW s \in SignIns, ReadReservation(s)
  PROVE  IInv'
<1>0. TypeOK /\ PersonOf[s] \in People /\ UNCHANGED <<rows, sessions, callVars>>
  BY SignInTyped DEF IInv, ReadReservation
<1> DEFINE row == invitation[PersonOf[s]]
<1>1. row \in InvitationRows /\ (row.status = "open" => row.role # "none")
  BY <1>0 DEF IInv, TeamOK, RowsOK, TypeOK
<1>2. CASE row.status = "open"
  <2> DEFINE new == [signIn[s] EXCEPT !.phase = "planned", !.role = row.role]
  <2>1. signIn' = [signIn EXCEPT ![s] = new]
    BY <1>2 DEF ReadReservation
  <2>2. new = [phase |-> "planned", found |-> signIn[s].found, role |-> row.role]
    <3> SUFFICES ASSUME NEW u, u = new
                 PROVE  u = [phase |-> "planned", found |-> signIn[s].found, role |-> row.role]
      OBVIOUS
    <3>1. u = [signIn[s] EXCEPT !.phase = "planned", !.role = row.role]
      OBVIOUS
    <3> HIDE DEF row, new
    <3> QED BY <1>0, <3>1, SignInTyped
  <2>3. row.role \in Roles \cup {"none"} /\ row.role # "none"
    BY <1>1, <1>2 DEF InvitationRows
  <2> HIDE DEF row
  <2>4. new \in [phase : {"idle", "linked", "planned", "ended"},
                 found : {"none", "pending_review"}, role : Roles \cup {"none"}]
        /\ new.role # "none"
    BY <1>0, <2>2, <2>3, SignInTyped
  <2> HIDE DEF new
  <2> QED BY <1>0, <2>1, <2>4, SignInReads
<1>3. CASE signIn[s].found = "none" /\ signIn' = [signIn EXCEPT ![s] =
             [signIn[s] EXCEPT !.phase = "planned"]]
  <2> DEFINE new == [signIn[s] EXCEPT !.phase = "planned"]
  <2>1. new = [phase |-> "planned", found |-> signIn[s].found, role |-> signIn[s].role]
    BY <1>0, SignInTyped
  <2>2. new \in [phase : {"idle", "linked", "planned", "ended"},
                 found : {"none", "pending_review"}, role : Roles \cup {"none"}]
        /\ new.found = "none"
    BY <1>0, <1>3, <2>1, SignInTyped
  <2>3. signIn' = [signIn EXCEPT ![s] = new]
    BY <1>3
  <2> HIDE DEF new
  <2> QED BY <1>0, <2>2, <2>3, SignInReads
<1>4. CASE signIn' = [signIn EXCEPT ![s] = SignInAt("ended")]
  BY <1>0, <1>4, SignInTyped, SignInReads
<1> QED BY <1>2, <1>3, <1>4 DEF ReadReservation

\* What a sign-in that goes through does to the rows.
LEMMA AdmissionFacts ==
  ASSUME IInv, NEW s \in SignIns, CommitSignIn(s), SignInGuards(s),
         NEW p, p = PersonOf[s], NEW role, role = signIn[s].role
  PROVE  /\ p \in People /\ role \in Roles \cup {"none"}
         /\ member[p].status \in {"none", "pending_review"}
         /\ role = "none" => member[p].status = "none"
         /\ member' \in [People -> MemberRows] /\ invitation' \in [People -> InvitationRows]
         /\ \A q \in People : q # p => member'[q] = member[q] /\ invitation'[q] = invitation[q]
         /\ member'[p].version = member[p].version + 1
         /\ role = "none" => member'[p].status = "pending_review" /\ invitation' = invitation
         /\ role # "none" => /\ member'[p].status = "active"
                             /\ invitation[p].status = "open"
                             /\ invitation'[p].status = "consumed"
                             /\ invitation'[p].version = invitation[p].version + 1
<1>0. TypeOK
  BY DEF IInv
<1>1. p \in People /\ role \in Roles \cup {"none"} /\ signIn[s].phase = "planned"
      /\ signIn[s].found \in {"none", "pending_review"}
  BY <1>0, SignInTyped DEF CommitSignIn
<1>2. /\ member[p].status = signIn[s].found
      /\ role # "none" => invitation[p].status = "open"
  BY DEF SignInGuards
<1>3. role = "none" => signIn[s].found = "none"
  BY <1>1 DEF IInv, TeamOK, SignInsOK
<1>4. member[p] \in MemberRows /\ invitation[p] \in InvitationRows
  BY <1>0, <1>1 DEF TypeOK
<1> DEFINE row == [status  |-> IF role = "none" THEN "pending_review" ELSE "active",
                   role    |-> role, version |-> member[p].version + 1]
           used == [invitation[p] EXCEPT !.status = "consumed",
                                         !.version = invitation[p].version + 1]
<1>5. /\ member' = [member EXCEPT ![p] = row]
      /\ invitation' = IF role = "none" THEN invitation ELSE [invitation EXCEPT ![p] = used]
  BY DEF CommitSignIn
<1>6. row \in MemberRows
  BY <1>1, <1>4 DEF MemberRows
<1>7. used = [status |-> "consumed", role |-> invitation[p].role,
              version |-> invitation[p].version + 1]
  <2> SUFFICES ASSUME NEW u, u = used
               PROVE  u = [status |-> "consumed", role |-> invitation[p].role,
                           version |-> invitation[p].version + 1]
    OBVIOUS
  <2> QED BY <1>4 DEF InvitationRows
<1>8. used \in InvitationRows
  BY <1>4, <1>7 DEF InvitationRows
<1>9. /\ row.version = member[p].version + 1
      /\ row.status = IF role = "none" THEN "pending_review" ELSE "active"
      /\ used.status = "consumed" /\ used.version = invitation[p].version + 1
  BY <1>7
<1> HIDE DEF row, used
<1>10. /\ member' \in [People -> MemberRows] /\ invitation' \in [People -> InvitationRows]
       /\ \A q \in People : q # p => member'[q] = member[q] /\ invitation'[q] = invitation[q]
       /\ member'[p] = row /\ (role # "none" => invitation'[p] = used)
       /\ (role = "none" => invitation' = invitation)
  BY <1>0, <1>1, <1>5, <1>6, <1>8 DEF TypeOK
<1> QED BY <1>1, <1>2, <1>3, <1>9, <1>10
\* Nobody's attempt rests on the row of somebody who was not a member, and a
\* team that could be read cannot be read any more if an invitation was used.
LEMMA AdmissionStep ==
  ASSUME IInv, NEW s \in SignIns, CommitSignIn(s), SignInGuards(s)
  PROVE  IInv'
<1>0. TypeOK /\ TeamOK /\ \A d \in Calls : CallOK(d)
  BY DEF IInv
<1>p. PICK p : p = PersonOf[s]
  OBVIOUS
<1>r. PICK role : role = signIn[s].role
  OBVIOUS
<1>1. /\ UNCHANGED <<head, log, live, stamp, expired>>
      /\ UNCHANGED <<phase, asked, authority, seen, attempts>>
      /\ signIn' = [signIn EXCEPT ![s] = SignInAt("ended")]
  BY DEF CommitSignIn, sessions, callVars
<1>2. /\ p \in People /\ role \in Roles \cup {"none"}
      /\ member[p].status \in {"none", "pending_review"}
      /\ member' \in [People -> MemberRows] /\ invitation' \in [People -> InvitationRows]
      /\ \A q \in People : q # p => member'[q] = member[q] /\ invitation'[q] = invitation[q]
      /\ role = "none" => member'[p].status = "pending_review" /\ invitation' = invitation
      /\ role # "none" => /\ member'[p].status = "active"
                          /\ invitation[p].status = "open"
                          /\ invitation'[p].status = "consumed"
  BY <1>p, <1>r, AdmissionFacts
<1>3. /\ signIn' \in [SignIns -> [phase : {"idle", "linked", "planned", "ended"},
                                  found : {"none", "pending_review"},
                                  role  : Roles \cup {"none"}]]
      /\ signIn'[s] = SignInAt("ended") /\ \A t \in SignIns : t # s => signIn'[t] = signIn[t]
  BY <1>0, <1>1, SignInTyped DEF TypeOK
<1>4. TypeOK'
  BY <1>0, <1>1, <1>2, <1>3 DEF TypeOK
<1>5. SignInsOK' /\ StampsOK'
  BY <1>0, <1>1, <1>3, SignInTyped DEF TeamOK, SignInsOK, StampsOK
<1>6. ReceiptsOK'
  BY <1>0, <1>1 DEF TeamOK, ReceiptsOK, ReceiptsMatchVersions
<1>7. AnOwnerRemains'
  <2>1. PICK q \in Owners(Team) : TRUE
    BY <1>0 DEF TeamOK, AnOwnerRemains
  <2>2. q \in People /\ Team.members[q].status = "active"
        /\ Team.members[q].role = "workspace_admin"
    BY <2>1 DEF Owners
  <2>3. member[q].status = "active"
    BY <2>2 DEF Team, Blank
  <2>4. member'[q] = member[q]
    BY <1>2, <2>2, <2>3
  <2>5. Team'.members[q] = Team.members[q]
    BY <2>2, <2>4 DEF Team
  <2> QED BY <2>2, <2>5 DEF AnOwnerRemains, Owners
<1>8. Broken => Broken'
  <2> SUFFICES ASSUME NEW q \in People, invitation[q].status = "consumed",
                      head.digest.invitations[q] # Blank
               PROVE  Broken'
    BY DEF Broken
  <2>1. invitation'[q] = invitation[q]
    BY <1>2
  <2> QED BY <1>1, <2>1 DEF Broken
<1>9. RowsOK'
  <2>1. \A q \in People :
          /\ invitation'[q].status = "none" => invitation'[q].version = 0
          /\ invitation'[q].status = "open" => invitation'[q].role # "none"
    BY <1>0, <1>2 DEF TeamOK, RowsOK
  <2>2. Readable' \/ Broken'
    <3>1. CASE Broken
      BY <1>8, <3>1
    <3>2. CASE Readable /\ role = "none"
      <4>1. Team' = Team
        BY <1>2, <3>2 DEF Team
      <4> QED BY <1>1, <3>2, <4>1 DEF Readable
    <3>3. CASE Readable /\ role # "none"
      <4>1. head.digest.invitations[p] = invitation[p]
        BY <1>2, <3>3 DEF Readable, Team
      <4>2. head.digest.invitations[p] # Blank
        BY <1>2, <3>3, <4>1 DEF Blank
      <4> QED BY <1>1, <1>2, <3>3, <4>2 DEF Broken
    <3> QED BY <1>0, <3>1, <3>2, <3>3 DEF TeamOK, RowsOK
  <2> QED BY <2>1, <2>2 DEF RowsOK
<1>10. ASSUME NEW d \in Calls PROVE CallOK(d)'
  <2>0. CallOK(d)
    BY <1>0
  <2>1. Key(d)' = Key(d) /\ Actor(d)' = Actor(d) /\ Request(d)' = Request(d)
    BY <1>1 DEF Key, Actor, Request
  <2>2. DraftOK(d)' /\ AnswerOK(d)' /\ PlanOK(d)'
    BY <1>1, <2>0, <2>1 DEF CallOK, DraftOK, AnswerOK, PlanOK
  <2>3. AttemptOK(d)'
    <3> SUFFICES ASSUME phase[d] \in InAttempt PROVE AttemptOK(d)'
      BY <1>1 DEF AttemptOK
    <3>1. /\ authority[d].row.status = "active"
          /\ authority[d].row.role = "workspace_admin" \/ Actor(d) \in Granted
          /\ authority[d].stamp <= stamp[Actor(d)]
          /\ Request(d).expected = head => authority[d].row = member[Actor(d)]
      BY <2>0 DEF CallOK, AttemptOK
    <3>2. Actor(d) \in People
      BY <1>0, CallTyped DEF InAttempt
    <3>3. Request(d).expected = head => authority[d].row = member'[Actor(d)]
      BY <1>2, <3>1, <3>2
    <3> QED BY <1>1, <2>1, <3>1, <3>3 DEF AttemptOK
  <2>4. Outdated(d) => Outdated(d)'
    BY <1>1, <1>8, <2>1 DEF Outdated
  <2>5. Used(d)' = Used(d)
    BY <1>1, <2>1 DEF Used, Receipt
  <2>6. ConflictOK(d)'
    BY <1>1, <2>0, <2>1, <2>4, <2>5 DEF CallOK, ConflictOK, Excused
  <2> QED BY <2>2, <2>3, <2>6 DEF CallOK
<1> QED BY <1>4, <1>5, <1>6, <1>7, <1>9, <1>10 DEF IInv, TeamOK

LEMMA CommitSignInStep ==
  ASSUME IInv, NEW s \in SignIns, CommitSignIn(s)
  PROVE  IInv'
<1>1. CASE SignInGuards(s)
  BY <1>1, AdmissionStep
<1>2. CASE ~SignInGuards(s)
  <2>1. /\ signIn' = [signIn EXCEPT ![s] = SignInAt("ended")]
        /\ UNCHANGED <<member, invitation, head, log, sessions, callVars>>
    BY <1>2 DEF CommitSignIn
  <2>2. UNCHANGED <<rows, sessions, callVars>>
    BY <2>1 DEF rows
  <2> QED BY <2>1, <2>2, SignInTyped, SignInReads DEF IInv
<1> QED BY <1>1, <1>2

LEMMA SessionStep ==
  ASSUME IInv, NEW p \in Roaming,
         RenewSession(p) \/ RevokeSession(p) \/ ExpireSession(p)
  PROVE  IInv'
<1>0. TypeOK /\ TeamOK /\ p \in People
  BY TeamAssumption DEF IInv
<1>1. /\ UNCHANGED <<member, invitation, head, log, signIn>>
      /\ UNCHANGED <<phase, asked, authority, seen, attempts>>
  BY DEF RenewSession, RevokeSession, ExpireSession, rows, callVars
<1>2. /\ live' \subseteq live /\ stamp' \in [People -> Nat] /\ expired' \subseteq People
      /\ \A q \in People : stamp[q] <= stamp'[q] /\ stamp[q] \in Nat /\ stamp'[q] \in Nat
  BY <1>0 DEF RenewSession, RevokeSession, ExpireSession, TypeOK
<1>3. TypeOK'
  BY <1>0, <1>1, <1>2 DEF TypeOK
<1>4. Team' = Team
  BY <1>1 DEF Team
<1>5. RowsOK'
  BY <1>0, <1>1, <1>4 DEF TeamOK, RowsOK, Readable, Broken
<1>6. SignInsOK' /\ StampsOK'
  BY <1>0, <1>1, <1>2 DEF TeamOK, SignInsOK, StampsOK
<1>7. ReceiptsOK'
  BY <1>0, <1>1 DEF TeamOK, ReceiptsOK, ReceiptsMatchVersions
<1>8. AnOwnerRemains'
  BY <1>0, <1>4 DEF TeamOK, AnOwnerRemains, Owners
<1>9. ASSUME NEW d \in Calls PROVE CallOK(d)'
  <2>0. CallOK(d)
    BY DEF IInv
  <2>1. Key(d)' = Key(d) /\ Actor(d)' = Actor(d) /\ Request(d)' = Request(d)
    BY <1>1 DEF Key, Actor, Request
  <2>2. DraftOK(d)' /\ AnswerOK(d)' /\ PlanOK(d)'
    BY <1>1, <2>0, <2>1 DEF CallOK, DraftOK, AnswerOK, PlanOK
  <2>3. phase[d] # "idle" => Actor(d) \in People
    BY <1>0, CallTyped
  <2>4. Outdated(d)' = Outdated(d) /\ Used(d)' = Used(d)
    BY <1>1, <2>1 DEF Outdated, Broken, Used, Receipt
  <2>5. phase[d] \in InAttempt => authority[d].stamp \in Nat
    BY <1>0 DEF TypeOK
  <2>6. attempts[d] \in Nat
    BY <1>0 DEF TypeOK
  <2>7. phase[d] # "idle" =>
          /\ stamp[Actor(d)] <= stamp'[Actor(d)]
          /\ stamp[Actor(d)] \in Nat /\ stamp'[Actor(d)] \in Nat
    BY <1>2, <2>3
  <2>8. phase[d] \in InAttempt => phase[d] # "idle"
    BY DEF InAttempt
  <2>9. AttemptOK(d)'
    BY <1>1, <2>0, <2>1, <2>5, <2>7, <2>8 DEF CallOK, AttemptOK
  <2>10. Actor(d) \notin live => Actor(d) \notin live'
    BY <1>2
  <2>11. phase[d] = "attempting" =>
           Excused(d, stamp'[Actor(d)] - 1, Outdated(d) \/ Used(d) \/ Actor(d) \notin live')
    BY <2>0, <2>6, <2>7, <2>10 DEF CallOK, ConflictOK, Excused
  <2>12. phase[d] # "idle" => attempts[d] <= stamp'[Actor(d)]
    BY <2>0, <2>6, <2>7 DEF CallOK, ConflictOK
  <2>13. ConflictOK(d)'
    BY <1>1, <2>0, <2>1, <2>4, <2>11, <2>12 DEF CallOK, ConflictOK, Excused
  <2> QED BY <2>2, <2>9, <2>13 DEF CallOK
<1> QED BY <1>3, <1>5, <1>6, <1>7, <1>8, <1>9 DEF IInv, TeamOK

----------------------------------------------------------------------------
(* The invariant. *)

LEMMA InitHolds == Init => IInv
<1> SUFFICES ASSUME Init PROVE IInv
  OBVIOUS
<1>0. TypeOK
  BY InitTyped
<1>1. RowsOK
  BY DEF Init, RowsOK, StandingInvitations, Blank, Readable
<1>2. SignInsOK /\ StampsOK
  BY DEF Init, SignInsOK, SignInAt, StampsOK
<1>3. ReceiptsOK
  <2>1. IsFiniteSet({}) /\ Cardinality({}) = 0
    BY FS_EmptySet
  <2> QED BY <2>1 DEF Init, ReceiptsOK, ReceiptsMatchVersions
<1>4. AnOwnerRemains
  <2>1. PICK p \in Founders : TRUE
    BY TeamAssumption
  <2>2. p \in People /\ member[p] = InitialMember(p)
    BY TeamAssumption DEF Init
  <2>3. member[p] = [status |-> "active", role |-> "workspace_admin", version |-> 1]
    BY <2>1, <2>2 DEF InitialMember
  <2>4. Team.members[p] = member[p]
    BY <2>2, <2>3 DEF Team
  <2>5. p \in Owners(Team)
    BY <2>2, <2>3, <2>4 DEF Owners
  <2> QED BY <2>5 DEF AnOwnerRemains
<1>5. ASSUME NEW c \in Calls PROVE CallOK(c)
  <2>1. phase[c] = "idle" /\ attempts[c] = 0 /\ log = {} /\ 0 < MaxAttempts
    BY TeamAssumption DEF Init
  <2>2. DraftOK(c) /\ AttemptOK(c) /\ PlanOK(c) /\ AnswerOK(c)
    BY <2>1 DEF DraftOK, AttemptOK, PlanOK, AnswerOK, InAttempt
  <2>3. ConflictOK(c)
    BY <2>1 DEF ConflictOK, InAttempt
  <2> QED BY <2>2, <2>3 DEF CallOK
<1> QED BY <1>0, <1>1, <1>2, <1>3, <1>4, <1>5 DEF IInv, TeamOK

LEMMA StutterStep ==
  ASSUME IInv, UNCHANGED vars
  PROVE  IInv'
<1>0. TypeOK /\ TeamOK /\ \A d \in Calls : CallOK(d)
  BY DEF IInv
<1>1. UNCHANGED <<rows, sessions, callVars, signIn>>
  BY DEF vars
<1>2. UNCHANGED <<phase, asked, authority, seen, attempts>>
  BY <1>1 DEF callVars
<1>3. TeamOK'
  BY <1>0, <1>1, TeamFrame
<1>4. \A d \in Calls : CallOK(d)'
  BY <1>0, <1>1, <1>2, CallFrame
<1>5. UNCHANGED <<member, invitation, head, log, live, stamp, expired, signIn>>
  BY <1>1 DEF rows, sessions
<1>6. TypeOK'
  BY <1>0, <1>2, <1>5 DEF TypeOK
<1> QED BY <1>3, <1>4, <1>6 DEF IInv

LEMMA NextKeepsIInv ==
  ASSUME IInv, [Next]_vars
  PROVE  IInv'
<1>1. CASE UNCHANGED vars
  BY <1>1, StutterStep
<1>2. ASSUME NEW c \in Calls, NEW i \in Intents[c], Draft(c, i[1], i[2]) PROVE IInv'
  BY <1>2, DraftStep
<1>3. ASSUME NEW c \in Calls, NEW d \in Calls, Resend(c, d) PROVE IInv'
  BY <1>3, ResendStep
<1>4. ASSUME NEW c \in Calls, CallStep(c) PROVE IInv'
  BY <1>4, AuthoriseStep, PreflightStep, RecheckStep, RelookStep, ReadTeamStep, PlanStep,
     CommitStep, BatchFailsStep, ConflictStep DEF CallStep
<1>5. ASSUME NEW s \in SignIns, SignInStep(s) PROVE IInv'
  BY <1>5, ReadMembershipStep, ReadReservationStep, CommitSignInStep DEF SignInStep
<1>6. ASSUME NEW p \in Roaming,
             RenewSession(p) \/ RevokeSession(p) \/ ExpireSession(p)
      PROVE  IInv'
  BY <1>6, SessionStep
<1> QED BY <1>1, <1>2, <1>3, <1>4, <1>5, <1>6 DEF Next

LEMMA AlwaysIInv == Spec => []IInv
BY InitHolds, NextKeepsIInv, PTL DEF Spec

\* Rows, receipts, calls and sign-ins keep their types; what an attempt has
\* read is there exactly while it may be used.
THEOREM TeamIsTyped == Spec => []TypeOK
<1>1. IInv => TypeOK
  BY DEF IInv
<1> QED BY <1>1, AlwaysIInv, PTL

\* The workspace keeps an owner, for any people, calls and interleaving.
THEOREM OwnerRemains == Spec => []AnOwnerRemains
<1>1. IInv => AnOwnerRemains
  BY DEF IInv, TeamOK
<1> QED BY <1>1, AlwaysIInv, PTL

\* One receipt per key, and as many team versions as receipts.
THEOREM ReceiptsMatch == Spec => []ReceiptsMatchVersions
<1>1. IInv => ReceiptsMatchVersions
  BY DEF IInv, TeamOK, ReceiptsOK
<1> QED BY <1>1, AlwaysIInv, PTL

\* No call is told of a success that is not in the database, or that nothing
\* happened when its batch was committed.
THEOREM AnswersTrue == Spec => []AnswersAreTrue
<1>1. IInv => AnswersAreTrue
  BY DEF IInv, CallOK, AnswerOK, AnswersAreTrue
<1> QED BY <1>1, AlwaysIInv, PTL

\* A request meets at most as many conflicts as its actor's session has had
\* expiries: contention on the team itself costs one attempt.
THEOREM ConflictsAreSettled == Spec => []ConflictsSettle
<1>1. ASSUME IInv PROVE ConflictsSettle
  <2> SUFFICES ASSUME NEW c \in Calls, attempts[c] > 0
               PROVE  attempts[c] <= stamp[Actor(c)]
    BY DEF ConflictsSettle
  <2>1. phase[c] # "idle"
    BY <1>1 DEF IInv, CallOK, ConflictOK
  <2> QED BY <1>1, <2>1 DEF IInv, CallOK, ConflictOK
<1> QED BY <1>1, AlwaysIInv, PTL
----------------------------------------------------------------------------
(* The team as promised. *)

Applied == {[key |-> r.key, request |-> r.request, version |-> r.version] : r \in log}

LEMMA OwnersAgree ==
  Owners(Team) = Promise!Owners(member)
BY DEF Owners, Promise!Owners, Team, Blank

\* A call that does not come into an attempt adds nobody to those vouched for.
LEMMA OthersStayVouched ==
  ASSUME NEW c \in Calls,
         \A d \in Calls \ {c} : phase'[d] = phase[d] /\ asked'[d] = asked[d]
  PROVE  /\ Vouched' \subseteq Vouched \cup {Key(c)'}
         /\ phase[c] \notin InAttempt => Vouched \subseteq Vouched'
         /\ \/ phase'[c] \notin InAttempt
            \/ phase[c] \in InAttempt /\ asked'[c] = asked[c]
            => Vouched' \subseteq Vouched
<1>1. \A d \in Calls \ {c} : Key(d)' = Key(d)
  BY DEF Key
<1>2. asked'[c] = asked[c] => Key(c)' = Key(c)
  BY DEF Key
<1> QED BY <1>1, <1>2 DEF Vouched

\* An answer or a conflict only takes a call out of its attempt.
LEMMA CallIsForgotten ==
  ASSUME TypeOK, NEW c \in Calls,
         \/ Authorise(c) \/ Preflight(c) \/ Relook(c) \/ ReadTeam(c)
         \/ Plan(c) \/ Commit(c) \/ BatchFails(c) \/ Conflict(c)
  PROVE  Vouched' \subseteq Vouched
<1>1. PICK from, to, auth, team : Move(c, from, to, auth, team)
  BY DEF Authorise, Preflight, Relook, ReadTeam, Plan, Commit, BatchFails, Conflict
<1>2. phase \in [Calls -> Phases] /\ UNCHANGED asked
  BY DEF TypeOK, Authorise, Preflight, Relook, ReadTeam, Plan, Commit, BatchFails, Conflict
<1>3. \A d \in Calls \ {c} : phase'[d] = phase[d] /\ asked'[d] = asked[d]
  BY <1>1, <1>2 DEF Move
<1>4. phase'[c] \notin InAttempt \/ phase[c] \in InAttempt
  BY <1>2 DEF Move, InAttempt, Authorise, Preflight, Replay, Relook, ReadTeam, Plan,
     Commit, BatchFails, Conflict
<1> QED BY <1>2, <1>3, <1>4, OthersStayVouched

\* A recheck that finds its actor authorised vouches for the key.
LEMMA RecheckIsPromised ==
  ASSUME TypeOK, NEW c \in Calls, Recheck(c)
  PROVE  [Promise!Next]_(Promise!vars)
<1>1. /\ UNCHANGED <<member, invitation, head, log, live, expired, asked>>
      /\ phase[c] = "attempting" /\ phase \in [Calls -> Phases]
      /\ phase' = [phase EXCEPT ![c] = IF Authorised(Actor(c)) THEN "rechecked" ELSE "denied"]
  BY DEF Recheck, Move, rows, sessions, TypeOK
<1>2. \A d \in Calls \ {c} : phase'[d] = phase[d] /\ asked'[d] = asked[d]
  BY <1>1
<1>3. UNCHANGED Promise!team
  BY <1>1 DEF Promise!team
<1>4. CASE ~Authorised(Actor(c))
  <2>1. Vouched' \subseteq Vouched
    BY <1>1, <1>2, <1>4, OthersStayVouched DEF InAttempt
  <2> QED BY <1>1, <1>3, <2>1 DEF Promise!Next, Promise!Forget
<1>5. CASE Authorised(Actor(c))
  <2>1. PICK k : k = Key(c)
    OBVIOUS
  <2>2. k \in Keys /\ k \in DOMAIN ActorOf /\ ActorOf[k] = Actor(c) /\ Actor(c) \in People
    BY <1>1, <2>1, CallTyped, TeamAssumption DEF Actor
  <2>3. Key(c)' = Key(c)
    BY <1>1 DEF Key
  <2>4. Vouched' = Vouched \cup {k}
    <3>1. Vouched' \subseteq Vouched \cup {k} /\ Vouched \subseteq Vouched'
      BY <1>1, <1>2, <2>1, <2>3, OthersStayVouched DEF InAttempt
    <3>2. k \in Vouched'
      BY <1>1, <1>5, <2>1, <2>3 DEF Vouched, InAttempt
    <3> QED BY <3>1, <3>2
  <2>5. Promise!MayManage(ActorOf[k]) /\ ActorOf[k] \notin expired
    BY <1>5, <2>2 DEF Authorised, Promise!MayManage, Promise!Owners
  <2>6. Promise!Vouch(k)
    BY <1>1, <1>3, <2>4, <2>5 DEF Promise!Vouch
  <2> QED BY <2>2, <2>6 DEF Promise!Next
<1> QED BY <1>4, <1>5

\* A batch that commits is one promised operation.
LEMMA CommitIsPromised ==
  ASSUME IInv, AnOwnerRemains', NEW c \in Calls, Commit(c)
  PROVE  Promise!Next
<1> DEFINE e == [key |-> Key(c), request |-> Request(c), version |-> head.version + 1]
           new == [key |-> Key(c), request |-> Request(c),
                   version |-> head.version + 1, call |-> c]
           w == Request(c).wish
           p == w.person
<1>1. log' = log \cup {new}
  BY CommitFacts DEF Commit, Apply
<1>2. Applied' = Applied \cup {e}
  <2>1. e = [key |-> new.key, request |-> new.request, version |-> new.version]
    OBVIOUS
  <2> HIDE DEF e, new
  <2> QED BY <1>1, <2>1 DEF Applied
<1>3. \A f \in Applied : f.key # e.key
  <2>1. \A r \in log : r.key # Key(c)
    BY CommitFacts DEF Receipt
  <2>2. e.key = Key(c)
    OBVIOUS
  <2> HIDE DEF e
  <2> QED BY <2>1, <2>2 DEF Applied
<1>4. /\ ActorOf[e.key] = Actor(c) /\ e.request = Request(c)
      /\ e.request.wish = w /\ e.version = head.version + 1
  BY DEF Actor
<1>5. Promise!MayManage(ActorOf[e.key])
  BY <1>4, CommitFacts DEF Promise!MayManage, Promise!Owners
<1>6. e.request.expected.version = head.version /\ head'.version = head.version + 1
  BY <1>4, CommitFacts, CommitTeam
<1>7. Promise!Owners(member') # {}
  BY DEF AnOwnerRemains, Owners, Promise!Owners, Team, Blank
<1>8. UNCHANGED <<live, expired>> /\ Vouched' \subseteq Vouched
  BY CallIsForgotten DEF Commit, sessions, IInv
<1>v. e.key \in Vouched
  BY DEF Commit, Move, Vouched, InAttempt
<1>9. \/ /\ w.kind = "member"
         /\ p # ActorOf[e.key]
         /\ member[p].status = "active"
         /\ Promise!OnlyRow(member, member', p)
         /\ UNCHANGED invitation
      \/ /\ w.kind = "invitation"
         /\ Promise!OnlyRow(invitation, invitation', p)
         /\ w.action = "invite" => invitation[p].status = "none"
         /\ w.action # "invite" => invitation[p].status = "open"
         /\ UNCHANGED member
  <2>0. TypeOK
    BY DEF IInv
  <2>1. CASE w.kind = "member"
    <3>1. /\ p \in People /\ p # Actor(c) /\ member[p].status = "active"
          /\ member' = [member EXCEPT ![p] = NewRow(w, member[p])]
          /\ invitation' = invitation
          /\ NewRow(w, member[p]).version = member[p].version + 1
      BY <2>1, CommitMember
    <3>2. Promise!OnlyRow(member, member', p)
      BY <2>0, <3>1 DEF Promise!OnlyRow, TypeOK
    <3> QED BY <1>4, <2>1, <3>1, <3>2
  <2>2. CASE w.kind # "member"
    <3>1. /\ p \in People /\ w.kind = "invitation" /\ member' = member
          /\ w.action = "invite" => invitation[p].status = "none"
          /\ w.action # "invite" => invitation[p].status = "open"
          /\ invitation' = [invitation EXCEPT ![p] = NewRow(w, invitation[p])]
          /\ NewRow(w, invitation[p]).version = invitation[p].version + 1
      BY <2>2, CommitInvitation
    <3>2. Promise!OnlyRow(invitation, invitation', p)
      BY <2>0, <3>1 DEF Promise!OnlyRow, TypeOK
    <3> QED BY <3>1, <3>2
  <2> QED BY <2>1, <2>2
<1>10. PICK x : x = e
  OBVIOUS
<1>11. x \in Applied' /\ Promise!Operation(x)
  <2> HIDE DEF e, w
  <2> QED
    BY <1>2, <1>3, <1>4, <1>5, <1>6, <1>7, <1>8, <1>v, <1>9, <1>10
       DEF Promise!Operation, Applied
<1> QED BY <1>11 DEF Promise!Next, Applied

LEMMA SignInIsPromised ==
  ASSUME IInv, NEW s \in SignIns, CommitSignIn(s), SignInGuards(s)
  PROVE  Promise!Next
<1>p. PICK p : p = PersonOf[s]
  OBVIOUS
<1>r. PICK role : role = signIn[s].role
  OBVIOUS
<1>1. UNCHANGED <<head, log, live, expired, Vouched>>
  BY DEF CommitSignIn, sessions, callVars, Vouched, Key
<1>2. /\ p \in People
      /\ member[p].status \in {"none", "pending_review"}
      /\ role = "none" => member[p].status = "none"
      /\ \A q \in People : q # p => member'[q] = member[q] /\ invitation'[q] = invitation[q]
      /\ member'[p].version = member[p].version + 1
      /\ role = "none" => member'[p].status = "pending_review" /\ invitation' = invitation
      /\ role # "none" => /\ member'[p].status = "active"
                          /\ invitation[p].status = "open"
                          /\ invitation'[p].status = "consumed"
                          /\ invitation'[p].version = invitation[p].version + 1
  BY <1>p, <1>r, AdmissionFacts
<1>3. Promise!OnlyRow(member, member', p)
  BY <1>2 DEF Promise!OnlyRow
<1>4. CASE role = "none"
  <2>1. Promise!AskToJoin(p)
    BY <1>1, <1>2, <1>3, <1>4 DEF Promise!AskToJoin
  <2> QED BY <1>2, <2>1 DEF Promise!Next
<1>5. CASE role # "none"
  <2>1. Promise!OnlyRow(invitation, invitation', p)
    BY <1>2, <1>5 DEF Promise!OnlyRow
  <2>2. Promise!Join(p)
    BY <1>1, <1>2, <1>3, <1>5, <2>1 DEF Promise!Join
  <2> QED BY <1>2, <2>2 DEF Promise!Next
<1> QED BY <1>4, <1>5

LEMMA StepIsPromised ==
  ASSUME IInv, IInv', [Next]_vars
  PROVE  [Promise!Next]_(Promise!vars)
<1>0. TypeOK /\ \A p \in Roaming : p \in People
  BY TeamAssumption DEF IInv
<1>1. UNCHANGED <<member, invitation, head, log, live, expired>> /\ Vouched' \subseteq Vouched
        => Promise!Next
  BY DEF Promise!Next, Promise!Forget, Promise!team
<1>2. UNCHANGED <<member, invitation, head, log, callVars>>
        => UNCHANGED Promise!team /\ UNCHANGED Vouched
  BY DEF Promise!team, Vouched, Key, callVars
<1>3. CASE UNCHANGED vars
  BY <1>2, <1>3 DEF vars, rows, sessions, Promise!vars, Promise!team
<1>4. ASSUME NEW c \in Calls,
             \/ \E i \in Intents[c] : Draft(c, i[1], i[2])
             \/ \E d \in Calls : Resend(c, d)
      PROVE  Promise!Next
  <2>1. PICK ask : /\ phase' = [phase EXCEPT ![c] = "drafted"]
                   /\ asked' = [asked EXCEPT ![c] = ask]
                   /\ UNCHANGED <<rows, sessions>>
    BY <1>4 DEF Draft, Resend, Move
  <2>2. Vouched' \subseteq Vouched
    BY <1>0, <2>1, OthersStayVouched DEF InAttempt, TypeOK
  <2> QED BY <1>1, <2>1, <2>2 DEF rows, sessions
<1>5. ASSUME NEW c \in Calls, CallStep(c), ~Commit(c), ~Recheck(c) PROVE Promise!Next
  <2>1. Vouched' \subseteq Vouched
    BY <1>0, <1>5, CallIsForgotten DEF CallStep
  <2>2. UNCHANGED <<rows, sessions>>
    BY <1>5 DEF CallStep, Authorise, Preflight, Relook, ReadTeam, Plan, BatchFails, Conflict
  <2> QED BY <1>1, <2>1, <2>2 DEF rows, sessions
<1>6. ASSUME NEW c \in Calls, Recheck(c) PROVE [Promise!Next]_(Promise!vars)
  BY <1>0, <1>6, RecheckIsPromised
<1>7. ASSUME NEW c \in Calls, Commit(c) PROVE Promise!Next
  BY <1>7, CommitIsPromised DEF IInv, TeamOK
<1>8. ASSUME NEW s \in SignIns, SignInStep(s), ~(CommitSignIn(s) /\ SignInGuards(s))
      PROVE  Promise!Next
  <2>1. UNCHANGED <<rows, sessions, callVars>>
    BY <1>8 DEF SignInStep, ReadMembership, ReadReservation, CommitSignIn, rows
  <2> QED BY <1>1, <1>2, <2>1 DEF rows, sessions
<1>9. ASSUME NEW s \in SignIns, CommitSignIn(s), SignInGuards(s) PROVE Promise!Next
  BY <1>9, SignInIsPromised
<1>10. ASSUME NEW p \in Roaming, RenewSession(p) PROVE Promise!Next
  BY <1>1, <1>2, <1>10 DEF RenewSession, rows
<1>11. ASSUME NEW p \in Roaming, RevokeSession(p) PROVE Promise!Next
  <2>1. Promise!SessionIsRevoked(p)
    BY <1>2, <1>11 DEF RevokeSession, rows, Promise!SessionIsRevoked
  <2> QED BY <1>0, <2>1 DEF Promise!Next
<1>12. ASSUME NEW p \in Roaming, ExpireSession(p) PROVE Promise!Next
  <2>1. Promise!SessionRunsOut(p)
    BY <1>2, <1>12 DEF ExpireSession, rows, Promise!SessionRunsOut
  <2> QED BY <1>0, <2>1 DEF Promise!Next
<1> QED
  BY <1>3, <1>4, <1>5, <1>6, <1>7, <1>8, <1>9, <1>10, <1>11, <1>12 DEF Next

\* Read in pieces, retried and interleaved as they are, the operations and
\* sign-ins on D1 are those of the promised team, each a single step: once
\* per key, on the team the actor was shown, by an actor whose check found a
\* current session and whose row and unrevoked session still hold.
THEOREM TeamKeepsPromise == Spec => KeepsTeamPromise
<1>1. Init => Promise!Init
  <2> SUFFICES ASSUME Init PROVE Promise!Init
    OBVIOUS
  <2>1. Promise!Owners(member) # {}
    BY InitHolds, OwnersAgree DEF IInv, TeamOK, AnOwnerRemains
  <2>2. Vouched = {}
    BY DEF Init, Vouched, InAttempt
  <2> QED BY <2>1, <2>2 DEF Init, Promise!Init
<1> QED
  BY <1>1, StepIsPromised, AlwaysIInv, PTL DEF Spec, KeepsTeamPromise, Promise!Spec
=============================================================================
