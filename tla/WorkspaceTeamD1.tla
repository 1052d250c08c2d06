-------------------------- MODULE WorkspaceTeamD1 --------------------------
(***************************************************************************)
(* Audited operations on Cloudflare D1, with the workspace team as their   *)
(* domain, and the sign-ins that change the same rows:                     *)
(*   packages/application/src/operations/effect-executor.ts                *)
(*   apps/cloudflare-worker/src/d1-effect-unit-of-work.ts                  *)
(*   apps/cloudflare-worker/src/d1-atomic-batch.ts                         *)
(*   apps/cloudflare-worker/src/d1-operator-authority.ts                   *)
(*   apps/cloudflare-worker/src/d1-workspace-team(-mutation).ts            *)
(*   packages/identity-access/src/workspace-team.ts, sign-in.ts            *)
(*   apps/cloudflare-worker/src/d1-provisioning-store.ts                   *)
(*                                                                         *)
(* D1 has no interactive transactions.  An operation reads in several      *)
(* statements, records for each read a predicate that must still hold, and *)
(* buffers its writes; predicates and writes go out as one atomic batch.   *)
(* Every read, and the batch, is a step; steps of other calls, sign-ins    *)
(* and session changes come in between.                                    *)
(*                                                                         *)
(* A definition whose name ends in Slip is a deliberate mistake in the one *)
(* that follows it; no specification uses it.                              *)
(***************************************************************************)
EXTENDS Naturals, FiniteSets

CONSTANTS
  People,       \* everybody who has or may get access, each with one address
  Founders,     \* the workspace admins at the start
  Granted,      \* viewers with a permission override that lets them manage
  Keys,         \* idempotency keys; an operation's identity is key and actor
  ActorOf,      \* the actor each key belongs to
  Calls,        \* invocations
  Intents,      \* what each may be made for: pairs of a key and a wish
  SignIns,      \* sign-ins
  PersonOf,     \* the person of each sign-in
  MaxAttempts,  \* DEFAULT_MAXIMUM_ATTEMPTS
  Roaming,      \* bound: the people whose sessions change
  MaxRenewals,  \* bound: how often such a session is renewed
  None

Roles == {"workspace_admin", "viewer"}

WishType ==
  {w \in [action : {"invite", "change_role", "remove"}, kind : {"member", "invitation"},
          person : People, role : Roles] :
     w.action = "invite" => w.kind = "invitation"}

VARIABLES
  member,      \* workspace_memberships with the workspace role assignment
  invitation,  \* access_reservations with recipient and role, by address
  head,        \* workspace_team_heads
  log,         \* operation_log
  live,        \* the people with a session row, one that is not revoked
  stamp,       \* the expiry written into each person's session
  expired,     \* the people for whom the clock has passed it
  phase,       \* where each call stands, or how it was answered
  asked,       \* its key and request
  authority,   \* the membership and session rows its recheck has read
  seen,        \* the team it plans on
  attempts,    \* the conflicts its unit of work has met
  signIn       \* each sign-in: its phase and the evidence it has read

rows == <<member, invitation, head, log>>
sessions == <<live, stamp, expired>>
callVars == <<phase, asked, authority, seen, attempts>>
vars == <<rows, sessions, callVars, signIn>>

----------------------------------------------------------------------------
(* Rows, and the team they make up.  A digest stands for what it is         *)
(* computed from.                                                           *)

Blank == [status |-> "none", role |-> "none", version |-> 0]

MemberRows ==
  [status : {"none", "pending_review", "active", "deactivated"},
   role : Roles \cup {"none"}, version : Nat]
InvitationRows ==
  [status : {"none", "open", "consumed", "revoked"},
   role : Roles \cup {"none"}, version : Nat]
Teams ==
  [members : [People -> MemberRows], invitations : [People -> InvitationRows]]
Heads == [version : Nat, digest : Teams]
Requests == [wish : WishType, version : Nat, expected : Heads]

ASSUME TeamAssumption ==
  /\ IsFiniteSet(People)
  /\ Founders \subseteq People /\ Founders # {}
  /\ Granted \subseteq People \ Founders
  /\ ActorOf \in [Keys -> People]
  /\ Intents \in [Calls -> SUBSET (Keys \X WishType)]
  /\ PersonOf \in [SignIns -> People]
  /\ Roaming \subseteq People
  /\ MaxAttempts \in Nat \ {0} /\ MaxRenewals \in Nat
  /\ None \notin [key : Keys, request : Requests]
  /\ None \notin [row : MemberRows, stamp : Nat]
  /\ None \notin Heads

\* Removed people and people under review without a role are not listed;
\* neither are invitations that are used up.
Team ==
  [members     |-> [p \in People |->
                      IF member[p].status = "active" THEN member[p] ELSE Blank],
   invitations |-> [p \in People |->
                      IF invitation[p].status = "open" THEN invitation[p] ELSE Blank]]

\* readD1WorkspaceTeamSnapshot throws team_data_corrupt otherwise.
Readable == head.digest = Team

Owners(team) ==
  {p \in People : /\ team.members[p].status = "active"
                  /\ team.members[p].role = "workspace_admin"}

\* The clock is read here and nowhere else.
Authorised(p) ==
  /\ p \in live \ expired
  /\ member[p].status = "active"
  /\ member[p].role = "workspace_admin" \/ p \in Granted

Receipt(k) == {r \in log : r.key = k}

InAttempt == {"rechecked", "relooked", "read", "planned"}
Answers == {"done", "request_changed", "denied", "refused", "failed", "contended"}
Phases ==
  {"idle", "drafted", "authorised", "attempting"} \cup InAttempt \cup Answers

TypeOK ==
  /\ member \in [People -> MemberRows]
  /\ invitation \in [People -> InvitationRows]
  /\ head \in Heads
  /\ log \subseteq [key : Keys, request : Requests, version : Nat, call : Calls]
  /\ live \subseteq People /\ expired \subseteq People
  /\ stamp \in [People -> Nat]
  /\ phase \in [Calls -> Phases]
  /\ asked \in [Calls -> [key : Keys, request : Requests] \cup {None}]
  /\ authority \in [Calls -> [row : MemberRows, stamp : Nat] \cup {None}]
  /\ seen \in [Calls -> Heads \cup {None}]
  /\ \A c \in Calls :
       /\ asked[c] = None <=> phase[c] = "idle"
       /\ authority[c] = None <=> phase[c] \notin InAttempt
       /\ seen[c] = None <=> phase[c] \notin {"read", "planned"}
  /\ attempts \in [Calls -> 0..MaxAttempts]
  /\ signIn \in [SignIns -> [phase : {"idle", "linked", "planned", "ended"},
                             found : {"none", "pending_review"},
                             role  : Roles \cup {"none"}]]

InitialMember(p) ==
  IF p \in Founders THEN [status |-> "active", role |-> "workspace_admin", version |-> 1]
  ELSE IF p \in Granted THEN [status |-> "active", role |-> "viewer", version |-> 1]
  ELSE Blank

\* No invitation, an open one, or one that was revoked.
StandingInvitations ==
  {Blank, [status |-> "open", role |-> "viewer", version |-> 1],
          [status |-> "revoked", role |-> "viewer", version |-> 2]}

SignInAt(at) == [phase |-> at, found |-> "none", role |-> "none"]

Init ==
  /\ member = [p \in People |-> InitialMember(p)]
  /\ invitation \in [People -> StandingInvitations]
  /\ \A p \in Founders \cup Granted : invitation[p] = Blank
  /\ head = [version |-> 1, digest |-> Team]
  /\ log = {}
  /\ live = Founders \cup Granted /\ expired = {}
  /\ stamp = [p \in People |-> 1]
  /\ phase = [c \in Calls |-> "idle"]
  /\ asked = [c \in Calls |-> None] /\ authority = [c \in Calls |-> None]
  /\ seen = [c \in Calls |-> None]
  /\ attempts = [c \in Calls |-> 0]
  /\ signIn = [s \in SignIns |-> SignInAt("idle")]

----------------------------------------------------------------------------
(* The client. *)

Key(c)   == asked[c].key
Actor(c) == ActorOf[Key(c)]
Request(c) == asked[c].request

\* A call moves on, with what its attempt has read so far; an answer drops it.
Move(c, from, to, rechecked, team) ==
  /\ phase[c] = from
  /\ phase' = [phase EXCEPT ![c] = to]
  /\ authority' = [authority EXCEPT ![c] = IF to \in Answers THEN None ELSE rechecked]
  /\ seen' = [seen EXCEPT ![c] = IF to \in Answers THEN None ELSE team]

Row(w, team) ==
  IF w.kind = "member" THEN team.members[w.person] ELSE team.invitations[w.person]

\* An operator composes a request on the team it has been shown, naming the
\* subject's version and the team's version and digest.
Draft(c, k, w) ==
  /\ Move(c, "idle", "drafted", None, None)
  /\ Readable
  /\ w.action # "invite" => Row(w, Team) # Blank
  /\ asked' = [asked EXCEPT ![c] =
       [key |-> k,
        request |-> [wish |-> w, version |-> Row(w, Team).version, expected |-> head]]]
  /\ UNCHANGED <<rows, sessions, attempts, signIn>>

\* A request is sent again, under its key.
Resend(c, d) ==
  /\ Move(c, "idle", "drafted", None, None)
  /\ phase[d] # "idle"
  /\ asked' = [asked EXCEPT ![c] = asked[d]]
  /\ UNCHANGED <<rows, sessions, attempts, signIn>>

----------------------------------------------------------------------------
(* executeDirectAudited, before the unit of work. *)

\* recheckEffectInvocationCurrentAuthority.
Authorise(c) ==
  /\ Move(c, "drafted", IF Authorised(Actor(c)) THEN "authorised" ELSE "denied", None, None)
  /\ UNCHANGED <<rows, sessions, asked, attempts, signIn>>

\* Mistake for AnswersAreTrue: the request hash is not compared.
ReplaySlip(c) == "done"

\* The receipt answers if there is one: with its result, or with
\* request_changed when the key was used for another request.
Replay(c) ==
  IF \A r \in Receipt(Key(c)) : r.request = Request(c) THEN "done" ELSE "request_changed"

Preflight(c) ==
  /\ Move(c, "authorised", IF Receipt(Key(c)) = {} THEN "attempting" ELSE Replay(c), None, None)
  /\ UNCHANGED <<rows, sessions, asked, attempts, signIn>>

----------------------------------------------------------------------------
(* One attempt of the unit of work. *)

\* A denial writes nothing, so no predicate is evaluated for it.
Recheck(c) ==
  /\ Move(c, "attempting", IF Authorised(Actor(c)) THEN "rechecked" ELSE "denied",
          [row |-> member[Actor(c)], stamp |-> stamp[Actor(c)]], None)
  /\ UNCHANGED <<rows, sessions, asked, attempts, signIn>>

Relook(c) ==
  /\ Move(c, "rechecked", IF Receipt(Key(c)) = {} THEN "relooked" ELSE Replay(c),
          authority[c], None)
  /\ UNCHANGED <<rows, sessions, asked, attempts, signIn>>

\* The first batch of readPlanningSnapshot.
ReadTeam(c) ==
  /\ Move(c, "relooked", IF Readable THEN "read" ELSE "failed", authority[c], head)
  /\ UNCHANGED <<rows, sessions, asked, attempts, signIn>>

\* The second batch reads assignments and invitations again and throws when a
\* listed member or invitation is not the same any more; the throw is not a
\* conflict and is not retried.  What was added since is not noticed here.
Torn(team) ==
  \E p \in People :
    \/ team.members[p] # Blank /\ member[p] # team.members[p]
    \/ /\ team.invitations[p] # Blank
       /\ \/ invitation[p].status # "open"
          \/ invitation[p].role # team.invitations[p].role

\* Mistake for ConflictsSettle: the request is planned on whatever is there.
CurrentGuardSlip(request, team) == TRUE

\* requireCurrentGuard
CurrentGuard(request, team) == request.expected = team

\* guardOwnerExit
OwnerMayLeave(p, team) == p \in Owners(team) => Cardinality(Owners(team)) > 1

\* planWorkspaceTeamInvitation, -RoleChange and -Removal on the team `seen'.
Plannable(request, actor, guard) ==
  LET w    == request.wish
      team == guard.digest
      row  == Row(w, team)
  IN /\ CurrentGuard(request, guard)
     /\ w.action = "invite" => row = Blank
     /\ w.action # "invite" => row # Blank /\ row.version = request.version
     /\ w.action # "invite" /\ w.kind = "member" =>
          /\ w.person # actor
          /\ w.action = "change_role" => w.person \notin Granted
          /\ (w.action = "remove" \/ w.role # "workspace_admin") =>
               OwnerMayLeave(w.person, team)

Plan(c) ==
  /\ Move(c, "read",
          IF Torn(seen[c].digest) THEN "failed"
          ELSE IF Plannable(Request(c), Actor(c), seen[c]) THEN "planned"
          ELSE "refused",
          authority[c], seen[c])
  /\ UNCHANGED <<rows, sessions, asked, attempts, signIn>>

----------------------------------------------------------------------------
(* The batch. *)

\* Mistake for TypeOK: a revoked invitation gets the status of a member.
NewRowSlip(w, row) ==
  CASE w.action = "invite" -> [status |-> "open", role |-> w.role, version |-> 1]
    [] w.action = "change_role" -> [row EXCEPT !.role = w.role, !.version = row.version + 1]
    [] w.action = "remove" ->
         [row EXCEPT !.status = "deactivated", !.version = row.version + 1]

\* What the wish makes of its subject's row.
NewRow(w, row) ==
  CASE w.action = "invite" -> [status |-> "open", role |-> w.role, version |-> 1]
    [] w.action = "change_role" -> [row EXCEPT !.role = w.role, !.version = row.version + 1]
    [] w.action = "remove" ->
         [row EXCEPT !.status = IF w.kind = "member" THEN "deactivated" ELSE "revoked",
                     !.version = row.version + 1]

\* resultingSnapshot: the team as planned, from which the new digest comes.
ResultingTeam(w, team) ==
  LET row == IF w.action = "remove" THEN Blank ELSE NewRow(w, Row(w, team))
  IN IF w.kind = "member"
       THEN [team EXCEPT !.members = [team.members EXCEPT ![w.person] = row]]
       ELSE [team EXCEPT !.invitations = [team.invitations EXCEPT ![w.person] = row]]

\* Mistake for ReceiptsMatchVersions: the receipt is not in the batch.
ApplySlip(c) ==
  LET w == Request(c).wish
  IN /\ member' = IF w.kind = "member"
                    THEN [member EXCEPT ![w.person] = NewRow(w, member[w.person])]
                    ELSE member
     /\ invitation' = IF w.kind = "invitation"
                        THEN [invitation EXCEPT ![w.person] = NewRow(w, invitation[w.person])]
                        ELSE invitation
     /\ head' = [version |-> seen[c].version + 1,
                 digest  |-> ResultingTeam(w, seen[c].digest)]
     /\ UNCHANGED log

\* #applyPlan and insertOperationLog.
Apply(c) ==
  LET w == Request(c).wish
  IN /\ member' = IF w.kind = "member"
                    THEN [member EXCEPT ![w.person] = NewRow(w, member[w.person])]
                    ELSE member
     /\ invitation' = IF w.kind = "invitation"
                        THEN [invitation EXCEPT ![w.person] = NewRow(w, invitation[w.person])]
                        ELSE invitation
     /\ head' = [version |-> seen[c].version + 1,
                 digest  |-> ResultingTeam(w, seen[c].digest)]
     /\ log' = log \cup {[key |-> Key(c), request |-> Request(c),
                          version |-> seen[c].version + 1, call |-> c]}

\* Mistake for KeepsTeamPromise: authority is checked, but not in the batch.
AuthorityHoldsSlip(c) == TRUE

\* The batch finds the rows as they were read.  The session's expiry is
\* compared with what was read, not with the clock.
AuthorityHolds(c) ==
  /\ Actor(c) \in live
  /\ stamp[Actor(c)] = authority[c].stamp
  /\ member[Actor(c)] = authority[c].row

\* Mistake for AnOwnerRemains: only the row that changes is guarded.
TeamHoldsSlip(c) ==
  LET w == Request(c).wish IN Row(w, Team) = Row(w, seen[c].digest)

\* guardPlanningSnapshot
TeamHolds(c) == head = seen[c] /\ Team = seen[c].digest

\* RECEIPT_ABSENT_PREDICATE
ReceiptAbsent(c) == Receipt(Key(c)) = {}

Guards(c) == AuthorityHolds(c) /\ TeamHolds(c) /\ ReceiptAbsent(c)

\* The recipients' lookup binding is unique for ever, also when the
\* invitation was revoked or consumed.
Unique(c) ==
  LET w == Request(c).wish
  IN w.action = "invite" => invitation[w.person].status = "none"

\* The batch commits; its answer reaches the worker or is lost.
Commit(c) ==
  /\ \E answer \in {"done", "failed"} : Move(c, "planned", answer, None, None)
  /\ Guards(c) /\ Unique(c)
  /\ Apply(c)
  /\ UNCHANGED <<sessions, asked, attempts, signIn>>

\* An error that is no conflict is thrown, with nothing written.
BatchFails(c) ==
  /\ Move(c, "planned", "failed", None, None)
  /\ Guards(c) /\ ~Unique(c)
  /\ UNCHANGED <<rows, sessions, asked, attempts, signIn>>

\* Mistake for EverybodyIsAnswered: the same batch is sent again.
ConflictSlip(c) ==
  /\ phase[c] = "planned"
  /\ ~Guards(c)
  /\ UNCHANGED vars

\* A predicate fails: the whole attempt is repeated on a new session, up to
\* the limit.
Conflict(c) ==
  /\ Move(c, "planned",
          IF attempts[c] + 1 < MaxAttempts THEN "attempting" ELSE "contended", None, None)
  /\ ~Guards(c)
  /\ attempts' = [attempts EXCEPT ![c] = attempts[c] + 1]
  /\ UNCHANGED <<rows, sessions, asked, signIn>>

CallStep(c) ==
  \/ Authorise(c) \/ Preflight(c) \/ Recheck(c) \/ Relook(c)
  \/ ReadTeam(c) \/ Plan(c) \/ Commit(c) \/ BatchFails(c) \/ Conflict(c)

----------------------------------------------------------------------------
(* Sign-in: ensureAuthPrincipalProvisioned, loadSignInEvidence, planSignIn  *)
(* and commitSignInPlan.                                                    *)

\* A member is read as it is and a removed member is turned away; neither
\* touches the team.
ReadMembership(s) ==
  LET status == member[PersonOf[s]].status
  IN /\ signIn[s].phase = "idle"
     /\ signIn' = [signIn EXCEPT ![s] =
          IF status \in {"none", "pending_review"}
            THEN [signIn[s] EXCEPT !.phase = "linked", !.found = status]
            ELSE SignInAt("ended")]
     /\ UNCHANGED <<rows, sessions, callVars>>

\* With an open invitation the person is to be admitted in its role; without
\* one a newcomer waits for review, or is not admitted at all, and somebody
\* already under review stays there.
ReadReservation(s) ==
  LET row == invitation[PersonOf[s]]
  IN /\ signIn[s].phase = "linked"
     /\ \/ /\ row.status = "open"
           /\ signIn' = [signIn EXCEPT ![s] =
                [signIn[s] EXCEPT !.phase = "planned", !.role = row.role]]
        \/ /\ row.status # "open" /\ signIn[s].found = "none"
           /\ signIn' = [signIn EXCEPT ![s] = [signIn[s] EXCEPT !.phase = "planned"]]
        \/ /\ row.status # "open"
           /\ signIn' = [signIn EXCEPT ![s] = SignInAt("ended")]
     /\ UNCHANGED <<rows, sessions, callVars>>

\* bufferMutation's predicates: create_membership, activate_membership and
\* consume_access_reservation.
SignInGuards(s) ==
  /\ member[PersonOf[s]].status = signIn[s].found
  /\ signIn[s].role # "none" => invitation[PersonOf[s]].status = "open"

\* The batch commits.  It does not touch workspace_team_heads.  When a
\* predicate fails the same plan is tried again to no avail, and the answer is
\* the state another sign-in has left, or a failure.
CommitSignIn(s) ==
  LET p    == PersonOf[s]
      role == signIn[s].role
  IN /\ signIn[s].phase = "planned"
     /\ signIn' = [signIn EXCEPT ![s] = SignInAt("ended")]
     /\ IF ~SignInGuards(s)
          THEN UNCHANGED <<member, invitation>>
          ELSE /\ member' = [member EXCEPT ![p] =
                    [status  |-> IF role = "none" THEN "pending_review" ELSE "active",
                     role    |-> role,
                     version |-> member[p].version + 1]]
               /\ invitation' = IF role = "none" THEN invitation
                    ELSE [invitation EXCEPT ![p] =
                           [invitation[p] EXCEPT !.status = "consumed",
                                                 !.version = invitation[p].version + 1]]
     /\ UNCHANGED <<head, log, sessions, callVars>>

SignInStep(s) == ReadMembership(s) \/ ReadReservation(s) \/ CommitSignIn(s)

----------------------------------------------------------------------------
(* Sessions, kept by the authentication library. *)

RenewSession(p) ==
  /\ p \in live \ expired /\ stamp[p] <= MaxRenewals
  /\ stamp' = [stamp EXCEPT ![p] = stamp[p] + 1]
  /\ UNCHANGED <<rows, live, expired, callVars, signIn>>

\* Sign-out and revocation: the row goes.
RevokeSession(p) ==
  /\ p \in live
  /\ live' = live \ {p}
  /\ UNCHANGED <<rows, stamp, expired, callVars, signIn>>

\* Time passes: the row stays as it is.
ExpireSession(p) ==
  /\ p \in live \ expired
  /\ expired' = expired \cup {p}
  /\ UNCHANGED <<rows, live, stamp, callVars, signIn>>

----------------------------------------------------------------------------

Next ==
  \/ \E c \in Calls :
       \/ \E i \in Intents[c] : Draft(c, i[1], i[2])
       \/ \E d \in Calls : Resend(c, d)
       \/ CallStep(c)
  \/ \E s \in SignIns : SignInStep(s)
  \/ \E p \in Roaming :
       RenewSession(p) \/ RevokeSession(p) \/ ExpireSession(p)

Spec == Init /\ [][Next]_vars

\* The database answers each statement or fails it, and the worker goes on.
\* Nobody need ask, sign in, or keep a session.
Fairness ==
  /\ \A c \in Calls : WF_vars(CallStep(c))
  /\ \A s \in SignIns : WF_vars(ReadReservation(s) \/ CommitSignIn(s))

FairSpec == Spec /\ Fairness

----------------------------------------------------------------------------
(* Properties. *)

\* The workspace always has an owner, also when two owners remove or demote
\* each other at the same time, each on a team in which the other is there.
AnOwnerRemains == Owners(Team) # {}

\* Effects, receipts and versions agree: a key has at most one receipt, no
\* two receipts claim the same team version, and the team version counts the
\* receipts: none is missing and nothing was applied without one.
ReceiptsMatchVersions ==
  /\ \A r, t \in log : r.key = t.key \/ r.version = t.version => r = t
  /\ head.version = Cardinality(log) + 1

\* An answer tells the truth about the database.  Success, also a replayed
\* one, means that the receipt of the key is for this very request; every
\* other answer except a failure means that this call has changed nothing.
AnswersAreTrue ==
  \A c \in Calls :
    /\ phase[c] = "done" =>
         \E r \in log : r.key = Key(c) /\ r.request = Request(c)
    /\ \A r \in log : r.call = c => phase[c] \in {"done", "failed"}

\* Conflicts are not a livelock and do not use up the attempts: other than
\* renewals of the actor's own session, one change of the team settles what
\* becomes of a request, because the team it was drafted on is gone.
ConflictsSettle ==
  \A c \in Calls : attempts[c] > 0 => attempts[c] <= stamp[Actor(c)]

\* The keys of the calls whose attempt has been authorised.
Vouched == {Key(c) : c \in {d \in Calls : phase[d] \in InAttempt}}

\* The team is the promised one, as if each operation were a single step.
Promise == INSTANCE TeamPromise WITH
  version <- head.version,
  applied <- {[key |-> r.key, request |-> r.request, version |-> r.version] : r \in log},
  vouched <- Vouched

KeepsTeamPromise == Promise!Spec

\* Every request that was sent is answered and every sign-in that has begun
\* ends: neither begins twice, so it is enough that time and again none of
\* them is under way.
EverybodyIsAnswered ==
  []<>( /\ \A c \in Calls : phase[c] \in {"idle"} \cup Answers
        /\ \A s \in SignIns : signIn[s].phase \in {"idle", "ended"} )

\* The head tells the truth about the team: "Advances the Team guard in the
\* same transaction as a provisioning mutation." (workspace-team.ts:403).
HeadTellsTheTruth == Readable

\* An invited person joins in the role the invitation has at that moment.
JoinsInTheInvitedRole ==
  [][\A p \in People :
       invitation[p].status = "open" /\ invitation'[p].status = "consumed" =>
         member'[p].role = invitation[p].role]_vars
=============================================================================
