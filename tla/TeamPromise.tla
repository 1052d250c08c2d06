---------------------------- MODULE TeamPromise ----------------------------
(***************************************************************************)
(* What the workspace team promises, as if every operation were one step:  *)
(* an operation takes effect at most once per key, only while its actor    *)
(* may manage the team through a session nobody has revoked, and only on   *)
(* the very team the actor was shown; it changes the row it names and      *)
(* nothing else, nobody changes themselves, and no operation leaves the    *)
(* workspace without an owner.  People join only through an open           *)
(* invitation.                                                             *)
(*                                                                         *)
(* The clock is another matter.  That the actor's session has not run out  *)
(* is promised of the moment at which a key is vouched for, not of the     *)
(* operation that follows.                                                 *)
(***************************************************************************)
EXTENDS Naturals

CONSTANTS People, Granted, ActorOf

VARIABLES
  member, invitation, version, applied,
  live,      \* the people whose session is not revoked
  expired,   \* the people whose session has run out
  vouched    \* the keys whose actor was found to hold the authority

team == <<member, invitation, version, applied>>
vars == <<team, live, expired, vouched>>

Owners(m) ==
  {p \in People : m[p].status = "active" /\ m[p].role = "workspace_admin"}

MayManage(p) ==
  /\ p \in live
  /\ member[p].status = "active"
  /\ p \in Owners(member) \cup Granted

\* An actor is checked, the clock included.
Vouch(k) ==
  /\ MayManage(ActorOf[k]) /\ ActorOf[k] \notin expired
  /\ vouched' = vouched \cup {k}
  /\ UNCHANGED <<team, live, expired>>

\* What was found out is not relied on any more.
Forget ==
  /\ vouched' \subseteq vouched
  /\ UNCHANGED <<team, live, expired>>

\* Rows of f other than p's stay, and p's row gets the next version.
OnlyRow(f, g, p) ==
  /\ \A q \in People \ {p} : g[q] = f[q]
  /\ g[p].version = f[p].version + 1

\* The receipt e = [key, request, version] comes with the effect.
Operation(e) ==
  LET w == e.request.wish
      p == e.request.wish.person
  IN /\ e.key \in vouched /\ MayManage(ActorOf[e.key])
     /\ \A f \in applied : f.key # e.key
     /\ e.request.expected.version = version
     /\ version' = version + 1 /\ e.version = version + 1
     /\ applied' = applied \cup {e}
     /\ \/ /\ w.kind = "member"
           /\ p # ActorOf[e.key]
           /\ member[p].status = "active"
           /\ OnlyRow(member, member', p)
           /\ UNCHANGED invitation
        \/ /\ w.kind = "invitation"
           /\ OnlyRow(invitation, invitation', p)
           /\ w.action = "invite" => invitation[p].status = "none"
           /\ w.action # "invite" => invitation[p].status = "open"
           /\ UNCHANGED member
     /\ Owners(member') # {}
     /\ vouched' \subseteq vouched
     /\ UNCHANGED <<live, expired>>

Join(p) ==
  /\ invitation[p].status = "open" /\ invitation'[p].status = "consumed"
  /\ member[p].status \in {"none", "pending_review"} /\ member'[p].status = "active"
  /\ OnlyRow(member, member', p) /\ OnlyRow(invitation, invitation', p)
  /\ UNCHANGED <<version, applied, live, expired, vouched>>

AskToJoin(p) ==
  /\ member[p].status = "none" /\ member'[p].status = "pending_review"
  /\ OnlyRow(member, member', p)
  /\ UNCHANGED <<invitation, version, applied, live, expired, vouched>>

SessionIsRevoked(p) ==
  /\ live' = live \ {p}
  /\ UNCHANGED <<team, expired, vouched>>

SessionRunsOut(p) ==
  /\ expired' = expired \cup {p}
  /\ UNCHANGED <<team, live, vouched>>

Next ==
  \/ \E e \in applied' : Operation(e)
  \/ \E k \in DOMAIN ActorOf : Vouch(k)
  \/ Forget
  \/ \E p \in People :
       Join(p) \/ AskToJoin(p) \/ SessionIsRevoked(p) \/ SessionRunsOut(p)

Init ==
  /\ Owners(member) # {}
  /\ version = 1
  /\ applied = {} /\ vouched = {}

Spec == Init /\ [][Next]_vars
=============================================================================
