-------------------------- MODULE MCWorkspaceTeam --------------------------
(* The workspace team with two owners, a manager by override and a guest. *)
EXTENDS WorkspaceTeamD1, TLC

CONSTANTS a, b, m, g,      \* two owners, the manager, the guest
          k1, k2,          \* a key of the first owner and one of the manager
          c1, c2           \* calls

MCActorOf == (k1 :> a) @@ (k2 :> m)
MCPersonOf == [s \in SignIns |-> g]

Wish(action, kind, person, role) ==
  [action |-> action, kind |-> kind, person |-> person, role |-> role]

OwnerIntents ==
  {<<k1, Wish("remove", "member", b, "viewer")>>,
   <<k1, Wish("invite", "invitation", g, "viewer")>>}

ManagerIntents ==
  {<<k2, Wish("change_role", "member", a, "viewer")>>,
   <<k2, Wish("change_role", "invitation", g, "workspace_admin")>>,
   <<k2, Wish("remove", "invitation", g, "viewer")>>}

\* The second call is the manager's, or the owner's under the same key.
MCIntents ==
  (c1 :> OwnerIntents) @@
  (c2 :> ManagerIntents \cup {<<k1, Wish("change_role", "member", b, "viewer")>>})
=============================================================================
