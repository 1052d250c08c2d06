---------------------------- MODULE LanePromise ----------------------------
(***************************************************************************)
(* What the request lane promises its callers, whatever its queue looks    *)
(* like inside: at most one caller owns the lane, callers wait in a line,  *)
(* a caller may leave the line, and the lane passes to the caller that has *)
(* waited longest.  Nobody enters past a waiting caller, and the lane is   *)
(* never free while somebody waits.                                        *)
(***************************************************************************)
EXTENDS Sequences, SequencesExt

CONSTANT Calls          \* the callers of the lane

VARIABLES owners,       \* the callers that hold the lane: none or one
          line          \* the callers that wait, longest wait first

vars == <<owners, line>>

Waiting == {line[i] : i \in 1..Len(line)}

Init ==
  /\ owners = {}
  /\ line = <<>>

\* A caller finds the lane free.
Take(c) ==
  /\ owners = {}
  /\ owners' = {c}
  /\ UNCHANGED line

\* A caller finds the lane owned and gets in line.
Join(c) ==
  /\ owners # {}
  /\ c \notin owners \cup Waiting
  /\ line' = Append(line, c)
  /\ UNCHANGED owners

\* A waiting caller gives up, from anywhere in the line.
Leave(i) ==
  /\ line' = RemoveAt(line, i)
  /\ UNCHANGED owners

\* The owner is done: the longest waiting caller owns the lane next.
PassOn ==
  /\ owners # {}
  /\ IF line = <<>>
       THEN owners' = {} /\ UNCHANGED line
       ELSE owners' = {Head(line)} /\ line' = Tail(line)

Next ==
  \/ \E c \in Calls : Take(c) \/ Join(c)
  \/ \E i \in 1..Len(line) : Leave(i)
  \/ PassOn

Spec == Init /\ [][Next]_vars
=============================================================================
