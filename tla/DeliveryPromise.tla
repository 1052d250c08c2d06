--------------------------- MODULE DeliveryPromise ---------------------------
(***************************************************************************)
(* What the outbound email lane promises about one message to one          *)
(* recipient, without leases, claims, attempts or crashes: when it may be  *)
(* sent, and when a send must carry the resend mark.                       *)
(***************************************************************************)
CONSTANTS
  Deliveries,  \* the messages, one recipient each
  Copies,      \* names for the copies of a message
  Dedupes      \* the provider keeps one copy per message by itself

VARIABLES
  stage,    \* where each message stands
  exposed   \* its unmarked copies that are out or may have arrived

vars == <<stage, exposed>>

Sending == {"sending_unmarked", "sending_marked"}
Stages == {"absent", "waiting", "settled", "ambiguous", "quarantined"} \cup Sending

TypeOK == /\ stage \in [Deliveries -> Stages]
          /\ exposed \in [Deliveries -> SUBSET Copies]

Init == /\ stage = [d \in Deliveries |-> "absent"]
        /\ exposed = [d \in Deliveries |-> {}]

Request(d) ==
  /\ stage[d] = "absent"
  /\ stage' = [stage EXCEPT ![d] = "waiting"]
  /\ UNCHANGED exposed

\* An unmarked send is allowed only while no unmarked copy can be out.
SendUnmarked(d) ==
  /\ stage[d] \in {"waiting", "ambiguous"}
  /\ exposed[d] = {} \/ Dedupes
  /\ stage' = [stage EXCEPT ![d] = "sending_unmarked"]
  /\ \E c \in Copies \ exposed[d] :
       exposed' = [exposed EXCEPT ![d] = @ \cup {c}]

SendMarked(d) ==
  /\ stage[d] \in {"waiting", "ambiguous"}
  /\ stage' = [stage EXCEPT ![d] = "sending_marked"]
  /\ UNCHANGED exposed

\* The send ends.  Only a definite rejection takes its copy back.
Arrived(d) ==
  /\ stage[d] \in Sending
  /\ stage' = [stage EXCEPT ![d] = "settled"]
  /\ UNCHANGED exposed

Lost(d) ==
  /\ stage[d] \in Sending
  /\ \E s \in {"ambiguous", "quarantined"} : stage' = [stage EXCEPT ![d] = s]
  /\ UNCHANGED exposed

Refused(d) ==
  /\ \/ stage[d] = "sending_marked" /\ UNCHANGED exposed
     \/ /\ stage[d] = "sending_unmarked"
        /\ \E c \in exposed[d] : exposed' = [exposed EXCEPT ![d] = @ \ {c}]
  /\ \E s \in {"waiting", "settled"} : stage' = [stage EXCEPT ![d] = s]

\* The organizer asks for a resend to a corrected address.
Reopen(d) ==
  /\ stage[d] \notin Sending \cup {"absent"}
  /\ stage' = [stage EXCEPT ![d] = "waiting"]
  /\ UNCHANGED exposed

Next == \E d \in Deliveries :
  \/ Request(d) \/ SendUnmarked(d) \/ SendMarked(d)
  \/ Arrived(d) \/ Lost(d) \/ Refused(d) \/ Reopen(d)

Spec == Init /\ [][Next]_vars

\* What the promise comes to for a recipient: at most one unmarked copy of a
\* message is out or may have arrived, unless the provider deduplicates.
OneUnmarkedCopy ==
  ~Dedupes => \A d \in Deliveries : \A b, c \in exposed[d] : b = c
=============================================================================
