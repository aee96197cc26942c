--------------------------- MODULE WebhookPromise ---------------------------
(***************************************************************************)
(* What the service promises the owner of a webhook endpoint, without      *)
(* tasks, batches, statements or a worker: an announced delivery is tried  *)
(* until a receiver accepts it, and is given up only after enough tries;   *)
(* an endpoint that is removed takes its deliveries with it, for good.     *)
(* Module Webhooks implements this under failed statements and crashes.    *)
(***************************************************************************)
EXTENDS Naturals

CONSTANTS
  Deliveries,   \* an event on its way to an endpoint
  Endpoints,
  EndpointOf,   \* EndpointOf[d]: where delivery d goes
  MaxAttempts   \* tries before a delivery may be given up

VARIABLES
  status,       \* status[d]: "none" before the delivery is announced
  tries,        \* tries[d]: how often d was tried
  accepted      \* deliveries of which a try was accepted

vars == <<status, tries, accepted>>

TypeOK ==
  /\ status \in [Deliveries -> {"none", "pending", "delivered", "given_up", "removed"}]
  /\ tries \in [Deliveries -> Nat]
  /\ accepted \subseteq Deliveries

Init ==
  /\ status = [d \in Deliveries |-> "none"]
  /\ tries = [d \in Deliveries |-> 0]
  /\ accepted = {}

\* A delivery is announced once.
Announce(d) ==
  /\ status[d] = "none"
  /\ status' = [status EXCEPT ![d] = "pending"]
  /\ UNCHANGED <<tries, accepted>>

\* Whether a try is accepted is up to the receiver, which may accept several.
Try(d) ==
  /\ status[d] = "pending"
  /\ tries' = [tries EXCEPT ![d] = @ + 1]
  /\ accepted' \in {accepted, accepted \cup {d}}
  /\ UNCHANGED status

Deliver(d) ==
  /\ status[d] = "pending"
  /\ d \in accepted
  /\ status' = [status EXCEPT ![d] = "delivered"]
  /\ UNCHANGED <<tries, accepted>>

GiveUp(d) ==
  /\ status[d] = "pending"
  /\ tries[d] >= MaxAttempts
  /\ status' = [status EXCEPT ![d] = "given_up"]
  /\ UNCHANGED <<tries, accepted>>

\* What is known of a removed endpoint's deliveries goes with them.
Remove(e) ==
  LET gone == {d \in Deliveries : EndpointOf[d] = e}
  IN /\ status' = [d \in Deliveries |-> IF d \in gone THEN "removed" ELSE status[d]]
     /\ tries' = [d \in Deliveries |-> IF d \in gone THEN 0 ELSE tries[d]]
     /\ accepted' = accepted \ gone

Next ==
  \/ \E d \in Deliveries : Announce(d) \/ Try(d) \/ Deliver(d) \/ GiveUp(d)
  \/ \E e \in Endpoints : Remove(e)

Spec == Init /\ [][Next]_vars

=============================================================================
