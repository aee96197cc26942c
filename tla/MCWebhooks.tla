----------------------------- MODULE MCWebhooks -----------------------------
(* Small instances of module Webhooks for TLC. *)
EXTENDS Webhooks, TLC

CONSTANTS v1, v2, v3, e1, e2, b1, u1, u2

\* e1 and e2 are two urls of b1
MCBusiness == [x \in {v1, v2, v3, e1, e2} |-> b1]
MCUrl == e1 :> u1 @@ e2 :> u2

=============================================================================
