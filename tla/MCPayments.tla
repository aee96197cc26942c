----------------------------- MODULE MCPayments -----------------------------
(* Small instances of module Payments for TLC. *)
EXTENDS Payments, TLC

CONSTANTS r1, r2, r3, b1, b2, i1, i2, k1, k2

MCRequests3 == {r1, r2, r3}
MCRequests2 == {r1, r2}
MCOwner == i1 :> b1 @@ i2 :> b2
MCOwner1 == i1 :> b1

\* One token the PSP accepts, one it declines, one it accepts after its long sleep
MCTokens == {"tok_success", "tok_card_declined", "tok_timeout"}
MCTokens2 == {"tok_success", "tok_card_declined"}

\* Requests differ in nothing but their names, and so do keys.
MCSymmetry == Permutations(Requests) \cup Permutations(Keys)

=============================================================================
