-------------------------- MODULE MCInvoiceService --------------------------
(* A small instance of module InvoiceService for TLC. *)
EXTENDS InvoiceService, TLC

CONSTANTS r1, r2, e1, b1, i1, k1, u1

MCOwner == i1 :> b1
MCBusiness == [x \in {r1, r2, e1} |-> b1]
MCUrl == e1 :> u1
MCTokens == {"tok_success"}

=============================================================================
