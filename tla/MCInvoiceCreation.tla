------------------------- MODULE MCInvoiceCreation -------------------------
(* A small instance of module InvoiceCreation for TLC: 4-bit and 7-bit widths. *)
EXTENDS InvoiceCreation, TLC

CONSTANTS r1, r2, q1, b1, b2, c1, c2

Item(quantity, unit) == [blank |-> FALSE, quantity |-> quantity, unit |-> unit]

\* Invalid items, small ones, and ones that exceed or wrap either width alone or
\* together: 7 * 7 = 49 is 1 in 4 bits, 49 + 49 is more than 63.
MCItems == {Item(0, 1), [blank |-> TRUE, quantity |-> 1, unit |-> 1],
            Item(1, 1), Item(2, 3), Item(7, 7)}

\* A business and a customer of its own, twice: requests may name the other's customer.
MCCustomerOf == c1 :> b1 @@ c2 :> b2

\* Requests differ in nothing but their names.
MCSymmetry == Permutations(Requests)

=============================================================================
