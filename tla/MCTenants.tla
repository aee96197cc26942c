----------------------------- MODULE MCTenants -----------------------------
(* A small instance of module Tenants for TLC. *)
EXTENDS Tenants, TLC

CONSTANTS b1, b2, r1, r2, p1, p2, m1

\* Businesses differ in nothing but their names, and so do requests and prefixes.
MCSymmetry ==
  Permutations(Businesses) \cup Permutations(Requests) \cup Permutations(Prefixes)

=============================================================================
