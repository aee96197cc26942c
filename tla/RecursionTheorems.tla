------------------------- MODULE RecursionTheorems -------------------------
(***************************************************************************)
(* Induction over the natural numbers, and the existence of functions      *)
(* defined by recursion on them, as facts about sets and functions instead *)
(* of operators: cited with a set of numbers or a function for the case at *)
(* hand, they need no instance of an operator parameter.                   *)
(***************************************************************************)
EXTENDS Integers, WellFoundedInduction, TLAPS

\* A set of natural numbers that holds 0 and with every number the next holds all:
\* to show P(n) for all n, cite it for {n \in Nat : P(n)}.
LEMMA NatSubsetInduction ==
  ASSUME NEW T \in SUBSET Nat,
         0 \in T,
         \A n \in T : n + 1 \in T
  PROVE  T = Nat
<1> SUFFICES ASSUME Nat \ T # {} PROVE FALSE
  OBVIOUS
<1>1. PICK n \in Nat \ T : \A m \in Nat \ T : <<m, n>> \notin OpToRel(<, Nat)
  BY WFMin, NatLessThanWellFounded
<1>2. \A m \in Nat : m < n => <<m, n>> \in OpToRel(<, Nat)
  BY DEF OpToRel
<1>3. \A m \in Nat : m < n => m \in T
  BY <1>1, <1>2
<1>4. n # 0 /\ n - 1 \in Nat /\ n - 1 < n
  OBVIOUS
<1> QED BY <1>3, <1>4

\* A function that begins with a value and goes on with a step for each number up to N
Recursive(N, S, start, step) ==
  \E f \in [0..N -> S] :
    f[0] = start /\ \A n \in 1..N : f[n] = step[n][f[n - 1]]

\* A recursion that begins with a value and goes on with a step for each number up to
\* N defines a function: the running totals over the line items of an invoice are
\* such functions.
THEOREM RecursiveFunction ==
  ASSUME NEW N \in Nat, NEW S, NEW start \in S, NEW step \in [1..N -> [S -> S]]
  PROVE  Recursive(N, S, start, step)
<1> DEFINE Prefix == [m \in Nat |-> {f \in [0..m -> S] :
                        f[0] = start /\ \A n \in 1..m : f[n] = step[n][f[n - 1]]}]
           T == {m \in Nat : m <= N => Prefix[m] # {}}
<1>1. Prefix[0] # {}
  <2>1. [n \in 0..0 |-> start] \in Prefix[0]
    OBVIOUS
  <2> QED BY <2>1
<1>2. ASSUME NEW m \in Nat, m + 1 <= N, Prefix[m] # {} PROVE Prefix[m + 1] # {}
  <2>1. PICK f \in [0..m -> S] :
          f[0] = start /\ \A n \in 1..m : f[n] = step[n][f[n - 1]]
    BY <1>2
  <2> DEFINE g == [n \in 0..(m + 1) |-> IF n = m + 1 THEN step[m + 1][f[m]] ELSE f[n]]
  <2>2. f[m] \in S /\ step[m + 1][f[m]] \in S
    BY <1>2, <2>1
  <2>3. g \in [0..(m + 1) -> S]
    BY <2>1, <2>2
  <2>4. g[0] = start
    BY <2>1
  <2>5. ASSUME NEW n \in 1..(m + 1) PROVE g[n] = step[n][g[n - 1]]
    <3>1. n - 1 \in 0..m /\ g[n - 1] = f[n - 1]
      OBVIOUS
    <3>2. CASE n = m + 1
      BY <3>1, <3>2
    <3>3. CASE n \in 1..m
      <4>1. g[n] = f[n]
        BY <3>3
      <4> QED BY <4>1, <3>1, <3>3, <2>1
    <3> QED BY <3>2, <3>3
  <2> HIDE DEF g
  <2>6. g \in Prefix[m + 1]
    BY <2>3, <2>4, <2>5
  <2> QED BY <2>6
<1>3. Prefix[N] # {}
  <2> HIDE DEF Prefix
  <2>1. 0 \in T
    BY <1>1
  <2>2. \A m \in T : m + 1 \in T
    BY <1>2
  <2>3. T = Nat
    BY <2>1, <2>2, NatSubsetInduction
  <2> QED BY <2>3
<1> QED BY <1>3 DEF Recursive

=============================================================================
