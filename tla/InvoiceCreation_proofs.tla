----------------------- MODULE InvoiceCreation_proofs -----------------------
(***************************************************************************)
(* Proofs about module InvoiceCreation, for any requests, readers, items   *)
(* and widths: first what the running totals over line items compute, by   *)
(* induction over their number, then the invariants.                       *)
(***************************************************************************)
EXTENDS InvoiceCreation, RecursionTheorems, TLAPS

-----------------------------------------------------------------------------
(* Line items *)

LEMMA ItemListFacts ==
  ASSUME NEW items \in ItemLists
  PROVE  /\ Len(items) \in 0..MaxItems
         /\ items \in [1..Len(items) -> Items]
         /\ DOMAIN items = 1..Len(items)
<1>1. PICK n \in 0..MaxItems : items \in [1..n -> Items]
  BY DEF ItemLists
<1>2. n \in Nat
  BY MaxItemsAssumption
<1>3. items \in Seq(Items) /\ Len(items) = n
  BY <1>1, <1>2
<1> QED BY <1>1, <1>3

LEMMA IsItemList ==
  ASSUME NEW n \in 0..MaxItems, NEW items \in [1..n -> Items]
  PROVE  items \in ItemLists /\ Len(items) = n
<1>1. n \in Nat
  BY MaxItemsAssumption
<1>2. items \in Seq(Items) /\ Len(items) = n
  BY <1>1
<1> QED BY <1>2 DEF ItemLists

LEMMA WorthIsInt == \A item \in Items : Worth(item) \in Int
<1> TAKE item \in Items
<1>1. item.quantity \in Int /\ item.unit \in Int
  BY ItemsAssumption, WidthAssumption
<1> QED BY <1>1 DEF Worth

LEMMA ValidWorth == \A item \in Items : ValidItem(item) => Worth(item) > 0
<1> TAKE item \in Items
<1> HAVE ValidItem(item)
<1>1. item.quantity \in Int /\ item.unit \in Int /\ item.quantity > 0 /\ item.unit > 0
  BY ItemsAssumption, WidthAssumption DEF ValidItem
<1>2. \A x, y \in Int : x > 0 /\ y > 0 => x * y > 0
  OBVIOUS
<1> QED BY <1>1, <1>2 DEF Worth

LEMMA Widths == I32Max \in Nat /\ I64Max \in Nat /\ 0 < I32Max /\ I32Max <= I64Max
<1>1. I32Max \in Nat /\ I64Max \in Nat /\ 0 < I32Max /\ I32Max * I32Max <= I64Max
  BY WidthAssumption
<1>2. \A i, j \in Nat : 0 < i /\ i * i <= j => i <= j
  OBVIOUS
<1> QED BY <1>1, <1>2

-----------------------------------------------------------------------------
(* The exact totals *)

\* Sums is the function its recursion says: the recursion has a solution.
LEMMA SumsDef ==
  ASSUME NEW items \in ItemLists
  PROVE  /\ Sums(items) \in [0..Len(items) -> Int]
         /\ Sums(items)[0] = 0
         /\ \A n \in 1..Len(items) :
              Sums(items)[n] = Sums(items)[n - 1] + Worth(items[n])
<1> DEFINE N == Len(items)
           step == [n \in 1..N |-> [sum \in Int |-> sum + Worth(items[n])]]
           IsSum(f) == f = [n \in 0..N |-> IF n = 0 THEN 0 ELSE f[n - 1] + Worth(items[n])]
<1>1. N \in Nat /\ items \in [1..N -> Items]
  BY ItemListFacts, MaxItemsAssumption
<1>2. \A n \in 1..N : Worth(items[n]) \in Int
  BY <1>1, WorthIsInt
<1>3. step \in [1..N -> [Int -> Int]]
  BY <1>2
<1>4. PICK f \in [0..N -> Int] : f[0] = 0 /\ \A n \in 1..N : f[n] = step[n][f[n - 1]]
  <2>1. 0 \in Int /\ N \in Nat
    BY <1>1
  <2>2. Recursive(N, Int, 0, step)
    <3> HIDE DEF step, N
    <3> QED BY <1>3, <2>1, RecursiveFunction
  <2> QED BY <2>2 DEF Recursive
<1>5. IsSum(f)
  <2>1. ASSUME NEW n \in 1..N PROVE f[n] = f[n - 1] + Worth(items[n])
    <3>1. f[n - 1] \in Int
      BY <1>1
    <3> QED BY <1>4, <3>1
  <2> HIDE DEF step
  <2> QED BY <1>1, <1>4, <2>1
<1>6. Sums(items) = CHOOSE g : IsSum(g)
  BY DEF Sums
<1>7. IsSum(Sums(items))
  <2> HIDE DEF IsSum
  <2> QED BY <1>5, <1>6
<1>8. Sums(items)[0] = 0
  BY <1>1, <1>7
<1>9. \A n \in 1..N : Sums(items)[n] = Sums(items)[n - 1] + Worth(items[n])
  BY <1>1, <1>7
<1>10. Sums(items) \in [0..N -> Int]
  <2>1. \A n \in 0..N : Sums(items)[n] \in Int
    <3> DEFINE T == {n \in Nat : n <= N => Sums(items)[n] \in Int}
    <3>1. 0 \in T
      BY <1>8
    <3>2. ASSUME NEW n \in T PROVE n + 1 \in T
      <4>1. CASE n + 1 <= N
        <5>1. n + 1 \in 1..N /\ (n + 1) - 1 = n /\ Sums(items)[n] \in Int
          BY <3>2, <4>1, <1>1
        <5>2. Sums(items)[n + 1] = Sums(items)[n] + Worth(items[n + 1])
          BY <5>1, <1>9
        <5> QED BY <5>1, <5>2, <1>2
      <4>2. CASE ~(n + 1 <= N)
        BY <4>2
      <4> QED BY <4>1, <4>2
    <3>3. T = Nat
      <4> HIDE DEF T
      <4>1. T \in SUBSET Nat
        BY DEF T
      <4> QED BY <3>1, <3>2, <4>1, NatSubsetInduction
    <3> QED BY <3>3, <1>1
  <2> QED BY <2>1, <1>7
<1> QED BY <1>8, <1>9, <1>10

\* A total depends on the line items up to it only.
LEMMA SumsAgree ==
  ASSUME NEW a \in ItemLists, NEW b \in ItemLists, NEW m \in Nat,
         m <= Len(a), m <= Len(b),
         \A n \in 1..m : a[n] = b[n]
  PROVE  Sums(a)[m] = Sums(b)[m]
<1> DEFINE T == {n \in Nat : n <= m => Sums(a)[n] = Sums(b)[n]}
<1>1. Len(a) \in Nat /\ Len(b) \in Nat
  BY ItemListFacts, MaxItemsAssumption
<1>2. 0 \in T
  BY SumsDef
<1>3. ASSUME NEW n \in T PROVE n + 1 \in T
  <2>1. CASE n + 1 <= m
    <3>1. /\ n + 1 \in 1..m /\ n + 1 \in 1..Len(a) /\ n + 1 \in 1..Len(b)
          /\ (n + 1) - 1 = n /\ Sums(a)[n] = Sums(b)[n]
      BY <1>1, <1>3, <2>1
    <3>2. /\ Sums(a)[n + 1] = Sums(a)[n] + Worth(a[n + 1])
          /\ Sums(b)[n + 1] = Sums(b)[n] + Worth(b[n + 1])
      BY <3>1, SumsDef
    <3> QED BY <3>1, <3>2
  <2>2. CASE ~(n + 1 <= m)
    BY <2>2
  <2> QED BY <2>1, <2>2
<1>4. T = Nat
  <2> HIDE DEF T
  <2>1. T \in SUBSET Nat
    BY DEF T
  <2> QED BY <1>2, <1>3, <2>1, NatSubsetInduction
<1> QED BY <1>4

\* To exchange one line item is to exchange its worth in the total.
LEMMA SumsUpdate ==
  ASSUME NEW a \in ItemLists, NEW b \in ItemLists, Len(a) = Len(b),
         NEW k \in 1..Len(a),
         \A n \in 1..Len(a) : n # k => a[n] = b[n]
  PROVE  ExactTotal(b) = (ExactTotal(a) + Worth(b[k])) - Worth(a[k])
<1> DEFINE N == Len(a)
           T == {n \in Nat : k + n <= N =>
                   Sums(b)[k + n] = (Sums(a)[k + n] + Worth(b[k])) - Worth(a[k])}
<1>1. /\ N \in Nat /\ k \in Nat /\ 1 <= k /\ k <= N
      /\ a \in [1..N -> Items] /\ b \in [1..N -> Items]
  BY ItemListFacts, MaxItemsAssumption
<1>2. /\ Sums(a) \in [0..N -> Int] /\ Sums(b) \in [0..N -> Int]
      /\ \A n \in 1..N : Worth(a[n]) \in Int /\ Worth(b[n]) \in Int
  BY <1>1, SumsDef, WorthIsInt
<1>3. 0 \in T
  <2>1. Sums(a)[k - 1] = Sums(b)[k - 1]
    <3>1. \A n \in 1..(k - 1) : n \in 1..N /\ n # k
      BY <1>1
    <3>2. k - 1 \in Nat /\ k - 1 <= Len(a) /\ k - 1 <= Len(b)
      BY <1>1
    <3> QED BY <3>1, <3>2, SumsAgree
  <2>2. /\ Sums(a)[k] = Sums(a)[k - 1] + Worth(a[k])
        /\ Sums(b)[k] = Sums(b)[k - 1] + Worth(b[k])
    BY SumsDef
  <2>3. k - 1 \in 0..N
    BY <1>1
  <2>4. Sums(a)[k - 1] \in Int /\ Worth(a[k]) \in Int /\ Worth(b[k]) \in Int
    BY <2>3, <1>1, <1>2
  <2>5. k + 0 = k
    BY <1>1
  <2> QED BY <2>1, <2>2, <2>4, <2>5
<1>4. ASSUME NEW n \in T PROVE n + 1 \in T
  <2>1. CASE k + (n + 1) <= N
    <3> DEFINE m == k + (n + 1)
    <3>1. /\ m \in 1..N /\ m - 1 = k + n /\ k + n <= N /\ m # k /\ k + n \in 0..N
      BY <1>1, <2>1
    <3>2. /\ Sums(a)[m] = Sums(a)[m - 1] + Worth(a[m])
          /\ Sums(b)[m] = Sums(b)[m - 1] + Worth(b[m])
          /\ a[m] = b[m]
      BY <3>1, SumsDef
    <3>3. Sums(b)[k + n] = (Sums(a)[k + n] + Worth(b[k])) - Worth(a[k])
      BY <1>4, <3>1
    <3>4. Sums(a)[k + n] \in Int /\ Worth(a[m]) \in Int /\ Worth(a[k]) \in Int /\ Worth(b[k]) \in Int
      BY <1>1, <1>2, <3>1
    <3>5. Sums(b)[m] = (Sums(a)[m] + Worth(b[k])) - Worth(a[k])
      <4> HIDE DEF m
      <4> QED BY <3>1, <3>2, <3>3, <3>4
    <3> QED BY <3>5
  <2>2. CASE ~(k + (n + 1) <= N)
    BY <2>2
  <2> QED BY <2>1, <2>2
<1>5. T = Nat
  <2> HIDE DEF T
  <2>1. T \in SUBSET Nat
    BY DEF T
  <2> QED BY <1>3, <1>4, <2>1, NatSubsetInduction
<1>6. N - k \in Nat /\ k + (N - k) = N
  BY <1>1
<1>7. N - k \in T
  BY <1>5, <1>6
<1> QED BY <1>1, <1>6, <1>7 DEF ExactTotal

\* The positive items of a valid list make its totals grow with the number of items.
LEMMA SumsGrow ==
  ASSUME NEW items \in ItemLists, ValidItems(items), NEW n \in 1..Len(items)
  PROVE  Sums(items)[n - 1] \in Int /\ Sums(items)[n - 1] < Sums(items)[n]
<1>1. Len(items) \in Nat /\ items[n] \in Items /\ n \in DOMAIN items /\ n - 1 \in 0..Len(items)
  BY ItemListFacts, MaxItemsAssumption
<1>2. Worth(items[n]) \in Int /\ Worth(items[n]) > 0
  BY <1>1, WorthIsInt, ValidWorth DEF ValidItems
<1>3. Sums(items)[n - 1] \in Int /\ Sums(items)[n] = Sums(items)[n - 1] + Worth(items[n])
  BY <1>1, SumsDef
<1> QED BY <1>2, <1>3

LEMMA SumsNatural ==
  ASSUME NEW items \in ItemLists, ValidItems(items)
  PROVE  /\ \A n \in 0..Len(items) : Sums(items)[n] \in Nat
         /\ ExactTotal(items) \in Nat /\ ExactTotal(items) > 0
<1> DEFINE T == {n \in Nat : n <= Len(items) => Sums(items)[n] \in Nat}
<1>1. Len(items) \in Nat
  BY ItemListFacts, MaxItemsAssumption
<1>2. 0 \in T
  BY SumsDef
<1>3. ASSUME NEW n \in T PROVE n + 1 \in T
  <2>1. CASE n + 1 <= Len(items)
    <3>1. n + 1 \in 1..Len(items) /\ (n + 1) - 1 = n /\ n + 1 \in 0..Len(items)
      BY <1>1, <2>1
    <3>2. Sums(items)[n] < Sums(items)[n + 1] /\ Sums(items)[n + 1] \in Int
      BY <3>1, SumsGrow, SumsDef
    <3>3. Sums(items)[n] \in Nat
      BY <1>3, <2>1, <1>1
    <3> QED BY <3>2, <3>3
  <2>2. CASE ~(n + 1 <= Len(items))
    BY <2>2
  <2> QED BY <2>1, <2>2
<1>4. T = Nat
  <2> HIDE DEF T
  <2>1. T \in SUBSET Nat
    BY DEF T
  <2> QED BY <1>2, <1>3, <2>1, NatSubsetInduction
<1>5. \A n \in 0..Len(items) : Sums(items)[n] \in Nat
  BY <1>1, <1>4
<1>6. Len(items) \in 1..Len(items)
  <2>1. items # <<>>
    BY DEF ValidItems
  <2>2. Len(items) # 0
    <3> SUFFICES ASSUME Len(items) = 0 PROVE FALSE
      OBVIOUS
    <3>1. items \in [1..0 -> Items]
      BY ItemListFacts
    <3> QED BY <2>1, <3>1
  <2> QED BY <1>1, <2>2
<1>7. ExactTotal(items) > 0
  <2>1. Len(items) - 1 \in 0..Len(items)
    BY <1>1, <1>6
  <2> QED BY <1>5, <1>6, <2>1, SumsGrow DEF ExactTotal
<1> QED BY <1>1, <1>5, <1>7 DEF ExactTotal

-----------------------------------------------------------------------------
(* The total of create_invoice *)

LEMMA RunningTotalDef ==
  ASSUME NEW items \in ItemLists, ValidItems(items)
  PROVE  /\ RunningTotal(items)[0] = 0
         /\ \A n \in 1..Len(items) :
              RunningTotal(items)[n] = AddLine(RunningTotal(items)[n - 1], items[n])
<1> DEFINE N == Len(items)
           S == 0..I64Max \cup {None}
           step == [n \in 1..N |-> [total \in S |-> AddLine(total, items[n])]]
           IsTotal(f) == f = [n \in 0..N |-> IF n = 0 THEN 0 ELSE AddLine(f[n - 1], items[n])]
<1>1. N \in Nat /\ items \in [1..N -> Items] /\ 0 \in S
  BY ItemListFacts, MaxItemsAssumption, Widths
<1>2. \A n \in 1..N : Worth(items[n]) \in Int /\ Worth(items[n]) > 0
  BY <1>1, WorthIsInt, ValidWorth DEF ValidItems
<1>3. step \in [1..N -> [S -> S]]
  <2>1. ASSUME NEW n \in 1..N, NEW total \in S PROVE AddLine(total, items[n]) \in S
    <3>1. CASE total = None
      BY <3>1 DEF AddLine
    <3>2. CASE total \in 0..I64Max
      BY <1>2, <3>2, Widths DEF AddLine
    <3> QED BY <3>1, <3>2
  <2> HIDE DEF S
  <2> QED BY <2>1
<1>4. PICK f \in [0..N -> S] : f[0] = 0 /\ \A n \in 1..N : f[n] = step[n][f[n - 1]]
  <2>2. Recursive(N, S, 0, step)
    <3> HIDE DEF step, N, S
    <3> QED BY <1>1, <1>3, RecursiveFunction
  <2> QED BY <2>2 DEF Recursive
<1>5. IsTotal(f)
  <2>1. ASSUME NEW n \in 1..N PROVE f[n] = AddLine(f[n - 1], items[n])
    <3>1. n - 1 \in 0..N
      BY <1>1
    <3>2. f[n - 1] \in S
      <4> HIDE DEF S
      <4> QED BY <3>1
    <3> HIDE DEF S
    <3> QED BY <1>4, <3>2
  <2> HIDE DEF step
  <2> QED BY <1>1, <1>4, <2>1
<1>6. RunningTotal(items) = CHOOSE g : IsTotal(g)
  BY DEF RunningTotal
<1>7. IsTotal(RunningTotal(items))
  <2> HIDE DEF IsTotal
  <2> QED BY <1>5, <1>6
<1> QED BY <1>1, <1>7

\* The checked running total is the exact one as long as it fits the wide integer, and
\* None from the line item on with which it does not: no sum ever wraps.
LEMMA RunningTotalIsExact ==
  ASSUME NEW items \in ItemLists, ValidItems(items)
  PROVE  \A n \in 0..Len(items) :
           RunningTotal(items)[n] =
             IF Sums(items)[n] <= I64Max THEN Sums(items)[n] ELSE None
<1> DEFINE Exact(n) == IF Sums(items)[n] <= I64Max THEN Sums(items)[n] ELSE None
           T == {n \in Nat : n <= Len(items) => RunningTotal(items)[n] = Exact(n)}
<1>1. Len(items) \in Nat
  BY ItemListFacts, MaxItemsAssumption
<1>2. 0 \in T
  BY SumsDef, RunningTotalDef, Widths
<1>3. ASSUME NEW n \in T PROVE n + 1 \in T
  <2>1. CASE n + 1 <= Len(items)
    <3>1. /\ n + 1 \in 1..Len(items) /\ (n + 1) - 1 = n
          /\ n \in 0..Len(items) /\ n + 1 \in DOMAIN items /\ items[n + 1] \in Items
      BY <1>1, <2>1, ItemListFacts
    <3>2. RunningTotal(items)[n] = Exact(n)
      BY <1>3, <3>1
    <3>3. RunningTotal(items)[n + 1] = AddLine(RunningTotal(items)[n], items[n + 1])
      BY <3>1, RunningTotalDef
    <3>4. /\ Sums(items)[n] \in Nat
          /\ Sums(items)[n + 1] = Sums(items)[n] + Worth(items[n + 1])
      BY <3>1, SumsDef, SumsNatural
    <3>5. Worth(items[n + 1]) \in Int /\ Worth(items[n + 1]) > 0
      BY <3>1, WorthIsInt, ValidWorth DEF ValidItems
    <3>6. CASE Sums(items)[n] <= I64Max
      <4>1. RunningTotal(items)[n] = Sums(items)[n] /\ RunningTotal(items)[n] # None
        BY <3>2, <3>4, <3>6, Widths, NoneAssumption
      <4>2. AddLine(RunningTotal(items)[n], items[n + 1]) = Exact(n + 1)
        BY <4>1, <3>4, <3>5, Widths DEF AddLine
      <4> QED BY <3>3, <4>2
    <3>7. CASE ~(Sums(items)[n] <= I64Max)
      <4>1. RunningTotal(items)[n + 1] = None
        BY <3>2, <3>3, <3>7 DEF AddLine
      <4>2. ~(Sums(items)[n + 1] <= I64Max)
        BY <3>4, <3>5, <3>7, Widths
      <4> QED BY <4>1, <4>2
    <3> QED BY <3>6, <3>7
  <2>2. CASE ~(n + 1 <= Len(items))
    BY <2>2
  <2> QED BY <2>1, <2>2
<1>4. T = Nat
  <2> HIDE DEF T
  <2>1. T \in SUBSET Nat
    BY DEF T
  <2> QED BY <1>2, <1>3, <2>1, NatSubsetInduction
<1> QED BY <1>1, <1>4

\* create_invoice refuses a valid list of line items as too large exactly if its exact
\* total does not fit an i32, and what it casts to i32 and stores is the exact total:
\* the checked i64 arithmetic, the comparison and the cast together lose nothing.
THEOREM CheckedTotal ==
  ASSUME NEW items \in ItemLists, ValidItems(items)
  PROVE  /\ Fits(TotalCents(items)) <=> ExactTotal(items) <= I32Max
         /\ Fits(TotalCents(items)) => AsI32(TotalCents(items)) = ExactTotal(items)
<1>1. Len(items) \in 0..Len(items)
  BY ItemListFacts, MaxItemsAssumption
<1>2. TotalCents(items) = IF ExactTotal(items) <= I64Max THEN ExactTotal(items) ELSE None
  BY <1>1, RunningTotalIsExact DEF TotalCents, ExactTotal
<1>3. ExactTotal(items) \in Nat
  BY SumsNatural
<1>4. Fits(TotalCents(items)) <=> ExactTotal(items) <= I32Max
  BY <1>2, <1>3, Widths, NoneAssumption DEF Fits
<1>5. ASSUME Fits(TotalCents(items)) PROVE AsI32(TotalCents(items)) = ExactTotal(items)
  <2>1. \A t, m \in Nat : t <= m => ((t + m + 1) % (2 * (m + 1))) - (m + 1) = t
    OBVIOUS
  <2>2. TotalCents(items) = ExactTotal(items) /\ ExactTotal(items) <= I32Max
    BY <1>2, <1>3, <1>4, <1>5, Widths DEF Fits
  <2> QED BY <1>3, <2>1, <2>2, Widths DEF AsI32
<1> QED BY <1>4, <1>5

-----------------------------------------------------------------------------
(* The order in which line items are read *)

LEMMA OrderFacts ==
  ASSUME NEW n \in Nat, NEW p \in Bijection(1..n, 1..n)
  PROVE  /\ p \in [1..n -> 1..n]
         /\ \A i, j \in 1..n : p[i] = p[j] => i = j
         /\ \A m \in 1..n : \E i \in 1..n : p[i] = m
BY DEF Bijection, Injection, Surjection, IsInjective

LEMMA IsOrder ==
  ASSUME NEW n \in Nat, NEW p \in [1..n -> 1..n],
         \A i, j \in 1..n : p[i] = p[j] => i = j,
         \A m \in 1..n : \E i \in 1..n : p[i] = m
  PROVE  p \in Bijection(1..n, 1..n)
BY DEF Bijection, Injection, Surjection, IsInjective

\* An order of n + 1 line items, the last of which comes k-th, is an order of the first
\* n of them after what comes last has taken the k-th place.
LEMMA ShorterOrder ==
  ASSUME NEW n \in Nat, NEW p \in Bijection(1..(n + 1), 1..(n + 1)),
         NEW k \in 1..(n + 1), p[k] = n + 1
  PROVE  [i \in 1..n |-> IF i = k THEN p[n + 1] ELSE p[i]] \in Bijection(1..n, 1..n)
<1> DEFINE q == [i \in 1..n |-> IF i = k THEN p[n + 1] ELSE p[i]]
<1>1. /\ n + 1 \in Nat
      /\ p \in [1..(n + 1) -> 1..(n + 1)]
      /\ \A i, j \in 1..(n + 1) : p[i] = p[j] => i = j
      /\ \A m \in 1..(n + 1) : \E i \in 1..(n + 1) : p[i] = m
  <2> DEFINE N == n + 1
  <2>1. N \in Nat /\ p \in Bijection(1..N, 1..N)
    OBVIOUS
  <2> HIDE DEF N
  <2>2. /\ p \in [1..N -> 1..N]
        /\ \A i, j \in 1..N : p[i] = p[j] => i = j
        /\ \A m \in 1..N : \E i \in 1..N : p[i] = m
    BY <2>1, OrderFacts
  <2> QED BY <2>1, <2>2 DEF N
<1>2. \A i \in 1..n : i \in 1..(n + 1) /\ i # n + 1
  OBVIOUS
<1>3. q \in [1..n -> 1..n]
  <2>1. ASSUME NEW i \in 1..n, i = k PROVE p[n + 1] \in 1..n
    <3>1. p[n + 1] # p[k]
      BY <1>1, <1>2, <2>1
    <3> QED BY <1>1, <3>1
  <2>2. ASSUME NEW i \in 1..n, i # k PROVE p[i] \in 1..n
    <3>1. p[i] # p[k] /\ p[i] \in 1..(n + 1)
      BY <1>1, <1>2, <2>2
    <3> QED BY <3>1
  <2> QED BY <2>1, <2>2
<1>4. \A i, j \in 1..n : q[i] = q[j] => i = j
  <2>1. TAKE i, j \in 1..n
  <2>2. i \in 1..(n + 1) /\ j \in 1..(n + 1) /\ n + 1 \in 1..(n + 1) /\ i # n + 1 /\ j # n + 1
    OBVIOUS
  <2>3. p[i] = p[j] => i = j
    BY <1>1, <2>2
  <2>4. p[i] # p[n + 1] /\ p[j] # p[n + 1]
    BY <1>1, <2>2
  <2> QED BY <2>3, <2>4
<1>5. \A m \in 1..n : \E i \in 1..n : q[i] = m
  <2>1. TAKE m \in 1..n
  <2>2. PICK i \in 1..(n + 1) : p[i] = m
    BY <1>1, <1>2
  <2>3. i # k
    BY <2>2
  <2>4. CASE i = n + 1
    <3>1. k \in 1..n
      BY <2>3, <2>4
    <3>2. q[k] = m
      BY <2>2, <2>4, <3>1
    <3> QED BY <3>1, <3>2
  <2>5. CASE i # n + 1
    <3>1. i \in 1..n
      BY <2>5
    <3>2. q[i] = m
      BY <2>2, <2>3, <3>1
    <3> QED BY <3>1, <3>2
  <2> QED BY <2>4, <2>5
<1> HIDE DEF q
<1>6. q \in Bijection(1..n, 1..n)
  BY <1>3, <1>4, <1>5, IsOrder
<1> QED BY <1>6 DEF q

\* Readers compute the same total from the line items of an invoice in whatever order
\* the database returns them.
THEOREM TotalInAnyOrder ==
  ASSUME NEW items \in ItemLists, NEW order \in Orders(items)
  PROVE  ExactTotal(InOrder(items, order)) = ExactTotal(items)
<1> DEFINE Same(n) == \A a \in [1..n -> Items], p \in Bijection(1..n, 1..n) :
                        ExactTotal([i \in 1..n |-> a[p[i]]]) = ExactTotal(a)
           T == {n \in Nat : n <= MaxItems => Same(n)}
<1>1. 0 \in T
  <2>1. ASSUME NEW a \in [1..0 -> Items], NEW p \in Bijection(1..0, 1..0)
        PROVE  ExactTotal([i \in 1..0 |-> a[p[i]]]) = ExactTotal(a)
    <3>1. [i \in 1..0 |-> a[p[i]]] = a
      OBVIOUS
    <3> QED BY <3>1
  <2> QED BY <2>1
<1>2. ASSUME NEW n \in Nat, n + 1 <= MaxItems, Same(n) PROVE Same(n + 1)
  <2> SUFFICES ASSUME NEW a \in [1..(n + 1) -> Items],
                      NEW p \in Bijection(1..(n + 1), 1..(n + 1))
               PROVE  ExactTotal([i \in 1..(n + 1) |-> a[p[i]]]) = ExactTotal(a)
    OBVIOUS
  <2>1. /\ p \in [1..(n + 1) -> 1..(n + 1)]
        /\ \E k \in 1..(n + 1) : p[k] = n + 1
    <3>1. n + 1 \in Nat /\ n + 1 \in 1..(n + 1)
      OBVIOUS
    <3> QED BY <3>1, OrderFacts
  <2>2. PICK k \in 1..(n + 1) : p[k] = n + 1
    BY <2>1
  <2> DEFINE b == [i \in 1..(n + 1) |-> a[p[i]]]
             first == [i \in 1..n |-> a[i]]
             q == [i \in 1..n |-> IF i = k THEN p[n + 1] ELSE p[i]]
             moved == [i \in 1..n |-> first[q[i]]]
             c == [i \in 1..(n + 1) |-> IF i = n + 1 THEN a[n + 1] ELSE moved[i]]
  <2>3. q \in Bijection(1..n, 1..n) /\ q \in [1..n -> 1..n]
    BY <2>2, ShorterOrder, OrderFacts
  <2>4. first \in [1..n -> Items] /\ moved \in [1..n -> Items]
    BY <2>3
  <2>5. b \in [1..(n + 1) -> Items] /\ c \in [1..(n + 1) -> Items]
    <3>1. \A i \in 1..(n + 1) : i = n + 1 \/ i \in 1..n
      OBVIOUS
    <3>2. a[n + 1] \in Items
      OBVIOUS
    <3>3. c \in [1..(n + 1) -> Items]
      <4> HIDE DEF moved
      <4> QED BY <2>4, <3>1, <3>2
    <3> QED BY <2>1, <3>3
  <2>6. /\ a \in ItemLists /\ b \in ItemLists /\ c \in ItemLists
        /\ first \in ItemLists /\ moved \in ItemLists
        /\ Len(a) = n + 1 /\ Len(b) = n + 1 /\ Len(c) = n + 1
        /\ Len(first) = n /\ Len(moved) = n
    <3>1. n \in 0..MaxItems /\ n + 1 \in 0..MaxItems
      BY <1>2, MaxItemsAssumption
    <3> HIDE DEF b, first, moved, c
    <3> QED BY <2>4, <2>5, <3>1, IsItemList
  <2>7. ExactTotal(moved) = ExactTotal(first)
    <3> HIDE DEF first, q
    <3> QED BY <1>2, <2>3, <2>4
  <2>8. ExactTotal(c) = ExactTotal(moved) + Worth(a[n + 1])
    <3>1. \A i \in 1..n : c[i] = moved[i]
      OBVIOUS
    <3>2. c[n + 1] = a[n + 1] /\ n + 1 \in 1..(n + 1) /\ (n + 1) - 1 = n
      OBVIOUS
    <3> HIDE DEF c, moved
    <3>3. Sums(c)[n] = Sums(moved)[n]
      <4>1. n <= Len(c) /\ n <= Len(moved)
        BY <2>6
      <4> QED BY <2>6, <3>1, <4>1, SumsAgree
    <3>4. Sums(c)[n + 1] = Sums(c)[n] + Worth(c[n + 1])
      BY <2>6, <3>2, SumsDef
    <3> QED BY <2>6, <3>2, <3>3, <3>4 DEF ExactTotal
  <2>9. ExactTotal(a) = ExactTotal(first) + Worth(a[n + 1])
    <3>1. \A i \in 1..n : a[i] = first[i]
      OBVIOUS
    <3>2. n + 1 \in 1..(n + 1) /\ (n + 1) - 1 = n
      OBVIOUS
    <3> HIDE DEF first
    <3>3. Sums(a)[n] = Sums(first)[n]
      <4>1. n <= Len(a) /\ n <= Len(first)
        BY <2>6
      <4> QED BY <2>6, <3>1, <4>1, SumsAgree
    <3>4. Sums(a)[n + 1] = Sums(a)[n] + Worth(a[n + 1])
      BY <2>6, <3>2, SumsDef
    <3> QED BY <2>6, <3>3, <3>4 DEF ExactTotal
  <2>10. ExactTotal(b) = ExactTotal(c)
    <3>1. CASE k = n + 1
      <4>1. ASSUME NEW i \in 1..(n + 1) PROVE b[i] = c[i]
        <5>1. CASE i = n + 1
          BY <2>2, <3>1, <5>1
        <5>2. CASE i # n + 1
          <6>1. i \in 1..n /\ i # k /\ q[i] = p[i] /\ q[i] \in 1..n
            BY <2>3, <3>1, <5>2
          <6>2. moved[i] = first[q[i]] /\ first[q[i]] = a[q[i]]
            BY <6>1
          <6> QED BY <6>1, <6>2, <5>2
        <5> QED BY <5>1, <5>2
      <4>2. b = c
        BY <4>1
      <4> HIDE DEF b, c
      <4> QED BY <4>2
    <3>2. CASE k # n + 1
      <4> DEFINE d == [i \in 1..(n + 1) |-> IF i = k THEN a[n + 1] ELSE c[i]]
      <4>1. k \in 1..n /\ q[k] = p[n + 1] /\ p[n + 1] \in 1..n /\ p[n + 1] \in 1..(n + 1)
        <5>1. k \in 1..n
          BY <3>2
        <5>2. q[k] = p[n + 1] /\ q[k] \in 1..n
          BY <2>3, <5>1
        <5> QED BY <5>1, <5>2
      <4>2. c[k] = a[p[n + 1]]
        BY <4>1, <3>2
      <4>3. b[k] = a[n + 1] /\ b[n + 1] = a[p[n + 1]] /\ d[k] = a[n + 1] /\ d[n + 1] = a[n + 1]
        BY <2>2, <3>2
      <4>4. d \in [1..(n + 1) -> Items]
        <5>1. a[n + 1] \in Items
          OBVIOUS
        <5> HIDE DEF c
        <5> QED BY <2>5, <5>1
      <4>5. \A i \in 1..(n + 1) : i # k => c[i] = d[i]
        OBVIOUS
      <4>6. ASSUME NEW i \in 1..(n + 1), i # n + 1 PROVE d[i] = b[i]
        <5>1. CASE i = k
          BY <4>3, <5>1
        <5>2. CASE i # k
          <6>1. i \in 1..n /\ q[i] = p[i] /\ q[i] \in 1..n
            BY <2>3, <4>6, <5>2
          <6>2. d[i] = moved[i] /\ moved[i] = first[q[i]] /\ first[q[i]] = a[q[i]]
            BY <6>1, <4>6, <5>2
          <6> QED BY <6>1, <6>2
        <5> QED BY <5>1, <5>2
      <4>7. d \in ItemLists /\ Len(d) = n + 1
        <5>1. n + 1 \in 0..MaxItems
          BY <1>2, MaxItemsAssumption
        <5> HIDE DEF d
        <5> QED BY <4>4, <5>1, IsItemList
      <4>8. n + 1 \in 1..(n + 1)
        OBVIOUS
      <4> HIDE DEF b, c, d
      <4>9. ExactTotal(d) = (ExactTotal(c) + Worth(a[n + 1])) - Worth(a[p[n + 1]])
        <5>1. k \in 1..Len(c) /\ Len(c) = Len(d)
          BY <2>6, <4>7
        <5>2. \A i \in 1..Len(c) : i # k => c[i] = d[i]
          BY <2>6, <4>5
        <5>3. ExactTotal(d) = (ExactTotal(c) + Worth(d[k])) - Worth(c[k])
          BY <2>6, <4>7, <5>1, <5>2, SumsUpdate
        <5> QED BY <4>2, <4>3, <5>3
      <4>10. ExactTotal(b) = (ExactTotal(d) + Worth(a[p[n + 1]])) - Worth(a[n + 1])
        <5>1. n + 1 \in 1..Len(d) /\ Len(d) = Len(b)
          BY <2>6, <4>7, <4>8
        <5>2. \A i \in 1..Len(d) : i # n + 1 => d[i] = b[i]
          BY <4>6, <4>7
        <5>3. ExactTotal(b) = (ExactTotal(d) + Worth(b[n + 1])) - Worth(d[n + 1])
          BY <2>6, <4>7, <5>1, <5>2, SumsUpdate
        <5> QED BY <4>3, <5>3
      <4>11. /\ ExactTotal(c) \in Int
             /\ Worth(a[n + 1]) \in Int /\ Worth(a[p[n + 1]]) \in Int
        <5>1. n + 1 \in 0..Len(c)
          BY <2>6
        <5>2. ExactTotal(c) \in Int
          BY <2>6, <5>1, SumsDef DEF ExactTotal
        <5> QED BY <4>1, <4>8, <5>2, WorthIsInt
      <4> QED BY <4>9, <4>10, <4>11
    <3> QED BY <3>1, <3>2
  <2> HIDE DEF b, c, first, moved
  <2>11. ExactTotal(b) = ExactTotal(a)
    BY <2>7, <2>8, <2>9, <2>10
  <2> QED BY <2>11 DEF b
<1>3. T = Nat
  <2>1. T \in SUBSET Nat
    OBVIOUS
  <2>2. ASSUME NEW n \in T PROVE n + 1 \in T
    <3>1. n + 1 <= MaxItems => Same(n)
      BY MaxItemsAssumption
    <3> HIDE DEF Same
    <3> QED BY <1>2, <3>1
  <2> HIDE DEF T
  <2> QED BY <1>1, <2>1, <2>2, NatSubsetInduction
<1>4. Len(items) \in T /\ Len(items) <= MaxItems
  BY <1>3, ItemListFacts, MaxItemsAssumption
<1>5. Same(Len(items))
  <2> HIDE DEF Same
  <2> QED BY <1>4
<1> QED BY <1>5, ItemListFacts DEF InOrder, Orders

-----------------------------------------------------------------------------
(* The inductive invariant *)

LEMMA InitInv == Init => IInv
<1> SUFFICES ASSUME Init PROVE IInv
  OBVIOUS
<1>1. TypeOK
  <2>1. 0 \in 0..MaxItems
    BY MaxItemsAssumption
  <2>2. <<>> \in ItemLists
    <3>1. <<>> \in [1..0 -> Items]
      OBVIOUS
    <3> QED BY <2>1, <3>1 DEF ItemLists
  <2>3. /\ <<>> \in UNION {[found -> InvoiceRow] : found \in SUBSET Requests}
        /\ <<>> \in UNION {[found -> ItemLists] : found \in SUBSET Requests}
    <3>1. <<>> \in [{} -> InvoiceRow] /\ <<>> \in [{} -> ItemLists] /\ {} \in SUBSET Requests
      OBVIOUS
    <3> QED BY <3>1
  <2> QED BY <2>1, <2>2, <2>3 DEF Init, TypeOK
<1>2. RunInv /\ StoredInv /\ RefusedIfBad
  BY DEF Init, RunInv, StoredInv, RefusedIfBad
<1>3. ReadInv
  <2>1. \A q \in Readers : DOMAIN read[q] = {} /\ DOMAIN view[q] = {}
    BY DEF Init
  <2> QED BY <2>1 DEF ReadInv
<1> QED BY <1>1, <1>2, <1>3 DEF IInv

LEMMA ArriveStep ==
  ASSUME IInv, NEW r \in Requests, NEW a \in Args, Arrive(r, a)
  PROVE  IInv'
<1> USE DEF IInv
<1>1. TypeOK'
  BY DEF TypeOK, Arrive, Goto, Return, Results
<1>2. RunInv'
  BY DEF TypeOK, RunInv, Arrive, Goto, Return
<1>3. StoredInv'
  BY DEF TypeOK, StoredInv, Arrive, Goto, Return
<1>4. ReadInv'
  BY DEF ReadInv, Arrive
<1>5. RefusedIfBad'
  BY DEF TypeOK, RunInv, RefusedIfBad, Arrive, Goto, Return
<1> QED BY <1>1, <1>2, <1>3, <1>4, <1>5

LEMMA CheckCustomerStep ==
  ASSUME IInv, NEW r \in Requests, CheckCustomer(r)
  PROVE  IInv'
<1> USE DEF IInv
<1>1. Fits(TotalCents(args[r].items)) <=> ExactTotal(args[r].items) <= I32Max
  BY CheckedTotal DEF TypeOK, RunInv, CheckCustomer, Args
<1>2. ~(ExactTotal(args[r].items) <= I32Max) => ExactTotal(args[r].items) > I32Max
  BY SumsNatural, Widths DEF TypeOK, RunInv, CheckCustomer, Args
<1>3. TypeOK'
  BY <1>1 DEF TypeOK, CheckCustomer, Goto, Return, Results
<1>4. RunInv'
  BY <1>1 DEF TypeOK, RunInv, CheckCustomer, Goto, Return
<1>5. StoredInv'
  BY DEF TypeOK, StoredInv, CheckCustomer, Goto, Return
<1>6. ReadInv'
  BY DEF ReadInv, CheckCustomer
<1>7. RefusedIfBad'
  BY <1>1, <1>2 DEF TypeOK, RunInv, RefusedIfBad, CheckCustomer, Goto, Return
<1> QED BY <1>3, <1>4, <1>5, <1>6, <1>7

LEMMA InsertInvoiceStep ==
  ASSUME IInv, NEW r \in Requests, InsertInvoice(r)
  PROVE  IInv'
<1> USE DEF IInv
<1>1. LET items == args[r].items
      IN  /\ AsI32(TotalCents(items)) = ExactTotal(items)
          /\ ExactTotal(items) \in 0..I32Max
          /\ 0 < Len(items)
  <2>1. args[r].items \in ItemLists /\ ValidItems(args[r].items)
    BY DEF TypeOK, RunInv, InsertInvoice, Args
  <2>2. ExactTotal(args[r].items) <= I32Max
    BY DEF RunInv, InsertInvoice
  <2>3. ExactTotal(args[r].items) \in Nat /\ ExactTotal(args[r].items) > 0
    BY <2>1, SumsNatural
  <2>4. Len(args[r].items) # 0
    BY <2>1, <2>3, SumsDef DEF ExactTotal
  <2>5. Len(args[r].items) \in Nat
    BY <2>1, ItemListFacts, MaxItemsAssumption
  <2> QED BY <2>1, <2>2, <2>3, <2>4, <2>5, CheckedTotal, Widths
<1>2. /\ pc' = [pc EXCEPT ![r] = "items"]
       /\ header' = [header EXCEPT ![r] =
            [business |-> args[r].business, customer |-> args[r].customer,
             total |-> ExactTotal(args[r].items)]]
       /\ UNCHANGED <<stored, lines, args, inserted, resp, read, view>>
  BY <1>1, Widths DEF InsertInvoice, Goto
<1>3. TypeOK'
  BY <1>1, <1>2 DEF TypeOK, InsertInvoice, Args, InvoiceRow
<1>4. RunInv'
  BY <1>1, <1>2 DEF TypeOK, RunInv, InsertInvoice
<1>5. StoredInv'
  BY DEF TypeOK, StoredInv, InsertInvoice, Goto, Return
<1>6. ReadInv'
  BY DEF ReadInv, InsertInvoice
<1>7. RefusedIfBad'
  BY DEF TypeOK, RunInv, RefusedIfBad, InsertInvoice, Goto, Return
<1> QED BY <1>3, <1>4, <1>5, <1>6, <1>7

LEMMA InsertItemStep ==
  ASSUME IInv, NEW r \in Requests, InsertItem(r)
  PROVE  IInv'
<1> USE DEF IInv
<1>1. Len(args[r].items) \in 0..MaxItems /\ inserted[r] < Len(args[r].items)
  BY ItemListFacts DEF TypeOK, RunInv, InsertItem, Args
<1>2. TypeOK'
  BY <1>1, MaxItemsAssumption DEF TypeOK, InsertItem, Goto
<1>3. RunInv'
  BY <1>1, MaxItemsAssumption DEF TypeOK, RunInv, InsertItem, Goto
<1>4. StoredInv'
  BY DEF TypeOK, StoredInv, InsertItem, Goto, Return
<1>5. ReadInv'
  BY DEF ReadInv, InsertItem
<1>6. RefusedIfBad'
  BY DEF TypeOK, RunInv, RefusedIfBad, InsertItem, Goto, Return
<1> QED BY <1>2, <1>3, <1>4, <1>5, <1>6

LEMMA CommitStep ==
  ASSUME IInv, NEW r \in Requests, NEW result \in {"created", "Internal", "gone"},
         Commit(r, result)
  PROVE  IInv'
<1> USE DEF IInv
<1>1. /\ args[r].items \in ItemLists /\ ValidItems(args[r].items)
      /\ header[r] \in InvoiceRow /\ header[r].total = ExactTotal(args[r].items)
      /\ CustomerOf[header[r].customer] = header[r].business
      /\ ExactTotal(args[r].items) <= I32Max
      /\ stored[r] = None
  <2>1. /\ pc[r] = "commit" /\ args[r] \in Args
    BY DEF TypeOK, Commit
  <2>2. ExactTotal(args[r].items) \in Nat
    BY <2>1, SumsNatural DEF RunInv, Args
  <2> QED BY <2>1, <2>2, Widths DEF TypeOK, RunInv, StoredInv, Args, InvoiceRow
<1>2. SubSeq(args[r].items, 1, inserted[r]) = args[r].items
  <2>1. inserted[r] = Len(args[r].items)
    BY DEF RunInv, Commit
  <2>2. args[r].items \in Seq(Items)
    BY <1>1, ItemListFacts, MaxItemsAssumption
  <2> QED BY <2>1, <2>2
<1>3. /\ pc' = [pc EXCEPT ![r] = "done"]
        /\ resp' = [resp EXCEPT ![r] = result]
        /\ stored' = [stored EXCEPT ![r] = header[r]]
        /\ lines' = [lines EXCEPT ![r] = args[r].items]
        /\ UNCHANGED <<args, header, inserted, read, view>>
  BY <1>2 DEF Commit, Publish, Return
<1>4. TypeOK'
  BY <1>1, <1>3 DEF TypeOK, Commit, Results
<1>5. RunInv'
  BY <1>1, <1>3 DEF TypeOK, RunInv
<1>6. StoredInv'
  BY <1>1, <1>3 DEF TypeOK, StoredInv
<1>7. ReadInv'
  <2>1. ASSUME NEW q \in Readers, NEW s \in DOMAIN read[q]
        PROVE  stored'[s] = stored[s] /\ lines'[s] = lines[s]
    <3>1. s \in Requests /\ s # r
      BY <1>1 DEF TypeOK, ReadInv
    <3> QED BY <3>1, <1>3 DEF TypeOK
  <2>2. \A q \in Readers : DOMAIN view[q] \subseteq DOMAIN read[q]
    BY DEF TypeOK
  <2> QED BY <2>1, <2>2, <1>3 DEF ReadInv
<1>8. RefusedIfBad'
  BY <1>1, <1>3 DEF TypeOK, RefusedIfBad
<1> QED BY <1>4, <1>5, <1>6, <1>7, <1>8

LEMMA AbortStep ==
  ASSUME IInv, NEW r \in Requests, NEW result \in {"Internal", "gone"}, Abort(r, result)
  PROVE  IInv'
<1> USE DEF IInv
<1>1. TypeOK'
  BY DEF TypeOK, Abort, Goto, Return, Results
<1>2. RunInv'
  BY DEF TypeOK, RunInv, Abort, Goto, Return
<1>3. StoredInv'
  BY DEF TypeOK, StoredInv, Abort, Goto, Return
<1>4. ReadInv'
  BY DEF ReadInv, Abort
<1>5. RefusedIfBad'
  BY DEF TypeOK, RunInv, RefusedIfBad, Abort, Goto, Return
<1> QED BY <1>1, <1>2, <1>3, <1>4, <1>5

LEMMA ReadRowsStep ==
  ASSUME IInv, NEW q \in Readers, NEW found \in SUBSET Requests,
         \A r, s \in found : stored[r] # None /\ stored[r].business = stored[s].business,
         ReadRows(q, found)
  PROVE  IInv'
<1> USE DEF IInv
<1>1. TypeOK'
  BY DEF TypeOK, ReadRows, create, Goto, Return, Results
<1>2. RunInv'
  BY DEF TypeOK, RunInv, ReadRows, create, Goto, Return
<1>3. StoredInv'
  BY DEF TypeOK, StoredInv, ReadRows, create, Goto, Return
<1>4. ReadInv'
  BY DEF ReadInv, ReadRows, create
<1>5. RefusedIfBad'
  BY DEF TypeOK, RunInv, RefusedIfBad, ReadRows, create, Goto, Return
<1> QED BY <1>1, <1>2, <1>3, <1>4, <1>5

LEMMA ReadLinesStep ==
  ASSUME IInv, NEW q \in Readers, NEW r \in Requests, ReadLines(q, r)
  PROVE  IInv'
<1> USE DEF IInv
<1>1. TypeOK'
  <2>1. PICK order \in Orders(lines[r]) :
          view' = [view EXCEPT ![q] = [s \in DOMAIN @ \cup {r} |->
            IF s = r THEN InOrder(lines[r], order) ELSE @[s]]]
    BY DEF ReadLines
  <2>2. InOrder(lines[r], order) \in ItemLists
    <3>1. lines[r] \in ItemLists
      BY DEF TypeOK
    <3>2. Len(lines[r]) \in 0..MaxItems /\ lines[r] \in [1..Len(lines[r]) -> Items]
      BY <3>1, ItemListFacts
    <3>3. order \in [1..Len(lines[r]) -> 1..Len(lines[r])]
      BY <2>1, <3>2 DEF Orders, Bijection, Injection
    <3>4. InOrder(lines[r], order) \in [1..Len(lines[r]) -> Items]
      BY <3>2, <3>3 DEF InOrder
    <3> QED BY <3>2, <3>4, IsItemList
  <2>3. PICK found \in SUBSET Requests : view[q] \in [found -> ItemLists]
    BY DEF TypeOK
  <2>4. view'[q] \in [found \cup {r} -> ItemLists] /\ found \cup {r} \in SUBSET Requests
    <3>1. view'[q] = [s \in found \cup {r} |->
                        IF s = r THEN InOrder(lines[r], order) ELSE view[q][s]]
      BY <2>1, <2>3 DEF TypeOK
    <3> QED BY <2>2, <2>3, <3>1
  <2>5. view'[q] \in UNION {[f -> ItemLists] : f \in SUBSET Requests}
    BY <2>4
  <2>6. view' \in [Readers -> UNION {[f -> ItemLists] : f \in SUBSET Requests}]
    BY <2>1, <2>5 DEF TypeOK
  <2>7. \A p \in Readers : DOMAIN view'[p] \subseteq DOMAIN read'[p]
    BY <2>1 DEF TypeOK, ReadLines
  <2> QED BY <2>6, <2>7 DEF TypeOK, ReadLines, create
<1>2. RunInv'
  BY DEF TypeOK, RunInv, ReadLines, create, Goto, Return
<1>3. StoredInv'
  BY DEF TypeOK, StoredInv, ReadLines, create, Goto, Return
<1>4. ReadInv'
  BY DEF ReadInv, ReadLines, create
<1>5. RefusedIfBad'
  BY DEF TypeOK, RunInv, RefusedIfBad, ReadLines, create, Goto, Return
<1> QED BY <1>1, <1>2, <1>3, <1>4, <1>5

\* The inductive invariant holds in every reachable state: what a run has checked and
\* done by each of its awaits, what is stored, and what readers were given.
THEOREM Invariance == Spec => []IInv
<1>1. ASSUME IInv, [Next]_vars PROVE IInv'
  <2>1. ASSUME NEW r \in Requests, NEW a \in Args, Arrive(r, a) PROVE IInv'
    BY <1>1, <2>1, ArriveStep
  <2>2. ASSUME NEW r \in Requests, CheckCustomer(r) PROVE IInv'
    BY <1>1, <2>2, CheckCustomerStep
  <2>3. ASSUME NEW r \in Requests, InsertInvoice(r) PROVE IInv'
    BY <1>1, <2>3, InsertInvoiceStep
  <2>4. ASSUME NEW r \in Requests, InsertItem(r) PROVE IInv'
    BY <1>1, <2>4, InsertItemStep
  <2>5. ASSUME NEW r \in Requests, NEW result \in {"created", "Internal", "gone"},
               Commit(r, result)
        PROVE  IInv'
    BY <1>1, <2>5, CommitStep
  <2>6. ASSUME NEW r \in Requests, NEW result \in {"Internal", "gone"}, Abort(r, result)
        PROVE  IInv'
    BY <1>1, <2>6, AbortStep
  <2>7. ASSUME NEW q \in Readers, NEW b \in Businesses, ListInvoices(q, b) PROVE IInv'
    <3>1. PICK found \in SUBSET {r \in Requests : stored[r] # None /\ stored[r].business = b} :
            ReadRows(q, found)
      BY <2>7 DEF ListInvoices
    <3>2. /\ found \in SUBSET Requests
          /\ \A r, s \in found : stored[r] # None /\ stored[r].business = stored[s].business
      OBVIOUS
    <3> QED BY <1>1, <3>1, <3>2, ReadRowsStep
  <2>8. ASSUME NEW q \in Readers, NEW b \in Businesses, NEW r \in Requests,
               GetInvoice(q, b, r)
        PROVE  IInv'
    <3>1. /\ {r} \in SUBSET Requests
          /\ \A s, t \in {r} : stored[s] # None /\ stored[s].business = stored[t].business
      BY <2>8 DEF GetInvoice
    <3> QED BY <1>1, <2>8, <3>1, ReadRowsStep DEF GetInvoice
  <2>9. ASSUME NEW q \in Readers, NEW r \in Requests, ReadLines(q, r) PROVE IInv'
    BY <1>1, <2>9, ReadLinesStep
  <2>10. CASE UNCHANGED vars
    <3>1. TypeOK' /\ RunInv' /\ StoredInv' /\ ReadInv' /\ RefusedIfBad'
      BY <1>1, <2>10 DEF IInv, TypeOK, RunInv, StoredInv, ReadInv, RefusedIfBad, vars, create
    <3> QED BY <3>1 DEF IInv
  <2> QED BY <1>1, <2>1, <2>2, <2>3, <2>4, <2>5, <2>6, <2>7, <2>8, <2>9, <2>10 DEF Next
<1> QED BY <1>1, InitInv, PTL DEF Spec

-----------------------------------------------------------------------------
(* What the runs check, for all values of the constants *)

\* Every reachable state is well typed: no amount leaves its width, no insert its list.
THEOREM Typing == Spec => []TypeOK
<1>1. IInv => TypeOK
  BY DEF IInv
<1> QED BY <1>1, Invariance, PTL

\* A stored invoice is worth the exact sum of its stored line items, and more than
\* nothing.
THEOREM StoredTotals == Spec => []TotalIsSum
<1>1. IInv => TotalIsSum
  <2> SUFFICES ASSUME IInv, NEW r \in Requests, stored[r] # None
               PROVE  stored[r].total > 0 /\ stored[r].total = ExactTotal(lines[r])
    BY DEF TotalIsSum
  <2>1. lines[r] \in ItemLists /\ ValidItems(lines[r])
    BY DEF IInv, TypeOK, StoredInv
  <2> QED BY <2>1, SumsNatural DEF IInv, StoredInv
<1> QED BY <1>1, Invariance, PTL

\* Readers see an invoice with all of its line items, in whatever order, or not at all.
THEOREM ReadsAreWhole == Spec => []WholeInvoices
<1>1. IInv => WholeInvoices
  <2> SUFFICES ASSUME IInv, NEW q \in Readers, NEW r \in DOMAIN view[q]
               PROVE  read[q][r].total = ExactTotal(view[q][r])
    BY DEF WholeInvoices
  <2>1. r \in DOMAIN read[q] /\ r \in Requests
    BY DEF IInv, TypeOK
  <2>2. lines[r] \in ItemLists /\ read[q][r].total = ExactTotal(lines[r])
    BY <2>1 DEF IInv, TypeOK, StoredInv, ReadInv
  <2>3. PICK order \in Orders(lines[r]) : view[q][r] = InOrder(lines[r], order)
    BY DEF IInv, ReadInv
  <2> QED BY <2>2, <2>3, TotalInAnyOrder
<1> QED BY <1>1, Invariance, PTL

\* A request is refused as bad exactly if an item is invalid or the exact total is too
\* large, and answered as created only if all of its items are stored.
THEOREM Refusals == Spec => []RefusedIfBad
<1>1. IInv => RefusedIfBad
  BY DEF IInv
<1> QED BY <1>1, Invariance, PTL

-----------------------------------------------------------------------------
(* InvoiceCreation implements InvoiceBook *)

\* A commit writes a whole invoice into the book.
LEMMA CommitWrites ==
  ASSUME IInv, NEW r \in Requests, NEW result \in {"created", "Internal", "gone"},
         Commit(r, result)
  PROVE  Book!Write(r)
<1>1. /\ args[r].items \in ItemLists /\ ValidItems(args[r].items)
      /\ header[r] \in InvoiceRow /\ header[r].total = ExactTotal(args[r].items)
      /\ CustomerOf[header[r].customer] = header[r].business
      /\ stored[r] = None
      /\ inserted[r] = Len(args[r].items)
  <2>1. pc[r] = "commit" /\ args[r] \in Args
    BY DEF IInv, TypeOK, Commit
  <2>2. ExactTotal(args[r].items) \in Nat
    BY <2>1, SumsNatural DEF IInv, RunInv, Args
  <2> QED BY <2>1, <2>2, Widths DEF IInv, TypeOK, RunInv, StoredInv, Args, InvoiceRow
<1>2. SubSeq(args[r].items, 1, inserted[r]) = args[r].items
  <2>1. args[r].items \in Seq(Items)
    BY <1>1, ItemListFacts, MaxItemsAssumption
  <2> QED BY <1>1, <2>1
<1>3. /\ stored' = [stored EXCEPT ![r] = header[r]]
      /\ lines' = [lines EXCEPT ![r] = args[r].items]
      /\ UNCHANGED <<read, view>>
  BY <1>2 DEF Commit, Publish
<1> DEFINE entry == [row |-> header[r], items |-> args[r].items]
<1>4. entry \in Entries /\ header[r] # None
  <2>1. header[r] # None
    BY <1>1, NoneAssumption
  <2>2. entry \in [row: InvoiceRow, items: ItemLists]
    BY <1>1
  <2> QED BY <1>1, <2>1, <2>2 DEF Entries
<1>5. stored'[r] = header[r] /\ lines'[r] = args[r].items
  BY <1>3 DEF IInv, TypeOK
<1>6. Written'[r] = entry
  BY <1>4, <1>5 DEF Written
<1>7. \A s \in Requests : s # r => Written'[s] = Written[s]
  BY <1>3 DEF Written, IInv, TypeOK
<1>8. Written' = [Written EXCEPT ![r] = Written'[r]]
  BY <1>7 DEF Written
<1>9. Written[r] = None
  BY <1>1 DEF Written
<1>10. UNCHANGED Given
  BY <1>3 DEF Given
<1> QED BY <1>4, <1>6, <1>8, <1>9, <1>10 DEF Book!Write

\* Reading the rows is not yet an answer.
LEMMA RowsAreNoAnswer ==
  ASSUME IInv, NEW q \in Readers, NEW found \in SUBSET Requests, ReadRows(q, found)
  PROVE  UNCHANGED <<Written, Given>>
<1>1. UNCHANGED Written
  BY DEF ReadRows, Written
<1>2. DOMAIN read[q] = {} /\ DOMAIN view[q] = {}
  BY DEF ReadRows, IInv, TypeOK
<1>3. DOMAIN read'[q] = found /\ found # {} /\ DOMAIN view'[q] = {}
  BY <1>2 DEF ReadRows, IInv, TypeOK
<1>4. Given[q] = <<>>
  BY <1>2 DEF Given
<1>5. Given'[q] = <<>>
  BY <1>3 DEF Given
<1>6. \A p \in Readers : p # q => Given'[p] = Given[p]
  BY DEF Given, ReadRows, IInv, TypeOK
<1>7. Given' = Given
  BY <1>4, <1>5, <1>6 DEF Given
<1> QED BY <1>1, <1>7

\* With the last line items a reader has its answer, and it is as if it had read the
\* book at this moment; with any others nothing is said yet.
LEMMA LinesAnswer ==
  ASSUME IInv, IInv', NEW q \in Readers, NEW r \in Requests, ReadLines(q, r)
  PROVE  Book!Next \/ UNCHANGED <<Written, Given>>
<1>1. UNCHANGED <<stored, lines, read, Written>>
  BY DEF ReadLines, Written
<1>2. r \in DOMAIN read[q] /\ r \notin DOMAIN view[q]
  BY DEF ReadLines
<1>3. Given[q] = <<>>
  BY <1>2 DEF Given
<1>4. \A p \in Readers : p # q => Given'[p] = Given[p]
  BY DEF Given, ReadLines, IInv, TypeOK
<1>5. CASE DOMAIN view'[q] # DOMAIN read'[q]
  <2>1. Given'[q] = <<>>
    BY <1>5 DEF Given
  <2>2. Given' = Given
    BY <1>3, <1>4, <2>1 DEF Given
  <2> QED BY <1>1, <2>2
<1>6. CASE DOMAIN view'[q] = DOMAIN read'[q]
  <2> DEFINE found == DOMAIN read[q]
             b == read[q][r].business
  <2>1. Given'[q] = [i \in found |-> [row |-> read[q][i], items |-> view'[q][i]]]
    BY <1>1, <1>6 DEF Given
  <2>2. b \in Businesses /\ found \in SUBSET Requests
    BY <1>2 DEF IInv, TypeOK, InvoiceRow
  <2>3. ASSUME NEW i \in found
        PROVE  /\ i \in Requests /\ stored[i] # None /\ stored[i] = read[q][i]
               /\ stored[i].business = b
               /\ Written[i] = [row |-> stored[i], items |-> lines[i]] /\ Written[i] # None
               /\ Given'[q][i] \in Book!UpToOrder(Written[i])
    <3>1. i \in Requests /\ stored[i] # None /\ stored[i] = read[q][i] /\ stored[i].business = b
      BY <1>2, <2>2 DEF IInv, ReadInv
    <3>2. Written[i] = [row |-> stored[i], items |-> lines[i]]
      BY <3>1 DEF Written
    <3>3. Written[i] # None
      BY <3>1, <3>2, NoneAssumption DEF IInv, TypeOK
    <3>4. PICK order \in Orders(lines[i]) : view'[q][i] = InOrder(lines[i], order)
      <4>1. i \in DOMAIN view'[q]
        BY <1>1, <1>6
      <4> QED BY <1>1, <4>1 DEF IInv, ReadInv
    <3>5. Given'[q][i] \in Book!UpToOrder(Written[i])
      <4> DEFINE shuffled == [row |-> stored[i],
                              items |-> [n \in DOMAIN lines[i] |-> lines[i][order[n]]]]
      <4>1. Given'[q][i] = shuffled
        BY <2>1, <3>1, <3>4 DEF InOrder
      <4>2. order \in Bijection(DOMAIN lines[i], DOMAIN lines[i])
        BY <3>4 DEF Orders
      <4>3. Written[i].row = stored[i] /\ Written[i].items = lines[i]
        BY <3>2
      <4>4. shuffled =
              [row |-> Written[i].row,
               items |-> [n \in DOMAIN Written[i].items |-> Written[i].items[order[n]]]]
        BY <4>3
      <4>5. order \in Book!Bijection(DOMAIN Written[i].items, DOMAIN Written[i].items)
        BY <4>2, <4>3
        DEF Bijection, Injection, Surjection, IsInjective, Book!Bijection, Book!Injection,
            Book!Surjection, Book!IsInjective
      <4> HIDE DEF shuffled
      <4>6. shuffled \in Book!UpToOrder(Written[i])
        BY <4>4, <4>5, Zenon DEF Book!UpToOrder
      <4> QED BY <4>1, <4>6
    <3> QED BY <3>1, <3>2, <3>3, <3>5
  <2>4. DOMAIN Given[q] = {} /\ DOMAIN Given'[q] = found
    BY <1>3, <2>1
  <2>5. Given' = [Given EXCEPT ![q] = Given'[q]]
    BY <1>4 DEF Given
  <2>6. found \in SUBSET Book!Of(b)
    <3> SUFFICES ASSUME NEW i \in found
                 PROVE  i \in Requests /\ Written[i] # None /\ Written[i].row.business = b
      BY DEF Book!Of
    <3>1. Written[i] = [row |-> stored[i], items |-> lines[i]] /\ stored[i].business = b
      BY <2>3
    <3>2. Written[i].row = stored[i]
      BY <3>1
    <3> QED BY <2>3, <3>1, <3>2
  <2>7. Book!Read(q, found)
    BY <1>1, <2>3, <2>4, <2>5 DEF Book!Read
  <2> QED BY <2>2, <2>6, <2>7 DEF Book!Next
<1> QED BY <1>5, <1>6

\* Invoices are written and read as if every call were an instant: reading the rows and
\* their line items in separate statements shows nothing that one read would not.
THEOREM Implementation == Spec => BookSpec
<1>1. Init => Book!Init
  <2> SUFFICES ASSUME Init PROVE Book!Init
    OBVIOUS
  <2>1. Written = [r \in Requests |-> None]
    BY DEF Init, Written
  <2>2. \A q \in Readers : Given[q] = <<>>
    BY DEF Init, Given
  <2>3. Given = [q \in Readers |-> <<>>]
    BY <2>2 DEF Given
  <2> QED BY <2>1, <2>3 DEF Book!Init
<1>2. IInv /\ IInv' /\ [Next]_vars => [Book!Next]_(Book!vars)
  <2> SUFFICES ASSUME IInv, IInv', [Next]_vars PROVE Book!Next \/ UNCHANGED <<Written, Given>>
    BY DEF Book!vars
  <2>1. CASE UNCHANGED <<stored, lines, read, view>>
    BY <2>1 DEF Written, Given
  <2>2. ASSUME NEW r \in Requests, NEW result \in {"created", "Internal", "gone"},
               Commit(r, result)
        PROVE  Book!Next
    BY <2>2, CommitWrites DEF Book!Next
  <2>3. ASSUME NEW q \in Readers, NEW b \in Businesses, ListInvoices(q, b)
        PROVE  UNCHANGED <<Written, Given>>
    <3>1. PICK found \in SUBSET Requests : ReadRows(q, found)
      BY <2>3 DEF ListInvoices
    <3> QED BY <3>1, RowsAreNoAnswer
  <2>4. ASSUME NEW q \in Readers, NEW b \in Businesses, NEW r \in Requests,
               GetInvoice(q, b, r)
        PROVE  UNCHANGED <<Written, Given>>
    <3>1. {r} \in SUBSET Requests /\ ReadRows(q, {r})
      BY <2>4 DEF GetInvoice
    <3> QED BY <3>1, RowsAreNoAnswer
  <2>5. ASSUME NEW q \in Readers, NEW r \in Requests, ReadLines(q, r)
        PROVE  Book!Next \/ UNCHANGED <<Written, Given>>
    BY <2>5, LinesAnswer
  <2> QED BY <2>1, <2>2, <2>3, <2>4, <2>5
        DEF Next, vars, Arrive, CheckCustomer, InsertInvoice, InsertItem, Abort
<1> QED BY <1>1, <1>2, Invariance, PTL DEF Spec, BookSpec, Book!Spec

=============================================================================
