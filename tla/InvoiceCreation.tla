-------------------------- MODULE InvoiceCreation --------------------------
(***************************************************************************)
(* create_invoice, and get_invoice and list_invoices that read what it     *)
(* stores (src/handlers/invoices.rs): an invoice is a row and its line     *)
(* items, written in one transaction and read in several statements.       *)
(*                                                                         *)
(* Integers have the widths of the code, given by their largest values:    *)
(* i32 for amounts and the stored total, i64 for the running total.        *)
(***************************************************************************)
EXTENDS Integers, Sequences, Functions

CONSTANTS
  Requests,    \* runs of create_invoice; a run names the invoice it inserts
  Readers,     \* runs of get_invoice and list_invoices
  Businesses,
  Customers,
  CustomerOf,  \* CustomerOf[c]: the business of customer c
  Items,       \* the line items clients send
  MaxItems,    \* bound on the line items of a request
  I32Max,      \* i32::MAX
  I64Max,      \* i64::MAX
  None

ASSUME WidthAssumption ==
  /\ I32Max \in Nat \ {0} /\ I64Max \in Nat
  /\ I32Max * I32Max <= I64Max
ASSUME MaxItemsAssumption == MaxItems \in Nat
ASSUME ItemsAssumption ==
  \A item \in Items : /\ item.blank \in BOOLEAN
                      /\ item.quantity \in (-I32Max - 1)..I32Max
                      /\ item.unit \in (-I32Max - 1)..I32Max

VARIABLES
  stored,      \* stored[r]: the committed invoice row of r, or None
  lines,       \* lines[r]: the committed line items of invoice r
  pc, args,    \* where create_invoice is, and the client's request
  header,      \* header[r]: the invoice row r has inserted, not yet committed
  inserted,    \* inserted[r]: how many line items r has inserted
  resp,        \* resp[r]: the answer of create_invoice, or None
  read,        \* read[q]: the invoice rows reader q was given, by invoice
  view         \* view[q]: the line items reader q was given, by invoice

create == <<pc, args, header, inserted, resp>>
vars == <<stored, lines, create, read, view>>

-----------------------------------------------------------------------------
(* Data *)

InvoiceRow == [business: Businesses, customer: Customers, total: 0..I32Max]

ItemLists == UNION {[1..n -> Items] : n \in 0..MaxItems}

Args == [business: Businesses, customer: Customers, items: ItemLists]

ASSUME NoneAssumption ==
  None \notin 0..I64Max \cup InvoiceRow \cup [row: InvoiceRow, items: ItemLists]

Results == {"created", "BadRequest", "NotFound", "Internal", "gone"}

TypeOK ==
  /\ stored \in [Requests -> InvoiceRow \cup {None}]
  /\ lines \in [Requests -> ItemLists]
  /\ pc \in [Requests -> {"idle", "customer", "invoice", "items", "commit", "done"}]
  /\ args \in [Requests -> Args \cup {None}]
  /\ \A r \in Requests : pc[r] # "idle" => args[r] \in Args
  /\ header \in [Requests -> InvoiceRow \cup {None}]
  /\ inserted \in [Requests -> 0..MaxItems]
  /\ resp \in [Requests -> Results \cup {None}]
  /\ read \in [Readers -> UNION {[found -> InvoiceRow] : found \in SUBSET Requests}]
  /\ view \in [Readers -> UNION {[found -> ItemLists] : found \in SUBSET Requests}]
  /\ \A q \in Readers : DOMAIN view[q] \subseteq DOMAIN read[q]

Init ==
  /\ stored = [r \in Requests |-> None]
  /\ lines = [r \in Requests |-> <<>>]
  /\ pc = [r \in Requests |-> "idle"]
  /\ args = [r \in Requests |-> None]
  /\ header = [r \in Requests |-> None]
  /\ inserted = [r \in Requests |-> 0]
  /\ resp = [r \in Requests |-> None]
  /\ read = [q \in Readers |-> <<>>]
  /\ view = [q \in Readers |-> <<>>]

-----------------------------------------------------------------------------
(* The checks of create_invoice *)

ValidItem(item) == ~item.blank /\ item.quantity > 0 /\ item.unit > 0

ValidItems(items) == items # <<>> /\ \A n \in DOMAIN items : ValidItem(items[n])

Worth(item) == item.quantity * item.unit

\* checked_mul and checked_add: None once the running total has overflowed
AddLine(total, item) ==
  IF total = None \/ total + Worth(item) > I64Max THEN None ELSE total + Worth(item)

\* The running total after each number of line items
RunningTotal(items) ==
  LET total[n \in 0..Len(items)] ==
        IF n = 0 THEN 0 ELSE AddLine(total[n - 1], items[n])
  IN total

TotalCents(items) == RunningTotal(items)[Len(items)]

\* The check against i32::MAX.  The mutants leave it to the cast, and refuse the
\* largest total.
FitsUnchecked(total) == total # None
FitsStrictly(total) == total # None /\ total < I32Max
Fits(total) == total # None /\ total <= I32Max

\* total_cents as i32
AsI32(total) == ((total + I32Max + 1) % (2 * (I32Max + 1))) - (I32Max + 1)

-----------------------------------------------------------------------------
(* create_invoice *)

Return(r, result) ==
  /\ pc' = [pc EXCEPT ![r] = "done"]
  /\ resp' = [resp EXCEPT ![r] = result]

Goto(r, await) == pc' = [pc EXCEPT ![r] = await] /\ UNCHANGED resp

\* The line items are checked before the first await.
Arrive(r, a) ==
  /\ pc[r] = "idle"
  /\ args' = [args EXCEPT ![r] = a]
  /\ IF ValidItems(a.items) THEN Goto(r, "customer") ELSE Return(r, "BadRequest")
  /\ UNCHANGED <<stored, lines, header, inserted, read, view>>

\* The customer must be one of the business; then the total is computed.
CheckCustomer(r) ==
  /\ pc[r] = "customer"
  /\ IF CustomerOf[args[r].customer] # args[r].business THEN Return(r, "NotFound")
     ELSE IF ~Fits(TotalCents(args[r].items)) THEN Return(r, "BadRequest")
     ELSE Goto(r, "invoice")
  /\ UNCHANGED <<stored, lines, args, header, inserted, read, view>>

\* CHECK (total_cents >= 0) refuses a negative total.
InsertInvoice(r) ==
  LET total == AsI32(TotalCents(args[r].items))
  IN /\ pc[r] = "invoice"
     /\ IF total < 0 THEN Return(r, "Internal") /\ UNCHANGED header
        ELSE /\ header' = [header EXCEPT ![r] =
                  [business |-> args[r].business, customer |-> args[r].customer,
                   total |-> total]]
             /\ Goto(r, "items")
     /\ UNCHANGED <<stored, lines, args, inserted, read, view>>

\* Mutant: the line items are inserted outside the transaction, after its commit.
InsertItemLate(r) ==
  /\ pc[r] = "items"
  /\ stored' = [stored EXCEPT ![r] = header[r]]
  /\ inserted' = [inserted EXCEPT ![r] = @ + 1]
  /\ Goto(r, IF inserted'[r] = Len(args[r].items) THEN "commit" ELSE "items")
  /\ UNCHANGED <<lines, args, header, read, view>>

InsertItem(r) ==
  /\ pc[r] = "items"
  /\ inserted' = [inserted EXCEPT ![r] = @ + 1]
  /\ Goto(r, IF inserted'[r] = Len(args[r].items) THEN "commit" ELSE "items")
  /\ UNCHANGED <<stored, lines, args, header, read, view>>

\* COMMIT makes the row and its line items visible at once.
Publish(r) ==
  /\ stored' = [stored EXCEPT ![r] = header[r]]
  /\ lines' = [lines EXCEPT ![r] = SubSeq(args[r].items, 1, inserted[r])]

\* The handler learns of the commit, or its connection breaks, or it was dropped.
Commit(r, result) ==
  /\ pc[r] = "commit"
  /\ Publish(r)
  /\ Return(r, result)
  /\ UNCHANGED <<args, header, inserted, read, view>>

\* A statement fails, or the handler is dropped: the transaction is rolled back.
Abort(r, result) ==
  /\ pc[r] \notin {"idle", "done"}
  /\ Return(r, result)
  /\ UNCHANGED <<stored, lines, args, header, inserted, read, view>>

-----------------------------------------------------------------------------
(* get_invoice and list_invoices: first the rows, then their line items, one *)
(* statement per invoice                                                     *)

ReadRows(q, found) ==
  /\ read[q] = <<>>
  /\ found # {}
  /\ read' = [read EXCEPT ![q] = [r \in found |-> stored[r]]]
  /\ UNCHANGED <<stored, lines, create, view>>

\* Mutant: an id that is not found is read all the same.
GetInvoiceUnchecked(q, b, r) == ReadRows(q, {r})

GetInvoice(q, b, r) ==
  /\ stored[r] # None /\ stored[r].business = b
  /\ ReadRows(q, {r})

\* Mutant: the query forgets its business.
ListInvoicesOfAll(q, b) ==
  \E found \in SUBSET {r \in Requests : stored[r] # None} : ReadRows(q, found)

\* The state filter, if there is one, picks any of the business's invoices.
ListInvoices(q, b) ==
  \E found \in SUBSET {r \in Requests : stored[r] # None /\ stored[r].business = b} :
    ReadRows(q, found)

\* ORDER BY created_at, which is the start of one transaction for all line items of
\* an invoice: they come in any order.
Orders(items) == Bijection(DOMAIN items, DOMAIN items)
InOrder(items, order) == [n \in DOMAIN items |-> items[order[n]]]

ReadLines(q, r) ==
  /\ r \in DOMAIN read[q] \ DOMAIN view[q]
  /\ \E order \in Orders(lines[r]) :
       view' = [view EXCEPT ![q] = [s \in DOMAIN @ \cup {r} |->
         IF s = r THEN InOrder(lines[r], order) ELSE @[s]]]
  /\ UNCHANGED <<stored, lines, create, read>>

-----------------------------------------------------------------------------

Next ==
  \/ \E r \in Requests :
       \/ \E a \in Args : Arrive(r, a)
       \/ CheckCustomer(r) \/ InsertInvoice(r) \/ InsertItem(r)
       \/ \E result \in {"created", "Internal", "gone"} : Commit(r, result)
       \/ \E result \in {"Internal", "gone"} : Abort(r, result)
  \/ \E q \in Readers :
       \/ \E b \in Businesses : ListInvoices(q, b)
       \/ \E b \in Businesses, r \in Requests : GetInvoice(q, b, r)
       \/ \E r \in Requests : ReadLines(q, r)

Spec == Init /\ [][Next]_vars

-----------------------------------------------------------------------------
(* Properties *)

\* The total without widths, after each number of line items
Sums(items) ==
  LET sum[n \in 0..Len(items)] == IF n = 0 THEN 0 ELSE sum[n - 1] + Worth(items[n])
  IN sum

ExactTotal(items) == Sums(items)[Len(items)]

\* A stored invoice is worth the sum of its stored line items, and more than nothing:
\* neither the widths of the arithmetic nor a rollback come between them.
TotalIsSum ==
  \A r \in Requests : stored[r] # None =>
    stored[r].total > 0 /\ stored[r].total = ExactTotal(lines[r])

\* Readers see an invoice with all of its line items or not at all, although they
\* read the two in separate statements.
WholeInvoices ==
  \A q \in Readers : \A r \in DOMAIN view[q] : read[q][r].total = ExactTotal(view[q][r])

\* A request is refused as bad exactly if an item is invalid or the exact total is too
\* large, whatever overflows on the way there.
RefusedIfBad ==
  \A r \in Requests : pc[r] = "done" =>
    /\ resp[r] = "BadRequest" =>
         ~ValidItems(args[r].items) \/ ExactTotal(args[r].items) > I32Max
    /\ resp[r] = "created" =>
         /\ ValidItems(args[r].items) /\ ExactTotal(args[r].items) <= I32Max
         /\ lines[r] = args[r].items

\* Whole invoices
Entries ==
  {entry \in [row: InvoiceRow, items: ItemLists] :
     /\ ValidItems(entry.items)
     /\ entry.row.total = ExactTotal(entry.items)
     /\ CustomerOf[entry.row.customer] = entry.row.business}

Written ==
  [r \in Requests |->
     IF stored[r] = None THEN None ELSE [row |-> stored[r], items |-> lines[r]]]

\* A reader has its answer with the last line items it asked for.
Given ==
  [q \in Readers |->
     IF DOMAIN view[q] # DOMAIN read[q] THEN <<>>
     ELSE [r \in DOMAIN read[q] |-> [row |-> read[q][r], items |-> view[q][r]]]]

\* Creating and reading implement the book: although an invoice is written in several
\* statements, and read in several more without a transaction, every call is as good as
\* an instant, and a reader is given invoices of one business only.
Book == INSTANCE InvoiceBook WITH Invoices <- Requests, book <- Written, answer <- Given

BookSpec == Book!Spec

-----------------------------------------------------------------------------
(* The inductive invariant behind them, part by part *)

\* What a run has checked and done by the await it is at
RunInv ==
  \A r \in Requests :
    /\ pc[r] \in {"customer", "invoice", "items", "commit"} => ValidItems(args[r].items)
    /\ pc[r] \in {"invoice", "items", "commit"} =>
         /\ CustomerOf[args[r].customer] = args[r].business
         /\ ExactTotal(args[r].items) <= I32Max
    /\ pc[r] \in {"items", "commit"} =>
         header[r] = [business |-> args[r].business, customer |-> args[r].customer,
                      total |-> ExactTotal(args[r].items)]
    /\ pc[r] \in {"idle", "customer", "invoice"} => inserted[r] = 0
    /\ pc[r] = "items" => inserted[r] < Len(args[r].items)
    /\ pc[r] = "commit" => inserted[r] = Len(args[r].items)

\* What is stored is the work of a run that has returned.
StoredInv ==
  \A r \in Requests : stored[r] # None =>
    /\ pc[r] = "done"
    /\ lines[r] = args[r].items
    /\ ValidItems(args[r].items)
    /\ stored[r].total = ExactTotal(args[r].items)
    /\ CustomerOf[stored[r].customer] = stored[r].business

\* What was read is still stored, but for the order of the line items.
ReadInv ==
  \A q \in Readers :
    /\ \A r \in DOMAIN read[q] : stored[r] # None /\ read[q][r] = stored[r]
    /\ \A r, s \in DOMAIN read[q] : read[q][r].business = read[q][s].business
    /\ \A r \in DOMAIN view[q] : \E order \in Orders(lines[r]) :
         view[q][r] = InOrder(lines[r], order)

IInv == TypeOK /\ RunInv /\ StoredInv /\ ReadInv /\ RefusedIfBad

=============================================================================
