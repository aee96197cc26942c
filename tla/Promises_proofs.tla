-------------------------- MODULE Promises_proofs --------------------------
(***************************************************************************)
(* What the three abstract specifications promise in turn.  The detailed   *)
(* modules implement them, so a reader who wants to know what the service  *)
(* guarantees may read the abstract ones; these theorems say that reading  *)
(* them is enough: the guarantees follow from the abstract steps alone.    *)
(***************************************************************************)
EXTENDS Naturals, TLAPS

CONSTANTS Requests, Invoices, Keys,          \* PaymentLedger
          Deliveries, Endpoints, EndpointOf, \* WebhookPromise
          MaxAttempts,
          Readers, Businesses, Entries,      \* InvoiceBook
          None

VARIABLES state, log, status, tries, accepted, book, answer

Ledger == INSTANCE PaymentLedger
Delivery == INSTANCE WebhookPromise
Book == INSTANCE InvoiceBook

-----------------------------------------------------------------------------
(* PaymentLedger *)

\* An attempt has one line; an invoice has one line per key and one success at most,
\* and is paid exactly if it has that.
LedgerSafe ==
  /\ Ledger!TypeOK
  /\ \A e, f \in log : e.id = f.id => e = f
  /\ \A e, f \in log : e.invoice = f.invoice /\ e.key = f.key => e = f
  /\ \A i \in Invoices :
       state[i] = "paid" <=> \E e \in log : e.invoice = i /\ e.status = "succeeded"
  /\ \A e, f \in log :
       e.invoice = f.invoice /\ e.status = "succeeded" /\ f.status = "succeeded" => e = f

\* The ledger settles an invoice once, under one key, and pays what it settles: what
\* process_payment and open_invoice owe the tables, with every request an instant.
THEOREM LedgerPromise == Ledger!Spec => []LedgerSafe
<1>1. Ledger!Init => LedgerSafe
  BY DEF Ledger!Init, Ledger!TypeOK, LedgerSafe
<1>2. LedgerSafe /\ [Ledger!Next]_Ledger!vars => LedgerSafe'
  <2> SUFFICES ASSUME LedgerSafe, [Ledger!Next]_Ledger!vars PROVE LedgerSafe'
    OBVIOUS
  <2> USE DEF LedgerSafe, Ledger!TypeOK
  <2>1. ASSUME NEW i \in Invoices, Ledger!Create(i) \/ Ledger!Open(i)
        PROVE  LedgerSafe'
    BY <2>1 DEF Ledger!Create, Ledger!Open
  <2>2. ASSUME NEW entry \in Ledger!LogEntry, Ledger!Fail(entry)
        PROVE  LedgerSafe'
    BY <2>2 DEF Ledger!Fail, Ledger!Record
  <2>3. ASSUME NEW entry \in Ledger!LogEntry, Ledger!Settle(entry)
        PROVE  LedgerSafe'
    <3>1. /\ entry.invoice \in Invoices /\ entry.status = "succeeded"
          /\ state[entry.invoice] = "open"
          /\ log' = log \cup {entry}
          /\ state' = [state EXCEPT ![entry.invoice] = "paid"]
      BY <2>3 DEF Ledger!Settle, Ledger!Record, Ledger!LogEntry
    <3>2. \A e \in log : ~(e.invoice = entry.invoice /\ e.status = "succeeded")
      BY <3>1
    <3>3. Ledger!TypeOK'
      BY <3>1
    <3>4. \A i \in Invoices :
            state'[i] = "paid" <=> \E e \in log' : e.invoice = i /\ e.status = "succeeded"
      BY <3>1
    <3> QED
      BY <2>3, <3>1, <3>2, <3>3, <3>4 DEF Ledger!Settle, Ledger!Record
  <2>4. CASE UNCHANGED Ledger!vars
    BY <2>4 DEF Ledger!vars
  <2> QED
    BY <2>1, <2>2, <2>3, <2>4 DEF Ledger!Next
<1> QED
  BY <1>1, <1>2, PTL DEF Ledger!Spec

-----------------------------------------------------------------------------
(* WebhookPromise *)

\* Nothing is tried before it is announced; delivered is what was accepted, given up
\* what was tried often enough.
DeliverySafe ==
  /\ Delivery!TypeOK
  /\ \A d \in Deliveries :
       /\ status[d] = "none" => tries[d] = 0 /\ d \notin accepted
       /\ status[d] = "delivered" => d \in accepted
       /\ status[d] = "given_up" => tries[d] >= MaxAttempts
       /\ status[d] = "removed" => tries[d] = 0

\* An end is final: it changes only when the endpoint is removed, and that is for good.
DeliveryEnds ==
  [][\A d \in Deliveries :
       /\ status[d] = "removed" => status'[d] = "removed"
       /\ status[d] \in {"delivered", "given_up"} =>
            /\ status'[d] \in {status[d], "removed"}
            /\ tries'[d] <= tries[d]]_(Delivery!vars)

\* The promise to the owner of an endpoint, which enqueue_webhook and the worker keep: no
\* end that is not earned, and no try after the end.
THEOREM DeliveryPromise == Delivery!Spec => []DeliverySafe /\ DeliveryEnds
<1>1. Delivery!Init => DeliverySafe
  BY DEF Delivery!Init, Delivery!TypeOK, DeliverySafe
<1>2. DeliverySafe /\ [Delivery!Next]_Delivery!vars => DeliverySafe'
  BY DEF DeliverySafe, Delivery!TypeOK, Delivery!Next, Delivery!vars, Delivery!Announce,
     Delivery!Try, Delivery!Deliver, Delivery!GiveUp, Delivery!Remove
<1>3. DeliverySafe /\ [Delivery!Next]_Delivery!vars =>
        [\A d \in Deliveries :
           /\ status[d] = "removed" => status'[d] = "removed"
           /\ status[d] \in {"delivered", "given_up"} =>
                /\ status'[d] \in {status[d], "removed"}
                /\ tries'[d] <= tries[d]]_(Delivery!vars)
  BY DEF DeliverySafe, Delivery!TypeOK, Delivery!Next, Delivery!vars, Delivery!Announce,
     Delivery!Try, Delivery!Deliver, Delivery!GiveUp, Delivery!Remove
<1> QED
  BY <1>1, <1>2, <1>3, PTL DEF Delivery!Spec, DeliveryEnds

-----------------------------------------------------------------------------
(* InvoiceBook *)

\* Whatever a reader was given is in the book, but for the order of the line items, and
\* is of one business.
BookSafe ==
  \A q \in Readers : DOMAIN answer[q] # {} =>
    \E b \in Businesses :
      \A i \in DOMAIN answer[q] :
        i \in Book!Of(b) /\ answer[q][i] \in Book!UpToOrder(book[i])

\* What is written stays as it is, and what was answered too.
BookStays ==
  [][/\ \A i \in Invoices : book[i] # None => book'[i] = book[i]
     /\ \A q \in Readers : DOMAIN answer[q] # {} => answer'[q] = answer[q]]_(Book!vars)

\* The promise to readers, which create_invoice, get_invoice and list_invoices keep: an
\* answer never becomes wrong, since nothing in the book ever changes.
THEOREM BookPromise == Book!Spec => []BookSafe /\ BookStays
<1> DEFINE Good(q) ==
      \E b \in Businesses :
        \A i \in DOMAIN answer[q] :
          i \in Book!Of(b) /\ answer[q][i] \in Book!UpToOrder(book[i])
    Typed == book \in [Invoices -> Entries \cup {None}] /\ DOMAIN answer = Readers
    Stays == /\ \A i \in Invoices : book[i] # None => book'[i] = book[i]
             /\ \A q \in Readers : DOMAIN answer[q] # {} => answer'[q] = answer[q]
<1>1. Book!Init => Typed /\ BookSafe
  BY DEF Book!Init, BookSafe
<1>2. Typed /\ [Book!Next]_Book!vars => Typed' /\ Stays
  BY DEF Book!Next, Book!vars, Book!Write, Book!Read
<1>3. Typed /\ BookSafe /\ [Book!Next]_Book!vars => BookSafe'
  <2> SUFFICES ASSUME Typed, BookSafe, [Book!Next]_Book!vars,
                      NEW q \in Readers, DOMAIN answer'[q] # {}
               PROVE  Good(q)'
    BY DEF BookSafe
  <2>1. Stays
    BY <1>2
  <2>2. ASSUME Good(q), answer'[q] = answer[q]
        PROVE  Good(q)'
    BY <2>1, <2>2 DEF Book!Of
  <2>3. CASE DOMAIN answer[q] # {}
    BY <2>1, <2>2, <2>3 DEF BookSafe
  <2>4. CASE DOMAIN answer[q] = {}
    <3>1. PICK b \in Businesses : \E found \in SUBSET Book!Of(b) : Book!Read(q, found)
      BY <2>4 DEF Book!Next, Book!vars, Book!Write, Book!Read
    <3>2. book' = book /\ \A i \in DOMAIN answer'[q] :
            i \in Book!Of(b) /\ answer'[q][i] \in Book!UpToOrder(book[i])
      BY <3>1 DEF Book!Read
    <3> QED
      BY <3>2 DEF Book!Of
  <2> QED
    BY <2>3, <2>4
<1> QED
  BY <1>1, <1>2, <1>3, PTL DEF Book!Spec, BookStays

=============================================================================
