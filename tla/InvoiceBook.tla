---------------------------- MODULE InvoiceBook ----------------------------
(***************************************************************************)
(* What creating and reading invoices promises, with every call an         *)
(* instant: an invoice is written into the book once, whole, and stays as  *)
(* it is; a reader is given whole invoices of one business, as they are in *)
(* the book, with their line items in any order.  Module InvoiceCreation,  *)
(* where invoices are written and read in many statements, implements it.  *)
(***************************************************************************)
EXTENDS Functions

CONSTANTS
  Invoices,
  Readers,
  Businesses,
  Entries,    \* whole invoices: a row and the line items it is the total of
  None

VARIABLES
  book,       \* book[i]: the entry of invoice i, or None
  answer      \* answer[q]: the entries reader q was given, by invoice

vars == <<book, answer>>

Init ==
  /\ book = [i \in Invoices |-> None]
  /\ answer = [q \in Readers |-> <<>>]

Write(i) ==
  /\ book[i] = None
  /\ book'[i] \in Entries
  /\ book' = [book EXCEPT ![i] = book'[i]]
  /\ UNCHANGED answer

Of(b) == {i \in Invoices : book[i] # None /\ book[i].row.business = b}

\* The entries that differ from this one in the order of the line items
UpToOrder(entry) ==
  {[row |-> entry.row, items |-> [n \in DOMAIN entry.items |-> entry.items[order[n]]]] :
     order \in Bijection(DOMAIN entry.items, DOMAIN entry.items)}

Read(q, found) ==
  /\ DOMAIN answer[q] = {}
  /\ DOMAIN answer'[q] = found
  /\ \A i \in found : answer'[q][i] \in UpToOrder(book[i])
  /\ answer' = [answer EXCEPT ![q] = answer'[q]]
  /\ UNCHANGED book

Next ==
  \/ \E i \in Invoices : Write(i)
  \/ \E q \in Readers, b \in Businesses : \E found \in SUBSET Of(b) : Read(q, found)

Spec == Init /\ [][Next]_vars

=============================================================================
