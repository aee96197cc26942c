---------------------------- MODULE PaymentLedger ----------------------------
(***************************************************************************)
(* What the payment side of the service promises about the database, with  *)
(* every request an instant: an invoice is created as a draft, may be      *)
(* opened, and is paid by at most one payment; every payment attempt is a  *)
(* line of an append-only log, with one line per idempotency key of an     *)
(* invoice.  Module Payments, where a request is many steps interleaved    *)
(* with other requests, cancellations and lost replies, implements this.   *)
(***************************************************************************)
CONSTANTS
  Requests,   \* identities of attempts (an attempt is made by one request)
  Invoices,
  Keys        \* idempotency keys

VARIABLES
  state,      \* state[i]: the state of invoice i, or "absent"
  log         \* the payment attempts recorded so far

vars == <<state, log>>

LogEntry == [id: Requests, invoice: Invoices, key: Keys,
             status: {"succeeded", "failed"}]

TypeOK ==
  /\ state \in [Invoices -> {"absent", "draft", "open", "paid"}]
  /\ log \subseteq LogEntry

Init ==
  /\ state = [i \in Invoices |-> "absent"]
  /\ log = {}

Create(i) ==
  /\ state[i] = "absent"
  /\ state' = [state EXCEPT ![i] = "draft"]
  /\ UNCHANGED log

Open(i) ==
  /\ state[i] = "draft"
  /\ state' = [state EXCEPT ![i] = "open"]
  /\ UNCHANGED log

\* A line enters the log only under a new id and a key unused on its invoice.
Record(entry) ==
  /\ \A e \in log : e.id # entry.id
  /\ \A e \in log : e.invoice = entry.invoice => e.key # entry.key
  /\ log' = log \cup {entry}

\* A payment that did not go through leaves the invoice as it is.
Fail(entry) ==
  /\ entry.status = "failed"
  /\ state[entry.invoice] \in {"draft", "open"}
  /\ Record(entry)
  /\ UNCHANGED state

\* The one payment that settles an open invoice.
Settle(entry) ==
  /\ entry.status = "succeeded"
  /\ state[entry.invoice] = "open"
  /\ Record(entry)
  /\ state' = [state EXCEPT ![entry.invoice] = "paid"]

Next ==
  \/ \E i \in Invoices : Create(i) \/ Open(i)
  \/ \E entry \in LogEntry : Fail(entry) \/ Settle(entry)

Spec == Init /\ [][Next]_vars

=============================================================================
