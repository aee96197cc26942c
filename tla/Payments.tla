------------------------------ MODULE Payments ------------------------------
(***************************************************************************)
(* The handlers that change an invoice and take a payment for it:          *)
(* process_payment (src/handlers/payments.rs) and open_invoice             *)
(* (src/handlers/invoices.rs), run by any number of concurrent requests    *)
(* against one PostgreSQL database and one payment service provider (PSP). *)
(*                                                                         *)
(* A request is one run of a handler, and pc[r] is the await it is         *)
(* suspended at.  What happens between two awaits is one step.  Writes     *)
(* inside a transaction are kept in outcome[r] and write[r] until the      *)
(* transaction commits, since no other transaction sees them before.       *)
(*                                                                         *)
(* At any await the handler may be dropped: the client disconnects (the    *)
(* HTTP server then drops the handler's future) or the process dies.       *)
(* Dropping a transaction rolls it back and frees its row lock.            *)
(***************************************************************************)
EXTENDS Naturals, InvoiceStateMachine, PspGateway

CONSTANTS
  Requests,    \* handler runs; a client's retry is another request
  Invoices,    \* ids of invoices
  Businesses,  \* tenants
  Owner,       \* Owner[i]: the business that creates invoice i
  Keys,        \* values of the Idempotency-Key header
  Tokens,      \* card tokens clients send
  None         \* an absent value: SQL NULL, a Rust Option's None

ASSUME OwnerAssumption == Owner \in [Invoices -> Businesses]
ASSUME TokensAssumption == Tokens \subseteq CardTokens

VARIABLES
  \* the database
  invoices,    \* invoices[i]: the committed row of invoice i
  attempts,    \* the committed rows of payment_attempts
  rowLock,     \* rowLock[i]: the request whose transaction locks row i, or None
  \* the handlers
  pc,          \* pc[r]: the await request r is suspended at
  args,        \* args[r]: what the client asked for, None before it did
  snap,        \* snap[r]: the invoice row read by SELECT ... FOR UPDATE
  outcome,     \* outcome[r]: the result columns of r's own attempt row
  write,       \* write[r]: r's uncommitted UPDATE of the invoice, or None
  resp,        \* resp[r]: the answer of the handler, or None
  spawned,     \* requests that reached the tokio::spawn of enqueue_webhook
  \* the PSP
  psp,         \* psp[r]: how far the PSP got with r's call
  charged      \* requests whose card the PSP charged

database == <<invoices, attempts, rowLock>>
locals == <<args, snap, outcome, write>>
provider == <<psp, charged>>
vars == <<database, pc, locals, resp, spawned, provider>>

-----------------------------------------------------------------------------
(* Data *)

\* A row of invoices; "absent" stands for a row not inserted yet.
InvoiceRow == [state: InvoiceState \cup {"absent"}, version: Nat]

\* The result columns of payment_attempts.  A psp_reference is a fresh UUID of
\* one PSP call, so the request that made the call names it.
Outcome == [status: {"pending", "succeeded", "failed"},
            psp_reference: Requests \cup {None},
            error_code: ErrorCodes]

Pending == [status |-> "pending", psp_reference |-> None, error_code |-> "none"]

\* completed_at is NOW() in the row, the start of its transaction, and the wall
\* clock at the time of the reply in the answer to the request that paid.
AttemptRow == [id: Requests, invoice: Invoices, key: Keys, outcome: Outcome,
               completed_at: {"tx_start", "reply"}]

\* What a request asks for.  Only a payment has a key (None: no header) and a token.
Args == [op: {"pay"}, business: Businesses, invoice: Invoices,
         key: Keys \cup {None}, token: Tokens]
        \cup
        [op: {"open"}, business: Businesses, invoice: Invoices,
         key: {None}, token: {None}]

\* "gone": nobody is left to answer.
Results == {"ok", "BadRequest", "NotFound", "AlreadyPaid",
            "InvalidStateTransition", "ConcurrentModification", "Internal", "gone"}

Response == [result: Results, attempt: AttemptRow \cup {None}]

ASSUME NoneAssumption ==
  None \notin Requests \cup Keys \cup InvoiceRow \cup AttemptRow \cup Response

\* The awaits at which a request's transaction holds the lock of its invoice.
Locked == {"update", "insert", "call", "await", "settle", "commit"}
PcValue == {"idle", "lookup", "lock", "done"} \cup Locked

TypeOK ==
  /\ invoices \in [Invoices -> InvoiceRow]
  /\ attempts \subseteq AttemptRow
  /\ rowLock \in [Invoices -> Requests \cup {None}]
  /\ pc \in [Requests -> PcValue]
  /\ args \in [Requests -> Args \cup {None}]
  /\ \A r \in Requests : pc[r] # "idle" => args[r] \in Args
  /\ snap \in [Requests -> InvoiceRow]
  /\ outcome \in [Requests -> Outcome]
  /\ write \in [Requests -> InvoiceRow \cup {None}]
  /\ resp \in [Requests -> Response \cup {None}]
  /\ spawned \subseteq Requests
  /\ psp \in [Requests -> {"idle", "sent", "answered"}]
  /\ charged \subseteq Requests

NoInvoice == [state |-> "absent", version |-> 1]

Init ==
  /\ invoices = [i \in Invoices |-> NoInvoice]
  /\ attempts = {}
  /\ rowLock = [i \in Invoices |-> None]
  /\ pc = [r \in Requests |-> "idle"]
  /\ args = [r \in Requests |-> None]
  /\ snap = [r \in Requests |-> NoInvoice]
  /\ outcome = [r \in Requests |-> Pending]
  /\ write = [r \in Requests |-> None]
  /\ resp = [r \in Requests |-> None]
  /\ spawned = {}
  /\ psp = [r \in Requests |-> "idle"]
  /\ charged = {}

-----------------------------------------------------------------------------
(* Steps shared by the handlers *)

\* The row request r inserts, with the columns its handler has set so far
Row(r) == [id |-> r, invoice |-> args[r].invoice, key |-> args[r].key,
           outcome |-> outcome[r], completed_at |-> "tx_start"]

\* The stored attempts with the invoice and the key of request r
Stored(r) == {a \in attempts : a.invoice = args[r].invoice /\ a.key = args[r].key}

\* The invoice of request r as WHERE id = $1 AND business_id = $2 finds it
Found(r) == /\ invoices[args[r].invoice].state # "absent"
            /\ Owner[args[r].invoice] = args[r].business

\* Whether the handler goes on with an invoice in this state: the state it goes
\* on with, or the error it returns
Admission(op, state) ==
  IF op = "open" THEN ValidateTransition(state, "open")
  ELSE IF CanPay(state) THEN state
  ELSE IF state = "paid" THEN "AlreadyPaid" ELSE "InvalidStateTransition"

\* Mutant: the UPDATE forgets version = version + 1.
VersionedUpdateKeepsVersion(r, new) ==
  LET row == invoices[args[r].invoice]
  IN IF row.version = snap[r].version THEN [row EXCEPT !.state = new] ELSE None

\* UPDATE invoices SET state = new, version = version + 1 WHERE version = $3:
\* the row it writes, or None when no row matches.  Neither handler looks at the
\* number of rows affected.
VersionedUpdate(r, new) ==
  LET row == invoices[args[r].invoice]
  IN IF row.version = snap[r].version
     THEN [state |-> new, version |-> row.version + 1]
     ELSE None

Goto(r, await) == pc' = [pc EXCEPT ![r] = await]

\* Mutant: a handler that returns without committing keeps its row lock.
ReturnKeepingLock(r, result, attempt) ==
  /\ Goto(r, "done")
  /\ resp' = [resp EXCEPT ![r] = [result |-> result, attempt |-> attempt]]
  /\ rowLock' = [i \in Invoices |->
                 IF rowLock[i] = r /\ result = "ok" THEN None ELSE rowLock[i]]

\* The handler returns: its transaction, committed or not, ends with it.
Return(r, result, attempt) ==
  /\ Goto(r, "done")
  /\ resp' = [resp EXCEPT ![r] = [result |-> result, attempt |-> attempt]]
  /\ rowLock' = [i \in Invoices |-> IF rowLock[i] = r THEN None ELSE rowLock[i]]

-----------------------------------------------------------------------------
(* Invoices are created (create_invoice commits a draft with version 1) *)

CreateInvoice(i) ==
  /\ invoices[i].state = "absent"
  /\ invoices' = [invoices EXCEPT ![i] = [state |-> "draft", version |-> 1]]
  /\ UNCHANGED <<attempts, rowLock, pc, locals, resp, spawned, provider>>

-----------------------------------------------------------------------------
(* A request arrives; process_payment looks the key up before anything else, *)
(* outside the transaction and without looking at the business.              *)

Arrive(r, a) ==
  /\ pc[r] = "idle"
  /\ args' = [args EXCEPT ![r] = a]
  /\ Goto(r, IF a.op = "pay" THEN "lookup" ELSE "lock")
  /\ UNCHANGED <<database, snap, outcome, write, resp, spawned, provider>>

RejectMissingKey(r) ==
  /\ pc[r] = "lookup"
  /\ args[r].key = None
  /\ Return(r, "BadRequest", None)
  /\ UNCHANGED <<invoices, attempts, locals, spawned, provider>>

ReplayStored(r) ==
  /\ pc[r] = "lookup"
  /\ \E a \in Stored(r) : Return(r, "ok", a)
  /\ UNCHANGED <<invoices, attempts, locals, spawned, provider>>

LookupMiss(r) ==
  /\ pc[r] = "lookup"
  /\ args[r].key # None
  /\ Stored(r) = {}
  /\ Goto(r, "lock")
  /\ UNCHANGED <<database, locals, resp, spawned, provider>>

-----------------------------------------------------------------------------
(* SELECT ... FOR UPDATE: waits for the row lock, then reads the committed   *)
(* row.  A row that is not found is not waited for.                          *)

LockNotFound(r) ==
  /\ pc[r] = "lock"
  /\ ~Found(r)
  /\ Return(r, "NotFound", None)
  /\ UNCHANGED <<invoices, attempts, locals, spawned, provider>>

LockRejected(r) ==
  LET i == args[r].invoice
      answer == Admission(args[r].op, invoices[i].state)
  IN /\ pc[r] = "lock"
     /\ Found(r)
     /\ rowLock[i] = None
     /\ answer \in TransitionError
     /\ Return(r, answer, None)
     /\ UNCHANGED <<invoices, attempts, locals, spawned, provider>>

\* Mutant: SELECT without FOR UPDATE.
LockGrantedAlways(r) ==
  LET i == args[r].invoice
  IN /\ pc[r] = "lock"
     /\ Found(r)
     /\ Admission(args[r].op, invoices[i].state) \in InvoiceState
     /\ snap' = [snap EXCEPT ![r] = invoices[i]]
     /\ Goto(r, IF args[r].op = "pay" THEN "insert" ELSE "update")
     /\ UNCHANGED <<database, args, outcome, write, resp, spawned, provider>>

LockGranted(r) ==
  LET i == args[r].invoice
  IN /\ pc[r] = "lock"
     /\ Found(r)
     /\ rowLock[i] = None
     /\ Admission(args[r].op, invoices[i].state) \in InvoiceState
     /\ rowLock' = [rowLock EXCEPT ![i] = r]
     /\ snap' = [snap EXCEPT ![r] = invoices[i]]
     /\ Goto(r, IF args[r].op = "pay" THEN "insert" ELSE "update")
     /\ UNCHANGED <<invoices, attempts, args, outcome, write, resp, spawned,
                    provider>>

-----------------------------------------------------------------------------
(* open_invoice, after the lock *)

UpdateOpened(r) ==
  /\ pc[r] = "update"
  /\ write' = [write EXCEPT ![r] = VersionedUpdate(r, "open")]
  /\ Goto(r, "commit")
  /\ UNCHANGED <<database, args, snap, outcome, resp, spawned, provider>>

-----------------------------------------------------------------------------
(* process_payment, after the lock *)

\* INSERT INTO payment_attempts: UNIQUE (invoice_id, idempotency_key) makes it
\* fail on a stored row, and the handler answers 500.
InsertConflict(r) ==
  /\ pc[r] = "insert"
  /\ Stored(r) # {}
  /\ Return(r, "Internal", None)
  /\ UNCHANGED <<invoices, attempts, locals, spawned, provider>>

\* Mutant: no UNIQUE (invoice_id, idempotency_key) constraint.
InsertAttemptUnchecked(r) ==
  /\ pc[r] = "insert"
  /\ outcome' = [outcome EXCEPT ![r] = Pending]
  /\ Goto(r, "call")
  /\ UNCHANGED <<database, args, snap, write, resp, spawned, provider>>

\* Mutant: the attempt is inserted outside the transaction, and so at once visible.
InsertAttemptVisibly(r) ==
  /\ pc[r] = "insert"
  /\ Stored(r) = {}
  /\ outcome' = [outcome EXCEPT ![r] = Pending]
  /\ attempts' = attempts \cup {Row(r)}
  /\ Goto(r, "call")
  /\ UNCHANGED <<invoices, rowLock, args, snap, write, resp, spawned, provider>>

InsertAttempt(r) ==
  /\ pc[r] = "insert"
  /\ Stored(r) = {}
  /\ outcome' = [outcome EXCEPT ![r] = Pending]
  /\ Goto(r, "call")
  /\ UNCHANGED <<database, args, snap, write, resp, spawned, provider>>

CallPsp(r) ==
  /\ pc[r] = "call"
  /\ psp' = [psp EXCEPT ![r] = "sent"]
  /\ Goto(r, "await")
  /\ UNCHANGED <<database, locals, resp, spawned, charged>>

\* The PSP handles a call, whether or not its client still waits for it.
PspHandle(r) ==
  /\ psp[r] = "sent"
  /\ psp' = [psp EXCEPT ![r] = "answered"]
  /\ charged' = IF MockAnswer(args[r].token).status = "succeeded"
                THEN charged \cup {r} ELSE charged
  /\ UNCHANGED <<database, pc, locals, resp, spawned>>

\* Mutant: a call without an answer is stored like a decline.
SettledLikeDecline(r, result) ==
  IF result = "succeeded"
  THEN [status |-> "succeeded", psp_reference |-> r, error_code |-> "none"]
  ELSE [status |-> "failed", psp_reference |-> None, error_code |-> "card_declined"]

\* The attempt's result columns for what the PSP client returned
Settled(r, result) ==
  CASE result = "succeeded" ->
         [status |-> "succeeded", psp_reference |-> r, error_code |-> "none"]
    [] result = "failed" ->
         [status |-> "failed", psp_reference |-> None,
          error_code |-> MockAnswer(args[r].token).code]
    [] OTHER ->
         [status |-> "failed", psp_reference |-> None, error_code |-> "psp_error"]

PspResult(r, result) ==
  /\ pc[r] = "await"
  /\ outcome' = [outcome EXCEPT ![r] = Settled(r, result)]
  /\ Goto(r, "settle")
  /\ UNCHANGED <<database, args, snap, write, resp, spawned, provider>>

PspAnswer(r) ==
  /\ psp[r] = "answered"
  /\ ~TimesOut(args[r].token)
  /\ PspResult(r, ClientResult(MockAnswer(args[r].token)))

\* The call fails or its timer runs out, before or after the PSP handled it.
PspFailure(r) == PspResult(r, "error")

\* Mutant: the invoice is not updated after a success.
SettleLeavesInvoice(r) ==
  /\ pc[r] = "settle"
  /\ Goto(r, "commit")
  /\ UNCHANGED <<database, locals, resp, spawned, provider>>

\* Mutant: the event is spawned before the commit.
SettleAnnounces(r) ==
  /\ pc[r] = "settle"
  /\ outcome[r].status # "succeeded"
  /\ spawned' = spawned \cup {r}
  /\ Goto(r, "commit")
  /\ UNCHANGED <<database, locals, resp, provider>>

\* The attempt row is updated; after a success the invoice row as well, unless
\* the state machine refuses, which drops the transaction.
SettleFailed(r) ==
  /\ pc[r] = "settle"
  /\ outcome[r].status # "succeeded"
  /\ Goto(r, "commit")
  /\ UNCHANGED <<database, locals, resp, spawned, provider>>

\* Mutant: the result of the state machine is used without the `?'.
SettlePaidUnchecked(r) ==
  /\ pc[r] = "settle"
  /\ outcome[r].status = "succeeded"
  /\ write' = [write EXCEPT
       ![r] = VersionedUpdate(r, PaymentResultTransition(snap[r].state, TRUE))]
  /\ Goto(r, "commit")
  /\ UNCHANGED <<database, args, snap, outcome, resp, spawned, provider>>

SettlePaid(r) ==
  LET new == PaymentResultTransition(snap[r].state, TRUE)
  IN /\ pc[r] = "settle"
     /\ outcome[r].status = "succeeded"
     /\ new \in InvoiceState
     /\ write' = [write EXCEPT ![r] = VersionedUpdate(r, new)]
     /\ Goto(r, "commit")
     /\ UNCHANGED <<database, args, snap, outcome, resp, spawned, provider>>

SettleRefused(r) ==
  LET new == PaymentResultTransition(snap[r].state, TRUE)
  IN /\ pc[r] = "settle"
     /\ outcome[r].status = "succeeded"
     /\ new \in TransitionError
     /\ Return(r, new, None)
     /\ UNCHANGED <<invoices, attempts, locals, spawned, provider>>

-----------------------------------------------------------------------------
(* The end of a transaction *)

\* COMMIT makes the writes of r's transaction visible.
Publish(r) ==
  /\ attempts' = IF args[r].op = "pay" THEN attempts \cup {Row(r)} ELSE attempts
  /\ invoices' = IF write[r] = None THEN invoices
                 ELSE [invoices EXCEPT ![args[r].invoice] = write[r]]

\* Mutant: only a success is announced.
CommitAnnouncingPaid(r) ==
  /\ pc[r] = "commit"
  /\ Publish(r)
  /\ IF args[r].op = "pay"
     THEN /\ Return(r, "ok", [Row(r) EXCEPT !.completed_at = "reply"])
          /\ spawned' = IF write[r] = None THEN spawned ELSE spawned \cup {r}
     ELSE /\ Return(r, "ok", None)
          /\ UNCHANGED spawned
  /\ UNCHANGED <<locals, provider>>

\* The answer to the request that paid carries the time of the reply.
Commit(r) ==
  /\ pc[r] = "commit"
  /\ Publish(r)
  /\ IF args[r].op = "pay"
     THEN /\ Return(r, "ok", [Row(r) EXCEPT !.completed_at = "reply"])
          /\ spawned' = spawned \cup {r}
     ELSE /\ Return(r, "ok", None)
          /\ UNCHANGED spawned
  /\ UNCHANGED <<locals, provider>>

\* The database commits, but the handler does not learn of it: the connection
\* breaks, or the handler is dropped while it waits.
CommitUnacknowledged(r, result) ==
  /\ pc[r] = "commit"
  /\ Publish(r)
  /\ Return(r, result, None)
  /\ UNCHANGED <<locals, spawned, provider>>

\* A database call fails, at any await but the PSP's.  The handlers answer 500,
\* except that they call a failed UPDATE of the invoice a concurrent modification.
DatabaseError(r) ==
  /\ \/ /\ pc[r] \in {"lookup", "lock", "insert", "settle", "commit"}
        /\ Return(r, "Internal", None)
     \/ /\ \/ pc[r] = "update"
           \/ pc[r] = "settle" /\ outcome[r].status = "succeeded"
        /\ Return(r, "ConcurrentModification", None)
  /\ UNCHANGED <<invoices, attempts, locals, spawned, provider>>

Running == {r \in Requests : pc[r] \notin {"idle", "done"}}

\* The handler is dropped at an await.
Drop(r) ==
  /\ r \in Running
  /\ Return(r, "gone", None)
  /\ UNCHANGED <<invoices, attempts, locals, spawned, provider>>

\* The process dies, and with it all handlers; the database rolls their transactions
\* back.  The PSP goes on with the calls it received.
Crash ==
  /\ pc' = [r \in Requests |-> IF r \in Running THEN "done" ELSE pc[r]]
  /\ resp' = [r \in Requests |->
       IF r \in Running THEN [result |-> "gone", attempt |-> None] ELSE resp[r]]
  /\ rowLock' = [i \in Invoices |-> None]
  /\ UNCHANGED <<invoices, attempts, locals, spawned, provider>>

-----------------------------------------------------------------------------

\* What a handler does when nothing goes wrong around it
Lookup(r) == RejectMissingKey(r) \/ ReplayStored(r) \/ LookupMiss(r)
Lock(r) == LockNotFound(r) \/ LockRejected(r) \/ LockGranted(r)
Insert(r) == InsertConflict(r) \/ InsertAttempt(r)
PspReturns(r) == PspAnswer(r) \/ PspFailure(r)
Settle(r) == SettleFailed(r) \/ SettlePaid(r) \/ SettleRefused(r)

\* Every request has been answered.
AllDone == (\A r \in Requests : pc[r] = "done") /\ UNCHANGED vars

Next ==
  \/ \E i \in Invoices : CreateInvoice(i)
  \/ \E r \in Requests, a \in Args : Arrive(r, a)
  \/ \E r \in Requests :
       \/ Lookup(r) \/ Lock(r) \/ UpdateOpened(r) \/ Insert(r) \/ CallPsp(r)
       \/ PspHandle(r) \/ PspReturns(r) \/ Settle(r) \/ Commit(r)
       \/ CommitUnacknowledged(r, "Internal") \/ CommitUnacknowledged(r, "gone")
       \/ DatabaseError(r) \/ Drop(r)
  \/ Crash
  \/ AllDone

Spec == Init /\ [][Next]_vars

-----------------------------------------------------------------------------
(* Properties *)

Succeeded(a) == a.outcome.status = "succeeded"

\* An invoice is settled by at most one attempt, however many requests race for
\* it (DESIGN.md section 5: "prevents two successful payment operations").
SettledOnce ==
  \A a, b \in attempts :
    Succeeded(a) /\ Succeeded(b) /\ a.invoice = b.invoice => a.id = b.id

\* The invoice and the ledger of attempts never disagree: an invoice is paid
\* exactly when one of its attempts succeeded, also after a rollback, a lost
\* commit reply or a handler dropped halfway.
PaidIffSettled ==
  \A i \in Invoices :
    invoices[i].state = "paid" <=> \E a \in attempts : a.invoice = i /\ Succeeded(a)

\* Two requests with one key that both missed in the lookup never leave two
\* attempts (DESIGN.md section 8, "lookup/insert race").
OneAttemptPerKey ==
  \A a, b \in attempts : a.invoice = b.invoice /\ a.key = b.key => a.id = b.id

\* The invoice row a handler read before its call to the PSP is still the committed
\* row when it writes, so the versioned UPDATE, whose row count no handler looks
\* at, always updates a row.
FreshSnapshot ==
  \A r \in Requests : pc[r] \in Locked => snap[r] = invoices[args[r].invoice]

\* Every 200 for one key of one invoice, original or replay, reports one attempt
\* with one result (README.md, Idempotency: "returns the previously stored result").
ReplaysAgree ==
  \A r, s \in Requests :
    /\ resp[r] # None /\ resp[r].result = "ok" /\ args[r].op = "pay"
    /\ resp[s] # None /\ resp[s].result = "ok" /\ args[s].op = "pay"
    /\ args[r].invoice = args[s].invoice /\ args[r].key = args[s].key
    => /\ resp[r].attempt.id = resp[s].attempt.id
       /\ resp[r].attempt.outcome = resp[s].attempt.outcome

\* What is stored agrees with the PSP: a success was charged and a decline was not; only
\* psp_error says nothing about the charge.  A charge may be forgotten altogether (see
\* ChargeLeavesAttempt), as may the pending row with it, since both are rolled back at
\* once, but not by a request that is answered 200.
LedgerMatchesPsp ==
  /\ \A a \in attempts :
       /\ a.outcome.status # "pending"
       /\ Succeeded(a) => a.id \in charged
       /\ a.outcome.status = "failed" /\ a.outcome.error_code # "psp_error"
            => a.id \notin charged
  /\ \A r \in charged : resp[r] # None /\ resp[r].result = "ok" =>
       \E a \in attempts :
         a.id = r /\ (Succeeded(a) \/ a.outcome.error_code = "psp_error")

\* A webhook event is only ever announced for an attempt the database holds: no
\* customer of the API hears of a payment that was rolled back.
AnnouncedIsDurable ==
  \A r \in spawned : \E a \in attempts : a.id = r /\ a.outcome = outcome[r]

\* No card is charged by a request that is told the invoice is unknown or already
\* paid (DESIGN.md section 9): the checks come before the PSP, the lock after them
\* keeps their answer true.
RefusedMeansUncharged ==
  \A r \in charged :
    resp[r] = None \/ resp[r].result \notin {"BadRequest", "NotFound", "AlreadyPaid"}

\* Every committed change of an invoice is a transition of the state machine on top
\* of the version before: no lost update, no terminal state left.
InvoiceSteps ==
  [][\A i \in Invoices :
       \/ invoices'[i] = invoices[i]
       \/ invoices[i].state = "absent" /\ invoices'[i].state = "draft"
       \/ /\ \E t \in AllowedTransitions(invoices[i].state) :
               invoices'[i].state = Apply(invoices[i].state, t)
          /\ invoices'[i].version = invoices[i].version + 1]_vars

\* The handlers implement the ledger: what is committed changes as if every
\* request were an instant.
Ledger == INSTANCE PaymentLedger WITH
  state <- [i \in Invoices |-> invoices[i].state],
  log <- {[id |-> a.id, invoice |-> a.invoice, key |-> a.key,
           status |-> a.outcome.status] : a \in attempts}

LedgerSpec == Ledger!Spec

-----------------------------------------------------------------------------
(* The inductive invariant behind the safety properties, part by part *)

\* The await a handler is at belongs to its operation, and past the lookup a
\* payment has a key.
ControlInv ==
  \A r \in Requests :
    /\ pc[r] \in {"lookup", "insert", "call", "await", "settle"} => args[r].op = "pay"
    /\ pc[r] = "update" => args[r].op = "open"
    /\ pc[r] \in {"lock"} \cup Locked /\ args[r].op = "pay" => args[r].key # None

\* A request holds the lock of its invoice at the awaits of Locked, and no other.
LockInv ==
  \A r \in Requests, i \in Invoices :
    rowLock[i] = r <=> pc[r] \in Locked /\ args[r].invoice = i

\* What the guards after the lock established still holds of the snapshot.
AdmittedInv ==
  \A r \in Requests : pc[r] \in Locked =>
    /\ args[r].op = "pay" => snap[r].state \in {"draft", "open"}
    /\ args[r].op = "open" => snap[r].state = "draft"

\* Past the insert, no other attempt with the key of r is stored.
KeyFreeInv ==
  \A r \in Requests :
    pc[r] \in {"call", "await", "settle", "commit"} /\ args[r].op = "pay"
    => Stored(r) = {}

\* A result is decided before it is written, and what is written follows from it.
WriteInv ==
  \A r \in Requests :
    /\ pc[r] \notin {"commit", "done"} => write[r] = None
    /\ pc[r] \in {"settle", "commit"} /\ args[r].op = "pay" =>
         outcome[r].status # "pending"
    /\ pc[r] = "commit" =>
         write[r] = IF args[r].op = "open"
                    THEN [state |-> "open", version |-> snap[r].version + 1]
                    ELSE IF outcome[r].status = "succeeded"
                    THEN [state |-> "paid", version |-> snap[r].version + 1]
                    ELSE None
    /\ pc[r] = "commit" /\ args[r].op = "pay" /\ outcome[r].status = "succeeded" =>
         snap[r].state = "open"

\* A stored attempt is the work of one request, which has returned.
AttemptInv ==
  \A a \in attempts :
    /\ pc[a.id] = "done"
    /\ args[a.id].op = "pay"
    /\ a = Row(a.id)
    /\ a.outcome.status # "pending"

\* What the PSP did, what the client was told of it, and what the handler made of it
PspInv ==
  \A r \in Requests :
    /\ psp[r] # "idle" =>
         args[r].op = "pay" /\ pc[r] \in {"await", "settle", "commit", "done"}
    /\ r \in charged <=> /\ psp[r] = "answered"
                         /\ MockAnswer(args[r].token).status = "succeeded"
    /\ outcome[r].status # "pending" => pc[r] \in {"settle", "commit", "done"}
    /\ outcome[r].status = "succeeded" => r \in charged
    /\ outcome[r].status = "failed" /\ outcome[r].error_code # "psp_error"
         => MockAnswer(args[r].token).status = "failed"

\* A 200 for a payment reports a stored attempt with the key it asked for, its own if it
\* called the PSP; an early refusal comes before the PSP is called; an announced attempt
\* is stored.
AnswerInv ==
  \A r \in Requests :
    /\ resp[r] # None => pc[r] = "done"
    /\ resp[r] # None /\ resp[r].result = "ok" /\ args[r].op = "pay" =>
         \E a \in attempts :
           /\ a.id = resp[r].attempt.id /\ a.outcome = resp[r].attempt.outcome
           /\ a.invoice = args[r].invoice /\ a.key = args[r].key
           /\ psp[r] # "idle" => a.id = r
    /\ resp[r] # None /\ resp[r].result \in {"BadRequest", "NotFound", "AlreadyPaid"}
         => psp[r] = "idle"
    /\ r \in spawned => \E a \in attempts : a.id = r

IInv ==
  /\ TypeOK /\ ControlInv /\ LockInv /\ FreshSnapshot /\ AdmittedInv
  /\ KeyFreeInv /\ WriteInv /\ AttemptInv /\ PaidIffSettled /\ SettledOnce
  /\ OneAttemptPerKey /\ PspInv /\ AnswerInv

-----------------------------------------------------------------------------
(* What the documents and tests say and the handlers do not do *)

\* A payment of a payable invoice is not refused after the card was charged
\* (DESIGN.md: "Both draft and open are considered payable").
PayableIsPayable ==
  \A r \in charged : resp[r] = None \/ resp[r].result # "InvalidStateTransition"

\* A success that the PSP returned is on record, if only as a pending attempt, when the
\* process crashes or drops the handler before the commit (DESIGN.md section 7: "the local
\* database still contains payment_attempt.status = pending").
ChargeLeavesAttempt ==
  \A r \in Requests :
    outcome[r].status = "succeeded" /\ resp[r] # None /\ resp[r].result = "gone" =>
      \E a \in attempts : a.id = r

\* Retries with one key charge the card once (README.md, Idempotency).
OneChargePerKey ==
  \A r, s \in charged :
    args[r].invoice = args[s].invoice /\ args[r].key = args[s].key => r = s

\* The PSP client gives up on tok_timeout (DESIGN.md section 6), so no payment with
\* it succeeds.
TimeoutNeverPays ==
  \A a \in attempts : args[a.id].token = "tok_timeout" => ~Succeeded(a)

\* A payment with a stored key but another body is not answered 200
\* (tests/idempotency.rs: "Different request body with same key should be rejected").
OtherBodyRejected ==
  \A r, s \in Requests :
    /\ resp[r] # None /\ resp[r].result = "ok" /\ args[r].op = "pay"
    /\ resp[s] # None /\ resp[s].result = "ok" /\ args[s].op = "pay"
    /\ args[r].invoice = args[s].invoice /\ args[r].key = args[s].key
    => args[r].token = args[s].token

\* A payment whose key already has a stored result is answered with that result,
\* not with a refusal (README.md, Idempotency).
StoredResultReturned ==
  \A r \in Requests :
    resp[r] # None /\ resp[r].result = "AlreadyPaid" /\ args[r].op = "pay"
    => Stored(r) = {}

=============================================================================
