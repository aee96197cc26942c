--------------------------- MODULE InvoiceService ---------------------------
(***************************************************************************)
(* One process of the service: the payment handlers of module Payments,    *)
(* the tasks and the worker of module Webhooks, and the one pool of        *)
(* database connections they share (src/main.rs).                          *)
(*                                                                         *)
(* A handler's transaction keeps a connection from its BEGIN to its end,   *)
(* over the wait for the row lock and the call to the PSP.  Every other    *)
(* statement takes one for the statement only and so waits until one is    *)
(* free; pool and row lock queue their waiters.  A wait may end in a       *)
(* timeout, which is one of the failed statements of the two modules.      *)
(*                                                                         *)
(* A crash ends all handlers, the tasks and the worker's batch at once;    *)
(* then the process is started again.                                      *)
(***************************************************************************)
EXTENDS Naturals, FiniteSets

CONSTANTS
  \* of module Payments
  Requests, Invoices, Businesses, Owner, Keys, Tokens, None,
  \* of module Webhooks; the event a request announces has the request's name
  Endpoints, Business, Url, MaxAttempts, BatchLimit, MaxFaults,
  PoolSizes  \* possible values of max_connections, 10 in main

ASSUME PoolAssumption == PoolSizes \subseteq Nat \ {0}

VARIABLES
  invoices, attempts, rowLock, pc, args, snap, outcome, write, resp, spawned,
  psp, charged,
  endpoint, task, todo, row, created, wpc, batch, cur, posts, acked, late, faults,
  size,  \* the connections of the pool
  conn,  \* requests whose transaction has one
  owed   \* history: owed[r]: the endpoints registered when r's attempt was stored

P == INSTANCE Payments
W == INSTANCE Webhooks WITH Events <- Requests

\* The assumptions of the two modules
ASSUME OwnerAssumption == Owner \in [Invoices -> Businesses]
ASSUME TokensAssumption == Tokens \subseteq P!CardTokens
ASSUME NoneAssumption ==
  None \notin Requests \cup Keys \cup P!InvoiceRow \cup P!AttemptRow \cup P!Response
ASSUME BusinessAssumption == Requests \cup Endpoints \subseteq DOMAIN Business
ASSUME LimitsAssumption ==
  /\ MaxAttempts \in Nat \ {0}
  /\ BatchLimit \in Nat \ {0}
  /\ MaxFaults \in Nat

payments == <<invoices, attempts, rowLock, pc, args, snap, outcome, write, resp,
              spawned, psp, charged>>
webhooks == <<endpoint, task, todo, row, created, wpc, batch, cur, posts, acked,
              late, faults>>
pool == <<size, conn>>
vars == <<payments, webhooks, pool, owed>>

TypeOK ==
  /\ P!TypeOK
  /\ W!TypeOK
  /\ size \in PoolSizes
  /\ conn \subseteq {r \in Requests : pc[r] \in {"lock"} \cup P!Locked}
  /\ Cardinality(conn) <= size
  /\ owed \in [Requests -> SUBSET Endpoints]

Init ==
  /\ P!Init
  /\ W!Init
  /\ size \in PoolSizes
  /\ conn = {}
  /\ owed = [r \in Requests |-> {}]

-----------------------------------------------------------------------------
(* The pool *)

Free == Cardinality(conn) < size

\* Mutant: a statement of the transaction is run on the pool.
CanExecuteOnPool(r) == r \in conn /\ (pc[r] = "insert" => Free)

\* A statement of r's transaction runs on the transaction's connection.
CanExecute(r) == r \in conn

\* Mutant: a handler that ends without a commit keeps its connection.
ReleaseCommitted ==
  /\ conn' = {r \in conn : pc'[r] # "done" \/ resp'[r].result # "ok"}
  /\ UNCHANGED size

\* A handler that returned, or was dropped, has given its connection back.
Release ==
  /\ conn' = {r \in conn : pc'[r] # "done"}
  /\ UNCHANGED size

-----------------------------------------------------------------------------
(* Handlers *)

\* A step of handler r; the task it spawns begins with the event it announces.
HandlerStep(r, Step) ==
  /\ Step
  /\ IF r \in spawned' \ spawned THEN W!Spawn(r) ELSE UNCHANGED webhooks
  /\ Release
  /\ owed' = IF attempts' = attempts THEN owed
             ELSE [owed EXCEPT ![r] = {e \in W!Live : Business[e] = Business[r]}]

CreateInvoice(i) ==
  /\ Free
  /\ P!CreateInvoice(i)
  /\ UNCHANGED <<webhooks, pool, owed>>

\* Authentication has found the business; its statement is not told from the next.
Arrive(r, a) ==
  /\ a.business = Business[r]
  /\ P!Arrive(r, a)
  /\ UNCHANGED <<webhooks, pool, owed>>

\* process_payment looks the key up on the pool, before its transaction.
Lookup(r) == Free /\ HandlerStep(r, P!Lookup(r))

\* pool.begin()
Begin(r) ==
  /\ pc[r] = "lock"
  /\ r \notin conn
  /\ Free
  /\ conn' = conn \cup {r}
  /\ UNCHANGED <<payments, webhooks, size, owed>>

Lock(r) == CanExecute(r) /\ HandlerStep(r, P!Lock(r))

InTransaction(r) ==
  /\ CanExecute(r)
  /\ HandlerStep(r,
       P!UpdateOpened(r) \/ P!Insert(r) \/ P!CallPsp(r) \/ P!PspReturns(r)
       \/ P!Settle(r) \/ P!Commit(r))

\* The commit loses its reply, a statement or a wait for a connection fails, or the
\* handler is dropped.
Failure(r) ==
  HandlerStep(r,
    \/ P!CommitUnacknowledged(r, "Internal") \/ P!CommitUnacknowledged(r, "gone")
    \/ P!DatabaseError(r) \/ P!Drop(r))

PspHandle(r) ==
  /\ P!PspHandle(r)
  /\ UNCHANGED <<webhooks, pool, owed>>

-----------------------------------------------------------------------------
(* Webhooks: every statement on the pool, no connection during a POST *)

OnPool(Step) == Step /\ Free /\ UNCHANGED <<payments, pool, owed>>
OffPool(Step) == Step /\ UNCHANGED <<payments, pool, owed>>

Endpoint(e) == OnPool(W!Register(e) \/ W!Delete(e))

Task(v) == OnPool(W!Task(v))

WorkerStatement ==
  OnPool(\/ W!FetchBatch \/ W!FetchEndpoint \/ W!EndpointNotFound
         \/ W!MarkDelivered \/ W!Reschedule \/ W!MarkFailed \/ W!MarkExhausted)

WorkerAlone == OffPool(W!BatchDone \/ \E ack, ok \in BOOLEAN : W!Post(ack, ok))

WebhookFault == OffPool(W!WorkerFault \/ \E v \in Requests : W!TaskFault(v))

Elapse(d) == OffPool(W!Elapse(d))

-----------------------------------------------------------------------------

\* The process dies: handlers, tasks and the worker's batch are lost together, and
\* the new process opens a new pool.
Crash ==
  /\ P!Crash
  /\ W!Crash
  /\ conn' = {}
  /\ UNCHANGED <<size, owed>>

Next ==
  \/ \E i \in Invoices : CreateInvoice(i)
  \/ \E r \in Requests, a \in P!Args : Arrive(r, a)
  \/ \E r \in Requests :
       \/ Lookup(r) \/ Begin(r) \/ Lock(r) \/ InTransaction(r) \/ Failure(r)
       \/ PspHandle(r) \/ Task(r)
  \/ \E e \in Endpoints : Endpoint(e)
  \/ WorkerStatement \/ WorkerAlone \/ WebhookFault \/ Crash
  \/ \E d \in W!Deliveries : Elapse(d)

Spec == Init /\ [][Next]_vars

\* Fairness.  Whoever waits for a connection or for the row lock is queued: if there
\* is one to be had again and again, some waiter gets it.  What waits for neither goes
\* on by itself.  Requests, tasks and deliveries are finite work, so it is enough that
\* some of them proceeds.
Fairness ==
  /\ SF_vars(\E r \in Requests : Lookup(r) \/ Begin(r) \/ Lock(r))
  /\ WF_vars(\E r \in Requests : InTransaction(r))
  /\ SF_vars(\E r \in Requests : Task(r))
  /\ SF_vars(WorkerStatement)
  /\ WF_vars(WorkerAlone)
  /\ WF_vars(\E d \in W!Deliveries : Elapse(d))

FairSpec == Spec /\ Fairness

-----------------------------------------------------------------------------
(* Properties *)

\* No receiver hears of a payment the database does not hold, whatever is rolled
\* back, lost or restarted between the payment and the POST.
NotifiedIsStored ==
  \A d \in W!Deliveries : posts[d] > 0 =>
    \E a \in attempts : a.id = d[1] /\ a.outcome = outcome[d[1]]

\* An event reaches the queue for every endpoint registered at the time of the
\* payment, unless its task is still at it.  It is lost only to a fault, to the
\* deletion of an endpoint, or with the reply of the commit: there is no outbox.
Queued(r, e) ==
  task[r] = "spawned" \/ e \in todo[r] \/ row[<<r, e>>].status # "none"

LostOnlyByFaults ==
  \A r \in Requests : \A e \in owed[r] :
    \/ Queued(r, e)
    \/ faults > 0
    \/ \E o \in Endpoints : endpoint[o] = "deleted"
    \/ resp[r].result # "ok"

\* Handlers never all wait for each other, although a transaction that waits for a row
\* lock keeps a connection and one that waits for a connection may be what the first
\* waits for: one of them has all it needs for its next statement.  When the last has
\* ended, tasks and worker find a connection.
CanGoOn(r) ==
  \/ pc[r] \in P!Locked /\ CanExecute(r)
  \/ pc[r] = "lock" /\ CanExecute(r) /\ rowLock[args[r].invoice] = None
  \/ pc[r] = "lock" /\ r \notin conn /\ Free
  \/ pc[r] = "lookup" /\ Free

SomeoneGoesOn == IF P!Running = {} THEN Free ELSE \E r \in P!Running : CanGoOn(r)

\* Every call returns: no order of waits for a connection and for the row lock, lost calls,
\* silent PSPs, dropped handlers and crashes leaves a handler waiting for ever.  Each
\* request runs once, so all of them have returned if again and again none is running.
EveryCallReturns == []<>(P!Running = {})

\* Whatever the calls started ends: tasks and deliveries.  Handlers do not starve tasks
\* and worker, although they keep connections over calls to the PSP.
AtRest ==
  /\ \A r \in Requests : task[r] \notin {"spawned", "inserting"}
  /\ \A d \in W!Deliveries : row[d].status # "pending"

ComesToRest == []<>AtRest

-----------------------------------------------------------------------------
(* What ties the two modules together: with their invariants, it is inductive. *)

\* A handler holds one connection at most, and only in its transaction, which has it
\* before it has the row lock and until its end.
PoolInv ==
  /\ \A r \in Requests : pc[r] \in P!Locked => r \in conn
  /\ size \in PoolSizes
  /\ conn \subseteq {r \in Requests : pc[r] \in {"lock"} \cup P!Locked}
  /\ IsFiniteSet(conn)
  /\ Cardinality(conn) <= size

\* The task of a request exists once the request announced it, which was its last step.
TieInv ==
  \A r \in Requests :
    /\ task[r] = "none" <=> r \notin spawned
    /\ r \in spawned => pc[r] = "done"

\* Endpoints are owed an event by requests that have returned, and were registered
\* with the business of the request.
OwedInv ==
  /\ owed \in [Requests -> SUBSET Endpoints]
  /\ \A r \in Requests : \A e \in owed[r] :
       /\ pc[r] = "done"
       /\ Business[e] = Business[r]
       /\ endpoint[e] # "absent"
  /\ LostOnlyByFaults

=============================================================================
