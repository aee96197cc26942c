------------------------------ MODULE Webhooks ------------------------------
(***************************************************************************)
(* Webhook events on their way to the endpoints a business registered:     *)
(* the endpoint handlers (src/handlers/webhook_endpoints.rs), the task     *)
(* that enqueue_webhook runs in after a payment (src/webhooks.rs) and the  *)
(* one worker that delivers (process_pending_webhooks, polled by           *)
(* src/worker.rs).                                                         *)
(*                                                                         *)
(* Every statement is a transaction of its own, so handlers, tasks and the *)
(* worker interleave between any two statements.  Time is abstracted to    *)
(* whether scheduled_at has passed.  A fault is a failed statement or a    *)
(* crash of the process, which loses the tasks and the worker's batch.     *)
(***************************************************************************)
EXTENDS Naturals, Sequences, FiniteSets

CONSTANTS
  Events,       \* events announced by payments (Payments!spawned)
  Endpoints,    \* ids of registrations; a url registered anew gets a new id
  Business,     \* Business[x]: the business of an event or an endpoint
  Url,          \* Url[e]: the url of an endpoint
  MaxAttempts,  \* max_attempts, 5 in process_pending_webhooks
  BatchLimit,   \* LIMIT of the batch, 100 there
  MaxFaults     \* bound on the faults of a behaviour

ASSUME BusinessAssumption == Events \cup Endpoints \subseteq DOMAIN Business
ASSUME LimitsAssumption ==
  /\ MaxAttempts \in Nat \ {0}
  /\ BatchLimit \in Nat \ {0}
  /\ MaxFaults \in Nat

VARIABLES
  endpoint,     \* endpoint[e]: whether e is registered
  task,         \* task[v]: where the enqueue task of event v is
  todo,         \* todo[v]: the endpoints the task has read and not yet inserted for
  row,          \* row[d]: the webhook_deliveries row of delivery d
  created,      \* deliveries in the order of created_at, also those gone since
  wpc,          \* the statement or call the worker is at
  batch,        \* the rest of the worker's batch: deliveries with the attempt read
  cur,          \* the delivery the worker is busy with
  posts,        \* posts[d]: POSTs sent for d
  acked,        \* deliveries a receiver answered with 2xx
  late,         \* late[e]: POSTs sent to e after it was deleted
  faults        \* faults so far

enqueue == <<task, todo>>
table == <<row, created>>
worker == <<wpc, batch, cur>>
history == <<posts, acked, late>>
vars == <<endpoint, enqueue, table, worker, history, faults>>

-----------------------------------------------------------------------------
(* Data *)

\* One delivery per event and endpoint of its business
Deliveries == Events \X Endpoints

Status == {"none", "pending", "delivered", "failed", "exhausted"}

\* "none" is a row not inserted yet or gone with its endpoint (ON DELETE CASCADE).
DeliveryRow == [status: Status, attempt: 1..MaxAttempts, due: BOOLEAN]

NoRow == [status |-> "none", attempt |-> 1, due |-> FALSE]

\* What the worker keeps of a row it read
Claim == [id: Deliveries, attempt: 1..MaxAttempts]

WorkerPc == {"sleep", "next", "post", "delivered", "retry", "exhaust"}

TypeOK ==
  /\ endpoint \in [Endpoints -> {"absent", "live", "deleted"}]
  /\ task \in [Events -> {"none", "spawned", "inserting", "ended"}]
  /\ todo \in [Events -> SUBSET Endpoints]
  /\ row \in [Deliveries -> DeliveryRow]
  /\ created \in Seq(Deliveries)
  /\ wpc \in WorkerPc
  /\ batch \in Seq(Claim)
  /\ IF wpc \in {"sleep", "next"} THEN cur = <<>> ELSE cur \in Claim
  /\ posts \in [Deliveries -> Nat]
  /\ acked \subseteq Deliveries
  /\ late \in [Endpoints -> Nat]
  /\ faults \in 0..MaxFaults

Init ==
  /\ endpoint = [e \in Endpoints |-> "absent"]
  /\ task = [v \in Events |-> "none"]
  /\ todo = [v \in Events |-> {}]
  /\ row = [d \in Deliveries |-> NoRow]
  /\ created = <<>>
  /\ wpc = "sleep"
  /\ batch = <<>>
  /\ cur = <<>>
  /\ posts = [d \in Deliveries |-> 0]
  /\ acked = {}
  /\ late = [e \in Endpoints |-> 0]
  /\ faults = 0

Live == {e \in Endpoints : endpoint[e] = "live"}

Fault ==
  /\ faults < MaxFaults
  /\ faults' = faults + 1

-----------------------------------------------------------------------------
(* The endpoint handlers *)

\* register_webhook: a url the business has registered keeps its row, id and secret
\* (ON CONFLICT DO UPDATE), so only a new url adds one.
Register(e) ==
  /\ endpoint[e] = "absent"
  /\ \A o \in Live : <<Business[o], Url[o]>> # <<Business[e], Url[e]>>
  /\ endpoint' = [endpoint EXCEPT ![e] = "live"]
  /\ UNCHANGED <<enqueue, table, worker, history, faults>>

\* delete_webhook: the rows of the endpoint's deliveries go with it.
Delete(e) ==
  /\ endpoint[e] = "live"
  /\ endpoint' = [endpoint EXCEPT ![e] = "deleted"]
  /\ row' = [d \in Deliveries |-> IF d[2] = e THEN NoRow ELSE row[d]]
  /\ UNCHANGED <<enqueue, created, worker, history, faults>>

-----------------------------------------------------------------------------
(* enqueue_webhook, in a task spawned after the commit of a payment *)

Spawn(v) ==
  /\ task[v] = "none"
  /\ task' = [task EXCEPT ![v] = "spawned"]
  /\ UNCHANGED <<endpoint, todo, table, worker, history, faults>>

ReadEndpoints(v) ==
  /\ task[v] = "spawned"
  /\ todo' = [todo EXCEPT ![v] = {e \in Live : Business[e] = Business[v]}]
  /\ task' = [task EXCEPT ![v] = IF todo'[v] = {} THEN "ended" ELSE "inserting"]
  /\ UNCHANGED <<endpoint, table, worker, history, faults>>

\* Mutant: no foreign key on endpoint_id.
InsertDeliveryUnchecked(v, e) ==
  /\ task[v] = "inserting"
  /\ e \in todo[v]
  /\ row' = [row EXCEPT ![<<v, e>>] = [status |-> "pending", attempt |-> 1, due |-> TRUE]]
  /\ created' = Append(created, <<v, e>>)
  /\ todo' = [todo EXCEPT ![v] = @ \ {e}]
  /\ task' = [task EXCEPT ![v] = IF todo'[v] = {} THEN "ended" ELSE @]
  /\ UNCHANGED <<endpoint, worker, history, faults>>

\* The rows are inserted one by one, in the order the database returned them.
InsertDelivery(v, e) ==
  /\ task[v] = "inserting"
  /\ e \in todo[v] \cap Live
  /\ row' = [row EXCEPT ![<<v, e>>] = [status |-> "pending", attempt |-> 1, due |-> TRUE]]
  /\ created' = Append(created, <<v, e>>)
  /\ todo' = [todo EXCEPT ![v] = @ \ {e}]
  /\ task' = [task EXCEPT ![v] = IF todo'[v] = {} THEN "ended" ELSE @]
  /\ UNCHANGED <<endpoint, worker, history, faults>>

\* Mutant: a refused row is tried again instead.
InsertRefusedRetrying(v, e) ==
  /\ task[v] = "inserting"
  /\ e \in todo[v] \ Live
  /\ UNCHANGED vars

\* The endpoint is gone: the foreign key refuses the row and the `?' ends the loop.
InsertRefused(v, e) ==
  /\ task[v] = "inserting"
  /\ e \in todo[v] \ Live
  /\ task' = [task EXCEPT ![v] = "ended"]
  /\ UNCHANGED <<endpoint, todo, table, worker, history, faults>>

\* A statement fails; the caller drops the error.
TaskFault(v) ==
  /\ task[v] \in {"spawned", "inserting"}
  /\ task' = [task EXCEPT ![v] = "ended"]
  /\ Fault
  /\ UNCHANGED <<endpoint, todo, table, worker, history>>

-----------------------------------------------------------------------------
(* process_pending_webhooks *)

WorkerGoto(at) == wpc' = at

\* The worker turns to the next delivery of its batch ...
NextInBatch == WorkerGoto("next") /\ cur' = <<>>

\* ... or gives the batch up, whose rest waits for a later tick.
DropBatch == WorkerGoto("sleep") /\ cur' = <<>> /\ batch' = <<>>

\* An UPDATE of the row of d, which may be gone by now
UpdateRow(d, new) ==
  row' = IF row[d].status = "none" THEN row ELSE [row EXCEPT ![d] = new]

\* WHERE status = 'pending' AND scheduled_at <= now.  The mutant forgets the status.
IsPendingWhenDue(d) == row[d].due
IsPending(d) == row[d].status = "pending" /\ row[d].due

Before(c, d) ==
  \E m, n \in DOMAIN created : m < n /\ created[m] = c /\ created[n] = d

\* Mutant: the limit is applied before the status is looked at.
OldestOfAll(pending) ==
  {ids \in UNION {[1..size -> pending] : size \in 0..BatchLimit} :
    /\ \A m, n \in DOMAIN ids : m < n => Before(ids[m], ids[n])
    /\ \A d \in pending :
         (\E n \in DOMAIN ids : ids[n] = d) <=>
           Cardinality({c \in Deliveries : row[c].status # "none" /\ Before(c, d)})
             < BatchLimit}

\* ORDER BY created_at LIMIT: pending deliveries in their order, and all of them
\* unless the limit leaves younger ones out.
Oldest(pending) ==
  {ids \in UNION {[1..size -> pending] : size \in 0..BatchLimit} :
    /\ \A m, n \in DOMAIN ids : m < n => Before(ids[m], ids[n])
    /\ \A d \in pending :
         \/ \E n \in DOMAIN ids : ids[n] = d
         \/ Len(ids) = BatchLimit /\ \A n \in DOMAIN ids : Before(ids[n], d)}

FetchBatch ==
  /\ wpc = "sleep"
  /\ \E ids \in Oldest({d \in Deliveries : IsPending(d)}) :
       batch' = [n \in DOMAIN ids |-> [id |-> ids[n], attempt |-> row[ids[n]].attempt]]
  /\ WorkerGoto("next")
  /\ UNCHANGED <<endpoint, enqueue, table, cur, history, faults>>

BatchDone ==
  /\ wpc = "next"
  /\ batch = <<>>
  /\ WorkerGoto("sleep")
  /\ UNCHANGED <<endpoint, enqueue, table, batch, cur, history, faults>>

\* Mutant: the endpoints were read together with the batch.
FetchEndpointFromBatch ==
  /\ wpc = "next"
  /\ batch # <<>>
  /\ cur' = Head(batch)
  /\ batch' = Tail(batch)
  /\ WorkerGoto("post")
  /\ UNCHANGED <<endpoint, enqueue, table, history, faults>>

\* The endpoint is read anew for each delivery.
FetchEndpoint ==
  /\ wpc = "next"
  /\ batch # <<>>
  /\ Head(batch).id[2] \in Live
  /\ cur' = Head(batch)
  /\ batch' = Tail(batch)
  /\ WorkerGoto("post")
  /\ UNCHANGED <<endpoint, enqueue, table, history, faults>>

\* It is gone, and with it the row that is now marked failed.
EndpointNotFound ==
  /\ wpc = "next"
  /\ batch # <<>>
  /\ Head(batch).id[2] \notin Live
  /\ LET d == Head(batch).id IN UpdateRow(d, [row[d] EXCEPT !.status = "failed"])
  /\ batch' = Tail(batch)
  /\ UNCHANGED <<endpoint, enqueue, created, wpc, cur, history, faults>>

\* Mutant: an answer that is not 2xx counts as a delivery.
PostTrusting(ack, ok) ==
  LET d == cur.id
  IN /\ wpc = "post"
     /\ posts' = [posts EXCEPT ![d] = @ + 1]
     /\ acked' = IF ack THEN acked \cup {d} ELSE acked
     /\ late' = IF endpoint[d[2]] = "deleted" THEN [late EXCEPT ![d[2]] = @ + 1] ELSE late
     /\ WorkerGoto(IF ok THEN "delivered" ELSE "retry")
     /\ UNCHANGED <<endpoint, enqueue, table, batch, cur, faults>>

\* deliver_webhook: the POST may be lost, refused or answered too late; ack says
\* that the receiver answered 2xx, ok that the worker learned of it.
Post(ack, ok) ==
  LET d == cur.id
  IN /\ wpc = "post"
     /\ ok => ack
     /\ posts' = [posts EXCEPT ![d] = @ + 1]
     /\ acked' = IF ack THEN acked \cup {d} ELSE acked
     /\ late' = IF endpoint[d[2]] = "deleted" THEN [late EXCEPT ![d[2]] = @ + 1] ELSE late
     /\ WorkerGoto(IF ok THEN "delivered" ELSE "retry")
     /\ UNCHANGED <<endpoint, enqueue, table, batch, cur, faults>>

MarkDelivered ==
  /\ wpc = "delivered"
  /\ UpdateRow(cur.id, [row[cur.id] EXCEPT !.status = "delivered"])
  /\ NextInBatch
  /\ UNCHANGED <<endpoint, enqueue, created, batch, history, faults>>

\* Mutant: the attempt is not counted.
RescheduleUncounted ==
  /\ wpc = "retry"
  /\ cur.attempt + 1 <= MaxAttempts
  /\ UpdateRow(cur.id, [row[cur.id] EXCEPT !.due = FALSE])
  /\ NextInBatch
  /\ UNCHANGED <<endpoint, enqueue, created, batch, history, faults>>

\* Mutant: one attempt too many.
RescheduleOneMore ==
  /\ wpc = "retry"
  /\ cur.attempt <= MaxAttempts
  /\ UpdateRow(cur.id, [row[cur.id] EXCEPT !.attempt = cur.attempt + 1, !.due = FALSE])
  /\ NextInBatch
  /\ UNCHANGED <<endpoint, enqueue, created, batch, history, faults>>

Reschedule ==
  /\ wpc = "retry"
  /\ cur.attempt + 1 <= MaxAttempts
  /\ UpdateRow(cur.id, [row[cur.id] EXCEPT !.attempt = cur.attempt + 1, !.due = FALSE])
  /\ NextInBatch
  /\ UNCHANGED <<endpoint, enqueue, created, batch, history, faults>>

\* Mutant: the last attempt is given up before it is made.
MarkFailedEarly ==
  /\ wpc = "retry"
  /\ cur.attempt + 1 >= MaxAttempts
  /\ UpdateRow(cur.id, [row[cur.id] EXCEPT !.status = "failed"])
  /\ WorkerGoto("exhaust")
  /\ UNCHANGED <<endpoint, enqueue, created, batch, cur, history, faults>>

\* The last attempt failed: the row is marked failed and, in a second statement,
\* exhausted.
MarkFailed ==
  /\ wpc = "retry"
  /\ cur.attempt + 1 > MaxAttempts
  /\ UpdateRow(cur.id, [row[cur.id] EXCEPT !.status = "failed"])
  /\ WorkerGoto("exhaust")
  /\ UNCHANGED <<endpoint, enqueue, created, batch, cur, history, faults>>

MarkExhausted ==
  /\ wpc = "exhaust"
  /\ UpdateRow(cur.id, [row[cur.id] EXCEPT !.status = "exhausted"])
  /\ NextInBatch
  /\ UNCHANGED <<endpoint, enqueue, created, batch, history, faults>>

\* A statement of the worker fails.
WorkerFault ==
  /\ \/ wpc = "next" /\ batch # <<>>
     \/ wpc \in {"delivered", "retry", "exhaust"}
  /\ DropBatch
  /\ Fault
  /\ UNCHANGED <<endpoint, enqueue, table, history>>

\* scheduled_at passes.
Elapse(d) ==
  /\ row[d].status = "pending"
  /\ ~row[d].due
  /\ row' = [row EXCEPT ![d].due = TRUE]
  /\ UNCHANGED <<endpoint, enqueue, created, worker, history, faults>>

-----------------------------------------------------------------------------

\* The process dies and is started again: tasks and the batch were in memory only.
Crash ==
  /\ task' = [v \in Events |->
       IF task[v] \in {"spawned", "inserting"} THEN "ended" ELSE task[v]]
  /\ DropBatch
  /\ Fault
  /\ UNCHANGED <<endpoint, todo, table, history>>

Task(v) ==
  \/ ReadEndpoints(v)
  \/ \E e \in Endpoints : InsertDelivery(v, e) \/ InsertRefused(v, e)

Worker ==
  \/ FetchBatch \/ BatchDone \/ FetchEndpoint \/ EndpointNotFound
  \/ \E ack, ok \in BOOLEAN : Post(ack, ok)
  \/ MarkDelivered \/ Reschedule \/ MarkFailed \/ MarkExhausted

Next ==
  \/ \E e \in Endpoints : Register(e) \/ Delete(e)
  \/ \E v \in Events : Spawn(v) \/ Task(v) \/ TaskFault(v)
  \/ Worker \/ WorkerFault \/ Crash
  \/ \E d \in Deliveries : Elapse(d)

Spec == Init /\ [][Next]_vars

\* Fairness: the interval ticks for ever and the worker's statements and its POSTs
\* (10 s timeout) come back; tasks are polled until they end; time passes.  Nothing
\* is assumed of receivers: every POST may fail.
Fairness ==
  /\ WF_vars(Worker)
  /\ \A v \in Events : WF_vars(Task(v))
  /\ \A d \in Deliveries : WF_vars(Elapse(d))

FairSpec == Spec /\ Fairness

-----------------------------------------------------------------------------
(* Properties *)

\* Retries are bounded (DESIGN.md section 12): a delivery is posted at most
\* MaxAttempts times, and once more for each fault that hit between a POST and the
\* UPDATE that counts it.
PostsBounded == \A d \in Deliveries : posts[d] <= MaxAttempts + faults

\* A final status is earned: delivered, by a receiver that answered 2xx; given up,
\* only after all the attempts were made.
FinalIsEarned ==
  \A d \in Deliveries :
    /\ row[d].status = "delivered" => d \in acked
    /\ row[d].status \in {"failed", "exhausted"} => posts[d] >= MaxAttempts

\* A deletion takes effect at the worker at once, but for the one POST it was about
\* to send, whatever the batch held.
LateAtMostOnce == \A e \in Endpoints : late[e] <= 1

\* No delivery outlives its endpoint, although a task inserts for the endpoints it
\* read earlier: the worker's branch for a missing endpoint only meets stale batches.
NoOrphans == \A d \in Deliveries : row[d].status # "none" => d[2] \in Live

\* A delivery that reached a final status is not posted again, nor does it leave it,
\* but for failed, which becomes exhausted.
FinalIsFinal ==
  [][\A d \in Deliveries : row[d].status \in {"delivered", "failed", "exhausted"} =>
       /\ posts'[d] = posts[d]
       /\ \/ row'[d] \in {row[d], NoRow}
          \/ row[d].status = "failed" /\ row'[d] = [row[d] EXCEPT !.status = "exhausted"]]_vars

\* Every delivery ends: no receiver that fails every POST, no fault that drops the rest of
\* a batch, and no older deliveries that fill the batch keep one pending for ever.
EveryDeliveryEnds ==
  \A d \in Deliveries : row[d].status = "pending" ~> row[d].status # "pending"

\* Tasks, worker and handlers implement the promise of WebhookPromise, in which a
\* delivery is one record and a failed or exhausted row was given up.  The row being
\* gone, the one late POST to a deleted endpoint is no try.
Gone(d) == endpoint[d[2]] = "deleted"

Promise == INSTANCE WebhookPromise WITH
  EndpointOf <- [d \in Deliveries |-> d[2]],
  status <- [d \in Deliveries |->
    IF Gone(d) THEN "removed"
    ELSE IF row[d].status \in {"failed", "exhausted"} THEN "given_up"
    ELSE row[d].status],
  tries <- [d \in Deliveries |-> IF Gone(d) THEN 0 ELSE posts[d]],
  accepted <- {d \in acked : ~Gone(d)}

DeliverySpec == Promise!Spec

-----------------------------------------------------------------------------
(* The inductive invariant behind the safety properties, part by part *)

Created == {created[n] : n \in DOMAIN created}

\* A delivery is inserted once: what a task still has to insert was never there, and
\* what was there has a row until its endpoint is deleted.
QueueInv ==
  /\ \A m, n \in DOMAIN created : created[m] = created[n] => m = n
  /\ \A d \in Deliveries :
       /\ task[d[1]] \in {"none", "spawned"} => d \notin Created
       /\ task[d[1]] = "inserting" /\ d[2] \in todo[d[1]] => d \notin Created
       /\ row[d].status # "none" <=> d \in Created /\ ~Gone(d)
       /\ d \in Created => endpoint[d[2]] # "absent"
  /\ \A v \in Events : \A e \in todo[v] : endpoint[e] # "absent"

\* What the worker read of a row still holds, unless the row is gone.
Fresh(claim) ==
  /\ claim.id \in Created
  /\ \/ row[claim.id].status = "none"
     \/ row[claim.id] = [status |-> "pending", attempt |-> claim.attempt, due |-> TRUE]

\* The worker has a delivery in hand once, and nobody else writes its row.
ClaimsInv ==
  /\ wpc = "sleep" => batch = <<>>
  /\ \A m, n \in DOMAIN batch : batch[m].id = batch[n].id => m = n
  /\ \A n \in DOMAIN batch :
       /\ Fresh(batch[n])
       /\ wpc \notin {"sleep", "next"} => batch[n].id # cur.id
  /\ wpc \in {"post", "delivered", "retry"} => Fresh(cur)
  /\ wpc = "exhaust" => cur.id \in Created /\ row[cur.id].status \in {"none", "failed"}

\* A count of POSTs fits an attempt if only faults kept POSTs from being counted.
Fits(d, made) == made <= posts[d] /\ posts[d] <= made + faults

CountsInv ==
  /\ \A d \in Deliveries :
       row[d].status = "pending" /\ ~(wpc \in {"delivered", "retry"} /\ cur.id = d)
         => Fits(d, row[d].attempt - 1)
  /\ \A d \in Deliveries \ Created : posts[d] = 0
  /\ \A n \in DOMAIN batch : Fits(batch[n].id, batch[n].attempt - 1)
  /\ wpc = "post" => Fits(cur.id, cur.attempt - 1)
  /\ wpc \in {"delivered", "retry"} => Fits(cur.id, cur.attempt)
  /\ wpc = "delivered" => cur.id \in acked
  /\ wpc = "exhaust" => posts[cur.id] >= MaxAttempts

LateInv ==
  \A e \in Endpoints :
    endpoint[e] # "deleted" \/ (wpc = "post" /\ cur.id[2] = e) => late[e] = 0

IInv ==
  /\ TypeOK /\ QueueInv /\ NoOrphans /\ ClaimsInv
  /\ CountsInv /\ PostsBounded /\ FinalIsEarned /\ LateInv /\ LateAtMostOnce

-----------------------------------------------------------------------------
(* What the documents say and enqueue_webhook does not do *)

\* Without faults, an ended task has persisted its event for every endpoint it read
\* that is still registered (README.md, Webhooks: "Persisted webhook events",
\* "Per-endpoint management").
RegisteredAreNotified ==
  \A v \in Events : task[v] = "ended" /\ faults = 0 => todo[v] \cap Live = {}

=============================================================================
