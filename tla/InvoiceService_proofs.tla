------------------------ MODULE InvoiceService_proofs ------------------------
(***************************************************************************)
(* Proofs about module InvoiceService, for any sets of requests, invoices  *)
(* and endpoints and any sizes of the pool.                                *)
(*                                                                         *)
(* A step of the process is a step of the payments and a step of the       *)
(* webhooks, or none of theirs, so what is proved of the two modules holds *)
(* of the process.  Their theorems are cited from PP and PW.  What ties    *)
(* the two together (TieInv, OwedInv) is proved here.                      *)
(***************************************************************************)
EXTENDS InvoiceService, Sequences, FiniteSetTheorems, TLAPS

PP == INSTANCE Payments_proofs
PW == INSTANCE Webhooks_proofs WITH Events <- Requests

-----------------------------------------------------------------------------
(* PP and PW repeat the definitions of P and W, name by name. *)

LEMMA SameTyping == PP!TypeOK <=> P!TypeOK
BY DEF
    P!InvoiceState, PP!InvoiceState, P!ErrorCodes, PP!ErrorCodes, P!InvoiceRow,
    PP!InvoiceRow, P!Outcome, PP!Outcome, P!AttemptRow, PP!AttemptRow, P!Args,
    PP!Args, P!Results, PP!Results, P!Response, PP!Response, P!Locked, PP!Locked,
    P!PcValue, PP!PcValue, P!TypeOK, PP!TypeOK

LEMMA SamePayments == P!Spec <=> PP!Spec
<1>1. P!Init <=> PP!Init
  BY DEF
    P!Pending, PP!Pending, P!NoInvoice, PP!NoInvoice, P!Init, PP!Init
<1>2. [P!Next]_P!vars <=> [PP!Next]_PP!vars
  BY DEF
    P!InvoiceState, PP!InvoiceState, P!TransitionError, PP!TransitionError, P!Apply,
    PP!Apply, P!AllowedTransitions, PP!AllowedTransitions, P!TransitionTo,
    PP!TransitionTo, P!ValidateTransition, PP!ValidateTransition, P!CanPay,
    PP!CanPay, P!PaymentResultTransition, PP!PaymentResultTransition, P!Declined,
    PP!Declined, P!Approved, PP!Approved, P!MockAnswer, PP!MockAnswer,
    P!MockDelayMs, PP!MockDelayMs, P!ClientTimeoutMs, PP!ClientTimeoutMs,
    P!TimesOut, PP!TimesOut, P!ClientResult, PP!ClientResult, P!database,
    PP!database, P!locals, PP!locals, P!provider, PP!provider, P!vars, PP!vars,
    P!Pending, PP!Pending, P!Args, PP!Args, P!Row, PP!Row, P!Stored, PP!Stored,
    P!Found, PP!Found, P!Admission, PP!Admission, P!VersionedUpdate,
    PP!VersionedUpdate, P!Goto, PP!Goto, P!Return, PP!Return, P!CreateInvoice,
    PP!CreateInvoice, P!Arrive, PP!Arrive, P!RejectMissingKey, PP!RejectMissingKey,
    P!ReplayStored, PP!ReplayStored, P!LookupMiss, PP!LookupMiss, P!LockNotFound,
    PP!LockNotFound, P!LockRejected, PP!LockRejected, P!LockGranted, PP!LockGranted,
    P!UpdateOpened, PP!UpdateOpened, P!InsertConflict, PP!InsertConflict,
    P!InsertAttempt, PP!InsertAttempt, P!CallPsp, PP!CallPsp, P!PspHandle,
    PP!PspHandle, P!Settled, PP!Settled, P!PspResult, PP!PspResult, P!PspAnswer,
    PP!PspAnswer, P!PspFailure, PP!PspFailure, P!SettleFailed, PP!SettleFailed,
    P!SettlePaid, PP!SettlePaid, P!SettleRefused, PP!SettleRefused, P!Publish,
    PP!Publish, P!Commit, PP!Commit, P!CommitUnacknowledged,
    PP!CommitUnacknowledged, P!DatabaseError, PP!DatabaseError, P!Running,
    PP!Running, P!Drop, PP!Drop, P!Crash, PP!Crash, P!Lookup, PP!Lookup, P!Lock,
    PP!Lock, P!Insert, PP!Insert, P!PspReturns, PP!PspReturns, P!Settle, PP!Settle,
    P!AllDone, PP!AllDone, P!Next, PP!Next
<1> QED
  BY <1>1, <1>2, PTL DEF P!Spec, PP!Spec

LEMMA SameWebhooks == W!Spec <=> PW!Spec
<1>1. W!Init <=> PW!Init
  BY DEF
    W!Deliveries, PW!Deliveries, W!NoRow, PW!NoRow, W!Init, PW!Init
<1>2. [W!Next]_W!vars <=> [PW!Next]_PW!vars
  BY DEF
    W!enqueue, PW!enqueue, W!table, PW!table, W!worker, PW!worker, W!history,
    PW!history, W!vars, PW!vars, W!Deliveries, PW!Deliveries, W!NoRow, PW!NoRow,
    W!Live, PW!Live, W!Fault, PW!Fault, W!Register, PW!Register, W!Delete,
    PW!Delete, W!Spawn, PW!Spawn, W!ReadEndpoints, PW!ReadEndpoints,
    W!InsertDelivery, PW!InsertDelivery, W!InsertRefused, PW!InsertRefused,
    W!TaskFault, PW!TaskFault, W!WorkerGoto, PW!WorkerGoto, W!NextInBatch,
    PW!NextInBatch, W!DropBatch, PW!DropBatch, W!UpdateRow, PW!UpdateRow,
    W!IsPending, PW!IsPending, W!Before, PW!Before, W!Oldest, PW!Oldest,
    W!FetchBatch, PW!FetchBatch, W!BatchDone, PW!BatchDone, W!FetchEndpoint,
    PW!FetchEndpoint, W!EndpointNotFound, PW!EndpointNotFound, W!Post, PW!Post,
    W!MarkDelivered, PW!MarkDelivered, W!Reschedule, PW!Reschedule, W!MarkFailed,
    PW!MarkFailed, W!MarkExhausted, PW!MarkExhausted, W!WorkerFault, PW!WorkerFault,
    W!Elapse, PW!Elapse, W!Crash, PW!Crash, W!Task, PW!Task, W!Worker, PW!Worker,
    W!Next, PW!Next
<1> QED
  BY <1>1, <1>2, PTL DEF W!Spec, PW!Spec

-----------------------------------------------------------------------------
(* The process implements both of its parts *)

\* What a handler does in one step
Steps(r) ==
  \/ P!Lookup(r) \/ P!Lock(r) \/ P!UpdateOpened(r) \/ P!Insert(r) \/ P!CallPsp(r)
  \/ P!PspReturns(r) \/ P!Settle(r) \/ P!Commit(r)
  \/ P!CommitUnacknowledged(r, "Internal") \/ P!CommitUnacknowledged(r, "gone")
  \/ P!DatabaseError(r) \/ P!Drop(r)

\* What a handler does without its transaction's connection, which ends it or takes it
\* to its transaction
Outside(r) ==
  \/ P!Lookup(r)
  \/ P!CommitUnacknowledged(r, "Internal") \/ P!CommitUnacknowledged(r, "gone")
  \/ P!DatabaseError(r) \/ P!Drop(r)

\* A step of a handler, by the connection it needs
Handles(r) == HandlerStep(r, Steps(r)) /\ (r \in conn \/ Outside(r))

\* What webhooks do without a handler
WebhookSteps ==
  \/ \E e \in Endpoints : W!Register(e) \/ W!Delete(e)
  \/ \E v \in Requests : W!Task(v) \/ W!TaskFault(v)
  \/ W!Worker \/ W!WorkerFault
  \/ \E d \in W!Deliveries : W!Elapse(d)

\* A step of the process is one of these.
LEMMA StepCases ==
  ASSUME [Next]_vars
  PROVE  \/ \E i \in Invoices : CreateInvoice(i)
         \/ \E r \in Requests, a \in P!Args : Arrive(r, a)
         \/ \E r \in Requests : Handles(r) \/ Begin(r) \/ PspHandle(r)
         \/ WebhookSteps /\ UNCHANGED <<payments, pool, owed>>
         \/ Crash
         \/ UNCHANGED vars
<1>1. ASSUME NEW r \in Requests, Lookup(r) \/ Lock(r) \/ InTransaction(r) \/ Failure(r)
      PROVE  Handles(r)
  BY <1>1 DEF Lookup, Lock, InTransaction, Failure, CanExecute, HandlerStep, Steps,
     Outside, Handles
<1>2. ASSUME \/ \E v \in Requests : Task(v)
             \/ \E e \in Endpoints : Endpoint(e)
             \/ WorkerStatement \/ WorkerAlone \/ WebhookFault
             \/ \E d \in W!Deliveries : Elapse(d)
      PROVE  WebhookSteps /\ UNCHANGED <<payments, pool, owed>>
  BY <1>2 DEF Task, Endpoint, WorkerStatement, WorkerAlone, WebhookFault, Elapse,
     OnPool, OffPool, WebhookSteps, W!Worker
<1> QED
  BY <1>1, <1>2 DEF Next

\* Every step is a step of the payments, or leaves them alone ...
THEOREM PaymentsImplemented == Spec => P!Spec
<1>1. Init => P!Init
  BY DEF Init
<1>2. [Next]_vars => [P!Next]_P!vars
  <2> SUFFICES ASSUME [Next]_vars PROVE [P!Next]_P!vars
    OBVIOUS
  <2>1. ASSUME NEW r \in Requests, Handles(r)
        PROVE  P!Next
    BY <2>1 DEF Handles, HandlerStep, Steps, P!Next
  <2>2. ASSUME UNCHANGED payments
        PROVE  UNCHANGED P!vars
    BY <2>2 DEF payments, P!vars, P!database, P!locals, P!provider
  <2> QED
    BY <2>1, <2>2, StepCases
    DEF CreateInvoice, Arrive, Begin, PspHandle, Crash, P!Next, vars
<1> QED
  BY <1>1, <1>2, PTL DEF Spec, P!Spec

\* ... and a step of the webhooks, or leaves them alone.
THEOREM WebhooksImplemented == Spec => W!Spec
<1>1. Init => W!Init
  BY DEF Init
<1>2. [Next]_vars => [W!Next]_W!vars
  <2> SUFFICES ASSUME [Next]_vars PROVE [W!Next]_W!vars
    OBVIOUS
  <2>1. ASSUME NEW r \in Requests, Handles(r)
        PROVE  W!Next \/ UNCHANGED webhooks
    BY <2>1 DEF Handles, HandlerStep, W!Next
  <2>2. ASSUME UNCHANGED webhooks
        PROVE  UNCHANGED W!vars
    BY <2>2 DEF webhooks, W!vars, W!enqueue, W!table, W!worker, W!history
  <2>3. WebhookSteps => W!Next
    BY DEF WebhookSteps, W!Next
  <2> QED
    BY <2>1, <2>2, <2>3, StepCases
    DEF CreateInvoice, Arrive, Begin, PspHandle, Crash, W!Next, vars
<1> QED
  BY <1>1, <1>2, PTL DEF Spec, W!Spec

-----------------------------------------------------------------------------
(* What the parts promise, the process keeps *)

LEMMA SameLedger == P!LedgerSpec <=> PP!LedgerSpec
<1>1. P!Ledger!Init <=> PP!Ledger!Init
  BY DEF P!Ledger!Init, PP!Ledger!Init
<1>2. [P!Ledger!Next]_P!Ledger!vars <=> [PP!Ledger!Next]_PP!Ledger!vars
  BY DEF P!Ledger!Next, PP!Ledger!Next, P!Ledger!vars, PP!Ledger!vars,
     P!Ledger!Create, PP!Ledger!Create, P!Ledger!Open, PP!Ledger!Open,
     P!Ledger!Settle, PP!Ledger!Settle, P!Ledger!Fail, PP!Ledger!Fail,
     P!Ledger!Record, PP!Ledger!Record, P!Ledger!LogEntry, PP!Ledger!LogEntry
<1> QED
  BY <1>1, <1>2, PTL DEF P!LedgerSpec, PP!LedgerSpec, P!Ledger!Spec, PP!Ledger!Spec

\* The committed tables of the process are those of the abstract ledger, whatever the
\* webhooks do and whenever the process dies.
THEOREM LedgerKept == Spec => P!LedgerSpec
<1>1. PP!Spec => PP!LedgerSpec
  BY PP!Implementation, OwnerAssumption, TokensAssumption, NoneAssumption
  DEF P!CardTokens, PP!CardTokens, P!InvoiceState, PP!InvoiceState, P!ErrorCodes, PP!ErrorCodes, P!InvoiceRow,
    PP!InvoiceRow, P!Outcome, PP!Outcome, P!AttemptRow, PP!AttemptRow, P!Results,
    PP!Results, P!Response, PP!Response
<1> QED
  BY <1>1, PaymentsImplemented, SamePayments, SameLedger

LEMMA SamePromise == W!DeliverySpec <=> PW!DeliverySpec
<1> USE DEF W!Promise!vars, PW!Promise!vars, W!Deliveries, PW!Deliveries, W!Gone, PW!Gone
<1>1. W!Promise!Init <=> PW!Promise!Init
  BY DEF W!Promise!Init, PW!Promise!Init
<1>2. [W!Promise!Next]_W!Promise!vars <=> [PW!Promise!Next]_PW!Promise!vars
  BY DEF W!Promise!Next, PW!Promise!Next, W!Promise!Announce, PW!Promise!Announce,
     W!Promise!Try, PW!Promise!Try, W!Promise!Deliver, PW!Promise!Deliver,
     W!Promise!GiveUp, PW!Promise!GiveUp, W!Promise!Remove, PW!Promise!Remove
<1> QED
  BY <1>1, <1>2, PTL DEF W!DeliverySpec, PW!DeliverySpec, W!Promise!Spec, PW!Promise!Spec

\* Deliveries keep the promise made to the owner of an endpoint, whatever the handlers do
\* with the connections that the tasks and the worker need.
THEOREM PromiseKept == Spec => W!DeliverySpec
<1>1. PW!Spec => PW!DeliverySpec
  BY PW!PromiseKept, BusinessAssumption, LimitsAssumption
<1> QED
  BY <1>1, WebhooksImplemented, SameWebhooks, SamePromise

\* The payments stay safe in the process: whatever the webhooks do, and whenever it dies,
\* an invoice is settled once and agrees with its attempts, the answers and the PSP.
THEOREM PaymentsStaySafe ==
  Spec => [](/\ P!SettledOnce /\ P!PaidIffSettled /\ P!OneAttemptPerKey
             /\ P!FreshSnapshot /\ P!ReplaysAgree /\ P!LedgerMatchesPsp
             /\ P!RefusedMeansUncharged)
<1> DEFINE PSafe == /\ P!SettledOnce /\ P!PaidIffSettled /\ P!OneAttemptPerKey
                    /\ P!FreshSnapshot /\ P!ReplaysAgree /\ P!LedgerMatchesPsp
                    /\ P!RefusedMeansUncharged
           PPSafe == /\ PP!SettledOnce /\ PP!PaidIffSettled /\ PP!OneAttemptPerKey
                     /\ PP!FreshSnapshot /\ PP!ReplaysAgree /\ PP!LedgerMatchesPsp
                     /\ PP!RefusedMeansUncharged
<1>1. PSafe <=> PPSafe
  BY DEF P!SettledOnce, PP!SettledOnce, P!PaidIffSettled, PP!PaidIffSettled,
     P!OneAttemptPerKey, PP!OneAttemptPerKey, P!FreshSnapshot, PP!FreshSnapshot,
     P!ReplaysAgree, PP!ReplaysAgree, P!LedgerMatchesPsp, PP!LedgerMatchesPsp,
     P!RefusedMeansUncharged, PP!RefusedMeansUncharged, P!Succeeded, PP!Succeeded,
     P!Locked, PP!Locked
<1>2. PP!Spec => []PPSafe
  <2>1. /\ PP!Spec => []PP!SettledOnce
        /\ PP!Spec => []PP!PaidIffSettled
        /\ PP!Spec => []PP!OneAttemptPerKey
        /\ PP!Spec => []PP!FreshSnapshot
        /\ PP!Spec => []PP!ReplaysAgree
        /\ PP!Spec => []PP!LedgerMatchesPsp
        /\ PP!Spec => []PP!RefusedMeansUncharged
    BY PP!PaidOnce, PP!PaidByAttempt, PP!KeysAreUnique, PP!SnapshotsAreFresh,
       PP!Idempotence, PP!Reconciled, PP!EarlyRefusals, OwnerAssumption,
       TokensAssumption, NoneAssumption
    DEF P!InvoiceState, PP!InvoiceState, P!CardTokens, PP!CardTokens, P!ErrorCodes,
    PP!ErrorCodes, P!InvoiceRow, PP!InvoiceRow, P!Outcome, PP!Outcome, P!AttemptRow,
    PP!AttemptRow, P!Results, PP!Results, P!Response, PP!Response
  <2> QED BY <2>1, PTL
<1> QED
  BY <1>1, <1>2, PaymentsImplemented, SamePayments, PTL

\* The webhooks stay safe in the process, too: POSTs are bounded, final statuses earned,
\* and nothing outlives its endpoint.
THEOREM WebhooksStaySafe ==
  Spec => [](W!PostsBounded /\ W!FinalIsEarned /\ W!LateAtMostOnce /\ W!NoOrphans)
<1>1. PW!PostsBounded /\ PW!FinalIsEarned /\ PW!LateAtMostOnce /\ PW!NoOrphans
      <=> W!PostsBounded /\ W!FinalIsEarned /\ W!LateAtMostOnce /\ W!NoOrphans
  BY DEF W!PostsBounded, PW!PostsBounded, W!FinalIsEarned, PW!FinalIsEarned,
     W!LateAtMostOnce, PW!LateAtMostOnce, W!NoOrphans, PW!NoOrphans, W!Deliveries,
     PW!Deliveries, W!Live, PW!Live
<1>2. /\ PW!Spec => []PW!PostsBounded
      /\ PW!Spec => []PW!FinalIsEarned
      /\ PW!Spec => []PW!LateAtMostOnce
      /\ PW!Spec => []PW!NoOrphans
  BY PW!BoundedRetries, PW!EarnedEnds, PW!OneLatePost, PW!NoDeliveryOutlives,
     BusinessAssumption, LimitsAssumption
<1> QED
  BY <1>1, <1>2, WebhooksImplemented, SameWebhooks, PTL

-----------------------------------------------------------------------------
(* What handlers and tasks do to each other's state *)

\* A step of a handler takes it on or ends it; what it announces, it announces as it
\* ends, and so it does with what it stored if it answers 200.
Effect(r) ==
  /\ pc[r] \notin {"idle", "done"}
  /\ \A s \in Requests \ {r} : pc'[s] = pc[s] /\ resp'[s] = resp[s]
  /\ pc'[r] \in {"lock", "done"} \cup P!Locked
  /\ \/ spawned' = spawned
     \/ spawned' = spawned \cup {r} /\ pc'[r] = "done"
  /\ attempts' # attempts =>
       /\ pc'[r] = "done"
       /\ resp'[r].result = "ok" => spawned' = spawned \cup {r}

LEMMA HandlerEffect ==
  ASSUME P!TypeOK, NEW r \in Requests, Steps(r)
  PROVE  Effect(r)
<1> USE DEF P!database, P!locals, P!provider
<1>1. ASSUME NEW result, NEW attempt, P!Return(r, result, attempt),
             pc[r] \notin {"idle", "done"}
      PROVE  /\ \A s \in Requests \ {r} : pc'[s] = pc[s] /\ resp'[s] = resp[s]
             /\ pc'[r] = "done"
             /\ resp'[r].result = result
  BY <1>1 DEF P!Return, P!Goto, P!TypeOK
<1>2. ASSUME NEW result, NEW attempt, P!Return(r, result, attempt),
             pc[r] \notin {"idle", "done"}, UNCHANGED <<attempts, spawned>>
      PROVE  Effect(r)
  BY <1>1, <1>2 DEF Effect
<1>3. ASSUME NEW at \in {"lock"} \cup P!Locked, P!Goto(r, at),
             pc[r] \notin {"idle", "done"}, UNCHANGED <<attempts, resp, spawned>>
      PROVE  Effect(r)
  <2>1. pc' = [pc EXCEPT ![r] = at] /\ pc'[r] = at
    BY <1>3 DEF P!Goto, P!TypeOK
  <2> QED
    BY <1>3, <2>1 DEF Effect, P!TypeOK
<1>4. CASE P!Lookup(r)
  BY <1>2, <1>3, <1>4 DEF P!Lookup, P!RejectMissingKey, P!ReplayStored, P!LookupMiss
<1>5. CASE P!Lock(r)
  BY <1>2, <1>3, <1>5 DEF P!Lock, P!LockNotFound, P!LockRejected, P!LockGranted, P!Locked
<1>6. CASE P!UpdateOpened(r) \/ P!Insert(r) \/ P!CallPsp(r)
  BY <1>2, <1>3, <1>6 DEF P!UpdateOpened, P!Insert, P!InsertConflict, P!InsertAttempt,
     P!CallPsp, P!Locked
<1>7. CASE P!PspReturns(r) \/ P!Settle(r)
  BY <1>2, <1>3, <1>7 DEF P!PspReturns, P!PspAnswer, P!PspFailure, P!PspResult, P!Settle,
     P!SettleFailed, P!SettlePaid, P!SettleRefused, P!Locked
<1>8. CASE P!Commit(r)
  BY <1>1, <1>8 DEF Effect, P!Commit, P!Publish
<1>9. CASE P!CommitUnacknowledged(r, "Internal") \/ P!CommitUnacknowledged(r, "gone")
  BY <1>1, <1>9 DEF Effect, P!CommitUnacknowledged, P!Publish
<1>10. CASE P!DatabaseError(r) \/ P!Drop(r)
  BY <1>2, <1>10 DEF P!DatabaseError, P!Drop, P!Running
<1> QED
  BY <1>4, <1>5, <1>6, <1>7, <1>8, <1>9, <1>10 DEF Steps

\* A handler is not in its transaction after a step that needs no connection of its own.
LEMMA OutsideEffect ==
  ASSUME P!TypeOK, NEW r \in Requests, Outside(r)
  PROVE  pc'[r] \notin P!Locked
<1>1. ASSUME NEW result, NEW attempt, P!Return(r, result, attempt)
      PROVE  pc'[r] = "done"
  BY <1>1 DEF P!Return, P!Goto, P!TypeOK
<1>2. CASE P!LookupMiss(r)
  BY <1>2 DEF P!LookupMiss, P!Goto, P!TypeOK, P!Locked
<1> QED
  BY <1>1, <1>2 DEF Outside, P!Lookup, P!RejectMissingKey, P!ReplayStored,
     P!CommitUnacknowledged, P!DatabaseError, P!Drop, P!Locked

\* The webhooks alone create no task, and register no endpoint anew.
LEMMA WebhookEffect ==
  ASSUME W!TypeOK, WebhookSteps
  PROVE  /\ \A v \in Requests : task[v] = "none" <=> task'[v] = "none"
         /\ \A e \in Endpoints :
              /\ endpoint[e] # "absent" => endpoint'[e] # "absent"
              /\ endpoint[e] = "deleted" => endpoint'[e] = "deleted"
         /\ faults \in Nat /\ faults' \in Nat /\ faults <= faults'
<1> USE LimitsAssumption DEF W!TypeOK
<1>1. CASE \E e \in Endpoints : W!Register(e) \/ W!Delete(e)
  BY <1>1 DEF W!Register, W!Delete, W!enqueue
<1>2. ASSUME NEW v \in Requests, W!Task(v) \/ W!TaskFault(v)
      PROVE  /\ task[v] # "none"
             /\ \E at : at # "none" /\ task' = [task EXCEPT ![v] = at]
             /\ UNCHANGED endpoint
             /\ faults' = faults \/ faults' = faults + 1
  BY <1>2 DEF W!Task, W!ReadEndpoints, W!InsertDelivery, W!InsertRefused, W!TaskFault,
     W!Fault
<1>3. CASE W!Worker \/ W!WorkerFault \/ \E d \in W!Deliveries : W!Elapse(d)
  BY <1>3 DEF W!Worker, W!FetchBatch, W!BatchDone, W!FetchEndpoint, W!EndpointNotFound,
     W!Post, W!MarkDelivered, W!Reschedule, W!MarkFailed, W!MarkExhausted,
     W!WorkerFault, W!Fault, W!Elapse, W!enqueue
<1> QED
  BY <1>1, <1>2, <1>3 DEF WebhookSteps

-----------------------------------------------------------------------------
(* The parts' invariants, and the pool *)

\* Both parts keep their types and what else is used of them below.
Parts ==
  /\ P!TypeOK /\ W!TypeOK
  /\ P!LockInv
  /\ P!AnnouncedIsDurable
  /\ \A d \in W!Deliveries : posts[d] > 0 => task[d[1]] # "none"

LEMMA PartsHold == Spec => []Parts
<1>1. PP!Spec => [](PP!TypeOK /\ PP!LockInv /\ PP!AnnouncedIsDurable)
  <2>1. PP!Spec => []PP!IInv /\ []PP!AnnouncedIsDurable
    BY PP!Invariance, PP!Announcements, OwnerAssumption, TokensAssumption, NoneAssumption
    DEF P!InvoiceState, PP!InvoiceState, P!CardTokens, PP!CardTokens, P!ErrorCodes,
    PP!ErrorCodes, P!InvoiceRow, PP!InvoiceRow, P!Outcome, PP!Outcome, P!AttemptRow,
    PP!AttemptRow, P!Results, PP!Results, P!Response, PP!Response
  <2>2. PP!IInv => PP!TypeOK /\ PP!LockInv
    BY DEF PP!IInv
  <2> QED
    BY <2>1, <2>2, PTL
<1>2. /\ PP!AnnouncedIsDurable <=> P!AnnouncedIsDurable
      /\ PP!LockInv <=> P!LockInv
  BY DEF PP!AnnouncedIsDurable, P!AnnouncedIsDurable, PP!LockInv, P!LockInv, PP!Locked,
     P!Locked
<1>3. PW!Spec => []PW!IInv
  BY PW!Invariance, BusinessAssumption, LimitsAssumption
<1>4. PW!IInv => W!TypeOK
  BY DEF PW!IInv,
    W!Deliveries, PW!Deliveries, W!Status, PW!Status, W!DeliveryRow, PW!DeliveryRow,
    W!Claim, PW!Claim, W!WorkerPc, PW!WorkerPc, W!TypeOK, PW!TypeOK
<1>5. PW!IInv => \A d \in W!Deliveries : posts[d] > 0 => task[d[1]] # "none"
  <2> SUFFICES ASSUME PW!IInv, NEW d \in W!Deliveries, posts[d] > 0
               PROVE  task[d[1]] # "none"
    OBVIOUS
  <2>1. d \in PW!Deliveries
    BY DEF W!Deliveries, PW!Deliveries
  <2>2. posts[d] # 0
    OBVIOUS
  <2>3. d \in PW!Created
    BY <2>1, <2>2 DEF PW!IInv, PW!CountsInv
  <2> QED
    BY <2>1, <2>3 DEF PW!IInv, PW!QueueInv
<1> QED
  BY <1>1, <1>2, <1>3, <1>4, <1>5, SameTyping, SamePayments, SameWebhooks,
     PaymentsImplemented, WebhooksImplemented, PTL
  DEF Parts

\* The pool is not overdrawn: a handler takes one connection, in its transaction, and
\* gives it back when it ends.
THEOREM PoolInvariant == Spec => []PoolInv
<1>1. Init => PoolInv
  BY FS_EmptySet, PoolAssumption DEF Init, PoolInv, P!Init, P!Locked
<1>2. Parts /\ PoolInv /\ [Next]_vars => PoolInv'
  <2> SUFFICES ASSUME Parts, PoolInv, [Next]_vars
               PROVE  PoolInv'
    OBVIOUS
  <2> USE DEF PoolInv, pool
  <2>0. size \in Nat /\ Cardinality(conn) \in Nat
    BY FS_CardinalityType, PoolAssumption
  <2>1. ASSUME NEW r \in Requests, Handles(r)
        PROVE  PoolInv'
    <3>1. Effect(r) /\ conn' = {s \in conn : pc'[s] # "done"} /\ size' = size
      BY <2>1, HandlerEffect DEF Parts, Handles, HandlerStep, Release
    <3>2. IsFiniteSet(conn') /\ Cardinality(conn') <= Cardinality(conn)
      BY <3>1, FS_Subset
    <3>3. IsFiniteSet(conn') /\ Cardinality(conn') <= size
      BY <2>0, <3>2, FS_CardinalityType
    <3>4. pc'[r] \in P!Locked => r \in conn
      BY <2>1, OutsideEffect DEF Parts, Handles
    <3> QED
      BY <3>1, <3>3, <3>4 DEF Effect, P!Locked
  <2>2. ASSUME NEW r \in Requests, Begin(r)
        PROVE  PoolInv'
    <3>1. IsFiniteSet(conn') /\ Cardinality(conn') = Cardinality(conn) + 1
      BY <2>2, FS_AddElement DEF Begin
    <3> QED
      BY <2>0, <2>2, <3>1 DEF Begin, Free, payments
  <2>3. ASSUME NEW r \in Requests, NEW a \in P!Args, Arrive(r, a)
        PROVE  PoolInv'
    BY <2>3 DEF Arrive, P!Arrive, P!Goto, P!Locked, Parts, P!TypeOK
  <2>4. ASSUME UNCHANGED <<pc, pool>>
        PROVE  PoolInv'
    BY <2>4
  <2>5. CASE Crash
    <3>1. \A r \in Requests : pc'[r] \notin P!Locked
      BY <2>5 DEF Crash, P!Crash, P!Running, P!Locked
    <3> QED
      BY <2>0, <2>5, <3>1, FS_EmptySet DEF Crash
  <2>6. \/ \E i \in Invoices : CreateInvoice(i)
        \/ \E r \in Requests : PspHandle(r)
        \/ UNCHANGED <<payments, pool, owed>>
        => UNCHANGED <<pc, pool>>
    BY DEF CreateInvoice, P!CreateInvoice, PspHandle, P!PspHandle, payments
  <2> QED
    BY <2>1, <2>2, <2>3, <2>4, <2>5, <2>6, StepCases DEF vars
<1> QED
  BY <1>1, <1>2, PartsHold, PTL DEF Spec

-----------------------------------------------------------------------------
(* The tasks and what they owe *)

\* A task is spawned by the last step of the request it announces, and by no other.
THEOREM TieInvariant == Spec => []TieInv
<1>1. Init => TieInv
  BY DEF Init, P!Init, W!Init, TieInv
<1>2. Parts /\ TieInv /\ [Next]_vars => TieInv'
  <2> SUFFICES ASSUME Parts, TieInv, [Next]_vars
               PROVE  TieInv'
    OBVIOUS
  <2> USE DEF TieInv, Parts
  <2>1. ASSUME NEW r \in Requests, Handles(r)
        PROVE  TieInv'
    <3>1. Effect(r)
      BY <2>1, HandlerEffect DEF Handles, HandlerStep
    <3>2. r \notin spawned
      BY <3>1 DEF Effect
    <3>3. CASE spawned' = spawned
      <4>1. task' = task
        BY <2>1, <3>3 DEF Handles, HandlerStep, webhooks
      <4> QED
        BY <3>1, <3>2, <3>3, <4>1 DEF Effect
    <3>4. CASE spawned' = spawned \cup {r} /\ pc'[r] = "done"
      <4>1. task' = [task EXCEPT ![r] = "spawned"]
        BY <2>1, <3>2, <3>4 DEF Handles, HandlerStep, W!Spawn
      <4> QED
        BY <3>1, <3>2, <3>4, <4>1 DEF Effect, W!TypeOK
    <3> QED
      BY <3>1, <3>3, <3>4 DEF Effect
  <2>2. ASSUME NEW r \in Requests, NEW a \in P!Args, Arrive(r, a)
        PROVE  TieInv'
    BY <2>2 DEF Arrive, P!Arrive, P!Goto, P!TypeOK, webhooks
  <2>3. CASE WebhookSteps /\ UNCHANGED <<payments, pool, owed>>
    BY <2>3, WebhookEffect DEF payments
  <2>4. CASE Crash
    BY <2>4 DEF Crash, P!Crash, P!Running, W!Crash, P!locals
  <2>5. ASSUME UNCHANGED <<pc, spawned, webhooks>>
        PROVE  TieInv'
    BY <2>5 DEF webhooks
  <2>6. \/ \E i \in Invoices : CreateInvoice(i)
        \/ \E r \in Requests : PspHandle(r) \/ Begin(r)
        \/ UNCHANGED vars
        => UNCHANGED <<pc, spawned, webhooks>>
    BY DEF CreateInvoice, P!CreateInvoice, PspHandle, P!PspHandle, Begin, payments, vars
  <2> QED
    BY <2>1, <2>2, <2>3, <2>4, <2>5, <2>6, StepCases
<1> QED
  BY <1>1, <1>2, PartsHold, PTL DEF Spec

\* Without a fault or a deletion, the webhooks lose no event for an endpoint that is
\* registered and owed one.
LEMMA WebhooksKeep ==
  ASSUME W!TypeOK, WebhookSteps, NEW r \in Requests, NEW e \in Endpoints,
         Business[e] = Business[r], endpoint[e] # "absent", Queued(r, e)
  PROVE  Queued(r, e)' \/ faults' > 0 \/ \E o \in Endpoints : endpoint'[o] = "deleted"
<1> SUFFICES ASSUME ~(faults' > 0), \A o \in Endpoints : endpoint'[o] # "deleted"
             PROVE  Queued(r, e)'
  OBVIOUS
<1> USE LimitsAssumption DEF W!enqueue, W!table, W!history
<1> <<r, e>> \in W!Deliveries
  BY DEF W!Deliveries
<1>0. ~W!Fault
  BY DEF W!Fault, W!TypeOK
<1>1. ASSUME NEW x \in Endpoints, W!Register(x) \/ W!Delete(x)
      PROVE  Queued(r, e)'
  <2>1. ~W!Delete(x)
    BY DEF W!Delete, W!TypeOK
  <2> QED
    BY <1>1, <2>1 DEF W!Register, Queued
<1>2. ASSUME NEW v \in Requests, W!ReadEndpoints(v)
      PROVE  Queued(r, e)'
  <2>1. endpoint' = endpoint /\ row' = row
    BY <1>2 DEF W!ReadEndpoints
  <2>2. e \in W!Live
    BY <2>1 DEF W!Live, W!TypeOK
  <2> QED
    BY <1>2, <2>1, <2>2 DEF W!ReadEndpoints, W!TypeOK, Queued
<1>3. ASSUME NEW v \in Requests, NEW x \in Endpoints, W!InsertDelivery(v, x)
      PROVE  Queued(r, e)'
  <2>1. CASE v = r /\ x = e
    <3>1. row'[<<r, e>>] = [status |-> "pending", attempt |-> 1, due |-> TRUE]
      BY <1>3, <2>1 DEF W!InsertDelivery, W!TypeOK
    <3> QED
      BY <3>1 DEF Queued
  <2>2. CASE ~(v = r /\ x = e)
    <3>1. row'[<<r, e>>] = row[<<r, e>>]
      BY <1>3, <2>2 DEF W!InsertDelivery, W!TypeOK
    <3>2. task[r] = "spawned" => task'[r] = "spawned"
      BY <1>3 DEF W!InsertDelivery, W!TypeOK
    <3>3. e \in todo[r] => e \in todo'[r]
      BY <1>3, <2>2 DEF W!InsertDelivery, W!TypeOK
    <3> QED
      BY <3>1, <3>2, <3>3 DEF Queued
  <2> QED
    BY <2>1, <2>2
<1>4. ASSUME NEW v \in Requests, NEW x \in Endpoints, W!InsertRefused(v, x)
      PROVE  Queued(r, e)'
  BY <1>4 DEF W!InsertRefused, W!TypeOK, Queued
<1>5. ASSUME UNCHANGED <<task, todo>>,
             row'[<<r, e>>].status = "none" => row[<<r, e>>].status = "none"
      PROVE  Queued(r, e)'
  BY <1>5 DEF Queued
<1>6. ASSUME W!Worker \/ \E d \in W!Deliveries : W!Elapse(d)
      PROVE  /\ UNCHANGED <<task, todo>>
             /\ row'[<<r, e>>].status = "none" => row[<<r, e>>].status = "none"
  <2> DEFINE Kept == row'[<<r, e>>].status = "none" => row[<<r, e>>].status = "none"
  <2> USE DEF W!NextInBatch, W!WorkerGoto
  <2>1. ASSUME NEW d \in W!Deliveries, NEW status, status # "none",
               W!UpdateRow(d, [row[d] EXCEPT !.status = status])
        PROVE  Kept
    BY <2>1 DEF W!UpdateRow, W!TypeOK, W!DeliveryRow
  <2>2. CASE W!EndpointNotFound
    <3>1. Head(batch).id \in W!Deliveries
      <4>1. batch \in Seq(W!Claim) /\ batch # <<>>
        BY <2>2 DEF W!EndpointNotFound, W!TypeOK
      <4>2. Head(batch) \in W!Claim
        BY <4>1
      <4> QED
        BY <4>2 DEF W!Claim
    <3> QED
      BY <2>1, <2>2, <3>1 DEF W!EndpointNotFound
  <2>3. CASE W!MarkDelivered \/ W!MarkFailed \/ W!MarkExhausted
    <3>1. cur.id \in W!Deliveries
      BY <2>3 DEF W!MarkDelivered, W!MarkFailed, W!MarkExhausted, W!TypeOK, W!Claim
    <3> QED
      BY <2>1, <2>3, <3>1 DEF W!MarkDelivered, W!MarkFailed, W!MarkExhausted
  <2>4. CASE W!Reschedule
    <3>1. cur.id \in W!Deliveries
      BY <2>4 DEF W!Reschedule, W!TypeOK, W!Claim
    <3> QED
      BY <2>4, <3>1 DEF W!Reschedule, W!UpdateRow, W!TypeOK, W!DeliveryRow
  <2>5. CASE \E d \in W!Deliveries : W!Elapse(d)
    BY <2>5 DEF W!Elapse, W!TypeOK, W!DeliveryRow
  <2>6. CASE \/ W!FetchBatch \/ W!BatchDone \/ W!FetchEndpoint
             \/ \E ack, ok \in BOOLEAN : W!Post(ack, ok)
    BY <2>6 DEF W!FetchBatch, W!BatchDone, W!FetchEndpoint, W!Post
  <2> QED
    BY <1>6, <2>2, <2>3, <2>4, <2>5, <2>6 DEF W!Worker
<1> QED
  BY <1>0, <1>1, <1>2, <1>3, <1>4, <1>5, <1>6
  DEF WebhookSteps, W!Task, W!TaskFault, W!WorkerFault

\* What is owed is queued, unless a fault, a deletion or a lost reply excuses it.
THEOREM OwedInvariant == Spec => []OwedInv
<1>1. Init => OwedInv
  BY DEF Init, OwedInv, LostOnlyByFaults
<1>2. Parts /\ TieInv /\ OwedInv /\ [Next]_vars => OwedInv'
  <2> SUFFICES ASSUME Parts, TieInv, OwedInv, [Next]_vars
               PROVE  OwedInv'
    OBVIOUS
  <2> USE DEF Parts, OwedInv
  <2> DEFINE Kept(r, e) ==
        \/ Queued(r, e)
        \/ faults > 0
        \/ \E o \in Endpoints : endpoint[o] = "deleted"
        \/ resp[r].result # "ok"
  <2>1. \A r \in Requests : \A e \in owed[r] : Kept(r, e)
    BY DEF LostOnlyByFaults
  <2>2. ASSUME NEW r \in Requests, Handles(r)
        PROVE  OwedInv'
    <3>1. Effect(r) /\ owed[r] = {} /\ r \notin spawned
      BY <2>2, HandlerEffect DEF Handles, HandlerStep, Effect, TieInv
    <3>2. /\ UNCHANGED <<endpoint, todo, row, faults>>
          /\ \A s \in Requests \ {r} : task'[s] = task[s]
      BY <2>2 DEF Handles, HandlerStep, W!Spawn, W!TypeOK, webhooks, W!table
    <3>3. \A s \in Requests \ {r} : owed'[s] = owed[s]
      BY <2>2 DEF Handles, HandlerStep
    <3>4. ASSUME NEW s \in Requests \ {r}, NEW e \in owed'[s]
          PROVE  /\ pc'[s] = "done" /\ Business[e] = Business[s]
                 /\ endpoint'[e] # "absent" /\ Kept(s, e)'
      BY <2>1, <3>1, <3>2, <3>3, <3>4 DEF Effect, Queued
    <3>5. CASE attempts' = attempts
      <4>1. owed' = owed
        BY <2>2, <3>5 DEF Handles, HandlerStep
      <4> QED
        BY <3>1, <3>4, <4>1 DEF LostOnlyByFaults
    <3>6. CASE attempts' # attempts
      <4>1. owed' = [owed EXCEPT ![r] = {e \in W!Live : Business[e] = Business[r]}]
        BY <2>2, <3>6 DEF Handles, HandlerStep
      <4>2. owed' \in [Requests -> SUBSET Endpoints]
        BY <4>1 DEF W!Live
      <4>3. ASSUME NEW e \in owed'[r]
            PROVE  /\ pc'[r] = "done" /\ Business[e] = Business[r]
                   /\ endpoint'[e] # "absent" /\ Kept(r, e)'
        <5>1. e \in Endpoints /\ endpoint[e] = "live" /\ Business[e] = Business[r]
          BY <4>1, <4>3 DEF W!Live
        <5>2. resp'[r].result = "ok" => task'[r] = "spawned"
          <6> SUFFICES ASSUME resp'[r].result = "ok"
                       PROVE  task'[r] = "spawned"
            OBVIOUS
          <6>1. spawned' = spawned \cup {r}
            BY <3>1, <3>6 DEF Effect
          <6>2. W!Spawn(r)
            BY <2>2, <3>1, <6>1 DEF Handles, HandlerStep
          <6> QED
            BY <6>2 DEF W!Spawn, W!TypeOK
        <5> QED
          BY <3>1, <3>2, <3>6, <5>1, <5>2 DEF Effect, Queued
      <4> QED
        BY <3>4, <4>2, <4>3 DEF LostOnlyByFaults
    <3> QED
      BY <3>5, <3>6
  <2>3. ASSUME NEW r \in Requests, NEW a \in P!Args, Arrive(r, a)
        PROVE  OwedInv'
    BY <2>1, <2>3
    DEF Arrive, P!Arrive, P!Goto, P!TypeOK, webhooks, LostOnlyByFaults, Queued
  <2>4. CASE WebhookSteps /\ UNCHANGED <<payments, pool, owed>>
    <3> SUFFICES ASSUME NEW r \in Requests, NEW e \in owed[r]
                 PROVE  endpoint'[e] # "absent" /\ Kept(r, e)'
      BY <2>4 DEF payments, LostOnlyByFaults
    <3>1. e \in Endpoints /\ Business[e] = Business[r] /\ endpoint[e] # "absent"
      OBVIOUS
    <3>2. /\ endpoint'[e] # "absent"
          /\ \A o \in Endpoints : endpoint[o] = "deleted" => endpoint'[o] = "deleted"
          /\ faults > 0 => faults' > 0
      BY <2>4, <3>1, WebhookEffect
    <3>3. resp' = resp
      BY <2>4 DEF payments
    <3>4. Queued(r, e) => Kept(r, e)'
      BY <2>4, <3>1, WebhooksKeep
    <3> QED
      BY <2>1, <3>2, <3>3, <3>4
  <2>5. CASE Crash
    <3>1. faults' > 0 /\ UNCHANGED <<endpoint, owed>>
      BY <2>5, LimitsAssumption DEF Crash, W!Crash, W!Fault, W!TypeOK
    <3>2. \A r \in Requests : pc[r] = "done" => pc'[r] = "done"
      BY <2>5 DEF Crash, P!Crash, P!Running
    <3> QED
      BY <3>1, <3>2 DEF LostOnlyByFaults
  <2>6. ASSUME UNCHANGED <<pc, resp, webhooks, owed>>
        PROVE  OwedInv'
    BY <2>1, <2>6 DEF webhooks, LostOnlyByFaults, Queued
  <2>7. \/ \E i \in Invoices : CreateInvoice(i)
        \/ \E r \in Requests : PspHandle(r) \/ Begin(r)
        \/ UNCHANGED vars
        => UNCHANGED <<pc, resp, webhooks, owed>>
    BY DEF CreateInvoice, P!CreateInvoice, PspHandle, P!PspHandle, Begin, payments, vars
  <2> QED
    BY <2>2, <2>3, <2>4, <2>5, <2>6, <2>7, StepCases
<1> QED
  BY <1>1, <1>2, PartsHold, TieInvariant, PTL DEF Spec

-----------------------------------------------------------------------------
(* The safety properties *)

\* The process is well-typed, and within the bounds of its pool.
THEOREM Typing == Spec => []TypeOK
<1>1. Parts /\ PoolInv /\ OwedInv => TypeOK
  BY DEF Parts, PoolInv, OwedInv, TypeOK
<1> QED
  BY <1>1, PartsHold, PoolInvariant, OwedInvariant, PTL

\* Whoever holds a row lock has its connection and waits for nothing.
LEMMA HoldersGoOn ==
  ASSUME Parts, PoolInv, NEW r \in Requests, NEW i \in Invoices, rowLock[i] = r
  PROVE  r \in P!Running /\ CanGoOn(r)
<1>1. pc[r] \in P!Locked
  BY DEF Parts, P!LockInv
<1> QED BY <1>1 DEF PoolInv, CanGoOn, CanExecute, P!Running, P!Locked

\* Handlers never all wait for each other.  Who has a connection goes on, or waits for a
\* lock, whose holder goes on; if nobody has one, there is one for whoever wants it.
THEOREM NoDeadlock == Spec => []SomeoneGoesOn
<1>1. Parts /\ PoolInv => SomeoneGoesOn
  <2> SUFFICES ASSUME Parts, PoolInv PROVE SomeoneGoesOn
    OBVIOUS
  <2>1. conn \subseteq P!Running
    BY DEF PoolInv, P!Running, P!Locked
  <2>2. CASE conn = {}
    <3>1. Free
      BY <2>2, FS_EmptySet, PoolAssumption DEF PoolInv, Free
    <3>2. \A r \in P!Running : pc[r] \in {"lookup", "lock"} /\ r \notin conn
      BY <2>2 DEF Parts, PoolInv, P!TypeOK, P!PcValue, P!Running
    <3> QED BY <3>1, <3>2 DEF SomeoneGoesOn, CanGoOn
  <2>3. ASSUME NEW r \in conn PROVE SomeoneGoesOn
    <3>1. r \in P!Running /\ r \in Requests
      BY <2>1 DEF P!Running
    <3>2. CASE pc[r] \in P!Locked
      BY <3>1, <3>2 DEF SomeoneGoesOn, CanGoOn, CanExecute
    <3>3. CASE pc[r] = "lock" /\ rowLock[args[r].invoice] = None
      BY <3>1, <3>3 DEF SomeoneGoesOn, CanGoOn, CanExecute
    <3>4. CASE pc[r] = "lock" /\ rowLock[args[r].invoice] # None
      <4>1. args[r].invoice \in Invoices /\ rowLock[args[r].invoice] \in Requests
        BY <3>1, <3>4 DEF Parts, P!TypeOK, P!Args
      <4> QED BY <4>1, HoldersGoOn DEF SomeoneGoesOn
    <3> QED BY <3>2, <3>3, <3>4 DEF PoolInv
  <2> QED BY <2>2, <2>3
<1> QED
  BY <1>1, PartsHold, PoolInvariant, PTL

\* Receivers only hear of payments that are stored.
THEOREM NoPhantomPayments == Spec => []NotifiedIsStored
<1>1. Parts /\ TieInv => NotifiedIsStored
  <2> SUFFICES ASSUME Parts, TieInv, NEW d \in W!Deliveries, posts[d] > 0
               PROVE  \E a \in attempts : a.id = d[1] /\ a.outcome = outcome[d[1]]
    BY DEF NotifiedIsStored
  <2>1. d[1] \in Requests
    BY DEF W!Deliveries
  <2>2. d[1] \in spawned
    BY <2>1 DEF Parts, TieInv
  <2> QED
    BY <2>2 DEF Parts, P!AnnouncedIsDurable
<1> QED
  BY <1>1, PartsHold, TieInvariant, PTL

\* Only faults, deletions and lost replies lose events.
THEOREM EventsAreQueued == Spec => []LostOnlyByFaults
<1>1. OwedInv => LostOnlyByFaults
  BY DEF OwedInv
<1> QED
  BY <1>1, OwedInvariant, PTL

=============================================================================
