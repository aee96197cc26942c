--------------------------- MODULE Payments_proofs ---------------------------
(***************************************************************************)
(* Proofs about module Payments, for any sets of requests, invoices,       *)
(* businesses, keys and tokens.                                            *)
(*                                                                         *)
(* The inductive invariant IInv is proved in layers: typing and control    *)
(* first, then the row lock, then what the lock protects, then the stored  *)
(* attempts, the PSP and the answers.  Each layer uses those before it.    *)
(***************************************************************************)
EXTENDS Payments, TLAPS

-----------------------------------------------------------------------------
(* Lemmas about the operators *)

\* The mock PSP's answer is a success or a decline with a code of its own.
LEMMA MockAnswerType ==
  ASSUME NEW token
  PROVE  /\ MockAnswer(token).status \in {"succeeded", "failed"}
         /\ MockAnswer(token).code \in ErrorCodes
         /\ MockAnswer(token).code # "psp_error"
         /\ ClientResult(MockAnswer(token)) \in {"succeeded", "failed", "error"}
         /\ ClientResult(MockAnswer(token)) # "error" =>
              ClientResult(MockAnswer(token)) = MockAnswer(token).status
BY DEF MockAnswer, Approved, Declined, ErrorCodes, ClientResult

\* The result columns of an attempt are well-typed, final, and name psp_error only
\* for a call without an answer.
LEMMA SettledType ==
  ASSUME NEW r \in Requests, NEW result
  PROVE  /\ Settled(r, result) \in Outcome
         /\ Settled(r, result).status \in {"succeeded", "failed"}
         /\ Settled(r, result).status = "succeeded" <=> result = "succeeded"
         /\ Settled(r, result).error_code # "psp_error" =>
              result \in {"succeeded", "failed"}
<1> USE MockAnswerType DEF Settled, Outcome, ErrorCodes
<1>1. CASE result = "succeeded"
  BY <1>1
<1>2. CASE result = "failed"
  BY <1>2
<1>3. CASE result \notin {"succeeded", "failed"}
  BY <1>3
<1> QED
  BY <1>1, <1>2, <1>3

\* Admission lets a payment through in draft or open, an opening in draft, and
\* answers everything else with an error of the state machine.
LEMMA AdmissionType ==
  ASSUME NEW op \in {"pay", "open"}, NEW state \in InvoiceState
  PROVE  /\ Admission(op, state) \in InvoiceState \cup TransitionError
         /\ Admission(op, state) \in InvoiceState /\ op = "pay" =>
              state \in {"draft", "open"}
         /\ Admission(op, state) \in InvoiceState /\ op = "open" => state = "draft"
BY DEF Admission, ValidateTransition, TransitionTo, AllowedTransitions, Apply,
       CanPay, InvoiceState, TransitionError

\* A successful payment of a draft or open invoice pays it exactly when it is open,
\* and is an invalid transition otherwise.
LEMMA ResultOfSuccess ==
  ASSUME NEW state \in {"draft", "open"}
  PROVE  /\ state = "open" => PaymentResultTransition(state, TRUE) = "paid"
         /\ state = "draft" =>
              PaymentResultTransition(state, TRUE) = "InvalidStateTransition"
BY DEF PaymentResultTransition, Apply

\* The state machine answers with a state or with an error, never both.
LEMMA ErrorsAreNotStates == InvoiceState \cap TransitionError = {}
BY DEF InvoiceState, TransitionError

\* The two tables of the state machine agree: allowed_transitions lists the transitions
\* apply performs, and a terminal state is one that lists none.
THEOREM TablesAgree ==
  ASSUME NEW state \in InvoiceState
  PROVE  /\ \A t \in Transition : t \in AllowedTransitions(state) <=> Apply(state, t) \in InvoiceState
         /\ IsTerminal(state) <=> AllowedTransitions(state) = {}
BY DEF InvoiceState, Transition, AllowedTransitions, Apply, IsTerminal

\* The two guards of a payment do not agree: can_pay admits a draft, which MarkPaid
\* refuses once the PSP has answered.
THEOREM GuardsDisagreeOnDraft ==
  ASSUME NEW state \in InvoiceState
  PROVE  CanPay(state) /\ PaymentResultTransition(state, TRUE) \notin InvoiceState
           <=> state = "draft"
BY DEF InvoiceState, CanPay, PaymentResultTransition, Apply

\* A versioned UPDATE writes a row or nothing.
LEMMA UpdateType ==
  ASSUME TypeOK, NEW r \in Requests, pc[r] # "idle", NEW new \in InvoiceState
  PROVE  VersionedUpdate(r, new) \in InvoiceRow \cup {None}
<1>1. args[r].invoice \in Invoices
  BY DEF TypeOK, Args
<1>2. invoices[args[r].invoice] \in InvoiceRow
  BY <1>1 DEF TypeOK
<1> QED
  BY <1>2 DEF VersionedUpdate, InvoiceRow

\* The row of a payment past its lookup is well-typed.
LEMMA RowType ==
  ASSUME TypeOK, ControlInv, NEW r \in Requests,
         pc[r] \in Locked, args[r].op = "pay"
  PROVE  Row(r) \in AttemptRow
<1>1. args[r] \in Args /\ args[r].key # None
  BY DEF TypeOK, ControlInv, Locked
<1>2. args[r].invoice \in Invoices /\ args[r].key \in Keys
  BY <1>1 DEF Args
<1> QED
  BY <1>2 DEF TypeOK, Row, AttemptRow

-----------------------------------------------------------------------------
(* Typing and control *)

\* Every reachable state is well-typed, and every handler is at an await of the
\* operation it was called for.
THEOREM Typing == Spec => [](TypeOK /\ ControlInv)
<1>1. Init => TypeOK /\ ControlInv
  BY NoneAssumption DEF Init, TypeOK, ControlInv, NoInvoice, InvoiceRow, Pending,
     Outcome, PcValue, Locked, ErrorCodes
<1>2. TypeOK /\ ControlInv /\ [Next]_vars => TypeOK' /\ ControlInv'
  <2> SUFFICES ASSUME TypeOK, ControlInv, [Next]_vars
               PROVE  TypeOK' /\ ControlInv'
    OBVIOUS
  <2> USE NoneAssumption DEF TypeOK, ControlInv, PcValue, Locked, Goto, database,
          locals, provider
  <2>1. ASSUME NEW i \in Invoices, CreateInvoice(i)
        PROVE  TypeOK' /\ ControlInv'
    BY <2>1 DEF CreateInvoice, InvoiceRow, InvoiceState
  <2>2. ASSUME NEW r \in Requests, NEW a \in Args, Arrive(r, a)
        PROVE  TypeOK' /\ ControlInv'
    BY <2>2 DEF Arrive, Args
  <2>3. ASSUME NEW r \in Requests, NEW result \in Results,
               NEW attempt \in AttemptRow \cup {None},
               pc[r] # "idle", Return(r, result, attempt),
               UNCHANGED <<args, snap, outcome, write, psp>>,
               invoices' \in [Invoices -> InvoiceRow], attempts' \subseteq AttemptRow,
               spawned' \subseteq Requests, charged' \subseteq Requests
        PROVE  TypeOK' /\ ControlInv'
    <3>1. [result |-> result, attempt |-> attempt] \in Response
      BY DEF Response
    <3>2. rowLock' \in [Invoices -> Requests \cup {None}]
      BY <2>3 DEF Return
    <3> QED
      BY <2>3, <3>1, <3>2 DEF Return
  <2>4. ASSUME NEW r \in Requests, RejectMissingKey(r)
        PROVE  TypeOK' /\ ControlInv'
    BY <2>3, <2>4 DEF RejectMissingKey, Results
  <2>5. ASSUME NEW r \in Requests, ReplayStored(r)
        PROVE  TypeOK' /\ ControlInv'
    BY <2>3, <2>5 DEF ReplayStored, Results, Stored
  <2>6. ASSUME NEW r \in Requests, LookupMiss(r)
        PROVE  TypeOK' /\ ControlInv'
    BY <2>6 DEF LookupMiss
  <2>7. ASSUME NEW r \in Requests, LockNotFound(r)
        PROVE  TypeOK' /\ ControlInv'
    BY <2>3, <2>7 DEF LockNotFound, Results
  <2>8. ASSUME NEW r \in Requests, LockRejected(r)
        PROVE  TypeOK' /\ ControlInv'
    BY <2>3, <2>8 DEF LockRejected, Results, TransitionError
  <2>9. ASSUME NEW r \in Requests, LockGranted(r)
        PROVE  TypeOK' /\ ControlInv'
    BY <2>9 DEF LockGranted, Args
  <2>10. ASSUME NEW r \in Requests, UpdateOpened(r)
         PROVE  TypeOK' /\ ControlInv'
    BY <2>10, UpdateType DEF UpdateOpened, InvoiceState
  <2>11. ASSUME NEW r \in Requests, InsertConflict(r)
         PROVE  TypeOK' /\ ControlInv'
    BY <2>3, <2>11 DEF InsertConflict, Results
  <2>12. ASSUME NEW r \in Requests, InsertAttempt(r)
         PROVE  TypeOK' /\ ControlInv'
    BY <2>12 DEF InsertAttempt, Pending, Outcome, ErrorCodes
  <2>13. ASSUME NEW r \in Requests, CallPsp(r)
         PROVE  TypeOK' /\ ControlInv'
    BY <2>13 DEF CallPsp
  <2>14. ASSUME NEW r \in Requests, PspHandle(r)
         PROVE  TypeOK' /\ ControlInv'
    BY <2>14 DEF PspHandle
  <2>15. ASSUME NEW r \in Requests, NEW result, PspResult(r, result)
         PROVE  TypeOK' /\ ControlInv'
    BY <2>15, SettledType DEF PspResult
  <2>16. ASSUME NEW r \in Requests, SettleFailed(r)
         PROVE  TypeOK' /\ ControlInv'
    BY <2>16 DEF SettleFailed
  <2>17. ASSUME NEW r \in Requests, SettlePaid(r)
         PROVE  TypeOK' /\ ControlInv'
    BY <2>17, UpdateType DEF SettlePaid
  <2>18. ASSUME NEW r \in Requests, SettleRefused(r)
         PROVE  TypeOK' /\ ControlInv'
    <3>1. PICK error \in TransitionError : Return(r, error, None)
      BY <2>18 DEF SettleRefused
    <3> QED
      BY <2>3, <2>18, <3>1 DEF SettleRefused, Results, TransitionError
  <2>19. ASSUME NEW r \in Requests, pc[r] = "commit", Publish(r)
         PROVE  /\ invoices' \in [Invoices -> InvoiceRow]
                /\ attempts' \subseteq AttemptRow
                /\ args[r].op = "pay" =>
                     [Row(r) EXCEPT !.completed_at = "reply"] \in AttemptRow
    <3>1. args[r].op = "pay" => Row(r) \in AttemptRow
      BY <2>19, RowType
    <3>2. args[r].op = "pay" => [Row(r) EXCEPT !.completed_at = "reply"] \in AttemptRow
      BY <3>1 DEF AttemptRow
    <3> QED
      BY <2>19, <3>1, <3>2 DEF Publish
  <2>20. ASSUME NEW r \in Requests, Commit(r)
         PROVE  TypeOK' /\ ControlInv'
    <3>1. CASE args[r].op = "pay"
      BY <2>3, <2>19, <2>20, <3>1 DEF Commit, Results
    <3>2. CASE args[r].op # "pay"
      BY <2>3, <2>19, <2>20, <3>2 DEF Commit, Results
    <3> QED
      BY <3>1, <3>2
  <2>21. ASSUME NEW r \in Requests, NEW result \in Results,
                CommitUnacknowledged(r, result)
         PROVE  TypeOK' /\ ControlInv'
    BY <2>3, <2>19, <2>21 DEF CommitUnacknowledged
  <2>22. ASSUME NEW r \in Requests, DatabaseError(r)
         PROVE  TypeOK' /\ ControlInv'
    BY <2>3, <2>22 DEF DatabaseError, Results
  <2>23. ASSUME NEW r \in Requests, Drop(r)
         PROVE  TypeOK' /\ ControlInv'
    BY <2>3, <2>23 DEF Drop, Running, Results
  <2>24. CASE Crash
    <3>1. [result |-> "gone", attempt |-> None] \in Response
      BY DEF Response, Results
    <3> QED
      BY <2>24, <3>1 DEF Crash, Running
  <2>25. CASE UNCHANGED vars
    BY <2>25 DEF vars
  <2> QED
    BY <2>1, <2>2, <2>4, <2>5, <2>6, <2>7, <2>8, <2>9, <2>10, <2>11, <2>12, <2>13,
       <2>14, <2>15, <2>16, <2>17, <2>18, <2>20, <2>21, <2>22, <2>23, <2>24, <2>25
    DEF Next, Lookup, Lock, Insert, PspReturns, PspAnswer, PspFailure, Settle,
        AllDone, Results
<1> QED
  BY <1>1, <1>2, PTL DEF Spec

-----------------------------------------------------------------------------
(* The steps, sorted by what they do *)

\* A handler returns with nothing committed.
Abort(r, result, attempt) ==
  /\ pc[r] \notin {"idle", "done"}
  /\ Return(r, result, attempt)
  /\ UNCHANGED <<invoices, attempts, locals, spawned, provider>>
  /\ result \in {"BadRequest", "NotFound", "AlreadyPaid"} =>
       \/ pc[r] \in {"lookup", "lock"}
       \/ pc[r] = "settle" /\ result = PaymentResultTransition(snap[r].state, TRUE)
  /\ result = "ok" => pc[r] = "lookup" /\ attempt \in Stored(r)

\* A transaction commits, and the handler returns or is gone.
Finish(r, result, attempt) ==
  /\ pc[r] = "commit"
  /\ Publish(r)
  /\ Return(r, result, attempt)
  /\ UNCHANGED <<locals, provider>>
  /\ result \in {"ok", "Internal", "gone"}
  /\ result = "ok" /\ args[r].op = "pay" =>
       attempt = [Row(r) EXCEPT !.completed_at = "reply"]
  /\ spawned' = IF result = "ok" /\ args[r].op = "pay"
                THEN spawned \cup {r} ELSE spawned

\* The ways to return that commit nothing ...
LEMMA AbortSteps ==
  ASSUME NEW r \in Requests,
         \/ RejectMissingKey(r) \/ ReplayStored(r) \/ LockNotFound(r)
         \/ LockRejected(r) \/ InsertConflict(r) \/ SettleRefused(r)
         \/ DatabaseError(r) \/ Drop(r)
  PROVE  \E result, attempt : Abort(r, result, attempt)
<1>1. CASE RejectMissingKey(r)
  <2>1. Abort(r, "BadRequest", None)
    BY <1>1 DEF RejectMissingKey, Abort
  <2> QED
    BY <2>1
<1>2. CASE ReplayStored(r)
  <2>1. PICK a \in Stored(r) : Return(r, "ok", a)
    BY <1>2 DEF ReplayStored
  <2>2. Abort(r, "ok", a)
    BY <1>2, <2>1 DEF ReplayStored, Abort
  <2> QED
    BY <2>2
<1>3. CASE LockNotFound(r)
  <2>1. Abort(r, "NotFound", None)
    BY <1>3 DEF LockNotFound, Abort
  <2> QED
    BY <2>1
<1>4. CASE LockRejected(r)
  <2>1. PICK error \in TransitionError : Return(r, error, None)
    BY <1>4 DEF LockRejected
  <2>2. Abort(r, error, None)
    BY <1>4, <2>1 DEF LockRejected, Abort, TransitionError
  <2> QED
    BY <2>2
<1>5. CASE InsertConflict(r)
  <2>1. Abort(r, "Internal", None)
    BY <1>5 DEF InsertConflict, Abort
  <2> QED
    BY <2>1
<1>6. CASE SettleRefused(r)
  <2> DEFINE error == PaymentResultTransition(snap[r].state, TRUE)
  <2>1. error \in TransitionError /\ Return(r, error, None)
    BY <1>6 DEF SettleRefused
  <2>2. Abort(r, error, None)
    <3> HIDE DEF error
    <3>1. error = PaymentResultTransition(snap[r].state, TRUE)
      BY DEF error
    <3> QED
      BY <1>6, <2>1, <3>1 DEF SettleRefused, Abort, TransitionError
  <2> QED
    BY <2>2
<1>7. CASE DatabaseError(r)
  <2>1. Abort(r, "Internal", None) \/ Abort(r, "ConcurrentModification", None)
    BY <1>7 DEF DatabaseError, Abort
  <2> QED
    BY <2>1
<1>8. CASE Drop(r)
  <2>1. Abort(r, "gone", None)
    BY <1>8 DEF Drop, Running, Abort
  <2> QED
    BY <2>1
<1> QED
  BY <1>1, <1>2, <1>3, <1>4, <1>5, <1>6, <1>7, <1>8

\* ... and those that commit.
LEMMA FinishSteps ==
  ASSUME NEW r \in Requests,
         \/ Commit(r) \/ CommitUnacknowledged(r, "Internal")
         \/ CommitUnacknowledged(r, "gone")
  PROVE  \E result, attempt : Finish(r, result, attempt)
<1>1. CASE Commit(r)
  <2>1. CASE args[r].op = "pay"
    <3>1. Finish(r, "ok", [Row(r) EXCEPT !.completed_at = "reply"])
      BY <1>1, <2>1 DEF Commit, Finish
    <3> QED
      BY <3>1
  <2>2. CASE args[r].op # "pay"
    <3>1. Finish(r, "ok", None)
      BY <1>1, <2>2 DEF Commit, Finish
    <3> QED
      BY <3>1
  <2> QED
    BY <2>1, <2>2
<1>2. CASE CommitUnacknowledged(r, "Internal")
  <2>1. Finish(r, "Internal", None)
    BY <1>2 DEF CommitUnacknowledged, Finish
  <2> QED
    BY <2>1
<1>3. CASE CommitUnacknowledged(r, "gone")
  <2>1. Finish(r, "gone", None)
    BY <1>3 DEF CommitUnacknowledged, Finish
  <2> QED
    BY <2>1
<1> QED
  BY <1>1, <1>2, <1>3

\* A step is one of these.
LEMMA StepCases ==
  ASSUME [Next]_vars
  PROVE  \/ \E i \in Invoices : CreateInvoice(i)
         \/ \E r \in Requests, a \in Args : Arrive(r, a)
         \/ \E r \in Requests :
              \/ \E result, attempt : Abort(r, result, attempt)
              \/ LookupMiss(r) \/ LockGranted(r) \/ UpdateOpened(r)
              \/ InsertAttempt(r) \/ CallPsp(r) \/ PspHandle(r)
              \/ PspReturns(r) \/ SettleFailed(r) \/ SettlePaid(r)
              \/ \E result, attempt : Finish(r, result, attempt)
         \/ Crash
         \/ UNCHANGED vars
BY AbortSteps, FinishSteps DEF Next, Lookup, Lock, Insert, Settle, AllDone

-----------------------------------------------------------------------------
(* The row lock, and what it keeps true of the handler's local copies *)

LockedInv == LockInv /\ FreshSnapshot /\ AdmittedInv /\ WriteInv

\* The snapshot a handler took under the row lock is still the row when it writes.
THEOREM Locking == Spec => []LockedInv
<1>1. Init => LockedInv
  BY NoneAssumption DEF Init, LockedInv, LockInv, FreshSnapshot, AdmittedInv, WriteInv,
     Locked
<1>2. TypeOK /\ ControlInv /\ LockedInv /\ [Next]_vars => LockedInv'
  <2> SUFFICES ASSUME TypeOK, ControlInv, LockedInv, [Next]_vars
               PROVE  LockedInv'
    OBVIOUS
  <2> USE NoneAssumption DEF TypeOK, ControlInv, LockedInv, LockInv, FreshSnapshot,
          AdmittedInv, WriteInv, Locked, Goto, database, locals, provider
  <2>1. ASSUME NEW i \in Invoices, CreateInvoice(i)
        PROVE  LockedInv'
    BY <2>1 DEF CreateInvoice, Args
  <2>2. ASSUME NEW r \in Requests, NEW a \in Args, Arrive(r, a)
        PROVE  LockedInv'
    BY <2>2 DEF Arrive, Args
  <2>3. ASSUME NEW r \in Requests, NEW result, NEW attempt, Abort(r, result, attempt)
        PROVE  LockedInv'
    BY <2>3 DEF Abort, Return
  <2>4. ASSUME NEW r \in Requests, LookupMiss(r)
        PROVE  LockedInv'
    BY <2>4 DEF LookupMiss
  <2>5. ASSUME NEW r \in Requests, LockGranted(r)
        PROVE  LockedInv'
    BY <2>5, AdmissionType DEF LockGranted, Found, Args, InvoiceRow
  <2>6. ASSUME NEW r \in Requests, UpdateOpened(r)
        PROVE  LockedInv'
    BY <2>6 DEF UpdateOpened, VersionedUpdate
  <2>7. ASSUME NEW r \in Requests, InsertAttempt(r)
        PROVE  LockedInv'
    BY <2>7 DEF InsertAttempt
  <2>8. ASSUME NEW r \in Requests, CallPsp(r)
        PROVE  LockedInv'
    BY <2>8 DEF CallPsp
  <2>9. ASSUME NEW r \in Requests, PspHandle(r)
        PROVE  LockedInv'
    BY <2>9 DEF PspHandle
  <2>10. ASSUME NEW r \in Requests, NEW result, PspResult(r, result)
         PROVE  LockedInv'
    BY <2>10, SettledType DEF PspResult
  <2>11. ASSUME NEW r \in Requests, SettleFailed(r)
         PROVE  LockedInv'
    BY <2>11 DEF SettleFailed
  <2>12. ASSUME NEW r \in Requests, SettlePaid(r)
         PROVE  LockedInv'
    <3>1. snap[r].state = "open" /\ PaymentResultTransition(snap[r].state, TRUE) = "paid"
      BY <2>12, ResultOfSuccess DEF SettlePaid, InvoiceState
    <3>2. VersionedUpdate(r, "paid") = [state |-> "paid", version |-> snap[r].version + 1]
      BY <2>12 DEF SettlePaid, VersionedUpdate
    <3>3. /\ write' = [write EXCEPT ![r] = VersionedUpdate(r, "paid")]
          /\ pc[r] = "settle" /\ outcome[r].status = "succeeded"
          /\ Goto(r, "commit")
          /\ UNCHANGED <<database, args, snap, outcome, resp, spawned, provider>>
      BY <2>12, <3>1 DEF SettlePaid
    <3>4. write' = [write EXCEPT
                     ![r] = [state |-> "paid", version |-> snap[r].version + 1]]
      BY <3>2, <3>3
    <3> QED
      BY <3>1, <3>3, <3>4
  <2>13. ASSUME NEW r \in Requests, NEW result, NEW attempt, Finish(r, result, attempt)
         PROVE  LockedInv'
    BY <2>13 DEF Finish, Publish, Return
  <2>14. CASE Crash
    BY <2>14 DEF Crash, Running
  <2>15. CASE UNCHANGED vars
    BY <2>15 DEF vars
  <2> QED
    BY <2>1, <2>2, <2>3, <2>4, <2>5, <2>6, <2>7, <2>8, <2>9, <2>10, <2>11, <2>12,
       <2>13, <2>14, <2>15, StepCases
    DEF PspReturns, PspAnswer, PspFailure
<1> QED
  BY <1>1, <1>2, Typing, PTL DEF Spec

-----------------------------------------------------------------------------
(* The stored attempts *)

LedgerInv ==
  KeyFreeInv /\ AttemptInv /\ PaidIffSettled /\ SettledOnce /\ OneAttemptPerKey

\* What a transaction publishes: it alone holds the lock of its invoice, and the
\* row it read is the row it replaces.
LEMMA Publishing ==
  ASSUME TypeOK, ControlInv, LockedInv, LedgerInv, NEW r \in Requests,
         pc[r] = "commit", Publish(r)
  PROVE  /\ args[r] \in Args
         /\ \A s \in Requests : s # r /\ pc[s] \in Locked =>
              args[s].invoice # args[r].invoice
         /\ args[r].op = "pay" =>
              /\ attempts' = attempts \cup {Row(r)}
              /\ Row(r) \in AttemptRow
              /\ \A a \in attempts : a.invoice = args[r].invoice => a.key # args[r].key
              /\ \A a \in attempts : a.id # r
              /\ outcome[r].status \in {"succeeded", "failed"}
         /\ args[r].op = "open" => attempts' = attempts
         /\ IF args[r].op = "pay" /\ outcome[r].status # "succeeded"
            THEN /\ invoices' = invoices
                 /\ invoices[args[r].invoice].state \in {"draft", "open"}
            ELSE invoices' = [invoices EXCEPT
                   ![args[r].invoice] =
                     [state |-> IF args[r].op = "pay" THEN "paid" ELSE "open",
                      version |-> invoices[args[r].invoice].version + 1]]
         /\ args[r].op = "pay" /\ outcome[r].status = "succeeded" =>
              invoices[args[r].invoice].state = "open"
         /\ args[r].op = "open" => invoices[args[r].invoice].state = "draft"
<1> USE DEF Locked
<1>1. args[r] \in Args /\ args[r].invoice \in Invoices /\ args[r].op \in {"pay", "open"}
  BY DEF TypeOK, Args
<1>2. snap[r] = invoices[args[r].invoice]
  BY DEF LockedInv, FreshSnapshot
<1>3. \A s \in Requests : s # r /\ pc[s] \in Locked => args[s].invoice # args[r].invoice
  BY <1>1 DEF LockedInv, LockInv
<1>4. ASSUME args[r].op = "pay"
      PROVE  /\ attempts' = attempts \cup {Row(r)}
             /\ Row(r) \in AttemptRow
             /\ \A a \in attempts : a.invoice = args[r].invoice => a.key # args[r].key
             /\ \A a \in attempts : a.id # r
             /\ outcome[r].status \in {"succeeded", "failed"}
  <2>1. Row(r) \in AttemptRow
    BY <1>4, RowType
  <2>2. \A a \in attempts : a.invoice = args[r].invoice => a.key # args[r].key
    BY <1>4 DEF LedgerInv, KeyFreeInv, Stored
  <2>3. \A a \in attempts : a.id # r
    BY DEF LedgerInv, AttemptInv
  <2>4. outcome[r].status \in {"succeeded", "failed"}
    BY <1>4 DEF LockedInv, WriteInv, TypeOK, Outcome
  <2> QED
    BY <1>4, <2>1, <2>2, <2>3, <2>4 DEF Publish
<1>5. args[r].op = "open" => attempts' = attempts
  BY DEF Publish
<1>6. IF args[r].op = "pay" /\ outcome[r].status # "succeeded"
      THEN /\ invoices' = invoices
           /\ invoices[args[r].invoice].state \in {"draft", "open"}
      ELSE invoices' = [invoices EXCEPT
             ![args[r].invoice] =
               [state |-> IF args[r].op = "pay" THEN "paid" ELSE "open",
                version |-> invoices[args[r].invoice].version + 1]]
  <2>1. CASE args[r].op = "pay" /\ outcome[r].status # "succeeded"
    BY <1>1, <1>2, <2>1 DEF Publish, LockedInv, WriteInv, AdmittedInv
  <2>2. CASE args[r].op = "pay" /\ outcome[r].status = "succeeded"
    <3>1. write[r] = [state |-> "paid", version |-> invoices[args[r].invoice].version + 1]
      BY <1>2, <2>2 DEF LockedInv, WriteInv
    <3>2. write[r] # None
      BY <3>1, <1>1, NoneAssumption DEF InvoiceRow, InvoiceState, TypeOK
    <3> QED
      BY <2>2, <3>1, <3>2 DEF Publish
  <2>3. CASE args[r].op = "open"
    <3>1. write[r] = [state |-> "open", version |-> invoices[args[r].invoice].version + 1]
      BY <1>2, <2>3 DEF LockedInv, WriteInv
    <3>2. write[r] # None
      BY <3>1, <1>1, NoneAssumption DEF InvoiceRow, InvoiceState, TypeOK
    <3> QED
      BY <2>3, <3>1, <3>2 DEF Publish
  <2> QED
    BY <1>1, <2>1, <2>2, <2>3
<1>7. /\ args[r].op = "pay" /\ outcome[r].status = "succeeded" =>
           invoices[args[r].invoice].state = "open"
      /\ args[r].op = "open" => invoices[args[r].invoice].state = "draft"
  BY <1>2 DEF LockedInv, WriteInv, AdmittedInv
<1> QED
  BY <1>1, <1>3, <1>4, <1>5, <1>6, <1>7

\* What the requests have stored agrees with itself and with the invoices.
THEOREM LedgerInvariant == Spec => []LedgerInv
<1>1. Init => LedgerInv
  BY DEF Init, LedgerInv, KeyFreeInv, AttemptInv, PaidIffSettled, SettledOnce,
     OneAttemptPerKey, NoInvoice
<1>2. TypeOK /\ ControlInv /\ LockedInv /\ LedgerInv /\ [Next]_vars => LedgerInv'
  <2> SUFFICES ASSUME TypeOK, ControlInv, LockedInv, LedgerInv, [Next]_vars
               PROVE  LedgerInv'
    OBVIOUS
  <2> USE DEF LedgerInv, KeyFreeInv, AttemptInv, PaidIffSettled, SettledOnce,
          OneAttemptPerKey, Succeeded, Stored, Row, TypeOK, AttemptRow, Goto,
          database, locals, provider
  <2>1. ASSUME NEW i \in Invoices, CreateInvoice(i)
        PROVE  LedgerInv'
    BY <2>1 DEF CreateInvoice
  <2>2. ASSUME NEW r \in Requests, NEW a \in Args, Arrive(r, a)
        PROVE  LedgerInv'
    BY <2>2 DEF Arrive
  <2>3. ASSUME NEW r \in Requests, NEW result, NEW attempt, Abort(r, result, attempt)
        PROVE  LedgerInv'
    BY <2>3 DEF Abort, Return
  <2>4. ASSUME NEW r \in Requests, LookupMiss(r)
        PROVE  LedgerInv'
    BY <2>4 DEF LookupMiss
  <2>5. ASSUME NEW r \in Requests, LockGranted(r)
        PROVE  LedgerInv'
    BY <2>5 DEF LockGranted
  <2>6. ASSUME NEW r \in Requests, UpdateOpened(r)
        PROVE  LedgerInv'
    BY <2>6 DEF UpdateOpened, ControlInv
  <2>7. ASSUME NEW r \in Requests, InsertAttempt(r)
        PROVE  LedgerInv'
    BY <2>7 DEF InsertAttempt
  <2>8. ASSUME NEW r \in Requests, CallPsp(r)
        PROVE  LedgerInv'
    BY <2>8 DEF CallPsp
  <2>9. ASSUME NEW r \in Requests, PspHandle(r)
        PROVE  LedgerInv'
    BY <2>9 DEF PspHandle
  <2>10. ASSUME NEW r \in Requests, NEW result, PspResult(r, result)
         PROVE  LedgerInv'
    BY <2>10 DEF PspResult
  <2>11. ASSUME NEW r \in Requests, SettleFailed(r)
         PROVE  LedgerInv'
    BY <2>11 DEF SettleFailed
  <2>12. ASSUME NEW r \in Requests, SettlePaid(r)
         PROVE  LedgerInv'
    BY <2>12 DEF SettlePaid
  <2>13. ASSUME NEW r \in Requests, NEW result, NEW attempt, Finish(r, result, attempt)
         PROVE  LedgerInv'
    <3> DEFINE i == args[r].invoice
    <3>1. /\ pc' = [pc EXCEPT ![r] = "done"]
          /\ UNCHANGED <<args, snap, outcome, write>>
          /\ pc[r] = "commit" /\ Publish(r)
      BY <2>13 DEF Finish, Return
    <3>2. args[r] \in Args /\ i \in Invoices /\ args[r].op \in {"pay", "open"}
      BY <3>1, Publishing DEF Args
    <3>3. CASE args[r].op = "open"
      <4>1. attempts' = attempts
        BY <3>1, <3>3, Publishing
      <4>2. \A j \in Invoices : invoices'[j].state = "paid" <=> invoices[j].state = "paid"
        <5>1. /\ invoices[i].state = "draft"
              /\ invoices' = [invoices EXCEPT
                   ![i] = [state |-> "open", version |-> invoices[i].version + 1]]
          BY <3>1, <3>3, Publishing
        <5> QED
          BY <3>2, <5>1
      <4> QED
        BY <3>1, <4>1, <4>2
    <3>4. CASE args[r].op = "pay"
      <4>1. /\ attempts' = attempts \cup {Row(r)}
            /\ Row(r) \in AttemptRow
            /\ \A a \in attempts : a.invoice = i => a.key # args[r].key
            /\ \A a \in attempts : a.id # r
            /\ outcome[r].status \in {"succeeded", "failed"}
        BY <3>1, <3>4, Publishing
      <4>2. AttemptInv'
        BY <3>1, <3>4, <4>1
      <4>3. OneAttemptPerKey'
        BY <3>1, <4>1
      <4>4. KeyFreeInv'
        <5> SUFFICES ASSUME NEW s \in Requests,
                            pc'[s] \in {"call", "await", "settle", "commit"},
                            args'[s].op = "pay"
                     PROVE  Stored(s)' = {}
          OBVIOUS
        <5>1. s # r /\ pc[s] \in {"call", "await", "settle", "commit"} /\ args'[s] = args[s]
          BY <3>1
        <5>2. args[s].invoice # i
          <6>1. pc[s] \in Locked
            BY <5>1 DEF Locked
          <6>2. \A q \in Requests : q # r /\ pc[q] \in Locked => args[q].invoice # args[r].invoice
            BY <3>1, Publishing
          <6> QED
            BY <5>1, <6>1, <6>2
        <5>3. Stored(s) = {}
          BY <5>1
        <5> QED
          BY <4>1, <5>1, <5>2, <5>3
      <4>5. CASE outcome[r].status = "succeeded"
        <5>1. /\ invoices[i].state = "open"
              /\ invoices' = [invoices EXCEPT
                   ![i] = [state |-> "paid", version |-> invoices[i].version + 1]]
          BY <3>1, <3>4, <4>5, Publishing
        <5>2. \A a \in attempts : a.invoice = i => ~Succeeded(a)
          BY <3>2, <5>1
        <5>3. SettledOnce'
          BY <4>1, <5>2
        <5>4. PaidIffSettled'
          <6>1. Succeeded(Row(r)) /\ Row(r).invoice = i
            BY <4>5
          <6>2. \A j \in Invoices : j # i => invoices'[j] = invoices[j]
            BY <5>1
          <6>3. invoices'[i].state = "paid"
            BY <3>2, <5>1
          <6> HIDE DEF Succeeded, Row
          <6> QED
            BY <4>1, <6>1, <6>2, <6>3
        <5> QED
          BY <4>2, <4>3, <4>4, <5>3, <5>4
      <4>6. CASE outcome[r].status = "failed"
        <5>1. invoices' = invoices
          BY <3>1, <3>4, <4>6, Publishing
        <5>2. ~Succeeded(Row(r))
          BY <4>6
        <5> QED
          BY <4>1, <4>2, <4>3, <4>4, <5>1, <5>2
      <4> QED
        BY <4>1, <4>5, <4>6
    <3> QED
      BY <3>2, <3>3, <3>4
  <2>14. CASE Crash
    BY <2>14 DEF Crash, Running
  <2>15. CASE UNCHANGED vars
    BY <2>15 DEF vars
  <2> QED
    BY <2>1, <2>2, <2>3, <2>4, <2>5, <2>6, <2>7, <2>8, <2>9, <2>10, <2>11, <2>12,
       <2>13, <2>14, <2>15, StepCases
    DEF PspReturns, PspAnswer, PspFailure
<1> QED
  BY <1>1, <1>2, Typing, Locking, PTL DEF Spec

-----------------------------------------------------------------------------
(* The PSP and the answers *)

\* What the handler stores of a payment is what the PSP did, and no card is charged
\* unless its request reached the PSP.
THEOREM PspInvariant == Spec => []PspInv
<1>1. Init => PspInv
  BY DEF Init, PspInv, Pending
<1>2. TypeOK /\ ControlInv /\ PspInv /\ [Next]_vars => PspInv'
  <2> SUFFICES ASSUME TypeOK, ControlInv, PspInv, [Next]_vars
               PROVE  PspInv'
    OBVIOUS
  <2> USE DEF PspInv, TypeOK, Goto, database, locals, provider
  <2>1. ASSUME NEW i \in Invoices, CreateInvoice(i)
        PROVE  PspInv'
    BY <2>1 DEF CreateInvoice
  <2>2. ASSUME NEW r \in Requests, NEW a \in Args, Arrive(r, a)
        PROVE  PspInv'
    BY <2>2 DEF Arrive, Outcome
  <2>3. ASSUME NEW r \in Requests, NEW result, NEW attempt, Abort(r, result, attempt)
        PROVE  PspInv'
    BY <2>3 DEF Abort, Return
  <2>4. ASSUME NEW r \in Requests, LookupMiss(r)
        PROVE  PspInv'
    BY <2>4 DEF LookupMiss
  <2>5. ASSUME NEW r \in Requests, LockGranted(r)
        PROVE  PspInv'
    BY <2>5 DEF LockGranted
  <2>6. ASSUME NEW r \in Requests, UpdateOpened(r)
        PROVE  PspInv'
    BY <2>6 DEF UpdateOpened
  <2>7. ASSUME NEW r \in Requests, InsertAttempt(r)
        PROVE  PspInv'
    BY <2>7 DEF InsertAttempt, Pending
  <2>8. ASSUME NEW r \in Requests, CallPsp(r)
        PROVE  PspInv'
    BY <2>8 DEF CallPsp, ControlInv
  <2>9. ASSUME NEW r \in Requests, PspHandle(r)
        PROVE  PspInv'
    BY <2>9 DEF PspHandle
  <2>10. ASSUME NEW r \in Requests, PspAnswer(r)
         PROVE  PspInv'
    <3> DEFINE answer == MockAnswer(args[r].token)
    <3>1. /\ pc[r] = "await" /\ psp[r] = "answered"
          /\ outcome' = [outcome EXCEPT ![r] = Settled(r, ClientResult(answer))]
          /\ pc' = [pc EXCEPT ![r] = "settle"]
          /\ UNCHANGED <<args, psp, charged>>
      BY <2>10 DEF PspAnswer, PspResult
    <3>2. /\ ClientResult(answer) \in {"succeeded", "failed"} =>
               ClientResult(answer) = answer.status
          /\ Settled(r, ClientResult(answer)).status = "succeeded" =>
               ClientResult(answer) = "succeeded"
          /\ /\ Settled(r, ClientResult(answer)).status = "failed"
             /\ Settled(r, ClientResult(answer)).error_code # "psp_error"
             => ClientResult(answer) = "failed"
      BY MockAnswerType, SettledType
    <3> HIDE DEF answer
    <3>3. r \in charged <=> answer.status = "succeeded"
      BY <3>1 DEF answer
    <3>4. PspInv!(r)'
      BY <3>1, <3>2, <3>3 DEF answer
    <3>5. \A s \in Requests : s # r => PspInv!(s)'
      BY <3>1
    <3> QED
      BY <3>4, <3>5
  <2>11. ASSUME NEW r \in Requests, PspFailure(r)
         PROVE  PspInv'
    <3>1. Settled(r, "error") = [status |-> "failed", psp_reference |-> None,
                                 error_code |-> "psp_error"]
      BY DEF Settled
    <3>2. /\ outcome' = [outcome EXCEPT
               ![r] = [status |-> "failed", psp_reference |-> None,
                       error_code |-> "psp_error"]]
          /\ pc[r] = "await" /\ pc' = [pc EXCEPT ![r] = "settle"]
          /\ UNCHANGED <<args, psp, charged>>
      BY <2>11, <3>1 DEF PspFailure, PspResult
    <3> QED
      BY <3>2
  <2>12. ASSUME NEW r \in Requests, SettleFailed(r)
         PROVE  PspInv'
    BY <2>12 DEF SettleFailed
  <2>13. ASSUME NEW r \in Requests, SettlePaid(r)
         PROVE  PspInv'
    BY <2>13 DEF SettlePaid
  <2>14. ASSUME NEW r \in Requests, NEW result, NEW attempt, Finish(r, result, attempt)
         PROVE  PspInv'
    BY <2>14 DEF Finish, Return
  <2>15. CASE Crash
    BY <2>15 DEF Crash, Running
  <2>16. CASE UNCHANGED vars
    BY <2>16 DEF vars
  <2> QED
    BY <2>1, <2>2, <2>3, <2>4, <2>5, <2>6, <2>7, <2>8, <2>9, <2>10, <2>11, <2>12,
       <2>13, <2>14, <2>15, <2>16, StepCases
    DEF PspReturns
<1> QED
  BY <1>1, <1>2, Typing, PTL DEF Spec

\* What clients and webhooks are told is stored, and an early refusal is free.
THEOREM AnswerInvariant == Spec => []AnswerInv
<1>1. Init => AnswerInv
  BY DEF Init, AnswerInv
<1>2. TypeOK /\ ControlInv /\ LockedInv /\ LedgerInv /\ PspInv /\ AnswerInv
      /\ [Next]_vars => AnswerInv'
  <2> SUFFICES ASSUME TypeOK, ControlInv, LockedInv, LedgerInv, PspInv, AnswerInv,
                      [Next]_vars
               PROVE  AnswerInv'
    OBVIOUS
  <2> USE DEF AnswerInv, TypeOK, Goto, database, locals, provider
  <2>1. ASSUME NEW i \in Invoices, CreateInvoice(i)
        PROVE  AnswerInv'
    BY <2>1 DEF CreateInvoice
  <2>2. ASSUME NEW r \in Requests, NEW a \in Args, Arrive(r, a)
        PROVE  AnswerInv'
    BY <2>2 DEF Arrive
  <2>3. ASSUME NEW r \in Requests, NEW result, NEW attempt, Abort(r, result, attempt)
        PROVE  AnswerInv'
    <3>1. /\ pc' = [pc EXCEPT ![r] = "done"]
          /\ resp' = [resp EXCEPT ![r] = [result |-> result, attempt |-> attempt]]
          /\ UNCHANGED <<attempts, args, spawned, psp>>
      BY <2>3 DEF Abort, Return
    <3>2. result = "ok" => attempt \in Stored(r) /\ psp[r] = "idle"
      BY <2>3 DEF Abort, PspInv
    <3>3. result \in {"BadRequest", "NotFound", "AlreadyPaid"} => psp[r] = "idle"
      <4>1. CASE pc[r] \in {"lookup", "lock"}
        BY <4>1 DEF PspInv
      <4>2. CASE pc[r] = "settle"
        <5>1. snap[r].state \in {"draft", "open"}
          BY <4>2 DEF LockedInv, AdmittedInv, ControlInv, Locked
        <5>2. PaymentResultTransition(snap[r].state, TRUE)
                \notin {"BadRequest", "NotFound", "AlreadyPaid"}
          BY <5>1, ResultOfSuccess
        <5> QED
          BY <2>3, <4>2, <5>2 DEF Abort
      <4> QED
        BY <2>3, <4>1, <4>2 DEF Abort
    <3> QED
      BY <3>1, <3>2, <3>3 DEF Stored
  <2>4. ASSUME NEW r \in Requests, LookupMiss(r)
        PROVE  AnswerInv'
    BY <2>4 DEF LookupMiss
  <2>5. ASSUME NEW r \in Requests, LockGranted(r)
        PROVE  AnswerInv'
    BY <2>5 DEF LockGranted
  <2>6. ASSUME NEW r \in Requests, UpdateOpened(r)
        PROVE  AnswerInv'
    BY <2>6 DEF UpdateOpened
  <2>7. ASSUME NEW r \in Requests, InsertAttempt(r)
        PROVE  AnswerInv'
    BY <2>7 DEF InsertAttempt
  <2>8. ASSUME NEW r \in Requests, CallPsp(r)
        PROVE  AnswerInv'
    BY <2>8 DEF CallPsp
  <2>9. ASSUME NEW r \in Requests, PspHandle(r)
        PROVE  AnswerInv'
    BY <2>9 DEF PspHandle
  <2>10. ASSUME NEW r \in Requests, NEW result, PspResult(r, result)
         PROVE  AnswerInv'
    BY <2>10 DEF PspResult
  <2>11. ASSUME NEW r \in Requests, SettleFailed(r)
         PROVE  AnswerInv'
    BY <2>11 DEF SettleFailed
  <2>12. ASSUME NEW r \in Requests, SettlePaid(r)
         PROVE  AnswerInv'
    BY <2>12 DEF SettlePaid
  <2>13. ASSUME NEW r \in Requests, NEW result, NEW attempt, Finish(r, result, attempt)
         PROVE  AnswerInv'
    <3>1. /\ pc' = [pc EXCEPT ![r] = "done"]
          /\ resp' = [resp EXCEPT ![r] = [result |-> result, attempt |-> attempt]]
          /\ result \in {"ok", "Internal", "gone"}
          /\ UNCHANGED <<args, psp>>
          /\ pc[r] = "commit" /\ Publish(r)
          /\ spawned' = IF result = "ok" /\ args[r].op = "pay"
                        THEN spawned \cup {r} ELSE spawned
          /\ result = "ok" /\ args[r].op = "pay" =>
               attempt = [Row(r) EXCEPT !.completed_at = "reply"]
      BY <2>13 DEF Finish, Return
    <3>2. attempts \subseteq attempts' /\ (args[r].op = "pay" => Row(r) \in attempts')
      BY <3>1 DEF Publish
    <3>3. /\ Row(r).id = r /\ Row(r).invoice = args[r].invoice
          /\ Row(r).key = args[r].key
          /\ [Row(r) EXCEPT !.completed_at = "reply"].id = r
          /\ [Row(r) EXCEPT !.completed_at = "reply"].outcome = Row(r).outcome
      BY DEF Row
    <3> HIDE DEF Row
    <3>4. \A s \in Requests : s # r => AnswerInv!(s)'
      BY <3>1, <3>2
    <3>5. result = "ok" /\ args[r].op = "pay" =>
            \E a \in attempts' : /\ a.id = attempt.id /\ a.outcome = attempt.outcome
                                /\ a.invoice = args[r].invoice /\ a.key = args[r].key
                                /\ a.id = r
      <4> SUFFICES ASSUME result = "ok", args[r].op = "pay"
                   PROVE  /\ Row(r) \in attempts'
                          /\ Row(r).id = attempt.id /\ Row(r).outcome = attempt.outcome
                          /\ Row(r).invoice = args[r].invoice
                          /\ Row(r).key = args[r].key /\ Row(r).id = r
        OBVIOUS
      <4>1. attempt = [Row(r) EXCEPT !.completed_at = "reply"]
        BY <3>1
      <4> QED
        BY <3>2, <3>3, <4>1
    <3>6. AnswerInv!(r)'
      BY <3>1, <3>2, <3>5
    <3> QED
      BY <3>4, <3>6
  <2>14. CASE Crash
    BY <2>14 DEF Crash, Running
  <2>15. CASE UNCHANGED vars
    BY <2>15 DEF vars
  <2> QED
    BY <2>1, <2>2, <2>3, <2>4, <2>5, <2>6, <2>7, <2>8, <2>9, <2>10, <2>11, <2>12,
       <2>13, <2>14, <2>15, StepCases
    DEF PspReturns, PspAnswer, PspFailure
<1> QED
  BY <1>1, <1>2, Typing, Locking, LedgerInvariant, PspInvariant, PTL DEF Spec

-----------------------------------------------------------------------------
(* The safety properties *)

\* The invariant of the four layers is the one TLC checks.
THEOREM Invariance == Spec => []IInv
<1>1. TypeOK /\ ControlInv /\ LockedInv /\ LedgerInv /\ PspInv /\ AnswerInv => IInv
  BY DEF IInv, LockedInv, LedgerInv
<1> QED
  BY <1>1, Typing, Locking, LedgerInvariant, PspInvariant, AnswerInvariant, PTL

\* However many payments of an invoice race, at most one settles it.
THEOREM PaidOnce == Spec => []SettledOnce
<1>1. IInv => SettledOnce
  BY DEF IInv
<1> QED
  BY <1>1, Invariance, PTL

\* An invoice is paid exactly if a stored attempt succeeded.
THEOREM PaidByAttempt == Spec => []PaidIffSettled
<1>1. IInv => PaidIffSettled
  BY DEF IInv
<1> QED
  BY <1>1, Invariance, PTL

\* The versioned UPDATE of a handler always finds the version it read.
THEOREM SnapshotsAreFresh == Spec => []FreshSnapshot
<1>1. IInv => FreshSnapshot
  BY DEF IInv
<1> QED
  BY <1>1, Invariance, PTL

\* One key of one invoice has one stored attempt, whoever raced for it.
THEOREM KeysAreUnique == Spec => []OneAttemptPerKey
<1>1. IInv => OneAttemptPerKey
  BY DEF IInv
<1> QED
  BY <1>1, Invariance, PTL

\* Every 200 for one key of one invoice reports one attempt with one result.
THEOREM Idempotence == Spec => []ReplaysAgree
<1>1. IInv => ReplaysAgree
  <2> SUFFICES ASSUME IInv PROVE ReplaysAgree
    OBVIOUS
  <2> SUFFICES ASSUME NEW r \in Requests, NEW s \in Requests,
                      resp[r] # None, resp[r].result = "ok", args[r].op = "pay",
                      resp[s] # None, resp[s].result = "ok", args[s].op = "pay",
                      args[r].invoice = args[s].invoice, args[r].key = args[s].key
               PROVE  /\ resp[r].attempt.id = resp[s].attempt.id
                      /\ resp[r].attempt.outcome = resp[s].attempt.outcome
    BY DEF ReplaysAgree
  <2>1. PICK a \in attempts :
          /\ a.id = resp[r].attempt.id /\ a.outcome = resp[r].attempt.outcome
          /\ a.invoice = args[r].invoice /\ a.key = args[r].key
    BY DEF IInv, AnswerInv
  <2>2. PICK b \in attempts :
          /\ b.id = resp[s].attempt.id /\ b.outcome = resp[s].attempt.outcome
          /\ b.invoice = args[s].invoice /\ b.key = args[s].key
    BY DEF IInv, AnswerInv
  <2>3. a.id = b.id
    BY <2>1, <2>2 DEF IInv, OneAttemptPerKey
  <2>4. a.outcome = outcome[a.id] /\ b.outcome = outcome[b.id]
    BY DEF IInv, AttemptInv, Row
  <2> QED
    BY <2>1, <2>2, <2>3, <2>4
<1> QED
  BY <1>1, Invariance, PTL

\* The stored attempts agree with the PSP, and a charge that is answered 200 is stored.
THEOREM Reconciled == Spec => []LedgerMatchesPsp
<1>1. ASSUME IInv, NEW a \in attempts
      PROVE  /\ a.outcome.status # "pending"
             /\ Succeeded(a) => a.id \in charged
             /\ a.outcome.status = "failed" /\ a.outcome.error_code # "psp_error"
                  => a.id \notin charged
  <2>1. a.outcome = outcome[a.id] /\ a.outcome.status # "pending" /\ a.id \in Requests
    BY <1>1 DEF IInv, AttemptInv, Row, TypeOK, AttemptRow
  <2> QED
    BY <1>1, <2>1 DEF IInv, PspInv, Succeeded
<1>2. ASSUME IInv, NEW r \in charged, resp[r] # None, resp[r].result = "ok"
      PROVE  \E a \in attempts :
               a.id = r /\ (Succeeded(a) \/ a.outcome.error_code = "psp_error")
  <2>1. r \in Requests /\ psp[r] # "idle" /\ args[r].op = "pay"
    BY <1>2 DEF IInv, PspInv, TypeOK
  <2>2. PICK a \in attempts : a.id = r
    BY <1>2, <2>1 DEF IInv, AnswerInv
  <2>3. a.outcome.status \in {"pending", "succeeded", "failed"}
    BY <1>2 DEF IInv, TypeOK, AttemptRow, Outcome
  <2> QED
    BY <1>1, <1>2, <2>2, <2>3 DEF Succeeded
<1>3. IInv => LedgerMatchesPsp
  BY <1>1, <1>2 DEF LedgerMatchesPsp
<1> QED
  BY <1>3, Invariance, PTL

\* What webhooks announce is stored.
THEOREM Announcements == Spec => []AnnouncedIsDurable
<1>1. IInv => AnnouncedIsDurable
  BY DEF IInv, AnnouncedIsDurable, AnswerInv, AttemptInv, Row, TypeOK
<1> QED
  BY <1>1, Invariance, PTL

\* An early refusal costs the client nothing.
THEOREM EarlyRefusals == Spec => []RefusedMeansUncharged
<1>1. IInv => RefusedMeansUncharged
  BY DEF IInv, RefusedMeansUncharged, AnswerInv, PspInv, TypeOK
<1> QED
  BY <1>1, Invariance, PTL

-----------------------------------------------------------------------------
(* Steps, and the ledger they implement *)

\* The committed rows change only when an invoice is created or a transaction commits.
LEMMA CommittedSteps ==
  ASSUME [Next]_vars
  PROVE  \/ \E i \in Invoices : CreateInvoice(i)
         \/ \E r \in Requests : pc[r] = "commit" /\ Publish(r)
         \/ UNCHANGED <<invoices, attempts>>
BY StepCases
DEF Arrive, Abort, LookupMiss, LockGranted, UpdateOpened, InsertAttempt, CallPsp,
    PspHandle, PspReturns, PspAnswer, PspFailure, PspResult, SettleFailed, SettlePaid,
    Finish, Crash, vars, database

\* Every committed change of an invoice is one transition on top of the version
\* before it.
THEOREM InvoiceHistory == Spec => InvoiceSteps
<1>1. IInv /\ [Next]_vars =>
        [\A i \in Invoices :
           \/ invoices'[i] = invoices[i]
           \/ invoices[i].state = "absent" /\ invoices'[i].state = "draft"
           \/ /\ \E t \in AllowedTransitions(invoices[i].state) :
                   invoices'[i].state = Apply(invoices[i].state, t)
              /\ invoices'[i].version = invoices[i].version + 1]_vars
  <2> SUFFICES ASSUME IInv, [Next]_vars, NEW i \in Invoices
               PROVE  \/ invoices'[i] = invoices[i]
                      \/ invoices[i].state = "absent" /\ invoices'[i].state = "draft"
                      \/ /\ \E t \in AllowedTransitions(invoices[i].state) :
                              invoices'[i].state = Apply(invoices[i].state, t)
                         /\ invoices'[i].version = invoices[i].version + 1
    OBVIOUS
  <2> invoices \in [Invoices -> InvoiceRow]
    BY DEF IInv, TypeOK
  <2>1. CASE \E j \in Invoices : CreateInvoice(j)
    BY <2>1 DEF CreateInvoice
  <2>2. ASSUME NEW r \in Requests, pc[r] = "commit", Publish(r),
               invoices'[i] # invoices[i]
        PROVE  /\ \E t \in AllowedTransitions(invoices[i].state) :
                     invoices'[i].state = Apply(invoices[i].state, t)
               /\ invoices'[i].version = invoices[i].version + 1
    <3>1. TypeOK /\ ControlInv /\ LockedInv /\ LedgerInv
      BY DEF IInv, LockedInv, LedgerInv
    <3> DEFINE j == args[r].invoice
    <3>2. args[r] \in Args /\ j \in Invoices /\ args[r].op \in {"pay", "open"}
      BY <2>2, <3>1, Publishing DEF Args
    <3>3. CASE args[r].op = "pay"
      <4>1. /\ invoices[j].state = "open"
            /\ invoices' = [invoices EXCEPT
                 ![j] = [state |-> "paid", version |-> invoices[j].version + 1]]
        BY <2>2, <3>1, <3>3, Publishing
      <4>2. "MarkPaid" \in AllowedTransitions("open") /\ Apply("open", "MarkPaid") = "paid"
        BY DEF AllowedTransitions, Apply
      <4> QED
        BY <2>2, <3>2, <4>1, <4>2
    <3>4. CASE args[r].op = "open"
      <4>1. /\ invoices[j].state = "draft"
            /\ invoices' = [invoices EXCEPT
                 ![j] = [state |-> "open", version |-> invoices[j].version + 1]]
        BY <2>2, <3>1, <3>4, Publishing
      <4>2. "MarkOpen" \in AllowedTransitions("draft") /\ Apply("draft", "MarkOpen") = "open"
        BY DEF AllowedTransitions, Apply
      <4> QED
        BY <2>2, <3>2, <4>1, <4>2
    <3> QED
      BY <3>2, <3>3, <3>4
  <2> QED
    BY <2>1, <2>2, CommittedSteps
<1> QED
  BY <1>1, Invariance, PTL DEF Spec, InvoiceSteps

\* The interleaved handlers implement the ledger of module PaymentLedger.
THEOREM Implementation == Spec => LedgerSpec
<1> USE DEF Ledger!Record, Ledger!LogEntry
<1>1. Init => Ledger!Init
  BY DEF Init, Ledger!Init, NoInvoice
<1>2. IInv /\ [Next]_vars => [Ledger!Next]_(Ledger!vars)
  <2> SUFFICES ASSUME IInv, [Next]_vars
               PROVE  [Ledger!Next]_(Ledger!vars)
    OBVIOUS
  <2> DEFINE Entry(a) == [id |-> a.id, invoice |-> a.invoice, key |-> a.key,
                          status |-> a.outcome.status]
             state == [i \in Invoices |-> invoices[i].state]
             log == {Entry(a) : a \in attempts}
  <2>1. TypeOK /\ ControlInv /\ LockedInv /\ LedgerInv
    BY DEF IInv, LockedInv, LedgerInv
  <2>2. ASSUME NEW i \in Invoices, CreateInvoice(i)
        PROVE  Ledger!Create(i)
    BY <2>1, <2>2 DEF CreateInvoice, Ledger!Create, TypeOK
  <2>3. ASSUME NEW r \in Requests, pc[r] = "commit", Publish(r)
        PROVE  Ledger!Next
    <3> invoices \in [Invoices -> InvoiceRow]
      BY <2>1 DEF TypeOK
    <3>0. PICK j \in Invoices : j = args[r].invoice
      BY <2>1, <2>3, Publishing DEF Args
    <3>1. args[r].op \in {"pay", "open"}
      BY <2>1, <2>3, Publishing DEF Args
    <3>2. CASE args[r].op = "open"
      <4>1. /\ invoices[j].state = "draft" /\ attempts' = attempts
            /\ invoices' = [invoices EXCEPT
                 ![j] = [state |-> "open", version |-> invoices[j].version + 1]]
        BY <2>1, <2>3, <3>0, <3>2, Publishing
      <4>2. Ledger!Open(j)
        BY <4>1 DEF Ledger!Open
      <4> QED
        BY <4>2 DEF Ledger!Next
    <3>3. CASE args[r].op = "pay"
      <4>0. PICK entry : entry = Entry(Row(r))
        OBVIOUS
      <4>1. /\ attempts' = attempts \cup {Row(r)}
            /\ Row(r) \in AttemptRow
            /\ \A a \in attempts : a.invoice = j => a.key # args[r].key
            /\ \A a \in attempts : a.id # r
            /\ outcome[r].status \in {"succeeded", "failed"}
        BY <2>1, <2>3, <3>0, <3>3, Publishing
      <4>2. /\ entry.id = r /\ entry.invoice = j /\ entry.key = args[r].key
            /\ entry.status = outcome[r].status
            /\ entry \in Ledger!LogEntry
        BY <3>0, <4>0, <4>1 DEF Row, AttemptRow
      <4>3. log' = log \cup {entry}
        BY <4>0, <4>1
      <4>4. Ledger!Record(entry)
        BY <4>1, <4>2, <4>3
      <4>5. CASE outcome[r].status = "succeeded"
        <5>1. /\ invoices[j].state = "open"
              /\ invoices' = [invoices EXCEPT
                   ![j] = [state |-> "paid", version |-> invoices[j].version + 1]]
          BY <2>1, <2>3, <3>0, <3>3, <4>5, Publishing
        <5>2. Ledger!Settle(entry)
          BY <4>2, <4>4, <4>5, <5>1 DEF Ledger!Settle
        <5> QED
          BY <4>2, <5>2 DEF Ledger!Next
      <4>6. CASE outcome[r].status = "failed"
        <5>1. invoices' = invoices /\ invoices[j].state \in {"draft", "open"}
          BY <2>1, <2>3, <3>0, <3>3, <4>6, Publishing
        <5>2. Ledger!Fail(entry)
          BY <4>2, <4>4, <4>6, <5>1 DEF Ledger!Fail
        <5> QED
          BY <4>2, <5>2 DEF Ledger!Next
      <4> QED
        BY <4>1, <4>5, <4>6
    <3> QED
      BY <3>1, <3>2, <3>3
  <2>4. CASE UNCHANGED <<invoices, attempts>>
    BY <2>4 DEF Ledger!vars
  <2> QED
    BY <2>2, <2>3, <2>4, CommittedSteps DEF Ledger!Next
<1> QED
  BY <1>1, <1>2, Invariance, PTL DEF Spec, LedgerSpec, Ledger!Spec

=============================================================================
