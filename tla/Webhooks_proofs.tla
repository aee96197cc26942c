-------------------------- MODULE Webhooks_proofs --------------------------
(***************************************************************************)
(* Proofs about module Webhooks, for any events, endpoints, limits and     *)
(* number of faults.  The inductive invariant IInv is proved in layers:    *)
(* typing, the life of a row, what the worker has in hand, the counts of   *)
(* POSTs, POSTs to deleted endpoints.  From it follow that final statuses  *)
(* are final and that the whole implements WebhookPromise.                 *)
(***************************************************************************)
EXTENDS Webhooks, SequenceTheorems, TLAPS

-----------------------------------------------------------------------------
(* Sequences *)

\* What a batch becomes when the worker takes its first delivery
LEMMA HeadAndTail ==
  ASSUME NEW S, NEW s \in Seq(S), s # <<>>
  PROVE  /\ Tail(s) \in Seq(S)
         /\ Head(s) = s[1] /\ 1 \in DOMAIN s
         /\ \A n \in DOMAIN Tail(s) :
              n + 1 \in DOMAIN s /\ n + 1 # 1 /\ Tail(s)[n] = s[n + 1]
<1>1. /\ Tail(s) \in Seq(S) /\ Len(Tail(s)) = Len(s) - 1
      /\ \A n \in 1..Len(Tail(s)) : Tail(s)[n] = s[n + 1]
  BY HeadTailProperties
<1>2. Len(s) \in Nat \ {0} /\ DOMAIN s = 1..Len(s) /\ DOMAIN Tail(s) = 1..Len(Tail(s))
  BY <1>1, EmptySeq, LenProperties
<1>3. Head(s) = s[1]
  OBVIOUS
<1> QED
  BY <1>1, <1>2, <1>3

\* What an insertion adds to created
LEMMA AppendedSet ==
  ASSUME NEW S, NEW s \in Seq(S), NEW x \in S,
         \A m, n \in DOMAIN s : s[m] = s[n] => m = n,
         \A n \in DOMAIN s : s[n] # x
  PROVE  LET t == Append(s, x)
         IN /\ t \in Seq(S)
            /\ {t[n] : n \in DOMAIN t} = {s[n] : n \in DOMAIN s} \cup {x}
            /\ \A m, n \in DOMAIN t : t[m] = t[n] => m = n
<1> DEFINE t == Append(s, x)
<1>1. /\ t \in Seq(S) /\ Len(t) = Len(s) + 1 /\ t[Len(s) + 1] = x
      /\ \A n \in 1..Len(s) : t[n] = s[n]
  BY AppendProperties
<1>2. Len(s) \in Nat /\ DOMAIN s = 1..Len(s) /\ DOMAIN t = 1..(Len(s) + 1)
  BY <1>1, LenProperties
<1> HIDE DEF t
<1>3. {t[n] : n \in DOMAIN t} = {s[n] : n \in DOMAIN s} \cup {x}
  BY <1>1, <1>2
<1>4. \A m, n \in DOMAIN t : t[m] = t[n] => m = n
  BY <1>1, <1>2
<1> QED
  BY <1>1, <1>3, <1>4 DEF t

-----------------------------------------------------------------------------
(* Typing *)

\* The limits are positive.
LEMMA Constants ==
  MaxAttempts \in Nat \ {0} /\ BatchLimit \in Nat \ {0} /\ MaxFaults \in Nat
BY LimitsAssumption

\* The rows the handlers, tasks and the worker write are rows.
LEMMA Rows ==
  /\ NoRow \in DeliveryRow
  /\ [status |-> "pending", attempt |-> 1, due |-> TRUE] \in DeliveryRow
  /\ \A old \in DeliveryRow :
       /\ \A s \in Status : [old EXCEPT !.status = s] \in DeliveryRow
       /\ [old EXCEPT !.due = TRUE] \in DeliveryRow
       /\ \A n \in 1..MaxAttempts : [old EXCEPT !.attempt = n, !.due = FALSE] \in DeliveryRow
<1> USE Constants DEF DeliveryRow, Status
<1>1. NoRow \in DeliveryRow
  BY DEF NoRow
<1>2. [status |-> "pending", attempt |-> 1, due |-> TRUE] \in DeliveryRow
  OBVIOUS
<1>3. ASSUME NEW old \in DeliveryRow
      PROVE  /\ \A s \in Status : [old EXCEPT !.status = s] \in DeliveryRow
             /\ [old EXCEPT !.due = TRUE] \in DeliveryRow
             /\ \A n \in 1..MaxAttempts :
                  [old EXCEPT !.attempt = n, !.due = FALSE] \in DeliveryRow
  OBVIOUS
<1> QED
  BY <1>1, <1>2, <1>3

\* A batch holds pending deliveries, each once, with the attempt that was read.
LEMMA Batch ==
  ASSUME TypeOK, FetchBatch
  PROVE  \E ids :
           /\ batch' = [n \in DOMAIN ids |->
                         [id |-> ids[n], attempt |-> row[ids[n]].attempt]]
           /\ batch' \in Seq(Claim)
           /\ DOMAIN batch' = DOMAIN ids
           /\ \A n \in DOMAIN ids : ids[n] \in Deliveries /\ IsPending(ids[n])
           /\ \A m, n \in DOMAIN ids : m \in Int /\ n \in Int
                                       /\ (m < n => Before(ids[m], ids[n]))
<1> DEFINE pending == {d \in Deliveries : IsPending(d)}
<1>1. PICK ids \in Oldest(pending) :
        batch' = [n \in DOMAIN ids |-> [id |-> ids[n], attempt |-> row[ids[n]].attempt]]
  BY DEF FetchBatch
<1>2. /\ ids \in UNION {[1..size -> pending] : size \in 0..BatchLimit}
      /\ \A m, n \in DOMAIN ids : m < n => Before(ids[m], ids[n])
  BY DEF Oldest
<1>3. PICK size \in 0..BatchLimit : ids \in [1..size -> pending]
  BY <1>2
<1> HIDE DEF pending
<1>4. DOMAIN ids = 1..size /\ size \in Nat /\ \A n \in 1..size : ids[n] \in pending
  BY <1>3, Constants
<1>5. \A n \in 1..size : ids[n] \in Deliveries /\ IsPending(ids[n])
  BY <1>4 DEF pending
<1>6. \A n \in 1..size : [id |-> ids[n], attempt |-> row[ids[n]].attempt] \in Claim
  <2> SUFFICES ASSUME NEW n \in 1..size
               PROVE  [id |-> ids[n], attempt |-> row[ids[n]].attempt] \in Claim
    OBVIOUS
  <2>1. ids[n] \in Deliveries /\ row[ids[n]] \in DeliveryRow
    BY <1>5 DEF TypeOK
  <2> QED
    BY <2>1 DEF Claim, DeliveryRow
<1>7. batch' \in [1..size -> Claim]
  BY <1>1, <1>4, <1>6
<1>8. batch' \in Seq(Claim)
  BY <1>4, <1>7, SeqDef
<1> QED
  BY <1>1, <1>2, <1>4, <1>5, <1>7, <1>8

\* Faults never exceed their bound.
LEMMA FaultsBounded ==
  /\ 0 \in 0..MaxFaults
  /\ faults \in 0..MaxFaults /\ Fault => faults' \in 0..MaxFaults
BY Constants DEF Fault

\* Every reachable state is well typed.
THEOREM Typing == Spec => []TypeOK
<1>1. Init => TypeOK
  <2>1. <<>> \in Seq(Deliveries) /\ <<>> \in Seq(Claim)
    BY EmptySeq
  <2>2. Init => row \in [Deliveries -> DeliveryRow]
    BY Rows DEF Init
  <2>3. Init => faults \in 0..MaxFaults
    BY FaultsBounded DEF Init
  <2> QED
    BY <2>1, <2>2, <2>3 DEF Init, TypeOK, WorkerPc
<1>2. TypeOK /\ [Next]_vars => TypeOK'
  <2> SUFFICES ASSUME TypeOK, [Next]_vars
               PROVE  TypeOK'
    OBVIOUS
  <2> USE DEF TypeOK, enqueue, table, worker, history, WorkerPc, WorkerGoto, NextInBatch,
          DropBatch, UpdateRow
  <2>1. ASSUME NEW e \in Endpoints, Register(e)
        PROVE  TypeOK'
    BY <2>1 DEF Register
  <2>2. ASSUME NEW e \in Endpoints, Delete(e)
        PROVE  TypeOK'
    BY <2>2, Rows DEF Delete
  <2>3. ASSUME NEW v \in Events, Spawn(v) \/ ReadEndpoints(v) \/ TaskFault(v)
        PROVE  TypeOK'
    <3>1. CASE Spawn(v)
      BY <3>1 DEF Spawn
    <3>2. CASE ReadEndpoints(v)
      BY <3>2 DEF ReadEndpoints, Live
    <3>3. CASE TaskFault(v)
      BY <3>3, FaultsBounded DEF TaskFault
    <3> QED
      BY <2>3, <3>1, <3>2, <3>3
  <2>4. ASSUME NEW v \in Events, NEW e \in Endpoints, InsertDelivery(v, e)
        PROVE  TypeOK'
    <3>1. <<v, e>> \in Deliveries
      BY DEF Deliveries
    <3>2. created' \in Seq(Deliveries)
      BY <2>4, <3>1, AppendProperties DEF InsertDelivery
    <3> QED
      BY <2>4, <3>1, <3>2, Rows DEF InsertDelivery
  <2>5. ASSUME NEW v \in Events, NEW e \in Endpoints, InsertRefused(v, e)
        PROVE  TypeOK'
    BY <2>5 DEF InsertRefused
  <2>6. CASE FetchBatch
    <3>1. batch' \in Seq(Claim)
      BY <2>6, Batch
    <3> QED
      BY <2>6, <3>1 DEF FetchBatch
  <2>7. CASE BatchDone
    BY <2>7 DEF BatchDone
  <2>8. CASE FetchEndpoint
    <3>1. Head(batch) \in Claim /\ Tail(batch) \in Seq(Claim)
      BY <2>8, HeadTailProperties DEF FetchEndpoint
    <3> QED
      BY <2>8, <3>1 DEF FetchEndpoint
  <2>9. CASE EndpointNotFound
    <3>1. Head(batch) \in Claim /\ Tail(batch) \in Seq(Claim)
      BY <2>9, HeadTailProperties DEF EndpointNotFound
    <3>2. Head(batch).id \in Deliveries
      BY <3>1 DEF Claim
    <3> QED
      BY <2>9, <3>1, <3>2, Rows DEF EndpointNotFound, Status
  <2>10. ASSUME NEW ack \in BOOLEAN, NEW ok \in BOOLEAN, Post(ack, ok)
         PROVE  TypeOK'
    <3>1. cur.id \in Deliveries /\ cur.id[2] \in Endpoints
      BY <2>10 DEF Post, Claim, Deliveries
    <3>2. posts' \in [Deliveries -> Nat] /\ acked' \subseteq Deliveries
      BY <2>10, <3>1 DEF Post
    <3>3. late' \in [Endpoints -> Nat]
      BY <2>10, <3>1 DEF Post
    <3>4. /\ wpc = "post" /\ wpc' \in {"delivered", "retry"}
          /\ UNCHANGED <<endpoint, task, todo, row, created, batch, cur, faults>>
      BY <2>10 DEF Post
    <3> QED
      BY <3>2, <3>3, <3>4
  <2>11. CASE MarkDelivered \/ MarkFailed \/ MarkExhausted
    <3>1. cur \in Claim
      BY <2>11 DEF MarkDelivered, MarkFailed, MarkExhausted
    <3>2. cur.id \in Deliveries
      BY <3>1 DEF Claim
    <3>3. row' \in [Deliveries -> DeliveryRow]
      <4>1. PICK s \in Status :
              row' = IF row[cur.id].status = "none" THEN row
                     ELSE [row EXCEPT ![cur.id] = [row[cur.id] EXCEPT !.status = s]]
        BY <2>11 DEF MarkDelivered, MarkFailed, MarkExhausted, Status
      <4>2. [row[cur.id] EXCEPT !.status = s] \in DeliveryRow
        BY <3>2, Rows
      <4> QED
        BY <3>2, <4>1, <4>2
    <3> QED
      BY <2>11, <3>1, <3>3 DEF MarkDelivered, MarkFailed, MarkExhausted
  <2>12. CASE Reschedule
    <3>1. cur.id \in Deliveries /\ cur.attempt + 1 \in 1..MaxAttempts
      BY <2>12, Constants DEF Reschedule, Claim
    <3> QED
      BY <2>12, <3>1, Rows DEF Reschedule
  <2>13. CASE WorkerFault \/ Crash
    <3>1. <<>> \in Seq(Claim)
      BY EmptySeq
    <3> QED
      BY <2>13, <3>1, FaultsBounded DEF WorkerFault, Crash
  <2>14. ASSUME NEW d \in Deliveries, Elapse(d)
         PROVE  TypeOK'
    BY <2>14, Rows DEF Elapse
  <2>15. CASE UNCHANGED vars
    BY <2>15 DEF vars
  <2> QED
    BY <2>1, <2>2, <2>3, <2>4, <2>5, <2>6, <2>7, <2>8, <2>9, <2>10, <2>11, <2>12,
       <2>13, <2>14, <2>15 DEF Next, Task, Worker
<1> QED
  BY <1>1, <1>2, PTL DEF Spec

-----------------------------------------------------------------------------
(* The life of a row *)

\* Nothing the worker does, nor time, adds a row or takes one away.
LEMMA WorkerKeepsRows ==
  ASSUME TypeOK,
         Worker \/ WorkerFault \/ \E d \in Deliveries : Elapse(d)
  PROVE  /\ UNCHANGED <<endpoint, task, todo, created>>
         /\ \A d \in Deliveries : row'[d].status = "none" <=> row[d].status = "none"
<1> USE DEF enqueue, table, worker, history
<1>1. /\ UNCHANGED <<endpoint, task, todo, created>>
      /\ \/ row' = row
         \/ \E d \in Deliveries : row' = [row EXCEPT ![d].due = TRUE]
         \/ EndpointNotFound \/ MarkDelivered \/ Reschedule \/ MarkFailed \/ MarkExhausted
  BY DEF Worker, WorkerFault, Elapse, FetchBatch, BatchDone, FetchEndpoint,
         EndpointNotFound, Post, MarkDelivered, Reschedule, MarkFailed, MarkExhausted
<1>2. row \in [Deliveries -> DeliveryRow]
  BY DEF TypeOK
<1>3. ASSUME NEW d \in Deliveries, row' = [row EXCEPT ![d].due = TRUE]
      PROVE  \A c \in Deliveries : row'[c].status = "none" <=> row[c].status = "none"
  BY <1>2, <1>3 DEF DeliveryRow
<1>4. ASSUME NEW d, NEW s \in Status \ {"none"},
             UpdateRow(d, [row[d] EXCEPT !.status = s])
      PROVE  \A c \in Deliveries : row'[c].status = "none" <=> row[c].status = "none"
  BY <1>2, <1>4 DEF UpdateRow, DeliveryRow
<1>5. ASSUME NEW d, NEW n, UpdateRow(d, [row[d] EXCEPT !.attempt = n, !.due = FALSE])
      PROVE  \A c \in Deliveries : row'[c].status = "none" <=> row[c].status = "none"
  BY <1>2, <1>5 DEF UpdateRow, DeliveryRow
<1>6. {"failed", "delivered", "exhausted"} \subseteq Status \ {"none"}
  BY DEF Status
<1>7. CASE EndpointNotFound
  BY <1>4, <1>6, <1>7 DEF EndpointNotFound
<1>8. CASE MarkDelivered \/ MarkFailed \/ MarkExhausted
  BY <1>4, <1>6, <1>8 DEF MarkDelivered, MarkFailed, MarkExhausted
<1>9. CASE Reschedule
  BY <1>5, <1>9 DEF Reschedule
<1> QED
  BY <1>1, <1>3, <1>7, <1>8, <1>9

\* A delivery is inserted once, and its row stays until its endpoint is deleted.
THEOREM RowLife == Spec => []QueueInv
<1>1. Init => QueueInv
  BY DEF Init, QueueInv, Created, Gone, NoRow, Deliveries
<1>2. TypeOK /\ QueueInv /\ [Next]_vars => QueueInv'
  <2> SUFFICES ASSUME TypeOK, QueueInv, [Next]_vars
               PROVE  QueueInv'
    OBVIOUS
  <2> USE DEF enqueue, table, worker, history
  <2>0. /\ row \in [Deliveries -> DeliveryRow]
        /\ task \in [Events -> {"none", "spawned", "inserting", "ended"}]
        /\ todo \in [Events -> SUBSET Endpoints]
        /\ endpoint \in [Endpoints -> {"absent", "live", "deleted"}]
        /\ \A d \in Deliveries : d[1] \in Events /\ d[2] \in Endpoints
    BY DEF TypeOK, Deliveries
  <2>1. ASSUME NEW e \in Endpoints, Register(e)
        PROVE  QueueInv'
    BY <2>0, <2>1 DEF Register, QueueInv, Created, Gone
  <2>2. ASSUME NEW e \in Endpoints, Delete(e)
        PROVE  QueueInv'
    <3>1. \A d \in Deliveries :
            row'[d].status # "none" <=> row[d].status # "none" /\ d[2] # e
      BY <2>0, <2>2 DEF Delete, NoRow
    <3> QED
      BY <2>0, <2>2, <3>1 DEF Delete, QueueInv, Created, Gone
  <2>3. ASSUME NEW v \in Events, Spawn(v)
        PROVE  QueueInv'
    BY <2>0, <2>3 DEF Spawn, QueueInv, Created, Gone
  <2>4. ASSUME NEW v \in Events, ReadEndpoints(v)
        PROVE  QueueInv'
    BY <2>0, <2>4 DEF ReadEndpoints, QueueInv, Created, Gone, Live
  <2>5. ASSUME NEW v \in Events, NEW e \in Endpoints, InsertDelivery(v, e)
        PROVE  QueueInv'
    <3>1. /\ <<v, e>> \in Deliveries /\ <<v, e>> \notin Created
          /\ endpoint[e] = "live" /\ endpoint' = endpoint
          /\ created' = Append(created, <<v, e>>)
      BY <2>5 DEF InsertDelivery, QueueInv, Deliveries, Live
    <3>2. /\ Created' = Created \cup {<<v, e>>}
          /\ (\A m, n \in DOMAIN created : created[m] = created[n] => m = n)'
      <4> DEFINE t == Append(created, <<v, e>>)
      <4>1. /\ created \in Seq(Deliveries)
            /\ \A m, n \in DOMAIN created : created[m] = created[n] => m = n
            /\ \A n \in DOMAIN created : created[n] # <<v, e>>
        BY <3>1 DEF Created, QueueInv, TypeOK
      <4>2. /\ {t[n] : n \in DOMAIN t} = {created[n] : n \in DOMAIN created} \cup {<<v, e>>}
            /\ \A m, n \in DOMAIN t : t[m] = t[n] => m = n
        BY <3>1, <4>1, AppendedSet
      <4> QED
        BY <3>1, <4>2 DEF Created
    <3>3. \A d \in Deliveries :
            row'[d].status # "none" <=> row[d].status # "none" \/ d = <<v, e>>
      BY <2>0, <2>5, <3>1 DEF InsertDelivery
    <3>4. \A w \in Events : todo'[w] \subseteq todo[w]
      BY <2>0, <2>5 DEF InsertDelivery
    <3>5. \A d \in Deliveries :
            /\ task'[d[1]] \in {"none", "spawned"} => d \notin Created'
            /\ task'[d[1]] = "inserting" /\ d[2] \in todo'[d[1]] => d \notin Created'
      <4> SUFFICES ASSUME NEW d \in Deliveries
                   PROVE  /\ task'[d[1]] \in {"none", "spawned"} => d \notin Created'
                          /\ task'[d[1]] = "inserting" /\ d[2] \in todo'[d[1]]
                               => d \notin Created'
        OBVIOUS
      <4>1. d = <<v, e>> <=> d[1] = v /\ d[2] = e
        BY DEF Deliveries
      <4> QED
        BY <2>0, <2>5, <3>2, <4>1 DEF InsertDelivery, QueueInv
    <3> QED
      BY <2>0, <3>1, <3>2, <3>3, <3>4, <3>5 DEF QueueInv, Gone
  <2>6. ASSUME NEW v \in Events, TaskFault(v) \/ \E e \in Endpoints : InsertRefused(v, e)
        PROVE  QueueInv'
    BY <2>0, <2>6 DEF TaskFault, InsertRefused, QueueInv, Created, Gone
  <2>7. CASE Crash
    BY <2>0, <2>7 DEF Crash, QueueInv, Created, Gone
  <2>8. CASE Worker \/ WorkerFault \/ \E d \in Deliveries : Elapse(d)
    BY <2>0, <2>8, WorkerKeepsRows DEF QueueInv, Created, Gone
  <2>9. CASE UNCHANGED vars
    BY <2>9 DEF vars, QueueInv, Created, Gone
  <2> QED
    BY <2>1, <2>2, <2>3, <2>4, <2>5, <2>6, <2>7, <2>8, <2>9 DEF Next, Task
<1> QED
  BY <1>1, <1>2, Typing, PTL DEF Spec

\* No delivery outlives its endpoint.
THEOREM NoDeliveryOutlives == Spec => []NoOrphans
<1>1. TypeOK /\ QueueInv => NoOrphans
  BY DEF TypeOK, QueueInv, NoOrphans, Gone, Live, Deliveries
<1> QED
  BY <1>1, Typing, RowLife, PTL

-----------------------------------------------------------------------------
(* What the worker has in hand *)

\* What is in hand is a claim on a delivery.
LEMMA InHand ==
  ASSUME TypeOK
  PROVE  /\ \A n \in DOMAIN batch : batch[n] \in Claim /\ batch[n].id \in Deliveries
                                    /\ batch[n].attempt \in 1..MaxAttempts
         /\ wpc \in WorkerPc
         /\ wpc \notin {"sleep", "next"} =>
              cur \in Claim /\ cur.id \in Deliveries /\ cur.attempt \in 1..MaxAttempts
<1>1. \A n \in DOMAIN batch : batch[n] \in Claim
  BY ElementOfSeq, LenProperties DEF TypeOK
<1> QED
  BY <1>1 DEF TypeOK, Claim

\* The worker's hands are as they were, and so are the rows of what it holds.
LEMMA ClaimsFrame ==
  ASSUME TypeOK, ClaimsInv, UNCHANGED worker, Created \subseteq Created',
         \A d \in Created : \/ row'[d] = row[d]
                            \/ row'[d].status = "none"
                            \/ row[d].status = "pending" /\ ~row[d].due
  PROVE  ClaimsInv'
<1>1. UNCHANGED <<wpc, batch, cur>>
  BY DEF worker
<1>2. ASSUME NEW claim \in Claim, Fresh(claim)
      PROVE  \/ row'[claim.id].status = "none"
             \/ row'[claim.id] = [status |-> "pending", attempt |-> claim.attempt, due |-> TRUE]
  BY <1>2 DEF Fresh
<1>3. \A claim \in Claim : Fresh(claim) => Fresh(claim)'
  BY <1>2 DEF Fresh
<1> QED
  BY <1>1, <1>3, InHand DEF ClaimsInv

\* The worker turns from one delivery to the next, having written no row but that one's.
LEMMA ClaimsNext ==
  ASSUME TypeOK, ClaimsInv, NextInBatch, UNCHANGED <<created, batch>>,
         wpc \notin {"sleep", "next"},
         \A d \in Deliveries : d # cur.id => row'[d] = row[d]
  PROVE  ClaimsInv'
<1>1. wpc' = "next"
  BY DEF NextInBatch, WorkerGoto
<1> QED
  BY <1>1, InHand DEF ClaimsInv, Fresh, Created

\* An UPDATE by the worker changes no row but the one it names.
LEMMA UpdateOne ==
  ASSUME TypeOK, NEW d \in Deliveries, NEW new, UpdateRow(d, new)
  PROVE  /\ \A c \in Deliveries : c # d => row'[c] = row[c]
         /\ row'[d] = IF row[d].status = "none" THEN row[d] ELSE new
BY DEF UpdateRow, TypeOK

\* Nobody but the worker writes a row that it has in hand, unless to delete it.
THEOREM Claims == Spec => []ClaimsInv
<1>1. Init => ClaimsInv
  BY DEF Init, ClaimsInv
<1>2. TypeOK /\ TypeOK' /\ QueueInv /\ NoOrphans /\ ClaimsInv /\ [Next]_vars => ClaimsInv'
  <2> SUFFICES ASSUME TypeOK, TypeOK', QueueInv, NoOrphans, ClaimsInv, [Next]_vars
               PROVE  ClaimsInv'
    OBVIOUS
  <2> USE DEF enqueue, table, worker, history
  <2>0. /\ row \in [Deliveries -> DeliveryRow]
        /\ Created \subseteq Deliveries
    BY ElementOfSeq, LenProperties DEF TypeOK, Created
  <2>1. CASE \/ \E e \in Endpoints : Register(e)
             \/ \E v \in Events : Spawn(v) \/ ReadEndpoints(v) \/ TaskFault(v)
             \/ \E v \in Events, e \in Endpoints : InsertRefused(v, e)
             \/ UNCHANGED vars
    <3>1. UNCHANGED <<table, worker>>
      BY <2>1 DEF Register, Spawn, ReadEndpoints, TaskFault, InsertRefused, vars
    <3> QED
      BY <3>1, ClaimsFrame DEF Created
  <2>2. ASSUME NEW e \in Endpoints, Delete(e)
        PROVE  ClaimsInv'
    <3>1. \A d \in Deliveries : row'[d] = row[d] \/ row'[d].status = "none"
      BY <2>2 DEF Delete, NoRow
    <3>2. UNCHANGED <<created, worker>>
      BY <2>2 DEF Delete
    <3> QED
      BY <2>0, <3>1, <3>2, ClaimsFrame DEF Created
  <2>3. ASSUME NEW v \in Events, NEW e \in Endpoints, InsertDelivery(v, e)
        PROVE  ClaimsInv'
    <3>1. <<v, e>> \in Deliveries /\ <<v, e>> \notin Created /\ UNCHANGED worker
      BY <2>3 DEF InsertDelivery, QueueInv, Deliveries
    <3>2. \A d \in Created : row'[d] = row[d]
      BY <2>0, <2>3, <3>1 DEF InsertDelivery
    <3>3. Created \subseteq Created'
      <4>1. created \in Seq(Deliveries) /\ created' = Append(created, <<v, e>>)
        BY <2>3 DEF InsertDelivery, TypeOK
      <4>2. \A n \in DOMAIN created : n \in DOMAIN created' /\ created'[n] = created[n]
        BY <3>1, <4>1, AppendProperties, LenProperties
      <4> QED
        BY <4>2 DEF Created
    <3> QED
      BY <3>1, <3>2, <3>3, ClaimsFrame
  <2>4. CASE FetchBatch
    <3>1. PICK ids :
            /\ batch' = [n \in DOMAIN ids |->
                          [id |-> ids[n], attempt |-> row[ids[n]].attempt]]
            /\ DOMAIN batch' = DOMAIN ids
            /\ \A n \in DOMAIN ids : ids[n] \in Deliveries /\ IsPending(ids[n])
            /\ \A m, n \in DOMAIN ids : m \in Int /\ n \in Int
                                        /\ (m < n => Before(ids[m], ids[n]))
      BY <2>4, Batch
    <3>2. \A d \in Deliveries : ~Before(d, d)
      <4> SUFFICES ASSUME NEW d \in Deliveries, Before(d, d)
                   PROVE  FALSE
        OBVIOUS
      <4>1. PICK m, n \in DOMAIN created : m < n /\ created[m] = d /\ created[n] = d
        BY DEF Before
      <4>2. DOMAIN created = 1..Len(created) /\ Len(created) \in Nat
        BY LenProperties DEF TypeOK
      <4> QED
        BY <4>1, <4>2 DEF QueueInv
    <3>3. ASSUME NEW m \in DOMAIN batch', NEW n \in DOMAIN batch',
                 batch'[m].id = batch'[n].id
          PROVE  m = n
      <4>1. ids[m] = ids[n]
        BY <3>1, <3>3
      <4> QED
        BY <3>1, <3>2, <4>1
    <3>4. ASSUME NEW n \in DOMAIN batch'
          PROVE  Fresh(batch[n])'
      <4>1. /\ batch'[n] = [id |-> ids[n], attempt |-> row[ids[n]].attempt]
            /\ ids[n] \in Deliveries /\ row[ids[n]].status = "pending" /\ row[ids[n]].due
        BY <3>1, <3>4 DEF IsPending
      <4>2. ids[n] \in Created
        BY <4>1 DEF QueueInv
      <4>3. row[ids[n]] = [status |-> "pending", attempt |-> row[ids[n]].attempt, due |-> TRUE]
        BY <2>0, <4>1 DEF DeliveryRow
      <4>4. UNCHANGED <<row, created>>
        BY <2>4 DEF FetchBatch
      <4> QED
        BY <4>1, <4>2, <4>3, <4>4 DEF Fresh, Created
    <3>5. wpc' = "next"
      BY <2>4 DEF FetchBatch, WorkerGoto
    <3> QED
      BY <3>3, <3>4, <3>5 DEF ClaimsInv
  <2>5. CASE BatchDone
    <3>1. batch' = <<>> /\ wpc' = "sleep"
      BY <2>5 DEF BatchDone, WorkerGoto
    <3> QED
      BY <3>1 DEF ClaimsInv
  <2>6. CASE FetchEndpoint \/ EndpointNotFound
    <3>1. /\ batch \in Seq(Claim) /\ batch # <<>> /\ batch' = Tail(batch)
          /\ UNCHANGED created
          /\ \/ wpc' = "post" /\ cur' = Head(batch)
             \/ wpc' = "next"
      BY <2>6 DEF FetchEndpoint, EndpointNotFound, TypeOK, WorkerGoto
    <3>2. /\ 1 \in DOMAIN batch /\ Head(batch) = batch[1]
          /\ \A n \in DOMAIN batch' :
               n + 1 \in DOMAIN batch /\ n + 1 # 1 /\ batch'[n] = batch[n + 1]
      BY <3>1, HeadAndTail
    <3>3. row' = row
      <4>1. CASE FetchEndpoint
        BY <4>1 DEF FetchEndpoint
      <4>2. CASE EndpointNotFound
        <5>1. batch[1].id \in Deliveries /\ batch[1].id[2] \notin Live
          BY <3>2, <4>2, InHand DEF EndpointNotFound
        <5> QED
          BY <3>2, <4>2, <5>1 DEF EndpointNotFound, UpdateRow, NoOrphans
      <4> QED
        BY <2>6, <4>1, <4>2
    <3>4. \A claim : Fresh(claim) => Fresh(claim)'
      BY <3>1, <3>3 DEF Fresh, Created
    <3>5. DOMAIN batch' \subseteq Int
      BY <3>1, HeadTailProperties, LenProperties
    <3>6. \A m, n \in DOMAIN batch' : batch'[m].id = batch'[n].id => m = n
      BY <3>2, <3>5 DEF ClaimsInv
    <3>7. \A n \in DOMAIN batch' : Fresh(batch[n])' /\ batch'[n].id # batch[1].id
      <4> SUFFICES ASSUME NEW n \in DOMAIN batch'
                   PROVE  Fresh(batch[n])' /\ batch'[n].id # batch[1].id
        OBVIOUS
      <4>1. Fresh(batch[n + 1]) /\ batch[n + 1].id # batch[1].id /\ batch'[n] = batch[n + 1]
        BY <3>2 DEF ClaimsInv
      <4> QED
        BY <4>1, <3>1, <3>3 DEF Fresh, Created
    <3>8. Fresh(batch[1])
      BY <3>2 DEF ClaimsInv
    <3>9. cur' = batch[1] => Fresh(cur)'
      BY <3>1, <3>3, <3>8 DEF Fresh, Created
    <3> QED
      BY <3>1, <3>2, <3>6, <3>7, <3>9 DEF ClaimsInv
  <2>7. ASSUME NEW ack \in BOOLEAN, NEW ok \in BOOLEAN, Post(ack, ok)
        PROVE  ClaimsInv'
    <3>1. /\ UNCHANGED <<row, created, batch, cur>> /\ wpc = "post"
          /\ wpc' \in {"delivered", "retry"}
      BY <2>7 DEF Post, WorkerGoto
    <3> QED
      BY <3>1 DEF ClaimsInv, Fresh, Created
  <2>8. CASE MarkDelivered \/ Reschedule \/ MarkExhausted
    <3>1. /\ NextInBatch /\ UNCHANGED <<created, batch>> /\ wpc \notin {"sleep", "next"}
          /\ \E new : UpdateRow(cur.id, new)
      BY <2>8 DEF MarkDelivered, Reschedule, MarkExhausted
    <3>2. \A d \in Deliveries : d # cur.id => row'[d] = row[d]
      BY <3>1, InHand, UpdateOne
    <3> QED
      BY <3>1, <3>2, ClaimsNext
  <2>9. CASE MarkFailed
    <3>1. /\ UNCHANGED <<created, batch, cur>> /\ wpc = "retry" /\ wpc' = "exhaust"
          /\ UpdateRow(cur.id, [row[cur.id] EXCEPT !.status = "failed"])
          /\ cur.id \in Deliveries /\ cur.id \in Created
      BY <2>9, InHand DEF MarkFailed, WorkerGoto, ClaimsInv, Fresh
    <3>2. /\ \A d \in Deliveries : d # cur.id => row'[d] = row[d]
          /\ row'[cur.id].status \in {"none", "failed"}
      BY <2>0, <3>1, UpdateOne DEF DeliveryRow
    <3>3. \A n \in DOMAIN batch : row'[batch[n].id] = row[batch[n].id]
      BY <3>1, <3>2, InHand DEF ClaimsInv
    <3> QED
      BY <3>1, <3>2, <3>3 DEF ClaimsInv, Fresh, Created
  <2>10. CASE WorkerFault \/ Crash
    <3>1. batch' = <<>> /\ wpc' = "sleep"
      BY <2>10 DEF WorkerFault, Crash, DropBatch, WorkerGoto
    <3> QED
      BY <3>1 DEF ClaimsInv
  <2>11. ASSUME NEW d \in Deliveries, Elapse(d)
         PROVE  ClaimsInv'
    <3>1. /\ \A c \in Deliveries : c # d => row'[c] = row[c]
          /\ row[d].status = "pending" /\ ~row[d].due
          /\ UNCHANGED <<created, worker>>
      BY <2>0, <2>11 DEF Elapse
    <3> QED
      BY <2>0, <3>1, ClaimsFrame DEF Created
  <2> QED
    BY <2>1, <2>2, <2>3, <2>4, <2>5, <2>6, <2>7, <2>8, <2>9, <2>10, <2>11
    DEF Next, Task, Worker
<1> QED
  BY <1>1, <1>2, Typing, RowLife, NoDeliveryOutlives, PTL DEF Spec

-----------------------------------------------------------------------------
(* The counts of POSTs *)

Counted == CountsInv /\ PostsBounded /\ FinalIsEarned

\* The types of what is counted
LEMMA Counters ==
  ASSUME TypeOK
  PROVE  /\ faults \in Nat /\ MaxAttempts \in Nat
         /\ \A d \in Deliveries :
              /\ posts[d] \in Nat
              /\ row[d] \in DeliveryRow /\ row[d].attempt \in Nat
              /\ row[d].attempt >= 1 /\ row[d].attempt <= MaxAttempts
         /\ Created \subseteq Deliveries
<1>1. Created \subseteq Deliveries
  BY ElementOfSeq, LenProperties DEF TypeOK, Created
<1>2. \A d \in Deliveries : row[d] \in DeliveryRow /\ row[d].attempt \in 1..MaxAttempts
  BY DEF TypeOK, DeliveryRow
<1>3. faults \in Nat
  BY Constants DEF TypeOK
<1> QED
  BY <1>1, <1>2, <1>3, Constants DEF TypeOK

\* Handlers, tasks and time count nothing, and a new delivery has not been posted.
LEMMA CountsFrame ==
  ASSUME TypeOK, Counted, UNCHANGED <<posts, acked, worker>>,
         faults' = faults \/ faults' = faults + 1,
         Created \subseteq Created',
         \A d \in Deliveries :
           \/ row'[d].status = "none"
           \/ row'[d].status = row[d].status /\ row'[d].attempt = row[d].attempt
           \/ d \notin Created /\ row'[d].status = "pending" /\ row'[d].attempt = 1
  PROVE  Counted'
<1>1. UNCHANGED <<wpc, batch, cur, posts, acked>>
  BY DEF worker
<1>2. ASSUME NEW d \in Deliveries, NEW made \in Int, Fits(d, made)
      PROVE  Fits(d, made)'
  BY <1>1, <1>2, Counters DEF Fits
<1>3. \A d \in Deliveries :
        row'[d].status = "pending" /\ ~(wpc' \in {"delivered", "retry"} /\ cur'.id = d)
          => Fits(d, row[d].attempt - 1)'
  <2> SUFFICES ASSUME NEW d \in Deliveries, row'[d].status = "pending",
                      ~(wpc' \in {"delivered", "retry"} /\ cur'.id = d)
               PROVE  row'[d].attempt - 1 <= posts'[d]
                      /\ posts'[d] <= row'[d].attempt - 1 + faults'
    BY DEF Fits
  <2>1. CASE row[d].status = "pending" /\ row'[d].attempt = row[d].attempt
    BY <1>1, <2>1, Counters DEF Counted, CountsInv, Fits
  <2>2. CASE d \notin Created /\ row'[d].attempt = 1
    BY <1>1, <2>2, Counters DEF Counted, CountsInv
  <2> QED
    BY <2>1, <2>2
<1>4. CountsInv'
  <2>1. \A n \in DOMAIN batch : Fits(batch[n].id, batch[n].attempt - 1)'
    BY <1>1, <1>2, InHand DEF Counted, CountsInv
  <2>2. wpc = "post" => Fits(cur.id, cur.attempt - 1)'
    BY <1>1, <1>2, InHand DEF Counted, CountsInv
  <2>3. wpc \in {"delivered", "retry"} => Fits(cur.id, cur.attempt)'
    BY <1>1, <1>2, InHand DEF Counted, CountsInv
  <2> QED
    BY <1>1, <1>3, <2>1, <2>2, <2>3 DEF Counted, CountsInv
<1>5. PostsBounded'
  BY <1>1, Counters DEF Counted, PostsBounded
<1>6. FinalIsEarned'
  BY <1>1 DEF Counted, FinalIsEarned
<1> QED
  BY <1>4, <1>5, <1>6 DEF Counted

\* A fault may take the worker's batch, and the count of the POST it has just made.
LEMMA CountsAfterFault ==
  ASSUME TypeOK, ClaimsInv, Counted, DropBatch, Fault, UNCHANGED <<table, history>>
  PROVE  Counted'
<1>1. /\ wpc' = "sleep" /\ batch' = <<>> /\ faults' = faults + 1
      /\ UNCHANGED <<row, created, posts, acked>>
  BY DEF DropBatch, WorkerGoto, Fault, table, history
<1>2. ASSUME NEW d \in Deliveries, row[d].status = "pending"
      PROVE  Fits(d, row[d].attempt - 1)'
  <2>1. CASE wpc \in {"delivered", "retry"} /\ cur.id = d
    <3>1. row[d].attempt = cur.attempt /\ Fits(d, cur.attempt)
      BY <1>2, <2>1 DEF ClaimsInv, Fresh, Counted, CountsInv
    <3> QED
      BY <1>1, <3>1, Counters DEF Fits
  <2>2. CASE ~(wpc \in {"delivered", "retry"} /\ cur.id = d)
    BY <1>1, <1>2, <2>2, Counters DEF Counted, CountsInv, Fits
  <2> QED
    BY <2>1, <2>2
<1> QED
  BY <1>1, <1>2, Counters DEF Counted, CountsInv, PostsBounded, FinalIsEarned, Created

\* POSTs are bounded, and a final status is earned.
THEOREM Counting == Spec => []Counted
<1>1. Init => Counted
  BY Constants DEF Init, Counted, CountsInv, PostsBounded, FinalIsEarned, NoRow
<1>2. TypeOK /\ QueueInv /\ NoOrphans /\ ClaimsInv /\ Counted /\ [Next]_vars => Counted'
  <2> SUFFICES ASSUME TypeOK, QueueInv, NoOrphans, ClaimsInv, Counted, [Next]_vars
               PROVE  Counted'
    OBVIOUS
  <2> USE DEF enqueue, table, worker, history
  <2>0. row \in [Deliveries -> DeliveryRow] /\ posts \in [Deliveries -> Nat]
    BY DEF TypeOK
  <2>1. CASE \/ \E e \in Endpoints : Register(e)
             \/ \E v \in Events : Spawn(v) \/ ReadEndpoints(v) \/ TaskFault(v)
             \/ \E v \in Events, e \in Endpoints : InsertRefused(v, e)
             \/ UNCHANGED vars
    <3>1. /\ UNCHANGED <<table, worker, posts, acked>>
          /\ faults' = faults \/ faults' = faults + 1
      BY <2>1 DEF Register, Spawn, ReadEndpoints, TaskFault, InsertRefused, Fault, vars
    <3> QED
      BY <3>1, CountsFrame DEF Created
  <2>2. ASSUME NEW e \in Endpoints, Delete(e)
        PROVE  Counted'
    <3>1. \A d \in Deliveries : row'[d] = row[d] \/ row'[d].status = "none"
      BY <2>2 DEF Delete, NoRow
    <3>2. UNCHANGED <<created, worker, posts, acked, faults>>
      BY <2>2 DEF Delete
    <3> QED
      BY <3>1, <3>2, CountsFrame DEF Created
  <2>3. ASSUME NEW v \in Events, NEW e \in Endpoints, InsertDelivery(v, e)
        PROVE  Counted'
    <3>1. /\ <<v, e>> \in Deliveries /\ <<v, e>> \notin Created
          /\ UNCHANGED <<worker, posts, acked, faults>>
      BY <2>3 DEF InsertDelivery, QueueInv, Deliveries
    <3>2. \A d \in Deliveries :
            \/ row'[d] = row[d]
            \/ d \notin Created /\ row'[d].status = "pending" /\ row'[d].attempt = 1
      BY <2>0, <2>3, <3>1 DEF InsertDelivery
    <3>3. Created \subseteq Created'
      <4>1. created \in Seq(Deliveries) /\ created' = Append(created, <<v, e>>)
        BY <2>3 DEF InsertDelivery, TypeOK
      <4>2. \A n \in DOMAIN created : n \in DOMAIN created' /\ created'[n] = created[n]
        BY <3>1, <4>1, AppendProperties, LenProperties
      <4> QED
        BY <4>2 DEF Created
    <3> QED
      BY <3>1, <3>2, <3>3, CountsFrame
  <2>4. CASE FetchBatch
    <3>1. PICK ids :
            /\ batch' = [n \in DOMAIN ids |->
                          [id |-> ids[n], attempt |-> row[ids[n]].attempt]]
            /\ \A n \in DOMAIN ids : ids[n] \in Deliveries /\ IsPending(ids[n])
      BY <2>4, Batch
    <3>2. wpc = "sleep" /\ wpc' = "next" /\ UNCHANGED <<row, created, posts, acked, faults>>
      BY <2>4 DEF FetchBatch, WorkerGoto
    <3>3. \A n \in DOMAIN batch' :
            Fits(batch'[n].id, batch'[n].attempt - 1) /\ batch'[n].id \in Deliveries
      BY <3>1, <3>2 DEF Counted, CountsInv, IsPending
    <3> QED
      BY <3>2, <3>3 DEF Counted, CountsInv, PostsBounded, FinalIsEarned, Fits, Created
  <2>5. CASE BatchDone
    <3>1. wpc = "next" /\ wpc' = "sleep" /\ UNCHANGED <<table, batch, history, faults>>
      BY <2>5 DEF BatchDone, WorkerGoto
    <3> QED
      BY <3>1 DEF Counted, CountsInv, PostsBounded, FinalIsEarned, Fits, Created
  <2>6. CASE FetchEndpoint \/ EndpointNotFound
    <3>1. /\ batch \in Seq(Claim) /\ batch # <<>> /\ batch' = Tail(batch)
          /\ UNCHANGED <<created, history, faults>> /\ wpc = "next"
          /\ \/ wpc' = "post" /\ cur' = Head(batch)
             \/ wpc' = "next"
      BY <2>6 DEF FetchEndpoint, EndpointNotFound, TypeOK, WorkerGoto
    <3>2. /\ 1 \in DOMAIN batch /\ Head(batch) = batch[1]
          /\ \A n \in DOMAIN batch' : n + 1 \in DOMAIN batch /\ batch'[n] = batch[n + 1]
      BY <3>1, HeadAndTail
    <3>3. row' = row
      <4>1. CASE FetchEndpoint
        BY <4>1 DEF FetchEndpoint
      <4>2. CASE EndpointNotFound
        <5>1. batch[1].id \in Deliveries /\ batch[1].id[2] \notin Live
          BY <3>2, <4>2, InHand DEF EndpointNotFound
        <5> QED
          BY <3>2, <4>2, <5>1 DEF EndpointNotFound, UpdateRow, NoOrphans
      <4> QED
        BY <2>6, <4>1, <4>2
    <3>4. \A n \in DOMAIN batch' : Fits(batch'[n].id, batch'[n].attempt - 1)
      BY <3>2 DEF Counted, CountsInv
    <3>5. Fits(batch[1].id, batch[1].attempt - 1)
      BY <3>2 DEF Counted, CountsInv
    <3> QED
      BY <3>1, <3>2, <3>3, <3>4, <3>5
      DEF Counted, CountsInv, PostsBounded, FinalIsEarned, Fits, Created
  <2>7. ASSUME NEW ack \in BOOLEAN, NEW ok \in BOOLEAN, Post(ack, ok)
        PROVE  Counted'
    <3> DEFINE d == cur.id
    <3>1. /\ d \in Deliveries /\ d \in Created /\ Fits(d, cur.attempt - 1)
          /\ cur.attempt \in Nat /\ cur.attempt <= MaxAttempts
          /\ UNCHANGED <<row, created, batch, cur, faults>>
      BY <2>7, InHand, Constants DEF Post, ClaimsInv, Fresh, Counted, CountsInv
    <3>2. /\ posts'[d] = posts[d] + 1
          /\ \A c \in Deliveries : c # d => posts'[c] = posts[c]
          /\ acked \subseteq acked' /\ (wpc' = "delivered" => d \in acked')
          /\ wpc' \in {"delivered", "retry"}
      BY <2>0, <2>7, <3>1 DEF Post, WorkerGoto
    <3>3. Fits(cur.id, cur.attempt)'
      BY <3>1, <3>2, Counters DEF Fits
    <3>4. \A n \in DOMAIN batch : Fits(batch[n].id, batch[n].attempt - 1)'
      BY <2>7, <3>1, <3>2, InHand DEF Post, ClaimsInv, Counted, CountsInv, Fits
    <3>5. \A c \in Deliveries :
            row[c].status = "pending" /\ c # d => Fits(c, row[c].attempt - 1)'
      BY <2>7, <3>1, <3>2 DEF Post, Counted, CountsInv, Fits
    <3>6. \A c \in Deliveries \ Created : posts'[c] = 0
      BY <3>1, <3>2 DEF Counted, CountsInv
    <3>7. CountsInv'
      BY <3>1, <3>2, <3>3, <3>4, <3>5, <3>6 DEF CountsInv, Created
    <3>8. PostsBounded'
      <4>1. posts'[d] <= MaxAttempts + faults'
        BY <3>1, <3>3, <3>2, Counters DEF Fits
      <4> QED
        BY <3>1, <3>2, <4>1 DEF Counted, PostsBounded
    <3>9. FinalIsEarned'
      BY <3>1, <3>2, Counters DEF Counted, FinalIsEarned
    <3> QED
      BY <3>7, <3>8, <3>9 DEF Counted
  <2>8. ASSUME MarkDelivered \/ Reschedule \/ MarkFailed \/ MarkExhausted
        PROVE  Counted'
    <3> DEFINE d == cur.id
    <3>1. /\ d \in Deliveries /\ cur.attempt \in Nat /\ cur.attempt <= MaxAttempts
          /\ UNCHANGED <<created, batch, history, faults>>
          /\ wpc \in {"delivered", "retry", "exhaust"}
          /\ \/ wpc' = "next"
             \/ wpc' = "exhaust" /\ cur' = cur
          /\ \E new : UpdateRow(d, new)
      <4>1. wpc \in {"delivered", "retry", "exhaust"}
        BY <2>8 DEF MarkDelivered, Reschedule, MarkFailed, MarkExhausted
      <4>2. d \in Deliveries /\ cur.attempt \in Nat /\ cur.attempt <= MaxAttempts
        BY <4>1, InHand, Constants
      <4>3. \E new : UpdateRow(d, new)
        BY <2>8 DEF MarkDelivered, Reschedule, MarkFailed, MarkExhausted
      <4>4. /\ UNCHANGED <<created, batch, history, faults>>
            /\ \/ wpc' = "next"
               \/ wpc' = "exhaust" /\ cur' = cur
        <5>1. CASE MarkDelivered
          BY <5>1 DEF MarkDelivered, NextInBatch, WorkerGoto
        <5>2. CASE Reschedule
          BY <5>2 DEF Reschedule, NextInBatch, WorkerGoto
        <5>3. CASE MarkFailed
          BY <5>3 DEF MarkFailed, WorkerGoto
        <5>4. CASE MarkExhausted
          BY <5>4 DEF MarkExhausted, NextInBatch, WorkerGoto
        <5> QED
          BY <2>8, <5>1, <5>2, <5>3, <5>4
      <4> QED
        BY <4>1, <4>2, <4>3, <4>4, Zenon
    <3>2. \A c \in Deliveries : c # d => row'[c] = row[c]
      BY <3>1, UpdateOne
    <3>3. /\ row'[d].status \in {"none", "pending", "delivered", "failed", "exhausted"}
          /\ row'[d].status = "pending" => Fits(d, row'[d].attempt - 1)
          /\ row'[d].status = "delivered" => d \in acked
          /\ row'[d].status \in {"failed", "exhausted"} => posts[d] >= MaxAttempts
          /\ wpc' = "exhaust" => posts[d] >= MaxAttempts
      <4>1. CASE MarkDelivered
        <5>1. row'[d].status \in {"none", "delivered"} /\ wpc' = "next" /\ d \in acked
          BY <2>0, <3>1, <4>1, UpdateOne
          DEF MarkDelivered, NextInBatch, WorkerGoto, DeliveryRow, Counted, CountsInv
        <5> QED
          BY <5>1
      <4>2. CASE Reschedule
        <5>1. /\ \/ row'[d].status = "none"
                 \/ row'[d].status = "pending" /\ row'[d].attempt = cur.attempt + 1
              /\ wpc' = "next" /\ Fits(d, cur.attempt)
          <6>1. /\ wpc = "retry" /\ wpc' = "next" /\ Fresh(cur) /\ Fits(d, cur.attempt)
                /\ UpdateRow(d, [row[d] EXCEPT !.attempt = cur.attempt + 1, !.due = FALSE])
            BY <4>2 DEF Reschedule, NextInBatch, WorkerGoto, ClaimsInv, Counted, CountsInv
          <6>2. CASE row[d].status = "none"
            <7>1. row'[d].status = "none"
              BY <3>1, <6>1, <6>2, UpdateOne
            <7> QED
              BY <6>1, <7>1 DEF Fits
          <6>3. CASE row[d] = [status |-> "pending", attempt |-> cur.attempt, due |-> TRUE]
            <7>1. row'[d] = [row[d] EXCEPT !.attempt = cur.attempt + 1, !.due = FALSE]
              BY <3>1, <6>1, <6>3, UpdateOne
            <7> QED
              BY <6>1, <6>3, <7>1
          <6> QED
            BY <6>1, <6>2, <6>3 DEF Fresh
        <5>2. cur.attempt + 1 - 1 = cur.attempt
          BY <3>1
        <5>3. row'[d].status = "pending" => row'[d].attempt - 1 = cur.attempt
          BY <3>1, <5>1, <5>2
        <5> QED
          BY <5>1, <5>3 DEF Fits
      <4>3. CASE MarkFailed
        <5>1. row'[d].status \in {"none", "failed"} /\ Fits(d, cur.attempt)
          BY <2>0, <3>1, <4>3, UpdateOne DEF MarkFailed, DeliveryRow, Counted, CountsInv
        <5>2. cur.attempt = MaxAttempts
          BY <3>1, <4>3, Constants DEF MarkFailed
        <5> QED
          BY <3>1, <5>1, <5>2, Counters DEF Fits
      <4>4. CASE MarkExhausted
        <5>1. /\ row'[d].status \in {"none", "exhausted"} /\ wpc' = "next"
              /\ posts[d] >= MaxAttempts
          <6>1. /\ wpc = "exhaust" /\ wpc' = "next" /\ posts[d] >= MaxAttempts
                /\ UpdateRow(d, [row[d] EXCEPT !.status = "exhausted"])
            BY <4>4 DEF MarkExhausted, NextInBatch, WorkerGoto, Counted, CountsInv
          <6>2. row'[d].status \in {"none", "exhausted"}
            BY <2>0, <3>1, <6>1, UpdateOne DEF DeliveryRow
          <6> QED
            BY <6>1, <6>2
        <5> QED
          BY <5>1
      <4> QED
        BY <2>8, <4>1, <4>2, <4>3, <4>4
    <3>4. \A c \in Deliveries : row'[c].status = "pending" => Fits(c, row[c].attempt - 1)'
      BY <3>1, <3>2, <3>3 DEF Counted, CountsInv, Fits
    <3>5. CountsInv'
      BY <3>1, <3>3, <3>4 DEF Counted, CountsInv, Fits, Created
    <3>6. PostsBounded' /\ FinalIsEarned'
      BY <3>1, <3>2, <3>3 DEF Counted, PostsBounded, FinalIsEarned
    <3> QED
      BY <3>5, <3>6 DEF Counted
  <2>9. CASE WorkerFault \/ Crash
    BY <2>9, CountsAfterFault DEF WorkerFault, Crash
  <2>10. ASSUME NEW d \in Deliveries, Elapse(d)
         PROVE  Counted'
    <3>1. /\ \A c \in Deliveries :
               row'[c].status = row[c].status /\ row'[c].attempt = row[c].attempt
          /\ UNCHANGED <<created, worker, posts, acked, faults>>
      BY <2>0, <2>10 DEF Elapse, DeliveryRow
    <3> QED
      BY <3>1, CountsFrame DEF Created
  <2> QED
    BY <2>1, <2>2, <2>3, <2>4, <2>5, <2>6, <2>7, <2>8, <2>9, <2>10 DEF Next, Task, Worker
<1> QED
  BY <1>1, <1>2, Typing, RowLife, NoDeliveryOutlives, Claims, PTL DEF Spec

\* A delivery is posted MaxAttempts times at most, and once more per fault.
THEOREM BoundedRetries == Spec => []PostsBounded
BY Counting, PTL DEF Counted

\* A delivery is marked delivered only if it was, and given up only after all attempts.
THEOREM EarnedEnds == Spec => []FinalIsEarned
BY Counting, PTL DEF Counted

-----------------------------------------------------------------------------
(* POSTs to deleted endpoints *)

\* Whoever does not post is late for nothing.
LEMMA LateFrame ==
  ASSUME TypeOK, LateInv, UNCHANGED late,
         \A e \in Endpoints : endpoint'[e] = "deleted" \/ endpoint[e] # "deleted",
         \/ wpc' # "post"
         \/ wpc' = "post" /\ UNCHANGED <<wpc, cur>>
  PROVE  LateInv'
BY DEF LateInv

\* A deletion comes at most one POST too early for the worker.
THEOREM LateInvariant == Spec => [](LateInv /\ LateAtMostOnce)
<1>1. Init => LateInv /\ LateAtMostOnce
  BY DEF Init, LateInv, LateAtMostOnce
<1>2. TypeOK /\ LateInv /\ LateAtMostOnce /\ [Next]_vars => LateInv' /\ LateAtMostOnce'
  <2> SUFFICES ASSUME TypeOK, LateInv, LateAtMostOnce, [Next]_vars
               PROVE  LateInv' /\ LateAtMostOnce'
    OBVIOUS
  <2> USE DEF enqueue, table, worker, history
  <2>0. late \in [Endpoints -> Nat]
    BY DEF TypeOK
  <2>1. ASSUME NEW e \in Endpoints, Register(e) \/ Delete(e)
        PROVE  LateInv' /\ LateAtMostOnce'
    <3>1. /\ UNCHANGED <<late, wpc, cur>>
          /\ \A o \in Endpoints : endpoint'[o] = "deleted" \/ endpoint[o] # "deleted"
      <4>1. endpoint \in [Endpoints -> {"absent", "live", "deleted"}]
        BY DEF TypeOK
      <4> QED
        BY <2>1, <4>1 DEF Register, Delete
    <3> QED
      BY <3>1, LateFrame DEF LateAtMostOnce
  <2>2. CASE FetchEndpoint
    <3>1. /\ cur' = Head(batch) /\ endpoint[Head(batch).id[2]] = "live"
          /\ UNCHANGED <<endpoint, late>>
      BY <2>2 DEF FetchEndpoint, Live
    <3> QED
      BY <3>1 DEF LateInv, LateAtMostOnce
  <2>3. ASSUME NEW ack \in BOOLEAN, NEW ok \in BOOLEAN, Post(ack, ok)
        PROVE  LateInv' /\ LateAtMostOnce'
    <3> DEFINE e == cur.id[2]
    <3>1. wpc = "post" /\ wpc' # "post" /\ endpoint' = endpoint
      BY <2>3 DEF Post, WorkerGoto
    <3>2. e \in Endpoints /\ late[e] = 0
      BY <3>1, InHand DEF LateInv, Deliveries
    <3>3. /\ late'[e] \in {0, 1} /\ (endpoint[e] # "deleted" => late'[e] = 0)
          /\ \A o \in Endpoints : o # e => late'[o] = late[o]
      <4>1. CASE endpoint[e] = "deleted"
        BY <2>0, <2>3, <3>2, <4>1 DEF Post
      <4>2. CASE endpoint[e] # "deleted"
        BY <2>0, <2>3, <3>2, <4>2 DEF Post
      <4> QED
        BY <4>1, <4>2
    <3>4. LateInv'
      BY <3>1, <3>3 DEF LateInv
    <3>5. LateAtMostOnce'
      BY <3>3 DEF LateAtMostOnce
    <3> QED
      BY <3>4, <3>5
  <2>4. CASE \/ \E v \in Events : Spawn(v) \/ ReadEndpoints(v) \/ TaskFault(v)
             \/ \E v \in Events, e \in Endpoints : InsertDelivery(v, e) \/ InsertRefused(v, e)
             \/ \E d \in Deliveries : Elapse(d)
             \/ UNCHANGED vars
    <3>1. UNCHANGED <<endpoint, late, wpc, cur>>
      BY <2>4 DEF Spawn, ReadEndpoints, TaskFault, InsertDelivery, InsertRefused, Elapse, vars
    <3> QED
      BY <3>1, LateFrame DEF LateAtMostOnce
  <2>5. CASE \/ FetchBatch \/ BatchDone \/ EndpointNotFound
             \/ MarkDelivered \/ Reschedule \/ MarkFailed \/ MarkExhausted
             \/ WorkerFault \/ Crash
    <3>1. UNCHANGED <<endpoint, late>> /\ wpc' # "post"
      BY <2>5
      DEF FetchBatch, BatchDone, EndpointNotFound, MarkDelivered, Reschedule, MarkFailed,
          MarkExhausted, WorkerFault, Crash, NextInBatch, DropBatch, WorkerGoto
    <3> QED
      BY <3>1, LateFrame DEF LateAtMostOnce
  <2> QED
    BY <2>1, <2>2, <2>3, <2>4, <2>5 DEF Next, Task, Worker
<1> QED
  BY <1>1, <1>2, Typing, PTL DEF Spec

\* After its deletion an endpoint gets one POST at most.
THEOREM OneLatePost == Spec => []LateAtMostOnce
BY LateInvariant, PTL

\* The inductive invariant holds in every reachable state.
THEOREM Invariance == Spec => []IInv
BY Typing, RowLife, NoDeliveryOutlives, Claims, Counting, LateInvariant, PTL
DEF IInv, Counted

-----------------------------------------------------------------------------
(* Steps, and the promise they implement *)

\* How the worker and time change the row of one delivery
RowStep(d) ==
  /\ \A c \in Deliveries \ {d} : row'[c] = row[c]
  /\ \/ row'[d] = row[d]
     \/ /\ row[d].status = "pending" /\ d \in acked
        /\ row'[d] = [row[d] EXCEPT !.status = "delivered"]
     \/ /\ row[d].status = "pending" /\ posts[d] >= MaxAttempts
        /\ row'[d] = [row[d] EXCEPT !.status = "failed"]
     \/ row[d].status = "failed" /\ row'[d] = [row[d] EXCEPT !.status = "exhausted"]
     \/ row[d].status = "pending" /\ row'[d].status = "pending"

RowSteps ==
  /\ row' = row \/ \E d \in Deliveries : RowStep(d)
  /\ UNCHANGED <<endpoint, posts, acked>>

\* The UPDATEs of the worker are row steps: it writes a row it has in hand, knowing
\* what happened to its delivery.
LEMMA UpdateSteps ==
  ASSUME IInv,
         \/ EndpointNotFound \/ MarkDelivered \/ Reschedule \/ MarkFailed \/ MarkExhausted
         \/ \E d \in Deliveries : Elapse(d)
  PROVE  RowSteps
<1> USE DEF history, table, worker, enqueue
<1>0. /\ TypeOK /\ QueueInv /\ NoOrphans /\ ClaimsInv /\ CountsInv
      /\ row \in [Deliveries -> DeliveryRow]
  BY DEF IInv, TypeOK
<1>1. UNCHANGED <<endpoint, posts, acked>>
  BY DEF EndpointNotFound, MarkDelivered, Reschedule, MarkFailed, MarkExhausted, Elapse
<1>2. CASE EndpointNotFound
  <2>1. /\ batch # <<>> /\ batch \in Seq(Claim)
        /\ Head(batch) = batch[1] /\ 1 \in DOMAIN batch
    BY <1>0, <1>2, HeadAndTail DEF EndpointNotFound, TypeOK
  <2>2. batch[1].id \in Deliveries /\ batch[1].id[2] \notin Live
    BY <1>0, <1>2, <2>1, InHand DEF EndpointNotFound
  <2>3. row' = row
    BY <1>0, <1>2, <2>1, <2>2 DEF EndpointNotFound, UpdateRow, NoOrphans
  <2> QED
    BY <1>1, <2>3 DEF RowSteps
<1>3. CASE MarkDelivered
  <2>1. /\ cur.id \in Deliveries /\ Fresh(cur) /\ cur.id \in acked
        /\ UpdateRow(cur.id, [row[cur.id] EXCEPT !.status = "delivered"])
    BY <1>0, <1>3, InHand DEF MarkDelivered, ClaimsInv, CountsInv
  <2>2. row[cur.id].status \in {"none", "pending"}
    BY <2>1 DEF Fresh
  <2>3. RowStep(cur.id)
    BY <1>0, <2>1, <2>2, UpdateOne DEF RowStep
  <2> QED
    BY <1>1, <2>1, <2>3 DEF RowSteps
<1>4. CASE Reschedule
  <2>1. /\ cur.id \in Deliveries /\ Fresh(cur)
        /\ UpdateRow(cur.id, [row[cur.id] EXCEPT !.attempt = cur.attempt + 1, !.due = FALSE])
    BY <1>0, <1>4, InHand DEF Reschedule, ClaimsInv
  <2>2. row[cur.id].status \in {"none", "pending"} /\ row[cur.id] \in DeliveryRow
    BY <1>0, <2>1 DEF Fresh
  <2>3. [row[cur.id] EXCEPT !.attempt = cur.attempt + 1, !.due = FALSE].status
          = row[cur.id].status
    BY <2>2 DEF DeliveryRow
  <2>4. RowStep(cur.id)
    BY <1>0, <2>1, <2>2, <2>3, UpdateOne DEF RowStep
  <2> QED
    BY <1>1, <2>1, <2>4 DEF RowSteps
<1>5. CASE MarkFailed
  <2>1. /\ cur.id \in Deliveries /\ Fresh(cur) /\ Fits(cur.id, cur.attempt)
        /\ cur.attempt \in 1..MaxAttempts /\ cur.attempt + 1 > MaxAttempts
        /\ UpdateRow(cur.id, [row[cur.id] EXCEPT !.status = "failed"])
    BY <1>0, <1>5, InHand DEF MarkFailed, ClaimsInv, CountsInv
  <2>2. row[cur.id].status \in {"none", "pending"}
    BY <2>1 DEF Fresh
  <2>3. posts[cur.id] >= MaxAttempts
    BY <1>0, <2>1, Counters DEF Fits
  <2>4. RowStep(cur.id)
    BY <1>0, <2>1, <2>2, <2>3, UpdateOne DEF RowStep
  <2> QED
    BY <1>1, <2>1, <2>4 DEF RowSteps
<1>6. CASE MarkExhausted
  <2>1. /\ cur.id \in Deliveries /\ row[cur.id].status \in {"none", "failed"}
        /\ UpdateRow(cur.id, [row[cur.id] EXCEPT !.status = "exhausted"])
    BY <1>0, <1>6, InHand DEF MarkExhausted, ClaimsInv
  <2>2. RowStep(cur.id)
    BY <1>0, <2>1, UpdateOne DEF RowStep
  <2> QED
    BY <1>1, <2>1, <2>2 DEF RowSteps
<1>7. ASSUME NEW d \in Deliveries, Elapse(d)
      PROVE  RowSteps
  <2>1. /\ row[d].status = "pending" /\ row[d] \in DeliveryRow
        /\ row' = [row EXCEPT ![d] = [row[d] EXCEPT !.due = TRUE]]
    BY <1>0, <1>7 DEF Elapse
  <2>2. [row[d] EXCEPT !.due = TRUE].status = "pending"
    BY <2>1 DEF DeliveryRow
  <2>3. RowStep(d)
    BY <1>0, <2>1, <2>2 DEF RowStep
  <2> QED
    BY <1>1, <2>3 DEF RowSteps
<1> QED
  BY <1>1, <1>2, <1>3, <1>4, <1>5, <1>6, <1>7

\* What a step does to rows, POSTs and answers: the worker and time change rows as
\* RowStep says, a POST is made for a delivery in hand, an insertion makes a new row,
\* a deletion removes rows.
LEMMA StepKinds ==
  ASSUME IInv, [Next]_vars
  PROVE  \/ RowSteps
         \/ \E e \in Endpoints : Register(e)
         \/ \E e \in Endpoints : Delete(e)
         \/ \E v \in Events, e \in Endpoints : InsertDelivery(v, e)
         \/ \E ack, ok \in BOOLEAN : Post(ack, ok)
<1> USE DEF history, table, worker, enqueue
<1>1. CASE \/ \E v \in Events : Spawn(v) \/ ReadEndpoints(v) \/ TaskFault(v)
           \/ \E v \in Events, e \in Endpoints : InsertRefused(v, e)
           \/ FetchBatch \/ BatchDone \/ FetchEndpoint \/ WorkerFault \/ Crash
           \/ UNCHANGED vars
  <2>1. UNCHANGED <<row, endpoint, posts, acked>>
    BY <1>1 DEF Spawn, ReadEndpoints, TaskFault, InsertRefused, FetchBatch, BatchDone,
                FetchEndpoint, WorkerFault, Crash, vars
  <2> QED
    BY <2>1 DEF RowSteps
<1> QED
  BY <1>1, UpdateSteps DEF Next, Task, Worker

\* A delivery that has ended is not posted again, nor does it come back.
THEOREM EndsAreFinal == Spec => FinalIsFinal
<1> DEFINE Kept(d) ==
      row[d].status \in {"delivered", "failed", "exhausted"} =>
        /\ posts'[d] = posts[d]
        /\ \/ row'[d] \in {row[d], NoRow}
           \/ row[d].status = "failed" /\ row'[d] = [row[d] EXCEPT !.status = "exhausted"]
<1>1. IInv /\ [Next]_vars => [\A d \in Deliveries : Kept(d)]_vars
  <2> SUFFICES ASSUME IInv, [Next]_vars, NEW d \in Deliveries,
                      row[d].status \in {"delivered", "failed", "exhausted"}
               PROVE  /\ posts'[d] = posts[d]
                      /\ \/ row'[d] \in {row[d], NoRow}
                         \/ /\ row[d].status = "failed"
                            /\ row'[d] = [row[d] EXCEPT !.status = "exhausted"]
    OBVIOUS
  <2> USE DEF history, table
  <2>0. /\ TypeOK /\ QueueInv /\ ClaimsInv
        /\ row \in [Deliveries -> DeliveryRow] /\ posts \in [Deliveries -> Nat]
    BY DEF IInv, TypeOK
  <2>1. CASE RowSteps
    BY <2>1 DEF RowSteps, RowStep
  <2>2. CASE \E e \in Endpoints : Register(e)
    BY <2>2 DEF Register
  <2>3. CASE \E e \in Endpoints : Delete(e)
    BY <2>3 DEF Delete
  <2>4. ASSUME NEW v \in Events, NEW e \in Endpoints, InsertDelivery(v, e)
        PROVE  row'[d] = row[d] /\ posts'[d] = posts[d]
    <3>1. <<v, e>> \in Deliveries /\ row[<<v, e>>].status = "none"
      BY <2>0, <2>4 DEF InsertDelivery, QueueInv, Deliveries
    <3> QED
      BY <2>0, <2>4, <3>1 DEF InsertDelivery
  <2>5. ASSUME NEW ack \in BOOLEAN, NEW ok \in BOOLEAN, Post(ack, ok)
        PROVE  row'[d] = row[d] /\ posts'[d] = posts[d]
    <3>1. cur.id \in Deliveries /\ row[cur.id].status \in {"none", "pending"}
      BY <2>0, <2>5, InHand DEF Post, ClaimsInv, Fresh
    <3> QED
      BY <2>0, <2>5, <3>1 DEF Post
  <2> QED
    BY <2>1, <2>2, <2>3, <2>4, <2>5, StepKinds
<1> QED
  BY <1>1, Invariance, PTL DEF Spec, FinalIsFinal

\* Tasks, worker and handlers, with their faults and crashes, keep the promise.
THEOREM PromiseKept == Spec => DeliverySpec
<1> DEFINE status == [d \in Deliveries |->
                       IF Gone(d) THEN "removed"
                       ELSE IF row[d].status \in {"failed", "exhausted"} THEN "given_up"
                       ELSE row[d].status]
           tries == [d \in Deliveries |-> IF Gone(d) THEN 0 ELSE posts[d]]
           accepted == {d \in acked : ~Gone(d)}
<1>1. Init => Promise!Init
  BY DEF Init, Promise!Init, Gone, NoRow, Deliveries
<1>2. IInv /\ [Next]_vars => [Promise!Next]_(Promise!vars)
  <2> SUFFICES ASSUME IInv, [Next]_vars
               PROVE  [Promise!Next]_(Promise!vars)
    OBVIOUS
  <2> USE DEF history, table
  <2>0. /\ TypeOK /\ QueueInv /\ NoOrphans /\ ClaimsInv
        /\ row \in [Deliveries -> DeliveryRow] /\ posts \in [Deliveries -> Nat]
        /\ acked \subseteq Deliveries
        /\ endpoint \in [Endpoints -> {"absent", "live", "deleted"}]
        /\ \A d \in Deliveries : d[1] \in Events /\ d[2] \in Endpoints
    BY DEF IInv, TypeOK, Deliveries
  <2>1. CASE RowSteps
    <3>1. /\ UNCHANGED <<posts, acked>> /\ \A d : Gone(d)' <=> Gone(d)
          /\ UNCHANGED <<tries, accepted>>
      BY <2>1 DEF RowSteps, Gone
    <3>2. CASE row' = row
      BY <3>1, <3>2 DEF Promise!vars
    <3>3. ASSUME NEW d \in Deliveries, RowStep(d)
          PROVE  [Promise!Next]_(Promise!vars)
      <4>1. \A c \in Deliveries \ {d} : status'[c] = status[c]
        BY <3>1, <3>3 DEF RowStep
      <4>2. CASE \/ Gone(d) \/ row'[d] = row[d]
                 \/ row[d].status = "pending" /\ row'[d].status = "pending"
        <5>1. status'[d] = status[d]
          BY <3>1, <4>2
        <5>2. status' = status
          BY <4>1, <5>1
        <5> QED
          BY <3>1, <5>2 DEF Promise!vars
      <4>3. ASSUME ~Gone(d), row[d].status = "failed",
                   row'[d] = [row[d] EXCEPT !.status = "exhausted"]
            PROVE  status' = status
        <5>1. row'[d].status = "exhausted"
          BY <2>0, <4>3 DEF DeliveryRow
        <5>2. status'[d] = status[d]
          BY <3>1, <4>3, <5>1
        <5> QED
          BY <4>1, <5>2
      <4>4. ASSUME ~Gone(d), row[d].status = "pending", d \in acked,
                   row'[d] = [row[d] EXCEPT !.status = "delivered"]
            PROVE  Promise!Deliver(d)
        <5>1. row'[d].status = "delivered"
          BY <2>0, <4>4 DEF DeliveryRow
        <5>2. status[d] = "pending" /\ status'[d] = "delivered"
          BY <3>1, <4>4, <5>1
        <5>3. status' = [status EXCEPT ![d] = "delivered"]
          BY <4>1, <5>2
        <5> QED
          BY <3>1, <4>4, <5>2, <5>3 DEF Promise!Deliver
      <4>5. ASSUME ~Gone(d), row[d].status = "pending", posts[d] >= MaxAttempts,
                   row'[d] = [row[d] EXCEPT !.status = "failed"]
            PROVE  Promise!GiveUp(d)
        <5>1. row'[d].status = "failed"
          BY <2>0, <4>5 DEF DeliveryRow
        <5>2. status[d] = "pending" /\ status'[d] = "given_up" /\ tries[d] >= MaxAttempts
          BY <3>1, <4>5, <5>1
        <5>3. status' = [status EXCEPT ![d] = "given_up"]
          BY <4>1, <5>2
        <5> QED
          BY <3>1, <5>2, <5>3 DEF Promise!GiveUp
      <4> QED
        BY <3>1, <3>3, <4>2, <4>3, <4>4, <4>5 DEF RowStep, Promise!Next, Promise!vars
    <3> QED
      BY <2>1, <3>2, <3>3 DEF RowSteps
  <2>2. ASSUME NEW e \in Endpoints, Register(e)
        PROVE  UNCHANGED <<status, tries, accepted>>
    <3>1. UNCHANGED <<row, posts, acked>> /\ \A d \in Deliveries : Gone(d)' <=> Gone(d)
      BY <2>0, <2>2 DEF Register, Gone
    <3> QED
      BY <2>0, <3>1
  <2>3. ASSUME NEW e \in Endpoints, Delete(e)
        PROVE  Promise!Remove(e)
    <3>1. /\ UNCHANGED <<posts, acked>>
          /\ \A d \in Deliveries : /\ Gone(d)' <=> Gone(d) \/ d[2] = e
                                   /\ d[2] # e => row'[d] = row[d]
      BY <2>0, <2>3 DEF Delete, Gone
    <3>2. status' = [d \in Deliveries |-> IF d[2] = e THEN "removed" ELSE status[d]]
      BY <3>1
    <3>3. tries' = [d \in Deliveries |-> IF d[2] = e THEN 0 ELSE tries[d]]
      BY <3>1
    <3>4. accepted' = accepted \ {d \in Deliveries : d[2] = e}
      BY <2>0, <3>1
    <3> QED
      BY <3>2, <3>3, <3>4 DEF Promise!Remove
  <2>4. ASSUME NEW v \in Events, NEW e \in Endpoints, InsertDelivery(v, e)
        PROVE  Promise!Announce(<<v, e>>) /\ <<v, e>> \in Deliveries
    <3>1. <<v, e>> \in Deliveries /\ row[<<v, e>>].status = "none" /\ ~Gone(<<v, e>>)
      BY <2>0, <2>4 DEF InsertDelivery, QueueInv, Deliveries, Live, Gone
    <3>2. /\ row' = [row EXCEPT ![<<v, e>>] =
                      [status |-> "pending", attempt |-> 1, due |-> TRUE]]
          /\ UNCHANGED <<posts, acked, endpoint>>
      BY <2>4 DEF InsertDelivery
    <3>3. \A d : Gone(d)' <=> Gone(d)
      BY <3>2 DEF Gone
    <3>4. status' = [status EXCEPT ![<<v, e>>] = "pending"]
      BY <2>0, <3>1, <3>2, <3>3
    <3>5. UNCHANGED <<tries, accepted>> /\ status[<<v, e>>] = "none"
      BY <2>0, <3>1, <3>2, <3>3
    <3> QED
      BY <3>1, <3>4, <3>5 DEF Promise!Announce
  <2>5. ASSUME NEW ack \in BOOLEAN, NEW ok \in BOOLEAN, Post(ack, ok)
        PROVE  \/ \E d \in Deliveries : Promise!Try(d)
               \/ UNCHANGED <<status, tries, accepted>>
    <3>0. PICK d \in Deliveries : d = cur.id
      BY <2>0, <2>5, InHand DEF Post
    <3>1. /\ d \in Created
          /\ row[d].status \in {"none", "pending"}
          /\ UNCHANGED <<row, endpoint>>
          /\ posts' = [posts EXCEPT ![d] = @ + 1]
          /\ acked' \in {acked, acked \cup {d}}
      BY <2>0, <2>5, <3>0 DEF Post, ClaimsInv, Fresh
    <3>2. /\ \A c : Gone(c)' <=> Gone(c)
          /\ status' = status
      BY <3>1 DEF Gone
    <3>3. CASE Gone(d)
      <4>1. tries' = tries
        BY <2>0, <3>1, <3>2, <3>3
      <4>2. accepted' = accepted
        BY <2>0, <3>1, <3>2, <3>3
      <4> QED
        BY <3>2, <4>1, <4>2
    <3>4. CASE ~Gone(d)
      <4>1. status[d] = "pending"
        BY <2>0, <3>1, <3>4 DEF QueueInv
      <4>2. tries' = [tries EXCEPT ![d] = @ + 1]
        BY <2>0, <3>1, <3>2, <3>4
      <4>3. accepted' \in {accepted, accepted \cup {d}}
        BY <2>0, <3>1, <3>2, <3>4
      <4> QED
        BY <3>1, <3>2, <4>1, <4>2, <4>3 DEF Promise!Try
    <3> QED
      BY <3>3, <3>4
  <2>6. ASSUME NEW e \in Endpoints, Register(e)
        PROVE  [Promise!Next]_(Promise!vars)
    BY <2>2, <2>6 DEF Promise!vars
  <2>7. ASSUME NEW e \in Endpoints, Delete(e)
        PROVE  [Promise!Next]_(Promise!vars)
    BY <2>3, <2>7 DEF Promise!Next
  <2>8. ASSUME NEW v \in Events, NEW e \in Endpoints, InsertDelivery(v, e)
        PROVE  [Promise!Next]_(Promise!vars)
    BY <2>4, <2>8 DEF Promise!Next
  <2>9. ASSUME NEW ack \in BOOLEAN, NEW ok \in BOOLEAN, Post(ack, ok)
        PROVE  [Promise!Next]_(Promise!vars)
    <3>1. CASE \E d \in Deliveries : Promise!Try(d)
      BY <3>1, Zenon DEF Promise!Next
    <3>2. CASE UNCHANGED <<status, tries, accepted>>
      BY <3>2 DEF Promise!vars
    <3> QED
      BY <2>5, <2>9, <3>1, <3>2
  <2> QED
    BY <2>1, <2>6, <2>7, <2>8, <2>9, StepKinds
<1> QED
  BY <1>1, <1>2, Invariance, PTL DEF Spec, DeliverySpec, Promise!Spec

=============================================================================
