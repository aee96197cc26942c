--------------------------- MODULE Tenants_proofs ---------------------------
(***************************************************************************)
(* Proofs about module Tenants, for any sets of businesses, requests,      *)
(* prefixes and emails.  The inductive invariant IInv is proved in layers: *)
(* typing and control, isolation, keys and their revocation, customers.    *)
(***************************************************************************)
EXTENDS Tenants, TLAPS

-----------------------------------------------------------------------------
(* Typing and control *)

\* Every reachable state is well-typed, and a handler past its authentication knows
\* its business and has given nothing out before it ends.
THEOREM Typing == Spec => [](TypeOK /\ HandlerInv)
<1>1. Init => TypeOK /\ HandlerInv
  BY NoneAssumption DEF Init, TypeOK, HandlerInv, Results
<1>2. TypeOK /\ HandlerInv /\ [Next]_vars => TypeOK' /\ HandlerInv'
  <2> SUFFICES ASSUME TypeOK, HandlerInv, [Next]_vars
               PROVE  TypeOK' /\ HandlerInv'
    OBVIOUS
  <2> USE NoneAssumption, RowAssumption
      DEF TypeOK, HandlerInv, database, requests, Goto, Return, Handles
  <2>1. ASSUME NEW b \in Businesses, InsertBusiness(b) \/ CreateFails(b)
        PROVE  TypeOK' /\ HandlerInv'
    BY <2>1 DEF InsertBusiness, CreateFails, Results
  <2>2. ASSUME NEW b \in Businesses, StoreKey(b)
        PROVE  TypeOK' /\ HandlerInv'
    <3>1. \A p \in Prefixes : [prefix |-> p, revoked |-> FALSE] \in KeyRow
      BY DEF KeyRow
    <3>2. /\ keys' \in [Businesses -> KeyRow \cup {None}]
          /\ \A c \in Businesses : keys[c] # None => keys'[c] # None
      BY <2>2, <3>1 DEF StoreKey
    <3> QED
      BY <2>2, <3>2 DEF StoreKey, Results
  <2>3. ASSUME NEW r \in Requests, NEW a \in Args, Arrive(r, a)
        PROVE  TypeOK' /\ HandlerInv'
    BY <2>3 DEF Arrive, Results
  <2>4. ASSUME NEW r \in Requests, Authenticate(r)
        PROVE  TypeOK' /\ HandlerInv'
    <3>1. PICK b \in Businesses : keys[b] # None /\ auth' = [auth EXCEPT ![r] = b]
      BY <2>4 DEF Authenticate, Candidates
    <3> QED
      BY <2>4, <3>1 DEF Authenticate
  <2>5. ASSUME NEW r \in Requests, RefuseKey(r)
        PROVE  TypeOK' /\ HandlerInv'
    BY <2>5 DEF RefuseKey, Results
  <2>6. ASSUME NEW r \in Requests, RevokeKey(r)
        PROVE  TypeOK' /\ HandlerInv'
    <3>1. auth[r] \in Businesses /\ keys[auth[r]] \in KeyRow
      BY <2>6 DEF RevokeKey
    <3>2. [keys[auth[r]] EXCEPT !.revoked = TRUE] \in KeyRow
      BY <3>1 DEF KeyRow
    <3>3. /\ keys' \in [Businesses -> KeyRow \cup {None}]
          /\ \A c \in Businesses : keys[c] # None => keys'[c] # None
      <4>1. CASE args[r].target = auth[r]
        <5>1. keys' = [keys EXCEPT ![auth[r]] = [keys[auth[r]] EXCEPT !.revoked = TRUE]]
          BY <2>6, <4>1 DEF RevokeKey
        <5> QED
          BY <3>1, <3>2, <5>1
      <4>2. CASE args[r].target # auth[r]
        BY <2>6, <4>2 DEF RevokeKey
      <4> QED
        BY <4>1, <4>2
    <3> QED
      BY <2>6, <3>3 DEF RevokeKey, Answer, Results
  <2>7. ASSUME NEW r \in Requests, ListKeys(r)
        PROVE  TypeOK' /\ HandlerInv'
    BY <2>7 DEF ListKeys, Results
  <2>8. ASSUME NEW r \in Requests, ListCustomers(r)
        PROVE  TypeOK' /\ HandlerInv'
    BY <2>8 DEF ListCustomers, Results
  <2>9. ASSUME NEW r \in Requests, GetCustomer(r)
        PROVE  TypeOK' /\ HandlerInv'
    BY <2>9 DEF GetCustomer, Results
  <2>10. ASSUME NEW r \in Requests, InsertCustomer(r)
         PROVE  TypeOK' /\ HandlerInv'
    BY <2>10 DEF InsertCustomer, Answer, Results, CustomerRow, Args
  <2>11. ASSUME NEW r \in Requests, InsertConflict(r)
         PROVE  TypeOK' /\ HandlerInv'
    BY <2>11 DEF InsertConflict
  <2>12. ASSUME NEW r \in Requests, ExplainConflict(r)
         PROVE  TypeOK' /\ HandlerInv'
    BY <2>12 DEF ExplainConflict, Results
  <2>13. ASSUME NEW r \in Requests, Fail(r)
         PROVE  TypeOK' /\ HandlerInv'
    BY <2>13 DEF Fail, Results
  <2>14. CASE AllDone \/ UNCHANGED vars
    BY <2>14 DEF AllDone, vars
  <2> QED
    BY <2>1, <2>2, <2>3, <2>4, <2>5, <2>6, <2>7, <2>8, <2>9, <2>10, <2>11, <2>12,
       <2>13, <2>14 DEF Next
<1> QED
  BY <1>1, <1>2, PTL DEF Spec

-----------------------------------------------------------------------------
(* Isolation *)

\* A request acts for the business whose key it presented, and is given rows of that
\* business only.
THEOREM Isolation == Spec => []Isolated
<1>1. Init => Isolated
  BY DEF Init, Isolated
<1>2. TypeOK /\ HandlerInv /\ Isolated /\ [Next]_vars => Isolated'
  <2> SUFFICES ASSUME TypeOK, HandlerInv, Isolated, [Next]_vars
               PROVE  Isolated'
    OBVIOUS
  <2> USE NoneAssumption, RowAssumption
      DEF TypeOK, HandlerInv, Isolated, database, requests, Goto, Return, Handles
  <2>1. ASSUME NEW b \in Businesses, InsertBusiness(b) \/ StoreKey(b) \/ CreateFails(b)
        PROVE  Isolated'
    BY <2>1 DEF InsertBusiness, StoreKey, CreateFails
  <2>2. ASSUME NEW r \in Requests, NEW a \in Args, Arrive(r, a)
        PROVE  Isolated'
    BY <2>2 DEF Arrive
  <2>3. ASSUME NEW r \in Requests, Authenticate(r)
        PROVE  Isolated'
    BY <2>3 DEF Authenticate, Verifies, Candidates
  <2>4. ASSUME NEW r \in Requests,
               \/ RefuseKey(r) \/ RevokeKey(r) \/ InsertCustomer(r)
               \/ InsertConflict(r) \/ ExplainConflict(r) \/ Fail(r)
        PROVE  Isolated'
    <3>1. auth' = auth /\ args' = args /\ given' = given
      BY <2>4 DEF RefuseKey, RevokeKey, InsertCustomer, InsertConflict, ExplainConflict,
         Fail
    <3> QED
      BY <3>1
  <2>5. ASSUME NEW r \in Requests, ListKeys(r) \/ ListCustomers(r) \/ GetCustomer(r)
        PROVE  Isolated'
    <3>1. /\ auth' = auth /\ args' = args
          /\ \A s \in Requests \ {r} : given'[s] = given[s]
      BY <2>5 DEF ListKeys, ListCustomers, GetCustomer
    <3>2. /\ \A c \in given'[r] \ Businesses : c.business = auth[r]
          /\ given'[r] \cap Businesses \subseteq {auth[r]}
      BY <2>5 DEF ListKeys, ListCustomers, GetCustomer
    <3> QED
      BY <3>1, <3>2
  <2>6. CASE AllDone \/ UNCHANGED vars
    BY <2>6 DEF AllDone, vars
  <2> QED
    BY <2>1, <2>2, <2>3, <2>4, <2>5, <2>6 DEF Next
<1> QED
  BY <1>1, <1>2, Typing, PTL DEF Spec

-----------------------------------------------------------------------------
(* Keys *)

\* A step that leaves keys, runs of create_business and what requests stand for alone
\* keeps the invariant of the keys, unless it answers a revocation.
LEMMA KeyFrame ==
  ASSUME KeyInv, RevokedIsRefused, NEW r \in Requests,
         UNCHANGED <<businesses, keys, created, args, auth, gone>>,
         \A s \in Requests : resp'[s] = "ok" =>
           resp[s] = "ok" \/ args[s].op # "revoke_key"
  PROVE  KeyInv' /\ RevokedIsRefused'
BY DEF KeyInv, RevokedIsRefused

\* Keys are stored before they are answered, and a revocation is for good: a key whose
\* revocation was answered opens nothing that arrives later.
THEOREM KeysInvariant == Spec => [](KeyInv /\ RevokedIsRefused)
<1>1. Init => KeyInv /\ RevokedIsRefused
  BY NoneAssumption DEF Init, KeyInv, RevokedIsRefused, Results
<1>2. /\ TypeOK /\ HandlerInv /\ HandlerInv' /\ KeyInv /\ RevokedIsRefused
      /\ [Next]_vars
      => KeyInv' /\ RevokedIsRefused'
  <2> SUFFICES ASSUME TypeOK, HandlerInv, HandlerInv', KeyInv, RevokedIsRefused,
                      [Next]_vars
               PROVE  KeyInv' /\ RevokedIsRefused'
    OBVIOUS
  <2> USE NoneAssumption DEF TypeOK, database, requests, Goto, Return, Handles
  <2>1. ASSUME NEW b \in Businesses, InsertBusiness(b) \/ CreateFails(b)
        PROVE  KeyInv' /\ RevokedIsRefused'
    BY <2>1 DEF InsertBusiness, CreateFails, KeyInv, RevokedIsRefused
  <2>2. ASSUME NEW b \in Businesses, StoreKey(b)
        PROVE  KeyInv' /\ RevokedIsRefused'
    <3>1. keys[b] = None /\ b \in businesses
      BY <2>2 DEF StoreKey, KeyInv
    <3>2. /\ \A c \in Businesses \ {b} : keys'[c] = keys[c] /\ created'[c] = created[c]
          /\ keys'[b] # None /\ ~keys'[b].revoked
          /\ created'[b] \in {"ok", "Internal", "gone"}
      <4>1. PICK p \in Prefixes :
              keys' = [keys EXCEPT ![b] = [prefix |-> p, revoked |-> FALSE]]
        BY <2>2 DEF StoreKey
      <4>2. [prefix |-> p, revoked |-> FALSE] \in KeyRow
        BY DEF KeyRow
      <4> QED
        BY <2>2, <4>1, <4>2 DEF StoreKey
    <3>3. UNCHANGED <<businesses, args, auth, resp, gone>>
      BY <2>2 DEF StoreKey
    <3>4. \A r \in Requests : auth[r] # b /\ b \notin gone[r]
      BY <3>1 DEF KeyInv, HandlerInv
    <3>5. \A c \in Businesses :
            /\ created'[c] \in {"idle", "key"} => keys'[c] = None
            /\ created'[c] = "key" => c \in businesses'
            /\ created'[c] = "ok" => c \in businesses' /\ keys'[c] # None
            /\ keys'[c] # None /\ keys'[c].revoked =>
                 \E r \in Requests :
                   auth'[r] = c /\ args'[r].op = "revoke_key" /\ args'[r].target = c
      BY <3>1, <3>2, <3>3 DEF KeyInv
    <3>6. \A r \in Requests :
            /\ resp'[r] = "ok" /\ args'[r].op = "revoke_key" /\ auth'[r] = args'[r].target =>
                 keys'[auth'[r]].revoked
            /\ \A c \in gone'[r] : keys'[c] # None /\ keys'[c].revoked
      <4> SUFFICES ASSUME NEW r \in Requests
                   PROVE  /\ resp'[r] = "ok" /\ args'[r].op = "revoke_key"
                             /\ auth'[r] = args'[r].target => keys'[auth'[r]].revoked
                          /\ \A c \in gone'[r] : keys'[c] # None /\ keys'[c].revoked
        OBVIOUS
      <4>1. resp[r] = "ok" /\ args[r].op = "revoke_key" => auth[r] \in Businesses
        BY DEF HandlerInv
      <4> QED
        BY <3>2, <3>3, <3>4, <4>1 DEF KeyInv
    <3> QED
      BY <3>3, <3>5, <3>6 DEF KeyInv, RevokedIsRefused
  <2>3. ASSUME NEW r \in Requests, NEW a \in Args, Arrive(r, a)
        PROVE  KeyInv' /\ RevokedIsRefused'
    <3>1. \A b \in Businesses : Revoked(b) => keys[b] # None /\ keys[b].revoked
      BY DEF Revoked, KeyInv, HandlerInv
    <3>2. /\ auth[r] = None /\ resp'[r] # "ok"
          /\ \A s \in Requests \ {r} :
               args'[s] = args[s] /\ resp'[s] = resp[s] /\ gone'[s] = gone[s]
          /\ gone'[r] = {b \in Businesses : Revoked(b)}
          /\ UNCHANGED <<businesses, keys, created, auth>>
      BY <2>3 DEF Arrive, HandlerInv, Results
    <3> QED
      BY <3>1, <3>2 DEF KeyInv, RevokedIsRefused
  <2>4. ASSUME NEW r \in Requests, Authenticate(r)
        PROVE  KeyInv' /\ RevokedIsRefused'
    <3>1. PICK b \in Businesses : /\ auth' = [auth EXCEPT ![r] = b]
                                  /\ keys[b] # None /\ ~keys[b].revoked
      BY <2>4 DEF Authenticate, Candidates
    <3>2. auth[r] = None /\ resp[r] = None
      BY <2>4 DEF Authenticate, HandlerInv
    <3>3. UNCHANGED <<businesses, keys, created, args, resp, gone>>
      BY <2>4 DEF Authenticate
    <3> QED
      BY <3>1, <3>2, <3>3 DEF KeyInv, RevokedIsRefused, Results
  <2>5. ASSUME NEW r \in Requests, RevokeKey(r)
        PROVE  KeyInv' /\ RevokedIsRefused'
    <3>1. /\ auth[r] \in Businesses /\ keys[auth[r]] \in KeyRow
          /\ args[r].op = "revoke_key"
          /\ UNCHANGED <<businesses, created, args, auth, gone>>
          /\ \A s \in Requests \ {r} : resp'[s] = resp[s]
      BY <2>5 DEF RevokeKey, HandlerInv, Answer
    <3>2. CASE args[r].target = auth[r]
      <4>1. keys' = [keys EXCEPT ![auth[r]] = [keys[auth[r]] EXCEPT !.revoked = TRUE]]
        BY <2>5, <3>2 DEF RevokeKey
      <4>2. [keys[auth[r]] EXCEPT !.revoked = TRUE] \in KeyRow
        BY <3>1 DEF KeyRow
      <4>3. /\ keys'[auth[r]] # None /\ keys'[auth[r]].revoked
            /\ \A c \in Businesses \ {auth[r]} : keys'[c] = keys[c]
        BY <3>1, <4>1, <4>2 DEF KeyRow
      <4>4. keys[auth[r]] # None
        BY <3>1
      <4>5. \A c \in Businesses : keys[c] # None =>
              keys'[c] # None /\ (keys[c].revoked => keys'[c].revoked)
        BY <4>3
      <4>6. \A c \in Businesses :
              /\ created[c] \in {"idle", "key"} => keys'[c] = None
              /\ keys'[c] # None /\ keys'[c].revoked =>
                   \E s \in Requests :
                     auth[s] = c /\ args[s].op = "revoke_key" /\ args[s].target = c
        BY <3>1, <3>2, <4>3, <4>4 DEF KeyInv
      <4>7. \A s \in Requests :
              resp'[s] = "ok" /\ args[s].op = "revoke_key" /\ auth[s] = args[s].target =>
                keys'[auth[s]].revoked
        BY <3>1, <4>3, <4>5 DEF KeyInv, HandlerInv
      <4> QED
        BY <3>1, <4>5, <4>6, <4>7 DEF KeyInv, RevokedIsRefused
    <3>3. CASE args[r].target # auth[r]
      <4>1. keys' = keys
        BY <2>5, <3>3 DEF RevokeKey
      <4> QED
        BY <3>1, <3>3, <4>1 DEF KeyInv, RevokedIsRefused
    <3> QED
      BY <3>2, <3>3
  <2>6. ASSUME NEW r \in Requests,
               \/ RefuseKey(r) \/ ListKeys(r) \/ ListCustomers(r) \/ GetCustomer(r)
               \/ InsertCustomer(r) \/ InsertConflict(r) \/ ExplainConflict(r) \/ Fail(r)
        PROVE  KeyInv' /\ RevokedIsRefused'
    <3>1. UNCHANGED <<businesses, keys, created, args, auth, gone>>
      BY <2>6 DEF RefuseKey, ListKeys, ListCustomers, GetCustomer, InsertCustomer,
         InsertConflict, ExplainConflict, Fail
    <3>2. \A s \in Requests : resp'[s] = "ok" =>
            resp[s] = "ok" \/ args[s].op # "revoke_key"
      BY <2>6 DEF RefuseKey, ListKeys, ListCustomers, GetCustomer, InsertCustomer,
         InsertConflict, ExplainConflict, Fail, Answer
    <3> QED
      BY <3>1, <3>2, KeyFrame
  <2>7. CASE AllDone \/ UNCHANGED vars
    BY <2>7 DEF AllDone, vars, KeyInv, RevokedIsRefused
  <2> QED
    BY <2>1, <2>2, <2>3, <2>4, <2>5, <2>6, <2>7 DEF Next
<1> QED
  BY <1>1, <1>2, Typing, PTL DEF Spec

\* A key whose revocation was answered opens no request that arrives later.
THEOREM Revocation == Spec => []RevokedIsRefused
BY KeysInvariant, PTL

\* A business told of its key finds it stored, and in force until it revokes it itself.
THEOREM KeysAreUsable == Spec => []AnsweredIsUsable
<1>1. KeyInv => AnsweredIsUsable
  BY DEF KeyInv, AnsweredIsUsable
<1> QED
  BY <1>1, KeysInvariant, PTL

-----------------------------------------------------------------------------
(* Writes *)

\* What a business stored is changed by its own requests only: by those that present its
\* key, also while they race, fail or are answered late.
THEOREM Ownership == Spec => WritesAreOwn
<1> DEFINE Own == /\ customers \subseteq customers'
                  /\ \A c \in customers' \ customers : PresentsKeyOf(c.id, c.business)
                  /\ \A b \in Businesses :
                       \/ keys'[b] = keys[b]
                       \/ keys[b] = None /\ created[b] = "key"
                       \/ /\ keys[b] # None /\ keys'[b] = [keys[b] EXCEPT !.revoked = TRUE]
                          /\ \E r \in Requests :
                               PresentsKeyOf(r, b) /\ pc[r] = "handle" /\ pc'[r] = "done"
<1>1. TypeOK /\ HandlerInv /\ Isolated /\ KeyInv /\ [Next]_vars => Own
  <2> SUFFICES ASSUME TypeOK, HandlerInv, Isolated, KeyInv, [Next]_vars
               PROVE  Own
    OBVIOUS
  <2>1. ASSUME NEW r \in Requests, pc[r] = "handle"
        PROVE  auth[r] \in Businesses /\ PresentsKeyOf(r, auth[r])
    BY <2>1, NoneAssumption DEF HandlerInv, Isolated, PresentsKeyOf
  <2>2. ASSUME UNCHANGED <<keys, customers>>
        PROVE  Own
    BY <2>2
  <2>3. ASSUME NEW b \in Businesses, StoreKey(b)
        PROVE  Own
    BY <2>3 DEF StoreKey, KeyInv, TypeOK
  <2>4. ASSUME NEW r \in Requests, RevokeKey(r)
        PROVE  Own
    <3>1. pc[r] = "handle" /\ customers' = customers
      BY <2>4 DEF RevokeKey, Handles
    <3>2. pc'[r] = "done"
      BY <2>4 DEF RevokeKey, Answer, Return, TypeOK
    <3>3. CASE args[r].target # auth[r]
      BY <2>4, <3>1, <3>3 DEF RevokeKey
    <3>4. CASE args[r].target = auth[r]
      <4>1. keys' = [keys EXCEPT ![auth[r]] = [keys[auth[r]] EXCEPT !.revoked = TRUE]]
        BY <2>4, <3>4 DEF RevokeKey
      <4>2. keys[auth[r]] # None
        BY <2>1, <3>1, NoneAssumption DEF HandlerInv
      <4> QED
        BY <2>1, <3>1, <3>2, <4>1, <4>2 DEF TypeOK
    <3> QED
      BY <3>3, <3>4
  <2>5. ASSUME NEW r \in Requests, InsertCustomer(r)
        PROVE  Own
    <3>1. /\ pc[r] = "handle" /\ keys' = keys
          /\ customers' = customers \cup
               {[id |-> r, business |-> auth[r], email |-> args[r].target]}
      BY <2>5 DEF InsertCustomer, Handles
    <3> QED
      BY <2>1, <3>1
  <2> QED
    BY <2>2, <2>3, <2>4, <2>5
    DEF Next, vars, database, requests, InsertBusiness, CreateFails, Arrive, Authenticate,
        RefuseKey, ListKeys, ListCustomers, GetCustomer, InsertConflict, ExplainConflict,
        Fail, AllDone
<1> QED
  BY <1>1, Typing, Isolation, KeysInvariant, PTL DEF Spec, WritesAreOwn

-----------------------------------------------------------------------------
(* Customers *)

CustomerFacts == CustomerInv /\ OneCustomerPerEmail /\ ConflictsAreReal

\* A step that moves one request, leaves the customers alone and explains nothing keeps
\* the invariant of the customers.
LEMMA CustomerFrame ==
  ASSUME TypeOK, CustomerFacts, NEW r \in Requests, pc[r] # "done",
         customers' = customers, failed \subseteq failed',
         \A s \in Requests \ {r} :
           /\ pc'[s] = pc[s] /\ resp'[s] = resp[s]
           /\ auth'[s] = auth[s] /\ args'[s] = args[s],
         pc'[r] # "conflict",
         resp'[r] # "CustomerAlreadyExists",
         resp'[r] = "Internal" => r \in failed'
  PROVE  CustomerFacts'
<1>1. CustomerInv'
  BY DEF CustomerFacts, CustomerInv, TypeOK, CustomerRow
<1>2. OneCustomerPerEmail'
  BY DEF CustomerFacts, OneCustomerPerEmail
<1>3. ConflictsAreReal'
  BY DEF CustomerFacts, ConflictsAreReal
<1> QED
  BY <1>1, <1>2, <1>3 DEF CustomerFacts

\* An email of a business has one customer; who is told of a conflict is told the truth,
\* and a 500 means that a statement failed.
THEOREM CustomersInvariant == Spec => []CustomerFacts
<1>1. Init => CustomerFacts
  BY NoneAssumption
     DEF Init, CustomerFacts, CustomerInv, OneCustomerPerEmail, ConflictsAreReal, Results
<1>2. TypeOK /\ HandlerInv /\ CustomerFacts /\ [Next]_vars => CustomerFacts'
  <2> SUFFICES ASSUME TypeOK, HandlerInv, CustomerFacts, [Next]_vars
               PROVE  CustomerFacts'
    OBVIOUS
  <2> USE NoneAssumption DEF TypeOK, database, requests, Goto, Return, Handles
  <2>1. ASSUME NEW b \in Businesses, InsertBusiness(b) \/ StoreKey(b) \/ CreateFails(b)
        PROVE  CustomerFacts'
    BY <2>1 DEF InsertBusiness, StoreKey, CreateFails, CustomerFacts, CustomerInv,
       OneCustomerPerEmail, ConflictsAreReal
  <2>2. ASSUME NEW r \in Requests, NEW a \in Args, Arrive(r, a)
        PROVE  CustomerFacts'
    BY <2>2, CustomerFrame DEF Arrive, HandlerInv, Results
  <2>3. ASSUME NEW r \in Requests, Authenticate(r)
        PROVE  CustomerFacts'
    BY <2>3, CustomerFrame DEF Authenticate, HandlerInv, Results
  <2>4. ASSUME NEW r \in Requests, RefuseKey(r)
        PROVE  CustomerFacts'
    BY <2>4, CustomerFrame DEF RefuseKey
  <2>5. ASSUME NEW r \in Requests, RevokeKey(r)
        PROVE  CustomerFacts'
    BY <2>5, CustomerFrame DEF RevokeKey, Answer
  <2>6. ASSUME NEW r \in Requests, ListKeys(r) \/ ListCustomers(r) \/ GetCustomer(r)
        PROVE  CustomerFacts'
    BY <2>6, CustomerFrame DEF ListKeys, ListCustomers, GetCustomer
  <2>7. ASSUME NEW r \in Requests, Fail(r)
        PROVE  CustomerFacts'
    BY <2>7, CustomerFrame DEF Fail
  <2>8. ASSUME NEW r \in Requests, InsertCustomer(r)
        PROVE  CustomerFacts'
    <3> DEFINE c == [id |-> r, business |-> auth[r], email |-> args[r].target]
    <3>1. /\ customers' = customers \cup {c}
          /\ pc[r] = "handle" /\ pc' = [pc EXCEPT ![r] = "done"]
          /\ \A s \in Requests \ {r} : resp'[s] = resp[s]
          /\ resp'[r] \in {"ok", "Internal", "gone"}
          /\ resp'[r] = "Internal" => r \in failed'
          /\ failed \subseteq failed'
          /\ UNCHANGED <<auth, args>>
      BY <2>8 DEF InsertCustomer, Answer
    <3>2. \A d \in customers : ~(d.business = c.business /\ d.email = c.email)
      BY <2>8 DEF InsertCustomer, Conflicts
    <3>3. CustomerInv'
      BY <3>1 DEF CustomerFacts, CustomerInv, CustomerRow
    <3>4. OneCustomerPerEmail'
      BY <3>1, <3>2 DEF CustomerFacts, OneCustomerPerEmail
    <3>5. ConflictsAreReal'
      BY <3>1 DEF CustomerFacts, ConflictsAreReal
    <3> QED
      BY <3>3, <3>4, <3>5 DEF CustomerFacts
  <2>9. ASSUME NEW r \in Requests, InsertConflict(r)
        PROVE  CustomerFacts'
    <3>1. /\ pc[r] = "handle" /\ pc' = [pc EXCEPT ![r] = "conflict"]
          /\ args[r].op = "create_customer"
          /\ \E c \in customers : c.business = auth[r] /\ c.email = args[r].target
          /\ UNCHANGED <<customers, auth, args, resp, failed>>
      BY <2>9 DEF InsertConflict, Conflicts
    <3>2. CustomerInv'
      BY <3>1 DEF CustomerFacts, CustomerInv, CustomerRow
    <3> QED
      BY <3>1, <3>2 DEF CustomerFacts, OneCustomerPerEmail, ConflictsAreReal
  <2>10. ASSUME NEW r \in Requests, ExplainConflict(r)
         PROVE  CustomerFacts'
    <3>1. PICK c \in customers : c.business = auth[r] /\ c.email = args[r].target
      BY <2>10 DEF ExplainConflict, CustomerFacts, CustomerInv
    <3>2. c.id # r
      BY <2>10 DEF ExplainConflict, CustomerFacts, CustomerInv
    <3>3. /\ pc' = [pc EXCEPT ![r] = "done"]
          /\ resp' = [resp EXCEPT ![r] = "CustomerAlreadyExists"]
          /\ UNCHANGED <<customers, auth, args, failed>>
      BY <2>10, <3>1 DEF ExplainConflict
    <3>4. CustomerInv' /\ OneCustomerPerEmail'
      BY <3>3 DEF CustomerFacts, CustomerInv, OneCustomerPerEmail, CustomerRow
    <3>5. ConflictsAreReal'
      BY <3>1, <3>2, <3>3 DEF CustomerFacts, ConflictsAreReal
    <3> QED
      BY <3>4, <3>5 DEF CustomerFacts
  <2>11. CASE AllDone \/ UNCHANGED vars
    BY <2>11 DEF AllDone, vars, CustomerFacts, CustomerInv, OneCustomerPerEmail,
       ConflictsAreReal
  <2> QED
    BY <2>1, <2>2, <2>3, <2>4, <2>5, <2>6, <2>7, <2>8, <2>9, <2>10, <2>11 DEF Next
<1> QED
  BY <1>1, <1>2, Typing, PTL DEF Spec

\* Two requests that create one customer at once never both do.
THEOREM OneCustomer == Spec => []OneCustomerPerEmail
<1>1. CustomerFacts => OneCustomerPerEmail
  BY DEF CustomerFacts
<1> QED
  BY <1>1, CustomersInvariant, PTL

\* Who is told that a customer exists is told the truth; the last branch of
\* create_customer is never taken.
THEOREM TrueConflicts == Spec => []ConflictsAreReal
<1>1. CustomerFacts => ConflictsAreReal
  BY DEF CustomerFacts
<1> QED
  BY <1>1, CustomersInvariant, PTL

\* The inductive invariant holds in every reachable state.
THEOREM Invariance == Spec => []IInv
<1>1. TypeOK /\ HandlerInv /\ Isolated /\ KeyInv /\ RevokedIsRefused /\ CustomerFacts
      => IInv
  BY DEF IInv, CustomerFacts
<1> QED
  BY <1>1, Typing, Isolation, KeysInvariant, CustomersInvariant, PTL

=============================================================================
