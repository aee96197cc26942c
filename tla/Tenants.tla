------------------------------ MODULE Tenants ------------------------------
(***************************************************************************)
(* Businesses, their API keys and their customers:                         *)
(* create_business, revoke_key and list_keys (src/handlers/businesses.rs), *)
(* the authentication in front of every other handler (src/auth.rs), and   *)
(* create_customer, get_customer and list_customers                        *)
(* (src/handlers/customers.rs).                                            *)
(*                                                                         *)
(* Every statement is a transaction of its own.  A statement may fail, and *)
(* it may be executed although its reply is lost; a handler may be dropped *)
(* at any statement.                                                       *)
(***************************************************************************)
EXTENDS FiniteSets

CONSTANTS
  Businesses,  \* runs of create_business; a run names the business it inserts,
               \* and that business's key, as nothing else makes keys
  Requests,    \* runs of the authenticated handlers; create_customer names its row
  Prefixes,    \* values of key_prefix: the first 8 digits of a random UUID
  Emails,
  None

VARIABLES
  \* the database
  businesses,  \* the rows of businesses
  keys,        \* keys[b]: the api_keys row of business b, or None
  customers,   \* the rows of customers
  \* the handlers
  created,     \* created[b]: where create_business b is, or how it ended
  pc, args,    \* where request r is, and what the client sent
  auth,        \* auth[r]: the business authentication found, or None
  given,       \* given[r]: the rows r was given to answer with
  resp,        \* resp[r]: the answer, or None
  \* history
  gone,        \* gone[r]: keys whose revocation had been answered when r arrived
  failed       \* requests of which a statement failed

database == <<businesses, keys, customers>>
vars == <<database, created, pc, args, auth, given, resp, gone, failed>>

-----------------------------------------------------------------------------
(* Data *)

KeyRow == [prefix: Prefixes, revoked: BOOLEAN]

CustomerRow == [id: Requests, business: Businesses, email: Emails]

\* The bearer token: a prefix, and a secret that is the key of a business or (None)
\* of nobody.  The hash of a key verifies that key's secret only.
Credential == [prefix: Prefixes, secret: Businesses \cup {None}]

Args == [op: {"revoke_key"}, cred: Credential \cup {None}, target: Businesses]
        \cup
        [op: {"create_customer"}, cred: Credential \cup {None}, target: Emails]
        \cup
        [op: {"get_customer"}, cred: Credential \cup {None}, target: Requests]
        \cup
        [op: {"list_keys", "list_customers"}, cred: Credential \cup {None}, target: {None}]

Results == {"ok", "Unauthorized", "InvalidApiKey", "NotFound", "CustomerAlreadyExists",
            "Internal", "gone"}

ASSUME NoneAssumption ==
  None \notin Businesses \cup KeyRow \cup Credential \cup Args \cup Results
ASSUME RowAssumption == Businesses \cap CustomerRow = {}

TypeOK ==
  /\ businesses \subseteq Businesses
  /\ keys \in [Businesses -> KeyRow \cup {None}]
  /\ customers \subseteq CustomerRow
  /\ created \in [Businesses -> {"idle", "key"} \cup Results]
  /\ pc \in [Requests -> {"idle", "auth", "handle", "conflict", "done"}]
  /\ args \in [Requests -> Args \cup {None}]
  /\ auth \in [Requests -> Businesses \cup {None}]
  /\ given \in [Requests -> SUBSET (CustomerRow \cup Businesses)]
  /\ resp \in [Requests -> Results \cup {None}]
  /\ gone \in [Requests -> SUBSET Businesses]
  /\ failed \subseteq Requests

Init ==
  /\ businesses = {}
  /\ keys = [b \in Businesses |-> None]
  /\ customers = {}
  /\ created = [b \in Businesses |-> "idle"]
  /\ pc = [r \in Requests |-> "idle"]
  /\ args = [r \in Requests |-> None]
  /\ auth = [r \in Requests |-> None]
  /\ given = [r \in Requests |-> {}]
  /\ resp = [r \in Requests |-> None]
  /\ gone = [r \in Requests |-> {}]
  /\ failed = {}

-----------------------------------------------------------------------------
(* create_business: the business and its key in two transactions *)

requests == <<pc, args, auth, given, resp, gone, failed>>

InsertBusiness(b) ==
  /\ created[b] = "idle"
  /\ businesses' = businesses \cup {b}
  /\ \E next \in {"key", "Internal", "gone"} : created' = [created EXCEPT ![b] = next]
  /\ UNCHANGED <<keys, customers, requests>>

\* The prefix is random, and unique only among the keys of one business.
StoreKey(b) ==
  /\ created[b] = "key"
  /\ \E p \in Prefixes : keys' = [keys EXCEPT ![b] = [prefix |-> p, revoked |-> FALSE]]
  /\ \E next \in {"ok", "Internal", "gone"} : created' = [created EXCEPT ![b] = next]
  /\ UNCHANGED <<businesses, customers, requests>>

\* Mutant: the result of store_api_key is not looked at.
CreateFailsUnnoticed(b) ==
  /\ created[b] \in {"idle", "key"}
  /\ created' = [created EXCEPT ![b] = IF @ = "key" THEN "ok" ELSE "Internal"]
  /\ UNCHANGED <<database, requests>>

CreateFails(b) ==
  /\ created[b] \in {"idle", "key"}
  /\ \E result \in {"Internal", "gone"} : created' = [created EXCEPT ![b] = result]
  /\ UNCHANGED <<database, requests>>

-----------------------------------------------------------------------------
(* Authentication *)

\* What clients can send: the keys they were given, and made-up ones
Known == {[prefix |-> keys[b].prefix, secret |-> b] : b \in {c \in Businesses : created[c] = "ok"}}
Sendable == Known \cup [prefix: Prefixes, secret: {None}] \cup {None}

Revoked(b) == \E r \in Requests :
  resp[r] = "ok" /\ args[r].op = "revoke_key" /\ args[r].target = b /\ auth[r] = b

Goto(r, at) == pc' = [pc EXCEPT ![r] = at] /\ UNCHANGED resp

Return(r, result) ==
  /\ pc' = [pc EXCEPT ![r] = "done"]
  /\ resp' = [resp EXCEPT ![r] = result]

\* A request without a bearer token is refused before the first statement.
Arrive(r, a) ==
  /\ pc[r] = "idle"
  /\ a.cred \in Sendable
  /\ args' = [args EXCEPT ![r] = a]
  /\ gone' = [gone EXCEPT ![r] = {b \in Businesses : Revoked(b)}]
  /\ IF a.cred = None THEN Return(r, "Unauthorized") ELSE Goto(r, "auth")
  /\ UNCHANGED <<database, created, auth, given, failed>>

\* WHERE key_prefix = $1 AND revoked_at IS NULL.  The mutant forgets the second part.
CandidatesEver(prefix) == {b \in Businesses : keys[b] # None /\ keys[b].prefix = prefix}
Candidates(prefix) ==
  {b \in Businesses : keys[b] # None /\ keys[b].prefix = prefix /\ ~keys[b].revoked}

\* verify_password.  The mutant trusts the prefix.
VerifiesAny(b, secret) == TRUE
Verifies(b, secret) == secret = b

\* fetch_optional returns one row, whichever comes first.
Authenticate(r) ==
  /\ pc[r] = "auth"
  /\ \E b \in Candidates(args[r].cred.prefix) :
       /\ Verifies(b, args[r].cred.secret)
       /\ auth' = [auth EXCEPT ![r] = b]
  /\ Goto(r, "handle")
  /\ UNCHANGED <<database, created, args, given, gone, failed>>

\* Mutant: a handler that takes authentication as optional goes on without a business.
RefuseKeyLate(r) ==
  /\ pc[r] = "auth"
  /\ Candidates(args[r].cred.prefix) = {}
  /\ Goto(r, "handle")
  /\ UNCHANGED <<database, created, args, auth, given, gone, failed>>

RefuseKey(r) ==
  /\ pc[r] = "auth"
  /\ LET found == Candidates(args[r].cred.prefix)
     IN found = {} \/ \E b \in found : ~Verifies(b, args[r].cred.secret)
  /\ Return(r, "InvalidApiKey")
  /\ UNCHANGED <<database, created, args, auth, given, gone, failed>>

-----------------------------------------------------------------------------
(* The handlers *)

Handles(r, op) == pc[r] = "handle" /\ args[r].op = op

\* A statement's reply may be lost: the handler goes on with its answer or fails.
Answer(r, result) ==
  \/ Return(r, result) /\ UNCHANGED failed
  \/ \E error \in {"Internal", "gone"} : Return(r, error) /\ failed' = failed \cup {r}

\* Mutant: the UPDATE forgets AND business_id = $2.
RevokeKeyOfAnyone(r) ==
  LET b == args[r].target
  IN /\ Handles(r, "revoke_key")
     /\ keys' = IF keys[b] # None THEN [keys EXCEPT ![b].revoked = TRUE] ELSE keys
     /\ Answer(r, "ok")
     /\ UNCHANGED <<businesses, customers, created, args, auth, given, gone>>

\* revoke_key: 204 whether or not a row matched, and a second revocation
\* overwrites the time of the first.
RevokeKey(r) ==
  LET b == args[r].target
  IN /\ Handles(r, "revoke_key")
     /\ keys' = IF b = auth[r] THEN [keys EXCEPT ![b].revoked = TRUE] ELSE keys
     /\ Answer(r, "ok")
     /\ UNCHANGED <<businesses, customers, created, args, auth, given, gone>>

ListKeys(r) ==
  /\ Handles(r, "list_keys")
  /\ given' = [given EXCEPT ![r] = {b \in Businesses : keys[b] # None /\ b = auth[r]}]
  /\ Return(r, "ok")
  /\ UNCHANGED <<database, created, args, auth, gone, failed>>

ListCustomers(r) ==
  /\ Handles(r, "list_customers")
  /\ given' = [given EXCEPT ![r] = {c \in customers : c.business = auth[r]}]
  /\ Return(r, "ok")
  /\ UNCHANGED <<database, created, args, auth, gone, failed>>

GetCustomer(r) ==
  /\ Handles(r, "get_customer")
  /\ given' = [given EXCEPT ![r] =
       {c \in customers : c.id = args[r].target /\ c.business = auth[r]}]
  /\ Return(r, IF given'[r] = {} THEN "NotFound" ELSE "ok")
  /\ UNCHANGED <<database, created, args, auth, gone, failed>>

\* UNIQUE (business_id, email).  The mutants: none, and UNIQUE (email).
NoConflicts(r) == {}
ConflictsAnywhere(r) == {c \in customers : c.email = args[r].target}
Conflicts(r) == {c \in customers : c.business = auth[r] /\ c.email = args[r].target}

\* INSERT ... ON CONFLICT DO NOTHING
InsertCustomer(r) ==
  /\ Handles(r, "create_customer")
  /\ Conflicts(r) = {}
  /\ customers' = customers \cup
       {[id |-> r, business |-> auth[r], email |-> args[r].target]}
  /\ Answer(r, "ok")
  /\ UNCHANGED <<businesses, keys, created, args, auth, given, gone>>

InsertConflict(r) ==
  /\ Handles(r, "create_customer")
  /\ Conflicts(r) # {}
  /\ Goto(r, "conflict")
  /\ UNCHANGED <<database, created, args, auth, given, gone, failed>>

\* The second statement looks for the customer the first ran into.
ExplainConflict(r) ==
  /\ pc[r] = "conflict"
  /\ IF \E c \in customers : c.business = auth[r] /\ c.email = args[r].target
     THEN Return(r, "CustomerAlreadyExists")
     ELSE Return(r, "Internal")
  /\ UNCHANGED <<database, created, args, auth, given, gone, failed>>

\* A statement fails, or the handler is dropped.  A failed lookup of the key is
\* answered like a wrong one.
Fail(r) ==
  /\ pc[r] \in {"auth", "handle", "conflict"}
  /\ \E error \in {IF pc[r] = "auth" THEN "InvalidApiKey" ELSE "Internal", "gone"} :
       Return(r, error)
  /\ failed' = failed \cup {r}
  /\ UNCHANGED <<database, created, args, auth, given, gone>>

-----------------------------------------------------------------------------

\* Every request has been answered.
AllDone ==
  /\ \A b \in Businesses : created[b] \notin {"idle", "key"}
  /\ \A r \in Requests : pc[r] = "done"
  /\ UNCHANGED vars

Next ==
  \/ \E b \in Businesses : InsertBusiness(b) \/ StoreKey(b) \/ CreateFails(b)
  \/ \E r \in Requests, a \in Args : Arrive(r, a)
  \/ \E r \in Requests :
       \/ Authenticate(r) \/ RefuseKey(r)
       \/ RevokeKey(r) \/ ListKeys(r)
       \/ ListCustomers(r) \/ GetCustomer(r)
       \/ InsertCustomer(r) \/ InsertConflict(r) \/ ExplainConflict(r)
       \/ Fail(r)
  \/ AllDone

Spec == Init /\ [][Next]_vars

-----------------------------------------------------------------------------
(* Properties *)

\* A request acts for the business whose key it presented and for no other, also when
\* the prefixes of two keys collide, and is given rows of that business only
\* (DESIGN.md section 13).
Isolated ==
  \A r \in Requests :
    /\ auth[r] # None => args[r].cred.secret = auth[r]
    /\ \A c \in given[r] \ Businesses : c.business = auth[r]
    /\ given[r] \cap Businesses \subseteq {auth[r]}

\* A key whose revocation was answered opens no request that arrives later.
RevokedIsRefused == \A r \in Requests : auth[r] \notin gone[r]

\* A business told of its key can use it: the key is stored, and in force until the
\* business itself revokes it.
AnsweredIsUsable ==
  \A b \in Businesses : created[b] = "ok" =>
    /\ b \in businesses
    /\ keys[b] # None
    /\ keys[b].revoked =>
         \E r \in Requests :
           auth[r] = b /\ args[r].op = "revoke_key" /\ args[r].target = b

\* What a business stored is changed by its own requests only, whatever ids others send:
\* customers are added by a request with the key of their business and stay as they are,
\* and a key is stored once and then revoked by a request that presents it.
PresentsKeyOf(r, b) == args[r] # None /\ args[r].cred # None /\ args[r].cred.secret = b

WritesAreOwn ==
  [][/\ customers \subseteq customers'
     /\ \A c \in customers' \ customers : PresentsKeyOf(c.id, c.business)
     /\ \A b \in Businesses :
          \/ keys'[b] = keys[b]
          \/ keys[b] = None /\ created[b] = "key"
          \/ /\ keys[b] # None /\ keys'[b] = [keys[b] EXCEPT !.revoked = TRUE]
             /\ \E r \in Requests :
                  PresentsKeyOf(r, b) /\ pc[r] = "handle" /\ pc'[r] = "done"]_vars

\* Two requests that create a customer at once never both do (DESIGN.md section 2.3).
OneCustomerPerEmail ==
  \A c, d \in customers : c.business = d.business /\ c.email = d.email => c = d

\* Whoever is told that a customer exists is told the truth, and nobody is answered
\* 500 unless a statement failed: the last branch of create_customer is never taken.
ConflictsAreReal ==
  \A r \in Requests :
    /\ resp[r] = "CustomerAlreadyExists" =>
         \E c \in customers : c.id # r /\ c.business = auth[r] /\ c.email = args[r].target
    /\ resp[r] = "Internal" => r \in failed

-----------------------------------------------------------------------------
(* The inductive invariant behind the properties, part by part *)

\* What each place of a handler may rely on
HandlerInv ==
  \A r \in Requests :
    /\ pc[r] # "idle" => args[r] # None
    /\ pc[r] # "done" => given[r] = {} /\ resp[r] = None
    /\ pc[r] \in {"idle", "auth"} => auth[r] = None
    /\ pc[r] \in {"auth", "handle", "conflict"} => args[r].cred # None
    /\ pc[r] \in {"handle", "conflict"} => auth[r] \in Businesses
    /\ resp[r] = "ok" => auth[r] \in Businesses
    /\ auth[r] # None => keys[auth[r]] # None

\* A key is stored once and revoked by its business, for good.
KeyInv ==
  /\ \A b \in Businesses :
       /\ created[b] \in {"idle", "key"} => keys[b] = None
       /\ created[b] = "key" => b \in businesses
       /\ created[b] = "ok" => b \in businesses /\ keys[b] # None
       /\ keys[b] # None /\ keys[b].revoked =>
            \E r \in Requests :
              auth[r] = b /\ args[r].op = "revoke_key" /\ args[r].target = b
  /\ \A r \in Requests :
       /\ resp[r] = "ok" /\ args[r].op = "revoke_key" /\ auth[r] = args[r].target =>
            keys[auth[r]].revoked
       /\ \A b \in gone[r] : keys[b] # None /\ keys[b].revoked

\* A row is the work of a request that has ended; what a request ran into is there.
CustomerInv ==
  /\ \A c \in customers : pc[c.id] = "done"
  /\ \A r \in Requests : pc[r] = "conflict" =>
       /\ args[r].op = "create_customer"
       /\ \E c \in customers : c.business = auth[r] /\ c.email = args[r].target

IInv ==
  /\ TypeOK /\ HandlerInv /\ Isolated /\ KeyInv /\ RevokedIsRefused
  /\ CustomerInv /\ OneCustomerPerEmail /\ ConflictsAreReal

=============================================================================
