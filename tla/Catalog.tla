------------------------------- MODULE Catalog -------------------------------
(***************************************************************************)
(* The back office's catalogue: customers (document), vehicles (plate,     *)
(* chassis) and users of customers (e-mail), each unique among the rows    *)
(* that are not deleted (domains/crm, domains/fleet).                      *)
(*                                                                         *)
(* A request reads and checks (Begin...), then writes and commits          *)
(* (Commit...). READ COMMITTED, no lock; customer_users.email alone has a  *)
(* unique index.                                                           *)
(***************************************************************************)
EXTENDS Integers, Sequences, FiniteSets

CONSTANTS
  Keys,     \* documents, plates or chassis, e-mails
  Requests, \* requests in progress at once
  MaxRows   \* bound: rows ever created

(* What the constants may be.                                                *)
BoundedRows == MaxRows \in Nat

VARIABLES
  rows,   \* by id: [kind, key, active, deleted]
  request \* the request each handler is in

vars == <<rows, request>>

Kinds == {"customer", "vehicle", "user"}
Indexed == {"user"}
Idle == [op |-> "idle"]

Init ==
  /\ rows = <<>>
  /\ request = [r \in Requests |-> Idle]

(* The filter deleted_at IS NULL.                                            *)
Live(i) == ~rows[i].deleted

Holders(kind, key) == {i \in DOMAIN rows : rows[i].kind = kind /\ rows[i].key = key /\ Live(i)}

(* _ensure_customer: any live customer will do here, whose row it is makes   *)
(* no difference to what is unique.                                          *)
CustomerFor(kind) ==
  kind = "customer" \/ \E i \in DOMAIN rows : rows[i].kind = "customer" /\ Live(i)

(* _ensure_unique_identifiers, get_by_document, get_by_email; the first form *)
(* forgets which row is being edited.                                        *)
UniqueAnywhere(kind, key, exclude) == exclude # {} \/ Holders(kind, key) = {}
Unique(kind, key, exclude) == Holders(kind, key) \subseteq exclude

Begin(r, q) ==
  /\ request[r] = Idle
  /\ request' = [request EXCEPT ![r] = q]
  /\ UNCHANGED rows

Done(r) == request' = [request EXCEPT ![r] = Idle]

(* The commit fails: the unique index, or a row that is not there any more.  *)
Violates(kind, key, exclude) ==
  kind \in Indexed /\ ~(Holders(kind, key) \subseteq exclude)

Gone(i) == rows[i].kind = "user" /\ rows[i].deleted

-----------------------------------------------------------------------------
(* POST: of a customer, or of a vehicle or a user of a customer there is.    *)
BeginCreate(r, kind, key) ==
  /\ CustomerFor(kind)
  /\ Unique(kind, key, {})
  /\ Begin(r, [op |-> "create", kind |-> kind, key |-> key])

CommitCreate(r) ==
  LET q == request[r] IN
  /\ q.op = "create"
  /\ Len(rows) < MaxRows
  /\ \E active \in (IF q.kind = "user" THEN BOOLEAN ELSE {TRUE}) :
       rows' = IF Violates(q.kind, q.key, {}) THEN rows
               ELSE Append(rows, [kind |-> q.kind, key |-> q.key,
                                  active |-> active, deleted |-> FALSE])
  /\ Done(r)

(* PUT: the key is written only if it differs from the row as it was loaded. *)
(* A vehicle's customer is looked up, a user's is not.                       *)
BeginUpdate(r, i, key) ==
  LET kind == rows[i].kind IN
  /\ Live(i)
  /\ kind = "vehicle" => CustomerFor(kind)
  /\ Unique(kind, key, {i})
  /\ Begin(r, [op |-> "update", id |-> i, kind |-> kind, key |-> key,
               loaded |-> rows[i].key])

CommitUpdate(r) ==
  LET q == request[r] IN
  /\ q.op = "update"
  /\ rows' = IF q.key = q.loaded \/ Violates(q.kind, q.key, {q.id}) \/ Gone(q.id)
             THEN rows ELSE [rows EXCEPT ![q.id].key = q.key]
  /\ Done(r)

(* PATCH .../status                                                          *)
BeginSetStatus(r, i, new) ==
  /\ Live(i)
  /\ Begin(r, [op |-> "status", id |-> i, new |-> new, loaded |-> rows[i].active])

CommitSetStatus(r) ==
  LET q == request[r] IN
  /\ q.op = "status"
  /\ rows' = IF q.new = q.loaded \/ Gone(q.id) THEN rows
             ELSE [rows EXCEPT ![q.id].active = q.new]
  /\ Done(r)

(* DELETE: a customer or a vehicle is marked, and nothing else looks at what *)
(* it owns; the row of a user goes.                                          *)
BeginDelete(r, i) ==
  /\ Live(i)
  /\ Begin(r, [op |-> "delete", id |-> i, loaded |-> rows[i].active])

CommitDelete(r) ==
  LET q == request[r] IN
  /\ q.op = "delete"
  /\ rows' = [rows EXCEPT ![q.id].deleted = TRUE,
                          ![q.id].active = IF q.loaded THEN FALSE ELSE @]
  /\ Done(r)

Next ==
  \E r \in Requests :
    \/ \E kind \in Kinds, key \in Keys : BeginCreate(r, kind, key)
    \/ \E i \in DOMAIN rows :
         \/ \E key \in Keys : BeginUpdate(r, i, key)
         \/ \E new \in BOOLEAN : BeginSetStatus(r, i, new)
         \/ BeginDelete(r, i)
    \/ CommitCreate(r) \/ CommitUpdate(r) \/ CommitSetStatus(r) \/ CommitDelete(r)

Spec == Init /\ [][Next]_vars
-----------------------------------------------------------------------------
(* Every variable ranges over what the code can store in it.                 *)
TypeOK ==
  /\ rows \in Seq([kind : Kinds, key : Keys, active : BOOLEAN, deleted : BOOLEAN])
  /\ \A r \in Requests : request[r].op \in {"idle", "create", "update", "status", "delete"}

(* No two live rows of a kind share a key, but for one more per request in   *)
(* progress besides the one that takes it; of users, not even then.          *)
DuplicatesBounded ==
  \A kind \in Kinds, key \in Keys :
    Cardinality(Holders(kind, key)) <= IF kind \in Indexed THEN 1 ELSE Cardinality(Requests)
=============================================================================
