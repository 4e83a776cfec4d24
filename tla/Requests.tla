------------------------------ MODULE Requests ------------------------------
(***************************************************************************)
(* The life of an HTTP request (handler.rs): it takes a pooled connection, *)
(* its top-level fields take turns on that connection (RequestConnection), *)
(* and their relation fields (relation.rs) go through the data loaders of  *)
(* the schema the request started with (dataloader.rs).  A loader collects *)
(* the keys of all requests into a batch; the batch is a task of its own   *)
(* that takes a second connection from the same pool.                      *)
(***************************************************************************)
EXTENDS Naturals, Sequences, FiniteSets, SequencesExt

CONSTANTS
  Clients,       \* requests that may arrive
  Fields,        \* top-level fields of a request, each with one relation field
  Kind,          \* field -> "hasMany" or "belongsTo", the relation it resolves
  Table,         \* the rows of the related table: [id, fk]; fk equals no NULL, not even its own
  ParentKeys,    \* field -> keys its parent row may hold; NoKey is NULL or a missing column
  NoKey,
  PoolMax,       \* connections of the pool
  DefaultLimit,  \* 20 in the code: rows per parent of a hasMany field
  MaxSwaps,      \* bound: schema hot swaps
  MaxFaults      \* bound: failed statements, disconnecting clients

NoField   == "none"

ASSUME ReqAssumption ==
  /\ Kind \in [Fields -> {"hasMany", "belongsTo"}]
  /\ IsFiniteSet(Table)
  /\ \A row \in Table : row.id \in Nat /\ row.id # NoKey /\ row.fk # NoKey
  /\ \A row, other \in Table : row.id = other.id => row = other
  /\ Clients \cap Nat = {} /\ NoField \notin Fields
  /\ PoolMax \in Nat \ {0} /\ DefaultLimit \in Nat
  /\ MaxSwaps \in Nat /\ MaxFaults \in Nat

VARIABLES
  generation,  \* the registry's current schema
  req,         \* request -> its progress, its schema, the field holding its connection's mutex
  fld,         \* request -> field -> its progress, its key, what it resolved to
  queued,      \* loads a loader has accepted and not yet dispatched
  batches,     \* the batches dispatched so far, in order
  waiting,     \* acquire() calls in the pool's queue: requests and batch numbers
  held,        \* owners of the pool's connections
  faults
reqVars == <<generation, req, fld, queued, batches, waiting, held, faults>>

Waiting   == [state |-> "waiting", key |-> NoKey, rows |-> {}]
Running   == {r \in Clients : req[r].pc = "run"}
Ended     == {"done", "error", "gone"}
Keys      == (UNION {ParentKeys[f] : f \in Fields}) \cup {NoKey}
BatchIds  == 1..Len(batches)
Load(r, f)    == [client |-> r, field |-> f, key |-> fld[r][f].key, gen |-> req[r].gen]
Fault     == faults < MaxFaults /\ faults' = faults + 1

ReqInit ==
  /\ generation = 0
  /\ req = [r \in Clients |-> [pc |-> "new", gen |-> 0, lock |-> NoField]]
  /\ fld = [r \in Clients |-> [f \in Fields |-> Waiting]]
  /\ queued = {}
  /\ batches = <<>>
  /\ waiting = <<>>
  /\ held = {}
  /\ faults = 0

-----------------------------------------------------------------------------
\* A caller of acquire() gives up: it leaves the queue, if it is in it.
Places(owner) == {i \in 1..Len(waiting) : waiting[i] = owner}
Leave(owner) ==
  waiting' = IF Places(owner) = {} THEN waiting
             ELSE RemoveAt(waiting, CHOOSE i \in Places(owner) : TRUE)

\* The pool (sqlx): a fair queue of acquire() calls, each with a timeout.
Grant ==
  /\ waiting # <<>>
  /\ Cardinality(held) < PoolMax
  /\ held' = held \cup {Head(waiting)}
  /\ waiting' = Tail(waiting)
  /\ IF Head(waiting) \in Clients
     THEN req' = [req EXCEPT ![Head(waiting)].pc = "rls"] /\ UNCHANGED batches
     ELSE batches' = [batches EXCEPT ![Head(waiting)].pc = "query"] /\ UNCHANGED req
  /\ UNCHANGED <<generation, fld, queued, faults>>

\* graphql_handler: a token that decode_jwt rejects ends the request before it
\* touches the pool; otherwise RequestConnection::new waits for a connection.
graphql_handler(r, validToken) ==
  /\ req[r].pc = "new"
  /\ req' = [req EXCEPT ![r].pc = IF validToken THEN "acquire" ELSE "error"]
  /\ waiting' = IF validToken THEN Append(waiting, r) ELSE waiting
  /\ UNCHANGED <<generation, fld, queued, batches, held, faults>>

\* "Database connection failed": acquire() ran into its timeout.
AcquireTimesOut(r) ==
  /\ req[r].pc = "acquire"
  /\ req' = [req EXCEPT ![r].pc = "error"]
  /\ Leave(r)
  /\ UNCHANGED <<generation, fld, queued, batches, held, faults>>

\* The session settings are applied; then the handler reads the current schema
\* and executes the request on it.
apply_rls_context(r) ==
  /\ req[r].pc = "rls"
  /\ req' = [req EXCEPT ![r].pc = "run", ![r].gen = generation]
  /\ UNCHANGED <<generation, fld, queued, batches, waiting, held, faults>>

\* The settings statement fails: the handler drops the connection and answers.
RlsFails(r) ==
  /\ req[r].pc = "rls"
  /\ Fault
  /\ req' = [req EXCEPT ![r].pc = "error"]
  /\ held' = held \ {r}
  /\ UNCHANGED <<generation, fld, queued, batches, waiting>>

\* A bug: the place in the pool's queue is kept.
mut_Disconnect(r) ==
  /\ req[r].pc \in {"acquire", "rls", "run"}
  /\ Fault
  /\ req' = [req EXCEPT ![r].pc = "gone", ![r].lock = NoField]
  /\ held' = held \ {r}
  /\ UNCHANGED <<generation, fld, queued, batches, waiting>>
\* The client disconnects: axum drops the handler's future, and with it the
\* request's connection or its place in the queue.  Loads it handed to a
\* loader stay with the loader.
Disconnect(r) ==
  /\ req[r].pc \in {"acquire", "rls", "run"}
  /\ Fault
  /\ req' = [req EXCEPT ![r].pc = "gone", ![r].lock = NoField]
  /\ held' = held \ {r}
  /\ Leave(r)
  /\ UNCHANGED <<generation, fld, queued, batches>>

-----------------------------------------------------------------------------
\* RequestConnection::execute: the fields of one request take turns.
Lock(r, f) ==
  /\ r \in Running
  /\ fld[r][f].state = "waiting"
  /\ req[r].lock = NoField
  /\ req' = [req EXCEPT ![r].lock = f]
  /\ UNCHANGED <<generation, fld, queued, batches, waiting, held, faults>>

QueryFails(r, f) ==
  /\ req[r].lock = f
  /\ Fault
  /\ req' = [req EXCEPT ![r].lock = NoField]
  /\ fld' = [fld EXCEPT ![r][f].state = "failed"]
  /\ UNCHANGED <<generation, queued, batches, waiting, held>>

\* The parent row arrives and its relation field is resolved: an empty key is
\* null or an empty connection at once, any other key is handed to the loader.
Resolve(r, f, key) ==
  /\ req[r].lock = f
  /\ req' = [req EXCEPT ![r].lock = NoField]
  /\ fld' = [fld EXCEPT ![r][f].state = IF key = NoKey THEN "ok" ELSE "loading", ![r][f].key = key]
  /\ queued' = IF key = NoKey THEN queued
               ELSE queued \cup {[client |-> r, field |-> f, key |-> key, gen |-> req[r].gen]}
  /\ UNCHANGED <<generation, batches, waiting, held, faults>>

\* Every field has resolved or failed: the response is sent, the connection
\* goes back to the pool.
Respond(r) ==
  /\ r \in Running
  /\ \A f \in Fields : fld[r][f].state \in {"ok", "failed"}
  /\ req' = [req EXCEPT ![r].pc = "done"]
  /\ held' = held \ {r}
  /\ UNCHANGED <<generation, fld, queued, batches, waiting, faults>>

-----------------------------------------------------------------------------
\* The loader a load belongs to: registered per schema and relation.
LoaderOf(l) == <<l.gen, l.field>>

\* A bug: only one load for each key is taken along, the others are dropped.
mut_Dispatch(gen, f) ==
  LET mine  == {l \in queued : LoaderOf(l) = <<gen, f>>}
      byKey == {CHOOSE l \in mine : l.key = k : k \in {m.key : m \in mine}}
  IN  /\ mine # {}
      /\ queued' = queued \ mine
      /\ batches' = Append(batches, [pc |-> "acquire", loads |-> byKey])
      /\ waiting' = Append(waiting, Len(batches) + 1)
      /\ UNCHANGED <<generation, req, fld, held, faults>>
\* async-graphql's DataLoader: a spawned task takes every load its loader has
\* accepted so far and calls load(), which first acquires a connection.
Dispatch(gen, f) ==
  LET mine == {l \in queued : LoaderOf(l) = <<gen, f>>}
  IN  /\ mine # {}
      /\ queued' = queued \ mine
      /\ batches' = Append(batches, [pc |-> "acquire", loads |-> mine])
      /\ waiting' = Append(waiting, Len(batches) + 1)
      /\ UNCHANGED <<generation, req, fld, held, faults>>

\* select_by_fk_batch: LIMIT rows per parent in primary key order, tagged with
\* the parent's key and grouped by it; select_by_pk_batch: the row with that key.
FirstById(rows, n) ==
  {row \in rows : Cardinality({other \in rows : other.id < row.id}) < n}

select_by_fk_batch(keys) ==
  LET tagged == {<<k, row>> : k \in keys, row \in Table}
      hits   == {t \in tagged : t[2] \in FirstById({row \in Table : row.fk = t[1]}, DefaultLimit)}
  IN  [k \in {t[1] : t \in hits} |-> {t[2] : t \in {u \in hits : u[1] = k}}]

select_by_pk_batch(keys) ==
  LET hits == {row \in Table : row.id \in keys}
  IN  [k \in {row.id : row \in hits} |-> {row \in hits : row.id = k}]

\* A bug: the rows are handed out by position, so a key without rows takes the
\* next key's.
mut_load(f, keys) ==
  LET map  == IF Kind[f] = "hasMany" THEN select_by_fk_batch(keys) ELSE select_by_pk_batch(keys)
  IN  [k \in keys |-> IF k \in DOMAIN map THEN map[k]
                      ELSE IF DOMAIN map = {} THEN {} ELSE map[CHOOSE j \in DOMAIN map : TRUE]]
\* HasManyLoader::load, BelongsToLoader::load: every key gets the rows the
\* result holds under it, none if it holds none.
load(f, keys) ==
  LET map  == IF Kind[f] = "hasMany" THEN select_by_fk_batch(keys) ELSE select_by_pk_batch(keys)
  IN  [k \in keys |-> IF k \in DOMAIN map THEN map[k] ELSE {}]

\* Every load of a batch is told its outcome; one whose request is gone is dropped.
Answer(b, outcome(_)) ==
  fld' = [r \in Clients |-> [f \in Fields |->
            IF \E l \in batches[b].loads : l.client = r /\ l.field = f
            THEN outcome(fld[r][f]) ELSE fld[r][f]]]

BatchQuery(b) ==
  /\ batches[b].pc = "query"
  /\ LET f    == (CHOOSE l \in batches[b].loads : TRUE).field
         rows == load(f, {l.key : l \in batches[b].loads})
     IN  Answer(b, LAMBDA x : [x EXCEPT !.state = "ok", !.rows = rows[x.key]])
  /\ batches' = [batches EXCEPT ![b].pc = "done"]
  /\ held' = held \ {b}
  /\ UNCHANGED <<generation, req, queued, waiting, faults>>

BatchQueryFails(b) ==
  /\ batches[b].pc = "query"
  /\ Fault
  /\ Answer(b, LAMBDA x : [x EXCEPT !.state = "failed"])
  /\ batches' = [batches EXCEPT ![b].pc = "failed"]
  /\ held' = held \ {b}
  /\ UNCHANGED <<generation, req, queued, waiting>>

\* A bug: the batch waits for a connection without a timeout.
mut_BatchTimesOut(b) == FALSE /\ batches[b].pc = "acquire" /\ UNCHANGED reqVars
\* acquire() in a batch runs into its timeout: the batch fails.
BatchTimesOut(b) ==
  /\ batches[b].pc = "acquire"
  /\ Answer(b, LAMBDA x : [x EXCEPT !.state = "failed"])
  /\ batches' = [batches EXCEPT ![b].pc = "failed"]
  /\ Leave(b)
  /\ UNCHANGED <<generation, req, queued, held, faults>>

\* SchemaRegistry::swap by the reload watcher.
SwapSchema ==
  /\ generation < MaxSwaps
  /\ generation' = generation + 1
  /\ UNCHANGED <<req, fld, queued, batches, waiting, held, faults>>

-----------------------------------------------------------------------------
FieldStep(r, f) ==
  \/ Lock(r, f) \/ QueryFails(r, f)
  \/ \E key \in ParentKeys[f] : Resolve(r, f, key)
RequestStep(r) ==
  \/ \E valid \in BOOLEAN : graphql_handler(r, valid)
  \/ AcquireTimesOut(r) \/ apply_rls_context(r) \/ RlsFails(r) \/ Respond(r) \/ Disconnect(r)
BatchStep(b) == BatchQuery(b) \/ BatchQueryFails(b) \/ BatchTimesOut(b)

ReqNext ==
  \/ Grant \/ SwapSchema
  \/ \E r \in Clients : RequestStep(r) \/ \E f \in Fields : FieldStep(r, f)
  \/ \E gen \in 0..generation, f \in Fields : Dispatch(gen, f)
  \/ \E b \in BatchIds : BatchStep(b)

\* Tasks are scheduled, statements return, timeouts expire.  Nobody has to
\* send a request or to swap the schema, and nothing has to fail.
MaxBatches == Cardinality(Clients) * Cardinality(Fields)
ReqFairness ==
  /\ WF_reqVars(Grant)
  /\ \A r \in Clients :
       /\ WF_reqVars(AcquireTimesOut(r))
       /\ WF_reqVars(apply_rls_context(r))
       /\ WF_reqVars(Respond(r))
       /\ \A f \in Fields :
            WF_reqVars(Lock(r, f) \/ \E key \in ParentKeys[f] : Resolve(r, f, key))
  /\ \A gen \in 0..MaxSwaps, f \in Fields : WF_reqVars(gen <= generation /\ Dispatch(gen, f))
  /\ \A b \in 1..MaxBatches : WF_reqVars(b \in BatchIds /\ BatchTimesOut(b))
  /\ \A b \in 1..MaxBatches : WF_reqVars(b \in BatchIds /\ BatchQuery(b))

ReqSpec == ReqInit /\ [][ReqNext]_reqVars /\ ReqFairness

-----------------------------------------------------------------------------
\* No connection leaks and none is used twice: the pool's connections are
\* exactly those of the requests past acquire() that have not ended and of the
\* batches that are querying, never more than PoolMax, and the queue holds
\* exactly the callers that wait, once each -- through timeouts, failed
\* statements and clients that disconnect at any point.
ConnectionsConserved ==
  /\ held = {r \in Clients : req[r].pc \in {"rls", "run"}}
            \cup {b \in BatchIds : batches[b].pc = "query"}
  /\ Cardinality(held) <= PoolMax
  /\ {waiting[i] : i \in 1..Len(waiting)} =
       {r \in Clients : req[r].pc = "acquire"} \cup {b \in BatchIds : batches[b].pc = "acquire"}
  /\ \A i, j \in 1..Len(waiting) : waiting[i] = waiting[j] => i = j

\* No load is lost or answered twice: a field that waits for a loader is known
\* to exactly one place that will answer it, the loader's queue or one batch
\* under way, whatever becomes of the other requests in that batch; and a hot
\* swap does not reach into a request: all loads of a batch come from requests
\* that execute on one and the same schema, the batch's.
LoadsAreServed ==
  /\ \A r \in Clients, f \in Fields : fld[r][f].state = "loading" =>
       LET open == {b \in BatchIds : batches[b].pc \in {"acquire", "query"}}
           mine == {b \in open : Load(r, f) \in batches[b].loads}
       IN  IF Load(r, f) \in queued THEN mine = {} ELSE Cardinality(mine) = 1
  /\ \A b \in BatchIds : \A l, m \in batches[b].loads :
       l.gen = m.gen /\ l.gen = req[l.client].gen

\* Reference: what a relation field of a parent with this key means.
RelatedRows(f, key) ==
  IF Kind[f] = "belongsTo" THEN {row \in Table : row.id = key}
  ELSE LET all == {row \in Table : row.fk = key}
       IN  CHOOSE some \in SUBSET all :
             /\ \A row \in some, other \in all \ some : row.id < other.id
             /\ Cardinality(some) = IF Cardinality(all) < DefaultLimit THEN Cardinality(all)
                                    ELSE DefaultLimit

\* A field resolves to the rows of its own parent, although its key travelled
\* in a batch with keys of other requests, some equal to its own; and only the
\* failure of its own batch leaves it without them.
OwnRows ==
  /\ \A r \in Clients, f \in Fields :
       fld[r][f].state = "ok" => fld[r][f].rows = RelatedRows(f, fld[r][f].key)
  /\ \A b \in BatchIds : batches[b].pc = "done" =>
       \A l \in batches[b].loads : fld[l.client][l.field].state = "ok"

\* Every request that waits for a connection ends, although requests that hold
\* all connections may all be waiting for batches that need one more.
Resolved == \A r \in Clients : req[r].pc = "acquire" ~> req[r].pc \in Ended

-----------------------------------------------------------------------------
\* The inductive invariant behind the first two.
LoadRecords == [client : Clients, field : Fields, key : Keys, gen : Nat]
ReqTypeOK ==
  /\ generation \in Nat
  /\ req \in [Clients -> [pc : {"new", "acquire", "rls", "run"} \cup Ended, gen : Nat,
                          lock : Fields \cup {NoField}]]
  /\ DOMAIN fld = Clients
  /\ \A r \in Clients : DOMAIN fld[r] = Fields
  /\ \A r \in Clients, f \in Fields :
       /\ DOMAIN fld[r][f] = {"state", "key", "rows"}
       /\ fld[r][f].state \in {"waiting", "loading", "ok", "failed"}
       /\ fld[r][f].key \in Keys
  /\ queued \subseteq LoadRecords
  /\ batches \in Seq([pc : {"acquire", "query", "done", "failed"}, loads : SUBSET LoadRecords])
  /\ waiting \in Seq(Clients \cup Nat)
  /\ IsFiniteSet(held)

\* A field works only while its request executes, and holds the connection
\* only until its parent row is there.
FieldsOfRunning == \A r \in Clients, f \in Fields :
  /\ fld[r][f].state # "waiting" => req[r].pc \notin {"new", "acquire", "rls"}
  /\ req[r].lock = f => req[r].pc = "run" /\ fld[r][f].state = "waiting"

\* Loads on their way are those of the fields that wait for them, ...
Open(b) == batches[b].pc \in {"acquire", "query"}
Current(l) == l = Load(l.client, l.field) /\ fld[l.client][l.field].state = "loading"
LoadsAreCurrent ==
  /\ \A l \in queued : Current(l)
  /\ \A b \in BatchIds : \A l \in batches[b].loads :
       /\ Open(b) => Current(l)
       /\ fld[l.client][l.field].state # "waiting" /\ l.gen = req[l.client].gen
       /\ \A m \in batches[b].loads : l.gen = m.gen

\* ... each in one place.
LoadsInOnePlace ==
  /\ \A b \in BatchIds : Open(b) => batches[b].loads \cap queued = {}
  /\ \A a, b \in BatchIds : Open(a) /\ Open(b) /\ a # b => batches[a].loads \cap batches[b].loads = {}
  /\ \A r \in Clients, f \in Fields : fld[r][f].state = "loading" =>
       Load(r, f) \in queued \/ \E b \in BatchIds : Open(b) /\ Load(r, f) \in batches[b].loads

ReqInv ==
  /\ ReqTypeOK
  /\ ConnectionsConserved
  /\ FieldsOfRunning
  /\ LoadsAreCurrent
  /\ LoadsInOnePlace

\* What OwnRows needs on top: a batch serves one relation, and a field has no
\* rows before it is answered.
BatchOfOneField == \A b \in BatchIds : \A l, m \in batches[b].loads : l.field = m.field
NoRowsYet == \A r \in Clients, f \in Fields :
  fld[r][f].state \in {"waiting", "loading"} => fld[r][f].rows = {}
RowsInv == ReqInv /\ OwnRows /\ BatchOfOneField /\ NoRowsYet
=============================================================================
