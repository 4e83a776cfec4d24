# A TLA+ verification of magna

magna derives a GraphQL API from a Postgres database. A request's root fields
register *steps* with a planner; the plan is deduplicated, ordered and executed
in tiers of concurrent tasks. Around this core are a plan cache, a schema that is
reloaded while requests run, subscriptions, and the builders that turn the
database catalog into a schema and arguments into SQL.

This directory holds specifications of these parts, TLC configurations that check
them on small instances and TLAPS proofs of what holds for every instance. Every
definition is translated from the code under `crates/`; `PROJECT.json` maps each
to its lines.

## Inventory

| Component | State | Operations | Interacts with | Hard part | What makes it correct |
|---|---|---|---|---|---|
| Planner, optimizer (`magna-core`) | steps, graph, dedup tables, order | register, build, optimize | executor reads plan, order and remap | three passes that each rely on the order and the graph the previous one left | no panic; equal work merged, nothing else; dependencies first |
| Executor (`magna-core`) | tiers, tasks, outputs | execute | spawns steps on tokio | tasks finish in any order, fail, panic; flags | each step sees exactly its inputs; errors stay contained; it returns |
| Plan context (`magna-build`) | planner option, two OnceLocks | register_step, execute, get_result | planner, optimizer, executor; any reader thread | two cells read one after the other | a result once executed, never another step's |
| Plan extension (`magna-build`) | captured document, published results | prepare_request, parse_query, execute | plan context, async-graphql | hooks in order | every planned field finds its output |
| Plan cache (`magna-serv`) | DashMap, max_size | get_or_plan, clear | requests, reload watcher | four calls on a shared map | bounded size |
| Hot reload (`magna`, `magna-introspect`, `magna-serv`) | cache entry, broadcast channel, registry | listen_loop, watch_for_reload, get_or_introspect, reload | Postgres NOTIFY, requests, plan cache | migrations race with a reload; lag, lost connections, failures | the served schema catches up |
| Subscriptions (`magna-subscriptions`) | channel map, LISTEN connection, receivers | subscribe, unsubscribe, run, notify_mutation | Postgres NOTIFY | LISTEN and map entry in two steps, lagging receivers, reconnects, payload limit | between outages no event lost without notice, order kept |
| Request connections, data loaders (`magna-serv`, `magna-build`) | pool queue, held connections, loads, batches | graphql_handler, RequestConnection, relation fields, load | pool, registry | a request holds one connection and needs another; clients disconnect | no connection leaks, every load is answered with its own rows, no request waits for ever |
| Resolvers, cursor pagination (`magna-build`) | none; the rows are Postgres' | allX, xById, createX, updateX, deleteX | SQL builders | keyset, direction, limit + 1, a total counted later, stale node ids | pages are slices, walks are complete, a mutation hits its row |
| GraphQL front end (`magna-gqlmin`) | byte and token position, node arena | lex, parse, parse_schema, validate, render | bindings | lists collected on a shared stack, fragment cycles | nothing lost or misread, accepted means typed |
| SQL builders (`magna-sql`) | fragments, parameters | append, build | resolvers, steps | placeholder numbers under composition | the n-th placeholder is the n-th parameter |
| Data plan, batch and union steps (`magna-dataplan`, `magna-core`, `magna-build`) | none across calls | execute, fingerprint | optimizer, executor | rows dealt out to parents; configurations in the fingerprint | children of their parents; merged steps agree |
| Introspection, gather, build (`magna-introspect`, `magna-build`) | catalog rows, registry, IR, schema builder | introspect, gather, build_schema, extensions | Postgres catalog, preset | seven queries without a snapshot, names derived in several passes | nothing dangling, nothing hidden reachable |
| Configuration (`magna-config`) | preset | merge, validate | everything | overrides, plugin order | last override wins |
| WebSocket endpoint, `magna-types`, `magna-remote`, bindings | | | | | not modelled |

## Modules

| Module | Models | State and actions |
|---|---|---|
| `StepPlan` | `step.rs`, `fingerprint.rs`, the graph part of `planner.rs` | steps, fingerprints, edges, topological orders, flags and outputs; no state |
| `Optimizer` | `planner.rs`, `optimizer.rs` | `Register`, `Build`, `TopologicalSort` (twice), `DedupStep`, `RemoveDuplicates`, `HoistStep`, `Concatenate` |
| `Executor` | `executor.rs` | extends `Optimizer`; `TierStep`, `StartTiers`, `Dispatch`, `TaskFinish`, `Await`, `NextTier` |
| `Dataflow` | the abstract specification | a registered plan is evaluated step by step, in any order its dependencies allow, without merging |
| `PlanContext` | `plan_resolver.rs` | extends `Executor`; `StoreRemap`, `StoreResults`, `ReadRemap`, `ReadResults` |
| `PlanCache` | `plan_cache.rs` | `Miss`, `CheckLen`, `Evict`, `Insert`, `Clear` |
| `HotReload` | `cache.rs`, `main.rs` (`watch_for_reload`), `schema_registry.rs` | `Migrate`, `LoseConnection`; `Connect`, `ReceiveNotification`, `Broadcast`, `Expire`; `Subscribe`, `Recv`, `RecvLagged`, `InvalidateAll`, `Lookup`, `Query`, `InsertEntry`, `ReloadFails`, `Swap` |
| `Subscriptions` | `publisher.rs`, `listener.rs` | `Convert`, `notify_mutation`; `SubscribeExisting`, `Listen`, `ListenDone`, `Unlisten`, `UnlistenDone`, `CallFails`, `Run`, `SubscribeShared`; `Dispatch`, `ConnectionLost`, `Reconnect`, `RecvError`, `Wake`; `Recv` |
| `Requests` | `handler.rs`, `RequestConnection`, `relation.rs`, `dataloader.rs` | pool: `Grant`, `AcquireTimesOut`; request: `graphql_handler`, `apply_rls_context`, `RlsFails`, `Lock`, `Resolve`, `QueryFails`, `Respond`, `Disconnect`; loader: `Dispatch`, `BatchQuery`, `BatchQueryFails`, `BatchTimesOut`; `SwapSchema` |
| `Sql` | `magna-sql` | fragments, their composition and numbering, the four statements, and a small Postgres that evaluates them; no state |
| `Resolvers` | `resolve/query.rs`, `resolve/mutation.rs`, `executor/mod.rs`, `node_interface.rs` | extends `Sql`; `allX`, `SelectConnection`, `CountRows`, `select_by_pk`, `StartWalk`, `WalkPage`, `ReadNodeId`, `createX`, `updateX`, `deleteX`, `OthersWrite` |
| `DataSteps` | the steps of `magna-dataplan`, `BatchStep`, `PgUnionStep`, the codecs | extends `Sql`; `register_step`, `optimize`, one action per kind of step, `QueryFails`, `Skip` |
| `Schema` | `magna-config`, the catalog queries, `registry.rs`, `gather.rs`, `build_schema` and its passes, the extension phases | `Configure`, `introspect` (each query over the catalog before or after a migration), `gather`, `BuildObjects`, `RegisterTypes`, `BuildQuery`, `BuildMutation`, `finish` |
| `GqlLex` | `lex.rs`, the positions of `pretty.rs` | `lex_token`: one token per step |
| `GqlParse`, `GqlSdl`, `GqlValidate` | `parse/mod.rs`, `parse/sdl.rs`, `validate.rs` | productions as operators on a parser state; rules as operators on documents; no state |
| `GqlDocs` | what the three do with a source that grows | `Seed`, `WriteToken`, `Close`, `WriteDefinition` |
| `*Proofs` | | the theorems about the module of that name (`ExecutorProofs`: `PlanContext` too; `ServingProofs`: `PlanCache` and `HotReload`) |
| `MC*` | | constants for TLC; `MCServing` and `MCGql` put independent modules side by side, one at rest while the other is checked |

How the code corresponds to the model:

- A `HashMap` is a function over its keys. An order of steps is the position it
  gives each of them. petgraph's `toposort` is any topological order, and fails
  exactly on a cycle.
- The sequential loops of `optimize` and `execute` are one action per iteration,
  so that their loop invariants are state invariants. The variable `phase` holds
  the place in the code. Only tasks run concurrently with it.
- A step's *kind* stands for its type and configuration hash, the part of the
  fingerprint that is not its dependencies. The hash is taken to be injective.
- A step's value is the term it was computed from, `<<kind, arguments>>`, so a
  missing, swapped or foreign argument shows in the value. What a step returns is
  otherwise free: any flag list of `FlagLists`, an error or a panic. What the real
  steps compute, and which configuration they hash, is the subject of `DataSteps`,
  where the optimizer is its result (steps with equal fingerprints are one) and the
  executor is any order the tiers allow.
- `PlanScope` draws ids from one counter, so `Register` requires a fresh id. A
  caller that invents ids could register one twice; that is not modelled.
- In `PlanCache` a plan is a function of its hash, so the map is a set of keys;
  the calls on the DashMap are atomic one by one.
- `invalidate(schema)` looks for an entry under the schema's name, while entries are
  keyed by the joined list of all schemas: with several of them the listener evicts
  nothing, and freshness rests on the watcher's own `invalidate_all`.
- In `HotReload` the database is the number of committed migrations, and what a
  catalog query returned is the number it saw. The history variable `missed`
  records that a signal was lost, or a reload failed, since the last reload began.
  `Init` is the state after `AppState::new`. `Closed` cannot occur in
  `watch_for_reload`: the watcher itself holds the cache, and with it the sender.
  The model is that of a server that spawns the listener (`SpawnsListener`), as the
  cache's interface intends; see the divergences below.
- In `Subscriptions` an event is its number in commit order. A sender's channel is
  the list of all it sent, of which a receiver can still read the last
  `BROADCAST_CAPACITY`. The history variable `gapless` says since when no
  connection was lost, for NOTIFY promises nothing across an outage; it is no state
  of the code, and nobody is told of what an outage lost. `subscribe` and
  `unsubscribe` are two steps each, the request that takes effect on the server and
  what the manager does with the answer; `CallFails` is a connection lost in between,
  with the error returned before anything is recorded. Dropping the future of such a call half-way, which
  no caller does, is not modelled. A payload is its length in bytes.
- In `Requests` sqlx's pool and async-graphql's loader are external: a fair queue
  of `acquire()` calls with a timeout, and a task that takes along the loads
  accepted so far. Dropping the handler's future returns its connection or leaves
  the queue. The target table is a finite set of rows, with a number of its own as
  primary key and a foreign key that is never NULL (a row without one belongs to no
  parent and is in no answer).
- In `Resolvers` and `DataSteps` a statement is the sequence of its literals,
  identifiers and placeholders with its parameters, built the way the code builds
  it, and `Sql` says what Postgres makes of such a statement. So a wrong
  placeholder or a condition on the wrong column shows in the rows.
  A fragment is flat: the part that nests one in another is built by a unit test
  only (`shift_fragment` would shift indices that `build_inner` looks up in the
  inner fragment's own parameters).
- Cursors and node ids are modelled as what they decode to, with the separators and
  blanks as tokens of their own. A UUID is a number, printed in one spelling and
  read in two.
- A page and its total are two statements of one request, and others may write in
  between. A resource without a key is a view; it is paged by a column "id" if it
  has one. Arguments are GraphQL values converted as the code converts them, where
  a text that reads as a UUID becomes one; Postgres refuses to compare it with a
  text column and casts it when it is stored.
- In `Schema` the registry and the gathered resources each have their own reading of
  the catalog's constraints, as in the code.
- In `Schema` a name is a sequence of words, so that derived names clash exactly
  when the code's do; a type is its fields and what these refer to.
- In `GqlLex` a character is a class of bytes; above it a source is a sequence of
  tokens. A carriage return is a class of its own: the lexer takes it for a line end,
  `render` does not. A parser state holds the source, the position, arena, scratch stack, the
  error and the value of the last production; after an error every production is
  the identity, which is what `?` does.
- Operators marked "A bug" are the mutants: the changes of the code that the
  properties must detect.

## Runs

| Run | Question | Instance |
|---|---|---|
| `optimizer` | do deduplication and hoisting preserve what the executor relies on, and is the invariant of the proofs one? | every plan of up to 4 steps with at most one dependency and of 3 with two, repeated ones and cycles included |
| `executor` | does concurrent execution implement `Dataflow`, contain errors and return? | diamonds and merging chains of up to 5 steps, batch of 2, all outcomes of tasks |
| `plan_context` | what can a reader see while `execute` publishes? | 3 steps, 2 readers |
| `serving` | how far can the plan cache outgrow `max_size`? does the served schema catch up? | 3 callers, 5 operations, `max_size` 2; 3 migrations, 2 schemas, 2 catalog queries, channel of 1, one failure |
| `subscriptions` | is an event lost without notice between outages, do map and LISTENs agree? | 2 channels, 2 receivers, 3 events, channel of 1, 2 failures, keys around the limit |
| `requests` | do connections come back, do loads meet their own rows, does everybody get an answer? | 2 requests of 2 relation fields, pool of 2, a hot swap, one failure or disconnect |
| `resolvers` | are pages slices and walks complete, does a mutation hit its row? | tables keyed by an integer, by a UUID, and by an integer and a text with separators or blanks in it, two views; up to 5 rows, page sizes -2 to 2, 2 writes |
| `data_steps` | do steps deal the rows out to the right parents, do merged selects agree, do mutations write what they say? | plans of up to 3 steps, batches with duplicates, NULL keys and flagged items |
| `schema` | what is reachable, what do relations join, when does the build fail, what is left of extensions? | 5 relations in 2 schemas, 24 migrations or tags, 7 configurations, 4 lists of extensions, one with clashing names |
| `gql` | is anything lost or misread between bytes and findings? | texts of up to 5 characters (11 of quotes and backslashes); definitions continued by 3 free and 2 closing tokens; documents of an operation and two fragments |

Two violation runs show that the code differs from what is said about it:

| Run | Statement | What happens |
|---|---|---|
| `data_steps_shared` | "Two steps with equal fingerprints can share one execution" (`fingerprint.rs`) | the fingerprints of insert, update and delete steps leave the values out: of two mutations with different values one is dropped |
| `resolvers_node_id` | a node id is made of "primary-key column→value pairs" (`node_interface.rs`), and parsed into them (`mutation.rs`) | the id of the key (1, " a") or (1, "a,b") is parsed to (1, "a"), and a mutation touches that row |

`MergedSelectsAgree` of `data_steps` is the same statement for select steps, where
the keys of tweaks keep different queries apart.

**Bounds.** A merge needs two steps, a cascaded merge four, a merge below a join
five; a hoisting error needs a unary step that depends on a batched one. A batch of
two distinguishes all, some and none of the items flagged. A channel of one message
is overrun by the second of three. Three callers of the plan cache are enough to
overshoot by two. Two requests on a pool of two connections can both hold one and
need another, which is the deadlock that only the timeout resolves. A page of one
or two rows out of four has full, partial, first, last and empty pages. Three
definitions contain every way in which an operation and two fragments spread each
other, cycles included. The mutants confirm that these cases occur. `MaxMigrations`,
`MaxFaults`, `MaxSteps`, `MaxDeps`, `Registrable` and `FlagLists` are bounds of the
instances only; the theorems hold for all their values.

**Fairness.** `FairExecSpec` assumes that the request's own code is polled and
that every task finishes: tokio does the former; the latter is an assumption about
steps, for the executor has no timeout. `ReloadSpec` assumes that the listener's
and the watcher's tasks are polled. `SubsSpec` assumes the same of the manager's
loop, whose sleep ends, and of each receiver. `ReqSpec` assumes that handlers,
fields and batches are polled, that statements return and that `acquire()` times
out, which sqlx guarantees by its `acquire_timeout`; without the last,
`Resolved` is false. Nothing is assumed of registrations, migrations, arriving
requests, failures, disconnects or expiry.

**Deadlock** is checked in `plan_context`, whose readers may always ask again.
Elsewhere the system may rest: a finished request, a reload path
without migrations, a source that was read. There `Termination`, `Freshness`,
`CatchesUp` and `Resolved` say that it rests only when it is done.

## Proofs

All safety theorems hold for every value of the constants, under the assumptions
named in the modules: naturals for the bounds; finite sets of callers and hashes; a
batch and a channel of at least one; unary kinds among the kinds; the marks
"null", "error" and "none" are no kind, field or channel; in `Requests`
clients are not numbers (batches are numbered, and both own connections) and the
table has unique primary keys; in `GqlLex` a source is a finite sequence of bytes,
none of which is the mark "Eof" that stands for the end. In `Schema` a catalog is what
Postgres keeps one as (`MigrationsAssumption`: finite tables, an oid names one schema
and one relation, a foreign key has columns), a configuration is a list of overrides
whose exposure is one of the three variants of `Exposure`, and what an extension adds
comes from no relation of the catalog, as its own type definitions do. Nothing is
assumed of how the catalogs before and after a migration are related, so the seven
queries may each see a different database. In `DataSteps` the steps a plan is made of
have the fields of their kind, and a tweak's key determines the tweak
(`KeysAssumption`, the contract `apply_keyed` leaves to its caller); tweaks without a
key are free.

- `OptimizerProofs`. `OptInv` is the inductive invariant, one conjunct per fact
  that a pass hands on: what `build` validated; that a loop has been through a
  prefix of a topological order (`Walk`); that a merged step leads to an unmerged,
  earlier one of the same fingerprint (`MergedIsCanonical`, `MergedIsEarlier`);
  that `seen` is exactly the table of unmerged steps (`SeenIsTable`); that hoisted
  steps are closed under dependencies (`HoistedClosed`). `RemapCanonical`,
  `NoDuplicateWork`, `NoPanic` and `DepsBefore` follow. The crux: a fingerprint
  taken of a step no longer changes, because all its dependencies are in the
  prefix; and redirected edges still go forward in the first order, so the reduced
  graph has no cycle.
- `ExecutorProofs`. `ExecInv` adds that tiers increase along edges, that earlier
  tiers are complete, and that a task's inputs are the outputs its dependencies
  still have. `NoMissingInput`, `CompleteWhenDone` and `ResultsConsistent` follow.
  `RunInv` adds `OutcomesKept`: what became of a step can be read off its output,
  which is what was collected from its task, or that of a step skipped for the flags
  its dependencies still have. `ErrorContained` follows, and the refinement `ImplementsDataflow`:
  under the mapping `ResultsBar`, `StatusBar` a step's outcome is the one of the step
  that absorbed it. Planner and optimizer steps other than `Build` stutter; a step
  of the executor that leaves an outcome behind publishes it for all the registered
  steps merged into it, which is a step of `Dataflow`, because their dependencies
  were published in earlier tiers.
  The same module proves the plan context: `CtxInv` adds to `ExecInv` that the two OnceLocks are filled in
  their order with what the execution left, and which id a reader holds between its
  two reads. `ReadAfterExecute` and `ReadIsOwnOutput` follow. A reader that found the
  first cell empty and the second one full is the case that needs the order.
- `RequestsProofs`. `ReqInv` sees the pool as owners that move between outside, queue
  and held, each in one place (`ConnectionsConserved`), and a load as being in one
  place too, of the schema its field started with (`LoadsAreServed`). `RowsInv` adds
  that a batch is of one field and that a field has no rows before it is answered. `OwnRows` also
  needs that the answer is unique: the rank of a row, the number of rows of smaller
  key, is a bijection of a finite set of rows with the numbers below its size.
- `SubscriptionsProofs`. `SubsInv` says that a sender's log and the notifications
  still to come are increasing and in this order, that together they miss no event
  committed since the last outage, and that a receiver has read a part of the log.
  `NoLossBetweenOutages` follows. `ListensMatch` needs that the call in progress
  accounts for the one channel on which map and LISTENs may differ (`CallsEnd`).
  `ConvertedIsSent` comes from `PendingFits`: what
  waits for `notify_mutation` was found short enough by the conversion.
- `GqlLexProofs`. `LexInv` is `TokensExact` and `CaretAtError` with the position of
  the cursor, at the end of the last token, and that nothing is lexed before the byte
  order mark was looked for. The work is in what the scans return. A loop is a
  recursive function over the offsets of the source, and every turn of it goes
  forward: `TailRecursion` gives that such a function exists and satisfies its equation, and
  `Downward` carries a fact from the end of the source to its start. Both are
  statements about sets of offsets, so the provers can use them. For strings the fact
  is about parity: at each turn an even number of backslashes is behind the cursor,
  so the first quote it stops at is the first unescaped one (`AfterEscape`,
  `StringShape`), and every backslash it passes starts one of the escapes. For block
  strings it is that no unescaped triple quote is behind the cursor.
- `SchemaProofs`. `SchemaInv` says of each phase what the passes before it have
  established: the settings are the last ones given (`Configured`); the resources and
  the registry are what gather makes of the introspection, which no pass changes
  (`GatheredNow`); whatever type, root field or loader the builder holds comes from a
  gathered class (`BuilderClean`) and every gathered class has its type (`TypesNamed`);
  every call of an extension from a hook that ran was heard (`CallsHeard`); the roots
  are registered with the fields collected for them (`RootsRegistered`).
  The type an extension registered keeps its definition until a later registration of
  that name (`TypesKept`). `HiddenUnreachable`, `RegistryAgrees` and `ExtensionsKept`
  follow. `RegistryAgrees` compares two readings of the constraints, the registry's
  by maps of attributes and constraints and gather's by searching the lists: they
  find the same columns (`SameColumns`) and so the same keys (`KeysAgree`). Each pass is a loop
  over lists, so the proof rests on lemmas about loops: `Upward` carries a fact from
  the empty prefix of a list to the whole of it, `Keep` leaves exactly the elements
  asked for, joining lists of definitions joins their elements, and inserting pairs
  into a map loses no key. With them a pass `Extends` the builder: it loses no type, no field and
  no loader, and adds none that comes from elsewhere. The crux of `HiddenUnreachable`
  is in the relations: a reference to a hidden table is dropped because its end is
  looked up among the gathered resources, and the lookup by name that builds the
  field can only find a gathered one.
- `DataStepsProofs`. `MergedSelectsAgree` takes three layers. Select steps with equal
  fingerprints have one query, but for the parents' column, which
  `compute_config_hash` leaves out and the property therefore compares: a list of
  tweaks that all have keys is determined by its list of keys, and a step with an unkeyed tweak carries its own id in the
  fingerprint, so it equals only itself. The remap leads to a step of the same
  fingerprint, and is the identity on it (`RemapSound`); along dependencies it only
  goes back in the topological order `deduplicate` took, so the tiers, a recursive
  function over the reduced plan, exist and increase. Hence a step runs after all the steps it reads
  (`OutputsInOrder`), their outputs never change afterwards, and what a select
  returned stays what its query gives for its inputs (`SelectsRead`). What a query
  selects is not unfolded: the theorem holds whatever the statement means.
- `ServingProofs`, plan cache. `SizeBound` is not inductive; `PendingBound`, which counts
  the inserts already decided, is.
- `ServingProofs`, hot reload. `QuiescentFresh` is strengthened to `FreshInv`: unless a
  further signal is due or was missed, what the watcher has read so far is current.

The runs check `OptInv` and `RunInv` as well. `CtxInv`, `ReqInv`, `RowsInv`,
`SubsInv`, `LexInv`, `SchemaInv` and `DataInv` were checked on the runs' instances
before they were proved (`DataInv` exhaustively on plans of two steps), and are in no run because the properties that follow from them are.

Only model-checked: `Termination`, `Freshness`, `CatchesUp` and `Resolved`
(liveness under fairness is beyond the prover); the properties of
`GqlParse`, `GqlSdl`, `GqlValidate` and `GqlDocs`, which are built on recursive
operators; the properties of `Resolvers`, and `ChildrenOfParents` and
`EffectExact` of `DataSteps`, where a statement is put together and evaluated by
folds, so that what it selects is a matter of induction over data; `RelationsJoin`
and `BuildSucceeds` of `Schema`. These two are about derived names: they hold as long as no two registrations arrive at one name by
different ways (a relation named like another one's connection type), which
the instance rules out and no assumption the code makes does.

## Where the code differs from its documentation

Met while modelling; the model follows the code. The first two are the violation
runs.

- Mutation steps that differ only in their values are merged (`pg_insert.rs`,
  `pg_update.rs`, `pg_delete.rs`: `compute_config_hash`).
- A node id of a composite key is split at `,` and trimmed, so a text key with a
  comma or an outer blank names another row, or none. `MutationExact` says that one
  row at most is touched and, for all other keys, exactly the row named. The type
  name of a node id is not compared.
- `preset.rs` says of `Exposure` that "fields registered by a `SchemaExtension` are
  unaffected by every variant here, including `Exposure::ExtensionsOnly`". Under
  `ExtensionsOnly`, and whenever no published relation is writable, the mutation
  fields of extensions are dropped (`lib.rs`, `has_mutations`), which
  `ExtensionsKept` excepts. Of two types registered under one name the last wins,
  without an error.
- `listener.rs` says of `run` that "lagged receivers are dropped silently"; tokio's
  broadcast channel keeps a lagging receiver, whose next `recv` returns
  `RecvError::Lagged(n)`. What an outage of the connection loses is reported to
  nobody; `NoLossBetweenOutages` excepts it.
- `executor.rs` says INHIBITED keeps dependents from running and NULL and ERROR
  skip a step "for that item". INHIBITED is ignored, and flags act only when every
  item has one.
- The plan cache exceeds its "maximum capacity" by up to the number of concurrent
  callers less one (`SizeBound`); no handler uses it yet.
- Nothing in the binary calls `spawn_listener`, so no NOTIFY reaches the watcher;
  and a reload gathers with `Preset::default()`, not with the configured schemas.
- The query examples use `filter`, `orderBy` and `condition`; `ConnectionArgs`
  never reads them from a field's arguments. `select_connection` does honour them,
  and that is what `SelectConnection` checks.
- An edge's `cursor` is `cursor_` and its index, which `decode_cursor` does not
  accept; only `startCursor` and `endCursor` continue a walk. An invalid cursor is
  ignored. The keyset is the first primary key column, so `WalkComplete` is stated
  for tables with one.
- A view has no key: its `xById` has no argument and returns any row, its cursors
  are empty, so the page after one is the first page again, and without a column
  `id` every `allX` fails. `totalCount` counts the whole table, not the rows asked
  for. `xById` fails for a text key that reads as a UUID. A NULL is bound as a text
  (`sql_bridge.rs`), so that Postgres refuses it for a column of another type.
- In `PgSelectStep` the limit of a tweak holds for the whole batch, a foreign key
  that is not among the selected columns matches no parent, and a batch whose keys
  are all missing selects without a condition. `BatchStep` drops the flags of its
  parents. Columns of types the codec does not know are read as NULL.
- `@omit connection`, `filter` or `order` on a table leave references to the types
  taken away, and the whole schema fails to build: `BuildSucceeds` lists
  the causes and says there are no others. Two relations with one derived type name panic. Relations join to the first
  primary key column of the target, not to the columns of the constraint
  (`RelationsJoin` says when these agree).

## Not modelled, and why

- The plan extension's hooks run strictly one after another within a request; what
  they pass on is `PlanContext`'s.
- The WebSocket endpoint checks the subprotocol and hands over to async-graphql; it
  is not connected to the subscription manager.
- The bindings of gqlmin, `magna-types` and `magna-remote` have no logic of their
  own; `default_codecs` is a table only its tests read.
- Reading the environment and the command line, tokens' contents, the text of
  statements, wording of messages, hashes of operations.
- Functions and indexes of the catalog, which reach nothing that is built.

## Order of work

The core came first (planner, optimizer, executor and the plan context on top of them),
then a module for every component with behaviour of its own, then the proofs: all
safety properties of planner, executor, plan context, plan cache, hot reload, requests,
subscriptions and the lexer, of the schema build those that hold for every catalog,
and that the data plan's merging gives no step another one's rows.
What stays with TLC, and why, is listed above.
