----------------------------- MODULE DataSteps -----------------------------
(***************************************************************************)
(* The steps that do the work of a plan: PgSelectStep, PgInsertStep,       *)
(* PgUpdateStep and PgDeleteStep (magna-dataplan), BatchStep (magna-core)  *)
(* and PgUnionStep (magna-build).  A caller registers steps, the optimizer *)
(* merges those with equal fingerprints, the executor runs one tier after  *)
(* the other, the steps of a tier in any order.  The planner, optimizer    *)
(* and executor are modelled on their own in Optimizer and Executor; here  *)
(* is what the steps make of them.                                         *)
(***************************************************************************)
EXTENDS Sql

CONSTANTS
    Tables,         \* name |-> [schema, type: column |-> name of its type, key, rows]
    Candidates,     \* bound: the steps a caller may register; deps is the number of parents
    MaxPlan,        \* bound: the length of a plan
    BatchSize       \* ExecutionPlan.batch_size

VARIABLES plan,     \* the registered steps; a step's id is its position
          rep,      \* the optimizer's remap; <<>> while the plan is built
          db,       \* table |-> its rows
          out,      \* id |-> <<>> or <<its output>>
          seen      \* id |-> the tables as they were when the step ran

dataVars == <<plan, rep, db, out, seen>>

Ids == DOMAIN plan
RangeOf(s) == {s[k] : k \in DOMAIN s}
IsSequence(s) == s \in Seq(RangeOf(s))

\* A step has a kind and, once registered, its dependencies; a select step has
\* the table and the columns it reads and its tweaks, in order.
SelectFields == {"table", "cols", "fk", "parent_pk", "tweaks"}
ASSUME CandidatesAssumption ==
  \A s \in Candidates :
    /\ {"kind", "deps"} \subseteq DOMAIN s /\ s.deps \in Nat
    /\ s.kind = "select" => SelectFields \subseteq DOMAIN s /\ IsSequence(s.tweaks)
\* "The caller owns the contract that key fully determines the tweak's effect on
\* the SQL" (apply_keyed).
ASSUME KeysAssumption ==
  \A s, t \in {u \in Candidates : u.kind = "select"} :
    \A a \in RangeOf(s.tweaks), b \in RangeOf(t.tweaks) : a.key = b.key /\ a.key # <<>> => a = b

-----------------------------------------------------------------------------
(* Values and outputs.  A value of an output is a row, the list of rows of *)
(* a root query, a tagged row, or the unit of a flagged item.              *)
PgNull == [type |-> "Null", v |-> 0]
Row(r) == [t |-> "row", row |-> r]
List(rs) == [t |-> "rows", rows |-> rs]
Tagged(r, name) == [t |-> "tagged", row |-> r, name |-> name]
Unit == [t |-> "unit"]

StepOut(values, flags) == [values |-> values, flags |-> flags]
from_values(values) == StepOut(values, [k \in DOMAIN values |-> {}])
error_output_batch  == StepOut([k \in 1..BatchSize |-> Unit], [k \in 1..BatchSize |-> {"ERROR"}])
is_value(flag)      == flag = {}

\* Types that sqlx cannot read as the Rust type that decode_column asks for
\* come out as NULL.
Decoded == {"BOOL", "INT2", "INT4", "INT8", "FLOAT4", "FLOAT8", "UUID", "TIMESTAMPTZ", "TIMESTAMP",
            "JSON", "JSONB", "BOOL[]", "INT4[]", "INT8[]", "TEXT[]", "VARCHAR[]", "UUID[]"}
AsText  == {"TEXT", "VARCHAR", "BPCHAR", "NAME"}
decode_column(type, v) == IF type \in Decoded \cup AsText THEN v ELSE PgNull
decode_row(types, row) == [c \in DOMAIN row |-> decode_column(types[c], row[c])]

\* An array is sent with the type of its first element; the others are dropped.
bind_pg_value(v) ==
  IF v.type = "Array" /\ v.v # <<>>
  THEN [v EXCEPT !.v = SelectSeq(@, LAMBDA e : e.type = v.v[1].type)] ELSE v
Bound(stmt) == [stmt EXCEPT !.params = [k \in DOMAIN @ |-> bind_pg_value(@[k])]]

pg_value_eq(a, b) ==
  a.type = b.type /\ a.type \in {"Bool", "Int", "Float", "Text", "Uuid"} /\ a.v = b.v

-----------------------------------------------------------------------------
(* Fingerprints: the kind, the remapped dependencies and the configuration *)
(* that is hashed.                                                         *)
Columns(pairs) == [k \in DOMAIN pairs |-> pairs[k][1]]

\* A bug: the keys of the tweaks are not hashed.
mut_config(s, id) ==
  CASE s.kind = "select" -> <<s.table, s.cols, s.fk>>
    [] s.kind \in {"insert", "update", "delete", "batch", "union", "source"} -> <<s, id>>

\* The keys of the tweaks that have one, in the order of registration.
tweak_keys(tweaks) ==
  LET keys[k \in 0..Len(tweaks)] ==
        IF k = 0 THEN <<>> ELSE IF tweaks[k].key = <<>> THEN keys[k - 1] ELSE Append(keys[k - 1], tweaks[k].key)
  IN  keys[Len(tweaks)]

config(s, id) ==
  CASE s.kind = "select" ->
         << s.table, s.cols, s.fk, tweak_keys(s.tweaks),
            IF \E k \in DOMAIN s.tweaks : s.tweaks[k].key = <<>> THEN <<id>> ELSE <<>> >>
    [] s.kind = "insert" -> <<s.table, s.columns, s.returning>>
    \* the names of both lists go into the hash one after the other
    [] s.kind = "update" -> <<s.table, Columns(s.sets) \o Columns(s.wheres), s.returning>>
    [] s.kind = "delete" -> <<s.table, Columns(s.wheres), s.returning>>
    [] s.kind = "batch"  -> <<s.table, s.fk, s.parent_pk, s.greedy>>    \* config_hash, from the caller
    [] s.kind = "union"  -> <<id>>
    [] s.kind = "source" -> <<s.output>>

fingerprint(id, remap) ==
  << plan[id].kind, [k \in DOMAIN plan[id].deps |-> remap[plan[id].deps[k]]], config(plan[id], id) >>

\* deduplicate: along a topological order, the first step of a fingerprint stays.
remap_one(remap, id) ==
  LET same == {j \in DOMAIN remap : remap[j] = j /\ fingerprint(j, remap) = fingerprint(id, remap)}
  IN  [j \in DOMAIN remap \cup {id} |->
         IF j # id THEN remap[j] ELSE IF same = {} THEN id ELSE CHOOSE c \in same : TRUE]
deduplicate(order) ==
  LET remap[k \in 0..Len(order)] == IF k = 0 THEN <<>> ELSE remap_one(remap[k - 1], order[k])
  IN  remap[Len(order)]
TopologicalOrders ==
  {order \in SetToSeqs(Ids) :
     \A i, j \in DOMAIN order : order[j] \in RangeOf(plan[order[i]].deps) => j < i}

-----------------------------------------------------------------------------
(* The statements.                                                         *)
Schema(s) == Tables[s.table].schema

base_builder(s) ==
  IF s.cols = <<>> THEN column_star(from(Schema(s), s.table))
  ELSE FoldLeft(LAMBDA b, c : column(b, ident(c), <<>>), from(Schema(s), s.table), s.cols)

\* A tweak is a condition or a limit.
apply_tweak(b, tweak) ==
  IF "limit" \in DOMAIN tweak.sql THEN limit(b, [type |-> "Int", v |-> tweak.sql.limit])
  ELSE where_clause(b, append(push_raw(ident(tweak.sql.column), tweak.sql.op), param(tweak.sql.value)))

\* A bug: flagged items keep their key.
mut_HasKey(parent, k, col) ==
  parent.values[k].t = "row" /\ col \in DOMAIN parent.values[k].row

HasKey(parent, k, col) ==
  /\ is_value(parent.flags[k]) /\ parent.values[k].t = "row"
  /\ col \in DOMAIN parent.values[k].row
KeyOf(parent, k, col) == parent.values[k].row[col]
\* The keys of the items that have one.
parent_ids(parent, col) ==
  FoldLeft(LAMBDA ids, k : IF HasKey(parent, k, col) /\ ~IsNull(KeyOf(parent, k, col))
                           THEN Append(ids, KeyOf(parent, k, col)) ELSE ids,
           <<>>, [k \in DOMAIN parent.values |-> k])

select_sql(s, inputs) ==
  LET ids  == IF s.fk # <<>> /\ inputs # <<>> THEN parent_ids(inputs[1], s.parent_pk) ELSE <<>>
      base == base_builder(s)
      any  == push_raw(append(push_raw(ident(s.fk[1]), " = ANY("), param([type |-> "Array", v |-> ids])), ")")
  IN  build(build_select(FoldLeft(apply_tweak, IF ids = <<>> THEN base ELSE where_clause(base, any), s.tweaks)))

returning(s) == IF s.returning = <<>> THEN raw("*")
                ELSE Separated([k \in DOMAIN s.returning |-> ident(s.returning[k])], ", ")
insert_sql(s) ==
  LET tuple(row) == push_raw(append(raw("("), Separated([c \in DOMAIN row |-> param(row[c])], ", ")), ")")
  IN  build(FoldLeft(append, raw("INSERT INTO "),
        << qualified_ident(Schema(s), s.table), raw(" ("),
           Separated([k \in DOMAIN s.columns |-> ident(s.columns[k])], ", "), raw(") VALUES "),
           Separated([r \in DOMAIN s.static_rows |-> tuple(s.static_rows[r])], ", "),
           raw(" RETURNING "), returning(s) >>))
update_sql(s) ==
  build(FoldLeft(append, raw("UPDATE "),
    << qualified_ident(Schema(s), s.table), raw(" SET "), EachEquals(s.sets, ", "),
       IF s.wheres = <<>> THEN empty ELSE append(raw(" WHERE "), EachEquals(s.wheres, " AND ")),
       raw(" RETURNING "), returning(s) >>))
delete_sql(s) ==
  build(FoldLeft(append, raw("DELETE FROM "),
    << qualified_ident(Schema(s), s.table),
       IF s.wheres = <<>> THEN empty ELSE append(raw(" WHERE "), EachEquals(s.wheres, " AND ")),
       raw(" RETURNING "), returning(s) >>))

-----------------------------------------------------------------------------
(* Postgres.  A NULL parameter is sent as text, which it refuses to assign *)
(* to or to compare with a column of another type.                         *)
Types(s) == Tables[s.table].type
Refused(s, stmt, rows) ==
  \/ Ill(stmt, rows)
  \/ \E term \in Terms(stmt, " WHERE ") \cup Terms(stmt, " SET ") :
       IsNull(term.value) /\ Types(s)[term.column] \notin AsText

\* The rows of VALUES; a column that is not listed is NULL.
InsertedRows(s, stmt) ==
  LET open  == Place(stmt, " (")
      close == Place(stmt, ") VALUES ")
      cols  == SelectSeq(SubSeq(stmt.sql, open + 1, close - 1), LAMBDA p : p.t = "identifier")
      vals  == SelectSeq(SubSeq(stmt.sql, close + 1, Len(stmt.sql)), LAMBDA p : p.t = "placeholder")
      at(r, c) == LET k == CHOOSE k \in DOMAIN cols : cols[k].s = c
                  IN  stmt.params[vals[(r - 1) * Len(cols) + k].i]
  IN  [r \in 1..(Len(vals) \div Len(cols)) |->
         [c \in DOMAIN Types(s) |-> IF \E k \in DOMAIN cols : cols[k].s = c THEN at(r, c) ELSE PgNull]]

\* The rows a statement leaves in the table, and those it returns.
Key(s, row)  == row[Tables[s.table].key]
Unique(s, rows) == \A a, b \in rows : Key(s, a) = Key(s, b) => a = b
Projected(s, cols, row) ==
  LET read == decode_row(Types(s), row)
  IN  IF cols = <<>> THEN read ELSE [c \in RangeOf(cols) |-> read[c]]

-----------------------------------------------------------------------------
(* execute(): a step that is ready, with its inputs.                       *)
Tiers == LET tier[id \in Ids] == 1 + Max({0} \cup {tier[rep[d]] : d \in RangeOf(plan[id].deps)})
         IN  tier
Running == rep # <<>>
Ready(id) ==
  /\ Running /\ rep[id] = id /\ out[id] = <<>>
  /\ \A j \in Ids : rep[j] = j /\ Tiers[j] < Tiers[id] => out[j] # <<>>
InputsOf(id) == [k \in DOMAIN plan[id].deps |-> out[rep[plan[id].deps[k]]][1]]

\* propagate_flags: skipped when each item of the batch is NULL or ERROR in some input.
Flagged(inputs, k) ==
  UNION {inputs[d].flags[k] \cap {"NULL", "ERROR"} : d \in {e \in DOMAIN inputs : k <= Len(inputs[e].flags)}}
Skipped(inputs) == \A k \in 1..BatchSize : Flagged(inputs, k) # {}

Finish(id, output) ==
  /\ out' = [out EXCEPT ![id] = <<output>>]
  /\ seen' = [seen EXCEPT ![id] = db]
  /\ UNCHANGED <<plan, rep>>

Skip(id) ==
  /\ Ready(id) /\ Skipped(InputsOf(id))
  /\ Finish(id, StepOut([k \in 1..BatchSize |-> Unit], [k \in 1..BatchSize |-> Flagged(InputsOf(id), k)]))
  /\ UNCHANGED db
Runs(id, kind) == plan[id].kind = kind /\ Ready(id) /\ ~Skipped(InputsOf(id))
FailsWith(id) == Finish(id, error_output_batch) /\ UNCHANGED db

\* One output per parent, in the order of the parents.
partition(s, parent, rows) ==
  LET mine(k) == IF HasKey(parent, k, s.parent_pk)
                 THEN SelectSeq(rows, LAMBDA row : s.fk[1] \in DOMAIN row
                                                   /\ pg_value_eq(row[s.fk[1]], KeyOf(parent, k, s.parent_pk)))
                 ELSE <<>>
  IN  StepOut([k \in DOMAIN parent.values |-> List(mine(k))], parent.flags)

\* What execute reads of a select step, and what it may return given the rows
\* of its table.
Query(s) == [table |-> s.table, cols |-> s.cols, fk |-> s.fk, parent_pk |-> s.parent_pk, tweaks |-> s.tweaks]
SelectOutputs(s, inputs, table) ==
  LET stmt   == Bound(select_sql(s, inputs))
      read(f) == [k \in DOMAIN f |-> Projected(s, s.cols, f[k])]
  IN  IF Refused(s, stmt, table) THEN {error_output_batch}
      ELSE {IF s.fk # <<>> THEN partition(s, inputs[1], read(found)) ELSE from_values(<<List(read(found))>>) :
              found \in Selected(stmt, table)}

PgSelectStep(id) ==
  /\ Runs(id, "select")
  /\ \E output \in SelectOutputs(Query(plan[id]), InputsOf(id), db[plan[id].table]) : Finish(id, output)
  /\ UNCHANGED db

\* The rows of RETURNING come one per value.
Returns(id, rows) ==
  Finish(id, from_values([k \in DOMAIN rows |-> Row(Projected(plan[id], plan[id].returning, rows[k]))]))

PgInsertStep(id) ==
  LET s == plan[id]
      rows == InsertedRows(s, Bound(insert_sql(s)))
      after == db[s.table] \cup RangeOf(rows)
      good == /\ Unique(s, after) /\ Cardinality(after) = Cardinality(db[s.table]) + Len(rows)
              /\ \A r \in RangeOf(rows), c \in DOMAIN Types(s) :
                   IsNull(r[c]) => Types(s)[c] \in AsText \/ ~\E k \in DOMAIN s.columns : s.columns[k] = c
              /\ \A r \in RangeOf(rows) : ~IsNull(Key(s, r))
  IN  /\ Runs(id, "insert")
      /\ \/ (s.static_rows = <<>> \/ ~good) /\ FailsWith(id)
         \/ s.static_rows # <<>> /\ good /\ db' = [db EXCEPT ![s.table] = after] /\ Returns(id, rows)

PgUpdateStep(id) ==
  LET s == plan[id]
      stmt == Bound(update_sql(s))
      hit  == Matching(stmt, db[s.table])
      after == (db[s.table] \ hit) \cup {Assigned(stmt, r) : r \in hit}
      bad  == \/ Refused(s, stmt, db[s.table])
              \/ ~Unique(s, after) \/ Cardinality(after) # Cardinality(db[s.table])
  IN  /\ Runs(id, "update")
      /\ \/ (s.sets = <<>> \/ bad) /\ FailsWith(id)
         \/ /\ s.sets # <<>> /\ ~bad
            /\ db' = [db EXCEPT ![s.table] = after]
            /\ \E order \in SetToSeqs(hit) : Returns(id, [k \in DOMAIN order |-> Assigned(stmt, order[k])])

PgDeleteStep(id) ==
  LET s == plan[id]
      stmt == Bound(delete_sql(s))
      hit  == Matching(stmt, db[s.table])
      bad  == s.wheres = <<>> \/ Refused(s, stmt, db[s.table])
  IN  /\ Runs(id, "delete")
      /\ \/ bad /\ FailsWith(id)
         \/ /\ ~bad /\ db' = [db EXCEPT ![s.table] = @ \ hit]
            /\ \E order \in SetToSeqs(hit) : Returns(id, order)

\* The connection breaks, or the statement is cancelled.
QueryFails(id) ==
  /\ \E kind \in {"select", "insert", "update", "delete"} : Runs(id, kind)
  /\ FailsWith(id)

\* BatchStep: each parent's bucket, parents with equal keys sharing one.
buckets(keys, rows, fk) ==
  [k \in DOMAIN keys |-> IF keys[k] = <<>> THEN <<>>
                         ELSE SelectSeq(rows, LAMBDA row : row[fk] = keys[k][1])]

\* key_of gives no key for an item that is not a row or whose key is NULL; load
\* reads the rows of the keys it is given or, if greedy, more of them.
BatchStep(id) ==
  LET s == plan[id]
      parent == InputsOf(id)[1]
      keyed(k) == parent.values[k].t = "row" /\ s.parent_pk \in DOMAIN parent.values[k].row
                  /\ ~IsNull(KeyOf(parent, k, s.parent_pk))
      per_parent == [k \in DOMAIN parent.values |->
                       IF keyed(k) THEN <<KeyOf(parent, k, s.parent_pk)>> ELSE <<>>]
      unique == {per_parent[k][1] : k \in {j \in DOMAIN per_parent : per_parent[j] # <<>>}}
      loaded == {r \in {decode_row(Types(s), row) : row \in db[s.table]} : s.greedy \/ r[s.fk] \in unique}
  IN  /\ Runs(id, "batch")
      /\ IF unique = {} THEN Finish(id, from_values([k \in DOMAIN per_parent |-> List(<<>>)]))
         ELSE \/ \E rows \in SetToSeqs(loaded) :
                   LET bs == buckets(per_parent, rows, s.fk)
                   IN  Finish(id, from_values([k \in DOMAIN bs |-> List(bs[k])]))
              \/ Finish(id, error_output_batch)             \* load(unique).await?
      /\ UNCHANGED db

\* PgUnionStep: flagged items pass, an item that is not a row fails the step; the
\* discriminator looks at the key.
PgUnionStep(id) ==
  LET source == InputsOf(id)[1]
      tag(k) == IF is_value(source.flags[k])
                THEN Tagged(source.values[k].row, plan[id].discriminate[source.values[k].row["id"]]) ELSE Unit
  IN  /\ Runs(id, "union")
      /\ IF \A k \in DOMAIN source.values : is_value(source.flags[k]) => source.values[k].t = "row"
         THEN Finish(id, StepOut([k \in DOMAIN source.values |-> tag(k)], source.flags))
         ELSE Finish(id, error_output_batch)
      /\ UNCHANGED db

\* A step of the embedding application.
SourceStep(id) == Runs(id, "source") /\ Finish(id, plan[id].output) /\ UNCHANGED db

-----------------------------------------------------------------------------
DataInit ==
  /\ plan = <<>> /\ rep = <<>> /\ out = <<>> /\ seen = <<>>
  /\ db = [t \in DOMAIN Tables |-> Tables[t].rows]

\* The parents of a step are registered before it.
register_step(s) ==
  /\ ~Running /\ Len(plan) < MaxPlan
  /\ \E parents \in [1..s.deps -> Ids] : plan' = Append(plan, [s EXCEPT !.deps = parents])
  /\ out' = Append(out, <<>>) /\ seen' = Append(seen, <<>>)
  /\ UNCHANGED <<rep, db>>

optimize ==
  /\ ~Running /\ plan # <<>>
  /\ \E order \in TopologicalOrders : rep' = deduplicate(order)
  /\ UNCHANGED <<plan, db, out, seen>>

DataNext ==
  \/ \E s \in Candidates : register_step(s)
  \/ optimize
  \/ \E id \in Ids : \/ PgSelectStep(id) \/ PgInsertStep(id) \/ PgUpdateStep(id) \/ PgDeleteStep(id)
                     \/ BatchStep(id) \/ PgUnionStep(id) \/ SourceStep(id) \/ QueryFails(id) \/ Skip(id)

DataSpec == DataInit /\ [][DataNext]_dataVars

-----------------------------------------------------------------------------
Ran(id) == /\ Running /\ rep[id] = id /\ out[id] # <<>>
           /\ ~Skipped(InputsOf(id)) /\ out[id][1] # error_output_batch
Output(id) == out[id][1]

\* The rows that belong to a parent, from the configuration of the step.
Meets(row, tweak) == Compare(tweak.sql.op, row[tweak.sql.column], tweak.sql.value)
Children(s, cols, tweaks, key, rows) ==
  {Projected(s, cols, r) : r \in {x \in rows : Compare(" = ", x[s.fk], key) /\ \A k \in DOMAIN tweaks : Meets(x, tweaks[k])}}

\* A batched select answers position by position: item k of its output holds
\* exactly the rows of the table that reference parent k and satisfy every
\* tweak, once each, whatever duplicates, NULL keys and flagged items the batch
\* has (PgSelectStep::execute; the step must select the column it groups by,
\* and a limit is for the whole batch).
SelectsOwnRows ==
  \A id \in Ids :
    LET s == plan[id]
        parent == InputsOf(id)[1]
        simple == /\ s.cols = <<>> \/ s.fk[1] \in RangeOf(s.cols)
                  /\ \A k \in DOMAIN s.tweaks : "op" \in DOMAIN s.tweaks[k].sql
        keyed(k) == /\ parent.flags[k] = {} /\ parent.values[k].t = "row"
                    /\ s.parent_pk \in DOMAIN parent.values[k].row
        mine(k) == IF keyed(k)
                   THEN Children([s EXCEPT !.fk = s.fk[1]], s.cols, s.tweaks, KeyOf(parent, k, s.parent_pk), seen[id][s.table])
                   ELSE {}
    IN  (s.kind = "select" /\ s.fk # <<>> /\ Ran(id) /\ simple) =>
          /\ Output(id).flags = parent.flags
          /\ DOMAIN Output(id).values = DOMAIN parent.values
          /\ \A k \in DOMAIN parent.values :
               LET got == Output(id).values[k].rows
               IN  RangeOf(got) = mine(k) /\ (s.cols = <<>> => Len(got) = Cardinality(mine(k)))

\* One load serves a whole batch: every parent gets the rows of its key, the
\* parents that share a key each get all of them, and rows of keys nobody asked
\* for are dropped (BatchStep::execute).
BatchSharesRows ==
  \A id \in Ids :
    LET s == plan[id]
        parent == InputsOf(id)[1]
    IN  (s.kind = "batch" /\ Ran(id)) =>
          /\ DOMAIN Output(id).values = DOMAIN parent.values
          /\ \A k \in DOMAIN parent.values :
               RangeOf(Output(id).values[k].rows) =
                 IF parent.values[k].t = "row" /\ s.parent_pk \in DOMAIN parent.values[k].row
                 THEN Children(s, <<>>, <<>>, KeyOf(parent, k, s.parent_pk), seen[id][s.table]) ELSE {}

\* Both ways of loading relations answer for each parent with its own rows.
ChildrenOfParents == SelectsOwnRows /\ BatchSharesRows

\* A select that was merged away would have returned what the step that stands
\* for it returned: the fingerprint sees every tweak (PgSelectStep::
\* compute_config_hash; both steps read the same column of their parents).
MergedSelectsAgree ==
  \A id \in Ids :
    (Running /\ rep[id] # id /\ plan[id].kind = "select" /\ Ran(rep[id])
       /\ plan[id].parent_pk = plan[rep[id]].parent_pk)
    => Output(rep[id]) \in SelectOutputs(Query(plan[id]), InputsOf(rep[id]), seen[rep[id]][plan[id].table])

\* What a mutation does, read off its configuration.
Chosen(s, rows) == {r \in rows : \A k \in DOMAIN s.wheres : Compare(" = ", r[s.wheres[k][1]], s.wheres[k][2])}
Written(s, rows) ==
  CASE s.kind = "insert" ->
         {[c \in DOMAIN Types(s) |-> IF \E k \in DOMAIN s.columns : s.columns[k] = c
                                    THEN s.static_rows[r][CHOOSE k \in DOMAIN s.columns : s.columns[k] = c]
                                    ELSE PgNull] : r \in DOMAIN s.static_rows}
    [] s.kind = "update" ->
         {[c \in DOMAIN r |-> IF \E k \in DOMAIN s.sets : s.sets[k][1] = c
                             THEN s.sets[CHOOSE k \in DOMAIN s.sets : s.sets[k][1] = c][2] ELSE r[c]] :
            r \in Chosen(s, rows)}
    [] s.kind = "delete" -> Chosen(s, rows)

\* A mutation step changes the rows its conditions select and no others, sets
\* what its configuration says, and returns those rows; when it reports an
\* error the table is as it was (build_sql and execute of the three steps:
\* parameters are numbered across the lists of columns, values and conditions).
EffectExact ==
  [][\A id \in Ids :
       (plan[id].kind \in {"insert", "update", "delete"} /\ out'[id] # out[id]) =>
         LET s == plan[id]
             rows == db[s.table]
             written == Written(s, rows)
             kept == IF s.kind = "insert" THEN rows ELSE rows \ Chosen(s, rows)
         IN  IF \E k \in DOMAIN out'[id][1].flags : out'[id][1].flags[k] # {} THEN db' = db
             ELSE /\ db' = [db EXCEPT ![s.table] = IF s.kind = "delete" THEN kept ELSE kept \cup written]
                  /\ {out'[id][1].values[k].row : k \in DOMAIN out'[id][1].values}
                       = {Projected(s, s.returning, r) : r \in written}]_dataVars

\* Steps with equal fingerprints can share one execution: whatever was merged
\* away would have had the effect and the result of the step that stands for it
\* (StepFingerprint).
SharedExecution ==
  \A id \in Ids :
    (Running /\ rep[id] # id /\ plan[id].kind \in {"insert", "update", "delete"} /\ Ran(rep[id]))
    => Written(plan[id], seen[rep[id]][plan[id].table]) = Written(plan[rep[id]], seen[rep[id]][plan[id].table])
-----------------------------------------------------------------------------
(* The inductive invariant behind MergedSelectsAgree.                      *)
PlanKnown ==
  /\ IsSequence(plan)
  /\ \A id \in Ids : \E s \in Candidates : \E parents \in [1..s.deps -> Ids] : plan[id] = [s EXCEPT !.deps = parents]
\* The remap leads to a step of the same fingerprint, and along dependencies
\* it only goes back in the order the optimizer took.
RemapSound ==
  Running =>
    /\ rep \in [Ids -> Ids]
    /\ \A id \in Ids : rep[rep[id]] = rep[id] /\ fingerprint(rep[id], rep) = fingerprint(id, rep)
    /\ \E rank \in [Ids -> Ids] : \A id \in Ids : \A d \in RangeOf(plan[id].deps) : rank[rep[d]] < rank[id]
OutputsInOrder ==
  /\ IsSequence(out) /\ IsSequence(seen) /\ Len(out) = Len(plan) /\ Len(seen) = Len(plan)
  /\ \A id \in Ids : out[id] # <<>> =>
       Running /\ rep[id] = id /\ \A d \in RangeOf(plan[id].deps) : out[rep[d]] # <<>>
\* What a step returned is still what its query gives for its inputs.
SelectsRead ==
  \A id \in Ids : plan[id].kind = "select" /\ Ran(id) =>
    Output(id) \in SelectOutputs(Query(plan[id]), InputsOf(id), seen[id][plan[id].table])
DataInv == PlanKnown /\ RemapSound /\ OutputsInOrder /\ SelectsRead
=============================================================================
