----------------------------- MODULE Resolvers -----------------------------
(***************************************************************************)
(* The query and mutation fields of one table or view (resolve/query.rs,   *)
(* resolve/mutation.rs) down to the statements they send: connection pages *)
(* with cursors and a total (executor/mod.rs), node ids                    *)
(* (node_interface.rs), rows by primary key.  Several clients share the    *)
(* table: one is observed, which makes a single call, walks the table page *)
(* by page or keeps a node id to mutate the row later, while the others    *)
(* write.                                                                  *)
(***************************************************************************)
EXTENDS Sql, TLC

CONSTANTS
  Resources,        \* [name, primary_key : Seq(column), type : column -> "INT", "TEXT" or "UUID"];
                    \* INT is int8, whose GraphQL scalar BigInt takes any value
  Rows(_),          \* the rows a resource's table may hold
  Inputs(_),        \* createX inputs and updateX patches: column -> GraphQL value
  Calls(_),         \* arguments of single allX and select_connection calls
  WalkSizes,        \* page sizes of the walking client
  DefaultPageSize,  \* 20 in the code
  MaxWrites         \* bound: rows inserted, updated or deleted

VARIABLES
  resource,  \* the table's description in the schema
  table,     \* its rows
  client,    \* the observed client: "calls" (then "counting"), "walks", "mutates"; "answered"
  walk,      \* the walking client: direction, cursor, keys seen, keys that stayed
  nodeId,    \* a node id some client was given, and the key of the row it names
  last,      \* the last operation, the table it ran on and its outcome
  writes
resVars == <<resource, table, client, walk, nodeId, last, writes>>

None == <<>>          \* an Option is a sequence of at most one element
IntV(n)  == [type |-> "INT", v |-> n]
TextV(s) == [type |-> "TEXT", v |-> s]
UuidV(n) == [type |-> "UUID", v |-> n]
Null    == [type |-> "Null", v |-> 0]
NoArgs  == [first |-> None, last |-> None, after |-> None, before |-> None, condition |-> <<>>,
            filter |-> <<>>, order_by |-> <<>>, need_total_count |-> FALSE]
PrimaryKey     == resource.primary_key
KeyOf(row)     == [k \in DOMAIN PrimaryKey |-> row[PrimaryKey[k]]]
\* A view, or a table without a key, is paged by a column "id" that it may not have.
default_pk == IF PrimaryKey = <<>> THEN "id" ELSE PrimaryKey[1]

-----------------------------------------------------------------------------
\* Text of a value and back.  A text is a sequence of atoms, so that the
\* separators of a node id and blanks can be told apart from what is between
\* them.  A UUID is printed in one spelling and read in several.
Digits == {<<ToString(n)>> : n \in 0..9}
uuid_text(n) == <<"uuid", ToString(n)>>
Uuids == UNION {{<<n, uuid_text(n)>>, <<n, <<"UUID", ToString(n)>>>>} : n \in 0..9}
parse_uuid(s) == {UuidV(u[1]) : u \in {x \in Uuids : x[2] = s}}      \* empty if s is not one

pg_value_str(v) == CASE v.type \in {"INT", "FLOAT", "BOOL"} -> <<ToString(v.v)>>
                     [] v.type = "TEXT" -> v.v [] v.type = "UUID" -> uuid_text(v.v) [] OTHER -> <<>>

parse_pk_string(s, type) ==
  CASE type = "INT"  -> IntV(IF s \in Digits THEN CHOOSE n \in 0..9 : <<ToString(n)>> = s ELSE 0)
    [] type = "UUID" -> IF parse_uuid(s) = {} THEN TextV(s) ELSE CHOOSE u \in parse_uuid(s) : TRUE
    [] OTHER         -> TextV(s)

\* A GraphQL value [kind, v]; a number that is no i64 is a "Float", an object or
\* an enum value is NULL.
RECURSIVE gql_value_to_pg_value(_)
gql_value_to_pg_value(val) ==
  CASE val.kind = "Boolean" -> [type |-> "BOOL", v |-> val.v]
    [] val.kind = "Int"     -> IntV(val.v)
    [] val.kind = "Float"   -> [type |-> "FLOAT", v |-> val.v]
    [] val.kind = "String"  -> IF parse_uuid(val.v) = {} THEN TextV(val.v)
                               ELSE CHOOSE u \in parse_uuid(val.v) : TRUE
    [] val.kind = "List"    -> [type |-> "Array", v |-> [k \in DOMAIN val.v |-> gql_value_to_pg_value(val.v[k])]]
    [] OTHER                -> Null

\* Cursors and node ids travel as base64, which no other text decodes to.
encode_cursor(row) ==
  [base64 |-> [c \in {PrimaryKey[k] : k \in DOMAIN PrimaryKey} |-> pg_value_str(row[c])]]
decode_cursor(cursor) == IF "base64" \in DOMAIN cursor THEN <<cursor.base64>> ELSE None

encode_node_id(type_name, pairs) ==
  [base64 |-> <<type_name, ":">> \o
     (IF Len(pairs) = 1 THEN pairs[1][2]
      ELSE FoldLeft(LAMBDA out, k : (IF k > 1 THEN Append(out, ",") ELSE out)
                                     \o <<pairs[k][1], "=">> \o pairs[k][2],
                    <<>>, [k \in DOMAIN pairs |-> k]))]
decode_node_id(id) ==
  IF "base64" \notin DOMAIN id \/ ~Contains(id.base64, ":") THEN None
  ELSE <<SubSeq(id.base64, SelectInSeq(id.base64, LAMBDA a : a = ":") + 1, Len(id.base64))>>

\* add_node_id_field: the nodeId of a row.
NodeIdOf(row) ==
  encode_node_id(resource.name,
                 [k \in DOMAIN PrimaryKey |-> <<PrimaryKey[k], pg_value_str(row[PrimaryKey[k]])>>])

split(s, sep) ==
  FoldLeft(LAMBDA out, a : IF a = sep THEN Append(out, <<>>)
                           ELSE [out EXCEPT ![Len(out)] = Append(@, a)], <<<<>>>>, s)

trim(s) ==
  LET solid == {k \in DOMAIN s : s[k] # " "}
  IN  IF solid = {} THEN <<>> ELSE SubSeq(s, Min(solid), Max(solid))

\* The column and the value a part "col=val" of a composite key stands for; a
\* part without "=" or whose column the resource does not have is dropped.
parse_pk_part(part) ==
  LET eq  == SelectInSeq(part, LAMBDA a : a = "=")
      key == trim(SubSeq(part, 1, eq - 1))
      val == trim(SubSeq(part, eq + 1, Len(part)))
  IN  IF eq = 0 \/ Len(key) # 1 \/ key[1] \notin DOMAIN resource.type THEN <<>>
      ELSE <<<<key[1], parse_pk_string(val, resource.type[key[1]])>>>>

\* A bug: only the first column of a composite key is read.
mut_parse_pk_values_from_str(s) ==
  IF Len(PrimaryKey) = 1
  THEN <<<<PrimaryKey[1], parse_pk_string(s, resource.type[PrimaryKey[1]])>>>>
  ELSE parse_pk_part(split(s, ",")[1])
\* "42", or "col1=val1,col2=val2"; no part at all is an error.
parse_pk_values_from_str(s) ==
  IF Len(PrimaryKey) = 1
  THEN <<<<PrimaryKey[1], parse_pk_string(s, resource.type[PrimaryKey[1]])>>>>
  ELSE FoldLeft(LAMBDA out, part : out \o parse_pk_part(part), <<>>, split(s, ","))

-----------------------------------------------------------------------------
\* ConnectionArgs::from_ctx reads first, last, after and before; filter,
\* orderBy and condition are not read.
from_ctx(args) == [args EXCEPT !.condition = <<>>, !.filter = <<>>, !.order_by = <<>>]

build_filter_cond(f) ==
  CASE f.op = " = ANY(" -> push_raw(append(push_raw(ident(f.column), f.op), param(f.value)), ")")
    [] f.op = "IsNull"  -> push_raw(ident(f.column), IF f.value = [type |-> "BOOL", v |-> TRUE]
                                                     THEN " IS NULL" ELSE " IS NOT NULL")
    [] OTHER            -> append(push_raw(ident(f.column), f.op), param(f.value))

Backward(args) == args.first = None /\ args.last # None
PageSize(args) == IF args.first # None THEN args.first[1]
                  ELSE IF args.last # None THEN args.last[1] ELSE DefaultPageSize

\* A bug: the row of the cursor is part of the next page.
mut_Keyset(args) ==
  LET cursor == IF Backward(args) THEN args.before ELSE args.after
      pk_map == IF cursor = None THEN None ELSE decode_cursor(cursor[1])
      col    == default_pk
  IN  IF pk_map = None \/ col \notin DOMAIN pk_map[1] THEN <<>>
      ELSE <<append(push_raw(ident(col), IF Backward(args) THEN " <= " ELSE " >= "),
                    param(IF col \in DOMAIN resource.type
                          THEN parse_pk_string(pk_map[1][col], resource.type[col])
                          ELSE TextV(pk_map[1][col])))>>
\* The keyset condition of the cursor: none if there is no cursor or it does
\* not decode.
Keyset(args) ==
  LET cursor == IF Backward(args) THEN args.before ELSE args.after
      pk_map == IF cursor = None THEN None ELSE decode_cursor(cursor[1])
      col    == default_pk
  IN  IF pk_map = None \/ col \notin DOMAIN pk_map[1] THEN <<>>
      ELSE <<append(push_raw(ident(col), IF Backward(args) THEN " < " ELSE " > "),
                    param(IF col \in DOMAIN resource.type
                          THEN parse_pk_string(pk_map[1][col], resource.type[col])
                          ELSE TextV(pk_map[1][col])))>>

Orders(args) ==
  IF args.order_by = <<>> THEN <<[column |-> default_pk, asc |-> ~Backward(args)]>>
  ELSE [k \in DOMAIN args.order_by |->
          [column |-> args.order_by[k].column,
           asc |-> IF Backward(args) THEN ~args.order_by[k].asc ELSE args.order_by[k].asc]]

connection_query(args) ==
  LET conds == Keyset(args)
               \o [k \in DOMAIN args.condition |-> Equals(args.condition[k])]
               \o [k \in DOMAIN args.filter |-> build_filter_cond(args.filter[k])]
      b1 == FoldLeft(where_clause, column_star(from("public", resource.name)), conds)
      b2 == FoldLeft(LAMBDA b, o : order_by(b, ident(o.column), o.asc), b1, Orders(args))
  IN  build(build_select(limit(b2, IntV(PageSize(args) + 1))))

\* A bug: the reversed page is cut at the wrong end.
mut_page_of(args, fetched) ==
  LET n    == PageSize(args)
      more == n >= 0 /\ Len(fetched) > n
      rows == IF Backward(args) THEN SubSeq(Reverse(fetched), 1, IF more THEN n ELSE Len(fetched))
              ELSE IF more THEN SubSeq(fetched, 1, n) ELSE fetched
  IN  [rows  |-> rows,
       next  |-> ~Backward(args) /\ more, prev |-> Backward(args) /\ more,
       start |-> IF rows = <<>> THEN None ELSE <<encode_cursor(rows[1])>>,
       end   |-> IF rows = <<>> THEN None ELSE <<encode_cursor(rows[Len(rows)])>>]
\* What select_connection makes of the rows: the extra row only says that there
\* are more (a negative size is a huge unsigned one), a backward page is turned
\* round, the cursors are the keys of its ends.
page_of(args, fetched) ==
  LET n    == PageSize(args)
      more == n >= 0 /\ Len(fetched) > n
      kept == IF more THEN SubSeq(fetched, 1, n) ELSE fetched
      rows == IF Backward(args) THEN Reverse(kept) ELSE kept
  IN  [rows  |-> rows,
       next  |-> ~Backward(args) /\ more, prev |-> Backward(args) /\ more,
       start |-> IF rows = <<>> THEN None ELSE <<encode_cursor(rows[1])>>,
       end   |-> IF rows = <<>> THEN None ELSE <<encode_cursor(rows[Len(rows)])>>]

\* Postgres refuses a statement that names a column the table does not have, or
\* compares a column with a value of another type, whatever rows there are.
Refused(stmt) ==
  \/ \E k \in Section(stmt, " WHERE ") \cup Section(stmt, " ORDER BY ") :
       stmt.sql[k].t = "identifier" /\ stmt.sql[k].s \notin DOMAIN resource.type
  \/ Ill(stmt, {[c \in DOMAIN resource.type |-> [type |-> resource.type[c], v |-> 0]]})

\* The pages select_connection may return; none if the statement fails.
select_connection(args) ==
  LET stmt == connection_query(args)
  IN  IF Refused(stmt) THEN {} ELSE {page_of(args, rows) : rows \in Selected(stmt, table)}

-----------------------------------------------------------------------------
NoLast == [op |-> "none", args |-> NoArgs, page |-> None, total |-> None, key |-> None, rows |-> {}, before |-> {}]
NoWalk == [state |-> "none", dir |-> "forward", size |-> 0, cursor |-> None, seen |-> <<>>, stayed |-> {}]

\* Primary keys are unique and not NULL; a resource without one is a view.
Keyed(rows) ==
  PrimaryKey # <<>> =>
    /\ \A a, b \in rows : KeyOf(a) = KeyOf(b) => a = b
    /\ \A row \in rows, k \in DOMAIN PrimaryKey : ~IsNull(row[PrimaryKey[k]])

ResInit ==
  /\ resource \in Resources
  /\ table \in {rows \in SUBSET Rows(resource) : Keyed(rows)}
  /\ client \in CASE PrimaryKey = <<>>    -> {"calls"}
                   [] Len(PrimaryKey) = 1 -> {"calls", "walks", "mutates"}
                   [] OTHER               -> {"calls", "mutates"}
  /\ walk = NoWalk /\ nodeId = None /\ last = NoLast /\ writes = 0

\* allX, and select_connection as the library offers it: the page, then a
\* second statement if the total is asked for.
Connection(args) ==
  /\ client = "calls"
  /\ \E pages \in {select_connection(args)} :
       IF pages = {}
       THEN /\ client' = "answered"
            /\ last' = [NoLast EXCEPT !.op = "error", !.args = args]
       ELSE \E page \in pages :
              /\ client' = IF args.need_total_count THEN "counting" ELSE "answered"
              /\ last' = [NoLast EXCEPT !.op = "connection", !.args = args,
                                        !.page = <<page>>, !.before = table]
  /\ UNCHANGED <<resource, table, walk, nodeId, writes>>
allX(args)             == Connection(from_ctx(args))
SelectConnection(args) == Connection(args)

\* SELECT COUNT(*) of the whole table, neither the condition nor the filter.
CountRows ==
  /\ client = "counting" /\ client' = "answered"
  /\ last' = [last EXCEPT !.total = <<Cardinality(table)>>]
  /\ UNCHANGED <<resource, table, walk, nodeId, writes>>

\* A client starts to walk the table, then asks for page after page, each from
\* the cursor of the page before, until there is none.  Only a table with a key
\* of one column is walked: the cursor compares the first column of a key, and
\* without one it is empty, so that every page is the first again.
StartWalk(dir, size) ==
  /\ client = "walks" /\ walk.state = "none"
  /\ walk' = [NoWalk EXCEPT !.state = "walking", !.dir = dir, !.size = size,
                            !.stayed = {KeyOf(row) : row \in table}]
  /\ UNCHANGED <<resource, table, client, nodeId, last, writes>>

WalkArgs ==
  IF walk.dir = "forward" THEN [NoArgs EXCEPT !.first = <<walk.size>>, !.after = walk.cursor]
  ELSE [NoArgs EXCEPT !.last = <<walk.size>>, !.before = walk.cursor]

WalkPage ==
  /\ walk.state = "walking"
  /\ \E page \in select_connection(from_ctx(WalkArgs)) :
       LET keys == [k \in DOMAIN page.rows |-> KeyOf(page.rows[k])]
       IN  walk' = IF walk.dir = "forward"
                   THEN [walk EXCEPT !.seen = @ \o keys, !.cursor = page.end,
                                     !.state = IF page.next THEN "walking" ELSE "done"]
                   ELSE [walk EXCEPT !.seen = keys \o @, !.cursor = page.start,
                                     !.state = IF page.prev THEN "walking" ELSE "done"]
  /\ UNCHANGED <<resource, table, client, nodeId, last, writes>>

\* A client reads the nodeId of a row, a field that only a type with a key has.
ReadNodeId(row) ==
  /\ client = "mutates"
  /\ nodeId' = <<[id |-> NodeIdOf(row), key |-> KeyOf(row)]>>
  /\ UNCHANGED <<resource, table, client, walk, last, writes>>

by_pk_query(args) ==
  build(build_select(limit(FoldLeft(where_clause, column_star(from("public", resource.name)),
    [k \in DOMAIN PrimaryKey |-> Equals(<<PrimaryKey[k], gql_value_to_pg_value(args[k])>>)]), IntV(1))))

\* The GraphQL value a client writes for a key value it was given.
gql_of(v) == IF v.type = "INT" THEN [kind |-> "Int", v |-> v.v]
             ELSE [kind |-> "String", v |-> pg_value_str(v)]

\* xById, asked for the key of a row; a view's has no argument.
select_by_pk(key) ==
  LET stmt == by_pk_query([k \in DOMAIN key |-> gql_of(key[k])])
      answer(op, rows) == last' = [NoLast EXCEPT !.op = op, !.key = <<key>>,
                                                 !.before = table, !.rows = rows]
  IN  /\ client = "calls" /\ client' = "answered"
      /\ IF Refused(stmt) THEN answer("byPkError", {})
         ELSE \E rows \in Selected(stmt, table) : answer("byPk", ToSet(rows))
      /\ UNCHANGED <<resource, table, walk, nodeId, writes>>

-----------------------------------------------------------------------------
\* The columns an input object gives, in the order of the resource's columns.
ColumnsOf(input) ==
  LET cols == SetToSeq(DOMAIN input)
  IN  [k \in DOMAIN cols |-> <<cols[k], gql_value_to_pg_value(input[cols[k]])>>]

Mutates == client = "mutates" /\ client' = "answered" /\ UNCHANGED <<resource, walk, nodeId, writes>>

Failed == last' = [NoLast EXCEPT !.op = "error"] /\ UNCHANGED table

\* Postgres casts a value it stores to text and rounds a float; NULL is bound as
\* a text.
Stored(v, type) ==
  CASE type = "TEXT" /\ v.type \in {"INT", "FLOAT", "BOOL", "UUID"} -> TextV(pg_value_str(v))
    [] type = "INT" /\ v.type = "FLOAT" -> IntV(v.v)
    [] OTHER -> v
Storable(columns) ==
  \A k \in DOMAIN columns :
    LET type == resource.type[columns[k][1]]
    IN  Stored(columns[k][2], type).type \in {type} \cup (IF type = "TEXT" THEN {"Null"} ELSE {})
StoredRow(row) == [c \in DOMAIN row |-> Stored(row[c], resource.type[c])]

\* createX: columns that are not given are NULL; a duplicate or missing key is
\* an error of the database.
createX(input) ==
  LET stmt == build(build_insert("public", resource.name, ColumnsOf(input)))
      row  == [c \in DOMAIN resource.type |->
                 IF c \in DOMAIN Inserted(stmt) THEN Stored(Inserted(stmt)[c], resource.type[c]) ELSE Null]
      new  == table \cup {row}
  IN  /\ Mutates
      /\ IF DOMAIN input = {} \/ ~Storable(ColumnsOf(input)) \/ row \in table \/ ~Keyed(new) THEN Failed
         ELSE /\ last' = [NoLast EXCEPT !.op = "create", !.key = <<KeyOf(row)>>,
                                     !.rows = {row}, !.before = table]
              /\ table' = new

\* updateX: an empty patch is a statement without SET list, an error.
updateX(id, key, patch) ==
  LET pk_str == decode_node_id(id)
      pairs  == IF pk_str = None THEN <<>> ELSE parse_pk_values_from_str(pk_str[1])
      stmt   == build(build_update("public", resource.name, ColumnsOf(patch), pairs))
      hits   == Matching(stmt, table)
      new    == {IF row \in hits THEN StoredRow(Assigned(stmt, row)) ELSE row : row \in table}
  IN  /\ Mutates
      /\ IF \/ pairs = <<>> \/ DOMAIN patch = {} \/ Refused(stmt) \/ ~Storable(ColumnsOf(patch))
            \/ Cardinality(new) # Cardinality(table) \/ ~Keyed(new)
         THEN Failed
         ELSE /\ last' = [NoLast EXCEPT !.op = "update", !.key = <<key>>,
                                     !.rows = {StoredRow(Assigned(stmt, row)) : row \in hits}, !.before = table]
              /\ table' = new

deleteX(id, key) ==
  LET pk_str == decode_node_id(id)
      pairs  == IF pk_str = None THEN <<>> ELSE parse_pk_values_from_str(pk_str[1])
      stmt   == build(build_delete("public", resource.name, pairs))
  IN  /\ Mutates
      /\ IF pairs = <<>> \/ Refused(stmt) THEN Failed
         ELSE /\ last' = [NoLast EXCEPT !.op = "delete", !.key = <<key>>,
                                     !.rows = Matching(stmt, table), !.before = table]
              /\ table' = table \ Matching(stmt, table)

\* Other clients insert and delete rows; walked keys that are gone have not
\* stayed.  A single statement sees one table, and every table is an initial one.
OthersWrite ==
  /\ client \in {"walks", "mutates", "counting"}
  /\ writes < MaxWrites /\ writes' = writes + 1
  /\ \E row \in Rows(resource) :
       /\ table' \in {table \cup {row}, table \ {row}} \ {table}
       /\ Keyed(table')
  /\ walk' = [walk EXCEPT !.stayed = @ \cap {KeyOf(row) : row \in table'}]
  /\ UNCHANGED <<resource, client, nodeId, last>>

ResNext ==
  \/ \E args \in Calls(resource) : allX(args) \/ SelectConnection(args)
  \/ CountRows
  \/ \E row \in Rows(resource) : select_by_pk(KeyOf(row))
  \/ \E dir \in {"forward", "backward"}, size \in WalkSizes : StartWalk(dir, size)
  \/ WalkPage
  \/ \E row \in table : ReadNodeId(row)
  \/ \E input \in Inputs(resource) : createX(input)
  \/ \E n \in ToSet(nodeId) :
       deleteX(n.id, n.key) \/ \E patch \in Inputs(resource) : updateX(n.id, n.key, patch)
  \/ OthersWrite

ResSpec == ResInit /\ [][ResNext]_resVars

-----------------------------------------------------------------------------
\* Reference: the rows a connection call asks for, in the order of its page.
Asked(args, rows) ==
  LET cursor == IF Backward(args) THEN args.before ELSE args.after
      pk_map == IF cursor = None THEN None ELSE decode_cursor(cursor[1])
      beyond(row) ==
        \/ pk_map = None \/ default_pk \notin DOMAIN pk_map[1]
        \/ LET at == parse_pk_string(pk_map[1][default_pk], resource.type[default_pk]).v
           IN  IF Backward(args) THEN row[default_pk].v < at ELSE row[default_pk].v > at
  IN  {row \in rows : /\ beyond(row)
                      /\ \A k \in DOMAIN args.condition :
                           ~IsNull(args.condition[k][2]) /\ row[args.condition[k][1]] = args.condition[k][2]
                      /\ \A k \in DOMAIN args.filter : Holds(args.filter[k], row)}
InOrder(args, a, b) ==
  Before(IF args.order_by = <<>> THEN <<[column |-> default_pk, asc |-> TRUE]>> ELSE args.order_by, a, b)

\* A page is a run of the rows asked for, in order, at the near end of them and
\* as long as allowed; hasNextPage (hasPreviousPage) says exactly whether rows
\* were left out at its far end.  totalCount, counted later, is off by no more
\* than what was written in between.  A view without a column "id" has pages
\* only in an order that is asked for, and a cursor is an error there.
PageIsSlice ==
  /\ last.op = "connection" =>
       LET page == last.page[1]
           asked == Asked(last.args, last.before)
           rest  == asked \ ToSet(page.rows)
           n     == PageSize(last.args)
       IN  /\ ToSet(page.rows) \subseteq asked /\ Cardinality(ToSet(page.rows)) = Len(page.rows)
           /\ \A i, j \in DOMAIN page.rows : i < j => InOrder(last.args, page.rows[i], page.rows[j])
           /\ n >= 0 => Len(page.rows) = IF Cardinality(asked) < n THEN Cardinality(asked) ELSE n
           /\ \A row \in rest, k \in DOMAIN page.rows :
                IF Backward(last.args) THEN InOrder(last.args, row, page.rows[k])
                ELSE InOrder(last.args, page.rows[k], row)
           /\ n >= 0 => page.next = (~Backward(last.args) /\ rest # {})
           /\ n >= 0 => page.prev = (Backward(last.args) /\ rest # {})
           /\ last.total # None => last.total[1] \in Cardinality(last.before) - writes ..
                                                       Cardinality(last.before) + writes
           /\ client = "answered" => (last.total # None) = last.args.need_total_count
  /\ last.op = "connection" /\ default_pk \notin DOMAIN resource.type => last.args.order_by # <<>>

\* A client that walks a table with a one-column key, forward or backward,
\* while others write to it, meets no row twice, in key order, and none of the
\* rows that were there all the time is left out.
WalkComplete ==
  walk.state = "done" =>
    /\ \A i, j \in DOMAIN walk.seen : i < j => walk.seen[i][1].v < walk.seen[j][1].v
    /\ walk.stayed \subseteq ToSet(walk.seen)

\* A composite key that is read back as it was written: no comma in a text, and
\* no blank at its ends.
Separable(key) ==
  \/ Len(PrimaryKey) = 1
  \/ \A k \in DOMAIN key : key[k].type = "TEXT" => ~Contains(key[k].v, ",") /\ trim(key[k].v) = key[k].v

\* A mutation through a node id touches one row at most, and the row the id was
\* issued for and no other whenever its key is separable, whatever was inserted
\* or deleted since (the node ids of other composite keys may name another row,
\* or none).  xById finds the row of its key, on a view any row; it fails only
\* for a text that reads as a UUID.
MutationExact ==
  last.op \in {"update", "delete", "byPk", "byPkError"} =>
    LET named == {row \in last.before : KeyOf(row) = last.key[1]}
        gone  == last.before \ table
    IN  CASE last.op = "byPk"   -> last.rows \subseteq named /\ (last.rows = {}) = (named = {})
                                   /\ Cardinality(last.rows) <= 1
          [] last.op = "byPkError" ->
               \E k \in DOMAIN last.key[1] : last.key[1][k].type = "TEXT" /\ parse_uuid(last.key[1][k].v) # {}
          [] last.op = "delete" -> /\ Cardinality(last.rows) <= 1 /\ gone = last.rows
                                   /\ table \subseteq last.before
                                   /\ Separable(last.key[1]) => last.rows = named
          [] last.op = "update" -> /\ Cardinality(last.rows) <= 1 /\ Cardinality(gone) <= 1
                                   /\ table \ last.before \subseteq last.rows /\ last.rows \subseteq table
                                   /\ Separable(last.key[1]) =>
                                        /\ Cardinality(last.rows) = Cardinality(named)
                                        /\ table = (last.before \ named) \cup last.rows

\* What encode_node_id and parse_pk_values_from_str are documented to do: the
\* pairs a node id is made of are the pairs it is parsed to, so that a mutation
\* touches the row the id was issued for, or none.
NodeIdNamesRow ==
  last.op = "delete" => last.rows \subseteq {row \in last.before : KeyOf(row) = last.key[1]}
=============================================================================
