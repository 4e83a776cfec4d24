-------------------------------- MODULE Sql --------------------------------
(***************************************************************************)
(* magna-sql: fragments whose parameters are numbered when the statement   *)
(* is complete, and the statement builders on top of them.  A statement is *)
(* the sequence of its literals, identifiers and placeholders.  The last   *)
(* part says what Postgres does with such a statement.                     *)
(***************************************************************************)
EXTENDS Integers, Sequences, FiniteSets, SequencesExt

\* The parts the constructors below put into a fragment.  The fourth, a fragment
\* nested in a fragment, is left out: parts is private to the crate, and only a
\* unit test builds one.
Lit(s)  == [t |-> "literal", s |-> s, i |-> 0]
Id(s)   == [t |-> "identifier", s |-> s, i |-> 0]
Param(i) == [t |-> "param", s |-> "", i |-> i]      \* i indexes the fragment's params

raw(s)   == [parts |-> <<Lit(s)>>, params |-> <<>>]
param(v) == [parts |-> <<Param(1)>>, params |-> <<v>>]
ident(s) == [parts |-> <<Id(s)>>, params |-> <<>>]
qualified_ident(schema, name) == [parts |-> <<Id(schema), Lit("."), Id(name)>>, params |-> <<>>]
empty    == [parts |-> <<>>, params |-> <<>>]

\* A bug: the appended fragment keeps its own parameter indices.
mut_shift_parts(parts, offset) == parts

shift_parts(parts, offset) ==
  [k \in DOMAIN parts |->
     IF parts[k].t = "param" THEN [parts[k] EXCEPT !.i = @ + offset] ELSE parts[k]]

append(f, g) == [parts  |-> f.parts \o shift_parts(g.parts, Len(f.params)),
                 params |-> f.params \o g.params]
push_raw(f, s) == [f EXCEPT !.parts = Append(@, Lit(s))]

\* SqlFragment::build: $1, $2, ... in the order the parameters occur.
build(f) ==
  FoldLeft(LAMBDA out, p :
             IF p.t = "param"
             THEN [sql    |-> Append(out.sql, [t |-> "placeholder", s |-> "", i |-> Len(out.params) + 1]),
                   params |-> Append(out.params, f.params[p.i])]
             ELSE [out EXCEPT !.sql = Append(@, p)],
           [sql |-> <<>>, params |-> <<>>], f.parts)

-----------------------------------------------------------------------------
\* The parts of a clause one after the other, with a literal between them.
Separated(fs, separator) ==
  FoldLeft(LAMBDA out, k : append(IF k > 1 THEN push_raw(out, separator) ELSE out, fs[k]),
           empty, [k \in DOMAIN fs |-> k])
Clause(word, fs, separator) ==
  IF fs = <<>> THEN empty ELSE append(raw(word), Separated(fs, separator))

\* An optional value is a sequence of at most one.
Optional(word, vs) == IF vs = <<>> THEN empty ELSE append(raw(word), param(vs[1]))
As(alias) == IF alias = <<>> THEN empty ELSE append(raw(" AS "), ident(alias[1]))

from(schema, table) ==
  [schema |-> schema, table |-> table, alias |-> <<>>, columns |-> <<>>, joins |-> <<>>,
   where |-> <<>>, order_by |-> <<>>, limit |-> <<>>, offset |-> <<>>]
column(b, expr, alias) == [b EXCEPT !.columns = Append(@, [expr |-> expr, alias |-> alias])]
column_star(b)       == column(b, raw("*"), <<>>)
where_clause(b, cond) == [b EXCEPT !.where = Append(@, cond)]
order_by(b, col, asc) == [b EXCEPT !.order_by = Append(@, [column |-> col, ascending |-> asc])]
limit(b, v)          == [b EXCEPT !.limit = <<v>>]

\* SqlBuilder::build.
build_select(b) ==
  LET columns == IF b.columns = <<>> THEN raw("*")
                 ELSE Separated([k \in DOMAIN b.columns |->
                                   append(b.columns[k].expr, As(b.columns[k].alias))], ", ")
      joins   == Separated([k \in DOMAIN b.joins |->
                   append(append(append(raw(b.joins[k].join_type), b.joins[k].table),
                                 As(b.joins[k].alias)),
                          append(raw(" ON "), b.joins[k].on))], "")
      conds   == [k \in DOMAIN b.where |-> push_raw(append(raw("("), b.where[k]), ")")]
      orders  == [k \in DOMAIN b.order_by |->
                   push_raw(b.order_by[k].column, IF b.order_by[k].ascending THEN " ASC" ELSE " DESC")]
  IN  FoldLeft(append, raw("SELECT "),
        << columns, raw(" FROM "), qualified_ident(b.schema, b.table), As(b.alias), joins,
           Clause(" WHERE ", conds, " AND "), Clause(" ORDER BY ", orders, ", "),
           Optional(" LIMIT ", b.limit), Optional(" OFFSET ", b.offset) >>)

\* InsertBuilder, UpdateBuilder, DeleteBuilder.  A column list is a sequence of
\* pairs <<column, value>>, so the counts the code asserts agree by construction.
Equals(pair) == append(push_raw(ident(pair[1]), " = "), param(pair[2]))
EachEquals(pairs, separator) == Separated([k \in DOMAIN pairs |-> Equals(pairs[k])], separator)

build_insert(schema, table, columns) ==
  FoldLeft(append, raw("INSERT INTO "),
    << qualified_ident(schema, table), raw(" ("),
       Separated([k \in DOMAIN columns |-> ident(columns[k][1])], ", "), raw(") VALUES ("),
       Separated([k \in DOMAIN columns |-> param(columns[k][2])], ", "), raw(") RETURNING *") >>)

build_update(schema, table, sets, wheres) ==
  FoldLeft(append, raw("UPDATE "),
    << qualified_ident(schema, table), raw(" SET "), EachEquals(sets, ", "),
       raw(" WHERE "), EachEquals(wheres, " AND "), raw(" RETURNING *") >>)

build_delete(schema, table, wheres) ==
  FoldLeft(append, raw("DELETE FROM "),
    << qualified_ident(schema, table), raw(" WHERE "), EachEquals(wheres, " AND "),
       raw(" RETURNING *") >>)

-----------------------------------------------------------------------------
\* What Postgres does.  A row is a function from columns to values, a value a
\* record [type, v]; values of different types do not compare (an error that
\* aborts the statement).
Place(stmt, word) == SelectInSeq(stmt.sql, LAMBDA p : p.t = "literal" /\ p.s = word)
Value(stmt, k)    == stmt.params[stmt.sql[k].i]
Clauses == {" WHERE ", " SET ", " ORDER BY ", " LIMIT ", " OFFSET ", " RETURNING ", " RETURNING *", ") RETURNING *"}

\* The positions of a clause: from its keyword to the next.
Section(stmt, word) ==
  LET first == Place(stmt, word)
      ends  == {k \in first + 1 .. Len(stmt.sql) : stmt.sql[k].t = "literal" /\ stmt.sql[k].s \in Clauses}
  IN  IF first = 0 THEN {}
      ELSE first + 1 .. (IF ends = {} THEN Len(stmt.sql) ELSE (CHOOSE k \in ends : \A j \in ends : k <= j) - 1)

Operators == {" = ", " <> ", " < ", " <= ", " > ", " >= ", " = ANY("}
\* column op $n, wherever it stands in a clause
Terms(stmt, word) ==
  {[column |-> stmt.sql[k].s, op |-> stmt.sql[k + 1].s, value |-> Value(stmt, k + 2)] :
     k \in {j \in Section(stmt, word) :
              /\ stmt.sql[j].t = "identifier" /\ {j + 1, j + 2} \subseteq Section(stmt, word)
              /\ stmt.sql[j + 1].s \in Operators /\ stmt.sql[j + 2].t = "placeholder"}}
\* column IS [NOT] NULL
NullTests(stmt) ==
  {[column |-> stmt.sql[k].s, null |-> stmt.sql[k + 1].s = " IS NULL"] :
     k \in {j \in Section(stmt, " WHERE ") :
              stmt.sql[j].t = "identifier" /\ stmt.sql[j + 1].s \in {" IS NULL", " IS NOT NULL"}}}

IsNull(v)       == v.type = "Null"
Comparable(a, b) == a.type = b.type \/ IsNull(a) \/ IsNull(b)
Compare(op, a, b) ==
  /\ ~IsNull(a) /\ ~IsNull(b)
  /\ CASE op = " = " -> a.v = b.v [] op = " <> " -> a.v # b.v
       [] op = " < " -> a.v < b.v [] op = " <= " -> a.v <= b.v
       [] op = " > " -> a.v > b.v [] op = " >= " -> a.v >= b.v
Holds(term, row) ==
  IF term.op = " = ANY(" THEN \E k \in DOMAIN term.value.v : Compare(" = ", row[term.column], term.value.v[k])
  ELSE Compare(term.op, row[term.column], term.value)
Matching(stmt, rows) ==
  {row \in rows : /\ \A term \in Terms(stmt, " WHERE ") : Holds(term, row)
                  /\ \A test \in NullTests(stmt) : IsNull(row[test.column]) = test.null}

\* A statement that compares values of different types, or a negative LIMIT, fails.
Ill(stmt, rows) ==
  \/ \E term \in Terms(stmt, " WHERE "), row \in rows :
       IF term.op = " = ANY("
       THEN \E k \in DOMAIN term.value.v : ~Comparable(row[term.column], term.value.v[k])
       ELSE ~Comparable(row[term.column], term.value)
  \/ \E k \in Section(stmt, " LIMIT ") : Value(stmt, k).v < 0

\* ORDER BY: whether row a may come before row b; rows that tie come in any order.
SortKeys(stmt) ==
  LET ks == SetToSortSeq({k \in Section(stmt, " ORDER BY ") : stmt.sql[k].t = "identifier"}, <)
  IN  [j \in DOMAIN ks |-> [column |-> stmt.sql[ks[j]].s, asc |-> stmt.sql[ks[j] + 1].s = " ASC"]]
Before(keys, a, b) ==
  LET differ == {j \in DOMAIN keys : a[keys[j].column] # b[keys[j].column]}
      first  == CHOOSE j \in differ : \A i \in differ : j <= i
  IN  \/ differ = {}
      \/ Compare(IF keys[first].asc THEN " < " ELSE " > ", a[keys[first].column], b[keys[first].column])

\* The results a SELECT may return.
Selected(stmt, rows) ==
  LET keys  == SortKeys(stmt)
      bound == {Value(stmt, k).v : k \in Section(stmt, " LIMIT ")}
      all   == {s \in SetToSeqs(Matching(stmt, rows)) :
                  \A i, j \in DOMAIN s : i < j => Before(keys, s[i], s[j])}
  IN  {SubSeq(s, 1, IF bound = {} THEN Len(s)
                    ELSE LET n == CHOOSE n \in bound : TRUE IN IF n < Len(s) THEN n ELSE Len(s)) : s \in all}

\* SET and VALUES.
Assigned(stmt, row) ==
  [c \in DOMAIN row |->
     IF \E term \in Terms(stmt, " SET ") : term.column = c
     THEN (CHOOSE term \in Terms(stmt, " SET ") : term.column = c).value ELSE row[c]]
Inserted(stmt) ==
  LET open  == Place(stmt, " (")
      close == Place(stmt, ") VALUES (")
      cols  == SelectSeq(SubSeq(stmt.sql, open + 1, close - 1), LAMBDA p : p.t = "identifier")
      vals  == SelectSeq(SubSeq(stmt.sql, close + 1, Len(stmt.sql)), LAMBDA p : p.t = "placeholder")
  IN  [c \in {cols[k].s : k \in DOMAIN cols} |->
         stmt.params[vals[CHOOSE k \in DOMAIN cols : cols[k].s = c].i]]
=============================================================================
