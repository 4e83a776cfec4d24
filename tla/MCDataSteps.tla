---------------------------- MODULE MCDataSteps ----------------------------
(* A table of posts, one of them without an author, and batches of users    *)
(* with duplicates, NULL keys and flagged items.                            *)
EXTENDS DataSteps

IntV(n)  == [type |-> "Int", v |-> n]
User(i, boss) == [id |-> IntV(i), boss |-> boss]
Post(i, author) == [id |-> IntV(i), author |-> author, price |-> [type |-> "Numeric", v |-> i]]

MCTables ==
  [post |-> [schema |-> "public", key |-> "id", type |-> [id |-> "INT4", author |-> "INT8", price |-> "NUMERIC"],
             rows |-> {Post(1, IntV(1)), Post(2, IntV(1)), Post(3, PgNull)}]]

Source(values, flags) == [kind |-> "source", deps |-> 0, output |-> StepOut(values, flags)]
Sources ==
  { Source(<<Row(User(1, PgNull)), Row(User(2, IntV(1))), Row(User(1, IntV(2)))>>, <<{}, {}, {}>>),
    Source(<<Row(User(2, IntV(1))), Row(User(1, IntV(1)))>>, <<{}, {"NULL"}>>),
    Source(<<Unit, Row(User(2, PgNull)), Unit>>, <<{"ERROR"}, {"INHIBITED"}, {"NULL", "ERROR"}>>) }

Select(cols, fk, parent_pk, tweaks) ==
  [kind |-> "select", table |-> "post", cols |-> cols, fk |-> fk, parent_pk |-> parent_pk,
   tweaks |-> tweaks, deps |-> Len(fk)]
Less(n)  == [column |-> "id", op |-> " < ", value |-> IntV(n)]
Keyed(sql)   == [key |-> <<sql>>, sql |-> sql]
Unkeyed(sql) == [key |-> <<>>, sql |-> sql]
Selects ==
  { Select(<<"id">>, <<>>, "id", <<Keyed(Less(3))>>),
    Select(<<>>, <<>>, "id", <<Unkeyed([limit |-> 1])>>),
    Select(<<>>, <<"author">>, "id", <<>>),
    Select(<<"author">>, <<"author">>, "boss", <<Keyed(Less(2))>>),
    Select(<<"author">>, <<"author">>, "boss", <<Keyed(Less(3)), Keyed(Less(2))>>),
    Select(<<"author">>, <<"author">>, "boss", <<Keyed(Less(3))>>),
    Select(<<>>, <<"author">>, "id", <<Unkeyed(Less(2))>>) }

Mutation(kind) == [kind |-> kind, table |-> "post", deps |-> 0]
Insert(rows, returns) == Mutation("insert") @@ [columns |-> <<"id", "author">>, static_rows |-> rows, returning |-> returns]
Update(sets, wheres) == Mutation("update") @@ [sets |-> sets, wheres |-> wheres, returning |-> <<>>]
Delete(wheres) == Mutation("delete") @@ [wheres |-> wheres, returning |-> <<"id">>]
Mutations ==
  { Insert(<<<<IntV(4), IntV(1)>>, <<IntV(5), IntV(2)>>>>, <<>>), Insert(<<<<IntV(3), IntV(1)>>>>, <<>>),
    Update(<<<<"author", IntV(2)>>>>, <<<<"author", IntV(1)>>, <<"id", IntV(2)>>>>),
    Update(<<<<"author", PgNull>>>>, <<<<"id", IntV(1)>>>>),
    Update(<<<<"author", IntV(3)>>>>, <<>>),
    Delete(<<<<"author", IntV(1)>>>>), Delete(<<>>) }

Batches == {[kind |-> "batch", table |-> "post", fk |-> "author", parent_pk |-> "id", greedy |-> g, deps |-> 1] : g \in BOOLEAN}
Unions  == {[kind |-> "union", deps |-> 1, discriminate |-> [v \in {IntV(i) : i \in 1..5} |-> IF v.v = 1 THEN "A" ELSE "B"]]}

MCCandidates == Sources \cup Selects \cup Mutations \cup Batches \cup Unions
=============================================================================
