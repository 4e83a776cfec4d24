---------------------------- MODULE MCResolvers ----------------------------
(* Tables with an integer key, a UUID key, and a composite key of an integer *)
(* and a text that may hold the separators of a node id; a view with a       *)
(* column "id" and one without.                                              *)
EXTENDS Resolvers

Post   == [name |-> "Post", primary_key |-> <<"id">>, type |-> [id |-> "INT", rank |-> "INT"]]
Doc    == [name |-> "Doc", primary_key |-> <<"id">>, type |-> [id |-> "UUID", title |-> "TEXT"]]
Member == [name |-> "Member", primary_key |-> <<"id", "org">>, type |-> [id |-> "INT", org |-> "TEXT", rank |-> "INT"]]
Top    == [name |-> "Top", primary_key |-> <<>>, type |-> [id |-> "INT", rank |-> "INT"]]
Stat   == [name |-> "Stat", primary_key |-> <<>>, type |-> [rank |-> "INT"]]

MCResources == {Post, Doc, Member, Top, Stat}
MCMembers   == {Member}

\* Texts that a node id splits or trims, and one that reads as a UUID.
Orgs == {<<"a">>, <<"a", ",", "b">>, <<"a", "=", "b">>, <<" ", "a">>}
MCRows(r) ==
  CASE r = Post   -> {[id |-> IntV(i), rank |-> IntV(k)] : i \in 1..4, k \in 1..2}
    [] r = Doc    -> {[id |-> UuidV(i), title |-> Null] : i \in 1..3}
    [] r = Member -> {[id |-> IntV(1), org |-> TextV(o), rank |-> IntV(1)] : o \in Orgs}
                     \cup {[id |-> IntV(2), org |-> TextV(uuid_text(1)), rank |-> Null]}
    [] r = Top    -> {[id |-> IntV(i), rank |-> IntV(k)] : i, k \in 1..2}
    [] r = Stat   -> {[rank |-> IntV(k)] : k \in 1..2}

Number(n) == [kind |-> "Int", v |-> n]
String(s) == [kind |-> "String", v |-> s]
MCInputs(r) ==
  CASE r = Post -> {<<>>, [rank |-> Number(2)], [id |-> Number(3), rank |-> [kind |-> "Float", v |-> 1]],
                    [id |-> Number(2)], [rank |-> String(<<"x">>)], [rank |-> [kind |-> "Null", v |-> 0]],
                    [rank |-> [kind |-> "Boolean", v |-> TRUE]], [rank |-> [kind |-> "List", v |-> <<Number(1)>>]]}
    [] r = Doc  -> {[title |-> String(<<"t">>)], [id |-> String(<<"UUID", "2">>)], [id |-> String(<<"t">>)],
                    [title |-> [kind |-> "Null", v |-> 0]]}
    [] OTHER    -> {[rank |-> Number(1)], [id |-> Number(1), org |-> String(<<"b">>)], [org |-> String(<<"a">>)],
                    [id |-> Number(1), org |-> String(<<"UUID", "1">>)]}

\* Page sizes around the edges, cursors that decode and one that does not.
Sizes == {[NoArgs EXCEPT !.first = <<n>>] : n \in {-2, -1, 0, 1, 2}}
         \cup {[NoArgs EXCEPT !.last = <<n>>] : n \in {0, 1, 2}}
         \cup {NoArgs, [NoArgs EXCEPT !.first = <<1>>, !.last = <<2>>]}
Cursors(r) ==
  {None, <<[raw |-> "?"]>>}
  \cup {<<[base64 |-> [id |-> pg_value_str(IF r = Doc THEN UuidV(i) ELSE IntV(i))]]>> : i \in 1..3}
Paged(r) == UNION {{[a EXCEPT !.after = c], [a EXCEPT !.before = c]} : a \in Sizes, c \in Cursors(r)}
Extras == {[NoArgs EXCEPT !.condition = <<<<"rank", IntV(1)>>>>],
           [NoArgs EXCEPT !.filter = <<[column |-> "rank", op |-> " <= ", value |-> IntV(1)],
                                       [column |-> "id", op |-> " <> ", value |-> IntV(2)]>>],
           [NoArgs EXCEPT !.filter = <<[column |-> "id", op |-> " = ANY(",
                                        value |-> [type |-> "Array", v |-> <<IntV(1), IntV(3)>>]]>>],
           [NoArgs EXCEPT !.order_by = <<[column |-> "rank", asc |-> FALSE]>>],
           [NoArgs EXCEPT !.order_by = <<[column |-> "rank", asc |-> FALSE], [column |-> "id", asc |-> TRUE]>>]}
Counted == {[NoArgs EXCEPT !.first = <<n>>, !.need_total_count = TRUE] : n \in 1..2}
MCCalls(r) ==
  Counted \cup (IF r = Member THEN {} ELSE Paged(r))
  \cup (IF r \in {Doc, Member} THEN {}
        ELSE {[e EXCEPT !.first = a.first, !.last = a.last, !.after = a.after] :
                e \in Extras, a \in {x \in Paged(r) : x.before = None /\ x.after \in {None, <<[base64 |-> [id |-> <<"1">>]]>>}}})
=============================================================================
