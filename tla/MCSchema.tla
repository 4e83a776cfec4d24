------------------------------ MODULE MCSchema ------------------------------
(* Users and posts in a public schema, another table of posts in a private  *)
(* one, a view and a materialized view; each migration changes one thing.   *)
EXTENDS Schema

Attr(oid, num, name, type) ==
  [class_oid |-> oid, num |-> num, name |-> name, type_oid |-> type, is_not_null |-> num = 1, has_default |-> FALSE]
Class(oid, schema, name, kind) == [oid |-> oid, schema_oid |-> schema, name |-> name, kind |-> kind]
Key(kind, oid, nums) == [kind |-> kind, class_oid |-> oid, key_attrs |-> nums, foreign |-> 0, foreign_attrs |-> <<>>]
Ref(oid, nums, foreign, foreign_nums) ==
  [kind |-> "ForeignKey", class_oid |-> oid, key_attrs |-> nums, foreign |-> foreign, foreign_attrs |-> foreign_nums]

Base ==
  [namespaces |-> <<[oid |-> 1, name |-> "private"], [oid |-> 2, name |-> "public"]>>,
   classes |-> << Class(10, 1, <<"posts">>, "Table"), Class(20, 2, <<"post", "stats">>, "MaterializedView"),
                  Class(21, 2, <<"posts">>, "Table"), Class(22, 2, <<"recent", "posts">>, "View"),
                  Class(23, 2, <<"users">>, "Table") >>,
   attributes |-> << Attr(10, 1, <<"id">>, "uuid"), Attr(10, 2, <<"author">>, "int4"), Attr(20, 1, <<"n">>, "int8"),
                     Attr(21, 1, <<"id">>, "uuid"), Attr(21, 3, <<"author">>, "int4"), Attr(21, 4, <<"state">>, "state"),
                     Attr(22, 1, <<"id">>, "uuid"), Attr(23, 1, <<"id">>, "int4"), Attr(23, 2, <<"node", "id">>, "text") >>,
   constraints |-> << Key("PrimaryKey", 10, <<1>>), Ref(10, <<2>>, 23, <<1>>), Key("PrimaryKey", 21, <<1>>),
                      Ref(21, <<3>>, 23, <<1>>), Key("PrimaryKey", 23, <<1>>) >>,
   types |-> <<[oid |-> 30, schema_oid |-> 2, name |-> <<"state">>, is_enum |-> TRUE]>>,
   enums |-> <<[type_oid |-> 30, label |-> "draft"]>>,
   descriptions |-> <<>>]

Added(cat, query, rows) == [cat EXCEPT ![query] = @ \o rows]
Tagged(cat, oid, tag, values) ==
  Added(cat, "descriptions", <<[obj_oid |-> oid, obj_sub_id |-> 0, lines |-> <<[tag |-> tag, values |-> values]>>]>>)
Tags == { <<"omit", <<"connection">>>>, <<"omit", <<"filter", "order">>>>, <<"omit", <<"insert", "update", "delete">>>>,
          <<"omit", <<"all">>>>, <<"name", <<<<"article">>>>>>, <<"name", <<<<"user">>>>>>, <<"-", <<"delete", "other">>>>,
          <<"+", <<"create">>>>, <<"text", <<>>>> }

\* A new column with a reference; a key of the referencing column, alone and with
\* another; a second reference; one to a key that is not primary; no columns.
Editor == Added(Added(Base, "attributes", <<Attr(21, 5, <<"editor">>, "int4")>>), "constraints", <<Ref(21, <<5>>, 23, <<1>>)>>)
Profile == Added(Base, "constraints", <<Key("Unique", 21, <<3>>)>>)
Pair    == Added(Base, "constraints", <<Key("Unique", 21, <<3, 4>>)>>)
Again   == Added(Base, "constraints", <<Ref(21, <<3, 1>>, 23, <<1, 2>>)>>)
ByLogin == Added(Base, "constraints", <<Key("Unique", 23, <<2>>), Ref(21, <<4>>, 23, <<2>>)>>)
Empty   == Added(Base, "classes", <<Class(24, 2, <<"marker">>, "Table")>>)

MCMigrations ==
  {<<Base, next>> : next \in {Editor, Profile, Pair, Again, ByLogin, Empty}}
    \cup {<<Tagged(Base, oid, tag[1], tag[2])>> : oid \in {21, 22}, tag \in Tags}

Jwt == [jwt_secret |-> "secret"]
Only(names) == [exposure |-> [t |-> "Only", names |-> names]]
Both == [pg_schemas |-> {"public", "private"}, plugins |-> <<"p">>]
MCConfigurations ==
  { <<>>, <<Jwt>>, <<Jwt, Both>>, <<Jwt, [pg_schemas |-> {}]>>,
    <<Jwt, Both, Only({<<"public", <<"posts">>>>, <<"public", <<"users">>>>})>>,
    <<Jwt, Only({<<"public", <<"users">>>>}), Only({<<"public", <<"posts">>>>, <<"public", <<"recent", "posts">>>>})>>,
    <<Jwt, [exposure |-> [t |-> "ExtensionsOnly"], plugins |-> <<"q">>]>> }

Extension(types, queries, mutations) == [register_types |-> types, extend_query |-> queries, extend_mutation |-> mutations]
Thing == [do |-> "register_type", name |-> <<"thing">>, def |-> Def(<<Plain(<<"id">>, {<<"ID">>})>>, 0)]
Ask   == [do |-> "query_field", field |-> Plain(<<"ask">>, {<<"thing">>})]
Tell  == [do |-> "mutation_field", field |-> Plain(<<"tell">>, {<<"thing">>})]
Planned == [do |-> "plan_field", name |-> <<"ask">>]
\* Names that clash: with another extension's type, with a generated connection
\* and mutation type, with a root; from each of the hooks.
Named(name, word) == [Thing EXCEPT !.name = name, !.def.fields[1].name = <<word>>]
Clashing ==
  << Extension(<<Thing, Named(<<"post", "s", "Connection">>, "own"), Named(<<"create", "user", "Input">>, "own"),
                 Named(<<"Query">>, "own")>>, <<Ask>>, <<Tell, Named(<<"update", "user", "Payload">>, "own")>>),
     Extension(<<Named(<<"thing">>, "second")>>, <<Named(<<"post", "s", "Edge">>, "own")>>, <<Named(<<"post", "s", "Edge">>, "last")>>) >>
MCExtensions ==
  { <<>>, <<Extension(<<Thing>>, <<Ask, Planned>>, <<Tell>>), Extension(<<>>, <<[Ask EXCEPT !.field.name = <<"other">>]>>, <<>>)>>,
    <<Extension(<<Ask>>, <<>>, <<>>)>>, Clashing }

MCSingular == [posts |-> "post", users |-> "user", stats |-> "stat"]
=============================================================================
