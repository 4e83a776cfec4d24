------------------------------- MODULE Schema -------------------------------
(***************************************************************************)
(* From a configuration and a database catalog to a GraphQL schema: preset *)
(* merging (magna-config), introspection (magna-introspect), the resource  *)
(* registry (magna-dataplan), gather and build_schema (magna-build).  The  *)
(* catalog queries run on separate connections, so a migration may fall    *)
(* between them.                                                           *)
(*                                                                         *)
(* A name is a sequence of words: a table is <<"user", "profiles">>, its   *)
(* type <<"user", "profile">>, a root field <<"all", "user", "profile",    *)
(* "s">>.  Types and fields are two name spaces, so the case of a letter   *)
(* tells nothing apart.                                                    *)
(***************************************************************************)
EXTENDS Integers, Sequences, FiniteSets, SequencesExt

CONSTANTS
    Migrations,     \* the catalogs before and after a migration: a set of sequences of catalogs
    Configurations, \* sequences of preset overrides
    Extensions,     \* sequences of schema extensions
    Singular        \* a plural word |-> its singular

VARIABLES phase, catalogs, overrides, extensions,   \* where the build stands; its inputs
          preset,           \* the merged preset
          introspection,    \* IntrospectionResult
          registry,         \* PgResourceRegistry: class oid |-> resource
          gathered,         \* GatherOutput
          builder           \* SchemaBuilder, the two roots and the loaders

schemaVars == <<phase, catalogs, overrides, extensions, preset, introspection, registry, gathered, builder>>

RangeOf(s) == {s[k] : k \in DOMAIN s}
IsSequence(s) == s \in Seq(RangeOf(s))
\* The elements that are in S, in their order.
Keep(s, S) ==
  LET kept[k \in 0..Len(s)] == IF k = 0 THEN <<>> ELSE IF s[k] \in S THEN Append(kept[k - 1], s[k]) ELSE kept[k - 1]
  IN  kept[Len(s)]
\* A map after the pairs were inserted one after the other: of two with one key
\* the later one counts.
Insert(map, pairs) ==
  LET at(key) == {k \in DOMAIN pairs : pairs[k][1] = key}
  IN  [key \in DOMAIN map \cup {p[1] : p \in RangeOf(pairs)} |-> IF at(key) = {} THEN map[key] ELSE pairs[Max(at(key))][2]]

-----------------------------------------------------------------------------
(* Naming.                                                                 *)
singularize(w) == IF w \in DOMAIN Singular THEN Singular[w] ELSE w
to_type_name(table) == [table EXCEPT ![Len(table)] = singularize(@)]
pluralize(n) == Append(n, "s")

connection_type_name(t) == Append(pluralize(t), "Connection")
edge_type_name(t)       == Append(pluralize(t), "Edge")
order_by_type_name(t)   == Append(pluralize(t), "OrderBy")
filter_type_name(t)     == Append(t, "Filter")
condition_type_name(t)  == Append(t, "Condition")
patch_type_name(t)      == Append(t, "Patch")
input_type_name(verb, t)   == <<verb>> \o t \o <<"Input">>
payload_type_name(verb, t) == <<verb>> \o t \o <<"Payload">>
belongs_to_field_name(fk, table) == to_type_name(table) \o <<"By">> \o fk
has_many_field_name(fk, table)   == pluralize(to_type_name(table)) \o <<"By">> \o fk
all_query_field_name(t)   == <<"all">> \o pluralize(t)
by_pk_query_field_name(t) == t \o <<"By", "id">>
mutation_field_name(verb, t) == <<verb>> \o t

-----------------------------------------------------------------------------
(* Configuration.  A preset is a record, an override holds some of its     *)
(* fields.                                                                 *)
DefaultPreset ==
  [pg_schemas |-> {"public"}, exposure |-> [t |-> "All"], default_role |-> "anon", jwt_secret |-> "",
   jwks_url |-> <<>>, pool |-> "default", schema |-> "default", enable_subscriptions |-> TRUE,
   trusted_documents_only |-> FALSE, introspection_cache_ttl |-> 60, plugins |-> <<>>]

ASSUME ConfigurationsAssumption ==
  \A ovs \in Configurations :
    /\ IsSequence(ovs)
    /\ \A ov \in RangeOf(ovs) : "exposure" \in DOMAIN ov => ov.exposure.t \in {"All", "ExtensionsOnly", "Only"}

merge_one(p, ov) ==
  [f \in DOMAIN p |-> IF f \notin DOMAIN ov THEN p[f] ELSE IF f = "plugins" THEN p[f] \o ov[f] ELSE ov[f]]
merge(base, ovs) ==
  LET merged[k \in 0..Len(ovs)] == IF k = 0 THEN base ELSE merge_one(merged[k - 1], ovs[k])
  IN  merged[Len(ovs)]
validate(p) == p.pg_schemas # {} /\ (p.jwt_secret # "" \/ p.jwks_url # <<>>)

\* A bug: the schema of a listed relation is not compared.
mut_allows(exposure, schema, relation) ==
  exposure.t = "All" \/ (exposure.t = "Only" /\ \E n \in exposure.names : n[2] = relation)

\* Exposure::Only lists <<schema, relation>>.
allows(exposure, schema, relation) ==
  \/ exposure.t = "All"
  \/ exposure.t = "Only" /\ <<schema, relation>> \in exposure.names

-----------------------------------------------------------------------------
(* Introspection: each query returns the rows of the schemas asked for, in *)
(* the catalog as it is when the query runs.                               *)
Queries == {"namespaces", "classes", "attributes", "constraints", "types", "enums", "descriptions"}

\* What Postgres guarantees of its catalog.
SoundCatalog(cat) ==
  /\ \A q \in Queries : IsSequence(cat[q])
  /\ \A m, n \in RangeOf(cat["namespaces"]) : m.oid = n.oid => m = n
  /\ \A c, d \in RangeOf(cat["classes"]) : c.oid = d.oid => c = d
  /\ \A c \in RangeOf(cat["constraints"]) : c.kind = "ForeignKey" => c.foreign_attrs # <<>>
ASSUME MigrationsAssumption == \A cats \in Migrations : \A k \in DOMAIN cats : SoundCatalog(cats[k])

SchemaOids(cat, schemas) == {n.oid : n \in {m \in RangeOf(cat.namespaces) : m.name \in schemas}}
ClassOids(cat, schemas)  == {c.oid : c \in {d \in RangeOf(cat.classes) : d.schema_oid \in SchemaOids(cat, schemas)}}
TypeOids(cat, schemas)   == {t.oid : t \in {u \in RangeOf(cat.types) : u.schema_oid \in SchemaOids(cat, schemas)}}

fetch(query, cat, schemas) ==
  Keep(cat[query], {row \in RangeOf(cat[query]) :
    CASE query = "namespaces" -> row.name \in schemas
      [] query \in {"classes", "types"} -> row.schema_oid \in SchemaOids(cat, schemas)
      [] query = "attributes" -> row.class_oid \in ClassOids(cat, schemas) /\ row.num > 0
      [] query = "constraints" -> row.class_oid \in ClassOids(cat, schemas)
      [] query = "enums" -> row.type_oid \in TypeOids(cat, schemas)
      [] query = "descriptions" -> row.obj_oid \in ClassOids(cat, schemas) \cup TypeOids(cat, schemas)})

\* The names of the columns found for these numbers, in their order; a number for
\* which none was found is left out.
filter_map(nums, found) ==
  FoldLeft(LAMBDA names, n : IF found[n] = {} THEN names ELSE Append(names, (CHOOSE a \in found[n] : TRUE).name), <<>>, nums)
SchemaName(intro, oid) ==
  LET ns == {n \in RangeOf(intro.namespaces) : n.oid = oid}
  IN  IF ns = {} THEN <<>> ELSE <<(CHOOSE n \in ns : TRUE).name>>

-----------------------------------------------------------------------------
(* PgResourceRegistry.                                                     *)
\* It groups attributes and constraints by table first, and looks a number up among
\* the attributes of its table.
attr_map(intro, oid) == {a \in RangeOf(intro.attributes) : a.class_oid = oid}
constraint_map(intro, oid) == Keep(intro.constraints, {c \in RangeOf(intro.constraints) : c.class_oid = oid})
OwnColumns(attrs, nums) == filter_map(nums, [n \in RangeOf(nums) |-> {a \in attrs : a.num = n}])

extract_primary_key(constraints, attrs) ==
  LET pks == {k \in DOMAIN constraints : constraints[k].kind = "PrimaryKey"}
  IN  IF pks = {} THEN <<>> ELSE OwnColumns(attrs, constraints[Min(pks)].key_attrs)
extract_unique_constraints(constraints, attrs) ==
  LET cons == Keep(constraints, {c \in RangeOf(constraints) : c.kind = "Unique"})
  IN  [k \in DOMAIN cons |-> OwnColumns(attrs, cons[k].key_attrs)]

\* A bug: the referenced columns are looked up in the referencing table.
mut_extract_foreign_keys(constraints, local_attrs, all_attrs) ==
  LET cons == Keep(constraints, {c \in RangeOf(constraints) : c.kind = "ForeignKey"})
  IN  [k \in DOMAIN cons |-> [columns |-> OwnColumns(local_attrs, cons[k].key_attrs), foreign_class_oid |-> cons[k].foreign,
                              foreign_columns |-> OwnColumns(local_attrs, cons[k].foreign_attrs)]]

extract_foreign_keys(constraints, local_attrs, all_attrs) ==
  LET cons == Keep(constraints, {c \in RangeOf(constraints) : c.kind = "ForeignKey"})
      theirs(c) == [n \in RangeOf(c.foreign_attrs) |-> {a \in all_attrs : a.class_oid = c.foreign /\ a.num = n}]
  IN  [k \in DOMAIN cons |-> [columns |-> OwnColumns(local_attrs, cons[k].key_attrs), foreign_class_oid |-> cons[k].foreign,
                              foreign_columns |-> filter_map(cons[k].foreign_attrs, theirs(cons[k]))]]

from_introspection(intro) ==
  LET tables == {c \in RangeOf(intro.classes) : c.kind = "Table"}
      class(oid) == CHOOSE c \in tables : c.oid = oid
      cons(oid) == constraint_map(intro, oid)
      attrs(oid) == attr_map(intro, oid)
  IN  [oid \in {c.oid : c \in tables} |->
         [schema |-> IF SchemaName(intro, class(oid).schema_oid) = <<>> THEN "public" ELSE SchemaName(intro, class(oid).schema_oid)[1],
          table |-> class(oid).name,
          columns |-> {a.name : a \in attrs(oid)},
          primary_key |-> extract_primary_key(cons(oid), attrs(oid)),
          foreign_keys |-> extract_foreign_keys(cons(oid), attrs(oid), RangeOf(intro.attributes)),
          unique_constraints |-> extract_unique_constraints(cons(oid), attrs(oid))]]

-----------------------------------------------------------------------------
(* Gather.                                                                 *)
AllFlags  == {"CONNECTION", "SELECT_ONE", "INSERT", "UPDATE", "DELETE", "FILTER", "ORDER_BY"}
ViewFlags == {"CONNECTION", "SELECT_ONE", "FILTER", "ORDER_BY"}

\* The flags a name in a tag stands for; none if it is unknown.
flag_from_name(n) ==
  CASE n \in {"connection", "many"} -> {"CONNECTION"} [] n \in {"select", "selectOne"} -> {"SELECT_ONE"}
    [] n \in {"insert", "create"} -> {"INSERT"}       [] n = "update" -> {"UPDATE"}
    [] n = "delete" -> {"DELETE"}                     [] n = "filter" -> {"FILTER"}
    [] n \in {"order", "orderBy"} -> {"ORDER_BY"}     [] n = "all" -> AllFlags
    [] OTHER -> {}

\* A comment is a sequence of lines: @name, @omit, @behavior, or text.
parse_smart_tags(lines) ==
  LET values(tag) == FlattenSeq([k \in DOMAIN lines |-> IF lines[k].tag = tag THEN lines[k].values ELSE <<>>])
      names == values("name")
  IN  [name_override |-> IF names = <<>> THEN <<>> ELSE <<Last(names)>>,
       omit |-> RangeOf(values("omit")), behavior_add |-> RangeOf(values("+")), behavior_remove |-> RangeOf(values("-"))]

build_description_map(intro, oid) ==
  LET of == {d \in RangeOf(intro.descriptions) : d.obj_oid = oid /\ d.obj_sub_id = 0}
  IN  IF of = {} THEN <<>> ELSE (CHOOSE d \in of : TRUE).lines
TagsOf(intro, oid) == parse_smart_tags(build_description_map(intro, oid))

\* Types that are not known, enums among them, are strings.
pg_oid_to_gql_type(type) ==
  CASE type = "int4" -> <<"Int">> [] type \in {"int8", "numeric"} -> <<"BigInt">> [] type = "uuid" -> <<"UUID">>
    [] type \in {"jsonb", "_jsonb"} -> <<"JSON">> [] OTHER -> <<"String">>

\* Gather looks every column up among all attributes, by table and number.
ColumnNames(intro, oid, nums) ==
  filter_map(nums, [n \in RangeOf(nums) |-> {a \in RangeOf(intro.attributes) : a.class_oid = oid /\ a.num = n}])

\* Columns come sorted by name; nothing below depends on their order.
build_resource(intro, class) ==
  LET attrs == {a \in RangeOf(intro.attributes) : a.class_oid = class.oid /\ a.num > 0}
      tags  == TagsOf(intro, class.oid)
      class_constraints == Keep(intro.constraints, {c \in RangeOf(intro.constraints) : c.class_oid = class.oid})
      pk == SelectInSeq(class_constraints, LAMBDA c : c.kind = "PrimaryKey")
      uniques == Keep(class_constraints, {c \in RangeOf(class_constraints) : c.kind = "Unique"})
  IN  [name |-> IF tags.name_override = <<>> THEN to_type_name(class.name) ELSE tags.name_override[1],
       schema |-> IF SchemaName(intro, class.schema_oid) = <<>> THEN "public" ELSE SchemaName(intro, class.schema_oid)[1],
       table |-> class.name, kind |-> IF class.kind = "Table" THEN "Table" ELSE "View",
       columns |-> {[pg_name |-> a.name, gql_type |-> pg_oid_to_gql_type(a.type_oid)] : a \in attrs},
       primary_key |-> IF pk = 0 THEN <<>> ELSE ColumnNames(intro, class.oid, class_constraints[pk].key_attrs),
       unique_constraints |-> [k \in DOMAIN uniques |-> ColumnNames(intro, class.oid, uniques[k].key_attrs)],
       class_oid |-> class.oid]

\* A bug: a key that contains the columns of the reference counts as their own.
mut_is_unique(src, columns) ==
  \E key \in {src.primary_key} \cup RangeOf(src.unique_constraints) : key # <<>> /\ RangeOf(columns) \subseteq RangeOf(key)

is_unique(src, columns) ==
  \/ src.primary_key # <<>> /\ RangeOf(src.primary_key) = RangeOf(columns)
  \/ \E key \in RangeOf(src.unique_constraints) : RangeOf(key) = RangeOf(columns)

build_relations(intro, schema_oids, resources) ==
  LET class_schema(oid) == {c.schema_oid : c \in {d \in RangeOf(intro.classes) : d.oid = oid}}
      found(oid) == \E r \in RangeOf(resources) : r.class_oid = oid
      by_oid(oid) == CHOOSE r \in RangeOf(resources) : r.class_oid = oid
      kept == Keep(intro.constraints, {c \in RangeOf(intro.constraints) :
                /\ c.kind = "ForeignKey" /\ c.foreign_attrs # <<>>
                /\ \E s \in class_schema(c.class_oid), t \in class_schema(c.foreign) : {s, t} \subseteq schema_oids
                /\ found(c.class_oid) /\ found(c.foreign)})
  IN  [k \in DOMAIN kept |->
         LET columns == ColumnNames(intro, kept[k].class_oid, kept[k].key_attrs)
         IN  [source_resource |-> by_oid(kept[k].class_oid).name, source_columns |-> columns,
              target_resource |-> by_oid(kept[k].foreign).name,
              target_columns |-> ColumnNames(intro, kept[k].foreign, kept[k].foreign_attrs),
              is_unique |-> is_unique(by_oid(kept[k].class_oid), columns)]]

build_enums(intro, schema_oids) ==
  LET kept == Keep(intro.types, {t \in RangeOf(intro.types) : t.is_enum /\ t.schema_oid \in schema_oids})
  IN  [k \in DOMAIN kept |->
         [name |-> to_type_name(kept[k].name),
          values |-> {e.label : e \in {f \in RangeOf(intro.enums) : f.type_oid = kept[k].oid}}]]

Behavior(intro, r) ==
  LET tags == TagsOf(intro, r.class_oid)
      flags(names) == UNION {flag_from_name(n) : n \in names}
  IN  (((IF r.kind = "Table" THEN AllFlags ELSE ViewFlags) \ flags(tags.omit)) \cup flags(tags.behavior_add))
        \ flags(tags.behavior_remove)

gather_output(intro, p) ==
  LET schema_oids == {n.oid : n \in {m \in RangeOf(intro.namespaces) : m.name \in p.pg_schemas}}
      exposed == {c \in RangeOf(intro.classes) :
                    /\ c.kind \in {"Table", "View"} /\ c.schema_oid \in schema_oids
                    /\ allows(p.exposure, SchemaName(intro, c.schema_oid)[1], c.name)}
      classes == Keep(intro.classes, exposed)
      resources == [k \in DOMAIN classes |-> build_resource(intro, classes[k])]
  IN  [resources |-> resources, relations |-> build_relations(intro, schema_oids, resources), enums |-> build_enums(intro, schema_oids),
       behaviors |-> Insert(<<>>, [k \in DOMAIN resources |-> <<resources[k].name, Behavior(intro, resources[k])>>]),
       plugin_metadata |-> RangeOf(p.plugins)]

-----------------------------------------------------------------------------
(* build_schema.  A type is the list of its fields and the class it comes  *)
(* from (0 if none); a field refers to types, and a relation field reads a *)
(* column of the parent row and looks a loader up.                         *)
Field(name, refs, of) == [name |-> name, refs |-> refs, of |-> of, key |-> <<>>, loader |-> <<>>]
Def(fields, of) == [fields |-> fields, of |-> of]
\* Every part of a type comes from one of these classes.
From(def, oids) == def.of \in oids /\ \A f \in RangeOf(def.fields) : f.of \in oids
Inputs(r) == SetToSeq({Field(c.pg_name, {c.gql_type}, r.class_oid) : c \in r.columns})

\* async-graphql: a name registered twice keeps the later type; a field added
\* twice panics.
register(b, defs) == [b EXCEPT !.types = Insert(@, defs)]
Twice(fields) == \E i, j \in DOMAIN fields : i < j /\ fields[i].name = fields[j].name
root_fields(b, root, fields) ==
  [b EXCEPT ![root] = @ \o fields, !.panicked = @ \/ Twice(b[root] \o fields)]

Flags(r) == gathered.behaviors[r.name]
Having(flag) == Keep(gathered.resources, {r \in RangeOf(gathered.resources) : flag \in Flags(r)})
\* What is registered for each of some resources, one after the other.
Each(rs, defs(_)) == FlattenSeq([k \in DOMAIN rs |-> defs(rs[k])])
First(columns, default) == IF columns = <<>> THEN default ELSE columns[1]

belongs_to_field(rel, src, tgt) ==
  LET fk == First(rel.source_columns, <<"id">>)
  IN  [Field(belongs_to_field_name(fk, tgt.table), {tgt.name}, tgt.class_oid)
         EXCEPT !.key = fk, !.loader = <<"belongs_to", tgt.name, First(tgt.primary_key, <<>>)>>]
has_many_field(rel, src, tgt) ==
  LET fk == First(rel.source_columns, <<"id">>)
  IN  [Field(has_many_field_name(fk, src.table), {connection_type_name(src.name)}, src.class_oid)
         EXCEPT !.key = First(tgt.primary_key, <<>>), !.loader = <<"has_many", src.name, fk>>]

ByName(name) == SelectInSeq(gathered.resources, LAMBDA r : r.name = name)
\* The two ends of a relation are looked up by name.
Ends(rel) == [src |-> gathered.resources[ByName(rel.source_resource)], tgt |-> gathered.resources[ByName(rel.target_resource)]]
RelationFields ==
  FlattenSeq([k \in DOMAIN gathered.relations |->
    LET rel == gathered.relations[k]
        e == Ends(rel)
    IN  <<<<e.src.name, belongs_to_field(rel, e.src, e.tgt)>>>>
          \o IF rel.is_unique THEN <<>> ELSE <<<<e.tgt.name, has_many_field(rel, e.src, e.tgt)>>>>])
Loaders ==
  LET loader(oid, column) == [oid |-> oid, column |-> column]
  IN  Insert(<<>>, FlattenSeq([k \in DOMAIN gathered.relations |->
        LET rel == gathered.relations[k]
            e == Ends(rel)
            fk == First(rel.source_columns, <<>>)
            pk == First(e.tgt.primary_key, <<>>)
        IN  (IF rel.is_unique THEN <<>> ELSE <<<<<<"has_many", e.src.name, fk>>, loader(e.src.class_oid, fk)>>>>)
              \o <<<<<<"belongs_to", e.tgt.name, pk>>, loader(e.tgt.class_oid, pk)>>>>]))

\* Of two resources with one name the first one takes the relation fields.
build_object_type(k) ==
  LET r == gathered.resources[k]
      mine == IF ByName(r.name) = k THEN Keep(RelationFields, {f \in RangeOf(RelationFields) : f[1] = r.name}) ELSE <<>>
      node == r.primary_key # <<>> /\ ~\E c \in r.columns : c.pg_name = <<"node", "id">>
  IN  Def(Inputs(r) \o [j \in DOMAIN mine |-> mine[j][2]]
            \o IF node THEN <<Field(<<"node", "id">>, {<<"ID">>}, r.class_oid)>> ELSE <<>>, r.class_oid)

NoBuilder == [types |-> <<>>, query |-> <<>>, mutation |-> <<>>, loaders |-> <<>>, plans |-> {}, panicked |-> FALSE]
ScalarTypes == {"UUID", "DateTime", "Date", "BigInt", "JSON", "Cursor"}
Plain(name, refs) == Field(name, refs, 0)
\* A scalar, or an enum with its labels: it refers to nothing.
Leaf(labels) == Def(<<Plain(<<>>, {})>> \o SetToSeq({Plain(<<l>>, {}) : l \in labels}), 0)

register_scalars(b) == register(b, SetToSeq({<<<<s>>, Leaf({})>> : s \in ScalarTypes}))
register_enums(b) ==
  register(b, [k \in DOMAIN gathered.enums |-> <<gathered.enums[k].name, Leaf(gathered.enums[k].values)>>])
object_types ==
  LET objects == [k \in DOMAIN gathered.resources |-> <<gathered.resources[k].name, build_object_type(k)>>]
  IN  [register(register_enums(register_scalars(NoBuilder)), objects) EXCEPT
         !.panicked = \E k \in DOMAIN objects : Twice(objects[k][2].fields), !.loaders = Loaders]

register_node_interface(b) ==
  root_fields(register(b, <<<<<<"Node">>, Def(<<Plain(<<"node", "id">>, {<<"ID">>})>>, 0)>>>>), "query",
              <<Plain(<<"_placeholder">>, {<<"String">>}), Plain(<<"node">>, {<<"Node">>})>>)
register_page_info(b) ==
  register(b, <<<<<<"PageInfo">>, Def(<<Plain(<<"end", "cursor">>, {<<"Boolean">>, <<"Cursor">>})>>, 0)>>>>)

\* A bug: the edge type is registered under the name of the connection.
mut_register_connection_types(r) ==
  << <<connection_type_name(r.name), Def(<<Field(<<"node">>, {r.name, <<"String">>}, r.class_oid)>>, r.class_oid)>>,
     <<connection_type_name(r.name),
       Def(<<Field(<<"nodes">>, {r.name, edge_type_name(r.name), <<"Int">>, <<"PageInfo">>}, r.class_oid)>>, r.class_oid)>> >>

\* The types that are registered for one resource.
register_connection_types(r) ==
  << <<edge_type_name(r.name), Def(<<Field(<<"node">>, {r.name, <<"String">>}, r.class_oid)>>, r.class_oid)>>,
     <<connection_type_name(r.name),
       Def(<<Field(<<"nodes">>, {r.name, edge_type_name(r.name), <<"Int">>, <<"PageInfo">>}, r.class_oid)>>, r.class_oid)>> >>
register_filter_types(r) ==
  << <<filter_type_name(r.name),
       Def(Inputs(r) \o <<Field(<<"and">>, {filter_type_name(r.name), <<"Boolean">>}, r.class_oid)>>, r.class_oid)>> >>
register_order_by_types(r) == <<<<order_by_type_name(r.name), Def(<<Field(<<"NATURAL">>, {}, r.class_oid)>>, r.class_oid)>>>>
register_condition_types(r) == <<<<condition_type_name(r.name), Def(Inputs(r), r.class_oid)>>>>

types_of_resources ==
  register(register_page_info(register_node_interface(builder)),
    Each(Having("CONNECTION"), register_connection_types) \o Each(Having("FILTER"), register_filter_types)
      \o Each(Having("ORDER_BY"), register_order_by_types) \o Each(gathered.resources, register_condition_types))

build_allx_resolver(r) ==
  Field(all_query_field_name(r.name),
        {connection_type_name(r.name), filter_type_name(r.name), order_by_type_name(r.name), condition_type_name(r.name),
         <<"Int">>, <<"Cursor">>}, r.class_oid)
build_by_pk_resolver(r) ==
  Field(by_pk_query_field_name(r.name),
        {r.name} \cup {c.gql_type : c \in {d \in r.columns : d.pg_name \in RangeOf(r.primary_key)}}, r.class_oid)
query_fields ==
  LET fields(r) == (IF "CONNECTION" \in Flags(r) THEN <<build_allx_resolver(r)>> ELSE <<>>)
                     \o IF "SELECT_ONE" \in Flags(r) THEN <<build_by_pk_resolver(r)>> ELSE <<>>
  IN  root_fields(builder, "query", Each(gathered.resources, fields))

Verbs == <<<<"create", "INSERT">>, <<"update", "UPDATE">>, <<"delete", "DELETE">>>>
\* The input and payload types of one mutation.
register_mutation_types(r, verb) ==
  LET node == Field(<<"node", "id">>, {<<"ID">>}, r.class_oid)
      patch == Field(<<"patch">>, {patch_type_name(r.name)}, r.class_oid)
      input == CASE verb = "create" -> Inputs(r) [] verb = "update" -> <<node, patch>> [] verb = "delete" -> <<node>>
  IN  << <<input_type_name(verb, r.name), Def(input, r.class_oid)>>,
         <<payload_type_name(verb, r.name), Def(<<Field(r.name, {r.name}, r.class_oid),
                                                  Field(<<"query">>, {<<"Query">>}, r.class_oid)>>, r.class_oid)>> >>
      \o IF verb = "update" THEN <<<<patch_type_name(r.name), Def(Inputs(r), r.class_oid)>>>> ELSE <<>>
mutation_resolver(r, verb) ==
  Field(mutation_field_name(verb, r.name), {payload_type_name(verb, r.name), input_type_name(verb, r.name)}, r.class_oid)

has_mutations == \E n \in DOMAIN gathered.behaviors : gathered.behaviors[n] \cap {"INSERT", "UPDATE", "DELETE"} # {}
mutation_root ==
  LET on(r) == Keep(Verbs, {v \in RangeOf(Verbs) : v[2] \in Flags(r)})
      types(r) == FlattenSeq([j \in DOMAIN on(r) |-> register_mutation_types(r, on(r)[j][1])])
      fields(r) == [j \in DOMAIN on(r) |-> mutation_resolver(r, on(r)[j][1])]
  IN  root_fields(register(builder, Each(gathered.resources, types)), "mutation", Each(gathered.resources, fields))

\* An extension is, for each of its hooks, the calls it makes on its context.
RootOf == [query_field |-> "query", mutation_field |-> "mutation"]
PhaseOf == [query_field |-> "extend_query", mutation_field |-> "extend_mutation"]

Hooks == {"register_types", "extend_query", "extend_mutation"}
\* What an extension adds comes from no relation.
ASSUME ExtensionsAssumption ==
  \A exts \in Extensions :
    /\ IsSequence(exts)
    /\ \A e \in RangeOf(exts), hook \in Hooks :
         /\ IsSequence(e[hook])
         /\ \A call \in RangeOf(e[hook]) :
              \/ call.do = "register_type" /\ From(call.def, {0})
              \/ call.do = "plan_field"
              \/ call.do \in {"query_field", "mutation_field"} /\ call.field.of = 0

\* A bug: a type whose name is taken is not registered.
mut_context_call(b, hook, call) ==
  CASE call.do = "register_type" -> IF call.name \in DOMAIN b.types THEN b ELSE register(b, <<<<call.name, call.def>>>>)
    [] call.do = "plan_field" -> [b EXCEPT !.plans = @ \cup {call.name}]
    [] call.do \in {"query_field", "mutation_field"} ->
         IF hook = PhaseOf[call.do] THEN root_fields(b, RootOf[call.do], <<call.field>>) ELSE [b EXCEPT !.panicked = TRUE]

context_call(b, hook, call) ==
  CASE call.do = "register_type" -> register(b, <<<<call.name, call.def>>>>)
    [] call.do = "plan_field" -> [b EXCEPT !.plans = @ \cup {call.name}]
    [] call.do \in {"query_field", "mutation_field"} ->
         IF hook = PhaseOf[call.do] THEN root_fields(b, RootOf[call.do], <<call.field>>) ELSE [b EXCEPT !.panicked = TRUE]
\* The calls that all the extensions make from one hook, in order.
HookCalls(hook) == FlattenSeq([k \in DOMAIN extensions |-> extensions[k][hook]])
run_extension_phase(b, hook) ==
  LET calls == HookCalls(hook)
      run[k \in 0..Len(calls)] == IF k = 0 THEN b ELSE context_call(run[k - 1], hook, calls[k])
  IN  run[Len(calls)]

\* async-graphql: every type referred to exists, and every object has a field.
Builtin == {<<"String">>, <<"Int">>, <<"Float">>, <<"Boolean">>, <<"ID">>}
Finishes(types) ==
  \A t \in DOMAIN types :
    types[t].fields # <<>> /\ \A f \in RangeOf(types[t].fields) : f.refs \subseteq DOMAIN types \cup Builtin

-----------------------------------------------------------------------------
SchemaInit ==
  /\ phase = "configure"
  /\ catalogs \in Migrations /\ overrides \in Configurations /\ extensions \in Extensions
  /\ preset = DefaultPreset
  /\ introspection = <<>> /\ registry = <<>> /\ gathered = <<>> /\ builder = NoBuilder

inputs == <<catalogs, overrides, extensions>>

Configure ==
  /\ phase = "configure"
  /\ preset' = merge(DefaultPreset, overrides)
  /\ phase' = IF validate(preset') THEN "introspect" ELSE "rejected"
  /\ UNCHANGED <<introspection, registry, gathered, builder, inputs>>

introspect ==
  /\ phase = "introspect"
  /\ \E at \in [Queries -> DOMAIN catalogs] :
       introspection' = [q \in Queries |-> fetch(q, catalogs[at[q]], preset.pg_schemas)]
  /\ phase' = "gather"
  /\ UNCHANGED <<preset, registry, gathered, builder, inputs>>

gather ==
  /\ phase = "gather"
  /\ registry' = from_introspection(introspection)
  /\ gathered' = gather_output(introspection, preset)
  /\ phase' = "object_types"
  /\ UNCHANGED <<preset, introspection, builder, inputs>>

\* One pass of build_schema.
Pass(from, to, result) ==
  /\ phase = from
  /\ builder' = result
  /\ phase' = IF result.panicked THEN "panicked" ELSE to
  /\ UNCHANGED <<preset, introspection, registry, gathered, inputs>>

BuildObjects     == Pass("object_types", "register_types", object_types)
RegisterTypes    == Pass("register_types", "query", run_extension_phase(types_of_resources, "register_types"))
BuildQuery       == Pass("query", IF has_mutations THEN "mutation" ELSE "finish", run_extension_phase(query_fields, "extend_query"))
BuildMutation    == Pass("mutation", "finish", run_extension_phase(mutation_root, "extend_mutation"))

finish ==
  LET roots == register(builder,
                 (IF has_mutations THEN <<<<<<"Mutation">>, Def(builder.mutation, 0)>>>> ELSE <<>>)
                   \o <<<<<<"Query">>, Def(builder.query, 0)>>>>)
  IN  /\ phase = "finish"
      /\ builder' = roots
      /\ phase' = IF Finishes(roots.types) THEN "built" ELSE "failed"
      /\ UNCHANGED <<preset, introspection, registry, gathered, inputs>>

SchemaNext ==
  Configure \/ introspect \/ gather \/ BuildObjects \/ RegisterTypes \/ BuildQuery \/ BuildMutation \/ finish

SchemaSpec == SchemaInit /\ [][SchemaNext]_schemaVars

-----------------------------------------------------------------------------
\* What the configuration says: of the overrides that set a field, the last.
Setting(field) ==
  LET given == {k \in DOMAIN overrides : field \in DOMAIN overrides[k]}
  IN  IF given = {} THEN DefaultPreset[field] ELSE overrides[Max(given)][field]
Published(oid) ==
  \E c \in RangeOf(introspection.classes), n \in RangeOf(introspection.namespaces) :
    /\ c.oid = oid /\ n.oid = c.schema_oid /\ c.kind \in {"Table", "View"}
    /\ n.name \in Setting("pg_schemas")
    /\ CASE Setting("exposure").t = "All" -> TRUE
         [] Setting("exposure").t = "ExtensionsOnly" -> FALSE
         [] Setting("exposure").t = "Only" -> <<n.name, c.name>> \in Setting("exposure").names

\* A relation that the configuration does not publish leaves no trace in the
\* schema, at any moment of the build: no type, no root field, no relation
\* field of another type and no data loader comes from it (Exposure: "a relation
\* filtered out gets no object type, no query field, and no relation field
\* pointing at it from anywhere else"), and each one that is published has its type.
HiddenUnreachable ==
  LET fields == (UNION {RangeOf(builder.types[t].fields) : t \in DOMAIN builder.types})
                  \cup RangeOf(builder.query) \cup RangeOf(builder.mutation)
      origins == {builder.types[t].of : t \in DOMAIN builder.types} \cup {f.of : f \in fields}
                   \cup {builder.loaders[l].oid : l \in DOMAIN builder.loaders}
  IN  /\ \A oid \in origins \ {0} : Published(oid)
      /\ phase = "built" => \A r \in RangeOf(introspection.classes) :
                              Published(r.oid) => \E x \in RangeOf(gathered.resources) : x.class_oid = r.oid /\ x.name \in DOMAIN builder.types

References == {c \in RangeOf(introspection.constraints) : c.kind = "ForeignKey"}
ResourceOf(oid) == CHOOSE r \in RangeOf(gathered.resources) : r.class_oid = oid
SameName == \E i, j \in DOMAIN gathered.resources : i # j /\ gathered.resources[i].name = gathered.resources[j].name
\* All the columns of the reference were seen: no migration between the queries.
Whole(c) ==
  \A n \in RangeOf(c.key_attrs) : \E a \in RangeOf(introspection.attributes) : a.class_oid = c.class_oid /\ a.num = n

\* In a schema that was built, a reference of one column to the primary key of
\* another published table can be followed in both directions: the referencing
\* type has a field whose loader reads the referenced table by its key, and the
\* referenced type one whose loader reads the referencing table by that column,
\* the latter exactly if the column is not unique by itself; and no relation
\* field lacks its loader (build_relations, the loader keys of build_schema and
\* the resolvers that look them up).
RelationsJoin ==
  (phase = "built" /\ ~SameName /\ \A c \in References : Whole(c)) =>
    LET fieldsOf(oid) == RangeOf(builder.types[ResourceOf(oid).name].fields)
        loads(f, oid, column) == f.loader \in DOMAIN builder.loaders /\ builder.loaders[f.loader] = [oid |-> oid, column |-> column]
        pks(oid) == {u \in RangeOf(introspection.constraints) : u.kind = "PrimaryKey" /\ u.class_oid = oid}
        key(oid) == IF pks(oid) = {} THEN <<>> ELSE ColumnNames(introspection, oid, (CHOOSE u \in pks(oid) : TRUE).key_attrs)
        alone(c) == \E u \in RangeOf(introspection.constraints) :
                      u.kind \in {"PrimaryKey", "Unique"} /\ u.class_oid = c.class_oid /\ RangeOf(u.key_attrs) = RangeOf(c.key_attrs)
    IN  /\ \A r \in RangeOf(gathered.resources) : \A f \in fieldsOf(r.class_oid) :
             f.loader # <<>> => f.loader \in DOMAIN builder.loaders
        /\ \A c \in References :
             (Published(c.class_oid) /\ Published(c.foreign) /\ Len(c.key_attrs) = 1
                /\ ColumnNames(introspection, c.foreign, c.foreign_attrs) = key(c.foreign) /\ key(c.foreign) # <<>>) =>
               LET fk == ColumnNames(introspection, c.class_oid, c.key_attrs)[1]
                   pk == key(c.foreign)[1]
               IN  /\ \E f \in fieldsOf(c.class_oid) : f.of = c.foreign /\ f.key = fk /\ loads(f, c.foreign, pk)
                   /\ alone(c) \/ \E f \in fieldsOf(c.foreign) : f.of = c.class_oid /\ f.key = pk /\ loads(f, c.class_oid, fk)

\* What may stop a build: two relations with one type name, two references that
\* give one field name, a tag that takes away a type others refer to, a relation
\* of which no column was seen, an extension that calls the wrong method.
Causes ==
  LET rel(k) == gathered.relations[k]
      start(k) == First(rel(k).source_columns, <<>>)
      tableOf(name) == to_type_name(gathered.resources[ByName(name)].table)
  IN  \/ SameName
      \/ \E i, j \in DOMAIN gathered.relations :
           /\ i # j /\ start(i) = start(j)
           /\ \/ rel(i).source_resource = rel(j).source_resource /\ tableOf(rel(i).target_resource) = tableOf(rel(j).target_resource)
              \/ rel(i).target_resource = rel(j).target_resource /\ tableOf(rel(i).source_resource) = tableOf(rel(j).source_resource)
      \/ \E r \in RangeOf(gathered.resources) : "CONNECTION" \in Flags(r) /\ ~{"FILTER", "ORDER_BY"} \subseteq Flags(r)
      \/ \E k \in DOMAIN gathered.relations : ~rel(k).is_unique /\ "CONNECTION" \notin gathered.behaviors[rel(k).source_resource]
      \/ \E r \in RangeOf(gathered.resources) : r.columns = {}
      \/ \E e \in RangeOf(extensions), hook \in Hooks :
           \E call \in RangeOf(e[hook]) : call.do \in DOMAIN PhaseOf /\ PhaseOf[call.do] # hook

\* build_schema panics or fails for one of the known causes only: whatever the
\* tags, the exposed subset and the moments at which the catalog queries ran, no
\* pass refers to a type that another pass left out.
BuildSucceeds == phase \in {"failed", "panicked"} => Causes

\* Two independent readings of the catalog agree: for every table that gather
\* publishes, the registry has the same key, the same unique constraints and, as
\* far as the referenced tables are published, the same references (gather does
\* not consult the registry it is given).
RegistryAgrees ==
  phase \notin {"configure", "rejected", "introspect", "gather"} =>
    \A r \in RangeOf(gathered.resources) : r.kind = "Table" =>
      LET g == registry[r.class_oid]
          fks == {k \in DOMAIN g.foreign_keys : \E x \in RangeOf(gathered.resources) : x.class_oid = g.foreign_keys[k].foreign_class_oid}
      IN  /\ g.primary_key = r.primary_key /\ RangeOf(g.unique_constraints) = RangeOf(r.unique_constraints)
          /\ g.columns = {c.pg_name : c \in r.columns} /\ g.schema = r.schema
          /\ ~SameName =>
               {<<x.source_columns, x.target_resource, x.target_columns>> :
                  x \in {y \in RangeOf(gathered.relations) : y.source_resource = r.name}}
               = {<<g.foreign_keys[k].columns, ResourceOf(g.foreign_keys[k].foreign_class_oid).name, g.foreign_keys[k].foreign_columns>> : k \in fks}

\* The hooks that a build runs: extend_mutation only if a published relation can
\* be written to.
HooksRun ==
  {h \in Hooks : h = "extend_mutation" =>
                   \E r \in RangeOf(gathered.resources) : Flags(r) \cap {"INSERT", "UPDATE", "DELETE"} # {}}
HookNumber == [register_types |-> 1, extend_query |-> 2, extend_mutation |-> 3]
\* The type of that name belongs to a mutation of a published relation.
IsMutationType(name) ==
  \E r \in RangeOf(gathered.resources), v \in RangeOf(Verbs) :
    v[2] \in Flags(r) /\ \E p \in RangeOf(register_mutation_types(r, v[1])) : p[1] = name
\* The type that the k-th call from a hook registers gives way to a later one of
\* its name: from a further call, from the mutations or a root.
Replaced(hook, k, hooks) ==
  LET name == HookCalls(hook)[k].name
  IN  \/ \E h \in hooks : \E j \in DOMAIN HookCalls(h) :
           /\ HookNumber[hook] < HookNumber[h] \/ (h = hook /\ k < j)
           /\ HookCalls(h)[j].do = "register_type" /\ HookCalls(h)[j].name = name
      \/ hook # "extend_mutation" /\ IsMutationType(name)
      \/ name \in {<<"Query">>, <<"Mutation">>}
DefsKept(b, hooks) ==
  \A hook \in hooks : \A k \in DOMAIN HookCalls(hook) :
    LET call == HookCalls(hook)[k]
    IN  call.do = "register_type" =>
          call.name \in DOMAIN b.types /\ (b.types[call.name] = call.def \/ Replaced(hook, k, hooks))

\* A schema that was built has what its extensions added in the hooks that ran:
\* every field, and every type with the definition the extension gave it, also
\* in place of a generated type of that name; only a registration that comes
\* later in the build replaces it (register_type, run_extension_phase).  The
\* exception contradicts the comment of Exposure (preset.rs), which says that the
\* fields of extensions are "unaffected by every variant", ExtensionsOnly too:
\* extend_mutation does not run, and its fields are lost without an error, where
\* no published relation can be written to.
ExtensionsKept ==
  phase = "built" =>
    /\ DefsKept(builder, HooksRun)
    /\ \A e \in RangeOf(extensions), hook \in HooksRun :
         \A call \in RangeOf(e[hook]) :
           CASE call.do = "register_type" -> TRUE
             [] call.do = "plan_field" -> call.name \in builder.plans
             [] call.do = "query_field" -> call.field \in RangeOf(builder.types[<<"Query">>].fields)
             [] call.do = "mutation_field" -> call.field \in RangeOf(builder.types[<<"Mutation">>].fields)
-----------------------------------------------------------------------------
(* The inductive invariant.  Nothing that was gathered changes, so what    *)
(* gather makes of the catalog can be read off the state later on.         *)
Gathered == {"object_types", "register_types", "query", "mutation", "finish", "built", "failed", "panicked"}
ClassesGathered == {0} \cup {r.class_oid : r \in RangeOf(gathered.resources)}

IsBuilder(b) ==
  /\ b = [types |-> b.types, query |-> b.query, mutation |-> b.mutation,
          loaders |-> b.loaders, plans |-> b.plans, panicked |-> b.panicked]
  /\ IsSequence(b.query) /\ IsSequence(b.mutation) /\ b.panicked \in BOOLEAN
ComesFrom(b, oids) ==
  /\ \A t \in DOMAIN b.types : From(b.types[t], oids)
  /\ \A f \in RangeOf(b.query) \cup RangeOf(b.mutation) : f.of \in oids
  /\ \A l \in DOMAIN b.loaders : b.loaders[l].oid \in oids
\* What a call of an extension from one of its hooks leaves in the builder.
Heard(b, hook, call) ==
  CASE call.do = "register_type" -> call.name \in DOMAIN b.types
    [] call.do = "plan_field" -> call.name \in b.plans
    [] call.do = "query_field" -> hook = "extend_query" /\ call.field \in RangeOf(b.query)
    [] call.do = "mutation_field" -> hook = "extend_mutation" /\ call.field \in RangeOf(b.mutation)
AllHeard(hook) == \A e \in RangeOf(extensions) : \A call \in RangeOf(e[hook]) : Heard(builder, hook, call)

PhaseKnown == phase \in {"configure", "rejected", "introspect", "gather"} \cup Gathered
InputsKept == catalogs \in Migrations /\ overrides \in Configurations /\ extensions \in Extensions
Configured ==
  phase # "configure" => preset["pg_schemas"] = Setting("pg_schemas") /\ preset["exposure"] = Setting("exposure")
CatalogRead ==
  phase \in Gathered \cup {"gather"} =>
    SoundCatalog(introspection) /\ \A a \in RangeOf(introspection["attributes"]) : a.num > 0
GatheredNow == phase \in Gathered => registry = from_introspection(introspection) /\ gathered = gather_output(introspection, preset)
BuilderClean ==
  /\ IsBuilder(builder)
  /\ phase \notin Gathered => builder = NoBuilder
  /\ phase \in Gathered => ComesFrom(builder, ClassesGathered)
TypesNamed ==
  phase \in {"register_types", "query", "mutation", "finish", "built"} =>
    \A r \in RangeOf(gathered.resources) : r.name \in DOMAIN builder.types
CallsHeard ==
  /\ phase \in {"query", "mutation", "finish", "built"} => AllHeard("register_types")
  /\ phase \in {"mutation", "finish", "built"} => AllHeard("extend_query")
  /\ phase \in {"finish", "built"} /\ has_mutations => AllHeard("extend_mutation")
\* ... and of the types they registered the last one of a name counts.
HooksDone ==
  CASE phase = "query" -> {"register_types"} [] phase = "mutation" -> {"register_types", "extend_query"}
    [] phase \in {"finish", "built"} -> HooksRun [] OTHER -> {}
TypesKept == DefsKept(builder, HooksDone) /\ (phase = "mutation" => has_mutations)
RootsRegistered ==
  phase = "built" => /\ <<"Query">> \in DOMAIN builder.types /\ builder.types[<<"Query">>].fields = builder.query
                     /\ has_mutations => builder.types[<<"Mutation">>].fields = builder.mutation
SchemaInv ==
  /\ PhaseKnown /\ InputsKept /\ Configured /\ CatalogRead /\ GatheredNow
  /\ BuilderClean /\ TypesNamed /\ CallsHeard /\ TypesKept /\ RootsRegistered
=============================================================================
