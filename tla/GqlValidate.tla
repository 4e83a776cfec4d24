---------------------------- MODULE GqlValidate ----------------------------
(***************************************************************************)
(* The validator of magna-gqlmin (validate.rs): the five rules over a      *)
(* document alone and the five rules that need a schema.  A finding is a   *)
(* rule with what it is about; findings are a set, their order and their   *)
(* wording are left out.                                                   *)
(***************************************************************************)
EXTENDS GqlSdl, FiniteSets

Ops(d)   == SelectSeq(definitions(d), LAMBDA x : x.type = "Operation")
Frags(d) == SelectSeq(definitions(d), LAMBDA x : x.type = "Fragment")

\* fragments_by_name: a later definition replaces an earlier one.
fragments_by_name(d) ==
  LET fs == Frags(d)
  IN [n \in {fs[i].name.value : i \in 1..Len(fs)} |->
        fs[CHOOSE i \in 1..Len(fs) : /\ fs[i].name.value = n
                                     /\ \A j \in (i + 1)..Len(fs) : fs[j].name.value # n]]

check_unique_operation_names(ops) ==
  {<<"UniqueOperationNames", ops[i].from>> :
     i \in {i \in 1..Len(ops) : \/ ops[i].name = NoName /\ Len(ops) > 1
                                \/ /\ ops[i].name # NoName
                                   /\ \E j \in 1..(i - 1) : ops[j].name.value = ops[i].name.value}}

RECURSIVE collect_uses_in_value(_, _)
collect_uses_in_value(d, v) ==
  CASE v.type = "Variable" -> {v.name.value}
    [] v.type = "List"     -> UNION {collect_uses_in_value(d, x) : x \in ToSet(Slice(d, v.of))}
    [] v.type = "Object"   -> UNION {collect_uses_in_value(d, x.value) : x \in ToSet(Slice(d, v.of))}
    [] OTHER               -> {}

collect_uses_in_arguments(d, r) ==
  UNION {collect_uses_in_value(d, a.value) : a \in ToSet(Slice(d, r))}
collect_uses_in_directives(d, r) ==
  UNION {collect_uses_in_arguments(d, x.arguments) : x \in ToSet(Slice(d, r))}

\* acc.visited is visited_frags, acc.used the variables met so far; a
\* fragment is entered once per operation, the first time it is spread.
RECURSIVE collect_uses_in_selection_set(_, _, _)
\* A bug: a spread fragment is marked visited but not entered.
mut_enter_fragment(d, name, acc) ==
  [visited |-> acc.visited \cup {name}, used |-> acc.used]
enter_fragment(d, name, acc) ==
  LET frags == fragments_by_name(d)
      seen  == [acc EXCEPT !.visited = @ \cup {name}]
  IN  IF name \in acc.visited \/ name \notin DOMAIN frags THEN seen
      ELSE collect_uses_in_selection_set(d, frags[name].set.selections,
             [seen EXCEPT !.used = @ \cup collect_uses_in_directives(d, frags[name].directives)])
collect_uses_in_selection_set(d, r, acc0) ==
  FoldLeft(LAMBDA acc, s :
    LET own == collect_uses_in_directives(d, s.directives)
                 \cup (IF s.type = "Field" THEN collect_uses_in_arguments(d, s.arguments) ELSE {})
        more == [acc EXCEPT !.used = @ \cup own]
    IN  IF s.type = "FragmentSpread" THEN enter_fragment(d, s.name.value, more)
        ELSE collect_uses_in_selection_set(d, s.set.selections, more),
    acc0, Slice(d, r))

check_variables_for_operation(d, op) ==
  LET vars     == ToSet(Slice(d, op.variable_definitions))
      declared == {v.name.value : v \in vars}
      body == collect_uses_in_selection_set(d, op.set.selections,
                [visited |-> {}, used |-> collect_uses_in_directives(d, op.directives)])
      used == body.used \cup UNION {collect_uses_in_value(d, v.default_value)
                                      \cup collect_uses_in_directives(d, v.directives) : v \in vars}
  IN  {<<"NoUndefinedVariables", op.from, v>> : v \in used \ declared}
        \cup {<<"NoUnusedVariables", op.from, v>> : v \in declared \ used}

\* The names a selection set spreads, nested ones included.
RECURSIVE walk_fragment_spreads(_, _)
walk_fragment_spreads(d, r) ==
  UNION {IF s.type = "FragmentSpread" THEN {s.name.value}
         ELSE walk_fragment_spreads(d, s.set.selections) : s \in ToSet(Slice(d, r))}

validate_operations(d) ==
  LET spread == UNION {walk_fragment_spreads(d, x.set.selections) : x \in ToSet(definitions(d))}
      named  == DOMAIN fragments_by_name(d)
  IN  check_unique_operation_names(Ops(d))
        \cup UNION {check_variables_for_operation(d, op) : op \in ToSet(Ops(d))}
        \cup {<<"KnownFragmentNames", n>> : n \in spread \ named}
        \cup {<<"NoUnusedFragments", n>> : n \in named \ spread}

-----------------------------------------------------------------------------
BuiltIn == {"Int", "Float", "String", "Boolean", "ID"}

\* SchemaIndex::build over the definitions of a parsed schema: inserting into
\* a map keeps the last definition of a name, an object hides an interface.
SchemaIndex(defs) ==
  LET Of(types)   == SelectSeq(defs, LAMBDA x : x.type \in types)
      NamesOf(types) == {x.def.name.value : x \in ToSet(Of(types))}
      Def(types, n) == Last(SelectSeq(Of(types), LAMBDA x : x.def.name.value = n))
      kinds == {"type", "interface", "union", "enum", "input", "scalar"}
      ops   == Flat(Of({"schema"}), LAMBDA x : x.def.operation_types)
      Default == [query |-> "Query", mutation |-> "Mutation", subscription |-> "Subscription"]
  IN [kinds |-> [n \in NamesOf(kinds) \cup BuiltIn |->
                   IF n \in NamesOf(kinds) THEN Def(kinds, n).type ELSE "scalar"],
      fields |-> [n \in NamesOf({"type", "interface"}) |->
                    Def(IF n \in NamesOf({"type"}) THEN {"type"} ELSE {"interface"}, n).def.fields],
      directives |-> [n \in NamesOf({"directive"}) |-> Def({"directive"}, n).def],
      roots |-> [op \in Operations |->
                   LET given == SelectSeq(ops, LAMBDA o : o.operation = op)
                   IN  IF given # <<>> THEN {Last(given).named_type.value}
                       ELSE {Default[op]} \cap NamesOf({"type"})]]

\* iter().find: the first element named n, if any.
Find(s, n) == LET at == {i \in 1..Len(s) : s[i].name.value = n}
              IN  IF at = {} THEN {} ELSE {s[CHOOSE i \in at : \A k \in at : i <= k]}

knows_type(ix, n)   == n \in DOMAIN ix.kinds
is_leaf(ix, n)      == knows_type(ix, n) /\ ix.kinds[n] \in {"scalar", "enum"}
is_composite(ix, n) == knows_type(ix, n) /\ ix.kinds[n] \in {"type", "interface", "union"}
lookup_field(ix, n, f) ==
  IF n \in DOMAIN ix.fields THEN Find(ix.fields[n], f) ELSE {}

RECURSIVE unwrap_type_name(_), value_compatible(_, _, _)
unwrap_type_name(t) == IF t.type = "Named" THEN t.of.value ELSE unwrap_type_name(t.of)

value_compatible(v, t, ix) ==
  LET n == t.of.value
      ofScalar == CASE n = "Int"     -> v.type = "Int"
                    [] n = "Float"   -> v.type \in {"Float", "Int"}
                    [] n = "Boolean" -> v.type = "Boolean"
                    [] n \in {"String", "ID"} -> v.type \in {"String", "Int"}
                    [] OTHER         -> TRUE
  IN CASE v.type = "Variable"   -> TRUE
       [] v.type # "Variable" /\ t.type = "NonNull" ->
            v.type # "Null" /\ value_compatible(v, t.of, ix)
       [] v.type = "Null" /\ t.type # "NonNull" -> TRUE
       [] v.type \notin {"Variable", "Null"} /\ t.type = "List" ->
            v.type = "List" \/ value_compatible(v, t.of, ix)
       [] v.type \notin {"Variable", "Null"} /\ t.type = "Named" ->
            CASE ~knows_type(ix, n)        -> TRUE
              [] is_leaf(ix, n)            -> IF ix.kinds[n] = "scalar" THEN ofScalar
                                                                       ELSE v.type = "Enum"
              [] is_composite(ix, n)       -> FALSE
              [] OTHER                     -> v.type = "Object"

\* check_field_args and check_directive_args: argument uses against the
\* declarations of the field or directive.
check_args(d, r, defs, ix) ==
  UNION {LET a == Find(defs, arg.name.value)
         IN  CASE a = {} -> {<<"KnownArgumentNames", arg.name>>}
               [] a # {} /\ \A x \in a : value_compatible(arg.value, x.value_type, ix) -> {}
               [] OTHER  -> {<<"ArgumentsOfCorrectType", arg.name>>}
           : arg \in ToSet(Slice(d, r))}

check_directives(d, r, ix) ==
  UNION {check_args(d, x.arguments, ix.directives[x.name.value].arguments, ix)
           : x \in {x \in ToSet(Slice(d, r)) : x.name.value \in DOMAIN ix.directives}}

check_named_type(n, ix) == IF knows_type(ix, n.value) THEN {} ELSE {<<"KnownTypeNames", n>>}
RECURSIVE check_type_ref(_, _), check_known_types_in_selection_set(_, _, _), walk_fields(_, _, _, _)
check_type_ref(t, ix) ==
  IF t.type = "Named" THEN check_named_type(t.of, ix) ELSE check_type_ref(t.of, ix)

check_known_types_in_selection_set(d, r, ix) ==
  UNION {IF s.type = "FragmentSpread" THEN {}
         ELSE check_known_types_in_selection_set(d, s.set.selections, ix)
                \cup (IF s.type = "InlineFragment" /\ s.condition # NoName
                        THEN check_named_type(s.condition, ix) ELSE {})
           : s \in ToSet(Slice(d, r))}

\* A bug: the kind of the parent type is tested the wrong way round.
mut_walk_fragment(d, parent, r, ix) == IF is_leaf(ix, parent) THEN walk_fields(d, parent, r, ix) ELSE {}
walk_fragment(d, parent, r, ix) == IF knows_type(ix, parent) THEN walk_fields(d, parent, r, ix) ELSE {}

walk_field(d, parent, f, ix) ==
  LET found == lookup_field(ix, parent, f.name.value)
      def   == CHOOSE x \in found : TRUE
      tn    == unwrap_type_name(def.field_type)
      has   == f.set # NoSet
  IN CASE f.name.value = "__typename" -> {}
       [] f.name.value # "__typename" /\ found = {} -> {<<"FieldsOnCorrectType", f.name>>}
       [] OTHER ->
            (IF (is_leaf(ix, tn) /\ has) \/ (is_composite(ix, tn) /\ ~has)
               THEN {<<"ScalarLeafs", f.name>>} ELSE {})
            \cup check_args(d, f.arguments, def.arguments, ix)
            \cup check_directives(d, f.directives, ix)
            \cup (IF has /\ is_composite(ix, tn) THEN walk_fields(d, tn, f.set.selections, ix) ELSE {})

walk_fields(d, parent, r, ix) ==
  UNION {CASE s.type = "Field" -> walk_field(d, parent, s, ix)
           [] s.type = "InlineFragment" ->
                check_directives(d, s.directives, ix)
                  \cup walk_fragment(d, IF s.condition = NoName THEN parent ELSE s.condition.value,
                                     s.set.selections, ix)
           [] s.type = "FragmentSpread" -> check_directives(d, s.directives, ix)
           : s \in ToSet(Slice(d, r))}

\* schema_aware::run_all: a fragment is walked once, at its own type condition;
\* an operation without a root type in the schema is not walked at all.
run_all(d, ix) ==
  UNION {CASE x.type = "Operation" ->
                UNION {check_type_ref(v.var_type, ix) : v \in ToSet(Slice(d, x.variable_definitions))}
                  \cup check_directives(d, x.directives, ix)
                  \cup UNION {walk_fields(d, t, x.set.selections, ix) : t \in ix.roots[x.kind]}
           [] x.type = "Fragment" ->
                check_named_type(x.condition, ix)
                  \cup check_directives(d, x.directives, ix)
                  \cup walk_fragment(d, x.condition.value, x.set.selections, ix)
           : x \in ToSet(definitions(d))}
    \cup UNION {check_known_types_in_selection_set(d, x.set.selections, ix) : x \in ToSet(definitions(d))}

validate(d, ix) == validate_operations(d) \cup run_all(d, ix)

-----------------------------------------------------------------------------
\* What the rules mean, without the walk: the fragments an operation reaches
\* are the smallest set closed under spreading.
DirectUses(d, r) ==
  LET RECURSIVE Uses(_)
      Uses(q) == UNION {collect_uses_in_directives(d, s.directives)
                          \cup (IF s.type = "Field" THEN collect_uses_in_arguments(d, s.arguments) ELSE {})
                          \cup (IF s.type = "FragmentSpread" THEN {} ELSE Uses(s.set.selections))
                            : s \in ToSet(Slice(d, q))}
  IN  Uses(r)

Reached(d, op) ==
  LET frags == fragments_by_name(d)
      Closed(S) == /\ walk_fragment_spreads(d, op.set.selections) \cap DOMAIN frags \subseteq S
                   /\ \A f \in S : walk_fragment_spreads(d, frags[f].set.selections)
                                     \cap DOMAIN frags \subseteq S
  IN  {f \in DOMAIN frags : \A S \in SUBSET DOMAIN frags : Closed(S) => f \in S}

\* A variable is reported undefined (unused) exactly when the operation or a
\* fragment it reaches uses it and it is not declared (is declared and none
\* uses it): neither the once-per-operation visit of fragments nor a cycle of
\* spreads hides a use or invents one.
VariableRulesExactFor(d, findings) ==
  \A op \in ToSet(Ops(d)) :
    LET frags    == fragments_by_name(d)
        vars     == ToSet(Slice(d, op.variable_definitions))
        declared == {v.name.value : v \in vars}
        used     == DirectUses(d, op.set.selections) \cup collect_uses_in_directives(d, op.directives)
                      \cup UNION {collect_uses_in_directives(d, v.directives) : v \in vars}
                      \cup UNION {DirectUses(d, frags[f].set.selections)
                                    \cup collect_uses_in_directives(d, frags[f].directives)
                                      : f \in Reached(d, op)}
    IN /\ {x \in findings : x[1] = "NoUndefinedVariables" /\ x[2] = op.from}
            = {<<"NoUndefinedVariables", op.from, v>> : v \in used \ declared}
       /\ {x \in findings : x[1] = "NoUnusedVariables" /\ x[2] = op.from}
            = {<<"NoUnusedVariables", op.from, v>> : v \in declared \ used}

\* The (parent type, selection set) pairs execution visits, fragments expanded
\* where they are spread.
Visited(d, ix) ==
  LET frags == fragments_by_name(d)
      Step(S) == UNION {UNION {
        CASE s.type = "Field" ->
               {<<unwrap_type_name(x.field_type), s.set.selections>>
                  : x \in IF s.set = NoSet THEN {} ELSE lookup_field(ix, p[1], s.name.value)}
          [] s.type = "InlineFragment" ->
               {<<IF s.condition = NoName THEN p[1] ELSE s.condition.value, s.set.selections>>}
          [] s.type = "FragmentSpread" ->
               IF s.name.value \in DOMAIN frags
                 THEN {<<frags[s.name.value].condition.value, frags[s.name.value].set.selections>>}
                 ELSE {}
        : s \in ToSet(Slice(d, p[2]))} : p \in S}
      RECURSIVE Close(_)
      Close(S) == IF Step(S) \subseteq S THEN S ELSE Close(S \cup Step(S))
  IN  Close(UNION {{<<t, x.set.selections>> : t \in ix.roots[x.kind]} : x \in ToSet(Ops(d))})

\* A document with no finding never selects what the schema lacks: wherever
\* execution gets, through any nesting of fields and spreads, the field is
\* declared on the parent type, takes the arguments it is given, and has a
\* selection set exactly when its type is composite.
AcceptedIsTypedFor(d, ix, findings) ==
  findings = {} =>
    \A p \in Visited(d, ix) : \A s \in ToSet(Slice(d, p[2])) :
      s.type = "Field" /\ s.name.value # "__typename" =>
        \E x \in lookup_field(ix, p[1], s.name.value) :
          /\ is_composite(ix, unwrap_type_name(x.field_type)) <=> s.set # NoSet
          /\ \A a \in ToSet(Slice(d, s.arguments)) :
               a.name.value \in {y.name.value : y \in ToSet(x.arguments)}
=============================================================================
