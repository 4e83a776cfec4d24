------------------------------- MODULE GqlSdl -------------------------------
(***************************************************************************)
(* The schema parser of magna-gqlmin (parse/sdl.rs).  It has the token     *)
(* handling of the operations parser (peek, bump, expect and parse_name    *)
(* are the same code twice), a second version of parse_type and of the     *)
(* constants, and owns its lists: val is a sequence, the arena stays       *)
(* empty.                                                                  *)
(***************************************************************************)
EXTENDS GqlParse

NoDesc == "none"

\* struct SdlParser with its peek, bump and expect.
SdlParser(ts) == Parser(ts)

RECURSIVE sdl_parse_type(_)
sdl_parse_type(p) ==
  Then(IF Is(p, "Name") THEN Then(parse_name(p), LAMBDA n : Ret(n, [type |-> "Named", of |-> n.val]))
       ELSE IF Is(p, "[")
       THEN Then(sdl_parse_type(bump_tok(p)), LAMBDA elem :
              Ret(expect(elem, "]", "UnclosedDelimiter"), [type |-> "List", of |-> elem.val]))
       ELSE Fail(p, "ExpectedType"), LAMBDA inner :
    IF Is(inner, "!") THEN Ret(bump_tok(inner), [type |-> "NonNull", of |-> inner.val]) ELSE inner)

parse_description(p) ==
  IF Is(p, "StringValue") \/ Is(p, "BlockStringValue") THEN Ret(bump_tok(p), peek(p))
                                                       ELSE Ret(p, NoDesc)

expect_keyword(p, kw, e) == IF IsWord(p, kw) THEN bump_tok(p) ELSE Fail(p, e)

\* A bug: nested brackets are not counted.
mut_skip_balanced(p, open, close) == bump_tok(bump_tok(p))
\* Skip to the token that closes the bracket just read; only brackets of the
\* same shape are counted.
RECURSIVE SkipFrom(_, _, _, _)
SkipFrom(p, open, close, depth) ==
  IF depth = 0 THEN p
  ELSE IF Is(p, "Eof") THEN Fail(p, "UnclosedDelimiter")
  ELSE SkipFrom(bump_tok(p), open, close,
                depth + (IF Is(p, open) THEN 1 ELSE 0) - (IF Is(p, close) THEN 1 ELSE 0))
skip_balanced(p, open, close) == SkipFrom(bump_tok(p), open, close, 1)

\* Lists and objects are skipped and read as null.
parse_const_value(p) ==
  LET Null(q)     == Ret(q, [type |-> "Null", lex |-> "null"])
      Value(type) == Ret(bump_tok(p), [type |-> type, lex |-> peek(p)])
  IN CASE Is(p, "$")                -> Fail(p, "ExpectedValue")
       [] Is(p, "IntValue")         -> Value("Int")
       [] Is(p, "FloatValue")       -> Value("Float")
       [] Is(p, "StringValue")      -> Value("String")
       [] Is(p, "BlockStringValue") -> Value("String")
       [] Is(p, "Name")             -> Value(CASE IsWord(p, "true") \/ IsWord(p, "false") -> "Boolean"
                                               [] IsWord(p, "null") -> "Null" [] OTHER -> "Enum")
       [] Is(p, "[")                -> Null(skip_balanced(p, "[", "]"))
       [] Is(p, "{")                -> Null(skip_balanced(p, "{", "}"))
       [] OTHER                     -> Fail(p, "ExpectedValue")

\* The loops of the parser, by the element they push.  Sep lists are
\* separated by a token that may also lead the list.
RECURSIVE Elems(_, _, _, _), Names(_, _, _), parse_directive_apps(_, _)

\* A bug: only the last name of a list is kept.
mut_Names(p, sep, acc) ==
  Then(parse_name(p), LAMBDA n :
    IF Is(n, sep) THEN Names(bump_tok(n), sep, acc) ELSE Ret(n, Append(acc, n.val)))
Names(p, sep, acc) ==
  Then(parse_name(p), LAMBDA n :
    IF Is(n, sep) THEN Names(bump_tok(n), sep, Append(acc, n.val)) ELSE Ret(n, Append(acc, n.val)))
SepNames(p, sep) == Names(IF Is(p, sep) THEN bump_tok(p) ELSE p, sep, <<>>)

parse_directive_arg(p) ==
  Then(parse_name(p), LAMBDA n :
  Then(parse_const_value(expect(n, ":", "ExpectedColon")), LAMBDA v :
    Ret(v, [name |-> n.val, value |-> v.val])))

parse_directive_apps(p, acc) ==
  IF ~Is(p, "@") THEN Ret(p, acc)
  ELSE Then(parse_name(bump_tok(p)), LAMBDA n :
       Then(IF Is(n, "(") THEN Elems(bump_tok(n), ")", "DirectiveArg", <<>>) ELSE Ret(n, <<>>), LAMBDA a :
         parse_directive_apps(a, Append(acc, [name |-> n.val, arguments |-> a.val]))))
Apps(p) == parse_directive_apps(p, <<>>)

parse_input_value_def(p) ==
  Then(parse_description(p), LAMBDA desc :
  Then(parse_name(desc), LAMBDA n :
  Then(sdl_parse_type(expect(n, ":", "ExpectedColon")), LAMBDA t :
  Then(IF Is(t, "=") THEN parse_const_value(bump_tok(t)) ELSE Ret(t, NoValue), LAMBDA v :
  Then(Apps(v), LAMBDA d :
    Ret(d, [description |-> desc.val, name |-> n.val, value_type |-> t.val,
      default_value |-> v.val, directives |-> d.val]))))))

parse_arguments_definition(p) ==
  IF Is(p, "(") THEN Elems(bump_tok(p), ")", "InputValue", <<>>) ELSE Ret(p, <<>>)

parse_field_def(p) ==
  Then(parse_description(p), LAMBDA desc :
  Then(parse_name(desc), LAMBDA n :
  Then(parse_arguments_definition(n), LAMBDA a :
  Then(sdl_parse_type(expect(a, ":", "ExpectedColon")), LAMBDA t :
  Then(Apps(t), LAMBDA d :
    Ret(d, [description |-> desc.val, name |-> n.val, arguments |-> a.val,
      field_type |-> t.val, directives |-> d.val]))))))

parse_enum_value(p) ==
  Then(parse_description(p), LAMBDA desc :
  Then(parse_name(desc), LAMBDA n :
  Then(Apps(n), LAMBDA d :
    Ret(d, [description |-> desc.val, name |-> n.val, directives |-> d.val]))))

parse_operation_type(p) ==
  Then(IF ~Is(p, "Name") THEN Fail(p, "ExpectedName")
       ELSE IF peek(p) \in Operations THEN bump_tok(p)
       ELSE Fail(p, "ExpectedOperationKind"), LAMBDA op :
  Then(parse_name(expect(op, ":", "ExpectedColon")), LAMBDA t :
    Ret(t, [operation |-> peek(p), named_type |-> t.val])))

Elem(p, item) ==
  CASE item = "DirectiveArg"  -> parse_directive_arg(p)
    [] item = "InputValue"    -> parse_input_value_def(p)
    [] item = "Field"         -> parse_field_def(p)
    [] item = "EnumValue"     -> parse_enum_value(p)
    [] item = "OperationType" -> parse_operation_type(p)

Elems(p, close, item, acc) ==
  IF Failed(p) \/ Is(p, close) THEN Ret(bump_tok(p), acc)
  ELSE IF Is(p, "Eof") THEN Fail(p, "UnclosedDelimiter")
  ELSE Then(Elem(p, item), LAMBDA e : Elems(e, close, item, Append(acc, e.val)))

\* { item* } when a brace follows; enum, input, type and interface bodies.
parse_optional_block(p, item) ==
  IF Is(p, "{") THEN Elems(bump_tok(p), "}", item, <<>>) ELSE Ret(p, <<>>)

parse_schema_def(p) ==
  Then(Apps(bump_tok(p)), LAMBDA d :
  Then(Elems(expect(d, "{", "UnexpectedToken"), "}", "OperationType", <<>>), LAMBDA b :
    Ret(b, [name |-> NoName, directives |-> d.val, operation_types |-> b.val])))

parse_scalar_def(p) ==
  Then(parse_name(bump_tok(p)), LAMBDA n :
  Then(Apps(n), LAMBDA d :
    Ret(d, [name |-> n.val, directives |-> d.val])))

parse_implements_interfaces(p) ==
  IF IsWord(p, "implements") THEN SepNames(bump_tok(p), "&") ELSE Ret(p, <<>>)

\* parse_object_def and parse_interface_def.
parse_object_def(p) ==
  Then(parse_name(bump_tok(p)), LAMBDA n :
  Then(parse_implements_interfaces(n), LAMBDA i :
  Then(Apps(i), LAMBDA d :
  Then(parse_optional_block(d, "Field"), LAMBDA f :
    Ret(f, [name |-> n.val, implements |-> i.val, directives |-> d.val, fields |-> f.val])))))

parse_union_def(p) ==
  Then(parse_name(bump_tok(p)), LAMBDA n :
  Then(Apps(n), LAMBDA d :
  Then(IF Is(d, "=") THEN SepNames(bump_tok(d), "|") ELSE Ret(d, <<>>), LAMBDA m :
    Ret(m, [name |-> n.val, directives |-> d.val, members |-> m.val]))))

parse_enum_def(p) ==
  Then(parse_name(bump_tok(p)), LAMBDA n :
  Then(Apps(n), LAMBDA d :
  Then(parse_optional_block(d, "EnumValue"), LAMBDA v :
    Ret(v, [name |-> n.val, directives |-> d.val, values |-> v.val]))))

parse_input_object_def(p) ==
  Then(parse_name(bump_tok(p)), LAMBDA n :
  Then(Apps(n), LAMBDA d :
  Then(parse_optional_block(d, "InputValue"), LAMBDA f :
    Ret(f, [name |-> n.val, directives |-> d.val, fields |-> f.val]))))

parse_directive_def(p) ==
  Then(parse_name(expect(bump_tok(p), "@", "UnexpectedToken")), LAMBDA n :
  Then(parse_arguments_definition(n), LAMBDA a :
  Then(IF IsWord(a, "repeatable") THEN Ret(bump_tok(a), TRUE) ELSE Ret(a, FALSE), LAMBDA r :
  Then(SepNames(expect_keyword(r, "on", "ExpectedOnKeyword"), "|"), LAMBDA l :
    Ret(l, [name |-> n.val, arguments |-> a.val, repeatable |-> r.val,
      locations |-> l.val, directives |-> <<>>])))))

Definition(p, kw) ==
  CASE Failed(p)        -> p
    [] kw = "schema"    -> parse_schema_def(p)
    [] kw = "scalar"    -> parse_scalar_def(p)
    [] kw \in {"type", "interface"} -> parse_object_def(p)
    [] kw = "union"     -> parse_union_def(p)
    [] kw = "enum"      -> parse_enum_def(p)
    [] kw = "input"     -> parse_input_object_def(p)
    [] kw = "directive" -> parse_directive_def(p)
    [] OTHER            -> Fail(p, "UnknownDefinition")

parse_type_system_definition(p) ==
  Then(parse_description(p), LAMBDA desc :
  Then(Definition(desc, peek(desc)), LAMBDA def :
    Ret(def, [type |-> peek(desc), description |-> desc.val, def |-> def.val])))

RECURSIVE SchemaLoop(_, _)
SchemaLoop(p, acc) ==
  IF Failed(p) \/ Is(p, "Eof") THEN Ret(p, acc)
  ELSE Then(parse_type_system_definition(p), LAMBDA d : SchemaLoop(d, Append(acc, d.val)))

\* parse_schema: val is SchemaDocument.definitions.
parse_schema(ts) ==
  Then(SchemaLoop(SdlParser(ts), <<>>), LAMBDA p :
    IF ~Failed(p) /\ p.val = <<>> THEN FailAt(p, "UnexpectedEof", 1, Len(ts) + 1) ELSE p)

-----------------------------------------------------------------------------
\* The tokens a definition stands for, without the separators & and |.
DescTokens(x) == IF x.description = NoDesc THEN <<>> ELSE <<x.description>>
AppTokens(ds) ==
  Flat(ds, LAMBDA x : <<"@", x.name.value>> \o
    Parens(Flat(x.arguments, LAMBDA a : <<a.name.value, ":", a.value.lex>>)))
InputTokens(x) ==
  DescTokens(x) \o <<x.name.value, ":">> \o TypeTokens(x.value_type)
    \o (IF x.default_value = NoValue THEN <<>> ELSE <<"=", x.default_value.lex>>)
    \o AppTokens(x.directives)
FieldTokens(x) ==
  DescTokens(x) \o <<x.name.value>> \o Parens(Flat(x.arguments, InputTokens)) \o <<":">>
    \o TypeTokens(x.field_type) \o AppTokens(x.directives)
EnumTokens(x) == DescTokens(x) \o <<x.name.value>> \o AppTokens(x.directives)
NameTokens(ns) == [i \in 1..Len(ns) |-> ns[i].value]
Braces(ts) == IF ts = <<>> THEN <<>> ELSE <<"{">> \o ts \o <<"}">>

SdlTokens(t) ==
  LET x == t.def
      name == IF x.name = NoName THEN <<>> ELSE <<x.name.value>>
  IN DescTokens(t) \o <<t.type>> \o
     (CASE t.type = "schema" ->
             AppTokens(x.directives) \o Braces(Flat(x.operation_types,
               LAMBDA o : <<o.operation, ":", o.named_type.value>>))
        [] t.type = "scalar" -> name \o AppTokens(x.directives)
        [] t.type \in {"type", "interface"} ->
             name \o (IF x.implements = <<>> THEN <<>>
                      ELSE <<"implements">> \o NameTokens(x.implements))
               \o AppTokens(x.directives) \o Braces(Flat(x.fields, FieldTokens))
        [] t.type = "union" ->
             name \o AppTokens(x.directives)
               \o (IF x.members = <<>> THEN <<>> ELSE <<"=">> \o NameTokens(x.members))
        [] t.type = "enum"  -> name \o AppTokens(x.directives) \o Braces(Flat(x.values, EnumTokens))
        [] t.type = "input" -> name \o AppTokens(x.directives) \o Braces(Flat(x.fields, InputTokens))
        [] t.type = "directive" ->
             <<"@">> \o name \o Parens(Flat(x.arguments, InputTokens))
               \o (IF x.repeatable THEN <<"repeatable">> ELSE <<>>)
               \o <<"on">> \o NameTokens(x.locations))

\* Empty parentheses and braces and the separators leave nothing.
KeptSdlTokens(ts) ==
  LET Empty(i) == <<ts[i], ts[i + 1]>> \in {<<"(", ")">>, <<"{", "}">>}
      kept == SelectSeq([i \in 1..Len(ts) |-> i],
                LAMBDA i : /\ ts[i] \notin {"&", "|"}
                           /\ ~(i < Len(ts) /\ Empty(i))
                           /\ ~(i > 1 /\ Empty(i - 1)))
  IN  [k \in 1..Len(kept) |-> ts[kept[k]]]

\* Does a list or object literal occur: a bracket or brace after = or :.
HasSkipped(ts) ==
  \E i \in 2..Len(ts) : \/ ts[i] \in {"{", "["} /\ ts[i - 1] = "="
                        \/ ts[i] = "{" /\ ts[i - 1] = ":"
                        \/ ts[i] = "[" /\ \E j \in 1..i : ts[j] = "@"
SdlRoundTripFor(s) == Flat(s.val, SdlTokens) = KeptSdlTokens(s.in)

\* parse_const_value reads what parse_value reads as a constant: the same
\* literals, ending at the same token; and it refuses what is neither a literal
\* nor a bracket with the same error.
ConstMirrorsFor(ts) ==
  LET ops == parse_value(Parser(ts), TRUE)
      sdl == parse_const_value(SdlParser(ts))
  IN  /\ ~Failed(ops) =>
           /\ ~Failed(sdl) /\ sdl.pos = ops.pos
           /\ ops.val.type \notin {"List", "Object"} => sdl.val = ops.val
      /\ Failed(ops) /\ peek(Parser(ts)) \notin {"[", "{"} => sdl.err = ops.err
=============================================================================
