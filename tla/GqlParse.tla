------------------------------ MODULE GqlParse ------------------------------
(***************************************************************************)
(* The operations parser of magna-gqlmin (parse/mod.rs): recursive descent *)
(* with one token of lookahead into a flat arena of nodes.  A source is a  *)
(* sequence of tokens; a span is a pair of token positions.  A production  *)
(* maps a parser state to a parser state whose val is what the method      *)
(* returns; once err is set every production is the identity, which is     *)
(* what `?` does to the rest of a method.                                  *)
(***************************************************************************)
EXTENDS Naturals, Sequences, SequencesExt

Puncts == {"!", "$", "&", "(", ")", "...", ":", "=", "@", "[", "]", "{", "|", "}"}
Operations == {"query", "mutation", "subscription"}

\* A token is written as its lexeme.
Kind(t) ==
  CASE t \in Puncts \cup {"Eof"} -> t
    [] t = "1"   -> "IntValue"
    [] t = "1.5" -> "FloatValue"
    [] t = "'s'" -> "StringValue"
    [] t = "'''b'''" -> "BlockStringValue"
    [] OTHER     -> "Name"

NoErr   == [kind |-> "none", from |-> 0, to |-> 0]
NoName  == [value |-> "none", at |-> 0]
NoValue == [type |-> "none"]
NoSet   == [selections |-> [start |-> 0, len |-> 0], from |-> 0, to |-> 0]
EMPTY   == [start |-> 0, len |-> 0]

\* struct Parser: the lexer's position is that of the peeked token.
Parser(ts) == [in |-> ts, pos |-> 1, nodes |-> <<>>, scratch |-> <<>>,
               err |-> NoErr, val |-> NoName]

Failed(p) == p.err # NoErr
Ret(p, v) == IF Failed(p) THEN p ELSE [p EXCEPT !.val = v]
FailAt(p, kind, from, to) ==
  IF Failed(p) THEN p ELSE [p EXCEPT !.err = [kind |-> kind, from |-> from, to |-> to]]
Fail(p, kind) == FailAt(p, kind, p.pos, p.pos)

\* The statements of a method, each on the state the previous one left.
Then(p, rest(_)) == rest(p)

peek(p)    == IF p.pos > Len(p.in) THEN "Eof" ELSE p.in[p.pos]
Is(p, k)   == ~Failed(p) /\ Kind(peek(p)) = k
IsWord(p, w) == ~Failed(p) /\ peek(p) = w
bump_tok(p) == IF Failed(p) \/ Is(p, "Eof") THEN p ELSE [p EXCEPT !.pos = @ + 1]
expect(p, k, e) == IF Is(p, k) THEN bump_tok(p) ELSE Fail(p, e)

parse_name(p) ==
  IF Is(p, "Name") THEN Ret(bump_tok(p), [value |-> peek(p), at |-> p.pos])
                   ELSE Fail(p, "ExpectedName")

\* A list production remembers the length of scratch, pushes its children
\* there and drains them into the arena when it closes.
open_list(p)  == Len(p.scratch)
Push(p, v, n) == IF Failed(p) THEN p
                 ELSE [p EXCEPT !.scratch = Append(@, [variant |-> v, node |-> n])]
\* A bug: the range starts behind the drained nodes.
mut_close_list(p, from) ==
  IF Failed(p) THEN p
  ELSE [p EXCEPT !.nodes   = @ \o SubSeq(p.scratch, from + 1, Len(p.scratch)),
                 !.scratch = SubSeq(@, 1, from),
                 !.val     = [start |-> Len(p.nodes) + Len(p.scratch) - from,
                              len |-> Len(p.scratch) - from]]
close_list(p, from) ==
  IF Failed(p) THEN p
  ELSE [p EXCEPT !.nodes   = @ \o SubSeq(p.scratch, from + 1, Len(p.scratch)),
                 !.scratch = SubSeq(@, 1, from),
                 !.val     = [start |-> Len(p.nodes), len |-> Len(p.scratch) - from]]

RECURSIVE parse_type(_), parse_value(_, _), parse_selection_set(_)
RECURSIVE Items(_, _, _), parse_directives(_)

parse_type(p) ==
  Then(CASE Is(p, "Name") -> Then(parse_name(p), LAMBDA n : Ret(n, [type |-> "Named", of |-> n.val]))
         [] Is(p, "[")    -> Then(parse_type(bump_tok(p)), LAMBDA e :
                               Ret(expect(e, "]", "UnclosedDelimiter"), [type |-> "List", of |-> e.val]))
         [] OTHER         -> Fail(p, "ExpectedType"), LAMBDA inner :
    IF Is(inner, "!") THEN Ret(bump_tok(inner), [type |-> "NonNull", of |-> inner.val])
                      ELSE inner)

\* name : value, for arguments and object fields.
parse_pair(p, is_const) ==
  Then(parse_name(p), LAMBDA n :
  Then(parse_value(expect(n, ":", "ExpectedColon"), is_const), LAMBDA v :
    Ret(v, [name |-> n.val, value |-> v.val])))

parse_variable_definition(p) ==
  Then(parse_name(expect(p, "$", "ExpectedDollar")), LAMBDA n :
  Then(parse_type(expect(n, ":", "ExpectedColon")), LAMBDA t :
  Then(IF Is(t, "=") THEN parse_value(bump_tok(t), TRUE) ELSE Ret(t, NoValue), LAMBDA v :
  Then(parse_directives(v), LAMBDA d :
    Ret(d, [name |-> n.val, var_type |-> t.val, default_value |-> v.val,
      directives |-> d.val])))))

\* A bug: alias and name are swapped.
mut_parse_field_name(p) ==
  Then(parse_name(p), LAMBDA first :
    IF Is(first, ":") THEN Then(parse_name(bump_tok(first)), LAMBDA real :
                             Ret(real, [alias |-> real.val, name |-> first.val]))
                      ELSE Ret(first, [alias |-> NoName, name |-> first.val]))
\* [Alias :] Name, with one token of lookahead.
parse_field_name(p) ==
  Then(parse_name(p), LAMBDA first :
    IF Is(first, ":") THEN Then(parse_name(bump_tok(first)), LAMBDA real :
                             Ret(real, [alias |-> first.val, name |-> real.val]))
                      ELSE Ret(first, [alias |-> NoName, name |-> first.val]))

parse_optional_arguments(p) ==
  IF Is(p, "(") THEN Items(bump_tok(p), ")", "Argument") ELSE Ret(p, EMPTY)

parse_field(p) ==
  Then(parse_field_name(p), LAMBDA n :
  Then(parse_optional_arguments(n), LAMBDA a :
  Then(parse_directives(a), LAMBDA d :
  Then(IF Is(d, "{") THEN parse_selection_set(d) ELSE Ret(d, NoSet), LAMBDA s :
    Ret(s, [type |-> "Field", alias |-> n.val.alias, name |-> n.val.name,
            arguments |-> a.val, directives |-> d.val, set |-> s.val])))))

\* What follows `...`: a type condition, a fragment's name, or neither.
parse_fragment(p) ==
  IF Is(p, "Name") /\ ~IsWord(p, "on")
  THEN Then(parse_name(p), LAMBDA n :
       Then(parse_directives(n), LAMBDA d :
         Ret(d, [type |-> "FragmentSpread", name |-> n.val, directives |-> d.val])))
  ELSE Then(IF IsWord(p, "on") THEN parse_name(bump_tok(p)) ELSE Ret(p, NoName), LAMBDA c :
       Then(parse_directives(c), LAMBDA d :
       Then(parse_selection_set(d), LAMBDA s :
         Ret(s, [type |-> "InlineFragment", condition |-> c.val,
                 directives |-> d.val, set |-> s.val]))))

parse_selection(p) == IF Is(p, "...") THEN parse_fragment(bump_tok(p)) ELSE parse_field(p)

\* One element of the list production named by item, pushed on scratch.
Item(p, item) ==
  Then(CASE item = "VariableDefinition" -> parse_variable_definition(p)
         [] item \in {"Argument", "ObjectField"}  -> parse_pair(p, FALSE)
         [] item = "ConstObjectField"   -> parse_pair(p, TRUE)
         [] item = "Selection"          -> parse_selection(p)
         [] item = "Value"              -> parse_value(p, FALSE)
         [] item = "ConstValue"         -> parse_value(p, TRUE), LAMBDA r :
    Push(r, CASE item = "ConstValue" -> "Value"
              [] item = "ConstObjectField" -> "ObjectField"
              [] OTHER -> item, r.val))

\* The loop of a list production up to its closing token.
RECURSIVE Loop(_, _, _)
Loop(p, close, item) ==
  IF Failed(p) \/ Is(p, close) THEN bump_tok(p)
  ELSE IF Is(p, "Eof") THEN Fail(p, "UnclosedDelimiter")
  ELSE Loop(Item(p, item), close, item)
Items(p, close, item) == close_list(Loop(p, close, item), open_list(p))

RECURSIVE DirectiveLoop(_)
DirectiveLoop(p) ==
  IF ~Is(p, "@") THEN p
  ELSE Then(parse_name(bump_tok(p)), LAMBDA n :
       Then(parse_optional_arguments(n), LAMBDA a :
         DirectiveLoop(Push(a, "Directive", [name |-> n.val, arguments |-> a.val]))))
parse_directives(p) == close_list(DirectiveLoop(p), open_list(p))

parse_selection_set(p) ==
  Then(Items(expect(p, "{", "UnexpectedToken"), "}", "Selection"), LAMBDA body :
    IF ~Failed(body) /\ body.val.len = 0
      THEN FailAt(body, "EmptySelectionSet", p.pos, body.pos - 1)
      ELSE Ret(body, [selections |-> body.val, from |-> p.pos, to |-> body.pos - 1]))

\* The values that are no lists or objects.
Scalar(p, is_const) ==
  LET Lexeme(type) == Ret(bump_tok(p), [type |-> type, lex |-> peek(p)])
  IN CASE Is(p, "$") /\ ~is_const -> Then(parse_name(bump_tok(p)), LAMBDA n :
                                       Ret(n, [type |-> "Variable", name |-> n.val]))
       [] Is(p, "IntValue")    -> Lexeme("Int")
       [] Is(p, "FloatValue")  -> Lexeme("Float")
       [] Is(p, "StringValue") \/ Is(p, "BlockStringValue") -> Lexeme("String")
       [] Is(p, "Name")        -> Lexeme(CASE peek(p) \in {"true", "false"} -> "Boolean"
                                           [] peek(p) = "null" -> "Null" [] OTHER -> "Enum")
       [] OTHER                -> Fail(p, "ExpectedValue")

parse_value(p, is_const) ==
  CASE Is(p, "[") -> Then(Items(bump_tok(p), "]", IF is_const THEN "ConstValue" ELSE "Value"),
                          LAMBDA r : Ret(r, [type |-> "List", of |-> r.val]))
    [] Is(p, "{") -> Then(Items(bump_tok(p), "}", IF is_const THEN "ConstObjectField" ELSE "ObjectField"),
                          LAMBDA r : Ret(r, [type |-> "Object", of |-> r.val]))
    [] OTHER      -> Scalar(p, is_const)

parse_shorthand_query(p) ==
  Then(parse_selection_set(p), LAMBDA s :
    Ret(s, [type |-> "Operation", kind |-> "query", name |-> NoName, shorthand |-> TRUE,
      variable_definitions |-> EMPTY, directives |-> EMPTY, set |-> s.val,
      from |-> p.pos, to |-> s.val.to]))

parse_operation_definition(p) ==
  Then(bump_tok(p), LAMBDA kw :
  Then(IF Is(kw, "Name") THEN parse_name(kw) ELSE Ret(kw, NoName), LAMBDA n :
  Then(IF Is(n, "(") THEN Items(bump_tok(n), ")", "VariableDefinition") ELSE Ret(n, EMPTY), LAMBDA v :
  Then(parse_directives(v), LAMBDA d :
  Then(parse_selection_set(d), LAMBDA s :
    Ret(s, [type |-> "Operation", kind |-> peek(p), name |-> n.val, shorthand |-> FALSE,
      variable_definitions |-> v.val, directives |-> d.val, set |-> s.val,
      from |-> p.pos, to |-> s.val.to]))))))

parse_fragment_definition(p) ==
  Then(parse_name(bump_tok(p)), LAMBDA n :
  Then(IF IsWord(n, "on") THEN bump_tok(n) ELSE Fail(n, "ExpectedOnKeyword"), LAMBDA on :
  Then(parse_name(on), LAMBDA c :
  Then(parse_directives(c), LAMBDA d :
  Then(parse_selection_set(d), LAMBDA s :
    Ret(s, [type |-> "Fragment", name |-> n.val, condition |-> c.val,
      directives |-> d.val, set |-> s.val, from |-> p.pos, to |-> s.val.to]))))))

parse_definition(p) ==
  CASE Is(p, "{")                  -> parse_shorthand_query(p)
    [] peek(p) \in Operations      -> parse_operation_definition(p)
    [] IsWord(p, "fragment")       -> parse_fragment_definition(p)
    [] OTHER                       -> Fail(p, "UnknownDefinition")

RECURSIVE DocumentLoop(_)
DocumentLoop(p) ==
  IF Failed(p) \/ Is(p, "Eof") THEN p
  ELSE Then(parse_definition(p), LAMBDA d : DocumentLoop(Push(d, "Definition", d.val)))

\* parse_executable_document: val is the Document's definitions_range.
parse_document(ts) ==
  Then(DocumentLoop(Parser(ts)), LAMBDA p :
    IF ~Failed(p) /\ p.scratch = <<>>
      THEN FailAt(p, "UnexpectedEof", 1, Len(ts) + 1)
      ELSE close_list(p, 0))

-----------------------------------------------------------------------------
\* Document::slice: a range outside the arena is an empty slice.
Slice(d, r) == IF r.start + r.len > Len(d.nodes) THEN <<>>
               ELSE [i \in 1..r.len |-> d.nodes[r.start + i].node]
definitions(d) == Slice(d, d.val)

\* The lists a node owns (the NodeRange fields of the AST types), each with the
\* variant its accessor projects the members to.
OwnedByValue(x) ==
  CASE x.type = "List"   -> {<<"value", x.of, "Value">>}
    [] x.type = "Object" -> {<<"value", x.of, "ObjectField">>}
    [] OTHER             -> {}
OwnedDirectives(n) == {<<"directives", n.directives, "Directive">>}
OwnedArguments(n)  == {<<"arguments", n.arguments, "Argument">>}
OwnedSelections(n) == {<<"set", n.set.selections, "Selection">>}
OwnedBySelection(n) ==
  CASE n.type = "Field" -> OwnedArguments(n) \cup OwnedDirectives(n) \cup OwnedSelections(n)
    [] n.type = "FragmentSpread" -> OwnedDirectives(n)
    [] n.type = "InlineFragment" -> OwnedDirectives(n) \cup OwnedSelections(n)
OwnedByDefinition(n) ==
  OwnedDirectives(n) \cup OwnedSelections(n)
    \cup IF n.type = "Fragment" THEN {}
         ELSE {<<"variables", n.variable_definitions, "VariableDefinition">>}
Owned(v, n) ==
  CASE v = "Value"      -> OwnedByValue(n)
    [] v \in {"ObjectField", "Argument"} -> OwnedByValue(n.value)
    [] v = "Directive"  -> OwnedArguments(n)
    [] v = "VariableDefinition" -> OwnedByValue(n.default_value) \cup OwnedDirectives(n)
    [] v = "Selection"  -> OwnedBySelection(n)
    [] v = "Definition" -> OwnedByDefinition(n)

\* The arena of a parsed document d: every list a node owns lies in the arena
\* before that node and holds only nodes of the variant its accessor projects
\* to (project_* panics on any other), every node is in exactly one list, and
\* nothing is left on scratch.
ArenaSoundFor(d) ==
  LET lists == {<<Len(d.nodes) + 1, <<"definitions", d.val, "Definition">>>>}
                 \cup UNION {{<<i, o>> : o \in Owned(d.nodes[i].variant, d.nodes[i].node)}
                               : i \in 1..Len(d.nodes)}
      In(i, l)  == l[2][2].start < i /\ i <= l[2][2].start + l[2][2].len
  IN /\ d.scratch = <<>>
     /\ \A l \in lists : l[2][2].len > 0 => l[2][2].start + l[2][2].len < l[1]
     /\ \A i \in 1..Len(d.nodes) :
          \E l \in lists : /\ In(i, l) /\ d.nodes[i].variant = l[2][3]
                           /\ \A m \in lists : In(i, m) => m = l

\* The tokens a document stands for, read back through its ranges.
Flat(s, F(_)) == FlattenSeq([i \in 1..Len(s) |-> F(s[i])])
RECURSIVE TypeTokens(_), ValueTokens(_, _), SelectionTokens(_, _)
TypeTokens(t) ==
  CASE t.type = "Named"   -> <<t.of.value>>
    [] t.type = "List"    -> <<"[">> \o TypeTokens(t.of) \o <<"]">>
    [] t.type = "NonNull" -> TypeTokens(t.of) \o <<"!">>
PairTokens(d, a) == <<a.name.value, ":">> \o ValueTokens(d, a.value)
ValueTokens(d, v) ==
  CASE v.type = "Variable" -> <<"$", v.name.value>>
    [] v.type = "List"   -> <<"[">> \o Flat(Slice(d, v.of), LAMBDA x : ValueTokens(d, x)) \o <<"]">>
    [] v.type = "Object" -> <<"{">> \o Flat(Slice(d, v.of), LAMBDA x : PairTokens(d, x)) \o <<"}">>
    [] OTHER             -> <<v.lex>>
Parens(ts) == IF ts = <<>> THEN <<>> ELSE <<"(">> \o ts \o <<")">>
ArgTokens(d, r) == Parens(Flat(Slice(d, r), LAMBDA a : PairTokens(d, a)))
DirectiveTokens(d, r) ==
  Flat(Slice(d, r), LAMBDA x : <<"@", x.name.value>> \o ArgTokens(d, x.arguments))
SetTokens(d, s) ==
  IF s = NoSet THEN <<>>
  ELSE <<"{">> \o Flat(Slice(d, s.selections), LAMBDA x : SelectionTokens(d, x)) \o <<"}">>
SelectionTokens(d, s) ==
  CASE s.type = "Field" ->
         (IF s.alias = NoName THEN <<>> ELSE <<s.alias.value, ":">>) \o <<s.name.value>>
           \o ArgTokens(d, s.arguments) \o DirectiveTokens(d, s.directives) \o SetTokens(d, s.set)
    [] s.type = "FragmentSpread" -> <<"...", s.name.value>> \o DirectiveTokens(d, s.directives)
    [] s.type = "InlineFragment" ->
         <<"...">> \o (IF s.condition = NoName THEN <<>> ELSE <<"on", s.condition.value>>)
           \o DirectiveTokens(d, s.directives) \o SetTokens(d, s.set)
VariableTokens(d, v) ==
  <<"$", v.name.value, ":">> \o TypeTokens(v.var_type)
    \o (IF v.default_value = NoValue THEN <<>> ELSE <<"=">> \o ValueTokens(d, v.default_value))
    \o DirectiveTokens(d, v.directives)
DefinitionTokens(d, x) ==
  (CASE x.type = "Fragment" -> <<"fragment", x.name.value, "on", x.condition.value>>
     [] x.type = "Operation" /\ x.shorthand  -> <<>>
     [] x.type = "Operation" /\ ~x.shorthand ->
          <<x.kind>> \o (IF x.name = NoName THEN <<>> ELSE <<x.name.value>>)
            \o Parens(Flat(Slice(d, x.variable_definitions), LAMBDA v : VariableTokens(d, v))))
    \o DirectiveTokens(d, x.directives) \o SetTokens(d, x.set)

\* An empty pair of parentheses leaves no node.
KeptTokens(ts) ==
  LET kept == SelectSeq([i \in 1..Len(ts) |-> i],
                LAMBDA i : ~\/ (ts[i] = "(" /\ i < Len(ts) /\ ts[i + 1] = ")")
                            \/ (ts[i] = ")" /\ ts[i - 1] = "("))
  IN  [k \in 1..Len(kept) |-> ts[kept[k]]]

\* Reading a document back gives the tokens it was parsed from, and the spans
\* of its definitions cover the source without gap or overlap.
RoundTripFor(d) ==
  LET defs == definitions(d)
  IN /\ Flat(defs, LAMBDA x : DefinitionTokens(d, x)) = KeptTokens(d.in)
     /\ defs[1].from = 1 /\ defs[Len(defs)].to = Len(d.in)
     /\ \A i \in 1..(Len(defs) - 1) : defs[i].to + 1 = defs[i + 1].from
=============================================================================
