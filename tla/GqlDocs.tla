------------------------------ MODULE GqlDocs ------------------------------
(***************************************************************************)
(* Sources given to the front end of magna-gqlmin, one longer than the     *)
(* other: each is parsed as an executable document and as a schema, and a  *)
(* document that parses is validated against a fixed schema.  A source is  *)
(* written token by token as long as some continuation could still parse,  *)
(* or definition by definition.                                            *)
(***************************************************************************)
EXTENDS GqlValidate

CONSTANTS
  Seeds,        \* the token sequences a source starts with
  Tokens,       \* the tokens it is continued with
  MaxTokens,    \* how many of them are free
  MaxClosers,   \* how many closing tokens may follow those
  Definitions,  \* the definitions a document is put together from, in turn
  SchemaSource  \* the schema documents are validated against

ASSUME DocsAssumption ==
  /\ MaxTokens \in Nat /\ MaxClosers \in Nat
  /\ ~Failed(parse_schema(SchemaSource))

VARIABLES
  text,      \* the source
  left,      \* free tokens, closing tokens still to come, next definition
  ops,       \* parse_executable_document(text)
  sdl,       \* parse_schema(text)
  index,     \* the index of the schema documents are validated against
  findings   \* validate(ops, schema) when the document parsed
docVars == <<text, left, ops, sdl, index, findings>>

Read(ts) ==
  /\ text' = ts
  /\ ops' = parse_document(ts)
  /\ sdl' = parse_schema(ts)
  /\ UNCHANGED index
  /\ findings' = IF Failed(ops') THEN {} ELSE validate(ops', index)

\* Some continuation of a source may parse: its error is at the end.
Open(p) == ~Failed(p) \/ p.err.to = Len(text) + 1

DocsInit ==
  /\ text = <<>>
  /\ left \in {[tokens |-> MaxTokens, closers |-> MaxClosers, defs |-> Len(Definitions) + 1],
               [tokens |-> 0, closers |-> 0, defs |-> 1]}
  /\ ops = parse_document(text) /\ sdl = parse_schema(text) /\ findings = {}
  /\ index = SchemaIndex(parse_schema(SchemaSource).val)

Seed(s) ==
  /\ text = <<>> /\ left.tokens = MaxTokens
  /\ Read(s)
  /\ UNCHANGED left

WriteToken(t) ==
  /\ text # <<>> /\ left.tokens > 0 /\ (Open(ops) \/ Open(sdl))
  /\ Read(Append(text, t))
  /\ left' = [left EXCEPT !.tokens = @ - 1]

Close(t) ==
  /\ left.tokens = 0 /\ left.closers > 0 /\ (Open(ops) \/ Open(sdl))
  /\ Read(Append(text, t))
  /\ left' = [left EXCEPT !.closers = @ - 1]

WriteDefinition(x) ==
  /\ left.defs <= Len(Definitions)
  /\ Read(text \o x)
  /\ left' = [left EXCEPT !.defs = @ + 1]

DocsNext ==
  \/ \E s \in Seeds : Seed(s)
  \/ \E t \in Tokens : WriteToken(t)
  \/ \E t \in {"}", ")", "]"} : Close(t)
  \/ \E x \in IF left.defs <= Len(Definitions) THEN Definitions[left.defs] ELSE {} : WriteDefinition(x)
DocsSpec == DocsInit /\ [][DocsNext]_docVars

-----------------------------------------------------------------------------
\* Of every document the parser accepts: the lists of its arena are intact
\* (close_list drains nested lists before the list around them, so no accessor
\* meets a node of another variant and no node is lost or shared).
ArenaSound == ~Failed(ops) => ArenaSoundFor(ops)

\* Of every document the parser accepts: the tree holds exactly what was
\* written, in order (the alias, keyword and lookahead decisions lose nothing).
RoundTrip == ~Failed(ops) => RoundTripFor(ops)

\* The same of every schema without list or object literals.
SdlRoundTrip == ~Failed(sdl) /\ ~HasSkipped(text) => SdlRoundTripFor(sdl)

\* A constant read by the schema parser ends where the same constant ends for
\* the operations parser.
ConstMirrors ==
  \A i \in IF left.defs > Len(Definitions) THEN 1..Len(text) ELSE {} :
    ConstMirrorsFor(SubSeq(text, i, Len(text)))

\* The variable rules report exactly what their definition over reachable
\* fragments says.
VariableRulesExact == ~Failed(ops) => VariableRulesExactFor(ops, findings)

\* A document the validator accepts is well typed wherever execution goes.
AcceptedIsTyped == ~Failed(ops) => AcceptedIsTypedFor(ops, index, findings)
=============================================================================
