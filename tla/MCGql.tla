------------------------------- MODULE MCGql -------------------------------
(* The front end on small sources.  A behaviour either lexes a text byte by *)
(* byte or reads a source that is already cut into tokens; the other half   *)
(* then rests at the end of the empty source.                               *)
EXTENDS GqlLex, GqlDocs

(* Short texts over every byte class, longer ones over the bytes that       *)
(* matter to numbers, to strings and to block strings.                      *)
MCSources ==
  BoundedSeq({" ", "\n", "\r", "#", "{", ".", "n", "0", "-", "\"", "?"}, 4)
    \cup BoundedSeq({"0", "1", "-", "+", ".", "e"}, 5)
    \cup BoundedSeq({"\"", "\\", "n", "u", "\n", "\r"}, 5)
    \cup BoundedSeq({"\"", "\\"}, 11)
    \cup {<<"\"", "\\", "u">> \o h \o <<"\"">> : h \in BoundedSeq({"0", "e", "n"}, 4)}
    \cup {Bom \o s : s \in BoundedSeq({" ", "n", "#"}, 2)}

LexRests ==
  /\ src = <<>> /\ pos = 0 /\ started = TRUE /\ err = NoLexError /\ diag = NoDiag
  /\ toks = <<[kind |-> "Eof", start |-> 0, end |-> 0]>>
DocsRest ==
  /\ text = <<>> /\ left = [tokens |-> 0, closers |-> 0, defs |-> Len(Definitions) + 1]
  /\ ops = parse_document(text) /\ sdl = parse_schema(text) /\ findings = {} /\ index = <<>>

FrontInit == (LexInit /\ DocsRest) \/ (LexRests /\ DocsInit)
FrontNext == (LexNext /\ UNCHANGED docVars) \/ (DocsNext /\ UNCHANGED lexVars)
FrontSpec == FrontInit /\ [][FrontNext]_<<lexVars, docVars>>

(* Beginnings of every kind of definition, continued token by token.        *)
MCSeeds ==
  { <<"{">>, <<"query", "a", "(", "$">>, <<"{", "a", "(", "a", ":">>, <<"{", "a", "{", "a", "...">>,
    <<"fragment", "a">>, <<"type", "a">>, <<"type", "a", "{", "a">>, <<"union", "a">>,
    <<"union", "a", "=", "a">>, <<"type", "a", "implements", "a">>, <<"enum", "a">>,
    <<"directive", "@">>, <<"directive", "@", "a", "on", "a">>,
    <<"schema">>, <<"input", "a", "{", "a", ":", "a", "=">>, <<"'s'">>,
    <<"scalar">>, <<"{", "a", "(", "a", ":", "[", "{", "a", ":">> }
MCTokens ==
  {"{", "}", "(", ")", ":", "$", "=", "@", "[", "]", "!", "...", "&", "|",
   "a", "on", "implements", "1", "1.5", "'s'", "null", "query"}

(* Documents of an operation and two fragments, which may call each other.  *)
Selections ==
  { <<"s">>, <<"a", "{", "s", "}">>, <<"a">>, <<"s", "{", "s", "}">>, <<"m">>,
    <<"a", "(", "x", ":", "$", "v", ")", "{", "__typename", "}">>,
    <<"a", "(", "y", ":", "1", ")", "{", "s", "}">>,
    <<"...", "F">>, <<"a", "{", "...", "G", "}">>,
    <<"u", "{", "...", "on", "A", "{", "b", "}", "}">>,
    <<"s", "@", "d", "(", "x", ":", "[", "$", "w", "]", ")">> }
OperationDefs ==
  { o \o v \o <<"{">> \o s \o <<"}">> :
      o \in {<<"query", "Q">>, <<"mutation">>},
      v \in {<<>>, <<"(", "$", "v", ":", "Int", ")">>}, s \in Selections }
FragmentDefs(n) ==
  { <<"fragment", n, "on", t, "{">> \o s \o <<"}">> : t \in {"Query", "A"}, s \in Selections }
MCDefinitions ==
  << OperationDefs,
     FragmentDefs("F") \cup {<<"{", "s", "}">>, <<"query", "Q", "{", "...", "G", "}">>},
     FragmentDefs("G")
       \cup {<<"fragment", "F", "on", "A", "{", "s", "@", "d", "(", "x", ":", "$", "v", ")", "}">>} >>
MCSchemaSource ==
  <<"type", "Query", "{", "s", ":", "Int", "a", "(", "x", ":", "Int", "!", ")", ":", "[", "A", "!", "]",
    "u", ":", "U", "}",
    "type", "A", "{", "s", ":", "E", "b", ":", "Boolean", "a", ":", "A", "}",
    "type", "Mutation", "{", "s", ":", "Int", "}",
    "union", "U", "=", "A", "enum", "E", "{", "one", "}",
    "directive", "@", "d", "(", "x", ":", "[", "Int", "]", ")", "on", "FIELD">>
=============================================================================
