------------------------------- MODULE GqlLex -------------------------------
(***************************************************************************)
(* The GraphQL lexer of magna-gqlmin (lex.rs) and the caret diagnostic for *)
(* its errors (pretty.rs).  A source is a sequence of bytes; a byte is     *)
(* written as a one-character string, and bytes the lexer never tells      *)
(* apart share one representative ("{" for every one-byte punctuator, " "  *)
(* for blank, tab and comma, "?" for a byte no token starts with).         *)
(* Offsets are those of the code: 0 is the first byte, Len(src) is Eof.    *)
(***************************************************************************)
EXTENDS Naturals, Sequences, FiniteSetsExt

CONSTANT Sources      \* the sources a run lexes

\* What stands for a byte; "Eof" is what peek() answers past the last one.
Bytes == STRING \ {"Eof"}

ASSUME SourcesAssumption == Sources \subseteq Seq(Bytes)

VARIABLES
  src,      \* Lexer.src / Lexer.bytes
  pos,      \* Lexer.pos
  started,  \* Lexer.started: the byte order mark has been looked for
  toks,     \* the tokens next_token has returned, in order
  err,      \* the error next_token returned, or NoLexError
  diag      \* what render shows for err, or NoDiag
lexVars == <<src, pos, started, toks, err, diag>>

NoLexError  == [kind |-> "none", start |-> 0, end |-> 0]
NoDiag == [line |-> 0, column |-> 0, from |-> 0, to |-> 0, carets |-> 0]

Quote      == "\""
Backslash  == "\\"
Newline    == "\n"
Return     == "\r"
Digits     == {"0", "1"}
NameStart  == {"n", "e", "u"}
NameBytes  == NameStart \cup Digits
HexDigits  == {"e"} \cup Digits
Newlines   == {Newline, Return}          \* the lexer's line terminators
Blank      == {" "} \cup Newlines
Escapable  == {Quote, Backslash, "n"}    \* n stands for b f n r t and slash
Bom        == <<"EF", "BB", "BF">>

HasBom(s) == Len(s) >= 3 /\ SubSeq(s, 1, 3) = Bom

At(s, i) == IF i < Len(s) THEN s[i + 1] ELSE "Eof"

\* The first offset from i on whose byte is not in C: a `while` over C.
SkipWhile(s, i, C) == Min({j \in i..Len(s) : At(s, j) \notin C})
\* The first offset from i on whose byte is in C, or Eof.
SkipUntil(s, i, C) == Min({j \in i..Len(s) : At(s, j) \in C \cup {"Eof"}})

Tok(kind, a, b)   == [ok |-> TRUE,  kind |-> kind, start |-> a, end |-> b]
LexErr(kind, a, b) == [ok |-> FALSE, kind |-> kind, start |-> a, end |-> b]

skip_comment(s, i) == SkipUntil(s, i + 1, Newlines)

skip_insignificant(s, from) ==
  LET skip[i \in 0..Len(s)] ==
        CASE At(s, i) \in Blank -> skip[i + 1]
          [] At(s, i) = "#"     -> skip[skip_comment(s, i)]
          [] OTHER              -> i
  IN  skip[from]

lex_spread(s, a) ==
  IF At(s, a + 1) = "." /\ At(s, a + 2) = "."
    THEN Tok("Spread", a, a + 3) ELSE LexErr("UnexpectedChar", a, a + 1)

lex_name(s, a) == Tok("Name", a, SkipWhile(s, a + 1, NameBytes))

\* A bug: leading zeros are read on.
mut_integer_end(s, i) == SkipWhile(s, i, Digits)
integer_end(s, i) == IF At(s, i) = "0" THEN i + 1 ELSE SkipWhile(s, i, Digits)

\* Integer part, fraction and exponent in turn; each may end the number with
\* an error whose span runs from the start of the literal.
lex_number(s, a) ==
  LET i    == IF At(s, a) = "-" THEN a + 1 ELSE a
      int  == integer_end(s, i)
      dot  == At(s, int) = "."
      frac == IF dot THEN SkipWhile(s, int + 1, Digits) ELSE int
      e    == At(s, frac) = "e"
      sgn  == IF e /\ At(s, frac + 1) \in {"+", "-"} THEN frac + 2 ELSE frac + 1
      exp  == IF e THEN SkipWhile(s, sgn, Digits) ELSE frac
  IN IF At(s, i) = "0" /\ At(s, int) \in Digits THEN LexErr("InvalidNumber", a, int + 1)
     ELSE IF At(s, i) \notin Digits THEN LexErr("InvalidNumber", a, Min({i + 1, Len(s) + 1}))
     ELSE IF dot /\ frac = int + 1  THEN LexErr("InvalidNumber", a, frac)
     ELSE IF e /\ exp = sgn         THEN LexErr("InvalidNumber", a, exp)
     ELSE IF At(s, exp) \in NameStart \cup {"."} THEN LexErr("InvalidNumber", a, exp + 1)
     ELSE Tok(IF dot \/ e THEN "FloatValue" ELSE "IntValue", a, exp)

Quotes(s, i) == \A k \in 0..2 : At(s, i + k) = Quote

\* A bug: an escaped triple quote ends a block string too.
mut_lex_block_string(s, a) ==
  LET ends == {i \in (a + 3)..Len(s) : Quotes(s, i)}
  IN  IF ends = {} THEN LexErr("InvalidBlockString", a, Len(s)) ELSE Tok("BlockStringValue", a, Min(ends) + 3)
lex_block_string(s, a) ==
  LET close[i \in 0..(Len(s) + 4)] ==
        CASE i >= Len(s)                             -> LexErr("InvalidBlockString", a, i)
          [] At(s, i) = Backslash /\ Quotes(s, i + 1) -> close[i + 4]
          [] Quotes(s, i)                            -> Tok("BlockStringValue", a, i + 3)
          [] OTHER                                   -> close[i + 1]
  IN  close[a + 3]

\* A bug: any byte behind a backslash is taken for an escape.
mut_lex_escape(s, a, i) ==
  IF At(s, i + 1) = "Eof" THEN LexErr("InvalidEscape", a, i) ELSE Tok("Escape", i, i + 2)
\* Where the escape at offset i ends, or the error it is.
lex_escape(s, a, i) ==
  LET bad == {k \in 2..5 : At(s, i + k) \notin HexDigits}
  IN CASE At(s, i + 1) = "Eof"       -> LexErr("InvalidEscape", a, i)
       [] At(s, i + 1) \in Escapable -> Tok("Escape", i, i + 2)
       [] At(s, i + 1) = "u" /\ bad = {} -> Tok("Escape", i, i + 6)
       [] At(s, i + 1) = "u" /\ bad # {} ->
            LexErr("InvalidEscape", a, IF At(s, i + Min(bad)) = "Eof" THEN i ELSE i + Min(bad))
       [] OTHER -> LexErr("InvalidEscape", a, i + 2)

lex_string(s, a) ==
  LET close[i \in 0..Len(s)] ==
        CASE At(s, i) \in Newlines \cup {"Eof"} -> LexErr("InvalidString", a, i)
          [] At(s, i) = Quote                   -> Tok("StringValue", a, i + 1)
          [] At(s, i) = Backslash               -> IF lex_escape(s, a, i).ok
                                                     THEN close[lex_escape(s, a, i).end]
                                                     ELSE lex_escape(s, a, i)
          [] OTHER                              -> close[i + 1]
  IN  IF Quotes(s, a) THEN lex_block_string(s, a) ELSE close[a + 1]

\* The dispatch on the first byte of a token.
lex_token(s, a) ==
  CASE At(s, a) = "Eof"                  -> Tok("Eof", a, a)
    [] At(s, a) = "{"                    -> Tok("Punct", a, a + 1)
    [] At(s, a) = "."                    -> lex_spread(s, a)
    [] At(s, a) \in NameStart            -> lex_name(s, a)
    [] At(s, a) \in Digits \cup {"-"}    -> lex_number(s, a)
    [] At(s, a) = Quote                  -> lex_string(s, a)
    [] OTHER                             -> LexErr("UnexpectedChar", a, a + 1)

-----------------------------------------------------------------------------
LexInit ==
  /\ src \in Sources
  /\ pos = 0
  /\ started = FALSE
  /\ toks = <<>>
  /\ err = NoLexError
  /\ diag = NoDiag

Ended == \/ err # NoLexError
         \/ toks # <<>> /\ toks[Len(toks)].kind = "Eof"

\* One call of next_token, returning a token or an error.  No caller lexes on
\* after an error, so where that leaves the cursor is not modelled.
next_token ==
  /\ ~Ended
  /\ LET from == IF ~started /\ HasBom(src) THEN pos + 3 ELSE pos
         t    == lex_token(src, skip_insignificant(src, from))
     IN /\ IF t.ok
             THEN /\ toks' = Append(toks, [kind |-> t.kind, start |-> t.start, end |-> t.end])
                  /\ pos' = t.end
                  /\ UNCHANGED err
             ELSE /\ err' = [kind |-> t.kind, start |-> t.start, end |-> t.end]
                  /\ UNCHANGED <<toks, pos>>
  /\ started' = TRUE
  /\ UNCHANGED <<src, diag>>

LineEnds(s, a) == {i \in 0..(a - 1) : At(s, i) = Newline}
\* A bug: a line starts at its preceding line end.
mut_line_start(s, a) == IF LineEnds(s, a) = {} THEN 0 ELSE Max(LineEnds(s, a))
line_start(s, a) == IF LineEnds(s, a) = {} THEN 0 ELSE Max(LineEnds(s, a)) + 1

\* What render computes from the span of an error: the line's bytes are
\* src[from..to), the caret is under column.  Unlike the lexer it ends a line
\* at a line feed only, so a carriage return is a byte of the line shown.
locate(s, e) ==
  LET a     == Min({e.start, Len(s)})
      b     == Max({Min({e.end, Len(s)}), a})
      from  == line_start(s, a)
  IN [line |-> Cardinality(LineEnds(s, from)) + 1,
      column |-> a - from + 1, from |-> from, to |-> SkipUntil(s, from, {Newline}),
      carets |-> Max({b - a, 1})]

render ==
  /\ err # NoLexError
  /\ diag = NoDiag
  /\ diag' = locate(src, err)
  /\ UNCHANGED <<src, pos, started, toks, err>>

LexNext == next_token \/ render
LexSpec == LexInit /\ [][LexNext]_lexVars

-----------------------------------------------------------------------------
\* A byte between two tokens is blank, or inside a comment that nothing has
\* ended yet; at the very start it may belong to the byte order mark.
Insignificant(i) ==
  \/ At(src, i) \in Blank
  \/ \E c \in 0..i : /\ At(src, c) = "#"
                     /\ \A k \in c..i : At(src, k) \notin Newlines
                     /\ \A t \in 1..Len(toks) : ~(toks[t].start <= c /\ c < toks[t].end)
  \/ i < 3 /\ HasBom(src)

\* The tokens next_token has returned follow one another in the source, stay
\* inside it, and every byte they leave out is insignificant (skip_insignificant
\* never swallows a byte of a token, no lexing routine moves the cursor past
\* what it returned).
TokensTile ==
  /\ \A k \in 1..Len(toks) :
       /\ toks[k].start <= toks[k].end /\ toks[k].end <= Len(src)
       /\ toks[k].start = toks[k].end <=> toks[k].kind = "Eof"
       /\ k < Len(toks) => toks[k].end <= toks[k + 1].start
  /\ \A i \in 0..(Len(src) - 1) :
       /\ \E k \in 1..Len(toks) : i < toks[k].start
       /\ ~\E k \in 1..Len(toks) : toks[k].start <= i /\ i < toks[k].end
       => Insignificant(i)

\* The GraphQL grammar of numbers, as split points of the literal.
IsNumber(l, float) ==
  \E i \in 0..1, j, k \in 0..Len(l) :
    /\ i = 1 <=> l[1] = "-"
    /\ i < j /\ j <= k
    /\ \A x \in (i + 1)..j : l[x] \in Digits
    /\ l[i + 1] = "0" => j = i + 1
    /\ j < k => /\ l[j + 1] = "." /\ j + 1 < k
                /\ \A x \in (j + 2)..k : l[x] \in Digits
    /\ k < Len(l) => /\ l[k + 1] = "e" /\ l[Len(l)] \in Digits
                     /\ \A x \in (k + 2)..Len(l) :
                          l[x] \in Digits \/ (x = k + 2 /\ l[x] \in {"+", "-"})
    /\ float <=> j < Len(l)

\* How many backslashes end just before position x of l.
Backslashes(l, x) ==
  Max({n \in 0..(x - 1) : \A k \in 1..n : l[x - k] = Backslash})

\* A backslash at position x of l starts an escape of the grammar that ends in l.
EscapeAt(l, x) ==
  \/ At(l, x) \in Escapable
  \/ At(l, x) = "u" /\ \A k \in (x + 1)..(x + 4) : At(l, k) \in HexDigits

\* The three quotes at offset x close a block string whose text starts at lo:
\* none of them belongs to an escaped triple quote.
ClosesBlock(s, lo, x) ==
  /\ Quotes(s, x)
  /\ ~\E b \in lo..(x - 1) : x <= b + 3 /\ At(s, b) = Backslash /\ Quotes(s, b + 1)

\* A literal is one of the grammar.  A number reads as sign, digits, fraction
\* and exponent with nothing missing.  A string is in quotes, is not the start
\* of a block string, ends at its first quote that no backslash escapes, holds
\* no line terminator, and each backslash that is not itself escaped starts one
\* of the escapes.  A block string is in triple quotes and ends at the first
\* ones behind the opening that are not escaped.
WellFormed(s, t) ==
  LET l == SubSeq(s, t.start + 1, t.end)
  IN /\ t.kind \in {"IntValue", "FloatValue"} =>
          /\ IsNumber(l, t.kind = "FloatValue")
          /\ At(s, t.end) \notin NameBytes \cup {"."}
     /\ t.kind = "StringValue" =>
          /\ Len(l) >= 2 /\ l[1] = Quote /\ l[Len(l)] = Quote /\ ~Quotes(s, t.start)
          /\ \A x \in 2..Len(l) :
               /\ l[x] = Quote => (x = Len(l) <=> Backslashes(l, x) % 2 = 0)
               /\ l[x] = Backslash /\ Backslashes(l, x) % 2 = 0 => EscapeAt(l, x)
               /\ l[x] \notin Newlines
     /\ t.kind = "BlockStringValue" =>
          /\ Len(l) >= 6 /\ Quotes(l, 0)
          /\ \A x \in 3..(Len(l) - 3) : ClosesBlock(l, 3, x) <=> x = Len(l) - 3

\* Every literal next_token has returned is one of the grammar.
LiteralsWellFormed == \A k \in 1..Len(toks) : WellFormed(src, toks[k])

\* The token stream of a source: nothing lost, nothing overlapping, and every
\* number, string and block string a whole literal of the grammar, ended where
\* the grammar ends it (next_token and the routines it dispatches to).
TokensExact == TokensTile /\ LiteralsWellFormed

\* A diagnostic points at the byte the error starts at: counting lines and
\* columns of the source leads back to err.start, the caret is not past the
\* end of the line shown, and that line holds no line end (render slices with
\* offsets that must be in bounds and in order, or it panics).
CaretAtError ==
  diag # NoDiag =>
    /\ diag.from <= diag.to /\ diag.to <= Len(src)
    /\ \A i \in diag.from..(diag.to - 1) : At(src, i) # Newline
    /\ diag.from + diag.column - 1 = Min({err.start, Len(src)})
    /\ diag.from + diag.column - 1 <= diag.to
    /\ diag.from > 0 => At(src, diag.from - 1) = Newline
    /\ diag.line = 1 + Cardinality({i \in 0..(err.start - 1) : At(src, i) = Newline})
    /\ diag.carets >= 1

\* TokenKind and ErrorKind, of which the lexer uses these.
LexKinds == {"Eof", "Punct", "Spread", "Name", "IntValue", "FloatValue", "StringValue", "BlockStringValue",
             "none", "UnexpectedChar", "InvalidNumber", "InvalidString", "InvalidBlockString", "InvalidEscape"}
Spans == [kind : LexKinds, start : Nat, end : Nat]

\* The cursor is at the end of the last token, and nothing was lexed before the
\* byte order mark was looked for.
CursorAtEnd ==
  /\ pos = IF toks = <<>> THEN 0 ELSE toks[Len(toks)].end
  /\ \A k \in 1..Len(toks) : toks[k].end <= pos
  /\ ~started => toks = <<>>

\* The inductive invariant of the lexer.
LexInv ==
  /\ src \in Seq(Bytes) /\ pos \in 0..Len(src) /\ started \in BOOLEAN
  /\ toks \in Seq(Spans) /\ err \in Spans
  /\ CursorAtEnd
  /\ TokensExact
  /\ diag # NoDiag => err # NoLexError
  /\ CaretAtError
=============================================================================
