---------------------------- MODULE GqlLexProofs ----------------------------
(***************************************************************************)
(* The lexer on every source: its tokens tile the source, its literals     *)
(* are those of the grammar, and its diagnostics point at the error. The   *)
(* loops of lex.rs are recursive functions over the offsets of the source, *)
(* and what they answer is proved by induction from the end of the source: *)
(* TailRecursion says that a loop that goes forward has an answer, Downward*)
(* that a fact carried from each offset to the earlier ones holds at all.  *)
(***************************************************************************)
EXTENDS GqlLex, TLAPS, WellFoundedInduction, FiniteSetTheorems

\* A non-empty set of naturals has a least element.
LEMMA LeastNat ==
  ASSUME NEW T, T \subseteq Nat, T # {}
  PROVE  \E x \in T : \A y \in T : x =< y
<1> DEFINE R == OpToRel(<, Nat)
<1>1. IsWellFoundedOn(R, Nat)
  BY NatLessThanWellFounded
<1>2. \A x, y \in Nat : y < x => <<y, x>> \in R
  BY DEF OpToRel
<1> HIDE DEF R
<1>3. PICK x \in T : \A y \in T : ~(<<y, x>> \in R)
  BY <1>1, WFMin
<1>4. ASSUME NEW y \in T PROVE x =< y
  <2>1. ~(y < x)
     BY <1>2, <1>3
  <2> QED BY <2>1
<1> QED BY <1>4

\* A non-empty set of naturals with a bound has a greatest element.
LEMMA GreatestNat ==
  ASSUME NEW n \in Nat, NEW T, T \subseteq 0 .. n, T # {}
  PROVE  \E x \in T : \A y \in T : x >= y
<1> DEFINE U == {n - x : x \in T}
<1>0. U \subseteq Nat /\ U # {}
  <2>1. \A x \in T : n - x \in Nat
    OBVIOUS
  <2> QED BY <2>1
<1> HIDE DEF U
<1>1. PICK u \in U : \A y \in U : u =< y
  BY <1>0, LeastNat
<1> USE DEF U
<1>2. PICK x \in T : u = n - x
  OBVIOUS
<1>3. ASSUME NEW y \in T PROVE x >= y
  <2>1. n - y \in U OBVIOUS
  <2>2. n - x =< n - y BY <1>1, <1>2, <2>1
  <2> QED BY <2>2, x \in 0..n, y \in 0..n
<1> QED BY <1>3

\* Induction from the end of the source to its start, on a set of offsets: what
\* holds at an offset whenever it holds at all later ones holds at every offset.
LEMMA Downward ==
  ASSUME NEW L \in Nat, NEW G,
         \A i \in 0..L : (\A j \in (i + 1)..L : j \in G) => i \in G
  PROVE  \A i \in 0..L : i \in G
<1> DEFINE T == {i \in 0..L : i \notin G}
<1>1. SUFFICES ASSUME T # {} PROVE FALSE
  OBVIOUS
<1>2. PICK x \in T : \A y \in T : x >= y
  BY <1>1, GreatestNat
<1>3. \A j \in (x + 1)..L : j \in G
  BY <1>2
<1> QED BY <1>3

\* A loop over the source goes forward: from an offset it does not stop at, it
\* goes on at a later one.
Forward(L, stop, next) == \A i \in 0..L : i \notin stop => next[i] \in (i + 1)..L

\* f is what such a loop answers from each offset: val where it stops, and else
\* what it answers from the offset it goes on at.
Solves(f, n, L, stop, next, val) == f = [i \in n..L |-> IF i \in stop THEN val[i] ELSE f[next[i]]]

\* A loop that goes forward has an answer, so the recursive functions that stand
\* for the loops of the lexer are what their equations say.
LEMMA TailRecursion ==
  ASSUME NEW L \in Nat, NEW stop, NEW next, NEW val, Forward(L, stop, next)
  PROVE  \E f : Solves(f, 0, L, stop, next, val)
<1> DEFINE Sol(g, n) == Solves(g, n, L, stop, next, val)
           G == {n \in 0..L : \E g : Sol(g, n)}
<1> USE DEF Solves, Forward
<1>1. ASSUME NEW n \in 0..L, \A m \in (n + 1)..L : m \in G
      PROVE  n \in G
  <2>1. CASE n \in stop /\ n = L
    <3>1. Sol([i \in n..L |-> val[i]], n)
      BY <2>1
    <3> QED BY <3>1
  <2>2. CASE n # L
    <3>1. PICK g : Sol(g, n + 1)
      BY <1>1, <2>2
    <3> DEFINE h == [i \in n..L |-> IF i = n THEN IF n \in stop THEN val[n] ELSE g[next[n]] ELSE g[i]]
    <3>2. ASSUME NEW i \in n..L
          PROVE  h[i] = IF i \in stop THEN val[i] ELSE h[next[i]]
      <4>1. i \notin stop => next[i] \in (n + 1)..L /\ h[next[i]] = g[next[i]]
        OBVIOUS
      <4>2. CASE i = n
        BY <4>1, <4>2
      <4>3. CASE i # n
        <5>1. g[i] = IF i \in stop THEN val[i] ELSE g[next[i]]
          BY <3>1, <4>3
        <5>2. h[i] = g[i]
          BY <4>3
        <5> QED BY <4>1, <5>1, <5>2
      <4> QED BY <4>2, <4>3
    <3>3. Sol(h, n)
      BY <3>2
    <3> QED BY <3>3
  <2> QED BY <2>1, <2>2
<1> HIDE DEF G
<1>2. \A n \in 0..L : n \in G
  BY <1>1, Downward
<1>3. 0 \in G
  BY <1>2
<1> QED BY <1>3 DEF G

-----------------------------------------------------------------------------
\* The quote, the backslash and the line terminators are told apart, and are
\* none of the other bytes the lexer matches on.
LEMMA BytesDiffer ==
  /\ Quote # Backslash /\ Quote # Newline /\ Backslash # Newline
  /\ Quote # Return /\ Backslash # Return
  /\ {Quote, Backslash, Newline, Return} \cap {"Eof", "#", "u", "n", "e", "0", "1", ".", "-"} = {}
BY Zenon DEF Quote, Backslash, Newline, Return

\* A line terminator is no other byte the lexer matches on.
LEMMA TerminatorsDiffer ==
  Newlines \cap {Quote, Backslash, "Eof", "#", "u", "n", "e", "0", "1", ".", "-"} = {}
BY BytesDiffer DEF Newlines

\* The brace, the one punctuator of the model, starts no other token.
LEMMA BraceDiffers == "{" \notin {Quote, "Eof", ".", "-", "n", "e", "u", "0", "1"}
BY Zenon DEF Quote

\* peek_at answers None past the last byte of the source and nowhere else.
LEMMA AtEof ==
  ASSUME NEW s \in Seq(Bytes), NEW i \in Nat
  PROVE  /\ At(s, i) = "Eof" <=> i >= Len(s)
         /\ At(s, i) # "Eof" => i < Len(s)
BY DEF At, Bytes

\* Three quotes are a quote at each of three offsets.
LEMMA QuotesAre ==
  ASSUME NEW s \in Seq(Bytes), NEW i \in Nat
  PROVE  Quotes(s, i) <=> At(s, i) = Quote /\ At(s, i + 1) = Quote /\ At(s, i + 2) = Quote
<1>1. 0..2 = {0, 1, 2}
  OBVIOUS
<1>2. i + 0 = i
  OBVIOUS
<1> QED BY <1>1, <1>2 DEF Quotes

\* Min of a non-empty set of naturals is its least element (the usize::min of
\* the lexer's clamps).
LEMMA MinIsLeast ==
  ASSUME NEW T, T \subseteq Nat, T # {}
  PROVE  Min(T) \in T /\ \A y \in T : Min(T) =< y
BY LeastNat DEF Min

\* Max of a non-empty bounded set of naturals is its greatest element.
LEMMA MaxIsGreatest ==
  ASSUME NEW n \in Nat, NEW T, T \subseteq 0..n, T # {}
  PROVE  Max(T) \in T /\ \A y \in T : Max(T) >= y
BY GreatestNat DEF Max

\* A loop that takes bytes of a class ends in the source, behind bytes of that
\* class only and in front of one that is not.
LEMMA SkipWhileStops ==
  ASSUME NEW s \in Seq(Bytes), NEW i \in 0..Len(s), NEW C, "Eof" \notin C
  PROVE  /\ SkipWhile(s, i, C) \in i..Len(s)
         /\ At(s, SkipWhile(s, i, C)) \notin C
         /\ \A k \in i..(SkipWhile(s, i, C) - 1) : At(s, k) \in C
<1> DEFINE T == {j \in i..Len(s) : At(s, j) \notin C}
<1>1. Len(s) \in T
  BY AtEof
<1>2. T \subseteq Nat
  OBVIOUS
<1>3. Min(T) \in T /\ \A y \in T : Min(T) =< y
  BY <1>1, <1>2, MinIsLeast
<1>4. SkipWhile(s, i, C) = Min(T)
  BY DEF SkipWhile
<1>5. ASSUME NEW k \in i..(Min(T) - 1) PROVE At(s, k) \in C
  <2>1. k \in i..Len(s) /\ ~(Min(T) =< k)
    BY <1>3
  <2> QED BY <1>3, <2>1
<1> QED BY <1>3, <1>4, <1>5

\* A loop that takes bytes up to one of a class ends in the source, at a byte of
\* that class or at the end.
LEMMA SkipUntilStops ==
  ASSUME NEW s \in Seq(Bytes), NEW i \in 0..Len(s), NEW C
  PROVE  /\ SkipUntil(s, i, C) \in i..Len(s)
         /\ At(s, SkipUntil(s, i, C)) \in C \cup {"Eof"}
         /\ \A k \in i..(SkipUntil(s, i, C) - 1) : At(s, k) \notin C \cup {"Eof"}
<1> DEFINE T == {j \in i..Len(s) : At(s, j) \in C \cup {"Eof"}}
<1>1. Len(s) \in T
  BY AtEof
<1>2. T \subseteq Nat
  OBVIOUS
<1>3. Min(T) \in T /\ \A y \in T : Min(T) =< y
  BY <1>1, <1>2, MinIsLeast
<1>4. SkipUntil(s, i, C) = Min(T)
  BY DEF SkipUntil
<1>5. ASSUME NEW k \in i..(Min(T) - 1) PROVE At(s, k) \notin C \cup {"Eof"}
  <2>1. k \in i..Len(s) /\ ~(Min(T) =< k)
    BY <1>3
  <2> QED BY <1>3, <2>1
<1> QED BY <1>3, <1>4, <1>5

-----------------------------------------------------------------------------
\* The byte at j is one a scan from i may skip: a blank or a comma, or a byte of
\* a comment that started at i or later.
Skipped(s, i, j) ==
  \/ At(s, j) \in Blank
  \/ \E c \in i..j : At(s, c) = "#" /\ \A k \in c..j : At(s, k) \notin Newlines

\* skip_insignificant ends in the source and skips blanks, commas and comments
\* only: it never runs over a byte of a token.
LEMMA SkipInsignificant ==
  ASSUME NEW s \in Seq(Bytes), NEW n \in 0..Len(s)
  PROVE  /\ skip_insignificant(s, n) \in n..Len(s)
         /\ \A j \in n..(skip_insignificant(s, n) - 1) : Skipped(s, n, j)
<1> DEFINE L == Len(s)
           Body(f, i) == CASE At(s, i) \in Blank -> f[i + 1]
                           [] At(s, i) = "#"     -> f[skip_comment(s, i)]
                           [] OTHER              -> i
           IsSkip(f) == f = [i \in 0..L |-> Body(f, i)]
           stop == {i \in 0..L : At(s, i) \notin Blank \cup {"#"}}
           next == [i \in 0..L |-> IF At(s, i) \in Blank THEN i + 1 ELSE skip_comment(s, i)]
           val  == [i \in 0..L |-> i]
<1>0. L \in Nat
  OBVIOUS
<1>1. ASSUME NEW i \in 0..L, At(s, i) = "#"
      PROVE  /\ skip_comment(s, i) \in (i + 1)..L
             /\ \A k \in i..(skip_comment(s, i) - 1) : At(s, k) \notin Newlines
  <2>1. i + 1 \in 0..L
    BY <1>1, AtEof
  <2>2. /\ skip_comment(s, i) \in (i + 1)..L
        /\ \A k \in (i + 1)..(skip_comment(s, i) - 1) : At(s, k) \notin Newlines
    BY <2>1, SkipUntilStops DEF skip_comment
  <2>3. At(s, i) \notin Newlines
    BY <1>1, TerminatorsDiffer
  <2> QED BY <2>2, <2>3
<1>2. ASSUME NEW i \in 0..L, At(s, i) \in Blank
      PROVE  i + 1 \in (i + 1)..L
  <2>1. At(s, i) # "Eof"
    BY ONLY At(s, i) \in Blank, TerminatorsDiffer DEF Blank
  <2>2. i < Len(s)
    BY <2>1, AtEof
  <2> QED BY <2>2
<1>3. ASSUME NEW i \in 0..L, i \notin stop PROVE next[i] \in (i + 1)..L
  <2>1. next[i] = IF At(s, i) \in Blank THEN i + 1 ELSE skip_comment(s, i)
    OBVIOUS
  <2>2. At(s, i) \in Blank \/ At(s, i) = "#"
    BY <1>3
  <2> QED BY <1>1, <1>2, <2>1, <2>2
<1>4. PICK f : Solves(f, 0, L, stop, next, val)
  <2>1. Forward(L, stop, next)
    BY <1>3 DEF Forward
  <2> HIDE DEF stop, next, val, L
  <2> QED BY <1>0, <2>1, TailRecursion
<1>5. \A i \in 0..L : (IF i \in stop THEN val[i] ELSE f[next[i]]) = Body(f, i)
  BY TerminatorsDiffer DEF Blank
<1>6. IsSkip(f)
  BY <1>4, <1>5 DEF Solves
<1>7. PICK g : IsSkip(g) /\ skip_insignificant(s, n) = g[n]
  BY <1>6 DEF skip_insignificant
<1> DEFINE G == {i \in 0..L : /\ g[i] \in i..L
                              /\ \A j \in i..(g[i] - 1) : Skipped(s, i, j)}
<1>8. ASSUME NEW i \in 0..L, \A j \in (i + 1)..L : j \in G
      PROVE  i \in G
  <2>0. g[i] = Body(g, i)
    BY <1>7
  <2>1. CASE At(s, i) \in Blank
    <3>2. i + 1 \in (i + 1)..L
      BY <1>2, <2>1
    <3>0. i + 1 \in G
      <4> HIDE DEF G
      <4> QED BY <1>8, <3>2
    <3>1. g[i] = g[i + 1] /\ i + 1 \in G
      BY <2>0, <2>1, <3>0, TerminatorsDiffer DEF Blank
    <3>3. g[i] \in (i + 1)..L /\ \A j \in (i + 1)..(g[i] - 1) : Skipped(s, i + 1, j)
      BY <3>1
    <3>4. \A j \in (i + 1)..(g[i] - 1) : Skipped(s, i, j)
      BY <3>3 DEF Skipped
    <3>5. Skipped(s, i, i)
      BY <2>1 DEF Skipped
    <3> QED BY <3>2, <3>3, <3>4, <3>5
  <2>2. CASE At(s, i) = "#"
    <3>1. g[i] = g[skip_comment(s, i)] /\ skip_comment(s, i) \in G
      BY <2>0, <2>2, <1>1, <1>8, TerminatorsDiffer DEF Blank
    <3>2. \A j \in i..(skip_comment(s, i) - 1) : Skipped(s, i, j)
      BY <2>2, <1>1 DEF Skipped
    <3>3. \A j \in skip_comment(s, i)..(g[i] - 1) : Skipped(s, skip_comment(s, i), j)
      BY <3>1
    <3>4. skip_comment(s, i) \in (i + 1)..L
      BY <1>1, <2>2
    <3>5. \A j \in skip_comment(s, i)..(g[i] - 1) : Skipped(s, i, j)
      BY <3>3, <3>4 DEF Skipped
    <3> QED BY <3>1, <3>2, <3>4, <3>5
  <2>3. CASE At(s, i) \notin Blank /\ At(s, i) # "#"
    BY <2>0, <2>3
  <2> QED BY <2>1, <2>2, <2>3
<1>9. \A i \in 0..L : i \in G
  <2> HIDE DEF G
  <2> QED BY <1>0, <1>8, Downward
<1> QED BY <1>7, <1>9

-----------------------------------------------------------------------------
\* What each lexing routine returns from a: a token or an error that starts at a,
\* and a token is not empty and ends in the source.
Shape(s, a, t) ==
  /\ t.ok \in BOOLEAN /\ t.start = a /\ t.end \in Nat
  /\ t.ok => a < t.end /\ t.end =< Len(s)

\* lex_name returns a name of at least one byte.
LEMMA NameShape ==
  ASSUME NEW s \in Seq(Bytes), NEW a \in 0..Len(s), At(s, a) \in NameStart
  PROVE  Shape(s, a, lex_name(s, a)) /\ lex_name(s, a).kind = "Name"
<1>1. At(s, a) # "Eof" /\ "Eof" \notin NameBytes
  BY DEF NameStart, NameBytes, Digits
<1>2. a + 1 \in 0..Len(s)
  BY <1>1, AtEof
<1> QED BY <1>1, <1>2, SkipWhileStops DEF Shape, lex_name, Tok

\* lex_spread returns three dots of the source, or reports the first.
LEMMA SpreadShape ==
  ASSUME NEW s \in Seq(Bytes), NEW a \in 0..Len(s), At(s, a) = "."
  PROVE  Shape(s, a, lex_spread(s, a)) /\ lex_spread(s, a).kind \in {"Spread", "UnexpectedChar"}
<1>1. At(s, a + 2) = "." => a + 3 =< Len(s)
  BY AtEof
<1> QED BY <1>1 DEF Shape, lex_spread, Tok, LexErr

-----------------------------------------------------------------------------
\* The bytes of a token, as the sequence cut out of the source.
LEMMA LiteralAt ==
  ASSUME NEW s \in Seq(Bytes), NEW a \in 0..Len(s), NEW e \in a..Len(s)
  PROVE  /\ SubSeq(s, a + 1, e) \in Seq(Bytes)
         /\ Len(SubSeq(s, a + 1, e)) = e - a
         /\ \A x \in 1..(e - a) : SubSeq(s, a + 1, e)[x] = At(s, a + x - 1)
BY DEF At

\* lex_number accepts numbers of the grammar only: sign, digits without a
\* leading zero, fraction and exponent with a digit each, and no letter or dot
\* behind; its early returns are taken in the order of the code.
LEMMA NumberShape ==
  ASSUME NEW s \in Seq(Bytes), NEW a \in 0..Len(s), At(s, a) \in Digits \cup {"-"}
  PROVE  LET t == lex_number(s, a)
         IN  /\ Shape(s, a, t)
             /\ t.kind \in {"InvalidNumber", "IntValue", "FloatValue"}
             /\ t.ok => /\ IsNumber(SubSeq(s, a + 1, t.end), t.kind = "FloatValue")
                        /\ At(s, t.end) \notin NameBytes \cup {"."}
<1> DEFINE i    == IF At(s, a) = "-" THEN a + 1 ELSE a
           int  == integer_end(s, i)
           dot  == At(s, int) = "."
           frac == IF dot THEN SkipWhile(s, int + 1, Digits) ELSE int
           e    == At(s, frac) = "e"
           sgn  == IF e /\ At(s, frac + 1) \in {"+", "-"} THEN frac + 2 ELSE frac + 1
           exp  == IF e THEN SkipWhile(s, sgn, Digits) ELSE frac
           t    == lex_number(s, a)
\* The local definitions of lex_number, from here on by their names.
<1>a. i = IF At(s, a) = "-" THEN a + 1 ELSE a
  OBVIOUS
<1>b. int = integer_end(s, i)
  OBVIOUS
<1>c. frac = IF dot THEN SkipWhile(s, int + 1, Digits) ELSE int
  OBVIOUS
<1>d. sgn = IF e /\ At(s, frac + 1) \in {"+", "-"} THEN frac + 2 ELSE frac + 1
  OBVIOUS
<1>e. exp = IF e THEN SkipWhile(s, sgn, Digits) ELSE frac
  OBVIOUS
<1>t. t = IF At(s, i) = "0" /\ At(s, int) \in Digits THEN LexErr("InvalidNumber", a, int + 1)
          ELSE IF At(s, i) \notin Digits THEN LexErr("InvalidNumber", a, Min({i + 1, Len(s) + 1}))
          ELSE IF dot /\ frac = int + 1  THEN LexErr("InvalidNumber", a, frac)
          ELSE IF e /\ exp = sgn         THEN LexErr("InvalidNumber", a, exp)
          ELSE IF At(s, exp) \in NameStart \cup {"."} THEN LexErr("InvalidNumber", a, exp + 1)
          ELSE Tok(IF dot \/ e THEN "FloatValue" ELSE "IntValue", a, exp)
  BY DEF lex_number
<1> HIDE DEF i, int, frac, sgn, exp, t
<1>0. "Eof" \notin Digits /\ "-" \notin Digits /\ "." \notin Digits /\ "e" \notin Digits
  BY DEF Digits
<1>1. i \in 0..Len(s)
  <2>1. At(s, a) # "Eof"
    BY <1>0
  <2> QED BY <2>1, <1>a, AtEof
<1> SUFFICES /\ Shape(s, a, t)
             /\ t.kind \in {"InvalidNumber", "IntValue", "FloatValue"}
             /\ t.ok => /\ IsNumber(SubSeq(s, a + 1, t.end), t.kind = "FloatValue")
                        /\ At(s, t.end) \notin NameBytes \cup {"."}
  BY DEF t
<1>2. ASSUME NEW n \in Nat, t = LexErr("InvalidNumber", a, n)
      PROVE  /\ Shape(s, a, t)
             /\ t.kind = "InvalidNumber"
             /\ ~t.ok
  BY <1>2 DEF Shape, LexErr
<1>3. CASE At(s, i) \notin Digits
  <2>1. At(s, i) # "0"
    BY <1>3 DEF Digits
  <2>2. t = LexErr("InvalidNumber", a, Min({i + 1, Len(s) + 1}))
    BY <1>3, <2>1, <1>t
  <2>3. Min({i + 1, Len(s) + 1}) \in Nat
    <3>1. {i + 1, Len(s) + 1} \subseteq Nat /\ {i + 1, Len(s) + 1} # {}
      BY <1>1
    <3> QED BY <3>1, MinIsLeast
  <2> QED BY <1>2, <2>2, <2>3
<1>4. CASE At(s, i) = "0" /\ At(s, int) \in Digits
  <2>1. int \in Nat
    BY <1>1, <1>4, <1>b DEF integer_end
  <2> QED BY <1>2, <1>4, <2>1, <1>t DEF Digits
<1>5. CASE At(s, i) \in Digits /\ ~(At(s, i) = "0" /\ At(s, int) \in Digits)
  <2>1. /\ int \in (i + 1)..Len(s)
        /\ At(s, int) \notin Digits
        /\ \A k \in i..(int - 1) : At(s, k) \in Digits
        /\ At(s, i) = "0" => int = i + 1
    <3>1. i < Len(s)
      BY <1>0, <1>1, <1>5, AtEof
    <3>2. CASE At(s, i) = "0"
      BY <1>1, <1>5, <1>b, <3>1, <3>2 DEF integer_end
    <3>3. CASE At(s, i) # "0"
      <4>1. int = SkipWhile(s, i, Digits)
        BY <3>3, <1>b DEF integer_end
      <4>2. int # i
        BY <1>0, <1>1, <1>5, <4>1, SkipWhileStops
      <4> QED BY <1>0, <1>1, <3>3, <4>1, <4>2, SkipWhileStops
    <3> QED BY <3>2, <3>3
  <2>2. /\ frac \in int..Len(s)
        /\ At(s, frac) \notin Digits
        /\ dot => frac >= int + 1 /\ \A k \in (int + 1)..(frac - 1) : At(s, k) \in Digits
        /\ ~dot => frac = int
    <3>1. CASE dot
      <4>1. int + 1 \in 0..Len(s)
        BY <1>1, <2>1, <3>1, AtEof
      <4> QED BY <1>0, <1>1, <1>c, <2>1, <3>1, <4>1, SkipWhileStops
    <3>2. CASE ~dot
      BY <1>1, <1>c, <2>1, <3>2
    <3> QED BY <3>1, <3>2
  <2>3. /\ exp \in frac..Len(s)
        /\ At(s, exp) \notin Digits
        /\ e => /\ sgn \in (frac + 1)..exp
                /\ \A k \in sgn..(exp - 1) : At(s, k) \in Digits
                /\ sgn = frac + 1 \/ (sgn = frac + 2 /\ At(s, frac + 1) \in {"+", "-"})
        /\ ~e => exp = frac
    <3>0. frac \in 0..Len(s)
      BY <1>1, <2>1, <2>2
    <3>1. CASE e
      <4>1. frac + 1 \in 0..Len(s)
        BY <3>0, <3>1, AtEof
      <4>2. sgn \in {frac + 1, frac + 2} /\ (sgn = frac + 2 => At(s, frac + 1) \in {"+", "-"})
        BY <1>d, <3>0
      <4>3. sgn \in 0..Len(s)
        <5>1. At(s, frac + 1) \in {"+", "-"} => frac + 1 < Len(s)
          BY <3>0, AtEof
        <5> QED BY <3>0, <4>1, <4>2, <5>1
      <4>4. exp = SkipWhile(s, sgn, Digits)
        BY <1>e, <3>1
      <4>5. /\ exp \in sgn..Len(s) /\ At(s, exp) \notin Digits
            /\ \A k \in sgn..(exp - 1) : At(s, k) \in Digits
        BY <1>0, <4>3, <4>4, SkipWhileStops
      <4> QED BY <3>0, <3>1, <4>2, <4>3, <4>5
    <3>2. CASE ~e
      BY <3>0, <1>e, <2>2, <3>2
    <3> QED BY <3>1, <3>2
  <2>n. i \in Nat /\ int \in Nat /\ frac \in Nat /\ exp \in Nat
    BY <1>1, <2>1, <2>2, <2>3
  <2>4. CASE dot /\ frac = int + 1
    BY <1>2, <1>5, <1>t, <2>4, <2>n
  <2>5. CASE ~(dot /\ frac = int + 1) /\ e /\ exp = sgn
    BY <1>2, <1>5, <1>t, <2>5, <2>n
  <2>6. CASE ~(dot /\ frac = int + 1) /\ ~(e /\ exp = sgn) /\ At(s, exp) \in NameStart \cup {"."}
    BY <1>2, <1>5, <1>t, <2>6, <2>n
  <2>7. CASE ~(dot /\ frac = int + 1) /\ ~(e /\ exp = sgn) /\ At(s, exp) \notin NameStart \cup {"."}
    <3>1. t = Tok(IF dot \/ e THEN "FloatValue" ELSE "IntValue", a, exp)
      BY <1>5, <1>t, <2>7
    <3>2. At(s, exp) \notin NameBytes \cup {"."}
      BY <2>3, <2>7 DEF NameBytes
    <3>3. t.kind = "FloatValue" <=> dot \/ e
      BY <3>1 DEF Tok
    <3>4. exp \in (a + 1)..Len(s)
      BY <1>a, <1>1, <2>1, <2>2, <2>3
    <3>5. PICK l : l = SubSeq(s, a + 1, exp)
      OBVIOUS
    <3>6. Len(l) = exp - a /\ \A x \in 1..(exp - a) : l[x] = At(s, a + x - 1)
      <4>1. exp \in a..Len(s)
        BY <3>4
      <4>2. /\ Len(SubSeq(s, a + 1, exp)) = exp - a
            /\ \A x \in 1..(exp - a) : SubSeq(s, a + 1, exp)[x] = At(s, a + x - 1)
        BY <4>1, LiteralAt
      <4> QED BY <3>5, <4>2
    <3>7. IsNumber(l, t.kind = "FloatValue")
      <4> DEFINE p == i - a   q == int - a   r == frac - a
      <4>0. p \in 0..1 /\ q \in 0..Len(l) /\ r \in 0..Len(l) /\ p < q /\ q =< r
        BY <1>a, <1>1, <2>1, <2>2, <2>3, <3>4, <3>6
      <4>1. p = 1 <=> l[1] = "-"
        <5>1. l[1] = At(s, a)
          BY <3>4, <3>6
        <5> QED BY <1>a, <5>1
      <4>2. ASSUME NEW x \in (p + 1)..q PROVE l[x] \in Digits
        <5>1. a + x - 1 \in i..(int - 1) /\ x \in 1..(exp - a)
          BY <4>0, <3>6, <2>n
        <5> QED BY <2>1, <3>6, <5>1
      <4>3. l[p + 1] = "0" => q = p + 1
        <5>1. p + 1 \in 1..(exp - a) /\ a + (p + 1) - 1 = i
          BY <4>0, <3>6, <2>n
        <5>2. l[p + 1] = At(s, i)
          BY <3>6, <5>1
        <5> QED BY <2>1, <5>2, <2>n
      <4>4. ASSUME q < r
            PROVE  /\ l[q + 1] = "." /\ q + 1 < r
                   /\ \A x \in (q + 2)..r : l[x] \in Digits
        <5>1. dot /\ frac # int + 1
          BY <4>4, <2>2, <2>7
        <5>2. q + 1 \in 1..(exp - a) /\ a + (q + 1) - 1 = int
          BY <4>0, <4>4, <3>6, <2>n
        <5>3. l[q + 1] = "."
          BY <3>6, <5>1, <5>2
        <5>4. q + 1 < r
          BY <5>1, <2>2, <2>n
        <5>5. ASSUME NEW x \in (q + 2)..r PROVE l[x] \in Digits
          <6>1. a + x - 1 \in (int + 1)..(frac - 1) /\ x \in 1..(exp - a)
            BY <4>0, <3>6, <2>n
          <6> QED BY <2>2, <3>6, <5>1, <6>1
        <5> QED BY <5>3, <5>4, <5>5
      <4>5. ASSUME r < Len(l)
            PROVE  /\ l[r + 1] = "e" /\ l[Len(l)] \in Digits
                   /\ \A x \in (r + 2)..Len(l) :
                        l[x] \in Digits \/ (x = r + 2 /\ l[x] \in {"+", "-"})
        <5>1. e /\ sgn \in (frac + 1)..(exp - 1)
          BY <4>5, <2>3, <2>7, <3>6, <2>n
        <5>2. r + 1 \in 1..(exp - a) /\ a + (r + 1) - 1 = frac
          BY <4>0, <4>5, <3>6, <2>n
        <5>3. l[r + 1] = "e"
          BY <3>6, <5>1, <5>2
        <5>4. exp - 1 \in sgn..(exp - 1) /\ Len(l) \in 1..(exp - a) /\ a + Len(l) - 1 = exp - 1
          BY <5>1, <3>4, <3>6, <2>n
        <5>5. l[Len(l)] \in Digits
          BY <2>3, <3>6, <5>1, <5>4
        <5>6. ASSUME NEW x \in (r + 2)..Len(l)
              PROVE  l[x] \in Digits \/ (x = r + 2 /\ l[x] \in {"+", "-"})
          <6>1. a + x - 1 \in (frac + 1)..(exp - 1) /\ x \in 1..(exp - a)
            BY <4>0, <3>6, <2>n
          <6>2. CASE a + x - 1 >= sgn
            <7>1. a + x - 1 \in sgn..(exp - 1)
              BY <5>1, <6>1, <6>2
            <7> QED BY <2>3, <3>6, <5>1, <6>1, <7>1
          <6>3. CASE a + x - 1 < sgn
            <7>1. sgn = frac + 2 /\ a + x - 1 = frac + 1 /\ x = r + 2 /\ At(s, frac + 1) \in {"+", "-"}
              BY <2>3, <2>n, <5>1, <6>1, <6>3
            <7> QED BY <3>6, <6>1, <7>1
          <6> QED BY <5>1, <6>1, <6>2, <6>3, <2>n
        <5> QED BY <5>3, <5>5, <5>6
      <4>6. t.kind = "FloatValue" <=> q < Len(l)
        <5>1. q < Len(l) <=> int < exp
          BY <3>6, <2>n
        <5>2. dot \/ e <=> int < exp
          BY <2>1, <2>2, <2>3, <2>7, <2>n
        <5> QED BY <3>3, <5>1, <5>2
      <4> HIDE DEF p, q, r
      <4>7. \E ii \in 0..1, jj, kk \in 0..Len(l) : ii = p /\ jj = q /\ kk = r
        BY <4>0
      <4> QED BY <4>0, <4>1, <4>2, <4>3, <4>4, <4>5, <4>6, <4>7 DEF IsNumber
    <3> QED BY <3>1, <3>2, <3>3, <3>4, <3>5, <3>7 DEF Shape, Tok
  <2> QED BY <2>4, <2>5, <2>6, <2>7
<1> QED BY <1>3, <1>4, <1>5

-----------------------------------------------------------------------------
\* The offset i lies behind the backslash of an escaped triple quote whose text
\* starts at lo or later: the loop of a block string jumps over it.
Shadowed(s, lo, i) == \E b \in lo..(i - 1) : i <= b + 3 /\ At(s, b) = Backslash /\ Quotes(s, b + 1)

\* From an offset the loop of a block string is at, the first unescaped triple
\* quote is at m.
ClosesAt(s, lo, i, m) == \A x \in i..m : ClosesBlock(s, lo, x) <=> x = m

\* An offset in front of which nothing is escaped and that starts neither an
\* escape nor a triple quote does not close the block, nor shadows the next.
LEMMA BlockByte ==
  ASSUME NEW s \in Seq(Bytes), NEW lo \in Nat, NEW i \in Nat, NEW m \in Nat, i < m,
         ~Shadowed(s, lo, i), ~Quotes(s, i), ~(At(s, i) = Backslash /\ Quotes(s, i + 1))
  PROVE  /\ ~Shadowed(s, lo, i + 1)
         /\ ClosesAt(s, lo, i + 1, m) => ClosesAt(s, lo, i, m)
<1>1. ~Shadowed(s, lo, i + 1)
  <2> SUFFICES ASSUME NEW b \in lo..i, i + 1 <= b + 3, At(s, b) = Backslash, Quotes(s, b + 1)
               PROVE  FALSE
    BY DEF Shadowed
  <2>1. b # i
    OBVIOUS
  <2>2. b \in lo..(i - 1) /\ i <= b + 3
    BY <2>1
  <2> QED BY <2>2 DEF Shadowed
<1>2. ASSUME ClosesAt(s, lo, i + 1, m) PROVE ClosesAt(s, lo, i, m)
  <2>1. ASSUME NEW x \in i..m PROVE ClosesBlock(s, lo, x) <=> x = m
    <3>1. CASE x = i
      BY <3>1 DEF ClosesBlock
    <3>2. CASE x # i
      <4>1. x \in (i + 1)..m
        BY <3>2
      <4> QED BY <1>2, <4>1 DEF ClosesAt
    <3> QED BY <3>1, <3>2
  <2> QED BY <2>1 DEF ClosesAt
<1> QED BY <1>1, <1>2

\* An escaped triple quote closes nothing, and the loop goes on behind it at an
\* offset that nothing escapes.
LEMMA BlockEscape ==
  ASSUME NEW s \in Seq(Bytes), NEW lo \in Nat, NEW i \in Nat, NEW m \in Nat, lo <= i, i + 4 <= m,
         At(s, i) = Backslash, Quotes(s, i + 1)
  PROVE  /\ ~Shadowed(s, lo, i + 4)
         /\ ClosesAt(s, lo, i + 4, m) => ClosesAt(s, lo, i, m)
<1>0. At(s, i + 1) = Quote /\ At(s, i + 2) = Quote /\ At(s, i + 3) = Quote
  <2>1. i + 1 \in Nat /\ (i + 1) + 1 = i + 2 /\ (i + 1) + 2 = i + 3
    OBVIOUS
  <2> QED BY <2>1, QuotesAre
<1>1. ~Shadowed(s, lo, i + 4)
  <2> SUFFICES ASSUME NEW b \in lo..(i + 3), i + 4 <= b + 3, At(s, b) = Backslash
               PROVE  FALSE
    BY DEF Shadowed
  <2>1. b = i + 1 \/ b = i + 2 \/ b = i + 3
    OBVIOUS
  <2> QED BY <1>0, <2>1, BytesDiffer
<1>2. ASSUME ClosesAt(s, lo, i + 4, m) PROVE ClosesAt(s, lo, i, m)
  <2>1. ASSUME NEW x \in i..m PROVE ClosesBlock(s, lo, x) <=> x = m
    <3>1. CASE x = i
      <4>1. ~Quotes(s, i)
        BY QuotesAre, BytesDiffer
      <4> QED BY <3>1, <4>1 DEF ClosesBlock
    <3>2. CASE x \in (i + 1)..(i + 3)
      <4>1. i \in lo..(x - 1) /\ x <= i + 3 /\ x # m
        BY <3>2
      <4>2. ~ClosesBlock(s, lo, x)
        BY <4>1 DEF ClosesBlock
      <4> QED BY <4>1, <4>2
    <3>3. CASE x \in (i + 4)..m
      BY <1>2, <3>3 DEF ClosesAt
    <3> QED BY <3>1, <3>2, <3>3
  <2> QED BY <2>1 DEF ClosesAt
<1> QED BY <1>1, <1>2

\* lex_block_string returns a token that ends with the first three quotes behind
\* the opening ones that are not escaped.
LEMMA BlockStringShape ==
  ASSUME NEW s \in Seq(Bytes), NEW a \in 0..Len(s), Quotes(s, a)
  PROVE  LET t == lex_block_string(s, a)
         IN  /\ Shape(s, a, t)
             /\ t.kind \in {"InvalidBlockString", "BlockStringValue"}
             /\ t.ok => t.end >= a + 6 /\ ClosesAt(s, a + 3, a + 3, t.end - 3)
<1> DEFINE L == Len(s) + 4
           Body(f, i) == CASE i >= Len(s)                         -> LexErr("InvalidBlockString", a, i)
                           [] At(s, i) = Backslash /\ Quotes(s, i + 1) -> f[i + 4]
                           [] Quotes(s, i)                        -> Tok("BlockStringValue", a, i + 3)
                           [] OTHER                               -> f[i + 1]
           IsClose(f) == f = [i \in 0..L |-> Body(f, i)]
           Escaped(i) == At(s, i) = Backslash /\ Quotes(s, i + 1)
           stop == {i \in 0..L : i >= Len(s) \/ Quotes(s, i)}
           next == [i \in 0..L |-> IF Escaped(i) THEN i + 4 ELSE i + 1]
           val  == [i \in 0..L |-> IF i >= Len(s) THEN LexErr("InvalidBlockString", a, i)
                                                  ELSE Tok("BlockStringValue", a, i + 3)]
<1>0. L \in Nat
  OBVIOUS
<1>1. \A i \in 0..L : /\ i >= Len(s) => ~Escaped(i) /\ ~Quotes(s, i)
                      /\ Escaped(i) => ~Quotes(s, i)
                      /\ Quotes(s, i) => i + 3 =< Len(s)
  <2> SUFFICES ASSUME NEW i \in 0..L
               PROVE  /\ i >= Len(s) => ~Escaped(i) /\ ~Quotes(s, i)
                      /\ Escaped(i) => ~Quotes(s, i)
                      /\ Quotes(s, i) => i + 3 =< Len(s)
    OBVIOUS
  <2>1. i \in Nat /\ i + 2 \in Nat
    OBVIOUS
  <2>2. Quotes(s, i) => At(s, i) = Quote /\ At(s, i + 2) = Quote
    BY <2>1, QuotesAre
  <2>3. (At(s, i) # "Eof" => i < Len(s)) /\ (At(s, i + 2) # "Eof" => i + 2 < Len(s))
    BY <2>1, AtEof
  <2>4. At(s, i) \in {Backslash, Quote} => i < Len(s)
    BY <2>3, BytesDiffer
  <2>5. Quotes(s, i) => i + 2 < Len(s)
    BY <2>2, <2>3, BytesDiffer
  <2>6. Escaped(i) => i < Len(s) /\ ~Quotes(s, i)
    BY <2>2, <2>4, BytesDiffer
  <2>7. Quotes(s, i) => i + 3 =< Len(s) /\ i < Len(s)
    BY <2>1, <2>5
  <2>8. i < Len(s) <=> ~(i >= Len(s))
    BY <2>1
  <2> HIDE DEF L, Escaped
  <2> QED BY <2>6, <2>7, <2>8
<1>2. Forward(L, stop, next)
  BY DEF Forward
<1>3. PICK f : Solves(f, 0, L, stop, next, val)
  <2> HIDE DEF stop, next, val, L
  <2> QED BY <1>0, <1>2, TailRecursion
<1>4. \A i \in 0..L : (IF i \in stop THEN val[i] ELSE f[next[i]]) = Body(f, i)
  BY <1>1
<1>5. IsClose(f)
  BY <1>3, <1>4 DEF Solves
<1>6. PICK g : IsClose(g) /\ lex_block_string(s, a) = g[a + 3]
  BY <1>5 DEF lex_block_string
<1> DEFINE Closed(i, t) == /\ t.ok \in BOOLEAN /\ t.start = a /\ t.end \in Nat
                           /\ t.kind \in {"InvalidBlockString", "BlockStringValue"}
                           /\ t.ok => /\ t.end >= i + 3 /\ t.end =< Len(s)
                                      /\ ~Shadowed(s, a + 3, i) => ClosesAt(s, a + 3, i, t.end - 3)
           G == {i \in 0..L : a + 3 =< i => Closed(i, g[i])}
<1>7. ASSUME NEW i \in 0..L, \A j \in (i + 1)..L : j \in G
      PROVE  i \in G
  <2> SUFFICES ASSUME a + 3 =< i PROVE Closed(i, g[i])
    OBVIOUS
  <2>0. g[i] = Body(g, i)
    BY <1>6
  <2>1. CASE i >= Len(s)
    <3>1. g[i] = LexErr("InvalidBlockString", a, i)
      BY <1>1, <2>0, <2>1
    <3>2. Closed(i, LexErr("InvalidBlockString", a, i))
      BY DEF LexErr
    <3> QED BY <3>1, <3>2
  <2>2. CASE i < Len(s) /\ Quotes(s, i)
    <3>1. g[i] = Tok("BlockStringValue", a, i + 3)
      BY <1>1, <2>0, <2>2
    <3>2. i + 3 =< Len(s) /\ (i + 3) - 3 = i
      BY <1>1, <2>2
    <3>3. ~Shadowed(s, a + 3, i) => ClosesAt(s, a + 3, i, i)
      BY <2>2 DEF ClosesAt, ClosesBlock, Shadowed
    <3>4. Closed(i, Tok("BlockStringValue", a, i + 3))
      BY <3>2, <3>3 DEF Tok
    <3> QED BY <3>1, <3>4
  <2>3. CASE i < Len(s) /\ ~Quotes(s, i) /\ ~Escaped(i)
    <3>1. g[i] = g[i + 1]
      BY <2>0, <2>3
    <3>2. i + 1 \in (i + 1)..L /\ a + 3 \in Nat
      BY <2>3
    <3>3. Closed(i + 1, g[i])
      BY <1>7, <3>1, <3>2
    <3>4. ASSUME g[i].ok, ~Shadowed(s, a + 3, i) PROVE ClosesAt(s, a + 3, i, g[i].end - 3)
      <4> DEFINE m == g[i].end - 3
      <4>1. m \in Nat /\ i < m
        BY <3>3, <3>4
      <4>2. ~Shadowed(s, a + 3, i + 1) => ClosesAt(s, a + 3, i + 1, m)
        BY <3>3, <3>4
      <4> HIDE DEF m
      <4>3. ClosesAt(s, a + 3, i, m)
        BY <2>3, <3>2, <3>4, <4>1, <4>2, BlockByte
      <4> QED BY <4>3 DEF m
    <3> QED BY <3>3, <3>4
  <2>4. CASE Escaped(i)
    <3>1. i < Len(s) /\ ~Quotes(s, i)
      BY <1>1, <2>4
    <3>2. g[i] = g[i + 4]
      BY <2>0, <2>4, <3>1
    <3>3. i + 4 \in (i + 1)..L /\ a + 3 \in Nat
      BY <3>1
    <3>4. Closed(i + 4, g[i])
      BY <1>7, <3>2, <3>3
    <3>5. ASSUME g[i].ok PROVE ClosesAt(s, a + 3, i, g[i].end - 3)
      <4> DEFINE m == g[i].end - 3
      <4>1. m \in Nat /\ i + 4 <= m
        BY <3>4, <3>5
      <4>2. ~Shadowed(s, a + 3, i + 4) => ClosesAt(s, a + 3, i + 4, m)
        BY <3>4, <3>5
      <4> HIDE DEF m
      <4>3. ClosesAt(s, a + 3, i, m)
        BY <2>4, <3>3, <4>1, <4>2, BlockEscape
      <4> QED BY <4>3 DEF m
    <3> QED BY <3>4, <3>5
  <2> QED BY <2>1, <2>2, <2>3, <2>4
<1>8. \A i \in 0..L : i \in G
  <2> HIDE DEF G
  <2> QED BY <1>0, <1>7, Downward
<1>9. a + 3 \in 0..L /\ a + 3 =< Len(s)
  BY <1>1
<1>10. Closed(a + 3, lex_block_string(s, a))
  <2>1. a + 3 \in G /\ a + 3 =< a + 3
    <3> HIDE DEF G
    <3> QED BY <1>8, <1>9
  <2>2. Closed(a + 3, g[a + 3])
    <3> HIDE DEF Closed
    <3> QED BY <2>1
  <2> QED BY <1>6, <2>2
<1>11. ~Shadowed(s, a + 3, a + 3)
  <2>1. (a + 3)..((a + 3) - 1) = {}
    OBVIOUS
  <2> QED BY <2>1 DEF Shadowed
<1> QED BY <1>10, <1>11 DEF Shape

-----------------------------------------------------------------------------
\* The lengths of the runs of backslashes that end in front of i and do not
\* reach back beyond a, and the longest of them.
RunsBefore(s, a, i) == {n \in 0..(i - a) : \A k \in 1..n : At(s, i - k) = Backslash}
Run(s, a, i) == Max(RunsBefore(s, a, i))

\* The longest run exists: it is one of the runs and none is longer.
LEMMA RunIs ==
  ASSUME NEW s \in Seq(Bytes), NEW a \in Nat, NEW i \in Nat, a =< i
  PROVE  /\ Run(s, a, i) \in RunsBefore(s, a, i) /\ Run(s, a, i) \in Nat
         /\ \A n \in RunsBefore(s, a, i) : n =< Run(s, a, i)
<1>1. 0 \in RunsBefore(s, a, i) /\ RunsBefore(s, a, i) \subseteq 0..(i - a) /\ i - a \in Nat
  BY DEF RunsBefore
<1>2. /\ Max(RunsBefore(s, a, i)) \in RunsBefore(s, a, i)
      /\ \A n \in RunsBefore(s, a, i) : Max(RunsBefore(s, a, i)) >= n
  BY <1>1, MaxIsGreatest
<1> QED BY <1>1, <1>2 DEF Run

\* A backslash makes the run one longer, and any other byte ends it.
LEMMA RunStep ==
  ASSUME NEW s \in Seq(Bytes), NEW a \in Nat, NEW i \in Nat, a =< i
  PROVE  Run(s, a, i + 1) = IF At(s, i) = Backslash THEN Run(s, a, i) + 1 ELSE 0
<1> DEFINE m == Run(s, a, i)   n == Run(s, a, i + 1)
<1>1. m \in RunsBefore(s, a, i) /\ m \in Nat /\ \A k \in RunsBefore(s, a, i) : k =< m
  BY RunIs
<1>2. n \in RunsBefore(s, a, i + 1) /\ n \in Nat /\ \A k \in RunsBefore(s, a, i + 1) : k =< n
  <2>1. i + 1 \in Nat /\ a =< i + 1
    OBVIOUS
  <2> QED BY <2>1, RunIs
<1> HIDE DEF m, n
<1>3. CASE At(s, i) # Backslash
  <2>1. n # 0 => At(s, (i + 1) - 1) = Backslash
    BY <1>2 DEF RunsBefore
  <2> QED BY <1>2, <1>3, <2>1 DEF n
<1>4. CASE At(s, i) = Backslash
  <2>1. m + 1 \in RunsBefore(s, a, i + 1)
    <3>1. ASSUME NEW k \in 1..(m + 1) PROVE At(s, (i + 1) - k) = Backslash
      <4>1. CASE k = 1
        BY <1>4, <4>1
      <4>2. CASE k # 1
        <5>1. k - 1 \in 1..m /\ (i + 1) - k = i - (k - 1)
          BY <4>2, <1>1
        <5> QED BY <1>1, <5>1 DEF RunsBefore
      <4> QED BY <4>1, <4>2
    <3>2. m + 1 \in 0..((i + 1) - a)
      BY <1>1 DEF RunsBefore
    <3> QED BY <3>1, <3>2 DEF RunsBefore
  <2>2. n >= m + 1
    BY <1>1, <1>2, <2>1
  <2>3. n - 1 \in RunsBefore(s, a, i)
    <3>1. ASSUME NEW k \in 1..(n - 1) PROVE At(s, i - k) = Backslash
      <4>1. k + 1 \in 1..n /\ (i + 1) - (k + 1) = i - k
        BY <1>2
      <4> QED BY <1>2, <4>1 DEF RunsBefore
    <3>2. n - 1 \in 0..(i - a)
      BY <1>1, <1>2, <2>2 DEF RunsBefore
    <3> QED BY <3>1, <3>2 DEF RunsBefore
  <2>4. n - 1 =< m
    BY <1>1, <2>3
  <2> QED BY <1>1, <1>2, <1>4, <2>2, <2>4 DEF m, n
<1> QED BY <1>3, <1>4

\* The run in front of a byte of a literal is the same in the source.
LEMMA RunOfLiteral ==
  ASSUME NEW s \in Seq(Bytes), NEW a \in 0..Len(s), NEW e \in a..Len(s), NEW x \in 1..(e - a)
  PROVE  Backslashes(SubSeq(s, a + 1, e), x) = Run(s, a, a + x - 1)
<1> DEFINE l == SubSeq(s, a + 1, e)
<1>1. \A y \in 1..(e - a) : l[y] = At(s, a + y - 1)
  BY LiteralAt
<1> HIDE DEF l
<1>2. ASSUME NEW n \in 0..(x - 1), NEW k \in 1..n
      PROVE  l[x - k] = At(s, (a + x - 1) - k)
  <2>1. x - k \in 1..(e - a) /\ a + (x - k) - 1 = (a + x - 1) - k
    OBVIOUS
  <2> QED BY <1>1, <2>1
<1>3. (a + x - 1) - a = x - 1
  OBVIOUS
<1>4. {n \in 0..(x - 1) : \A k \in 1..n : l[x - k] = Backslash} = RunsBefore(s, a, a + x - 1)
  BY <1>2, <1>3 DEF RunsBefore
<1> QED BY <1>4 DEF Backslashes, Run, l

\* lex_escape takes a backslash with the one byte it escapes, or with u and four
\* hex digits, and otherwise reports the string that holds it.
LEMMA EscapeEnds ==
  ASSUME NEW s \in Seq(Bytes), NEW a \in Nat, NEW i \in 0..Len(s), At(s, i) = Backslash
  PROVE  LET r == lex_escape(s, a, i)
         IN  /\ r.ok \in BOOLEAN /\ r.end \in Nat
             /\ ~r.ok => r.start = a /\ r.kind = "InvalidEscape"
             /\ r.ok => /\ r.end =< Len(s)
                        /\ \/ r.end = i + 2 /\ At(s, i + 1) \in Escapable
                           \/ /\ r.end = i + 6 /\ At(s, i + 1) = "u"
                              /\ \A k \in (i + 2)..(i + 5) : At(s, k) \in HexDigits
<1> DEFINE bad == {k \in 2..5 : At(s, i + k) \notin HexDigits}
           r == lex_escape(s, a, i)
<1>1. r = CASE At(s, i + 1) = "Eof"       -> LexErr("InvalidEscape", a, i)
            [] At(s, i + 1) \in Escapable -> Tok("Escape", i, i + 2)
            [] At(s, i + 1) = "u" /\ bad = {} -> Tok("Escape", i, i + 6)
            [] At(s, i + 1) = "u" /\ bad # {} ->
                 LexErr("InvalidEscape", a, IF At(s, i + Min(bad)) = "Eof" THEN i ELSE i + Min(bad))
            [] OTHER -> LexErr("InvalidEscape", a, i + 2)
  BY DEF lex_escape
<1>2. "Eof" \notin Escapable /\ "u" \notin Escapable /\ "Eof" \notin HexDigits
  BY BytesDiffer DEF Escapable, HexDigits, Digits
<1> HIDE DEF r
<1> SUFFICES /\ r.ok \in BOOLEAN /\ r.end \in Nat
             /\ ~r.ok => r.start = a /\ r.kind = "InvalidEscape"
             /\ r.ok => /\ r.end =< Len(s)
                        /\ \/ r.end = i + 2 /\ At(s, i + 1) \in Escapable
                           \/ /\ r.end = i + 6 /\ At(s, i + 1) = "u"
                              /\ \A k \in (i + 2)..(i + 5) : At(s, k) \in HexDigits
  BY DEF r
<1>3. ASSUME NEW n \in Nat, r = LexErr("InvalidEscape", a, n)
      PROVE  ~r.ok /\ r.ok \in BOOLEAN /\ r.end \in Nat /\ r.start = a /\ r.kind = "InvalidEscape"
  BY <1>3 DEF LexErr
<1>4. CASE At(s, i + 1) = "Eof"
  <2>1. r = LexErr("InvalidEscape", a, i)
    BY <1>1, <1>2, <1>4
  <2> QED BY <1>3, <2>1
<1>5. CASE At(s, i + 1) \in Escapable
  <2>1. r = Tok("Escape", i, i + 2)
    BY <1>1, <1>2, <1>5
  <2>2. i + 1 < Len(s)
    BY <1>2, <1>5, AtEof
  <2>3. r.ok /\ r.ok \in BOOLEAN /\ r.end = i + 2
    BY <2>1 DEF Tok
  <2> QED BY <1>5, <2>2, <2>3
<1>6. CASE At(s, i + 1) = "u" /\ bad = {}
  <2>1. r = Tok("Escape", i, i + 6)
    BY <1>1, <1>2, <1>6
  <2>2. ASSUME NEW k \in (i + 2)..(i + 5) PROVE At(s, k) \in HexDigits
    <3>1. k - i \in 2..5 /\ i + (k - i) = k
      OBVIOUS
    <3> QED BY <1>6, <3>1
  <2>3. i + 5 < Len(s)
    <3>1. At(s, i + 5) # "Eof"
      BY <1>2, <2>2
    <3> QED BY <3>1, AtEof
  <2>4. r.ok /\ r.ok \in BOOLEAN /\ r.end = i + 6
    BY <2>1 DEF Tok
  <2> QED BY <1>6, <2>2, <2>3, <2>4
<1>7. CASE At(s, i + 1) = "u" /\ bad # {}
  <2>1. Min(bad) \in Nat
    <3>1. bad \subseteq Nat
      OBVIOUS
    <3> HIDE DEF bad
    <3> QED BY <1>7, <3>1, MinIsLeast
  <2>2. r = LexErr("InvalidEscape", a, IF At(s, i + Min(bad)) = "Eof" THEN i ELSE i + Min(bad))
    BY <1>1, <1>2, <1>7
  <2>3. (IF At(s, i + Min(bad)) = "Eof" THEN i ELSE i + Min(bad)) \in Nat
    BY <2>1
  <2> QED BY <1>3, <2>2, <2>3
<1>8. CASE At(s, i + 1) # "Eof" /\ At(s, i + 1) \notin Escapable /\ At(s, i + 1) # "u"
  <2>1. r = LexErr("InvalidEscape", a, i + 2)
    BY <1>1, <1>8
  <2> QED BY <1>3, <2>1
<1> QED BY <1>4, <1>5, <1>6, <1>7, <1>8

\* The backslash at j starts an escape of the grammar that ends before e.
EscapeIn(s, j, e) ==
  \/ j + 2 <= e /\ At(s, j + 1) \in Escapable
  \/ j + 6 <= e /\ At(s, j + 1) = "u" /\ \A k \in (j + 2)..(j + 5) : At(s, k) \in HexDigits

\* A byte of a string that ends before e, by what precedes it: it is no line
\* terminator, a quote with an even run of backslashes is the last byte, a
\* backslash with an even run starts an escape.
StringByte(s, a, e, j) ==
  /\ At(s, j) \notin Newlines
  /\ At(s, j) = Quote => (j = e - 1 <=> Run(s, a, j) % 2 = 0)
  /\ At(s, j) = Backslash /\ Run(s, a, j) % 2 = 0 => EscapeIn(s, j, e)

\* What lex_string's loop returns when it is at i with an even run of backslashes
\* behind it: a token that ends behind the first quote that an even run precedes,
\* with no line terminator and only escapes of the grammar before it.
Ends(s, a, i, t) ==
  /\ t.ok \in BOOLEAN /\ t.start = a /\ t.end \in Nat
  /\ t.kind \in {"InvalidString", "InvalidEscape", "StringValue"}
  /\ t.ok => /\ i < t.end /\ t.end =< Len(s) /\ At(s, t.end - 1) = Quote
             /\ Run(s, a, i) % 2 = 0 => \A j \in i..(t.end - 1) : StringByte(s, a, t.end, j)

\* Parity of the run: one backslash more makes it odd, two more keep it even.
LEMMA EvenOdd ==
  ASSUME NEW n \in Nat
  PROVE  /\ n % 2 = 0 => (n + 1) % 2 # 0
         /\ n % 2 = 0 => (n + 2) % 2 = 0
OBVIOUS

\* The loop of lex_string may go on behind an escape: the byte it skipped is no
\* unescaped quote, and the run of backslashes is even again.
LEMMA AfterEscape ==
  ASSUME NEW s \in Seq(Bytes), NEW a \in Nat, NEW i \in 0..Len(s), a < i, NEW t, NEW m \in Nat,
         At(s, i) = Backslash, Ends(s, a, m, t), m =< Len(s),
         \/ m = i + 2 /\ At(s, i + 1) \in Escapable
         \/ /\ m = i + 6 /\ At(s, i + 1) = "u"
            /\ \A k \in (i + 2)..(i + 5) : At(s, k) \in HexDigits
  PROVE  Ends(s, a, i, t)
<1> SUFFICES ASSUME t.ok, Run(s, a, i) % 2 = 0, NEW j \in i..(t.end - 1)
             PROVE  StringByte(s, a, t.end, j)
  BY DEF Ends
<1>0. t.end \in Nat /\ m < t.end
  BY DEF Ends
<1>1. /\ Newlines \cap (Escapable \cup HexDigits \cup {Backslash, "u"}) = {}
      /\ Quote \notin HexDigits /\ Backslash \notin HexDigits
  BY TerminatorsDiffer, BytesDiffer DEF Escapable, HexDigits, Digits
<1>2. j < m => j = i \/ j = i + 1 \/ (j \in (i + 2)..(i + 5) /\ m = i + 6)
  OBVIOUS
<1>5. Run(s, a, i) \in Nat
  BY RunIs
<1>6. Run(s, a, i + 1) = Run(s, a, i) + 1
  BY RunStep
<1>7. Run(s, a, m) % 2 = 0
  <2>1. CASE m = i + 2
    <3>1. Run(s, a, (i + 1) + 1) = IF At(s, i + 1) = Backslash THEN Run(s, a, i + 1) + 1 ELSE 0
      BY RunStep
    <3>2. Run(s, a, m) = Run(s, a, i) + 2 \/ Run(s, a, m) = 0
      BY <1>5, <1>6, <2>1, <3>1
    <3> QED BY <1>5, <3>2, EvenOdd
  <2>2. CASE m = i + 6
    <3>1. Run(s, a, (i + 5) + 1) = IF At(s, i + 5) = Backslash THEN Run(s, a, i + 5) + 1 ELSE 0
      BY RunStep
    <3>2. At(s, i + 5) \in HexDigits
      BY <2>2
    <3>3. Run(s, a, m) = 0
      BY <1>1, <2>2, <3>1, <3>2
    <3> QED BY <3>3
  <2> QED BY <2>1, <2>2
<1>8. CASE j >= m
  <2>1. j \in m..(t.end - 1)
    BY <1>0, <1>8
  <2> QED BY <1>7, <2>1 DEF Ends
\* The backslash itself starts the escape.
<1>9. CASE j = i
  <2>1. EscapeIn(s, i, t.end)
    BY <1>0 DEF EscapeIn
  <2>2. At(s, i) \notin Newlines /\ At(s, i) # Quote
    BY <1>1, BytesDiffer
  <2> QED BY <1>9, <2>1, <2>2 DEF StringByte
\* The byte behind it has an odd run.
<1>10. CASE j = i + 1
  <2>1. Run(s, a, j) % 2 # 0
    BY <1>5, <1>6, <1>10, EvenOdd
  <2>2. j # t.end - 1
    BY <1>0, <1>10
  <2>3. At(s, j) \notin Newlines
    BY <1>1, <1>10
  <2> QED BY <2>1, <2>2, <2>3 DEF StringByte
<1>11. CASE j \in (i + 2)..(i + 5) /\ m = i + 6
  <2>1. At(s, j) \in HexDigits
    BY <1>11
  <2> QED BY <1>1, <2>1 DEF StringByte
<1> QED BY <1>0, <1>2, <1>8, <1>9, <1>10, <1>11

\* The loop of lex_string may go on behind an ordinary byte.
LEMMA AfterByte ==
  ASSUME NEW s \in Seq(Bytes), NEW a \in Nat, NEW i \in 0..Len(s), a < i, NEW t,
         At(s, i) \notin Newlines \cup {Backslash, Quote, "Eof"}, Ends(s, a, i + 1, t)
  PROVE  Ends(s, a, i, t)
<1> SUFFICES ASSUME t.ok, NEW j \in i..(t.end - 1)
             PROVE  StringByte(s, a, t.end, j)
  BY DEF Ends
<1>0. t.end \in Nat /\ i + 1 < t.end
  BY DEF Ends
<1>1. Run(s, a, i + 1) = 0
  BY RunStep
<1>2. Run(s, a, i + 1) % 2 = 0
  BY <1>1
<1>3. CASE j = i
  BY <1>3 DEF StringByte
<1>4. CASE j # i
  <2>1. j \in (i + 1)..(t.end - 1)
    BY <1>0, <1>4
  <2> QED BY <1>2, <2>1 DEF Ends
<1> QED BY <1>3, <1>4

\* lex_string ends a string at its first quote that no backslash escapes, on
\* the line it started on and with escapes of the grammar only, or reports it.
LEMMA StringShape ==
  ASSUME NEW s \in Seq(Bytes), NEW a \in 0..Len(s), At(s, a) = Quote, ~Quotes(s, a)
  PROVE  Ends(s, a, a + 1, lex_string(s, a)) /\ Run(s, a, a + 1) = 0
<1> DEFINE L == Len(s)
           esc(i) == lex_escape(s, a, i)
           Body(f, i) == CASE At(s, i) \in Newlines \cup {"Eof"} -> LexErr("InvalidString", a, i)
                           [] At(s, i) = Quote            -> Tok("StringValue", a, i + 1)
                           [] At(s, i) = Backslash            -> IF esc(i).ok THEN f[esc(i).end] ELSE esc(i)
                           [] OTHER                      -> f[i + 1]
           IsClose(f) == f = [i \in 0..L |-> Body(f, i)]
           stop == {i \in 0..L : At(s, i) \in Newlines \cup {"Eof", Quote} \/ (At(s, i) = Backslash /\ ~esc(i).ok)}
           next == [i \in 0..L |-> IF At(s, i) = Backslash THEN esc(i).end ELSE i + 1]
           val  == [i \in 0..L |-> IF At(s, i) \in Newlines \cup {"Eof"} THEN LexErr("InvalidString", a, i)
                                   ELSE IF At(s, i) = Quote THEN Tok("StringValue", a, i + 1) ELSE esc(i)]
<1>0. L \in Nat /\ a \in Nat
  OBVIOUS
<1>1. ASSUME NEW i \in 0..L, At(s, i) = Backslash
      PROVE  /\ esc(i).ok \in BOOLEAN /\ esc(i).end \in Nat
             /\ ~esc(i).ok => esc(i).start = a /\ esc(i).kind = "InvalidEscape"
             /\ esc(i).ok => /\ esc(i).end =< L
                             /\ \/ esc(i).end = i + 2 /\ At(s, i + 1) \in Escapable
                                \/ /\ esc(i).end = i + 6 /\ At(s, i + 1) = "u"
                                   /\ \A k \in (i + 2)..(i + 5) : At(s, k) \in HexDigits
  BY <1>0, <1>1, EscapeEnds
<1>2. ASSUME NEW i \in 0..L, At(s, i) # "Eof"
      PROVE  i + 1 \in (i + 1)..L
  BY <1>2, AtEof
<1> HIDE DEF esc
<1>3. ASSUME NEW i \in 0..L, i \notin stop PROVE next[i] \in (i + 1)..L
  <2>1. CASE At(s, i) = Backslash
    <3>1. esc(i).ok
      BY <1>3, <2>1
    <3>2. esc(i).end \in (i + 1)..L
      BY <1>1, <2>1, <3>1
    <3> QED BY <2>1, <3>2
  <2>2. CASE At(s, i) # Backslash
    <3>1. At(s, i) # "Eof"
      BY <1>3
    <3> QED BY <1>2, <2>2, <3>1
  <2> QED BY <2>1, <2>2
<1>4. PICK f : Solves(f, 0, L, stop, next, val)
  <2>1. Forward(L, stop, next)
    BY <1>3 DEF Forward
  <2> HIDE DEF stop, next, val, L
  <2> QED BY <1>0, <2>1, TailRecursion
<1>5. \A i \in 0..L : (IF i \in stop THEN val[i] ELSE f[next[i]]) = Body(f, i)
  BY BytesDiffer, TerminatorsDiffer
<1>6. IsClose(f)
  BY <1>4, <1>5 DEF Solves
<1>7. PICK g : IsClose(g) /\ lex_string(s, a) = g[a + 1]
  BY <1>6 DEF lex_string, esc
<1> DEFINE G == {i \in 0..L : a < i => Ends(s, a, i, g[i])}
<1>8. ASSUME NEW i \in 0..L, \A j \in (i + 1)..L : j \in G
      PROVE  i \in G
  <2> SUFFICES ASSUME a < i PROVE Ends(s, a, i, g[i])
    OBVIOUS
  <2>0. g[i] = Body(g, i)
    BY <1>7
  <2>h. \A j \in (i + 1)..L : Ends(s, a, j, g[j])
    BY <1>8
  <2>1. CASE At(s, i) \in Newlines \cup {"Eof"}
    <3>1. g[i] = LexErr("InvalidString", a, i)
      BY <2>0, <2>1, BytesDiffer, TerminatorsDiffer
    <3>2. Ends(s, a, i, LexErr("InvalidString", a, i))
      BY DEF LexErr, Ends
    <3> QED BY <3>1, <3>2
  <2>2. CASE At(s, i) = Quote
    <3>1. g[i] = Tok("StringValue", a, i + 1)
      BY <2>0, <2>2, BytesDiffer, TerminatorsDiffer
    <3>2. i + 1 =< L /\ (i + 1) - 1 = i /\ \A j \in i..i : j = i
      <4>1. At(s, i) # "Eof"
        BY <2>2, BytesDiffer
      <4> QED BY <1>2, <4>1
    <3>3. Run(s, a, i) % 2 = 0 => StringByte(s, a, i + 1, i)
      BY <2>2, <3>2, BytesDiffer, TerminatorsDiffer DEF StringByte
    <3>4. Ends(s, a, i, Tok("StringValue", a, i + 1))
      BY <2>2, <3>2, <3>3 DEF Tok, Ends
    <3> QED BY <3>1, <3>4
  <2>3. CASE At(s, i) = Backslash /\ ~esc(i).ok
    <3>1. g[i] = esc(i)
      BY <2>0, <2>3
    <3>2. Ends(s, a, i, esc(i))
      BY <1>1, <2>3 DEF Ends
    <3> QED BY <3>1, <3>2
  <2>4. CASE At(s, i) = Backslash /\ esc(i).ok
    <3>1. g[i] = g[esc(i).end]
      BY <2>0, <2>4
    <3>2. esc(i).end \in (i + 1)..L
      BY <1>1, <2>4
    <3>3. Ends(s, a, esc(i).end, g[i])
      BY <2>h, <3>1, <3>2
    <3> QED BY <1>0, <1>1, <2>4, <3>2, <3>3, AfterEscape
  <2>5. CASE At(s, i) \notin Newlines \cup {Backslash, Quote, "Eof"}
    <3>1. g[i] = g[i + 1]
      BY <2>0, <2>5
    <3>2. Ends(s, a, i + 1, g[i])
      BY <1>2, <2>h, <2>5, <3>1
    <3> QED BY <1>0, <2>5, <3>2, AfterByte
  <2> QED BY <2>1, <2>2, <2>3, <2>4, <2>5
<1>9. \A i \in 0..L : i \in G
  <2> HIDE DEF G
  <2> QED BY <1>0, <1>8, Downward
<1>10. a + 1 \in 0..L
  <2>1. At(s, a) # "Eof"
    BY BytesDiffer
  <2> QED BY <1>0, <1>2, <2>1
<1>11. Ends(s, a, a + 1, lex_string(s, a))
  BY <1>0, <1>7, <1>9, <1>10
<1>12. Run(s, a, a + 1) = 0
  BY <1>0, RunStep, BytesDiffer
<1> QED BY <1>11, <1>12

-----------------------------------------------------------------------------
\* A byte of a literal is the byte of the source at its offset.
LEMMA LiteralByte ==
  ASSUME NEW s \in Seq(Bytes), NEW a \in 0..Len(s), NEW e \in a..Len(s), NEW k \in 0..(e - a - 1)
  PROVE  At(SubSeq(s, a + 1, e), k) = At(s, a + k)
<1> DEFINE l == SubSeq(s, a + 1, e)
<1>1. l \in Seq(Bytes) /\ Len(l) = e - a /\ \A x \in 1..(e - a) : l[x] = At(s, a + x - 1)
  BY LiteralAt
<1> HIDE DEF l
<1>2. k + 1 \in 1..(e - a) /\ a + (k + 1) - 1 = a + k /\ k < Len(l)
  BY <1>1
<1>3. At(l, k) = l[k + 1]
  BY <1>2 DEF At
<1> QED BY <1>1, <1>2, <1>3 DEF l

\* A string lex_string accepts is one of the grammar.
LEMMA StringWellFormed ==
  ASSUME NEW s \in Seq(Bytes), NEW a \in 0..Len(s), NEW e \in (a + 2)..Len(s), At(s, a) = Quote,
         At(s, e - 1) = Quote, \A j \in (a + 1)..(e - 1) : StringByte(s, a, e, j)
  PROVE  LET l == SubSeq(s, a + 1, e)
         IN  /\ Len(l) >= 2 /\ l[1] = Quote /\ l[Len(l)] = Quote
             /\ \A x \in 2..Len(l) :
                  /\ l[x] = Quote => (x = Len(l) <=> Backslashes(l, x) % 2 = 0)
                  /\ l[x] = Backslash /\ Backslashes(l, x) % 2 = 0 => EscapeAt(l, x)
                  /\ l[x] \notin Newlines
<1> DEFINE l == SubSeq(s, a + 1, e)
<1>0. e \in a..Len(s) /\ e - a \in Nat /\ e - a >= 2
  OBVIOUS
<1>1. Len(l) = e - a /\ \A x \in 1..(e - a) : l[x] = At(s, a + x - 1)
  BY <1>0, LiteralAt
<1>2. \A x \in 1..(e - a) : Backslashes(l, x) = Run(s, a, a + x - 1)
  BY <1>0, RunOfLiteral
<1>3. \A k \in 0..(e - a - 1) : At(l, k) = At(s, a + k)
  BY <1>0, LiteralByte
<1> HIDE DEF l
<1>4. l[1] = Quote /\ l[Len(l)] = Quote
  <2>1. 1 \in 1..(e - a) /\ a + 1 - 1 = a /\ e - a \in 1..(e - a) /\ a + (e - a) - 1 = e - 1
    BY <1>0
  <2> QED BY <1>1, <2>1
<1>5. ASSUME NEW x \in 2..Len(l)
      PROVE  /\ l[x] = Quote => (x = Len(l) <=> Backslashes(l, x) % 2 = 0)
             /\ l[x] = Backslash /\ Backslashes(l, x) % 2 = 0 => EscapeAt(l, x)
             /\ l[x] \notin Newlines
  <2> DEFINE j == a + x - 1
  <2>1. x \in 1..(e - a) /\ j \in (a + 1)..(e - 1) /\ (x = Len(l) <=> j = e - 1)
    BY <1>0, <1>1
  <2>2. l[x] = At(s, j) /\ Backslashes(l, x) = Run(s, a, j)
    BY <1>1, <1>2, <2>1
  <2>3. StringByte(s, a, e, j)
    BY <2>1
  <2>4. ASSUME EscapeIn(s, j, e) PROVE EscapeAt(l, x)
    <3>1. CASE j + 2 <= e /\ At(s, j + 1) \in Escapable
      <4>1. x \in 0..(e - a - 1) /\ a + x = j + 1
        BY <3>1, <2>1, <1>0
      <4> QED BY <1>3, <3>1, <4>1 DEF EscapeAt
    <3>2. CASE j + 6 <= e /\ At(s, j + 1) = "u" /\ \A k \in (j + 2)..(j + 5) : At(s, k) \in HexDigits
      <4>1. x \in 0..(e - a - 1) /\ a + x = j + 1
        BY <3>2, <2>1, <1>0
      <4>2. ASSUME NEW k \in (x + 1)..(x + 4) PROVE At(l, k) \in HexDigits
        <5>1. k \in 0..(e - a - 1) /\ a + k \in (j + 2)..(j + 5)
          BY <3>2, <2>1, <1>0
        <5> QED BY <1>3, <3>2, <5>1
      <4> QED BY <1>3, <3>2, <4>1, <4>2 DEF EscapeAt
    <3> QED BY <2>4, <3>1, <3>2 DEF EscapeIn
  <2> HIDE DEF j
  <2> QED BY <2>1, <2>2, <2>3, <2>4 DEF StringByte
<1> QED BY <1>0, <1>1, <1>4, <1>5 DEF l

\* A block string lex_block_string accepts is one of the grammar.
LEMMA BlockWellFormed ==
  ASSUME NEW s \in Seq(Bytes), NEW a \in 0..Len(s), NEW e \in (a + 6)..Len(s), Quotes(s, a),
         ClosesAt(s, a + 3, a + 3, e - 3)
  PROVE  LET l == SubSeq(s, a + 1, e)
         IN  /\ Len(l) >= 6 /\ Quotes(l, 0)
             /\ \A x \in 3..(Len(l) - 3) : ClosesBlock(l, 3, x) <=> x = Len(l) - 3
<1> DEFINE l == SubSeq(s, a + 1, e)
<1>0. e \in a..Len(s) /\ e - a \in Nat /\ e - a >= 6
  OBVIOUS
<1>1. Len(l) = e - a
  BY <1>0, LiteralAt
<1>2. \A k \in 0..(e - a - 1) : At(l, k) = At(s, a + k)
  BY <1>0, LiteralByte
<1> HIDE DEF l
<1>3. ASSUME NEW m \in 0..(e - a - 3) PROVE Quotes(l, m) <=> Quotes(s, a + m)
  <2>1. ASSUME NEW k \in 0..2 PROVE At(l, m + k) = At(s, (a + m) + k)
    <3>1. m + k \in 0..(e - a - 1) /\ a + (m + k) = (a + m) + k
      BY <1>0
    <3> QED BY <1>2, <3>1
  <2> QED BY <2>1 DEF Quotes
<1>4. Quotes(l, 0)
  <2>1. 0 \in 0..(e - a - 3) /\ a + 0 = a
    BY <1>0
  <2> QED BY <1>3, <2>1
<1>5. ASSUME NEW x \in 3..(Len(l) - 3) PROVE ClosesBlock(l, 3, x) <=> x = Len(l) - 3
  <2>1. x \in 0..(e - a - 3) /\ a + x \in (a + 3)..(e - 3) /\ (x = Len(l) - 3 <=> a + x = e - 3)
    BY <1>0, <1>1
  <2>2. ASSUME NEW b \in 3..(x - 1)
        PROVE  (At(l, b) = Backslash /\ Quotes(l, b + 1)) <=> (At(s, a + b) = Backslash /\ Quotes(s, (a + b) + 1))
    <3>1. b \in 0..(e - a - 1) /\ b + 1 \in 0..(e - a - 3) /\ a + (b + 1) = (a + b) + 1
      BY <2>1, <1>0
    <3> QED BY <1>2, <1>3, <3>1
  <2>3. (\E b \in 3..(x - 1) : x <= b + 3 /\ At(l, b) = Backslash /\ Quotes(l, b + 1))
        <=> (\E b \in (a + 3)..(a + x - 1) : a + x <= b + 3 /\ At(s, b) = Backslash /\ Quotes(s, b + 1))
    <3>1. ASSUME NEW b \in 3..(x - 1), x <= b + 3, At(l, b) = Backslash, Quotes(l, b + 1)
          PROVE  \E c \in (a + 3)..(a + x - 1) : a + x <= c + 3 /\ At(s, c) = Backslash /\ Quotes(s, c + 1)
      <4>1. a + b \in (a + 3)..(a + x - 1) /\ a + x <= (a + b) + 3
        BY <2>1, <3>1
      <4> QED BY <2>2, <3>1, <4>1
    <3>2. ASSUME NEW c \in (a + 3)..(a + x - 1), a + x <= c + 3, At(s, c) = Backslash, Quotes(s, c + 1)
          PROVE  \E b \in 3..(x - 1) : x <= b + 3 /\ At(l, b) = Backslash /\ Quotes(l, b + 1)
      <4>1. c - a \in 3..(x - 1) /\ a + (c - a) = c /\ x <= (c - a) + 3
        BY <2>1, <3>2
      <4> QED BY <2>2, <3>2, <4>1
    <3> QED BY <3>1, <3>2
  <2>4. ClosesBlock(l, 3, x) <=> ClosesBlock(s, a + 3, a + x)
    BY <1>3, <2>1, <2>3 DEF ClosesBlock
  <2> QED BY <2>1, <2>4 DEF ClosesAt
<1> QED BY <1>0, <1>1, <1>4, <1>5 DEF l

\* What lex_token returns.
LEMMA TokenShape ==
  ASSUME NEW s \in Seq(Bytes), NEW a \in 0..Len(s)
  PROVE  LET t == lex_token(s, a)
         IN  /\ t.ok \in BOOLEAN /\ t.kind \in LexKinds /\ t.start = a /\ t.end \in Nat
             /\ t.ok => /\ a =< t.end /\ t.end =< Len(s)
                        /\ t.end = a <=> t.kind = "Eof"
                        /\ WellFormed(s, t)
<1> DEFINE t == lex_token(s, a)
           Literals == {"IntValue", "FloatValue", "StringValue", "BlockStringValue"}
           Good == /\ t.ok \in BOOLEAN /\ t.kind \in LexKinds /\ t.start = a /\ t.end \in Nat
                   /\ t.ok => /\ a =< t.end /\ t.end =< Len(s)
                              /\ t.end = a <=> t.kind = "Eof"
                              /\ WellFormed(s, t)
<1>1. t = CASE At(s, a) = "Eof"                  -> Tok("Eof", a, a)
            [] At(s, a) = "{"                    -> Tok("Punct", a, a + 1)
            [] At(s, a) = "."                    -> lex_spread(s, a)
            [] At(s, a) \in NameStart            -> lex_name(s, a)
            [] At(s, a) \in Digits \cup {"-"}    -> lex_number(s, a)
            [] At(s, a) = Quote                  -> lex_string(s, a)
            [] OTHER                             -> LexErr("UnexpectedChar", a, a + 1)
  BY DEF lex_token
<1>2. /\ {"Eof", "{", ".", Quote} \cap (NameStart \cup Digits \cup {"-"}) = {}
      /\ Quote \notin {"Eof", "{", "."} /\ NameStart \cap (Digits \cup {"-"}) = {}
  BY BytesDiffer, BraceDiffers DEF NameStart, Digits
<1> HIDE DEF t
<1> SUFFICES Good
  BY DEF t
<1>3. ASSUME Shape(s, a, t), t.kind \in LexKinds, t.kind \notin Literals, t.kind # "Eof"
      PROVE  Good
  BY <1>3 DEF Shape, WellFormed
<1>4. CASE At(s, a) = "Eof"
  <2>1. t = Tok("Eof", a, a)
    BY <1>1, <1>2, <1>4
  <2>2. t.ok /\ t.ok \in BOOLEAN /\ t.kind = "Eof" /\ t.start = a /\ t.end = a
    BY <2>1 DEF Tok
  <2> QED BY <2>2 DEF WellFormed, LexKinds
<1>5. CASE At(s, a) = "{"
  <2>1. t = Tok("Punct", a, a + 1)
    BY <1>1, <1>2, <1>5
  <2>2. a + 1 =< Len(s)
    <3>1. At(s, a) # "Eof"
      BY <1>5, Zenon
    <3> QED BY <3>1, AtEof
  <2>3. Shape(s, a, t) /\ t.kind = "Punct"
    BY <2>1, <2>2 DEF Tok, Shape
  <2> QED BY <1>3, <2>3 DEF LexKinds
<1>6. CASE At(s, a) = "."
  <2>1. t = lex_spread(s, a)
    BY <1>1, <1>2, <1>6
  <2> QED BY <1>3, <1>6, <2>1, SpreadShape DEF LexKinds
<1>7. CASE At(s, a) \in NameStart
  <2>1. t = lex_name(s, a)
    BY <1>1, <1>2, <1>7
  <2> QED BY <1>3, <1>7, <2>1, NameShape DEF LexKinds
<1>8. CASE At(s, a) \in Digits \cup {"-"}
  <2>1. t = lex_number(s, a)
    BY <1>1, <1>2, <1>8
  <2>2. /\ Shape(s, a, t)
        /\ t.kind \in {"InvalidNumber", "IntValue", "FloatValue"}
        /\ t.ok => /\ IsNumber(SubSeq(s, a + 1, t.end), t.kind = "FloatValue")
                   /\ At(s, t.end) \notin NameBytes \cup {"."}
    BY <1>8, <2>1, NumberShape
  <2>3. t.start = a /\ t.end \in Nat
    BY <2>2 DEF Shape
  <2>4. t.ok => WellFormed(s, t)
    BY <2>2, <2>3 DEF WellFormed
  <2> QED BY <2>2, <2>4 DEF Shape, LexKinds
<1>9. CASE At(s, a) = Quote /\ Quotes(s, a)
  <2>1. t = lex_block_string(s, a)
    BY <1>1, <1>2, <1>9 DEF lex_string
  <2>2. /\ Shape(s, a, t)
        /\ t.kind \in {"InvalidBlockString", "BlockStringValue"}
        /\ t.ok => t.end >= a + 6 /\ ClosesAt(s, a + 3, a + 3, t.end - 3)
    BY <1>9, <2>1, BlockStringShape
  <2>3. ASSUME t.ok PROVE WellFormed(s, t)
    <3>1. t.end \in (a + 6)..Len(s) /\ t.start = a
      BY <2>2, <2>3 DEF Shape
    <3>2. LET l == SubSeq(s, a + 1, t.end)
          IN  /\ Len(l) >= 6 /\ Quotes(l, 0)
              /\ \A x \in 3..(Len(l) - 3) : ClosesBlock(l, 3, x) <=> x = Len(l) - 3
      BY <1>9, <2>2, <2>3, <3>1, BlockWellFormed
    <3> QED BY <2>2, <3>1, <3>2 DEF WellFormed
  <2> QED BY <2>2, <2>3 DEF Shape, LexKinds
<1>10. CASE At(s, a) = Quote /\ ~Quotes(s, a)
  <2>1. t = lex_string(s, a)
    BY <1>1, <1>2, <1>10
  <2>2. Ends(s, a, a + 1, t) /\ Run(s, a, a + 1) % 2 = 0
    BY <1>10, <2>1, StringShape
  <2>3. ASSUME t.ok PROVE WellFormed(s, t)
    <3>1. /\ t.end \in (a + 2)..Len(s) /\ t.start = a /\ At(s, t.end - 1) = Quote
          /\ t.kind \notin {"IntValue", "FloatValue", "BlockStringValue"}
      BY <2>2, <2>3 DEF Ends
    <3>2. LET l == SubSeq(s, a + 1, t.end)
          IN  /\ Len(l) >= 2 /\ l[1] = Quote /\ l[Len(l)] = Quote
              /\ \A x \in 2..Len(l) :
                   /\ l[x] = Quote => (x = Len(l) <=> Backslashes(l, x) % 2 = 0)
                   /\ l[x] = Backslash /\ Backslashes(l, x) % 2 = 0 => EscapeAt(l, x)
                   /\ l[x] \notin Newlines
      <4>1. \A j \in (a + 1)..(t.end - 1) : StringByte(s, a, t.end, j)
        BY <2>2, <2>3 DEF Ends
      <4> QED BY <1>10, <3>1, <4>1, StringWellFormed
    <3> QED BY <1>10, <3>1, <3>2 DEF WellFormed
  <2> QED BY <2>2, <2>3 DEF Ends, LexKinds
<1>11. CASE At(s, a) \notin {"Eof", "{", ".", Quote} \cup NameStart \cup Digits \cup {"-"}
  <2>1. t = LexErr("UnexpectedChar", a, a + 1)
    BY <1>1, <1>11
  <2>2. Shape(s, a, t) /\ t.kind = "UnexpectedChar"
    BY <2>1 DEF LexErr, Shape
  <2> QED BY <1>3, <2>2 DEF LexKinds
<1> QED BY <1>4, <1>5, <1>6, <1>7, <1>8, <1>9, <1>10, <1>11

-----------------------------------------------------------------------------
\* line_start is the offset behind the last line feed before a, or zero.
LEMMA LineStart ==
  ASSUME NEW s \in Seq(Bytes), NEW a \in 0..Len(s)
  PROVE  /\ line_start(s, a) \in 0..a
         /\ \A i \in line_start(s, a)..(a - 1) : At(s, i) # Newline
         /\ line_start(s, a) > 0 => At(s, line_start(s, a) - 1) = Newline
<1>1. CASE LineEnds(s, a) = {}
  BY <1>1 DEF line_start, LineEnds
<1>2. CASE LineEnds(s, a) # {}
  <2> DEFINE m == Max(LineEnds(s, a))
  <2>1. LineEnds(s, a) \subseteq 0..a /\ a \in Nat
    BY DEF LineEnds
  <2>2. m \in LineEnds(s, a) /\ \A y \in LineEnds(s, a) : m >= y
    BY <1>2, <2>1, MaxIsGreatest
  <2>3. line_start(s, a) = m + 1
    BY <1>2 DEF line_start
  <2> HIDE DEF m
  <2>4. m \in 0..(a - 1) /\ At(s, m) = Newline
    BY <2>2 DEF LineEnds
  <2>5. ASSUME NEW i \in (m + 1)..(a - 1) PROVE At(s, i) # Newline
    <3>1. i \in 0..(a - 1) /\ ~(m >= i)
      BY <2>4
    <3> QED BY <2>2, <3>1 DEF LineEnds
  <2>6. (m + 1) - 1 = m /\ m + 1 \in 0..a
    BY <2>4
  <2> QED BY <2>3, <2>4, <2>5, <2>6
<1> QED BY <1>1, <1>2

\* What render computes from an error: line, column and the bounds of the line
\* shown are those of the byte the error starts at, and the slices it takes of
\* the source are in bounds and in order.
LEMMA LocateRight ==
  ASSUME NEW s \in Seq(Bytes), NEW e \in Spans
  PROVE  LET d == locate(s, e)
         IN  /\ d.from <= d.to /\ d.to <= Len(s)
             /\ \A i \in d.from..(d.to - 1) : At(s, i) # Newline
             /\ d.from + d.column - 1 = Min({e.start, Len(s)})
             /\ d.from + d.column - 1 <= d.to
             /\ d.from > 0 => At(s, d.from - 1) = Newline
             /\ d.line = 1 + Cardinality({i \in 0..(e.start - 1) : At(s, i) = Newline})
             /\ d.carets >= 1
<1> DEFINE a    == Min({e.start, Len(s)})
           b    == Max({Min({e.end, Len(s)}), a})
           from == line_start(s, a)
           to   == SkipUntil(s, from, {Newline})
           n    == Cardinality(LineEnds(s, from))
           c    == Max({b - a, 1})
           d    == locate(s, e)
<1>1. d = [line |-> n + 1, column |-> a - from + 1, from |-> from, to |-> to, carets |-> c]
  BY DEF locate
<1>0. e.start \in Nat /\ e.end \in Nat
  BY DEF Spans
<1>2. a \in 0..Len(s) /\ a =< e.start /\ (a # e.start => a = Len(s))
  <2>1. {e.start, Len(s)} \subseteq Nat /\ {e.start, Len(s)} # {}
    BY <1>0
  <2>2. a \in {e.start, Len(s)} /\ \A y \in {e.start, Len(s)} : a =< y
    BY <2>1, MinIsLeast
  <2> QED BY <1>0, <2>2
<1>3. from \in 0..a /\ (\A i \in from..(a - 1) : At(s, i) # Newline) /\ (from > 0 => At(s, from - 1) = Newline)
  BY <1>2, LineStart
<1>c. c >= 1
  <2>1. Min({e.end, Len(s)}) \in Nat
    <3>1. {e.end, Len(s)} \subseteq Nat /\ {e.end, Len(s)} # {}
      BY <1>0
    <3>2. Min({e.end, Len(s)}) \in {e.end, Len(s)}
      BY <3>1, MinIsLeast
    <3> QED BY <3>1, <3>2
  <2>2. b \in Nat /\ b >= a
    <3> DEFINE u == Min({e.end, Len(s)})
    <3> HIDE DEF u, a
    <3>1. u \in Nat /\ a \in Nat
      BY <1>2, <2>1 DEF u
    <3>2. {u, a} \subseteq 0..(u + a) /\ {u, a} # {} /\ u + a \in Nat
      BY <3>1
    <3>3. Max({u, a}) \in {u, a} /\ \A y \in {u, a} : Max({u, a}) >= y
      BY <3>2, MaxIsGreatest
    <3>4. b = Max({u, a})
      BY DEF u, a
    <3> QED BY <3>1, <3>3, <3>4
  <2> HIDE DEF a, b
  <2>3. {b - a, 1} \subseteq 0..(b + 1) /\ {b - a, 1} # {} /\ b + 1 \in Nat
    BY <1>2, <2>2
  <2>4. \A y \in {b - a, 1} : Max({b - a, 1}) >= y
    BY <2>3, MaxIsGreatest
  <2> QED BY <2>4
<1> HIDE DEF a, from, d, c
<1>4. to \in from..Len(s) /\ At(s, to) \in {Newline, "Eof"} /\ \A k \in from..(to - 1) : At(s, k) # Newline
  <2>1. from \in 0..Len(s)
    BY <1>2, <1>3
  <2> QED BY <2>1, SkipUntilStops
<1> HIDE DEF to
<1>5. a =< to
  <2> SUFFICES ASSUME to < a PROVE FALSE
    BY <1>2, <1>3, <1>4
  <2>1. to \in from..(a - 1) /\ to \in Nat /\ to < Len(s)
    BY <1>2, <1>3, <1>4
  <2>2. At(s, to) # Newline /\ At(s, to) # "Eof"
    BY <1>3, <2>1, AtEof
  <2> QED BY <1>4, <2>2
<1>6. LineEnds(s, from) = {i \in 0..(e.start - 1) : At(s, i) = Newline}
  <2>1. ASSUME NEW i \in 0..(e.start - 1), At(s, i) = Newline PROVE i \in 0..(from - 1)
    <3>1. i \in Nat /\ i < Len(s)
      <4>1. i \in Nat
        BY <1>0
      <4>2. At(s, i) # "Eof"
        BY <2>1, BytesDiffer
      <4> QED BY <1>0, <4>1, <4>2, AtEof
    <3>2. i < a
      BY <1>0, <1>2, <3>1
    <3>3. ~(i \in from..(a - 1))
      BY <1>3, <2>1
    <3> QED BY <1>2, <1>3, <3>1, <3>2, <3>3
  <2>2. 0..(from - 1) \subseteq 0..(e.start - 1)
    BY <1>0, <1>2, <1>3
  <2> QED BY <2>1, <2>2 DEF LineEnds
<1>7. n \in Nat
  <2>1. IsFiniteSet(0..(from - 1))
    BY <1>2, <1>3, FS_Interval
  <2>2. IsFiniteSet(LineEnds(s, from))
    BY <2>1, FS_Subset DEF LineEnds
  <2> QED BY <2>2, FS_CardinalityType
<1>8. n = Cardinality({i \in 0..(e.start - 1) : At(s, i) = Newline})
  BY <1>6
<1> HIDE DEF n
<1>9. /\ d.line = 1 + n /\ d.column = a - from + 1 /\ d.from = from /\ d.to = to /\ d.carets = c
      /\ d.from + d.column - 1 = a
  <2>1. n + 1 = 1 + n /\ from + (a - from + 1) - 1 = a
    BY <1>2, <1>3, <1>7
  <2> QED BY <1>1, <2>1
<1>10. from <= to /\ to <= Len(s)
  BY <1>2, <1>3, <1>4
<1> QED BY <1>3, <1>4, <1>5, <1>8, <1>9, <1>10, <1>c DEF a, d

-----------------------------------------------------------------------------
\* What a call of next_token does when the scan starts at from and comes back
\* with the token or error t.
Returns(from, t) ==
  /\ ~started /\ HasBom(src) => from = pos + 3
  /\ ~(~started /\ HasBom(src)) => from = pos
  /\ t.ok \in BOOLEAN /\ t.kind \in LexKinds /\ t.start \in from..Len(src) /\ t.end \in Nat
  /\ \A j \in from..(t.start - 1) : Skipped(src, from, j)
  /\ t.ok => /\ t.start =< t.end /\ t.end =< Len(src)
             /\ t.end = t.start <=> t.kind = "Eof"
             /\ WellFormed(src, t)
             /\ toks' = Append(toks, [kind |-> t.kind, start |-> t.start, end |-> t.end])
             /\ pos' = t.end /\ err' = err
  /\ ~t.ok => /\ err' = [kind |-> t.kind, start |-> t.start, end |-> t.end]
              /\ toks' = toks /\ pos' = pos

\* A call of next_token scans from the cursor, or from behind the byte order
\* mark, and comes back with a token or an error.
LEMMA NextToken ==
  ASSUME LexInv, next_token
  PROVE  \E from \in pos..Len(src) : \E t : Returns(from, t)
<1> USE DEF Returns
<1> DEFINE from == IF ~started /\ HasBom(src) THEN pos + 3 ELSE pos
           a == skip_insignificant(src, from)
           t == lex_token(src, a)
<1>1. src \in Seq(Bytes) /\ pos \in 0..Len(src) /\ (~started => pos = 0)
  BY DEF LexInv, CursorAtEnd
<1>2. from \in pos..Len(src) /\ from \in 0..Len(src)
  BY <1>1 DEF HasBom
<1> HIDE DEF from
<1>3. a \in from..Len(src) /\ \A j \in from..(a - 1) : Skipped(src, from, j)
  BY <1>1, <1>2, SkipInsignificant
<1>4. a \in 0..Len(src)
  BY <1>2, <1>3
<1> HIDE DEF a
<1>5. /\ t.ok \in BOOLEAN /\ t.kind \in LexKinds /\ t.start = a /\ t.end \in Nat
      /\ t.ok => /\ a =< t.end /\ t.end =< Len(src)
                 /\ t.end = a <=> t.kind = "Eof"
                 /\ WellFormed(src, t)
  BY <1>1, <1>4, TokenShape
<1>6. IF t.ok
        THEN /\ toks' = Append(toks, [kind |-> t.kind, start |-> t.start, end |-> t.end])
             /\ pos' = t.end /\ err' = err
        ELSE /\ err' = [kind |-> t.kind, start |-> t.start, end |-> t.end]
             /\ toks' = toks /\ pos' = pos
  BY DEF next_token, from, a
<1> HIDE DEF t
<1>7. /\ ~started /\ HasBom(src) => from = pos + 3
      /\ ~(~started /\ HasBom(src)) => from = pos
  BY DEF from
<1> QED BY <1>2, <1>3, <1>5, <1>6, <1>7

\* A literal is judged by its kind and its span.
LEMMA WellFormedOfSpan ==
  ASSUME NEW s, NEW t, WellFormed(s, t)
  PROVE  WellFormed(s, [kind |-> t.kind, start |-> t.start, end |-> t.end])
BY DEF WellFormed

\* A token appended behind the cursor, with nothing but insignificant bytes
\* between, leaves the tokens a tiling.
LEMMA TileAppend ==
  ASSUME LexInv, NEW from \in pos..Len(src), NEW a \in from..Len(src), NEW e \in a..Len(src), NEW kind,
         from # pos => HasBom(src) /\ pos = 0 /\ from = 3,
         \A j \in from..(a - 1) : Skipped(src, from, j),
         e = a <=> kind = "Eof",
         toks' = Append(toks, [kind |-> kind, start |-> a, end |-> e]), src' = src
  PROVE  TokensTile'
<1> DEFINE n == Len(toks)
<1>0. /\ src \in Seq(Bytes) /\ pos \in 0..Len(src) /\ toks \in Seq(Spans) /\ n \in Nat
      /\ CursorAtEnd /\ TokensTile
  BY DEF LexInv, TokensExact
<1>1. \A k \in 1..n : toks[k] \in Spans /\ toks[k].start \in Nat /\ toks[k].end \in Nat
  <2>1. \A k \in 1..n : toks[k] \in Spans
    BY <1>0
  <2> QED BY <2>1 DEF Spans
<1>2. /\ Len(toks') = n + 1
      /\ \A k \in 1..n : toks'[k] = toks[k]
      /\ toks'[n + 1].kind = kind /\ toks'[n + 1].start = a /\ toks'[n + 1].end = e
  BY <1>0
<1>3. \A k \in 1..n : toks[k].end =< pos /\ toks[k].start =< toks[k].end
  BY <1>0 DEF CursorAtEnd, TokensTile
<1>4. a \in Nat /\ e \in Nat /\ pos \in Nat /\ from \in Nat /\ pos =< from /\ from =< a
  BY <1>0
<1>5. ASSUME NEW k \in 1..(n + 1)
      PROVE  /\ toks'[k].start <= toks'[k].end /\ toks'[k].end <= Len(src)
             /\ toks'[k].start = toks'[k].end <=> toks'[k].kind = "Eof"
             /\ k < n + 1 => toks'[k].end <= toks'[k + 1].start
  <2>1. CASE k = n + 1
    BY <1>0, <1>2, <1>4, <2>1
  <2>2. CASE k # n + 1
    <3>1. k \in 1..n /\ toks'[k] = toks[k]
      BY <1>0, <1>2, <2>2
    <3>2. /\ toks[k].start <= toks[k].end /\ toks[k].end <= Len(src)
          /\ toks[k].start = toks[k].end <=> toks[k].kind = "Eof"
          /\ k < n => toks[k].end <= toks[k + 1].start
      BY <1>0, <3>1 DEF TokensTile
    <3>3. CASE k = n
      BY <1>0, <1>1, <1>2, <1>3, <1>4, <3>1, <3>2, <3>3
    <3>4. CASE k # n
      <4>1. k + 1 \in 1..n /\ toks'[k + 1] = toks[k + 1]
        BY <1>0, <1>2, <3>1, <3>4
      <4> QED BY <1>0, <3>1, <3>2, <3>4, <4>1
    <3> QED BY <3>3, <3>4
  <2> QED BY <2>1, <2>2
<1>6. ASSUME NEW i \in 0..(Len(src) - 1),
             \E k \in 1..(n + 1) : i < toks'[k].start,
             ~\E k \in 1..(n + 1) : toks'[k].start <= i /\ i < toks'[k].end
      PROVE  Insignificant(i)'
  <2>0. i \in Nat /\ i < a
    BY <1>0, <1>1, <1>2, <1>3, <1>4, <1>6
  <2>1. CASE i < pos
    <3>1. n # 0 /\ toks[n].end = pos
      BY <1>0, <2>0, <2>1 DEF CursorAtEnd
    <3>2. n \in 1..n /\ n \in 1..(n + 1) /\ toks'[n] = toks[n]
      BY <1>0, <1>2, <3>1
    <3>3. i < toks[n].start
      BY <1>1, <1>6, <2>0, <2>1, <3>1, <3>2
    <3>4. ~\E k \in 1..n : toks[k].start <= i /\ i < toks[k].end
      BY <1>0, <1>2, <1>6
    <3>5. Insignificant(i)
      BY <1>0, <3>2, <3>3, <3>4 DEF TokensTile
    <3>6. ASSUME NEW c \in 0..i, \A k \in 1..n : ~(toks[k].start <= c /\ c < toks[k].end)
          PROVE  \A k \in 1..(n + 1) : ~(toks'[k].start <= c /\ c < toks'[k].end)
      BY <1>0, <1>2, <1>4, <2>0, <3>6
    <3> QED BY <1>2, <3>5, <3>6 DEF Insignificant
  <2>2. CASE pos <= i /\ i < from
    BY <1>4, <2>0, <2>2 DEF Insignificant
  <2>3. CASE from <= i
    <3>1. i \in from..(a - 1)
      BY <1>4, <2>0, <2>3
    <3>2. Skipped(src, from, i)
      BY <3>1
    <3>3. ASSUME NEW c \in from..i, NEW k \in 1..(n + 1)
          PROVE  ~(toks'[k].start <= c /\ c < toks'[k].end)
      <4>1. CASE k = n + 1
        BY <1>2, <1>4, <2>0, <4>1
      <4>2. CASE k # n + 1
        <5>1. k \in 1..n /\ toks'[k] = toks[k]
          BY <1>0, <1>2, <4>2
        <5> QED BY <1>1, <1>3, <1>4, <5>1
      <4> QED BY <4>1, <4>2
    <3>4. \A c \in from..i : c \in 0..i
      BY <1>4
    <3> QED BY <1>2, <3>2, <3>3, <3>4 DEF Skipped, Insignificant
  <2> QED BY <1>4, <2>0, <2>1, <2>2, <2>3
<1> QED BY <1>2, <1>5, <1>6 DEF TokensTile

\* A lexer made by Lexer::new satisfies the invariant.
LEMMA LexInitInv == LexInit => LexInv
<1> SUFFICES ASSUME LexInit PROVE LexInv
  OBVIOUS
<1>1. src \in Seq(Bytes) /\ Len(src) \in Nat /\ pos = 0 /\ toks = <<>> /\ Len(toks) = 0
  BY SourcesAssumption DEF LexInit
<1>2. err \in Spans
  BY DEF LexInit, NoLexError, Spans, LexKinds
<1>3. 1..Len(toks) = {}
  BY <1>1
<1>4. TokensExact
  BY <1>3 DEF TokensExact, TokensTile, LiteralsWellFormed
<1>5. CursorAtEnd
  BY <1>1, <1>3 DEF CursorAtEnd
<1>6. toks \in Seq(Spans) /\ pos \in 0..Len(src)
  BY <1>1
<1>7. started = FALSE /\ diag = NoDiag
  BY Zenon DEF LexInit
<1> QED BY <1>1, <1>2, <1>4, <1>5, <1>6, <1>7 DEF LexInv, CaretAtError

\* next_token and render preserve the invariant.
LEMMA LexStepInv == LexInv /\ [LexNext]_lexVars => LexInv'
<1> SUFFICES ASSUME LexInv, [LexNext]_lexVars PROVE LexInv'
  OBVIOUS
<1>1. CASE next_token
  <2>0. PICK from \in pos..Len(src) : \E t : Returns(from, t)
    BY <1>1, NextToken
  <2>1. PICK t : Returns(from, t)
    BY <2>0
  <2> USE DEF Returns
  <2> DEFINE tok == [kind |-> t.kind, start |-> t.start, end |-> t.end]
  <2>2. /\ src' = src /\ diag' = diag /\ started' = TRUE /\ err = NoLexError
        /\ src \in Seq(Bytes) /\ toks \in Seq(Spans) /\ pos \in 0..Len(src)
    BY <1>1 DEF next_token, Ended, LexInv
  <2>3. diag = NoDiag
    BY <2>2 DEF LexInv
  <2>4. tok \in Spans /\ tok.kind = t.kind /\ tok.start = t.start /\ tok.end = t.end
    <3>1. t.start \in Nat
      BY <2>1, <2>2
    <3> QED BY <2>1, <3>1 DEF Spans
  <2>5. CASE t.ok
    <3>1. toks' = Append(toks, tok) /\ pos' = t.end /\ err' = err
      BY <2>1, <2>5
    <3>2. toks' \in Seq(Spans) /\ pos' \in 0..Len(src')
      BY <2>1, <2>2, <2>4, <2>5, <3>1
    <3>3. Len(toks') = Len(toks) + 1 /\ toks'[Len(toks) + 1] = tok /\ \A k \in 1..Len(toks) : toks'[k] = toks[k]
      BY <2>2, <2>4, <3>1
    <3>4. t.end \in t.start..Len(src) /\ t.start \in from..Len(src) /\ pos =< t.end
      BY <2>1, <2>2, <2>5
    <3>5. TokensTile'
      <4>1. from # pos => HasBom(src) /\ pos = 0 /\ from = 3
        <5>1. ~started => pos = 0
          BY DEF LexInv, CursorAtEnd
        <5> QED BY <2>1, <2>2, <5>1
      <4>2. t.end = t.start <=> t.kind = "Eof"
        BY <2>1, <2>5
      <4> QED BY <2>1, <2>2, <3>1, <3>4, <4>1, <4>2, TileAppend
    <3>6. LiteralsWellFormed'
      <4>1. WellFormed(src, tok)
        BY <2>1, <2>5, WellFormedOfSpan
      <4>2. \A k \in 1..Len(toks) : WellFormed(src, toks[k])
        BY DEF LexInv, TokensExact, LiteralsWellFormed
      <4>3. \A k \in 1..Len(toks') : k \in 1..Len(toks) \/ k = Len(toks) + 1
        BY <2>2, <3>3
      <4>4. ASSUME NEW k \in 1..Len(toks') PROVE WellFormed(src', toks'[k])
        BY <2>2, <3>3, <4>1, <4>2, <4>3
      <4> QED BY <4>4 DEF LiteralsWellFormed
    <3>7. CursorAtEnd'
      <4>1. \A k \in 1..Len(toks) : toks[k].end <= pos /\ toks[k].end \in Nat
        <5>1. \A k \in 1..Len(toks) : toks[k] \in Spans
          BY <2>2
        <5> QED BY <5>1 DEF LexInv, CursorAtEnd, Spans
      <4>2. ASSUME NEW k \in 1..Len(toks') PROVE toks'[k].end <= pos'
        <5>1. CASE k = Len(toks) + 1
          BY <2>1, <2>4, <3>1, <3>3, <5>1
        <5>2. CASE k # Len(toks) + 1
          <6>1. k \in 1..Len(toks) /\ toks'[k] = toks[k]
            BY <2>2, <3>3, <5>2
          <6> QED BY <2>1, <2>2, <3>1, <3>4, <4>1, <6>1
        <5> QED BY <5>1, <5>2
      <4>3. toks' # <<>> /\ toks'[Len(toks')].end = pos'
        BY <2>2, <2>4, <3>1, <3>3
      <4> QED BY <2>2, <4>2, <4>3 DEF CursorAtEnd
    <3> QED BY <2>2, <2>3, <3>1, <3>2, <3>5, <3>6, <3>7 DEF LexInv, TokensExact, CaretAtError
  <2>6. CASE ~t.ok
    <3>1. err' \in Spans /\ toks' = toks /\ pos' = pos
      BY <2>1, <2>4, <2>6
    <3>2. TokensTile'
      BY <2>2, <3>1 DEF LexInv, TokensExact, TokensTile, Insignificant
    <3>3. LiteralsWellFormed'
      BY <2>2, <3>1 DEF LexInv, TokensExact, LiteralsWellFormed
    <3>4. CursorAtEnd'
      BY <2>2, <3>1 DEF LexInv, CursorAtEnd
    <3>5. pos' \in 0..Len(src') /\ src' \in Seq(Bytes) /\ toks' \in Seq(Spans)
      BY <2>2, <3>1
    <3> QED BY <2>2, <2>3, <3>1, <3>2, <3>3, <3>4, <3>5 DEF LexInv, TokensExact, CaretAtError
  <2> QED BY <2>1, <2>5, <2>6
<1>2. CASE render
  <2>1. /\ src' = src /\ pos' = pos /\ started' = started /\ toks' = toks /\ err' = err
        /\ diag' = locate(src, err) /\ err # NoLexError
    BY <1>2 DEF render
  <2>2. CaretAtError'
    <3>1. src \in Seq(Bytes) /\ err \in Spans
      BY DEF LexInv
    <3> DEFINE d == locate(src, err)
    <3>2. /\ d.from <= d.to /\ d.to <= Len(src)
          /\ \A i \in d.from..(d.to - 1) : At(src, i) # Newline
          /\ d.from + d.column - 1 = Min({err.start, Len(src)})
          /\ d.from + d.column - 1 <= d.to
          /\ d.from > 0 => At(src, d.from - 1) = Newline
          /\ d.line = 1 + Cardinality({i \in 0..(err.start - 1) : At(src, i) = Newline})
          /\ d.carets >= 1
      BY <3>1, LocateRight
    <3> HIDE DEF d
    <3>3. diag' = d
      BY <2>1 DEF d
    <3> QED BY <2>1, <3>2, <3>3 DEF CaretAtError
  <2>3. TokensTile' /\ LiteralsWellFormed' /\ CursorAtEnd'
    BY <2>1 DEF LexInv, TokensExact, TokensTile, Insignificant, LiteralsWellFormed, CursorAtEnd
  <2> QED BY <2>1, <2>2, <2>3 DEF LexInv, TokensExact
<1>3. CASE UNCHANGED lexVars
  <2>1. src' = src /\ pos' = pos /\ started' = started /\ toks' = toks /\ err' = err /\ diag' = diag
    BY <1>3 DEF lexVars
  <2> QED BY <2>1 DEF LexInv, TokensExact, TokensTile, Insignificant, LiteralsWellFormed, CursorAtEnd, CaretAtError
<1> QED BY <1>1, <1>2, <1>3 DEF LexNext

\* For every source, whatever next_token has returned so far: the cursor is at the
\* end of the last token, the tokens tile the source, every literal is one of the
\* grammar, and a rendered diagnostic points at its error.
THEOREM LexInvariant == LexSpec => []LexInv
BY LexInitInv, LexStepInv, PTL DEF LexSpec

\* For every source, the tokens next_token returns lose no byte of it, do not
\* overlap, and are whole literals of the grammar where they are numbers, strings
\* (closing quote, escapes, no line terminator) or block strings (ended by the
\* first triple quote that is not escaped).
THEOREM LexTokensExact == LexSpec => []TokensExact
<1>1. LexInv => TokensExact
  BY DEF LexInv
<1> QED BY <1>1, LexInvariant, PTL

\* For every source and every error next_token reports in it, the line, column
\* and caret render shows are those of the byte the error starts at.
THEOREM LexCaretAtError == LexSpec => []CaretAtError
<1>1. LexInv => CaretAtError
  BY DEF LexInv
<1> QED BY <1>1, LexInvariant, PTL
=============================================================================
