------------------------------ MODULE JsonString ------------------------------
(***************************************************************************)
(* src/cjson/cJSON.c: a string between its quotes.  Bytes are sorted by    *)
(* what the code does with them: the quote, the backslash, "newline" for   *)
(* those with a letter of their own, "ctrl" for other control bytes, and   *)
(* "plain" for what is copied.                                             *)
(*                                                                         *)
(* In a text an escape is "\\" and a letter, and "\\", "u" is followed by  *)
(* four digits, taken as one symbol: the code of a control byte, of a      *)
(* character of two or of three bytes, the first or the second half of a   *)
(* pair, zero, or no number at all.                                        *)
(***************************************************************************)
EXTENDS Integers, Sequences, SequencesExt

Chars == {"quote", "back", "newline", "ctrl", "plain"}
Codes == {"ctrl4", "two", "three", "high", "low", "zero", "bad"}

Bytes(s) == FoldLeft(LAMBDA n, c : n + (IF c \in Codes THEN 4 ELSE 1), 0, s)

\* What a text between quotes is made of; a code is torn at most at its end.
Chunks == {<<"plain">>, <<"quote">>, <<"back">>, <<"back", "n">>, <<"back", "quote">>, <<"back", "back">>,
           <<"back", "plain">>} \cup {<<"back", "u", c>> : c \in Codes}

-----------------------------------------------------------------------------
\* print_string_ptr: the bytes are counted first and then written.

EscapeCharacters(s) ==
  FoldLeft(LAMBDA n, c : n + (CASE c = "plain" -> 0 [] c = "ctrl" -> 5 [] OTHER -> 1), 0, s)

Escaped(c) ==
  CASE c = "newline" -> <<"back", "n">> [] c = "ctrl" -> <<"back", "u", "ctrl4">>
    [] c = "plain" -> <<c>> [] OTHER -> <<"back", c>>

PrintString(s) ==
  IF EscapeCharacters(s) = 0 THEN s ELSE FoldLeft(LAMBDA t, c : t \o Escaped(c), <<>>, s)
OutputLength(s) == Len(s) + EscapeCharacters(s)

-----------------------------------------------------------------------------
\* utf16_literal_to_utf8 of the escape at t[i]: the symbols it is made of and
\* the bytes it becomes; a second half alone or a pair without one is none.
Literal(t, i, end) ==
  LET code == IF i + 2 < end THEN t[i + 2] ELSE "end" IN
  CASE code = "ctrl4"         -> <<3, <<"ctrl">>>>
    [] code \in {"zero", "bad"} -> <<3, <<"NUL">>>>        \* parse_hex4 answers 0
    [] code = "two"           -> <<3, <<"u1", "u2">>>>
    [] code = "three"         -> <<3, <<"u1", "u2", "u3">>>>
    [] code = "high" /\ i + 5 < end /\ t[i + 3] = "back" /\ t[i + 4] = "u" /\ t[i + 5] = "low" ->
         <<6, <<"u1", "u2", "u3", "u4">>>>
    [] OTHER -> <<0, <<>>>>

\* The byte an escape with a letter stands for.
Letters == [l \in {"n", "quote", "back"} |-> IF l = "n" THEN "newline" ELSE l]

RECURSIVE Decode(_, _, _, _)
Decode(t, i, end, out) ==
  IF i >= end THEN [ok |-> TRUE, out |-> out]
  ELSE IF t[i] # "back" THEN Decode(t, i + 1, end, Append(out, t[i]))
  ELSE IF t[i + 1] \in DOMAIN Letters THEN Decode(t, i + 2, end, Append(out, Letters[t[i + 1]]))
  ELSE IF t[i + 1] = "u" /\ Literal(t, i, end)[1] > 0
  THEN Decode(t, i + Literal(t, i, end)[1], end, out \o Literal(t, i, end)[2])
  ELSE [ok |-> FALSE, out |-> out]

\* The first loop of parse_string, over a text behind its opening quote: the
\* place of the closing one, or 0, and the backslashes passed over.
RECURSIVE Closing(_, _, _)
Closing(t, i, skipped) ==
  IF i > Len(t) \/ (t[i] = "back" /\ i = Len(t)) THEN <<0, skipped>>
  ELSE IF t[i] = "quote" THEN <<i, skipped>>
  ELSE IF t[i] = "back" THEN Closing(t, i + 2, skipped + 1)
  ELSE Closing(t, i + 1, skipped)

\* parse_string: what was allocated for the bytes and what they are.
ParseString(t) ==
  LET c == Closing(t, 1, 0)
      d == Decode(t, 1, c[1], <<>>)
  IN IF c[1] = 0 THEN [ok |-> FALSE, out |-> <<>>, room |-> 0]
     ELSE [ok |-> d.ok, out |-> d.out,
           room |-> Bytes(SubSeq(t, 1, c[1] - 1)) + 1 - c[2] + 1]

-----------------------------------------------------------------------------
\* print_string_ptr writes as many bytes as it asked room for, and what it wrote
\* is read back as it was, whatever bytes the string has.
EscapesBack(s) ==
  /\ Bytes(PrintString(s)) = OutputLength(s)
  /\ LET r == ParseString(Append(PrintString(s), "quote")) IN r.ok /\ r.out = s

\* parse_string never writes past what it allocated, terminator included, also when
\* it gives up half-way, and takes a text up to its first bare quote.
DecodesInside(t) ==
  LET r == ParseString(t)
      bare == {i \in DOMAIN t : t[i] = "quote" /\
                 LET before == {j \in 0 .. i - 1 : \A k \in j + 1 .. i - 1 : t[k] = "back"}
                 IN (i - 1 - (CHOOSE j \in before : \A m \in before : j <= m)) % 2 = 0}
  IN
  /\ r.room > 0 => Len(r.out) + 1 <= r.room
  /\ Closing(t, 1, 0)[1] = IF bare = {} THEN 0 ELSE CHOOSE i \in bare : \A j \in bare : i <= j
=============================================================================
