------------------------------- MODULE JsonText -------------------------------
(***************************************************************************)
(* src/cjson/cJSON.c: the parser and the printer.  A text is a sequence of *)
(* tokens: brackets, commas, colons, white space, the literal "null"       *)
(* (which stands for false, true and numbers too), a string "str" and the  *)
(* terminator "NUL".  What is inside a string is module JsonString.        *)
(*                                                                         *)
(* An item is a record: kind, whether it has a key and a value allocated,  *)
(* and its children.                                                       *)
(***************************************************************************)
EXTENDS Integers, Sequences, SequencesExt

CONSTANTS
  NestingLimit,   \* CJSON_NESTING_LIMIT
  IntMax          \* INT_MAX

Tokens == {"[", "]", "{", "}", ",", ":", " ", "null", "str", "NUL"}
White  == {" ", "NUL"}                 \* a byte of 32 or less
NoItem == [kind |-> "invalid", key |-> FALSE, val |-> FALSE, child |-> <<>>]

\* Blocks of memory that an item holds, with all below it.
RECURSIVE Blocks(_)
Blocks(item) ==
  1 + (IF item.key THEN 1 ELSE 0) + (IF item.val THEN 1 ELSE 0)
    + FoldLeft(LAMBDA n, c : n + Blocks(c), 0, item.child)

-----------------------------------------------------------------------------
\* The parser's state: place, depth, blocks it may still get and blocks in use.
Buffer(mem) == [at |-> 1, depth |-> 0, mem |-> mem, live |-> 0]

Char(text, p) == IF p.at <= Len(text) THEN text[p.at] ELSE "end"
Step(p) == [p EXCEPT !.at = @ + 1]

\* buffer_skip_whitespace: at the end it steps back to the last byte.
SkipWhite(text, p) ==
  LET after == {i \in p.at .. Len(text) : text[i] \notin White}
  IN IF p.at > Len(text) THEN p
     ELSE [p EXCEPT !.at = IF after = {} THEN Len(text) ELSE CHOOSE i \in after : \A j \in after : i <= j]

Malloc(p) == [p EXCEPT !.mem = @ - 1, !.live = @ + 1]
Done(item, p) == [ok |-> TRUE, item |-> item, p |-> p]

\* cJSON_Delete of the list that was begun.
Fail(list, p) ==
  [ok |-> FALSE, item |-> NoItem,
   p |-> [p EXCEPT !.live = @ - FoldLeft(LAMBDA n, c : n + Blocks(c), 0, list)]]

Closing(kind) == IF kind = "object" THEN "}" ELSE "]"

\* The end of a container.
Leave(item, kind, list, p) ==
  Done([item EXCEPT !.kind = kind, !.child = list], [Step(p) EXCEPT !.depth = @ - 1])

\* Mutant of FailName: the item whose name was read is left out of the list.
FailNameLost(list, new, p) == Fail(list, p)

\* A member whose name or value cannot be read is in the list already.
FailName(list, new, p) == Fail(Append(list, new), p)

RECURSIVE ParseValue(_, _, _), Members(_, _, _, _, _)

\* parse_value; strings and scalars are one token.
ParseValue(text, item, p) ==
  LET c == Char(text, p)
      kind == IF c = "{" THEN "object" ELSE "array"
      in == SkipWhite(text, [Step(p) EXCEPT !.depth = @ + 1])
  IN
  CASE c = "null" -> Done([item EXCEPT !.kind = "null"], Step(p))
    [] c = "str" /\ p.mem > 0 -> Done([item EXCEPT !.kind = "string", !.val = TRUE], Step(Malloc(p)))
    \* parse_array, parse_object
    [] c \in {"[", "{"} /\ p.depth < NestingLimit ->
         IF Char(text, in) = Closing(kind) THEN Leave(item, kind, <<>>, in)
         ELSE IF Char(text, in) = "end" THEN Fail(<<>>, in)
         ELSE Members(text, item, kind, <<>>, [in EXCEPT !.at = @ - 1])
    [] OTHER -> Fail(<<>>, p)

\* The loop over the members of a container, from the byte before the next one.
Members(text, item, kind, list, p) ==
  LET p1 == SkipWhite(text, Step(Malloc(p)))               \* cJSON_New_Item
      \* the name
      p2 == SkipWhite(text, Step(Malloc(p1)))
      p3 == SkipWhite(text, Step(p2))
      object == kind = "object"
      new == [NoItem EXCEPT !.key = object]
      value == ParseValue(text, new, IF object THEN p3 ELSE p1)
      p4 == SkipWhite(text, value.p)
      longer == Append(list, value.item)
  IN
  IF p.mem = 0 THEN Fail(list, p)
  ELSE IF object /\ (Char(text, p1) # "str" \/ p1.mem = 0) THEN FailName(list, NoItem, p1)
  ELSE IF object /\ Char(text, p2) # ":" THEN FailName(list, new, p2)
  ELSE IF ~value.ok THEN FailName(list, new, value.p)
  ELSE IF Char(text, p4) = "," THEN Members(text, item, kind, longer, p4)
  ELSE IF Char(text, p4) = Closing(kind) THEN Leave(item, kind, longer, p4)
  ELSE Fail(longer, p4)

\* cJSON_ParseWithLengthOpts, with as many allocations as mem.
Parse(text, require, mem) ==
  LET r == ParseValue(text, NoItem, SkipWhite(text, Malloc(Buffer(mem))))
      p == SkipWhite(text, r.p)
  IN IF text = <<>> \/ mem = 0 THEN Fail(<<>>, Buffer(mem))
     ELSE IF ~r.ok THEN Fail(<<NoItem>>, r.p)
     ELSE IF require /\ Char(text, p) # "NUL" THEN Fail(<<r.item>>, p)
     ELSE r

-----------------------------------------------------------------------------
\* JSON as a grammar.
Trim(s) ==
  LET solid == {i \in DOMAIN s : s[i] \notin White}
  IN IF solid = {} THEN <<>>
     ELSE SubSeq(s, CHOOSE i \in solid : \A j \in solid : i <= j, CHOOSE i \in solid : \A j \in solid : i >= j)

RECURSIVE IsValue(_), IsList(_, _)
IsValue(s) ==
  \/ s \in {<<"null">>, <<"str">>}
  \/ \E kind \in {"array", "object"} :
       /\ Len(s) >= 2 /\ s[1] = (IF kind = "array" THEN "[" ELSE "{") /\ s[Len(s)] = Closing(kind)
       /\ LET inner == Trim(SubSeq(s, 2, Len(s) - 1)) IN inner = <<>> \/ IsList(inner, kind)

IsMember(s, kind) ==
  IF kind = "array" THEN IsValue(s)
  ELSE /\ s # <<>> /\ s[1] = "str"
       /\ LET rest == Trim(SubSeq(s, 2, Len(s)))
          IN rest # <<>> /\ rest[1] = ":" /\ IsValue(Trim(SubSeq(rest, 2, Len(rest))))
IsList(s, kind) ==
  \/ IsMember(s, kind)
  \/ \E i \in DOMAIN s : s[i] = "," /\ IsMember(Trim(SubSeq(s, 1, i - 1)), kind)
                                    /\ IsList(Trim(SubSeq(s, i + 1, Len(s))), kind)

Nesting(s) ==
  LET open[i \in 0 .. Len(s)] ==
        IF i = 0 THEN 0
        ELSE open[i - 1] + (IF s[i] \in {"[", "{"} THEN 1 ELSE IF s[i] \in {"]", "}"} THEN -1 ELSE 0)
  IN CHOOSE n \in 0 .. Len(s) : (\E i \in 0 .. Len(s) : open[i] = n) /\ \A i \in 0 .. Len(s) : open[i] <= n

\* Where a value ends that a text begins with.
Ends(text) ==
  {m \in DOMAIN text : /\ text[m] \notin White
                       /\ IsValue(Trim(SubSeq(text, 1, m))) /\ Nesting(SubSeq(text, 1, m)) <= NestingLimit}

\* With a terminator required, nothing but white space may come before it.
Accepted(text, require) ==
  \E m \in Ends(text) :
    require => m < Len(text) /\ text[Len(text)] = "NUL" /\ \A i \in m + 1 .. Len(text) : text[i] \in White

-----------------------------------------------------------------------------
\* The printer: room and place in its buffer, the place of the last terminator
\* written, what was written, and whether all of it fell inside the buffer.
Width(t) == CASE t = "null" -> 4 [] t = "str" -> 3 [] OTHER -> 1
WidthOf(s) == FoldLeft(LAMBDA n, t : n + Width(t), 0, s)

Needed(b, needed) == needed + b.off + 1

\* ensure
Ensure(b, needed) ==
  LET all == Needed(b, needed)
      bigger == IF all > IntMax \div 2 THEN IntMax ELSE all * 2
  IN
  IF ~b.ok THEN b
  ELSE IF b.room > 0 /\ b.off >= b.room THEN [b EXCEPT !.ok = FALSE]
  ELSE IF needed > IntMax THEN [b EXCEPT !.ok = FALSE]
  ELSE IF all <= b.room THEN b
  ELSE IF b.noalloc \/ all > IntMax THEN [b EXCEPT !.ok = FALSE]
  ELSE IF b.mem = 0 THEN [b EXCEPT !.ok = FALSE, !.room = 0, !.buffers = @ - 1]
  ELSE [b EXCEPT !.room = bigger, !.mem = @ - 1]

\* Tokens written at the place, with a terminator or without, over what was there.
Before(s, off) ==
  SubSeq(s, 1, CHOOSE n \in 0 .. Len(s) :
                 /\ WidthOf(SubSeq(s, 1, n)) <= off
                 /\ \A m \in n + 1 .. Len(s) : WidthOf(SubSeq(s, 1, m)) > off)
Write(b, s, nul) ==
  IF ~b.ok THEN b
  ELSE [b EXCEPT !.text = Before(@, b.off) \o s,
                 !.safe = @ /\ b.off + WidthOf(s) + (IF nul THEN 1 ELSE 0) <= b.room,
                 !.nul = IF nul THEN b.off + WidthOf(s) ELSE @]
Advance(b, n) == IF b.ok THEN [b EXCEPT !.off = @ + n] ELSE b

\* Mutant of UpdateOffset: the place stays where it was.
UpdateOffsetStale(b) == b

\* update_offset: strlen finds the terminator, if one was written past the place.
UpdateOffset(b) ==
  IF ~b.ok THEN b
  ELSE [b EXCEPT !.safe = @ /\ b.nul >= b.off, !.off = IF b.nul >= b.off THEN b.nul ELSE @]

Tabs(n) == [i \in 1 .. n |-> "\t"]

\* print_string_ptr
PrintString(b) == Write(Ensure(b, 1 + 3), <<"str">>, TRUE)

RECURSIVE PrintValue(_, _, _)
PrintArray(item, b, fmt) ==
  LET sep(i, c) == IF i = Len(item.child) THEN c
                   ELSE LET s == IF fmt THEN <<",", " ">> ELSE <<",">>
                        IN Advance(Write(Ensure(c, Len(s) + 1), s, TRUE), Len(s))
      elements[i \in 0 .. Len(item.child)] ==
        IF i = 0 THEN Advance(Write(Ensure(b, 1), <<"[">>, FALSE), 1)
        ELSE sep(i, UpdateOffset(PrintValue(item.child[i], elements[i - 1], fmt)))
      open(c) == [c EXCEPT !.depth = @ + 1]
  IN LET e == elements[Len(item.child)] IN Write(Ensure(e, 2), <<"]">>, TRUE)

PrintObject(item, b0, fmt) ==
  LET head == IF fmt THEN <<"{", "\n">> ELSE <<"{">>
      b == [Advance(Write(Ensure(b0, Len(head) + 1), head, FALSE), Len(head)) EXCEPT !.depth = @ + 1]
      colon == IF fmt THEN <<":", "\t">> ELSE <<":">>
      member(i, c) ==
        LET c1 == IF fmt THEN Advance(Write(Ensure(c, c.depth), Tabs(c.depth), FALSE), c.depth) ELSE c
            c2 == UpdateOffset(PrintString(c1))
            c3 == Advance(Write(Ensure(c2, Len(colon)), colon, FALSE), Len(colon))
            c4 == UpdateOffset(PrintValue(item.child[i], c3, fmt))
            s == (IF i < Len(item.child) THEN <<",">> ELSE <<>>) \o (IF fmt THEN <<"\n">> ELSE <<>>)
        IN Advance(Write(Ensure(c4, Len(s) + 1), s, TRUE), Len(s))
      members[i \in 0 .. Len(item.child)] == IF i = 0 THEN b ELSE member(i, members[i - 1])
      e == members[Len(item.child)]
      tail == (IF fmt THEN Tabs(e.depth - 1) ELSE <<>>) \o <<"}">>
  IN [Write(Ensure(e, IF fmt THEN e.depth + 1 ELSE 2), tail, TRUE) EXCEPT !.depth = @ - 1]

\* print_value
PrintValue(item, b, fmt) ==
  CASE item.kind = "null"   -> Write(Ensure(b, 5), <<"null">>, TRUE)
    [] item.kind = "string" -> PrintString(b)
    [] item.kind = "array"  ->
         LET r == PrintArray(item, [b EXCEPT !.depth = @ + 1], fmt) IN [r EXCEPT !.depth = @ - 1]
    [] item.kind = "object" -> PrintObject(item, b, fmt)

PrintBuffer(room, noalloc, mem) ==
  [room |-> room, off |-> 0, nul |-> -1, text |-> <<>>, depth |-> 0, noalloc |-> noalloc,
   mem |-> mem, safe |-> TRUE, ok |-> TRUE, buffers |-> 1]

\* The same text, put together from the parts of the tree.
RECURSIVE Rendered(_, _, _)
Rendered(item, fmt, depth) ==
  LET n == Len(item.child)
      each(i) == Rendered(item.child[i], fmt, depth + 1)
      list[i \in 0 .. n] ==
        IF i = 0 THEN <<>>
        ELSE list[i - 1] \o each(i) \o (IF i = n THEN <<>> ELSE IF fmt THEN <<",", " ">> ELSE <<",">>)
      line(i) == (IF fmt THEN Tabs(depth + 1) ELSE <<>>) \o <<"str", ":">>
                   \o (IF fmt THEN <<"\t">> ELSE <<>>) \o each(i)
                   \o (IF i = n THEN <<>> ELSE <<",">>) \o (IF fmt THEN <<"\n">> ELSE <<>>)
      lines[i \in 0 .. n] == IF i = 0 THEN <<>> ELSE lines[i - 1] \o line(i)
  IN CASE item.kind = "null"   -> <<"null">>
       [] item.kind = "string" -> <<"str">>
       [] item.kind = "array"  -> <<"[">> \o list[n] \o <<"]">>
       [] item.kind = "object" -> <<"{">> \o (IF fmt THEN <<"\n">> ELSE <<>>) \o lines[n]
                                    \o (IF fmt THEN Tabs(depth) ELSE <<>>) \o <<"}">>
=============================================================================
