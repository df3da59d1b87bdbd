------------------------------- MODULE YamlText -------------------------------
(***************************************************************************)
(* src/cjson/cYAML.c: a tree printed as YAML.  A text is a sequence of     *)
(* tokens; "  " and "- " are what do_indent writes.  The items are those   *)
(* of module JsonText.                                                     *)
(***************************************************************************)
EXTENDS Integers, Sequences, SequencesExt

Reps(n, t) == [i \in 1 .. IF n > 0 THEN n ELSE 0 |-> t]

\* do_indent
DoIndent(depth, dashes, in_list) ==
  LET d == IF in_list THEN depth - 1 ELSE depth
      blank == IF d > dashes THEN d - dashes ELSE 0
  IN Reps(blank, "  ") \o Reps(d - blank, "- ")

RECURSIVE Value(_, _, _, _)

\* print_key_value
KeyValue(item, depth, dashes, in_list) ==
  DoIndent(depth, dashes, in_list) \o <<"str", ":">> \o
  (CASE item.kind \in {"array", "object"} /\ item.child = <<>> -> <<" ", item.kind, "\n">>
     [] item.kind \in {"array", "object"} /\ item.child # <<>> ->
          <<"\n">> \o Value(item, depth + 1, dashes, in_list)
     [] OTHER -> <<" ">> \o Value(item, 0, 0, FALSE))

\* Only the first line of a container bears the dashes.
First(i, dashes) == IF i = 1 THEN dashes ELSE 0

\* print_object, print_array
Members(item, depth, dashes, in_list) ==
  LET lines[i \in 0 .. Len(item.child)] ==
        IF i = 0 THEN <<>>
        ELSE lines[i - 1] \o
             (IF item.kind = "object" THEN KeyValue(item.child[i], depth, First(i, dashes), in_list)
              ELSE Value(item.child[i], depth + 1, First(i, dashes) + 1, TRUE))
  IN lines[Len(item.child)]

\* print_value
Value(item, depth, dashes, in_list) ==
  CASE item.kind \in {"null", "string"} -> DoIndent(depth, dashes, in_list) \o <<item.kind, "\n">>
    [] item.kind \in {"array", "object"} ->
         IF item.child = <<>> THEN <<item.kind, "\n">> ELSE Members(item, depth, dashes, in_list)

\* cYAML_Print
YamlOf(item) == <<"---\n">> \o Value(item, IF item.kind = "array" THEN 1 ELSE 0, 0, FALSE)

Width(t) ==
  CASE t \in {"  ", "- ", "array", "object"} -> 2 [] t \in {"---\n", "null"} -> 4
    [] t \in {"str", "string"} -> 3 [] OTHER -> 1

-----------------------------------------------------------------------------
\* YAML by blocks: the lines of an element hang behind its dash, those of what is
\* below a key two columns to its right; a list is not shifted outside of lists.
RECURSIVE Block(_, _)
Block(item, in_list) ==
  LET n == Len(item.child)
      shifted(s, t) == [k \in DOMAIN s |-> <<IF k = 1 THEN t ELSE "  ">> \o s[k]]
      member(c) ==
        IF c.child = <<>> THEN <<<<"str", ":", " ", c.kind>>>>
        ELSE <<<<"str", ":">>>> \o
             (IF c.kind = "array" /\ ~in_list THEN Block(c, FALSE) ELSE shifted(Block(c, in_list), "  "))
      all[i \in 0 .. n] ==
        IF i = 0 THEN <<>>
        ELSE all[i - 1] \o
             (IF item.kind = "array" THEN shifted(Block(item.child[i], TRUE), "- ") ELSE member(item.child[i]))
  IN IF n = 0 THEN <<<<item.kind>>>> ELSE all[n]

\* Trees the printer is right about: an element of a list is no empty container,
\* and no object whose first key leads to a container with something in it.
RECURSIVE Regular(_)
Regular(item) ==
  \A i \in DOMAIN item.child :
    LET c == item.child[i] IN
    /\ Regular(c)
    /\ item.kind = "array" =>
         /\ c.kind \in {"array", "object"} => c.child # <<>>
         /\ c.kind = "object" => c.child[1].child = <<>>

PrintsBlocks(item) ==
  Regular(item) =>
    YamlOf(item) = FoldLeft(LAMBDA t, line : t \o line \o <<"\n">>, <<"---\n">>, Block(item, FALSE))
=============================================================================
