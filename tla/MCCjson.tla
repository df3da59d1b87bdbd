-------------------------------- MODULE MCCjson -------------------------------
(***************************************************************************)
(* Four items: a list of three below a container, lists below lists, and   *)
(* the copy of a list that holds an item; a key comes in two spellings.    *)
(* And texts of trees of up to three levels, with one token altered        *)
(* anywhere.                                                               *)
(***************************************************************************)
EXTENDS Cjson, TLC

MCLower == [k \in {"a", "A"} |-> "a"]
MCMaxOf == [t \in {"Array", "Object", "Number"} |-> IF t = "Object" THEN 1 ELSE 2]
MCSym == Permutations(Items)

Leaf == {[NoItem EXCEPT !.kind = "null"], [NoItem EXCEPT !.kind = "string", !.val = TRUE]}
Keyed(i) == [i EXCEPT !.key = TRUE]
Over(S) ==
  {[NoItem EXCEPT !.kind = "array", !.child = c] : c \in {<<>>} \cup {<<x>> : x \in S}}
    \cup {[NoItem EXCEPT !.kind = "object", !.child = c] : c \in {<<>>} \cup {<<Keyed(x)>> : x \in S}}
Two(S) ==
  {[NoItem EXCEPT !.kind = "array", !.child = <<x, y>>] : x, y \in S}
    \cup {[NoItem EXCEPT !.kind = "object", !.child = <<Keyed(x), Keyed(y)>>] : x, y \in S}

Null == [NoItem EXCEPT !.kind = "null"]
List == [NoItem EXCEPT !.kind = "array"]
Low == Over({Null}) \cup {[NoItem EXCEPT !.kind = "string", !.val = TRUE]}
Trees == Leaf \cup Low \cup Two(Over({Null})) \cup Over(Two({Null}) \cup Two({List}) \cup Over(Over({Null})))

MCTexts == {Rendered(t, FALSE, 0) : t \in Trees} \cup {<<>>}
=============================================================================
