-------------------------------- MODULE KeyMap --------------------------------
(***************************************************************************)
(* What a hash table promises: a map from keys to values.  A call that     *)
(* fails for want of memory may lose entries, but never makes one up or    *)
(* changes the value of one that stays.                                    *)
(***************************************************************************)
CONSTANTS Keys, Values

VARIABLES
  map,   \* key -> value, for the keys present
  last   \* the last call: <<what it was, with its arguments, what it returned>>

mapVars == <<map, last>>

Only(S) == [k \in DOMAIN map \cap S |-> map[k]]

Init == DOMAIN map = {} /\ last = <<<<"setup">>, "success">>

Insert(k, v) ==
  /\ map' = [x \in DOMAIN map \cup {k} |-> IF x = k THEN v ELSE map[x]]
  /\ last' = <<<<"insert", k, v>>, IF k \in DOMAIN map THEN "updated" ELSE "inserted">>

Erase(k) ==
  /\ map' = Only(Keys \ {k})
  /\ last' = <<<<"erase", k>>, IF k \in DOMAIN map THEN "success" ELSE "not_found">>

EraseSome(S) == map' = Only(Keys \ S) /\ last' = <<<<"iterate", S>>, "success">>

Clear == map' = Only({}) /\ last' = <<<<"clear">>, "success">>

Reserve == map' = map /\ last' = <<<<"reserve">>, "success">>

Fail(S) == map' = Only(S) /\ last' \in {<<<<"any">>, "error">>, <<<<"any">>, "crash">>}

Next ==
  \/ \E k \in Keys, v \in Values : Insert(k, v)
  \/ \E k \in Keys : Erase(k)
  \/ \E S \in SUBSET Keys : EraseSome(S) \/ Fail(S)
  \/ Clear \/ Reserve

Spec == Init /\ [][Next]_mapVars
=============================================================================
