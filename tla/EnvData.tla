------------------------------- MODULE EnvData -------------------------------
(***************************************************************************)
(* The U-Boot environment as data, and the search-and-replace by which     *)
(* uboot_setenv_cb (src/uboot.c) edits it.                                 *)
(*                                                                         *)
(* An environment is a sequence of variables <<name, value>>; names and    *)
(* values are sequences of letters, of which only equality, length and     *)
(* prefixes matter.                                                        *)
(***************************************************************************)
EXTENDS Integers, Sequences, SequencesExt

CONSTANTS
  Keys,      \* the variables' names
  Values     \* and values; <<>> is the empty one

\* The bytes of a variable, "name=value".
Text(var) == var[1] \o <<"=">> \o var[2]

\* strncmp(ptr, key, strlen(key)) == 0
Hits(env, key) == {n \in DOMAIN env : IsPrefix(key, Text(env[n]))}

\* Hits whose old value is as long as the new one: they are edited in place.
Fits(env, key, new) == {n \in Hits(env, key) : Len(env[n][2]) = Len(new)}

First(S) == CHOOSE n \in S : \A m \in S : n <= m

\* The first one ends the walk; what was gathered in newenv is dropped.
InPlace(env, key, new) == [env EXCEPT ![First(Fits(env, key, new))][2] = new]

\* Each hit is written anew, or left out when the new value is empty; what is
\* kept stays in its order.
Retained(env, key, new) == {n \in DOMAIN env : n \notin Hits(env, key) \/ new # <<>>}
Rank(S, n) == Cardinality({m \in S : m <= n})
Nth(S, k) == CHOOSE n \in S : Rank(S, n) = k

Rebuilt(env, key, new) ==
  LET kept == Retained(env, key, new)
  IN  [k \in 1 .. Cardinality(kept) |->
        IF Nth(kept, k) \in Hits(env, key) THEN <<key, new>> ELSE env[Nth(kept, k)]]

\* Mutant of SetVar: a variable that is there already is added once more.
SetVarTwice(env, key, new) == Append(env, <<key, new>>)

SetVar(env, key, new) ==
  IF Fits(env, key, new) # {} THEN InPlace(env, key, new)
  ELSE IF Hits(env, key) # {} THEN Rebuilt(env, key, new)
  ELSE Append(env, <<key, new>>)

\* Mutant of Unchanged: only the lengths are compared.
UnchangedByLength(env, key, new) == Fits(env, key, new) # {}

\* "Nothing will be changed", for setenv and set_env_param_ram.
Unchanged(env, key, new) ==
  /\ Fits(env, key, new) # {}
  /\ env[First(Fits(env, key, new))][2] = new

\* uboot_env_get_param; a variable with no value counts as one not set.
Lookup(env, key) ==
  LET named == {n \in DOMAIN env : env[n][1] = key}
  IN  IF named = {} THEN <<>> ELSE env[First(named)][2]
=============================================================================
