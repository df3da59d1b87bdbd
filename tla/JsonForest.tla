------------------------------ MODULE JsonForest ------------------------------
(***************************************************************************)
(* What the list operations of cJSON promise: every container holds a      *)
(* sequence of items, an item is in one container at most, and what is     *)
(* deleted is the item with everything below it, and nothing else.         *)
(***************************************************************************)
EXTENDS SequencesExt

CONSTANTS Items, Keys, NoKey, Types

VARIABLES live, type, string, kids

forestVars == <<live, type, string, kids>>

Holds(a, i) == \E p \in DOMAIN kids[a] : kids[a][p] = i
Root(i) == i \in live /\ \A a \in live : ~Holds(a, i)

\* i and everything below it.
Below(i) ==
  LET below[n \in Nat] ==
        IF n = 0 THEN {i}
        ELSE LET S == below[n - 1] IN S \cup UNION {ToSet(kids[a]) : a \in S}
  IN below[Cardinality(Items)]

ForestInit == live = {} /\ type = [i \in Items |-> "Number"] /\ string = [i \in Items |-> NoKey]
              /\ kids = [i \in Items |-> <<>>]

\* A list of new items below a new one, or a new item alone.
Create(i, t, list) ==
  /\ \A p \in DOMAIN list : list[p] \notin live \cup {i}
  /\ live' = live \cup {i} \cup {list[p] : p \in DOMAIN list}
  /\ type' = [x \in Items |-> IF x = i THEN t
                              ELSE IF \E p \in DOMAIN list : list[p] = x THEN "Number" ELSE type[x]]
  /\ kids' = [kids EXCEPT ![i] = list]
  /\ UNCHANGED string

\* An item becomes one of a container, under its key or a new one.
Insert(a, i) ==
  /\ UNCHANGED <<live, type>>
  /\ \E k \in Keys \cup {string[i]} : string' = [string EXCEPT ![i] = k]
  /\ \E p \in DOMAIN kids'[a] : kids'[a][p] = i /\ kids[a] = RemoveAt(kids'[a], p)
  /\ \A x \in Items \ {a} : kids'[x] = kids[x]
  /\ Root(i) /\ a \notin Below(i)

\* A new item becomes the last of an object.
Enter(a, i, t) ==
  /\ live' = live \cup {i} /\ type' = [type EXCEPT ![i] = t]
  /\ \E k \in Keys : string' = [string EXCEPT ![i] = k]
  /\ kids' = [kids EXCEPT ![a] = Append(@, i)]

Detach(a, p) ==
  /\ UNCHANGED <<live, type, string>>
  /\ Len(kids'[a]) < Len(kids[a]) /\ kids'[a] = RemoveAt(kids[a], p)
  /\ \A x \in Items \ {a} : kids'[x] = kids[x]

\* Memory that is given back: nothing is left of its items.
Free(gone, k, s) ==
  /\ live' = live \ gone
  /\ type' = [x \in Items |-> IF x \in gone THEN "Number" ELSE type[x]]
  /\ string' = [x \in Items |-> IF x \in gone THEN NoKey ELSE s[x]]
  /\ kids' = [x \in Items |-> IF x \in gone THEN <<>> ELSE k[x]]

\* The p-th item is deleted, with all below it.
DeleteAt(a, p) ==
  /\ live' # live /\ kids[a][p] \notin live'
  /\ Free(Below(kids[a][p]), [kids EXCEPT ![a] = RemoveAt(@, p)], string)

\* Another one takes its place.
Replace(a, p, i) ==
  /\ live' # live /\ kids[a][p] \notin live'
  /\ Root(i) /\ a \notin Below(i)
  /\ \E k \in Keys \cup {NoKey, string[i]} :
       Free(Below(kids[a][p]), [kids EXCEPT ![a] = ReplaceAt(@, p, i)], [string EXCEPT ![i] = k])

Rename(i) ==
  /\ UNCHANGED <<live, type, kids>>
  /\ Root(i)
  /\ \E k \in Keys \cup {NoKey} : string' = [string EXCEPT ![i] = k]

Delete(i) ==
  /\ i \notin live' /\ Root(i)
  /\ Free(Below(i), kids, string)

\* A copy of i and of all below it, item by item.
Copy(i, as) ==
  /\ \A x, y \in Below(i) : as[x] = as[y] => x = y
  /\ live' = live \cup {as[x] : x \in Below(i)}
  /\ \A x \in Below(i) :
       /\ type'[as[x]] = type[x] /\ string'[as[x]] = string[x]
       /\ kids'[as[x]] = [p \in DOMAIN kids[x] |-> as[kids[x][p]]]
  /\ \A x \in live : type'[x] = type[x] /\ string'[x] = string[x] /\ kids'[x] = kids[x]

ForestNext ==
  \/ \E i \in live' \ live, t \in Types : \E list \in {<<>>} \cup {<<x, y>> : x, y \in live' \ live} :
       Create(i, t, list)
  \/ \E a \in live, i \in live' \ live, t \in Types : Enter(a, i, t)
  \/ \E a, i \in live : Insert(a, i)
  \/ \E a \in live : \E p \in DOMAIN kids[a] :
       Detach(a, p) \/ DeleteAt(a, p) \/ \E i \in live : Replace(a, p, i)
  \/ \E i \in live : Rename(i) \/ Delete(i)
  \/ \E i \in live : live \subseteq live' /\ \E as \in [Below(i) -> live' \ live] : Copy(i, as)

ForestSpec == ForestInit /\ [][ForestNext]_forestVars
=============================================================================
