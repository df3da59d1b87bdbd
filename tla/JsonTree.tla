------------------------------- MODULE JsonTree -------------------------------
(***************************************************************************)
(* src/cjson/cJSON.c: trees of items.  The children of a container are a   *)
(* list through next and prev, in which prev of the first leads to the     *)
(* last, or nowhere: what builds a list in one go does not set it.  Any    *)
(* allocation may fail; what then changes nothing is no step.              *)
(*                                                                         *)
(* Callers keep the rules the program keeps: an item is put into one       *)
(* container, not below itself; arrays get items, objects items with keys. *)
(***************************************************************************)
EXTENDS Integers, FiniteSets, Sequences

CONSTANTS
  Items,        \* the items there is memory for
  Keys, NoKey,
  Lower,        \* key -> key, as tolower makes it
  NULL,
  MaxOf         \* bound: items there may be of each type

Types == {"Array", "Object", "Number"}
Container == {"Array", "Object"}

VARIABLES
  live,                \* the items allocated
  type, string,        \* fields of cJSON
  next, prev, child,
  kids                 \* auxiliary: the lists as a walk meets them

vars  == <<live, type, string, next, prev, child, kids>>
links == <<next, prev, child>>

-----------------------------------------------------------------------------
\* The m-th item of a list that is followed from its head, 0 being the head.
Walk(a, m) ==
  LET follow[k \in Nat] ==
        IF k = 0 THEN child[a]
        ELSE LET x == follow[k - 1] IN IF x = NULL THEN NULL ELSE next[x]
  IN follow[m]

\* The children of a container as a walk from its head meets them.
Kids(a) ==
  LET from[n \in 0 .. Cardinality(Items)] ==
        IF n = 0 THEN <<child[a]>>
        ELSE LET s == from[n - 1]
             IN IF s[Len(s)] = NULL THEN s ELSE Append(s, next[s[Len(s)]])
  IN SelectSeq(from[Cardinality(Items)], LAMBDA x : x # NULL)

GetArraySize(a) == Len(Kids(a))

GetArrayItem(a, which) ==
  IF which < 0 \/ which > GetArraySize(a) THEN NULL ELSE Walk(a, which)

SameName(name, k, cs) == IF cs THEN name = k ELSE k # NoKey /\ Lower[name] = Lower[k]

\* get_object_item: the search for the exact name stops at an item without one.
GetObjectItem(o, name, cs) ==
  LET stops(m) == \/ Walk(o, m) = NULL
                  \/ cs /\ string[Walk(o, m)] = NoKey
                  \/ SameName(name, string[Walk(o, m)], cs)
      m == CHOOSE n \in 0 .. GetArraySize(o) : stops(n) /\ \A k \in 0 .. n - 1 : ~stops(k)
  IN IF Walk(o, m) = NULL \/ string[Walk(o, m)] = NoKey THEN NULL ELSE Walk(o, m)

\* What cJSON_Delete comes by from item: children, and what follows in a list.
Reached(item) ==
  LET reached[n \in Nat] ==
        IF n = 0 THEN {item}
        ELSE LET S == reached[n - 1]
             IN S \cup (({next[x] : x \in S} \cup {child[x] : x \in S}) \ {NULL})
  IN reached[Cardinality(Items)]

\* Not in a container: no item leads to it.
Root(i) == i \in live /\ \A x \in live : child[x] # i /\ next[x] # i

\* New items of a type stay within the bound.
Few(new, t) == Cardinality({x \in live : type[x] = t}) + Cardinality(new) <= MaxOf[t]

\* The rules callers keep.
MayAdd(a, i, t) == a \in live /\ type[a] = t /\ Root(i) /\ a \notin Reached(i)

-----------------------------------------------------------------------------
Init ==
  /\ live = {} /\ type = [i \in Items |-> "Number"] /\ string = [i \in Items |-> NoKey]
  /\ next = [i \in Items |-> NULL] /\ prev = [i \in Items |-> NULL] /\ child = [i \in Items |-> NULL]
  /\ kids = [i \in Items |-> <<>>]

\* cJSON_New_Item and the functions cJSON_Create...
CreateItem(i, t) ==
  /\ i \notin live /\ Few({i}, t)
  /\ live' = live \cup {i} /\ type' = [type EXCEPT ![i] = t]
  /\ UNCHANGED <<string, links>>

\* cJSON_CreateIntArray and its like, of two numbers.
CreateIntArray(i, x, y) ==
  /\ i \notin live /\ x \notin live \cup {i} /\ y \notin live \cup {i, x}
  /\ Few({i}, "Array") /\ Few({x, y}, "Number")
  /\ live' = live \cup {i, x, y}
  /\ type' = [type EXCEPT ![i] = "Array", ![x] = "Number", ![y] = "Number"]
  /\ child' = [child EXCEPT ![i] = x] /\ next' = [next EXCEPT ![x] = y]
  /\ prev' = [prev EXCEPT ![y] = x]
  /\ UNCHANGED string

\* The last item, by the shortcut through prev or else by walking.
LastOf(a) == IF prev[child[a]] # NULL THEN prev[child[a]] ELSE Walk(a, GetArraySize(a) - 1)

\* Mutant of AddLast: the shortcut is taken without a look.
AddLastUnlinked(a, item) ==
  IF child[a] = NULL
  THEN /\ child' = [child EXCEPT ![a] = item]
       /\ prev' = [prev EXCEPT ![item] = item] /\ next' = [next EXCEPT ![item] = NULL]
  ELSE /\ next' = [next EXCEPT ![LastOf(a)] = item]
       /\ prev' = [prev EXCEPT ![item] = LastOf(a)]
       /\ UNCHANGED child

\* add_item_to_array, with suffix_object.
AddLast(a, item) ==
  IF child[a] = NULL
  THEN /\ child' = [child EXCEPT ![a] = item]
       /\ prev' = [prev EXCEPT ![item] = item] /\ next' = [next EXCEPT ![item] = NULL]
  ELSE /\ next' = [next EXCEPT ![LastOf(a)] = item]
       /\ prev' = [prev EXCEPT ![item] = LastOf(a), ![child[a]] = item]
       /\ UNCHANGED child

AddItemToArray(a, item) ==
  /\ MayAdd(a, item, "Array")
  /\ AddLast(a, item) /\ UNCHANGED <<live, type, string>>

\* add_item_to_object; without memory for the key nothing happens.
AddItemToObject(o, k, item) ==
  /\ MayAdd(o, item, "Object")
  /\ string' = [string EXCEPT ![item] = k]
  /\ AddLast(o, item) /\ UNCHANGED <<live, type>>

\* cJSON_AddNumberToObject and its like: create and add, or give back.
AddNewToObject(o, k, i, t) ==
  /\ o \in live /\ type[o] = "Object" /\ i \notin live /\ Few({i}, t)
  /\ live' = live \cup {i} /\ type' = [type EXCEPT ![i] = t]
  /\ string' = [string EXCEPT ![i] = k]
  /\ AddLast(o, i)

\* cJSON_DetachItemViaPointer: the links as they are left.
Unlink(a, item) ==
  /\ next' = [next EXCEPT ![item] = NULL,
                ![IF item # child[a] THEN prev[item] ELSE item] = IF item # child[a] THEN next[item] ELSE NULL]
  /\ child' = [child EXCEPT ![a] = IF item = @ THEN next[item] ELSE @]
  /\ prev' = [x \in Items |->
                IF x = item THEN NULL
                ELSE IF x = next[item] THEN prev[item]
                ELSE IF x = child[a] /\ next[item] = NULL THEN prev[item]
                ELSE prev[x]]

\* The item named by an index or a key.
Chosen(a) ==
  {GetArrayItem(a, which) : which \in -1 .. Cardinality(Items)}
    \cup (IF type[a] = "Object" THEN {GetObjectItem(a, k, cs) : k \in Keys, cs \in BOOLEAN} ELSE {})

DetachItem(a, item) ==
  /\ a \in live /\ item \in Chosen(a) \ {NULL}
  /\ Unlink(a, item) /\ UNCHANGED <<live, type, string>>

\* cJSON_Delete gives back all that is reached.
Gone(S) ==
  /\ live' = live \ S
  /\ type' = [x \in Items |-> IF x \in S THEN "Number" ELSE type[x]]

Erase(f, S, v) == [x \in Items |-> IF x \in S THEN v ELSE f[x]]

DeleteRoot(item) ==
  /\ Root(item)
  /\ LET S == Reached(item) IN
     /\ Gone(S) /\ string' = Erase(string, S, NoKey)
     /\ next' = Erase(next, S, NULL) /\ prev' = Erase(prev, S, NULL) /\ child' = Erase(child, S, NULL)

\* The item and what is below it, once it is detached.
Dropped(item) == IF child[item] = NULL THEN {item} ELSE {item} \cup Reached(child[item])

\* cJSON_DeleteItemFromArray and ...FromObject: detach, then delete.
DeleteItem(a, item) ==
  LET S == Dropped(item) IN
  /\ a \in live /\ item \in Chosen(a) \ {NULL}
  /\ child' = Erase([child EXCEPT ![a] = IF item = @ THEN next[item] ELSE @], S, NULL)
  /\ next' = Erase([x \in Items |-> IF item # child[a] /\ x = prev[item] THEN next[item] ELSE next[x]], S, NULL)
  /\ prev' = Erase([x \in Items |-> IF x = next[item] \/ (item # child[a] /\ x = child[a] /\ next[item] = NULL)
                                    THEN prev[item] ELSE prev[x]], S, NULL)
  /\ Gone(S) /\ string' = Erase(string, S, NoKey)

\* cJSON_InsertItemInArray before an item; past the end it appends.
InsertItem(a, which, new) ==
  LET after == GetArrayItem(a, which) IN
  /\ MayAdd(a, new, "Array") /\ which >= 0
  /\ IF after = NULL THEN AddLast(a, new)
     ELSE /\ next' = [next EXCEPT ![new] = after,
                        ![IF after = child[a] THEN new ELSE prev[after]] = IF after = child[a] THEN after ELSE new]
          /\ prev' = [prev EXCEPT ![new] = prev[after], ![after] = new]
          /\ child' = [child EXCEPT ![a] = IF after = @ THEN new ELSE @]
  /\ UNCHANGED <<live, type, string>>

\* cJSON_ReplaceItemViaPointer, and the deletion of the item replaced.
Swap(a, item, new, key) ==
  LET S == Dropped(item)
      first == child[a] = item
      back == IF first /\ prev[item] = item THEN new ELSE prev[item]
  IN
  /\ child' = Erase([child EXCEPT ![a] = IF first THEN new ELSE @], S, NULL)
  /\ next' = Erase([x \in Items |-> IF x = new THEN next[item]
                                    ELSE IF ~first /\ x = prev[item] THEN new ELSE next[x]], S, NULL)
  /\ prev' = Erase([x \in Items |-> IF x = new THEN back
                                    ELSE IF x = next[item] THEN new
                                    ELSE IF ~first /\ x = child[a] /\ next[item] = NULL THEN new
                                    ELSE prev[x]], S, NULL)
  /\ Gone(S) /\ string' = Erase([string EXCEPT ![new] = key], S, NoKey)

ReplaceItemInArray(a, which, new) ==
  /\ MayAdd(a, new, "Array") /\ GetArrayItem(a, which) # NULL
  /\ Swap(a, GetArrayItem(a, which), new, string[new])

\* replace_item_in_object: the new item is renamed first, also when there is
\* nothing to replace; without memory it is left without a name.
ReplaceItemInObject(o, k, new, cs) ==
  /\ MayAdd(o, new, "Object")
  /\ \E key \in {k, NoKey} :
       IF GetObjectItem(o, k, cs) # NULL THEN Swap(o, GetObjectItem(o, k, cs), new, key)
       ELSE string' = [string EXCEPT ![new] = key] /\ UNCHANGED <<live, type, links>>

\* Mutant of Linked: the last copy is left to point at what followed the original.
LinkedOn(item, as) ==
  [x \in Items |-> IF \E y \in {item} \cup Dropped(item) : as[y] = x
                   THEN LET y == CHOOSE z \in Dropped(item) : as[z] = x
                        IN IF next[y] = NULL THEN NULL ELSE IF next[y] \in Dropped(item) THEN as[next[y]] ELSE next[y]
                   ELSE next[x]]

\* The next pointers of the copies; that of the topmost one stays empty.
Linked(item, as) ==
  [x \in Items |-> IF \E y \in Dropped(item) : as[y] = x
                   THEN LET y == CHOOSE z \in Dropped(item) : as[z] = x
                        IN IF y = item \/ next[y] = NULL THEN NULL ELSE as[next[y]]
                   ELSE next[x]]

\* cJSON_Duplicate of an item with all below it.
Duplicate(item, as) ==
  LET S == Dropped(item)
      New == {as[y] : y \in S}
      Of(x) == CHOOSE y \in S : as[y] = x
      Copied(f) == [x \in Items |-> IF x \in New THEN f[Of(x)] ELSE f[x]]
      To(y) == IF y = NULL THEN NULL ELSE as[y]
  IN
  /\ \A t \in Types : Few({y \in S : type[y] = t}, t)
  /\ Cardinality(New) = Cardinality(S)
  /\ live' = live \cup New /\ type' = Copied(type) /\ string' = Copied(string)
  /\ child' = [x \in Items |-> IF x \in New THEN To(child[Of(x)]) ELSE child[x]]
  /\ next' = Linked(item, as)
  /\ prev' = [x \in Items |-> IF x \in New
                              THEN LET y == Of(x)
                                   IN IF y = item \/ \E z \in S : child[z] = y THEN NULL ELSE as[prev[y]]
                              ELSE prev[x]]

-----------------------------------------------------------------------------
Call ==
  \/ \E i \in Items, t \in Types : CreateItem(i, t)
  \/ \E i, x, y \in Items : CreateIntArray(i, x, y)
  \/ \E a, i \in Items : AddItemToArray(a, i) \/ DetachItem(a, i) \/ DeleteItem(a, i)
  \/ \E o, i \in Items, k \in Keys :
       AddItemToObject(o, k, i) \/ \E cs \in BOOLEAN : ReplaceItemInObject(o, k, i, cs)
  \/ \E o, i \in Items, k \in Keys, t \in Types : AddNewToObject(o, k, i, t)
  \/ \E a, i \in Items, which \in 0 .. Cardinality(Items) :
       InsertItem(a, which, i) \/ ReplaceItemInArray(a, which, i)
  \/ \E i \in Items : DeleteRoot(i)
  \/ \E i \in live : \E as \in [Dropped(i) -> Items \ live] : Duplicate(i, as)

Next == Call /\ kids' = [i \in Items |-> IF i \in live' THEN Kids(i)' ELSE <<>>]

Spec == Init /\ [][Next]_vars

-----------------------------------------------------------------------------
\* Types; what was given back is clean.
TypeOK ==
  /\ live \subseteq Items
  /\ type \in [Items -> Types] /\ string \in [Items -> Keys \cup {NoKey}]
  /\ next \in [Items -> Items \cup {NULL}] /\ prev \in [Items -> Items \cup {NULL}]
  /\ child \in [Items -> Items \cup {NULL}]
  /\ \A i \in Items \ live : string[i] = NoKey /\ {next[i], prev[i], child[i]} = {NULL}

\* Whatever calls came before: no link of a live item leads to one given back,
\* every list ends, each item of it but the first leads back to the one before,
\* and the first leads to the last one or nowhere, as append relies on.
ListsSound ==
  /\ \A i \in live : {next[i], prev[i], child[i]} \subseteq live \cup {NULL}
  /\ \A a \in live :
       /\ \E n \in 0 .. Cardinality(live) : Walk(a, n) = NULL
       /\ LET s == kids[a] IN
          /\ \A m \in 2 .. Len(s) : prev[s[m]] = s[m - 1]
          /\ child[a] # NULL => prev[s[1]] \in {NULL, s[Len(s)]}

\* get_array_item, get_object_item: an index finds the item a walk finds there, and
\* nothing outside the list; a name finds the first item that bears it, however
\* items were inserted and replaced, unless a key could not be allocated.
LookupsAgree ==
  \A a \in live :
    LET s == kids[a]
        named(k, cs) == {m \in 1 .. Len(s) : SameName(k, string[s[m]], cs)}
    IN
    /\ \A which \in -1 .. Cardinality(Items) :
         GetArrayItem(a, which) = IF which \in 0 .. Len(s) - 1 THEN s[which + 1] ELSE NULL
    /\ type[a] = "Object" /\ (\A m \in 1 .. Len(s) : string[s[m]] # NoKey) =>
         \A k \in Keys, cs \in BOOLEAN :
           GetObjectItem(a, k, cs) =
             IF named(k, cs) = {} THEN NULL
             ELSE s[CHOOSE m \in named(k, cs) : \A n \in named(k, cs) : m <= n]

\* cJSON as a whole: containers are sequences of items, and each call changes
\* the one it is given, at the place it names, and gives back what it should.
Forest == INSTANCE JsonForest
ImplementsForest == Forest!ForestSpec
=============================================================================
