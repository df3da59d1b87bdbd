--------------------------------- MODULE Cjson --------------------------------
(***************************************************************************)
(* src/cjson as its callers have it: they build trees of items by calls    *)
(* (JsonTree), or have texts made into items and printed, as JSON or as    *)
(* YAML, as main.c and the benchmarks do.  Texts are those of Texts with   *)
(* up to MaxDamage tokens put in, left out or altered; strings are typed   *)
(* byte by byte, and texts of strings chunk by chunk.                      *)
(***************************************************************************)
EXTENDS JsonText, StringBuffer

CONSTANTS
  Texts,         \* texts to begin with
  MaxDamage,     \* bound: tokens altered
  MaxLetters,    \* bound: length of a string
  MaxMem,        \* bound: allocations that succeed
  Items, Keys, NoKey, Lower, NULL, MaxOf    \* those of JsonTree

ASSUME CjsonAssumption ==
  IsFiniteSet(Items) /\ NULL \notin Items /\ NoKey \notin Keys /\ Lower \in [Keys -> Keys]

-----------------------------------------------------------------------------
(* Texts. *)

Str == INSTANCE JsonString
Yaml == INSTANCE YamlText

VARIABLES
  phase,         \* "text", "string", "chunks", "item", "yaml" or "refused"
  text, damage,  \* the text, or the string, and the bound's counter
  item,
  pushed         \* YAML tokens that were pushed

vars == <<phase, text, damage, item, pushed, bufVars>>

Init ==
  /\ \/ phase = "text" /\ text \in Texts
     \/ phase \in {"string", "chunks"} /\ text = <<>>
  /\ damage = 0 /\ item = NoItem /\ pushed = 0 /\ BufInit

\* The outside: what files and callers hold.
Type ==
  /\ damage' = damage + 1 /\ UNCHANGED <<phase, item, pushed, bufVars>>
  /\ \/ /\ phase = "text" /\ damage < MaxDamage
        /\ \E i \in 0 .. Len(text), drop \in 0 .. 1, t \in Tokens \cup {"none"} :
             /\ i + drop <= Len(text)
             /\ text' = SubSeq(text, 1, i) \o (IF t = "none" THEN <<>> ELSE <<t>>)
                          \o SubSeq(text, i + drop + 1, Len(text))
     \/ phase = "string" /\ damage < MaxLetters /\ \E c \in Str!Chars : text' = Append(text, c)
     \/ phase = "chunks" /\ damage < MaxLetters /\ \E c \in Str!Chunks : text' = text \o c

ParseText ==
  /\ phase = "text"
  /\ \E require \in BOOLEAN, mem \in {0, MaxMem} :
       LET r == Parse(text, require, mem)
       IN phase' = (IF r.ok THEN "item" ELSE "refused") /\ item' = r.item
  /\ text' = <<>> /\ damage' = 0 /\ UNCHANGED <<pushed, bufVars>>

\* cYAML_Print, one strbuf_push after another.
PrintYaml ==
  /\ phase \in {"item", "yaml"}
  /\ LET y == Yaml!YamlOf(item) IN
     /\ pushed < Len(y) /\ data = "held"
     /\ \/ Push(Yaml!Width(y[pushed + 1])) /\ pushed' = pushed + 1
        \/ PushFails(Yaml!Width(y[pushed + 1])) /\ UNCHANGED pushed
  /\ phase' = "yaml" /\ UNCHANGED <<text, damage, item>>

Next == Type \/ ParseText \/ PrintYaml

-----------------------------------------------------------------------------
(* Trees and texts. *)

VARIABLES
  use,                                           \* "calls" or "texts"
  live, type, string, next, prev, child, kids    \* the items of JsonTree

Tree == INSTANCE JsonTree

treeVars == <<live, type, string, next, prev, child, kids>>
cjsonVars == <<use, vars, treeVars>>

CjsonInit ==
  /\ Tree!Init
  /\ \/ use = "texts" /\ Init
     \/ /\ use = "calls" /\ phase = "refused" /\ text = <<>>
        /\ damage = 0 /\ item = NoItem /\ pushed = 0 /\ BufInit

Calls == use = "calls" /\ Tree!Next /\ UNCHANGED <<use, vars>>
Texting == use = "texts" /\ Next /\ UNCHANGED <<use, treeVars>>

CjsonSpec == CjsonInit /\ [][Calls \/ Texting]_cjsonVars

-----------------------------------------------------------------------------
\* Types; what is refused is answered with NULL.
TypeOK ==
  /\ phase \in {"text", "string", "chunks", "item", "yaml", "refused"}
  /\ pushed \in Nat /\ damage \in 0 .. (IF phase \in {"string", "chunks"} THEN MaxLetters ELSE MaxDamage)
  /\ data \in {"held", "freed"} /\ len \in Nat /\ cap \in Nat
  /\ phase \notin {"item", "yaml"} => item = NoItem
  /\ item.kind \in {"invalid", "null", "string", "array", "object"}

\* cJSON_Parse: a text is accepted exactly if it begins with a value nested no deeper
\* than the limit, with a terminator behind it when one is asked for, and the tree
\* is the one that is written there.
ParsesGrammar ==
  phase = "text" =>
    \A require \in BOOLEAN :
      LET r == Parse(text, require, MaxMem) IN
      /\ r.ok <=> Accepted(text, require)
      /\ r.ok => Rendered(r.item, FALSE, 0) = SelectSeq(SubSeq(text, 1, r.p.at - 1), LAMBDA t : t \notin White)

\* Whichever allocation fails and wherever the text breaks off: a refused text leaves
\* nothing allocated, and an accepted one nothing that cJSON_Delete will not reach.
NothingLeaks ==
  phase = "text" =>
    \A mem \in 0 .. MaxMem, require \in BOOLEAN :
      LET r == Parse(text, require, mem)
      IN r.p.live = IF r.ok THEN Blocks(r.item) ELSE 0

\* print: whatever room the buffer has and whichever realloc fails, no byte is written
\* past its end, strlen finds the terminator of what was just printed, and what is
\* answered is the whole text; the compact form is read back as the same tree.
PrintsInside ==
  phase = "item" =>
    \A fmt \in BOOLEAN, room \in 1 .. 6, mem \in {0, 1, 9}, noalloc \in BOOLEAN :
      LET b == PrintValue(item, PrintBuffer(room, noalloc, mem), fmt) IN
      /\ b.safe /\ b.buffers >= 0
      /\ b.ok => b.text = Rendered(item, fmt, 0)
      /\ ~noalloc /\ mem = 9 => b.ok \/ WidthOf(Rendered(item, fmt, 0)) + 8 > IntMax
      /\ b.ok /\ ~fmt => Parse(b.text, FALSE, MaxMem).item = item

\* print_string_ptr and parse_string.
StringsReturn ==
  /\ phase = "string" => Str!EscapesBack(text)
  /\ phase = "chunks" => Str!DecodesInside(text)

\* cYAML_Print: the lines are those of YAML's blocks.
YamlBlocks == phase = "item" => Yaml!PrintsBlocks(item)

\* JsonTree: whatever calls came before, no link of a live item leads to memory
\* given back, every list can be walked both ways, and an index or a name finds
\* what a walk finds there.
TreesSound == Tree!TypeOK /\ Tree!ListsSound /\ Tree!LookupsAgree

\* JsonTree: containers are sequences of items, of which each call changes the one
\* it is given.
ImplementsForest == Tree!ImplementsForest

\* The parser accepts the grammar, answers the tree that is written and
\* leaves nothing allocated.
ParsesWell == TypeOK /\ ParsesGrammar /\ NothingLeaks

\* What is printed stays in its buffer and is read back, as JSON, as
\* the bytes of a string, and as YAML.
PrintsWell == PrintsInside /\ StringsReturn /\ YamlBlocks /\ Fitting
=============================================================================
