----------------------------- MODULE StringBuffer -----------------------------
(***************************************************************************)
(* src/cjson/cYAML.c, the buffer the YAML is printed to: strbuf_push puts  *)
(* a string behind the others and makes room for it before.                *)
(***************************************************************************)
EXTENDS Integers

CONSTANTS
  FirstCap,     \* 256
  Lengths       \* lengths of the strings that are pushed

ASSUME StringBufferAssumption == FirstCap \in Nat \ {0} /\ Lengths \subseteq Nat

VARIABLES len, cap, data

bufVars == <<len, cap, data>>

\* strbuf_new
BufInit == len = 0 /\ cap = FirstCap /\ data = "held"

\* strbuf_expand: at least twice as long.
Expanded(need) == 2 * (IF need < cap THEN cap ELSE need)

\* strbuf_push of n bytes.
Push(n) ==
  /\ data = "held"
  /\ len' = len + n
  /\ cap' = IF len + n + 1 > cap THEN Expanded(n + 1) ELSE cap
  /\ UNCHANGED data

\* realloc fails: cYAML_Print frees the buffer and answers NULL.
PushFails(n) ==
  /\ data = "held" /\ len + n + 1 > cap
  /\ data' = "freed" /\ UNCHANGED <<len, cap>>

BufNext == \E n \in Lengths : Push(n) \/ PushFails(n)

BufSpec == BufInit /\ [][BufNext]_bufVars

\* What was pushed and its terminator lie inside the buffer: strbuf_push asks for
\* the length of the string alone, not for what the buffer holds as well.
Fitting == len + 1 <= cap
=============================================================================
