----------------------------- MODULE TracerProofs -----------------------------
(***************************************************************************)
(* Proofs about do_trace as Tracer specifies it, for any number of tasks,  *)
(* files and descriptors and in every world.                               *)
(***************************************************************************)
EXTENDS Tracer, FiniteSetTheorems, WellFoundedInduction, TLAPS

-----------------------------------------------------------------------------
(* Numbers and finite sets. *)

LEMMA LowestIs ==
  ASSUME NEW S \in SUBSET Nat, S # {}
  PROVE  Lowest(S) \in S /\ \A y \in S : Lowest(S) <= y
<1> DEFINE R == {ss \in Nat \X Nat : ss[1] < ss[2]}
<1>1. IsWellFoundedOn(R, Nat)
  BY NatLessThanWellFounded, Zenon DEF OpToRel
<1> HIDE DEF R
<1>2. PICK x \in S : \A y \in S : ~(<<y, x>> \in R)
  BY <1>1, WFMin, Zenon
<1>3. ASSUME NEW y \in S PROVE x <= y
  <2>1. <<y, x>> \notin R
    BY <1>2
  <2> QED
    BY <2>1 DEF R
<1> QED
  BY <1>2, <1>3 DEF Lowest

LEMMA MonFinite == IsFiniteSet(Mon) /\ Mon \subseteq Fds /\ Mon \subseteq Nat
<1>1. MAX_MON_FDS \in Nat /\ NumFds \in Nat /\ MAX_MON_FDS <= NumFds
  BY TracerAssumption, TraceesAssumption
<1>2. IsFiniteSet(0 .. MAX_MON_FDS - 1)
  BY <1>1, FS_Interval
<1> QED
  BY <1>1, <1>2 DEF Mon, Fds

\* Memory for a new string is memory that no string has.
LEMMA UnusedIs ==
  ASSUME NEW strs, IsFiniteSet(DOMAIN strs)
  PROVE  Unused(strs) \in Nat \ {0} /\ Unused(strs) \notin DOMAIN strs
<1> DEFINE n == Cardinality(DOMAIN strs)
           S == (1 .. n + 1) \ DOMAIN strs
<1>1. n \in Nat
  BY FS_CardinalityType
<1>2. Cardinality(1 .. n + 1) = n + 1
  BY <1>1, FS_Interval
<1>3. S # {}
  <2> SUFFICES ASSUME 1 .. n + 1 \subseteq DOMAIN strs PROVE FALSE
    OBVIOUS
  <2>1. Cardinality(1 .. n + 1) <= n
    BY FS_Subset
  <2> QED
    BY <1>1, <1>2, <2>1
<1>4. S \in SUBSET Nat
  BY <1>1
<1>5. Lowest(S) \in S
  BY <1>3, <1>4, LowestIs
<1> QED
  BY <1>1, <1>5 DEF Unused

-----------------------------------------------------------------------------
(* Counting the slots that refer to a string. *)

Val(ps, s) == ps[s[1]].fds[s[2]]

LEMMA RefsType ==
  ASSUME NEW ps, NEW S, IsFiniteSet(S), NEW n
  PROVE  IsFiniteSet({s \in S : Val(ps, s) = n}) /\ Refs(ps, S, n) \in Nat
<1>1. {s \in S : Val(ps, s) = n} \in SUBSET S
  OBVIOUS
<1>2. IsFiniteSet({s \in S : Val(ps, s) = n})
  BY <1>1, FS_Subset
<1> QED
  BY <1>2, FS_CardinalityType DEF Refs, Val

LEMMA RefsSum ==
  ASSUME NEW ps, NEW S, NEW T, IsFiniteSet(S), IsFiniteSet(T), S \cap T = {}, NEW n
  PROVE  Refs(ps, S \cup T, n) = Refs(ps, S, n) + Refs(ps, T, n)
<1> DEFINE A == {s \in S : Val(ps, s) = n}
           B == {s \in T : Val(ps, s) = n}
<1>1. A \in SUBSET S /\ B \in SUBSET T
  OBVIOUS
<1>2. IsFiniteSet(A) /\ IsFiniteSet(B)
  BY <1>1, FS_Subset, Zenon
<1>3. A \cap B = {}
  OBVIOUS
<1>4. Cardinality(A \cup B) = Cardinality(A) + Cardinality(B) - Cardinality(A \cap B)
  BY <1>2, FS_Union
<1>5. Cardinality(A \cap B) = 0
  BY <1>3, FS_EmptySet
<1>6. Cardinality(A) \in Nat /\ Cardinality(B) \in Nat
  BY <1>2, FS_CardinalityType
<1>7. A \cup B = {s \in S \cup T : Val(ps, s) = n}
  OBVIOUS
<1>8. /\ Refs(ps, S, n) = Cardinality(A) /\ Refs(ps, T, n) = Cardinality(B)
      /\ Refs(ps, S \cup T, n) = Cardinality(A \cup B)
  BY <1>7, Zenon DEF Refs, Val
<1> HIDE DEF A, B
<1> QED
  BY <1>4, <1>5, <1>6, <1>8

LEMMA RefsSame ==
  ASSUME NEW ps, NEW qs, NEW S, \A s \in S : Val(ps, s) = Val(qs, s), NEW n
  PROVE  Refs(ps, S, n) = Refs(qs, S, n)
<1>1. {s \in S : Val(ps, s) = n} = {s \in S : Val(qs, s) = n}
  OBVIOUS
<1> QED
  BY <1>1 DEF Refs, Val

LEMMA RefsNone ==
  ASSUME NEW ps, NEW S, NEW n, \A s \in S : Val(ps, s) # n
  PROVE  Refs(ps, S, n) = 0
<1>1. {s \in S : Val(ps, s) = n} = {}
  OBVIOUS
<1> QED
  BY <1>1, FS_EmptySet DEF Refs, Val

LEMMA RefsSome ==
  ASSUME NEW ps, NEW S, IsFiniteSet(S), NEW t \in S
  PROVE  Refs(ps, S, Val(ps, t)) > 0
<1> DEFINE A == {s \in S : Val(ps, s) = Val(ps, t)}
<1>1. A \in SUBSET S /\ A # {}
  OBVIOUS
<1>2. IsFiniteSet(A)
  BY <1>1, FS_Subset, Zenon
<1>3. Refs(ps, S, Val(ps, t)) = Cardinality(A)
  BY Zenon DEF Refs, Val
<1> HIDE DEF A
<1> QED
  BY <1>1, <1>2, <1>3, FS_EmptySet, FS_CardinalityType

-----------------------------------------------------------------------------
(* Tables and strings. *)

Nrs     == {"0", "open", "close", "write", "writev", "clone", "fork"}
Regs    == [nr : Nrs, r0 : Results, file : Files \cup {Std, None}]
Process == [syscall_num : Nrs, regs : Regs, fds : [Mon -> Nat]]

TablesType(ps) == DOMAIN ps \subseteq Pids /\ ps \in [DOMAIN ps -> Process]

StringsType(strs) ==
  /\ DOMAIN strs \subseteq Nat \ {NoArc} /\ IsFiniteSet(DOMAIN strs)
  /\ \A n \in DOMAIN strs : strs[n] \in [str : Files \cup {Std}, ref_cnt : Nat \ {0}]

\* Every slot refers to an allocated string, each of which counts its slots.
Counted(ps, strs) ==
  /\ \A s \in SlotsOf(ps) : Val(ps, s) \in DOMAIN strs \cup {NoArc}
  /\ \A n \in DOMAIN strs : Refs(ps, SlotsOf(ps), n) <= strs[n].ref_cnt

LEMMA SlotsFinite ==
  ASSUME NEW ps, DOMAIN ps \subseteq Pids
  PROVE  IsFiniteSet(DOMAIN ps) /\ IsFiniteSet(SlotsOf(ps))
<1>1. IsFiniteSet(DOMAIN ps)
  BY TraceesAssumption, FS_Subset
<1> QED
  BY <1>1, MonFinite, FS_Product DEF SlotsOf

\* From ps to qs the slots old let go of their strings, the slots new take theirs
\* and the slots same stay.
Moved(ps, qs, old, new, same, strs) ==
  /\ IsFiniteSet(old) /\ IsFiniteSet(new) /\ IsFiniteSet(same)
  /\ same \cap old = {} /\ same \cap new = {}
  /\ SlotsOf(ps) = same \cup old /\ SlotsOf(qs) = same \cup new
  /\ \A s \in same : Val(ps, s) = Val(qs, s)
  /\ \A s \in new : Val(qs, s) \in DOMAIN strs \cup {NoArc}

LEMMA RecountSound ==
  ASSUME NEW ps, NEW qs, NEW old, NEW new, NEW same, NEW strs,
         Moved(ps, qs, old, new, same, strs), StringsType(strs), Counted(ps, strs)
  PROVE  LET out == Recount(strs, ps, old, qs, new)
         IN  StringsType(out) /\ Counted(qs, out)
<1> USE DEF Moved
<1> DEFINE out == Recount(strs, ps, old, qs, new)
           Cnt(n) == Count(strs, ps, old, qs, new, n)
<1>1. ASSUME NEW n \in DOMAIN strs
      PROVE  Cnt(n) \in Nat /\ Refs(qs, SlotsOf(qs), n) <= Cnt(n)
  <2>1. /\ Refs(ps, SlotsOf(ps), n) = Refs(ps, same, n) + Refs(ps, old, n)
        /\ Refs(qs, SlotsOf(qs), n) = Refs(qs, same, n) + Refs(qs, new, n)
    <3>1. /\ Refs(ps, same \cup old, n) = Refs(ps, same, n) + Refs(ps, old, n)
          /\ Refs(qs, same \cup new, n) = Refs(qs, same, n) + Refs(qs, new, n)
      BY RefsSum
    <3> QED
      BY <3>1
  <2>2. Refs(ps, same, n) = Refs(qs, same, n)
    BY RefsSame
  <2>3. /\ Refs(ps, same, n) \in Nat /\ Refs(ps, old, n) \in Nat
        /\ Refs(qs, same, n) \in Nat /\ Refs(qs, new, n) \in Nat
    BY RefsType, Zenon
  <2>4. Refs(ps, SlotsOf(ps), n) <= strs[n].ref_cnt /\ strs[n].ref_cnt \in Nat
    BY DEF Counted, StringsType
  <2> QED
    BY <2>1, <2>2, <2>3, <2>4 DEF Count
<1>2. /\ DOMAIN out = {n \in DOMAIN strs : Cnt(n) # 0}
      /\ \A n \in DOMAIN out : out[n] = [strs[n] EXCEPT !.ref_cnt = Cnt(n)]
  BY DEF Recount
<1> HIDE DEF out, Cnt
<1>3. ASSUME NEW s \in SlotsOf(qs) PROVE Val(qs, s) \in DOMAIN out \cup {NoArc}
  <2> SUFFICES ASSUME Val(qs, s) # NoArc PROVE Val(qs, s) \in DOMAIN out
    OBVIOUS
  <2>1. Val(qs, s) \in DOMAIN strs
    BY DEF Counted
  <2>2. IsFiniteSet(SlotsOf(qs))
    <3>1. IsFiniteSet(same \cup new)
      BY FS_Union
    <3> QED
      BY <3>1
  <2>3. Refs(qs, SlotsOf(qs), Val(qs, s)) > 0
    BY <2>2, RefsSome
  <2>4. Refs(qs, SlotsOf(qs), Val(qs, s)) \in Nat
    BY <2>2, RefsType
  <2> QED
    BY <1>1, <1>2, <2>1, <2>3, <2>4
<1>4. Counted(qs, out)
  BY <1>1, <1>2, <1>3 DEF Counted, StringsType
<1>5. StringsType(out)
  <2>1. IsFiniteSet(DOMAIN out)
    BY <1>2, FS_Subset DEF StringsType
  <2> QED
    BY <1>1, <1>2, <2>1 DEF StringsType
<1> QED
  BY <1>4, <1>5 DEF out

-----------------------------------------------------------------------------
(* What the helpers of the handlers do to tables and strings. *)

LEMMA SetSlotIs ==
  ASSUME NEW ps, TablesType(ps), NEW ts, NEW fd \in Mon, NEW n, n \in Nat,
         NEW qs, qs = SetSlot(ps, ts, fd, n), NEW q, q \in DOMAIN ps
  PROVE  /\ q \in DOMAIN qs /\ qs[q] \in Process
         /\ qs[q].regs = ps[q].regs /\ qs[q].syscall_num = ps[q].syscall_num
         /\ q \in ts => qs[q].fds = [ps[q].fds EXCEPT ![fd] = n]
         /\ q \notin ts => qs[q].fds = ps[q].fds
<1>1. q \in DOMAIN qs
  BY DEF SetSlot
<1>2. /\ q \in ts => qs[q] = [ps[q] EXCEPT !.fds[fd] = n]
      /\ q \notin ts => qs[q] = ps[q]
  BY DEF SetSlot
<1>3. ps[q] \in Process /\ ps[q].fds \in [Mon -> Nat]
  BY DEF TablesType, Process
<1>4. [ps[q].fds EXCEPT ![fd] = n] \in [Mon -> Nat]
  BY <1>3
<1>5. q \in ts => qs[q] = [ps[q] EXCEPT !.fds = [ps[q].fds EXCEPT ![fd] = n]]
  BY <1>2
<1>6. CASE q \notin ts
  BY <1>1, <1>2, <1>3, <1>6
<1>7. CASE q \in ts
  BY <1>1, <1>3, <1>4, <1>5, <1>7 DEF Process
<1> QED
  BY <1>6, <1>7

\* What SetSlot returns, slot by slot.
Slotted(ps, ts, fd, n, qs) ==
  /\ DOMAIN qs = DOMAIN ps
  /\ \A q \in DOMAIN ps : ps[q].fds \in [Mon -> Nat] /\ qs[q].fds \in [Mon -> Nat]
  /\ \A q \in DOMAIN ps : \A f \in Mon :
       qs[q].fds[f] = IF q \in ts /\ f = fd THEN n ELSE ps[q].fds[f]

LEMMA SetSlotFds ==
  ASSUME NEW ps, TablesType(ps), NEW ts, NEW fd \in Mon, NEW n, n \in Nat,
         NEW qs, qs = SetSlot(ps, ts, fd, n)
  PROVE  Slotted(ps, ts, fd, n, qs)
<1>1. DOMAIN qs = DOMAIN ps
  BY DEF SetSlot
<1>2. \A q \in DOMAIN ps : ps[q].fds \in [Mon -> Nat]
  BY DEF TablesType, Process
<1>3. ASSUME NEW q \in DOMAIN ps
      PROVE  /\ qs[q].fds \in [Mon -> Nat]
             /\ \A f \in Mon : qs[q].fds[f] = IF q \in ts /\ f = fd THEN n ELSE ps[q].fds[f]
  <2>1. /\ q \in ts => qs[q] = [ps[q] EXCEPT !.fds[fd] = n]
        /\ q \notin ts => qs[q] = ps[q]
    BY DEF SetSlot
  <2>2. ps[q] \in Process /\ ps[q].fds \in [Mon -> Nat]
    BY DEF TablesType, Process
  <2>3. [ps[q].fds EXCEPT ![fd] = n] \in [Mon -> Nat]
    BY <2>2
  <2>4. q \in ts => qs[q].fds = [ps[q].fds EXCEPT ![fd] = n]
    BY <2>1, <2>2 DEF Process
  <2> QED
    BY <2>1, <2>2, <2>3, <2>4
<1> QED
  BY <1>1, <1>2, <1>3 DEF Slotted

LEMMA SetSlotTables ==
  ASSUME NEW ps, TablesType(ps), NEW ts, NEW fd \in Mon, NEW n, n \in Nat,
         NEW qs, qs = SetSlot(ps, ts, fd, n)
  PROVE  TablesType(qs) /\ DOMAIN qs = DOMAIN ps /\ SlotsOf(qs) = SlotsOf(ps)
<1>1. DOMAIN qs = DOMAIN ps /\ qs = [q \in DOMAIN qs |-> qs[q]]
  BY DEF SetSlot
<1>2. \A q \in DOMAIN ps : qs[q] \in Process
  BY SetSlotIs
<1>3. TablesType(qs)
  BY <1>1, <1>2 DEF TablesType
<1> QED
  BY <1>1, <1>3 DEF SlotsOf

LEMMA SetSlotValues ==
  ASSUME NEW ps, TablesType(ps), NEW ts, NEW fd \in Mon, NEW n, n \in Nat,
         NEW qs, qs = SetSlot(ps, ts, fd, n)
  PROVE  /\ \A s \in SlotsOf(ps) : s \in ts \X {fd} => Val(qs, s) = n
         /\ \A s \in SlotsOf(ps) : s \notin ts \X {fd} => Val(qs, s) = Val(ps, s)
<1> SUFFICES ASSUME NEW s \in SlotsOf(ps)
             PROVE  (s \in ts \X {fd} => Val(qs, s) = n) /\ (s \notin ts \X {fd} => Val(qs, s) = Val(ps, s))
  OBVIOUS
<1>1. PICK q \in DOMAIN ps, f \in Mon : s = <<q, f>>
  BY DEF SlotsOf
<1>2. /\ q \in ts => qs[q].fds = [ps[q].fds EXCEPT ![fd] = n]
      /\ q \notin ts => qs[q].fds = ps[q].fds
  BY SetSlotIs
<1>3. ps[q].fds \in [Mon -> Nat]
  BY DEF TablesType, Process
<1>4. Val(qs, s) = qs[q].fds[f] /\ Val(ps, s) = ps[q].fds[f]
  BY <1>1 DEF Val
<1>5. s \in ts \X {fd} <=> q \in ts /\ f = fd
  BY <1>1
<1> QED
  BY <1>2, <1>3, <1>4, <1>5

LEMMA SlotValue ==
  ASSUME NEW ps, TablesType(ps), NEW p \in DOMAIN ps, NEW fd \in Mon
  PROVE  /\ <<p, fd>> \in SlotsOf(ps) /\ Val(ps, <<p, fd>>) = ps[p].fds[fd]
         /\ ps[p].fds \in [Mon -> Nat] /\ ps[p].fds[fd] \in Nat
<1>1. ps[p] \in Process
  BY DEF TablesType
<1> QED
  BY <1>1 DEF SlotsOf, Val, Process

LEMMA CloseSound ==
  ASSUME NEW ps, TablesType(ps), NEW strs, StringsType(strs), Counted(ps, strs),
         NEW fd \in Mon, NEW qs, qs = SetSlot(ps, DOMAIN ps, fd, NoArc),
         NEW out, out = Recount(strs, ps, (DOMAIN ps) \X {fd}, ps, {})
  PROVE  TablesType(qs) /\ StringsType(out) /\ Counted(qs, out)
<1> DEFINE old == (DOMAIN ps) \X {fd}
           same == SlotsOf(ps) \ old
<1>1. NoArc \in Nat
  BY DEF NoArc
<1>2. TablesType(qs) /\ SlotsOf(qs) = SlotsOf(ps)
  BY <1>1, SetSlotTables
<1>3. /\ \A s \in SlotsOf(ps) : s \in old => Val(qs, s) = NoArc
      /\ \A s \in SlotsOf(ps) : s \notin old => Val(qs, s) = Val(ps, s)
  BY <1>1, SetSlotValues
<1>4. old \subseteq SlotsOf(ps)
  BY DEF SlotsOf
<1>5. IsFiniteSet(SlotsOf(ps))
  BY SlotsFinite DEF TablesType
<1>6. out = Recount(strs, ps, old, ps, {})
  OBVIOUS
<1> HIDE DEF old
<1>7. IsFiniteSet(old) /\ IsFiniteSet(same)
  BY <1>4, <1>5, FS_Subset
<1>8. /\ same \cap old = {} /\ SlotsOf(ps) = same \cup old /\ SlotsOf(qs) = same \cup old
      /\ \A s \in same : Val(ps, s) = Val(qs, s)
      /\ \A s \in old : Val(qs, s) = NoArc
  BY <1>3, <1>2, <1>4
<1>9. ASSUME NEW n \in DOMAIN strs PROVE Refs(ps, {}, n) = Refs(qs, old, n)
  <2>1. Refs(ps, {}, n) = 0
    BY RefsNone
  <2>2. \A s \in old : Val(qs, s) # n
    BY <1>8 DEF StringsType
  <2> QED
    BY <2>1, <2>2, RefsNone
<1>10. out = Recount(strs, ps, old, qs, old)
  BY <1>6, <1>9, Zenon DEF Recount, Count
<1>11. \A s \in old : Val(qs, s) \in DOMAIN strs \cup {NoArc}
  BY <1>8
<1> HIDE DEF same
<1>12. /\ StringsType(Recount(strs, ps, old, qs, old))
       /\ Counted(qs, Recount(strs, ps, old, qs, old))
  <2>1. Moved(ps, qs, old, old, same, strs)
    BY <1>7, <1>8, <1>11 DEF Moved
  <2> QED
    BY <2>1, RecountSound
<1> QED
  BY <1>2, <1>10, <1>12, Zenon

\* A new string in one slot; the one it held keeps its count.
LEMMA NewArcSound ==
  ASSUME NEW ps, TablesType(ps), NEW strs, StringsType(strs), Counted(ps, strs),
         NEW p \in DOMAIN ps, NEW fd \in Mon, NEW filename \in Files \cup {Std},
         NEW n, n = Unused(strs), NEW qs, qs = SetSlot(ps, {p}, fd, n)
  PROVE  TablesType(qs) /\ StringsType(NewArc(strs, filename)) /\ Counted(qs, NewArc(strs, filename))
<1> DEFINE more == NewArc(strs, filename)
           old == {p} \X {fd}
<1>1. n \in Nat \ {0} /\ n \notin DOMAIN strs
  BY UnusedIs DEF StringsType
<1>2. TablesType(qs) /\ SlotsOf(qs) = SlotsOf(ps)
  BY <1>1, SetSlotTables
<1>3. /\ \A s \in SlotsOf(ps) : s \in old => Val(qs, s) = n
      /\ \A s \in SlotsOf(ps) : s \notin old => Val(qs, s) = Val(ps, s)
  BY <1>1, SetSlotValues
<1>4. /\ DOMAIN more = DOMAIN strs \cup {n}
      /\ more[n] = [str |-> filename, ref_cnt |-> 1]
      /\ \A m \in DOMAIN strs : more[m] = strs[m]
  BY <1>1 DEF NewArc
<1> HIDE DEF more, old
<1>5. StringsType(more)
  <2>1. IsFiniteSet(DOMAIN more)
    BY <1>4, FS_AddElement DEF StringsType
  <2> QED
    BY <1>1, <1>4, <2>1 DEF StringsType, NoArc
<1>6. IsFiniteSet(SlotsOf(ps))
  BY SlotsFinite DEF TablesType
<1>7. ASSUME NEW m \in DOMAIN strs PROVE Refs(qs, SlotsOf(qs), m) <= more[m].ref_cnt
  <2> DEFINE A == {s \in SlotsOf(ps) : Val(qs, s) = m}
             B == {s \in SlotsOf(ps) : Val(ps, s) = m}
  <2>1. A \in SUBSET B
    BY <1>1, <1>2, <1>3
  <2>2. B \in SUBSET SlotsOf(ps)
    OBVIOUS
  <2>3. Refs(qs, SlotsOf(qs), m) = Cardinality(A) /\ Refs(ps, SlotsOf(ps), m) = Cardinality(B)
    BY <1>2, Zenon DEF Refs, Val
  <2> HIDE DEF A, B
  <2>4. IsFiniteSet(B)
    BY <1>6, <2>2, FS_Subset
  <2>5. Cardinality(A) <= Cardinality(B)
    BY <2>1, <2>4, FS_Subset
  <2>6. IsFiniteSet(A)
    BY <2>1, <2>4, FS_Subset
  <2>7. Cardinality(A) \in Nat /\ Cardinality(B) \in Nat
    BY <2>4, <2>6, FS_CardinalityType
  <2>8. Cardinality(B) <= strs[m].ref_cnt /\ strs[m].ref_cnt \in Nat
    BY <2>3 DEF Counted, StringsType
  <2> QED
    BY <1>4, <2>3, <2>5, <2>7, <2>8
<1>8. Refs(qs, SlotsOf(qs), n) <= more[n].ref_cnt
  <2> DEFINE A == {s \in SlotsOf(ps) : Val(qs, s) = n}
  <2>1. ASSUME NEW s \in A PROVE s = <<p, fd>>
    <3>1. s \in SlotsOf(ps) /\ Val(ps, s) # n
      <4>1. Val(ps, s) = n => n \in DOMAIN strs \cup {NoArc}
        BY DEF Counted
      <4> QED
        BY <1>1, <4>1 DEF NoArc
    <3> QED
      BY <1>3, <3>1 DEF old
  <2>2. A \in SUBSET {<<p, fd>>}
    BY <2>1
  <2>3. Refs(qs, SlotsOf(qs), n) = Cardinality(A)
    BY <1>2, Zenon DEF Refs, Val
  <2> HIDE DEF A
  <2>4. IsFiniteSet({<<p, fd>>}) /\ Cardinality({<<p, fd>>}) = 1
    BY FS_Singleton
  <2>5. Cardinality(A) <= 1
    BY <2>2, <2>4, FS_Subset
  <2> QED
    BY <1>4, <2>3, <2>5
<1>9. \A s \in SlotsOf(qs) : Val(qs, s) \in DOMAIN more \cup {NoArc}
  BY <1>2, <1>4, <1>3 DEF Counted
<1>10. Counted(qs, more)
  BY <1>4, <1>7, <1>8, <1>9 DEF Counted
<1> QED
  BY <1>2, <1>5, <1>10 DEF more

\* A task that has died lets go of all its strings.
LEMMA FreeSound ==
  ASSUME NEW ps, TablesType(ps), NEW strs, StringsType(strs), Counted(ps, strs),
         NEW p \in DOMAIN ps, NEW qs, qs = [q \in DOMAIN ps \ {p} |-> ps[q]],
         NEW out, out = FreeFds(strs, ps, p)
  PROVE  TablesType(qs) /\ StringsType(out) /\ Counted(qs, out)
<1> DEFINE old == {p} \X Mon
           same == (DOMAIN ps \ {p}) \X Mon
<1>1. TablesType(qs)
  BY DEF TablesType
<1>2. /\ same \cap old = {} /\ SlotsOf(ps) = same \cup old /\ SlotsOf(qs) = same \cup {}
      /\ \A s \in same : Val(ps, s) = Val(qs, s)
  BY DEF SlotsOf, Val
<1>3. IsFiniteSet(SlotsOf(ps))
  BY SlotsFinite DEF TablesType
<1> HIDE DEF same, old
<1>4. IsFiniteSet(old) /\ IsFiniteSet(same)
  BY <1>2, <1>3, FS_Subset
<1>5. IsFiniteSet({}) /\ same \cap {} = {}
  BY FS_EmptySet
<1>6. out = Recount(strs, ps, old, ps, {})
  BY DEF FreeFds, old
<1>7. \A n \in DOMAIN strs : Refs(ps, {}, n) = Refs(qs, {}, n)
  BY RefsSame
<1>8. out = Recount(strs, ps, old, qs, {})
  BY <1>6, <1>7, Zenon DEF Recount, Count
<1>9. \A s \in {} : Val(qs, s) \in DOMAIN strs \cup {NoArc}
  OBVIOUS
<1>10. /\ StringsType(Recount(strs, ps, old, qs, {}))
       /\ Counted(qs, Recount(strs, ps, old, qs, {}))
  <2>1. Moved(ps, qs, old, {}, same, strs)
    BY <1>2, <1>4, <1>5, <1>9 DEF Moved
  <2> QED
    BY <2>1, RecountSound
<1> QED
  BY <1>1, <1>8, <1>10, Zenon

\* A new task takes what a tracked one holds.
LEMMA CloneSound ==
  ASSUME NEW ps, TablesType(ps), NEW strs, StringsType(strs), Counted(ps, strs),
         NEW parent \in DOMAIN ps, NEW q \in Pids \ DOMAIN ps,
         NEW qs, qs = [r \in DOMAIN ps \cup {q} |->
                         IF r = q THEN [syscall_num |-> "0", regs |-> NoRegs, fds |-> ps[parent].fds]
                         ELSE ps[r]],
         NEW out, out = CloneFds(strs, qs, q)
  PROVE  TablesType(qs) /\ StringsType(out) /\ Counted(qs, out)
<1> DEFINE new == {q} \X Mon
           same == SlotsOf(ps)
<1>1. /\ DOMAIN qs = DOMAIN ps \cup {q}
      /\ qs[q] = [syscall_num |-> "0", regs |-> NoRegs, fds |-> ps[parent].fds]
      /\ \A r \in DOMAIN ps : qs[r] = ps[r]
  OBVIOUS
<1>2. TablesType(qs)
  <2>1. ps[parent].fds \in [Mon -> Nat]
    BY DEF TablesType, Process
  <2>2. "0" \in Nrs /\ NoRegs \in Regs
    BY DEF Nrs, Regs, NoRegs, Results, NoFd, None
  <2>3. qs[q] \in Process
    BY <1>1, <2>1, <2>2 DEF Process
  <2> QED
    BY <1>1, <2>3 DEF TablesType
<1>3. /\ same \cap new = {} /\ SlotsOf(qs) = same \cup new /\ SlotsOf(ps) = same \cup {}
      /\ \A s \in same : Val(ps, s) = Val(qs, s)
  BY <1>1 DEF SlotsOf, Val
<1>4. ASSUME NEW s \in new PROVE Val(qs, s) \in DOMAIN strs \cup {NoArc}
  <2>1. PICK f \in Mon : s = <<q, f>>
    OBVIOUS
  <2>2. Val(qs, s) = Val(ps, <<parent, f>>)
    BY <1>1, <2>1 DEF Val
  <2> QED
    BY <2>2 DEF Counted, SlotsOf
<1>5. IsFiniteSet(SlotsOf(qs)) /\ IsFiniteSet({}) /\ same \cap {} = {}
  BY <1>2, SlotsFinite, FS_EmptySet DEF TablesType
<1>6. out = Recount(strs, qs, {}, qs, new)
  BY DEF CloneFds
<1> HIDE DEF same, new
<1>7. IsFiniteSet(new) /\ IsFiniteSet(same)
  BY <1>3, <1>5, FS_Subset
<1>8. \A n \in DOMAIN strs : Refs(ps, {}, n) = Refs(qs, {}, n)
  BY RefsSame
<1>9. out = Recount(strs, ps, {}, qs, new)
  BY <1>6, <1>8, Zenon DEF Recount, Count
<1>10. /\ StringsType(Recount(strs, ps, {}, qs, new))
       /\ Counted(qs, Recount(strs, ps, {}, qs, new))
  <2>1. Moved(ps, qs, {}, new, same, strs)
    BY <1>3, <1>4, <1>5, <1>7 DEF Moved
  <2> QED
    BY <2>1, RecountSound
<1> QED
  BY <1>2, <1>9, <1>10, Zenon

-----------------------------------------------------------------------------
(* The queue of reports. *)

LEMMA KeptIs ==
  ASSUME reports \in [Pids -> Nat], NEW S \in SUBSET Pids
  PROVE  /\ Kept(S) \in [Pids -> Nat]
         /\ \A p \in Pids \ S : Kept(S)[p] = 0
         /\ \A p \in S : Kept(S)[p] = 0 <=> reports[p] = 0
         /\ \A p \in S : Kept(S)[p] <= Cardinality({q \in S : reports[q] # 0})
         /\ \A p, q \in S : reports[p] < reports[q] => Kept(S)[p] < Kept(S)[q]
<1> DEFINE A(p) == {q \in S : reports[q] # 0 /\ reports[q] <= reports[p]}
           All == {q \in S : reports[q] # 0}
<1>1. IsFiniteSet(S)
  BY TraceesAssumption, FS_Subset
<1>2. All \in SUBSET S
  OBVIOUS
<1>3. IsFiniteSet(All)
  BY <1>1, <1>2, FS_Subset, Zenon
<1>4. \A p : A(p) \in SUBSET All
  OBVIOUS
<1>5. \A p \in S : A(p) = {} <=> reports[p] = 0
  <2>1. ASSUME NEW p \in S, reports[p] = 0 PROVE A(p) = {}
    <3>1. \A q \in S : reports[q] # 0 => ~(reports[q] <= reports[p])
      BY <2>1
    <3> QED
      BY <3>1
  <2>2. ASSUME NEW p \in S, reports[p] # 0 PROVE A(p) # {}
    <3>1. reports[p] <= reports[p]
      OBVIOUS
    <3>2. p \in A(p)
      BY <2>2, <3>1
    <3> QED
      BY <3>2
  <2> QED
    BY <2>1, <2>2
<1>6. ASSUME NEW p \in S, NEW q \in S, reports[p] < reports[q]
      PROVE  A(p) \in SUBSET A(q) /\ A(p) # A(q)
  <2>1. \A r \in S : reports[r] <= reports[p] => reports[r] <= reports[q]
    BY <1>6
  <2>2. A(p) \in SUBSET A(q)
    BY <2>1
  <2>3. reports[q] # 0 /\ reports[q] <= reports[q] /\ ~(reports[q] <= reports[p])
    BY <1>6
  <2>4. q \in A(q) /\ q \notin A(p)
    BY <2>3
  <2> QED
    BY <2>2, <2>4
<1>7. \A p \in Pids : Kept(S)[p] = IF p \notin S THEN 0 ELSE Cardinality(A(p))
  BY Zenon DEF Kept
<1>8. Kept(S) = [p \in Pids |-> Kept(S)[p]]
  BY DEF Kept
<1> HIDE DEF A, All
<1>9. \A p : IsFiniteSet(A(p)) /\ Cardinality(A(p)) \in Nat /\ Cardinality(A(p)) <= Cardinality(All)
  BY <1>3, <1>4, FS_Subset, FS_CardinalityType
<1>10. \A p \in S : Cardinality(A(p)) = 0 <=> reports[p] = 0
  BY <1>5, <1>9, FS_EmptySet
<1>11. \A p, q \in S : reports[p] < reports[q] => Cardinality(A(p)) < Cardinality(A(q))
  <2> SUFFICES ASSUME NEW p \in S, NEW q \in S, reports[p] < reports[q]
               PROVE  Cardinality(A(p)) < Cardinality(A(q))
    OBVIOUS
  <2>1. /\ Cardinality(A(p)) <= Cardinality(A(q))
        /\ Cardinality(A(p)) = Cardinality(A(q)) => A(p) = A(q)
    BY <1>6, <1>9, FS_Subset
  <2> QED
    BY <1>6, <1>9, <2>1
<1>12. Kept(S) \in [Pids -> Nat]
  BY <1>7, <1>8, <1>9
<1> QED
  BY <1>7, <1>9, <1>10, <1>11, <1>12 DEF All

LEMMA ReportIs ==
  ASSUME reports \in [Pids -> Nat], NEW S \in SUBSET Pids
  PROVE  /\ Report(S) \in [Pids -> Nat]
         /\ \A p \in S : Report(S)[p] > 0
         /\ \A p \in Pids \ S : Report(S)[p] = 0 <=> reports[p] = 0
         /\ \A p, q \in Pids \ S : reports[p] < reports[q] => Report(S)[p] < Report(S)[q]
         /\ \A p \in Pids \ S, q \in S : Report(S)[p] < Report(S)[q]
         /\ \A p, q \in S : p < q => Report(S)[p] < Report(S)[q]
<1> DEFINE T == Pids \ S
           B(p) == {q \in S : q <= p}
           n == Cardinality(Reported \ S)
<1>1. /\ IsFiniteSet(Reported \ S) /\ IsFiniteSet(S)
      /\ Reported \ S = {q \in T : reports[q] # 0}
  <2>1. Reported \ S \in SUBSET Pids
    BY DEF Reported
  <2> QED
    BY <2>1, TraceesAssumption, FS_Subset DEF Reported
<1>2. n \in Nat
  BY <1>1, FS_CardinalityType
<1>3. \A p : B(p) \in SUBSET S
  OBVIOUS
<1>4. \A p \in S : p \in Nat
  BY TraceesAssumption
<1>5. \A p \in S : p \in B(p)
  BY <1>4
<1>6. ASSUME NEW p \in S, NEW q \in S, p < q
      PROVE  B(p) \in SUBSET B(q) /\ B(p) # B(q)
  <2>1. \A r \in S : r <= p => r <= q
    BY <1>4, <1>6
  <2>2. B(p) \in SUBSET B(q)
    BY <2>1
  <2>3. q \in B(q) /\ q \notin B(p)
    BY <1>4, <1>6
  <2> QED
    BY <2>2, <2>3
<1>7. \A p \in Pids : Report(S)[p] = IF p \in S THEN n + Cardinality(B(p)) ELSE Kept(T)[p]
  BY Zenon DEF Report
<1>8. Report(S) = [p \in Pids |-> Report(S)[p]]
  BY DEF Report
<1>9. /\ Kept(T) \in [Pids -> Nat]
      /\ \A p \in T : Kept(T)[p] = 0 <=> reports[p] = 0
      /\ \A p \in T : Kept(T)[p] <= Cardinality({q \in T : reports[q] # 0})
      /\ \A p, q \in T : reports[p] < reports[q] => Kept(T)[p] < Kept(T)[q]
  <2>1. T \in SUBSET Pids
    OBVIOUS
  <2> HIDE DEF T
  <2> QED
    BY <2>1, KeptIs, Zenon
<1>10. \A p \in T : Kept(T)[p] <= n
  BY <1>1, <1>9
<1> HIDE DEF B, n
<1>11. \A p : IsFiniteSet(B(p)) /\ Cardinality(B(p)) \in Nat
  BY <1>1, <1>3, FS_Subset, FS_CardinalityType
<1>12. \A p \in S : Cardinality(B(p)) > 0
  BY <1>5, <1>11, FS_EmptySet
<1>13. \A p, q \in S : p < q => Cardinality(B(p)) < Cardinality(B(q))
  <2> SUFFICES ASSUME NEW p \in S, NEW q \in S, p < q
               PROVE  Cardinality(B(p)) < Cardinality(B(q))
    OBVIOUS
  <2>1. /\ Cardinality(B(p)) <= Cardinality(B(q))
        /\ Cardinality(B(p)) = Cardinality(B(q)) => B(p) = B(q)
    BY <1>6, <1>11, FS_Subset
  <2> QED
    BY <1>6, <1>11, <2>1
<1>14. \A p \in Pids : Kept(T)[p] \in Nat
  BY <1>9
<1>15. Report(S) \in [Pids -> Nat]
  <2>1. \A p \in Pids : Report(S)[p] \in Nat
    BY <1>2, <1>7, <1>11, <1>14
  <2> QED
    BY <1>8, <2>1
<1>16. \A p \in S : Report(S)[p] = n + Cardinality(B(p)) /\ Report(S)[p] > n
  BY <1>2, <1>7, <1>11, <1>12
<1>17. \A p \in T : Report(S)[p] = Kept(T)[p] /\ Report(S)[p] <= n
  BY <1>7, <1>10
<1>18. \A p \in S : Report(S)[p] > 0
  BY <1>2, <1>15, <1>16
<1>19. \A p \in T : Report(S)[p] = 0 <=> reports[p] = 0
  BY <1>9, <1>17
<1>20. \A p, q \in T : reports[p] < reports[q] => Report(S)[p] < Report(S)[q]
  BY <1>9, <1>17
<1>21. \A p \in T, q \in S : Report(S)[p] < Report(S)[q]
  BY <1>2, <1>15, <1>16, <1>17
<1>22. \A p, q \in S : p < q => Report(S)[p] < Report(S)[q]
  BY <1>2, <1>11, <1>13, <1>16
<1> QED
  BY <1>15, <1>18, <1>19, <1>20, <1>21, <1>22

-----------------------------------------------------------------------------
(* What is true of the tasks and of the tracer's place in its loop. *)

Positions == Stopped \cup {None, "user", "call", "return", "dead", "gone"}
Call      == [nr : Nrs, fd : Fds \cup {NoFd}, file : Files \cup {Std, None}, child : Pids \cup {NoPid}]
Task      == [pos : Positions, tgid : Pids \cup {NoPid}, ppid : Int, call : Call, ret : Results]

WorldType ==
  /\ world \in Worlds
  /\ task \in [Pids -> Task]
  /\ fdtab \in [Pids -> [Fds -> Files \cup {Std, None}]]
  /\ reports \in [Pids -> Nat]
  /\ ncalls \in 0 .. MaxCalls
  /\ \A p \in Pids : task[p].pos # None => task[p].tgid \in Pids
  /\ \A p \in Pids : task[p].call.nr \in {"close"} \cup Writing => task[p].call.fd \in Fds

LoopType ==
  /\ \/ cur = NoStop
     \/ cur.pid \in Pids /\ cur.stop \in {"syscall", "event", "init", "dead"}
  /\ loop \in {"on", "over"}

\* A task whose report is to come is stopped or dead.
Queued ==
  \A p \in Pids : reports[p] # 0 =>
    /\ task[p].pos \in Stopped \cup {"dead"}
    /\ cur.pid = p => task[p].pos = "dead"

\* The task that is handled is where it was reported to be, or has been killed.
HandledAt ==
  /\ cur.stop = "syscall" => task[cur.pid].pos \in {"enter", "exit", "dead"}
  /\ cur.stop = "event" => task[cur.pid].pos \in {"event", "dead"}
  /\ cur.stop = "init" => task[cur.pid].pos \in {"init", "dead"}
  /\ cur.stop = "dead" => task[cur.pid].pos = "gone"

Loop == WorldType /\ LoopType /\ (Looping => Queued /\ HandledAt)

LEMMA ConstantsIn ==
  /\ None \in Positions /\ "0" \in Nrs /\ NoPid \notin Pids /\ None \notin Stopped
  /\ NoFd \in Results /\ Fds \subseteq Results /\ 1 \in Results /\ 0 \in Fds
  /\ NoCall \in Call /\ Unborn \in Task /\ NoFd \notin Fds
  /\ Pids \subseteq Nat
<1>1. 0 \in Fds /\ NoFd \notin Fds /\ NoFd = -1
  BY TraceesAssumption DEF Fds, NoFd
<1>2. NoCall \in Call
  BY DEF NoCall, Call, Nrs
<1>3. NoPid \notin Pids /\ Pids \subseteq Nat
  BY TraceesAssumption DEF NoPid
<1>4. Unborn \in Task
  BY <1>2, <1>1 DEF Unborn, Task, Positions, Results, NoPid
<1> QED
  BY <1>1, <1>2, <1>3, <1>4 DEF Positions, Nrs, Results, Stopped, None

\* A task that runs is not the one that is handled.
LEMMA RunningNotHandled ==
  ASSUME Loop, Looping, NEW p \in Pids,
         task[p].pos \in {None, "user", "call", "return"}
  PROVE  cur.pid # p
<1>1. CASE cur = NoStop
  BY <1>1, ConstantsIn DEF NoStop
<1>2. CASE cur.stop \in {"syscall", "event", "init", "dead"}
  BY <1>2 DEF Loop, HandledAt, None
<1> QED
  BY <1>1, <1>2 DEF Loop, LoopType

\* Tasks stop or die and are reported.
LEMMA ReportStep ==
  ASSUME Loop, Looping, NEW S \in SUBSET Pids, task' \in [Pids -> Task],
         \A p \in S : task'[p].pos \in Stopped \cup {"dead"},
         \A p \in S : cur.pid = p => task'[p].pos = "dead" /\ task[p].pos # "gone",
         \A p \in Pids \ S : task'[p].pos = task[p].pos,
         \A p \in Pids : task'[p].pos # None => task'[p].tgid \in Pids,
         \A p \in Pids : task'[p].call.nr \in {"close"} \cup Writing => task'[p].call.fd \in Fds,
         reports' = Report(S),
         fdtab' \in [Pids -> [Fds -> Files \cup {Std, None}]], ncalls' \in 0 .. MaxCalls,
         UNCHANGED <<world, cur, loop>>
  PROVE  Loop'
<1>1. reports \in [Pids -> Nat]
  BY DEF Loop, WorldType
<1>2. /\ reports' \in [Pids -> Nat]
      /\ \A q \in Pids \ S : reports'[q] = 0 <=> reports[q] = 0
  BY <1>1, ReportIs
<1>3. WorldType'
  BY <1>2 DEF Loop, WorldType
<1>4. LoopType'
  BY DEF Loop, LoopType
<1>5. Queued'
  BY <1>2 DEF Loop, Queued
<1>6. HandledAt'
  <2>1. CASE cur = NoStop
    BY <2>1 DEF HandledAt, NoStop, None
  <2>2. CASE cur.pid \in S
    BY <2>2 DEF Loop, HandledAt
  <2>3. CASE cur.pid \in Pids \ S
    BY <2>3 DEF Loop, HandledAt
  <2> QED
    BY <2>1, <2>2, <2>3 DEF Loop, LoopType
<1> QED
  BY <1>3, <1>4, <1>5, <1>6 DEF Loop, Looping

\* A running task stops and is reported.
Stopping(p) ==
  /\ task' \in [Pids -> Task] /\ reports' = Report({p})
  /\ \A q \in Pids \ {p} : task'[q] = task[q]
  /\ task'[p].tgid = task[p].tgid /\ task'[p].ppid = task[p].ppid
  /\ \/ task[p].pos = "user" /\ task'[p].pos = "enter" /\ task'[p].call \in Calls(p)
     \/ /\ task[p].pos \in {"call", "return"} /\ task'[p].pos = "exit"
        /\ task'[p].call.nr = task[p].call.nr /\ task'[p].call.fd = task[p].call.fd

FilesType == fdtab \in [Pids -> [Fds -> Files \cup {Std, None}]] /\ ncalls \in 0 .. MaxCalls

LEMMA StoppingIs ==
  ASSUME Loop, NEW p \in Pids, NEW t \in Task, task' = [task EXCEPT ![p] = t], reports' = Report({p}),
         t.tgid = task[p].tgid, t.ppid = task[p].ppid,
         \/ task[p].pos = "user" /\ t.pos = "enter" /\ t.call \in Calls(p)
         \/ /\ task[p].pos \in {"call", "return"} /\ t.pos = "exit"
            /\ t.call.nr = task[p].call.nr /\ t.call.fd = task[p].call.fd
  PROVE  Stopping(p)
<1>1. task \in [Pids -> Task]
  BY DEF Loop, WorldType
<1>2. task' \in [Pids -> Task] /\ task'[p] = t /\ \A q \in Pids \ {p} : task'[q] = task[q]
  BY <1>1
<1> QED
  BY <1>2 DEF Stopping

LEMMA CallsType ==
  ASSUME NEW p, NEW call \in Calls(p)
  PROVE  call \in Call /\ call.nr # "0" /\ (call.nr \in {"close"} \cup Writing => call.fd \in Fds)
BY DEF Calls, Call, Nrs, Writing

LEMMA StopStep ==
  ASSUME Loop, Looping, NEW p \in Pids, Stopping(p), FilesType', UNCHANGED <<world, cur, loop>>
  PROVE  Loop'
<1>1. /\ \A q \in Pids : task[q].pos # None => task[q].tgid \in Pids
      /\ \A q \in Pids : task[q].call.nr \in {"close"} \cup Writing => task[q].call.fd \in Fds
  BY DEF Loop, WorldType
<1>2. /\ task' \in [Pids -> Task] /\ task'[p].pos \in Stopped /\ \A q \in Pids \ {p} : task'[q] = task[q]
      /\ task'[p].tgid = task[p].tgid
      /\ task[p].pos \in {"user", "call", "return"}
  BY DEF Stopping, Stopped
<1>3. cur.pid # p
  BY <1>2, RunningNotHandled
<1>4. \A q \in Pids : task'[q].pos # None => task'[q].tgid \in Pids
  BY <1>1, <1>2 DEF None
<1>5. task'[p].call.nr \in {"close"} \cup Writing => task'[p].call.fd \in Fds
  BY <1>1, CallsType DEF Stopping
<1>6. \A q \in Pids : task'[q].call.nr \in {"close"} \cup Writing => task'[q].call.fd \in Fds
  BY <1>1, <1>2, <1>5
<1> DEFINE S == {p}
<1>7. /\ S \in SUBSET Pids /\ reports' = Report(S)
      /\ \A q \in S : task'[q].pos \in Stopped \cup {"dead"}
      /\ \A q \in S : cur.pid = q => task'[q].pos = "dead" /\ task[q].pos # "gone"
      /\ \A q \in Pids \ S : task'[q].pos = task[q].pos
  BY <1>2, <1>3 DEF Stopping
<1> HIDE DEF S
<1> QED
  BY <1>2, <1>4, <1>6, <1>7, ReportStep DEF FilesType

LEMMA FreeFdType ==
  ASSUME NEW tab
  PROVE  /\ FreeFd(tab) \in Fds \cup {NoFd}
         /\ FreeFd(tab) # NoFd => tab[FreeFd(tab)] = None
<1> DEFINE free == {fd \in Fds : tab[fd] = None}
<1>1. Fds \subseteq Nat
  BY DEF Fds
<1>2. CASE free = {}
  BY <1>2 DEF FreeFd
<1>3. CASE free # {}
  <2>1. free \in SUBSET Nat
    BY <1>1
  <2>2. Lowest(free) \in free
    BY <1>3, <2>1, LowestIs
  <2>3. FreeFd(tab) = Lowest(free)
    BY <1>3 DEF FreeFd
  <2> QED
    BY <2>2, <2>3
<1> QED
  BY <1>2, <1>3

\* What a task takes from its old state when it stops.
LEMMA TaskFields ==
  ASSUME Loop, NEW p \in Pids
  PROVE  /\ task \in [Pids -> Task] /\ task[p] \in Task
         /\ task[p].call \in Call /\ task[p].ret \in Results
         /\ task[p].tgid \in Pids \cup {NoPid} /\ task[p].ppid \in Int
         /\ task[p].pos \in Positions
         /\ task[p].pos # None => task[p].tgid \in Pids
         /\ task[p].call.nr \in {"close"} \cup Writing => task[p].call.fd \in Fds
         /\ fdtab \in [Pids -> [Fds -> Files \cup {Std, None}]] /\ ncalls \in 0 .. MaxCalls
  BY DEF Loop, WorldType, Task

LEMMA EnterCallStops ==
  ASSUME Loop, NEW p \in Pids, EnterCall(p)
  PROVE  Stopping(p) /\ FilesType'
<1>1. PICK call \in Calls(p) :
        task' = [task EXCEPT ![p].pos = "enter", ![p].call = call, ![p].ret = NoFd]
  BY DEF EnterCall
<1>2. call \in Call /\ (call.nr \in {"close"} \cup Writing => call.fd \in Fds)
  BY DEF Calls, Call, Nrs, Writing
<1> DEFINE t == [task[p] EXCEPT !.pos = "enter", !.call = call, !.ret = NoFd]
<1>3. t \in Task /\ t.pos = "enter" /\ t.tgid = task[p].tgid /\ t.ppid = task[p].ppid /\ t.call = call
  BY <1>2, TaskFields, ConstantsIn DEF Task, Positions, Stopped
<1>4. task' = [task EXCEPT ![p] = t]
  BY <1>1, TaskFields DEF Task
<1> HIDE DEF t
<1>5. ncalls' \in 0 .. MaxCalls
  BY TaskFields, TraceesAssumption DEF EnterCall
<1>6. /\ task[p].pos = "user" /\ reports' = Report({p})
      /\ fdtab' \in [Pids -> [Fds -> Files \cup {Std, None}]]
  BY TaskFields DEF EnterCall
<1> QED
  BY <1>2, <1>3, <1>4, <1>5, <1>6, StoppingIs DEF FilesType

LEMMA StoppedTask ==
  ASSUME Loop, NEW p \in Pids, NEW ret \in Results,
         NEW t, t = [task[p] EXCEPT !.pos = "exit", !.ret = ret]
  PROVE  t \in Task /\ t.pos = "exit" /\ t.tgid = task[p].tgid /\ t.ppid = task[p].ppid /\ t.call = task[p].call
<1>1. task[p] \in Task
  BY TaskFields
<1> QED
  BY <1>1 DEF Task, Positions, Stopped

LEMMA DoOpenStops ==
  ASSUME Loop, NEW p \in Pids, DoOpen(p)
  PROVE  Stopping(p) /\ FilesType'
<1> DEFINE g == task[p].tgid
           fd == FreeFd(fdtab[g])
           t == [task[p] EXCEPT !.pos = "exit", !.ret = fd]
<1>1. fd \in Fds \cup {NoFd}
  BY FreeFdType
<1>2. fd \in Results
  BY <1>1, ConstantsIn
<1>3. /\ task' = [task EXCEPT ![p].pos = "exit", ![p].ret = fd]
      /\ fdtab' = IF fd = NoFd THEN fdtab ELSE [fdtab EXCEPT ![g][fd] = task[p].call.file]
      /\ task[p].pos = "call" /\ reports' = Report({p}) /\ ncalls' = ncalls
  BY DEF DoOpen
<1> HIDE DEF fd
<1>4. t \in Task /\ t.pos = "exit" /\ t.tgid = task[p].tgid /\ t.ppid = task[p].ppid /\ t.call = task[p].call
  BY <1>2, StoppedTask
<1>5. task' = [task EXCEPT ![p] = t]
  BY <1>3, TaskFields DEF Task
<1>6. fdtab' \in [Pids -> [Fds -> Files \cup {Std, None}]]
  BY <1>1, <1>3, TaskFields DEF Call
<1> HIDE DEF t
<1>7. ncalls' \in 0 .. MaxCalls
  BY <1>3, TaskFields
<1> QED
  BY <1>3, <1>4, <1>5, <1>6, <1>7, StoppingIs DEF FilesType

LEMMA DoCloseStops ==
  ASSUME Loop, NEW p \in Pids, DoClose(p)
  PROVE  Stopping(p) /\ FilesType'
<1> DEFINE g == task[p].tgid
           fd == task[p].call.fd
           t == [task[p] EXCEPT !.pos = "exit", !.ret = 0]
<1>1. 0 \in Results
  BY ConstantsIn
<1>2. /\ task' = [task EXCEPT ![p].pos = "exit", ![p].ret = 0]
      /\ fdtab' = [fdtab EXCEPT ![g][fd] = None]
      /\ task[p].pos = "call" /\ reports' = Report({p}) /\ ncalls' = ncalls
  BY DEF DoClose
<1>3. t \in Task /\ t.pos = "exit" /\ t.tgid = task[p].tgid /\ t.ppid = task[p].ppid /\ t.call = task[p].call
  BY <1>1, StoppedTask
<1>4. task' = [task EXCEPT ![p] = t]
  BY <1>2, TaskFields DEF Task
<1>5. fdtab' \in [Pids -> [Fds -> Files \cup {Std, None}]]
  BY <1>2, TaskFields
<1> HIDE DEF t
<1>6. ncalls' \in 0 .. MaxCalls
  BY <1>2, TaskFields
<1> QED
  BY <1>2, <1>3, <1>4, <1>5, <1>6, StoppingIs DEF FilesType

LEMMA DoWriteStops ==
  ASSUME Loop, NEW p \in Pids, DoWrite(p)
  PROVE  Stopping(p) /\ FilesType'
<1> DEFINE fd == task[p].call.fd
           file == fdtab[task[p].tgid][fd]
           call == [task[p].call EXCEPT !.file = file]
<1>1. PICK ret \in {NoFd, 1} :
      /\ task' = [task EXCEPT ![p].pos = "exit", ![p].call.file = file, ![p].ret = ret]
      /\ task[p].pos = "call" /\ reports' = Report({p}) /\ ncalls' = ncalls /\ fdtab' = fdtab
      /\ task[p].call.nr \in Writing
  BY DEF DoWrite
<1> DEFINE t == [task[p] EXCEPT !.pos = "exit", !.call = call, !.ret = ret]
<1>2. file \in Files \cup {Std, None}
  BY <1>1, TaskFields DEF None
<1>3. ret \in Results
  BY ConstantsIn
<1> HIDE DEF file
<1>4. call \in Call /\ call.nr = task[p].call.nr /\ call.fd = fd
  <2>1. task[p].call \in Call
    BY TaskFields
  <2> QED
    BY <1>1, <1>2, <2>1 DEF Call
<1>5. task' = [task EXCEPT ![p] = t]
  <2>1. task[p] \in Task /\ task[p].call \in Call /\ task \in [Pids -> Task]
    BY TaskFields
  <2> QED
    BY <1>1, <2>1 DEF Task, Call
<1> HIDE DEF call
<1>6. t \in Task /\ t.pos = "exit" /\ t.tgid = task[p].tgid /\ t.ppid = task[p].ppid /\ t.call = call
  <2>1. task[p] \in Task
    BY TaskFields
  <2> QED
    BY <1>3, <1>4, <2>1 DEF Task, Positions, Stopped
<1> HIDE DEF t
<1>7. ncalls' \in 0 .. MaxCalls /\ fdtab' \in [Pids -> [Fds -> Files \cup {Std, None}]]
  BY <1>1, TaskFields
<1> QED
  BY <1>1, <1>4, <1>5, <1>6, <1>7, StoppingIs DEF FilesType

LEMMA CloneReturnsStops ==
  ASSUME Loop, NEW p \in Pids, task[p].pos \in {"call", "return"},
         task' = [task EXCEPT ![p].pos = "exit"], reports' = Report({p}),
         UNCHANGED <<fdtab, ncalls>>
  PROVE  Stopping(p) /\ FilesType'
<1> DEFINE t == [task[p] EXCEPT !.pos = "exit"]
<1>1. t \in Task /\ t.pos = "exit" /\ t.tgid = task[p].tgid /\ t.ppid = task[p].ppid /\ t.call = task[p].call
  BY TaskFields DEF Task, Positions, Stopped
<1>2. task' = [task EXCEPT ![p] = t]
  BY TaskFields DEF Task
<1> HIDE DEF t
<1>3. ncalls' \in 0 .. MaxCalls /\ fdtab' \in [Pids -> [Fds -> Files \cup {Std, None}]]
  BY TaskFields
<1> QED
  BY <1>1, <1>2, <1>3, StoppingIs DEF FilesType

LEMMA LowestFree ==
  ASSUME NEW free, free = {q \in Pids : task[q].pos = None}, free # {}
  PROVE  Lowest(free) \in Pids /\ task[Lowest(free)].pos = None
         /\ \A q \in free : Lowest(free) <= q
<1>1. free \in SUBSET Nat
  BY ConstantsIn
<1>2. Lowest(free) \in free /\ \A q \in free : Lowest(free) <= q
  BY <1>1, LowestIs
<1> QED
  BY <1>2

\* A creation that succeeds: p is at its event, q is the new task.
Created(p, q) ==
  /\ q # p /\ task[q].pos = None /\ task[p].pos = "call"
  /\ \A r \in Pids : task[r].pos = None => q <= r
  /\ task'[p].pos = "event" /\ task'[p].call.child = q /\ task'[p].call.nr = task[p].call.nr
  /\ task'[p].call.fd = task[p].call.fd /\ task'[p].call.file = task[p].call.file
  /\ task'[p].tgid = task[p].tgid /\ task'[p].ppid = task[p].ppid /\ task'[p].ret = task[p].ret
  /\ task'[q].pos = "init" /\ task'[q].call = NoCall /\ task'[q].ret = NoFd
  /\ \/ /\ task[p].call.nr = "clone" /\ fdtab' = fdtab
        /\ task'[q].tgid = task[p].tgid /\ task'[q].ppid = task[p].ppid
     \/ /\ task[p].call.nr = "fork" /\ fdtab' = [fdtab EXCEPT ![q] = fdtab[task[p].tgid]]
        /\ task'[q].tgid = q /\ task'[q].ppid = task[p].tgid
  /\ \A r \in Pids \ {p, q} : task'[r] = task[r]
  /\ task' \in [Pids -> Task]
  /\ reports' = Report({p, q}) /\ ncalls' = ncalls

LEMMA DoCloneIs ==
  ASSUME Loop, NEW p \in Pids, DoClone(p)
  PROVE  \/ /\ task[p].pos = "call" /\ task' = [task EXCEPT ![p].pos = "exit"]
            /\ reports' = Report({p}) /\ UNCHANGED <<fdtab, ncalls>>
         \/ \E q \in Pids : Created(p, q)
<1> DEFINE free == {r \in Pids : task[r].pos = None}
<1>1. CASE free = {}
  BY <1>1, Zenon DEF DoClone
<1>2. CASE free # {}
  <2>1. PICK q : q = Lowest(free)
    OBVIOUS
  <2> DEFINE g == task[p].tgid
             child == IF task[p].call.nr = "clone"
                      THEN [Unborn EXCEPT !.pos = "init", !.tgid = g, !.ppid = task[p].ppid]
                      ELSE [Unborn EXCEPT !.pos = "init", !.tgid = q, !.ppid = g]
  <2>2. /\ task[p].pos = "call" /\ task[p].call.nr \in {"clone", "fork"}
        /\ task' = [task EXCEPT ![p].pos = "event", ![p].call.child = q, ![q] = child]
        /\ fdtab' = IF child.tgid = g THEN fdtab ELSE [fdtab EXCEPT ![q] = fdtab[g]]
        /\ reports' = Report({p, q}) /\ ncalls' = ncalls
    BY <1>2, <2>1, Zenon DEF DoClone
  <2>3. q \in Pids /\ task[q].pos = None /\ \A r \in free : q <= r
    BY <1>2, <2>1, LowestFree
  <2>4. q # p
    BY <2>2, <2>3 DEF None
  <2>5. /\ task \in [Pids -> Task] /\ task[p] \in Task /\ task[p].call \in Call
        /\ g \in Pids /\ task[p].ppid \in Int
    BY <2>2, TaskFields DEF None
  <2>6. child \in Task /\ child.pos = "init" /\ child.call = NoCall /\ child.ret = NoFd
    <3>1. ASSUME NEW i \in Pids, NEW pp \in Int
          PROVE  [Unborn EXCEPT !.pos = "init", !.tgid = i, !.ppid = pp] \in Task
      <4>1. NoCall \in Call /\ NoFd \in Results
        BY ConstantsIn
      <4> QED
        BY <4>1 DEF Task, Unborn, Positions, Stopped
    <3>2. g \in Int /\ q \in Int
      <4>1. Pids \subseteq Int
        BY ConstantsIn
      <4> QED
        BY <2>3, <2>5, <4>1
    <3>3. child \in Task
      BY <2>3, <2>5, <3>1, <3>2
    <3> QED
      BY <3>3 DEF Unborn
  <2>7. /\ task[p].call.nr = "clone" => child.tgid = g /\ child.ppid = task[p].ppid
        /\ task[p].call.nr # "clone" => child.tgid = q /\ child.ppid = g
    BY DEF Unborn
  <2> HIDE DEF child
  <2> DEFINE c == [task[p].call EXCEPT !.child = q]
             t == [task[p] EXCEPT !.pos = "event", !.call = c]
  <2>8. c \in Call
    BY <2>3, <2>5 DEF Call
  <2>9. t \in Task
    <3> HIDE DEF c
    <3> QED
      BY <2>5, <2>8 DEF Task, Positions, Stopped
  <2>10. task' = [[task EXCEPT ![p] = t] EXCEPT ![q] = child]
    BY <2>2, <2>5 DEF Task, Call
  <2> HIDE DEF t, c
  <2>11. task'[p] = t /\ task'[q] = child /\ (\A r \in Pids \ {p, q} : task'[r] = task[r])
         /\ task' \in [Pids -> Task]
    BY <2>3, <2>4, <2>5, <2>6, <2>9, <2>10
  <2>12. \/ /\ task[p].call.nr = "clone" /\ fdtab' = fdtab
            /\ task'[q].tgid = task[p].tgid /\ task'[q].ppid = task[p].ppid
         \/ /\ task[p].call.nr = "fork" /\ fdtab' = [fdtab EXCEPT ![q] = fdtab[task[p].tgid]]
            /\ task'[q].tgid = q /\ task'[q].ppid = task[p].tgid
    <3>1. fdtab \in [Pids -> [Fds -> Files \cup {Std, None}]]
      BY TaskFields
    <3>2. CASE task[p].call.nr = "clone"
      BY <2>2, <2>7, <2>11, <3>2
    <3>3. CASE task[p].call.nr = "fork"
      <4>1. child.tgid = q /\ child.ppid = g
        BY <2>7, <3>3
      <4>2. fdtab' = [fdtab EXCEPT ![q] = fdtab[g]]
        BY <2>2, <2>5, <3>1, <4>1
      <4> QED
        BY <2>11, <3>3, <4>1, <4>2
    <3> QED
      BY <2>2, <3>2, <3>3
  <2>13. /\ task'[p].pos = "event" /\ task'[p].call.child = q /\ task'[p].call.nr = task[p].call.nr
         /\ task'[p].call.fd = task[p].call.fd /\ task'[p].call.file = task[p].call.file
         /\ task'[p].tgid = task[p].tgid /\ task'[p].ppid = task[p].ppid /\ task'[p].ret = task[p].ret
    <3>1. /\ c.child = q /\ c.nr = task[p].call.nr /\ c.fd = task[p].call.fd
          /\ c.file = task[p].call.file
      BY <2>4 DEF c, Call
    <3>2. /\ t.pos = "event" /\ t.call = c
          /\ t.tgid = task[p].tgid /\ t.ppid = task[p].ppid /\ t.ret = task[p].ret
      BY <2>4 DEF t, Task
    <3> QED
      BY <2>11, <3>1, <3>2
  <2>14. task'[q].pos = "init" /\ task'[q].call = NoCall /\ task'[q].ret = NoFd
    BY <2>6, <2>11
  <2>15. \A r \in Pids : task[r].pos = None => q <= r
    BY <2>3
  <2> HIDE DEF free, g
  <2> QED
    BY <2>2, <2>3, <2>4, <2>11, <2>12, <2>13, <2>14, <2>15 DEF Created
<1> QED
  BY <1>1, <1>2

LEMMA CreatedLoop ==
  ASSUME Loop, Looping, NEW p \in Pids, NEW q \in Pids, Created(p, q), UNCHANGED <<world, cur, loop>>
  PROVE  Loop'
<1> DEFINE S == {p, q}
<1>1. /\ q \in Pids /\ q # p /\ task[q].pos = None /\ task[p].pos = "call"
      /\ task'[p].pos = "event" /\ task'[p].tgid = task[p].tgid
      /\ task'[p].call.nr = task[p].call.nr /\ task'[p].call.fd = task[p].call.fd
      /\ task'[q].pos = "init" /\ task'[q].call = NoCall
      /\ \A r \in Pids \ {p, q} : task'[r] = task[r]
      /\ task' \in [Pids -> Task]
      /\ reports' = Report({p, q}) /\ ncalls' = ncalls
  BY Zenon DEF Created
<1>2. task'[q].tgid = task[p].tgid \/ task'[q].tgid = q
  BY Zenon DEF Created
<1>3. fdtab' \in [Pids -> [Fds -> Files \cup {Std, None}]]
  <2>1. fdtab \in [Pids -> [Fds -> Files \cup {Std, None}]] /\ task[p].tgid \in Pids
    BY <1>1, TaskFields DEF None
  <2>2. fdtab' = fdtab \/ fdtab' = [fdtab EXCEPT ![q] = fdtab[task[p].tgid]]
    BY Zenon DEF Created
  <2> QED
    BY <2>1, <2>2
<1>4. task[p] \in Task /\ task[p].call \in Call /\ task[p].tgid \in Pids
  BY <1>1, TaskFields DEF None
<1>5. cur.pid # p /\ cur.pid # q
  BY <1>1, RunningNotHandled
<1>6. \A r \in Pids : task'[r].pos # None => task'[r].tgid \in Pids
  BY <1>1, <1>2, <1>4 DEF Loop, WorldType
<1>7. \A r \in Pids : task'[r].call.nr \in {"close"} \cup Writing => task'[r].call.fd \in Fds
  <2>1. \A r \in Pids : task[r].call.nr \in {"close"} \cup Writing => task[r].call.fd \in Fds
    BY DEF Loop, WorldType
  <2>2. task'[q].call.nr = "0"
    BY <1>1 DEF NoCall
  <2> QED
    BY <1>1, <2>1, <2>2 DEF Writing
<1>8. /\ S \in SUBSET Pids /\ reports' = Report(S)
      /\ \A r \in S : task'[r].pos \in Stopped \cup {"dead"}
      /\ \A r \in S : cur.pid = r => task'[r].pos = "dead" /\ task[r].pos # "gone"
      /\ \A r \in Pids \ S : task'[r].pos = task[r].pos
  BY <1>1, <1>5 DEF Stopped
<1>9. ncalls' \in 0 .. MaxCalls
  BY <1>1, TaskFields
<1> HIDE DEF S
<1> QED
  BY <1>1, <1>3, <1>6, <1>7, <1>8, <1>9, ReportStep

\* The tasks in gone die; the others keep all but their parents.
Dying(gone) ==
  /\ task' \in [Pids -> Task]
  /\ \A p \in gone : task'[p].pos = "dead" /\ task'[p].call = NoCall
  /\ \A p \in Pids \ gone :
       task'[p].pos = task[p].pos /\ task'[p].call = task[p].call /\ task'[p].ret = task[p].ret
  /\ \A p \in Pids : task'[p].tgid = task[p].tgid /\ task'[p].ppid \in {task[p].ppid, Init1}
  /\ \A p \in Pids : task[p].ppid \notin Pids => task'[p].ppid = task[p].ppid
  /\ reports' = Report(gone) /\ UNCHANGED <<fdtab, ncalls>>

LEMMA DieIs ==
  ASSUME Loop, NEW gone \in SUBSET Pids, Die(gone)
  PROVE  Dying(gone)
<1> DEFINE dead == {g \in Pids : ~\E p \in Live \ gone : task[p].tgid = g}
           D(p) == [task[p] EXCEPT !.pos = "dead", !.call = NoCall, !.ret = NoFd]
           O(p) == [task[p] EXCEPT !.ppid = Init1]
<1>1. /\ task' = [p \in Pids |-> IF p \in gone THEN D(p)
                   ELSE IF task[p].ppid \in dead THEN O(p) ELSE task[p]]
      /\ reports' = Report(gone) /\ UNCHANGED <<fdtab, ncalls>>
  BY Zenon DEF Die
<1>2. ASSUME NEW p \in Pids
      PROVE  /\ D(p) \in Task /\ D(p).pos = "dead" /\ D(p).call = NoCall /\ D(p).tgid = task[p].tgid
             /\ D(p).ppid = task[p].ppid
             /\ O(p) \in Task /\ O(p).pos = task[p].pos /\ O(p).call = task[p].call
             /\ O(p).ret = task[p].ret /\ O(p).tgid = task[p].tgid /\ O(p).ppid = Init1
             /\ task[p] \in Task
  <2>1. task[p] \in Task /\ NoCall \in Call /\ NoFd \in Results
    BY TaskFields, ConstantsIn
  <2>2. D(p) \in Task
    BY <2>1 DEF Task, Positions
  <2>3. O(p) \in Task
    BY <2>1 DEF Task, Init1
  <2>4. /\ D(p).pos = "dead" /\ D(p).call = NoCall /\ D(p).tgid = task[p].tgid
        /\ D(p).ppid = task[p].ppid
    BY <2>1 DEF Task
  <2>5. /\ O(p).pos = task[p].pos /\ O(p).call = task[p].call
        /\ O(p).ret = task[p].ret /\ O(p).tgid = task[p].tgid /\ O(p).ppid = Init1
    BY <2>1 DEF Task
  <2> QED
    BY <2>1, <2>2, <2>3, <2>4, <2>5
<1>3. dead \subseteq Pids
  OBVIOUS
<1> HIDE DEF D, O, dead
<1>4. \A p \in Pids :
        \/ p \in gone /\ task'[p] = D(p)
        \/ p \notin gone /\ task'[p] = O(p) /\ task[p].ppid \in dead
        \/ p \notin gone /\ task'[p] = task[p]
  BY <1>1
<1>5. task' \in [Pids -> Task]
  <2>1. \A p \in Pids : task'[p] \in Task
    BY <1>2, <1>4
  <2>2. task' = [p \in Pids |-> task'[p]]
    BY <1>1
  <2> QED
    BY <2>1, <2>2
<1>6. \A p \in gone : task'[p].pos = "dead" /\ task'[p].call = NoCall
  BY <1>2, <1>4
<1>7. \A p \in Pids \ gone :
        task'[p].pos = task[p].pos /\ task'[p].call = task[p].call /\ task'[p].ret = task[p].ret
  BY <1>2, <1>4
<1>8. \A p \in Pids : /\ task'[p].tgid = task[p].tgid /\ task'[p].ppid \in {task[p].ppid, Init1}
                      /\ task[p].ppid \notin Pids => task'[p].ppid = task[p].ppid
  BY <1>2, <1>3, <1>4
<1> QED
  BY <1>1, <1>5, <1>6, <1>7, <1>8 DEF Dying

LEMMA DyingLoop ==
  ASSUME Loop, Looping, NEW gone \in SUBSET Live, Dying(gone), UNCHANGED <<world, cur, loop>>
  PROVE  Loop'
<1>1. gone \in SUBSET Pids /\ \A p \in gone : task[p].pos \notin {None, "dead", "gone"}
  BY DEF Live
<1>2. /\ task' \in [Pids -> Task]
      /\ \A p \in gone : task'[p].pos = "dead" /\ task'[p].call = NoCall
      /\ \A p \in Pids \ gone : task'[p].pos = task[p].pos /\ task'[p].call = task[p].call
      /\ \A p \in Pids : task'[p].tgid = task[p].tgid
      /\ reports' = Report(gone) /\ UNCHANGED <<fdtab, ncalls>>
  BY DEF Dying
<1>3. \A p \in Pids : task'[p].pos # None => task'[p].tgid \in Pids
  BY <1>1, <1>2 DEF Loop, WorldType
<1>4. \A p \in Pids : task'[p].call.nr \in {"close"} \cup Writing => task'[p].call.fd \in Fds
  BY <1>2 DEF Loop, WorldType, NoCall, Writing
<1>5. fdtab' \in [Pids -> [Fds -> Files \cup {Std, None}]] /\ ncalls' \in 0 .. MaxCalls
  BY <1>2 DEF Loop, WorldType
<1> QED
  BY <1>1, <1>2, <1>3, <1>4, <1>5, ReportStep

-----------------------------------------------------------------------------
(* What a call has done to a descriptor when its task has stopped. *)

\* The task p, at the end of its call, has changed what fd refers to, to After(p).
Changed(p, fd) ==
  /\ task[p].pos = "exit"
  /\ \/ task[p].call.nr = "open" /\ task[p].ret = fd
     \/ task[p].call.nr = "close" /\ task[p].call.fd = fd

After(p) == IF task[p].call.nr = "open" THEN task[p].call.file ELSE None

\* The task p, at the end of its call, has written to fd.
Wrote(p, fd) == task[p].pos = "exit" /\ task[p].call.nr \in Writing /\ task[p].call.fd = fd

\* The step of p did what its call at the end tells.
Effect(p) ==
  LET old == fdtab[task[p].tgid]
      new == fdtab'[task[p].tgid]
  IN  /\ task[p].pos # "return" => \A fd \in Fds :
           /\ Changed(p, fd)' => new[fd] = After(p)'
           /\ ~Changed(p, fd)' => new[fd] = old[fd]
           /\ Wrote(p, fd)' => task'[p].call.file = old[fd]
      /\ task[p].pos = "return" => fdtab' = fdtab
      /\ task'[p].pos = "exit" /\ task'[p].call.nr = "open" => task'[p].call.file = task[p].call.file

LEMMA EnterEffect ==
  ASSUME Loop, NEW p \in Pids, EnterCall(p)
  PROVE  Effect(p)
<1>1. task'[p].pos = "enter" /\ fdtab' = fdtab
  BY TaskFields DEF EnterCall, Task
<1>2. task[p].pos = "user"
  BY DEF EnterCall
<1> QED
  BY <1>1, <1>2 DEF Effect, Changed, Wrote

LEMMA OpenEffect ==
  ASSUME Loop, NEW p \in Pids, DoOpen(p)
  PROVE  Effect(p)
<1>1. PICK g, fd : g = task[p].tgid /\ fd = FreeFd(fdtab[g])
  OBVIOUS
<1>2. /\ task' = [task EXCEPT ![p].pos = "exit", ![p].ret = fd]
      /\ fdtab' = IF fd = NoFd THEN fdtab ELSE [fdtab EXCEPT ![g][fd] = task[p].call.file]
      /\ task[p].pos = "call" /\ task[p].call.nr = "open"
  BY <1>1 DEF DoOpen
<1>3. /\ task'[p].pos = "exit" /\ task'[p].ret = fd /\ task'[p].call = task[p].call
  BY <1>2, TaskFields DEF Task
<1>4. /\ fdtab \in [Pids -> [Fds -> Files \cup {Std, None}]]
      /\ g \in Pids /\ fd \in Fds \cup {NoFd} /\ NoFd \notin Fds
  BY <1>1, <1>2, TaskFields, FreeFdType, ConstantsIn DEF None
<1>5. \A f \in Fds : /\ f = fd => fdtab'[g][f] = task[p].call.file
                     /\ f # fd => fdtab'[g][f] = fdtab[g][f]
  BY <1>2, <1>4
<1>6. \A f \in Fds : /\ Changed(p, f)' <=> f = fd
                     /\ ~Wrote(p, f)'
  BY <1>2, <1>3 DEF Changed, Wrote, Writing
<1>7. After(p)' = task[p].call.file
  BY <1>2, <1>3 DEF After
<1> QED
  BY <1>1, <1>2, <1>3, <1>5, <1>6, <1>7 DEF Effect

LEMMA CloseEffect ==
  ASSUME Loop, NEW p \in Pids, DoClose(p)
  PROVE  Effect(p)
<1>1. PICK g, fd : g = task[p].tgid /\ fd = task[p].call.fd
  OBVIOUS
<1>2. /\ task' = [task EXCEPT ![p].pos = "exit", ![p].ret = 0]
      /\ fdtab' = [fdtab EXCEPT ![g][fd] = None]
      /\ task[p].pos = "call" /\ task[p].call.nr = "close"
  BY <1>1 DEF DoClose
<1>3. /\ task'[p].pos = "exit" /\ task'[p].call = task[p].call
  BY <1>2, TaskFields DEF Task
<1>4. fdtab \in [Pids -> [Fds -> Files \cup {Std, None}]] /\ g \in Pids /\ fd \in Fds
  BY <1>1, <1>2, TaskFields DEF None
<1>5. \A f \in Fds : /\ f = fd => fdtab'[g][f] = None
                     /\ f # fd => fdtab'[g][f] = fdtab[g][f]
  BY <1>2, <1>4
<1>6. \A f \in Fds : /\ Changed(p, f)' <=> f = fd
                     /\ ~Wrote(p, f)'
  BY <1>1, <1>2, <1>3 DEF Changed, Wrote, Writing
<1>7. After(p)' = None
  BY <1>2, <1>3 DEF After
<1> QED
  BY <1>1, <1>2, <1>3, <1>5, <1>6, <1>7 DEF Effect

LEMMA WriteEffect ==
  ASSUME Loop, NEW p \in Pids, DoWrite(p)
  PROVE  Effect(p)
<1>1. PICK file, fd : fd = task[p].call.fd /\ file = fdtab[task[p].tgid][fd]
  OBVIOUS
<1>2. PICK ret \in {NoFd, 1} :
      /\ task' = [task EXCEPT ![p].pos = "exit", ![p].call.file = file, ![p].ret = ret]
      /\ fdtab' = fdtab /\ task[p].pos = "call" /\ task[p].call.nr \in Writing
  BY <1>1 DEF DoWrite
<1>3. PICK call : call = [task[p].call EXCEPT !.file = file]
  OBVIOUS
<1>4. call.nr \in Writing /\ call.fd = fd /\ call.file = file
  BY <1>1, <1>2, <1>3, TaskFields DEF Call
<1>5. task'[p].pos = "exit" /\ task'[p].call = call
  <2>1. task[p] \in Task /\ task[p].call \in Call /\ task \in [Pids -> Task]
    BY TaskFields
  <2>2. task' = [task EXCEPT ![p] = [task[p] EXCEPT !.pos = "exit", !.call = call, !.ret = ret]]
    BY <1>2, <1>3, <2>1 DEF Task, Call
  <2> QED
    BY <2>1, <2>2 DEF Task
<1>6. \A f \in Fds : ~Changed(p, f)' /\ (Wrote(p, f)' <=> f = fd)
  BY <1>4, <1>5 DEF Changed, Wrote, Writing
<1> QED
  BY <1>1, <1>2, <1>4, <1>5, <1>6 DEF Effect, Writing

LEMMA CloneEffect ==
  ASSUME Loop, NEW p \in Pids, task[p].pos = "return" \/ task[p].call.nr \in {"clone", "fork"},
         task' = [task EXCEPT ![p].pos = "exit"], fdtab' = fdtab
  PROVE  Effect(p)
<1>1. task'[p].call = task[p].call
  BY TaskFields DEF Task
<1>2. task[p].pos # "return" => \A f \in Fds : ~Changed(p, f)' /\ ~Wrote(p, f)'
  BY <1>1 DEF Changed, Wrote, Writing
<1> QED
  BY <1>1, <1>2 DEF Effect

\* What a step of the tasks is: one of them stops, one creates another, or some die.
Deaths(gone) ==
  /\ Dying(gone)
  /\ \/ \E p \in Live : gone = {p} /\ task[p].pos = "user"
     \/ \E g \in Pids : gone = {q \in Live : task[q].tgid = g}

LEMMA WorldCases ==
  ASSUME Loop, WorldStep
  PROVE  \/ \E p \in Pids : Stopping(p) /\ FilesType' /\ Effect(p)
         \/ \E p, q \in Pids : Created(p, q)
         \/ \E gone \in SUBSET Live : Deaths(gone)
<1>1. PICK p \in Pids :
        \/ EnterCall(p) \/ DoOpen(p) \/ DoClose(p) \/ DoWrite(p) \/ DoClone(p)
        \/ CloneReturns(p) \/ Exits(p) \/ Killed(p)
  BY DEF WorldStep
<1>2. CASE EnterCall(p)
  BY <1>2, EnterCallStops, EnterEffect
<1>3. CASE DoOpen(p)
  BY <1>3, DoOpenStops, OpenEffect
<1>4. CASE DoClose(p)
  BY <1>4, DoCloseStops, CloseEffect
<1>5. CASE DoWrite(p)
  BY <1>5, DoWriteStops, WriteEffect
<1>6. CASE DoClone(p)
  <2>1. CASE /\ task[p].pos = "call" /\ task' = [task EXCEPT ![p].pos = "exit"]
             /\ reports' = Report({p}) /\ UNCHANGED <<fdtab, ncalls>>
    <3>1. task[p].call.nr \in {"clone", "fork"}
      BY <1>6 DEF DoClone
    <3> QED
      BY <2>1, <3>1, CloneReturnsStops, CloneEffect
  <2> QED
    BY <1>6, <2>1, DoCloneIs
<1>7. CASE CloneReturns(p)
  <2>1. /\ task[p].pos = "return" /\ task' = [task EXCEPT ![p].pos = "exit"]
        /\ reports' = Report({p}) /\ UNCHANGED <<fdtab, ncalls>>
    BY <1>7 DEF CloneReturns
  <2> QED
    BY <2>1, CloneReturnsStops, CloneEffect
<1>8. CASE Exits(p) \/ Killed(p)
  <2>1. PICK gone \in SUBSET Live :
          /\ Die(gone)
          /\ \/ \E r \in Live : gone = {r} /\ task[r].pos = "user"
             \/ \E g \in Pids : gone = {q \in Live : task[q].tgid = g}
    <3>1. CASE Exits(p)
      <4>1. Die({p}) /\ task[p].pos = "user" /\ p \in Live
        BY <3>1 DEF Exits, Live, None
      <4> QED
        BY <4>1
    <3>2. CASE Killed(p)
      <4>1. Die({q \in Live : task[q].tgid = p})
        BY <3>2 DEF Killed
      <4> QED
        BY <4>1
    <3> QED
      BY <1>8, <3>1, <3>2
  <2>2. gone \in SUBSET Pids
    BY DEF Live
  <2>3. Dying(gone)
    BY <2>1, <2>2, DieIs
  <2> QED
    BY <2>1, <2>3 DEF Deaths
<1> QED
  BY <1>1, <1>2, <1>3, <1>4, <1>5, <1>6, <1>7, <1>8

-----------------------------------------------------------------------------
(* The tracer's own steps. *)

LEMMA ResumedIs ==
  ASSUME NEW t \in Task
  PROVE  /\ Resumed(t) \in Task
         /\ Resumed(t).tgid = t.tgid /\ Resumed(t).ppid = t.ppid /\ Resumed(t).ret = t.ret
         /\ t.pos \notin Stopped => Resumed(t) = t
         /\ t.pos \in {"init", "exit"} => Resumed(t).pos = "user" /\ Resumed(t).call = NoCall
         /\ t.pos = "enter" => Resumed(t).pos = "call" /\ Resumed(t).call = t.call
         /\ t.pos = "event" => Resumed(t).pos = "return" /\ Resumed(t).call = t.call
<1> DEFINE next == [init |-> "user", enter |-> "call", event |-> "return", exit |-> "user"][t.pos]
           call == IF t.pos \in {"init", "exit"} THEN NoCall ELSE t.call
<1>1. CASE t.pos \notin Stopped
  <2>1. Resumed(t) = t
    BY <1>1, Zenon DEF Resumed
  <2> QED
    BY <1>1, <2>1 DEF Stopped
<1>2. CASE t.pos \in Stopped
  <2>1. Resumed(t) = [t EXCEPT !.pos = next, !.call = call]
    BY <1>2 DEF Resumed, Task
  <2>2. /\ t.pos \in {"init", "exit"} => next = "user"
        /\ t.pos = "enter" => next = "call"
        /\ t.pos = "event" => next = "return"
    OBVIOUS
  <2>3. next \in Positions /\ call \in Call
    BY <1>2, <2>2, ConstantsIn DEF Positions, Stopped, Task
  <2>4. /\ t.pos \in {"init", "exit"} => call = NoCall
        /\ t.pos \notin {"init", "exit"} => call = t.call
    OBVIOUS
  <2> HIDE DEF next, call
  <2>5. Resumed(t).pos = next /\ Resumed(t).call = call
    BY <2>1 DEF Task
  <2>6. Resumed(t) \in Task
    BY <2>1, <2>3 DEF Task
  <2>7. Resumed(t).tgid = t.tgid /\ Resumed(t).ppid = t.ppid /\ Resumed(t).ret = t.ret
    BY <2>1 DEF Task
  <2> QED
    BY <1>2, <2>2, <2>4, <2>5, <2>6, <2>7
<1> QED
  BY <1>1, <1>2

\* Every task keeps what WorldType asks for when it is let go on.
LEMMA ResumedType ==
  ASSUME Loop, NEW S \in SUBSET Pids, UNCHANGED <<world, fdtab, reports, ncalls>>,
         task' = [p \in Pids |-> IF p \in S THEN Resumed(task[p]) ELSE task[p]]
  PROVE  WorldType'
<1>1. \A p \in Pids : task'[p] = Resumed(task[p]) \/ task'[p] = task[p]
  OBVIOUS
<1>2. ASSUME NEW p \in Pids
      PROVE  /\ task'[p] \in Task /\ task'[p].tgid = task[p].tgid
             /\ task'[p].pos # None => task[p].pos # None
             /\ task'[p].call = task[p].call \/ task'[p].call = NoCall
  <2>1. task[p] \in Task
    BY TaskFields
  <2>2. task[p].pos \notin Stopped \/ task[p].pos \in {"init", "exit"} \/ task[p].pos = "enter"
        \/ task[p].pos = "event"
    BY DEF Stopped
  <2> QED
    BY <1>1, <2>1, <2>2, ResumedIs DEF None, Stopped
<1>3. task' \in [Pids -> Task]
  <2>1. task' = [p \in Pids |-> task'[p]]
    OBVIOUS
  <2> QED
    BY <1>2, <2>1
<1>4. \A p \in Pids : task'[p].pos # None => task'[p].tgid \in Pids
  BY <1>2 DEF Loop, WorldType
<1>5. \A p \in Pids : task'[p].call.nr \in {"close"} \cup Writing => task'[p].call.fd \in Fds
  BY <1>2 DEF Loop, WorldType, NoCall, Writing
<1> QED
  BY <1>3, <1>4, <1>5 DEF Loop, WorldType

LEMMA ContinueLoop ==
  ASSUME Loop, Looping, NEW p \in Pids, cur.pid = p, Continue(p),
         UNCHANGED <<world, fdtab, ncalls, reports, loop>>
  PROVE  Loop'
<1>1. task \in [Pids -> Task] /\ task[p] \in Task
  BY TaskFields
<1>2. /\ task' = [q \in Pids |-> IF q \in {p} THEN Resumed(task[q]) ELSE task[q]]
      /\ \A q \in Pids \ {p} : task'[q] = task[q]
      /\ task'[p] = Resumed(task[p]) /\ cur' = NoStop
  BY <1>1 DEF Continue
<1>3. WorldType'
  BY <1>2, ResumedType
<1>4. LoopType' /\ HandledAt'
  BY <1>2 DEF Loop, LoopType, HandledAt, NoStop, None
<1>5. Queued'
  <2> SUFFICES ASSUME NEW q \in Pids, reports[q] # 0
               PROVE  /\ task'[q].pos \in Stopped \cup {"dead"}
                      /\ cur'.pid = q => task'[q].pos = "dead"
    BY DEF Queued
  <2>1. cur'.pid # q
    BY <1>2, ConstantsIn DEF NoStop
  <2>2. CASE q = p
    <3>1. task[p].pos = "dead"
      BY <2>2 DEF Loop, Queued
    <3>2. Resumed(task[p]) = task[p]
      BY <1>1, <3>1, ResumedIs DEF Stopped
    <3> QED
      BY <1>2, <2>1, <2>2, <3>1, <3>2
  <2>3. CASE q # p
    BY <1>2, <2>1, <2>3 DEF Loop, Queued
  <2> QED
    BY <2>2, <2>3
<1> QED
  BY <1>3, <1>4, <1>5 DEF Loop

LEMMA LeaveLoop ==
  ASSUME Loop, LeaveAll, UNCHANGED <<world, fdtab, ncalls, reports>>
  PROVE  Loop'
<1>1. task' = [q \in Pids |-> IF q \in Pids THEN Resumed(task[q]) ELSE task[q]]
  BY DEF LeaveAll
<1>2. WorldType'
  BY <1>1, ResumedType
<1> QED
  BY <1>2 DEF Loop, LoopType, LeaveAll, Looping

LEMMA WaitLoop ==
  ASSUME Loop, Wait
  PROVE  Loop'
<1>1. PICK p \in Waitable :
        /\ cur' = [pid |-> p, stop |-> IF task[p].pos \in {"enter", "exit"} THEN "syscall" ELSE task[p].pos]
        /\ reports' = Kept(Pids \ {p})
        /\ task' = IF task[p].pos = "dead" THEN [task EXCEPT ![p].pos = "gone"] ELSE task
  BY DEF Wait
<1>2. Looping /\ cur = NoStop /\ UNCHANGED <<world, fdtab, ncalls, loop>>
  BY DEF Wait
<1>3. p \in Pids /\ reports[p] # 0 /\ task[p].pos \in Stopped \cup {"dead"}
  BY <1>2 DEF Waitable, Reported, Loop, Queued
<1>4. task \in [Pids -> Task] /\ task[p] \in Task
  BY <1>3, TaskFields
<1> DEFINE t == [task[p] EXCEPT !.pos = "gone"]
<1>5. t \in Task /\ t.pos = "gone" /\ t.tgid = task[p].tgid /\ t.call = task[p].call
  BY <1>4 DEF Task, Positions
<1>6. /\ task' \in [Pids -> Task]
      /\ task'[p] = IF task[p].pos = "dead" THEN t ELSE task[p]
      /\ \A q \in Pids \ {p} : task'[q] = task[q]
  BY <1>1, <1>3, <1>4, <1>5
<1> HIDE DEF t
<1>7. /\ reports' \in [Pids -> Nat] /\ reports'[p] = 0
      /\ \A q \in Pids \ {p} : reports'[q] = 0 <=> reports[q] = 0
  <2> DEFINE S == Pids \ {p}
  <2>1. S \in SUBSET Pids /\ p \in Pids \ S
    BY <1>3
  <2>2. reports \in [Pids -> Nat] /\ reports' = Kept(S)
    BY <1>1 DEF Loop, WorldType
  <2> HIDE DEF S
  <2>3. /\ Kept(S) \in [Pids -> Nat] /\ Kept(S)[p] = 0
        /\ \A q \in S : Kept(S)[q] = 0 <=> reports[q] = 0
    BY <2>1, <2>2, KeptIs
  <2> QED
    BY <2>2, <2>3 DEF S
<1>8. \A q \in Pids : task'[q].pos # None => task'[q].tgid \in Pids
  BY <1>3, <1>5, <1>6 DEF Loop, WorldType, None, Stopped
<1>9. \A q \in Pids : task'[q].call.nr \in {"close"} \cup Writing => task'[q].call.fd \in Fds
  BY <1>5, <1>6 DEF Loop, WorldType
<1>10. WorldType'
  BY <1>2, <1>6, <1>7, <1>8, <1>9 DEF Loop, WorldType
<1>11. /\ cur'.pid = p
       /\ task[p].pos \in {"enter", "exit"} => cur'.stop = "syscall"
       /\ task[p].pos \notin {"enter", "exit"} => cur'.stop = task[p].pos
  BY <1>1
<1>12. LoopType' /\ HandledAt'
  BY <1>2, <1>3, <1>5, <1>6, <1>11 DEF Loop, LoopType, HandledAt, Stopped
<1>13. Queued'
  <2> SUFFICES ASSUME NEW q \in Pids, reports'[q] # 0
               PROVE  /\ task'[q].pos \in Stopped \cup {"dead"}
                      /\ cur'.pid = q => task'[q].pos = "dead"
    BY DEF Queued
  <2>1. q # p /\ reports[q] # 0
    BY <1>7
  <2> QED
    BY <1>2, <1>6, <1>11, <2>1 DEF Loop, Queued
<1> QED
  BY <1>10, <1>12, <1>13 DEF Loop

LEMMA HandleGoneLoop ==
  ASSUME Loop, HandleGone
  PROVE  Loop'
<1>1. CASE LeaveAll
  BY <1>1, LeaveLoop DEF HandleGone, Handling
<1>2. CASE UNCHANGED <<task, loop>> /\ cur' = NoStop
  <2>1. WorldType'
    BY <1>2 DEF Loop, WorldType, HandleGone, Handling
  <2>2. LoopType' /\ HandledAt'
    BY <1>2 DEF Loop, LoopType, HandledAt, NoStop, None
  <2>3. Queued'
    <3>1. \A q \in Pids : cur'.pid # q
      BY <1>2, ConstantsIn DEF NoStop
    <3> QED
      BY <1>2, <3>1 DEF Loop, Queued, HandleGone, Handling
  <2> QED
    BY <2>1, <2>2, <2>3 DEF Loop
<1> QED
  BY <1>1, <1>2, Zenon DEF HandleGone

LEMMA HandledPid ==
  ASSUME Loop, cur.stop # None
  PROVE  cur.pid \in Pids
  BY DEF Loop, LoopType, NoStop

LEMMA LoopInit == Init => Loop
<1> SUFFICES ASSUME Init PROVE Loop
  OBVIOUS
<1>1. PICK pos \in {"user", "gone"} :
        task = [p \in Pids |-> IF p = Root
                  THEN [Unborn EXCEPT !.pos = pos, !.tgid = Root, !.ppid = Me] ELSE Unborn]
  BY DEF Init, WorldInit
<1> DEFINE t == [Unborn EXCEPT !.pos = pos, !.tgid = Root, !.ppid = Me]
<1>2. /\ t \in Task /\ t.pos = pos /\ t.tgid = Root /\ t.call = NoCall
      /\ Unborn \in Task /\ Unborn.pos = None /\ Unborn.call = NoCall
  <2>1. Unborn \in Task /\ Unborn.pos = None /\ Unborn.call = NoCall
    BY ConstantsIn DEF Unborn
  <2>2. Root \in Pids /\ Me \in Int /\ pos \in Positions
    BY TraceesAssumption DEF Me, Positions
  <2> QED
    BY <2>1, <2>2 DEF Task, Unborn
<1> HIDE DEF t
<1>3. task = [p \in Pids |-> IF p = Root THEN t ELSE Unborn] /\ Root \in Pids
  BY <1>1, TraceesAssumption DEF t
<1>4. /\ task \in [Pids -> Task]
      /\ \A p \in Pids : task[p].pos # None => task[p].tgid \in Pids
      /\ \A p \in Pids : task[p].call = NoCall
  BY <1>2, <1>3
<1>5. fdtab \in [Pids -> [Fds -> Files \cup {Std, None}]]
  BY DEF Init, WorldInit
<1>6. /\ world \in Worlds /\ ncalls \in 0 .. MaxCalls /\ cur = NoStop /\ loop = "on"
      /\ reports = [p \in Pids |-> 0]
  BY TraceesAssumption DEF Init, WorldInit
<1>7. WorldType
  BY <1>4, <1>5, <1>6 DEF WorldType, NoCall, Writing
<1>8. LoopType /\ HandledAt /\ Queued
  BY <1>6 DEF LoopType, HandledAt, Queued, NoStop, None
<1> QED
  BY <1>7, <1>8 DEF Loop

LEMMA UntouchedLoop ==
  ASSUME Loop, Untouched
  PROVE  Loop'
<1>1. Looping /\ WorldStep /\ UNCHANGED <<world, cur, loop>>
  BY DEF Untouched, WorldStep, tracerVars
<1>2. ASSUME NEW p \in Pids, Stopping(p), FilesType' PROVE Loop'
  BY <1>1, <1>2, StopStep
<1>3. ASSUME NEW p \in Pids, NEW q \in Pids, Created(p, q) PROVE Loop'
  BY <1>1, <1>3, CreatedLoop
<1>4. ASSUME NEW gone \in SUBSET Live, Deaths(gone) PROVE Loop'
  <2>1. Dying(gone)
    BY <1>4 DEF Deaths
  <2> QED
    BY <1>1, <2>1, DyingLoop
<1> QED
  BY <1>1, <1>2, <1>3, <1>4, WorldCases

\* Handlers that let the handled task go on.
LEMMA HandlerLoop ==
  ASSUME Loop, Looping, cur.stop # None, Continue(cur.pid),
         UNCHANGED <<world, fdtab, ncalls, reports, loop>>
  PROVE  Loop'
<1>1. cur.pid \in Pids
  BY HandledPid
<1> QED
  BY <1>1, ContinueLoop

LEMMA LoopStep ==
  ASSUME Loop, [Next]_vars
  PROVE  Loop'
<1>1. CASE Untouched
  BY <1>1, UntouchedLoop
<1>2. CASE Wait
  BY <1>2, WaitLoop
<1>3. CASE NoChildren
  BY <1>3 DEF Loop, WorldType, LoopType, NoChildren, worldVars, Looping
<1>4. CASE HandleClone \/ HandleInit
  BY <1>4, HandlerLoop DEF HandleClone, HandleInit, Handling, None
<1>5. CASE HandleGone
  BY <1>5, HandleGoneLoop
<1>6. ASSUME NEW p \in Pids, HandleUntracked(p) \/ HandleEnter(p) \/ HandleExit(p)
      PROVE  Loop'
  <2>1. /\ Looping /\ cur.stop # None /\ Continue(cur.pid)
        /\ UNCHANGED <<world, fdtab, ncalls, reports, loop>>
    BY <1>6, Zenon DEF HandleUntracked, HandleEnter, HandleExit, AtSyscall, Handling, None
  <2> QED
    BY <2>1, HandlerLoop
<1>7. ASSUME NEW p \in Pids, HandleVanished(p) PROVE Loop'
  BY <1>7, LeaveLoop DEF HandleVanished, AtSyscall, Handling
<1>8. CASE UNCHANGED vars
  BY <1>8 DEF Loop, WorldType, LoopType, Queued, HandledAt, Looping, vars, worldVars, tracerVars
<1> QED
  BY <1>1, <1>2, <1>3, <1>4, <1>5, <1>6, <1>7, <1>8 DEF Next, TracerStep

-----------------------------------------------------------------------------
(* The tables after each handler. *)

Alike(ps) == \A p, q \in DOMAIN ps : ps[p].fds = ps[q].fds

Tables(ps, strs) == TablesType(ps) /\ StringsType(strs) /\ Counted(ps, strs) /\ Alike(ps)

\* Registers and call numbers are not slots.
LEMMA SameSlots ==
  ASSUME NEW ps, NEW strs, Tables(ps, strs), NEW qs, TablesType(qs), DOMAIN qs = DOMAIN ps,
         \A q \in DOMAIN ps : qs[q].fds = ps[q].fds
  PROVE  Tables(qs, strs)
<1>1. SlotsOf(qs) = SlotsOf(ps) /\ \A s \in SlotsOf(ps) : Val(qs, s) = Val(ps, s)
  BY DEF SlotsOf, Val
<1> DEFINE S == SlotsOf(ps)
<1>2. \A s \in S : Val(ps, s) = Val(qs, s)
  BY <1>1
<1> HIDE DEF S
<1>3. \A n : Refs(ps, S, n) = Refs(qs, S, n)
  BY <1>2, RefsSame
<1>4. Counted(qs, strs)
  BY <1>1, <1>3 DEF Tables, Counted, S
<1> QED
  BY <1>4 DEF Tables, Alike

\* Two tasks differ at most in the slot fd.
AlikeBut(ps, p, fd) == \A q \in DOMAIN ps : \A f \in Mon \ {fd} : ps[q].fds[f] = ps[p].fds[f]

LEMMA SlottedAlike ==
  ASSUME NEW ps, NEW p \in DOMAIN ps, NEW ts, NEW fd, NEW n, NEW qs, Slotted(ps, ts, fd, n, qs),
         AlikeBut(ps, p, fd), \A q \in DOMAIN ps : q \in ts \/ ps[q].fds[fd] = n
  PROVE  Alike(qs)
<1>1. ASSUME NEW q \in DOMAIN ps, NEW f \in Mon
      PROVE  qs[q].fds[f] = IF f = fd THEN n ELSE ps[p].fds[f]
  BY DEF Slotted, AlikeBut
<1>2. ASSUME NEW q \in DOMAIN ps, NEW r \in DOMAIN ps
      PROVE  qs[q].fds = qs[r].fds
  <2>1. PICK a, b : a = qs[q].fds /\ b = qs[r].fds
    OBVIOUS
  <2>2. a \in [Mon -> Nat] /\ b \in [Mon -> Nat]
    BY <2>1 DEF Slotted
  <2>3. \A f \in Mon : a[f] = b[f]
    BY <1>1, <2>1
  <2>4. a = b
    BY <2>2, <2>3
  <2> QED
    BY <2>1, <2>4
<1>3. DOMAIN qs = DOMAIN ps
  BY DEF Slotted
<1> QED
  BY <1>2, <1>3 DEF Alike

LEMMA BroadcastTables ==
  ASSUME NEW ps, TablesType(ps), NEW strs, StringsType(strs), Counted(ps, strs),
         NEW p \in DOMAIN ps, NEW fd \in Mon, AlikeBut(ps, p, fd),
         BroadcastOpen(ps, strs, p, fd)
  PROVE  Tables(pids', arcs')
<1>1. PICK peers, n : peers = DOMAIN ps \ {p} /\ n = ps[p].fds[fd]
  OBVIOUS
<1>2. PICK qs, out : qs = pids' /\ out = arcs'
  OBVIOUS
<1> DEFINE old == peers \X {fd}
           same == SlotsOf(ps) \ old
<1>3. qs = SetSlot(ps, peers, fd, n) /\ out = Recount(strs, ps, old, qs, old)
  BY <1>1, <1>2, Zenon DEF BroadcastOpen
<1>4. n \in Nat /\ Val(ps, <<p, fd>>) = n /\ <<p, fd>> \in SlotsOf(ps)
  BY <1>1, SlotValue
<1>5. TablesType(qs) /\ SlotsOf(qs) = SlotsOf(ps)
  BY <1>3, <1>4, SetSlotTables
<1>6. /\ \A s \in SlotsOf(ps) : s \in old => Val(qs, s) = n
      /\ \A s \in SlotsOf(ps) : s \notin old => Val(qs, s) = Val(ps, s)
  BY <1>3, <1>4, SetSlotValues
<1>7. old \subseteq SlotsOf(ps)
  BY <1>1 DEF SlotsOf
<1>8. IsFiniteSet(SlotsOf(ps))
  BY SlotsFinite DEF TablesType
<1>9. n \in DOMAIN strs \cup {NoArc}
  BY <1>4 DEF Counted
<1> HIDE DEF old
<1>10. IsFiniteSet(old) /\ IsFiniteSet(same)
  BY <1>7, <1>8, FS_Subset
<1>11. /\ same \cap old = {} /\ SlotsOf(ps) = same \cup old /\ SlotsOf(qs) = same \cup old
       /\ \A s \in same : Val(ps, s) = Val(qs, s)
       /\ \A s \in old : Val(qs, s) \in DOMAIN strs \cup {NoArc}
  BY <1>6, <1>5, <1>7, <1>9
<1> HIDE DEF same
<1>12. /\ StringsType(Recount(strs, ps, old, qs, old))
       /\ Counted(qs, Recount(strs, ps, old, qs, old))
  <2>1. Moved(ps, qs, old, old, same, strs)
    BY <1>10, <1>11 DEF Moved
  <2> QED
    BY <2>1, RecountSound
<1>13. Slotted(ps, peers, fd, n, qs)
  BY <1>3, <1>4, SetSlotFds
<1>14. \A q \in DOMAIN ps : q \in peers \/ ps[q].fds[fd] = n
  BY <1>1
<1>15. Alike(qs)
  BY <1>13, <1>14, SlottedAlike
<1> QED
  BY <1>2, <1>3, <1>5, <1>12, <1>15, Zenon DEF Tables

LEMMA OpenTables ==
  ASSUME NEW ps, Tables(ps, arcs), NEW p \in DOMAIN ps, NEW fd, SyscallOpen(ps, p, fd)
  PROVE  Tables(pids', arcs')
<1>1. CASE fd \notin Mon
  BY <1>1, Zenon DEF SyscallOpen
<1>2. CASE fd \in Mon
  <2>1. PICK filename \in {ps[p].regs.file} \cup {None} :
          IF filename = None THEN BroadcastOpen(ps, arcs, p, fd)
          ELSE BroadcastOpen(SetSlot(ps, {p}, fd, Unused(arcs)), NewArc(arcs, filename), p, fd)
    BY <1>2, Zenon DEF SyscallOpen
  <2>2. /\ TablesType(ps) /\ StringsType(arcs) /\ Counted(ps, arcs)
        /\ AlikeBut(ps, p, fd)
    BY DEF Tables, Alike, AlikeBut
  <2>3. CASE filename = None
    BY <1>2, <2>1, <2>2, <2>3, BroadcastTables
  <2>4. CASE filename # None
    <3>1. filename \in Files \cup {Std}
      <4>1. ps[p].regs.file \in Files \cup {Std, None}
        BY <2>2 DEF TablesType, Process, Regs
      <4> QED
        BY <2>1, <2>4, <4>1
    <3>2. PICK n, qs : n = Unused(arcs) /\ qs = SetSlot(ps, {p}, fd, n)
      OBVIOUS
    <3>3. BroadcastOpen(qs, NewArc(arcs, filename), p, fd)
      BY <2>1, <2>4, <3>2, Zenon
    <3>4. TablesType(qs) /\ StringsType(NewArc(arcs, filename)) /\ Counted(qs, NewArc(arcs, filename))
      BY <1>2, <2>2, <3>1, <3>2, NewArcSound
    <3>5. n \in Nat
      BY <2>2, <3>2, UnusedIs DEF StringsType
    <3>6. PICK ts : ts = {p}
      OBVIOUS
    <3>7. Slotted(ps, ts, fd, n, qs)
      BY <1>2, <2>2, <3>2, <3>5, <3>6, SetSlotFds
    <3>8. AlikeBut(qs, p, fd) /\ p \in DOMAIN qs
      BY <2>2, <3>7 DEF AlikeBut, Slotted
    <3> QED
      BY <1>2, <3>3, <3>4, <3>8, BroadcastTables
  <2> QED
    BY <2>3, <2>4
<1> QED
  BY <1>1, <1>2

LEMMA CloseTables ==
  ASSUME NEW ps, Tables(ps, arcs), NEW p \in DOMAIN ps, SyscallClose(ps, p)
  PROVE  Tables(pids', arcs')
<1> DEFINE fd == ps[p].regs.r0
<1>1. CASE fd \notin Mon
  BY <1>1, Zenon DEF SyscallClose
<1>2. CASE fd \in Mon
  <2>1. PICK qs, out : qs = pids' /\ out = arcs'
    OBVIOUS
  <2>2. /\ qs = SetSlot(ps, DOMAIN ps, fd, NoArc)
        /\ out = Recount(arcs, ps, (DOMAIN ps) \X {fd}, ps, {})
    BY <1>2, <2>1, Zenon DEF SyscallClose
  <2> HIDE DEF fd
  <2>3. TablesType(ps) /\ StringsType(arcs) /\ Counted(ps, arcs) /\ Alike(ps)
    BY DEF Tables
  <2>4. TablesType(qs) /\ StringsType(out) /\ Counted(qs, out)
    BY <1>2, <2>2, <2>3, CloseSound
  <2>5. PICK all, n : all = DOMAIN ps /\ n = NoArc
    OBVIOUS
  <2>6. n \in Nat /\ qs = SetSlot(ps, all, fd, n)
    BY <2>2, <2>5 DEF NoArc
  <2>7. Slotted(ps, all, fd, n, qs)
    BY <1>2, <2>3, <2>6, SetSlotFds
  <2>8. AlikeBut(ps, p, fd) /\ \A q \in DOMAIN ps : q \in all \/ ps[q].fds[fd] = n
    BY <2>3, <2>5 DEF Alike, AlikeBut
  <2>9. Alike(qs)
    BY <2>7, <2>8, SlottedAlike
  <2> QED
    BY <2>1, <2>4, <2>9 DEF Tables
<1> QED
  BY <1>1, <1>2

LEMMA GoneTables ==
  ASSUME Tables(pids, arcs), HandleGone
  PROVE  Tables(pids', arcs')
<1>1. PICK p, qs, out : p = cur.pid /\ qs = pids' /\ out = arcs'
  OBVIOUS
<1>2. /\ qs = [q \in DOMAIN pids \ {p} |-> pids[q]]
      /\ p \in DOMAIN pids => out = FreeFds(arcs, pids, p)
      /\ p \notin DOMAIN pids => out = arcs
  BY <1>1 DEF HandleGone
<1>3. Alike(qs)
  BY <1>2 DEF Tables, Alike
<1>4. CASE p \in DOMAIN pids
  <2>1. TablesType(qs) /\ StringsType(out) /\ Counted(qs, out)
    BY <1>2, <1>4, FreeSound DEF Tables
  <2> QED
    BY <1>1, <1>3, <2>1 DEF Tables
<1>5. CASE p \notin DOMAIN pids
  <2>1. qs = pids
    BY <1>2, <1>5 DEF Tables, TablesType
  <2> QED
    BY <1>1, <1>2, <1>5, <2>1
<1> QED
  BY <1>4, <1>5

LEMMA CloneTables ==
  ASSUME Loop, Tables(pids, arcs), HandleClone
  PROVE  Tables(pids', arcs')
<1>1. CASE UNCHANGED <<pids, arcs>>
  BY <1>1
<1>2. CASE ~UNCHANGED <<pids, arcs>>
  <2>1. PICK q, parent, qs, out :
          q = task[cur.pid].call.child /\ parent = Parent(q) /\ qs = pids' /\ out = arcs'
    OBVIOUS
  <2>2. /\ q \notin DOMAIN pids \cup {NoPid} /\ parent \in DOMAIN pids
        /\ qs = [r \in DOMAIN pids \cup {q} |->
                  IF r = q THEN [syscall_num |-> "0", regs |-> NoRegs, fds |-> pids[parent].fds]
                  ELSE pids[r]]
        /\ out = CloneFds(arcs, qs, q)
    BY <1>2, <2>1, Zenon DEF HandleClone
  <2>3. cur.pid \in Pids
    BY HandledPid DEF HandleClone, Handling, None
  <2>4. q \in Pids \ DOMAIN pids
    BY <2>1, <2>2, <2>3, TaskFields DEF Call
  <2>5. TablesType(qs) /\ StringsType(out) /\ Counted(qs, out)
    BY <2>2, <2>4, CloneSound DEF Tables
  <2>6. Alike(qs)
    BY <2>2 DEF Tables, Alike
  <2> QED
    BY <2>1, <2>5, <2>6 DEF Tables
<1> QED
  BY <1>1, <1>2

LEMMA RegsType ==
  ASSUME Loop, NEW p \in Pids
  PROVE  RegsOf(task[p]) \in Regs /\ RegsOf(task[p]).nr = task[p].call.nr
<1>1. task[p].call \in Call /\ task[p].ret \in Results
  BY TaskFields
<1>2. task[p].call.fd \in Results
  BY <1>1, ConstantsIn DEF Call
<1> QED
  BY <1>1, <1>2 DEF RegsOf, Regs, Call

\* The table with one task's registers and call number changed.
Noted(ps, p, nr, regs) == [ps EXCEPT ![p].regs = regs, ![p].syscall_num = nr]

LEMMA NotedTables ==
  ASSUME NEW strs, Tables(pids, strs), NEW p \in DOMAIN pids, NEW nr \in Nrs, NEW regs \in Regs,
         NEW qs, qs = Noted(pids, p, nr, regs)
  PROVE  Tables(qs, strs) /\ DOMAIN qs = DOMAIN pids
         /\ qs[p].syscall_num = nr /\ qs[p].regs = regs /\ \A q \in DOMAIN pids \ {p} : qs[q] = pids[q]
<1>1. /\ pids \in [DOMAIN pids -> Process] /\ DOMAIN pids \subseteq Pids /\ pids[p] \in Process
  BY DEF Tables, TablesType
<1> DEFINE t == [pids[p] EXCEPT !.regs = regs, !.syscall_num = nr]
<1>2. t \in Process /\ t.syscall_num = nr /\ t.regs = regs /\ t.fds = pids[p].fds
  BY <1>1 DEF Process
<1>3. qs = [pids EXCEPT ![p] = t]
  BY <1>1 DEF Process, Noted
<1> HIDE DEF t
<1>4. /\ DOMAIN qs = DOMAIN pids /\ qs[p] = t /\ \A q \in DOMAIN pids \ {p} : qs[q] = pids[q]
      /\ qs \in [DOMAIN pids -> Process]
  BY <1>1, <1>2, <1>3
<1>5. TablesType(qs)
  BY <1>1, <1>4 DEF TablesType
<1>6. \A q \in DOMAIN pids : qs[q].fds = pids[q].fds
  BY <1>2, <1>4
<1>7. Tables(qs, strs)
  BY <1>4, <1>5, <1>6, SameSlots
<1> QED
  BY <1>2, <1>4, <1>7

LEMMA EnterTables ==
  ASSUME Loop, Tables(pids, arcs), NEW p \in Pids, HandleEnter(p)
  PROVE  Tables(pids', arcs')
<1>1. PICK nr, regs, qs : nr = RegsOf(task[p]).nr /\ regs = RegsOf(task[p]) /\ qs = pids'
  OBVIOUS
<1>2. nr \in Nrs /\ regs \in Regs
  BY <1>1, RegsType DEF Regs
<1>3. /\ p \in DOMAIN pids /\ arcs' = arcs
      /\ qs = Noted(pids, p, nr, regs)
  BY <1>1, Zenon DEF HandleEnter, Noted
<1>4. Tables(qs, arcs)
  BY <1>2, <1>3, NotedTables
<1> QED
  BY <1>1, <1>3, <1>4

LEMMA ExitTables ==
  ASSUME Loop, Tables(pids, arcs), NEW p \in Pids, HandleExit(p)
  PROVE  Tables(pids', arcs')
<1>1. PICK ps : ps = [pids EXCEPT ![p].syscall_num = "0"]
  OBVIOUS
<1>2. /\ p \in DOMAIN pids
      /\ \/ SyscallOpen(ps, p, RegsOf(task[p]).r0) \/ SyscallClose(ps, p)
         \/ (pids' = ps /\ arcs' = arcs)
  BY <1>1, Zenon DEF HandleExit, SyscallWrite
<1>3. Tables(ps, arcs) /\ p \in DOMAIN ps
  <2>1. pids[p] \in Process /\ pids \in [DOMAIN pids -> Process]
    BY <1>2 DEF Tables, TablesType
  <2>2. PICK nr, regs : nr = "0" /\ regs = pids[p].regs
    OBVIOUS
  <2>3. nr \in Nrs /\ regs \in Regs
    BY <2>1, <2>2 DEF Process, Nrs
  <2>4. ps = Noted(pids, p, nr, regs)
    BY <1>1, <1>2, <2>1, <2>2 DEF Process, Noted
  <2> QED
    BY <1>2, <2>3, <2>4, NotedTables
<1>4. CASE SyscallOpen(ps, p, RegsOf(task[p]).r0)
  BY <1>3, <1>4, OpenTables
<1>5. CASE SyscallClose(ps, p)
  BY <1>3, <1>5, CloseTables
<1>6. CASE pids' = ps /\ arcs' = arcs
  BY <1>3, <1>6, Zenon
<1> QED
  BY <1>2, <1>4, <1>5, <1>6

LEMMA TablesInit == Init => Tables(pids, arcs)
<1> SUFFICES ASSUME Init PROVE Tables(pids, arcs)
  OBVIOUS
<1> DEFINE fds == [fd \in Mon |-> IF fd = 0 THEN 1 ELSE NoArc]
           pr == [syscall_num |-> "0", regs |-> NoRegs, fds |-> fds]
<1>1. pids = [p \in {Root} |-> pr] /\ arcs = [n \in {1} |-> [str |-> Std, ref_cnt |-> 1]]
  BY DEF Init
<1>2. fds \in [Mon -> Nat]
  BY DEF NoArc
<1>3. "0" \in Nrs /\ NoRegs \in Regs
  BY DEF Nrs, Regs, NoRegs, Results
<1>4. 0 \in Mon /\ Root \in Pids
  BY TracerAssumption, TraceesAssumption DEF Mon
<1>5. \A s \in {Root} \X Mon : s = <<Root, 0>> \/ fds[s[2]] = NoArc
  OBVIOUS
<1>6. fds[0] = 1 /\ \A fd \in Mon : fds[fd] \in {1, NoArc}
  BY <1>4
<1> HIDE DEF fds
<1>7. pr \in Process /\ pr.fds = fds
  BY <1>2, <1>3 DEF Process
<1> HIDE DEF pr
<1>8. DOMAIN pids = {Root} /\ pids[Root] = pr
  BY <1>1
<1>9. TablesType(pids) /\ Alike(pids)
  BY <1>1, <1>4, <1>7, <1>8 DEF TablesType, Alike
<1>10. DOMAIN arcs = {1} /\ arcs[1].str = Std /\ arcs[1].ref_cnt = 1
       /\ arcs[1] \in [str : Files \cup {Std}, ref_cnt : Nat \ {0}]
  BY <1>1
<1>11. StringsType(arcs)
  <2>1. IsFiniteSet(DOMAIN arcs) /\ 1 \in Nat \ {NoArc}
    <3>1. IsFiniteSet({1})
      BY FS_Singleton
    <3> QED
      BY <1>10, <3>1 DEF NoArc
  <2> QED
    BY <1>10, <2>1 DEF StringsType
<1>12. SlotsOf(pids) = {Root} \X Mon
  BY <1>8 DEF SlotsOf
<1>13. \A s \in SlotsOf(pids) : Val(pids, s) = fds[s[2]] /\ Val(pids, s) \in {1, NoArc}
  <2> SUFFICES ASSUME NEW s \in SlotsOf(pids)
               PROVE  Val(pids, s) = fds[s[2]] /\ Val(pids, s) \in {1, NoArc}
    OBVIOUS
  <2>1. PICK fd \in Mon : s = <<Root, fd>>
    BY <1>12
  <2> QED
    BY <1>6, <1>7, <1>8, <2>1 DEF Val
<1>14. Refs(pids, SlotsOf(pids), 1) <= 1
  <2> DEFINE A == {s \in SlotsOf(pids) : Val(pids, s) = 1}
             B == {<<Root, 0>>}
  <2>1. A \subseteq B
    BY <1>5, <1>12, <1>13 DEF NoArc
  <2>2. Refs(pids, SlotsOf(pids), 1) = Cardinality(A)
    BY Zenon DEF Refs, Val
  <2>3. IsFiniteSet(B) /\ Cardinality(B) = 1
    BY FS_Singleton, Zenon
  <2> HIDE DEF A, B
  <2>4. Cardinality(A) <= 1
    BY <2>1, <2>3, FS_Subset
  <2> QED
    BY <2>2, <2>4
<1>15. Counted(pids, arcs)
  BY <1>10, <1>13, <1>14 DEF Counted
<1> QED
  BY <1>9, <1>11, <1>15 DEF Tables

LEMMA TablesStep ==
  ASSUME Loop, Tables(pids, arcs), [Next]_vars
  PROVE  Tables(pids', arcs')
<1>1. CASE UNCHANGED <<pids, arcs>>
  BY <1>1
<1>2. CASE HandleClone
  BY <1>2, CloneTables
<1>3. CASE HandleGone
  BY <1>3, GoneTables
<1>4. ASSUME NEW p \in Pids, HandleEnter(p) PROVE Tables(pids', arcs')
  BY <1>4, EnterTables
<1>5. ASSUME NEW p \in Pids, HandleExit(p) PROVE Tables(pids', arcs')
  BY <1>5, ExitTables
<1>6. ASSUME NEW p \in Pids, HandleUntracked(p) \/ HandleVanished(p) PROVE UNCHANGED <<pids, arcs>>
  BY <1>6, Zenon DEF HandleUntracked, HandleVanished
<1>7. CASE Untouched \/ Wait \/ NoChildren \/ HandleInit \/ UNCHANGED vars
  <2>1. UNCHANGED <<pids, arcs>>
    BY <1>7 DEF Untouched, Wait, NoChildren, HandleInit, vars, tracerVars
  <2> QED
    BY <1>1, <2>1
<1> QED
  BY <1>1, <1>2, <1>3, <1>4, <1>5, <1>6, <1>7 DEF Next, TracerStep

\* Whatever the tasks do and in whatever order they are reported, the tables are
\* sound: a string is freed only when no slot refers to it (delete_arc_str) and all
\* tracked tasks have the same slots (broadcast_fd_open, syscall_close).
THEOREM TablesHold == Spec => []TablesSound
<1> DEFINE IInv == Loop /\ Tables(pids, arcs)
<1>1. Init => IInv
  BY LoopInit, TablesInit
<1>2. IInv /\ [Next]_vars => IInv'
  <2> SUFFICES ASSUME Loop, Tables(pids, arcs), [Next]_vars PROVE Loop' /\ Tables(pids', arcs')
    OBVIOUS
  <2> QED
    BY LoopStep, TablesStep
<1>3. IInv => TablesSound
  <2> SUFFICES ASSUME Loop, Tables(pids, arcs) PROVE TablesSound
    OBVIOUS
  <2>1. TypeOK
    <3>1. ASSUME NEW p \in DOMAIN pids PROVE pids[p].fds \in [Mon -> Nat] /\ pids[p].regs.r0 \in Results
      BY DEF Tables, TablesType, Process, Regs
    <3>2. cur.stop \in {None, "syscall", "event", "init", "dead"} /\ loop \in {"on", "over"}
      BY DEF Loop, LoopType, NoStop
    <3>3. DOMAIN task = Pids /\ ncalls \in 0 .. MaxCalls
      BY DEF Loop, WorldType
    <3> QED
      BY <3>1, <3>2, <3>3 DEF TypeOK, Tables, TablesType, StringsType
  <2>2. RefCountsSound
    BY DEF RefCountsSound, Tables, Counted, Val
  <2>3. TablesAlike
    BY DEF TablesAlike, Tables, Alike
  <2> QED
    BY <2>1, <2>2, <2>3 DEF TablesSound
<1> QED
  BY <1>1, <1>2, <1>3, PTL DEF Spec

-----------------------------------------------------------------------------
(* What is true of the tasks alone, while they are traced. *)

InCall == {"enter", "call", "event", "return", "exit"}

Calling ==
  /\ \A p \in Pids : task[p].pos \in InCall => task[p].call.nr # "0"
  /\ \A p \in Pids : task[p].pos = "dead" => task[p].call = NoCall
  /\ \A p \in Pids : task[p].pos = "event" => task[p].call.child \in Pids

\* Identifiers are given out in order.
InOrder == \A p, q \in Pids : p < q /\ task[q].pos # None => task[p].pos # None

\* A new task has one creator, which is at its event until that is handled.
Children ==
  /\ \A p \in Pids : task[p].pos = "event" => task[task[p].call.child].pos # None
  /\ \A p, q \in Pids :
       /\ task[p].pos = "event" /\ task[q].pos = "event"
       /\ task[p].call.child = task[q].call.child
       => p = q

Threads ==
  "fork" \notin world => \A p \in Pids : task[p].pos # None =>
    task[p].tgid = Root /\ task[p].ppid = Me /\ task[p].call.nr # "fork"

Tasks == Calling /\ InOrder /\ Children /\ Threads

\* The handled task p goes on.
Going(p) ==
  /\ p \in Pids /\ cur.pid = p /\ cur' = NoStop
  /\ task' \in [Pids -> Task] /\ \A q \in Pids \ {p} : task'[q] = task[q]
  /\ task'[p].tgid = task[p].tgid /\ task'[p].ppid = task[p].ppid /\ task'[p].ret = task[p].ret
  /\ task[p].pos \notin Stopped => task'[p] = task[p]
  /\ task[p].pos \in {"init", "exit"} => task'[p].pos = "user" /\ task'[p].call = NoCall
  /\ task[p].pos = "enter" => task'[p].pos = "call" /\ task'[p].call = task[p].call
  /\ task[p].pos = "event" => task'[p].pos = "return" /\ task'[p].call = task[p].call
  /\ UNCHANGED <<world, fdtab, reports, ncalls, loop>>

LEMMA ContinueIs ==
  ASSUME Loop, cur.stop # None, Continue(cur.pid),
         UNCHANGED <<world, fdtab, reports, ncalls, loop>>
  PROVE  Going(cur.pid)
<1>1. PICK p \in Pids : p = cur.pid
  BY HandledPid
<1>2. task \in [Pids -> Task] /\ task[p] \in Task
  BY TaskFields
<1>3. /\ task'[p] = Resumed(task[p]) /\ \A q \in Pids \ {p} : task'[q] = task[q]
      /\ cur' = NoStop
  BY <1>1, <1>2 DEF Continue
<1>4. task' \in [Pids -> Task]
  <2>1. Resumed(task[p]) \in Task
    BY <1>2, ResumedIs
  <2> QED
    BY <1>1, <1>2, <2>1 DEF Continue
<1>5. /\ task'[p].tgid = task[p].tgid /\ task'[p].ppid = task[p].ppid /\ task'[p].ret = task[p].ret
      /\ task[p].pos \notin Stopped => task'[p] = task[p]
      /\ task[p].pos \in {"init", "exit"} => task'[p].pos = "user" /\ task'[p].call = NoCall
      /\ task[p].pos = "enter" => task'[p].pos = "call" /\ task'[p].call = task[p].call
      /\ task[p].pos = "event" => task'[p].pos = "return" /\ task'[p].call = task[p].call
  BY <1>2, <1>3, ResumedIs
<1> QED
  BY <1>1, <1>3, <1>4, <1>5 DEF Going

\* waitpid returns the report of p.
Waited(p) ==
  /\ p \in Waitable /\ p \in Pids /\ reports[p] # 0 /\ task[p].pos \in Stopped \cup {"dead"}
  /\ cur = NoStop /\ cur'.pid = p
  /\ cur'.stop = IF task[p].pos \in {"enter", "exit"} THEN "syscall" ELSE task[p].pos
  /\ reports' = Kept(Pids \ {p})
  /\ \A q \in Pids \ {p} : task'[q] = task[q]
  /\ task'[p].tgid = task[p].tgid /\ task'[p].ppid = task[p].ppid
  /\ task'[p].call = task[p].call /\ task'[p].ret = task[p].ret
  /\ task[p].pos = "dead" => task'[p].pos = "gone"
  /\ task[p].pos # "dead" => task'[p].pos = task[p].pos
  /\ UNCHANGED <<world, fdtab, ncalls, pids, arcs, loop, decoded>>

LEMMA WaitIs ==
  ASSUME Loop, Wait
  PROVE  \E p \in Pids : Waited(p)
<1>1. PICK p \in Waitable :
        /\ cur' = [pid |-> p, stop |-> IF task[p].pos \in {"enter", "exit"} THEN "syscall" ELSE task[p].pos]
        /\ reports' = Kept(Pids \ {p})
        /\ task' = IF task[p].pos = "dead" THEN [task EXCEPT ![p].pos = "gone"] ELSE task
  BY DEF Wait
<1>2. Looping /\ cur = NoStop /\ UNCHANGED <<world, fdtab, ncalls, pids, arcs, loop, decoded>>
  BY DEF Wait
<1>3. p \in Pids /\ reports[p] # 0 /\ task[p].pos \in Stopped \cup {"dead"}
  BY <1>2 DEF Waitable, Reported, Loop, Queued
<1>4. task \in [Pids -> Task] /\ task[p] \in Task
  BY <1>3, TaskFields
<1>5. \A q \in Pids \ {p} : task'[q] = task[q]
  BY <1>1, <1>4
<1>6. CASE task[p].pos = "dead"
  <2>1. task'[p] = [task[p] EXCEPT !.pos = "gone"]
    BY <1>1, <1>3, <1>4, <1>6
  <2>2. /\ task'[p].tgid = task[p].tgid /\ task'[p].ppid = task[p].ppid
        /\ task'[p].call = task[p].call /\ task'[p].ret = task[p].ret /\ task'[p].pos = "gone"
    BY <1>4, <2>1 DEF Task
  <2> QED
    BY <1>1, <1>2, <1>3, <1>5, <1>6, <2>2 DEF Waited
<1>7. CASE task[p].pos # "dead"
  <2>1. task' = task
    BY <1>1, <1>7
  <2> QED
    BY <1>1, <1>2, <1>3, <1>5, <1>7, <2>1 DEF Waited
<1> QED
  BY <1>6, <1>7

LEMMA StoppingTasks ==
  ASSUME Loop, Tasks, NEW p \in Pids, Stopping(p), world' = world
  PROVE  Tasks'
<1>1. /\ \A q \in Pids \ {p} : task'[q] = task[q]
      /\ task'[p].tgid = task[p].tgid /\ task'[p].ppid = task[p].ppid
      /\ task'[p].pos \in {"enter", "exit"} /\ task[p].pos \in {"user", "call", "return"}
      /\ task'[p].call.nr # "0"
      /\ "fork" \notin world => task'[p].call.nr # "fork"
  <2>1. CASE task'[p].call \in Calls(p) /\ task[p].pos = "user" /\ task'[p].pos = "enter"
    <3>1. task'[p].call.nr # "0" /\ ("fork" \notin world => task'[p].call.nr # "fork")
      BY <2>1 DEF Calls, Writing
    <3> QED
      BY <2>1, <3>1 DEF Stopping
  <2>2. CASE /\ task[p].pos \in {"call", "return"} /\ task'[p].pos = "exit"
             /\ task'[p].call.nr = task[p].call.nr
    BY <2>2 DEF Stopping, Tasks, Calling, InCall, Threads, None
  <2> QED
    BY <2>1, <2>2 DEF Stopping
<1>2. Calling'
  BY <1>1 DEF Tasks, Calling
<1>3. \A q \in Pids : task'[q].pos # None <=> task[q].pos # None
  BY <1>1 DEF None
<1>4. InOrder'
  BY <1>3 DEF Tasks, InOrder
<1>5. Children'
  <2>1. \A q \in Pids : task'[q].pos = "event" => q # p /\ task[q].pos = "event"
    BY <1>1
  <2>2. \A q \in Pids : task[q].pos = "event" => task[q].call.child \in Pids
    BY DEF Tasks, Calling
  <2> QED
    BY <1>1, <1>3, <2>1, <2>2 DEF Tasks, Children
<1>6. Threads'
  BY <1>1, <1>3 DEF Tasks, Threads
<1> QED
  BY <1>2, <1>4, <1>5, <1>6 DEF Tasks

LEMMA CreatedTasks ==
  ASSUME Loop, Tasks, NEW p \in Pids, NEW q \in Pids, Created(p, q), world' = world
  PROVE  Tasks' /\ p < q
<1>1. /\ q # p /\ task[q].pos = None /\ task[p].pos = "call"
      /\ \A r \in Pids : task[r].pos = None => q <= r
      /\ task'[p].pos = "event" /\ task'[p].call.child = q /\ task'[p].call.nr = task[p].call.nr
      /\ task'[p].tgid = task[p].tgid /\ task'[p].ppid = task[p].ppid
      /\ task'[q].pos = "init" /\ task'[q].call = NoCall
      /\ \A r \in Pids \ {p, q} : task'[r] = task[r]
  BY DEF Created
<1>2. Pids \subseteq Nat
  BY ConstantsIn
<1>3. p < q
  <2>1. p < q \/ q < p
    BY <1>1, <1>2
  <2> QED
    BY <1>1, <2>1 DEF Tasks, InOrder, None
<1>4. \A r \in Pids : task'[r].pos # None <=> task[r].pos # None \/ r = q
  BY <1>1 DEF None
<1>5. Calling'
  BY <1>1 DEF Tasks, Calling, InCall
<1>6. InOrder'
  <2> SUFFICES ASSUME NEW a \in Pids, NEW b \in Pids, a < b, task'[b].pos # None
               PROVE  task'[a].pos # None
    BY DEF InOrder
  <2>1. CASE task[b].pos # None
    BY <1>4, <2>1 DEF Tasks, InOrder
  <2>2. CASE b = q
    BY <1>1, <1>2, <1>4, <2>2
  <2> QED
    BY <1>4, <2>1, <2>2
<1>7. Children'
  <2>1. \A r \in Pids : task'[r].pos = "event" => r = p \/ (r # p /\ r # q /\ task[r].pos = "event" /\ task'[r] = task[r])
    BY <1>1
  <2>2. ASSUME NEW r \in Pids, task[r].pos = "event"
        PROVE  task[r].call.child \in Pids /\ task[r].call.child # q /\ task'[task[r].call.child].pos # None
    <3>1. task[r].call.child \in Pids /\ task[task[r].call.child].pos # None
      BY <2>2 DEF Tasks, Calling, Children
    <3> QED
      BY <1>1, <1>4, <3>1
  <2>3. ASSUME NEW r \in Pids, task'[r].pos = "event" PROVE task'[task'[r].call.child].pos # None
    BY <1>1, <1>4, <2>1, <2>2, <2>3
  <2>4. ASSUME NEW r \in Pids, NEW s \in Pids, task'[r].pos = "event", task'[s].pos = "event",
               task'[r].call.child = task'[s].call.child
        PROVE  r = s
    <3>1. CASE r = p /\ s = p
      BY <3>1
    <3>2. CASE r = p /\ s # p
      BY <1>1, <2>1, <2>2, <2>4, <3>2
    <3>3. CASE r # p /\ s = p
      BY <1>1, <2>1, <2>2, <2>4, <3>3
    <3>4. CASE r # p /\ s # p
      <4>1. task[r].pos = "event" /\ task[s].pos = "event" /\ task[r].call.child = task[s].call.child
        BY <2>1, <2>4, <3>4
      <4> QED
        BY <4>1 DEF Tasks, Children
    <3> QED
      BY <3>1, <3>2, <3>3, <3>4
  <2> QED
    BY <2>3, <2>4 DEF Children
<1>8. Threads'
  <2> SUFFICES ASSUME "fork" \notin world, NEW r \in Pids, task'[r].pos # None
               PROVE  task'[r].tgid = Root /\ task'[r].ppid = Me /\ task'[r].call.nr # "fork"
    BY DEF Threads
  <2>1. /\ task[p].tgid = Root /\ task[p].ppid = Me /\ task[p].call.nr # "fork"
        /\ task[r].pos # None => task[r].tgid = Root /\ task[r].ppid = Me /\ task[r].call.nr # "fork"
    BY <1>1 DEF Tasks, Threads, None
  <2>2. task'[q].tgid = task[p].tgid /\ task'[q].ppid = task[p].ppid
    BY <2>1 DEF Created
  <2>3. CASE r = q
    BY <1>1, <2>1, <2>2, <2>3 DEF NoCall
  <2>4. CASE r = p
    BY <1>1, <2>1, <2>4
  <2>5. CASE r # p /\ r # q
    BY <1>1, <2>1, <2>5
  <2> QED
    BY <2>3, <2>4, <2>5
<1> QED
  BY <1>3, <1>5, <1>6, <1>7, <1>8 DEF Tasks

\* Steps after which every task is where it was, has died, or has gone on.
LEMMA OtherTasks ==
  ASSUME Tasks, world' = world,
         \A p \in Pids : task'[p].pos # None <=> task[p].pos # None,
         \A p \in Pids : task'[p].pos = "dead" => task'[p].call = NoCall,
         \A p \in Pids : task'[p].pos \in InCall =>
           task[p].pos \in InCall /\ task'[p].call = task[p].call,
         \A p \in Pids : task'[p].pos = "event" => task[p].pos = "event",
         \A p \in Pids : task'[p].call = task[p].call \/ task'[p].call = NoCall,
         \A p \in Pids : task'[p].tgid = task[p].tgid,
         \A p \in Pids : task[p].ppid \notin Pids => task'[p].ppid = task[p].ppid
  PROVE  Tasks'
<1>1. Calling'
  BY DEF Tasks, Calling, InCall
<1>2. InOrder'
  BY DEF Tasks, InOrder
<1>3. Children'
  <2>1. \A p \in Pids : task'[p].pos = "event" =>
          /\ task[p].pos = "event" /\ task'[p].call.child = task[p].call.child
          /\ task[p].call.child \in Pids
    BY DEF Tasks, Calling, InCall
  <2> QED
    BY <2>1 DEF Tasks, Children
<1>4. Threads'
  <2>1. Me \notin Pids
    BY ConstantsIn DEF Me
  <2> QED
    BY <2>1 DEF Tasks, Threads, NoCall
<1> QED
  BY <1>1, <1>2, <1>3, <1>4 DEF Tasks

LEMMA DyingTasks ==
  ASSUME Loop, Tasks, NEW gone \in SUBSET Live, Dying(gone), world' = world
  PROVE  Tasks'
<1>1. \A p \in gone : task[p].pos \notin {None, "dead", "gone"} /\ p \in Pids
  BY DEF Live
<1>2. \A p \in Pids : /\ task'[p].pos # None <=> task[p].pos # None
                      /\ task'[p].pos = "dead" => task'[p].call = NoCall
                      /\ task'[p].call = task[p].call \/ task'[p].call = NoCall
  BY <1>1 DEF Dying, Tasks, Calling, None
<1>3. \A p \in Pids : task'[p].pos \in InCall =>
        task[p].pos \in InCall /\ task'[p].call = task[p].call /\ task'[p].pos = task[p].pos
  BY <1>1 DEF Dying, InCall
<1>4. \A p \in Pids : /\ task'[p].tgid = task[p].tgid
                      /\ task[p].ppid \notin Pids => task'[p].ppid = task[p].ppid
  BY DEF Dying
<1>5. \A p \in Pids : task'[p].pos = "event" => task[p].pos = "event"
  BY <1>3 DEF InCall
<1> QED
  BY <1>2, <1>3, <1>4, <1>5, OtherTasks

LEMMA WaitedTasks ==
  ASSUME Loop, Tasks, NEW p \in Pids, Waited(p)
  PROVE  Tasks'
<1>1. \A q \in Pids : /\ task'[q].pos = task[q].pos \/ (task[q].pos = "dead" /\ task'[q].pos = "gone")
                      /\ task'[q].call = task[q].call /\ task'[q].tgid = task[q].tgid
                      /\ task'[q].ppid = task[q].ppid
  BY DEF Waited
<1>2. world' = world
  BY DEF Waited
<1>3. \A q \in Pids : task'[q].pos = "dead" => task'[q].call = NoCall
  BY <1>1 DEF Tasks, Calling
<1>4. \A q \in Pids : /\ task'[q].pos # None <=> task[q].pos # None
                      /\ task'[q].pos \in InCall => task[q].pos \in InCall
                      /\ task'[q].pos = "event" => task[q].pos = "event"
  BY <1>1 DEF InCall, None
<1> QED
  BY <1>1, <1>2, <1>3, <1>4, OtherTasks

LEMMA GoingTasks ==
  ASSUME Loop, Tasks, NEW p \in Pids, Going(p)
  PROVE  Tasks'
<1>1. /\ world' = world /\ \A q \in Pids \ {p} : task'[q] = task[q]
      /\ task'[p].tgid = task[p].tgid /\ task'[p].ppid = task[p].ppid
  BY DEF Going
<1>2. /\ task'[p].pos # None <=> task[p].pos # None
      /\ task'[p].pos = "dead" => task'[p].call = NoCall
      /\ task'[p].pos \in InCall => task[p].pos \in InCall /\ task'[p].call = task[p].call
      /\ task'[p].pos = "event" => task[p].pos = "event"
      /\ task'[p].call = task[p].call \/ task'[p].call = NoCall
  <2>1. CASE task[p].pos \notin Stopped
    BY <2>1 DEF Going, Tasks, Calling
  <2>2. CASE task[p].pos \in Stopped
    BY <2>2 DEF Going, Stopped, InCall, None
  <2> QED
    BY <2>1, <2>2
<1>3. \A q \in Pids : task'[q].pos = "dead" => task'[q].call = NoCall
  BY <1>1, <1>2 DEF Tasks, Calling
<1> QED
  BY <1>1, <1>2, <1>3, OtherTasks

-----------------------------------------------------------------------------
(* What is true of the tasks and of what the tracer knows of them. *)

Hanging == \A p \in Live : task[p].pos \in Stopped => reports[p] # 0 \/ cur.pid = p

Existing == \A p \in DOMAIN pids : p \in Pids /\ task[p].pos # None

\* While its creator is at its event a new task is neither seen nor tracked, and its
\* creator will be seen first.
Unseen ==
  "early" \notin world => \A p \in Pids : task[p].pos = "event" =>
    LET q == task[p].call.child IN
    /\ task[q].pos \in {"init", "dead"} /\ q \notin DOMAIN pids /\ cur.pid # q
    /\ cur.pid = p \/ (reports[p] # 0 /\ (reports[q] # 0 => reports[p] < reports[q]))

Ended(p) == task[p].pos \in {None, "gone"}

\* The leader of the threads is the last one to go, and is tracked until then.
LeaderLast ==
  "fork" \notin world =>
    /\ task[Root].pos = "gone" => \A p \in Pids : Ended(p)
    /\ Root \in DOMAIN pids \/ \A p \in Pids : Ended(p)

Announced(p) == \E q \in Live : task[q].pos = "event" /\ task[q].call.child = p

Tracked == "fork" \notin world => \A p \in Live : p \in DOMAIN pids \/ Announced(p)

InStep ==
  "early" \notin world => \A p \in Live \cap DOMAIN pids :
    pids[p].syscall_num = IF task[p].pos \in {"call", "event", "return", "exit"}
                          THEN task[p].call.nr ELSE "0"

Follow == Hanging /\ Existing /\ Unseen /\ LeaderLast /\ Tracked /\ InStep

\* A task stops.
LEMMA StoppingFollow ==
  ASSUME Loop, Looping, Tasks, Follow, NEW p \in Pids, Stopping(p), UNCHANGED <<world, tracerVars>>
  PROVE  Follow'
<1>1. /\ task'[p].pos \in {"enter", "exit"} /\ task[p].pos \in {"user", "call", "return"}
      /\ \A q \in Pids \ {p} : task'[q] = task[q]
      /\ UNCHANGED <<world, cur, pids>>
  BY DEF Stopping, tracerVars
<1>2. /\ reports' \in [Pids -> Nat] /\ reports'[p] # 0
      /\ \A q \in Pids \ {p} : reports'[q] = 0 <=> reports[q] = 0
      /\ \A q, r \in Pids \ {p} : reports[q] < reports[r] => reports'[q] < reports'[r]
  <2>1. PICK S \in SUBSET Pids : S = {p}
    OBVIOUS
  <2>2. reports \in [Pids -> Nat] /\ reports' = Report(S)
    BY <2>1 DEF Loop, WorldType, Stopping
  <2>3. /\ Report(S) \in [Pids -> Nat] /\ \A q \in S : Report(S)[q] > 0
        /\ \A q \in Pids \ S : Report(S)[q] = 0 <=> reports[q] = 0
        /\ \A q, r \in Pids \ S : reports[q] < reports[r] => Report(S)[q] < Report(S)[r]
    BY <2>2, ReportIs
  <2> QED
    BY <2>1, <2>2, <2>3
<1>3. \A q \in Pids : /\ q \in Live' <=> q \in Live
                      /\ task'[q].pos # None <=> task[q].pos # None
                      /\ Ended(q)' <=> Ended(q)
  BY <1>1 DEF Live, None, Ended
<1>4. Hanging'
  BY <1>1, <1>2, <1>3 DEF Follow, Hanging, Live
<1>5. Existing'
  BY <1>1, <1>3 DEF Follow, Existing
<1>6. Unseen'
  <2> SUFFICES ASSUME "early" \notin world, NEW r \in Pids, task'[r].pos = "event", NEW q, q = task'[r].call.child
               PROVE  /\ task'[q].pos \in {"init", "dead"} /\ q \notin DOMAIN pids /\ cur.pid # q
                      /\ cur.pid = r \/ (reports'[r] # 0 /\ (reports'[q] # 0 => reports'[r] < reports'[q]))
    BY <1>1 DEF Unseen
  <2>1. r # p /\ task'[r] = task[r]
    BY <1>1
  <2>2. /\ q \in Pids /\ task[q].pos \in {"init", "dead"} /\ q \notin DOMAIN pids /\ cur.pid # q
        /\ cur.pid = r \/ (reports[r] # 0 /\ (reports[q] # 0 => reports[r] < reports[q]))
    BY <2>1 DEF Follow, Unseen, Tasks, Calling
  <2>3. q # p
    BY <1>1, <2>2
  <2> QED
    BY <1>1, <1>2, <2>1, <2>2, <2>3
<1>7. LeaderLast'
  <2>1. ~Ended(p) /\ task'[p].pos # "gone"
    BY <1>1 DEF Ended, None
  <2> QED
    BY <1>1, <1>3, <2>1, TraceesAssumption DEF Follow, LeaderLast
<1>8. Tracked'
  <2>1. \A q \in Pids : Announced(q) => Announced(q)'
    BY <1>1, <1>3 DEF Announced, Live
  <2> QED
    BY <1>1, <1>3, <2>1 DEF Follow, Tracked, Live
<1>9. InStep'
  <2> SUFFICES ASSUME "early" \notin world, NEW q \in Live \cap DOMAIN pids
               PROVE  pids[q].syscall_num = IF task'[q].pos \in {"call", "event", "return", "exit"}
                                            THEN task'[q].call.nr ELSE "0"
    BY <1>1, <1>3 DEF InStep, Live
  <2>1. pids[q].syscall_num = IF task[q].pos \in {"call", "event", "return", "exit"}
                              THEN task[q].call.nr ELSE "0"
    BY DEF Follow, InStep
  <2>2. CASE q = p
    BY <2>1, <2>2 DEF Stopping
  <2>3. CASE q # p
    BY <1>1, <2>1, <2>3 DEF Live
  <2> QED
    BY <2>2, <2>3
<1> QED
  BY <1>4, <1>5, <1>6, <1>7, <1>8, <1>9 DEF Follow

\* A task creates another.
LEMMA CreatedFollow ==
  ASSUME Loop, Looping, Tasks, Follow, NEW p \in Pids, NEW q \in Pids, Created(p, q),
         UNCHANGED <<world, tracerVars>>
  PROVE  Follow'
<1>1. /\ q # p /\ task[q].pos = None /\ task[p].pos = "call"
      /\ task'[p].pos = "event" /\ task'[p].call.child = q /\ task'[p].call.nr = task[p].call.nr
      /\ task'[q].pos = "init" /\ \A r \in Pids \ {p, q} : task'[r] = task[r]
      /\ UNCHANGED <<world, cur, pids>> /\ p < q
  BY CreatedTasks DEF Created, tracerVars
<1>2. /\ reports' \in [Pids -> Nat] /\ reports'[p] # 0 /\ reports'[q] # 0 /\ reports'[p] < reports'[q]
      /\ \A r \in Pids \ {p, q} : reports'[r] = 0 <=> reports[r] = 0
      /\ \A r, s \in Pids \ {p, q} : reports[r] < reports[s] => reports'[r] < reports'[s]
  <2>1. PICK S \in SUBSET Pids : S = {p, q}
    OBVIOUS
  <2>2. reports \in [Pids -> Nat] /\ reports' = Report(S)
    BY <2>1 DEF Loop, WorldType, Created
  <2>3. /\ Report(S) \in [Pids -> Nat] /\ \A r \in S : Report(S)[r] > 0
        /\ \A r \in Pids \ S : Report(S)[r] = 0 <=> reports[r] = 0
        /\ \A r, s \in Pids \ S : reports[r] < reports[s] => Report(S)[r] < Report(S)[s]
        /\ \A r, s \in S : r < s => Report(S)[r] < Report(S)[s]
    BY <2>2, ReportIs
  <2> QED
    BY <1>1, <2>1, <2>2, <2>3
<1>3. \A r \in Pids : /\ r \in Live' <=> r \in Live \/ r = q
                      /\ task'[r].pos # None <=> task[r].pos # None \/ r = q
  BY <1>1 DEF Live, None
<1>4. Hanging'
  <2> SUFFICES ASSUME NEW r \in Live', task'[r].pos \in Stopped PROVE reports'[r] # 0 \/ cur.pid = r
    BY <1>1 DEF Hanging
  <2>1. CASE r \in {p, q}
    BY <1>2, <2>1
  <2>2. CASE r \notin {p, q}
    BY <1>1, <1>2, <1>3, <2>2 DEF Follow, Hanging, Live
  <2> QED
    BY <2>1, <2>2
<1>5. Existing'
  BY <1>1, <1>3 DEF Follow, Existing
<1>6. Unseen'
  <2> SUFFICES ASSUME "early" \notin world, NEW r \in Pids, task'[r].pos = "event", NEW s, s = task'[r].call.child
               PROVE  /\ task'[s].pos \in {"init", "dead"} /\ s \notin DOMAIN pids /\ cur.pid # s
                      /\ cur.pid = r \/ (reports'[r] # 0 /\ (reports'[s] # 0 => reports'[r] < reports'[s]))
    BY <1>1 DEF Unseen
  <2>1. CASE r = p
    <3>1. s = q
      BY <1>1, <2>1
    <3>2. q \notin DOMAIN pids
      BY <1>1 DEF Follow, Existing
    <3>3. cur.pid # q
      BY <1>1, RunningNotHandled
    <3> QED
      BY <1>1, <1>2, <2>1, <3>1, <3>2, <3>3
  <2>2. CASE r # p
    <3>1. r # q /\ task'[r] = task[r]
      BY <1>1, <2>2
    <3>2. /\ s \in Pids /\ task[s].pos \in {"init", "dead"} /\ s \notin DOMAIN pids /\ cur.pid # s
          /\ cur.pid = r \/ (reports[r] # 0 /\ (reports[s] # 0 => reports[r] < reports[s]))
      BY <3>1 DEF Follow, Unseen, Tasks, Calling
    <3>3. s # p /\ s # q
      BY <1>1, <3>2 DEF None
    <3> QED
      BY <1>1, <1>2, <2>2, <3>1, <3>2, <3>3
  <2> QED
    BY <2>1, <2>2
<1>7. LeaderLast'
  <2>1. ~Ended(p) /\ task'[p].pos # "gone" /\ task'[q].pos # "gone"
    BY <1>1 DEF Ended, None
  <2>2. task'[Root].pos = "gone" => task[Root].pos = "gone"
    BY <1>1, <2>1, TraceesAssumption
  <2> QED
    BY <1>1, <2>1, <2>2 DEF Follow, LeaderLast
<1>8. Tracked'
  <2> SUFFICES ASSUME "fork" \notin world, NEW r \in Live' PROVE r \in DOMAIN pids \/ Announced(r)'
    BY <1>1 DEF Tracked
  <2>1. CASE r = q
    <3>1. p \in Live'
      BY <1>1, <1>3 DEF Live, None
    <3> QED
      BY <1>1, <2>1, <3>1 DEF Announced
  <2>2. CASE r # q
    <3>1. r \in DOMAIN pids \/ Announced(r)
      BY <1>3, <2>2 DEF Follow, Tracked, Live
    <3>2. ASSUME NEW s \in Live, task[s].pos = "event", task[s].call.child = r
          PROVE  s \in Live' /\ task'[s].pos = "event" /\ task'[s].call.child = r
      <4>1. s # p /\ s # q /\ s \in Pids
        BY <1>1, <3>2 DEF Live
      <4> QED
        BY <1>1, <1>3, <3>2, <4>1
    <3> QED
      BY <3>1, <3>2 DEF Announced
  <2> QED
    BY <2>1, <2>2
<1>9. InStep'
  <2> SUFFICES ASSUME "early" \notin world, NEW r \in Live' \cap DOMAIN pids
               PROVE  pids[r].syscall_num = IF task'[r].pos \in {"call", "event", "return", "exit"}
                                            THEN task'[r].call.nr ELSE "0"
    BY <1>1 DEF InStep
  <2>1. r # q /\ r \in Live
    BY <1>1, <1>3 DEF Follow, Existing, Live
  <2>2. pids[r].syscall_num = IF task[r].pos \in {"call", "event", "return", "exit"}
                              THEN task[r].call.nr ELSE "0"
    BY <2>1 DEF Follow, InStep
  <2>3. CASE r = p
    BY <1>1, <2>2, <2>3
  <2>4. CASE r # p
    BY <1>1, <2>1, <2>2, <2>4 DEF Live
  <2> QED
    BY <2>3, <2>4
<1> QED
  BY <1>4, <1>5, <1>6, <1>7, <1>8, <1>9 DEF Follow

\* Tasks die.
LEMMA DeathsFollow ==
  ASSUME Loop, Looping, Tasks, Follow, NEW gone \in SUBSET Live, Deaths(gone),
         UNCHANGED <<world, tracerVars>>
  PROVE  Follow'
<1>1. /\ \A r \in gone : r \in Pids /\ task[r].pos \notin {None, "dead", "gone"}
                         /\ task'[r].pos = "dead" /\ task'[r].call = NoCall
      /\ \A r \in Pids \ gone : task'[r].pos = task[r].pos /\ task'[r].call = task[r].call
      /\ UNCHANGED <<world, cur, pids>>
  BY DEF Deaths, Dying, Live, tracerVars
<1>2. /\ reports' \in [Pids -> Nat] /\ \A r \in gone : reports'[r] # 0
      /\ \A r \in Pids \ gone : reports'[r] = 0 <=> reports[r] = 0
      /\ \A r, s \in Pids \ gone : reports[r] < reports[s] => reports'[r] < reports'[s]
      /\ \A r \in Pids \ gone, s \in gone : reports'[r] < reports'[s]
  <2>1. gone \in SUBSET Pids
    BY DEF Live
  <2>2. reports \in [Pids -> Nat] /\ reports' = Report(gone)
    BY DEF Loop, WorldType, Deaths, Dying
  <2>3. /\ Report(gone) \in [Pids -> Nat] /\ \A r \in gone : Report(gone)[r] > 0
        /\ \A r \in Pids \ gone : Report(gone)[r] = 0 <=> reports[r] = 0
        /\ \A r, s \in Pids \ gone : reports[r] < reports[s] => Report(gone)[r] < Report(gone)[s]
        /\ \A r \in Pids \ gone, s \in gone : Report(gone)[r] < Report(gone)[s]
    BY <2>1, <2>2, ReportIs
  <2> QED
    BY <2>1, <2>2, <2>3
<1>3. \A r \in Pids : /\ r \in Live' <=> r \in Live /\ r \notin gone
                      /\ task'[r].pos # None <=> task[r].pos # None
                      /\ Ended(r)' <=> Ended(r)
  BY <1>1 DEF Live, None, Ended
<1>4. Hanging'
  BY <1>1, <1>2, <1>3 DEF Follow, Hanging, Live
<1>5. Existing'
  BY <1>1, <1>3 DEF Follow, Existing
<1>6. Unseen'
  <2> SUFFICES ASSUME "early" \notin world, NEW r \in Pids, task'[r].pos = "event", NEW q, q = task'[r].call.child
               PROVE  /\ task'[q].pos \in {"init", "dead"} /\ q \notin DOMAIN pids /\ cur.pid # q
                      /\ cur.pid = r \/ (reports'[r] # 0 /\ (reports'[q] # 0 => reports'[r] < reports'[q]))
    BY <1>1 DEF Unseen
  <2>1. r \notin gone /\ task[r].pos = "event" /\ q = task[r].call.child
    BY <1>1
  <2>2. /\ q \in Pids /\ task[q].pos \in {"init", "dead"} /\ q \notin DOMAIN pids /\ cur.pid # q
        /\ cur.pid = r \/ (reports[r] # 0 /\ (reports[q] # 0 => reports[r] < reports[q]))
    BY <2>1 DEF Follow, Unseen, Tasks, Calling
  <2>3. CASE q \in gone
    BY <1>1, <1>2, <2>1, <2>2, <2>3
  <2>4. CASE q \notin gone
    BY <1>1, <1>2, <2>1, <2>2, <2>4
  <2> QED
    BY <2>3, <2>4
<1>7. LeaderLast'
  <2>1. task'[Root].pos = "gone" => task[Root].pos = "gone"
    BY <1>1, TraceesAssumption
  <2> QED
    BY <1>1, <1>3, <2>1 DEF Follow, LeaderLast
<1>8. Tracked'
  <2> SUFFICES ASSUME "fork" \notin world, NEW r \in Live' PROVE r \in DOMAIN pids \/ Announced(r)'
    BY <1>1 DEF Tracked
  <2>1. r \in Live /\ r \notin gone
    BY <1>3 DEF Live
  <2>2. r \in DOMAIN pids \/ Announced(r)
    BY <2>1 DEF Follow, Tracked
  <2>3. ASSUME NEW s \in Live, task[s].pos = "event", task[s].call.child = r
        PROVE  s \in Live' /\ task'[s].pos = "event" /\ task'[s].call.child = r
    <3>1. s \notin gone
      <4>1. CASE \E u \in Live : gone = {u} /\ task[u].pos = "user"
        BY <2>3, <4>1
      <4>2. CASE \E g \in Pids : gone = {u \in Live : task[u].tgid = g}
        BY <2>1, <2>3, <4>2 DEF Tasks, Threads, Live
      <4> QED
        BY <4>1, <4>2 DEF Deaths
    <3> QED
      BY <1>1, <1>3, <2>3, <3>1 DEF Live
  <2> QED
    BY <2>2, <2>3 DEF Announced
<1>9. InStep'
  BY <1>1, <1>3 DEF Follow, InStep, Live
<1> QED
  BY <1>4, <1>5, <1>6, <1>7, <1>8, <1>9 DEF Follow

\* waitpid returns.  The event of a task is always returned before its child's stop.
LEMMA WaitedFollow ==
  ASSUME Loop, Looping, Tasks, Follow, NEW p \in Pids, Waited(p)
  PROVE  Follow'
<1>1. /\ \A q \in Pids \ {p} : task'[q] = task[q]
      /\ task'[p].tgid = task[p].tgid /\ task'[p].call = task[p].call
      /\ task[p].pos = "dead" => task'[p].pos = "gone"
      /\ task[p].pos # "dead" => task'[p].pos = task[p].pos
      /\ cur = NoStop /\ cur'.pid = p /\ reports[p] # 0 /\ task[p].pos \in Stopped \cup {"dead"}
      /\ UNCHANGED <<world, pids>>
  BY DEF Waited
<1>2. /\ reports \in [Pids -> Nat] /\ reports' \in [Pids -> Nat]
      /\ \A q \in Pids \ {p} : reports'[q] = 0 <=> reports[q] = 0
      /\ \A q, r \in Pids \ {p} : reports[q] < reports[r] => reports'[q] < reports'[r]
  <2>1. PICK S \in SUBSET Pids : S = Pids \ {p}
    OBVIOUS
  <2>2. reports \in [Pids -> Nat] /\ reports' = Kept(S)
    BY <2>1 DEF Loop, WorldType, Waited
  <2>3. /\ Kept(S) \in [Pids -> Nat]
        /\ \A q \in S : Kept(S)[q] = 0 <=> reports[q] = 0
        /\ \A q, r \in S : reports[q] < reports[r] => Kept(S)[q] < Kept(S)[r]
    BY <2>2, KeptIs
  <2> QED
    BY <2>1, <2>2, <2>3
<1>3. \A q \in Pids : /\ q \in Live' <=> q \in Live
                      /\ task'[q].pos # None <=> task[q].pos # None
  BY <1>1 DEF Live, None
<1>4. \A q \in Pids : cur.pid # q
  BY <1>1, ConstantsIn DEF NoStop
<1>5. \A q \in Live : task'[q].pos = task[q].pos /\ task'[q].call = task[q].call
  BY <1>1 DEF Live
<1>6. Hanging'
  BY <1>1, <1>2, <1>3, <1>4, <1>5 DEF Follow, Hanging, Live
<1>7. Existing'
  BY <1>1, <1>3 DEF Follow, Existing
<1>8. Unseen'
  <2> SUFFICES ASSUME "early" \notin world, NEW r \in Pids, task'[r].pos = "event", NEW q, q = task'[r].call.child
               PROVE  /\ task'[q].pos \in {"init", "dead"} /\ q \notin DOMAIN pids /\ p # q
                      /\ p = r \/ (reports'[r] # 0 /\ (reports'[q] # 0 => reports'[r] < reports'[q]))
    BY <1>1 DEF Unseen
  <2>1. r \in Live /\ task[r].pos = "event" /\ q = task[r].call.child
    BY <1>1 DEF Live, None
  <2>2. /\ q \in Pids /\ task[q].pos \in {"init", "dead"} /\ q \notin DOMAIN pids
        /\ reports[r] # 0 /\ (reports[q] # 0 => reports[r] < reports[q])
    BY <1>4, <2>1 DEF Follow, Unseen, Tasks, Calling
  <2>3. p # q
    <3> SUFFICES ASSUME p = q PROVE FALSE
      OBVIOUS
    <3>1. Early(p)
      BY <2>1 DEF Early
    <3>2. r \in Reported /\ Reportable(r)
      BY <2>1, <2>2 DEF Reported, Reportable, Live
    <3>3. reports[p] <= reports[r]
      BY <3>1, <3>2, Zenon DEF Waited, Waitable
    <3> QED
      BY <1>1, <1>2, <2>2, <3>3
  <2> QED
    BY <1>1, <1>2, <2>1, <2>2, <2>3
<1>9. LeaderLast'
  <2> SUFFICES ASSUME "fork" \notin world
               PROVE  /\ task'[Root].pos = "gone" => \A q \in Pids : Ended(q)'
                      /\ Root \in DOMAIN pids \/ \A q \in Pids : Ended(q)'
    BY <1>1 DEF LeaderLast
  <2>1. Root \in DOMAIN pids
    BY <1>1 DEF Follow, LeaderLast, Ended, Stopped, None
  <2>2. ASSUME task'[Root].pos = "gone", NEW q \in Pids PROVE Ended(q)'
    <3>1. CASE task[Root].pos = "gone"
      BY <1>1, <3>1 DEF Follow, LeaderLast, Ended, Stopped, None
    <3>2. CASE task[Root].pos # "gone"
      <4>1. p = Root /\ task[p].pos = "dead"
        BY <1>1, <2>2, <3>2, TraceesAssumption
      <4>2. task[p].tgid = p
        BY <4>1 DEF Tasks, Threads, None
      <4>3. \A r \in Pids \ {p} : task[r].tgid = p => task[r].pos = "gone"
        BY <4>1, <4>2 DEF Waited, Waitable, Reportable
      <4>4. q # p => task[q].pos \in {None, "gone"}
        BY <4>1, <4>3 DEF Tasks, Threads
      <4> QED
        BY <1>1, <2>2, <4>1, <4>4 DEF Ended
    <3> QED
      BY <3>1, <3>2
  <2> QED
    BY <2>1, <2>2
<1>10. Tracked'
  <2>1. \A q \in Pids : Announced(q) => Announced(q)'
    BY <1>3, <1>5 DEF Announced, Live
  <2> QED
    BY <1>1, <1>3, <2>1 DEF Follow, Tracked, Live
<1>11. InStep'
  BY <1>1, <1>3, <1>5 DEF Follow, InStep, Live
<1> QED
  BY <1>6, <1>7, <1>8, <1>9, <1>10, <1>11 DEF Follow

\* A handler lets the task p go on and adds to the table at most the one that p has
\* created.
LEMMA GoingFollow ==
  ASSUME Loop, Looping, Tasks, Follow, NEW p \in Pids, Going(p), NEW more \in SUBSET Pids,
         DOMAIN pids' = DOMAIN pids \cup more,
         \A q \in more : task[p].pos = "event" /\ q = task[p].call.child,
         task[p].pos = "event" => ("fork" \notin world => task[p].call.child \in DOMAIN pids \cup more
                                                          \/ task[p].call.child \notin Live),
         InStep'
  PROVE  Follow'
<1>1. /\ \A q \in Pids \ {p} : task'[q] = task[q]
      /\ task[p].pos \notin Stopped => task'[p] = task[p]
      /\ task[p].pos \in Stopped => task[p].pos \notin {None, "dead", "gone"}
                                    /\ task'[p].pos \in {"user", "call", "return"}
      /\ cur.pid = p /\ cur' = NoStop /\ UNCHANGED <<world, reports>>
  BY DEF Going, Stopped, None
<1>2. \A q \in Pids : /\ q \in Live' <=> q \in Live
                      /\ task'[q].pos # None <=> task[q].pos # None
                      /\ Ended(q)' <=> Ended(q)
                      /\ task'[q].pos \in Stopped => task[q].pos \in Stopped /\ q # p
                      /\ task'[q].pos = "event" => task[q].pos = "event" /\ q # p
  BY <1>1 DEF Live, None, Ended, Stopped
<1>3. \A q \in Pids : cur'.pid # q
  BY <1>1, ConstantsIn DEF NoStop
<1>4. Hanging'
  BY <1>1, <1>2 DEF Follow, Hanging, Live
<1>5. Existing'
  <2>1. \A q \in more : q \in Pids /\ task[q].pos # None
    BY DEF Tasks, Children
  <2> QED
    BY <1>2, <2>1 DEF Follow, Existing
<1>6. Unseen'
  <2> SUFFICES ASSUME "early" \notin world, NEW r \in Pids, task'[r].pos = "event", NEW q, q = task'[r].call.child
               PROVE  /\ task'[q].pos \in {"init", "dead"} /\ q \notin DOMAIN pids' /\ cur'.pid # q
                      /\ reports[r] # 0 /\ (reports[q] # 0 => reports[r] < reports[q])
    BY <1>1 DEF Unseen
  <2>1. r # p /\ task[r].pos = "event" /\ q = task[r].call.child
    BY <1>1, <1>2
  <2>2. /\ q \in Pids /\ task[q].pos \in {"init", "dead"} /\ q \notin DOMAIN pids /\ p # q
        /\ reports[r] # 0 /\ (reports[q] # 0 => reports[r] < reports[q])
    BY <1>1, <2>1 DEF Follow, Unseen, Tasks, Calling
  <2>3. q \notin more
    BY <2>1 DEF Tasks, Children
  <2> QED
    BY <1>1, <1>3, <2>1, <2>2, <2>3
<1>7. LeaderLast'
  <2>1. task'[Root].pos = "gone" => task[Root].pos = "gone"
    BY <1>1, TraceesAssumption
  <2> QED
    BY <1>1, <1>2, <2>1 DEF Follow, LeaderLast
<1>8. Tracked'
  <2> SUFFICES ASSUME "fork" \notin world, NEW r \in Live' PROVE r \in DOMAIN pids' \/ Announced(r)'
    BY <1>1 DEF Tracked
  <2>1. r \in Live
    BY <1>2 DEF Live
  <2>2. r \in DOMAIN pids \/ Announced(r)
    BY <2>1 DEF Follow, Tracked
  <2>3. ASSUME NEW s \in Live, task[s].pos = "event", task[s].call.child = r
        PROVE  r \in DOMAIN pids' \/ Announced(r)'
    <3>1. CASE s = p
      BY <2>1, <2>3, <3>1
    <3>2. CASE s # p
      <4>1. s \in Live' /\ task'[s].pos = "event" /\ task'[s].call.child = r
        BY <1>1, <1>2, <2>3, <3>2 DEF Live
      <4> QED
        BY <4>1 DEF Announced
    <3> QED
      BY <3>1, <3>2
  <2> QED
    BY <2>2, <2>3 DEF Announced
<1> QED
  BY <1>4, <1>5, <1>6, <1>7, <1>8 DEF Follow

\* InStep for the tasks that a handler leaves alone.
LEMMA OthersInStep ==
  ASSUME Follow, NEW p \in Pids, Going(p), "early" \notin world, NEW q \in Live' \cap DOMAIN pids, q # p,
         pids'[q].syscall_num = pids[q].syscall_num
  PROVE  pids'[q].syscall_num = IF task'[q].pos \in {"call", "event", "return", "exit"}
                                THEN task'[q].call.nr ELSE "0"
<1>1. task'[q] = task[q] /\ q \in Live
  BY DEF Going, Live
<1>2. pids[q].syscall_num = IF task[q].pos \in {"call", "event", "return", "exit"}
                            THEN task[q].call.nr ELSE "0"
  BY <1>1 DEF Follow, InStep
<1> QED
  BY <1>1, <1>2

LEMMA CloneFollow ==
  ASSUME Loop, Looping, Tasks, Follow, HandleClone
  PROVE  Follow'
<1>1. PICK p \in Pids : p = cur.pid
  BY HandledPid DEF HandleClone, Handling, None
<1>2. Going(p) /\ UNCHANGED world
  BY <1>1, ContinueIs DEF HandleClone, Handling, None, Going
<1>3. task[p].pos \in {"event", "dead"}
  BY <1>1 DEF Loop, HandledAt, HandleClone, Handling
<1>4. PICK q : q = task[p].call.child
  OBVIOUS
<1>5. \/ UNCHANGED pids /\ ~(q \notin DOMAIN pids \cup {NoPid} /\ Parent(q) \in DOMAIN pids)
      \/ /\ q \notin DOMAIN pids \cup {NoPid} /\ Parent(q) \in DOMAIN pids
         /\ pids' = [r \in DOMAIN pids \cup {q} |->
                      IF r = q THEN [syscall_num |-> "0", regs |-> NoRegs, fds |-> pids[Parent(q)].fds]
                      ELSE pids[r]]
  BY <1>1, <1>4, Zenon DEF HandleClone
<1>6. CASE task[p].pos = "dead"
  <2>1. q = NoPid
    BY <1>4, <1>6 DEF Tasks, Calling, NoCall
  <2>2. UNCHANGED pids
    BY <1>5, <2>1
  <2>3. task'[p] = task[p]
    BY <1>2, <1>6 DEF Going, Stopped
  <2>4. InStep'
    <3> SUFFICES ASSUME "early" \notin world, NEW r \in Live' \cap DOMAIN pids
                 PROVE  pids[r].syscall_num = IF task'[r].pos \in {"call", "event", "return", "exit"}
                                              THEN task'[r].call.nr ELSE "0"
      BY <1>2, <2>2 DEF InStep
    <3>1. r # p
      BY <1>6, <2>3 DEF Live
    <3> QED
      BY <1>2, <2>2, <3>1, OthersInStep
  <2>5. {} \in SUBSET Pids /\ DOMAIN pids' = DOMAIN pids \cup {}
    BY <2>2
  <2> QED
    BY <1>2, <1>6, <2>4, <2>5, GoingFollow
<1>7. CASE task[p].pos = "event"
  <2>1. q \in Pids /\ q # NoPid /\ task[q].pos # None
    BY <1>4, <1>7, ConstantsIn DEF Tasks, Calling, Children
  <2>2. /\ task'[p].pos = "return" /\ task'[p].call = task[p].call
        /\ \A r \in Pids \ {p} : task'[r] = task[r]
    BY <1>2, <1>7 DEF Going
  <2>3. "fork" \notin world /\ q \notin DOMAIN pids => q \notin Live \/ Parent(q) \in DOMAIN pids
    <3> SUFFICES ASSUME "fork" \notin world, q \in Live PROVE Parent(q) \in DOMAIN pids
      OBVIOUS
    <3>1. task[q].ppid = Me /\ task[q].pos # "gone"
      BY <2>1 DEF Tasks, Threads, Live
    <3>2. Parent(q) = Root
      BY <3>1 DEF Parent
    <3>3. ~Ended(q)
      BY <2>1, <3>1 DEF Ended
    <3> QED
      BY <2>1, <3>2, <3>3 DEF Follow, LeaderLast
  <2>4. CASE UNCHANGED pids /\ ~(q \notin DOMAIN pids \cup {NoPid} /\ Parent(q) \in DOMAIN pids)
    <3>1. InStep'
      <4> SUFFICES ASSUME "early" \notin world, NEW r \in Live' \cap DOMAIN pids
                   PROVE  pids'[r].syscall_num = IF task'[r].pos \in {"call", "event", "return", "exit"}
                                                 THEN task'[r].call.nr ELSE "0"
        BY <1>2, <2>4 DEF InStep
      <4>1. CASE r = p
        <5>1. p \in Live
          BY <1>7 DEF Live, None
        <5> QED
          BY <1>7, <2>2, <2>4, <4>1, <5>1 DEF Follow, InStep
      <4>2. CASE r # p
        BY <1>2, <2>4, <4>2, OthersInStep
      <4> QED
        BY <4>1, <4>2
    <3>2. {} \in SUBSET Pids /\ DOMAIN pids' = DOMAIN pids \cup {}
      BY <2>4
    <3>3. "fork" \notin world => q \in DOMAIN pids \/ q \notin Live
      BY <2>1, <2>3, <2>4
    <3> QED
      BY <1>2, <1>4, <3>1, <3>2, <3>3, GoingFollow
  <2>5. CASE /\ q \notin DOMAIN pids \cup {NoPid} /\ Parent(q) \in DOMAIN pids
             /\ pids' = [r \in DOMAIN pids \cup {q} |->
                          IF r = q THEN [syscall_num |-> "0", regs |-> NoRegs, fds |-> pids[Parent(q)].fds]
                          ELSE pids[r]]
    <3>1. /\ DOMAIN pids' = DOMAIN pids \cup {q} /\ pids'[q].syscall_num = "0"
          /\ \A r \in DOMAIN pids : pids'[r] = pids[r]
      BY <2>5
    <3>2. InStep'
      <4> SUFFICES ASSUME "early" \notin world, NEW r \in Live' \cap DOMAIN pids'
                   PROVE  pids'[r].syscall_num = IF task'[r].pos \in {"call", "event", "return", "exit"}
                                                 THEN task'[r].call.nr ELSE "0"
        BY <1>2 DEF InStep, Going
      <4>1. CASE r = p /\ r \in DOMAIN pids
        <5>1. p \in Live
          BY <1>7 DEF Live, None
        <5> QED
          BY <1>7, <2>2, <3>1, <4>1, <5>1 DEF Follow, InStep
      <4>2. CASE r # p /\ r \in DOMAIN pids
        BY <1>2, <3>1, <4>2, OthersInStep
      <4>3. CASE r = q
        <5>1. task[q].pos \in {"init", "dead"}
          BY <1>4, <1>7 DEF Follow, Unseen
        <5>2. q # p
          BY <1>7, <5>1
        <5> QED
          BY <2>1, <2>2, <3>1, <4>3, <5>1, <5>2
      <4> QED
        BY <3>1, <4>1, <4>2, <4>3
    <3>3. PICK more \in SUBSET Pids : more = {q}
      BY <2>1
    <3> QED
      BY <1>2, <1>4, <1>7, <3>1, <3>2, <3>3, GoingFollow
  <2> QED
    BY <1>5, <2>4, <2>5
<1> QED
  BY <1>3, <1>6, <1>7

\* A handler lets the task p go on that has not created another; the calls of the
\* other tasks are noted as they were.
LEMMA KeptFollow ==
  ASSUME Loop, Looping, Tasks, Follow, NEW p \in Pids, Going(p), task[p].pos # "event",
         DOMAIN pids' = DOMAIN pids,
         \A q \in DOMAIN pids \ {p} : pids'[q].syscall_num = pids[q].syscall_num,
         "early" \notin world /\ p \in Live' \cap DOMAIN pids =>
           pids'[p].syscall_num = IF task'[p].pos \in {"call", "event", "return", "exit"}
                                  THEN task'[p].call.nr ELSE "0"
  PROVE  Follow'
<1>1. InStep'
  <2> SUFFICES ASSUME "early" \notin world, NEW r \in Live' \cap DOMAIN pids
               PROVE  pids'[r].syscall_num = IF task'[r].pos \in {"call", "event", "return", "exit"}
                                             THEN task'[r].call.nr ELSE "0"
    BY DEF InStep, Going
  <2>1. CASE r = p
    BY <2>1
  <2>2. CASE r # p
    BY <2>2, OthersInStep
  <2> QED
    BY <2>1, <2>2
<1>2. {} \in SUBSET Pids /\ DOMAIN pids' = DOMAIN pids \cup {}
  OBVIOUS
<1> QED
  BY <1>1, <1>2, GoingFollow

LEMMA StillFollow ==
  ASSUME Loop, Looping, Tasks, Follow, NEW p \in Pids, Going(p), task[p].pos # "event", UNCHANGED pids,
         p \in DOMAIN pids => task[p].pos \in {"init", "dead"}
  PROVE  Follow'
<1>1. ASSUME "early" \notin world, p \in Live' \cap DOMAIN pids
      PROVE  pids[p].syscall_num = IF task'[p].pos \in {"call", "event", "return", "exit"}
                                   THEN task'[p].call.nr ELSE "0"
  <2>1. CASE task[p].pos = "init"
    <3>1. p \in Live /\ task'[p].pos = "user"
      BY <2>1 DEF Live, Going, None
    <3> QED
      BY <1>1, <2>1, <3>1 DEF Follow, InStep
  <2>2. CASE task[p].pos = "dead"
    BY <1>1, <2>2 DEF Live, Going, Stopped
  <2> QED
    BY <1>1, <2>1, <2>2
<1> QED
  BY <1>1, KeptFollow

\* What a system call's handler does to the table leaves the calls noted.
SameCalls(ps, qs) ==
  DOMAIN qs = DOMAIN ps /\ \A q \in DOMAIN ps : qs[q].syscall_num = ps[q].syscall_num /\ qs[q].regs = ps[q].regs

LEMMA SetSlotCalls ==
  ASSUME NEW ps, TablesType(ps), NEW ts, NEW fd \in Mon, NEW n, n \in Nat,
         NEW qs, qs = SetSlot(ps, ts, fd, n)
  PROVE  SameCalls(ps, qs)
<1>1. DOMAIN qs = DOMAIN ps
  BY DEF SetSlot
<1>2. ASSUME NEW q \in DOMAIN ps
      PROVE  qs[q].syscall_num = ps[q].syscall_num /\ qs[q].regs = ps[q].regs
  <2>1. /\ q \in ts => qs[q] = [ps[q] EXCEPT !.fds[fd] = n]
        /\ q \notin ts => qs[q] = ps[q]
    BY DEF SetSlot
  <2>2. ps[q] \in Process
    BY DEF TablesType
  <2> QED
    BY <2>1, <2>2 DEF Process
<1> QED
  BY <1>1, <1>2 DEF SameCalls

LEMMA BroadcastCalls ==
  ASSUME NEW ps, TablesType(ps), NEW strs, NEW p \in DOMAIN ps, NEW fd \in Mon,
         BroadcastOpen(ps, strs, p, fd)
  PROVE  SameCalls(ps, pids')
<1>1. PICK ts, n : ts = DOMAIN ps \ {p} /\ n = ps[p].fds[fd]
  OBVIOUS
<1>2. pids' = SetSlot(ps, ts, fd, n)
  BY <1>1, Zenon DEF BroadcastOpen
<1>3. n \in Nat
  BY <1>1, SlotValue
<1> QED
  BY <1>2, <1>3, SetSlotCalls

LEMMA OpenCalls ==
  ASSUME NEW ps, TablesType(ps), StringsType(arcs), NEW p \in DOMAIN ps, NEW fd, SyscallOpen(ps, p, fd)
  PROVE  SameCalls(ps, pids')
<1>1. CASE fd \notin Mon
  <2>1. pids' = ps
    BY <1>1, Zenon DEF SyscallOpen
  <2> QED
    BY <2>1 DEF SameCalls
<1>2. CASE fd \in Mon
  <2>1. PICK filename :
          IF filename = None THEN BroadcastOpen(ps, arcs, p, fd)
          ELSE BroadcastOpen(SetSlot(ps, {p}, fd, Unused(arcs)), NewArc(arcs, filename), p, fd)
    BY <1>2, Zenon DEF SyscallOpen
  <2>2. CASE filename = None
    BY <1>2, <2>1, <2>2, BroadcastCalls
  <2>3. CASE filename # None
    <3>1. PICK n, qs : n = Unused(arcs) /\ qs = SetSlot(ps, {p}, fd, n)
      OBVIOUS
    <3>2. BroadcastOpen(qs, NewArc(arcs, filename), p, fd)
      BY <2>1, <2>3, <3>1, Zenon
    <3>3. n \in Nat
      BY <3>1, UnusedIs DEF StringsType
    <3>4. TablesType(qs) /\ SameCalls(ps, qs) /\ DOMAIN qs = DOMAIN ps
      BY <1>2, <3>1, <3>3, SetSlotTables, SetSlotCalls
    <3>5. SameCalls(qs, pids')
      BY <1>2, <3>2, <3>4, BroadcastCalls
    <3> QED
      BY <3>4, <3>5 DEF SameCalls
  <2> QED
    BY <2>2, <2>3
<1> QED
  BY <1>1, <1>2

LEMMA CloseCalls ==
  ASSUME NEW ps, TablesType(ps), NEW p \in DOMAIN ps, SyscallClose(ps, p)
  PROVE  SameCalls(ps, pids')
<1>1. PICK fd, ts : fd = ps[p].regs.r0 /\ ts = DOMAIN ps
  OBVIOUS
<1>2. CASE fd \notin Mon
  <2>1. pids' = ps
    BY <1>1, <1>2, Zenon DEF SyscallClose
  <2> QED
    BY <2>1 DEF SameCalls
<1>3. CASE fd \in Mon
  <2>1. pids' = SetSlot(ps, ts, fd, NoArc)
    BY <1>1, <1>3, Zenon DEF SyscallClose
  <2>2. NoArc \in Nat
    BY DEF NoArc
  <2> QED
    BY <1>3, <2>1, <2>2, SetSlotCalls
<1> QED
  BY <1>2, <1>3

LEMMA EnterFollow ==
  ASSUME Loop, Looping, Tasks, Follow, Tables(pids, arcs), NEW p \in Pids, HandleEnter(p)
  PROVE  Follow'
<1>1. cur.pid = p /\ cur.stop = "syscall" /\ Going(p)
  <2>1. /\ cur.pid = p /\ cur.stop = "syscall" /\ Continue(p)
        /\ UNCHANGED <<world, fdtab, reports, ncalls, loop>>
    BY Zenon DEF HandleEnter, AtSyscall, Handling
  <2>2. cur.stop # None /\ Continue(cur.pid)
    BY <2>1 DEF None
  <2> QED
    BY <2>1, <2>2, ContinueIs
<1>2. task[p].pos \in {"enter", "exit"} /\ p \in DOMAIN pids /\ pids[p].syscall_num = "0"
  BY <1>1, Zenon DEF HandleEnter, Loop, HandledAt
<1>3. PICK nr, regs, qs : nr = RegsOf(task[p]).nr /\ regs = RegsOf(task[p]) /\ qs = pids'
  OBVIOUS
<1>4. nr \in Nrs /\ regs \in Regs /\ nr = task[p].call.nr
  BY <1>3, RegsType DEF Regs
<1>5. qs = Noted(pids, p, nr, regs)
  BY <1>3, Zenon DEF HandleEnter, Noted
<1>6. /\ DOMAIN qs = DOMAIN pids /\ qs[p].syscall_num = nr
      /\ \A q \in DOMAIN pids \ {p} : qs[q] = pids[q]
  BY <1>2, <1>4, <1>5, NotedTables
<1>7. ASSUME "early" \notin world
      PROVE  pids'[p].syscall_num = IF task'[p].pos \in {"call", "event", "return", "exit"}
                                    THEN task'[p].call.nr ELSE "0"
  <2>1. p \in Live \cap DOMAIN pids
    BY <1>2 DEF Live, None
  <2>2. task[p].pos = "enter"
    BY <1>2, <1>7, <2>1 DEF Follow, InStep, Tasks, Calling, InCall
  <2> QED
    BY <1>1, <1>3, <1>4, <1>6, <2>2 DEF Going
<1> QED
  BY <1>1, <1>2, <1>3, <1>6, <1>7, KeptFollow

LEMMA ExitFollow ==
  ASSUME Loop, Looping, Tasks, Follow, Tables(pids, arcs), NEW p \in Pids, HandleExit(p)
  PROVE  Follow'
<1>1. cur.pid = p /\ cur.stop = "syscall" /\ Going(p)
  <2>1. /\ cur.pid = p /\ cur.stop = "syscall" /\ Continue(p)
        /\ UNCHANGED <<world, fdtab, reports, ncalls, loop>>
    BY Zenon DEF HandleExit, AtSyscall, Handling
  <2>2. cur.stop # None /\ Continue(cur.pid)
    BY <2>1 DEF None
  <2> QED
    BY <2>1, <2>2, ContinueIs
<1>2. task[p].pos \in {"enter", "exit"} /\ p \in DOMAIN pids /\ pids[p].syscall_num # "0"
  BY <1>1, Zenon DEF HandleExit, Loop, HandledAt
<1>3. PICK ps, nr, regs : ps = [pids EXCEPT ![p].syscall_num = "0"] /\ nr = "0" /\ regs = pids[p].regs
  OBVIOUS
<1>4. SyscallOpen(ps, p, RegsOf(task[p]).r0) \/ SyscallClose(ps, p) \/ pids' = ps
  BY <1>3, Zenon DEF HandleExit, SyscallWrite
<1>5. /\ Tables(ps, arcs) /\ DOMAIN ps = DOMAIN pids /\ ps[p].syscall_num = "0"
      /\ \A q \in DOMAIN pids \ {p} : ps[q] = pids[q]
  <2>1. pids[p] \in Process /\ pids \in [DOMAIN pids -> Process]
    BY <1>2 DEF Tables, TablesType
  <2>2. nr \in Nrs /\ regs \in Regs
    BY <1>3, <2>1 DEF Process, Nrs
  <2>3. ps = Noted(pids, p, nr, regs)
    BY <1>2, <1>3, <2>1 DEF Process, Noted
  <2>4. /\ Tables(ps, arcs) /\ DOMAIN ps = DOMAIN pids /\ ps[p].syscall_num = nr
        /\ \A q \in DOMAIN pids \ {p} : ps[q] = pids[q]
    BY <1>2, <2>2, <2>3, NotedTables
  <2> QED
    BY <1>3, <2>4
<1>6. SameCalls(ps, pids')
  <2>1. TablesType(ps) /\ StringsType(arcs) /\ p \in DOMAIN ps
    BY <1>2, <1>5 DEF Tables
  <2>2. CASE SyscallOpen(ps, p, RegsOf(task[p]).r0)
    BY <2>1, <2>2, OpenCalls
  <2>3. CASE SyscallClose(ps, p)
    BY <2>1, <2>3, CloseCalls
  <2>4. CASE pids' = ps
    BY <2>4 DEF SameCalls
  <2> QED
    BY <1>4, <2>2, <2>3, <2>4
<1>7. /\ DOMAIN pids' = DOMAIN pids /\ pids'[p].syscall_num = "0"
      /\ \A q \in DOMAIN pids \ {p} : pids'[q].syscall_num = pids[q].syscall_num
  BY <1>2, <1>5, <1>6 DEF SameCalls
<1>8. ASSUME "early" \notin world
      PROVE  task'[p].pos = "user"
  <2>1. p \in Live \cap DOMAIN pids
    BY <1>2 DEF Live, None
  <2>2. task[p].pos = "exit"
    BY <1>2, <1>8, <2>1 DEF Follow, InStep
  <2> QED
    BY <1>1, <2>2 DEF Going
<1> QED
  BY <1>1, <1>2, <1>7, <1>8, KeptFollow

\* A task that has gone is no longer tracked.
LEMMA GoneFollow ==
  ASSUME Loop, Looping, Tasks, Follow, HandleGone
  PROVE  Looping' => Follow'
<1> SUFFICES ASSUME Looping' PROVE Follow'
  OBVIOUS
<1>1. PICK p \in Pids : p = cur.pid
  BY HandledPid DEF HandleGone, Handling, None
<1>2. task[p].pos = "gone"
  BY <1>1 DEF Loop, HandledAt, HandleGone, Handling
<1>3. /\ UNCHANGED <<world, task, reports>> /\ cur' = NoStop
      /\ DOMAIN pids \ {p} # {} /\ pids' = [q \in DOMAIN pids \ {p} |-> pids[q]]
  <2>1. pids' = [q \in DOMAIN pids \ {p} |-> pids[q]] /\ UNCHANGED <<world, reports>>
    BY <1>1, Zenon DEF HandleGone, Handling
  <2>2. ~LeaveAll
    BY DEF LeaveAll, Looping
  <2>3. DOMAIN pids \ {p} # {} /\ UNCHANGED task /\ cur' = NoStop
    BY <1>1, <2>2, Zenon DEF HandleGone
  <2> QED
    BY <2>1, <2>3
<1>4. DOMAIN pids' = DOMAIN pids \ {p} /\ \A q \in DOMAIN pids \ {p} : pids'[q] = pids[q]
  BY <1>3
<1>5. p \notin Live /\ Live' = Live
  BY <1>2, <1>3 DEF Live
<1>6. \A q \in Pids : cur'.pid # q
  BY <1>3, ConstantsIn DEF NoStop
<1>7. Hanging'
  BY <1>1, <1>3, <1>5 DEF Follow, Hanging
<1>8. Existing'
  BY <1>3, <1>4 DEF Follow, Existing
<1>9. Unseen'
  <2> SUFFICES ASSUME "early" \notin world, NEW r \in Pids, task[r].pos = "event", NEW q, q = task[r].call.child
               PROVE  /\ task[q].pos \in {"init", "dead"} /\ q \notin DOMAIN pids' /\ cur'.pid # q
                      /\ reports[r] # 0 /\ (reports[q] # 0 => reports[r] < reports[q])
    BY <1>3 DEF Unseen
  <2>1. r # p /\ q \in Pids
    BY <1>2 DEF Tasks, Calling
  <2> QED
    BY <1>1, <1>4, <1>6, <2>1 DEF Follow, Unseen
<1>10. LeaderLast'
  <2>1. Root = p => \A q \in Pids : "fork" \notin world => Ended(q)
    BY <1>2 DEF Follow, LeaderLast
  <2>2. \A q \in Pids : Ended(q)' <=> Ended(q)
    BY <1>3 DEF Ended
  <2> QED
    BY <1>3, <1>4, <2>1, <2>2 DEF Follow, LeaderLast
<1>11. Tracked'
  <2>1. \A q \in Pids : Announced(q)' <=> Announced(q)
    BY <1>3, <1>5 DEF Announced
  <2> QED
    BY <1>3, <1>4, <1>5, <2>1 DEF Follow, Tracked, Live
<1>12. InStep'
  BY <1>3, <1>4, <1>5 DEF Follow, InStep
<1> QED
  BY <1>7, <1>8, <1>9, <1>10, <1>11, <1>12 DEF Follow

LEMMA FollowInit == Init => Tasks /\ Follow
<1> SUFFICES ASSUME Init PROVE Tasks /\ Follow
  OBVIOUS
<1>1. PICK pos \in {"user", "gone"} :
        task = [p \in Pids |-> IF p = Root
                  THEN [Unborn EXCEPT !.pos = pos, !.tgid = Root, !.ppid = Me] ELSE Unborn]
  BY DEF Init, WorldInit
<1>2. \A p \in Pids : /\ p = Root => task[p].pos = pos /\ task[p].tgid = Root /\ task[p].ppid = Me
                      /\ p # Root => task[p].pos = None
                      /\ task[p].call = NoCall
  BY <1>1 DEF Unborn
<1>3. \A p \in Pids : Root <= p /\ p \in Nat /\ Root \in Pids
  BY TraceesAssumption
<1>4. DOMAIN pids = {Root} /\ pids[Root].syscall_num = "0"
  BY DEF Init
<1>5. \A p \in Pids : task[p].pos \notin Stopped \cup {"dead", "call", "return"}
  BY <1>2 DEF Stopped, None
<1>6. Tasks
  <2>1. Calling /\ Children
    BY <1>5 DEF Calling, Children, Stopped, InCall
  <2>2. InOrder
    BY <1>2, <1>3 DEF InOrder
  <2>3. Threads
    BY <1>2 DEF Threads, NoCall
  <2> QED
    BY <2>1, <2>2, <2>3 DEF Tasks
<1>7. Follow
  <2>1. Hanging /\ Unseen
    BY <1>5 DEF Hanging, Unseen, Live, Stopped
  <2>2. Existing
    <3>1. pos # None /\ Root \in Pids
      BY TraceesAssumption DEF None
    <3> QED
      BY <1>2, <1>4, <3>1 DEF Existing
  <2>3. LeaderLast /\ Tracked
    BY <1>2, <1>3, <1>4 DEF LeaderLast, Tracked, Live, Ended
  <2>4. InStep
    BY <1>4, <1>5 DEF InStep, Live, Stopped
  <2> QED
    BY <2>1, <2>2, <2>3, <2>4 DEF Follow
<1> QED
  BY <1>6, <1>7

LEMMA UntouchedFollow ==
  ASSUME Loop, Tasks, Follow, Untouched
  PROVE  Tasks' /\ Follow'
<1>1. Looping /\ WorldStep /\ UNCHANGED <<world, tracerVars>>
  BY DEF Untouched, WorldStep
<1>2. UNCHANGED <<world, pids, cur>>
  BY <1>1 DEF tracerVars
<1>3. ASSUME NEW p \in Pids, Stopping(p) PROVE Tasks' /\ Follow'
  BY <1>1, <1>2, <1>3, StoppingTasks, StoppingFollow
<1>4. ASSUME NEW p \in Pids, NEW q \in Pids, Created(p, q) PROVE Tasks' /\ Follow'
  BY <1>1, <1>2, <1>4, CreatedTasks, CreatedFollow
<1>5. ASSUME NEW gone \in SUBSET Live, Deaths(gone) PROVE Tasks' /\ Follow'
  <2>1. Dying(gone)
    BY <1>5 DEF Deaths
  <2> QED
    BY <1>1, <1>2, <1>5, <2>1, DyingTasks, DeathsFollow
<1> QED
  BY <1>1, <1>3, <1>4, <1>5, WorldCases

LEMMA HandledFollow ==
  ASSUME Loop, Looping, Tasks, Follow, Tables(pids, arcs), NEW p \in Pids,
         HandleUntracked(p) \/ HandleEnter(p) \/ HandleExit(p)
  PROVE  Tasks' /\ Follow'
<1>1. /\ cur.pid = p /\ cur.stop = "syscall" /\ Continue(p)
      /\ UNCHANGED <<world, fdtab, reports, ncalls, loop>>
  BY Zenon DEF HandleUntracked, HandleEnter, HandleExit, AtSyscall, Handling
<1>2. Going(p)
  <2>1. cur.stop # None /\ Continue(cur.pid)
    BY <1>1 DEF None
  <2> QED
    BY <1>1, <2>1, ContinueIs
<1>3. Tasks'
  BY <1>2, GoingTasks
<1>4. CASE HandleUntracked(p)
  <2>1. task[p].pos # "event" /\ p \notin DOMAIN pids /\ UNCHANGED pids
    BY <1>1, <1>4 DEF Loop, HandledAt, HandleUntracked
  <2> QED
    BY <1>2, <1>3, <2>1, StillFollow
<1>5. CASE HandleEnter(p)
  BY <1>3, <1>5, EnterFollow
<1>6. CASE HandleExit(p)
  BY <1>3, <1>6, ExitFollow
<1> QED
  BY <1>4, <1>5, <1>6

LEMMA FollowStep ==
  ASSUME Loop, Tables(pids, arcs), Looping => Tasks /\ Follow, [Next]_vars
  PROVE  Looping' => Tasks' /\ Follow'
<1>1. CASE UNCHANGED vars
  BY <1>1 DEF Looping, Tasks, Calling, InOrder, Children, Threads, Follow, Hanging, Existing, Unseen,
              LeaderLast, Ended, Tracked, Announced, InStep, Live, vars, worldVars, tracerVars
<1>2. CASE Untouched
  <2>1. Looping
    BY <1>2 DEF Untouched
  <2> QED
    BY <1>2, <2>1, UntouchedFollow
<1>3. CASE Wait
  <2>1. Looping
    BY <1>3 DEF Wait
  <2>2. PICK p \in Pids : Waited(p)
    BY <1>3, WaitIs
  <2> QED
    BY <2>1, <2>2, WaitedTasks, WaitedFollow
<1>4. CASE NoChildren
  BY <1>4 DEF NoChildren, Looping
<1>5. CASE HandleClone \/ HandleInit
  <2>1. /\ Looping /\ cur.stop \in {"event", "init"} /\ Continue(cur.pid)
        /\ UNCHANGED <<world, fdtab, reports, ncalls, loop>>
    BY <1>5 DEF HandleClone, HandleInit, Handling
  <2>2. cur.stop # None /\ cur.pid \in Pids
    BY <2>1, HandledPid DEF None
  <2>3. PICK p \in Pids : p = cur.pid /\ Going(p)
    BY <2>1, <2>2, ContinueIs
  <2>4. Tasks'
    BY <2>1, <2>3, GoingTasks
  <2>5. CASE HandleClone
    BY <2>1, <2>4, <2>5, CloneFollow
  <2>6. CASE HandleInit
    <3>1. task[p].pos \in {"init", "dead"} /\ UNCHANGED pids
      BY <2>3, <2>6 DEF Loop, HandledAt, HandleInit, Handling
    <3> QED
      BY <2>1, <2>3, <2>4, <3>1, StillFollow
  <2> QED
    BY <1>5, <2>5, <2>6
<1>6. CASE HandleGone
  <2>1. Looping
    BY <1>6 DEF HandleGone, Handling
  <2>2. Looping' => UNCHANGED <<world, task>>
    BY <1>6 DEF HandleGone, Handling, LeaveAll, Looping
  <2>3. UNCHANGED <<world, task>> => Tasks'
    BY <2>1 DEF Tasks, Calling, InOrder, Children, Threads
  <2> QED
    BY <1>6, <2>1, <2>2, <2>3, GoneFollow
<1>7. ASSUME NEW p \in Pids, HandleUntracked(p) \/ HandleEnter(p) \/ HandleExit(p)
      PROVE  Tasks' /\ Follow'
  <2>1. Looping
    BY <1>7, Zenon DEF HandleUntracked, HandleEnter, HandleExit, AtSyscall, Handling
  <2> QED
    BY <1>7, <2>1, HandledFollow
<1>8. ASSUME NEW p \in Pids, HandleVanished(p) PROVE ~Looping'
  BY <1>8 DEF HandleVanished, LeaveAll, Looping
<1> QED
  BY <1>1, <1>2, <1>3, <1>4, <1>5, <1>6, <1>7, <1>8 DEF Next, TracerStep

\* No task is left hanging, all threads are tracked and their system calls are
\* entered and left in step, whatever the tasks do and in whatever order they are
\* reported.
THEOREM FollowedHolds == Spec => []Followed
<1> DEFINE IInv == Loop /\ Tables(pids, arcs) /\ (Looping => Tasks /\ Follow)
<1>1. Init => IInv
  BY LoopInit, TablesInit, FollowInit
<1>2. IInv /\ [Next]_vars => IInv'
  <2> SUFFICES ASSUME Loop, Tables(pids, arcs), Looping => Tasks /\ Follow, [Next]_vars
               PROVE  Loop' /\ Tables(pids', arcs') /\ (Looping' => Tasks' /\ Follow')
    OBVIOUS
  <2> QED
    BY LoopStep, TablesStep, FollowStep
<1>3. IInv => Followed
  <2> SUFFICES ASSUME Loop, Tables(pids, arcs), Looping => Tasks /\ Follow PROVE Followed
    OBVIOUS
  <2>1. NoneHangs
    BY DEF NoneHangs, Follow, Hanging, Reported, Live
  <2>2. AllFollowed
    BY DEF AllFollowed, EachTracked, Follow, Tracked, Announced
  <2>3. Parity
    BY DEF Parity, Follow, InStep
  <2> QED
    BY <2>1, <2>2, <2>3 DEF Followed
<1> QED
  BY <1>1, <1>2, <1>3, PTL DEF Spec

-----------------------------------------------------------------------------
(* What the tracer will believe of one descriptor.  The tasks in S have changed *)
(* it and those in W have written to it, and all wait to be handled, in the     *)
(* order of rep; aft is what the changes have made of it, now the files that    *)
(* were written to, seen what the tracer shows and file what it is.             *)

Believed(S, rep, aft, seen, file) ==
  /\ S = {} => seen = file
  /\ \A p \in S : (\A q \in S : rep[q] <= rep[p]) => aft[p] = file

Sees(S, W, rep, aft, now, seen, file) ==
  /\ Believed(S, rep, aft, seen, file)
  /\ \A w \in W : Believed({p \in S : rep[p] < rep[w]}, rep, aft, seen, now[w])

SameOrder(T, a, b) == \A p, q \in T : a[p] < a[q] <=> b[p] < b[q]

LEMMA BelievedSame ==
  ASSUME NEW S \in SUBSET Pids, NEW a \in [Pids -> Nat], NEW b \in [Pids -> Nat], SameOrder(S, a, b),
         NEW aft, NEW bft, \A p \in S : bft[p] = aft[p], NEW seen, NEW file,
         Believed(S, a, aft, seen, file)
  PROVE  Believed(S, b, bft, seen, file)
<1>1. ASSUME NEW p \in S, \A q \in S : b[q] <= b[p] PROVE bft[p] = file
  <2>1. \A q \in S : a[q] <= a[p]
    <3> SUFFICES ASSUME NEW q \in S, ~(a[q] <= a[p]) PROVE FALSE
      OBVIOUS
    <3>1. a[p] < a[q]
      OBVIOUS
    <3>2. b[p] < b[q]
      BY <3>1 DEF SameOrder
    <3>3. b[q] <= b[p]
      BY <1>1
    <3> QED
      BY <3>2, <3>3
  <2> QED
    BY <2>1 DEF Believed
<1> QED
  BY <1>1 DEF Believed

\* Nothing happens to the descriptor, or a write to it is handled.
LEMMA SeesSame ==
  ASSUME NEW S \in SUBSET Pids, NEW W \in SUBSET Pids, NEW V \in SUBSET W,
         NEW a \in [Pids -> Nat], NEW b \in [Pids -> Nat], SameOrder(S \cup W, a, b),
         NEW aft, NEW bft, \A p \in S : bft[p] = aft[p],
         NEW now, NEW won, \A w \in V : won[w] = now[w], NEW seen, NEW file,
         Sees(S, W, a, aft, now, seen, file)
  PROVE  Sees(S, V, b, bft, won, seen, file)
<1>1. Believed(S, b, bft, seen, file)
  <2>1. SameOrder(S, a, b)
    BY DEF SameOrder
  <2> QED
    BY <2>1, BelievedSame DEF Sees
<1>2. ASSUME NEW w \in V PROVE Believed({p \in S : b[p] < b[w]}, b, bft, seen, won[w])
  <2> DEFINE A == {p \in S : a[p] < a[w]}
  <2>1. A = {p \in S : b[p] < b[w]}
    BY DEF SameOrder
  <2>2. Believed(A, a, aft, seen, won[w])
    BY DEF Sees
  <2>3. A \in SUBSET Pids /\ SameOrder(A, a, b) /\ \A p \in A : bft[p] = aft[p]
    BY DEF SameOrder
  <2> HIDE DEF A
  <2>4. Believed(A, b, bft, seen, won[w])
    BY <2>2, <2>3, BelievedSame
  <2> QED
    BY <2>1, <2>4
<1> QED
  BY <1>1, <1>2 DEF Sees

\* The task p changes it, after all that is still to be handled.
LEMMA SeesMore ==
  ASSUME NEW S \in SUBSET Pids, NEW W \in SUBSET Pids, NEW p \in Pids, p \notin S \cup W,
         NEW a \in [Pids -> Nat], NEW b \in [Pids -> Nat], SameOrder(S \cup W, a, b),
         \A q \in S \cup W : b[q] < b[p],
         NEW aft, NEW bft, \A q \in S : bft[q] = aft[q],
         NEW now, NEW won, \A w \in W : won[w] = now[w], NEW seen, NEW file, NEW elif,
         bft[p] = elif, Sees(S, W, a, aft, now, seen, file)
  PROVE  Sees(S \cup {p}, W, b, bft, won, seen, elif)
<1>1. Sees(S, W, b, bft, won, seen, file)
  BY SeesSame
<1>2. Believed(S \cup {p}, b, bft, seen, elif)
  <2>1. ASSUME NEW q \in S \cup {p}, \A r \in S \cup {p} : b[r] <= b[q] PROVE q = p
    <3> SUFFICES ASSUME q # p PROVE FALSE
      OBVIOUS
    <3>1. b[p] <= b[q] /\ b[q] < b[p] /\ b[p] \in Nat /\ b[q] \in Nat
      BY <2>1
    <3> QED
      BY <3>1
  <2> QED
    BY <2>1 DEF Believed
<1>3. ASSUME NEW w \in W PROVE Believed({q \in S \cup {p} : b[q] < b[w]}, b, bft, seen, won[w])
  <2>1. b[w] < b[p] /\ b[w] \in Nat /\ b[p] \in Nat
    OBVIOUS
  <2>2. {q \in S \cup {p} : b[q] < b[w]} = {q \in S : b[q] < b[w]}
    BY <2>1
  <2>3. Believed({q \in S : b[q] < b[w]}, b, bft, seen, won[w])
    BY <1>1 DEF Sees
  <2> QED
    BY <2>2, <2>3
<1> QED
  BY <1>2, <1>3 DEF Sees

\* The task p writes to it, after all that is still to be handled.
LEMMA SeesWritten ==
  ASSUME NEW S \in SUBSET Pids, NEW W \in SUBSET Pids, NEW p \in Pids, p \notin S \cup W,
         NEW a \in [Pids -> Nat], NEW b \in [Pids -> Nat], SameOrder(S \cup W, a, b),
         \A q \in S \cup W : b[q] < b[p],
         NEW aft, NEW bft, \A q \in S : bft[q] = aft[q],
         NEW now, NEW won, \A w \in W : won[w] = now[w], NEW seen, NEW file,
         won[p] = file, Sees(S, W, a, aft, now, seen, file)
  PROVE  Sees(S, W \cup {p}, b, bft, won, seen, file)
<1>1. Sees(S, W, b, bft, won, seen, file)
  BY SeesSame
<1>2. {q \in S : b[q] < b[p]} = S
  OBVIOUS
<1>3. Believed({q \in S : b[q] < b[p]}, b, bft, seen, won[p])
  BY <1>1, <1>2 DEF Sees
<1> QED
  BY <1>1, <1>3 DEF Sees

\* The change that p has made, the first one, is handled.
LEMMA SeesLess ==
  ASSUME NEW S \in SUBSET Pids, NEW W \in SUBSET Pids, NEW p \in S, p \notin W,
         NEW a \in [Pids -> Nat], a[p] = 0, \A q \in (S \cup W) \ {p} : a[q] > 0,
         NEW aft, NEW bft, \A q \in S \ {p} : bft[q] = aft[q],
         NEW now, NEW won, \A w \in W : won[w] = now[w], NEW seen, NEW nees, nees = aft[p], NEW file,
         Sees(S, W, a, aft, now, seen, file)
  PROVE  Sees(S \ {p}, W, a, bft, won, nees, file)
<1>1. ASSUME NEW T \in SUBSET S, p \in T, NEW f, Believed(T, a, aft, seen, f)
      PROVE  Believed(T \ {p}, a, bft, nees, f)
  <2>1. CASE T \ {p} = {}
    <3>1. \A q \in T : a[q] <= a[p]
      BY <2>1
    <3> QED
      BY <1>1, <2>1, <3>1 DEF Believed
  <2>2. CASE T \ {p} # {}
    <3>1. ASSUME NEW q \in T \ {p}, \A r \in T \ {p} : a[r] <= a[q] PROVE bft[q] = f
      <4>1. \A r \in T : a[r] <= a[q]
        BY <3>1
      <4> QED
        BY <1>1, <4>1 DEF Believed
    <3> QED
      BY <2>2, <3>1 DEF Believed
  <2> QED
    BY <2>1, <2>2
<1>2. Believed(S \ {p}, a, bft, nees, file)
  BY <1>1 DEF Sees
<1>3. ASSUME NEW w \in W PROVE Believed({q \in S \ {p} : a[q] < a[w]}, a, bft, nees, won[w])
  <2> DEFINE T == {q \in S : a[q] < a[w]}
  <2>1. Believed(T, a, aft, seen, won[w]) /\ p \in T /\ T \in SUBSET S
    BY DEF Sees
  <2>2. T \ {p} = {q \in S \ {p} : a[q] < a[w]}
    OBVIOUS
  <2> HIDE DEF T
  <2>3. Believed(T \ {p}, a, bft, nees, won[w])
    BY <1>1, <2>1
  <2> QED
    BY <2>2, <2>3
<1> QED
  BY <1>2, <1>3 DEF Sees

-----------------------------------------------------------------------------
(* The names that the slots show. *)

Name(strs, n) == IF n = NoArc THEN None ELSE strs[n].str

\* The strings of out are strings of strs.
Named(strs, out) == \A n \in DOMAIN out : n \in DOMAIN strs /\ out[n].str = strs[n].str

LEMMA RecountNamed ==
  ASSUME NEW strs, StringsType(strs), NEW ps, NEW old, NEW qs, NEW new
  PROVE  Named(strs, Recount(strs, ps, old, qs, new))
<1> DEFINE out == Recount(strs, ps, old, qs, new)
           Cnt(n) == Count(strs, ps, old, qs, new, n)
<1>1. /\ DOMAIN out = {n \in DOMAIN strs : Cnt(n) # 0}
      /\ \A n \in DOMAIN out : out[n] = [strs[n] EXCEPT !.ref_cnt = Cnt(n)]
  BY DEF Recount
<1> HIDE DEF out, Cnt
<1>2. \A n \in DOMAIN strs : strs[n] \in [str : Files \cup {Std}, ref_cnt : Nat \ {0}]
  BY DEF StringsType
<1>3. Named(strs, out)
  BY <1>1, <1>2 DEF Named
<1> QED
  BY <1>3 DEF out

LEMMA SameName ==
  ASSUME NEW strs, NEW out, Named(strs, out), NEW n \in DOMAIN out \cup {NoArc}
  PROVE  Name(out, n) = Name(strs, n)
BY DEF Name, Named

LEMMA SlotString ==
  ASSUME NEW ps, NEW strs, TablesType(ps), Counted(ps, strs), NEW r \in DOMAIN ps, NEW f \in Mon
  PROVE  ps[r].fds[f] \in DOMAIN strs \cup {NoArc}
<1>1. <<r, f>> \in SlotsOf(ps) /\ Val(ps, <<r, f>>) = ps[r].fds[f]
  BY SlotValue
<1> QED
  BY <1>1, Zenon DEF Counted

\* The slots of the task r show the same names, but for fd, which shows file.
Reshown(ps, strs, qs, out, r, fd, file) ==
  \A f \in Mon : Name(out, qs[r].fds[f]) = IF f = fd THEN file ELSE Name(strs, ps[r].fds[f])

LEMMA BroadcastShown ==
  ASSUME NEW ps, TablesType(ps), NEW strs, StringsType(strs), Counted(ps, strs),
         NEW p \in DOMAIN ps, NEW r \in DOMAIN ps, NEW fd \in Mon, AlikeBut(ps, p, fd),
         BroadcastOpen(ps, strs, p, fd)
  PROVE  Reshown(ps, strs, pids', arcs', r, fd, Name(strs, ps[p].fds[fd]))
<1>1. PICK peers, n, qs, out : peers = DOMAIN ps \ {p} /\ n = ps[p].fds[fd] /\ qs = pids' /\ out = arcs'
  OBVIOUS
<1>2. qs = SetSlot(ps, peers, fd, n) /\ out = Recount(strs, ps, peers \X {fd}, qs, peers \X {fd})
  BY <1>1, Zenon DEF BroadcastOpen
<1>3. n \in Nat
  BY <1>1, SlotValue
<1>4. Slotted(ps, peers, fd, n, qs)
  BY <1>2, <1>3, SetSlotFds
<1>5. Named(strs, out)
  BY <1>2, RecountNamed
<1>6. Tables(qs, out)
  BY <1>1, BroadcastTables
<1>7. ASSUME NEW f \in Mon
      PROVE  /\ qs[r].fds[f] \in DOMAIN out \cup {NoArc}
             /\ qs[r].fds[f] = IF f = fd THEN n ELSE ps[r].fds[f]
  <2>1. r \in DOMAIN qs
    BY <1>4 DEF Slotted
  <2>2. qs[r].fds[f] \in DOMAIN out \cup {NoArc}
    BY <1>6, <2>1, SlotString DEF Tables
  <2>3. qs[r].fds[f] = IF f = fd THEN n ELSE ps[r].fds[f]
    BY <1>1, <1>4 DEF Slotted
  <2> QED
    BY <2>2, <2>3
<1>8. ASSUME NEW f \in Mon PROVE Name(out, qs[r].fds[f]) = Name(strs, qs[r].fds[f])
  BY <1>5, <1>7, SameName
<1>9. \A f \in Mon : Name(out, qs[r].fds[f]) = IF f = fd THEN Name(strs, n) ELSE Name(strs, ps[r].fds[f])
  BY <1>7, <1>8
<1> QED
  BY <1>1, <1>9 DEF Reshown

\* syscall_open shows the name that was noted at the enter of the call.
LEMMA OpenShown ==
  ASSUME NEW ps, Tables(ps, arcs), NEW p \in DOMAIN ps, NEW r \in DOMAIN ps, NEW fd \in Mon,
         "unmap" \notin world, ps[p].regs.file \in Files, SyscallOpen(ps, p, fd)
  PROVE  Reshown(ps, arcs, pids', arcs', r, fd, ps[p].regs.file)
<1>1. PICK file, n, qs, strs :
        /\ file = ps[p].regs.file /\ n = Unused(arcs)
        /\ qs = SetSlot(ps, {p}, fd, n) /\ strs = NewArc(arcs, file)
  OBVIOUS
<1>2. file \in Files \cup {Std} /\ file # None
  BY <1>1, TraceesAssumption
<1>3. BroadcastOpen(qs, strs, p, fd)
  <2>1. \E filename \in {ps[p].regs.file} :
          IF filename = None THEN BroadcastOpen(ps, arcs, p, fd)
          ELSE BroadcastOpen(SetSlot(ps, {p}, fd, Unused(arcs)), NewArc(arcs, filename), p, fd)
    BY DEF SyscallOpen
  <2> QED
    BY <1>1, <1>2, <2>1, Zenon
<1>4. /\ TablesType(ps) /\ StringsType(arcs) /\ Counted(ps, arcs) /\ AlikeBut(ps, p, fd)
  BY DEF Tables, Alike, AlikeBut
<1>5. n \in Nat \ {0} /\ n \notin DOMAIN arcs
  BY <1>1, <1>4, UnusedIs DEF StringsType
<1>6. TablesType(qs) /\ StringsType(strs) /\ Counted(qs, strs)
  BY <1>1, <1>2, <1>4, NewArcSound
<1>7. PICK ts : ts = {p}
  OBVIOUS
<1>8. Slotted(ps, ts, fd, n, qs)
  BY <1>1, <1>4, <1>5, <1>7, SetSlotFds
<1>9. DOMAIN qs = DOMAIN ps /\ AlikeBut(qs, p, fd) /\ qs[p].fds[fd] = n
  BY <1>4, <1>7, <1>8 DEF Slotted, AlikeBut
<1>10. Reshown(qs, strs, pids', arcs', r, fd, Name(strs, qs[p].fds[fd]))
  BY <1>3, <1>6, <1>9, BroadcastShown
<1>11. /\ Name(strs, n) = file
       /\ \A m \in DOMAIN arcs \cup {NoArc} : Name(strs, m) = Name(arcs, m)
  BY <1>1, <1>5 DEF NewArc, Name, NoArc
<1>12. ASSUME NEW f \in Mon, f # fd
       PROVE  Name(strs, qs[r].fds[f]) = Name(arcs, ps[r].fds[f])
  <2>1. qs[r].fds[f] = ps[r].fds[f]
    BY <1>8, <1>12 DEF Slotted
  <2>2. ps[r].fds[f] \in DOMAIN arcs \cup {NoArc}
    BY <1>4, SlotString
  <2> QED
    BY <1>11, <2>1, <2>2
<1> QED
  BY <1>1, <1>9, <1>10, <1>11, <1>12, Zenon DEF Reshown

\* syscall_close shows no name.
LEMMA CloseShown ==
  ASSUME NEW ps, Tables(ps, arcs), NEW p \in DOMAIN ps, NEW r \in DOMAIN ps, NEW fd \in Mon,
         fd = ps[p].regs.r0, SyscallClose(ps, p)
  PROVE  Reshown(ps, arcs, pids', arcs', r, fd, None)
<1>1. PICK qs, out, all, n : qs = pids' /\ out = arcs' /\ all = DOMAIN ps /\ n = NoArc
  OBVIOUS
<1>2. /\ qs = SetSlot(ps, all, fd, n)
      /\ out = Recount(arcs, ps, all \X {fd}, ps, {})
  BY <1>1, Zenon DEF SyscallClose
<1>3. TablesType(ps) /\ StringsType(arcs) /\ n \in Nat
  BY <1>1 DEF Tables, NoArc
<1>4. Slotted(ps, all, fd, n, qs)
  BY <1>2, <1>3, SetSlotFds
<1>5. Named(arcs, out) /\ Tables(qs, out)
  BY <1>1, <1>2, <1>3, RecountNamed, CloseTables
<1>6. ASSUME NEW f \in Mon
      PROVE  /\ qs[r].fds[f] = IF f = fd THEN NoArc ELSE ps[r].fds[f]
             /\ Name(out, qs[r].fds[f]) = Name(arcs, qs[r].fds[f])
  <2>1. r \in DOMAIN qs
    BY <1>4 DEF Slotted
  <2>2. qs[r].fds[f] \in DOMAIN out \cup {NoArc}
    BY <1>5, <2>1, SlotString DEF Tables
  <2>3. qs[r].fds[f] = IF f = fd THEN NoArc ELSE ps[r].fds[f]
    BY <1>1, <1>4 DEF Slotted
  <2> QED
    BY <1>5, <2>2, <2>3, SameName
<1>7. Name(arcs, NoArc) = None
  BY DEF Name
<1> QED
  BY <1>1, <1>6, <1>7 DEF Reshown

\* Tasks that come and go leave the names of the others.
LEMMA StillShown ==
  ASSUME NEW qs, NEW out, Tables(qs, out), NEW ps, NEW strs, Named(strs, out),
         NEW r \in DOMAIN qs, qs[r].fds = ps[r].fds, NEW f \in Mon
  PROVE  Name(out, qs[r].fds[f]) = Name(strs, ps[r].fds[f])
<1>1. qs[r].fds[f] \in DOMAIN out \cup {NoArc}
  BY SlotString DEF Tables
<1> QED
  BY <1>1, SameName

-----------------------------------------------------------------------------
(* What the tracer has heard of the tasks. *)

Distinct == \A p, q \in Pids : reports[p] = reports[q] /\ reports[p] # 0 => p = q

Creating == \A p \in Pids : task[p].pos \in {"event", "return"} => task[p].call.nr \in {"clone", "fork"}

Opening == \A p \in Pids : task[p].call.nr = "open" => task[p].call.file \in Files

\* The registers of a call are those that were read when it was entered.
Registers ==
  "early" \notin world => \A p \in Live \cap DOMAIN pids :
    task[p].pos \in InCall \ {"enter"} =>
      /\ pids[p].regs.r0 = task[p].call.fd
      /\ task[p].call.nr = "open" => pids[p].regs.file = task[p].call.file

Changes(fd) == {p \in Pids : Changed(p, fd)}
Writers(fd) == {p \in Pids : Wrote(p, fd)}
Afters  == [p \in Pids |-> After(p)]
Written == [p \in Pids |-> task[p].call.file]
Shown(fd) == Name(arcs, pids[Root].fds[fd])

View(fd) == Sees(Changes(fd), Writers(fd), reports, Afters, Written, Shown(fd), fdtab[Root][fd])

Plain == world \cap {"fork", "early", "reorder", "unmap"} = {} /\ Live # {}

Views == Plain => \A fd \in Mon : View(fd)

Heard == Distinct /\ Creating /\ Opening /\ Registers /\ Views

LEMMA OrderKept ==
  ASSUME NEW S \in SUBSET Pids, NEW a \in [Pids -> Nat], NEW b \in [Pids -> Nat],
         \A p, q \in S : a[p] = a[q] /\ a[p] # 0 => p = q,
         \A p \in S : b[p] = 0 <=> a[p] = 0,
         \A p, q \in S : a[p] < a[q] => b[p] < b[q]
  PROVE  SameOrder(S, a, b) /\ \A p, q \in S : b[p] = b[q] /\ b[p] # 0 => p = q
<1>1. ASSUME NEW p \in S, NEW q \in S
      PROVE  (a[p] < a[q] <=> b[p] < b[q]) /\ (b[p] = b[q] /\ b[p] # 0 => p = q)
  <2>1. a[p] \in Nat /\ a[q] \in Nat /\ b[p] \in Nat /\ b[q] \in Nat
    OBVIOUS
  <2>2. a[p] < a[q] \/ a[q] < a[p] \/ (a[p] = a[q] /\ a[p] # 0) \/ (a[p] = 0 /\ a[q] = 0)
    BY <2>1
  <2>3. CASE a[p] < a[q]
    BY <2>1, <2>3
  <2>4. CASE a[q] < a[p]
    BY <2>1, <2>4
  <2>5. CASE a[p] = a[q] /\ a[p] # 0
    BY <2>1, <2>5
  <2>6. CASE a[p] = 0 /\ a[q] = 0
    BY <2>1, <2>6
  <2> QED
    BY <2>2, <2>3, <2>4, <2>5, <2>6
<1> QED
  BY <1>1 DEF SameOrder

\* New reports come after the others.
LEMMA ReportOrder ==
  ASSUME Loop, Distinct, NEW S \in SUBSET Pids, reports' = Report(S)
  PROVE  /\ reports \in [Pids -> Nat] /\ reports' \in [Pids -> Nat]
         /\ Distinct' /\ SameOrder(Pids \ S, reports, reports')
         /\ \A p \in S, q \in Pids \ S : reports'[q] < reports'[p]
<1>1. PICK a, b, T : a = reports /\ b = reports' /\ T = Pids \ S
  OBVIOUS
<1>2. reports \in [Pids -> Nat]
  BY DEF Loop, WorldType
<1>3. /\ b \in [Pids -> Nat] /\ \A p \in S : b[p] > 0
      /\ \A p \in T : b[p] = 0 <=> a[p] = 0
      /\ \A p, q \in T : a[p] < a[q] => b[p] < b[q]
      /\ \A q \in T, p \in S : b[q] < b[p]
      /\ \A p, q \in S : p < q => b[p] < b[q]
  BY <1>1, <1>2, ReportIs
<1>4. /\ a \in [Pids -> Nat] /\ T \in SUBSET Pids
      /\ \A p, q \in T : a[p] = a[q] /\ a[p] # 0 => p = q
  BY <1>1, <1>2 DEF Distinct
<1>5. SameOrder(T, a, b) /\ \A p, q \in T : b[p] = b[q] /\ b[p] # 0 => p = q
  BY <1>3, <1>4, OrderKept
<1>6. ASSUME NEW p \in Pids, NEW q \in Pids, b[p] = b[q], b[p] # 0 PROVE p = q
  <2>1. b[p] \in Nat /\ b[q] \in Nat /\ p \in Nat /\ q \in Nat
    BY <1>3, ConstantsIn
  <2>2. CASE p \in T /\ q \in T
    BY <1>5, <1>6, <2>2
  <2>3. CASE p \in S /\ q \in S
    BY <1>3, <1>6, <2>1, <2>3
  <2>4. CASE (p \in S /\ q \in T) \/ (p \in T /\ q \in S)
    BY <1>3, <1>6, <2>1, <2>4
  <2> QED
    BY <1>1, <2>2, <2>3, <2>4
<1>7. Distinct'
  BY <1>1, <1>6 DEF Distinct
<1> QED
  BY <1>1, <1>2, <1>3, <1>5, <1>7

LEMMA KeptOrder ==
  ASSUME Loop, Distinct, NEW S \in SUBSET Pids, reports' = Kept(S)
  PROVE  /\ reports \in [Pids -> Nat] /\ reports' \in [Pids -> Nat]
         /\ Distinct' /\ SameOrder(S, reports, reports')
         /\ \A p \in Pids \ S : reports'[p] = 0
         /\ \A p \in S : reports'[p] = 0 <=> reports[p] = 0
<1>1. PICK a, b : a = reports /\ b = reports'
  OBVIOUS
<1>2. reports \in [Pids -> Nat]
  BY DEF Loop, WorldType
<1>3. /\ b \in [Pids -> Nat] /\ \A p \in Pids \ S : b[p] = 0
      /\ \A p \in S : b[p] = 0 <=> a[p] = 0
      /\ \A p, q \in S : a[p] < a[q] => b[p] < b[q]
  BY <1>1, <1>2, KeptIs
<1>4. /\ a \in [Pids -> Nat]
      /\ \A p, q \in S : a[p] = a[q] /\ a[p] # 0 => p = q
  BY <1>1, <1>2 DEF Distinct
<1>5. SameOrder(S, a, b) /\ \A p, q \in S : b[p] = b[q] /\ b[p] # 0 => p = q
  BY <1>3, <1>4, OrderKept
<1>6. Distinct'
  BY <1>1, <1>3, <1>5 DEF Distinct
<1> QED
  BY <1>1, <1>2, <1>3, <1>5, <1>6

\* The tasks that have changed or written to fd are other than those at rest.
LEMMA ConcernedAtExit ==
  ASSUME NEW fd, NEW p \in Changes(fd) \cup Writers(fd)
  PROVE  p \in Pids /\ task[p].pos = "exit" /\ p \in Live
BY DEF Changes, Writers, Changed, Wrote, Live, None

LEMMA StoppingViews ==
  ASSUME Loop, Looping, Tasks, Heard, Plain, NEW p \in Pids, Stopping(p), Effect(p),
         UNCHANGED <<world, pids, arcs>>, NEW fd \in Mon
  PROVE  View(fd)'
<1>1. PICK S, W, a, b, aft, bft, now, won, seen, file :
        /\ S = Changes(fd) /\ W = Writers(fd) /\ a = reports /\ b = reports'
        /\ aft = Afters /\ bft = Afters' /\ now = Written /\ won = Written'
        /\ seen = Shown(fd) /\ file = fdtab[Root][fd]
  OBVIOUS
<1>2. Sees(S, W, a, aft, now, seen, file)
  BY <1>1, Zenon DEF Heard, Views, View
<1>3. /\ task[p].pos \in {"user", "call", "return"} /\ \A q \in Pids \ {p} : task'[q] = task[q]
  BY DEF Stopping
<1>4. S \in SUBSET Pids /\ W \in SUBSET Pids /\ p \notin S \cup W
  BY <1>1, <1>3 DEF Changes, Writers, Changed, Wrote
<1>5. PICK one : one = {p}
  OBVIOUS
<1>6. /\ a \in [Pids -> Nat] /\ b \in [Pids -> Nat] /\ SameOrder(Pids \ one, a, b)
      /\ \A q \in Pids \ one : b[q] < b[p]
  <2>1. one \in SUBSET Pids /\ reports' = Report(one) /\ Distinct
    BY <1>5 DEF Stopping, Heard
  <2> QED
    BY <1>1, <1>5, <2>1, ReportOrder
<1>7. SameOrder(S \cup W, a, b) /\ \A q \in S \cup W : b[q] < b[p]
  BY <1>4, <1>5, <1>6 DEF SameOrder
<1>8. \A q \in Pids \ {p} : bft[q] = aft[q] /\ won[q] = now[q]
  BY <1>1, <1>3 DEF Afters, Written, After
<1>9. (\A q \in S : bft[q] = aft[q]) /\ (\A q \in W : won[q] = now[q])
  BY <1>4, <1>8
<1>10. Shown(fd)' = seen
  BY <1>1 DEF Shown
<1>11. task[p].tgid = Root /\ fd \in Fds
  BY <1>3, MonFinite DEF Tasks, Threads, Plain, None
<1>12. CASE Changed(p, fd)'
  <2>1. Changes(fd)' = S \cup {p}
    BY <1>1, <1>3, <1>12 DEF Changes, Changed
  <2>2. Writers(fd)' = W
    BY <1>1, <1>3, <1>4, <1>12 DEF Writers, Changed, Wrote, Writing
  <2>3. task[p].pos # "return"
    BY <1>12 DEF Changed, Stopping, Heard, Creating
  <2>4. fdtab'[Root][fd] = After(p)' /\ bft[p] = After(p)'
    BY <1>1, <1>11, <1>12, <2>3 DEF Effect, Afters
  <2>5. PICK elif : elif = fdtab'[Root][fd]
    OBVIOUS
  <2>6. Sees(S \cup {p}, W, b, bft, won, seen, elif)
    BY <1>2, <1>4, <1>6, <1>7, <1>9, <2>4, <2>5, SeesMore
  <2> QED
    BY <1>1, <1>10, <2>1, <2>2, <2>5, <2>6 DEF View
<1>13. CASE Wrote(p, fd)'
  <2>1. Changes(fd)' = S
    BY <1>1, <1>3, <1>4, <1>13 DEF Changes, Changed, Wrote, Writing
  <2>2. Writers(fd)' = W \cup {p}
    BY <1>1, <1>3, <1>13 DEF Writers, Wrote
  <2>3. task[p].pos # "return"
    BY <1>13 DEF Wrote, Stopping, Heard, Creating, Writing
  <2>4. fdtab'[Root][fd] = file /\ won[p] = file
    BY <1>1, <1>11, <1>13, <2>3 DEF Effect, Written, Changed, Wrote, Writing
  <2>5. Sees(S, W \cup {p}, b, bft, won, seen, file)
    BY <1>2, <1>4, <1>6, <1>7, <1>9, <2>4, SeesWritten
  <2> QED
    BY <1>1, <1>10, <2>1, <2>2, <2>4, <2>5 DEF View
<1>14. CASE ~Changed(p, fd)' /\ ~Wrote(p, fd)'
  <2>1. Changes(fd)' = S /\ Writers(fd)' = W
    BY <1>1, <1>3, <1>4, <1>14 DEF Changes, Changed, Writers, Wrote
  <2>2. fdtab'[Root][fd] = file
    BY <1>1, <1>11, <1>14 DEF Effect
  <2>3. W \in SUBSET W
    OBVIOUS
  <2>4. Sees(S, W, b, bft, won, seen, file)
    BY <1>2, <1>4, <1>6, <1>7, <1>9, <2>3, SeesSame
  <2> QED
    BY <1>1, <1>10, <2>1, <2>2, <2>4 DEF View
<1> QED
  BY <1>12, <1>13, <1>14

LEMMA StoppingHeard ==
  ASSUME Loop, Looping, Tasks, Follow, Heard, NEW p \in Pids, Stopping(p), Effect(p),
         UNCHANGED <<world, pids, arcs>>
  PROVE  Heard'
<1>1. /\ task[p].pos \in {"user", "call", "return"} /\ task'[p].pos \in {"enter", "exit"}
      /\ \A q \in Pids \ {p} : task'[q] = task[q]
  BY DEF Stopping
<1>2. Distinct'
  <2>1. PICK S \in SUBSET Pids : S = {p}
    OBVIOUS
  <2>2. reports' = Report(S) /\ Distinct
    BY <2>1 DEF Stopping, Heard
  <2> QED
    BY <2>2, ReportOrder
<1>3. Creating'
  BY <1>1 DEF Heard, Creating
<1>4. Opening'
  <2>1. task'[p].call.nr = "open" => task'[p].call.file \in Files
    <3>1. CASE task'[p].pos = "enter"
      <4>1. task'[p].call \in Calls(p)
        BY <3>1 DEF Stopping
      <4> QED
        BY <4>1 DEF Calls, Writing
    <3>2. CASE task'[p].pos = "exit"
      <4>1. task'[p].call.nr = task[p].call.nr
        BY <3>2 DEF Stopping
      <4> QED
        BY <3>2, <4>1 DEF Effect, Heard, Opening
    <3> QED
      BY <1>1, <3>1, <3>2
  <2> QED
    BY <1>1, <2>1 DEF Heard, Opening
<1>5. Registers'
  <2> SUFFICES ASSUME "early" \notin world, NEW q \in Live' \cap DOMAIN pids,
                      task'[q].pos \in InCall \ {"enter"}
               PROVE  /\ pids[q].regs.r0 = task'[q].call.fd
                      /\ task'[q].call.nr = "open" => pids[q].regs.file = task'[q].call.file
    BY DEF Registers
  <2>1. CASE q # p
    BY <1>1, <2>1 DEF Heard, Registers, Live
  <2>2. CASE q = p
    <3>1. task[p].pos \in {"call", "return"} /\ task'[p].pos = "exit"
          /\ task'[p].call.nr = task[p].call.nr /\ task'[p].call.fd = task[p].call.fd
      BY <2>2 DEF Stopping
    <3>2. p \in Live /\ task[p].pos \in InCall \ {"enter"}
      BY <3>1 DEF Live, None, InCall
    <3>3. /\ pids[p].regs.r0 = task[p].call.fd
          /\ task[p].call.nr = "open" => pids[p].regs.file = task[p].call.file
      BY <2>2, <3>2 DEF Heard, Registers
    <3> QED
      BY <2>2, <3>1, <3>3 DEF Effect
  <2> QED
    BY <2>1, <2>2
<1>6. Views'
  <2>1. p \in Live
    BY <1>1 DEF Live, None
  <2>2. Plain' => Plain
    BY <2>1 DEF Plain
  <2> QED
    BY <2>2, StoppingViews DEF Views
<1> QED
  BY <1>2, <1>3, <1>4, <1>5, <1>6 DEF Heard

\* Nothing happens to fd, or what was written to it is handled.
LEMMA QuietView ==
  ASSUME NEW fd \in Mon, View(fd), reports \in [Pids -> Nat], reports' \in [Pids -> Nat],
         SameOrder(Changes(fd) \cup Writers(fd), reports, reports'),
         Changes(fd)' = Changes(fd), Writers(fd)' \subseteq Writers(fd),
         \A q \in Changes(fd) \cup Writers(fd)' : task'[q].call = task[q].call,
         Shown(fd)' = Shown(fd), fdtab'[Root][fd] = fdtab[Root][fd]
  PROVE  View(fd)'
<1>1. PICK S, W, V, a, b, aft, bft, now, won, seen, file :
        /\ S = Changes(fd) /\ W = Writers(fd) /\ V = Writers(fd)' /\ a = reports /\ b = reports'
        /\ aft = Afters /\ bft = Afters' /\ now = Written /\ won = Written'
        /\ seen = Shown(fd) /\ file = fdtab[Root][fd]
  OBVIOUS
<1>2. Sees(S, W, a, aft, now, seen, file)
  BY <1>1, Zenon DEF View
<1>3. S \in SUBSET Pids /\ W \in SUBSET Pids /\ V \in SUBSET W
  BY <1>1 DEF Changes, Writers
<1>4. (\A q \in S : bft[q] = aft[q]) /\ (\A q \in V : won[q] = now[q])
  BY <1>1, <1>3 DEF Afters, Written, After
<1>5. a \in [Pids -> Nat] /\ b \in [Pids -> Nat] /\ SameOrder(S \cup W, a, b)
  BY <1>1
<1>6. Sees(S, V, b, bft, won, seen, file)
  BY <1>2, <1>3, <1>4, <1>5, SeesSame
<1> QED
  BY <1>1, <1>6 DEF View

LEMMA CreatedHeard ==
  ASSUME Loop, Looping, Tasks, Follow, Heard, NEW p \in Pids, NEW q \in Pids, Created(p, q),
         UNCHANGED <<world, pids, arcs>>
  PROVE  Heard'
<1>1. /\ q # p /\ task[q].pos = None /\ task[p].pos = "call"
      /\ task'[p].pos = "event" /\ task'[p].call.nr = task[p].call.nr
      /\ task'[p].call.fd = task[p].call.fd /\ task'[p].call.file = task[p].call.file
      /\ task'[q].pos = "init" /\ task'[q].call = NoCall
      /\ \A r \in Pids \ {p, q} : task'[r] = task[r]
  BY Zenon DEF Created
<1>2. task[p].call.nr \in {"clone", "fork"} /\ (task[p].call.nr = "clone" => fdtab' = fdtab)
  BY DEF Created
<1>3. PICK T \in SUBSET Pids : T = {p, q}
  OBVIOUS
<1>4. /\ reports \in [Pids -> Nat] /\ reports' \in [Pids -> Nat]
      /\ Distinct' /\ SameOrder(Pids \ T, reports, reports')
  <2>1. reports' = Report(T) /\ Distinct
    BY <1>3, Zenon DEF Created, Heard
  <2> QED
    BY <2>1, ReportOrder
<1>5. Creating'
  BY <1>1, <1>2 DEF Heard, Creating
<1>6. Opening'
  BY <1>1 DEF Heard, Opening, NoCall
<1>7. Registers'
  <2> SUFFICES ASSUME "early" \notin world, NEW r \in Live' \cap DOMAIN pids,
                      task'[r].pos \in InCall \ {"enter"}
               PROVE  /\ pids[r].regs.r0 = task'[r].call.fd
                      /\ task'[r].call.nr = "open" => pids[r].regs.file = task'[r].call.file
    BY DEF Registers
  <2>1. r # q
    BY <1>1 DEF InCall
  <2>2. r \in Pids /\ r \in Live /\ task[r].pos \in InCall \ {"enter"}
    BY <1>1, <2>1 DEF Live, None, InCall
  <2>3. /\ pids[r].regs.r0 = task[r].call.fd
        /\ task[r].call.nr = "open" => pids[r].regs.file = task[r].call.file
    BY <2>2 DEF Heard, Registers
  <2>4. /\ task'[r].call.nr = task[r].call.nr
        /\ task'[r].call.fd = task[r].call.fd /\ task'[r].call.file = task[r].call.file
    BY <1>1, <2>1, <2>2
  <2> QED
    BY <2>3, <2>4
<1>8. Views'
  <2> SUFFICES ASSUME Plain', NEW fd \in Mon PROVE View(fd)'
    BY DEF Views
  <2>1. p \in Live
    BY <1>1 DEF Live, None
  <2>2. Plain
    BY <2>1 DEF Plain
  <2>3. fdtab' = fdtab
    BY <1>1, <1>2, <2>2 DEF Tasks, Threads, Plain, None
  <2>4. /\ Changes(fd)' = Changes(fd) /\ Writers(fd)' = Writers(fd)
        /\ Changes(fd) \cup Writers(fd) \subseteq Pids \ T
    BY <1>1, <1>3 DEF Changes, Writers, Changed, Wrote, None
  <2>5. SameOrder(Changes(fd) \cup Writers(fd), reports, reports')
    BY <1>4, <2>4 DEF SameOrder
  <2>6. \A r \in Changes(fd) \cup Writers(fd)' : task'[r].call = task[r].call
    BY <1>1, <1>3, <2>4
  <2>7. View(fd) /\ Shown(fd)' = Shown(fd)
    BY <2>2 DEF Heard, Views, Shown
  <2> QED
    BY <1>4, <2>3, <2>4, <2>5, <2>6, <2>7, QuietView
<1> QED
  BY <1>4, <1>5, <1>6, <1>7, <1>8 DEF Heard

LEMMA DeathsHeard ==
  ASSUME Loop, Looping, Tasks, Follow, Heard, NEW gone \in SUBSET Live, Deaths(gone),
         UNCHANGED <<world, pids, arcs>>
  PROVE  Heard'
<1>1. /\ gone \in SUBSET Pids
      /\ \A p \in gone : task'[p].pos = "dead" /\ task'[p].call = NoCall
      /\ \A p \in Pids \ gone : task'[p].pos = task[p].pos /\ task'[p].call = task[p].call
                                /\ task'[p].ret = task[p].ret
      /\ reports' = Report(gone) /\ fdtab' = fdtab
  BY DEF Deaths, Dying, Live
<1>2. /\ reports \in [Pids -> Nat] /\ reports' \in [Pids -> Nat]
      /\ Distinct' /\ SameOrder(Pids \ gone, reports, reports')
  BY <1>1, ReportOrder DEF Heard
<1>3. Creating' /\ Opening'
  BY <1>1 DEF Heard, Creating, Opening, NoCall
<1>4. Registers'
  <2> SUFFICES ASSUME "early" \notin world, NEW r \in Live' \cap DOMAIN pids,
                      task'[r].pos \in InCall \ {"enter"}
               PROVE  /\ pids[r].regs.r0 = task'[r].call.fd
                      /\ task'[r].call.nr = "open" => pids[r].regs.file = task'[r].call.file
    BY DEF Registers
  <2>1. r \in Pids \ gone
    BY <1>1 DEF Live
  <2> QED
    BY <1>1, <2>1 DEF Heard, Registers, Live
<1>5. Views'
  <2> SUFFICES ASSUME Plain', NEW fd \in Mon PROVE View(fd)'
    BY DEF Views
  <2>1. PICK s \in Pids : s \in Live' /\ s \in Live /\ s \notin gone
    <3>1. PICK s \in Live' : TRUE
      BY DEF Plain
    <3> QED
      BY <1>1, <3>1 DEF Live
  <2>2. Plain
    BY <2>1 DEF Plain
  <2>3. \A r \in gone : task[r].pos # "exit"
    <3>1. CASE \E u \in Live : gone = {u} /\ task[u].pos = "user"
      BY <3>1
    <3>2. CASE \E g \in Pids : gone = {u \in Live : task[u].tgid = g}
      <4> SUFFICES ASSUME NEW r \in gone PROVE FALSE
        OBVIOUS
      <4>1. task[r].tgid = Root /\ task[s].tgid = Root
        BY <1>1, <2>1, <2>2 DEF Tasks, Threads, Plain, Live
      <4> QED
        BY <2>1, <3>2, <4>1
    <3> QED
      BY <3>1, <3>2 DEF Deaths
  <2>4. /\ Changes(fd)' = Changes(fd) /\ Writers(fd)' = Writers(fd)
        /\ Changes(fd) \cup Writers(fd) \subseteq Pids \ gone
    BY <1>1, <2>3 DEF Changes, Writers, Changed, Wrote
  <2>5. SameOrder(Changes(fd) \cup Writers(fd), reports, reports')
    BY <1>2, <2>4 DEF SameOrder
  <2>6. \A r \in Changes(fd) \cup Writers(fd)' : task'[r].call = task[r].call
    BY <1>1, <2>4
  <2>7. View(fd) /\ Shown(fd)' = Shown(fd)
    BY <2>2 DEF Heard, Views, Shown
  <2> QED
    BY <1>1, <1>2, <2>4, <2>5, <2>6, <2>7, QuietView
<1> QED
  BY <1>2, <1>3, <1>4, <1>5 DEF Heard

LEMMA WaitedHeard ==
  ASSUME Loop, Looping, Tasks, Follow, Heard, NEW p \in Pids, Waited(p)
  PROVE  Heard'
<1>1. /\ \A q \in Pids \ {p} : task'[q] = task[q]
      /\ task'[p].call = task[p].call /\ task'[p].ret = task[p].ret
      /\ task[p].pos = "dead" => task'[p].pos = "gone"
      /\ task[p].pos # "dead" => task'[p].pos = task[p].pos
      /\ cur = NoStop /\ UNCHANGED <<world, fdtab, pids, arcs>>
  BY DEF Waited
<1>2. PICK T \in SUBSET Pids : T = Pids \ {p}
  OBVIOUS
<1>3. /\ reports \in [Pids -> Nat] /\ reports' \in [Pids -> Nat]
      /\ Distinct' /\ SameOrder(T, reports, reports')
      /\ reports'[p] = 0
      /\ \A q \in T : reports'[q] = 0 <=> reports[q] = 0
  <2>1. reports' = Kept(T) /\ Distinct
    BY <1>2 DEF Waited, Heard
  <2>2. /\ reports \in [Pids -> Nat] /\ reports' \in [Pids -> Nat]
        /\ Distinct' /\ SameOrder(T, reports, reports')
        /\ \A q \in Pids \ T : reports'[q] = 0
        /\ \A q \in T : reports'[q] = 0 <=> reports[q] = 0
    BY <2>1, KeptOrder
  <2> QED
    BY <1>2, <2>2
<1>4. Creating' /\ Opening'
  BY <1>1 DEF Heard, Creating, Opening
<1>5. Registers'
  <2> SUFFICES ASSUME "early" \notin world, NEW r \in Live' \cap DOMAIN pids,
                      task'[r].pos \in InCall \ {"enter"}
               PROVE  /\ pids[r].regs.r0 = task'[r].call.fd
                      /\ task'[r].call.nr = "open" => pids[r].regs.file = task'[r].call.file
    BY <1>1 DEF Registers
  <2>1. r \in Live /\ task[r].pos = task'[r].pos /\ task'[r].call = task[r].call
    BY <1>1 DEF Live, InCall
  <2> QED
    BY <2>1 DEF Heard, Registers
<1>6. Views'
  <2> SUFFICES ASSUME Plain', NEW fd \in Mon PROVE View(fd)'
    BY DEF Views
  <2>1. Plain
    BY <1>1 DEF Plain, Live
  <2>2. Changes(fd)' = Changes(fd) /\ Writers(fd)' = Writers(fd)
    BY <1>1 DEF Changes, Writers, Changed, Wrote
  <2>3. \A q \in Changes(fd) \cup Writers(fd) : q \in Pids /\ task[q].pos = "exit" /\ q \in Live
    BY ConcernedAtExit
  <2>4. ASSUME NEW q \in Changes(fd) \cup Writers(fd) PROVE reports[q] # 0 /\ Reportable(q)
    <3>1. cur.pid # q
      BY <1>1, <2>3, ConstantsIn DEF NoStop
    <3>2. reports[q] # 0
      BY <2>3, <3>1 DEF Follow, Hanging, Stopped
    <3>3. Reportable(q)
      BY <2>3 DEF Reportable
    <3> QED
      BY <3>2, <3>3
  <2>5. ASSUME NEW q \in Changes(fd) \cup Writers(fd) PROVE reports[p] <= reports[q]
    <3>1. q \in {r \in Reported : Reportable(r)}
      BY <2>3, <2>4 DEF Reported
    <3>2. "early" \notin world /\ "reorder" \notin world
      BY <2>1 DEF Plain
    <3> QED
      BY <3>1, <3>2 DEF Waited, Waitable
  <2>6. SameOrder(Changes(fd) \cup Writers(fd), reports, reports')
    <3> SUFFICES ASSUME NEW q \in Changes(fd) \cup Writers(fd), NEW r \in Changes(fd) \cup Writers(fd)
                 PROVE  reports[q] < reports[r] <=> reports'[q] < reports'[r]
      BY DEF SameOrder
    <3>1. /\ q \in Pids /\ r \in Pids /\ reports[q] \in Nat /\ reports[r] \in Nat
          /\ reports'[q] \in Nat /\ reports'[r] \in Nat
          /\ reports[q] # 0 /\ reports[r] # 0
          /\ reports[q] = reports[r] => q = r
          /\ reports[p] <= reports[q] /\ reports[p] <= reports[r]
      BY <1>3, <2>3, <2>4, <2>5 DEF Heard, Distinct
    <3>2. CASE q # p /\ r # p
      BY <1>2, <1>3, <3>1, <3>2 DEF SameOrder
    <3>3. CASE q = p /\ r # p
      <4>1. reports'[q] = 0 /\ reports'[r] # 0
        BY <1>2, <1>3, <3>1, <3>3
      <4> QED
        BY <3>1, <3>3, <4>1
    <3>4. CASE r = p
      <4>1. reports'[r] = 0
        BY <1>3, <3>4
      <4> QED
        BY <3>1, <3>4, <4>1
    <3> QED
      BY <3>2, <3>3, <3>4
  <2>7. \A q \in Changes(fd) \cup Writers(fd)' : task'[q].call = task[q].call
    BY <1>1, <2>2, <2>3
  <2>8. View(fd) /\ Shown(fd)' = Shown(fd)
    BY <1>1, <2>1 DEF Heard, Views, Shown
  <2> QED
    BY <1>1, <1>3, <2>2, <2>6, <2>7, <2>8, QuietView
<1> QED
  BY <1>3, <1>4, <1>5, <1>6 DEF Heard

\* The handled task p goes on; the tracer now shows what p has done.
LEMMA GoingView ==
  ASSUME Loop, Looping, Follow, NEW p \in Pids, Going(p), NEW fd \in Mon, View(fd),
         Changed(p, fd) => Shown(fd)' = After(p),
         ~Changed(p, fd) => Shown(fd)' = Shown(fd)
  PROVE  View(fd)'
<1>1. /\ \A q \in Pids \ {p} : task'[q] = task[q]
      /\ task'[p].pos # "exit" /\ cur.pid = p
      /\ UNCHANGED <<fdtab, reports>>
  BY DEF Going, Stopped
<1>2. Changes(fd)' = Changes(fd) \ {p} /\ Writers(fd)' = Writers(fd) \ {p}
  BY <1>1 DEF Changes, Writers, Changed, Wrote
<1>3. reports \in [Pids -> Nat]
  BY DEF Loop, WorldType
<1>4. \A q \in Changes(fd) \cup Writers(fd) : q \in Pids /\ task[q].pos = "exit" /\ q \in Live
  BY ConcernedAtExit
<1>5. CASE Changed(p, fd)
  <2>1. PICK S, W, a, aft, bft, now, won, seen, nees, file :
          /\ S = Changes(fd) /\ W = Writers(fd) /\ a = reports
          /\ aft = Afters /\ bft = Afters' /\ now = Written /\ won = Written'
          /\ seen = Shown(fd) /\ nees = Shown(fd)' /\ file = fdtab[Root][fd]
    OBVIOUS
  <2>2. Sees(S, W, a, aft, now, seen, file)
    BY <2>1, Zenon DEF View
  <2>3. S \in SUBSET Pids /\ W \in SUBSET Pids /\ p \in S /\ p \notin W
    BY <1>5, <2>1 DEF Changes, Writers, Changed, Wrote, Writing
  <2>4. a \in [Pids -> Nat] /\ a[p] = 0
    <3>1. task[p].pos = "exit"
      BY <1>5 DEF Changed
    <3> QED
      BY <1>1, <1>3, <2>1, <3>1 DEF Loop, Queued
  <2>5. \A q \in (S \cup W) \ {p} : a[q] > 0
    <3> SUFFICES ASSUME NEW q \in (S \cup W) \ {p} PROVE a[q] > 0
      OBVIOUS
    <3>1. reports[q] # 0
      BY <1>1, <1>4, <2>1 DEF Follow, Hanging, Stopped
    <3>2. reports[q] \in Nat
      BY <1>3, <1>4, <2>1
    <3> QED
      BY <2>1, <3>1, <3>2
  <2>6. (\A q \in S \ {p} : bft[q] = aft[q]) /\ (\A q \in W : won[q] = now[q])
    BY <1>1, <2>1, <2>3 DEF Afters, Written, After
  <2>7. nees = aft[p]
    BY <1>5, <2>1 DEF Afters
  <2>8. Sees(S \ {p}, W, a, bft, won, nees, file)
    BY <2>2, <2>3, <2>4, <2>5, <2>6, <2>7, SeesLess
  <2>9. Writers(fd)' = W
    BY <1>2, <2>1, <2>3
  <2> QED
    BY <1>1, <1>2, <2>1, <2>8, <2>9 DEF View
<1>6. CASE ~Changed(p, fd)
  <2>1. p \notin Changes(fd)
    BY <1>6 DEF Changes
  <2>2. Changes(fd)' = Changes(fd) /\ Writers(fd)' \subseteq Writers(fd)
    BY <1>2, <2>1
  <2>3. \A q \in Changes(fd) \cup Writers(fd)' : task'[q].call = task[q].call
    BY <1>1, <1>2, <1>4, <2>1
  <2>4. SameOrder(Changes(fd) \cup Writers(fd), reports, reports')
    BY <1>1 DEF SameOrder
  <2>5. reports' \in [Pids -> Nat]
    BY <1>1, <1>3
  <2>6. fdtab'[Root][fd] = fdtab[Root][fd] /\ Shown(fd)' = Shown(fd)
    BY <1>1, <1>6
  <2> QED
    BY <1>3, <2>2, <2>3, <2>4, <2>5, <2>6, QuietView
<1> QED
  BY <1>5, <1>6

\* The rest of what is heard when p goes on.
LEMMA GoingHeard ==
  ASSUME Loop, Looping, Follow, Heard, NEW p \in Pids, Going(p), Views',
         "early" \notin world => \A q \in DOMAIN pids' \cap Live :
           \/ q # p /\ task[q].pos \notin InCall
           \/ q # p /\ q \in DOMAIN pids /\ pids'[q].regs = pids[q].regs
           \/ q = p /\ task[q].pos \in {"init", "exit"}
           \/ q = p /\ task[q].pos = "event" /\ q \in DOMAIN pids /\ pids'[q].regs = pids[q].regs
           \/ q = p /\ task[q].pos = "enter" /\ pids'[q].regs = RegsOf(task[q])
  PROVE  Heard'
<1>1. /\ \A q \in Pids \ {p} : task'[q] = task[q]
      /\ task[p].pos \notin Stopped => task'[p] = task[p]
      /\ task[p].pos \in {"init", "exit"} => task'[p].pos = "user" /\ task'[p].call = NoCall
      /\ task[p].pos = "enter" => task'[p].pos = "call" /\ task'[p].call = task[p].call
      /\ task[p].pos = "event" => task'[p].pos = "return" /\ task'[p].call = task[p].call
      /\ UNCHANGED <<world, reports>>
  BY DEF Going
<1>2. Distinct'
  BY <1>1 DEF Heard, Distinct
<1>3. Creating' /\ Opening'
  BY <1>1 DEF Heard, Creating, Opening, Stopped, NoCall
<1>4. Registers'
  <2> SUFFICES ASSUME "early" \notin world, NEW q \in Live' \cap DOMAIN pids',
                      task'[q].pos \in InCall \ {"enter"}
               PROVE  /\ pids'[q].regs.r0 = task'[q].call.fd
                      /\ task'[q].call.nr = "open" => pids'[q].regs.file = task'[q].call.file
    BY <1>1 DEF Registers
  <2>1. q \in Live /\ q \in Pids
    <3>1. q \in Pids /\ task'[q].pos \notin {None, "dead", "gone"}
      BY DEF Live
    <3>2. \A t \in Stopped : t \notin {None, "dead", "gone"}
      BY DEF Stopped, None
    <3>3. task[q].pos \notin {None, "dead", "gone"}
      BY <1>1, <3>1, <3>2
    <3> QED
      BY <3>1, <3>3 DEF Live
  <2>2. CASE q # p /\ task[q].pos \notin InCall
    BY <1>1, <2>1, <2>2
  <2>3. CASE q # p /\ q \in DOMAIN pids /\ pids'[q].regs = pids[q].regs
    BY <1>1, <2>1, <2>3 DEF Heard, Registers
  <2>4. CASE q = p /\ task[q].pos \in {"init", "exit"}
    BY <1>1, <2>4 DEF InCall
  <2>5. CASE q = p /\ task[q].pos = "event" /\ q \in DOMAIN pids /\ pids'[q].regs = pids[q].regs
    BY <1>1, <2>1, <2>5 DEF Heard, Registers, InCall
  <2>6. CASE q = p /\ task[q].pos = "enter" /\ pids'[q].regs = RegsOf(task[q])
    BY <1>1, <2>6 DEF RegsOf
  <2> QED
    BY <1>1, <2>1, <2>2, <2>3, <2>4, <2>5, <2>6
<1> QED
  BY <1>2, <1>3, <1>4 DEF Heard

LEMMA PlainRoot ==
  ASSUME Follow, Plain
  PROVE  Root \in DOMAIN pids /\ "early" \notin world /\ "unmap" \notin world /\ "fork" \notin world
<1>1. PICK p \in Live : TRUE
  BY DEF Plain
<1>2. p \in Pids /\ ~Ended(p)
  BY DEF Live, Ended
<1> QED
  BY <1>2 DEF Follow, LeaderLast, Plain

LEMMA GoingPlain ==
  ASSUME NEW p \in Pids, Going(p), Plain'
  PROVE  Plain
<1>1. PICK q \in Live' : TRUE
  BY DEF Plain
<1>2. q \in Pids /\ task'[q].pos \notin {None, "dead", "gone"}
  BY DEF Live
<1>3. \A t \in Stopped : t \notin {None, "dead", "gone"}
  BY DEF Stopped, None
<1>4. task[q].pos \notin {None, "dead", "gone"} /\ world' = world
  BY <1>2, <1>3 DEF Going
<1> QED
  BY <1>2, <1>4 DEF Plain, Live

\* A handler that leaves the tables alone.
LEMMA StillHeard ==
  ASSUME Loop, Looping, Follow, Heard, NEW p \in Pids, Going(p), UNCHANGED <<pids, arcs>>,
         Plain => task[p].pos # "exit",
         "early" \notin world /\ p \in DOMAIN pids => task[p].pos \in {"init", "dead"}
  PROVE  Heard'
<1>1. Views'
  <2> SUFFICES ASSUME Plain', NEW fd \in Mon PROVE View(fd)'
    BY DEF Views
  <2>1. Plain
    BY GoingPlain
  <2>2. View(fd) /\ ~Changed(p, fd) /\ Shown(fd)' = Shown(fd)
    BY <2>1 DEF Heard, Views, Changed, Shown
  <2> QED
    BY <2>2, GoingView
<1>2. ASSUME "early" \notin world, NEW q \in DOMAIN pids' \cap Live
      PROVE  \/ q # p /\ q \in DOMAIN pids /\ pids'[q].regs = pids[q].regs
             \/ q = p /\ task[q].pos \in {"init", "exit"}
  BY <1>2 DEF Live
<1> QED
  BY <1>1, <1>2, GoingHeard

LEMMA EnterHeard ==
  ASSUME Loop, Looping, Tasks, Follow, Heard, Tables(pids, arcs), NEW p \in Pids, Going(p), HandleEnter(p)
  PROVE  Heard'
<1>1. p \in DOMAIN pids /\ pids[p].syscall_num = "0" /\ task[p].pos \in {"enter", "exit"} /\ arcs' = arcs
  <2>1. /\ p \in DOMAIN pids /\ pids[p].syscall_num = "0" /\ arcs' = arcs /\ task[p].pos # "dead"
        /\ cur.pid = p /\ cur.stop = "syscall"
    BY Zenon DEF HandleEnter, AtSyscall, Handling
  <2> QED
    BY <2>1 DEF Loop, HandledAt
<1>2. "early" \notin world => task[p].pos = "enter"
  <2>1. p \in Live
    BY <1>1 DEF Live, None
  <2> QED
    BY <1>1, <2>1 DEF Follow, InStep, Tasks, Calling, InCall
<1>3. PICK nr, regs : nr = RegsOf(task[p]).nr /\ regs = RegsOf(task[p])
  OBVIOUS
<1>4. pids' = [pids EXCEPT ![p].regs = regs, ![p].syscall_num = nr]
  BY <1>3, Zenon DEF HandleEnter
<1>5. \A q \in DOMAIN pids : /\ q \in DOMAIN pids' /\ pids'[q].fds = pids[q].fds
                             /\ q # p => pids'[q] = pids[q]
                             /\ q = p => pids'[q].regs = regs
  <2>1. pids[p] \in Process /\ pids \in [DOMAIN pids -> Process]
    BY <1>1 DEF Tables, TablesType
  <2>2. PICK t : t = [pids[p] EXCEPT !.regs = regs, !.syscall_num = nr]
    OBVIOUS
  <2>3. t.fds = pids[p].fds /\ t.regs = regs
    BY <2>1, <2>2 DEF Process
  <2>4. pids' = [pids EXCEPT ![p] = t]
    BY <1>4, <2>1, <2>2 DEF Process
  <2> QED
    BY <2>1, <2>3, <2>4
<1>6. DOMAIN pids' = DOMAIN pids
  BY <1>4
<1>7. Views'
  <2> SUFFICES ASSUME Plain', NEW fd \in Mon PROVE View(fd)'
    BY DEF Views
  <2>1. Plain
    BY GoingPlain
  <2>2. Root \in DOMAIN pids /\ task[p].pos = "enter"
    BY <1>2, <2>1, PlainRoot
  <2>3. View(fd) /\ ~Changed(p, fd)
    BY <2>1, <2>2 DEF Heard, Views, Changed
  <2>4. Shown(fd)' = Shown(fd)
    BY <1>1, <1>5, <2>2 DEF Shown
  <2> QED
    BY <2>3, <2>4, GoingView
<1>8. ASSUME "early" \notin world, NEW q \in DOMAIN pids' \cap Live
      PROVE  \/ q # p /\ q \in DOMAIN pids /\ pids'[q].regs = pids[q].regs
             \/ q = p /\ task[q].pos = "enter" /\ pids'[q].regs = RegsOf(task[q])
  BY <1>2, <1>3, <1>5, <1>6, <1>8
<1> QED
  BY <1>7, <1>8, GoingHeard

LEMMA CloneHeard ==
  ASSUME Loop, Looping, Tasks, Follow, Heard, Tables(pids, arcs), NEW p \in Pids, Going(p),
         cur.pid = p, HandleClone
  PROVE  Heard'
<1>1. task[p].pos \in {"event", "dead"}
  BY DEF Loop, HandledAt, HandleClone, Handling
<1>2. PICK q : q = task[p].call.child
  OBVIOUS
<1>3. \/ UNCHANGED <<pids, arcs>>
      \/ /\ q \notin DOMAIN pids \cup {NoPid}
         /\ pids' = [r \in DOMAIN pids \cup {q} |->
                      IF r = q THEN [syscall_num |-> "0", regs |-> NoRegs, fds |-> pids[Parent(q)].fds]
                      ELSE pids[r]]
         /\ arcs' = Recount(arcs, pids', {}, pids', {q} \X Mon)
  BY <1>2, Zenon DEF HandleClone, CloneFds
<1>4. CASE UNCHANGED <<pids, arcs>>
  <2>1. Views'
    <3> SUFFICES ASSUME Plain', NEW fd \in Mon PROVE View(fd)'
      BY DEF Views
    <3>1. Plain
      BY GoingPlain
    <3>2. View(fd) /\ ~Changed(p, fd) /\ Shown(fd)' = Shown(fd)
      BY <1>1, <1>4, <3>1 DEF Heard, Views, Changed, Shown
    <3> QED
      BY <3>2, GoingView
  <2>2. ASSUME "early" \notin world, NEW r \in DOMAIN pids' \cap Live
        PROVE  \/ r # p /\ r \in DOMAIN pids /\ pids'[r].regs = pids[r].regs
               \/ r = p /\ task[r].pos = "event" /\ r \in DOMAIN pids /\ pids'[r].regs = pids[r].regs
    BY <1>1, <1>4, <2>2 DEF Live
  <2> QED
    BY <2>1, <2>2, GoingHeard
<1>5. CASE /\ q \notin DOMAIN pids \cup {NoPid}
           /\ pids' = [r \in DOMAIN pids \cup {q} |->
                        IF r = q THEN [syscall_num |-> "0", regs |-> NoRegs, fds |-> pids[Parent(q)].fds]
                        ELSE pids[r]]
           /\ arcs' = Recount(arcs, pids', {}, pids', {q} \X Mon)
  <2>1. /\ DOMAIN pids' = DOMAIN pids \cup {q} /\ q \notin DOMAIN pids
        /\ \A r \in DOMAIN pids : pids'[r] = pids[r]
    BY <1>5
  <2>2. task[p].pos = "event"
    <3>1. task[p].pos = "dead" => task[p].call.child = NoPid
      BY DEF Tasks, Calling, NoCall
    <3> QED
      BY <1>1, <1>2, <1>5, <3>1
  <2>3. "early" \notin world => task[q].pos \in {"init", "dead"}
    BY <1>2, <2>2 DEF Follow, Unseen
  <2>4. Views'
    <3> SUFFICES ASSUME Plain', NEW fd \in Mon PROVE View(fd)'
      BY DEF Views
    <3>1. Plain
      BY GoingPlain
    <3>2. View(fd) /\ ~Changed(p, fd)
      BY <2>2, <3>1 DEF Heard, Views, Changed
    <3>3. PICK qs, out, new : qs = pids' /\ out = arcs' /\ new = {q} \X Mon
      OBVIOUS
    <3>4. Named(arcs, out) /\ Tables(qs, out)
      <4>1. out = Recount(arcs, qs, {}, qs, new) /\ StringsType(arcs)
        BY <1>5, <3>3 DEF Tables
      <4>2. Named(arcs, out)
        BY <4>1, RecountNamed
      <4> QED
        BY <3>3, <4>2, CloneTables
    <3>5. Root \in DOMAIN qs /\ qs[Root].fds = pids[Root].fds
      BY <2>1, <3>1, <3>3, PlainRoot
    <3>6. Name(out, qs[Root].fds[fd]) = Name(arcs, pids[Root].fds[fd])
      BY <3>4, <3>5, StillShown
    <3>7. Shown(fd)' = Shown(fd)
      BY <3>3, <3>6 DEF Shown
    <3> QED
      BY <3>2, <3>7, GoingView
  <2>5. ASSUME "early" \notin world, NEW r \in DOMAIN pids' \cap Live
        PROVE  \/ r # p /\ task[r].pos \notin InCall
               \/ r # p /\ r \in DOMAIN pids /\ pids'[r].regs = pids[r].regs
               \/ r = p /\ task[r].pos = "event" /\ r \in DOMAIN pids /\ pids'[r].regs = pids[r].regs
    <3>1. CASE r = q
      BY <2>2, <2>3, <2>5, <3>1 DEF InCall
    <3>2. CASE r # q
      BY <2>1, <2>2, <3>2
    <3> QED
      BY <3>1, <3>2
  <2> QED
    BY <2>4, <2>5, GoingHeard
<1> QED
  BY <1>3, <1>4, <1>5

\* The table as the handlers of system calls find it: the call is no longer noted.
Left(ps, p) ==
  /\ Tables(ps, arcs) /\ DOMAIN ps = DOMAIN pids /\ p \in DOMAIN ps
  /\ \A q \in DOMAIN pids : ps[q].fds = pids[q].fds /\ ps[q].regs = pids[q].regs

\* What HandleExit does in step with the task p.
LEMMA ExitIs ==
  ASSUME Loop, Looping, Follow, Tables(pids, arcs), NEW p \in Pids, HandleExit(p), "early" \notin world
  PROVE  /\ p \in Live \cap DOMAIN pids /\ task[p].pos = "exit"
         /\ \E ps : /\ Left(ps, p)
                    /\ \/ task[p].call.nr = "open" /\ SyscallOpen(ps, p, task[p].ret) /\ UNCHANGED decoded
                       \/ task[p].call.nr = "close" /\ SyscallClose(ps, p) /\ UNCHANGED decoded
                       \/ task[p].call.nr \in Writing /\ SyscallWrite(ps, p, task[p].call.nr)
                       \/ /\ task[p].call.nr \in {"clone", "fork"} /\ pids' = ps
                          /\ UNCHANGED <<arcs, decoded>>
<1>1. /\ p \in DOMAIN pids /\ task[p].pos # "dead" /\ cur.pid = p /\ cur.stop = "syscall"
      /\ pids[p].syscall_num # "0"
  BY Zenon DEF HandleExit, AtSyscall, Handling
<1>2. task[p].pos \in {"enter", "exit"} /\ p \in Live \cap DOMAIN pids
  BY <1>1 DEF Loop, HandledAt, Live, None
<1>3. task[p].pos = "exit" /\ pids[p].syscall_num = task[p].call.nr
  BY <1>1, <1>2 DEF Follow, InStep
<1>4. PICK ps, nr, regs : ps = [pids EXCEPT ![p].syscall_num = "0"] /\ nr = "0" /\ regs = pids[p].regs
  OBVIOUS
<1>5. Left(ps, p)
  <2>1. pids[p] \in Process /\ pids \in [DOMAIN pids -> Process]
    BY <1>1 DEF Tables, TablesType
  <2>2. nr \in Nrs /\ regs \in Regs
    BY <1>4, <2>1 DEF Process, Nrs
  <2>3. ps = Noted(pids, p, nr, regs)
    BY <1>1, <1>4, <2>1 DEF Process, Noted
  <2>4. Tables(ps, arcs) /\ DOMAIN ps = DOMAIN pids /\ ps[p].regs = regs
        /\ \A q \in DOMAIN pids \ {p} : ps[q] = pids[q]
    BY <1>1, <2>2, <2>3, NotedTables
  <2>5. ps[p].fds = pids[p].fds
    BY <1>1, <1>4, <2>1 DEF Process
  <2> QED
    BY <1>1, <1>4, <2>4, <2>5 DEF Left
<1>6. RegsOf(task[p]).r0 = task[p].ret
  BY <1>3 DEF RegsOf
<1>7. \/ task[p].call.nr = "open" /\ SyscallOpen(ps, p, task[p].ret) /\ UNCHANGED decoded
      \/ task[p].call.nr = "close" /\ SyscallClose(ps, p) /\ UNCHANGED decoded
      \/ task[p].call.nr \in Writing /\ SyscallWrite(ps, p, task[p].call.nr)
      \/ task[p].call.nr \in {"clone", "fork"} /\ pids' = ps /\ UNCHANGED <<arcs, decoded>>
  BY <1>3, <1>4, <1>6, Zenon DEF HandleExit
<1> QED
  BY <1>2, <1>3, <1>5, <1>7

LEMMA ExitShown ==
  ASSUME Loop, Follow, Heard, Plain, NEW p \in Live \cap DOMAIN pids, task[p].pos = "exit",
         NEW ps, Left(ps, p), NEW fd \in Mon,
         \/ task[p].call.nr = "open" /\ SyscallOpen(ps, p, task[p].ret)
         \/ task[p].call.nr = "close" /\ SyscallClose(ps, p)
         \/ task[p].call.nr \in Writing \cup {"clone", "fork"} /\ pids' = ps /\ arcs' = arcs
  PROVE  /\ Changed(p, fd) => Shown(fd)' = After(p)
         /\ ~Changed(p, fd) => Shown(fd)' = Shown(fd)
<1>1. /\ Root \in DOMAIN ps /\ p \in DOMAIN ps /\ Tables(ps, arcs)
      /\ ps[Root].fds = pids[Root].fds /\ ps[p].regs = pids[p].regs
      /\ "early" \notin world /\ "unmap" \notin world /\ p \in Pids
  BY PlainRoot DEF Left, Live
<1>2. Shown(fd) = Name(arcs, ps[Root].fds[fd])
  BY <1>1 DEF Shown
<1>3. /\ pids[p].regs.r0 = task[p].call.fd
      /\ task[p].call.nr = "open" => pids[p].regs.file = task[p].call.file
  BY <1>1 DEF Heard, Registers, InCall
<1>4. CASE task[p].call.nr = "open" /\ SyscallOpen(ps, p, task[p].ret)
  <2>1. PICK ret : ret = task[p].ret
    OBVIOUS
  <2>2. Changed(p, fd) <=> ret = fd
    BY <1>4, <2>1 DEF Changed
  <2>3. After(p) = task[p].call.file
    BY <1>4 DEF After
  <2>4. CASE ret \notin Mon
    <3>1. pids' = ps /\ arcs' = arcs
      BY <1>4, <2>1, <2>4, Zenon DEF SyscallOpen
    <3> QED
      BY <1>2, <2>2, <2>4, <3>1 DEF Shown
  <2>5. CASE ret \in Mon
    <3>1. ps[p].regs.file = task[p].call.file /\ ps[p].regs.file \in Files
      BY <1>1, <1>3, <1>4 DEF Heard, Opening
    <3>2. SyscallOpen(ps, p, ret)
      BY <1>4, <2>1
    <3>3. Reshown(ps, arcs, pids', arcs', Root, ret, ps[p].regs.file)
      BY <1>1, <2>5, <3>1, <3>2, OpenShown
    <3>4. Shown(fd)' = IF fd = ret THEN ps[p].regs.file ELSE Shown(fd)
      BY <1>2, <3>3 DEF Reshown, Shown
    <3> QED
      BY <2>2, <2>3, <3>1, <3>4
  <2> QED
    BY <2>4, <2>5
<1>5. CASE task[p].call.nr = "close" /\ SyscallClose(ps, p)
  <2>1. PICK f : f = ps[p].regs.r0
    OBVIOUS
  <2>2. Changed(p, fd) <=> f = fd
    BY <1>1, <1>3, <1>5, <2>1 DEF Changed
  <2>3. After(p) = None
    BY <1>5 DEF After
  <2>4. CASE f \notin Mon
    <3>1. pids' = ps /\ arcs' = arcs
      BY <1>5, <2>1, <2>4, Zenon DEF SyscallClose
    <3> QED
      BY <1>2, <2>2, <2>4, <3>1 DEF Shown
  <2>5. CASE f \in Mon
    <3>1. Reshown(ps, arcs, pids', arcs', Root, f, None)
      BY <1>1, <1>5, <2>1, <2>5, CloseShown
    <3>2. Shown(fd)' = IF fd = f THEN None ELSE Shown(fd)
      BY <1>2, <3>1 DEF Reshown, Shown
    <3> QED
      BY <2>2, <2>3, <3>2
  <2> QED
    BY <2>4, <2>5
<1>6. CASE task[p].call.nr \in Writing \cup {"clone", "fork"} /\ pids' = ps /\ arcs' = arcs
  BY <1>2, <1>6 DEF Changed, Shown, Writing
<1> QED
  BY <1>4, <1>5, <1>6

LEMMA ExitHeard ==
  ASSUME Loop, Looping, Follow, Heard, Tables(pids, arcs), NEW p \in Pids, Going(p), HandleExit(p)
  PROVE  Heard'
<1>1. Views'
  <2> SUFFICES ASSUME Plain', NEW fd \in Mon PROVE View(fd)'
    BY DEF Views
  <2>1. Plain /\ "early" \notin world
    BY GoingPlain, PlainRoot
  <2>2. PICK ps :
          /\ Left(ps, p)
          /\ \/ task[p].call.nr = "open" /\ SyscallOpen(ps, p, task[p].ret)
             \/ task[p].call.nr = "close" /\ SyscallClose(ps, p)
             \/ task[p].call.nr \in Writing /\ SyscallWrite(ps, p, task[p].call.nr)
             \/ task[p].call.nr \in {"clone", "fork"} /\ pids' = ps /\ arcs' = arcs
    BY <2>1, ExitIs
  <2>3. p \in Live \cap DOMAIN pids /\ task[p].pos = "exit"
    BY <2>1, ExitIs
  <2>4. SyscallWrite(ps, p, task[p].call.nr) => pids' = ps /\ arcs' = arcs
    BY Zenon DEF SyscallWrite
  <2>5. /\ Changed(p, fd) => Shown(fd)' = After(p)
        /\ ~Changed(p, fd) => Shown(fd)' = Shown(fd)
    BY <2>1, <2>2, <2>3, <2>4, ExitShown
  <2>6. View(fd)
    BY <2>1 DEF Heard, Views
  <2> QED
    BY <2>5, <2>6, GoingView
<1>2. ASSUME "early" \notin world, NEW q \in DOMAIN pids' \cap Live
      PROVE  \/ q # p /\ q \in DOMAIN pids /\ pids'[q].regs = pids[q].regs
             \/ q = p /\ task[q].pos \in {"init", "exit"}
  <2>1. PICK ps :
          /\ Left(ps, p)
          /\ SyscallOpen(ps, p, task[p].ret) \/ SyscallClose(ps, p) \/ pids' = ps
    BY <1>2, ExitIs DEF SyscallWrite
  <2>2. TablesType(ps) /\ StringsType(arcs) /\ p \in DOMAIN ps
    BY <2>1 DEF Left, Tables
  <2>3. SameCalls(ps, pids')
    <3>1. CASE SyscallOpen(ps, p, task[p].ret)
      BY <2>2, <3>1, OpenCalls
    <3>2. CASE SyscallClose(ps, p)
      BY <2>2, <3>2, CloseCalls
    <3>3. CASE pids' = ps
      BY <3>3 DEF SameCalls
    <3> QED
      BY <2>1, <3>1, <3>2, <3>3
  <2>4. q \in DOMAIN pids /\ pids'[q].regs = pids[q].regs
    BY <2>1, <2>3 DEF SameCalls, Left
  <2>5. task[p].pos = "exit"
    BY <1>2, ExitIs
  <2> QED
    BY <2>4, <2>5
<1> QED
  BY <1>1, <1>2, GoingHeard

LEMMA GoneHeard ==
  ASSUME Loop, Looping, Follow, Heard, Tables(pids, arcs), HandleGone, Looping', Follow'
  PROVE  Heard'
<1>1. PICK p : p = cur.pid
  OBVIOUS
<1>2. /\ UNCHANGED <<world, task, fdtab, reports>>
      /\ DOMAIN pids' = DOMAIN pids \ {p} /\ \A q \in DOMAIN pids \ {p} : pids'[q] = pids[q]
      /\ arcs' = Recount(arcs, pids, {p} \X Mon, pids, {}) \/ arcs' = arcs
  <2>1. /\ UNCHANGED <<world, fdtab, reports>> /\ pids' = [q \in DOMAIN pids \ {p} |-> pids[q]]
        /\ arcs' = Recount(arcs, pids, {p} \X Mon, pids, {}) \/ arcs' = arcs
    BY <1>1, Zenon DEF HandleGone, Handling, FreeFds
  <2>2. UNCHANGED task
    BY DEF HandleGone, LeaveAll, Looping
  <2> QED
    BY <2>1, <2>2
<1>3. Live' = Live
  BY <1>2 DEF Live
<1>4. Distinct' /\ Creating' /\ Opening'
  BY <1>2 DEF Heard, Distinct, Creating, Opening
<1>5. Registers'
  BY <1>2, <1>3 DEF Heard, Registers
<1>6. Views'
  <2> SUFFICES ASSUME Plain', NEW fd \in Mon PROVE View(fd)'
    BY DEF Views
  <2>1. Plain /\ View(fd)
    BY <1>2, <1>3 DEF Plain, Heard, Views
  <2>2. Root \in DOMAIN pids'
    <3>1. PICK r \in Pids : ~Ended(r)'
      <4>1. PICK r \in Live' : TRUE
        BY DEF Plain
      <4>2. r \in Pids /\ ~Ended(r)'
        BY DEF Live, Ended
      <4> QED
        BY <4>2
    <3> QED
      BY <3>1 DEF Follow, LeaderLast, Plain
  <2>3. PICK qs, out, old : qs = pids' /\ out = arcs' /\ old = {p} \X Mon
    OBVIOUS
  <2>4. Named(arcs, out) /\ Tables(qs, out)
    <3>1. StringsType(arcs)
      BY DEF Tables
    <3>2. CASE out = Recount(arcs, pids, old, pids, {})
      BY <2>3, <3>1, <3>2, RecountNamed, GoneTables
    <3>3. CASE out = arcs
      BY <2>3, <3>3, GoneTables DEF Named
    <3> QED
      BY <1>2, <2>3, <3>2, <3>3
  <2>5. Root \in DOMAIN qs /\ qs[Root].fds = pids[Root].fds
    BY <1>2, <2>2, <2>3
  <2>6. Name(out, qs[Root].fds[fd]) = Name(arcs, pids[Root].fds[fd])
    BY <2>4, <2>5, StillShown
  <2>7. Shown(fd)' = Shown(fd)
    BY <2>3, <2>6 DEF Shown
  <2>8. Changes(fd)' = Changes(fd) /\ Writers(fd)' = Writers(fd)
    BY <1>2 DEF Changes, Writers, Changed, Wrote
  <2>9. Afters' = Afters /\ Written' = Written
    BY <1>2 DEF Afters, Written, After
  <2> QED
    BY <1>2, <2>1, <2>7, <2>8, <2>9 DEF View
<1> QED
  BY <1>4, <1>5, <1>6 DEF Heard

LEMMA HeardInit == Init => Heard
<1> SUFFICES ASSUME Init PROVE Heard
  OBVIOUS
<1>1. PICK pos \in {"user", "gone"} :
        task = [p \in Pids |-> IF p = Root
                  THEN [Unborn EXCEPT !.pos = pos, !.tgid = Root, !.ppid = Me] ELSE Unborn]
  BY DEF Init, WorldInit
<1>2. Unborn.pos = None /\ Unborn.call = NoCall /\ DOMAIN Unborn = {"pos", "tgid", "ppid", "call", "ret"}
  BY DEF Unborn
<1>3. \A p \in Pids : task[p].pos \in {None, "user", "gone"} /\ task[p].call = NoCall
  BY <1>1, <1>2
<1>4. Distinct /\ Creating /\ Opening /\ Registers
  <2>1. \A p \in Pids : reports[p] = 0
    BY DEF Init, WorldInit
  <2>2. Distinct
    BY <2>1 DEF Distinct
  <2>3. NoCall.nr = "0" /\ \A p \in Pids : task[p].pos \notin InCall
    BY <1>3 DEF NoCall, None, InCall
  <2>4. Creating /\ Opening
    BY <1>3, <2>3 DEF Creating, Opening, InCall
  <2>5. Registers
    BY <2>3 DEF Registers, Live
  <2> QED
    BY <2>2, <2>4, <2>5
<1>5. Views
  <2> SUFFICES ASSUME NEW fd \in Mon PROVE View(fd)
    BY DEF Views
  <2>1. Changes(fd) = {} /\ Writers(fd) = {}
    BY <1>3 DEF Changes, Writers, Changed, Wrote, None
  <2>2. fd \in Fds /\ Root \in Pids
    BY MonFinite, TraceesAssumption
  <2>3. fdtab[Root][fd] = IF fd = 0 THEN Std ELSE None
    BY <2>2 DEF Init, WorldInit
  <2>4. pids[Root].fds[fd] = IF fd = 0 THEN 1 ELSE NoArc
    BY DEF Init
  <2>5. arcs[1].str = Std
    BY DEF Init
  <2>6. Shown(fd) = fdtab[Root][fd]
    BY <2>3, <2>4, <2>5 DEF Shown, Name, NoArc
  <2> QED
    BY <2>1, <2>6 DEF View, Sees, Believed
<1> QED
  BY <1>4, <1>5 DEF Heard

LEMMA UntouchedHeard ==
  ASSUME Loop, Tasks, Follow, Heard, Untouched
  PROVE  Heard'
<1>1. Looping /\ WorldStep /\ UNCHANGED <<world, pids, arcs>>
  BY DEF Untouched, WorldStep, tracerVars
<1>2. ASSUME NEW p \in Pids, Stopping(p), Effect(p) PROVE Heard'
  BY <1>1, <1>2, StoppingHeard
<1>3. ASSUME NEW p \in Pids, NEW q \in Pids, Created(p, q) PROVE Heard'
  BY <1>1, <1>3, CreatedHeard
<1>4. ASSUME NEW gone \in SUBSET Live, Deaths(gone) PROVE Heard'
  BY <1>1, <1>4, DeathsHeard
<1> QED
  BY <1>1, <1>2, <1>3, <1>4, WorldCases

LEMMA HandledHeard ==
  ASSUME Loop, Looping, Tasks, Follow, Heard, Tables(pids, arcs), NEW p \in Pids,
         HandleUntracked(p) \/ HandleEnter(p) \/ HandleExit(p)
  PROVE  Heard'
<1>1. /\ cur.pid = p /\ cur.stop = "syscall" /\ Continue(p)
      /\ UNCHANGED <<world, fdtab, reports, ncalls, loop>>
  BY Zenon DEF HandleUntracked, HandleEnter, HandleExit, AtSyscall, Handling
<1>2. Going(p)
  <2>1. cur.stop # None /\ Continue(cur.pid)
    BY <1>1 DEF None
  <2> QED
    BY <1>1, <2>1, ContinueIs
<1>3. CASE HandleUntracked(p)
  <2>1. p \notin DOMAIN pids /\ UNCHANGED <<pids, arcs>>
    BY <1>3 DEF HandleUntracked
  <2>2. Plain => task[p].pos # "exit"
    <3> SUFFICES ASSUME Plain, task[p].pos = "exit" PROVE FALSE
      OBVIOUS
    <3>1. p \in Live /\ "fork" \notin world /\ "early" \notin world
      BY PlainRoot DEF Live, None
    <3>2. PICK q \in Live : task[q].pos = "event" /\ task[q].call.child = p
      BY <2>1, <3>1 DEF Follow, Tracked, Announced
    <3>3. q \in Pids
      BY DEF Live
    <3> QED
      BY <3>1, <3>2, <3>3 DEF Follow, Unseen
  <2> QED
    BY <1>2, <2>1, <2>2, StillHeard
<1>4. CASE HandleEnter(p)
  BY <1>2, <1>4, EnterHeard
<1>5. CASE HandleExit(p)
  BY <1>2, <1>5, ExitHeard
<1> QED
  BY <1>3, <1>4, <1>5

LEMMA HeardStep ==
  ASSUME Loop, Tables(pids, arcs), Looping => Tasks /\ Follow /\ Heard, [Next]_vars, Looping' => Follow'
  PROVE  Looping' => Heard'
<1>1. CASE UNCHANGED vars
  <2>1. UNCHANGED <<world, task, fdtab, reports, pids, arcs, loop>>
    BY <1>1 DEF vars, worldVars, tracerVars
  <2>2. (Distinct => Distinct') /\ (Creating => Creating') /\ (Opening => Opening')
    BY <2>1 DEF Distinct, Creating, Opening
  <2>3. Live' = Live
    BY <2>1 DEF Live
  <2>4. Registers => Registers'
    BY <2>1, <2>3 DEF Registers
  <2>5. ASSUME NEW fd \in Mon, View(fd) PROVE View(fd)'
    <3>1. Changes(fd)' = Changes(fd) /\ Writers(fd)' = Writers(fd)
      BY <2>1 DEF Changes, Writers, Changed, Wrote
    <3>2. Afters' = Afters /\ Written' = Written
      BY <2>1 DEF Afters, Written, After
    <3>3. Shown(fd)' = Shown(fd)
      BY <2>1 DEF Shown
    <3> QED
      BY <2>1, <2>5, <3>1, <3>2, <3>3 DEF View
  <2>6. Views => Views'
    BY <2>1, <2>3, <2>5 DEF Views, Plain
  <2>7. Looping' => Looping
    BY <2>1 DEF Looping
  <2> QED
    BY <2>2, <2>4, <2>6, <2>7 DEF Heard
<1>2. CASE Untouched
  <2>1. Looping
    BY <1>2 DEF Untouched
  <2> QED
    BY <1>2, <2>1, UntouchedHeard
<1>3. CASE Wait
  <2>1. Looping
    BY <1>3 DEF Wait
  <2>2. PICK p \in Pids : Waited(p)
    BY <1>3, WaitIs
  <2> QED
    BY <2>1, <2>2, WaitedHeard
<1>4. CASE NoChildren
  BY <1>4 DEF NoChildren, Looping
<1>5. CASE HandleClone \/ HandleInit
  <2>1. /\ Looping /\ cur.stop \in {"event", "init"} /\ Continue(cur.pid)
        /\ UNCHANGED <<world, fdtab, reports, ncalls, loop>>
    BY <1>5 DEF HandleClone, HandleInit, Handling
  <2>2. cur.stop # None /\ cur.pid \in Pids
    BY <2>1, HandledPid DEF None
  <2>3. PICK p \in Pids : p = cur.pid /\ Going(p)
    BY <2>1, <2>2, ContinueIs
  <2>4. CASE HandleClone
    BY <2>1, <2>3, <2>4, CloneHeard
  <2>5. CASE HandleInit
    <3>1. task[p].pos \in {"init", "dead"} /\ UNCHANGED <<pids, arcs>>
      BY <2>3, <2>5 DEF Loop, HandledAt, HandleInit, Handling
    <3> QED
      BY <2>1, <2>3, <3>1, StillHeard
  <2> QED
    BY <1>5, <2>4, <2>5
<1>6. CASE HandleGone
  <2>1. Looping
    BY <1>6 DEF HandleGone, Handling
  <2> QED
    BY <1>6, <2>1, GoneHeard
<1>7. ASSUME NEW p \in Pids, HandleUntracked(p) \/ HandleEnter(p) \/ HandleExit(p) PROVE Heard'
  <2>1. Looping
    BY <1>7, Zenon DEF HandleUntracked, HandleEnter, HandleExit, AtSyscall, Handling
  <2> QED
    BY <1>7, <2>1, HandledHeard
<1>8. ASSUME NEW p \in Pids, HandleVanished(p) PROVE ~Looping'
  BY <1>8 DEF HandleVanished, LeaveAll, Looping
<1> QED
  BY <1>1, <1>2, <1>3, <1>4, <1>5, <1>6, <1>7, <1>8 DEF Next, TracerStep

\* A write is handled when all that came before it has been, so what is shown is
\* what it wrote to.
LEMMA WriteDecoded ==
  ASSUME Loop, Looping, Follow, Heard, Plain, NEW p \in Live \cap DOMAIN pids, cur.pid = p,
         task[p].pos = "exit", task[p].call.nr \in Writing, NEW ps, Left(ps, p),
         SyscallWrite(ps, p, task[p].call.nr),
         EachDecoded
  PROVE  EachDecoded'
<1>1. PICK fd : fd = ps[p].regs.r0
  OBVIOUS
<1>2. /\ p \in Pids /\ Root \in DOMAIN ps /\ p \in DOMAIN ps /\ Tables(ps, arcs)
      /\ ps[Root].fds = pids[Root].fds /\ ps[p].regs = pids[p].regs /\ "early" \notin world
  BY PlainRoot DEF Left, Live
<1>3. fd = task[p].call.fd
  BY <1>1, <1>2 DEF Heard, Registers, InCall
<1>4. CASE decoded' = decoded
  BY <1>4 DEF EachDecoded
<1>5. CASE fd \in Mon /\ decoded' # decoded
  <2>1. decoded' = [file |-> IF ps[p].fds[fd] = NoArc THEN None ELSE Known(arcs[ps[p].fds[fd]].str),
                    real |-> Known(task[p].call.file)]
    BY <1>1, <1>5 DEF SyscallWrite
  <2>2. ps[p].fds = ps[Root].fds
    BY <1>2 DEF Tables, Alike
  <2>3. PICK n : n = ps[p].fds[fd]
    OBVIOUS
  <2>4. Shown(fd) = Name(arcs, n)
    BY <1>2, <2>2, <2>3 DEF Shown
  <2>5. (IF n = NoArc THEN None ELSE Known(arcs[n].str)) = Known(Name(arcs, n))
    BY TraceesAssumption DEF Name, Known
  <2>6. Shown(fd) = task[p].call.file
    <3>1. reports[p] = 0 /\ reports \in [Pids -> Nat]
      BY <1>2 DEF Loop, Queued, WorldType
    <3>2. p \in Writers(fd)
      BY <1>2, <1>3 DEF Writers, Wrote
    <3>3. PICK S : S = {q \in Changes(fd) : reports[q] < reports[p]}
      OBVIOUS
    <3>4. Believed(S, reports, Afters, Shown(fd), Written[p])
      BY <1>5, <3>2, <3>3 DEF Heard, Views, View, Sees
    <3>5. S = {}
      <4> SUFFICES ASSUME NEW q \in S PROVE FALSE
        OBVIOUS
      <4>1. q \in Pids /\ reports[q] < 0 /\ reports[q] \in Nat
        BY <3>1, <3>3 DEF Changes
      <4> QED
        BY <4>1
    <3>6. Written[p] = task[p].call.file
      BY <1>2 DEF Written
    <3> QED
      BY <3>4, <3>5, <3>6 DEF Believed
  <2> QED
    BY <2>1, <2>3, <2>4, <2>5, <2>6 DEF EachDecoded
<1>6. fd \notin Mon => decoded' = decoded
  BY <1>1 DEF SyscallWrite
<1> QED
  BY <1>4, <1>5, <1>6

LEMMA DecodedStep ==
  ASSUME Loop, Looping => Follow /\ Heard, Tables(pids, arcs), [Next]_vars, Attribution
  PROVE  Attribution'
<1>1. CASE UNCHANGED <<world, decoded>>
  BY <1>1 DEF Attribution, EachDecoded
<1>2. ASSUME NEW p \in Pids, HandleExit(p) PROVE Attribution'
  <2>1. Looping /\ UNCHANGED world /\ cur.pid = p
    BY <1>2, Zenon DEF HandleExit, AtSyscall, Handling
  <2> SUFFICES ASSUME world \cap {"fork", "early", "reorder", "unmap"} = {} PROVE EachDecoded'
    BY <2>1 DEF Attribution
  <2>2. EachDecoded /\ "early" \notin world
    BY DEF Attribution
  <2>3. p \in Live \cap DOMAIN pids /\ task[p].pos = "exit"
    BY <1>2, <2>1, <2>2, ExitIs
  <2>4. Plain
    BY <2>3 DEF Plain
  <2>5. PICK ps :
          /\ Left(ps, p)
          /\ UNCHANGED decoded \/ (task[p].call.nr \in Writing /\ SyscallWrite(ps, p, task[p].call.nr))
    BY <1>2, <2>1, <2>2, ExitIs
  <2>6. CASE UNCHANGED decoded
    BY <2>2, <2>6 DEF EachDecoded
  <2>7. CASE task[p].call.nr \in Writing /\ SyscallWrite(ps, p, task[p].call.nr)
    BY <2>1, <2>2, <2>3, <2>4, <2>5, <2>7, WriteDecoded
  <2> QED
    BY <2>5, <2>6, <2>7
<1>3. CASE Untouched
  BY <1>1, <1>3 DEF Untouched, WorldStep, tracerVars
<1>4. CASE Wait \/ NoChildren \/ HandleClone \/ HandleGone \/ HandleInit
  BY <1>1, <1>4, Zenon DEF Wait, NoChildren, HandleClone, HandleGone, HandleInit, Handling, worldVars
<1>5. ASSUME NEW p \in Pids, HandleUntracked(p) \/ HandleVanished(p) \/ HandleEnter(p) PROVE Attribution'
  BY <1>1, <1>5, Zenon DEF HandleUntracked, HandleVanished, HandleEnter, AtSyscall, Handling
<1>6. CASE UNCHANGED vars
  BY <1>1, <1>6 DEF vars, worldVars, tracerVars
<1> QED
  BY <1>2, <1>3, <1>4, <1>5, <1>6 DEF Next, TracerStep

\* A write that is decoded is decoded as one to the file it went to, when threads
\* share their descriptors and stops are reported in the order in which they happened.
THEOREM AttributionHolds == Spec => []Attribution
<1> DEFINE IInv == /\ Loop /\ Tables(pids, arcs) /\ (Looping => Tasks /\ Follow)
                   /\ (Looping => Heard) /\ Attribution
<1>1. Init => IInv
  <2>1. Init => Attribution
    BY DEF Init, Attribution, EachDecoded, NoDecode
  <2> QED
    BY <2>1, LoopInit, TablesInit, FollowInit, HeardInit
<1>2. IInv /\ [Next]_vars => IInv'
  <2> SUFFICES ASSUME Loop, Tables(pids, arcs), Looping => Tasks /\ Follow, Looping => Heard,
                      Attribution, [Next]_vars
               PROVE  /\ Loop' /\ Tables(pids', arcs') /\ (Looping' => Tasks' /\ Follow')
                      /\ (Looping' => Heard') /\ Attribution'
    OBVIOUS
  <2>1. Loop' /\ Tables(pids', arcs') /\ (Looping' => Tasks' /\ Follow')
    BY LoopStep, TablesStep, FollowStep
  <2> QED
    BY <2>1, HeardStep, DecodedStep
<1>3. IInv => Attribution
  OBVIOUS
<1> QED
  BY <1>1, <1>2, <1>3, PTL DEF Spec
=============================================================================
