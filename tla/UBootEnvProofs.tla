---------------------------- MODULE UBootEnvProofs ----------------------------
(***************************************************************************)
(* setenv for environments of any length over any names and values: a      *)
(* setenv of which no call fails leaves an environment that U-Boot can     *)
(* read, and whatever fails it changes the named variable and no other.    *)
(***************************************************************************)
EXTENDS UBootEnv, EnvDataProofs

-----------------------------------------------------------------------------
(* The environment on the flash. *)

\* The cells of an environment are those of its variables and then padding, and
\* a walk over them ends where the variables do.
LEMMA PadType ==
  ASSUME NEW e \in Envs
  PROVE  Pad(e) \in [Cells -> (Keys \X Values) \cup {Padding}]
  BY LenProperties DEF Pad, Envs

LEMMA NoVarIsPadding == Padding \notin Keys \X Values
<1>1. \A var \in Keys \X Values : Len(var) = 2
  OBVIOUS
<1>2. Len(Padding) = 1
  BY DEF Padding
<1>3. QED
  BY <1>1, <1>2

LEMMA WalkOverPad ==
  ASSUME NEW e \in Envs, rom.cells = Pad(e)
  PROVE  Vars \in Envs /\ (Len(e) <= EnvLen => Vars = e)
<1>1. Len(e) \in Nat /\ DOMAIN e = 1 .. Len(e) /\ \A k \in 1 .. Len(e) : e[k] \in Keys \X Values
  BY LenProperties DEF Envs
<1>2. EnvLen \in Nat
  BY EnvAssumption
<1>. DEFINE c == IF Len(e) <= EnvLen THEN Len(e) ELSE EnvLen
<1>3. c \in 0 .. EnvLen /\ c \in Nat /\ c <= Len(e) /\ (c < EnvLen => c = Len(e))
  BY <1>1, <1>2
<1>4. \A k \in Cells : rom.cells[k] = IF k <= Len(e) THEN e[k] ELSE Padding
  BY <1>1 DEF Pad, Cells
<1>. HIDE DEF c
<1>5. \A k \in 1 .. c : rom.cells[k] = e[k] /\ e[k] \in Keys \X Values
  <2>1. ASSUME NEW k \in 1 .. c
        PROVE  k \in 1 .. Len(e) /\ k \in Cells /\ k <= Len(e)
    <3>1. k \in Nat /\ 1 <= k /\ k <= c /\ c <= EnvLen
      BY <1>2, <1>3
    <3>2. c \in Nat /\ c <= Len(e) /\ Len(e) \in Nat
      BY <1>1, <1>3
    <3>3. k <= Len(e)
      BY <3>1, <3>2
    <3>4. QED
      BY <1>2, <3>1, <3>2, <3>3 DEF Cells
  <2>2. QED
    BY <1>1, <1>4, <2>1
<1>6. c < EnvLen => rom.cells[c + 1] = Padding
  BY <1>1, <1>2, <1>3, <1>4 DEF Cells
<1>7. Walked(c)
  BY <1>5, <1>6, NoVarIsPadding DEF Walked
<1>8. ASSUME NEW n \in 0 .. EnvLen, Walked(n)
      PROVE  n = c
  <2>1. CASE n < c
    <3>1. rom.cells[n + 1] = Padding /\ n + 1 \in 1 .. c
      BY <1>2, <1>3, <1>8, <2>1 DEF Walked
    <3>2. QED
      BY <1>5, <3>1, NoVarIsPadding
  <2>2. CASE c < n
    <3>1. rom.cells[c + 1] # Padding
      BY <1>3, <1>8, <2>2 DEF Walked
    <3>2. QED
      BY <1>2, <1>3, <1>6, <2>2, <3>1
  <2>3. n < c \/ c < n \/ n = c
    BY <1>2, <1>3
  <2>4. QED
    BY <2>1, <2>2, <2>3
<1>9. (CHOOSE n \in 0 .. EnvLen : Walked(n)) = c
  BY <1>3, <1>7, <1>8
<1>10. Vars = SubSeq(rom.cells, 1, c)
  BY <1>9 DEF Vars
<1>11. /\ Vars \in Envs /\ Len(Vars) = c
       /\ \A k \in 1 .. c : Vars[k] = e[k]
  <2>1. /\ SubSeq(rom.cells, 1, c) \in Seq(Keys \X Values)
        /\ Len(SubSeq(rom.cells, 1, c)) = IF 1 <= c THEN c - 1 + 1 ELSE 0
        /\ \A k \in 1 .. c - 1 + 1 : SubSeq(rom.cells, 1, c)[k] = rom.cells[1 + k - 1]
    <3>1. 1 \in Int /\ c \in Int /\ \A k \in 1 .. c : rom.cells[k] \in Keys \X Values
      BY <1>3, <1>5
    <3>2. QED
      BY <3>1, SubSeqProperties
  <2>2. Len(SubSeq(rom.cells, 1, c)) = c
    BY <1>3, <2>1
  <2>3. \A k \in 1 .. c : SubSeq(rom.cells, 1, c)[k] = rom.cells[k]
    <3>1. \A k \in 1 .. c : k \in 1 .. c - 1 + 1 /\ 1 + k - 1 = k
      BY <1>3
    <3>2. QED
      BY <2>1, <3>1
  <2>4. QED
    BY <1>5, <1>10, <2>1, <2>2, <2>3 DEF Envs
<1>12. ASSUME Len(e) <= EnvLen
       PROVE  Vars = e
  <2>1. Len(Vars) = Len(e) /\ \A k \in 1 .. Len(e) : Vars[k] = e[k]
    BY <1>11, <1>12 DEF c
  <2>2. QED
    BY <1>11, <2>1, SeqEqual DEF Envs
<1>13. QED
  BY <1>11, <1>12

-----------------------------------------------------------------------------
(* The inductive invariant of setenv. *)

\* The checksum is one that setenv computed, or that of no environment.
Summed == rom.crc \in {Blank, Garbage} \/ \E e \in Envs : rom.crc = Pad(e)

Fields ==
  /\ rom = [crc |-> rom.crc, cells |-> rom.cells] /\ rom.cells = [n \in Cells |-> rom.cells[n]]
  /\ Summed
  /\ uenv \in Envs /\ towrite \in Envs
  /\ arg.val \in Values \cup {<<>>}
  /\ pc # "idle" => arg.key \in Keys /\ arg.val \in Values
  /\ pc \in {"idle", "detect", "erase", "write", "verify"}

\* As long as no call failed, the environment is intact but between the erase
\* and the write, when all of it is blank.
Whole ==
  ~hurt => /\ pc \in {"idle", "detect", "verify"} => Intact
           /\ pc = "write" => \A n \in Cells : rom.cells[n] = Blank

\* An erased or torn checksum is that of no cells.
LEMMA NoSum ==
  ASSUME NEW x \in {Blank, Garbage}, NEW cells, cells = [n \in Cells |-> cells[n]]
  PROVE  x # cells
<1>1. Len(x) = 1 /\ DOMAIN x = 1 .. 1
  BY DEF Blank, Garbage
<1>2. DOMAIN cells = 1 .. EnvLen /\ EnvLen \in Nat /\ EnvLen > 1
  BY EnvAssumption DEF Cells
<1>3. 2 \in DOMAIN cells /\ 2 \notin DOMAIN x
  BY <1>1, <1>2
<1>4. QED
  BY <1>3

\* What is intact can be walked over.
LEMMA VarsType == Fields /\ Intact => Vars \in Envs
<1>. SUFFICES ASSUME Fields, Intact
              PROVE  Vars \in Envs
  OBVIOUS
<1>1. rom.cells = [n \in Cells |-> rom.cells[n]] /\ Summed /\ rom.crc = rom.cells
  BY DEF Fields, Intact
<1>2. rom.crc \notin {Blank, Garbage}
  BY <1>1, NoSum
<1>3. PICK e \in Envs : rom.cells = Pad(e)
  BY <1>1, <1>2 DEF Summed
<1>4. QED
  BY <1>3, WalkOverPad

LEMMA FieldsInit == Init => Fields /\ Whole
<1>. SUFFICES ASSUME Init
              PROVE  Fields /\ Whole
  OBVIOUS
<1>1. PICK e \in InitEnvs : rom = Rom(e)
  BY DEF Init
<1>2. e \in Envs
  BY EnvAssumption DEF Envs
<1>3. rom.crc = Pad(e) /\ rom.cells = Pad(e) /\ rom = [crc |-> rom.crc, cells |-> rom.cells]
  BY <1>1 DEF Rom
<1>4. rom.cells = [n \in Cells |-> rom.cells[n]]
  BY <1>3 DEF Pad
<1>5. Summed
  BY <1>2, <1>3 DEF Summed
<1>6. uenv \in Envs /\ towrite \in Envs
  BY EmptySeq DEF Init, Envs
<1>7. Fields
  BY <1>3, <1>4, <1>5, <1>6 DEF Init, Fields
<1>8. Whole
  BY <1>3 DEF Init, Whole, Intact
<1>9. QED
  BY <1>7, <1>8

LEMMA FieldsStep == Fields /\ [Next]_vars => Fields'
<1>. SUFFICES ASSUME Fields, [Next]_vars
              PROVE  Fields'
  OBVIOUS
<1>1. <<>> \in Envs
  BY EmptySeq DEF Envs
<1>. USE <1>1 DEF Fields, Exit
<1>2. CASE SetEnv
  BY <1>2 DEF SetEnv, Summed
<1>3. CASE Edit
  <2>1. Vars \in Envs /\ arg.key \in Keys /\ arg.val \in Values
    BY <1>3, VarsType DEF Edit
  <2>2. SetVar(Vars, arg.key, arg.val) \in Envs
    BY <2>1, SetVarType
  <2>3. uenv' \in Envs /\ towrite' \in Envs /\ pc' \in {"idle", "erase"}
    BY <1>3, <2>1, <2>2 DEF Edit
  <2>4. rom' = rom /\ arg' = arg
    BY <1>3 DEF Edit
  <2>5. QED
    BY <2>1, <2>3, <2>4 DEF Summed
<1>4. CASE NotFound
  BY <1>4 DEF NotFound, Summed
<1>5. CASE EraseEnv
  BY <1>5 DEF EraseEnv, Summed
<1>6. CASE WriteEnv
  BY <1>6 DEF WriteEnv, Summed
<1>7. CASE VerifyEnv
  BY <1>7 DEF VerifyEnv, Summed
<1>8. CASE CutShort
  <2>1. rom' = rom \/ rom' = [rom EXCEPT !.crc = Garbage]
    BY <1>8 DEF CutShort
  <2>2. /\ rom' = [crc |-> rom'.crc, cells |-> rom'.cells] /\ rom'.cells = rom.cells
        /\ rom'.crc \in {rom.crc, Garbage}
    BY <2>1
  <2>3. Summed'
    BY <2>2 DEF Summed
  <2>4. QED
    BY <1>8, <2>2, <2>3 DEF CutShort
<1>9. CASE UNCHANGED vars
  BY <1>9 DEF vars, Summed
<1>10. QED
  BY <1>2, <1>3, <1>4, <1>5, <1>6, <1>7, <1>8, <1>9 DEF Next

\* mtd_write erases one erase block: here the environment fits.
LEMMA WholeStep ==
  ASSUME EnvLen <= PerBlock
  PROVE  Fields /\ hurt \in BOOLEAN /\ Whole /\ [Next]_vars => Whole'
<1>. SUFFICES ASSUME Fields, hurt \in BOOLEAN, Whole, [Next]_vars
              PROVE  Whole'
  OBVIOUS
<1>1. ASSUME (hurt' <=> hurt), rom' = rom, pc' \in {"idle", "detect", "verify"} => pc \in {"detect", "idle", "verify"},
             pc' # "write"
      PROVE  Whole'
  BY <1>1 DEF Whole, Intact
<1>2. CASE SetEnv
  <2>1. hurt' <=> hurt
    BY <1>2, Zenon DEF SetEnv
  <2>2. QED
    BY <1>1, <1>2, <2>1 DEF SetEnv
<1>3. CASE Edit
  <2>1. hurt' <=> hurt
    BY <1>3, Zenon DEF Edit
  <2>2. QED
    BY <1>1, <1>3, <2>1 DEF Edit, Exit
<1>4. CASE NotFound
  BY <1>4, Zenon DEF NotFound, Whole
<1>5. CASE EraseEnv
  <2>1. pc' = "write" /\ rom'.cells = [n \in Cells |-> IF n <= PerBlock THEN Blank ELSE rom.cells[n]]
    BY <1>5 DEF EraseEnv
  <2>2. \A n \in Cells : n <= PerBlock
    BY EnvAssumption DEF Cells
  <2>3. \A n \in Cells : rom'.cells[n] = Blank
    BY <2>1, <2>2
  <2>4. QED
    BY <2>1, <2>3 DEF Whole
<1>6. CASE WriteEnv
  <2>1. /\ pc = "write" /\ pc' = "verify" /\ rom'.crc = Pad(towrite)
        /\ rom'.cells = [n \in Cells |-> Program(rom.cells[n], Pad(towrite)[n])]
    BY <1>6 DEF WriteEnv
  <2>2. hurt' <=> hurt
    BY <1>6, Zenon DEF WriteEnv
  <2>3. CASE ~hurt
    <3>1. \A n \in Cells : rom.cells[n] = Blank
      BY <2>1, <2>3 DEF Whole
    <3>2. \A n \in Cells : Program(rom.cells[n], Pad(towrite)[n]) = Pad(towrite)[n]
      BY <3>1 DEF Program
    <3>3. rom'.cells = [n \in Cells |-> Pad(towrite)[n]]
      BY <2>1, <3>2
    <3>4. rom'.cells = rom'.crc
      BY <2>1, <3>3 DEF Pad
    <3>5. QED
      BY <2>1, <3>4 DEF Whole, Intact
  <2>4. CASE hurt
    BY <2>2, <2>4 DEF Whole
  <2>5. QED
    BY <2>3, <2>4
<1>7. CASE VerifyEnv
  <2>1. hurt' <=> hurt
    BY <1>7, Zenon DEF VerifyEnv
  <2>2. QED
    BY <1>1, <1>7, <2>1 DEF VerifyEnv, Exit
<1>8. CASE CutShort
  BY <1>8, Zenon DEF CutShort, Whole
<1>9. CASE UNCHANGED vars
  <2>1. (hurt' <=> hurt) /\ rom' = rom /\ pc' = pc
    BY <1>9, Zenon DEF vars
  <2>2. QED
    BY <2>1 DEF Whole, Intact
<1>10. QED
  BY <1>2, <1>3, <1>4, <1>5, <1>6, <1>7, <1>8, <1>9 DEF Next

LEMMA HurtStep == hurt \in BOOLEAN /\ [Next]_vars => hurt' \in BOOLEAN
  BY Zenon DEF Next, vars, SetEnv, Edit, NotFound, EraseEnv, WriteEnv, VerifyEnv, CutShort

LEMMA TypeFollows == Fields /\ hurt \in BOOLEAN => TypeOK
<1>. SUFFICES ASSUME Fields, hurt \in BOOLEAN
              PROVE  TypeOK
  OBVIOUS
<1>1. rom.crc \in [Cells -> (Keys \X Values) \cup {Padding}] \cup {Blank, Garbage}
  BY PadType DEF Fields, Summed
<1>2. DOMAIN rom.cells = Cells
  BY DEF Fields
<1>3. IsEnv(uenv) /\ IsEnv(towrite)
  BY LenProperties DEF Fields, Envs, IsEnv
<1>4. QED
  BY <1>1, <1>2, <1>3 DEF Fields, TypeOK

IInv == Fields /\ hurt \in BOOLEAN /\ Whole

\* uboot_setenv_cb: every variable keeps its type, whatever is set, added, removed
\* or interrupted.
THEOREM TypeCorrect == Spec => []TypeOK
<1>. DEFINE Inv == Fields /\ hurt \in BOOLEAN
<1>1. Init => Inv
  BY FieldsInit DEF Init
<1>2. Inv /\ [Next]_vars => Inv'
  BY FieldsStep, HurtStep
<1>3. Inv => TypeOK
  BY TypeFollows
<1>. HIDE DEF Inv
<1>4. QED
  BY <1>1, <1>2, <1>3, PTL DEF Spec

\* setenv, where the environment fits the erase block that mtd_write erases: as
\* long as every call has succeeded, a setenv that has ended leaves an
\* environment that U-Boot can read.
THEOREM SoundHolds ==
  ASSUME EnvLen <= PerBlock
  PROVE  Spec => []Sound
<1>1. Init => IInv
  BY FieldsInit DEF IInv, Init
<1>2. IInv /\ [Next]_vars => IInv'
  BY FieldsStep, WholeStep, HurtStep DEF IInv
<1>3. IInv => Sound
  BY TypeFollows DEF IInv, Whole, Sound, ReadableUnlessHurt
<1>4. QED
  BY <1>1, <1>2, <1>3, PTL DEF Spec

-----------------------------------------------------------------------------
(* setenv as an update of a store. *)

\* The environment has room for one variable of every name.
Room == IsFiniteSet(Keys) /\ Cardinality(Keys) <= EnvLen

LEMMA ProperFits ==
  ASSUME Room, NEW e \in Proper
  PROVE  Len(e) <= EnvLen
<1>1. /\ e \in Envs /\ Len(e) \in Nat /\ DOMAIN e = 1 .. Len(e) /\ Unique(e)
      /\ \A n \in DOMAIN e : e[n][1] \in Keys
  BY EnvType DEF Proper
<1>. DEFINE f == [n \in 1 .. Len(e) |-> e[n][1]]
<1>2. f \in Injection(1 .. Len(e), Keys)
  BY <1>1 DEF Injection, IsInjective, Unique
<1>3. Cardinality(1 .. Len(e)) <= Cardinality(Keys)
  BY <1>2, FS_Injection DEF Room
<1>4. Cardinality(1 .. Len(e)) = Len(e)
  <2>1. \A n \in Nat : Cardinality(1 .. n) = n
    BY FS_Interval
  <2>2. QED
    BY <1>1, <2>1, Zenon
<1>5. Cardinality(Keys) \in Nat
  BY FS_CardinalityType DEF Room
<1>6. QED
  BY <1>1, <1>3, <1>4, <1>5, EnvAssumption DEF Room

LEMMA IsSpelled == Spelled
  BY EnvAssumption DEF Spelled

\* The checksum is that of an environment with each name once, and what is
\* written is the edit of one.
ProperSum == rom.crc \in {Blank, Garbage} \/ \E e \in Proper : Len(e) <= EnvLen /\ rom.crc = Pad(e)

Editing == pc \in {"erase", "write", "verify"} => uenv \in Proper /\ towrite = SetVar(uenv, arg.key, arg.val)

StoreInv == Fields /\ ProperSum /\ Editing

LEMMA VarsProper == Fields /\ ProperSum /\ Intact => Vars \in Proper
<1>. SUFFICES ASSUME Fields, ProperSum, Intact
              PROVE  Vars \in Proper
  OBVIOUS
<1>1. rom.cells = [n \in Cells |-> rom.cells[n]] /\ rom.crc = rom.cells
  BY DEF Fields, Intact
<1>2. rom.crc \notin {Blank, Garbage}
  BY <1>1, NoSum
<1>3. PICK e \in Proper : Len(e) <= EnvLen /\ rom.cells = Pad(e)
  BY <1>1, <1>2 DEF ProperSum
<1>4. QED
  BY <1>3, WalkOverPad DEF Proper

LEMMA StoreInit ==
  ASSUME \A e \in InitEnvs : Unique(e)
  PROVE  Init => StoreInv
<1>. SUFFICES ASSUME Init
              PROVE  StoreInv
  OBVIOUS
<1>1. PICK e \in InitEnvs : rom = Rom(e)
  BY DEF Init
<1>2. e \in Proper /\ Len(e) <= EnvLen
  BY EnvAssumption DEF Proper, Envs
<1>3. rom.crc = Pad(e)
  BY <1>1 DEF Rom
<1>4. ProperSum
  BY <1>2, <1>3 DEF ProperSum
<1>5. Editing
  BY DEF Init, Editing
<1>6. QED
  BY <1>4, <1>5, FieldsInit DEF StoreInv

LEMMA StoreInvStep ==
  ASSUME Plain, Room
  PROVE  StoreInv /\ [Next]_vars => StoreInv'
<1>. SUFFICES ASSUME StoreInv, [Next]_vars
              PROVE  ProperSum' /\ Editing'
  BY FieldsStep DEF StoreInv
<1>. USE DEF StoreInv, Exit
<1>1. CASE SetEnv
  BY <1>1 DEF SetEnv, ProperSum, Editing
<1>2. CASE Edit
  <2>1. Vars \in Proper
    BY <1>2, VarsProper DEF Edit
  <2>2. ProperSum'
    BY <1>2 DEF Edit, ProperSum
  <2>3. Editing'
    BY <1>2, <2>1 DEF Edit, Editing
  <2>4. QED
    BY <2>2, <2>3
<1>3. CASE NotFound
  BY <1>3 DEF NotFound, ProperSum, Editing
<1>4. CASE EraseEnv
  BY <1>4 DEF EraseEnv, ProperSum, Editing
<1>5. CASE WriteEnv
  <2>1. /\ rom'.crc = Pad(towrite) /\ uenv \in Proper /\ towrite = SetVar(uenv, arg.key, arg.val)
        /\ arg.key \in Keys /\ arg.val \in Values
    BY <1>5 DEF WriteEnv, Editing, Fields
  <2>2. towrite \in Proper
    BY <2>1, SetVarEdits, IsSpelled DEF Edited
  <2>3. Len(towrite) <= EnvLen
    BY <2>2, ProperFits
  <2>4. ProperSum'
    BY <2>1, <2>2, <2>3 DEF ProperSum
  <2>5. Editing'
    BY <1>5, <2>1 DEF WriteEnv, Editing
  <2>6. QED
    BY <2>4, <2>5
<1>6. CASE VerifyEnv
  BY <1>6 DEF VerifyEnv, ProperSum, Editing
<1>7. CASE CutShort
  <2>1. rom' = rom \/ rom' = [rom EXCEPT !.crc = Garbage]
    BY <1>7 DEF CutShort
  <2>2. rom'.crc \in {rom.crc, Garbage}
    <3>1. rom = [crc |-> rom.crc, cells |-> rom.cells]
      BY DEF Fields
    <3>2. QED
      BY <2>1, <3>1
  <2>3. ProperSum'
    BY <2>2 DEF ProperSum
  <2>4. QED
    BY <1>7, <2>3 DEF CutShort, Editing
<1>8. CASE UNCHANGED vars
  BY <1>8 DEF vars, ProperSum, Editing
<1>9. QED
  BY <1>1, <1>2, <1>3, <1>4, <1>5, <1>6, <1>7, <1>8 DEF Next

-----------------------------------------------------------------------------
(* What the store shows while setenv runs. *)

LEMMA ContentsType ==
  ASSUME NEW e \in Proper
  PROVE  Contents(e) \in [Keys -> Values \cup {<<>>}] /\ Contents(e) # Lost
<1>1. ASSUME NEW k \in Keys
      PROVE  Lookup(e, k) \in Values \cup {<<>>}
  <2>1. e \in Envs
    BY DEF Proper
  <2>2. CASE \E n \in DOMAIN e : e[n][1] = k
    <3>1. PICK n \in DOMAIN e : e[n][1] = k
      BY <2>2
    <3>2. Lookup(e, k) = e[n][2] /\ e[n][2] \in Values
      BY <2>1, <3>1, LookupIs, EnvType
    <3>3. QED
      BY <3>2
  <2>3. CASE \A n \in DOMAIN e : e[n][1] # k
    BY <2>3, LookupIs
  <2>4. QED
    BY <2>2, <2>3
<1>2. QED
  BY <1>1, EnvAssumption DEF Contents

LEMMA ContentsEdited ==
  ASSUME NEW e \in Proper, NEW key \in Keys, NEW new, NEW r, Edited(e, key, new, r)
  PROVE  Contents(r) = [Contents(e) EXCEPT ![key] = new]
  BY DEF Contents, Edited

\* It depends on the flash alone.
LEMMA SameRom == rom' = rom => Readable' = Readable
  BY DEF Readable, Intact, Vars, Walked

LEMMA Torn ==
  ASSUME rom'.crc \in {Blank, Garbage}, rom'.cells = [n \in Cells |-> rom'.cells[n]]
  PROVE  Readable' = Lost
  BY NoSum DEF Readable, Intact

LEMMA Serving ==
  ASSUME pc # "idle"
  PROVE  /\ Req # <<>> /\ Req.key = arg.key /\ Req.val = arg.val
         /\ pc # "detect" => Req.base = Contents(uenv)
         /\ pc = "detect" => Req.base = Readable
<1>1. \A a, b, c : [key |-> a, val |-> b, base |-> c] # <<>>
  <2>1. \A a, b, c : "key" \in DOMAIN [key |-> a, val |-> b, base |-> c]
    OBVIOUS
  <2>2. "key" \notin DOMAIN <<>>
    OBVIOUS
  <2>3. QED
    BY <2>1, <2>2
<1>2. Req # <<>>
  BY <1>1 DEF Req
<1>3. QED
  BY <1>2 DEF Req

\* Cells that are those of an environment are read as that environment, now and
\* after a step.
LEMMA ReadBack == \A e \in Envs : rom.cells = Pad(e) /\ Len(e) <= EnvLen => Vars = e
  BY WalkOverPad

LEMMA ReadBackNext == (\A e \in Envs : rom.cells = Pad(e) /\ Len(e) <= EnvLen => Vars = e)'
  BY ReadBack, PTL

LEMMA StoreStep ==
  ASSUME Plain, Room
  PROVE  StoreInv /\ StoreInv' /\ [Next]_vars => [Store!Next]_(Store!storeVars)
<1>. SUFFICES ASSUME StoreInv, StoreInv', [Next]_vars
              PROVE  Store!Next \/ (Readable' = Readable /\ Req' = Req)
  BY DEF Store!storeVars
<1>1. CASE SetEnv
  <2>1. /\ pc = "idle" /\ pc' = "detect" /\ rom' = rom
        /\ \E key \in Keys, val \in Values : arg' = [key |-> key, val |-> val]
    BY <1>1 DEF SetEnv
  <2>2. PICK key \in Keys, val \in Values : arg' = [key |-> key, val |-> val]
    BY <2>1
  <2>3. Readable' = Readable
    BY <2>1, SameRom
  <2>4. Req = <<>> /\ Req' = [key |-> key, val |-> val, base |-> Readable]
    BY <2>1, <2>2, <2>3 DEF Req
  <2>5. Store!Request
    BY <2>2, <2>3, <2>4 DEF Store!Request
  <2>6. QED
    BY <2>5 DEF Store!Next
<1>2. ASSUME pc # "idle", pc' = "idle", Readable' \in {Readable, Lost}
      PROVE  Store!Next
  <2>1. Req # <<>> /\ Req' = <<>>
    BY <1>2, Serving DEF Req
  <2>2. Store!Finish
    BY <1>2, <2>1 DEF Store!Finish
  <2>3. QED
    BY <2>2 DEF Store!Next
<1>3. CASE Edit
  <2>1. pc = "detect" /\ rom' = rom /\ arg' = arg /\ Intact
    BY <1>3 DEF Edit
  <2>2. Readable' = Readable
    BY <2>1, SameRom
  <2>3. CASE pc' = "idle"
    BY <1>2, <2>1, <2>2, <2>3
  <2>4. CASE pc' = "erase" /\ uenv' = Vars
    <3>1. Contents(uenv)' = Contents(Vars)
      BY <2>4 DEF Contents, Lookup, First
    <3>2. Readable = Contents(Vars)
      BY <2>1 DEF Readable
    <3>3. Req' = Req
      BY <2>1, <2>2, <2>4, <3>1, <3>2 DEF Req
    <3>4. QED
      BY <2>2, <3>3
  <2>5. QED
    BY <1>3, <2>3, <2>4 DEF Edit, Exit
<1>4. CASE NotFound
  BY <1>2, <1>4, SameRom DEF NotFound, Exit
<1>5. CASE EraseEnv
  <2>1. pc = "erase" /\ pc' = "write" /\ rom'.crc = Blank /\ uenv' = uenv /\ arg' = arg
    BY <1>5 DEF EraseEnv
  <2>2. Readable' = Lost
    BY <2>1, Torn DEF StoreInv, Fields
  <2>3. Req' = Req
    BY <2>1 DEF Req, Contents
  <2>4. Store!Lose
    BY <2>1, <2>2, <2>3, Serving DEF Store!Lose
  <2>5. QED
    BY <2>4 DEF Store!Next
<1>6. CASE WriteEnv
  <2>1. /\ pc = "write" /\ pc' = "verify" /\ uenv' = uenv /\ arg' = arg /\ towrite' = towrite
        /\ rom'.crc = Pad(towrite)
    BY <1>6 DEF WriteEnv
  <2>2. Req' = Req
    BY <2>1 DEF Req, Contents
  <2>3. Req # <<>> /\ Req.key = arg.key /\ Req.val = arg.val /\ Req.base = Contents(uenv)
    BY <2>1, Serving
  <2>4. /\ uenv \in Proper /\ arg.key \in Keys /\ arg.val \in Values
        /\ Edited(uenv, arg.key, arg.val, towrite)
    BY <2>1, SetVarEdits, IsSpelled DEF StoreInv, Editing, Fields
  <2>5. CASE Intact'
    <3>1. rom'.cells = Pad(towrite)
      BY <2>1, <2>5 DEF Intact
    <3>2. towrite \in Envs /\ Len(towrite) <= EnvLen
      BY <2>4, ProperFits DEF Edited, Proper
    <3>3. Vars' = towrite
      BY <3>1, <3>2, ReadBackNext
    <3>4. Readable' = Contents(towrite)
      BY <2>5, <3>3 DEF Readable, Contents
    <3>5. Contents(towrite) = [Contents(uenv) EXCEPT ![arg.key] = arg.val]
      BY <2>4, ContentsEdited
    <3>6. Contents(uenv) # Lost
      BY <2>4, ContentsType
    <3>7. Store!Serve
      BY <2>2, <2>3, <3>4, <3>5, <3>6 DEF Store!Serve
    <3>8. QED
      BY <3>7 DEF Store!Next
  <2>6. CASE ~Intact'
    <3>1. Readable' = Lost
      BY <2>6 DEF Readable
    <3>2. Store!Lose
      BY <2>2, <2>3, <3>1 DEF Store!Lose
    <3>3. QED
      BY <3>2 DEF Store!Next
  <2>7. QED
    BY <2>5, <2>6
<1>7. CASE VerifyEnv
  BY <1>2, <1>7, SameRom DEF VerifyEnv, Exit
<1>8. CASE CutShort
  <2>1. pc # "idle" /\ pc' = "idle" /\ (rom' = rom \/ rom' = [rom EXCEPT !.crc = Garbage])
    BY <1>8 DEF CutShort, Exit
  <2>2. CASE rom' = rom
    BY <1>2, <2>1, <2>2, SameRom
  <2>3. CASE rom' = [rom EXCEPT !.crc = Garbage]
    <3>1. rom'.crc = Garbage
      BY <2>3 DEF StoreInv, Fields
    <3>2. Readable' = Lost
      BY <3>1, Torn DEF StoreInv, Fields
    <3>3. QED
      BY <1>2, <2>1, <3>2
  <2>4. QED
    BY <2>1, <2>2, <2>3
<1>9. CASE UNCHANGED vars
  <2>1. rom' = rom /\ pc' = pc /\ arg' = arg /\ uenv' = uenv
    BY <1>9 DEF vars
  <2>2. QED
    BY <2>1, SameRom DEF Req, Contents
<1>10. QED
  BY <1>1, <1>3, <1>4, <1>5, <1>6, <1>7, <1>8, <1>9 DEF Next

\* "drop-in replacement for fw_setenv" (README.md:107), for an environment of any
\* length over plain names, which has each at most once and room for all of them:
\* whatever call fails, and wherever setenv is interrupted, the environment holds
\* the old variables, or the same with the one that was named replaced, added or
\* removed, or it is unreadable.
THEOREM StoreHolds ==
  ASSUME Plain, Room, \A e \in InitEnvs : Unique(e)
  PROVE  Spec => StoreSpec
<1>1. Init => StoreInv
  BY StoreInit
<1>2. StoreInv /\ [Next]_vars => StoreInv'
  BY StoreInvStep
<1>3. Init => Store!Init
  <2>. SUFFICES ASSUME Init
                PROVE  Store!Init
    OBVIOUS
  <2>1. StoreInv /\ Intact /\ Req = <<>>
    BY <1>1, FieldsInit DEF Init, Req, Rom, Intact
  <2>2. Vars \in Proper /\ Readable = Contents(Vars)
    BY <2>1, VarsProper DEF StoreInv, Readable
  <2>3. QED
    BY <2>1, <2>2, ContentsType DEF Store!Init, Store!Readable
<1>4. StoreInv /\ StoreInv' /\ [Next]_vars => [Store!Next]_(Store!storeVars)
  BY StoreStep
<1>5. QED
  BY <1>1, <1>2, <1>3, <1>4, PTL DEF Spec, StoreSpec, Store!Spec

=============================================================================
