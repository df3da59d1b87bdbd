------------------------------- MODULE UBootEnv -------------------------------
(***************************************************************************)
(* `ipctool setenv`, run again and again: it finds the environment on the  *)
(* flash by its checksum, edits a copy and rewrites the place with         *)
(* mtd_write, which erases one erase block and then writes them all.       *)
(*                                                                         *)
(* A variable takes one cell of the environment, an erase block PerBlock   *)
(* cells.  The checksum stands for the cells it was computed from.         *)
(***************************************************************************)
EXTENDS EnvData

CONSTANTS
  InitEnvs,       \* environments the flash may hold at first
  EnvLen,         \* cells of the environment (env_len)
  PerBlock,       \* cells of an erase block (erasesize)
  Lost            \* an environment without a matching checksum

ASSUME EnvAssumption ==
  /\ EnvLen \in Nat \ {0, 1} /\ PerBlock \in Nat \ {0}
  /\ Keys \subseteq Seq(STRING) /\ Values \subseteq Seq(STRING)
  /\ InitEnvs \subseteq Seq(Keys \X Values)
  /\ \A e \in InitEnvs : Len(e) <= EnvLen
  /\ Lost \notin [Keys -> Values \cup {<<>>}]

Padding == <<"0">>      \* zero bytes after the last variable
Blank   == <<"1">>      \* erased cells
Garbage == <<"x">>      \* cells that were cut short or written over others

VARIABLES
  rom,      \* the flash: [crc, cells]
  uenv,     \* the copy of the environment read from the flash
  towrite,  \* what is to replace it
  arg,      \* the command line: [key, val]
  pc,       \* the next call of the process; "idle" when none runs
  hurt      \* a call failed or power was lost since the environment was made

vars == <<rom, uenv, towrite, arg, pc, hurt>>

Cells   == 1 .. EnvLen
Pad(e)  == [n \in Cells |-> IF n \in DOMAIN e THEN e[n] ELSE Padding]
Rom(e)  == [crc |-> Pad(e), cells |-> Pad(e)]

\* crc32 matches.
Intact == rom.crc = rom.cells

\* The walk over the variables: `while (*ptr)`.
Walked(n) ==
  /\ \A k \in 1 .. n : rom.cells[k] # Padding
  /\ n < EnvLen => rom.cells[n + 1] = Padding
Vars == SubSeq(rom.cells, 1, CHOOSE n \in 0 .. EnvLen : Walked(n))

\* Programming NOR flash only clears bits: cells that were not erased keep what
\* both values have in common, and zero bytes stay zero.
Program(old, new) ==
  IF old = Blank \/ new = old THEN new
  ELSE IF Padding \in {old, new} THEN Padding ELSE Garbage

-----------------------------------------------------------------------------
Init ==
  /\ \E e \in InitEnvs : rom = Rom(e)
  /\ uenv = <<>> /\ towrite = <<>> /\ arg = [key |-> <<>>, val |-> <<>>]
  /\ pc = "idle" /\ hurt = FALSE

Exit == pc' = "idle" /\ uenv' = <<>> /\ towrite' = <<>>

SetEnv ==
  /\ pc = "idle" /\ pc' = "detect"
  /\ \E key \in Keys, val \in Values : arg' = [key |-> key, val |-> val]
  /\ UNCHANGED <<rom, uenv, towrite, hurt>>

\* uboot_detect_env, uboot_copyenv_int and the walk over the copy.
Edit ==
  /\ pc = "detect" /\ Intact
  /\ IF Unchanged(Vars, arg.key, arg.val)
     THEN Exit
     ELSE pc' = "erase" /\ uenv' = Vars /\ towrite' = SetVar(Vars, arg.key, arg.val)
  /\ UNCHANGED <<rom, arg, hurt>>

\* No checksum matches, or no device can be mapped: setenv ends all the same.
NotFound ==
  /\ pc = "detect" /\ Exit
  /\ hurt' = TRUE
  /\ UNCHANGED <<rom, arg>>

EraseEnv ==
  /\ pc = "erase" /\ pc' = "write"
  /\ rom' = [crc |-> Blank,
             cells |-> [n \in Cells |-> IF n <= PerBlock THEN Blank ELSE rom.cells[n]]]
  /\ UNCHANGED <<uenv, towrite, arg, hurt>>

\* Mutant of WriteEnv: the checksum is not computed anew.
WriteEnvOldCrc ==
  /\ pc = "write" /\ pc' = "verify"
  /\ rom' = [crc |-> Pad(uenv),
             cells |-> [n \in Cells |-> Program(rom.cells[n], Pad(towrite)[n])]]
  /\ UNCHANGED <<uenv, towrite, arg, hurt>>

\* The checksum over all of env_len, then every byte of it.
WriteEnv ==
  /\ pc = "write" /\ pc' = "verify"
  /\ rom' = [crc |-> Pad(towrite),
             cells |-> [n \in Cells |-> Program(rom.cells[n], Pad(towrite)[n])]]
  /\ UNCHANGED <<uenv, towrite, arg, hurt>>

\* The result of mtd_write is not looked at.
VerifyEnv ==
  /\ pc = "verify" /\ Exit
  /\ UNCHANGED <<rom, arg, hurt>>

\* A call of mtd_write fails, a signal kills the process or power is lost; what
\* was being erased or written is cut short.
CutShort ==
  /\ pc # "idle" /\ Exit
  /\ rom' \in IF pc \in {"erase", "write"} THEN {rom, [rom EXCEPT !.crc = Garbage]} ELSE {rom}
  /\ hurt' = TRUE
  /\ UNCHANGED arg

Next == SetEnv \/ Edit \/ NotFound \/ EraseEnv \/ WriteEnv \/ VerifyEnv \/ CutShort

Spec == Init /\ [][Next]_vars

\* The process is scheduled and its system calls return.
FairSpec == Spec /\ WF_vars(Edit \/ NotFound \/ EraseEnv \/ WriteEnv \/ VerifyEnv)

-----------------------------------------------------------------------------
IsEnv(e) == \A n \in DOMAIN e : e[n] \in Keys \X Values

TypeOK ==
  /\ rom.crc \in [Cells -> (Keys \X Values) \cup {Padding}] \cup {Blank, Garbage}
  /\ DOMAIN rom.cells = Cells
  /\ IsEnv(uenv) /\ IsEnv(towrite)
  /\ arg.val \in Values \cup {<<>>}
  /\ pc \in {"idle", "detect", "erase", "write", "verify"}
  /\ hurt \in BOOLEAN

Contents(e) == [k \in Keys |-> Lookup(e, k)]

Readable == IF Intact THEN Contents(Vars) ELSE Lost

\* What is being served: a request that is made of what the flash holds.
Req == IF pc = "idle" THEN <<>>
       ELSE [key |-> arg.key, val |-> arg.val,
             base |-> IF pc = "detect" THEN Readable ELSE Contents(uenv)]

Store == INSTANCE EnvStore WITH Unset <- <<>>, env <- Readable, req <- Req

\* "drop-in replacement for fw_setenv" (README.md:107): whatever is interrupted,
\* the environment holds the old variables, or the same with the one that was
\* named replaced, added or removed, or it is unreadable.
StoreSpec == Store!Spec

\* As long as every call has succeeded, a setenv that has ended leaves an
\* environment that U-Boot can read.
ReadableUnlessHurt == pc = "idle" /\ ~hurt => Intact

\* A setenv that is not cut short ends, and then the variable has its value.
Served ==
  \A key \in Keys, val \in Values :
    (pc = "detect" /\ arg = [key |-> key, val |-> val]) ~>
      (pc = "idle" /\ (hurt \/ Readable[key] = val))

\* setenv: types, and an environment that is lost only when a call failed.
Sound == TypeOK /\ ReadableUnlessHurt
=============================================================================
