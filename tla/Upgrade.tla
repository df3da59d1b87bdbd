------------------------------- MODULE Upgrade -------------------------------
(***************************************************************************)
(* `ipctool upgrade`: do_upgrade (src/backup.c) lays the images of a       *)
(* bundle out on the flash, has do_flash write them, then writes boot      *)
(* commands that match the layout into the U-Boot environment and reboots. *)
(*                                                                         *)
(* A unit holds [kind, at]: unit `at` of an image; a unit of the           *)
(* environment, one erase block long, also holds its variables.            *)
(***************************************************************************)
EXTENDS MtdEnum, EnvData

CONSTANTS
  Bundles,     \* what a run may be given: see LoadBundle
  OldEnv,      \* the variables the camera was delivered with
  BootUnits,   \* the boot loader
  EnvBase,     \* where the boot loader, old or new, reads its environment
  MaxRuns      \* bound: upgrades run one after the other on a device

EnvBlock == EnvBase .. EnvBase + EraseSize - 1

Filler == [kind |-> "fill", at |-> 0]
Old(u) == [kind |-> "old", at |-> u]
EnvCells(env) == [x \in 0 .. EraseSize - 1 |-> [kind |-> "env", at |-> x, vars |-> env]]

VARIABLES
  step,      \* where do_upgrade is
  mtd,       \* mtd_restore_ctx_t; env_dev and env_offset move with a new boot loader
  uenv,      \* the copy of the environment in RAM
  bundle,    \* the loaded bundle
  layout,    \* what was made of it: [mtdparts, root_part, kernel_part]
  hurt,      \* a call failed while the environment was written
  runs       \* upgrades started so far

upgradeVars == <<step, mtd, uenv, bundle, layout, hurt, runs>>
vars == <<flashVars, upgradeVars>>

NoCtx == [part |-> [m \in Slots |-> NoPart], totalsz |-> 0, erasesize |-> 0,
          env_dev |-> NoMtd, env_offset |-> 0]
NoJob == [mtdbackup |-> [e \in Slots |-> NoEntry], part |-> NoCtx.part,
          skip_env |-> FALSE, env_dev |-> NoMtd, env_offset |-> 0]
NoLayout == [mtdparts |-> <<>>, root_part |-> -1, kernel_part |-> -1]

Init ==
  /\ flash = [u \in Units |-> IF u \in EnvBlock THEN EnvCells(OldEnv)[u - EnvBase] ELSE Old(u)]
  /\ vols = [mv \in MtdNums \X VolIds |-> [st |-> "none", src |-> -1]]
  /\ job = NoJob /\ pc = "idle" /\ i = 0 /\ c = 0
  /\ step = "free" /\ mtd = NoCtx /\ uenv = <<>> /\ bundle = <<>> /\ layout = NoLayout
  /\ hurt = FALSE /\ runs = 1

-----------------------------------------------------------------------------
(* The environment on the flash, found by its checksum. *)

EnvThere(u) ==
  /\ u .. u + EraseSize - 1 \subseteq Units
  /\ flash[u] \in Data /\ flash[u].kind = "env"
  /\ \A x \in 0 .. EraseSize - 1 : flash[u + x] = EnvCells(flash[u].vars)[x]

DetectEnv ==
  [m \in MtdNums |->
    LET offs == {o \in 0 .. Device[m].size - EraseSize :
                   o % EraseSize = 0 /\ EnvThere(Device[m].base + o)}
    IN  IF offs = {} THEN -1 ELSE First(offs)]

-----------------------------------------------------------------------------
(***************************************************************************)
(* The layout.  goff is the offset on the flash at which the next image    *)
(* goes; mtdparts lists the sizes of the partitions from the flash's start *)
(* on, and the index of the one added last is curr_mtd_part.               *)
(***************************************************************************)
Sums(sizes) ==
  LET sum[n \in 0 .. Len(sizes)] == IF n = 0 THEN 0 ELSE sum[n - 1] + sizes[n]
  IN  sum

Total(sizes) == Sums(sizes)[Len(sizes)]

CeilUp(n, unit) == ((n + unit - 1) \div unit) * unit

\* mtd_size_by_name
SizeByName(part, name) ==
  LET m == FindMtd(part, name) IN IF m = NoMtd THEN -1 ELSE part[m].size

\* "skip": a partition of another name is passed over in silence.
Skip(b, part) ==
  LET past[n \in 0 .. Len(b.skip)] ==
        IF n = 0 THEN [goff |-> 0, mtdparts |-> b.prefix]
        ELSE LET size == SizeByName(part, b.skip[n]) IN
             IF size = -1 THEN past[n - 1]
             ELSE [goff     |-> past[n - 1].goff + size,
                   mtdparts |-> Append(past[n - 1].mtdparts, size)]
  IN  past

\* "mtdPrefix", "skip" and "offset".
Start(b, part) ==
  LET past == Skip(b, part)[Len(b.skip)]
  IN  [goff |-> IF b.offset # -1 THEN b.offset ELSE past.goff, mtdparts |-> past.mtdparts]

Entry(name, off, size, data) ==
  [name |-> name, off |-> off, size |-> size, data |-> data, is_ubi |-> FALSE,
   vol_id |-> 0, vol_name |-> Unnamed, sha1 |-> <<>>]

\* Mutant of Place: the next image goes right behind the payload.
PlaceTight(s, name, size, data) ==
  [mtdwrite    |-> [s.mtdwrite EXCEPT ![s.i] = Entry(name, s.goff, size, data)],
   mtdparts    |-> Append(s.mtdparts, size),
   i           |-> s.i + 1,
   goff        |-> s.goff + Cardinality({x \in DOMAIN data : data[x] # Filler}),
   root_part   |-> IF name = "rootfs" THEN Len(s.mtdparts) ELSE s.root_part,
   kernel_part |-> IF name = "kernel" THEN s.i ELSE s.kernel_part,
   env_at      |-> IF name = "boot" THEN s.goff + size ELSE s.env_at]

\* The environment goes right behind a new boot loader, wherever it was.
Place(s, name, size, data) ==
  [mtdwrite    |-> [s.mtdwrite EXCEPT ![s.i] = Entry(name, s.goff, size, data)],
   mtdparts    |-> Append(s.mtdparts, size),
   i           |-> s.i + 1,
   goff        |-> s.goff + size,
   root_part   |-> IF name = "rootfs" THEN Len(s.mtdparts) ELSE s.root_part,
   kernel_part |-> IF name = "kernel" THEN s.i ELSE s.kernel_part,
   env_at      |-> IF name = "boot" THEN s.goff + size ELSE s.env_at]

\* The payload is padded to the partition or erase size.
Room(part) == CeilUp(Len(part.payload), IF part.psize # 0 THEN part.psize ELSE EraseSize)

Padded(part) ==
  [x \in 0 .. Room(part) - 1 |->
    IF x < Len(part.payload) THEN part.payload[x + 1] ELSE Filler]

\* One of "partitions"; "copy existing env just right after boot as separate
\* partition".
AddPart(s, part, env) ==
  LET put == Place(s, part.name, Room(part), Padded(part))
  IN  IF part.name = "boot" THEN Place(put, "env", EraseSize, EnvCells(env)) ELSE put

LayOut(b, part, env) ==
  LET start == Start(b, part)
      laid[n \in 0 .. Len(b.parts)] ==
        IF n = 0
        THEN [mtdwrite |-> [e \in Slots |-> NoEntry], mtdparts |-> start.mtdparts,
              i |-> 0, goff |-> start.goff, root_part |-> -1, kernel_part |-> -1,
              env_at |-> -1]
        ELSE AddPart(laid[n - 1], b.parts[n], env)
  IN  laid

\* No image is longer than its partition or was altered on its way.
Good(b) ==
  \A n \in DOMAIN b.parts :
    LET part == b.parts[n] IN
    (part.psize # 0 => Room(part) <= part.psize) /\ part.sha1 = part.payload

-----------------------------------------------------------------------------
(***************************************************************************)
(* Cameras and the bundles made for them.  The environment lies in one     *)
(* erase block outside the boot loader, and no variable's name begins with *)
(* another one's.                                                          *)
(***************************************************************************)
ASSUME UpgradeAssumption ==
  /\ InOrder
  /\ MaxRuns \in Nat \ {0} /\ MaxVols > 0
  /\ EnvBase \in Nat /\ EnvBlock \subseteq Units /\ BootUnits \subseteq Units \ EnvBlock
  /\ \A m \in MtdNums : Device[m].name = "boot" => BootUnits \subseteq Partition(m)
  /\ \A m, n \in MtdNums : Device[m].name # Unnamed /\ (Device[m].name = Device[n].name => m = n)
  /\ Filler \in Data /\ \A u \in Units : Old(u) \in Data

ASSUME VarsAssumption ==
  /\ Keys \subseteq Seq(STRING) /\ {<<"bootcmd">>, <<"bootargs">>} \subseteq Keys
  /\ \A key, name \in Keys : IsPrefix(key, name) => key = name
  /\ \A key \in Keys : \A x \in DOMAIN key : key[x] # "="
  /\ OldEnv \in Seq(Keys \X Values)
  /\ \A m, n \in DOMAIN OldEnv : OldEnv[m][1] = OldEnv[n][1] => m = n

PartOK(part) ==
  /\ part.name \in STRING \ {Unnamed, "env"}
  /\ part.psize \in Nat /\ part.psize % EraseSize = 0
  /\ Len(part.payload) \in Nat \ {0} /\ DOMAIN part.payload = 1 .. Len(part.payload)
  /\ \A x \in DOMAIN part.payload : part.payload[x] \in Data /\ part.payload[x].kind # "env"

\* Where b's first image goes: behind the partitions that mtdparts begins with.
Begin(b) == Total(b.prefix) + SizeBefore(Table)[Len(b.skip)]

\* Room for b's images and for the environment, which the boot loader will look
\* for where it is copied to.
FitsCamera(b) ==
  LET laid == LayOut(b, Table, OldEnv) IN
  /\ laid[Len(b.parts)].i <= MaxBlocks
  /\ \A n \in DOMAIN b.parts :
       LET at   == laid[n - 1].goff
           size == Room(b.parts[n])
       IN  /\ at + size <= EnvBase \/ EnvBase + EraseSize <= at
           /\ b.parts[n].name = "boot" => at + size = EnvBase

BundleOK(b) ==
  /\ Len(b.parts) \in Nat /\ DOMAIN b.parts = 1 .. Len(b.parts)
  /\ Len(b.skip) \in 0 .. MaxBlocks /\ DOMAIN b.skip = 1 .. Len(b.skip)
  /\ b.prefix \in Seq(Nat) /\ b.vars \in Seq(Keys \X Values)
  /\ \A n \in DOMAIN b.parts : PartOK(b.parts[n])
  /\ \A m, n \in DOMAIN b.parts : b.parts[m].name = b.parts[n].name => m = n
  /\ \A n \in DOMAIN b.skip : n - 1 \in MtdNums /\ b.skip[n] = Device[n - 1].name
  /\ \A n \in DOMAIN b.skip : b.skip[n] = "boot" => \A k \in DOMAIN b.parts : b.parts[k].name # "boot"
  /\ b.offset \in {-1, Begin(b)} /\ (b.offset = -1 => b.prefix = <<>>)
  /\ FitsCamera(b)

ASSUME BundlesAssumption == \A b \in Bundles : BundleOK(b)

-----------------------------------------------------------------------------
(* The variables upgrade sets, in its order. *)

RamVars ==
  LET kernel == job.mtdbackup[layout.kernel_part] IN
  bundle.vars \o <<<<<<"bootcmd">>, <<kernel.off, kernel.size>>>>>>

Bootargs == <<layout.root_part>> \o layout.mtdparts

\* set_env_param_ram, variable by variable.
Edits(env) ==
  LET edited[n \in 0 .. Len(RamVars)] ==
        IF n = 0 THEN env ELSE SetVar(edited[n - 1], RamVars[n][1], RamVars[n][2])
  IN  edited

\* Mutant of NewEnv: an empty environment is filled instead of the copy.
NewEnvFresh == SetVar(Edits(<<>>)[Len(RamVars)], <<"bootargs">>, Bootargs)

NewEnv == SetVar(Edits(uenv)[Len(RamVars)], <<"bootargs">>, Bootargs)

-----------------------------------------------------------------------------
\* An unknown chip or platform, processes that cannot be killed: give up.
FreeResources ==
  /\ step = "free" /\ step' \in {"enum", "exit"}
  /\ UNCHANGED <<flashVars, mtd, uenv, bundle, layout, hurt, runs>>

EnumMtd ==
  /\ step = "enum"
  /\ \E valid \in SUBSET MtdNums, mapped \in SUBSET (MtdNums \cap 0 .. ENV_MTD_NUM - 1) :
       mtd' = EnumRestore(TRUE, valid, mapped, DetectEnv)
  /\ IF mtd'.env_dev = NoMtd
     THEN step' = "exit" /\ UNCHANGED uenv
     ELSE /\ step' = "load"
          /\ uenv' = flash[Device[mtd'.env_dev].base + mtd'.env_offset].vars
  /\ UNCHANGED <<flashVars, bundle, layout, hurt, runs>>

\* The bundle is read and laid out; nothing is written before all of it is good.
LoadBundle ==
  /\ step = "load"
  /\ \/ \E b \in Bundles :
          LET s   == LayOut(b, mtd.part, uenv)[Len(b.parts)]
              env == IF s.env_at = -1 THEN [dev |-> mtd.env_dev, off |-> mtd.env_offset]
                     ELSE MapOldNew(mtd.part, s.env_at)
          IN
          IF Good(b) /\ s.root_part # -1 /\ s.kernel_part # -1
          THEN /\ bundle' = b /\ step' = "flash" /\ pc' = "analyse"
               /\ layout' = [mtdparts |-> s.mtdparts, root_part |-> s.root_part,
                             kernel_part |-> s.kernel_part]
               /\ job' = [mtdbackup |-> s.mtdwrite, part |-> mtd.part, skip_env |-> FALSE,
                          env_dev |-> env.dev, env_offset |-> env.off]
               /\ mtd' = [mtd EXCEPT !.env_dev = env.dev, !.env_offset = env.off]
          ELSE step' = "exit" /\ UNCHANGED <<bundle, pc, layout, job, mtd>>
     \/ step' = "exit" /\ UNCHANGED <<bundle, pc, layout, job, mtd>>
  /\ UNCHANGED <<flash, vols, i, c, uenv, hurt, runs>>

InDoFlash == step = "flash" /\ FlashStep /\ UNCHANGED upgradeVars

EarlyExit ==
  /\ step = "flash" /\ pc = "false" /\ step' = "exit"
  /\ UNCHANGED <<flashVars, mtd, uenv, bundle, layout, hurt, runs>>

EditEnv ==
  /\ step = "flash" /\ pc = "true" /\ step' = "rom_erase"
  /\ uenv' = NewEnv
  /\ UNCHANGED <<flashVars, mtd, bundle, layout, hurt, runs>>

-----------------------------------------------------------------------------
(* set_env_param_rom: mtd_write, whose result is not looked at. *)

EnvTarget == [dev |-> mtd.env_dev, off |-> mtd.env_offset]
EnvUnits  == Block(mtd.env_dev, mtd.env_offset)
WriteOver(d) == [u \in Units |-> IF u \in EnvUnits
                                 THEN d[u - Device[mtd.env_dev].base - mtd.env_offset]
                                 ELSE flash[u]]

RomErase ==
  /\ step = "rom_erase" /\ Erasable(EnvTarget)
  /\ step' = "rom_write" /\ flash' = Fill(EnvUnits, Erased)
  /\ UNCHANGED <<vols, job, pc, i, c, mtd, uenv, bundle, layout, hurt, runs>>

RomWrite ==
  /\ step = "rom_write" /\ step' = "reboot"
  /\ flash' = WriteOver(EnvCells(uenv))
  /\ UNCHANGED <<vols, job, pc, i, c, mtd, uenv, bundle, layout, hurt, runs>>

\* A call of mtd_write fails; the reboot comes all the same.
RomFails ==
  /\ step \in {"rom_erase", "rom_write"} /\ step' = "reboot"
  /\ hurt' = TRUE
  /\ flash' \in {flash} \cup
       IF Erasable(EnvTarget) THEN {Fill(EnvUnits, Torn)} ELSE {}
  /\ UNCHANGED <<vols, job, pc, i, c, mtd, uenv, bundle, layout, runs>>

PowerLoss ==
  /\ step' = "exit"
  /\ \/ step = "flash" /\ Interrupt
     \/ /\ step \in {"rom_erase", "rom_write"}
        /\ flash' \in {flash} \cup
             IF Erasable(EnvTarget) THEN {Fill(EnvUnits, Torn)} ELSE {}
        /\ UNCHANGED <<vols, job, pc, i, c>>
  /\ UNCHANGED <<mtd, uenv, bundle, layout, hurt, runs>>

\* The user runs the upgrade again, on what the last run left on the chip.
Again ==
  /\ step = "exit" /\ step' = "free"
  /\ job' = NoJob /\ pc' = "idle" /\ i' = 0 /\ c' = 0
  /\ mtd' = NoCtx /\ uenv' = <<>> /\ bundle' = <<>> /\ layout' = NoLayout /\ hurt' = FALSE
  /\ runs < MaxRuns /\ runs' = runs + 1
  /\ UNCHANGED <<flash, vols>>

Next ==
  \/ FreeResources \/ EnumMtd \/ LoadBundle \/ InDoFlash \/ EarlyExit \/ EditEnv
  \/ RomErase \/ RomWrite \/ RomFails \/ PowerLoss \/ Again

Spec == Init /\ [][Next]_vars

-----------------------------------------------------------------------------
TypeOK ==
  /\ flash \in [Units -> Content]
  /\ pc \in Labels \cup {"idle", "true", "false", "dead"}
  /\ step \in {"free", "enum", "load", "flash", "rom_erase", "rom_write", "reboot", "exit"}
  /\ i \in 0 .. MaxBlocks /\ c \in Nat
  /\ mtd.env_dev \in MtdNums \cup {NoMtd}
  /\ layout.root_part \in -1 .. Len(layout.mtdparts) - 1
  /\ hurt \in BOOLEAN /\ runs \in 1 .. MaxRuns

\* do_upgrade hands do_flash arguments for which its guarantees are proved.
PlanSound == pc = "analyse" => PlanOK(job) /\ PlanDisjoint(job)

HoldsImage(base, payload) ==
  \A x \in DOMAIN payload : base + x - 1 \in Units /\ flash[base + x - 1] = payload[x]

Payload(name) ==
  LET n == CHOOSE n \in DOMAIN bundle.parts : bundle.parts[n].name = name
  IN  bundle.parts[n].payload

\* bootcmd loads the whole new kernel, and bootargs make /dev/mtdblock<n> the
\* partition that holds the new root file system.
Boots(env) ==
  LET cmd  == Lookup(env, <<"bootcmd">>)
      args == Lookup(env, <<"bootargs">>)
      root == args[1]
  IN  /\ HoldsImage(cmd[1], Payload("kernel")) /\ Len(Payload("kernel")) <= cmd[2]
      /\ HoldsImage(Sums(Tail(args))[root], Payload("rootfs"))
      /\ Len(Payload("rootfs")) <= Tail(args)[root + 1]

\* do_upgrade: when the camera is rebooted after every call succeeded, the boot
\* loader finds an environment at the place where it looks for one, and in it the
\* commands that boot what was installed - whatever earlier runs, interrupted
\* anywhere, left on the flash.
BootReady ==
  step = "reboot" /\ ~hurt => EnvThere(EnvBase) /\ Boots(flash[EnvBase].vars)

\* Variables that upgrades set.
SetVars ==
  {<<"bootcmd">>, <<"bootargs">>} \cup
    UNION {{b.vars[k][1] : k \in DOMAIN b.vars} : b \in Bundles}

\* do_upgrade: the variables no upgrade sets (the MAC address) outlive them,
\* however the environment was moved and rewritten.
OldVarsKept ==
  step = "reboot" /\ ~hurt /\ EnvThere(EnvBase) =>
    \A n \in DOMAIN OldEnv :
      OldEnv[n][1] \notin SetVars => Lookup(flash[EnvBase].vars, OldEnv[n][1]) = OldEnv[n][2]

\* A bundle that lists "boot" and "env" under "skip" leaves the boot loader
\* alone, and the environment until do_flash is through: the camera still starts
\* its boot loader wherever the upgrade is interrupted, and can be upgraded again.
BootloaderKept ==
  [][bundle # <<>> /\ "boot" \in ToSet(bundle.skip) =>
       \A u \in BootUnits \cup EnvBlock :
         flash'[u] # flash[u] => u \notin BootUnits /\ step \in {"rom_erase", "rom_write"}]_vars

\* What do_upgrade keeps at every moment: its variables' types and the
\* preconditions of do_flash.
Sound == TypeOK /\ PlanSound

\* The camera that is rebooted finds what was installed, and what it was.
Booted == BootReady /\ OldVarsKept
=============================================================================
