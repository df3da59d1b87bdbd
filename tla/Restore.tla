------------------------------- MODULE Restore -------------------------------
(***************************************************************************)
(* `ipctool restore`: restore_backup (src/backup.c) from the release of    *)
(* the board's resources to the reboot, with do_flash inside it, on a      *)
(* device that may lose power at any moment and be restored again.         *)
(*                                                                         *)
(* Before it the backup file: how do_backup writes one from the MTD        *)
(* devices, and how restore_backup reads it back into the array of stored  *)
(* partitions.  The file is a YAML description, one item per partition,    *)
(* followed by the raw blocks.  A SHA1 stands for the contents it was      *)
(* computed from.                                                          *)
(***************************************************************************)
EXTENDS MtdEnum

CONSTANTS
  VolData,    \* what each unit of a UBI volume holds
  Images,     \* the backups a run may load
  EnvUnits,   \* where the U-Boot environment lies on the chip
  OldData,    \* what the chip holds before the first restore,
  OldEnv,     \* and its environment
  MaxRuns     \* bound: restores run one after the other on a device

ASSUME RestoreAssumption ==
  /\ EnvUnits \subseteq Units
  /\ Units \cup {OldData, OldEnv} \subseteq Data
  /\ MaxRuns \in Nat \ {0} /\ MaxVols > 0

ASSUME LayoutAssumption == InOrder

NoSha1  == <<>>
VolSize == EraseSize + 1     \* data_bytes: no multiple of the erase size

-----------------------------------------------------------------------------
(* do_backup. *)

Contents(dev, chip, m) == [x \in 0 .. dev[m].size - 1 |-> chip[dev[m].base + x]]

\* cb_mtd_info: a partition mounted read-write, too large or not readable gets
\* no SHA1, and neither does one that UBI holds.
Item(dev, chip, m, hashed) ==
  [name |-> dev[m].name, size |-> dev[m].size, ubi |-> dev[m].ubi, nvols |-> dev[m].nvols,
   sha1 |-> IF m \in hashed /\ ~dev[m].ubi THEN Contents(dev, chip, m) ELSE NoSha1]

\* cb_mtd_backup: a UBI partition contributes its volumes, a device that cannot
\* be mapped contributes nothing.
Blocks(dev, chip, m, mapped) ==
  LET block(n, data) == [len |-> n, data |-> data, whole |-> TRUE] IN
  IF dev[m].ubi
  THEN [v \in 1 .. dev[m].nvols |->
         block(VolSize, [x \in 0 .. VolSize - 1 |-> VolData])]
  ELSE IF m \in mapped THEN <<block(dev[m].size, Contents(dev, chip, m))>>
  ELSE <<>>

DoBackup(dev, chip, valid, hashed, mapped) ==
  LET order == SelectSeq(EnumOrder(dev), LAMBDA m : m \in valid) IN
  [parts  |-> [n \in DOMAIN order |-> Item(dev, chip, order[n], hashed)],
   blocks |-> FlattenSeq([n \in DOMAIN order |-> Blocks(dev, chip, order[n], mapped)])]

-----------------------------------------------------------------------------
(* yaml_parseblock. *)

\* memcpy of a name over an older one, with no terminator of its own.
Overlay(new, old) ==
  IF old = Unnamed \/ Len(new) >= Len(old) THEN new ELSE new \o SubSeq(old, Len(new) + 1, Len(old))

\* Mutant of ParseItem: offsets are not added up.
ParseItemNoOffset(s, item) ==
  [s EXCEPT !.mi[s.i + 1] = [@ EXCEPT !.name = item.name, !.size = item.size,
                                      !.sha1 = item.sha1],
            !.i = s.i + 1]

(***************************************************************************)
(* One item of "partitions:".  A UBI partition's "ubi_volumes:" takes the  *)
(* index back so that its volumes replace the entry; the items of the list *)
(* are recognised by their indentation in ubi_vols_lvl, which keeps the -1 *)
(* it starts with, so none is and the next partition is stored over the    *)
(* fields of the UBI entry.                                                *)
(***************************************************************************)
ParseItem(s, item) ==
  LET n == s.i + 1
      old == s.mi[n]
  IN  [mi |-> [s.mi EXCEPT ![n] =
                [old EXCEPT !.name   = Overlay(item.name, old.name),
                            !.off    = s.offset,
                            !.size   = item.size,
                            !.sha1   = IF item.sha1 = NoSha1 THEN old.sha1 ELSE item.sha1,
                            !.is_ubi = old.is_ubi \/ item.ubi]],
       i  |-> IF item.ubi /\ item.nvols > 0 THEN s.i ELSE n,
       offset |-> s.offset + item.size]

\* What the first items of a description make of the array.
Parsed(image) ==
  LET parsed[n \in 0 .. Len(image.parts)] ==
        IF n = 0 THEN [mi |-> [e \in Slots |-> NoEntry], i |-> -1, offset |-> 0]
        ELSE ParseItem(parsed[n - 1], image.parts[n])
  IN  parsed

Parse(image) == Parsed(image)[Len(image.parts)]

-----------------------------------------------------------------------------
(* The checks of restore_backup on the blocks that follow the description; *)
(* p is the parsed description.                                            *)

\* Mutant of BlockOK: the SHA1 is not compared.
BlockOKNoSha1(entry, block) == block.whole /\ block.len = entry.size

BlockOK(entry, block) ==
  /\ block.whole
  /\ block.len = entry.size
  /\ entry.sha1 # NoSha1 => entry.sha1 = block.data

BlocksOK(p, image) ==
  \A e \in 0 .. p.i :
    e < Len(image.blocks) /\ BlockOK(p.mi[e], image.blocks[e + 1])

\* The stored partitions with their data; entries past the count keep none.
Stored(p, image) ==
  [e \in Slots |-> IF e <= p.i THEN [p.mi[e] EXCEPT !.data = image.blocks[e + 1].data]
                   ELSE p.mi[e]]

StoredSize(p) == SizeBefore(p.mi)[p.i + 1]

(***************************************************************************)
(* The backups there are.  A description has a name and whole erase blocks *)
(* for each partition, and its SHA1s were computed from a chip on which    *)
(* unit u held u, from partitions one behind the other when they make up   *)
(* the whole chip; what follows it may be anything.                        *)
(***************************************************************************)
DescriptionOK(item) ==
  /\ item.name \in STRING \ {Unnamed} /\ item.ubi \in BOOLEAN /\ item.nvols \in Nat
  /\ \E n \in 0 .. FlashSize : item.size = n * EraseSize

AttachmentOK(block) ==
  /\ block.len \in Nat /\ block.whole \in BOOLEAN
  /\ DOMAIN block.data = 0 .. block.len - 1
  /\ \A x \in 0 .. block.len - 1 : block.data[x] \in Data

\* The partitions of the backup lay at these places.
LaidOut(im, at) ==
  /\ \A n \in 1 .. Len(im.parts) : im.parts[n].sha1 # NoSha1 =>
       /\ im.parts[n].sha1 = [x \in 0 .. im.parts[n].size - 1 |-> at[n] + x]
       /\ at[n] + im.parts[n].size <= FlashSize
  /\ StoredSize(Parse(im)) = FlashSize =>
       \A n \in 1 .. Len(im.parts) :
         at[n] = IF n = 1 THEN 0 ELSE at[n - 1] + im.parts[n - 1].size

ImageOK(im) ==
  /\ DOMAIN im.parts = 1 .. Len(im.parts) /\ Len(im.parts) \in 0 .. MaxBlocks
  /\ DOMAIN im.blocks = 1 .. Len(im.blocks) /\ Len(im.blocks) \in Nat
  /\ \A n \in 1 .. Len(im.parts)  : DescriptionOK(im.parts[n])
  /\ \A n \in 1 .. Len(im.blocks) : AttachmentOK(im.blocks[n])
  /\ \E at \in [1 .. Len(im.parts) -> 0 .. FlashSize] : LaidOut(im, at)

ASSUME ImagesAssumption == \A im \in Images : ImageOK(im)

-----------------------------------------------------------------------------
VARIABLES
  step,     \* where restore_backup is
  opts,     \* its options: [skip_env, force]
  mtd,      \* mtd_restore_ctx_t: [part, totalsz, erasesize, env_dev, env_offset]
  image,    \* the loaded backup
  tsize,    \* size of the stored partitions, summed up as they are checked
  runs      \* restores started so far

restoreVars == <<step, opts, mtd, image, tsize, runs>>
vars == <<flashVars, restoreVars>>

NoCtx == [part |-> [m \in Slots |-> NoPart], totalsz |-> 0, erasesize |-> 0,
          env_dev |-> 0, env_offset |-> 0]
NoJob == [mtdbackup |-> [e \in Slots |-> NoEntry], part |-> NoCtx.part,
          skip_env |-> FALSE, env_dev |-> 0, env_offset |-> 0]
NoImage == [parts |-> <<>>, blocks |-> <<>>]

Init ==
  /\ flash = [u \in Units |-> IF u \in EnvUnits THEN OldEnv ELSE OldData]
  /\ vols = [mv \in MtdNums \X VolIds |->
              [st |-> IF mv[2] < Device[mv[1]].nvols THEN "data" ELSE "none", src |-> -1]]
  /\ job = NoJob /\ pc = "idle" /\ i = 0 /\ c = 0
  /\ step = "free" /\ mtd = NoCtx /\ image = NoImage /\ tsize = 0 /\ runs = 1
  /\ opts \in [skip_env : BOOLEAN, force : BOOLEAN]

-----------------------------------------------------------------------------
(* The environment as uboot_detect_env finds it: a checksum that matches,  *)
(* so one whole environment, at a multiple of the erase size.              *)

EnvIntact == \/ \A u \in EnvUnits : flash[u] = OldEnv
             \/ \A u \in EnvUnits : flash[u] = u

EnvOffset(m) == (CHOOSE u \in EnvUnits : \A w \in EnvUnits : u <= w) - Device[m].base

HasEnv(m) ==
  /\ EnvUnits # {} /\ EnvUnits \subseteq Partition(m)
  /\ \E n \in 0 .. FlashSize : EnvOffset(m) = n * EraseSize
  /\ EnvIntact

DetectEnv == [m \in MtdNums |-> IF HasEnv(m) THEN EnvOffset(m) ELSE -1]

-----------------------------------------------------------------------------
(* The steps of restore_backup. *)

At(here, there) == step = here /\ step' = there

\* free_resources: processes killed, file systems unmounted; or give up.
FreeResources ==
  /\ step = "free" /\ step' \in {"enum", "exit"}
  /\ UNCHANGED <<flashVars, opts, mtd, image, tsize, runs>>

EnumMtd ==
  /\ step = "enum"
  /\ \E valid \in SUBSET MtdNums, mapped \in SUBSET (MtdNums \cap 0 .. ENV_MTD_NUM - 1) :
       mtd' = EnumRestore(opts.skip_env, valid, mapped, DetectEnv)
  /\ step' = IF opts.skip_env /\ mtd'.env_dev = NoMtd THEN "exit" ELSE "load"
  /\ UNCHANGED <<flashVars, opts, image, tsize, runs>>

\* The file is read or downloaded; without one, or with a description that
\* never ends, nothing happens.
LoadBackup ==
  /\ step = "load"
  /\ \/ \E im \in Images : image' = im /\ step' = "confirm"
     \/ step' = "exit" /\ UNCHANGED image
  /\ UNCHANGED <<flashVars, opts, mtd, tsize, runs>>

\* "Are you sure to proceed?", not asked with --force.
Confirm ==
  /\ step = "confirm"
  /\ step' \in IF opts.force THEN {"check"} ELSE {"check", "exit"}
  /\ UNCHANGED <<flashVars, opts, mtd, image, tsize, runs>>

CheckBlocks ==
  /\ step = "check"
  /\ LET p == Parse(image) IN
     \/ /\ BlocksOK(p, image)
        /\ job' = [mtdbackup |-> Stored(p, image), part |-> mtd.part,
                   skip_env |-> opts.skip_env, env_dev |-> mtd.env_dev,
                   env_offset |-> mtd.env_offset]
        /\ tsize' = StoredSize(p)
        /\ step' = "size"
     \/ ~BlocksOK(p, image) /\ step' = "exit" /\ UNCHANGED <<job, tsize>>
  /\ UNCHANGED <<flash, vols, pc, i, c, opts, mtd, image, runs>>

\* A backup of another size is restored after a second question, --force or not.
CheckSize ==
  /\ step = "size"
  /\ step' \in IF tsize = mtd.totalsz THEN {"flash"} ELSE {"flash", "exit"}
  /\ UNCHANGED <<flashVars, opts, mtd, image, tsize, runs>>

\* do_flash divides by the erase size, which is 0 when no device was opened:
\* the process dies on the first entry.
CallDoFlash ==
  /\ step = "flash" /\ pc = "idle"
  /\ IF mtd.erasesize = 0 /\ \E e \in Slots : IsRaw(job, e)
     THEN step' = "exit" /\ UNCHANGED pc
     ELSE pc' = "analyse" /\ UNCHANGED step
  /\ UNCHANGED <<flash, vols, job, i, c, opts, mtd, image, tsize, runs>>

InDoFlash == step = "flash" /\ FlashStep /\ UNCHANGED restoreVars

Reboot ==
  /\ step = "flash" /\ pc = "true" /\ step' = "reboot"
  /\ UNCHANGED <<flashVars, opts, mtd, image, tsize, runs>>

Abort ==
  /\ step = "flash" /\ pc = "false" /\ step' = "exit"
  /\ UNCHANGED <<flashVars, opts, mtd, image, tsize, runs>>

PowerLoss ==
  /\ step = "flash" /\ Interrupt /\ step' = "exit"
  /\ UNCHANGED <<opts, mtd, image, tsize, runs>>

\* The user runs the restore again, on what the last run left on the chip.
Again ==
  /\ step = "exit" /\ step' = "free"
  /\ opts' \in [skip_env : BOOLEAN, force : BOOLEAN]
  /\ job' = NoJob /\ pc' = "idle" /\ i' = 0 /\ c' = 0 /\ mtd' = NoCtx /\ image' = NoImage /\ tsize' = 0
  /\ runs < MaxRuns /\ runs' = runs + 1
  /\ UNCHANGED <<flash, vols>>

Next ==
  \/ FreeResources \/ EnumMtd \/ LoadBackup \/ Confirm \/ CheckBlocks \/ CheckSize
  \/ CallDoFlash \/ InDoFlash \/ Reboot \/ Abort
  \/ PowerLoss \/ Again

Spec == Init /\ [][Next]_vars

-----------------------------------------------------------------------------
TypeOK ==
  /\ flash \in [Units -> Content]
  /\ pc \in Labels \cup {"idle", "true", "false", "dead"}
  /\ step \in {"free", "enum", "load", "confirm", "check", "size", "flash", "reboot", "exit"}
  /\ i \in 0 .. MaxBlocks /\ c \in Nat
  /\ opts \in [skip_env : BOOLEAN, force : BOOLEAN]
  /\ mtd.env_dev \in MtdNums \cup {0, NoMtd} /\ mtd.totalsz \in Nat
  /\ tsize \in Nat /\ runs \in 1 .. MaxRuns

\* The stored partition that the description gives no SHA1 of.
Unhashed(e) == IsRaw(job, e) /\ job.mtdbackup[e].sha1 = NoSha1

\* Where it lay when the backup was made.
Stretch(e) == job.mtdbackup[e].off .. job.mtdbackup[e].off + job.mtdbackup[e].size - 1

\* restore_backup, do_flash: when the camera is rebooted because the restore
\* succeeded, every unit of the chip that the backup describes holds what it
\* held when the backup was made, whatever partition table the device has now
\* and whatever earlier interrupted restores left on it; only the erase block of the
\* environment that was to be skipped, and a partition stored without a SHA1, may
\* differ, and even there what was stored is written whole.
RestoredInPlace ==
  step = "reboot" /\ tsize = FlashSize =>
    \A u \in Units :
      \/ flash[u] = u
      \/ opts.skip_env /\ u \in Block(mtd.env_dev, mtd.env_offset)
      \/ \E e \in Slots : Unhashed(e) /\ u \in Stretch(e) /\ flash[u] \notin {Erased, Torn}

\* restore_backup: a block whose SHA1 the description gives never reaches the
\* chip with other contents, not even in part or before a crash.
NoCorruptBlock ==
  [][step = "flash" /\ ~(i \in Slots /\ Unhashed(i)) =>
       \A u \in Units : flash'[u] # flash[u] =>
         flash'[u] \in Units \cup {Erased, Torn, UbiHeader}]_vars

\* "U-Boot env overwrite will be skipped" (backup.c:666): a restore with
\* --skip-env leaves every unit of the environment as it is.
EnvKept ==
  [][opts.skip_env => \A u \in EnvUnits : flash'[u] = flash[u]]_vars

\* restore_backup hands do_flash arguments for which its guarantees are proved:
\* blocks at different offsets, none in a partition to be restored as UBI.
PlanSound == pc = "analyse" => PlanOK(job) /\ PlanDisjoint(job)

\* What restore_backup keeps at every moment: its variables' types and the
\* preconditions of do_flash.
Sound == TypeOK /\ PlanSound
=============================================================================
