------------------------------- MODULE DoFlash -------------------------------
(***************************************************************************)
(* The flash writer that `ipctool restore` and `ipctool upgrade` share:    *)
(* do_flash (src/backup.c) walks the array of stored partitions one erase  *)
(* block at a time, finds with map_old_new_mtd the MTD device that holds   *)
(* the block's flash offset now, and has mtd_write (src/mtd.c) erase,      *)
(* write and read back the block.  UBI entries are recreated volume by     *)
(* volume by ubi_restore_partition.                                        *)
(*                                                                         *)
(* Sizes and offsets are counted in units; an erase block is EraseSize     *)
(* units, so that a size which is no multiple of the erase size can be     *)
(* written down.  The chip is one array of units; Device says where each   *)
(* /dev/mtdN lies on it.                                                   *)
(***************************************************************************)
EXTENDS Integers, Sequences, FiniteSets

CONSTANTS
  MaxBlocks,    \* MAX_MTDBLOCKS: slots of the arrays of partitions
  EraseSize,    \* units in an erase block
  FlashSize,    \* units on the chip
  Device,       \* mtd number -> [name, base, size, ubi, nvols]
  MaxVols,      \* MAX_UBI_VOLS
  Data,         \* what a unit can hold: the contents told apart
  Erased,       \* a unit after MEMERASE
  Torn,         \* a unit whose erase or write was cut short
  UbiHeader     \* a unit of a formatted, attached UBI partition

Slots   == 0 .. MaxBlocks - 1
Units   == 0 .. FlashSize - 1
MtdNums == DOMAIN Device
VolIds  == 0 .. MaxVols - 1
NoMtd   == -1
Content == Data \cup {Erased, Torn, UbiHeader}

DeviceRecord ==
  [name : STRING, base : Nat, size : Nat, ubi : BOOLEAN, nvols : 0 .. MaxVols]

ASSUME SizesAssumption ==
  /\ MaxBlocks \in Nat \ {0}
  /\ EraseSize \in Nat \ {0}
  /\ FlashSize \in Nat
  /\ MaxVols \in Nat

\* The kernel's partitions lie on the chip and do not overlap.
ASSUME DeviceAssumption ==
  /\ MtdNums \subseteq Slots
  /\ Device \in [MtdNums -> DeviceRecord]
  /\ \A m \in MtdNums : Device[m].base + Device[m].size <= FlashSize
  /\ \A m, n \in MtdNums : m # n =>
       \/ Device[m].base + Device[m].size <= Device[n].base
       \/ Device[n].base + Device[n].size <= Device[m].base

ASSUME ContentAssumption ==
  /\ Erased \notin Data /\ Torn \notin Data /\ UbiHeader \notin Data
  /\ Erased # Torn /\ Erased # UbiHeader /\ Torn # UbiHeader

VARIABLES
  flash,    \* the chip: unit -> content
  vols,     \* UBI volumes: mtd number, vol_id -> [st, src]
  job,      \* do_flash's arguments: stored partitions, partition table, env
  pc,       \* the next call of do_flash, or how it ended
  i,        \* the stored partition do_flash is at
  c         \* its inner loop counter: erase block or volume

flashVars == <<flash, vols, job, pc, i, c>>

-----------------------------------------------------------------------------
(* Arguments of do_flash: stored_mtd_t and mtd_restore_ctx_t. *)

\* The empty name: an entry that is not there, a volume that was not stored.
Unnamed == ""

NoEntry ==
  [name |-> Unnamed, off |-> 0, size |-> 0, data |-> <<>>, is_ubi |-> FALSE,
   vol_id |-> 0, vol_name |-> Unnamed, sha1 |-> <<>>]

NoPart == [name |-> Unnamed, size |-> 0]

(***************************************************************************)
(* map_old_new_mtd: the partition table is walked in slot order, adding up *)
(* sizes, until the partition that reaches past find_off; an empty slot    *)
(* ends the walk with -1.                                                  *)
(***************************************************************************)
SizeBefore(entries) ==
  LET sum[n \in 0 .. MaxBlocks] == IF n = 0 THEN 0 ELSE sum[n - 1] + entries[n - 1].size
  IN  sum

\* The table of all the kernel's partitions, and what map_old_new_mtd takes for
\* granted when it adds up their sizes: they are whole erase blocks, one behind the
\* other.
Table ==
  [m \in Slots |-> IF m \in MtdNums THEN [name |-> Device[m].name, size |-> Device[m].size]
                   ELSE NoPart]

InOrder ==
  \A m \in MtdNums : /\ Device[m].base = SizeBefore(Table)[m]
                      /\ \E n \in 0 .. FlashSize : Device[m].size = n * EraseSize

CurOff(part, m) == SizeBefore(part)[m]

Reaches(part, m, find_off) ==
  /\ \A k \in 0 .. m : part[k].size # 0
  /\ part[m].size + CurOff(part, m) > find_off

MapOldNew(part, find_off) ==
  IF \E m \in Slots : Reaches(part, m, find_off)
  THEN LET m == CHOOSE m \in Slots : /\ Reaches(part, m, find_off)
                                     /\ \A k \in 0 .. m - 1 : ~Reaches(part, k, find_off)
       IN  [dev |-> m, off |-> find_off - CurOff(part, m)]
  ELSE [dev |-> NoMtd, off |-> 0]

FindMtd(part, name) ==
  IF \E m \in Slots : part[m].name = name
  THEN CHOOSE m \in Slots : /\ part[m].name = name
                            /\ \A k \in 0 .. m - 1 : part[k].name # name
  ELSE NoMtd

\* Mutant of Cnt: the last whole block is left out too.
CntShort(j, e) == (j.mtdbackup[e].size - 1) \div EraseSize

\* Whole erase blocks of entry e; a shorter rest is not visited.
Cnt(j, e) == j.mtdbackup[e].size \div EraseSize

FindOff(j, e, k) == j.mtdbackup[e].off + k * EraseSize

\* Mutant of Target: blocks are counted from the start of the entry.
TargetOfEntry(j, e, k) == MapOldNew(j.part, k * EraseSize)

Target(j, e, k)  == MapOldNew(j.part, FindOff(j, e, k))

IsRaw(j, e) == j.mtdbackup[e].name # Unnamed /\ ~j.mtdbackup[e].is_ubi
IsUbi(j, e) == j.mtdbackup[e].name # Unnamed /\ j.mtdbackup[e].is_ubi

\* op == 's': the block at which the U-Boot environment was detected.
Skipped(j, t) == j.skip_env /\ t.dev = j.env_dev /\ t.off = j.env_offset

\* The simulated pass accepts an entry that every block, or the name, maps.
Accepted(j, e) ==
  /\ IsRaw(j, e) => \A k \in 0 .. Cnt(j, e) - 1 : Target(j, e, k).dev # NoMtd
  /\ IsUbi(j, e) => FindMtd(j.part, j.mtdbackup[e].name) # NoMtd

\* Consecutive UBI entries of one name are the volumes of one partition.
NVols(j, first) ==
  Cardinality({e \in first .. MaxBlocks - 1 :
                 \A f \in first .. e : /\ j.mtdbackup[f].is_ubi
                                      /\ j.mtdbackup[f].name = j.mtdbackup[first].name})

-----------------------------------------------------------------------------
(* What do_flash relies on in its arguments. *)

EntryOK(e) ==
  /\ e.off \in Nat /\ e.size \in Nat /\ e.is_ubi \in BOOLEAN
  /\ e.vol_id \in VolIds
  /\ e.name # Unnamed /\ ~e.is_ubi => \A x \in 0 .. e.size - 1 : e.data[x] \in Data

PlanOK(j) ==
  /\ \A e \in Slots : EntryOK(j.mtdbackup[e])
  /\ \A m \in Slots : j.part[m].size \in Nat
  /\ j.skip_env \in BOOLEAN
  /\ j.skip_env /\ j.env_dev \in MtdNums =>
       /\ \E n \in 0 .. FlashSize : j.env_offset = n * EraseSize
       /\ j.env_offset + EraseSize <= Device[j.env_dev].size

\* What the callers build: the blocks of a plan lie at different offsets of the
\* flash, no block and no environment lies in a partition restored as UBI, and
\* the volumes of a UBI partition are stored next to each other.
PlanDisjoint(j) ==
  /\ \A e, f \in Slots : \A k \in 0 .. Cnt(j, e) - 1, l \in 0 .. Cnt(j, f) - 1 :
       IsRaw(j, e) /\ IsRaw(j, f) /\ <<e, k>> # <<f, l>> =>
         \/ FindOff(j, e, k) + EraseSize <= FindOff(j, f, l)
         \/ FindOff(j, f, l) + EraseSize <= FindOff(j, e, k)
  /\ \A e \in Slots : IsUbi(j, e) =>
       LET dev == FindMtd(j.part, j.mtdbackup[e].name) IN
       /\ j.skip_env => dev # j.env_dev
       /\ \A f \in Slots : IsRaw(j, f) =>
            \A k \in 0 .. Cnt(j, f) - 1 : Target(j, f, k).dev # dev
       /\ \A f \in Slots :
            IsUbi(j, f) /\ j.mtdbackup[f].name = j.mtdbackup[e].name
              => e + NVols(j, e) = f + NVols(j, f)

-----------------------------------------------------------------------------
(* The device under mtd_write and the UBI calls. *)

Block(m, off)   == Device[m].base + off .. Device[m].base + off + EraseSize - 1
Partition(m)    == Device[m].base .. Device[m].base + Device[m].size - 1
Fill(units, x)  == [u \in Units |-> IF u \in units THEN x ELSE flash[u]]
Put(start, d)   == [u \in Units |-> IF u \in start .. start + EraseSize - 1
                                    THEN d[c * EraseSize + (u - start)] ELSE flash[u]]

\* What MEMERASE takes: an existing device and a whole erase block inside it.
Erasable(t) ==
  /\ t.dev \in MtdNums
  /\ \E n \in 0 .. FlashSize : t.off = n * EraseSize
  /\ t.off + EraseSize <= Device[t.dev].size

Here      == Target(job, i, c)
HereStart == Device[Here.dev].base + Here.off
HereUnits == Block(Here.dev, Here.off)
UbiDev    == FindMtd(job.part, job.mtdbackup[i].name)
UbiBlock  == [dev |-> UbiDev, off |-> c * EraseSize]
UbiUnits  == Block(UbiDev, c * EraseSize)
Volume    == <<UbiDev, job.mtdbackup[i + c].vol_id>>

Goto(label) == pc' = label /\ UNCHANGED <<job, i, c>>
Fail        == Goto("false")

-----------------------------------------------------------------------------
(* do_flash. *)

(***************************************************************************)
(* do_flash(..., simulate = true): the same walk with no device touched.   *)
(* The caller starts the real pass when it returns true.                   *)
(***************************************************************************)
Analyse ==
  /\ pc = "analyse"
  /\ IF \A e \in Slots : Accepted(job, e) THEN Goto("entry") ELSE Fail
  /\ UNCHANGED <<flash, vols>>

\* A slot without a name, or one whose blocks are all written.
NextEntry ==
  /\ pc = "entry" /\ i \in Slots
  /\ IsRaw(job, i) => c >= Cnt(job, i)
  /\ ~IsUbi(job, i)
  /\ i' = i + 1 /\ c' = 0
  /\ UNCHANGED <<flash, vols, job, pc>>

\* Mutants of NextChunk: the environment is not skipped; the loop does not
\* advance past it.
NextChunkNoSkip ==
  /\ pc = "entry" /\ i \in Slots
  /\ IsRaw(job, i) /\ c < Cnt(job, i)
  /\ Goto(IF Here.dev = NoMtd THEN "false" ELSE "erase")
  /\ UNCHANGED <<flash, vols>>

NextChunkStuck ==
  /\ pc = "entry" /\ i \in Slots
  /\ IsRaw(job, i) /\ c < Cnt(job, i)
  /\ Goto(IF Here.dev = NoMtd THEN "false"
          ELSE IF Skipped(job, Here) THEN "entry" ELSE "erase")
  /\ UNCHANGED <<flash, vols>>

NextChunk ==
  /\ pc = "entry" /\ i \in Slots
  /\ IsRaw(job, i) /\ c < Cnt(job, i)
  /\ LET skip == Here.dev # NoMtd /\ Skipped(job, Here)
     IN  /\ pc' = IF Here.dev = NoMtd THEN "false"
                  ELSE IF skip THEN "entry" ELSE "erase"
         /\ c' = IF skip THEN c + 1 ELSE c
  /\ UNCHANGED <<flash, vols, job, i>>

Finish ==
  /\ pc = "entry" /\ i = MaxBlocks
  /\ Goto("true")
  /\ UNCHANGED <<flash, vols>>

-----------------------------------------------------------------------------
(* mtd_write: open, mtd_erase_block, mtd_write_block, mtd_verify_block. *)

EraseBlock ==
  /\ pc = "erase"
  /\ Erasable(Here)
  /\ flash' = Fill(HereUnits, Erased)
  /\ Goto("write")
  /\ UNCHANGED vols

\* The device does not open, or the erase fails, on an XM board by XM's own
\* method too; a failed erase may have reached the cells.
EraseFails ==
  /\ pc = "erase"
  /\ \/ flash' = flash
     \/ Erasable(Here) /\ flash' = Fill(HereUnits, Torn)
  /\ Fail
  /\ UNCHANGED vols

\* write() accepts the whole block; dead cells do not keep it.
WriteBlock ==
  /\ pc = "write"
  /\ \/ flash' = Put(HereStart, job.mtdbackup[i].data)
     \/ flash' = Fill(HereUnits, Torn)
  /\ Goto("verify")
  /\ UNCHANGED vols

\* Mutant of WriteFails: the result of mtd_write_block is ignored.
WriteFailsIgnored ==
  /\ pc = "write"
  /\ flash' = Fill(HereUnits, Torn)
  /\ pc' = "entry" /\ c' = c + 1
  /\ UNCHANGED <<vols, job, i>>

WriteFails ==
  /\ pc = "write"
  /\ flash' = Fill(HereUnits, Torn)
  /\ Fail
  /\ UNCHANGED vols

\* Mutant of VerifyBlock: what was read back is not compared.
VerifyBlockUnchecked ==
  /\ pc = "verify"
  /\ pc' = "entry" /\ c' = c + 1
  /\ UNCHANGED <<flash, vols, job, i>>

VerifyBlock ==
  /\ pc = "verify"
  /\ flash = Put(HereStart, job.mtdbackup[i].data)
  /\ pc' = "entry" /\ c' = c + 1
  /\ UNCHANGED <<flash, vols, job, i>>

\* A short read, or the block does not compare equal.
VerifyFails ==
  /\ pc = "verify"
  /\ Fail
  /\ UNCHANGED <<flash, vols>>

-----------------------------------------------------------------------------
(* ubi_restore_partition. *)

\* Find the partition, detach a UBI device that holds it, open /dev/mtdN; when
\* MEMGETINFO fails nothing is erased.
UbiOpen ==
  /\ pc = "entry" /\ i \in Slots /\ IsUbi(job, i)
  /\ \/ Fail
     \/ UbiDev \in MtdNums /\ Goto("ubi_erase")
     \/ UbiDev \in MtdNums /\ Goto("ubi_attach")
  /\ UNCHANGED <<flash, vols>>

\* The result of mtd_erase_block is ignored: the loop goes on.
UbiErase ==
  /\ pc = "ubi_erase" /\ c * EraseSize < Device[UbiDev].size
  /\ \/ /\ Erasable(UbiBlock)
        /\ flash' = Fill(UbiUnits, Erased)
        /\ vols' = [mv \in DOMAIN vols |->
                      IF mv[1] = UbiDev THEN [st |-> "none", src |-> -1] ELSE vols[mv]]
     \/ /\ flash' = flash \/ (Erasable(UbiBlock) /\ flash' = Fill(UbiUnits, Torn))
        /\ UNCHANGED vols
  /\ c' = c + 1
  /\ UNCHANGED <<job, pc, i>>

UbiErased ==
  /\ pc = "ubi_erase" /\ c * EraseSize >= Device[UbiDev].size
  /\ pc' = "ubi_attach" /\ c' = 0
  /\ UNCHANGED <<flash, vols, job, i>>

UbiAttach ==
  /\ pc = "ubi_attach"
  /\ \/ /\ flash' = Fill(Partition(UbiDev), UbiHeader)
        /\ Goto("ubi_mkvol")
     \/ Fail /\ UNCHANGED flash
  /\ UNCHANGED vols

\* The kernel refuses a nameless volume and an identifier in use.
UbiMkVol ==
  /\ pc = "ubi_mkvol" /\ c < NVols(job, i)
  /\ \/ /\ job.mtdbackup[i + c].vol_name # Unnamed
        /\ vols[Volume].st = "none"
        /\ vols' = [vols EXCEPT ![Volume].st = "created"]
        /\ Goto("ubi_volup")
     \/ Fail /\ UNCHANGED vols
  /\ UNCHANGED flash

UbiVolUp ==
  /\ pc = "ubi_volup"
  /\ \/ vols' = [vols EXCEPT ![Volume].st = "updating"] /\ Goto("ubi_write")
     \/ Fail /\ UNCHANGED vols
  /\ UNCHANGED flash

\* Mutant of UbiWrite: every volume gets the data of the first.
UbiWriteFirst ==
  /\ pc = "ubi_write"
  /\ \/ /\ vols' = [vols EXCEPT ![Volume] = [st |-> "data", src |-> i]]
        /\ pc' = "ubi_mkvol" /\ c' = c + 1
        /\ UNCHANGED <<job, i>>
     \/ Fail /\ UNCHANGED vols
  /\ UNCHANGED flash

\* The write loop ends with the whole volume written or with an error.
UbiWrite ==
  /\ pc = "ubi_write"
  /\ \/ /\ vols' = [vols EXCEPT ![Volume] = [st |-> "data", src |-> i + c]]
        /\ pc' = "ubi_mkvol" /\ c' = c + 1
        /\ UNCHANGED <<job, i>>
     \/ Fail /\ UNCHANGED vols
  /\ UNCHANGED flash

UbiDone ==
  /\ pc = "ubi_mkvol" /\ c = NVols(job, i)
  /\ i' = i + NVols(job, i) /\ c' = 0 /\ pc' = "entry"
  /\ UNCHANGED <<flash, vols, job>>

-----------------------------------------------------------------------------
Labels == {"analyse", "entry", "erase", "write", "verify", "ubi_erase",
           "ubi_attach", "ubi_mkvol", "ubi_volup", "ubi_write"}

Running == pc \in Labels

(***************************************************************************)
(* Power is lost, or a signal kills the process between two system calls.  *)
(* An erase or a write under way is cut short.                             *)
(***************************************************************************)
Interrupt ==
  /\ Running
  /\ \/ flash' = flash
     \/ pc \in {"erase", "write"} /\ Erasable(Here) /\ flash' = Fill(HereUnits, Torn)
     \/ pc = "ubi_erase" /\ Erasable(UbiBlock) /\ flash' = Fill(UbiUnits, Torn)
  /\ Goto("dead")
  /\ UNCHANGED vols

FlashStep ==
  \/ Analyse \/ NextEntry \/ NextChunk \/ Finish
  \/ EraseBlock \/ EraseFails \/ WriteBlock \/ WriteFails
  \/ VerifyBlock \/ VerifyFails
  \/ UbiOpen \/ UbiErase \/ UbiErased \/ UbiAttach
  \/ UbiMkVol \/ UbiVolUp \/ UbiWrite \/ UbiDone
=============================================================================
