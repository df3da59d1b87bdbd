------------------------------- MODULE Flasher -------------------------------
(***************************************************************************)
(* do_flash run on its own, for any plan a caller may hand it: what it     *)
(* promises to restore_backup and do_upgrade.                              *)
(***************************************************************************)
EXTENDS DoFlash

CONSTANTS
  Plans,    \* the arguments do_flash may be called with
  Chips     \* what the chip may hold when it is called

ASSUME PlansAssumption == \A j \in Plans : PlanOK(j) /\ PlanDisjoint(j)
ASSUME ChipsAssumption == Chips \subseteq [Units -> Data]

-----------------------------------------------------------------------------
FlashInit ==
  /\ job \in Plans
  /\ flash \in Chips
  /\ vols = [mv \in MtdNums \X VolIds |->
              [st |-> IF mv[2] < Device[mv[1]].nvols THEN "data" ELSE "none", src |-> -1]]
  /\ pc = "analyse" /\ i = 0 /\ c = 0

FlashNext == FlashStep \/ Interrupt

FlashSpec == FlashInit /\ [][FlashNext]_flashVars

\* The process is scheduled and every system call returns.
FairSpec == FlashSpec /\ WF_flashVars(FlashStep)

-----------------------------------------------------------------------------
VolState == [st : {"none", "created", "updating", "data"}, src : Int]

\* Types; c stays within the entry it counts.
FlashTypeOK ==
  /\ flash \in [Units -> Content]
  /\ vols \in [MtdNums \X VolIds -> VolState]
  /\ job \in Plans
  /\ pc \in Labels \cup {"true", "false", "dead"}
  /\ i \in 0 .. MaxBlocks
  /\ c \in Nat

Before(e, k, f, l) == e < f \/ (e = f /\ k < l)

Holds(e, k) ==
  LET t == Target(job, e, k) IN
  \A x \in 0 .. EraseSize - 1 :
    flash[Device[t.dev].base + t.off + x] = job.mtdbackup[e].data[k * EraseSize + x]

\* do_flash, mtd_write: at every moment, a crash included, each erase block the
\* walk has passed holds its data or was skipped as the environment, so that
\* `true`, which makes the caller reboot, means that all of them do.
VerifiedPrefix ==
  \A e \in Slots : IsRaw(job, e) =>
    \A k \in 0 .. Cnt(job, e) - 1 :
      Before(e, k, i, c) => Skipped(job, Target(job, e, k)) \/ Holds(e, k)

\* Units that a step cut short may leave without contents.
AtRisk ==
  IF pc \notin {"write", "verify", "ubi_erase", "ubi_attach", "false", "dead"} THEN {}
  ELSE IF i \in Slots /\ IsUbi(job, i) THEN Partition(UbiDev)
  ELSE IF i \in Slots /\ IsRaw(job, i) /\ c < Cnt(job, i) THEN HereUnits
  ELSE {}

\* mtd_write: a power loss, a signal or a failing call leaves erased or torn
\* cells in one erase block (or in the UBI partition being recreated), the one
\* do_flash is at, and nowhere else.
DamageConfined ==
  \A u \in Units : flash[u] \in {Erased, Torn} => u \in AtRisk

\* The real pass never meets the "Offset algorithm error" or the missing UBI
\* partition that the simulated pass exists to find before anything is erased.
AnalysisCovers ==
  pc \in (Labels \ {"analyse"}) \cup {"true"} => \A e \in Slots : Accepted(job, e)

\* restore --skip-env: no step changes the erase block at the offset where the
\* environment was detected.
EnvBlockKept ==
  [][job.skip_env /\ job.env_dev \in MtdNums =>
       \A u \in Units \cap Block(job.env_dev, job.env_offset) : flash'[u] = flash[u]]_flashVars

\* ubi_restore_partition: once do_flash has passed a UBI partition, each of its
\* stored volumes exists and holds that entry's data.
UbiPrefix ==
  \A e \in Slots : IsUbi(job, e) /\ e < i =>
    vols[<<FindMtd(job.part, job.mtdbackup[e].name), job.mtdbackup[e].vol_id>>]
      = [st |-> "data", src |-> e]

\* do_flash returns, or the process is gone: no loop of it runs forever.
Terminates == <>(~Running)

\* do_flash at every moment: types, nothing the simulated pass should have
\* refused, and damage nowhere but where it is.
Careful == FlashTypeOK /\ AnalysisCovers /\ DamageConfined
=============================================================================
