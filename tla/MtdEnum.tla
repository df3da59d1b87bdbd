------------------------------- MODULE MtdEnum -------------------------------
(***************************************************************************)
(* enum_mtd_info (src/mtd.c): the order in which its callbacks see the MTD *)
(* devices, and the partition table cb_mtd_restore (src/backup.c) makes of *)
(* them for restore and upgrade.                                           *)
(***************************************************************************)
EXTENDS DoFlash, SequencesExt

MAX_MTD == 10
ENV_MTD_NUM == 2

(***************************************************************************)
(* The lines of /proc/mtd, sorted when they are the five of an Anjoy       *)
(* board, where UBOOT is listed fourth and lies second.                    *)
(***************************************************************************)
AnjoyNames == <<"BOOT", "KERNEL", "SYSTEM", "UBOOT", "DATA">>

EnumOrder(dev) ==
  LET lines == [n \in 1 .. Cardinality(DOMAIN dev) |-> n - 1]
      anjoy == /\ Len(lines) >= 5
               /\ \A n \in 1 .. 5 : dev[n - 1].name = AnjoyNames[n]
  IN  SubSeq(IF anjoy THEN [lines EXCEPT ![2] = 3, ![3] = 1, ![4] = 2] ELSE lines,
             1, IF Len(lines) < MAX_MTD THEN Len(lines) ELSE MAX_MTD)

(***************************************************************************)
(* cb_mtd_restore on the devices that answer MEMGETINFO (valid), in their  *)
(* order.  While the environment is searched for, the first devices are    *)
(* mapped; one that cannot be mapped is not recorded in the partition      *)
(* table.  env_at[m] is the offset uboot_detect_env returns, or -1.        *)
(***************************************************************************)
EnumRestore(search, valid, mapped, env_at) ==
  LET order   == SelectSeq(EnumOrder(Device), LAMBDA m : m \in valid)
      calls   == 1 .. Len(order)
      probes  == {n \in calls : search /\ order[n] < ENV_MTD_NUM}
      found   == {n \in probes : order[n] \in mapped /\ env_at[order[n]] # -1}
      lost    == {n \in probes : order[n] \notin mapped /\ \A f \in found : n < f}
      known   == {m \in valid : \E n \in calls \ lost : order[n] = m}
      env_dev == order[CHOOSE n \in found : \A f \in found : n <= f]
      part    == [m \in Slots |-> IF m \in known
                                  THEN [name |-> Device[m].name, size |-> Device[m].size]
                                  ELSE NoPart]
  IN  [part      |-> part,
       totalsz   |-> SizeBefore(part)[MaxBlocks],
       erasesize |-> IF valid = {} THEN 0 ELSE EraseSize,
       env_dev   |-> IF ~search THEN 0 ELSE IF found = {} THEN NoMtd ELSE env_dev,
       env_offset |-> IF found = {} THEN 0 ELSE env_at[env_dev]]
=============================================================================
