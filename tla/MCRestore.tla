------------------------------ MODULE MCRestore ------------------------------
(***************************************************************************)
(* Restores onto a chip of six erase blocks with a partition table of      *)
(* three, from backups made under this and under another table, intact and *)
(* damaged.  Unit u of a backup holds u.                                   *)
(***************************************************************************)
EXTENDS Restore, TLC

CONSTANTS BadData, TwoBlockEnv

Part(name, base, size) ==
  [name |-> name, base |-> base, size |-> size, ubi |-> FALSE, nvols |-> 0]

MCDevice == (0 :> Part("boot", 0, 2)) @@ (1 :> Part("kernel", 2, 2))
         @@ (2 :> Part("rootfs", 4, 2))

OldDevice == (0 :> Part("boot", 0, 1)) @@ (1 :> Part("env", 1, 1))
          @@ (2 :> Part("linux", 2, 3)) @@ (3 :> Part("cfg", 5, 1))

MCEnvUnits == IF TwoBlockEnv THEN {2, 3} ELSE {1}

MCData == Units \cup {OldData, OldEnv, VolData, BadData}

Chip == [u \in Units |-> u]
All(dev) == DoBackup(dev, Chip, DOMAIN dev, DOMAIN dev, DOMAIN dev)

\* A download that ends inside block n, or a block n that was altered.
Truncated(im, n) == [im EXCEPT !.blocks[n].whole = FALSE]
Corrupted(im, n) == [im EXCEPT !.blocks[n].data[0] = BadData]

MCImages ==
  { All(MCDevice), All(OldDevice),
    Truncated(All(MCDevice), 3), Corrupted(All(MCDevice), 1),
    \* partition 2 was mounted read-write: no SHA1
    Corrupted(DoBackup(MCDevice, Chip, 0 .. 2, {0, 1}, 0 .. 2), 3),
    \* partition 1 could be described but not mapped
    DoBackup(MCDevice, Chip, 0 .. 2, 0 .. 2, {0, 2}),
    \* partition 2 could not be opened at all
    DoBackup(MCDevice, Chip, {0, 1}, {0, 1}, {0, 1}) }

=============================================================================
