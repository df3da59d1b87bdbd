------------------------------ MODULE MCUpgrade ------------------------------
(***************************************************************************)
(* Upgrades of a camera with eight erase blocks of two units: boot loader, *)
(* environment, kernel and root file system.                               *)
(***************************************************************************)
EXTENDS Upgrade, TLC

Dev(name, base, size) ==
  [name |-> name, base |-> base, size |-> size, ubi |-> FALSE, nvols |-> 0]

MCDevice == (0 :> Dev("boot", 0, 4)) @@ (1 :> Dev("env", 4, 2))
         @@ (2 :> Dev("linux", 6, 4)) @@ (3 :> Dev("fs", 10, 6))

MCKeys == {<<"ethaddr">>, <<"osmem">>, <<"soc">>, <<"bootcmd">>, <<"bootargs">>}
MCValues == Seq(Nat)

MCData ==
  [kind : {"old", "fill", "boot", "kernel", "rootfs"}, at : Units]
    \cup [kind : {"env"}, at : Units, vars : Seq(Keys \X Values)]

MCOldEnv == <<<<<<"ethaddr">>, <<7>>>>, <<<<"bootcmd">>, <<0>>>>,
              <<<<"osmem">>, <<1>>>>, <<<<"bootargs">>, <<1, 1, 1, 1>>>>>>

Image(name, len) == [x \in 1 .. len |-> [kind |-> name, at |-> x - 1]]

Part(name, psize, len) ==
  [name |-> name, psize |-> psize, payload |-> Image(name, len), sha1 |-> Image(name, len)]

Altered(part) == [part EXCEPT !.payload[1] = Filler]

Bundle(prefix, skip, offset, parts) ==
  [prefix |-> prefix, skip |-> skip, offset |-> offset, parts |-> parts,
   vars |-> <<<<<<"osmem">>, <<3, 2>>>>, <<<<"soc">>, <<5>>>>>>]

Kept == <<"boot", "env">>

MCBundles ==
  { \* everything; the kernel shorter than its partition
    Bundle(<<>>, <<>>, -1, <<Part("boot", 4, 4), Part("kernel", 4, 3), Part("rootfs", 6, 6)>>),
    \* kernel and root file system, packed tightly, in both orders
    Bundle(<<>>, Kept, -1, <<Part("kernel", 0, 3), Part("rootfs", 0, 5)>>),
    Bundle(<<>>, Kept, -1, <<Part("rootfs", 0, 3), Part("kernel", 0, 2)>>),
    \* partitions of the bundle's own choice in front
    Bundle(<<4, 2, 2>>, <<>>, 8, <<Part("kernel", 0, 2), Part("rootfs", 0, 4)>>),
    \* to be refused: too long for its partition or for the chip, altered, no kernel
    Bundle(<<>>, Kept, -1, <<Part("kernel", 2, 3), Part("rootfs", 0, 4)>>),
    Bundle(<<>>, Kept, -1, <<Part("kernel", 4, 4), Part("rootfs", 0, 8)>>),
    Bundle(<<>>, Kept, -1, <<Part("kernel", 4, 4), Altered(Part("rootfs", 0, 4))>>),
    Bundle(<<>>, Kept, -1, <<Part("rootfs", 0, 4)>>) }
=============================================================================
