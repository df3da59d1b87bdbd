------------------------------ MODULE MCFlasher ------------------------------
(***************************************************************************)
(* do_flash on a chip of six erase blocks of two units: a boot partition   *)
(* of two blocks, a kernel partition of two and a UBI partition of two.    *)
(***************************************************************************)
EXTENDS Flasher, TLC

MCDevice == (0 :> [name |-> "boot", base |-> 0, size |-> 4, ubi |-> FALSE, nvols |-> 0])
         @@ (1 :> [name |-> "kernel", base |-> 4, size |-> 4, ubi |-> FALSE, nvols |-> 0])
         @@ (2 :> [name |-> "ubi", base |-> 8, size |-> 4, ubi |-> TRUE, nvols |-> 1])

MCData == 0 .. 100

MCChips == {[u \in Units |-> 100]}

Raw(name, off, size, tag) ==
  [NoEntry EXCEPT !.name = name, !.off = off, !.size = size,
                  !.data = [x \in 0 .. size - 1 |-> tag + x]]

Vol(id, vol_name) ==
  [NoEntry EXCEPT !.name = "ubi", !.is_ubi = TRUE, !.size = 3,
                  !.vol_id = id, !.vol_name = vol_name]

Stored(s) == [e \in Slots |-> IF e < Len(s) THEN s[e + 1] ELSE NoEntry]

FirstParts(n) ==
  [m \in Slots |-> IF m < n THEN [name |-> Device[m].name, size |-> Device[m].size]
                   ELSE NoPart]

Plan(s, n, skip, dev, off) ==
  [mtdbackup |-> Stored(s), part |-> FirstParts(n), skip_env |-> skip,
   env_dev |-> dev, env_offset |-> off]

MCPlans ==
  { \* a whole backup, the environment in the second block of boot
    Plan(<<Raw("boot", 0, 4, 10), Raw("kernel", 4, 4, 20), Vol(0, "a"), Vol(1, "b")>>,
         3, TRUE, 0, 2),
    \* another partition layout, and a last block that is not whole
    Plan(<<Raw("all", 2, 5, 30), NoEntry, Vol(1, "a"), Raw("head", 0, 2, 40)>>,
         3, FALSE, 0, 0),
    \* offsets that are no multiple of the erase size
    Plan(<<Raw("odd", 0, 2, 50), Raw("off", 3, 4, 60)>>, 3, TRUE, 1, 0),
    \* a table cut short: the simulated pass must refuse both
    Plan(<<Raw("boot", 0, 4, 10), Raw("kernel", 4, 4, 20)>>, 1, FALSE, 0, 0),
    Plan(<<Raw("boot", 0, 4, 10), Vol(0, "a")>>, 2, FALSE, 0, 0) }
=============================================================================
