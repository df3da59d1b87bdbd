--------------------------------- MODULE Hal ---------------------------------
(* The layer under the sensor commands: what setup_hal_* of each platform     *)
(* installs, from hal/*.c and hal/hisi/hal_hisi.c, and how a chip of          *)
(* HiSilicon's or Goke's is told (chipid.c).                                  *)
EXTENDS Integers, Sequences, TLC

(* The sensor addresses each platform tries, per vendor and in order.         *)
HisiAddrs ==
    [SONY |-> <<\H34>>, SOI |-> <<\H80, \H60>>, ONSEMI |-> <<\H20, \H30>>, SMARTSENS |-> <<\H60>>,
     OMNIVISION |-> <<\H60, \H6c, \H42>>, GALAXYCORE |-> <<\H6e, \H52, \H42, \H78>>, SUPERPIX |-> <<\H79>>,
     TECHPOINT |-> <<\H88>>, IMAGEDESIGN |-> <<\H60>>, VISEMI |-> <<\H20>>, CVSENS |-> <<\H6a>>]

XmAddrs == [SONY |-> <<\H34>>, SOI |-> <<\H60, \H80>>, ONSEMI |-> <<\H20>>, SMARTSENS |-> <<\H60>>, OMNIVISION |-> <<\H6c>>]

SstarAddrs ==
    [SONY |-> <<\H34>>, GALAXYCORE |-> <<\H42, \H52, \H6e>>, SMARTSENS |-> <<\H60>>, SUPERPIX |-> <<\H78>>,
     OMNIVISION |-> <<\H6c>>, ONSEMI |-> <<\H20>>, SOI |-> <<\H80>>]

IngenicAddrs ==
    [SONY |-> <<\H34>>, SMARTSENS |-> <<\H60>>, OMNIVISION |-> <<\H6c>>, ONSEMI |-> <<\H20>>,
     GALAXYCORE |-> <<\H6e, \H52, \H42>>, SOI |-> <<\H60, \H80>>, SUPERPIX |-> <<\H78>>]

CommonAddrs(gc) == [SONY |-> <<\H34>>, SMARTSENS |-> <<\H60>>, OMNIVISION |-> <<\H6c>>, ONSEMI |-> <<\H20>>, GALAXYCORE |-> gc]

FhAddrs == CommonAddrs(<<\H6e, \H52>>)
GmAddrs == CommonAddrs(<<\H6e>>)
NovatekAddrs == CommonAddrs(<<\H6e>>) @@ [TECHPOINT |-> <<\H88>>]
RockchipAddrs == CommonAddrs(<<\H6e>>) @@ [IMAGEDESIGN |-> <<\H60>>]
AllwinnerAddrs == CommonAddrs(<<\H6e>>)
BcmAddrs == [OMNIVISION |-> <<\H36>>]
TegraAddrs == [SONY |-> <<\H10>>]

(* What setup_hal_fallback installs, before the platform's own setup: access, *)
(* how registers are read and written; change, what selecting a slave does;   *)
(* device, the bus open_i2c_sensor_fd opens (the one asked for, or one of its *)
(* own; AnyBus where the name of the device has no number in it); spi, TRUE   *)
(* if SPI can be opened and read; printk, TRUE if the kernel's messages are   *)
(* silenced; cleanup, what hal_cleanup restores; clock, how the sensor's      *)
(* clock is switched on; renumbers, TRUE if opening changes i2c_adapter_nr;   *)
(* shift, TRUE if an address is that of a write and loses its last bit.       *)
Asked == -1
AnyBus == -2

Fallback ==
    [access |-> "universal", change |-> "slave", device |-> Asked, spi |-> FALSE, printk |-> FALSE,
     cleanup |-> {}, clock |-> "none", renumbers |-> FALSE, shift |-> TRUE, addrs |-> <<>>]

HisiHal == [Fallback EXCEPT !.access = "rdwr", !.spi = TRUE, !.printk = TRUE, !.cleanup = {"printk"}, !.addrs = HisiAddrs]

(* hal/hisi/hal_hisi.c: setup_hal_hisi, by chip_generation.                   *)
SetupHisi(generation) ==
    CASE generation = "HISI_V1" -> [HisiHal EXCEPT !.access = "gen1", !.shift = FALSE, !.device = AnyBus]
      [] generation \in {"HISI_V2", "HISI_V2A"} -> [HisiHal EXCEPT !.access = "gen2", !.shift = FALSE]
      [] generation = "HISI_V3" -> [HisiHal EXCEPT !.clock = "v3"]
      [] generation = "HISI_V4" -> [HisiHal EXCEPT !.clock = "v4", !.cleanup = {"printk", "clock"}]
      [] generation = "HISI_OT" -> [HisiHal EXCEPT !.clock = "ot", !.cleanup = {"printk", "clock"}]
      [] OTHER -> HisiHal

SetupXm == [Fallback EXCEPT !.access = "xm", !.change = "nothing", !.device = AnyBus, !.printk = TRUE,
                            !.cleanup = {"printk"}, !.addrs = XmAddrs]
SetupIngenic(t40) == [Fallback EXCEPT !.device = IF t40 THEN 1 ELSE 0, !.printk = TRUE, !.clock = "cim", !.addrs = IngenicAddrs]
SetupSstar == [Fallback EXCEPT !.device = 1, !.addrs = SstarAddrs]
SetupNovatek(two) == [Fallback EXCEPT !.device = IF two THEN 1 ELSE Asked, !.addrs = NovatekAddrs]
SetupRockchip(rv1106) == [Fallback EXCEPT !.renumbers = TRUE, !.device = IF rv1106 THEN 4 ELSE 1, !.addrs = RockchipAddrs]
SetupAllwinner == [Fallback EXCEPT !.device = 1, !.addrs = AllwinnerAddrs]
SetupFh == [Fallback EXCEPT !.addrs = FhAddrs]
SetupGm == [Fallback EXCEPT !.addrs = GmAddrs]
SetupBcm == [Fallback EXCEPT !.shift = FALSE, !.addrs = BcmAddrs]
SetupTegra == [Fallback EXCEPT !.shift = FALSE, !.device = 6, !.addrs = TegraAddrs]
SetupXilinx == Fallback

(* The generation of a HiSilicon or Goke chip, from the id its system         *)
(* controller holds and its revision; ids the program knows no generation of  *)
(* leave it unset.                                                            *)
Generation(family, revision) ==
    CASE family = "3516A100" -> "HISI_V2A"
      [] family = "35190101" -> "HISI_V3A"
      [] family \in {"3516A300", "3516C500", "3516D300"} -> "HISI_V4A"
      [] family = "3516C300" -> "HISI_V3"
      [] family \in {"3516C608", "3516C610", "3516C613", "3516D500", "3519D500"} -> "HISI_OT"
      [] family \in {"3516D200", "3516E200", "3516E300", "3518E300", "72050200", "72020300", "72050300", "76050100",
                     "72050210", "72010200", "72010300", "72020330", "72050500", "72050510", "72050530"} -> "HISI_V4"
      [] family = "35180100" -> "HISI_V1"
      [] family = "3518E200" -> "HISI_V2"
      [] family = "3536C100" \/ (family = "BDA9D100" /\ revision = 2) -> "HISI_3536C"
      [] family = "3536D100" -> "HISI_3536D"
      [] OTHER -> "unset"

(* getchipname's platforms: those told by the console's address, which is     *)
(* HiSilicon's or Xiongmai's, and those told by the name in /proc/cpuinfo or  *)
(* the device tree.                                                           *)
Setup(platform) ==
    CASE platform.maker = "hisi" -> SetupHisi(Generation(platform.model, platform.revision))
      [] platform.maker = "xm" -> SetupXm
      [] platform.maker = "ingenic" -> SetupIngenic(platform.model = "T40")
      [] platform.maker = "sstar" -> SetupSstar
      [] platform.maker = "novatek" -> SetupNovatek(platform.model \in {"NA51068", "NA51103", "NA51090"})
      [] platform.maker = "rockchip" -> SetupRockchip(platform.model \in {"rv1103", "rv1106"})
      [] platform.maker = "allwinner" -> SetupAllwinner
      [] platform.maker = "fh" -> SetupFh
      [] platform.maker = "gm" -> SetupGm
      [] platform.maker = "bcm" -> SetupBcm
      [] platform.maker = "tegra" -> SetupTegra
      [] platform.maker = "xilinx" -> SetupXilinx
=============================================================================
