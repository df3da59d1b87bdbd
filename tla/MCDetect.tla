------------------------------- MODULE MCDetect -------------------------------
(* Every sensor the detectors know, on one platform; a few of each kind on    *)
(* all platforms, buses, clocks and access layers; the commands that work on  *)
(* registers by hand.                                                         *)
EXTENDS I2cSpi

Chip(width, regs, fill, other) ==
    [width |-> width, regs |-> regs, fixed |-> DOMAIN regs, fill |-> fill, other |-> other, page |-> 0, junk |-> 1, lost |-> <<>>]
Id(a, hi, b, lo) == (a :> hi) @@ (b :> lo)
Word(a, w) == Id(a, w \div 256, a + 1, w % 256)
Fills == {0, 255}

SonyRegs ==
    (347 :> (\H3057 :> 6)) @@ (334 :> (Id(\H341C, \H47, \H302E, \H18) @@ (\H302F :> \HF))) @@ (335 :> (\H316A :> \H7C))
    @@ (323 :> Id(\H3013, \H40, \H304F, 7)) @@ (322 :> Id(\H3013, \H40, \H304F, 0)) @@ (415 :> (\H3B00 :> \H28))
    @@ (178 :> (\H33B4 :> \H96)) @@ (274 :> Id(\H3120, \H80, \H3129, \HD)) @@ (185 :> (\H3015 :> \H3C))
    @@ (294 :> (\H35B8 :> \HFA)) @@ (226 :> (\H3045 :> \H32)) @@ (122 :> (\H30CE :> \H16))
    @@ (307 :> (\H31DC :> 4)) @@ (327 :> (\H31DC :> 6))
    @@ (291 :> (Id(\H301E, \HB2, \H301F, 1) @@ Id(\H31DC, 1, \H309C, \H20)))
    @@ (290 :> (Id(\H301E, \HB2, \H301F, 1) @@ Id(\H31DC, 1, \H309C, 0)))
    @@ (219 :> Id(0, 2, 1, \H19)) @@ (123 :> Id(\H3004, \H10, \H309E, \H71))
    @@ (225 :> (Id(\H3004, \H10, \H300C, 0) @@ Id(\H300E, 1, \H300D, 0) @@ Id(\H3010, 1, \H3011, 0)
                @@ Id(\H301E, 1, \H301F, 0) @@ (\H3338 :> 0)))
    @@ (385 :> (Id(\H3004, \H10, \H300C, 0) @@ Id(\H300E, 1, \H300D, 0) @@ Id(\H3010, 1, \H3011, 0)
                @@ Id(\H301E, 1, \H301F, 0) @@ (\H3338 :> 1)))
    @@ (138 :> (Id(\H3004, \H10, \H300C, 0) @@ Id(\H300E, 1, \H300D, \H20) @@ Id(\H3010, \H39, \H3006, 0)
                @@ Id(\H300F, 1, \H3012, \H50)))
    @@ (664 :> Id(\H30A4, \HA0, \H3C44, 6)) @@ (662 :> Id(\H30A4, \HA0, \H3C40, 5))
    @@ (675 :> Id(\H30A4, \HA0, \H3C7C, \H16)) @@ (482 :> Id(\H30A4, \H20, \H3152, \H1E))

Known(vendor, name, sits, sensor) == [vendor |-> vendor, name |-> name, sits |-> sits, sensor |-> sensor]
SonyChips(fill) == {Known("SONY", n, \H34, Chip(2, SonyRegs[n], fill, NoAnswer)) : n \in DOMAIN SonyRegs}
SmartSensChips(fill, other) == {Known("SMARTSENS", n, \H60, Chip(2, Word(\H3107, n), fill, other)) : n \in SmartSensIds}
SoiChips(fill) == {Known("SOI", n, a, Chip(1, Word(\HA, n), fill, 0)) :
                   n \in {\HF23, \HF37, \HA062, \H507, \H843}, a \in {\H60, \H80}}
OnsemiChips == {Known("ONSEMI", n[2], \H20, Chip(2, Word(\H3000, n[1]), 0, 0)) :
                n \in {<<\H2402, \H0130>>, <<\H256, \H0237>>, <<\H2602, \H0331>>, <<\H2604, \H0330>>}}
OmniChips(fill) ==
    {Known("OMNIVISION", n, a, Chip(2, Word(\H300A, n), fill, 255)) : n \in {\H2710, \H2718, \H4688, \H5305}, a \in {\H60, \H6c, \H42}}
    \union {Known("OMNIVISION", n, a, Chip(1, Word(\H0A, n) @@ Word(\H1C, \H7FA2), fill, 255)) : n \in {\H9711, \H2770}, a \in {\H60, \H42}}
GalaxyChips(fill) ==
    {Known("GALAXYCORE", n, a, Chip(1, Word(\Hf0, n), fill, 0)) : n \in {\H1034, \H2023, \H5603}, a \in {\H6e, \H52, \H42, \H78}}
    \union {Known("GALAXYCORE", n, \H6e, Chip(2, Word(\H3f0, n), fill, NoAnswer)) : n \in {\H2053, \H4653}}
SuperPixChips ==
    {Known("SUPERPIX", n, \H79, [Chip(1, Word(2, n), 0, 0) EXCEPT !.page = p]) : n \in {\H140a, \H2735}, p \in 0..1}
    \union {Known("SUPERPIX", \H2305, \H79, Chip(1, Word(2, 1) @@ Word(\Hfa, \H2073), 0, 0))}
OtherChips ==
    {Known("TECHPOINT", \H2850, \H88, Chip(1, Word(\Hfe, \H2850), 0, 0)),
     Known("IMAGEDESIGN", \H2006, \H60, Chip(2, Word(\H3000, \H2006), 0, NoAnswer)),
     Known("VISEMI", \H4388, \H20, Chip(2, Word(\H3000, \H4388), 0, 0)),
     Known("CVSENS", \H2005, \H6a, Chip(2, Id(\H3003, \H20, \H3002, 5), 0, 0))}

Silent == Known("none", 0, \H60, [Chip(0, <<>>, 255, NoAnswer) EXCEPT !.regs = (0 :> 0)])
Few == {Known("SONY", 291, \H34, Chip(2, SonyRegs[291], 0, NoAnswer)),
        Known("SMARTSENS", \H2238, \H60, Chip(2, Word(\H3107, \H2238), 0, 255)),
        Known("SMARTSENS", \Hda23, \H60, Chip(2, Word(\H3107, \Hda23), 0, 255)),
        Known("ONSEMI", \H0130, \H20, Chip(2, Word(\H3000, \H2402), 0, 0)), Silent,
        Known("SOI", \HF23, \H60, Chip(1, Word(\HA, \HF23), 0, 0)),
        Known("SUPERPIX", \H140a, \H78, [Chip(1, Word(2, \H140a), 0, 0) EXCEPT !.page = 1])}
Fewer == {k \in Few : k.vendor \in {"none", "SONY"}}
(* An IMX335 whose picture size was programmed again.                         *)
Resized335 == Known("SONY", 335, \H34,
    [Chip(2, SonyRegs[335] @@ (\H3057 :> 6) @@ Id(\H3072, \H28, \H3074, \HB0), 0, NoAnswer) EXCEPT !.fixed = {\H316A}])
Unreliable == SonyChips(0) \union SoiChips(0) \union OmniChips(0) \union GalaxyChips(0) \union SuperPixChips
              \union OnsemiChips \union OtherChips \union {Resized335}
All == {Resized335} \union UNION {SonyChips(f) \union SoiChips(f) \union OmniChips(f) \union GalaxyChips(f) : f \in Fills}
       \union UNION {SmartSensChips(f, o) : f \in Fills, o \in {NoAnswer, 255}}
       \union OnsemiChips \union SuperPixChips \union OtherChips

Platform(maker, model) == [maker |-> maker, model |-> model, revision |-> 0]
V4 == Platform("hisi", "3516E300")
Platforms ==
    {V4, Platform("hisi", "35180100"), Platform("hisi", "3518E200"), Platform("hisi", "3516C300"), Platform("hisi", "3516C610"),
     Platform("hisi", "3516C500"), Platform("xm", ""), Platform("ingenic", "T31"), Platform("sstar", ""),
     Platform("novatek", ""), Platform("rockchip", "rv1106")}
Small == {Platform("allwinner", ""), Platform("fh", ""), Platform("gm", ""), Platform("bcm", ""), Platform("tegra", ""),
          Platform("xilinx", ""), Platform("ingenic", "T40"), Platform("novatek", "NA51103")}

On == [on |-> TRUE, reset |-> FALSE]
Off == [on |-> FALSE, reset |-> TRUE]
SpiNone == Chip(2, (\H3057 - \H2E00 :> 0), 255, NoAnswer)
SpiSony(n) == Chip(2, IF n = 335 THEN (\H316A - \H2E00 :> \H7C)
                      ELSE Id(\H21E, \HB2, \H21F, 1) @@ Id(\H3DC, 1, \H29C, \H20), 0, NoAnswer)

Case(cmd, platform, known, at, clock, spi, faults) ==
    [cmd |-> cmd, platform |-> platform, faults |-> faults, first |-> 0, at |-> at, buses |-> {0, 1, 4, 6}, clock |-> clock,
     control |-> "i2c", vendor |-> known.vendor, name |-> known.name, sits |-> known.sits, sensor |-> known.sensor,
     spidev |-> spi # "none", spi |-> IF spi \in {"335", "291"} THEN SpiSony(IF spi = "335" THEN 335 ELSE 291) ELSE SpiNone,
     spiName |-> CASE spi = "335" -> 335 [] spi = "291" -> 291 [] OTHER -> None,
     addr |-> known.sits, reg |-> \H3101, last |-> \H3103, value |-> 7]

ByHand == {"i2cget", "i2cset", "i2cdump", "spiget", "spiset", "spidump"}
WithRange(cases, from, to) == {[c EXCEPT !.reg = from, !.last = to] : c \in cases}
WholeBus(cases) == WithRange(cases, None, 0)
Handwork(commands, sensors, ranges) ==
    UNION {WithRange({Case(c, p, k, 0, <<Off, Off>>, s, f) : c \in commands, p \in Platforms, k \in sensors, s \in {"none", "empty"}, f \in BOOLEAN},
                     r[1], r[2]) : r \in ranges}
MCCases ==
    {Case("sensors", V4, k, 0, <<Off, On>>, "none", FALSE) : k \in All}
    \union {[Case("sensors", V4, k, 0, <<Off, On>>, "none", TRUE) EXCEPT !.buses = {0}] : k \in Unreliable}
    \union {Case("sensors", p, k, at, <<Off, On>>, "empty", FALSE) : p \in Platforms, k \in Few, at \in {0, 1}}
    \union {Case("sensors", p, k, 1, <<On, Off>>, "none", TRUE) : p \in Small \union {V4}, k \in Fewer}
    \union {Case("sensors", p, Silent, 0, <<On, Off>>, s, TRUE) : p \in {V4, Platform("hisi", "35180100")}, s \in {"335", "291"}}
    \union {Case("monitor", p, k, 0, <<c, c>>, s, TRUE) :
                p \in {V4, Platform("sstar", "")}, k \in Fewer, c \in {On, Off}, s \in {"335", "291"}}
    \union {Case("chip-name", p, Silent, 0, <<Off, Off>>, "none", TRUE) : p \in Platforms}
    \union Handwork({"i2cget", "i2cset", "spiget", "spiset"}, Few, {<<5, 5>>, <<\Hff, \Hff>>, <<\H3101, \H3101>>})
    \union Handwork({"i2cdump", "spidump"}, Fewer, {<<\Hfe, \H101>>})
    \union WithRange({Case("i2cdump", V4, Silent, 0, <<Off, Off>>, "none", FALSE)}, \Hfe, WordMax)
    \union WholeBus({Case("i2cdetect", p, k, 0, <<Off, Off>>, "none", FALSE) :
                     p \in {V4, Platform("hisi", "3518E200")}, k \in {k \in Few : k.name \in {\H2238, \H140a}}})
=============================================================================
