------------------------------ MODULE SensorIds ------------------------------
(* How sensors.c tells sensors apart: what the registers of a sensor answer   *)
(* to each way of reading them, and the decision every detect_* function takes *)
(* on the answers. A sensor is named by a number, the one its id registers    *)
(* hold or the one printed after the vendor's prefix; 0 is an empty name and  *)
(* None no name at all.                                                       *)
EXTENDS Integers, SequencesExt

None == -2      \* not recognised
NoAnswer == -1

(* A sensor: width, the bytes of its register addresses (0: nothing there);   *)
(* regs, the registers with a value of their own, of which those of fixed can *)
(* not be written; fill, what all others read;                                *)
(* other, what a two-byte sensor answers when sent only half an address; page,*)
(* the register page it is turned to; junk, what an unset byte of the         *)
(* program's stack happens to hold; lost, the registers that cannot be had at *)
(* the moment, and what a reading of one that fails amounts to.               *)
Byte(s, a) ==
    IF s.page = 0 /\ a \in DOMAIN s.regs THEN s.regs[a]
    ELSE IF a = \HFD /\ s.width = 1 THEN s.page ELSE s.fill

SpiRegister(a) == IF a >= \H3000 THEN a - \H3000 + \H200 ELSE a

(* A one-byte sensor takes the second byte of a two-byte address for data to  *)
(* write at the first, and reads on behind it.                                *)
Pointer(s, access, reg, regWidth) ==
    IF access = "spi" THEN SpiRegister(reg)
    ELSE IF s.width = 2 THEN reg
    ELSE IF regWidth = 1 THEN reg % 256
    ELSE (reg \div 256 + 1) % 256

(* The universal layer takes the first of two data bytes for the low one.     *)
Read(s, access, reg, regWidth, dataWidth) ==
    LET p == Pointer(s, access, reg, regWidth)
        b == Byte(s, p)
        c == Byte(s, p + 1)
    IN CASE s.width = 0 -> NoAnswer
         [] reg \in DOMAIN s.lost -> s.lost[reg]
         [] s.width = 2 /\ regWidth = 1 /\ access # "spi" -> s.other
         [] dataWidth = 1 -> b
         [] dataWidth = 2 /\ access = "universal" -> b + 256 * c
         [] OTHER -> 256 * b + c

(* The first rule <<condition, name>> whose condition holds names the sensor. *)
FirstName(rules) ==
    LET First(hits, seq) == IF hits = {} THEN None ELSE seq[Min(hits)][2]
    IN CHOOSE name \in {First({i \in DOMAIN seq : seq[i][1]}, seq) : seq \in {rules}} : TRUE

(* Two readings as one number, the way the detectors shift them together.     *)
Pair(hi, lo) == IF hi = NoAnswer \/ lo = NoAnswer THEN NoAnswer ELSE hi * 256 + lo

SonyFormer(s, access) ==
    LET R(a) == Read(s, access, a + \H3000, 2, 1)
        imx29x == R(\H1E) = \HB2 /\ R(\H1F) = 1
    IN <<
        <<R(\H57) = 6 /\ ~(R(\H72) = \H28 /\ R(\H74) = \HB0), 347>>,
        <<R(\H41C) = \H47 /\ R(\H2E) = \H18 /\ R(\H2F) = \HF, 334>>,
        <<R(\H16A) = NoAnswer, None>>,
        <<R(\H16A) > 0 /\ R(\H16A) \div 4 = 31, 335>>,
        <<R(\H13) = \H40 /\ R(\H4F) = 7, 323>>,
        <<R(\H13) = \H40, 322>>,
        <<R(\HB00) \in {\H2E, \H28}, 415>>,
        <<R(\H3B4) \in {\H96, \HFE}, 178>>,
        <<R(\H120) = \H80 /\ R(\H129) = \HD, 274>>,
        <<R(\H15) = \H3C, 185>>,
        <<R(\H5B8) = \HFA, 294>>,
        <<R(\H1C) = \H8B, 226>>,
        <<R(\HCE) = \H16, 122>>,
        <<R(\H45) = \H32, 226>>,
        <<R(\H1DC) # \HFF /\ (R(\H1DC) \div 2) % 4 = 2, 307>>,
        <<R(\H1DC) # \HFF /\ (R(\H1DC) \div 2) % 4 = 3, 327>>,
        <<R(\H1DC) # \HFF /\ imx29x /\ R(\H9C) \in {\H20, \H22}, 291>>,
        <<R(\H1DC) # \HFF /\ imx29x /\ R(\H9C) = 0, 290>>,
        <<R(\H1DC) # \HFF /\ imx29x, None>> >>

SonyLatter(s, access) ==
    LET R(a) == Read(s, access, a + \H3000, 2, 1)
        imx224 == R(\H4) = \H10 /\ R(\HC) = 0 /\ R(\HE) = 1
    IN <<
        <<R(-\H3000) = 2 /\ R(1 - \H3000) = \H19, 219>>,
        <<imx224 /\ R(\HD) = \H20 /\ R(\H10) = \H39 /\ R(\H6) = 0 /\ R(\HF) = 1 /\ R(\H12) = \H50, 138>>,
        <<imx224 /\ R(\HD) = 0 /\ R(\H10) = 1 /\ R(\H11) = 0 /\ R(\H1E) = 1 /\ R(\H1F) = 0 /\ R(\H338) # 0, 385>>,
        <<imx224 /\ R(\HD) = 0 /\ R(\H10) = 1 /\ R(\H11) = 0 /\ R(\H1E) = 1 /\ R(\H1F) = 0, 225>>,
        <<R(\H4) = \H10 /\ R(\H9E) = \H71, 123>>,
        <<(R(\HA4) \div 16) % 16 = 10 /\ R(\HC44) = 6, 664>>,
        <<(R(\HA4) \div 16) % 16 = 10 /\ R(\HC40) = 5, 662>>,
        <<(R(\HA4) \div 16) % 16 = 10 /\ R(\HC7C) = \H16, 675>>,
        <<(R(\HA4) \div 16) % 16 = 2 /\ R(\H152) = \H1E, 482>> >>

Sony(s, access) == FirstName(SonyFormer(s, access) \o SonyLatter(s, access))

(* The version is printed as it is read, failed readings too.                 *)
Soi(s, access) ==
    LET pid == Read(s, access, \HA, 1, 1)
        ver == Read(s, access, \HB, 1, 1)
    IN IF pid \in {\HF, \HA0, \HA, 5} \/ (pid = 8 /\ ver \in \H41..\H44) THEN pid * 256 + ver ELSE None

Onsemi(s, access) ==
    LET pid == Read(s, access, \H3000, 2, 2)
    IN FirstName(<< <<pid = \H2402, \H0130>>, <<pid = \H256, \H0237>>, <<pid = \H2602, \H0331>>, <<pid = \H2604, \H0330>> >>)

SmartSensFormer ==
    {\H0010, \H0031, \H0108, \H0132, \H1045, \H1145, \H1235, \H1245, \H2032, \H2045, \H2135, \H2145, \H2232, \H2235,
     \H2238, \H2245, \H17cb, \H2300, \H2310, \H2311, \H2330, \H3035, \H3235, \H4210, \H4235, \H5235, \H5300}
SmartSensLatter ==
    {\Hbd2f, \Hca13, \Hca18, \Hcb07, \Hcb08, \Hcb10, \Hcb14, \Hcb34, \Hcb5c, \Hcb6a, \Hcb17, \Hcb1c, \Hcc05, \Hcc1a,
     \Hcc40, \Hcc41, \H9c41, \Hcd01, \Hcb3a, \Hcb3e, \Hcd2e, \Hcd6b, \Hce39, \Hce1a, \Hce1f, \Hce50, \H8e39, \Hda23,
     \Hdc42, \Hda4d, \H9a4d, \H9c42, \Hc143, \Hc170, \Hbd1e, \H8235, \H9b3a, \Heb2c}
SmartSensIds == SmartSensFormer \union SmartSensLatter

(* Two ids leave the function before the name is written.                     *)
Unnamed == {\Hda23, \Hdc42}

(* Mutant of SmartSens: the high byte alone decides.                          *)
SmartSensHigh(s, access) ==
    LET id == Pair(Read(s, access, \H3107, 2, 1), 0)
    IN IF \E i \in SmartSensIds : i \div 256 = id \div 256 THEN id ELSE None

SmartSens(s, access) ==
    LET id == Pair(Read(s, access, \H3107, 2, 1), Read(s, access, \H3108, 2, 1))
    IN IF id \in Unnamed THEN 0 ELSE IF id \in SmartSensIds THEN id ELSE None

(* First by the product id alone, for old sensors without a manufacturer id,  *)
(* then through registers of one byte.                                        *)
OmniVision(s, access) ==
    LET wide == Pair(Read(s, access, \H300A, 2, 1), Read(s, access, \H300B, 2, 1))
        maker == Pair(Read(s, access, \H301C, 1, 1), Read(s, access, \H301D, 1, 1))
        product == Pair(Read(s, access, \H300A, 1, 1), Read(s, access, \H300B, 1, 1))
    IN FirstName(<<
        <<wide \in {\H2710, \H2715, \H2718, \H5647, \H9732, \H4688, \H5303, \H5304, \H5305, \H5308}, wide>>,
        <<maker # \H7FA2, None>>,
        <<product \in {\H2770, \H4688, \H9711, \H2710, \H2715, \H9732, \H9750, \H5305}, product>> >>)

GalaxyCore(s, access) ==
    LET wide == Pair(Read(s, access, \H3f0, 2, 1), Read(s, access, \H3f1, 2, 1))
        narrow == Pair(Read(s, access, \Hf0, 1, 1), Read(s, access, \Hf1, 1, 1))
        first == IF wide = NoAnswer THEN narrow ELSE wide
    IN FirstName(<<
        <<first \in {\H2053, \H2083, \H2093, \H4023, \H4653}, first>>,
        <<first # NoAnswer /\ narrow \in {\H1004, \H1024, \H1034, \H1054, \H2023, \H2033, \H2053, \H2063, \H2083,
            \H3003, \H4023, \H4653, \H46c3, \H5035, \H5603}, narrow>> >>)

(* The page is turned to 0 before anything is read, and stays there, unless   *)
(* it cannot be read or written; the universal layer sends a byte nobody has  *)
(* set.                                                                       *)
PageWrite == -1

SuperPixPage0(s, access) ==
    IF Read(s, access, \HFD, 1, 1) <= 0 \/ s.width # 1 \/ PageWrite \in DOMAIN s.lost THEN s
    ELSE [s EXCEPT !.page = IF access = "universal" THEN s.junk ELSE 0]

SuperPix(s, access) ==
    LET z == SuperPixPage0(s, access)
        id == Pair(Read(z, access, 2, 1, 1), Read(z, access, 3, 1, 1))
        late == Pair(Read(z, access, \Hfa, 1, 1), Read(z, access, \Hfb, 1, 1))
    IN FirstName(<<
        <<id \in {NoAnswer, 0}, None>>,
        <<id \in {\H140a, \H2735, \H4308, \H5302, \H5303, \H5602}, id>>,
        <<id = \H5304 /\ Read(z, access, 4, 1, 1) = \H44, id>>,
        <<late = \H2073, \H2305>> >>)

TechPoint(s, access) ==
    LET id == Pair(Read(s, access, \Hfe, 1, 1), Read(s, access, \Hff, 1, 1))
    IN IF id \in {NoAnswer, 0} THEN None ELSE id

ImageDesign(s, access) ==
    LET id == Pair(Read(s, access, \H3000, 2, 1), Read(s, access, \H3001, 2, 1))
    IN IF id \in {\H2006, \H2008, \H5001, \H1311} THEN id ELSE None

ViSemi(s, access) ==
    LET id == Read(s, access, \H3000, 2, 2) IN IF id = \H4388 THEN id ELSE None

CvSens(s, access) ==
    LET id == Pair(Read(s, access, \H3003, 2, 1), Read(s, access, \H3002, 2, 1))
    IN IF id \in {\H2004, \H2005} THEN id ELSE None

(* The order in which get_sensor_id_i2c asks for the vendors.                 *)
Vendors == <<"SOI", "ONSEMI", "OMNIVISION", "SONY", "SMARTSENS", "GALAXYCORE", "SUPERPIX", "TECHPOINT",
             "IMAGEDESIGN", "VISEMI", "CVSENS">>

Identify(vendor, s, access) ==
    CASE vendor = "SOI" -> Soi(s, access)
      [] vendor = "ONSEMI" -> Onsemi(s, access)
      [] vendor = "OMNIVISION" -> OmniVision(s, access)
      [] vendor = "SONY" -> Sony(s, access)
      [] vendor = "SMARTSENS" -> SmartSens(s, access)
      [] vendor = "GALAXYCORE" -> GalaxyCore(s, access)
      [] vendor = "SUPERPIX" -> SuperPix(s, access)
      [] vendor = "TECHPOINT" -> TechPoint(s, access)
      [] vendor = "IMAGEDESIGN" -> ImageDesign(s, access)
      [] vendor = "VISEMI" -> ViSemi(s, access)
      [] vendor = "CVSENS" -> CvSens(s, access)

(* The registers a vendor's detector may ask for, those with two-byte         *)
(* addresses in order: the ones a sensor with one-byte addresses takes for    *)
(* writes. (Such a sensor never sits at a Sony address.)                      *)
Asked2(vendor) ==
    CASE vendor \in {"ONSEMI", "VISEMI"} -> <<\H3000>>
      [] vendor = "OMNIVISION" -> <<\H300A, \H300B>>
      [] vendor = "SMARTSENS" -> <<\H3107, \H3108>>
      [] vendor = "GALAXYCORE" -> <<\H3f0, \H3f1>>
      [] vendor = "IMAGEDESIGN" -> <<\H3000, \H3001>>
      [] vendor = "CVSENS" -> <<\H3003, \H3002>>
      [] OTHER -> <<>>
SonyAsked ==
    {0, 1} \union {\H3000 + a : a \in
        {\H4, \H6, \HC, \HD, \HE, \HF, \H10, \H11, \H12, \H13, \H15, \H1C, \H1E, \H1F, \H2E, \H2F, \H45, \H4F,
         \H57, \H72, \H74, \H9C, \H9E, \HA4, \HCE, \H120, \H129, \H152, \H16A, \H1DC, \H338, \H3B4, \H41C,
         \H5B8, \HB00, \HC40, \HC44, \HC7C}}
AskedFor(vendor) ==
    Range(Asked2(vendor)) \union
    CASE vendor = "SONY" -> SonyAsked
      [] vendor = "SOI" -> {\HA, \HB}
      [] vendor = "OMNIVISION" -> {\H301C, \H301D}
      [] vendor = "GALAXYCORE" -> {\Hf0, \Hf1}
      [] vendor = "SUPERPIX" -> {PageWrite, 2, 3, 4, \Hfa, \Hfb, \HFD}
      [] vendor = "TECHPOINT" -> {\Hfe, \Hff}
      [] OTHER -> {}

WithWrites(s, writes) ==
    LET taken == {w \in writes : w[1] \notin s.fixed}
    IN [s EXCEPT !.regs = [a \in DOMAIN s.regs \union {w[1] : w \in taken} |->
           IF \E w \in taken : w[1] = a THEN (CHOOSE w \in taken : w[1] = a)[2] ELSE s.regs[a]]]

(* The sensor after a vendor's detector has read its registers: an address    *)
(* may have reached it although its reading failed, and when some failed      *)
(* others may not have been sent at all.                                      *)
Halves(a) == {<<a \div 256, a % 256>>}
Sent(vendor, s) ==
    LET pairs == Asked2(vendor)
    IN IF pairs = <<>> THEN {{}}
       ELSE IF s.lost = <<>> THEN {Halves(Last(pairs))}
       ELSE {{}} \union {Halves(a) : a \in Range(pairs)}
Probed(vendor, s, access) ==
    LET turned == IF vendor = "SUPERPIX" THEN SuperPixPage0(s, access) ELSE s
    IN IF s.width # 1 THEN {[s EXCEPT !.lost = <<>>]}
       ELSE {[WithWrites(turned, w) EXCEPT !.lost = <<>>] : w \in Sent(vendor, s)}

(* i2cset and spiset: the bytes each layer sends, as the sensor takes them.   *)
(* The universal one sends as many bytes as the data has, from the address.   *)
Written(s, access, reg, regWidth, value) ==
    CASE access = "spi" -> WithWrites(s, {<<SpiRegister(reg), value>>})
      [] access = "universal" \/ s.width > regWidth \/ s.width = 0 -> s
      [] s.width = regWidth -> WithWrites(s, {<<reg, value>>})
      [] OTHER -> WithWrites(s, {<<reg \div 256, reg % 256>>, <<reg \div 256 + 1, value>>})

(* An address above one byte is taken for one of two.                         *)
SelectWide(reg) == IF reg > \Hff THEN 2 ELSE 1
=============================================================================
