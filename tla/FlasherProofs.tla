---------------------------- MODULE FlasherProofs ----------------------------
(***************************************************************************)
(* Proofs about do_flash as Flasher specifies it, for every chip, every    *)
(* partition table and every plan that meets PlanOK and PlanDisjoint.      *)
(***************************************************************************)
EXTENDS Flasher, FiniteSetTheorems, WellFoundedInduction, TLAPS

-----------------------------------------------------------------------------
(* Sums.  SizeBefore is recursive: that there is a function as it says is   *)
(* proved by way of the least length for which there is none.              *)

\* A set of numbers that is not empty has a least one.
LEMMA LeastNat ==
  ASSUME NEW S \in SUBSET Nat, S # {}
  PROVE  \E x \in S : \A y \in S : x <= y
<1> DEFINE R == {ss \in Nat \X Nat : ss[1] < ss[2]}
<1>1. IsWellFoundedOn(R, Nat)
  BY NatLessThanWellFounded, Zenon DEF OpToRel
<1> HIDE DEF R
<1>2. PICK x \in S : \A y \in S : ~(<<y, x>> \in R)
  BY <1>1, WFMin, Zenon
<1>3. ASSUME NEW y \in S PROVE x <= y
  <2>1. <<y, x>> \notin R
    BY <1>2
  <2> QED
    BY <2>1 DEF R
<1> QED
  BY <1>3

SumsTo(entries, n, g) ==
  g = [k \in 0 .. n |-> IF k = 0 THEN 0 ELSE g[k - 1] + entries[k - 1].size]

LEMMA SumsNext ==
  ASSUME NEW entries, NEW n \in Nat, NEW g, SumsTo(entries, n, g)
  PROVE  \E h : SumsTo(entries, n + 1, h)
<1> DEFINE h == [k \in 0 .. n + 1 |-> IF k = n + 1 THEN g[n] + entries[n].size ELSE g[k]]
<1>1. \A k \in 0 .. n : g[k] = IF k = 0 THEN 0 ELSE g[k - 1] + entries[k - 1].size
  BY DEF SumsTo
<1>2. ASSUME NEW k \in 0 .. n + 1
      PROVE  h[k] = IF k = 0 THEN 0 ELSE h[k - 1] + entries[k - 1].size
  <2>1. CASE k = n + 1
    <3>1. k # 0 /\ k - 1 = n /\ n \in 0 .. n + 1 /\ n # n + 1
      BY <2>1
    <3> QED
      BY <2>1, <3>1
  <2>2. CASE k # n + 1
    <3>1. k \in 0 .. n /\ h[k] = g[k]
      BY <2>2
    <3>2. k # 0 => k - 1 \in 0 .. n + 1 /\ k - 1 # n + 1
      BY <3>1
    <3> QED
      BY <1>1, <3>1, <3>2
  <2> QED
    BY <2>1, <2>2
<1>3. h = [k \in 0 .. n + 1 |-> h[k]]
  OBVIOUS
<1> HIDE DEF h
<1>4. SumsTo(entries, n + 1, h)
  BY <1>2, <1>3 DEF SumsTo
<1> QED
  BY <1>4

LEMMA SumsExist ==
  ASSUME NEW entries, NEW n \in Nat
  PROVE  \E g : SumsTo(entries, n, g)
<1> DEFINE Bad == {m \in Nat : ~\E g : SumsTo(entries, m, g)}
<1> SUFFICES ASSUME Bad # {} PROVE FALSE
  OBVIOUS
<1> HIDE DEF Bad
<1>1. Bad \in SUBSET Nat
  BY DEF Bad
<1>2. PICK m \in Bad : \A y \in Bad : m <= y
  BY <1>1, LeastNat
<1>3. m \in Nat /\ ~\E g : SumsTo(entries, m, g)
  BY <1>2 DEF Bad
<1>4. m # 0
  <2>1. SumsTo(entries, 0, [k \in 0 .. 0 |-> 0])
    BY DEF SumsTo
  <2> QED
    BY <1>3, <2>1
<1>5. m - 1 \in Nat /\ m - 1 \notin Bad
  BY <1>2, <1>3, <1>4
<1>6. PICK g : SumsTo(entries, m - 1, g)
  BY <1>5 DEF Bad
<1> DEFINE n1 == m - 1
<1>7. n1 \in Nat /\ SumsTo(entries, n1, g) /\ n1 + 1 = m
  BY <1>3, <1>5, <1>6
<1> HIDE DEF n1
<1>8. \E h : SumsTo(entries, n1 + 1, h)
  BY <1>7, SumsNext
<1> QED
  BY <1>3, <1>7, <1>8

LEMMA SizeBeforeSums == ASSUME NEW entries PROVE SumsTo(entries, MaxBlocks, SizeBefore(entries))
<1>1. \E g : SumsTo(entries, MaxBlocks, g)
  BY SizesAssumption, SumsExist
<1> QED
  BY <1>1, Zenon DEF SizeBefore, SumsTo

\* What lies before the first entry, and before the next one.
LEMMA SizeBeforeStep ==
  ASSUME NEW entries
  PROVE  /\ SizeBefore(entries)[0] = 0
         /\ \A n \in Slots : SizeBefore(entries)[n + 1] = SizeBefore(entries)[n] + entries[n].size
<1> DEFINE g == SizeBefore(entries)
<1>1. SumsTo(entries, MaxBlocks, g)
  BY SizeBeforeSums
<1> HIDE DEF g
<1>2. \A k \in 0 .. MaxBlocks : g[k] = IF k = 0 THEN 0 ELSE g[k - 1] + entries[k - 1].size
  BY <1>1 DEF SumsTo
<1>3. g[0] = 0
  BY <1>2, SizesAssumption
<1>4. ASSUME NEW n \in Slots PROVE g[n + 1] = g[n] + entries[n].size
  <2>1. n + 1 \in 0 .. MaxBlocks /\ n + 1 # 0 /\ (n + 1) - 1 = n
    BY SizesAssumption DEF Slots
  <2> QED
    BY <1>2, <2>1
<1> QED
  BY <1>3, <1>4 DEF g

LEMMA SizeBeforeType ==
  ASSUME NEW entries, \A n \in Slots : entries[n].size \in Nat
  PROVE  \A n \in 0 .. MaxBlocks : SizeBefore(entries)[n] \in Nat
<1> DEFINE g == SizeBefore(entries)
           Bad == {n \in 0 .. MaxBlocks : g[n] \notin Nat}
<1> HIDE DEF g
<1> SUFFICES ASSUME Bad # {} PROVE FALSE
  BY DEF g
<1> HIDE DEF Bad
<1>1. Bad \in SUBSET Nat
  BY DEF Bad
<1>2. PICK n \in Bad : \A y \in Bad : n <= y
  BY <1>1, LeastNat
<1>3. n \in 0 .. MaxBlocks /\ g[n] \notin Nat
  BY <1>2 DEF Bad
<1>4. g[0] = 0 /\ \A k \in Slots : g[k + 1] = g[k] + entries[k].size
  BY SizeBeforeStep DEF g
<1>5. n # 0
  BY <1>3, <1>4
<1> DEFINE k == n - 1
<1>6. k \in Slots /\ k \in 0 .. MaxBlocks /\ k + 1 = n /\ k < n
  BY <1>3, <1>5, SizesAssumption DEF Slots
<1> HIDE DEF k
<1>7. g[k] \in Nat
  <2>1. k \notin Bad
    BY <1>2, <1>3, <1>6
  <2> QED
    BY <1>6, <2>1 DEF Bad
<1> QED
  BY <1>3, <1>4, <1>6, <1>7

-----------------------------------------------------------------------------
(* Arithmetic of erase blocks. *)

\* Whole blocks of a size: block k ends before block l starts when k < l.
LEMMA BlockSteps ==
  ASSUME NEW E \in Nat, NEW k \in Int, NEW l \in Int, k < l
  PROVE  k * E + E <= l * E
<1> DEFINE d == l - k - 1
<1>1. d \in Nat
  OBVIOUS
<1>2. d * E \in Nat
  BY <1>1
<1>3. d * E = l * E - k * E - E
  OBVIOUS
<1> QED
  BY <1>2, <1>3

\* The whole blocks of an entry are part of it.
LEMMA WholeBlocks ==
  ASSUME NEW j, NEW e \in Slots, j.mtdbackup[e].size \in Nat
  PROVE  Cnt(j, e) \in Nat /\ Cnt(j, e) * EraseSize <= j.mtdbackup[e].size
<1> DEFINE s == j.mtdbackup[e].size
<1>1. s \in Nat /\ EraseSize \in Nat \ {0}
  BY SizesAssumption
<1> HIDE DEF s
<1>2. s \div EraseSize \in Nat /\ (s \div EraseSize) * EraseSize <= s
  BY <1>1
<1> QED
  BY <1>2 DEF Cnt, s

LEMMA DeviceTypes ==
  ASSUME NEW m \in MtdNums
  PROVE  /\ m \in Slots /\ m # NoMtd
         /\ Device[m].base \in Nat /\ Device[m].size \in Nat
         /\ Device[m].base + Device[m].size <= FlashSize
  BY DeviceAssumption, SizesAssumption DEF DeviceRecord, Slots, NoMtd

\* Two partitions of the kernel share no unit.
LEMMA DevicesApart ==
  ASSUME NEW m \in MtdNums, NEW n \in MtdNums, m # n
  PROVE  Partition(m) \cap Partition(n) = {}
<1>1. \/ Device[m].base + Device[m].size <= Device[n].base
      \/ Device[n].base + Device[n].size <= Device[m].base
  BY DeviceAssumption
<1> QED
  BY <1>1, DeviceTypes DEF Partition

\* A block that MEMERASE accepts lies inside its partition.
LEMMA ErasableBlock ==
  ASSUME NEW t, Erasable(t)
  PROVE  /\ t.dev \in MtdNums /\ t.off \in Nat
         /\ Block(t.dev, t.off) \subseteq Partition(t.dev)
         /\ Block(t.dev, t.off) \subseteq Units
<1>1. PICK n \in 0 .. FlashSize : t.off = n * EraseSize
  BY DEF Erasable
<1>2. n \in Nat /\ EraseSize \in Nat
  BY SizesAssumption
<1>3. t.off \in Nat
  BY <1>1, <1>2
<1>4. t.dev \in MtdNums /\ t.off + EraseSize <= Device[t.dev].size
  BY DEF Erasable
<1> QED
  BY <1>2, <1>3, <1>4, DeviceTypes, SizesAssumption DEF Block, Partition, Units

-----------------------------------------------------------------------------
(* The blocks of a plan. *)

\* Each whole block of a raw entry has its data.
LEMMA BlockData ==
  ASSUME NEW j, PlanOK(j), NEW e \in Slots, IsRaw(j, e),
         NEW k \in Nat, k < Cnt(j, e), NEW x \in 0 .. EraseSize - 1
  PROVE  j.mtdbackup[e].data[k * EraseSize + x] \in Data
<1> DEFINE s == j.mtdbackup[e].size
<1>1. /\ s \in Nat /\ Cnt(j, e) * EraseSize <= s
      /\ \A y \in 0 .. s - 1 : j.mtdbackup[e].data[y] \in Data
  BY WholeBlocks DEF PlanOK, EntryOK, IsRaw
<1>2. EraseSize \in Nat /\ Cnt(j, e) \in Int
  BY <1>1, SizesAssumption DEF Cnt
<1>3. k * EraseSize + EraseSize <= Cnt(j, e) * EraseSize
  BY <1>2, BlockSteps
<1>4. k * EraseSize \in Nat /\ Cnt(j, e) * EraseSize \in Int
  BY <1>2
<1>5. k * EraseSize + x \in 0 .. s - 1
  BY <1>1, <1>2, <1>3, <1>4
<1> QED
  BY <1>1, <1>5

\* map_old_new_mtd answers with the distance from the start of the partition.
LEMMA MappedOffset ==
  ASSUME NEW part, NEW off, MapOldNew(part, off).dev # NoMtd
  PROVE  MapOldNew(part, off).off = off - CurOff(part, MapOldNew(part, off).dev)
  BY DEF MapOldNew

LEMMA CurOffType ==
  ASSUME NEW j, PlanOK(j), NEW m \in Slots
  PROVE  CurOff(j.part, m) \in Nat
<1>1. \A n \in Slots : j.part[n].size \in Nat
  BY DEF PlanOK
<1>2. m \in 0 .. MaxBlocks
  BY SizesAssumption DEF Slots
<1> QED
  BY <1>1, <1>2, SizeBeforeType DEF CurOff

LEMMA CntType ==
  ASSUME NEW j, PlanOK(j), NEW e \in Slots
  PROVE  Cnt(j, e) \in Nat
<1>1. j.mtdbackup[e].size \in Nat
  BY DEF PlanOK, EntryOK
<1> QED
  BY <1>1, WholeBlocks

LEMMA FindOffType ==
  ASSUME NEW j, PlanOK(j), NEW e \in Slots, NEW k \in Nat
  PROVE  FindOff(j, e, k) \in Nat
<1>1. j.mtdbackup[e].off \in Nat
  BY DEF PlanOK, EntryOK
<1>2. k * EraseSize \in Nat
  BY SizesAssumption
<1> QED
  BY <1>1, <1>2 DEF FindOff

\* Blocks that lie apart in the backup are mapped apart on the chip.
LEMMA BlocksApart ==
  ASSUME NEW j, PlanOK(j), PlanDisjoint(j),
         NEW e \in Slots, NEW k \in 0 .. Cnt(j, e) - 1, IsRaw(j, e),
         NEW f \in Slots, NEW l \in 0 .. Cnt(j, f) - 1, IsRaw(j, f),
         <<e, k>> # <<f, l>>,
         Erasable(Target(j, e, k)), Erasable(Target(j, f, l))
  PROVE  Block(Target(j, e, k).dev, Target(j, e, k).off)
           \cap Block(Target(j, f, l).dev, Target(j, f, l).off) = {}
<1> DEFINE t == Target(j, e, k)
           u == Target(j, f, l)
<1>1. CASE t.dev # u.dev
  BY <1>1, DevicesApart, ErasableBlock
<1>2. CASE t.dev = u.dev
  <2> DEFINE m == t.dev
  <2>1. m \in MtdNums /\ t.off \in Nat /\ u.off \in Nat
    BY ErasableBlock
  <2>2. m \in Slots /\ m # NoMtd /\ Device[m].base \in Nat
    BY <2>1, DeviceTypes
  <2>3. /\ t.off = FindOff(j, e, k) - CurOff(j.part, m)
        /\ u.off = FindOff(j, f, l) - CurOff(j.part, m)
    BY <1>2, <2>2, MappedOffset DEF Target
  <2>4. CurOff(j.part, m) \in Nat
    BY <2>2, CurOffType
  <2>5. k \in Nat /\ l \in Nat
    BY CntType
  <2>6. FindOff(j, e, k) \in Nat /\ FindOff(j, f, l) \in Nat
    BY <2>5, FindOffType
  <2>7. \/ FindOff(j, e, k) + EraseSize <= FindOff(j, f, l)
        \/ FindOff(j, f, l) + EraseSize <= FindOff(j, e, k)
    BY DEF PlanDisjoint
  <2>8. EraseSize \in Nat
    BY SizesAssumption
  <2>9. t.off + EraseSize <= u.off \/ u.off + EraseSize <= t.off
    BY <2>3, <2>4, <2>6, <2>7, <2>8
  <2>10. ASSUME NEW a \in Nat, NEW b \in Nat, a + EraseSize <= b \/ b + EraseSize <= a
         PROVE  Block(m, a) \cap Block(m, b) = {}
    BY <2>2, <2>8, <2>10 DEF Block
  <2> QED
    BY <1>2, <2>1, <2>9, <2>10
<1> QED
  BY <1>1, <1>2

-----------------------------------------------------------------------------
(* Where do_flash is: what its labels say of i, c and the block it is at.   *)

UbiLabels == {"ubi_erase", "ubi_attach", "ubi_mkvol", "ubi_volup", "ubi_write"}

RawHere == i \in Slots /\ IsRaw(job, i) /\ c < Cnt(job, i)
UbiHere == i \in Slots /\ IsUbi(job, i) /\ UbiDev \in MtdNums

\* The types of what do_flash changes, and a plan its callers may hand it.
FlashTypes ==
  /\ flash \in [Units -> Content]
  /\ vols \in [MtdNums \X VolIds -> VolState]
  /\ i \in 0 .. MaxBlocks
  /\ c \in Nat

FlashOK == FlashTypes /\ PlanOK(job) /\ PlanDisjoint(job)

Ctl ==
  /\ pc \in {"erase", "write", "verify"} =>
       RawHere /\ Here.dev # NoMtd /\ ~Skipped(job, Here)
  /\ pc \in {"write", "verify"} => Erasable(Here)
  /\ pc \in UbiLabels => UbiHere
  /\ pc = "true" => i = MaxBlocks

\* The volumes of a UBI partition are entries of the array.
LEMMA GroupBound ==
  ASSUME NEW j, NEW e \in 0 .. MaxBlocks
  PROVE  NVols(j, e) \in Nat /\ e + NVols(j, e) <= MaxBlocks
<1> DEFINE R == e .. MaxBlocks - 1
           S == {g \in R : \A f \in e .. g :
                   j.mtdbackup[f].is_ubi /\ j.mtdbackup[f].name = j.mtdbackup[e].name}
<1>1. MaxBlocks \in Nat /\ e \in Nat /\ e <= MaxBlocks
  BY SizesAssumption
<1>2. IsFiniteSet(R) /\ Cardinality(R) = MaxBlocks - e
  <2> DEFINE b == MaxBlocks - 1
  <2>1. e \in Int /\ b \in Int
    BY <1>1
  <2> HIDE DEF b
  <2>2. IsFiniteSet(e .. b) /\ Cardinality(e .. b) = IF e > b THEN 0 ELSE b - e + 1
    BY <2>1, FS_Interval
  <2> USE DEF b
  <2> QED
    BY <1>1, <2>2
<1>3. IsFiniteSet(S) /\ Cardinality(S) <= MaxBlocks - e
  <2>1. S \in SUBSET R
    OBVIOUS
  <2> QED
    BY <2>1, <1>2, FS_Subset
<1>4. Cardinality(S) \in Nat
  BY <1>3, FS_CardinalityType
<1>5. NVols(j, e) = Cardinality(S)
  BY DEF NVols
<1> QED
  BY <1>1, <1>3, <1>4, <1>5

LEMMA CtlStep ==
  ASSUME FlashOK, Ctl, [FlashNext]_flashVars
  PROVE  Ctl'
<1> USE DEF Ctl, FlashOK, FlashTypes, Labels, UbiLabels, RawHere, UbiHere, Goto, Fail, Here, UbiDev
<1>1. CASE Analyse
  BY <1>1 DEF Analyse
<1>2. CASE NextEntry
  BY <1>2 DEF NextEntry
<1>3. CASE NextChunk
  BY <1>3 DEF NextChunk
<1>4. CASE Finish
  BY <1>4 DEF Finish
<1>5. CASE EraseBlock
  BY <1>5 DEF EraseBlock
<1>6. CASE EraseFails
  BY <1>6 DEF EraseFails
<1>7. CASE WriteBlock
  BY <1>7 DEF WriteBlock
<1>8. CASE WriteFails
  BY <1>8 DEF WriteFails
<1>9. CASE VerifyBlock
  BY <1>9 DEF VerifyBlock
<1>10. CASE VerifyFails
  BY <1>10 DEF VerifyFails
<1>11. CASE UbiOpen
  BY <1>11 DEF UbiOpen
<1>12. CASE UbiErase
  BY <1>12 DEF UbiErase
<1>13. CASE UbiErased
  BY <1>13 DEF UbiErased
<1>14. CASE UbiAttach
  BY <1>14 DEF UbiAttach
<1>15. CASE UbiMkVol
  BY <1>15 DEF UbiMkVol
<1>16. CASE UbiVolUp
  BY <1>16 DEF UbiVolUp
<1>17. CASE UbiWrite
  BY <1>17 DEF UbiWrite
<1>18. CASE UbiDone
  BY <1>18 DEF UbiDone
<1>19. CASE Interrupt
  BY <1>19 DEF Interrupt
<1>20. CASE UNCHANGED flashVars
  BY <1>20 DEF flashVars
<1> QED
  BY <1>1, <1>2, <1>3, <1>4, <1>5, <1>6, <1>7, <1>8, <1>9, <1>10, <1>11, <1>12,
     <1>13, <1>14, <1>15, <1>16, <1>17, <1>18, <1>19, <1>20 DEF FlashNext, FlashStep

-----------------------------------------------------------------------------
(* Type correctness. *)

LEMMA FillType ==
  ASSUME flash \in [Units -> Content], NEW units, NEW x \in Content
  PROVE  Fill(units, x) \in [Units -> Content]
  BY DEF Fill

\* The block do_flash is at receives data only.
LEMMA PutData ==
  ASSUME FlashOK, RawHere,
         NEW start \in Nat, NEW u \in Units, u \in start .. start + EraseSize - 1
  PROVE  Put(start, job.mtdbackup[i].data)[u] \in Data
<1> DEFINE x == u - start
<1>1. x \in 0 .. EraseSize - 1
  BY SizesAssumption DEF Units
<1>2. PlanOK(job) /\ i \in Slots /\ IsRaw(job, i) /\ c \in Nat /\ c < Cnt(job, i)
  BY DEF FlashOK, FlashTypes, RawHere
<1>3. job.mtdbackup[i].data[c * EraseSize + x] \in Data
  BY <1>1, <1>2, BlockData
<1> QED
  BY <1>3 DEF Put

LEMMA PutOther ==
  ASSUME NEW start, NEW d, NEW u \in Units, u \notin start .. start + EraseSize - 1
  PROVE  Put(start, d)[u] = flash[u]
  BY DEF Put

LEMMA PutType ==
  ASSUME FlashOK, RawHere, NEW start \in Nat
  PROVE  Put(start, job.mtdbackup[i].data) \in [Units -> Content]
<1> DEFINE p == Put(start, job.mtdbackup[i].data)
<1>1. \A u \in Units : p[u] \in Content
  BY PutData, PutOther DEF FlashOK, FlashTypes, Content
<1>2. p = [u \in Units |-> p[u]]
  BY DEF Put
<1>3. p \in [Units -> Content]
  <2> HIDE DEF p
  <2> QED
    BY <1>1, <1>2
<1> QED
  BY <1>3

LEMMA JobKept == ASSUME [FlashNext]_flashVars PROVE job' = job
  BY DEF FlashNext, FlashStep, flashVars, Goto, Fail, Analyse, NextEntry, NextChunk, Finish,
         EraseBlock, EraseFails, WriteBlock, WriteFails, VerifyBlock, VerifyFails,
         UbiOpen, UbiErase, UbiErased, UbiAttach, UbiMkVol, UbiVolUp, UbiWrite, UbiDone,
         Interrupt

LEMMA FlashOKStep ==
  ASSUME FlashOK, Ctl, [FlashNext]_flashVars
  PROVE  FlashOK'
<1> SUFFICES FlashTypes'
  BY JobKept DEF FlashOK
<1> USE DEF FlashOK, FlashTypes, Labels, Goto, Fail
<1>0. Erased \in Content /\ Torn \in Content /\ UbiHeader \in Content
  BY DEF Content
<1>1. CASE Analyse
  BY <1>1 DEF Analyse
<1>2. CASE NextEntry
  BY <1>2, SizesAssumption DEF NextEntry, Slots
<1>3. CASE NextChunk
  BY <1>3 DEF NextChunk
<1>4. CASE Finish
  BY <1>4 DEF Finish
<1>5. CASE EraseBlock
  BY <1>0, <1>5, FillType DEF EraseBlock
<1>6. CASE EraseFails
  BY <1>0, <1>6, FillType DEF EraseFails
<1>7. CASE WriteBlock
  <2>1. RawHere /\ Erasable(Here)
    BY <1>7 DEF WriteBlock, Ctl
  <2>2. HereStart \in Nat
    BY <2>1, ErasableBlock, DeviceTypes DEF HereStart
  <2>3. flash' \in [Units -> Content]
    BY <1>0, <1>7, <2>1, <2>2, FillType, PutType DEF WriteBlock
  <2> QED
    BY <1>7, <2>3 DEF WriteBlock
<1>8. CASE WriteFails
  BY <1>0, <1>8, FillType DEF WriteFails
<1>9. CASE VerifyBlock
  BY <1>9 DEF VerifyBlock
<1>10. CASE VerifyFails
  BY <1>10 DEF VerifyFails
<1>11. CASE UbiOpen
  BY <1>11 DEF UbiOpen
<1>12. CASE UbiErase
  <2>1. flash' \in [Units -> Content]
    BY <1>0, <1>12, FillType DEF UbiErase
  <2>2. vols' \in [MtdNums \X VolIds -> VolState]
    BY <1>12 DEF UbiErase, VolState
  <2> QED
    BY <1>12, <2>1, <2>2 DEF UbiErase
<1>13. CASE UbiErased
  BY <1>13 DEF UbiErased
<1>14. CASE UbiAttach
  BY <1>0, <1>14, FillType DEF UbiAttach
<1>15. CASE UbiMkVol
  <2>1. vols' \in [MtdNums \X VolIds -> VolState]
    BY <1>15 DEF UbiMkVol, VolState
  <2> QED
    BY <1>15, <2>1 DEF UbiMkVol
<1>16. CASE UbiVolUp
  <2>1. vols' \in [MtdNums \X VolIds -> VolState]
    BY <1>16 DEF UbiVolUp, VolState
  <2> QED
    BY <1>16, <2>1 DEF UbiVolUp
<1>17. CASE UbiWrite
  <2>1. i + c \in Int
    OBVIOUS
  <2>2. vols' \in [MtdNums \X VolIds -> VolState]
    BY <1>17, <2>1 DEF UbiWrite, VolState
  <2> QED
    BY <1>17, <2>2 DEF UbiWrite
<1>18. CASE UbiDone
  <2>1. NVols(job, i) \in Nat /\ i + NVols(job, i) <= MaxBlocks
    BY GroupBound
  <2> QED
    BY <1>18, <2>1, SizesAssumption DEF UbiDone
<1>19. CASE Interrupt
  <2>1. flash' \in [Units -> Content]
    BY <1>0, <1>19, FillType DEF Interrupt
  <2> QED
    BY <1>19, <2>1 DEF Interrupt
<1>20. CASE UNCHANGED flashVars
  BY <1>20 DEF flashVars
<1> QED
  BY <1>1, <1>2, <1>3, <1>4, <1>5, <1>6, <1>7, <1>8, <1>9, <1>10, <1>11, <1>12,
     <1>13, <1>14, <1>15, <1>16, <1>17, <1>18, <1>19, <1>20 DEF FlashNext, FlashStep

LEMMA FlashInitOK == FlashInit => FlashTypeOK /\ FlashOK /\ Ctl
  BY SizesAssumption, ChipsAssumption, PlansAssumption
  DEF FlashInit, FlashTypeOK, FlashOK, FlashTypes, Ctl, Content, VolState, Labels, UbiLabels

\* Every variable of do_flash keeps its type, and its labels mean what Ctl says.
THEOREM TypeCorrect == FlashSpec => [](FlashTypeOK /\ FlashOK /\ Ctl)
<1>1. FlashInit => FlashTypeOK /\ FlashOK /\ Ctl
  BY FlashInitOK
<1>2. FlashTypeOK /\ FlashOK /\ Ctl /\ [FlashNext]_flashVars => FlashTypeOK' /\ FlashOK' /\ Ctl'
  <2> SUFFICES ASSUME FlashTypeOK, FlashOK, Ctl, [FlashNext]_flashVars
               PROVE  FlashTypeOK' /\ FlashOK' /\ Ctl'
    OBVIOUS
  <2>1. FlashOK' /\ Ctl'
    BY FlashOKStep, CtlStep
  <2>2. job' = job
    BY JobKept
  <2>3. pc' \in Labels \cup {"true", "false", "dead"}
    BY DEF FlashTypeOK, FlashNext, FlashStep, flashVars, Goto, Fail, Analyse, NextEntry,
           NextChunk, Finish, EraseBlock, EraseFails, WriteBlock, WriteFails, VerifyBlock,
           VerifyFails, UbiOpen, UbiErase, UbiErased, UbiAttach, UbiMkVol, UbiVolUp,
           UbiWrite, UbiDone, Interrupt, Labels
  <2> QED
    BY <2>1, <2>2, <2>3 DEF FlashTypeOK, FlashOK, FlashTypes
<1> QED
  BY <1>1, <1>2, PTL DEF FlashSpec
-----------------------------------------------------------------------------
(* The simulated pass covers the real one. *)

LEMMA AnalysisStep ==
  ASSUME FlashOK, AnalysisCovers, [FlashNext]_flashVars
  PROVE  AnalysisCovers'
<1>1. job' = job
  BY JobKept
<1>2. CASE Analyse
  BY <1>1, <1>2 DEF Analyse, Goto, Fail, AnalysisCovers, Labels
<1>3. CASE ~Analyse
  <2>1. pc' \in (Labels \ {"analyse"}) \cup {"true"} =>
          pc \in (Labels \ {"analyse"}) \cup {"true"}
    BY <1>3
    DEF FlashNext, FlashStep, flashVars, Goto, Fail, NextEntry, NextChunk, Finish,
        EraseBlock, EraseFails, WriteBlock, WriteFails, VerifyBlock, VerifyFails,
        UbiOpen, UbiErase, UbiErased, UbiAttach, UbiMkVol, UbiVolUp, UbiWrite, UbiDone,
        Interrupt, Labels
  <2> QED
    BY <1>1, <2>1 DEF AnalysisCovers
<1> QED
  BY <1>2, <1>3

\* do_flash's simulated pass: once it has answered true, no entry of the plan
\* is without a device, so the real pass cannot stop half-way for want of one.
THEOREM AnalysisIsSound == FlashSpec => []AnalysisCovers
<1>1. FlashInit => AnalysisCovers
  BY DEF FlashInit, AnalysisCovers, Labels
<1>2. FlashOK /\ Ctl /\ AnalysisCovers /\ [FlashNext]_flashVars => AnalysisCovers'
  BY AnalysisStep
<1> QED
  BY <1>1, <1>2, TypeCorrect, PTL DEF FlashSpec
-----------------------------------------------------------------------------
(* Where a step may write. *)

WritesBlock == /\ pc \in {"erase", "write"} /\ RawHere /\ Erasable(Here)
               /\ ~Skipped(job, Here)
WritesUbi   == pc \in {"ubi_erase", "ubi_attach"} /\ UbiHere

LEMMA FillOther ==
  ASSUME NEW units, NEW x, NEW u \in Units, u \notin units
  PROVE  Fill(units, x)[u] = flash[u]
  BY DEF Fill

LEMMA FillThere ==
  ASSUME NEW units, NEW x, NEW u \in Units, u \in units
  PROVE  Fill(units, x)[u] = x
  BY DEF Fill

LEMMA HereBlock ==
  ASSUME Erasable(Here)
  PROVE  HereUnits = HereStart .. HereStart + EraseSize - 1
  BY ErasableBlock, DeviceTypes, SizesAssumption DEF HereUnits, HereStart, Block

LEMMA Writes ==
  ASSUME FlashOK, Ctl, [FlashNext]_flashVars, NEW u \in Units, flash'[u] # flash[u]
  PROVE  \/ WritesBlock /\ u \in HereUnits
         \/ WritesUbi /\ u \in Partition(UbiDev)
<1> USE DEF WritesBlock, WritesUbi
<1>1. CASE EraseBlock
  BY <1>1, FillOther DEF EraseBlock, Ctl
<1>2. CASE EraseFails
  BY <1>2, FillOther DEF EraseFails, Ctl
<1>3. CASE WriteBlock
  <2>1. Erasable(Here) /\ RawHere /\ ~Skipped(job, Here)
    BY <1>3 DEF WriteBlock, Ctl
  <2>2. u \in HereUnits
    <3>1. CASE flash' = Put(HereStart, job.mtdbackup[i].data)
      BY <2>1, <3>1, PutOther, HereBlock
    <3>2. CASE flash' = Fill(HereUnits, Torn)
      BY <3>2, FillOther
    <3> QED
      BY <1>3, <3>1, <3>2 DEF WriteBlock
  <2> QED
    BY <1>3, <2>1, <2>2 DEF WriteBlock
<1>4. CASE WriteFails
  BY <1>4, FillOther DEF WriteFails, Ctl
<1>5. CASE UbiErase
  <2>1. Erasable(UbiBlock) /\ u \in UbiUnits /\ pc = "ubi_erase" /\ UbiHere
    BY <1>5, FillOther DEF UbiErase, Ctl, UbiLabels
  <2> QED
    BY <2>1, ErasableBlock DEF UbiBlock, UbiUnits
<1>6. CASE UbiAttach
  BY <1>6, FillOther DEF UbiAttach, Ctl, UbiLabels
<1>7. CASE Interrupt
  <2>1. CASE pc \in {"erase", "write"}
    BY <1>7, <2>1, FillOther DEF Interrupt, Ctl
  <2>2. CASE pc \notin {"erase", "write"}
    <3>1. Erasable(UbiBlock) /\ u \in UbiUnits /\ pc = "ubi_erase" /\ UbiHere
      BY <1>7, <2>2, FillOther DEF Interrupt, Ctl, UbiLabels
    <3> QED
      BY <3>1, ErasableBlock DEF UbiBlock, UbiUnits
  <2> QED
    BY <2>1, <2>2
<1> QED
  BY <1>1, <1>2, <1>3, <1>4, <1>5, <1>6, <1>7
  DEF FlashNext, FlashStep, flashVars, Analyse, NextEntry, NextChunk, Finish, VerifyBlock,
      VerifyFails, UbiOpen, UbiErased, UbiMkVol, UbiVolUp, UbiWrite, UbiDone

\* What a step writes is data of the entry do_flash is at, or no data.
LEMMA WritesWhat ==
  ASSUME FlashOK, Ctl, [FlashNext]_flashVars, NEW u \in Units, flash'[u] # flash[u]
  PROVE  \/ flash'[u] \in {Erased, Torn, UbiHeader}
         \/ /\ i \in Slots /\ IsRaw(job, i)
            /\ \E x \in 0 .. job.mtdbackup[i].size - 1 : flash'[u] = job.mtdbackup[i].data[x]
<1>1. ASSUME NEW units, NEW x \in {Erased, Torn, UbiHeader}, flash' = Fill(units, x)
      PROVE  flash'[u] \in {Erased, Torn, UbiHeader}
  BY <1>1, FillOther, FillThere
<1>2. CASE WriteBlock /\ flash' = Put(HereStart, job.mtdbackup[i].data)
  <2>1. RawHere /\ Erasable(Here)
    BY <1>2 DEF WriteBlock, Ctl
  <2>2. HereStart \in Nat
    BY <2>1, ErasableBlock, DeviceTypes DEF HereStart
  <2>3. u \in HereStart .. HereStart + EraseSize - 1
    BY <1>2, PutOther
  <2> DEFINE x == c * EraseSize + (u - HereStart)
  <2>4. flash'[u] = job.mtdbackup[i].data[x]
    BY <1>2, <2>3 DEF Put
  <2>5. x \in 0 .. job.mtdbackup[i].size - 1
    <3>1. c * EraseSize + EraseSize <= Cnt(job, i) * EraseSize /\ c * EraseSize \in Nat
          /\ Cnt(job, i) * EraseSize \in Nat
      BY <2>1, CntType, BlockSteps, SizesAssumption DEF FlashOK, FlashTypes, RawHere
    <3>2. Cnt(job, i) * EraseSize <= job.mtdbackup[i].size /\ job.mtdbackup[i].size \in Nat
      BY <2>1, WholeBlocks DEF FlashOK, PlanOK, EntryOK, RawHere, IsRaw
    <3> QED
      BY <2>2, <2>3, <3>1, <3>2, SizesAssumption
  <2> QED
    BY <2>1, <2>4, <2>5 DEF RawHere
<1> QED
  BY <1>1, <1>2
  DEF FlashNext, FlashStep, flashVars, Analyse, NextEntry, NextChunk, Finish, EraseBlock,
      EraseFails, WriteBlock, WriteFails, VerifyBlock, VerifyFails, UbiOpen, UbiErase,
      UbiErased, UbiAttach, UbiMkVol, UbiVolUp, UbiWrite, UbiDone, Interrupt

-----------------------------------------------------------------------------
(* The environment. *)

LEMMA EnvBlockStep ==
  ASSUME FlashOK, Ctl, [FlashNext]_flashVars, job.skip_env, job.env_dev \in MtdNums,
         NEW u \in Units \cap Block(job.env_dev, job.env_offset)
  PROVE  flash'[u] = flash[u]
<1> SUFFICES ASSUME flash'[u] # flash[u] PROVE FALSE
  OBVIOUS
<1> DEFINE env == [dev |-> job.env_dev, off |-> job.env_offset]
<1>1. PlanOK(job) /\ PlanDisjoint(job)
  BY DEF FlashOK, FlashTypes
<1>2. Erasable(env)
  BY <1>1 DEF PlanOK, Erasable
<1>3. u \in Partition(job.env_dev)
  BY <1>2, ErasableBlock
<1>4. CASE WritesBlock /\ u \in HereUnits
  <2>1. u \in Partition(Here.dev) /\ Here.dev \in MtdNums
    BY <1>4, ErasableBlock DEF WritesBlock, HereUnits
  <2>2. Here.dev = job.env_dev
    BY <1>3, <2>1, DevicesApart
  <2>3. Here.off # job.env_offset
    BY <1>4, <2>2 DEF WritesBlock, Skipped
  <2>4. PICK n \in 0 .. FlashSize : Here.off = n * EraseSize
    BY <1>4 DEF WritesBlock, Erasable
  <2>5. PICK m \in 0 .. FlashSize : job.env_offset = m * EraseSize
    BY <1>1 DEF PlanOK
  <2>6. EraseSize \in Nat /\ n \in Nat /\ m \in Nat
    BY SizesAssumption
  <2>7. n # m
    BY <2>3, <2>4, <2>5
  <2>8. \/ n * EraseSize + EraseSize <= m * EraseSize
        \/ m * EraseSize + EraseSize <= n * EraseSize
    BY <2>6, <2>7, BlockSteps
  <2>9. n * EraseSize \in Nat /\ m * EraseSize \in Nat
    BY <2>6
  <2>10. Device[job.env_dev].base \in Nat
    BY DeviceTypes
  <2>11. u \in Block(job.env_dev, n * EraseSize) /\ u \in Block(job.env_dev, m * EraseSize)
    BY <1>4, <2>2, <2>4, <2>5 DEF HereUnits
  <2> QED
    BY <2>6, <2>8, <2>9, <2>10, <2>11 DEF Block
<1>5. CASE WritesUbi /\ u \in Partition(UbiDev)
  <2>1. UbiDev \in MtdNums /\ UbiDev # job.env_dev
    BY <1>1, <1>5 DEF WritesUbi, UbiHere, PlanDisjoint, UbiDev
  <2> QED
    BY <1>3, <1>5, <2>1, DevicesApart
<1> QED
  BY <1>4, <1>5, Writes

\* restore --skip-env: whatever the plan and wherever it is cut short, no step
\* of do_flash changes the erase block at which the environment was detected.
THEOREM EnvBlockIsKept == FlashSpec => EnvBlockKept
<1> DEFINE A == job.skip_env /\ job.env_dev \in MtdNums =>
             \A u \in Units \cap Block(job.env_dev, job.env_offset) : flash'[u] = flash[u]
<1>1. FlashOK /\ Ctl /\ [FlashNext]_flashVars => [A]_flashVars
  BY EnvBlockStep
<1> QED
  BY <1>1, TypeCorrect, PTL DEF FlashSpec, EnvBlockKept
-----------------------------------------------------------------------------
(* Damage. *)

LEMMA NoDamageInData ==
  ASSUME NEW x \in Data
  PROVE  x \notin {Erased, Torn}
  BY ContentAssumption

LEMMA RiskBlock ==
  ASSUME RawHere, i' = i, c' = c, job' = job, pc' \in {"write", "verify", "false", "dead"}
  PROVE  AtRisk' = HereUnits
  BY DEF RawHere, AtRisk, HereUnits, Here, IsRaw, IsUbi

LEMMA RiskUbi ==
  ASSUME UbiHere, i' = i, job' = job, pc' \in {"ubi_erase", "ubi_attach", "false", "dead"}
  PROVE  AtRisk' = Partition(UbiDev)
  BY DEF UbiHere, AtRisk, UbiDev

LEMMA DamageStep ==
  ASSUME FlashOK, Ctl, DamageConfined, [FlashNext]_flashVars
  PROVE  DamageConfined'
<1> SUFFICES ASSUME NEW u \in Units, flash'[u] \in {Erased, Torn}
             PROVE  u \in AtRisk'
  BY DEF DamageConfined
<1>0. flash'[u] = flash[u] => u \in AtRisk
  BY DEF DamageConfined
<1>1. CASE UNCHANGED flashVars
  BY <1>0, <1>1 DEF flashVars, AtRisk, UbiDev, HereUnits, Here
<1>2. CASE VerifyBlock
  <2>1. RawHere /\ Erasable(Here) /\ pc = "verify" /\ flash' = flash
        /\ flash = Put(HereStart, job.mtdbackup[i].data)
    BY <1>2 DEF VerifyBlock, Ctl
  <2>2. u \in HereUnits
    BY <1>0, <2>1 DEF AtRisk, RawHere, IsRaw, IsUbi
  <2>3. HereStart \in Nat
    BY <2>1, ErasableBlock, DeviceTypes DEF HereStart
  <2>4. Put(HereStart, job.mtdbackup[i].data)[u] \in Data
    BY <2>1, <2>2, <2>3, HereBlock, PutData
  <2> QED
    BY <2>1, <2>4, NoDamageInData
<1>3. CASE FlashNext /\ pc \in {"erase", "write", "verify"} /\ ~VerifyBlock
  <2>1. /\ RawHere
        /\ i' = i /\ c' = c /\ job' = job
        /\ pc' \in {"write", "verify", "false", "dead"}
    BY <1>3
    DEF Ctl, FlashNext, FlashStep, Goto, Fail, Analyse, NextEntry, NextChunk, Finish,
        EraseBlock, EraseFails, WriteBlock, WriteFails, VerifyFails, UbiOpen, UbiErase,
        UbiErased, UbiAttach, UbiMkVol, UbiVolUp, UbiWrite, UbiDone, Interrupt
  <2>2. AtRisk' = HereUnits
    BY <2>1, RiskBlock
  <2>3. CASE flash'[u] = flash[u]
    BY <1>0, <1>3, <2>1, <2>2, <2>3 DEF AtRisk, RawHere, IsRaw, IsUbi
  <2>4. CASE flash'[u] # flash[u]
    BY <1>3, <2>2, <2>4, Writes DEF WritesUbi
  <2> QED
    BY <2>3, <2>4
<1>4. CASE FlashNext /\ pc \in {"ubi_erase", "ubi_attach"}
  <2>1. UbiHere
    BY <1>4 DEF Ctl, UbiLabels
  <2>2. u \in Partition(UbiDev)
    <3>1. CASE flash'[u] = flash[u]
      BY <1>0, <1>4, <2>1, <3>1 DEF AtRisk, UbiHere
    <3>2. CASE flash'[u] # flash[u]
      BY <1>4, <3>2, Writes DEF WritesBlock
    <3> QED
      BY <3>1, <3>2
  <2>3. flash' # Fill(Partition(UbiDev), UbiHeader)
    BY <2>2, FillThere, ContentAssumption
  <2>4. /\ i' = i /\ job' = job
        /\ pc' \in {"ubi_erase", "ubi_attach", "false", "dead"}
    BY <1>4, <2>3
    DEF FlashNext, FlashStep, Goto, Fail, Analyse, NextEntry, NextChunk, Finish,
        EraseBlock, EraseFails, WriteBlock, WriteFails, VerifyBlock, VerifyFails, UbiOpen,
        UbiErase, UbiErased, UbiAttach, UbiMkVol, UbiVolUp, UbiWrite, UbiDone, Interrupt
  <2> QED
    BY <2>1, <2>2, <2>4, RiskUbi
<1>5. CASE FlashNext /\ pc \notin {"erase", "write", "verify", "ubi_erase", "ubi_attach"}
  <2>1. pc \notin {"false", "dead"}
    BY <1>5
    DEF FlashNext, FlashStep, Analyse, NextEntry, NextChunk, Finish,
        EraseBlock, EraseFails, WriteBlock, WriteFails, VerifyBlock, VerifyFails, UbiOpen,
        UbiErase, UbiErased, UbiAttach, UbiMkVol, UbiVolUp, UbiWrite, UbiDone, Interrupt,
        Running, Labels
  <2>2. u \notin AtRisk
    BY <1>5, <2>1 DEF AtRisk
  <2>3. flash'[u] # flash[u]
    BY <1>0, <2>2
  <2> QED
    BY <1>5, <2>3, Writes DEF WritesBlock, WritesUbi
<1> QED
  BY <1>1, <1>2, <1>3, <1>4, <1>5

\* A chip that holds data is damaged only in the erase block, or in the UBI
\* partition, that do_flash is at, at every moment and wherever it is cut short.
THEOREM DamageIsConfined == FlashSpec => []DamageConfined
<1>1. FlashInit => DamageConfined
  <2> SUFFICES ASSUME FlashInit, NEW u \in Units PROVE flash[u] \notin {Erased, Torn}
    BY DEF DamageConfined
  <2>1. flash[u] \in Data
    BY ChipsAssumption DEF FlashInit
  <2> QED
    BY <2>1, NoDamageInData
<1>2. FlashOK /\ Ctl /\ DamageConfined /\ [FlashNext]_flashVars => DamageConfined'
  BY DamageStep
<1> QED
  BY <1>1, <1>2, TypeCorrect, PTL DEF FlashSpec
-----------------------------------------------------------------------------
(* What is written stays written.  VerifiedPrefix is not inductive: that a   *)
(* later block leaves an earlier one alone takes that the earlier one lies   *)
(* inside its partition.                                                     *)

Passed ==
  \A e \in Slots : IsRaw(job, e) =>
    \A k \in 0 .. Cnt(job, e) - 1 :
      Before(e, k, i, c) =>
        \/ Skipped(job, Target(job, e, k))
        \/ Erasable(Target(job, e, k)) /\ Holds(e, k)

\* The entries of a UBI partition's volumes all bear its name.
LEMMA GroupEntries ==
  ASSUME NEW j, NEW e \in Slots, NEW f \in Slots, e <= f, f < e + NVols(j, e)
  PROVE  j.mtdbackup[f].is_ubi /\ j.mtdbackup[f].name = j.mtdbackup[e].name
<1> DEFINE R == e .. MaxBlocks - 1
           In(g) == \A h \in e .. g :
                      j.mtdbackup[h].is_ubi /\ j.mtdbackup[h].name = j.mtdbackup[e].name
           S == {g \in R : In(g)}
<1>1. MaxBlocks \in Nat /\ e \in Nat /\ f \in Nat /\ e \in Int /\ f - 1 \in Int
      /\ f <= MaxBlocks - 1
  BY SizesAssumption DEF Slots
<1>2. SUFFICES ASSUME f \notin S PROVE FALSE
  <2>1. f \in S => j.mtdbackup[f].is_ubi /\ j.mtdbackup[f].name = j.mtdbackup[e].name
    BY <1>1
  <2> QED
    BY <2>1
<1>3. S \in SUBSET (e .. f - 1)
  BY <1>1, <1>2
<1>4. IsFiniteSet(e .. f - 1) /\ Cardinality(e .. f - 1) = f - e
  <2> DEFINE b == f - 1
  <2> HIDE DEF b
  <2>1. b \in Int
    BY <1>1 DEF b
  <2>2. IsFiniteSet(e .. b) /\ Cardinality(e .. b) = IF e > b THEN 0 ELSE b - e + 1
    BY <1>1, <2>1, FS_Interval
  <2> USE DEF b
  <2> QED
    BY <1>1, <2>2
<1>5. Cardinality(S) <= f - e
  <2> DEFINE T == e .. f - 1
  <2>1. IsFiniteSet(T) /\ S \in SUBSET T /\ Cardinality(T) = f - e
    BY <1>3, <1>4
  <2> HIDE DEF S, T
  <2> QED
    BY <2>1, FS_Subset
<1>6. NVols(j, e) = Cardinality(S)
  BY DEF NVols
<1>7. NVols(j, e) \in Nat
  BY <1>1, GroupBound, SizesAssumption DEF Slots
<1> QED
  BY <1>1, <1>5, <1>6, <1>7

LEMMA HoldsKept ==
  ASSUME FlashOK, Ctl, [FlashNext]_flashVars, job' = job,
         NEW e \in Slots, NEW k \in 0 .. Cnt(job, e) - 1, IsRaw(job, e),
         <<e, k>> # <<i, c>>, Erasable(Target(job, e, k)), Holds(e, k)
  PROVE  Holds(e, k)'
<1> DEFINE t == Target(job, e, k)
<1>1. PlanOK(job) /\ PlanDisjoint(job)
  BY DEF FlashOK, FlashTypes
<1>2. ASSUME NEW x \in 0 .. EraseSize - 1
      PROVE  flash'[Device[t.dev].base + t.off + x] = flash[Device[t.dev].base + t.off + x]
  <2> DEFINE u == Device[t.dev].base + t.off + x
  <2>1. /\ t.dev \in MtdNums /\ t.off \in Nat /\ Device[t.dev].base \in Nat
        /\ Block(t.dev, t.off) \subseteq Partition(t.dev)
        /\ Block(t.dev, t.off) \subseteq Units
    BY ErasableBlock, DeviceTypes
  <2>2. u \in Block(t.dev, t.off)
    BY <2>1, SizesAssumption DEF Block
  <2>3. ~(WritesBlock /\ u \in HereUnits)
    <3> SUFFICES ASSUME WritesBlock, u \in HereUnits PROVE FALSE
      OBVIOUS
    <3>1. /\ i \in Slots /\ IsRaw(job, i) /\ c \in 0 .. Cnt(job, i) - 1
          /\ Erasable(Target(job, i, c))
      BY <1>1, CntType DEF WritesBlock, RawHere, FlashOK, FlashTypes, Here
    <3>2. Block(t.dev, t.off)
            \cap Block(Target(job, i, c).dev, Target(job, i, c).off) = {}
      BY <1>1, <3>1, BlocksApart
    <3> QED
      BY <2>2, <3>2 DEF HereUnits, Here
  <2>4. ~(WritesUbi /\ u \in Partition(UbiDev))
    <3> SUFFICES ASSUME WritesUbi, u \in Partition(UbiDev) PROVE FALSE
      OBVIOUS
    <3>1. UbiDev \in MtdNums /\ t.dev # UbiDev
      BY <1>1 DEF WritesUbi, UbiHere, UbiDev, PlanDisjoint
    <3> QED
      BY <2>1, <2>2, <3>1, DevicesApart
  <2> QED
    BY <2>1, <2>2, <2>3, <2>4, Writes
<1> QED
  BY <1>2 DEF Holds

LEMMA PassedStep ==
  ASSUME FlashOK, Ctl, Passed, [FlashNext]_flashVars
  PROVE  Passed'
<1> USE DEF FlashOK, FlashTypes
<1>1. job' = job
  BY JobKept
<1>2. PlanOK(job) /\ PlanDisjoint(job)
  OBVIOUS
<1> SUFFICES ASSUME NEW e \in Slots, IsRaw(job, e), NEW k \in 0 .. Cnt(job, e) - 1,
                    Before(e, k, i', c'), ~Skipped(job, Target(job, e, k))
             PROVE  Erasable(Target(job, e, k)) /\ Holds(e, k)'
  BY <1>1 DEF Passed
<1>3. e \in Nat /\ k \in Nat /\ k < Cnt(job, e) /\ Cnt(job, e) \in Nat
  BY <1>2, CntType, SizesAssumption DEF Slots
<1>4. CASE Before(e, k, i, c)
  <2>1. Erasable(Target(job, e, k)) /\ Holds(e, k)
    BY <1>4 DEF Passed
  <2>2. <<e, k>> # <<i, c>>
    BY <1>3, <1>4, SizesAssumption DEF Before
  <2> QED
    BY <1>1, <2>1, <2>2, HoldsKept
<1>5. CASE ~Before(e, k, i, c)
  <2>1. CASE VerifyBlock
    <3>1. e = i /\ k = c
      BY <1>3, <1>5, <2>1 DEF VerifyBlock, Before
    <3>2. Erasable(Here) /\ flash' = flash
          /\ flash = Put(HereStart, job.mtdbackup[i].data)
      BY <2>1 DEF VerifyBlock, Ctl
    <3>3. ASSUME NEW x \in 0 .. EraseSize - 1
          PROVE  flash[HereStart + x] = job.mtdbackup[i].data[c * EraseSize + x]
      <4>1. HereStart + x \in HereUnits /\ HereStart \in Nat
        BY <3>2, ErasableBlock, DeviceTypes, HereBlock, SizesAssumption DEF HereStart
      <4>2. HereStart + x \in Units
        BY <3>2, <4>1, ErasableBlock DEF HereUnits
      <4>3. (HereStart + x) - HereStart = x
            /\ HereStart + x \in HereStart .. HereStart + EraseSize - 1
        BY <4>1, SizesAssumption
      <4> HIDE DEF FlashOK
      <4>4. Put(HereStart, job.mtdbackup[i].data)[HereStart + x]
              = job.mtdbackup[i].data[c * EraseSize + ((HereStart + x) - HereStart)]
        BY <4>2, <4>3 DEF Put
      <4> QED
        BY <3>2, <4>3, <4>4
    <3> QED
      BY <1>1, <3>1, <3>2, <3>3 DEF Holds, Here, HereStart
  <2>2. CASE NextEntry
    BY <1>3, <1>5, <2>2, SizesAssumption DEF NextEntry, Before, Slots
  <2>3. CASE NextChunk
    <3>1. e = i /\ k = c /\ Skipped(job, Here)
      BY <1>3, <1>5, <2>3 DEF NextChunk, Before
    <3> QED
      BY <3>1 DEF Here
  <2>4. CASE UbiDone
    <3>1. i \in Slots /\ NVols(job, i) \in Nat
      BY <2>4, GroupBound DEF UbiDone, Ctl, UbiLabels, UbiHere
    <3>2. i <= e /\ e < i + NVols(job, i)
      BY <1>3, <1>5, <2>4, <3>1, SizesAssumption DEF UbiDone, Before, Slots
    <3> QED
      BY <3>1, <3>2, GroupEntries DEF IsRaw
  <2>5. CASE pc \in UbiLabels /\ i' = i
    <3>1. e = i
      BY <1>3, <1>5, <2>5, SizesAssumption DEF Before
    <3>2. IsUbi(job, i)
      BY <2>5 DEF Ctl, UbiHere
    <3> QED
      BY <3>1, <3>2 DEF IsUbi, IsRaw
  <2>6. CASE i' = i /\ c' = c
    BY <1>5, <2>6
  <2> QED
    BY <2>1, <2>2, <2>3, <2>4, <2>5, <2>6
    DEF FlashNext, FlashStep, flashVars, Goto, Fail, Analyse, Finish, EraseBlock, EraseFails,
        WriteBlock, WriteFails, VerifyFails, UbiOpen, UbiErase, UbiErased, UbiAttach,
        UbiMkVol, UbiVolUp, UbiWrite, Interrupt, UbiLabels
<1> QED
  BY <1>4, <1>5

\* do_flash: every erase block the walk has passed holds its data or was
\* skipped as the environment, whatever comes after it, and so all of them do
\* when do_flash answers true and the caller reboots.
THEOREM WrittenStaysWritten == FlashSpec => []VerifiedPrefix
<1>1. FlashInit => Passed
  BY SizesAssumption DEF FlashInit, Passed, Before, Slots
<1>2. FlashOK /\ Ctl /\ Passed /\ [FlashNext]_flashVars => Passed'
  BY PassedStep
<1>3. Passed => VerifiedPrefix
  BY DEF Passed, VerifiedPrefix
<1> QED
  BY <1>1, <1>2, <1>3, TypeCorrect, PTL DEF FlashSpec

-----------------------------------------------------------------------------
\* do_flash keeps its types, meets nothing the simulated pass should have refused,
\* and leaves damage nowhere but where it is.
THEOREM CarefulHolds == FlashSpec => []Careful
<1>1. FlashSpec => []FlashTypeOK
  BY TypeCorrect, PTL
<1> QED
  BY <1>1, AnalysisIsSound, DamageIsConfined, PTL DEF Careful
-----------------------------------------------------------------------------
(* Volumes.  UbiPrefix is not inductive: that the next UBI partition is     *)
(* another one takes that the groups of volumes passed have ended, and that *)
(* the next volume is none of those written takes what the kernel makes of  *)
(* each on the way.                                                         *)

\* Entry e's volume exists and holds its data.
VolumeOf(e) == <<FindMtd(job.part, job.mtdbackup[e].name), job.mtdbackup[e].vol_id>>
Made(e) == VolumeOf(e) \in MtdNums \X VolIds /\ vols[VolumeOf(e)] = [st |-> "data", src |-> e]

GroupsPassed ==
  \A e \in Slots : IsUbi(job, e) /\ e < i => Made(e) /\ e + NVols(job, e) <= i

VolumeHere ==
  /\ pc = "analyse" => i = 0 /\ c = 0
  /\ pc = "entry" /\ i \in Slots /\ IsUbi(job, i) => c = 0
  /\ pc = "ubi_attach" => c = 0
  /\ pc = "ubi_mkvol" => c <= NVols(job, i)
  /\ pc \in {"ubi_volup", "ubi_write"} => c < NVols(job, i)
  /\ pc = "ubi_volup" => vols[Volume].st = "created"
  /\ pc = "ubi_write" => vols[Volume].st = "updating"

GroupMade ==
  pc \in {"ubi_mkvol", "ubi_volup", "ubi_write"} =>
    \A e \in Slots : i <= e /\ e < i + c => Made(e)

Remade == GroupsPassed /\ VolumeHere /\ GroupMade

\* ubi_find_mtd: the partition that is found bears the name asked for.
LEMMA FoundName ==
  ASSUME NEW part, NEW name, FindMtd(part, name) # NoMtd
  PROVE  part[FindMtd(part, name)].name = name
<1> DEFINE S == {m \in Slots : part[m].name = name}
<1>1. S # {} /\ S \in SUBSET Nat
  BY SizesAssumption DEF FindMtd, Slots
<1> HIDE DEF S
<1>2. PICK m \in S : \A k \in S : m <= k
  BY <1>1, LeastNat
<1>3. m \in Slots /\ part[m].name = name
  BY <1>2 DEF S
<1>4. ASSUME NEW k \in 0 .. m - 1 PROVE part[k].name # name
  <2>1. k \in Slots /\ k \in Nat /\ m \in Nat /\ k < m
    BY <1>3, SizesAssumption DEF Slots
  <2>2. k \notin S
    BY <1>2, <2>1
  <2> QED
    BY <2>1, <2>2 DEF S
<1> QED
  BY <1>3, <1>4 DEF FindMtd

LEMMA GroupNotEmpty ==
  ASSUME NEW j, NEW e \in Slots, j.mtdbackup[e].is_ubi
  PROVE  NVols(j, e) \in Nat /\ NVols(j, e) >= 1 /\ e + NVols(j, e) <= MaxBlocks
<1> DEFINE R == e .. MaxBlocks - 1
           S == {g \in R : \A f \in e .. g :
                   j.mtdbackup[f].is_ubi /\ j.mtdbackup[f].name = j.mtdbackup[e].name}
<1>1. NVols(j, e) \in Nat /\ e + NVols(j, e) <= MaxBlocks
  BY GroupBound, SizesAssumption DEF Slots
<1>2. e \in S
  BY SizesAssumption DEF Slots
<1>3. IsFiniteSet(S)
  <2>1. IsFiniteSet(R)
    <3> DEFINE b == MaxBlocks - 1
    <3>1. e \in Int /\ b \in Int
      BY SizesAssumption DEF Slots
    <3> HIDE DEF b
    <3>2. IsFiniteSet(e .. b)
      BY <3>1, FS_Interval
    <3> QED
      BY <3>2 DEF b
  <2> HIDE DEF R
  <2> QED
    BY <2>1, FS_Subset
<1>4. NVols(j, e) = Cardinality(S)
  BY DEF NVols
<1> HIDE DEF S
<1>5. Cardinality(S) # 0
  BY <1>2, <1>3, FS_EmptySet
<1> QED
  BY <1>1, <1>4, <1>5

\* Groups that lie apart in the array restore different partitions.
LEMMA OtherPartition ==
  ASSUME NEW j, PlanDisjoint(j), NEW e \in Slots, NEW f \in Slots,
         IsUbi(j, e), IsUbi(j, f), e + NVols(j, e) <= f,
         FindMtd(j.part, j.mtdbackup[f].name) # NoMtd
  PROVE  FindMtd(j.part, j.mtdbackup[e].name) # FindMtd(j.part, j.mtdbackup[f].name)
<1>1. NVols(j, e) \in Nat /\ NVols(j, f) \in Nat /\ NVols(j, f) >= 1
  BY GroupNotEmpty DEF IsUbi
<1>2. j.mtdbackup[f].name # j.mtdbackup[e].name
  <2> SUFFICES ASSUME j.mtdbackup[f].name = j.mtdbackup[e].name PROVE FALSE
    OBVIOUS
  <2>1. e + NVols(j, e) = f + NVols(j, f)
    BY DEF PlanDisjoint
  <2> QED
    BY <1>1, <2>1, SizesAssumption DEF Slots
<1> QED
  BY <1>2, FoundName

\* The volume do_flash is at has a place in vols.
LEMMA VolumePlace ==
  ASSUME FlashOK, UbiHere, c < NVols(job, i)
  PROVE  Volume \in MtdNums \X VolIds /\ i + c \in Slots /\ UbiDev # NoMtd
<1>1. i \in Slots /\ job.mtdbackup[i].is_ubi /\ UbiDev \in MtdNums
  BY DEF UbiHere, IsUbi
<1>2. NVols(job, i) \in Nat /\ i + NVols(job, i) <= MaxBlocks
  BY <1>1, GroupNotEmpty
<1>3. i + c \in Slots
  BY <1>1, <1>2, SizesAssumption DEF Slots, FlashOK, FlashTypes
<1>4. job.mtdbackup[i + c].vol_id \in VolIds
  BY <1>3 DEF FlashOK, FlashTypes, PlanOK, EntryOK
<1> QED
  BY <1>1, <1>3, <1>4, DeviceTypes DEF Volume

\* An entry of a group that was passed does not lie on the device being restored.
LEMMA PassedElsewhere ==
  ASSUME FlashOK, UbiHere, GroupsPassed, NEW e \in Slots, IsUbi(job, e), e < i
  PROVE  FindMtd(job.part, job.mtdbackup[e].name) # UbiDev
<1>1. PlanDisjoint(job)
  BY DEF FlashOK, FlashTypes
<1>2. i \in Slots /\ IsUbi(job, i) /\ UbiDev # NoMtd
  BY DeviceTypes DEF UbiHere
<1>3. e + NVols(job, e) <= i
  BY DEF GroupsPassed
<1> QED
  BY <1>1, <1>2, <1>3, OtherPartition DEF UbiDev

\* The volumes of a group are entries of the plan, on the device being restored.
LEMMA GroupHere ==
  ASSUME FlashOK, UbiHere, NEW e \in Slots, i <= e, e < i + NVols(job, i)
  PROVE  /\ IsUbi(job, e)
         /\ FindMtd(job.part, job.mtdbackup[e].name) = UbiDev
         /\ e + NVols(job, e) = i + NVols(job, i)
<1>1. PlanDisjoint(job)
  BY DEF FlashOK, FlashTypes
<1>2. i \in Slots /\ IsUbi(job, i)
  BY DEF UbiHere
<1>3. job.mtdbackup[e].is_ubi /\ job.mtdbackup[e].name = job.mtdbackup[i].name
  BY <1>2, GroupEntries
<1>4. IsUbi(job, e)
  BY <1>2, <1>3 DEF IsUbi
<1> QED
  BY <1>1, <1>2, <1>3, <1>4 DEF PlanDisjoint, UbiDev


\* Making, updating or writing a volume leaves those that are done alone.
LEMMA MadeKept ==
  ASSUME job' = job, NEW e, Made(e), vols[Volume].st # "data",
         \A mv \in MtdNums \X VolIds : mv # Volume => vols'[mv] = vols[mv]
  PROVE  Made(e)'
<1>1. VolumeOf(e) # Volume
  BY DEF Made
<1>2. VolumeOf(e)' = VolumeOf(e)
  BY DEF VolumeOf
<1> QED
  BY <1>1, <1>2 DEF Made

\* Wiping a partition leaves the volumes of those that were passed alone.
LEMMA MadeElsewhere ==
  ASSUME FlashOK, Ctl, GroupsPassed, UbiErase,
         NEW e \in Slots, IsUbi(job, e), e < i
  PROVE  Made(e)'
<1>1. Made(e) /\ job' = job
  BY DEF GroupsPassed, UbiErase
<1>2. VolumeOf(e)' = VolumeOf(e)
  BY <1>1 DEF VolumeOf
<1>3. VolumeOf(e)[1] # UbiDev
  BY PassedElsewhere DEF UbiErase, Ctl, UbiLabels, VolumeOf
<1>4. vols'[VolumeOf(e)] = vols[VolumeOf(e)]
  BY <1>1, <1>3 DEF UbiErase, Made, FlashOK, FlashTypes
<1> QED
  BY <1>1, <1>2, <1>4 DEF Made

\* A step that changes no volume keeps what it does not pass.
LEMMA StillMade ==
  ASSUME job' = job, vols' = vols, NEW e, Made(e)
  PROVE  Made(e)'
  BY DEF Made, VolumeOf

LEMMA PassedGroupsStep ==
  ASSUME FlashOK, Ctl, Remade, [FlashNext]_flashVars
  PROVE  GroupsPassed'
<1>1. job' = job
  BY JobKept
<1>2. ASSUME NEW e \in Slots, IsUbi(job, e), e < i
      PROVE  Made(e) /\ e + NVols(job, e) <= i
  BY <1>2 DEF Remade, GroupsPassed
<1>3. CASE UbiDone
  <2>1. UbiHere /\ c = NVols(job, i) /\ i' = i + c /\ vols' = vols /\ pc = "ubi_mkvol"
    BY <1>3 DEF UbiDone, Ctl, UbiLabels
  <2>2. i \in Slots /\ NVols(job, i) \in Nat /\ i + NVols(job, i) <= MaxBlocks
    BY <2>1, GroupNotEmpty DEF UbiHere, IsUbi
  <2>3. ASSUME NEW e \in Slots, IsUbi(job, e), e < i'
        PROVE  Made(e)' /\ e + NVols(job, e) <= i'
    <3>1. CASE e < i
      <4>1. NVols(job, e) \in Nat
        BY <2>3, GroupNotEmpty DEF IsUbi
      <4>2. Made(e) /\ e + NVols(job, e) <= i
        BY <1>2, <2>3, <3>1
      <4>3. Made(e)'
        BY <1>1, <2>1, <4>2, StillMade
      <4>4. e + NVols(job, e) <= i'
        BY <2>1, <2>2, <4>1, <4>2, SizesAssumption DEF Slots
      <4> QED
        BY <4>3, <4>4
    <3>2. CASE i <= e
      <4>1. Made(e)
        BY <2>1, <2>3, <3>2 DEF Remade, GroupMade
      <4>2. e + NVols(job, e) = i'
        BY <2>1, <2>3, <3>2, GroupHere
      <4>3. i' \in Int
        BY <2>1, <2>2, SizesAssumption DEF Slots
      <4> QED
        BY <1>1, <2>1, <4>1, <4>2, <4>3, StillMade
    <3> QED
      BY <2>2, <3>1, <3>2, SizesAssumption DEF Slots
  <2> QED
    BY <1>1, <2>3 DEF GroupsPassed, IsUbi, NVols
<1>4. CASE NextEntry
  <2>1. ~IsUbi(job, i) /\ i \in Slots /\ i' = i + 1 /\ vols' = vols
    BY <1>4 DEF NextEntry
  <2>2. ASSUME NEW e \in Slots, IsUbi(job, e), e < i'
        PROVE  Made(e)' /\ e + NVols(job, e) <= i'
    <3>1. e < i
      BY <2>1, <2>2, SizesAssumption DEF Slots
    <3>2. Made(e) /\ e + NVols(job, e) <= i /\ NVols(job, e) \in Nat
      BY <1>2, <2>2, <3>1, GroupNotEmpty DEF IsUbi
    <3> QED
      BY <1>1, <2>1, <3>2, StillMade, SizesAssumption DEF Slots
  <2> QED
    BY <1>1, <2>2 DEF GroupsPassed, IsUbi, NVols
<1>5. CASE ~UbiDone /\ ~NextEntry
  <2>1. i' = i
    BY <1>5
    DEF FlashNext, FlashStep, flashVars, Goto, Fail, Analyse, NextChunk, Finish,
        EraseBlock, EraseFails, WriteBlock, WriteFails, VerifyBlock, VerifyFails,
        UbiOpen, UbiErase, UbiErased, UbiAttach, UbiMkVol, UbiVolUp, UbiWrite, Interrupt
  <2>2. ASSUME NEW e \in Slots, IsUbi(job, e), e < i
        PROVE  Made(e)'
    <3>1. Made(e)
      BY <1>2, <2>2
    <3>2. CASE UbiErase
      BY <2>2, <3>2, MadeElsewhere DEF Remade
    <3>3. CASE UbiMkVol \/ UbiVolUp \/ UbiWrite
      <4>1. CASE vols' = vols
        BY <1>1, <3>1, <4>1, StillMade
      <4>2. CASE vols' # vols
        <5>1. vols[Volume].st # "data"
          BY <3>3, <4>2 DEF UbiMkVol, UbiVolUp, UbiWrite, Remade, VolumeHere
        <5>2. \A mv \in MtdNums \X VolIds : mv # Volume => vols'[mv] = vols[mv]
          BY <3>3, <4>2 DEF UbiMkVol, UbiVolUp, UbiWrite, FlashOK, FlashTypes
        <5> QED
          BY <1>1, <3>1, <5>1, <5>2, MadeKept
      <4> QED
        BY <4>1, <4>2
    <3>4. CASE ~UbiErase /\ ~(UbiMkVol \/ UbiVolUp \/ UbiWrite)
      <4>1. vols' = vols
        BY <3>4
        DEF FlashNext, FlashStep, flashVars, Analyse, NextEntry, NextChunk, Finish,
            EraseBlock, EraseFails, WriteBlock, WriteFails, VerifyBlock, VerifyFails,
            UbiOpen, UbiErased, UbiAttach, UbiDone, Interrupt
      <4> QED
        BY <1>1, <3>1, <4>1, StillMade
    <3> QED
      BY <3>2, <3>3, <3>4
  <2> QED
    BY <1>1, <1>2, <2>1, <2>2 DEF GroupsPassed, IsUbi, NVols
<1> QED
  BY <1>3, <1>4, <1>5

LEMMA VolumeHereStep ==
  ASSUME FlashOK, Ctl, Remade, [FlashNext]_flashVars
  PROVE  VolumeHere'
<1> USE DEF VolumeHere, Goto, Fail
<1>0. VolumeHere
  BY DEF Remade
<1>1. CASE Analyse
  BY <1>0, <1>1 DEF Analyse
<1>2. CASE NextEntry
  BY <1>2 DEF NextEntry
<1>3. CASE NextChunk
  BY <1>3 DEF NextChunk, IsRaw, IsUbi
<1>4. CASE VerifyBlock
  BY <1>4 DEF VerifyBlock, Ctl, RawHere, IsRaw, IsUbi
<1>5. CASE UbiOpen
  BY <1>0, <1>5 DEF UbiOpen
<1>6. CASE UbiErase \/ UbiErased
  BY <1>6 DEF UbiErase, UbiErased
<1>7. CASE UbiAttach
  <2>1. UbiHere
    BY <1>7 DEF UbiAttach, Ctl, UbiLabels
  <2>2. NVols(job, i) \in Nat
    BY <2>1, GroupNotEmpty DEF UbiHere, IsUbi
  <2>3. c = 0 /\ c' = c /\ i' = i /\ job' = job /\ pc' \in {"ubi_mkvol", "false"}
    BY <1>0, <1>7 DEF UbiAttach
  <2> QED
    BY <2>2, <2>3
<1>8. CASE UbiMkVol
  <2>1. UbiHere /\ c < NVols(job, i) /\ UNCHANGED <<job, i, c>>
    BY <1>8 DEF UbiMkVol, Ctl, UbiLabels
  <2>2. Volume \in MtdNums \X VolIds
    BY <2>1, VolumePlace
  <2>3. Volume' = Volume
    BY <2>1 DEF Volume, UbiDev
  <2>4. pc' = "ubi_volup" => vols'[Volume].st = "created"
    BY <1>8, <2>2 DEF UbiMkVol, FlashOK, FlashTypes, VolState
  <2>5. pc' \in {"ubi_volup", "false"}
    BY <1>8 DEF UbiMkVol
  <2> QED
    BY <2>1, <2>3, <2>4, <2>5
<1>9. CASE UbiVolUp
  <2>1. UbiHere /\ c < NVols(job, i) /\ UNCHANGED <<job, i, c>>
    BY <1>0, <1>9 DEF UbiVolUp, Ctl, UbiLabels
  <2>2. Volume \in MtdNums \X VolIds
    BY <2>1, VolumePlace
  <2>3. Volume' = Volume
    BY <2>1 DEF Volume, UbiDev
  <2>4. pc' = "ubi_write" => vols'[Volume].st = "updating"
    BY <1>9, <2>2 DEF UbiVolUp, FlashOK, FlashTypes, VolState
  <2>5. pc' \in {"ubi_write", "false"}
    BY <1>9 DEF UbiVolUp
  <2> QED
    BY <2>1, <2>3, <2>4, <2>5
<1>10. CASE UbiWrite
  <2>1. UbiHere /\ c < NVols(job, i) /\ UNCHANGED <<job, i>>
    BY <1>0, <1>10 DEF UbiWrite, Ctl, UbiLabels
  <2>2. NVols(job, i) \in Nat
    BY <2>1, GroupNotEmpty DEF UbiHere, IsUbi
  <2>3. pc' = "false" \/ (pc' = "ubi_mkvol" /\ c' = c + 1)
    BY <1>10 DEF UbiWrite
  <2> QED
    BY <2>1, <2>2, <2>3 DEF FlashOK, FlashTypes
<1>11. CASE UbiDone
  BY <1>11 DEF UbiDone
<1>12. CASE UNCHANGED flashVars
  BY <1>0, <1>12 DEF flashVars, Volume, UbiDev
<1>13. CASE Finish \/ EraseBlock \/ EraseFails \/ WriteBlock \/ WriteFails \/ VerifyFails
            \/ Interrupt
  BY <1>13 DEF Finish, EraseBlock, EraseFails, WriteBlock, WriteFails, VerifyFails, Interrupt
<1> QED
  BY <1>1, <1>2, <1>3, <1>4, <1>5, <1>6, <1>7, <1>8, <1>9, <1>10, <1>11, <1>12, <1>13
  DEF FlashNext, FlashStep

LEMMA GroupMadeStep ==
  ASSUME FlashOK, Ctl, Remade, [FlashNext]_flashVars
  PROVE  GroupMade'
<1> DEFINE Making == {"ubi_mkvol", "ubi_volup", "ubi_write"}
<1> USE DEF Goto, Fail
<1>1. CASE UbiAttach
  <2>1. c = 0 /\ c' = c /\ i' = i /\ i \in Nat
    BY <1>1, SizesAssumption DEF UbiAttach, Remade, VolumeHere, FlashOK, FlashTypes
  <2>2. ASSUME NEW e \in Slots PROVE ~(i' <= e /\ e < i' + c')
    BY <2>1, SizesAssumption DEF Slots
  <2> QED
    BY <2>2 DEF GroupMade
<1>2. CASE UbiMkVol \/ UbiVolUp
  <2>1. UNCHANGED <<job, i, c>> /\ pc \in Making
    BY <1>2 DEF UbiMkVol, UbiVolUp
  <2>2. ASSUME NEW e \in Slots, i <= e, e < i + c PROVE Made(e)'
    <3>1. Made(e)
      BY <2>1, <2>2 DEF Remade, GroupMade
    <3>2. CASE vols' = vols
      BY <2>1, <3>1, <3>2, StillMade
    <3>3. CASE vols' # vols
      <4>1. vols[Volume].st # "data"
        BY <1>2, <3>3 DEF UbiMkVol, UbiVolUp, Remade, VolumeHere
      <4>2. \A mv \in MtdNums \X VolIds : mv # Volume => vols'[mv] = vols[mv]
        BY <1>2, <3>3 DEF UbiMkVol, UbiVolUp, FlashOK, FlashTypes
      <4> QED
        BY <2>1, <3>1, <4>1, <4>2, MadeKept
    <3> QED
      BY <3>2, <3>3
  <2> QED
    BY <2>1, <2>2 DEF GroupMade
<1>3. CASE UbiWrite
  <2>1. CASE pc' = "false"
    BY <2>1 DEF GroupMade
  <2>2. CASE pc' # "false"
    <3>1. /\ UbiHere /\ c < NVols(job, i) /\ UNCHANGED <<job, i>> /\ pc = "ubi_write"
          /\ c' = c + 1 /\ vols' = [vols EXCEPT ![Volume] = [st |-> "data", src |-> i + c]]
      BY <1>3, <2>2 DEF UbiWrite, Ctl, UbiLabels, Remade, VolumeHere
    <3>2. Volume \in MtdNums \X VolIds /\ i + c \in Slots
      BY <3>1, VolumePlace
    <3>3. NVols(job, i) \in Nat
      BY <3>1, GroupNotEmpty DEF UbiHere, IsUbi
    <3>4. i \in Nat /\ c \in Nat
      BY <3>1, SizesAssumption DEF UbiHere, Slots, FlashOK, FlashTypes
    <3>5. ASSUME NEW e \in Slots, i <= e, e < i + c PROVE Made(e)'
      <4>1. Made(e)
        BY <3>1, <3>5 DEF Remade, GroupMade
      <4>2. vols[Volume].st # "data"
        BY <3>1 DEF Remade, VolumeHere
      <4>3. \A mv \in MtdNums \X VolIds : mv # Volume => vols'[mv] = vols[mv]
        BY <3>1 DEF FlashOK, FlashTypes
      <4> QED
        BY <3>1, <4>1, <4>2, <4>3, MadeKept
    <3>6. ASSUME NEW e \in Slots, e = i + c PROVE Made(e)'
      <4>1. i <= e /\ e < i + NVols(job, i)
        BY <3>1, <3>3, <3>4, <3>6
      <4>2. FindMtd(job.part, job.mtdbackup[e].name) = UbiDev
        BY <3>1, <4>1, GroupHere
      <4>3. VolumeOf(e) = Volume
        BY <3>6, <4>2 DEF VolumeOf, Volume
      <4>4. VolumeOf(e)' = VolumeOf(e)
        BY <3>1 DEF VolumeOf
      <4>5. vols'[Volume] = [st |-> "data", src |-> e]
        BY <3>1, <3>2, <3>6 DEF FlashOK, FlashTypes
      <4> QED
        BY <3>2, <4>3, <4>4, <4>5 DEF Made
    <3>7. ASSUME NEW e \in Slots, i' <= e, e < i' + c' PROVE Made(e)'
      <4>1. e < i + c \/ e = i + c
        BY <3>1, <3>4, <3>7, SizesAssumption DEF Slots
      <4> QED
        BY <3>1, <3>5, <3>6, <3>7, <4>1
    <3> QED
      BY <3>7 DEF GroupMade
  <2> QED
    BY <2>1, <2>2
<1>4. CASE UNCHANGED flashVars
  <2>1. UNCHANGED <<job, vols, pc, i, c>>
    BY <1>4 DEF flashVars
  <2> QED
    BY <2>1 DEF Remade, GroupMade, Made, VolumeOf
<1>5. CASE ~(UbiAttach \/ UbiMkVol \/ UbiVolUp \/ UbiWrite) /\ FlashNext
  <2>1. pc' \notin Making
    BY <1>5
    DEF FlashNext, FlashStep, Analyse, NextEntry, NextChunk, Finish,
        EraseBlock, EraseFails, WriteBlock, WriteFails, VerifyBlock, VerifyFails,
        UbiOpen, UbiErase, UbiErased, UbiDone, Interrupt
  <2> QED
    BY <2>1 DEF GroupMade
<1> QED
  BY <1>1, <1>2, <1>3, <1>4, <1>5

\* ubi_restore_partition: once do_flash has passed a UBI partition, each of its
\* stored volumes exists and holds that entry's data: no later volume takes its
\* place and no later partition wipes its device.
THEOREM VolumesStayMade == FlashSpec => []UbiPrefix
<1>1. FlashInit => Remade
  BY SizesAssumption DEF FlashInit, Remade, GroupsPassed, VolumeHere, GroupMade, Slots
<1>2. FlashOK /\ Ctl /\ Remade /\ [FlashNext]_flashVars => Remade'
  BY PassedGroupsStep, VolumeHereStep, GroupMadeStep DEF Remade
<1>3. Remade => UbiPrefix
  BY DEF Remade, GroupsPassed, UbiPrefix, Made, VolumeOf
<1> QED
  BY <1>1, <1>2, <1>3, TypeCorrect, PTL DEF FlashSpec

-----------------------------------------------------------------------------
(* What the callers of do_flash need of it: the table of partitions they make *)
(* is the kernel's with gaps, and nothing is done before the first call.       *)

LEMMA TableSize ==
  ASSUME NEW part, \A m \in Slots : part[m] \in {Table[m], NoPart}
  PROVE  \A m \in Slots : part[m].size \in Nat
<1>1. ASSUME NEW m \in Slots PROVE Table[m].size \in Nat /\ NoPart.size \in Nat
  BY DeviceTypes DEF Table, NoPart
<1> QED
  BY <1>1

\* do_flash has passed nothing yet.
LEMMA NothingPassed ==
  ASSUME i' = 0, c' = 0, pc' \in {"idle", "analyse"}
  PROVE  Ctl' /\ Passed'
<1>1. Ctl'
  BY DEF Ctl, UbiLabels
<1>2. ASSUME NEW e \in Slots, NEW k \in 0 .. Cnt(job', e) - 1 PROVE ~Before(e, k, i', c')
  BY SizesAssumption DEF Before, Slots
<1>3. Passed'
  BY <1>2 DEF Passed
<1> QED
  BY <1>1, <1>3

LEMMA SameFlash ==
  ASSUME UNCHANGED flashVars
  PROVE  (FlashTypes' <=> FlashTypes) /\ (Ctl' <=> Ctl) /\ (Passed' <=> Passed)
<1>1. /\ flash' = flash /\ vols' = vols /\ job' = job /\ pc' = pc /\ i' = i /\ c' = c
  BY DEF flashVars
<1>2. FlashTypes' <=> FlashTypes
  BY <1>1 DEF FlashTypes
<1>3. Ctl' <=> Ctl
  BY <1>1 DEF Ctl, RawHere, UbiHere, Here, UbiDev
<1>4. Passed' <=> Passed
  BY <1>1 DEF Passed, Holds
<1> QED
  BY <1>2, <1>3, <1>4

\* The erase block, counted from the start, that a unit lies in.
LEMMA BlockOfUnit ==
  ASSUME NEW n \in Nat, NEW y \in Nat, y < n * EraseSize
  PROVE  \E k \in 0 .. n - 1, x \in 0 .. EraseSize - 1 : k * EraseSize \in Nat /\ y = k * EraseSize + x
<1> DEFINE S == {k \in Nat : y < k * EraseSize}
<1>1. EraseSize \in Nat \ {0}
  BY SizesAssumption
<1>2. S \in SUBSET Nat /\ n \in S
  OBVIOUS
<1>3. PICK l \in S : \A w \in S : l <= w
  BY <1>2, LeastNat
<1>4. l \in Nat /\ y < l * EraseSize /\ l <= n
  BY <1>2, <1>3
<1>5. l # 0
  BY <1>1, <1>4
<1> DEFINE k == l - 1
<1>6. k \in Nat /\ k + 1 = l /\ ~(l <= k) /\ k \in 0 .. n - 1
  BY <1>4, <1>5
<1>7. l * EraseSize = k * EraseSize + EraseSize /\ k * EraseSize \in Nat
  BY <1>1, <1>6
<1> HIDE DEF k
<1>8. ~(y < k * EraseSize)
  BY <1>3, <1>6
<1> DEFINE b == k * EraseSize
           x == y - b
<1>9. b \in Nat /\ b <= y /\ y < b + EraseSize
  BY <1>4, <1>7, <1>8
<1> HIDE DEF b
<1>10. x \in 0 .. EraseSize - 1 /\ y = b + x
  BY <1>1, <1>9
<1> QED
  BY <1>6, <1>9, <1>10 DEF b

\* Tables that agree on the first partitions place the next one alike.
LEMMA SamePlace ==
  ASSUME NEW p, NEW q, NEW m \in Slots, \A k \in Slots : k < m => p[k] = q[k]
  PROVE  SizeBefore(p)[m] = SizeBefore(q)[m]
<1> DEFINE f == SizeBefore(p)
           g == SizeBefore(q)
           Bad == {n \in 0 .. m : f[n] # g[n]}
<1>1. f[0] = 0 /\ \A n \in Slots : f[n + 1] = f[n] + p[n].size
  BY SizeBeforeStep
<1>2. g[0] = 0 /\ \A n \in Slots : g[n + 1] = g[n] + q[n].size
  BY SizeBeforeStep
<1> HIDE DEF f, g
<1>3. m \in Nat /\ m < MaxBlocks
  BY SizesAssumption DEF Slots
<1>4. ASSUME Bad # {} PROVE FALSE
  <2>1. Bad \in SUBSET Nat
    OBVIOUS
  <2>2. PICK n \in Bad : \A y \in Bad : n <= y
    BY <1>4, <2>1, LeastNat
  <2>3. n \in 0 .. m /\ f[n] # g[n] /\ n # 0
    BY <1>1, <1>2, <2>2
  <2> DEFINE k == n - 1
  <2>4. k \in 0 .. m /\ k \in Slots /\ k < m /\ k + 1 = n /\ ~(n <= k)
    BY <1>3, <2>3, SizesAssumption DEF Slots
  <2> HIDE DEF k
  <2>5. f[k] = g[k] /\ p[k] = q[k]
    BY <2>2, <2>4
  <2>6. f[k + 1] = f[k] + p[k].size /\ g[k + 1] = g[k] + q[k].size
    BY <1>1, <1>2, <2>4
  <2> QED
    BY <2>3, <2>4, <2>5, <2>6
<1>5. m \in 0 .. m
  BY <1>3
<1> QED
  BY <1>4, <1>5 DEF f, g

\* map_old_new_mtd is right where the kernel's partitions lie one behind the other.
LEMMA MappedPlace ==
  ASSUME InOrder, NEW part, \A m \in Slots : part[m] \in {Table[m], NoPart},
         NEW off, MapOldNew(part, off).dev \in MtdNums
  PROVE  MapOldNew(part, off).off
           = off - Device[MapOldNew(part, off).dev].base
<1> DEFINE t == MapOldNew(part, off)
           m == t.dev
<1>1. m \in Slots /\ m \in Nat /\ m # NoMtd /\ Device[m].base = SizeBefore(Table)[m]
  BY DeviceTypes, SizesAssumption DEF Slots, InOrder
<1>2. t.off = off - CurOff(part, m)
  BY <1>1, MappedOffset
<1>3. Reaches(part, m, off)
  BY <1>1 DEF MapOldNew
<1> HIDE DEF t, m
<1>4. ASSUME NEW k \in Slots, k < m PROVE part[k] = Table[k]
  <2>1. k \in 0 .. m
    BY <1>1, <1>4, SizesAssumption DEF Slots
  <2>2. part[k].size # 0
    BY <1>3, <2>1 DEF Reaches
  <2>3. NoPart.size = 0
    BY DEF NoPart
  <2> QED
    BY <1>4, <2>2, <2>3
<1>5. SizeBefore(part)[m] = SizeBefore(Table)[m]
  BY <1>1, <1>4, SamePlace
<1> QED
  BY <1>1, <1>2, <1>5 DEF CurOff, t, m
=============================================================================
