---------------------------- MODULE RestoreProofs ----------------------------
(***************************************************************************)
(* Proofs about restore_backup with do_flash in it, for every chip, every  *)
(* partition table and every backup that Restore admits and in which UBI   *)
(* holds no partition: of one it does, yaml_parseblock makes an array that *)
(* do_flash's guarantees are not meant for.                                *)
(***************************************************************************)
EXTENDS Restore, FlasherProofs

NoUbi == \A im \in Images : \A n \in 1 .. Len(im.parts) : ~im.parts[n].ubi

\* The whole environment lies in the erase block it starts in.
OneBlockEnv == \A u, w \in EnvUnits : w < u + EraseSize

-----------------------------------------------------------------------------
(* yaml_parseblock.  That there is a function as Parsed says is proved as it *)
(* is for SizeBefore.                                                        *)

Nothing == [mi |-> [e \in Slots |-> NoEntry], i |-> -1, offset |-> 0]

ParsesTo(im, n, g) ==
  g = [k \in 0 .. n |-> IF k = 0 THEN Nothing ELSE ParseItem(g[k - 1], im.parts[k])]

LEMMA ParsesNext ==
  ASSUME NEW im, NEW n \in Nat, NEW g, ParsesTo(im, n, g)
  PROVE  \E h : ParsesTo(im, n + 1, h)
<1> DEFINE h == [k \in 0 .. n + 1 |-> IF k = n + 1 THEN ParseItem(g[n], im.parts[n + 1])
                                      ELSE g[k]]
<1>1. \A k \in 0 .. n : g[k] = IF k = 0 THEN Nothing ELSE ParseItem(g[k - 1], im.parts[k])
  BY DEF ParsesTo
<1>2. ASSUME NEW k \in 0 .. n + 1
      PROVE  h[k] = IF k = 0 THEN Nothing ELSE ParseItem(h[k - 1], im.parts[k])
  <2>1. CASE k = n + 1
    <3>1. k # 0 /\ k - 1 = n /\ n \in 0 .. n + 1 /\ n # n + 1
      BY <2>1
    <3> QED
      BY <2>1, <3>1
  <2>2. CASE k # n + 1
    <3>1. k \in 0 .. n /\ h[k] = g[k]
      BY <2>2
    <3>2. k # 0 => k - 1 \in 0 .. n + 1 /\ k - 1 # n + 1
      BY <3>1
    <3> QED
      BY <1>1, <3>1, <3>2
  <2> QED
    BY <2>1, <2>2
<1>3. h = [k \in 0 .. n + 1 |-> h[k]]
  OBVIOUS
<1> HIDE DEF h
<1>4. ParsesTo(im, n + 1, h)
  BY <1>2, <1>3 DEF ParsesTo
<1> QED
  BY <1>4

LEMMA ParsesExist ==
  ASSUME NEW im, NEW n \in Nat
  PROVE  \E g : ParsesTo(im, n, g)
<1> DEFINE Bad == {m \in Nat : ~\E g : ParsesTo(im, m, g)}
<1> SUFFICES ASSUME Bad # {} PROVE FALSE
  OBVIOUS
<1> HIDE DEF Bad
<1>1. Bad \in SUBSET Nat
  BY DEF Bad
<1>2. PICK m \in Bad : \A y \in Bad : m <= y
  BY <1>1, LeastNat
<1>3. m \in Nat /\ ~\E g : ParsesTo(im, m, g)
  BY <1>2 DEF Bad
<1>4. m # 0
  <2>1. ParsesTo(im, 0, [k \in 0 .. 0 |-> Nothing])
    BY DEF ParsesTo
  <2> QED
    BY <1>3, <2>1
<1>5. m - 1 \in Nat /\ m - 1 \notin Bad
  BY <1>2, <1>3, <1>4
<1>6. PICK g : ParsesTo(im, m - 1, g)
  BY <1>5 DEF Bad
<1> DEFINE n1 == m - 1
<1>7. n1 \in Nat /\ ParsesTo(im, n1, g) /\ n1 + 1 = m
  BY <1>3, <1>5, <1>6
<1> HIDE DEF n1
<1>8. \E h : ParsesTo(im, n1 + 1, h)
  BY <1>7, ParsesNext
<1> QED
  BY <1>3, <1>7, <1>8

LEMMA ParsedParses ==
  ASSUME NEW im, NEW len \in Nat, Len(im.parts) = len
  PROVE  ParsesTo(im, len, Parsed(im))
<1>1. \E g : ParsesTo(im, len, g)
  BY ParsesExist
<1>2. Parsed(im) = CHOOSE g : ParsesTo(im, len, g)
  BY Zenon DEF Parsed, ParsesTo, Nothing
<1> QED
  BY <1>1, <1>2, Zenon

\* Before the first item, and at the next one.
LEMMA ParsedStep ==
  ASSUME NEW im, NEW len \in Nat, Len(im.parts) = len
  PROVE  /\ Parsed(im)[0] = Nothing
         /\ \A n \in 0 .. len - 1 : Parsed(im)[n + 1] = ParseItem(Parsed(im)[n], im.parts[n + 1])
<1> DEFINE g == Parsed(im)
<1>1. ParsesTo(im, len, g)
  BY ParsedParses, Zenon
<1> HIDE DEF g
<1>2. \A k \in 0 .. len : g[k] = IF k = 0 THEN Nothing ELSE ParseItem(g[k - 1], im.parts[k])
  BY <1>1 DEF ParsesTo
<1>3. g[0] = Nothing
  BY <1>2
<1>4. ASSUME NEW n \in 0 .. len - 1 PROVE g[n + 1] = ParseItem(g[n], im.parts[n + 1])
  <2>1. n + 1 \in 0 .. len /\ n + 1 # 0 /\ (n + 1) - 1 = n
    OBVIOUS
  <2> QED
    BY <1>2, <2>1
<1> QED
  BY <1>3, <1>4 DEF g

-----------------------------------------------------------------------------
(* What it makes of a backup without UBI. *)

\* The description of an image is short and well formed.
LEMMA ImageShape ==
  ASSUME NEW im \in Images
  PROVE  \E len \in 0 .. MaxBlocks :
           /\ Len(im.parts) = len /\ DOMAIN im.parts = 1 .. len
           /\ \A n \in 1 .. len : DescriptionOK(im.parts[n])
  BY ImagesAssumption, Zenon DEF ImageOK

Off(im, n) == Parsed(im)[n].offset

Entry(im, e) ==
  [name |-> im.parts[e + 1].name, off |-> Off(im, e), size |-> im.parts[e + 1].size,
   data |-> <<>>, is_ubi |-> FALSE, vol_id |-> 0, vol_name |-> Unnamed,
   sha1 |-> im.parts[e + 1].sha1]

\* The first n items have become the first n entries.
Described(im, n) ==
  /\ Parsed(im)[n].i = n - 1
  /\ Off(im, n) \in Nat
  /\ Parsed(im)[n].mi = [e \in Slots |-> IF e < n THEN Entry(im, e) ELSE NoEntry]

LEMMA ItemSize ==
  ASSUME NEW item, DescriptionOK(item)
  PROVE  item.size \in Nat /\ \E n \in Nat : item.size = n * EraseSize
<1>1. PICK n \in 0 .. FlashSize : item.size = n * EraseSize
  BY DEF DescriptionOK
<1>2. n \in Nat /\ n * EraseSize \in Nat
  BY SizesAssumption
<1> QED
  BY <1>1, <1>2

\* Entries whose fields are in S.
Records(S) ==
  [name : S, off : S, size : S, data : S, is_ubi : S, vol_id : S, vol_name : S, sha1 : S]

LEMMA SameRecord ==
  ASSUME NEW S, NEW q \in Records(S), NEW r \in Records(S),
         q.name = r.name, q.off = r.off, q.size = r.size, q.data = r.data,
         q.is_ubi = r.is_ubi, q.vol_id = r.vol_id, q.vol_name = r.vol_name, q.sha1 = r.sha1
  PROVE  q = r
  BY DEF Records

\* An item that UBI does not hold, stored where nothing was.
LEMMA ItemStored ==
  ASSUME NEW item, ~item.ubi, NEW off
  PROVE  [NoEntry EXCEPT !.name   = Overlay(item.name, NoEntry.name),
                         !.off    = off,
                         !.size   = item.size,
                         !.sha1   = IF item.sha1 = NoSha1 THEN NoEntry.sha1 ELSE item.sha1,
                         !.is_ubi = NoEntry.is_ubi \/ item.ubi]
         = [name |-> item.name, off |-> off, size |-> item.size, data |-> <<>>,
            is_ubi |-> FALSE, vol_id |-> 0, vol_name |-> Unnamed, sha1 |-> item.sha1]
<1>1. NoEntry.name = Unnamed /\ NoEntry.is_ubi = FALSE /\ NoEntry.sha1 = NoSha1
  BY DEF NoEntry, NoSha1
<1>2. Overlay(item.name, NoEntry.name) = item.name
  BY <1>1 DEF Overlay
<1>3. (IF item.sha1 = NoSha1 THEN NoEntry.sha1 ELSE item.sha1) = item.sha1
  BY <1>1
<1>4. (NoEntry.is_ubi \/ item.ubi) = FALSE
  BY <1>1
<1> DEFINE S == {item.name, off, item.size, item.sha1, FALSE, Unnamed, 0, <<>>}
           q == [NoEntry EXCEPT !.name = item.name, !.off = off, !.size = item.size,
                                !.sha1 = item.sha1, !.is_ubi = FALSE]
           w == [name |-> item.name, off |-> off, size |-> item.size, data |-> <<>>,
                 is_ubi |-> FALSE, vol_id |-> 0, vol_name |-> Unnamed, sha1 |-> item.sha1]
<1>5. NoEntry \in Records(S)
  BY DEF NoEntry, Records
<1>6. q \in Records(S)
  BY <1>5 DEF Records
<1>7. w \in Records(S)
  BY DEF Records
<1>8. /\ w.name = item.name /\ w.off = off /\ w.size = item.size /\ w.sha1 = item.sha1
      /\ w.is_ubi = FALSE /\ w.data = <<>> /\ w.vol_id = 0 /\ w.vol_name = Unnamed
  OBVIOUS
<1>9. /\ q.name = item.name /\ q.off = off /\ q.size = item.size /\ q.sha1 = item.sha1
      /\ q.is_ubi = FALSE /\ q.data = <<>> /\ q.vol_id = 0 /\ q.vol_name = Unnamed
  BY DEF NoEntry
<1> HIDE DEF q, w, S
<1>10. q = w
  BY <1>6, <1>7, <1>8, <1>9, SameRecord
<1> QED
  BY <1>2, <1>3, <1>4, <1>10, Zenon DEF q, w

LEMMA DescribedNext ==
  ASSUME NEW im, NEW n \in Slots, Described(im, n),
         Parsed(im)[n + 1] = ParseItem(Parsed(im)[n], im.parts[n + 1]),
         DescriptionOK(im.parts[n + 1]), ~im.parts[n + 1].ubi
  PROVE  Described(im, n + 1) /\ Off(im, n + 1) = Off(im, n) + im.parts[n + 1].size
<1> DEFINE item == im.parts[n + 1]
           s == Parsed(im)[n]
           r == Parsed(im)[n + 1]
           old == s.mi[n]
           new == [old EXCEPT !.name   = Overlay(item.name, old.name),
                              !.off    = s.offset,
                              !.size   = item.size,
                              !.sha1   = IF item.sha1 = NoSha1 THEN old.sha1 ELSE item.sha1,
                              !.is_ubi = old.is_ubi \/ item.ubi]
<1>1. n \in Nat /\ n \in Int /\ n < MaxBlocks
  BY SizesAssumption DEF Slots
<1>2. s.i = n - 1 /\ s.offset \in Nat
      /\ s.mi = [e \in Slots |-> IF e < n THEN Entry(im, e) ELSE NoEntry]
  BY DEF Described, Off
<1>3. s.i + 1 = n
  BY <1>1, <1>2
<1>4. item.size \in Nat /\ ~item.ubi
  BY ItemSize
<1>5. old = NoEntry
  BY <1>1, <1>2
<1>6. new = Entry(im, n)
  <2>1. new = [name |-> item.name, off |-> s.offset, size |-> item.size, data |-> <<>>,
               is_ubi |-> FALSE, vol_id |-> 0, vol_name |-> Unnamed, sha1 |-> item.sha1]
    BY <1>4, <1>5, ItemStored, Zenon
  <2> QED
    BY <2>1, Zenon DEF Entry, Off
<1>7. r = [mi |-> [s.mi EXCEPT ![n] = new], i |-> n, offset |-> s.offset + item.size]
  BY <1>3, <1>4 DEF ParseItem
<1>8. r.mi = [e \in Slots |-> IF e < n + 1 THEN Entry(im, e) ELSE NoEntry]
  <2>1. r.mi = [[e \in Slots |-> IF e < n THEN Entry(im, e) ELSE NoEntry] EXCEPT ![n] = Entry(im, n)]
    <3> HIDE DEF new, s
    <3>1. r.mi = [s.mi EXCEPT ![n] = new]
      BY <1>7
    <3> QED
      BY <1>2, <1>6, <3>1, Zenon
  <2>2. ASSUME NEW e \in Slots PROVE (e < n + 1) <=> (e < n \/ e = n)
    BY <1>1, SizesAssumption DEF Slots
  <2> HIDE DEF r
  <2> QED
    BY <2>1, <2>2
<1>9. r.i = (n + 1) - 1 /\ r.offset = s.offset + item.size
  BY <1>1, <1>7
<1>10. r.offset \in Nat
  BY <1>2, <1>4, <1>9
<1> QED
  BY <1>8, <1>9, <1>10 DEF Described, Off

\* Every description is read so, item by item.
LEMMA DescribedAll ==
  ASSUME NoUbi, NEW im \in Images, NEW len \in 0 .. MaxBlocks, Len(im.parts) = len,
         \A n \in 1 .. len : DescriptionOK(im.parts[n])
  PROVE  /\ Off(im, 0) = 0
         /\ \A n \in 0 .. len : Described(im, n)
         /\ \A n \in 0 .. len - 1 : Off(im, n + 1) = Off(im, n) + im.parts[n + 1].size
<1>1. len \in Nat /\ len <= MaxBlocks
  BY SizesAssumption
<1>2. Parsed(im)[0] = Nothing
  BY <1>1, ParsedStep
<1>3. \A n \in 0 .. len - 1 : Parsed(im)[n + 1] = ParseItem(Parsed(im)[n], im.parts[n + 1])
  BY <1>1, ParsedStep
<1>4. \A n \in 1 .. len : ~im.parts[n].ubi
  BY Zenon DEF NoUbi
<1>5. Off(im, 0) = 0 /\ Described(im, 0)
  BY <1>2 DEF Described, Off, Nothing, Slots
<1>6. ASSUME NEW n \in 0 .. len - 1, Described(im, n)
      PROVE  Described(im, n + 1) /\ Off(im, n + 1) = Off(im, n) + im.parts[n + 1].size
  <2>1. n \in Slots /\ n + 1 \in 1 .. len
    BY <1>1, SizesAssumption DEF Slots
  <2> QED
    BY <1>3, <1>4, <1>6, <2>1, DescribedNext
<1>7. ASSUME NEW n \in 0 .. len, ~Described(im, n) PROVE FALSE
  <2> DEFINE Bad == {m \in 0 .. len : ~Described(im, m)}
  <2>1. Bad \in SUBSET Nat /\ n \in Bad
    BY <1>7
  <2>2. PICK m \in Bad : \A y \in Bad : m <= y
    BY <2>1, LeastNat
  <2>3. m \in 0 .. len /\ ~Described(im, m) /\ m # 0
    BY <1>5, <2>2
  <2> DEFINE k == m - 1
  <2>4. k \in 0 .. len - 1 /\ k \in 0 .. len /\ k + 1 = m /\ ~(m <= k)
    BY <1>1, <2>3
  <2> HIDE DEF k
  <2>5. Described(im, k)
    BY <2>2, <2>4
  <2>6. Described(im, k + 1)
    BY <1>6, <2>4, <2>5
  <2> QED
    BY <2>3, <2>4, <2>6
<1>8. \A n \in 0 .. len - 1 : n \in 0 .. len
  BY <1>1
<1> QED
  BY <1>5, <1>6, <1>7, <1>8

\* A description of len items as it is read: one entry for each, one behind
\* the other.
Read(im, len) ==
  /\ Parse(im).i = len - 1
  /\ Parse(im).mi = [e \in Slots |-> IF e < len THEN Entry(im, e) ELSE NoEntry]
  /\ Off(im, 0) = 0
  /\ \A n \in 0 .. len : Off(im, n) \in Nat
  /\ \A n \in 0 .. len - 1 : /\ DescriptionOK(im.parts[n + 1])
                             /\ Off(im, n + 1) = Off(im, n) + im.parts[n + 1].size
  /\ StoredSize(Parse(im)) = Off(im, len)

\* restore_backup adds up the sizes to where the last entry ends.
LEMMA SizesAddUp ==
  ASSUME NEW im, NEW len \in 0 .. MaxBlocks, NEW mi,
         mi = [e \in Slots |-> IF e < len THEN Entry(im, e) ELSE NoEntry],
         Off(im, 0) = 0,
         \A n \in 0 .. len - 1 : Off(im, n + 1) = Off(im, n) + im.parts[n + 1].size
  PROVE  \A n \in 0 .. len : SizeBefore(mi)[n] = Off(im, n)
<1> DEFINE g == SizeBefore(mi)
           Bad == {n \in 0 .. len : g[n] # Off(im, n)}
<1> SUFFICES ASSUME Bad # {} PROVE FALSE
  OBVIOUS
<1>1. g[0] = 0 /\ \A n \in Slots : g[n + 1] = g[n] + mi[n].size
  BY SizeBeforeStep
<1> HIDE DEF g
<1>2. Bad \in SUBSET Nat
  OBVIOUS
<1>3. PICK m \in Bad : \A y \in Bad : m <= y
  BY <1>2, LeastNat
<1>4. m \in 0 .. len /\ g[m] # Off(im, m) /\ m # 0
  BY <1>1, <1>3
<1> DEFINE k == m - 1
<1>5. /\ k \in 0 .. len - 1 /\ k \in 0 .. len /\ k \in Slots /\ k + 1 = m /\ ~(m <= k) /\ k < len
  BY <1>4, SizesAssumption DEF Slots
<1> HIDE DEF k
<1>6. g[k] = Off(im, k)
  BY <1>3, <1>5
<1>7. mi[k].size = im.parts[k + 1].size
  BY <1>5 DEF Entry
<1>8. g[k + 1] = g[k] + mi[k].size
  BY <1>1, <1>5
<1>9. Off(im, k + 1) = Off(im, k) + im.parts[k + 1].size
  BY <1>5
<1>10. g[m] = Off(im, m)
  BY <1>5, <1>6, <1>7, <1>8, <1>9
<1> QED
  BY <1>4, <1>10

LEMMA ImageRead ==
  ASSUME NoUbi, NEW im \in Images
  PROVE  \E len \in 0 .. MaxBlocks : Len(im.parts) = len /\ Read(im, len)
<1>1. PICK len \in 0 .. MaxBlocks : /\ Len(im.parts) = len
                                    /\ \A n \in 1 .. len : DescriptionOK(im.parts[n])
  BY ImageShape
<1>2. /\ Off(im, 0) = 0
      /\ \A n \in 0 .. len : Described(im, n)
      /\ \A n \in 0 .. len - 1 : Off(im, n + 1) = Off(im, n) + im.parts[n + 1].size
  BY <1>1, DescribedAll
<1>3. len \in Nat /\ len \in 0 .. len
  BY SizesAssumption
<1>4. Parse(im) = Parsed(im)[len]
  BY <1>1, Zenon DEF Parse
<1>5. Parse(im).i = len - 1
      /\ Parse(im).mi = [e \in Slots |-> IF e < len THEN Entry(im, e) ELSE NoEntry]
  BY <1>2, <1>3, <1>4 DEF Described
<1>6. StoredSize(Parse(im)) = Off(im, len)
  <2> DEFINE p == Parse(im)
             mi == p.mi
  <2>1. p.i + 1 = len
    BY <1>3, <1>5
  <2>2. \A n \in 0 .. len : SizeBefore(mi)[n] = Off(im, n)
    <3> HIDE DEF p
    <3> QED
      BY <1>2, <1>5, SizesAddUp DEF p
  <2>3. StoredSize(p) = SizeBefore(mi)[len]
    BY <2>1 DEF StoredSize
  <2> QED
    BY <1>3, <2>2, <2>3
<1>7. \A n \in 0 .. len : Off(im, n) \in Nat
  BY <1>2 DEF Described
<1>8. \A n \in 0 .. len - 1 : DescriptionOK(im.parts[n + 1])
  BY <1>1, <1>3
<1> QED
  BY <1>1, <1>2, <1>5, <1>6, <1>7, <1>8 DEF Read

\* An entry lies before the next ones.
LEMMA OffsRise ==
  ASSUME NEW im, NEW len \in Nat, Read(im, len), NEW a \in 0 .. len, NEW b \in 0 .. len, a <= b
  PROVE  Off(im, a) <= Off(im, b)
<1> DEFINE Bad == {n \in 0 .. len : a <= n /\ ~(Off(im, a) <= Off(im, n))}
<1> SUFFICES ASSUME Bad # {} PROVE FALSE
  OBVIOUS
<1>1. /\ \A n \in 0 .. len : Off(im, n) \in Nat
      /\ \A n \in 0 .. len - 1 : /\ DescriptionOK(im.parts[n + 1])
                                 /\ Off(im, n + 1) = Off(im, n) + im.parts[n + 1].size
  BY DEF Read
<1>2. Bad \in SUBSET Nat
  OBVIOUS
<1>3. PICK m \in Bad : \A y \in Bad : m <= y
  BY <1>2, LeastNat
<1>4. m \in 0 .. len /\ a <= m /\ ~(Off(im, a) <= Off(im, m)) /\ m # a
  BY <1>1, <1>3
<1> DEFINE k == m - 1
<1>5. k \in 0 .. len - 1 /\ k \in 0 .. len /\ a <= k /\ k + 1 = m /\ ~(m <= k)
  BY <1>4
<1> HIDE DEF k
<1>6. Off(im, a) <= Off(im, k)
  BY <1>3, <1>5
<1>7. im.parts[k + 1].size \in Nat /\ Off(im, k + 1) = Off(im, k) + im.parts[k + 1].size
  BY <1>1, <1>5, ItemSize
<1>8. Off(im, a) \in Nat /\ Off(im, k) \in Nat
  BY <1>1, <1>5
<1> QED
  BY <1>4, <1>5, <1>6, <1>7, <1>8

-----------------------------------------------------------------------------
(* The arguments that restore_backup makes of a backup and a table. *)

\* Entry b has the fields of item d and the data of the block k behind it.
FromItem(b, d, k, off) ==
  /\ b.name = d.name /\ b.off = off /\ b.size = d.size
  /\ ~b.is_ubi /\ b.is_ubi \in BOOLEAN /\ b.vol_id = 0 /\ b.sha1 = d.sha1
  /\ b.data = k.data /\ k.len = d.size /\ AttachmentOK(k)
  /\ d.sha1 # NoSha1 => d.sha1 = b.data

\* The stored partitions of a backup whose blocks passed the checks.
StoredFrom(j, im, len) ==
  \A e \in Slots :
    IF e < len
    THEN FromItem(j.mtdbackup[e], im.parts[e + 1], im.blocks[e + 1], Off(im, e))
    ELSE j.mtdbackup[e] = NoEntry

LEMMA StoredSound ==
  ASSUME NEW im \in Images, NEW len \in 0 .. MaxBlocks, Read(im, len),
         BlocksOK(Parse(im), im), NEW j, j.mtdbackup = Stored(Parse(im), im)
  PROVE  StoredFrom(j, im, len)
<1> DEFINE p == Parse(im)
<1>1. p.i = len - 1 /\ p.mi = [e \in Slots |-> IF e < len THEN Entry(im, e) ELSE NoEntry]
  BY DEF Read
<1>2. /\ \A e \in 0 .. p.i : e < Len(im.blocks) /\ BlockOK(p.mi[e], im.blocks[e + 1])
      /\ j.mtdbackup = [e \in Slots |-> IF e <= p.i THEN [p.mi[e] EXCEPT !.data = im.blocks[e + 1].data]
                                        ELSE p.mi[e]]
  BY DEF BlocksOK, Stored
<1>3. PICK n \in Nat : n = Len(im.blocks) /\ \A x \in 1 .. n : AttachmentOK(im.blocks[x])
  BY ImagesAssumption, Zenon DEF ImageOK
<1> HIDE DEF p
<1>4. ASSUME NEW e \in Slots, e < len
      PROVE  FromItem(j.mtdbackup[e], im.parts[e + 1], im.blocks[e + 1], Off(im, e))
  <2> DEFINE k == im.blocks[e + 1]
             q == Entry(im, e)
             b == [q EXCEPT !.data = k.data]
  <2>1. e \in 0 .. p.i /\ e <= p.i /\ e \in Nat
    BY <1>1, <1>4, SizesAssumption DEF Slots
  <2>2. p.mi[e] = q
    BY <1>1, <1>4
  <2>3. e < n /\ BlockOK(q, k)
    BY <1>2, <1>3, <2>1, <2>2
  <2>4. AttachmentOK(k)
    BY <1>3, <2>1, <2>3
  <2>5. j.mtdbackup[e] = b
    BY <1>2, <2>1, <2>2
  <2>6. /\ b.name = im.parts[e + 1].name /\ b.off = Off(im, e) /\ b.size = im.parts[e + 1].size
        /\ ~b.is_ubi /\ b.is_ubi \in BOOLEAN /\ b.vol_id = 0 /\ b.sha1 = im.parts[e + 1].sha1
        /\ b.data = k.data /\ q.size = im.parts[e + 1].size /\ q.sha1 = im.parts[e + 1].sha1
    BY DEF Entry
  <2> HIDE DEF q, b
  <2> QED
    BY <2>3, <2>4, <2>5, <2>6 DEF BlockOK, FromItem
<1>5. ASSUME NEW e \in Slots, ~(e < len)
      PROVE  j.mtdbackup[e] = NoEntry
  <2>1. ~(e <= p.i)
    BY <1>1, <1>5, SizesAssumption DEF Slots
  <2> QED
    BY <1>1, <1>2, <1>5, <2>1
<1> QED
  BY <1>4, <1>5, Zenon DEF StoredFrom

\* The table cb_mtd_restore makes: what it records is the kernel's, and the
\* environment it finds is where it says.
EnvThere(ctx) ==
  /\ ctx.env_dev \in MtdNums /\ EnvUnits # {} /\ EnvUnits \subseteq Partition(ctx.env_dev)
  /\ ctx.env_offset = EnvOffset(ctx.env_dev)
  /\ \E n \in 0 .. FlashSize : ctx.env_offset = n * EraseSize

TableSound(ctx) ==
  /\ \A m \in Slots : ctx.part[m] \in {Table[m], NoPart}
  /\ ctx.totalsz \in Nat
  /\ ctx.env_dev \in MtdNums \cup {0, NoMtd}

LEMMA EnumSound ==
  ASSUME NEW o, NEW valid \in SUBSET MtdNums, NEW mapped \in SUBSET MtdNums,
         NEW r, r = EnumRestore(o.skip_env, valid, mapped, DetectEnv)
  PROVE  TableSound(r) /\ (o.skip_env /\ r.env_dev # NoMtd => EnvThere(r))
<1> DEFINE env_at == DetectEnv
           order == SelectSeq(EnumOrder(Device), LAMBDA m : m \in valid)
           calls == 1 .. Len(order)
           probes == {n \in calls : o.skip_env /\ order[n] < ENV_MTD_NUM}
           found == {n \in probes : order[n] \in mapped /\ env_at[order[n]] # -1}
           lost == {n \in probes : order[n] \notin mapped /\ \A f \in found : n < f}
           known == {m \in valid : \E n \in calls \ lost : order[n] = m}
           first == CHOOSE n \in found : \A f \in found : n <= f
           env_dev == order[first]
           part == [m \in Slots |-> IF m \in known
                                    THEN [name |-> Device[m].name, size |-> Device[m].size]
                                    ELSE NoPart]
<1> HIDE DEF env_at, order
<1>1. /\ r.part = part
      /\ r.totalsz = SizeBefore(part)[MaxBlocks]
      /\ r.env_dev = IF ~o.skip_env THEN 0 ELSE IF found = {} THEN NoMtd ELSE env_dev
      /\ r.env_offset = IF found = {} THEN 0 ELSE env_at[env_dev]
  BY DEF EnumRestore, order, env_at
<1>2. \A m \in Slots : part[m] \in {Table[m], NoPart}
  BY DEF Table
<1> HIDE DEF part
<1>3. r.totalsz \in Nat
  BY <1>1, <1>2, TableSize, SizeBeforeType, SizesAssumption
<1>4. ASSUME found # {} PROVE env_dev \in MtdNums /\ env_at[env_dev] # -1
  <2>1. found \in SUBSET Nat
    OBVIOUS
  <2> HIDE DEF found
  <2>2. \E x \in found : \A y \in found : x <= y
    BY <1>4, <2>1, LeastNat
  <2>3. first \in found
    BY <2>2
  <2> QED
    BY <2>3 DEF found
<1>5. \A m \in MtdNums : env_at[m] = IF HasEnv(m) THEN EnvOffset(m) ELSE -1
  BY DEF env_at, DetectEnv
<1>6. ASSUME o.skip_env, r.env_dev # NoMtd PROVE EnvThere(r)
  <2>1. found # {}
    BY <1>1, <1>6, Zenon
  <2> DEFINE m == env_dev
  <2>2. m \in MtdNums /\ env_at[m] # -1
    BY <1>4, <2>1
  <2>3. r.env_dev = m /\ r.env_offset = env_at[m]
    BY <1>1, <1>6, <2>1
  <2> HIDE DEF m, found
  <2>4. HasEnv(m) /\ r.env_offset = EnvOffset(m)
    BY <1>5, <2>2, <2>3
  <2> QED
    BY <2>2, <2>3, <2>4 DEF EnvThere, HasEnv
<1>7. r.env_dev \in MtdNums \cup {0, NoMtd}
  <2> HIDE DEF found
  <2> QED
    BY <1>1, <1>4
<1> QED
  BY <1>1, <1>2, <1>3, <1>6, <1>7 DEF TableSound

\* The environment starts with its first unit.
LEMMA EnvFirst ==
  ASSUME EnvUnits # {}, NEW m \in MtdNums
  PROVE  \E u \in EnvUnits : (\A w \in EnvUnits : u <= w) /\ EnvOffset(m) = u - Device[m].base
<1>1. EnvUnits \in SUBSET Nat
  BY RestoreAssumption, SizesAssumption DEF Units
<1>2. \E u \in EnvUnits : \A w \in EnvUnits : u <= w
  BY <1>1, LeastNat
<1> QED
  BY <1>2 DEF EnvOffset

\* An environment that starts at a multiple of the erase size leaves room for a
\* whole erase block.
LEMMA EnvRoom ==
  ASSUME NEW ctx, EnvThere(ctx)
  PROVE  ctx.env_offset + EraseSize <= Device[ctx.env_dev].size
<1> DEFINE m == ctx.env_dev
<1>1. m \in MtdNums /\ EnvUnits # {} /\ EnvUnits \subseteq Partition(m) /\ ctx.env_offset = EnvOffset(m)
  BY DEF EnvThere
<1>2. PICK n \in 0 .. FlashSize : ctx.env_offset = n * EraseSize
  BY DEF EnvThere
<1>3. PICK k \in 0 .. FlashSize : Device[m].size = k * EraseSize
  BY <1>1, LayoutAssumption DEF InOrder
<1> HIDE DEF m
<1>4. PICK u \in EnvUnits : ctx.env_offset = u - Device[m].base
  BY <1>1, EnvFirst
<1>5. Device[m].base \in Nat /\ Device[m].size \in Nat /\ EraseSize \in Nat /\ n \in Nat /\ k \in Nat
  BY <1>1, DeviceTypes, SizesAssumption
<1>6. u \in Int /\ u < Device[m].base + Device[m].size
  BY <1>1, <1>5 DEF Partition
<1>7. n * EraseSize < k * EraseSize
  BY <1>2, <1>3, <1>4, <1>5, <1>6
<1>8. n < k
  <2>1. CASE k < n
    <3>1. k * EraseSize + EraseSize <= n * EraseSize /\ k * EraseSize \in Nat /\ n * EraseSize \in Nat
      BY <1>5, <2>1, BlockSteps
    <3> QED
      BY <1>5, <1>7, <3>1
  <2>2. CASE k = n
    <3>1. n * EraseSize \in Nat
      BY <1>5
    <3> QED
      BY <1>7, <2>2, <3>1
  <2> QED
    BY <1>5, <2>1, <2>2
<1>9. n * EraseSize + EraseSize <= k * EraseSize
  BY <1>5, <1>8, BlockSteps
<1> QED
  BY <1>2, <1>3, <1>9 DEF m

JobFrom(j, ctx) ==
  j.part = ctx.part /\ j.env_dev = ctx.env_dev /\ j.env_offset = ctx.env_offset

\* A named entry of the array stands for an item of the description.
LEMMA EntryIs ==
  ASSUME NEW im, NEW len \in 0 .. MaxBlocks, NEW j, StoredFrom(j, im, len), NEW e \in Slots,
         e < len
  PROVE  FromItem(j.mtdbackup[e], im.parts[e + 1], im.blocks[e + 1], Off(im, e))
  BY DEF StoredFrom

LEMMA EntryNamed ==
  ASSUME NEW im, NEW len \in 0 .. MaxBlocks, NEW j, StoredFrom(j, im, len), NEW e \in Slots
  PROVE  /\ ~IsUbi(j, e)
         /\ ~(e < len) => j.mtdbackup[e] = NoEntry /\ ~IsRaw(j, e)
<1>1. ~(e < len) => j.mtdbackup[e] = NoEntry
  BY DEF StoredFrom
<1>2. NoEntry.name = Unnamed
  BY DEF NoEntry
<1>3. e < len => ~j.mtdbackup[e].is_ubi
  BY EntryIs DEF FromItem
<1> QED
  BY <1>1, <1>2, <1>3 DEF IsUbi, IsRaw

LEMMA EntryBlocks ==
  ASSUME NEW im, NEW len \in 0 .. MaxBlocks, Read(im, len),
         NEW j, StoredFrom(j, im, len), NEW e \in Slots, IsRaw(j, e)
  PROVE  /\ e \in 0 .. len - 1 /\ j.mtdbackup[e].off = Off(im, e) /\ Off(im, e) \in Nat
         /\ j.mtdbackup[e].size \in Nat /\ Cnt(j, e) \in Nat
         /\ Cnt(j, e) * EraseSize = j.mtdbackup[e].size
         /\ Off(im, e + 1) \in Nat
         /\ Off(im, e + 1) = Off(im, e) + j.mtdbackup[e].size
<1>1. e \in Nat
  BY SizesAssumption DEF Slots
<1>2. e < len
  BY EntryNamed, Zenon
<1>3. e \in 0 .. len - 1 /\ e \in 0 .. len /\ e + 1 \in 0 .. len
  BY <1>1, <1>2, SizesAssumption
<1>4. DescriptionOK(im.parts[e + 1]) /\ Off(im, e + 1) = Off(im, e) + im.parts[e + 1].size
      /\ Off(im, e) \in Nat /\ Off(im, e + 1) \in Nat
  BY <1>3 DEF Read
<1>5. j.mtdbackup[e].off = Off(im, e) /\ j.mtdbackup[e].size = im.parts[e + 1].size
  <2>1. FromItem(j.mtdbackup[e], im.parts[e + 1], im.blocks[e + 1], Off(im, e))
    BY <1>2, EntryIs, Zenon
  <2> QED
    BY <2>1 DEF FromItem
<1>6. PICK n \in Nat : im.parts[e + 1].size = n * EraseSize
  BY <1>4, ItemSize
<1>7. EraseSize \in Nat \ {0}
  BY SizesAssumption
<1>8. (n * EraseSize) \div EraseSize = n /\ n * EraseSize \in Nat
  BY <1>6, <1>7
<1>9. Cnt(j, e) = n
  BY <1>5, <1>6, <1>8 DEF Cnt
<1> QED
  BY <1>3, <1>4, <1>5, <1>6, <1>8, <1>9

LEMMA PlanBuilt ==
  ASSUME NEW im, NEW len \in 0 .. MaxBlocks, Read(im, len),
         NEW j, StoredFrom(j, im, len),
         NEW ctx, TableSound(ctx), JobFrom(j, ctx), j.skip_env \in BOOLEAN,
         j.skip_env /\ ctx.env_dev # NoMtd => EnvThere(ctx)
  PROVE  PlanOK(j) /\ PlanDisjoint(j)
<1>1. ASSUME NEW e \in Slots PROVE EntryOK(j.mtdbackup[e])
  <2>1. CASE e < len
    <3>1. FromItem(j.mtdbackup[e], im.parts[e + 1], im.blocks[e + 1], Off(im, e))
      BY <2>1, EntryIs, Zenon
    <3>2. e \in 0 .. len - 1 /\ e \in 0 .. len
      BY <2>1, SizesAssumption DEF Slots
    <3>3. Off(im, e) \in Nat /\ im.parts[e + 1].size \in Nat
      BY <3>2, ItemSize DEF Read
    <3>4. 0 \in VolIds
      BY RestoreAssumption, SizesAssumption DEF VolIds
    <3>5. \A x \in 0 .. im.parts[e + 1].size - 1 : im.blocks[e + 1].data[x] \in Data
      BY <3>1 DEF AttachmentOK, FromItem
    <3> QED
      <4> DEFINE b == j.mtdbackup[e]
      <4>1. /\ b.off \in Nat /\ b.size \in Nat /\ b.is_ubi \in BOOLEAN /\ b.vol_id \in VolIds
            /\ b.size = im.parts[e + 1].size /\ b.data = im.blocks[e + 1].data
        BY <3>1, <3>3, <3>4 DEF FromItem
      <4> HIDE DEF b
      <4>2. \A x \in 0 .. b.size - 1 : b.data[x] \in Data
        BY <3>5, <4>1
      <4>3. EntryOK(b)
        BY <4>1, <4>2 DEF EntryOK
      <4> QED
        BY <4>3 DEF b
  <2>2. CASE ~(e < len)
    <3>1. 0 \in VolIds
      BY RestoreAssumption, SizesAssumption DEF VolIds
    <3>2. j.mtdbackup[e] = NoEntry
      BY <2>2, EntryNamed, Zenon
    <3> QED
      <4> DEFINE b == j.mtdbackup[e]
      <4>1. b = NoEntry
        BY <3>2
      <4> HIDE DEF b
      <4>2. b.off = 0 /\ b.size = 0 /\ ~b.is_ubi /\ b.is_ubi \in BOOLEAN /\ b.vol_id = 0 /\ b.name = Unnamed
        BY <4>1 DEF NoEntry
      <4>3. EntryOK(b)
        <5>1. 0 \in Nat
          OBVIOUS
        <5>2. b.off \in Nat
          BY <4>2, <5>1, Zenon
        <5>3. b.size \in Nat
          BY <4>2, <5>1, Zenon
        <5>4. b.vol_id \in VolIds
          BY <3>1, <4>2, Zenon
        <5> QED
          BY <4>2, <5>2, <5>3, <5>4, Zenon DEF EntryOK
      <4> QED
        BY <4>3 DEF b
  <2> QED
    BY <2>1, <2>2
<1>2. \A m \in Slots : j.part[m].size \in Nat
  BY TableSize DEF TableSound, JobFrom
<1>3. ASSUME j.skip_env, j.env_dev \in MtdNums
      PROVE  /\ \E n \in 0 .. FlashSize : j.env_offset = n * EraseSize
             /\ j.env_offset + EraseSize <= Device[j.env_dev].size
  <2>1. ctx.env_dev = j.env_dev /\ ctx.env_offset = j.env_offset /\ j.env_dev # NoMtd
    BY <1>3, DeviceTypes DEF JobFrom
  <2>2. EnvThere(ctx)
    BY <1>3, <2>1
  <2> QED
    BY <2>1, <2>2, EnvRoom DEF EnvThere
<1>4. PlanOK(j)
  BY <1>1, <1>2, <1>3 DEF PlanOK
<1>5. ASSUME NEW e \in Slots, NEW f \in Slots,
             NEW k \in 0 .. Cnt(j, e) - 1, NEW l \in 0 .. Cnt(j, f) - 1,
             IsRaw(j, e), IsRaw(j, f), e < f \/ (e = f /\ k < l)
      PROVE  FindOff(j, e, k) + EraseSize <= FindOff(j, f, l)
  <2>1. /\ e \in 0 .. len - 1 /\ j.mtdbackup[e].off = Off(im, e) /\ Off(im, e) \in Nat
        /\ j.mtdbackup[e].size \in Nat /\ Cnt(j, e) \in Nat
        /\ Cnt(j, e) * EraseSize = j.mtdbackup[e].size
        /\ Off(im, e + 1) \in Nat /\ Off(im, e + 1) = Off(im, e) + j.mtdbackup[e].size
    BY <1>5, EntryBlocks
  <2>2. /\ f \in 0 .. len - 1 /\ j.mtdbackup[f].off = Off(im, f) /\ Off(im, f) \in Nat
        /\ Cnt(j, f) \in Nat
    BY <1>5, EntryBlocks
  <2>3. EraseSize \in Nat /\ k \in Nat /\ l \in Nat /\ k < Cnt(j, e)
    BY <2>1, <2>2, SizesAssumption
  <2>4. k * EraseSize \in Nat /\ l * EraseSize \in Nat
    BY <2>3
  <2>5. CASE e < f
    <3>1. k * EraseSize + EraseSize <= Cnt(j, e) * EraseSize
      BY <2>1, <2>3, BlockSteps
    <3>2. e + 1 \in 0 .. len /\ f \in 0 .. len /\ e + 1 <= f /\ len \in Nat
      BY <2>1, <2>2, <2>5, SizesAssumption
    <3>3. Off(im, e + 1) <= Off(im, f)
      BY <3>2, OffsRise
    <3> QED
      BY <2>1, <2>2, <2>3, <2>4, <3>1, <3>3 DEF FindOff
  <2>6. CASE e = f /\ k < l
    <3>1. k * EraseSize + EraseSize <= l * EraseSize
      BY <2>3, <2>6, BlockSteps
    <3> QED
      BY <2>1, <2>3, <2>4, <2>6, <3>1 DEF FindOff
  <2> QED
    BY <1>5, <2>5, <2>6
<1>6. ASSUME NEW e \in Slots, NEW f \in Slots,
             NEW k \in 0 .. Cnt(j, e) - 1, NEW l \in 0 .. Cnt(j, f) - 1,
             IsRaw(j, e), IsRaw(j, f), <<e, k>> # <<f, l>>
      PROVE  \/ FindOff(j, e, k) + EraseSize <= FindOff(j, f, l)
             \/ FindOff(j, f, l) + EraseSize <= FindOff(j, e, k)
  <2>1. e \in Int /\ f \in Int /\ k \in Int /\ l \in Int
    BY SizesAssumption DEF Slots
  <2>2. (e < f \/ (e = f /\ k < l)) \/ (f < e \/ (f = e /\ l < k))
    BY <1>6, <2>1
  <2> QED
    BY <1>5, <1>6, <2>2
<1>7. \A e \in Slots : ~IsUbi(j, e)
  BY EntryNamed, Zenon
<1>8. PlanDisjoint(j)
  BY <1>6, <1>7, Zenon DEF PlanDisjoint
<1> QED
  BY <1>4, <1>8

-----------------------------------------------------------------------------
(* What restore_backup has established by the time it is at a step. *)

\* do_flash runs in one step; before it its counters are as it starts with.
Flow ==
  /\ pc = "idle" => i = 0 /\ c = 0
  /\ step \in {"free", "enum", "load", "confirm", "check", "size"} => pc = "idle"
  /\ pc \in Labels => step = "flash"
  /\ step = "reboot" => pc = "true"

TableMade ==
  step \in {"load", "confirm", "check", "size", "flash", "reboot"} =>
    TableSound(mtd) /\ (opts.skip_env => EnvThere(mtd))

BackupLoaded ==
  step \in {"confirm", "check", "size", "flash", "reboot"} => image \in Images

BackupChecked ==
  step \in {"size", "flash", "reboot"} =>
    /\ BlocksOK(Parse(image), image)
    /\ job.mtdbackup = Stored(Parse(image), image)
    /\ JobFrom(job, mtd) /\ job.skip_env = opts.skip_env
    /\ tsize = StoredSize(Parse(image))

BlocksWritten == step \in {"flash", "reboot"} => Ctl /\ Passed

Restoring ==
  /\ TypeOK /\ FlashTypes /\ Flow
  /\ TableMade /\ BackupLoaded /\ BackupChecked /\ BlocksWritten

\* The stored partitions are then those of a backup, and do_flash may have them.
LEMMA PlanReady ==
  ASSUME NoUbi, Restoring, step \in {"size", "flash", "reboot"}
  PROVE  /\ \E len \in 0 .. MaxBlocks : /\ Len(image.parts) = len /\ Read(image, len)
                                        /\ StoredFrom(job, image, len)
         /\ FlashOK
<1>1. image \in Images
  BY DEF Restoring, BackupLoaded
<1>2. PICK len \in 0 .. MaxBlocks : Len(image.parts) = len /\ Read(image, len)
  BY <1>1, ImageRead
<1>3. /\ BlocksOK(Parse(image), image) /\ job.mtdbackup = Stored(Parse(image), image)
      /\ JobFrom(job, mtd) /\ job.skip_env = opts.skip_env
  BY DEF Restoring, BackupChecked
<1>4. StoredFrom(job, image, len)
  BY <1>1, <1>2, <1>3, StoredSound
<1>5. TableSound(mtd) /\ (opts.skip_env => EnvThere(mtd))
  BY DEF Restoring, TableMade
<1>6. job.skip_env \in BOOLEAN
  BY <1>3 DEF Restoring, TypeOK
<1>7. PlanOK(job) /\ PlanDisjoint(job)
  BY <1>2, <1>3, <1>4, <1>5, <1>6, PlanBuilt
<1> QED
  BY <1>2, <1>4, <1>7 DEF FlashOK, Restoring

LEMMA RestoringInit == Init => Restoring
<1> SUFFICES ASSUME Init PROVE Restoring
  OBVIOUS
<1>1. FlashTypes
  <2>1. flash \in [Units -> Content]
    BY RestoreAssumption DEF Init, Content
  <2>2. vols \in [MtdNums \X VolIds -> VolState]
    BY DEF Init, VolState
  <2>3. i \in 0 .. MaxBlocks /\ c \in Nat
    BY SizesAssumption DEF Init
  <2> QED
    BY <2>1, <2>2, <2>3 DEF FlashTypes
<1>2. TypeOK
  <2>1. mtd.env_dev = 0 /\ mtd.totalsz = 0
    BY DEF Init, NoCtx
  <2> QED
    BY <1>1, <2>1, RestoreAssumption DEF Init, TypeOK, FlashTypes
<1>3. Flow /\ TableMade /\ BackupLoaded /\ BackupChecked /\ BlocksWritten
  BY DEF Init, Flow, TableMade, BackupLoaded, BackupChecked, BlocksWritten, Labels
<1> QED
  BY <1>1, <1>2, <1>3 DEF Restoring

\* The steps before there is a job.
LEMMA PreparingStep ==
  ASSUME NoUbi, Restoring, FreeResources \/ EnumMtd \/ LoadBackup \/ Confirm
  PROVE  Restoring'
<1>1. UNCHANGED flashVars /\ tsize' = tsize /\ runs' = runs /\ opts' = opts
  BY DEF FreeResources, EnumMtd, LoadBackup, Confirm
<1>2. flash' = flash /\ vols' = vols /\ job' = job /\ pc' = pc /\ i' = i /\ c' = c
  BY <1>1 DEF flashVars
<1>3. step' \in {"enum", "load", "confirm", "check", "exit"} /\ step \in {"free", "enum", "load", "confirm"}
  <2>1. CASE FreeResources
    BY <2>1 DEF FreeResources
  <2>2. CASE EnumMtd
    BY <2>2 DEF EnumMtd
  <2>3. CASE LoadBackup
    BY <2>3 DEF LoadBackup
  <2>4. CASE Confirm
    BY <2>4 DEF Confirm
  <2> QED
    BY <2>1, <2>2, <2>3, <2>4
<1>4. pc = "idle"
  BY <1>3 DEF Restoring, Flow
<1>5. Flow'
  BY <1>2, <1>3, <1>4 DEF Restoring, Flow, Labels
<1>6. step' \in {"load", "confirm", "check"} =>
        TableSound(mtd') /\ (opts.skip_env => EnvThere(mtd'))
  <2>1. CASE FreeResources
    BY <2>1 DEF FreeResources
  <2>2. CASE EnumMtd
    <3>1. PICK valid \in SUBSET MtdNums, mapped \in SUBSET (MtdNums \cap 0 .. ENV_MTD_NUM - 1) :
            mtd' = EnumRestore(opts.skip_env, valid, mapped, DetectEnv)
      BY <2>2 DEF EnumMtd
    <3>2. mapped \in SUBSET MtdNums
      OBVIOUS
    <3>3. TableSound(mtd') /\ (opts.skip_env /\ mtd'.env_dev # NoMtd => EnvThere(mtd'))
      BY <3>1, <3>2, EnumSound
    <3>4. step' = IF opts.skip_env /\ mtd'.env_dev = NoMtd THEN "exit" ELSE "load"
      BY <2>2 DEF EnumMtd
    <3> QED
      BY <3>3, <3>4
  <2>3. CASE LoadBackup
    BY <2>3 DEF LoadBackup, Restoring, TableMade
  <2>4. CASE Confirm
    BY <2>4 DEF Confirm, Restoring, TableMade
  <2> QED
    BY <2>1, <2>2, <2>3, <2>4
<1>7. TableMade'
  BY <1>1, <1>3, <1>6 DEF TableMade, EnvThere, TableSound
<1>8. BackupLoaded'
  <2>1. CASE FreeResources \/ EnumMtd
    BY <2>1 DEF FreeResources, EnumMtd, BackupLoaded
  <2>2. CASE LoadBackup
    BY <2>2 DEF LoadBackup, BackupLoaded
  <2>3. CASE Confirm
    BY <2>3 DEF Confirm, Restoring, BackupLoaded
  <2> QED
    BY <2>1, <2>2, <2>3
<1>9. BackupChecked' /\ BlocksWritten'
  BY <1>3 DEF BackupChecked, BlocksWritten
<1>10. FlashTypes'
  BY <1>1, SameFlash DEF Restoring
<1>11. mtd'.env_dev \in MtdNums \cup {0, NoMtd} /\ mtd'.totalsz \in Nat
  <2>1. CASE EnumMtd
    <3>1. PICK valid \in SUBSET MtdNums, mapped \in SUBSET (MtdNums \cap 0 .. ENV_MTD_NUM - 1) :
            mtd' = EnumRestore(opts.skip_env, valid, mapped, DetectEnv)
      BY <2>1 DEF EnumMtd
    <3>2. mapped \in SUBSET MtdNums
      OBVIOUS
    <3>3. TableSound(mtd')
      BY <3>1, <3>2, EnumSound
    <3> QED
      BY <3>3 DEF TableSound
  <2>2. CASE FreeResources \/ LoadBackup \/ Confirm
    <3>1. mtd' = mtd
      BY <2>2 DEF FreeResources, LoadBackup, Confirm
    <3> QED
      BY <3>1 DEF Restoring, TypeOK
  <2> QED
    BY <2>1, <2>2
<1>12. TypeOK'
  BY <1>1, <1>2, <1>3, <1>11 DEF Restoring, TypeOK
<1> QED
  BY <1>5, <1>7, <1>8, <1>9, <1>10, <1>12 DEF Restoring

LEMMA CheckBlocksStep ==
  ASSUME NoUbi, Restoring, CheckBlocks
  PROVE  Restoring'
<1>1. /\ step = "check" /\ flash' = flash /\ vols' = vols /\ pc' = pc /\ i' = i /\ c' = c
      /\ opts' = opts /\ mtd' = mtd /\ image' = image /\ runs' = runs
  BY DEF CheckBlocks
<1>2. pc = "idle" /\ image \in Images /\ TableSound(mtd) /\ (opts.skip_env => EnvThere(mtd))
  BY <1>1 DEF Restoring, Flow, BackupLoaded, TableMade
<1>3. PICK len \in 0 .. MaxBlocks : Len(image.parts) = len /\ Read(image, len)
  BY <1>2, ImageRead
<1>4. StoredSize(Parse(image)) \in Nat
  <2>1. len \in 0 .. len
    BY SizesAssumption
  <2> QED
    BY <1>3, <2>1 DEF Read
<1>5. FlashTypes'
  BY <1>1 DEF Restoring, FlashTypes
<1>6. CASE BlocksOK(Parse(image), image) /\ step' = "size"
           /\ job' = [mtdbackup |-> Stored(Parse(image), image), part |-> mtd.part,
                      skip_env |-> opts.skip_env, env_dev |-> mtd.env_dev,
                      env_offset |-> mtd.env_offset]
           /\ tsize' = StoredSize(Parse(image))
  <2>1. job'.mtdbackup = Stored(Parse(image), image) /\ JobFrom(job', mtd)
        /\ job'.skip_env = opts.skip_env
    BY <1>6 DEF JobFrom
  <2>2. BackupChecked'
    BY <1>1, <1>6, <2>1 DEF BackupChecked
  <2>3. Flow'
    BY <1>1, <1>2, <1>6 DEF Restoring, Flow, Labels
  <2>4. TableMade' /\ BackupLoaded' /\ BlocksWritten'
    BY <1>1, <1>2, <1>6 DEF TableMade, BackupLoaded, BlocksWritten, EnvThere, TableSound
  <2>5. TypeOK'
    BY <1>1, <1>4, <1>6 DEF Restoring, TypeOK
  <2> QED
    BY <1>5, <2>2, <2>3, <2>4, <2>5 DEF Restoring
<1>7. CASE step' = "exit" /\ job' = job /\ tsize' = tsize
  <2>1. Flow' /\ TableMade' /\ BackupLoaded' /\ BackupChecked' /\ BlocksWritten'
    BY <1>1, <1>2, <1>7
    DEF Restoring, Flow, Labels, TableMade, BackupLoaded, BackupChecked, BlocksWritten
  <2>2. TypeOK'
    BY <1>1, <1>7 DEF Restoring, TypeOK
  <2> QED
    BY <1>5, <2>1, <2>2 DEF Restoring
<1> QED
  BY <1>6, <1>7 DEF CheckBlocks

\* The steps around do_flash: only the step and do_flash's label may change.
LEMMA AroundStep ==
  ASSUME NoUbi, Restoring, CheckSize \/ CallDoFlash \/ Reboot \/ Abort
  PROVE  Restoring'
<1>1. /\ flash' = flash /\ vols' = vols /\ job' = job /\ i' = i /\ c' = c
      /\ opts' = opts /\ mtd' = mtd /\ image' = image /\ tsize' = tsize /\ runs' = runs
      /\ step \in {"size", "flash"} /\ step' \in {"flash", "reboot", "exit"}
  BY DEF CheckSize, CallDoFlash, Reboot, Abort, flashVars
<1>2. \/ pc' = pc /\ (step' = "flash" => pc = "idle") /\ (step' = "reboot" => pc = "true" /\ step = "flash")
         /\ pc \in {"idle", "true", "false"}
      \/ pc = "idle" /\ pc' = "analyse" /\ step' = "flash"
  <2>1. CASE CheckSize
    BY <2>1 DEF CheckSize, Restoring, Flow, flashVars
  <2>2. CASE CallDoFlash
    BY <2>2 DEF CallDoFlash
  <2>3. CASE Reboot \/ Abort
    BY <2>3 DEF Reboot, Abort, flashVars
  <2> QED
    BY <2>1, <2>2, <2>3
<1>3. FlashTypes'
  BY <1>1 DEF Restoring, FlashTypes
<1>4. TypeOK'
  BY <1>1, <1>2 DEF Restoring, TypeOK, Labels
<1>5. Flow'
  BY <1>1, <1>2 DEF Restoring, Flow, Labels
<1>6. TableMade' /\ BackupLoaded' /\ BackupChecked'
  BY <1>1 DEF Restoring, TableMade, BackupLoaded, BackupChecked, TableSound, EnvThere, JobFrom
<1>7. BlocksWritten'
  <2>1. CASE step' = "flash"
    <3>1. i' = 0 /\ c' = 0 /\ pc' \in {"idle", "analyse"}
      BY <1>1, <1>2, <2>1 DEF Restoring, Flow
    <3> QED
      BY <1>1, <3>1, NothingPassed DEF BlocksWritten
  <2>2. CASE step' = "reboot"
    <3>1. UNCHANGED flashVars /\ step = "flash"
      BY <1>1, <1>2, <2>2 DEF flashVars
    <3> QED
      BY <3>1, SameFlash DEF Restoring, BlocksWritten
  <2>3. CASE step' = "exit"
    BY <2>3 DEF BlocksWritten
  <2> QED
    BY <1>1, <2>1, <2>2, <2>3
<1> QED
  BY <1>3, <1>4, <1>5, <1>6, <1>7 DEF Restoring

\* do_flash, and a loss of power in it.
LEMMA FlashingStep ==
  ASSUME NoUbi, Restoring, InDoFlash \/ PowerLoss
  PROVE  Restoring'
<1>1. /\ step = "flash" /\ step' \in {"flash", "exit"} /\ FlashNext /\ [FlashNext]_flashVars
      /\ opts' = opts /\ mtd' = mtd /\ image' = image /\ tsize' = tsize /\ runs' = runs
  BY DEF InDoFlash, PowerLoss, FlashNext, restoreVars
<1>2. FlashOK /\ Ctl /\ Passed
  BY <1>1, PlanReady DEF Restoring, BlocksWritten
<1>3. job' = job
  BY <1>1, JobKept
<1>4. FlashOK' /\ Ctl' /\ Passed'
  BY <1>1, <1>2, FlashOKStep, CtlStep, PassedStep
<1>5. FlashTypes'
  BY <1>4 DEF FlashOK
<1>6. /\ pc' \in Labels \cup {"true", "false", "dead"}
      /\ pc' \in Labels => step' = "flash"
  <2>1. CASE InDoFlash
    BY <2>1
    DEF InDoFlash, restoreVars, FlashStep, Goto, Fail, Analyse, NextEntry, NextChunk, Finish,
        EraseBlock, EraseFails, WriteBlock, WriteFails, VerifyBlock, VerifyFails,
        UbiOpen, UbiErase, UbiErased, UbiAttach, UbiMkVol, UbiVolUp, UbiWrite, UbiDone, Labels
  <2>2. CASE PowerLoss
    BY <2>2 DEF PowerLoss, Interrupt, Goto, Labels
  <2> QED
    BY <2>1, <2>2
<1>7. Flow'
  BY <1>1, <1>6 DEF Flow, Labels
<1>8. TypeOK'
  BY <1>1, <1>5, <1>6 DEF Restoring, TypeOK, FlashTypes
<1>9. TableMade' /\ BackupLoaded' /\ BackupChecked'
  BY <1>1, <1>3 DEF Restoring, TableMade, BackupLoaded, BackupChecked, TableSound, EnvThere, JobFrom
<1>10. BlocksWritten'
  BY <1>4 DEF BlocksWritten
<1> QED
  BY <1>5, <1>7, <1>8, <1>9, <1>10 DEF Restoring

LEMMA AgainStep ==
  ASSUME Restoring, Again
  PROVE  Restoring'
<1>1. /\ step' = "free" /\ pc' = "idle" /\ i' = 0 /\ c' = 0 /\ mtd' = NoCtx /\ tsize' = 0
      /\ opts' \in [skip_env : BOOLEAN, force : BOOLEAN]
      /\ runs < MaxRuns /\ runs' = runs + 1 /\ flash' = flash /\ vols' = vols
  BY DEF Again
<1>2. FlashTypes'
  BY <1>1, SizesAssumption DEF Restoring, FlashTypes
<1>3. mtd'.env_dev = 0 /\ mtd'.totalsz = 0
  BY <1>1 DEF NoCtx
<1>4. runs' \in 1 .. MaxRuns
  BY <1>1, RestoreAssumption DEF Restoring, TypeOK
<1>5. TypeOK'
  BY <1>1, <1>2, <1>3, <1>4 DEF TypeOK, FlashTypes
<1>6. Flow' /\ TableMade' /\ BackupLoaded' /\ BackupChecked' /\ BlocksWritten'
  BY <1>1 DEF Flow, Labels, TableMade, BackupLoaded, BackupChecked, BlocksWritten
<1> QED
  BY <1>2, <1>5, <1>6 DEF Restoring

LEMMA RestoringStep ==
  ASSUME NoUbi, Restoring, [Next]_vars
  PROVE  Restoring'
<1>1. CASE FreeResources \/ EnumMtd \/ LoadBackup \/ Confirm
  BY <1>1, PreparingStep
<1>2. CASE CheckBlocks
  BY <1>2, CheckBlocksStep
<1>3. CASE CheckSize \/ CallDoFlash \/ Reboot \/ Abort
  BY <1>3, AroundStep
<1>4. CASE InDoFlash \/ PowerLoss
  BY <1>4, FlashingStep
<1>5. CASE Again
  BY <1>5, AgainStep
<1>6. CASE UNCHANGED vars
  <2>1. /\ UNCHANGED flashVars /\ step' = step /\ opts' = opts /\ mtd' = mtd /\ image' = image
        /\ tsize' = tsize /\ runs' = runs /\ flash' = flash /\ pc' = pc /\ i' = i /\ c' = c
        /\ job' = job
    BY <1>6 DEF vars, flashVars, restoreVars
  <2>2. FlashTypes' /\ BlocksWritten'
    BY <2>1, SameFlash DEF Restoring, BlocksWritten
  <2>3. TypeOK' /\ Flow' /\ TableMade' /\ BackupLoaded' /\ BackupChecked'
    BY <2>1 DEF Restoring, TypeOK, Flow, TableMade, BackupLoaded, BackupChecked,
                TableSound, EnvThere, JobFrom
  <2> QED
    BY <2>2, <2>3 DEF Restoring
<1> QED
  BY <1>1, <1>2, <1>3, <1>4, <1>5, <1>6 DEF Next

\* restore_backup, for backups without UBI: its variables keep their types and it
\* hands do_flash only what do_flash's guarantees are for.
THEOREM RestoreIsSound == ASSUME NoUbi PROVE Spec => []Sound
<1>1. Init => Restoring
  BY RestoringInit
<1>2. Restoring /\ [Next]_vars => Restoring'
  BY RestoringStep
<1>3. Restoring => Sound
  <2> SUFFICES ASSUME Restoring PROVE Sound
    OBVIOUS
  <2>1. TypeOK
    BY DEF Restoring
  <2>2. ASSUME pc = "analyse" PROVE PlanOK(job) /\ PlanDisjoint(job)
    <3>1. step = "flash"
      BY <2>2 DEF Restoring, Flow, Labels
    <3> QED
      BY <3>1, PlanReady DEF FlashOK
  <2> QED
    BY <2>1, <2>2 DEF Sound, PlanSound
<1> QED
  BY <1>1, <1>2, <1>3, PTL DEF Spec

-----------------------------------------------------------------------------
(* What the chip is written with. *)

\* Only do_flash writes.
LEMMA WhoWrites ==
  ASSUME NoUbi, Restoring, [Next]_vars, flash' # flash
  PROVE  step = "flash" /\ FlashOK /\ Ctl /\ [FlashNext]_flashVars
<1>1. InDoFlash \/ PowerLoss
  BY DEF Next, FreeResources, EnumMtd, LoadBackup, Confirm, CheckBlocks, CheckSize, CallDoFlash,
         Reboot, Abort, Again, vars, flashVars
<1>2. step = "flash" /\ FlashNext
  BY <1>1 DEF InDoFlash, PowerLoss, FlashNext
<1>3. Ctl
  BY <1>2 DEF Restoring, BlocksWritten
<1> QED
  BY <1>2, <1>3, PlanReady

LEMMA EnvStep ==
  ASSUME NoUbi, OneBlockEnv, Restoring, [Next]_vars, opts.skip_env, NEW u \in EnvUnits
  PROVE  flash'[u] = flash[u]
<1> SUFFICES ASSUME flash' # flash PROVE flash'[u] = flash[u]
  OBVIOUS
<1>1. step = "flash" /\ FlashOK /\ Ctl /\ [FlashNext]_flashVars
  BY WhoWrites
<1>2. EnvThere(mtd) /\ job.skip_env /\ job.env_dev = mtd.env_dev /\ job.env_offset = mtd.env_offset
  BY <1>1 DEF Restoring, TableMade, BackupChecked, JobFrom
<1> DEFINE m == mtd.env_dev
<1>3. m \in MtdNums /\ mtd.env_offset = EnvOffset(m)
  BY <1>2 DEF EnvThere
<1> HIDE DEF m
<1>4. PICK w \in EnvUnits : (\A x \in EnvUnits : w <= x) /\ EnvOffset(m) = w - Device[m].base
  BY <1>3, EnvFirst
<1>5. u \in Units /\ w \in Units /\ w <= u /\ u < w + EraseSize
  BY <1>4, RestoreAssumption DEF OneBlockEnv
<1>6. Device[m].base \in Nat
  BY <1>3, DeviceTypes
<1>7. u \in Block(m, mtd.env_offset)
  BY <1>3, <1>4, <1>5, <1>6, SizesAssumption DEF Block, Units
<1> QED
  BY <1>1, <1>2, <1>3, <1>5, <1>7, EnvBlockStep DEF m

\* restore --skip-env leaves an environment of one erase block as it is.
THEOREM EnvIsKept == ASSUME NoUbi, OneBlockEnv PROVE Spec => EnvKept
<1>1. Init => Restoring
  BY RestoringInit
<1>2. Restoring /\ [Next]_vars => Restoring'
  BY RestoringStep
<1>3. Restoring /\ [Next]_vars => (opts.skip_env => \A u \in EnvUnits : flash'[u] = flash[u])
  BY EnvStep
<1> QED
  BY <1>1, <1>2, <1>3, PTL DEF Spec, EnvKept

\* What a description with a SHA1 lets through lay on the chip backed up.
LEMMA HashedData ==
  ASSUME NEW im \in Images, NEW len \in 0 .. MaxBlocks, Len(im.parts) = len, Read(im, len),
         NEW j, StoredFrom(j, im, len), NEW e \in Slots, IsRaw(j, e),
         j.mtdbackup[e].sha1 # NoSha1, NEW x \in 0 .. j.mtdbackup[e].size - 1
  PROVE  j.mtdbackup[e].data[x] \in Units
<1>1. PICK at \in [1 .. len -> 0 .. FlashSize] : LaidOut(im, at)
  BY ImagesAssumption, Zenon DEF ImageOK
<1>2. \A n \in 1 .. len : im.parts[n].sha1 # NoSha1 =>
        /\ im.parts[n].sha1 = [y \in 0 .. im.parts[n].size - 1 |-> at[n] + y]
        /\ at[n] + im.parts[n].size <= FlashSize
  BY <1>1, Zenon DEF LaidOut
<1>3. e \in 0 .. len - 1 /\ j.mtdbackup[e].size \in Nat
  BY EntryBlocks
<1> DEFINE n == e + 1
<1>4. n \in 1 .. len /\ e < len
  BY <1>3, SizesAssumption
<1>5. FromItem(j.mtdbackup[e], im.parts[n], im.blocks[n], Off(im, e))
  BY <1>4, EntryIs, Zenon
<1> HIDE DEF n
<1>6. /\ j.mtdbackup[e].size = im.parts[n].size /\ im.parts[n].sha1 # NoSha1
      /\ j.mtdbackup[e].data = im.parts[n].sha1
  BY <1>5 DEF FromItem
<1>7. at[n] \in Nat
  BY <1>4, SizesAssumption
<1> DEFINE a == at[n]
           s == j.mtdbackup[e].size
           d == j.mtdbackup[e].data
<1>8. d = [y \in 0 .. s - 1 |-> a + y] /\ a + s <= FlashSize
  BY <1>2, <1>4, <1>6
<1>9. a \in Nat /\ s \in Nat /\ x \in 0 .. s - 1
  BY <1>3, <1>7
<1> HIDE DEF a, s, d
<1>10. d[x] = a + x
  BY <1>8, <1>9
<1>11. a + x \in Units
  BY <1>8, <1>9, SizesAssumption DEF Units
<1> QED
  BY <1>10, <1>11 DEF d

\* A block whose SHA1 the description gives never reaches the chip with other contents.
THEOREM NoCorruptBlockIsWritten == ASSUME NoUbi PROVE Spec => NoCorruptBlock
<1> DEFINE Genuine(u) == flash'[u] # flash[u] => flash'[u] \in Units \cup {Erased, Torn, UbiHeader}
<1>1. Init => Restoring
  BY RestoringInit
<1>2. Restoring /\ [Next]_vars => Restoring'
  BY RestoringStep
<1>3. ASSUME Restoring, [Next]_vars, ~(i \in Slots /\ Unhashed(i)), NEW u \in Units
      PROVE  Genuine(u)
  <2> SUFFICES ASSUME flash'[u] # flash[u] PROVE flash'[u] \in Units \cup {Erased, Torn, UbiHeader}
    OBVIOUS
  <2>1. step = "flash" /\ FlashOK /\ Ctl /\ [FlashNext]_flashVars
    BY <1>3, WhoWrites
  <2>2. \/ flash'[u] \in {Erased, Torn, UbiHeader}
        \/ /\ i \in Slots /\ IsRaw(job, i)
           /\ \E x \in 0 .. job.mtdbackup[i].size - 1 : flash'[u] = job.mtdbackup[i].data[x]
    BY <2>1, WritesWhat
  <2>3. ASSUME i \in Slots, IsRaw(job, i), NEW x \in 0 .. job.mtdbackup[i].size - 1
        PROVE  job.mtdbackup[i].data[x] \in Units
    <3>1. PICK len \in 0 .. MaxBlocks : /\ Len(image.parts) = len /\ Read(image, len)
                                        /\ StoredFrom(job, image, len)
      BY <1>3, <2>1, PlanReady
    <3>2. job.mtdbackup[i].sha1 # NoSha1
      BY <1>3, <2>3 DEF Unhashed
    <3>3. image \in Images
      BY <1>3, <2>1 DEF Restoring, BackupLoaded
    <3> QED
      BY <2>3, <3>1, <3>2, <3>3, HashedData
  <2> QED
    BY <2>2, <2>3
<1>4. Restoring /\ [Next]_vars =>
        (step = "flash" /\ ~(i \in Slots /\ Unhashed(i)) =>
           \A u \in Units : flash'[u] # flash[u] =>
             flash'[u] \in Units \cup {Erased, Torn, UbiHeader})
  BY <1>3
<1> QED
  BY <1>1, <1>2, <1>4, PTL DEF Spec, NoCorruptBlock

-----------------------------------------------------------------------------
(* Every unit of the backup gets back to where it was. *)

\* The partitions lie one behind the other.
Chained(im, len, at) ==
  \A n \in 1 .. len : at[n] = IF n = 1 THEN 0 ELSE at[n - 1] + im.parts[n - 1].size

\* The partitions backed up lay where the offsets of the array say.
LEMMA PlacesAreOffs ==
  ASSUME NEW im, NEW len \in Nat, Read(im, len), NEW at, Chained(im, len, at),
         NEW e \in 0 .. len - 1
  PROVE  at[e + 1] = Off(im, e)
<1>1. \A n \in 1 .. len : at[n] = IF n = 1 THEN 0 ELSE at[n - 1] + im.parts[n - 1].size
  BY DEF Chained
<1> DEFINE Bad == {n \in 0 .. len - 1 : at[n + 1] # Off(im, n)}
<1> SUFFICES ASSUME Bad # {} PROVE FALSE
  OBVIOUS
<1>2. /\ Off(im, 0) = 0
      /\ \A n \in 0 .. len - 1 : Off(im, n + 1) = Off(im, n) + im.parts[n + 1].size
  BY DEF Read
<1>3. Bad \in SUBSET Nat
  OBVIOUS
<1>4. PICK m \in Bad : \A y \in Bad : m <= y
  BY <1>3, LeastNat
<1>5. m \in 0 .. len - 1 /\ at[m + 1] # Off(im, m)
  BY <1>4
<1>6. m # 0
  <2>1. CASE m = 0
    <3>1. 1 \in 1 .. len /\ m + 1 = 1
      BY <1>5, <2>1
    <3> QED
      BY <1>1, <1>2, <1>5, <2>1, <3>1
  <2> QED
    BY <2>1
<1> DEFINE k == m - 1
<1>7. /\ k \in 0 .. len - 1 /\ k + 1 = m /\ ~(m <= k) /\ m + 1 \in 1 .. len
      /\ m + 1 # 1 /\ (m + 1) - 1 = m
  BY <1>5, <1>6
<1> HIDE DEF k
<1>8. at[k + 1] = Off(im, k)
  BY <1>4, <1>7
<1>9. at[m + 1] = at[m] + im.parts[m].size
  BY <1>1, <1>7
<1>10. Off(im, m) = Off(im, k) + im.parts[m].size
  BY <1>2, <1>7
<1> QED
  BY <1>5, <1>7, <1>8, <1>9, <1>10

LEMMA PlacedData ==
  ASSUME NEW im \in Images, NEW len \in 0 .. MaxBlocks, Len(im.parts) = len, Read(im, len),
         StoredSize(Parse(im)) = FlashSize,
         NEW j, StoredFrom(j, im, len), NEW e \in Slots, IsRaw(j, e),
         j.mtdbackup[e].sha1 # NoSha1, NEW x \in 0 .. j.mtdbackup[e].size - 1
  PROVE  j.mtdbackup[e].data[x] = Off(im, e) + x
<1>1. PICK at \in [1 .. len -> 0 .. FlashSize] : LaidOut(im, at)
  BY ImagesAssumption, Zenon DEF ImageOK
<1>2. /\ \A n \in 1 .. len : im.parts[n].sha1 # NoSha1 =>
           im.parts[n].sha1 = [y \in 0 .. im.parts[n].size - 1 |-> at[n] + y]
      /\ Chained(im, len, at)
  BY <1>1, Zenon DEF LaidOut, Chained
<1>3. e \in 0 .. len - 1 /\ len \in Nat
  BY EntryBlocks, SizesAssumption
<1>4. at[e + 1] = Off(im, e)
  BY <1>2, <1>3, PlacesAreOffs
<1> DEFINE n == e + 1
<1>5. n \in 1 .. len /\ e < len
  BY <1>3
<1>6. FromItem(j.mtdbackup[e], im.parts[n], im.blocks[n], Off(im, e))
  BY <1>5, EntryIs, Zenon
<1> HIDE DEF n
<1>7. /\ j.mtdbackup[e].size = im.parts[n].size /\ im.parts[n].sha1 # NoSha1
      /\ j.mtdbackup[e].data = im.parts[n].sha1
  BY <1>6 DEF FromItem
<1> DEFINE a == at[n]
           s == j.mtdbackup[e].size
           d == j.mtdbackup[e].data
<1>8. d = [y \in 0 .. s - 1 |-> a + y]
  BY <1>2, <1>5, <1>7
<1>9. x \in 0 .. s - 1 /\ a = Off(im, e)
  BY <1>4 DEF n
<1> HIDE DEF a, s, d
<1>10. d[x] = Off(im, e) + x
  BY <1>8, <1>9
<1> QED
  BY <1>10 DEF d

\* The entry, and its erase block, that unit u belongs to.
LEMMA EntryOfUnit ==
  ASSUME NEW im, NEW len \in Nat, Read(im, len), NEW u \in Nat, u < Off(im, len)
  PROVE  \E e \in 0 .. len - 1 : Off(im, e) <= u /\ u < Off(im, e + 1)
<1> DEFINE S == {n \in 0 .. len : u < Off(im, n)}
<1>1. Off(im, 0) = 0 /\ \A n \in 0 .. len : Off(im, n) \in Nat
  BY DEF Read
<1>2. S \in SUBSET Nat /\ len \in S
  OBVIOUS
<1>3. PICK n \in S : \A y \in S : n <= y
  BY <1>2, LeastNat
<1>4. n \in 0 .. len /\ u < Off(im, n) /\ n # 0
  BY <1>1, <1>3
<1> DEFINE e == n - 1
<1>5. e \in 0 .. len - 1 /\ e \in 0 .. len /\ e + 1 = n /\ ~(n <= e)
  BY <1>4
<1> HIDE DEF e
<1>6. ~(u < Off(im, e))
  BY <1>3, <1>5
<1>7. Off(im, e) <= u
  BY <1>1, <1>5, <1>6
<1> QED
  BY <1>4, <1>5, <1>7

\* When do_flash has passed everything, each unit of a backed up chip was put back
\* unless it is the environment's, or nothing says what it was.
LEMMA UnitInPlace ==
  ASSUME NoUbi, Restoring, step = "reboot", tsize = FlashSize, NEW u \in Units
  PROVE  \/ flash[u] = u
         \/ opts.skip_env /\ u \in Block(mtd.env_dev, mtd.env_offset)
         \/ \E e \in Slots : Unhashed(e) /\ u \in Stretch(e) /\ flash[u] \notin {Erased, Torn}
<1>1. PICK len \in 0 .. MaxBlocks : /\ Len(image.parts) = len /\ Read(image, len)
                                    /\ StoredFrom(job, image, len)
  BY PlanReady
<1>2. FlashOK /\ PlanOK(job)
  BY PlanReady DEF FlashOK
<1>3. /\ image \in Images /\ TableSound(mtd) /\ (opts.skip_env => EnvThere(mtd))
      /\ JobFrom(job, mtd) /\ job.skip_env = opts.skip_env
      /\ tsize = StoredSize(Parse(image)) /\ Ctl /\ Passed /\ pc = "true"
  BY DEF Restoring, BackupLoaded, TableMade, BackupChecked, BlocksWritten, Flow
<1>4. i = MaxBlocks /\ len \in Nat /\ u \in Nat /\ u < FlashSize /\ MaxBlocks \in Nat
      /\ EraseSize \in Nat /\ len \in 0 .. len
  BY <1>3, SizesAssumption DEF Ctl, Units
<1>5. Off(image, len) = FlashSize /\ StoredSize(Parse(image)) = FlashSize
  BY <1>1, <1>3 DEF Read
<1>6. PICK e \in 0 .. len - 1 : Off(image, e) <= u /\ u < Off(image, e + 1)
  BY <1>1, <1>4, <1>5, EntryOfUnit
<1>7. e \in Slots /\ e < len /\ e < MaxBlocks /\ e \in Nat
  BY <1>4, <1>6, SizesAssumption DEF Slots
<1>8. IsRaw(job, e)
  <2>1. FromItem(job.mtdbackup[e], image.parts[e + 1], image.blocks[e + 1], Off(image, e))
    BY <1>1, <1>7, EntryIs, Zenon
  <2>2. DescriptionOK(image.parts[e + 1])
    BY <1>1, <1>6 DEF Read
  <2> QED
    BY <2>1, <2>2 DEF FromItem, DescriptionOK, IsRaw
<1> DEFINE off == Off(image, e)
           size == job.mtdbackup[e].size
           data == job.mtdbackup[e].data
           y == u - off
<1>9. /\ job.mtdbackup[e].off = off /\ off \in Nat /\ size \in Nat /\ Cnt(job, e) \in Nat
      /\ Cnt(job, e) * EraseSize = size /\ Off(image, e + 1) = off + size
  BY <1>1, <1>7, <1>8, EntryBlocks
<1>10. y \in 0 .. size - 1 /\ y \in Nat /\ off + y = u /\ y < Cnt(job, e) * EraseSize
  <2> HIDE DEF off, size
  <2> QED
    BY <1>4, <1>6, <1>9 DEF off
<1> HIDE DEF y
<1>11. PICK k \in 0 .. Cnt(job, e) - 1, x \in 0 .. EraseSize - 1 :
         k * EraseSize \in Nat /\ y = k * EraseSize + x
  BY <1>9, <1>10, BlockOfUnit
<1> DEFINE t == Target(job, e, k)
<1>12. Before(e, k, i, c)
  BY <1>4, <1>7 DEF Before
<1>13. Skipped(job, t) \/ (Erasable(t) /\ Holds(e, k))
  BY <1>3, <1>7, <1>8, <1>11, <1>12 DEF Passed
<1>14. t.dev \in MtdNums
  BY <1>3, <1>13 DEF Skipped, Erasable, EnvThere, JobFrom
<1> DEFINE z == off + k * EraseSize
<1>15. Device[t.dev].base \in Nat /\ t.off = z - Device[t.dev].base
  <2>1. \A m \in Slots : job.part[m] \in {Table[m], NoPart}
    BY <1>3 DEF TableSound, JobFrom
  <2>2. t = MapOldNew(job.part, z)
    BY <1>9 DEF Target, FindOff
  <2> HIDE DEF t, z
  <2>3. MapOldNew(job.part, z).dev \in MtdNums
    BY <1>14, <2>2
  <2> QED
    BY <1>14, <2>1, <2>2, <2>3, MappedPlace, LayoutAssumption, DeviceTypes
<1>16. z \in Nat /\ x \in Nat /\ z + x = u
  <2> DEFINE b == k * EraseSize
  <2>1. b \in Nat /\ y = b + x /\ x \in Nat /\ z = off + b
    BY <1>4, <1>11
  <2> HIDE DEF b, off, z
  <2> QED
    BY <1>4, <1>9, <1>10, <2>1
<1> HIDE DEF t, z
<1>17. Device[t.dev].base + t.off + x = u
  BY <1>4, <1>15, <1>16
<1>18. CASE Skipped(job, t)
  <2>1. opts.skip_env /\ t.dev = mtd.env_dev /\ t.off = mtd.env_offset
    BY <1>3, <1>18, Zenon DEF Skipped, JobFrom
  <2>2. t.off \in Int
    BY <1>15, <1>16
  <2>3. u \in Block(t.dev, t.off)
    BY <1>4, <1>15, <1>16, <1>17, <2>2 DEF Block
  <2> QED
    BY <2>1, <2>3
<1>19. CASE Holds(e, k) /\ job.mtdbackup[e].sha1 # NoSha1
  <2>1. flash[u] = data[y]
    BY <1>11, <1>17, <1>19 DEF Holds, t
  <2>2. data[y] = Off(image, e) + y
    <3>1. image \in Images /\ StoredSize(Parse(image)) = FlashSize /\ y \in 0 .. job.mtdbackup[e].size - 1
      BY <1>3, <1>5, <1>10
    <3> QED
      BY <1>1, <1>7, <1>8, <1>19, <3>1, PlacedData
  <2> QED
    BY <1>10, <2>1, <2>2
<1>20. CASE Holds(e, k) /\ job.mtdbackup[e].sha1 = NoSha1
  <2>1. flash[u] = data[k * EraseSize + x]
    BY <1>11, <1>17, <1>20 DEF Holds, t
  <2>2. k \in Nat /\ k < Cnt(job, e)
    BY <1>9, <1>11
  <2>3. data[k * EraseSize + x] \in Data
    BY <1>2, <1>7, <1>8, <1>11, <2>2, BlockData
  <2>4. flash[u] \notin {Erased, Torn}
    BY <2>1, <2>3, NoDamageInData
  <2>5. u \in Stretch(e)
    BY <1>4, <1>9, <1>10 DEF Stretch
  <2>6. Unhashed(e)
    BY <1>8, <1>20 DEF Unhashed
  <2> QED
    BY <1>7, <2>4, <2>5, <2>6
<1> QED
  BY <1>13, <1>18, <1>19, <1>20

\* When the camera reboots from a restore of a whole chip, every unit of the chip
\* holds what it held when the backup was made, whatever the partition table is now.
THEOREM RestoredIsInPlace == ASSUME NoUbi PROVE Spec => []RestoredInPlace
<1>1. Init => Restoring
  BY RestoringInit
<1>2. Restoring /\ [Next]_vars => Restoring'
  BY RestoringStep
<1>3. Restoring => RestoredInPlace
  BY UnitInPlace DEF RestoredInPlace
<1> QED
  BY <1>1, <1>2, <1>3, PTL DEF Spec
=============================================================================
