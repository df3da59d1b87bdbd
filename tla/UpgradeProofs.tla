---------------------------- MODULE UpgradeProofs ----------------------------
(***************************************************************************)
(* Proofs about do_upgrade with do_flash in it, for every camera and every *)
(* set of bundles made for it: what is installed is what boots, whatever   *)
(* earlier upgrades left behind and wherever they were interrupted.        *)
(***************************************************************************)
EXTENDS Upgrade, FlasherProofs, EnvDataProofs

\* Values are numbers, and each cell of each environment is a content of the flash.
Storable ==
  /\ Values = Seq(Nat)
  /\ \A env \in Envs : \A x \in 0 .. EraseSize - 1 : EnvCells(env)[x] \in Data

-----------------------------------------------------------------------------
(* The inductive invariant. *)

Laid(b, part, env) == LayOut(b, part, env)[Len(b.parts)]

PartialTable(part) == \A m \in Slots : part[m] \in {Table[m], NoPart}

\* An environment whose variables are each there once and are the delivered ones,
\* but for what upgrades set.
GoodEnv(env) ==
  /\ env \in Proper
  /\ \A n \in DOMAIN OldEnv :
       OldEnv[n][1] \notin SetVars => Lookup(env, OldEnv[n][1]) = OldEnv[n][2]

\* No cell of an environment is anywhere but where it belongs.
EnvsInPlace ==
  \A u \in Units : flash[u] \in Data /\ flash[u].kind = "env" =>
    /\ u \in EnvBlock /\ GoodEnv(flash[u].vars)
    /\ flash[u] = EnvCells(flash[u].vars)[u - EnvBase]

AtEnv(dev, off) == dev \in MtdNums /\ off = EnvBase - Device[dev].base

Flow ==
  /\ pc \in Labels => step = "flash"
  /\ step \in {"free", "enum", "load"} => pc = "idle" /\ i = 0 /\ c = 0

IsCtx(ctx) ==
  ctx = [part |-> ctx.part, totalsz |-> ctx.totalsz, erasesize |-> ctx.erasesize,
         env_dev |-> ctx.env_dev, env_offset |-> ctx.env_offset]

EnvFound ==
  step = "load" =>
    /\ IsCtx(mtd) /\ PartialTable(mtd.part) /\ GoodEnv(uenv)
    /\ AtEnv(mtd.env_dev, mtd.env_offset)

\* What do_flash was given is the layout of the bundle.
PlannedFrom(s) ==
  /\ s.root_part # -1 /\ s.kernel_part # -1
  /\ layout = [mtdparts |-> s.mtdparts, root_part |-> s.root_part, kernel_part |-> s.kernel_part]
  /\ job.mtdbackup = s.mtdwrite /\ job.part = mtd.part /\ job.skip_env = FALSE
  /\ IF s.env_at = -1 THEN AtEnv(mtd.env_dev, mtd.env_offset)
     ELSE /\ mtd.env_dev = MapOldNew(mtd.part, s.env_at).dev
          /\ mtd.env_offset = MapOldNew(mtd.part, s.env_at).off

Planned ==
  step = "flash" =>
    /\ bundle \in Bundles /\ Good(bundle)
    /\ PartialTable(mtd.part) /\ GoodEnv(uenv)
    /\ PlannedFrom(Laid(bundle, mtd.part, uenv))

BlocksWritten == step = "flash" => Ctl /\ Passed /\ AnalysisCovers

\* Neither image shares a unit with the environment.
ClearOfEnv(env) ==
  LET cmd  == Lookup(env, <<"bootcmd">>)
      args == Lookup(env, <<"bootargs">>)
  IN  /\ \A x \in DOMAIN Payload("kernel") : cmd[1] + x - 1 \notin EnvBlock
      /\ \A x \in DOMAIN Payload("rootfs") : Sums(Tail(args))[args[1]] + x - 1 \notin EnvBlock

Installed ==
  step \in {"rom_erase", "rom_write"} \/ (step = "reboot" /\ ~hurt) =>
    /\ AtEnv(mtd.env_dev, mtd.env_offset) /\ GoodEnv(uenv)
    /\ Boots(uenv) /\ ClearOfEnv(uenv)

EnvWritten ==
  step = "reboot" /\ ~hurt => \A u \in EnvBlock : flash[u] = EnvCells(uenv)[u - EnvBase]

Upgrading ==
  /\ TypeOK /\ FlashTypes /\ Flow
  /\ EnvsInPlace /\ EnvFound /\ Planned /\ BlocksWritten /\ Installed /\ EnvWritten

-----------------------------------------------------------------------------
(* The recursive functions: that there is a function as each definition says *)
(* is proved as it is for SizeBefore.                                        *)

AddsTo(sizes, n, g) ==
  g = [k \in 0 .. n |-> IF k = 0 THEN 0 ELSE g[k - 1] + sizes[k]]

LEMMA AddsNext ==
  ASSUME NEW sizes, NEW n \in Nat, NEW g, AddsTo(sizes, n, g)
  PROVE  \E h : AddsTo(sizes, n + 1, h)
<1> DEFINE h == [k \in 0 .. n + 1 |-> IF k = n + 1 THEN g[n] + sizes[n + 1]
                                      ELSE g[k]]
<1>1. \A k \in 0 .. n : g[k] = IF k = 0 THEN 0 ELSE g[k - 1] + sizes[k]
  BY DEF AddsTo
<1>2. ASSUME NEW k \in 0 .. n + 1
      PROVE  h[k] = IF k = 0 THEN 0 ELSE h[k - 1] + sizes[k]
  <2>1. CASE k = n + 1
    <3>1. k # 0 /\ k - 1 = n /\ n \in 0 .. n + 1 /\ n # n + 1
      BY <2>1
    <3> QED
      BY <2>1, <3>1
  <2>2. CASE k # n + 1
    <3>1. k \in 0 .. n /\ h[k] = g[k]
      BY <2>2
    <3>2. k # 0 => k - 1 \in 0 .. n + 1 /\ k - 1 # n + 1
      BY <3>1
    <3> QED
      BY <1>1, <3>1, <3>2
  <2> QED
    BY <2>1, <2>2
<1>3. h = [k \in 0 .. n + 1 |-> h[k]]
  OBVIOUS
<1> HIDE DEF h
<1>4. AddsTo(sizes, n + 1, h)
  BY <1>2, <1>3 DEF AddsTo
<1> QED
  BY <1>4

LEMMA AddsExist ==
  ASSUME NEW sizes, NEW n \in Nat
  PROVE  \E g : AddsTo(sizes, n, g)
<1> DEFINE Bad == {m \in Nat : ~\E g : AddsTo(sizes, m, g)}
<1> SUFFICES ASSUME Bad # {} PROVE FALSE
  OBVIOUS
<1> HIDE DEF Bad
<1>1. Bad \in SUBSET Nat
  BY DEF Bad
<1>2. PICK m \in Bad : \A y \in Bad : m <= y
  BY <1>1, LeastNat
<1>3. m \in Nat /\ ~\E g : AddsTo(sizes, m, g)
  BY <1>2 DEF Bad
<1>4. m # 0
  <2>1. AddsTo(sizes, 0, [k \in 0 .. 0 |-> 0])
    BY DEF AddsTo
  <2> QED
    BY <1>3, <2>1
<1>5. m - 1 \in Nat /\ m - 1 \notin Bad
  BY <1>2, <1>3, <1>4
<1>6. PICK g : AddsTo(sizes, m - 1, g)
  BY <1>5 DEF Bad
<1> DEFINE n1 == m - 1
<1>7. n1 \in Nat /\ AddsTo(sizes, n1, g) /\ n1 + 1 = m
  BY <1>3, <1>5, <1>6
<1> HIDE DEF n1
<1>8. \E h : AddsTo(sizes, n1 + 1, h)
  BY <1>7, AddsNext
<1> QED
  BY <1>3, <1>7, <1>8

LEMMA SumsStep ==
  ASSUME NEW sizes, NEW len \in Nat, Len(sizes) = len
  PROVE  /\ Sums(sizes)[0] = 0
         /\ \A n \in 0 .. len - 1 : Sums(sizes)[n + 1] = Sums(sizes)[n] + sizes[n + 1]
<1> DEFINE g == Sums(sizes)
<1>1. \E h : AddsTo(sizes, len, h)
  BY AddsExist
<1>2. g = CHOOSE h : AddsTo(sizes, len, h)
  BY Zenon DEF Sums, AddsTo, g
<1>3. AddsTo(sizes, len, g)
  BY <1>1, <1>2, Zenon
<1> HIDE DEF g
<1>4. \A k \in 0 .. len : g[k] = IF k = 0 THEN 0 ELSE g[k - 1] + sizes[k]
  BY <1>3 DEF AddsTo
<1>5. g[0] = 0
  BY <1>4
<1>6. ASSUME NEW n \in 0 .. len - 1 PROVE g[n + 1] = g[n] + sizes[n + 1]
  <2>1. n + 1 \in 0 .. len /\ n + 1 # 0 /\ (n + 1) - 1 = n
    OBVIOUS
  <2> QED
    BY <1>4, <2>1
<1> QED
  BY <1>5, <1>6 DEF g

SkipOne(part, past, name) ==
  IF SizeByName(part, name) = -1 THEN past
  ELSE [goff     |-> past.goff + SizeByName(part, name),
        mtdparts |-> Append(past.mtdparts, SizeByName(part, name))]

NothingSkipped(b) == [goff |-> 0, mtdparts |-> b.prefix]

SkipsTo(b, part, n, g) ==
  g = [k \in 0 .. n |-> IF k = 0 THEN NothingSkipped(b) ELSE SkipOne(part, g[k - 1], b.skip[k])]

LEMMA SkipsNext ==
  ASSUME NEW b, NEW part, NEW n \in Nat, NEW g, SkipsTo(b, part, n, g)
  PROVE  \E h : SkipsTo(b, part, n + 1, h)
<1> DEFINE h == [k \in 0 .. n + 1 |-> IF k = n + 1 THEN SkipOne(part, g[n], b.skip[n + 1])
                                      ELSE g[k]]
<1>1. \A k \in 0 .. n : g[k] = IF k = 0 THEN NothingSkipped(b) ELSE SkipOne(part, g[k - 1], b.skip[k])
  BY DEF SkipsTo
<1>2. ASSUME NEW k \in 0 .. n + 1
      PROVE  h[k] = IF k = 0 THEN NothingSkipped(b) ELSE SkipOne(part, h[k - 1], b.skip[k])
  <2>1. CASE k = n + 1
    <3>1. k # 0 /\ k - 1 = n /\ n \in 0 .. n + 1 /\ n # n + 1
      BY <2>1
    <3> QED
      BY <2>1, <3>1
  <2>2. CASE k # n + 1
    <3>1. k \in 0 .. n /\ h[k] = g[k]
      BY <2>2
    <3>2. k # 0 => k - 1 \in 0 .. n + 1 /\ k - 1 # n + 1
      BY <3>1
    <3> QED
      BY <1>1, <3>1, <3>2
  <2> QED
    BY <2>1, <2>2
<1>3. h = [k \in 0 .. n + 1 |-> h[k]]
  OBVIOUS
<1> HIDE DEF h
<1>4. SkipsTo(b, part, n + 1, h)
  BY <1>2, <1>3 DEF SkipsTo
<1> QED
  BY <1>4

LEMMA SkipsExist ==
  ASSUME NEW b, NEW part, NEW n \in Nat
  PROVE  \E g : SkipsTo(b, part, n, g)
<1> DEFINE Bad == {m \in Nat : ~\E g : SkipsTo(b, part, m, g)}
<1> SUFFICES ASSUME Bad # {} PROVE FALSE
  OBVIOUS
<1> HIDE DEF Bad
<1>1. Bad \in SUBSET Nat
  BY DEF Bad
<1>2. PICK m \in Bad : \A y \in Bad : m <= y
  BY <1>1, LeastNat
<1>3. m \in Nat /\ ~\E g : SkipsTo(b, part, m, g)
  BY <1>2 DEF Bad
<1>4. m # 0
  <2>1. SkipsTo(b, part, 0, [k \in 0 .. 0 |-> NothingSkipped(b)])
    BY DEF SkipsTo
  <2> QED
    BY <1>3, <2>1
<1>5. m - 1 \in Nat /\ m - 1 \notin Bad
  BY <1>2, <1>3, <1>4
<1>6. PICK g : SkipsTo(b, part, m - 1, g)
  BY <1>5 DEF Bad
<1> DEFINE n1 == m - 1
<1>7. n1 \in Nat /\ SkipsTo(b, part, n1, g) /\ n1 + 1 = m
  BY <1>3, <1>5, <1>6
<1> HIDE DEF n1
<1>8. \E h : SkipsTo(b, part, n1 + 1, h)
  BY <1>7, SkipsNext
<1> QED
  BY <1>3, <1>7, <1>8

LEMMA SkipStep ==
  ASSUME NEW b, NEW part, NEW len \in Nat, Len(b.skip) = len
  PROVE  /\ Skip(b, part)[0] = NothingSkipped(b)
         /\ \A n \in 0 .. len - 1 : Skip(b, part)[n + 1] = SkipOne(part, Skip(b, part)[n], b.skip[n + 1])
<1> DEFINE g == Skip(b, part)
<1>1. \E h : SkipsTo(b, part, len, h)
  BY SkipsExist
<1>2. g = CHOOSE h : SkipsTo(b, part, len, h)
  BY Zenon DEF Skip, SkipsTo, SkipOne, NothingSkipped, g
<1>3. SkipsTo(b, part, len, g)
  BY <1>1, <1>2, Zenon
<1> HIDE DEF g
<1>4. \A k \in 0 .. len : g[k] = IF k = 0 THEN NothingSkipped(b) ELSE SkipOne(part, g[k - 1], b.skip[k])
  BY <1>3 DEF SkipsTo
<1>5. g[0] = NothingSkipped(b)
  BY <1>4
<1>6. ASSUME NEW n \in 0 .. len - 1 PROVE g[n + 1] = SkipOne(part, g[n], b.skip[n + 1])
  <2>1. n + 1 \in 0 .. len /\ n + 1 # 0 /\ (n + 1) - 1 = n
    OBVIOUS
  <2> QED
    BY <1>4, <2>1
<1> QED
  BY <1>5, <1>6 DEF g

NothingLaid(b, part) ==
  [mtdwrite |-> [e \in Slots |-> NoEntry], mtdparts |-> Start(b, part).mtdparts,
   i |-> 0, goff |-> Start(b, part).goff, root_part |-> -1, kernel_part |-> -1, env_at |-> -1]

LaysTo(b, part, env, n, g) ==
  g = [k \in 0 .. n |-> IF k = 0 THEN NothingLaid(b, part) ELSE AddPart(g[k - 1], b.parts[k], env)]

LEMMA LaysNext ==
  ASSUME NEW b, NEW part, NEW env, NEW n \in Nat, NEW g, LaysTo(b, part, env, n, g)
  PROVE  \E h : LaysTo(b, part, env, n + 1, h)
<1> DEFINE h == [k \in 0 .. n + 1 |-> IF k = n + 1 THEN AddPart(g[n], b.parts[n + 1], env)
                                      ELSE g[k]]
<1>1. \A k \in 0 .. n : g[k] = IF k = 0 THEN NothingLaid(b, part) ELSE AddPart(g[k - 1], b.parts[k], env)
  BY DEF LaysTo
<1>2. ASSUME NEW k \in 0 .. n + 1
      PROVE  h[k] = IF k = 0 THEN NothingLaid(b, part) ELSE AddPart(h[k - 1], b.parts[k], env)
  <2>1. CASE k = n + 1
    <3>1. k # 0 /\ k - 1 = n /\ n \in 0 .. n + 1 /\ n # n + 1
      BY <2>1
    <3> QED
      BY <2>1, <3>1
  <2>2. CASE k # n + 1
    <3>1. k \in 0 .. n /\ h[k] = g[k]
      BY <2>2
    <3>2. k # 0 => k - 1 \in 0 .. n + 1 /\ k - 1 # n + 1
      BY <3>1
    <3> QED
      BY <1>1, <3>1, <3>2
  <2> QED
    BY <2>1, <2>2
<1>3. h = [k \in 0 .. n + 1 |-> h[k]]
  OBVIOUS
<1> HIDE DEF h
<1>4. LaysTo(b, part, env, n + 1, h)
  BY <1>2, <1>3 DEF LaysTo
<1> QED
  BY <1>4

LEMMA LaysExist ==
  ASSUME NEW b, NEW part, NEW env, NEW n \in Nat
  PROVE  \E g : LaysTo(b, part, env, n, g)
<1> DEFINE Bad == {m \in Nat : ~\E g : LaysTo(b, part, env, m, g)}
<1> SUFFICES ASSUME Bad # {} PROVE FALSE
  OBVIOUS
<1> HIDE DEF Bad
<1>1. Bad \in SUBSET Nat
  BY DEF Bad
<1>2. PICK m \in Bad : \A y \in Bad : m <= y
  BY <1>1, LeastNat
<1>3. m \in Nat /\ ~\E g : LaysTo(b, part, env, m, g)
  BY <1>2 DEF Bad
<1>4. m # 0
  <2>1. LaysTo(b, part, env, 0, [k \in 0 .. 0 |-> NothingLaid(b, part)])
    BY DEF LaysTo
  <2> QED
    BY <1>3, <2>1
<1>5. m - 1 \in Nat /\ m - 1 \notin Bad
  BY <1>2, <1>3, <1>4
<1>6. PICK g : LaysTo(b, part, env, m - 1, g)
  BY <1>5 DEF Bad
<1> DEFINE n1 == m - 1
<1>7. n1 \in Nat /\ LaysTo(b, part, env, n1, g) /\ n1 + 1 = m
  BY <1>3, <1>5, <1>6
<1> HIDE DEF n1
<1>8. \E h : LaysTo(b, part, env, n1 + 1, h)
  BY <1>7, LaysNext
<1> QED
  BY <1>3, <1>7, <1>8

LEMMA LayOutStep ==
  ASSUME NEW b, NEW part, NEW env, NEW len \in Nat, Len(b.parts) = len
  PROVE  /\ LayOut(b, part, env)[0] = NothingLaid(b, part)
         /\ \A n \in 0 .. len - 1 : LayOut(b, part, env)[n + 1] = AddPart(LayOut(b, part, env)[n], b.parts[n + 1], env)
<1> DEFINE g == LayOut(b, part, env)
<1>1. \E h : LaysTo(b, part, env, len, h)
  BY LaysExist
<1>2. g = CHOOSE h : LaysTo(b, part, env, len, h)
  BY Zenon DEF LayOut, LaysTo, NothingLaid, g
<1>3. LaysTo(b, part, env, len, g)
  BY <1>1, <1>2, Zenon
<1> HIDE DEF g
<1>4. \A k \in 0 .. len : g[k] = IF k = 0 THEN NothingLaid(b, part) ELSE AddPart(g[k - 1], b.parts[k], env)
  BY <1>3 DEF LaysTo
<1>5. g[0] = NothingLaid(b, part)
  BY <1>4
<1>6. ASSUME NEW n \in 0 .. len - 1 PROVE g[n + 1] = AddPart(g[n], b.parts[n + 1], env)
  <2>1. n + 1 \in 0 .. len /\ n + 1 # 0 /\ (n + 1) - 1 = n
    OBVIOUS
  <2> QED
    BY <1>4, <2>1
<1> QED
  BY <1>5, <1>6 DEF g

EditsTo(env, n, g) ==
  g = [k \in 0 .. n |-> IF k = 0 THEN env ELSE SetVar(g[k - 1], RamVars[k][1], RamVars[k][2])]

LEMMA EditsNext ==
  ASSUME NEW env, NEW n \in Nat, NEW g, EditsTo(env, n, g)
  PROVE  \E h : EditsTo(env, n + 1, h)
<1> DEFINE h == [k \in 0 .. n + 1 |-> IF k = n + 1 THEN SetVar(g[n], RamVars[n + 1][1], RamVars[n + 1][2])
                                      ELSE g[k]]
<1>1. \A k \in 0 .. n : g[k] = IF k = 0 THEN env ELSE SetVar(g[k - 1], RamVars[k][1], RamVars[k][2])
  BY DEF EditsTo
<1>2. ASSUME NEW k \in 0 .. n + 1
      PROVE  h[k] = IF k = 0 THEN env ELSE SetVar(h[k - 1], RamVars[k][1], RamVars[k][2])
  <2>1. CASE k = n + 1
    <3>1. k # 0 /\ k - 1 = n /\ n \in 0 .. n + 1 /\ n # n + 1
      BY <2>1
    <3> QED
      BY <2>1, <3>1
  <2>2. CASE k # n + 1
    <3>1. k \in 0 .. n /\ h[k] = g[k]
      BY <2>2
    <3>2. k # 0 => k - 1 \in 0 .. n + 1 /\ k - 1 # n + 1
      BY <3>1
    <3> QED
      BY <1>1, <3>1, <3>2
  <2> QED
    BY <2>1, <2>2
<1>3. h = [k \in 0 .. n + 1 |-> h[k]]
  OBVIOUS
<1> HIDE DEF h
<1>4. EditsTo(env, n + 1, h)
  BY <1>2, <1>3 DEF EditsTo
<1> QED
  BY <1>4

LEMMA EditsExist ==
  ASSUME NEW env, NEW n \in Nat
  PROVE  \E g : EditsTo(env, n, g)
<1> DEFINE Bad == {m \in Nat : ~\E g : EditsTo(env, m, g)}
<1> SUFFICES ASSUME Bad # {} PROVE FALSE
  OBVIOUS
<1> HIDE DEF Bad
<1>1. Bad \in SUBSET Nat
  BY DEF Bad
<1>2. PICK m \in Bad : \A y \in Bad : m <= y
  BY <1>1, LeastNat
<1>3. m \in Nat /\ ~\E g : EditsTo(env, m, g)
  BY <1>2 DEF Bad
<1>4. m # 0
  <2>1. EditsTo(env, 0, [k \in 0 .. 0 |-> env])
    BY DEF EditsTo
  <2> QED
    BY <1>3, <2>1
<1>5. m - 1 \in Nat /\ m - 1 \notin Bad
  BY <1>2, <1>3, <1>4
<1>6. PICK g : EditsTo(env, m - 1, g)
  BY <1>5 DEF Bad
<1> DEFINE n1 == m - 1
<1>7. n1 \in Nat /\ EditsTo(env, n1, g) /\ n1 + 1 = m
  BY <1>3, <1>5, <1>6
<1> HIDE DEF n1
<1>8. \E h : EditsTo(env, n1 + 1, h)
  BY <1>7, EditsNext
<1> QED
  BY <1>3, <1>7, <1>8

LEMMA EditsStep ==
  ASSUME NEW env, NEW len \in Nat, Len(RamVars) = len
  PROVE  /\ Edits(env)[0] = env
         /\ \A n \in 0 .. len - 1 : Edits(env)[n + 1] = SetVar(Edits(env)[n], RamVars[n + 1][1], RamVars[n + 1][2])
<1> DEFINE g == Edits(env)
<1>1. \E h : EditsTo(env, len, h)
  BY EditsExist
<1>2. g = CHOOSE h : EditsTo(env, len, h)
  BY Zenon DEF Edits, EditsTo, g
<1>3. EditsTo(env, len, g)
  BY <1>1, <1>2, Zenon
<1> HIDE DEF g
<1>4. \A k \in 0 .. len : g[k] = IF k = 0 THEN env ELSE SetVar(g[k - 1], RamVars[k][1], RamVars[k][2])
  BY <1>3 DEF EditsTo
<1>5. g[0] = env
  BY <1>4
<1>6. ASSUME NEW n \in 0 .. len - 1 PROVE g[n + 1] = SetVar(g[n], RamVars[n + 1][1], RamVars[n + 1][2])
  <2>1. n + 1 \in 0 .. len /\ n + 1 # 0 /\ (n + 1) - 1 = n
    OBVIOUS
  <2> QED
    BY <1>4, <2>1
<1> QED
  BY <1>5, <1>6 DEF g

-----------------------------------------------------------------------------
(* Sizes. *)

LEMMA CeilUpIs ==
  ASSUME NEW n \in Nat \ {0}, NEW unit \in Nat \ {0}
  PROVE  \E q \in Nat \ {0} : CeilUp(n, unit) = q * unit /\ n <= q * unit
<1> DEFINE a == n + unit - 1
           q == a \div unit
<1>1. a \in Nat /\ unit <= a /\ n = a - unit + 1
  OBVIOUS
<1>2. CeilUp(n, unit) = q * unit
  BY DEF CeilUp
<1> HIDE DEF a
<1>3. q \in Nat /\ q * unit <= a /\ a < q * unit + unit
  BY <1>1
<1> HIDE DEF q
<1>4. q # 0
  BY <1>1, <1>3
<1>5. q * unit \in Nat
  BY <1>3
<1>6. n <= q * unit
  BY <1>1, <1>3, <1>5
<1> QED
  BY <1>2, <1>3, <1>4, <1>6

\* A partition of the layout is whole erase blocks and holds its payload.
LEMMA RoomIs ==
  ASSUME NEW part, PartOK(part)
  PROVE  /\ Room(part) \in Nat /\ \E q \in Nat \ {0} : Room(part) = q * EraseSize
         /\ Len(part.payload) \in Nat \ {0} /\ Len(part.payload) <= Room(part)
<1> DEFINE len == Len(part.payload)
           psize == part.psize
<1>1. len \in Nat \ {0} /\ psize \in Nat /\ psize % EraseSize = 0 /\ EraseSize \in Nat \ {0}
  BY SizesAssumption DEF PartOK
<1>2. Room(part) = CeilUp(len, IF psize # 0 THEN psize ELSE EraseSize)
  BY DEF Room
<1> HIDE DEF len, psize
<1>3. ASSUME psize = 0
      PROVE  \E q \in Nat \ {0} : Room(part) = q * EraseSize /\ len <= q * EraseSize /\ q * EraseSize \in Nat
  <2>1. PICK q \in Nat \ {0} : CeilUp(len, EraseSize) = q * EraseSize /\ len <= q * EraseSize
    BY <1>1, CeilUpIs
  <2>2. q * EraseSize \in Nat /\ Room(part) = q * EraseSize
    BY <1>1, <1>2, <1>3, <2>1
  <2> QED
    BY <2>1, <2>2
<1>4. ASSUME psize # 0
      PROVE  \E q \in Nat \ {0} : Room(part) = q * EraseSize /\ len <= q * EraseSize /\ q * EraseSize \in Nat
  <2>1. PICK q \in Nat \ {0} : CeilUp(len, psize) = q * psize /\ len <= q * psize
    BY <1>1, <1>4, CeilUpIs
  <2> DEFINE w == psize \div EraseSize
  <2>2. w \in Nat /\ psize = w * EraseSize
    BY <1>1
  <2> HIDE DEF w
  <2>3. w # 0
    BY <1>1, <1>4, <2>2
  <2> DEFINE v == q * w
  <2>4. v \in Nat \ {0}
    BY <2>2, <2>3
  <2>5. q * psize = v * EraseSize
    BY <1>1, <2>2
  <2> HIDE DEF v
  <2>6. v * EraseSize \in Nat
    BY <1>1, <2>4
  <2>7. Room(part) = v * EraseSize /\ len <= v * EraseSize
    BY <1>2, <1>4, <2>1, <2>5
  <2> QED
    BY <2>4, <2>6, <2>7
<1>5. \E q \in Nat \ {0} : Room(part) = q * EraseSize /\ len <= q * EraseSize /\ q * EraseSize \in Nat
  BY <1>3, <1>4
<1>6. len = Len(part.payload)
  BY DEF len
<1> QED
  BY <1>1, <1>5, <1>6

\* The padded payload begins with the payload and holds no environment.
LEMMA PaddedIs ==
  ASSUME NEW part, PartOK(part)
  PROVE  /\ \A x \in 0 .. Room(part) - 1 : Padded(part)[x] \in Data /\ Padded(part)[x].kind # "env"
         /\ \A x \in DOMAIN part.payload : /\ x - 1 \in 0 .. Room(part) - 1
                                           /\ Padded(part)[x - 1] = part.payload[x]
<1> DEFINE len == Len(part.payload)
           r == Room(part)
           d == Padded(part)
<1>1. r \in Nat /\ len \in Nat /\ len <= r
  BY RoomIs
<1>2. d = [x \in 0 .. r - 1 |-> IF x < len THEN part.payload[x + 1] ELSE Filler]
  BY DEF Padded
<1>3. DOMAIN part.payload = 1 .. len
  BY DEF PartOK
<1>4. \A x \in 1 .. len : part.payload[x] \in Data /\ part.payload[x].kind # "env"
  BY <1>3 DEF PartOK
<1>5. Filler \in Data /\ Filler.kind # "env"
  BY UpgradeAssumption DEF Filler
<1> HIDE DEF len, r, d
<1>6. ASSUME NEW x \in 0 .. r - 1 PROVE d[x] \in Data /\ d[x].kind # "env"
  <2>1. CASE x < len
    <3>1. x + 1 \in 1 .. len /\ d[x] = part.payload[x + 1]
      BY <1>1, <1>2, <2>1
    <3> QED
      BY <1>4, <3>1
  <2>2. CASE ~(x < len)
    BY <1>2, <1>5, <2>2
  <2> QED
    BY <2>1, <2>2
<1>7. ASSUME NEW x \in 1 .. len PROVE x - 1 \in 0 .. r - 1 /\ d[x - 1] = part.payload[x]
  <2>1. x - 1 \in 0 .. r - 1 /\ x - 1 < len /\ (x - 1) + 1 = x
    BY <1>1
  <2> QED
    BY <1>2, <2>1
<1> QED
  BY <1>3, <1>6, <1>7 DEF r, d

LEMMA SumsType ==
  ASSUME NEW sizes \in Seq(Nat)
  PROVE  /\ Sums(sizes)[0] = 0
         /\ \A n \in 0 .. Len(sizes) : Sums(sizes)[n] \in Nat
         /\ \A n \in 0 .. Len(sizes) - 1 : Sums(sizes)[n + 1] = Sums(sizes)[n] + sizes[n + 1]
<1> DEFINE f == Sums(sizes)
           len == Len(sizes)
           Bad == {n \in 0 .. len : f[n] \notin Nat}
<1>1. len \in Nat /\ \A n \in 1 .. len : sizes[n] \in Nat
  OBVIOUS
<1>2. f[0] = 0 /\ \A n \in 0 .. len - 1 : f[n + 1] = f[n] + sizes[n + 1]
  BY <1>1, SumsStep
<1> HIDE DEF f, len
<1>3. ASSUME Bad # {} PROVE FALSE
  <2>1. Bad \in SUBSET Nat
    OBVIOUS
  <2>2. PICK n \in Bad : \A y \in Bad : n <= y
    BY <1>3, <2>1, LeastNat
  <2>3. n \in 0 .. len /\ f[n] \notin Nat /\ n # 0
    BY <1>2, <2>2
  <2> DEFINE k == n - 1
  <2>4. k \in 0 .. len /\ k \in 0 .. len - 1 /\ k + 1 = n /\ ~(n <= k) /\ n \in 1 .. len
    BY <1>1, <2>3
  <2> HIDE DEF k
  <2>5. f[k] \in Nat
    BY <2>2, <2>4
  <2>6. f[k + 1] = f[k] + sizes[k + 1]
    BY <1>2, <2>4
  <2> QED
    BY <1>1, <2>3, <2>4, <2>5, <2>6
<1> QED
  BY <1>2, <1>3 DEF f, len

LEMMA SumsAppend ==
  ASSUME NEW sizes \in Seq(Nat), NEW size \in Nat
  PROVE  /\ Append(sizes, size) \in Seq(Nat) /\ Len(Append(sizes, size)) = Len(sizes) + 1
         /\ \A n \in 1 .. Len(sizes) : Append(sizes, size)[n] = sizes[n]
         /\ Append(sizes, size)[Len(sizes) + 1] = size
         /\ \A n \in 0 .. Len(sizes) : Sums(Append(sizes, size))[n] = Sums(sizes)[n]
         /\ Total(sizes) \in Nat /\ Total(Append(sizes, size)) = Total(sizes) + size
<1> DEFINE more == Append(sizes, size)
           len == Len(sizes)
           f == Sums(sizes)
           g == Sums(more)
           Bad == {n \in 0 .. len : g[n] # f[n]}
<1>1. /\ more \in Seq(Nat) /\ Len(more) = len + 1 /\ len \in Nat
      /\ \A n \in 1 .. len : more[n] = sizes[n]
      /\ more[len + 1] = size
  OBVIOUS
<1> HIDE DEF more
<1>2. /\ f[0] = 0 /\ \A n \in 0 .. len : f[n] \in Nat
      /\ \A n \in 0 .. len - 1 : f[n + 1] = f[n] + sizes[n + 1]
  BY SumsType
<1>3. /\ g[0] = 0 /\ \A n \in 0 .. (len + 1) - 1 : g[n + 1] = g[n] + more[n + 1]
  BY <1>1, SumsType
<1>4. Total(sizes) = f[len] /\ Total(more) = g[len + 1]
  BY <1>1 DEF Total
<1> HIDE DEF f, g, len
<1>5. ASSUME Bad # {} PROVE FALSE
  <2>1. Bad \in SUBSET Nat
    OBVIOUS
  <2>2. PICK n \in Bad : \A y \in Bad : n <= y
    BY <1>5, <2>1, LeastNat
  <2>3. n \in 0 .. len /\ g[n] # f[n] /\ n # 0
    BY <1>2, <1>3, <2>2
  <2> DEFINE k == n - 1
  <2>4. k \in 0 .. len /\ k \in 0 .. len - 1 /\ k + 1 = n /\ ~(n <= k) /\ n \in 1 .. len
        /\ k \in 0 .. (len + 1) - 1
    BY <1>1, <2>3
  <2> HIDE DEF k
  <2>5. f[k] = g[k]
    BY <2>2, <2>4
  <2>6. f[k + 1] = f[k] + sizes[k + 1] /\ g[k + 1] = g[k] + more[k + 1]
    BY <1>2, <1>3, <2>4
  <2>7. more[k + 1] = sizes[k + 1]
    BY <1>1, <2>4
  <2> QED
    BY <2>3, <2>4, <2>5, <2>6, <2>7
<1>6. len \in 0 .. len /\ len \in 0 .. (len + 1) - 1
  BY <1>1
<1>7. g[len + 1] = g[len] + more[len + 1] /\ f[len] \in Nat
  BY <1>2, <1>3, <1>6
<1>8. \A n \in 0 .. len : g[n] = f[n]
  BY <1>5
<1> QED
  BY <1>1, <1>4, <1>6, <1>7, <1>8 DEF more, f, g, len

-----------------------------------------------------------------------------
(* The partition table. *)

\* Every partition the kernel has was recorded, up to the n-th.
KnownTo(part, n) == \A k \in 0 .. n - 1 : part[k] = Table[k]

LEMMA FindIs ==
  ASSUME NEW part, NEW name
  PROVE  \/ FindMtd(part, name) = NoMtd /\ \A m \in Slots : part[m].name # name
         \/ FindMtd(part, name) \in Slots /\ part[FindMtd(part, name)].name = name
<1> DEFINE S == {m \in Slots : part[m].name = name}
<1>1. CASE S = {}
  BY <1>1 DEF FindMtd
<1>2. CASE S # {}
  <2>1. S \in SUBSET Nat
    BY SizesAssumption DEF Slots
  <2>2. PICK m \in S : \A y \in S : m <= y
    BY <1>2, <2>1, LeastNat
  <2>3. m \in Slots /\ part[m].name = name
    BY <2>2
  <2>4. \A k \in 0 .. m - 1 : part[k].name # name
    <3>1. m \in Nat /\ m < MaxBlocks
      BY <2>3, SizesAssumption DEF Slots
    <3>2. ASSUME NEW k \in 0 .. m - 1, part[k].name = name PROVE FALSE
      <4>1. k \in Slots /\ ~(m <= k)
        BY <3>1, SizesAssumption DEF Slots
      <4> QED
        BY <2>2, <3>2, <4>1
    <3> QED
      BY <3>2
  <2>5. \E n \in Slots : part[n].name = name /\ \A k \in 0 .. n - 1 : part[k].name # name
    BY <2>3, <2>4
  <2> QED
    BY <2>3, <2>5 DEF FindMtd
<1> QED
  BY <1>1, <1>2

\* A partition is found by its name if and only if it was recorded.
LEMMA NamedSize ==
  ASSUME NEW part, PartialTable(part), NEW m \in MtdNums
  PROVE  /\ SizeByName(part, Device[m].name) = IF part[m] = Table[m] THEN Device[m].size ELSE -1
         /\ Table[m] # NoPart /\ Device[m].size # -1
<1> DEFINE name == Device[m].name
           f == FindMtd(part, name)
<1>1. name # Unnamed /\ \A n \in MtdNums : Device[n].name = name => n = m
  BY UpgradeAssumption
<1>2. m \in Slots /\ Device[m].size \in Nat
  BY DeviceTypes
<1>3. Table[m].name = name /\ Table[m].size = Device[m].size /\ NoPart.name = Unnamed
  BY <1>2 DEF Table, NoPart
<1>4. \A n \in Slots : n \notin MtdNums => Table[n] = NoPart
  BY DEF Table
<1>5. \A n \in MtdNums : Table[n].name = Device[n].name
  BY DeviceTypes DEF Table
<1>6. SizeByName(part, name) = IF f = NoMtd THEN -1 ELSE part[f].size
  BY DEF SizeByName
<1> HIDE DEF name
<1>7. ASSUME part[m] = Table[m] PROVE SizeByName(part, name) = Device[m].size
  <2>1. f \in Slots /\ part[f].name = name
    BY <1>2, <1>3, <1>7, FindIs
  <2>2. part[f] = Table[f] /\ f \in MtdNums
    BY <1>1, <1>3, <1>4, <2>1 DEF PartialTable
  <2>3. f = m
    BY <1>1, <1>5, <2>1, <2>2
  <2>4. f # NoMtd
    BY <2>2, DeviceTypes
  <2> HIDE DEF f
  <2> QED
    BY <1>3, <1>6, <1>7, <2>3, <2>4
<1>8. ASSUME part[m] # Table[m] PROVE SizeByName(part, name) = -1
  <2>1. \A n \in Slots : part[n].name # name
    <3>1. SUFFICES ASSUME NEW n \in Slots, part[n].name = name PROVE FALSE
      OBVIOUS
    <3>2. part[n] = Table[n] /\ n \in MtdNums
      BY <1>1, <1>3, <1>4, <3>1 DEF PartialTable
    <3>3. n = m
      BY <1>1, <1>5, <3>1, <3>2
    <3> QED
      BY <1>8, <3>2, <3>3
  <2>2. f = NoMtd
    BY <2>1, FindIs
  <2> QED
    BY <1>6, <2>2
<1>9. Table[m] # NoPart /\ Device[m].size # -1
  <2>1. Table[m].name # NoPart.name
    BY <1>1, <1>3
  <2> QED
    BY <1>2, <2>1
<1> QED
  BY <1>7, <1>8, <1>9 DEF name

LEMMA WholeTable == PartialTable(Table)
  BY DEF PartialTable

\* Sizes add up.
LEMMA TableSums ==
  /\ SizeBefore(Table)[0] = 0
  /\ \A n \in 0 .. MaxBlocks : SizeBefore(Table)[n] \in Nat
  /\ \A n \in Slots : SizeBefore(Table)[n + 1] = SizeBefore(Table)[n] + Table[n].size
<1>1. \A m \in Slots : Table[m].size \in Nat
  BY WholeTable, TableSize DEF PartialTable
<1> QED
  BY <1>1, SizeBeforeStep, SizeBeforeType

LEMMA TableRises ==
  ASSUME NEW a \in 0 .. MaxBlocks, NEW b \in 0 .. MaxBlocks, a <= b
  PROVE  SizeBefore(Table)[a] <= SizeBefore(Table)[b]
<1> DEFINE f == SizeBefore(Table)
           Bad == {n \in 0 .. MaxBlocks : a <= n /\ ~(f[a] <= f[n])}
<1>1. /\ \A n \in 0 .. MaxBlocks : f[n] \in Nat
      /\ \A n \in Slots : f[n + 1] = f[n] + Table[n].size
      /\ MaxBlocks \in Nat
  BY TableSums, SizesAssumption
<1>2. \A n \in Slots : Table[n].size \in Nat
  BY WholeTable, TableSize DEF PartialTable
<1> HIDE DEF f
<1>3. ASSUME Bad # {} PROVE FALSE
  <2>1. Bad \in SUBSET Nat
    OBVIOUS
  <2>2. PICK n \in Bad : \A y \in Bad : n <= y
    BY <1>3, <2>1, LeastNat
  <2>3. n \in 0 .. MaxBlocks /\ a <= n /\ ~(f[a] <= f[n]) /\ n # a
    BY <1>1, <2>2
  <2> DEFINE k == n - 1
  <2>4. k \in Slots /\ k \in 0 .. MaxBlocks /\ k + 1 = n /\ a <= k /\ ~(n <= k)
    BY <1>1, <2>3 DEF Slots
  <2> HIDE DEF k
  <2>5. f[a] <= f[k]
    BY <2>2, <2>4
  <2>6. f[k + 1] = f[k] + Table[k].size
    BY <1>1, <2>4
  <2> QED
    BY <1>1, <1>2, <2>3, <2>4, <2>5, <2>6
<1> QED
  BY <1>3 DEF f

\* map_old_new_mtd finds no place behind a partition that was not recorded.
LEMMA ReachedPast ==
  ASSUME NEW part, PartialTable(part), NEW k \in Slots, KnownTo(part, k),
         NEW off \in Nat, SizeBefore(Table)[k] <= off, MapOldNew(part, off).dev # NoMtd
  PROVE  part[k] # NoPart
<1>1. PICK m \in Slots : Reaches(part, m, off)
  BY DEF MapOldNew
<1>2. m \in Nat /\ k \in Nat /\ MaxBlocks \in Nat /\ k < MaxBlocks /\ m < MaxBlocks
  BY SizesAssumption DEF Slots
<1>3. CASE k <= m
  <2>1. k \in 0 .. m
    BY <1>2, <1>3
  <2>2. part[k].size # 0
    BY <1>1, <2>1 DEF Reaches
  <2>3. NoPart.size = 0
    BY DEF NoPart
  <2> QED
    BY <2>2, <2>3
<1>4. CASE m < k
  <2>1. \A l \in Slots : l < m => part[l] = Table[l]
    BY <1>2, <1>4, SizesAssumption DEF KnownTo, Slots
  <2>2. SizeBefore(part)[m] = SizeBefore(Table)[m] /\ part[m] = Table[m]
    BY <1>2, <1>4, <2>1, SamePlace DEF KnownTo
  <2>3. Table[m].size + SizeBefore(Table)[m] > off
    BY <1>1, <2>2 DEF Reaches, CurOff
  <2>4. m + 1 \in 0 .. MaxBlocks /\ k \in 0 .. MaxBlocks /\ m + 1 <= k
    BY <1>2, <1>4
  <2>5. SizeBefore(Table)[m + 1] = SizeBefore(Table)[m] + Table[m].size
    BY TableSums
  <2>6. SizeBefore(Table)[m + 1] <= SizeBefore(Table)[k]
    BY <2>4, TableRises
  <2>7. Table[m].size \in Nat /\ SizeBefore(Table)[m] \in Nat /\ SizeBefore(Table)[k] \in Nat
    <3>1. \A n \in Slots : Table[n].size \in Nat
      BY WholeTable, TableSize DEF PartialTable
    <3>2. m \in 0 .. MaxBlocks
      BY <1>2
    <3> QED
      BY <2>4, <3>1, <3>2, TableSums
  <2> QED
    BY <2>3, <2>5, <2>6, <2>7
<1> QED
  BY <1>2, <1>3, <1>4

-----------------------------------------------------------------------------
(* Where the first image goes. *)

\* What bundles are made of.
LEMMA BundleShape ==
  ASSUME NEW b, BundleOK(b)
  PROVE  /\ Len(b.parts) \in Nat /\ DOMAIN b.parts = 1 .. Len(b.parts)
         /\ \A n \in 1 .. Len(b.parts) : PartOK(b.parts[n])
         /\ Len(b.skip) \in 0 .. MaxBlocks /\ DOMAIN b.skip = 1 .. Len(b.skip)
         /\ \A n \in 1 .. Len(b.skip) : n - 1 \in MtdNums /\ b.skip[n] = Device[n - 1].name
         /\ b.prefix \in Seq(Nat) /\ b.vars \in Seq(Keys \X Values)
         /\ b.offset \in {-1, Begin(b)} /\ (b.offset = -1 => b.prefix = <<>>)
  BY Zenon DEF BundleOK

LEMMA BundleLens ==
  ASSUME NEW b, BundleOK(b)
  PROVE  Len(b.parts) \in Nat /\ Len(b.skip) \in Nat /\ Len(b.skip) \in 0 .. MaxBlocks
<1>1. Len(b.parts) \in Nat /\ Len(b.skip) \in 0 .. MaxBlocks
  BY Zenon DEF BundleOK
<1> QED
  BY <1>1, SizesAssumption

\* SkipStep for the bundles there are.
LEMMA SkipAt ==
  ASSUME NEW b, BundleOK(b), NEW part
  PROVE  /\ Skip(b, part)[0] = NothingSkipped(b)
         /\ \A n \in 0 .. Len(b.skip) - 1 :
              Skip(b, part)[n + 1] = SkipOne(part, Skip(b, part)[n], b.skip[n + 1])
<1>1. PICK len \in Nat : Len(b.skip) = len
  <2>1. Len(b.skip) \in Nat
    BY BundleLens
  <2> QED
    BY <2>1, Zenon
<1>2. /\ Skip(b, part)[0] = NothingSkipped(b)
      /\ \A n \in 0 .. len - 1 :
           Skip(b, part)[n + 1] = SkipOne(part, Skip(b, part)[n], b.skip[n + 1])
  BY <1>1, SkipStep
<1> QED
  BY <1>1, <1>2

\* After n of the partitions to be skipped.
SkippedTo(b, part, n) ==
  LET s == Skip(b, part)[n] IN
  /\ s.goff \in Nat /\ s.mtdparts \in Seq(Nat)
  /\ Total(s.mtdparts) = Total(b.prefix) + s.goff
  /\ KnownTo(part, n) => s = Skip(b, Table)[n] /\ s.goff = SizeBefore(Table)[n]
  /\ \A k \in 0 .. n : KnownTo(part, k) => SizeBefore(Table)[k] <= s.goff

LEMMA SkippedNext ==
  ASSUME NEW b, BundleOK(b), NEW part, PartialTable(part),
         NEW n \in 0 .. Len(b.skip) - 1, SkippedTo(b, part, n)
  PROVE  SkippedTo(b, part, n + 1)
<1> DEFINE s == Skip(b, part)[n]
           r == Skip(b, part)[n + 1]
           q == Skip(b, Table)[n + 1]
           name == b.skip[n + 1]
           size == Device[n].size
<1>1. Len(b.skip) \in Nat /\ n \in Nat /\ n + 1 \in 1 .. Len(b.skip)
  BY BundleLens
<1>2. n \in MtdNums /\ name = Device[n].name
  <2>1. (n + 1) - 1 = n
    BY <1>1
  <2> QED
    BY <1>1, <2>1, BundleShape
<1>3. n \in Slots /\ size \in Nat /\ Table[n].size = size
  BY <1>2, DeviceTypes DEF Table
<1>4. r = SkipOne(part, s, name) /\ q = SkipOne(Table, Skip(b, Table)[n], name)
  BY SkipAt, Zenon
<1>5. SizeByName(part, name) = IF part[n] = Table[n] THEN size ELSE -1
  BY <1>2, NamedSize
<1>6. SizeByName(Table, name) = size /\ size # -1
  BY <1>2, <1>3, NamedSize, WholeTable
<1>7. /\ s.goff \in Nat /\ s.mtdparts \in Seq(Nat)
      /\ Total(s.mtdparts) = Total(b.prefix) + s.goff
      /\ KnownTo(part, n) => s = Skip(b, Table)[n] /\ s.goff = SizeBefore(Table)[n]
      /\ \A k \in 0 .. n : KnownTo(part, k) => SizeBefore(Table)[k] <= s.goff
  BY DEF SkippedTo
<1>8. SizeBefore(Table)[n + 1] = SizeBefore(Table)[n] + size
  BY <1>3, TableSums
<1>9. \A k \in 0 .. n : SizeBefore(Table)[k] \in Nat
  <2>1. \A k \in 0 .. n : k \in 0 .. MaxBlocks
    BY <1>3, SizesAssumption DEF Slots
  <2> QED
    BY <2>1, TableSums
<1>10. KnownTo(part, n + 1) => KnownTo(part, n) /\ part[n] = Table[n]
  BY <1>1 DEF KnownTo
<1>11. Total(b.prefix) \in Nat
  BY BundleShape, SumsAppend
<1>12. \A k \in 0 .. n + 1 : k \in 0 .. n \/ k = n + 1
  BY <1>1
<1> HIDE DEF s, r, q, name, size
<1>13. CASE part[n] = Table[n]
  <2>1. r = [goff |-> s.goff + size, mtdparts |-> Append(s.mtdparts, size)]
    BY <1>4, <1>5, <1>6, <1>13 DEF SkipOne
  <2>2. r.goff = s.goff + size /\ r.mtdparts = Append(s.mtdparts, size)
    BY <2>1
  <2>3. r.goff \in Nat /\ r.mtdparts \in Seq(Nat)
    <3>1. Append(s.mtdparts, size) \in Seq(Nat)
      BY <1>3, <1>7, SumsAppend
    <3> QED
      BY <1>3, <1>7, <2>2, <3>1
  <2>4. Total(r.mtdparts) = Total(b.prefix) + r.goff
    <3>1. Total(r.mtdparts) = Total(s.mtdparts) + size
      BY <1>3, <1>7, <2>2, SumsAppend
    <3> QED
      BY <1>3, <1>7, <1>11, <2>2, <3>1
  <2>5. ASSUME KnownTo(part, n + 1) PROVE r = q /\ r.goff = SizeBefore(Table)[n + 1]
    <3>1. s = Skip(b, Table)[n] /\ s.goff = SizeBefore(Table)[n]
      BY <1>7, <1>10, <2>5
    <3>2. q = [goff |-> s.goff + size, mtdparts |-> Append(s.mtdparts, size)]
      BY <1>4, <1>6, <3>1 DEF SkipOne
    <3> QED
      BY <1>8, <2>1, <2>2, <3>1, <3>2
  <2>6. ASSUME NEW k \in 0 .. n + 1, KnownTo(part, k) PROVE SizeBefore(Table)[k] <= r.goff
    <3>1. CASE k \in 0 .. n
      BY <1>3, <1>7, <1>9, <2>2, <2>6, <3>1
    <3>2. CASE k = n + 1
      BY <2>3, <2>5, <2>6, <3>2
    <3> QED
      BY <1>12, <3>1, <3>2
  <2> QED
    BY <2>3, <2>4, <2>5, <2>6 DEF SkippedTo, r, q
<1>14. CASE part[n] # Table[n]
  <2>1. r = s
    BY <1>4, <1>5, <1>14 DEF SkipOne
  <2>2. ~KnownTo(part, n + 1)
    BY <1>10, <1>14
  <2>3. \A k \in 0 .. n + 1 : KnownTo(part, k) => SizeBefore(Table)[k] <= r.goff
    BY <1>7, <1>12, <2>1, <2>2
  <2> QED
    BY <1>7, <2>1, <2>2, <2>3 DEF SkippedTo, r
<1> QED
  BY <1>13, <1>14

LEMMA SkippedAll ==
  ASSUME NEW b, BundleOK(b), NEW part, PartialTable(part)
  PROVE  SkippedTo(b, part, Len(b.skip))
<1> DEFINE len == Len(b.skip)
           Bad == {n \in 0 .. len : ~SkippedTo(b, part, n)}
<1>1. len \in Nat
  BY BundleLens, SizesAssumption
<1>2. SkippedTo(b, part, 0)
  <2> DEFINE s == Skip(b, part)[0]
  <2>1. s = NothingSkipped(b) /\ Skip(b, Table)[0] = NothingSkipped(b)
    BY SkipAt, Zenon
  <2> HIDE DEF s
  <2>2. s.goff = 0 /\ s.mtdparts = b.prefix
    BY <2>1 DEF NothingSkipped
  <2>3. b.prefix \in Seq(Nat) /\ Total(b.prefix) \in Nat
    BY BundleShape, SumsAppend
  <2>4. SizeBefore(Table)[0] = 0 /\ \A k \in 0 .. 0 : k = 0
    BY TableSums
  <2>5. \A k \in 0 .. 0 : KnownTo(part, k) => SizeBefore(Table)[k] <= s.goff
    BY <2>2, <2>4
  <2>6. s.goff \in Nat /\ Total(s.mtdparts) = Total(b.prefix) + s.goff
    BY <2>2, <2>3
  <2> QED
    BY <2>1, <2>2, <2>3, <2>4, <2>5, <2>6 DEF SkippedTo, s
<1> HIDE DEF len
<1>3. ASSUME Bad # {} PROVE FALSE
  <2>1. Bad \in SUBSET Nat
    OBVIOUS
  <2>2. PICK n \in Bad : \A y \in Bad : n <= y
    BY <1>3, <2>1, LeastNat
  <2>3. n \in 0 .. len /\ ~SkippedTo(b, part, n) /\ n # 0
    BY <1>2, <2>2
  <2> DEFINE k == n - 1
  <2>4. k \in 0 .. len /\ k \in 0 .. len - 1 /\ k + 1 = n /\ ~(n <= k)
    BY <1>1, <2>3
  <2> HIDE DEF k
  <2>5. SkippedTo(b, part, k)
    BY <2>2, <2>4
  <2>6. SkippedTo(b, part, k + 1)
    BY <2>4, <2>5, SkippedNext DEF len
  <2> QED
    BY <2>3, <2>4, <2>6
<1>4. len \in 0 .. len
  BY <1>1
<1> QED
  BY <1>3, <1>4 DEF len

\* With every partition skipped known, the first image goes where it is meant to;
\* otherwise behind the known ones before the first that is not.
LEMMA StartIs ==
  ASSUME NEW b, BundleOK(b), NEW part, PartialTable(part)
  PROVE  /\ Start(b, part).goff \in Nat /\ Start(b, part).mtdparts \in Seq(Nat)
         /\ KnownTo(part, Len(b.skip)) =>
              /\ Start(b, part) = Start(b, Table) /\ Start(b, part).goff = Begin(b)
              /\ Total(Start(b, part).mtdparts) = Begin(b)
         /\ \A k \in 0 .. Len(b.skip) : KnownTo(part, k) => SizeBefore(Table)[k] <= Start(b, part).goff
<1> DEFINE len == Len(b.skip)
           s == Skip(b, part)[len]
           start == Start(b, part)
<1>1. len \in Nat /\ len \in 0 .. len /\ len \in 0 .. MaxBlocks
  BY BundleLens, SizesAssumption
<1>2. /\ s.goff \in Nat /\ s.mtdparts \in Seq(Nat)
      /\ Total(s.mtdparts) = Total(b.prefix) + s.goff
      /\ KnownTo(part, len) => s = Skip(b, Table)[len] /\ s.goff = SizeBefore(Table)[len]
      /\ \A k \in 0 .. len : KnownTo(part, k) => SizeBefore(Table)[k] <= s.goff
  BY SkippedAll DEF SkippedTo
<1>3. start = [goff |-> IF b.offset # -1 THEN b.offset ELSE s.goff, mtdparts |-> s.mtdparts]
  BY DEF Start
<1>4. KnownTo(part, len) =>
        Start(b, Table) = [goff |-> IF b.offset # -1 THEN b.offset ELSE s.goff, mtdparts |-> s.mtdparts]
  BY <1>2 DEF Start
<1>5. /\ Begin(b) = Total(b.prefix) + SizeBefore(Table)[len]
      /\ Total(b.prefix) \in Nat /\ SizeBefore(Table)[len] \in Nat
  BY <1>1, BundleShape, SumsAppend, TableSums DEF Begin
<1>6. b.offset \in {-1, Begin(b)} /\ (b.offset = -1 => b.prefix = <<>>)
  BY BundleShape
<1>7. Total(<<>>) = 0
  <2>1. <<>> \in Seq(Nat) /\ Len(<<>>) = 0
    OBVIOUS
  <2> QED
    BY <2>1, SumsType DEF Total
<1>8. \A k \in 0 .. len : SizeBefore(Table)[k] <= SizeBefore(Table)[len] /\ SizeBefore(Table)[k] \in Nat
  <2>1. \A k \in 0 .. len : k \in 0 .. MaxBlocks /\ k <= len
    BY <1>1, SizesAssumption
  <2> QED
    BY <1>1, <2>1, TableRises, TableSums
<1> HIDE DEF s, start, len
<1>9. start.goff = (IF b.offset # -1 THEN b.offset ELSE s.goff) /\ start.mtdparts = s.mtdparts
  BY <1>3
<1>10. start.goff \in Nat
  BY <1>2, <1>5, <1>6, <1>9
<1>11. ASSUME KnownTo(part, len)
       PROVE  start = Start(b, Table) /\ start.goff = Begin(b) /\ Total(start.mtdparts) = Begin(b)
  <2>1. start = Start(b, Table)
    BY <1>3, <1>4, <1>11
  <2>2. Total(start.mtdparts) = Begin(b)
    BY <1>2, <1>5, <1>9, <1>11
  <2>3. CASE b.offset = -1
    BY <1>2, <1>5, <1>6, <1>7, <1>9, <1>11, <2>1, <2>2, <2>3
  <2>4. CASE b.offset # -1
    BY <1>6, <1>9, <2>1, <2>2, <2>4
  <2> QED
    BY <2>3, <2>4
<1>12. ASSUME NEW k \in 0 .. len, KnownTo(part, k) PROVE SizeBefore(Table)[k] <= start.goff
  <2>1. CASE b.offset = -1
    BY <1>2, <1>9, <1>12, <2>1
  <2>2. CASE b.offset # -1
    BY <1>5, <1>6, <1>8, <1>9, <2>2
  <2> QED
    BY <2>1, <2>2
<1> QED
  BY <1>2, <1>9, <1>10, <1>11, <1>12 DEF start, len

\* do_flash accepts a layout only when every partition to be skipped was recorded.
LEMMA AllKnown ==
  ASSUME NEW b, BundleOK(b), NEW part, PartialTable(part),
         NEW off \in Nat, Start(b, part).goff <= off, MapOldNew(part, off).dev # NoMtd
  PROVE  KnownTo(part, Len(b.skip))
<1> DEFINE len == Len(b.skip)
           Bad == {n \in 0 .. len : ~KnownTo(part, n)}
<1>1. len \in Nat /\ len \in 0 .. len
  BY BundleLens, SizesAssumption
<1>2. KnownTo(part, 0)
  BY DEF KnownTo
<1>3. ASSUME Bad # {} PROVE FALSE
  <2> HIDE DEF len
  <2>1. Bad \in SUBSET Nat
    OBVIOUS
  <2>2. PICK n \in Bad : \A y \in Bad : n <= y
    BY <1>3, <2>1, LeastNat
  <2>3. n \in 0 .. len /\ ~KnownTo(part, n) /\ n # 0
    BY <1>2, <2>2
  <2> DEFINE k == n - 1
  <2>4. k \in 0 .. len /\ k + 1 = n /\ ~(n <= k) /\ n \in 1 .. len /\ k = n - 1
    BY <1>1, <2>3
  <2>5. KnownTo(part, k)
    BY <2>2, <2>4
  <2>6. k \in MtdNums
    BY <2>4, BundleShape DEF len
  <2>7. k \in Slots
    BY <2>6, DeviceTypes
  <2>8. SizeBefore(Table)[k] <= Start(b, part).goff
    BY <2>4, <2>5, StartIs DEF len
  <2>9. SizeBefore(Table)[k] \in Nat /\ Start(b, part).goff \in Nat
    <3>1. k \in 0 .. MaxBlocks
      BY <2>7, SizesAssumption DEF Slots
    <3> QED
      BY <3>1, TableSums, StartIs
  <2> HIDE DEF k
  <2>10. SizeBefore(Table)[k] <= off
    BY <2>8, <2>9
  <2>11. part[k] # NoPart
    BY <2>5, <2>7, <2>10, ReachedPast
  <2>12. part[k] = Table[k]
    BY <2>7, <2>11 DEF PartialTable
  <2>13. \A l \in 0 .. n - 1 : l \in 0 .. k - 1 \/ l = k
    BY <1>1, <2>4
  <2> QED
    BY <2>3, <2>5, <2>12, <2>13 DEF KnownTo
<1> QED
  BY <1>1, <1>3 DEF len

-----------------------------------------------------------------------------
(* The layout of a bundle. *)

LEMMA LayOutAt ==
  ASSUME NEW b, BundleOK(b), NEW part, NEW env
  PROVE  /\ LayOut(b, part, env)[0] = NothingLaid(b, part)
         /\ \A n \in 0 .. Len(b.parts) - 1 :
              LayOut(b, part, env)[n + 1] = AddPart(LayOut(b, part, env)[n], b.parts[n + 1], env)
<1>1. PICK len \in Nat : Len(b.parts) = len
  <2>1. Len(b.parts) \in Nat
    BY BundleLens
  <2> QED
    BY <2>1, Zenon
<1>2. /\ LayOut(b, part, env)[0] = NothingLaid(b, part)
      /\ \A n \in 0 .. len - 1 :
           LayOut(b, part, env)[n + 1] = AddPart(LayOut(b, part, env)[n], b.parts[n + 1], env)
  BY <1>1, LayOutStep
<1> QED
  BY <1>1, <1>2

\* How many entries a partition takes.
Takes(part) == IF part.name = "boot" THEN 2 ELSE 1

LEMMA AddPartCount ==
  ASSUME NEW s, s.i \in Nat, NEW part, NEW env
  PROVE  AddPart(s, part, env).i = s.i + Takes(part)
<1>1. ASSUME NEW r, NEW name, NEW size, NEW data PROVE Place(r, name, size, data).i = r.i + 1
  BY DEF Place
<1> DEFINE put == Place(s, part.name, Room(part), Padded(part))
<1>2. put.i = s.i + 1
  BY <1>1
<1>3. AddPart(s, part, env)
        = IF part.name = "boot" THEN Place(put, "env", EraseSize, EnvCells(env)) ELSE put
  BY DEF AddPart
<1> HIDE DEF put
<1>4. Place(put, "env", EraseSize, EnvCells(env)).i = put.i + 1
  BY <1>1
<1> QED
  BY <1>2, <1>3, <1>4 DEF Takes

\* However the first image is placed, the layout has as many entries.
LEMMA SameCount ==
  ASSUME NEW b, BundleOK(b), NEW part, NEW env, NEW n \in 0 .. Len(b.parts)
  PROVE  /\ LayOut(b, part, env)[n].i \in Nat
         /\ LayOut(b, part, env)[n].i = LayOut(b, Table, OldEnv)[n].i
<1> DEFINE f(m) == LayOut(b, part, env)[m].i
           g(m) == LayOut(b, Table, OldEnv)[m].i
           Bad == {m \in 0 .. Len(b.parts) : ~(f(m) \in Nat /\ f(m) = g(m))}
<1>1. Len(b.parts) \in Nat
  BY BundleLens
<1>2. f(0) = 0 /\ g(0) = 0
  <2>1. /\ LayOut(b, part, env)[0] = NothingLaid(b, part)
        /\ LayOut(b, Table, OldEnv)[0] = NothingLaid(b, Table)
    BY LayOutAt, Zenon
  <2>2. \A p : NothingLaid(b, p).i = 0
    BY DEF NothingLaid
  <2> QED
    BY <2>1, <2>2
<1>3. ASSUME NEW m \in 0 .. Len(b.parts) - 1, f(m) \in Nat, g(m) \in Nat
      PROVE  f(m + 1) = f(m) + Takes(b.parts[m + 1]) /\ g(m + 1) = g(m) + Takes(b.parts[m + 1])
  <2>1. /\ LayOut(b, part, env)[m + 1] = AddPart(LayOut(b, part, env)[m], b.parts[m + 1], env)
        /\ LayOut(b, Table, OldEnv)[m + 1]
             = AddPart(LayOut(b, Table, OldEnv)[m], b.parts[m + 1], OldEnv)
    BY LayOutAt, Zenon
  <2> QED
    BY <1>3, <2>1, AddPartCount
<1> HIDE DEF f, g
<1>4. ASSUME Bad # {} PROVE FALSE
  <2>1. Bad \in SUBSET Nat
    OBVIOUS
  <2>2. PICK m \in Bad : \A y \in Bad : m <= y
    BY <1>4, <2>1, LeastNat
  <2>3. m \in 0 .. Len(b.parts) /\ ~(f(m) \in Nat /\ f(m) = g(m)) /\ m # 0
    BY <1>2, <2>2
  <2> DEFINE k == m - 1
  <2>4. k \in 0 .. Len(b.parts) /\ k \in 0 .. Len(b.parts) - 1 /\ k + 1 = m /\ ~(m <= k)
    BY <1>1, <2>3
  <2> HIDE DEF k
  <2>5. f(k) \in Nat /\ f(k) = g(k)
    BY <2>2, <2>4
  <2>6. f(k + 1) = f(k) + Takes(b.parts[k + 1]) /\ g(k + 1) = g(k) + Takes(b.parts[k + 1])
    BY <1>3, <2>4, <2>5
  <2>7. Takes(b.parts[k + 1]) \in Nat
    BY DEF Takes
  <2> QED
    BY <2>3, <2>4, <2>5, <2>6, <2>7
<1> QED
  BY <1>4 DEF f, g

\* The array of entries is never overrun.
LEMMA EntriesFit ==
  ASSUME NEW b, BundleOK(b), NEW part, NEW env, NEW n \in 0 .. Len(b.parts)
  PROVE  LayOut(b, part, env)[n].i <= MaxBlocks
<1> DEFINE f(m) == LayOut(b, part, env)[m].i
           len == Len(b.parts)
           Bad == {k \in Nat : k <= len /\ ~(f(len - k) <= MaxBlocks)}
<1>1. len \in Nat /\ MaxBlocks \in Nat /\ len \in 0 .. len
  BY BundleLens, SizesAssumption
<1>2. f(len) <= MaxBlocks
  <2>1. LayOut(b, Table, OldEnv)[Len(b.parts)].i <= MaxBlocks
    BY Zenon DEF BundleOK, FitsCamera
  <2> QED
    BY <1>1, <2>1, SameCount
<1>3. \A m \in 0 .. len : f(m) \in Nat
  BY SameCount
<1>4. \A m \in 0 .. len - 1 : f(m) <= f(m + 1)
  <2>1. SUFFICES ASSUME NEW m \in 0 .. len - 1 PROVE f(m) <= f(m + 1)
    OBVIOUS
  <2>2. m \in 0 .. len
    BY <1>1
  <2>3. LayOut(b, part, env)[m + 1] = AddPart(LayOut(b, part, env)[m], b.parts[m + 1], env)
    BY LayOutAt, Zenon
  <2>4. f(m + 1) = f(m) + Takes(b.parts[m + 1])
    BY <1>3, <2>2, <2>3, AddPartCount
  <2>5. Takes(b.parts[m + 1]) \in Nat
    BY DEF Takes
  <2> HIDE DEF f
  <2> QED
    BY <1>3, <2>2, <2>4, <2>5
<1> HIDE DEF f, len
<1>5. ASSUME Bad # {} PROVE FALSE
  <2>1. Bad \in SUBSET Nat
    OBVIOUS
  <2>2. PICK k \in Bad : \A y \in Bad : k <= y
    BY <1>5, <2>1, LeastNat
  <2>3. k \in Nat /\ k <= len /\ ~(f(len - k) <= MaxBlocks)
    BY <2>2
  <2>4. k # 0
    <3>1. len - 0 = len
      BY <1>1
    <3> QED
      BY <1>2, <2>3, <3>1
  <2> DEFINE l == k - 1
             m == len - k
  <2>5. l \in Nat /\ ~(k <= l) /\ l <= len /\ len - l = m + 1 /\ m \in 0 .. len - 1 /\ m \in 0 .. len
        /\ m + 1 \in 0 .. len
    BY <1>1, <2>3, <2>4
  <2>6. ~(f(m) <= MaxBlocks)
    BY <2>3
  <2> HIDE DEF l, m
  <2>7. f(len - l) <= MaxBlocks
    BY <2>2, <2>5
  <2>8. f(m) <= f(m + 1) /\ f(m) \in Nat /\ f(m + 1) \in Nat
    BY <1>3, <1>4, <2>5
  <2> QED
    BY <1>1, <2>5, <2>6, <2>7, <2>8
<1>6. n \in 0 .. len
  BY DEF len
<1> DEFINE k == len - n
<1>7. k \in Nat /\ k <= len /\ len - k = n
  BY <1>1, <1>6
<1> HIDE DEF k
<1>8. f(len - k) <= MaxBlocks
  BY <1>5, <1>7
<1> QED
  BY <1>7, <1>8 DEF f

\* Partitions known to be skipped make the layout the one the camera has room for.
LEMMA SameLayout ==
  ASSUME NEW b, BundleOK(b), NEW part, NEW env, Start(b, part) = Start(b, Table),
         NEW n \in 0 .. Len(b.parts)
  PROVE  LayOut(b, part, env)[n].goff = LayOut(b, Table, OldEnv)[n].goff
<1> DEFINE f(m) == LayOut(b, part, env)[m].goff
           g(m) == LayOut(b, Table, OldEnv)[m].goff
           Bad == {m \in 0 .. Len(b.parts) : f(m) # g(m)}
<1>1. Len(b.parts) \in Nat
  BY BundleLens
<1>2. f(0) = g(0)
  <2>1. /\ LayOut(b, part, env)[0] = NothingLaid(b, part)
        /\ LayOut(b, Table, OldEnv)[0] = NothingLaid(b, Table)
    BY LayOutAt, Zenon
  <2> QED
    BY <2>1 DEF NothingLaid
<1>3. ASSUME NEW s, NEW r, s.goff = r.goff, NEW p
      PROVE  AddPart(s, p, env).goff = AddPart(r, p, OldEnv).goff
  <2>1. ASSUME NEW q, NEW name, NEW size, NEW data PROVE Place(q, name, size, data).goff = q.goff + size
    BY DEF Place
  <2> DEFINE put(q) == Place(q, p.name, Room(p), Padded(p))
  <2>2. put(s).goff = put(r).goff
    BY <1>3, <2>1
  <2>3. \A q, v : AddPart(q, p, v)
          = IF p.name = "boot" THEN Place(put(q), "env", EraseSize, EnvCells(v)) ELSE put(q)
    BY DEF AddPart
  <2> HIDE DEF put
  <2>4. /\ Place(put(s), "env", EraseSize, EnvCells(env)).goff = put(s).goff + EraseSize
        /\ Place(put(r), "env", EraseSize, EnvCells(OldEnv)).goff = put(r).goff + EraseSize
    BY <2>1
  <2> QED
    BY <2>2, <2>3, <2>4
<1>4. ASSUME NEW m \in 0 .. Len(b.parts) - 1, f(m) = g(m) PROVE f(m + 1) = g(m + 1)
  <2>1. /\ LayOut(b, part, env)[m + 1] = AddPart(LayOut(b, part, env)[m], b.parts[m + 1], env)
        /\ LayOut(b, Table, OldEnv)[m + 1]
             = AddPart(LayOut(b, Table, OldEnv)[m], b.parts[m + 1], OldEnv)
    BY LayOutAt, Zenon
  <2> QED
    BY <1>3, <1>4, <2>1
<1> HIDE DEF f, g
<1>5. ASSUME Bad # {} PROVE FALSE
  <2>1. Bad \in SUBSET Nat
    OBVIOUS
  <2>2. PICK m \in Bad : \A y \in Bad : m <= y
    BY <1>5, <2>1, LeastNat
  <2>3. m \in 0 .. Len(b.parts) /\ f(m) # g(m) /\ m # 0
    BY <1>2, <2>2
  <2> DEFINE k == m - 1
  <2>4. k \in 0 .. Len(b.parts) /\ k \in 0 .. Len(b.parts) - 1 /\ k + 1 = m /\ ~(m <= k)
    BY <1>1, <2>3
  <2> HIDE DEF k
  <2>5. f(k) = g(k)
    BY <2>2, <2>4
  <2> QED
    BY <1>4, <2>3, <2>4, <2>5
<1> QED
  BY <1>5 DEF f, g

\* What has been placed lies one behind the other, from start.goff on.
InRow(s, start) ==
  /\ s.i \in Nat /\ s.goff \in Nat /\ start.goff <= s.goff /\ DOMAIN s.mtdwrite = Slots
  /\ \A e \in Slots : ~(e < s.i) => s.mtdwrite[e] = NoEntry
  /\ \A e \in Slots : e < s.i =>
       /\ s.mtdwrite[e].off \in Nat /\ s.mtdwrite[e].size \in Nat
       /\ start.goff <= s.mtdwrite[e].off
       /\ s.mtdwrite[e].off + s.mtdwrite[e].size <= s.goff
  /\ \A e, f \in Slots : e < f /\ f < s.i =>
       s.mtdwrite[e].off + s.mtdwrite[e].size <= s.mtdwrite[f].off

\* mtdparts lists what lies before and the entries, each with its offset.
Listed(s, start) ==
  /\ s.mtdparts \in Seq(Nat) /\ Len(s.mtdparts) = Len(start.mtdparts) + s.i
  /\ Total(s.mtdparts) + start.goff = s.goff + Total(start.mtdparts)
  /\ \A e \in Slots : e < s.i =>
       /\ s.mtdparts[Len(start.mtdparts) + e + 1] = s.mtdwrite[e].size
       /\ Sums(s.mtdparts)[Len(start.mtdparts) + e] + start.goff
            = s.mtdwrite[e].off + Total(start.mtdparts)

\* What is remembered of the layout points to the entries of those names.
Marked(s, start) ==
  /\ s.root_part = -1 \/ \E e \in Slots : /\ e < s.i /\ s.mtdwrite[e].name = "rootfs"
                                          /\ s.root_part = Len(start.mtdparts) + e
  /\ s.kernel_part = -1 \/ /\ s.kernel_part \in Slots /\ s.kernel_part < s.i
                           /\ s.mtdwrite[s.kernel_part].name = "kernel"
  /\ s.env_at = -1 \/ \E e \in Slots : /\ e < s.i /\ s.mtdwrite[e].name = "boot"
                                       /\ s.env_at = s.mtdwrite[e].off + s.mtdwrite[e].size
  /\ s.env_at = -1 => \A e \in Slots : e < s.i => s.mtdwrite[e].name # "boot"

\* r is layout s after one more entry, d.
Placed(r, s, d) ==
  /\ r.i = s.i + 1 /\ r.goff = s.goff + d.size /\ r.mtdparts = Append(s.mtdparts, d.size)
  /\ DOMAIN r.mtdwrite = Slots /\ r.mtdwrite[s.i] = d
  /\ \A e \in Slots : e # s.i => r.mtdwrite[e] = s.mtdwrite[e]
  /\ r.root_part = IF d.name = "rootfs" THEN Len(s.mtdparts) ELSE s.root_part
  /\ r.kernel_part = IF d.name = "kernel" THEN s.i ELSE s.kernel_part
  /\ r.env_at = IF d.name = "boot" THEN s.goff + d.size ELSE s.env_at
  /\ d.off = s.goff

LEMMA EntryIs ==
  ASSUME NEW name, NEW off, NEW size, NEW data
  PROVE  /\ Entry(name, off, size, data).name = name /\ Entry(name, off, size, data).off = off
         /\ Entry(name, off, size, data).size = size /\ Entry(name, off, size, data).data = data
         /\ Entry(name, off, size, data).is_ubi = FALSE /\ Entry(name, off, size, data).vol_id = 0
  BY DEF Entry

LEMMA PlaceIs ==
  ASSUME NEW s, DOMAIN s.mtdwrite = Slots, s.i \in Slots, NEW name, NEW size, NEW data
  PROVE  Placed(Place(s, name, size, data), s, Entry(name, s.goff, size, data))
<1> DEFINE r == Place(s, name, size, data)
           d == Entry(name, s.goff, size, data)
<1>1. /\ r.i = s.i + 1 /\ r.goff = s.goff + size /\ r.mtdparts = Append(s.mtdparts, size)
      /\ r.mtdwrite = [s.mtdwrite EXCEPT ![s.i] = d]
      /\ r.root_part = (IF name = "rootfs" THEN Len(s.mtdparts) ELSE s.root_part)
      /\ r.kernel_part = (IF name = "kernel" THEN s.i ELSE s.kernel_part)
      /\ r.env_at = (IF name = "boot" THEN s.goff + size ELSE s.env_at)
  BY DEF Place
<1>2. d.name = name /\ d.off = s.goff /\ d.size = size
  BY DEF Entry
<1> HIDE DEF r, d
<1>3. /\ DOMAIN r.mtdwrite = Slots /\ r.mtdwrite[s.i] = d
      /\ \A e \in Slots : e # s.i => r.mtdwrite[e] = s.mtdwrite[e]
  BY <1>1
<1>4. Placed(r, s, d)
  BY <1>1, <1>2, <1>3 DEF Placed
<1> QED
  BY <1>4 DEF r, d

LEMMA PlaceInRow ==
  ASSUME NEW start, start.goff \in Nat, NEW s, InRow(s, start), s.i \in Slots,
         NEW d, d.size \in Nat, NEW r, Placed(r, s, d)
  PROVE  InRow(r, start)
<1>1. s.i \in Nat /\ s.goff \in Nat /\ start.goff <= s.goff /\ DOMAIN s.mtdwrite = Slots
  BY DEF InRow
<1>2. /\ r.i = s.i + 1 /\ r.goff = s.goff + d.size /\ DOMAIN r.mtdwrite = Slots /\ r.mtdwrite[s.i] = d
      /\ \A e \in Slots : e # s.i => r.mtdwrite[e] = s.mtdwrite[e]
      /\ d.off = s.goff
  BY DEF Placed
<1>3. \A e \in Slots : e \in Nat
  BY SizesAssumption DEF Slots
<1>4. ASSUME NEW e \in Slots, ~(e < r.i) PROVE r.mtdwrite[e] = NoEntry
  <2>1. ~(e < s.i) /\ e # s.i
    BY <1>1, <1>2, <1>3, <1>4
  <2> QED
    BY <1>2, <2>1 DEF InRow
<1>5. ASSUME NEW e \in Slots, e < r.i
      PROVE  /\ r.mtdwrite[e].off \in Nat /\ r.mtdwrite[e].size \in Nat
             /\ start.goff <= r.mtdwrite[e].off /\ r.mtdwrite[e].off + r.mtdwrite[e].size <= r.goff
  <2>1. CASE e = s.i
    BY <1>1, <1>2, <2>1
  <2>2. CASE e # s.i
    <3>1. e < s.i /\ r.mtdwrite[e] = s.mtdwrite[e]
      BY <1>1, <1>2, <1>3, <1>5, <2>2
    <3>2. /\ s.mtdwrite[e].off \in Nat /\ s.mtdwrite[e].size \in Nat
          /\ start.goff <= s.mtdwrite[e].off
          /\ s.mtdwrite[e].off + s.mtdwrite[e].size <= s.goff
      BY <3>1 DEF InRow
    <3> QED
      BY <1>1, <1>2, <3>1, <3>2
  <2> QED
    BY <2>1, <2>2
<1>6. ASSUME NEW e \in Slots, NEW f \in Slots, e < f, f < r.i
      PROVE  r.mtdwrite[e].off + r.mtdwrite[e].size <= r.mtdwrite[f].off
  <2>1. e < s.i /\ e # s.i
    BY <1>1, <1>2, <1>3, <1>6
  <2>2. r.mtdwrite[e] = s.mtdwrite[e] /\ s.mtdwrite[e].off + s.mtdwrite[e].size <= s.goff
    BY <1>2, <2>1 DEF InRow
  <2>3. CASE f = s.i
    BY <1>2, <2>2, <2>3
  <2>4. CASE f # s.i
    <3>0. f < s.i
      BY <1>1, <1>2, <1>3, <1>6, <2>4
    <3>1. f < s.i /\ r.mtdwrite[f] = s.mtdwrite[f]
      BY <1>2, <2>4, <3>0
    <3>2. s.mtdwrite[e].off + s.mtdwrite[e].size <= s.mtdwrite[f].off
      BY <1>6, <3>1 DEF InRow
    <3> QED
      BY <2>2, <3>1, <3>2
  <2> QED
    BY <2>3, <2>4
<1>7. r.i \in Nat /\ r.goff \in Nat /\ start.goff <= r.goff
  BY <1>1, <1>2
<1> QED
  BY <1>2, <1>4, <1>5, <1>6, <1>7 DEF InRow

LEMMA PlaceListed ==
  ASSUME NEW start, start.goff \in Nat, start.mtdparts \in Seq(Nat),
         NEW s, InRow(s, start), Listed(s, start), s.i \in Slots,
         NEW d, d.size \in Nat, NEW r, Placed(r, s, d)
  PROVE  Listed(r, start)
<1> DEFINE p == s.mtdparts
           q == r.mtdparts
           size == d.size
           l0 == Len(start.mtdparts)
           t0 == Total(start.mtdparts)
           g0 == start.goff
<1>1. s.i \in Nat /\ s.goff \in Nat /\ DOMAIN s.mtdwrite = Slots
  BY DEF InRow
<1>2. /\ r.i = s.i + 1 /\ r.goff = s.goff + size /\ q = Append(p, size) /\ r.mtdwrite[s.i] = d
      /\ \A e \in Slots : e # s.i => r.mtdwrite[e] = s.mtdwrite[e]
      /\ d.off = s.goff
  BY DEF Placed
<1>3. l0 \in Nat /\ t0 \in Nat
  BY SumsAppend, SMTT(20)
<1>4. p \in Seq(Nat) /\ Len(p) = l0 + s.i /\ Total(p) + g0 = s.goff + t0
  BY DEF Listed
<1>5. /\ q \in Seq(Nat) /\ Len(q) = Len(p) + 1
      /\ \A n \in 1 .. Len(p) : q[n] = p[n]
      /\ q[Len(p) + 1] = size
      /\ \A n \in 0 .. Len(p) : Sums(q)[n] = Sums(p)[n]
      /\ Total(p) \in Nat /\ Total(q) = Total(p) + size
  <2>1. p \in Seq(Nat)
    BY <1>4
  <2> HIDE DEF p, q
  <2> QED
    BY <1>2, <2>1, SumsAppend
<1>6. \A e \in Slots : e < s.i => p[l0 + e + 1] = s.mtdwrite[e].size
                                  /\ Sums(p)[l0 + e] + g0 = s.mtdwrite[e].off + t0
  BY DEF Listed
<1>7. Sums(p)[Len(p)] = Total(p)
  BY DEF Total
<1>8. \A e \in Slots : e \in Nat
  BY SizesAssumption DEF Slots
<1>9. g0 \in Nat /\ size \in Nat
  OBVIOUS
<1> HIDE DEF p, q, size, l0, t0, g0
<1>10. Len(q) = l0 + r.i
  BY <1>1, <1>2, <1>3, <1>4, <1>5
<1>11. Total(q) + g0 = r.goff + t0
  <2> DEFINE sGoff == s.goff
             rGoff == r.goff
             pTotal == Total(p)
             qTotal == Total(q)
  <2>1. /\ pTotal + g0 = sGoff + t0 /\ qTotal = pTotal + size /\ rGoff = sGoff + size
        /\ sGoff \in Nat /\ pTotal \in Nat
    BY <1>1, <1>2, <1>4, <1>5
  <2> HIDE DEF sGoff, rGoff, pTotal, qTotal
  <2>2. qTotal + g0 = rGoff + t0
    BY <1>3, <1>9, <2>1
  <2> QED
    BY <2>2 DEF sGoff, rGoff, pTotal, qTotal
<1>12. ASSUME NEW e \in Slots, e < r.i
       PROVE  q[l0 + e + 1] = r.mtdwrite[e].size /\ Sums(q)[l0 + e] + g0 = r.mtdwrite[e].off + t0
  <2>1. CASE e = s.i
    <3>1. l0 + e = Len(p) /\ l0 + e \in 0 .. Len(p)
      BY <1>1, <1>3, <1>4, <2>1
    <3>2. q[l0 + e + 1] = size /\ Sums(q)[l0 + e] = Total(p)
      BY <1>5, <1>7, <3>1
    <3>3. r.mtdwrite[e].size = size /\ r.mtdwrite[e].off = s.goff
      BY <1>2, <2>1 DEF size
    <3> QED
      BY <1>4, <3>2, <3>3
  <2>2. CASE e # s.i
    <3>1. e < s.i /\ r.mtdwrite[e] = s.mtdwrite[e]
      BY <1>1, <1>2, <1>8, <1>12, <2>2
    <3>2. l0 + e \in 0 .. Len(p) /\ l0 + e + 1 \in 1 .. Len(p)
      <4>1. e \in Nat /\ Len(p) = l0 + s.i
        BY <1>4, <1>8
      <4> QED
        BY <1>1, <1>3, <3>1, <4>1
    <3>3. q[l0 + e + 1] = p[l0 + e + 1] /\ Sums(q)[l0 + e] = Sums(p)[l0 + e]
      BY <1>5, <3>2
    <3> QED
      BY <1>6, <3>1, <3>3
  <2> QED
    BY <2>1, <2>2
<1> QED
  BY <1>5, <1>10, <1>11, <1>12 DEF Listed, q, l0, t0, g0

LEMMA PlaceMarked ==
  ASSUME NEW start, start.mtdparts \in Seq(Nat),
         NEW s, InRow(s, start), Listed(s, start), Marked(s, start), s.i \in Slots,
         NEW d, d.size \in Nat, NEW r, Placed(r, s, d)
  PROVE  Marked(r, start)
<1> DEFINE l0 == Len(start.mtdparts)
<1>1. s.i \in Nat /\ s.goff \in Nat /\ DOMAIN s.mtdwrite = Slots
  BY DEF InRow
<1>2. /\ r.i = s.i + 1 /\ r.mtdwrite[s.i] = d
      /\ \A e \in Slots : e # s.i => r.mtdwrite[e] = s.mtdwrite[e]
      /\ d.off = s.goff
  BY DEF Placed
<1>3. /\ r.root_part = (IF d.name = "rootfs" THEN Len(s.mtdparts) ELSE s.root_part)
      /\ r.kernel_part = (IF d.name = "kernel" THEN s.i ELSE s.kernel_part)
      /\ r.env_at = (IF d.name = "boot" THEN s.goff + d.size ELSE s.env_at)
  BY DEF Placed
<1>4. Len(s.mtdparts) = l0 + s.i
  BY DEF Listed
<1>5. \A e \in Slots : e \in Nat
  BY SizesAssumption DEF Slots
<1>6. ASSUME NEW e \in Slots, e < s.i PROVE e < r.i /\ r.mtdwrite[e] = s.mtdwrite[e]
  BY <1>1, <1>2, <1>5, <1>6
<1>7. s.i < r.i
  BY <1>1, <1>2
<1> HIDE DEF l0
<1>8. r.root_part = -1 \/ \E e \in Slots : /\ e < r.i /\ r.mtdwrite[e].name = "rootfs"
                                           /\ r.root_part = l0 + e
  <2>1. CASE d.name = "rootfs"
    BY <1>2, <1>3, <1>4, <1>7, <2>1
  <2>2. CASE d.name # "rootfs"
    <3>1. s.root_part = -1 \/ \E e \in Slots : /\ e < s.i /\ s.mtdwrite[e].name = "rootfs"
                                               /\ s.root_part = l0 + e
      BY DEF Marked, l0
    <3> QED
      BY <1>3, <1>6, <2>2, <3>1
  <2> QED
    BY <2>1, <2>2
<1>9. r.kernel_part = -1 \/ /\ r.kernel_part \in Slots /\ r.kernel_part < r.i
                            /\ r.mtdwrite[r.kernel_part].name = "kernel"
  <2>1. CASE d.name = "kernel"
    BY <1>2, <1>3, <1>7, <2>1
  <2>2. CASE d.name # "kernel"
    BY <1>3, <1>6, <2>2 DEF Marked
  <2> QED
    BY <2>1, <2>2
<1>10. r.env_at = -1 \/ \E e \in Slots : /\ e < r.i /\ r.mtdwrite[e].name = "boot"
                                         /\ r.env_at = r.mtdwrite[e].off + r.mtdwrite[e].size
  <2>1. CASE d.name = "boot"
    BY <1>2, <1>3, <1>7, <2>1
  <2>2. CASE d.name # "boot"
    <3>1. s.env_at = -1 \/ \E e \in Slots : /\ e < s.i /\ s.mtdwrite[e].name = "boot"
                                            /\ s.env_at = s.mtdwrite[e].off + s.mtdwrite[e].size
      BY DEF Marked
    <3> QED
      BY <1>3, <1>6, <2>2, <3>1
  <2> QED
    BY <2>1, <2>2
<1>11. ASSUME r.env_at = -1, NEW e \in Slots, e < r.i PROVE r.mtdwrite[e].name # "boot"
  <2>1. d.name # "boot" /\ s.env_at = -1
    <3>1. s.goff + d.size # -1
      BY <1>1
    <3> QED
      BY <1>3, <1>11, <3>1
  <2>2. CASE e = s.i
    BY <1>2, <2>1, <2>2
  <2>3. CASE e # s.i
    <3>1. e < s.i
      BY <1>1, <1>2, <1>5, <1>11, <2>3
    <3> QED
      BY <1>6, <2>1, <3>1 DEF Marked
  <2> QED
    BY <2>2, <2>3
<1> QED
  BY <1>8, <1>9, <1>10, <1>11 DEF Marked, l0

-----------------------------------------------------------------------------
(* The entries of a layout. *)

ImageEntry(at, part) == Entry(part.name, at, Room(part), Padded(part))
CopyEntry(at, env) == Entry("env", at, EraseSize, EnvCells(env))

Chained(s, start) == InRow(s, start) /\ Listed(s, start) /\ Marked(s, start)

LEMMA PlaceChained ==
  ASSUME NEW start, start.goff \in Nat, start.mtdparts \in Seq(Nat),
         NEW s, Chained(s, start), s.i \in Slots, NEW d, d.size \in Nat, NEW r, Placed(r, s, d)
  PROVE  Chained(r, start)
<1>1. InRow(s, start) /\ Listed(s, start) /\ Marked(s, start)
  BY DEF Chained
<1>2. InRow(r, start)
  BY <1>1, PlaceInRow
<1>3. Listed(r, start)
  BY <1>1, PlaceListed
<1>4. Marked(r, start)
  BY <1>1, PlaceMarked
<1> QED
  BY <1>2, <1>3, <1>4 DEF Chained

\* AddPart places one entry, or two for a boot loader.
LEMMA AddPartIs ==
  ASSUME NEW s, DOMAIN s.mtdwrite = Slots, s.i \in Nat, NEW part, NEW env,
         s.i + Takes(part) <= MaxBlocks
  PROVE  /\ s.i \in Slots
         /\ \E put : /\ Placed(put, s, ImageEntry(s.goff, part))
                     /\ part.name = "boot" =>
                          /\ put.i \in Slots
                          /\ Placed(AddPart(s, part, env), put, CopyEntry(put.goff, env))
                     /\ part.name # "boot" => AddPart(s, part, env) = put
<1> DEFINE put == Place(s, part.name, Room(part), Padded(part))
<1>1. s.i \in Slots /\ (part.name = "boot" => s.i + 1 \in Slots)
  BY SizesAssumption DEF Takes, Slots
<1>2. Placed(put, s, ImageEntry(s.goff, part))
  BY <1>1, PlaceIs DEF ImageEntry
<1>3. put.i = s.i + 1 /\ DOMAIN put.mtdwrite = Slots
  BY <1>2 DEF Placed
<1>4. AddPart(s, part, env)
        = IF part.name = "boot" THEN Place(put, "env", EraseSize, EnvCells(env)) ELSE put
  BY DEF AddPart
<1> HIDE DEF put
<1>5. ASSUME part.name = "boot"
      PROVE  put.i \in Slots /\ Placed(AddPart(s, part, env), put, CopyEntry(put.goff, env))
  <2>1. put.i \in Slots
    BY <1>1, <1>3, <1>5
  <2>2. Placed(Place(put, "env", EraseSize, EnvCells(env)), put, CopyEntry(put.goff, env))
    BY <1>3, <2>1, PlaceIs DEF CopyEntry
  <2> QED
    BY <1>4, <1>5, <2>1, <2>2
<1> QED
  BY <1>1, <1>2, <1>4, <1>5

LEMMA EntrySizes ==
  ASSUME NEW part, PartOK(part), NEW at, NEW env
  PROVE  ImageEntry(at, part).size \in Nat /\ CopyEntry(at, env).size \in Nat
<1>1. ImageEntry(at, part).size = Room(part) /\ CopyEntry(at, env).size = EraseSize
  BY DEF ImageEntry, CopyEntry, Entry
<1>2. Room(part) \in Nat /\ EraseSize \in Nat
  BY RoomIs, SizesAssumption
<1> QED
  BY <1>1, <1>2

LEMMA AddPartChained ==
  ASSUME NEW start, start.goff \in Nat, start.mtdparts \in Seq(Nat),
         NEW s, Chained(s, start), NEW part, PartOK(part), NEW env,
         s.i + Takes(part) <= MaxBlocks
  PROVE  Chained(AddPart(s, part, env), start)
<1>1. DOMAIN s.mtdwrite = Slots /\ s.i \in Nat
  BY DEF Chained, InRow
<1>2. s.i \in Slots
  BY <1>1, AddPartIs
<1>3. PICK put : /\ Placed(put, s, ImageEntry(s.goff, part))
                 /\ part.name = "boot" =>
                      /\ put.i \in Slots
                      /\ Placed(AddPart(s, part, env), put, CopyEntry(put.goff, env))
                 /\ part.name # "boot" => AddPart(s, part, env) = put
  BY <1>1, AddPartIs
<1>4. Chained(put, start)
  BY <1>2, <1>3, EntrySizes, PlaceChained
<1>5. CASE part.name = "boot"
  BY <1>3, <1>4, <1>5, EntrySizes, PlaceChained
<1> QED
  BY <1>3, <1>4, <1>5

LEMMA LayOutNext ==
  ASSUME NEW b, BundleOK(b), NEW part, NEW env, NEW n \in 0 .. Len(b.parts) - 1
  PROVE  /\ LayOut(b, part, env)[n].i \in Nat
         /\ LayOut(b, part, env)[n].i + Takes(b.parts[n + 1]) <= MaxBlocks
         /\ LayOut(b, part, env)[n + 1] = AddPart(LayOut(b, part, env)[n], b.parts[n + 1], env)
         /\ PartOK(b.parts[n + 1])
<1>1. n \in 0 .. Len(b.parts) /\ n + 1 \in 0 .. Len(b.parts) /\ n + 1 \in 1 .. Len(b.parts)
  BY BundleLens
<1>2. PartOK(b.parts[n + 1])
  BY <1>1, BundleShape
<1>3. LayOut(b, part, env)[n].i \in Nat
  BY <1>1, SameCount
<1>4. LayOut(b, part, env)[n + 1] = AddPart(LayOut(b, part, env)[n], b.parts[n + 1], env)
  BY LayOutAt, Zenon
<1>5. LayOut(b, part, env)[n + 1].i <= MaxBlocks
  BY <1>1, EntriesFit
<1>6. LayOut(b, part, env)[n + 1].i = LayOut(b, part, env)[n].i + Takes(b.parts[n + 1])
  BY <1>3, <1>4, AddPartCount
<1> QED
  BY <1>2, <1>3, <1>4, <1>5, <1>6

LEMMA LayOutFirst ==
  ASSUME NEW b, BundleOK(b), NEW part, PartialTable(part), NEW env
  PROVE  /\ LayOut(b, part, env)[0] = NothingLaid(b, part)
         /\ NothingLaid(b, part).i = 0 /\ NothingLaid(b, part).env_at = -1
         /\ Chained(NothingLaid(b, part), Start(b, part))
<1> DEFINE s == NothingLaid(b, part)
           start == Start(b, part)
<1>1. LayOut(b, part, env)[0] = s
  BY LayOutAt, Zenon
<1>2. /\ s.i = 0 /\ s.goff = start.goff /\ s.mtdparts = start.mtdparts
      /\ s.mtdwrite = [e \in Slots |-> NoEntry]
      /\ s.root_part = -1 /\ s.kernel_part = -1 /\ s.env_at = -1
  BY DEF NothingLaid
<1>3. start.goff \in Nat /\ start.mtdparts \in Seq(Nat)
  BY StartIs
<1> HIDE DEF s, start
<1>4. \A e \in Slots : ~(e < s.i)
  BY <1>2, SizesAssumption DEF Slots
<1>5. InRow(s, start)
  BY <1>2, <1>3, <1>4 DEF InRow
<1>6. Listed(s, start)
  <2>1. s.mtdparts \in Seq(Nat) /\ Len(s.mtdparts) = Len(start.mtdparts) + s.i
    BY <1>2, <1>3
  <2>2. Total(start.mtdparts) \in Nat
    BY <1>3, SumsAppend
  <2>3. Total(s.mtdparts) + start.goff = s.goff + Total(start.mtdparts)
    BY <1>2, <1>3, <2>2
  <2> QED
    BY <1>4, <2>1, <2>3 DEF Listed
<1>7. Marked(s, start)
  BY <1>2, <1>4 DEF Marked
<1>8. Chained(s, start)
  BY <1>5, <1>6, <1>7 DEF Chained
<1> QED
  BY <1>1, <1>2, <1>8 DEF s, start

LEMMA LayOutChained ==
  ASSUME NEW b, BundleOK(b), NEW part, PartialTable(part), NEW env, NEW n \in 0 .. Len(b.parts)
  PROVE  Chained(LayOut(b, part, env)[n], Start(b, part))
<1> DEFINE Sofar(m) == Chained(LayOut(b, part, env)[m], Start(b, part))
           Bad == {m \in 0 .. Len(b.parts) : ~Sofar(m)}
<1>1. Len(b.parts) \in Nat
  BY BundleLens
<1>2. Sofar(0)
  BY LayOutFirst
<1>3. ASSUME NEW m \in 0 .. Len(b.parts) - 1, Sofar(m) PROVE Sofar(m + 1)
  <2>1. Start(b, part).goff \in Nat /\ Start(b, part).mtdparts \in Seq(Nat)
    BY StartIs
  <2>2. /\ LayOut(b, part, env)[m].i + Takes(b.parts[m + 1]) <= MaxBlocks
        /\ LayOut(b, part, env)[m + 1] = AddPart(LayOut(b, part, env)[m], b.parts[m + 1], env)
        /\ PartOK(b.parts[m + 1])
    BY LayOutNext
  <2> QED
    BY <1>3, <2>1, <2>2, AddPartChained
<1> HIDE DEF Sofar
<1>4. ASSUME Bad # {} PROVE FALSE
  <2>1. Bad \in SUBSET Nat
    OBVIOUS
  <2>2. PICK m \in Bad : \A y \in Bad : m <= y
    BY <1>4, <2>1, LeastNat
  <2>3. m \in 0 .. Len(b.parts) /\ ~Sofar(m) /\ m # 0
    BY <1>2, <2>2
  <2> DEFINE k == m - 1
  <2>4. k \in 0 .. Len(b.parts) /\ k \in 0 .. Len(b.parts) - 1 /\ k + 1 = m /\ ~(m <= k)
    BY <1>1, <2>3
  <2> HIDE DEF k
  <2>5. Sofar(k)
    BY <2>2, <2>4
  <2> QED
    BY <1>3, <2>3, <2>4, <2>5
<1>5. Sofar(n)
  BY <1>4
<1> QED
  BY <1>5 DEF Sofar

\* Entry d holds the image of b's n-th part, or the environment behind it.
HoldsPart(b, part, env, n, d) ==
  LET at == LayOut(b, part, env)[n - 1].goff IN
  \/ d = ImageEntry(at, b.parts[n])
  \/ b.parts[n].name = "boot" /\ d = CopyEntry(at + Room(b.parts[n]), env)

Filled(b, part, env, n) ==
  LET s == LayOut(b, part, env)[n] IN
  /\ \A e \in Slots : e < s.i => \E k \in 1 .. n : HoldsPart(b, part, env, k, s.mtdwrite[e])
  /\ s.env_at # -1 => \E e \in Slots : e < s.i /\ s.mtdwrite[e] = CopyEntry(s.env_at, env)

Held(b, part, env, n, s) ==
  \A e \in Slots : e < s.i => \E k \in 1 .. n : HoldsPart(b, part, env, k, s.mtdwrite[e])

LEMMA HeldOnceMore ==
  ASSUME NEW b, NEW part, NEW env, NEW n \in Nat, NEW s, s.i \in Nat, Held(b, part, env, n, s),
         NEW r, NEW d, Placed(r, s, d), NEW k \in 1 .. n, HoldsPart(b, part, env, k, d)
  PROVE  Held(b, part, env, n, r) /\ r.i \in Nat
<1>1. SUFFICES ASSUME NEW e \in Slots, e < r.i
               PROVE  \E l \in 1 .. n : HoldsPart(b, part, env, l, r.mtdwrite[e])
  BY DEF Held, Placed
<1>2. /\ r.i = s.i + 1 /\ r.mtdwrite[s.i] = d
      /\ \A f \in Slots : f # s.i => r.mtdwrite[f] = s.mtdwrite[f]
  BY DEF Placed
<1>3. CASE e = s.i
  BY <1>2, <1>3
<1>4. CASE e # s.i
  <2>1. e \in Nat
    BY SizesAssumption DEF Slots
  <2>2. e < s.i
    BY <1>1, <1>2, <1>4, <2>1
  <2>3. r.mtdwrite[e] = s.mtdwrite[e]
    BY <1>2, <1>4
  <2> QED
    BY <2>2, <2>3 DEF Held
<1> QED
  BY <1>3, <1>4

LEMMA FilledNext ==
  ASSUME NEW b, BundleOK(b), NEW part, PartialTable(part), NEW env,
         NEW n \in 0 .. Len(b.parts) - 1, Filled(b, part, env, n)
  PROVE  Filled(b, part, env, n + 1)
<1> DEFINE s == LayOut(b, part, env)[n]
           r == LayOut(b, part, env)[n + 1]
           p == b.parts[n + 1]
<1>1. /\ s.i \in Nat /\ s.i + Takes(p) <= MaxBlocks /\ r = AddPart(s, p, env) /\ PartOK(p)
  BY LayOutNext
<1>2. Len(b.parts) \in Nat /\ n \in 0 .. Len(b.parts) /\ n \in Nat /\ n + 1 \in 1 .. n + 1
      /\ n + 1 \in Nat /\ (n + 1) - 1 = n
  BY BundleLens
<1>3. DOMAIN s.mtdwrite = Slots /\ s.goff \in Nat
  BY <1>2, LayOutChained DEF Chained, InRow
<1>4. /\ s.i \in Slots
      /\ \E put : /\ Placed(put, s, ImageEntry(s.goff, p))
                  /\ p.name = "boot" => /\ put.i \in Slots
                                        /\ Placed(r, put, CopyEntry(put.goff, env))
                  /\ p.name # "boot" => r = put
  <2> HIDE DEF s, p
  <2> QED
    BY <1>1, <1>3, AddPartIs
<1>5. PICK put : /\ Placed(put, s, ImageEntry(s.goff, p))
                 /\ p.name = "boot" => put.i \in Slots /\ Placed(r, put, CopyEntry(put.goff, env))
                 /\ p.name # "boot" => r = put
  BY <1>4
<1>6. put.goff = s.goff + Room(p) /\ put.i = s.i + 1 /\ put.mtdwrite[s.i] = ImageEntry(s.goff, p)
      /\ put.env_at = (IF p.name = "boot" THEN s.goff + Room(p) ELSE s.env_at)
      /\ \A e \in Slots : e # s.i => put.mtdwrite[e] = s.mtdwrite[e]
  <2>1. ImageEntry(s.goff, p).size = Room(p) /\ ImageEntry(s.goff, p).name = p.name
    BY DEF ImageEntry, Entry
  <2> QED
    BY <1>5, <2>1 DEF Placed
<1>7. /\ HoldsPart(b, part, env, n + 1, ImageEntry(s.goff, p))
      /\ p.name = "boot" => HoldsPart(b, part, env, n + 1, CopyEntry(put.goff, env))
  <2> DEFINE at == LayOut(b, part, env)[(n + 1) - 1].goff
  <2>1. at = s.goff
    BY <1>2
  <2> HIDE DEF at
  <2>2. at + Room(p) = put.goff
    BY <1>6, <2>1
  <2> QED
    BY <2>1, <2>2 DEF HoldsPart, at
<1>8. /\ Held(b, part, env, n, s)
      /\ s.env_at # -1 => \E e \in Slots : e < s.i /\ s.mtdwrite[e] = CopyEntry(s.env_at, env)
  BY DEF Filled, Held
<1> HIDE DEF s, r, p
<1>9. Held(b, part, env, n + 1, s)
  <2>1. \A k \in 1 .. n : k \in 1 .. n + 1
    BY <1>2
  <2> QED
    BY <1>8, <2>1 DEF Held
<1>10. Held(b, part, env, n + 1, put) /\ put.i \in Nat
  BY <1>1, <1>2, <1>5, <1>7, <1>9, HeldOnceMore
<1>11. Held(b, part, env, n + 1, r)
  BY <1>2, <1>5, <1>7, <1>10, HeldOnceMore
<1>12. r.env_at # -1 => \E e \in Slots : e < r.i /\ r.mtdwrite[e] = CopyEntry(r.env_at, env)
  <2>1. CASE p.name = "boot"
    <3>1. Placed(r, put, CopyEntry(put.goff, env)) /\ put.i \in Slots
      BY <1>5, <2>1
    <3>2. CopyEntry(put.goff, env).name = "env"
      BY DEF CopyEntry, Entry
    <3>3. r.i = put.i + 1 /\ r.mtdwrite[put.i] = CopyEntry(put.goff, env) /\ r.env_at = put.env_at
      BY <3>1, <3>2 DEF Placed
    <3>4. put.env_at = put.goff /\ put.i < r.i
      BY <1>6, <1>10, <2>1, <3>3
    <3> QED
      BY <3>1, <3>3, <3>4
  <2>2. CASE p.name # "boot"
    <3>1. r = put /\ put.env_at = s.env_at
      BY <1>5, <1>6, <2>2
    <3>2. ASSUME NEW e \in Slots, e < s.i PROVE e < r.i /\ r.mtdwrite[e] = s.mtdwrite[e]
      <4>1. e \in Nat
        BY SizesAssumption DEF Slots
      <4> QED
        BY <1>1, <1>6, <3>1, <3>2, <4>1
    <3> QED
      BY <1>8, <3>1, <3>2
  <2> QED
    BY <2>1, <2>2
<1> QED
  BY <1>11, <1>12 DEF Filled, Held, r

LEMMA LayOutFilled ==
  ASSUME NEW b, BundleOK(b), NEW part, PartialTable(part), NEW env, NEW n \in 0 .. Len(b.parts)
  PROVE  Filled(b, part, env, n)
<1> DEFINE Bad == {m \in 0 .. Len(b.parts) : ~Filled(b, part, env, m)}
<1>1. Len(b.parts) \in Nat
  BY BundleLens
<1>2. Filled(b, part, env, 0)
  <2>1. LayOut(b, part, env)[0].i = 0 /\ LayOut(b, part, env)[0].env_at = -1
    BY LayOutFirst
  <2>2. \A e \in Slots : ~(e < 0)
    BY SizesAssumption DEF Slots
  <2> QED
    BY <2>1, <2>2 DEF Filled
<1>3. ASSUME Bad # {} PROVE FALSE
  <2>1. Bad \in SUBSET Nat
    OBVIOUS
  <2>2. PICK m \in Bad : \A y \in Bad : m <= y
    BY <1>3, <2>1, LeastNat
  <2>3. m \in 0 .. Len(b.parts) /\ ~Filled(b, part, env, m) /\ m # 0
    BY <1>2, <2>2
  <2> DEFINE k == m - 1
  <2>4. k \in 0 .. Len(b.parts) /\ k \in 0 .. Len(b.parts) - 1 /\ k + 1 = m /\ ~(m <= k)
    BY <1>1, <2>3
  <2> HIDE DEF k
  <2>5. Filled(b, part, env, k)
    BY <2>2, <2>4
  <2> QED
    BY <2>3, <2>4, <2>5, FilledNext
<1> QED
  BY <1>3

RawEntry(d) ==
  /\ d.off \in Nat /\ d.size \in Nat /\ d.is_ubi = FALSE /\ d.vol_id = 0 /\ d.name # Unnamed
  /\ \E q \in Nat \ {0} : d.size = q * EraseSize
  /\ \A x \in 0 .. d.size - 1 : d.data[x] \in Data

LEMMA PartEntry ==
  ASSUME Storable, NEW b, BundleOK(b), NEW part, PartialTable(part), NEW env \in Envs,
         NEW n \in 1 .. Len(b.parts), NEW d, HoldsPart(b, part, env, n, d)
  PROVE  RawEntry(d)
<1> DEFINE at == LayOut(b, part, env)[n - 1].goff
           p == b.parts[n]
<1>1. n - 1 \in 0 .. Len(b.parts)
  BY BundleLens
<1>2. at \in Nat
  BY <1>1, LayOutChained DEF Chained, InRow
<1>3. PartOK(p)
  BY BundleShape
<1>4. d = ImageEntry(at, p) \/ d = CopyEntry(at + Room(p), env)
  BY DEF HoldsPart
<1> HIDE DEF at, p
<1>5. Room(p) \in Nat /\ \E q \in Nat \ {0} : Room(p) = q * EraseSize
  BY <1>3, RoomIs
<1>6. p.name # Unnamed
  BY <1>3, Zenon DEF PartOK
<1>7. CASE d = ImageEntry(at, p)
  <2>1. /\ d.name = p.name /\ d.off = at /\ d.size = Room(p) /\ d.data = Padded(p)
        /\ d.is_ubi = FALSE /\ d.vol_id = 0
    BY <1>7 DEF ImageEntry, Entry
  <2>2. \A x \in 0 .. Room(p) - 1 : Padded(p)[x] \in Data
    BY <1>3, PaddedIs
  <2> QED
    BY <1>2, <1>5, <1>6, <2>1, <2>2 DEF RawEntry
<1>8. CASE d = CopyEntry(at + Room(p), env)
  <2>1. /\ d.name = "env" /\ d.off = at + Room(p) /\ d.size = EraseSize /\ d.data = EnvCells(env)
        /\ d.is_ubi = FALSE /\ d.vol_id = 0
    BY <1>8 DEF CopyEntry, Entry
  <2>2. \A x \in 0 .. EraseSize - 1 : EnvCells(env)[x] \in Data
    BY DEF Storable
  <2>3. EraseSize \in Nat /\ EraseSize = 1 * EraseSize /\ 1 \in Nat \ {0}
    BY SizesAssumption
  <2>4. d.name # Unnamed
    BY <2>1, Zenon DEF Unnamed
  <2> QED
    BY <1>2, <1>5, <2>1, <2>2, <2>3, <2>4 DEF RawEntry
<1> QED
  BY <1>4, <1>7, <1>8

\* What is known of entry e of the plan that b's layout makes.
LEMMA LaidPart ==
  ASSUME Storable, NEW b, BundleOK(b), NEW part, PartialTable(part), NEW env \in Envs,
         NEW e \in Slots, NEW d, d = Laid(b, part, env).mtdwrite[e], e < Laid(b, part, env).i
  PROVE  \E n \in 1 .. Len(b.parts) : HoldsPart(b, part, env, n, d)
<1>1. Len(b.parts) \in 0 .. Len(b.parts)
  BY BundleLens
<1>2. Filled(b, part, env, Len(b.parts))
  BY <1>1, LayOutFilled
<1> QED
  BY <1>2 DEF Filled, Laid

LEMMA LaidEntry ==
  ASSUME Storable, NEW b, BundleOK(b), NEW part, PartialTable(part), NEW env \in Envs,
         NEW e \in Slots, NEW d, d = Laid(b, part, env).mtdwrite[e]
  PROVE  /\ Laid(b, part, env).i \in Nat
         /\ e < Laid(b, part, env).i => RawEntry(d)
         /\ ~(e < Laid(b, part, env).i) => d = NoEntry
<1> DEFINE s == Laid(b, part, env)
<1>1. InRow(s, Start(b, part))
  BY BundleLens, LayOutChained DEF Chained, Laid
<1>2. s.i \in Nat /\ (~(e < s.i) => d = NoEntry)
  BY <1>1 DEF InRow
<1>3. ASSUME e < s.i PROVE RawEntry(d)
  <2>1. PICK n \in 1 .. Len(b.parts) : HoldsPart(b, part, env, n, d)
    BY <1>3, LaidPart
  <2> QED
    BY <2>1, PartEntry
<1> QED
  BY <1>2, <1>3

JobLaid(j, b, part, env) ==
  j.mtdbackup = Laid(b, part, env).mtdwrite /\ j.part = part /\ j.skip_env = FALSE

LEMMA JobEntry ==
  ASSUME Storable, NEW b, BundleOK(b), NEW part, PartialTable(part), NEW env \in Envs,
         NEW j, JobLaid(j, b, part, env), NEW e \in Slots
  PROVE  /\ ~IsUbi(j, e) /\ EntryOK(j.mtdbackup[e])
         /\ IsRaw(j, e) <=> e < Laid(b, part, env).i
<1> DEFINE s == Laid(b, part, env)
           d == j.mtdbackup[e]
<1>1. d = s.mtdwrite[e]
  BY DEF JobLaid
<1>2. (IsUbi(j, e) <=> d.name # Unnamed /\ d.is_ubi) /\ (IsRaw(j, e) <=> d.name # Unnamed /\ ~d.is_ubi)
  BY DEF IsUbi, IsRaw
<1>3. 0 \in VolIds /\ 0 \in Nat
  BY UpgradeAssumption, SizesAssumption DEF VolIds
<1> HIDE DEF d
<1>4. CASE e < s.i
  <2>1. /\ d.off \in Nat /\ d.size \in Nat /\ d.is_ubi = FALSE /\ d.vol_id = 0 /\ d.name # Unnamed
        /\ \A x \in 0 .. d.size - 1 : d.data[x] \in Data
    <3>1. RawEntry(d)
      BY <1>1, <1>4, LaidEntry
    <3> QED
      BY <3>1 DEF RawEntry
  <2>2. d.vol_id \in VolIds /\ d.is_ubi \in BOOLEAN
    BY <1>3, <2>1
  <2>3. EntryOK(d)
    BY <2>1, <2>2, Zenon DEF EntryOK
  <2> QED
    BY <1>2, <1>4, <2>1, <2>3 DEF d
<1>5. CASE ~(e < s.i)
  <2>1. d = NoEntry
    BY <1>1, <1>5, LaidEntry
  <2>2. d.off = 0 /\ d.size = 0 /\ d.is_ubi = FALSE /\ d.is_ubi \in BOOLEAN /\ d.vol_id = 0
        /\ d.name = Unnamed
    BY <2>1 DEF NoEntry
  <2>3. d.off \in Nat /\ d.size \in Nat /\ d.vol_id \in VolIds
    BY <1>3, <2>2, Zenon
  <2>4. EntryOK(d)
    BY <2>2, <2>3, Zenon DEF EntryOK
  <2> QED
    BY <1>2, <1>5, <2>2, <2>4 DEF d
<1> QED
  BY <1>4, <1>5

LEMMA LaidPlan ==
  ASSUME Storable, NEW b, BundleOK(b), NEW part, PartialTable(part), NEW env \in Envs,
         NEW j, JobLaid(j, b, part, env)
  PROVE  PlanOK(j) /\ PlanDisjoint(j)
<1> DEFINE s == Laid(b, part, env)
<1>1. \A e \in Slots : /\ ~IsUbi(j, e) /\ EntryOK(j.mtdbackup[e])
                       /\ IsRaw(j, e) <=> e < s.i
  BY JobEntry
<1>2. \A m \in Slots : j.part[m].size \in Nat
  BY TableSize DEF JobLaid, PartialTable
<1>3. PlanOK(j)
  BY <1>1, <1>2 DEF PlanOK, JobLaid
<1>4. InRow(s, Start(b, part))
  BY BundleLens, LayOutChained DEF Chained, Laid
<1>5. \A e \in Slots : e \in Nat
  BY SizesAssumption DEF Slots
<1>6. ASSUME NEW e \in Slots, NEW f \in Slots,
             NEW k \in 0 .. Cnt(j, e) - 1, NEW l \in 0 .. Cnt(j, f) - 1,
             IsRaw(j, e), IsRaw(j, f), e < f \/ (e = f /\ k < l)
      PROVE  FindOff(j, e, k) + EraseSize <= FindOff(j, f, l)
  <2> DEFINE at(x) == j.mtdbackup[x].off
             size(x) == j.mtdbackup[x].size
  <2>1. at(e) \in Nat /\ size(e) \in Nat /\ at(f) \in Nat
    BY <1>1 DEF EntryOK
  <2>2. Cnt(j, e) \in Nat /\ Cnt(j, f) \in Nat /\ Cnt(j, e) * EraseSize <= size(e)
    BY <1>3, <2>1, CntType, WholeBlocks
  <2>3. EraseSize \in Nat /\ k \in Nat /\ l \in Nat /\ k < Cnt(j, e) /\ k \in Int /\ l \in Int
    BY <2>2, SizesAssumption
  <2>4. k * EraseSize \in Nat /\ l * EraseSize \in Nat /\ Cnt(j, e) * EraseSize \in Nat
    BY <2>2, <2>3
  <2>5. FindOff(j, e, k) = at(e) + k * EraseSize /\ FindOff(j, f, l) = at(f) + l * EraseSize
    BY DEF FindOff
  <2>6. CASE e < f
    <3>1. k * EraseSize + EraseSize <= Cnt(j, e) * EraseSize
      BY <2>2, <2>3, BlockSteps
    <3>2. f < s.i
      BY <1>1, <1>6
    <3>3. at(e) + size(e) <= at(f)
      BY <1>4, <2>6, <3>2 DEF InRow, JobLaid
    <3> HIDE DEF at, size
    <3> QED
      BY <2>1, <2>2, <2>3, <2>4, <2>5, <3>1, <3>3
  <2>7. CASE e = f /\ k < l
    <3>1. k * EraseSize + EraseSize <= l * EraseSize
      BY <2>3, <2>7, BlockSteps
    <3> HIDE DEF at, size
    <3> QED
      BY <2>1, <2>3, <2>4, <2>5, <2>7, <3>1
  <2> QED
    BY <1>6, <2>6, <2>7
<1>7. ASSUME NEW e \in Slots, NEW f \in Slots,
             NEW k \in 0 .. Cnt(j, e) - 1, NEW l \in 0 .. Cnt(j, f) - 1,
             IsRaw(j, e), IsRaw(j, f), <<e, k>> # <<f, l>>
      PROVE  \/ FindOff(j, e, k) + EraseSize <= FindOff(j, f, l)
             \/ FindOff(j, f, l) + EraseSize <= FindOff(j, e, k)
  <2>1. e \in Int /\ f \in Int /\ k \in Int /\ l \in Int
    BY <1>5
  <2>2. (e < f \/ (e = f /\ k < l)) \/ (f < e \/ (f = e /\ l < k))
    BY <1>7, <2>1
  <2> QED
    BY <1>6, <1>7, <2>2
<1>8. PlanDisjoint(j)
  BY <1>1, <1>7, Zenon DEF PlanDisjoint
<1> QED
  BY <1>3, <1>8

-----------------------------------------------------------------------------
(* What do_flash makes of such a plan. *)

\* When the simulated pass accepts an entry, the first image went where the bundle
\* means it to go, and mtdparts counts from the flash's start.
LEMMA StartAccepted ==
  ASSUME Storable, NEW b, BundleOK(b), NEW part, PartialTable(part), NEW env \in Envs,
         NEW j, JobLaid(j, b, part, env), NEW e \in Slots, e < Laid(b, part, env).i, Accepted(j, e)
  PROVE  /\ Start(b, part) = Start(b, Table) /\ Start(b, part).goff = Begin(b)
         /\ Total(Start(b, part).mtdparts) = Begin(b)
<1> DEFINE s == Laid(b, part, env)
           d == j.mtdbackup[e]
<1>1. d = s.mtdwrite[e]
  BY DEF JobLaid
<1>2. d.off \in Nat /\ d.size \in Nat /\ \E q \in Nat \ {0} : d.size = q * EraseSize
  <2>1. RawEntry(d)
    BY <1>1, LaidEntry
  <2> QED
    BY <2>1 DEF RawEntry
<1>3. Start(b, part).goff <= d.off
  <2>1. InRow(s, Start(b, part))
    BY BundleLens, LayOutChained DEF Chained, Laid
  <2> QED
    BY <1>1, <2>1 DEF InRow
<1>4. IsRaw(j, e)
  BY JobEntry
<1>5. Cnt(j, e) = d.size \div EraseSize
  BY DEF Cnt
<1>6. FindOff(j, e, 0) = d.off + 0 * EraseSize
  BY DEF FindOff
<1> HIDE DEF d
<1>7. 0 \in 0 .. Cnt(j, e) - 1
  <2>1. PICK q \in Nat \ {0} : d.size = q * EraseSize
    BY <1>2
  <2>2. (q * EraseSize) \div EraseSize = q
    BY SizesAssumption
  <2> QED
    BY <1>5, <2>1, <2>2
<1>8. FindOff(j, e, 0) = d.off
  BY <1>2, <1>6, SizesAssumption
<1>9. MapOldNew(part, d.off).dev # NoMtd
  BY <1>4, <1>7, <1>8 DEF Accepted, Target, JobLaid
<1>10. KnownTo(part, Len(b.skip))
  BY <1>2, <1>3, <1>9, AllKnown
<1> QED
  BY <1>10, StartIs

LEMMA HerePlace ==
  ASSUME FlashOK, RawHere, PartialTable(job.part), Erasable(Here)
  PROVE  HereStart = FindOff(job, i, c)
<1>1. InOrder
  BY UpgradeAssumption
<1>2. Here.dev \in MtdNums /\ Here = MapOldNew(job.part, FindOff(job, i, c))
  BY ErasableBlock DEF Here, Target
<1>3. Here.off = FindOff(job, i, c) - Device[Here.dev].base
  BY <1>1, <1>2, MappedPlace DEF PartialTable
<1>4. Device[Here.dev].base \in Nat
  BY <1>2, DeviceTypes
<1>5. FindOff(job, i, c) \in Nat
  BY FindOffType DEF FlashOK, FlashTypes, RawHere
<1> QED
  BY <1>3, <1>4, <1>5 DEF HereStart

\* What a step writes where: data of the entry it is at, in its place on the flash,
\* or no data.
LEMMA WritesWhere ==
  ASSUME FlashOK, Ctl, [FlashNext]_flashVars, PartialTable(job.part),
         \A e \in Slots : ~IsUbi(job, e), NEW u \in Units, flash'[u] # flash[u]
  PROVE  /\ RawHere
         /\ u - job.mtdbackup[i].off \in 0 .. job.mtdbackup[i].size - 1
         /\ \/ flash'[u] \in {Erased, Torn}
            \/ flash'[u] = job.mtdbackup[i].data[u - job.mtdbackup[i].off]
<1> DEFINE d == job.mtdbackup[i]
<1>1. WritesBlock /\ u \in HereUnits
  BY Writes DEF WritesUbi, UbiHere
<1>2. RawHere /\ Erasable(Here) /\ pc \in {"erase", "write"}
  BY <1>1 DEF WritesBlock
<1>3. HereStart = d.off + c * EraseSize
  BY <1>2, HerePlace DEF FindOff
<1>4. HereUnits = HereStart .. HereStart + EraseSize - 1
  BY <1>2, HereBlock
<1>5. d.off \in Nat /\ d.size \in Nat /\ Cnt(job, i) \in Nat /\ Cnt(job, i) * EraseSize <= d.size
  BY <1>2, CntType, WholeBlocks DEF FlashOK, PlanOK, EntryOK, RawHere
<1>6. c \in Nat /\ c < Cnt(job, i) /\ EraseSize \in Nat
  BY <1>2, SizesAssumption DEF FlashOK, FlashTypes, RawHere
<1>7. c * EraseSize + EraseSize <= Cnt(job, i) * EraseSize /\ c * EraseSize \in Nat
      /\ Cnt(job, i) * EraseSize \in Nat
  BY <1>5, <1>6, BlockSteps
<1>8. u \in Nat
  BY SizesAssumption DEF Units
<1> DEFINE x == u - d.off
<1> HIDE DEF d
<1>9. x \in 0 .. d.size - 1 /\ x = c * EraseSize + (u - HereStart) /\ x - c * EraseSize = u - HereStart
  <2> DEFINE at == c * EraseSize
             end == Cnt(job, i) * EraseSize
             off == d.off
             size == d.size
  <2>1. HereStart = off + at /\ u \in HereStart .. HereStart + EraseSize - 1
    BY <1>1, <1>3, <1>4
  <2>2. /\ at \in Nat /\ end \in Nat /\ off \in Nat /\ size \in Nat /\ EraseSize \in Nat
        /\ at + EraseSize <= end /\ end <= size
    BY <1>5, <1>6, <1>7
  <2> HIDE DEF at, end, off, size
  <2>3. u - off \in 0 .. size - 1 /\ u - off = at + (u - HereStart) /\ u - off - at = u - HereStart
    BY <1>8, <2>1, <2>2
  <2> QED
    BY <2>3 DEF at, off, size
<1>10. ASSUME NEW units, NEW y \in {Erased, Torn}, flash' = Fill(units, y)
       PROVE  flash'[u] \in {Erased, Torn}
  BY <1>10, FillOther, FillThere
<1>11. CASE WriteBlock /\ flash' = Put(HereStart, job.mtdbackup[i].data)
  <2>1. u \in HereStart .. HereStart + EraseSize - 1
    BY <1>1, <1>4
  <2>2. flash'[u] = job.mtdbackup[i].data[c * EraseSize + (u - HereStart)]
    BY <1>11, <2>1 DEF Put
  <2> QED
    BY <1>2, <1>9, <2>2 DEF d
<1>12. \/ \E units : \E y \in {Erased, Torn} : flash' = Fill(units, y)
       \/ WriteBlock /\ flash' = Put(HereStart, job.mtdbackup[i].data)
  BY <1>2
  DEF FlashNext, FlashStep, flashVars, Analyse, NextEntry, NextChunk, Finish, EraseBlock,
      EraseFails, WriteBlock, WriteFails, VerifyBlock, VerifyFails, UbiOpen, UbiErase,
      UbiErased, UbiAttach, UbiMkVol, UbiVolUp, UbiWrite, UbiDone, Interrupt
<1> QED
  BY <1>2, <1>9, <1>10, <1>11, <1>12 DEF d

\* Every whole-block entry is on the flash, in its place, when do_flash returns true.
LEMMA AllWritten ==
  ASSUME FlashOK, Ctl, Passed, pc = "true", PartialTable(job.part), job.skip_env = FALSE,
         NEW e \in Slots, IsRaw(job, e),
         NEW q \in Nat, job.mtdbackup[e].size = q * EraseSize,
         NEW x \in 0 .. job.mtdbackup[e].size - 1
  PROVE  /\ job.mtdbackup[e].off + x \in Units
         /\ flash[job.mtdbackup[e].off + x] = job.mtdbackup[e].data[x]
<1> DEFINE d == job.mtdbackup[e]
<1>1. d.off \in Nat /\ d.size \in Nat /\ EraseSize \in Nat \ {0}
  BY SizesAssumption DEF FlashOK, PlanOK, EntryOK
<1>2. Cnt(job, e) = q
  <2>1. (q * EraseSize) \div EraseSize = q
    BY <1>1
  <2> QED
    BY <2>1 DEF Cnt
<1>3. \E k \in 0 .. q - 1, y \in 0 .. EraseSize - 1 : k * EraseSize \in Nat /\ x = k * EraseSize + y
  <2>1. x \in Nat /\ x < q * EraseSize
    BY <1>1
  <2> QED
    BY <2>1, BlockOfUnit
<1>4. PICK k \in 0 .. q - 1, y \in 0 .. EraseSize - 1 : k * EraseSize \in Nat /\ x = k * EraseSize + y
  BY <1>3
<1> DEFINE t == Target(job, e, k)
<1>5. Before(e, k, i, c)
  BY SizesAssumption DEF Before, Ctl, Slots
<1>6. ~Skipped(job, t)
  BY DEF Skipped
<1>7. Erasable(t) /\ Holds(e, k)
  BY <1>2, <1>4, <1>5, <1>6 DEF Passed
<1>8. t.dev \in MtdNums /\ t.off = FindOff(job, e, k) - Device[t.dev].base
      /\ Block(t.dev, t.off) \subseteq Units
  <2>1. InOrder
    BY UpgradeAssumption
  <2>2. t.dev \in MtdNums /\ t = MapOldNew(job.part, FindOff(job, e, k))
        /\ Block(t.dev, t.off) \subseteq Units
    BY <1>7, ErasableBlock DEF Target
  <2> QED
    BY <2>1, <2>2, MappedPlace DEF PartialTable
<1>9. Device[t.dev].base \in Nat
  BY <1>8, DeviceTypes
<1>10. FindOff(job, e, k) = d.off + k * EraseSize
  BY DEF FindOff
<1>11. flash[Device[t.dev].base + t.off + y] = d.data[k * EraseSize + y]
  BY <1>4, <1>7 DEF Holds
<1>12. Device[t.dev].base + t.off + y \in Block(t.dev, t.off)
  <2> HIDE DEF t, d
  <2>1. t.off \in Int
    BY <1>1, <1>4, <1>8, <1>9, <1>10
  <2> QED
    BY <1>1, <1>4, <1>9, <2>1 DEF Block
<1> HIDE DEF t, d
<1>13. Device[t.dev].base + t.off + y = d.off + x
  BY <1>1, <1>4, <1>8, <1>9, <1>10
<1> QED
  BY <1>4, <1>8, <1>11, <1>12, <1>13 DEF d

\* Where the environment is copied to is where do_flash has found room for it.
LEMMA TargetFound ==
  ASSUME FlashOK, Ctl, Passed, pc = "true", PartialTable(job.part), job.skip_env = FALSE,
         NEW e \in Slots, IsRaw(job, e),
         NEW q \in Nat \ {0}, job.mtdbackup[e].size = q * EraseSize
  PROVE  LET t == MapOldNew(job.part, job.mtdbackup[e].off)
         IN  t.dev \in MtdNums /\ t.off = job.mtdbackup[e].off - Device[t.dev].base
<1> DEFINE d == job.mtdbackup[e]
           t == MapOldNew(job.part, d.off)
<1>1. d.off \in Nat /\ d.size \in Nat /\ EraseSize \in Nat \ {0}
  BY SizesAssumption DEF FlashOK, PlanOK, EntryOK
<1>2. Cnt(job, e) = q
  <2>1. (q * EraseSize) \div EraseSize = q
    BY <1>1
  <2> QED
    BY <2>1 DEF Cnt
<1>3. FindOff(job, e, 0) = d.off
  <2>1. FindOff(job, e, 0) = d.off + 0 * EraseSize
    BY DEF FindOff
  <2> HIDE DEF d
  <2> QED
    BY <1>1, <2>1
<1>4. Before(e, 0, i, c) /\ 0 \in 0 .. Cnt(job, e) - 1
  BY <1>2, SizesAssumption DEF Before, Ctl, Slots
<1>5. t = Target(job, e, 0)
  BY <1>3 DEF Target
<1>6. Erasable(t)
  BY <1>4, <1>5 DEF Passed, Skipped
<1>7. t.dev \in MtdNums
  BY <1>6, ErasableBlock
<1>8. t.off = d.off - Device[t.dev].base
  BY <1>7, MappedPlace, UpgradeAssumption DEF PartialTable
<1> QED
  BY <1>7, <1>8 DEF t, d

LEMMA ImagePlace ==
  ASSUME NEW b, BundleOK(b), NEW part, NEW env, Start(b, part) = Start(b, Table),
         NEW n \in 1 .. Len(b.parts)
  PROVE  LET at == LayOut(b, part, env)[n - 1].goff
         IN  /\ \/ at + Room(b.parts[n]) <= EnvBase
                \/ EnvBase + EraseSize <= at
             /\ b.parts[n].name = "boot" => at + Room(b.parts[n]) = EnvBase
<1>1. n - 1 \in 0 .. Len(b.parts) /\ n \in DOMAIN b.parts
  BY BundleLens, BundleShape
<1>2. LayOut(b, part, env)[n - 1].goff = LayOut(b, Table, OldEnv)[n - 1].goff
  BY <1>1, SameLayout
<1>3. FitsCamera(b)
  BY Zenon DEF BundleOK
<1> DEFINE at == LayOut(b, Table, OldEnv)[n - 1].goff
<1>4. /\ at + Room(b.parts[n]) <= EnvBase \/ EnvBase + EraseSize <= at
      /\ b.parts[n].name = "boot" => at + Room(b.parts[n]) = EnvBase
  BY <1>1, <1>3, Zenon DEF FitsCamera
<1> QED
  BY <1>2, <1>4

-----------------------------------------------------------------------------
(* The steps of do_flash. *)

LEMMA PlanReady ==
  ASSUME Storable, Upgrading, step = "flash"
  PROVE  /\ bundle \in Bundles /\ BundleOK(bundle) /\ PartialTable(mtd.part) /\ uenv \in Envs /\ GoodEnv(uenv)
         /\ job.part = mtd.part /\ JobLaid(job, bundle, mtd.part, uenv)
         /\ FlashOK /\ Ctl /\ Passed /\ AnalysisCovers
         /\ \A e \in Slots : ~IsUbi(job, e)
<1>1. bundle \in Bundles /\ PartialTable(mtd.part) /\ GoodEnv(uenv)
      /\ PlannedFrom(Laid(bundle, mtd.part, uenv))
  BY DEF Upgrading, Planned
<1>2. BundleOK(bundle)
  BY <1>1, BundlesAssumption, Zenon
<1>3. uenv \in Envs
  BY <1>1 DEF GoodEnv, Proper
<1>4. job.part = mtd.part /\ JobLaid(job, bundle, mtd.part, uenv)
  BY <1>1, Zenon DEF PlannedFrom, JobLaid
<1>5. PlanOK(job) /\ PlanDisjoint(job)
  BY <1>1, <1>2, <1>3, <1>4, LaidPlan
<1>6. FlashOK
  BY <1>5 DEF Upgrading, FlashOK
<1>7. \A e \in Slots : ~IsUbi(job, e)
  BY <1>1, <1>2, <1>3, <1>4, JobEntry
<1> QED
  BY <1>1, <1>2, <1>3, <1>4, <1>6, <1>7 DEF Upgrading, BlocksWritten

\* A unit of an image is no unit of an environment.
LEMMA ImageData ==
  ASSUME NEW part, PartOK(part), NEW at, NEW d, d = ImageEntry(at, part)
  PROVE  /\ d.name = part.name /\ d.off = at /\ d.size = Room(part)
         /\ \A x \in 0 .. d.size - 1 : d.data[x] \in Data /\ d.data[x].kind # "env"
         /\ \A x \in DOMAIN part.payload : x - 1 \in 0 .. d.size - 1 /\ d.data[x - 1] = part.payload[x]
<1>1. d.name = part.name /\ d.off = at /\ d.size = Room(part) /\ d.data = Padded(part)
  BY DEF ImageEntry, Entry
<1>2. \A x \in 0 .. Room(part) - 1 : Padded(part)[x] \in Data /\ Padded(part)[x].kind # "env"
  BY PaddedIs
<1>3. \A x \in DOMAIN part.payload : x - 1 \in 0 .. Room(part) - 1 /\ Padded(part)[x - 1] = part.payload[x]
  BY PaddedIs
<1> QED
  BY <1>1, <1>2, <1>3

LEMMA CopyData ==
  ASSUME NEW at, NEW env, NEW d, d = CopyEntry(at, env)
  PROVE  d.name = "env" /\ d.off = at /\ d.size = EraseSize /\ d.data = EnvCells(env)
  BY DEF CopyEntry, Entry

LEMMA EnvCellsAre ==
  ASSUME NEW env, NEW x \in 0 .. EraseSize - 1
  PROVE  EnvCells(env)[x].kind = "env" /\ EnvCells(env)[x].vars = env
  BY DEF EnvCells

LEMMA FlashingEnvs ==
  ASSUME Storable, Upgrading, step = "flash", [FlashNext]_flashVars
  PROVE  EnvsInPlace'
<1>1. /\ BundleOK(bundle) /\ PartialTable(mtd.part) /\ uenv \in Envs /\ GoodEnv(uenv)
      /\ job.part = mtd.part /\ JobLaid(job, bundle, mtd.part, uenv)
      /\ FlashOK /\ Ctl /\ Passed /\ AnalysisCovers
      /\ \A e \in Slots : ~IsUbi(job, e)
  BY PlanReady
<1>2. SUFFICES ASSUME NEW u \in Units, flash'[u] \in Data, flash'[u].kind = "env"
               PROVE  /\ u \in EnvBlock /\ GoodEnv(flash'[u].vars)
                      /\ flash'[u] = EnvCells(flash'[u].vars)[u - EnvBase]
  BY DEF EnvsInPlace
<1>3. CASE flash'[u] = flash[u]
  BY <1>2, <1>3 DEF Upgrading, EnvsInPlace
<1>4. CASE flash'[u] # flash[u]
  <2> DEFINE d == job.mtdbackup[i]
             x == u - d.off
             s == Laid(bundle, mtd.part, uenv)
  <2>1. RawHere /\ x \in 0 .. d.size - 1 /\ (flash'[u] \in {Erased, Torn} \/ flash'[u] = d.data[x])
    BY <1>1, <1>4, WritesWhere
  <2>2. flash'[u] = d.data[x]
    BY <1>2, <2>1, ContentAssumption
  <2>3. i \in Slots /\ IsRaw(job, i)
    BY <2>1 DEF RawHere
  <2>4. i < s.i
    BY <1>1, <2>3, JobEntry
  <2>5. d = s.mtdwrite[i]
    BY <1>1 DEF JobLaid
  <2>6. PICK n \in 1 .. Len(bundle.parts) : HoldsPart(bundle, mtd.part, uenv, n, d)
    BY <1>1, <2>3, <2>4, <2>5, LaidPart
  <2> DEFINE at == LayOut(bundle, mtd.part, uenv)[n - 1].goff
             p == bundle.parts[n]
  <2>7. PartOK(p)
    BY <1>1, BundleShape
  <2>8. d = ImageEntry(at, p) \/ (p.name = "boot" /\ d = CopyEntry(at + Room(p), uenv))
    BY <2>6 DEF HoldsPart
  <2>9. pc \in Labels \ {"analyse"}
    <3>1. pc \in {"erase", "write"}
      BY <1>1, <1>4, Writes DEF WritesBlock, WritesUbi, UbiHere
    <3> QED
      BY <3>1 DEF Labels
  <2>10. Accepted(job, i)
    BY <1>1, <2>3, <2>9 DEF AnalysisCovers
  <2>11. Start(bundle, mtd.part) = Start(bundle, Table)
    BY <1>1, <2>3, <2>4, <2>10, StartAccepted
  <2>12. p.name = "boot" => at + Room(p) = EnvBase
    BY <1>1, <2>11, ImagePlace
  <2> HIDE DEF d, x, at, p
  <2>13. CASE d = ImageEntry(at, p)
    BY <1>2, <2>1, <2>2, <2>7, <2>13, ImageData
  <2>14. CASE p.name = "boot" /\ d = CopyEntry(at + Room(p), uenv)
    <3>1. d.off = EnvBase /\ d.size = EraseSize /\ d.data = EnvCells(uenv)
      BY <2>12, <2>14, CopyData
    <3>2. x = u - EnvBase /\ x \in 0 .. EraseSize - 1
      BY <2>1, <3>1 DEF x
    <3>3. flash'[u].vars = uenv /\ flash'[u] = EnvCells(uenv)[u - EnvBase]
      BY <2>2, <3>1, <3>2, EnvCellsAre
    <3>4. u \in EnvBlock
      BY <3>2, UpgradeAssumption, SizesAssumption DEF EnvBlock, Units
    <3> QED
      BY <1>1, <3>3, <3>4
  <2> QED
    BY <2>8, <2>13, <2>14
<1> QED
  BY <1>3, <1>4

-----------------------------------------------------------------------------
(* The variables of the environment. *)

LEMMA VarsSpelled == ASSUME Storable PROVE Spelled
<1> DEFINE L == STRING \cup Nat
<1>1. \A word \in Seq(STRING) : word \in Seq(L)
  OBVIOUS
<1>2. \A word \in Seq(Nat) : word \in Seq(L)
  OBVIOUS
<1> HIDE DEF L
<1>3. Keys \subseteq Seq(L)
  BY <1>1, VarsAssumption
<1>4. Values \subseteq Seq(L)
  BY <1>2 DEF Storable
<1> QED
  BY <1>3, <1>4 DEF Spelled

LEMMA TextStarts ==
  ASSUME NEW L, NEW name \in Seq(L), NEW val \in Seq(L), "=" \in L
  PROVE  /\ Text(<<name, val>>) \in Seq(L)
         /\ Len(Text(<<name, val>>)) = Len(name) + 1 + Len(val)
         /\ \A k \in 1 .. Len(name) : Text(<<name, val>>)[k] = name[k]
         /\ Text(<<name, val>>)[Len(name) + 1] = "="
<1> DEFINE head == name \o <<"=">>
           whole == head \o val
<1>1. <<"=">> \in Seq(L) /\ Len(<<"=">>) = 1 /\ <<"=">>[1] = "="
  OBVIOUS
<1>2. Len(name) \in Nat /\ Len(val) \in Nat
  BY LenProperties
<1>3. /\ head \in Seq(L) /\ Len(head) = Len(name) + Len(<<"=">>)
      /\ \A k \in 1 .. Len(name) + Len(<<"=">>) :
           head[k] = IF k <= Len(name) THEN name[k] ELSE <<"=">>[k - Len(name)]
  BY <1>1, ConcatProperties
<1> HIDE DEF head
<1>4. /\ whole \in Seq(L) /\ Len(whole) = Len(head) + Len(val)
      /\ \A k \in 1 .. Len(head) + Len(val) :
           whole[k] = IF k <= Len(head) THEN head[k] ELSE val[k - Len(head)]
  <2>1. head \in Seq(L)
    BY <1>3
  <2> QED
    BY <2>1, ConcatProperties
<1> HIDE DEF whole
<1>5. Len(head) = Len(name) + 1
  BY <1>1, <1>3
<1>6. \A k \in 1 .. Len(name) : whole[k] = name[k]
  <2>1. SUFFICES ASSUME NEW k \in 1 .. Len(name) PROVE whole[k] = name[k]
    OBVIOUS
  <2>2. k \in 1 .. Len(head) + Len(val) /\ k <= Len(head) /\ k \in 1 .. Len(name) + Len(<<"=">>)
        /\ k <= Len(name)
    BY <1>1, <1>2, <1>5
  <2> QED
    BY <1>3, <1>4, <2>2
<1>7. whole[Len(name) + 1] = "="
  <2> DEFINE k == Len(name) + 1
  <2>1. k \in 1 .. Len(head) + Len(val) /\ k <= Len(head) /\ k \in 1 .. Len(name) + Len(<<"=">>)
        /\ ~(k <= Len(name)) /\ k - Len(name) = 1
    BY <1>1, <1>2, <1>5
  <2> HIDE DEF k
  <2>2. whole[k] = head[k] /\ head[k] = <<"=">>[1]
    BY <1>3, <1>4, <2>1
  <2> QED
    BY <1>1, <2>2 DEF k
<1>8. Text(<<name, val>>) = whole
  BY DEF Text, whole, head
<1>9. Len(whole) = Len(name) + 1 + Len(val)
  BY <1>2, <1>4, <1>5
<1> QED
  BY <1>4, <1>6, <1>7, <1>8, <1>9

\* What a prefix looks like, letter by letter.
LEMMA PrefixLetters ==
  ASSUME NEW L, NEW s \in Seq(L), NEW t \in Seq(L)
  PROVE  IsPrefix(s, t) <=> Len(s) <= Len(t) /\ \A k \in 1 .. Len(s) : s[k] = t[k]
<1>1. Len(s) \in Nat /\ Len(t) \in Nat /\ 1 \in Int
  BY LenProperties
<1>2. SubSeq(s, 1, Len(s)) = s
  BY SubSeqFull
<1>3. ASSUME Len(s) <= Len(t)
      PROVE  /\ SubSeq(t, 1, Len(s)) \in Seq(L) /\ Len(SubSeq(t, 1, Len(s))) = Len(s)
             /\ \A k \in 1 .. Len(s) : SubSeq(t, 1, Len(s))[k] = t[k]
  <2> DEFINE head == SubSeq(t, 1, Len(s))
  <2>1. \A k \in 1 .. Len(s) : t[k] \in L
    <3>1. \A k \in 1 .. Len(s) : k \in 1 .. Len(t)
      BY <1>1, <1>3
    <3> QED
      BY <3>1, LenProperties
  <2>2. /\ head \in Seq(L) /\ Len(head) = IF 1 <= Len(s) THEN Len(s) - 1 + 1 ELSE 0
        /\ \A k \in 1 .. Len(s) - 1 + 1 : head[k] = t[1 + k - 1]
    BY <1>1, <2>1, SubSeqProperties
  <2> HIDE DEF head
  <2>3. Len(head) = Len(s)
    BY <1>1, <2>2
  <2>4. \A k \in 1 .. Len(s) : k \in 1 .. Len(s) - 1 + 1 /\ 1 + k - 1 = k
    BY <1>1
  <2>5. \A k \in 1 .. Len(s) : head[k] = t[k]
    BY <2>2, <2>4
  <2> QED
    BY <2>2, <2>3, <2>5 DEF head
<1>4. ASSUME IsPrefix(s, t) PROVE Len(s) <= Len(t) /\ \A k \in 1 .. Len(s) : s[k] = t[k]
  <2>1. Len(s) <= Len(t) /\ s = SubSeq(t, 1, Len(s))
    BY <1>2, <1>4 DEF IsPrefix
  <2> QED
    BY <1>3, <2>1
<1>5. ASSUME Len(s) <= Len(t), \A k \in 1 .. Len(s) : s[k] = t[k] PROVE IsPrefix(s, t)
  <2> DEFINE head == SubSeq(t, 1, Len(s))
  <2>1. head \in Seq(L) /\ Len(head) = Len(s) /\ \A k \in 1 .. Len(s) : head[k] = t[k]
    BY <1>3, <1>5
  <2> HIDE DEF head
  <2>2. \A k \in 1 .. Len(s) : head[k] = s[k]
    BY <1>5, <2>1
  <2>3. head = s
    BY <2>1, <2>2, SeqEqual
  <2> QED
    BY <1>2, <1>5, <2>3 DEF IsPrefix, head
<1> QED
  BY <1>4, <1>5

LEMMA VarsPlain == ASSUME Storable PROVE Plain
<1>1. SUFFICES ASSUME NEW key \in Keys, NEW name \in Keys, NEW val \in Values,
                      IsPrefix(key, Text(<<name, val>>))
               PROVE  key = name
  BY DEF Plain
<1> DEFINE L == STRING \cup Nat \cup {"="}
           whole == Text(<<name, val>>)
<1>2. key \in Seq(L) /\ name \in Seq(L) /\ val \in Seq(L) /\ "=" \in L
  <2>1. \A word \in Seq(STRING) : word \in Seq(L)
    OBVIOUS
  <2>2. \A word \in Seq(Nat) : word \in Seq(L)
    OBVIOUS
  <2>3. key \in Seq(STRING) /\ name \in Seq(STRING)
    BY VarsAssumption
  <2>4. val \in Seq(Nat)
    BY DEF Storable
  <2>5. "=" \in L
    OBVIOUS
  <2> HIDE DEF L
  <2> QED
    BY <2>1, <2>2, <2>3, <2>4, <2>5
<1> HIDE DEF L
<1>3. /\ whole \in Seq(L) /\ Len(whole) = Len(name) + 1 + Len(val)
      /\ \A k \in 1 .. Len(name) : whole[k] = name[k]
      /\ whole[Len(name) + 1] = "="
  BY <1>2, TextStarts, Zenon
<1> HIDE DEF whole
<1>4. Len(key) \in Nat /\ Len(name) \in Nat /\ DOMAIN key = 1 .. Len(key)
  BY <1>2, LenProperties
<1>5. Len(key) <= Len(whole) /\ \A k \in 1 .. Len(key) : key[k] = whole[k]
  <2>1. IsPrefix(key, whole)
    BY <1>1 DEF whole
  <2> QED
    BY <1>2, <1>3, <2>1, PrefixLetters
<1>6. Len(key) <= Len(name)
  <2>1. SUFFICES ASSUME ~(Len(key) <= Len(name)) PROVE FALSE
    OBVIOUS
  <2>2. Len(name) + 1 \in 1 .. Len(key)
    BY <1>4, <2>1
  <2>3. key[Len(name) + 1] = "="
    BY <1>3, <1>5, <2>2
  <2> QED
    BY <1>4, <2>2, <2>3, VarsAssumption
<1>7. \A k \in 1 .. Len(key) : key[k] = name[k]
  <2>1. \A k \in 1 .. Len(key) : k \in 1 .. Len(name)
    BY <1>4, <1>6
  <2> QED
    BY <1>3, <1>5, <2>1
<1>8. IsPrefix(key, name)
  BY <1>2, <1>6, <1>7, PrefixLetters
<1> QED
  BY <1>8, VarsAssumption

\* Whatever is edited, the variables that are not named keep their values.
LEMMA EditsKeep ==
  ASSUME Storable, NEW env \in Proper, NEW len \in Nat, Len(RamVars) = len,
         \A n \in 1 .. len : RamVars[n][1] \in Keys /\ RamVars[n][2] \in Values,
         NEW m \in 0 .. len
  PROVE  /\ Edits(env)[m] \in Proper
         /\ \A key \in Keys : (\A n \in 1 .. len : RamVars[n][1] # key)
                                => Lookup(Edits(env)[m], key) = Lookup(env, key)
<1> DEFINE e(n) == Edits(env)[n]
           Kept(n) == /\ e(n) \in Proper
                      /\ \A key \in Keys : (\A k \in 1 .. len : RamVars[k][1] # key)
                                             => Lookup(e(n), key) = Lookup(env, key)
           Bad == {n \in 0 .. len : ~Kept(n)}
<1>1. Kept(0)
  <2>1. e(0) = env
    BY EditsStep
  <2> HIDE DEF e
  <2> QED
    BY <2>1
<1>2. ASSUME NEW n \in 0 .. len - 1, Kept(n) PROVE Kept(n + 1)
  <2> DEFINE var == RamVars[n + 1]
  <2>1. e(n + 1) = SetVar(e(n), var[1], var[2])
    BY EditsStep
  <2>2. n + 1 \in 1 .. len
    OBVIOUS
  <2>3. var[1] \in Keys /\ var[2] \in Values
    BY <2>2
  <2> HIDE DEF e, var
  <2>4. Edited(e(n), var[1], var[2], e(n + 1))
    BY <1>2, <2>1, <2>3, SetVarEdits, VarsSpelled, VarsPlain
  <2>5. ASSUME NEW key \in Keys, \A k \in 1 .. len : RamVars[k][1] # key
        PROVE  Lookup(e(n + 1), key) = Lookup(env, key)
    <3>1. key # var[1]
      BY <2>2, <2>5 DEF var
    <3>2. Lookup(e(n + 1), key) = Lookup(e(n), key)
      BY <2>4, <3>1 DEF Edited
    <3> QED
      BY <1>2, <2>5, <3>2
  <2> QED
    BY <2>4, <2>5 DEF Edited
<1> HIDE DEF Kept
<1>3. ASSUME Bad # {} PROVE FALSE
  <2>1. Bad \in SUBSET Nat
    OBVIOUS
  <2>2. PICK n \in Bad : \A y \in Bad : n <= y
    BY <1>3, <2>1, LeastNat
  <2>3. n \in 0 .. len /\ ~Kept(n) /\ n # 0
    BY <1>1, <2>2
  <2> DEFINE k == n - 1
  <2>4. k \in 0 .. len /\ k \in 0 .. len - 1 /\ k + 1 = n /\ ~(n <= k)
    BY <2>3
  <2> HIDE DEF k
  <2>5. Kept(k)
    BY <2>2, <2>4
  <2> QED
    BY <1>2, <2>3, <2>4, <2>5
<1>4. Kept(m)
  BY <1>3
<1> QED
  BY <1>4 DEF Kept, e

\* The variables upgrade sets in RAM: the bundle's and, last, bootcmd.
LEMMA RamVarsAre ==
  ASSUME Storable, bundle \in Bundles, BundleOK(bundle),
         NEW off \in Nat, off = job.mtdbackup[layout.kernel_part].off,
         NEW size \in Nat, size = job.mtdbackup[layout.kernel_part].size
  PROVE  \E len \in Nat :
           /\ Len(RamVars) = len + 1
           /\ \A n \in 1 .. len + 1 : /\ RamVars[n][1] \in Keys /\ RamVars[n][2] \in Values
                                      /\ RamVars[n][1] \in SetVars
           /\ RamVars[len + 1][1] = <<"bootcmd">> /\ RamVars[len + 1][2] = <<off, size>>
<1> DEFINE vs == bundle.vars
           cmd == <<<<"bootcmd">>, <<off, size>>>>
           len == Len(vs)
<1>1. vs \in Seq(Keys \X Values)
  BY BundleShape
<1>2. RamVars = vs \o <<cmd>>
  BY DEF RamVars
<1>3. <<off, size>> \in Values
  BY DEF Storable
<1>4. <<"bootcmd">> \in Keys
  BY VarsAssumption
<1>5. cmd[1] = <<"bootcmd">> /\ cmd[2] = <<off, size>> /\ cmd \in Keys \X Values
  BY <1>3, <1>4
<1>6. DOMAIN vs = 1 .. len /\ len \in Nat
  BY <1>1, LenProperties
<1>7. \A n \in 1 .. len : vs[n] \in Keys \X Values
  BY <1>1, <1>6
<1>8. \A n \in 1 .. len : vs[n][1] \in Keys /\ vs[n][2] \in Values
  BY <1>7
<1>9. \A n \in 1 .. len : vs[n][1] \in SetVars
  BY <1>6 DEF SetVars
<1> HIDE DEF vs, cmd
<1>10. /\ Len(RamVars) = len + 1
       /\ \A n \in 1 .. len : RamVars[n] = vs[n]
       /\ RamVars[len + 1] = cmd
  <2>1. <<cmd>> \in Seq(Keys \X Values) /\ Len(<<cmd>>) = 1 /\ <<cmd>>[1] = cmd
    BY <1>5
  <2> DEFINE last == <<cmd>>
  <2> HIDE DEF last
  <2>2. last \in Seq(Keys \X Values) /\ Len(last) = 1 /\ last[1] = cmd
    BY <2>1 DEF last
  <2>3. /\ Len(vs \o last) = Len(vs) + Len(last)
        /\ \A n \in 1 .. Len(vs) + Len(last) :
             (vs \o last)[n] = IF n <= Len(vs) THEN vs[n] ELSE last[n - Len(vs)]
    BY <1>1, <2>2, ConcatProperties
  <2>4. RamVars = vs \o last
    BY <1>2 DEF last
  <2>5. \A n \in 1 .. len : n \in 1 .. len + 1 /\ n <= len
    BY <1>6
  <2>6. len + 1 \in 1 .. len + 1 /\ ~(len + 1 <= len) /\ (len + 1) - len = 1
    BY <1>6
  <2> QED
    BY <2>2, <2>3, <2>4, <2>5, <2>6
<1>11. \A n \in 1 .. len + 1 : n \in 1 .. len \/ n = len + 1
  BY <1>6
<1>12. <<"bootcmd">> \in SetVars
  BY DEF SetVars
<1> HIDE DEF len
<1>13. \A n \in 1 .. len + 1 : /\ RamVars[n][1] \in Keys /\ RamVars[n][2] \in Values
                               /\ RamVars[n][1] \in SetVars
  BY <1>3, <1>4, <1>5, <1>8, <1>9, <1>10, <1>11, <1>12
<1> QED
  BY <1>5, <1>6, <1>10, <1>13

LEMMA BootargsAre ==
  ASSUME layout.root_part \in Nat, layout.mtdparts \in Seq(Nat)
  PROVE  /\ Bootargs \in Seq(Nat) /\ Bootargs[1] = layout.root_part
         /\ Tail(Bootargs) = layout.mtdparts
<1> DEFINE root == layout.root_part
           parts == layout.mtdparts
           one == <<root>>
           args == one \o parts
           rest == Tail(args)
<1>1. one \in Seq(Nat) /\ Len(one) = 1 /\ one[1] = root
  OBVIOUS
<1>2. parts \in Seq(Nat) /\ Len(parts) \in Nat
  BY LenProperties
<1> HIDE DEF one, parts
<1>3. /\ args \in Seq(Nat) /\ Len(args) = Len(one) + Len(parts)
      /\ \A n \in 1 .. Len(one) + Len(parts) :
           args[n] = IF n <= Len(one) THEN one[n] ELSE parts[n - Len(one)]
  BY <1>1, <1>2, ConcatProperties
<1> HIDE DEF args
<1>4. Len(args) = 1 + Len(parts) /\ args # <<>>
  <2>1. Len(args) = 1 + Len(parts)
    BY <1>1, <1>3
  <2>2. Len(args) # 0
    BY <1>2, <2>1
  <2> QED
    BY <1>3, <2>1, <2>2, EmptySeq
<1>5. args[1] = root
  <2>1. 1 \in 1 .. Len(one) + Len(parts) /\ 1 <= Len(one)
    BY <1>1, <1>2
  <2> QED
    BY <1>1, <1>3, <2>1
<1>6. /\ rest \in Seq(Nat) /\ Len(rest) = Len(args) - 1
      /\ \A n \in 1 .. Len(rest) : rest[n] = args[n + 1]
  BY <1>3, <1>4, HeadTailProperties
<1> HIDE DEF rest
<1>7. Len(rest) = Len(parts)
  BY <1>2, <1>4, <1>6
<1>8. \A n \in 1 .. Len(parts) : rest[n] = parts[n]
  <2>1. SUFFICES ASSUME NEW n \in 1 .. Len(parts) PROVE rest[n] = parts[n]
    OBVIOUS
  <2>2. n \in 1 .. Len(rest) /\ n + 1 \in 1 .. Len(one) + Len(parts) /\ ~(n + 1 <= Len(one))
        /\ n + 1 - Len(one) = n
    BY <1>1, <1>2, <1>7
  <2>3. rest[n] = args[n + 1]
    BY <1>6, <2>2
  <2>4. args[n + 1] = parts[n + 1 - Len(one)]
    BY <1>3, <2>2, SMTT(20)
  <2> QED
    BY <2>2, <2>3, <2>4
<1>9. rest = parts
  BY <1>2, <1>6, <1>7, <1>8, SeqEqual
<1>10. Bootargs = args
  BY DEF Bootargs, args, one, parts
<1> QED
  BY <1>3, <1>5, <1>9, <1>10 DEF rest, parts

LEMMA NewEnvIs ==
  ASSUME Storable, bundle \in Bundles, BundleOK(bundle), GoodEnv(uenv),
         NEW off \in Nat, off = job.mtdbackup[layout.kernel_part].off,
         NEW size \in Nat, size = job.mtdbackup[layout.kernel_part].size,
         layout.root_part \in Nat, layout.mtdparts \in Seq(Nat)
  PROVE  /\ GoodEnv(NewEnv)
         /\ Lookup(NewEnv, <<"bootcmd">>) = <<off, size>>
         /\ Lookup(NewEnv, <<"bootargs">>) = Bootargs
<1>1. PICK len \in Nat :
        /\ Len(RamVars) = len + 1
        /\ \A n \in 1 .. len + 1 : /\ RamVars[n][1] \in Keys /\ RamVars[n][2] \in Values
                                   /\ RamVars[n][1] \in SetVars
        /\ RamVars[len + 1][1] = <<"bootcmd">> /\ RamVars[len + 1][2] = <<off, size>>
  BY RamVarsAre, SMTT(20)
<1> DEFINE e(n) == Edits(uenv)[n]
           last == len + 1
           cmd == <<"bootcmd">>
           args == <<"bootargs">>
<1>2. last \in Nat /\ last \in 0 .. last /\ len \in 0 .. last /\ len \in 0 .. last - 1
  BY <1>1
<1>3. uenv \in Proper
  BY DEF GoodEnv
<1>4. \A m \in 0 .. last :
        /\ e(m) \in Proper
        /\ \A key \in Keys : (\A n \in 1 .. last : RamVars[n][1] # key)
                               => Lookup(e(m), key) = Lookup(uenv, key)
  BY <1>1, <1>2, <1>3, EditsKeep
<1>5. e(last) = SetVar(e(len), RamVars[last][1], RamVars[last][2])
  BY <1>1, <1>2, EditsStep
<1>6. NewEnv = SetVar(e(last), args, Bootargs)
  BY <1>1 DEF NewEnv
<1>7. cmd \in Keys /\ args \in Keys /\ cmd # args
  <2>1. cmd[1] = "bootcmd" /\ args[1] = "bootargs"
    OBVIOUS
  <2>2. "bootcmd" # "bootargs"
    OBVIOUS
  <2>3. cmd # args
    BY <2>1, <2>2
  <2> QED
    BY <2>3, VarsAssumption
<1>8. <<off, size>> \in Values /\ Bootargs \in Values
  <2>1. Bootargs \in Seq(Nat)
    BY BootargsAre
  <2> QED
    BY <2>1 DEF Storable
<1>9. RamVars[last][1] = cmd /\ RamVars[last][2] = <<off, size>>
  BY <1>1
<1> HIDE DEF e, last, cmd, args
<1>10. Edited(e(len), cmd, <<off, size>>, e(last))
  BY <1>2, <1>4, <1>5, <1>7, <1>8, <1>9, SetVarEdits, VarsSpelled, VarsPlain
<1>11. Edited(e(last), args, Bootargs, NewEnv)
  BY <1>2, <1>4, <1>6, <1>7, <1>8, SetVarEdits, VarsSpelled, VarsPlain
<1>12. Lookup(NewEnv, cmd) = <<off, size>>
  BY <1>7, <1>10, <1>11 DEF Edited
<1>13. Lookup(NewEnv, args) = Bootargs
  BY <1>7, <1>11 DEF Edited
<1>14. ASSUME NEW n \in DOMAIN OldEnv, OldEnv[n][1] \notin SetVars
       PROVE  Lookup(NewEnv, OldEnv[n][1]) = OldEnv[n][2]
  <2> DEFINE key == OldEnv[n][1]
  <2>1. OldEnv \in Envs
    BY VarsAssumption DEF Envs
  <2>2. key \in Keys
    BY <2>1, EnvType
  <2>3. args \in SetVars
    BY DEF SetVars, args
  <2>4. key # args
    BY <1>14, <2>3
  <2>5. \A k \in 1 .. last : RamVars[k][1] # key
    BY <1>1, <1>14 DEF last
  <2>6. Lookup(uenv, key) = OldEnv[n][2]
    BY <1>14 DEF GoodEnv
  <2> HIDE DEF key
  <2>7. Lookup(e(last), key) = Lookup(uenv, key)
    BY <1>2, <1>4, <2>2, <2>5, SMTT(20)
  <2>8. Lookup(NewEnv, key) = Lookup(e(last), key)
    BY <1>11, <2>2, <2>4 DEF Edited
  <2> QED
    BY <2>6, <2>7, <2>8 DEF key
<1>15. NewEnv \in Proper
  BY <1>11 DEF Edited
<1> QED
  BY <1>12, <1>13, <1>14, <1>15 DEF GoodEnv, cmd, args

-----------------------------------------------------------------------------
(* What is on the flash when do_flash has returned true. *)

LEMMA NamedImage ==
  ASSUME Storable, NEW b, BundleOK(b), NEW part, PartialTable(part), NEW env \in Envs,
         NEW e \in Slots, e < Laid(b, part, env).i,
         NEW d, d = Laid(b, part, env).mtdwrite[e], d.name # "env"
  PROVE  \E n \in 1 .. Len(b.parts) :
           b.parts[n].name = d.name /\ d = ImageEntry(LayOut(b, part, env)[n - 1].goff, b.parts[n])
<1>1. PICK n \in 1 .. Len(b.parts) : HoldsPart(b, part, env, n, d)
  BY LaidPart
<1> DEFINE at == LayOut(b, part, env)[n - 1].goff
           p == b.parts[n]
<1>2. d = ImageEntry(at, p) \/ d = CopyEntry(at + Room(p), env)
  BY <1>1 DEF HoldsPart
<1> HIDE DEF at, p
<1>3. d = ImageEntry(at, p)
  BY <1>2, CopyData
<1>4. d.name = p.name
  BY <1>3 DEF ImageEntry, Entry
<1> QED
  BY <1>3, <1>4 DEF at, p

LEMMA PayloadIs ==
  ASSUME BundleOK(bundle), NEW n \in 1 .. Len(bundle.parts)
  PROVE  Payload(bundle.parts[n].name) = bundle.parts[n].payload
<1>1. n \in DOMAIN bundle.parts
  BY BundleShape
<1>2. \A k, m \in DOMAIN bundle.parts : bundle.parts[k].name = bundle.parts[m].name => k = m
  BY Zenon DEF BundleOK
<1> DEFINE k == CHOOSE k \in DOMAIN bundle.parts : bundle.parts[k].name = bundle.parts[n].name
<1>3. k \in DOMAIN bundle.parts /\ bundle.parts[k].name = bundle.parts[n].name
  BY <1>1
<1> HIDE DEF k
<1>4. k = n
  BY <1>1, <1>2, <1>3
<1> QED
  BY <1>4 DEF Payload, k

LEMMA ImageInstalled ==
  ASSUME Storable, Upgrading, step = "flash", pc = "true",
         NEW e \in Slots, e < Laid(bundle, mtd.part, uenv).i,
         NEW d, d = job.mtdbackup[e], d.name # "env"
  PROVE  /\ d.off \in Nat /\ d.size \in Nat
         /\ HoldsImage(d.off, Payload(d.name)) /\ Len(Payload(d.name)) <= d.size
         /\ \A x \in DOMAIN Payload(d.name) : d.off + x - 1 \notin EnvBlock
         /\ d.name = "boot" => d.off + d.size = EnvBase
<1> DEFINE s == Laid(bundle, mtd.part, uenv)
<1>1. /\ BundleOK(bundle) /\ PartialTable(mtd.part) /\ uenv \in Envs
      /\ job.part = mtd.part /\ JobLaid(job, bundle, mtd.part, uenv)
      /\ FlashOK /\ Ctl /\ Passed /\ AnalysisCovers
  BY PlanReady
<1>2. d = s.mtdwrite[e]
  BY <1>1 DEF JobLaid
<1>3. PICK n \in 1 .. Len(bundle.parts) :
        /\ bundle.parts[n].name = d.name
        /\ d = ImageEntry(LayOut(bundle, mtd.part, uenv)[n - 1].goff, bundle.parts[n])
  BY <1>1, <1>2, NamedImage
<1> DEFINE at == LayOut(bundle, mtd.part, uenv)[n - 1].goff
           p == bundle.parts[n]
<1>4. PartOK(p) /\ p.name = d.name /\ d = ImageEntry(at, p)
  BY <1>1, <1>3, BundleShape
<1>5. Payload(d.name) = p.payload
  BY <1>1, <1>3, PayloadIs
<1>6. Accepted(job, e)
  BY <1>1 DEF AnalysisCovers
<1>7. Start(bundle, mtd.part) = Start(bundle, Table)
  BY <1>1, <1>6, StartAccepted
<1>8. /\ at + Room(p) <= EnvBase \/ EnvBase + EraseSize <= at
      /\ p.name = "boot" => at + Room(p) = EnvBase
  BY <1>1, <1>7, ImagePlace
<1>9. /\ d.off \in Nat /\ d.size \in Nat /\ \E q \in Nat \ {0} : d.size = q * EraseSize
  <2>1. RawEntry(d)
    BY <1>1, <1>2, LaidEntry
  <2> QED
    BY <2>1 DEF RawEntry
<1>10. IsRaw(job, e) /\ job.skip_env = FALSE
  BY <1>1, JobEntry DEF JobLaid
<1>11. \A x \in 0 .. d.size - 1 : d.off + x \in Units /\ flash[d.off + x] = d.data[x]
  BY <1>1, <1>9, <1>10, AllWritten
<1> HIDE DEF s, at, p
<1>12. /\ d.off = at /\ d.size = Room(p)
       /\ \A x \in DOMAIN p.payload : x - 1 \in 0 .. d.size - 1 /\ d.data[x - 1] = p.payload[x]
  BY <1>4, ImageData
<1>13. Len(p.payload) \in Nat \ {0} /\ Len(p.payload) <= Room(p) /\ DOMAIN p.payload = 1 .. Len(p.payload)
  <2>1. Len(p.payload) \in Nat \ {0} /\ Len(p.payload) <= Room(p)
    BY <1>4, RoomIs
  <2>2. DOMAIN p.payload = 1 .. Len(p.payload)
    BY <1>4, Zenon DEF PartOK
  <2> QED
    BY <2>1, <2>2
<1>14. \A x \in DOMAIN p.payload : d.off + x - 1 = d.off + (x - 1)
  BY <1>9, <1>13
<1>15. HoldsImage(d.off, p.payload)
  BY <1>11, <1>12, <1>14 DEF HoldsImage
<1>16. ASSUME NEW x \in DOMAIN p.payload PROVE d.off + x - 1 \notin EnvBlock
  <2>1. x \in Nat /\ x - 1 \in 0 .. d.size - 1 /\ d.off \in Nat /\ d.size \in Nat
    BY <1>9, <1>12, <1>13
  <2>2. d.off + d.size <= EnvBase \/ EnvBase + EraseSize <= d.off
    BY <1>8, <1>12
  <2>3. EnvBase \in Nat /\ EraseSize \in Nat
    BY UpgradeAssumption, SizesAssumption
  <2> DEFINE off == d.off
             size == d.size
  <2> HIDE DEF off, size
  <2>4. ASSUME off \in Nat, size \in Nat, x - 1 \in 0 .. size - 1,
               off + size <= EnvBase \/ EnvBase + EraseSize <= off
        PROVE  off + x - 1 \notin EnvBase .. EnvBase + EraseSize - 1
    BY <2>1, <2>3, <2>4, SMTT(20)
  <2> QED
    BY <2>1, <2>2, <2>4 DEF EnvBlock, off, size
<1>17. d.name = "boot" => d.off + d.size = EnvBase
  BY <1>4, <1>8, <1>12
<1> QED
  BY <1>5, <1>9, <1>12, <1>13, <1>15, <1>16, <1>17

\* The environment is rewritten where the boot loader reads it, moved or not.
LEMMA EnvReached ==
  ASSUME Storable, Upgrading, step = "flash", pc = "true"
  PROVE  AtEnv(mtd.env_dev, mtd.env_offset)
<1> DEFINE s == Laid(bundle, mtd.part, uenv)
<1>1. /\ BundleOK(bundle) /\ PartialTable(mtd.part) /\ uenv \in Envs
      /\ job.part = mtd.part /\ JobLaid(job, bundle, mtd.part, uenv)
      /\ FlashOK /\ Ctl /\ Passed /\ AnalysisCovers
  BY PlanReady
<1>2. PlannedFrom(s)
  BY DEF Upgrading, Planned
<1>3. CASE s.env_at = -1
  BY <1>2, <1>3 DEF PlannedFrom
<1>4. CASE s.env_at # -1
  <2>1. /\ mtd.env_dev = MapOldNew(mtd.part, s.env_at).dev
        /\ mtd.env_offset = MapOldNew(mtd.part, s.env_at).off
    BY <1>2, <1>4 DEF PlannedFrom
  <2>2. Filled(bundle, mtd.part, uenv, Len(bundle.parts))
    BY <1>1, BundleLens, LayOutFilled
  <2>3. PICK e \in Slots : e < s.i /\ s.mtdwrite[e] = CopyEntry(s.env_at, uenv)
    BY <1>4, <2>2 DEF Filled, Laid
  <2>4. Marked(s, Start(bundle, mtd.part))
    BY <1>1, BundleLens, LayOutChained DEF Chained, Laid
  <2>5. PICK f \in Slots : /\ f < s.i /\ s.mtdwrite[f].name = "boot"
                           /\ s.env_at = s.mtdwrite[f].off + s.mtdwrite[f].size
    BY <1>4, <2>4 DEF Marked
  <2>6. job.mtdbackup[e] = s.mtdwrite[e] /\ job.mtdbackup[f] = s.mtdwrite[f]
    BY <1>1 DEF JobLaid
  <2>7. s.env_at = EnvBase
    <3> DEFINE d == job.mtdbackup[f]
    <3>1. d.name = "boot" /\ d.name # "env" /\ s.env_at = d.off + d.size
      BY <2>5, <2>6
    <3>2. d.off + d.size = EnvBase
      BY <1>1, <2>5, <3>1, ImageInstalled
    <3> QED
      BY <3>1, <3>2
  <2> DEFINE d == job.mtdbackup[e]
  <2>8. d.off = s.env_at /\ d.size = EraseSize
    BY <2>3, <2>6, CopyData
  <2>9. IsRaw(job, e) /\ job.skip_env = FALSE
    BY <1>1, <2>3, JobEntry DEF JobLaid
  <2>10. 1 \in Nat \ {0} /\ d.size = 1 * EraseSize
    BY <2>8, SizesAssumption
  <2> HIDE DEF d
  <2>11. /\ MapOldNew(job.part, d.off).dev \in MtdNums
         /\ MapOldNew(job.part, d.off).off = d.off - Device[MapOldNew(job.part, d.off).dev].base
    <3>1. PartialTable(job.part)
      BY <1>1
    <3>2. job.mtdbackup[e].size = 1 * EraseSize
      BY <2>10 DEF d
    <3> QED
      BY <1>1, <2>9, <2>10, <3>1, <3>2, TargetFound DEF d
  <2> QED
    BY <1>1, <2>1, <2>7, <2>8, <2>11 DEF AtEnv
<1> QED
  BY <1>3, <1>4

\* bootargs names the partition that begins where the root file system does.
LEMMA RootListed ==
  ASSUME Storable, Upgrading, step = "flash", pc = "true"
  PROVE  /\ layout.mtdparts \in Seq(Nat) /\ layout.root_part \in Nat
         /\ \E e \in Slots :
              /\ e < Laid(bundle, mtd.part, uenv).i /\ job.mtdbackup[e].name = "rootfs"
              /\ Sums(layout.mtdparts)[layout.root_part] = job.mtdbackup[e].off
              /\ layout.mtdparts[layout.root_part + 1] = job.mtdbackup[e].size
<1> DEFINE s == Laid(bundle, mtd.part, uenv)
           start == Start(bundle, mtd.part)
           l0 == Len(start.mtdparts)
<1>1. /\ BundleOK(bundle) /\ PartialTable(mtd.part) /\ uenv \in Envs
      /\ JobLaid(job, bundle, mtd.part, uenv) /\ AnalysisCovers
  BY PlanReady
<1>2. /\ s.root_part # -1
      /\ layout = [mtdparts |-> s.mtdparts, root_part |-> s.root_part, kernel_part |-> s.kernel_part]
  BY Zenon DEF Upgrading, Planned, PlannedFrom
<1>3. layout.mtdparts = s.mtdparts /\ layout.root_part = s.root_part
  BY <1>2
<1>4. InRow(s, start) /\ Listed(s, start) /\ Marked(s, start)
  BY <1>1, BundleLens, LayOutChained DEF Chained, Laid
<1>5. PICK e \in Slots : e < s.i /\ s.mtdwrite[e].name = "rootfs" /\ s.root_part = l0 + e
  BY <1>2, <1>4 DEF Marked
<1>6. job.mtdbackup[e] = s.mtdwrite[e]
  BY <1>1 DEF JobLaid
<1>7. Accepted(job, e)
  BY <1>1 DEF AnalysisCovers
<1>8. start.goff = Begin(bundle) /\ Total(start.mtdparts) = Begin(bundle)
  BY <1>1, <1>5, <1>7, StartAccepted
<1>9. start.goff \in Nat /\ start.mtdparts \in Seq(Nat)
  BY <1>1, StartIs
<1>10. l0 \in Nat /\ e \in Nat
  BY <1>9, LenProperties, SizesAssumption DEF Slots
<1>11. /\ s.mtdparts \in Seq(Nat) /\ Len(s.mtdparts) = l0 + s.i
       /\ s.mtdparts[l0 + e + 1] = s.mtdwrite[e].size
       /\ Sums(s.mtdparts)[l0 + e] + start.goff = s.mtdwrite[e].off + Total(start.mtdparts)
  BY <1>4, <1>5 DEF Listed
<1>12. s.i \in Nat /\ s.mtdwrite[e].off \in Nat
  BY <1>4, <1>5 DEF InRow
<1>13. Sums(s.mtdparts)[l0 + e] \in Nat
  <2>1. l0 + e \in 0 .. Len(s.mtdparts)
    <3> DEFINE len == Len(s.mtdparts)
               n == s.i
    <3>1. len = l0 + n /\ n \in Nat /\ e < n
      BY <1>5, <1>11, <1>12
    <3> HIDE DEF len, n, l0
    <3>2. l0 + e \in 0 .. len
      BY <1>10, <3>1
    <3> QED
      BY <3>2 DEF len
  <2> QED
    BY <1>11, <2>1, SumsType
<1> DEFINE sum == Sums(s.mtdparts)[l0 + e]
           off == s.mtdwrite[e].off
           g == start.goff
<1>14. sum \in Nat /\ off \in Nat /\ g \in Nat /\ sum + g = off + g
  BY <1>8, <1>9, <1>11, <1>12, <1>13
<1> HIDE DEF sum, off, g
<1>15. sum = off
  BY <1>14
<1>16. layout.root_part = l0 + e /\ layout.root_part \in Nat
  BY <1>3, <1>5, <1>10
<1>17. Sums(layout.mtdparts)[layout.root_part] = job.mtdbackup[e].off
  BY <1>3, <1>6, <1>15, <1>16 DEF sum, off
<1>18. layout.mtdparts[layout.root_part + 1] = job.mtdbackup[e].size
  BY <1>3, <1>6, <1>11, <1>16
<1> QED
  BY <1>3, <1>5, <1>6, <1>11, <1>16, <1>17, <1>18

-----------------------------------------------------------------------------
(* Upgrading is inductive. *)

LEMMA EnvBlockUnits ==
  /\ EnvBlock \subseteq Units /\ EnvBase \in Nat /\ EraseSize \in Nat \ {0}
  /\ \A u \in EnvBlock : u - EnvBase \in 0 .. EraseSize - 1
  /\ \A x \in 0 .. EraseSize - 1 : EnvBase + x \in EnvBlock
<1>1. EnvBase \in Nat /\ EraseSize \in Nat \ {0} /\ EnvBlock \subseteq Units
  BY UpgradeAssumption, SizesAssumption
<1>2. \A u \in EnvBlock : u - EnvBase \in 0 .. EraseSize - 1
  BY <1>1 DEF EnvBlock
<1>3. \A x \in 0 .. EraseSize - 1 : EnvBase + x \in EnvBlock
  BY <1>1 DEF EnvBlock
<1> QED
  BY <1>1, <1>2, <1>3

LEMMA OldEnvGood == GoodEnv(OldEnv)
<1>1. OldEnv \in Proper
  BY VarsAssumption DEF Proper, Unique, Envs
<1>2. \A n \in DOMAIN OldEnv : Lookup(OldEnv, OldEnv[n][1]) = OldEnv[n][2]
  BY <1>1, LookupIs
<1> QED
  BY <1>1, <1>2 DEF GoodEnv

LEMMA UpgradingInit == ASSUME Storable PROVE Init => Upgrading
<1> SUFFICES ASSUME Init PROVE Upgrading
  OBVIOUS
<1>1. /\ flash = [u \in Units |-> IF u \in EnvBlock THEN EnvCells(OldEnv)[u - EnvBase] ELSE Old(u)]
      /\ vols = [mv \in MtdNums \X VolIds |-> [st |-> "none", src |-> -1]]
      /\ pc = "idle" /\ i = 0 /\ c = 0 /\ step = "free" /\ mtd = NoCtx /\ layout = NoLayout
      /\ hurt = FALSE /\ runs = 1
  BY DEF Init
<1>2. OldEnv \in Envs
  BY VarsAssumption DEF Envs
<1>3. \A u \in Units : flash[u] \in Data
  <2>1. \A u \in EnvBlock : EnvCells(OldEnv)[u - EnvBase] \in Data
    BY <1>2, EnvBlockUnits DEF Storable
  <2>2. \A u \in Units : Old(u) \in Data
    BY UpgradeAssumption
  <2> QED
    BY <1>1, <2>1, <2>2
<1>4. flash \in [Units -> Content]
  BY <1>1, <1>3 DEF Content
<1>5. vols \in [MtdNums \X VolIds -> VolState]
  BY <1>1 DEF VolState
<1>6. i \in 0 .. MaxBlocks /\ c \in Nat
  BY <1>1, SizesAssumption
<1>7. FlashTypes
  BY <1>4, <1>5, <1>6 DEF FlashTypes
<1>8. mtd.env_dev = NoMtd /\ layout.root_part = -1 /\ layout.mtdparts = <<>>
  BY <1>1 DEF NoCtx, NoLayout
<1>9. layout.root_part \in -1 .. Len(layout.mtdparts) - 1
  BY <1>8
<1>10. runs \in 1 .. MaxRuns
  BY <1>1, UpgradeAssumption
<1>11. TypeOK
  BY <1>1, <1>4, <1>6, <1>8, <1>9, <1>10 DEF TypeOK
<1>12. Flow
  BY <1>1 DEF Flow, Labels
<1>13. EnvsInPlace
  <2>1. SUFFICES ASSUME NEW u \in Units, flash[u].kind = "env"
                 PROVE  /\ u \in EnvBlock /\ GoodEnv(flash[u].vars)
                        /\ flash[u] = EnvCells(flash[u].vars)[u - EnvBase]
    BY DEF EnvsInPlace
  <2>2. CASE u \in EnvBlock
    <3>1. flash[u] = EnvCells(OldEnv)[u - EnvBase]
      BY <1>1, <2>2
    <3>2. flash[u].vars = OldEnv
      BY <2>2, <3>1, EnvBlockUnits, EnvCellsAre
    <3> QED
      BY <2>2, <3>1, <3>2, OldEnvGood
  <2>3. CASE u \notin EnvBlock
    <3>1. flash[u] = Old(u) /\ Old(u).kind = "old"
      BY <1>1, <2>3 DEF Old
    <3> QED
      BY <2>1, <3>1
  <2> QED
    BY <2>2, <2>3
<1>14. EnvFound /\ Planned /\ BlocksWritten /\ Installed /\ EnvWritten
  BY <1>1 DEF EnvFound, Planned, BlocksWritten, Installed, EnvWritten
<1> QED
  BY <1>7, <1>11, <1>12, <1>13, <1>14 DEF Upgrading

\* A partition that map_old_new_mtd finds is one of the kernel's.
LEMMA MappedDev ==
  ASSUME NEW part, PartialTable(part), NEW off
  PROVE  MapOldNew(part, off).dev \in MtdNums \cup {NoMtd}
<1> DEFINE S == {m \in Slots : Reaches(part, m, off)}
<1>1. CASE S = {}
  BY <1>1 DEF MapOldNew
<1>2. CASE S # {}
  <2>1. S \in SUBSET Nat
    BY SizesAssumption DEF Slots
  <2>2. PICK m \in S : \A y \in S : m <= y
    BY <1>2, <2>1, LeastNat
  <2>3. m \in Slots /\ Reaches(part, m, off)
    BY <2>2
  <2>4. \A k \in 0 .. m - 1 : ~Reaches(part, k, off)
    <3>1. m \in Nat /\ m < MaxBlocks
      BY <2>3, SizesAssumption DEF Slots
    <3>2. ASSUME NEW k \in 0 .. m - 1, Reaches(part, k, off) PROVE FALSE
      <4>1. k \in Slots /\ ~(m <= k)
        BY <3>1, SizesAssumption DEF Slots
      <4> QED
        BY <2>2, <3>2, <4>1
    <3> QED
      BY <3>2
  <2> DEFINE n == CHOOSE n \in Slots : /\ Reaches(part, n, off)
                                       /\ \A k \in 0 .. n - 1 : ~Reaches(part, k, off)
  <2>5. n \in Slots /\ Reaches(part, n, off)
    BY <2>3, <2>4
  <2>6. MapOldNew(part, off).dev = n
    BY <2>3 DEF MapOldNew
  <2> HIDE DEF n
  <2>7. n \in 0 .. n
    BY <2>5, SizesAssumption DEF Slots
  <2>8. part[n].size # 0
    BY <2>5, <2>7 DEF Reaches
  <2>9. NoPart.size = 0
    BY DEF NoPart
  <2>10. part[n] = Table[n] /\ Table[n] # NoPart
    BY <2>5, <2>8, <2>9 DEF PartialTable
  <2>11. n \in MtdNums
    BY <2>5, <2>10 DEF Table
  <2> QED
    BY <2>6, <2>11
<1> QED
  BY <1>1, <1>2

LEMMA CtxFields ==
  ASSUME NEW part, NEW total, NEW erase, NEW dev, NEW at, NEW r,
         r = [part |-> part, totalsz |-> total, erasesize |-> erase, env_dev |-> dev,
              env_offset |-> at]
  PROVE  r.part = part /\ r.env_dev = dev /\ r.env_offset = at /\ IsCtx(r)
  BY DEF IsCtx

\* What cb_mtd_restore found when there is an environment.
Enumerated(r, valid, mapped) == r = EnumRestore(TRUE, valid, mapped, DetectEnv)

LEMMA EnumFound ==
  ASSUME NEW valid \in SUBSET MtdNums, NEW mapped \in SUBSET MtdNums,
         NEW r, Enumerated(r, valid, mapped)
  PROVE  /\ IsCtx(r) /\ PartialTable(r.part) /\ r.env_dev \in MtdNums \cup {NoMtd}
         /\ r.env_dev # NoMtd => r.env_offset = DetectEnv[r.env_dev] /\ r.env_offset # -1
<1> DEFINE env_at == DetectEnv
           order == SelectSeq(EnumOrder(Device), LAMBDA m : m \in valid)
           calls == 1 .. Len(order)
           probes == {n \in calls : TRUE /\ order[n] < ENV_MTD_NUM}
           found == {n \in probes : order[n] \in mapped /\ env_at[order[n]] # -1}
           lost == {n \in probes : order[n] \notin mapped /\ \A f \in found : n < f}
           known == {m \in valid : \E n \in calls \ lost : order[n] = m}
           first == CHOOSE n \in found : \A f \in found : n <= f
           env_dev == order[first]
           part == [m \in Slots |-> IF m \in known
                                    THEN [name |-> Device[m].name, size |-> Device[m].size]
                                    ELSE NoPart]
<1> HIDE DEF env_at, order
<1>1. r = [part      |-> part,
           totalsz   |-> SizeBefore(part)[MaxBlocks],
           erasesize |-> IF valid = {} THEN 0 ELSE EraseSize,
           env_dev   |-> IF ~TRUE THEN 0 ELSE IF found = {} THEN NoMtd ELSE env_dev,
           env_offset |-> IF found = {} THEN 0 ELSE env_at[env_dev]]
  BY DEF Enumerated, EnumRestore, order, env_at
<1>2. \A m \in Slots : part[m] \in {Table[m], NoPart}
  BY DEF Table
<1>3. ASSUME found # {} PROVE env_dev \in MtdNums /\ env_at[env_dev] # -1
  <2>1. found \in SUBSET Nat
    OBVIOUS
  <2> HIDE DEF found
  <2>2. \E x \in found : \A y \in found : x <= y
    BY <1>3, <2>1, LeastNat
  <2>3. first \in found
    BY <2>2
  <2> QED
    BY <2>3 DEF found
<1> DEFINE dev == IF ~TRUE THEN 0 ELSE IF found = {} THEN NoMtd ELSE env_dev
           at == IF found = {} THEN 0 ELSE env_at[env_dev]
           total == SizeBefore(part)[MaxBlocks]
           erase == IF valid = {} THEN 0 ELSE EraseSize
<1> HIDE DEF part, found, first, env_dev
<1>4. /\ IsCtx(r) /\ r.part = part
      /\ r.env_dev = IF found = {} THEN NoMtd ELSE env_dev
      /\ r.env_offset = IF found = {} THEN 0 ELSE env_at[env_dev]
  <2>1. dev = IF found = {} THEN NoMtd ELSE env_dev
    OBVIOUS
  <2>2. r = [part |-> part, totalsz |-> total, erasesize |-> erase, env_dev |-> dev, env_offset |-> at]
    BY <1>1, Zenon
  <2> HIDE DEF dev, at, total, erase
  <2>3. IsCtx(r) /\ r.part = part /\ r.env_dev = dev /\ r.env_offset = at
    BY <2>2, CtxFields
  <2> QED
    BY <2>1, <2>3, Zenon DEF at
<1>5. ASSUME r.env_dev # NoMtd PROVE r.env_offset = DetectEnv[r.env_dev] /\ r.env_offset # -1
  BY <1>3, <1>4, <1>5 DEF env_at
<1> QED
  BY <1>2, <1>3, <1>4, <1>5 DEF PartialTable

\* What uboot_detect_env finds is the whole environment, at its place.
LEMMA EnvDetected ==
  ASSUME EnvsInPlace, NEW m \in MtdNums, DetectEnv[m] # -1
  PROVE  AtEnv(m, DetectEnv[m]) /\ GoodEnv(flash[Device[m].base + DetectEnv[m]].vars)
<1> DEFINE offs == {o \in 0 .. Device[m].size - EraseSize :
                     o % EraseSize = 0 /\ EnvThere(Device[m].base + o)}
           off == First(offs)
           u == Device[m].base + off
<1>1. DetectEnv[m] = IF offs = {} THEN -1 ELSE off
  BY DEF DetectEnv
<1>2. offs # {} /\ DetectEnv[m] = off
  BY <1>1
<1>3. Device[m].base \in Nat /\ EraseSize \in Nat \ {0}
  BY DeviceTypes, SizesAssumption
<1>4. off \in offs
  <2>1. offs \in SUBSET Nat
    OBVIOUS
  <2> HIDE DEF offs
  <2> QED
    BY <1>2, <2>1, LeastNat DEF First
<1>5. off \in Nat /\ EnvThere(u)
  <2>1. \A o \in offs : o \in Nat /\ EnvThere(Device[m].base + o)
    BY <1>3
  <2> HIDE DEF offs, off
  <2> QED
    BY <1>4, <2>1
<1> HIDE DEF offs, off
<1>6. u \in Nat /\ u \in u .. u + EraseSize - 1 /\ u + 0 = u /\ 0 \in 0 .. EraseSize - 1
  BY <1>3, <1>5
<1> HIDE DEF u
<1>7. u \in Units /\ flash[u] \in Data /\ flash[u].kind = "env" /\ flash[u] = EnvCells(flash[u].vars)[0]
  BY <1>5, <1>6 DEF EnvThere
<1>8. u \in EnvBlock /\ GoodEnv(flash[u].vars) /\ flash[u] = EnvCells(flash[u].vars)[u - EnvBase]
  BY <1>7 DEF EnvsInPlace
<1>9. u = EnvBase
  <2>1. u - EnvBase \in 0 .. EraseSize - 1 /\ EnvBase \in Nat
    BY <1>8, EnvBlockUnits
  <2>2. flash[u].at = 0 /\ flash[u].at = u - EnvBase
    BY <1>6, <1>7, <1>8, <2>1 DEF EnvCells
  <2> QED
    BY <1>6, <2>1, <2>2
<1>10. off = EnvBase - Device[m].base
  BY <1>3, <1>5, <1>9 DEF u
<1> QED
  BY <1>2, <1>8, <1>10 DEF u, AtEnv

\* The steps before a bundle is there.
LEMMA PreparingStep ==
  ASSUME Storable, Upgrading, FreeResources \/ EnumMtd
  PROVE  Upgrading'
<1>1. /\ UNCHANGED flashVars /\ layout' = layout /\ bundle' = bundle /\ hurt' = hurt /\ runs' = runs
      /\ step \in {"free", "enum"} /\ step' \in {"enum", "load", "exit"}
  BY DEF FreeResources, EnumMtd
<1>2. flash' = flash /\ pc' = pc /\ i' = i /\ c' = c
  BY <1>1 DEF flashVars
<1>3. pc = "idle" /\ i = 0 /\ c = 0
  BY <1>1 DEF Upgrading, Flow
<1>4. Flow'
  BY <1>1, <1>2, <1>3 DEF Flow, Labels
<1>5. FlashTypes'
  BY <1>1, SameFlash DEF Upgrading
<1>6. EnvsInPlace'
  BY <1>2 DEF Upgrading, EnvsInPlace
<1>7. ASSUME EnumMtd
      PROVE  /\ IsCtx(mtd') /\ PartialTable(mtd'.part) /\ mtd'.env_dev \in MtdNums \cup {NoMtd}
             /\ step' = "load" => AtEnv(mtd'.env_dev, mtd'.env_offset) /\ GoodEnv(uenv')
  <2>1. PICK valid \in SUBSET MtdNums, mapped \in SUBSET (MtdNums \cap 0 .. ENV_MTD_NUM - 1) :
          Enumerated(mtd', valid, mapped)
    BY <1>7 DEF EnumMtd, Enumerated
  <2>2. mapped \in SUBSET MtdNums
    OBVIOUS
  <2>3. /\ IsCtx(mtd') /\ PartialTable(mtd'.part) /\ mtd'.env_dev \in MtdNums \cup {NoMtd}
        /\ mtd'.env_dev # NoMtd => mtd'.env_offset = DetectEnv[mtd'.env_dev] /\ mtd'.env_offset # -1
    BY <2>1, <2>2, EnumFound
  <2>4. ASSUME step' = "load"
        PROVE  AtEnv(mtd'.env_dev, mtd'.env_offset) /\ GoodEnv(uenv')
    <3>1. mtd'.env_dev # NoMtd /\ uenv' = flash[Device[mtd'.env_dev].base + mtd'.env_offset].vars
      BY <1>7, <2>4 DEF EnumMtd
    <3>2. mtd'.env_dev \in MtdNums /\ mtd'.env_offset = DetectEnv[mtd'.env_dev]
          /\ DetectEnv[mtd'.env_dev] # -1
      BY <2>3, <3>1
    <3> QED
      BY <3>1, <3>2, EnvDetected DEF Upgrading
  <2> QED
    BY <2>3, <2>4
<1>8. mtd'.env_dev \in MtdNums \cup {NoMtd}
  <2>1. CASE FreeResources
    <3>1. mtd' = mtd
      BY <2>1 DEF FreeResources
    <3> QED
      BY <3>1 DEF Upgrading, TypeOK
  <2> QED
    BY <1>7, <2>1
<1>9. EnvFound'
  <2>1. ASSUME step' = "load" PROVE EnumMtd
    BY <2>1 DEF FreeResources
  <2>2. ASSUME step' = "load"
        PROVE  IsCtx(mtd') /\ PartialTable(mtd'.part) /\ GoodEnv(uenv')
               /\ AtEnv(mtd'.env_dev, mtd'.env_offset)
    BY <1>7, <2>1, <2>2
  <2> QED
    BY <2>2 DEF EnvFound, IsCtx, PartialTable, GoodEnv, AtEnv
<1>10. TypeOK'
  BY <1>1, <1>2, <1>8 DEF Upgrading, TypeOK
<1>11. Planned' /\ BlocksWritten' /\ Installed' /\ EnvWritten'
  BY <1>1 DEF Planned, BlocksWritten, Installed, EnvWritten
<1> QED
  BY <1>4, <1>5, <1>6, <1>9, <1>10, <1>11 DEF Upgrading

LEMMA RootBound ==
  ASSUME NEW b, BundleOK(b), NEW part, PartialTable(part), NEW env
  PROVE  Laid(b, part, env).root_part \in -1 .. Len(Laid(b, part, env).mtdparts) - 1
<1> DEFINE s == Laid(b, part, env)
           l0 == Len(Start(b, part).mtdparts)
           len == Len(s.mtdparts)
<1>1. InRow(s, Start(b, part)) /\ Listed(s, Start(b, part)) /\ Marked(s, Start(b, part))
  BY BundleLens, LayOutChained DEF Chained, Laid
<1>2. Start(b, part).mtdparts \in Seq(Nat)
  BY StartIs
<1>3. l0 \in Nat
  BY <1>2, LenProperties
<1>4. s.i \in Nat /\ len = l0 + s.i
  BY <1>1 DEF InRow, Listed
<1>5. s.root_part = -1 \/ \E e \in Slots : e < s.i /\ s.root_part = l0 + e
  BY <1>1 DEF Marked
<1> HIDE DEF len, l0, s
<1>6. s.root_part \in -1 .. len - 1
  BY <1>3, <1>4, <1>5, SizesAssumption DEF Slots
<1> QED
  BY <1>6 DEF s, len

\* A bundle is laid out, and do_flash gets the result.
LEMMA LoadBundleStep ==
  ASSUME Storable, Upgrading, LoadBundle
  PROVE  Upgrading'
<1>1. /\ step = "load" /\ flash' = flash /\ vols' = vols /\ i' = i /\ c' = c /\ uenv' = uenv
      /\ hurt' = hurt /\ runs' = runs
  BY DEF LoadBundle
<1>2. pc = "idle" /\ i = 0 /\ c = 0
  BY <1>1 DEF Upgrading, Flow
<1>3. IsCtx(mtd) /\ PartialTable(mtd.part) /\ GoodEnv(uenv) /\ AtEnv(mtd.env_dev, mtd.env_offset)
  BY <1>1 DEF Upgrading, EnvFound
<1>4. FlashTypes' /\ EnvsInPlace'
  BY <1>1 DEF Upgrading, FlashTypes, EnvsInPlace
<1>5. CASE step' = "exit" /\ UNCHANGED <<bundle, pc, layout, job, mtd>>
  <2>1. Flow'
    BY <1>1, <1>2, <1>5 DEF Flow, Labels
  <2>2. TypeOK'
    BY <1>1, <1>5 DEF Upgrading, TypeOK
  <2>3. EnvFound' /\ Planned' /\ BlocksWritten' /\ Installed' /\ EnvWritten'
    BY <1>5 DEF EnvFound, Planned, BlocksWritten, Installed, EnvWritten
  <2> QED
    BY <1>4, <2>1, <2>2, <2>3 DEF Upgrading
<1>6. CASE step' # "exit"
  <2>1. PICK b \in Bundles :
          LET s   == LayOut(b, mtd.part, uenv)[Len(b.parts)]
              env == IF s.env_at = -1 THEN [dev |-> mtd.env_dev, off |-> mtd.env_offset]
                     ELSE MapOldNew(mtd.part, s.env_at)
          IN  /\ Good(b) /\ s.root_part # -1 /\ s.kernel_part # -1
              /\ bundle' = b /\ step' = "flash" /\ pc' = "analyse"
              /\ layout' = [mtdparts |-> s.mtdparts, root_part |-> s.root_part,
                            kernel_part |-> s.kernel_part]
              /\ job' = [mtdbackup |-> s.mtdwrite, part |-> mtd.part, skip_env |-> FALSE,
                         env_dev |-> env.dev, env_offset |-> env.off]
              /\ mtd' = [mtd EXCEPT !.env_dev = env.dev, !.env_offset = env.off]
    BY <1>6, Zenon DEF LoadBundle
  <2> DEFINE s   == Laid(b, mtd.part, uenv)
             env == IF s.env_at = -1 THEN [dev |-> mtd.env_dev, off |-> mtd.env_offset]
                    ELSE MapOldNew(mtd.part, s.env_at)
  <2>2. /\ Good(b) /\ s.root_part # -1 /\ s.kernel_part # -1
        /\ bundle' = b /\ step' = "flash" /\ pc' = "analyse"
        /\ layout' = [mtdparts |-> s.mtdparts, root_part |-> s.root_part,
                      kernel_part |-> s.kernel_part]
        /\ job' = [mtdbackup |-> s.mtdwrite, part |-> mtd.part, skip_env |-> FALSE,
                   env_dev |-> env.dev, env_offset |-> env.off]
        /\ mtd' = [mtd EXCEPT !.env_dev = env.dev, !.env_offset = env.off]
    BY <2>1, Zenon DEF Laid
  <2>3. BundleOK(b)
    BY BundlesAssumption, Zenon
  <2>4. s.root_part \in -1 .. Len(s.mtdparts) - 1
    BY <1>3, <2>3, RootBound
  <2> HIDE DEF s
  <2>5. env.dev \in MtdNums \cup {NoMtd}
    <3>1. MapOldNew(mtd.part, s.env_at).dev \in MtdNums \cup {NoMtd}
      BY <1>3, MappedDev
    <3> QED
      BY <1>3, <3>1 DEF AtEnv
  <2>6. /\ IF s.env_at = -1 THEN AtEnv(env.dev, env.off)
           ELSE env.dev = MapOldNew(mtd.part, s.env_at).dev /\ env.off = MapOldNew(mtd.part, s.env_at).off
    BY <1>3
  <2> HIDE DEF env
  <2>7. mtd'.part = mtd.part /\ mtd'.env_dev = env.dev /\ mtd'.env_offset = env.off
    BY <1>3, <2>2 DEF IsCtx
  <2>8. /\ layout'.mtdparts = s.mtdparts /\ layout'.root_part = s.root_part
        /\ job'.mtdbackup = s.mtdwrite /\ job'.part = mtd.part /\ job'.skip_env = FALSE
    BY <2>2
  <2>9. TypeOK'
    <3>1. layout'.root_part \in -1 .. Len(layout'.mtdparts) - 1
      BY <2>4, <2>8
    <3>2. pc' \in Labels
      BY <2>2 DEF Labels
    <3> QED
      BY <1>1, <2>2, <2>5, <2>7, <3>1, <3>2 DEF Upgrading, TypeOK
  <2>10. Flow'
    BY <2>2 DEF Flow
  <2>11. Planned'
    <3>1. Laid(bundle', mtd'.part, uenv') = s
      BY <1>1, <2>2, <2>7 DEF s
    <3>2. bundle' \in Bundles /\ Good(bundle') /\ PartialTable(mtd'.part) /\ GoodEnv(uenv')
      BY <1>1, <1>3, <2>2, <2>7
    <3> DEFINE t == Laid(bundle, mtd.part, uenv)
    <3>3. t' = s
      BY <3>1
    <3> HIDE DEF t
    <3>4. PlannedFrom(t)'
      BY <2>2, <2>6, <2>7, <2>8, <3>3 DEF PlannedFrom, AtEnv
    <3> QED
      BY <3>2, <3>4 DEF Planned, t, Good, PartialTable, GoodEnv
  <2>12. BlocksWritten'
    <3>1. Ctl' /\ Passed'
      BY <1>1, <1>2, <2>2, NothingPassed
    <3>2. AnalysisCovers'
      BY <2>2 DEF AnalysisCovers
    <3> QED
      BY <3>1, <3>2 DEF BlocksWritten
  <2>13. EnvFound' /\ Installed' /\ EnvWritten'
    BY <2>2 DEF EnvFound, Installed, EnvWritten
  <2> QED
    BY <1>4, <2>9, <2>10, <2>11, <2>12, <2>13 DEF Upgrading
<1> QED
  BY <1>5, <1>6 DEF LoadBundle

\* do_flash, and a loss of power in it.
LEMMA FlashingStep ==
  ASSUME Storable, Upgrading, step = "flash", InDoFlash \/ PowerLoss
  PROVE  Upgrading'
<1>1. /\ step' \in {"flash", "exit"} /\ FlashNext /\ [FlashNext]_flashVars
      /\ mtd' = mtd /\ uenv' = uenv /\ bundle' = bundle /\ layout' = layout
      /\ hurt' = hurt /\ runs' = runs
  BY DEF InDoFlash, PowerLoss, FlashNext, upgradeVars
<1>2. FlashOK /\ Ctl /\ Passed /\ AnalysisCovers
  BY PlanReady
<1>3. job' = job
  BY <1>1, JobKept
<1>4. FlashOK' /\ Ctl' /\ Passed' /\ AnalysisCovers'
  BY <1>1, <1>2, FlashOKStep, CtlStep, PassedStep, AnalysisStep
<1>5. FlashTypes'
  BY <1>4 DEF FlashOK
<1>6. /\ pc' \in Labels \cup {"true", "false", "dead"}
      /\ pc' \in Labels => step' = "flash"
  <2>1. CASE InDoFlash
    BY <2>1
    DEF InDoFlash, upgradeVars, FlashStep, Goto, Fail, Analyse, NextEntry, NextChunk, Finish,
        EraseBlock, EraseFails, WriteBlock, WriteFails, VerifyBlock, VerifyFails,
        UbiOpen, UbiErase, UbiErased, UbiAttach, UbiMkVol, UbiVolUp, UbiWrite, UbiDone, Labels
  <2>2. CASE PowerLoss
    BY <2>2 DEF PowerLoss, Interrupt, Goto, Labels
  <2> QED
    BY <2>1, <2>2
<1>7. Flow'
  BY <1>1, <1>6 DEF Flow
<1>8. TypeOK'
  BY <1>1, <1>5, <1>6 DEF Upgrading, TypeOK, FlashTypes
<1>9. EnvsInPlace'
  BY <1>1, FlashingEnvs
<1>10. Planned'
  <2> DEFINE s == Laid(bundle, mtd.part, uenv)
  <2>1. s' = s
    BY <1>1
  <2>2. /\ bundle \in Bundles /\ Good(bundle) /\ PartialTable(mtd.part) /\ GoodEnv(uenv)
        /\ PlannedFrom(s)
    BY DEF Upgrading, Planned
  <2> HIDE DEF s
  <2>3. PlannedFrom(s)'
    BY <1>1, <1>3, <2>1, <2>2 DEF PlannedFrom, AtEnv
  <2> QED
    BY <1>1, <2>2, <2>3 DEF Planned, s, Good, PartialTable, GoodEnv
<1>11. BlocksWritten'
  BY <1>4 DEF BlocksWritten
<1>12. EnvFound' /\ Installed' /\ EnvWritten'
  BY <1>1 DEF EnvFound, Installed, EnvWritten
<1> QED
  BY <1>5, <1>7, <1>8, <1>9, <1>10, <1>11, <1>12 DEF Upgrading

LEMMA EarlyExitStep ==
  ASSUME Storable, Upgrading, EarlyExit
  PROVE  Upgrading'
<1>1. /\ step' = "exit" /\ pc = "false" /\ UNCHANGED flashVars /\ mtd' = mtd /\ uenv' = uenv
      /\ bundle' = bundle /\ layout' = layout /\ hurt' = hurt /\ runs' = runs
  BY DEF EarlyExit
<1>2. flash' = flash /\ pc' = pc /\ i' = i /\ c' = c
  BY <1>1 DEF flashVars
<1>3. FlashTypes' /\ EnvsInPlace'
  BY <1>1, <1>2, SameFlash DEF Upgrading, EnvsInPlace
<1>4. TypeOK'
  BY <1>1, <1>2 DEF Upgrading, TypeOK
<1>5. Flow' /\ EnvFound' /\ Planned' /\ BlocksWritten' /\ Installed' /\ EnvWritten'
  BY <1>1, <1>2 DEF Flow, Labels, EnvFound, Planned, BlocksWritten, Installed, EnvWritten
<1> QED
  BY <1>3, <1>4, <1>5 DEF Upgrading

\* The variables that boot what do_flash wrote.
LEMMA EditEnvStep ==
  ASSUME Storable, Upgrading, EditEnv
  PROVE  Upgrading'
<1>1. /\ step = "flash" /\ pc = "true" /\ step' = "rom_erase" /\ uenv' = NewEnv
      /\ UNCHANGED flashVars /\ mtd' = mtd
      /\ bundle' = bundle /\ layout' = layout /\ hurt' = hurt /\ runs' = runs
  BY DEF EditEnv
<1>2. flash' = flash /\ pc' = pc /\ i' = i /\ c' = c /\ job' = job
  BY <1>1 DEF flashVars
<1>3. FlashTypes' /\ EnvsInPlace'
  BY <1>1, <1>2, SameFlash DEF Upgrading, EnvsInPlace
<1>4. TypeOK'
  BY <1>1, <1>2 DEF Upgrading, TypeOK
<1>5. Flow' /\ EnvFound' /\ Planned' /\ BlocksWritten' /\ EnvWritten'
  BY <1>1, <1>2 DEF Flow, Labels, EnvFound, Planned, BlocksWritten, EnvWritten
<1> DEFINE s == Laid(bundle, mtd.part, uenv)
<1>6. /\ bundle \in Bundles /\ BundleOK(bundle) /\ PartialTable(mtd.part) /\ uenv \in Envs
      /\ GoodEnv(uenv) /\ JobLaid(job, bundle, mtd.part, uenv)
  BY <1>1, PlanReady
<1>7. AtEnv(mtd.env_dev, mtd.env_offset)
  BY <1>1, EnvReached
<1>8. PICK r \in Slots :
        /\ r < s.i /\ job.mtdbackup[r].name = "rootfs"
        /\ Sums(layout.mtdparts)[layout.root_part] = job.mtdbackup[r].off
        /\ layout.mtdparts[layout.root_part + 1] = job.mtdbackup[r].size
  BY <1>1, RootListed
<1>9. layout.mtdparts \in Seq(Nat) /\ layout.root_part \in Nat
  BY <1>1, RootListed
<1>10. \E k \in Slots : k < s.i /\ layout.kernel_part = k /\ job.mtdbackup[k].name = "kernel"
  <2>1. s.kernel_part # -1
        /\ layout = [mtdparts |-> s.mtdparts, root_part |-> s.root_part, kernel_part |-> s.kernel_part]
    BY <1>1, Zenon DEF Upgrading, Planned, PlannedFrom
  <2>2. Marked(s, Start(bundle, mtd.part))
    BY <1>6, BundleLens, LayOutChained DEF Chained, Laid
  <2>3. job.mtdbackup = s.mtdwrite
    BY <1>6 DEF JobLaid
  <2> QED
    BY <2>1, <2>2, <2>3 DEF Marked
<1>11. PICK k \in Slots : k < s.i /\ layout.kernel_part = k /\ job.mtdbackup[k].name = "kernel"
  BY <1>10
<1> DEFINE kernel == job.mtdbackup[k]
           root == job.mtdbackup[r]
<1>12. /\ kernel.off \in Nat /\ kernel.size \in Nat
       /\ HoldsImage(kernel.off, Payload("kernel")) /\ Len(Payload("kernel")) <= kernel.size
       /\ \A x \in DOMAIN Payload("kernel") : kernel.off + x - 1 \notin EnvBlock
  BY <1>1, <1>11, ImageInstalled
<1>13. /\ HoldsImage(root.off, Payload("rootfs")) /\ Len(Payload("rootfs")) <= root.size
       /\ \A x \in DOMAIN Payload("rootfs") : root.off + x - 1 \notin EnvBlock
  BY <1>1, <1>8, ImageInstalled
<1> HIDE DEF kernel, root, s
<1>14. /\ GoodEnv(NewEnv)
       /\ Lookup(NewEnv, <<"bootcmd">>) = <<kernel.off, kernel.size>>
       /\ Lookup(NewEnv, <<"bootargs">>) = Bootargs
  <2>1. kernel.off = job.mtdbackup[layout.kernel_part].off
        /\ kernel.size = job.mtdbackup[layout.kernel_part].size
    BY <1>11 DEF kernel
  <2> QED
    BY <1>6, <1>9, <1>12, <2>1, NewEnvIs
<1>15. Bootargs[1] = layout.root_part /\ Tail(Bootargs) = layout.mtdparts
  BY <1>9, BootargsAre
<1> DEFINE cmd  == Lookup(NewEnv, <<"bootcmd">>)
           args == Lookup(NewEnv, <<"bootargs">>)
<1>16. cmd[1] = kernel.off /\ cmd[2] = kernel.size
  BY <1>14
<1>17. args[1] = layout.root_part /\ Tail(args) = layout.mtdparts
  BY <1>14, <1>15
<1>18. Sums(Tail(args))[args[1]] = root.off /\ Tail(args)[args[1] + 1] = root.size
  BY <1>8, <1>17 DEF root
<1>19. Boots(NewEnv)
  <2> HIDE DEF cmd, args
  <2>1. HoldsImage(cmd[1], Payload("kernel")) /\ Len(Payload("kernel")) <= cmd[2]
    BY <1>12, <1>16
  <2>2. HoldsImage(Sums(Tail(args))[args[1]], Payload("rootfs"))
        /\ Len(Payload("rootfs")) <= Tail(args)[args[1] + 1]
    BY <1>13, <1>18
  <2> QED
    BY <2>1, <2>2, Zenon DEF Boots, cmd, args
<1>20. ClearOfEnv(NewEnv)
  <2> HIDE DEF cmd, args
  <2>1. \A x \in DOMAIN Payload("kernel") : cmd[1] + x - 1 \notin EnvBlock
    BY <1>12, <1>16
  <2>2. \A x \in DOMAIN Payload("rootfs") : Sums(Tail(args))[args[1]] + x - 1 \notin EnvBlock
    BY <1>13, <1>18
  <2> QED
    BY <2>1, <2>2, Zenon DEF ClearOfEnv, cmd, args
<1>21. Boots(uenv)' /\ ClearOfEnv(uenv)'
  <2>1. \A name : Payload(name)' = Payload(name)
    BY <1>1 DEF Payload
  <2> DEFINE new == NewEnv
  <2>2. Boots(new) /\ ClearOfEnv(new) /\ uenv' = new
    BY <1>1, <1>19, <1>20
  <2> HIDE DEF new
  <2> QED
    BY <1>1, <1>2, <2>2 DEF Boots, ClearOfEnv, HoldsImage, Payload
<1>22. GoodEnv(uenv') /\ AtEnv(mtd'.env_dev, mtd'.env_offset)
  BY <1>1, <1>7, <1>14
<1>23. Installed'
  BY <1>21, <1>22 DEF Installed, GoodEnv, AtEnv
<1> QED
  BY <1>3, <1>4, <1>5, <1>23 DEF Upgrading

\* What boots stays where it is when only the environment's block changes.
LEMMA BootsKept ==
  ASSUME Boots(uenv), ClearOfEnv(uenv), uenv' = uenv, bundle' = bundle,
         \A u \in Units \ EnvBlock : flash'[u] = flash[u]
  PROVE  Boots(uenv)' /\ ClearOfEnv(uenv)'
<1> DEFINE cmd  == Lookup(uenv, <<"bootcmd">>)
           args == Lookup(uenv, <<"bootargs">>)
           kernel == Payload("kernel")
           root == Payload("rootfs")
           place == Sums(Tail(args))[args[1]]
<1>1. /\ HoldsImage(cmd[1], kernel) /\ Len(kernel) <= cmd[2]
      /\ HoldsImage(place, root) /\ Len(root) <= Tail(args)[args[1] + 1]
  BY DEF Boots
<1>2. /\ \A x \in DOMAIN kernel : cmd[1] + x - 1 \notin EnvBlock
      /\ \A x \in DOMAIN root : place + x - 1 \notin EnvBlock
  BY DEF ClearOfEnv
<1>3. cmd' = cmd /\ args' = args /\ place' = place
  OBVIOUS
<1>4. kernel' = kernel /\ root' = root
  BY DEF Payload
<1> HIDE DEF cmd, args, kernel, root, place
<1>5. HoldsImage(cmd[1], kernel)' /\ HoldsImage(place, root)'
  BY <1>1, <1>2, <1>3, <1>4 DEF HoldsImage
<1>6. Boots(uenv)'
  <2>1. (Len(kernel) <= cmd[2])' /\ (Len(root) <= Tail(args)[args[1] + 1])'
    BY <1>1, <1>3, <1>4
  <2> QED
    BY <1>5, <2>1 DEF Boots, cmd, args, kernel, root, place
<1>7. ClearOfEnv(uenv)'
  <2>1. /\ (\A x \in DOMAIN kernel : cmd[1] + x - 1 \notin EnvBlock)'
        /\ (\A x \in DOMAIN root : place + x - 1 \notin EnvBlock)'
    BY <1>2, <1>3, <1>4
  <2> QED
    BY <2>1 DEF ClearOfEnv, cmd, args, kernel, root, place
<1> QED
  BY <1>6, <1>7

LEMMA EnvUnitsAre ==
  ASSUME AtEnv(mtd.env_dev, mtd.env_offset)
  PROVE  /\ EnvUnits = EnvBlock
         /\ \A u \in Units : u - Device[mtd.env_dev].base - mtd.env_offset = u - EnvBase
<1> DEFINE base == Device[mtd.env_dev].base
<1>1. /\ base \in Nat /\ EnvBase \in Nat /\ base + mtd.env_offset = EnvBase /\ mtd.env_offset \in Int
      /\ EnvUnits = Block(mtd.env_dev, mtd.env_offset)
  BY DeviceTypes, EnvBlockUnits DEF AtEnv, EnvUnits
<1>2. EnvUnits = EnvBlock
  BY <1>1 DEF EnvBlock, Block
<1>3. \A u \in Units : u - base - mtd.env_offset = u - EnvBase
  <2>1. Units \subseteq Int
    BY SizesAssumption DEF Units
  <2> HIDE DEF base
  <2> QED
    BY <1>1, <2>1
<1> QED
  BY <1>2, <1>3

\* Cells of the environment's block in which no environment is left, or a good one.
LEMMA EnvBlockWritten ==
  ASSUME Storable, Upgrading, flash' \in [Units -> Content],
         \A u \in Units \ EnvBlock : flash'[u] = flash[u],
         \A u \in EnvBlock : \/ flash'[u] = flash[u]
                             \/ flash'[u] \in {Erased, Torn}
                             \/ GoodEnv(uenv) /\ flash'[u] = EnvCells(uenv)[u - EnvBase]
  PROVE  EnvsInPlace'
<1> SUFFICES ASSUME NEW u \in Units, flash'[u] \in Data, flash'[u].kind = "env"
             PROVE  /\ u \in EnvBlock /\ GoodEnv(flash'[u].vars)
                    /\ flash'[u] = EnvCells(flash'[u].vars)[u - EnvBase]
  BY DEF EnvsInPlace, GoodEnv
<1>1. flash'[u] \notin {Erased, Torn}
  BY ContentAssumption
<1>2. CASE flash'[u] = flash[u]
  BY <1>2 DEF Upgrading, EnvsInPlace
<1>3. CASE u \in EnvBlock /\ GoodEnv(uenv) /\ flash'[u] = EnvCells(uenv)[u - EnvBase]
  <2>1. flash'[u].vars = uenv
    BY <1>3, EnvBlockUnits, EnvCellsAre
  <2> QED
    BY <1>3, <2>1
<1> QED
  BY <1>1, <1>2, <1>3

\* What set_env_param_rom, or an end of it, leaves on the flash.
LEMMA RomLeaves ==
  ASSUME Storable, Upgrading, step \in {"rom_erase", "rom_write"}, NEW new,
         \/ new = flash \/ new = Fill(EnvUnits, Erased) \/ new = Fill(EnvUnits, Torn)
         \/ new = WriteOver(EnvCells(uenv))
  PROVE  /\ new \in [Units -> Content]
         /\ \A u \in Units \ EnvBlock : new[u] = flash[u]
         /\ \A u \in EnvBlock : \/ new[u] = flash[u]
                                \/ new[u] \in {Erased, Torn}
                                \/ new[u] = EnvCells(uenv)[u - EnvBase]
         /\ new = WriteOver(EnvCells(uenv)) => \A u \in EnvBlock : new[u] = EnvCells(uenv)[u - EnvBase]
<1>1. AtEnv(mtd.env_dev, mtd.env_offset) /\ GoodEnv(uenv)
  BY DEF Upgrading, Installed
<1>2. EnvUnits = EnvBlock
  BY <1>1, EnvUnitsAre
<1>3. flash \in [Units -> Content]
  BY DEF Upgrading, FlashTypes
<1>4. EnvBlock \subseteq Units
  BY EnvBlockUnits
<1>5. \A u \in EnvBlock : EnvCells(uenv)[u - EnvBase] \in Content
  <2>1. uenv \in Envs
    BY <1>1 DEF GoodEnv, Proper
  <2>2. \A x \in 0 .. EraseSize - 1 : EnvCells(uenv)[x] \in Data
    BY <2>1 DEF Storable
  <2> QED
    BY <2>2, EnvBlockUnits DEF Content
<1>6. CASE new = flash
  <2>1. new = WriteOver(EnvCells(uenv)) => \A u \in EnvBlock : new[u] = EnvCells(uenv)[u - EnvBase]
    <3>1. ASSUME NEW u \in EnvBlock, new = WriteOver(EnvCells(uenv))
          PROVE  new[u] = EnvCells(uenv)[u - EnvBase]
      <4>1. u \in Units /\ u - Device[mtd.env_dev].base - mtd.env_offset = u - EnvBase
        BY <1>1, <1>4, EnvUnitsAre
      <4> QED
        BY <1>2, <3>1, <4>1 DEF WriteOver
    <3> QED
      BY <3>1
  <2> QED
    BY <1>3, <1>6, <2>1
<1>7. CASE \E x \in {Erased, Torn} : new = Fill(EnvUnits, x) /\ new # WriteOver(EnvCells(uenv))
  <2>1. PICK x \in {Erased, Torn} : new = Fill(EnvUnits, x)
    BY <1>7
  <2>2. x \in Content
    BY DEF Content
  <2>3. new \in [Units -> Content]
    BY <1>3, <2>1, <2>2, FillType
  <2>4. \A u \in Units : new[u] = IF u \in EnvBlock THEN x ELSE flash[u]
    BY <1>2, <2>1 DEF Fill
  <2> QED
    BY <1>4, <1>7, <2>3, <2>4
<1>8. CASE new = WriteOver(EnvCells(uenv))
  <2>1. \A u \in Units : new[u] = IF u \in EnvBlock THEN EnvCells(uenv)[u - EnvBase] ELSE flash[u]
    <3>1. ASSUME NEW u \in Units
          PROVE  new[u] = IF u \in EnvBlock THEN EnvCells(uenv)[u - EnvBase] ELSE flash[u]
      <4>1. u - Device[mtd.env_dev].base - mtd.env_offset = u - EnvBase
        BY <1>1, EnvUnitsAre
      <4> QED
        BY <1>2, <1>8, <4>1 DEF WriteOver
    <3> QED
      BY <3>1
  <2>2. new = [u \in Units |-> new[u]]
    BY <1>8 DEF WriteOver
  <2>3. \A u \in Units : new[u] \in Content
    BY <1>3, <1>5, <2>1
  <2>4. new \in [Units -> Content]
    BY <2>2, <2>3
  <2> QED
    BY <1>4, <2>1, <2>4
<1> QED
  BY <1>6, <1>7, <1>8

\* set_env_param_rom, wherever it ends.
LEMMA RomStep ==
  ASSUME Storable, Upgrading, step \in {"rom_erase", "rom_write"},
         RomErase \/ RomWrite \/ RomFails \/ PowerLoss
  PROVE  Upgrading'
<1>1. /\ vols' = vols /\ job' = job /\ pc' = pc /\ i' = i /\ c' = c
      /\ mtd' = mtd /\ uenv' = uenv /\ bundle' = bundle /\ layout' = layout /\ runs' = runs
      /\ step' \in {"rom_write", "reboot", "exit"} /\ hurt' \in BOOLEAN
  BY DEF RomErase, RomWrite, RomFails, PowerLoss, Upgrading, TypeOK
<1>2. \/ flash' = flash \/ flash' = Fill(EnvUnits, Erased) \/ flash' = Fill(EnvUnits, Torn)
      \/ flash' = WriteOver(EnvCells(uenv))
  BY DEF RomErase, RomWrite, RomFails, PowerLoss
<1> DEFINE new == flash'
<1>3. /\ new \in [Units -> Content]
      /\ \A u \in Units \ EnvBlock : new[u] = flash[u]
      /\ \A u \in EnvBlock : \/ new[u] = flash[u]
                             \/ new[u] \in {Erased, Torn}
                             \/ new[u] = EnvCells(uenv)[u - EnvBase]
      /\ new = WriteOver(EnvCells(uenv)) => \A u \in EnvBlock : new[u] = EnvCells(uenv)[u - EnvBase]
  <2>1. \/ new = flash \/ new = Fill(EnvUnits, Erased) \/ new = Fill(EnvUnits, Torn)
        \/ new = WriteOver(EnvCells(uenv))
    BY <1>2
  <2> HIDE DEF new
  <2> QED
    BY <2>1, RomLeaves
<1>4. /\ AtEnv(mtd.env_dev, mtd.env_offset) /\ GoodEnv(uenv) /\ Boots(uenv) /\ ClearOfEnv(uenv)
  BY DEF Upgrading, Installed
<1>5. EnvsInPlace'
  BY <1>3, <1>4, EnvBlockWritten
<1>6. FlashTypes'
  BY <1>1, <1>3 DEF Upgrading, FlashTypes
<1>7. TypeOK'
  BY <1>1, <1>3 DEF Upgrading, TypeOK
<1>8. Flow'
  BY <1>1 DEF Upgrading, Flow, Labels
<1>9. EnvFound' /\ Planned' /\ BlocksWritten'
  BY <1>1 DEF EnvFound, Planned, BlocksWritten
<1>10. Installed'
  <2>1. Boots(uenv)' /\ ClearOfEnv(uenv)'
    BY <1>1, <1>3, <1>4, BootsKept
  <2> QED
    BY <1>1, <1>4, <2>1 DEF Installed, AtEnv, GoodEnv
<1>11. EnvWritten'
  <2>1. ASSUME step' = "reboot", ~hurt' PROVE \A u \in EnvBlock : flash'[u] = EnvCells(uenv')[u - EnvBase]
    <3>1. RomWrite
      BY <2>1 DEF RomErase, RomFails, PowerLoss
    <3>2. flash' = WriteOver(EnvCells(uenv))
      BY <3>1 DEF RomWrite
    <3> QED
      BY <1>1, <1>3, <3>2
  <2> QED
    BY <2>1 DEF EnvWritten
<1> QED
  BY <1>5, <1>6, <1>7, <1>8, <1>9, <1>10, <1>11 DEF Upgrading

LEMMA AgainStep ==
  ASSUME Upgrading, Again
  PROVE  Upgrading'
<1>1. /\ step' = "free" /\ pc' = "idle" /\ i' = 0 /\ c' = 0 /\ mtd' = NoCtx /\ layout' = NoLayout
      /\ hurt' = FALSE /\ runs < MaxRuns /\ runs' = runs + 1 /\ flash' = flash /\ vols' = vols
  BY DEF Again
<1>2. FlashTypes'
  BY <1>1, SizesAssumption DEF Upgrading, FlashTypes
<1>3. mtd'.env_dev = NoMtd /\ layout'.root_part = -1 /\ layout'.mtdparts = <<>>
  BY <1>1 DEF NoCtx, NoLayout
<1>4. layout'.root_part \in -1 .. Len(layout'.mtdparts) - 1
  BY <1>3
<1>5. runs' \in 1 .. MaxRuns
  BY <1>1, UpgradeAssumption DEF Upgrading, TypeOK
<1>6. TypeOK'
  BY <1>1, <1>2, <1>3, <1>4, <1>5 DEF TypeOK, FlashTypes
<1>7. EnvsInPlace'
  BY <1>1 DEF Upgrading, EnvsInPlace
<1>8. Flow' /\ EnvFound' /\ Planned' /\ BlocksWritten' /\ Installed' /\ EnvWritten'
  BY <1>1 DEF Flow, Labels, EnvFound, Planned, BlocksWritten, Installed, EnvWritten
<1> QED
  BY <1>2, <1>6, <1>7, <1>8 DEF Upgrading

LEMMA UnchangedStep ==
  ASSUME Upgrading, UNCHANGED vars
  PROVE  Upgrading'
<1>1. /\ UNCHANGED flashVars /\ step' = step /\ mtd' = mtd /\ uenv' = uenv /\ bundle' = bundle
      /\ layout' = layout /\ hurt' = hurt /\ runs' = runs
      /\ flash' = flash /\ vols' = vols /\ job' = job /\ pc' = pc /\ i' = i /\ c' = c
  BY DEF vars, flashVars, upgradeVars
<1>2. FlashTypes' /\ EnvsInPlace'
  BY <1>1, SameFlash DEF Upgrading, EnvsInPlace
<1>3. TypeOK' /\ Flow' /\ EnvFound' /\ EnvWritten'
  BY <1>1 DEF Upgrading, TypeOK, Flow, EnvFound, IsCtx, PartialTable, GoodEnv, AtEnv, EnvWritten
<1>4. Planned'
  <2> DEFINE s == Laid(bundle, mtd.part, uenv)
  <2>1. s' = s
    BY <1>1
  <2>2. step = "flash" =>
          /\ bundle \in Bundles /\ Good(bundle) /\ PartialTable(mtd.part) /\ GoodEnv(uenv)
          /\ PlannedFrom(s)
    BY DEF Upgrading, Planned
  <2> HIDE DEF s
  <2>3. PlannedFrom(s) => PlannedFrom(s)'
    BY <1>1, <2>1 DEF PlannedFrom, AtEnv
  <2> QED
    BY <1>1, <2>2, <2>3 DEF Planned, s, Good, PartialTable, GoodEnv
<1>5. BlocksWritten'
  <2>1. AnalysisCovers => AnalysisCovers'
    BY <1>1 DEF AnalysisCovers
  <2> QED
    BY <1>1, <2>1, SameFlash DEF Upgrading, BlocksWritten
<1>6. Installed'
  <2>1. Boots(uenv) /\ ClearOfEnv(uenv) => Boots(uenv)' /\ ClearOfEnv(uenv)'
    BY <1>1, BootsKept
  <2> QED
    BY <1>1, <2>1 DEF Upgrading, Installed, AtEnv, GoodEnv
<1> QED
  BY <1>2, <1>3, <1>4, <1>5, <1>6 DEF Upgrading

LEMMA UpgradingStep ==
  ASSUME Storable, Upgrading, [Next]_vars
  PROVE  Upgrading'
<1>1. CASE FreeResources \/ EnumMtd
  BY <1>1, PreparingStep
<1>2. CASE LoadBundle
  BY <1>2, LoadBundleStep
<1>3. CASE InDoFlash \/ (PowerLoss /\ step = "flash")
  <2>1. step = "flash"
    BY <1>3 DEF InDoFlash
  <2> QED
    BY <1>3, <2>1, FlashingStep
<1>4. CASE EarlyExit
  BY <1>4, EarlyExitStep
<1>5. CASE EditEnv
  BY <1>5, EditEnvStep
<1>6. CASE RomErase \/ RomWrite \/ RomFails \/ (PowerLoss /\ step # "flash")
  <2>1. step \in {"rom_erase", "rom_write"}
    BY <1>6 DEF RomErase, RomWrite, RomFails, PowerLoss
  <2> QED
    BY <1>6, <2>1, RomStep
<1>7. CASE Again
  BY <1>7, AgainStep
<1>8. CASE UNCHANGED vars
  BY <1>8, UnchangedStep
<1> QED
  BY <1>1, <1>2, <1>3, <1>4, <1>5, <1>6, <1>7, <1>8 DEF Next

\* do_upgrade: its variables keep their types and it hands do_flash only what
\* do_flash's guarantees are for.
THEOREM UpgradeIsSound == ASSUME Storable PROVE Spec => []Sound
<1>1. Init => Upgrading
  BY UpgradingInit
<1>2. Upgrading /\ [Next]_vars => Upgrading'
  BY UpgradingStep
<1>3. Upgrading => Sound
  <2> SUFFICES ASSUME Upgrading PROVE Sound
    OBVIOUS
  <2>1. TypeOK
    BY DEF Upgrading
  <2>2. ASSUME pc = "analyse" PROVE PlanOK(job) /\ PlanDisjoint(job)
    <3>1. step = "flash"
      BY <2>2 DEF Upgrading, Flow, Labels
    <3> QED
      BY <3>1, PlanReady DEF FlashOK
  <2> QED
    BY <2>1, <2>2 DEF Sound, PlanSound
<1> QED
  BY <1>1, <1>2, <1>3, PTL DEF Spec

\* do_upgrade: the camera that is rebooted after every call succeeded finds an
\* environment where its boot loader looks for one, with commands that boot what was
\* installed, and in it the variables no upgrade sets.
THEOREM UpgradeBoots == ASSUME Storable PROVE Spec => []Booted
<1>1. Init => Upgrading
  BY UpgradingInit
<1>2. Upgrading /\ [Next]_vars => Upgrading'
  BY UpgradingStep
<1>3. Upgrading => Booted
  <2> SUFFICES ASSUME Upgrading, step = "reboot", ~hurt
               PROVE  /\ EnvThere(EnvBase) /\ Boots(flash[EnvBase].vars)
                      /\ \A n \in DOMAIN OldEnv :
                           OldEnv[n][1] \notin SetVars
                             => Lookup(flash[EnvBase].vars, OldEnv[n][1]) = OldEnv[n][2]
    BY DEF Booted, BootReady, OldVarsKept
  <2>1. GoodEnv(uenv) /\ Boots(uenv)
    BY DEF Upgrading, Installed
  <2>2. \A u \in EnvBlock : flash[u] = EnvCells(uenv)[u - EnvBase]
    BY DEF Upgrading, EnvWritten
  <2>3. \A x \in 0 .. EraseSize - 1 : flash[EnvBase + x] = EnvCells(uenv)[x]
    <3>1. ASSUME NEW x \in 0 .. EraseSize - 1 PROVE flash[EnvBase + x] = EnvCells(uenv)[x]
      <4>1. EnvBase + x \in EnvBlock /\ (EnvBase + x) - EnvBase = x
        BY EnvBlockUnits
      <4> QED
        BY <2>2, <4>1
    <3> QED
      BY <3>1
  <2>4. 0 \in 0 .. EraseSize - 1 /\ EnvBase + 0 = EnvBase
    BY EnvBlockUnits
  <2>5. flash[EnvBase] = EnvCells(uenv)[0]
    BY <2>3, <2>4
  <2>6. flash[EnvBase].kind = "env" /\ flash[EnvBase].vars = uenv
    BY <2>4, <2>5, EnvCellsAre
  <2>7. flash[EnvBase] \in Data
    <3>1. uenv \in Envs
      BY <2>1 DEF GoodEnv, Proper
    <3> QED
      BY <2>4, <2>5, <3>1 DEF Storable
  <2>8. EnvThere(EnvBase)
    BY <2>3, <2>6, <2>7, EnvBlockUnits DEF EnvThere, EnvBlock
  <2> QED
    BY <2>1, <2>6, <2>8 DEF GoodEnv
<1> QED
  BY <1>1, <1>2, <1>3, PTL DEF Spec

-----------------------------------------------------------------------------
(* A bundle that leaves the boot loader alone. *)

\* The boot loader lies in the partitions that are skipped.
LEMMA BootSkipped ==
  ASSUME NEW b, BundleOK(b), NEW n \in DOMAIN b.skip, b.skip[n] = "boot", NEW u \in BootUnits
  PROVE  u \in Nat /\ u < Begin(b) /\ Begin(b) \in Nat
<1> DEFINE m == n - 1
           f == SizeBefore(Table)
           before == Total(b.prefix)
           len == Len(b.skip)
<1>1. m \in MtdNums /\ b.skip[n] = Device[m].name
  BY Zenon DEF BundleOK
<1>2. n \in 1 .. len /\ len \in 0 .. MaxBlocks
  BY Zenon DEF BundleOK
<1>3. u \in Partition(m) /\ u \in Units
  BY <1>1, UpgradeAssumption
<1>4. /\ Device[m].base = f[m] /\ Table[m].size = Device[m].size /\ m \in Slots
      /\ Device[m].base \in Nat /\ Device[m].size \in Nat
  BY <1>1, DeviceTypes, UpgradeAssumption DEF InOrder, Table
<1>5. f[m + 1] = f[m] + Table[m].size /\ (\A k \in 0 .. MaxBlocks : f[k] \in Nat)
  BY <1>4, TableSums
<1>6. m + 1 = n /\ n \in 0 .. MaxBlocks /\ n <= len
  BY <1>2, SizesAssumption
<1>7. f[n] <= f[len]
  BY <1>2, <1>6, TableRises
<1>8. before \in Nat
  <2>1. b.prefix \in Seq(Nat)
    BY Zenon DEF BundleOK
  <2>2. Len(b.prefix) \in 0 .. Len(b.prefix)
    BY <2>1, LenProperties
  <2> QED
    BY <2>1, <2>2, SumsType DEF Total
<1>9. Begin(b) = before + f[len]
  BY DEF Begin
<1> HIDE DEF m, f, before, len
<1>10. u \in Nat /\ u < f[n]
  BY <1>3, <1>4, <1>5, <1>6, SizesAssumption DEF Partition, Units
<1> QED
  BY <1>2, <1>5, <1>6, <1>7, <1>8, <1>9, <1>10

\* No image of it is written there, nor to the environment, and no copy is made.
LEMMA FlashingSpares ==
  ASSUME Storable, Upgrading, step = "flash", [FlashNext]_flashVars,
         NEW n \in DOMAIN bundle.skip, bundle.skip[n] = "boot",
         NEW u \in Units, flash'[u] # flash[u]
  PROVE  u \notin BootUnits \cup EnvBlock
<1> DEFINE s == Laid(bundle, mtd.part, uenv)
           d == job.mtdbackup[i]
           start == Start(bundle, mtd.part)
<1>1. /\ BundleOK(bundle) /\ PartialTable(mtd.part) /\ uenv \in Envs
      /\ job.part = mtd.part /\ JobLaid(job, bundle, mtd.part, uenv)
      /\ FlashOK /\ Ctl /\ AnalysisCovers /\ \A e \in Slots : ~IsUbi(job, e)
  BY PlanReady
<1>2. RawHere /\ u - d.off \in 0 .. d.size - 1
  BY <1>1, WritesWhere
<1>3. i \in Slots /\ IsRaw(job, i)
  BY <1>2 DEF RawHere
<1>4. i < s.i
  BY <1>1, <1>3, JobEntry
<1>5. d = s.mtdwrite[i]
  BY <1>1 DEF JobLaid
<1>6. pc \in {"erase", "write"}
  BY <1>1, <1>3, Writes DEF WritesBlock, WritesUbi, UbiHere
<1>7. Accepted(job, i)
  BY <1>1, <1>3, <1>6 DEF AnalysisCovers, Labels
<1>8. start = Start(bundle, Table) /\ start.goff = Begin(bundle)
  BY <1>1, <1>3, <1>4, <1>7, StartAccepted
<1>9. InRow(s, start) /\ Marked(s, start)
  BY <1>1, BundleLens, LayOutChained DEF Chained, Laid
<1>10. start.goff <= d.off /\ d.off \in Nat /\ d.size \in Nat
  BY <1>3, <1>4, <1>5, <1>9 DEF InRow
<1> HIDE DEF s, d, start
<1>11. u \notin BootUnits
  <2>1. ASSUME u \in BootUnits PROVE FALSE
    <3>1. u \in Nat /\ u < Begin(bundle) /\ Begin(bundle) \in Nat
      BY <1>1, <2>1, BootSkipped
    <3> QED
      BY <1>2, <1>8, <1>10, <3>1
  <2> QED
    BY <2>1
<1>12. u \notin EnvBlock
  <2>1. PICK k \in 1 .. Len(bundle.parts) : HoldsPart(bundle, mtd.part, uenv, k, d)
    BY <1>1, <1>3, <1>4, <1>5, LaidPart DEF s
  <2> DEFINE p == bundle.parts[k]
             at == LayOut(bundle, mtd.part, uenv)[k - 1].goff
  <2>2. PartOK(p) /\ k \in DOMAIN bundle.parts
    BY <1>1, BundleShape
  <2>3. p.name # "boot"
    BY <1>1, <2>2, Zenon DEF BundleOK
  <2>4. d = ImageEntry(at, p)
    BY <2>1, <2>3 DEF HoldsPart
  <2>5. at + Room(p) <= EnvBase \/ EnvBase + EraseSize <= at
    BY <1>1, <1>8, ImagePlace DEF start
  <2> HIDE DEF p, at
  <2>6. d.off = at /\ d.size = Room(p)
    BY <2>2, <2>4, ImageData
  <2>7. u \in Nat /\ EnvBase \in Nat /\ EraseSize \in Nat
    BY EnvBlockUnits, SizesAssumption DEF Units
  <2> QED
    BY <1>2, <1>10, <2>5, <2>6, <2>7 DEF EnvBlock
<1> QED
  BY <1>11, <1>12

LEMMA SparedStep ==
  ASSUME Storable, Upgrading, [Next]_vars, "boot" \in ToSet(bundle.skip),
         NEW u \in BootUnits \cup EnvBlock, flash'[u] # flash[u]
  PROVE  u \notin BootUnits /\ step \in {"rom_erase", "rom_write"}
<1>1. u \in Units
  BY UpgradeAssumption
<1>2. InDoFlash \/ RomErase \/ RomWrite \/ RomFails \/ PowerLoss
  BY DEF Next, FreeResources, EnumMtd, LoadBundle, EarlyExit, EditEnv, Again, vars, flashVars
<1>3. CASE step = "flash"
  <2>1. [FlashNext]_flashVars
    BY <1>2, <1>3 DEF InDoFlash, RomErase, RomWrite, RomFails, PowerLoss, FlashNext
  <2>2. PICK n \in DOMAIN bundle.skip : bundle.skip[n] = "boot"
    BY DEF ToSet
  <2> QED
    BY <1>1, <1>3, <2>1, <2>2, FlashingSpares
<1>4. CASE step # "flash"
  <2>1. step \in {"rom_erase", "rom_write"}
    BY <1>2, <1>4 DEF InDoFlash, RomErase, RomWrite, RomFails, PowerLoss
  <2>2. \/ flash' = flash \/ flash' = Fill(EnvUnits, Erased) \/ flash' = Fill(EnvUnits, Torn)
        \/ flash' = WriteOver(EnvCells(uenv))
    BY <1>2, <1>4 DEF InDoFlash, RomErase, RomWrite, RomFails, PowerLoss
  <2> DEFINE new == flash'
  <2>3. new \in {flash, Fill(EnvUnits, Erased), Fill(EnvUnits, Torn), WriteOver(EnvCells(uenv))}
    BY <2>2
  <2> HIDE DEF new
  <2>4. \A v \in Units \ EnvBlock : new[v] = flash[v]
    BY <2>1, <2>3, RomLeaves
  <2>5. u \in EnvBlock
    BY <1>1, <2>4 DEF new
  <2>6. u \notin BootUnits
    BY <2>5, UpgradeAssumption
  <2> QED
    BY <2>1, <2>6
<1> QED
  BY <1>3, <1>4

\* A bundle that skips the boot loader's partition leaves the boot loader alone at
\* every step, and the environment until do_flash is through.
THEOREM BootloaderIsKept == ASSUME Storable PROVE Spec => BootloaderKept
<1>1. Init => Upgrading
  BY UpgradingInit
<1>2. Upgrading /\ [Next]_vars => Upgrading'
  BY UpgradingStep
<1>3. Upgrading /\ [Next]_vars =>
        [bundle # <<>> /\ "boot" \in ToSet(bundle.skip) =>
           \A u \in BootUnits \cup EnvBlock :
             flash'[u] # flash[u] => u \notin BootUnits /\ step \in {"rom_erase", "rom_write"}]_vars
  BY SparedStep
<1> QED
  BY <1>1, <1>2, <1>3, PTL DEF Spec, BootloaderKept
=============================================================================
