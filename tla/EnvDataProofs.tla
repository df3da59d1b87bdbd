----------------------------- MODULE EnvDataProofs -----------------------------
(***************************************************************************)
(* The edit of one variable of an environment: uboot_setenv_cb sets it,    *)
(* adds it or takes it away and leaves the others alone, in place or       *)
(* rebuilt, for environments of any length over any plain names.           *)
(***************************************************************************)
EXTENDS EnvData, FiniteSetTheorems, SequenceTheorems, TLAPS

Envs == Seq(Keys \X Values)

-----------------------------------------------------------------------------
(* Ranks in a set of positions. *)

LEMMA RankBijective ==
  ASSUME NEW N \in Nat, NEW S \in SUBSET (1 .. N)
  PROVE  /\ IsFiniteSet(S) /\ Cardinality(S) \in Nat /\ Cardinality(S) <= N
         /\ \A n \in S : Rank(S, n) \in 1 .. Cardinality(S)
         /\ \A n, m \in S : Rank(S, n) = Rank(S, m) => n = m
         /\ \A k \in 1 .. Cardinality(S) : \E n \in S : Rank(S, n) = k
<1>1. IsFiniteSet(1 .. N) /\ Cardinality(1 .. N) = N
  BY FS_Interval
<1>2. IsFiniteSet(S) /\ Cardinality(S) <= N
  BY <1>1, FS_Subset
<1>3. Cardinality(S) \in Nat
  BY <1>2, FS_CardinalityType
<1>. DEFINE Upto(n) == {m \in S : m <= n}
<1>4. \A n \in S : Upto(n) \in SUBSET S /\ n \in Upto(n) /\ Rank(S, n) = Cardinality(Upto(n))
  BY DEF Rank
<1>5. ASSUME NEW n \in S
      PROVE  IsFiniteSet(Upto(n)) /\ Rank(S, n) \in 1 .. Cardinality(S)
  <2>1. IsFiniteSet(Upto(n)) /\ Cardinality(Upto(n)) <= Cardinality(S)
    BY <1>2, <1>4, FS_Subset
  <2>2. Cardinality(Upto(n)) \in Nat
    BY <2>1, FS_CardinalityType
  <2>3. Cardinality(Upto(n)) # 0
    BY <1>4, <2>1, FS_EmptySet
  <2>4. QED
    BY <1>3, <1>4, <2>1, <2>2, <2>3
<1>6. ASSUME NEW n \in S, NEW m \in S, n < m
      PROVE  Rank(S, n) # Rank(S, m)
  <2>1. Upto(n) \in SUBSET Upto(m) /\ m \notin Upto(n) /\ m \in Upto(m)
    <3>1. \A j \in S : j \in Int
      OBVIOUS
    <3>2. \A j \in S : j <= n => j <= m
      BY <1>6, <3>1
    <3>3. ~(m <= n) /\ m <= m
      BY <1>6, <3>1
    <3>4. QED
      BY <3>2, <3>3
  <2>2. Cardinality(Upto(m)) = Cardinality(Upto(n)) => Upto(m) = Upto(n)
    BY <1>5, <2>1, FS_Subset
  <2>3. QED
    BY <1>4, <2>1, <2>2
<1>7. \A n, m \in S : Rank(S, n) = Rank(S, m) => n = m
  <2>1. \A n, m \in S : n = m \/ n < m \/ m < n
    OBVIOUS
  <2>2. QED
    BY <1>6, <2>1
<1>. DEFINE f == [n \in S |-> Rank(S, n)]
<1>8. IsFiniteSet(1 .. Cardinality(S)) /\ Cardinality(1 .. Cardinality(S)) = Cardinality(S)
  BY <1>3, FS_Interval
<1>9. f \in Injection(S, 1 .. Cardinality(S))
  BY <1>5, <1>7 DEF Injection, IsInjective
<1>10. f \in Surjection(S, 1 .. Cardinality(S))
  BY <1>8, <1>9, FS_Injection
<1>11. \A k \in 1 .. Cardinality(S) : \E n \in S : Rank(S, n) = k
  BY <1>10 DEF Surjection
<1>12. QED
  BY <1>2, <1>3, <1>5, <1>7, <1>11

LEMMA NthInverse ==
  ASSUME NEW N \in Nat, NEW S \in SUBSET (1 .. N)
  PROVE  /\ \A k \in 1 .. Cardinality(S) : Nth(S, k) \in S /\ Rank(S, Nth(S, k)) = k
         /\ \A n \in S : Nth(S, Rank(S, n)) = n
<1>1. ASSUME NEW k \in 1 .. Cardinality(S)
      PROVE  Nth(S, k) \in S /\ Rank(S, Nth(S, k)) = k
  BY RankBijective DEF Nth
<1>2. ASSUME NEW n \in S
      PROVE  Nth(S, Rank(S, n)) = n
  <2>1. Rank(S, n) \in 1 .. Cardinality(S)
    BY RankBijective
  <2>2. Nth(S, Rank(S, n)) \in S /\ Rank(S, Nth(S, Rank(S, n))) = Rank(S, n)
    BY <1>1, <2>1
  <2>3. QED
    BY <2>2, RankBijective
<1>3. QED
  BY <1>1, <1>2

\* The first of some positions is one of them.
LEMMA FirstIn ==
  ASSUME NEW N \in Nat, NEW S \in SUBSET (1 .. N), S # {}
  PROVE  First(S) \in S /\ \A m \in S : First(S) <= m
<1>1. IsFiniteSet(S) /\ Cardinality(S) \in Nat /\ Cardinality(S) # 0
  BY RankBijective, FS_EmptySet
<1>2. PICK n \in S : Rank(S, n) = 1
  BY <1>1, RankBijective
<1>3. ASSUME NEW m \in S, m < n
      PROVE  FALSE
  <2>1. /\ {j \in S : j <= m} \in SUBSET {j \in S : j <= n}
        /\ {j \in S : j <= n} \in SUBSET S
    <3>1. \A j \in S : j \in Int
      OBVIOUS
    <3>2. \A j \in S : j <= m => j <= n
      BY <1>3, <3>1
    <3>3. QED
      BY <3>2
  <2>2. IsFiniteSet({j \in S : j <= n})
    BY <1>1, <2>1, FS_Subset
  <2>3. Rank(S, m) <= Rank(S, n)
    BY <2>1, <2>2, FS_Subset DEF Rank
  <2>4. Rank(S, m) \in 1 .. Cardinality(S)
    BY RankBijective
  <2>5. Rank(S, m) = Rank(S, n)
    BY <1>1, <1>2, <2>3, <2>4
  <2>6. QED
    BY <1>3, <2>5, RankBijective
<1>4. \A m \in S : n <= m
  BY <1>3
<1>5. QED
  BY <1>4 DEF First

-----------------------------------------------------------------------------
(* What the edit of a variable makes of an environment. *)

LEMMA EnvType ==
  ASSUME NEW e \in Envs
  PROVE  /\ Len(e) \in Nat /\ DOMAIN e = 1 .. Len(e)
         /\ \A n \in DOMAIN e : e[n] = <<e[n][1], e[n][2]>> /\ e[n][1] \in Keys /\ e[n][2] \in Values
<1>1. Len(e) \in Nat /\ DOMAIN e = 1 .. Len(e) /\ \A n \in DOMAIN e : e[n] \in Keys \X Values
  BY LenProperties DEF Envs
<1>2. ASSUME NEW var \in Keys \X Values
      PROVE  var = <<var[1], var[2]>> /\ var[1] \in Keys /\ var[2] \in Values
  OBVIOUS
<1>3. QED
  BY <1>1, <1>2

LEMMA HitsIn ==
  ASSUME NEW e \in Envs, NEW key, NEW new
  PROVE  /\ Hits(e, key) \in SUBSET (1 .. Len(e)) /\ Fits(e, key, new) \in SUBSET (1 .. Len(e))
         /\ Fits(e, key, new) \subseteq Hits(e, key)
         /\ Retained(e, key, new) \in SUBSET (1 .. Len(e))
  BY EnvType DEF Hits, Fits, Retained

LEMMA InPlaceIs ==
  ASSUME NEW e \in Envs, NEW key \in Keys, NEW new \in Values, Fits(e, key, new) # {}
  PROVE  LET r == InPlace(e, key, new)
             h == First(Fits(e, key, new))
         IN  /\ r \in Envs /\ Len(r) = Len(e)
             /\ h \in Hits(e, key)
             /\ \A n \in 1 .. Len(e) : r[n] = IF n = h THEN <<e[h][1], new>> ELSE e[n]
<1>. DEFINE r == InPlace(e, key, new)
            h == First(Fits(e, key, new))
<1>1. Len(e) \in Nat /\ DOMAIN e = 1 .. Len(e)
  BY EnvType
<1>2. Fits(e, key, new) \in SUBSET (1 .. Len(e)) /\ Fits(e, key, new) \subseteq Hits(e, key)
  BY HitsIn
<1>3. h \in Fits(e, key, new)
  BY <1>1, <1>2, FirstIn
<1>4. h \in 1 .. Len(e) /\ h \in Hits(e, key)
  BY <1>2, <1>3
<1>5. r = [e EXCEPT ![h] = [e[h] EXCEPT ![2] = new]]
  BY DEF InPlace
<1>. HIDE DEF h, r
<1>6. e[h] = <<e[h][1], e[h][2]>> /\ e[h][1] \in Keys
  BY <1>1, <1>4, EnvType
<1>7. \A x, y : [<<x, y>> EXCEPT ![2] = new] = <<x, new>>
  OBVIOUS
<1>8. [e[h] EXCEPT ![2] = new] = <<e[h][1], new>>
  BY <1>6, <1>7
<1>9. r = [e EXCEPT ![h] = <<e[h][1], new>>]
  BY <1>5, <1>8
<1>10. <<e[h][1], new>> \in Keys \X Values
  BY <1>6
<1>11. r \in Envs /\ Len(r) = Len(e)
  BY <1>4, <1>9, <1>10, ExceptSeq DEF Envs
<1>12. \A n \in 1 .. Len(e) : r[n] = IF n = h THEN <<e[h][1], new>> ELSE e[n]
  BY <1>1, <1>4, <1>9
<1>13. QED
  BY <1>4, <1>11, <1>12 DEF h, r

LEMMA RebuiltIs ==
  ASSUME NEW e \in Envs, NEW key \in Keys, NEW new \in Values
  PROVE  LET r == Rebuilt(e, key, new)
             S == Retained(e, key, new)
         IN  /\ r \in Envs /\ Len(r) <= Len(e)
             /\ \A k \in 1 .. Len(r) : /\ Nth(S, k) \in S
                                       /\ r[k] = IF Nth(S, k) \in Hits(e, key) THEN <<key, new>> ELSE e[Nth(S, k)]
             /\ \A j, k \in 1 .. Len(r) : Nth(S, j) = Nth(S, k) => j = k
             /\ \A n \in S : \E k \in 1 .. Len(r) : Nth(S, k) = n
<1>. DEFINE r == Rebuilt(e, key, new)
            S == Retained(e, key, new)
            c == Cardinality(S)
<1>1. Len(e) \in Nat /\ DOMAIN e = 1 .. Len(e) /\ S \in SUBSET (1 .. Len(e))
  BY EnvType, HitsIn
<1>2. r = [k \in 1 .. c |-> IF Nth(S, k) \in Hits(e, key) THEN <<key, new>> ELSE e[Nth(S, k)]]
  BY DEF Rebuilt
<1>. HIDE DEF r, S
<1>3. c \in Nat /\ c <= Len(e)
  BY <1>1, RankBijective
<1>4. /\ \A k \in 1 .. c : Nth(S, k) \in S /\ Rank(S, Nth(S, k)) = k
      /\ \A n \in S : Rank(S, n) \in 1 .. c /\ Nth(S, Rank(S, n)) = n
  BY <1>1, NthInverse, RankBijective
<1>. HIDE DEF c
<1>5. ASSUME NEW k \in 1 .. c
      PROVE  /\ r[k] = IF Nth(S, k) \in Hits(e, key) THEN <<key, new>> ELSE e[Nth(S, k)]
             /\ r[k] \in Keys \X Values
  <2>1. r[k] = IF Nth(S, k) \in Hits(e, key) THEN <<key, new>> ELSE e[Nth(S, k)]
    BY <1>2
  <2>2. e[Nth(S, k)] \in Keys \X Values
    BY <1>1, <1>4, LenProperties DEF Envs
  <2>3. <<key, new>> \in Keys \X Values
    OBVIOUS
  <2>4. QED
    BY <2>1, <2>2, <2>3
<1>6. DOMAIN r = 1 .. c
  BY <1>2
<1>7. r \in Envs /\ Len(r) = c
  <2>1. r = [k \in 1 .. c |-> r[k]]
    BY <1>2
  <2>2. r \in Seq(Keys \X Values)
    BY <1>3, <1>5, <2>1
  <2>3. QED
    BY <1>3, <1>6, <2>2, LenProperties DEF Envs
<1>8. \A j, k \in 1 .. c : Nth(S, j) = Nth(S, k) => j = k
  BY <1>4
<1>9. \A n \in S : \E k \in 1 .. c : Nth(S, k) = n
  BY <1>4
<1>10. QED
  BY <1>3, <1>4, <1>5, <1>7, <1>8, <1>9 DEF r, S

LEMMA AppendedIs ==
  ASSUME NEW e \in Envs, NEW key \in Keys, NEW new \in Values
  PROVE  LET r == Append(e, <<key, new>>)
         IN  /\ r \in Envs /\ Len(r) = Len(e) + 1
             /\ \A n \in 1 .. Len(e) : r[n] = e[n]
             /\ r[Len(e) + 1] = <<key, new>>
<1>1. <<key, new>> \in Keys \X Values
  OBVIOUS
<1>2. QED
  BY <1>1, AppendProperties DEF Envs

LEMMA SetVarType ==
  ASSUME NEW e \in Envs, NEW key \in Keys, NEW new \in Values
  PROVE  SetVar(e, key, new) \in Envs
  BY InPlaceIs, RebuiltIs, AppendedIs DEF SetVar

-----------------------------------------------------------------------------
(* Names that cannot be mistaken for one another. *)

\* No name begins as another one, with what follows it, does: setenv compares as
\* many letters as the name has.
Plain == \A key, name \in Keys, val \in Values : IsPrefix(key, Text(<<name, val>>)) => key = name

\* No name twice.
Unique(e) == \A n, m \in DOMAIN e : e[n][1] = e[m][1] => n = m

Proper == {e \in Envs : Unique(e)}

\* Names and values are words over one alphabet.
Spelled == \E L : Keys \subseteq Seq(L) /\ Values \subseteq Seq(L)

\* What is continued begins what comes of it.
LEMMA BeginsIt ==
  ASSUME NEW L, NEW s \in Seq(L), NEW t \in Seq(L)
  PROVE  IsPrefix(s, s \o t)
<1>. DEFINE whole == s \o t
            head == SubSeq(whole, 1, Len(s))
<1>1. /\ whole \in Seq(L) /\ Len(whole) = Len(s) + Len(t)
      /\ \A k \in 1 .. Len(s) + Len(t) : whole[k] = IF k <= Len(s) THEN s[k] ELSE t[k - Len(s)]
  BY ConcatProperties
<1>. HIDE DEF whole
<1>2. Len(s) \in Nat /\ Len(t) \in Nat /\ 1 \in Int
  BY LenProperties
<1>3. Len(s) <= Len(whole)
  BY <1>1, <1>2
<1>4. \A k \in 1 .. Len(s) : k \in 1 .. Len(s) + Len(t) /\ k <= Len(s) /\ k \in 1 .. Len(s) - 1 + 1 /\ 1 + k - 1 = k
  BY <1>2
<1>5. \A k \in 1 .. Len(s) : whole[k] = s[k]
  BY <1>1, <1>4
<1>6. \A k \in 1 .. Len(s) : s[k] \in L
  BY LenProperties
<1>7. \A k \in 1 .. Len(s) : whole[k] \in L
  BY <1>5, <1>6
<1>8. /\ head \in Seq(L) /\ Len(head) = IF 1 <= Len(s) THEN Len(s) - 1 + 1 ELSE 0
      /\ \A k \in 1 .. Len(s) - 1 + 1 : head[k] = whole[1 + k - 1]
  BY <1>2, <1>7, SubSeqProperties
<1>. HIDE DEF head
<1>9. Len(head) = Len(s)
  BY <1>2, <1>8
<1>10. \A k \in 1 .. Len(s) : head[k] = s[k]
  BY <1>4, <1>5, <1>8
<1>11. head = s
  BY <1>8, <1>9, <1>10, SeqEqual
<1>12. SubSeq(s, 1, Len(s)) = s
  BY SubSeqFull
<1>13. QED
  BY <1>3, <1>11, <1>12 DEF IsPrefix, head, whole

\* Where names are plain, a hit is a variable of that name.
LEMMA HitsAreNamed ==
  ASSUME Spelled, Plain, NEW e \in Envs, NEW key \in Keys
  PROVE  Hits(e, key) = {n \in DOMAIN e : e[n][1] = key}
<1>1. ASSUME NEW n \in DOMAIN e, n \in Hits(e, key)
      PROVE  e[n][1] = key
  BY <1>1, EnvType DEF Hits, Plain
<1>2. ASSUME NEW n \in DOMAIN e, e[n][1] = key
      PROVE  IsPrefix(key, Text(e[n]))
  <2>. PICK L : Keys \subseteq Seq(L) /\ Values \subseteq Seq(L)
    BY DEF Spelled
  <2>. DEFINE letters == L \cup {"="}
  <2>1. key \in Seq(letters) /\ e[n][2] \in Seq(letters) /\ <<"=">> \in Seq(letters)
    <3>1. \A word \in Seq(L) : word \in Seq(letters)
      OBVIOUS
    <3>2. key \in Seq(L)
      OBVIOUS
    <3>3. e[n][2] \in Values
      BY EnvType
    <3>4. e[n][2] \in Seq(L)
      BY <3>3
    <3>5. QED
      BY <3>1, <3>2, <3>4
  <2>. HIDE DEF letters
  <2>. DEFINE rest == <<"=">> \o e[n][2]
  <2>2. rest \in Seq(letters)
    BY <2>1, ConcatProperties
  <2>3. Text(e[n]) = key \o rest
    <3>1. Text(e[n]) = (key \o <<"=">>) \o e[n][2]
      BY <1>2 DEF Text
    <3>2. (key \o <<"=">>) \o e[n][2] = key \o (<<"=">> \o e[n][2])
      <4>1. \A s, t, u \in Seq(letters) : (s \o t) \o u = s \o (t \o u)
        BY ConcatAssociative
      <4>2. QED
        BY <2>1, <4>1, Zenon
    <3>3. QED
      BY <3>1, <3>2
  <2>. HIDE DEF rest
  <2>4. QED
    BY <2>1, <2>2, <2>3, BeginsIt
<1>3. QED
  BY <1>1, <1>2 DEF Hits

\* What is looked up is the value of the one variable of that name.
LEMMA LookupIs ==
  ASSUME NEW e \in Proper, NEW key
  PROVE  /\ \A n \in DOMAIN e : e[n][1] = key => Lookup(e, key) = e[n][2]
         /\ (\A n \in DOMAIN e : e[n][1] # key) => Lookup(e, key) = <<>>
<1>. DEFINE named == {n \in DOMAIN e : e[n][1] = key}
<1>1. Len(e) \in Nat /\ DOMAIN e = 1 .. Len(e) /\ named \in SUBSET (1 .. Len(e)) /\ Unique(e)
  BY EnvType DEF Proper
<1>2. Lookup(e, key) = IF named = {} THEN <<>> ELSE e[First(named)][2]
  BY DEF Lookup
<1>3. ASSUME NEW n \in DOMAIN e, e[n][1] = key
      PROVE  Lookup(e, key) = e[n][2]
  <2>1. n \in named
    BY <1>3
  <2>2. First(named) \in named
    BY <1>1, <2>1, FirstIn
  <2>3. First(named) = n
    BY <1>1, <1>3, <2>2 DEF Unique
  <2>4. QED
    BY <1>2, <2>1, <2>3
<1>4. ASSUME \A n \in DOMAIN e : e[n][1] # key
      PROVE  Lookup(e, key) = <<>>
  BY <1>2, <1>4
<1>5. QED
  BY <1>3, <1>4

\* Environments with the same variables of a name.
LEMMA LookupSame ==
  ASSUME NEW e \in Proper, NEW r \in Proper, NEW key,
         \A n \in DOMAIN e : e[n][1] = key => \E m \in DOMAIN r : r[m] = e[n],
         \A m \in DOMAIN r : r[m][1] = key => \E n \in DOMAIN e : e[n] = r[m]
  PROVE  Lookup(r, key) = Lookup(e, key)
<1>1. CASE \E n \in DOMAIN e : e[n][1] = key
  <2>1. PICK n \in DOMAIN e : e[n][1] = key
    BY <1>1
  <2>2. PICK m \in DOMAIN r : r[m] = e[n]
    BY <2>1
  <2>3. QED
    BY <2>1, <2>2, LookupIs
<1>2. CASE \A n \in DOMAIN e : e[n][1] # key
  <2>1. \A m \in DOMAIN r : r[m][1] # key
    BY <1>2
  <2>2. QED
    BY <1>2, <2>1, LookupIs
<1>3. QED
  BY <1>1, <1>2

\* What an edit comes to: the variables of other names are those that were there.
Edited(e, key, new, r) ==
  /\ r \in Proper
  /\ \A k \in Keys : Lookup(r, k) = IF k = key THEN new ELSE Lookup(e, k)

\* It is enough to look at the variables.
LEMMA EditedByVars ==
  ASSUME NEW e \in Proper, NEW key \in Keys, NEW new \in Values, NEW r \in Proper,
         \A n \in DOMAIN e : e[n][1] # key => \E m \in DOMAIN r : r[m] = e[n],
         \A m \in DOMAIN r : r[m][1] # key => \E n \in DOMAIN e : e[n] = r[m],
         \/ \E m \in DOMAIN r : r[m] = <<key, new>>
         \/ new = <<>> /\ \A m \in DOMAIN r : r[m][1] # key
  PROVE  Edited(e, key, new, r)
<1>1. ASSUME NEW k \in Keys, k # key
      PROVE  Lookup(r, k) = Lookup(e, k)
  <2>1. \A n \in DOMAIN e : e[n][1] = k => \E m \in DOMAIN r : r[m] = e[n]
    BY <1>1
  <2>2. \A m \in DOMAIN r : r[m][1] = k => \E n \in DOMAIN e : e[n] = r[m]
    BY <1>1
  <2>3. QED
    BY <2>1, <2>2, LookupSame
<1>2. Lookup(r, key) = new
  <2>1. CASE \E m \in DOMAIN r : r[m] = <<key, new>>
    <3>1. PICK m \in DOMAIN r : r[m] = <<key, new>>
      BY <2>1
    <3>2. r[m][1] = key /\ r[m][2] = new
      BY <3>1
    <3>3. QED
      BY <3>2, LookupIs
  <2>2. CASE new = <<>> /\ \A m \in DOMAIN r : r[m][1] # key
    BY <2>2, LookupIs
  <2>3. QED
    BY <2>1, <2>2
<1>3. QED
  BY <1>1, <1>2 DEF Edited

LEMMA InPlaceEdits ==
  ASSUME Spelled, Plain, NEW e \in Proper, NEW key \in Keys, NEW new \in Values, Fits(e, key, new) # {}
  PROVE  Edited(e, key, new, InPlace(e, key, new))
<1>. DEFINE r == InPlace(e, key, new)
            h == First(Fits(e, key, new))
<1>1. /\ r \in Envs /\ Len(r) = Len(e) /\ h \in Hits(e, key)
      /\ \A n \in 1 .. Len(e) : r[n] = IF n = h THEN <<e[h][1], new>> ELSE e[n]
  BY InPlaceIs DEF Proper
<1>. HIDE DEF r, h
<1>2. e \in Envs /\ DOMAIN e = 1 .. Len(e) /\ DOMAIN r = 1 .. Len(e) /\ Unique(e)
  BY <1>1, EnvType DEF Proper
<1>3. h \in 1 .. Len(e) /\ e[h][1] = key
  BY <1>1, <1>2, HitsAreNamed
<1>4. \A n \in 1 .. Len(e) : r[n][1] = e[n][1]
  BY <1>1
<1>5. r \in Proper
  BY <1>1, <1>2, <1>4 DEF Proper, Unique
<1>6. \A n \in 1 .. Len(e) : e[n][1] # key => r[n] = e[n]
  BY <1>1, <1>3
<1>7. r[h] = <<key, new>>
  BY <1>1, <1>3
<1>8. \A n \in DOMAIN e : e[n][1] # key => \E m \in DOMAIN r : r[m] = e[n]
  BY <1>2, <1>6
<1>9. \A m \in DOMAIN r : r[m][1] # key => \E n \in DOMAIN e : e[n] = r[m]
  BY <1>2, <1>4, <1>6
<1>10. \E m \in DOMAIN r : r[m] = <<key, new>>
  BY <1>2, <1>3, <1>7
<1>11. Edited(e, key, new, r)
  BY <1>5, <1>8, <1>9, <1>10, EditedByVars
<1>12. QED
  BY <1>11 DEF r

LEMMA RebuiltEdits ==
  ASSUME Spelled, Plain, NEW e \in Proper, NEW key \in Keys, NEW new \in Values, Hits(e, key) # {}
  PROVE  Edited(e, key, new, Rebuilt(e, key, new))
<1>. DEFINE r == Rebuilt(e, key, new)
            S == Retained(e, key, new)
            at(k) == Nth(S, k)
<1>1. /\ r \in Envs
      /\ \A k \in 1 .. Len(r) : at(k) \in S /\ r[k] = IF at(k) \in Hits(e, key) THEN <<key, new>> ELSE e[at(k)]
      /\ \A j, k \in 1 .. Len(r) : at(j) = at(k) => j = k
      /\ \A n \in S : \E k \in 1 .. Len(r) : at(k) = n
  BY RebuiltIs DEF Proper
<1>2. e \in Envs /\ Unique(e) /\ S = {n \in DOMAIN e : n \notin Hits(e, key) \/ new # <<>>}
  BY DEF Proper, Retained
<1>3. Hits(e, key) = {n \in DOMAIN e : e[n][1] = key}
  BY <1>2, HitsAreNamed
<1>. HIDE DEF r, S, at
<1>4. DOMAIN r = 1 .. Len(r)
  BY <1>1, EnvType
<1>5. \A k \in 1 .. Len(r) : at(k) \in DOMAIN e /\ r[k][1] = e[at(k)][1]
  BY <1>1, <1>2, <1>3
<1>6. r \in Proper
  BY <1>1, <1>2, <1>4, <1>5 DEF Proper, Unique
<1>7. ASSUME NEW n \in DOMAIN e, e[n][1] # key
      PROVE  \E m \in DOMAIN r : r[m] = e[n]
  <2>1. n \in S /\ n \notin Hits(e, key)
    BY <1>2, <1>3, <1>7
  <2>2. PICK k \in 1 .. Len(r) : at(k) = n
    BY <1>1, <2>1
  <2>3. QED
    BY <1>1, <1>4, <2>1, <2>2
<1>8. ASSUME NEW m \in DOMAIN r, r[m][1] # key
      PROVE  \E n \in DOMAIN e : e[n] = r[m]
  <2>1. at(m) \in DOMAIN e /\ at(m) \notin Hits(e, key)
    BY <1>3, <1>4, <1>5, <1>8
  <2>2. QED
    BY <1>1, <1>4, <2>1
<1>9. CASE new # <<>>
  <2>1. PICK h : h \in Hits(e, key)
    OBVIOUS
  <2>2. h \in S
    BY <1>2, <1>3, <1>9, <2>1
  <2>3. PICK k \in 1 .. Len(r) : at(k) = h
    BY <1>1, <2>2
  <2>4. r[k] = <<key, new>>
    BY <1>1, <2>1, <2>3
  <2>5. Edited(e, key, new, r)
    BY <1>4, <1>6, <1>7, <1>8, <2>3, <2>4, EditedByVars
  <2>6. QED
    BY <2>5 DEF r
<1>10. CASE new = <<>>
  <2>1. \A m \in DOMAIN r : r[m][1] # key
    BY <1>1, <1>2, <1>3, <1>4, <1>5, <1>10
  <2>2. Edited(e, key, new, r)
    BY <1>6, <1>7, <1>8, <1>10, <2>1, EditedByVars
  <2>3. QED
    BY <2>2 DEF r
<1>11. QED
  BY <1>9, <1>10

LEMMA AppendEdits ==
  ASSUME Spelled, Plain, NEW e \in Proper, NEW key \in Keys, NEW new \in Values, Hits(e, key) = {}
  PROVE  Edited(e, key, new, Append(e, <<key, new>>))
<1>. DEFINE r == Append(e, <<key, new>>)
<1>1. /\ r \in Envs /\ Len(r) = Len(e) + 1 /\ \A n \in 1 .. Len(e) : r[n] = e[n]
      /\ r[Len(e) + 1] = <<key, new>>
  BY AppendedIs DEF Proper
<1>. HIDE DEF r
<1>2. e \in Envs /\ Len(e) \in Nat /\ DOMAIN e = 1 .. Len(e) /\ DOMAIN r = 1 .. Len(e) + 1 /\ Unique(e)
  BY <1>1, EnvType DEF Proper
<1>3. \A n \in 1 .. Len(e) : e[n][1] # key
  BY <1>2, HitsAreNamed
<1>4. \A n \in 1 .. Len(e) + 1 : n \in 1 .. Len(e) \/ n = Len(e) + 1
  BY <1>2
<1>5. r[Len(e) + 1][1] = key
  BY <1>1
<1>6. \A n \in 1 .. Len(e) : r[n][1] = e[n][1] /\ n \in DOMAIN e /\ n \in DOMAIN r
  BY <1>1, <1>2
<1>7. ASSUME NEW n \in DOMAIN r, NEW m \in DOMAIN r, r[n][1] = r[m][1]
      PROVE  n = m
  <2>1. CASE n \in 1 .. Len(e) /\ m \in 1 .. Len(e)
    BY <1>2, <1>6, <1>7, <2>1 DEF Unique
  <2>2. CASE n \in 1 .. Len(e) /\ m = Len(e) + 1
    BY <1>3, <1>5, <1>6, <1>7, <2>2
  <2>3. CASE m \in 1 .. Len(e) /\ n = Len(e) + 1
    BY <1>3, <1>5, <1>6, <1>7, <2>3
  <2>4. QED
    BY <1>2, <1>4, <2>1, <2>2, <2>3
<1>8. r \in Proper
  BY <1>1, <1>7 DEF Proper, Unique
<1>9. \A n \in DOMAIN e : \E m \in DOMAIN r : r[m] = e[n]
  BY <1>1, <1>2, <1>6
<1>10. \A m \in DOMAIN r : r[m][1] # key => \E n \in DOMAIN e : e[n] = r[m]
  BY <1>1, <1>2, <1>4, <1>5
<1>11. Len(e) + 1 \in DOMAIN r
  BY <1>2
<1>12. Edited(e, key, new, r)
  BY <1>1, <1>8, <1>9, <1>10, <1>11, EditedByVars
<1>13. QED
  BY <1>12 DEF r

LEMMA SetVarEdits ==
  ASSUME Spelled, Plain, NEW e \in Proper, NEW key \in Keys, NEW new \in Values
  PROVE  Edited(e, key, new, SetVar(e, key, new))
  BY InPlaceEdits, RebuiltEdits, AppendEdits DEF SetVar
=============================================================================
