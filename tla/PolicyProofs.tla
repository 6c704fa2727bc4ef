---------------------------- MODULE PolicyProofs ----------------------------
(***************************************************************************)
(* What the operators of the pipeline compute, for every table, name and    *)
(* answer: the structures built from the tables (BlockList, ZoneIndex) say  *)
(* what the tables say, the TTL of an answer obeys its limits, the subnet   *)
(* derived for a client is justified.                                       *)
(***************************************************************************)
EXTENDS Pipeline, SequenceTheorems, FiniteSetTheorems, WellFoundedInduction, TLAPS

LEMMA SetMinNat ==
    ASSUME NEW S, S \subseteq Nat, S # {}
    PROVE  SetMin(S) \in S /\ \A y \in S : SetMin(S) <= y
  <1>1. PICK x \in S : \A y \in S : ~(<<y, x>> \in OpToRel(<, Nat))
    BY NatLessThanWellFounded, WFMin
  <1>2. ASSUME NEW y \in S PROVE x <= y
    <2>1. <<y, x>> \in Nat \X Nat /\ <<y, x>>[1] = y /\ <<y, x>>[2] = x
      OBVIOUS
    <2>2. ~(y < x)
      BY <1>1, <2>1 DEF OpToRel
    <2> QED  BY <2>2
  <1> QED  BY <1>2 DEF SetMin

LEMMA SetMaxNat ==
    ASSUME NEW S, S \subseteq Nat, S # {}, NEW b \in Nat, \A x \in S : x <= b
    PROVE  SetMax(S) \in S /\ \A y \in S : y <= SetMax(S)
  <1> DEFINE T == {b - x : x \in S}
  <1>1. T \subseteq Nat /\ T # {}
    <2>1. ASSUME NEW x \in S PROVE b - x \in Nat
      OBVIOUS
    <2>2. PICK x \in S : TRUE
      OBVIOUS
    <2>3. b - x \in T
      BY <2>2
    <2> QED  BY <2>1, <2>3
  <1>2. SetMin(T) \in T /\ \A y \in T : SetMin(T) <= y
    BY <1>1, SetMinNat
  <1>3. PICK x \in S : SetMin(T) = b - x
    BY <1>2
  <1>4. ASSUME NEW y \in S PROVE y <= x
    <2>1. b - x <= b - y
      BY <1>2, <1>3
    <2> QED  BY <2>1
  <1> QED  BY <1>4 DEF SetMax

----------------------------------------------------------------------------
(* The block list. *)

LEMMA BlockListSays ==
    ASSUME NEW rows \in Seq([domain : Seq(STRING), mode : {"loopback", "random"}]),
           NEW t, t.blocked = rows, NEW n
    PROVE  LET mode == mode_for(BlockList(rows), n)
           IN  /\ mode # "none" => mode \in Modes(t, n)
               /\ mode = "none" => ~Blocked(t, n)
  <1>1. /\ DOMAIN rows = 1..Len(rows) /\ Len(rows) \in Nat /\ DOMAIN rows \subseteq Nat
        /\ \A i \in DOMAIN rows : /\ rows[i].mode \in {"loopback", "random"}
                                 /\ rows[i].domain \in Seq(STRING)
    <2>1. DOMAIN rows = 1..Len(rows) /\ Len(rows) \in Nat
      BY LenProperties
    <2>2. ASSUME NEW i \in DOMAIN rows
          PROVE  rows[i] \in [domain : Seq(STRING), mode : {"loopback", "random"}]
      BY <2>1, ElementOfSeq
    <2> QED  BY <2>1, <2>2
  <1> DEFINE exact == {i \in DOMAIN rows : ~IsWildcard(rows[i].domain)}
             block == BlockList(rows)
             mode == mode_for(block, n)
             own == {i \in exact : rows[i].domain = n}
             w == {i \in DOMAIN block.wildcard : Below(n, Tail(block.wildcard[i].domain))}
  <1>2. /\ DOMAIN block.wildcard = DOMAIN rows \ exact
        /\ \A i \in DOMAIN rows \ exact : block.wildcard[i] = rows[i]
        /\ DOMAIN block.exact = {rows[i].domain : i \in exact}
        /\ \A d \in DOMAIN block.exact :
             block.exact[d] = rows[SetMax({i \in exact : rows[i].domain = d})].mode
    BY DEF BlockList
  <1>3. w = {i \in DOMAIN rows : IsWildcard(rows[i].domain) /\ Below(n, Tail(rows[i].domain))}
    BY <1>2
  <1> HIDE DEF block
  <1>4. CASE own # {}
    <2>1. n \in DOMAIN block.exact
      BY <1>2, <1>4
    <2>2. mode = rows[SetMax(own)].mode
      BY <1>2, <2>1 DEF mode_for
    <2>3. own \subseteq Nat /\ \A x \in own : x <= Len(rows)
      BY <1>1
    <2>4. SetMax(own) \in own
      BY <1>1, <1>4, <2>3, SetMaxNat
    <2>5. own = {i \in DOMAIN t.blocked : /\ ~IsWildcard(t.blocked[i].domain)
                                          /\ t.blocked[i].domain = n}
      OBVIOUS
    <2>6. Modes(t, n) = {t.blocked[i].mode : i \in own}
      BY <1>4, <2>5 DEF Modes
    <2>7. mode \in Modes(t, n) /\ mode # "none"
      BY <1>1, <2>2, <2>4, <2>6
    <2> QED  BY <2>7 DEF block
  <1>5. CASE own = {} /\ w # {}
    <2>1. n \notin DOMAIN block.exact
      BY <1>2, <1>5
    <2>2. w \subseteq Nat /\ SetMin(w) \in w
      BY <1>1, <1>3, <1>5, SetMinNat
    <2>3. mode = block.wildcard[SetMin(w)].mode
      BY <1>5, <2>1 DEF mode_for
    <2>4. SetMin(w) \in DOMAIN rows \ exact /\ mode = rows[SetMin(w)].mode
      BY <1>2, <2>2, <2>3
    <2>5. Matches(rows[SetMin(w)], n)
      BY <1>3, <2>2 DEF Matches
    <2>6. Modes(t, n) = {t.blocked[i].mode : i \in {i \in DOMAIN t.blocked : Matches(t.blocked[i], n)}}
      BY <1>5 DEF Modes
    <2>7. mode \in Modes(t, n) /\ mode # "none"
      BY <1>1, <2>4, <2>5, <2>6
    <2> QED  BY <2>7 DEF block
  <1>6. CASE own = {} /\ w = {}
    <2>1. n \notin DOMAIN block.exact
      BY <1>2, <1>6
    <2>2. mode = "none"
      BY <1>6, <2>1 DEF mode_for
    <2>3. ASSUME NEW i \in DOMAIN rows, Matches(rows[i], n) PROVE FALSE
      <3>1. CASE IsWildcard(rows[i].domain) /\ Below(n, Tail(rows[i].domain))
        BY <1>3, <1>6, <3>1
      <3>2. CASE rows[i].domain = n /\ IsWildcard(n)
        <4>1. n \in Seq(STRING) /\ Len(n) \in Nat /\ Len(n) > 1
          BY <1>1, <3>2, LenProperties DEF IsWildcard
        <4>2. Below(n, Tail(n))
          <5>1. Tail(n) \in Seq(STRING) /\ Len(Tail(n)) = Len(n) - 1
            BY <4>1, HeadTailProperties, EmptySeq
          <5>2. Len(n) > Len(Tail(n)) /\ Len(n) - Len(Tail(n)) + 1 = 2
            BY <4>1, <5>1
          <5>3. SubSeq(n, 2, Len(n)) = Tail(n)
            BY <4>1
          <5> QED  BY <5>2, <5>3 DEF Below
        <4> QED  BY <1>3, <1>6, <3>2, <4>2
      <3>3. CASE rows[i].domain = n /\ ~IsWildcard(n)
        BY <1>6, <3>3
      <3> QED  BY <2>3, <3>1, <3>2, <3>3 DEF Matches
    <2> QED  BY <2>2, <2>3 DEF Blocked, block
  <1> QED  BY <1>4, <1>5, <1>6

----------------------------------------------------------------------------
(* str::ends_with is a partial order on names, total on the ends of one name. *)

\* Label l may stand where the end of a name has label m at position i.
Fits(l, m, i) == l = m \/ (i = 1 /\ <<l, m>> \in LabelTail)

LEMMA EndsWithFits ==
    ASSUME NEW a \in Seq(STRING), NEW b \in Seq(STRING)
    PROVE  EndsWith(a, b) <=>
             /\ Len(a) >= Len(b)
             /\ \A i \in 1..Len(b) : Fits(a[Len(a) - Len(b) + i], b[i], i)
  <1>1. \A i : i = 1 => b[i] = b[1]
    OBVIOUS
  <1> QED  BY <1>1 DEF EndsWith, Fits

LEMMA TailOfTail ==
    ASSUME NEW l, NEW m, NEW k, <<l, m>> \in LabelTail, <<m, k>> \in LabelTail
    PROVE  <<l, k>> \in LabelTail
  <1>1. <<l, m>>[2] = <<m, k>>[1] /\ <<l, m>>[1] = l /\ <<m, k>>[2] = k
    OBVIOUS
  <1>2. \A p, q \in LabelTail : p[2] = q[1] => <<p[1], q[2]>> \in LabelTail
    BY LabelTailAssumption
  <1> QED  BY <1>1, <1>2

LEMMA TailsCompare ==
    ASSUME NEW l, NEW m, NEW k, <<l, m>> \in LabelTail, <<l, k>> \in LabelTail
    PROVE  m = k \/ <<m, k>> \in LabelTail \/ <<k, m>> \in LabelTail
  <1>1. <<l, m>>[1] = l /\ <<l, k>>[1] = l /\ <<l, m>>[2] = m /\ <<l, k>>[2] = k
    OBVIOUS
  <1>2. \A p, q \in LabelTail : p[1] = q[1] =>
          p[2] = q[2] \/ <<p[2], q[2]>> \in LabelTail \/ <<q[2], p[2]>> \in LabelTail
    BY LabelTailAssumption
  <1> QED  BY <1>1, <1>2

LEMMA NoTailOfItself ==
    ASSUME NEW l
    PROVE  <<l, l>> \notin LabelTail
  <1>1. <<l, l>>[1] = <<l, l>>[2]
    OBVIOUS
  <1> QED  BY <1>1, LabelTailAssumption

LEMMA EndsWithItself ==
    ASSUME NEW a \in Seq(STRING)
    PROVE  EndsWith(a, a)
  <1>1. Len(a) \in Nat
    OBVIOUS
  <1>2. \A i \in 1..Len(a) : Len(a) - Len(a) + i = i
    BY <1>1
  <1>3. \A i \in 1..Len(a) : Fits(a[Len(a) - Len(a) + i], a[i], i)
    BY <1>2 DEF Fits
  <1> QED  BY <1>1, <1>3, EndsWithFits

LEMMA EndsWithTransitive ==
    ASSUME NEW a \in Seq(STRING), NEW b \in Seq(STRING), NEW c \in Seq(STRING),
           EndsWith(a, b), EndsWith(b, c)
    PROVE  EndsWith(a, c)
  <1>1. PICK x \in Nat, y \in Nat, z \in Nat : x = Len(a) /\ y = Len(b) /\ z = Len(c)
    OBVIOUS
  <1>2. /\ x >= y /\ \A i \in 1..y : Fits(a[x - y + i], b[i], i)
        /\ y >= z /\ \A i \in 1..z : Fits(b[y - z + i], c[i], i)
    BY <1>1, EndsWithFits
  <1>3. ASSUME NEW i \in 1..z PROVE Fits(a[x - z + i], c[i], i)
    <2>1. y - z + i \in 1..y /\ x - y + (y - z + i) = x - z + i /\ (y - z + i = 1 => i = 1)
      BY <1>2
    <2>2. Fits(a[x - z + i], b[y - z + i], y - z + i) /\ Fits(b[y - z + i], c[i], i)
      BY <1>2, <2>1
    <2> QED  BY <2>1, <2>2, TailOfTail DEF Fits
  <1>4. x >= z
    BY <1>2
  <1> QED  BY <1>1, <1>3, <1>4, EndsWithFits

LEMMA LongerEndsWithShorter ==
    ASSUME NEW n \in Seq(STRING), NEW a \in Seq(STRING), NEW b \in Seq(STRING),
           EndsWith(n, a), EndsWith(n, b), Len(a) > Len(b)
    PROVE  EndsWith(a, b)
  <1>1. PICK x \in Nat, y \in Nat, z \in Nat : x = Len(n) /\ y = Len(a) /\ z = Len(b)
    OBVIOUS
  <1>2. /\ x >= y /\ \A i \in 1..y : Fits(n[x - y + i], a[i], i)
        /\ y > z /\ \A i \in 1..z : Fits(n[x - z + i], b[i], i)
    BY <1>1, EndsWithFits
  <1>3. ASSUME NEW i \in 1..z PROVE Fits(a[y - z + i], b[i], i)
    <2>1. y - z + i \in 1..y /\ x - y + (y - z + i) = x - z + i /\ y - z + i # 1
      BY <1>2
    <2>2. Fits(n[x - z + i], a[y - z + i], y - z + i) /\ Fits(n[x - z + i], b[i], i)
      BY <1>2, <2>1
    <2> QED  BY <2>1, <2>2 DEF Fits
  <1>4. y >= z
    BY <1>2
  <1> QED  BY <1>1, <1>3, <1>4, EndsWithFits

LEMMA EndsCompare ==
    ASSUME NEW n \in Seq(STRING), NEW a \in Seq(STRING), NEW b \in Seq(STRING),
           EndsWith(n, a), EndsWith(n, b)
    PROVE  EndsWith(a, b) \/ EndsWith(b, a)
  <1>0. Len(a) \in Nat /\ Len(b) \in Nat
    OBVIOUS
  <1>1. CASE Len(a) = Len(b)
    <2>1. PICK x \in Nat, y \in Nat : x = Len(n) /\ y = Len(a) /\ y = Len(b)
      BY <1>1
    <2>2. /\ \A i \in 1..y : Fits(n[x - y + i], a[i], i)
          /\ \A i \in 1..y : Fits(n[x - y + i], b[i], i)
      BY <2>1, EndsWithFits
    <2>3. \A i \in 1..y : y - y + i = i
      OBVIOUS
    <2>4. \A i \in 1..y : i # 1 => a[i] = b[i]
      BY <2>2 DEF Fits
    <2>5. \/ \A i \in 1..y : Fits(a[i], b[i], i)
          \/ \A i \in 1..y : Fits(b[i], a[i], i)
      <3>1. CASE y = 0
        BY <3>1
      <3>2. CASE 1 \in 1..y
        <4>1. Fits(n[x - y + 1], a[1], 1) /\ Fits(n[x - y + 1], b[1], 1)
          BY <2>2, <3>2
        <4>2. a[1] = b[1] \/ <<a[1], b[1]>> \in LabelTail \/ <<b[1], a[1]>> \in LabelTail
          BY <4>1, TailsCompare DEF Fits
        <4> QED  BY <2>4, <4>2 DEF Fits
      <3>3. y = 0 \/ 1 \in 1..y
        OBVIOUS
      <3> QED  BY <3>1, <3>2, <3>3
    <2>6. \/ \A i \in 1..y : Fits(a[y - y + i], b[i], i)
          \/ \A i \in 1..y : Fits(b[y - y + i], a[i], i)
      BY <2>3, <2>5
    <2>7. y >= y
      OBVIOUS
    <2> QED  BY <2>1, <2>6, <2>7, EndsWithFits
  <1>2. CASE Len(a) > Len(b)
    BY <1>2, LongerEndsWithShorter
  <1>3. CASE Len(b) > Len(a)
    BY <1>3, LongerEndsWithShorter
  <1> QED  BY <1>0, <1>1, <1>2, <1>3

LEMMA EndsEachOther ==
    ASSUME NEW a \in Seq(STRING), NEW b \in Seq(STRING), EndsWith(a, b), EndsWith(b, a)
    PROVE  a = b
  <1>1. PICK y \in Nat : y = Len(a) /\ y = Len(b)
    <2>1. Len(a) >= Len(b) /\ Len(b) >= Len(a) /\ Len(a) \in Nat /\ Len(b) \in Nat
      BY EndsWithFits
    <2> QED  BY <2>1
  <1>2. /\ \A i \in 1..y : Fits(a[y - y + i], b[i], i)
        /\ \A i \in 1..y : Fits(b[y - y + i], a[i], i)
    BY <1>1, EndsWithFits
  <1>3. ASSUME NEW i \in 1..y PROVE a[i] = b[i]
    <2>1. Fits(a[i], b[i], i) /\ Fits(b[i], a[i], i)
      <3>1. y - y + i = i
        OBVIOUS
      <3> QED  BY <1>2, <3>1
    <2> QED  BY <2>1, TailOfTail, NoTailOfItself DEF Fits
  <1> QED  BY <1>1, <1>3, SeqEqual

----------------------------------------------------------------------------
(* The zones. *)

LEMMA LongestEnd ==
    ASSUME NEW n \in Seq(STRING), NEW m, m \subseteq Seq(STRING), IsFiniteSet(m), m # {},
           \A z \in m : EndsWith(n, z)
    PROVE  \E z \in m : \A y \in m : EndsWith(z, y)
  <1> DEFINE E(z) == {y \in m : EndsWith(z, y)}
             C == {Cardinality(E(z)) : z \in m}
  <1>1. ASSUME NEW z \in m
        PROVE  IsFiniteSet(E(z)) /\ Cardinality(E(z)) \in Nat /\ Cardinality(E(z)) <= Cardinality(m)
    <2>1. E(z) \subseteq m
      OBVIOUS
    <2> HIDE DEF E
    <2> QED  BY <2>1, FS_Subset, FS_CardinalityType
  <1>2. Cardinality(m) \in Nat
    BY FS_CardinalityType
  <1>3. C \subseteq Nat /\ C # {} /\ \A x \in C : x <= Cardinality(m)
    <2> HIDE DEF E
    <2> QED  BY <1>1
  <1>4. SetMax(C) \in C /\ \A y \in C : y <= SetMax(C)
    <2> HIDE DEF C
    <2> QED  BY <1>2, <1>3, SetMaxNat
  <1>5. PICK z \in m : SetMax(C) = Cardinality(E(z))
    BY <1>4
  <1>6. \A y \in m : Cardinality(E(y)) <= Cardinality(E(z))
    BY <1>4, <1>5
  <1>7. ASSUME NEW y \in m PROVE EndsWith(z, y)
    <2> SUFFICES ASSUME ~EndsWith(z, y) PROVE FALSE
      OBVIOUS
    <2>1. EndsWith(y, z) /\ EndsWith(y, y)
      BY EndsCompare, EndsWithItself
    <2>2. E(z) \subseteq E(y)
      BY <2>1, EndsWithTransitive
    <2>3. y \in E(y) /\ y \notin E(z)
      BY <2>1
    <2>4. IsFiniteSet(E(y)) /\ IsFiniteSet(E(z)) /\ Cardinality(E(y)) \in Nat /\ Cardinality(E(z)) \in Nat
      BY <1>1
    <2>5. Cardinality(E(y)) <= Cardinality(E(z))
      BY <1>6
    <2> HIDE DEF E
    <2>6. Cardinality(E(z)) <= Cardinality(E(y)) /\ (Cardinality(E(z)) = Cardinality(E(y)) => E(z) = E(y))
      BY <2>2, <2>4, FS_Subset
    <2> QED  BY <2>3, <2>4, <2>5, <2>6
  <1> QED  BY <1>7

TablesOK(t) ==
    /\ t.blocked \in Seq([domain : Seq(STRING), mode : {"loopback", "random"}])
    /\ IsFiniteSet(t.zones) /\ \A x \in t.zones : x.name \in Seq(STRING)
    /\ DOMAIN t.records \subseteq Nat

LEMMA AllTablesOK == \A t \in Tables \cup {EmptyTables} : TablesOK(t)
  <1>1. \A t \in Tables : TablesOK(t)
    BY TablesAssumption DEF TablesOK
  <1>2. TablesOK(EmptyTables)
    <2>1. IsFiniteSet({})
      BY FS_EmptySet
    <2> QED  BY <2>1 DEF TablesOK, EmptyTables
  <1> QED  BY <1>1, <1>2

\* The zones with records whose name ends the text of n.
TextHolding(t, n) == {x \in t.zones : HasRecords(t, x) /\ EndsWith(n, x.name)}

\* The names find_zone chooses from are those of these zones.
LEMMA ZonesHeld ==
    ASSUME NEW t, TablesOK(t), NEW n \in Seq(STRING)
    PROVE  LET index == ZoneIndex(t.zones, t.records)
           IN  {z \in DOMAIN index : EndsWith(n, z)} = {x.name : x \in TextHolding(t, n)}
  BY DEF ZoneIndex, TextHolding, HasRecords

LEMMA HeldFinite ==
    ASSUME NEW t, TablesOK(t), NEW n
    PROVE  /\ IsFiniteSet({x.name : x \in TextHolding(t, n)})
           /\ {x.name : x \in TextHolding(t, n)} \subseteq Seq(STRING)
  <1>1. IsFiniteSet(TextHolding(t, n))
    BY FS_Subset DEF TablesOK, TextHolding
  <1> DEFINE H == TextHolding(t, n)
             f == [x \in H |-> x.name]
             N == {x.name : x \in H}
  <1> HIDE DEF H
  <1>2. IsFiniteSet(H)
    BY <1>1 DEF H
  <1>3. f \in [H -> N] /\ \A y \in N : \E x \in H : f[x] = y
    OBVIOUS
  <1>4. f \in Surjection(H, N)
    BY <1>3 DEF Surjection
  <1>5. IsFiniteSet(N)
    <2> HIDE DEF f, N
    <2> QED  BY <1>2, <1>4, FS_Surjection
  <1>6. \A x \in H : x.name \in Seq(STRING)
    BY DEF H, TextHolding, TablesOK
  <1> QED  BY <1>5, <1>6 DEF H

\* Being under a zone, label by label.
LEMMA UnderIs ==
    ASSUME NEW a \in Seq(STRING), NEW b \in Seq(STRING)
    PROVE  Under(a, b) <=> /\ Len(a) >= Len(b)
                           /\ \A i \in 1..Len(b) : a[Len(a) - Len(b) + i] = b[i]
  <1>1. PICK x \in Nat, y \in Nat : x = Len(a) /\ y = Len(b)
    OBVIOUS
  <1>2. CASE x > y
    <2> DEFINE s == SubSeq(a, x - y + 1, x)
    <2>1. s \in Seq(STRING) /\ Len(s) = y /\ \A i \in 1..y : s[i] = a[x - y + i]
      <3>1. x - y + 1 \in Int /\ x \in Int /\ \A i \in (x - y + 1)..x : i \in 1..x
        BY <1>2
      <3>2. \A i \in (x - y + 1)..x : a[i] \in STRING
        BY <1>1, <3>1, ElementOfSeq
      <3>3. /\ s \in Seq(STRING) /\ Len(s) = IF x - y + 1 <= x THEN x - (x - y + 1) + 1 ELSE 0
            /\ \A i \in 1..(x - (x - y + 1) + 1) : s[i] = a[(x - y + 1) + i - 1]
        BY <3>1, <3>2, SubSeqProperties
      <3>4. (IF x - y + 1 <= x THEN x - (x - y + 1) + 1 ELSE 0) = y /\ x - (x - y + 1) + 1 = y
            /\ \A i \in 1..y : (x - y + 1) + i - 1 = x - y + i
        BY <1>2
      <3> HIDE DEF s
      <3> QED  BY <3>3, <3>4
    <2>2. Under(a, b) <=> s = b
      <3>1. a # b
        BY <1>1, <1>2
      <3> QED  BY <1>1, <1>2, <3>1 DEF Under, Below
    <2> HIDE DEF s
    <2>3. s = b <=> \A i \in 1..y : a[x - y + i] = b[i]
      BY <1>1, <2>1, SeqEqual
    <2> QED  BY <1>1, <1>2, <2>2, <2>3
  <1>3. CASE x = y
    <2>1. Under(a, b) <=> a = b
      BY <1>1, <1>3 DEF Under, Below
    <2>2. \A i \in 1..y : x - y + i = i
      BY <1>3
    <2>3. a = b <=> \A i \in 1..y : a[x - y + i] = b[i]
      BY <1>1, <1>3, <2>2, SeqEqual
    <2> QED  BY <1>1, <1>3, <2>1, <2>3
  <1>4. CASE x < y
    <2>1. ~Under(a, b)
      BY <1>1, <1>4 DEF Under, Below
    <2> QED  BY <1>1, <1>4, <2>1
  <1> QED  BY <1>2, <1>3, <1>4

LEMMA UnderEnds ==
    ASSUME NEW a \in Seq(STRING), NEW b \in Seq(STRING), Under(a, b)
    PROVE  EndsWith(a, b)
  BY UnderIs, EndsWithFits DEF Fits

\* Of two zones a name is under, one is under the other if its text ends with it.
LEMMA UnderCompare ==
    ASSUME NEW n \in Seq(STRING), NEW a \in Seq(STRING), NEW b \in Seq(STRING),
           Under(n, a), Under(n, b), EndsWith(a, b)
    PROVE  Under(a, b)
  <1>1. PICK x \in Nat, y \in Nat, z \in Nat : x = Len(n) /\ y = Len(a) /\ z = Len(b)
    OBVIOUS
  <1>2. /\ x >= y /\ \A i \in 1..y : n[x - y + i] = a[i]
        /\ x >= z /\ \A i \in 1..z : n[x - z + i] = b[i]
        /\ y >= z
    BY <1>1, UnderIs, EndsWithFits
  <1>3. ASSUME NEW i \in 1..z PROVE a[y - z + i] = b[i]
    <2>1. y - z + i \in 1..y /\ x - y + (y - z + i) = x - z + i
      BY <1>2
    <2>2. n[x - y + (y - z + i)] = a[y - z + i] /\ n[x - z + i] = b[i]
      BY <1>2, <2>1
    <2> QED  BY <2>1, <2>2
  <1> QED  BY <1>1, <1>2, <1>3, UnderIs

\* A name for which find_zone finds nothing is under no zone.
LEMMA NoZoneFound ==
    ASSUME NEW t, TablesOK(t), NEW n \in Seq(STRING),
           find_zone(ZoneIndex(t.zones, t.records), n) = {}
    PROVE  Holding(t, n) = {}
  <1> DEFINE m == {x.name : x \in TextHolding(t, n)}
  <1>1. m = {z \in DOMAIN ZoneIndex(t.zones, t.records) : EndsWith(n, z)}
    BY ZonesHeld
  <1>2. find_zone(ZoneIndex(t.zones, t.records), n) = {z \in m : \A y \in m : EndsWith(z, y)}
    BY <1>1 DEF find_zone
  <1>3. \A z \in m : EndsWith(n, z)
    BY DEF TextHolding
  <1>4. IsFiniteSet(m) /\ m \subseteq Seq(STRING)
    BY HeldFinite
  <1>5. m = {}
    <2> HIDE DEF m
    <2> QED  BY <1>2, <1>3, <1>4, LongestEnd
  <1>6. TextHolding(t, n) = {}
    BY <1>5
  <1>7. \A x \in Holding(t, n) : x \in TextHolding(t, n)
    BY UnderEnds DEF Holding, TextHolding, TablesOK
  <1> QED  BY <1>6, <1>7

\* A row of the zone that answers n.
Answering(r, z, n, qtype) ==
    \/ owner_name(r, z) = n /\ r.rtype = "CNAME"
    \/ (owner_name(r, z) = n \/ r.name = <<"*">>) /\ r.rtype = qtype /\ r.valid

InZone(t, i, z) == \E x \in t.zones : x.id = t.records[i].zone_id /\ x.name = z

\* The rows of zone that answer n.
ZoneRows(t, zone, n, qtype) ==
    {i \in DOMAIN t.records : InZone(t, i, zone) /\ Answering(t.records[i], zone, n, qtype)}

\* A name that no zone claims by its text alone is answered by the longest zone it is
\* under.
LEMMA ServingZone ==
    ASSUME NEW t, TablesOK(t), NEW n \in Seq(STRING), NEW qtype, ~TextOnly(t, n),
           NEW zone \in find_zone(ZoneIndex(t.zones, t.records), n)
    PROVE  Holding(t, n) # {} /\ Serving(t, n, qtype) = ZoneRows(t, zone, n, qtype)
  <1> DEFINE m == {x.name : x \in Holding(t, n)}
  <1>0. TextHolding(t, n) = Holding(t, n)
    <2>1. \A x \in t.zones : HasRecords(t, x) => (EndsWith(n, x.name) <=> Under(n, x.name))
      BY UnderEnds DEF TextOnly, TablesOK
    <2> QED  BY <2>1 DEF TextHolding, Holding
  <1>1. m = {z \in DOMAIN ZoneIndex(t.zones, t.records) : EndsWith(n, z)}
    BY <1>0, ZonesHeld
  <1>2. find_zone(ZoneIndex(t.zones, t.records), n) = {z \in m : \A y \in m : EndsWith(z, y)}
    BY <1>1 DEF find_zone
  <1>3. zone \in m /\ (\A y \in m : EndsWith(zone, y))
    BY <1>2
  <1>4. m \subseteq Seq(STRING)
    BY <1>0, HeldFinite
  <1>a. \A z \in m : Under(n, z)
    BY DEF Holding
  <1>b. \A y \in m : Under(zone, y)
    BY <1>3, <1>4, <1>a, UnderCompare
  <1>5. ASSUME NEW x \in Holding(t, n), \A y \in Holding(t, n) : Under(x.name, y.name)
        PROVE  x.name = zone
    <2>1. x.name \in m /\ EndsWith(zone, x.name) /\ Under(x.name, zone)
      BY <1>3, <1>5
    <2> QED  BY <1>3, <1>4, <2>1, UnderEnds, EndsEachOther
  <1>6. ASSUME NEW i \in DOMAIN t.records, NEW x \in t.zones,
               x.id = t.records[i].zone_id, x.name = zone
        PROVE  x \in Holding(t, n) /\ \A y \in Holding(t, n) : Under(x.name, y.name)
    <2>1. Under(n, zone)
      BY <1>3, <1>a
    <2> QED  BY <1>b, <1>6, <2>1 DEF Holding, HasRecords
  <1>7. ASSUME NEW i \in DOMAIN t.records
        PROVE  i \in Serving(t, n, qtype) <=> InZone(t, i, zone) /\ Answering(t.records[i], zone, n, qtype)
    <2>1. ASSUME i \in Serving(t, n, qtype)
          PROVE  InZone(t, i, zone) /\ Answering(t.records[i], zone, n, qtype)
      <3>1. PICK x \in Holding(t, n) :
              /\ t.records[i].zone_id = x.id
              /\ \A y \in Holding(t, n) : Under(x.name, y.name)
              /\ Answering(t.records[i], x.name, n, qtype)
        BY <2>1 DEF Serving, Answering
      <3>2. x.name = zone /\ x \in t.zones
        BY <1>5, <3>1 DEF Holding
      <3> QED  BY <3>1, <3>2 DEF InZone
    <2>2. ASSUME InZone(t, i, zone), Answering(t.records[i], zone, n, qtype)
          PROVE  i \in Serving(t, n, qtype)
      <3>1. PICK x \in t.zones : x.id = t.records[i].zone_id /\ x.name = zone
        BY <2>2 DEF InZone
      <3>2. x \in Holding(t, n) /\ \A y \in Holding(t, n) : Under(x.name, y.name)
        BY <1>6, <3>1
      <3> QED  BY <2>2, <3>1, <3>2 DEF Serving, Answering
    <2> QED  BY <2>1, <2>2
  <1>8. Serving(t, n, qtype) \subseteq DOMAIN t.records
    BY DEF Serving
  <1> QED  BY <1>3, <1>7, <1>8 DEF ZoneRows

\* a is what respond() makes of the rows S: NXDOMAIN when there are none, else some of
\* them, which can be written if each of them can.
MadeOf(t, S, a) ==
    \/ S = {} /\ a = [rcode |-> 3, answers |-> <<>>, fits |-> TRUE]
    \/ /\ S # {}
       /\ \E I \in SUBSET S : a = [rcode |-> 0, answers |-> [i \in I |-> t.records[i].value],
                                   fits |-> \A i \in I : t.records[i].fits]

LEMMA ZoneMakes ==
    ASSUME NEW t, TablesOK(t), NEW n, NEW qtype,
           NEW zone \in find_zone(ZoneIndex(t.zones, t.records), n)
    PROVE  MadeOf(t, ZoneRows(t, zone, n, qtype),
                  ZoneAnswer(ZoneIndex(t.zones, t.records), zone, n, qtype))
  <1> DEFINE index == ZoneIndex(t.zones, t.records)
             a == ZoneAnswer(index, zone, n, qtype)
             rs == index[zone]
             Typed(r) == r.rtype = qtype /\ r.valid
             direct == {i \in DOMAIN rs : owner_name(rs[i], zone) = n /\ Typed(rs[i])}
             cname == {i \in DOMAIN rs : owner_name(rs[i], zone) = n /\ rs[i].rtype = "CNAME"}
             star == {i \in DOMAIN rs : rs[i].name = <<"*">> /\ Typed(rs[i])}
             Rows(I) == [rcode |-> 0, answers |-> [i \in I |-> rs[i].value],
                         fits |-> \A i \in I : rs[i].fits]
             Told(I) == [rcode |-> 0, answers |-> [i \in I |-> t.records[i].value],
                         fits |-> \A i \in I : t.records[i].fits]
             S == ZoneRows(t, zone, n, qtype)
  <1>1. zone \in DOMAIN index
    BY DEF find_zone
  <1>2. /\ DOMAIN rs = {i \in DOMAIN t.records : InZone(t, i, zone)}
        /\ \A i \in DOMAIN rs : rs[i] = t.records[i]
    BY <1>1 DEF ZoneIndex, InZone
  <1>3. /\ a = CASE direct # {} -> Rows(direct)
               [] direct = {} /\ cname # {} -> Rows({SetMin(cname)})
               [] direct = {} /\ cname = {} /\ star # {} -> Rows(star)
               [] OTHER -> [rcode |-> 3, answers |-> <<>>, fits |-> TRUE]
    BY DEF ZoneAnswer
  <1> HIDE DEF index, a
  <1>5. S = direct \cup cname \cup star
    BY <1>2 DEF Answering, ZoneRows
  <1>6. \A i \in S : rs[i] = t.records[i]
    BY <1>2, <1>5
  <1>7. cname # {} => SetMin(cname) \in cname
    <2>1. cname \subseteq Nat
      BY <1>2 DEF TablesOK
    <2> HIDE DEF cname
    <2> QED  BY <2>1, SetMinNat
  <1> HIDE DEF rs, direct, cname, star, S
  <1>8. \A I \in SUBSET S : Rows(I) = Told(I)
    BY <1>6
  <1> HIDE DEF Rows, Told
  <1>9. CASE S = {}
    <2>1. a = [rcode |-> 3, answers |-> <<>>, fits |-> TRUE]
      BY <1>3, <1>5, <1>9
    <2> QED  BY <1>9, <2>1 DEF S, a, index, MadeOf
  <1>10. CASE S # {}
    <2>1. \E I \in SUBSET S : a = Rows(I)
      <3>1. CASE direct # {}
        BY <1>3, <1>5, <3>1
      <3>2. CASE direct = {} /\ cname # {}
        <4>1. a = Rows({SetMin(cname)})
          BY <1>3, <3>2
        <4>2. {SetMin(cname)} \in SUBSET S
          BY <1>5, <1>7, <3>2
        <4> QED  BY <4>1, <4>2
      <3>3. CASE direct = {} /\ cname = {} /\ star # {}
        BY <1>3, <1>5, <3>3
      <3> QED  BY <1>5, <1>10, <3>1, <3>2, <3>3
    <2>2. \E I \in SUBSET S : a = Told(I)
      BY <1>8, <2>1
    <2> QED  BY <1>10, <2>2 DEF S, a, index, Told, MadeOf
  <1> QED  BY <1>9, <1>10

\* What is sent of the answer of a zone is what the tables say, unless a zone claims
\* the name by its text alone.
LEMMA ZoneAnswers ==
    ASSUME NEW t, TablesOK(t), NEW q, q.name \in Seq(STRING), ~TextOnly(t, q.name),
           NEW zone \in find_zone(ZoneIndex(t.zones, t.records), q.name), NEW reply,
           LET a == ZoneAnswer(ZoneIndex(t.zones, t.records), zone, q.name, q.qtype)
           IN  reply = encode(q.id, a.rcode, a.answers, Writable(q.name) /\ a.fits)
    PROVE  ServedAs(t, q, reply)
  <1> DEFINE a == ZoneAnswer(ZoneIndex(t.zones, t.records), zone, q.name, q.qtype)
             S == Serving(t, q.name, q.qtype)
  <1>1. Holding(t, q.name) # {} /\ S = ZoneRows(t, zone, q.name, q.qtype)
    BY ServingZone
  <1>2. \/ S = {} /\ a = [rcode |-> 3, answers |-> <<>>, fits |-> TRUE]
        \/ /\ S # {}
           /\ \E I \in SUBSET S :
                a = [rcode |-> 0, answers |-> [i \in I |-> t.records[i].value],
                     fits |-> \A i \in I : t.records[i].fits]
    <2>1. MadeOf(t, S, a)
      BY <1>1, ZoneMakes
    <2> HIDE DEF S, a
    <2> QED  BY <2>1 DEF MadeOf
  <1>3. reply = encode(q.id, a.rcode, a.answers, Writable(q.name) /\ a.fits)
    OBVIOUS
  <1> HIDE DEF a
  <1>4. CASE S = {}
    <2>1. a.rcode = 3 /\ a.answers = <<>> /\ a.fits = TRUE
      BY <1>2, <1>4
    <2>2. CASE Writable(q.name)
      <3>1. reply = [id |-> q.id, rcode |-> 3 % 16, body |-> <<>>]
        BY <1>3, <2>1, <2>2 DEF encode
      <3>2. reply.id = q.id /\ reply.rcode = 3 /\ reply.body = <<>>
        BY <3>1
      <3>3. {reply.body[k] : k \in DOMAIN reply.body} = {}
        BY <3>2
      <3> QED  BY <1>1, <1>4, <2>2, <3>2, <3>3 DEF ServedAs, NXDOMAIN
    <2>3. CASE ~Writable(q.name)
      <3>1. reply = NoBytes
        BY <1>3, <2>3 DEF encode
      <3> QED  BY <1>1, <2>3, <3>1 DEF ServedAs
    <2> QED  BY <2>2, <2>3
  <1>5. CASE S # {}
    <2>1. PICK I \in SUBSET S :
            a = [rcode |-> 0, answers |-> [i \in I |-> t.records[i].value],
                 fits |-> \A i \in I : t.records[i].fits]
      BY <1>2, <1>5
    <2>2. /\ a.rcode = 0 /\ a.answers = [i \in I |-> t.records[i].value]
          /\ a.fits = \A i \in I : t.records[i].fits
      BY <2>1
    <2>3. CASE Writable(q.name) /\ a.fits
      <3>1. reply = [id |-> q.id, rcode |-> 0 % 16, body |-> a.answers]
        BY <1>3, <2>2, <2>3 DEF encode
      <3>2. reply.id = q.id /\ reply.rcode = 0 /\ reply.body = a.answers
        BY <3>1
      <3>3. {reply.body[k] : k \in DOMAIN reply.body} \subseteq {t.records[i].value : i \in S}
        BY <2>2, <3>2
      <3>4. reply.rcode # NXDOMAIN
        BY <3>2 DEF NXDOMAIN
      <3> QED  BY <1>1, <1>5, <2>3, <3>2, <3>3, <3>4 DEF ServedAs
    <2>4. CASE ~(Writable(q.name) /\ a.fits)
      <3>1. reply = NoBytes
        BY <1>3, <2>4 DEF encode
      <3>2. ~Writable(q.name) \/ \E i \in S : ~t.records[i].fits
        BY <2>2, <2>4
      <3> QED  BY <1>1, <3>1, <3>2 DEF ServedAs
    <2> QED  BY <2>3, <2>4
  <1> QED  BY <1>4, <1>5

\* An answer of a zone that cannot be written has a record that cannot.
LEMMA ZoneUnfit ==
    ASSUME NEW t, TablesOK(t), NEW n, NEW qtype,
           NEW zone \in find_zone(ZoneIndex(t.zones, t.records), n),
           ~ZoneAnswer(ZoneIndex(t.zones, t.records), zone, n, qtype).fits
    PROVE  \E i \in DOMAIN t.records : ~t.records[i].fits
  <1> DEFINE a == ZoneAnswer(ZoneIndex(t.zones, t.records), zone, n, qtype)
             S == ZoneRows(t, zone, n, qtype)
  <1>1. \/ a = [rcode |-> 3, answers |-> <<>>, fits |-> TRUE]
        \/ \E I \in SUBSET S :
             a = [rcode |-> 0, answers |-> [i \in I |-> t.records[i].value],
                  fits |-> \A i \in I : t.records[i].fits]
    <2>1. MadeOf(t, S, a)
      BY ZoneMakes
    <2> HIDE DEF S, a
    <2> QED  BY <2>1 DEF MadeOf
  <1>2. ~a.fits
    OBVIOUS
  <1>3. S \subseteq DOMAIN t.records
    BY DEF ZoneRows
  <1> HIDE DEF a, S
  <1>4. PICK I \in SUBSET S :
          a = [rcode |-> 0, answers |-> [i \in I |-> t.records[i].value],
               fits |-> \A i \in I : t.records[i].fits]
    BY <1>1, <1>2
  <1>5. a.fits = \A i \in I : t.records[i].fits
    BY <1>4
  <1> QED  BY <1>2, <1>3, <1>5

----------------------------------------------------------------------------
(* The time an answer is cached for. *)

LEMMA MsgTtl ==
    ASSUME NEW a \in Answers
    PROVE  /\ msg_ttl(a) \in Nat
           /\ a.ttls # {} => msg_ttl(a) <= MaxTtl /\ \A t \in a.ttls : msg_ttl(a) <= t
           /\ a.ttls = {} /\ msg_ttl(a) > 0 =>
                msg_ttl(a) <= NegTtl /\ (a.soa # None \/ a.rcode = NXDOMAIN)
  <1>1. /\ a.ttls \subseteq Nat /\ (a.soa # None => a.soa \in Nat)
        /\ MaxTtl \in Nat /\ NegTtl \in Nat
    BY PipelineAssumption, AnswersAssumption
  <1>2. CASE a.ttls # {}
    <2>1. SetMin(a.ttls) \in a.ttls /\ \A y \in a.ttls : SetMin(a.ttls) <= y
      BY <1>1, <1>2, SetMinNat
    <2>2. msg_ttl(a) = Smaller(SetMin(a.ttls), MaxTtl)
      BY <1>2 DEF msg_ttl
    <2>3. PICK m \in Nat : m = SetMin(a.ttls)
      BY <1>1, <2>1
    <2>4. \A y \in a.ttls : y \in Nat /\ m <= y
      BY <1>1, <2>1, <2>3
    <2>5. msg_ttl(a) = Smaller(m, MaxTtl)
      BY <2>2, <2>3
    <2>6. Smaller(m, MaxTtl) \in Nat /\ Smaller(m, MaxTtl) <= MaxTtl /\ Smaller(m, MaxTtl) <= m
      BY <1>1 DEF Smaller
    <2>7. \A t \in a.ttls : Smaller(m, MaxTtl) <= t
      BY <2>4, <2>6
    <2> QED  BY <1>2, <2>5, <2>6, <2>7
  <1>3. CASE a.ttls = {} /\ a.soa # None
    <2>1. msg_ttl(a) = Smaller(a.soa, NegTtl)
      BY <1>3 DEF msg_ttl
    <2> QED  BY <1>1, <1>3, <2>1 DEF Smaller
  <1>4. CASE a.ttls = {} /\ a.soa = None /\ a.rcode = NXDOMAIN
    <2>1. msg_ttl(a) = NegTtl
      BY <1>4 DEF msg_ttl
    <2> QED  BY <1>1, <1>4, <2>1
  <1>5. CASE a.ttls = {} /\ a.soa = None /\ a.rcode # NXDOMAIN
    <2>1. msg_ttl(a) = 0
      BY <1>5 DEF msg_ttl
    <2> QED  BY <1>5, <2>1
  <1> QED  BY <1>2, <1>3, <1>4, <1>5

----------------------------------------------------------------------------
(* The client subnet. *)

\* The client's own subnet, as far as it is sent on.
OwnSubnet(opt, e) ==
    /\ e.family = opt.family
    /\ IF opt.family = 1 /\ opt.source > ScopeMax
       THEN e.source = ScopeMax /\ e.address = Mask(Carried(opt), ScopeMax)
       ELSE e.source = opt.source /\ e.address = Carried(opt)

LEMMA ClampedSubnet ==
    ASSUME NEW opt, opt.octets \in Seq(0..255)
    PROVE  OwnSubnet(opt, clamp_scope(decode(opt), ScopeMax))
  <1> DEFINE d == decode(opt)
             e == clamp_scope(d, ScopeMax)
  <1>1. Len(opt.octets) \in Nat
    BY LenProperties
  <1>2. d = [family |-> opt.family, source |-> opt.source, address |-> Carried(opt)]
    <2>1. CASE opt.family = 1
      BY <1>1, <2>1 DEF decode, Carried
    <2>2. CASE opt.family = 2
      <3>1. (CASE opt.family = 1 -> 4 [] opt.family = 2 -> 16 [] OTHER -> 0) = 16
        BY <2>2
      <3>2. Carried(opt) = IF Len(opt.octets) < 16 THEN <<>> ELSE SubSeq(opt.octets, 1, 16)
        BY <3>1 DEF Carried
      <3>3. d = [family |-> opt.family, source |-> opt.source,
                 address |-> IF 16 > 0 /\ Len(opt.octets) >= 16
                             THEN SubSeq(opt.octets, 1, 16) ELSE <<>>]
        BY <3>1 DEF decode
      <3>4. 16 > 0 /\ (Len(opt.octets) >= 16 <=> ~(Len(opt.octets) < 16))
        BY <1>1
      <3> QED  BY <3>2, <3>3, <3>4, Zenon
    <2>3. CASE opt.family # 1 /\ opt.family # 2
      <3>1. 1 \in Int /\ 0 \in Int /\ 0 < 1
        OBVIOUS
      <3>2. SubSeq(opt.octets, 1, 0) = <<>>
        BY <3>1, SubSeqEmpty
      <3> QED  BY <1>1, <2>3, <3>2 DEF decode, Carried
    <2> QED  BY <2>1, <2>2, <2>3
  <1>3. d.family = opt.family /\ d.source = opt.source /\ d.address = Carried(opt)
    BY <1>2
  <1> HIDE DEF d
  <1>4. CASE opt.family = 1 /\ opt.source > ScopeMax
    <2>1. e.family = d.family /\ e.source = ScopeMax /\ e.address = Mask(d.address, ScopeMax)
      BY <1>2, <1>3, <1>4 DEF clamp_scope
    <2> HIDE DEF e
    <2>2. OwnSubnet(opt, e)
      BY <1>3, <1>4, <2>1 DEF OwnSubnet
    <2> QED  BY <2>2 DEF e, d
  <1>5. CASE ~(opt.family = 1 /\ opt.source > ScopeMax)
    <2>1. e = d
      BY <1>3, <1>5 DEF clamp_scope
    <2> HIDE DEF e
    <2>2. OwnSubnet(opt, e)
      BY <1>3, <1>5, <2>1 DEF OwnSubnet
    <2> QED  BY <2>2 DEF e, d
  <1> QED  BY <1>4, <1>5

----------------------------------------------------------------------------
(* Bindings and derived subnets. *)

BindingsOK(b) == DOMAIN b \subseteq Nat /\ \A i \in DOMAIN b : b[i].net.len \in 0..128

LEMMA AllBindingsOK == \A b \in Bindings \cup {<<>>} : BindingsOK(b)
  <1>1. \A b \in Bindings : BindingsOK(b)
    BY TablesAssumption DEF BindingsOK
  <1>2. BindingsOK(<<>>)
    BY DEF BindingsOK
  <1> QED  BY <1>1, <1>2

\* Of the entries that match, one is better than all others.
LEMMA BestEntry ==
    ASSUME NEW b, BindingsOK(b), NEW m, m \subseteq DOMAIN b, m # {}
    PROVE  \E i \in m : \A j \in m : Better(b, i, j)
  <1> DEFINE lens == {b[i].net.len : i \in m}
  <1>1. \A i \in m : i \in Nat /\ b[i].net.len \in Nat /\ b[i].net.len <= 128
    <2>1. \A i \in m : i \in Nat /\ b[i].net.len \in 0..128
      BY DEF BindingsOK
    <2>2. \A x \in 0..128 : x \in Nat /\ x <= 128
      OBVIOUS
    <2> QED  BY <2>1, <2>2
  <1>2. lens \subseteq Nat /\ lens # {} /\ \A x \in lens : x <= 128
    BY <1>1
  <1>3. PICK l \in lens : \A y \in lens : y <= l
    BY <1>2, SetMaxNat
  <1> DEFINE longest == {i \in m : b[i].net.len = l}
  <1>4. longest # {} /\ longest \subseteq Nat
    BY <1>1, <1>3
  <1>5. PICK i \in longest : \A j \in longest : i <= j
    BY <1>4, SetMinNat
  <1>6. ASSUME NEW j \in m PROVE Better(b, i, j)
    <2>1. b[j].net.len \in Nat /\ b[i].net.len = l /\ b[j].net.len <= l /\ l \in Nat
      BY <1>1, <1>2, <1>3, <1>5
    <2>2. CASE b[j].net.len = l
      BY <1>5, <2>1, <2>2 DEF Better
    <2>3. CASE b[j].net.len # l
      <3>1. b[i].net.len > b[j].net.len
        BY <2>1, <2>3
      <3> QED  BY <3>1 DEF Better
    <2> QED  BY <2>2, <2>3
  <1> QED  BY <1>5, <1>6

\* What BindingTable::lookup finds is bound by the first row with the longest prefix.
LEMMA LongestBinds ==
    ASSUME NEW b \in Bindings \cup {<<>>}, NEW ip, NEW none, Longest(b, ip, none) # none
    PROVE  \E i \in DOMAIN b : b[i].v = Longest(b, ip, none) /\ Binds(b, ip, b[i].v)
  <1> DEFINE m == {i \in DOMAIN b : Contains(b[i].net, ip)}
             c == CHOOSE i \in m : \A j \in m : Better(b, i, j)
  <1>1. m # {} /\ Longest(b, ip, none) = b[c].v
    BY DEF Longest
  <1>2. BindingsOK(b)
    BY AllBindingsOK
  <1>3. c \in m /\ \A j \in m : Better(b, c, j)
    BY <1>1, <1>2, BestEntry
  <1> HIDE DEF c
  <1>4. \A j \in m : b[j].net.len < b[c].net.len \/ (b[j].net.len = b[c].net.len /\ c <= j)
    <2>1. \A j \in m : b[j].net.len \in 0..128
      BY <1>2 DEF BindingsOK
    <2>2. \A y \in 0..128 : y \in Int
      OBVIOUS
    <2>3. \A j \in m : b[j].net.len \in Int
      BY <2>1, <2>2, Zenon
    <2> QED  BY <1>3, <2>3 DEF Better
  <1>5. Binds(b, ip, b[c].v)
    BY <1>3, <1>4 DEF Binds
  <1> QED  BY <1>1, <1>3, <1>5

\* A subnet derived for client ip while the tables bs were in force.
Derived(ip, e, bs) ==
    /\ e.source = DeriveMask
    /\ \E v \in Origins(ip, bs) \ {<<>>} :
         /\ e.address = Mask(v, DeriveMask)
         /\ Geo.both => consistent(PlaceOf(Geo.v4, v), Longest(Geo.v6, ip, NoPlace), Geo.strict)

\* A table that comes into force later takes no justification away.
LEMMA DerivedMonotone ==
    ASSUME NEW ip, NEW e, NEW bs, NEW cs, bs \subseteq cs, Derived(ip, e, bs)
    PROVE  Derived(ip, e, cs)
  <1>1. Origins(ip, bs) \subseteq Origins(ip, cs)
    BY DEF Origins
  <1> QED  BY <1>1 DEF Derived

----------------------------------------------------------------------------
(* Loops.  Induction on a set of numbers, and the states a loop goes through. *)

LEMMA NatSetInduction ==
    ASSUME NEW S, 0 \in S, \A n \in Nat : n \in S => n + 1 \in S
    PROVE  Nat \subseteq S
  <1> SUFFICES ASSUME Nat \ S # {} PROVE FALSE
    OBVIOUS
  <1> DEFINE m == SetMin(Nat \ S)
  <1>1. m \in Nat \ S /\ \A y \in Nat \ S : m <= y
    BY SetMinNat
  <1> HIDE DEF m
  <1>2. m # 0 /\ m - 1 \in Nat
    BY <1>1
  <1>3. m - 1 \in S
    BY <1>1, <1>2
  <1>4. (m - 1) + 1 \in S
    BY <1>2, <1>3
  <1>5. (m - 1) + 1 = m
    BY <1>1, <1>2
  <1> QED  BY <1>1, <1>4, <1>5

\* The first n + 1 states of a loop that starts at s0 and whose turn is g.
Runs(n, A, s0, g) ==
    {f \in [0..n -> A] : f[0] = s0 /\ \A i \in 0..n : i # n => f[i + 1] = g[f[i]]}

LEMMA RunExtends ==
    ASSUME NEW A, NEW s0 \in A, NEW g \in [A -> A], NEW n \in Nat, NEW f \in Runs(n, A, s0, g)
    PROVE  \E h \in Runs(n + 1, A, s0, g) : \A i \in 0..n : h[i] = f[i]
  <1> DEFINE h == [i \in 0..(n + 1) |-> IF i <= n THEN f[i] ELSE g[f[n]]]
  <1>1. f \in [0..n -> A] /\ f[0] = s0 /\ \A i \in 0..n : i # n => f[i + 1] = g[f[i]]
    BY DEF Runs
  <1>2. f[n] \in A /\ g[f[n]] \in A
    BY <1>1
  <1>3. h \in [0..(n + 1) -> A]
    BY <1>1, <1>2
  <1>4. (\A i \in 0..n : h[i] = f[i]) /\ h[n + 1] = g[f[n]] /\ h[0] = s0
    BY <1>1
  <1> HIDE DEF h
  <1>5. ASSUME NEW i \in 0..(n + 1), i # n + 1 PROVE h[i + 1] = g[h[i]]
    <2>1. i \in 0..n
      BY <1>5
    <2>2. CASE i = n
      BY <1>4, <2>1, <2>2
    <2>3. CASE i # n
      <3>1. i + 1 \in 0..n
        BY <2>1, <2>3
      <3> QED  BY <1>1, <1>4, <2>1, <2>3, <3>1
    <2> QED  BY <2>2, <2>3
  <1>6. h \in Runs(n + 1, A, s0, g)
    BY <1>3, <1>4, <1>5 DEF Runs
  <1> QED  BY <1>4, <1>6

LEMMA RunsExist ==
    ASSUME NEW A, NEW s0 \in A, NEW g \in [A -> A]
    PROVE  \A n \in Nat : Runs(n, A, s0, g) # {}
  <1> DEFINE S == {n \in Nat : Runs(n, A, s0, g) # {}}
  <1>1. 0 \in S
    <2> DEFINE f == [i \in 0..0 |-> s0]
    <2>1. f \in [0..0 -> A] /\ f[0] = s0 /\ \A i \in 0..0 : i = 0
      OBVIOUS
    <2> HIDE DEF f
    <2>2. f \in Runs(0, A, s0, g)
      BY <2>1 DEF Runs
    <2> QED  BY <2>2
  <1>2. \A n \in Nat : n \in S => n + 1 \in S
    BY RunExtends
  <1> HIDE DEF S
  <1>3. Nat \subseteq S
    BY <1>1, <1>2, NatSetInduction
  <1> QED  BY <1>3 DEF S

\* Two runs agree as far as both go.
LEMMA RunsAgree ==
    ASSUME NEW A, NEW s0 \in A, NEW g \in [A -> A], NEW n \in Nat, NEW m \in Nat,
           NEW f \in Runs(n, A, s0, g), NEW h \in Runs(m, A, s0, g)
    PROVE  \A i \in 0..n : i <= m => f[i] = h[i]
  <1> DEFINE S == {i \in Nat : i <= n /\ i <= m => f[i] = h[i]}
  <1>1. f[0] = s0 /\ \A i \in 0..n : i # n => f[i + 1] = g[f[i]]
    BY DEF Runs
  <1>2. h[0] = s0 /\ \A i \in 0..m : i # m => h[i + 1] = g[h[i]]
    BY DEF Runs
  <1>3. 0 \in S
    BY <1>1, <1>2
  <1>4. ASSUME NEW i \in Nat, i \in S PROVE i + 1 \in S
    <2> SUFFICES ASSUME i + 1 <= n, i + 1 <= m PROVE f[i + 1] = h[i + 1]
      OBVIOUS
    <2>1. f[i] = h[i] /\ i \in 0..n /\ i \in 0..m /\ i # n /\ i # m
      BY <1>4
    <2> QED  BY <1>1, <1>2, <2>1
  <1> HIDE DEF S
  <1>5. Nat \subseteq S
    BY <1>3, <1>4, NatSetInduction
  <1> QED  BY <1>5 DEF S

HasStates(A, s0, g) ==
    \E f \in [Nat -> A] : f[0] = s0 /\ \A n \in Nat : f[n + 1] = g[f[n]]

\* A loop has a state after every number of turns.
LEMMA LoopStates ==
    ASSUME NEW A, NEW s0 \in A, NEW g \in [A -> A]
    PROVE  HasStates(A, s0, g)
  <1> DEFINE run(n) == CHOOSE h \in Runs(n, A, s0, g) : TRUE
             f == [n \in Nat |-> run(n)[n]]
  <1>1. ASSUME NEW n \in Nat PROVE run(n) \in Runs(n, A, s0, g)
    BY RunsExist
  <1> HIDE DEF run
  <1>2. \A n \in Nat : run(n) \in [0..n -> A] /\ run(n)[0] = s0
    BY <1>1 DEF Runs
  <1>3. f \in [Nat -> A]
    <2>1. \A n \in Nat : run(n)[n] \in A
      BY <1>2
    <2> QED  BY <2>1
  <1>4. f[0] = s0
    BY <1>2
  <1>5. ASSUME NEW n \in Nat PROVE f[n + 1] = g[f[n]]
    <2>1. run(n + 1)[n] = run(n)[n]
      <3>1. n \in 0..n /\ n <= n + 1 /\ n + 1 \in Nat
        OBVIOUS
      <3>2. run(n) \in Runs(n, A, s0, g) /\ run(n + 1) \in Runs(n + 1, A, s0, g)
        BY <1>1, <3>1
      <3> QED  BY <3>1, <3>2, RunsAgree
    <2>2. run(n + 1)[n + 1] = g[run(n + 1)[n]]
      <3>1. run(n + 1) \in Runs(n + 1, A, s0, g) /\ n \in 0..(n + 1) /\ n # n + 1
        BY <1>1
      <3> QED  BY <3>1 DEF Runs
    <2> QED  BY <2>1, <2>2
  <1> QED  BY <1>3, <1>4, <1>5 DEF HasStates

----------------------------------------------------------------------------
(* QQwry::lookup's binary search. *)

LEMMA Address4Len ==
    ASSUME NEW a \in Address4
    PROVE  a \in Seq(0..255) /\ Len(a) = 4
  <1>1. a \in [1..4 -> 0..255] /\ 4 \in Nat
    BY DEF Address4
  <1>2. a \in Seq(0..255)
    <2>1. [1..4 -> 0..255] \in {[1..n -> 0..255] : n \in Nat}
      BY <1>1
    <2>2. Seq(0..255) = UNION {[1..n -> 0..255] : n \in Nat}
      BY SeqDef, Zenon
    <2> QED  BY <1>1, <2>1, <2>2
  <1>3. DOMAIN a = 1..Len(a) /\ Len(a) \in Nat
    BY <1>2, LenProperties
  <1>4. 1..Len(a) = 1..4
    BY <1>1, <1>3
  <1> QED  BY <1>2, <1>3, <1>4

LEMMA LeqIpIs ==
    ASSUME NEW a \in Address4, NEW b \in Address4
    PROVE  LeqIp(a, b) <=>
             \/ a = b
             \/ \E k \in 1..4 : a[k] < b[k] /\ \A j \in 1..4 : j < k => a[j] = b[j]
  <1>1. a \in Seq(0..255) /\ b \in Seq(0..255) /\ Len(a) = 4 /\ Len(b) = 4
    BY Address4Len
  <1>2. ASSUME NEW k \in 1..4
        PROVE  SubSeq(a, 1, k - 1) = SubSeq(b, 1, k - 1)
                 <=> \A j \in 1..4 : j < k => a[j] = b[j]
    <2>1. /\ SubSeq(a, 1, k - 1) = [j \in 1..(k - 1) |-> a[j]]
          /\ SubSeq(b, 1, k - 1) = [j \in 1..(k - 1) |-> b[j]]
      BY <1>1
    <2>2. \A j : j \in 1..(k - 1) <=> j \in 1..4 /\ j < k
      OBVIOUS
    <2> QED  BY <2>1, <2>2
  <1> QED  BY <1>2 DEF LeqIp

LEMMA LeqIpTransitive ==
    ASSUME NEW a \in Address4, NEW b \in Address4, NEW c \in Address4,
           LeqIp(a, b), LeqIp(b, c)
    PROVE  LeqIp(a, c)
  <1>1. \A k \in 1..4 : a[k] \in Int /\ b[k] \in Int /\ c[k] \in Int
    BY DEF Address4
  <1>2. CASE a = b \/ b = c
    BY <1>2
  <1>3. CASE a # b /\ b # c
    <2>1. PICK k \in 1..4 : a[k] < b[k] /\ \A j \in 1..4 : j < k => a[j] = b[j]
      BY <1>3, LeqIpIs
    <2>2. PICK l \in 1..4 : b[l] < c[l] /\ \A j \in 1..4 : j < l => b[j] = c[j]
      BY <1>3, LeqIpIs
    <2> DEFINE m == IF k <= l THEN k ELSE l
    <2>3. m \in 1..4 /\ a[m] < c[m]
      BY <1>1, <2>1, <2>2
    <2>4. \A j \in 1..4 : j < m => a[j] = c[j]
      BY <2>1, <2>2
    <2> HIDE DEF m
    <2> QED  BY <2>3, <2>4, LeqIpIs
  <1> QED  BY <1>2, <1>3

LoopState == [lo : Nat, hi : Int, found : Int]
FirstState(db) == [lo |-> db.first_idx, hi |-> last_idx(db), found |-> NoIndex]

LEMMA TurnIs ==
    ASSUME NEW db, NEW ip, NEW s \in LoopState
    PROVE  /\ SearchTurn(db, ip, s) \in LoopState
           /\ s.lo > s.hi => SearchTurn(db, ip, s) = s
           /\ s.lo <= s.hi =>
                \E mid \in Nat :
                    /\ s.lo <= mid /\ mid <= s.hi
                    /\ \/ /\ LeqIp(index_start_ip(db, mid), ip)
                          /\ SearchTurn(db, ip, s) = [lo |-> mid + 1, hi |-> s.hi, found |-> mid]
                       \/ /\ ~LeqIp(index_start_ip(db, mid), ip)
                          /\ SearchTurn(db, ip, s) = [lo |-> s.lo, hi |-> mid - 1, found |-> s.found]
  <1> DEFINE mid == s.lo + (s.hi - s.lo) \div 2
             t == SearchTurn(db, ip, s)
  <1>1. s.lo \in Nat /\ s.hi \in Int /\ s.found \in Int
    BY DEF LoopState
  <1>2. CASE s.lo > s.hi
    <2>1. t = s /\ ~(s.lo <= s.hi)
      BY <1>1, <1>2 DEF SearchTurn
    <2> QED  BY <1>2, <2>1
  <1>3. CASE s.lo <= s.hi
    <2>1. mid \in Nat /\ s.lo <= mid /\ mid <= s.hi /\ ~(s.lo > s.hi)
      BY <1>1, <1>3
    <2>2. t = IF LeqIp(index_start_ip(db, mid), ip)
              THEN [lo |-> mid + 1, hi |-> s.hi, found |-> mid]
              ELSE [lo |-> s.lo, hi |-> mid - 1, found |-> s.found]
      BY <2>1 DEF SearchTurn
    <2> HIDE DEF mid, t
    <2>3. t \in LoopState
      BY <1>1, <2>1, <2>2 DEF LoopState
    <2> QED  BY <2>1, <2>2, <2>3 DEF t
  <1> QED  BY <1>1, <1>2, <1>3

\* The recursive function of Search is the sequence of the loop's states.
LEMMA SearchLoop ==
    ASSUME NEW db, db.first_idx \in Nat, Len(db.index) \in Nat, NEW ip
    PROVE  \E f \in [Nat -> LoopState] :
             /\ f[0] = FirstState(db)
             /\ \A n \in Nat : f[n + 1] = SearchTurn(db, ip, f[n])
             /\ Search(db, ip) = f[7 * Len(db.index)].found
  <1> DEFINE g == [s \in LoopState |-> SearchTurn(db, ip, s)]
             body(a) == [n \in Nat |-> IF n = 0 THEN FirstState(db)
                                       ELSE SearchTurn(db, ip, a[n - 1])]
             after == CHOOSE a : a = body(a)
  <1>1. FirstState(db) \in LoopState /\ g \in [LoopState -> LoopState]
    <2>1. FirstState(db) \in LoopState
      BY DEF FirstState, LoopState, last_idx, NoIndex
    <2>2. \A s \in LoopState : SearchTurn(db, ip, s) \in LoopState
      BY TurnIs
    <2> QED  BY <2>1, <2>2
  <1> HIDE DEF g, body, after
  <1>2. PICK f \in [Nat -> LoopState] : f[0] = FirstState(db) /\ \A n \in Nat : f[n + 1] = g[f[n]]
    <2>1. HasStates(LoopState, FirstState(db), g)
      BY <1>1, LoopStates
    <2> QED  BY <2>1 DEF HasStates
  <1> USE DEF body, after
  <1>3. \A n \in Nat : f[n + 1] = SearchTurn(db, ip, f[n])
    BY <1>2 DEF g
  <1>4. f = body(f)
    <2>1. ASSUME NEW n \in Nat
          PROVE  f[n] = IF n = 0 THEN FirstState(db) ELSE SearchTurn(db, ip, f[n - 1])
      <3>1. CASE n = 0
        BY <1>2, <3>1
      <3>2. CASE n # 0
        <4>1. n - 1 \in Nat /\ (n - 1) + 1 = n
          BY <3>2
        <4>2. f[(n - 1) + 1] = SearchTurn(db, ip, f[n - 1])
          BY <1>3, <4>1
        <4> QED  BY <3>2, <4>1, <4>2
      <3> QED  BY <3>1, <3>2
    <2> QED  BY <2>1
  <1>5. after = body(after)
    <2>1. \E a : a = body(a)
      BY <1>4
    <2> QED  BY <2>1
  <1> HIDE DEF g, after
  <1>6. \A n \in Nat : after[n] = f[n]
    <2> DEFINE S == {n \in Nat : after[n] = f[n]}
    <2>1. 0 \in S
      <3>1. after[0] = FirstState(db)
        BY <1>5
      <3> QED  BY <1>2, <3>1
    <2>2. ASSUME NEW n \in Nat, n \in S PROVE n + 1 \in S
      <3>1. n + 1 \in Nat /\ n + 1 # 0 /\ (n + 1) - 1 = n
        OBVIOUS
      <3>2. body(after)[n + 1] = SearchTurn(db, ip, after[n])
        BY <3>1
      <3>3. after[n + 1] = SearchTurn(db, ip, after[n])
        BY <1>5, <3>2
      <3> QED  BY <1>3, <2>2, <3>1, <3>3
    <2> HIDE DEF S
    <2>3. Nat \subseteq S
      BY <2>1, <2>2, NatSetInduction
    <2> QED  BY <2>3 DEF S
  <1>7. Search(db, ip) = after[7 * Len(db.index)].found
    BY DEF Search, after, FirstState
  <1>8. 7 * Len(db.index) \in Nat
    OBVIOUS
  <1> QED  BY <1>2, <1>3, <1>6, <1>7, <1>8

\* What holds of the loop's state after n turns: what lies above hi starts above ip, the
\* entry found lies just below lo and starts at or below ip, and lo..hi has shrunk.
SearchInv(db, ip, n, s) ==
    /\ s.lo >= db.first_idx /\ s.hi <= last_idx(db)
    /\ s.found = NoIndex \/ /\ s.found = s.lo - 1 /\ s.lo <= s.hi + 1
                            /\ LeqIp(index_start_ip(db, s.found), ip)
    /\ s.hi = last_idx(db) \/ ~LeqIp(index_start_ip(db, s.hi + 1), ip)
    /\ s.lo > s.hi \/ s.hi - s.lo + n <= last_idx(db) - db.first_idx

LEMMA TurnKeepsInv ==
    ASSUME NEW db, NEW ip, db.first_idx \in Nat, last_idx(db) \in Int,
           NEW n \in Nat, NEW s \in LoopState, SearchInv(db, ip, n, s)
    PROVE  SearchInv(db, ip, n + 1, SearchTurn(db, ip, s))
  <1>1. s.lo \in Nat /\ s.hi \in Int /\ s.found \in Int
    BY DEF LoopState
  <1>2. CASE s.lo > s.hi
    <2>1. SearchTurn(db, ip, s) = s
      BY <1>2, TurnIs
    <2> QED  BY <1>2, <2>1 DEF SearchInv
  <1>3. CASE s.lo <= s.hi
    <2>1. PICK mid \in Nat :
            /\ s.lo <= mid /\ mid <= s.hi
            /\ \/ /\ LeqIp(index_start_ip(db, mid), ip)
                  /\ SearchTurn(db, ip, s) = [lo |-> mid + 1, hi |-> s.hi, found |-> mid]
               \/ /\ ~LeqIp(index_start_ip(db, mid), ip)
                  /\ SearchTurn(db, ip, s) = [lo |-> s.lo, hi |-> mid - 1, found |-> s.found]
      BY <1>3, TurnIs
    <2>2. /\ s.lo >= db.first_idx /\ s.hi <= last_idx(db)
          /\ s.hi - s.lo + n <= last_idx(db) - db.first_idx
      BY <1>1, <1>3 DEF SearchInv
    <2>3. CASE /\ LeqIp(index_start_ip(db, mid), ip)
               /\ SearchTurn(db, ip, s) = [lo |-> mid + 1, hi |-> s.hi, found |-> mid]
      <3> DEFINE t == [lo |-> mid + 1, hi |-> s.hi, found |-> mid]
      <3>1. t.lo = mid + 1 /\ t.hi = s.hi /\ t.found = mid
        OBVIOUS
      <3> HIDE DEF t
      <3>2. t.found = t.lo - 1 /\ t.lo <= t.hi + 1 /\ LeqIp(index_start_ip(db, t.found), ip)
        BY <1>1, <2>1, <2>3, <3>1
      <3>3. t.lo >= db.first_idx /\ t.hi <= last_idx(db)
            /\ t.hi - t.lo + (n + 1) <= last_idx(db) - db.first_idx
        BY <1>1, <2>1, <2>2, <3>1
      <3>4. t.hi = last_idx(db) \/ ~LeqIp(index_start_ip(db, t.hi + 1), ip)
        BY <3>1 DEF SearchInv
      <3>5. SearchInv(db, ip, n + 1, t)
        BY <3>2, <3>3, <3>4 DEF SearchInv
      <3> QED  BY <2>3, <3>5 DEF t
    <2>4. CASE /\ ~LeqIp(index_start_ip(db, mid), ip)
               /\ SearchTurn(db, ip, s) = [lo |-> s.lo, hi |-> mid - 1, found |-> s.found]
      <3> DEFINE t == [lo |-> s.lo, hi |-> mid - 1, found |-> s.found]
      <3>1. t.lo = s.lo /\ t.hi = mid - 1 /\ t.found = s.found
        OBVIOUS
      <3> HIDE DEF t
      <3>2. t.hi + 1 = mid /\ t.lo <= t.hi + 1
        BY <1>1, <2>1, <3>1
      <3>3. t.lo >= db.first_idx /\ t.hi <= last_idx(db)
            /\ t.hi - t.lo + (n + 1) <= last_idx(db) - db.first_idx
        BY <1>1, <2>1, <2>2, <3>1
      <3>4. ~LeqIp(index_start_ip(db, t.hi + 1), ip)
        BY <2>4, <3>2
      <3>5. t.found = NoIndex \/ (t.found = t.lo - 1 /\ LeqIp(index_start_ip(db, t.found), ip))
        BY <3>1 DEF SearchInv
      <3>6. SearchInv(db, ip, n + 1, t)
        BY <3>2, <3>3, <3>4, <3>5 DEF SearchInv
      <3> QED  BY <2>4, <3>6 DEF t
    <2> QED  BY <2>1, <2>3, <2>4
  <1> QED  BY <1>1, <1>2, <1>3

LEMMA SearchEnds ==
    ASSUME NEW db, NEW ip, db.first_idx \in Nat, Len(db.index) \in Nat
    PROVE  \E s \in LoopState : /\ Search(db, ip) = s.found
                                /\ SearchInv(db, ip, 7 * Len(db.index), s)
  <1>1. PICK f \in [Nat -> LoopState] :
          /\ f[0] = FirstState(db)
          /\ \A n \in Nat : f[n + 1] = SearchTurn(db, ip, f[n])
          /\ Search(db, ip) = f[7 * Len(db.index)].found
    BY SearchLoop
  <1>2. last_idx(db) \in Int
    BY DEF last_idx
  <1> DEFINE S == {n \in Nat : SearchInv(db, ip, n, f[n])}
  <1>3. 0 \in S
    <2>1. f[0].lo = db.first_idx /\ f[0].hi = last_idx(db) /\ f[0].found = NoIndex
      BY <1>1 DEF FirstState
    <2>2. SearchInv(db, ip, 0, f[0])
      BY <1>2, <2>1 DEF SearchInv
    <2> QED  BY <2>2
  <1>4. ASSUME NEW n \in Nat, n \in S PROVE n + 1 \in S
    <2>1. SearchInv(db, ip, n + 1, SearchTurn(db, ip, f[n]))
      BY <1>2, <1>4, TurnKeepsInv
    <2> QED  BY <1>1, <2>1
  <1> HIDE DEF S
  <1>5. Nat \subseteq S
    BY <1>3, <1>4, NatSetInduction
  <1>6. 7 * Len(db.index) \in Nat
    OBVIOUS
  <1>7. f[7 * Len(db.index)] \in LoopState
    BY <1>1, <1>6
  <1> QED  BY <1>1, <1>5, <1>6, <1>7 DEF S

\* In every database in order the loop of QQwry::lookup, run with its byte offsets as
\* bounds, finds the entry the address belongs to, or nothing, never another entry.
THEOREM SearchExact ==
    ASSUME NEW db, db.first_idx \in Nat, Len(db.index) \in Nat,
           DOMAIN db.index = 1..Len(db.index),
           \A i \in DOMAIN db.index : db.index[i].start \in Address4,
           \A i, j \in DOMAIN db.index :
             i <= j => LeqIp(db.index[i].start, db.index[j].start),
           NEW ip \in Address4
    PROVE  geo_v4(db, ip) \in {NoPlace, PlaceOf(db, ip)}
  <1> DEFINE L == Len(db.index)
             i == Search(db, ip)
             m == {j \in DOMAIN db.index : LeqIp(db.index[j].start, ip)}
  <1>1. PICK s \in LoopState : i = s.found /\ SearchInv(db, ip, 7 * L, s)
    BY SearchEnds
  <1>2. s.lo \in Nat /\ s.hi \in Int /\ s.found \in Int
    BY DEF LoopState
  <1>3. L \in Nat /\ last_idx(db) = db.first_idx + 7 * (L - 1) /\ last_idx(db) \in Int
    BY DEF last_idx
  <1>4. geo_v4(db, ip) = IF i = NoIndex \/ i >= L THEN NoPlace ELSE db.index[i + 1].place
    BY DEF geo_v4
  <1>5. CASE i = NoIndex \/ i >= L
    BY <1>4, <1>5
  <1>6. CASE ~(i = NoIndex \/ i >= L)
    <2> HIDE DEF i, L
    <2>1. s.lo > s.hi
      BY <1>1, <1>2, <1>3 DEF SearchInv
    <2>2. i = s.lo - 1 /\ s.lo <= s.hi + 1 /\ LeqIp(index_start_ip(db, i), ip)
      BY <1>1, <1>6 DEF SearchInv
    <2>3. i = s.hi /\ i \in Nat /\ i < L
      BY <1>1, <1>2, <1>3, <1>6, <2>1, <2>2 DEF NoIndex
    <2>4. i + 1 \in DOMAIN db.index /\ i + 1 \in Nat
      BY <1>3, <2>3 DEF L
    <2>5. i + 1 \in m
      BY <2>2, <2>3, <2>4 DEF index_start_ip, L
    <2>6. ASSUME NEW y \in m PROVE y <= i + 1
      <3> SUFFICES ASSUME y > i + 1 PROVE FALSE
        BY <2>4 DEF L
      <3>1. y \in Nat /\ y <= L /\ i + 2 <= y /\ i + 2 \in DOMAIN db.index
        BY <1>3, <2>3 DEF L
      <3>2. s.hi # last_idx(db)
        BY <1>2, <1>3, <2>3, <3>1
      <3>3. ~LeqIp(index_start_ip(db, i + 1), ip)
        BY <1>1, <2>3, <3>2 DEF SearchInv
      <3>4. index_start_ip(db, i + 1) = db.index[i + 2].start
        <4>1. i + 1 < L /\ (i + 1) + 1 = i + 2
          BY <1>3, <2>3, <3>1
        <4> QED  BY <4>1 DEF index_start_ip, L
      <3>5. LeqIp(db.index[i + 2].start, db.index[y].start) /\ LeqIp(db.index[y].start, ip)
        BY <3>1
      <3>6. LeqIp(db.index[i + 2].start, ip)
        BY <3>1, <3>5, LeqIpTransitive
      <3> QED  BY <3>3, <3>4, <3>6
    <2>7. m \subseteq Nat /\ m # {}
      BY <2>5
    <2> HIDE DEF m
    <2>8. SetMax(m) \in m /\ \A y \in m : y <= SetMax(m)
      BY <2>4, <2>6, <2>7, SetMaxNat
    <2>9. SetMax(m) = i + 1
      <3>1. SetMax(m) <= i + 1 /\ i + 1 <= SetMax(m) /\ SetMax(m) \in Nat
        BY <2>5, <2>6, <2>7, <2>8
      <3> QED  BY <2>4, <3>1
    <2>10. PlaceOf(db, ip) = db.index[i + 1].place
      BY <2>7, <2>9 DEF PlaceOf, m
    <2> QED  BY <1>4, <1>6, <2>10 DEF i, L
  <1> QED  BY <1>5, <1>6

----------------------------------------------------------------------------
(* The derived subnet. *)

LEMMA SomeOctets ==
    ASSUME NEW b \in Seq(0..255), NEW i \in Nat \ {0}, NEW j \in Nat, j <= Len(b)
    PROVE  /\ SubSeq(b, i, j) \in Seq(0..255)
           /\ Len(SubSeq(b, i, j)) = IF i <= j THEN j - i + 1 ELSE 0
  <1>1. Len(b) \in Nat /\ b \in [1..Len(b) -> 0..255]
    BY LenProperties
  <1>2. \A k \in i..j : k \in 1..Len(b)
    BY <1>1
  <1>3. \A k \in i..j : b[k] \in 0..255
    BY <1>1, <1>2
  <1>4. i \in Int /\ j \in Int
    OBVIOUS
  <1> QED  BY <1>3, <1>4, SubSeqProperties

LEMMA FourOctets ==
    ASSUME NEW b \in Seq(0..255), NEW i \in Nat \ {0}, NEW j \in Nat, j = i + 3, j <= Len(b)
    PROVE  SubSeq(b, i, j) \in Address4
  <1>1. SubSeq(b, i, j) \in Seq(0..255)
    BY SomeOctets
  <1>2. Len(SubSeq(b, i, j)) = IF i <= j THEN j - i + 1 ELSE 0
    BY SomeOctets
  <1>3. Len(SubSeq(b, i, j)) = 4
    BY <1>2
  <1> QED  BY <1>1, <1>3, LenProperties DEF Address4

\* What is taken out of an address is an address.
LEMMA ExtractedAddress ==
    ASSUME NEW b \in Seq(0..255), Len(b) = 16, NEW p
    PROVE  extract_rfc6052(b, p) \in Address4 \cup {<<>>}
  <1> DEFINE rest == SubSeq(b, p \div 8 + 1, 8) \o SubSeq(b, 10, 16)
  <1>1. CASE p = 96
    <2>1. 13 \in Nat \ {0} /\ 16 \in Nat /\ 16 = 13 + 3 /\ 16 <= Len(b)
      OBVIOUS
    <2>2. extract_rfc6052(b, p) = SubSeq(b, 13, 16)
      BY <1>1 DEF extract_rfc6052
    <2> QED  BY <2>1, <2>2, FourOctets
  <1>2. CASE p \in {32, 40, 48, 56, 64} /\ b[9] = 0
    <2>1. p # 96
      BY <1>2
    <2>2. extract_rfc6052(b, p) = SubSeq(rest, 1, 4)
      BY <1>2, <2>1 DEF extract_rfc6052
    <2>3. p \div 8 + 1 \in 5..9
      BY <1>2
    <2>4. SubSeq(b, p \div 8 + 1, 8) \in Seq(0..255)
      <3>1. p \div 8 + 1 \in Nat \ {0} /\ 8 \in Nat /\ 8 <= Len(b)
        BY <2>3
      <3> QED  BY <3>1, SomeOctets
    <2>5. SubSeq(b, 10, 16) \in Seq(0..255) /\ Len(SubSeq(b, 10, 16)) = 7
      <3>1. 10 \in Nat \ {0} /\ 16 \in Nat /\ 16 <= Len(b)
        OBVIOUS
      <3>2. Len(SubSeq(b, 10, 16)) = IF 10 <= 16 THEN 16 - 10 + 1 ELSE 0
        BY <3>1, SomeOctets
      <3>3. SubSeq(b, 10, 16) \in Seq(0..255)
        BY <3>1, SomeOctets
      <3> QED  BY <3>2, <3>3
    <2>6. rest \in Seq(0..255) /\ 4 <= Len(rest)
      BY <2>4, <2>5
    <2> HIDE DEF rest
    <2>7. 1 \in Nat \ {0} /\ 4 \in Nat /\ 4 = 1 + 3
      OBVIOUS
    <2> QED  BY <2>2, <2>6, <2>7, FourOctets
  <1>3. CASE p # 96 /\ ~(p \in {32, 40, 48, 56, 64} /\ b[9] = 0)
    BY <1>3 DEF extract_rfc6052
  <1> QED  BY <1>1, <1>2, <1>3

LEMMA MappedAddress ==
    ASSUME NEW x \in Queries, Len(x.client) = 16,
           NEW b \in Bindings \cup {<<>>}, NEW api \in ApiAnswers
    PROVE  map_to_ipv4(x.client, Nat64, b, api) \in Address4 \cup {<<>>}
  <1> DEFINE ip == x.client
             m == {i \in DOMAIN Nat64 : /\ Contains(Nat64[i], ip)
                                        /\ extract_rfc6052(ip, Nat64[i].len) # <<>>}
             first == CHOOSE i \in m : \A j \in m : i <= j
  <1>1. ip \in Seq(0..255) /\ Len(ip) = 16
    BY AddressesAssumption
  <1>2. SubSeq(ip, 13, 16) \in Address4
    <2>1. 13 \in Nat \ {0} /\ 16 \in Nat /\ 16 = 13 + 3 /\ 16 <= Len(ip)
      BY <1>1
    <2> QED  BY <1>1, <2>1, FourOctets
  <1>3. embedded_ipv4(ip, Nat64) \in
          {SubSeq(ip, 13, 16), <<>>, extract_rfc6052(ip, Nat64[first].len)}
    BY DEF embedded_ipv4
  <1>4. embedded_ipv4(ip, Nat64) \in Address4 \cup {<<>>}
    BY <1>1, <1>2, <1>3, ExtractedAddress
  <1>5. Longest(b, ip, <<>>) \in Address4 \cup {<<>>}
    <2>1. CASE Longest(b, ip, <<>>) # <<>>
      <3>1. PICK i \in DOMAIN b : b[i].v = Longest(b, ip, <<>>)
        BY <2>1, LongestBinds
      <3>2. b # <<>>
        BY <3>1
      <3> QED  BY <3>1, <3>2, AddressesAssumption
    <2> QED  BY <2>1
  <1>6. api \in Address4 \cup {<<>>}
    BY AddressesAssumption
  <1>7. map_to_ipv4(ip, Nat64, b, api) \in {embedded_ipv4(ip, Nat64), Longest(b, ip, <<>>), api}
    BY DEF map_to_ipv4
  <1> QED  BY <1>4, <1>5, <1>6, <1>7

LEMMA DerivedSubnet ==
    ASSUME NEW x \in Queries, Len(x.client) = 16,
           NEW b \in Bindings \cup {<<>>}, NEW api \in ApiAnswers,
           derive_ecs(x.client, Nat64, b, api, Geo, DeriveMask) # NoEcs
    PROVE  Derived(x.client, derive_ecs(x.client, Nat64, b, api, Geo, DeriveMask), {b})
  <1> DEFINE ip == x.client
             v == map_to_ipv4(ip, Nat64, b, api)
             e == derive_ecs(ip, Nat64, b, api, Geo, DeriveMask)
             there == Longest(Geo.v6, ip, NoPlace)
  <1>1. /\ v # <<>>
        /\ Geo.both => consistent(geo_v4(Geo.v4, v), there, Geo.strict)
        /\ e = [family |-> 1, source |-> DeriveMask, address |-> Mask(v, DeriveMask)]
    BY DEF derive_ecs
  <1>2. v \in Origins(ip, {b})
    <2>1. v \in {embedded_ipv4(ip, Nat64), api}
            \/ (v = Longest(b, ip, <<>>) /\ Longest(b, ip, <<>>) # <<>>)
      BY DEF map_to_ipv4
    <2>2. CASE v = Longest(b, ip, <<>>) /\ Longest(b, ip, <<>>) # <<>>
      <3>1. PICK i \in DOMAIN b : b[i].v = v /\ Binds(b, ip, b[i].v)
        BY <2>2, LongestBinds
      <3> HIDE DEF v, ip
      <3> QED  BY <3>1 DEF Origins
    <2> HIDE DEF v, ip
    <2> QED  BY <2>1, <2>2 DEF Origins
  <1>3. Geo.both => geo_v4(Geo.v4, v) \in {NoPlace, PlaceOf(Geo.v4, v)}
    <2>1. v \in Address4
      BY <1>1, MappedAddress
    <2> HIDE DEF v
    <2> QED  BY <2>1, AddressesAssumption, SearchExact
  <1>4. Geo.both => geo_v4(Geo.v4, v) # NoPlace
    BY <1>1 DEF consistent
  <1>5. Geo.both => consistent(PlaceOf(Geo.v4, v), there, Geo.strict)
    BY <1>1, <1>3, <1>4
  <1> HIDE DEF v, ip, e, there
  <1>6. Derived(ip, e, {b})
    BY <1>1, <1>2, <1>5 DEF Derived, there
  <1> QED  BY <1>6 DEF ip, e
=============================================================================
