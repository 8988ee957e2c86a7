--------------------------- MODULE StorageProofs ---------------------------
(***************************************************************************)
(* Theorems about Storage, for any addresses, names, files and mappings,   *)
(* any number of calls, saves and processes.                               *)
(***************************************************************************)
EXTENDS Storage, FiniteSetTheorems, WellFoundedInduction, TLAPS

Elements(s) == {s[i] : i \in DOMAIN s}

LEMMA LeastOf ==
  ASSUME NEW T, T \subseteq Nat, T # {}
  PROVE  \E x \in T : \A y \in T : ~(y < x)
<1>1. \E x \in T : \A y \in T : <<y, x>> \notin OpToRel(<, Nat)
  BY NatLessThanWellFounded, WFMin
<1>2. QED BY <1>1 DEF OpToRel

\* Induction from 0 to n over the members of a set.
LEMMA UpTo ==
  ASSUME NEW n \in Nat, NEW S, 0 \in S, \A i \in 0 .. n - 1 : i \in S => i + 1 \in S
  PROVE  \A i \in 0 .. n : i \in S
<1> DEFINE Left == {i \in 0 .. n : i \notin S}
<1>1. SUFFICES ASSUME Left # {} PROVE FALSE  OBVIOUS
<1>2. Left \subseteq Nat  OBVIOUS
<1>3. PICK i \in Left : \A j \in Left : ~(j < i)
  <2> HIDE DEF Left
  <2>1. QED BY <1>1, <1>2, LeastOf
<1>4. i \in 0 .. n /\ i \notin S /\ i # 0  OBVIOUS
<1>5. i - 1 \in 0 .. n - 1 /\ i - 1 < i  BY <1>4
<1>6. i - 1 \in S  BY <1>3, <1>4, <1>5
<1>7. (i - 1) + 1 = i  BY <1>4
<1>8. QED BY <1>4, <1>5, <1>6, <1>7

LEMMA AppendNew ==
  ASSUME NEW S, NEW s \in Seq(S), NEW x \in S, IsInjective(s), x \notin Elements(s)
  PROVE  /\ Append(s, x) \in Seq(S)
         /\ IsInjective(Append(s, x))
         /\ Elements(Append(s, x)) = Elements(s) \cup {x}
<1> DEFINE t == Append(s, x)
<1>1. t \in Seq(S) /\ Len(t) = Len(s) + 1 /\ Len(s) \in Nat  OBVIOUS
<1>2. DOMAIN s = 1 .. Len(s) /\ DOMAIN t = 1 .. Len(s) + 1  BY <1>1
<1>3. t[Len(s) + 1] = x /\ \A i \in DOMAIN s : t[i] = s[i]  BY <1>2
<1>4. \A i \in DOMAIN t : i \in DOMAIN s \/ i = Len(s) + 1  BY <1>1, <1>2
<1> HIDE DEF t
<1>5. IsInjective(t)
  <2> SUFFICES ASSUME NEW i \in DOMAIN t, NEW j \in DOMAIN t, t[i] = t[j] PROVE i = j
    BY DEF IsInjective
  <2>1. CASE i \in DOMAIN s /\ j \in DOMAIN s  BY <2>1, <1>3 DEF IsInjective
  <2>2. CASE i \in DOMAIN s /\ j = Len(s) + 1  BY <2>2, <1>3 DEF Elements
  <2>3. CASE i = Len(s) + 1 /\ j \in DOMAIN s  BY <2>3, <1>3 DEF Elements
  <2>4. QED BY <2>1, <2>2, <2>3, <1>4
<1>6. Elements(t) \subseteq Elements(s) \cup {x}  BY <1>3, <1>4 DEF Elements
<1>7. Elements(s) \cup {x} \subseteq Elements(t)
  <2>1. DOMAIN s \subseteq DOMAIN t /\ Len(s) + 1 \in DOMAIN t  BY <1>1, <1>2
  <2>2. QED BY <2>1, <1>3 DEF Elements
<1>8. QED BY <1>1, <1>5, <1>6, <1>7 DEF t

---------------------------------------------------------------------------
(* A memory image: regions of bytes, none empty, none past the end of the  *)
(* address space, none over another.                                       *)

IsRegion(b, r) ==
  /\ "data" \in DOMAIN r /\ r.data \in Seq(Bytes)
  /\ Len(r.data) > 0 /\ b + Len(r.data) < Space

IsImage(m) ==
  /\ m = [b \in DOMAIN m |-> m[b]]
  /\ DOMAIN m \subseteq Addrs
  /\ \A b \in DOMAIN m : IsRegion(b, m[b])
  /\ \A b, c \in DOMAIN m : b < c => b + Len(m[b].data) <= c

Covers(m, b, a) == b \in DOMAIN m /\ b <= a /\ a < b + Len(m[b].data)

\* Whatever can hold the bytes at an address is what find_region answers.
LEMMA RegionFound ==
  ASSUME NEW m, IsImage(m), NEW a \in Addrs, NEW b, Covers(m, b, a)
  PROVE  RegionAt(m, a) = b
<1> USE SpaceAssumption DEF Addrs
<1> DEFINE below == {x \in DOMAIN m : x <= a}
           nearest == CHOOSE x \in below : \A y \in below : y <= x
<1>1. b \in below /\ \A x \in DOMAIN m : x \in Nat /\ Len(m[x].data) \in Nat
  BY DEF Covers, IsImage, IsRegion
<1>2. \A y \in below : y <= b
  <2> SUFFICES ASSUME NEW y \in below, y > b PROVE FALSE  BY <1>1
  <2>1. b + Len(m[b].data) <= y  BY <1>1 DEF IsImage
  <2>2. QED BY <2>1, <1>1 DEF Covers
<1>3. nearest \in below /\ b <= nearest  BY <1>1, <1>2
<1>4. nearest = b  BY <1>1, <1>2, <1>3
<1>5. Within(m, b, a)
  <2>1. b + Len(m[b].data) \in 0 .. Space - 1  BY <1>1 DEF IsImage, IsRegion
  <2>2. End(m, b) = b + Len(m[b].data)  BY <2>1 DEF End
  <2>3. QED BY <2>2 DEF Within, Covers
<1> HIDE DEF nearest
<1>6. below # {} /\ Within(m, nearest, a)  BY <1>1, <1>4, <1>5
<1>7. QED BY <1>6, <1>4 DEF RegionAt, nearest

LEMMA NoRegion ==
  ASSUME NEW m, IsImage(m), NEW a \in Addrs, \A b : ~Covers(m, b, a)
  PROVE  RegionAt(m, a) = None
<1> USE SpaceAssumption DEF Addrs
<1> DEFINE below == {x \in DOMAIN m : x <= a}
           nearest == CHOOSE x \in below : \A y \in below : y <= x
<1>1. SUFFICES ASSUME below # {}, Within(m, nearest, a) PROVE FALSE
  BY DEF RegionAt
<1>2. below \subseteq Nat /\ \A x \in below : x <= a  BY DEF IsImage
<1>3. \E x \in below : \A y \in below : y <= x
  <2> DEFINE gaps == {a - x : x \in below}
  <2>1. gaps \subseteq Nat /\ gaps # {}  BY <1>1, <1>2
  <2>2. PICK g \in gaps : \A h \in gaps : ~(h < g)
    <3> HIDE DEF gaps
    <3>1. QED BY <2>1, LeastOf
  <2>4. PICK x \in below : g = a - x  BY <2>2
  <2>5. ASSUME NEW y \in below PROVE y <= x
    <3>1. a - y \in gaps  OBVIOUS
    <3>2. ~(a - y < a - x)  BY <3>1, <2>2, <2>4
    <3>3. QED BY <3>2, <1>2
  <2>6. QED BY <2>5
<1>4. nearest \in below  BY <1>3
<1> HIDE DEF nearest
<1>5. nearest \in DOMAIN m /\ nearest \in Nat /\ nearest <= a  BY <1>4, <1>2
<1>6. Len(m[nearest].data) \in Nat /\ nearest + Len(m[nearest].data) < Space
  BY <1>5 DEF IsImage, IsRegion
<1>7. End(m, nearest) = nearest + Len(m[nearest].data)
  <2>1. nearest + Len(m[nearest].data) \in 0 .. Space - 1  BY <1>5, <1>6
  <2>2. QED BY <2>1 DEF End
<1>8. Covers(m, nearest, a)  BY <1>1, <1>5, <1>7 DEF Covers, Within
<1>9. QED BY <1>8

\* What an image looks like from outside.
LEMMA Cells ==
  ASSUME NEW m, IsImage(m), NEW a \in Addrs
  PROVE  /\ \A b : Covers(m, b, a) =>
              /\ RegionAt(m, a) = b /\ IsMapped(m, a)
              /\ CellsOf(m)[a] = m[b].data[a - b + 1] /\ CellsOf(m)[a] \in Bytes
         /\ ~(\E b : Covers(m, b, a)) => ~IsMapped(m, a) /\ CellsOf(m)[a] = None
         /\ CellsOf(m)[a] # None <=> \E b : Covers(m, b, a)
<1>1. ASSUME NEW b, Covers(m, b, a)
      PROVE  RegionAt(m, a) = b /\ IsMapped(m, a)
             /\ CellsOf(m)[a] = m[b].data[a - b + 1] /\ CellsOf(m)[a] \in Bytes
  <2>1. RegionAt(m, a) = b /\ b \in Addrs  BY <1>1, RegionFound DEF Covers, IsImage
  <2>2. IsMapped(m, a)  BY <2>1, WorkspaceAssumption DEF IsMapped
  <2>3. CellsOf(m)[a] = m[b].data[a - b + 1]  BY <2>1, <2>2 DEF CellsOf, Byte
  <2>4. a - b + 1 \in 1 .. Len(m[b].data) /\ m[b].data \in Seq(Bytes)
    BY <1>1, <2>1, SpaceAssumption DEF Covers, IsImage, IsRegion, Addrs
  <2>5. m[b].data[a - b + 1] \in Bytes  BY <2>4
  <2>6. QED BY <2>1, <2>2, <2>3, <2>5
<1>2. ASSUME ~(\E b : Covers(m, b, a)) PROVE ~IsMapped(m, a) /\ CellsOf(m)[a] = None
  BY <1>2, NoRegion DEF IsMapped, CellsOf
<1>3. None \notin Bytes  BY WorkspaceAssumption
<1>4. QED BY <1>1, <1>2, <1>3

Fills(m, n) == \A a \in Addrs : CellsOf(m)[a] # None => CellsOf(n)[a] = CellsOf(m)[a]
SameCells(m, n) == \A a \in Addrs : CellsOf(m)[a] # None <=> CellsOf(n)[a] # None

\* A mapping hides nothing: whatever it may meet was there, and it fails.
LEMMA MappingFills ==
  ASSUME NEW m, IsImage(m), NEW base \in Addrs, NEW data \in Seq(Bytes), NEW perms,
         Len(data) > 0, base + Len(data) < Space
  PROVE  LET n == MapVerbatim(m, base, data, perms) IN IsImage(n) /\ Fills(m, n)
<1> DEFINE n == MapVerbatim(m, base, data, perms)
<1>1. CASE ~CanMap(m, base, Len(data))  BY <1>1 DEF MapVerbatim, Fills
<1>2. CASE CanMap(m, base, Len(data))
  <2>1. /\ n = [b \in DOMAIN n |-> n[b]] /\ DOMAIN n = DOMAIN m \cup {base}
        /\ n[base] = Region(data, perms)
        /\ \A b \in DOMAIN m : b # base => n[b] = m[b]
    BY <1>2 DEF MapVerbatim, Put
  <2> HIDE DEF n
  <2>2. Len(data) \in Nat /\ base \in Nat /\ n[base].data = data /\ IsRegion(base, n[base])
    BY <2>1, SpaceAssumption DEF Region, IsRegion, Addrs
  <2>3. ASSUME NEW b \in DOMAIN m
        PROVE  /\ b \in Nat /\ Len(m[b].data) \in Nat /\ Len(m[b].data) > 0
               /\ b # base
               /\ b < base => b + Len(m[b].data) <= base
               /\ base < b => base + Len(data) <= b
    <3>1. b \in Nat /\ Len(m[b].data) \in Nat /\ Len(m[b].data) > 0
          /\ b + Len(m[b].data) < Space
      BY SpaceAssumption DEF IsImage, IsRegion, Addrs
    <3>2. End(m, b) = b + Len(m[b].data) /\ (base + Len(data)) % Space = base + Len(data)
      <4>1. b + Len(m[b].data) \in 0 .. Space - 1 /\ base + Len(data) \in 0 .. Space - 1
        BY <3>1, <2>2, SpaceAssumption
      <4>2. QED BY <4>1, SpaceAssumption DEF End
    <3>3. base + Len(data) <= b \/ base >= b + Len(m[b].data)
      BY <1>2, <3>2 DEF CanMap, Overlaps
    <3>4. QED BY <3>1, <3>3, <2>2
  <2>4. IsImage(n)
    <3>1. ASSUME NEW b \in DOMAIN n PROVE IsRegion(b, n[b])
      <4>1. CASE b = base  BY <4>1, <2>2
      <4>2. CASE b # base  BY <4>2, <2>1 DEF IsImage
      <4>3. QED BY <4>1, <4>2
    <3>2. ASSUME NEW b \in DOMAIN n, NEW c \in DOMAIN n, b < c PROVE b + Len(n[b].data) <= c
      <4>1. CASE b = base /\ c = base  BY <4>1, <3>2, <2>2
      <4>2. CASE b = base /\ c # base  BY <4>2, <3>2, <2>1, <2>2, <2>3
      <4>3. CASE b # base /\ c = base  BY <4>3, <3>2, <2>1, <2>3
      <4>4. CASE b # base /\ c # base  BY <4>4, <3>2, <2>1 DEF IsImage
      <4>5. QED BY <4>1, <4>2, <4>3, <4>4
    <3>3. DOMAIN n \subseteq Addrs  BY <2>1 DEF IsImage
    <3>4. QED BY <2>1, <3>1, <3>2, <3>3 DEF IsImage
  <2>5. ASSUME NEW a \in Addrs, CellsOf(m)[a] # None PROVE CellsOf(n)[a] = CellsOf(m)[a]
    <3>1. PICK b : Covers(m, b, a)  BY <2>5, Cells
    <3>2. b # base /\ n[b] = m[b]  BY <3>1, <2>1, <2>3 DEF Covers
    <3>3. Covers(n, b, a)  BY <3>1, <3>2, <2>1 DEF Covers
    <3>4. QED BY <3>1, <3>2, <3>3, <2>4, Cells
  <2>6. QED BY <2>4, <2>5 DEF Fills, n
<1>3. QED BY <1>1, <1>2

LEMMA NormalizedFills ==
  ASSUME NEW m, IsImage(m), NEW f \in Files, NEW i \in 1 .. Len(f.maps)
  PROVE  LET n == MapNormalized(m, f.bytes, f.maps[i]) IN IsImage(n) /\ Fills(m, n)
<1> DEFINE s == f.maps[i]
           data == Normalized(f.bytes, s.offset, s.raw, s.size)
<1>1. /\ s.va \in Addrs /\ s.offset \in Nat /\ s.raw \in Nat /\ s.size \in Nat
      /\ s.va + s.size < Space /\ f.bytes \in Seq(Bytes) /\ 0 \in Bytes
  BY WorkspaceAssumption
<1>2. CASE s.size = 0  BY <1>2 DEF MapNormalized, Fills
<1>3. CASE s.size # 0
  <2> HIDE DEF s
  <2>1. ASSUME NEW k \in 1 .. s.size
        PROVE  (IF k <= s.raw /\ s.offset + k <= Len(f.bytes) THEN f.bytes[s.offset + k] ELSE 0)
                 \in Bytes
    BY <1>1
  <2>2. data \in [1 .. s.size -> Bytes]  BY <2>1 DEF Normalized
  <2>3. data \in Seq(Bytes) /\ Len(data) = s.size  BY <2>2, <1>1
  <2> HIDE DEF data
  <2>4. LET n == MapVerbatim(m, s.va, data, s.perms) IN IsImage(n) /\ Fills(m, n)
    BY <2>3, <1>1, <1>3, MappingFills
  <2>5. MapNormalized(m, f.bytes, s) = MapVerbatim(m, s.va, data, s.perms)
    BY <1>3 DEF MapNormalized, data
  <2>6. QED BY <2>4, <2>5 DEF s
<1>4. QED BY <1>2, <1>3

\* A write maps nothing.
LEMMA WritingMapsNothing ==
  ASSUME NEW m, IsImage(m), NEW a \in Addrs, IsMapped(m, a), NEW bytes,
         Len(bytes) \in Nat, \A i \in 1 .. Len(bytes) : bytes[i] \in Bytes
  PROVE  IsImage(Written(m, a, bytes)) /\ SameCells(m, Written(m, a, bytes))
<1> DEFINE n == Written(m, a, bytes)
           r == RegionAt(m, a)
           new == [i \in DOMAIN m[r].data |->
                     IF i - (a - r) \in 1 .. Len(bytes) THEN bytes[i - (a - r)] ELSE m[r].data[i]]
<1>1. r \in DOMAIN m
  BY NoRegion, RegionFound DEF IsMapped, Covers
<1>2. /\ n = [b \in DOMAIN n |-> n[b]] /\ DOMAIN n = DOMAIN m
      /\ n[r] = [m[r] EXCEPT !.data = new]
      /\ \A b \in DOMAIN m : b # r => n[b] = m[b]
  BY <1>1 DEF Written, IsImage
<1>3. "data" \in DOMAIN m[r] /\ m[r].data \in Seq(Bytes)  BY <1>1 DEF IsImage, IsRegion
<1>4. DOMAIN n[r] = DOMAIN m[r] /\ n[r].data = new  BY <1>2, <1>3
<1>5. new \in Seq(Bytes) /\ Len(new) = Len(m[r].data)
  <2>1. DOMAIN m[r].data = 1 .. Len(m[r].data) /\ Len(m[r].data) \in Nat  BY <1>3
  <2>2. ASSUME NEW i \in 1 .. Len(m[r].data)
        PROVE  (IF i - (a - r) \in 1 .. Len(bytes) THEN bytes[i - (a - r)] ELSE m[r].data[i]) \in Bytes
    BY <1>3
  <2>3. new \in [1 .. Len(m[r].data) -> Bytes]  BY <2>1, <2>2
  <2>4. QED BY <2>1, <2>3
<1> HIDE DEF new, n, r
<1>6. \A b \in DOMAIN m : Len(n[b].data) = Len(m[b].data) /\ IsRegion(b, n[b])
  BY <1>2, <1>3, <1>4, <1>5 DEF IsImage, IsRegion
<1>7. IsImage(n)  BY <1>2, <1>6 DEF IsImage
<1>8. \A x, b : Covers(n, b, x) <=> Covers(m, b, x)  BY <1>2, <1>6 DEF Covers
<1>9. SameCells(m, n)  BY <1>7, <1>8, Cells DEF SameCells
<1>10. QED BY <1>7, <1>9 DEF n


\* A file is mapped by so many steps, each of which exists.
MapsUpTo(k, after, m, f) ==
  after = [i \in 0 .. k |->
             IF i = 0 THEN m ELSE MapNormalized(after[i - 1], f.bytes, f.maps[i])]

LEMMA MappedBySteps ==
  ASSUME NEW m, NEW f \in Files
  PROVE  \E after : /\ MapsUpTo(Len(f.maps), after, m, f)
                   /\ Mapped(m, f) = after[Len(f.maps)]
<1> USE DEF MapsUpTo
<1> DEFINE Rule(g, k) == MapsUpTo(k, g, m, f)
           n == Len(f.maps)
           S == {k \in 0 .. n : \E g : Rule(g, k)}
<1>1. n \in Nat  BY WorkspaceAssumption
<1> HIDE DEF n
<1>2. 0 \in S
  <2>1. Rule([i \in 0 .. 0 |-> m], 0)  OBVIOUS
  <2> HIDE DEF Rule
  <2>2. \E g : Rule(g, 0)  BY <2>1
  <2>3. 0 \in 0 .. n  BY <1>1
  <2>4. QED BY <2>2, <2>3
<1>3. ASSUME NEW k \in 0 .. n - 1, k \in S PROVE k + 1 \in S
  <2>1. PICK g : Rule(g, k)  BY <1>3
  <2> DEFINE h == [i \in 0 .. k + 1 |->
                     IF i = k + 1 THEN MapNormalized(g[k], f.bytes, f.maps[k + 1]) ELSE g[i]]
  <2>2. k \in Nat /\ k + 1 \in 0 .. n  BY <1>1
  <2>3. DOMAIN g = 0 .. k /\ \A i \in 0 .. k : g[i] = IF i = 0 THEN m
                                             ELSE MapNormalized(g[i - 1], f.bytes, f.maps[i])
    BY <2>1
  <2>4. ASSUME NEW i \in 0 .. k + 1
        PROVE  h[i] = IF i = 0 THEN m ELSE MapNormalized(h[i - 1], f.bytes, f.maps[i])
    <3>1. CASE i = k + 1
      <4>1. h[i - 1] = g[k]  BY <3>1, <2>2
      <4>2. QED BY <3>1, <4>1, <2>2
    <3>2. CASE i \in 1 .. k
      <4>1. h[i] = g[i] /\ h[i - 1] = g[i - 1]  BY <3>2, <2>2
      <4>2. QED BY <3>2, <4>1, <2>3, <2>2
    <3>3. CASE i = 0  BY <3>3, <2>3, <2>2
    <3>4. QED BY <3>1, <3>2, <3>3, <2>2
  <2>5. Rule(h, k + 1)  BY <2>4
  <2>6. QED BY <2>2, <2>5
<1>4. n \in S
  <2> HIDE DEF S
  <2>1. QED BY <1>1, <1>2, <1>3, UpTo
<1>5. \E g : Rule(g, n)  BY <1>4
<1> DEFINE after == CHOOSE g : Rule(g, n)
<1>6. Rule(after, n)  BY <1>5
<1>7. Mapped(m, f) = after[n]  BY DEF Mapped, n
<1>8. QED BY <1>6, <1>7 DEF n

LEMMA MappedFills ==
  ASSUME NEW m, IsImage(m), NEW f \in Files
  PROVE  IsImage(Mapped(m, f)) /\ Fills(m, Mapped(m, f))
<1> DEFINE n == Len(f.maps)
<1>1. n \in Nat  BY WorkspaceAssumption
<1>2. PICK after : MapsUpTo(n, after, m, f) /\ Mapped(m, f) = after[n]
  BY MappedBySteps
<1> DEFINE S == {i \in 0 .. n : IsImage(after[i]) /\ Fills(m, after[i])}
<1>3. 0 \in S  BY <1>1, <1>2 DEF Fills, MapsUpTo
<1>4. ASSUME NEW i \in 0 .. n - 1, i \in S PROVE i + 1 \in S
  <2>1. i + 1 \in 1 .. n /\ i + 1 \in 0 .. n /\ i + 1 # 0 /\ (i + 1) - 1 = i  BY <1>1
  <2>2. after[i + 1] = MapNormalized(after[i], f.bytes, f.maps[i + 1])
    BY <1>2, <2>1 DEF MapsUpTo
  <2>3. IsImage(after[i]) /\ Fills(m, after[i])  BY <1>4
  <2>4. IsImage(after[i + 1]) /\ Fills(after[i], after[i + 1])
    BY <2>1, <2>2, <2>3, NormalizedFills
  <2>5. Fills(m, after[i + 1])  BY <2>3, <2>4 DEF Fills
  <2>6. QED BY <2>1, <2>4, <2>5
<1>5. n \in S
  <2> HIDE DEF S, n
  <2>1. QED BY <1>1, <1>3, <1>4, UpTo
<1>6. QED BY <1>2, <1>5

---------------------------------------------------------------------------
(* The loaders' loop over entry points, likewise.                         *)

EntersUpTo(k, after, points, vas, kept) ==
  after = [i \in 0 .. k |->
             IF i = 0 THEN points
             ELSE IF i \in kept THEN Entered(after[i - 1], vas[i]) ELSE after[i - 1]]

LEMMA EnteredBySteps ==
  ASSUME NEW points, NEW vas, Len(vas) \in Nat, NEW kept
  PROVE  \E after : /\ EntersUpTo(Len(vas), after, points, vas, kept)
                   /\ EnteredAt(points, vas, kept) = after[Len(vas)]
<1> USE DEF EntersUpTo
<1> DEFINE Rule(g, k) == EntersUpTo(k, g, points, vas, kept)
           n == Len(vas)
           S == {k \in 0 .. n : \E g : Rule(g, k)}
<1>1. n \in Nat  OBVIOUS
<1> HIDE DEF n
<1>2. 0 \in S
  <2>1. Rule([i \in 0 .. 0 |-> points], 0)  OBVIOUS
  <2> HIDE DEF Rule
  <2>2. \E g : Rule(g, 0)  BY <2>1
  <2>3. 0 \in 0 .. n  BY <1>1
  <2>4. QED BY <2>2, <2>3
<1>3. ASSUME NEW k \in 0 .. n - 1, k \in S PROVE k + 1 \in S
  <2>1. PICK g : Rule(g, k)  BY <1>3
  <2> DEFINE last == IF k + 1 \in kept THEN Entered(g[k], vas[k + 1]) ELSE g[k]
             h == [i \in 0 .. k + 1 |-> IF i = k + 1 THEN last ELSE g[i]]
  <2>2. k \in Nat /\ k + 1 \in 0 .. n  BY <1>1
  <2>3. \A i \in 0 .. k : g[i] = IF i = 0 THEN points
                                 ELSE IF i \in kept THEN Entered(g[i - 1], vas[i]) ELSE g[i - 1]
    BY <2>1
  <2>4. ASSUME NEW i \in 0 .. k + 1
        PROVE  h[i] = IF i = 0 THEN points
                      ELSE IF i \in kept THEN Entered(h[i - 1], vas[i]) ELSE h[i - 1]
    <3>1. CASE i = k + 1
      <4>1. h[i - 1] = g[k] /\ h[i] = last  BY <3>1, <2>2
      <4>2. QED BY <3>1, <4>1, <2>2
    <3>2. CASE i \in 1 .. k
      <4>1. h[i] = g[i] /\ h[i - 1] = g[i - 1]  BY <3>2, <2>2
      <4>2. QED BY <3>2, <4>1, <2>3, <2>2
    <3>3. CASE i = 0  BY <3>3, <2>3, <2>2
    <3>4. QED BY <3>1, <3>2, <3>3, <2>2
  <2>5. Rule(h, k + 1)  BY <2>4
  <2> HIDE DEF Rule, h
  <2>6. QED BY <2>2, <2>5
<1>4. n \in S
  <2> HIDE DEF S
  <2>1. \A i \in 0 .. n : i \in S  BY <1>1, <1>2, <1>3, UpTo
  <2>2. QED BY <1>1, <2>1
<1>5. \E g : Rule(g, n)  BY <1>4
<1> DEFINE after == CHOOSE g : Rule(g, n)
<1>6. Rule(after, n)  BY <1>5
<1>7. EnteredAt(points, vas, kept) = after[n]  BY DEF EnteredAt, n
<1>8. QED BY <1>6, <1>7 DEF n

LEMMA EnteredType ==
  ASSUME NEW points \in Seq(Addrs), NEW vas, Len(vas) \in Nat, NEW kept,
         \A i \in 1 .. Len(vas) : vas[i] \in Addrs
  PROVE  EnteredAt(points, vas, kept) \in Seq(Addrs)
<1> DEFINE n == Len(vas)
<1>1. n \in Nat  OBVIOUS
<1>2. PICK after : /\ EntersUpTo(Len(vas), after, points, vas, kept)
                   /\ EnteredAt(points, vas, kept) = after[Len(vas)]
  BY EnteredBySteps
<1>v. \A i \in 1 .. n : vas[i] \in Addrs  OBVIOUS
<1> DEFINE S == {i \in 0 .. n : after[i] \in Seq(Addrs)}
<1>3. 0 \in S  BY <1>1, <1>2 DEF EntersUpTo
<1>4. ASSUME NEW i \in 0 .. n - 1, i \in S PROVE i + 1 \in S
  <2>1. i + 1 \in 1 .. n /\ i + 1 \in 0 .. n /\ i + 1 # 0 /\ (i + 1) - 1 = i  BY <1>1
  <2>2. after[i + 1] \in {after[i], Entered(after[i], vas[i + 1])}  BY <1>2, <2>1 DEF EntersUpTo
  <2>3. after[i] \in Seq(Addrs) /\ vas[i + 1] \in Addrs  BY <1>4, <1>v, <2>1
  <2>4. Entered(after[i], vas[i + 1]) \in Seq(Addrs)  BY <2>3 DEF Entered
  <2>5. QED BY <2>1, <2>2, <2>3, <2>4
<1>5. n \in S
  <2> HIDE DEF S, n
  <2>1. \A i \in 0 .. n : i \in S  BY <1>1, <1>3, <1>4, UpTo
  <2>2. QED BY <1>1, <2>1
<1>6. QED BY <1>2, <1>5

---------------------------------------------------------------------------
(* The tables of a workspace, and what a loader may do to one: fill memory *)
(* that was empty, and change locations only with the generation.  No      *)
(* loader touches functions, their order or the pending list.              *)

Shaped(w) ==
  {"functions", "order", "pending", "regions", "locations", "codeblocks", "segments",
   "files", "entryPoints", "generation"} \subseteq DOMAIN w

FileNames == Values \cup {f.id : f \in Files}

IsTable(t) == t = [va \in DOMAIN t |-> t[va]] /\ DOMAIN t \subseteq Addrs

Tables(d) ==
  /\ IsImage(d.regions) /\ IsTable(d.locations) /\ IsTable(d.codeblocks)
  /\ d.segments \in Seq(Addrs) /\ d.files \in Seq(FileNames) /\ d.entryPoints \in Seq(Addrs)

Tidy(w) == Shaped(w) /\ Tables(w) /\ w.generation \in Nat

Keeps(w, v) ==
  /\ DOMAIN v = DOMAIN w
  /\ DOMAIN v.functions = DOMAIN w.functions
  /\ v.order = w.order /\ v.pending = w.pending

Guarded(w, v) ==
  /\ v.generation >= w.generation
  /\ v.generation = w.generation => Cached(v) = Cached(w)

\* What loading may do to a workspace.
Loads(w, v) ==
  Tidy(v) /\ Keeps(w, v) /\ Guarded(w, v) /\ Fills(w.regions, v.regions)

LEMMA LoadsTransitive ==
  ASSUME NEW u, NEW v, NEW w, Tidy(u), Loads(u, v), Loads(v, w) PROVE Loads(u, w)
<1>1. Keeps(u, w)  BY DEF Loads, Keeps
<1>2. Guarded(u, w)  BY DEF Loads, Tidy, Tables, Guarded
<1>3. Fills(u.regions, w.regions)  BY DEF Loads, Fills
<1>4. QED BY <1>1, <1>2, <1>3 DEF Loads

\* Names and entry points.
LEMMA UnmovedLoads ==
  ASSUME NEW w, Tidy(w), NEW v,
         /\ DOMAIN v = DOMAIN w /\ DOMAIN v.functions = DOMAIN w.functions
         /\ v.order = w.order /\ v.pending = w.pending /\ v.regions = w.regions
         /\ v.locations = w.locations /\ v.codeblocks = w.codeblocks
         /\ v.segments = w.segments /\ v.files = w.files /\ v.generation = w.generation
         /\ v.entryPoints \in Seq(Addrs)
  PROVE  Loads(w, v)
<1>1. Tidy(v)  BY DEF Tidy, Tables, Shaped
<1>2. Keeps(w, v) /\ Guarded(w, v) /\ Fills(w.regions, v.regions)
  BY DEF Keeps, Guarded, Cached, Fills, Tidy, Tables
<1>3. QED BY <1>1, <1>2 DEF Loads

LEMMA NamedLoads ==
  ASSUME NEW w, Tidy(w), NEW pairs, NEW kept PROVE Loads(w, Named(w, pairs, kept))
<1> DEFINE v == Named(w, pairs, kept)
<1>1. /\ DOMAIN v = DOMAIN w /\ v.functions = w.functions /\ v.order = w.order
      /\ v.pending = w.pending /\ v.regions = w.regions /\ v.locations = w.locations
      /\ v.codeblocks = w.codeblocks /\ v.segments = w.segments /\ v.files = w.files
      /\ v.entryPoints = w.entryPoints /\ v.generation = w.generation
  BY DEF Named, Tidy, Shaped
<1> HIDE DEF v
<1>2. v.entryPoints \in Seq(Addrs)  BY <1>1 DEF Tidy, Tables
<1>3. QED BY <1>1, <1>2, UnmovedLoads DEF v

LEMMA EntryPointsLoad ==
  ASSUME NEW w, Tidy(w), NEW points \in Seq(Addrs)
  PROVE  Loads(w, [w EXCEPT !.entryPoints = points])
<1> DEFINE v == [w EXCEPT !.entryPoints = points]
<1>1. /\ DOMAIN v = DOMAIN w /\ v.functions = w.functions /\ v.order = w.order
      /\ v.pending = w.pending /\ v.regions = w.regions /\ v.locations = w.locations
      /\ v.codeblocks = w.codeblocks /\ v.segments = w.segments /\ v.files = w.files
      /\ v.entryPoints = points /\ v.generation = w.generation
  BY DEF Tidy, Shaped
<1> HIDE DEF v
<1>2. QED BY <1>1, UnmovedLoads DEF v

LEMMA ImageLoads ==
  ASSUME NEW w, Tidy(w), NEW f \in Files PROVE Loads(w, WithImage(w, f))
<1> DEFINE v == WithImage(w, f)
<1>1. /\ DOMAIN v = DOMAIN w /\ v.functions = w.functions /\ v.order = w.order
      /\ v.pending = w.pending /\ v.regions = Mapped(w.regions, f) /\ v.locations = w.locations
      /\ v.codeblocks = w.codeblocks /\ v.segments = w.segments \o f.segments
      /\ v.files = Append(w.files, f.id)
      /\ v.entryPoints = w.entryPoints /\ v.generation = w.generation
  BY DEF WithImage, Tidy, Tables, Shaped
<1> HIDE DEF v
<1>2. IsImage(v.regions) /\ Fills(w.regions, v.regions)  BY <1>1, MappedFills DEF Tidy, Tables
<1>3. v.segments \in Seq(Addrs)  BY <1>1, WorkspaceAssumption DEF Tidy, Tables
<1>4. v.files \in Seq(FileNames)  BY <1>1 DEF Tidy, Tables, FileNames
<1>5. Tidy(v)  BY <1>1, <1>2, <1>3, <1>4 DEF Tidy, Tables, Shaped
<1>6. Keeps(w, v) /\ Guarded(w, v)  BY <1>1 DEF Keeps, Guarded, Cached, Tidy, Tables
<1>7. QED BY <1>2, <1>5, <1>6 DEF Loads, v

LEMMA ImportedLoads ==
  ASSUME NEW w, Tidy(w), NEW f \in Files, NEW kept \in SUBSET DOMAIN f.imports, NEW pointer
  PROVE  Loads(w, Imported(w, f.imports, kept, pointer))
<1> DEFINE u == Named(w, f.imports, kept)
           v == Imported(w, f.imports, kept, pointer)
           slots == {f.imports[i][1] : i \in kept}
<1>1. Loads(w, u) /\ Tidy(u)  BY NamedLoads DEF Loads
<1>2. /\ DOMAIN v = DOMAIN u /\ v.functions = u.functions /\ v.order = u.order
      /\ v.pending = u.pending /\ v.regions = u.regions
      /\ v.locations = [va \in DOMAIN u.locations \cup slots |->
            IF va \in slots THEN [size |-> pointer, type |-> "Import"] ELSE u.locations[va]]
      /\ v.codeblocks = u.codeblocks /\ v.segments = u.segments /\ v.files = u.files
      /\ v.entryPoints = u.entryPoints /\ v.generation = u.generation + Cardinality(kept)
  BY <1>1 DEF Imported, Tidy, Tables, Shaped
<1> HIDE DEF u, v
<1>3. slots \subseteq Addrs /\ IsFiniteSet(kept)
  <2>1. Len(f.imports) \in Nat /\ DOMAIN f.imports = 1 .. Len(f.imports)
        /\ \A i \in DOMAIN f.imports : f.imports[i][1] \in Addrs
    BY WorkspaceAssumption
  <2>2. IsFiniteSet(DOMAIN f.imports)  BY <2>1, FS_Interval
  <2>3. QED BY <2>1, <2>2, FS_Subset
<1>4. Cardinality(kept) \in Nat /\ (Cardinality(kept) = 0 <=> kept = {})
  BY <1>3, FS_CardinalityType, FS_EmptySet
<1>5. IsTable(v.locations)  BY <1>1, <1>2, <1>3 DEF IsTable, Tidy, Tables
<1>6. Tidy(v)  BY <1>1, <1>2, <1>4, <1>5 DEF Tidy, Tables, Shaped
<1>7. Guarded(u, v)
  <2>1. v.generation >= u.generation  BY <1>1, <1>2, <1>4 DEF Tidy, Tables
  <2>2. ASSUME v.generation = u.generation PROVE v.locations = u.locations
    <3>1. kept = {}  BY <2>2, <1>1, <1>2, <1>4 DEF Tidy, Tables
    <3>2. slots = {}  BY <3>1
    <3> HIDE DEF slots
    <3>3. v.locations = [va \in DOMAIN u.locations |-> u.locations[va]]  BY <1>2, <3>2
    <3>4. QED BY <3>3, <1>1 DEF Tidy, Tables, IsTable
  <2>3. QED BY <2>1, <2>2, <1>2 DEF Guarded, Cached
<1>8. Keeps(u, v) /\ Fills(u.regions, v.regions)  BY <1>2 DEF Keeps, Fills
<1>9. Loads(u, v)  BY <1>6, <1>7, <1>8 DEF Loads
<1>10. Loads(w, v)  BY <1>1, <1>9, LoadsTransitive
<1>11. QED BY <1>10 DEF v

\* The entry points of a sequence of pairs.
LEMMA PairsType ==
  ASSUME NEW f \in Files, NEW pairs \in {f.exports, f.imports, f.functions}
  PROVE  /\ Len(FirstOf(pairs)) \in Nat
         /\ \A i \in 1 .. Len(FirstOf(pairs)) : FirstOf(pairs)[i] \in Addrs
<1>1. /\ Len(pairs) \in Nat /\ DOMAIN pairs = 1 .. Len(pairs)
      /\ \A i \in DOMAIN pairs : pairs[i][1] \in Addrs
  BY WorkspaceAssumption
<1>2. FirstOf(pairs) \in [1 .. Len(pairs) -> Addrs]  BY <1>1 DEF FirstOf
<1>3. Len(FirstOf(pairs)) = Len(pairs)  BY <1>1, <1>2
<1>4. QED BY <1>1, <1>2, <1>3

LEMMA FunctionsLoad ==
  ASSUME NEW w, Tidy(w), NEW f \in Files PROVE Loads(w, WithFunctions(w, f))
<1> DEFINE there == {i \in DOMAIN f.functions :
                       f.functions[i][1] # 0 /\ IsMapped(w.regions, f.functions[i][1])}
           points == EnteredAt(w.entryPoints, FirstOf(f.functions), there)
           v == [w EXCEPT !.entryPoints = points]
           kept == {i \in there : f.functions[i][2] # NoName}
<1>1. WithFunctions(w, f) = Named(v, f.functions, kept)  BY DEF WithFunctions
<1> HIDE DEF there
<1>2. points \in Seq(Addrs)
  <2>1. w.entryPoints \in Seq(Addrs)  BY DEF Tidy, Tables
  <2>2. QED BY <2>1, PairsType, EnteredType
<1> HIDE DEF points, kept
<1>3. Loads(w, v)  BY <1>2, EntryPointsLoad
<1> HIDE DEF v
<1>4. Loads(v, Named(v, f.functions, kept))  BY <1>3, NamedLoads DEF Loads
<1>5. QED BY <1>1, <1>3, <1>4, LoadsTransitive

\* The part the loaders share: the image, entry points and the exports' names.
LEMMA EnteredAndNamed ==
  ASSUME NEW w, Tidy(w), NEW f \in Files, NEW points \in Seq(Addrs), NEW pairs, NEW kept
  PROVE  Loads(w, Named([WithImage(w, f) EXCEPT !.entryPoints = points], pairs, kept))
<1> DEFINE image == WithImage(w, f)
           entered == [image EXCEPT !.entryPoints = points]
<1>1. Loads(w, image)  BY ImageLoads
<1> HIDE DEF image
<1>2. Loads(image, entered)  BY <1>1, EntryPointsLoad DEF Loads
<1> HIDE DEF entered
<1>3. Loads(entered, Named(entered, pairs, kept))  BY <1>2, NamedLoads DEF Loads
<1>4. Loads(w, Named(entered, pairs, kept))  BY <1>1, <1>2, <1>3, LoadsTransitive
<1>5. QED BY <1>4 DEF entered, image

LEMMA LoaderLoads ==
  ASSUME NEW w, Tidy(w), NEW f \in Files PROVE Loads(w, LoadFromFile(w, f))
<1> DEFINE old == WithImage(w, f).entryPoints
<1>0. old \in Seq(Addrs) /\ f.entry \in Addrs /\ f.more \in Seq(Addrs)
  BY ImageLoads, WorkspaceAssumption DEF Loads, Tidy, Tables
<1>1. Loads(w, LoadPe(w, f))
  <2> DEFINE others == {i \in DOMAIN f.more : f.more[i] # f.entry}
             first == EnteredAt(Append(old, f.entry), f.more, others)
             points == EnteredAll(first, FirstOf(f.exports))
             entered == [WithImage(w, f) EXCEPT !.entryPoints = points]
             named == Named(entered, f.exports, DOMAIN f.exports)
  <2>1. LoadPe(w, f) = Imported(named, f.imports, DOMAIN f.imports, f.pointer)
    BY DEF LoadPe
  <2>2. first \in Seq(Addrs)
    <3>1. Append(old, f.entry) \in Seq(Addrs)  BY <1>0
    <3>2. Len(f.more) \in Nat /\ \A i \in 1 .. Len(f.more) : f.more[i] \in Addrs  BY <1>0
    <3> HIDE DEF old, others
    <3>3. QED BY <3>1, <3>2, EnteredType
  <2> HIDE DEF first
  <2>3. points \in Seq(Addrs)  BY <2>2, PairsType, EnteredType DEF EnteredAll
  <2> HIDE DEF points
  <2>4. Loads(w, named) /\ Tidy(named)  BY <2>3, EnteredAndNamed DEF Loads
  <2> HIDE DEF named
  <2>5. Loads(named, LoadPe(w, f))  BY <2>1, <2>4, ImportedLoads
  <2>6. QED BY <2>4, <2>5, LoadsTransitive
<1>2. Loads(w, LoadElf(w, f))
  <2> DEFINE points == IF f.entry # 0 THEN Append(old, f.entry) ELSE old
             entered == [WithImage(w, f) EXCEPT !.entryPoints = points]
             known == {i \in DOMAIN f.imports : f.imports[i][1] # 0 /\ f.imports[i][2] # NoName}
             named == Named(entered, f.exports, DOMAIN f.exports)
             imported == Imported(named, f.imports, known, f.pointer)
  <2>1. LoadElf(w, f) = WithFunctions(imported, f)  BY DEF LoadElf
  <2>2. points \in Seq(Addrs)  BY <1>0
  <2>3. known \in SUBSET DOMAIN f.imports  OBVIOUS
  <2> HIDE DEF points, known
  <2>4. Loads(w, named) /\ Tidy(named)  BY <2>2, EnteredAndNamed DEF Loads
  <2> HIDE DEF named
  <2>5. Loads(named, imported) /\ Tidy(imported)  BY <2>3, <2>4, ImportedLoads DEF Loads
  <2> HIDE DEF imported
  <2>6. Loads(imported, LoadElf(w, f))  BY <2>1, <2>5, FunctionsLoad
  <2>7. QED BY <2>4, <2>5, <2>6, LoadsTransitive
<1>3. Loads(w, LoadMacho(w, f))
  <2> DEFINE points == IF f.entry # 0 THEN Entered(old, f.entry) ELSE old
             entered == [WithImage(w, f) EXCEPT !.entryPoints = points]
             named == Named(entered, f.exports, DOMAIN f.exports)
  <2>1. LoadMacho(w, f) = WithFunctions(named, f)  BY DEF LoadMacho
  <2>2. points \in Seq(Addrs)  BY <1>0 DEF Entered
  <2> HIDE DEF points
  <2>3. Loads(w, named) /\ Tidy(named)  BY <2>2, EnteredAndNamed DEF Loads
  <2> HIDE DEF named
  <2>4. Loads(named, LoadMacho(w, f))  BY <2>1, <2>3, FunctionsLoad
  <2>5. QED BY <2>3, <2>4, LoadsTransitive
<1>4. Loads(w, w)  BY UnmovedLoads DEF Tidy, Tables
<1>5. QED BY <1>1, <1>2, <1>3, <1>4 DEF LoadFromFile

---------------------------------------------------------------------------
(* Functions: the insertion order lists each once, and so do those drained *)
(* and those pending together.  What a file holds is ordered as well, and  *)
(* a restore makes the order the pending list.                             *)

Ordered(d) ==
  /\ d.order \in Seq(VA)
  /\ IsInjective(d.order)
  /\ DOMAIN d.functions = Elements(d.order)

Queue(w, gone) ==
  /\ Shaped(w)
  /\ Ordered(w)
  /\ w.pending \in Seq(VA)
  /\ IsInjective(w.pending)
  /\ DOMAIN w.functions = gone \cup Elements(w.pending)
  /\ gone \cap Elements(w.pending) = {}

QueueInvariant ==
  /\ Queue(ws, drained)
  /\ Ordered(file.data)
  /\ running \/ (drained = {} /\ ws = Fresh)

LEMMA ShapeKept ==
  ASSUME NEW w, Shaped(w), NEW v, Keeps(w, v) PROVE Shaped(v)
BY DEF Shaped, Keeps

LEMMA KeepsQueue ==
  ASSUME NEW w, NEW v, NEW gone, Queue(w, gone), Keeps(w, v) PROVE Queue(v, gone)
BY ShapeKept DEF Queue, Ordered, Keeps

LEMMA AddFunctionQueues ==
  ASSUME NEW w, NEW gone, Queue(w, gone), NEW va \in VA, NEW name
  PROVE  Queue(AddFunction(w, va, name), gone)
<1>1. CASE va \in DOMAIN w.functions  BY <1>1 DEF AddFunction
<1>2. CASE va \notin DOMAIN w.functions
  <2> DEFINE v == AddFunction(w, va, name)
  <2>1. /\ DOMAIN v = DOMAIN w
        /\ v.functions = Put(w.functions, va, name)
        /\ v.order = Append(w.order, va)
        /\ v.pending = Append(w.pending, va)
    BY <1>2 DEF AddFunction, Queue, Shaped
  <2> HIDE DEF v
  <2>2. DOMAIN v.functions = DOMAIN w.functions \cup {va}  BY <2>1 DEF Put
  <2>3. va \notin Elements(w.order) /\ va \notin Elements(w.pending) /\ va \notin gone
    BY <1>2 DEF Queue, Ordered
  <2>4. /\ v.order \in Seq(VA) /\ IsInjective(v.order)
        /\ Elements(v.order) = Elements(w.order) \cup {va}
    <3>1. w.order \in Seq(VA) /\ IsInjective(w.order)  BY DEF Queue, Ordered
    <3>2. QED BY <2>1, <2>3, <3>1, AppendNew
  <2>5. /\ v.pending \in Seq(VA) /\ IsInjective(v.pending)
        /\ Elements(v.pending) = Elements(w.pending) \cup {va}
    BY <2>1, <2>3, AppendNew DEF Queue
  <2>6. Queue(v, gone)  BY <2>1, <2>2, <2>3, <2>4, <2>5 DEF Queue, Ordered, Shaped
  <2>7. QED BY <2>6 DEF v
<1>3. QED BY <1>1, <1>2

LEMMA NothingQueued == Queue(Fresh, {}) /\ Ordered(Data(Fresh))
<1>1. DOMAIN Nothing = {}  BY DEF Nothing
<1>2. <<>> \in Seq(VA) /\ DOMAIN <<>> = {}  OBVIOUS
<1>3. IsInjective(<<>>) /\ Elements(<<>>) = {}  BY <1>2 DEF IsInjective, Elements
<1>4. Fresh.functions = Nothing /\ Fresh.order = <<>> /\ Fresh.pending = <<>> /\ Shaped(Fresh)
  BY DEF Fresh, Shaped
<1>5. Data(Fresh).functions = Fresh.functions /\ Data(Fresh).order = Fresh.order  BY DEF Data
<1>6. QED BY <1>1, <1>2, <1>3, <1>4, <1>5 DEF Queue, Ordered

LEMMA EditQueues ==
  ASSUME Queue(ws, drained), Tidy(ws), StoreNext
  PROVE  Queue(ws', drained') /\ running /\ running'
<1> USE DEF Call
<1>0. Shaped(ws)  BY DEF Queue
<1> DEFINE Kept == Keeps(ws, ws') /\ UNCHANGED <<running, drained>> /\ running
<1>1. CASE LoadFile
  <2>1. PICK f \in Files : Call(LoadFromFile(ws, f))  BY <1>1 DEF LoadFile
  <2>2. ws' = LoadFromFile(ws, f)  BY <2>1
  <2>3. Kept  BY <2>1, <2>2, LoaderLoads DEF Loads
  <2>4. QED BY <2>3, KeepsQueue
<1>2. CASE Function
  <2>1. QED BY <1>2, AddFunctionQueues DEF Function
<1>3. CASE Rename
  <2>1. Kept  BY <1>0, <1>3 DEF Rename, SetFunctionName, AddSymbol, Keeps, Shaped
  <2>2. QED BY <2>1, KeepsQueue
<1>4. CASE Locate \/ Block \/ Refer \/ Comment \/ Meta \/ NoReturn
  <2>1. Kept
    BY <1>0, <1>4 DEF Locate, Block, Refer, Comment, Meta, NoReturn, AddLocation,
                      AddCodeblock, AddXref, Keeps, Shaped
  <2>2. QED BY <2>1, KeepsQueue
<1>5. CASE Sets
  <2>1. Kept  BY <1>0, <1>5 DEF Sets, AddVaSet, SetVaSetRow, DelVaSet, Keeps, Shaped
  <2>2. QED BY <2>1, KeepsQueue
<1>6. CASE Map \/ Poke
  <2>1. Kept  BY <1>0, <1>6 DEF Map, Poke, AddMemoryRegion, WriteMemory, Keeps, Shaped
  <2>2. QED BY <2>1, KeepsQueue
<1>7. CASE Enter \/ Architecture \/ Record
  <2>1. Kept  BY <1>0, <1>7 DEF Enter, AddEntryPoint, Architecture, Record, Keeps, Shaped
  <2>2. QED BY <2>1, KeepsQueue
<1>8. CASE Drain
  <2>1. /\ drained' = drained \cup Elements(ws.pending) /\ UNCHANGED running /\ running
        /\ DOMAIN ws' = DOMAIN ws /\ ws'.functions = ws.functions
        /\ ws'.order = ws.order /\ ws'.pending = <<>>
    BY <1>0, <1>8 DEF Drain, Elements, Shaped
  <2>2. <<>> \in Seq(VA) /\ DOMAIN <<>> = {}  OBVIOUS
  <2>3. IsInjective(<<>>) /\ Elements(<<>>) = {}  BY <2>2 DEF IsInjective, Elements
  <2>4. QED BY <2>1, <2>2, <2>3 DEF Queue, Ordered, Shaped
<1>9. QED BY <1>1, <1>2, <1>3, <1>4, <1>5, <1>6, <1>7, <1>8 DEF StoreNext

LEMMA QueueStep ==
  ASSUME QueueInvariant, Tidy(ws), [Next]_vars PROVE QueueInvariant'
<1> USE DEF QueueInvariant
<1>1. CASE Edit
  <2>1. StoreNext /\ UNCHANGED file  BY <1>1 DEF Edit
  <2>2. QED BY <2>1, EditQueues
<1>2. CASE SaveBegin
  BY <1>2, NothingQueued DEF SaveBegin
<1>3. CASE SaveEnd
  <2>1. file'.data.order = ws.order /\ file'.data.functions = ws.functions
    BY <1>3 DEF SaveEnd, Data
  <2>2. Ordered(file'.data)  BY <2>1 DEF Queue, Ordered
  <2>3. QED BY <1>3, <2>2 DEF SaveEnd
<1>4. CASE SaveCut
  BY <1>4 DEF SaveCut
<1>5. CASE Crash
  BY <1>5, NothingQueued DEF Crash
<1>6. CASE New
  BY <1>6 DEF New, Start
<1>7. CASE Restore
  <2>1. drained = {} /\ UNCHANGED <<drained, file>> /\ running'
    BY <1>7 DEF Restore, Start
  <2>2. PICK names : ws' = Restored(file.data, names)
    BY <1>7 DEF Restore
  <2>3. /\ Shaped(ws') /\ ws'.functions = file.data.functions
        /\ ws'.order = file.data.order /\ ws'.pending = file.data.order
    BY <2>2 DEF Restored, Shaped
  <2>4. Queue(ws', {})  BY <2>3 DEF Queue, Ordered
  <2>5. QED BY <2>1, <2>4
<1>8. CASE UNCHANGED vars
  BY <1>8 DEF vars
<1>9. QED BY <1>1, <1>2, <1>3, <1>4, <1>5, <1>6, <1>7, <1>8 DEF Next, Done

---------------------------------------------------------------------------
(* The tables keep their types, in memory and in the file, and what each   *)
(* call does to memory and to the generation.                              *)

TableInvariant == Tidy(ws) /\ Tables(file.data) /\ Tables(lastSaved)

LEMMA TableOfOne ==
  ASSUME NEW t, IsTable(t), NEW va \in Addrs, NEW x PROVE IsTable(Put(t, va, x))
BY DEF IsTable, Put

LEMMA FreshTidy == Tidy(Fresh) /\ Tables(Data(Fresh))
<1>1. DOMAIN Nothing = {} /\ Nothing = [x \in DOMAIN Nothing |-> Nothing[x]]  BY DEF Nothing
<1>2. IsImage(Nothing) /\ IsTable(Nothing)  BY <1>1 DEF IsImage, IsTable
<1>3. \A S : <<>> \in Seq(S)  OBVIOUS
<1>4. /\ Shaped(Fresh) /\ Fresh.regions = Nothing /\ Fresh.locations = Nothing
      /\ Fresh.codeblocks = Nothing /\ Fresh.segments = <<>> /\ Fresh.files = <<>>
      /\ Fresh.entryPoints = <<>> /\ Fresh.generation = 0
  BY DEF Fresh, Shaped
<1>5. Tables(Fresh)  BY <1>2, <1>3, <1>4 DEF Tables
<1>6. QED BY <1>4, <1>5 DEF Tidy, Tables, Data

\* What a call does to the memory.
Touches(m, n) == Fills(m, n) \/ SameCells(m, n)

LEMMA EditTidy ==
  ASSUME Tidy(ws), StoreNext
  PROVE  Tidy(ws') /\ Guarded(ws, ws') /\ Touches(ws.regions, ws'.regions)
<1> USE DEF Call
<1> DEFINE Fine == Tidy(ws') /\ Guarded(ws, ws') /\ Touches(ws.regions, ws'.regions)
           Rest == /\ DOMAIN ws' = DOMAIN ws /\ DOMAIN ws'.functions = DOMAIN ws.functions
                   /\ ws'.segments = ws.segments /\ ws'.files = ws.files
                   /\ ws'.entryPoints = ws.entryPoints
           Unmoved == Rest /\ ws'.regions = ws.regions /\ ws'.locations = ws.locations
                       /\ ws'.codeblocks = ws.codeblocks
<1>0. Shaped(ws) /\ ws.generation \in Nat  BY DEF Tidy
<1>1. CASE LoadFile
  <2>1. PICK f \in Files : Call(LoadFromFile(ws, f))  BY <1>1 DEF LoadFile
  <2>2. ws' = LoadFromFile(ws, f)  BY <2>1
  <2>3. QED BY <2>2, LoaderLoads DEF Loads, Touches
<1>2. ASSUME Unmoved, ws'.generation = ws.generation PROVE Fine
  BY <1>0, <1>2 DEF Tidy, Tables, Shaped, Guarded, Cached, Touches, Fills
<1>3. CASE Function
  <2>1. PICK va \in VA, n \in {NoName} : ws' = AddFunction(ws, va, n)  BY <1>3 DEF Function
  <2>2. /\ DOMAIN ws' = DOMAIN ws /\ ws'.segments = ws.segments /\ ws'.files = ws.files
        /\ ws'.entryPoints = ws.entryPoints /\ ws'.regions = ws.regions
        /\ ws'.locations = ws.locations /\ ws'.codeblocks = ws.codeblocks
        /\ ws' = ws \/ ws'.generation = ws.generation + 1
    BY <1>0, <2>1 DEF AddFunction, Shaped
  <2>3. QED BY <1>0, <2>2 DEF Tidy, Tables, Shaped, Guarded, Cached, Touches, Fills
<1>4. CASE Rename
  <2>1. PICK va \in VA, n \in Labels :
          ws' = SetFunctionName(ws, va, n) \/ ws' = AddSymbol(ws, va, n)
    BY <1>4 DEF Rename
  <2> DEFINE named == [ws EXCEPT !.functions[va] = n]
             Alike(u) == /\ DOMAIN u = DOMAIN ws /\ DOMAIN u.functions = DOMAIN ws.functions
                         /\ u.segments = ws.segments /\ u.files = ws.files
                         /\ u.entryPoints = ws.entryPoints /\ u.regions = ws.regions
                         /\ u.locations = ws.locations /\ u.codeblocks = ws.codeblocks
                         /\ u.generation = ws.generation
  <2>2. Alike(ws) /\ Alike(named)  BY <1>0 DEF Shaped
  <2>3. ASSUME NEW u, Alike(u) PROVE Alike(AddSymbol(u, va, n))
    <3> HIDE DEF named
    <3>1. QED BY <1>0, <2>3 DEF AddSymbol, Shaped
  <2>4. \E u \in {ws, named} : ws' = AddSymbol(u, va, n)  BY <2>1 DEF SetFunctionName
  <2>5. Alike(ws')
    <3> HIDE DEF named, Alike
    <3>1. QED BY <2>2, <2>3, <2>4
  <2>6. QED BY <2>5, <1>2
<1>5. CASE Refer \/ Comment \/ Meta \/ NoReturn
  <2>1. Unmoved /\ ws'.generation = ws.generation
    BY <1>0, <1>5 DEF Refer, Comment, Meta, NoReturn, AddXref, Shaped
  <2>2. QED BY <2>1, <1>2
<1>6. CASE Sets
  <2>1. Unmoved /\ ws'.generation = ws.generation
    BY <1>0, <1>6 DEF Sets, AddVaSet, SetVaSetRow, DelVaSet, Shaped
  <2>2. QED BY <2>1, <1>2
<1>7. CASE Locate
  <2>1. PICK va \in Marks, s \in Sizes : ws' = AddLocation(ws, va, s, "Op")  BY <1>7 DEF Locate
  <2>2. /\ Rest /\ ws'.regions = ws.regions /\ ws'.codeblocks = ws.codeblocks
        /\ ws'.locations = Put(ws.locations, va, [size |-> s, type |-> "Op"])
        /\ ws'.generation = ws.generation + 1
    BY <1>0, <2>1 DEF AddLocation, Shaped
  <2>3. IsTable(ws'.locations)  BY <2>2, TableOfOne, WorkspaceAssumption DEF Tidy, Tables
  <2>4. QED BY <1>0, <2>2, <2>3 DEF Tidy, Tables, Shaped, Guarded, Cached, Touches, Fills
<1>8. CASE Block
  <2>1. PICK va \in VA, func \in Marks, s \in Sizes : ws' = AddCodeblock(ws, va, s, func)
    BY <1>8 DEF Block
  <2>2. /\ Rest /\ ws'.regions = ws.regions /\ ws'.locations = ws.locations
        /\ ws'.codeblocks = Put(ws.codeblocks, va, [size |-> s, func |-> func])
        /\ ws'.generation = ws.generation + 1
    BY <1>0, <2>1 DEF AddCodeblock, Shaped
  <2>3. IsTable(ws'.codeblocks)  BY <2>2, TableOfOne, WorkspaceAssumption DEF Tidy, Tables
  <2>4. QED BY <1>0, <2>2, <2>3 DEF Tidy, Tables, Shaped, Guarded, Cached, Touches, Fills
<1>9. CASE Map
  <2>1. PICK x \in Maps : ws' = AddMemoryRegion(ws, x[1], x[2], "RW")  BY <1>9 DEF Map
  <2>2. CASE ~CanMap(ws.regions, x[1], Len(x[2]))
    <3>1. ws' = ws  BY <2>1, <2>2 DEF AddMemoryRegion
    <3>2. QED BY <3>1, <1>2
  <2>3. CASE CanMap(ws.regions, x[1], Len(x[2]))
    <3>1. /\ Rest /\ ws'.locations = ws.locations /\ ws'.codeblocks = ws.codeblocks
          /\ ws'.regions = MapVerbatim(ws.regions, x[1], x[2], "RW")
          /\ ws'.generation = ws.generation + 1
      BY <1>0, <2>1, <2>3 DEF AddMemoryRegion, Shaped
    <3>2. IsImage(ws'.regions) /\ Fills(ws.regions, ws'.regions)
      BY <3>1, MappingFills, WorkspaceAssumption DEF Tidy, Tables
    <3>3. QED BY <1>0, <3>1, <3>2 DEF Tidy, Tables, Shaped, Guarded, Cached, Touches
  <2>4. QED BY <2>2, <2>3
<1>10. CASE Poke
  <2>1. PICK a \in VA, n \in 1 .. 2, b \in Bytes :
          ws' = WriteMemory(ws, a, [i \in 1 .. n |-> b])
    BY <1>10 DEF Poke
  <2> DEFINE bytes == [i \in 1 .. n |-> b]
  <2>2. Len(bytes) \in Nat /\ \A i \in 1 .. Len(bytes) : bytes[i] \in Bytes  OBVIOUS
  <2> HIDE DEF bytes
  <2>3. CASE ~InOneRegion(ws.regions, a, Len(bytes))
    <3>1. ws' = ws  BY <2>1, <2>3 DEF WriteMemory, bytes
    <3>2. QED BY <3>1, <1>2
  <2>4. CASE InOneRegion(ws.regions, a, Len(bytes))
    <3>1. /\ Rest /\ ws'.locations = ws.locations /\ ws'.codeblocks = ws.codeblocks
          /\ ws'.regions = Written(ws.regions, a, bytes) /\ ws'.generation = ws.generation
      BY <1>0, <2>1, <2>4 DEF WriteMemory, Shaped, bytes
    <3>2. IsImage(ws'.regions) /\ SameCells(ws.regions, ws'.regions)
      BY <2>2, <2>4, <3>1, WritingMapsNothing, WorkspaceAssumption DEF Tidy, Tables, InOneRegion
    <3>3. QED BY <1>0, <3>1, <3>2 DEF Tidy, Tables, Shaped, Guarded, Cached, Touches
  <2>5. QED BY <2>3, <2>4
<1>11. CASE Enter
  <2>1. PICK va \in Marks : ws' = AddEntryPoint(ws, va)  BY <1>11 DEF Enter
  <2>2. CASE ws' = ws  BY <2>2, <1>2
  <2>3. CASE ws' # ws
    <3>1. /\ DOMAIN ws' = DOMAIN ws /\ ws'.functions = ws.functions
          /\ ws'.segments = ws.segments /\ ws'.files = ws.files
          /\ ws'.regions = ws.regions /\ ws'.locations = ws.locations
          /\ ws'.codeblocks = ws.codeblocks /\ ws'.generation = ws.generation + 1
          /\ ws'.entryPoints = Append(ws.entryPoints, va)
      BY <1>0, <2>1, <2>3 DEF AddEntryPoint, Shaped
    <3>2. ws'.entryPoints \in Seq(Addrs)  BY <3>1, WorkspaceAssumption DEF Tidy, Tables
    <3>3. QED BY <1>0, <3>1, <3>2 DEF Tidy, Tables, Shaped, Guarded, Cached, Touches, Fills
  <2>4. QED BY <2>2, <2>3
<1>12. CASE Architecture
  <2>1. Unmoved /\ ws'.generation = ws.generation + 1
    BY <1>0, <1>12 DEF Architecture, Shaped
  <2>2. QED BY <1>0, <2>1 DEF Tidy, Tables, Shaped, Guarded, Cached, Touches, Fills
<1>13. CASE Record
  <2> DEFINE Kept == /\ DOMAIN ws' = DOMAIN ws /\ ws'.functions = ws.functions
                     /\ ws'.entryPoints = ws.entryPoints
                     /\ ws'.regions = ws.regions /\ ws'.locations = ws.locations
                     /\ ws'.codeblocks = ws.codeblocks /\ ws'.generation = ws.generation + 1
  <2>1. Kept /\ ws'.segments \in Seq(Addrs) /\ ws'.files \in Seq(FileNames)
    <3>1. CASE \E va \in Marks : Call([ws EXCEPT !.segments = Append(@, va), !.generation = @ + 1])
      <4>1. PICK va \in Marks : ws' = [ws EXCEPT !.segments = Append(@, va), !.generation = @ + 1]
        BY <3>1
      <4>2. Kept /\ ws'.segments = Append(ws.segments, va) /\ ws'.files = ws.files
        BY <1>0, <4>1 DEF Shaped
      <4>3. QED BY <4>2, WorkspaceAssumption DEF Tidy, Tables
    <3>2. CASE \E v \in Values : Call([ws EXCEPT !.files = Append(@, v), !.generation = @ + 1])
      <4>1. PICK v \in Values : ws' = [ws EXCEPT !.files = Append(@, v), !.generation = @ + 1]
        BY <3>2
      <4>2. Kept /\ ws'.files = Append(ws.files, v) /\ ws'.segments = ws.segments
        BY <1>0, <4>1 DEF Shaped
      <4>3. QED BY <4>2 DEF Tidy, Tables, FileNames
    <3>3. QED BY <1>13, <3>1, <3>2 DEF Record
  <2>2. QED BY <1>0, <2>1 DEF Tidy, Tables, Shaped, Guarded, Cached, Touches, Fills
<1>14. CASE Drain
  <2>1. Unmoved /\ ws'.generation = ws.generation  BY <1>0, <1>14 DEF Drain, Shaped
  <2>2. QED BY <2>1, <1>2
<1>15. QED
  BY <1>1, <1>3, <1>4, <1>5, <1>6, <1>7, <1>8, <1>9, <1>10, <1>11, <1>12, <1>13, <1>14
  DEF StoreNext

LEMMA SubsetOfAddrsIsFinite ==
  ASSUME NEW S, S \subseteq Addrs PROVE Cardinality(S) \in Nat
<1>1. IsFiniteSet(Addrs)  BY FS_Interval, SpaceAssumption DEF Addrs
<1>2. IsFiniteSet(S)  BY <1>1, FS_Subset
<1>3. QED BY <1>2, FS_CardinalityType

\* What a restore makes of sound tables and an ordered list of functions.
LEMMA RestoredTidy ==
  ASSUME NEW d, Tables(d), Ordered(d), NEW names
  PROVE  Tidy(Restored(d, names)) /\ Restored(d, names).regions = d.regions
<1> DEFINE points == EnteredAll(<<>>, d.entryPoints)
           w == Restored(d, names)
<1>1. points \in Seq(Addrs)
  <2>1. Len(d.entryPoints) \in Nat /\ \A i \in 1 .. Len(d.entryPoints) : d.entryPoints[i] \in Addrs
    BY DEF Tables
  <2>2. <<>> \in Seq(Addrs)  OBVIOUS
  <2>3. QED BY <2>1, <2>2, EnteredType DEF EnteredAll
<1>2. /\ Shaped(w) /\ w.regions = d.regions /\ w.locations = d.locations
      /\ w.codeblocks = d.codeblocks /\ w.segments = d.segments /\ w.files = d.files
      /\ w.entryPoints = points
      /\ w.generation = 2 + Cardinality(DOMAIN d.regions) + Len(d.segments) + Len(d.files)
                           + Len(points) + Len(d.order) + Cardinality(DOMAIN d.locations)
                           + Cardinality(DOMAIN d.codeblocks)
  BY DEF Restored, Shaped
<1> HIDE DEF w, points
<1>3. /\ Cardinality(DOMAIN d.regions) \in Nat /\ Cardinality(DOMAIN d.locations) \in Nat
      /\ Cardinality(DOMAIN d.codeblocks) \in Nat
  BY SubsetOfAddrsIsFinite DEF Tables, IsImage, IsTable
<1>4. /\ Len(d.segments) \in Nat /\ Len(d.files) \in Nat /\ Len(points) \in Nat
      /\ Len(d.order) \in Nat
  BY <1>1 DEF Tables, Ordered
<1>5. w.generation \in Nat
  <2> DEFINE a == Cardinality(DOMAIN d.regions)
             b == Cardinality(DOMAIN d.locations)
             c == Cardinality(DOMAIN d.codeblocks)
             j == Len(d.segments)
             k == Len(d.files)
             l == Len(points)
             n == Len(d.order)
  <2>1. w.generation = 2 + a + j + k + l + n + b + c  BY <1>2
  <2>2. a \in Nat /\ b \in Nat /\ c \in Nat  BY <1>3
  <2>3. j \in Nat /\ k \in Nat  BY <1>4
  <2>4. l \in Nat BY <1>4
  <2>5. n \in Nat  BY <1>4
  <2> HIDE DEF a, b, c, j, k, l, n
  <2>6. QED BY <2>1, <2>2, <2>3, <2>4, <2>5
<1>6. Tables(w)  BY <1>1, <1>2 DEF Tables
<1>7. QED BY <1>2, <1>5, <1>6 DEF Tidy, w

LEMMA TableStep ==
  ASSUME TableInvariant, QueueInvariant, [Next]_vars PROVE TableInvariant'
<1> USE DEF TableInvariant
<1>1. CASE Edit
  <2>1. StoreNext /\ UNCHANGED <<file, lastSaved>>  BY <1>1 DEF Edit
  <2>2. QED BY <2>1, EditTidy
<1>2. CASE SaveBegin
  <2>1. ws' = ws /\ file'.data = Data(Fresh) /\ lastSaved' = Data(ws)  BY <1>2 DEF SaveBegin
  <2>2. Tables(lastSaved')  BY <2>1 DEF Tidy, Tables, Data
  <2>3. QED BY <2>1, <2>2, FreshTidy
<1>3. CASE SaveEnd
  <2>1. ws' = ws /\ file'.data = Data(ws) /\ lastSaved' = lastSaved  BY <1>3 DEF SaveEnd
  <2>2. Tables(file'.data)  BY <2>1 DEF Tidy, Tables, Data
  <2>3. QED BY <2>1, <2>2
<1>4. CASE SaveCut
  BY <1>4 DEF SaveCut
<1>5. CASE Crash
  BY <1>5, FreshTidy DEF Crash
<1>6. CASE New
  BY <1>6 DEF New
<1>7. CASE Restore
  <2>1. PICK names : ws' = Restored(file.data, names)  BY <1>7 DEF Restore
  <2>2. UNCHANGED <<file, lastSaved>>  BY <1>7 DEF Restore
  <2>3. QED BY <2>1, <2>2, RestoredTidy DEF QueueInvariant
<1>8. CASE UNCHANGED vars
  BY <1>8 DEF vars
<1>9. QED BY <1>1, <1>2, <1>3, <1>4, <1>5, <1>6, <1>7, <1>8 DEF Next, Done

LEMMA StoreInvariant == Spec => [](QueueInvariant /\ TableInvariant)
<1>1. Init => QueueInvariant /\ TableInvariant
  BY NothingQueued, FreshTidy DEF Init, StoreInit, QueueInvariant, TableInvariant
<1>2. QueueInvariant /\ TableInvariant /\ [Next]_vars => QueueInvariant' /\ TableInvariant'
  BY QueueStep, TableStep DEF TableInvariant
<1>3. QED BY <1>1, <1>2, PTL DEF Spec

(* Whatever mixture of loading, creating, draining, saving and restoring:   *)
(* each function was drained once or is pending once.                      *)
THEOREM NoneLost == Spec => []NoFunctionLost
<1>1. QueueInvariant => NoFunctionLost
  BY DEF QueueInvariant, Queue, Elements, NoFunctionLost
<1>2. QED BY <1>1, StoreInvariant, PTL

(* While a workspace lives its generation does not go back, and functions, *)
(* locations and code blocks change only together with it: a cache that is *)
(* validated with the generation is not stale for these three.             *)
THEOREM CachesGuarded == Spec => GenerationGuards
<1>1. TableInvariant /\ [Next]_vars
      => [running /\ running' =>
            /\ ws'.generation >= ws.generation
            /\ ws'.generation = ws.generation => Cached(ws') = Cached(ws)]_storeVars
  <2> SUFFICES ASSUME TableInvariant, Next, running, running' PROVE Guarded(ws, ws')
    BY DEF Guarded, vars, storeVars
  <2>1. CASE Edit
    <3>1. StoreNext  BY <2>1 DEF Edit
    <3>2. QED BY <3>1, EditTidy DEF TableInvariant
  <2>2. CASE ws' = ws
    BY <2>2 DEF TableInvariant, Tidy, Guarded
  <2>3. QED
    BY <2>1, <2>2 DEF Next, SaveBegin, SaveEnd, SaveCut, Crash, New, Restore, Start, Done, vars
<1>2. QED BY <1>1, StoreInvariant, PTL DEF Spec, GenerationGuards

---------------------------------------------------------------------------
(* The file: a whole one holds what the last save was given.               *)

FileInvariant ==
  /\ \E w : lastSaved = Data(w)
  /\ saving => running /\ lastSaved = Data(ws)
  /\ file.state = "whole" => file.data = lastSaved
  /\ running \/ ws = Fresh

LEMMA EditRuns ==
  ASSUME StoreNext PROVE running /\ running'
<1>1. ASSUME NEW w, Call(w) PROVE running /\ running'  BY <1>1 DEF Call
<1>2. CASE LoadFile \/ Function \/ Rename \/ Locate \/ Block \/ Refer
  BY <1>1, <1>2 DEF LoadFile, Function, Rename, Locate, Block, Refer
<1>3. CASE Comment \/ Meta \/ NoReturn
  BY <1>1, <1>3, Zenon DEF Comment, Meta, NoReturn
<1>4. CASE Sets \/ Map \/ Poke \/ Enter
  BY <1>1, <1>4, Zenon DEF Sets, Map, Poke, Enter
<1>5. CASE Architecture \/ Record
  BY <1>1, <1>5, Zenon DEF Architecture, Record
<1>6. CASE Drain  BY <1>6 DEF Drain
<1>7. QED BY <1>2, <1>3, <1>4, <1>5, <1>6 DEF StoreNext

LEMMA FileStep ==
  ASSUME FileInvariant, [Next]_vars PROVE FileInvariant'
<1> USE DEF FileInvariant
<1>1. CASE Edit
  <2>1. /\ ~saving /\ running' /\ UNCHANGED <<file, saving, lastSaved>>
    BY <1>1, EditRuns DEF Edit
  <2>2. QED BY <2>1
<1>2. CASE SaveBegin
  BY <1>2 DEF SaveBegin
<1>3. CASE SaveEnd
  BY <1>3 DEF SaveEnd
<1>4. CASE SaveCut
  BY <1>4 DEF SaveCut
<1>5. CASE Crash
  BY <1>5 DEF Crash
<1>6. CASE New
  BY <1>6 DEF New, Start
<1>7. CASE Restore
  <2>1. /\ ~saving /\ running' /\ UNCHANGED <<file, saving, lastSaved>>
    BY <1>7 DEF Restore, Start
  <2>2. QED BY <2>1
<1>8. CASE UNCHANGED vars
  BY <1>8 DEF vars
<1>9. QED BY <1>1, <1>2, <1>3, <1>4, <1>5, <1>6, <1>7, <1>8 DEF Next, Done

\* A workspace restored from what w was saved as has w's digest, but for
\* repeated entry points.
LEMMA RestoredIsSame ==
  ASSUME NEW w, NEW names PROVE Same(Restored(Data(w), names), Data(w))
<1> DEFINE d == Data(w)
           v == Restored(d, names)
           e == [d EXCEPT !.entryPoints = EnteredAll(<<>>, @)]
<1>1. /\ v.arch = d.arch /\ v.big = d.big /\ v.regions = d.regions /\ v.segments = d.segments
      /\ v.files = d.files /\ v.functions = d.functions /\ v.locations = d.locations
      /\ v.codeblocks = d.codeblocks /\ v.byAddress = d.symbols /\ v.xrefs = d.xrefs
      /\ v.comments = d.comments /\ v.meta = d.meta /\ v.noreturn = d.noreturn
      /\ v.vaSets = d.vaSets /\ v.entryPoints = EnteredAll(<<>>, d.entryPoints)
  BY DEF Restored
<1>2. /\ e.arch = d.arch /\ e.big = d.big /\ e.regions = d.regions /\ e.segments = d.segments
      /\ e.files = d.files /\ e.functions = d.functions /\ e.locations = d.locations
      /\ e.codeblocks = d.codeblocks /\ e.symbols = d.symbols /\ e.xrefs = d.xrefs
      /\ e.comments = d.comments /\ e.meta = d.meta /\ e.noreturn = d.noreturn
      /\ e.vaSets = d.vaSets /\ e.entryPoints = EnteredAll(<<>>, d.entryPoints)
  BY DEF Data
<1> HIDE DEF d, v, e
<1>3. Digest(v) = Hashed(e)
  BY <1>1, <1>2 DEF Digest, Hashed, Data
<1>4. QED BY <1>3 DEF Same, d, v, e

(* A process starts with an empty workspace or with exactly what the last  *)
(* save was given: no crash and no failed write brings anything else back. *)
THEOREM RestoreIsLastSave == Spec => RestoresLastSave
<1>1. Init => FileInvariant
  BY DEF Init, StoreInit, FileInvariant
<1>2. FileInvariant /\ [Next]_vars => FileInvariant'
  BY FileStep
<1>3. FileInvariant /\ [Next]_vars
      => [~running /\ running' => ws' = Fresh \/ Same(ws', lastSaved)]_vars
  <2> SUFFICES ASSUME FileInvariant, Next, ~running, running'
               PROVE  ws' = Fresh \/ Same(ws', lastSaved)
    OBVIOUS
  <2>1. New \/ Restore
    BY EditRuns DEF Next, Edit, SaveBegin, SaveEnd, SaveCut, Crash, Done, vars, FileInvariant
  <2>2. CASE New
    BY <2>2 DEF New, FileInvariant
  <2>3. CASE Restore
    <3>1. PICK names : ws' = Restored(file.data, names)  BY <2>3 DEF Restore
    <3>2. PICK w : lastSaved = Data(w)  BY DEF FileInvariant
    <3>3. file.data = Data(w)  BY <2>3, <3>2 DEF Restore, Whole, FileInvariant
    <3>4. QED BY <3>1, <3>2, <3>3, RestoredIsSame
  <2>4. QED BY <2>1, <2>2, <2>3
<1>4. QED BY <1>1, <1>2, <1>3, PTL DEF Spec, RestoresLastSave

---------------------------------------------------------------------------
(* The memory of the workspace implements the flat memory.                 *)

LEMMA CellsType ==
  ASSUME NEW m, IsImage(m) PROVE CellsOf(m) \in [Addrs -> Bytes \cup {None}]
<1>1. ASSUME NEW a \in Addrs PROVE CellsOf(m)[a] \in Bytes \cup {None}
  BY Cells
<1>2. CellsOf(m) = [a \in Addrs |-> CellsOf(m)[a]]  BY DEF CellsOf
<1>3. QED BY <1>1, <1>2

LEMMA NothingIsBlank == CellsOf(Nothing) = Flat!Blank
<1>1. IsImage(Nothing) /\ DOMAIN Nothing = {}
  BY FreshTidy DEF Tidy, Tables, Fresh, Nothing
<1>2. \A a \in Addrs : CellsOf(Nothing)[a] = None  BY <1>1, Cells DEF Covers
<1>3. CellsOf(Nothing) = [a \in Addrs |-> CellsOf(Nothing)[a]]  BY DEF CellsOf
<1>4. QED BY <1>2, <1>3 DEF Flat!Blank

LEMMA FlatStep ==
  ASSUME TableInvariant, TableInvariant', FileInvariant, [Next]_vars
  PROVE  [Flat!Next]_Flat!vars
<1> DEFINE cells == CellsOf(ws.regions)
           kept == CellsOf(lastSaved.regions)
<1>0. IsImage(ws.regions) /\ IsImage(ws'.regions)  BY DEF TableInvariant, Tidy, Tables
<1>1. CASE Edit
  <2>1. Touches(ws.regions, ws'.regions) /\ kept' = kept
    BY <1>1, EditTidy DEF Edit, TableInvariant
  <2>2. cells' \in Flat!Images  BY <1>0, CellsType DEF Flat!Images
  <2>3. CASE Fills(ws.regions, ws'.regions)
    <3>1. Flat!Map  BY <2>1, <2>2, <2>3 DEF Flat!Map, Flat!Used, Fills
    <3>2. QED BY <3>1 DEF Flat!Next
  <2>4. CASE SameCells(ws.regions, ws'.regions)
    <3>1. Flat!Write  BY <2>1, <2>2, <2>4 DEF Flat!Write, Flat!Used, SameCells
    <3>2. QED BY <3>1 DEF Flat!Next
  <2>5. QED BY <2>1, <2>3, <2>4 DEF Touches
<1>2. CASE SaveBegin
  <2>1. ws' = ws /\ lastSaved'.regions = ws.regions  BY <1>2 DEF SaveBegin, Data
  <2>2. Flat!Save  BY <2>1 DEF Flat!Save
  <2>3. QED BY <2>2 DEF Flat!Next
<1>3. CASE SaveEnd \/ SaveCut \/ New \/ UNCHANGED vars
  <2>1. ws' = ws /\ lastSaved' = lastSaved  BY <1>3 DEF SaveEnd, SaveCut, New, vars
  <2>2. QED BY <2>1 DEF Flat!vars
<1>4. CASE Crash
  <2>1. ws'.regions = Nothing /\ lastSaved' = lastSaved  BY <1>4 DEF Crash, Fresh
  <2>2. Flat!Discard  BY <2>1, NothingIsBlank DEF Flat!Discard
  <2>3. QED BY <2>2 DEF Flat!Next
<1>5. CASE Restore
  <2>1. ws.regions = Nothing  BY <1>5 DEF Restore, Start, FileInvariant, Fresh
  <2>2. file.data = lastSaved /\ lastSaved' = lastSaved
    BY <1>5 DEF Restore, Whole, FileInvariant
  <2>3. ws'.regions = lastSaved.regions  BY <1>5, <2>2 DEF Restore, Restored
  <2>4. Flat!Recover  BY <2>1, <2>2, <2>3, NothingIsBlank DEF Flat!Recover
  <2>5. QED BY <2>4 DEF Flat!Next
<1>6. QED BY <1>1, <1>2, <1>3, <1>4, <1>5 DEF Next, Done

(* Refinement: every mapping, write, save, crash and restore of the        *)
(* workspace's regions is a step of the flat memory or a stutter: nothing  *)
(* is hidden, nothing else changes, and what comes back was saved last.    *)
THEOREM MemoryRefined == Spec => MemorySpec
<1>1. Init => Flat!Init
  BY NothingIsBlank DEF Init, StoreInit, Fresh, Data, Flat!Init
<1>2. TableInvariant /\ TableInvariant' /\ FileInvariant /\ [Next]_vars => [Flat!Next]_Flat!vars
  BY FlatStep
<1>3. Spec => []FileInvariant
  <2>1. Init => FileInvariant  BY DEF Init, StoreInit, FileInvariant
  <2>2. FileInvariant /\ [Next]_vars => FileInvariant'  BY FileStep
  <2>3. QED BY <2>1, <2>2, PTL DEF Spec
<1>4. QED BY <1>1, <1>2, <1>3, StoreInvariant, PTL DEF Spec, MemorySpec, Flat!Spec
===========================================================================
