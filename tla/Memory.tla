------------------------------- MODULE Memory -------------------------------
(***************************************************************************)
(* The mapped memory of envi/memory.rs and abstractions/memory.rs: a map m *)
(* from base addresses to regions, each with its bytes and permissions.    *)
(* Addresses are 0 .. Space - 1 and their sums wrap, as in a release build *)
(* (a debug build panics instead, see README).                             *)
(***************************************************************************)
EXTENDS Integers, Sequences, FiniteSets

CONSTANTS
  Space,  \* the number of addresses: 2^64 in the code
  None    \* no region

ASSUME SpaceAssumption == Space \in Nat \ {0}

Addrs == 0 .. Space - 1

Put(f, k, v) == [x \in DOMAIN f \cup {k} |-> IF x = k THEN v ELSE f[x]]

End(m, b) == (b + Len(m[b].data)) % Space
Within(m, b, a) == a >= b /\ a < End(m, b)

\* Mutant: a region that starts inside another is let through.
OverlapsFromBelow(m, b, base, size) == base <= b /\ b < (base + size) % Space

\* MemoryRegion::overlaps: does [base, base + size) meet the region at b?
Overlaps(m, b, base, size) ==
  ~((base + size) % Space <= b \/ base >= End(m, b))

\* find_region: only the region with the nearest base at or below is asked.
RegionAt(m, a) ==
  LET below == {b \in DOMAIN m : b <= a}
      nearest == CHOOSE b \in below : \A c \in below : c <= b
  IN  IF below # {} /\ Within(m, nearest, a) THEN nearest ELSE None

IsMapped(m, a) == RegionAt(m, a) # None

\* read and write are all or nothing, within one region.
InOneRegion(m, a, size) ==
  /\ IsMapped(m, a)
  /\ a - RegionAt(m, a) + size <= Len(m[RegionAt(m, a)].data)

Written(m, a, bytes) ==
  LET b == RegionAt(m, a)
      at == a - b
  IN  [m EXCEPT ![b].data =
         [i \in DOMAIN @ |-> IF i - at \in 1 .. Len(bytes) THEN bytes[i - at] ELSE @[i]]]

\* A mapping that overlaps is an error and leaves the image as it is.
CanMap(m, base, size) == \A b \in DOMAIN m : ~Overlaps(m, b, base, size)
Region(data, perms) == [data |-> data, perms |-> perms]
MapVerbatim(m, base, data, perms) ==
  IF CanMap(m, base, Len(data)) THEN Put(m, base, Region(data, perms)) ELSE m

\* normalize_mapped_image: the bytes of the file that exist, then zeroes.
Normalized(source, offset, raw, size) ==
  [i \in 1 .. size |->
     IF i <= raw /\ offset + i <= Len(source) THEN source[offset + i] ELSE 0]

MapNormalized(m, source, s) ==
  IF s.size = 0 THEN m
  ELSE MapVerbatim(m, s.va, Normalized(source, s.offset, s.raw, s.size), s.perms)

RemoveMap(m, b) == [x \in DOMAIN m \ {b} |-> m[x]]

\* snapshot_memory and restore_memory: the regions, in the order of their bases.
SnapshotMemory(m) == {[base |-> b, region |-> m[b]] : b \in DOMAIN m}

\* Mutant: regions mapped since the snapshot stay.
RestoreMemoryOver(m, snapshot) ==
  [b \in DOMAIN m \cup {s.base : s \in snapshot} |->
     IF \E s \in snapshot : s.base = b THEN (CHOOSE s \in snapshot : s.base = b).region ELSE m[b]]

RestoreMemory(m, snapshot) ==
  [b \in {s.base : s \in snapshot} |-> (CHOOSE s \in snapshot : s.base = b).region]

\* The byte read_memory(a, 1) returns, if any.
Byte(m, a) == m[RegionAt(m, a)].data[a - RegionAt(m, a) + 1]
=============================================================================
