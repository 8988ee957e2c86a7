--------------------------- MODULE CodeFlowProofs ---------------------------
(***************************************************************************)
(* Theorems about CodeFlow, and about Blocks and the queries of its        *)
(* blocks, the composition of code flow with the analysis of basic blocks: *)
(* for any set of programs, any entry points, any caps, any data and       *)
(* imports, any number of runs and functions.  Every fact about a step is  *)
(* a lemma, so that the modules which go on from here (NoReturnProofs) can *)
(* use it.                                                                 *)
(***************************************************************************)
EXTENDS CodeQueries, FiniteSetTheorems, SequenceTheorems, WellFoundedInduction, TLAPS

LEMMA ElementsOfConcat ==
  ASSUME NEW S, NEW s \in Seq(S), NEW t \in Seq(S)
  PROVE  /\ s \o t \in Seq(S)
         /\ Elements(s \o t) = Elements(s) \cup Elements(t)
<1>1. s \o t \in Seq(S) /\ Len(s \o t) = Len(s) + Len(t)  OBVIOUS
<1>2. \A i \in 1 .. Len(s) : (s \o t)[i] = s[i]  OBVIOUS
<1>3. \A i \in 1 .. Len(t) : (s \o t)[Len(s) + i] = t[i]  OBVIOUS
<1>4. Elements(s \o t) \subseteq Elements(s) \cup Elements(t)
  <2> SUFFICES ASSUME NEW i \in 1 .. Len(s) + Len(t)
               PROVE  (s \o t)[i] \in Elements(s) \cup Elements(t)
    BY <1>1 DEF Elements
  <2>1. CASE i <= Len(s)  BY <2>1, <1>2 DEF Elements
  <2>2. CASE i > Len(s)
    <3>1. i - Len(s) \in 1 .. Len(t) /\ i = Len(s) + (i - Len(s))  BY <2>2
    <3>2. (s \o t)[i] = t[i - Len(s)]  BY <3>1, <1>3
    <3>3. QED BY <3>1, <3>2 DEF Elements
  <2>3. QED BY <2>1, <2>2
<1>5. Elements(s) \subseteq Elements(s \o t)  BY <1>1, <1>2 DEF Elements
<1>6. Elements(t) \subseteq Elements(s \o t)
  <2> SUFFICES ASSUME NEW i \in 1 .. Len(t) PROVE t[i] \in Elements(s \o t)
    BY DEF Elements
  <2>1. Len(s) + i \in 1 .. Len(s \o t)  BY <1>1
  <2>2. QED BY <2>1, <1>1, <1>3 DEF Elements
<1>7. QED BY <1>1, <1>4, <1>5, <1>6

LEMMA ElementsOfTail ==
  ASSUME NEW S, NEW s \in Seq(S), s # <<>>
  PROVE  /\ Head(s) \in S /\ Tail(s) \in Seq(S)
         /\ Elements(s) = {Head(s)} \cup Elements(Tail(s))
<1>1. /\ Len(s) \in Nat \ {0} /\ Tail(s) \in Seq(S) /\ Len(Tail(s)) = Len(s) - 1
      /\ Head(s) = s[1] /\ s[1] \in S
      /\ \A i \in 1 .. Len(s) - 1 : Tail(s)[i] = s[i + 1]
  OBVIOUS
<1>2. Elements(s) \subseteq {Head(s)} \cup Elements(Tail(s))
  <2> SUFFICES ASSUME NEW i \in 1 .. Len(s), i # 1 PROVE s[i] \in Elements(Tail(s))
    BY <1>1 DEF Elements
  <2>1. i - 1 \in 1 .. Len(s) - 1 /\ i = (i - 1) + 1  BY <1>1
  <2>2. s[i] = Tail(s)[i - 1]  BY <2>1, <1>1
  <2>3. i - 1 \in DOMAIN Tail(s)  BY <2>1, <1>1
  <2>4. QED BY <2>2, <2>3 DEF Elements
<1>3. {Head(s)} \cup Elements(Tail(s)) \subseteq Elements(s)
  <2>1. 1 \in DOMAIN s /\ DOMAIN s = 1 .. Len(s)  BY <1>1
  <2>2. Head(s) \in Elements(s)  BY <2>1, <1>1 DEF Elements
  <2>3. ASSUME NEW i \in 1 .. Len(s) - 1 PROVE Tail(s)[i] \in Elements(s)
    <3>1. i + 1 \in DOMAIN s /\ Tail(s)[i] = s[i + 1]  BY <2>1, <1>1
    <3>2. QED BY <3>1 DEF Elements
  <2>4. QED BY <2>2, <2>3, <1>1 DEF Elements
<1>4. QED BY <1>1, <1>2, <1>3

----------------------------------------------------------------------------
(***************************************************************************)
(* Nth finds, in a finite set of naturals, an element that has exactly j   *)
(* elements of the set at or below it; and that is the only one.           *)
(***************************************************************************)
AtMost(S, k) == {l \in S : l <= k}

LEMMA AtMostFinite ==
  ASSUME NEW n \in Nat, NEW S, S \subseteq 1 .. n, NEW k
  PROVE  /\ IsFiniteSet(S) /\ Cardinality(S) \in Nat
         /\ IsFiniteSet(AtMost(S, k)) /\ Cardinality(AtMost(S, k)) \in Nat
         /\ Cardinality(AtMost(S, k)) <= Cardinality(S)
<1>1. IsFiniteSet(1 .. n)  BY FS_Interval
<1>2. IsFiniteSet(S)  BY <1>1, FS_Subset
<1>3. AtMost(S, k) \in SUBSET S  BY DEF AtMost
<1>4. QED BY <1>2, <1>3, FS_Subset, FS_CardinalityType

LEMMA RankStep ==
  ASSUME NEW n \in Nat, NEW S, S \subseteq 1 .. n, NEW k \in Nat
  PROVE  Cardinality(AtMost(S, k)) =
           Cardinality(AtMost(S, k - 1)) + (IF k \in S THEN 1 ELSE 0)
<1>1. \A l \in S : l \in Int /\ (l <= k <=> l <= k - 1 \/ l = k)  OBVIOUS
<1>2. /\ IsFiniteSet(AtMost(S, k - 1)) /\ Cardinality(AtMost(S, k - 1)) \in Nat
  BY AtMostFinite
<1>3. CASE k \in S
  <2>1. AtMost(S, k) = AtMost(S, k - 1) \cup {k}  BY <1>1, <1>3 DEF AtMost
  <2>2. k \notin AtMost(S, k - 1)  BY DEF AtMost
  <2>3. Cardinality(AtMost(S, k - 1) \cup {k}) = Cardinality(AtMost(S, k - 1)) + 1
    BY <2>2, <1>2, FS_AddElement
  <2>4. QED BY <1>3, <2>1, <2>3
<1>4. CASE k \notin S
  <2>1. AtMost(S, k) = AtMost(S, k - 1)  BY <1>1, <1>4 DEF AtMost
  <2>2. QED BY <1>2, <1>4, <2>1
<1>5. QED BY <1>3, <1>4

LEMMA NthExists ==
  ASSUME NEW n \in Nat, NEW S, S \subseteq 1 .. n, NEW j \in 1 .. Cardinality(S)
  PROVE  \E k \in S : Cardinality(AtMost(S, k)) = j
<1> DEFINE Card(k) == Cardinality(AtMost(S, k))
           B == {k \in Nat : Card(k) >= j}
<1>1. Cardinality(S) \in Nat /\ \A k : Card(k) \in Nat  BY AtMostFinite
<1>2. AtMost(S, n) = S
  <2>1. \A l \in S : l <= n  OBVIOUS
  <2>2. QED BY <2>1 DEF AtMost
<1>3. n \in B  BY <1>1, <1>2
<1>4. PICK k \in B : \A l \in B : ~(l < k)
  <2>1. \E x \in B : \A y \in B : <<y, x>> \notin OpToRel(<, Nat)
    <3>1. B \subseteq Nat  OBVIOUS
    <3> HIDE DEF B
    <3>2. QED BY <1>3, <3>1, NatLessThanWellFounded, WFMin
  <2>2. QED BY <2>1 DEF OpToRel
<1>5. Card(k - 1) < j
  <2>1. CASE k = 0
    <3>1. \A l \in S : ~(l <= k - 1)  BY <2>1
    <3>2. AtMost(S, k - 1) = {}  BY <3>1 DEF AtMost
    <3>3. QED BY <3>2, FS_EmptySet
  <2>2. CASE k # 0
    <3>1. k - 1 \in Nat /\ k - 1 < k  BY <2>2
    <3>2. k - 1 \notin B  BY <3>1, <1>4
    <3>3. Card(k - 1) \in Nat  BY <1>1
    <3>4. QED BY <3>1, <3>2, <3>3
  <2>3. QED BY <2>1, <2>2
<1>6. Card(k) = Card(k - 1) + (IF k \in S THEN 1 ELSE 0)  BY RankStep
<1>7. k \in S /\ Card(k) = j
  <2>1. Card(k) \in Nat /\ Card(k - 1) \in Nat /\ Card(k) >= j /\ j \in Nat
    BY <1>1, <1>4
  <2> HIDE DEF Card
  <2>2. QED BY <1>5, <1>6, <2>1
<1>8. QED BY <1>7

LEMMA NthUnique ==
  ASSUME NEW n \in Nat, NEW S, S \subseteq 1 .. n, NEW k \in S, NEW l \in S,
         Cardinality(AtMost(S, k)) = Cardinality(AtMost(S, l))
  PROVE  k = l
<1>1. SUFFICES ASSUME NEW a \in S, NEW b \in S, a < b
               PROVE  Cardinality(AtMost(S, a)) # Cardinality(AtMost(S, b))
  <2>1. k \in Int /\ l \in Int  OBVIOUS
  <2>2. k < l \/ l < k \/ k = l  BY <2>1
  <2>3. QED BY <2>2, <1>1
<1>2. \A x \in S : x <= a => x <= b
  <2>1. a \in Int /\ b \in Int /\ \A x \in S : x \in Int  OBVIOUS
  <2>2. QED BY <2>1, <1>1
<1>3. AtMost(S, a) \in SUBSET AtMost(S, b)  BY <1>2 DEF AtMost
<1>4. b \in AtMost(S, b) /\ b \notin AtMost(S, a)
  <2>1. a \in Int /\ b \in Int  OBVIOUS
  <2>2. QED BY <2>1, <1>1 DEF AtMost
<1>5. IsFiniteSet(AtMost(S, b))  BY AtMostFinite
<1>6. QED BY <1>3, <1>4, <1>5, FS_Subset

\* Outside keeps exactly the entries outside seen.
LEMMA ElementsOfOutside ==
  ASSUME NEW T, NEW q \in Seq(T), NEW seen
  PROVE  /\ Outside(q, seen) \in Seq(T)
         /\ Elements(Outside(q, seen)) = Elements(q) \ seen
<1> DEFINE kept == {k \in DOMAIN q : q[k] \notin seen}
<1>1. DOMAIN q = 1 .. Len(q) /\ Len(q) \in Nat  OBVIOUS
<1>2. kept \subseteq 1 .. Len(q)  BY <1>1
<1>3. Cardinality(kept) \in Nat  BY <1>1, <1>2, AtMostFinite
<1>4. \A k : AtMost(kept, k) = {l \in kept : l <= k}  BY DEF AtMost
<1> HIDE DEF kept
<1>5. ASSUME NEW j \in 1 .. Cardinality(kept)
      PROVE  Nth(kept, j) \in kept /\ Cardinality(AtMost(kept, Nth(kept, j))) = j
  <2>1. \E k \in kept : Cardinality(AtMost(kept, k)) = j  BY <1>1, <1>2, NthExists
  <2>2. QED BY <2>1 DEF Nth, AtMost
<1>6. ASSUME NEW k \in kept
      PROVE  \E j \in 1 .. Cardinality(kept) : Nth(kept, j) = k
  <2> DEFINE j == Cardinality(AtMost(kept, k))
  <2>1. /\ j \in Nat /\ j <= Cardinality(kept) /\ IsFiniteSet(AtMost(kept, k))
    BY <1>1, <1>2, AtMostFinite
  <2>2. k \in AtMost(kept, k)  BY <1>2 DEF AtMost
  <2>3. j # 0  BY <2>1, <2>2, FS_EmptySet
  <2>4. j \in 1 .. Cardinality(kept)  BY <2>1, <2>3, <1>3
  <2> HIDE DEF j
  <2>5. Nth(kept, j) \in kept /\ Cardinality(AtMost(kept, Nth(kept, j))) = j
    BY <1>5, <2>4
  <2>6. Nth(kept, j) = k  BY <2>5, <1>1, <1>2, NthUnique DEF j
  <2>7. QED BY <2>4, <2>6
<1>7. Outside(q, seen) = [j \in 1 .. Cardinality(kept) |-> q[Nth(kept, j)]]
  BY DEF Outside, kept
<1>8. \A j \in 1 .. Cardinality(kept) : q[Nth(kept, j)] \in T
  <2>1. \A i \in 1 .. Len(q) : q[i] \in T  OBVIOUS
  <2>2. \A k \in kept : q[k] \in T  BY <2>1, <1>2
  <2>3. QED BY <2>2, <1>5
<1>9. Outside(q, seen) \in Seq(T)  BY <1>3, <1>7, <1>8
<1>10. Elements(Outside(q, seen)) = {q[k] : k \in kept}
  BY <1>5, <1>6, <1>7 DEF Elements
<1>11. Elements(q) \ seen = {q[k] : k \in kept}  BY DEF Elements, kept
<1>12. QED BY <1>9, <1>10, <1>11

----------------------------------------------------------------------------
\* What decoding adds to the worklist and to the sets is made of addresses.
LEMMA InsnFacts ==
  ASSUME TypeOK, NEW va \in VA
  PROVE  /\ prog[va] \in Insn
         /\ Direct(prog[va]) \subseteq Named(prog[va]) /\ Named(prog[va]) \subseteq VA
         /\ Direct(prog[va]) \subseteq {prog[va].target}
         /\ prog[va].table \in Seq(VA) /\ Table(va) \in Seq(VA)
         /\ Elements(Table(va)) \subseteq VA
         /\ va + prog[va].size \in Nat
<1>1. prog \in [VA -> Insn] /\ VA \subseteq Nat
  BY CodeFlowAssumption, ProgramAssumption DEF TypeOK
<1>2. prog[va] \in Insn  BY <1>1
<1>3. /\ prog[va].target \in VA \cup {None} /\ prog[va].table \in Seq(VA)
      /\ prog[va].size \in Nat
  BY <1>2 DEF Insn
<1>4. Table(va) \in Seq(VA)  BY <1>3 DEF Table
<1>5. Elements(Table(va)) \subseteq VA
  <2>1. \A i \in DOMAIN Table(va) : Table(va)[i] \in VA  BY <1>4
  <2>2. QED BY <2>1 DEF Elements
<1>6. va + prog[va].size \in Nat  BY <1>1, <1>3
<1>7. QED BY <1>2, <1>3, <1>4, <1>5, <1>6 DEF Direct, Named

LEMMA QueuedFacts ==
  ASSUME TypeOK, NEW va \in VA, NEW seen \in SUBSET VA
  PROVE  /\ FallThrough(va, seen) \in Seq(VA)
         /\ Elements(FallThrough(va, seen)) =
              IF Falls(prog[va]) /\ ~Suppressed(prog[va])
              THEN {va + prog[va].size} \cap (Mapped \ seen) ELSE {}
         /\ Targets(va, seen) \in Seq(VA)
         /\ Elements(Targets(va, seen)) = Direct(prog[va]) \cap (Mapped \ seen)
         /\ Outside(Table(va), seen) \in Seq(VA)
         /\ Elements(Outside(Table(va), seen)) = Elements(Table(va)) \ seen
<1> DEFINE next == va + prog[va].size
           target == prog[va].target
<1>1. Mapped \subseteq VA  BY ProgramAssumption
<1>2. /\ Direct(prog[va]) \subseteq {target} /\ Direct(prog[va]) \subseteq VA
      /\ Table(va) \in Seq(VA)
  BY InsnFacts
<1>3. \A x : Elements(<<x>>) = {x} /\ Elements(<<x, x>>) = {x}
  BY DEF Elements
<1>4. Elements(<<>>) = {}  BY DEF Elements
<1>5. \A x \in VA : <<x>> \in Seq(VA) /\ <<x, x>> \in Seq(VA)  OBVIOUS
<1>6. FallThrough(va, seen) = IF Falls(prog[va]) /\ ~Suppressed(prog[va]) /\ next \in Mapped \ seen
                              THEN <<next>> ELSE <<>>
  BY DEF FallThrough
<1>7. Targets(va, seen) = IF Direct(prog[va]) \cap (Mapped \ seen) = {} THEN <<>>
                          ELSE IF prog[va].kind = "call" THEN <<target, target>>
                          ELSE <<target>>
  BY DEF Targets
<1> HIDE DEF next, target
<1>8. /\ FallThrough(va, seen) \in Seq(VA)
      /\ Elements(FallThrough(va, seen)) =
           IF Falls(prog[va]) /\ ~Suppressed(prog[va])
           THEN {next} \cap (Mapped \ seen) ELSE {}
  <2>1. CASE Falls(prog[va]) /\ ~Suppressed(prog[va]) /\ next \in Mapped \ seen
    BY <2>1, <1>1, <1>3, <1>5, <1>6
  <2>2. CASE ~(Falls(prog[va]) /\ ~Suppressed(prog[va]) /\ next \in Mapped \ seen)
    <3>1. FallThrough(va, seen) = <<>> /\ <<>> \in Seq(VA)  BY <2>2, <1>6
    <3>2. (IF Falls(prog[va]) /\ ~Suppressed(prog[va])
           THEN {next} \cap (Mapped \ seen) ELSE {}) = {}
      BY <2>2
    <3>3. QED BY <3>1, <3>2, <1>4
  <2>3. QED BY <2>1, <2>2
<1>9. /\ Targets(va, seen) \in Seq(VA)
      /\ Elements(Targets(va, seen)) = Direct(prog[va]) \cap (Mapped \ seen)
  <2>1. CASE Direct(prog[va]) \cap (Mapped \ seen) = {}
    BY <2>1, <1>4, <1>7
  <2>2. CASE Direct(prog[va]) \cap (Mapped \ seen) # {}
    <3>1. Direct(prog[va]) \cap (Mapped \ seen) = {target} /\ target \in VA
      BY <2>2, <1>2
    <3>2. QED BY <3>1, <1>3, <1>5, <1>7
  <2>3. QED BY <2>1, <2>2
<1>10. QED BY <1>2, <1>8, <1>9, ElementsOfOutside DEF next

\* The effect of Decode, with the worklist as a set.
DecodedAt(va) ==
  /\ va = Head(pending) /\ pending # <<>> /\ running
  /\ va \notin visited /\ prog[va].decodes /\ count < cap
  /\ visited' = visited \cup {va} /\ count' = count + 1
  /\ ops' = ops \cup {va}
  /\ xrefs' = xrefs \cup XRefs(va, Named(prog[va]) \cup Elements(Table(va)), "code")
                    \cup XRefs(va, DataRefs(prog[va]), "data")
  /\ procs' = procs \cup NewProcs(prog[va])
  /\ discovered' = discovered \cup NewProcs(prog[va])
  /\ blockStarts' = blockStarts \cup NewBlocks(va)
  /\ pending' \in Seq(VA)
  /\ Elements(pending) = {va} \cup Elements(Tail(pending))
  /\ Elements(pending') =
       Elements(FallThrough(va, visited')) \cup Elements(Tail(pending))
         \cup (Direct(prog[va]) \cap (Mapped \ visited'))
         \cup (Elements(Table(va)) \ visited')
  /\ UNCHANGED <<prog, functions, noreturn, running, cap, runs, entries, cut>>

LEMMA DecodeEffect ==
  ASSUME TypeOK, Decode
  PROVE  \E va \in VA : DecodedAt(va)
<1> DEFINE va == Head(pending)
           seen == visited \cup {va}
           tail == Tail(pending)
           ft == FallThrough(va, seen)
           tg == Targets(va, seen)
           tb == Outside(Table(va), seen)
<1>1. pending \in Seq(VA) /\ pending # <<>>  BY DEF TypeOK, Decode
<1>2. va \in VA /\ tail \in Seq(VA) /\ Elements(pending) = {va} \cup Elements(tail)
  BY <1>1, ElementsOfTail
<1>3. seen \in SUBSET VA /\ visited' = seen  BY <1>2 DEF TypeOK, Decode
<1>4. /\ ft \in Seq(VA) /\ tg \in Seq(VA) /\ tb \in Seq(VA)
      /\ Elements(tg) = Direct(prog[va]) \cap (Mapped \ seen)
      /\ Elements(tb) = Elements(Table(va)) \ seen
  BY <1>2, <1>3, QueuedFacts
<1>5. pending' = ft \o tail \o tg \o tb  BY DEF Decode
<1> HIDE DEF ft, tg, tb, tail
<1>6. /\ ft \o tail \in Seq(VA)
      /\ Elements(ft \o tail) = Elements(ft) \cup Elements(tail)
  BY <1>2, <1>4, ElementsOfConcat
<1>7. /\ ft \o tail \o tg \in Seq(VA)
      /\ Elements(ft \o tail \o tg) = Elements(ft) \cup Elements(tail) \cup Elements(tg)
  <2> DEFINE p == ft \o tail
  <2>1. p \in Seq(VA) /\ Elements(p) = Elements(ft) \cup Elements(tail)  BY <1>6
  <2> HIDE DEF p
  <2>2. p \o tg \in Seq(VA) /\ Elements(p \o tg) = Elements(p) \cup Elements(tg)
    BY <1>4, <2>1, ElementsOfConcat
  <2>3. QED BY <2>1, <2>2 DEF p
<1>8. /\ pending' \in Seq(VA)
      /\ Elements(pending') =
           Elements(ft) \cup Elements(tail) \cup Elements(tg) \cup Elements(tb)
  <2> DEFINE p == ft \o tail \o tg
  <2>1. p \in Seq(VA)  BY <1>7
  <2> HIDE DEF p
  <2>2. p \o tb \in Seq(VA) /\ Elements(p \o tb) = Elements(p) \cup Elements(tb)
    BY <1>4, <2>1, ElementsOfConcat
  <2>3. QED BY <1>5, <1>7, <2>2 DEF p
<1>9. QED
  <2>1. /\ running /\ va \notin visited /\ prog[va].decodes /\ count < cap
        /\ visited' = visited \cup {va} /\ count' = count + 1
        /\ ops' = ops \cup {va}
        /\ xrefs' = xrefs \cup XRefs(va, Named(prog[va]) \cup Elements(Table(va)), "code")
                          \cup XRefs(va, DataRefs(prog[va]), "data")
    BY DEF Decode, UnderCap
  <2>2. /\ procs' = procs \cup NewProcs(prog[va])
        /\ discovered' = discovered \cup NewProcs(prog[va])
        /\ blockStarts' = blockStarts \cup NewBlocks(va)
    BY DEF Decode
  <2>3. Elements(pending') =
          Elements(FallThrough(va, visited')) \cup Elements(Tail(pending))
            \cup (Direct(prog[va]) \cap (Mapped \ visited'))
            \cup (Elements(Table(va)) \ visited')
    BY <1>3, <1>4, <1>8 DEF ft, tail
  <2>4. UNCHANGED <<prog, functions, noreturn, running, cap, runs, entries, cut>>
    BY DEF Decode
  <2>5. DecodedAt(va)
    BY <1>1, <1>2, <1>8, <2>1, <2>2, <2>3, <2>4 DEF tail, DecodedAt
  <2>6. QED BY <1>2, <2>5

----------------------------------------------------------------------------
LEMMA TypeInit == Init => TypeOK
<1> SUFFICES ASSUME Init PROVE TypeOK  OBVIOUS
<1>1. Given \in SUBSET VA /\ 0 \in 0 .. MaxRuns  BY CodeFlowAssumption
<1>2. <<>> \in Seq(VA) /\ 0 <= 0  OBVIOUS
<1>3. \A S : {} \in SUBSET S  OBVIOUS
<1>4. QED BY <1>1, <1>2, <1>3 DEF Init, TypeOK

\* Every step of code flow keeps the types.
LEMMA TypeStep == TypeOK /\ [Next]_vars => TypeOK'
<1> SUFFICES ASSUME TypeOK, [Next]_vars PROVE TypeOK'  OBVIOUS
<1>0. /\ Mapped \subseteq VA /\ VA \subseteq Nat
      /\ Queues \subseteq Seq(VA) /\ Caps \subseteq Nat
      /\ NoReturns \subseteq VA /\ MaxRuns \in Nat
  BY CodeFlowAssumption, ProgramAssumption
<1>1. ASSUME Skip PROVE TypeOK'
  <2>1. Tail(pending) \in Seq(VA)
    BY <1>1, ElementsOfTail DEF Skip, TypeOK
  <2>2. QED BY <1>1, <2>1 DEF Skip, TypeOK, wsVars
<1>2. ASSUME Decode PROVE TypeOK'
  <2>1. PICK va \in VA : DecodedAt(va)  BY <1>2, DecodeEffect
  <2>2. /\ Named(prog[va]) \subseteq VA /\ Direct(prog[va]) \subseteq VA
        /\ Elements(Table(va)) \subseteq VA /\ va + prog[va].size \in Nat
    BY InsnFacts
  <2>3. DataRefs(prog[va]) \subseteq VA  BY <1>0 DEF DataRefs
  <2>4. \A S \in SUBSET VA : XRefs(va, S, "code") \subseteq XRef /\ XRefs(va, S, "data") \subseteq XRef
    BY DEF XRefs, XRef
  <2>5. xrefs' \subseteq XRef  BY <2>1, <2>2, <2>3, <2>4 DEF TypeOK, DecodedAt
  <2>6. NewProcs(prog[va]) \subseteq VA  BY <2>2 DEF NewProcs
  <2>7. NewBlocks(va) \subseteq Nat  BY <2>2, <1>0 DEF NewBlocks
  <2>8. count' \in Nat /\ count' <= cap  BY <2>1 DEF TypeOK, DecodedAt
  <2>9. QED BY <2>1, <2>5, <2>6, <2>7, <2>8 DEF TypeOK, DecodedAt
<1>3. ASSUME CapReached PROVE TypeOK'
  <2>1. <<>> \in Seq(VA)  OBVIOUS
  <2>2. QED BY <1>3, <2>1 DEF CapReached, TypeOK
<1>4. ASSUME WorklistEmpty PROVE TypeOK'
  BY <1>4 DEF WorklistEmpty, TypeOK
<1>5. ASSUME NEW q \in Queues, NEW max \in Caps, Begin(q, max) PROVE TypeOK'
  <2>1. q \in Seq(VA) /\ max \in Nat  BY <1>0
  <2>2. Elements(q) \subseteq VA
    <3>1. \A i \in DOMAIN q : q[i] \in VA  BY <2>1
    <3>2. QED BY <3>1 DEF Elements
  <2>3. Elements(q) \subseteq Nat  BY <2>2, <1>0
  <2>4. runs' \in 0 .. MaxRuns  BY <1>5, <1>0 DEF Begin, TypeOK
  <2>5. QED BY <1>5, <2>1, <2>2, <2>3, <2>4 DEF Begin, TypeOK, wsVars
<1>6. ASSUME NEW va \in NoReturns, MarkNoReturn(va) PROVE TypeOK'
  BY <1>0, <1>6 DEF MarkNoReturn, TypeOK, runVars
<1>7. ASSUME UNCHANGED vars PROVE TypeOK'
  BY <1>7 DEF vars, wsVars, runVars, TypeOK
<1>8. QED
  BY <1>1, <1>2, <1>3, <1>4, <1>5, <1>6, <1>7 DEF Next, Step, Finished

(***************************************************************************)
(* The state of the workspace and of the analyzer stays well typed; in     *)
(* particular no run decodes more than max_instructions.                   *)
(***************************************************************************)
THEOREM TypeCorrect == Spec => []TypeOK
<1>1. Init => TypeOK  BY TypeInit
<1>2. TypeOK /\ [Next]_vars => TypeOK'  BY TypeStep
<1>3. QED BY <1>1, <1>2, PTL DEF Spec

----------------------------------------------------------------------------
\* Every step of a run keeps to what control can reach.
LEMMA VisitedStep == TypeOK /\ VisitedReachable /\ [Next]_vars => VisitedReachable'
<1> SUFFICES ASSUME TypeOK, VisitedReachable, [Next]_vars, running',
                    NEW S \in SUBSET VA, Roots' \subseteq S, ClosedUnderFlow(S)'
             PROVE  (visited \cup Elements(pending))' \subseteq S
  BY DEF VisitedReachable
<1>1. ASSUME running, Roots' = Roots, prog' = prog, noreturn' = noreturn
      PROVE  visited \cup Elements(pending) \subseteq S
  <2>1. \A va : Flow(va)' = Flow(va)  BY <1>1 DEF Flow, NeverReturns
  <2>2. ClosedUnderFlow(S)  BY <2>1 DEF ClosedUnderFlow
  <2>3. QED BY <1>1, <2>2 DEF VisitedReachable
<1>2. ASSUME Skip PROVE (visited \cup Elements(pending))' \subseteq S
  <2>1. visited \cup Elements(pending) \subseteq S
    BY <1>1, <1>2 DEF Skip, Roots, wsVars
  <2>2. Elements(pending') \subseteq Elements(pending)
    BY <1>2, ElementsOfTail DEF Skip, TypeOK
  <2>3. QED BY <1>2, <2>1, <2>2 DEF Skip
<1>3. ASSUME Decode PROVE (visited \cup Elements(pending))' \subseteq S
  <2>1. PICK va \in VA : DecodedAt(va)  BY <1>3, DecodeEffect
  <2>2. Roots' = Roots  BY <2>1 DEF DecodedAt, Roots, NewProcs
  <2>3. visited \cup Elements(pending) \subseteq S  BY <1>1, <2>1, <2>2 DEF DecodedAt
  <2>4. va \in S  BY <2>1, <2>3 DEF DecodedAt
  <2>5. Flow(va) \subseteq S
    <3>1. Flow(va)' \subseteq S  BY <2>4 DEF ClosedUnderFlow
    <3>2. QED BY <2>1, <3>1 DEF Flow, NeverReturns, DecodedAt
  <2>6. Direct(prog[va]) \cap Mapped \subseteq Flow(va)  BY DEF Flow
  <2>7. Elements(Table(va)) \subseteq Flow(va)
    <3>1. Elements(<<>>) = {}  BY DEF Elements
    <3>2. QED BY <3>1 DEF Flow, Table
  <2>8. Elements(FallThrough(va, visited')) \subseteq Flow(va)
    <3>1. visited' \in SUBSET VA  BY <2>1 DEF DecodedAt, TypeOK
    <3>2. QED BY <3>1, QueuedFacts DEF Flow, Suppressed
  <2>9. QED BY <2>1, <2>3, <2>4, <2>5, <2>6, <2>7, <2>8 DEF DecodedAt
<1>4. ASSUME NEW q \in Queues, NEW max \in Caps, Begin(q, max)
      PROVE  (visited \cup Elements(pending))' \subseteq S
  BY <1>4 DEF Begin, Roots, Elements
<1>5. ASSUME UNCHANGED vars PROVE (visited \cup Elements(pending))' \subseteq S
  BY <1>1, <1>5 DEF vars, wsVars, runVars, Roots
<1>6. ~CapReached /\ ~WorklistEmpty /\ \A va \in NoReturns : ~MarkNoReturn(va)
  BY DEF CapReached, WorklistEmpty, MarkNoReturn, runVars
<1>7. QED BY <1>2, <1>3, <1>4, <1>5, <1>6 DEF Next, Step, Finished

(***************************************************************************)
(* Code flow takes nothing for code that control cannot reach from the     *)
(* entry points of the run.  VisitedReachable is inductive: what decoding  *)
(* adds to the worklist is in Flow, which does not change during a run,    *)
(* and a new function is discovered, so that the roots do not change.      *)
(***************************************************************************)
THEOREM OnlyReachableVisited == Spec => []VisitedReachable
<1>1. Init => VisitedReachable  BY DEF Init, VisitedReachable
<1>2. TypeOK /\ VisitedReachable /\ [Next]_vars => VisitedReachable'  BY VisitedStep
<1>3. QED BY <1>1, <1>2, TypeCorrect, PTL DEF Spec

----------------------------------------------------------------------------
(***************************************************************************)
(* While a run goes on, the targets of the calls it decoded may still wait *)
(* in discovered; and every procedure it knows was given or discovered.    *)
(***************************************************************************)
CallsKept ==
  /\ running => procs \subseteq entries \cup discovered
  /\ \A va \in ops :
       prog[va].kind = "call" =>
         Direct(prog[va]) \cap Mapped
           \subseteq functions \cup entries \cup (IF running THEN discovered ELSE {})

\* Every step of code flow keeps track of the call targets.
LEMMA CallsStep == TypeOK /\ CallsKept /\ [Next]_vars => CallsKept'
<1> SUFFICES ASSUME TypeOK, CallsKept, [Next]_vars PROVE CallsKept'  OBVIOUS
<1>1. ASSUME Skip PROVE CallsKept'
  BY <1>1 DEF Skip, CallsKept, wsVars
<1>2. ASSUME Decode PROVE CallsKept'
  <2>1. PICK va \in VA : DecodedAt(va)  BY <1>2, DecodeEffect
  <2>2. procs' \subseteq entries' \cup discovered'
    BY <2>1 DEF CallsKept, DecodedAt
  <2>3. ASSUME prog[va].kind = "call"
        PROVE  Direct(prog[va]) \cap Mapped \subseteq entries \cup discovered'
    BY <2>1, <2>3 DEF CallsKept, DecodedAt, NewProcs
  <2>4. ASSUME NEW w \in ops', prog[w].kind = "call"
        PROVE  Direct(prog[w]) \cap Mapped \subseteq functions \cup entries \cup discovered'
    <3>1. CASE w = va  BY <2>3, <2>4, <3>1
    <3>2. CASE w \in ops  BY <2>1, <2>4, <3>2 DEF CallsKept, DecodedAt
    <3>3. QED BY <2>1, <3>1, <3>2 DEF DecodedAt
  <2>5. QED BY <2>1, <2>2, <2>4 DEF CallsKept, DecodedAt
<1>3. ASSUME CapReached PROVE CallsKept'
  BY <1>3 DEF CapReached, CallsKept
<1>4. ASSUME WorklistEmpty PROVE CallsKept'
  BY <1>4 DEF WorklistEmpty, CallsKept
<1>5. ASSUME NEW q \in Queues, NEW max \in Caps, Begin(q, max) PROVE CallsKept'
  BY <1>5 DEF Begin, CallsKept, wsVars
<1>6. ASSUME NEW va \in NoReturns, MarkNoReturn(va) PROVE CallsKept'
  BY <1>6 DEF MarkNoReturn, CallsKept, runVars
<1>7. ASSUME UNCHANGED vars PROVE CallsKept'
  BY <1>7 DEF vars, wsVars, runVars, CallsKept
<1>8. QED
  BY <1>1, <1>2, <1>3, <1>4, <1>5, <1>6, <1>7 DEF Next, Step, Finished

(***************************************************************************)
(* Between runs, the target of every decoded direct call is a function or  *)
(* was an entry point, whether or not a run was cut short.                 *)
(***************************************************************************)
THEOREM CallTargetsFound == Spec => []CallTargetsAreFunctions
<1>1. Init => CallsKept  BY DEF Init, CallsKept
<1>2. TypeOK /\ CallsKept /\ [Next]_vars => CallsKept'  BY CallsStep
<1>3. CallsKept => CallTargetsAreFunctions
  BY DEF CallsKept, CallTargetsAreFunctions
<1>4. QED BY <1>1, <1>2, <1>3, TypeCorrect, PTL DEF Spec

----------------------------------------------------------------------------
(***************************************************************************)
(* In the middle of a run, control leaves the located code only for what   *)
(* is on the worklist.  A jump through a table that has cross-references   *)
(* was decoded before, so its table was followed then, by this run or by   *)
(* an earlier one.                                                         *)
(***************************************************************************)
FlowKept ==
  /\ running => visited \subseteq ops
  /\ ~running => pending = <<>>
  /\ \A x \in xrefs : x.from \in ops \/ prog[x.from].table = <<>>
  /\ ~cut => \A va \in ops : \A t \in Flow(va) :
               prog[t].decodes => t \in ops \cup Elements(pending)

\* Every step of code flow keeps the located code closed.
LEMMA FlowStep == TypeOK /\ FlowKept /\ [Next]_vars => FlowKept'
<1>a. Elements(<<>>) = {}  BY DEF Elements
<1> SUFFICES ASSUME TypeOK, FlowKept, [Next]_vars PROVE FlowKept'  OBVIOUS
<1>1. ASSUME Skip PROVE FlowKept'
  <2>1. Elements(pending) = {Head(pending)} \cup Elements(pending')
    BY <1>1, ElementsOfTail DEF Skip, TypeOK
  <2>2. Head(pending) \in ops \/ ~prog[Head(pending)].decodes
    BY <1>1 DEF Skip, Passed, FlowKept
  <2>3. \A va : Flow(va)' = Flow(va)  BY <1>1 DEF Skip, Flow, NeverReturns, wsVars
  <2>4. UNCHANGED <<running, visited, ops, xrefs, cut, prog>> /\ running
    BY <1>1 DEF Skip, wsVars
  <2>5. QED BY <2>1, <2>2, <2>3, <2>4 DEF FlowKept
<1>2. ASSUME Decode PROVE FlowKept'
  <2>1. PICK va \in VA : DecodedAt(va)  BY <1>2, DecodeEffect
  <2>2. \A w : Flow(w)' = Flow(w)  BY <2>1 DEF DecodedAt, Flow, NeverReturns
  <2>3. visited' \subseteq ops'  BY <2>1 DEF DecodedAt, FlowKept
  <2>4. \A x \in xrefs' : x.from \in ops' \/ prog[x.from].table = <<>>
    BY <2>1 DEF DecodedAt, FlowKept, XRefs
  <2>5. Elements(pending) \subseteq ops' \cup Elements(pending')
    BY <2>1 DEF DecodedAt
  <2>6. ASSUME ~cut, NEW w \in ops, NEW t \in Flow(w), prog[t].decodes
        PROVE  t \in ops' \cup Elements(pending')
    BY <2>1, <2>5, <2>6 DEF DecodedAt, FlowKept
  <2>7. ASSUME ~cut, NEW t \in Flow(va), prog[t].decodes
        PROVE  t \in ops' \cup Elements(pending')
    <3>1. CASE t \in Direct(prog[va]) \cap Mapped
      BY <2>1, <2>3, <3>1 DEF DecodedAt
    <3>2. CASE t \in Elements(prog[va].table)
      <4>1. CASE Referenced(va)
        <5>1. va \in ops  BY <1>a, <3>2, <4>1 DEF Referenced, FlowKept
        <5>2. QED BY <2>6, <2>7, <5>1
      <4>2. CASE ~Referenced(va)
        BY <2>1, <2>3, <3>2, <4>2 DEF Table, DecodedAt
      <4>3. QED BY <4>1, <4>2
    <3>3. CASE /\ t \in {va + prog[va].size} \cap Mapped
               /\ Falls(prog[va]) /\ ~Suppressed(prog[va])
      <4>1. visited' \in SUBSET VA  BY <2>1 DEF DecodedAt, TypeOK
      <4>2. CASE t \in visited'  BY <2>3, <4>2
      <4>3. CASE t \notin visited'
        <5>1. t \in Elements(FallThrough(va, visited'))
          BY <3>3, <4>1, <4>3, QueuedFacts
        <5>2. QED BY <2>1, <5>1 DEF DecodedAt
      <4>4. QED BY <4>2, <4>3
    <3>4. QED BY <3>1, <3>2, <3>3 DEF Flow, Suppressed
  <2>8. QED BY <2>1, <2>2, <2>3, <2>4, <2>6, <2>7 DEF DecodedAt, FlowKept
<1>3. ASSUME CapReached PROVE FlowKept'
  BY <1>3 DEF CapReached, FlowKept
<1>4. ASSUME WorklistEmpty PROVE FlowKept'
  <2>1. \A va : Flow(va)' = Flow(va)  BY <1>4 DEF WorklistEmpty, Flow, NeverReturns
  <2>2. QED BY <1>4, <2>1 DEF WorklistEmpty, FlowKept
<1>5. ASSUME NEW q \in Queues, NEW max \in Caps, Begin(q, max) PROVE FlowKept'
  <2>1. \A va : Flow(va)' = Flow(va)  BY <1>5 DEF Begin, Flow, NeverReturns, wsVars
  <2>2. UNCHANGED <<ops, xrefs, cut, prog>> /\ running' /\ visited' = {}
    BY <1>5 DEF Begin, wsVars
  <2>3. pending = <<>>  BY <1>5 DEF Begin, FlowKept
  <2>4. QED BY <1>a, <2>1, <2>2, <2>3 DEF FlowKept
<1>6. ASSUME NEW v \in NoReturns, MarkNoReturn(v) PROVE FlowKept'
  <2>1. \A va : Flow(va)' \subseteq Flow(va)
    BY <1>6 DEF MarkNoReturn, Flow, NeverReturns
  <2>2. QED BY <1>6, <2>1 DEF MarkNoReturn, FlowKept, runVars
<1>7. ASSUME UNCHANGED vars PROVE FlowKept'
  <2>1. \A va : Flow(va)' = Flow(va)
    BY <1>7 DEF vars, wsVars, runVars, Flow, NeverReturns
  <2>2. QED BY <1>7, <2>1 DEF vars, wsVars, runVars, FlowKept
<1>8. QED
  BY <1>1, <1>2, <1>3, <1>4, <1>5, <1>6, <1>7 DEF Next, Step, Finished

(***************************************************************************)
(* Over any number of runs that end with an empty worklist, the located    *)
(* code is closed under flow, though a later run does not read again the   *)
(* jump tables that an earlier one followed.                               *)
(***************************************************************************)
THEOREM LocatedCodeClosed == Spec => []FlowClosed
<1>0. Elements(<<>>) = {}  BY DEF Elements
<1>1. Init => FlowKept  BY DEF Init, FlowKept
<1>2. TypeOK /\ FlowKept /\ [Next]_vars => FlowKept'  BY FlowStep
<1>3. FlowKept => FlowClosed  BY <1>0 DEF FlowKept, FlowClosed
<1>4. QED BY <1>1, <1>2, <1>3, TypeCorrect, PTL DEF Spec

----------------------------------------------------------------------------
(* Blocks. *)

Block == [start : Nat, end : Nat, insns : Seq(VA) \ {<<>>}]
StoredBlock == [start : VA, end : Nat, insns : Seq(VA) \ {<<>>}, func : VA]

BlockTypeOK ==
  /\ TypeOK
  /\ data \in SUBSET VA
  /\ codeblocks \in [VA -> StoredBlock \cup {None}]
  /\ analysed \in SUBSET VA
  /\ phase \in {"idle", "pop", "walk"}
  /\ phase # "idle" => func \in VA /\ ~running
  /\ todo \in SUBSET Nat /\ done \in SUBSET Nat /\ lost \in SUBSET Nat
  /\ at \in Nat /\ start \in Nat
  /\ walk \in Seq(VA)
  /\ blocks \in SUBSET Block

WalkStep == WalkMeetsData \/ WalkFails \/ WalkGoesOn \/ WalkEndsBlock

----------------------------------------------------------------------------
LEMMA SizeFacts ==
  ASSUME TypeOK, NEW va \in VA
  PROVE  /\ VA \subseteq Nat /\ After(va) \in Nat /\ va < After(va)
         /\ Successors(va) \subseteq VA /\ Direct(prog[va]) \subseteq VA
<1>1. prog \in [VA -> Insn] /\ VA \subseteq Nat
  BY CodeFlowAssumption, ProgramAssumption DEF TypeOK
<1>2. prog[va] \in Insn  BY <1>1
<1>3. prog[va].size \in Nat \ {0}  BY <1>2 DEF Insn
<1>4. After(va) \in Nat /\ va < After(va)  BY <1>1, <1>3 DEF After
<1>5. Direct(prog[va]) \subseteq VA  BY InsnFacts
<1>6. {x.to : x \in {y \in xrefs : y.from = va}} \subseteq VA  BY DEF TypeOK, XRef
<1>7. QED BY <1>1, <1>4, <1>5, <1>6 DEF Successors

\* The instructions of a walk that goes on by one, and its last one.
LEMMA Extended ==
  ASSUME NEW w \in Seq(VA), NEW va \in VA
  PROVE  /\ Append(w, va) \in Seq(VA) \ {<<>>}
         /\ Elements(Append(w, va)) = Elements(w) \cup {va}
         /\ Append(w, va)[Len(Append(w, va))] = va
<1>1. /\ Append(w, va) \in Seq(VA) /\ Len(Append(w, va)) = Len(w) + 1 /\ Len(w) \in Nat
      /\ Append(w, va)[Len(w) + 1] = va
      /\ \A i \in 1 .. Len(w) : Append(w, va)[i] = w[i]
      /\ DOMAIN w = 1 .. Len(w) /\ DOMAIN Append(w, va) = 1 .. Len(w) + 1
  OBVIOUS
<1>2. Append(w, va) # <<>>  BY <1>1
<1>3. Elements(Append(w, va)) = Elements(w) \cup {va}
  <2>1. \A i \in 1 .. Len(w) + 1 : i \in 1 .. Len(w) \/ i = Len(w) + 1  BY <1>1
  <2>2. Elements(Append(w, va)) \subseteq Elements(w) \cup {va}
    BY <1>1, <2>1 DEF Elements
  <2>3. \A i \in 1 .. Len(w) : i \in 1 .. Len(w) + 1  BY <1>1
  <2>4. Elements(w) \subseteq Elements(Append(w, va))
    BY <1>1, <2>3 DEF Elements
  <2>5. Len(w) + 1 \in 1 .. Len(w) + 1  BY <1>1
  <2>6. va \in Elements(Append(w, va))  BY <1>1, <2>5 DEF Elements
  <2>7. QED BY <2>2, <2>4, <2>6
<1>4. QED BY <1>1, <1>2, <1>3

LEMMA ElementsType ==
  ASSUME NEW S, NEW w \in Seq(S)
  PROVE  Elements(w) \subseteq S /\ (w # <<>> => w[Len(w)] \in Elements(w))
<1>1. DOMAIN w = 1 .. Len(w) /\ Len(w) \in Nat /\ \A i \in 1 .. Len(w) : w[i] \in S
  OBVIOUS
<1>2. w # <<>> => Len(w) \in 1 .. Len(w)  BY <1>1
<1>3. QED BY <1>1, <1>2 DEF Elements

\* The references that the commit of a function's blocks adds.
LEMMA ReferredType ==
  ASSUME TypeOK, NEW S, \A b \in S : b.insns \in Seq(VA)
  PROVE  /\ Referred(S) \subseteq XRef
         /\ \A x \in Referred(S) : prog[x.from].table = <<>> /\ x.to \in Named(prog[x.from])
<1> SUFFICES ASSUME NEW x \in Referred(S)
             PROVE  x \in XRef /\ prog[x.from].table = <<>> /\ x.to \in Named(prog[x.from])
  OBVIOUS
<1>1. PICK b \in S :
        x \in UNION {XRefs(va, Named(prog[va]) \cap Mapped, "code") :
                     va \in {w \in Elements(b.insns) : prog[w].kind \in {"call", "jmp"}}}
  BY DEF Referred
<1>a. PICK va \in Elements(b.insns) : x \in XRefs(va, Named(prog[va]) \cap Mapped, "code")
  BY <1>1
<1>2. va \in VA  BY <1>a, ElementsType
<1>3. x.from = va /\ x.to \in Named(prog[va]) /\ x \in XRef
  BY <1>a, <1>2, ProgramAssumption DEF XRefs, XRef
<1>4. prog[va].target # None  BY <1>3 DEF Named
<1>5. prog[va].table = <<>>  BY <1>2, <1>4, CodeFlowAssumption DEF TypeOK
<1>6. QED BY <1>3, <1>5

----------------------------------------------------------------------------
(* The steps of Blocks, in three groups.                                   *)

LEMMA WalkLeaves ==
  ASSUME WalkStep \/ \E s \in todo : Pop(s)
  PROVE  UNCHANGED <<vars, data, codeblocks, analysed, func>>
BY DEF WalkStep, WalkMeetsData, WalkFails, WalkGoesOn, WalkEndsBlock, Pop

LEMMA IdleLeaves ==
  ASSUME \/ phase = "idle" /\ Next /\ UNCHANGED blockVars
         \/ \E va \in DataVAs : DefineData(va)
         \/ \E f \in VA : Analyse(f)
  PROVE  /\ phase = "idle" /\ [Next]_vars /\ UNCHANGED codeblocks
BY DEF DefineData, Analyse, blockVars

\* Code flow only adds references, and never changes the program.
LEMMA ReferencesGrow ==
  ASSUME TypeOK, [Next]_vars
  PROVE  xrefs \subseteq xrefs' /\ prog' = prog
<1>1. CASE Decode
  BY <1>1, DecodeEffect DEF DecodedAt
<1>2. CASE Skip \/ CapReached \/ WorklistEmpty
  BY <1>2 DEF Skip, CapReached, WorklistEmpty, wsVars
<1>3. ASSUME NEW q \in Queues, NEW max \in Caps, Begin(q, max)
      PROVE  xrefs \subseteq xrefs' /\ prog' = prog
  BY <1>3 DEF Begin, wsVars
<1>4. ASSUME NEW va \in NoReturns, MarkNoReturn(va)
      PROVE  xrefs \subseteq xrefs' /\ prog' = prog
  BY <1>4 DEF MarkNoReturn
<1>5. CASE UNCHANGED vars
  BY <1>5 DEF vars, wsVars
<1>6. QED BY <1>1, <1>2, <1>3, <1>4, <1>5 DEF Next, Step, Finished

LEMMA CommitEffect ==
  ASSUME BlockTypeOK, Commit
  PROVE  /\ phase = "pop" /\ todo = {} /\ phase' = "idle" /\ func \in VA /\ ~running
         /\ codeblocks' \in [VA -> StoredBlock \cup {None}]
         /\ \A va \in VA :
              \/ codeblocks'[va] = codeblocks[va]
              \/ \E b \in blocks :
                   /\ b.start = va
                   /\ codeblocks'[va] = [start |-> va, end |-> b.end, insns |-> b.insns, func |-> func]
         /\ xrefs' = xrefs \cup Referred(Owned(codeblocks', func))
         /\ \A b \in Owned(codeblocks', func) : b.insns \in Seq(VA)
         /\ UNCHANGED <<prog, functions, noreturn, ops, runVars, runs, entries, cut,
                        data, analysed, func, todo, done, at, start, walk, blocks, lost>>
<1>1. phase = "pop" /\ todo = {} /\ phase' = "idle" /\ func \in VA /\ ~running
  BY DEF Commit, BlockTypeOK
<1>2. codeblocks' = Stored  BY DEF Commit
<1>3. ASSUME NEW va \in VA
      PROVE  /\ codeblocks'[va] \in StoredBlock \cup {None}
             /\ \/ codeblocks'[va] = codeblocks[va]
                \/ \E b \in blocks :
                     /\ b.start = va
                     /\ codeblocks'[va] = [start |-> va, end |-> b.end, insns |-> b.insns, func |-> func]
  <2>1. CASE \E b \in blocks : b.start = va
    <3> DEFINE b == CHOOSE c \in blocks : c.start = va
               r == [start |-> va, end |-> b.end, insns |-> b.insns, func |-> func]
    <3>1. b \in blocks /\ b.start = va  BY <2>1
    <3>2. b.end \in Nat /\ b.insns \in Seq(VA) \ {<<>>}
      BY <3>1 DEF BlockTypeOK, Block
    <3>3. codeblocks'[va] = r  BY <1>2, <2>1 DEF Stored
    <3>4. r \in StoredBlock  BY <1>1, <3>2 DEF StoredBlock
    <3>5. QED BY <3>1, <3>3, <3>4
  <2>2. CASE ~ \E b \in blocks : b.start = va
    BY <1>2, <2>2 DEF Stored, BlockTypeOK
  <2>3. QED BY <2>1, <2>2
<1>4. codeblocks' \in [VA -> StoredBlock \cup {None}]
  BY <1>2, <1>3 DEF Stored
<1>5. \A b \in Owned(codeblocks', func) : b.insns \in Seq(VA)
  BY <1>4 DEF Owned, StoredBlock
<1>6. QED BY <1>1, <1>3, <1>4, <1>5 DEF Commit

----------------------------------------------------------------------------
\* Every step of the composition keeps the types.
LEMMA BlockTypeStep == BlockTypeOK /\ [BlocksNext]_allVars => BlockTypeOK'
<1> SUFFICES ASSUME BlockTypeOK, [BlocksNext]_allVars PROVE BlockTypeOK'  OBVIOUS
<1>0. VA \subseteq Nat /\ DataVAs \subseteq VA /\ TypeOK
  BY ProgramAssumption, BlocksAssumption DEF BlockTypeOK
<1>1. CASE phase = "idle" /\ Next /\ UNCHANGED blockVars
  <2>1. TypeOK'  BY <1>0, <1>1, TypeStep
  <2>2. QED BY <1>1, <2>1 DEF BlockTypeOK, blockVars
<1>2. ASSUME NEW va \in DataVAs, DefineData(va) PROVE BlockTypeOK'
  <2>1. TypeOK'  BY <1>0, <1>2, TypeStep DEF DefineData
  <2>2. QED BY <1>0, <1>2, <2>1 DEF BlockTypeOK, DefineData, vars, runVars
<1>3. ASSUME NEW f \in VA, Analyse(f) PROVE BlockTypeOK'
  <2>1. TypeOK' /\ running' = running  BY <1>0, <1>3, TypeStep DEF Analyse, vars, runVars
  <2>2. QED BY <1>0, <1>3, <2>1 DEF BlockTypeOK, Analyse
<1>4. ASSUME NEW s \in todo, Pop(s) PROVE BlockTypeOK'
  <2>1. TypeOK' /\ running' = running  BY <1>0, <1>4, TypeStep DEF Pop, vars, runVars
  <2>2. <<>> \in Seq(VA)  OBVIOUS
  <2>3. QED BY <1>4, <2>1, <2>2 DEF BlockTypeOK, Pop
<1>5. ASSUME WalkStep PROVE BlockTypeOK'
  <2>1. /\ TypeOK' /\ running' = running
        /\ UNCHANGED <<data, codeblocks, analysed, func>>
    BY <1>0, <1>5, WalkLeaves, TypeStep DEF vars, runVars
  <2>2. CASE WalkMeetsData
    <3>1. walk # <<>> => [start |-> start, end |-> at, insns |-> walk] \in Block
      BY DEF BlockTypeOK, Block
    <3>2. blocks' \in SUBSET Block  BY <2>2, <3>1 DEF WalkMeetsData, Close, BlockTypeOK
    <3>3. QED BY <2>1, <2>2, <3>2 DEF WalkMeetsData, BlockTypeOK
  <2>3. CASE WalkFails
    BY <2>1, <2>3 DEF WalkFails, BlockTypeOK
  <2>4. CASE WalkGoesOn
    <3>1. at \in VA  BY <2>4 DEF WalkGoesOn, Decodes
    <3>2. at' \in Nat /\ walk' \in Seq(VA)
      BY <1>0, <2>4, <3>1, SizeFacts, Extended DEF WalkGoesOn, BlockTypeOK
    <3>3. QED BY <2>1, <2>4, <3>2 DEF WalkGoesOn, BlockTypeOK
  <2>5. CASE WalkEndsBlock
    <3>1. at \in VA  BY <2>5 DEF WalkEndsBlock, Decodes
    <3>2. After(at) \in Nat /\ Successors(at) \subseteq Nat
      BY <1>0, <3>1, SizeFacts
    <3>3. Append(walk, at) \in Seq(VA) \ {<<>>}  BY <3>1, Extended DEF BlockTypeOK
    <3>4. [start |-> start, end |-> After(at), insns |-> Append(walk, at)] \in Block
      BY <3>2, <3>3 DEF Block, BlockTypeOK
    <3>5. blocks' \in SUBSET Block  BY <2>5, <3>4 DEF WalkEndsBlock, Close, BlockTypeOK
    <3>6. todo' \in SUBSET Nat  BY <2>5, <3>2 DEF WalkEndsBlock, BlockTypeOK
    <3>7. QED BY <2>1, <2>5, <3>5, <3>6 DEF WalkEndsBlock, BlockTypeOK
  <2>6. QED BY <1>5, <2>2, <2>3, <2>4, <2>5 DEF WalkStep
<1>6. ASSUME Commit PROVE BlockTypeOK'
  <2>1. /\ phase' = "idle" /\ codeblocks' \in [VA -> StoredBlock \cup {None}]
        /\ xrefs' = xrefs \cup Referred(Owned(codeblocks', func))
        /\ \A b \in Owned(codeblocks', func) : b.insns \in Seq(VA)
        /\ UNCHANGED <<prog, functions, noreturn, ops, runVars, runs, entries, cut,
                       data, analysed, func, todo, done, at, start, walk, blocks, lost>>
    BY <1>6, CommitEffect
  <2>2. xrefs' \in SUBSET XRef  BY <1>0, <2>1, ReferredType DEF TypeOK
  <2>3. TypeOK'  BY <1>0, <2>1, <2>2 DEF TypeOK, runVars
  <2>4. QED BY <2>1, <2>3 DEF BlockTypeOK
<1>7. CASE UNCHANGED allVars
  <2>1. TypeOK'  BY <1>0, <1>7, TypeStep DEF allVars
  <2>2. QED BY <1>7, <2>1 DEF BlockTypeOK, allVars, blockVars, vars, runVars
<1>8. QED
  BY <1>1, <1>2, <1>3, <1>4, <1>5, <1>6, <1>7 DEF BlocksNext, BlockStep, WalkStep

LEMMA BlockTypeInit == BlocksInit => BlockTypeOK
<1> SUFFICES ASSUME BlocksInit PROVE BlockTypeOK  OBVIOUS
<1>1. TypeOK  BY TypeInit DEF BlocksInit
<1>2. codeblocks \in [VA -> StoredBlock \cup {None}]  BY DEF BlocksInit
<1>3. <<>> \in Seq(VA) /\ 0 \in Nat /\ Imports \in SUBSET VA
  BY BlocksAssumption
<1>4. QED BY <1>1, <1>2, <1>3 DEF BlocksInit, BlockTypeOK

(***************************************************************************)
(* The state of the two analyses together stays well typed: a stored block *)
(* has an instruction and an owner, and no analyzer runs while the blocks  *)
(* of a function are collected.                                            *)
(***************************************************************************)
THEOREM BlockTypesCorrect == BlocksSpec => []BlockTypeOK
BY BlockTypeInit, BlockTypeStep, PTL DEF BlocksSpec

----------------------------------------------------------------------------
(***************************************************************************)
(* The walk.  The walk under way is a chain of instructions each of which  *)
(* goes on to the next; a block is such a chain whose last instruction     *)
(* ends it, or runs into data.  What the walk reads does not change        *)
(* between the first pop and the commit.                                   *)
(***************************************************************************)
GoesOn(va) == Continues(va) /\ ~Splits(va)

Onward(va) ==
  (Successors(va) \cap Mapped) \cup (IF Continues(va) THEN {After(va)} ELSE {})

\* Instructions that do not overlap.
Apart(insns) == \A v, w \in Elements(insns) : v < w => After(v) <= w

WalkOpen ==
  /\ start \in done /\ Apart(walk)
  /\ IF walk = <<>> THEN at = start ELSE start \in Elements(walk)
  /\ \A va \in Elements(walk) :
       /\ ~IsData(va) /\ start <= va /\ va < at /\ After(va) <= at /\ GoesOn(va)
       /\ IF va = walk[Len(walk)] THEN After(va) = at ELSE After(va) \in Elements(walk)

BlockShape(b) ==
  /\ b.start \in Elements(b.insns) /\ b.end = After(LastOf(b)) /\ Apart(b.insns)
  /\ GoesOn(LastOf(b)) => IsData(b.end)
  /\ \A va \in Elements(b.insns) :
       /\ ~IsData(va) /\ b.start <= va /\ va < b.end
       /\ va = LastOf(b) \/ (GoesOn(va) /\ After(va) \in Elements(b.insns))

Arrives(t) == t \in todo \cup done \/ IsData(t)

WalkInv ==
  phase # "idle" =>
    /\ phase = "walk" => WalkOpen
    /\ \A b \in blocks : BlockShape(b)
    /\ \A s \in done : IsStart(s) \/ (phase = "walk" /\ s = start)
    /\ \A b \in blocks : \A t \in Onward(LastOf(b)) : Arrives(t)

\* What the walk reads, when neither the program nor its analysis changes.
LEMMA Frozen ==
  ASSUME UNCHANGED <<vars, data>>
  PROVE  /\ \A va : (IsData(va)' <=> IsData(va)) /\ (GoesOn(va)' <=> GoesOn(va))
         /\ \A va : After(va)' = After(va) /\ Onward(va)' = Onward(va)
         /\ \A b : BlockShape(b)' <=> BlockShape(b)
<1> USE DEF vars, wsVars
<1>1. \A va : After(va)' = After(va) /\ Successors(va)' = Successors(va)
  BY DEF After, Successors
<1>2. \A va : (Continues(va)' <=> Continues(va)) /\ (Splits(va)' <=> Splits(va))
  BY <1>1 DEF Continues, Splits, NeverReturns
<1>3. \A va : IsData(va)' <=> IsData(va)
  BY DEF IsData
<1>4. \A va : (GoesOn(va)' <=> GoesOn(va)) /\ Onward(va)' = Onward(va)
  BY <1>1, <1>2 DEF GoesOn, Onward
<1>5. \A b : LastOf(b)' = LastOf(b) /\ (Apart(b.insns)' <=> Apart(b.insns))
  BY <1>1 DEF LastOf, Apart
<1>6. \A b : BlockShape(b)' <=> BlockShape(b)
  BY <1>1, <1>3, <1>4, <1>5 DEF BlockShape
<1>7. QED BY <1>1, <1>3, <1>4, <1>6

\* Two blocks of the right shape that share an instruction end together:
\* the highest one they share must be the last of both.
LEMMA SharedEnd ==
  ASSUME BlockTypeOK, NEW b \in Block, NEW c \in Block, BlockShape(b), BlockShape(c),
         Elements(b.insns) \cap Elements(c.insns) # {}
  PROVE  b.end = c.end
<1> DEFINE T == Elements(b.insns) \cap Elements(c.insns)
           D == {b.end - va : va \in T}
<1>1. /\ VA \subseteq Nat /\ T \subseteq VA /\ b.end \in Nat
  BY ProgramAssumption, ElementsType DEF Block
<1>2. \A va \in T : va \in Nat /\ va < b.end  BY <1>1 DEF BlockShape
<1>3. D \subseteq Nat /\ D # {}  BY <1>1, <1>2
<1>4. PICK d \in D : \A e \in D : ~(e < d)
  <2>1. \E x \in D : \A y \in D : <<y, x>> \notin OpToRel(<, Nat)
    <3> HIDE DEF D
    <3>1. QED BY <1>3, NatLessThanWellFounded, WFMin
  <2>2. \A x \in D, y \in D : <<y, x>> \notin OpToRel(<, Nat) => ~(y < x)
    <3> HIDE DEF D
    <3>1. QED BY <1>3 DEF OpToRel
  <2>3. QED BY <2>1, <2>2
<1>5. PICK m \in T : d = b.end - m  BY <1>4
<1>6. After(m) \notin T
  <2> SUFFICES ASSUME After(m) \in T PROVE FALSE  OBVIOUS
  <2>1. m < After(m) /\ After(m) \in Nat  BY <1>1, SizeFacts DEF BlockTypeOK
  <2>2. b.end - After(m) \in D  OBVIOUS
  <2>3. b.end - After(m) < b.end - m  BY <1>1, <1>2, <2>1
  <2>4. QED BY <1>4, <1>5, <2>2, <2>3
<1>7. m = LastOf(b) \/ m = LastOf(c)
  BY <1>6 DEF BlockShape
<1>8. m = LastOf(b) /\ m = LastOf(c)
  <2>1. ASSUME NEW x, NEW y, BlockShape(x), BlockShape(y),
               m \in Elements(y.insns), m = LastOf(x), m # LastOf(y)
        PROVE  FALSE
    <3>1. GoesOn(m) /\ After(m) \in Elements(y.insns)  BY <2>1 DEF BlockShape
    <3>2. IsData(After(m))  BY <2>1, <3>1 DEF BlockShape
    <3>3. ~IsData(After(m))  BY <2>1, <3>1 DEF BlockShape
    <3>4. QED BY <3>2, <3>3
  <2>2. QED BY <1>7, <2>1
<1>9. QED BY <1>8 DEF BlockShape

\* A block of the right shape is added where the walk ends.
LEMMA BlockClosed ==
  ASSUME BlockTypeOK, WalkInv, phase = "walk", phase' = "pop",
         UNCHANGED <<vars, data, done, start, lost>>, todo \subseteq todo',
         NEW b, b.start = start, blocks' = blocks \cup {b}, BlockShape(b),
         \A t \in Onward(LastOf(b)) : t \in todo' \cup done \/ IsData(t)
  PROVE  WalkInv'
<1>1. /\ \A va : (IsData(va)' <=> IsData(va)) /\ Onward(va)' = Onward(va)
      /\ \A c : BlockShape(c)' <=> BlockShape(c)
  BY Frozen
<1>2. \A c : LastOf(c)' = LastOf(c)  BY DEF LastOf
<1>3. \A c \in blocks' : BlockShape(c)'  BY <1>1 DEF WalkInv
<1>4. \A s \in done' : IsStart(s)'
  BY <1>1 DEF WalkInv, IsStart
<1>5. ASSUME NEW c \in blocks', NEW t \in Onward(LastOf(c)) PROVE Arrives(t)'
  BY <1>1, <1>5 DEF WalkInv, Arrives
<1>6. QED BY <1>1, <1>2, <1>3, <1>4, <1>5 DEF WalkInv

LEMMA WalkInvStep == BlockTypeOK /\ WalkInv /\ [BlocksNext]_allVars => WalkInv'
<1> SUFFICES ASSUME BlockTypeOK, WalkInv, [BlocksNext]_allVars PROVE WalkInv'  OBVIOUS
<1>0. \A b : LastOf(b)' = LastOf(b)  BY DEF LastOf
<1>1. CASE phase = "idle" /\ Next /\ UNCHANGED blockVars
  BY <1>1 DEF WalkInv, blockVars
<1>2. ASSUME NEW va \in DataVAs, DefineData(va) PROVE WalkInv'
  BY <1>2 DEF WalkInv, DefineData
<1>3. ASSUME NEW f \in VA, Analyse(f) PROVE WalkInv'
  BY <1>3 DEF WalkInv, Analyse
<1>4. ASSUME NEW s \in todo, Pop(s) PROVE WalkInv'
  <2>1. /\ \A va : (IsData(va)' <=> IsData(va)) /\ Onward(va)' = Onward(va)
        /\ \A c : BlockShape(c)' <=> BlockShape(c)
    BY <1>4, Frozen DEF Pop
  <2>2. /\ phase = "pop" /\ phase' = "walk" /\ start' = s /\ at' = s /\ walk' = <<>>
        /\ done' = done \cup {s} /\ todo' = todo \ {s} /\ UNCHANGED <<blocks, lost>>
    BY <1>4 DEF Pop
  <2>3. WalkOpen'  BY <2>2 DEF WalkOpen, Apart, Elements
  <2>4. \A t \in done' : IsStart(t)' \/ t = start'
    BY <2>1, <2>2 DEF WalkInv, IsStart
  <2>5. ASSUME NEW b \in blocks', NEW t \in Onward(LastOf(b)) PROVE Arrives(t)'
    BY <2>1, <2>2, <2>5 DEF WalkInv, Arrives
  <2>6. QED BY <1>0, <2>1, <2>2, <2>3, <2>4, <2>5 DEF WalkInv
<1>5. CASE WalkMeetsData
  <2>0. /\ phase = "walk" /\ phase' = "pop" /\ IsData(at) /\ WalkOpen
        /\ UNCHANGED <<vars, data, todo, done, start, lost>>
    BY <1>5 DEF WalkMeetsData, WalkInv
  <2>1. CASE walk = <<>>
    <3>1. /\ \A va : (IsData(va)' <=> IsData(va)) /\ Onward(va)' = Onward(va)
          /\ \A b : BlockShape(b)' <=> BlockShape(b)
      BY <2>0, Frozen
    <3>2. start = at /\ blocks' = blocks  BY <1>5, <2>0, <2>1 DEF WalkOpen, WalkMeetsData
    <3>3. \A s \in done' : IsStart(s)'  BY <2>0, <3>1, <3>2 DEF WalkInv, IsStart
    <3>4. QED BY <1>0, <2>0, <3>1, <3>2, <3>3 DEF WalkInv, Arrives
  <2>2. CASE walk # <<>>
    <3> DEFINE b == [start |-> start, end |-> at, insns |-> walk]
               last == walk[Len(walk)]
    <3>1. blocks' = blocks \cup {b}  BY <1>5, <2>2 DEF WalkMeetsData, Close
    <3>2. LastOf(b) = last /\ b.end = at /\ b.insns = walk /\ b.start = start
      BY DEF LastOf
    <3>3. last \in Elements(walk)  BY <2>2, ElementsType DEF BlockTypeOK
    <3> HIDE DEF b
    <3>4. GoesOn(last) /\ After(last) = at  BY <2>0, <3>3 DEF WalkOpen
    <3>5. BlockShape(b)  BY <2>0, <2>2, <3>2, <3>4 DEF BlockShape, WalkOpen
    <3>6. Continues(last) /\ Successors(last) = {}  BY <3>4 DEF GoesOn, Splits
    <3>7. \A t \in Onward(LastOf(b)) : IsData(t)
      BY <2>0, <3>2, <3>4, <3>6 DEF Onward
    <3>8. QED BY <2>0, <3>1, <3>2, <3>5, <3>7, BlockClosed
  <2>3. QED BY <2>1, <2>2
<1>6. CASE WalkFails
  <2>1. /\ \A va : (IsData(va)' <=> IsData(va)) /\ Onward(va)' = Onward(va)
        /\ \A b : BlockShape(b)' <=> BlockShape(b)
    BY <1>6, Frozen DEF WalkFails
  <2>2. /\ phase = "walk" /\ phase' = "pop" /\ lost' = lost \cup {start}
        /\ UNCHANGED <<blocks, todo, done>>
    BY <1>6 DEF WalkFails
  <2>3. \A s \in done' : IsStart(s)'  BY <2>1, <2>2 DEF WalkInv, IsStart
  <2>4. QED BY <1>0, <2>1, <2>2, <2>3 DEF WalkInv, Arrives
<1>7. CASE WalkGoesOn
  <2>1. /\ \A va : (IsData(va)' <=> IsData(va)) /\ (GoesOn(va)' <=> GoesOn(va))
        /\ \A va : After(va)' = After(va) /\ Onward(va)' = Onward(va)
        /\ \A b : BlockShape(b)' <=> BlockShape(b)
    BY <1>7, Frozen DEF WalkGoesOn
  <2>2. /\ phase = "walk" /\ phase' = "walk" /\ ~IsData(at) /\ GoesOn(at)
        /\ walk' = Append(walk, at) /\ at' = After(at) /\ at \in VA
        /\ UNCHANGED <<blocks, lost, todo, done, start>>
    BY <1>7 DEF WalkGoesOn, GoesOn, Decodes
  <2>3. /\ walk \in Seq(VA) /\ walk' # <<>> /\ walk'[Len(walk')] = at
        /\ Elements(walk') = Elements(walk) \cup {at}
    BY <2>2, Extended DEF BlockTypeOK
  <2>4. at \in Nat /\ After(at) \in Nat /\ at < After(at) /\ Elements(walk) \subseteq Nat
    BY <2>2, <2>3, SizeFacts, ElementsType DEF BlockTypeOK
  <2>4a. start \in Nat /\ start \in Elements(walk') /\ start <= at
    <3>1. start \in Nat /\ WalkOpen  BY <2>2 DEF WalkInv, BlockTypeOK
    <3>2. CASE walk = <<>>  BY <2>3, <2>4, <3>1, <3>2 DEF WalkOpen
    <3>3. CASE walk # <<>>
      <4>1. start \in Elements(walk) /\ start < at  BY <3>1, <3>3 DEF WalkOpen
      <4>2. QED BY <2>3, <2>4, <3>1, <4>1
    <3>4. QED BY <3>2, <3>3
  <2>5. ASSUME NEW va \in Elements(walk')
        PROVE  /\ ~IsData(va) /\ start <= va /\ va < at' /\ After(va) <= at' /\ GoesOn(va)
               /\ IF va = at THEN After(va) = at' ELSE After(va) \in Elements(walk')
    <3>1. CASE va = at  BY <2>2, <2>4, <2>4a, <3>1
    <3>2. CASE va # at
      <4>1. va \in Elements(walk)  BY <2>3, <3>2
      <4>2. /\ ~IsData(va) /\ start <= va /\ va < at /\ After(va) <= at /\ GoesOn(va)
            /\ After(va) \in Elements(walk) \cup {at}
        BY <2>2, <4>1 DEF WalkInv, WalkOpen
      <4>3. va < at' /\ After(va) <= at'
        <5>1. va \in Nat /\ After(va) \in Nat  BY <2>4, <4>1, <4>2
        <5>2. QED BY <2>2, <2>4, <4>2, <5>1
      <4>4. QED BY <2>3, <3>2, <4>2, <4>3
    <3>3. QED BY <3>1, <3>2
  <2>6. WalkOpen'
    <3>0. ASSUME NEW v \in Elements(walk'), NEW w \in Elements(walk'), v < w
          PROVE  After(v) <= w
      <4>1. WalkOpen  BY <2>2 DEF WalkInv
      <4>2. CASE w = at
        BY <2>3, <2>4, <3>0, <4>1, <4>2 DEF WalkOpen
      <4>3. CASE v = at /\ w # at
        BY <2>3, <2>4, <3>0, <4>1, <4>3 DEF WalkOpen
      <4>4. CASE v # at /\ w # at
        BY <2>3, <3>0, <4>1, <4>4 DEF WalkOpen, Apart
      <4>5. QED BY <4>2, <4>3, <4>4
    <3>1. start' \in done'  BY <2>2 DEF WalkInv, WalkOpen
    <3>2. start' \in Elements(walk')  BY <2>2, <2>4a
    <3>3. QED BY <2>1, <2>2, <2>3, <2>5, <3>0, <3>1, <3>2 DEF WalkOpen, Apart
  <2>7. \A s \in done' : IsStart(s)' \/ s = start'
    BY <2>1, <2>2 DEF WalkInv, IsStart
  <2>8. QED BY <1>0, <2>1, <2>2, <2>6, <2>7 DEF WalkInv, Arrives
<1>8. CASE WalkEndsBlock
  <2> DEFINE b == [start |-> start, end |-> After(at), insns |-> Append(walk, at)]
  <2>1. /\ phase = "walk" /\ phase' = "pop" /\ ~IsData(at) /\ ~GoesOn(at) /\ at \in VA
        /\ todo' = todo \cup (Onward(at) \ done)
        /\ blocks' = blocks \cup {b} /\ WalkOpen
        /\ UNCHANGED <<vars, data, done, start, lost>>
    BY <1>8 DEF WalkEndsBlock, GoesOn, Decodes, Close, Onward, WalkInv
  <2>2. /\ LastOf(b) = at /\ b.end = After(at) /\ b.start = start
        /\ Elements(b.insns) = Elements(walk) \cup {at}
    BY <2>1, Extended DEF BlockTypeOK, LastOf
  <2> HIDE DEF b
  <2>3. at \in Nat /\ After(at) \in Nat /\ at < After(at) /\ Elements(walk) \subseteq Nat
    BY <2>1, SizeFacts, ElementsType DEF BlockTypeOK
  <2>3a. start \in Nat /\ start \in Elements(b.insns) /\ start <= at
    <3>1. start \in Nat  BY DEF BlockTypeOK
    <3>2. CASE walk = <<>>  BY <2>1, <2>2, <2>3, <3>1, <3>2 DEF WalkOpen
    <3>3. CASE walk # <<>>
      <4>1. start \in Elements(walk) /\ start < at  BY <2>1, <3>3 DEF WalkOpen
      <4>2. QED BY <2>2, <2>3, <3>1, <4>1
    <3>4. QED BY <3>2, <3>3
  <2>4. ASSUME NEW va \in Elements(b.insns)
        PROVE  /\ ~IsData(va) /\ start <= va /\ va < b.end
               /\ va = at \/ (GoesOn(va) /\ After(va) \in Elements(b.insns))
    <3>1. CASE va = at  BY <2>1, <2>2, <2>3, <2>3a, <3>1
    <3>2. CASE va # at
      <4>1. va \in Elements(walk)  BY <2>2, <3>2
      <4>2. ~IsData(va) /\ start <= va /\ va < at /\ GoesOn(va) /\ After(va) \in Elements(walk) \cup {at}
        BY <2>1, <4>1 DEF WalkOpen
      <4>3. QED BY <2>2, <2>3, <4>1, <4>2
    <3>3. QED BY <3>1, <3>2
  <2>5. Apart(b.insns)
    <3>1. ASSUME NEW v \in Elements(b.insns), NEW w \in Elements(b.insns), v < w
          PROVE  After(v) <= w
      <4>1. CASE w = at  BY <2>1, <2>2, <2>3, <3>1, <4>1 DEF WalkOpen
      <4>2. CASE v = at /\ w # at
        BY <2>1, <2>2, <2>3, <3>1, <4>2 DEF WalkOpen
      <4>3. CASE v # at /\ w # at
        BY <2>1, <2>2, <3>1, <4>3 DEF WalkOpen, Apart
      <4>4. QED BY <4>1, <4>2, <4>3
    <3>2. QED BY <3>1 DEF Apart
  <2>5a. BlockShape(b)  BY <2>1, <2>2, <2>4, <2>3a, <2>5 DEF BlockShape
  <2>6. \A t \in Onward(LastOf(b)) : t \in todo' \cup done \/ IsData(t)
    BY <2>1, <2>2
  <2>7. QED BY <2>1, <2>2, <2>5a, <2>6, BlockClosed
<1>9. CASE Commit
  BY <1>9 DEF WalkInv, Commit
<1>10. CASE UNCHANGED allVars
  <2>1. /\ \A va : (IsData(va)' <=> IsData(va)) /\ (GoesOn(va)' <=> GoesOn(va))
        /\ \A va : After(va)' = After(va) /\ Onward(va)' = Onward(va)
        /\ \A b : BlockShape(b)' <=> BlockShape(b)
    BY <1>10, Frozen DEF allVars, blockVars
  <2>2. UNCHANGED <<phase, todo, done, start, at, walk, blocks, lost>>
    BY <1>10 DEF allVars, blockVars
  <2>3. WalkOpen' <=> WalkOpen  BY <2>1, <2>2 DEF WalkOpen, Apart
  <2>4. \A s : IsStart(s)' <=> IsStart(s)  BY <2>1, <2>2 DEF IsStart
  <2>5. QED BY <1>0, <2>1, <2>2, <2>3, <2>4 DEF WalkInv, Arrives
<1>11. QED
  BY <1>1, <1>2, <1>3, <1>4, <1>5, <1>6, <1>7, <1>8, <1>9, <1>10 DEF BlocksNext, BlockStep

\* Once nothing is left to walk, every start that was walked is accounted for.
LEMMA WalkedClosed == WalkInv => BlocksClosed
<1> SUFFICES ASSUME WalkInv, Found, NEW b \in blocks, NEW t \in Onward(LastOf(b))
             PROVE  IsStart(t)
  BY DEF BlocksClosed, Onward
<1>1. phase = "pop" /\ todo = {}  BY DEF Found
<1>2. t \in done \/ IsData(t)  BY <1>1 DEF WalkInv, Arrives
<1>3. QED BY <1>1, <1>2 DEF WalkInv, IsStart

(***************************************************************************)
(* When the walk is over, control that leaves a block arrives at the start *)
(* of a block of the same function, at data, or where the bytes cannot be  *)
(* read.                                                                   *)
(***************************************************************************)
THEOREM BlocksCloseUp == BlocksSpec => []BlocksClosed
<1>1. BlocksInit => WalkInv  BY DEF BlocksInit, WalkInv
<1>2. WalkInv => BlocksClosed  BY WalkedClosed
<1>3. QED
  BY <1>1, <1>2, WalkInvStep, BlockTypesCorrect, PTL DEF BlocksSpec

\* Overlaps are decided while the walk goes on; what is left behind when it is
\* over stays as it is.
LEMMA OverlapsStep ==
  BlockTypeOK' /\ WalkInv' /\ OverlapsEndTogether /\ [BlocksNext]_allVars
    => OverlapsEndTogether'
<1>1. BlockTypeOK /\ WalkInv /\ phase # "idle" => OverlapsEndTogether
  BY SharedEnd DEF OverlapsEndTogether, WalkInv, BlockTypeOK
<1>2. (BlockTypeOK /\ WalkInv /\ phase # "idle" => OverlapsEndTogether)'
  BY <1>1, PTL
<1>3. OverlapsEndTogether /\ [BlocksNext]_allVars /\ phase' = "idle" => OverlapsEndTogether'
  <2> SUFFICES ASSUME OverlapsEndTogether, [BlocksNext]_allVars, phase' = "idle"
               PROVE  OverlapsEndTogether'
    OBVIOUS
  <2>1. UNCHANGED blocks
    BY DEF BlocksNext, BlockStep, blockVars, allVars, DefineData, Analyse, Pop,
           WalkMeetsData, WalkFails, WalkGoesOn, WalkEndsBlock, Commit
  <2>2. QED BY <2>1 DEF OverlapsEndTogether
<1>4. QED BY <1>2, <1>3

(***************************************************************************)
(* Two blocks of one function that share an instruction end at the same    *)
(* address.                                                                *)
(***************************************************************************)
THEOREM OverlapsRunOnTogether == BlocksSpec => []OverlapsEndTogether
<1>1. BlocksInit => WalkInv /\ OverlapsEndTogether
  BY DEF BlocksInit, WalkInv, OverlapsEndTogether
<1>2. BlockTypeOK' /\ WalkInv' /\ OverlapsEndTogether /\ [BlocksNext]_allVars
        => OverlapsEndTogether'
  BY OverlapsStep
<1>3. QED
  BY <1>1, <1>2, WalkInvStep, BlockTypesCorrect, PTL DEF BlocksSpec

----------------------------------------------------------------------------
(***************************************************************************)
(* Every stored block has the cross-references of its calls and jumps at   *)
(* all times: references are never taken back, and a commit adds those of  *)
(* all blocks the function owns after it.                                  *)
(***************************************************************************)
StoredReferenced ==
  \A va \in VA : codeblocks[va] # None => Referred({codeblocks[va]}) \subseteq xrefs

LEMMA StoredReferencedStep ==
  BlockTypeOK /\ StoredReferenced /\ [BlocksNext]_allVars => StoredReferenced'
<1> SUFFICES ASSUME BlockTypeOK, StoredReferenced, [BlocksNext]_allVars
             PROVE  StoredReferenced'
  OBVIOUS
<1>1. ASSUME xrefs \subseteq xrefs', prog' = prog, UNCHANGED codeblocks
      PROVE  StoredReferenced'
  BY <1>1 DEF StoredReferenced, Referred
<1>2. CASE \/ phase = "idle" /\ Next /\ UNCHANGED blockVars
           \/ \E va \in DataVAs : DefineData(va)
           \/ \E f \in VA : Analyse(f)
  BY <1>1, <1>2, IdleLeaves, ReferencesGrow DEF BlockTypeOK
<1>3. CASE WalkStep \/ \E s \in todo : Pop(s)
  BY <1>1, <1>3, WalkLeaves, ReferencesGrow DEF BlockTypeOK
<1>4. CASE Commit
  <2>1. /\ \A va \in VA : \/ codeblocks'[va] = codeblocks[va]
                          \/ codeblocks'[va].func = func
        /\ xrefs' = xrefs \cup Referred(Owned(codeblocks', func)) /\ prog' = prog
    BY <1>4, CommitEffect
  <2>2. ASSUME NEW va \in VA, codeblocks'[va] # None
        PROVE  Referred({codeblocks[va]})' \subseteq xrefs'
    <3>0. Referred({codeblocks[va]})' = Referred({codeblocks'[va]})
      BY <2>1 DEF Referred
    <3>1. CASE codeblocks'[va] = codeblocks[va]
      BY <2>1, <2>2, <3>0, <3>1 DEF StoredReferenced
    <3>2. CASE codeblocks'[va].func = func
      <4>1. codeblocks'[va] \in Owned(codeblocks', func)  BY <2>2, <3>2 DEF Owned
      <4>2. Referred({codeblocks'[va]}) \subseteq Referred(Owned(codeblocks', func))
        BY <4>1 DEF Referred
      <4>3. QED BY <2>1, <3>0, <4>2
    <3>3. QED BY <2>1, <3>1, <3>2
  <2>3. QED BY <2>2 DEF StoredReferenced
<1>5. CASE UNCHANGED allVars
  BY <1>1, <1>5 DEF allVars, blockVars, vars, wsVars
<1>6. QED
  BY <1>2, <1>3, <1>4, <1>5 DEF BlocksNext, BlockStep, WalkStep

(***************************************************************************)
(* Between two functions, every call and jump inside a stored block has    *)
(* its cross-reference, whichever function owns the block by then.         *)
(***************************************************************************)
THEOREM CallsOfBlocksReferenced == BlocksSpec => []StoredCallsReferenced
<1>1. BlocksInit => StoredReferenced  BY DEF BlocksInit, StoredReferenced
<1>2. StoredReferenced => StoredCallsReferenced
  BY DEF StoredReferenced, StoredCallsReferenced
<1>3. QED
  BY <1>1, <1>2, StoredReferencedStep, BlockTypesCorrect, PTL DEF BlocksSpec

----------------------------------------------------------------------------
(***************************************************************************)
(* The stored blocks.  Whoever owns it, a stored block is the chain that   *)
(* its walk found: from its start to its end, each instruction but the     *)
(* last goes on to the next and jumps nowhere.  (What the walk read of the *)
(* cross-references and the data may have changed since.)                  *)
(***************************************************************************)
PassesOn(va) == Falls(prog[va]) /\ (prog[va].kind = "call" \/ Direct(prog[va]) = {})

StoredShape(b) ==
  /\ b.start \in Elements(b.insns) /\ b.end = After(LastOf(b)) /\ Apart(b.insns)
  /\ \A va \in Elements(b.insns) :
       /\ b.start <= va /\ va < b.end
       /\ va = LastOf(b) \/ (PassesOn(va) /\ After(va) \in Elements(b.insns))

StoredWalked ==
  \A va \in VA :
    codeblocks[va] # None => codeblocks[va].start = va /\ StoredShape(codeblocks[va])

LEMMA StoredShapeFrozen ==
  ASSUME prog' = prog
  PROVE  \A b : StoredShape(b)' <=> StoredShape(b)
<1>1. /\ \A va : After(va)' = After(va) /\ (PassesOn(va)' <=> PassesOn(va))
      /\ \A b : LastOf(b)' = LastOf(b)
  BY DEF After, PassesOn, LastOf
<1>2. QED BY <1>1 DEF StoredShape, Apart

LEMMA StoredWalkedStep ==
  BlockTypeOK /\ WalkInv /\ StoredWalked /\ [BlocksNext]_allVars => StoredWalked'
<1> SUFFICES ASSUME BlockTypeOK, WalkInv, StoredWalked, [BlocksNext]_allVars
             PROVE  StoredWalked'
  OBVIOUS
<1>1. ASSUME prog' = prog, UNCHANGED codeblocks PROVE StoredWalked'
  BY <1>1, StoredShapeFrozen DEF StoredWalked
<1>2. CASE \/ phase = "idle" /\ Next /\ UNCHANGED blockVars
           \/ \E va \in DataVAs : DefineData(va)
           \/ \E f \in VA : Analyse(f)
  BY <1>1, <1>2, IdleLeaves, ReferencesGrow DEF BlockTypeOK
<1>3. CASE WalkStep \/ \E s \in todo : Pop(s)
  BY <1>1, <1>3, WalkLeaves, ReferencesGrow DEF BlockTypeOK
<1>4. CASE Commit
  <2>1. /\ phase = "pop" /\ prog' = prog
        /\ \A va \in VA :
             \/ codeblocks'[va] = codeblocks[va]
             \/ \E b \in blocks :
                  /\ b.start = va
                  /\ codeblocks'[va] = [start |-> va, end |-> b.end, insns |-> b.insns,
                                        func |-> func]
    BY <1>4, CommitEffect
  <2>2. ASSUME NEW va \in VA, NEW b \in blocks, b.start = va,
               NEW c, c = [start |-> va, end |-> b.end, insns |-> b.insns, func |-> func]
        PROVE  c.start = va /\ StoredShape(c)
    <3>1. BlockShape(b)  BY <2>1 DEF WalkInv
    <3>2. \A w : GoesOn(w) => PassesOn(w)
      BY DEF GoesOn, PassesOn, Continues, Splits, Successors
    <3>3. c.start = b.start /\ c.end = b.end /\ c.insns = b.insns /\ LastOf(c) = LastOf(b)
      BY <2>2 DEF LastOf
    <3>4. QED BY <2>2, <3>1, <3>2, <3>3 DEF BlockShape, StoredShape
  <2>3. ASSUME NEW va \in VA, codeblocks'[va] # None
        PROVE  codeblocks'[va].start = va /\ StoredShape(codeblocks'[va])
    BY <2>1, <2>2, <2>3 DEF StoredWalked
  <2>4. QED BY <2>1, <2>3, StoredShapeFrozen DEF StoredWalked
<1>5. CASE UNCHANGED allVars
  BY <1>1, <1>5 DEF allVars, blockVars, vars, wsVars
<1>6. QED
  BY <1>2, <1>3, <1>4, <1>5 DEF BlocksNext, BlockStep, WalkStep

LEMMA BlockOf ==
  ASSUME BlockTypeOK, StoredWalked, NEW b \in AllBlocks
  PROVE  /\ b \in StoredBlock /\ codeblocks[b.start] = b /\ StoredShape(b)
         /\ b.start \in Bytes(b) /\ b.end \notin Bytes(b) /\ b.start < b.end
         /\ LastOf(b) \in Elements(b.insns) /\ Elements(b.insns) \subseteq VA \cap Bytes(b)
<1>1. PICK va \in VA : b = codeblocks[va] /\ b # None  BY DEF AllBlocks
<1>2. b \in StoredBlock /\ b.start = va /\ StoredShape(b)
  BY <1>1 DEF BlockTypeOK, StoredWalked
<1>3. /\ VA \subseteq Nat /\ b.start \in Nat /\ b.end \in Nat
      /\ LastOf(b) \in Elements(b.insns) /\ Elements(b.insns) \subseteq VA
  BY <1>2, ProgramAssumption, ElementsType DEF StoredBlock, LastOf
<1>4. b.start < b.end /\ \A w \in Elements(b.insns) : b.start <= w /\ w < b.end
  BY <1>2 DEF StoredShape
<1>5. ASSUME NEW w \in Elements(b.insns) PROVE w \in Bytes(b)
  <2>1. w \in Nat /\ b.start <= w /\ w < b.end  BY <1>3, <1>4
  <2>2. QED BY <1>3, <2>1 DEF Bytes
<1>6. b.start \in Bytes(b) /\ b.end \notin Bytes(b)  BY <1>3, <1>4 DEF Bytes
<1>7. QED BY <1>1, <1>2, <1>3, <1>4, <1>5, <1>6

Disjoint == \A a, b \in AllBlocks : a # b => Bytes(a) \cap Bytes(b) = {}

\* Where blocks do not overlap, a lookup by address finds the one block.
LEMMA HolderIs ==
  ASSUME BlockTypeOK, StoredWalked, Disjoint, NEW h \in Holders,
         NEW b \in AllBlocks, NEW a \in Bytes(b)
  PROVE  a \in DOMAIN h /\ h[a] = b.start
<1>1. a \in DOMAIN h /\ h[a] \in Starts /\ a \in Bytes(codeblocks[h[a]])
  BY DEF Holders
<1>2. PICK c \in AllBlocks : h[a] = c.start  BY <1>1 DEF Starts
<1>3. codeblocks[h[a]] = c  BY <1>2, BlockOf
<1>4. c = b  BY <1>1, <1>3 DEF Disjoint
<1>5. QED BY <1>1, <1>2, <1>4

LEMMA OwnerIs ==
  ASSUME BlockTypeOK, StoredWalked, Disjoint, NEW b \in AllBlocks, NEW a \in Bytes(b)
  PROVE  OwnerOf(a) = b.func
<1> DEFINE below == {s \in Starts : s <= a}
           near == CHOOSE s \in below : \A t \in below : t <= s
<1>1. b \in StoredBlock /\ codeblocks[b.start] = b /\ b.start <= a /\ a < b.end /\ a \in Nat
  <2>1. b \in StoredBlock /\ codeblocks[b.start] = b  BY BlockOf
  <2>2. b.start \in Nat /\ b.end \in Nat  BY <2>1, ProgramAssumption DEF StoredBlock
  <2>3. QED BY <2>1, <2>2 DEF Bytes
<1>2. b.start \in below  BY <1>1 DEF Starts
<1>3. ASSUME NEW t \in below PROVE t <= b.start
  <2>1. PICK c \in AllBlocks : t = c.start  BY DEF Starts
  <2>2. c \in StoredBlock /\ c.start \in Bytes(c)  BY BlockOf
  <2>3. c.start \in Nat /\ b.start \in Nat /\ b.end \in Nat
    BY <1>1, <2>2, ProgramAssumption DEF StoredBlock
  <2>4. c # b => c.start \notin Bytes(b)  BY <2>2 DEF Disjoint
  <2>5. CASE c = b  BY <2>1, <2>3, <2>5
  <2>6. CASE c # b
    <3>1. ~(b.start <= c.start /\ c.start < b.end)  BY <2>3, <2>4, <2>6 DEF Bytes
    <3>2. QED BY <1>1, <2>1, <2>3, <3>1
  <2>7. QED BY <2>5, <2>6
<1>4. \A s \in below : s \in Nat
  <2>1. \A c \in AllBlocks : c.start \in Nat
    BY BlockOf, ProgramAssumption DEF StoredBlock
  <2>2. QED BY <2>1 DEF Starts
<1>5. near \in below /\ \A t \in below : t <= near  BY <1>2, <1>3
<1>6. near = b.start
  <2>1. near <= b.start /\ b.start <= near /\ near \in Nat /\ b.start \in Nat
    BY <1>2, <1>3, <1>4, <1>5
  <2> HIDE DEF near
  <2>2. QED BY <2>1
<1>7. below # {} /\ a \in Bytes(codeblocks[near])  BY <1>1, <1>2, <1>6
<1>8. QED BY <1>1, <1>6, <1>7 DEF OwnerOf

LEMMA StoredAgree ==
  ASSUME BlockTypeOK, StoredWalked, StoredReferenced PROVE GraphsAgree
<1> SUFFICES ASSUME Disjoint
             PROVE  /\ \A h \in Holders :
                         /\ \A f \in functions : QueryEdges(f) \subseteq
                              {<<e.from, e.to>> : e \in FunctionCfg(f, h).edges}
                         /\ \A b, c \in AllBlocks :
                              c.start \in BlockSuccessors(b) =>
                                b.start \in BlockPredecessors(c, h, TRUE)
                    /\ \A b \in AllBlocks : \A va \in Elements(b.insns) :
                         prog[va].kind = "call" =>
                           \A t \in (Direct(prog[va]) \cap functions \cap Mapped) \ {b.func} :
                             [caller |-> b.func, callee |-> t, site |-> va] \in CallEdges
  BY DEF GraphsAgree, Disjoint
<1>1. ASSUME NEW b \in AllBlocks, NEW t \in BlockSuccessors(b)
      PROVE  \/ \E x \in CodeRefs : x.from \in TailOf(b) /\ x.to = t
             \/ t = b.end /\ BlockFallsThrough(b)
  BY <1>1 DEF BlockSuccessors, RefsFrom
<1>2. ASSUME NEW h \in Holders, NEW f \in functions, NEW b \in OwnedBy(f), NEW c \in OwnedBy(f),
             c.start \in BlockSuccessors(b)
      PROVE  \E e \in FunctionCfg(f, h).edges : e.from = b.start /\ e.to = c.start
  <2>1. /\ b \in AllBlocks /\ c \in AllBlocks /\ c.func = f /\ codeblocks[c.start] = c
        /\ c.start \in DOMAIN h /\ h[c.start] = c.start
    BY BlockOf, HolderIs DEF OwnedBy
  <2>2. RefEdges(f, b, h) \cup FallEdges(f, b, h) \subseteq FunctionCfg(f, h).edges
    BY DEF FunctionCfg
  <2>3. ASSUME NEW x \in CodeRefs, x.from \in TailOf(b), x.to = c.start
        PROVE  \E e \in RefEdges(f, b, h) : e.from = b.start /\ e.to = c.start
    <3>1. [from |-> b.start, to |-> h[x.to], for |-> x] \in RefEdges(f, b, h)
      BY <2>1, <2>3 DEF RefEdges
    <3>2. QED BY <2>1, <2>3, <3>1
  <2>4. ASSUME c.start = b.end
        PROVE  \E e \in RefEdges(f, b, h) \cup FallEdges(f, b, h) :
                 e.from = b.start /\ e.to = c.start
    <3>1. c.start # b.start
      <4>1. b.start \in Bytes(b) /\ b.end \notin Bytes(b)  BY <2>1, BlockOf
      <4>2. QED BY <2>4, <4>1
    <3>2. CASE \E r \in RefEdges(f, b, h) : r.to = c.start
      BY <3>2 DEF RefEdges
    <3>3. CASE \A r \in RefEdges(f, b, h) : r.to # c.start
      <4>1. b.end \in {e \in {b.end} \cap DOMAIN h :
                        /\ codeblocks[h[e]].func = f /\ h[e] # b.start
                        /\ \A r \in RefEdges(f, b, h) : r.to # h[e]}
        BY <2>1, <2>4, <3>1, <3>3
      <4>2. [from |-> b.start, to |-> h[b.end], for |-> None] \in FallEdges(f, b, h)
        BY <4>1 DEF FallEdges
      <4>3. QED BY <2>1, <2>4, <4>2
    <3>4. QED BY <3>2, <3>3
  <2>5. QED BY <1>1, <1>2, <2>1, <2>2, <2>3, <2>4
<1>3. ASSUME NEW h \in Holders, NEW f \in functions
      PROVE  QueryEdges(f) \subseteq {<<e.from, e.to>> : e \in FunctionCfg(f, h).edges}
  <2> SUFFICES ASSUME NEW b \in OwnedBy(f), NEW c \in OwnedBy(f), c.start \in BlockSuccessors(b)
               PROVE  <<b.start, c.start>> \in {<<e.from, e.to>> : e \in FunctionCfg(f, h).edges}
    BY DEF QueryEdges
  <2>1. QED BY <1>2
<1>4. ASSUME NEW h \in Holders, NEW b \in AllBlocks, NEW c \in AllBlocks,
             c.start \in BlockSuccessors(b)
      PROVE  b.start \in BlockPredecessors(c, h, TRUE)
  <2>1. CASE \E x \in CodeRefs : x.from \in TailOf(b) /\ x.to = c.start
    <3>1. PICK x \in CodeRefs : x.from \in TailOf(b) /\ x.to = c.start  BY <2>1
    <3>2. x.from \in DOMAIN h /\ h[x.from] = b.start  BY <3>1, HolderIs DEF TailOf
    <3>3. QED BY <3>1, <3>2 DEF BlockPredecessors
  <2>2. CASE c.start = b.end /\ BlockFallsThrough(b)
    BY <2>2 DEF BlockPredecessors
  <2>3. QED BY <1>1, <1>4, <2>1, <2>2
<1>5. ASSUME NEW b \in AllBlocks, NEW va \in Elements(b.insns), prog[va].kind = "call",
             NEW t \in (Direct(prog[va]) \cap functions \cap Mapped) \ {b.func}
      PROVE  [caller |-> b.func, callee |-> t, site |-> va] \in CallEdges
  <2> DEFINE x == [from |-> va, to |-> t, type |-> "code"]
  <2>1. b.start \in VA /\ codeblocks[b.start] = b /\ b # None /\ b.func \in VA /\ va \in Bytes(b)
    BY BlockOf DEF StoredBlock, AllBlocks
  <2>2. t \in Named(prog[va]) \cap Mapped  BY DEF Direct
  <2>3. x \in Referred({b})  BY <1>5, <2>2 DEF Referred, XRefs
  <2>4. x \in CodeRefs  BY <2>1, <2>3 DEF StoredReferenced, CodeRefs
  <2>5. OwnerOf(va) = b.func /\ b.func # None
    BY <2>1, OwnerIs, ProgramAssumption
  <2>6. x.to \in functions /\ OwnerOf(x.from) \notin {None, x.to}  BY <2>5
  <2>7. [caller |-> OwnerOf(x.from), callee |-> x.to, site |-> x.from] \in CallEdges
    BY <2>4, <2>6 DEF CallEdges
  <2>8. QED BY <2>5, <2>7
<1>6. QED BY <1>3, <1>4, <1>5

(***************************************************************************)
(* The control flow graph, the block queries and the call graph, which are *)
(* three pieces of code over the same blocks and cross-references, agree   *)
(* whenever no two stored blocks overlap.                                  *)
(***************************************************************************)
THEOREM AnswersAgree == BlocksSpec => []GraphsAgree
<1>1. BlocksInit => StoredWalked /\ StoredReferenced /\ WalkInv
  BY DEF BlocksInit, StoredWalked, StoredReferenced, WalkInv
<1>2. BlockTypeOK /\ StoredWalked /\ StoredReferenced => GraphsAgree
  BY StoredAgree
<1>3. QED
  BY <1>1, <1>2, StoredWalkedStep, StoredReferencedStep, WalkInvStep, BlockTypesCorrect, PTL
     DEF BlocksSpec

----------------------------------------------------------------------------
(***************************************************************************)
(* A code reference leads where its instruction says: to the address in    *)
(* its operand, or to an entry of its jump table.                          *)
(***************************************************************************)
RefsNamed ==
  \A x \in CodeRefs : x.to \in Named(prog[x.from]) \cup Elements(prog[x.from].table)

LEMMA RefsNamedStep ==
  BlockTypeOK /\ RefsNamed /\ [BlocksNext]_allVars => RefsNamed'
<1> SUFFICES ASSUME BlockTypeOK, RefsNamed, [BlocksNext]_allVars PROVE RefsNamed'
  OBVIOUS
<1>1. ASSUME UNCHANGED <<xrefs, prog>> PROVE RefsNamed'
  BY <1>1 DEF RefsNamed, CodeRefs
<1>2. ASSUME [Next]_vars PROVE RefsNamed'
  <2>1. CASE Decode
    <3>1. PICK va \in VA : DecodedAt(va)  BY <2>1, DecodeEffect DEF BlockTypeOK
    <3>2. /\ prog' = prog
          /\ xrefs' = xrefs \cup XRefs(va, Named(prog[va]) \cup Elements(Table(va)), "code")
                            \cup XRefs(va, DataRefs(prog[va]), "data")
      BY <3>1 DEF DecodedAt
    <3>3. Elements(Table(va)) \subseteq Elements(prog[va].table)
      <4>1. Elements(<<>>) = {}  BY DEF Elements
      <4>2. QED BY <4>1 DEF Table
    <3>4. ASSUME NEW x \in XRefs(va, Named(prog[va]) \cup Elements(Table(va)), "code")
          PROVE  x.from = va /\ x.to \in Named(prog[va]) \cup Elements(prog[va].table)
      BY <3>3 DEF XRefs
    <3>5. \A x \in XRefs(va, DataRefs(prog[va]), "data") : x.type # "code"
      BY DEF XRefs
    <3>6. ASSUME NEW x \in xrefs', x.type = "code"
          PROVE  x.to \in Named(prog[x.from]) \cup Elements(prog[x.from].table)
      <4>1. CASE x \in xrefs  BY <3>6, <4>1 DEF RefsNamed, CodeRefs
      <4>2. CASE x \notin xrefs  BY <3>2, <3>4, <3>5, <3>6, <4>2
      <4>3. QED BY <4>1, <4>2
    <3>7. QED BY <3>2, <3>6 DEF RefsNamed, CodeRefs
  <2>2. CASE Skip \/ CapReached \/ WorklistEmpty
    BY <1>1, <2>2 DEF Skip, CapReached, WorklistEmpty, wsVars
  <2>3. ASSUME NEW q \in Queues, NEW max \in Caps, Begin(q, max) PROVE RefsNamed'
    BY <1>1, <2>3 DEF Begin, wsVars
  <2>4. ASSUME NEW va \in NoReturns, MarkNoReturn(va) PROVE RefsNamed'
    BY <1>1, <2>4 DEF MarkNoReturn
  <2>5. CASE UNCHANGED vars
    BY <1>1, <2>5 DEF vars, wsVars
  <2>6. QED BY <1>2, <2>1, <2>2, <2>3, <2>4, <2>5 DEF Next, Step, Finished
<1>3. CASE \/ phase = "idle" /\ Next /\ UNCHANGED blockVars
           \/ \E va \in DataVAs : DefineData(va)
           \/ \E f \in VA : Analyse(f)
  BY <1>2, <1>3, IdleLeaves
<1>4. CASE WalkStep \/ \E s \in todo : Pop(s)
  BY <1>2, <1>4, WalkLeaves
<1>5. CASE Commit
  <2>1. /\ prog' = prog /\ xrefs' = xrefs \cup Referred(Owned(codeblocks', func))
        /\ \A b \in Owned(codeblocks', func) : b.insns \in Seq(VA)
    BY <1>5, CommitEffect
  <2>2. \A x \in Referred(Owned(codeblocks', func)) : x.to \in Named(prog[x.from])
    BY <2>1, ReferredType DEF BlockTypeOK
  <2>3. QED BY <2>1, <2>2 DEF RefsNamed, CodeRefs
<1>6. CASE UNCHANGED allVars
  BY <1>2, <1>6 DEF allVars
<1>7. QED
  BY <1>3, <1>4, <1>5, <1>6 DEF BlocksNext, BlockStep, WalkStep

----------------------------------------------------------------------------
(***************************************************************************)
(* Code flow reads the cross-references that the commits add, to decide    *)
(* whether a jump table was followed before; so that its properties hold   *)
(* in the composition has to be proved.  A commit adds references from     *)
(* instructions code flow may never have decoded, but none from a jump     *)
(* through a table, which names no target.                                 *)
(***************************************************************************)
FlowInv == CallsKept /\ FlowKept /\ VisitedReachable

LEMMA FlowInvStep ==
  BlockTypeOK /\ FlowInv /\ [BlocksNext]_allVars => FlowInv'
<1> SUFFICES ASSUME BlockTypeOK, FlowInv, [BlocksNext]_allVars PROVE FlowInv'
  OBVIOUS
<1>1. ASSUME [Next]_vars PROVE FlowInv'
  BY <1>1, CallsStep, FlowStep, VisitedStep DEF BlockTypeOK, FlowInv
<1>2. CASE \/ phase = "idle" /\ Next /\ UNCHANGED blockVars
           \/ \E va \in DataVAs : DefineData(va)
           \/ \E f \in VA : Analyse(f)
  BY <1>1, <1>2, IdleLeaves
<1>3. CASE WalkStep \/ \E s \in todo : Pop(s)
  BY <1>1, <1>3, WalkLeaves
<1>4. CASE Commit
  <2>1. /\ ~running /\ xrefs' = xrefs \cup Referred(Owned(codeblocks', func))
        /\ \A b \in Owned(codeblocks', func) : b.insns \in Seq(VA)
        /\ UNCHANGED <<prog, functions, noreturn, ops, runVars, entries, cut>>
    BY <1>4, CommitEffect
  <2>2. \A x \in Referred(Owned(codeblocks', func)) : prog[x.from].table = <<>>
    BY <2>1, ReferredType DEF BlockTypeOK
  <2>3. \A va : Flow(va)' = Flow(va)  BY <2>1 DEF Flow, NeverReturns
  <2>4. FlowKept'  BY <2>1, <2>2, <2>3 DEF FlowInv, FlowKept, runVars
  <2>5. CallsKept' /\ VisitedReachable'
    BY <2>1 DEF FlowInv, CallsKept, VisitedReachable, runVars
  <2>6. QED BY <2>4, <2>5 DEF FlowInv
<1>5. CASE UNCHANGED allVars
  BY <1>1, <1>5 DEF allVars
<1>6. QED
  BY <1>2, <1>3, <1>4, <1>5 DEF BlocksNext, BlockStep, WalkStep

LEMMA FlowKnown == FlowInv => FlowClosed /\ CallTargetsAreFunctions /\ VisitedReachable
<1>1. Elements(<<>>) = {}  BY DEF Elements
<1>2. FlowKept => FlowClosed  BY <1>1 DEF FlowKept, FlowClosed
<1>3. CallsKept => CallTargetsAreFunctions  BY DEF CallsKept, CallTargetsAreFunctions
<1>4. QED BY <1>2, <1>3 DEF FlowInv

(***************************************************************************)
(* Runs of code flow between which functions get their blocks, and whose   *)
(* cross-references the block analysis extends, still leave the located    *)
(* code closed under flow, know the targets of its calls, and take nothing *)
(* for code that control cannot reach.                                     *)
(***************************************************************************)
THEOREM FlowUndisturbed ==
  BlocksSpec => [](FlowClosed /\ CallTargetsAreFunctions /\ VisitedReachable)
<1>1. BlocksInit => FlowInv
  BY DEF BlocksInit, Init, FlowInv, CallsKept, FlowKept, VisitedReachable
<1>2. FlowInv => FlowClosed /\ CallTargetsAreFunctions /\ VisitedReachable
  BY FlowKnown
<1>3. QED
  BY <1>1, <1>2, FlowInvStep, BlockTypesCorrect, PTL DEF BlocksSpec

=============================================================================
