----------------------------- MODULE PassesProofs -----------------------------
(***************************************************************************)
(* Theorems about Passes and WorkspaceEmu, for any images, any set of      *)
(* stubs and monitors and any bound of the emulator.  Each pass is shown   *)
(* to keep the shape of the workspace (Kept), by induction over the data   *)
(* that it works on (DataInduction); from that, whatever order the         *)
(* pipeline finds code in, the code it located is closed and its import    *)
(* thunks are annotated, and an emulation stays in located code.  The      *)
(* search for tables of pointers misses none, and the last search names    *)
(* every pointer that PointersNamed has named.                             *)
(***************************************************************************)
EXTENDS WorkspaceEmu, FiniteSetTheorems, SequenceTheorems, TLAPS

(* Workspaces. *)

Parts == {"loc", "order", "names", "funcs", "pend", "blocks", "xrefs", "by", "thunk", "conv",
          "argc", "apis", "noret", "go"}

\* What every pass takes for granted of the workspace, and leaves.
Shape(u) ==
  /\ DOMAIN u = Parts
  /\ Sequence(u.order) /\ Sequence(u.funcs) /\ Sequence(u.pend) /\ Sequence(u.blocks)
  /\ Elements(u.order) = DOMAIN u.loc
  /\ \A va \in DOMAIN u.loc : u.loc[va].size \in Nat \ {0}
  /\ \A va : TypeAt(u, va) \in {"Pointer", "Import"} => va \in VAs
  /\ \A b \in Elements(u.blocks) : b.va \in VAs

Ops(u) == {va \in DOMAIN u.loc : TypeAt(u, va) = "Op"}

\* What a pass does to a workspace, the instructions that it marks being in S.
Kept(S, u, v) ==
  Shape(u) =>
    /\ Shape(v)
    /\ Elements(u.funcs) \subseteq Elements(v.funcs)
    /\ Elements(v.funcs) \subseteq Elements(u.funcs) \cup Elements(v.pend)
    /\ Elements(u.pend) \subseteq Elements(v.pend)
    /\ u.apis \subseteq v.apis /\ u.noret \subseteq v.noret
    /\ \A va : TypeAt(v, va) = "Import" => TypeAt(u, va) = "Import"
    /\ Ops(u) \subseteq Ops(v) /\ Ops(v) \subseteq Ops(u) \cup S

\* What the induction of DataInduction is about unless an instance says otherwise.
Def(c, f, d) == d
Rank(c, d) == d
Good(c, d, v) == TRUE
Step(c, u, x) == u
Rel(c, u, v) == Kept({}, u, v)

\* Chosen goes through the positions of its sequence.
ChosenTo(c, f, n) ==
  IF n = 0 THEN <<>> ELSE IF c[1][n] \in c[2] THEN Append(f[n - 1], c[1][n]) ELSE f[n - 1]
ChosenGood(c, n, v) ==
  /\ v \in Seq(Elements(c[1]) \cap c[2])
  /\ \A i \in 1 .. n : c[1][i] \in c[2] => c[1][i] \in Elements(v)
Ch == INSTANCE DataInduction WITH Def <- ChosenTo, Good <- ChosenGood

JoinedStep(c, sofar, x) == sofar \o c[1][x]
JoinedRel(c, u, v) == u \in Seq(c[2]) => v \in Seq(c[2]) /\ Elements(u) \subseteq Elements(v)
Jo == INSTANCE DataInduction WITH Step <- JoinedStep, Rel <- JoinedRel

----------------------------------------------------------------------------
(* Sequences. *)

\* A sequence over some set is one over its elements.
LEMMA SequenceOf ==
  ASSUME NEW A, NEW q \in Seq(A)
  PROVE  Sequence(q) /\ Elements(q) \subseteq A
<1>1. \A i \in DOMAIN q : q[i] \in Elements(q)  BY DEF Elements
<1>2. q \in Seq(Elements(q))
  BY <1>1, IsASeq, Len(q) \in Nat, q = [i \in 1 .. Len(q) |-> q[i]], DOMAIN q = 1 .. Len(q)
<1> QED  BY <1>2 DEF Sequence, Elements

\* A function on the first n numbers is a sequence.
LEMMA FunctionSequence ==
  ASSUME NEW n \in Nat, NEW q, DOMAIN q = 1 .. n, q = [i \in 1 .. n |-> q[i]]
  PROVE  Sequence(q) /\ Len(q) = n
<1>1. \A i \in 1 .. n : q[i] \in Elements(q)  BY DEF Elements
<1>2. q \in Seq(Elements(q))
  BY <1>1, IsASeq
<1> QED  BY <1>2 DEF Sequence

\* A sequence holds its elements, at the positions from 1 to its length.
LEMMA SequenceIs ==
  ASSUME NEW q, Sequence(q)
  PROVE  /\ q \in Seq(Elements(q)) /\ Len(q) \in Nat /\ DOMAIN q = 1 .. Len(q)
         /\ \A i \in DOMAIN q : q[i] \in Elements(q)
BY DEF Sequence, Elements

\* Append adds one element and leaves a sequence.
LEMMA AppendIs ==
  ASSUME NEW A, NEW q \in Seq(A), NEW x
  PROVE  Sequence(Append(q, x)) /\ Elements(Append(q, x)) = Elements(q) \cup {x}
<1>1. q \in Seq(A \cup {x}) /\ x \in A \cup {x}  OBVIOUS
<1> DEFINE r == Append(q, x)
<1>2. /\ r \in Seq(A \cup {x}) /\ Len(q) \in Nat
      /\ DOMAIN q = 1 .. Len(q) /\ DOMAIN r = 1 .. Len(q) + 1
      /\ r[Len(q) + 1] = x
      /\ \A j \in DOMAIN q : r[j] = q[j]
  BY <1>1
<1> HIDE DEF r
<1>3. \A j \in DOMAIN r : j \in DOMAIN q \/ j = Len(q) + 1
  BY <1>2
<1>4. Elements(r) = Elements(q) \cup {x}
  BY <1>2, <1>3 DEF Elements
<1> QED  BY <1>2, <1>4, SequenceOf DEF r

\* Chosen leaves the elements that are in S, by induction over the sequence.
LEMMA ChosenIs ==
  ASSUME NEW q, Sequence(q), NEW S
  PROVE  Sequence(Chosen(q, S)) /\ Elements(Chosen(q, S)) = Elements(q) \cap S
<1> DEFINE c == <<q, S>>
           E == Elements(q) \cap S
           D == 0 .. Len(q)
           R == Ch!Recursive(c, D)
<1>1. Len(q) \in Nat /\ DOMAIN q = 1 .. Len(q)  BY SequenceIs
<1>2. Chosen(q, S) = R[Len(q)]
  BY Zenon DEF Chosen, Ch!Recursive, ChosenTo
<1>3. Ch!Ranked(c, D, Len(q))
  BY <1>1 DEF Ch!Ranked, Rank, ChosenTo
<1>4. ASSUME NEW f, NEW d \in D, \A b \in D : Rank(c, b) < Rank(c, d) => ChosenGood(c, b, f[b])
      PROVE  ChosenGood(c, d, ChosenTo(c, f, d))
  <2>1. CASE d = 0
    BY <2>1 DEF ChosenGood, ChosenTo
  <2>2. CASE d # 0
    <3>1. d - 1 \in D /\ d - 1 < d /\ d \in DOMAIN q  BY <1>1, <2>2
    <3>2. /\ f[d - 1] \in Seq(E)
          /\ \A i \in 1 .. d - 1 : q[i] \in S => q[i] \in Elements(f[d - 1])
      BY <1>4, <3>1 DEF Rank, ChosenGood
    <3>3. CASE q[d] \in S
      <4>1. q[d] \in E  BY <3>1, <3>3, SequenceIs
      <4>2. ChosenTo(c, f, d) = Append(f[d - 1], q[d])  BY <2>2, <3>3 DEF ChosenTo
      <4>3. Append(f[d - 1], q[d]) \in Seq(E)  BY <3>2, <4>1
      <4>4. Elements(Append(f[d - 1], q[d])) = Elements(f[d - 1]) \cup {q[d]}
        BY <3>2, AppendIs
      <4>5. \A i \in 1 .. d : i \in 1 .. d - 1 \/ i = d  BY <3>1
      <4> QED  BY <3>2, <4>2, <4>3, <4>4, <4>5 DEF ChosenGood
    <3>4. CASE q[d] \notin S
      <4>1. ChosenTo(c, f, d) = f[d - 1]  BY <2>2, <3>4 DEF ChosenTo
      <4>2. \A i \in 1 .. d : i \in 1 .. d - 1 \/ i = d  BY <3>1
      <4> QED  BY <3>2, <3>4, <4>1, <4>2 DEF ChosenGood
    <3> QED  BY <3>3, <3>4
  <2> QED  BY <2>1, <2>2
<1> HIDE DEF c
<1>5. \A d \in D : ChosenGood(c, d, R[d])
  BY <1>1, <1>3, <1>4, Ch!RecursionKeeps
<1> HIDE DEF R
<1>6. ChosenGood(c, Len(q), R[Len(q)])
  BY <1>1, <1>5
<1>7. /\ R[Len(q)] \in Seq(E)
      /\ \A i \in 1 .. Len(q) : q[i] \in S => q[i] \in Elements(R[Len(q)])
  BY <1>6 DEF ChosenGood, c
<1>8. Sequence(R[Len(q)]) /\ Elements(R[Len(q)]) \subseteq E
  BY <1>7, SequenceOf
<1> HIDE DEF E
<1>9. \A x \in E : x \in Elements(R[Len(q)])
  BY <1>1, <1>7 DEF E, Elements
<1> QED  BY <1>2, <1>8, <1>9 DEF E

\* Ascending puts the addresses of a set in order and drops the rest.
LEMMA AscendingIs ==
  ASSUME NEW S
  PROVE  Sequence(Ascending(S)) /\ Elements(Ascending(S)) = S \cap VAs
<1> DEFINE q == [i \in 1 .. Top + 1 |-> i - 1]
<1>1. DOMAIN q = 1 .. Top + 1 /\ Top + 1 \in Nat /\ \A i \in 1 .. Top + 1 : q[i] = i - 1
  BY ImageAssumption
<1>2. Sequence(q)
  <2>1. q = [i \in 1 .. Top + 1 |-> q[i]]  OBVIOUS
  <2> HIDE DEF q
  <2> QED  BY <1>1, <2>1, FunctionSequence
<1> HIDE DEF q
<1>3. Elements(q) = VAs
  <2>1. \A va \in VAs : va + 1 \in 1 .. Top + 1 /\ q[va + 1] = va
    BY <1>1, ImageAssumption DEF VAs
  <2>2. \A i \in 1 .. Top + 1 : q[i] \in VAs
    BY <1>1, ImageAssumption DEF VAs
  <2> QED  BY <1>1, <2>1, <2>2 DEF Elements
<1>4. Ascending(S) = Chosen(q, S)
  BY Zenon DEF Ascending, q
<1> QED  BY <1>2, <1>3, <1>4, ChosenIs

\* Joined concatenates the sequences f[x], by induction over q.
LEMMA JoinedIs ==
  ASSUME NEW q, Sequence(q), NEW f, NEW B, \A x \in Elements(q) : f[x] \in Seq(B)
  PROVE  /\ Joined(q, f) \in Seq(B)
         /\ \A x \in Elements(q) : Elements(f[x]) \subseteq Elements(Joined(q, f))
<1> DEFINE c == <<f, B>>
<1>1. Joined(q, f) = Jo!Fold(c, <<>>, q)
  BY Zenon DEF Joined, JoinedStep, Jo!Fold, FoldLeft, Jo!MapThenFoldSet, MapThenFoldSet,
    Jo!Max, Max
<1>2. Len(q) \in Nat /\ DOMAIN q = 1 .. Len(q) /\ \A i \in DOMAIN q : q[i] \in Elements(q)
  BY SequenceIs
<1>3. ASSUME NEW u \in Seq(B), NEW x \in Elements(q)
      PROVE  /\ u \o f[x] \in Seq(B) /\ Elements(u) \subseteq Elements(u \o f[x])
             /\ Elements(f[x]) \subseteq Elements(u \o f[x])
  <2> DEFINE r == f[x]
             j == u \o r
  <2>1. r \in Seq(B)  OBVIOUS
  <2> HIDE DEF r
  <2>2. /\ j \in Seq(B) /\ Len(u) \in Nat /\ Len(r) \in Nat /\ DOMAIN u = 1 .. Len(u)
        /\ DOMAIN r = 1 .. Len(r) /\ DOMAIN j = 1 .. Len(u) + Len(r)
        /\ \A i \in 1 .. Len(u) : j[i] = u[i]
        /\ \A i \in 1 .. Len(r) : j[Len(u) + i] = r[i]
    BY <2>1
  <2> HIDE DEF j
  <2>3. \A i \in 1 .. Len(u) : i \in DOMAIN j  BY <2>2
  <2>4. \A i \in 1 .. Len(r) : Len(u) + i \in DOMAIN j  BY <2>2
  <2> QED  BY <2>2, <2>3, <2>4 DEF Elements, j, r
<1>4. Jo!Related(c, <<>>, q)
  <2>1. \A u : JoinedRel(c, u, u)  BY DEF JoinedRel
  <2>2. \A u, v, x : JoinedRel(c, u, v) /\ JoinedRel(c, v, x) => JoinedRel(c, u, x)
    BY DEF JoinedRel
  <2>3. ASSUME NEW u, NEW i \in DOMAIN q  PROVE JoinedRel(c, u, JoinedStep(c, u, q[i]))
    BY <1>2, <1>3 DEF JoinedRel, JoinedStep
  <2> HIDE DEF c
  <2> QED  BY <2>1, <2>2, <2>3 DEF Jo!Related
<1> DEFINE F == Jo!Fold(c, <<>>, q)
<1>5. /\ JoinedRel(c, <<>>, F)
      /\ \A i \in DOMAIN q : \E u : JoinedRel(c, <<>>, u) /\ JoinedRel(c, JoinedStep(c, u, q[i]), F)
  <2> HIDE DEF c
  <2> QED  BY <1>2, <1>4, Jo!FoldKeeps
<1> HIDE DEF F
<1>6. <<>> \in Seq(B)  OBVIOUS
<1>7. F \in Seq(B)  BY <1>5, <1>6 DEF JoinedRel
<1>8. ASSUME NEW x \in Elements(q)  PROVE Elements(f[x]) \subseteq Elements(F)
  <2>1. PICK i \in DOMAIN q : x = q[i]  BY DEF Elements
  <2>2. PICK u : JoinedRel(c, <<>>, u) /\ JoinedRel(c, JoinedStep(c, u, q[i]), F)
    BY <1>5
  <2>3. u \in Seq(B)  BY <1>6, <2>2 DEF JoinedRel
  <2>4. u \o f[x] \in Seq(B) /\ Elements(f[x]) \subseteq Elements(u \o f[x])
    BY <1>3, <2>3
  <2> QED  BY <2>1, <2>2, <2>4 DEF JoinedRel, JoinedStep
<1> QED  BY <1>1, <1>7, <1>8 DEF F

----------------------------------------------------------------------------
(* Workspaces. *)

\* Passes one after another keep what each keeps.
LEMMA KeptIsOrder ==
  ASSUME NEW S
  PROVE  /\ \A u : Kept(S, u, u)
         /\ \A u, v, x : Kept(S, u, v) /\ Kept(S, v, x) => Kept(S, u, x)
BY DEF Kept

\* The parts of a workspace that Kept is not about.
LEMMA SameIsKept ==
  ASSUME NEW S, NEW u, NEW v, DOMAIN v = DOMAIN u,
         v.loc = u.loc, v.order = u.order, v.funcs = u.funcs, v.pend = u.pend,
         v.blocks = u.blocks, u.apis \subseteq v.apis, u.noret \subseteq v.noret
  PROVE  Kept(S, u, v)
BY DEF Kept, Shape, Ops, TypeAt

\* Names, references, thunks, conventions and counts are not what a pass relies on.
LEMMA Annotated ==
  ASSUME NEW S, NEW u, NEW x
  PROVE  /\ Kept(S, u, [u EXCEPT !.names = x]) /\ Kept(S, u, [u EXCEPT !.xrefs = x])
         /\ Kept(S, u, [u EXCEPT !.thunk = x]) /\ Kept(S, u, [u EXCEPT !.conv = x])
         /\ Kept(S, u, [u EXCEPT !.argc = x]) /\ Kept(S, u, [u EXCEPT !.go = x])
<1> SUFFICES ASSUME Shape(u)
             PROVE  /\ Kept(S, u, [u EXCEPT !.names = x]) /\ Kept(S, u, [u EXCEPT !.xrefs = x])
                    /\ Kept(S, u, [u EXCEPT !.thunk = x]) /\ Kept(S, u, [u EXCEPT !.conv = x])
                    /\ Kept(S, u, [u EXCEPT !.argc = x]) /\ Kept(S, u, [u EXCEPT !.go = x])
  BY DEF Kept
<1>1. DOMAIN u = Parts  BY DEF Shape
<1>2. Kept(S, u, [u EXCEPT !.names = x])  BY <1>1, SameIsKept DEF Parts
<1>3. Kept(S, u, [u EXCEPT !.xrefs = x])  BY <1>1, SameIsKept DEF Parts
<1>4. Kept(S, u, [u EXCEPT !.thunk = x])  BY <1>1, SameIsKept DEF Parts
<1>5. Kept(S, u, [u EXCEPT !.conv = x])  BY <1>1, SameIsKept DEF Parts
<1>6. Kept(S, u, [u EXCEPT !.argc = x])  BY <1>1, SameIsKept DEF Parts
<1>7. Kept(S, u, [u EXCEPT !.go = x])  BY <1>1, SameIsKept DEF Parts
<1> QED  BY <1>2, <1>3, <1>4, <1>5, <1>6, <1>7

\* The setters of names and references change nothing else.
LEMMA NamesKept ==
  ASSUME NEW S, NEW u, NEW va, NEW x, NEW y
  PROVE  /\ Kept(S, u, SetName(u, va, x)) /\ Kept(S, u, AddXref(u, va, x, y))
         /\ Kept(S, u, AddXrefs(u, x))
BY Annotated DEF SetName, AddXref, AddXrefs

\* add_location: an instruction is not overwritten by anything else, an import
\* is not made, and a pointer is at an address.
LEMMA AddLocKeeps ==
  ASSUME NEW S, NEW u, NEW va, NEW size \in Nat \ {0}, NEW type,
         va \in Ops(u) => type = "Op", type = "Op" => va \in S,
         type # "Import", type = "Pointer" => va \in VAs
  PROVE  Kept(S, u, AddLoc(u, va, size, type))
<1> SUFFICES ASSUME Shape(u)  PROVE Kept(S, u, AddLoc(u, va, size, type))
  BY DEF Kept
<1> DEFINE v == AddLoc(u, va, size, type)
<1>1. /\ DOMAIN v = DOMAIN u /\ v.funcs = u.funcs /\ v.pend = u.pend /\ v.blocks = u.blocks
      /\ v.apis = u.apis /\ v.noret = u.noret
      /\ v.loc = Put(u.loc, va, [size |-> size, type |-> type])
      /\ v.order = IF Located(u, va) THEN u.order ELSE Append(u.order, va)
  BY DEF AddLoc, Shape, Parts
<1> HIDE DEF v
<1>2. /\ DOMAIN v.loc = DOMAIN u.loc \cup {va}
      /\ v.loc[va] = [size |-> size, type |-> type]
      /\ \A a \in DOMAIN u.loc \ {va} : v.loc[a] = u.loc[a]
  BY <1>1 DEF Put
<1>3. TypeAt(v, va) = type /\ \A a : a # va => TypeAt(v, a) = TypeAt(u, a)
  BY <1>2 DEF TypeAt
<1>4. Sequence(v.order) /\ Elements(v.order) = DOMAIN v.loc
  <2>1. Sequence(u.order) /\ Elements(u.order) = DOMAIN u.loc  BY DEF Shape
  <2>2. /\ Sequence(Append(u.order, va))
        /\ Elements(Append(u.order, va)) = Elements(u.order) \cup {va}
    BY <2>1, SequenceIs, AppendIs
  <2> QED  BY <1>1, <1>2, <2>1, <2>2 DEF Located
<1>5. \A a \in DOMAIN v.loc : v.loc[a].size \in Nat \ {0}
  BY <1>2 DEF Shape
<1>6. Shape(v)
  BY <1>1, <1>3, <1>4, <1>5 DEF Shape
<1>7. Ops(u) \subseteq Ops(v) /\ Ops(v) \subseteq Ops(u) \cup S
  BY <1>2, <1>3 DEF Ops
<1> QED  BY <1>1, <1>3, <1>6, <1>7 DEF Kept, v

\* A location where there is none keeps the instructions.
LEMMA AddFreeLocKeeps ==
  ASSUME NEW S, NEW u, NEW va, NEW size \in Nat \ {0}, NEW type, type \notin {"Op", "Import"},
         type = "Pointer" => va \in VAs
  PROVE  Kept(S, u, AddFreeLoc(u, va, size, type))
<1>1. CASE Located(u, va)
  BY <1>1, KeptIsOrder DEF AddFreeLoc
<1>2. CASE ~Located(u, va)
  <2>1. va \notin Ops(u)  BY <1>2 DEF Ops, Located
  <2>2. Kept(S, u, AddLoc(u, va, size, type))
    BY <2>1, AddLocKeeps
  <2> QED  BY <1>2, <2>2 DEF AddFreeLoc
<1> QED  BY <1>1, <1>2

\* A pointer is marked where no location is.
LEMMA MarkPointerKeeps ==
  ASSUME NEW S, NEW u, NEW va \in VAs
  PROVE  Kept(S, u, MarkPointer(u, va))
<1>1. PtrSize \in Nat \ {0}  BY ImageAssumption
<1> QED  BY <1>1, AddFreeLocKeeps DEF MarkPointer

\* add_function: the address is a function then, and waits for the cascade if it is new.
LEMMA AddFnKeeps ==
  ASSUME NEW S, NEW u, NEW va, NEW by
  PROVE  /\ Kept(S, u, AddFn(u, va, by))
         /\ Shape(u) => va \in Elements(AddFn(u, va, by).funcs)
<1>1. CASE IsFunction(u, va)
  BY <1>1, KeptIsOrder DEF AddFn, IsFunction
<1>2. CASE ~IsFunction(u, va)
  <2> SUFFICES ASSUME Shape(u)
               PROVE  Kept(S, u, AddFn(u, va, by)) /\ va \in Elements(AddFn(u, va, by).funcs)
    BY DEF Kept
  <2> DEFINE v == AddFn(u, va, by)
  <2>1. /\ DOMAIN v = DOMAIN u /\ v.loc = u.loc /\ v.order = u.order /\ v.blocks = u.blocks
        /\ v.apis = u.apis /\ v.noret = u.noret
        /\ v.funcs = Append(u.funcs, va) /\ v.pend = Append(u.pend, va)
    BY <1>2 DEF AddFn, Shape, Parts
  <2> HIDE DEF v
  <2>2. /\ Sequence(v.funcs) /\ Elements(v.funcs) = Elements(u.funcs) \cup {va}
        /\ Sequence(v.pend) /\ Elements(v.pend) = Elements(u.pend) \cup {va}
    BY <2>1, SequenceIs, AppendIs DEF Shape
  <2>3. Shape(v)
    BY <2>1, <2>2 DEF Shape, TypeAt
  <2>4. Ops(v) = Ops(u) /\ \A a : TypeAt(v, a) = TypeAt(u, a)
    BY <2>1 DEF Ops, TypeAt
  <2> QED  BY <2>1, <2>2, <2>3, <2>4 DEF Kept, v
<1> QED  BY <1>1, <1>2

\* add_code_block: a block is stored under an address.
LEMMA AddBlockKeeps ==
  ASSUME NEW S, NEW u, NEW va \in VAs, NEW size, NEW f
  PROVE  Kept(S, u, AddBlock(u, va, size, f))
<1> SUFFICES ASSUME Shape(u)  PROVE Kept(S, u, AddBlock(u, va, size, f))
  BY DEF Kept
<1> DEFINE v == AddBlock(u, va, size, f)
           new == [va |-> va, size |-> size, func |-> f]
           old == u.blocks
           replaced == [i \in DOMAIN old |-> IF old[i].va = va THEN new ELSE old[i]]
<1>1. /\ DOMAIN v = DOMAIN u /\ v.loc = u.loc /\ v.order = u.order /\ v.funcs = u.funcs
      /\ v.pend = u.pend /\ v.apis = u.apis /\ v.noret = u.noret
      /\ v.blocks = Append(old, new) \/ v.blocks = replaced
  BY DEF AddBlock, Shape, Parts
<1>2. Len(old) \in Nat /\ DOMAIN old = 1 .. Len(old) /\ \A i \in DOMAIN old : old[i] \in Elements(old)
  BY SequenceIs DEF Shape
<1>3. \A b \in Elements(old) : b.va \in VAs
  BY DEF Shape
<1>4. Sequence(replaced) /\ \A b \in Elements(replaced) : b.va \in VAs
  <2>1. DOMAIN replaced = 1 .. Len(old) /\ replaced = [i \in 1 .. Len(old) |-> replaced[i]]
    BY <1>2
  <2>2. \A i \in DOMAIN old : replaced[i].va \in VAs
    BY <1>2, <1>3
  <2> HIDE DEF replaced
  <2> QED  BY <1>2, <2>1, <2>2, FunctionSequence DEF Elements
<1>5. Sequence(Append(old, new)) /\ \A b \in Elements(Append(old, new)) : b.va \in VAs
  <2>1. Sequence(Append(old, new)) /\ Elements(Append(old, new)) = Elements(old) \cup {new}
    BY SequenceIs, AppendIs DEF Shape
  <2>2. new.va \in VAs  OBVIOUS
  <2> QED  BY <1>3, <2>1, <2>2
<1> HIDE DEF v, replaced, new
<1>6. Sequence(v.blocks) /\ \A b \in Elements(v.blocks) : b.va \in VAs
  BY <1>1, <1>4, <1>5
<1>7. Shape(v) /\ Ops(v) = Ops(u) /\ \A a : TypeAt(v, a) = TypeAt(u, a)
  BY <1>1, <1>6 DEF Shape, TypeAt, Ops
<1> QED  BY <1>1, <1>7 DEF Kept, v

FnStep(c, u, va) == AddFn(u, va, c)
Fn == INSTANCE DataInduction WITH Step <- FnStep

MarkStep(c, u, va) == AddLoc(u, va, c[1].insn[va].size, "Op")
MarkRel(c, u, v) == Kept(c[2], u, v)
Mk == INSTANCE DataInduction WITH Step <- MarkStep, Rel <- MarkRel

PltStep(c, u, va) == AddPltEntry(c, u, va)
Pl == INSTANCE DataInduction WITH Step <- PltStep

\* What marks fewer instructions keeps as much.
LEMMA KeptWider ==
  ASSUME NEW S, NEW T, S \subseteq T, NEW u, NEW v, Kept(S, u, v)
  PROVE  Kept(T, u, v)
BY DEF Kept

\* Functions added one by one are all functions then.
LEMMA AddFnsKeeps ==
  ASSUME NEW u, NEW vas, Sequence(vas), NEW by
  PROVE  /\ Kept({}, u, AddFns(u, vas, by))
         /\ Shape(u) => Elements(vas) \subseteq Elements(AddFns(u, vas, by).funcs)
<1>1. AddFns(u, vas, by) = Fn!Fold(by, u, vas)
  BY Zenon DEF AddFns, FnStep, Fn!Fold, FoldLeft, Fn!MapThenFoldSet, MapThenFoldSet,
    Fn!Max, Max
<1>2. Len(vas) \in Nat /\ DOMAIN vas = 1 .. Len(vas)
  BY SequenceIs
<1>3. Fn!Related(by, u, vas)
  BY KeptIsOrder, AddFnKeeps DEF Fn!Related, Rel, FnStep
<1> DEFINE F == Fn!Fold(by, u, vas)
<1>4. /\ Rel(by, u, F)
      /\ \A i \in DOMAIN vas : \E x : Rel(by, u, x) /\ Rel(by, FnStep(by, x, vas[i]), F)
  BY <1>2, <1>3, Fn!FoldKeeps
<1> HIDE DEF F
<1>5. ASSUME Shape(u), NEW va \in Elements(vas)  PROVE va \in Elements(F.funcs)
  <2>1. PICK i \in DOMAIN vas : va = vas[i]  BY DEF Elements
  <2>2. PICK x : Rel(by, u, x) /\ Rel(by, FnStep(by, x, vas[i]), F)  BY <1>4
  <2>3. Shape(x)  BY <1>5, <2>2 DEF Rel, Kept
  <2>4. Shape(AddFn(x, va, by)) /\ va \in Elements(AddFn(x, va, by).funcs)
    BY <2>3, AddFnKeeps DEF Kept
  <2> QED  BY <2>1, <2>2, <2>4 DEF Rel, Kept, FnStep
<1> QED  BY <1>1, <1>4, <1>5 DEF F, Rel

\* A pass that adds functions one by one.
LEMMA EntryPointsKept ==
  ASSUME im \in Images, NEW u
  PROVE  /\ Kept({}, u, EntryPoints(im, u))
         /\ Shape(u) => Elements(im.entries) \subseteq Elements(EntryPoints(im, u).funcs)
BY PassesAssumption, AddFnsKeeps DEF EntryPoints

\* The marking of instructions marks just those.
LEMMA MarkedKeeps ==
  ASSUME NEW i, NEW u, NEW S, S \subseteq VAs, \A va \in S : i.insn[va].size \in Nat \ {0}
  PROVE  LET v == Mk!Fold(<<i, S>>, u, Ascending(S))
         IN  Kept(S, u, v) /\ (Shape(u) => S \subseteq Ops(v))
<1> DEFINE c == <<i, S>>
           q == Ascending(S)
           F == Mk!Fold(c, u, q)
<1>2. Sequence(q) /\ Elements(q) = S
  BY AscendingIs
<1>3. Len(q) \in Nat /\ DOMAIN q = 1 .. Len(q) /\ \A k \in DOMAIN q : q[k] \in S
  BY <1>2, SequenceIs
<1> HIDE DEF q
<1>4. Mk!Related(c, u, q)
  <2>1. \A x : MarkRel(c, x, x)  BY KeptIsOrder DEF MarkRel
  <2>2. \A x, y, z : MarkRel(c, x, y) /\ MarkRel(c, y, z) => MarkRel(c, x, z)
    BY KeptIsOrder DEF MarkRel
  <2>3. ASSUME NEW x, NEW k \in DOMAIN q  PROVE MarkRel(c, x, MarkStep(c, x, q[k]))
    BY <1>3, AddLocKeeps DEF MarkRel, MarkStep
  <2> HIDE DEF c
  <2> QED  BY <2>1, <2>2, <2>3 DEF Mk!Related
<1>5. /\ MarkRel(c, u, F)
      /\ \A k \in DOMAIN q : \E x : MarkRel(c, u, x) /\ MarkRel(c, MarkStep(c, x, q[k]), F)
  <2> HIDE DEF c
  <2> QED  BY <1>3, <1>4, Mk!FoldKeeps
<1> HIDE DEF F
<1>6. ASSUME Shape(u), NEW va \in S  PROVE va \in Ops(F)
  <2>1. PICK k \in DOMAIN q : va = q[k]  BY <1>2 DEF Elements
  <2>2. PICK x : MarkRel(c, u, x) /\ MarkRel(c, MarkStep(c, x, q[k]), F)  BY <1>5
  <2> DEFINE m == AddLoc(x, va, i.insn[va].size, "Op")
  <2>3. Shape(x)  BY <1>6, <2>2 DEF MarkRel, Kept
  <2>4. Shape(m)
    <3>1. Kept(S, x, m)  BY AddLocKeeps
    <3> QED  BY <2>3, <3>1 DEF Kept
  <2>5. m.loc = Put(x.loc, va, [size |-> i.insn[va].size, type |-> "Op"])
    BY <2>3 DEF AddLoc, Shape, Parts
  <2> HIDE DEF m
  <2>6. va \in DOMAIN m.loc /\ m.loc[va].type = "Op"  BY <2>5 DEF Put
  <2>7. va \in Ops(m)  BY <2>6 DEF Ops, TypeAt
  <2> QED  BY <2>1, <2>2, <2>4, <2>7 DEF MarkRel, MarkStep, Kept, m
<1> QED  BY <1>5, <1>6 DEF MarkRel, F, q

ReachedTo(c, f, n) ==
  IF n = 0 THEN {va \in c[3] : Decodes(c[1], va)}
  ELSE Onward(c[1], c[2], f[n - 1])
Re == INSTANCE DataInduction WITH Def <- ReachedTo

\* All that the marked instructions lead to is marked, as far as calls return,
\* and what they call is a function or begins with a call through an import.
Closes(v) ==
  \A va \in Ops(v) :
    /\ FlowFrom(im, v, va) \subseteq Ops(v)
    /\ im.insn[va].kind = "call" =>
         \A t \in Direct(im.insn[va]) :
           IsValidPointer(im, t) => t \in Elements(v.funcs) \/ CallsImport(t)

Passed(u, v) == Kept(VAs, u, v) /\ (Closes(u) => Closes(v))

\* What is reached from the entries is closed under the flow: there is no
\* room for more than Top + 1 rounds.
LEMMA ReachedIs ==
  ASSUME NEW i, NEW u, NEW E
  PROVE  /\ Reached(i, u, E) \subseteq {va \in VAs : Decodes(i, va)}
         /\ \A va \in Reached(i, u, E) : FlowFrom(i, u, va) \subseteq Reached(i, u, E)
<1> DEFINE c == <<i, u, E>>
           N == Top + 1
           D == 0 .. N
           R == Re!Recursive(c, D)
           Stays(n) == R[n] \subseteq VAs /\ \A va \in R[n] : Decodes(i, va)
           S == {n \in D : Stays(n) /\ (Onward(i, u, R[n]) = R[n] \/ Cardinality(R[n]) >= n)}
<1>1. Reached(i, u, E) = R[N]
  BY Zenon DEF Reached, Re!Recursive, ReachedTo
<1>2. N \in Nat  BY ImageAssumption
<1>3. \A n \in D : R[n] = ReachedTo(c, R, n)
  <2>1. Re!Ranked(c, D, N)
    BY <1>2 DEF Re!Ranked, Rank, ReachedTo
  <2> HIDE DEF c
  <2> QED  BY <1>2, <2>1, Re!RecursionHolds
<1> HIDE DEF R
<1>4. R[0] = {va \in E : Decodes(i, va)}
  <2>1. R[0] = ReachedTo(c, R, 0)  BY <1>2, <1>3
  <2> QED  BY <2>1, Zenon DEF ReachedTo
<1>5. \A n \in 0 .. N - 1 : R[n + 1] = Onward(i, u, R[n])
  <2> TAKE n \in 0 .. N - 1
  <2>1. n + 1 \in D /\ n + 1 # 0 /\ (n + 1) - 1 = n  BY <1>2
  <2>2. R[n + 1] = ReachedTo(c, R, n + 1)  BY <1>3, <2>1
  <2> QED  BY <2>1, <2>2 DEF ReachedTo
<1>6. IsFiniteSet(VAs) /\ Cardinality(VAs) = N
  BY FS_Interval, ImageAssumption DEF VAs
<1>7. \A X : X \subseteq VAs /\ (\A va \in X : Decodes(i, va))
        => Onward(i, u, X) \subseteq VAs /\ \A va \in Onward(i, u, X) : Decodes(i, va)
  BY DEF Onward, FlowFrom, Decodes
<1>8. 0 \in S
  <2>1. Stays(0)  BY <1>4 DEF Decodes
  <2>2. Cardinality(R[0]) \in Nat
    BY <1>6, <2>1, FS_Subset, FS_CardinalityType
  <2> QED  BY <1>2, <2>1, <2>2
<1>9. ASSUME NEW n \in 0 .. N - 1, n \in S  PROVE n + 1 \in S
  <2>1. R[n + 1] = Onward(i, u, R[n])  BY <1>5
  <2>2. Stays(n)  BY <1>9
  <2>3. Stays(n + 1)  BY <1>7, <2>1, <2>2
  <2>4. CASE Onward(i, u, R[n]) = R[n]
    BY <1>2, <2>1, <2>3, <2>4
  <2>5. CASE Onward(i, u, R[n]) # R[n]
    <3>1. R[n] \subseteq R[n + 1] /\ R[n] # R[n + 1]  BY <2>1, <2>5 DEF Onward
    <3>2. IsFiniteSet(R[n + 1]) /\ Cardinality(R[n + 1]) \in Nat
      BY <1>6, <2>3, FS_Subset, FS_CardinalityType
    <3>3. IsFiniteSet(R[n]) /\ Cardinality(R[n]) \in Nat
      BY <1>6, <2>2, FS_Subset, FS_CardinalityType
    <3>4. Cardinality(R[n]) <= Cardinality(R[n + 1]) /\ Cardinality(R[n]) # Cardinality(R[n + 1])
      BY <3>1, <3>2, FS_Subset
    <3>5. Cardinality(R[n]) >= n  BY <1>9, <2>5
    <3>6. Cardinality(R[n + 1]) >= n + 1  BY <3>2, <3>3, <3>4, <3>5
    <3> QED  BY <1>2, <2>3, <3>6
  <2> QED  BY <2>4, <2>5
<1>10. N \in S
  <2> HIDE DEF S
  <2>1. \A n \in 0 .. N : n \in S  BY <1>2, <1>8, <1>9, Re!UpTo
  <2> QED  BY <1>2, <2>1
<1>11. Stays(N)  BY <1>10
<1>12. Onward(i, u, R[N]) = R[N]
  <2>1. CASE Cardinality(R[N]) >= N
    <3>1. R[N] = VAs
      BY <1>6, <1>11, <1>2, <2>1, FS_Subset, FS_CardinalityType
    <3> QED  BY <1>7, <1>11, <3>1 DEF Onward
  <2> QED  BY <1>10, <2>1
<1> QED  BY <1>1, <1>11, <1>12 DEF Onward

\* What code flow decodes has a size.
LEMMA ReachedSized ==
  ASSUME im \in Images, NEW u, NEW E
  PROVE  \A va \in Reached(im, u, E) : va \in VAs /\ im.insn[va].size \in Nat \ {0}
BY ReachedIs, PassesAssumption DEF Decodes

\* Where something is mapped there is an address.
LEMMA PointersAreAddresses ==
  ASSUME im \in Images, NEW t \in Nat, IsValidPointer(im, t)
  PROVE  t \in VAs
BY PassesAssumption, ImageAssumption DEF IsValidPointer, Reads, Within, End, VAs

\* Where more calls do not return, code flow goes on at fewer places.
LEMMA FlowShrinks ==
  ASSUME NEW i, NEW u, NEW v, u.noret \subseteq v.noret, NEW va
  PROVE  FlowFrom(i, v, va) \subseteq FlowFrom(i, u, va)
<1>1. \A x : GoesOn(v, x) => GoesOn(u, x)
  BY DEF GoesOn, NeverReturns
<1> QED  BY <1>1 DEF FlowFrom

\* A pass that marks nothing leaves closed what was closed.
LEMMA MarksNothing ==
  ASSUME NEW u, NEW v, Shape(u), Kept({}, u, v)
  PROVE  Passed(u, v)
<1>1. /\ Ops(v) = Ops(u) /\ Elements(u.funcs) \subseteq Elements(v.funcs)
      /\ u.noret \subseteq v.noret
  BY DEF Kept
<1>2. Closes(u) => Closes(v)
  BY <1>1, FlowShrinks DEF Closes
<1>3. Kept(VAs, u, v)  BY KeptWider
<1> QED  BY <1>2, <1>3 DEF Passed

\* Code flow from entries that are functions, or calls through imports.
LEMMA FlowPasses ==
  ASSUME im \in Images, NEW u, Shape(u), NEW q,
         \A t \in Elements(q) : t \in Elements(u.funcs) \/ CallsImport(t)
  PROVE  Passed(u, Flow(im, u, q))
<1> DEFINE reached == Reached(im, u, Elements(q))
           called == {t \in UNION {Direct(im.insn[va]) : va \in {a \in reached : im.insn[a].kind = "call"}} :
                        IsValidPointer(im, t)}
           marked == Mk!Fold(<<im, reached>>, u, Ascending(reached))
           code == UNION {{<<va, t, "Code">> : t \in Named(im.insn[va]) \cup Tabled(im, u, va)} : va \in reached}
           begun == Elements(q) \cup {After(im, va) : va \in {a \in reached : im.insn[a].kind = "jcc"}}
                      \cup UNION {Direct(im.insn[va]) \cup Tabled(im, u, va) : va \in reached}
           data == UNION {{<<va, t, "Data">> : t \in DataRefs(im, va) \ begun} : va \in reached}
           linked == AddXrefs(marked, code \cup data)
           new == Ascending(called \ Elements(q))
           v == AddFns(linked, new, "flow")
<1>1. Flow(im, u, q) = v
  BY Zenon DEF Flow, MarkStep, Mk!Fold, FoldLeft, Mk!MapThenFoldSet, MapThenFoldSet,
    Mk!Max, Max
<1>2. reached \subseteq VAs /\ \A va \in reached : im.insn[va].size \in Nat \ {0}
  BY ReachedSized
<1>3. Kept(reached, u, marked) /\ reached \subseteq Ops(marked)
  <2> HIDE DEF reached
  <2> QED  BY <1>2, MarkedKeeps
<1> HIDE DEF marked
<1>4. Kept(reached, marked, linked)  BY Annotated DEF AddXrefs
<1>5. Kept({}, linked, v) /\ (Shape(linked) => Elements(new) \subseteq Elements(v.funcs))
  <2>1. Sequence(new)  BY AscendingIs
  <2> HIDE DEF new, linked
  <2> QED  BY <2>1, AddFnsKeeps
<1> HIDE DEF v, linked
<1>6. Kept(reached, linked, v)
  <2>1. {} \subseteq reached  OBVIOUS
  <2> HIDE DEF reached
  <2> QED  BY <1>5, <2>1, KeptWider
<1>7. Kept(reached, u, v) /\ Shape(linked)
  <2>1. Kept(reached, u, linked)  BY <1>3, <1>4, KeptIsOrder
  <2> QED  BY <1>6, <2>1, KeptIsOrder DEF Kept
<1>8. reached \subseteq Ops(v)
  BY <1>3, <1>4, <1>6 DEF Kept
<1>9. called \ Elements(q) \subseteq Elements(v.funcs)
  <2>1. called \subseteq VAs
    <3> SUFFICES ASSUME NEW va \in reached, NEW t \in Direct(im.insn[va]), IsValidPointer(im, t)
                 PROVE  t \in VAs
      OBVIOUS
    <3>1. im.insn[va] # None /\ va \in VAs  BY ReachedIs DEF Decodes
    <3>2. t \in {im.insn[va].to} \ {None}  BY DEF Direct
    <3>3. t \in Nat  BY <3>1, <3>2, PassesAssumption
    <3> QED  BY <3>3, PointersAreAddresses
  <2>2. Elements(new) = (called \ Elements(q)) \cap VAs  BY AscendingIs
  <2> HIDE DEF called, new
  <2> QED  BY <1>5, <1>7, <2>1, <2>2
<1>10. Closes(u) => Closes(v)
  <2> SUFFICES ASSUME Closes(u), NEW va \in Ops(v)
               PROVE  /\ FlowFrom(im, v, va) \subseteq Ops(v)
                      /\ im.insn[va].kind = "call" =>
                           \A t \in Direct(im.insn[va]) :
                             IsValidPointer(im, t) => t \in Elements(v.funcs) \/ CallsImport(t)
    BY DEF Closes
  <2>1. va \in Ops(u) \/ va \in reached  BY <1>7 DEF Kept
  <2>2. /\ Elements(u.funcs) \subseteq Elements(v.funcs) /\ Ops(u) \subseteq Ops(v)
        /\ FlowFrom(im, v, va) \subseteq FlowFrom(im, u, va)
    BY <1>7, FlowShrinks DEF Kept
  <2>3. CASE va \in Ops(u)
    BY <2>2, <2>3 DEF Closes
  <2>4. CASE va \in reached
    <3>1. FlowFrom(im, v, va) \subseteq reached  BY <2>2, <2>4, ReachedIs
    <3>2. ASSUME im.insn[va].kind = "call", NEW t \in Direct(im.insn[va]), IsValidPointer(im, t)
          PROVE  t \in Elements(v.funcs) \/ CallsImport(t)
      <4>1. t \in called  BY <2>4, <3>2
      <4> HIDE DEF called
      <4> QED  BY <1>9, <2>2, <4>1
    <3> QED  BY <1>8, <3>1, <3>2
  <2> QED  BY <2>1, <2>3, <2>4
<1>11. Kept(VAs, u, v)
  <2>1. reached \subseteq VAs  BY <1>2
  <2> HIDE DEF reached
  <2> QED  BY <1>7, <2>1, KeptWider
<1> QED  BY <1>1, <1>10, <1>11 DEF Passed

ResolveStep(c, u, s) == Resolve(u, s, c[s])
Rs == INSTANCE DataInduction WITH Step <- ResolveStep

LateStep(c, results, s) == UNION {LateSection(c, u, s) : u \in results}
LateRel(c, U, V) == \A v \in V : \E u \in U : Kept({}, u, v)
La == INSTANCE DataInduction WITH Step <- LateStep, Rel <- LateRel

\* What sequences joined hold.
LEMMA JoinedSequence ==
  ASSUME NEW q, Sequence(q), NEW f, \A x \in Elements(q) : Sequence(f[x])
  PROVE  /\ Sequence(Joined(q, f))
         /\ Elements(Joined(q, f)) = UNION {Elements(f[x]) : x \in Elements(q)}
<1> DEFINE B == UNION {Elements(f[x]) : x \in Elements(q)}
<1>1. \A x \in Elements(q) : f[x] \in Seq(B)
  <2> TAKE x \in Elements(q)
  <2>1. f[x] \in Seq(Elements(f[x]))  BY DEF Sequence
  <2>2. Elements(f[x]) \subseteq B  OBVIOUS
  <2> HIDE DEF B
  <2> QED  BY <2>1, <2>2
<1>2. /\ Joined(q, f) \in Seq(B)
      /\ \A x \in Elements(q) : Elements(f[x]) \subseteq Elements(Joined(q, f))
  <2> HIDE DEF B
  <2> QED  BY <1>1, JoinedIs
<1>3. Sequence(Joined(q, f)) /\ Elements(Joined(q, f)) \subseteq B
  <2> HIDE DEF B
  <2> QED  BY <1>2, SequenceOf
<1> QED  BY <1>2, <1>3

\* A set of numbers has a least one.
LEMMA MinimumIs ==
  ASSUME NEW T, T \subseteq Nat, T # {}
  PROVE  Minimum(T) \in T /\ \A y \in T : Minimum(T) <= y
<1>1. PICK x \in T : \A y \in T : ~(y < x)
  BY Fn!LeastOf
<1>2. \A y \in T : x <= y  BY <1>1
<1> QED  BY <1>2 DEF Minimum

\* Division of natural numbers.
LEMMA DivisionIs ==
  ASSUME NEW a \in Nat, NEW b \in Nat \ {0}
  PROVE  a \div b \in Nat
OBVIOUS

\* The segments of given names are segments of the image, inside its bounds.
LEMMA SegmentsAre ==
  ASSUME im \in Images, NEW Names
  PROVE  /\ Sequence(Segments(im, Names)) /\ Elements(Segments(im, Names)) \subseteq Elements(im.segs)
         /\ \A s \in Elements(im.segs) :
              s.va \in VAs /\ s.size \in Nat /\ End(s) <= Top + 1 /\ End(s) = s.va + s.size
BY ChosenIs, PassesAssumption DEF Segments, Select, End

\* The locations of a type, in the order they were added.
LEMMA OfTypeIs ==
  ASSUME NEW u, Shape(u), NEW type
  PROVE  /\ Sequence(OfType(u, type))
         /\ \A va \in Elements(OfType(u, type)) : TypeAt(u, va) = type
         /\ \A va \in DOMAIN u.loc : TypeAt(u, va) = type => va \in Elements(OfType(u, type))
<1>1. /\ Sequence(OfType(u, type))
      /\ \A va : va \in Elements(OfType(u, type)) <=> va \in Elements(u.order) /\ u.loc[va].type = type
  BY ChosenIs DEF OfType, Select, Shape
<1> QED  BY <1>1 DEF Shape, TypeAt

----------------------------------------------------------------------------
\* A relocated slot is marked, unless an instruction is there.
LEMMA ResolveKeeps ==
  ASSUME NEW u, NEW s \in VAs, s \notin Ops(u), NEW e
  PROVE  Kept({}, u, Resolve(u, s, e))
<1> DEFINE a == AddLoc(u, s, PtrSize, "Pointer")
           b == AddXref(a, s, e, "Pointer")
<1>1. Kept({}, u, a)
  BY AddLocKeeps, ImageAssumption
<1>2. Kept({}, a, b)
  <2> HIDE DEF a
  <2> QED  BY NamesKept
<1>3. \E x : Resolve(u, s, e) = AddXrefs(b, x)
  BY Zenon DEF Resolve
<1> HIDE DEF a, b
<1>4. Kept({}, b, Resolve(u, s, e))
  BY <1>3, NamesKept
<1> QED  BY <1>1, <1>2, <1>4, KeptIsOrder

\* The linker pass (analysis/linker.rs).
LEMMA LinkerKeeps ==
  ASSUME NEW u, Shape(u), NEW v \in Linker(im, u)
  PROVE  Kept({}, u, v)
<1> DEFINE slots == Select(OfType(u, "Import"), LAMBDA s : Exports(im, u, s) # {})
<1>1. PICK p : v = Rs!Fold(p, u, slots)
  <2>1. \A p : ResolveAll(u, slots, p) = Rs!Fold(p, u, slots)
    BY Zenon DEF ResolveAll, ResolveStep, Rs!Fold, FoldLeft, Rs!MapThenFoldSet,
      MapThenFoldSet, Rs!Max, Max
  <2>2. \E p : v = ResolveAll(u, slots, p)
    BY DEF Linker
  <2> QED  BY <2>1, <2>2, Zenon
<1>2. /\ Sequence(slots)
      /\ \A s \in Elements(slots) : s \in VAs /\ s \notin Ops(u)
  <2>1. Sequence(slots) /\ Elements(slots) \subseteq Elements(OfType(u, "Import"))
    BY OfTypeIs, ChosenIs DEF Select
  <2> HIDE DEF slots
  <2> QED  BY <2>1, OfTypeIs DEF Shape, Ops
<1> HIDE DEF slots
<1>3. Len(slots) \in Nat /\ DOMAIN slots = 1 .. Len(slots) /\ \A k \in DOMAIN slots : slots[k] \in Elements(slots)
  BY <1>2, SequenceIs
<1>4. Rs!Related(p, u, slots)
  <2>1. ASSUME NEW x, NEW k \in DOMAIN slots, Kept({}, u, x)
        PROVE  Kept({}, x, ResolveStep(p, x, slots[k]))
    <3>1. slots[k] \in VAs /\ slots[k] \notin Ops(x)
      BY <1>2, <1>3, <2>1 DEF Kept
    <3> QED  BY <3>1, ResolveKeeps DEF ResolveStep
  <2> QED  BY <2>1, KeptIsOrder DEF Rs!Related, Rel
<1> QED  BY <1>1, <1>3, <1>4, Rs!FoldKeeps DEF Rel

----------------------------------------------------------------------------
\* The entries of a table of constructors.
LEMMA CtorsAre ==
  ASSUME im \in Images, NEW s \in Elements(im.segs)
  PROVE  Sequence(CtorsIn(im, s))
<1> DEFINE n == s.size \div PtrSize
           entry(k) == im.word[s.va + (k - 1) * PtrSize]
           marks == {k \in 1 .. n : s.name = "ctors" /\ entry(k) = im.mark}
           last == IF marks = {} THEN n ELSE Minimum(marks) - 1
           all == [k \in 1 .. last |-> entry(k)]
<1>1. n \in Nat
  BY SegmentsAre, DivisionIs, ImageAssumption
<1> HIDE DEF n
<1>2. last \in Nat
  <2>1. marks \subseteq 1 .. n  OBVIOUS
  <2> HIDE DEF marks
  <2>2. marks # {} => Minimum(marks) \in 1 .. n
    <3>1. marks \subseteq Nat  BY <1>1, <2>1
    <3> QED  BY <2>1, <3>1, MinimumIs
  <2> QED  BY <1>1, <2>2
<1>3. DOMAIN all = 1 .. last /\ all = [k \in 1 .. last |-> all[k]]
  OBVIOUS
<1>4. Sequence(all)
  <2> HIDE DEF all, last
  <2> QED  BY <1>2, <1>3, FunctionSequence
<1>5. CtorsIn(im, s) = Select(all, LAMBDA v : v # 0 /\ IsValidPointer(im, v))
  BY Zenon DEF CtorsIn, n
<1> HIDE DEF all
<1> QED  BY <1>4, <1>5, ChosenIs DEF Select

\* The pass of constructors (elf/ctors).
LEMMA ElfCtorsKeeps ==
  ASSUME im \in Images, NEW u
  PROVE  Kept({}, u, ElfCtors(im, u))
<1> DEFINE q == Segments(im, {"ctors", "init"})
           f == [s \in Elements(q) |-> CtorsIn(im, s)]
<1>1. ElfCtors(im, u) = AddFns(u, Joined(q, f), "ctor")
  BY Zenon DEF ElfCtors, ForEach
<1>2. Sequence(q) /\ \A s \in Elements(q) : Sequence(f[s])
  BY SegmentsAre, CtorsAre
<1>3. Sequence(Joined(q, f))
  <2> HIDE DEF q, f
  <2> QED  BY <1>2, JoinedSequence
<1> HIDE DEF q, f
<1> QED  BY <1>1, <1>3, AddFnsKeeps

----------------------------------------------------------------------------
\* One entry of a PLT.
LEMMA AddPltEntryKeeps ==
  ASSUME NEW i, NEW u, NEW va
  PROVE  Kept({}, u, AddPltEntry(i, u, va))
<1> DEFINE a == AddFn(u, va, "plt")
<1>1. Kept({}, u, a)  BY AddFnKeeps
<1> HIDE DEF a
<1>2. Kept({}, a, [a EXCEPT !.thunk = Put(@, va, ResolvePltEntry(i, u, va))])
  BY Annotated
<1>3. AddPltEntry(i, u, va) \in {u, [a EXCEPT !.thunk = Put(@, va, ResolvePltEntry(i, u, va))]}
  BY DEF AddPltEntry, a
<1> QED  BY <1>1, <1>2, <1>3, KeptIsOrder

\* The entries of a PLT take room, so that the scan of it ends.
LEMMA EntrySizeIs ==
  ASSUME NEW i, NEW s
  PROVE  EntrySize(i, s) \in Nat \ {0}
BY DiscoveryAssumption DEF EntrySize

\* The pass of the PLT (elf/plt).
LEMMA ElfPltKeeps ==
  ASSUME im \in Images, NEW u
  PROVE  Kept({}, u, ElfPlt(im, u))
<1> DEFINE q == Segments(im, {"plt"})
           entries(s) == [k \in 1 .. (s.size \div EntrySize(im, s)) - 1 |-> s.va + k * EntrySize(im, s)]
           f == [s \in Elements(q) |-> entries(s)]
           all == Joined(q, f)
<1>1. ElfPlt(im, u) \in {u, Pl!Fold(im, u, all)}
  <2>1. FoldLeft(LAMBDA x, va : AddPltEntry(im, x, va), u, all) = Pl!Fold(im, u, all)
    BY Zenon DEF PltStep, Pl!Fold, FoldLeft, Pl!MapThenFoldSet, MapThenFoldSet,
      Pl!Max, Max
  <2> QED  BY <2>1 DEF ElfPlt, ForEach
<1>2. ASSUME NEW s \in Elements(q)  PROVE Sequence(f[s])
  <2> DEFINE m == s.size \div EntrySize(im, s)
             r == entries(s)
  <2>1. m \in Nat
    <3>1. s.size \in Nat  BY SegmentsAre
    <3> QED  BY <3>1, EntrySizeIs, DivisionIs
  <2>2. DOMAIN r = 1 .. m - 1 /\ r = [k \in 1 .. m - 1 |-> r[k]]
    OBVIOUS
  <2> HIDE DEF m, r
  <2>3. PICK n \in Nat : 1 .. m - 1 = 1 .. n
    <3>1. CASE m = 0
      <4>1. 1 .. m - 1 = 1 .. 0  BY <3>1
      <4> QED  BY <4>1
    <3>2. CASE m # 0
      <4>1. m - 1 \in Nat  BY <2>1, <3>2
      <4> QED  BY <4>1
    <3> QED  BY <3>1, <3>2
  <2>4. Sequence(r)  BY <2>2, <2>3, FunctionSequence
  <2> QED  BY <2>4 DEF r
<1>3. Sequence(all)
  <2>1. Sequence(q)  BY SegmentsAre
  <2> HIDE DEF q, f
  <2> QED  BY <1>2, <2>1, JoinedSequence
<1> HIDE DEF all
<1>4. Len(all) \in Nat /\ DOMAIN all = 1 .. Len(all)
  BY <1>3, SequenceIs
<1>5. Pl!Related(im, u, all)
  BY KeptIsOrder, AddPltEntryKeeps DEF Pl!Related, Rel, PltStep
<1>6. Kept({}, u, Pl!Fold(im, u, all))
  BY <1>4, <1>5, Pl!FoldKeeps DEF Rel
<1> QED  BY <1>1, <1>6, KeptIsOrder

----------------------------------------------------------------------------
\* The late pass on one section.
LEMMA LateSectionKeeps ==
  ASSUME NEW i, NEW u, NEW s, NEW v \in LateSection(i, u, s)
  PROVE  Kept({}, u, v)
<1> DEFINE a == AddFn(u, s.va, "plt")
           funcs == {f \in Elements(a.funcs) : Within(s, f)}
<1>1. Kept({}, u, a)  BY AddFnKeeps
<1>2. v = a \/ \E d : v = FillForward(i, a, s, funcs, d)
  BY DEF LateSection
<1> HIDE DEF a, funcs
<1>3. ASSUME NEW d  PROVE Kept({}, a, FillForward(i, a, s, funcs, d))
  <2>1. FillForward(i, a, s, funcs, d) = a
          \/ \E q : FillForward(i, a, s, funcs, d) = AddFns(a, Ascending(q), "plt")
    BY Zenon DEF FillForward
  <2> QED  BY <2>1, AscendingIs, AddFnsKeeps, KeptIsOrder
<1> QED  BY <1>1, <1>2, <1>3, KeptIsOrder

\* The late pass of the PLT, whatever order its sections come in.
LEMMA ElfPltLateKeeps ==
  ASSUME im \in Images, NEW u, NEW v \in ElfPltLate(im, u)
  PROVE  Kept({}, u, v)
<1> DEFINE q == Segments(im, {"plt"})
<1>1. ElfPltLate(im, u) = La!Fold(im, {u}, q)
  BY Zenon DEF ElfPltLate, LateStep, La!Fold, FoldLeft, La!MapThenFoldSet,
    MapThenFoldSet, La!Max, Max
<1>2. Len(q) \in Nat /\ DOMAIN q = 1 .. Len(q)
  BY SegmentsAre, SequenceIs
<1> HIDE DEF q
<1>3. La!Related(im, {u}, q)
  <2>1. \A U : LateRel(im, U, U)  BY KeptIsOrder DEF LateRel
  <2>2. \A U, V, X : LateRel(im, U, V) /\ LateRel(im, V, X) => LateRel(im, U, X)
    BY KeptIsOrder DEF LateRel
  <2>3. \A U, s : LateRel(im, U, LateStep(im, U, s))
    BY LateSectionKeeps DEF LateRel, LateStep
  <2> QED  BY <2>1, <2>2, <2>3 DEF La!Related
<1>4. LateRel(im, {u}, La!Fold(im, {u}, q))
  BY <1>2, <1>3, La!FoldKeeps
<1> QED  BY <1>1, <1>4 DEF LateRel

----------------------------------------------------------------------------
\* The pass that finds main from what is passed to __libc_start_main.
LEMMA LibcStartMainKeeps ==
  ASSUME NEW u, NEW v \in LibcStartMain(im, u)
  PROVE  Kept({}, u, v)
<1>1. v = u \/ \E va : v = AddFn(u, va, "main") \/ v = SetName(u, va, <<"main">>)
  BY DEF LibcStartMain
<1> QED  BY <1>1, AddFnKeeps, NamesKept, KeptIsOrder

\* The pass of Go's runtime tables.
LEMMA GolangKeeps ==
  ASSUME im \in Images, NEW u
  PROVE  Kept({}, u, Golang(im, u))
<1> DEFINE e == im.go.entries
<1>1. Sequence(e)  BY PassesAssumption
<1>2. Sequence(GoFunctions(im))
  <2> DEFINE base == IF im.go.start # 0 THEN im.go.start ELSE Segments(im, {"text"})[1].va
             r == [k \in DOMAIN e |-> base + e[k]]
  <2>1. GoFunctions(im) \in {e, r}
    BY DEF GoFunctions, GoOffsets, GoAddresses
  <2>2. DOMAIN r = 1 .. Len(e) /\ r = [k \in 1 .. Len(e) |-> r[k]] /\ Len(e) \in Nat
    BY <1>1, SequenceIs
  <2> HIDE DEF r
  <2> QED  BY <1>1, <2>1, <2>2, FunctionSequence
<1> DEFINE q == Select(GoFunctions(im), LAMBDA f : f # 0 /\ IsValidPointer(im, f))
           a == AddFns(u, q, "go")
<1>3. Kept({}, u, a)
  <2>1. Sequence(q)  BY <1>2, ChosenIs DEF Select
  <2> HIDE DEF q
  <2> QED  BY <2>1, AddFnsKeeps
<1>4. Golang(im, u) \in {u, [a EXCEPT !.go = TRUE]}
  BY DEF Golang
<1> HIDE DEF a
<1>5. Kept({}, a, [a EXCEPT !.go = TRUE])  BY Annotated
<1> QED  BY <1>3, <1>4, <1>5, KeptIsOrder

FreeTo(c, f, a) ==
  IF a + c[3] > c[2] THEN <<>>
  ELSE IF Located(c[1], a) THEN f[RoundUp(a + c[1].loc[a].size, c[3])]
  ELSE <<a>> \o f[a + c[3]]
FreeRank(c, a) == IF a > c[2] THEN 0 ELSE c[2] - a + 1
FreeGood(c, a, v) == v \in Seq({x \in VAs : ~Located(c[1], x)})
Fr == INSTANCE DataInduction WITH Def <- FreeTo, Rank <- FreeRank, Good <- FreeGood

ThunkStep(c, u, f) == MarkThunk(c, u, f)
Th == INSTANCE DataInduction WITH Step <- ThunkStep

\* Rounding up to an alignment stays a number, no smaller.
LEMMA RoundUpIs ==
  ASSUME NEW x \in Nat, NEW unit \in Nat \ {0}
  PROVE  RoundUp(x, unit) \in Nat /\ RoundUp(x, unit) >= x
<1> DEFINE n == x + unit - 1
<1>1. n \in Nat  OBVIOUS
<1>2. (n \div unit) \in Nat /\ (n % unit) \in 0 .. unit - 1 /\ n = unit * (n \div unit) + (n % unit)
  BY <1>1
<1> DEFINE q == n \div unit
           r == n % unit
<1>3. q \in Nat /\ r \in 0 .. unit - 1 /\ n = unit * q + r  BY <1>2
<1>4. RoundUp(x, unit) = q * unit  BY DEF RoundUp
<1> HIDE DEF q, r
<1>5. q * unit = unit * q /\ q * unit \in Nat  BY <1>3
<1> QED  BY <1>3, <1>4, <1>5

\* The scan for cells without a location goes up and ends.
LEMMA ScanEnds ==
  ASSUME NEW c, Shape(c[1]), c[2] \in Nat, c[3] \in Nat \ {0}
  PROVE  /\ Fr!Ranked(c, Nat, c[2] + 1)
         /\ \A a \in Nat : ~(a + c[3] > c[2]) =>
              /\ FreeRank(c, a + c[3]) < FreeRank(c, a)
              /\ Located(c[1], a) =>
                   /\ RoundUp(a + c[1].loc[a].size, c[3]) \in Nat
                   /\ FreeRank(c, RoundUp(a + c[1].loc[a].size, c[3])) < FreeRank(c, a)
<1>1. ASSUME NEW a \in Nat, Located(c[1], a)
      PROVE  RoundUp(a + c[1].loc[a].size, c[3]) \in Nat /\ RoundUp(a + c[1].loc[a].size, c[3]) > a
  <2>1. c[1].loc[a].size \in Nat \ {0}  BY <1>1 DEF Located, Shape
  <2>2. a + c[1].loc[a].size \in Nat  BY <2>1
  <2>3. RoundUp(a + c[1].loc[a].size, c[3]) >= a + c[1].loc[a].size
        /\ RoundUp(a + c[1].loc[a].size, c[3]) \in Nat
    BY <2>2, RoundUpIs
  <2> HIDE DEF RoundUp
  <2> QED  BY <2>1, <2>3
<1>2. ASSUME NEW a \in Nat, ~(a + c[3] > c[2]), NEW b \in Nat, b > a
      PROVE  FreeRank(c, b) < FreeRank(c, a)
  BY <1>2 DEF FreeRank
<1>3. ASSUME NEW a \in Nat, ~(a + c[3] > c[2])
      PROVE  /\ FreeRank(c, a + c[3]) < FreeRank(c, a)
             /\ Located(c[1], a) =>
                  /\ RoundUp(a + c[1].loc[a].size, c[3]) \in Nat
                  /\ FreeRank(c, RoundUp(a + c[1].loc[a].size, c[3])) < FreeRank(c, a)
  <2>1. a + c[3] \in Nat /\ a + c[3] > a  OBVIOUS
  <2> QED  BY <1>1, <1>2, <1>3, <2>1
<1>4. \A a \in Nat : FreeRank(c, a) \in 0 .. c[2] + 1  BY DEF FreeRank
<1>5. ASSUME NEW f, NEW g, NEW a \in Nat,
             \A b \in Nat : FreeRank(c, b) < FreeRank(c, a) => f[b] = g[b]
      PROVE  FreeTo(c, f, a) = FreeTo(c, g, a)
  <2>1. CASE a + c[3] > c[2]  BY <2>1 DEF FreeTo
  <2>2. CASE ~(a + c[3] > c[2])
    <3>1. f[a + c[3]] = g[a + c[3]]  BY <1>3, <1>5, <2>2
    <3>2. Located(c[1], a) => f[RoundUp(a + c[1].loc[a].size, c[3])] = g[RoundUp(a + c[1].loc[a].size, c[3])]
      BY <1>3, <1>5, <2>2
    <3> QED  BY <2>2, <3>1, <3>2 DEF FreeTo
  <2> QED  BY <2>1, <2>2
<1> QED  BY <1>3, <1>4, <1>5 DEF Fr!Ranked

\* The cells that the scan comes to have no location.
LEMMA FreeCellsAre ==
  ASSUME NEW u, Shape(u), NEW from \in Nat, NEW to \in Nat, to <= Top + 1, NEW unit \in Nat \ {0}
  PROVE  /\ Sequence(FreeCells(u, from, to, unit))
         /\ Elements(FreeCells(u, from, to, unit)) \subseteq {x \in VAs : ~Located(u, x)}
<1> DEFINE c == <<u, to, unit>>
           A == {x \in VAs : ~Located(u, x)}
           R == Fr!Recursive(c, Nat)
<1>1. FreeCells(u, from, to, unit) = R[RoundUp(from, unit)]
  BY Zenon DEF FreeCells, FreeTo, Fr!Recursive
<1>2. c[1] = u /\ c[2] = to /\ c[3] = unit  OBVIOUS
<1> HIDE DEF c
<1>3. /\ Fr!Ranked(c, Nat, to + 1)
      /\ \A a \in Nat : ~(a + unit > to) =>
           /\ FreeRank(c, a + unit) < FreeRank(c, a)
           /\ Located(u, a) =>
                /\ RoundUp(a + u.loc[a].size, unit) \in Nat
                /\ FreeRank(c, RoundUp(a + u.loc[a].size, unit)) < FreeRank(c, a)
  BY <1>2, ScanEnds
<1>4. ASSUME NEW f, NEW a \in Nat,
             \A b \in Nat : FreeRank(c, b) < FreeRank(c, a) => FreeGood(c, b, f[b])
      PROVE  FreeGood(c, a, FreeTo(c, f, a))
  <2>1. \A b, v : FreeGood(c, b, v) <=> v \in Seq(A)  BY <1>2 DEF FreeGood
  <2>2. FreeTo(c, f, a) = IF a + unit > to THEN <<>>
                          ELSE IF Located(u, a) THEN f[RoundUp(a + u.loc[a].size, unit)]
                          ELSE <<a>> \o f[a + unit]
    BY <1>2 DEF FreeTo
  <2>3. ~(a + unit > to) => /\ f[a + unit] \in Seq(A)
                            /\ Located(u, a) => f[RoundUp(a + u.loc[a].size, unit)] \in Seq(A)
    BY <1>3, <1>4, <2>1
  <2>4. ~(a + unit > to) /\ ~Located(u, a) => a \in A
    BY ImageAssumption DEF VAs
  <2> HIDE DEF A
  <2>5. ~(a + unit > to) /\ ~Located(u, a) => <<a>> \o f[a + unit] \in Seq(A)
    BY <2>3, <2>4
  <2>6. <<>> \in Seq(A)  OBVIOUS
  <2>7. FreeTo(c, f, a) \in Seq(A)
    <3>1. CASE a + unit > to  BY <2>2, <2>6, <3>1
    <3>2. CASE ~(a + unit > to) /\ Located(u, a)  BY <2>2, <2>3, <3>2
    <3>3. CASE ~(a + unit > to) /\ ~Located(u, a)  BY <2>2, <2>5, <3>3
    <3> QED  BY <3>1, <3>2, <3>3
  <2> QED  BY <2>1, <2>7
<1>5. to + 1 \in Nat  OBVIOUS
<1>6. \A a \in Nat : FreeGood(c, a, R[a])
  BY <1>3, <1>4, <1>5, Fr!RecursionKeeps
<1> HIDE DEF R
<1>7. R[RoundUp(from, unit)] \in Seq(A)
  BY <1>2, <1>6, RoundUpIs DEF FreeGood
<1> QED  BY <1>1, <1>7, SequenceOf

\* A segment ends inside the image.
LEMMA SegmentEnds ==
  ASSUME im \in Images, NEW s \in Elements(im.segs)
  PROVE  s.va \in Nat /\ End(s) \in Nat /\ End(s) <= Top + 1
BY SegmentsAre DEF VAs

----------------------------------------------------------------------------
\* Passes one after another leave closed what each leaves closed.
LEMMA PassedIsOrder ==
  /\ \A u : Passed(u, u)
  /\ \A u, v, x : Passed(u, v) /\ Passed(v, x) => Passed(u, x)
BY KeptIsOrder DEF Passed

\* The elements of a concatenation.
LEMMA ConcatenationIs ==
  ASSUME NEW p, Sequence(p), NEW q, Sequence(q)
  PROVE  Elements(p \o q) \subseteq Elements(p) \cup Elements(q)
<1> DEFINE j == p \o q
           A == Elements(p) \cup Elements(q)
<1>1. p \in Seq(A) /\ q \in Seq(A)
  <2>1. p \in Seq(Elements(p)) /\ q \in Seq(Elements(q))  BY DEF Sequence
  <2>2. Elements(p) \subseteq A /\ Elements(q) \subseteq A  OBVIOUS
  <2> HIDE DEF A
  <2> QED  BY <2>1, <2>2
<1> HIDE DEF A
<1>2. j \in Seq(A)  BY <1>1
<1> HIDE DEF j
<1>3. Elements(j) \subseteq A  BY <1>2, SequenceOf
<1> QED  BY <1>3 DEF A, j

\* The marks of functions and imports that do not return are only added to.
LEMMA NoReturnsKept ==
  ASSUME NEW S, NEW u, NEW x
  PROVE  /\ Kept(S, u, [u EXCEPT !.noret = @ \cup x])
         /\ Shape(u) => [u EXCEPT !.noret = @ \cup x].funcs = u.funcs
<1> SUFFICES ASSUME Shape(u)
             PROVE  /\ Kept(S, u, [u EXCEPT !.noret = @ \cup x])
                    /\ [u EXCEPT !.noret = @ \cup x].funcs = u.funcs
  BY DEF Kept
<1>1. DOMAIN u = Parts  BY DEF Shape
<1> QED  BY <1>1, SameIsKept DEF Parts

\* The code flow pass from all functions (codeflow), once the entries are functions.
LEMMA FlowAllPasses ==
  ASSUME im \in Images, NEW u, Shape(u), Elements(im.entries) \subseteq Elements(u.funcs)
  PROVE  Passed(u, FlowAll(im, u))
<1> DEFINE rest == Select(u.funcs, LAMBDA f : f \notin Elements(im.entries))
           q == im.entries \o rest
           started == InitNoReturn(im, u)
<1>1. Sequence(rest) /\ Elements(rest) \subseteq Elements(u.funcs)
  BY ChosenIs DEF Select, Shape
<1>2. Elements(q) \subseteq Elements(u.funcs)
  <2>1. Sequence(im.entries)  BY PassesAssumption
  <2> HIDE DEF rest
  <2> QED  BY <1>1, <2>1, ConcatenationIs
<1>3. FlowAll(im, u) \in {started, Flow(im, started, q)}
  BY Zenon DEF FlowAll
<1>4. Kept({}, u, started) /\ started.funcs = u.funcs
  BY NoReturnsKept DEF InitNoReturn
<1> HIDE DEF q, started
<1>5. Shape(started)  BY <1>4 DEF Kept
<1>6. Passed(u, started)  BY <1>4, MarksNothing
<1>7. Passed(started, Flow(im, started, q))  BY <1>2, <1>4, <1>5, FlowPasses
<1> QED  BY <1>3, <1>6, <1>7, PassedIsOrder

\* The pass of calls through imports: code flow starts at the call sites, which
\* are no functions.
LEMMA ImportCallsPasses ==
  ASSUME im \in Images, NEW u, Shape(u)
  PROVE  Passed(u, ImportCalls(im, u))
<1> DEFINE operands(s) == Select(FreeCells(u, s.va, End(s), PtrSize), LAMBDA a :
        /\ TypeAt(u, im.word[a]) = "Import"
        /\ a > 0 /\ Decodes(im, a - 1) /\ im.insn[a - 1].kind = "call" /\ im.insn[a - 1].deref
        /\ ~Located(u, a - 1))
           sites(s) == [k \in DOMAIN operands(s) |-> operands(s)[k] - 1]
           f == [s \in Elements(im.segs) |-> sites(s)]
<1>1. CallSites(im, u) = Joined(im.segs, f)
  BY Zenon DEF CallSites, ForEach
<1>2. ASSUME im.arch = "i386", NEW s \in Elements(im.segs)
      PROVE  Sequence(f[s]) /\ \A va \in Elements(f[s]) : CallsImport(va)
  <2> DEFINE o == operands(s)
             r == sites(s)
  <2>1. Sequence(FreeCells(u, s.va, End(s), PtrSize))
    BY SegmentEnds, FreeCellsAre, ImageAssumption
  <2>2. /\ Sequence(o)
        /\ \A a \in Elements(o) :
             Decodes(im, a - 1) /\ im.insn[a - 1].kind = "call" /\ im.insn[a - 1].deref
    BY <2>1, ChosenIs DEF Select
  <2>3. DOMAIN r = DOMAIN o /\ \A k \in DOMAIN o : r[k] = o[k] - 1
    OBVIOUS
  <2> HIDE DEF o
  <2>4. DOMAIN r = 1 .. Len(o) /\ Len(o) \in Nat /\ \A k \in DOMAIN o : o[k] \in Elements(o)
    BY <2>2, <2>3, SequenceIs
  <2>5. r = [k \in 1 .. Len(o) |-> r[k]]  BY <2>4
  <2>6. f[s] = r  OBVIOUS
  <2> HIDE DEF r, f
  <2>7. Sequence(r)  BY <2>4, <2>5, FunctionSequence
  <2>8. \A k \in DOMAIN r : CallsImport(r[k])
    BY <1>2, <2>2, <2>3, <2>4 DEF CallsImport
  <2> QED  BY <2>6, <2>7, <2>8 DEF Elements
<1> HIDE DEF f
<1>3. CASE im.arch = "i386"
  <2>1. Sequence(im.segs)  BY PassesAssumption
  <2>2. Elements(Joined(im.segs, f)) = UNION {Elements(f[x]) : x \in Elements(im.segs)}
    BY <1>2, <1>3, <2>1, JoinedSequence
  <2>3. \A va \in Elements(CallSites(im, u)) : CallsImport(va)
    BY <1>1, <1>2, <1>3, <2>2
  <2>4. ImportCalls(im, u) \in {u, Flow(im, u, CallSites(im, u))}
    BY DEF ImportCalls
  <2> QED  BY <2>3, <2>4, FlowPasses, PassedIsOrder
<1>4. CASE im.arch # "i386"
  BY <1>4, PassedIsOrder DEF ImportCalls
<1> QED  BY <1>3, <1>4

\* Code flow from functions that were just added.
LEMMA AddedFlowPasses ==
  ASSUME im \in Images, NEW u, Shape(u), NEW new, Sequence(new), NEW by
  PROVE  Passed(u, Flow(im, AddFns(u, new, by), new))
<1> DEFINE a == AddFns(u, new, by)
<1>1. Kept({}, u, a) /\ Elements(new) \subseteq Elements(a.funcs)
  BY AddFnsKeeps
<1> HIDE DEF a
<1>2. Shape(a)  BY <1>1 DEF Kept
<1>3. Passed(u, a)  BY <1>1, MarksNothing
<1>4. Passed(a, Flow(im, a, new))  BY <1>1, <1>2, FlowPasses
<1> QED  BY <1>3, <1>4, PassedIsOrder DEF a

\* The scan for prologues, with code flow from what it finds.
LEMMA PrologueScanPasses ==
  ASSUME im \in Images, NEW u, Shape(u)
  PROVE  Passed(u, PrologueScan(im, u))
<1>1. \E S : PrologueScan(im, u) \in {u, Flow(im, AddFns(u, Ascending(S), "scan"), Ascending(S))}
  BY DEF PrologueScan
<1> QED  BY <1>1, AscendingIs, AddedFlowPasses, PassedIsOrder

\* The scan for function entries, with code flow from what it finds.
LEMMA FuncEntriesPasses ==
  ASSUME im \in Images, NEW u, Shape(u)
  PROVE  Passed(u, FuncEntries(im, u))
<1> DEFINE fits(va) == /\ ~IsFunction(u, va) /\ LooksLike(im, va, "entries")
                       /\ Reads(im, va, Fetch) /\ Len(Sweep(im, va, 4, Never)) >= 3
           q == Segments(im, {"text"})
           f == [s \in Elements(q) |-> Select(FreeCells(u, s.va, End(s), 1), fits)]
           new == Joined(q, f)
<1>1. FuncEntries(im, u) \in {u, Flow(im, AddFns(u, new, "sub"), new)}
  BY Zenon DEF FuncEntries, ForEach
<1>2. ASSUME NEW s \in Elements(q)  PROVE Sequence(f[s])
  <2>1. s \in Elements(im.segs)  BY SegmentsAre
  <2>2. Sequence(FreeCells(u, s.va, End(s), 1))
    BY <2>1, SegmentEnds, FreeCellsAre
  <2> QED  BY <2>2, ChosenIs DEF Select
<1>3. Sequence(new)
  <2>1. Sequence(q)  BY SegmentsAre
  <2> HIDE DEF q, f
  <2> QED  BY <1>2, <2>1, JoinedSequence
<1> HIDE DEF new
<1> QED  BY <1>1, <1>3, AddedFlowPasses, PassedIsOrder

----------------------------------------------------------------------------
\* The pass that finds code by emulation adds functions and marks nothing.
LEMMA EmuCodeKeeps ==
  ASSUME NEW u
  PROVE  Kept({}, u, EmuCode(im, u))
<1>1. \E S : EmuCode(im, u) \in {u, AddFns(u, Ascending(S), "emu")}
  BY DEF EmuCode
<1> QED  BY <1>1, AscendingIs, AddFnsKeeps, KeptIsOrder

\* The pass that finds functions by the security cookie.
LEMMA MsvcFuncKeeps ==
  ASSUME NEW u
  PROVE  Kept({}, u, MsvcFunc(im, u))
<1>1. \E va, name, S : MsvcFunc(im, u) \in {u, AddFns(SetName(u, va, name), Ascending(S), "sub")}
  BY Zenon DEF MsvcFunc
<1>2. PICK va, name, S : MsvcFunc(im, u) \in {u, AddFns(SetName(u, va, name), Ascending(S), "sub")}
  BY <1>1
<1> DEFINE a == SetName(u, va, name)
<1>3. Kept({}, u, a)  BY NamesKept
<1> HIDE DEF a
<1>4. Kept({}, a, AddFns(a, Ascending(S), "sub"))  BY AscendingIs, AddFnsKeeps
<1> QED  BY <1>2, <1>3, <1>4, KeptIsOrder DEF a

\* A function that is one jump is named after where it goes.
LEMMA MarkThunkKeeps ==
  ASSUME NEW i, NEW u, NEW f
  PROVE  Kept({}, u, MarkThunk(i, u, f))
<1> DEFINE a == [u EXCEPT !.thunk = Put(@, f, Forwarded(i, u, f))]
<1>1. Kept({}, u, a)  BY Annotated
<1>2. MarkThunk(i, u, f) \in {u, a, SetName(a, f, <<"thunk", Last(Forwarded(i, u, f))>>)}
  BY Zenon DEF MarkThunk
<1> HIDE DEF a
<1> QED  BY <1>1, <1>2, NamesKept, KeptIsOrder

\* The scan for thunks.
LEMMA ThunkScanKeeps ==
  ASSUME NEW u, Shape(u)
  PROVE  Kept({}, u, ThunkScan(im, u))
<1>1. ThunkScan(im, u) \in {u, Th!Fold(im, u, u.funcs)}
  <2>1. FoldLeft(LAMBDA x, f : MarkThunk(im, x, f), u, u.funcs) = Th!Fold(im, u, u.funcs)
    BY Zenon DEF ThunkStep, Th!Fold, FoldLeft, Th!MapThenFoldSet, MapThenFoldSet,
      Th!Max, Max
  <2> QED  BY <2>1 DEF ThunkScan
<1>2. Len(u.funcs) \in Nat /\ DOMAIN u.funcs = 1 .. Len(u.funcs)
  BY SequenceIs DEF Shape
<1>3. Th!Related(im, u, u.funcs)
  BY KeptIsOrder, MarkThunkKeeps DEF Th!Related, Rel, ThunkStep
<1>4. Kept({}, u, Th!Fold(im, u, u.funcs))
  BY <1>2, <1>3, Th!FoldKeeps DEF Rel
<1> QED  BY <1>1, <1>4, KeptIsOrder

ChunksTo(c, f, a) ==
  IF a + 8 > End(c[2]) \/ c[1].chunk[a] < 8 \/ c[1].chunk[a] > End(c[2]) - a THEN <<>>
  ELSE <<a>> \o f[a + c[1].chunk[a]]
ChunksRank(c, a) == End(c[2]) - a
ChunksGood(c, a, v) == v \in Seq({x \in VAs : c[1].chunk[x] >= 8})
Cs == INSTANCE DataInduction WITH Def <- ChunksTo, Rank <- ChunksRank, Good <- ChunksGood

NumberStep(c, u, e) == AddFreeLoc(u, e, 2, "Number")
Nu == INSTANCE DataInduction WITH Step <- NumberStep

ChunkStep(c, u, a) == AddChunk(c, u, a)
Ck == INSTANCE DataInduction WITH Step <- ChunkStep

RelocateStep(c, u, p) == Relocate(c, u, p)
Rl == INSTANCE DataInduction WITH Step <- RelocateStep

TableStep(c, u, p) == AddTableEntry(c, u, p)
Ta == INSTANCE DataInduction WITH Step <- TableStep

InsnsTo(c, f, k) ==
  [a \in VAs |->
     IF k = 0 \/ ~Decodes(c[1], a) THEN <<>>
     ELSE IF After(c[1], a) >= c[2].va + c[2].size \/ After(c[1], a) > Top THEN <<a>>
     ELSE <<a>> \o f[k - 1][After(c[1], a)]]
InsnsGood(c, k, v) == \A a \in VAs : v[a] \in Seq({x \in VAs : Decodes(c[1], x)})
In == INSTANCE DataInduction WITH Def <- InsnsTo, Good <- InsnsGood

PointerStep(c, u, t) == MarkPointer(u, t)
Po == INSTANCE DataInduction WITH Step <- PointerStep

----------------------------------------------------------------------------
\* The chunks of a relocation section are addresses, of eight bytes or more.
LEMMA ChunksAre ==
  ASSUME im \in Images, NEW s \in Elements(im.segs)
  PROVE  /\ Sequence(Chunks(im, s))
         /\ Elements(Chunks(im, s)) \subseteq {a \in VAs : im.chunk[a] >= 8}
<1> DEFINE c == <<im, s>>
           to == End(s)
           D == s.va .. to
           R == Cs!Recursive(c, D)
           A == {x \in VAs : im.chunk[x] >= 8}
<1>1. Chunks(im, s) = R[s.va]
  BY Zenon DEF Chunks, ChunksTo, Cs!Recursive
<1>2. s.va \in Nat /\ to \in Nat /\ to <= Top + 1 /\ s.va <= to
  <2>1. s.va \in VAs /\ s.size \in Nat /\ to <= Top + 1 /\ to = s.va + s.size
    BY SegmentsAre
  <2> HIDE DEF to
  <2> QED  BY <2>1 DEF VAs
<1> HIDE DEF to
<1>3. ASSUME NEW a \in D, ~(a + 8 > to \/ im.chunk[a] < 8 \/ im.chunk[a] > to - a)
      PROVE  a \in A /\ a + im.chunk[a] \in D /\ ChunksRank(c, a + im.chunk[a]) < ChunksRank(c, a)
  <2>1. a \in VAs  BY <1>2, <1>3, ImageAssumption DEF VAs
  <2>2. im.chunk[a] \in Nat  BY <2>1, PassesAssumption
  <2> QED  BY <1>2, <1>3, <2>1, <2>2 DEF ChunksRank, to
<1>4. Cs!Ranked(c, D, to)
  <2>1. \A a \in D : ChunksRank(c, a) \in 0 .. to  BY <1>2 DEF ChunksRank, to
  <2>2. ASSUME NEW f, NEW g, NEW a \in D,
               \A b \in D : ChunksRank(c, b) < ChunksRank(c, a) => f[b] = g[b]
        PROVE  ChunksTo(c, f, a) = ChunksTo(c, g, a)
    BY <1>3, <2>2 DEF ChunksTo, to
  <2> HIDE DEF c
  <2> QED  BY <2>1, <2>2 DEF Cs!Ranked
<1>5. ASSUME NEW f, NEW a \in D,
             \A b \in D : ChunksRank(c, b) < ChunksRank(c, a) => ChunksGood(c, b, f[b])
      PROVE  ChunksGood(c, a, ChunksTo(c, f, a))
  <2> DEFINE last == a + 8 > to \/ im.chunk[a] < 8 \/ im.chunk[a] > to - a
  <2>1. CASE last
    <3>1. ChunksTo(c, f, a) = <<>>  BY <2>1 DEF ChunksTo, to
    <3> QED  BY <3>1 DEF ChunksGood
  <2>2. CASE ~last
    <3>1. a \in A /\ ChunksGood(c, a + im.chunk[a], f[a + im.chunk[a]])
      BY <1>3, <1>5, <2>2
    <3>2. f[a + im.chunk[a]] \in Seq(A)  BY <3>1 DEF ChunksGood
    <3> DEFINE r == f[a + im.chunk[a]]
    <3>3. ChunksTo(c, f, a) = <<a>> \o r  BY <2>2 DEF ChunksTo, to
    <3> HIDE DEF A, r
    <3>4. <<a>> \o r \in Seq(A)  BY <3>1, <3>2 DEF r
    <3> QED  BY <3>3, <3>4 DEF ChunksGood, A
  <2> QED  BY <2>1, <2>2
<1> HIDE DEF c
<1>6. \A a \in D : ChunksGood(c, a, R[a])
  BY <1>2, <1>4, <1>5, Cs!RecursionKeeps
<1> HIDE DEF R
<1>7. ChunksGood(c, s.va, R[s.va])  BY <1>2, <1>6
<1>8. R[s.va] \in Seq(A)  BY <1>7 DEF ChunksGood, c
<1> QED  BY <1>1, <1>8, SequenceOf

\* The entries of a chunk are marked.
LEMMA AddChunkKeeps ==
  ASSUME NEW i, NEW u, NEW a, i.chunk[a] \in Nat, i.chunk[a] >= 8
  PROVE  Kept({}, u, AddChunk(i, u, a))
<1> DEFINE n == (i.chunk[a] - 8) \div 2
           entries == [k \in 1 .. n |-> a + 6 + 2 * k]
           named == SetName(u, a, <<"reloc_chunk", ToString(a)>>)
<1>1. AddChunk(i, u, a) = Nu!Fold(i, named, entries)
  BY Zenon DEF AddChunk, NumberStep, Nu!Fold, FoldLeft, Nu!MapThenFoldSet,
    MapThenFoldSet, Nu!Max, Max
<1>2. n \in Nat /\ DOMAIN entries = 1 .. n
  OBVIOUS
<1>3. Kept({}, u, named)  BY NamesKept
<1> HIDE DEF n, entries, named
<1>4. Nu!Related(i, named, entries)
  BY KeptIsOrder, AddFreeLocKeeps DEF Nu!Related, Rel, NumberStep
<1>5. Kept({}, named, Nu!Fold(i, named, entries))
  BY <1>2, <1>4, Nu!FoldKeeps DEF Rel
<1> QED  BY <1>1, <1>3, <1>5, KeptIsOrder

\* The pass of the relocation sections of PE files.
LEMMA PeKeeps ==
  ASSUME im \in Images, NEW u
  PROVE  Kept({}, u, Pe(im, u))
<1> DEFINE q == Segments(im, {"reloc"})
           f == [s \in Elements(q) |-> Chunks(im, s)]
           all == Joined(q, f)
<1>1. Pe(im, u) = Ck!Fold(im, u, all)
  BY Zenon DEF Pe, ForEach, ChunkStep, Ck!Fold, FoldLeft, Ck!MapThenFoldSet,
    MapThenFoldSet, Ck!Max, Max
<1>2. Sequence(q) /\ \A s \in Elements(q) : Sequence(f[s]) /\ Elements(f[s]) \subseteq {a \in VAs : im.chunk[a] >= 8}
  BY SegmentsAre, ChunksAre
<1>3. Sequence(all) /\ Elements(all) \subseteq {a \in VAs : im.chunk[a] >= 8}
  <2>1. Sequence(all) /\ Elements(all) = UNION {Elements(f[s]) : s \in Elements(q)}
    <3> HIDE DEF q, f
    <3> QED  BY <1>2, JoinedSequence
  <2> HIDE DEF q, f, all
  <2> QED  BY <1>2, <2>1
<1> HIDE DEF all
<1>4. /\ Len(all) \in Nat /\ DOMAIN all = 1 .. Len(all)
      /\ \A k \in DOMAIN all : all[k] \in VAs /\ im.chunk[all[k]] >= 8
  BY <1>3, SequenceIs
<1>5. Ck!Related(im, u, all)
  <2>1. \A k \in DOMAIN all : im.chunk[all[k]] \in Nat  BY <1>4, PassesAssumption
  <2>2. \A x : \A k \in DOMAIN all : Kept({}, x, ChunkStep(im, x, all[k]))
    BY <1>4, <2>1, AddChunkKeeps DEF ChunkStep
  <2> QED  BY <2>2, KeptIsOrder DEF Ck!Related, Rel
<1> QED  BY <1>1, <1>4, <1>5, Ck!FoldKeeps DEF Rel

----------------------------------------------------------------------------
\* What a word holds, if it is an address, is one of the program.
LEMMA PointsToAddress ==
  ASSUME im \in Images, NEW p \in VAs, Points(im, p)
  PROVE  Word(im, p) \in VAs
<1>1. Word(im, p) = im.word[p]
  BY DEF Points, Word
<1>2. Word(im, p) \in Nat  BY <1>1, PassesAssumption
<1> QED  BY <1>2, PointersAreAddresses DEF Points

\* One relocated pointer.
LEMMA RelocateKeeps ==
  ASSUME im \in Images, NEW u, NEW p \in VAs
  PROVE  Kept({}, u, Relocate(im, u, p))
<1> DEFINE t == Word(im, p)
           a == MarkPointer(u, t)
<1>1. Relocate(im, u, p) = u \/ (Points(im, p) /\ Relocate(im, u, p) = AddXref(a, p, t, "Pointer"))
  BY Zenon DEF Relocate
<1>2. CASE Relocate(im, u, p) = u
  BY <1>2, KeptIsOrder
<1>3. CASE Points(im, p) /\ Relocate(im, u, p) = AddXref(a, p, t, "Pointer")
  <2>1. t \in VAs  BY <1>3, PointsToAddress
  <2> HIDE DEF t
  <2>2. Kept({}, u, a)  BY <2>1, MarkPointerKeeps
  <2> HIDE DEF a
  <2>3. Kept({}, a, AddXref(a, p, t, "Pointer"))  BY NamesKept
  <2> QED  BY <1>3, <2>2, <2>3, KeptIsOrder
<1> QED  BY <1>1, <1>2, <1>3

\* The pass of relocations.
LEMMA RelocationsKeeps ==
  ASSUME im \in Images, NEW u, Shape(u)
  PROVE  Kept({}, u, Relocations(im, u))
<1> DEFINE q == OfType(u, "Pointer")
<1>1. Relocations(im, u) = Rl!Fold(im, u, q)
  BY Zenon DEF Relocations, RelocateStep, Rl!Fold, FoldLeft, Rl!MapThenFoldSet,
    MapThenFoldSet, Rl!Max, Max
<1>2. Len(q) \in Nat /\ DOMAIN q = 1 .. Len(q) /\ \A k \in DOMAIN q : q[k] \in VAs
  <2>1. Sequence(q) /\ \A va \in Elements(q) : TypeAt(u, va) = "Pointer"  BY OfTypeIs
  <2> HIDE DEF q
  <2>2. \A va \in Elements(q) : va \in VAs  BY <2>1 DEF Shape
  <2> QED  BY <2>1, <2>2, SequenceIs
<1> HIDE DEF q
<1>3. Rl!Related(im, u, q)
  BY <1>2, KeptIsOrder, RelocateKeeps DEF Rl!Related, Rel, RelocateStep
<1> QED  BY <1>1, <1>2, <1>3, Rl!FoldKeeps DEF Rel

----------------------------------------------------------------------------
\* The words that hold addresses and that no location claims.
LEMMA FreePointersAre ==
  ASSUME im \in Images, NEW u, Shape(u)
  PROVE  /\ Sequence(FreePointers(im, u))
         /\ \A p \in Elements(FreePointers(im, u)) : p \in VAs /\ ~Located(u, p) /\ Points(im, p)
<1> DEFINE f == [s \in Elements(im.segs) |-> Select(FreeCells(u, s.va, End(s), PtrSize),
                                                    LAMBDA a : Points(im, a))]
           A == {p \in VAs : ~Located(u, p) /\ Points(im, p)}
<1>1. FreePointers(im, u) = Joined(im.segs, f)
  BY Zenon DEF FreePointers, ForEach
<1>2. ASSUME NEW s \in Elements(im.segs)  PROVE Sequence(f[s]) /\ Elements(f[s]) \subseteq A
  <2>1. /\ Sequence(FreeCells(u, s.va, End(s), PtrSize))
        /\ Elements(FreeCells(u, s.va, End(s), PtrSize)) \subseteq {x \in VAs : ~Located(u, x)}
    BY SegmentEnds, FreeCellsAre, ImageAssumption
  <2> QED  BY <2>1, ChosenIs DEF Select
<1>3. Sequence(im.segs)  BY PassesAssumption
<1> HIDE DEF f, A
<1>4. /\ Sequence(Joined(im.segs, f))
      /\ Elements(Joined(im.segs, f)) = UNION {Elements(f[x]) : x \in Elements(im.segs)}
  BY <1>2, <1>3, JoinedSequence
<1> QED  BY <1>1, <1>2, <1>4 DEF A

\* The pointers that are grouped into tables are among those found.
LEMMA RunsAre ==
  ASSUME NEW ps, Sequence(ps)
  PROVE  Sequence(Runs(ps)) /\ Elements(Runs(ps)) \subseteq Elements(ps)
<1> DEFINE all == [k \in DOMAIN ps |-> k]
           long == Select(all, LAMBDA k : InRow(ps, k, TableMin))
           r == [k \in DOMAIN long |-> ps[long[k]]]
<1>1. Runs(ps) = r
  BY Zenon DEF Runs
<1>2. Len(ps) \in Nat /\ DOMAIN ps = 1 .. Len(ps) /\ \A k \in DOMAIN ps : ps[k] \in Elements(ps)
  BY SequenceIs
<1>3. Sequence(all) /\ Elements(all) \subseteq DOMAIN ps
  <2>1. DOMAIN all = 1 .. Len(ps) /\ all = [k \in 1 .. Len(ps) |-> all[k]] /\ \A k \in DOMAIN ps : all[k] = k
    BY <1>2
  <2> HIDE DEF all
  <2> QED  BY <1>2, <2>1, FunctionSequence DEF Elements
<1> HIDE DEF all
<1>4. Sequence(long) /\ Elements(long) \subseteq DOMAIN ps
  BY <1>3, ChosenIs DEF Select
<1> HIDE DEF long
<1>5. Len(long) \in Nat /\ DOMAIN long = 1 .. Len(long) /\ \A k \in DOMAIN long : long[k] \in DOMAIN ps
  BY <1>4, SequenceIs
<1>6. DOMAIN r = 1 .. Len(long) /\ r = [k \in 1 .. Len(long) |-> r[k]]
      /\ \A k \in DOMAIN r : r[k] \in Elements(ps)
  BY <1>2, <1>5
<1> HIDE DEF r
<1> QED  BY <1>1, <1>5, <1>6, FunctionSequence DEF Elements

\* One entry of a table of pointers.
LEMMA AddTableEntryKeeps ==
  ASSUME NEW i, NEW u, NEW p \in VAs
  PROVE  Kept({}, u, AddTableEntry(i, u, p))
<1> DEFINE t == Word(i, p)
           a == MarkPointer(u, p)
           b == AddXref(a, p, t, "Data")
<1>1. AddTableEntry(i, u, p) \in {b, AddFn(b, t, "sub")}
  BY Zenon DEF AddTableEntry
<1>2. Kept({}, u, a)  BY MarkPointerKeeps
<1> HIDE DEF a, t
<1>3. Kept({}, a, b)  BY NamesKept
<1> HIDE DEF b
<1>4. Kept({}, b, AddFn(b, t, "sub"))  BY AddFnKeeps
<1> QED  BY <1>1, <1>2, <1>3, <1>4, KeptIsOrder

\* The pass of tables of pointers.
LEMMA PointerTablesKeeps ==
  ASSUME im \in Images, NEW u, Shape(u)
  PROVE  Kept({}, u, PointerTables(im, u))
<1> DEFINE q == Runs(FreePointers(im, u))
<1>1. PointerTables(im, u) \in {u, Ta!Fold(im, u, q)}
  <2>1. FoldLeft(LAMBDA x, p : AddTableEntry(im, x, p), u, q) = Ta!Fold(im, u, q)
    BY Zenon DEF TableStep, Ta!Fold, FoldLeft, Ta!MapThenFoldSet, MapThenFoldSet,
      Ta!Max, Max
  <2> QED  BY <2>1 DEF PointerTables
<1>2. Sequence(q) /\ Elements(q) \subseteq VAs
  BY FreePointersAre, RunsAre
<1> HIDE DEF q
<1>3. Len(q) \in Nat /\ DOMAIN q = 1 .. Len(q) /\ \A k \in DOMAIN q : q[k] \in VAs
  BY <1>2, SequenceIs
<1>4. Ta!Related(im, u, q)
  BY <1>3, KeptIsOrder, AddTableEntryKeeps DEF Ta!Related, Rel, TableStep
<1>5. Kept({}, u, Ta!Fold(im, u, q))
  BY <1>3, <1>4, Ta!FoldKeeps DEF Rel
<1> QED  BY <1>1, <1>5, KeptIsOrder

----------------------------------------------------------------------------
\* The instructions of a block decode.
LEMMA InsnsAre ==
  ASSUME im \in Images, NEW b, b.va \in VAs
  PROVE  /\ Sequence(InsnsOf(im, b))
         /\ \A va \in Elements(InsnsOf(im, b)) : Decodes(im, va)
<1> DEFINE c == <<im, b>>
           D == 0 .. Top
           R == In!Recursive(c, D)
           A == {x \in VAs : Decodes(im, x)}
<1>1. InsnsOf(im, b) = R[Top][b.va]
  BY Zenon DEF InsnsOf, Sweep, InsnsTo, In!Recursive
<1>2. Top \in Nat  BY ImageAssumption
<1>3. In!Ranked(c, D, Top)
  <2>1. \A k \in D : Rank(c, k) \in 0 .. Top  BY DEF Rank
  <2>2. ASSUME NEW f, NEW g, NEW k \in D, \A j \in D : Rank(c, j) < Rank(c, k) => f[j] = g[j]
        PROVE  InsnsTo(c, f, k) = InsnsTo(c, g, k)
    <3>1. k # 0 => f[k - 1] = g[k - 1]
      <4>1. k # 0 => k - 1 \in D /\ k - 1 < k  BY <1>2
      <4> QED  BY <2>2, <4>1 DEF Rank
    <3> QED  BY <3>1 DEF InsnsTo
  <2> HIDE DEF c
  <2> QED  BY <2>1, <2>2 DEF In!Ranked
<1>4. ASSUME NEW f, NEW k \in D, \A j \in D : Rank(c, j) < Rank(c, k) => InsnsGood(c, j, f[j])
      PROVE  InsnsGood(c, k, InsnsTo(c, f, k))
  <2> SUFFICES ASSUME NEW a \in VAs  PROVE InsnsTo(c, f, k)[a] \in Seq(A)
    BY DEF InsnsGood
  <2> DEFINE r == f[k - 1][After(im, a)]
  <2>1. InsnsTo(c, f, k)[a] \in {<<>>, <<a>>} \/
          (k # 0 /\ Decodes(im, a) /\ ~(After(im, a) > Top) /\ InsnsTo(c, f, k)[a] = <<a>> \o r)
    BY DEF InsnsTo
  <2>2. InsnsTo(c, f, k)[a] # <<>> => a \in A
    BY DEF InsnsTo
  <2>3. CASE k # 0 /\ Decodes(im, a) /\ ~(After(im, a) > Top) /\ InsnsTo(c, f, k)[a] = <<a>> \o r
    <3>1. im.insn[a].size \in Nat \ {0}  BY <2>3, PassesAssumption DEF Decodes
    <3>2. After(im, a) \in VAs  BY <1>2, <2>3, <3>1 DEF After, VAs
    <3>3. k - 1 \in D /\ k - 1 < k  BY <1>2, <2>3
    <3>4. InsnsGood(c, k - 1, f[k - 1])  BY <1>4, <3>3 DEF Rank
    <3>5. r \in Seq(A)  BY <3>2, <3>4 DEF InsnsGood
    <3>6. a \in A  BY <2>3
    <3> HIDE DEF r, A
    <3>7. <<a>> \o r \in Seq(A)  BY <3>5, <3>6
    <3> QED  BY <2>3, <3>7
  <2>4. CASE InsnsTo(c, f, k)[a] \in {<<>>, <<a>>}
    <3> DEFINE x == InsnsTo(c, f, k)[a]
    <3>1. x = <<>> \/ (x # <<>> /\ x = <<a>> /\ a \in A)  BY <2>2, <2>4
    <3> HIDE DEF x, A
    <3>2. a \in A => <<a>> \in Seq(A)  OBVIOUS
    <3>3. <<>> \in Seq(A)  OBVIOUS
    <3>4. x \in Seq(A)  BY <3>1, <3>2, <3>3, Zenon
    <3> QED  BY <3>4 DEF x
  <2> QED  BY <2>1, <2>3, <2>4
<1> HIDE DEF c
<1>5. \A k \in D : InsnsGood(c, k, R[k])
  BY <1>2, <1>3, <1>4, In!RecursionKeeps
<1> HIDE DEF R
<1>6. InsnsGood(c, Top, R[Top])  BY <1>2, <1>5
<1>7. R[Top][b.va] \in Seq(A)  BY <1>6 DEF InsnsGood, c
<1> QED  BY <1>1, <1>7, SequenceOf

\* A set of positions has a greatest one.
LEMMA MaximumIs ==
  ASSUME NEW n \in Nat, NEW T, T \subseteq 1 .. n, T # {}
  PROVE  (CHOOSE k \in T : \A j \in T : j <= k) \in T
<1> DEFINE M == {x \in 0 .. n : \E j \in T : x = n - j}
<1>1. M \subseteq Nat /\ M # {}
  <2>1. PICK j \in T : TRUE  OBVIOUS
  <2>2. n - j \in 0 .. n  OBVIOUS
  <2>3. n - j \in M  BY <2>2
  <2>4. M \subseteq Nat  OBVIOUS
  <2> QED  BY <2>3, <2>4
<1>2. PICK x \in M : \A y \in M : ~(y < x)
  <2> HIDE DEF M
  <2> QED  BY <1>1, Fn!LeastOf
<1>3. PICK k \in T : x = n - k  OBVIOUS
<1>4. ASSUME NEW j \in T  PROVE j <= k
  <2>1. n - j \in M  OBVIOUS
  <2>2. ~(n - j < x)  BY <1>2, <2>1
  <2> QED  BY <1>3, <2>2
<1> QED  BY <1>4

\* What the string stores of a block write to are addresses.
LEMMA StoredIs ==
  ASSUME im \in Images, NEW b, b.va \in VAs
  PROVE  Sequence(Stored(im, b)) /\ Elements(Stored(im, b)) \subseteq VAs
<1> DEFINE q == InsnsOf(im, b)
           sets(k) == /\ im.insn[q[k]].mnem \in {"lea", "mov"} /\ im.insn[q[k]].dst = "di"
                      /\ ~im.insn[q[k]].deref /\ im.insn[q[k]].val # None
                      /\ IsValidPointer(im, im.insn[q[k]].val)
           before(n) == {k \in 1 .. n : sets(k)}
           latest(S) == CHOOSE k \in S : \A j \in S : j <= k
           all == [k \in DOMAIN q |-> k]
           uses == Select(all, LAMBDA k : im.insn[q[k]].mnem = "stos" /\ before(k) # {})
           r == [i \in DOMAIN uses |-> im.insn[q[latest(before(uses[i]))]].val]
<1>1. Stored(im, b) = r
  BY Zenon DEF Stored
<1>2. Len(q) \in Nat /\ DOMAIN q = 1 .. Len(q) /\ \A k \in DOMAIN q : Decodes(im, q[k])
  BY InsnsAre, SequenceIs
<1> HIDE DEF q
<1>3. Sequence(all) /\ Elements(all) \subseteq DOMAIN q
  <2>1. DOMAIN all = 1 .. Len(q) /\ all = [k \in 1 .. Len(q) |-> all[k]] /\ \A k \in DOMAIN q : all[k] = k
    BY <1>2
  <2> HIDE DEF all
  <2> QED  BY <1>2, <2>1, FunctionSequence DEF Elements
<1> HIDE DEF all
<1>4. Sequence(uses) /\ \A k \in Elements(uses) : k \in DOMAIN q /\ before(k) # {}
  <2> HIDE DEF sets
  <2> QED  BY <1>3, ChosenIs DEF Select
<1> HIDE DEF uses
<1>5. /\ Len(uses) \in Nat /\ DOMAIN uses = 1 .. Len(uses)
      /\ \A i \in DOMAIN uses : uses[i] \in DOMAIN q /\ before(uses[i]) # {}
  <2> HIDE DEF before
  <2> QED  BY <1>4, SequenceIs
<1>6. ASSUME NEW i \in DOMAIN uses  PROVE im.insn[q[latest(before(uses[i]))]].val \in VAs
  <2> DEFINE n == uses[i]
             k == latest(before(n))
  <2>1. n \in 1 .. Len(q) /\ before(n) # {}  BY <1>2, <1>5
  <2>2. before(n) \subseteq 1 .. n /\ n \in Nat
    <3> HIDE DEF n
    <3> QED  BY <2>1
  <2>3. k \in before(n)
    <3> HIDE DEF before
    <3> QED  BY <2>1, <2>2, MaximumIs
  <2> HIDE DEF k
  <2>4. k \in 1 .. n /\ sets(k)  BY <2>3
  <2>5. k \in DOMAIN q
    <3> HIDE DEF n
    <3> QED  BY <1>2, <2>1, <2>4
  <2>6. im.insn[q[k]] # None /\ q[k] \in VAs  BY <1>2, <2>5 DEF Decodes
  <2>7. im.insn[q[k]].val \in Nat /\ IsValidPointer(im, im.insn[q[k]].val)
    BY <2>4, <2>6, PassesAssumption
  <2>8. im.insn[q[k]].val \in VAs  BY <2>7, PointersAreAddresses
  <2> QED  BY <2>8 DEF k
<1>7. DOMAIN r = 1 .. Len(uses) /\ r = [i \in 1 .. Len(uses) |-> r[i]]
      /\ \A i \in DOMAIN r : r[i] \in VAs
  <2> HIDE DEF latest, before
  <2> QED  BY <1>5, <1>6
<1> HIDE DEF r
<1> QED  BY <1>1, <1>5, <1>7, FunctionSequence DEF Elements

\* The blocks of a function start at addresses.
LEMMA BlockSeqIs ==
  ASSUME NEW u, Shape(u), NEW f
  PROVE  Sequence(BlockSeq(u, f)) /\ \A b \in Elements(BlockSeq(u, f)) : b.va \in VAs
<1>1. Sequence(BlockSeq(u, f)) /\ Elements(BlockSeq(u, f)) \subseteq Elements(u.blocks)
  BY ChosenIs DEF BlockSeq, Select, Shape
<1> QED  BY <1>1 DEF Shape

\* The pass of what single instructions give away.
LEMMA InstrHookKeeps ==
  ASSUME im \in Images, NEW u, Shape(u)
  PROVE  Kept({}, u, InstrHook(im, u))
<1> DEFINE f == [g \in Elements(u.funcs) |-> BlockSeq(u, g)]
           blocks == Joined(u.funcs, f)
           h == [b \in Elements(blocks) |-> Stored(im, b)]
           q == Joined(blocks, h)
<1>1. InstrHook(im, u) \in {u, Po!Fold(im, u, q)}
  <2>1. FoldLeft(LAMBDA x, t : MarkPointer(x, t), u, q) = Po!Fold(im, u, q)
    BY Zenon DEF PointerStep, Po!Fold, FoldLeft, Po!MapThenFoldSet, MapThenFoldSet,
      Po!Max, Max
  <2> QED  BY <2>1 DEF InstrHook, ForEach
<1>2. Sequence(blocks) /\ \A b \in Elements(blocks) : b.va \in VAs
  <2>1. Sequence(u.funcs)  BY DEF Shape
  <2>2. \A g \in Elements(u.funcs) : Sequence(f[g]) /\ \A b \in Elements(f[g]) : b.va \in VAs
    BY BlockSeqIs
  <2>3. Sequence(blocks) /\ Elements(blocks) = UNION {Elements(f[g]) : g \in Elements(u.funcs)}
    <3> HIDE DEF f
    <3> QED  BY <2>1, <2>2, JoinedSequence
  <2> HIDE DEF blocks, f
  <2> QED  BY <2>2, <2>3
<1> HIDE DEF blocks
<1>3. Sequence(q) /\ Elements(q) \subseteq VAs
  <2>1. \A b \in Elements(blocks) : Sequence(h[b]) /\ Elements(h[b]) \subseteq VAs
    BY <1>2, StoredIs
  <2>2. Sequence(q) /\ Elements(q) = UNION {Elements(h[b]) : b \in Elements(blocks)}
    <3> HIDE DEF h
    <3> QED  BY <1>2, <2>1, JoinedSequence
  <2> HIDE DEF q, h
  <2> QED  BY <2>1, <2>2
<1> HIDE DEF q
<1>4. Len(q) \in Nat /\ DOMAIN q = 1 .. Len(q) /\ \A k \in DOMAIN q : q[k] \in VAs
  BY <1>3, SequenceIs
<1>5. Po!Related(im, u, q)
  BY <1>4, KeptIsOrder, MarkPointerKeeps DEF Po!Related, Rel, PointerStep
<1>6. Kept({}, u, Po!Fold(im, u, q))
  BY <1>4, <1>5, Po!FoldKeeps DEF Rel
<1> QED  BY <1>1, <1>6, KeptIsOrder

RegStep(c, u, f) == MarkThunkReg(c, u, f)
Rg == INSTANCE DataInduction WITH Step <- RegStep

ConventionStep(c, u, f) ==
  SetConvention(u, f, ConventionOf(c[1], c[2], f), Argc(c[1], c[2], f))
Co == INSTANCE DataInduction WITH Step <- ConventionStep

PadStep(c, u, f) == MarkPad(c, u, f)
Pd == INSTANCE DataInduction WITH Step <- PadStep

RunTo(c, f, a) ==
  IF a <= Top /\ (Located(c[2], a) => TypeAt(c[2], a) = "Pointer") /\ IsFunction(c[2], Word(c[1], a))
  THEN 1 + f[a + PtrSize] ELSE 0
RunRank(c, a) == IF a > Top THEN 0 ELSE Top + 1 - a
RunGood(c, a, v) == v \in Nat
Ru == INSTANCE DataInduction WITH Def <- RunTo, Rank <- RunRank, Good <- RunGood

VfTo(c, f, i) ==
  IF i > Len(c[3]) THEN <<>>
  ELSE IF ~IsFunction(c[2], Word(c[1], c[3][i])) THEN f[i + 1]
  ELSE <<<<c[3][i], FunctionRun(c[1], c[2], c[3][i])>>>> \o f[i + FunctionRun(c[1], c[2], c[3][i])]
VfRank(c, i) == IF i > Len(c[3]) THEN 0 ELSE Len(c[3]) + 1 - i
VfGood(c, i, v) == v \in Seq(Elements(c[3]) \X (Nat \ {0}))
Vf == INSTANCE DataInduction WITH Def <- VfTo, Rank <- VfRank, Good <- VfGood

VtStep(c, u, t) ==
  SetName(AddLoc(u, t[1], t[2] * PtrSize, "VfTable"), t[1], <<"vtable", ToString(t[1])>>)
Vt == INSTANCE DataInduction WITH Step <- VtStep

----------------------------------------------------------------------------
(* Annotations. *)

\* A thunk that returns its own address is named for the register.
LEMMA MarkThunkRegKeeps ==
  ASSUME NEW i, NEW u, NEW f
  PROVE  Kept({}, u, MarkThunkReg(i, u, f))
<1> DEFINE name == <<"thunk_reg", ToString(f)>>
           a == [u EXCEPT !.thunk = Put(@, f, name)]
<1>1. Kept({}, u, a)  BY Annotated
<1>2. MarkThunkReg(i, u, f) \in {u, SetName(a, f, name)}
  BY DEF MarkThunkReg
<1> HIDE DEF a, name
<1> QED  BY <1>1, <1>2, NamesKept, KeptIsOrder

\* The pass of thunks that load a register.
LEMMA ThunkRegKeeps ==
  ASSUME NEW u, Shape(u)
  PROVE  Kept({}, u, ThunkReg(im, u))
<1>1. ThunkReg(im, u) \in {u, Rg!Fold(im, u, u.funcs)}
  <2>1. FoldLeft(LAMBDA x, f : MarkThunkReg(im, x, f), u, u.funcs) = Rg!Fold(im, u, u.funcs)
    BY Zenon DEF RegStep, Rg!Fold, FoldLeft, Rg!MapThenFoldSet, MapThenFoldSet,
      Rg!Max, Max
  <2> QED  BY <2>1 DEF ThunkReg
<1>2. Len(u.funcs) \in Nat /\ DOMAIN u.funcs = 1 .. Len(u.funcs)
  BY SequenceIs DEF Shape
<1>3. Rg!Related(im, u, u.funcs)
  BY KeptIsOrder, MarkThunkRegKeeps DEF Rg!Related, Rel, RegStep
<1>4. Kept({}, u, Rg!Fold(im, u, u.funcs))
  BY <1>2, <1>3, Rg!FoldKeeps DEF Rel
<1> QED  BY <1>1, <1>4, KeptIsOrder

\* The passes of the two other architectures set conventions only.
LEMMA ConventionsKeep ==
  ASSUME NEW u
  PROVE  Kept({}, u, Arm(im, u)) /\ Kept({}, u, Aarch64(im, u))
BY Annotated, KeptIsOrder DEF Arm, Aarch64, Annotate

\* The pass of calling conventions.
LEMMA CallingKeeps ==
  ASSUME NEW u, Shape(u)
  PROVE  Kept({}, u, Calling(im, u))
<1> DEFINE c == <<im, u>>
<1>1. Calling(im, u) = Co!Fold(c, u, u.funcs)
  BY Zenon DEF Calling, ConventionStep, Co!Fold, FoldLeft, Co!MapThenFoldSet,
    MapThenFoldSet, Co!Max, Max
<1>2. Len(u.funcs) \in Nat /\ DOMAIN u.funcs = 1 .. Len(u.funcs)
  BY SequenceIs DEF Shape
<1>3. ASSUME NEW x, NEW f, NEW convention, NEW argc
      PROVE  Kept({}, x, SetConvention(x, f, convention, argc))
  <2> SUFFICES ASSUME Shape(x)  PROVE Kept({}, x, SetConvention(x, f, convention, argc))
    BY DEF Kept
  <2>1. DOMAIN x = Parts  BY DEF Shape
  <2> QED  BY <2>1, SameIsKept DEF SetConvention, Parts
<1>4. Co!Related(c, u, u.funcs)
  <2>1. \A x, f : Kept({}, x, ConventionStep(c, x, f))  BY <1>3 DEF ConventionStep
  <2> HIDE DEF c
  <2> QED  BY <2>1, KeptIsOrder DEF Co!Related, Rel
<1>5. Kept({}, u, Co!Fold(c, u, u.funcs))
  <2> HIDE DEF c
  <2> QED  BY <1>2, <1>4, Co!FoldKeeps DEF Rel
<1> QED  BY <1>1, <1>5

\* A pad has a size, and there is none of no byte or more than sixteen.
LEMMA PadBeforeIs ==
  ASSUME NEW i, NEW f
  PROVE  PadBefore(i, f) \in 0 .. 16
<1> DEFINE pads(n) == \A k \in 1 .. n : /\ f - k > 0 \/ k = 1
                                   /\ f - k >= 0 /\ Reads(i, f - k, 1)
                                   /\ i.char[f - k] \in {"nop", "int3"}
                                   /\ i.char[f - k] = i.char[f - 1]
           T == {n \in 0 .. 16 : n < 16 => ~pads(n + 1)}
<1>1. \E n \in 0 .. 16 : pads(n) /\ (n < 16 => ~pads(n + 1))
  <2>1. pads(0)  OBVIOUS
  <2> HIDE DEF pads
  <2>2. 16 \in T /\ T \subseteq Nat  OBVIOUS
  <2>3. PICK n \in T : \A m \in T : ~(m < n)
    <3> HIDE DEF T
    <3> QED  BY <2>2, Fn!LeastOf
  <2>4. n \in 0 .. 16 /\ (n < 16 => ~pads(n + 1))  OBVIOUS
  <2>5. pads(n)
    <3>1. CASE n = 0  BY <2>1, <3>1
    <3>2. CASE n # 0
      <4>1. n - 1 \in 0 .. 16 /\ n - 1 < n /\ n - 1 < 16 /\ n - 1 + 1 = n  BY <2>4, <3>2
      <4>2. n - 1 \notin T  BY <2>3, <4>1
      <4> QED  BY <4>1, <4>2
    <3> QED  BY <3>1, <3>2
  <2> QED  BY <2>4, <2>5
<1>2. PadBefore(i, f) = CHOOSE n \in 0 .. 16 : pads(n) /\ (n < 16 => ~pads(n + 1))
  BY Zenon DEF PadBefore
<1> HIDE DEF pads
<1> QED  BY <1>1, <1>2

\* The pass of the padding before functions.
LEMMA HotpatchKeeps ==
  ASSUME NEW u, Shape(u)
  PROVE  Kept({}, u, Hotpatch(im, u))
<1>1. Hotpatch(im, u) = Pd!Fold(im, u, u.funcs)
  BY Zenon DEF Hotpatch, PadStep, Pd!Fold, FoldLeft, Pd!MapThenFoldSet,
    MapThenFoldSet, Pd!Max, Max
<1>2. Len(u.funcs) \in Nat /\ DOMAIN u.funcs = 1 .. Len(u.funcs)
  BY SequenceIs DEF Shape
<1>3. ASSUME NEW x, NEW f  PROVE Kept({}, x, MarkPad(im, x, f))
  <2> DEFINE n == PadBefore(im, f)
  <2>1. n \in 0 .. 16  BY PadBeforeIs
  <2>2. MarkPad(im, x, f) = IF n >= 5 THEN AddFreeLoc(x, f - n, n, "Pad") ELSE x
    BY DEF MarkPad
  <2> HIDE DEF n
  <2>3. n >= 5 => Kept({}, x, AddFreeLoc(x, f - n, n, "Pad"))
    BY <2>1, AddFreeLocKeeps
  <2> QED  BY <2>2, <2>3, KeptIsOrder
<1>4. Pd!Related(im, u, u.funcs)
  BY <1>3, KeptIsOrder DEF Pd!Related, Rel, PadStep
<1> QED  BY <1>1, <1>2, <1>4, Pd!FoldKeeps DEF Rel

----------------------------------------------------------------------------
(* Tables of virtual functions. *)

\* A run of pointers to functions has a length, and ends with the image.
LEMMA FunctionRunIs ==
  ASSUME NEW i, NEW u, NEW va \in Nat
  PROVE  FunctionRun(i, u, va) \in Nat \ {0}
<1> DEFINE c == <<i, u>>
           R == Ru!Recursive(c, Nat)
<1>1. FunctionRun(i, u, va) = 1 + R[va + PtrSize]
  BY Zenon DEF FunctionRun, RunTo, Ru!Recursive
<1>2. Top \in Nat /\ PtrSize \in Nat \ {0}  BY ImageAssumption
<1>3. \A a \in Nat : /\ RunRank(c, a) \in 0 .. Top + 1
                     /\ a + PtrSize \in Nat
                     /\ a <= Top => RunRank(c, a + PtrSize) < RunRank(c, a)
  <2> TAKE a \in Nat
  <2> DEFINE b == a + PtrSize
  <2>1. b \in Nat /\ b > a  BY <1>2
  <2>2. RunRank(c, a) \in 0 .. Top + 1  BY <1>2 DEF RunRank
  <2>3. a <= Top => RunRank(c, b) < RunRank(c, a)
    <3> HIDE DEF b
    <3> QED  BY <1>2, <2>1 DEF RunRank
  <2> QED  BY <2>1, <2>2, <2>3
<1>4. Ru!Ranked(c, Nat, Top + 1)
  <2>1. ASSUME NEW f, NEW g, NEW a \in Nat,
               \A b \in Nat : RunRank(c, b) < RunRank(c, a) => f[b] = g[b]
        PROVE  RunTo(c, f, a) = RunTo(c, g, a)
    <3>1. a <= Top => f[a + PtrSize] = g[a + PtrSize]  BY <1>3, <2>1
    <3> HIDE DEF c
    <3> QED  BY <3>1 DEF RunTo
  <2> HIDE DEF c
  <2> QED  BY <1>3, <2>1 DEF Ru!Ranked
<1>5. ASSUME NEW f, NEW a \in Nat, \A b \in Nat : RunRank(c, b) < RunRank(c, a) => RunGood(c, b, f[b])
      PROVE  RunGood(c, a, RunTo(c, f, a))
  <2>1. a <= Top => f[a + PtrSize] \in Nat  BY <1>3, <1>5 DEF RunGood
  <2> HIDE DEF c
  <2> QED  BY <2>1 DEF RunGood, RunTo
<1> HIDE DEF c
<1>6. \A a \in Nat : RunGood(c, a, R[a])
  BY <1>2, <1>4, <1>5, Ru!RecursionKeeps
<1> HIDE DEF R
<1>7. R[va + PtrSize] \in Nat  BY <1>3, <1>6 DEF RunGood
<1> QED  BY <1>1, <1>7

\* The pass of tables of virtual functions.
LEMMA VfTablesKeeps ==
  ASSUME im \in Images, NEW u, Shape(u)
  PROVE  Kept({}, u, VfTables(im, u))
<1> DEFINE ps == Ascending(Elements(OfType(u, "Pointer")))
           c == <<im, u, ps>>
           P == Nat \ {0}
           R == Vf!Recursive(c, P)
           q == Select(R[1], LAMBDA t : t[2] >= TableMin)
           A == Elements(ps) \X (Nat \ {0})
<1>1. VfTables(im, u) = Vt!Fold(0, u, q)
  <2>1. VfTables(im, u) = FoldLeft(LAMBDA x, t : SetName(AddLoc(x, t[1], t[2] * PtrSize, "VfTable"), t[1],
                                     <<"vtable", ToString(t[1])>>), u, q)
    BY Zenon DEF VfTables, VfTo, Vf!Recursive
  <2> HIDE DEF q
  <2>2. FoldLeft(LAMBDA x, t : SetName(AddLoc(x, t[1], t[2] * PtrSize, "VfTable"), t[1],
                                     <<"vtable", ToString(t[1])>>), u, q) = Vt!Fold(0, u, q)
    BY Zenon DEF VtStep, Vt!Fold, FoldLeft, Vt!MapThenFoldSet, MapThenFoldSet,
      Vt!Max, Max
  <2> QED  BY <2>1, <2>2
<1>2. Sequence(ps) /\ \A p \in Elements(ps) : p \in VAs /\ p \notin Ops(u)
  <2>1. \A p \in Elements(OfType(u, "Pointer")) : p \notin Ops(u)
    BY OfTypeIs DEF Ops
  <2> QED  BY <2>1, AscendingIs
<1> HIDE DEF ps
<1>3. Len(ps) \in Nat /\ DOMAIN ps = 1 .. Len(ps) /\ \A k \in DOMAIN ps : ps[k] \in Elements(ps)
  BY <1>2, SequenceIs
<1> DEFINE N == Len(ps) + 1
           run(k) == FunctionRun(im, u, ps[k])
<1>4. ASSUME NEW k \in P
      PROVE  /\ VfRank(c, k) \in 0 .. N /\ k + 1 \in P
             /\ k <= Len(ps) => /\ run(k) \in P /\ k + run(k) \in P
                                /\ VfRank(c, k + 1) < VfRank(c, k)
                                /\ VfRank(c, k + run(k)) < VfRank(c, k)
  <2>1. VfRank(c, k) \in 0 .. N /\ k + 1 \in P  BY <1>3 DEF VfRank
  <2>2. ASSUME k <= Len(ps), NEW r \in P  PROVE k + r \in P /\ VfRank(c, k + r) < VfRank(c, k)
    BY <1>3, <2>2 DEF VfRank
  <2>3. ASSUME k <= Len(ps)  PROVE run(k) \in P
    <3>1. ps[k] \in Nat  BY <1>2, <1>3, <2>3 DEF VAs
    <3> QED  BY <3>1, FunctionRunIs
  <2> HIDE DEF run, P, c
  <2>4. 1 \in P  BY DEF P
  <2> QED  BY <2>1, <2>2, <2>3, <2>4
<1>5. Vf!Ranked(c, P, N)
  <2>1. ASSUME NEW f, NEW g, NEW k \in P,
               \A b \in P : VfRank(c, b) < VfRank(c, k) => f[b] = g[b]
        PROVE  VfTo(c, f, k) = VfTo(c, g, k)
    <3>1. CASE k > Len(ps)
      BY <3>1 DEF VfTo
    <3>2. CASE k <= Len(ps)
      <4>1. f[k + 1] = g[k + 1] /\ f[k + run(k)] = g[k + run(k)]  BY <1>4, <2>1, <3>2
      <4> QED  BY <3>2, <4>1 DEF VfTo
    <3> QED  BY <1>3, <3>1, <3>2
  <2>2. \A k \in P : VfRank(c, k) \in 0 .. N  BY <1>4
  <2> HIDE DEF c, P
  <2> QED  BY <2>1, <2>2 DEF Vf!Ranked
<1>6. ASSUME NEW f, NEW k \in P, \A b \in P : VfRank(c, b) < VfRank(c, k) => VfGood(c, b, f[b])
      PROVE  VfGood(c, k, VfTo(c, f, k))
  <2>1. CASE k > Len(ps)
    BY <2>1 DEF VfTo, VfGood
  <2>2. CASE k <= Len(ps)
    <3> DEFINE x == <<ps[k], run(k)>>
               y == f[k + run(k)]
    <3>1. f[k + 1] \in Seq(A) /\ y \in Seq(A)
      <4>1. VfGood(c, k + 1, f[k + 1]) /\ VfGood(c, k + run(k), f[k + run(k)])
        <5> HIDE DEF c, P, run
        <5> QED  BY <1>4, <1>6, <2>2
      <4> QED  BY <4>1 DEF VfGood
    <3>2. x \in A
      <4>1. k \in DOMAIN ps  BY <1>3, <2>2
      <4>2. ps[k] \in Elements(ps) /\ run(k) \in P  BY <1>3, <1>4, <2>2, <4>1
      <4> HIDE DEF run
      <4> QED  BY <4>2
    <3>3. VfTo(c, f, k) \in {f[k + 1], <<x>> \o y}  BY <2>2 DEF VfTo
    <3> HIDE DEF x, y, A
    <3>4. <<x>> \o y \in Seq(A)  BY <3>1, <3>2
    <3>5. VfTo(c, f, k) \in Seq(A)  BY <3>1, <3>3, <3>4
    <3> QED  BY <3>5 DEF VfGood, A
  <2> QED  BY <1>3, <2>1, <2>2
<1>7. R[1] \in Seq(A)
  <2>1. \A k \in P : VfGood(c, k, R[k])
    <3>1. N \in Nat  BY <1>3
    <3> HIDE DEF c, P, N
    <3> QED  BY <1>5, <1>6, <3>1, Vf!RecursionKeeps
  <2> HIDE DEF R
  <2> QED  BY <2>1 DEF VfGood
<1> HIDE DEF R
<1>8. Sequence(q) /\ Elements(q) \subseteq A
  <2>1. Sequence(R[1]) /\ Elements(R[1]) \subseteq A  BY <1>7, SequenceOf
  <2> QED  BY <2>1, ChosenIs DEF Select
<1> HIDE DEF q
<1>9. Len(q) \in Nat /\ DOMAIN q = 1 .. Len(q) /\ \A k \in DOMAIN q : q[k] \in A
  <2> HIDE DEF A
  <2> QED  BY <1>8, SequenceIs
<1>10. ASSUME NEW x, Kept({}, u, x), NEW t \in A  PROVE Kept({}, x, VtStep(0, x, t))
  <2> DEFINE y == AddLoc(x, t[1], t[2] * PtrSize, "VfTable")
  <2>1. t[1] \notin Ops(x)  BY <1>2, <1>10 DEF Kept
  <2>2. t[2] * PtrSize \in Nat \ {0}  BY ImageAssumption
  <2>3. Kept({}, x, y)  BY <2>1, <2>2, AddLocKeeps
  <2> HIDE DEF y
  <2>4. \A name : Kept({}, y, SetName(y, t[1], name))  BY NamesKept
  <2> QED  BY <2>3, <2>4, KeptIsOrder DEF VtStep, y
<1>11. Vt!Related(0, u, q)
  BY <1>9, <1>10, KeptIsOrder DEF Vt!Related, Rel
<1> QED  BY <1>1, <1>9, <1>11, Vt!FoldKeeps DEF Rel

WireStep(c, u, x) == Wire(u, x[1], x[2], x[3])
Wi == INSTANCE DataInduction WITH Step <- WireStep

SymWireStep(c, u, t) == SymWire(u, c[1], c[2], t)
Sw == INSTANCE DataInduction WITH Step <- SymWireStep

SymJumpStep(c, u, jmp) == SymJump(c[1], u, c[2], jmp)
Sj == INSTANCE DataInduction WITH Step <- SymJumpStep

SymFunctionStep(c, u, f) == SymFunction(c, u, f)
Sf == INSTANCE DataInduction WITH Step <- SymFunctionStep

NoReturnTo(c, f, n) ==
  IF n = 0 THEN InitNoReturn(c[1], c[2])
  ELSE [f[n - 1] EXCEPT !.noret =
          @ \cup {g \in Elements(f[n - 1].funcs) : NeverComesBack(c[1], f[n - 1], g)}]
NoReturnGood(c, n, v) == Kept({}, c[2], v)
Nr == INSTANCE DataInduction WITH Def <- NoReturnTo, Good <- NoReturnGood

TextsTo(c, f, a) ==
  IF a = End(c[3]) THEN <<>>
  ELSE IF Located(c[2], a) \/ TextIn(c[1], c[3], a) = None THEN f[a + 1]
  ELSE <<TextIn(c[1], c[3], a)>> \o f[a + TextIn(c[1], c[3], a)[2]]
TextsRank(c, a) == End(c[3]) - a
TextsGood(c, a, v) == v \in Seq({t \in Nat \X (Nat \ {0}) \X {"Unicode", "String"} : ~Located(c[2], t[1])})
Tx == INSTANCE DataInduction WITH Def <- TextsTo, Rank <- TextsRank, Good <- TextsGood

TextStep(c, u, t) == AddText(u, t)
Te == INSTANCE DataInduction WITH Step <- TextStep

SectionStep(c, u, s) == SectionStrings(c, u, s)
Se == INSTANCE DataInduction WITH Step <- SectionStep

----------------------------------------------------------------------------
(* Jump tables. *)

\* What is in a segment of code is an address of the image.
LEMMA CodeIsAddress ==
  ASSUME im \in Images, NEW t \in Nat, InCode(im, t)
  PROVE  t \in VAs
<1>1. PICK s \in Elements(im.segs) : Within(s, t)
  BY SegmentsAre DEF InCode, InSegments
<1>2. s.va \in Nat /\ End(s) \in Nat /\ End(s) <= Top + 1
  BY SegmentEnds
<1> QED  BY <1>1, <1>2, ImageAssumption DEF Within, VAs

\* What a jump table leads to are addresses: it is read up to one that is not.
LEMMA CasesAre ==
  ASSUME im \in Images, NEW t
  PROVE  Sequence(Cases(im, t)) /\ Elements(Cases(im, t)) \subseteq VAs
<1> DEFINE rvas == IF t \in DOMAIN im.tables THEN im.tables[t] ELSE <<>>
           bad == {k \in DOMAIN rvas : rvas[k] = 0 \/ ~InCode(im, rvas[k] + im.base)}
           n == IF bad = {} THEN Len(rvas) ELSE Minimum(bad) - 1
           r == [k \in 1 .. n |-> rvas[k] + im.base]
<1>1. Cases(im, t) = r
  BY Zenon DEF Cases
<1>2. rvas \in Seq(Nat) /\ im.base \in Nat
  BY PassesAssumption
<1> HIDE DEF rvas
<1>3. Len(rvas) \in Nat /\ DOMAIN rvas = 1 .. Len(rvas) /\ \A k \in DOMAIN rvas : rvas[k] \in Nat
  BY <1>2
<1>4. n \in Nat /\ \A k \in 1 .. n : k \in DOMAIN rvas /\ k \notin bad
  <2>1. CASE bad = {}
    BY <1>3, <2>1
  <2>2. CASE bad # {}
    <3>1. bad \subseteq 1 .. Len(rvas)  BY <1>3
    <3>2. n = Minimum(bad) - 1  BY <2>2
    <3> HIDE DEF bad, n
    <3>3. bad \subseteq Nat  BY <1>3, <3>1
    <3> DEFINE m == Minimum(bad)
    <3>4. m \in bad /\ \A y \in bad : m <= y
      BY <2>2, <3>3, MinimumIs
    <3>5. n = m - 1  BY <3>2
    <3> HIDE DEF m
    <3>6. m \in 1 .. Len(rvas)  BY <3>1, <3>4
    <3>7. n \in Nat  BY <1>3, <3>5, <3>6
    <3>8. ASSUME NEW k \in 1 .. n  PROVE k \in DOMAIN rvas /\ k \notin bad
      <4>1. k \in 1 .. Len(rvas) /\ ~(m <= k)  BY <1>3, <3>5, <3>6
      <4> QED  BY <1>3, <3>4, <4>1
    <3> QED  BY <3>7, <3>8
  <2> QED  BY <2>1, <2>2
<1>5. ASSUME NEW k \in 1 .. n  PROVE r[k] \in VAs
  <2>1. k \in DOMAIN rvas /\ InCode(im, rvas[k] + im.base)  BY <1>4
  <2>2. rvas[k] + im.base \in Nat  BY <1>2, <1>3, <2>1
  <2> QED  BY <2>1, <2>2, CodeIsAddress
<1>6. DOMAIN r = 1 .. n /\ r = [k \in 1 .. n |-> r[k]]
  OBVIOUS
<1> HIDE DEF r, n
<1> QED  BY <1>1, <1>4, <1>5, <1>6, FunctionSequence DEF Elements

\* One case of a jump table is wired to its function.
LEMMA WireKeeps ==
  ASSUME NEW u, NEW f, NEW table, NEW t \in VAs
  PROVE  Kept({}, u, Wire(u, f, table, t))
<1> DEFINE a == AddXref(u, table, t, "Code")
           b == AddBlock(a, t, 0, f)
<1>1. Wire(u, f, table, t) \in {a, SetName(b, t, <<"switch_case", ToString(f), ToString(t)>>)}
  BY Zenon DEF Wire
<1>2. Kept({}, u, a)  BY NamesKept
<1> HIDE DEF a
<1>3. Kept({}, a, b)  BY AddBlockKeeps
<1> HIDE DEF b
<1> QED  BY <1>1, <1>2, <1>3, NamesKept, KeptIsOrder

\* The pass of jump tables.
LEMMA SwitchCaseKeeps ==
  ASSUME im \in Images, NEW u, Shape(u)
  PROVE  Kept({}, u, SwitchCase(im, u))
<1> DEFINE jumps(b) == Select(InsnsOf(im, b), LAMBDA a :
                    im.insn[a].kind = "jmp" /\ im.insn[a].to = None /\ im.insn[a].dst # None)
           ofFunc(f) == ForEach(BlockSeq(u, f), jumps)
           found(f) == [k \in DOMAIN ofFunc(f) |-> <<f, SwitchTable(im, u, ofFunc(f)[k])>>]
           switches == ForEach(u.funcs, found)
           cases(s) == [k \in DOMAIN Cases(im, s[2]) |-> <<s[1], s[2], Cases(im, s[2])[k]>>]
           read == Select(switches, LAMBDA s : s[2] # None)
           all == ForEach(read, cases)
<1>1. SwitchCase(im, u) \in {u, Wi!Fold(0, u, all)}
  <2>1. SwitchCase(im, u) \in {u, FoldLeft(LAMBDA y, x : Wire(y, x[1], x[2], x[3]), u, all)}
    BY Zenon DEF SwitchCase
  <2> HIDE DEF all
  <2>2. FoldLeft(LAMBDA y, x : Wire(y, x[1], x[2], x[3]), u, all) = Wi!Fold(0, u, all)
    BY Zenon DEF WireStep, Wi!Fold, FoldLeft, Wi!MapThenFoldSet, MapThenFoldSet,
      Wi!Max, Max
  <2> QED  BY <2>1, <2>2
<1>2. ASSUME NEW f  PROVE Sequence(ofFunc(f))
  <2> DEFINE q == BlockSeq(u, f)
             g == [b \in Elements(q) |-> jumps(b)]
  <2>1. Sequence(q) /\ \A b \in Elements(q) : b.va \in VAs  BY BlockSeqIs
  <2> HIDE DEF q
  <2>2. \A b \in Elements(q) : Sequence(g[b])
    BY <2>1, InsnsAre, ChosenIs DEF Select
  <2>3. ofFunc(f) = Joined(q, g)  BY Zenon DEF ForEach, q
  <2> HIDE DEF g
  <2> QED  BY <2>1, <2>2, <2>3, JoinedSequence
<1> HIDE DEF ofFunc
<1>3. ASSUME NEW f  PROVE Sequence(found(f))
  <2>1. Len(ofFunc(f)) \in Nat /\ DOMAIN ofFunc(f) = 1 .. Len(ofFunc(f))
    BY <1>2, SequenceIs
  <2> DEFINE r == found(f)
  <2>2. DOMAIN r = 1 .. Len(ofFunc(f)) /\ r = [k \in 1 .. Len(ofFunc(f)) |-> r[k]]
    BY <2>1
  <2> HIDE DEF r
  <2> QED  BY <2>1, <2>2, FunctionSequence DEF r
<1> HIDE DEF found
<1>4. Sequence(switches)
  <2> DEFINE g == [f \in Elements(u.funcs) |-> found(f)]
  <2>1. switches = Joined(u.funcs, g)  BY Zenon DEF ForEach
  <2>2. Sequence(u.funcs) /\ \A f \in Elements(u.funcs) : Sequence(g[f])  BY <1>3 DEF Shape
  <2> HIDE DEF g
  <2> QED  BY <2>1, <2>2, JoinedSequence
<1> HIDE DEF switches
<1>5. Sequence(read)  BY <1>4, ChosenIs DEF Select
<1> HIDE DEF read
<1>6. ASSUME NEW s  PROVE Sequence(cases(s)) /\ \A x \in Elements(cases(s)) : x[3] \in VAs
  <2> DEFINE r == cases(s)
             n == Len(Cases(im, s[2]))
  <2>1. /\ n \in Nat /\ DOMAIN Cases(im, s[2]) = 1 .. n
        /\ \A k \in DOMAIN Cases(im, s[2]) : Cases(im, s[2])[k] \in VAs
    BY CasesAre, SequenceIs
  <2>2. DOMAIN r = 1 .. n /\ r = [k \in 1 .. n |-> r[k]] /\ \A k \in 1 .. n : r[k][3] \in VAs
    BY <2>1
  <2> HIDE DEF r, n
  <2>3. Sequence(r)  BY <2>1, <2>2, FunctionSequence
  <2>4. \A x \in Elements(r) : x[3] \in VAs  BY <2>2 DEF Elements
  <2> QED  BY <2>3, <2>4 DEF r
<1> HIDE DEF cases
<1>7. Sequence(all) /\ \A x \in Elements(all) : x[3] \in VAs
  <2> DEFINE g == [s \in Elements(read) |-> cases(s)]
  <2>1. all = Joined(read, g)  BY Zenon DEF ForEach
  <2>2. \A s \in Elements(read) : Sequence(g[s]) /\ \A x \in Elements(g[s]) : x[3] \in VAs
    BY <1>6
  <2> HIDE DEF g
  <2>3. Sequence(all) /\ Elements(all) = UNION {Elements(g[s]) : s \in Elements(read)}
    BY <1>5, <2>1, <2>2, JoinedSequence
  <2> HIDE DEF all
  <2> QED  BY <2>2, <2>3
<1> HIDE DEF all
<1>8. Len(all) \in Nat /\ DOMAIN all = 1 .. Len(all) /\ \A k \in DOMAIN all : all[k][3] \in VAs
  BY <1>7, SequenceIs
<1>9. Wi!Related(0, u, all)
  BY <1>8, KeptIsOrder, WireKeeps DEF Wi!Related, Rel, WireStep
<1>10. Kept({}, u, Wi!Fold(0, u, all))
  BY <1>8, <1>9, Wi!FoldKeeps DEF Rel
<1> QED  BY <1>1, <1>10, KeptIsOrder

\* One case of a jump through a table is wired to its function.
LEMMA SymWireKeeps ==
  ASSUME NEW u, NEW f, NEW jmp, NEW t \in VAs
  PROVE  Kept({}, u, SymWire(u, f, jmp, t))
<1> DEFINE a == AddXref(u, jmp, t, "Code")
           b == AddBlock(a, t, 0, f)
<1>1. SymWire(u, f, jmp, t) \in {a, SetName(b, t, <<"case", ToString(f), ToString(t)>>)}
  BY Zenon DEF SymWire
<1>2. Kept({}, u, a)  BY NamesKept
<1> HIDE DEF a
<1>3. Kept({}, a, b)  BY AddBlockKeeps
<1> HIDE DEF b
<1> QED  BY <1>1, <1>2, <1>3, NamesKept, KeptIsOrder

\* All cases of one jump.
LEMMA SymJumpKeeps ==
  ASSUME NEW i, NEW u, NEW f, NEW jmp
  PROVE  Kept({}, u, SymJump(i, u, f, jmp))
<1> DEFINE q == Ascending(SymTargets(i, jmp))
           c == <<f, jmp>>
<1>1. SymJump(i, u, f, jmp) = Sw!Fold(c, u, q)
  BY Zenon DEF SymJump, SymWireStep, Sw!Fold, FoldLeft, Sw!MapThenFoldSet, MapThenFoldSet,
    Sw!Max, Max
<1>2. Sequence(q) /\ Elements(q) \subseteq VAs  BY AscendingIs
<1> HIDE DEF q
<1>3. Len(q) \in Nat /\ DOMAIN q = 1 .. Len(q) /\ \A k \in DOMAIN q : q[k] \in VAs
  BY <1>2, SequenceIs
<1>4. \A x : \A k \in DOMAIN q : Kept({}, x, SymWireStep(c, x, q[k]))
  BY <1>3, SymWireKeeps DEF SymWireStep
<1> HIDE DEF c
<1>5. Sw!Related(c, u, q)
  BY <1>4, KeptIsOrder DEF Sw!Related, Rel
<1> QED  BY <1>1, <1>3, <1>5, Sw!FoldKeeps DEF Rel

\* All jumps of one function that go through a register or memory.
LEMMA SymFunctionKeeps ==
  ASSUME im \in Images, NEW u, NEW f
  PROVE  Kept({}, u, SymFunction(im, u, f))
<1> SUFFICES ASSUME Shape(u)  PROVE Kept({}, u, SymFunction(im, u, f))
  BY DEF Kept
<1> DEFINE jumps(b) == Select(InsnsOf(im, b), LAMBDA a :
                    im.insn[a].kind = "jmp" /\ \A t \in Direct(im.insn[a]) : ~IsValidPointer(im, t))
           p == BlockSeq(u, f)
           g == [b \in Elements(p) |-> jumps(b)]
           q == IndirectJumps(im, u, f)
           c == <<im, f>>
<1>1. SymFunction(im, u, f) = Sj!Fold(c, u, q)
  BY Zenon DEF SymFunction, SymJumpStep, Sj!Fold, FoldLeft, Sj!MapThenFoldSet, MapThenFoldSet,
    Sj!Max, Max
<1>2. Sequence(q)
  <2>1. Sequence(p) /\ \A b \in Elements(p) : b.va \in VAs  BY BlockSeqIs
  <2>2. q = Joined(p, g)  BY Zenon DEF IndirectJumps, ForEach
  <2> HIDE DEF p, q
  <2>3. \A b \in Elements(p) : Sequence(g[b])
    BY <2>1, InsnsAre, ChosenIs DEF Select
  <2> HIDE DEF g
  <2> QED  BY <2>1, <2>2, <2>3, JoinedSequence
<1> HIDE DEF q
<1>3. Len(q) \in Nat /\ DOMAIN q = 1 .. Len(q)
  BY <1>2, SequenceIs
<1>4. \A x : \A k \in DOMAIN q : Kept({}, x, SymJumpStep(c, x, q[k]))
  BY SymJumpKeeps DEF SymJumpStep
<1> HIDE DEF c
<1>5. Sj!Related(c, u, q)
  BY <1>4, KeptIsOrder DEF Sj!Related, Rel
<1> QED  BY <1>1, <1>3, <1>5, Sj!FoldKeeps DEF Rel

\* The pass of jump tables that symbolic execution solves.
LEMMA SymSwitchCaseKeeps ==
  ASSUME im \in Images, NEW u, Shape(u)
  PROVE  Kept({}, u, SymSwitchCase(im, u))
<1> DEFINE F == Sf!Fold(im, u, u.funcs)
<1>1. SymSwitchCase(im, u) \in {u, F}
  <2>1. FoldLeft(LAMBDA x, f : SymFunction(im, x, f), u, u.funcs) = F
    BY Zenon DEF SymFunctionStep, Sf!Fold, FoldLeft, Sf!MapThenFoldSet, MapThenFoldSet,
      Sf!Max, Max
  <2> QED  BY <2>1 DEF SymSwitchCase
<1>2. Len(u.funcs) \in Nat /\ DOMAIN u.funcs = 1 .. Len(u.funcs)
  BY SequenceIs DEF Shape
<1>3. Sf!Related(im, u, u.funcs)
  BY KeptIsOrder, SymFunctionKeeps DEF Sf!Related, Rel, SymFunctionStep
<1>4. Kept({}, u, F)
  BY <1>2, <1>3, Sf!FoldKeeps DEF Rel
<1> QED  BY <1>1, <1>4, KeptIsOrder

\* The search for functions that do not return adds only to those known.
LEMMA NoReturnKeeps ==
  ASSUME NEW u, Shape(u)
  PROVE  Kept({}, u, NoReturn(im, u))
<1> DEFINE c == <<im, u>>
           N == Len(u.funcs)
           D == 0 .. N
           R == Nr!Recursive(c, D)
<1>1. NoReturn(im, u) = R[N]
  BY Zenon DEF NoReturn, Nr!Recursive, NoReturnTo
<1>2. N \in Nat  BY SequenceIs DEF Shape
<1>3. Nr!Ranked(c, D, N)
  <2>1. \A d \in D : Rank(c, d) \in 0 .. N  BY DEF Rank
  <2>2. ASSUME NEW f, NEW g, NEW d \in D, \A b \in D : Rank(c, b) < Rank(c, d) => f[b] = g[b]
        PROVE  NoReturnTo(c, f, d) = NoReturnTo(c, g, d)
    <3>1. CASE d = 0
      BY <3>1 DEF NoReturnTo
    <3>2. CASE d # 0
      <4>1. d - 1 \in D /\ d - 1 < d  BY <1>2, <3>2
      <4>2. f[d - 1] = g[d - 1]  BY <2>2, <4>1 DEF Rank
      <4> QED  BY <3>2, <4>2, Zenon DEF NoReturnTo
    <3> QED  BY <3>1, <3>2
  <2> HIDE DEF c
  <2> QED  BY <2>1, <2>2 DEF Nr!Ranked
<1>4. ASSUME NEW f, NEW d \in D, \A b \in D : Rank(c, b) < Rank(c, d) => NoReturnGood(c, b, f[b])
      PROVE  NoReturnGood(c, d, NoReturnTo(c, f, d))
  <2>1. CASE d = 0
    BY <2>1, NoReturnsKept DEF NoReturnGood, NoReturnTo, InitNoReturn
  <2>2. CASE d # 0
    <3>1. d - 1 \in D /\ d - 1 < d  BY <1>2, <2>2
    <3>2. Kept({}, u, f[d - 1])  BY <1>4, <3>1 DEF Rank, NoReturnGood
    <3> DEFINE v == f[d - 1]
    <3>3. Kept({}, v, NoReturnTo(c, f, d))
      BY <2>2, NoReturnsKept DEF NoReturnTo
    <3> QED  BY <3>2, <3>3, KeptIsOrder DEF NoReturnGood
  <2> QED  BY <2>1, <2>2
<1> HIDE DEF c
<1>5. \A d \in D : NoReturnGood(c, d, R[d])
  BY <1>2, <1>3, <1>4, Nr!RecursionKeeps
<1> HIDE DEF R
<1>6. N \in D  BY <1>2
<1> QED  BY <1>1, <1>5, <1>6 DEF NoReturnGood, c

----------------------------------------------------------------------------
(* Text. *)

\* A text of bytes ends before its segment does.
LEMMA AsciiSizeIs ==
  ASSUME NEW i, NEW va \in Nat, NEW end \in Nat, va <= end
  PROVE  AsciiSize(i, va, end) \in 0 .. end - va
<1> DEFINE stops == {a \in va .. end - 1 : i.char[a] # "text"}
           stop == IF stops = {} THEN end ELSE Minimum(stops)
<1>1. stop \in va .. end
  <2>1. stops \subseteq va .. end - 1  OBVIOUS
  <2> HIDE DEF stops
  <2>2. stops # {} => Minimum(stops) \in stops
    <3>1. stops \subseteq Nat  BY <2>1
    <3> QED  BY <3>1, MinimumIs
  <2>3. stops # {} => Minimum(stops) \in va .. end
    <3> DEFINE m == Minimum(stops)
    <3>1. stops # {} => m \in va .. end - 1  BY <2>1, <2>2
    <3> HIDE DEF m
    <3>2. stops # {} => m \in va .. end  BY <3>1
    <3> QED  BY <3>2 DEF m
  <2> QED  BY <2>3
<1>2. AsciiSize(i, va, end) = IF stop - va < MinString \/ (stop < end /\ i.char[stop] # "nul") THEN 0
                              ELSE stop - va + IF stop < end THEN 1 ELSE 0
  BY Zenon DEF AsciiSize
<1> HIDE DEF stop
<1> QED  BY <1>1, <1>2

\* A text of wide characters ends before its segment does.
LEMMA WideSizeIs ==
  ASSUME NEW i, NEW va \in Nat, NEW end \in Nat, va <= end
  PROVE  WideSize(i, va, end) \in 0 .. end - va
<1> DEFINE units == (end - va) \div 2
           low(k) == i.char[va + 2 * k]
           high(k) == i.char[va + 2 * k + 1]
           stops == {k \in 0 .. units - 1 : low(k) = "nul" /\ high(k) = "nul"}
           n == IF stops = {} THEN units ELSE Minimum(stops)
<1>1. units \in Nat /\ 2 * units <= end - va
  OBVIOUS
<1> HIDE DEF units
<1>2. n \in 0 .. units
  <2>1. stops \subseteq 0 .. units - 1  OBVIOUS
  <2> HIDE DEF stops
  <2>2. stops # {} => Minimum(stops) \in stops
    <3>1. stops \subseteq Nat  BY <2>1
    <3> QED  BY <3>1, MinimumIs
  <2>3. stops # {} => Minimum(stops) \in 0 .. units
    <3> DEFINE m == Minimum(stops)
    <3>1. stops # {} => m \in 0 .. units - 1  BY <2>1, <2>2
    <3> HIDE DEF m
    <3>2. stops # {} => m \in 0 .. units  BY <1>1, <3>1
    <3> QED  BY <3>2 DEF m
  <2> QED  BY <1>1, <2>3
<1>3. WideSize(i, va, end) \in {0, 2 * n + IF n < units THEN 2 ELSE 0}
  BY Zenon DEF WideSize, units
<1> HIDE DEF n
<1> QED  BY <1>1, <1>2, <1>3

\* What following a pointer leaves: locations and names stay, and what gets a
\* name is no pointer.
Followed(u, v) ==
  /\ DOMAIN u.loc \subseteq DOMAIN v.loc
  /\ \A va \in DOMAIN u.loc : v.loc[va] = u.loc[va]
  /\ DOMAIN u.names \subseteq DOMAIN v.names
  /\ \A va \in DOMAIN v.names \ DOMAIN u.names : Located(v, va) /\ v.loc[va].type # "Pointer"

\* What the search has done: it notes what it goes through, with its word, and
\* every pointer that it marks.
Noted(i, acc) == \A p \in DOMAIN acc.done : acc.done[p] = Word(i, p)
Searched(c, a, b) ==
  /\ Followed(a.w, b.w)
  /\ DOMAIN a.done \subseteq DOMAIN b.done /\ DOMAIN b.done \subseteq DOMAIN a.done \cup c[2]
  /\ Noted(c[1], a) => Noted(c[1], b)
  /\ \A va \in DOMAIN b.w.loc \ DOMAIN a.w.loc :
       b.w.loc[va].type = "Pointer" => va \in DOMAIN b.done
AccRel(c, a, b) ==
  DOMAIN a = {"w", "done"} =>
    DOMAIN b = {"w", "done"} /\ Kept({}, a.w, b.w) /\ (Shape(a.w) => Searched(c, a, b))
KnownStep(c, acc, p) == FollowKnown(c[1], acc, p)
Kn == INSTANCE DataInduction WITH Step <- KnownStep, Rel <- AccRel
FreeStep(c, acc, p) == FollowFree(c[1], acc, p)
Ff == INSTANCE DataInduction WITH Step <- FreeStep, Rel <- AccRel

\* The names that the search ends with.
NamesGiven(a) ==
  LET named == {p \in DOMAIN a.done : NameFor(a.w, a.done, p) # {}}
  IN  [a.w EXCEPT !.names = [va \in DOMAIN @ \cup named |->
         IF va \in named THEN CHOOSE x \in NameFor(a.w, a.done, va) : TRUE ELSE @[va]]]

\* A text that is found has a size.
LEMMA TextInIs ==
  ASSUME NEW i, NEW s, End(s) \in Nat, NEW va \in Nat, va < End(s), TextIn(i, s, va) # None
  PROVE  \E n \in 1 .. End(s) - va, type \in {"Unicode", "String"} : TextIn(i, s, va) = <<va, n, type>>
<1> DEFINE wide == IF LooksWide(i, va, End(s)) /\ LooksWide(i, va + 2, End(s))
                   THEN WideSize(i, va, End(s)) ELSE 0
           ascii == AsciiSize(i, va, End(s))
<1>1. wide \in 0 .. End(s) - va  BY WideSizeIs
<1>2. ascii \in 0 .. End(s) - va  BY AsciiSizeIs
<1>3. TextIn(i, s, va) = IF wide > 0 THEN <<va, wide, "Unicode">>
                         ELSE IF ascii > 0 THEN <<va, ascii, "String">> ELSE None
  BY Zenon DEF TextIn
<1> HIDE DEF wide, ascii
<1>4. CASE wide > 0
  <2>1. wide \in 1 .. End(s) - va  BY <1>1, <1>4
  <2> QED  BY <1>3, <1>4, <2>1
<1>5. CASE ~(wide > 0) /\ ascii > 0
  <2>1. ascii \in 1 .. End(s) - va  BY <1>2, <1>5
  <2> QED  BY <1>3, <1>5, <2>1
<1> QED  BY <1>3, <1>4, <1>5

\* The texts of a segment are where no location is.
LEMMA TextsAre ==
  ASSUME im \in Images, NEW u, NEW s \in Elements(im.segs)
  PROVE  /\ Sequence(TextsOf(im, u, s))
         /\ \A t \in Elements(TextsOf(im, u, s)) :
              /\ t[2] \in Nat \ {0} /\ t[3] \in {"Unicode", "String"} /\ ~Located(u, t[1])
<1> DEFINE c == <<im, u, s>>
           to == End(s)
           D == s.va .. to
           R == Tx!Recursive(c, D)
           A == {t \in Nat \X (Nat \ {0}) \X {"Unicode", "String"} : ~Located(u, t[1])}
<1>1. TextsOf(im, u, s) = R[s.va]
  BY Zenon DEF TextsOf, TextsTo, Tx!Recursive
<1>2. s.va \in Nat /\ to \in Nat /\ s.va \in D
  <2>1. s.va \in VAs /\ s.size \in Nat /\ to = s.va + s.size
    BY SegmentsAre
  <2> HIDE DEF to
  <2> QED  BY <2>1 DEF VAs
<1> HIDE DEF to
<1>3. ASSUME NEW a \in D, a # to
      PROVE  /\ a + 1 \in D /\ TextsRank(c, a + 1) < TextsRank(c, a)
             /\ TextIn(im, s, a) # None =>
                  /\ TextIn(im, s, a)[1] = a
                  /\ TextIn(im, s, a) \in Nat \X (Nat \ {0}) \X {"Unicode", "String"}
                  /\ a + TextIn(im, s, a)[2] \in D
                  /\ TextsRank(c, a + TextIn(im, s, a)[2]) < TextsRank(c, a)
  <2>1. a \in Nat /\ a < to  BY <1>2, <1>3
  <2>2. ASSUME NEW n \in 1 .. to - a  PROVE a + n \in D /\ TextsRank(c, a + n) < TextsRank(c, a)
    BY <1>2, <2>1 DEF TextsRank, to
  <2>3. 1 \in 1 .. to - a  BY <1>2, <2>1
  <2>4. ASSUME TextIn(im, s, a) # None
        PROVE  \E n \in 1 .. to - a, type \in {"Unicode", "String"} : TextIn(im, s, a) = <<a, n, type>>
    <3>1. End(s) \in Nat /\ a < End(s)  BY <1>2, <2>1 DEF to
    <3> QED  BY <2>1, <2>4, <3>1, TextInIs DEF to
  <2> HIDE DEF D, c
  <2> QED  BY <2>1, <2>2, <2>3, <2>4
<1>4. Tx!Ranked(c, D, to)
  <2>1. \A a \in D : TextsRank(c, a) \in 0 .. to  BY <1>2 DEF TextsRank, to
  <2>2. ASSUME NEW f, NEW g, NEW a \in D,
               \A b \in D : TextsRank(c, b) < TextsRank(c, a) => f[b] = g[b]
        PROVE  TextsTo(c, f, a) = TextsTo(c, g, a)
    <3>1. CASE a = to  BY <3>1 DEF TextsTo, to
    <3>2. CASE a # to
      <4>1. f[a + 1] = g[a + 1]  BY <1>3, <2>2, <3>2
      <4>2. TextIn(im, s, a) # None => f[a + TextIn(im, s, a)[2]] = g[a + TextIn(im, s, a)[2]]
        BY <1>3, <2>2, <3>2
      <4> QED  BY <3>2, <4>1, <4>2 DEF TextsTo, to
    <3> QED  BY <3>1, <3>2
  <2> HIDE DEF c
  <2> QED  BY <2>1, <2>2 DEF Tx!Ranked
<1>5. ASSUME NEW f, NEW a \in D,
             \A b \in D : TextsRank(c, b) < TextsRank(c, a) => TextsGood(c, b, f[b])
      PROVE  TextsGood(c, a, TextsTo(c, f, a))
  <2>1. CASE a = to  BY <2>1 DEF TextsTo, TextsGood, to
  <2>2. CASE a # to
    <3> DEFINE x == TextIn(im, s, a)
               y == f[a + x[2]]
    <3>1. TextsTo(c, f, a) = IF Located(u, a) \/ x = None THEN f[a + 1] ELSE <<x>> \o y
      BY <2>2 DEF TextsTo, to
    <3>2. f[a + 1] \in Seq(A)
      <4>1. TextsGood(c, a + 1, f[a + 1])  BY <1>3, <1>5, <2>2
      <4> QED  BY <4>1 DEF TextsGood
    <3>3. ASSUME ~Located(u, a), x # None  PROVE x \in A /\ y \in Seq(A)
      <4>1. TextsGood(c, a + x[2], f[a + x[2]])  BY <1>3, <1>5, <2>2, <3>3
      <4>2. x[1] = a /\ x \in Nat \X (Nat \ {0}) \X {"Unicode", "String"}  BY <1>3, <2>2, <3>3
      <4>3. y \in Seq(A)  BY <4>1 DEF TextsGood
      <4> HIDE DEF x
      <4> QED  BY <3>3, <4>2, <4>3
    <3> HIDE DEF x, y, A
    <3>4. ASSUME x \in A, y \in Seq(A)  PROVE <<x>> \o y \in Seq(A)
      BY <3>4
    <3>5. TextsTo(c, f, a) \in Seq(A)  BY <3>1, <3>2, <3>3, <3>4
    <3> QED  BY <3>5 DEF TextsGood, A
  <2> QED  BY <2>1, <2>2
<1> HIDE DEF c
<1>6. \A a \in D : TextsGood(c, a, R[a])
  BY <1>2, <1>4, <1>5, Tx!RecursionKeeps
<1> HIDE DEF R
<1>7. R[s.va] \in Seq(A)  BY <1>2, <1>6 DEF TextsGood, c
<1>8. Sequence(R[s.va]) /\ Elements(R[s.va]) \subseteq A
  <2> HIDE DEF A
  <2> QED  BY <1>7, SequenceOf
<1>9. \A t \in A : t[2] \in Nat \ {0} /\ t[3] \in {"Unicode", "String"} /\ ~Located(u, t[1])
  OBVIOUS
<1> HIDE DEF A
<1> QED  BY <1>1, <1>8, <1>9

\* The texts of one section are marked.
LEMMA SectionStringsKeeps ==
  ASSUME im \in Images, NEW u, NEW s \in Elements(im.segs)
  PROVE  Kept({}, u, SectionStrings(im, u, s))
<1> DEFINE q == TextsOf(im, u, s)
<1>1. SectionStrings(im, u, s) = Te!Fold(0, u, q)
  BY Zenon DEF SectionStrings, TextStep, Te!Fold, FoldLeft, Te!MapThenFoldSet,
    MapThenFoldSet, Te!Max, Max
<1>2. /\ Sequence(q)
      /\ \A t \in Elements(q) :
           t[2] \in Nat \ {0} /\ t[3] \in {"Unicode", "String"} /\ ~Located(u, t[1])
  BY TextsAre
<1> HIDE DEF q
<1>3. Len(q) \in Nat /\ DOMAIN q = 1 .. Len(q) /\ \A k \in DOMAIN q : q[k] \in Elements(q)
  BY <1>2, SequenceIs
<1>4. ASSUME NEW x, Kept({}, u, x), Shape(u), NEW t \in Elements(q)
      PROVE  Kept({}, x, TextStep(0, x, t))
  <2> DEFINE y == AddLoc(x, t[1], t[2], t[3])
  <2>1. t[1] \notin Ops(x)  BY <1>2, <1>4 DEF Kept, Ops, Located
  <2>2. Kept({}, x, y)  BY <1>2, <2>1, AddLocKeeps
  <2>3. TextStep(0, x, t) \in {y, SetName(y, t[1], <<"text", ToString(t[1])>>)}
    BY DEF TextStep, AddText
  <2> HIDE DEF y
  <2> QED  BY <2>2, <2>3, NamesKept, KeptIsOrder
<1> SUFFICES ASSUME Shape(u)  PROVE Kept({}, u, SectionStrings(im, u, s))
  BY DEF Kept
<1>5. Te!Related(0, u, q)
  BY <1>3, <1>4, KeptIsOrder DEF Te!Related, Rel
<1> QED  BY <1>1, <1>3, <1>5, Te!FoldKeeps DEF Rel

\* The pass of strings.
LEMMA StringsKeeps ==
  ASSUME im \in Images, NEW u
  PROVE  Kept({}, u, Strings(im, u))
<1> DEFINE q == Select(im.segs, LAMBDA s : s.name # "text")
<1>1. Strings(im, u) = Se!Fold(im, u, q)
  BY Zenon DEF Strings, SectionStep, Se!Fold, FoldLeft, Se!MapThenFoldSet,
    MapThenFoldSet, Se!Max, Max
<1>2. Sequence(q) /\ Elements(q) \subseteq Elements(im.segs)
  BY PassesAssumption, ChosenIs DEF Select
<1> HIDE DEF q
<1>3. Len(q) \in Nat /\ DOMAIN q = 1 .. Len(q) /\ \A k \in DOMAIN q : q[k] \in Elements(im.segs)
  BY <1>2, SequenceIs
<1>4. Se!Related(im, u, q)
  BY <1>3, KeptIsOrder, SectionStringsKeeps DEF Se!Related, Rel, SectionStep
<1> QED  BY <1>1, <1>3, <1>4, Se!FoldKeeps DEF Rel

----------------------------------------------------------------------------
(* Pointers. *)

\* What is followed from a pointer is marked as text or as a pointer, never as code.
LEMMA FollowKeeps ==
  ASSUME NEW i, NEW u, NEW va \in Nat
  PROVE  Kept({}, u, Follow(i, u, va))
<1> DEFINE guess == Guess(i, u, va)
           span == IF guess = "Unicode" THEN 2 * Whole ELSE Whole
           size == IF ~Reads(i, va, span) THEN 0
                   ELSE IF guess = "Unicode" THEN WideSize(i, va, va + span)
                   ELSE AsciiSize(i, va, va + span)
           a == AddLoc(u, va, size, guess)
<1>1. /\ guess \in {None, "Unicode", "String", "Op"}
      /\ guess # None => ~Located(u, va)
  BY DEF Guess
<1>2. Follow(i, u, va) =
        IF guess = "Op" THEN AddFn(u, va, "sub")
        ELSE IF guess = None THEN u
        ELSE IF size = 0 THEN u
        ELSE SetName(a, va, <<"text", ToString(va)>>)
  BY Zenon DEF Follow
<1> HIDE DEF guess
<1>3. size \in Nat
  <2>1. span \in Nat  BY DataPassesAssumption
  <2> HIDE DEF span
  <2>2. va + span \in Nat /\ va <= va + span  BY <2>1
  <2>3. WideSize(i, va, va + span) \in Nat /\ AsciiSize(i, va, va + span) \in Nat
    BY <2>2, WideSizeIs, AsciiSizeIs
  <2> QED  BY <2>3
<1> HIDE DEF size
<1>4. CASE guess \in {"Unicode", "String"} /\ size # 0 /\ guess # None
  <2>1. va \notin Ops(u)  BY <1>1, <1>4 DEF Ops, Located
  <2>2. Kept({}, u, a)  BY <1>3, <1>4, <2>1, AddLocKeeps
  <2> HIDE DEF a
  <2>3. Kept({}, u, SetName(a, va, <<"text", ToString(va)>>))
    BY <2>2, NamesKept, KeptIsOrder
  <2> QED  BY <1>2, <1>4, <2>3
<1>5. CASE guess = "Op"
  BY <1>2, <1>5, AddFnKeeps
<1>6. CASE guess # "Op" /\ (guess = None \/ size = 0)
  BY <1>2, <1>6, KeptIsOrder
<1> QED  BY <1>1, <1>4, <1>5, <1>6

\* A pointer that has a location is followed.
LEMMA FollowKnownKeeps ==
  ASSUME im \in Images, NEW acc, DOMAIN acc = {"w", "done"}, NEW p \in VAs
  PROVE  /\ DOMAIN FollowKnown(im, acc, p) = {"w", "done"}
         /\ Kept({}, acc.w, FollowKnown(im, acc, p).w)
<1> DEFINE t == Word(im, p)
           v == Follow(im, acc.w, t)
<1>1. \/ FollowKnown(im, acc, p) = acc
      \/ Points(im, p) /\ FollowKnown(im, acc, p) = [w |-> v, done |-> Put(acc.done, p, t)]
      \/ FollowKnown(im, acc, p) = [acc EXCEPT !.done = Put(@, p, t)]
  BY DEF FollowKnown
<1>2. Points(im, p) => Kept({}, acc.w, v)
  <2>1. Points(im, p) => t \in Nat  BY PointsToAddress DEF VAs
  <2> HIDE DEF t
  <2> QED  BY <2>1, FollowKeeps
<1> HIDE DEF v, t
<1> QED  BY <1>1, <1>2, KeptIsOrder

\* A pointer that has none is marked, and followed.
LEMMA FollowFreeKeeps ==
  ASSUME im \in Images, NEW acc, DOMAIN acc = {"w", "done"}, NEW p \in VAs, Points(im, p)
  PROVE  /\ DOMAIN FollowFree(im, acc, p) = {"w", "done"}
         /\ Kept({}, acc.w, FollowFree(im, acc, p).w)
<1> DEFINE t == Word(im, p)
           a == MarkPointer(acc.w, p)
           b == AddXref(a, p, t, "Pointer")
           marked == IF Located(acc.w, p) THEN acc.w ELSE b
           v == Follow(im, marked, t)
<1>1. FollowFree(im, acc, p) = [w |-> v, done |-> Put(acc.done, p, t)]
  BY Zenon DEF FollowFree
<1>2. t \in Nat  BY PointsToAddress DEF VAs
<1> HIDE DEF t
<1>3. Kept({}, acc.w, a)  BY MarkPointerKeeps
<1> HIDE DEF a
<1>4. Kept({}, a, b)  BY NamesKept
<1> HIDE DEF b
<1>5. Kept({}, acc.w, marked)  BY <1>3, <1>4, KeptIsOrder
<1> HIDE DEF marked
<1>6. Kept({}, marked, v)  BY <1>2, FollowKeeps
<1> HIDE DEF v
<1> QED  BY <1>1, <1>5, <1>6, KeptIsOrder

\* What following does, of itself and of one after another.
LEMMA FollowedIsOrder ==
  /\ \A u : Followed(u, u)
  /\ \A u, v, x : Followed(u, v) /\ Followed(v, x) => Followed(u, x)
BY DEF Followed, Located

\* What is followed is marked as text, if at all.
LEMMA FollowDoes ==
  ASSUME NEW i, NEW u, Shape(u), NEW va
  PROVE  /\ Followed(u, Follow(i, u, va))
         /\ \A x \in DOMAIN Follow(i, u, va).loc \ DOMAIN u.loc : Follow(i, u, va).loc[x].type # "Pointer"
<1> DEFINE guess == Guess(i, u, va)
           span == IF guess = "Unicode" THEN 2 * Whole ELSE Whole
           size == IF ~Reads(i, va, span) THEN 0
                   ELSE IF guess = "Unicode" THEN WideSize(i, va, va + span)
                   ELSE AsciiSize(i, va, va + span)
           a == AddLoc(u, va, size, guess)
           name == <<"text", ToString(va)>>
           v == SetName(a, va, name)
           f == AddFn(u, va, "sub")
<1>1. /\ guess \in {None, "Unicode", "String", "Op"}
      /\ guess # None => ~Located(u, va)
  BY DEF Guess
<1>2. Follow(i, u, va) =
        IF guess = "Op" THEN f ELSE IF guess = None THEN u ELSE IF size = 0 THEN u ELSE v
  BY Zenon DEF Follow
<1>3. f.loc = u.loc /\ f.names = u.names
  BY DEF AddFn, Shape, Parts
<1> HIDE DEF guess, size, name, f
<1>4. /\ v.loc = Put(u.loc, va, [size |-> size, type |-> guess])
      /\ v.names = Put(u.names, va, name)
  BY DEF AddLoc, SetName, Shape, Parts
<1> HIDE DEF v
<1>5. CASE guess \in {"Unicode", "String"} /\ guess # None
  <2>1. va \notin DOMAIN u.loc  BY <1>1, <1>5 DEF Located
  <2>2. /\ DOMAIN v.loc = DOMAIN u.loc \cup {va} /\ v.loc[va].type = guess
        /\ \A x \in DOMAIN u.loc : v.loc[x] = u.loc[x]
    BY <1>4, <2>1 DEF Put
  <2>3. DOMAIN v.names = DOMAIN u.names \cup {va}
    BY <1>4 DEF Put
  <2>4. Followed(u, v) /\ \A x \in DOMAIN v.loc \ DOMAIN u.loc : v.loc[x].type # "Pointer"
    BY <1>5, <2>2, <2>3 DEF Followed, Located
  <2> QED  BY <1>2, <1>5, <2>4, FollowedIsOrder
<1>6. CASE guess = "Op"
  <2>1. Followed(u, f) /\ DOMAIN f.loc \ DOMAIN u.loc = {}
    BY <1>3 DEF Followed
  <2> QED  BY <1>2, <1>6, <2>1
<1>7. CASE guess = None /\ guess # "Op"
  BY <1>2, <1>7, FollowedIsOrder
<1> QED  BY <1>1, <1>5, <1>6, <1>7

\* A pointer that has a location is noted, unless it has a name or does not
\* point into the image.
LEMMA FollowKnownDoes ==
  ASSUME NEW i, NEW S, NEW acc, DOMAIN acc = {"w", "done"}, Shape(acc.w), NEW p \in S
  PROVE  LET x == FollowKnown(i, acc, p)
         IN  /\ Searched(<<i, S>>, acc, x)
             /\ Points(i, p) => p \in DOMAIN x.done \/ p \in DOMAIN x.w.names
<1> DEFINE t == Word(i, p)
           v == Follow(i, acc.w, t)
           d == Put(acc.done, p, t)
           x == FollowKnown(i, acc, p)
           c == <<i, S>>
<1>1. /\ ~Points(i, p) => x = acc
      /\ \/ x = acc /\ (Points(i, p) => p \in DOMAIN acc.w.names)
         \/ x = [w |-> v, done |-> d]
         \/ x = [acc EXCEPT !.done = d]
  BY DEF FollowKnown
<1>2. Followed(acc.w, v) /\ \A y \in DOMAIN v.loc \ DOMAIN acc.w.loc : v.loc[y].type # "Pointer"
  BY FollowDoes
<1>3. /\ DOMAIN d = DOMAIN acc.done \cup {p}
      /\ (\A y \in DOMAIN acc.done : acc.done[y] = Word(i, y)) => \A y \in DOMAIN d : d[y] = Word(i, y)
  BY DEF Put
<1>4. c[1] = i /\ c[2] = S  OBVIOUS
<1> HIDE DEF v, d, x, c
<1>5. CASE x = acc /\ (Points(i, p) => p \in DOMAIN acc.w.names)
  BY <1>5, FollowedIsOrder DEF Searched, x, c
<1>6. CASE x = [w |-> v, done |-> d]
  <2>1. x.w = v /\ x.done = d  BY <1>6
  <2>2. Searched(c, acc, x)
    BY <1>2, <1>3, <1>4, <2>1 DEF Searched, Noted
  <2> QED  BY <1>3, <2>1, <2>2 DEF x, c
<1>7. CASE x = [acc EXCEPT !.done = d]
  <2>1. x.w = acc.w /\ x.done = d  BY <1>7
  <2>2. Searched(c, acc, x)
    BY <1>3, <1>4, <2>1, FollowedIsOrder DEF Searched, Noted
  <2> QED  BY <1>3, <2>1, <2>2 DEF x, c
<1> QED  BY <1>1, <1>5, <1>6, <1>7

\* One that had none is noted too.
LEMMA FollowFreeDoes ==
  ASSUME NEW i, NEW S, NEW acc, DOMAIN acc = {"w", "done"}, Shape(acc.w), NEW p \in S, p \in VAs
  PROVE  Searched(<<i, S>>, acc, FollowFree(i, acc, p))
<1> DEFINE t == Word(i, p)
           a == MarkPointer(acc.w, p)
           b == AddXref(a, p, t, "Pointer")
           marked == IF Located(acc.w, p) THEN acc.w ELSE b
           v == Follow(i, marked, t)
           d == Put(acc.done, p, t)
           x == FollowFree(i, acc, p)
           c == <<i, S>>
<1>1. x = [w |-> v, done |-> d]
  BY Zenon DEF FollowFree
<1>2. Shape(a)
  BY MarkPointerKeeps DEF Kept
<1>3. Located(acc.w, p) \/ (a.loc = Put(acc.w.loc, p, [size |-> PtrSize, type |-> "Pointer"])
                            /\ a.names = acc.w.names)
  BY DEF MarkPointer, AddFreeLoc, AddLoc, Shape, Parts
<1> HIDE DEF a
<1>4. Shape(b) /\ b.loc = a.loc /\ b.names = a.names
  <2>1. Shape(b)  BY <1>2, NamesKept DEF Kept
  <2> QED  BY <1>2, <2>1 DEF AddXref, AddXrefs, Shape, Parts
<1> HIDE DEF b
<1>5. /\ Shape(marked) /\ DOMAIN marked.loc = DOMAIN acc.w.loc \cup {p}
      /\ \A y \in DOMAIN acc.w.loc : marked.loc[y] = acc.w.loc[y]
      /\ marked.names = acc.w.names
  BY <1>3, <1>4 DEF Put, Located
<1> HIDE DEF marked
<1>6. Followed(marked, v) /\ \A y \in DOMAIN v.loc \ DOMAIN marked.loc : v.loc[y].type # "Pointer"
  BY <1>5, FollowDoes
<1>7. /\ DOMAIN d = DOMAIN acc.done \cup {p}
      /\ (\A y \in DOMAIN acc.done : acc.done[y] = Word(i, y)) => \A y \in DOMAIN d : d[y] = Word(i, y)
  BY DEF Put
<1>8. c[1] = i /\ c[2] = S  OBVIOUS
<1> HIDE DEF v, d, x, c
<1>9. Followed(acc.w, v)
  BY <1>5, <1>6 DEF Followed
<1>10. \A y \in DOMAIN v.loc \ DOMAIN acc.w.loc : v.loc[y].type = "Pointer" => y \in DOMAIN d
  BY <1>5, <1>6, <1>7
<1>11. x.w = v /\ x.done = d  BY <1>1
<1>12. Searched(c, acc, x)
  BY <1>7, <1>8, <1>9, <1>10, <1>11 DEF Searched, Noted
<1> QED  BY <1>12 DEF x, c

\* What a search does, of itself and of one after another.
LEMMA SearchIsOrder ==
  ASSUME NEW c
  PROVE  /\ \A a : AccRel(c, a, a)
         /\ \A a, b, x : AccRel(c, a, b) /\ AccRel(c, b, x) => AccRel(c, a, x)
<1>1. \A a : AccRel(c, a, a)
  BY KeptIsOrder, FollowedIsOrder DEF AccRel, Searched
<1>2. ASSUME NEW a, NEW b, NEW x, Searched(c, a, b), Searched(c, b, x)
      PROVE  Searched(c, a, x)
  <2>1. Followed(a.w, x.w)  BY <1>2, FollowedIsOrder DEF Searched
  <2>2. \A va \in DOMAIN x.w.loc \ DOMAIN a.w.loc :
          x.w.loc[va].type = "Pointer" => va \in DOMAIN x.done
    BY <1>2 DEF Searched, Followed
  <2> QED  BY <1>2, <2>1, <2>2 DEF Searched
<1>3. ASSUME NEW a, NEW b, NEW x, AccRel(c, a, b), AccRel(c, b, x)
      PROVE  AccRel(c, a, x)
  <2> SUFFICES ASSUME DOMAIN a = {"w", "done"}
               PROVE  DOMAIN x = {"w", "done"} /\ Kept({}, a.w, x.w) /\ (Shape(a.w) => Searched(c, a, x))
    BY DEF AccRel
  <2>1. DOMAIN b = {"w", "done"} /\ Kept({}, a.w, b.w) /\ (Shape(a.w) => Searched(c, a, b))
    BY <1>3 DEF AccRel
  <2>2. DOMAIN x = {"w", "done"} /\ Kept({}, b.w, x.w) /\ (Shape(b.w) => Searched(c, b, x))
    BY <1>3, <2>1 DEF AccRel
  <2>3. Shape(a.w) => Shape(b.w)  BY <2>1 DEF Kept
  <2> QED  BY <1>2, <2>1, <2>2, <2>3, KeptIsOrder
<1> QED  BY <1>1, <1>3

\* The search ends with every pointer noted or named, and notes no others.
LEMMA SearchEnds ==
  ASSUME im \in Images, NEW u, Shape(u)
  PROVE  \E a :
           /\ Pointers(im, u) = NamesGiven(a)
           /\ Kept({}, u, a.w) /\ Followed(u, a.w) /\ Noted(im, a)
           /\ \A p \in DOMAIN a.w.loc : a.w.loc[p].type = "Pointer" /\ Points(im, p)
                => p \in DOMAIN a.done \/ p \in DOMAIN a.w.names
           /\ \A p \in DOMAIN a.done :
                p \in VAs /\ (TypeAt(u, p) = "Pointer" \/ (~Located(u, p) /\ Points(im, p)))
<1> DEFINE q == OfType(u, "Pointer")
           start == [w |-> u, done |-> [p \in {} |-> 0]]
           c == <<im, Elements(q)>>
           known == Kn!Fold(c, start, q)
           r == FreePointers(im, known.w)
           e == <<im, Elements(r)>>
           a == Ff!Fold(e, known, r)
<1>1. Pointers(im, u) = NamesGiven(a)
  <2> DEFINE k == FoldLeft(LAMBDA acc, p : FollowKnown(im, acc, p), start, q)
             f == FoldLeft(LAMBDA acc, p : FollowFree(im, acc, p), k, FreePointers(im, k.w))
  <2>1. Pointers(im, u) = NamesGiven(f)
    BY Zenon DEF Pointers, NamesGiven
  <2>2. known = k
    BY Zenon DEF KnownStep, Kn!Fold, FoldLeft, Kn!MapThenFoldSet, MapThenFoldSet,
      Kn!Max, Max
  <2> HIDE DEF known, k
  <2>3. a = f
    <3>1. a = FoldLeft(LAMBDA acc, p : FollowFree(im, acc, p), known, r)
      BY Zenon DEF FreeStep, Ff!Fold, FoldLeft, Ff!MapThenFoldSet, MapThenFoldSet,
        Ff!Max, Max
    <3> QED  BY <2>2, <3>1
  <2> HIDE DEF a, f
  <2> QED  BY <2>1, <2>3
<1>2. /\ Sequence(q) /\ \A p \in Elements(q) : p \in VAs /\ TypeAt(u, p) = "Pointer"
      /\ \A p \in DOMAIN u.loc : TypeAt(u, p) = "Pointer" => p \in Elements(q)
  <2>1. /\ Sequence(q) /\ \A p \in Elements(q) : TypeAt(u, p) = "Pointer"
        /\ \A p \in DOMAIN u.loc : TypeAt(u, p) = "Pointer" => p \in Elements(q)
    BY OfTypeIs
  <2> HIDE DEF q
  <2> QED  BY <2>1 DEF Shape
<1> HIDE DEF q
<1>3. Len(q) \in Nat /\ DOMAIN q = 1 .. Len(q) /\ \A k \in DOMAIN q : q[k] \in Elements(q)
  BY <1>2, SequenceIs
<1>4. start.w = u /\ start.done = [p \in {} |-> 0] /\ DOMAIN start = {"w", "done"}
  OBVIOUS
<1> HIDE DEF start
<1>5. Kn!Related(c, start, q)
  <2>1. ASSUME NEW x, NEW k \in DOMAIN q  PROVE AccRel(c, x, KnownStep(c, x, q[k]))
    <3>1. c[1] = im  OBVIOUS
    <3> SUFFICES ASSUME DOMAIN x = {"w", "done"}
                 PROVE  /\ DOMAIN FollowKnown(im, x, q[k]) = {"w", "done"}
                        /\ Kept({}, x.w, FollowKnown(im, x, q[k]).w)
                        /\ Shape(x.w) => Searched(c, x, FollowKnown(im, x, q[k]))
      BY <3>1 DEF AccRel, KnownStep
    <3> QED  BY <1>2, <1>3, FollowKnownKeeps, FollowKnownDoes
  <2> QED  BY <2>1, SearchIsOrder DEF Kn!Related
<1>6. /\ AccRel(c, start, known)
      /\ \A k \in DOMAIN q : \E x : AccRel(c, start, x) /\ AccRel(c, KnownStep(c, x, q[k]), known)
  BY <1>3, <1>5, Kn!FoldKeeps
<1>7. c[1] = im /\ c[2] = Elements(q)  OBVIOUS
<1> HIDE DEF known, c
<1>8. /\ DOMAIN known = {"w", "done"} /\ Kept({}, u, known.w) /\ Shape(known.w)
      /\ Searched(c, start, known)
  BY <1>4, <1>6 DEF AccRel, Kept
<1>9. ASSUME NEW p \in Elements(q), Points(im, p)
      PROVE  p \in DOMAIN known.done \/ p \in DOMAIN known.w.names
  <2>1. PICK k \in DOMAIN q : p = q[k]  BY DEF Elements
  <2>2. PICK x : AccRel(c, start, x) /\ AccRel(c, FollowKnown(im, x, p), known)
    BY <1>6, <1>7, <2>1 DEF KnownStep
  <2> DEFINE y == FollowKnown(im, x, p)
  <2>3. DOMAIN x = {"w", "done"} /\ Shape(x.w)
    BY <1>4, <2>2 DEF AccRel, Kept
  <2>4. p \in DOMAIN y.done \/ p \in DOMAIN y.w.names
    BY <1>9, <2>3, FollowKnownDoes
  <2>5. DOMAIN y = {"w", "done"} /\ Shape(y.w)
    BY <1>2, <2>3, FollowKnownKeeps DEF Kept
  <2>6. AccRel(c, y, known)  BY <2>2
  <2> HIDE DEF y
  <2> QED  BY <2>4, <2>5, <2>6 DEF AccRel, Searched, Followed
<1>10. /\ Sequence(r)
       /\ \A p \in Elements(r) : p \in VAs /\ ~Located(known.w, p) /\ Points(im, p)
  BY <1>8, FreePointersAre
<1> HIDE DEF r
<1>11. Len(r) \in Nat /\ DOMAIN r = 1 .. Len(r) /\ \A k \in DOMAIN r : r[k] \in Elements(r)
  BY <1>10, SequenceIs
<1>12. Ff!Related(e, known, r)
  <2>1. ASSUME NEW x, NEW k \in DOMAIN r  PROVE AccRel(e, x, FreeStep(e, x, r[k]))
    <3>1. e[1] = im  OBVIOUS
    <3> SUFFICES ASSUME DOMAIN x = {"w", "done"}
                 PROVE  /\ DOMAIN FollowFree(im, x, r[k]) = {"w", "done"}
                        /\ Kept({}, x.w, FollowFree(im, x, r[k]).w)
                        /\ Shape(x.w) => Searched(e, x, FollowFree(im, x, r[k]))
      BY <3>1 DEF AccRel, FreeStep
    <3> QED  BY <1>10, <1>11, FollowFreeKeeps, FollowFreeDoes
  <2> QED  BY <2>1, SearchIsOrder DEF Ff!Related
<1>13. AccRel(e, known, a)
  BY <1>11, <1>12, Ff!FoldKeeps
<1>14. e[1] = im /\ e[2] = Elements(r)  OBVIOUS
<1> HIDE DEF e, a
<1>15. Kept({}, known.w, a.w) /\ Searched(e, known, a)
  BY <1>8, <1>13 DEF AccRel
<1>16. Kept({}, u, a.w) /\ Followed(u, a.w)
  BY <1>4, <1>8, <1>15, KeptIsOrder, FollowedIsOrder DEF Searched
<1>17. Noted(im, a)
  BY <1>4, <1>7, <1>8, <1>14, <1>15 DEF Searched, Noted
<1>18. ASSUME NEW p \in DOMAIN a.w.loc, a.w.loc[p].type = "Pointer", Points(im, p)
       PROVE  p \in DOMAIN a.done \/ p \in DOMAIN a.w.names
  <2>1. CASE p \in DOMAIN u.loc
    <3>1. TypeAt(u, p) = "Pointer"  BY <1>16, <1>18, <2>1 DEF Followed, TypeAt
    <3>2. p \in Elements(q)  BY <1>2, <2>1, <3>1
    <3> QED  BY <1>9, <1>15, <1>18, <3>2 DEF Searched, Followed
  <2>2. CASE p \in DOMAIN known.w.loc \ DOMAIN u.loc
    <3>1. known.w.loc[p].type = "Pointer"  BY <1>15, <1>18, <2>2 DEF Searched, Followed
    <3> QED  BY <1>4, <1>8, <1>15, <2>2, <3>1 DEF Searched
  <2>3. CASE p \notin DOMAIN known.w.loc
    BY <1>15, <1>18, <2>3 DEF Searched
  <2> QED  BY <2>1, <2>2, <2>3
<1>19. ASSUME NEW p \in DOMAIN a.done
       PROVE  p \in VAs /\ (TypeAt(u, p) = "Pointer" \/ (~Located(u, p) /\ Points(im, p)))
  <2>1. p \in Elements(q) \/ p \in Elements(r)
    BY <1>4, <1>7, <1>8, <1>14, <1>15, <1>19 DEF Searched
  <2>2. p \in Elements(r) => ~Located(u, p)
    BY <1>4, <1>8, <1>10 DEF Searched, Followed, Located
  <2> QED  BY <1>2, <1>10, <2>1, <2>2
<1> QED  BY <1>1, <1>16, <1>17, <1>18, <1>19

\* The pass of pointers.
LEMMA PointersKeeps ==
  ASSUME im \in Images, NEW u, Shape(u)
  PROVE  Kept({}, u, Pointers(im, u))
<1>1. PICK a : Pointers(im, u) = NamesGiven(a) /\ Kept({}, u, a.w)
  BY SearchEnds
<1>2. \E x : NamesGiven(a) = [a.w EXCEPT !.names = x]
  BY DEF NamesGiven
<1>3. Kept({}, a.w, Pointers(im, u))
  <2>1. PICK x : Pointers(im, u) = [a.w EXCEPT !.names = x]  BY <1>1, <1>2
  <2>2. Kept({}, a.w, [a.w EXCEPT !.names = x])  BY Annotated
  <2> QED  BY <2>1, <2>2
<1> QED  BY <1>1, <1>3, KeptIsOrder

BlockStep(c, u, s) == AddBlock(u, s, After(c[1], LastInsn(c[1], c[2], s)) - s, c[3])
Bl == INSTANCE DataInduction WITH Step <- BlockStep

\* ThunksAnnotated of a workspace.
Annotates(v) ==
  \A f \in Elements(v.funcs) \ Elements(v.pend) :
    LET i == im.insn[f] IN
    /\ IsX86 /\ Decodes(im, f) /\ Branches(i) /\ i.deref
    /\ i.to \in DOMAIN im.imports /\ TypeAt(v, i.to) = "Import" /\ im.imports[i.to] \in im.apis
    => f \in v.apis

EntriesFound(v) == Elements(im.entries) \subseteq Elements(v.funcs)

PassInvariant ==
  /\ im \in Images /\ next \in Nat \ {0}
  /\ Shape(w)
  /\ next > 2 => EntriesFound(w)
  /\ Closes(w)
  /\ Annotates(w)

----------------------------------------------------------------------------
(* The cascade. *)

\* The blocks of a function are stored when it is analysed.
LEMMA BasicBlocksKeeps ==
  ASSUME NEW u, NEW f
  PROVE  Kept({}, u, BasicBlocks(im, u, f))
<1> DEFINE c == <<im, u, f>>
           q == Ascending(Starts(im, u, f))
           a == Bl!Fold(c, u, q)
<1>1. BasicBlocks(im, u, f) = u \/ \E x : BasicBlocks(im, u, f) = AddXrefs(a, x)
  <2> DEFINE size(s) == After(im, LastInsn(im, u, s)) - s
             b == FoldLeft(LAMBDA x, s : AddBlock(x, s, size(s), f), u, q)
  <2>1. b = a
    BY Zenon DEF BlockStep, Bl!Fold, FoldLeft, Bl!MapThenFoldSet, MapThenFoldSet,
      Bl!Max, Max
  <2>2. BasicBlocks(im, u, f) = u \/ \E x : BasicBlocks(im, u, f) = AddXrefs(b, x)
    BY Zenon DEF BasicBlocks
  <2> HIDE DEF a, b
  <2> QED  BY <2>1, <2>2
<1>2. Sequence(q) /\ Elements(q) \subseteq VAs  BY AscendingIs
<1> HIDE DEF q
<1>3. Len(q) \in Nat /\ DOMAIN q = 1 .. Len(q) /\ \A k \in DOMAIN q : q[k] \in VAs
  BY <1>2, SequenceIs
<1>4. Bl!Related(c, u, q)
  <2>1. \A x : \A k \in DOMAIN q : Kept({}, x, BlockStep(c, x, q[k]))
    BY <1>3, AddBlockKeeps DEF BlockStep
  <2> HIDE DEF c
  <2> QED  BY <2>1, KeptIsOrder DEF Bl!Related, Rel
<1>5. Kept({}, u, a)
  <2> HIDE DEF c
  <2> QED  BY <1>3, <1>4, Bl!FoldKeeps DEF Rel
<1> HIDE DEF a
<1> QED  BY <1>1, <1>5, NamesKept, KeptIsOrder

\* The analysis of a function that jumps through an import.
LEMMA ImportThunkKeeps ==
  ASSUME NEW i, NEW u, NEW f
  PROVE  Kept({}, u, ImportThunk(i, u, f))
<1> DEFINE a == [u EXCEPT !.thunk = Put(@, f, i.imports[i.insn[f].to])]
<1>1. Kept({}, u, a)  BY Annotated
<1>2. ImportThunk(i, u, f) \in {u, SetName(a, f, <<"thunk", Last(i.imports[i.insn[f].to])>>)}
  BY Zenon DEF ImportThunk
<1> HIDE DEF a
<1> QED  BY <1>1, <1>2, NamesKept, KeptIsOrder

\* The analysis of a function whose import the data base knows.
LEMMA ImpApiKeeps ==
  ASSUME NEW i, NEW u, NEW f
  PROVE  Kept({}, u, ImpApi(i, u, f))
<1> SUFFICES ASSUME Shape(u)  PROVE Kept({}, u, ImpApi(i, u, f))
  BY DEF Kept
<1> DEFINE a == [u EXCEPT !.apis = @ \cup {f}]
<1>1. DOMAIN u = Parts  BY DEF Shape
<1>2. Kept({}, u, a)  BY <1>1, SameIsKept DEF Parts
<1>3. ImpApi(i, u, f) \in {u, a}  BY DEF ImpApi
<1> HIDE DEF a
<1> QED  BY <1>2, <1>3, KeptIsOrder

\* The analysis of a function whose bytes have a known signature.
LEMMA MsvcVampKeeps ==
  ASSUME NEW i, NEW u, NEW f
  PROVE  Kept({}, u, MsvcVamp(i, u, f))
<1> DEFINE a == [u EXCEPT !.thunk = Put(@, f, Signature(i, f))]
<1>1. Kept({}, u, a)  BY Annotated
<1>2. MsvcVamp(i, u, f) \in {u, SetName(a, f, <<Last(Signature(i, f)), ToString(f)>>)}
  BY Zenon DEF MsvcVamp
<1> HIDE DEF a
<1> QED  BY <1>1, <1>2, NamesKept, KeptIsOrder

\* After the cascade a function that goes through an import of the data base
\* has what the data base says.
LEMMA CascadeAnnotates ==
  ASSUME NEW u, Shape(u), NEW f
  PROVE  LET v == Cascade1(im, u, f)
             i == im.insn[f]
         IN  /\ Kept({}, u, v)
             /\ /\ IsX86 /\ Decodes(im, f) /\ Branches(i) /\ i.deref
                /\ TypeAt(v, i.to) = "Import" /\ im.imports[i.to] \in im.apis
                => f \in v.apis
<1> DEFINE b == BasicBlocks(im, u, f)
           t == ImportThunk(im, b, f)
           a == ImpApi(im, t, f)
           v == MsvcVamp(im, a, f)
           i == im.insn[f]
<1>1. Cascade1(im, u, f) = v  BY DEF Cascade1
<1>2. Kept({}, u, b)  BY BasicBlocksKeeps
<1> HIDE DEF b
<1>3. Kept({}, b, t)  BY ImportThunkKeeps
<1>4. Kept({}, t, a)  BY ImpApiKeeps
<1>5. Kept({}, a, v)  BY MsvcVampKeeps
<1>6. Shape(b) /\ Shape(t) /\ Shape(a) /\ a.apis \subseteq v.apis
  BY <1>2, <1>3, <1>4, <1>5 DEF Kept
<1>7. ASSUME IsX86, Decodes(im, f), Branches(i), i.deref, TypeAt(v, i.to) = "Import",
             im.imports[i.to] \in im.apis
      PROVE  f \in v.apis
  <2>1. TypeAt(b, i.to) = "Import"
    BY <1>3, <1>4, <1>5, <1>6, <1>7 DEF Kept
  <2>2. t.thunk = Put(b.thunk, f, im.imports[i.to])
    BY <1>6, <1>7, <2>1 DEF ImportThunk, IsX86, SetName, Shape, Parts
  <2>3. f \in DOMAIN t.thunk /\ t.thunk[f] = im.imports[i.to]
    BY <2>2 DEF Put
  <2> HIDE DEF t
  <2>4. f \in a.apis
    BY <1>6, <1>7, <2>3 DEF ImpApi, KnownApi, Shape, Parts
  <2> QED  BY <1>6, <2>4
<1>8. Kept({}, u, v)
  <2> HIDE DEF t, a, v
  <2> QED  BY <1>2, <1>3, <1>4, <1>5, KeptIsOrder
<1> QED  BY <1>1, <1>7, <1>8

----------------------------------------------------------------------------
(* The steps. *)

\* What holds of the next workspace holds after a step that leaves the image.
LEMMA NextWorkspace ==
  ASSUME im' = im
  PROVE  /\ Closes(w') => Closes(w)'
         /\ Annotates(w') => Annotates(w)'
         /\ EntriesFound(w') => EntriesFound(w)'
<1>1. Closes(w') => Closes(w)'
  BY DEF Closes, CallsImport
<1>2. Annotates(w') => Annotates(w)'
  BY DEF Annotates, IsX86
<1>3. EntriesFound(w') => EntriesFound(w)'
  BY DEF EntriesFound
<1> QED  BY <1>1, <1>2, <1>3

\* A pass leaves annotated what was: it gives no function away.
LEMMA StaysAnnotated ==
  ASSUME NEW S, NEW u, Shape(u), NEW v, Kept(S, u, v), Annotates(u)
  PROVE  Annotates(v)
BY DEF Kept, Annotates

\* What the loader leaves is of that shape: nothing is code or a function yet.
LEMMA InvariantAtFirst == Init => PassInvariant
<1> SUFFICES ASSUME Init  PROVE PassInvariant
  OBVIOUS
<1> DEFINE u == Loaded(im)
<1>1. w = u /\ im \in Images /\ next = 1  BY DEF Init
<1>2. /\ DOMAIN u = Parts /\ u.funcs = <<>> /\ u.pend = <<>> /\ u.blocks = <<>>
      /\ u.order = Ascending(DOMAIN im.imports)
      /\ u.loc = [va \in DOMAIN im.imports |-> [size |-> PtrSize, type |-> "Import"]]
  BY DEF Loaded, Parts
<1> HIDE DEF u
<1>3. Sequence(u.order) /\ Elements(u.order) = DOMAIN u.loc
  <2>1. DOMAIN im.imports \subseteq VAs  BY <1>1, PassesAssumption
  <2> QED  BY <1>2, <2>1, AscendingIs
<1>4. Sequence(<<>>) /\ Elements(<<>>) = {}
  BY DEF Sequence, Elements
<1>5. \A va : TypeAt(u, va) # None => va \in DOMAIN im.imports /\ TypeAt(u, va) = "Import"
  BY <1>2 DEF TypeAt
<1>6. DOMAIN im.imports \subseteq VAs  BY <1>1, PassesAssumption
<1>7. Shape(u)
  BY <1>2, <1>3, <1>4, <1>5, <1>6, ImageAssumption DEF Shape
<1>8. Ops(u) = {}
  BY <1>5, ImageAssumption DEF Ops
<1>9. Closes(u)  BY <1>8 DEF Closes
<1>10. Annotates(u)  BY <1>2, <1>4 DEF Annotates
<1> QED  BY <1>1, <1>7, <1>9, <1>10 DEF PassInvariant

\* A pass that leaves closed what was, and is not the one of the entries.
LEMMA ModuleKeeps ==
  ASSUME PassInvariant, NEW name, name # "entrypoints", NEW should_run, NEW results,
         Module(name, should_run, results),
         should_run => \A v \in results : Passed(w, v)
  PROVE  PassInvariant'
<1>1. /\ im' = im /\ next' = next + 1 /\ next \in Nat \ {0} /\ Pipeline[next] = name
      /\ im \in Images /\ Shape(w) /\ Closes(w) /\ Annotates(w)
  BY DEF Module, PassInvariant
<1>2. Passed(w, w')
  BY PassedIsOrder DEF Module
<1>3. Shape(w') /\ Closes(w') /\ Elements(w.funcs) \subseteq Elements(w'.funcs)
  BY <1>1, <1>2 DEF Passed, Kept
<1>4. Annotates(w')
  BY <1>1, <1>2, StaysAnnotated DEF Passed
<1>5. next # 2  BY <1>1 DEF Pipeline
<1>6. next' > 2 => EntriesFound(w')
  BY <1>1, <1>3, <1>5 DEF PassInvariant, EntriesFound
<1> QED  BY <1>1, <1>3, <1>4, <1>6, NextWorkspace DEF PassInvariant

\* After the pass of entry points they are functions.
LEMMA EntryPointsStep ==
  ASSUME PassInvariant, EntryPointAnalysis
  PROVE  PassInvariant'
<1>1. /\ im' = im /\ next' = next + 1 /\ next \in Nat \ {0} /\ w' = EntryPoints(im, w)
      /\ im \in Images /\ Shape(w) /\ Closes(w) /\ Annotates(w)
  BY DEF EntryPointAnalysis, Module, PassInvariant
<1>2. Kept({}, w, w') /\ EntriesFound(w')
  BY <1>1, EntryPointsKept DEF EntriesFound
<1>3. Passed(w, w')  BY <1>1, <1>2, MarksNothing
<1>4. Shape(w') /\ Closes(w')
  BY <1>1, <1>3 DEF Passed, Kept
<1>5. Annotates(w')
  BY <1>1, <1>2, StaysAnnotated
<1> QED  BY <1>1, <1>2, <1>4, <1>5, NextWorkspace DEF PassInvariant

\* The cascade takes one function off what is pending and annotates it.
LEMMA FuncModulesStep ==
  ASSUME PassInvariant, FuncModules
  PROVE  PassInvariant'
<1> DEFINE f == Head(w.pend)
           u == [w EXCEPT !.pend = Tail(@)]
           v == Cascade1(im, u, f)
<1>1. /\ im' = im /\ next' = next /\ next \in Nat \ {0} /\ w' = v /\ w.pend # <<>>
      /\ im \in Images /\ Shape(w) /\ Closes(w) /\ Annotates(w)
  BY DEF FuncModules, PassInvariant
<1>2. /\ DOMAIN u = Parts /\ u.loc = w.loc /\ u.order = w.order /\ u.funcs = w.funcs
      /\ u.blocks = w.blocks /\ u.apis = w.apis /\ u.noret = w.noret /\ u.pend = Tail(w.pend)
  BY <1>1 DEF Shape, Parts
<1>3. /\ Sequence(u.pend)
      /\ Elements(w.pend) \subseteq Elements(u.pend) \cup {f}
  <2> DEFINE q == w.pend
             r == Tail(q)
             n == Len(q)
  <2>1. q \in Seq(Elements(q)) /\ q # <<>>  BY <1>1, SequenceIs DEF Shape
  <2> HIDE DEF q
  <2>2. /\ n \in Nat /\ n # 0 /\ DOMAIN q = 1 .. n
        /\ r \in Seq(Elements(q)) /\ DOMAIN r = 1 .. n - 1
        /\ \A k \in 1 .. n - 1 : r[k] = q[k + 1]
        /\ Head(q) = q[1]
    BY <2>1
  <2> HIDE DEF r, n
  <2>3. \A k \in 1 .. n : k = 1 \/ (k - 1 \in 1 .. n - 1 /\ q[k] = r[k - 1])
    BY <2>2
  <2>4. Sequence(r)  BY <2>2, SequenceOf
  <2>5. \A k \in 1 .. n - 1 : r[k] \in Elements(r)  BY <2>2 DEF Elements
  <2>6. \A k \in 1 .. n : q[k] \in Elements(r) \cup {Head(q)}  BY <2>2, <2>3, <2>5
  <2>7. \A x \in Elements(q) : \E k \in 1 .. n : x = q[k]  BY <2>2 DEF Elements
  <2>8. Elements(q) \subseteq Elements(r) \cup {Head(q)}  BY <2>6, <2>7
  <2> QED  BY <1>2, <2>4, <2>8 DEF q, r
<1> HIDE DEF u, f
<1>4. Shape(u)
  BY <1>1, <1>2, <1>3 DEF Shape, TypeAt
<1>5. Kept({}, u, v)  BY <1>4, CascadeAnnotates
<1>6. Closes(u)
  <2>1. Ops(u) = Ops(w)  BY <1>2 DEF Ops, TypeAt
  <2> QED  BY <1>1, <1>2, <2>1, FlowShrinks DEF Closes
<1>7. Shape(v) /\ Closes(v) /\ Elements(u.funcs) \subseteq Elements(v.funcs)
  BY <1>4, <1>5, <1>6, MarksNothing DEF Kept, Passed
<1>8. Annotates(v)
  <2> SUFFICES ASSUME NEW g \in Elements(v.funcs) \ Elements(v.pend), IsX86, Decodes(im, g),
                      Branches(im.insn[g]), im.insn[g].deref, im.insn[g].to \in DOMAIN im.imports,
                      TypeAt(v, im.insn[g].to) = "Import", im.imports[im.insn[g].to] \in im.apis
               PROVE  g \in v.apis
    BY DEF Annotates
  <2>1. CASE g = f
    BY <1>4, <2>1, CascadeAnnotates
  <2>2. CASE g # f
    <3>1. g \in Elements(u.funcs) \ Elements(u.pend) /\ TypeAt(u, im.insn[g].to) = "Import"
          /\ u.apis \subseteq v.apis
      BY <1>4, <1>5 DEF Kept
    <3>2. g \in Elements(w.funcs) \ Elements(w.pend) /\ TypeAt(w, im.insn[g].to) = "Import"
      BY <1>2, <1>3, <2>2, <3>1 DEF TypeAt
    <3>3. g \in w.apis  BY <1>1, <3>2 DEF Annotates
    <3> QED  BY <1>2, <3>1, <3>3
  <2> QED  BY <2>1, <2>2
<1> HIDE DEF v
<1>9. next > 2 => EntriesFound(v)
  BY <1>2, <1>7 DEF PassInvariant, EntriesFound
<1> QED  BY <1>1, <1>7, <1>8, <1>9, NextWorkspace DEF PassInvariant

\* The passes of the file formats keep the invariant.
LEMMA FormatsStep ==
  ASSUME PassInvariant, Formats
  PROVE  PassInvariant'
<1>1. im \in Images /\ Shape(w)  BY DEF PassInvariant
<1>2. CASE LinkerAnalysis
  BY <1>1, <1>2, LinkerKeeps, MarksNothing, ModuleKeeps DEF LinkerAnalysis
<1>3. CASE EntryPointAnalysis
  BY <1>3, EntryPointsStep
<1>4. CASE PeAnalysis
  BY <1>1, <1>4, PeKeeps, MarksNothing, ModuleKeeps DEF PeAnalysis
<1>5. CASE ElfCtorsAnalysis
  BY <1>1, <1>5, ElfCtorsKeeps, MarksNothing, ModuleKeeps DEF ElfCtorsAnalysis
<1>6. CASE ElfPltAnalysis
  BY <1>1, <1>6, ElfPltKeeps, MarksNothing, ModuleKeeps DEF ElfPltAnalysis
<1>7. CASE LibcStartMainAnalysis
  BY <1>1, <1>7, LibcStartMainKeeps, MarksNothing, ModuleKeeps DEF LibcStartMainAnalysis
<1>8. CASE GolangAnalysis
  BY <1>1, <1>8, GolangKeeps, MarksNothing, ModuleKeeps DEF GolangAnalysis
<1>9. CASE ElfPltLateAnalysis
  BY <1>1, <1>9, ElfPltLateKeeps, MarksNothing, ModuleKeeps DEF ElfPltLateAnalysis
<1> QED  BY <1>2, <1>3, <1>4, <1>5, <1>6, <1>7, <1>8, <1>9 DEF Formats

\* The passes over data keep the invariant.
LEMMA DataStep ==
  ASSUME PassInvariant, Data
  PROVE  PassInvariant'
<1>1. im \in Images /\ Shape(w)  BY DEF PassInvariant
<1>2. CASE RelocationAnalysis
  BY <1>1, <1>2, RelocationsKeeps, MarksNothing, ModuleKeeps DEF RelocationAnalysis
<1>3. CASE PointerTableAnalysis
  BY <1>1, <1>3, PointerTablesKeeps, MarksNothing, ModuleKeeps DEF PointerTableAnalysis
<1>4. CASE VfTableAnalysis
  BY <1>1, <1>4, VfTablesKeeps, MarksNothing, ModuleKeeps DEF VfTableAnalysis
<1>5. CASE PointerAnalysis
  BY <1>1, <1>5, PointersKeeps, MarksNothing, ModuleKeeps DEF PointerAnalysis
<1>6. CASE StringAnalysis
  BY <1>1, <1>6, StringsKeeps, MarksNothing, ModuleKeeps DEF StringAnalysis
<1> QED  BY <1>2, <1>3, <1>4, <1>5, <1>6 DEF Data

\* The passes over code keep the invariant.
LEMMA CodeStep ==
  ASSUME PassInvariant, Code
  PROVE  PassInvariant'
<1>1. im \in Images /\ Shape(w)  BY DEF PassInvariant
<1>2. CASE CodeFlowAnalysis
  <2>1. Pipeline[next] = "codeflow" /\ next \in Nat \ {0}
    BY <1>2 DEF CodeFlowAnalysis, Module, PassInvariant
  <2>2. next > 2  BY <2>1 DEF Pipeline
  <2>3. Passed(w, FlowAll(im, w))
    BY <1>1, <2>2, FlowAllPasses DEF PassInvariant, EntriesFound
  <2> QED  BY <1>2, <2>3, ModuleKeeps DEF CodeFlowAnalysis
<1>3. CASE ImportCallsAnalysis
  BY <1>1, <1>3, ImportCallsPasses, ModuleKeeps DEF ImportCallsAnalysis
<1>4. CASE InstrHookAnalysis
  BY <1>1, <1>4, InstrHookKeeps, MarksNothing, ModuleKeeps DEF InstrHookAnalysis
<1>5. CASE ThunkRegAnalysis
  BY <1>1, <1>5, ThunkRegKeeps, MarksNothing, ModuleKeeps DEF ThunkRegAnalysis
<1>6. CASE ArmAnalysis
  BY <1>1, <1>6, ConventionsKeep, MarksNothing, ModuleKeeps DEF ArmAnalysis
<1>7. CASE Aarch64Analysis
  BY <1>1, <1>7, ConventionsKeep, MarksNothing, ModuleKeeps DEF Aarch64Analysis
<1>8. CASE PrologueScanAnalysis
  BY <1>1, <1>8, PrologueScanPasses, ModuleKeeps DEF PrologueScanAnalysis
<1>9. CASE EmuCodeAnalysis
  BY <1>1, <1>9, EmuCodeKeeps, MarksNothing, ModuleKeeps DEF EmuCodeAnalysis
<1>10. CASE FuncEntriesAnalysis
  BY <1>1, <1>10, FuncEntriesPasses, ModuleKeeps DEF FuncEntriesAnalysis
<1>11. CASE MsvcFuncAnalysis
  BY <1>1, <1>11, MsvcFuncKeeps, MarksNothing, ModuleKeeps DEF MsvcFuncAnalysis
<1>12. CASE ThunkScanAnalysis
  BY <1>1, <1>12, ThunkScanKeeps, MarksNothing, ModuleKeeps DEF ThunkScanAnalysis
<1>13. CASE CallingConventionAnalysis
  BY <1>1, <1>13, CallingKeeps, MarksNothing, ModuleKeeps DEF CallingConventionAnalysis
<1>14. CASE SwitchCaseAnalysis
  BY <1>1, <1>14, SwitchCaseKeeps, MarksNothing, ModuleKeeps DEF SwitchCaseAnalysis
<1>15. CASE HotpatchAnalysis
  BY <1>1, <1>15, HotpatchKeeps, MarksNothing, ModuleKeeps DEF HotpatchAnalysis
<1>16. CASE NoReturnAnalysis
  BY <1>1, <1>16, NoReturnKeeps, MarksNothing, ModuleKeeps DEF NoReturnAnalysis
<1>17. CASE SymSwitchCaseAnalysis
  BY <1>1, <1>17, SymSwitchCaseKeeps, MarksNothing, ModuleKeeps DEF SymSwitchCaseAnalysis
<1> QED
  BY <1>2, <1>3, <1>4, <1>5, <1>6, <1>7, <1>8, <1>9, <1>10, <1>11, <1>12, <1>13, <1>14, <1>15,
     <1>16, <1>17
  DEF Code

\* Every step keeps the invariant.
LEMMA PassInvariantKept == PassInvariant /\ [Next]_vars => PassInvariant'
<1> SUFFICES ASSUME PassInvariant, [Next]_vars  PROVE PassInvariant'
  OBVIOUS
<1>1. CASE UNCHANGED vars
  <2>1. im' = im /\ w' = w /\ next' = next  BY <1>1 DEF vars
  <2> QED  BY <2>1, NextWorkspace DEF PassInvariant
<1>2. CASE FuncModules
  BY <1>2, FuncModulesStep
<1>3. CASE Done
  BY <1>1, <1>3 DEF Done
<1> QED  BY <1>1, <1>2, <1>3, FormatsStep, CodeStep, DataStep DEF Next

----------------------------------------------------------------------------
\* What the invariant says of located code is CodeClosed.
LEMMA ClosesMeansClosed == Closes(w) => CodeClosed
<1> SUFFICES ASSUME Closes(w), NEW va \in DOMAIN w.loc, TypeAt(w, va) = "Op"
             PROVE  /\ \A t \in FlowFrom(im, w, va) : TypeAt(w, t) = "Op"
                    /\ im.insn[va].kind = "call" => \A t \in Direct(im.insn[va]) : Callable(t)
  BY DEF CodeClosed
<1>1. va \in Ops(w)  BY DEF Ops
<1> QED  BY <1>1 DEF Closes, Ops, Callable, IsFunction

\* The invariant of the pipeline holds for every image, and whatever is in it:
\* each pass of analysis/orchestration.rs keeps the workspace in shape, and
\* leaves closed and annotated what was.
THEOREM PassesKeepShape == Spec => []PassInvariant
BY InvariantAtFirst, PassInvariantKept, PTL DEF Spec

\* Whatever order the passes find code in, the successors of a located
\* instruction are located, as far as calls return, and what it calls is a
\* function, or begins with a call through an import (the passes of analysis/ that add code, with the code
\* flow of analysis/codeflow.rs in each of them).
THEOREM FlowIsClosed == Spec => []CodeClosed
<1>1. PassInvariant => CodeClosed
  BY ClosesMeansClosed DEF PassInvariant
<1> QED  BY <1>1, PassesKeepShape, PTL

\* A function that jumps through an import of the data base is on record as
\* that import, once the cascade has been through it, whichever pass found the
\* function (the modules on functions of analysis/orchestration.rs).
THEOREM ImportThunksAnnotated == Spec => []ThunksAnnotated
<1>1. PassInvariant => ThunksAnnotated
  BY DEF PassInvariant, Annotates, ThunksAnnotated
<1> QED  BY <1>1, PassesKeepShape, PTL

----------------------------------------------------------------------------
(* Tables of pointers. *)

\* TableMin words in a row from p on, one after the other in q.
RowAt(q, p, o) ==
  /\ o \in Nat /\ o + TableMin <= Len(q)
  /\ \A k \in 0 .. TableMin - 1 : q[o + k + 1] = p + k * PtrSize
Row(q, p) == \E o : RowAt(q, p, o)

\* From the k-th word of the table on, a scan has the rest of the table first.
RestGood(c, a, v) ==
  /\ v \in Seq(VAs)
  /\ a <= c[4] /\ a % c[3] = 0 => Row(v, c[4])
  /\ \A k \in 0 .. TableMin : a = c[4] + k * c[3] =>
       /\ TableMin - k <= Len(v)
       /\ \A j \in 0 .. TableMin - 1 - k : v[j + 1] = c[4] + (k + j) * c[3]
Fw == INSTANCE DataInduction WITH Def <- FreeTo, Rank <- FreeRank, Good <- RestGood

\* As far as it is chosen from, a sequence has the words of the table up to there.
RowGood(c, n, v) ==
  /\ v \in Seq(Elements(c[1]) \cap c[2])
  /\ \A k \in 0 .. TableMin : n = c[4] + k =>
       \E h \in Nat : Len(v) = h + k /\ \A j \in 0 .. k - 1 : v[h + j + 1] = c[3] + j * PtrSize
  /\ n >= c[4] + TableMin => Row(v, c[3])
Cw == INSTANCE DataInduction WITH Def <- ChosenTo, Good <- RowGood

RowRel(c, u, v) ==
  u \in Seq(c[2][1]) => v \in Seq(c[2][1]) /\ (Row(u, c[2][2]) => Row(v, c[2][2]))
Jw == INSTANCE DataInduction WITH Step <- JoinedStep, Rel <- RowRel

\* What the pass of tables may do to a workspace.
Grown(u, v) ==
  /\ Shape(v) /\ DOMAIN u.loc \subseteq DOMAIN v.loc
  /\ \A va \in DOMAIN u.loc : v.loc[va] = u.loc[va]
  /\ \A va \in DOMAIN v.loc \ DOMAIN u.loc : v.loc[va].type = "Pointer"
  /\ u.xrefs \subseteq v.xrefs
  /\ Elements(u.funcs) \subseteq Elements(v.funcs)
GrownRel(c, u, v) == Shape(u) => Grown(u, v)
Tw == INSTANCE DataInduction WITH Step <- TableStep, Rel <- GrownRel

\* Products of the word size.
LEMMA ProductsAre ==
  ASSUME NEW d \in Nat, NEW k \in Nat, NEW n \in Nat, k < n
  PROVE  /\ k * d \in Nat /\ n * d \in Nat /\ k * d + d <= n * d
         /\ (k + 1) * d = k * d + d
<1>1. n - k - 1 \in Nat  OBVIOUS
<1>2. PICK e \in Nat : e = n - k - 1  BY <1>1
<1>3. n = k + 1 + e  BY <1>2
<1>4. n * d = k * d + d + e * d  BY <1>3
<1>5. k * d \in Nat /\ e * d \in Nat /\ (k + 1) * d = k * d + d  OBVIOUS
<1> QED  BY <1>4, <1>5

\* An aligned address below another is a word below it at least, and rounding
\* up does not go past an aligned address.
LEMMA AlignedIs ==
  ASSUME NEW d \in Nat \ {0}, NEW a \in Nat, NEW b \in Nat, b % d = 0
  PROVE  /\ a % d = 0 /\ a < b => a + d <= b /\ (a + d) % d = 0
         /\ a <= b => RoundUp(a, d) <= b
         /\ RoundUp(a, d) % d = 0
<1>1. PICK n \in Nat : b = n * d
  <2>1. b = d * (b \div d) + (b % d) /\ b \div d \in Nat  OBVIOUS
  <2>2. b = (b \div d) * d  BY <2>1
  <2> QED  BY <2>1, <2>2
<1>2. ASSUME NEW k \in Nat  PROVE (k * d) % d = 0
  <2> DEFINE x == k * d
             q == x \div d
             r == x % d
  <2>1. x \in Nat  OBVIOUS
  <2>2. q \in Nat /\ r \in 0 .. d - 1 /\ x = d * q + r
    <3> HIDE DEF x
    <3> QED  BY <2>1
  <2>3. x = k * d  OBVIOUS
  <2> SUFFICES r = 0  OBVIOUS
  <2> HIDE DEF x, q, r
  <2>4. CASE k = q
    BY <2>2, <2>3, <2>4
  <2>5. CASE k < q
    <3>1. k * d + d <= q * d  BY <2>2, <2>5, ProductsAre
    <3> QED  BY <2>2, <2>3, <3>1
  <2>6. CASE q < k
    <3>1. q * d + d <= k * d  BY <2>2, <2>6, ProductsAre
    <3> QED  BY <2>2, <2>3, <3>1
  <2> QED  BY <2>2, <2>4, <2>5, <2>6
<1>3. ASSUME a % d = 0, a < b  PROVE a + d <= b /\ (a + d) % d = 0
  <2>1. PICK m \in Nat : a = m * d
    <3>1. a = d * (a \div d) + (a % d) /\ a \div d \in Nat  OBVIOUS
    <3>2. a = (a \div d) * d  BY <1>3, <3>1
    <3> QED  BY <3>1, <3>2
  <2>2. m < n
    <3>1. CASE m = n  BY <1>1, <1>3, <2>1, <3>1
    <3>2. CASE n < m
      <4>1. n * d + d <= m * d  BY <3>2, ProductsAre
      <4> QED  BY <1>1, <1>3, <2>1, <4>1
    <3> QED  BY <3>1, <3>2
  <2>3. m * d + d <= n * d /\ (m + 1) * d = m * d + d  BY <2>2, ProductsAre
  <2>4. ((m + 1) * d) % d = 0  BY <1>2
  <2> QED  BY <1>1, <2>1, <2>3, <2>4
<1>4. PICK q \in Nat, r \in 0 .. d - 1 : a + d - 1 = d * q + r /\ RoundUp(a, d) = q * d
  <2> DEFINE x == a + d - 1
  <2>1. x \in Nat  OBVIOUS
  <2>2. (x \div d) \in Nat /\ (x % d) \in 0 .. d - 1 /\ x = d * (x \div d) + (x % d)
    <3> HIDE DEF x
    <3> QED  BY <2>1
  <2>3. RoundUp(a, d) = (x \div d) * d  BY DEF RoundUp
  <2> QED  BY <2>2, <2>3
<1>5. RoundUp(a, d) % d = 0  BY <1>2, <1>4
<1>6. ASSUME a <= b  PROVE RoundUp(a, d) <= b
  <2>1. CASE n < q
    <3>1. n * d + d <= q * d  BY <2>1, ProductsAre
    <3> QED  BY <1>1, <1>4, <1>6, <3>1
  <2>2. CASE q < n
    <3>1. q * d + d <= n * d /\ q * d \in Nat  BY <2>2, ProductsAre
    <3> QED  BY <1>1, <1>4, <3>1
  <2>3. CASE q = n  BY <1>1, <1>4, <2>3
  <2> QED  BY <2>1, <2>2, <2>3
<1> QED  BY <1>3, <1>5, <1>6

\* A sequence with one more in front, or at the end, has the same rows.
LEMMA RowsAre ==
  ASSUME NEW A, NEW q \in Seq(A), NEW x \in A, NEW p
  PROVE  /\ Row(q, p) => Row(<<x>> \o q, p) /\ Row(Append(q, x), p)
         /\ Len(<<x>> \o q) = Len(q) + 1 /\ (<<x>> \o q)[1] = x
         /\ \A j \in 1 .. Len(q) : (<<x>> \o q)[j + 1] = q[j]
         /\ <<x>> \o q \in Seq(A)
<1> DEFINE r == <<x>> \o q
           s == Append(q, x)
<1>1. /\ r \in Seq(A) /\ Len(r) = Len(q) + 1 /\ r[1] = x
      /\ \A j \in 1 .. Len(q) : r[j + 1] = q[j]
      /\ s \in Seq(A) /\ Len(s) = Len(q) + 1 /\ Len(q) \in Nat
      /\ \A j \in 1 .. Len(q) : s[j] = q[j]
  OBVIOUS
<1> HIDE DEF r, s
<1>2. TableMin \in Nat \ {0}  BY DataPassesAssumption
<1>3. ASSUME NEW o, RowAt(q, p, o)  PROVE RowAt(r, p, o + 1) /\ RowAt(s, p, o)
  <2>1. \A k \in 0 .. TableMin - 1 : o + k + 1 \in 1 .. Len(q) /\ (o + 1) + k + 1 = (o + k + 1) + 1
    BY <1>1, <1>2, <1>3 DEF RowAt
  <2>2. \A k \in 0 .. TableMin - 1 :
          r[(o + 1) + k + 1] = q[o + k + 1] /\ s[o + k + 1] = q[o + k + 1]
    BY <1>1, <2>1
  <2>3. o + 1 \in Nat /\ o + 1 + TableMin <= Len(r) /\ o + TableMin <= Len(s)
    BY <1>1, <1>2, <1>3 DEF RowAt
  <2> QED  BY <1>3, <2>2, <2>3 DEF RowAt
<1>4. Row(q, p) => Row(r, p) /\ Row(s, p)  BY <1>3 DEF Row
<1> QED  BY <1>1, <1>4 DEF r, s

\* The scan for words without a location does not miss words in a row that no
\* location touches: it comes to the first of them, and from there goes on.
LEMMA FreeCellsRow ==
  ASSUME NEW u, Shape(u), NEW from \in Nat, NEW to \in Nat, to <= Top + 1,
         NEW p \in Nat, p % PtrSize = 0, from <= p, p + TableMin * PtrSize <= to,
         Untouched(u, p, TableMin * PtrSize)
  PROVE  Row(FreeCells(u, from, to, PtrSize), p)
<1> DEFINE d == PtrSize
           n == TableMin
           c == <<u, to, d, p>>
           R == Fw!Recursive(c, Nat)
<1>1. d \in Nat \ {0} /\ n \in Nat \ {0}  BY ImageAssumption, DataPassesAssumption
<1>2. FreeCells(u, from, to, PtrSize) = R[RoundUp(from, d)]
  BY Zenon DEF FreeCells, FreeTo, Fw!Recursive
<1>3. c[1] = u /\ c[2] = to /\ c[3] = d /\ c[4] = p  OBVIOUS
<1> HIDE DEF c
<1>4. Fw!Ranked(c, Nat, to + 1)
  <2>1. Fr!Ranked(c, Nat, to + 1)  BY <1>1, <1>3, ScanEnds
  <2> QED  BY <2>1 DEF Fw!Ranked, Fr!Ranked
<1>5. \A a \in Nat : ~(a + d > to) =>
        /\ FreeRank(c, a + d) < FreeRank(c, a)
        /\ Located(u, a) =>
             /\ RoundUp(a + u.loc[a].size, d) \in Nat
             /\ FreeRank(c, RoundUp(a + u.loc[a].size, d)) < FreeRank(c, a)
  BY <1>1, <1>3, ScanEnds
<1>6. \A a \in DOMAIN u.loc : u.loc[a].size \in Nat \ {0}  BY DEF Shape
<1>7. \A k \in 0 .. n - 1 : /\ k * d \in Nat /\ n * d \in Nat /\ k * d + d <= n * d
                            /\ (k + 1) * d = k * d + d
  BY <1>1, ProductsAre
<1>8. d <= n * d /\ n * d \in Nat
  <2>1. 0 \in 0 .. n - 1 /\ 0 * d = 0  BY <1>1
  <2> QED  BY <1>1, <1>7, <2>1
<1>9. \A y : Row(y, p) <=>
         \E o \in Nat : o + n <= Len(y) /\ \A k \in 0 .. n - 1 : y[o + k + 1] = p + k * d
  BY DEF Row, RowAt
<1>10. ASSUME NEW f, NEW a \in Nat,
             \A b \in Nat : FreeRank(c, b) < FreeRank(c, a) => RestGood(c, b, f[b])
      PROVE  RestGood(c, a, FreeTo(c, f, a))
  <2> DEFINE v == FreeTo(c, f, a)
             b == a + d
             g == RoundUp(a + u.loc[a].size, d)
             Rest(x, y) == \A k \in 0 .. n : x = p + k * d =>
                             /\ n - k <= Len(y)
                             /\ \A j \in 0 .. n - 1 - k : y[j + 1] = p + (k + j) * d
  <2>1. /\ a + d > to => v = <<>>
        /\ ~(a + d > to) /\ Located(u, a) => v = f[g]
        /\ ~(a + d > to) /\ ~Located(u, a) => v = <<a>> \o f[b]
    BY <1>3 DEF FreeTo
  <2>2. ~(a + d > to) => /\ b \in Nat /\ RestGood(c, b, f[b])
                         /\ Located(u, a) => g \in Nat /\ RestGood(c, g, f[g])
    BY <1>1, <1>5, <1>10
  <2>3. \A x, y : RestGood(c, x, y) <=> /\ y \in Seq(VAs)
                                        /\ x <= p /\ x % d = 0 => Row(y, p)
                                        /\ Rest(x, y)
    BY <1>3 DEF RestGood
  <2> SUFFICES RestGood(c, a, v)  OBVIOUS
  <2>4. b = a + d  OBVIOUS
  <2> HIDE DEF v, b, g, Rest
  <2>5. CASE a + d > to
    <3>1. v = <<>> /\ v \in Seq(VAs) /\ Len(v) = 0  BY <2>1, <2>5
    <3>2. \A k \in 0 .. n - 1 : a # p + k * d  BY <1>1, <1>7, <2>5
    <3>3. Rest(a, v)
      <4>1. \A k \in 0 .. n : k \in 0 .. n - 1 \/ k = n  BY <1>1
      <4> QED  BY <1>1, <3>1, <3>2, <4>1 DEF Rest
    <3>4. ~(a <= p)
      <4>1. d <= n * d /\ n * d \in Nat  BY <1>1, <1>8
      <4> QED  BY <1>1, <2>5, <4>1
    <3> QED  BY <2>3, <3>1, <3>3, <3>4
  <2>6. CASE ~(a + d > to) /\ Located(u, a)
    <3> DEFINE e == a + u.loc[a].size
    <3>1. e \in Nat /\ e > a /\ (e <= p \/ p + n * d <= a)
      BY <1>6, <2>6 DEF Located, Untouched
    <3>2. g = RoundUp(e, d)  BY DEF g
    <3> HIDE DEF e
    <3>3. ASSUME a <= p  PROVE Row(v, p)
      <4>1. e <= p  BY <1>1, <1>8, <3>1, <3>3
      <4>2. g <= p /\ g % d = 0  BY <1>1, <3>1, <3>2, <4>1, AlignedIs
      <4> QED  BY <2>1, <2>2, <2>3, <2>6, <4>2
    <3>4. v \in Seq(VAs) /\ Len(v) \in Nat  BY <2>1, <2>2, <2>3, <2>6
    <3>5. \A k \in 0 .. n - 1 : a # p + k * d  BY <1>1, <1>7, <3>1
    <3>6. Rest(a, v)
      <4>1. \A k \in 0 .. n : k \in 0 .. n - 1 \/ k = n  BY <1>1
      <4> QED  BY <1>1, <3>4, <3>5, <4>1 DEF Rest
    <3> QED  BY <2>3, <3>3, <3>4, <3>6
  <2>7. CASE ~(a + d > to) /\ ~Located(u, a)
    <3> DEFINE y == f[b]
    <3>1. a \in VAs  BY <1>1, <2>7, ImageAssumption DEF VAs
    <3>2. v = <<a>> \o y /\ RestGood(c, b, y)  BY <2>1, <2>2, <2>7
    <3>3. v = <<a>> \o y /\ y \in Seq(VAs) /\ Len(y) \in Nat /\ a \in VAs /\ Rest(b, y)
          /\ b = a + d /\ (b <= p /\ b % d = 0 => Row(y, p))
      BY <2>3, <2>4, <3>1, <3>2
    <3> HIDE DEF y
    <3>4. /\ Row(y, p) => Row(v, p)
          /\ Len(v) = Len(y) + 1 /\ v[1] = a /\ v \in Seq(VAs)
          /\ \A j \in 1 .. Len(y) : v[j + 1] = y[j]
      BY <3>3, RowsAre
    <3>5. Rest(a, v)
      <4>1. ASSUME NEW k \in 0 .. n - 1, a = p + k * d
            PROVE  /\ n - k <= Len(v)
                   /\ \A j \in 0 .. n - 1 - k : v[j + 1] = p + (k + j) * d
        <5>1. k + 1 \in 0 .. n /\ b = p + (k + 1) * d  BY <1>1, <1>7, <3>3, <4>1
        <5>2. /\ n - (k + 1) <= Len(y)
              /\ \A j \in 0 .. n - 1 - (k + 1) : y[j + 1] = p + ((k + 1) + j) * d
          BY <3>3, <5>1 DEF Rest
        <5>3. ASSUME NEW j \in 0 .. n - 1 - k  PROVE v[j + 1] = p + (k + j) * d
          <6>1. CASE j = 0
            BY <3>4, <4>1, <6>1
          <6>2. CASE j # 0
            <7>1. j - 1 \in 0 .. n - 1 - (k + 1) /\ (j - 1) + 1 = j /\ (k + 1) + (j - 1) = k + j
                  /\ j \in 1 .. Len(y)
              BY <1>1, <3>3, <5>2, <6>2
            <7>2. y[j] = p + (k + j) * d  BY <5>2, <7>1
            <7> QED  BY <3>4, <7>1, <7>2
          <6> QED  BY <6>1, <6>2
        <5>4. n - k <= Len(v)  BY <1>1, <3>3, <3>4, <5>2
        <5> QED  BY <5>3, <5>4
      <4>2. n - n <= Len(v) /\ 0 .. n - 1 - n = {}  BY <1>1, <3>3, <3>4
      <4>3. \A k \in 0 .. n : k \in 0 .. n - 1 \/ k = n  BY <1>1
      <4> QED  BY <4>1, <4>2, <4>3 DEF Rest
    <3>6. CASE a = p
      <4>1. 0 \in 0 .. n /\ 0 * d = 0 /\ a = p + 0 * d /\ \A j \in 0 .. n - 1 : j \in 0 .. n - 1 - 0
        BY <1>1, <3>6
      <4>2. n - 0 <= Len(v) /\ \A j \in 0 .. n - 1 - 0 : v[j + 1] = p + (0 + j) * d
        BY <3>5, <4>1 DEF Rest
      <4>3. \A j \in 0 .. n - 1 : 0 + j = j /\ 0 + j + 1 = j + 1  OBVIOUS
      <4>4. 0 + n <= Len(v) /\ \A j \in 0 .. n - 1 : v[0 + j + 1] = p + j * d
        BY <1>1, <4>1, <4>2, <4>3
      <4>5. Row(v, p)  BY <1>9, <4>4
      <4> QED  BY <2>3, <3>4, <3>5, <4>5
    <3>7. CASE a < p
      <4>1. a % d = 0 => b <= p /\ b % d = 0  BY <1>1, <3>3, <3>7, AlignedIs
      <4> QED  BY <2>3, <3>3, <3>4, <3>5, <4>1
    <3>8. CASE ~(a <= p)
      BY <2>3, <3>4, <3>5, <3>8
    <3> QED  BY <3>6, <3>7, <3>8
  <2> QED  BY <2>5, <2>6, <2>7
<1>11. to + 1 \in Nat  OBVIOUS
<1>12. \A a \in Nat : RestGood(c, a, R[a])
  <2> HIDE DEF R
  <2> QED  BY <1>4, <1>10, <1>11, Fw!RecursionKeeps DEF R
<1> HIDE DEF R
<1>13. RoundUp(from, d) <= p /\ RoundUp(from, d) % d = 0 /\ RoundUp(from, d) \in Nat
  BY <1>1, AlignedIs, RoundUpIs
<1> QED  BY <1>2, <1>3, <1>12, <1>13 DEF RestGood

\* A row of elements that are all in S stays one when the rest is dropped.
LEMMA ChosenRow ==
  ASSUME NEW q, Sequence(q), NEW S, NEW p, Row(q, p),
         \A k \in 0 .. TableMin - 1 : p + k * PtrSize \in S
  PROVE  Row(Chosen(q, S), p)
<1> DEFINE N == TableMin
<1>1. PICK o : RowAt(q, p, o)  BY DEF Row
<1> DEFINE c == <<q, S, p, o>>
           E == Elements(q) \cap S
           D == 0 .. Len(q)
           R == Cw!Recursive(c, D)
           From(v, h, k) == Len(v) = h + k /\ \A j \in 0 .. k - 1 : v[h + j + 1] = p + j * PtrSize
<1>2. Len(q) \in Nat /\ DOMAIN q = 1 .. Len(q) /\ N \in Nat \ {0}
  BY SequenceIs, DataPassesAssumption
<1>3. Chosen(q, S) = R[Len(q)]
  BY Zenon DEF Chosen, Cw!Recursive, ChosenTo
<1>4. Cw!Ranked(c, D, Len(q))
  BY <1>2 DEF Cw!Ranked, Rank, ChosenTo
<1>5. o \in Nat /\ o + N <= Len(q) /\ \A k \in 0 .. N - 1 : q[o + k + 1] = p + k * PtrSize
  BY <1>1 DEF RowAt
<1>6. c[1] = q /\ c[2] = S /\ c[3] = p /\ c[4] = o  OBVIOUS
<1> HIDE DEF c
<1>7. \A n, v : RowGood(c, n, v) <=>
        /\ v \in Seq(E)
        /\ \A k \in 0 .. N : n = o + k => \E h \in Nat : From(v, h, k)
        /\ n >= o + N => Row(v, p)
  BY <1>6 DEF RowGood
<1>8. ASSUME NEW v \in Seq(E), NEW h \in Nat, From(v, h, N)  PROVE Row(v, p)
  <2>1. h + N <= Len(v)  BY <1>2, <1>8
  <2> QED  BY <1>8, <2>1 DEF Row, RowAt
<1> HIDE DEF E
<1>9. ASSUME NEW v \in Seq(E), NEW x \in E, NEW h \in Nat, NEW k \in Nat, From(v, h, k),
             x = p + k * PtrSize
      PROVE  From(Append(v, x), h, k + 1)
  <2> DEFINE r == Append(v, x)
  <2>1. Len(r) = Len(v) + 1 /\ r[Len(v) + 1] = x /\ \A j \in 1 .. Len(v) : r[j] = v[j]
    OBVIOUS
  <2> HIDE DEF r
  <2>2. \A j \in 0 .. (k + 1) - 1 : j = k \/ (j \in 0 .. k - 1 /\ h + j + 1 \in 1 .. Len(v))
    BY <1>9
  <2>3. \A j \in 0 .. (k + 1) - 1 : r[h + j + 1] = p + j * PtrSize
    BY <1>9, <2>1, <2>2
  <2>4. Len(r) = h + (k + 1)  BY <1>9, <2>1
  <2> QED  BY <2>3, <2>4 DEF r
<1>10. ASSUME NEW f, NEW n \in D, \A b \in D : Rank(c, b) < Rank(c, n) => RowGood(c, b, f[b])
       PROVE  RowGood(c, n, ChosenTo(c, f, n))
  <2> DEFINE v == ChosenTo(c, f, n)
             u == f[n - 1]
  <2>1. SUFFICES /\ v \in Seq(E)
                 /\ \A k \in 1 .. N : n = o + k => \E h \in Nat : From(v, h, k)
                 /\ n > o + N => Row(v, p)
    <3>1. v \in Seq(E) => Len(v) \in Nat /\ From(v, Len(v), 0)  OBVIOUS
    <3>2. \A k \in 0 .. N : k = 0 \/ k \in 1 .. N  BY <1>2
    <3>3. n = o + N => N \in 1 .. N  BY <1>2
    <3> HIDE DEF v, From
    <3>4. v \in Seq(E) /\ (\A k \in 1 .. N : n = o + k => \E h \in Nat : From(v, h, k))
          /\ (n > o + N => Row(v, p)) => (n >= o + N => Row(v, p))
      BY <1>2, <1>5, <1>8, <3>3
    <3>5. v \in Seq(E) /\ (\A k \in 1 .. N : n = o + k => \E h \in Nat : From(v, h, k))
          => \A k \in 0 .. N : n = o + k => \E h \in Nat : From(v, h, k)
      BY <3>1, <3>2
    <3> QED  BY <1>7, <3>4, <3>5 DEF v
  <2>2. CASE n = 0
    BY <1>2, <1>5, <1>6, <2>2 DEF ChosenTo
  <2>3. CASE n # 0
    <3>1. n - 1 \in D /\ n - 1 < n /\ n \in DOMAIN q  BY <1>2, <2>3
    <3>2. RowGood(c, n - 1, u)  BY <1>10, <3>1 DEF Rank
    <3>3. /\ u \in Seq(E)
          /\ \A k \in 0 .. N : n - 1 = o + k => \E h \in Nat : From(u, h, k)
          /\ n - 1 >= o + N => Row(u, p)
      <4> HIDE DEF From, u
      <4> QED  BY <1>7, <3>2
    <3>4. v = IF q[n] \in S THEN Append(u, q[n]) ELSE u
      BY <1>6, <2>3 DEF ChosenTo
    <3>5. q[n] \in S => q[n] \in E  BY <3>1, SequenceIs DEF E
    <3> HIDE DEF u, v
    <3>6. v \in Seq(E)  BY <3>3, <3>4, <3>5
    <3>7. n > o + N => Row(v, p)
      <4>1. n > o + N => Row(u, p)  BY <1>2, <1>5, <3>3
      <4> QED  BY <3>3, <3>4, <3>5, <4>1, RowsAre
    <3>8. ASSUME NEW k \in 1 .. N, n = o + k  PROVE \E h \in Nat : From(v, h, k)
      <4>1. k - 1 \in 0 .. N /\ k - 1 \in 0 .. N - 1 /\ k - 1 \in Nat /\ n - 1 = o + (k - 1)
            /\ n = o + (k - 1) + 1 /\ (k - 1) + 1 = k
        BY <1>2, <1>5, <3>8
      <4>2. q[n] = p + (k - 1) * PtrSize  BY <1>5, <4>1
      <4>3. q[n] \in S  BY <4>1, <4>2
      <4>4. PICK h \in Nat : From(u, h, k - 1)  BY <3>3, <4>1
      <4> HIDE DEF From
      <4>5. From(Append(u, q[n]), h, (k - 1) + 1)
        BY <1>9, <3>3, <3>5, <4>1, <4>2, <4>3, <4>4
      <4> QED  BY <3>4, <4>1, <4>3, <4>5
    <3> HIDE DEF From
    <3> QED  BY <3>6, <3>7, <3>8
  <2> QED  BY <2>2, <2>3
<1>11. RowGood(c, Len(q), R[Len(q)])
  <2> HIDE DEF R
  <2>1. \A n \in D : RowGood(c, n, R[n])
    BY <1>2, <1>4, <1>10, Cw!RecursionKeeps DEF R
  <2> QED  BY <1>2, <2>1
<1> HIDE DEF R, From
<1> QED  BY <1>3, <1>5, <1>7, <1>11

\* Joined is a fold, whatever else the context of the induction holds.
LEMMA JoinedFolds ==
  ASSUME NEW q, NEW f, NEW z
  PROVE  Joined(q, f) = Jw!Fold(<<f, z>>, <<>>, q)
BY Zenon DEF Joined, JoinedStep, Jw!Fold, FoldLeft, Jw!MapThenFoldSet, MapThenFoldSet,
  Jw!Max, Max

\* A row of one of the sequences is one of their concatenation.
LEMMA JoinedRow ==
  ASSUME NEW q, Sequence(q), NEW f, NEW B, \A y \in Elements(q) : f[y] \in Seq(B),
         NEW x \in Elements(q), NEW p, Row(f[x], p)
  PROVE  Row(Joined(q, f), p)
<1> DEFINE c == <<f, <<B, p>>>>
           F == Jw!Fold(c, <<>>, q)
<1>1. Joined(q, f) = F
  BY JoinedFolds
<1>2. Len(q) \in Nat /\ DOMAIN q = 1 .. Len(q) /\ \A i \in DOMAIN q : q[i] \in Elements(q)
  BY SequenceIs
<1>3. c[1] = f /\ c[2][1] = B /\ c[2][2] = p  OBVIOUS
<1> HIDE DEF c
<1>4. ASSUME NEW u \in Seq(B), NEW y \in Elements(q)
      PROVE  /\ u \o f[y] \in Seq(B) /\ (Row(u, p) \/ Row(f[y], p) => Row(u \o f[y], p))
  <2> DEFINE r == f[y]
             s == u \o r
  <2>1. r \in Seq(B)  OBVIOUS
  <2> HIDE DEF r
  <2>2. /\ s \in Seq(B) /\ Len(s) = Len(u) + Len(r) /\ Len(u) \in Nat /\ Len(r) \in Nat
        /\ \A j \in 1 .. Len(u) : s[j] = u[j]
        /\ \A j \in 1 .. Len(r) : s[Len(u) + j] = r[j]
    BY <2>1
  <2> HIDE DEF s
  <2>3. TableMin \in Nat \ {0}  BY DataPassesAssumption
  <2>4. ASSUME NEW o, RowAt(u, p, o)  PROVE RowAt(s, p, o)
    <3>1. \A k \in 0 .. TableMin - 1 : o + k + 1 \in 1 .. Len(u)
      BY <2>2, <2>3, <2>4 DEF RowAt
    <3>2. o + TableMin <= Len(s)  BY <2>2, <2>3, <2>4 DEF RowAt
    <3> QED  BY <2>2, <2>4, <3>1, <3>2 DEF RowAt
  <2>5. ASSUME NEW o, RowAt(r, p, o)  PROVE RowAt(s, p, Len(u) + o)
    <3>1. \A k \in 0 .. TableMin - 1 : /\ o + k + 1 \in 1 .. Len(r)
                                       /\ (Len(u) + o) + k + 1 = Len(u) + (o + k + 1)
      BY <2>2, <2>3, <2>5 DEF RowAt
    <3>2. Len(u) + o \in Nat /\ (Len(u) + o) + TableMin <= Len(s)
      BY <2>2, <2>3, <2>5 DEF RowAt
    <3>3. \A k \in 0 .. TableMin - 1 : s[(Len(u) + o) + k + 1] = r[o + k + 1]
      BY <2>2, <3>1
    <3> QED  BY <2>5, <3>2, <3>3 DEF RowAt
  <2> QED  BY <2>2, <2>4, <2>5 DEF Row, r, s
<1>5. ASSUME NEW u, NEW i \in DOMAIN q  PROVE RowRel(c, u, JoinedStep(c, u, q[i]))
  BY <1>2, <1>3, <1>4 DEF RowRel, JoinedStep
<1>6. Jw!Related(c, <<>>, q)
  BY <1>5 DEF RowRel, Jw!Related
<1>7. /\ RowRel(c, <<>>, F)
      /\ \A i \in DOMAIN q : \E u : RowRel(c, <<>>, u) /\ RowRel(c, JoinedStep(c, u, q[i]), F)
  BY <1>2, <1>6, Jw!FoldKeeps
<1> HIDE DEF F
<1>8. PICK i \in DOMAIN q : x = q[i]  BY DEF Elements
<1>9. PICK u : RowRel(c, <<>>, u) /\ RowRel(c, JoinedStep(c, u, q[i]), F)
  BY <1>7
<1>10. u \in Seq(B)  BY <1>3, <1>9 DEF RowRel
<1>11. u \o f[x] \in Seq(B) /\ Row(u \o f[x], p)  BY <1>4, <1>10
<1> QED  BY <1>1, <1>3, <1>8, <1>9, <1>11 DEF RowRel, JoinedStep

\* The words of a table are in a row among those that are looked at.
LEMMA FreePointersRow ==
  ASSUME im \in Images, NEW u, Shape(u), NEW p \in VAs, p % PtrSize = 0,
         Reads(im, p, TableMin * PtrSize), Untouched(u, p, TableMin * PtrSize),
         \A k \in 0 .. TableMin - 1 : Points(im, p + k * PtrSize)
  PROVE  Row(FreePointers(im, u), p)
<1> DEFINE cells(s) == FreeCells(u, s.va, End(s), PtrSize)
           S(s) == {a \in Elements(cells(s)) : Points(im, a)}
           f == [s \in Elements(im.segs) |-> Chosen(cells(s), S(s))]
<1>1. FreePointers(im, u) = Joined(im.segs, f)
  BY Zenon DEF FreePointers, ForEach, Select
<1>2. \A s \in Elements(im.segs) : f[s] = Chosen(cells(s), S(s))  OBVIOUS
<1>3. \A s \in Elements(im.segs) : Sequence(cells(s)) /\ Elements(cells(s)) \subseteq VAs
  BY SegmentEnds, FreeCellsAre, ImageAssumption
<1>4. PICK s \in Elements(im.segs) : p >= s.va /\ p + TableMin * PtrSize <= End(s)
  BY DEF Reads, Within
<1>5. Row(cells(s), p)
  <2>1. p \in Nat  BY ImageAssumption DEF VAs
  <2> QED  BY <1>4, <2>1, SegmentEnds, FreeCellsRow
<1> HIDE DEF cells
<1>6. \A k \in 0 .. TableMin - 1 : p + k * PtrSize \in Elements(cells(s))
  <2>1. PICK o : RowAt(cells(s), p, o)  BY <1>5 DEF Row
  <2>2. Len(cells(s)) \in Nat /\ DOMAIN cells(s) = 1 .. Len(cells(s)) /\ TableMin \in Nat \ {0}
    BY <1>3, SequenceIs, DataPassesAssumption
  <2>3. \A k \in 0 .. TableMin - 1 : o + k + 1 \in DOMAIN cells(s)
    BY <2>1, <2>2 DEF RowAt
  <2> QED  BY <2>1, <2>3 DEF RowAt, Elements
<1>7. Row(Chosen(cells(s), S(s)), p)
  BY <1>3, <1>5, <1>6, ChosenRow
<1>8. \A x \in Elements(im.segs) : f[x] \in Seq(VAs)
  <2> SUFFICES ASSUME NEW x \in Elements(im.segs)  PROVE f[x] \in Seq(VAs)
    OBVIOUS
  <2> DEFINE r == Chosen(cells(x), S(x))
  <2>1. Sequence(r) /\ Elements(r) = Elements(cells(x)) \cap S(x)
    <3> HIDE DEF S
    <3> QED  BY <1>3, ChosenIs
  <2> HIDE DEF r
  <2>2. r \in Seq(Elements(r)) /\ Elements(r) \subseteq VAs
    BY <1>3, <2>1 DEF Sequence
  <2> QED  BY <1>2, <2>2 DEF r
<1>9. Sequence(im.segs)  BY PassesAssumption
<1>10. Row(f[s], p)  BY <1>2, <1>7
<1> HIDE DEF f
<1> QED  BY <1>1, <1>8, <1>9, <1>10, JoinedRow

\* Each word of a row that is long enough is an entry.
LEMMA RunsRow ==
  ASSUME NEW ps, Sequence(ps), NEW p \in Nat, Row(ps, p)
  PROVE  \A k \in 0 .. TableMin - 1 : p + k * PtrSize \in Elements(Runs(ps))
<1> DEFINE n == TableMin
           all == [k \in DOMAIN ps |-> k]
           T == {k \in Elements(all) : InRow(ps, k, n)}
           long == Chosen(all, T)
           r == [k \in DOMAIN long |-> ps[long[k]]]
<1>1. Runs(ps) = r
  BY Zenon DEF Runs, Select
<1>2. Len(ps) \in Nat /\ DOMAIN ps = 1 .. Len(ps) /\ n \in Nat \ {0} /\ PtrSize \in Nat \ {0}
  BY SequenceIs, DataPassesAssumption, ImageAssumption
<1>3. Sequence(all) /\ Elements(all) = DOMAIN ps
  <2>1. DOMAIN all = 1 .. Len(ps) /\ all = [k \in 1 .. Len(ps) |-> all[k]] /\ \A k \in DOMAIN ps : all[k] = k
    BY <1>2
  <2> HIDE DEF all
  <2> QED  BY <1>2, <2>1, FunctionSequence DEF Elements
<1> HIDE DEF all
<1>4. Elements(long) = {k \in DOMAIN ps : InRow(ps, k, n)}
  <2>1. Elements(long) = Elements(all) \cap T
    <3> HIDE DEF T
    <3> QED  BY <1>3, ChosenIs
  <2> QED  BY <1>3, <2>1
<1> HIDE DEF long
<1>5. PICK o : RowAt(ps, p, o)  BY DEF Row
<1>6. ASSUME NEW k \in 0 .. n - 1  PROVE p + k * PtrSize \in Elements(r)
  <2> DEFINE i == o + k + 1
             lo == o + 1
  <2>1. i \in DOMAIN ps /\ ps[i] = p + k * PtrSize /\ lo \in 1 .. i /\ lo + n - 1 \in i .. Len(ps)
    BY <1>2, <1>5, <1>6 DEF RowAt
  <2>2. ASSUME NEW j \in lo + 1 .. lo + n - 1  PROVE ps[j] = ps[j - 1] + PtrSize
    <3> DEFINE h == j - lo
    <3>1. h \in 0 .. n - 1 /\ h - 1 \in 0 .. n - 1 /\ o + h + 1 = j /\ o + (h - 1) + 1 = j - 1
          /\ h - 1 \in Nat /\ (h - 1) + 1 = h
      BY <1>2, <1>5, <2>2 DEF RowAt
    <3> HIDE DEF h
    <3>2. ps[j] = p + h * PtrSize /\ ps[j - 1] = p + (h - 1) * PtrSize
      BY <1>5, <3>1 DEF RowAt
    <3>3. h * PtrSize = (h - 1) * PtrSize + PtrSize /\ (h - 1) * PtrSize \in Nat
      BY <1>2, <3>1, ProductsAre
    <3> QED  BY <1>2, <3>2, <3>3
  <2>3. InRow(ps, i, n)  BY <2>1, <2>2 DEF InRow
  <2> HIDE DEF i
  <2>4. PICK m \in DOMAIN long : long[m] = i  BY <1>4, <2>1, <2>3 DEF Elements
  <2>5. m \in DOMAIN r /\ r[m] = p + k * PtrSize  BY <2>1, <2>4
  <2> QED  BY <2>5 DEF Elements
<1> HIDE DEF r
<1> QED  BY <1>1, <1>6

\* One entry: the word is a pointer unless a location had it, the reference is
\* there, and code that it points to is located or a function.
LEMMA AddTableEntryGrows ==
  ASSUME NEW i, NEW u, Shape(u), NEW p \in VAs
  PROVE  LET v == AddTableEntry(i, u, p)
             t == Word(i, p)
         IN  /\ Grown(u, v)
             /\ Located(v, p) /\ <<p, t, "Data">> \in v.xrefs
             /\ InCode(i, t) /\ ValidCode(i, t) => Located(v, t) \/ IsFunction(v, t)
<1> DEFINE v == AddTableEntry(i, u, p)
           t == Word(i, p)
           a == MarkPointer(u, p)
           b == AddXref(a, p, t, "Data")
           e == AddFn(b, t, "sub")
<1>1. Shape(v)  BY AddTableEntryKeeps DEF Kept
<1>2. /\ Shape(a) /\ Shape(b) /\ Shape(e) /\ t \in Elements(e.funcs)
      /\ Elements(b.funcs) \subseteq Elements(e.funcs)
  <2>1. Shape(a)  BY MarkPointerKeeps DEF Kept
  <2>2. Shape(b)
    <3> HIDE DEF a
    <3> QED  BY <2>1, NamesKept DEF Kept
  <2>3. Shape(e) /\ t \in Elements(e.funcs) /\ Elements(b.funcs) \subseteq Elements(e.funcs)
    <3> HIDE DEF b
    <3> QED  BY <2>2, AddFnKeeps DEF Kept
  <2> QED  BY <2>1, <2>2, <2>3
<1>3. v = IF InCode(i, t) /\ ~Located(b, t) /\ ValidCode(i, t) THEN e ELSE b
  BY Zenon DEF AddTableEntry
<1>4. /\ a.xrefs = u.xrefs /\ a.funcs = u.funcs
      /\ DOMAIN a.loc = DOMAIN u.loc \cup {p}
      /\ \A va \in DOMAIN u.loc : a.loc[va] = u.loc[va]
      /\ p \notin DOMAIN u.loc => a.loc[p].type = "Pointer"
  <2>1. CASE Located(u, p)
    BY <2>1 DEF MarkPointer, AddFreeLoc, Located
  <2>2. CASE ~Located(u, p)
    <3>1. a = AddLoc(u, p, PtrSize, "Pointer")  BY <2>2 DEF MarkPointer, AddFreeLoc
    <3>2. a.xrefs = u.xrefs /\ a.funcs = u.funcs
          /\ a.loc = Put(u.loc, p, [size |-> PtrSize, type |-> "Pointer"])
      BY <3>1 DEF AddLoc, Shape, Parts
    <3> HIDE DEF a
    <3> QED  BY <2>2, <3>2 DEF Put, Located
  <2> QED  BY <2>1, <2>2
<1> HIDE DEF a
<1>5. b.loc = a.loc /\ b.funcs = a.funcs /\ b.xrefs = a.xrefs \cup {<<p, t, "Data">>}
  BY <1>2 DEF AddXref, AddXrefs, Shape, Parts
<1> HIDE DEF b
<1>6. e.loc = b.loc /\ e.xrefs = b.xrefs
  BY <1>2 DEF AddFn, Shape, Parts
<1> HIDE DEF v, e
<1>7. v.loc = a.loc /\ v.xrefs = b.xrefs /\ Elements(u.funcs) \subseteq Elements(v.funcs)
  BY <1>2, <1>3, <1>4, <1>5, <1>6
<1>8. Grown(u, v)  BY <1>1, <1>4, <1>5, <1>7 DEF Grown
<1>9. Located(v, p) /\ <<p, t, "Data">> \in v.xrefs
  BY <1>4, <1>5, <1>7 DEF Located
<1>10. InCode(i, t) /\ ValidCode(i, t) => Located(v, t) \/ IsFunction(v, t)
  BY <1>2, <1>3, <1>5, <1>7 DEF Located, IsFunction
<1> QED  BY <1>8, <1>9, <1>10 DEF v

\* The pass goes through all the entries.
LEMMA PointerTablesGrow ==
  ASSUME im \in Images, IsX86, NEW u, Shape(u)
  PROVE  LET v == PointerTables(im, u)
         IN  /\ Grown(u, v)
             /\ \A p \in Elements(Runs(FreePointers(im, u))) :
                  LET t == Word(im, p)
                  IN  /\ Located(v, p) /\ <<p, t, "Data">> \in v.xrefs
                      /\ InCode(im, t) /\ ValidCode(im, t) => Located(v, t) \/ IsFunction(v, t)
<1> DEFINE q == Runs(FreePointers(im, u))
           v == Tw!Fold(im, u, q)
<1>1. PointerTables(im, u) = v
  <2>1. FoldLeft(LAMBDA x, p : AddTableEntry(im, x, p), u, q) = v
    BY Zenon DEF TableStep, Tw!Fold, FoldLeft, Tw!MapThenFoldSet, MapThenFoldSet,
      Tw!Max, Max
  <2> QED  BY <2>1 DEF PointerTables, IsX86
<1>2. Sequence(q) /\ Elements(q) \subseteq VAs
  BY FreePointersAre, RunsAre
<1> HIDE DEF q
<1>3. Len(q) \in Nat /\ DOMAIN q = 1 .. Len(q) /\ \A k \in DOMAIN q : q[k] \in VAs
  BY <1>2, SequenceIs
<1>4. Tw!Related(im, u, q)
  <2>1. \A x : GrownRel(im, x, x)  BY DEF GrownRel, Grown
  <2>2. \A x, y, z : GrownRel(im, x, y) /\ GrownRel(im, y, z) => GrownRel(im, x, z)
    BY DEF GrownRel, Grown
  <2>3. ASSUME NEW x, NEW k \in DOMAIN q  PROVE GrownRel(im, x, TableStep(im, x, q[k]))
    BY <1>3, AddTableEntryGrows DEF GrownRel, TableStep
  <2> QED  BY <2>1, <2>2, <2>3 DEF Tw!Related
<1>5. /\ GrownRel(im, u, v)
      /\ \A k \in DOMAIN q : \E x : GrownRel(im, u, x) /\ GrownRel(im, TableStep(im, x, q[k]), v)
  BY <1>3, <1>4, Tw!FoldKeeps
<1> HIDE DEF v
<1>6. Grown(u, v)  BY <1>5 DEF GrownRel
<1>7. ASSUME NEW p \in Elements(q)
      PROVE  /\ Located(v, p) /\ <<p, Word(im, p), "Data">> \in v.xrefs
             /\ InCode(im, Word(im, p)) /\ ValidCode(im, Word(im, p))
                => Located(v, Word(im, p)) \/ IsFunction(v, Word(im, p))
  <2>1. PICK k \in DOMAIN q : p = q[k]  BY DEF Elements
  <2>2. PICK x : GrownRel(im, u, x) /\ GrownRel(im, TableStep(im, x, p), v)
    BY <1>5, <2>1
  <2> DEFINE y == AddTableEntry(im, x, p)
  <2>3. Shape(x)  BY <2>2 DEF GrownRel, Grown
  <2>4. /\ Grown(x, y)
        /\ Located(y, p) /\ <<p, Word(im, p), "Data">> \in y.xrefs
        /\ InCode(im, Word(im, p)) /\ ValidCode(im, Word(im, p))
           => Located(y, Word(im, p)) \/ IsFunction(y, Word(im, p))
    BY <1>3, <2>1, <2>3, AddTableEntryGrows
  <2>5. GrownRel(im, y, v)  BY <2>2 DEF TableStep
  <2> HIDE DEF y
  <2> QED  BY <2>4, <2>5 DEF GrownRel, Grown, Located, IsFunction
<1> QED  BY <1>1, <1>6, <1>7 DEF q

\* The search for tables of pointers (analysis/pointertables.rs) finds them
\* all, in every image: each word of one becomes a pointer, and code that it
\* points to is located or a function.
THEOREM PointerTablesFound == Spec => TablesFound
<1>1. ASSUME PassInvariant, PointerTableAnalysis, IsX86, NEW va \in VAs, Table(w, va),
             NEW k \in 0 .. TableMin - 1
      PROVE  LET p == va + k * PtrSize
                 t == Word(im, p)
             IN  /\ TypeAt(w', p) = "Pointer" /\ <<p, t, "Data">> \in w'.xrefs
                 /\ InCode(im, t) /\ ValidCode(im, t) => Located(w', t) \/ IsFunction(w', t)
  <2> DEFINE p == va + k * PtrSize
             v == PointerTables(im, w)
             q == Runs(FreePointers(im, w))
  <2>1. w' = v /\ im \in Images /\ Shape(w)
    BY <1>1 DEF PointerTableAnalysis, Module, PassInvariant
  <2>2. va \in Nat /\ TableMin \in Nat \ {0} /\ PtrSize \in Nat \ {0}
    BY ImageAssumption, DataPassesAssumption DEF VAs
  <2>3. Row(FreePointers(im, w), va)
    BY <1>1, <2>1, FreePointersRow DEF Table
  <2>4. p \in Elements(q)
    BY <1>1, <2>1, <2>2, <2>3, FreePointersAre, RunsRow
  <2>5. p \notin DOMAIN w.loc
    <3>1. k * PtrSize \in Nat /\ k * PtrSize + PtrSize <= TableMin * PtrSize
      BY <1>1, <2>2, ProductsAre
    <3>2. \A a \in DOMAIN w.loc :
            a + w.loc[a].size <= va \/ va + TableMin * PtrSize <= a
      BY <1>1 DEF Table, Untouched
    <3>3. p \in Nat /\ va <= p /\ p < va + TableMin * PtrSize
      BY <2>2, <3>1
    <3>4. p \in DOMAIN w.loc => w.loc[p].size \in Nat \ {0}
      BY <2>1 DEF Shape
    <3> HIDE DEF p
    <3>5. SUFFICES ASSUME p \in DOMAIN w.loc  PROVE FALSE
      OBVIOUS
    <3>6. p + w.loc[p].size <= va \/ va + TableMin * PtrSize <= p  BY <3>2, <3>5
    <3>7. w.loc[p].size \in Nat \ {0}  BY <3>4, <3>5
    <3>8. TableMin * PtrSize \in Nat  BY <2>2
    <3> QED  BY <2>2, <3>3, <3>6, <3>7, <3>8
  <2> HIDE DEF q
  <2>6. /\ Grown(w, v)
        /\ Located(v, p) /\ <<p, Word(im, p), "Data">> \in v.xrefs
        /\ InCode(im, Word(im, p)) /\ ValidCode(im, Word(im, p))
           => Located(v, Word(im, p)) \/ IsFunction(v, Word(im, p))
    BY <1>1, <2>1, <2>4, PointerTablesGrow DEF q
  <2> HIDE DEF v, p
  <2>7. TypeAt(v, p) = "Pointer"
    BY <2>5, <2>6 DEF Grown, Located, TypeAt
  <2> QED  BY <2>1, <2>6, <2>7 DEF p
<1>2. PassInvariant =>
        [PointerTableAnalysis /\ IsX86 =>
           \A va \in {a \in VAs : Table(w, a)} : \A k \in 0 .. TableMin - 1 :
             LET p == va + k * PtrSize
                 t == Word(im, p)
             IN  /\ TypeAt(w', p) = "Pointer" /\ <<p, t, "Data">> \in w'.xrefs
                 /\ InCode(im, t) /\ ValidCode(im, t) => Located(w', t) \/ IsFunction(w', t)]_vars
  BY <1>1
<1> QED  BY <1>2, PassesKeepShape, PTL DEF TablesFound

----------------------------------------------------------------------------
(* Names of pointers. *)

NameTo(c, f, n) ==
  IF n = 0 THEN [q \in DOMAIN c[2] |-> {}] ELSE NamesBy(c[1], c[2], f[n - 1])
Nm == INSTANCE DataInduction WITH Def <- NameTo

\* Sets that grow inside a finite one, each given by the one before, have
\* settled after as many steps as it has elements.
LEMMA Settles ==
  ASSUME NEW D, IsFiniteSet(D), NEW B \in SUBSET D, NEW E \in SUBSET D, NEW f, NEW X,
         X[0] = {},
         \A k \in 0 .. Cardinality(D) - 1 : X[k + 1] = B \cup {q \in E : f[q] \in X[k]}
  PROVE  X[Cardinality(D)] = B \cup {q \in E : f[q] \in X[Cardinality(D)]}
<1> DEFINE N == Cardinality(D)
           F(Y) == B \cup {q \in E : f[q] \in Y}
           S == {k \in 0 .. N : /\ X[k] \subseteq D
                                /\ F(X[k]) = X[k] \/ (X[k] \subseteq F(X[k]) /\ Cardinality(X[k]) >= k)}
<1>1. \A Y : Y \subseteq D => IsFiniteSet(Y) /\ Cardinality(Y) \in Nat
  BY FS_Subset, FS_CardinalityType
<1>2. N \in Nat  BY <1>1
<1>3. 0 \in S
  BY <1>1, <1>2
<1>4. ASSUME NEW k \in 0 .. N - 1, k \in S  PROVE k + 1 \in S
  <2>1. X[k + 1] = F(X[k]) /\ k + 1 \in 0 .. N  BY <1>2
  <2>2. F(X[k]) \subseteq D  OBVIOUS
  <2>3. CASE F(X[k]) = X[k]
    BY <1>4, <2>1, <2>3
  <2>4. CASE X[k] \subseteq F(X[k]) /\ Cardinality(X[k]) >= k /\ F(X[k]) # X[k]
    <3>1. X[k + 1] \subseteq F(X[k + 1])  BY <2>1, <2>4
    <3>2. /\ Cardinality(X[k]) <= Cardinality(X[k + 1])
          /\ Cardinality(X[k]) # Cardinality(X[k + 1])
      BY <1>1, <2>1, <2>2, <2>4, FS_Subset
    <3>3. Cardinality(X[k]) \in Nat /\ Cardinality(X[k + 1]) \in Nat
      BY <1>1, <1>4, <2>1, <2>2
    <3> HIDE DEF F
    <3>4. Cardinality(X[k + 1]) >= k + 1  BY <2>4, <3>2, <3>3
    <3> QED  BY <2>1, <2>2, <3>1, <3>4
  <2> QED  BY <1>4, <2>3, <2>4
<1>5. N \in S
  <2> HIDE DEF S, N
  <2>1. \A k \in 0 .. N : k \in S  BY <1>2, <1>3, <1>4, Nm!UpTo
  <2> QED  BY <1>2, <2>1
<1>6. CASE X[N] \subseteq F(X[N]) /\ Cardinality(X[N]) >= N
  <2>1. X[N] \subseteq D /\ Cardinality(X[N]) \in Nat  BY <1>1, <1>5
  <2>2. Cardinality(X[N]) <= N  BY <2>1, FS_Subset
  <2>3. X[N] = D  BY <1>2, <1>6, <2>1, <2>2, FS_Subset
  <2> QED  BY <1>6, <2>3
<1> QED  BY <1>5, <1>6

\* A pointer that gets no name, though it has none, points to something that
\* has none, or to another that is noted and gets none.
LEMMA NotNamed ==
  ASSUME NEW v, NEW done, IsFiniteSet(DOMAIN done), NEW p \in DOMAIN done,
         p \notin DOMAIN v.names, TypeAt(v, p) = "Pointer", NameFor(v, done, p) = {}
  PROVE  IF done[p] \in DOMAIN done THEN NameFor(v, done, done[p]) = {}
         ELSE done[p] \notin DOMAIN v.names
<1> DEFINE D == DOMAIN done
           N == Cardinality(D)
           c == <<v, done>>
           R == Nm!Recursive(c, 0 .. N)
           E == {q \in D : q \notin DOMAIN v.names /\ TypeAt(v, q) = "Pointer"}
           X == [k \in 0 .. N |-> {q \in D : R[k][q] # {}}]
           B == {q \in E : done[q] \notin D /\ done[q] \in DOMAIN v.names}
           F == {q \in E : done[q] \in D}
<1>1. \A q : NameFor(v, done, q) = R[N][q]
  BY Zenon DEF NameFor, NameTo, Nm!Recursive
<1>2. N \in Nat
  BY FS_CardinalityType
<1>3. c[1] = v /\ c[2] = done  OBVIOUS
<1> HIDE DEF c
<1>4. Nm!Ranked(c, 0 .. N, N)
  <2>1. \A k \in 0 .. N : Rank(c, k) \in 0 .. N  BY <1>2 DEF Rank
  <2>2. ASSUME NEW f, NEW g, NEW k \in 0 .. N,
               \A b \in 0 .. N : Rank(c, b) < Rank(c, k) => f[b] = g[b]
        PROVE  NameTo(c, f, k) = NameTo(c, g, k)
    <3>1. CASE k = 0  BY <3>1 DEF NameTo
    <3>2. CASE k # 0
      <4>1. k - 1 \in 0 .. N /\ k - 1 < k  BY <1>2, <3>2
      <4>2. f[k - 1] = g[k - 1]  BY <2>2, <4>1 DEF Rank
      <4> QED  BY <3>2, <4>2 DEF NameTo
    <3> QED  BY <3>1, <3>2
  <2> QED  BY <2>1, <2>2 DEF Nm!Ranked
<1>5. \A k \in 0 .. N : R[k] = NameTo(c, R, k)
  BY <1>2, <1>4, Nm!RecursionHolds
<1> HIDE DEF R
<1>6. R[0] = [q \in D |-> {}]
  BY <1>2, <1>3, <1>5 DEF NameTo
<1>7. ASSUME NEW k \in 0 .. N - 1  PROVE R[k + 1] = NamesBy(v, done, R[k])
  <2>1. k + 1 \in 0 .. N /\ k + 1 # 0 /\ (k + 1) - 1 = k  BY <1>2
  <2> QED  BY <1>3, <1>5, <2>1 DEF NameTo
<1>8. ASSUME NEW below, NEW q \in D
      PROVE  NamesBy(v, done, below)[q] # {} <=> q \in B \/ (q \in F /\ below[done[q]] # {})
  <2> DEFINE old == {v.names[a] : a \in {done[q]} \cap DOMAIN v.names}
             target == IF done[q] \in D THEN below[done[q]] ELSE old
             new == {<<"ptr">> \o x \o <<ToString(q)>> : x \in target}
  <2>1. NamesBy(v, done, below)[q] =
          IF q \in DOMAIN v.names \/ TypeAt(v, q) # "Pointer" THEN {} ELSE new
    BY DEF NamesBy
  <2>2. new = {} <=> target = {}
    <3> HIDE DEF target
    <3> QED  OBVIOUS
  <2>3. old = {} <=> done[q] \notin DOMAIN v.names  OBVIOUS
  <2> HIDE DEF new, old
  <2> QED  BY <2>1, <2>2, <2>3
<1>9. X[0] = {}
  BY <1>2, <1>6
<1>10. ASSUME NEW k \in 0 .. N - 1  PROVE X[k + 1] = B \cup {q \in F : done[q] \in X[k]}
  <2>1. k + 1 \in 0 .. N /\ k \in 0 .. N  BY <1>2
  <2>2. \A q \in F : done[q] \in X[k] <=> R[k][done[q]] # {}  BY <2>1
  <2>3. \A q \in D : q \in X[k + 1] <=> q \in B \/ (q \in F /\ R[k][done[q]] # {})
    <3>1. \A q \in D : q \in X[k + 1] <=> R[k + 1][q] # {}  BY <2>1
    <3> HIDE DEF X, B, F
    <3> QED  BY <1>7, <1>8, <3>1
  <2>4. X[k + 1] \subseteq D /\ B \subseteq D /\ F \subseteq D  BY <2>1
  <2> HIDE DEF X, B, F
  <2> QED  BY <2>2, <2>3, <2>4
<1>11. X[N] = B \cup {q \in F : done[q] \in X[N]}
  <2>1. B \in SUBSET D /\ F \in SUBSET D  OBVIOUS
  <2> HIDE DEF X, B, F
  <2> QED  BY <1>9, <1>10, <2>1, Settles
<1>12. \A q \in D : q \in X[N] <=> NameFor(v, done, q) # {}
  BY <1>1, <1>2
<1>13. p \in E /\ p \notin X[N]
  <2> HIDE DEF X
  <2> QED  BY <1>12
<1> HIDE DEF X
<1> QED  BY <1>11, <1>12, <1>13

\* After the last search for pointers (analysis/pointers.rs), one without a
\* name points to something without a name, or to a word that was taken for a
\* pointer itself, in every image.
THEOREM PointersAreNamed == Spec => PointersNamed
<1>1. ASSUME PassInvariant, PointerAnalysis, NEW p \in DOMAIN w'.loc,
             TypeAt(w', p) = "Pointer", p \notin DOMAIN w'.names
      PROVE  LET t == Word(im, p)
             IN  \/ ~Points(im, p) \/ t \notin DOMAIN w'.names
                 \/ Taken(t) /\ (t \in DOMAIN w.names \/ TypeAt(w', t) # "Pointer")
  <2> DEFINE t == Word(im, p)
  <2> SUFFICES ASSUME Points(im, p), t \in DOMAIN w'.names
               PROVE  Taken(t) /\ (t \in DOMAIN w.names \/ TypeAt(w', t) # "Pointer")
    OBVIOUS
  <2>1. w' = Pointers(im, w) /\ im \in Images /\ Shape(w)
    BY <1>1 DEF PointerAnalysis, Module, PassInvariant
  <2>2. PICK a :
           /\ w' = NamesGiven(a)
           /\ Kept({}, w, a.w) /\ Followed(w, a.w) /\ Noted(im, a)
           /\ \A q \in DOMAIN a.w.loc : a.w.loc[q].type = "Pointer" /\ Points(im, q)
                => q \in DOMAIN a.done \/ q \in DOMAIN a.w.names
           /\ \A q \in DOMAIN a.done :
                q \in VAs /\ (TypeAt(w, q) = "Pointer" \/ (~Located(w, q) /\ Points(im, q)))
    BY <2>1, SearchEnds
  <2> DEFINE u == a.w
             named == {q \in DOMAIN a.done : NameFor(u, a.done, q) # {}}
  <2>3. DOMAIN u = Parts  BY <2>1, <2>2 DEF Kept, Shape
  <2>4. w'.loc = u.loc /\ DOMAIN w'.names = DOMAIN u.names \cup named
    BY <2>2, <2>3 DEF NamesGiven, Parts
  <2>5. IsFiniteSet(DOMAIN a.done)
    <3>1. IsFiniteSet(VAs)  BY FS_Interval, ImageAssumption DEF VAs
    <3>2. DOMAIN a.done \in SUBSET VAs  BY <2>2
    <3> QED  BY <3>1, <3>2, FS_Subset
  <2>6. p \in DOMAIN u.loc /\ u.loc[p].type = "Pointer" /\ TypeAt(u, p) = "Pointer"
        /\ p \notin DOMAIN u.names /\ p \notin named
    BY <1>1, <2>4 DEF TypeAt
  <2>7. p \in DOMAIN a.done /\ a.done[p] = t /\ NameFor(u, a.done, p) = {}
    BY <2>2, <2>6 DEF Noted
  <2>8. IF t \in DOMAIN a.done THEN NameFor(u, a.done, t) = {} ELSE t \notin DOMAIN u.names
    BY <2>5, <2>6, <2>7, NotNamed
  <2> HIDE DEF t
  <2>9. t \in DOMAIN a.done /\ t \in DOMAIN u.names
    BY <2>4, <2>8
  <2>10. Taken(t)
    BY <2>2, <2>9 DEF Taken
  <2>11. ASSUME t \notin DOMAIN w.names  PROVE TypeAt(w', t) # "Pointer"
    BY <2>2, <2>4, <2>9, <2>11 DEF Followed, TypeAt, Located
  <2> QED  BY <2>10, <2>11
<1>2. PassInvariant =>
        [PointerAnalysis =>
           \A p \in {a \in DOMAIN w'.loc : TypeAt(w', a) = "Pointer"} \ DOMAIN w'.names :
             LET t == Word(im, p)
             IN  \/ ~Points(im, p) \/ t \notin DOMAIN w'.names
                 \/ Taken(t) /\ (t \in DOMAIN w.names \/ TypeAt(w', t) # "Pointer")]_vars
  BY <1>1
<1> QED  BY <1>2, PassesKeepShape, PTL DEF PointersNamed

----------------------------------------------------------------------------
(* Emulation. *)

\* The calls that may be on record: from an address to what some instruction
\* names and a call may go to.
Recordable ==
  {c \in VAs \X {im.insn[va].to : va \in VAs} :
     Callable(c[2])}

\* While a function is emulated the passes are through, so that nothing
\* changes the workspace under the emulator.
PassesOver == emu # None => next > Len(Pipeline) /\ w.pend = <<>>

\* The fields that a turn assigns, or that must not be lost.
Fields == {"func", "pc", "count", "calls", "cleanup", "end", "past"}

EmuTypes ==
  emu # None =>
    /\ DOMAIN emu = Fields
    /\ "kind" \in DOMAIN mon

\* What the property is about: a start in located code, nothing skipped, and
\* no call stepped over that does not return.
Watched ==
  /\ mon.kind # "own" /\ TypeAt(w, emu.func) = "Op"
  /\ \A a \in emu.past : ~NeverReturns(w, im.insn[a])

InCodeInvariant ==
  emu # None /\ Watched =>
    /\ Decodes(im, emu.pc) => TypeAt(w, emu.pc) = "Op"
    /\ emu.calls \in Seq(Recordable)

EmuInvariant == PassesOver /\ EmuTypes /\ InCodeInvariant

\* A turn that leaves the log as calls.
Assigned(calls) ==
  DOMAIN emu' = DOMAIN emu /\ emu'.func = emu.func /\ emu'.calls = calls /\ emu.past \subseteq emu'.past

----------------------------------------------------------------------------
\* A monitor keeps its kind, and only one of one's own answers Skip.
LEMMA MonitorKeepsKind ==
  ASSUME NEW m, "kind" \in DOMAIN m, NEW va, NEW target, NEW name
  PROVE  /\ "kind" \in DOMAIN Prehook(m, va).mon /\ Prehook(m, va).mon.kind = m.kind
         /\ Prehook(m, va).action = "skip" => m.kind = "own"
         /\ "kind" \in DOMAIN OnCall(m, va, target, name).mon
         /\ OnCall(m, va, target, name).mon.kind = m.kind
<1>1. CASE m.kind = "path"
  BY <1>1 DEF Prehook, OnCall, Answer
<1>2. CASE m.kind = "breakpoint"
  BY <1>2 DEF Prehook, OnCall, Answer
<1>3. CASE m.kind = "call"
  BY <1>3 DEF Prehook, OnCall, Answer
<1>4. CASE m.kind = "own"
  BY <1>4 DEF Prehook, OnCall, Answer
<1>5. CASE m.kind \notin {"path", "breakpoint", "call", "own"}
  BY <1>5 DEF Prehook, OnCall, Answer
<1> QED  BY <1>1, <1>2, <1>3, <1>4, <1>5

\* Once the last pass is through and nothing is pending, no pass runs.
LEMMA PassesEnd ==
  ASSUME next \in Nat, next > Len(Pipeline), w.pend = <<>>, Next
  PROVE  UNCHANGED vars
<1>1. ~(next <= Len(Pipeline))
  BY DEF Pipeline
<1>2. ASSUME NEW name, NEW should_run, NEW results  PROVE ~Module(name, should_run, results)
  BY <1>1 DEF Module
<1>3. ~Formats
  BY <1>2 DEF Formats, LinkerAnalysis, EntryPointAnalysis, PeAnalysis, ElfCtorsAnalysis,
    ElfPltAnalysis, LibcStartMainAnalysis, GolangAnalysis, ElfPltLateAnalysis
<1>4. ~Code
  BY <1>2 DEF Code, CodeFlowAnalysis, ImportCallsAnalysis, InstrHookAnalysis, ThunkRegAnalysis,
    ArmAnalysis, Aarch64Analysis, PrologueScanAnalysis, EmuCodeAnalysis, FuncEntriesAnalysis,
    MsvcFuncAnalysis, ThunkScanAnalysis, NoReturnAnalysis, CallingConventionAnalysis,
    SwitchCaseAnalysis, SymSwitchCaseAnalysis, HotpatchAnalysis
<1>5. ~Data
  BY <1>2 DEF Data, RelocationAnalysis, PointerTableAnalysis, VfTableAnalysis, PointerAnalysis,
    StringAnalysis
<1> QED  BY <1>3, <1>4, <1>5 DEF Next, FuncModules, Done

\* From located code, control goes on in located code, as far as calls return.
LEMMA FlowStaysLocated ==
  ASSUME CodeClosed, NEW va, TypeAt(w, va) = "Op", NEW t, t \in FlowFrom(im, w, va)
  PROVE  TypeAt(w, t) = "Op"
BY ImageAssumption DEF CodeClosed, TypeAt

\* What located code calls may be on record.
LEMMA CalleesAreCallable ==
  ASSUME CodeClosed, Decodes(im, emu.pc), TypeAt(w, emu.pc) = "Op", Insn.kind = "call",
         NEW t \in CallTarget
  PROVE  <<emu.pc, t>> \in Recordable
<1>1. t \in Direct(Insn) /\ t = Insn.to
  BY DEF CallTarget, Direct
<1>2. emu.pc \in VAs /\ t \in {im.insn[va].to : va \in VAs}
  BY <1>1 DEF Decodes, Insn
<1>3. emu.pc \in DOMAIN w.loc
  BY ImageAssumption DEF TypeAt
<1>4. Callable(t)
  BY <1>1, <1>3 DEF CodeClosed, Insn
<1> QED  BY <1>2, <1>4 DEF Recordable

----------------------------------------------------------------------------
\* No emulation has begun.
LEMMA InvariantInitially == EmuInit => EmuInvariant
BY DEF EmuInit, Init, EmuInvariant, PassesOver, EmuTypes, InCodeInvariant, Watched

\* A turn whose monitor is of the same kind, which logs what may be logged
\* and goes on, if in code, in located code.
LEMMA TurnKeeps ==
  ASSUME EmuInvariant, UNCHANGED vars, emu # None,
         NEW calls, Watched => calls \in Seq(Recordable) \/ calls = emu.calls,
         Assigned(calls),
         "kind" \in DOMAIN mon', mon'.kind = mon.kind,
         Watched' /\ Decodes(im, emu'.pc) => TypeAt(w, emu'.pc) = "Op"
  PROVE  EmuInvariant'
<1>1. Recordable' = Recordable
  BY DEF Recordable, vars, IsValidPointer, IsFunction, Reads,
     Callable, CallsImport, Decodes
<1>2. PassesOver'
  BY DEF EmuInvariant, PassesOver, vars
<1>3. Watched' => Watched
  BY DEF Assigned, Watched, vars, TypeAt, NeverReturns
<1>4. InCodeInvariant'
  BY <1>1, <1>3 DEF Assigned, EmuInvariant, InCodeInvariant, vars, TypeAt, Decodes
<1> QED  BY <1>2, <1>4 DEF EmuInvariant, EmuTypes, Assigned

\* Every turn keeps the invariant, and so does every pass, with none of them
\* under way.
LEMMA InvariantKept == EmuInvariant /\ PassInvariant /\ [EmuNext]_<<vars, emuVars>> => EmuInvariant'
<1> SUFFICES ASSUME EmuInvariant, PassInvariant, [EmuNext]_<<vars, emuVars>>
             PROVE  EmuInvariant'
  OBVIOUS
<1>0. CodeClosed /\ next \in Nat
  BY ClosesMeansClosed DEF PassInvariant
<1>1. ASSUME Turn
      PROVE  /\ emu # None /\ Decodes(im, emu.pc)
             /\ Watched => TypeAt(w, emu.pc) = "Op"
             /\ "kind" \in DOMAIN Pre.mon /\ Pre.mon.kind = mon.kind
             /\ Pre.action = "skip" => mon.kind = "own"
  BY <1>1, MonitorKeepsKind DEF Turn, Pre, EmuInvariant, EmuTypes, InCodeInvariant
<1>12. ASSUME UNCHANGED vars, mon'.kind = mon.kind, emu'.func = emu.func,
              emu.past \subseteq emu'.past, Watched'
       PROVE  Watched /\ (emu.pc \in emu'.past => ~NeverReturns(w, Insn))
  BY <1>12 DEF Watched, vars, TypeAt, NeverReturns, Insn
<1>2. CASE UNCHANGED <<vars, emuVars>>
  <2>1. Recordable' = Recordable
    BY <1>2 DEF Recordable, vars, IsValidPointer, IsFunction, Reads,
     Callable, CallsImport, Decodes
  <2>2. PassesOver' /\ EmuTypes'
    BY <1>2 DEF vars, emuVars, EmuInvariant, PassesOver, EmuTypes
  <2>3. InCodeInvariant'
    BY <1>2, <2>1 DEF vars, emuVars, EmuInvariant, InCodeInvariant, Watched, Decodes, TypeAt,
      NeverReturns
  <2> QED  BY <2>2, <2>3 DEF EmuInvariant
<1>3. CASE Next /\ UNCHANGED emuVars
  <2>1. CASE emu = None
    BY <1>3, <2>1 DEF emuVars, EmuInvariant, PassesOver, EmuTypes, InCodeInvariant
  <2>2. CASE emu # None
    <3>1. UNCHANGED vars
      BY <1>0, <1>3, <2>2, PassesEnd DEF EmuInvariant, PassesOver
    <3> QED  BY <1>3, <3>1, <1>2
  <2> QED  BY <2>1, <2>2
<1>4. ASSUME NEW f \in Elements(w.funcs), RunFunction(f)  PROVE EmuInvariant'
  <2>1. PassesOver'
    BY <1>4 DEF RunFunction, Keep, vars, EmuInvariant, PassesOver
  <2>2. EmuTypes'
    BY <1>4, WorkspaceEmuAssumption DEF RunFunction, EmuTypes, Fields
  <2>3. emu'.func = f /\ emu'.pc = f /\ emu'.calls = <<>>
    BY <1>4 DEF RunFunction
  <2>4. InCodeInvariant'
    BY <2>3 DEF InCodeInvariant, Watched
  <2> QED  BY <2>1, <2>2, <2>4 DEF EmuInvariant
<1>5. CASE OutOfInsns \/ NotDecoded
  <2>1. UNCHANGED <<vars, mon>> /\ emu # None /\ \E why : emu' = [emu EXCEPT !.end = why]
    BY <1>5 DEF OutOfInsns, NotDecoded, Finish, Keep
  <2>2. Assigned(emu.calls) /\ emu'.pc = emu.pc
    BY <2>1 DEF EmuInvariant, EmuTypes, Assigned, Fields
  <2>3. Watched' => Watched  BY <1>12, <2>1, <2>2 DEF Assigned
  <2> QED  BY <2>1, <2>2, <2>3, TurnKeeps DEF EmuInvariant, EmuTypes, InCodeInvariant
<1>6. CASE Stopped \/ Return
  <2>1. UNCHANGED vars /\ Turn /\ mon' = Pre.mon
    BY <1>6 DEF Stopped, Return, Runs1, Keep
  <2>2. \/ emu' = [emu EXCEPT !.end = "monitor"]
        \/ emu' = [emu EXCEPT !.cleanup = Insn.pops, !.end = "returned"]
    BY <1>6 DEF Stopped, Return, Finish
  <2>3. Assigned(emu.calls) /\ emu'.pc = emu.pc
    BY <1>1, <2>1, <2>2 DEF EmuInvariant, EmuTypes, Assigned, Fields
  <2>4. Watched' => Watched  BY <1>1, <1>12, <2>1, <2>3 DEF Assigned
  <2> QED  BY <1>1, <2>1, <2>3, <2>4, TurnKeeps
<1>7. CASE Skipped
  <2>1. UNCHANGED vars /\ Turn /\ mon' = Pre.mon /\ mon.kind = "own"
    BY <1>1, <1>7 DEF Skipped, Keep
  <2>2. Assigned(emu.calls)
    BY <1>1, <1>7, <2>1 DEF Skipped, GoTo, Past, EmuInvariant, EmuTypes, Assigned, Fields
  <2>3. ~Watched /\ (Watched' => Watched)
    BY <1>1, <1>12, <2>1, <2>2 DEF Assigned, Watched
  <2> QED  BY <1>1, <2>1, <2>2, <2>3, TurnKeeps
<1>8. ASSUME Turn, Insn.kind \in {"plain", "call"}, Watched, ~NeverReturns(w, Insn),
             Decodes(im, After(im, emu.pc))
      PROVE  TypeAt(w, After(im, emu.pc)) = "Op"
  <2>1. After(im, emu.pc) \in FlowFrom(im, w, emu.pc)
    BY <1>8 DEF FlowFrom, GoesOn, Falls, Insn
  <2> QED  BY <1>0, <1>1, <1>8, <2>1, FlowStaysLocated
<1>9. CASE StepOverCall
  <2>1. UNCHANGED vars /\ Turn /\ Insn.kind = "call"
    BY <1>9 DEF StepOverCall, Runs1, Keep
  <2> DEFINE after == After(im, emu.pc)
             calls(t) == Append(emu.calls, <<emu.pc, t>>)
             recorded(t) == [emu EXCEPT !.calls = calls(t)]
  <2>2. PICK t \in CallTarget :
          /\ mon' = Called(t).mon
          /\ \/ Finish("monitor") \/ GoTo(after)
             \/ emu' = [recorded(t) EXCEPT !.end = "stub"]
             \/ emu' = Past(recorded(t), after)
    BY <1>9, Zenon DEF StepOverCall
  <2>3. "kind" \in DOMAIN mon' /\ mon'.kind = mon.kind
    BY <1>1, <2>1, <2>2, MonitorKeepsKind DEF Called
  <2>4. \E c \in {emu.calls, calls(t)} :
          /\ Assigned(c)
          /\ emu'.pc = emu.pc \/ (emu'.pc = after /\ emu.pc \in emu'.past)
    <3>1. CASE Finish("monitor") \/ GoTo(after)
      BY <1>1, <2>1, <3>1 DEF Finish, GoTo, Past, EmuInvariant, EmuTypes, Assigned, Fields
    <3>2. CASE \/ emu' = [recorded(t) EXCEPT !.end = "stub"]
               \/ emu' = Past(recorded(t), after)
      <4>1. /\ DOMAIN recorded(t) = Fields /\ recorded(t).func = emu.func
            /\ recorded(t).calls = calls(t) /\ recorded(t).pc = emu.pc
            /\ recorded(t).past = emu.past
        BY <1>1, <2>1 DEF EmuInvariant, EmuTypes, Fields
      <4> HIDE DEF recorded, calls
      <4> QED  BY <1>1, <2>1, <3>2, <4>1 DEF Past, EmuInvariant, EmuTypes, Assigned, Fields
    <3> QED  BY <2>2, <3>1, <3>2
  <2>5. Watched => calls(t) \in Seq(Recordable)
    <3> SUFFICES ASSUME Watched  PROVE calls(t) \in Seq(Recordable)
      OBVIOUS
    <3>1. <<emu.pc, t>> \in Recordable
      BY <1>0, <1>1, <2>1, CalleesAreCallable
    <3> QED  BY <1>1, <2>1, <3>1 DEF EmuInvariant, InCodeInvariant
  <2> HIDE DEF calls, recorded
  <2>6. Watched' => Watched /\ (emu.pc \in emu'.past => ~NeverReturns(w, Insn))
    BY <1>12, <2>1, <2>3, <2>4 DEF Assigned
  <2>7. Watched' /\ Decodes(im, emu'.pc) => TypeAt(w, emu'.pc) = "Op"
    BY <1>1, <1>8, <2>1, <2>4, <2>6
  <2> QED  BY <1>1, <2>1, <2>3, <2>4, <2>5, <2>7, TurnKeeps
<1>10. CASE Branch
  <2>1. UNCHANGED vars /\ Turn /\ mon' = Pre.mon /\ Insn.kind \in {"jmp", "jcc"}
    BY <1>10 DEF Branch, Runs1, Keep
  <2>2. Assigned(emu.calls)
        /\ (emu'.pc = emu.pc \/ emu'.pc \in Direct(Insn))
    BY <1>1, <1>10, <2>1 DEF Branch, GoTo, Past, Finish, EmuInvariant, EmuTypes, Assigned, Fields
  <2>3. Decodes(im, emu'.pc) /\ emu'.pc \in Direct(Insn) => emu'.pc \in FlowFrom(im, w, emu.pc)
    BY DEF FlowFrom, Insn
  <2>4. Watched' => Watched  BY <1>1, <1>12, <2>1, <2>2 DEF Assigned
  <2> QED  BY <1>1, <2>1, <2>2, <2>3, <2>4, <1>0, FlowStaysLocated, TurnKeeps
<1>11. CASE Advance
  <2>1. /\ UNCHANGED vars /\ Turn /\ mon' = Pre.mon /\ Insn.kind \in {"plain", "call"}
        /\ GoTo(After(im, emu.pc))
    BY <1>11 DEF Advance, Runs1, Keep
  <2>2. Assigned(emu.calls)
        /\ emu'.pc = After(im, emu.pc) /\ emu.pc \in emu'.past
    BY <1>1, <2>1 DEF GoTo, Past, EmuInvariant, EmuTypes, Assigned, Fields
  <2>3. Watched' => Watched /\ ~NeverReturns(w, Insn)
    BY <1>1, <1>12, <2>1, <2>2 DEF Assigned
  <2> QED  BY <1>1, <1>8, <2>1, <2>2, <2>3, TurnKeeps
<1> QED  BY <1>2, <1>3, <1>4, <1>5, <1>6, <1>7, <1>9, <1>10, <1>11 DEF EmuNext

\* An emulation that starts in code which the passes located, and whose
\* monitor skips nothing, stays in located code until it steps over a call
\* that the passes know not to return, and what it records for a call until
\* then is a function, or begins with a call through an import, or is no
\* address: whatever the image, the monitors, the stubs and the limit
\* (run_function of impemu/workspace_emu.rs).
THEOREM EmulationKeepsToCode == EmuSpec => []EmulationInCode
<1>1. EmuInit => PassInvariant
  BY InvariantAtFirst DEF EmuInit
<1>2. PassInvariant /\ [EmuNext]_<<vars, emuVars>> => PassInvariant'
  <2>1. [EmuNext]_<<vars, emuVars>> => [Next]_vars
    BY DEF EmuNext, RunFunction, OutOfInsns, NotDecoded, Stopped, Skipped, Return, StepOverCall,
      Branch, Advance, Keep
  <2> QED  BY <2>1, PassInvariantKept
<1>3. EmuSpec => [](PassInvariant /\ EmuInvariant)
  BY <1>1, <1>2, InvariantInitially, InvariantKept, PTL DEF EmuSpec
<1>4. EmuInvariant => EmulationInCode
  BY DEF EmuInvariant, InCodeInvariant, Watched, EmulationInCode, Recordable
<1> QED  BY <1>3, <1>4, PTL
=============================================================================
