----------------------------- MODULE DataPasses -----------------------------
(***************************************************************************)
(* The passes that look at data: pointers, tables of pointers, relocation  *)
(* chunks, strings, virtual function tables, jump tables; and those that   *)
(* annotate functions with a convention or a pad.                          *)
(***************************************************************************)
EXTENDS Discovery

CONSTANTS
  Probe,      \* the characters looked at to guess what a pointer points to
  Whole,      \* and those read when the guess is text
  MinString,  \* MIN_STRING_LENGTH
  TableMin    \* TABLE_MIN_LEN, and the entries of a virtual function table

ASSUME DataPassesAssumption ==
  Probe \in Nat /\ Whole \in Nat /\ MinString \in Nat \ {0} /\ TableMin \in Nat \ {0}

Points(im, a) == Word(im, a) # None /\ IsValidPointer(im, Word(im, a))
MarkPointer(w, va) == AddFreeLoc(w, va, PtrSize, "Pointer")
BlockSeq(w, f) == Select(w.blocks, LAMBDA b : b.func = f)

\* The aligned words without a location that hold an address.
FreePointers(im, w) ==
  ForEach(im.segs, LAMBDA s : Select(FreeCells(w, s.va, End(s), PtrSize),
                                     LAMBDA a : Points(im, a)))

---------------------------------------------------------------------------
(* Relocations.                                                            *)

\* The chunks of a relocation section, up to the first of no proper size.
Chunks(im, s) ==
  LET from[a \in s.va .. End(s)] ==
        IF a + 8 > End(s) \/ im.chunk[a] < 8 \/ im.chunk[a] > End(s) - a THEN <<>>
        ELSE <<a>> \o from[a + im.chunk[a]]
  IN  from[s.va]

AddChunk(im, w, a) ==
  LET entries == [k \in 1 .. (im.chunk[a] - 8) \div 2 |-> a + 6 + 2 * k]
  IN  FoldLeft(LAMBDA u, e : AddFreeLoc(u, e, 2, "Number"),
               SetName(w, a, <<"reloc_chunk", ToString(a)>>), entries)

Pe(im, w) ==
  FoldLeft(LAMBDA u, a : AddChunk(im, u, a),
           w, ForEach(Segments(im, {"reloc"}), LAMBDA s : Chunks(im, s)))

\* What a known pointer points to is taken for a pointer, code or not.
Relocate(im, w, p) ==
  LET t == Word(im, p)
  IN  IF ~Points(im, p) \/ Located(w, t) THEN w ELSE AddXref(MarkPointer(w, t), p, t, "Pointer")
Relocations(im, w) == FoldLeft(LAMBDA u, p : Relocate(im, u, p), w, OfType(w, "Pointer"))

---------------------------------------------------------------------------
(* Tables of pointers.                                                     *)

\* The entry at i is one of n in a row.
InRow(ps, i, n) ==
  \E lo \in 1 .. i : /\ lo + n - 1 \in i .. Len(ps)
                     /\ \A j \in lo + 1 .. lo + n - 1 : ps[j] = ps[j - 1] + PtrSize

\* Mutant: a table has to be longer than the shortest.
RunsLonger(ps) ==
  LET long == Select([i \in DOMAIN ps |-> i], LAMBDA i : InRow(ps, i, TableMin + 1))
  IN  [k \in DOMAIN long |-> ps[long[k]]]

\* The entries of the runs of consecutive words, the short ones dropped.
Runs(ps) ==
  LET long == Select([i \in DOMAIN ps |-> i], LAMBDA i : InRow(ps, i, TableMin))
  IN  [k \in DOMAIN long |-> ps[long[k]]]

\* The test of a target is that three instructions decode in a row.
ValidCode(im, va) == Reads(im, va, Fetch) /\ Len(Sweep(im, va, 3, Never)) = 3

AddTableEntry(im, w, p) ==
  LET t == Word(im, p)
      marked == AddXref(MarkPointer(w, p), p, t, "Data")
  IN  IF InCode(im, t) /\ ~Located(marked, t) /\ ValidCode(im, t)
      THEN AddFn(marked, t, "sub") ELSE marked

PointerTables(im, w) ==
  LET entries == Runs(FreePointers(im, w))
  IN  IF im.arch \in X86 THEN FoldLeft(LAMBDA u, p : AddTableEntry(im, u, p), w, entries) ELSE w

\* How many functions in a row the words from va on point to.
FunctionRun(im, w, va) ==
  LET more[a \in Nat] ==
        IF a <= Top /\ (Located(w, a) => TypeAt(w, a) = "Pointer") /\ IsFunction(w, Word(im, a))
        THEN 1 + more[a + PtrSize] ELSE 0
  IN  1 + more[va + PtrSize]

(***************************************************************************)
(* analyze_vftables.  The scan skips as many pointers as the table has     *)
(* entries, though entries that are not pointers yet are among them: the   *)
(* pointers of the next table may be skipped as well.                      *)
(***************************************************************************)
VfTables(im, w) ==
  LET ps == Ascending(Elements(OfType(w, "Pointer")))
      from[i \in Nat \ {0}] ==
        IF i > Len(ps) THEN <<>>
        ELSE IF ~IsFunction(w, Word(im, ps[i])) THEN from[i + 1]
        ELSE <<<<ps[i], FunctionRun(im, w, ps[i])>>>> \o from[i + FunctionRun(im, w, ps[i])]
      tables == Select(from[1], LAMBDA t : t[2] >= TableMin)
  IN  FoldLeft(LAMBDA u, t : SetName(AddLoc(u, t[1], t[2] * PtrSize, "VfTable"), t[1],
                                     <<"vtable", ToString(t[1])>>), w, tables)

---------------------------------------------------------------------------
(* What single instructions give away.                                     *)

\* What the destination of a string store was last set to in its block.
Stored(im, b) ==
  LET q == InsnsOf(im, b)
      sets(k) == /\ im.insn[q[k]].mnem \in {"lea", "mov"} /\ im.insn[q[k]].dst = "di"
                 /\ ~im.insn[q[k]].deref /\ im.insn[q[k]].val # None
                 /\ IsValidPointer(im, im.insn[q[k]].val)
      before(n) == {k \in 1 .. n : sets(k)}
      latest(S) == CHOOSE k \in S : \A j \in S : j <= k
      uses == Select([k \in DOMAIN q |-> k], LAMBDA k : im.insn[q[k]].mnem = "stos" /\ before(k) # {})
  IN  [i \in DOMAIN uses |-> im.insn[q[latest(before(uses[i]))]].val]

InstrHook(im, w) ==
  LET blocks == ForEach(w.funcs, LAMBDA f : BlockSeq(w, f))
      stored == ForEach(blocks, LAMBDA b : Stored(im, b))
  IN  IF im.arch \in X86 THEN FoldLeft(LAMBDA u, t : MarkPointer(u, t), w, stored) ELSE w

\* A function that returns its return address in a register.
MarkThunkReg(im, w, f) ==
  LET name == <<"thunk_reg", ToString(f)>>
  IN  IF LooksLike(im, f, "reg") THEN SetName([w EXCEPT !.thunk = Put(@, f, name)], f, name) ELSE w
ThunkReg(im, w) ==
  IF im.arch = "i386" THEN FoldLeft(LAMBDA u, f : MarkThunkReg(im, u, f), w, w.funcs) ELSE w

\* Every pad of five to sixteen equal bytes before a function.
PadBefore(im, f) ==
  LET pads(n) == \A k \in 1 .. n : /\ f - k > 0 \/ k = 1
                                   /\ f - k >= 0 /\ Reads(im, f - k, 1)
                                   /\ im.char[f - k] \in {"nop", "int3"}
                                   /\ im.char[f - k] = im.char[f - 1]
  IN  CHOOSE n \in 0 .. 16 : pads(n) /\ (n < 16 => ~pads(n + 1))

MarkPad(im, w, f) ==
  LET n == PadBefore(im, f) IN IF n >= 5 THEN AddFreeLoc(w, f - n, n, "Pad") ELSE w
Hotpatch(im, w) == FoldLeft(LAMBDA u, f : MarkPad(im, u, f), w, w.funcs)

---------------------------------------------------------------------------
(* Calling conventions.                                                    *)

PutNew(f, k, v) == IF k \in DOMAIN f THEN f ELSE Put(f, k, v)
Annotate(w, convention) ==
  [w EXCEPT !.conv = FoldLeft(LAMBDA c, f : PutNew(c, f, convention), @, w.funcs)]

Arm(im, w) == IF im.arch \in {"armv7", "thumb"} THEN Annotate(w, "aapcs") ELSE w
Aarch64(im, w) == IF im.arch = "a64" THEN Annotate(w, "aapcs64") ELSE w

\* What the last return of a function that removes anything removes.
Removed(im, w, f) ==
  LET rets(b) == Select(InsnsOf(im, b), LAMBDA a : im.insn[a].kind = "ret" /\ im.insn[a].pops > 0)
      all == ForEach(BlockSeq(w, f), rets)
  IN  IF all = <<>> THEN 0 ELSE im.insn[Last(all)].pops

ConventionOf(im, w, f) ==
  CASE im.arch = "amd64" -> IF Has(im, {"header"}) THEN "ms64call" ELSE "sysv64"
    [] im.arch = "i386" -> IF Removed(im, w, f) > 0 THEN "stdcall" ELSE "cdecl"
    [] OTHER -> "unknown"

SetConvention(w, f, convention, argc) ==
  [w EXCEPT !.conv = PutNew(@, f, convention), !.argc = IF argc > 0 THEN PutNew(@, f, argc) ELSE @]

Argc(im, w, f) == IF im.arch = "i386" THEN Removed(im, w, f) \div PtrSize ELSE 0
Calling(im, w) ==
  FoldLeft(LAMBDA u, f : SetConvention(u, f, ConventionOf(im, w, f), Argc(im, w, f)), w, w.funcs)

---------------------------------------------------------------------------
(* Jump tables, by looking backwards from a jump through a register.       *)

\* get_codeblock: the block that starts at va.
CodeblockAt(w, va) == Select(w.blocks, LAMBDA b : b.va = va)

(***************************************************************************)
(* find_op_backward.  The block is looked up by the address the search     *)
(* starts from, so the search starts where the block does and ends at once.*)
(***************************************************************************)
FindBack(im, w, start, mnem, reg) ==
  LET low == Head(CodeblockAt(w, start)).va
      before(a) == {p \in low .. a - 1 : a - p <= 15 /\ Decodes(im, p) /\ After(im, p) = a}
      nearest(a) == CHOOSE p \in before(a) : \A q \in before(a) : q <= p
      back[n \in 0 .. 32, a \in VAs] ==
        IF n = 0 \/ a <= low \/ before(a) = {} THEN None
        ELSE IF im.insn[nearest(a)].mnem = mnem /\ im.insn[nearest(a)].dst = reg THEN nearest(a)
        ELSE back[n - 1, nearest(a)]
  IN  IF CodeblockAt(w, start) = <<>> THEN None ELSE back[32, start]

\* The image base is assigned to the register between the start of the block
\* that starts at the end, and that end: never.
BaseAssigned(im, w, to, reg) ==
  \E b \in Elements(CodeblockAt(w, to)) : \E a \in b.va .. to - 1 :
     Decodes(im, a) /\ im.insn[a].dst = reg /\ im.insn[a].val = im.base

\* get_switch_base: `mov r, [base + i*4 + table]; add r, imagebase; jmp r`.
SwitchTable(im, w, jmp) ==
  LET reg == im.insn[jmp].dst
      add == FindBack(im, w, jmp, "add", reg)
      direct == im.insn[add].val = im.base
      mov == IF direct THEN FindBack(im, w, add, "mov", reg)
             ELSE LET other == FindBack(im, w, add, "mov", im.insn[add].src)
                  IN  IF other # None THEN other ELSE FindBack(im, w, add, "mov", reg)
      table == im.insn[mov].table
  IN  IF add = None THEN None
      ELSE IF ~direct /\ ~BaseAssigned(im, w, add, reg) THEN None
      ELSE IF mov = None THEN None
      ELSE IF table = None THEN None
      ELSE IF IsValidPointer(im, table + im.base) THEN table + im.base ELSE None

\* read_rva_table: up to an entry that is zero or not in code.
Cases(im, table) ==
  LET rvas == IF table \in DOMAIN im.tables THEN im.tables[table] ELSE <<>>
      bad == {k \in DOMAIN rvas : rvas[k] = 0 \/ ~InCode(im, rvas[k] + im.base)}
      n == IF bad = {} THEN Len(rvas) ELSE Minimum(bad) - 1
  IN  [k \in 1 .. n |-> rvas[k] + im.base]

Wire(w, f, table, t) ==
  LET linked == AddXref(w, table, t, "Code")
  IN  IF IsFunction(w, t) \/ Located(w, t) THEN linked
      ELSE SetName(AddBlock(linked, t, 0, f), t, <<"switch_case", ToString(f), ToString(t)>>)

SwitchCase(im, w) ==
  LET jumps(b) == Select(InsnsOf(im, b), LAMBDA a :
                    im.insn[a].kind = "jmp" /\ im.insn[a].to = None /\ im.insn[a].dst # None)
      ofFunc(f) == ForEach(BlockSeq(w, f), jumps)
      switches == ForEach(w.funcs, LAMBDA f : [k \in DOMAIN ofFunc(f) |->
                                                 <<f, SwitchTable(im, w, ofFunc(f)[k])>>])
      cases(s) == [k \in DOMAIN Cases(im, s[2]) |-> <<s[1], s[2], Cases(im, s[2])[k]>>]
      all == ForEach(Select(switches, LAMBDA s : s[2] # None), cases)
  IN  IF im.arch \in X86 THEN FoldLeft(LAMBDA u, x : Wire(u, x[1], x[2], x[3]), w, all) ELSE w

\* find_indirect_jumps: also a jump through an import is one.
IndirectJumps(im, w, f) ==
  ForEach(BlockSeq(w, f), LAMBDA b : Select(InsnsOf(im, b), LAMBDA a :
    im.insn[a].kind = "jmp" /\ \A t \in Direct(im.insn[a]) : ~IsValidPointer(im, t)))

(***************************************************************************)
(* The targets of a jump through a table: those of the index values that   *)
(* the paths to it allow (Symbolik.tla has how they are found), else the   *)
(* entries up to the first that is not in code.  Only i386 has tables: on  *)
(* amd64 the base is sought in the value of a lea, which has none.         *)
(***************************************************************************)
SymTargets(im, jmp) ==
  LET i == im.insn[jmp]
      code == {t \in VAs : InCode(im, t)}
  IN  IF im.arch # "i386" \/ i.index = None THEN {}
      ELSE IF ~IsValidPointer(im, i.index) THEN {}
      ELSE IF i.range = None THEN TableEntries(im, i.index, code)
      ELSE {Word(im, i.index + n * PtrSize) : n \in i.range} \cap code

SymWire(w, f, jmp, t) ==
  LET linked == AddXref(w, jmp, t, "Code")
  IN  IF IsFunction(w, t) \/ Located(w, t) THEN linked
      ELSE SetName(AddBlock(linked, t, 0, f), t, <<"case", ToString(f), ToString(t)>>)

SymJump(im, w, f, jmp) == FoldLeft(LAMBDA u, t : SymWire(u, f, jmp, t), w, Ascending(SymTargets(im, jmp)))
SymFunction(im, w, f) ==
  FoldLeft(LAMBDA u, jmp : SymJump(im, u, f, jmp), w, IndirectJumps(im, w, f))
SymSwitchCase(im, w) ==
  IF im.arch \in X86 THEN FoldLeft(LAMBDA u, f : SymFunction(im, u, f), w, w.funcs) ELSE w

---------------------------------------------------------------------------
(* Text.  The size that is found, or 0; it ends at a nul or with the data. *)

AsciiSize(im, va, end) ==
  LET stops == {a \in va .. end - 1 : im.char[a] # "text"}
      stop == IF stops = {} THEN end ELSE Minimum(stops)
  IN  IF stop - va < MinString \/ (stop < end /\ im.char[stop] # "nul") THEN 0
      ELSE stop - va + IF stop < end THEN 1 ELSE 0

\* A unit whose high byte is not nul is always taken.
WideSize(im, va, end) ==
  LET units == (end - va) \div 2
      low(k) == im.char[va + 2 * k]
      high(k) == im.char[va + 2 * k + 1]
      stops == {k \in 0 .. units - 1 : low(k) = "nul" /\ high(k) = "nul"}
      n == IF stops = {} THEN units ELSE Minimum(stops)
  IN  IF n < MinString \/ \E k \in 0 .. n - 1 : high(k) = "nul" /\ low(k) # "text" THEN 0
      ELSE 2 * n + IF n < units THEN 2 ELSE 0

LooksWide(im, va, end) == va + 1 < end /\ im.char[va] = "text" /\ im.char[va + 1] = "nul"

\* The text at va in a section, as the strings pass takes it.
TextIn(im, s, va) ==
  LET wide == IF LooksWide(im, va, End(s)) /\ LooksWide(im, va + 2, End(s))
              THEN WideSize(im, va, End(s)) ELSE 0
      ascii == AsciiSize(im, va, End(s))
  IN  IF wide > 0 THEN <<va, wide, "Unicode">>
      ELSE IF ascii > 0 THEN <<va, ascii, "String">> ELSE None

(***************************************************************************)
(* The strings of a section.  A location is stepped over one byte at a     *)
(* time: the search goes on inside it, and finds the rest of a string that *)
(* is already known from its second character on.                          *)
(***************************************************************************)
TextsOf(im, w, s) ==
  LET from[a \in s.va .. End(s)] ==
        IF a = End(s) THEN <<>>
        ELSE IF Located(w, a) \/ TextIn(im, s, a) = None THEN from[a + 1]
        ELSE <<TextIn(im, s, a)>> \o from[a + TextIn(im, s, a)[2]]
  IN  from[s.va]

AddText(w, t) ==
  LET added == AddLoc(w, t[1], t[2], t[3])
  IN  IF t[3] = "Unicode" THEN SetName(added, t[1], <<"text", ToString(t[1])>>) ELSE added

SectionStrings(im, w, s) == FoldLeft(LAMBDA u, t : AddText(u, t), w, TextsOf(im, w, s))
Strings(im, w) ==
  FoldLeft(LAMBDA u, s : SectionStrings(im, u, s), w, Select(im.segs, LAMBDA s : s.name # "text"))

---------------------------------------------------------------------------
(* Pointers that nothing explains yet.                                     *)

Guess(im, w, va) ==
  IF Located(w, va) THEN None
  ELSE IF /\ Reads(im, va, 2 * Probe) /\ LooksWide(im, va, va + 2 * Probe)
          /\ WideSize(im, va, va + 2 * Probe) > 0 THEN "Unicode"
  ELSE IF Reads(im, va, Probe) /\ AsciiSize(im, va, va + Probe) > 0 THEN "String"
  ELSE IF im.arch \in X86 /\ InCode(im, va) /\ Reads(im, va, Fetch \div 2)
          /\ LooksLike(im, va, "pointer") THEN "Op"
  ELSE None

\* Text near the end of its region cannot be read whole, and is left.
Follow(im, w, va) ==
  LET guess == Guess(im, w, va)
      span == IF guess = "Unicode" THEN 2 * Whole ELSE Whole
      size == IF ~Reads(im, va, span) THEN 0
              ELSE IF guess = "Unicode" THEN WideSize(im, va, va + span)
              ELSE AsciiSize(im, va, va + span)
  IN  IF guess = "Op" THEN AddFn(w, va, "sub")
      ELSE IF guess = None THEN w
      ELSE IF size = 0 THEN w
      ELSE SetName(AddLoc(w, va, size, guess), va, <<"text", ToString(va)>>)

\* A pointer that already points somewhere is only named, if it is not yet.
FollowKnown(im, acc, p) ==
  LET t == Word(im, p) IN
  IF ~Points(im, p) THEN acc
  ELSE IF ~Located(acc.w, t) THEN [w |-> Follow(im, acc.w, t), done |-> Put(acc.done, p, t)]
  ELSE IF p \in DOMAIN acc.w.names THEN acc ELSE [acc EXCEPT !.done = Put(@, p, t)]

FollowFree(im, acc, p) ==
  LET t == Word(im, p)
      marked == IF Located(acc.w, p) THEN acc.w
                ELSE AddXref(MarkPointer(acc.w, p), p, t, "Pointer")
  IN  [w |-> Follow(im, marked, t), done |-> Put(acc.done, p, t)]

\* Mutant: a pointer to a pointer does not get its name from it.
NamesOneStep(w, done, p) ==
  IF p \in DOMAIN w.names \/ TypeAt(w, p) # "Pointer" \/ done[p] \in DOMAIN done THEN {}
  ELSE {<<"ptr">> \o w.names[t] \o <<ToString(p)>> : t \in {done[p]} \cap DOMAIN w.names}

\* The names of the pointers that are noted in done, from the names of those
\* that they point to (below): a set of one, or of none.
NamesBy(w, done, below) ==
  [q \in DOMAIN done |->
     LET t == done[q]
         target == IF t \in DOMAIN done THEN below[t]
                   ELSE {w.names[a] : a \in {t} \cap DOMAIN w.names}
     IN  IF q \in DOMAIN w.names \/ TypeAt(w, q) # "Pointer" THEN {}
         ELSE {<<"ptr">> \o x \o <<ToString(q)>> : x \in target}]

\* The name of a pointer is made of what it points to, through pointers that
\* are named here up to something that has a name.
NameFor(w, done, p) ==
  LET name[n \in 0 .. Cardinality(DOMAIN done)] ==
        IF n = 0 THEN [q \in DOMAIN done |-> {}] ELSE NamesBy(w, done, name[n - 1])
  IN  name[Cardinality(DOMAIN done)][p]

Pointers(im, w) ==
  LET known == FoldLeft(LAMBDA acc, p : FollowKnown(im, acc, p),
                        [w |-> w, done |-> [p \in {} |-> 0]], OfType(w, "Pointer"))
      all == FoldLeft(LAMBDA acc, p : FollowFree(im, acc, p), known, FreePointers(im, known.w))
      named == {p \in DOMAIN all.done : NameFor(all.w, all.done, p) # {}}
  IN  [all.w EXCEPT !.names = [va \in DOMAIN @ \cup named |->
         IF va \in named THEN CHOOSE x \in NameFor(all.w, all.done, va) : TRUE ELSE @[va]]]

=============================================================================
