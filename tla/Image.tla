------------------------------- MODULE Image -------------------------------
(***************************************************************************)
(* What the passes of analysis/ read and write.  An image is a loaded      *)
(* program: its segments, what decodes where, the pointer and the kind of  *)
(* character that each address holds.  A workspace is the part of          *)
(* VivWorkspace that passes tell each other through.  Bytes are read in    *)
(* the order of the image; a segment is mapped as one region.              *)
(***************************************************************************)
EXTENDS Integers, Sequences, SequencesExt

CONSTANTS
  Top,           \* the highest address
  PtrSize,       \* pointer_size()
  Fetch,         \* the 32 bytes that a candidate for code must have
  None

ASSUME ImageAssumption ==
  /\ Top \in Nat /\ PtrSize \in Nat \ {0} /\ Fetch \in Nat
  /\ None \notin 0 .. Top /\ None \notin {"Op", "Import", "Pointer"}  \* no address, no type

VAs == 0 .. Top
X86 == {"i386", "amd64"}
Put(f, k, v) == [x \in DOMAIN f \cup {k} |-> IF x = k THEN v ELSE f[x]]
Elements(q) == {q[i] : i \in DOMAIN q}
Sequence(q) == q \in Seq(Elements(q))
\* The elements of q that are in S, in their order.
Chosen(q, S) ==
  LET upTo[n \in 0 .. Len(q)] ==
        IF n = 0 THEN <<>> ELSE IF q[n] \in S THEN Append(upTo[n - 1], q[n]) ELSE upTo[n - 1]
  IN  upTo[Len(q)]
Select(q, Test(_)) == Chosen(q, {x \in Elements(q) : Test(x)})
\* What there is for each element of q, one after the other.
Joined(q, f) == FoldLeft(LAMBDA sofar, x : sofar \o f[x], <<>>, q)
ForEach(q, Part(_)) == Joined(q, [x \in Elements(q) |-> Part(x)])
\* The members of a set of addresses in ascending order.
Ascending(S) == Chosen([i \in 1 .. Top + 1 |-> i - 1], S)
Minimum(S) == CHOOSE x \in S : \A y \in S : x <= y

---------------------------------------------------------------------------
(* The image.  im.insn[va] is None where nothing decodes.                  *)

Plain == [size |-> 1, kind |-> "plain", to |-> None, deref |-> FALSE, mnem |-> "op",
          sig |-> {}, dst |-> None, src |-> None, val |-> None, table |-> None, pops |-> 0,
          index |-> None, range |-> None]  \* jmp [index + i*n], and what i may be

End(s) == s.va + s.size
Within(s, va) == va >= s.va /\ va < End(s)
Segments(im, Names) == Select(im.segs, LAMBDA s : s.name \in Names)
Has(im, Names) == Segments(im, Names) # <<>>
InSegments(im, Names, va) == \E s \in Elements(Segments(im, Names)) : Within(s, va)

\* read_memory(va, n) succeeds.
Reads(im, va, n) == \E s \in Elements(im.segs) : Within(s, va) /\ va + n <= End(s)
IsValidPointer(im, va) == Reads(im, va, 1)
IsExecutable(im, va) == \E s \in Elements(im.segs) : Within(s, va) /\ s.exec
Word(im, va) == IF Reads(im, va, PtrSize) THEN im.word[va] ELSE None
InCode(im, va) == InSegments(im, {"text"}, va)
\* The words in a row from base on that are in a set of addresses.
TableEntries(im, base, good) ==
  {Word(im, base + k * PtrSize) :
     k \in {n \in 0 .. Top : \A j \in 0 .. n : Word(im, base + j * PtrSize) \in good}}

Decodes(im, va) == va \in VAs /\ im.insn[va] # None
After(im, va) == va + im.insn[va].size
Falls(i) == i.kind \notin {"jmp", "ret"}
Branches(i) == i.kind \in {"jmp", "jcc", "call"}
Direct(i) == IF Branches(i) /\ ~i.deref THEN {i.to} \ {None} ELSE {}
Named(i) == IF Branches(i) THEN {i.to} \ {None} ELSE {}

\* The instructions one after the other from va, at most n of them, up to
\* one that stop holds of; empty where nothing decodes.
Sweep(im, va, n, stop(_)) ==
  LET from[k \in 0 .. n] == [a \in VAs |->
        IF k = 0 \/ ~Decodes(im, a) THEN <<>>
        ELSE IF stop(a) \/ After(im, a) > Top THEN <<a>>
        ELSE <<a>> \o from[k - 1][After(im, a)]]
  IN  from[n][va]

---------------------------------------------------------------------------
(* The workspace: locations and functions in the order of their creation,  *)
(* the functions that the cascade has not seen, and what is known of them. *)

TypeAt(w, va) == IF va \in DOMAIN w.loc THEN w.loc[va].type ELSE None
Located(w, va) == va \in DOMAIN w.loc
IsFunction(w, va) == va \in Elements(w.funcs)
OfType(w, type) == Select(w.order, LAMBDA va : w.loc[va].type = type)
NeverReturns(w, i) == i.kind = "call" /\ Named(i) \cap w.noret # {}
GoesOn(w, i) == Falls(i) /\ ~NeverReturns(w, i)
BlocksOf(w, f) == {b \in Elements(w.blocks) : b.func = f}
Covers(b, va) == va >= b.va /\ va < b.va + b.size

InsnsOf(im, b) == Sweep(im, b.va, Top, LAMBDA a : After(im, a) >= b.va + b.size)
LastOf(im, b) == Last(InsnsOf(im, b))

AddLoc(w, va, size, type) ==
  [w EXCEPT !.loc = Put(@, va, [size |-> size, type |-> type]),
            !.order = IF Located(w, va) THEN @ ELSE Append(@, va)]
AddFreeLoc(w, va, size, type) == IF Located(w, va) THEN w ELSE AddLoc(w, va, size, type)
AddFn(w, va, by) ==
  IF IsFunction(w, va) THEN w
  ELSE [w EXCEPT !.funcs = Append(@, va), !.pend = Append(@, va), !.by = Put(@, va, by)]
AddFns(w, vas, by) == FoldLeft(LAMBDA u, va : AddFn(u, va, by), w, vas)
SetName(w, va, name) == [w EXCEPT !.names = Put(@, va, name)]
AddXrefs(w, xrefs) == [w EXCEPT !.xrefs = @ \cup xrefs]
AddXref(w, from, to, type) == AddXrefs(w, {<<from, to, type>>})
AddBlock(w, va, size, f) ==
  LET new == [va |-> va, size |-> size, func |-> f] IN
  IF \E b \in Elements(w.blocks) : b.va = va
  THEN [w EXCEPT !.blocks = [i \in DOMAIN @ |-> IF @[i].va = va THEN new ELSE @[i]]]
  ELSE [w EXCEPT !.blocks = Append(@, new)]

\* What a loader leaves: imports are named Import locations.
Loaded(im) ==
  [loc |-> [va \in DOMAIN im.imports |-> [size |-> PtrSize, type |-> "Import"]],
   order |-> Ascending(DOMAIN im.imports),
   names |-> [va \in DOMAIN im.imports \cup DOMAIN im.symbols |->
                IF va \in DOMAIN im.imports THEN im.imports[va] ELSE im.symbols[va]],
   funcs |-> <<>>, pend |-> <<>>, blocks |-> <<>>, xrefs |-> {},
   by |-> [va \in {} |-> None], thunk |-> [va \in {} |-> None], conv |-> [va \in {} |-> None],
   argc |-> [va \in {} |-> 0], apis |-> {}, noret |-> {}, go |-> FALSE]

---------------------------------------------------------------------------
(***************************************************************************)
(* Code flow, by its result: CodeFlow.tla has the worklist, and shows that *)
(* a run that is not cut short ends with all that its entries reach.       *)
(***************************************************************************)

FlowFrom(im, w, va) ==
  LET next == IF GoesOn(w, im.insn[va]) THEN {After(im, va)} ELSE {}
  IN  {t \in Direct(im.insn[va]) \cup next : Decodes(im, t)}

\* try_resolve_jump_table: pointers to code up to the first word that is none.
JumpTable(im, base) ==
  LET good == IF Has(im, {"text"}) THEN {t \in VAs \ {0} : InCode(im, t)}
              ELSE {t \in VAs \ {0} : IsValidPointer(im, t)}
  IN  IF base = None \/ ~IsValidPointer(im, base) THEN {} ELSE TableEntries(im, base, good)

\* The table of a jump is read if no earlier run has left references from it.
Tabled(im, w, va) ==
  IF im.insn[va].kind = "jmp" /\ Named(im.insn[va]) = {} /\ \A x \in w.xrefs : x[1] # va
  THEN JumpTable(im, im.insn[va].index) ELSE {}

DataRefs(im, va) ==
  IF Branches(im.insn[va]) \/ im.insn[va].kind = "ret" THEN {}
  ELSE {t \in {im.insn[va].val} \ {None} : IsValidPointer(im, t)}

Onward(im, w, vas) ==
  vas \cup UNION {FlowFrom(im, w, va) \cup {t \in Tabled(im, w, va) : Decodes(im, t)} : va \in vas}

Reached(im, w, entries) ==
  LET step[n \in 0 .. Top + 1] ==
        IF n = 0 THEN {va \in entries : Decodes(im, va)} ELSE Onward(im, w, step[n - 1])
  IN  step[Top + 1]

\* Mutant: what was discovered is not added to the functions.
FlowForgets(im, w, entries) ==
  FoldLeft(LAMBDA u, va : AddLoc(u, va, im.insn[va].size, "Op"),
           w, Ascending(Reached(im, w, Elements(entries))))

\* A reference to data is stored unless it is to a start of a block, whenever
\* in the run that start is found (the code asks which are known by then).
Flow(im, w, entries) ==
  LET reached == Reached(im, w, Elements(entries))
      called == {t \in UNION {Direct(im.insn[va]) : va \in {a \in reached : im.insn[a].kind = "call"}} :
                   IsValidPointer(im, t)}
      marked == FoldLeft(LAMBDA u, va : AddLoc(u, va, im.insn[va].size, "Op"), w, Ascending(reached))
      code == UNION {{<<va, t, "Code">> : t \in Named(im.insn[va]) \cup Tabled(im, w, va)} : va \in reached}
      begun == Elements(entries) \cup {After(im, va) : va \in {a \in reached : im.insn[a].kind = "jcc"}}
                 \cup UNION {Direct(im.insn[va]) \cup Tabled(im, w, va) : va \in reached}
      data == UNION {{<<va, t, "Data">> : t \in DataRefs(im, va) \ begun} : va \in reached}
  IN  AddFns(AddXrefs(marked, code \cup data), Ascending(called \ Elements(entries)), "flow")

---------------------------------------------------------------------------
(* The cascade on one new function, in the order of registration.  The     *)
(* blocks are those of Blocks.tla: a walk from a start ends before data,   *)
(* after a branch, after what refers to something or does not return, and  *)
(* before what something refers to.                                        *)

IsData(w, va) == Located(w, va) /\ TypeAt(w, va) # "Op"
Successors(im, w, va) ==
  IF im.insn[va].kind = "call" THEN {}
  ELSE Direct(im.insn[va]) \cup ({x[2] : x \in {y \in w.xrefs : y[1] = va}} \ {After(im, va)})
EndsBlock(im, w, va) ==
  \/ ~GoesOn(w, im.insn[va]) \/ Successors(im, w, va) # {}
  \/ \E x \in w.xrefs : x[2] = After(im, va)

\* The last instruction of the block at s, or None when it has none.
LastInsn(im, w, s) ==
  LET from[a \in 0 .. Top + 1] ==
        IF ~Decodes(im, a) THEN None
        ELSE IF EndsBlock(im, w, a) \/ IsData(w, After(im, a)) THEN a
        ELSE from[After(im, a)]
  IN  IF s > Top \/ IsData(w, s) THEN None ELSE from[s]

NextStarts(im, w, s) ==
  LET last == LastInsn(im, w, s) IN
  IF last = None THEN {}
  ELSE {t \in Successors(im, w, last) : IsValidPointer(im, t)}
         \cup IF GoesOn(w, im.insn[last]) THEN {After(im, last)} ELSE {}

Starts(im, w, f) ==
  LET more(starts) == starts \cup UNION {NextStarts(im, w, s) : s \in starts}
      step[n \in 0 .. Top + 1] == IF n = 0 THEN {f} ELSE more(step[n - 1])
  IN  {s \in step[Top + 1] : LastInsn(im, w, s) # None}

\* analyze_function, then the cross-references of calls and jumps.
BasicBlocks(im, w, f) ==
  LET size(s) == After(im, LastInsn(im, w, s)) - s
      stored == FoldLeft(LAMBDA u, s : AddBlock(u, s, size(s), f), w, Ascending(Starts(im, w, f)))
      leaving == {va \in UNION {Elements(InsnsOf(im, b)) : b \in BlocksOf(stored, f)} :
                    im.insn[va].kind \in {"call", "jmp"}}
      named(va) == {t \in Named(im.insn[va]) : IsValidPointer(im, t)}
  IN  IF im.arch \in X86
      THEN AddXrefs(stored, UNION {{<<va, t, "Code">> : t \in named(va)} : va \in leaving})
      ELSE w

\* analyze_import_thunk: the first instruction branches through an import.
ImportThunk(im, w, f) ==
  IF /\ im.arch \in X86 /\ Decodes(im, f) /\ Branches(im.insn[f]) /\ im.insn[f].deref
     /\ TypeAt(w, im.insn[f].to) = "Import"
  THEN LET name == im.imports[im.insn[f].to]
       IN  SetName([w EXCEPT !.thunk = Put(@, f, name)], f, <<"thunk", Last(name)>>)
  ELSE w

\* lookup_api: the data base has the name in one of the spellings tried.
KnownApi(im, name) == name \in im.apis

\* Mutant: the name of the function comes before the import it stands for.
ImpApiByName(im, w, f) ==
  LET name == IF f \in DOMAIN w.names THEN w.names[f]
              ELSE IF f \in DOMAIN w.thunk THEN w.thunk[f] ELSE None
  IN  IF KnownApi(im, name) THEN [w EXCEPT !.apis = @ \cup {f}] ELSE w

\* The import that a thunk stands for is looked up, else the name.
ImpApi(im, w, f) ==
  LET name == IF f \in DOMAIN w.thunk THEN w.thunk[f]
              ELSE IF f \in DOMAIN w.names THEN w.names[f] ELSE None
  IN  IF KnownApi(im, name) THEN [w EXCEPT !.apis = @ \cup {f}] ELSE w

\* match_vamp_signature: the name of the longest signature the bytes match.
Signature(im, f) == IF f \in DOMAIN im.vamp THEN im.vamp[f] ELSE None

\* analyze_msvc_function: a function of the runtime gets its name.
MsvcVamp(im, w, f) ==
  LET name == Signature(im, f) IN
  IF im.arch \in X86 /\ name # None
  THEN SetName([w EXCEPT !.thunk = Put(@, f, name)], f, <<Last(name), ToString(f)>>)
  ELSE w

Cascade1(im, w, f) ==
  MsvcVamp(im, ImpApi(im, ImportThunk(im, BasicBlocks(im, w, f), f), f), f)

=============================================================================
