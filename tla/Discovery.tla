----------------------------- MODULE Discovery -----------------------------
(***************************************************************************)
(* The passes that look for functions: what the format of the file says    *)
(* (linker, constructors, procedure linkage table, the Go function table), *)
(* and what code looks like (prologues, pointers to code, cookies).  Each  *)
(* is an operator from a workspace to the workspaces it may leave; where   *)
(* the code iterates over a hash map, there are several.                   *)
(***************************************************************************)
EXTENDS Image, FiniteSets

CONSTANTS
  MaxInsns,   \* MAX_VALIDATE_INSNS
  ArgWindow,  \* the bytes before a call that are searched for its arguments
  PltSizes,   \* distances that can be the size of an entry of the table
  PltSize,    \* and the one assumed when no distance can
  MaxPltDist  \* the largest distance that counts in the late pass

ASSUME DiscoveryAssumption ==
  /\ MaxInsns \in Nat /\ ArgWindow \in Nat /\ MaxPltDist \in Nat
  /\ PltSizes \subseteq Nat \ {0} /\ PltSize \in Nat \ {0}

---------------------------------------------------------------------------
(* Functions that the file names.                                          *)

\* The symbols that an import of this name may be resolved to.
Exports(im, w, slot) ==
  {e \in DOMAIN w.names \ {slot} :
     Last(w.names[e]) = Last(im.imports[slot]) /\ e \notin DOMAIN w.thunk}

Resolve(w, slot, e) ==
  LET linked == AddXref(AddLoc(w, slot, PtrSize, "Pointer"), slot, e, "Pointer")
      callers == {x[1] : x \in {y \in w.xrefs : y[2] = slot}}
  IN  AddXrefs(linked, {<<c, e, "Code">> : c \in {d \in callers : TypeAt(w, d) = "Op"}})

ResolveAll(w, slots, pick) == FoldLeft(LAMBDA u, s : Resolve(u, s, pick[s]), w, slots)

Linker(im, w) ==
  LET slots == Select(OfType(w, "Import"), LAMBDA s : Exports(im, w, s) # {})
      picks == {p \in [Elements(slots) -> DOMAIN w.names] :
                  \A s \in Elements(slots) : p[s] \in Exports(im, w, s)}
  IN  {ResolveAll(w, slots, p) : p \in picks}

EntryPoints(im, w) == AddFns(w, im.entries, "sub")

\* A list of constructors ends at the mark; an array may contain it.
CtorsIn(im, s) ==
  LET n == s.size \div PtrSize
      entry(k) == im.word[s.va + (k - 1) * PtrSize]
      marks == {k \in 1 .. n : s.name = "ctors" /\ entry(k) = im.mark}
      last == IF marks = {} THEN n ELSE Minimum(marks) - 1
  IN  Select([k \in 1 .. last |-> entry(k)], LAMBDA v : v # 0 /\ IsValidPointer(im, v))

ElfCtors(im, w) ==
  AddFns(w, ForEach(Segments(im, {"ctors", "init"}), LAMBDA s : CtorsIn(im, s)), "ctor")

---------------------------------------------------------------------------
(* The procedure linkage table.                                            *)

\* The jumps met by decoding from the start, a byte at a time where nothing
\* decodes; at most four.
PltJumps(im, s) ==
  LET from[a \in 0 .. Top + 1] ==
        IF a >= End(s) THEN <<>>
        ELSE IF ~Decodes(im, a) THEN from[a + 1]
        ELSE (IF im.insn[a].kind = "jmp" THEN <<a>> ELSE <<>>) \o from[After(im, a)]
      all == from[s.va]
  IN  SubSeq(all, 1, IF Len(all) < 4 THEN Len(all) ELSE 4)

EntrySize(im, s) ==
  LET jumps == PltJumps(im, s)
      dist(k) == IF Len(jumps) > k THEN jumps[k + 1] - jumps[k] ELSE 0
  IN  IF dist(2) \in PltSizes THEN dist(2)
      ELSE IF dist(1) \in PltSizes THEN dist(1) ELSE PltSize

\* What the slot that an entry jumps through is called, or what it points to.
GotName(im, w, slot) ==
  IF TypeAt(w, slot) = "Import" THEN im.imports[slot]
  ELSE IF slot \in DOMAIN w.names THEN w.names[slot]
  ELSE IF Word(im, slot) \in DOMAIN w.names THEN w.names[Word(im, slot)] ELSE None

ResolvePltEntry(im, w, va) ==
  IF /\ Decodes(im, va) /\ im.insn[va].kind = "jmp" /\ im.insn[va].deref
     /\ InSegments(im, {"got"}, im.insn[va].to)
  THEN GotName(im, w, im.insn[va].to) ELSE None

AddPltEntry(im, w, va) ==
  LET name == ResolvePltEntry(im, w, va) IN
  IF name = None \/ IsFunction(w, va) THEN w
  ELSE [AddFn(w, va, "plt") EXCEPT !.thunk = Put(@, va, name)]

\* The first entry calls the resolver and is left out.
ElfPlt(im, w) ==
  LET entries(s) ==
        LET size == EntrySize(im, s)
        IN  [k \in 1 .. (s.size \div size) - 1 |-> s.va + k * size]
      all == ForEach(Segments(im, {"plt"}), entries)
  IN  IF Has(im, {"got"}) /\ im.arch \in X86
      THEN FoldLeft(LAMBDA u, va : AddPltEntry(im, u, va), w, all) ELSE w

\* Another function of the section, one distance after the last known one,
\* that starts like the second of them and is not inside one.
FillForward(im, w, s, funcs, dist) ==
  LET inside(va) == \E f \in funcs : va >= f /\ \E b \in BlocksOf(w, f) : Covers(b, va)
      last == CHOOSE f \in funcs : \A g \in funcs : g <= f
      looksLike(va) == Decodes(im, va)
        /\ im.insn[va].mnem = im.insn[Ascending(funcs)[2]].mnem
      gaps == {va \in last + 1 .. End(s) - 1 :
                 (va - last) % dist = 0 /\ ~inside(va) /\ looksLike(va)}
  IN  IF Decodes(im, Ascending(funcs)[2]) THEN AddFns(w, Ascending(gaps), "plt") ELSE w

(***************************************************************************)
(* analyze_plt_section.  The search backwards from the first function is   *)
(* left out: that function is the start of the section, made one above.    *)
(* Of distances that are equally common, the hash map decides.             *)
(***************************************************************************)
LateSection(im, w, s) ==
  LET started == AddFn(w, s.va, "plt")
      funcs == {f \in Elements(started.funcs) : Within(s, f)}
      sorted == Ascending(funcs)
      steps == {k \in 1 .. Len(sorted) - 1 : sorted[k + 1] - sorted[k] <= MaxPltDist}
      dist(k) == sorted[k + 1] - sorted[k]
      times(d) == Cardinality({k \in steps : dist(k) = d})
      dists == {dist(k) : k \in steps}
      common == {d \in dists : \A e \in dists : times(e) <= times(d)}
  IN  IF dists = {} \/ im.arch \notin X86 THEN {started}
      ELSE {FillForward(im, started, s, funcs, d) : d \in common}

ElfPltLate(im, w) ==
  FoldLeft(LAMBDA results, s : UNION {LateSection(im, u, s) : u \in results},
           {w}, Segments(im, {"plt"}))

---------------------------------------------------------------------------
(* main, from the argument of the call of __libc_start_main.               *)

ArgumentOf(im, call) ==
  LET sets(a) == Decodes(im, a) /\ im.insn[a].mnem = "arg" /\ im.insn[a].val # None
                   /\ IsValidPointer(im, im.insn[a].val)
      backs == {b \in 1 .. ArgWindow : b <= call /\ sets(call - b)}
  IN  IF backs = {} THEN None ELSE im.insn[call - Minimum(backs)].val

LibcStartMain(im, w) ==
  LET start == {va \in DOMAIN w.names : Last(w.names[va]) = "__libc_start_main"}
      found == {ArgumentOf(im, x[1]) : x \in {y \in w.xrefs : y[2] \in start}} \ {None}
      named(va) == IF ~IsFunction(w, va) THEN AddFn(w, va, "main")
                   ELSE IF va \in DOMAIN w.names THEN w ELSE SetName(w, va, <<"main">>)
  IN  IF found = {} THEN {w} ELSE {named(va) : va \in found}

---------------------------------------------------------------------------
(* The Go function table.  Since 1.18 its entries are offsets.             *)

GoOffsets(im) ==
  LET base == IF im.go.start # 0 THEN im.go.start ELSE Segments(im, {"text"})[1].va
  IN  [i \in DOMAIN im.go.entries |-> base + im.go.entries[i]]
GoAddresses(im) == im.go.entries
GoFunctions(im) == IF im.go.version = "1.18" THEN GoOffsets(im) ELSE GoAddresses(im)

GoReadable(im) ==
  /\ Has(im, {"pclntab"}) /\ Has(im, {"text"})
  /\ im.go.version \in {"1.2", "1.16", "1.18"} /\ im.go.entries # <<>> /\ im.go.fits

Golang(im, w) ==
  IF ~GoReadable(im) THEN w
  ELSE [AddFns(w, Select(GoFunctions(im), LAMBDA f : f # 0 /\ IsValidPointer(im, f)), "go")
          EXCEPT !.go = TRUE]

---------------------------------------------------------------------------
(* Functions that code and data give away.                                 *)

\* init_noreturn_apis.  Functions are asked for their names as well, but the
\* passes put something before each (sub_, plt_, thunk_), or call it main.
NoReturnApis(im, w) ==
  {va \in DOMAIN im.imports : TypeAt(w, va) = "Import" /\ im.imports[va] \in im.exits}
InitNoReturn(im, w) == [w EXCEPT !.noret = @ \cup NoReturnApis(im, w)]

\* The disassembler of the analyzer is that of x86.
FlowAll(im, w) ==
  LET started == InitNoReturn(im, w)
      others == Select(w.funcs, LAMBDA f : f \notin Elements(im.entries))
  IN  IF im.arch \in X86 THEN Flow(im, started, im.entries \o others) ELSE started

\* The addresses without a location that a scan in steps of unit stops at.
RoundUp(a, unit) == ((a + unit - 1) \div unit) * unit
FreeCells(w, from, to, unit) ==
  LET at[a \in Nat] == IF a + unit > to THEN <<>>
                       ELSE IF Located(w, a) THEN at[RoundUp(a + w.loc[a].size, unit)]
                       ELSE <<a>> \o at[a + unit]
  IN  at[RoundUp(from, unit)]

\* The operand of a call through an import, in bytes no location covers: the
\* opcode is before it.
CallSites(im, w) ==
  LET operands(s) == Select(FreeCells(w, s.va, End(s), PtrSize), LAMBDA a :
        /\ TypeAt(w, im.word[a]) = "Import"
        /\ a > 0 /\ Decodes(im, a - 1) /\ im.insn[a - 1].kind = "call" /\ im.insn[a - 1].deref
        /\ ~Located(w, a - 1))
  IN  ForEach(im.segs, LAMBDA s : [k \in DOMAIN operands(s) |-> operands(s)[k] - 1])

ImportCalls(im, w) ==
  LET sites == CallSites(im, w) IN
  IF im.arch = "i386" /\ sites # <<>> THEN Flow(im, w, sites) ELSE w

LooksLike(im, va, list) == Decodes(im, va) /\ list \in im.insn[va].sig
Never(a) == FALSE

\* scan_function_prologues, and code flow from what it found.
PrologueScan(im, w) ==
  LET isRet(a) == im.insn[a].kind = "ret"
      found == {va \in VAs : /\ InCode(im, va) /\ LooksLike(im, va, "scan")
                             /\ ~IsFunction(w, va) /\ ~Located(w, va)
                             /\ Len(Sweep(im, va, 8, isRet)) >= 3}
      new == Ascending(found)
  IN  IF im.arch \in X86 /\ found # {} THEN Flow(im, AddFns(w, new, "scan"), new) ELSE w

\* discover_function_entries: the same in what no location covers, with
\* other patterns, and returns are not where the test ends.
FuncEntries(im, w) ==
  LET fits(va) == /\ ~IsFunction(w, va) /\ LooksLike(im, va, "entries")
                  /\ Reads(im, va, Fetch) /\ Len(Sweep(im, va, 4, Never)) >= 3
      new == ForEach(Segments(im, {"text"}), LAMBDA s : Select(FreeCells(w, s.va, End(s), 1), fits))
  IN  IF im.arch \in X86 /\ new # <<>> THEN Flow(im, AddFns(w, new, "sub"), new) ELSE w

\* collect_candidates: what data points to, and what has a name.
Candidates(im, w) ==
  LET cells(s) == {s.va + k * PtrSize : k \in 0 .. (s.size \div PtrSize) - 1}
      data == UNION {cells(s) : s \in {t \in Elements(im.segs) : ~t.exec}}
  IN  {va \in {im.word[a] : a \in data} \cup DOMAIN w.names :
         va # 0 /\ IsExecutable(im, va) /\ ~IsFunction(w, va) /\ ~Located(w, va)}

\* validate_code_candidate: a return is met, and no mnemonic is two thirds
\* of four instructions or more.
ValidCandidate(im, w, va) ==
  LET stops(a) == ~Falls(im.insn[a]) \/ IsData(w, After(im, a))
      insns == Sweep(im, va, MaxInsns, stops)
      share(m) == Cardinality({k \in DOMAIN insns : im.insn[insns[k]].mnem = m})
  IN  /\ insns # <<>> /\ im.insn[Last(insns)].kind = "ret"
      /\ Len(insns) >= 4 => \A k \in DOMAIN insns : 100 * share(im.insn[insns[k]].mnem) < 67 * Len(insns)

Inside(w, va) == \E b \in Elements(w.blocks) : Covers(b, va)

(***************************************************************************)
(* discover_with_disassembly.  A second round is always the last: functions*)
(* alone change nothing that the judgement of another candidate reads.     *)
(***************************************************************************)
EmuCode(im, w) ==
  LET found == {va \in Candidates(im, w) : ~Inside(w, va) /\ ValidCandidate(im, w, va)}
  IN  IF im.arch \in X86 THEN AddFns(w, Ascending(found), "emu") ELSE w

\* The runtime's check compares its argument with the cookie.
CookieOf(im, check) == im.insn[check].val
CookieRefs(im, cookie) ==
  {va \in VAs : /\ IsExecutable(im, va) /\ Decodes(im, va)
                /\ im.insn[va].mnem = "mov" /\ im.insn[va].deref /\ im.insn[va].val = cookie}
Owners(w, va) == Select(w.blocks, LAMBDA b : Covers(b, va))
Checks == {<<"ntdll", "security_check_cookie">>, <<"ntdll", "security_check_cookie_64">>}

\* discover_msvc_functions: a block that reads or writes the cookie of the
\* first check found, and that is no function, is one.
MsvcFunc(im, w) ==
  LET checks == Select(w.funcs, LAMBDA f : Signature(im, f) \in Checks)
      refs == CookieRefs(im, CookieOf(im, checks[1]))
      starts == {Head(Owners(w, va)).va : va \in {r \in refs : Owners(w, r) # <<>>}}
  IN  IF checks = <<>> \/ im.arch \notin X86 THEN w
      ELSE AddFns(SetName(w, checks[1], <<"cookie", ToString(checks[1])>>), Ascending(starts), "sub")

---------------------------------------------------------------------------
\* scan_thunks, with the names that it gives; see NoReturn.tla for the rule.
FuncName(w, f) ==
  IF f \in DOMAIN w.names THEN w.names[f]
  ELSE IF w.by[f] = "scan" THEN <<"unknown">> ELSE <<w.by[f], ToString(f)>>

Forwarded(im, w, f) ==
  LET b == CHOOSE x \in BlocksOf(w, f) : TRUE
      last == LastOf(im, b)
      t == im.insn[last].to
  IN  IF Cardinality(BlocksOf(w, f)) # 1 \/ b.size = 0 \/ ~Branches(im.insn[last]) THEN None
      ELSE IF im.insn[last].deref /\ TypeAt(w, t) = "Import" THEN im.imports[t]
      ELSE IF t # f /\ IsFunction(w, t) THEN FuncName(w, t) ELSE None

MarkThunk(im, w, f) ==
  LET name == Forwarded(im, w, f)
      marked == [w EXCEPT !.thunk = Put(@, f, name)]
      renamed == w.by[f] \in {"sub", "flow", "scan"} /\ name # <<"unknown">>
  IN  IF f \in DOMAIN w.thunk \/ name = None THEN w
      ELSE IF renamed \/ name \in {im.imports[s] : s \in DOMAIN im.imports}
      THEN SetName(marked, f, <<"thunk", Last(name)>>) ELSE marked

ThunkScan(im, w) ==
  IF im.arch \in X86 THEN FoldLeft(LAMBDA u, f : MarkThunk(im, u, f), w, w.funcs) ELSE w

---------------------------------------------------------------------------
(* Functions that do not return.                                           *)

\* References count from the last bytes of a block, wherever in it they are.
BlockSuccessors(im, w, b) ==
  LET tail(a) == Covers(b, a) /\ a >= b.va + b.size - 15
      named == {x[2] : x \in {y \in w.xrefs : y[3] = "Code" /\ tail(y[1])}}
      next == IF Falls(im.insn[LastOf(im, b)]) THEN {b.va + b.size} ELSE {}
  IN  (named \cup next) \cap {c.va : c \in Elements(w.blocks)}

EndsForGood(im, w, b) ==
  LET last == LastOf(im, b)
      i == im.insn[last]
  IN  \/ last \in w.noret
      \/ Named(i) \cap w.noret # {}
      \/ ~Branches(i) /\ i.kind # "ret"

\* analyze_function_noret.
NeverComesBack(im, w, f) ==
  LET blocks == BlocksOf(w, f)
      leaves == {b \in blocks : BlockSuccessors(im, w, b) \cap {c.va : c \in blocks} = {}}
      exits == {x[2] : x \in {y \in w.xrefs : y[1] = f /\ y[3] = "Code"}} \cap w.noret
  IN  IF f \in DOMAIN w.thunk THEN \E t \in exits : TypeAt(w, t) = "Import"
      ELSE im.arch \in X86 /\ leaves # {} /\ \A b \in leaves : EndsForGood(im, w, b)

\* analyze_noreturn, by its result: NoReturn.tla has the passes over the
\* functions, and shows that they end with the least fixed point.
NoReturn(im, w) ==
  LET first == InitNoReturn(im, w)
      more(u) == [u EXCEPT !.noret = @ \cup {f \in Elements(u.funcs) : NeverComesBack(im, u, f)}]
      after[n \in 0 .. Len(w.funcs)] == IF n = 0 THEN first ELSE more(after[n - 1])
  IN  after[Len(w.funcs)]

=============================================================================
