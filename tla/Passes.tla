------------------------------- MODULE Passes -------------------------------
(***************************************************************************)
(* The passes of create_default_orchestrator, one after the other over one *)
(* workspace.  A function that a pass finds goes through the cascade before*)
(* the next pass runs (see Orchestrator.tla for how).  What takes steps of *)
(* its own elsewhere is here by its result: code flow, blocks, no-return   *)
(* analysis, and the symbolic reading of switches.                         *)
(***************************************************************************)
EXTENDS DataPasses

CONSTANT Images  \* the programs that may be analysed

\* The segments of a program are in its addresses, and so are its imports; an
\* instruction takes a byte at least; what it names, and what a cell holds, is
\* a number.
ASSUME PassesAssumption ==
  \A i \in Images :
    /\ Sequence(i.segs) /\ Sequence(i.entries) /\ Sequence(i.go.entries)
    /\ \A s \in Elements(i.segs) : s.va \in VAs /\ s.size \in Nat /\ End(s) <= Top + 1
    /\ DOMAIN i.imports \subseteq VAs /\ i.base \in Nat
    /\ \A t \in DOMAIN i.tables : i.tables[t] \in Seq(Nat)
    /\ \A va \in VAs : i.chunk[va] \in Nat /\ i.word[va] \in Nat
    /\ \A va \in VAs : i.insn[va] # None =>
         /\ i.insn[va].size \in Nat \ {0}
         /\ {i.insn[va].to, i.insn[va].val} \ {None} \subseteq Nat

VARIABLES
  im,    \* the program
  w,     \* the workspace
  next   \* the place in the pipeline

vars == <<im, w, next>>

Pipeline ==
  <<"linker", "entrypoints", "pe", "elf", "elfplt", "libc_start_main", "codeflow",
    "relocations", "pointertables", "importcalls", "golang", "instrhook", "thunk_reg",
    "arm", "aarch64", "prologuescan", "emucode", "funcentries", "msvcfunc", "thunks",
    "noret", "calling", "switchcase", "symswitchcase", "vftables", "hotpatch", "pointers",
    "strings", "elfplt_late">>

Init == im \in Images /\ w = Loaded(im) /\ next = 1

\* A module that should not run is passed over.
Module(name, should_run, results) ==
  /\ next <= Len(Pipeline) /\ Pipeline[next] = name /\ w.pend = <<>>
  /\ w' \in IF should_run THEN results ELSE {w}
  /\ next' = next + 1 /\ UNCHANGED im

IsPe == Has(im, {"header"})
IsX86 == im.arch \in X86
IsI386 == im.arch = "i386"
HasLibcStart == \E va \in DOMAIN w.names : Last(w.names[va]) = "__libc_start_main"

LinkerAnalysis == Module("linker", TRUE, Linker(im, w))
EntryPointAnalysis == Module("entrypoints", TRUE, {EntryPoints(im, w)})
PeAnalysis == Module("pe", IsPe, {Pe(im, w)})
ElfCtorsAnalysis == Module("elf", Has(im, {"ctors", "init"}), {ElfCtors(im, w)})
ElfPltAnalysis == Module("elfplt", Has(im, {"plt"}), {ElfPlt(im, w)})
LibcStartMainAnalysis == Module("libc_start_main", HasLibcStart, LibcStartMain(im, w))
CodeFlowAnalysis == Module("codeflow", TRUE, {FlowAll(im, w)})
RelocationAnalysis == Module("relocations", TRUE, {Relocations(im, w)})
PointerTableAnalysis == Module("pointertables", TRUE, {PointerTables(im, w)})
ImportCallsAnalysis == Module("importcalls", IsI386, {ImportCalls(im, w)})
GolangAnalysis == Module("golang", Has(im, {"pclntab"}), {Golang(im, w)})
InstrHookAnalysis == Module("instrhook", IsX86, {InstrHook(im, w)})
ThunkRegAnalysis == Module("thunk_reg", IsI386, {ThunkReg(im, w)})
ArmAnalysis == Module("arm", im.arch \in {"armv7", "thumb"}, {Arm(im, w)})
Aarch64Analysis == Module("aarch64", im.arch = "a64", {Aarch64(im, w)})
PrologueScanAnalysis == Module("prologuescan", ~w.go, {PrologueScan(im, w)})
EmuCodeAnalysis == Module("emucode", TRUE, {EmuCode(im, w)})
FuncEntriesAnalysis == Module("funcentries", ~w.go, {FuncEntries(im, w)})
MsvcFuncAnalysis == Module("msvcfunc", IsX86, {MsvcFunc(im, w)})
ThunkScanAnalysis == Module("thunks", TRUE, {ThunkScan(im, w)})
NoReturnAnalysis == Module("noret", TRUE, {NoReturn(im, w)})
CallingConventionAnalysis == Module("calling", TRUE, {Calling(im, w)})
SwitchCaseAnalysis == Module("switchcase", IsX86, {SwitchCase(im, w)})
SymSwitchCaseAnalysis == Module("symswitchcase", TRUE, {SymSwitchCase(im, w)})
VfTableAnalysis == Module("vftables", IsPe, {VfTables(im, w)})
HotpatchAnalysis == Module("hotpatch", IsPe, {Hotpatch(im, w)})
PointerAnalysis == Module("pointers", TRUE, {Pointers(im, w)})
StringAnalysis == Module("strings", TRUE, {Strings(im, w)})
ElfPltLateAnalysis == Module("elfplt_late", Has(im, {"plt"}), ElfPltLate(im, w))

\* One pending function through the four modules of the cascade.
FuncModules ==
  /\ w.pend # <<>>
  /\ w' = Cascade1(im, [w EXCEPT !.pend = Tail(@)], Head(w.pend))
  /\ UNCHANGED <<im, next>>

Done == next > Len(Pipeline) /\ w.pend = <<>> /\ UNCHANGED vars

Formats == LinkerAnalysis \/ EntryPointAnalysis \/ PeAnalysis \/ ElfCtorsAnalysis
             \/ ElfPltAnalysis \/ LibcStartMainAnalysis \/ GolangAnalysis \/ ElfPltLateAnalysis
Code == CodeFlowAnalysis \/ ImportCallsAnalysis \/ InstrHookAnalysis \/ ThunkRegAnalysis
          \/ ArmAnalysis \/ Aarch64Analysis \/ PrologueScanAnalysis \/ EmuCodeAnalysis
          \/ FuncEntriesAnalysis \/ MsvcFuncAnalysis \/ ThunkScanAnalysis
          \/ NoReturnAnalysis \/ CallingConventionAnalysis
          \/ SwitchCaseAnalysis \/ SymSwitchCaseAnalysis \/ HotpatchAnalysis
Data == RelocationAnalysis \/ PointerTableAnalysis \/ VfTableAnalysis \/ PointerAnalysis
          \/ StringAnalysis

Next == Formats \/ Code \/ Data \/ FuncModules \/ Done
Spec == Init /\ [][Next]_vars

---------------------------------------------------------------------------
\* A call through an import: a search for those starts code flow at each in
\* code that no pass located.  (Flow takes what it starts from for a function
\* already: importcalls.rs:110, codeflow.rs:50.)
CallsImport(va) ==
  im.arch = "i386" /\ Decodes(im, va) /\ im.insn[va].kind = "call" /\ im.insn[va].deref

\* A function, a call through an import, or no address of the program.
Callable(t) == IsValidPointer(im, t) => IsFunction(w, t) \/ CallsImport(t)

\* Whatever order the passes find code in, what is marked as an instruction
\* has its successors marked, as far as calls return, and whatever it calls is
\* a function, or begins with a call through an import.
CodeClosed ==
  \A va \in {a \in DOMAIN w.loc : TypeAt(w, a) = "Op"} :
    /\ \A t \in FlowFrom(im, w, va) : TypeAt(w, t) = "Op"
    /\ im.insn[va].kind = "call" => \A t \in Direct(im.insn[va]) : Callable(t)

\* No location touches any of the n bytes from va on.
Untouched(u, va, n) ==
  \A a \in DOMAIN u.loc : a + u.loc[a].size <= va \/ va + n <= a

\* A table: words in a row, in one segment, that hold addresses and that no
\* pass has explained.
Table(u, va) ==
  /\ va % PtrSize = 0 /\ Reads(im, va, TableMin * PtrSize)
  /\ Untouched(u, va, TableMin * PtrSize)
  /\ \A k \in 0 .. TableMin - 1 : Points(im, va + k * PtrSize)

(***************************************************************************)
(* The search for tables of pointers finds them all: each word of one is   *)
(* a pointer afterwards, and code that one points to is a function.        *)
(***************************************************************************)
TablesFound ==
  [][PointerTableAnalysis /\ IsX86 =>
       \A va \in {a \in VAs : Table(w, a)} : \A k \in 0 .. TableMin - 1 :
         LET p == va + k * PtrSize
             t == Word(im, p)
         IN  /\ TypeAt(w', p) = "Pointer" /\ <<p, t, "Data">> \in w'.xrefs
             /\ InCode(im, t) /\ ValidCode(im, t) => Located(w', t) \/ IsFunction(w', t)]_vars

\* A word that the last search takes for a pointer: it is one, or it holds an
\* address and no pass has explained it.
Taken(t) == TypeAt(w, t) = "Pointer" \/ (~Located(w, t) /\ Points(im, t))

(***************************************************************************)
(* After the last search for pointers, one without a name points to        *)
(* something without a name, or to a word that was taken for a pointer     *)
(* itself, and that had a name before or turned out to be text: names do   *)
(* not go through those.                                                   *)
(***************************************************************************)
PointersNamed ==
  [][PointerAnalysis =>
       \A p \in {a \in DOMAIN w'.loc : TypeAt(w', a) = "Pointer"} \ DOMAIN w'.names :
         LET t == Word(im, p)
         IN  \/ ~Points(im, p) \/ t \notin DOMAIN w'.names
             \/ Taken(t) /\ (t \in DOMAIN w.names \/ TypeAt(w', t) # "Pointer")]_vars

\* A function that does nothing but jump to an import has what the database
\* says of the import, whatever its own name is.
ThunksAnnotated ==
  \A f \in Elements(w.funcs) \ Elements(w.pend) :
    LET i == im.insn[f] IN
    /\ IsX86 /\ Decodes(im, f) /\ Branches(i) /\ i.deref
    /\ i.to \in DOMAIN im.imports /\ TypeAt(w, i.to) = "Import" /\ im.imports[i.to] \in im.apis
    => f \in w.apis

\* The search goes backwards in the block of the jump (switchcase.rs:76): a
\* jump table that is read there is found.
SwitchesFound ==
  [][SwitchCaseAnalysis =>
       \A b \in {c \in Elements(w.blocks) : IsFunction(w, c.func)} :
         \A jmp, add, mov \in {a \in VAs : Covers(b, a) /\ Decodes(im, a)} :
           /\ After(im, mov) = add /\ After(im, add) = jmp
           /\ im.insn[jmp].kind = "jmp" /\ im.insn[jmp].dst # None
           /\ im.insn[add].mnem = "add" /\ im.insn[add].val = im.base
           /\ im.insn[mov].mnem = "mov" /\ im.insn[mov].table # None
           /\ \A a \in {add, mov} : im.insn[a].dst = im.insn[jmp].dst
           => LET table == im.insn[mov].table + im.base
              IN  \A t \in Elements(Cases(im, table)) : <<table, t, "Code">> \in w'.xrefs]_vars

=============================================================================
