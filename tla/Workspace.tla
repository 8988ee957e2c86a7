----------------------------- MODULE Workspace -----------------------------
(***************************************************************************)
(* VivWorkspace of core/workspace.rs with its symbol table and its memory  *)
(* image: the store that loaders, analyses and persistence share.  A       *)
(* workspace is a value, and every method that changes one is an operator  *)
(* from workspaces to workspaces; the loaders and the restore of Storage   *)
(* call them as the code does.  Text (names, comments, values) is a model  *)
(* value; the listeners and the configuration, which nothing here reads,   *)
(* are left out.                                                           *)
(***************************************************************************)
EXTENDS Memory, SequencesExt

CONSTANTS
  VA,        \* the addresses of functions, names and blocks
  Marks,     \* the addresses of locations, comments, rows and the like
  Names,     \* symbol and function names
  Labels,    \* the names that are set after loading
  NoName,    \* the name of a function that has none
  Values,    \* the text of comments, metadata and rows
  Keys,      \* metadata keys
  SetNames,  \* names of VA sets
  Sizes,     \* sizes of locations and blocks
  RefTypes,  \* types of cross-references
  Bytes,     \* what a cell of memory can hold
  Archs,     \* architectures
  Maps,      \* the <<base, data>> that add_memory_region is called with
  Files,     \* the files that can be loaded, as their parsers return them
  MaxOps     \* bound on the calls that change a workspace

ASSUME WorkspaceAssumption ==
  /\ NoName \notin Names /\ Labels \subseteq Names
  /\ VA \subseteq Addrs /\ Marks \subseteq Addrs
  /\ MaxOps \in Nat
  /\ 0 \in Bytes /\ None \notin Bytes \cup Addrs
  \* mappings are not empty and end below the top of the address space
  /\ \A x \in Maps : /\ x[1] \in Addrs /\ x[2] \in Seq(Bytes)
                    /\ Len(x[2]) > 0 /\ x[1] + Len(x[2]) < Space
  /\ \A f \in Files :
       /\ f.bytes \in Seq(Bytes) /\ Len(f.maps) \in Nat /\ f.segments \in Seq(Addrs)
       /\ \A i \in 1 .. Len(f.maps) :
            /\ f.maps[i].va \in Addrs /\ {f.maps[i].offset, f.maps[i].raw, f.maps[i].size} \subseteq Nat
            /\ f.maps[i].va + f.maps[i].size < Space
       /\ f.entry \in Addrs /\ f.more \in Seq(Addrs)
       /\ \A pairs \in {f.exports, f.imports, f.functions} :
            /\ Len(pairs) \in Nat /\ DOMAIN pairs = 1 .. Len(pairs)
            /\ \A i \in DOMAIN pairs : pairs[i][1] \in Addrs

VARIABLES
  running,  \* is there a workspace?
  ws,       \* the workspace
  drained,  \* history: the functions that drain_pending_functions returned
  ops       \* calls so far

storeVars == <<running, ws, drained, ops>>

Nothing == [x \in {} |-> x]

\* VivWorkspace::new().  "order" is the insertion order of the function map.
Fresh ==
  [arch |-> CHOOSE a \in Archs : TRUE, big |-> FALSE, regions |-> Nothing,
   locations |-> Nothing, functions |-> Nothing, order |-> <<>>, codeblocks |-> Nothing,
   segments |-> <<>>, byAddress |-> Nothing, byName |-> Nothing, xrefs |-> {},
   comments |-> Nothing, meta |-> Nothing, entryPoints |-> <<>>, files |-> <<>>,
   pending |-> <<>>, noreturn |-> {}, vaSets |-> Nothing, generation |-> 0]

---------------------------------------------------------------------------
(* The methods.  Some increment the generation, some do not.               *)

AddFunction(w, va, name) ==
  IF va \in DOMAIN w.functions THEN w
  ELSE [w EXCEPT !.functions = Put(@, va, name), !.order = Append(@, va),
                 !.pending = Append(@, va), !.generation = @ + 1]

AddSymbol(w, va, name) ==
  [w EXCEPT !.byAddress = Put(@, va, name), !.byName = Put(@, name, va)]

SetFunctionName(w, va, name) ==
  AddSymbol(IF va \in DOMAIN w.functions THEN [w EXCEPT !.functions[va] = name] ELSE w,
            va, name)

AddLocation(w, va, size, type) ==
  [w EXCEPT !.locations = Put(@, va, [size |-> size, type |-> type]), !.generation = @ + 1]

\* Mutant: the generation is forgotten, as add_xref does.
AddCodeblockQuietly(w, va, size, func) ==
  [w EXCEPT !.codeblocks = Put(@, va, [size |-> size, func |-> func])]

AddCodeblock(w, va, size, func) ==
  [w EXCEPT !.codeblocks = Put(@, va, [size |-> size, func |-> func]), !.generation = @ + 1]

AddXref(w, from, to, type) == [w EXCEPT !.xrefs = @ \cup {<<from, to, type>>}]

AddMemoryRegion(w, base, data, perms) ==
  IF CanMap(w.regions, base, Len(data))
  THEN [w EXCEPT !.regions = MapVerbatim(@, base, data, perms), !.generation = @ + 1]
  ELSE w

WriteMemory(w, va, bytes) ==
  IF InOneRegion(w.regions, va, Len(bytes))
  THEN [w EXCEPT !.regions = Written(@, va, bytes)]
  ELSE w

Entered(points, va) ==
  IF \E i \in DOMAIN points : points[i] = va THEN points ELSE Append(points, va)

AddEntryPoint(w, va) ==
  IF Entered(w.entryPoints, va) = w.entryPoints THEN w
  ELSE [w EXCEPT !.entryPoints = Append(@, va), !.generation = @ + 1]

NewSet(typed) == [typed |-> typed, rows |-> Nothing]
AddVaSet(w, name) ==
  IF name \in DOMAIN w.vaSets THEN w ELSE [w EXCEPT !.vaSets = Put(@, name, NewSet(TRUE))]
SetVaSetRow(w, name, va, value) ==
  LET s == IF name \in DOMAIN w.vaSets THEN w.vaSets[name] ELSE NewSet(FALSE)
  IN  [w EXCEPT !.vaSets = Put(@, name, [s EXCEPT !.rows = Put(@, va, value)])]
DelVaSet(w, name) ==
  [w EXCEPT !.vaSets = [n \in DOMAIN @ \ {name} |-> @[n]]]

---------------------------------------------------------------------------
(* The loaders.  A file is what its parser returns: "maps" is what is to   *)
(* be mapped, in order; symbols, imports and functions are pairs of an     *)
(* address and a name.  A mapping that fails is dropped ("let _ = ...").   *)

Named(w, pairs, kept) ==
  LET named(t, k, v) ==
        FoldLeftDomain(LAMBDA names, i : IF i \in kept THEN Put(names, pairs[i][k], pairs[i][v])
                                         ELSE names, t, pairs)
  IN  [w EXCEPT !.byAddress = named(@, 1, 2), !.byName = named(@, 2, 1)]

\* Those of the addresses that are kept become entry points, in order.
EnteredAt(points, vas, kept) ==
  LET after[i \in 0 .. Len(vas)] ==
        IF i = 0 THEN points
        ELSE IF i \in kept THEN Entered(after[i - 1], vas[i]) ELSE after[i - 1]
  IN  after[Len(vas)]
EnteredAll(points, vas) == EnteredAt(points, vas, DOMAIN vas)
FirstOf(pairs) == [i \in DOMAIN pairs |-> pairs[i][1]]

Mapped(m, f) ==
  LET after[i \in 0 .. Len(f.maps)] ==
        IF i = 0 THEN m ELSE MapNormalized(after[i - 1], f.bytes, f.maps[i])
  IN  after[Len(f.maps)]

WithImage(w, f) ==
  [w EXCEPT !.arch = f.arch, !.big = f.big,
            !.meta = Put(@, f.key, f.id),
            !.files = Append(@, f.id),
            !.regions = Mapped(@, f),
            !.segments = @ \o f.segments]

\* An import that is kept is a symbol and an Import location of the size of a pointer.
Imported(w, imports, kept, pointer) ==
  LET slots == {imports[i][1] : i \in kept}
  IN  [Named(w, imports, kept) EXCEPT
         !.locations = [va \in DOMAIN @ \cup slots |->
            IF va \in slots THEN [size |-> pointer, type |-> "Import"] ELSE @[va]],
         !.generation = @ + Cardinality(kept)]

\* ELF and Mach-O: the functions of the symbol table, if they are mapped.
WithFunctions(w, f) ==
  LET there == {i \in DOMAIN f.functions :
                  f.functions[i][1] # 0 /\ IsMapped(w.regions, f.functions[i][1])}
  IN  Named([w EXCEPT !.entryPoints = EnteredAt(@, FirstOf(f.functions), there)],
            f.functions, {i \in there : f.functions[i][2] # NoName})

\* The primary entry point is pushed without a look at what is there already.
LoadPe(w, f) ==
  LET image == WithImage(w, f)
      others == {i \in DOMAIN f.more : f.more[i] # f.entry}
      points == EnteredAt(Append(image.entryPoints, f.entry), f.more, others)
      entered == [image EXCEPT !.entryPoints = EnteredAll(points, FirstOf(f.exports))]
  IN  Imported(Named(entered, f.exports, DOMAIN f.exports), f.imports, DOMAIN f.imports, f.pointer)

LoadElf(w, f) ==
  LET image == WithImage(w, f)
      entered == [image EXCEPT !.entryPoints = IF f.entry # 0 THEN Append(@, f.entry) ELSE @]
      known == {i \in DOMAIN f.imports : f.imports[i][1] # 0 /\ f.imports[i][2] # NoName}
  IN  WithFunctions(Imported(Named(entered, f.exports, DOMAIN f.exports), f.imports, known, f.pointer), f)

LoadMacho(w, f) ==
  LET image == WithImage(w, f)
      entered == [image EXCEPT !.entryPoints = IF f.entry # 0 THEN Entered(@, f.entry) ELSE @]
  IN  WithFunctions(Named(entered, f.exports, DOMAIN f.exports), f)

LoadFromFile(w, f) ==
  CASE f.format = "Pe" -> LoadPe(w, f)
    [] f.format = "Elf" -> LoadElf(w, f)
    [] f.format = "MachO" -> LoadMacho(w, f)
    [] OTHER -> w

---------------------------------------------------------------------------
(* The calls that a loader, an analysis or a user of the library makes.    *)

StoreInit == running = FALSE /\ ws = Fresh /\ drained = {} /\ ops = 0

\* A call that changes nothing (an error, a repetition) is a stutter.
Call(w) ==
  /\ running
  /\ w # ws
  /\ ops < MaxOps
  /\ ops' = ops + 1
  /\ ws' = w
  /\ UNCHANGED <<running, drained>>

LoadFile == \E f \in Files : Call(LoadFromFile(ws, f))
Function == \E va \in VA, n \in {NoName} : Call(AddFunction(ws, va, n))
Rename == \E va \in VA, n \in Labels : Call(SetFunctionName(ws, va, n)) \/ Call(AddSymbol(ws, va, n))
Locate == \E va \in Marks, s \in Sizes : Call(AddLocation(ws, va, s, "Op"))
Block == \E va \in VA, func \in Marks, s \in Sizes : Call(AddCodeblock(ws, va, s, func))
Refer == \E from, to \in Marks, t \in RefTypes : Call(AddXref(ws, from, to, t))
Comment == \E va \in Marks, v \in Values : Call([ws EXCEPT !.comments = Put(@, va, v)])
Meta == \E k \in Keys, v \in Values : Call([ws EXCEPT !.meta = Put(@, k, v)])
NoReturn == \E va \in Marks : Call([ws EXCEPT !.noreturn = @ \cup {va}])
Sets ==
  \E n \in SetNames :
    \/ Call(AddVaSet(ws, n))
    \/ \E va \in Marks, v \in Values : Call(SetVaSetRow(ws, n, va, v))
    \/ Call(DelVaSet(ws, n))
Map == \E x \in Maps : Call(AddMemoryRegion(ws, x[1], x[2], "RW"))
Poke == \E a \in VA, n \in 1 .. 2, b \in Bytes : Call(WriteMemory(ws, a, [i \in 1 .. n |-> b]))
Enter == \E va \in Marks : Call(AddEntryPoint(ws, va))
Architecture ==
  \/ \E a \in Archs : Call([ws EXCEPT !.arch = a, !.generation = @ + 1])
  \/ \E b \in BOOLEAN : Call([ws EXCEPT !.big = b, !.generation = @ + 1])
Record ==
  \/ \E va \in Marks : Call([ws EXCEPT !.segments = Append(@, va), !.generation = @ + 1])
  \/ \E v \in Values : Call([ws EXCEPT !.files = Append(@, v), !.generation = @ + 1])

\* The orchestrator's drain empties the list of new functions.
Drain ==
  /\ running
  /\ ws.pending # <<>>
  /\ drained' = drained \cup {ws.pending[i] : i \in DOMAIN ws.pending}
  /\ ws' = [ws EXCEPT !.pending = <<>>]
  /\ UNCHANGED <<running, ops>>

StoreNext ==
  \/ LoadFile \/ Function \/ Rename \/ Locate \/ Block \/ Refer \/ Comment \/ Meta \/ NoReturn
  \/ Sets \/ Map \/ Poke \/ Enter \/ Architecture \/ Record \/ Drain

---------------------------------------------------------------------------
(* Properties.                                                             *)

(* A function reaches the per-function analyses exactly once: it is still   *)
(* in pending_functions, once, or it was drained from there, never both,   *)
(* whatever mixture of loading, adding, saving and restoring came before.  *)
NoFunctionLost ==
  /\ IsInjective(ws.pending)
  /\ DOMAIN ws.functions = drained \cup {ws.pending[i] : i \in DOMAIN ws.pending}
  /\ drained \cap {ws.pending[i] : i \in DOMAIN ws.pending} = {}

(* The generation as a guard for caches: while a workspace lives, the      *)
(* generation never goes back, and as long as it stays the same so do the  *)
(* functions, the locations and the code blocks.  (For other tables it     *)
(* gives no such guarantee: add_xref, set_name and the loaders' entry      *)
(* points change without it.)                                              *)
Cached(w) == <<DOMAIN w.functions, w.locations, w.codeblocks>>
GenerationGuards ==
  [][running /\ running' =>
       /\ ws'.generation >= ws.generation
       /\ ws'.generation = ws.generation => Cached(ws') = Cached(ws)]_storeVars
=============================================================================
