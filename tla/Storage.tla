------------------------------ MODULE Storage ------------------------------
(***************************************************************************)
(* storage/msgpack.rs: a workspace is saved to a file and restored from    *)
(* it.  Saving truncates the file and fills it through a BufWriter, whose  *)
(* last bytes are written when it is dropped, where an error is ignored.   *)
(* The process may end at any point.  Decoding a file that is not whole is *)
(* an error.  The JSON format takes the same steps.                        *)
(***************************************************************************)
EXTENDS Workspace

CONSTANTS MaxSaves, MaxLives  \* bounds on saves and on process starts

ASSUME StorageAssumption == MaxSaves \in Nat /\ MaxLives \in Nat

VARIABLES
  file,       \* "absent", "torn" or "whole", and the data in it
  saving,     \* is a save between its truncation and its end?
  lastSaved,  \* history: the data the last save was given
  saves,      \* saves so far
  lives       \* processes so far

vars == <<running, ws, drained, ops, file, saving, lastSaved, saves, lives>>

\* workspace_to_data: the tables; neither the generation nor the pending list.
Data(w) ==
  [arch |-> w.arch, big |-> w.big, meta |-> w.meta, regions |-> w.regions,
   segments |-> w.segments, files |-> w.files, entryPoints |-> w.entryPoints,
   symbols |-> w.byAddress, functions |-> w.functions, order |-> w.order,
   locations |-> w.locations, codeblocks |-> w.codeblocks, xrefs |-> w.xrefs,
   comments |-> w.comments, noreturn |-> w.noreturn, vaSets |-> w.vaSets]

\* Symbols come back in the order of a hash map: any address may win a name.
NameMaps(symbols) ==
  {f \in [{symbols[va] : va \in DOMAIN symbols} -> DOMAIN symbols] :
     \A n \in DOMAIN f : symbols[f[n]] = n}

\* Mutant: what a file says was analysed is not queued again.
RestoredAnalysed(d, byName) ==
  LET points == EnteredAll(<<>>, d.entryPoints)
  IN  [Fresh EXCEPT !.functions = d.functions, !.order = d.order, !.entryPoints = points]

\* data_to_workspace: a new workspace, filled by its own methods.
Restored(d, byName) ==
  LET points == EnteredAll(<<>>, d.entryPoints)
  IN  [arch |-> d.arch, big |-> d.big, regions |-> d.regions,
       locations |-> d.locations, functions |-> d.functions, order |-> d.order,
       codeblocks |-> d.codeblocks, segments |-> d.segments,
       byAddress |-> d.symbols, byName |-> byName, xrefs |-> d.xrefs,
       comments |-> d.comments, meta |-> d.meta, entryPoints |-> points,
       files |-> d.files, pending |-> d.order, noreturn |-> d.noreturn, vaSets |-> d.vaSets,
       generation |-> 2 + Cardinality(DOMAIN d.regions) + Len(d.segments) + Len(d.files)
                        + Len(points) + Len(d.order) + Cardinality(DOMAIN d.locations)
                        + Cardinality(DOMAIN d.codeblocks)]

\* semantic_digest: what it hashes, the hash taken to be injective.  Names by
\* name, the order of functions and the pending list are not in it.
Hashed(d) ==
  <<d.arch, d.big, d.entryPoints, d.regions, d.segments, d.files, d.functions, d.locations,
    d.codeblocks, d.symbols, d.xrefs, d.comments, d.meta, d.noreturn, d.vaSets>>
Digest(w) == Hashed(Data(w))

---------------------------------------------------------------------------
Init ==
  /\ StoreInit
  /\ file = [state |-> "absent", data |-> Data(Fresh)] /\ saving = FALSE
  /\ lastSaved = Data(Fresh)
  /\ saves = 0 /\ lives = 0

Edit ==
  /\ ~saving
  /\ StoreNext
  /\ UNCHANGED <<file, saving, lastSaved, saves, lives>>

\* File::create truncates what was there.
SaveBegin ==
  /\ running /\ ~saving
  /\ saves < MaxSaves
  /\ file' = [state |-> "torn", data |-> Data(Fresh)] /\ saving' = TRUE
  /\ lastSaved' = Data(ws)
  /\ saves' = saves + 1
  /\ UNCHANGED <<running, ws, drained, ops, lives>>

SaveEnd ==
  /\ saving
  /\ file' = [state |-> "whole", data |-> Data(ws)]
  /\ saving' = FALSE
  /\ UNCHANGED <<running, ws, drained, ops, lastSaved, saves, lives>>

\* The disk is full: an error while encoding is returned, one in the final
\* flush is lost and the save reports success.  Either way the file is torn.
SaveCut ==
  /\ saving
  /\ saving' = FALSE
  /\ UNCHANGED <<running, ws, drained, ops, file, lastSaved, saves, lives>>

\* The process ends, also in the middle of a save.
Crash ==
  /\ running
  /\ running' = FALSE /\ saving' = FALSE
  /\ ws' = Fresh /\ drained' = {}
  /\ UNCHANGED <<ops, file, lastSaved, saves, lives>>

Start ==
  /\ ~running /\ lives < MaxLives
  /\ running' = TRUE /\ lives' = lives + 1

New ==
  /\ Start
  /\ UNCHANGED <<ws, drained, ops, file, saving, lastSaved, saves>>

\* Mutant: a file that ends early is decoded all the same.
Readable == file.state # "absent"

Whole == file.state = "whole"
Restore ==
  /\ Start
  /\ Whole
  /\ \E names \in NameMaps(file.data.symbols) : ws' = Restored(file.data, names)
  /\ UNCHANGED <<drained, ops, file, saving, lastSaved, saves>>

\* The bounds are used up.
Done == ~running /\ lives = MaxLives /\ UNCHANGED vars

Next == Edit \/ SaveBegin \/ SaveEnd \/ SaveCut \/ Crash \/ New \/ Restore \/ Done

Spec == Init /\ [][Next]_vars

---------------------------------------------------------------------------
(* Properties.                                                             *)

(* A process that starts has an empty workspace or exactly what the last   *)
(* save was given, entry points without repetitions: never an older one,   *)
(* never part of one, wherever the process or the disk failed.             *)
Same(w, d) == Digest(w) = Hashed([d EXCEPT !.entryPoints = EnteredAll(<<>>, @)])
RestoresLastSave == [][~running /\ running' => ws' = Fresh \/ Same(ws', lastSaved)]_vars

(* The memory of the workspace, seen without its regions, implements       *)
(* FlatMemory: no mapping hides or changes a byte that was mapped, a write *)
(* maps nothing, and a restored image is the one last saved.               *)
CellsOf(m) == [a \in Addrs |-> IF IsMapped(m, a) THEN Byte(m, a) ELSE None]
Flat == INSTANCE FlatMemory WITH
  Unmapped <- None, cells <- CellsOf(ws.regions), kept <- CellsOf(lastSaved.regions)
MemorySpec == Flat!Spec
=============================================================================
