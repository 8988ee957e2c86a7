# vivisect-rs in TLA+

TLA+ models of vivisect-rs, a Rust library that analyses binaries: it loads an
executable into a *workspace*, finds code, functions and basic blocks in it,
and emulates or symbolically executes parts of it. The modules here model the
parts of that program whose correctness depends on order, on interleaving, on
a long history of calls or on an algorithm with many cases. Paths below are
relative to `src/src/`.

- Part 1 lists the components of the program and their correctness conditions.
- Part 2 is the plan: what is modelled, in which order, and what is left.
- Part 3 describes each module, its runs, bounds and fairness.
- Part 4 describes what is proved and how.
- Part 5 says what disagrees with the code's own documentation.
- Part 6 says what is not modelled, and why.

## 1. The system

| Component | State | Operations | What is hard | What makes it correct |
|---|---|---|---|---|
| Trace facility, `trace/mod.rs` | `ENABLED`, `SEQ`, the mutex-protected session, each sink's buffer | `emit` from any thread; `set_session`, `clear_session` | no operation is atomic; the flag and the counter are written outside the lock; a panic poisons the mutex | events reach the installed session only, in increasing order, no number twice; no interleaving leaves a session installed but off; calls return |
| Orchestrator, `analysis/orchestration.rs` | position in two nested module lists, the drained functions, counters | `analyze`, `run_func_modules` | modules create functions while functions are analysed; a cap and a clock cut it short at any point | every new function meets every per-function module once, in order; nothing runs on a half-analysed workspace; it returns |
| Workspace, `core/workspace.rs`, `xrefs.rs`, `locations.rs`, `symbols.rs` | functions, pending functions, locations, cross-references, blocks, names, sets, events, `generation` | about a hundred small methods | stale derived state (`generation`, reverse name map), blocks keyed by start, overlapping locations | the maps agree with each other; caches are invalidated |
| Code flow, `analysis/codeflow.rs` | worklist, visited, known functions and block starts; writes locations and cross-references | `CodeFlowAnalyzer::analyze` | it is run several times over one workspace and reads what earlier runs wrote; an instruction cap | visits all the code that control reaches and no other; finds all call targets; ends |
| Basic blocks, `analyze_function` in `codeflow.rs`, `BasicBlockAnalysis` in `orchestration.rs` | todo/done stacks, the block being built; writes blocks and cross-references | one call per function | reads cross-references that are still growing; data between instructions; shared code | blocks are closed under flow; overlapping blocks end together; calls in blocks have cross-references; ends |
| No-return analysis, `analysis/noret.rs`, `thunks.rs` | `noreturn_vas`, `Thunk` metadata | propagation over functions | order of functions, cycles, blocks that another function took over | the set is a fixed point and is justified by the code |
| Graphs, `core/cfg.rs`, `core/callgraph.rs` | derived nodes and edges | build, paths, loop headers | overlapping blocks, parallel edges, irreducible loops, lookups in hash order | edges connect what they should, and the several answers to one question agree |
| Memory, `envi/memory.rs`, `abstractions/memory.rs` | regions | map, read, write, snapshot | region ends, overlap, reads across two regions | reads return what was written |
| Storage, `storage/msgpack.rs` | a file | save, load | crash or full disk in the middle of a save; fields not saved | load after save gives the same workspace |
| Emulation driver, `abstractions/driver.rs`, `emulator.rs`, `registers.rs` | registers with aliases, memory, breakpoints, hit counts | six loops; snapshot and restore | each loop tests its limits in another order; a restore meets regions mapped or removed since | stops when and where it says; a restore is exact |
| Workspace emulation, `impemu/*` | program counter, call log, a monitor | `run_function` | it reads control flow its own way; a monitor may skip instructions | it stays in the code of the function |
| Symbolic execution, `symboliks/*`, `symswitchcase.rs` | translator, graph of effects, stack of snapshots, results | translate, walk, solve, enumerate | revisits, path limits, rewritings, signedness, one translator for all blocks | each path is one of the graph; its state and constraints are those of the processor; a table gets all of its cases |
| Default pipeline, the other files of `analysis/` | the workspace | about thirty passes | each builds on what earlier ones stored | what one pass finds, the later ones know |
| Parsers, vstruct, architectures, server, command line | little | pure functions and tables | data, not order | see part 6 |

How they interact. `main.rs` or the server loads a binary (`parsers/*`) into a
workspace: memory regions, names, import locations and a list of entry points.
Analyses turn entry points into functions with `add_function`, which queues the
function in `pending_functions`. `create_default_orchestrator`
registers about thirty workspace modules and half a dozen per-function modules
in an order that matters. The orchestrator runs the workspace modules one by one
with exclusive access to the workspace (`&mut VivWorkspace`), and between two of
them drains `pending_functions` through the per-function modules. Code flow is
run by several workspace modules; basic block analysis is a per-function
module; so the two alternate on one workspace. Thunks and no-return analysis
read the blocks, the graphs read blocks and cross-references, and symbolic
execution reads the graph of one function. Everything calls
`trace::emit`. All of it is single-threaded except the trace facility, which is
process-global, and the server, which only reads.

Two levels of detail. `CodeFlow`, `Blocks` and `NoReturn` take the analyses
step by step over every small program. `Passes` takes one step per pass over
larger, chosen programs: there code flow, block analysis, no-return analysis and the
symbolic reading of switches are represented by their results, which the detailed modules
justify.

## 2. Plan

Done, in this order:

1. **Trace**: the only component with real concurrency.
2. **Cascade**, **Orchestrator**: the abstract promise about functions, and the
   loops that implement it.
3. **Program**, **CodeFlow**: the analyses' view of an instruction, and the worklist.
4. **Blocks**: composes with `CodeFlow` over the same workspace variables.
5. **Memory**, **FlatMemory**: regions with 2^w address arithmetic, against a
   memory that is a function from addresses to bytes.
6. **Workspace**, **Storage**: the loaders and every method that changes a table;
   saves and restores with a crash or a full disk anywhere.
7. **CodeQueries**, **NoReturn**, **Cfg**: on top of `Blocks`, what is derived from
   blocks and cross-references: queries and graphs, propagation, traversals.
8. **Registers**, **Driver**: the emulation loops, with the snapshots of `Memory`.
9. **Symbolic**, **Solver**, **SymbolicEmulator**, **Translator**, **Symbolik**:
   values and constraints as operators, and the translation, path walk and switch
   analysis as a state machine, against a processor.
10. **Image**, **Discovery**, **DataPasses**, **Passes**: the default pipeline.
11. **WorkspaceEmu**: `impemu` over what the pipeline leaves.
12. Theorems in eight modules (part 4), after the run that checks each statement.

Left, most useful first:

- A run for `generation`, whose comment ("incremented on every workspace
  mutation", `core/workspace.rs:219`) `add_xref`, `set_name`, `set_comment`,
  the VA sets and `write_memory` contradict.
- `vstruct` as an algorithm module.

## 3. What is modelled

Every module that models code has one action per operation or step of it, and
the properties at the end. `MC*` modules give the constants their
values. Definitions marked *Mutant* change one definition of the model the way a
plausible bug would; no specification uses them. Each is there to show that a
property would notice the bug. The type invariants of `Trace`, `Orchestrator`,
`CodeFlow` and `Blocks` are theorems (part 4).

| Run | Module | Distinct states | Question |
|---|---|---|---|
| `trace` | `MCTrace` | 148,360 | all interleavings of emitters and controllers |
| `orchestrator` | `MCOrchestrator` | 56,479 | cascades with a cap and a clock |
| `codeflow` | `MCCodeFlow` | 177,416 | two runs over 252 programs |
| `blocks` | `MCBlocks` | 174,939 | blocks, no-return and graphs over 384 programs |
| `storage` | `MCStorage` | 323,650 | calls, saves, crashes, restores |
| `driver` | `MCDriver` | 140,674 | calls of six loops, mappings, snapshots |
| `symbolik` | `MCSymbolik` | 9,464 | translation, walk and cases of 603 functions |
| `passes` | `MCPasses` | 15,998 | the pipeline over 94 images, then emulation |
| `trace_panic`, `noreturn_unproved`, `switch_last_case`, `switch_never` | | | violations: part 5 |

### Trace

`emit` is four steps, in the code's order: the relaxed load of `ENABLED`
(`EmitCheck`), taking the mutex and looking at the session's filter
(`EmitLock`), `SEQ.fetch_add` (`EmitFetch`), and the sink's `record`
(`EmitDeliver`), after which the guard is dropped. A detail longer than 256
bytes whose 256th byte is inside a character makes `String::truncate` panic
while the guard is held (`EmitPanic`), which poisons the mutex; every later
`lock().unwrap()` panics (`LockPoisoned`). `set_session` is `SetReset`,
`SetInstall`, `SetEnable`; `clear_session` is `ClearDisable`, `ClearDrop`. The
sink is the `RingBufferSink`; `stream` is a history variable with all that was
delivered. Histories `epoch` and `quiet` let properties speak of "between two
resets" and "an installation that no other overlapped".

- Run `trace`: 2 emitters, 2 controllers, 2 sessions, 3 calls of `emit`, ring
  capacity 1. Two emitters and two controllers are the least for a race
  between two emits, between two installations, and between an installation and a
  clear; three events overflow the ring twice over. The property
  `FreshAfterClear` is deliberately weaker than `set_session`'s comment
  suggests: when two installations overlap, or one session replaces another, an event of the
  old session can take a number after the reset, and the new session does not
  start at 0. That is what the code does, and nothing promises otherwise for
  overlapping calls.
- Run `trace_panic` (violation): see part 5.
- Fairness: each thread that can take a step of a call it began takes it (the
  OS scheduler); no thread has to begin a call. Weak fairness suffices for the
  mutex because `emit` holds it for a bounded number of steps, and the calls are
  bounded.

### Cascade and Orchestrator

`Orchestrator` is `AnalysisOrchestrator::analyze` and `run_func_modules` with
the workspace's pending list. `pc`, `mi`, `batch`, `cur`, `fi` are the positions of the
two nested loops; `total`, `late` are the two limits. A module is arbitrary: it
may decline (`should_run`), and while it runs it may create any functions
(`AddFunction`) before it returns; whether it returns `Ok` or `Err` changes only
the result record, which the loops do not read. `Begin` also models the sweep of
functions that were pending before `analyze()`.

`Cascade` is the abstract promise with no loops, modules or limits: a function
is created once, queued, and leaves the queue for good, analysed or abandoned;
a workspace module starts only when the queue is empty. `CascadeSpec` in
`Orchestrator` is its instance under the refinement mapping `StatusOf`.

- Run `orchestrator`: 4 functions, 2 + 2 modules, a cap of 2, 2 analyses. The
  cap is below the number of functions, so it is hit in a workspace module's
  batch, and in a batch created by the cascade itself; two analyses exercise the
  sweep and the reuse of the lists.
- Fairness: weak fairness of the loop's own steps. `analyze` is a sequential
  call; the assumption it rests on is that each module returns.
- `AnalyzeReturns` does not rest on the cap alone: with a finite set of addresses
  the drain ends by itself, since an address is a function only once.

### Program, CodeFlow, Blocks

`Program` is the analyses' view of an instruction: whether sixteen bytes can be
read and decoded at an address, its size, whether it falls through, what operand 0 names,
whether through a pointer, the entries of its jump table, and its memory
references. A program maps addresses to such records; the configurations
enumerate families of programs.

`CodeFlow` is `CodeFlowAnalyzer` and its callers. An action is one turn of the worklist
loop: `Skip` (visited, unreadable or undecodable), `Decode` (with all it
writes: location, cross-references, function and block sets, worklist), `CapReached`,
`WorklistEmpty`. The last two include what the caller then does: add the
functions that were discovered. `Begin` creates a new analyzer over the same workspace, and
`MarkNoReturn` is what other modules do to the no-return set between runs. The
order of the worklist is kept (fall-through to the front, targets to the back, a
call target twice) because under the cap it decides what is visited.

- Run `codeflow`: all 252 programs of three mapped addresses built from 6, 7 and
  6 instructions (calls, indirect calls, loops, conditional branches, jump tables,
  an instruction that overlaps the next, undecodable bytes, code that runs off the end), three sequences of
  entry points, caps of 2 and 9 instructions, two runs. Nine instructions exceed
  what three addresses hold, so the cap is hit with 2 only and both kinds of run
  precede each other. Three addresses suffice for a jump table with a shared
  target, a call whose fall-through is suppressed later, and a second run that
  finds the first run's cross-references.
- `MCCodeFlow` also asserts that `Outside`, the model's filter, is `SelectSeq`.
- Fairness: weak fairness of the loop's turns (a sequential call).

`Blocks` extends `CodeFlow` with `analyze_function` and the rest of
`BasicBlockAnalysis`: a call for one function walks from each block start
(`Pop`, then one action per instruction: `WalkMeetsData`, `WalkFails`,
`WalkGoesOn`, `WalkEndsBlock`) and stores the result (`Commit`, which also adds
the cross-references of calls and jumps). It interleaves with code flow runs at
the granularity of the orchestrator: calls never overlap. `DefineData` is a
pointer or string analysis in between. `codeblocks` maps a start to one block
for all functions, as in the code. The block size of the code is the list of
instructions here, so that properties can look into a block.

- Run `blocks` (which goes on with the modules of the next section): 384
  programs of four addresses (6 instructions at the first, 4 at each of the others, two of two bytes
  among them) and an import slot at 6 that some of them call or jump through. One code flow run, with a cap that is not reached
  (`codeflow` has the cut runs), functions analysed in any order, a no-return
  address, one address of data. It has loops, shared tails, functions that fall or jump into each
  other, blocks that overlap, and walks into data or off the mapped bytes.
- Fairness: weak fairness of the walk's steps.

### CodeQueries, NoReturn, Cfg

These read what `Blocks` stored, in the same run. Nothing in the code is cached, so a query
is an operator on `codeblocks` and `xrefs`.

`CodeQueries` has the workspace's queries (successors, predecessors, blocks of a
function, call edges), `core/callgraph.rs`, and the graphs of `CfgBuilder`. A lookup by address
that several overlapping blocks answer depends on the order of a hash map: `Holders` is the set of
all its outcomes, and a property speaks of each. Edges carry the cross-reference they were made
for, because petgraph keeps parallel edges.

`NoReturn` replaces the step that stores a function's blocks by one that also
looks for a thunk (`FunctionDone`), and follows it with the two workspace modules in their order:
`ScanThunks`, then `InitNoReturnApis`, one `Visit` per function and `NextPass` until a
pass marks nothing. The code visits functions in the order of a hash map; the model in any
order. A name counts only for whether it is in `NORETURN_APIS` (`ExitNames`). The least fixed
points of its properties are what every closed set contains, not the limit of an iteration.

`Cfg` has the traversals of a graph: path enumeration with a limit, reachability and
loop headers. They recurse, which is why they have a module that no theorem uses. Dominators and
strongly connected components are petgraph's own.

- Run `blocks`: `NoReturnLeast` compares the passes with the least fixed point
  of the rule, whatever the order and the cycles. `NoReturnSound` compares what was
  marked with `MayReturn`, which is defined on instructions and not on blocks.
  Its premises are what the code takes for granted: that marked functions own their flow
  (`OwnsItsFlow`: control that leaves a block of the function comes to a block of the function or
  to a function known not to return), and that an import slot or another pointer that is called
  through is not code itself (`SlotsHoldNoCode`). Without the first the property fails, which is
  the run `noreturn_unproved` (part 5).
  `GraphsAgree`, which is about every moment between two functions, is about blocks that do not
  overlap: where they do, the answers to one question differ.
- Fairness: as for `Blocks`. That the passes end is not stated as a property: each pass but the
  last marks a function.

### Memory, FlatMemory, Workspace, Storage

`Memory` has the operators of `MemoryRegion` and `MemoryObject` on a map from bases to
regions: overlap, the lookup that asks only the region with the nearest base,
reads and writes within one region, and the normalisation every
loader maps with. `FlatMemory` is what a user of the memory relies on: addresses that
are unmapped or hold a byte.

`Workspace` is the value `VivWorkspace` with one operator per method that changes
it, and the loaders, which call them as the code does. A file is what its
parser returns. An action of `StoreNext` is one call; a call that returns an error or changes
nothing is a stutter (`w # ws` in `Call`). `generation` is incremented where the
code increments it and nowhere else. `drained` is a history of what
`drain_pending_functions` returned.

`Storage` adds the file. `SaveBegin` is `File::create`, which truncates; `SaveEnd`
is a save whose last bytes arrived; `SaveCut` is one whose bytes did not, either with an error or
silently, because the `BufWriter` is flushed when dropped; `Crash` ends the process, also
between them; `Restore` is `load_workspace`, which rebuilds the workspace through
its methods, so that `pending` and `generation` are what these make of them. The reverse
name map is rebuilt from a hash map, in any order (`NameMaps`). The loops of the loaders over
segments and entry points are recursive functions (`Mapped`, `EnteredAt`), one value per turn of the
loop, so that one can reason about them.

- Run `storage`: 8 addresses, 3 files, 3 calls, 2 saves, 2 starts of the process. The files are a PE
  whose second section runs into its first, an ELF with the PE's entry
  point, an import at address 0 and bytes past the end of the file, and a Mach-O; in any order their mappings
  collide, touch or nest, with one another and with `add_memory_region`. Two
  saves and two starts give an older save to confuse with the last one, and a
  restore of what was restored. Three calls are enough to create a function,
  drain it, and create another after a restore.
- `MemorySpec` is checked as a refinement: the mapping sends the regions to the
  cells they show (`CellsOf`), so a region hidden behind another would be a change of
  bytes by `Map`.
- `GenerationGuards` says less than the comment on `generation`, on purpose:
  it names the tables for which the code keeps that promise.
- `RestoresLastSave` does not say that a save survives: the file is
  truncated in place, and until the new bytes are written there is nothing to restore. It says
  that what is restored is never older than the last save and never a part of it.
- Assumptions. A mapping ends below the top of the address space: `base + size` wraps to 0 in a
  release build, and such a region contains nothing; a debug build panics.
  `add_memory_region` is not given empty data, which no code in the repository does: an empty
  region would replace the region at the same base, since it overlaps nothing. A crash is
  the end of a process, not of the machine: no file system reordering.

### Registers, Driver

`Registers` is `BasicRegisterContext`: a sub-register is a range of bits of its
parent. `MCDriver` assumes `AliasesAgree`, which TLC evaluates: writing any
register, then reading any other, gives what bits would, for all values of four bits.

`Driver` has six loops: `run_to` and `run` of the `Emulator` trait,
`run`, `run_to` and `run_function` of `EmulatorDriver`, and `run` of `DebuggerDriver`.
A turn is `Stop` (with the tests in the order in which that loop makes them), `Step`
or `Fails`. Between two loops the caller sets breakpoints and
registers, maps and unmaps regions, resets hit counts, and takes and restores snapshots.
What one instruction does is external: the trait leaves `step` to its
implementation, icicle-vm. Hooks, monitors and the driver's call stack have no state in the model, because no loop
calls `handle_call`, `run_prehooks` or `run_posthooks`.

- Run `driver`: five programs of three instructions (loops, calls, a return, a fault, a
  system call), pointers of four and eight bytes, a stack of two cells that can be
  unmapped, three calls, 5 instructions, 2 hits. Three calls make a snapshot, a change and a
  restore, or a loop that starts on the breakpoint where the last one stopped, with the hit
  counts it left. The sentinel address does not fit into four bytes of a pointer, as in the code.
- `StopsWhereFirst` reads the history `path` of a loop, the emulators it went through. It asks
  that each came from the one before by the instruction there, and that the last is the first at
  which any condition of that loop holds. `RestoreExact` compares the
  restored emulator with the whole emulator at the snapshot, which only the history `was` has kept.
- No liveness: every loop has a limit on instructions, and that is one of its tests.
- The system may stop: with the calls of the environment used up nothing happens.

### Symbolic, Solver, SymbolicEmulator, Translator, Symbolik

`Symbolic` has values, what the code solves them to (`Solve`, with a hash for each
name), constraints and their inverse, `reduce` and substitution. `Solver` has
bounds on a variable and the enumeration of its values. `SymbolicEmulator` has
registers, memory, constraints, snapshots and the effects that change them.
`Translator` is the effect of each x86 instruction of `translator.rs`. The operand formats
matter: the code looks up the base of a dereference by the operand's text, which starts
with its size (`qword ptr [rbp`), so that the base is a name of its own and never the register.

`Symbolik` takes a function through `TranslateBlock` (one translator for all blocks, as
in the code), `StartWalk`, `Walk` (one item of the work stack), `EndWalk`,
and `Switch`, which is `symswitchcase.rs`. Next to it is a processor (`Run`), with the
architecture's meaning of the instructions that the properties are about.

- Run `symbolik`: 603 functions on words of 8 bits. 588 compare, branch over a block and
  may loop back, with seven sequences of arithmetic on each side; 12 are
  switches with four comparisons and three limits; one goes through the memory
  and call instructions, one is a bare `jmp`, and one has two branches in a row in a loop.
  At most 7 paths, 2 visits of a block and
  8 cases: a function with one branch and a loop has six paths, so its walk is complete, and the
  last one has more than seven, so its walk is cut; a switch over
  5 values has fewer cases than 8. Eight bits are enough to overflow, to compare
  signed and unsigned differently, and to shift everything out.
- `InOrderExact` and `PrunedInfeasible` speak of paths that take blocks in the
  order in which they were translated. On any other path the effects of a block start from
  the registers of the block translated before it, not of the block
  the path came from (`analysis.rs:229`), and the result is not the processor's. They leave out the
  unsigned jumps `jbe` and `jae`, which the code compares as signed.
- `CasesExact` in this run has the guards for which the enumeration is exact; run
  `switch_last_case` has `ja` (part 5).
- A walk is a function of the program: no choices, no fairness, and it stops at the end.

### Image, Discovery, DataPasses, Passes

`Image` is a loaded program and the part of the workspace that passes
tell each other through: locations, functions, names, cross-references, blocks,
thunks, API annotations. A byte pattern that a pass looks for is a label of an
instruction; a word, a character or a relocation is what the image says it is.

What has modules of its own is here by its result, as a function of the image and the workspace:

- Code flow (`Flow`; `CodeFlow` has the worklist): what a run reaches that the cap on instructions
  does not cut short. It follows direct branches, falls through unless a call is known not to
  return, reads the table of a jump that has no cross-reference yet, and leaves
  code and data references. The code stores no reference to a known start of a block
  (`codeflow.rs:213`), and which are known depends on the order of the visits; `Flow` leaves
  it out when the target becomes a start anywhere in the run.
- Block analysis (`BasicBlocks`; `Blocks` has the walk).
- No-return analysis (`NoReturn`; the module `NoReturn` has the passes over the functions, and
  `NoReturnLeast` that their order does not matter). Imports are marked by the code flow pass and
  by this one, functions by this one only. The code asks for the names of functions as
  well, but the passes put something before each (`sub_`, `plt_`, `thunk_`), or call it `main`, which
  is on no list.
- The symbolic reading of switches (`SymSwitchCase`; `Symbolik` has the paths and the enumeration):
  the values that the index of a jump may take are given with the instruction, and where they are
  not, the table is read up to the first word that is not in code.

`Discovery` and `DataPasses` have one operator per pass, from a workspace to the set of
workspaces it may leave: several where the code iterates over a hash map (`Linker`,
`LibcStartMain`, `ElfPltLate`). `Passes` runs them in the order of
`create_default_orchestrator`, and takes each pending function through
the per-function modules before the next pass (`FuncModules`). It is the default
build: without the feature `icicle`, code is judged by decoding it, not by running it.

- Run `passes`: 112 variants of four families of programs, 94 of them different. The PE family
  has 82: 64, for each set of a callee that pops its arguments, an import the database knows, a
  thunk that goes nowhere, a table that is too short, a chain of pointers, a broken relocation
  chunk; four with code that nothing names, which begins with a call through an import that returns
  or does not; eight where a function has no way out but an import that does not return, another
  one calls it, and the table of pointers has just the least length; two with a jump through a
  table that code flow reads; and four where code flow does not reach the jump and the symbolic
  pass does, with the index values known or not. The ELF family has 20: 16 (constructor arrays, wide
  text, a short linkage table, exports that satisfy imports), and four whose linkage table leads to
  an import that does not return. The Go family has 8 (two layouts of the function table, one cut
  short), and there are two ARM programs, of architectures with one pass of their own.
  96 cells hold a function for every pass that looks for one; a pointer takes two
  cells, so that alignment matters.
- `CodeClosed`: between any two passes, code that is located has its successors located, as far as
  calls return, and its callees are functions, with one exception. Every pass that marks code could
  break it. It speaks of what an instruction says itself: a table may be read in one run and not
  in the next, and `FlowClosed` has that step by step. The exception is the site of a call through
  an import: `importcalls.rs:110` starts the code flow there, and the analyzer takes where it starts
  for a function that it knows (`codeflow.rs:50`), so a call of such a site discovers nothing,
  though the pass has it that code flow "should have already handled this" (`importcalls.rs:135`).
  `Callable` says so, and the PE programs with code that nothing names have it.
- Patterns and guesses that are about x86 (prologues, jump tables, thunks) are looked for in x86
  programs only: the passes ask for the architecture, or the disassembler decodes nothing.
- `ThunksAnnotated` needs two modules of the cascade and the database to agree; `TablesFound` and
  `PointersNamed` are about what a pass leaves, given everything that earlier passes
  have put in its way. `PointersNamed` says that a pointer without a name points to nothing that
  has one, again with one exception: its target was itself taken for a pointer, and had a name
  before or turned out to be text as well (part 5). `Taken` says so.

### WorkspaceEmu

`run_function` of `impemu/workspace_emu.rs`, over the workspace that the pipeline
leaves. It emulates by the decoder alone: no registers, no memory. A turn decodes at
`pc` and is `Stopped` or `Skipped` (the monitor's answer), `Return`, `StepOverCall`,
`Branch` or `Advance`; `OutOfInsns` and `NotDecoded` end the run. A call is stepped over, with or
without a stub; a conditional branch is always taken. The return value and the final stack
pointer are never computed by the code and are left out.

- In run `passes`, every function of every x86 image is emulated once, by each of four monitors: the path
  monitor, the breakpoint monitor, the call monitor, and one that skips instructions
  and calls. At most four instructions, which the longest functions exceed.
- `EmulationInCode`: the emulator and the code flow analysis read branches in two
  implementations. An emulation whose monitor skips nothing stays in located code, and each
  target that it records is a function, or begins with a call through an import. The emulator
  steps over every call that no stub ends, also over one that the analysis knows not to return, and there
  is no code to be located behind it: the property speaks of the emulation up to such a
  call (`past`, a history variable, has the instructions it went on from).

## 4. What is proved

TLAPS checks the theorems below for every value of the constants that satisfies
the assumptions stated with them: any number of threads, sessions, functions,
modules, any cap, any program over any set of addresses, any number of runs, any files and
mappings, any images, any monitors. The assumptions are `TraceAssumption`, `OrchestratorAssumption`,
`ProgramAssumption`, `CodeFlowAssumption`, `BlocksAssumption`, `QueriesAssumption`,
`NoReturnAssumption`, `SpaceAssumption`, `WorkspaceAssumption`, `StorageAssumption`,
`RegistersAssumption`, `DriverAssumption`, `ImageAssumption`, `PassesAssumption` and `WorkspaceEmuAssumption`. Most
give constants their types. Those that say more:

- `CodeFlowAssumption`: a jump table belongs to a `jmp` without a target of its own, and a conditional
  jump names its target, as on x86.
- `WorkspaceAssumption`: mappings are not empty and end below the top of the address space (part 3).
- `PassesAssumption`: segments and imports of an image lie in its addresses, what an instruction
  or a word holds is a number, and an instruction takes at least a byte. Nothing is said of what
  the bytes are: any image may have code in data, data in code, and pointers anywhere.
- `RegistersAssumption`: the parent of a sub-register is a whole register, as in every register
  context of the repository.

`TraceProofs`
- `TypeCorrect`: types, and that a ring buffer never exceeds its capacity.
- `SwitchSafe`: `InstalledIsEnabled`, which is inductive given the types. It fails if either
  `set_session` or `clear_session` writes its two variables in the other order.
- `NumbersSafe`: `NumbersOrdered`. Alone it is not inductive. The strengthening
  says that the mutex holder is between its lock and its delivery and alone there
  (`MutexInv`), that numbers delivered or in hand were taken before the present value of `SEQ` if
  they are of the present epoch, and that epochs do not run backwards.
- `RingsExact`: `RingHoldsTail`, inductive given the types. The lemma behind it is that pushing
  onto the last n events of a stream gives the last n of the longer stream, for every n.
- `DeliveredToInstalled`: `OnlyInstalledReceives`, an action property, through `SessionInv`: an
  emitter between finding a session and delivering to it holds the mutex and the session is still in
  the cell.
- `FreshCaptures`: `FreshAfterClear`, through `FreshInv`: as long as a session that was installed
  undisturbed has received nothing, nobody else installs one and the first number is not taken.

`OrchestratorProofs`
- `LoopInvariant`: types need to know where the loops are (the module index is in
  range inside the loop, the cap is not passed before the cascade ends); hence
  `TypeCorrect` and `LimitsStopModules` (`NoModuleAfterLimit`).
- `QueueInvariant`: a function is in the pending list, the drained vector or in hand,
  in one of them and once (`WaitsOnce`); before it is taken no module has seen it,
  and then the first `fi - 1` have (`SeenInOrder`). Hence `OfferedOnce`
  (`OfferedOnceInOrder`).
- `NoneForgottenInvariant`: until a limit is reached, what was created waits or was
  analysed. With the queue invariant it gives `CascadeReachesAll`
  (`CascadeComplete`).
- `CountInvariant`: the functions offered or in hand are finitely many, at most
  `total`, at most the cap. Hence `CapHolds` (`CapRespected`).
- `Refinement`: `Spec => CascadeSpec` if there is at least one per-function
  module. Without one the cascade is never run, functions stay pending while
  modules run, and the promise does not hold; the assumption is needed.

`CodeFlowProofs`
- `TypeCorrect`: types, and that a run decodes at most `max_instructions`.
- `OnlyReachableVisited`: `VisitedReachable`, inductive given the types, because
  what `Decode` queues is in `Flow`, and `Flow` does not change during a run.
- `CallTargetsFound`: `CallTargetsAreFunctions`, through `CallsKept`, which counts what a
  running analyzer discovered.
- `LocatedCodeClosed`: `FlowClosed`, through `FlowKept`: what flow reaches from
  located code is located or on the worklist, what was visited is located, and
  a cross-reference starts at a located address. The last part is why a later
  run may leave out a jump table: whatever already has cross-references was
  decoded, so its table was followed.
- The lemmas about `Outside` replace an induction over sequences by the
  well-foundedness of the naturals.
- `BlockTypesCorrect`: types; a stored block has an instruction, and calls do not overlap.
- `BlocksCloseUp`: `BlocksClosed`, through `WalkInv`: the walk under way is a chain of
  instructions each of which goes on to the next, a block is such a chain with an end, and wherever
  a finished block leads is done, still to do, or data. Nothing that the walk reads changes
  between its first step and the commit.
- `OverlapsRunOnTogether`: `OverlapsEndTogether`. While the walk goes on, the state that decided
  the blocks is still there: two chains that share an instruction share the next one, or both
  end. `SharedEnd` takes a last shared instruction. When the walk is over, its blocks stay.
- `CallsOfBlocksReferenced`: `StoredCallsReferenced`. Its strengthening drops "between two
  functions": references are never taken back, and a commit adds those of all blocks of its
  function, those it took over too.
- `AnswersAgree`: `GraphsAgree`, from the shape of stored blocks (`StoredWalked`), which
  unlike `WalkInv` survives new references and new data.
- `FlowUndisturbed`: `FlowClosed`, `CallTargetsAreFunctions` and `VisitedReachable` hold in the
  composition too. This does not follow from the theorems about code flow alone: a commit adds cross-references from
  instructions that code flow did not locate, and a later run leaves out the jump table of an
  instruction that has cross-references. It never comes to that, because a jump
  with a table has no target of its own (`RefsNamed`, and the assumption above).

`NoReturnProofs`
- `LeastFixedPoint`: `NoReturnLeast`, through `PassInv`: what is marked is in every closed
  set (the rule is monotone, so a mark made on partial knowledge is never one too many), and as long
  as a pass has marked nothing, no function it has looked at is one the rule would mark.
- `AnalysesKept`, `MarkingDisturbsNothing`: all of the invariants of `CodeFlowProofs`
  hold before, during and after the propagation, which only adds to the no-return set.
- `MarkedNeverReturn`: `NoReturnSound`. The proof exhibits a set of addresses that is closed under
  returning and contains no marked function (`Free`: all code but the marked functions and, of those
  that are no thunks, the instructions of each block up to the first call into a block of the same
  function). That control does not leave what was left out takes the shape of stored blocks
  (`StoredWalked`), where references lead (`RefsNamed`), the rule itself and both premises.

`DriverProofs`
- `SnapshotsAreExact`: `RestoreExact`, through `SnapshotInv`: a snapshot says of each part
  what the emulator was. What was copied region by region comes back, whatever is mapped by then
  (`RestoresMemory`).
- `LoopsStopWhereFirst`: `StopsWhereFirst`, through `LoopInv`: while a loop runs, its path is
  what the instructions make of the first emulator, no stop condition held at an earlier
  instruction, and the debugger's count of an address is what it was and the number of times that
  the path came by. Each of the six loops is a case of its own, as each tests in another order.

`StorageProofs`
- `NoneLost`: `NoFunctionLost`. It needs more than itself: a restore makes the
  insertion order of the function map the pending list, so that order must list each
  function once, in the workspace and in the file (`QueueInvariant`). The loaders enter through
  `LoaderLoads`: none of them touches functions, their order or the pending list.
- `RestoreIsLastSave`: `RestoresLastSave`, through `FileInvariant`: a whole file holds
  what the last save was given, and during a save nothing else changes the workspace.
- `CachesGuarded`: `GenerationGuards`, an action property, from `TableInvariant`, which types the
  tables of the workspace and of the file, and from what each method and loader does to the
  generation (`EditTidy`, `LoaderLoads`).
- `MemoryRefined`: `Spec => MemorySpec`, the refinement of a memory that is a function from
  addresses to bytes. `TableInvariant` says that the regions are an image (`IsImage`): none
  empty, none past the end of the address space, no two over one another. Then the region with the nearest
  base below an address is the only one that can hold it (`RegionFound`), a mapping or a loader
  only fills cells that were empty, and a write maps nothing. What the loops of the loaders do
  is proved turn by turn (`MappedBySteps`, `EnteredBySteps`), by the well-foundedness of the naturals.

`DataInduction`
- What a pass leaves is the result of a fold over a sequence or of a recursive function: over
  addresses, functions, relocations, pointers. A theorem with an operator for a parameter cannot be
  used by the provers, but a module with an operator for a constant can be instantiated. This one
  has the step of a fold (`Step`) and the relation it keeps (`Rel`), the definition of a recursive
  function (`Def`), the rank of its arguments (`Rank`) and what its values satisfy (`Good`).
  `RecursionHolds` and `RecursionKeeps`: a function whose value depends on values of lower rank
  only satisfies its definition, and what carries over from those values holds of all.
  `FoldRuns` and `FoldKeeps`: a fold goes through the sequence, and a reflexive and transitive
  relation that each step establishes holds between its start and its result. Each is by the
  well-foundedness of the naturals. The operators take a context `c`, so that an instance says
  `INSTANCE DataInduction WITH Step <- ..., Rel <- ...` about a fold whose step mentions the image.

`PassesProofs`
- `PassesKeepShape`: `PassInvariant`, in five parts. `Shape` types the workspace: the tables are
  sequences, locations have a size, pointers and blocks are at addresses, the order of insertion
  lists the addresses that have a location and no others. `EntriesFound`: after
  the second pass the entries are functions, which the code flow pass relies on. `Closes` is
  `CodeClosed` of any workspace, `Annotates` is `ThunksAnnotated` of any workspace.
- The relation that every pass is shown to establish is `Kept(S, u, v)`: the functions and
  what is pending in `u` are still there in `v`, new functions are pending, no import was made, no
  instruction and no mark of what does not return was lost, and the only new instructions are in S. It is transitive, hence the folds.
  S is empty for all passes but those that follow code. There is one lemma per pass
  (`LinkerKeeps` to `StringsKeeps`), and one for each operator that it folds.
- `FlowIsClosed`: `CodeClosed`. Every pass that follows code goes through `FlowPasses`: what code flow
  reaches is closed under flow (`ReachedIs`), all of it is marked, and what it meets called is made
  a function. The other passes mark no instruction and unmark none (`MarksNothing`): a
  location where an instruction is already is never replaced, not even by the passes that add
  locations without asking (part 5), because what they add starts at a pointer, or where no
  location starts. So the closure holds whatever order the passes come in, but for the entries. More marks of
  what does not return only leave less to be closed under (`FlowShrinks`).
- `ImportThunksAnnotated`: `ThunksAnnotated`. A function is pending until the cascade has been
  through it (`Kept`), and the cascade names the thunk before it asks the data base
  (`CascadeAnnotates`); no later pass makes an import (`StaysAnnotated`).
- `EmulationKeepsToCode`: `EmulationInCode`, for every image. `EmuInvariant` says that no pass is
  left when an emulation begins (so the workspace stays as it is), that the emulator is in located
  code, and that calls on record may be made, as long as `Watched` holds (nothing skipped, no call
  stepped over that does not return), which no step can make true again. All that the emulation takes from the analysis
  is `CodeClosed`: not the blocks, not the names.
- `PointerTablesFound`: `TablesFound`. A row of words that point into the image is followed through
  the scan (`FreeCells`), which takes one word after the other, the selection (`Chosen`), the
  concatenation over the segments (`Joined`) and the division into runs (`Runs`): each operator keeps
  the row in one piece, hence it is an entry of the table. Entering tables only adds locations
  (`Grown`), and `Untouched` is about the workspace that the scan read.
- `PointersAreNamed`: `PointersNamed`, in two parts. The search keeps `Searched`: all that it
  adds to the names is text, and each pointer is noted unless it had a name, those that were
  located (they are in the order of insertion, by `Shape`) and those that the scan finds. Then
  `NameFor` settles: the set of pointers that have a name grows from one round to the next, and once
  it does not grow it stays; there are as many rounds as noted pointers, so it has settled by the
  last one (`Settles`, by counting). A pointer without a name there has a target without a name
  (`NotNamed`).

The type invariants of `Trace`, `Orchestrator`, `CodeFlow` and `Blocks` are not listed in
the runs: the theorems `TypeCorrect` and `BlockTypesCorrect` establish them.

Model-checked only:

- liveness (`CallsReturn`, `AnalyzeReturns`, `RunEnds`, `WalkEnds`), which needs
  fairness and `ENABLED`;
- `PathsAndLoopsExact` of `Cfg` and the properties of `Symbolik`: their modules declare
  `RECURSIVE` operators (over paths, values, sequences of instructions), behind which the
  SMT prover is lost, and `Symbolic` uses `Bitwise`. `DataInduction` reaches recursive functions and
  folds, not those.

`Passes` does not rest on the theorems about `CodeFlow` and `Blocks`: it has their results as
functions of its own, and theorems about those.

## 5. Where the code and its documentation disagree

Four runs find the stated property violated.

- `trace_panic`, `EmitIsPure`: the module comment promises that emitting is a pure side effect
  (`trace/mod.rs:12`); `truncate_detail` (`:257`) panics on a detail whose 256th byte is inside
  a character, and poisons the session mutex for the process.
- `noreturn_unproved`, `NoReturnProved`: "assume return unless we can prove
  otherwise" (`analysis/noret.rs:225`). A block is a leaf when no successor
  belongs to the function; one that runs on into a block which another function
  owns by now ends in no return and passes, and the function is marked.
- `switch_last_case`, `CasesExact`: the "opposite constraint"
  (`symboliks/value.rs:84`) of `Ugt` is `Ult` (`:92`), not "less or equal". After `cmp index, n;
  ja default` the solver that "enumerates all satisfying values"
  (`analysis/symswitchcase.rs:9`) leaves out n, the last case.
- `switch_never`, `SwitchesFound`: the scan backward "within the same code block"
  (`analysis/switchcase.rs:76`) asks for a block that starts at the jump (`:86`), so it
  never reads an instruction, and no table is found.

More can be read off the definitions. No run shows these; the models have them as the code does.

Code flow and blocks:

- The walk skips a cross-reference to the next instruction, taking it for the fall-through, also
  for a jump table, so a first case right after its `jmp [table]` is in no block
  (`codeflow.rs:381`, `:284`).
- A data reference ends a block and its target is walked as code, though the comments speak of code
  cross-references (`codeflow.rs:436`). Whether a data reference is stored at all
  depends on the order of the visits (`:213`).
- Sixteen bytes must be readable for an instruction, so the last ones of a region are never
  decoded (`codeflow.rs:85`).
- `get_function_blocks` promises the blocks of a function (`workspace.rs:759`), but a block is
  stored under its start for one owner only, and the function analysed last takes it (`:828`).
- Two entries of the list of functions that do not return are never matched: `_Exit`
  (`noret.rs:33`), because names are compared in lower case, and any that a function of the program
  itself has ("Also check named functions", `:63`), because the passes put something before a name.
  An `exit` that is linked statically returns, for the analysis.
- A function of one block that ends in a call of `exit` through an import is taken for a thunk of it
  (`thunks.rs:150`), and then `noret.rs` looks only at references from its first address (`:91`):
  unless the call comes first, it is never marked.
- Functions are marked when all passes that follow code have run, except those for imports: code
  behind a call of a function of the program that is found not to return stays located, with its
  blocks and references (the analyzer is to "suppress fall-through after calls to noreturn
  functions", `orchestration.rs:551`; it does so for imports only).
- The control flow graph is to have a fall-through edge "if block doesn't end with unconditional
  jump/ret" (`cfg.rs:407`); how the block ends is not looked at.

Workspace, memory and storage:

- The digest of a workspace is that of what its save restores "by construction"
  (`workspace.rs:1463`); the loaders push the entry point without looking for it (`:338`), so a
  second file with the same one is in the list twice, and in the restored list once.
- `generation` is "incremented on every workspace mutation" (`workspace.rs:219`); five kinds of
  mutation leave it alone (part 2).
- An overlapping mapping is "never silently dropped" (`envi/memory.rs:239`); each
  loader drops it with `let _ =`.
- `get_location_containing` takes for granted that locations do not overlap (`workspace.rs:818`);
  three passes add locations without asking (`vftables.rs:82`, `pointers.rs:243`,
  `orchestration.rs:866`).

Driver and emulation:

- With pointers of four bytes the return address that `run_function` pushes is not the one it
  compares with (`driver.rs:346`).
- "Import call interception and stubbing" (`impemu/workspace_emu.rs:11`): the target of `call
  [import]` has no value, so the call is neither recorded nor stubbed; a call of a thunk is
  recorded under the name `thunk_X`, which no stub and no call monitor has. The answer of
  `on_return` is not looked at.

Symbolic execution:

- One translator serves all blocks (`analysis.rs:229`): a block's effects start from the registers
  of the block translated before it, and not from those of its predecessor on the path.
- `jbe` and `jae` compare signed. A jump after an arithmetic instruction uses the last `cmp`.
  `cmov` moves nothing.
- Only the newest edge's constraint decides whether a path can hold.
- `enumerate_values` steps with a saturating addition (`solver.rs:109`): when the upper bound is the largest value it
  stays there, and repeats it, or does not end if it is no solution.

Passes:

- `golang.rs:185` says that emulated code discovery and pointer tables are skipped for Go
  programs; they are not.
- "Track LEA/MOV into EDI/RDI" (`instrhook.rs:67`): the memory operand of a `lea` has no value, so
  only a `mov` counts.
- The table base of a switch on amd64 is sought in the value of a `lea`
  (`symswitchcase.rs:68`), which has none, so no switch is ever found there.
- The thunk scan and the MSVC pass set `Thunk` after the module that reads it
  for API annotations has seen the function, so such functions are never annotated.
- Functions found by pointer tables, emulated code discovery and the pointer scan get blocks, but
  no code flow of their own.
- "Name pointers based on target names" (`pointers.rs:300`): names are handed on from the leaves
  only, the targets that are not noted as pointers themselves (`:376`). A word that has a name, or
  becomes text, and points somewhere is noted (`:362`) but is no leaf and gets no new name, so
  what points to it stays without one.

## 6. What is not modelled

- Symbolic execution: `Read` and `Debug` effects, which change nothing; the `process_*` methods, summaries,
  similarity, `get_symbolik_outputs` and `check_sat`, which no analysis calls; SSE and
  string instructions.
- Driver: `handle_call`, `run_prehooks` and `run_posthooks`, which nothing calls; changing the
  protection of a region.
- `emulator/icicle.rs` and what only a build with the feature `icicle` has: the external
  CPU, `run_function_icicle`, and the variants of `emucode`, `libc_start_main` and `calling`
  that emulate.
- `crypto.rs`: constants that no pass looks for.
- In `Passes`: code flow cut short by its cap on instructions, and the order of its visits (`CodeFlow`
  has both); how the index of a switch is bounded (`Symbolik` has it).
- Passes that write nothing that others read: classification of strings, entropy.
- Event listeners of the workspace: nothing outside the tests fires an event. Its configuration.
- `get_location_containing`: see part 5; what it gets wrong is in who adds locations.
- The reverse name map: renaming leaves the old name in it (`symbols.rs:21`). The
  model of `Storage` has this, but no property, because no code
  relies on the answer being the address of that name now.
- Bytes and encodings: the x86 decoder, other architectures, the parsers,
  vstruct. They are pure functions; what the analyses read of an
  instruction is `Program` and `Image`.
- The frozen workspace, a copy without sharing; the server's handlers, which only read;
  formatting, logging and the command line.
- Weak memory: the atomics of `trace/mod.rs` are modelled as sequentially
  consistent (see the header of `Trace`).
- The wall clock is a Boolean that may become true at any step.
