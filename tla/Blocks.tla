------------------------------- MODULE Blocks -------------------------------
(***************************************************************************)
(* Basic blocks: analyze_function of codeflow.rs and BasicBlockAnalysis of *)
(* orchestration.rs, which the cascade runs on every new function between  *)
(* two code flow runs.  It walks the instructions of one function, reading *)
(* the locations and cross-references that CodeFlow left, stores the       *)
(* blocks in workspace.codeblocks, one per start address whoever owns it,  *)
(* and adds the cross-references of the calls and jumps in them.           *)
(*                                                                         *)
(* The todo stack is a set here: the walk from a start reads nothing that  *)
(* the walk before it wrote, so the order of the pops is immaterial.       *)
(***************************************************************************)
EXTENDS CodeFlow

CONSTANTS
  DataVAs,  \* addresses at which another module may define data
  Imports   \* the Import locations that the loader defined

ASSUME BlocksAssumption == DataVAs \subseteq VA /\ Imports \subseteq VA

VARIABLES
  data,        \* addresses where a location of another type was defined
  codeblocks,  \* workspace.codeblocks: the block stored at each start
  analysed,    \* functions handed to BasicBlockAnalysis
  phase,       \* where analyze_function is
  func,        \* the function it was called for
  todo, done,  \* block starts to walk, and those it began to walk
  at,          \* va: the instruction it has come to
  start, walk, \* the start of the block, and its instructions so far
  blocks,      \* the blocks it found
  lost         \* history: starts whose walk ran into unreadable bytes

blockVars == <<data, codeblocks, analysed, phase, func, todo, done, at, start, walk, blocks, lost>>
allVars == <<vars, blockVars>>

BlocksInit ==
  /\ Init
  /\ data = Imports /\ codeblocks = [va \in VA |-> None] /\ analysed = {}
  /\ phase = "idle" /\ func = None /\ todo = {} /\ done = {}
  /\ at = 0 /\ start = 0 /\ walk = <<>> /\ blocks = {} /\ lost = {}

----------------------------------------------------------------------------
\* Another module defines a pointer or a string, between two runs.
DefineData(va) ==
  /\ phase = "idle" /\ ~running /\ va \notin ops \cup data
  /\ data' = data \cup {va}
  /\ UNCHANGED <<vars, codeblocks, analysed, phase, func, todo, done, at, start, walk, blocks, lost>>

Analyse(f) ==
  /\ phase = "idle" /\ ~running /\ f \in functions \ analysed
  /\ analysed' = analysed \cup {f}
  /\ phase' = "pop" /\ func' = f
  /\ todo' = {f} /\ done' = {} /\ blocks' = {} /\ lost' = {}
  /\ UNCHANGED <<vars, data, codeblocks, at, start, walk>>

\* Mutant: starts that were walked are not remembered.
PopForgets(s) ==
  /\ phase = "pop" /\ s \in todo
  /\ todo' = todo \ {s}
  /\ phase' = "walk" /\ at' = s /\ start' = s /\ walk' = <<>>
  /\ UNCHANGED <<vars, data, codeblocks, analysed, func, done, blocks, lost>>

\* A start that was walked before is never put back into todo.
Pop(s) ==
  /\ phase = "pop" /\ s \in todo
  /\ todo' = todo \ {s} /\ done' = done \cup {s}
  /\ phase' = "walk" /\ at' = s /\ start' = s /\ walk' = <<>>
  /\ UNCHANGED <<vars, data, codeblocks, analysed, func, blocks, lost>>

----------------------------------------------------------------------------
IsData(va) == va \in data \ ops
Decodes(va) == va \in VA /\ prog[va].decodes
After(va) == va + prog[va].size

\* The addresses a non-call names, in its operand or its cross-references of
\* any type; has_branch is that there are some.
Successors(va) ==
  IF prog[va].kind = "call" THEN {}
  ELSE Direct(prog[va]) \cup ({x.to : x \in {y \in xrefs : y.from = va}} \ {After(va)})

\* Control goes on to the next instruction.
Continues(va) == Falls(prog[va]) /\ ~NeverReturns(prog[va], noreturn)

\* Mutant: no reference is looked for after the first instruction.
SplitsLater(va) ==
  Successors(va) # {} \/ (walk # <<>> /\ \E x \in xrefs : x.to = After(va))

\* The block ends though control goes on: a branch, or a reference of any
\* type to the next instruction.
Splits(va) == Successors(va) # {} \/ \E x \in xrefs : x.to = After(va)

Close(insns, end) == blocks' = blocks \cup {[start |-> start, end |-> end, insns |-> insns]}

WalkMeetsData ==
  /\ phase = "walk" /\ IsData(at)
  /\ IF walk = <<>> THEN UNCHANGED blocks ELSE Close(walk, at)
  /\ phase' = "pop"
  /\ UNCHANGED <<vars, data, codeblocks, analysed, func, todo, done, at, start, walk, lost>>

\* Bytes that cannot be read or decoded: the block so far is dropped.
WalkFails ==
  /\ phase = "walk" /\ ~IsData(at) /\ ~Decodes(at)
  /\ lost' = lost \cup {start}
  /\ phase' = "pop"
  /\ UNCHANGED <<vars, data, codeblocks, analysed, func, todo, done, at, start, walk, blocks>>

WalkGoesOn ==
  /\ phase = "walk" /\ ~IsData(at) /\ Decodes(at)
  /\ Continues(at) /\ ~Splits(at)
  /\ walk' = Append(walk, at) /\ at' = After(at)
  /\ UNCHANGED <<vars, data, codeblocks, analysed, phase, func, todo, done, start, blocks, lost>>

\* Mutant: the instruction after a branch is not walked.
WalkEndsBlockOnly ==
  /\ phase = "walk" /\ ~IsData(at) /\ Decodes(at)
  /\ ~Continues(at) \/ Splits(at)
  /\ Close(Append(walk, at), After(at))
  /\ todo' = todo \cup ((Successors(at) \cap Mapped) \ done)
  /\ phase' = "pop"
  /\ UNCHANGED <<vars, data, codeblocks, analysed, func, done, at, start, walk, lost>>

WalkEndsBlock ==
  /\ phase = "walk" /\ ~IsData(at) /\ Decodes(at)
  /\ ~Continues(at) \/ Splits(at)
  /\ Close(Append(walk, at), After(at))
  /\ LET onward == IF Continues(at) THEN {After(at)} ELSE {}
     IN  todo' = todo \cup (((Successors(at) \cap Mapped) \cup onward) \ done)
  /\ phase' = "pop"
  /\ UNCHANGED <<vars, data, codeblocks, analysed, func, done, at, start, walk, lost>>

----------------------------------------------------------------------------
\* The addresses that calls and jumps among insns name.
Referred(blks) ==
  UNION {UNION {XRefs(va, Named(prog[va]) \cap Mapped, "code") :
                va \in {w \in Elements(b.insns) : prog[w].kind \in {"call", "jmp"}}} : b \in blks}

Stored ==
  [va \in VA |->
     IF \E b \in blocks : b.start = va
     THEN LET b == CHOOSE c \in blocks : c.start = va
          IN  [start |-> va, end |-> b.end, insns |-> b.insns, func |-> func]
     ELSE codeblocks[va]]

Owned(cb, f) == {cb[va] : va \in {w \in VA : cb[w] # None /\ cb[w].func = f}}

\* Mutant: the function's blocks are listed before the new ones are stored.
CommitListsFirst ==
  /\ phase = "pop" /\ todo = {}
  /\ codeblocks' = Stored
  /\ xrefs' = xrefs \cup Referred(Owned(codeblocks, func))
  /\ phase' = "idle"
  /\ UNCHANGED <<prog, functions, noreturn, ops, runVars, runs, entries, cut,
                 data, analysed, func, todo, done, at, start, walk, blocks, lost>>

\* BasicBlockAnalysis: store the blocks, then list the function's blocks and
\* add their cross-references.
Commit ==
  /\ phase = "pop" /\ todo = {}
  /\ codeblocks' = Stored
  /\ xrefs' = xrefs \cup Referred(Owned(codeblocks', func))
  /\ phase' = "idle"
  /\ UNCHANGED <<prog, functions, noreturn, ops, runVars, runs, entries, cut,
                 data, analysed, func, todo, done, at, start, walk, blocks, lost>>

BlockStep ==
  \/ \E s \in todo : Pop(s)
  \/ WalkMeetsData \/ WalkFails \/ WalkGoesOn \/ WalkEndsBlock
  \/ Commit

BlocksNext ==
  \/ phase = "idle" /\ Next /\ UNCHANGED blockVars
  \/ \E va \in DataVAs : DefineData(va)
  \/ \E f \in VA : Analyse(f)
  \/ BlockStep

BlocksSpec == BlocksInit /\ [][BlocksNext]_allVars

----------------------------------------------------------------------------
LastOf(b) == b.insns[Len(b.insns)]
Found == phase = "pop" /\ todo = {}

(***************************************************************************)
(* When the walk is over, control that leaves a block arrives at the start *)
(* of a block of the same function, unless there is no code there or its   *)
(* walk ran into unreadable bytes.  (The case of a jump table that follows *)
(* the jump itself is not in Successors.)                                  *)
(***************************************************************************)
IsStart(t) == t \in {b.start : b \in blocks} \cup lost \/ IsData(t)
BlocksClosed ==
  Found => \A b \in blocks :
    LET last == LastOf(b)
        onward == IF Continues(last) THEN {After(last)} ELSE {}
    IN  \A t \in (Successors(last) \cap Mapped) \cup onward : IsStart(t)

(***************************************************************************)
(* Blocks of one function may overlap (control may fall into its entry,    *)
(* or into code that code flow did not reach), but then they run on        *)
(* together: two that share an instruction end at the same address.        *)
(***************************************************************************)
OverlapsEndTogether ==
  \A b, c \in blocks : Elements(b.insns) \cap Elements(c.insns) # {} => b.end = c.end

(***************************************************************************)
(* Between two functions, every call and jump inside a stored block has    *)
(* its cross-reference, whichever function owns the block by then.         *)
(***************************************************************************)
StoredCallsReferenced ==
  phase = "idle" =>
    \A va \in VA : codeblocks[va] # None => Referred({codeblocks[va]}) \subseteq xrefs

(***************************************************************************)
(* The walk ends, whatever loops the function has.                         *)
(***************************************************************************)
WalkEnds == phase # "idle" ~> phase = "idle"

=============================================================================
