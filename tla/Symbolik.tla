------------------------------ MODULE Symbolik ------------------------------
(***************************************************************************)
(* symboliks/analysis.rs, symboliks/workspace.rs and symswitchcase.rs: a   *)
(* function's blocks are translated one after another, its paths walked    *)
(* depth first, and the constraints of the paths that reach an indirect    *)
(* jump give the cases of its table.                                       *)
(***************************************************************************)
EXTENDS Translator, Solver

CONSTANTS
  Functions,      \* the functions analysed
  Registers,      \* those get_func_emu initialises
  Indexes,        \* the index candidates, in their order
  MaxPaths, MaxLoop, MaxCases

\* A function has its blocks by address, [va, ops, succs], the first its entry;
\* jump, the block of its indirect jump, table, what that jump reads (<<>> when
\* its base is not found), code, the addresses of code sections, and known,
\* those that are already a function or a location.

VARIABLES
  fn,       \* the function
  next,     \* the block to translate
  trans,    \* the translator
  graph,    \* SymbolikGraph: [va, ops, effects, succs] by address, each successor with its constraint
  work,     \* the work stack, its top last
  results,  \* PathResult: [emu, effects, cons, path]
  phase,
  indexes,  \* the indexes found for the jump, in their order
  targets,  \* what the table holds for them
  wired     \* those made blocks of the function
vars == <<fn, next, trans, graph, work, results, phase, indexes, targets, wired>>
switch == <<indexes, targets, wired>>

Init ==
  /\ fn \in Functions
  /\ next = 1 /\ trans = NewTranslator /\ graph = <<>>
  /\ work = <<>> /\ results = <<>> /\ phase = "translate"
  /\ indexes = <<>> /\ targets = <<>> /\ wired = {}

(***************************************************************************)
(* build_symbolik_graph, a block at a time, with one translator for all of *)
(* them.  An edge takes the first constraint put on its target.            *)
(***************************************************************************)
TranslateOps(tr, ops) ==
  FoldLeft(LAMBDA s, op :
             LET t == Translate(s.tr, op) IN [tr |-> t, cons |-> s.cons \o t.cons],
           [tr |-> tr, cons |-> <<>>], ops)

EdgeConstraint(cons, target) ==
  LET on == SelectSeq(cons, LAMBDA c : c.target = target)
  IN  IF on = <<>> THEN {} ELSE {on[1].c}

TranslateBlock ==
  /\ phase = "translate" /\ next <= Len(fn.blocks)
  /\ LET b == fn.blocks[next]
         t == TranslateOps(ClearEffects(trans), b.ops)
     IN  /\ trans' = t.tr
         /\ graph' = Put(graph, b.va,
              [va |-> b.va, ops |-> b.ops, effects |-> t.tr.effects,
               succs |-> [i \in DOMAIN b.succs |->
                            [va |-> b.succs[i], on |-> EdgeConstraint(t.cons, b.succs[i])]]])
  /\ next' = next + 1
  /\ UNCHANGED <<fn, work, results, phase, switch>>

(***************************************************************************)
(* walk_symbolik_paths.  The entry's effects are applied to a fresh        *)
(* emulator; each of its edges is an item of work, as is each edge of a    *)
(* block reached: the state and the path so far, and where to go.          *)
(***************************************************************************)
Edges(b, snap, effects, path, cons) ==
  [i \in DOMAIN b.succs |->
     [snap |-> snap, effects |-> effects, path |-> path, cons |-> cons, edge |-> b.succs[i]]]

StartWalk ==
  /\ phase = "translate" /\ next > Len(fn.blocks)
  /\ LET b == graph[fn.blocks[1].va]
         emu == ApplyEffects(NewEmulator(Registers), b.effects)
     IN  IF b.succs = <<>>
         THEN /\ results' = <<[emu |-> emu, effects |-> b.effects, cons |-> <<>>, path |-> <<b.va>>]>>
              /\ UNCHANGED work
         ELSE /\ work' = Edges(b, Snapshot(emu), b.effects, <<b.va>>, <<>>)
              /\ UNCHANGED results
  /\ phase' = "walk"
  /\ UNCHANGED <<fn, next, trans, graph, switch>>

Visits(path, va) == Len(SelectSeq(path, LAMBDA v : v = va))

\* Mutant: the state is that of before the block.
ArriveLate(w) == Restore([NewEmulator({}) EXCEPT !.cons = SetToSeq(w.edge.on)], w.snap)

\* The state at the end of an edge: the block's effects on the snapshot, with
\* the edge's constraint and none of those before it.
Arrive(w) ==
  ApplyEffects(Restore([NewEmulator({}) EXCEPT !.cons = SetToSeq(w.edge.on)], w.snap),
               graph[w.edge.va].effects)

\* Mutant: the loop is cut a turn late.
CutLate(w) == Visits(w.path, w.edge.va) > MaxLoop

Cut(w) == Visits(w.path, w.edge.va) >= MaxLoop

Walk ==
  /\ phase = "walk" /\ work /= <<>> /\ Len(results) < MaxPaths
  /\ LET w == Last(work)
         rest == Front(work)
         b == graph[w.edge.va]
         emu == Arrive(w)
         effects == w.effects \o AppliedEffects(b.effects)
         path == Append(w.path, b.va)
         cons == w.cons \o SetToSeq(w.edge.on)
     IN  IF Cut(w) \/ w.edge.va \notin DOMAIN graph \/ ~PathSatisfiable(SetToSeq(w.edge.on))
         THEN work' = rest /\ UNCHANGED results
         ELSE IF b.succs = <<>>
         THEN /\ work' = rest
              /\ results' = Append(results, [emu |-> emu, effects |-> effects, cons |-> cons, path |-> path])
         ELSE /\ work' = rest \o Edges(b, Snapshot(emu), effects, path, cons)
              /\ UNCHANGED results
  /\ UNCHANGED <<fn, next, trans, graph, phase, switch>>

EndWalk ==
  /\ phase = "walk" /\ (work = <<>> \/ Len(results) >= MaxPaths)
  /\ phase' = "switch"
  /\ UNCHANGED <<fn, next, trans, graph, work, results, switch>>

(***************************************************************************)
(* symswitchcase.rs                                                        *)
(***************************************************************************)
\* The values a candidate has under one path's constraints, if they bound it.
CaseValues(n, cons) ==
  LET b == Bounds(n, cons) IN
  IF cons = <<>> \/ IsEmpty(b) \/ b.upper - b.lower >= MaxCases THEN <<>>
  ELSE EnumerateValues(n, PointerSize, cons, MaxCases)

\* resolve_switch_range_symbolic: the first candidate with values on the first
\* path that bounds it, of the paths that go through the jump's block.
Ranges(f) ==
  LET through == SelectSeq(results, LAMBDA r : f.jump \in Range(r.path))
      found == FlattenSeq([i \in DOMAIN Indexes |->
                  [j \in DOMAIN through |-> CaseValues(Indexes[i], through[j].cons)]])
  IN  SelectSeq(found, LAMBDA v : v /= <<>>)

\* The table's entries at the indexes that can be read and are code.
AtIndexes(f, values) ==
  LET readable == SelectSeq(values, LAMBDA v : v < Len(f.table) /\ f.table[v + 1] \in f.code)
  IN  [i \in DOMAIN readable |-> f.table[readable[i] + 1]]

\* enumerate_jump_table: entry by entry until one is not code, each target once.
WholeTable(f) ==
  LET stop == {i \in DOMAIN f.table : f.table[i] \notin f.code} \cup {Len(f.table) + 1, MaxCases + 1}
      read == SubSeq(f.table, 1, Min(stop) - 1)
      first == SelectSeq([i \in DOMAIN read |-> i], LAMBDA i : read[i] \notin Range(SubSeq(read, 1, i - 1)))
  IN  [k \in DOMAIN first |-> read[first[k]]]

\* Each target gets a code reference from the jump; one that is neither a
\* function nor a location becomes a block of the function, of size 0.
Switch ==
  /\ phase = "switch"
  /\ LET ranges == Ranges(fn)
         found == IF ranges /= <<>> THEN AtIndexes(fn, ranges[1]) ELSE WholeTable(fn)
     IN  /\ indexes' = IF ranges /= <<>> THEN ranges[1] ELSE <<>>
         /\ targets' = found
         /\ wired' = Range(found) \ fn.known
  /\ phase' = "done"
  /\ UNCHANGED <<fn, next, trans, graph, work, results>>

Next == TranslateBlock \/ StartWalk \/ Walk \/ EndWalk \/ Switch
Spec == Init /\ [][Next]_vars

(***************************************************************************)
(* What the processor does with the instructions the properties need.  A   *)
(* comparison directly precedes every conditional jump of the functions    *)
(* they are about.                                                         *)
(***************************************************************************)
Source(st, o) == IF o.k = "imm" THEN o.v ELSE st.regs[o.n]
Executed == DOMAIN Binary \cup DOMAIN Unary \cup DOMAIN ByOne \cup DOMAIN Jumps
              \cup {"mov", "cmp", "test", "jmp", "ret"}
SignedJumps == {"je", "jne", "jl", "jle", "jg", "jge"}

Execute(st, op) ==
  LET x == Source(st, op.opers[1])
      y == IF Len(op.opers) > 1 THEN Source(st, op.opers[2]) ELSE 1
      Result1(v) == [st EXCEPT !.regs[op.opers[1].n] = v]
  IN  CASE op.mnem = "mov" -> Result1(y)
        [] op.mnem \in DOMAIN Binary -> Result1(SolveOp(Binary[op.mnem], x, y))
        [] op.mnem \in DOMAIN Unary -> Result1(SolveOp(Unary[op.mnem], x, 0))
        [] op.mnem \in DOMAIN ByOne -> Result1(SolveOp(ByOne[op.mnem], x, 1))
        [] op.mnem = "cmp" -> [st EXCEPT !.l = x, !.r = y]
        [] op.mnem = "test" -> [st EXCEPT !.l = SolveOp("and", x, y), !.r = 0]
        [] OTHER -> st

Taken(m, st) ==
  CASE m = "jbe" -> st.l <= st.r
    [] m = "jae" -> st.l >= st.r
    [] OTHER -> Holds(Jumps[m], st.l, st.r)

\* Where the processor goes from a block, if anywhere in the function.
Goes(b, st) ==
  LET op == Last(b.ops) IN
  IF b.succs = <<>> THEN {}
  ELSE IF op.mnem \in DOMAIN Jumps
  THEN {IF Taken(op.mnem, st) THEN op.opers[1].v ELSE op.va + 1}
  ELSE {b.succs[1]}

BlockAt(f, va) == CHOOSE b \in Range(f.blocks) : b.va = va

RECURSIVE RunFrom(_, _, _, _)
RunFrom(f, va, st, path) ==
  LET b == BlockAt(f, va)
      end == FoldLeft(Execute, st, b.ops)
      to == Goes(b, end)
      sofar == Append(path, va)
  IN  IF to = {} \/ Len(sofar) > MaxLoop * Len(f.blocks) THEN [path |-> sofar, regs |-> end.regs]
      ELSE RunFrom(f, CHOOSE v \in to : TRUE, end, sofar)
Run(f, env) == RunFrom(f, f.blocks[1].va, [regs |-> env, l |-> 0, r |-> 0], <<>>)

CONSTANTS
  Envs,    \* values of the names at entry
  Inputs   \* of them, those with each value of an index

Done == phase = "done"
InOrder(f, path) == \A i \in DOMAIN path : i <= Len(f.blocks) /\ path[i] = f.blocks[i].va
Plain(f, jumps) ==
  \A b \in Range(f.blocks) : \A op \in Range(b.ops) :
    op.mnem \in (Executed \ DOMAIN Jumps) \cup jumps

\* The paths from a path on, to a block without successors.
Satisfied(c) == PathSatisfiable(SetToSeq(c))
RECURSIVE Completions(_)
Completions(path) ==
  LET b == graph[Last(path)] IN
  IF b.succs = <<>> THEN {path}
  ELSE UNION {Completions(Append(path, s.va)) :
                s \in {s \in Range(b.succs) :
                         s.va \in DOMAIN graph /\ Visits(path, s.va) < MaxLoop /\ Satisfied(s.on)}}
AllPaths == Completions(<<fn.blocks[1].va>>)

(***************************************************************************)
(* The walk records paths of the graph from its entry to a block without   *)
(* successors, none with a block more than MaxLoop times, none twice and   *)
(* no more than MaxPaths; when it ends before that many, every such path   *)
(* whose constraints can hold is recorded.                                 *)
(***************************************************************************)
PathsWalked ==
  LET paths == {results[i].path : i \in DOMAIN results} IN
  /\ Len(results) = Cardinality(paths) /\ Len(results) <= MaxPaths
  /\ phase /= "translate" => paths \subseteq AllPaths
  /\ Done /\ Len(results) < MaxPaths => paths = AllPaths

(***************************************************************************)
(* A path that takes the blocks in the order they were translated ends in  *)
(* the state the processor is in after it, for every run that takes it,    *)
(* and its constraints hold of exactly those runs.                         *)
(***************************************************************************)
InOrderExact ==
  Done /\ Plain(fn, SignedJumps) =>
    \A r \in Range(results) : InOrder(fn, r.path) =>
      \A env \in Envs :
        LET run == Run(fn, env)
            holds == \A c \in Range(r.cons) : Eval(c, env) = 1
        IN  /\ holds <=> run.path = r.path
            /\ holds => \A n \in Registers \ {Stack} :
                          Eval(RegisterIn(r.emu.regs, n), env) = run.regs[n]

(***************************************************************************)
(* No run takes such a path that the walk has found contradictory.         *)
(***************************************************************************)
PrunedInfeasible ==
  Done /\ Plain(fn, SignedJumps) /\ Len(results) < MaxPaths =>
    \A env \in Envs :
      LET path == Run(fn, env).path
      IN  InOrder(fn, path) => path \in {results[i].path : i \in DOMAIN results}

(***************************************************************************)
(* Rewriting a value an instruction computes, by reducing it or by putting *)
(* a value for a name, leaves it worth what it was.                        *)
(***************************************************************************)
RewritesKeepMeaning ==
  Done => \A b \in Range(graph) : \A f \in Range(b.effects) :
    f.k \in {"set", "write"} =>
      \A env \in Envs :
        /\ Eval(Reduce(f.v), env) = Eval(f.v, env)
        /\ \A n \in Names(f.v) :
             LET new == Oper("add", Var(n, PointerSize), Const(1, PointerSize))
             IN  Eval(Substitute(f.v, n, new), env)
                   = Eval(f.v, [env EXCEPT ![n] = Eval(new, env)])

(***************************************************************************)
(* "A bounds-based solver then enumerates all satisfying values to         *)
(* determine how many cases the switch handles": the indexes found are     *)
(* those with which the processor reaches the jump.                        *)
(***************************************************************************)
CasesExact ==
  Done /\ Plain(fn, DOMAIN Jumps) /\ indexes /= <<>> =>
    \E n \in Range(Indexes) :
      Range(indexes) = {env[n] : env \in {e \in Inputs : fn.jump \in Range(Run(fn, e).path)}}
=============================================================================
