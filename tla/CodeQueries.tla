---------------------------- MODULE CodeQueries ----------------------------
(***************************************************************************)
(* The queries of core/workspace.rs over stored blocks, and the graphs     *)
(* built from them: the call graph of core/callgraph.rs and the control    *)
(* flow graph of one function of core/cfg.rs.  Nothing is cached: each     *)
(* reads the blocks and cross-references that are stored by then, also     *)
(* blocks that overlap or belong to another function than when they were   *)
(* found.                                                                  *)
(***************************************************************************)
EXTENDS Blocks

CONSTANT Window   \* the last bytes of a block that are searched for its branch (15)

ASSUME QueriesAssumption == Window \in Nat \ {0}

AllBlocks == {codeblocks[va] : va \in VA} \ {None}
Starts == {b.start : b \in AllBlocks}
OwnedBy(f) == {b \in AllBlocks : b.func = f}
Bytes(b) == b.start .. (b.end - 1)
TailOf(b) == {a \in Bytes(b) : a >= b.end - Window}
CodeRefs == {x \in xrefs : x.type = "code"}
RefsFrom(addrs) == {x.to : x \in {y \in CodeRefs : y.from \in addrs}}
BlockFallsThrough(b) == Falls(prog[LastOf(b)])

\* Every address in the tail counts, not only the last instruction: a call in
\* it makes the callee a successor.
BlockSuccessors(b) ==
  (RefsFrom(TailOf(b)) \cup (IF BlockFallsThrough(b) THEN {b.end} ELSE {})) \cap Starts

(***************************************************************************)
(* Where blocks overlap an address is in several, and a lookup by address  *)
(* finds one of them, by insertion order or by that of a hash map.         *)
(***************************************************************************)
Holders ==
  {h \in [UNION {Bytes(b) : b \in AllBlocks} -> Starts] :
     \A a \in DOMAIN h : a \in Bytes(codeblocks[h[a]])}

\* get_block_predecessors, and compute_block_predecessors without "verified".
BlockPredecessors(b, holder, verified) ==
  {holder[x.from] : x \in {y \in CodeRefs : y.to = b.start /\ y.from \in DOMAIN holder}}
  \cup {c.start : c \in {d \in AllBlocks : d.end = b.start /\ (verified => BlockFallsThrough(d))}}

(***************************************************************************)
(* build_call_graph.  The caller is the owner of the block with the        *)
(* nearest start, if it reaches that far.  A cross-reference to a function *)
(* counts as a call, whatever the instruction; one to the caller itself    *)
(* does not.                                                               *)
(***************************************************************************)
OwnerOf(a) ==
  LET below == {s \in Starts : s <= a}
      near == CHOOSE s \in below : \A t \in below : t <= s
  IN  IF below = {} \/ a \notin Bytes(codeblocks[near]) THEN None ELSE codeblocks[near].func

CallEdges ==
  {[caller |-> OwnerOf(x.from), callee |-> x.to, site |-> x.from] :
   x \in {y \in CodeRefs : y.to \in functions /\ OwnerOf(y.from) \notin {None, y.to}}}

----------------------------------------------------------------------------
(***************************************************************************)
(* CfgBuilder::build_function_cfg, with the lookup by address that it      *)
(* made.  An edge carries what it was made for, because petgraph keeps     *)
(* parallel edges.                                                         *)
(***************************************************************************)
RefEdges(f, b, holder) ==
  {[from |-> b.start, to |-> holder[x.to], for |-> x] :
   x \in {y \in CodeRefs : y.from \in TailOf(b) /\ y.to \in DOMAIN holder
                           /\ codeblocks[holder[y.to]].func = f}}

\* Mutant: no fall-through from a block that has an edge already.
FallEdgesIfAlone(f, b, holder) ==
  {[from |-> b.start, to |-> holder[a], for |-> None] :
   a \in {e \in {b.end} \cap DOMAIN holder :
            /\ codeblocks[holder[e]].func = f /\ holder[e] # b.start
            /\ RefEdges(f, b, holder) = {}}}

\* Whether the block falls through is not asked.
FallEdges(f, b, holder) ==
  {[from |-> b.start, to |-> holder[a], for |-> None] :
   a \in {e \in {b.end} \cap DOMAIN holder :
            /\ codeblocks[holder[e]].func = f /\ holder[e] # b.start
            /\ \A r \in RefEdges(f, b, holder) : r.to # holder[e]}}

FunctionCfg(f, holder) ==
  [entry |-> f, nodes |-> {b.start : b \in OwnedBy(f)},
   edges |-> UNION {RefEdges(f, b, holder) \cup FallEdges(f, b, holder) : b \in OwnedBy(f)}]

\* The same by the block queries, which do look.
QueryEdges(f) ==
  UNION {{b.start} \X (BlockSuccessors(b) \cap {c.start : c \in OwnedBy(f)}) : b \in OwnedBy(f)}

----------------------------------------------------------------------------
(***************************************************************************)
(* Between two functions the answers built from the same blocks and        *)
(* cross-references agree, if no two blocks overlap: the control flow      *)
(* graph has every edge of the block queries, predecessors mirror          *)
(* successors, and the call graph has every direct call to another         *)
(* function.                                                               *)
(***************************************************************************)
GraphsAgree ==
  phase = "idle" /\ (\A a, b \in AllBlocks : a # b => Bytes(a) \cap Bytes(b) = {}) =>
    /\ \A h \in Holders :
         /\ \A f \in functions :
              QueryEdges(f) \subseteq {<<e.from, e.to>> : e \in FunctionCfg(f, h).edges}
         /\ \A b, c \in AllBlocks :
              c.start \in BlockSuccessors(b) => b.start \in BlockPredecessors(c, h, TRUE)
    /\ \A b \in AllBlocks : \A va \in Elements(b.insns) :
         prog[va].kind = "call" =>
           \A t \in (Direct(prog[va]) \cap functions \cap Mapped) \ {b.func} :
             [caller |-> b.func, callee |-> t, site |-> va] \in CallEdges

=============================================================================
