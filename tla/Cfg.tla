-------------------------------- MODULE Cfg --------------------------------
(***************************************************************************)
(* core/cfg.rs: the traversals of the control flow graph of one function.  *)
(* Parallel edges count: a traversal meets each.  The order in which a     *)
(* node's edges are met is arbitrary but fixed, that of SetToSeq.          *)
(***************************************************************************)
EXTENDS NoReturn, SequencesExt

Neighbours(g, n) ==
  LET out == SetToSeq({e \in g.edges : e.from = n})
  IN  [i \in DOMAIN out |-> out[i].to]

(***************************************************************************)
(* find_paths: depth first with a stack of paths, until max were found.    *)
(***************************************************************************)
RECURSIVE Search(_, _, _, _, _)
Search(g, to, max, stack, found) ==
  IF stack = <<>> \/ Len(found) >= max THEN found
  ELSE LET path == Last(stack)
           fresh == SelectSeq(Neighbours(g, Last(path)), LAMBDA n : n \notin Elements(path))
       IN  IF Last(path) = to
           THEN Search(g, to, max, Front(stack), Append(found, path))
           ELSE Search(g, to, max, Front(stack) \o [i \in DOMAIN fresh |-> Append(path, fresh[i])],
                       found)

\* Mutant: fall-through edges are not followed.
FindPathsByRef(g, from, to, max) ==
  IF {from, to} \subseteq g.nodes
  THEN Search([g EXCEPT !.edges = {e \in @ : e.for # None}], to, max, <<<<from>>>>, <<>>) ELSE <<>>

FindPaths(g, from, to, max) ==
  IF {from, to} \subseteq g.nodes THEN Search(g, to, max, <<<<from>>>>, <<>>) ELSE <<>>

(***************************************************************************)
(* find_loop_headers.  DfsPostOrder looks at the top of its stack: a node  *)
(* seen for the first time gets its unseen successors on top of it, one    *)
(* seen before is popped and, the first time, is next in the order.        *)
(***************************************************************************)
RECURSIVE PostOrder(_, _, _, _)
PostOrder(g, stack, seen, order) ==
  IF stack = <<>> THEN order
  ELSE LET top == Last(stack) IN
       IF top \notin seen
       THEN PostOrder(g, stack \o SelectSeq(Neighbours(g, top), LAMBDA n : n \notin seen \cup {top}),
                      seen \cup {top}, order)
       ELSE PostOrder(g, Front(stack), seen,
                      IF Contains(order, top) THEN order ELSE Append(order, top))

LoopHeaders(g) ==
  IF g.entry \notin g.nodes THEN {}
  ELSE LET order == PostOrder(g, <<g.entry>>, {}, <<>>)
       IN  {order[i] : i \in {j \in DOMAIN order :
              \E k \in DOMAIN order : k < j /\ \E e \in g.edges : e.from = order[k] /\ e.to = order[j]}}

----------------------------------------------------------------------------
RECURSIVE ReachedFrom(_, _)
ReachedFrom(edges, S) ==
  LET more == S \cup {e.to : e \in {x \in edges : x.from \in S}}
  IN  IF more = S THEN S ELSE ReachedFrom(edges, more)

SimplePaths(g, from, to) ==
  {p \in UNION {[1 .. n -> g.nodes] : n \in 1 .. Cardinality(g.nodes)} :
     /\ p[1] = from /\ p[Len(p)] = to /\ IsInjective(p)
     /\ \A i \in 1 .. Len(p) - 1 : \E e \in g.edges : e.from = p[i] /\ e.to = p[i + 1]}

BuiltCfgs == {FunctionCfg(f, h) : f \in functions, h \in Holders}

PathsFound(g) ==
  \A from, to \in g.nodes, max \in 1 .. 3 :
    LET found == FindPaths(g, from, to, max)
        all == SimplePaths(g, from, to)
    IN  /\ Elements(found) \subseteq all /\ Len(found) <= max
        /\ Len(found) < max => Elements(found) = all

HeadersCutLoops(g) ==
  LET reached == IF g.entry \in g.nodes THEN ReachedFrom(g.edges, {g.entry}) ELSE {}
      proper == {e \in g.edges : e.from # e.to /\ e.from \in reached}
      headers == LoopHeaders(g)
      forward == {e \in proper : e.to \notin headers}
  IN  /\ \A n \in reached : n \notin ReachedFrom(forward, {e.to : e \in {x \in forward : x.from = n}})
      /\ \A n \in headers : n \in ReachedFrom(proper, {e.to : e \in {x \in proper : x.from = n}})

(***************************************************************************)
(* The algorithms on a graph against their definitions.  find_paths        *)
(* returns simple paths only and, unless it was stopped by max, all of     *)
(* them (a path over parallel edges once for each).  Every loop of more    *)
(* than one block that the entry reaches passes a header, and every header *)
(* is on a loop.                                                           *)
(***************************************************************************)
PathsAndLoopsExact ==
  stage = "done" => \A g \in BuiltCfgs : PathsFound(g) /\ HeadersCutLoops(g)

=============================================================================
