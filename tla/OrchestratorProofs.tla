------------------------- MODULE OrchestratorProofs -------------------------
(***************************************************************************)
(* Theorems about Orchestrator, for any functions, any number of modules   *)
(* of either kind, any cap and any number of analyses.                     *)
(***************************************************************************)
EXTENDS Orchestrator, FiniteSetTheorems, SequenceTheorems, TLAPS

Distinct(q) == \A i, j \in DOMAIN q : q[i] = q[j] => i = j

LEMMA EmptyQueue == Listed(<<>>) = {} /\ Distinct(<<>>)
BY DEF Listed, Distinct

LEMMA QueueAppend ==
  ASSUME NEW S, NEW q \in Seq(S), NEW f \in S
  PROVE  /\ Append(q, f) \in Seq(S)
         /\ Listed(Append(q, f)) = Listed(q) \cup {f}
         /\ Distinct(q) /\ f \notin Listed(q) => Distinct(Append(q, f))
<1> DEFINE r == Append(q, f)
           n == Len(q) + 1
<1>1. /\ r \in Seq(S) /\ DOMAIN r = 1 .. n /\ DOMAIN q = 1 .. Len(q)
      /\ r[n] = f /\ \A i \in 1 .. Len(q) : r[i] = q[i]
      /\ n \in Nat /\ Len(q) \in Nat /\ n \notin 1 .. Len(q)
      /\ 1 .. n = (1 .. Len(q)) \cup {n}
  OBVIOUS
<1> HIDE DEF r, n
<1>2. Listed(r) = Listed(q) \cup {f}
  <2>1. Listed(r) = {r[i] : i \in 1 .. Len(q)} \cup {r[n]}  BY <1>1 DEF Listed
  <2>2. {r[i] : i \in 1 .. Len(q)} = Listed(q)  BY <1>1 DEF Listed
  <2>3. QED BY <1>1, <2>1, <2>2
<1>3. ASSUME Distinct(q), f \notin Listed(q) PROVE Distinct(r)
  <2> SUFFICES ASSUME NEW i \in 1 .. n, NEW j \in 1 .. n, r[i] = r[j] PROVE i = j
    BY <1>1 DEF Distinct
  <2>1. CASE i \in 1 .. Len(q) /\ j \in 1 .. Len(q)
    BY <1>1, <1>3, <2>1 DEF Distinct
  <2>2. CASE i = n /\ j \in 1 .. Len(q)
    BY <1>1, <1>3, <2>2 DEF Listed
  <2>3. CASE i \in 1 .. Len(q) /\ j = n
    BY <1>1, <1>3, <2>3 DEF Listed
  <2>4. CASE i = n /\ j = n  BY <2>4
  <2>5. QED BY <1>1, <2>1, <2>2, <2>3, <2>4
<1>4. QED BY <1>1, <1>2, <1>3 DEF r

LEMMA QueueTail ==
  ASSUME NEW S, NEW q \in Seq(S), q # <<>>
  PROVE  /\ Tail(q) \in Seq(S) /\ Head(q) \in S
         /\ Listed(q) = {Head(q)} \cup Listed(Tail(q))
         /\ Distinct(q) => Distinct(Tail(q)) /\ Head(q) \notin Listed(Tail(q))
<1> DEFINE t == Tail(q)
           m == Len(q) - 1
<1>1. /\ t \in Seq(S) /\ DOMAIN t = 1 .. m /\ DOMAIN q = 1 .. Len(q)
      /\ Head(q) = q[1] /\ q[1] \in S /\ Len(q) = m + 1 /\ m \in Nat
      /\ \A i \in 1 .. m : t[i] = q[i + 1]
  OBVIOUS
<1> HIDE DEF t, m
<1>2. /\ 1 \in 1 .. m + 1 /\ \A i \in 1 .. m : i + 1 \in 1 .. m + 1 /\ i + 1 # 1
      /\ \A i \in 1 .. m + 1 : i = 1 \/ (i - 1 \in 1 .. m /\ i = (i - 1) + 1)
  BY <1>1
<1>3. Listed(q) \subseteq {Head(q)} \cup Listed(t)
  <2> SUFFICES ASSUME NEW i \in 1 .. m + 1, i # 1 PROVE q[i] \in Listed(t)
    BY <1>1 DEF Listed
  <2>1. i - 1 \in 1 .. m /\ q[i] = t[i - 1]  BY <1>1, <1>2
  <2>2. QED BY <1>1, <2>1 DEF Listed
<1>4. {Head(q)} \cup Listed(t) \subseteq Listed(q)
  <2>1. Head(q) \in Listed(q)  BY <1>1, <1>2 DEF Listed
  <2>2. ASSUME NEW i \in 1 .. m PROVE t[i] \in Listed(q)
    <3>1. i + 1 \in DOMAIN q /\ t[i] = q[i + 1]  BY <1>1, <1>2
    <3>2. QED BY <3>1 DEF Listed
  <2>3. QED BY <1>1, <2>1, <2>2 DEF Listed
<1>5. ASSUME Distinct(q) PROVE Distinct(t) /\ Head(q) \notin Listed(t)
  <2>1. Head(q) \notin Listed(t)  BY <1>1, <1>2, <1>5 DEF Listed, Distinct
  <2>2. Distinct(t)
    <3> SUFFICES ASSUME NEW i \in 1 .. m, NEW j \in 1 .. m, t[i] = t[j] PROVE i = j
      BY <1>1 DEF Distinct
    <3>1. /\ i + 1 \in DOMAIN q /\ j + 1 \in DOMAIN q
          /\ q[i + 1] = t[i] /\ q[j + 1] = t[j]
      BY <1>1, <1>2
    <3>2. i + 1 = j + 1  BY <3>1, <1>5 DEF Distinct
    <3>3. QED BY <3>2
  <2>3. QED BY <2>1, <2>2
<1>6. QED BY <1>1, <1>3, <1>4, <1>5 DEF t

----------------------------------------------------------------------------
(***************************************************************************)
(* What the place in the loops says of the counters: the index is of a     *)
(* module, the cap is not passed yet, and there is a function in hand.     *)
(***************************************************************************)
InLoop ==
  /\ pc \notin {"idle", "next"} => mi <= NModules
  /\ pc \notin {"idle", "after"} => total <= MaxFunctions
  /\ pc \in {"func", "funcmodule"} => cur \in Funcs

LEMMA LoopInvariant == Spec => [](TypeOK /\ InLoop)
<1> USE OrchestratorAssumption DEF Places
<1>1. Init => TypeOK /\ InLoop
  <2> SUFFICES ASSUME Init PROVE TypeOK /\ InLoop  OBVIOUS
  <2>1. <<>> \in Seq(Funcs) /\ <<>> \in Seq(1 .. NFuncModules)  OBVIOUS
  <2>2. /\ 1 \in 1 .. NModules + 1 /\ 1 \in 1 .. NFuncModules + 1
        /\ 0 \in 0 .. MaxFunctions + 1 /\ 0 \in 0 .. MaxAnalyses
    OBVIOUS
  <2>3. seen \in [Funcs -> Seq(1 .. NFuncModules)]  BY <2>1 DEF Init
  <2>4. TypeOK  BY <2>1, <2>2, <2>3 DEF Init, TypeOK
  <2>5. QED BY <2>4 DEF Init, InLoop
<1>2. TypeOK /\ InLoop /\ [Next]_vars => (TypeOK /\ InLoop)'
  <2> SUFFICES ASSUME TypeOK, InLoop, [Next]_vars PROVE (TypeOK /\ InLoop)'  OBVIOUS
  <2>0. <<>> \in Seq(Funcs) /\ 1 \in 1 .. NModules + 1 /\ 1 \in 1 .. NFuncModules + 1
        /\ 0 \in 0 .. MaxFunctions + 1
    OBVIOUS
  <2>1. ASSUME NEW f \in Funcs, AddFunction(f) PROVE (TypeOK /\ InLoop)'
    <3>1. pending' \in Seq(Funcs)  BY <2>1, QueueAppend DEF AddFunction, TypeOK
    <3>2. fresh' \in SUBSET Funcs  BY <2>1 DEF AddFunction, TypeOK
    <3>3. QED BY <2>1, <3>1, <3>2 DEF AddFunction, TypeOK, InLoop, loopVars
  <2>2. ASSUME Begin PROVE (TypeOK /\ InLoop)'
    <3>1. analyses' \in 0 .. MaxAnalyses  BY <2>2 DEF Begin, TypeOK
    <3>2. fresh' \in SUBSET Funcs  BY <2>2 DEF Begin
    <3>3. TypeOK'  BY <2>0, <2>2, <3>1, <3>2 DEF Begin, TypeOK
    <3>4. InLoop'  BY <2>2 DEF Begin, InLoop
    <3>5. QED BY <3>3, <3>4
  <2>3. ASSUME Tick PROVE (TypeOK /\ InLoop)'
    BY <2>3 DEF Tick, TypeOK, InLoop, loopVars
  <2>4. ASSUME EndOfModules PROVE (TypeOK /\ InLoop)'
    BY <2>4 DEF EndOfModules, TypeOK, InLoop, loopVars
  <2>5. ASSUME SkipModule PROVE (TypeOK /\ InLoop)'
    <3>1. mi' \in 1 .. NModules + 1  BY <2>5 DEF SkipModule, TypeOK
    <3>2. QED BY <2>5, <3>1 DEF SkipModule, TypeOK, InLoop
  <2>6. ASSUME RunModule PROVE (TypeOK /\ InLoop)'
    BY <2>6 DEF RunModule, TypeOK, InLoop, loopVars
  <2>7. ASSUME ModuleReturns PROVE (TypeOK /\ InLoop)'
    <3>1. mi + 1 \in 1 .. NModules + 1  BY <2>7 DEF ModuleReturns, TypeOK, InLoop
    <3>2. mi' \in 1 .. NModules + 1 /\ pc' \in {"next", "drain"}
      BY <2>7, <3>1 DEF ModuleReturns, TypeOK
    <3>3. pc' = "drain" => mi' = mi  BY <2>7 DEF ModuleReturns
    <3>4. QED BY <2>7, <3>2, <3>3 DEF ModuleReturns, TypeOK, InLoop
  <2>8. ASSUME AfterCascade PROVE (TypeOK /\ InLoop)'
    <3>1. mi + 1 \in 1 .. NModules + 1  BY <2>8 DEF AfterCascade, TypeOK, InLoop
    <3>2. CASE total > MaxFunctions
      BY <2>8, <3>2 DEF AfterCascade, TypeOK, InLoop
    <3>3. CASE ~(total > MaxFunctions)
      <4>1. total <= MaxFunctions  BY <3>3 DEF TypeOK
      <4>2. QED BY <2>8, <3>1, <3>3, <4>1 DEF AfterCascade, TypeOK, InLoop
    <3>4. QED BY <3>2, <3>3
  <2>9. ASSUME Drain PROVE (TypeOK /\ InLoop)'
    BY <2>0, <2>9 DEF Drain, TypeOK, InLoop
  <2>10. ASSUME TakeFunction PROVE (TypeOK /\ InLoop)'
    <3>1. Tail(batch) \in Seq(Funcs) /\ Head(batch) \in Funcs
      BY <2>10, QueueTail DEF TakeFunction, TypeOK
    <3>2. total' \in 0 .. MaxFunctions + 1  BY <2>10 DEF TakeFunction, TypeOK, InLoop
    <3>3. CASE total' > MaxFunctions \/ late
      BY <2>0, <2>10, <3>2, <3>3 DEF TakeFunction, TypeOK, InLoop
    <3>4. CASE ~(total' > MaxFunctions \/ late)
      <4>1. total' <= MaxFunctions  BY <3>2, <3>4
      <4>2. QED BY <2>0, <2>10, <3>1, <3>2, <3>4, <4>1 DEF TakeFunction, TypeOK, InLoop
    <3>5. QED BY <3>3, <3>4
  <2>11. ASSUME BatchDone PROVE (TypeOK /\ InLoop)'
    BY <2>11 DEF BatchDone, TypeOK, InLoop, loopVars
  <2>12. ASSUME NEW runs \in BOOLEAN, OfferFunction(runs) PROVE (TypeOK /\ InLoop)'
    <3>1. /\ cur \in Funcs /\ fi \in 1 .. NFuncModules
          /\ fi' \in 1 .. NFuncModules + 1
      BY <2>12 DEF OfferFunction, TypeOK, InLoop
    <3>2. Append(seen[cur], fi) \in Seq(1 .. NFuncModules)
      BY <3>1 DEF TypeOK
    <3>3. seen' \in [Funcs -> Seq(1 .. NFuncModules)]
      BY <2>12, <3>1, <3>2 DEF OfferFunction, TypeOK
    <3>4. QED BY <2>12, <3>1, <3>3 DEF OfferFunction, TypeOK, InLoop
  <2>13. ASSUME FuncModuleReturns PROVE (TypeOK /\ InLoop)'
    BY <2>13 DEF FuncModuleReturns, TypeOK, InLoop, loopVars
  <2>14. ASSUME FunctionDone PROVE (TypeOK /\ InLoop)'
    BY <2>14 DEF FunctionDone, TypeOK, InLoop
  <2>15. ASSUME UNCHANGED vars PROVE (TypeOK /\ InLoop)'
    BY <2>15 DEF vars, loopVars, TypeOK, InLoop
  <2>16. QED
    BY <2>1, <2>2, <2>3, <2>4, <2>5, <2>6, <2>7, <2>8, <2>9, <2>10, <2>11, <2>12,
       <2>13, <2>14, <2>15 DEF Next, Step, Finished
<1>3. QED BY <1>1, <1>2, PTL DEF Spec

(***************************************************************************)
(* The state of analyze() and of the pending list stays well typed; in     *)
(* particular no run counts past the function that exceeds the cap.        *)
(***************************************************************************)
THEOREM TypeCorrect == Spec => []TypeOK
BY LoopInvariant, PTL

(***************************************************************************)
(* No workspace module starts once a limit cut a cascade short.            *)
(***************************************************************************)
THEOREM LimitsStopModules == Spec => NoModuleAfterLimit
<1>1. TypeOK /\ InLoop /\ [Next]_vars => [pc' = "module" /\ pc # "module" => ~Limited]_vars
  <2> SUFFICES ASSUME TypeOK, InLoop, Next, pc' = "module", pc # "module"
               PROVE  ~Limited
    BY DEF vars
  <2>1. RunModule
    BY DEF Next, Step, Finished, AddFunction, Begin, Tick, EndOfModules, SkipModule,
           ModuleReturns, AfterCascade, Drain, TakeFunction, BatchDone, OfferFunction,
           FuncModuleReturns, FunctionDone, vars
  <2>2. total <= MaxFunctions /\ total \in Nat /\ MaxFunctions \in Nat /\ ~late
    BY <2>1, OrchestratorAssumption DEF RunModule, InLoop, TypeOK
  <2>3. QED BY <2>2 DEF Limited
<1>2. QED BY <1>1, LoopInvariant, PTL DEF Spec, NoModuleAfterLimit

----------------------------------------------------------------------------
(***************************************************************************)
(* A function waits in one place only, and once: in the pending list, in   *)
(* the drained vector or in the hands of the modules.  Until it is taken   *)
(* from the vector no module has seen it; then the first fi - 1 have.      *)
(***************************************************************************)
WaitsOnce ==
  /\ Waiting \subseteq functions /\ fresh \subseteq functions
  /\ Distinct(pending) /\ Distinct(batch)
  /\ Listed(pending) \cap Listed(batch) = {}
  /\ InHand \cap (Listed(pending) \cup Listed(batch)) = {}
  /\ pc \notin {"batch", "func", "funcmodule"} => batch = <<>>

SeenInOrder ==
  /\ \A f \in Funcs :
       f \notin functions \/ f \in Listed(pending) \cup Listed(batch) => seen[f] = <<>>
  /\ InHand # {} => Len(seen[cur]) = fi - 1
  /\ OfferedOnceInOrder

LEMMA AppendNext ==
  ASSUME NEW n \in Nat, NEW q, q = [i \in 1 .. n |-> i]
  PROVE  Append(q, n + 1) = [i \in 1 .. n + 1 |-> i]
<1>1. q \in Seq(Nat) /\ Len(q) = n  OBVIOUS
<1>2. /\ Append(q, n + 1) \in Seq(Nat) /\ Len(Append(q, n + 1)) = n + 1
      /\ \A i \in 1 .. n + 1 : Append(q, n + 1)[i] = i
  BY <1>1
<1>3. QED BY <1>2

LEMMA QueueInvariant == Spec => [](WaitsOnce /\ SeenInOrder)
<1> USE DEF InHand
<1>1. Init => WaitsOnce /\ SeenInOrder
  <2> SUFFICES ASSUME Init PROVE WaitsOnce /\ SeenInOrder  OBVIOUS
  <2>1. WaitsOnce  BY EmptyQueue DEF Init, WaitsOnce, Waiting
  <2>2. <<>> = [i \in 1 .. Len(<<>>) |-> i]  OBVIOUS
  <2>3. SeenInOrder  BY <2>2 DEF Init, SeenInOrder, OfferedOnceInOrder
  <2>4. QED BY <2>1, <2>3
<1>2. TypeOK /\ InLoop /\ WaitsOnce /\ SeenInOrder /\ [Next]_vars => (WaitsOnce /\ SeenInOrder)'
  <2> SUFFICES ASSUME TypeOK, InLoop, WaitsOnce, SeenInOrder, [Next]_vars
               PROVE  (WaitsOnce /\ SeenInOrder)'
    OBVIOUS
  <2> USE DEF loopVars
  <2>1. ASSUME NEW f \in Funcs, AddFunction(f) PROVE (WaitsOnce /\ SeenInOrder)'
    <3>1. /\ Listed(pending') = Listed(pending) \cup {f}
          /\ Distinct(pending) /\ f \notin Listed(pending) => Distinct(pending')
      BY <2>1, QueueAppend DEF AddFunction, TypeOK
    <3>2. f \notin Waiting /\ f \notin functions  BY <2>1 DEF AddFunction, WaitsOnce
    <3>3. WaitsOnce'  BY <2>1, <3>1, <3>2 DEF AddFunction, WaitsOnce, Waiting
    <3>4. SeenInOrder'
      BY <2>1, <3>1, <3>2 DEF AddFunction, SeenInOrder, OfferedOnceInOrder
    <3>5. QED BY <3>3, <3>4
  <2>2. ASSUME Begin PROVE (WaitsOnce /\ SeenInOrder)'
    <3>1. WaitsOnce'  BY <2>2, EmptyQueue DEF Begin, WaitsOnce, Waiting
    <3>2. SeenInOrder'  BY <2>2, EmptyQueue DEF Begin, SeenInOrder, OfferedOnceInOrder
    <3>3. QED BY <3>1, <3>2
  <2>3. ASSUME \/ Tick \/ EndOfModules \/ SkipModule \/ RunModule \/ ModuleReturns
               \/ AfterCascade \/ UNCHANGED vars
        PROVE (WaitsOnce /\ SeenInOrder)'
    <3>1. /\ UNCHANGED <<functions, pending, batch, cur, fi, seen, fresh>>
          /\ InHand' = InHand
          /\ pc' \in {"batch", "func", "funcmodule"} <=> pc \in {"batch", "func", "funcmodule"}
      BY <2>3 DEF Tick, EndOfModules, SkipModule, RunModule, ModuleReturns, AfterCascade, vars
    <3>2. WaitsOnce'  BY <3>1 DEF WaitsOnce, Waiting
    <3>3. SeenInOrder'  BY <3>1 DEF SeenInOrder, OfferedOnceInOrder
    <3>4. QED BY <3>2, <3>3
  <2>4. ASSUME Drain PROVE (WaitsOnce /\ SeenInOrder)'
    <3>1. batch = <<>>  BY <2>4 DEF Drain, WaitsOnce
    <3>2. WaitsOnce'  BY <2>4, <3>1, EmptyQueue DEF Drain, WaitsOnce, Waiting
    <3>3. SeenInOrder'  BY <2>4, <3>1, EmptyQueue DEF Drain, SeenInOrder, OfferedOnceInOrder
    <3>4. QED BY <3>2, <3>3
  <2>5. ASSUME TakeFunction PROVE (WaitsOnce /\ SeenInOrder)'
    <3>1. /\ Head(batch) \in Funcs /\ Listed(batch) = {Head(batch)} \cup Listed(Tail(batch))
          /\ Distinct(Tail(batch)) /\ Head(batch) \notin Listed(Tail(batch))
      BY <2>5, QueueTail DEF TakeFunction, TypeOK, WaitsOnce
    <3>2. CASE total' > MaxFunctions \/ late
      <4>1. WaitsOnce'  BY <2>5, <3>2, EmptyQueue DEF TakeFunction, WaitsOnce, Waiting
      <4>2. SeenInOrder'
        BY <2>5, <3>2, EmptyQueue DEF TakeFunction, SeenInOrder, OfferedOnceInOrder
      <4>3. QED BY <4>1, <4>2
    <3>3. CASE ~(total' > MaxFunctions \/ late)
      <4>1. WaitsOnce'  BY <2>5, <3>1, <3>3 DEF TakeFunction, WaitsOnce, Waiting
      <4>2. seen[Head(batch)] = <<>>  BY <3>1 DEF SeenInOrder
      <4>3. /\ UNCHANGED <<functions, pending, seen>> /\ batch' = Tail(batch)
            /\ cur' = Head(batch) /\ fi' = 1
        BY <2>5, <3>3 DEF TakeFunction
      <4>4. Len(seen'[cur']) = fi' - 1
        <5>1. seen'[cur'] = <<>>  BY <4>2, <4>3
        <5>2. QED BY <4>3, <5>1
      <4>5. Listed(batch') \subseteq Listed(batch)  BY <3>1, <4>3
      <4>6. SeenInOrder'
        BY <4>3, <4>4, <4>5 DEF SeenInOrder, OfferedOnceInOrder
      <4>7. QED BY <4>1, <4>6
    <3>4. QED BY <3>2, <3>3
  <2>6. ASSUME BatchDone PROVE (WaitsOnce /\ SeenInOrder)'
    <3>1. WaitsOnce'  BY <2>6 DEF BatchDone, WaitsOnce, Waiting
    <3>2. SeenInOrder'  BY <2>6 DEF BatchDone, SeenInOrder, OfferedOnceInOrder
    <3>3. QED BY <3>1, <3>2
  <2>7. ASSUME NEW runs \in BOOLEAN, OfferFunction(runs) PROVE (WaitsOnce /\ SeenInOrder)'
    <3>1. /\ cur \in Funcs /\ fi \in Nat \ {0} /\ Len(seen[cur]) = fi - 1
          /\ InHand' = {cur} /\ InHand = {cur}
      BY <2>7, OrchestratorAssumption DEF OfferFunction, TypeOK, InLoop, SeenInOrder
    <3>2. WaitsOnce'  BY <2>7, <3>1 DEF OfferFunction, WaitsOnce, Waiting
    <3>3. seen[cur] = [i \in 1 .. fi - 1 |-> i]
      BY <3>1 DEF SeenInOrder, OfferedOnceInOrder
    <3>4. seen'[cur] = [i \in 1 .. fi |-> i]
      <4>1. Append(seen[cur], (fi - 1) + 1) = [i \in 1 .. (fi - 1) + 1 |-> i]
        <5>1. fi - 1 \in Nat  BY <3>1
        <5>2. QED BY <5>1, <3>3, AppendNext
      <4>2. (fi - 1) + 1 = fi /\ fi - 1 \in Nat  BY <3>1
      <4>3. Append(seen[cur], fi) = [i \in 1 .. fi |-> i]  BY <4>1, <4>2
      <4>4. QED BY <2>7, <3>1, <4>3 DEF OfferFunction, TypeOK
    <3>5. \A f \in Funcs \ {cur} : seen'[f] = seen[f]
      BY <2>7 DEF OfferFunction, TypeOK
    <3>6. Len(seen'[cur]) = fi' - 1  BY <2>7, <3>1, <3>4 DEF OfferFunction
    <3>7. cur \in functions /\ cur \notin Listed(pending) \cup Listed(batch)
      BY <3>1 DEF WaitsOnce, Waiting
    <3>8. OfferedOnceInOrder'
      <4>1. seen'[cur] = [i \in 1 .. Len(seen'[cur]) |-> i]  BY <3>1, <3>4
      <4>2. QED BY <3>5, <4>1 DEF SeenInOrder, OfferedOnceInOrder
    <3>9. SeenInOrder'
      BY <2>7, <3>5, <3>6, <3>7, <3>8 DEF OfferFunction, SeenInOrder
    <3>10. QED BY <3>2, <3>9
  <2>8. ASSUME FuncModuleReturns PROVE (WaitsOnce /\ SeenInOrder)'
    <3>1. WaitsOnce'  BY <2>8 DEF FuncModuleReturns, WaitsOnce, Waiting
    <3>2. SeenInOrder'  BY <2>8 DEF FuncModuleReturns, SeenInOrder, OfferedOnceInOrder
    <3>3. QED BY <3>1, <3>2
  <2>9. ASSUME FunctionDone PROVE (WaitsOnce /\ SeenInOrder)'
    <3>1. WaitsOnce'  BY <2>9 DEF FunctionDone, WaitsOnce, Waiting
    <3>2. SeenInOrder'  BY <2>9 DEF FunctionDone, SeenInOrder, OfferedOnceInOrder
    <3>3. QED BY <3>1, <3>2
  <2>10. QED
    BY <2>1, <2>2, <2>3, <2>4, <2>5, <2>6, <2>7, <2>8, <2>9 DEF Next, Step, Finished
<1>3. QED BY <1>1, <1>2, LoopInvariant, PTL DEF Spec

(***************************************************************************)
(* A function meets each per-function module at most once, in registration *)
(* order, over any number of analyses.                                     *)
(***************************************************************************)
THEOREM OfferedOnce == Spec => []OfferedOnceInOrder
<1>1. SeenInOrder => OfferedOnceInOrder  BY DEF SeenInOrder
<1>2. QED BY <1>1, QueueInvariant, PTL

----------------------------------------------------------------------------
(***************************************************************************)
(* Until a limit is reached, no function created in this analysis is       *)
(* forgotten: it waits, or all modules have seen it; and nothing is        *)
(* pending when the loop over workspace modules goes on.                   *)
(***************************************************************************)
NoneForgotten ==
  (NFuncModules > 0 /\ pc # "idle" /\ ~Limited) =>
    /\ \A f \in fresh : f \in Waiting \/ Analysed(f)
    /\ pc \in {"next", "after"} => pending = <<>>

LEMMA NoneForgottenInvariant == Spec => []NoneForgotten
<1> USE DEF InHand
<1>1. Init => NoneForgotten  BY DEF Init, NoneForgotten
<1>2. TypeOK /\ InLoop /\ WaitsOnce /\ SeenInOrder /\ NoneForgotten /\ [Next]_vars
        => NoneForgotten'
  <2> DEFINE Goal == /\ \A f \in fresh' : f \in Waiting' \/ Analysed(f)'
                     /\ pc' \in {"next", "after"} => pending' = <<>>
  <2> SUFFICES ASSUME TypeOK, InLoop, WaitsOnce, SeenInOrder, NoneForgotten, [Next]_vars
               PROVE  NoneForgotten'
    OBVIOUS
  <2> SUFFICES ASSUME NFuncModules > 0, pc' # "idle", ~Limited'
               PROVE  Goal
    BY DEF NoneForgotten
  <2> USE DEF loopVars
  <2>1. ASSUME NEW f \in Funcs, AddFunction(f) PROVE Goal
    <3>1. Listed(pending') = Listed(pending) \cup {f}
      BY <2>1, QueueAppend DEF AddFunction, TypeOK
    <3>2. pc \in {"module", "funcmodule"} /\ UNCHANGED <<pc, batch, cur, seen, total, late>>
      BY <2>1 DEF AddFunction
    <3>3. \A g \in fresh : g \in Waiting \/ Analysed(g)
      BY <3>2 DEF NoneForgotten, Limited
    <3>4. Waiting' = Waiting \cup {f}  BY <3>1, <3>2 DEF Waiting
    <3>5. QED BY <2>1, <3>2, <3>3, <3>4 DEF AddFunction, Analysed
  <2>2. ASSUME Begin PROVE Goal  BY <2>2 DEF Begin
  <2>3. ASSUME \/ SkipModule \/ RunModule \/ ModuleReturns \/ AfterCascade
               \/ UNCHANGED vars
        PROVE Goal
    <3>1. /\ UNCHANGED <<pending, batch, cur, seen, fresh, total, late>>
          /\ InHand' = InHand /\ pc # "idle"
          /\ pc' \in {"next", "after"} => pc \in {"next", "after"}
      BY <2>3 DEF SkipModule, RunModule, ModuleReturns, AfterCascade, vars
    <3>2. ~Limited  BY <3>1 DEF Limited
    <3>3. QED BY <3>1, <3>2 DEF NoneForgotten, Waiting, Analysed
  <2>4. ~Tick /\ ~EndOfModules  BY DEF Tick, EndOfModules, Limited
  <2>5. ASSUME Drain PROVE Goal
    <3>1. batch = <<>> /\ Limited' = Limited  BY <2>5 DEF Drain, WaitsOnce, Limited
    <3>2. Waiting' = Waiting  BY <2>5, <3>1, EmptyQueue DEF Drain, Waiting
    <3>3. QED BY <2>5, <3>1, <3>2 DEF Drain, NoneForgotten, Analysed
  <2>6. ASSUME TakeFunction PROVE Goal
    <3>1. ~(total' > MaxFunctions \/ late)  BY <2>6 DEF TakeFunction, Limited
    <3>2. Listed(batch) = {Head(batch)} \cup Listed(Tail(batch))
      BY <2>6, QueueTail DEF TakeFunction, TypeOK
    <3>3. Waiting' = Waiting  BY <2>6, <3>1, <3>2 DEF TakeFunction, Waiting
    <3>4. ~Limited
      BY <2>6, <3>1, OrchestratorAssumption DEF TakeFunction, Limited, TypeOK, InLoop
    <3>5. QED BY <2>6, <3>1, <3>3, <3>4 DEF TakeFunction, NoneForgotten, Analysed
  <2>7. ASSUME BatchDone \/ FuncModuleReturns PROVE Goal
    <3>1. Waiting' = Waiting /\ Limited' = Limited
      BY <2>7 DEF BatchDone, FuncModuleReturns, Waiting, Limited
    <3>2. QED BY <2>7, <3>1 DEF BatchDone, FuncModuleReturns, NoneForgotten, Analysed
  <2>8. ASSUME NEW runs \in BOOLEAN, OfferFunction(runs) PROVE Goal
    <3>1. Waiting' = Waiting /\ Limited' = Limited /\ cur \in Waiting
      BY <2>8 DEF OfferFunction, Waiting, Limited
    <3>2. \A f \in Funcs \ {cur} : seen'[f] = seen[f]
      BY <2>8 DEF OfferFunction, TypeOK
    <3>3. fresh' = fresh /\ fresh \subseteq Funcs  BY <2>8 DEF OfferFunction, TypeOK
    <3>4. QED BY <2>8, <3>1, <3>2, <3>3 DEF OfferFunction, NoneForgotten, Analysed
  <2>9. ASSUME FunctionDone PROVE Goal
    <3>1. Waiting \subseteq Waiting' \cup {cur} /\ Limited' = Limited
      BY <2>9 DEF FunctionDone, Waiting, Limited
    <3>2. fi = NFuncModules + 1
      BY <2>9, OrchestratorAssumption DEF FunctionDone, TypeOK
    <3>3. Len(seen[cur]) = NFuncModules
      BY <2>9, <3>2, OrchestratorAssumption DEF FunctionDone, SeenInOrder
    <3>4. QED BY <2>9, <3>1, <3>3 DEF FunctionDone, NoneForgotten, Analysed
  <2>10. QED
    BY <2>1, <2>2, <2>3, <2>4, <2>5, <2>6, <2>7, <2>8, <2>9 DEF Next, Step, Finished
<1>3. QED BY <1>1, <1>2, LoopInvariant, QueueInvariant, PTL DEF Spec

(***************************************************************************)
(* Whenever the loop comes to the next workspace module with no limit      *)
(* reached, every function created so far in this analysis has met every   *)
(* per-function module.                                                    *)
(***************************************************************************)
THEOREM CascadeReachesAll == Spec => []CascadeComplete
<1>1. WaitsOnce /\ NoneForgotten => CascadeComplete
  <2> SUFFICES ASSUME WaitsOnce, NoneForgotten, pc = "next", NFuncModules > 0, ~Limited
               PROVE  pending = <<>> /\ \A f \in fresh : Analysed(f)
    BY DEF CascadeComplete
  <2>1. pending = <<>> /\ batch = <<>> /\ InHand = {}
    BY DEF NoneForgotten, WaitsOnce, InHand
  <2>2. Waiting = {}  BY <2>1, EmptyQueue DEF Waiting
  <2>3. QED BY <2>1, <2>2 DEF NoneForgotten
<1>2. QED BY <1>1, QueueInvariant, NoneForgottenInvariant, PTL

----------------------------------------------------------------------------
(***************************************************************************)
(* The functions of this analysis that a module was offered, and the one   *)
(* in hand, were each counted in total when they were taken.               *)
(***************************************************************************)
Taken == Offered \cup InHand

TakenCounted ==
  /\ IsFiniteSet(Taken)
  /\ Cardinality(Taken) <= total /\ Cardinality(Taken) <= MaxFunctions

\* A subset of what was taken is still counted.
LEMMA FewerTaken ==
  ASSUME TypeOK, TakenCounted, NEW S, S \subseteq Taken, NEW n \in Nat, total <= n
  PROVE  IsFiniteSet(S) /\ Cardinality(S) <= n /\ Cardinality(S) <= MaxFunctions
<1>1. /\ IsFiniteSet(S) /\ Cardinality(S) <= Cardinality(Taken)
      /\ Cardinality(S) \in Nat /\ Cardinality(Taken) \in Nat
  BY FS_Subset, FS_CardinalityType DEF TakenCounted
<1>2. total \in Nat /\ MaxFunctions \in Nat  BY OrchestratorAssumption DEF TypeOK
<1>3. QED BY <1>1, <1>2 DEF TakenCounted

LEMMA CountInvariant == Spec => []TakenCounted
<1>1. Init => TakenCounted
  <2> SUFFICES ASSUME Init PROVE TakenCounted  OBVIOUS
  <2>1. Taken = {}  BY DEF Init, Taken, Offered, InHand
  <2>2. total = 0 /\ MaxFunctions \in Nat  BY OrchestratorAssumption DEF Init
  <2>3. QED BY <2>1, <2>2, FS_EmptySet DEF TakenCounted
<1>2. TypeOK /\ InLoop /\ SeenInOrder /\ TypeOK' /\ TakenCounted /\ [Next]_vars
        => TakenCounted'
  <2> SUFFICES ASSUME TypeOK, InLoop, SeenInOrder, TypeOK', TakenCounted, [Next]_vars
               PROVE  TakenCounted'
    OBVIOUS
  <2>0. total \in Nat /\ total' \in Nat /\ MaxFunctions \in Nat
    BY OrchestratorAssumption DEF TypeOK
  <2>1. ASSUME Taken' \subseteq Taken, total <= total' PROVE TakenCounted'
    <3>1. IsFiniteSet(Taken') /\ Cardinality(Taken') <= total' /\ Cardinality(Taken') <= MaxFunctions
      BY <2>0, <2>1, FewerTaken
    <3>2. QED BY <3>1 DEF TakenCounted
  <2>2. ASSUME NEW f \in Funcs, AddFunction(f) PROVE TakenCounted'
    <3>1. seen[f] = <<>>  BY <2>2 DEF AddFunction, SeenInOrder
    <3>2. Taken' \subseteq Taken
      BY <2>2, <3>1 DEF AddFunction, loopVars, Taken, Offered, InHand
    <3>3. total' = total  BY <2>2 DEF AddFunction, loopVars
    <3>4. QED BY <2>0, <2>1, <3>2, <3>3
  <2>3. ASSUME Begin PROVE TakenCounted'
    <3>1. Taken' = {}  BY <2>3 DEF Begin, Taken, Offered, InHand
    <3>2. total' = 0  BY <2>3 DEF Begin
    <3>3. QED BY <2>0, <3>1, <3>2, FS_EmptySet DEF TakenCounted
  <2>4. ASSUME \/ Tick \/ EndOfModules \/ SkipModule \/ RunModule \/ ModuleReturns
               \/ AfterCascade \/ Drain \/ BatchDone \/ FuncModuleReturns \/ FunctionDone
               \/ UNCHANGED vars
        PROVE TakenCounted'
    <3>1. UNCHANGED <<seen, fresh, total>> /\ InHand' \subseteq InHand
      BY <2>4 DEF Tick, EndOfModules, SkipModule, RunModule, ModuleReturns, AfterCascade,
                  Drain, BatchDone, FuncModuleReturns, FunctionDone, vars, loopVars, InHand
    <3>2. Taken' \subseteq Taken  BY <3>1 DEF Taken, Offered
    <3>3. QED BY <2>0, <2>1, <3>1, <3>2
  <2>5. ASSUME TakeFunction PROVE TakenCounted'
    <3>1. total' = total + 1 /\ UNCHANGED <<seen, fresh>> /\ InHand = {}
      BY <2>5 DEF TakeFunction, InHand
    <3>2. CASE total' > MaxFunctions \/ late
      <4>1. InHand' = {}  BY <2>5, <3>2 DEF TakeFunction, InHand
      <4>2. Taken' \subseteq Taken  BY <3>1, <4>1 DEF Taken, Offered
      <4>3. QED BY <2>0, <2>1, <3>1, <4>2
    <3>3. CASE ~(total' > MaxFunctions \/ late)
      <4>1. InHand' = {cur'}  BY <2>5, <3>3 DEF TakeFunction, InHand
      <4>2. Taken' = Taken \cup {cur'}  BY <3>1, <4>1 DEF Taken, Offered
      <4>3. /\ IsFiniteSet(Taken \cup {cur'}) /\ Cardinality(Taken \cup {cur'}) \in Nat
            /\ Cardinality(Taken) \in Nat
            /\ Cardinality(Taken \cup {cur'}) <= Cardinality(Taken) + 1
        <5>1. IsFiniteSet(Taken) /\ Cardinality(Taken) \in Nat
          BY FS_CardinalityType DEF TakenCounted
        <5>2. /\ IsFiniteSet(Taken \cup {cur'})
              /\ Cardinality(Taken \cup {cur'}) =
                   IF cur' \in Taken THEN Cardinality(Taken) ELSE Cardinality(Taken) + 1
          BY <5>1, FS_AddElement
        <5>3. QED BY <5>1, <5>2
      <4>4. Cardinality(Taken) <= total  BY DEF TakenCounted
      <4>5. /\ IsFiniteSet(Taken') /\ Cardinality(Taken') <= total'
            /\ Cardinality(Taken') <= MaxFunctions
        BY <2>0, <3>1, <3>3, <4>2, <4>3, <4>4
      <4>6. QED BY <4>5 DEF TakenCounted
    <3>4. QED BY <3>2, <3>3
  <2>6. ASSUME NEW runs \in BOOLEAN, OfferFunction(runs) PROVE TakenCounted'
    <3>1. UNCHANGED <<cur, fresh, total>> /\ InHand = {cur} /\ InHand' = {cur}
      BY <2>6 DEF OfferFunction, InHand
    <3>2. \A f \in Funcs \ {cur} : seen'[f] = seen[f]
      BY <2>6 DEF OfferFunction, TypeOK
    <3>3. fresh \subseteq Funcs  BY DEF TypeOK
    <3>4. Taken' \subseteq Taken  BY <3>1, <3>2, <3>3 DEF Taken, Offered
    <3>5. QED BY <2>0, <2>1, <3>1, <3>4
  <2>7. QED
    BY <2>2, <2>3, <2>4, <2>5, <2>6 DEF Next, Step, Finished
<1>3. QED BY <1>1, <1>2, LoopInvariant, QueueInvariant, PTL DEF Spec

(***************************************************************************)
(* One analyze() offers at most max_functions functions to the             *)
(* per-function modules.                                                   *)
(***************************************************************************)
THEOREM CapHolds == Spec => []CapRespected
<1>1. TypeOK /\ TakenCounted => CapRespected
  <2> SUFFICES ASSUME TypeOK, TakenCounted PROVE CapRespected  OBVIOUS
  <2>1. Offered \subseteq Taken  BY DEF Taken
  <2>2. total \in Nat /\ total <= total  BY OrchestratorAssumption DEF TypeOK
  <2>3. Cardinality(Offered) <= MaxFunctions  BY <2>1, <2>2, FewerTaken
  <2>4. QED BY <2>3 DEF CapRespected
<1>2. QED BY <1>1, LoopInvariant, CountInvariant, PTL

----------------------------------------------------------------------------
(***************************************************************************)
(* analyze() keeps the promise of Cascade.  Creating a function queues it; *)
(* taking it, in any number of steps, leaves it queued; after the last     *)
(* module it is analysed; a limit, or the next analysis, abandons what     *)
(* still waits.  Without per-function modules there is no cascade, and     *)
(* what is pending then stays pending while modules run.                   *)
(***************************************************************************)
SameStatus ==
  /\ functions' = functions
  /\ Waiting' = Waiting
  /\ \A f \in Funcs : f \in Waiting \/ seen'[f] = seen[f]
  /\ (pc' = "module") = (pc = "module")

LEMMA SameStatusStutters == SameStatus => UNCHANGED C!vars
<1> SUFFICES ASSUME SameStatus PROVE UNCHANGED C!vars  OBVIOUS
<1>1. \A f \in Funcs : StatusOf(f)' = StatusOf(f)
  BY DEF SameStatus, StatusOf, Analysed
<1>2. [f \in Funcs |-> StatusOf(f)]' = [f \in Funcs |-> StatusOf(f)]  BY <1>1
<1>3. QED BY <1>2 DEF SameStatus, C!vars

THEOREM Refinement ==
  ASSUME NFuncModules > 0
  PROVE  Spec => CascadeSpec
<1> USE DEF InHand
<1>1. Init => C!Init
  <2> SUFFICES ASSUME Init PROVE C!Init  OBVIOUS
  <2>1. \A f \in Funcs : StatusOf(f) = "absent"  BY DEF Init, StatusOf
  <2>2. QED BY <2>1 DEF Init, C!Init
<1>2. TypeOK /\ InLoop /\ WaitsOnce /\ SeenInOrder /\ NoneForgotten /\ [Next]_vars
        => [C!Next]_(C!vars)
  <2> SUFFICES ASSUME TypeOK, InLoop, WaitsOnce, SeenInOrder, NoneForgotten, [Next]_vars
               PROVE  [C!Next]_(C!vars)
    OBVIOUS
  <2> DEFINE st == [f \in Funcs |-> StatusOf(f)]
  <2> USE DEF loopVars
  <2>0. /\ st' = [f \in Funcs |-> StatusOf(f)'] /\ Waiting \subseteq Funcs
    BY DEF WaitsOnce, TypeOK
  <2>1. ASSUME NEW f \in Funcs, AddFunction(f) PROVE C!Create(f)
    <3>1. Listed(pending') = Listed(pending) \cup {f}
      BY <2>1, QueueAppend DEF AddFunction, TypeOK
    <3>2. UNCHANGED <<pc, batch, cur, seen>>  BY <2>1 DEF AddFunction
    <3>3. Waiting' = Waiting \cup {f} /\ f \notin functions /\ functions' = functions \cup {f}
      BY <2>1, <3>1, <3>2 DEF AddFunction, Waiting
    <3>4. StatusOf(f) = "absent" /\ StatusOf(f)' = "queued"
      BY <3>3 DEF StatusOf
    <3>5. \A g \in Funcs \ {f} : StatusOf(g)' = StatusOf(g)
      BY <3>2, <3>3 DEF StatusOf, Analysed
    <3>6. st' = [st EXCEPT ![f] = "queued"]  BY <2>0, <3>4, <3>5
    <3>7. QED BY <3>2, <3>4, <3>6 DEF C!Create
  <2>2. ASSUME \/ Tick \/ EndOfModules \/ SkipModule \/ AfterCascade
               \/ FuncModuleReturns \/ UNCHANGED vars
        PROVE SameStatus
    BY <2>2 DEF Tick, EndOfModules, SkipModule, AfterCascade, FuncModuleReturns, vars,
                Waiting, SameStatus
  <2>3. ASSUME Drain PROVE SameStatus
    <3>1. batch = <<>>  BY <2>3 DEF Drain, WaitsOnce
    <3>2. Waiting' = Waiting  BY <2>3, <3>1, EmptyQueue DEF Drain, Waiting
    <3>3. QED BY <2>3, <3>2 DEF Drain, SameStatus
  <2>4. ASSUME BatchDone PROVE SameStatus
    BY <2>4 DEF BatchDone, Waiting, SameStatus
  <2>5. ASSUME NEW runs \in BOOLEAN, OfferFunction(runs) PROVE SameStatus
    <3>1. \A f \in Funcs \ {cur} : seen'[f] = seen[f]
      BY <2>5 DEF OfferFunction, TypeOK
    <3>2. Waiting' = Waiting /\ cur \in Waiting  BY <2>5 DEF OfferFunction, Waiting
    <3>3. QED BY <2>5, <3>1, <3>2 DEF OfferFunction, SameStatus
  <2>6. ASSUME RunModule PROVE C!StartModule
    <3>1. pending = <<>> /\ batch = <<>>
      <4>1. ~Limited
        BY <2>6, OrchestratorAssumption DEF RunModule, Limited, InLoop, TypeOK
      <4>2. QED BY <2>6, <4>1 DEF RunModule, NoneForgotten, WaitsOnce
    <3>2. Waiting = {}  BY <2>6, <3>1, EmptyQueue DEF RunModule, Waiting
    <3>3. \A f \in Funcs : st[f] # "queued"  BY <3>2 DEF StatusOf
    <3>4. Waiting' = {}  BY <2>6, <3>1, EmptyQueue DEF RunModule, Waiting
    <3>5. st' = st  BY <2>6, <3>2, <3>4 DEF RunModule, StatusOf, Analysed
    <3>6. QED BY <2>6, <3>3, <3>5 DEF RunModule, C!StartModule, C!Queued
  <2>7. ASSUME ModuleReturns PROVE C!EndModule
    <3>1. pc = "module" /\ pc' = "drain" /\ UNCHANGED <<functions, pending, batch, cur, seen>>
      BY <2>7 DEF ModuleReturns
    <3>2. Waiting' = Waiting  BY <3>1 DEF Waiting
    <3>3. st' = st  BY <3>1, <3>2 DEF StatusOf, Analysed
    <3>4. QED BY <3>1, <3>3 DEF C!EndModule
  <2>8. ASSUME FunctionDone PROVE \E f \in Funcs : C!Analyse(f)
    <3>0. PICK f \in Funcs : f = cur  BY <2>8 DEF FunctionDone, InLoop
    <3>1. fi = NFuncModules + 1
      BY <2>8, OrchestratorAssumption DEF FunctionDone, TypeOK
    <3>2. f \in Waiting /\ f \in functions /\ f \notin Listed(pending) \cup Listed(batch)
      BY <2>8, <3>0 DEF FunctionDone, WaitsOnce, Waiting
    <3>3. Len(seen[f]) = NFuncModules
      BY <2>8, <3>0, <3>1, OrchestratorAssumption DEF FunctionDone, SeenInOrder
    <3>4. UNCHANGED <<functions, seen>> /\ Waiting' = Waiting \ {f}
      BY <2>8, <3>0, <3>2 DEF FunctionDone, Waiting
    <3>5. StatusOf(f) = "queued" /\ StatusOf(f)' = "analysed"
      BY <3>2, <3>3, <3>4 DEF StatusOf, Analysed
    <3>6. \A g \in Funcs \ {f} : StatusOf(g)' = StatusOf(g)
      BY <3>4 DEF StatusOf, Analysed
    <3>7. st' = [st EXCEPT ![f] = "analysed"]  BY <2>0, <3>5, <3>6
    <3>8. QED BY <2>8, <3>2, <3>5, <3>7 DEF FunctionDone, C!Analyse
  <2>9. ASSUME NEW S, S \subseteq Waiting, \A f \in S : seen[f] = <<>>,
               Waiting' = Waiting \ S, UNCHANGED <<functions, seen>>,
               pc # "module", pc' # "module"
        PROVE  C!Abandon(S) /\ S \in SUBSET Funcs
    <3>1. S \subseteq Funcs /\ S \subseteq functions  BY <2>0, <2>9 DEF WaitsOnce
    <3>2. \A f \in S : StatusOf(f) = "queued" /\ StatusOf(f)' = "abandoned"
      <4>1. Len(<<>>) = 0 /\ NFuncModules # 0  BY OrchestratorAssumption
      <4>2. QED BY <2>9, <3>1, <4>1 DEF StatusOf, Analysed
    <3>3. \A f \in Funcs \ S : StatusOf(f)' = StatusOf(f)
      BY <2>9 DEF StatusOf, Analysed
    <3>4. st' = [f \in Funcs |-> IF f \in S THEN "abandoned" ELSE st[f]]
      BY <2>0, <3>1, <3>2, <3>3
    <3>5. S \subseteq C!Queued  BY <3>1, <3>2 DEF C!Queued
    <3>6. QED BY <2>9, <3>1, <3>4, <3>5 DEF C!Abandon
  <2>10. ASSUME Begin PROVE C!Abandon(Listed(pending)) /\ Listed(pending) \in SUBSET Funcs
    <3>1. batch = <<>> /\ pc = "idle" /\ pc' = "next" /\ pending' = <<>>
          /\ UNCHANGED <<functions, seen, batch, cur>>
      BY <2>10 DEF Begin, WaitsOnce
    <3>2. Waiting = Listed(pending) /\ Waiting' = {}
      BY <3>1, EmptyQueue DEF Waiting
    <3>3. \A f \in Listed(pending) : seen[f] = <<>>
      BY <2>0, <3>2 DEF SeenInOrder
    <3>4. QED BY <2>9, <3>1, <3>2, <3>3
  <2>11. ASSUME TakeFunction
         PROVE  SameStatus \/ (C!Abandon(Listed(batch)) /\ Listed(batch) \in SUBSET Funcs)
    <3>1. CASE total' > MaxFunctions \/ late
      <4>1. /\ pc = "batch" /\ pc' = "after" /\ batch' = <<>>
            /\ UNCHANGED <<functions, seen, pending, cur>>
        BY <2>11, <3>1 DEF TakeFunction
      <4>2. /\ Waiting = Listed(pending) \cup Listed(batch)
            /\ Waiting' = Listed(pending)
        BY <4>1, EmptyQueue DEF Waiting
      <4>3. Listed(pending) \cap Listed(batch) = {}  BY DEF WaitsOnce
      <4>4. \A f \in Listed(batch) : seen[f] = <<>>
        BY <2>0, <4>2 DEF SeenInOrder
      <4>5. Waiting' = Waiting \ Listed(batch)  BY <4>2, <4>3
      <4>6. QED BY <2>9, <4>1, <4>2, <4>4, <4>5
    <3>2. CASE ~(total' > MaxFunctions \/ late)
      <4>1. Listed(batch) = {Head(batch)} \cup Listed(Tail(batch))
        BY <2>11, QueueTail DEF TakeFunction, TypeOK
      <4>2. Waiting' = Waiting  BY <2>11, <3>2, <4>1 DEF TakeFunction, Waiting
      <4>3. QED BY <2>11, <3>2, <4>2 DEF TakeFunction, SameStatus
    <3>3. QED BY <3>1, <3>2
  <2>12. \A S \in SUBSET Funcs : C!Abandon(S) => C!Next  BY DEF C!Next
  <2>13. \A f \in Funcs : C!Create(f) \/ C!Analyse(f) => C!Next  BY DEF C!Next
  <2>14. C!StartModule \/ C!EndModule => C!Next  BY DEF C!Next
  <2>15. SameStatus => UNCHANGED C!vars  BY SameStatusStutters
  <2>16. QED
    BY <2>1, <2>2, <2>3, <2>4, <2>5, <2>6, <2>7, <2>8, <2>10, <2>11, <2>12, <2>13,
       <2>14, <2>15 DEF Next, Step, Finished
<1>3. QED
  BY <1>1, <1>2, LoopInvariant, QueueInvariant, NoneForgottenInvariant, PTL
     DEF Spec, CascadeSpec, C!Spec

=============================================================================
