------------------------------ MODULE MCBlocks ------------------------------
(* Programs of four addresses with loops, shared tails, data references,   *)
(* switches, overlapping code and code that runs off what is mapped; some  *)
(* go through the import slot behind them, of a function that exits.       *)
EXTENDS Cfg

I(kind, target) ==
  [decodes |-> TRUE, size |-> 1, kind |-> kind, target |-> target, deref |-> FALSE,
   table |-> <<>>, refs |-> {}]

Bad == [I("plain", None) EXCEPT !.decodes = FALSE]
Switch(q) == [I("jmp", None) EXCEPT !.table = q]
Lea(va) == [I("plain", None) EXCEPT !.refs = {va}]
Long(i) == [i EXCEPT !.size = 2]
Via(kind) == [I(kind, 6) EXCEPT !.deref = TRUE]

MCVA == 0 .. 6
MCMapped == {1, 2, 3, 4, 6}
MCPrograms ==
  {[va \in MCVA |->
      CASE va = 1 -> a [] va = 2 -> b [] va = 3 -> c [] va = 4 -> d [] OTHER -> Bad] :
   a \in {I("call", 3), I("jcc", 3), Lea(3), Switch(<<2, 4>>), Long(I("call", 2)),
         Long(I("jcc", 2))},
   b \in {I("call", 4), I("jmp", 1), I("plain", None), Via("call")},
   c \in {I("jmp", 2), I("plain", None), I("stop", None), I("call", 2)},
   d \in {I("stop", None), I("plain", None), I("jmp", 3), Via("jmp")}}

MCQueues == {<<1>>}
=============================================================================
