----------------------------- MODULE MCCodeFlow -----------------------------
(* Every program of three addresses built from the instructions below.     *)
EXTENDS CodeFlow

I(kind, target) ==
  [decodes |-> TRUE, size |-> 1, kind |-> kind, target |-> target, deref |-> FALSE,
   table |-> <<>>, refs |-> {}]

Bad == [I("plain", None) EXCEPT !.decodes = FALSE]
Switch(q) == [I("jmp", None) EXCEPT !.table = q]
Lea(va) == [I("plain", None) EXCEPT !.refs = {va}]
Through(va) == [I("call", va) EXCEPT !.deref = TRUE]
Long(i) == [i EXCEPT !.size = 2]

MCVA == 0 .. 4
MCMapped == 1 .. 3
Anywhere == {Bad, I("stop", None)}
MCPrograms ==
  {[va \in MCVA |->
      CASE va = 1 -> a [] va = 2 -> b [] va = 3 -> c [] OTHER -> Bad] :
   a \in {I("call", 3), Long(I("call", 2)), Switch(<<2, 3>>), Through(0), I("jcc", 3), Lea(3)},
   b \in Anywhere \cup {I("jmp", 1), I("call", 4), I("call", 3), I("jcc", 1), Lea(3)},
   c \in Anywhere \cup {I("jmp", 2), I("call", 1), Switch(<<1, 2>>), I("plain", None)}}

\* Outside does what SelectSeq does.
ASSUME OutsideSelects ==
  \A q \in UNION {[1 .. n -> MCMapped] : n \in 0 .. 3}, seen \in SUBSET MCMapped :
    LET unseen(t) == t \notin seen IN Outside(q, seen) = SelectSeq(q, unseen)

MCQueues == {<<1>>, <<2, 3>>, <<4, 1>>}
=============================================================================
