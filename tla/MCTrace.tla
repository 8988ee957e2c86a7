------------------------------ MODULE MCTrace ------------------------------
(* Two emitters and two controllers over two sessions. *)
EXTENDS Trace

CONSTANTS e1, e2, c1, c2, decode, call

MCEmitters == {e1, e2}
MCControllers == {c1, c2}

Event(kind, va, func_va, detail) ==
  [kind |-> kind, va |-> va, func_va |-> func_va, detail |-> detail]
MCEvents == {Event(decode, 1, None, "short"), Event(call, 2, None, "wide")}

Filter(kinds, func_va, va) == [kinds |-> kinds, func_va |-> func_va, va |-> va]
MCFilters == {Filter(None, None, None), Filter({call}, None, 2)}

=============================================================================
