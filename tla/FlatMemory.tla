----------------------------- MODULE FlatMemory -----------------------------
(***************************************************************************)
(* What the memory of a workspace promises, with no regions in it: every   *)
(* address is unmapped or holds a byte.  A mapping may only fill addresses *)
(* that were unmapped, a write may only change mapped bytes, nothing else  *)
(* changes anything, and what comes back from a file is the image that the *)
(* last save was given.                                                    *)
(***************************************************************************)
EXTENDS Integers

CONSTANTS Addrs, Bytes, Unmapped  \* Unmapped is not a byte

VARIABLES
  cells,  \* the contents of every address
  kept    \* the image that the last save was given

vars == <<cells, kept>>

Images == [Addrs -> Bytes \cup {Unmapped}]
Blank == [a \in Addrs |-> Unmapped]
Used(image) == {a \in Addrs : image[a] # Unmapped}

Init == cells = Blank /\ kept = Blank

\* Addresses that were unmapped become mapped; the others keep their bytes.
Map ==
  /\ cells' \in Images
  /\ \A a \in Used(cells) : cells'[a] = cells[a]
  /\ UNCHANGED kept

Write ==
  /\ cells' \in Images
  /\ Used(cells') = Used(cells)
  /\ UNCHANGED kept

Save == kept' = cells /\ UNCHANGED cells
Discard == cells' = Blank /\ UNCHANGED kept
Recover == cells = Blank /\ cells' = kept /\ UNCHANGED kept

Next == Save \/ Map \/ Write \/ Discard \/ Recover

Spec == Init /\ [][Next]_vars
=============================================================================
