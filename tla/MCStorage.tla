----------------------------- MODULE MCStorage -----------------------------
(* Eight addresses; a PE whose second section runs into its first, an ELF  *)
(* with the same entry point and a tail that is not in the file, and a     *)
(* Mach-O.  A short mapping can meet the first two files' and touch the    *)
(* third's.                                                                *)
EXTENDS Storage

S(va, offset, raw, size) ==
  [va |-> va, offset |-> offset, raw |-> raw, size |-> size, perms |-> "RX"]

F(format, id, entry, maps) ==
  [format |-> format, id |-> id, key |-> "md5", arch |-> "amd64", big |-> FALSE,
   bytes |-> <<1, 1>>, pointer |-> 2, entry |-> entry, maps |-> maps, segments |-> <<2>>,
   more |-> <<>>, exports |-> <<>>, imports |-> <<>>, functions |-> <<>>]

MCFiles ==
  {[F("Pe", "pe", 2, <<S(1, 0, 2, 3), S(3, 0, 1, 2)>>) EXCEPT
      !.more = <<2, 3>>, !.exports = <<<<3, "f">>>>, !.imports = <<<<2, "g">>>>],
   [F("Elf", "elf", 2, <<S(2, 1, 2, 3)>>) EXCEPT
      !.exports = <<<<2, "f">>>>, !.imports = <<<<0, "g">>, <<3, "g">>>>,
      !.functions = <<<<2, "f">>, <<6, "g">>>>],
   [F("MachO", "macho", 3, <<S(6, 0, 1, 1)>>) EXCEPT !.functions = <<<<3, "g">>, <<6, NoName>>>>]}

MCMaps == {<<4, <<1, 0>>>>}
=============================================================================
