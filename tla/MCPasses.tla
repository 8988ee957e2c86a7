------------------------------ MODULE MCPasses ------------------------------
(***************************************************************************)
(* Small programs in four formats, with words of two cells.  A variant is  *)
(* a set of words: each takes something away from the program, or changes  *)
(* what a pass depends on.                                                 *)
(***************************************************************************)
EXTENDS WorkspaceEmu

Seg(name, from, to, exec) == [va |-> from, size |-> to - from + 1, name |-> name, exec |-> exec]
Op(kind, size) == [Plain EXCEPT !.kind = kind, !.size = size]
Go(kind, to) == [Plain EXCEPT !.kind = kind, !.to = to, !.mnem = kind]
Through(kind, slot) == [Go(kind, slot) EXCEPT !.deref = TRUE]
Ret(n) == [Plain EXCEPT !.kind = "ret", !.mnem = "ret", !.pops = n]
Sig(s, i) == [i EXCEPT !.sig = s]
Sets(mnem, dst, val) == [Plain EXCEPT !.mnem = mnem, !.dst = dst, !.val = val]
Reads64 == [Plain EXCEPT !.mnem = "mov", !.deref = TRUE, !.val = 64]
\* A jump through the table at base.
Switch(base, range) == [Op("jmp", 1) EXCEPT !.deref = TRUE, !.index = base, !.range = range]

\* What a partial function says, and a default elsewhere.
Over(f, default) == [va \in VAs |-> IF va \in DOMAIN f THEN f[va] ELSE default]
Chars(set, class, f) == [va \in DOMAIN f |-> IF va \in set THEN class ELSE f[va]]
Nothing == [va \in {} |-> None]
Blank == [arch |-> "amd64", segs |-> <<>>, insn |-> Over(Nothing, None), word |-> Over(Nothing, 0),
          char |-> Over(Nothing, "other"), chunk |-> Over(Nothing, 0), imports |-> Nothing,
          symbols |-> Nothing, entries |-> <<>>, apis |-> {}, exits |-> {}, vamp |-> Nothing, mark |-> 99,
          go |-> [version |-> "none", start |-> 0, entries |-> <<>>, fits |-> FALSE],
          base |-> 2, tables |-> Nothing]

(***************************************************************************)
(* A 32-bit program for Windows.  Functions: the entry 4, which may jump   *)
(* through a table; 7 is a switch, or jumps through the table (late); 12   *)
(* and 32 store to memory, 32 after a check of the cookie, which 36 uses;  *)
(* 20 has a hot-patch pad; 24 jumps to an import; 28 returns its return    *)
(* address; 41 calls an import; 45 is known by its start.  54 to 62 is a    *)
(* table of pointers.  With exits, both ends of 20 call an import that does*)
(* not return, 45 calls 20, and the table is of the least length.          *)
(***************************************************************************)
PeCode(v) ==
  (4 :> Plain @@ 5 :> Go("call", 12)
   @@ 6 :> (IF "cases" \in v THEN Switch(80, None) ELSE Ret(0))
   @@ 7 :> [Sets("mov", "a", None) EXCEPT !.table = 58] @@ 8 :> Sets("add", "a", 2)
   @@ 9 :> (IF "late" \in v THEN Switch(80, IF "range" \in v THEN {0, 1} ELSE None)
            ELSE [Op("jmp", 1) EXCEPT !.dst = "a", !.mnem = "jmp"])
   @@ 10 :> Go("jmp", 11) @@ 11 :> Ret(0)
   @@ 12 :> Sets("mov", "di", 78) @@ 13 :> [Plain EXCEPT !.mnem = "stos"]
   @@ 14 :> Ret(IF "pops" \in v THEN 4 ELSE 0)
   @@ 15 :> (IF "orphan" \in v THEN [Through("call", 52) EXCEPT !.size = 3] ELSE None)
   @@ 18 :> (IF "orphan" \in v THEN Ret(0) ELSE None)
   @@ 20 :> Sig({"scan"}, Plain) @@ 21 :> (IF "exits" \in v THEN Go("jcc", 23) ELSE Go("call", 36))
   @@ 22 :> (IF "exits" \in v THEN Through("call", 52) ELSE Ret(0)) @@ 23 :> Through("call", 52)
   @@ 24 :> (IF "direct" \in v THEN Go("jmp", 36)
             ELSE Through("jmp", IF "known" \in v THEN 50 ELSE 52))
   @@ 25 :> Plain @@ 26 :> Ret(0)
   @@ 28 :> Sig({"reg"}, Plain) @@ 29 :> Ret(0) @@ 30 :> Plain
   @@ 31 :> (IF "orphan" \in v THEN Go("call", 15) ELSE Ret(0))
   @@ 32 :> Reads64 @@ 33 :> Sets("mov", "di", 78) @@ 34 :> [Plain EXCEPT !.mnem = "stos"] @@ 35 :> Ret(0)
   @@ 36 :> Go("jcc", 38) @@ 37 :> Ret(0) @@ 38 :> Reads64 @@ 39 :> Ret(0)
   @@ 41 :> [Through("call", 52) EXCEPT !.size = 3]
   @@ 44 :> (IF "orphan" \in v THEN Go("call", 30) ELSE Ret(0))
   @@ 45 :> Sig({"pointer"} \cup (IF "exits" \in v THEN {} ELSE {"entries"}), Plain)
   @@ 46 :> (IF "exits" \in v THEN Go("call", 20) ELSE Plain)
   @@ 47 :> (IF "exits" \in v THEN Plain ELSE Ret(0)))

PeImage(v) ==
  [Blank EXCEPT
     !.arch = "i386",
     !.segs = <<Seg("header", 2, 3, FALSE), Seg("text", 4, 49, TRUE), Seg("data", 50, 81, FALSE),
                Seg("reloc", 82, 95, FALSE)>>,
     !.insn = Over(PeCode(v), None),
     !.word = Over(16 :> (IF "orphan" \in v THEN 52 ELSE 0)
                   @@ 42 :> 52 @@ 54 :> 24 @@ 56 :> 28 @@ 58 :> 32
                   @@ 60 :> (IF "short" \in v THEN 0 ELSE 36) @@ 62 :> (IF "exits" \in v THEN 0 ELSE 7)
                   @@ 72 :> 66 @@ 74 :> 72
                   @@ 76 :> (IF "deep" \in v THEN 74 ELSE 45)
                   @@ 80 :> (IF v \cap {"cases", "late"} # {} THEN 10 ELSE 0), 0),
     !.char = Chars(66 .. 70, "text", Chars({71}, "nul",
                Chars(IF "orphan" \in v THEN {} ELSE 15 .. 19, "nop", Over(Nothing, "other")))),
     !.chunk = Over(82 :> (IF "badchunk" \in v THEN 20 ELSE 12), 0),
     !.imports = 50 :> <<"ntdll", "alloc">> @@ 52 :> <<"ntdll", "free">>,
     !.apis = {<<"ntdll", "alloc">>},
     !.exits = IF "exits" \in v THEN {<<"ntdll", "free">>} ELSE {},
     !.entries = <<4>>,
     !.vamp = 32 :> <<"ntdll", "security_check_cookie">>,
     !.tables = 60 :> (IF "short" \in v THEN <<0>> ELSE IF "exits" \in v THEN <<36, 0>> ELSE <<36, 7, 0>>)]

(***************************************************************************)
(* A 64-bit ELF file: the entry 4 gives main, 12, to the C library; 20 to  *)
(* 35 is the linkage table, whose entries jump through the slots 38 to 41; *)
(* 42 is a list of constructors; text in two widths, and pointers to it.   *)
(* With exports, 52 has a name, and 62 points to an address that is text.  *)
(***************************************************************************)
PltEntry(v, slot, va) ==
  va :> Through("jmp", slot) @@ va + 1 :> Plain
    @@ va + 2 :> (IF "short" \in v THEN Plain ELSE Go("jmp", 20))

ElfImage(v) ==
  [Blank EXCEPT
     !.segs = <<Seg("text", 4, 19, TRUE), Seg("plt", 20, 35, TRUE), Seg("got", 36, 41, FALSE),
                Seg(IF "array" \in v THEN "init" ELSE "ctors", 42, 47, FALSE),
                Seg("data", 48, 87, FALSE)>>,
     !.insn = Over(4 :> [Plain EXCEPT !.mnem = "arg", !.val = 12]
                   @@ 5 :> (IF "export" \in v THEN Go("call", 16) ELSE Plain)
                   @@ 6 :> Through("call", 40) @@ 7 :> Ret(0)
                   @@ 8 :> Sig({"scan"}, Plain) @@ 9 :> Plain @@ 10 :> Ret(0)
                   @@ 12 :> Plain @@ 13 :> Go("call", 24) @@ 14 :> Ret(0)
                   @@ 16 :> Plain @@ 17 :> Go("call", 28) @@ 18 :> Ret(0)
                   @@ 20 :> Plain @@ 21 :> Through("jmp", 36) @@ 22 :> Plain
                   @@ PltEntry(v, 38, 24) @@ PltEntry(v, 40, 28) @@ PltEntry(v, 48, 32), None),
     !.word = Over(38 :> 25 @@ 40 :> 29 @@ 42 :> 16 @@ 44 :> (IF "array" \in v THEN 8 ELSE 99)
                   @@ 50 :> (IF "wide" \in v THEN 66 ELSE 56) @@ 52 :> 50 @@ 54 :> 52
                   @@ (IF "export" \in v THEN 62 :> 76 @@ 76 :> 80 ELSE Nothing), 0),
     !.char = Chars(56 .. 60 \cup 76 .. 79, "text", Chars({61, 80}, "nul",
                Chars({66, 68, 70, 72}, "text", Chars({67, 69, 71, 73, 74, 75}, "nul", Over(Nothing, "other"))))),
     !.imports = 38 :> <<"c", "puts">> @@ 40 :> <<"c", "__libc_start_main">>,
     !.symbols = IF "export" \in v THEN 16 :> <<"x", "puts">> @@ 8 :> <<"y", "puts">>
                                          @@ 52 :> <<"table">> ELSE Nothing,
     !.apis = {<<"c", "puts">>},
     !.exits = IF "exits" \in v THEN {<<"c", "puts">>} ELSE {},
     !.entries = <<4>>]

\* A Go program: the function table is all that leads to 12.
GoImage(v) ==
  [Blank EXCEPT
     !.segs = <<Seg("text", 4, 23, TRUE), Seg("pclntab", 24, 29, FALSE)>>,
     !.insn = Over(4 :> Plain @@ 5 :> Go("call", 8) @@ 6 :> Ret(0)
                   @@ 8 :> Plain @@ 9 :> Ret(0) @@ 12 :> Plain @@ 13 :> Go("jmp", 4)
                   @@ 16 :> Sig({"scan", "entries"}, Plain) @@ 17 :> Plain @@ 18 :> Plain @@ 19 :> Ret(0), None),
     !.go = [version |-> IF "old" \in v THEN "1.2" ELSE "1.18", start |-> IF "start" \in v THEN 4 ELSE 0,
             entries |-> IF "old" \in v THEN <<8, 12>> ELSE <<4, 8>>, fits |-> "cut" \notin v],
     !.entries = <<4>>]

\* A program for an architecture that has no analysis of its own but this.
ArmImage(arch) ==
  [Blank EXCEPT
     !.arch = arch, !.segs = <<Seg("text", 4, 11, TRUE), Seg("data", 12, 31, FALSE)>>,
     !.insn = Over(4 :> Go("call", 8) @@ 5 :> Ret(0) @@ 8 :> Plain @@ 9 :> Ret(0), None),
     !.word = Over(12 :> 8 @@ 14 :> 12 @@ 16 :> 14 @@ 18 :> 4, 0),
     !.entries = <<4>>]

AllImages ==
  {PeImage(v) : v \in SUBSET {"pops", "known", "direct", "short", "deep", "badchunk"}}
    \cup {PeImage({"orphan"} \cup v) : v \in SUBSET {"short", "exits"}}
    \cup {PeImage({"exits"} \cup v) : v \in SUBSET {"known", "direct", "deep"}}
    \cup {PeImage({"cases"} \cup v) : v \in SUBSET {"short"}}
    \cup {PeImage({"late"} \cup v) : v \in SUBSET {"short", "range"}}
    \cup {ElfImage(v) : v \in SUBSET {"array", "wide", "short", "export"}}
    \cup {ElfImage({"exits"} \cup v) : v \in SUBSET {"short", "export"}}
    \cup {GoImage(v) : v \in SUBSET {"old", "start", "cut"}}
    \cup {ArmImage(a) : a \in {"armv7", "a64"}}

\* What free does is skipped, and puts is taken for a function that does not
\* return.
MCStubs == "free" :> "skip" @@ "puts" :> "stop"
MCMonitors ==
  {[kind |-> "path", max |-> 4, visited |-> <<>>, calls |-> <<>>],
   [kind |-> "breakpoint", at |-> {12, 38}, hit |-> None],
   [kind |-> "call", names |-> {<<"x", "puts">>}, hit |-> None],
   [kind |-> "own", at |-> {14, 16, 24}]}

=============================================================================
