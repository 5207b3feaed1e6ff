----------------------------- MODULE MCLinker -----------------------------
(***************************************************************************)
(* The linker library and its clients for TLC.  The parts share no         *)
(* state that one of them could disturb in another, so a behaviour         *)
(* exercises one of them.                                                  *)
(***************************************************************************)
EXTENDS PltHook, ElfLookup, LibRegistry, HookClients, TLC

CONSTANTS l1, l2, l3

VARIABLE side

\* Two libraries with the same base name.
MCBase == l1 :> "a" @@ l2 :> "a" @@ l3 :> "b"

\* Dynamic sections as GNU ld and lld order them, with one or both hash tables, with
\* the entries of the other relocations before, after and across the place where the
\* rest is complete, and one that never is.
MCOrders == {
  <<"HASH", "GNU_HASH", "STRTAB", "SYMTAB", "PLTRELSZ", "JMPREL", "REL", "RELSZ">>,
  <<"REL", "RELSZ", "JMPREL", "PLTRELSZ", "SYMTAB", "STRTAB", "GNU_HASH", "HASH">>,
  <<"STRTAB", "SYMTAB", "JMPREL", "PLTRELSZ", "REL", "RELSZ", "HASH", "GNU_HASH">>,
  <<"RELSZ", "STRTAB", "SYMTAB", "PLTRELSZ", "JMPREL", "GNU_HASH", "REL">>,
  <<"GNU_HASH", "STRTAB", "REL", "SYMTAB", "JMPREL", "PLTRELSZ", "RELSZ">>,
  <<"GNU_HASH", "STRTAB", "SYMTAB", "REL", "RELSZ">>}

MCPltLists == {s \in BoundedSeq(1 .. 2, 2) : s # <<>>}

\* Threads, hook functions and slots are interchangeable.
MCSymmetry ==
  Permutations(Mutators) \cup Permutations(Hooks) \cup Permutations(Slots)
    \cup Permutations(Users) \cup Permutations(Workers)

MCInit ==
  /\ Init /\ RegInit /\ ClientsInit
  /\ side \in {"hook", "elf", "registry", "clients"}
  /\ IF side = "elf" THEN ElfInit ELSE lib = NoOne /\ elfAsked = {}
  /\ side # "clients" => linker["atrace"].enabled /\ tags = CHOOSE v \in TagValues : TRUE

\* What the rest of the library keeps while one part runs.
parts == <<vars, elfVars, regVars, clientVars>>

MCNext ==
  /\ side' = side
  /\ \/ side = "hook" /\ Next /\ UNCHANGED <<elfVars, regVars, clientVars>>
     \/ side = "elf" /\ ElfNext /\ UNCHANGED <<vars, regVars, clientVars>>
     \/ side = "registry" /\ RegNext /\ UNCHANGED <<vars, elfVars, clientVars>>
     \/ side = "clients" /\ ClientsNext /\ UNCHANGED <<vars, elfVars, regVars>>

MCSpec == MCInit /\ [][MCNext]_<<parts, side>>
=============================================================================
