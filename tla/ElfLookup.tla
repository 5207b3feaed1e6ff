----------------------------- MODULE ElfLookup -----------------------------
(***************************************************************************)
(* elfSharedLibData.cpp: what the linker library reads out of a mapped     *)
(* shared object.  A state holds one library as the static linker wrote it *)
(* (symbols, hash tables, relocations, the order of its dynamic section);  *)
(* the operators are what the constructor and the lookups compute from it. *)
(* Names stand for strings and hash values are scaled down.                *)
(***************************************************************************)
EXTENDS Integers, FiniteSets, Sequences, SequencesExt

CONSTANTS Names, NumHashes, MaxBuckets, MaskBits, BloomSize, BloomShift,
          Orders,    \* orders in which the dynamic section may list its entries
          PltLists,  \* what the PLT relocations may name, slot by slot
          RelSets    \* and what the other relocations may

Tags == {"PLTRELSZ", "JMPREL", "RELSZ", "REL", "SYMTAB", "STRTAB", "HASH", "GNU_HASH"}

ASSUME ElfBounds ==
    /\ IsFiniteSet(Names) /\ Cardinality(Names) >= 2
    /\ Orders \subseteq Seq(Tags)
    /\ PltLists \subseteq Seq(1 .. Cardinality(Names))
    /\ RelSets \subseteq SUBSET (1 .. Cardinality(Names))
    /\ NumHashes \in Nat /\ MaxBuckets \in Nat \ {0}
    /\ MaskBits \in Nat \ {0} /\ BloomSize \in {1, 2, 4} /\ BloomShift \in Nat

VARIABLES lib,      \* the library
          elfAsked  \* the lookups made so far, with their answers

elfVars == <<lib, elfAsked>>

Needed == {"PLTRELSZ", "JMPREL", "SYMTAB", "STRTAB"}

(* Symbols: defined ones come last and, for the GNU table, sorted by bucket. *)
Undefined(l) == {i \in DOMAIN l.syms : i < l.symoffset}
Bucket(l, i) == l.hash[l.syms[i]] % l.buckets
Sorted(l) == \A i, j \in DOMAIN l.syms \ Undefined(l) : i < j => Bucket(l, i) <= Bucket(l, j)

Libraries ==
    {l \in [syms : {SetToSeq(Names)},
            buckets : 1 .. MaxBuckets,
            symoffset : 1 .. Cardinality(Names) + 1,
            hash : [Names -> 0 .. NumHashes - 1],
            plt : PltLists,
            rel : RelSets,
            dyn : Orders] :
       Sorted(l)}

-----------------------------------------------------------------------------
\* Slip: the size of the table is not asked for.
MutComplete(found) ==
    Needed \ {"PLTRELSZ"} \subseteq found /\ {"HASH", "GNU_HASH"} \cap found # {}

\* is_complete, tested after every entry: what follows is not read any more.
is_complete(found) == Needed \subseteq found /\ {"HASH", "GNU_HASH"} \cap found # {}

\* {}: the constructor throws.
Parsed(l) ==
    LET prefix(k) == Range(SubSeq(l.dyn, 1, k))
        stops == {k \in DOMAIN l.dyn : is_complete(prefix(k))}
    IN  IF stops = {} THEN {} ELSE prefix(Min(stops))

\* Empty until both the table and its size are read.
pltRelocations(l) == IF {"PLTRELSZ", "JMPREL"} \subseteq Parsed(l) THEN l.plt ELSE <<>>

usesGnuHashTable(l) == "GNU_HASH" \in Parsed(l)

\* The GNU table as the static linker writes it.
EndsChain(l, i) == ~\E j \in DOMAIN l.syms \ Undefined(l) : j = i + 1 /\ Bucket(l, j) = Bucket(l, i)
Buckets(l, b) ==
    LET in == {i \in DOMAIN l.syms \ Undefined(l) : Bucket(l, i) = b}
    IN  IF in = {} THEN 0 ELSE Min(in)
Word(h) == (h \div MaskBits) % BloomSize
Bits(h) == {h % MaskBits, (h \div 2 ^ BloomShift) % MaskBits}
Bloom(l, w) ==
    UNION {Bits(l.hash[l.syms[i]]) : i \in {j \in DOMAIN l.syms \ Undefined(l) : Word(l.hash[l.syms[j]]) = w}}

\* The filter, the bucket and the chain up to the entry whose low bit is set;
\* hashes are compared without that bit, then names.
gnu_find_symbol_by_name(l, name) ==
    LET h == l.hash[name]
        n == Buckets(l, h % l.buckets)
        ends == {i \in n .. Len(l.syms) : EndsChain(l, i)}
        hits == {i \in n .. Min(ends) : l.hash[l.syms[i]] \div 2 = h \div 2 /\ l.syms[i] = name}
    IN  IF ~(Bits(h) \subseteq Bloom(l, Word(h))) \/ n = 0 \/ hits = {} THEN 0 ELSE Min(hits)

\* The System V table holds every symbol.
elf_find_symbol_by_name(l, name) ==
    LET hits == {i \in DOMAIN l.syms : /\ l.hash[l.syms[i]] % l.buckets = l.hash[name] % l.buckets
                                       /\ l.syms[i] = name}
    IN  IF hits = {} THEN 0 ELSE Min(hits)

\* A size that was read without its table: the loop starts at a null pointer.
NullRead == -1

\* Undefined symbols are not in the GNU table: the relocations name them.
find_symbol_by_name(l, name) ==
    LET hashed == IF usesGnuHashTable(l) THEN gnu_find_symbol_by_name(l, name)
                  ELSE elf_find_symbol_by_name(l, name)
        inPlt == {i \in Range(pltRelocations(l)) : l.syms[i] = name}
        inRel == {i \in l.rel : {"REL", "RELSZ"} \subseteq Parsed(l) /\ l.syms[i] = name}
        null == l.rel # {} /\ "RELSZ" \in Parsed(l) /\ "REL" \notin Parsed(l)
    IN  CASE hashed # 0 -> hashed
          [] hashed = 0 /\ inPlt # {} -> Min(inPlt)
          [] hashed = 0 /\ inPlt = {} /\ null -> NullRead
          [] hashed = 0 /\ inPlt = {} /\ ~null /\ inRel # {} -> Min(inRel)
          [] OTHER -> 0

\* The slots whose relocation names the symbol: positions in DT_JMPREL.
get_plt_relocations(l, sym) == {k \in DOMAIN pltRelocations(l) : pltRelocations(l)[k] = sym}

-----------------------------------------------------------------------------
ElfInit == lib \in Libraries /\ elfAsked = {}

Ask(name) ==
    /\ elfAsked = {} /\ Parsed(lib) # {}
    /\ LET s == find_symbol_by_name(lib, name)
       IN  elfAsked' = {[name |-> name, sym |-> s, slots |-> get_plt_relocations(lib, s)]}
    /\ lib' = lib

ElfNext == \E name \in Names : Ask(name)

ElfSpec == ElfInit /\ [][ElfNext]_elfVars

IndexOf(name) == CHOOSE j \in DOMAIN lib.syms : lib.syms[j] = name

(* Whichever hash tables a library has and in whatever order its dynamic        *)
(* section lists them, a lookup gives the symbol of that name or none, and      *)
(* finds it when it is defined or called through the PLT, with all of its PLT   *)
(* slots, or named by other relocations that were read.  Reading stops at the   *)
(* first entry with which the rest is there; only when it stops between the     *)
(* size of those relocations and their table can a lookup follow a null pointer *)
(* (elfSharedLibData.cpp:185, 222-342).                                         *)
LookupExact ==
    \A q \in elfAsked :
        LET i == IndexOf(q.name)
            imported == i \in Range(lib.plt)
        IN  /\ q.sym \in {0, i, NullRead}
            /\ i \notin Undefined(lib) \/ imported => q.sym = i
            /\ i \in lib.rel /\ {"REL", "RELSZ"} \subseteq Parsed(lib) => q.sym = i
            /\ q.sym = NullRead => "RELSZ" \in Parsed(lib) /\ "REL" \notin Parsed(lib)
            /\ imported => q.slots = {k \in DOMAIN lib.plt : lib.syms[lib.plt[k]] = q.name}
=============================================================================
