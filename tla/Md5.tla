------------------------------- MODULE Md5 -------------------------------
(***************************************************************************)
(* The digest object of the app (md5.cpp) and its user, the signing of a   *)
(* map (map_md5.cpp).  The compression function is not interpreted: the    *)
(* state is the sequence of blocks that went into it, so two digests are   *)
(* equal when the same blocks were compressed.  Sizes are scaled down: a   *)
(* block holds Block bytes, the last one of them the length, and a word of *)
(* the bit count holds Word values.                                        *)
(***************************************************************************)
EXTENDS Integers, Sequences, FiniteSets, SequencesExt

CONSTANTS Block,       \* 64 in the code
          Word,        \* 2^32 in the code
          BufferSize,  \* BUFFER_SIZE
          MaxFed,      \* bound: bytes given to an object
          MaxDigests,  \* bound: digests asked of an object
          Keys         \* the keys of the maps signed, in their order; 0 is null

\* A word counts a whole number of blocks, eight bits to a byte.
ASSUME Md5Sizes ==
    /\ Block \in Nat /\ Block > 1
    /\ Word \in Nat \ {0} /\ Word % (8 * Block) = 0
    /\ BufferSize \in 1 .. Word - 1
    /\ MaxFed \in Nat /\ MaxDigests \in Nat
    /\ Keys \subseteq Nat

VARIABLES md,        \* the object: state, count, buffer, finished
          fed,       \* the bytes given to it since reset
          reading,   \* what update(ifstream&) has still to read
          answers,   \* the digests it gave since reset
          signing    \* the call of signMap

md5Vars == <<md, fed, reading, answers, signing>>

Fresh == [state |-> <<>>, count |-> <<0, 0>>, buffer |-> [i \in 1 .. Block |-> 0], finished |-> FALSE]

\* memcpy into the buffer.
Put(buffer, index, bytes) ==
    [i \in 1 .. Block |-> IF i \in index + 1 .. index + Len(bytes) THEN bytes[i - index] ELSE buffer[i]]

Index(m) == (m.count[1] \div 8) % Block

\* transform and decode, once for each block: the compression function, not
\* interpreted.
transform(state, blocks) == state \o blocks

\* Slip: the carry out of the low word is forgotten.
MutAddCount(count, length) ==
    LET bits == (length * 8) % Word
        low == (count[1] + bits) % Word
    IN  <<low, (count[2] + (length % Word) \div (Word \div 8)) % Word>>

\* The number of bits in two words, with the carry found by comparison; length
\* is cut to a word first.
AddCount(count, length) ==
    LET bits == (length * 8) % Word
        low == (count[1] + bits) % Word
        carry == IF low < bits THEN 1 ELSE 0
    IN  <<low, (count[2] + carry + (length % Word) \div (Word \div 8)) % Word>>

\* update(const byte*, size_t): fill the buffer and compress it, compress whole
\* blocks of the input, keep the rest.
update(m, input) ==
    LET length == Len(input)
        index == Index(m)
        partLen == Block - index
        whole == (length - partLen) \div Block
        i == partLen + whole * Block
        first == Put(m.buffer, index, SubSeq(input, 1, partLen))
        blocks == [k \in 1 .. whole |-> SubSeq(input, partLen + (k - 1) * Block + 1, partLen + k * Block)]
        m2 == [m EXCEPT !.finished = FALSE, !.count = AddCount(@, length)]
    IN  IF length >= partLen
        THEN [m2 EXCEPT !.state = transform(@, <<first>> \o blocks),
                        !.buffer = Put(first, 0, SubSeq(input, i + 1, length))]
        ELSE [m2 EXCEPT !.buffer = Put(@, index, input)]

\* Bytes of the message are positive; the padding's first is -1 and the length
\* below that.
PADDING(n) == [i \in 1 .. n |-> IF i = 1 THEN -1 ELSE 0]
encode(count) == -2 - count[1] - count[2] * Word

\* final: pads, appends the length and digests; state and count are restored
\* afterwards, the buffer is not, and update has cleared _finished.
final(m) ==
    LET index == Index(m)
        padLen == IF index < Block - 1 THEN Block - 1 - index ELSE 2 * Block - 1 - index
        padded == update(update(m, PADDING(padLen)), <<encode(m.count)>>)
    IN  [obj |-> [padded EXCEPT !.state = m.state, !.count = m.count], digest |-> padded.state]

digest(m, last) ==
    IF m.finished THEN [obj |-> m, digest |-> last] ELSE final([m EXCEPT !.finished = TRUE])

-----------------------------------------------------------------------------
Chunk(n) == [i \in 1 .. n |-> Len(fed) + i]

\* reset, and the constructors: the buffer keeps what it holds.
Reset ==
    /\ reading = 0
    /\ md' = [Fresh EXCEPT !.buffer = md.buffer] /\ fed' = <<>> /\ answers' = <<>>
    /\ UNCHANGED <<reading, signing>>

\* A chunk is shorter than a word can count: i and partLen are uint32.
Update(n) ==
    /\ reading = 0
    /\ Len(fed) + n <= MaxFed /\ n < Word
    /\ md' = update(md, Chunk(n)) /\ fed' = fed \o Chunk(n)
    /\ UNCHANGED <<reading, answers, signing>>

\* update(ifstream&): one buffer after the other, until the end of the file.
UpdateFile(n) ==
    /\ reading = 0
    /\ Len(fed) + n <= MaxFed
    /\ reading' = n
    /\ UNCHANGED <<md, fed, answers, signing>>

ReadBuffer ==
    /\ reading > 0
    /\ LET length == IF reading < BufferSize THEN reading ELSE BufferSize
       IN  /\ md' = update(md, Chunk(length)) /\ fed' = fed \o Chunk(length)
           /\ reading' = reading - length
    /\ UNCHANGED <<answers, signing>>

Digest ==
    /\ reading = 0
    /\ Len(answers) < MaxDigests
    /\ LET last == IF answers = <<>> THEN <<>> ELSE answers[Len(answers)].value
           d == digest(md, last)
       IN  md' = d.obj /\ answers' = Append(answers, [of |-> fed, value |-> d.digest])
    /\ UNCHANGED <<fed, reading, signing>>

-----------------------------------------------------------------------------
(* signMap *)

md5_key == 9

NoSigning == [pc |-> "idle", map |-> {}, left |-> {}, list |-> <<>>, strings |-> 0, refs |-> 0]

Md5Init == md = Fresh /\ fed = <<>> /\ reading = 0 /\ answers = <<>> /\ signing = NoSigning

\* Map.put of the key, in the caller's map, which replaces its value; then
\* entrySet and its iterator.
SignMap(m) ==
    /\ signing.pc = "idle"
    /\ LET all == {e \in m : e[1] # md5_key} \cup {<<md5_key, "used_key">>}
       IN  signing' = [signing EXCEPT !.pc = "next", !.map = all, !.left = all]
    /\ UNCHANGED <<md, fed, reading, answers>>

\* A null key or value skips the entry and what it holds: local references, and
\* the key's characters.  The value's characters are never released.
NextEntry(e) ==
    /\ signing.pc = "next" /\ e \in signing.left
    /\ LET nullKey == e[1] = 0  nullValue == e[2] = "null"
       IN  signing' = [signing EXCEPT
              !.left = @ \ {e},
              !.list = IF nullKey \/ nullValue THEN @ ELSE Append(@, e),
              !.strings = IF nullKey THEN @ ELSE @ + 1,
              !.refs = IF nullKey THEN @ + 1 ELSE IF nullValue THEN @ + 2 ELSE @]
    /\ UNCHANGED <<md, fed, reading, answers>>

\* KeyValue::operator<
Before(a, b) == a[1] < b[1]

\* list::sort, and the digest of key=value&...
Sign ==
    /\ signing.pc = "next" /\ signing.left = {}
    /\ LET list == signing.list
       IN  \E p \in Bijection(DOMAIN list, DOMAIN list) :
              /\ \A i, j \in DOMAIN list : i < j => ~Before(list[p[j]], list[p[i]])
              /\ signing' = [signing EXCEPT !.pc = "signed", !.list = [i \in DOMAIN list |-> list[p[i]]]]
    /\ UNCHANGED <<md, fed, reading, answers>>

Maps == {m \in SUBSET (Keys \X {"v", "w", "null"}) : \A a, b \in m : a[1] = b[1] => a = b}

Md5Next == Reset \/ (\E n \in 0 .. MaxFed : Update(n) \/ UpdateFile(n)) \/ ReadBuffer \/ Digest

SignNext == (\E m \in Maps : SignMap(m)) \/ (\E e \in signing.left : NextEntry(e)) \/ Sign

Md5Spec == Md5Init /\ [][Md5Next \/ SignNext]_md5Vars

-----------------------------------------------------------------------------
\* The blocks of a message, padded and with its length.
Reference(msg) ==
    LET n == Len(msg)
        zeros == (Block - ((n + 2) % Block)) % Block
        all == msg \o PADDING(1 + zeros)
                   \o <<encode(<<(8 * n) % Word, ((8 * n) \div Word) % Word>>)>>
    IN  [k \in 1 .. Len(all) \div Block |-> SubSeq(all, (k - 1) * Block + 1, k * Block)]

(* However the bytes were cut into updates, strings and file buffers, the first *)
(* digest since reset is that of the bytes given (md5.cpp:115-210).  Two maps   *)
(* with the same entries are signed alike, whatever the order of the iteration, *)
(* and every entry without a null counts (map_md5.cpp:61-78).                   *)
DigestExact ==
    /\ answers # <<>> => answers[1].value = Reference(answers[1].of)
    /\ signing.pc = "signed" =>
          LET kept == {e \in signing.map : e[1] # 0 /\ e[2] # "null"}
          IN  /\ ToSet(signing.list) = kept /\ Len(signing.list) = Cardinality(kept)
              /\ \A i \in 1 .. Len(signing.list) - 1 : Before(signing.list[i], signing.list[i + 1])
=============================================================================
