------------------------------- MODULE Utf8 -------------------------------
(***************************************************************************)
(* The string conversions of the JNI helper library (utf8.cpp): standard   *)
(* UTF-8, the modified UTF-8 that JNI reads (NUL on two bytes, a           *)
(* supplementary character as two surrogates of three bytes) and UTF-16.   *)
(* Bytes and UTF-16 units are numbers.  FBJNI_LOGF only logs on Android,   *)
(* so a conversion goes on after it.                                       *)
(***************************************************************************)
EXTENDS Integers, Sequences, SequencesExt

CONSTANTS Points,      \* characters of the texts tried
          Bytes,       \* bytes of the arbitrary inputs tried
          Units,       \* UTF-16 units of the inputs tried
          MaxPoints, MaxBytes, MaxUnits

\* Code points are those of characters, no surrogates.
ASSUME UtfAssumption ==
    /\ \A p \in Points : p \in Nat /\ p <= 1114111 /\ (p < 55296 \/ p > 57343)
    /\ Bytes \subseteq 0 .. 255
    /\ \A u \in Units : u \in Nat /\ u <= 65535
    /\ MaxPoints \in Nat /\ MaxBytes \in Nat /\ MaxUnits \in Nat

VARIABLES given,      \* the input: its kind and its contents
          converted   \* what the conversions made of it, once made

utfVars == <<given, converted>>

Bits6(n) == 128 + (n % 64)

\* The leading byte of a group of three, as a uint8_t.
Lead3(n) == IF n < 32 THEN 224 + n ELSE 255

encode3ByteUTF8(code) == <<Lead3(code \div 4096), Bits6(code \div 64), Bits6(code)>>

decode3ByteUTF8(in, i) == (in[i] % 16) * 4096 + (in[i + 1] % 64) * 64 + (in[i + 2] % 64)

encode4ByteUTF8(code) ==
    <<240 + code \div 262144, Bits6(code \div 4096), Bits6(code \div 64), Bits6(code)>>

isFourByteUTF8Encoding(b) == b \div 8 = 30

-----------------------------------------------------------------------------
(* UTF-8 to modified UTF-8 *)

\* The loop of a conversion: at place i it writes piece[i].out and moves on by
\* piece[i].used.
Written(piece) ==
    LET n == Len(piece)
        f[i \in 1 .. n + 6] == IF i > n THEN <<>> ELSE piece[i].out \o f[i + piece[i].used]
    IN  f[1]

\* The loop of a length.
Counted(piece) ==
    LET n == Len(piece)
        f[i \in 1 .. n + 6] == IF i > n THEN 0 ELSE piece[i].size + f[i + piece[i].used]
    IN  f[1]

\* modifiedLength(std::string): a NUL counts two.
modifiedLength(str) ==
    LET n == Len(str)
        four(i) == i + 3 <= n /\ isFourByteUTF8Encoding(str[i])
    IN  Counted([i \in 1 .. n |->
            IF str[i] = 0 THEN [size |-> 2, used |-> 1]
            ELSE IF ~four(i) THEN [size |-> 1, used |-> 1]
            ELSE [size |-> 6, used |-> 4]])

\* modifiedLength(const uint8_t*, size_t*): <<modified length, *length>>; the
\* input ends at its first NUL, which may cut a four-byte encoding short.
modifiedLengthC(str) ==
    LET n == Len(str)
        at(k) == IF k > n THEN 0 ELSE str[k]
        four(i) == at(i + 1) # 0 /\ at(i + 2) # 0 /\ at(i + 3) # 0 /\ isFourByteUTF8Encoding(str[i])
        used(i) == IF str[i] = 0 THEN n + 1 - i ELSE IF ~four(i) THEN 1 ELSE 4
    IN  <<Counted([i \in 1 .. n |->
              [size |-> IF str[i] = 0 THEN 0 ELSE IF ~four(i) THEN 1 ELSE 6, used |-> used(i)]]),
          Counted([i \in 1 .. n |->
              [size |-> IF str[i] = 0 THEN 0 ELSE used(i), used |-> used(i)]])>>

decode4ByteUTF8(in, i) ==
    (in[i] % 8) * 262144 + (in[i + 1] % 64) * 4096 + (in[i + 2] % 64) * 64 + (in[i + 3] % 64)

\* Two replacement characters above the last code point; the subtraction is
\* unsigned and wraps below the first supplementary one.
surrogates(code) ==
    IF code > 1114111 THEN <<65533, 65533>>
    ELSE <<IF code < 65536 THEN 4194240 + code \div 1024 ELSE 55296 + (code - 65536) \div 1024,
           56320 + (code % 1024)>>

\* Slip: a leading byte is trusted although the input ends before its last byte.
MutToModified(utf8) ==
    LET n == Len(utf8)
        four(i) == i + 2 <= n /\ isFourByteUTF8Encoding(utf8[i])
        two(i) == surrogates(decode4ByteUTF8(utf8 \o <<0>>, i))
    IN  Written([i \in 1 .. n |->
            IF utf8[i] = 0 THEN [out |-> <<192, 128>>, used |-> 1]
            ELSE IF ~four(i) THEN [out |-> <<utf8[i]>>, used |-> 1]
            ELSE [out |-> encode3ByteUTF8(two(i)[1]) \o encode3ByteUTF8(two(i)[2]), used |-> 4]])

utf8ToModifiedUTF8(utf8) ==
    LET n == Len(utf8)
        four(i) == i + 3 <= n /\ isFourByteUTF8Encoding(utf8[i])
        two(i) == surrogates(decode4ByteUTF8(utf8, i))
    IN  Written([i \in 1 .. n |->
            IF utf8[i] = 0 THEN [out |-> <<192, 128>>, used |-> 1]
            ELSE IF ~four(i) THEN [out |-> <<utf8[i]>>, used |-> 1]
            ELSE [out |-> encode3ByteUTF8(two(i)[1]) \o encode3ByteUTF8(two(i)[2]), used |-> 4]])

\* What a pair of surrogates of three bytes each stands for.
fromPair(m, i) ==
    65536 + (decode3ByteUTF8(m, i) % 1024) * 1024 + (decode3ByteUTF8(m, i + 3) % 1024)

modifiedUTF8ToUTF8(m) ==
    LET n == Len(m)
        pair(i) == /\ i + 5 <= n /\ m[i] = 237 /\ m[i + 1] \div 16 = 10
                   /\ m[i + 3] = 237 /\ m[i + 4] \div 16 = 11
        nul(i) == i < n /\ m[i] = 192 /\ m[i + 1] = 128
    IN  Written([i \in 1 .. n |->
            IF pair(i) THEN [out |-> encode4ByteUTF8(fromPair(m, i)), used |-> 6]
            ELSE IF nul(i) THEN [out |-> <<0>>, used |-> 2]
            ELSE [out |-> <<m[i]>>, used |-> 1]])

\* make_jstring(const char*): what NewStringUTF is given; a text without NUL or
\* supplementary characters is not converted.
make_jstring(utf8) ==
    LET lens == modifiedLengthC(utf8)  c == SubSeq(utf8, 1, lens[2])
    IN  IF lens[1] = lens[2] THEN c ELSE utf8ToModifiedUTF8(c)

-----------------------------------------------------------------------------
(* UTF-16 to UTF-8 *)

HighSub(u) == u \in 55296 .. 56319
LowSub(u) == u \in 56320 .. 57343
Pair16(s, i) == HighSub(s[i]) /\ i < Len(s) /\ LowSub(s[i + 1])

utf16toUTF8Length(s) ==
    Counted([i \in 1 .. Len(s) |->
        IF s[i] < 128 THEN [size |-> 1, used |-> 1]
        ELSE IF s[i] < 2048 THEN [size |-> 2, used |-> 1]
        ELSE IF Pair16(s, i) THEN [size |-> 4, used |-> 2]
        ELSE [size |-> 3, used |-> 1]])

FourFrom16(ch, ch2) ==
    LET trunc_byte == ((ch \div 64) % 16) + 1
    IN  <<240 + trunc_byte \div 4,
          128 + (trunc_byte % 4) * 16 + ((ch \div 4) % 16),
          128 + (ch % 4) * 16 + ((ch2 \div 64) % 16),
          Bits6(ch2)>>

utf16toUTF8(s) ==
    Written([i \in 1 .. Len(s) |->
        IF s[i] < 128 THEN [out |-> <<s[i]>>, used |-> 1]
        ELSE IF s[i] < 2048 THEN [out |-> <<192 + s[i] \div 64, Bits6(s[i])>>, used |-> 1]
        ELSE IF Pair16(s, i) THEN [out |-> FourFrom16(s[i], s[i + 1]), used |-> 2]
        ELSE [out |-> encode3ByteUTF8(s[i]), used |-> 1]])

-----------------------------------------------------------------------------
(* The encodings themselves, as the standards define them *)

\* The bits of a code from a place on, six to a byte.
Six(code, place) == 128 + ((code \div place) % 64)

Standard(code) ==
    IF code < 128 THEN <<code>>
    ELSE IF code < 2048 THEN <<192 + code \div 64, Six(code, 1)>>
    ELSE IF code < 65536 THEN <<224 + code \div 4096, Six(code, 64), Six(code, 1)>>
    ELSE <<240 + code \div 262144, Six(code, 4096), Six(code, 64), Six(code, 1)>>

Units16(code) ==
    IF code < 65536 THEN <<code>>
    ELSE <<55296 + (code - 65536) \div 1024, 56320 + ((code - 65536) % 1024)>>

Modified(code) ==
    IF code = 0 THEN <<192, 128>>
    ELSE FlattenSeq([k \in DOMAIN Units16(code) |-> Standard(Units16(code)[k])])

Encoded(text, Enc(_)) == FlattenSeq([k \in DOMAIN text |-> Enc(text[k])])

-----------------------------------------------------------------------------
UtfInit ==
    /\ converted = {}
    /\ given \in    {[kind |-> "text", of |-> t] : t \in BoundedSeq(Points, MaxPoints)}
              \cup {[kind |-> "bytes", of |-> b] : b \in BoundedSeq(Bytes, MaxBytes)}
              \cup {[kind |-> "units", of |-> u] : u \in BoundedSeq(Units, MaxUnits)}

\* Input bytes and units, whatever kind of input it is.
AsBytes == IF given.kind = "text" THEN Encoded(given.of, Standard) ELSE given.of
AsUnits == IF given.kind = "text" THEN Encoded(given.of, Units16) ELSE given.of

Convert ==
    /\ converted = {} /\ given' = given
    /\ converted' =
          {[modified |-> IF given.kind = "units" THEN <<>> ELSE utf8ToModifiedUTF8(AsBytes),
            jstring  |-> IF given.kind = "units" THEN <<>> ELSE make_jstring(AsBytes),
            utf8     |-> IF given.kind = "bytes" THEN <<>> ELSE utf16toUTF8(AsUnits)]}

UtfNext == Convert

UtfSpec == UtfInit /\ [][UtfNext]_utfVars

(* The lengths that the callers allocate are the lengths written, for every     *)
(* byte string and every sequence of UTF-16 units, cut off encodings and lone   *)
(* surrogates included: the checks against a short buffer only log on Android.  *)
(* And a text becomes the modified UTF-8 that JNI defines, which converts back  *)
(* to the text; make_jstring hands Java the text up to its first NUL; UTF-16    *)
(* becomes the UTF-8 of the same text (utf8.cpp:67-284, fbjni.cpp:107-135).     *)
ConversionsExact ==
    \A c \in converted :
        /\ given.kind # "units" =>
              /\ Len(c.modified) = modifiedLength(AsBytes)
              /\ Len(c.jstring) = modifiedLengthC(AsBytes)[1]
        /\ given.kind # "bytes" => Len(c.utf8) = utf16toUTF8Length(AsUnits)
        /\ given.kind = "text" =>
              LET t == given.of
                  nul == SelectInSeq(t, LAMBDA p : p = 0)
                  head == IF nul = 0 THEN t ELSE SubSeq(t, 1, nul - 1)
              IN  /\ c.modified = Encoded(t, Modified)
                  /\ modifiedUTF8ToUTF8(c.modified) = AsBytes
                  /\ c.jstring = Encoded(head, Modified)
                  /\ c.utf8 = AsBytes
=============================================================================
