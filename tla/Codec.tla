------------------------------- MODULE Codec -------------------------------
(***************************************************************************)
(* The data types of the Minecraft protocol as mcstatus writes and reads   *)
(* them: BaseSyncWriter/BaseSyncReader and their async twins               *)
(* (mcstatus/_protocol/io/base_io.py) and MinecraftWrite/MinecraftRead     *)
(* (src/io.rs).  The widths are parameters: a byte carries PayloadBits     *)
(* bits (7 in the code) and a continuation bit, a varint IntBits (32), a   *)
(* varlong LongBits (64), which is also the width of Rust's u64.           *)
(*                                                                         *)
(* A read of `unread`, the bytes not read yet, is a record: err ("none" or *)
(* why it failed), val (what it returned) and used (the bytes it consumed, *)
(* whether or not it failed).                                              *)
(***************************************************************************)
EXTENDS Integers, Sequences, FiniteSets

CONSTANTS
    PayloadBits, IntBits, LongBits,
    MaxChars,   \* characters of a string (32767)
    MaxBytes,   \* bytes of a string (131068, four per character)
    Lead,       \* bytes that begin a UTF-8 character of two bytes
    Cont,       \* bytes that continue one
    ShortSize,    \* bytes of a short (2)
    StandardLong, \* bytes of Python's struct format ">l" (4)
    NativeLong    \* bytes of its "l", a C long, and of Rust's Long (8)

Byte == 0 .. 2 ^ (PayloadBits + 1) - 1

ASSUME WidthAssumption ==
    /\ PayloadBits \in Nat \ {0} /\ IntBits \in Nat \ {0}
    /\ LongBits \in Nat /\ LongBits >= IntBits
Fits(n, bits) == -(2 ^ (bits - 1)) <= n /\ n < 2 ^ (bits - 1)

ASSUME TextAssumption ==
    /\ MaxChars \in Nat /\ MaxBytes \in Nat
    /\ 2 * MaxChars <= MaxBytes /\ Fits(MaxBytes, IntBits)
    /\ Lead \subseteq Byte \ {0} /\ Cont \subseteq Byte \ {0}
    /\ Lead \cap Cont = {}

ASSUME SizeAssumption == {ShortSize, StandardLong, NativeLong} \subseteq Nat \ {0}

Impl == {"python", "rust"}
None == "None"

-----------------------------------------------------------------------------
(* Two's complement: a number Fits a width, and its bits.                  *)

ToTwosComplement(n, bits) == IF n < 0 THEN n + 2 ^ bits ELSE n

\* A mutated form: the number with only the sign bit set is taken as positive.
SignMisjudged(u, bits) == IF u > 2 ^ (bits - 1) THEN u - 2 ^ bits ELSE u

FromTwosComplement(u, bits) == IF u >= 2 ^ (bits - 1) THEN u - 2 ^ bits ELSE u

-----------------------------------------------------------------------------
(* Writing.                                                                *)

More(b) == b >= 2 ^ PayloadBits
Payload(b) == b % 2 ^ PayloadBits

\* Groups of PayloadBits bits, the least significant first, as few as hold v:
\* what is left of v above i groups, how many there are, and their bytes.
Above(v, i) == v \div 2 ^ (PayloadBits * i)
Groups(v) ==
    CHOOSE k \in 1 .. LongBits : Above(v, k) = 0 /\ (k = 1 \/ Above(v, k - 1) # 0)
WriteVaruint(v) ==
    [i \in 1 .. Groups(v) |->
        Payload(Above(v, i - 1)) + (IF i < Groups(v) THEN 2 ^ PayloadBits ELSE 0)]

WriteVarint(n) == WriteVaruint(ToTwosComplement(n, IntBits))
WriteVarlong(n) == WriteVaruint(ToTwosComplement(n, LongBits))

\* Python refuses a length that is no varint; Rust's `as i32` wraps it.
LengthFits(n, impl) == impl = "rust" \/ Fits(n, IntBits)
WriteBytearray(s) ==
    WriteVarint(FromTwosComplement(Len(s) % 2 ^ IntBits, IntBits)) \o s

\* Python refuses a character above Latin-1, Rust writes the byte Mark ('?').
Mark == 1
Latin1(s) == \A i \in DOMAIN s : s[i] \in Byte
WriteAscii(s) == [i \in DOMAIN s |-> IF s[i] \in Byte THEN s[i] ELSE Mark] \o <<0>>

\* UTF-8: two-byte characters are a Lead and a Cont, the others one byte.
WellFormed(s) ==
    /\ \A i \in DOMAIN s : s[i] \in Lead <=> i + 1 \in DOMAIN s /\ s[i + 1] \in Cont
    /\ s # << >> => s[1] \notin Cont
Chars(s) == Cardinality({i \in DOMAIN s : s[i] \notin Cont})

\* The length that is compared with MaxChars: Rust's String::len is in bytes.
Counted(s, impl) == IF impl = "rust" THEN Len(s) ELSE Chars(s)

-----------------------------------------------------------------------------
(* Reading.                                                                *)

Done(val, used) == [err |-> "none", val |-> val, used |-> used]
Failed(err, used) == [err |-> err, val |-> None, used |-> used]

\* A mutated form: a short read leaves the partial data unread.
TakeUndepleted(unread, n) ==
    IF n > Len(unread) THEN Failed("eof", 0) ELSE Done(SubSeq(unread, 1, n), n)

\* Buffer.read of Python and read_exact of Rust: a short read depletes.
Take(unread, n) ==
    IF n > Len(unread) THEN Failed("eof", Len(unread))
    ELSE Done(SubSeq(unread, 1, n), n)

ByteLimit(bits) == (bits + PayloadBits - 1) \div PayloadBits

\* What is left of a shifted sum: everything, or the low bits of a u64.
Kept(n, impl) == IF impl = "rust" THEN n % 2 ^ LongBits ELSE n

\* The sum of the first i groups.
Sum(unread, i, impl) ==
    LET sum[j \in 0 .. Len(unread)] ==
            IF j = 0 THEN 0
            ELSE Kept(sum[j - 1] + Payload(unread[j]) * 2 ^ (PayloadBits * (j - 1)), impl)
    IN  sum[i]

\* The loop of _read_varuint ends at byte i: there is none, the sum is no longer
\* below `bound`, or no byte follows.
Stops(unread, i, bound, impl) ==
    \/ i > Len(unread)
    \/ Sum(unread, i, impl) >= bound
    \/ ~More(unread[i])

\* Where it ends and how, if it meets at most `limit` bytes.
VaruintWithin(unread, limit, bound, impl) ==
    LET stops == {i \in 1 .. limit : Stops(unread, i, bound, impl)}
        last == CHOOSE i \in stops : \A j \in stops : i <= j
    IN  IF stops = {} THEN Failed("long", limit)
        ELSE IF last > Len(unread) THEN Failed("eof", Len(unread))
        ELSE IF Sum(unread, last, impl) >= bound THEN Failed("range", last)
        ELSE Done(Sum(unread, last, impl), last)

\* A mutated form: the value is not compared with the width.
VaruintUnchecked(unread, bits, impl) ==
    VaruintWithin(unread, ByteLimit(bits), 2 ^ (PayloadBits * ByteLimit(bits)), impl)

ReadVaruint(unread, bits, impl) ==
    VaruintWithin(unread, ByteLimit(bits), 2 ^ bits, impl)

Signed(r, bits) ==
    IF r.err = "none" THEN [r EXCEPT !.val = FromTwosComplement(@, bits)] ELSE r
ReadVarint(unread, impl) == Signed(ReadVaruint(unread, IntBits, impl), IntBits)
ReadVarlong(unread, impl) == Signed(ReadVaruint(unread, LongBits, impl), LongBits)

Rest(unread, r) == SubSeq(unread, r.used + 1, Len(unread))
Plus(r, used) == [r EXCEPT !.used = @ + used]

ReadBytearray(unread, impl) ==
    LET n == ReadVarint(unread, impl)
    IN  IF n.err # "none" THEN n
        ELSE IF n.val < 0 THEN Failed("negative", n.used)
        ELSE Plus(Take(Rest(unread, n), n.val), n.used)

\* A string whose length passed the limits: decoded, then its characters counted.
Decoded(r, impl) ==
    IF r.err # "none" THEN r
    ELSE IF ~WellFormed(r.val) THEN Failed("encoding", r.used)
    ELSE IF Counted(r.val, impl) > MaxChars THEN Failed("chars", r.used)
    ELSE r

ReadUtf(unread, impl) ==
    LET n == ReadVarint(unread, impl)
    IN  IF n.err # "none" THEN n
        ELSE IF n.val < 0 THEN Failed("negative", n.used)
        ELSE IF n.val > MaxBytes THEN Failed("limit", n.used)
        ELSE Decoded(Plus(Take(Rest(unread, n), n.val), n.used), impl)

\* Up to the NUL, which is consumed and not returned.
ReadAscii(unread) ==
    LET nuls == {i \in DOMAIN unread : unread[i] = 0}
        nul == CHOOSE i \in nuls : \A j \in nuls : i <= j
    IN  IF nuls = {} THEN Failed("eof", Len(unread))
        ELSE Done(SubSeq(unread, 1, nul - 1), nul)

\* read_optional(read_varint): a bool, any byte but 0 being true, and the value.
ReadOptional(unread, impl) ==
    IF unread = << >> THEN Failed("eof", 0)
    ELSE IF Head(unread) = 0 THEN Done(None, 1)
    ELSE Plus(ReadVarint(Tail(unread), impl), 1)

-----------------------------------------------------------------------------
(* Numbers of a fixed size, big-endian.                                    *)

Formats == {"short", "ushort", "long"}
ByteBits == PayloadBits + 1

\* The size of a format in the bytes: struct.pack(">" + fmt), to_be_bytes.
PackedSize(fmt, impl) ==
    IF fmt # "long" THEN ShortSize
    ELSE IF impl = "rust" THEN NativeLong ELSE StandardLong

\* The size that is read: struct.calcsize(fmt) lacks the ">".
AskedSize(fmt) == IF fmt = "long" THEN NativeLong ELSE ShortSize

InFormat(n, fmt, size) ==
    IF fmt = "ushort" THEN 0 <= n /\ n < 2 ^ (size * ByteBits) ELSE Fits(n, size * ByteBits)

BigEndian(u, size) ==
    [i \in 1 .. size |-> (u \div 2 ^ (ByteBits * (size - i))) % 2 ^ ByteBits]
WriteValue(n, fmt, impl) ==
    LET size == PackedSize(fmt, impl)
    IN  BigEndian(ToTwosComplement(n, size * ByteBits), size)

\* The number that bytes spell.
Spelled(bytes) ==
    LET upTo[i \in 0 .. Len(bytes)] ==
            IF i = 0 THEN 0 ELSE upTo[i - 1] * 2 ^ ByteBits + bytes[i]
    IN  upTo[Len(bytes)]

Unpacked(bytes, fmt) ==
    IF fmt = "ushort" THEN Spelled(bytes)
    ELSE FromTwosComplement(Spelled(bytes), Len(bytes) * ByteBits)

\* struct.unpack refuses bytes that are not as many as its format has.
ReadValue(unread, fmt, impl) ==
    LET r == Take(unread, AskedSize(fmt))
    IN  IF r.err # "none" THEN r
        ELSE IF r.used # PackedSize(fmt, impl) THEN Failed("size", r.used)
        ELSE [r EXCEPT !.val = Unpacked(@, fmt)]
=============================================================================
