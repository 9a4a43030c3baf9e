----------------------------- MODULE WireBuffer -----------------------------
(***************************************************************************)
(* A Buffer (mcstatus/_protocol/io/buffer.py, src/buffer.rs) between an    *)
(* author, who writes values with one implementation of the protocol types *)
(* and a reader, who reads with one: every order of reads, of any type     *)
(* whatever was written, with clear, reset and flush between them, over    *)
(* what was written and over arbitrary bytes from the network.             *)
(*                                                                         *)
(* frames and last are history: what was written where, and the last read. *)
(***************************************************************************)
EXTENDS Codec

CONSTANTS
    Numbers,    \* the numbers the author may try to write
    Fixed,      \* those he may try to write in a fixed size
    Strings,    \* the byte strings and texts the author may try to write
    Noise,      \* bytes that may arrive in an empty buffer
    MaxData,    \* bound: bytes in the buffer
    MaxFrames   \* bound: values written and still in the buffer

ASSUME InputAssumption ==
    /\ Numbers \subseteq Int /\ Fixed \subseteq Int
    /\ Strings \subseteq Seq(Nat) /\ Noise \subseteq Seq(Byte)
    /\ MaxData \in Nat /\ MaxFrames \in Nat

VARIABLES
    author,     \* who writes: an implementation, or "network"
    reader,     \* the implementation that reads
    data,       \* the bytearray / Vec<u8>
    pos,        \* the read position
    frames,     \* the values written: kind, value, first and end offset
    last        \* the last read: kind, first and end offset, outcome

vars == <<author, reader, data, pos, frames, last>>

Numeric == {"varint", "varlong"}
Kinds == Numeric \cup Formats \cup {"bytes", "ascii", "utf", "optional", "raw"}
Errors == {"eof", "range", "long", "negative", "limit", "chars", "encoding", "size"}
NoRead == [kind |-> "none", from |-> 0, to |-> 0, err |-> "none", val |-> None]

unread == SubSeq(data, pos + 1, Len(data))

TypeOK ==
    /\ author \in Impl \cup {"network"} /\ reader \in Impl
    /\ data \in Seq(Byte)
    /\ pos \in 0 .. Len(data)
    /\ \A f \in frames :
          /\ f.kind \in Kinds \cup {"torn"}
          /\ f.from \in 0 .. Len(data) /\ f.to \in f.from .. Len(data)
    /\ last.kind \in Kinds \cup {"none"}
    /\ last.err \in Errors \cup {"none"}
    /\ last.from \in 0 .. Len(data) /\ last.to \in last.from .. Len(data)

Init ==
    /\ author \in Impl \cup {"network"} /\ reader \in Impl
    /\ data = << >> /\ pos = 0
    /\ frames = {}
    /\ last = NoRead

-----------------------------------------------------------------------------
(* Writing.  A write that is refused raises before it stores a byte, and   *)
(* is no step; an optional value whose writer raises has stored its bool.  *)

Store(bytes) ==
    /\ Len(data) + Len(bytes) <= MaxData
    /\ data' = data \o bytes
    /\ last' = NoRead
    /\ UNCHANGED <<author, reader, pos>>

Write(kind, val, bytes) ==
    /\ author \in Impl
    /\ Cardinality(frames) < MaxFrames
    /\ Store(bytes)
    /\ frames' = frames \cup {[kind |-> kind, val |-> val, from |-> Len(data),
                               to |-> Len(data) + Len(bytes)]}

AddVarint(n) == Fits(n, IntBits) /\ Write("varint", n, WriteVarint(n))
AddVarlong(n) == Fits(n, LongBits) /\ Write("varlong", n, WriteVarlong(n))
AddBytearray(s) ==
    /\ LengthFits(Len(s), author)
    /\ Latin1(s)
    /\ Write("bytes", s, WriteBytearray(s))
AddAscii(s) ==
    /\ author = "rust" \/ Latin1(s)
    /\ Write("ascii", s, WriteAscii(s))
AddUtf(s) ==
    /\ Latin1(s) /\ WellFormed(s)
    /\ Counted(s, author) <= MaxChars
    /\ Write("utf", s, WriteBytearray(s))
AddNothing == Write("optional", None, <<0>>)
AddOptional(n) == Fits(n, IntBits) /\ Write("optional", n, <<1>> \o WriteVarint(n))
TornOptional(n) ==
    /\ author = "python" /\ ~Fits(n, IntBits)
    /\ Write("torn", None, <<1>>)

\* write_value: struct.error is raised for a number beyond the format's range; a
\* Value of Rust has that range by its type.
AddValue(n, fmt) ==
    /\ InFormat(n, fmt, PackedSize(fmt, author))
    /\ Write(fmt, n, WriteValue(n, fmt, author))

Arrive(bytes) ==
    /\ author = "network" /\ data = << >>
    /\ Store(bytes)
    /\ UNCHANGED frames

-----------------------------------------------------------------------------
(* Reading.                                                                *)

Read(kind, r) ==
    /\ pos' = pos + r.used
    /\ last' = [kind |-> kind, from |-> pos, to |-> pos + r.used,
                err |-> r.err, val |-> r.val]
    /\ UNCHANGED <<author, reader, data, frames>>

GetVarint == Read("varint", ReadVarint(unread, reader))
GetVarlong == Read("varlong", ReadVarlong(unread, reader))
GetBytearray == Read("bytes", ReadBytearray(unread, reader))
GetAscii == Read("ascii", ReadAscii(unread))
GetUtf == Read("utf", ReadUtf(unread, reader))
GetOptional == Read("optional", ReadOptional(unread, reader))
GetValue(fmt) == Read(fmt, ReadValue(unread, fmt, reader))

\* Buffer.read itself; the read_bytes of Rust's Buffer, and its read_ushort with
\* it, consume nothing if short.
GetRaw(n) == reader = "python" /\ Read("raw", Take(unread, n))
GetRawRust(n) ==
    /\ reader = "rust"
    /\ Read("raw", IF n > Len(unread) THEN Failed("eof", 0) ELSE Take(unread, n))

-----------------------------------------------------------------------------
(* The rest of Buffer.                                                     *)

\* The frames left when the first n bytes are deleted.
Shifted(n) ==
    {[f EXCEPT !.from = @ - n, !.to = @ - n] : f \in {f \in frames : f.from >= n}}

\* A mutated form: the bytes go, the position stays.
ClearReadStaying ==
    /\ reader = "python"
    /\ data' = unread /\ frames' = Shifted(pos) /\ last' = NoRead
    /\ UNCHANGED <<author, reader, pos>>

\* clear(only_already_read=True), which Rust's Buffer does not have.
ClearRead ==
    /\ reader = "python"
    /\ data' = unread /\ pos' = 0
    /\ frames' = Shifted(pos) /\ last' = NoRead
    /\ UNCHANGED <<author, reader>>

\* clear(), and flush(), which also returns the unread bytes.
ClearAll ==
    /\ data' = << >> /\ pos' = 0
    /\ frames' = {} /\ last' = NoRead
    /\ UNCHANGED <<author, reader>>

Reset ==
    /\ pos' = 0 /\ last' = NoRead
    /\ UNCHANGED <<author, reader, data, frames>>

Next ==
    \/ \E n \in Numbers : \/ AddVarint(n) \/ AddVarlong(n)
                          \/ AddOptional(n) \/ TornOptional(n)
    \/ \E n \in Fixed, fmt \in Formats : AddValue(n, fmt)
    \/ \E s \in Strings : AddBytearray(s) \/ AddAscii(s) \/ AddUtf(s)
    \/ AddNothing
    \/ \E s \in Noise : Arrive(s)
    \/ GetVarint \/ GetVarlong \/ GetBytearray \/ GetAscii \/ GetUtf \/ GetOptional
    \/ \E fmt \in Formats : GetValue(fmt)
    \/ \E n \in 0 .. 2 : GetRaw(n) \/ GetRawRust(n)
    \/ ClearRead \/ ClearAll \/ Reset

Spec == Init /\ [][Next]_vars

-----------------------------------------------------------------------------
(* Properties.                                                             *)

\* The frame the last read was asked for: it began where the frame begins and
\* read the frame's kind.
AskedFor(f) == last.kind = f.kind /\ last.from = f.from

\* Values the two sides do not agree about: a text with a NUL or a character
\* above Latin-1 as ascii, a length the Rust author wraps into a negative one,
\* a text of more than MaxChars bytes for the Rust reader, and a "long", which
\* Python packs into StandardLong bytes and asks NativeLong bytes for.
Disputed(f) ==
    \/ f.kind = "ascii" /\ \E i \in DOMAIN f.val : f.val[i] \notin Byte \ {0}
    \/ f.kind = "bytes" /\ ~Fits(Len(f.val), IntBits)
    \/ f.kind = "utf" /\ reader = "rust" /\ Len(f.val) > MaxChars
    \/ /\ f.kind = "long" /\ NativeLong # StandardLong
       /\ author = "python" \/ reader = "python"

\* What was written is read back: whatever was read, cleared or reset before, a
\* read of the kind that was written, begun where the value begins, returns
\* the value and ends where it ends, in each pair of implementations
\* (base_io.py, io.rs, buffer.py, buffer.rs).
RoundTrip ==
    \A f \in frames :
        AskedFor(f) /\ ~Disputed(f) =>
            /\ last.err = "none"
            /\ last.val = f.val
            /\ last.to = f.to

\* A number that is read is in the range of its type, so that the conversion
\* of src/io.rs:100 may unwrap, and it is the number its bytes spell: written
\* again in a fixed size it gives them; but for a varlong of Rust, whose tenth byte
\* loses the bits above the 64th.
NumbersExact ==
    last.kind \in Numeric \cup Formats /\ last.err = "none" =>
        LET bits == IF last.kind = "varint" THEN IntBits ELSE LongBits
            bytes == SubSeq(data, last.from + 1, last.to)
        IN  IF last.kind \in Formats
            THEN /\ InFormat(last.val, last.kind, Len(bytes))
                 /\ WriteValue(last.val, last.kind, reader) = bytes
            ELSE /\ Fits(last.val, bits)
                 /\ \/ ToTwosComplement(last.val, bits) = Sum(bytes, Len(bytes), "python")
                    \/ reader = "rust" /\ Len(bytes) = ByteLimit(LongBits)

\* A refusal consumes what its docstring says: all there is if the data ended,
\* the whole text if its characters are wrong, and else no byte behind the
\* prefix that is at fault (base_io.py:739-744, buffer.py:57-61).
RefusalInStep ==
    /\ last.err = "eof" /\ last.kind # "raw" => last.to = Len(data)
    /\ last.err = "eof" /\ reader = "python" => last.to = Len(data)
    /\ last.err \in {"chars", "encoding"} =>
          \A f \in frames : AskedFor(f) => last.to = f.to
    /\ last.err \in {"range", "long", "negative", "limit"} =>
          /\ last.to - last.from <= ByteLimit(LongBits) + 1
          /\ \A i \in last.from + 2 .. last.to - 1 : More(data[i])
=============================================================================
