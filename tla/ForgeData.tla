----------------------------- MODULE ForgeData -----------------------------
(***************************************************************************)
(* The mod list of a Forge server since 1.18.1, packed into the characters *)
(* of the string "d" of a status: ForgeData.build with a "d"               *)
(* (mcstatus/responses/forge.py) and decode_optimized_buffer               *)
(* (src/response/forge.rs).                                                *)
(*                                                                         *)
(* A character carries CharBits bits (15) of a stream of bytes of ByteBits *)
(* bits (8); the first two characters are the number of bytes.  Each       *)
(* number, bool and string of the stream is one byte here, so that the     *)
(* stream may end before any of them and inside any mod or channel.        *)
(*                                                                         *)
(* The server is external.  It packs its mods, and it may stop early: with *)
(* the flag `truncated` set, as Forge does for a list that is too long, or *)
(* without; and the string may lose characters at its end.  The lists of   *)
(* mods and channels beside "d", which only Rust looks at, are empty.      *)
(***************************************************************************)
EXTENDS Naturals, Sequences, SequencesExt

CONSTANTS
    ByteBits, CharBits,
    Contents    \* what a server may have: [mods: Seq([server, channels]), extra]

ASSUME WidthAssumption ==
    /\ ByteBits \in Nat \ {0} /\ CharBits \in Nat
    /\ ByteBits < CharBits /\ CharBits < 2 * ByteBits

Byte == 0 .. 2 ^ ByteBits - 1

VARIABLES
    impl,       \* "python" or "rust"
    sent,       \* history: the content, flag and losses of the server
    phase,
    chars,      \* the characters not read yet (StringIO, _StringBuffer)
    size,       \* read_optimized_size
    value, bits,    \* the shift register of read_optimized_buffer
    buffer,     \* the Buffer it fills
    pos,        \* its read position
    truncated,
    left,       \* mods, then channels, that are still announced
    cur,        \* the mod being decoded: id, announced channels, channels
    mods, channels  \* the lists build collects

register == <<chars, size, value, bits>>
result == <<mods, channels>>
vars == <<impl, sent, phase, register, buffer, pos, truncated, left, cur, result>>

Phases == {"size", "unpack", "header", "mods", "mod_channels", "count",
           "channels", "done", "raised"}

None == [id |-> 0, todo |-> 0, channels |-> << >>]
Version == 3

-----------------------------------------------------------------------------
(* The server (external).                                                  *)

\* The channels of mod m; a channel without a mod belongs to mod 0.
ChannelsOf(m, names) == [i \in DOMAIN names |-> [mod |-> m, name |-> names[i]]]
ChannelBytes(names) == FlattenSeq([i \in DOMAIN names |-> <<names[i], Version, 1>>])

\* Mods are numbered in the order of the list.
ModBytes(m, mod) ==
    <<2 * Len(mod.channels) + (IF mod.server THEN 1 ELSE 0), m>>
    \o (IF mod.server THEN << >> ELSE <<Version>>)
    \o ChannelBytes(mod.channels)

ContentBytes(content, flag) ==
    <<IF flag THEN 1 ELSE 0, Len(content.mods)>>
    \o FlattenSeq([m \in DOMAIN content.mods |-> ModBytes(m, content.mods[m])])
    \o <<Len(content.extra)>> \o ChannelBytes(content.extra)

BitOf(bytes, k) ==
    IF k \div ByteBits >= Len(bytes) THEN 0
    ELSE (bytes[k \div ByteBits + 1] \div 2 ^ (k % ByteBits)) % 2

\* CharBits bits of the stream to a character, the least significant first.
Char(bytes, from) ==
    LET char[b \in 0 .. CharBits] ==
            IF b = 0 THEN 0 ELSE char[b - 1] + BitOf(bytes, from + b - 1) * 2 ^ (b - 1)
    IN  char[CharBits]

Packed(bytes) ==
    [c \in 1 .. (Len(bytes) * ByteBits + CharBits - 1) \div CharBits |->
        Char(bytes, (c - 1) * CharBits)]

\* A content is as large as the format can say.
ASSUME ContentAssumption ==
    \A content \in Contents :
        /\ content.mods \in Seq([server : BOOLEAN, channels : Seq(Byte)])
        /\ content.extra \in Seq(Byte)
        /\ \A flag \in BOOLEAN : ContentBytes(content, flag) \in Seq(Byte)

\* The string of a server that writes `kept` bytes and loses `lost` characters.
StringOf(content, flag, kept, lost) ==
    LET string == <<kept % 2 ^ CharBits, kept \div 2 ^ CharBits>>
                  \o Packed(SubSeq(ContentBytes(content, flag), 1, kept))
    IN  SubSeq(string, 1, Len(string) - lost)

Init ==
    /\ impl \in {"python", "rust"}
    /\ \E content \in Contents, flag \in BOOLEAN :
          \E kept \in 0 .. Len(ContentBytes(content, flag)), lost \in 0 .. 2 :
             /\ sent = [content |-> content, flag |-> flag, kept |-> kept, lost |-> lost]
             /\ chars = StringOf(content, flag, kept, lost)
    /\ phase = "size" /\ size = 0
    /\ value = 0 /\ bits = 0
    /\ buffer = << >> /\ pos = 0
    /\ truncated = FALSE
    /\ left = 0 /\ cur = None
    /\ mods = << >> /\ channels = << >>

-----------------------------------------------------------------------------
(* Unpacking: read_optimized_buffer.                                       *)

ReadSize ==
    /\ impl = "python" /\ phase = "size" /\ Len(chars) >= 2
    /\ size' = chars[1] + chars[2] * 2 ^ CharBits
    /\ chars' = SubSeq(chars, 3, Len(chars))
    /\ phase' = "unpack"
    /\ UNCHANGED <<impl, sent, value, bits, buffer, pos, truncated, left, cur, result>>

SizeMissing ==
    /\ impl = "python" /\ phase = "size" /\ Len(chars) < 2
    /\ phase' = "raised"
    /\ UNCHANGED <<impl, sent, register, buffer, pos, truncated, left, cur, result>>

\* A mutated form: the register is refilled while it still holds a byte.
NeedsCharAlways == chars # << >>
NeedsChar == bits < ByteBits /\ chars # << >>

UnpackByte ==
    LET refill == NeedsChar
        filled == IF refill THEN value + Head(chars) * 2 ^ bits ELSE value
        count == IF refill THEN bits + CharBits ELSE bits
    IN  /\ phase = "unpack" /\ Len(buffer) < size
        /\ chars' = (IF refill THEN Tail(chars) ELSE chars)
        /\ buffer' = Append(buffer, filled % 2 ^ ByteBits)
        /\ value' = filled \div 2 ^ ByteBits
        \* Below 0 in the code once the characters have run out.
        /\ bits' = (IF count < ByteBits THEN 0 ELSE count - ByteBits)
        /\ UNCHANGED <<impl, sent, phase, size, pos, truncated, left, cur, result>>

Unpacked ==
    /\ phase = "unpack" /\ Len(buffer) >= size
    /\ phase' = "header"
    /\ UNCHANGED <<impl, sent, register, buffer, pos, truncated, left, cur, result>>

-----------------------------------------------------------------------------
(* Decoding: build, ForgeDataMod.decode and ForgeDataChannel.decode.       *)

Has(n) == Len(buffer) - pos >= n
At(i) == buffer[pos + i]

\* Outside the try statement: the flag and the number of mods.
ReadHeader ==
    /\ phase = "header" /\ Has(2)
    /\ truncated' = (At(1) # 0)
    /\ left' = At(2)
    /\ pos' = pos + 2
    /\ phase' = "mods"
    /\ UNCHANGED <<impl, sent, register, buffer, cur, result>>

HeaderMissing ==
    /\ phase = "header" /\ ~Has(2)
    /\ phase' = "raised"
    /\ UNCHANGED <<impl, sent, register, buffer, pos, truncated, left, cur, result>>

\* Flags, id and, but for a mod of the server only, version.
ModSize == IF At(1) % 2 = 1 THEN 2 ELSE 3
HasMod == Has(1) /\ Has(ModSize)

ReadMod ==
    /\ phase = "mods" /\ left > 0 /\ HasMod
    /\ cur' = [id |-> At(2), todo |-> At(1) \div 2, channels |-> << >>]
    /\ pos' = pos + ModSize
    /\ phase' = "mod_channels"
    /\ UNCHANGED <<impl, sent, register, buffer, truncated, left, result>>

\* A mutated form: each channel is collected when it is read.
ModChannelAtOnce ==
    /\ phase = "mod_channels" /\ cur.todo > 0 /\ Has(3)
    /\ cur' = [cur EXCEPT !.todo = @ - 1]
    /\ channels' = Append(channels, [mod |-> cur.id, name |-> At(1)])
    /\ pos' = pos + 3
    /\ UNCHANGED <<impl, sent, phase, register, buffer, truncated, left, mods>>

ReadModChannel ==
    /\ phase = "mod_channels" /\ cur.todo > 0 /\ Has(3)
    /\ cur' = [cur EXCEPT !.todo = @ - 1,
                          !.channels = Append(@, [mod |-> cur.id, name |-> At(1)])]
    /\ pos' = pos + 3
    /\ UNCHANGED <<impl, sent, phase, register, buffer, truncated, left, result>>

ModDone ==
    /\ phase = "mod_channels" /\ cur.todo = 0
    /\ channels' = channels \o cur.channels
    /\ mods' = Append(mods, cur.id)
    /\ cur' = None /\ left' = left - 1
    /\ phase' = "mods"
    /\ UNCHANGED <<impl, sent, register, buffer, pos, truncated>>

ReadCount ==
    /\ phase = "mods" /\ left = 0
    /\ phase' = "count"
    /\ UNCHANGED <<impl, sent, register, buffer, pos, truncated, left, cur, result>>

ReadChannelCount ==
    /\ phase = "count" /\ Has(1)
    /\ left' = At(1)
    /\ pos' = pos + 1
    /\ phase' = "channels"
    /\ UNCHANGED <<impl, sent, register, buffer, truncated, cur, result>>

\* list.extend takes what the generator yields before it raises.
ReadChannel ==
    /\ phase = "channels" /\ left > 0 /\ Has(3)
    /\ channels' = Append(channels, [mod |-> 0, name |-> At(1)])
    /\ left' = left - 1
    /\ pos' = pos + 3
    /\ UNCHANGED <<impl, sent, phase, register, buffer, truncated, cur, mods>>

Finish ==
    /\ phase = "channels" /\ left = 0
    /\ phase' = "done"
    /\ UNCHANGED <<impl, sent, register, buffer, pos, truncated, left, cur, result>>

\* The OSError of a short read inside the try statement.
Short ==
    \/ phase = "mods" /\ left > 0 /\ ~HasMod
    \/ phase = "mod_channels" /\ cur.todo > 0 /\ ~Has(3)
    \/ phase = "count" /\ ~Has(1)
    \/ phase = "channels" /\ left > 0 /\ ~Has(3)

\* A mutated form: the OSError is swallowed whatever the flag says.
SwallowEnd ==
    /\ Short
    /\ phase' = "done"
    /\ cur' = None
    /\ UNCHANGED <<impl, sent, register, buffer, pos, truncated, left, result>>

DataEnds ==
    /\ Short
    /\ phase' = (IF truncated THEN "done" ELSE "raised")
    /\ pos' = Len(buffer) /\ cur' = None
    /\ UNCHANGED <<impl, sent, register, buffer, truncated, left, result>>

-----------------------------------------------------------------------------
(* Rust: the two halves of each character are two bytes, and what is       *)
(* missing at the end reads as 0.                                          *)

RustBytes == FlattenSeq([i \in DOMAIN chars |->
                <<(chars[i] \div 2 ^ ByteBits) % 2 ^ (ByteBits - 1), chars[i] % 2 ^ ByteBits>>])
RustAt(i) == IF i \in DOMAIN RustBytes THEN RustBytes[i] ELSE 0

\* truncated, the mods (id, marker and, if not truncated, name and version) and
\* the channels (name, version, required); the flag itself is not returned.
RustDecode ==
    LET width == IF RustAt(1) # 0 THEN 2 ELSE 4
        count == 2 + RustAt(2) * width
    IN  /\ impl = "rust" /\ phase = "size"
        /\ phase' = "done"
        /\ mods' = IF chars = << >> THEN << >>
                   ELSE [m \in 1 .. RustAt(2) |-> RustAt(3 + (m - 1) * width)]
        /\ channels' = IF chars = << >> THEN << >>
                       ELSE [c \in 1 .. RustAt(count + 1) |->
                               [mod |-> 0, name |-> RustAt(count + 2 + (c - 1) * 3)]]
        /\ UNCHANGED <<impl, sent, register, buffer, pos, truncated, left, cur>>

Terminating == phase \in {"done", "raised"} /\ UNCHANGED vars

Next ==
    \/ ReadSize \/ SizeMissing \/ UnpackByte \/ Unpacked
    \/ ReadHeader \/ HeaderMissing
    \/ ReadMod \/ ReadModChannel \/ ModDone
    \/ ReadCount \/ ReadChannelCount \/ ReadChannel \/ Finish
    \/ DataEnds \/ RustDecode
    \/ Terminating

Spec == Init /\ [][Next]_vars

-----------------------------------------------------------------------------
(* Properties.                                                             *)

TypeOK ==
    /\ impl \in {"python", "rust"} /\ phase \in Phases
    /\ value \in 0 .. 2 ^ (ByteBits + CharBits) - 1
    /\ bits \in 0 .. CharBits
    /\ buffer \in Seq(Byte)
    /\ pos \in 0 .. Len(buffer)
    /\ truncated \in BOOLEAN
    /\ left \in Nat /\ cur.todo \in Nat

Modded(n) ==
    FlattenSeq([m \in 1 .. n |-> ChannelsOf(m, sent.content.mods[m].channels)])
AllMods == [m \in DOMAIN sent.content.mods |-> m]
AllChannels == Modded(Len(AllMods)) \o ChannelsOf(0, sent.content.extra)
Whole == sent.kept = Len(ContentBytes(sent.content, sent.flag)) /\ sent.lost = 0

\* A result of Python made of a string that lost no character lists the first
\* mods of the server and exactly their channels; channels without a mod follow
\* only when every mod is there (forge.py:128 and 235-242: a mod is decoded
\* as a whole before its channels and itself are collected).
WholeModsOnly ==
    impl = "python" /\ phase = "done" /\ sent.lost = 0 =>
        /\ IsPrefix(mods, AllMods)
        /\ IsPrefix(Modded(Len(mods)), channels)
        /\ IsPrefix(channels, AllChannels)
        /\ mods # AllMods => channels = Modded(Len(mods))

\* Where the server stopped early, but all it wrote arrives, Python returns an
\* incomplete list only with the flag `truncated` set, and it raises only when
\* something is missing (forge.py:243-245).  Nothing of the kind holds for
\* characters lost on the way: the register is then filled with zeros
\* (forge.py:173-179), which read as mods and channels, so a wrong list may come
\* without the flag and without an exception.
CutIsTold ==
    impl = "python" /\ sent.lost = 0 =>
        /\ phase = "done" /\ ~truncated => mods = AllMods /\ channels = AllChannels
        /\ phase = "raised" => ~Whole

\* Rust decodes what a server packed, as forge.rs:160 says ("Decodes the
\* post-1.18.1 optimized forge data format").
RustDecodesFormat == impl = "rust" /\ phase = "done" /\ Whole => mods = AllMods
=============================================================================
