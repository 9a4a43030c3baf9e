# A TLA+ model of mcstatus

mcstatus asks a Minecraft server for its status. The repository holds two implementations of the same library: the Python
package `mcstatus/` and a Rust port of it in `src/`. This directory holds TLA+ modules that model the parts of both in which
order, failure and repetition matter, TLC configurations that check them on small instances, and proofs that TLAPS checks for
every value of the constants.

## 1. Inventory

| Component | Code (Python / Rust) | State it keeps | Operations | Module |
|---|---|---|---|---|
| Retry decorator | `_utils/retry.py` / `util.rs` | tries so far, `last_exc` | call, return, raise | `Retry`, `JavaSessionProofs` |
| Java ping and status | `server.py`, `_protocol/java_client.py`, `_protocol/io/connection.py` | socket, position in the stream, token | connect, handshake, request, read, close | `JavaSession`, `JavaSessionProofs` |
| Java query | `server.py`, `_protocol/query_client.py`, `connection.py` / `server.rs`, `protocol/query.rs` | socket per try, challenge | resolve, open, challenge, query, read | `QuerySession`, `QuerySessionProofs` |
| Address resolution | `_net/address.py`, `_net/dns.py` / `address.rs` | `_cached_ip` | `resolve_ip`, `async_resolve_ip` | `AddressResolution`, `ServerObject`, `ServerObjectProofs` |
| Server construction | `server.py`, `_net/address.py` / `server.rs`, `dns.rs` | address, query port | constructors, `lookup` | `ServerLookup`, `ServerObject`, `ServerObjectProofs` |
| Command line | `__main__.py` / `main.rs` | first exception, results | ping, status, query, json | `Cli`, `CliProofs` |
| Legacy and Bedrock status; Rust ping and status | `legacy_client.py`, `bedrock_client.py`, `server.py` / `server.rs`, `connection.rs`, `protocol/*.rs` | socket per try, what keeps it open | resolve, open, send, receive, close | `FreshSession`, `FreshSessionProofs` |
| Binary I/O, buffers | `io/base_io.py`, `io/buffer.py` / `io.rs`, `buffer.rs` | bytes, read position | write and read varints, numbers of a fixed size, strings, arrays, optionals; clear, reset, flush | `Codec`, `WireBuffer`, `WireBufferProofs` |
| Forge data | `responses/forge.py` / `response/forge.rs` | bit register, mods and channels so far | unpack, decode | `ForgeData`, `ForgeDataProofs` |
| MOTD | `motd/*.py` / `motd/*.rs` | the list of components, open tags, the colour believed to be on | parse, simplify, squash, render | `Motd`, `MotdParser`, `MotdSimplify`, `MotdRender`, `MotdObject` |
| Race of two servers (documented example) | `docs/examples/code/ping_as_java_and_bedrock_in_one_time.py` | two tasks, the cancelled ones, the first response | start, wait, cancel, return | `Race`, `RaceProofs` |
| Responses, deprecation helpers, other examples | `responses/*.py`, `_utils/*.py` / `response/*.rs` | none | build records, warn | not modelled |

How they interact: the command line makes a server object (a lookup, which may ask the DNS) and calls its methods; a method
opens a connection, wraps a client around it and runs it under the retry decorator; the client writes packets and reads bytes
from the connection; a query first resolves the address, whose cache is shared by all callers of the object.
The text of an answer is parsed into a `Motd`, which is simplified and rendered. The race runs two such calls as tasks and cancels the
one that is not needed.

What is hard, and what each part must get right:

* **Retry.** Only `Exception` is retried. A caller relies on which of several exceptions he sees, and on the number of calls.
* **Java sessions.** The connection is opened once and *shared by all tries*: what an early try left unread, or half read, in the
  stream is read by a later one. Timeouts race late answers; cancellation can hit any wait. The latency returned must be that
  of a round trip, the server must see the handshake first, and the call must end.
* **Query sessions.** Datagrams are lost, copied and reordered, and the client identifies none of them. A challenge belongs to
  the address it was given to, and the port of a closed socket may be handed to the next try. Every socket must be closed.
* **Sessions with a connection per try.** No old stream to trip over, but sockets: who closes them and when - at once, at the next tick of the event
  loop, or when the garbage collector comes - and which port the next one gets. An exception raised in closing replaces an answer, or a cancellation.
* **Address resolution.** Check, wait, write: several callers can pass the check before the first of them writes.
* **Server construction.** A DNS that fails is not a DNS that says "no record"; ports at both ends of their range; the query
  port follows the game port.
* **Command line.** Two calls, either of which may fail, and one report: stdout, stderr and exit code must agree, also when the answer
  cannot be printed.
* **Binary I/O.** Values written by one implementation are read by the other; a refused value must leave the reader in step.
* **Forge data.** Bytes are cut from characters that do not align with them, and the list may end anywhere.
* **MOTD.** Formats are handed down a tree, before a colour or after it; a simplification in rounds must end at a fixed point and keep text and look; what is rendered as
  HTML, for a terminal and for Minecraft must look the same.
* **The race.** The tasks end in any order, and `cancel()` only marks a task: an unwanted one must not go on, nor try once more.

## 2. Plan

The order puts first what several actors can break and tests do not reach.

1. `Retry`, the abstract specification of every retried call; `JavaSession`, `QuerySession`, each shown to implement it.
2. `AddressResolution`, `ServerLookup`: what the sessions get their addresses from. `Cli`: what is made of their outcomes.
3. `FreshSession`: the sessions with a connection of their own per try, Legacy, Bedrock and all of the Rust ones; the Rust query as
   a variant of `QuerySession`. (1 to 3 are in place.)
4. `Codec` and `WireBuffer`, the protocol types at a reduced width over a buffer; `ForgeData`; both command lines in `Cli`. (In place.)
5. Compositions: `ServerObject`, a lookup and the resolutions of the object it makes; `Race`, two retry loops and a caller who cancels. (In place.)
6. MOTD: `Motd`, `MotdParser`, `MotdSimplify`, `MotdRender`, and `MotdObject`, which runs them. (In place.)
7. Left: the plain JSON mod lists of older Forge versions, floats in `Codec`, the deprecation helpers, the example that pings many servers in batches.
8. Theorems for each of these modules but those of the MOTD (section 5 says why). (In place.)

## 3. The modules

**`Retry`** - the two wrappers of `retry()`, which differ only in `await`. `calls` is the list of exceptions caught so far (the
loop counter is its length), `outcome` what the wrapper returned or raised. `Fail` is the `except` clause, `Propagate` an
exception that clause does not name (`KeyboardInterrupt`, `CancelledError`), `RaiseLast` the statement after the loop.

**`JavaSession`** - `ping`, `async_ping`, `status`, `async_status`. `phase` is the place in the client's code: `connect` (outside the
retried function), `loop` (the wrapper), `handshake`, `request`, `length`, `payload` (inside a try), `exit` (the end of the `with`
block), `done`. `s2c` is the byte stream to the client and `c2s` the packets to the server. A byte is a record of its value and, as
history, of the try whose packet caused it; no guard of the client reads the history. `ReadLength` and `ReadPayload` take what
`recv` gives, from one byte to all that is missing. `TryFails` drops what `read()` had collected, as the code does: the bytes are
gone from the stream and from the client. `Close` and `CloseFails` are `__exit__`: closing can raise and mask the outcome. The
server (external) answers, ignores, garbles and hangs up as it likes; it echoes tokens it was sent. Abstractions: a length, a
packet id, a token and a JSON text are one byte each; a packet is one length byte and its payload; the handshake that a retry
repeats may be answered like a status request, whose packet id it shares.

**`QuerySession`** - `query` and `async_query`, and the Rust `query` (the variable `variant`, fixed when a behaviour begins, says which; in
Rust the host is resolved in every try and a future may be dropped between two). `net` is the set of datagrams in flight; the network
loses any, delivers in any order and keeps copies (at most `MaxDups`); up to `MaxNoise` empty or malformed datagrams reach an open
socket.
A datagram has a port, not a socket: the system may hand the port of a closed socket to a later try, which then reads what was meant for the earlier one.
A socket counts as closed when the code tells it to close; an asyncio transport does so a tick of the event loop later. Whatever address the host has in a
try, there is one server. `issued` and `valid` are its side: the challenges it gave to each address of the client and the one it accepts now. Malformed stands for
everything `int()`, `read_ascii()`, `_parse_response` or the packing of a challenge beyond 32 bits raises on.

**`FreshSession`** - seven calls in one module, since they differ in the table `Steps`, in the transport and in what keeps a socket open.
`doing` is the step the try is at. `open` are the sockets in use or kept by an exception, `leaving` those that nobody uses and that the event loop's next tick
or the garbage collector will close. The sync Bedrock client never closes its socket: CPython frees it with the last reference to its
frame. An exception raised in that frame keeps it (`Surviving`); an answer that is not parsed does not, since the frame has returned by then (`ReceiveBad`).
`retry` keeps the last exception in `last_exc`, a variable of a frame in the exception's own traceback: this cycle outlives the call, also one that succeeds in a later try,
so the failed try's socket moves to `leaving` (`Returns`, `GiveUp`). The async Bedrock client closes its transport one tick late (`ClosedLate`).
`orphaned` are asyncio transports whose `setsockopt` failed, which nobody closes. `port` is the ephemeral port of each try's UDP socket; the system may hand out any port
that no open socket has, so a late datagram may reach a later try. In the Legacy calls the `with` statement is *inside* the retried
function: an exception raised in closing (`Close`, `TryFails`, `Interrupted`) turns an answer into a failed try and a cancellation into
another one. Reading is one step: what a broken-off read had collected is dropped with its connection.

**`AddressResolution`** - several callers of one `Address`. `variant`, fixed at the start, says which code runs: threads in `resolve_ip` (the attribute is read
a second time for the return value, a step of its own), coroutines in `async_resolve_ip` (no `await` between store and return), or
the Rust functions with their `OnceLock`. The host of the Address decides which answers the DNS may give (`AnswersOf`).

**`ServerLookup`** - for Python and Rust (`rust`, fixed at the start): constructor, `lookup` with an SRV record, and the lookup that only parses (Bedrock; `no_srv` in Rust). `given`
and `queryPort` are the arguments, `addr` what is known so far, `server` the two ports of the object.

**`ServerObject`** - composes the two: it EXTENDS `ServerLookup`, whose result is the object, and INSTANCEs `AddressResolution` for the
callers that share its Address; `host` is the host the lookup ended with. `Query` is the use `query()` makes of a resolution: a socket
to the address and the query port (`target`).

**`Race`** - `status()` of the documented example. Each task has a retry loop of its own, an INSTANCE of `Retry`, which says what a session's loop
may do; outside of it the Java task looks up, connects and closes. `cancel()` puts a task into `marked`; its next step raises the
`CancelledError` where the task waits. `finished` is the order in which the tasks ended, which `as_completed` follows.

**`Codec`** - the protocol types as operators: what a value is written as, and what a read of given bytes returns, consumes and
fails with. The widths are constants: a byte has `PayloadBits` + 1 bits, a varint `IntBits`, a varlong `LongBits`, the width of Rust's `u64`,
in which the bits shifted out of a varlong's last byte are lost (`Kept`). The sync and async Python classes are the same but for
`await` and share the operators; where Rust differs (`Counted`: a string's bytes instead of characters; `LengthFits`: a length is cast, not
checked; `WriteAscii`: a character above Latin-1 becomes `?`) an operator takes the implementation as an argument. UTF-8 has characters of one and two bytes. Of the fixed-size numbers there are a signed and an unsigned short,
which stand for all formats of one size everywhere, and a long: Python packs one into the standard size, 4 bytes, and asks for the native size, 8 on
64-bit Unix (`AskedSize`), which is also the size in Rust.

**`WireBuffer`** - a `Buffer` between an author and a reader, each of either implementation, or with bytes from the network. Any read may
follow any write, in step with it or not. `frames` is history: the set of the values that were written, each with the place of its bytes. `TornOptional` is `write_optional` with a value
its writer refuses after the bool is stored.

**`ForgeData`** - the string `d` of a Forge server. `register` is the state of the loop that unpacks it, one byte per step
(`UnpackByte`); then `build` reads one mod or channel per step. `kept` bytes of the content are packed, with or without the flag
that says so, and `lost` characters are missing at the end of the string, which the loop replaces by zeros. A number or a string of the content is one
byte. `RustDecode` is the decoder of `response/forge.rs`, which is total and hence one step. `ContentAssumption` says that a content is no larger
than the format can say: its counts, numbers and names are bytes.

**`Cli`** - `main()` and the four commands, of `__main__.py` or, where `rust` holds, of `main.rs`. `calls` lists the library calls made and how each ended; `stdout`, `warned` and `exit` are
what a user sees. The sessions behind a call are seen through its outcome only. Printing is a step of its own (`PrintAnswers`): in Python making text or JSON of an answer may
raise after lines were printed (`_motd` for a Bedrock colour in a Java server's answer, `as_dict`, `json.dump`), and an interrupt may come in the middle; so `stdout` holds nothing, a beginning or
the whole. Rust has its strings before it prints. That writing to stdout itself does not fail is assumed.

**`Motd`** - the components of a parsed text and what Minecraft shows of a list of them (`Look`): each visible token with its colour and formats.
A text is a sequence of tokens: visible characters, blanks, and formatting codes with both their characters. `&` stands for the section sign.
A code that Rust does not know is two tokens where it begins a text, since Rust makes a text of the sign alone.
**`MotdParser`** - strings and JSON trees, in Python and Rust, by recursion over the tree. **`MotdSimplify`** - the passes of a round and the squash; Python's
pops the members of a set in CPython's order of iteration, which `IterationOrder` computes from the hash table (a set of at most four small
integers has eight slots). **`MotdRender`** - the transformers. HTML is a sequence of events and is read back by a browser (`HtmlLook`), ANSI by a terminal (`AnsiStyle`); both
readers are external. **`MotdObject`** - a `Motd` from its parse over two calls of `simplify()`, one round per step, with the properties. The
recursion over the tree and `RECURSIVE` operators keep these modules outside the proofs.

The `MC*` modules give the constants their values. Each module keeps, before the definitions concerned, a short block of mutated
forms of its operators: what a plausible mistake in the code would look like. For each property one of them is known to break it.

## 4. The runs

| Run | Question | Bounds |
|---|---|---|
| `java` | Is the latency of a ping that of a round trip, is the handshake first, does a rejected answer need an earlier timeout, does the call end and implement `Retry`? | 3 tries; a server that garbles a ping's answers at will |
| `status_latency` | Is the latency of `status` that of a round trip? **No** | 3 tries |
| `query` | Challenges, sockets, rejected replies, `Retry`, termination under loss, copies, reordering, in all three variants | 2 tries, 2 challenges, 2 ports, 1 copy, 1 noise |
| `fresh` | Whose answer is timed, how many sockets are open at a time and after an answer, what does an interrupt do, for seven calls? | 3 tries, 3 ports, 1 copy |
| `server_object` | Which host and ports are contacted, and what can overlapping resolutions do to the cache, in Python and Rust? | 2 hosts, one with 2 addresses; ports 0, 4, the default 5 and one beyond 9; 1 or 2 records; 2 callers, 3 queries |
| `race` | Is the first response returned, is nothing left running, does everything end? | 3 tries per task, 2 exceptions |
| `cli` | Do output, warning, error and exit code agree? | every outcome of every call and of printing, 7 exceptions |
| `wire` | Is every value read back, every number exact, every refusal in step, between all pairs of implementations? | 2 values in at most 6 bytes of 3 bits, or any 3 bytes |
| `forge` | What does Python list of a content that is cut anywhere, and when does it raise? | 2 mods, 2 channels each, 2 without a mod, 2 lost characters |
| `forge_rust` | Does Rust decode what a Forge server packed? **No** | the same |
| `motd` | Does simplify keep text and look and reach a fixed point, do styles stand before their elements, do the renderings agree? | all strings of 3 tokens of 12, of 5 of 5; JSON trees of 3 nodes, 3 deep |
| `motd_text` | Does simplify keep the text of a longer list? **No** | lists of 6 elements, 4 kinds |

Why the bounds are enough: a stale answer needs two tries, and three let one pass over a try in between; the parts of a packet that
the client tells apart are all there, so a stream can be cut at every place that matters. Two challenges and one copy give a late
challenge that differs from the current one; of two ports the second try may be given that of the first or another. Two callers whose queries overlap get different answers, and a third query comes
after both or between. The ports are the lower end of the range, two inside and one outside. Three ports leave a choice while two sockets are open. `Cli` has no bound: a command makes at most three calls and prints once.
In `race` three tries let a mark arrive before, in and after a failed one.
In `wire` a byte carries 2 bits, a varint has 3 and a varlong 5: as with 7, 32 and 64, the last byte carries fewer bits than it could, so it may hold a value
out of range, and a continuation bit that is not allowed. Strings have at most 1 character of at most 2 bytes, and lengths reach 3, so each limit can
be met and passed. In `forge` bytes of 3 bits in characters of 5 stand for 8 in 15: one character refills the register for one byte and leaves bits over,
and two channels in a mod let the list end between them. A short of 2 such bytes and a long of 2 (standard) or 3 (native) stand for 2, 4 and 8. In `motd` every pass of `simplify` is about
two codes and what lies between, so five tokens hold two of them, a blank, a text and a reset; a tree of three nodes has a parent, a child and a grandchild, or a child and its neighbour.
Lists of six elements are just long enough for two fillers of which one has an index of eight: what `motd` leaves out (`SmallIndices`) is what `motd_text` finds.

**Fairness.** `FairSpec` adds weak fairness of the client's own steps, `WF_vars(Client)`: a socket call ends, by its timeout at
the latest, and Python goes on after it. Nothing is assumed of the server, the network or the DNS, and a cancellation is never
forced. `Race` has it for each task and for the caller separately: an event
loop runs every task that is ready, but the caller's cancellation need not come. The only unbounded wait of the code, empty datagrams that
never cease, is cut by `MaxNoise`: `Terminates` of `query` holds for finitely many of them and would not otherwise.

**What the violations show.** (a) After a timeout the retry runs on the same connection, so
`status` reads the late response to the try that timed out, at once, and reports a latency close to zero. `ping` is protected by
its random token; with a `ping_token` given by the caller it is not, which is why `PingIsRoundTrip` assumes different tokens.
(b) The Rust decoder of Forge data takes the two halves of each character for bytes instead of joining groups of 15 bits, and begins with the size: of a server
without mods it lists as many nameless ones as the content has bytes.
(c) `squash_nearby_strings` pops the indices of a set as if they came in ascending order. With an index of eight or more in a set of at most four they do
not, and another text is popped: `Motd.parse([{"text": "A", "color": "blue"}, "B", "C", {"text": "D", "color": "red"}, "E", "F"]).simplify().to_plain()`
is `ABBCDEF`.

Where the code does less than one may expect, the property says so:

* `QuietIsForever` is about the cache, not about what a caller was told: a caller may hold the first answer while a second one overwrites the cache, and in Rust
  the resolution that loses the `OnceLock` returns an answer that no later call returns.
* `RejectNeedsCopyOrReuse` names the ways in which an honest server's reply is rejected: a copy or noise, and a port that an earlier try had.
* `AnswerIsFresh` says that the sync Bedrock client does not time the answer to the try just before, unless that one failed in parsing: its socket, and port, are free then.
* `SocketsBounded` counts what the garbage collector has still to close, but no orphaned transports.
* `CutIsTold` is about lists cut by the server that arrive whole. Of a string that lost characters on its way the loop replaces these by zeros, which are counts and empty names: Python then may list wrong
  mods without an error and without the mark (a content with one channel without a mod, cut to three bytes, of which the last character is lost, gives an empty list). The model has this; no document promises otherwise.
* `DefaultNeedsNoRecord` leaves Rust out (any DNS failure counts as a missing record), and `QueryFollowsPort` holds in Rust for the constructor but not for `lookup`.
* `RoundTrip` lists in `Disputed` the values the implementations disagree about. Among them are texts of more than 32767 bytes, which Python writes and Rust
  refuses, although its comment counts characters; and a `StructFormat.LONG`: Python writes 4 bytes of it, asks for 8 when it reads (on 64-bit Unix), and refuses those,
  so it cannot read what it wrote and loses its place. No client of the repository uses this format. `NumbersExact` excepts the last byte of a Rust varlong.
* `LookKept` needs, in Python, a list in which no code comes back without a reset and a text before it (`NoRepeats`): the pass that drops a repeated format
  does not see that a colour ended the first one, and one that drops a double code may drop the one in use.
* `RenderersAgree` leaves out what `to_html` and `to_ansi` raise `KeyError` for: a Bedrock colour (`m` among them, which is also strikethrough) in the answer of a
  Java server; in Rust the formats, since a colour ends none in its ANSI output; and lists with translations, whose ids Rust writes.
* `StaysSimple` needs, in Python, a list of at most nine components (`SmallIndices`). On the list of (c) above the squash leaves texts next to each other, which a second `simplify()` squashes: the
  result is no fixed point either.
* `StyleArrives` is about the component list first: each format stands between the last reset and the text that has or inherits it, which is what
  `test_top_level_formatting_applies_to_all_in_extra` (`tests/motd/test_motd.py:78`) compares. That it *applies*, as the title says, is not true in Python of an element that has a colour, the test's own case: the inherited
  format is written before the colour, which ends it, so a red child of a bold parent is shown red and not bold, by Minecraft and by the transformers. The property claims of such an element only the
  formats it names itself. In Rust the colour comes first; but strings in `extra` take no style there, and a JSON list is ignored.
* `StyleHasSource` leaves Rust out, where a style leaks to the neighbour that follows.

## 5. What is proved

`Retry`, the decorator by itself (for all `Tries`, `Caught`, `Passed`; proved in `JavaSessionProofs` of the instance `Decorator`): `LastOnly`, `TriesBound`, and `BoundWithTries` - with
at least one try the comment in the code is right that `last_exc` is bound (with `tries=0` it is not, and the `raise` ends in `UnboundLocalError`). The inductive invariant relates the
outcome to the number of exceptions. `Caught` and `Passed` stand for any two sets of exceptions, those of a session among them; `Decorator!RetryAssumption` - the sets are disjoint,
no exception has the name of another outcome, `Tries` is a natural number - is written into the theorems. `Retry` has no run of its own, since four runs check or use it through its instances.

`RaceProofs` (for all `Tries`, `Errors`): `TypeCorrect`, `FirstValidResponse` (`OutcomeIsEarned`), `TasksAreCleanedUp` (`NoOrphan`), `CancelledTriesNoMore`
(`CancelEndsRetry`). The invariant adds to these `Record`, that `finished` holds each ended task once and with its result, and `Looked`, that every completion
the waiting caller has passed over was a failure; without `Record` a result could change after it was looked at.

`JavaSessionProofs` (for all `Tries`, tokens and bytes): `TypeCorrect`; `SessionImplementsRetry`; `PingIsRoundTrip`; `HandshakeComesFirst`. `TypeOK` is not
inductive - that the tries never pass `Tries` and that `calls` grows once per try depends on the phase - hence `LoopInv`: inside a
try exactly one try more was begun than failed, outside as many. The round trip adds two invariants: `EchoInv`, a byte on its way or
in the client's buffer that equals a token was caused by a try with that token; and `AcceptInv`, after a success the buffer still
holds the current token at its place. `PingIsRoundTrip` assumes what `ping` gets from its random numbers: the tries' tokens
differ. Its other assumption, that bytes of structure, JSON and garbage differ from tokens (`ByteAssumption`), stands for the eight
bytes a token has: a server that guesses a token is not considered. `HandshakeComesFirst` needs
`HandshakeInv`: a try that is about to write its request to a server that has
seen nothing yet finds its handshake in the stream. `OnlyLateAnswersRejected` (`RejectNeedsTimeout`) needs
`BoundaryInv`, an account of the wire: as long as no try has timed out, a try fails only because the server is gone, and for good; so only
the first try gets bytes to read, and they are the frame of its answer as far as it has come.

`QuerySessionProofs` (for all `Tries`, `Challenges`, bounds): `TypeCorrect`, `SocketsClosed`, `ChallengesBelong`,
`QueryImplementsRetry`, `OwnPortKeepsStep`. `LoopInv` is the same idea with the open socket added; all three
variants are covered. `ChallengesBelong` needs `ChalInv`: not only the
queries but also the challenges on their way to the client, and the one it holds between reading and sending, were given to the
address they are of, whichever tries had its port. `OwnPortKeepsStep` (`RejectNeedsCopyOrReuse`) needs that, without copies and noise, a port which no earlier try had has at most one datagram
on its way, of the kind that the client, or the server, waits for.

`FreshSessionProofs` (for all `Tries`, finite sets of `Ports`, `MaxDups`): `TypeCorrect`, `FreshAnswer`, `FewSockets`, `InterruptObeyed`, `FreshImplementsRetry`. A lemma
(`Table`) turns the table of steps into facts about each call. `LoopInv` says which calls have which step; `SocketInv` which sockets are in use, kept or left there: at most
one of the try before besides the try's own, and after a success at most one for the event loop or the collector. `PortInv` says that a sync Bedrock try never has the port of the one before, unless
that one failed in parsing; `AnswerInv` that no datagram is of a try to come and that an answer read before closing is the try's own.

`ServerObjectProofs` (for all hosts, ports, addresses, callers, bounds): `TypeCorrect`, `DefaultIsEarned`, `QueryFollows`, `TargetAsGiven`, `QuietForGood`.
`AddressInv` says what is known of the address in each phase, `UnusedInv` that nobody uses an object that is not there yet, and `HeldInv` that everything the callers and the cache hold came
from the DNS for the object's host. `QuietForGood` is about all later states, yet safe: no step leaves "quiet and `a` is cached" with another cache, since a caller that comes then hits the cache.

`CliProofs` (for all sets of exceptions): `TypeCorrect`, `ReportsTruthfully`, `WarnsRightly`, `ExitsHonestly`. Until a command ends the invariant says that it has printed nothing, that nothing interrupted it (`NoInterrupt`), which calls it
has made (`Running`, `Made`) and, for json, that what it remembers is what the calls gave (`Remembers`, `JsonSoFar`); the step that ends it, for most commands the printing, establishes the properties.

`SessionImplementsRetry`, `QueryImplementsRetry` and `FreshImplementsRetry` are refinements: initial states map to initial states and every step to a step of
`Retry` or a stutter, the phase, the network and the connection being hidden.

`WireBufferProofs` (for all widths, limits, sizes, inputs and bounds; in the code 7, 32 and 64 bits): `BufferTypeOK`, `WrittenIsReadBack`, `NumbersAreExact`, `RefusalsInStep`. The inductive invariant
`BufferInv` is short: each frame's value stands in the data where the frame says (`Placed`), and the last read is what its reader gives of the bytes from where it began (`IsOutcome`).
Appending bytes, moving the position and deleting what was read keep it. All else is about the operators of `Codec`, for every input:

* two's complement and its inverse on the range `Fits` (`ToAndFrom`, `FromAndTo`);
* the sum of the groups of a varint: each group adds to it, it stays below the power of its width, and in Rust it is the same modulo `2 ^ LongBits` (`SumStep`, `SumBound`, `SumKept`);
* the groups that are written are as few as hold the number, never more than a reader takes, and sum up to it (`GroupsOf`, `GroupsLimit`, `SumOfGroups`);
* hence what is written is read back by both readers (`VarintBack`, `VarlongBack`, and so on for each type); and of *any* bytes a reader
  consumes what it may and returns what they spell (`VaruintRead`, `ValueRead`, `BytearrayRead`, `UtfRead`, and so on).

`Sum` and `Spelled` are recursive functions over data, and the library's induction theorems are out of the provers' reach. The induction is done by hand: `LeastNat` says that each nonempty set of naturals has a least
member, so a counterexample would have a least one (`UpTo`); `Recursion` shows that a function with the given steps exists. The powers of two come from the number of subsets of a finite set.
The constants have three assumptions: the widths are positive and a varlong is no shorter than a varint; `2 * MaxChars <= MaxBytes` and a length of `MaxBytes` is a varint, as 32767, 131068 and
2^31 are; the inputs are bytes and integers. Without the second Python could write a text whose length its own reader refuses.

`ForgeDataProofs` (for all widths, a character being longer than a byte and shorter than two, and all contents that fit the format): `ForgeTypeOK` (`TypeOK`), `DecodedModsAreWhole` (`WholeModsOnly`),
`CutsAreTold` (`CutIsTold`). The three properties are far from inductive: they speak of the lists, and what makes these right happened bits earlier. The inductive invariant `IInv` has a part for each stage:

* `Types`, which adds to `TypeOK` that the register is below `2 ^ bits`; without that, nothing bounds what is left when the characters run out.
* `Start`, what the string is before it is unpacked.
* `Unpacking`: the characters not read yet are the end of the string, the bits of the bytes unpacked and of the register make up the characters that were read, and the register holds exactly the bits
  of the stream between the two. The stream is one number `N` with the bytes as its digits (`IsStream`), so that `CharBits` bits of it are a character (`CharOf`) and `ByteBits` bits a byte, and a
  shift of the register is a division.
* `Received`: the buffer is the beginning of what the server wrote, and all of it once unpacking has ended.
* `Decoding`: the reader stands where a mod, a channel, the count of the rest or the end begins (`Parsing`), and the lists are the mods and channels before that place (`Listed`). Where they begin
  is `End(i)`, the length of what was written for the first `i` mods (`Layout`).

The end of the data then is met in the middle of one of these pieces, and what the lists hold at that moment is a whole number of them. `FlattenSeq`, of the community modules, and `Char` are recursive
functions; the proofs use their two equations and the induction over an interval described above (`UpTo`).

The type invariants of the modules with proofs are proved and, but for those of `WireBuffer` and `ForgeData`, not repeated in the runs.

Only model-checked: all liveness (`Terminates`, `AllEnd`), since the prover does not handle fairness and `ENABLED`; everything of the MOTD, whose modules need `RECURSIVE` operators.

## 6. What is not modelled

The text of addresses (brackets, IPv6 literals), of responses and of the command line's output; details of sockets such as
`TCP_NODELAY` beyond its failure; time itself - a timeout may fire at any moment a call waits; when the garbage collector runs (`Closes` may come at any time or never); a write to stdout that fails; IPv6 targets
of the Rust UDP socket, which is bound to an IPv4 address and fails every send; floats (the conversion of a half float in `io.rs` leaves the exponent of a subnormal
number at -14 however far it shifts the mantissa; nothing uses it); the bytes of a hex colour, the RGB tables, escaping and CSS of the MOTD; the plain JSON lists
of older Forge versions; records built from parsed data (`responses/*`), which have no state; the deprecation helpers, a comparison of versions.

Of the documentation's examples only the race is modelled. `ping_many_servers_at_once.py` is a loop over a list: it pings in batches of 11 where its comment says 10, drops the address it holds
when a batch is full, and never pings the last batch; of the three addresses in the file it pings none.

Behaviour that is modelled or was read, but about which no document promises anything a property could state: `tries=0`; a socket left open when `setsockopt` fails after `connect`, or
when `shutdown` raises in closing; the Rust lookup that takes any DNS failure for a missing record and sets the query port to 25565; the bool `write_optional` leaves behind when its
writer raises (`TornOptional`); the zeros that pad a Forge string that is too short. Build files, packaging, tests and the license hold no behaviour.
