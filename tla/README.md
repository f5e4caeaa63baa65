# A TLA+ development of the Sigma media server

The server receives WebRTC streams from *streamers* (WHIP), opens a room for
each, and relays the media to the room's *viewers* (WHEP). It takes thumbnails
of the streams, and reports the rooms over HTTP. This directory holds TLA+
models of it, TLC configurations that check them on small instances, and TLAPS
proofs about them. `PROJECT.json` maps every definition that models code to the
lines it models, and lists the runs, mutants, findings, hazards and theorems.

## The system

One **main thread** (`main.rs`) owns all session state. It takes commands from
one unbounded channel. Three kinds of threads fill the channel: the **UDP
thread** (every datagram), the **timer thread** (a periodic check every 3 s),
and the **HTTP workers** (60 in a pool), which wait for the answer on a reply
channel of their own. Save threads, one per thumbnail, write files.

| part | source | state | operations | module |
|---|---|---|---|---|
| session registry | `ice_registry.rs` | maps of sessions, user names, addresses, rooms | add streamer, add viewer, nominate client, remove session | SessionRegistry, RemovalOrder |
| packet handlers | `server.rs` | the registry | STUN live check, nomination, handshake packet, RTP packet | MediaServer |
| DTLS client | `client.rs` | Handshake, Established, Shutdown | read packet | MediaServer |
| main loop, periodic checks | `main.rs` | the channel, timestamps | five commands, timer | MediaServer, PromptServer, CommandLoop |
| HTTP server | `http/server.rs`, `http/mod.rs` | pool, workers, reply channels | five paths, preflight requests | CommandLoop, HttpRoutes |
| HTTP parser and responses | `http/parsers.rs`, `http/response_builder.rs` | none | request, error to status | HttpRoutes |
| STUN codec | `stun.rs` | none | binding request, success response | StunLayout, IceCheck |
| SDP lines | `crates/sdp/src/line_parsers.rs` | none | text to line and back | SdpLines |
| SDP resolver | `crates/sdp/src/resolvers.rs` | none | offer to session and answer | SdpResolver, MediaPath |
| RTP header remapping | `rtp.rs` | none | payload number and SSRC of a relayed packet | MediaPath |
| access unit decoder | `access_unit_decoder.rs`, `nal.rs` | sequence number, timestamp, two buffers | process packet | AccessUnitDecoder |
| thumbnail extractor | `extractor.rs` | last picture | try extract | MediaServer, AccessUnitDecoder |
| thumbnail storage | `thumbnail.rs`, `images_route` | files | save, read | ThumbnailStore |
| configuration, acceptor, RTP dumps | | none | | not modelled, see below |

What makes it hard: commands of independent peers interleave in any order;
several maps index the same sessions and must agree, or an `expect` in the
relay loop ends the process; peers vanish without a word and are only noticed
by age; UDP loses, repeats and reorders; HTTP clients break off at any time;
the iteration order of hash maps is random.

## Modules

**SessionRegistry** is the registry. A `HashMap` is a function whose domain is
the set of keys present. `sessions` holds the fields of a session that never
change, `client` and `age` those that packets change; a `Client` that is `None`
is an id outside `DOMAIN client`; an `Instant` is the time elapsed since,
saturated at `AgeCap`. Random ids are any value, or, with `DistinctDraws`, any
value not in use: the assumption the code makes silently.

**MediaServer** has one action per branch of a handler: `AddStreamer`,
`AddViewer`, `LiveCheck`, `Nomination`, `HandshakePacket`, `KeylessHandshake`,
`IgnoredPacket`, `ShutdownPacket`, `RtpPacket`, `RunPeriodicChecks`, and `Tick`
for time. A handler runs to its end before the next command, so an action is a
whole handler. `panic` records an `expect`, `unwrap`, index or `todo!` that
ended the main thread; `relay` and `spawned` record what the last step sent and saved.
A `protect` or `send_to` that fails loses the packet like the network does.
Four constants say what the parts that other modules or libraries decide may come
to. `StreamerHandshakes` and `ViewerHandshakes`: a handshake goes on, is
`Established`, fails (`Shutdown`) or ends without keys. `StunOutcomes`: a request
is answered, cannot be read (`UnreadableRequest`), or has a response that does not
fit its buffer; IceCheck says when. `FrameOutcomes`: the extractor finds a picture,
nothing, or a payload it cannot index; AccessUnitDecoder says when.

**Lobby** is what users see: rooms, their members, which of them are ready, and
deliveries to exactly those. `MediaServer!ImplementsLobby` is the refinement:
members are the viewer ids of a room, ready are those with an established
client.

**PromptServer** adds the timer: exactly `Period` units of time between two
periodic checks. This supposes a main thread that keeps up with the channel.

**RemovalOrder** has `remove_session` statement by statement, on an explicit
registry value, the loop of the periodic checks that calls it for one stale
session after the other, in any order, and compares the result with the
set-at-once `remove_sessions` that `MediaServer` uses.

**CommandLoop** has the threads, the channel and the reply channels. The
registry is reduced to the set of open rooms. A connection is `idle`, `queued`
for a worker, `parsing`, `greeting` (a notification client before its header is
written), `awaiting` a reply, `sleeping` between notifications, or `done`.
**HttpRoutes** is what a worker does with a request: whether it parses, which
error a route ends with, which command it sends, and which status it answers
with. A request is a record of what these look at. A body of which less arrives
than announced is still a text, as in `parse_http`, which ignores the error. A
length that no buffer can have makes the worker panic, and the pool replaces it.

**StunLayout** has the sizes of a success response: what each `write_*` function
states as the length of its attribute and how many bytes it leaves in the
buffer, and a reader that goes by the stated lengths. **IceCheck** composes it
with `handle_stun_packet`, the parser of requests, the mask of the address (byte
by byte) and the agents of the peers, over a network that loses, delays and
reorders. The agents are external: they do what the server relies on. A request
that cannot be read, or a check whose response does not fit its buffers, ends the
main thread: `fatal` is that datagram, and nothing is handled after it.

**ThumbnailStore** has the threads that save a room's thumbnails. `fs::write`
is an open that empties the file and writes at the thread's own offset, in one
or more parts; `fs::read` goes from the start till it finds the end. Both may be
interleaved, and a save may fail at any point.

**AccessUnitDecoder** is the decoder, fed by a network that may deliver any
packet within a window of the latest, any number of times. A payload is the
packet's place in the stream, so that a decoded NAL unit is the sequence of
places it was put together from. Its length is kept apart: `get_nal_packet`
indexes the headers and `process_packet` the first byte of a unit, and a payload
without them ends the main thread (`DeliverFatal`). The zero byte that `process_packet` pushes for
a marker is modelled; a run of them counts as one. Start codes are left out.

**SdpLines** has a parser and a printer per kind of line, over words in place of
characters. **SdpResolver** has the resolver's functions as operators over
sequences of lines, from the text of an offer to the text of the answer: for a
function that returns a `Result`, a predicate that says when it is `Ok` and an
operator for the value. **MediaPath** composes two negotiations with `rtp.rs`: a
streamer's and a viewer's offers, and packets relayed between them.

The messages, requests and offers that the models enumerate are well-formed ones
that clients of these protocols send, offers a peer may make to another server,
the ordinary other traffic of the ports, and, where the code unwraps or indexes
what it reads, one abstract message on which that fails.

The `MC*` modules give the constants values. Definitions marked as mutants are
plausible mistakes in the code, used to show that each property can fail.

## Runs

Passing runs (states are distinct states found):

| configuration | checks | states |
|---|---|---|
| `MCMediaServer` | types; the four maps agree (`RoomsOwned`, `ViewersListed`, `UsernamesIndexed`, `AddressesIndexed`); `LookupsSucceed`: the relay loop finds the room and the viewers it looks up; `RelayExact`; `OnlyStaleLeave`; `ClientsPinned`; `ImplementsLobby`; `RemovalsCommute` | 403,033 |
| `MCSilentLeave` | `SilentLeave`, with colliding ids, failing handshakes and panics | 211,946 |
| `MCPromptServer` | `SilenceBounded`, `ThumbnailFresh`, `SavesPaced`, and `Reachable`: a client's address leads to its session, if addresses are not shared | 129,919 |
| `MCCommandLoop` | `ReplyChannelOpen`, `OneUnderWay`, `ReportsAreCurrent`; `StatusTruthful`: success is answered if and only if a peer was registered; `OnlyInvited`; `AllAnswered`, `ReportsKeepComing` | 158,431 |
| `MCAccessUnitDecoder` | `UnitsWhole`; `HeadersSuffice`: only a payload without its headers makes an index panic; `Recovers` | 621,917 |
| `MCMediaPath` | `MeaningKept`, `SsrcAdvertised`, `AnswersFit`, `AnswersReadable`, `CapableViewersAccepted`, `OnlyVideoExtracted` | 43,307 |
| `MCIceCheck` | `AddressLearned`, `PairAgreed`, `OthersIgnored`, `UsableWhenPadded`, `ChecksSucceed` | 12,840 |
| `MCThumbnailStore` | `FileSettled`, `QuietReadsWhole`, `ShownInTheEnd` | 535,288 |

`UsableWhenPadded` records a limit of the code exactly. `write_username_attribute`
copies the user name into the response only if it needs padding, but always
states its length; a reader of a response with a name of 12, 16, ... bytes takes
the address for part of the name. The name is "host:remote" with four characters
for the host, so this depends on the length of the peer's own name. The name is
also what decides whether the response fits the 200 bytes of `handle_stun_packet`
and the buffer of `create_stun_success`. If not, the `expect` fails after the
client was elected. `UsableWhenPadded` says that this happens just to those names.

What ends the main thread is not ruled out by a property where nothing in the code
rules it out: the `todo!` for a streamer whose handshake failed, a handshake without
keys, a request that cannot be read, a response that does not fit, a payload without
headers. These are in the models, the runs take them, and the properties say which
inputs the last three are due to (`OthersIgnored`, `UsableWhenPadded`,
`HeadersSuffice`). What the code does promise, that the relay loop finds what it
looks up, is `LookupsSucceed`.

Runs that end in a violation, each a disagreement between the code and what it
says of itself:

- `MCSharedAddress` (`ClientsKnown`). Two sessions are nominated from one
  address, and the first expires. `remove_session` removes the address although
  it leads to the second by now. The second keeps its client, but its datagrams
  are dropped at the early return commented "Sender session has not yet
  established a Client", and no later nomination repairs it.
- `MCCollision` (`LookupsSucceed`). A random id repeats one in use, and an `expect` of
  the relay loop fails. With 32-bit ids this is rare; the run shows exactly
  what `DistinctDraws` stands for.
- `MCMediaPasswords` (`MediaPasswordsMatch`). Media-level passwords without
  media-level user names are not compared, although the comment on
  `get_ice_credentials` says media-level credentials are.
- `MCHttpStatus` (`StatusAsNamed`). `map_http_err_to_response` answers a
  `BadRequest` with 404, although the error displays as "400 Bad Request".

### Bounds

- Three sessions, two rooms: a streamer with two viewers, two streamers and a
  viewer that outlives its room, and a room closing while another is in use.
  Two addresses for three peers make sharing unavoidable. Ids are reused after
  they were freed, so that histories are longer than the sets. Ids, rooms,
  names and addresses are symmetric where the configuration says so; no run of
  a liveness property uses symmetry.
- `SessionTTL` 1, `AgeCap` 2: an age is fresh, at the limit, or over it, the
  three cases the code tells apart. In `MCPromptServer` the ttls (3, 5) and the
  period (2) keep the order of the real ones (5 s, 120 s, 3 s).
- `ChannelBound` 2 holds back the UDP and timer threads, which wait for nothing,
  and never a worker: up to six commands are under way. Four connections, on
  three workers, take every route and every error of `HttpRoutes`.
- The decoder's `Window` of 3 reaches across a whole access unit; streams of
  four units take every combination of ten shapes, among them units of a single
  packet, of empty fragments and with payloads cut short, and the modulus is small enough for the sequence numbers to wrap
  inside the stream.
- Offers have two (streamer) or three (viewer) video payload numbers with every
  choice of codec and capability, and every other thing the resolver looks at is
  varied in turn, with one line that does not parse for each parser.
- `NameLengths` 4, 90, 91, 92, 110, 112 give user names of 9, 95, 96, 97, 115 and
  117 bytes: padded and not, and on either side of what the buffers hold with an
  IPv6 and with an IPv4 address. One agent has an IPv4 and an IPv6 address, so that
  checks from both race. At most one other datagram is under way at a time.
- `MCThumbnailStore`: three pictures of three, one and two parts, so that a
  later file is shorter and longer than an earlier one; one failing save; two
  readers. `SaveTime` 2 is below `ThumbnailTTL` 3.
- Deadlock is checked except where the system may stop: after a panic
  (`MCMediaServer`, `MCSilentLeave`), at the end of a stream (`MCAccessUnitDecoder`), with all
  pictures saved and the room closed (`MCThumbnailStore`),
  after a rejected offer (`MCMediaPath`).

### Fairness

- `FairSpec`: time passes, and the periodic checks happen again and again. The
  timer thread does nothing else, and the main thread takes commands in order.
  Nothing is assumed of peers.
- `LoopFairSpec`: the pool starts queued jobs, a worker that can go on does, and
  the main thread takes commands. Clients need not connect and the UDP and timer
  threads need not send. Two of the three workers may be kept, by a client that
  never completes its request and by one of `/notifications`; a third is left.
- `IceFairness`: agents repeat a message until it is answered, and one that is
  repeated for ever arrives in the end (strong fairness of delivery). The code
  answers every repetition, and a network that loses all of them is one over
  which no session can work.
- `StoreFairness`: the periodic checks go on, time passes, and a save thread
  that can go on does. The pictures and the readers are not assumed to.

## Proofs

Every safety invariant and action property that a run checks is proved, for every
number of sessions, rooms, names and addresses, every ttl and every `AgeCap` above
them; for every number of connections, workers and kinds of requests; for every
number of readers, pictures and parts; for well-formed streams of any length and
any window; for well-formed offers of any number of lines; for any agents, addresses
and transaction ids. The theorems about the registry assume `DistinctDraws`.

| theorem | says | module |
|---|---|---|
| `TypeCorrect` | `Spec => []TypeOK` | MediaServerProofs |
| `RegistryConsistent`, `ViewersAreListed`, `UsernamesAreIndexed`, `AddressesAreIndexed` | the four maps agree | MediaServerProofs |
| `RelayIsExact` | `Spec => []RelayExact` | MediaServerProofs |
| `LookupsDoSucceed` | `Spec => []LookupsSucceed`, whatever handshakes, requests and media end in | MediaServerProofs |
| `AlwaysReachable` | `Spec => []Reachable`, if sources are disjoint | MediaServerProofs |
| `OnlyTheStaleLeave`, `ClientsArePinned`, `RemovalsDoCommute` | the action properties | MediaServerProofs |
| `ServerImplementsLobby` | `Spec => ImplementsLobby` | MediaServerProofs |
| `TimedTypeCorrect`, `TimeBounds`, `ThumbnailsStayFresh`, `SavesArePaced` | types and bounds of PromptServer | MediaServerProofs |
| `PromptIsServer`, `PromptImplementsLobby` | `TimedSpec => Spec`, and so the lobby | MediaServerProofs |
| `RoomsAreLive` | streamers and listed viewers of open rooms were heard of within the ttl and a period | MediaServerProofs |
| `LoopTypeCorrect`, `ReplyChannelsStayOpen`, `OneMessageUnderWay`, `ReportsStayCurrent`, `StatusIsTruthful`, `OnlyTheInvited` | the safety of CommandLoop | CommandLoopProofs |
| `NobodyIsStranded` | whoever waits has a job, a command or an answer under way | CommandLoopProofs |
| `ReadersKeepStep`, `LengthsAgree`, `ResponsesFit` | which responses can be read; their lengths; exactly which names fit the buffers | IceCheckProofs |
| `AddressesAreLearned`, `PairsAreAgreed`, `OthersAreIgnored`, `ResponsesUsableWhenPadded` | the safety of IceCheck | IceCheckProofs |
| `RoundTripsDoCount` | a check that arrives elects its client and is answered, or does not fit and is the last; no response that can be read is in vain | IceCheckProofs |
| `DecoderTypes`, `UnitsAreWhole`, `HeadersDoSuffice`, `DecoderRecovers` | the safety of AccessUnitDecoder | AccessUnitDecoderProofs |
| `MeaningIsKept`, `SsrcIsAdvertised`, `OnlyVideoIsExtracted`, `AnswersDoFit`, `AnswersAreReadable`, `CapableViewersAreAccepted` | the safety of MediaPath, from text to text | MediaPathProofs |
| `LinesReadBack` | every parser undoes its printer, for any text | SdpLinesProofs |
| `FilesSettle`, `QuietReadsAreWhole` | the safety of ThumbnailStore | ThumbnailStoreProofs |
| `FilesAreUnmixed`, `ReadsAreOrdered` | what a read gets that saves cross | ThumbnailStoreProofs |

**The registry.** The inductive invariant `Inv` is the conjunction of the type
invariant, the four index invariants and `RelayExact`. None of the parts is
inductive alone: a viewer's packet needs `ViewersListed` to know that the relay
loop finds it, `ViewersListed` needs `RoomsOwned` so that a closing room is only
taken with its owner, and a removal keeps an index right only if every entry of
it leads to the session it came from. `MediaServerProofs` has one lemma per
registry operation, and one step per action on top of them.
`LookupsDoSucceed` follows from it: the two lookups are of a room that a session
owns and of viewers that a room lists. `AlwaysReachable` adds that a client's address is among its user name's sources. `TimeBounds` and
`ThumbnailsStayFresh` add that the ages are bounded by the ttls and the timer,
which needs that a check removes exactly what is over the ttl; `SavesArePaced`
relates the age of a room's last save to its owner's `image_timestamp`. The timer
only restricts the server (`PromptIsServer`), so what is proved of MediaServer holds
of PromptServer as well; with the index invariants, the bound on the silence of
sessions becomes one on the members of rooms (`RoomsAreLive`).

**The threads.** `LoopInv` says where the one message of a connection can be: none
is under way before its worker asks or while it sleeps, a command in the channel
is the one its request asks for, and an answer to an offer is waited for. So the
reply channel is open when the main thread sends. That an answer says success
just when a peer was registered (`Replies`), and that a registered peer has been
told or will be (`Admission`), gives `StatusTruthful`. `NobodyIsStranded` is the
converse of `OneUnderWay`: a message is not lost either. It needs that a command
taken from the channel is answered in the same step, and that a job leaves the
backlog only for a worker.

**Removals.** `Removed(S)` is the registry without the sessions of `S`. One call of
`remove_session` leads from `Removed(S)` to `Removed(S \cup {id})`, also when the
room of `id` is gone already (`RemoveOne`), so by induction over the calls every
order ends in `Removed(Stale)`. That there are finitely many sessions, so that they
have an order at all, is an invariant of its own.

**Connectivity checks.** The arithmetic of 16-bit lengths and padding, attribute by
attribute, gives the layout; the user name is the only attribute whose stated and
written lengths can differ, and a reader's offsets are followed by induction over
the attributes. That a mask undoes itself comes from the table of half bytes.
`IceInv` says what every datagram under way is: a check that its agent sent, by
which it has chosen an address if it nominates, or a response to such a check, after
which the client is there. It assumes that transaction ids are unique and that
other traffic names no session of these agents. `ResponsesUsableWhenPadded` holds for
names of every length: `ResponsesFit` says which of them fit, and one that does not
is in no response, because its check ended the main thread. `RoundTripsDoCount` needs `IceInv` too: a
response that the agent takes carries the address and the attributes that
`create_stun_success` gave it, and a check finds the session that it names.

**The decoder.** `DecoderInv` has four cases: nothing is known (`Idle`), a marker has
been seen (`Synchronised`), a part of an access unit has been collected
(`Collecting`), a unit has just been returned (`Returned`). While it collects, the
buffers hold exactly the NAL units of the packets from the start of the access unit
to the last accepted one, which is a statement about sequences built packet by
packet. That the packet with the next sequence number is the next of the stream
needs that no packet is late by half the sequence numbers (`2 * Window <
SeqModulus`), the assumption that any use of them makes. An empty unit
would need fragments without bytes and none that starts it, and while it collects
the start is there, with the header byte it gives the unit: so `HeadersDoSuffice`.
`RecoverInv` adds where a calm decoder stands in the stream. Streams are assumed to be well formed: numbers
without gaps, a time and a marker per access unit, fragments of a NAL unit together.

**The negotiation.** `PathInv` only says that the sessions are what the resolver makes
of accepted offers and that the last packet is one the remapping made; the work is
in the lemmas about the resolver. `get_sdp` of the text returns the offer's own
sections, parsed line by line; what `FirstAt` finds there is a line of the offer.
A well-formed offer has seven-bit payload numbers and at most one codec and one list
of capabilities for each, which is what SDP demands and what makes the meaning of a
number unique. For `AnswersReadable` every kind of line that an answer has is shown
to be read back as it was written, and the sections to be found again in the text.
The same lemmas give `LinesReadBack`, for any line that parses and that
`String::from` can print: all but those with an unsupported hash, codec, source or
ICE option, for which `String::from` panics.
The resolver is assumed to have a fingerprint by SHA-256 and an IP address, as
`UDPServer::new` gives it.

**The files.** `StoreInv` says that there is one save at a time, as old as
`image_timestamp`. It needs the assumption that a save takes no longer than the
ttl of a thumbnail (`SaveTime <= ThumbnailTTL`: 120 s for one small file), which
is all that stands in for a lock in the code. The file then holds the parts that
this save has written, and an undisturbed reader has a prefix of what is there. A
reader that saves cross has no such prefix; that its parts come in the order of the
pictures needs that no part in the file, or read from it, is newer than one that a
save at work still has to write.

Induction over sequences and numbers rests on `InductionLemmas`, which states it for
sets in place of operators and shows once that a function defined by recursion over
`0..n` exists and follows its definition.

The type invariants of PromptServer, CommandLoop, AccessUnitDecoder and
ThumbnailStore are proved and not repeated in the runs. The sentinel `None` is assumed to be none of the
values it stands beside.

Only model-checked: the liveness properties (`SilentLeave`, `AllAnswered`,
`ReportsKeepComing`, `ChecksSucceed`, `ShownInTheEnd`), which rest on fairness and
are out of the prover's reach. For three of them the part that does not depend on
fairness is proved: `NobodyIsStranded` for `AllAnswered` and `ReportsKeepComing`,
`RoundTripsDoCount` for `ChecksSucceed`. The violations are runs of TLC by nature.

## Not modelled

- The characters of HTTP, SDP and JSON text, header fields and bodies of
  responses: conversions without state. The models start from words and fields.
- The values of message integrity and checksum in STUN responses. The server does
  not check those of requests; in the layout they have their place and length.
- DTLS, SRTP, H.264 and WebP: libraries, reduced to their outcomes. Whether a
  peer offers an SRTP profile is such an outcome (`KeylessHandshake`).
- The RTP header parser of the thumbnail crate: bytes to fields, without state.
- The number of zero bytes that pile up in the decoder's buffer while a stream
  consists of access units of one packet: it has no bound in the code.
- Two saves of a room at a time: nothing in the code bounds how long a save takes,
  and ThumbnailStore assumes the ttl of a thumbnail as a bound.
- Payload numbers of more than seven bits, which RTP does not have and the resolver
  does not turn down.
- Failures of the operating system and of libraries: `Client::new` and `try_clone`,
  and a content-length that a buffer could have and the memory does not.
- The `remote_ssrc` of a media session, which is never read.
- Configuration and the TLS acceptor, set up once before the server starts, and
  the RTP dump reader, which belongs to tests.
- Fair scheduling between the queue of the channel and time: PromptServer
  supposes that the main thread keeps up.

What is left would be a composition of IceCheck with the expiry of sessions.
