-------------------------- MODULE AccessUnitDecoder --------------------------
(***************************************************************************)
(* The H.264 access unit decoder of the thumbnail extractor                 *)
(* (access_unit_decoder.rs), fed by a streamer over a network that loses,   *)
(* repeats and reorders packets and may calm down at some point.            *)
(*                                                                          *)
(* A packet carries a whole NAL unit, a fragment of one or something the    *)
(* decoder does not read.  Its payload is the packet's place in the stream, *)
(* so that a decoded NAL unit is the sequence of the places it was put      *)
(* together from; `nal' is how many NAL units that can be read have begun   *)
(* in the access unit so far, which the decoder never looks at.  `bytes' is *)
(* the length of the payload; if it has not even its headers, indexing it   *)
(* panics and ends the main thread.                                         *)
(***************************************************************************)
EXTENDS Naturals, Sequences

CONSTANTS
  Streams,     \* sequences of packets: [sequence_number, timestamp, marker,
               \*   bytes, forbidden_zero_bit, type, start_bit, end_bit, nal]
  SeqModulus,  \* 2^16: sequence numbers wrap around
  Window,      \* how far a packet may be late or early
  None         \* Option::None

\* The number after a sequence number.
Successor(seq) == IF seq = SeqModulus - 1 THEN 0 ELSE seq + 1

\* A payload without the headers that get_nal_packet looks at.
Short(packet) ==
  \/ packet.bytes = 0
  \/ packet.bytes = 1 /\ ~ packet.forbidden_zero_bit /\ packet.type = 28

\* A packet with a NAL unit, or with a fragment of one, that begins one, or
\* that leaves one unfinished.
Readable(packet) ==
  /\ ~ Short(packet)
  /\ ~ packet.forbidden_zero_bit
  /\ packet.type \in 1..23 \/ packet.type = 28
  /\ packet.type = 28 => ~ (packet.start_bit /\ packet.end_bit)

Begins(packet) == Readable(packet) /\ (packet.type = 28 => packet.start_bit)

Opens(packet) == Readable(packet) /\ packet.type = 28 /\ ~ packet.end_bit

\* What a streamer sends: sequence numbers without gaps; access units with a time
\* each, of which the last packet has the marker; and nothing between the
\* fragments of a NAL unit.
WellFormed(s) ==
  LET Ends == {n \in DOMAIN s : s[n].marker}
      Before(n) == IF n = 1 \/ n - 1 \in Ends THEN 0 ELSE s[n - 1].nal
      Unfinished(n) == n > 1 /\ Opens(s[n - 1])
  IN
  /\ Len(s) \in Nat /\ DOMAIN s = 1..Len(s)
  /\ \A n \in DOMAIN s :
       /\ s[n].sequence_number \in 0..(SeqModulus - 1)
       /\ n > 1 => s[n].sequence_number = Successor(s[n - 1].sequence_number)
       /\ s[n].marker \in BOOLEAN /\ s[n].timestamp # None /\ s[n].nal \in Nat
       /\ s[n].bytes \in Nat
       /\ \A m \in 1..(n - 1) :
            s[m].timestamp = s[n].timestamp <=> Ends \cap m..(n - 1) = {}
       /\ s[n].marker => ~ Opens(s[n])
       /\ IF Unfinished(n)
            THEN Readable(s[n]) /\ ~ Begins(s[n]) /\ s[n].nal = Before(n)
            ELSE /\ Readable(s[n]) => Begins(s[n])
                 /\ s[n].nal = Before(n) + IF Begins(s[n]) THEN 1 ELSE 0

\* Packets are not late by as many as half the sequence numbers there are.
ASSUME DecoderAssumption ==
  /\ SeqModulus \in Nat /\ Window \in Nat /\ 2 * Window < SeqModulus
  /\ None \notin Nat /\ None \notin Seq(Nat) /\ None \notin Seq(Seq(Nat))
  /\ \A s \in Streams : WellFormed(s)

VARIABLES
  stream,                \* what the streamer sends
  next,                  \* the place after the latest packet delivered
  calm,                  \* packets come in order from now on
  last_seq, timestamp,   \* Option: a value or None
  is_loopback,           \* the last packet was the end of an access unit
  fragmentation_buffer,  \* of the NALDecoder
  internal_buffer,       \* NAL units of the current access unit
  unit,                  \* what the last call returned: NAL units or None
  ended,                 \* a call panicked
  skipped                \* history: units of several packets in a row that a calm
                         \* network delivered and the decoder did not return

decoder_vars == <<last_seq, timestamp, is_loopback, fragmentation_buffer, internal_buffer>>

au_vars == <<stream, next, calm, decoder_vars, unit, ended, skipped>>

DecoderInit ==
  /\ stream \in Streams
  /\ next = 1
  /\ calm = FALSE
  /\ last_seq = None
  /\ timestamp = None
  /\ is_loopback = FALSE
  /\ fragmentation_buffer = <<>>
  /\ internal_buffer = <<>>
  /\ unit = None
  /\ ended = FALSE
  /\ skipped = 0

------------------------------------------------------------------------------
\* Mutants of IsNext: any packet follows once there is a last one; the
\* sequence number does not wrap around.
IsNextAny(packet) == last_seq # None

IsNextNoWrap(packet) == last_seq # None /\ packet.sequence_number = last_seq + 1

IsNext(packet) == last_seq # None /\ packet.sequence_number = Successor(last_seq)

\* The headers of a payload (get_nal_packet): of the 32 types only single NAL
\* units and FU-A fragments are read.
PayloadType(packet) ==
  CASE packet.forbidden_zero_bit -> "Malformed"
    [] ~ packet.forbidden_zero_bit /\ packet.type \in 1..23 -> "NALUnit"
    [] ~ packet.forbidden_zero_bit /\ packet.type = 28 -> "FU_A"
    [] OTHER -> "Unread"

FragmentationRole(packet) ==
  CASE packet.start_bit /\ packet.end_bit     -> "Malformed"
    [] packet.start_bit /\ ~ packet.end_bit   -> "Start"
    [] ~ packet.start_bit /\ packet.end_bit   -> "End"
    [] ~ packet.start_bit /\ ~ packet.end_bit -> "Continue"

\* decode_nal_unit: the NAL unit a packet completes, or None, and what it
\* leaves in the fragmentation buffer.
decode_nal_unit(packet, n) ==
  LET role == FragmentationRole(packet) IN
  CASE PayloadType(packet) = "NALUnit" ->
         [nal |-> <<n>>, rest |-> fragmentation_buffer]
    [] PayloadType(packet) = "FU_A" /\ role = "Start" ->
         [nal |-> None, rest |-> <<n>>]
    [] PayloadType(packet) = "FU_A" /\ role = "Continue" ->
         [nal |-> None, rest |-> Append(fragmentation_buffer, n)]
    [] PayloadType(packet) = "FU_A" /\ role = "End" ->
         [nal |-> Append(fragmentation_buffer, n), rest |-> <<>>]
    [] OTHER ->
         [nal |-> None, rest |-> fragmentation_buffer]

\* The zero byte pushed for a marker; a run of them, which has no bound in the
\* code, counts as one.  (The start codes and zero bytes that belong to a NAL
\* unit are left out.)
Zero == <<>>

PushZero ==
  internal_buffer' = IF internal_buffer # <<>> /\ internal_buffer[Len(internal_buffer)] = Zero
                       THEN internal_buffer ELSE Append(internal_buffer, Zero)

\* A marker while no timestamp is known: the next packet starts a unit.
Synchronise(packet) ==
  /\ last_seq' = packet.sequence_number
  /\ is_loopback' = TRUE
  /\ PushZero
  /\ unit' = None
  /\ UNCHANGED <<timestamp, fragmentation_buffer>>

Reset ==
  /\ last_seq' = None
  /\ timestamp' = None
  /\ fragmentation_buffer' = <<>>
  /\ internal_buffer' = <<>>
  /\ unit' = None

\* The packet continues the unit, and ends it if it has the marker.
Accept(packet, nal, rest) ==
  LET nals == IF nal = None THEN internal_buffer ELSE Append(internal_buffer, nal) IN
  /\ last_seq' = packet.sequence_number
  /\ fragmentation_buffer' = rest
  /\ unit' = IF packet.marker THEN nals ELSE None
  /\ internal_buffer' = IF packet.marker THEN <<>> ELSE nals

process_packet(packet, n) ==
  IF packet.marker /\ timestamp = None
    THEN Synchronise(packet)
    ELSE LET ts      == IF is_loopback THEN packet.timestamp ELSE timestamp
             decoded == decode_nal_unit(packet, n)
         IN /\ is_loopback' = FALSE
            /\ IF /\ IsNext(packet)
                  /\ ts = packet.timestamp
                  /\ packet.marker => decoded.nal # None
                 THEN Accept(packet, decoded.nal, decoded.rest) /\ timestamp' = ts
                 ELSE Reset

\* get_nal decodes a packet that comes next and has the unit's time.
Decodes(packet) ==
  /\ ~ (packet.marker /\ timestamp = None)
  /\ IsNext(packet)
  /\ is_loopback \/ timestamp = packet.timestamp

\* An index is out of bounds: of the headers in get_nal_packet, or of the first
\* byte of a NAL unit in process_packet, when fragments without a start, and
\* empty but for their headers, were put together.
Panics(packet) ==
  /\ Decodes(packet)
  /\ \/ Short(packet)
     \/ /\ PayloadType(packet) = "FU_A" /\ FragmentationRole(packet) = "End"
        /\ packet.bytes = 2
        /\ \A i \in DOMAIN fragmentation_buffer :
             LET fragment == stream[fragmentation_buffer[i]] IN
             fragment.bytes = 2 /\ ~ fragment.start_bit

------------------------------------------------------------------------------
\* The network.  Delivering a packet out of turn loses, repeats or reorders.

\* The packet is a whole access unit.
Lone(n) == stream[n].marker /\ (n > 1 => stream[n - 1].timestamp # stream[n].timestamp)

Arrives(n) ==
  /\ ~ ended
  /\ n \in DOMAIN stream
  /\ n <= next + Window /\ next <= n + Window
  /\ calm => n = next

Deliver(n) ==
  /\ Arrives(n)
  /\ ~ Panics(stream[n])
  /\ process_packet(stream[n], n)
  /\ next' = IF n < next THEN next ELSE n + 1
  /\ skipped' = IF ~ calm \/ unit' # None THEN 0
                ELSE IF stream[n].marker /\ ~ Lone(n) THEN skipped + 1 ELSE skipped
  /\ UNCHANGED <<stream, calm, ended>>

\* The call does not return, and no other is made.
DeliverFatal(n) ==
  /\ Arrives(n)
  /\ Panics(stream[n])
  /\ ended' = TRUE
  /\ UNCHANGED <<stream, next, calm, decoder_vars, unit, skipped>>

\* From the start of an access unit on, packets come in order.
CalmDown ==
  /\ ~ calm
  /\ next > 1 => stream[next - 1].marker
  /\ calm' = TRUE
  /\ UNCHANGED <<stream, next, decoder_vars, unit, ended, skipped>>

DecoderNext == CalmDown \/ \E n \in DOMAIN stream : Deliver(n) \/ DeliverFatal(n)

DecoderSpec == DecoderInit /\ [][DecoderNext]_au_vars

------------------------------------------------------------------------------
\* Properties.

DecoderTypeOK ==
  /\ next \in 1..(Len(stream) + 1)
  /\ last_seq \in {None} \cup 0..(SeqModulus - 1)
  /\ timestamp \in {None} \cup {stream[n].timestamp : n \in DOMAIN stream}
  /\ is_loopback \in BOOLEAN
  /\ fragmentation_buffer \in Seq(DOMAIN stream)
  /\ \A i \in DOMAIN internal_buffer : internal_buffer[i] \in Seq(DOMAIN stream)

\* The places of a NAL unit's packets, and of all that can be read, in the access
\* unit at time t.
ReadableAt(t) == {n \in DOMAIN stream : stream[n].timestamp = t /\ Readable(stream[n])}

PlacesOf(t, k) == {n \in ReadableAt(t) : stream[n].nal = k}

\* The members of S from the first to the last.
Lists(places, S) ==
  /\ places \in Seq(S)
  /\ \A n \in S : \E i \in DOMAIN places : places[i] = n
  /\ \A i, j \in DOMAIN places : i < j => places[i] < places[j]

\* nal_units of the decoder library: a zero byte before the first unit is none.
nal_units(u) == IF u # <<>> /\ Head(u) = Zero THEN Tail(u) ELSE u

\* The NAL units that the streamer put into the access unit at time t.
IsSent(nals, t) ==
  /\ DOMAIN nals = {stream[n].nal : n \in ReadableAt(t)}
  /\ \A k \in DOMAIN nals : Lists(nals[k], PlacesOf(t, k))

\* Whatever the network does to the packets, an access unit the decoder
\* returns is one the streamer sent: all its NAL units that can be read, each
\* with all its fragments, in order, and nothing of another unit.
UnitsWhole ==
  unit # None => \E n \in DOMAIN stream : IsSent(nal_units(unit), stream[n].timestamp)

\* Loss and reordering alone never make an index of the decoder panic: if every
\* payload of the stream has its headers, the main thread survives, although
\* fragments may be empty and get lost.  The end of a NAL unit is only ever
\* decoded after its start, so nal[0] is the header that the start left.
HeadersSuffice == ended => \E n \in DOMAIN stream : Short(stream[n])

\* Every access unit of the stream ends with a packet that completes a NAL unit.
Decodable == \A n \in DOMAIN stream : stream[n].marker => Readable(stream[n])

\* Once packets come in order again, whatever happened before, the decoder
\* misses at most one access unit of several packets before it returns one, and
\* afterwards never two in a row, if every unit ends with a readable packet.  A
\* unit of a single packet is only ever taken for the end of the one before it:
\* it is not returned, but neither does it throw the decoder out of step.
Recovers == Decodable => skipped <= 1

==============================================================================
