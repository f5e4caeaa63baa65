------------------------- MODULE MCAccessUnitDecoder -------------------------
\* Small instances of AccessUnitDecoder: streams of access units of a few
\* shapes, with sequence numbers that wrap around inside the stream.
EXTENDS AccessUnitDecoder, SequencesExt

CONSTANTS
  Length,    \* access units per stream
  FirstSeq   \* sequence number before the first packet

Payload(type, start, end, nal) ==
  [bytes |-> 3, forbidden_zero_bit |-> FALSE, type |-> type, start_bit |-> start, end_bit |-> end, nal |-> nal]

\* A payload cut to its first bytes.
Cut(payload, bytes) == [payload EXCEPT !.bytes = bytes]

\* A slice, the fragments of one, and an aggregation packet (STAP-A).
Slice(nal) == Payload(5, FALSE, FALSE, nal)
Start(nal) == Payload(28, TRUE, FALSE, nal)
Continue(nal) == Payload(28, FALSE, FALSE, nal)
End(nal) == Payload(28, FALSE, TRUE, nal)
Aggregate(nal) == Payload(24, FALSE, FALSE, nal)

Single == <<Slice(1)>>
Pair == <<Slice(1), Slice(2)>>
Fragments == <<Start(1), Continue(1), End(1)>>
Hollow == <<Cut(Start(1), 2), Cut(Continue(1), 2), Cut(End(1), 2)>>
Mixed == <<Slice(1), Start(2), End(2)>>
Leading == <<Aggregate(0), Slice(1)>>
Trailing == <<Slice(1), Aggregate(1)>>
Damaged == <<[Slice(0) EXCEPT !.forbidden_zero_bit = TRUE], Payload(28, TRUE, TRUE, 0), Slice(1)>>
Empty == <<Slice(1), Cut(Slice(1), 0), Slice(2)>>
Half == <<Cut(Start(0), 1), Slice(1)>>

AllShapes == {Single, Pair, Fragments, Hollow, Mixed, Leading, Trailing, Damaged, Empty, Half}

\* The packets of a stream: unit t of it has timestamp t.
Packets(shapes) ==
  FlattenSeq([t \in 1..Length |->
    [i \in DOMAIN shapes[t] |->
       [timestamp |-> t, marker |-> i = Len(shapes[t])] @@ shapes[t][i]]])

MCStreams ==
  {[n \in DOMAIN Packets(shapes) |->
      [sequence_number |-> (FirstSeq + n) % SeqModulus] @@ Packets(shapes)[n]] :
     shapes \in [1..Length -> AllShapes]}

==============================================================================
