------------------------------- MODULE SdpLines -------------------------------
(***************************************************************************)
(* Lines of SDP text and their parsed form: TryFrom<&str> and From for      *)
(* String (crates/sdp/src/line_parsers.rs).                                 *)
(*                                                                          *)
(* A line of text is a record of its type, the key of an attribute (or "")  *)
(* and the words of its value, which are separated by spaces.  A word is a  *)
(* number, an address, a list of capabilities joined by ";", a pair joined  *)
(* by ":", or other text, of which it is said whether it is in capitals.    *)
(* Where a parser takes all the rest of a line for one value, that value is *)
(* one word here, whatever it contains.                                     *)
(* A parsed line is a record with a kind, one for each variant of SDPLine   *)
(* and Attribute; "malformed" is the error, "other" Unrecognized.           *)
(***************************************************************************)
EXTENDS Naturals, Sequences, FiniteSets

Text(type, key, words) == [type |-> type, key |-> key, words |-> words]

Num(n) == [number |-> n]
Low(text) == [text |-> text, capitals |-> FALSE]
Cap(text) == [text |-> text, capitals |-> TRUE]
Ip(family, address) == [family |-> family, address |-> address]
Joined(parts) == [parts |-> parts]
Pair(name, value) == [name |-> name, value |-> value]

Word == [number : Nat] \cup [text : STRING, capitals : BOOLEAN]
          \cup [family : {4, 6}, address : STRING] \cup [parts : Seq(STRING)]
          \cup [name : STRING, value : STRING]

Line == [type : STRING, key : STRING, words : Seq(Word)]

IsNum(word) == "number" \in DOMAIN word
IsIp(word) == "family" \in DOMAIN word
IsJoined(word) == "parts" \in DOMAIN word
IsPair(word) == "name" \in DOMAIN word
IsText(word) == "text" \in DOMAIN word

to_ascii_lowercase(word) == IF IsText(word) THEN Low(word.text) ELSE word

\* What a sequence holds, and a set written in some order.
Members(seq) == {seq[i] : i \in DOMAIN seq}

Ordered(S) == CHOOSE seq \in [1..Cardinality(S) -> S] : Members(seq) = S

Malformed == [kind |-> "malformed"]
Unrecognized == [kind |-> "other"]

\* The values of the enumerations that are written as single words.
Profile == Cap("udp/tls/rtp/savpf")
H264 == Low("h264/90000")
Opus == Low("opus/48000/2")
Unsupported == "unsupported"

\* IP4 and IP6, before an address of that family.
AddressType(ip) == Cap(IF ip.family = 4 THEN "ip4" ELSE "ip6")

IsAddress(type, word) == IsIp(word) /\ type = AddressType(word)

------------------------------------------------------------------------------
\* Parsers, from the words of a line.

ParseMedia(words) ==
  IF /\ Len(words) >= 3
     /\ words[1] \in {Low("audio"), Low("video")}
     /\ IsNum(words[2])
     /\ words[3] = Profile
     /\ \A i \in 4..Len(words) : IsNum(words[i])
    THEN [kind |-> "m", media_type |-> words[1].text, transport_port |-> words[2].number,
          formats |-> [i \in 1..(Len(words) - 3) |-> words[i + 3].number]]
    ELSE Malformed

ParseOriginator(words) ==
  IF Len(words) >= 6 /\ words[4] = Cap("in") /\ IsAddress(words[5], words[6])
    THEN [kind |-> "o", username |-> words[1], session |-> <<words[2], words[3]>>,
          ip |-> words[6]]
    ELSE Malformed

ParseTime(words) ==
  IF Len(words) = 2 /\ IsNum(words[1]) /\ IsNum(words[2])
    THEN [kind |-> "t", start_time |-> words[1].number, end_time |-> words[2].number]
    ELSE Malformed

ParseConnection(words) ==
  IF /\ Len(words) >= 3
     /\ to_ascii_lowercase(words[1]) = Low("in")
     /\ IsAddress(words[2], words[3])
    THEN [kind |-> "c", ip |-> words[3]]
    ELSE Malformed

ParseGroup(words) ==
  IF Len(words) >= 2 /\ words[1] \in {Cap("bundle"), Cap("ls")}
    THEN [kind |-> "group", semantics |-> words[1].text, ids |-> Tail(words)]
    ELSE Malformed

ParseFingerprint(words) ==
  IF Len(words) >= 2
    THEN [kind |-> "fingerprint",
          hash_function |-> IF words[1] = Low("sha-256") THEN "sha-256" ELSE Unsupported,
          hash |-> words[2]]
    ELSE Malformed

\* MediaCodec of all that follows the payload number.
CodecOf(words) ==
  LET codec == [i \in DOMAIN words |-> to_ascii_lowercase(words[i])] IN
  CASE codec = <<H264>> -> "h264"
    [] codec = <<Opus>> -> "opus"
    [] OTHER -> Unsupported

ParseRtpMap(words) ==
  IF Len(words) >= 2 /\ IsNum(words[1])
    THEN [kind |-> "rtpmap", payload_number |-> words[1].number, codec |-> CodecOf(Tail(words))]
    ELSE Malformed

\* The capabilities are a set: their order and repetitions do not count.
ParseFmtp(words) ==
  IF Len(words) >= 2 /\ IsNum(words[1])
    THEN [kind |-> "fmtp", payload_number |-> words[1].number,
          capabilities |-> IF IsJoined(words[2]) THEN Members(words[2].parts) ELSE {words[2]}]
    ELSE Malformed

ParseSsrc(words) ==
  IF /\ Len(words) >= 2
     /\ IsNum(words[1])
     /\ words[2] # Low("cname")
    THEN [kind |-> "ssrc", ssrc |-> words[1].number,
          source |-> IF IsPair(words[2]) /\ words[2].name = "cname"
                       THEN words[2].value ELSE Unsupported]
    ELSE Malformed

ParseCandidate(words) ==
  IF /\ Len(words) >= 6
     /\ IsNum(words[2]) /\ words[3] = Cap("udp") /\ IsNum(words[4])
     /\ IsIp(words[5]) /\ IsNum(words[6])
    THEN [kind |-> "candidate", foundation |-> words[1], component_id |-> words[2].number,
          priority |-> words[4].number, ip |-> words[5], port |-> words[6].number]
    ELSE Malformed

ParseSetup(words) ==
  IF Len(words) = 1 /\ words[1] \in {Low("actpass"), Low("active"), Low("passive")}
    THEN [kind |-> "setup", value |-> words[1].text]
    ELSE Malformed

ParseIceOptions(words) ==
  IF words # <<>>
    THEN [kind |-> "ice-options",
          options |-> [i \in DOMAIN words |->
            CASE words[i] = Low("ice2") -> "ice2"
              [] words[i] = Low("trickle") -> "trickle"
              [] OTHER -> Unsupported]]
    ELSE Malformed

\* MediaID, ICEUsername and ICEPassword take what follows the colon.
ParseValue(kind, words) ==
  IF words # <<>> THEN [kind |-> kind, value |-> words[1]] ELSE Malformed

Flags == {"sendonly", "recvonly", "rtcp-mux", "end-of-candidates"}

ParseAttribute(key, words) ==
  CASE key \in {"ice-ufrag", "ice-pwd", "mid"} -> ParseValue(key, words)
    [] key = "fingerprint" -> ParseFingerprint(words)
    [] key = "candidate" -> ParseCandidate(words)
    [] key = "ssrc" -> ParseSsrc(words)
    [] key \in Flags -> [kind |-> key]
    [] key = "group" -> ParseGroup(words)
    [] key = "rtpmap" -> ParseRtpMap(words)
    [] key = "fmtp" -> ParseFmtp(words)
    [] key = "ice-options" -> ParseIceOptions(words)
    [] key = "setup" -> ParseSetup(words)
    [] OTHER -> Unrecognized

\* SDPLine::try_from.  A line without "=" has no type.
ParseLine(line) ==
  CASE line.type = "" -> Malformed
    [] line.type \in {"v", "s"} -> [kind |-> line.type, value |-> line.words]
    [] line.type = "o" -> ParseOriginator(line.words)
    [] line.type = "t" -> ParseTime(line.words)
    [] line.type = "c" -> ParseConnection(line.words)
    [] line.type = "m" -> ParseMedia(line.words)
    [] line.type = "a" -> ParseAttribute(line.key, line.words)
    [] OTHER -> Unrecognized

------------------------------------------------------------------------------
\* Text from lines, String::from.  Printing an Unsupported part or an attribute
\* of kind "other" panics.

Printable(line) ==
  /\ line.kind \notin {"malformed", "other"}
  /\ line.kind = "fingerprint" => line.hash_function # Unsupported
  /\ line.kind = "rtpmap" => line.codec # Unsupported
  /\ line.kind = "ssrc" => line.source # Unsupported
  /\ line.kind = "ice-options" => Unsupported \notin Members(line.options)

PrintCodec(codec) == IF codec = "h264" THEN H264 ELSE Opus

PrintAttribute(line) ==
  CASE line.kind \in {"ice-ufrag", "ice-pwd", "mid"} -> <<line.value>>
    [] line.kind = "setup" -> <<Low(line.value)>>
    [] line.kind = "group" -> <<Cap(line.semantics)>> \o line.ids
    [] line.kind = "fingerprint" -> <<Low(line.hash_function), line.hash>>
    [] line.kind = "rtpmap" -> <<Num(line.payload_number), PrintCodec(line.codec)>>
    [] line.kind = "fmtp" -> <<Num(line.payload_number), Joined(Ordered(line.capabilities))>>
    [] line.kind = "ssrc" -> <<Num(line.ssrc), Pair("cname", line.source)>>
    [] line.kind = "ice-options" -> [i \in DOMAIN line.options |-> Low(line.options[i])]
    [] line.kind = "candidate" ->
         <<line.foundation, Num(line.component_id), Cap("udp"), Num(line.priority),
           line.ip, Num(line.port), Low("typ"), Low("host")>>
    [] OTHER -> <<>>

PrintLine(line) ==
  CASE line.kind \in {"v", "s"} -> Text(line.kind, "", line.value)
    [] line.kind = "o" ->
         Text("o", "", <<line.username, line.session[1], line.session[2], Cap("in"),
                         AddressType(line.ip), line.ip>>)
    [] line.kind = "t" -> Text("t", "", <<Num(line.start_time), Num(line.end_time)>>)
    [] line.kind = "c" -> Text("c", "", <<Cap("in"), AddressType(line.ip), line.ip>>)
    [] line.kind = "m" ->
         Text("m", "", <<Low(line.media_type), Num(line.transport_port), Profile>>
                         \o [i \in DOMAIN line.formats |-> Num(line.formats[i])])
    [] OTHER -> Text("a", line.kind, PrintAttribute(line))

==============================================================================
