------------------------------ MODULE MediaPath ------------------------------
(***************************************************************************)
(* The path of a media packet through two negotiations: a streamer and a    *)
(* viewer of its room send their offers, and the packets of the streamer    *)
(* are relayed to the viewer with the payload number and SSRC of the        *)
(* viewer's session (rtp.rs).                                               *)
(***************************************************************************)
EXTENDS SdpResolver

CONSTANTS
  Resolver,       \* the server's SDPResolver
  StreamOffers,   \* offers of streamers, as [session, audio, video] lines of text
  ViewerOffers,   \* offers of viewers
  PlainOffers,    \* offers of viewers that fit, but perhaps for their video codecs
  StreamerDraw,   \* what the server draws for the streamer's session
  ViewerDraw,     \* and for the viewer's
  None            \* Option::None

TextOf(offer) == offer.session \o offer.audio \o offer.video

Sections == {"audio", "video"}

\* The lines of a section that are about a payload number, by its place.
Payloads(section, key) == {i \in DOMAIN section : section[i].key = key}

NumberAt(section, i) == section[i].words[1].number

\* What a peer writes in a media section: only attributes have a key; a media id is
\* one word; a payload number, which has seven bits, has one codec and one list of
\* capabilities at most.
MediaFormed(section) ==
  /\ section \in Seq(Line)
  /\ \A i \in DOMAIN section :
       /\ section[i].key # "" => section[i].type = "a"
       /\ section[i].key = "mid" => Len(section[i].words) = 1
  /\ \A key \in {"rtpmap", "fmtp"} :
       /\ \A i \in Payloads(section, key) :
            Len(section[i].words) = 2 /\ section[i].words[1] \in [number : 0..127]
       /\ \A i, j \in Payloads(section, key) :
            NumberAt(section, i) = NumberAt(section, j) => i = j
  /\ \A i \in Payloads(section, "rtpmap") : IsText(section[i].words[2])
  /\ \A i \in Payloads(section, "fmtp") : IsJoined(section[i].words[2])

\* A media section is what starts with the line for its media, if that can be read,
\* and no payload number is used for both media.
WellFormed(offer) ==
  /\ offer.session \in Seq(Line) /\ \A media \in Sections : MediaFormed(offer[media])
  /\ \A media \in {"session", "audio", "video"} : \A i \in DOMAIN offer[media] :
       ParseLine(offer[media][i]).kind = "m" => media # "session" /\ i = 1
  /\ \A i \in Payloads(offer.audio, "rtpmap"), j \in Payloads(offer.video, "rtpmap") :
       NumberAt(offer.audio, i) # NumberAt(offer.video, j)

\* A viewer's offer that fits, but perhaps for its video codecs.
Plain(offer) ==
  /\ IsSdp(ParseLines(TextOf(offer)))
  /\ LET sdp == get_sdp(ParseLines(TextOf(offer))) IN
       /\ HasCredentials(sdp) /\ HasMediaIds(sdp)
       /\ ReceivesMedia(sdp.audio) /\ RtpMaps(sdp.audio, "opus") # {}
       /\ ReceivesMedia(sdp.video)

ASSUME PathAssumption ==
  /\ \A offer \in StreamOffers \cup ViewerOffers \cup PlainOffers : WellFormed(offer)
  /\ \A offer \in PlainOffers : Plain(offer)
  /\ Resolver = SDPResolver(<<Low("sha-256"), Resolver.fingerprint.hash>>,
                            Resolver.candidate.ip, Resolver.candidate.port)
  /\ IsIp(Resolver.candidate.ip)

VARIABLES
  stream_offer, streamer,  \* the streamer's offer, its session or None
  viewer_offer, viewer,    \* the viewer's offer, its session or None
  packet,                  \* header of the packet the streamer sent last
  relayed,                 \* header of the packet sent to the viewer for it
  extracted                \* the packet was given to the thumbnail extractor

path_vars == <<stream_offer, streamer, viewer_offer, viewer, packet, relayed, extracted>>

PathInit ==
  /\ stream_offer = None /\ streamer = None
  /\ viewer_offer = None /\ viewer = None
  /\ packet = None /\ relayed = None /\ extracted = FALSE

\* A rejected offer leaves nothing behind.
OfferStream ==
  /\ streamer = None
  /\ \E offer \in StreamOffers :
       /\ AcceptsStreamOffer(TextOf(offer))
       /\ stream_offer' = offer
       /\ streamer' = accept_stream_offer(Resolver, TextOf(offer), StreamerDraw)
  /\ UNCHANGED <<viewer_offer, viewer, packet, relayed, extracted>>

OfferView ==
  /\ streamer # None
  /\ viewer = None
  /\ \E offer \in ViewerOffers :
       /\ AcceptsViewerOffer(TextOf(offer), streamer)
       /\ viewer_offer' = offer
       /\ viewer' = accept_viewer_offer(Resolver, TextOf(offer), streamer, ViewerDraw)
  /\ UNCHANGED <<stream_offer, streamer, packet, relayed, extracted>>

------------------------------------------------------------------------------
\* The second byte of an RTP header: the marker and seven bits of payload type.

MarkerBit == 128

payload_type(byte) == byte % MarkerBit

marker_set(byte) == byte >= MarkerBit

get_mapped_session(byte, from, to) ==
  IF payload_type(byte) = from.audio_session.payload_number
    THEN to.audio_session ELSE to.video_session

\* Mutant of remap_rtp_header: the SSRC is that of the session the packet comes
\* from.
remap_rtp_header_same_ssrc(byte, from, to) ==
  LET media == get_mapped_session(byte, from, to) IN
  [byte |-> (media.payload_number + IF marker_set(byte) THEN MarkerBit ELSE 0) % 256,
   ssrc |-> get_mapped_session(byte, from, from).host_ssrc]

\* remap_rtp_header.  The payload number is cast to u8, and combining it with
\* the marker by exclusive or is adding 128 modulo 256.
remap_rtp_header(byte, from, to) ==
  LET media == get_mapped_session(byte, from, to) IN
  [byte |-> (media.payload_number + IF marker_set(byte) THEN MarkerBit ELSE 0) % 256,
   ssrc |-> media.host_ssrc]

\* Mutant of is_video_packet: the marker is not masked.
is_video_packet_unmasked(byte) == byte = streamer.video_session.payload_number % 256

is_video_packet(byte) == payload_type(byte) = streamer.video_session.payload_number % 256

\* The numbers the answer allows the streamer to use.
AgreedNumbers ==
  {streamer.audio_session.payload_number, streamer.video_session.payload_number}

Relay ==
  /\ viewer # None
  /\ \E number \in AgreedNumbers, marker \in {0, MarkerBit} :
       /\ packet' = [byte |-> number + marker]
       /\ extracted' = is_video_packet(number + marker)
       /\ relayed' = remap_rtp_header(number + marker, streamer, viewer)
  /\ UNCHANGED <<stream_offer, streamer, viewer_offer, viewer>>

PathNext == OfferStream \/ OfferView \/ Relay

PathSpec == PathInit /\ [][PathNext]_path_vars

------------------------------------------------------------------------------
\* Properties.  They look at the text of the offers and answers, not at the
\* sessions.

\* The attributes of a section of text that start with a payload number: the
\* codecs and the capabilities it gives that number, as a peer reads them.
Attributes(section, key, number) ==
  {section[i].words : i \in {j \in DOMAIN section :
     section[j].key = key /\ section[j].words[1] = Num(number)}}

CodecsOf(section, number) == {words[2].text : words \in Attributes(section, "rtpmap", number)}

CapabilitiesOf(section, number) ==
  {Members(words[2].parts) : words \in Attributes(section, "fmtp", number)}

\* A packet means to the viewer what it meant to the streamer: the payload
\* number it arrives with names, in the viewer's own offer, the codec that the
\* number it was sent with names in the streamer's offer, for video with the
\* same capabilities, and the marker is kept.
MeaningKept ==
  relayed # None =>
    LET sent     == payload_type(packet.byte)
        received == payload_type(relayed.byte)
        Same(from, to) ==
          /\ CodecsOf(from, sent) # {}
          /\ CodecsOf(from, sent) = CodecsOf(to, received)
    IN /\ marker_set(relayed.byte) <=> marker_set(packet.byte)
       /\ \/ Same(stream_offer.audio, viewer_offer.audio)
          \/ /\ Same(stream_offer.video, viewer_offer.video)
             /\ CapabilitiesOf(stream_offer.video, sent)
                  = CapabilitiesOf(viewer_offer.video, received)

\* The packet carries the SSRC that the viewer's answer gives for the media
\* section whose payload number it carries, so that the viewer can tell audio
\* from video.
SsrcAdvertised ==
  relayed # None =>
    \E media \in Sections :
      LET section == viewer.sdp_answer[media] IN
      /\ First(section, "m").formats = <<payload_type(relayed.byte)>>
      /\ First(section, "ssrc").ssrc = relayed.ssrc

\* An answer fits the offer: it repeats the media ids in the order of the
\* offer's sections, takes the other direction and picks for each section a
\* payload number and codec of that section.
Fits(offer, answer, direction, other) ==
  \A media \in Sections :
    LET map == First(answer[media], "rtpmap") IN
    /\ \E i \in DOMAIN offer[media] :
         /\ offer[media][i].key = "mid"
         /\ offer[media][i].words = <<First(answer[media], "mid").value>>
    /\ PrintCodec(map.codec).text \in CodecsOf(offer[media], map.payload_number)
    /\ \E i \in DOMAIN offer[media] : offer[media][i].key = direction
    /\ Has(answer[media], other)

AnswersFit ==
  /\ streamer # None => Fits(stream_offer, streamer.sdp_answer, "sendonly", "recvonly")
  /\ viewer # None => Fits(viewer_offer, viewer.sdp_answer, "recvonly", "sendonly")

\* An answer can be written out, and reads back as what was meant: String::from
\* finds nothing it panics on, and get_sdp accepts the text and finds in it the
\* same lines in the same sections.  Only ice-lite, which the parser does not
\* know, is read as an unrecognized attribute.
AsRead(section) ==
  [i \in DOMAIN section |-> IF section[i].kind = "ice-lite" THEN Unrecognized ELSE section[i]]

AnswersReadable ==
  \A session \in {streamer, viewer} \ {None} :
    LET answer == session.sdp_answer
        lines  == ParseLines(PrintSdp(answer))
    IN /\ \A media \in {"session", "audio", "video"} :
            \A i \in DOMAIN answer[media] : Printable(answer[media][i])
       /\ IsSdp(lines)
       /\ get_sdp(lines) = [session |-> AsRead(answer.session), audio |-> AsRead(answer.audio),
                            video |-> AsRead(answer.video)]

\* No capable viewer is turned away: if a viewer's offer fits otherwise and gives
\* some payload number, at any place, the codec and exactly the capabilities that
\* the streamer's offer gives its number, in any order, it is accepted.
CapableViewersAccepted ==
  (streamer # None /\ viewer = None) =>
    LET sent == streamer.video_session.payload_number IN
    \A offer \in PlainOffers :
      (\E number \in 0..127 :
         /\ CodecsOf(offer.video, number) = {H264.text}
         /\ CapabilitiesOf(offer.video, number) = CapabilitiesOf(stream_offer.video, sent))
      => AcceptsViewerOffer(TextOf(offer), streamer)

\* The thumbnail extractor, which decodes H.264, is given the packets whose
\* payload number is an H.264 one in the streamer's offer, and no others.
OnlyVideoExtracted ==
  relayed # None =>
    (extracted <=> H264.text \in CodecsOf(stream_offer.video, payload_type(packet.byte)))

\* If both media sections of an accepted offer carry an ICE password it is the
\* same one: media-level credentials match across the streams.
PasswordsOf(section) ==
  {section[i].words : i \in {j \in DOMAIN section : section[j].key = "ice-pwd"}}

MediaPasswordsMatch ==
  \A offer \in {stream_offer, viewer_offer} \ {None} :
    (PasswordsOf(offer.audio) # {} /\ PasswordsOf(offer.video) # {})
      => PasswordsOf(offer.audio) = PasswordsOf(offer.video)

==============================================================================
