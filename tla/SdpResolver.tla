----------------------------- MODULE SdpResolver -----------------------------
(***************************************************************************)
(* The SDP resolver (crates/sdp/src/resolvers.rs): from an offer to the     *)
(* negotiated session and its answer.                                       *)
(*                                                                          *)
(* The callers drop the error (main.rs: .ok()), so for each method that     *)
(* returns a Result there is a predicate that says when it is Ok and an     *)
(* operator for its value then.  The remote_ssrc of a media session, which  *)
(* the server never reads, is left out.                                     *)
(***************************************************************************)
EXTENDS SdpLines

\* iter().find_map and filter_map over the lines of a section.
Places(section, kind) == {i \in DOMAIN section : section[i].kind = kind}

FirstAt(section, places) == section[CHOOSE i \in places : \A j \in places : i <= j]

Has(section, kind) == Places(section, kind) # {}

First(section, kind) == FirstAt(section, Places(section, kind))

------------------------------------------------------------------------------
\* get_sdp: session lines, then the audio lines, then the video lines.

ParseLines(text) == [i \in DOMAIN text |-> ParseLine(text[i])]

IsSdp(lines) ==
  /\ ~ Has(lines, "malformed")
  /\ Len(lines) >= 4
  /\ \A i \in 1..4 : lines[i].kind = <<"v", "o", "s", "t">>[i]
  /\ lines[1].value = <<Num(0)>>
  /\ \E a, v \in DOMAIN lines :
       /\ Places(lines, "m") = {a, v} /\ a < v
       /\ lines[a].media_type = "audio" /\ lines[v].media_type = "video"

\* The place where the section of a media type starts.
SectionStart(lines, media_type) ==
  CHOOSE i \in DOMAIN lines : lines[i].kind = "m" /\ lines[i].media_type = media_type

get_sdp(lines) ==
  LET a == SectionStart(lines, "audio")
      v == SectionStart(lines, "video")
  IN [session |-> SubSeq(lines, 1, a - 1),
      audio   |-> SubSeq(lines, a, v - 1),
      video   |-> SubSeq(lines, v, Len(lines))]

------------------------------------------------------------------------------
\* get_ice_credentials: media-level credentials, if a media section has a user
\* name, else session-level ones.  The host's half is drawn by the caller.

HasMediaUsername(sdp) == Has(sdp.audio, "ice-ufrag") \/ Has(sdp.video, "ice-ufrag")

HasCredentials(sdp) ==
  IF HasMediaUsername(sdp)
    THEN \A kind \in {"ice-ufrag", "ice-pwd"} :
           /\ Has(sdp.audio, kind) /\ Has(sdp.video, kind)
           /\ First(sdp.audio, kind).value = First(sdp.video, kind).value
    ELSE Has(sdp.session, "ice-ufrag") /\ Has(sdp.session, "ice-pwd")

get_ice_credentials(sdp, host) ==
  LET section == IF HasMediaUsername(sdp) THEN sdp.audio ELSE sdp.session IN
  [host_username   |-> host.username,
   host_password   |-> host.password,
   remote_username |-> First(section, "ice-ufrag").value,
   remote_password |-> First(section, "ice-pwd").value]

------------------------------------------------------------------------------
\* get_media_ids: the BUNDLE group names the audio and then the video section.

Bundles(section) == {i \in Places(section, "group") : section[i].semantics = "bundle"}

get_media_ids(sdp) == FirstAt(sdp.session, Bundles(sdp.session)).ids

HasMediaIds(sdp) ==
  /\ Bundles(sdp.session) # {}
  /\ LET ids == get_media_ids(sdp) IN
       /\ Len(ids) >= 2
       /\ Has(sdp.audio, "mid") /\ First(sdp.audio, "mid").value = ids[1]
       /\ Has(sdp.video, "mid") /\ First(sdp.video, "mid").value = ids[2]

------------------------------------------------------------------------------
\* Codecs.

RtpMaps(section, codec) == {i \in Places(section, "rtpmap") : section[i].codec = codec}

PayloadNumber(section, codec) == FirstAt(section, RtpMaps(section, codec)).payload_number

PayloadNumbers(section, codec) == {section[i].payload_number : i \in RtpMaps(section, codec)}

\* The remote peer must not want to be the DTLS server: the host is.
TakesDtlsClient(section) == Has(section, "setup") /\ First(section, "setup").value # "passive"

\* Mutant of SendsCodec: the direction is not looked at.
SendsCodecAnyDirection(section, codec) ==
  Has(section, "rtcp-mux") /\ RtpMaps(section, codec) # {}

\* get_streamer_audio_session and the part get_streamer_video_session shares.
SendsCodec(section, codec) ==
  /\ Has(section, "rtcp-mux")
  /\ Has(section, "sendonly")
  /\ RtpMaps(section, codec) # {}

get_streamer_audio_session(section, ssrc) ==
  [codec          |-> "opus",
   payload_number |-> PayloadNumber(section, "opus"),
   host_ssrc      |-> ssrc]

\* The capabilities the streamer states for its first H264 payload number.
StreamerFmtps(section) ==
  {i \in Places(section, "fmtp") : section[i].payload_number = PayloadNumber(section, "h264")}

get_streamer_video_session(section, ssrc) ==
  [codec          |-> "h264",
   payload_number |-> PayloadNumber(section, "h264"),
   capabilities   |-> FirstAt(section, StreamerFmtps(section)).capabilities,
   host_ssrc      |-> ssrc]

\* What get_viewer_audio_session and get_viewer_video_session share.
ReceivesMedia(section) ==
  /\ Has(section, "rtcp-mux")
  /\ TakesDtlsClient(section)
  /\ Has(section, "recvonly")

get_viewer_audio_session(section, streamer, ssrc) ==
  [codec          |-> streamer.codec,
   payload_number |-> PayloadNumber(section, streamer.codec),
   host_ssrc      |-> ssrc]

\* Mutants of ViewerFmtps: only the first payload number of the codec is looked
\* at; the payload numbers of other codecs are not filtered out.
ViewerFmtpsFirst(section, streamer) ==
  {i \in Places(section, "fmtp") :
     /\ RtpMaps(section, streamer.codec) # {}
     /\ section[i].payload_number = PayloadNumber(section, streamer.codec)
     /\ section[i].capabilities = streamer.capabilities}

ViewerFmtpsUnfiltered(section, streamer) ==
  {i \in Places(section, "fmtp") : section[i].capabilities = streamer.capabilities}

\* The viewer's payload numbers for the streamer's codec that have exactly the
\* streamer's capabilities.
ViewerFmtps(section, streamer) ==
  {i \in Places(section, "fmtp") :
     /\ section[i].payload_number \in PayloadNumbers(section, streamer.codec)
     /\ section[i].capabilities = streamer.capabilities}

get_viewer_video_session(section, streamer, ssrc) ==
  [codec          |-> streamer.codec,
   payload_number |-> FirstAt(section, ViewerFmtps(section, streamer)).payload_number,
   capabilities   |-> streamer.capabilities,
   host_ssrc      |-> ssrc]

------------------------------------------------------------------------------
\* Answers.  A resolver has the server's fingerprint and its only candidate.

Priority == 2015363327

SDPResolver(fingerprint, ip, port) ==
  [fingerprint |-> ParseFingerprint(fingerprint),
   candidate   |-> [kind |-> "candidate", foundation |-> Num(1), component_id |-> 1,
                    priority |-> Priority, ip |-> ip, port |-> port]]

HOST_CNAME == "SMID"

SessionSection(resolver, ids, credentials) ==
  <<[kind |-> "v", value |-> <<Num(0)>>],
    [kind |-> "o", username |-> Low(HOST_CNAME), session |-> <<Low("3767197920"), Num(0)>>,
     ip |-> resolver.candidate.ip],
    [kind |-> "s", value |-> <<Low(HOST_CNAME)>>],
    [kind |-> "t", start_time |-> 0, end_time |-> 0],
    [kind |-> "group", semantics |-> "bundle", ids |-> <<ids[1], ids[2]>>],
    [kind |-> "ice-ufrag", value |-> credentials.host_username],
    [kind |-> "ice-pwd", value |-> credentials.host_password],
    [kind |-> "ice-options", options |-> <<"ice2">>],
    [kind |-> "ice-lite"],
    resolver.fingerprint,
    [kind |-> "setup", value |-> "passive"]>>

\* The lines both media sections start with, and those that name the codec.
MediaStart(resolver, media_type, id, direction, media) ==
  <<[kind |-> "m", media_type |-> media_type, transport_port |-> resolver.candidate.port,
     formats |-> <<media.payload_number>>],
    [kind |-> "c", ip |-> resolver.candidate.ip],
    [kind |-> direction],
    [kind |-> "rtcp-mux"],
    [kind |-> "mid", value |-> id]>>

MediaCodec(media) ==
  <<[kind |-> "rtpmap", payload_number |-> media.payload_number, codec |-> media.codec],
    [kind |-> "ssrc", ssrc |-> media.host_ssrc, source |-> HOST_CNAME]>>

Answer(resolver, ids, credentials, audio, video, direction) ==
  [session |-> SessionSection(resolver, ids, credentials),
   audio   |-> MediaStart(resolver, "audio", ids[1], direction, audio)
                 \o <<resolver.candidate, [kind |-> "end-of-candidates"]>> \o MediaCodec(audio),
   video   |-> MediaStart(resolver, "video", ids[2], direction, video) \o MediaCodec(video)
                 \o <<[kind |-> "fmtp", payload_number |-> video.payload_number,
                       capabilities |-> video.capabilities]>>]

\* Mutant of PrintSdp: the sections are written in the order they are printed.
PrintSdpVideoFirst(sdp) ==
  LET lines == sdp.session \o sdp.video \o sdp.audio IN
  [i \in DOMAIN lines |-> PrintLine(lines[i])]

\* String::from for an SDP.
PrintSdp(sdp) ==
  LET lines == sdp.session \o sdp.audio \o sdp.video IN
  [i \in DOMAIN lines |-> PrintLine(lines[i])]

\* What the callers draw at random.
Draw(host, audio_ssrc, video_ssrc) == [host |-> host, audio |-> audio_ssrc, video |-> video_ssrc]

Negotiated(resolver, sdp, draw, audio, video, direction) ==
  LET credentials == get_ice_credentials(sdp, draw.host) IN
  [ice_credentials |-> credentials,
   audio_session   |-> audio,
   video_session   |-> video,
   sdp_answer      |->
     Answer(resolver, get_media_ids(sdp), credentials, audio, video, direction)]

AcceptsStreamOffer(text) ==
  /\ IsSdp(ParseLines(text))
  /\ LET sdp == get_sdp(ParseLines(text)) IN
       /\ HasMediaIds(sdp)
       /\ HasCredentials(sdp)
       /\ SendsCodec(sdp.audio, "opus")
       /\ SendsCodec(sdp.video, "h264")
       /\ StreamerFmtps(sdp.video) # {}
       /\ TakesDtlsClient(sdp.session)

accept_stream_offer(resolver, text, draw) ==
  LET sdp == get_sdp(ParseLines(text)) IN
  Negotiated(resolver, sdp, draw, get_streamer_audio_session(sdp.audio, draw.audio),
             get_streamer_video_session(sdp.video, draw.video), "recvonly")

AcceptsViewerOffer(text, streamer) ==
  /\ IsSdp(ParseLines(text))
  /\ LET sdp == get_sdp(ParseLines(text)) IN
       /\ HasCredentials(sdp)
       /\ HasMediaIds(sdp)
       /\ ReceivesMedia(sdp.audio)
       /\ RtpMaps(sdp.audio, streamer.audio_session.codec) # {}
       /\ ReceivesMedia(sdp.video)
       /\ ViewerFmtps(sdp.video, streamer.video_session) # {}

accept_viewer_offer(resolver, text, streamer, draw) ==
  LET sdp == get_sdp(ParseLines(text)) IN
  Negotiated(resolver, sdp, draw,
             get_viewer_audio_session(sdp.audio, streamer.audio_session, draw.audio),
             get_viewer_video_session(sdp.video, streamer.video_session, draw.video),
             "sendonly")

==============================================================================
