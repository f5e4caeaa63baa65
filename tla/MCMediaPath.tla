----------------------------- MODULE MCMediaPath -----------------------------
\* Small instances of MediaPath: offers that differ in their codecs, and
\* offers that differ in everything else the resolver looks at.
EXTENDS MediaPath

Flag(key) == Text("a", key, <<>>)
Value(key, value) == Text("a", key, <<Low(value)>>)
Group(semantics, ids) == Text("a", "group", <<Cap(semantics)>> \o ids)
RtpMap(number, codec) == Text("a", "rtpmap", <<Num(number), codec>>)
Fmtp(number, capabilities) == Text("a", "fmtp", <<Num(number), Joined(capabilities)>>)

Credentials(password) == <<Value("ice-ufrag", "name"), Value("ice-pwd", password)>>

Header ==
  <<Text("v", "", <<Num(0)>>),
    Text("o", "", <<Low("-"), Num(7), Num(2), Cap("in"), Cap("ip4"), Ip(4, "local")>>),
    Text("s", "", <<Low("-")>>),
    Text("t", "", <<Num(0), Num(0)>>)>>
Ids(first, second) == <<Num(first), Num(second)>>
Bundle == <<Group("ls", Ids(1, 0)), Group("bundle", Ids(0, 1))>>

\* Lines the resolver does not look at, but the parser reads.
Extras ==
  <<Flag("extmap-allow-mixed"), Text("a", "fingerprint", <<Low("sha-256"), Low("hash")>>),
    Text("a", "ice-options", <<Low("trickle"), Low("renomination")>>), Text("b", "", <<Num(9)>>)>>

MediaExtras ==
  <<Text("c", "", <<Cap("in"), Cap("ip4"), Ip(4, "any")>>),
    Text("a", "candidate", <<Num(5), Num(1), Cap("udp"), Num(9), Ip(6, "peer"), Num(50000),
                             Low("typ"), Low("host")>>),
    Text("a", "ssrc", <<Num(77), Pair("cname", "peer")>>),
    Text("a", "ssrc", <<Num(77), Pair("msid", "-")>>), Flag("end-of-candidates")>>

\* Lines that do not parse, one for each parser that can fail on text a peer may
\* write for another server.
Foreign ==
  {Text("", "", <<>>),
   Text("a", "mid", <<>>),
   Text("a", "setup", <<Low("holdconn")>>),
   Text("a", "group", <<Cap("dup"), Num(0), Num(1)>>),
   Text("a", "rtpmap", <<Num(0)>>),
   Text("a", "fmtp", <<Low("x"), Low("y")>>),
   Text("a", "ssrc", <<Num(1)>>),
   Text("a", "candidate", <<Num(5), Num(1), Low("udp"), Num(9), Ip(4, "peer"), Num(5)>>),
   Text("a", "fingerprint", <<Low("sha-256")>>),
   Text("a", "ice-options", <<>>),
   Text("c", "", <<Cap("in"), Cap("ip6"), Ip(4, "any")>>),
   Text("m", "", <<Low("application"), Num(9), Cap("udp/dtls/sctp"), Low("webrtc-datachannel")>>),
   Text("o", "", <<Low("-")>>), Text("t", "", <<Num(0)>>)}

Session(start, groups, setup, credentials) ==
  start \o groups \o Extras \o <<Value("setup", setup)>> \o credentials

Media(type, id, setup, attributes, credentials, codecs) ==
  <<Text("m", "", <<Low(type), Num(9), Profile, Num(96), Num(97)>>),
    Text("a", "mid", <<Num(id)>>), Value("setup", setup)>>
    \o [i \in DOMAIN attributes |-> Flag(attributes[i])]
    \o MediaExtras \o credentials \o codecs

Audio(codecs, direction) == Media("audio", 0, "actpass", <<direction, "rtcp-mux">>, <<>>, codecs)
Video(codecs, direction) == Media("video", 1, "actpass", <<direction, "rtcp-mux">>, <<>>, codecs)

BaseSession == Session(Header, Bundle, "actpass", Credentials("p1"))

------------------------------------------------------------------------------
\* Codecs: each payload number has a codec and a list of capabilities.  Peers
\* write codecs in either case, and capabilities in any order.

Vp8 == Cap("vp8/90000")

Codecs(numbers, choice) ==
  LET n == Len(numbers)
      Fmtps == SelectSeq([i \in 1..n |-> Fmtp(numbers[i], choice[i][2])],
                         LAMBDA line : line.words[2].parts # <<>>)
  IN [i \in 1..n |-> RtpMap(numbers[i], choice[i][1])] \o Fmtps

VideoCodecs(numbers, codecs, capabilities) ==
  {Codecs(numbers, choice) : choice \in [1..Len(numbers) -> codecs \X capabilities]}

OpusFirst(number) == <<RtpMap(number, Opus), RtpMap(number + 1, Cap("pcmu/8000"))>>
OpusLast(number) == <<RtpMap(number + 1, Low("opus/48000")), RtpMap(number, Cap(Opus.text))>>

CodecOffers(direction, audio, videos) ==
  {[session |-> BaseSession, audio |-> Audio(a, direction), video |-> Video(v, direction)] :
     a \in {OpusFirst(audio), OpusLast(audio)}, v \in videos}

------------------------------------------------------------------------------
\* Everything else, with codecs that fit.

OneVideo(number) == <<RtpMap(number, Cap(H264.text)), Fmtp(number, <<"a">>)>>

Sessions ==
  {Session(start, groups, setup, Credentials("p1")) :
     start \in {Header, Tail(Header), <<Text("v", "", <<Num(1)>>)>> \o Tail(Header)},
     groups \in {Bundle, <<Group("bundle", Ids(1, 0))>>, <<Group("bundle", <<Num(0)>>)>>, <<>>},
     setup \in {"actpass", "active", "passive"}}
  \cup
  {Session(Header \o <<line>>, Bundle, "actpass", Credentials("p1")) : line \in Foreign}

AttributeLists(direction) ==
  {<<"rtcp-mux", direction>>, <<direction>>, <<"rtcp-mux">>}

OtherOffers(direction, audio, video) ==
  {[session |-> s, audio |-> Audio(OpusFirst(audio), direction),
    video |-> Video(OneVideo(video), direction)] : s \in Sessions}
  \cup
  {[session |-> BaseSession,
    audio |-> Media("audio", 0, setup, attributes, <<>>, OpusFirst(audio)),
    video |-> Media(type, 1, "actpass", attributes, <<>>, OneVideo(video))] :
     setup \in {"active", "passive"}, type \in {"audio", "video"},
     attributes \in AttributeLists(direction)}
  \cup
  {[session |-> Session(Header, Bundle, "active", s),
    audio |-> Media("audio", 0, "active", <<"rtcp-mux", direction>>, a, OpusFirst(audio)),
    video |-> Media("video", 1, "active", <<"rtcp-mux", direction>>, v, OneVideo(video))] :
     s \in {<<>>, Credentials("p1")},
     a \in {<<>>, Credentials("p1"), <<Value("ice-pwd", "p1")>>},
     v \in {<<>>, Credentials("p1"), Credentials("p2"), <<Value("ice-pwd", "p2")>>}}

MCStreamOffers ==
  CodecOffers("sendonly", 111,
    VideoCodecs(<<96, 97>>, {Cap(H264.text), Vp8}, {<<"a">>, <<"a", "b">>, <<>>}))
    \cup OtherOffers("sendonly", 111, 96)

\* The viewer uses the streamer's numbers for other things.
MCPlainOffers ==
  CodecOffers("recvonly", 96,
    VideoCodecs(<<111, 100, 127>>, {H264, Vp8}, {<<"a">>, <<"b", "a">>, <<>>}))

MCViewerOffers == MCPlainOffers \cup OtherOffers("recvonly", 96, 111)

MCResolver == SDPResolver(<<Low("sha-256"), Low("hash")>>, Ip(6, "server"), 52000)

Host(name) == [username |-> Low(name), password |-> Cap(name)]
MCStreamerDraw == Draw(Host("s"), 1, 2)
MCViewerDraw == Draw(Host("v"), 3, 4)

==============================================================================
