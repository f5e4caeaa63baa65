--------------------------- MODULE MediaPathProofs ---------------------------
(***************************************************************************)
(* The media path, for all offers that are well formed, however many lines  *)
(* and payload numbers they have.                                           *)
(***************************************************************************)
EXTENDS MediaPath, SdpLinesProofs, InductionLemmas

------------------------------------------------------------------------------
\* Lines.

\* The words of a line about a payload number.
LEMMA PayloadWords ==
  ASSUME NEW S, MediaFormed(S), NEW key \in {"rtpmap", "fmtp"}, NEW i \in Payloads(S, key)
  PROVE  /\ i \in DOMAIN S /\ i \in Nat
         /\ S[i].key = key /\ S[i].type = "a"
         /\ S[i].words \in Seq(Word) /\ Len(S[i].words) = 2
         /\ NumberAt(S, i) \in 0..127
         /\ S[i].words[1] = Num(NumberAt(S, i)) /\ IsNum(S[i].words[1])
         /\ S[i].words[2] \in Word /\ Tail(S[i].words) = <<S[i].words[2]>>
         /\ ParseLine(S[i]) = ParseAttribute(key, S[i].words)
<1>1. i \in DOMAIN S /\ S[i].key = key /\ S \in Seq(Line)
  BY Zenon DEF Payloads, MediaFormed
<1>2. S[i] \in Line /\ i \in Nat
  BY <1>1
<1>3. S[i].words \in Seq(Word) /\ Len(S[i].words) = 2 /\ S[i].words[1] \in [number : 0..127]
  BY <1>2, Zenon DEF MediaFormed, Line
<1>4. S[i].type = "a"
  BY <1>1, Zenon DEF MediaFormed
<1>5. ParseLine(S[i]) = ParseAttribute(key, S[i].words)
  BY <1>1, <1>4, LineKind
<1>6. \A w \in [number : 0..127] : w.number \in 0..127 /\ w = Num(w.number)
  BY DEF Num
<1>7. \A n : IsNum(Num(n))
  BY DEF IsNum, Num
<1>8. S[i].words[2] \in Word /\ Tail(S[i].words) = <<S[i].words[2]>>
  BY ONLY <1>3, TailOfTwo
<1> QED
  BY <1>1, <1>2, <1>3, <1>4, <1>5, <1>6, <1>7, <1>8 DEF NumberAt

LEMMA CodecLine ==
  ASSUME NEW S, MediaFormed(S), NEW i \in Payloads(S, "rtpmap")
  PROVE  /\ ParseLine(S[i]).kind = "rtpmap"
         /\ ParseLine(S[i]).payload_number = NumberAt(S, i)
         /\ \A codec \in {"h264", "opus"} :
              ParseLine(S[i]).codec = codec <=> S[i].words[2].text = PrintCodec(codec).text
<1>1. IsText(S[i].words[2]) /\ S[i].words[2] \in Word
  BY PayloadWords, Zenon DEF MediaFormed
<1>2. ParseLine(S[i]) = ParseRtpMap(S[i].words)
  BY PayloadWords DEF ParseAttribute, Flags
<1>3. ParseLine(S[i]) = [kind |-> "rtpmap", payload_number |-> S[i].words[1].number,
                         codec |-> CodecOf(<<S[i].words[2]>>)]
  <2>1. /\ Len(S[i].words) >= 2 /\ IsNum(S[i].words[1])
        /\ Tail(S[i].words) = <<S[i].words[2]>>
    BY PayloadWords
  <2> QED
    BY ONLY <1>2, <2>1, Zenon DEF ParseRtpMap
<1> QED
  BY <1>1, <1>3, CodecRead DEF NumberAt

LEMMA FmtpLine ==
  ASSUME NEW S, MediaFormed(S), NEW i \in Payloads(S, "fmtp")
  PROVE  /\ ParseLine(S[i]).kind = "fmtp"
         /\ ParseLine(S[i]).payload_number = NumberAt(S, i)
         /\ ParseLine(S[i]).capabilities = Members(S[i].words[2].parts)
<1>1. IsJoined(S[i].words[2])
  BY Zenon DEF MediaFormed
<1>2. ParseLine(S[i]) = ParseFmtp(S[i].words)
  BY PayloadWords DEF ParseAttribute, Flags
<1>3. ParseLine(S[i]) = [kind |-> "fmtp", payload_number |-> S[i].words[1].number,
                         capabilities |-> Members(S[i].words[2].parts)]
  BY <1>1, <1>2, PayloadWords DEF ParseFmtp
<1> QED
  BY <1>3 DEF NumberAt

\* A payload number has the codec and the capabilities of its one line.
LEMMA NumberHas ==
  ASSUME NEW S, MediaFormed(S), NEW key \in {"rtpmap", "fmtp"}, NEW i \in Payloads(S, key)
  PROVE  Attributes(S, key, NumberAt(S, i)) = {S[i].words}
<1>1. \A j \in Payloads(S, key) : S[j].words[1] = Num(NumberAt(S, j))
  BY PayloadWords
<1>2. \A m, n : Num(m) = Num(n) => m = n
  BY DEF Num
<1>3. \A j \in Payloads(S, key) : S[j].words[1] = Num(NumberAt(S, i)) <=> j = i
  BY <1>1, <1>2, Zenon DEF MediaFormed
<1>4. {j \in DOMAIN S : S[j].key = key /\ S[j].words[1] = Num(NumberAt(S, i))} = {i}
  BY <1>3 DEF Payloads
<1> QED
  BY <1>4 DEF Attributes

LEMMA NumberMeans ==
  ASSUME NEW S, MediaFormed(S)
  PROVE  /\ \A i \in Payloads(S, "rtpmap") : CodecsOf(S, NumberAt(S, i)) = {S[i].words[2].text}
         /\ \A i \in Payloads(S, "fmtp") :
              CapabilitiesOf(S, NumberAt(S, i)) = {Members(S[i].words[2].parts)}
  BY NumberHas DEF CodecsOf, CapabilitiesOf

------------------------------------------------------------------------------
\* Sections.

\* Only the first line of a media section is a line for a medium.
Sectioned(x, y, z) ==
  /\ \A i \in DOMAIN x : x[i].kind # "m"
  /\ \A i \in DOMAIN y : y[i].kind = "m" => i = 1
  /\ \A i \in DOMAIN z : z[i].kind = "m" => i = 1

\* get_sdp finds the sections again.
LEMMA SectionsFound ==
  ASSUME NEW W, NEW x \in Seq(W), NEW y \in Seq(W), NEW z \in Seq(W), Sectioned(x, y, z),
         NEW t, t = x \o y \o z, IsSdp(t)
  PROVE  get_sdp(t) = [session |-> x, audio |-> y, video |-> z]
<1> DEFINE l == Len(x)
           m == Len(y)
           n == Len(z)
<1>1. l \in Nat /\ m \in Nat /\ n \in Nat
  OBVIOUS
<1>2. /\ t \in Seq(W) /\ Len(t) = l + m + n
      /\ \A i \in 1..l : t[i] = x[i]
      /\ \A i \in 1..m : t[l + i] = y[i]
      /\ \A i \in 1..n : t[l + m + i] = z[i]
  <2>1. Whole(W, t, x, y, z)
    BY Join
  <2> QED
    BY <2>1 DEF Whole
<1>3. DOMAIN t = 1..(l + m + n) /\ DOMAIN x = 1..l /\ DOMAIN y = 1..m /\ DOMAIN z = 1..n
  BY <1>2
<1>4. PICK a, v \in DOMAIN t :
        /\ Places(t, "m") = {a, v} /\ a < v
        /\ t[a].media_type = "audio" /\ t[v].media_type = "video"
  BY Zenon DEF IsSdp
<1> HIDE DEF l, m, n
<1>5. \A i \in Places(t, "m") : (i = l + 1 /\ m >= 1) \/ (i = l + m + 1 /\ n >= 1)
  <2> SUFFICES ASSUME NEW i \in Places(t, "m")
               PROVE  (i = l + 1 /\ m >= 1) \/ (i = l + m + 1 /\ n >= 1)
    OBVIOUS
  <2>1. i \in 1..(l + m + n) /\ t[i].kind = "m"
    BY <1>3, Zenon DEF Places
  <2>2. CASE i \in 1..l
    BY <1>2, <1>3, <2>1, <2>2, Zenon DEF Sectioned
  <2>3. ASSUME NEW j \in 1..m, i = l + j PROVE i = l + 1 /\ m >= 1
    <3>1. y[j].kind = "m"
      BY <1>2, <2>1, <2>3
    <3>2. j = 1
      BY <1>3, <3>1, Zenon DEF Sectioned
    <3> QED
      BY <1>1, <2>3, <3>2
  <2>4. ASSUME NEW j \in 1..n, i = l + m + j PROVE i = l + m + 1 /\ n >= 1
    <3>1. z[j].kind = "m"
      BY <1>2, <2>1, <2>4
    <3>2. j = 1
      BY <1>3, <3>1, Zenon DEF Sectioned
    <3> QED
      BY <1>1, <2>4, <3>2
  <2> QED
    BY ONLY <1>1, <2>1, <2>2, <2>3, <2>4, PlaceIn
<1>6. a = l + 1 /\ v = l + m + 1 /\ m >= 1 /\ n >= 1
  <2>1. /\ (a = l + 1 /\ m >= 1) \/ (a = l + m + 1 /\ n >= 1)
        /\ (v = l + 1 /\ m >= 1) \/ (v = l + m + 1 /\ n >= 1)
    BY <1>4, <1>5, Zenon
  <2> QED
    BY ONLY <1>1, <1>4, <2>1
<1>7. SectionStart(t, "audio") = a /\ SectionStart(t, "video") = v
  <2>1. \A i \in DOMAIN t : t[i].kind = "m" <=> i \in {a, v}
    BY <1>4 DEF Places
  <2>2. \A i \in DOMAIN t : /\ t[i].kind = "m" /\ t[i].media_type = "audio" <=> i = a
                            /\ t[i].kind = "m" /\ t[i].media_type = "video" <=> i = v
    BY <1>4, <2>1, Zenon
  <2> QED
    BY <2>2 DEF SectionStart
<1>8. SubSeq(t, 1, l) = x
  <2>1. 0 + l <= Len(t) /\ \A i \in 1..l : t[0 + i] = x[i]
    BY ONLY <1>1, <1>2
  <2>2. SubSeq(t, 0 + 1, 0 + l) = x
    BY ONLY <1>2, <2>1, 0 \in Nat, x \in Seq(W), Part DEF l
  <2> QED
    BY ONLY <1>1, <2>2
<1>9. SubSeq(t, l + 1, l + m) = y
  <2>1. l + m <= Len(t)
    BY ONLY <1>1, <1>2
  <2> QED
    BY ONLY <1>1, <1>2, <2>1, y \in Seq(W), Part DEF m
<1>10. SubSeq(t, l + m + 1, l + m + n) = z
  <2> DEFINE k == l + m
  <2>1. k \in Nat /\ k + n <= Len(t) /\ \A i \in 1..n : t[k + i] = z[i]
    BY ONLY <1>1, <1>2
  <2> HIDE DEF k
  <2>2. SubSeq(t, k + 1, k + n) = z
    BY ONLY <1>2, <2>1, z \in Seq(W), Part DEF n
  <2> QED
    BY <2>2, Zenon DEF k
<1>11. a - 1 = l /\ v - 1 = l + m /\ Len(t) = l + m + n
  <2>1. Len(t) = l + m + n
    BY ONLY <1>2, Zenon
  <2>2. a - 1 = l /\ v - 1 = l + m
    BY ONLY <1>1, <1>6
  <2> QED
    BY ONLY <2>1, <2>2, Zenon
<1> QED
  BY <1>6, <1>7, <1>8, <1>9, <1>10, <1>11, Zenon DEF get_sdp

\* The lines of an offer are those of its sections.
Parsed == {ParseLine(line) : line \in Line}

LEMMA OfferLines ==
  ASSUME NEW offer, WellFormed(offer)
  PROVE  /\ \A media \in {"session", "audio", "video"} :
              offer[media] \in Seq(Line) /\ ParseLines(offer[media]) \in Seq(Parsed)
         /\ ParseLines(TextOf(offer))
              = ParseLines(offer.session) \o ParseLines(offer.audio) \o ParseLines(offer.video)
<1>1. \A media \in {"session", "audio", "video"} : offer[media] \in Seq(Line)
  BY Zenon DEF WellFormed, MediaFormed, Sections
<1>2. ASSUME NEW s \in Seq(Line)
      PROVE  /\ ParseLines(s) \in Seq(Parsed) /\ Len(ParseLines(s)) = Len(s)
             /\ \A i \in 1..Len(s) : ParseLines(s)[i] = ParseLine(s[i])
  <2>1. DOMAIN s = 1..Len(s) /\ Len(s) \in Nat /\ \A i \in 1..Len(s) : s[i] \in Line
    BY <1>2
  <2>2. ParseLines(s) = [i \in 1..Len(s) |-> ParseLine(s[i])]
    BY <2>1 DEF ParseLines
  <2>3. \A i \in 1..Len(s) : ParseLine(s[i]) \in Parsed
    BY <2>1 DEF Parsed
  <2> HIDE DEF Parsed
  <2>4. ParseLines(s) \in [1..Len(s) -> Parsed]
    BY <2>2, <2>3
  <2> QED
    BY <2>1, <2>2, <2>4
<1> DEFINE x == offer.session
           y == offer.audio
           z == offer.video
           t == x \o y \o z
           p == ParseLines(t)
           q == ParseLines(x) \o ParseLines(y) \o ParseLines(z)
           l == Len(x)
           m == Len(y)
           n == Len(z)
<1>3. x \in Seq(Line) /\ y \in Seq(Line) /\ z \in Seq(Line)
  BY <1>1
<1>4. l \in Nat /\ m \in Nat /\ n \in Nat
  BY <1>3
<1>5. /\ t \in Seq(Line) /\ Len(t) = l + m + n
      /\ \A i \in 1..l : t[i] = x[i]
      /\ \A i \in 1..m : t[l + i] = y[i]
      /\ \A i \in 1..n : t[l + m + i] = z[i]
  <2>1. Whole(Line, t, x, y, z)
    BY ONLY <1>3, Join
  <2> QED
    BY <2>1, Zenon DEF Whole
<1>6. /\ ParseLines(x) \in Seq(Parsed) /\ Len(ParseLines(x)) = l
      /\ ParseLines(y) \in Seq(Parsed) /\ Len(ParseLines(y)) = m
      /\ ParseLines(z) \in Seq(Parsed) /\ Len(ParseLines(z)) = n
      /\ \A i \in 1..l : ParseLines(x)[i] = ParseLine(x[i])
      /\ \A i \in 1..m : ParseLines(y)[i] = ParseLine(y[i])
      /\ \A i \in 1..n : ParseLines(z)[i] = ParseLine(z[i])
  BY ONLY <1>2, <1>3
<1>7. /\ q \in Seq(Parsed) /\ Len(q) = l + m + n
      /\ \A i \in 1..l : q[i] = ParseLine(x[i])
      /\ \A i \in 1..m : q[l + i] = ParseLine(y[i])
      /\ \A i \in 1..n : q[l + m + i] = ParseLine(z[i])
  <2>1. /\ q \in Seq(Parsed) /\ Len(q) = l + m + n
        /\ \A i \in 1..l : q[i] = ParseLines(x)[i]
        /\ \A i \in 1..m : q[l + i] = ParseLines(y)[i]
        /\ \A i \in 1..n : q[l + m + i] = ParseLines(z)[i]
    <3>1. Whole(Parsed, q, ParseLines(x), ParseLines(y), ParseLines(z))
      BY ONLY <1>6, Join
    <3> QED
      BY ONLY <1>6, <3>1, Zenon DEF Whole
  <2> QED
    BY ONLY <1>6, <2>1, Zenon
<1>8. p \in Seq(Parsed) /\ Len(p) = l + m + n /\ \A i \in 1..(l + m + n) : p[i] = ParseLine(t[i])
  BY ONLY <1>2, <1>5, Zenon
<1> HIDE DEF p, q, t, l, m, n
<1>9. ASSUME NEW i \in 1..(l + m + n) PROVE p[i] = q[i]
  <2>1. p[i] = ParseLine(t[i])
    BY <1>8
  <2>2. \/ i \in 1..l
        \/ \E j \in 1..m : i = l + j
        \/ \E j \in 1..n : i = l + m + j
    BY ONLY <1>4, i \in 1..(l + m + n), PlaceIn
  <2> QED
    BY ONLY <1>5, <1>7, <2>1, <2>2
<1>10. p = q
  BY ONLY <1>7, <1>8, <1>9, SeqEqual
<1> QED
  BY <1>1, <1>2, <1>10 DEF p, q, t, TextOf

LEMMA OfferSections ==
  ASSUME NEW offer, WellFormed(offer), IsSdp(ParseLines(TextOf(offer)))
  PROVE  get_sdp(ParseLines(TextOf(offer)))
           = [session |-> ParseLines(offer.session), audio |-> ParseLines(offer.audio),
              video |-> ParseLines(offer.video)]
<1> DEFINE x == ParseLines(offer.session)
           y == ParseLines(offer.audio)
           z == ParseLines(offer.video)
           t == ParseLines(TextOf(offer))
<1>1. x \in Seq(Parsed) /\ y \in Seq(Parsed) /\ z \in Seq(Parsed) /\ t = x \o y \o z
  BY OfferLines
<1>2. Sectioned(x, y, z)
  <2>1. \A media \in {"session", "audio", "video"} : \A i \in DOMAIN offer[media] :
          ParseLine(offer[media][i]).kind = "m" => media # "session" /\ i = 1
    BY DEF WellFormed
  <2>2. \A text : DOMAIN ParseLines(text) = DOMAIN text /\ \A i \in DOMAIN text : ParseLines(text)[i] = ParseLine(text[i])
    BY DEF ParseLines
  <2> QED
    BY <2>1, <2>2 DEF Sectioned
<1>3. IsSdp(t)
  OBVIOUS
<1> HIDE DEF x, y, z, t
<1>4. get_sdp(t) = [session |-> x, audio |-> y, video |-> z]
  BY ONLY <1>1, <1>2, <1>3, SectionsFound, Zenon
<1> QED
  BY <1>4 DEF x, y, z, t

------------------------------------------------------------------------------
\* Negotiation.

\* find takes one of the lines there are.
LEMMA FirstIsOne ==
  ASSUME NEW section, NEW places \in SUBSET Nat, places # {}
  PROVE  \E i \in places : FirstAt(section, places) = section[i]
<1>1. \E i \in places : \A j \in places : i <= j
  BY LeastNat
<1> QED
  BY <1>1, Zenon DEF FirstAt

LEMMA ParsedPlaces ==
  ASSUME NEW T \in Seq(Line), NEW kind
  PROVE  /\ Places(ParseLines(T), kind) \in SUBSET Nat
         /\ \A i \in Places(ParseLines(T), kind) :
              /\ i \in DOMAIN T /\ ParseLines(T)[i] = ParseLine(T[i])
              /\ ParseLine(T[i]).kind = kind
<1>1. DOMAIN T \subseteq Nat
  OBVIOUS
<1> QED
  BY <1>1 DEF Places, ParseLines

\* The lines about payload numbers, as they were written and as they are read.
LEMMA PayloadPlaces ==
  ASSUME NEW T, MediaFormed(T), NEW kind \in {"rtpmap", "fmtp"}
  PROVE  Places(ParseLines(T), kind) = Payloads(T, kind)
<1>1. T \in Seq(Line)
  BY Zenon DEF MediaFormed
<1>2. ASSUME NEW i \in Places(ParseLines(T), kind) PROVE i \in Payloads(T, kind)
  <2>1. i \in DOMAIN T /\ ParseLine(T[i]).kind = kind
    BY <1>1, ParsedPlaces
  <2> QED
    BY <2>1, AttributeRead DEF Payloads, AttributeKinds
<1>3. ASSUME NEW i \in Payloads(T, kind) PROVE i \in Places(ParseLines(T), kind)
  <2>1. ParseLine(T[i]).kind = kind /\ i \in DOMAIN T
    BY CodecLine, FmtpLine DEF Payloads
  <2> QED
    BY <2>1 DEF Places, ParseLines
<1> QED
  BY <1>2, <1>3, Zenon

\* The payload number is one of the section's for its codec.
Carries(T, media) ==
  /\ media.payload_number \in 0..127
  /\ CodecsOf(T, media.payload_number) = {PrintCodec(media.codec).text}
  /\ \E i \in Payloads(T, "rtpmap") : NumberAt(T, i) = media.payload_number

LEMMA NumberCarries ==
  ASSUME NEW T, MediaFormed(T), NEW codec \in {"h264", "opus"},
         NEW i \in RtpMaps(ParseLines(T), codec),
         NEW media, media.codec = codec, media.payload_number = ParseLines(T)[i].payload_number
  PROVE  Carries(T, media)
<1>1. i \in Payloads(T, "rtpmap") /\ ParseLines(T)[i] = ParseLine(T[i])
  <2>1. i \in Places(ParseLines(T), "rtpmap") /\ T \in Seq(Line)
    BY Zenon DEF RtpMaps, MediaFormed
  <2> QED
    BY <2>1, PayloadPlaces, ParsedPlaces
<1>2. ParseLine(T[i]).codec = codec
  BY <1>1 DEF RtpMaps
<1>3. media.payload_number = NumberAt(T, i) /\ T[i].words[2].text = PrintCodec(codec).text
  BY <1>1, <1>2, CodecLine
<1>4. NumberAt(T, i) \in 0..127 /\ CodecsOf(T, NumberAt(T, i)) = {T[i].words[2].text}
  BY <1>1, PayloadWords, NumberMeans
<1> QED
  BY <1>1, <1>3, <1>4 DEF Carries

LEMMA FirstCarries ==
  ASSUME NEW T, MediaFormed(T), NEW codec \in {"h264", "opus"}, RtpMaps(ParseLines(T), codec) # {},
         NEW media, media.codec = codec, media.payload_number = PayloadNumber(ParseLines(T), codec)
  PROVE  Carries(T, media)
<1>1. RtpMaps(ParseLines(T), codec) \in SUBSET Nat
  <2>1. T \in Seq(Line)
    BY Zenon DEF MediaFormed
  <2> QED
    BY <2>1, ParsedPlaces DEF RtpMaps
<1>2. PICK i \in RtpMaps(ParseLines(T), codec) :
        FirstAt(ParseLines(T), RtpMaps(ParseLines(T), codec)) = ParseLines(T)[i]
  BY <1>1, FirstIsOne
<1>3. media.payload_number = ParseLines(T)[i].payload_number
  BY <1>2 DEF PayloadNumber
<1> QED
  BY <1>3, NumberCarries

\* The capabilities of a payload number are those of any line about it.
LEMMA CapabilitiesRead ==
  ASSUME NEW T, MediaFormed(T), NEW i \in Places(ParseLines(T), "fmtp")
  PROVE  CapabilitiesOf(T, ParseLines(T)[i].payload_number) = {ParseLines(T)[i].capabilities}
<1>1. i \in Payloads(T, "fmtp") /\ ParseLines(T)[i] = ParseLine(T[i])
  <2>1. T \in Seq(Line)
    BY Zenon DEF MediaFormed
  <2> QED
    BY <2>1, PayloadPlaces, ParsedPlaces
<1> QED
  BY <1>1, FmtpLine, NumberMeans

\* A session fits the offer it was negotiated for.
SessionFits(offer, session) ==
  /\ session.audio_session.codec = "opus" /\ Carries(offer.audio, session.audio_session)
  /\ session.video_session.codec = "h264" /\ Carries(offer.video, session.video_session)
  /\ CapabilitiesOf(offer.video, session.video_session.payload_number)
       = {session.video_session.capabilities}

LEMMA StreamerFits ==
  ASSUME NEW offer, WellFormed(offer), AcceptsStreamOffer(TextOf(offer)), NEW draw,
         NEW session, session = accept_stream_offer(Resolver, TextOf(offer), draw)
  PROVE  SessionFits(offer, session)
<1> DEFINE audio == ParseLines(offer.audio)
           video == ParseLines(offer.video)
<1>1. MediaFormed(offer.audio) /\ MediaFormed(offer.video)
  BY DEF WellFormed, Sections
<1>2. /\ RtpMaps(audio, "opus") # {} /\ RtpMaps(video, "h264") # {} /\ StreamerFmtps(video) # {}
      /\ session.audio_session = get_streamer_audio_session(audio, draw.audio)
      /\ session.video_session = get_streamer_video_session(video, draw.video)
  BY OfferSections DEF AcceptsStreamOffer, SendsCodec, accept_stream_offer, Negotiated
<1>3. /\ session.audio_session.codec = "opus"
      /\ session.audio_session.payload_number = PayloadNumber(audio, "opus")
      /\ session.video_session.codec = "h264"
      /\ session.video_session.payload_number = PayloadNumber(video, "h264")
      /\ session.video_session.capabilities = FirstAt(video, StreamerFmtps(video)).capabilities
  BY <1>2 DEF get_streamer_audio_session, get_streamer_video_session
<1>4. Carries(offer.audio, session.audio_session) /\ Carries(offer.video, session.video_session)
  BY <1>1, <1>2, <1>3, FirstCarries
<1>5. PICK i \in StreamerFmtps(video) : FirstAt(video, StreamerFmtps(video)) = video[i]
  <2>1. offer.video \in Seq(Line)
    BY <1>1, Zenon DEF MediaFormed
  <2>2. StreamerFmtps(video) \in SUBSET Nat
    BY <2>1, ParsedPlaces DEF StreamerFmtps
  <2> QED
    BY <1>2, <2>2, FirstIsOne, Zenon
<1>6. i \in Places(video, "fmtp") /\ video[i].payload_number = PayloadNumber(video, "h264")
  BY <1>5 DEF StreamerFmtps
<1>7. CapabilitiesOf(offer.video, video[i].payload_number) = {video[i].capabilities}
  BY <1>1, <1>6, CapabilitiesRead
<1> QED
  BY <1>3, <1>4, <1>5, <1>6, <1>7 DEF SessionFits

LEMMA ViewerFits ==
  ASSUME NEW offer, WellFormed(offer), NEW streamer_session,
         streamer_session.audio_session.codec = "opus",
         streamer_session.video_session.codec = "h264",
         AcceptsViewerOffer(TextOf(offer), streamer_session), NEW draw,
         NEW session, session = accept_viewer_offer(Resolver, TextOf(offer), streamer_session, draw)
  PROVE  /\ SessionFits(offer, session)
         /\ session.video_session.capabilities = streamer_session.video_session.capabilities
<1> DEFINE audio == ParseLines(offer.audio)
           video == ParseLines(offer.video)
           sent == streamer_session.video_session
<1>1. MediaFormed(offer.audio) /\ MediaFormed(offer.video)
  BY DEF WellFormed, Sections
<1>2. /\ RtpMaps(audio, "opus") # {} /\ ViewerFmtps(video, sent) # {}
      /\ session.audio_session
           = get_viewer_audio_session(audio, streamer_session.audio_session, draw.audio)
      /\ session.video_session = get_viewer_video_session(video, sent, draw.video)
  BY OfferSections DEF AcceptsViewerOffer, accept_viewer_offer, Negotiated
<1>3. /\ session.audio_session.codec = "opus"
      /\ session.audio_session.payload_number = PayloadNumber(audio, "opus")
      /\ session.video_session.codec = "h264"
      /\ session.video_session.payload_number
           = FirstAt(video, ViewerFmtps(video, sent)).payload_number
      /\ session.video_session.capabilities = sent.capabilities
  BY <1>2 DEF get_viewer_audio_session, get_viewer_video_session
<1>4. Carries(offer.audio, session.audio_session)
  BY <1>1, <1>2, <1>3, FirstCarries
<1>5. PICK i \in ViewerFmtps(video, sent) : FirstAt(video, ViewerFmtps(video, sent)) = video[i]
  <2>1. offer.video \in Seq(Line)
    BY <1>1, Zenon DEF MediaFormed
  <2>2. ViewerFmtps(video, sent) \in SUBSET Nat
    BY <2>1, ParsedPlaces DEF ViewerFmtps
  <2> QED
    BY <1>2, <2>2, FirstIsOne
<1>6. /\ i \in Places(video, "fmtp") /\ video[i].payload_number \in PayloadNumbers(video, "h264")
      /\ video[i].capabilities = sent.capabilities
  BY <1>5 DEF ViewerFmtps
<1>7. PICK j \in RtpMaps(video, "h264") : video[j].payload_number = video[i].payload_number
  BY <1>6 DEF PayloadNumbers
<1>8. Carries(offer.video, session.video_session)
  <2>1. session.video_session.payload_number = video[j].payload_number
    BY <1>3, <1>5, <1>7
  <2> QED
    BY <1>1, <1>3, <1>7, <2>1, NumberCarries
<1>9. CapabilitiesOf(offer.video, video[i].payload_number) = {video[i].capabilities}
  BY <1>1, <1>6, CapabilitiesRead
<1> QED
  BY <1>3, <1>4, <1>5, <1>6, <1>8, <1>9 DEF SessionFits

------------------------------------------------------------------------------
\* Answers.

LEMMA OnlyOne ==
  ASSUME NEW S, NEW kind, NEW i \in DOMAIN S, S[i].kind = kind,
         \A j \in DOMAIN S : S[j].kind = kind => j = i, i \in Nat
  PROVE  Has(S, kind) /\ First(S, kind) = S[i]
<1>1. Places(S, kind) = {i}
  BY DEF Places
<1>2. i <= i
  OBVIOUS
<1> QED
  BY <1>1, <1>2 DEF Has, First, FirstAt

\* The lines of the media sections, one by one.
LEMMA NineLines ==
  ASSUME NEW a, NEW b, NEW c, NEW d, NEW e, NEW f, NEW g, NEW h, NEW i
  PROVE  <<a, b, c, d, e>> \o <<f, g>> \o <<h, i>> = <<a, b, c, d, e, f, g, h, i>>
<1> DEFINE W == {a, b, c, d, e, f, g, h, i}
<1>0. a \in W /\ b \in W /\ c \in W /\ d \in W /\ e \in W /\ f \in W /\ g \in W /\ h \in W /\ i \in W
  OBVIOUS
<1> HIDE DEF W
<1> DEFINE x == <<a, b, c, d, e>>
           y == <<f, g>>
           z == <<h, i>>
           t == x \o y \o z
           u == <<a, b, c, d, e, f, g, h, i>>
<1>1. /\ x \in Seq(W) /\ Len(x) = 5
      /\ x[1] = a /\ x[2] = b /\ x[3] = c /\ x[4] = d /\ x[5] = e
  BY <1>0
<1>2. y \in Seq(W) /\ Len(y) = 2 /\ y[1] = f /\ y[2] = g
  BY <1>0
<1>3. z \in Seq(W) /\ Len(z) = 2 /\ z[1] = h /\ z[2] = i
  BY <1>0
<1>4. /\ u \in Seq(W) /\ Len(u) = 9
      /\ u[1] = a /\ u[2] = b /\ u[3] = c /\ u[4] = d /\ u[5] = e
      /\ u[6] = f /\ u[7] = g /\ u[8] = h /\ u[9] = i
  BY <1>0
<1> HIDE DEF x, y, z, u
<1>5. Whole(W, t, x, y, z)
  BY <1>1, <1>2, <1>3, Join
<1> HIDE DEF t
<1>6. /\ t \in Seq(W) /\ Len(t) = 9
      /\ \A k \in 1..5 : t[k] = x[k]
      /\ \A k \in 1..2 : t[5 + k] = y[k]
      /\ \A k \in 1..2 : t[5 + 2 + k] = z[k]
  BY ONLY <1>1, <1>2, <1>3, <1>5 DEF Whole
<1>7. /\ t[1] = a /\ t[2] = b /\ t[3] = c /\ t[4] = d /\ t[5] = e
      /\ t[5 + 1] = f /\ t[5 + 2] = g /\ t[5 + 2 + 1] = h /\ t[5 + 2 + 2] = i
  BY ONLY <1>1, <1>2, <1>3, <1>6
<1>8. ASSUME NEW k \in 1..Len(t) PROVE t[k] = u[k]
  BY ONLY <1>4, <1>6, <1>7, k \in 1..Len(t)
<1>9. t = u
  BY ONLY <1>4, <1>6, <1>8, SeqEqual
<1> QED
  BY <1>9 DEF t, u, x, y, z

LEMMA EightLines ==
  ASSUME NEW a, NEW b, NEW c, NEW d, NEW e, NEW f, NEW g, NEW h
  PROVE  <<a, b, c, d, e>> \o <<f, g>> \o <<h>> = <<a, b, c, d, e, f, g, h>>
<1> DEFINE W == {a, b, c, d, e, f, g, h}
<1>0. a \in W /\ b \in W /\ c \in W /\ d \in W /\ e \in W /\ f \in W /\ g \in W /\ h \in W
  OBVIOUS
<1> HIDE DEF W
<1> DEFINE x == <<a, b, c, d, e>>
           y == <<f, g>>
           z == <<h>>
           t == x \o y \o z
           u == <<a, b, c, d, e, f, g, h>>
<1>1. /\ x \in Seq(W) /\ Len(x) = 5
      /\ x[1] = a /\ x[2] = b /\ x[3] = c /\ x[4] = d /\ x[5] = e
  BY <1>0
<1>2. y \in Seq(W) /\ Len(y) = 2 /\ y[1] = f /\ y[2] = g
  BY <1>0
<1>3. z \in Seq(W) /\ Len(z) = 1 /\ z[1] = h
  BY <1>0
<1>4. /\ u \in Seq(W) /\ Len(u) = 8
      /\ u[1] = a /\ u[2] = b /\ u[3] = c /\ u[4] = d /\ u[5] = e
      /\ u[6] = f /\ u[7] = g /\ u[8] = h
  BY <1>0
<1> HIDE DEF x, y, z, u
<1>5. Whole(W, t, x, y, z)
  BY <1>1, <1>2, <1>3, Join
<1> HIDE DEF t
<1>6. /\ t \in Seq(W) /\ Len(t) = 8
      /\ \A k \in 1..5 : t[k] = x[k]
      /\ \A k \in 1..2 : t[5 + k] = y[k]
      /\ \A k \in 1..1 : t[5 + 2 + k] = z[k]
  BY ONLY <1>1, <1>2, <1>3, <1>5 DEF Whole
<1>7. /\ t[1] = a /\ t[2] = b /\ t[3] = c /\ t[4] = d /\ t[5] = e
      /\ t[5 + 1] = f /\ t[5 + 2] = g /\ t[5 + 2 + 1] = h
  BY ONLY <1>1, <1>2, <1>3, <1>6
<1>8. ASSUME NEW k \in 1..Len(t) PROVE t[k] = u[k]
  BY ONLY <1>4, <1>6, <1>7, k \in 1..Len(t)
<1>9. t = u
  BY ONLY <1>4, <1>6, <1>8, SeqEqual
<1> QED
  BY <1>9 DEF t, u, x, y, z

\* The media sections of an answer.
AudioLines(resolver, id, audio, direction) ==
  <<[kind |-> "m", media_type |-> "audio", transport_port |-> resolver.candidate.port,
     formats |-> <<audio.payload_number>>],
    [kind |-> "c", ip |-> resolver.candidate.ip],
    [kind |-> direction],
    [kind |-> "rtcp-mux"],
    [kind |-> "mid", value |-> id],
    resolver.candidate,
    [kind |-> "end-of-candidates"],
    [kind |-> "rtpmap", payload_number |-> audio.payload_number, codec |-> audio.codec],
    [kind |-> "ssrc", ssrc |-> audio.host_ssrc, source |-> HOST_CNAME]>>

VideoLines(resolver, id, video, direction) ==
  <<[kind |-> "m", media_type |-> "video", transport_port |-> resolver.candidate.port,
     formats |-> <<video.payload_number>>],
    [kind |-> "c", ip |-> resolver.candidate.ip],
    [kind |-> direction],
    [kind |-> "rtcp-mux"],
    [kind |-> "mid", value |-> id],
    [kind |-> "rtpmap", payload_number |-> video.payload_number, codec |-> video.codec],
    [kind |-> "ssrc", ssrc |-> video.host_ssrc, source |-> HOST_CNAME],
    [kind |-> "fmtp", payload_number |-> video.payload_number,
     capabilities |-> video.capabilities]>>

LEMMA AnswerIs ==
  ASSUME NEW resolver, NEW ids, NEW credentials, NEW audio, NEW video, NEW direction
  PROVE  Answer(resolver, ids, credentials, audio, video, direction)
           = [session |-> SessionSection(resolver, ids, credentials),
              audio |-> AudioLines(resolver, ids[1], audio, direction),
              video |-> VideoLines(resolver, ids[2], video, direction)]
<1>1. \A id : MediaStart(resolver, "audio", id, direction, audio)
                \o <<resolver.candidate, [kind |-> "end-of-candidates"]>> \o MediaCodec(audio)
              = AudioLines(resolver, id, audio, direction)
  BY ONLY NineLines DEF MediaStart, MediaCodec, AudioLines
<1>2. \A id : MediaStart(resolver, "video", id, direction, video) \o MediaCodec(video)
                \o <<[kind |-> "fmtp", payload_number |-> video.payload_number,
                      capabilities |-> video.capabilities]>>
              = VideoLines(resolver, id, video, direction)
  BY ONLY EightLines DEF MediaStart, MediaCodec, VideoLines
<1> QED
  BY <1>1, <1>2, Zenon DEF Answer

\* What a peer finds in the media section of an answer.
Tells(section, id, media, direction) ==
  /\ First(section, "m").formats = <<media.payload_number>>
  /\ First(section, "ssrc").ssrc = media.host_ssrc
  /\ First(section, "mid").value = id
  /\ First(section, "rtpmap").payload_number = media.payload_number
  /\ First(section, "rtpmap").codec = media.codec
  /\ Has(section, direction)

Directions == {"sendonly", "recvonly"}

LEMMA AudioTells ==
  ASSUME NEW id, NEW media, NEW direction \in Directions
  PROVE  Tells(AudioLines(Resolver, id, media, direction), id, media, direction)
<1>1. PICK A : A = AudioLines(Resolver, id, media, direction)
  OBVIOUS
<1> DEFINE m == [kind |-> "m", media_type |-> "audio", transport_port |-> Resolver.candidate.port,
                 formats |-> <<media.payload_number>>]
           c == [kind |-> "c", ip |-> Resolver.candidate.ip]
           flag == [kind |-> direction]
           mux == [kind |-> "rtcp-mux"]
           mid == [kind |-> "mid", value |-> id]
           candidate == Resolver.candidate
           end == [kind |-> "end-of-candidates"]
           map == [kind |-> "rtpmap", payload_number |-> media.payload_number,
                   codec |-> media.codec]
           source == [kind |-> "ssrc", ssrc |-> media.host_ssrc, source |-> HOST_CNAME]
<1>2. A = <<m, c, flag, mux, mid, candidate, end, map, source>>
  BY ONLY <1>1 DEF AudioLines
<1>3. m.kind = "m" /\ m.formats = <<media.payload_number>>
  OBVIOUS
<1>4. c.kind = "c" /\ flag.kind = direction /\ mux.kind = "rtcp-mux"
  OBVIOUS
<1>5. mid.kind = "mid" /\ mid.value = id /\ end.kind = "end-of-candidates"
  OBVIOUS
<1>6. candidate.kind = "candidate"
  BY PathAssumption DEF SDPResolver
<1>7. /\ map.kind = "rtpmap" /\ map.payload_number = media.payload_number
      /\ map.codec = media.codec
  OBVIOUS
<1>8. source.kind = "ssrc" /\ source.ssrc = media.host_ssrc
  OBVIOUS
<1> HIDE DEF m, c, flag, mux, mid, candidate, end, map, source
<1>9. /\ DOMAIN A = 1..9
      /\ A[1] = m /\ A[2] = c /\ A[3] = flag /\ A[4] = mux /\ A[5] = mid
      /\ A[6] = candidate /\ A[7] = end /\ A[8] = map /\ A[9] = source
  BY ONLY <1>2
<1>10. /\ A[1].kind = "m" /\ A[2].kind = "c" /\ A[3].kind = direction /\ A[4].kind = "rtcp-mux"
       /\ A[5].kind = "mid" /\ A[6].kind = "candidate" /\ A[7].kind = "end-of-candidates"
       /\ A[8].kind = "rtpmap" /\ A[9].kind = "ssrc"
  BY ONLY <1>3, <1>4, <1>5, <1>6, <1>7, <1>8, <1>9
<1>11. First(A, "m") = m /\ First(A, "mid") = mid /\ First(A, "rtpmap") = map
       /\ First(A, "ssrc") = source /\ Has(A, direction)
  BY ONLY <1>9, <1>10, OnlyOne, direction \in Directions DEF Directions
<1> QED
  BY ONLY <1>1, <1>3, <1>5, <1>7, <1>8, <1>11 DEF Tells

LEMMA VideoTells ==
  ASSUME NEW id, NEW media, NEW direction \in Directions
  PROVE  Tells(VideoLines(Resolver, id, media, direction), id, media, direction)
<1>1. PICK A : A = VideoLines(Resolver, id, media, direction)
  OBVIOUS
<1> DEFINE m == [kind |-> "m", media_type |-> "video", transport_port |-> Resolver.candidate.port,
                 formats |-> <<media.payload_number>>]
           c == [kind |-> "c", ip |-> Resolver.candidate.ip]
           flag == [kind |-> direction]
           mux == [kind |-> "rtcp-mux"]
           mid == [kind |-> "mid", value |-> id]
           map == [kind |-> "rtpmap", payload_number |-> media.payload_number,
                   codec |-> media.codec]
           source == [kind |-> "ssrc", ssrc |-> media.host_ssrc, source |-> HOST_CNAME]
           fmtp == [kind |-> "fmtp", payload_number |-> media.payload_number,
                    capabilities |-> media.capabilities]
<1>2. A = <<m, c, flag, mux, mid, map, source, fmtp>>
  BY ONLY <1>1 DEF VideoLines
<1>3. m.kind = "m" /\ m.formats = <<media.payload_number>>
  OBVIOUS
<1>4. c.kind = "c" /\ flag.kind = direction /\ mux.kind = "rtcp-mux"
  OBVIOUS
<1>5. mid.kind = "mid" /\ mid.value = id /\ fmtp.kind = "fmtp"
  OBVIOUS
<1>6. /\ map.kind = "rtpmap" /\ map.payload_number = media.payload_number
      /\ map.codec = media.codec
  OBVIOUS
<1>7. source.kind = "ssrc" /\ source.ssrc = media.host_ssrc
  OBVIOUS
<1> HIDE DEF m, c, flag, mux, mid, map, source, fmtp
<1>8. /\ DOMAIN A = 1..8
      /\ A[1] = m /\ A[2] = c /\ A[3] = flag /\ A[4] = mux /\ A[5] = mid
      /\ A[6] = map /\ A[7] = source /\ A[8] = fmtp
  BY ONLY <1>2
<1>9. /\ A[1].kind = "m" /\ A[2].kind = "c" /\ A[3].kind = direction /\ A[4].kind = "rtcp-mux"
      /\ A[5].kind = "mid" /\ A[6].kind = "rtpmap" /\ A[7].kind = "ssrc" /\ A[8].kind = "fmtp"
  BY ONLY <1>3, <1>4, <1>5, <1>6, <1>7, <1>8
<1>10. First(A, "m") = m /\ First(A, "mid") = mid /\ First(A, "rtpmap") = map
       /\ First(A, "ssrc") = source /\ Has(A, direction)
  BY ONLY <1>8, <1>9, OnlyOne, direction \in Directions DEF Directions
<1> QED
  BY ONLY <1>1, <1>3, <1>5, <1>6, <1>7, <1>10 DEF Tells

LEMMA AnswerTells ==
  ASSUME NEW ids, NEW credentials, NEW audio, NEW video, NEW direction \in Directions, NEW answer,
         answer = Answer(Resolver, ids, credentials, audio, video, direction)
  PROVE  /\ Tells(answer["audio"], ids[1], audio, direction)
         /\ Tells(answer["video"], ids[2], video, direction)
<1>1. /\ answer["audio"] = AudioLines(Resolver, ids[1], audio, direction)
      /\ answer["video"] = VideoLines(Resolver, ids[2], video, direction)
  BY AnswerIs
<1> QED
  BY <1>1, AudioTells, VideoTells

\* A media id and a direction that are read were written.
LEMMA IdWritten ==
  ASSUME NEW T, MediaFormed(T), Has(ParseLines(T), "mid")
  PROVE  \E i \in DOMAIN T :
           T[i].key = "mid" /\ T[i].words = <<First(ParseLines(T), "mid").value>>
<1>1. T \in Seq(Line)
  BY Zenon DEF MediaFormed
<1>2. PICK i \in Places(ParseLines(T), "mid") : First(ParseLines(T), "mid") = ParseLines(T)[i]
  BY <1>1, ParsedPlaces, FirstIsOne DEF Has, First
<1>3. i \in DOMAIN T /\ ParseLine(T[i]).kind = "mid" /\ First(ParseLines(T), "mid") = ParseLine(T[i])
  BY <1>1, <1>2, ParsedPlaces
<1>4. T[i].key = "mid" /\ ParseLine(T[i]) = ParseValue("mid", T[i].words)
  <2>1. T[i].key = "mid" /\ ParseLine(T[i]) = ParseAttribute("mid", T[i].words)
    BY <1>3, AttributeRead DEF AttributeKinds
  <2> QED
    BY <2>1 DEF ParseAttribute, Flags
<1>5. T[i].words \in Seq(Word) /\ Len(T[i].words) = 1
  <2>1. T[i] \in Line
    BY <1>1, <1>3
  <2> QED
    BY <1>3, <1>4, <2>1, Zenon DEF MediaFormed, Line
<1>6. ParseLine(T[i]).value = T[i].words[1]
  <2>1. T[i].words # <<>>
    BY ONLY <1>5
  <2> QED
    BY <1>4, <2>1 DEF ParseValue
<1>7. \A W : \A w \in Seq(W) : Len(w) = 1 => w = <<w[1]>>
  <2> TAKE W
  <2> TAKE w \in Seq(W)
  <2> HAVE Len(w) = 1
  <2>1. w[1] \in W
    OBVIOUS
  <2>2. <<w[1]>> \in Seq(W) /\ Len(<<w[1]>>) = 1 /\ <<w[1]>>[1] = w[1]
    BY <2>1
  <2> QED
    BY ONLY <2>2, w \in Seq(W), Len(w) = 1, SeqEqualOne
<1>8. T[i].words = <<T[i].words[1]>>
  BY ONLY <1>5, <1>7
<1> QED
  BY <1>3, <1>4, <1>6, <1>8

LEMMA DirectionWritten ==
  ASSUME NEW T, MediaFormed(T), NEW direction \in Directions, Has(ParseLines(T), direction)
  PROVE  \E i \in DOMAIN T : T[i].key = direction
<1>1. T \in Seq(Line)
  BY Zenon DEF MediaFormed
<1>2. PICK i \in Places(ParseLines(T), direction) : TRUE
  BY DEF Has
<1>3. i \in DOMAIN T /\ ParseLine(T[i]).kind = direction
  BY <1>1, ParsedPlaces
<1> QED
  BY <1>3, AttributeRead DEF AttributeKinds, Directions

LEMMA AnswerFits ==
  ASSUME NEW offer, WellFormed(offer), NEW direction \in Directions, NEW other \in Directions,
         NEW sdp, sdp.audio = ParseLines(offer.audio), sdp.video = ParseLines(offer.video),
         HasMediaIds(sdp), Has(sdp.audio, direction), Has(sdp.video, direction),
         NEW session, SessionFits(offer, session),
         Tells(session.sdp_answer["audio"], get_media_ids(sdp)[1], session.audio_session, other),
         Tells(session.sdp_answer["video"], get_media_ids(sdp)[2], session.video_session, other)
  PROVE  Fits(offer, session.sdp_answer, direction, other)
<1>1. MediaFormed(offer["audio"]) /\ MediaFormed(offer["video"])
  BY DEF WellFormed, Sections
<1>2. ASSUME NEW media \in Sections, NEW id, NEW chosen, MediaFormed(offer[media]),
             Has(ParseLines(offer[media]), "mid"), First(ParseLines(offer[media]), "mid").value = id,
             Has(ParseLines(offer[media]), direction), Carries(offer[media], chosen),
             Tells(session.sdp_answer[media], id, chosen, other)
      PROVE  LET map == First(session.sdp_answer[media], "rtpmap") IN
             /\ \E i \in DOMAIN offer[media] :
                  /\ offer[media][i].key = "mid"
                  /\ offer[media][i].words = <<First(session.sdp_answer[media], "mid").value>>
             /\ PrintCodec(map.codec).text \in CodecsOf(offer[media], map.payload_number)
             /\ \E i \in DOMAIN offer[media] : offer[media][i].key = direction
             /\ Has(session.sdp_answer[media], other)
  <2>1. First(session.sdp_answer[media], "mid").value = First(ParseLines(offer[media]), "mid").value
    BY <1>2, Zenon DEF Tells
  <2>2. \E i \in DOMAIN offer[media] :
          /\ offer[media][i].key = "mid"
          /\ offer[media][i].words = <<First(session.sdp_answer[media], "mid").value>>
    BY <1>2, <2>1, IdWritten
  <2>3. \E i \in DOMAIN offer[media] : offer[media][i].key = direction
    BY <1>2, DirectionWritten
  <2> QED
    BY <1>2, <2>2, <2>3, Zenon DEF Tells, Carries
<1>3. /\ Has(sdp.audio, "mid") /\ First(sdp.audio, "mid").value = get_media_ids(sdp)[1]
      /\ Has(sdp.video, "mid") /\ First(sdp.video, "mid").value = get_media_ids(sdp)[2]
  BY DEF HasMediaIds
<1>4. Carries(offer["audio"], session.audio_session) /\ Carries(offer["video"], session.video_session)
  BY DEF SessionFits
<1> QED
  BY <1>1, <1>2, <1>3, <1>4, Zenon DEF Fits, Sections

------------------------------------------------------------------------------
\* The path.

\* The sessions are those of offers that were accepted, and the packets are relayed
\* between them.
PathInv ==
  /\ streamer # None =>
       /\ stream_offer \in StreamOffers /\ AcceptsStreamOffer(TextOf(stream_offer))
       /\ streamer = accept_stream_offer(Resolver, TextOf(stream_offer), StreamerDraw)
  /\ viewer # None =>
       /\ streamer # None
       /\ viewer_offer \in ViewerOffers /\ AcceptsViewerOffer(TextOf(viewer_offer), streamer)
       /\ viewer = accept_viewer_offer(Resolver, TextOf(viewer_offer), streamer, ViewerDraw)
  /\ relayed # None =>
       /\ viewer # None
       /\ \E number \in AgreedNumbers, marker \in {0, MarkerBit} :
            /\ packet = [byte |-> number + marker]
            /\ extracted = is_video_packet(number + marker)
            /\ relayed = remap_rtp_header(number + marker, streamer, viewer)

LEMMA PathInvHolds == PathSpec => []PathInv
<1>1. PathInit => PathInv
  BY DEF PathInit, PathInv
<1>2. PathInv /\ [PathNext]_path_vars => PathInv'
  <2> SUFFICES ASSUME PathInv, [PathNext]_path_vars PROVE PathInv'
    OBVIOUS
  <2>1. CASE OfferStream
    <3>1. viewer = None /\ relayed = None
      BY <2>1 DEF OfferStream, PathInv
    <3> QED
      BY <2>1, <3>1 DEF OfferStream, PathInv
  <2>2. CASE OfferView
    <3>1. relayed = None
      BY <2>2 DEF OfferView, PathInv
    <3> QED
      BY <2>2, <3>1 DEF OfferView, PathInv
  <2>3. CASE Relay
    BY <2>3 DEF Relay, PathInv, AgreedNumbers, is_video_packet
  <2>4. CASE UNCHANGED path_vars
    BY <2>4 DEF path_vars, PathInv, AgreedNumbers, is_video_packet
  <2> QED
    BY <2>1, <2>2, <2>3, <2>4 DEF PathNext
<1> QED
  BY <1>1, <1>2, PTL DEF PathSpec

LEMMA StreamerAgreed ==
  ASSUME PathInv, streamer # None
  PROVE  WellFormed(stream_offer) /\ SessionFits(stream_offer, streamer)
<1>1. WellFormed(stream_offer)
  BY PathAssumption DEF PathInv
<1> QED
  BY <1>1, StreamerFits DEF PathInv

LEMMA ViewerAgreed ==
  ASSUME PathInv, viewer # None
  PROVE  /\ WellFormed(viewer_offer) /\ SessionFits(viewer_offer, viewer)
         /\ viewer.video_session.capabilities = streamer.video_session.capabilities
<1>1. WellFormed(viewer_offer)
  BY PathAssumption DEF PathInv
<1>2. streamer.audio_session.codec = "opus" /\ streamer.video_session.codec = "h264"
  BY StreamerAgreed DEF PathInv, SessionFits
<1> QED
  BY <1>1, <1>2, ViewerFits DEF PathInv

\* Seven bits and a marker.
LEMMA Bytes ==
  ASSUME NEW n \in 0..127, NEW marker \in {0, MarkerBit}
  PROVE  /\ payload_type(n + marker) = n /\ n % 256 = n
         /\ marker_set(n + marker) <=> marker = MarkerBit
         /\ (n + IF marker_set(n + marker) THEN MarkerBit ELSE 0) % 256 = n + marker
  BY DEF payload_type, marker_set, MarkerBit

\* The packet that was relayed, and what became of it.
LEMMA PacketRelayed ==
  ASSUME PathInv, relayed # None
  PROVE  \E number \in AgreedNumbers, marker \in {0, MarkerBit}, media \in Sections :
           LET from == IF media = "audio" THEN streamer.audio_session ELSE streamer.video_session
               to   == IF media = "audio" THEN viewer.audio_session ELSE viewer.video_session
           IN /\ number = from.payload_number /\ number \in 0..127 /\ to.payload_number \in 0..127
              /\ media = "video" => number # streamer.audio_session.payload_number
              /\ packet.byte = number + marker
              /\ relayed.byte = to.payload_number + marker /\ relayed.ssrc = to.host_ssrc
              /\ extracted = (number = streamer.video_session.payload_number)
<1>1. viewer # None /\ streamer # None
  BY DEF PathInv
<1>2. /\ streamer.audio_session.payload_number \in 0..127
      /\ streamer.video_session.payload_number \in 0..127
      /\ viewer.audio_session.payload_number \in 0..127
      /\ viewer.video_session.payload_number \in 0..127
  BY <1>1, StreamerAgreed, ViewerAgreed, Zenon DEF SessionFits, Carries
<1>3. PICK number \in AgreedNumbers, marker \in {0, MarkerBit} :
        /\ packet = [byte |-> number + marker]
        /\ extracted = is_video_packet(number + marker)
        /\ relayed = remap_rtp_header(number + marker, streamer, viewer)
  BY DEF PathInv
<1> DEFINE media == IF number = streamer.audio_session.payload_number THEN "audio" ELSE "video"
           to == IF media = "audio" THEN viewer.audio_session ELSE viewer.video_session
<1>4. number \in 0..127 /\ to.payload_number \in 0..127
  BY <1>2 DEF AgreedNumbers
<1>5. payload_type(number + marker) = number
  BY <1>4, Bytes
<1>6. extracted = (number = streamer.video_session.payload_number)
  <2>1. streamer.video_session.payload_number % 256 = streamer.video_session.payload_number
    BY <1>2, Bytes, Zenon
  <2> QED
    BY <1>3, <1>5, <2>1 DEF is_video_packet
<1>7. get_mapped_session(number + marker, streamer, viewer) = to
  BY <1>5 DEF get_mapped_session
<1> HIDE DEF to
<1>8. relayed.byte = to.payload_number + marker /\ relayed.ssrc = to.host_ssrc
  <2>1. marker_set(number + marker) <=> marker_set(to.payload_number + marker)
    BY <1>4, Bytes
  <2>2. (to.payload_number + IF marker_set(number + marker) THEN MarkerBit ELSE 0) % 256
          = to.payload_number + marker
    BY <1>4, <2>1, Bytes
  <2> QED
    BY <1>3, <1>7, <2>2 DEF remap_rtp_header
<1> QED
  BY <1>3, <1>4, <1>6, <1>8, Zenon DEF to, AgreedNumbers, Sections

\* A packet that is relayed means to the viewer, by its offer, what it meant to the
\* streamer, by its.
THEOREM MeaningIsKept == PathSpec => []MeaningKept
<1>1. PathInv => MeaningKept
  <2> SUFFICES ASSUME PathInv, relayed # None PROVE MeaningKept
    BY DEF MeaningKept
  <2>1. viewer # None /\ streamer # None
    BY DEF PathInv
  <2>2. /\ SessionFits(stream_offer, streamer) /\ SessionFits(viewer_offer, viewer)
        /\ viewer.video_session.capabilities = streamer.video_session.capabilities
    BY <2>1, StreamerAgreed, ViewerAgreed
  <2>3. PICK number \in AgreedNumbers, marker \in {0, MarkerBit}, media \in Sections :
           LET from == IF media = "audio" THEN streamer.audio_session ELSE streamer.video_session
               to   == IF media = "audio" THEN viewer.audio_session ELSE viewer.video_session
           IN /\ number = from.payload_number /\ number \in 0..127 /\ to.payload_number \in 0..127
              /\ packet.byte = number + marker /\ relayed.byte = to.payload_number + marker
    BY PacketRelayed, Zenon
  <2> DEFINE to == IF media = "audio" THEN viewer.audio_session ELSE viewer.video_session
  <2>4. /\ payload_type(packet.byte) = number /\ payload_type(relayed.byte) = to.payload_number
        /\ marker_set(relayed.byte) <=> marker_set(packet.byte)
    <3>1. /\ number \in 0..127 /\ to.payload_number \in 0..127
          /\ packet.byte = number + marker /\ relayed.byte = to.payload_number + marker
      BY <2>3
    <3> HIDE DEF to
    <3>2. payload_type(number + marker) = number /\ (marker_set(number + marker) <=> marker = MarkerBit)
      BY <3>1, Bytes
    <3>3. /\ payload_type(to.payload_number + marker) = to.payload_number
          /\ marker_set(to.payload_number + marker) <=> marker = MarkerBit
      BY <3>1, Bytes
    <3> QED
      BY <3>1, <3>2, <3>3
  <2>5. CASE media = "audio"
    BY <2>2, <2>3, <2>4, <2>5, Zenon DEF MeaningKept, SessionFits, Carries
  <2>6. CASE media = "video"
    BY <2>2, <2>3, <2>4, <2>6, Zenon DEF MeaningKept, SessionFits, Carries
  <2> QED
    BY <2>5, <2>6 DEF Sections
<1> QED
  BY <1>1, PathInvHolds, PTL

\* A packet that is relayed carries the SSRC that the viewer's answer gives for the
\* section of its payload number.
THEOREM SsrcIsAdvertised == PathSpec => []SsrcAdvertised
<1>1. PathInv => SsrcAdvertised
  <2> SUFFICES ASSUME PathInv, relayed # None PROVE SsrcAdvertised
    BY DEF SsrcAdvertised
  <2>1. PICK ids, credentials :
          viewer.sdp_answer = Answer(Resolver, ids, credentials, viewer.audio_session,
                                     viewer.video_session, "sendonly")
    BY DEF PathInv, accept_viewer_offer, Negotiated
  <2>2. /\ Tells(viewer.sdp_answer["audio"], ids[1], viewer.audio_session, "sendonly")
        /\ Tells(viewer.sdp_answer["video"], ids[2], viewer.video_session, "sendonly")
    BY <2>1, AnswerTells DEF Directions
  <2>3. PICK marker \in {0, MarkerBit}, media \in Sections :
           LET to == IF media = "audio" THEN viewer.audio_session ELSE viewer.video_session
           IN /\ to.payload_number \in 0..127
              /\ relayed.byte = to.payload_number + marker /\ relayed.ssrc = to.host_ssrc
    BY PacketRelayed
  <2> DEFINE to == IF media = "audio" THEN viewer.audio_session ELSE viewer.video_session
  <2>4. payload_type(relayed.byte) = to.payload_number
    <3>1. to.payload_number \in 0..127 /\ relayed.byte = to.payload_number + marker
      BY <2>3, Zenon
    <3> HIDE DEF to
    <3>2. payload_type(to.payload_number + marker) = to.payload_number
      BY ONLY <3>1, marker \in {0, MarkerBit}, Bytes, Zenon
    <3> QED
      BY ONLY <3>1, <3>2, Zenon
  <2>5. \E id : Tells(viewer.sdp_answer[media], id, to, "sendonly")
    BY <2>2 DEF Sections
  <2> QED
    BY <2>3, <2>4, <2>5 DEF SsrcAdvertised, Tells
<1> QED
  BY <1>1, PathInvHolds, PTL

\* The thumbnail extractor is given the H.264 packets of the streamer and no others.
THEOREM OnlyVideoIsExtracted == PathSpec => []OnlyVideoExtracted
<1>1. PathInv => OnlyVideoExtracted
  <2> SUFFICES ASSUME PathInv, relayed # None
               PROVE  extracted <=>
                        H264.text \in CodecsOf(stream_offer.video, payload_type(packet.byte))
    BY DEF OnlyVideoExtracted
  <2>1. WellFormed(stream_offer) /\ SessionFits(stream_offer, streamer)
    BY StreamerAgreed DEF PathInv
  <2>2. PICK number \in AgreedNumbers, marker \in {0, MarkerBit} :
          /\ number \in 0..127 /\ packet.byte = number + marker
          /\ extracted = (number = streamer.video_session.payload_number)
    BY PacketRelayed, Zenon
  <2>3. payload_type(packet.byte) = number
    BY <2>2, Bytes
  <2>4. H264.text \in CodecsOf(stream_offer.video, streamer.video_session.payload_number)
    BY <2>1 DEF SessionFits, Carries, PrintCodec
  <2>5. CodecsOf(stream_offer.video, streamer.audio_session.payload_number) = {}
    <3>1. PICK i \in Payloads(stream_offer.audio, "rtpmap") :
            NumberAt(stream_offer.audio, i) = streamer.audio_session.payload_number
      BY <2>1 DEF SessionFits, Carries
    <3>2. ASSUME NEW j \in DOMAIN stream_offer.video, stream_offer.video[j].key = "rtpmap",
                 stream_offer.video[j].words[1] = Num(NumberAt(stream_offer.audio, i))
          PROVE  FALSE
      <4>1. j \in Payloads(stream_offer.video, "rtpmap")
        BY <3>2 DEF Payloads
      <4>2. NumberAt(stream_offer.video, j) = NumberAt(stream_offer.audio, i)
        BY <3>2 DEF NumberAt, Num
      <4> QED
        BY <2>1, <4>1, <4>2 DEF WellFormed
    <3> QED
      BY <3>1, <3>2 DEF CodecsOf, Attributes
  <2> QED
    BY <2>2, <2>3, <2>4, <2>5, Zenon DEF AgreedNumbers
<1> QED
  BY <1>1, PathInvHolds, PTL

\* An answer fits the offer it is for.
THEOREM AnswersDoFit == PathSpec => []AnswersFit
<1>1. PathInv => AnswersFit
  <2> SUFFICES ASSUME PathInv PROVE AnswersFit
    OBVIOUS
  <2>1. ASSUME streamer # None
        PROVE  Fits(stream_offer, streamer.sdp_answer, "sendonly", "recvonly")
    <3> DEFINE sdp == get_sdp(ParseLines(TextOf(stream_offer)))
    <3>1. WellFormed(stream_offer) /\ SessionFits(stream_offer, streamer)
      BY <2>1, StreamerAgreed
    <3>2. AcceptsStreamOffer(TextOf(stream_offer))
      BY <2>1 DEF PathInv
    <3>3. sdp.audio = ParseLines(stream_offer.audio) /\ sdp.video = ParseLines(stream_offer.video)
      BY <3>1, <3>2, OfferSections DEF AcceptsStreamOffer
    <3>4. HasMediaIds(sdp) /\ Has(sdp.audio, "sendonly") /\ Has(sdp.video, "sendonly")
      BY <3>2, Zenon DEF AcceptsStreamOffer, SendsCodec
    <3>5. streamer.sdp_answer = Answer(Resolver, get_media_ids(sdp),
                                       get_ice_credentials(sdp, StreamerDraw.host),
                                       streamer.audio_session, streamer.video_session, "recvonly")
      BY <2>1 DEF PathInv, accept_stream_offer, Negotiated
    <3> HIDE DEF sdp
    <3>6. /\ Tells(streamer.sdp_answer["audio"], get_media_ids(sdp)[1], streamer.audio_session, "recvonly")
          /\ Tells(streamer.sdp_answer["video"], get_media_ids(sdp)[2], streamer.video_session, "recvonly")
      BY <3>5, AnswerTells, Zenon DEF Directions
    <3> QED
      BY <3>1, <3>3, <3>4, <3>6, AnswerFits, Zenon DEF Directions
  <2>2. ASSUME viewer # None
        PROVE  Fits(viewer_offer, viewer.sdp_answer, "recvonly", "sendonly")
    <3> DEFINE sdp == get_sdp(ParseLines(TextOf(viewer_offer)))
    <3>1. WellFormed(viewer_offer) /\ SessionFits(viewer_offer, viewer)
      BY <2>2, ViewerAgreed
    <3>2. AcceptsViewerOffer(TextOf(viewer_offer), streamer)
      BY <2>2 DEF PathInv
    <3>3. sdp.audio = ParseLines(viewer_offer.audio) /\ sdp.video = ParseLines(viewer_offer.video)
      BY <3>1, <3>2, OfferSections DEF AcceptsViewerOffer
    <3>4. HasMediaIds(sdp) /\ Has(sdp.audio, "recvonly") /\ Has(sdp.video, "recvonly")
      BY <3>2, Zenon DEF AcceptsViewerOffer, ReceivesMedia
    <3>5. viewer.sdp_answer = Answer(Resolver, get_media_ids(sdp),
                                     get_ice_credentials(sdp, ViewerDraw.host),
                                     viewer.audio_session, viewer.video_session, "sendonly")
      BY <2>2 DEF PathInv, accept_viewer_offer, Negotiated
    <3> HIDE DEF sdp
    <3>6. /\ Tells(viewer.sdp_answer["audio"], get_media_ids(sdp)[1], viewer.audio_session, "sendonly")
          /\ Tells(viewer.sdp_answer["video"], get_media_ids(sdp)[2], viewer.video_session, "sendonly")
      BY <3>5, AnswerTells DEF Directions
    <3> QED
      BY <3>1, <3>3, <3>4, <3>6, AnswerFits, Zenon DEF Directions
  <2> QED
    BY <2>1, <2>2 DEF AnswersFit
<1> QED
  BY <1>1, PathInvHolds, PTL

\* No viewer is turned away whose offer fits otherwise and has, for some payload
\* number, the codec and capabilities that the streamer sends.
THEOREM CapableViewersAreAccepted == PathSpec => []CapableViewersAccepted
<1>1. PathInv => CapableViewersAccepted
  <2> SUFFICES ASSUME PathInv, streamer # None, NEW offer \in PlainOffers, NEW number \in 0..127,
                      CodecsOf(offer.video, number) = {H264.text},
                      CapabilitiesOf(offer.video, number)
                        = CapabilitiesOf(stream_offer.video, streamer.video_session.payload_number)
               PROVE  AcceptsViewerOffer(TextOf(offer), streamer)
    BY Zenon DEF CapableViewersAccepted
  <2> DEFINE T == offer.video
             video == ParseLines(T)
             sent == streamer.video_session
  <2>1. WellFormed(offer) /\ Plain(offer)
    BY PathAssumption
  <2>2. SessionFits(stream_offer, streamer)
    BY StreamerAgreed
  <2>3. MediaFormed(T)
    BY <2>1 DEF WellFormed, Sections
  <2>4. PICK i \in DOMAIN T :
          T[i].key = "rtpmap" /\ T[i].words[1] = Num(number) /\ T[i].words[2].text = H264.text
    BY DEF CodecsOf, Attributes
  <2>5. PICK j \in DOMAIN T :
          /\ T[j].key = "fmtp" /\ T[j].words[1] = Num(number)
          /\ Members(T[j].words[2].parts) = sent.capabilities
    <3>1. sent.capabilities \in CapabilitiesOf(T, number)
      BY <2>2 DEF SessionFits
    <3> QED
      BY <3>1 DEF CapabilitiesOf, Attributes
  <2>6. /\ i \in Payloads(T, "rtpmap") /\ NumberAt(T, i) = number
        /\ j \in Payloads(T, "fmtp") /\ NumberAt(T, j) = number
    BY <2>4, <2>5 DEF Payloads, NumberAt, Num
  <2>7. /\ i \in Places(video, "rtpmap") /\ video[i] = ParseLine(T[i])
        /\ j \in Places(video, "fmtp") /\ video[j] = ParseLine(T[j])
    <3>1. T \in Seq(Line)
      BY <2>3, Zenon DEF MediaFormed
    <3> QED
      BY <2>3, <2>6, <3>1, PayloadPlaces, ParsedPlaces
  <2>8. i \in RtpMaps(video, "h264") /\ video[i].payload_number = number
    <3>1. ParseLine(T[i]).codec = "h264" /\ ParseLine(T[i]).payload_number = number
      BY <2>3, <2>4, <2>6, CodecLine DEF PrintCodec
    <3> QED
      BY <2>7, <3>1 DEF RtpMaps
  <2>9. video[j].payload_number = number /\ video[j].capabilities = sent.capabilities
    BY <2>3, <2>5, <2>6, <2>7, FmtpLine
  <2>10. ViewerFmtps(video, sent) # {}
    <3>1. sent.codec = "h264"
      BY <2>2 DEF SessionFits
    <3>2. number \in PayloadNumbers(video, "h264")
      BY <2>8 DEF PayloadNumbers
    <3> QED
      BY <2>7, <2>9, <3>1, <3>2 DEF ViewerFmtps
  <2>11. streamer.audio_session.codec = "opus"
    BY <2>2 DEF SessionFits
  <2>12. get_sdp(ParseLines(TextOf(offer))).video = video
    BY <2>1, OfferSections DEF Plain
  <2> QED
    BY <2>1, <2>10, <2>11, <2>12, Zenon DEF Plain, AcceptsViewerOffer
<1> QED
  BY <1>1, PathInvHolds, PTL

------------------------------------------------------------------------------
\* Reading answers.

LEMMA CapabilitiesFinite ==
  ASSUME NEW T, MediaFormed(T), NEW number, NEW capabilities,
         CapabilitiesOf(T, number) = {capabilities}
  PROVE  IsFiniteSet(capabilities)
<1>1. PICK i \in DOMAIN T : T[i].key = "fmtp" /\ capabilities = Members(T[i].words[2].parts)
  BY DEF CapabilitiesOf, Attributes
<1>2. i \in Payloads(T, "fmtp")
  BY <1>1 DEF Payloads
<1>3. T[i].words[2] \in Word /\ IsJoined(T[i].words[2])
  BY <1>2, PayloadWords, Zenon DEF MediaFormed
<1>4. PICK w : w = T[i].words[2]
  OBVIOUS
<1>5. w.parts \in Seq(STRING)
  <2>1. w \in Word /\ "parts" \in DOMAIN w
    BY <1>3, <1>4 DEF IsJoined
  <2>2. w \in [parts : Seq(STRING)]
    BY <2>1 DEF Word
  <2> QED
    BY <2>2
<1> QED
  BY <1>1, <1>4, <1>5, MembersFinite

\* What is read for a line of an answer.
ReadAs(line) == IF line.kind = "ice-lite" THEN Unrecognized ELSE line

Returns(line) == Printable(line) /\ ParseLine(PrintLine(line)) = ReadAs(line)

LEMMA OthersReturn ==
  ASSUME NEW line, ReadsBack(line), line.kind # "ice-lite"
  PROVE  Returns(line) /\ ReadAs(line) = line
BY DEF Returns, ReadsBack, ReadAs

LEMMA LiteReturns ==
  ASSUME NEW line, line = [kind |-> "ice-lite"]
  PROVE  Returns(line) /\ ReadAs(line).kind = "other"
<1>1. line.kind = "ice-lite"
  OBVIOUS
<1>2. Printable(line)
  BY <1>1 DEF Printable
<1>3. \A words : ParseAttribute("ice-lite", words) = Unrecognized
  BY DEF ParseAttribute, Flags
<1>4. ParseLine(PrintLine(line)) = Unrecognized
  BY <1>1, <1>3, AttributeReads
<1> QED
  BY <1>1, <1>2, <1>4 DEF Returns, ReadAs, Unrecognized

\* The lines of a section return, and only the first may be one for a medium.
SectionReturns(s) ==
  /\ \A i \in 1..Len(s) : Returns(s[i]) /\ ReadAs(s[i]).kind # "malformed"
  /\ \A i \in 2..Len(s) : ReadAs(s[i]).kind # "m"

LEMMA SessionReturns ==
  ASSUME NEW ids, NEW credentials, NEW s, s = SessionSection(Resolver, ids, credentials)
  PROVE  /\ Len(s) = 11 /\ DOMAIN s = 1..11 /\ s = [i \in 1..11 |-> s[i]] /\ SectionReturns(s)
         /\ \A i \in 1..4 : ReadAs(s[i]).kind = <<"v", "o", "s", "t">>[i]
         /\ ReadAs(s[1]).value = <<Num(0)>>
<1>1. IsIp(Resolver.candidate.ip)
  BY PathAssumption
<1> DEFINE v == [kind |-> "v", value |-> <<Num(0)>>]
           o == [kind |-> "o", username |-> Low(HOST_CNAME),
                 session |-> <<Low("3767197920"), Num(0)>>, ip |-> Resolver.candidate.ip]
           name == [kind |-> "s", value |-> <<Low(HOST_CNAME)>>]
           time == [kind |-> "t", start_time |-> 0, end_time |-> 0]
           group == [kind |-> "group", semantics |-> "bundle", ids |-> <<ids[1], ids[2]>>]
           ufrag == [kind |-> "ice-ufrag", value |-> credentials.host_username]
           pwd == [kind |-> "ice-pwd", value |-> credentials.host_password]
           options == [kind |-> "ice-options", options |-> <<"ice2">>]
           lite == [kind |-> "ice-lite"]
           fingerprint == Resolver.fingerprint
           setup == [kind |-> "setup", value |-> "passive"]
<1>2. s = <<v, o, name, time, group, ufrag, pwd, options, lite, fingerprint, setup>>
  BY DEF SessionSection
<1>3. v.kind = "v" /\ v.value = <<Num(0)>> /\ ReadsBack(v)
  BY ONLY ValueReadsBack
<1>4. o.kind = "o" /\ ReadsBack(o)
  BY ONLY <1>1, OriginatorReadsBack
<1>5. name.kind = "s" /\ ReadsBack(name)
  BY ONLY ValueReadsBack
<1>6. time.kind = "t" /\ ReadsBack(time)
  BY ONLY TimeReadsBack
<1>7. group.kind = "group" /\ ReadsBack(group)
  <2>1. PICK a, b : group = [kind |-> "group", semantics |-> "bundle", ids |-> <<a, b>>]
    BY Zenon
  <2>2. <<a, b>> \in Seq({a, b}) /\ Len(<<a, b>>) >= 1
    BY ONLY TRUE
  <2> HIDE DEF group
  <2> QED
    BY ONLY <2>1, <2>2, GroupReadsBack, Zenon
<1>8. ufrag.kind = "ice-ufrag" /\ ReadsBack(ufrag)
  BY ONLY WordReadsBack
<1>9. pwd.kind = "ice-pwd" /\ ReadsBack(pwd)
  BY ONLY WordReadsBack
<1>10. options.kind = "ice-options" /\ ReadsBack(options)
  <2>1. <<"ice2">> \in [1..1 -> {"ice2", "trickle"}] /\ 1 \in Nat \ {0}
    BY ONLY TRUE
  <2> QED
    BY ONLY <2>1, OptionsReadsBack, Zenon
<1>11. Returns(lite) /\ ReadAs(lite).kind = "other"
  BY ONLY LiteReturns
<1>12. fingerprint.kind = "fingerprint" /\ ReadsBack(fingerprint)
  <2>1. Resolver.fingerprint = ParseFingerprint(<<Low("sha-256"), Resolver.fingerprint.hash>>)
    BY PathAssumption DEF SDPResolver
  <2>2. \A hash : ParseFingerprint(<<Low("sha-256"), hash>>)
                     = [kind |-> "fingerprint", hash_function |-> "sha-256", hash |-> hash]
    BY ONLY TRUE DEF ParseFingerprint
  <2>3. PICK hash : fingerprint
                      = [kind |-> "fingerprint", hash_function |-> "sha-256", hash |-> hash]
    BY ONLY <2>1, <2>2, Zenon
  <2> QED
    BY ONLY <2>3, FingerprintReadsBack
<1>13. setup.kind = "setup" /\ ReadsBack(setup)
  BY ONLY SetupReadsBack
<1> HIDE DEF v, o, name, time, group, ufrag, pwd, options, lite, fingerprint, setup
<1>14. /\ Len(s) = 11 /\ DOMAIN s = 1..11 /\ s = [i \in 1..11 |-> s[i]]
       /\ s[1] = v /\ s[2] = o /\ s[3] = name /\ s[4] = time /\ s[5] = group /\ s[6] = ufrag
       /\ s[7] = pwd /\ s[8] = options /\ s[9] = lite /\ s[10] = fingerprint /\ s[11] = setup
  BY ONLY <1>2
<1>15. \A i \in (1..11) \ {9} : ReadsBack(s[i]) /\ s[i].kind \notin {"ice-lite", "m", "malformed"}
  BY ONLY <1>3, <1>4, <1>5, <1>6, <1>7, <1>8, <1>9, <1>10, <1>12, <1>13, <1>14
<1>16. \A i \in (1..11) \ {9} : Returns(s[i]) /\ ReadAs(s[i]) = s[i]
  BY ONLY <1>15, OthersReturn
<1>17. \A i \in 1..11 : Returns(s[i]) /\ ReadAs(s[i]).kind \notin {"m", "malformed"}
  BY ONLY <1>11, <1>14, <1>15, <1>16
<1>18. SectionReturns(s)
  BY ONLY <1>14, <1>17 DEF SectionReturns
<1>19. \A i \in 1..4 : ReadAs(s[i]).kind = <<"v", "o", "s", "t">>[i]
  BY ONLY <1>3, <1>4, <1>5, <1>6, <1>14, <1>16
<1> QED
  BY ONLY <1>3, <1>14, <1>16, <1>18, <1>19

LEMMA AudioReturns ==
  ASSUME NEW id, NEW media, media.codec \in {"h264", "opus"}, NEW direction \in Directions,
         NEW s, s = AudioLines(Resolver, id, media, direction)
  PROVE  /\ Len(s) = 9 /\ DOMAIN s = 1..9 /\ s = [i \in 1..9 |-> s[i]] /\ SectionReturns(s)
         /\ ReadAs(s[1]).kind = "m" /\ ReadAs(s[1]).media_type = "audio"
<1>1. IsIp(Resolver.candidate.ip)
  BY PathAssumption
<1> DEFINE m == [kind |-> "m", media_type |-> "audio", transport_port |-> Resolver.candidate.port,
                 formats |-> <<media.payload_number>>]
           c == [kind |-> "c", ip |-> Resolver.candidate.ip]
           flag == [kind |-> direction]
           mux == [kind |-> "rtcp-mux"]
           mid == [kind |-> "mid", value |-> id]
           candidate == Resolver.candidate
           end == [kind |-> "end-of-candidates"]
           map == [kind |-> "rtpmap", payload_number |-> media.payload_number,
                   codec |-> media.codec]
           source == [kind |-> "ssrc", ssrc |-> media.host_ssrc, source |-> HOST_CNAME]
<1>2. s = <<m, c, flag, mux, mid, candidate, end, map, source>>
  BY DEF AudioLines
<1>3. m.kind = "m" /\ m.media_type = "audio" /\ ReadsBack(m)
  <2>1. PICK port, number :
          m = [kind |-> "m", media_type |-> "audio", transport_port |-> port,
               formats |-> <<number>>]
    BY Zenon
  <2>2. <<number>> \in Seq({number}) /\ "audio" \in {"audio", "video"}
    BY ONLY TRUE
  <2> HIDE DEF m
  <2> QED
    BY ONLY <2>1, <2>2, MediaReadsBack, Zenon
<1>4. c.kind = "c" /\ ReadsBack(c)
  BY ONLY <1>1, ConnectionReadsBack
<1>5. flag.kind \in Flags /\ ReadsBack(flag)
  <2>1. direction \in Flags
    BY DEF Directions, Flags
  <2> QED
    BY ONLY <2>1, FlagReadsBack
<1>6. mux.kind = "rtcp-mux" /\ ReadsBack(mux)
  BY ONLY FlagReadsBack DEF Flags
<1>7. mid.kind = "mid" /\ ReadsBack(mid)
  BY ONLY WordReadsBack
<1>8. candidate.kind = "candidate" /\ ReadsBack(candidate)
  <2>1. PICK a, b, p, ip, port :
          /\ candidate = [kind |-> "candidate", foundation |-> a, component_id |-> b,
                          priority |-> p, ip |-> ip, port |-> port]
          /\ ip = Resolver.candidate.ip
    BY PathAssumption DEF SDPResolver
  <2> QED
    BY ONLY <1>1, <2>1, CandidateReadsBack
<1>9. end.kind = "end-of-candidates" /\ ReadsBack(end)
  BY ONLY FlagReadsBack DEF Flags
<1>10. map.kind = "rtpmap" /\ ReadsBack(map)
  BY RtpMapReadsBack
<1>11. source.kind = "ssrc" /\ ReadsBack(source)
  <2>1. HOST_CNAME # Unsupported
    BY DEF HOST_CNAME, Unsupported
  <2> QED
    BY ONLY <2>1, SsrcReadsBack
<1> HIDE DEF m, c, flag, mux, mid, candidate, end, map, source
<1>12. /\ Len(s) = 9 /\ DOMAIN s = 1..9 /\ s = [i \in 1..9 |-> s[i]]
       /\ s[1] = m /\ s[2] = c /\ s[3] = flag /\ s[4] = mux /\ s[5] = mid
       /\ s[6] = candidate /\ s[7] = end /\ s[8] = map /\ s[9] = source
  BY ONLY <1>2
<1>13. flag.kind \notin {"ice-lite", "m", "malformed"}
  BY ONLY <1>5 DEF Flags
<1>14. \A i \in 1..9 : /\ ReadsBack(s[i]) /\ s[i].kind \notin {"ice-lite", "malformed"}
                       /\ (i # 1 => s[i].kind # "m")
  BY ONLY <1>3, <1>4, <1>5, <1>6, <1>7, <1>8, <1>9, <1>10, <1>11, <1>12, <1>13
<1>15. \A i \in 1..9 : Returns(s[i]) /\ ReadAs(s[i]) = s[i]
  BY ONLY <1>14, OthersReturn
<1>16. SectionReturns(s)
  BY ONLY <1>12, <1>14, <1>15 DEF SectionReturns
<1> QED
  BY ONLY <1>3, <1>12, <1>15, <1>16

LEMMA VideoReturns ==
  ASSUME NEW id, NEW media, media.codec \in {"h264", "opus"}, NEW direction \in Directions,
         IsFiniteSet(media.capabilities),
         NEW s, s = VideoLines(Resolver, id, media, direction)
  PROVE  /\ Len(s) = 8 /\ DOMAIN s = 1..8 /\ s = [i \in 1..8 |-> s[i]] /\ SectionReturns(s)
         /\ ReadAs(s[1]).kind = "m" /\ ReadAs(s[1]).media_type = "video"
<1>1. IsIp(Resolver.candidate.ip)
  BY PathAssumption
<1> DEFINE m == [kind |-> "m", media_type |-> "video", transport_port |-> Resolver.candidate.port,
                 formats |-> <<media.payload_number>>]
           c == [kind |-> "c", ip |-> Resolver.candidate.ip]
           flag == [kind |-> direction]
           mux == [kind |-> "rtcp-mux"]
           mid == [kind |-> "mid", value |-> id]
           map == [kind |-> "rtpmap", payload_number |-> media.payload_number,
                   codec |-> media.codec]
           source == [kind |-> "ssrc", ssrc |-> media.host_ssrc, source |-> HOST_CNAME]
           fmtp == [kind |-> "fmtp", payload_number |-> media.payload_number,
                    capabilities |-> media.capabilities]
<1>2. s = <<m, c, flag, mux, mid, map, source, fmtp>>
  BY Zenon DEF VideoLines
<1>3. m.kind = "m" /\ m.media_type = "video" /\ ReadsBack(m)
  <2>1. PICK port, number :
          m = [kind |-> "m", media_type |-> "video", transport_port |-> port,
               formats |-> <<number>>]
    BY Zenon
  <2>2. <<number>> \in Seq({number}) /\ "video" \in {"audio", "video"}
    BY ONLY TRUE
  <2> HIDE DEF m
  <2> QED
    BY ONLY <2>1, <2>2, MediaReadsBack, Zenon
<1>4. c.kind = "c" /\ ReadsBack(c)
  BY ONLY <1>1, ConnectionReadsBack
<1>5. flag.kind \in Flags /\ ReadsBack(flag)
  <2>1. direction \in Flags
    BY DEF Directions, Flags
  <2> QED
    BY ONLY <2>1, FlagReadsBack
<1>6. mux.kind = "rtcp-mux" /\ ReadsBack(mux)
  BY ONLY FlagReadsBack DEF Flags
<1>7. mid.kind = "mid" /\ ReadsBack(mid)
  BY ONLY WordReadsBack
<1>8. map.kind = "rtpmap" /\ ReadsBack(map)
  BY RtpMapReadsBack
<1>9. source.kind = "ssrc" /\ ReadsBack(source)
  <2>1. HOST_CNAME # Unsupported
    BY DEF HOST_CNAME, Unsupported
  <2> QED
    BY ONLY <2>1, SsrcReadsBack
<1>10. fmtp.kind = "fmtp" /\ ReadsBack(fmtp)
  BY FmtpReadsBack
<1> HIDE DEF m, c, flag, mux, mid, map, source, fmtp
<1>11. /\ Len(s) = 8 /\ DOMAIN s = 1..8 /\ s = [i \in 1..8 |-> s[i]]
       /\ s[1] = m /\ s[2] = c /\ s[3] = flag /\ s[4] = mux /\ s[5] = mid
       /\ s[6] = map /\ s[7] = source /\ s[8] = fmtp
  BY ONLY <1>2
<1>12. flag.kind \notin {"ice-lite", "m", "malformed"}
  BY ONLY <1>5 DEF Flags
<1>13. \A i \in 1..8 : /\ ReadsBack(s[i]) /\ s[i].kind \notin {"ice-lite", "malformed"}
                       /\ (i # 1 => s[i].kind # "m")
  BY ONLY <1>3, <1>4, <1>5, <1>6, <1>7, <1>8, <1>9, <1>10, <1>11, <1>12
<1>14. \A i \in 1..8 : Returns(s[i]) /\ ReadAs(s[i]) = s[i]
  BY ONLY <1>13, OthersReturn
<1>15. SectionReturns(s)
  BY ONLY <1>11, <1>13, <1>14 DEF SectionReturns
<1> QED
  BY ONLY <1>3, <1>11, <1>14, <1>15

\* Sections that are put together as those of an answer are an SDP.
LEMMA TogetherIsSdp ==
  ASSUME NEW W, NEW x \in Seq(W), NEW y \in Seq(W), NEW z \in Seq(W), NEW t, t = x \o y \o z,
         Sectioned(x, y, z), Len(x) >= 4, Len(y) >= 1, Len(z) >= 1,
         \A i \in 1..Len(x) : x[i].kind # "malformed",
         \A i \in 1..Len(y) : y[i].kind # "malformed",
         \A i \in 1..Len(z) : z[i].kind # "malformed",
         \A i \in 1..4 : x[i].kind = <<"v", "o", "s", "t">>[i],
         x[1].value = <<Num(0)>>,
         y[1].kind = "m", y[1].media_type = "audio",
         z[1].kind = "m", z[1].media_type = "video"
  PROVE  IsSdp(t)
<1> DEFINE l == Len(x)
           m == Len(y)
           n == Len(z)
<1>1. l \in Nat /\ m \in Nat /\ n \in Nat /\ l >= 4 /\ m >= 1 /\ n >= 1
  OBVIOUS
<1>2. /\ t \in Seq(W) /\ Len(t) = l + m + n
      /\ \A i \in 1..l : t[i] = x[i]
      /\ \A i \in 1..m : t[l + i] = y[i]
      /\ \A i \in 1..n : t[l + m + i] = z[i]
  <2>1. Whole(W, t, x, y, z)
    BY Join
  <2> QED
    BY <2>1, Zenon DEF Whole
<1>3. DOMAIN t = 1..(l + m + n) /\ DOMAIN x = 1..l /\ DOMAIN y = 1..m /\ DOMAIN z = 1..n
  BY <1>2
<1>4. /\ \A i \in 1..l : x[i].kind \notin {"m", "malformed"}
      /\ \A i \in 1..m : y[i].kind # "malformed" /\ (y[i].kind = "m" => i = 1)
      /\ \A i \in 1..n : z[i].kind # "malformed" /\ (z[i].kind = "m" => i = 1)
  BY <1>3, Zenon DEF Sectioned
<1>5. /\ t[l + 1].kind = "m" /\ t[l + 1].media_type = "audio"
      /\ t[l + m + 1].kind = "m" /\ t[l + m + 1].media_type = "video"
      /\ l + 1 \in DOMAIN t /\ l + m + 1 \in DOMAIN t /\ l + 1 < l + m + 1
  BY <1>1, <1>2, <1>3
<1>6. /\ \A i \in 1..4 : t[i].kind = <<"v", "o", "s", "t">>[i]
      /\ t[1].value = <<Num(0)>> /\ Len(t) >= 4
  BY <1>1, <1>2
<1> HIDE DEF l, m, n
<1>7. \A i \in DOMAIN t : /\ t[i].kind # "malformed"
                          /\ t[i].kind = "m" => i = l + 1 \/ i = l + m + 1
  <2> SUFFICES ASSUME NEW i \in DOMAIN t
               PROVE  /\ t[i].kind # "malformed"
                      /\ t[i].kind = "m" => i = l + 1 \/ i = l + m + 1
    OBVIOUS
  <2>1. CASE i \in 1..l
    BY ONLY <1>2, <1>4, <2>1
  <2>2. ASSUME NEW j \in 1..m, i = l + j
        PROVE  t[i].kind # "malformed" /\ (t[i].kind = "m" => i = l + 1)
    BY ONLY <1>2, <1>4, <2>2
  <2>3. ASSUME NEW j \in 1..n, i = l + m + j
        PROVE  t[i].kind # "malformed" /\ (t[i].kind = "m" => i = l + m + 1)
    BY ONLY <1>2, <1>4, <2>3
  <2>4. i \in 1..(l + m + n) /\ l \in Nat /\ m \in Nat /\ n \in Nat
    BY <1>1, <1>3
  <2>5. i \in 1..l \/ (\E j \in 1..m : i = l + j) \/ (\E j \in 1..n : i = l + m + j)
    BY ONLY <2>4, PlaceIn, Zenon
  <2> QED
    BY ONLY <2>1, <2>2, <2>3, <2>5
<1>8. Places(t, "m") = {l + 1, l + m + 1}
  BY <1>5, <1>7, Zenon DEF Places
<1>9. ~ Has(t, "malformed")
  BY <1>7, Zenon DEF Has, Places
<1>10. \E a, v \in DOMAIN t :
         /\ Places(t, "m") = {a, v} /\ a < v
         /\ t[a].media_type = "audio" /\ t[v].media_type = "video"
  BY <1>5, <1>8, Zenon
<1> QED
  BY <1>6, <1>9, <1>10, Zenon DEF IsSdp

\* What is read for the text of three sections.
LEMMA TextReturns ==
  ASSUME NEW W, NEW x \in Seq(W), NEW y \in Seq(W), NEW z \in Seq(W), NEW answer,
         answer.session = x, answer.audio = y, answer.video = z,
         SectionReturns(x), SectionReturns(y), SectionReturns(z)
  PROVE  ParseLines(PrintSdp(answer)) = AsRead(x) \o AsRead(y) \o AsRead(z)
<1> DEFINE R == {ReadAs(line) : line \in W}
           t == x \o y \o z
           p == ParseLines(PrintSdp(answer))
           q == AsRead(x) \o AsRead(y) \o AsRead(z)
           l == Len(x)
           m == Len(y)
           n == Len(z)
<1>1. l \in Nat /\ m \in Nat /\ n \in Nat
  OBVIOUS
<1>2. /\ t \in Seq(W) /\ Len(t) = l + m + n
      /\ \A i \in 1..l : t[i] = x[i]
      /\ \A i \in 1..m : t[l + i] = y[i]
      /\ \A i \in 1..n : t[l + m + i] = z[i]
  <2>1. Whole(W, t, x, y, z)
    BY Join
  <2> QED
    BY <2>1 DEF Whole
<1>3. \A s \in Seq(W) : /\ AsRead(s) \in Seq(R) /\ Len(AsRead(s)) = Len(s)
                        /\ \A i \in 1..Len(s) : AsRead(s)[i] = ReadAs(s[i])
  <2> SUFFICES ASSUME NEW s \in Seq(W)
               PROVE  /\ AsRead(s) \in Seq(R) /\ Len(AsRead(s)) = Len(s)
                      /\ \A i \in 1..Len(s) : AsRead(s)[i] = ReadAs(s[i])
    BY Zenon
  <2>1. DOMAIN s = 1..Len(s) /\ Len(s) \in Nat /\ \A i \in 1..Len(s) : s[i] \in W
    OBVIOUS
  <2>2. AsRead(s) = [i \in 1..Len(s) |-> ReadAs(s[i])]
    BY <2>1 DEF AsRead, ReadAs
  <2>3. \A i \in 1..Len(s) : ReadAs(s[i]) \in R
    BY <2>1
  <2> HIDE DEF R
  <2> DEFINE r == AsRead(s)
  <2>4. r \in [1..Len(s) -> R] /\ \A i \in 1..Len(s) : r[i] = ReadAs(s[i])
    BY <2>2, <2>3
  <2> HIDE DEF r
  <2>5. r \in Seq(R) /\ Len(r) = Len(s)
    BY ONLY <2>1, <2>4
  <2> QED
    BY ONLY <2>4, <2>5 DEF r
<1> HIDE DEF R
<1>4. /\ AsRead(x) \in Seq(R) /\ Len(AsRead(x)) = l
      /\ AsRead(y) \in Seq(R) /\ Len(AsRead(y)) = m
      /\ AsRead(z) \in Seq(R) /\ Len(AsRead(z)) = n
      /\ \A i \in 1..l : AsRead(x)[i] = ReadAs(x[i])
      /\ \A i \in 1..m : AsRead(y)[i] = ReadAs(y[i])
      /\ \A i \in 1..n : AsRead(z)[i] = ReadAs(z[i])
  BY <1>3
<1>5. /\ q \in Seq(R) /\ Len(q) = l + m + n
      /\ \A i \in 1..l : q[i] = ReadAs(x[i])
      /\ \A i \in 1..m : q[l + i] = ReadAs(y[i])
      /\ \A i \in 1..n : q[l + m + i] = ReadAs(z[i])
  <2>1. Whole(R, q, AsRead(x), AsRead(y), AsRead(z))
    BY ONLY <1>4, Join
  <2> HIDE DEF q
  <2>2. /\ q \in Seq(R) /\ Len(q) = l + m + n
        /\ \A i \in 1..l : q[i] = AsRead(x)[i]
        /\ \A i \in 1..m : q[l + i] = AsRead(y)[i]
        /\ \A i \in 1..n : q[l + m + i] = AsRead(z)[i]
    BY ONLY <1>4, <2>1 DEF Whole
  <2> QED
    BY ONLY <1>4, <2>2
<1>6. /\ DOMAIN t = 1..(l + m + n) /\ l + m + n \in Nat
      /\ p = [i \in 1..(l + m + n) |-> ParseLine(PrintLine(t[i]))]
  <2>1. DOMAIN t = 1..(l + m + n) /\ l + m + n \in Nat
    BY <1>1, <1>2
  <2>2. PrintSdp(answer) = [i \in DOMAIN t |-> PrintLine(t[i])]
    BY DEF PrintSdp
  <2> HIDE DEF t
  <2>3. p = [i \in DOMAIN t |-> ParseLine(PrintLine(t[i]))]
    BY <2>2 DEF ParseLines
  <2> QED
    BY <2>1, <2>3
<1>7. /\ \A i \in 1..l : ParseLine(PrintLine(x[i])) = ReadAs(x[i])
      /\ \A i \in 1..m : ParseLine(PrintLine(y[i])) = ReadAs(y[i])
      /\ \A i \in 1..n : ParseLine(PrintLine(z[i])) = ReadAs(z[i])
  BY Zenon DEF SectionReturns, Returns
<1> HIDE DEF l, m, n, t, p, q
<1>8. ASSUME NEW i \in 1..(l + m + n) PROVE p[i] = q[i]
  <2>1. p[i] = ParseLine(PrintLine(t[i]))
    BY ONLY <1>6, <1>8
  <2>2. CASE i \in 1..l
    BY ONLY <1>2, <1>5, <1>7, <2>1, <2>2
  <2>3. ASSUME NEW j \in 1..m, i = l + j PROVE p[i] = q[i]
    BY ONLY <1>2, <1>5, <1>7, <2>1, <2>3
  <2>4. ASSUME NEW j \in 1..n, i = l + m + j PROVE p[i] = q[i]
    BY ONLY <1>2, <1>5, <1>7, <2>1, <2>4
  <2>5. i \in 1..l \/ (\E j \in 1..m : i = l + j) \/ (\E j \in 1..n : i = l + m + j)
    BY ONLY <1>1, <1>8, PlaceIn
  <2> QED
    BY ONLY <2>2, <2>3, <2>4, <2>5
<1>9. p = q
  <2>1. q = [i \in 1..(l + m + n) |-> q[i]]
    BY ONLY <1>5, <1>6
  <2> QED
    BY ONLY <1>6, <1>8, <2>1
<1> QED
  BY <1>9 DEF p, q

\* An answer, as AnswersReadable wants it.
Readable(answer) ==
  LET lines == ParseLines(PrintSdp(answer)) IN
  /\ \A media \in {"session", "audio", "video"} :
       \A i \in DOMAIN answer[media] : Printable(answer[media][i])
  /\ IsSdp(lines)
  /\ get_sdp(lines) = [session |-> AsRead(answer.session), audio |-> AsRead(answer.audio),
                       video |-> AsRead(answer.video)]

LEMMA AnswerReads ==
  ASSUME NEW ids, NEW credentials, NEW audio, NEW video, NEW direction \in Directions,
         audio.codec \in {"h264", "opus"}, video.codec \in {"h264", "opus"},
         IsFiniteSet(video.capabilities), NEW answer,
         answer = Answer(Resolver, ids, credentials, audio, video, direction)
  PROVE  Readable(answer)
<1>1. PICK x : x = SessionSection(Resolver, ids, credentials)
  OBVIOUS
<1>2. PICK y : y = AudioLines(Resolver, ids[1], audio, direction)
  OBVIOUS
<1>3. PICK z : z = VideoLines(Resolver, ids[2], video, direction)
  OBVIOUS
<1>4. answer = [session |-> x, audio |-> y, video |-> z]
  BY <1>1, <1>2, <1>3, AnswerIs
<1>5. answer.session = x /\ answer.audio = y /\ answer.video = z
  BY ONLY <1>4
<1>6. /\ Len(x) = 11 /\ DOMAIN x = 1..11 /\ x = [i \in 1..11 |-> x[i]] /\ SectionReturns(x)
      /\ \A i \in 1..4 : ReadAs(x[i]).kind = <<"v", "o", "s", "t">>[i]
      /\ ReadAs(x[1]).value = <<Num(0)>>
  BY ONLY <1>1, SessionReturns
<1>7. /\ Len(y) = 9 /\ DOMAIN y = 1..9 /\ y = [i \in 1..9 |-> y[i]] /\ SectionReturns(y)
      /\ ReadAs(y[1]).kind = "m" /\ ReadAs(y[1]).media_type = "audio"
  BY <1>2, AudioReturns, SMTT(30)
<1>8. /\ Len(z) = 8 /\ DOMAIN z = 1..8 /\ z = [i \in 1..8 |-> z[i]] /\ SectionReturns(z)
      /\ ReadAs(z[1]).kind = "m" /\ ReadAs(z[1]).media_type = "video"
  BY <1>3, VideoReturns, SMTT(30)
<1> DEFINE W == Members(x) \cup Members(y) \cup Members(z)
<1>9. x \in Seq(W) /\ y \in Seq(W) /\ z \in Seq(W)
  <2>1. \A i \in 1..11 : x[i] \in W
    BY ONLY <1>6 DEF Members
  <2>2. \A i \in 1..9 : y[i] \in W
    BY ONLY <1>7 DEF Members
  <2>3. \A i \in 1..8 : z[i] \in W
    BY ONLY <1>8 DEF Members
  <2> HIDE DEF W
  <2>4. x \in Seq(W)
    BY ONLY <1>6, <2>1
  <2>5. y \in Seq(W)
    BY ONLY <1>7, <2>2
  <2>6. z \in Seq(W)
    BY ONLY <1>8, <2>3
  <2> QED
    BY <2>4, <2>5, <2>6
<1> HIDE DEF W
<1>10. PICK lines : lines = ParseLines(PrintSdp(answer))
  OBVIOUS
<1>11. PICK rx, ry, rz : rx = AsRead(x) /\ ry = AsRead(y) /\ rz = AsRead(z)
  OBVIOUS
<1>12. lines = rx \o ry \o rz
  <2>1. ParseLines(PrintSdp(answer)) = AsRead(x) \o AsRead(y) \o AsRead(z)
    <3>1. SectionReturns(x) /\ SectionReturns(y) /\ SectionReturns(z)
      BY ONLY <1>6, <1>7, <1>8
    <3> QED
      BY ONLY <1>5, <1>9, <3>1, TextReturns
  <2> QED
    BY ONLY <1>10, <1>11, <2>1
<1>13. PICK V : rx \in Seq(V) /\ ry \in Seq(V) /\ rz \in Seq(V)
  <2> DEFINE R == {ReadAs(line) : line \in W}
  <2>1. \A s \in Seq(W) : AsRead(s) \in Seq(R)
    <3> SUFFICES ASSUME NEW s \in Seq(W) PROVE AsRead(s) \in Seq(R)
      OBVIOUS
    <3>1. DOMAIN s = 1..Len(s) /\ Len(s) \in Nat /\ \A i \in 1..Len(s) : s[i] \in W
      OBVIOUS
    <3>2. AsRead(s) = [i \in 1..Len(s) |-> ReadAs(s[i])]
      BY <3>1 DEF AsRead, ReadAs
    <3>3. \A i \in 1..Len(s) : ReadAs(s[i]) \in R
      BY <3>1
    <3> HIDE DEF R
    <3> QED
      BY <3>1, <3>2, <3>3
  <2> QED
    BY <1>9, <1>11, <2>1, Zenon
<1>14. /\ Len(rx) = 11 /\ DOMAIN rx = 1..11 /\ \A i \in 1..11 : rx[i] = ReadAs(x[i])
       /\ Len(ry) = 9 /\ DOMAIN ry = 1..9 /\ \A i \in 1..9 : ry[i] = ReadAs(y[i])
       /\ Len(rz) = 8 /\ DOMAIN rz = 1..8 /\ \A i \in 1..8 : rz[i] = ReadAs(z[i])
  <2>1. \A s : AsRead(s) = [i \in DOMAIN s |-> ReadAs(s[i])]
    BY DEF AsRead, ReadAs
  <2>2. /\ rx = [i \in 1..11 |-> ReadAs(x[i])]
        /\ ry = [i \in 1..9 |-> ReadAs(y[i])]
        /\ rz = [i \in 1..8 |-> ReadAs(z[i])]
    BY ONLY <1>6, <1>7, <1>8, <1>11, <2>1
  <2> QED
    BY ONLY <2>2
<1>15. /\ \A i \in 1..11 : Printable(x[i]) /\ rx[i].kind # "malformed" /\ (i # 1 => rx[i].kind # "m")
       /\ \A i \in 1..9 : Printable(y[i]) /\ ry[i].kind # "malformed" /\ (i # 1 => ry[i].kind # "m")
       /\ \A i \in 1..8 : Printable(z[i]) /\ rz[i].kind # "malformed" /\ (i # 1 => rz[i].kind # "m")
  <2>1. /\ \A i \in 1..11 : Printable(x[i]) /\ ReadAs(x[i]).kind # "malformed"
        /\ \A i \in 2..11 : ReadAs(x[i]).kind # "m"
    BY ONLY <1>6 DEF SectionReturns, Returns
  <2>2. /\ \A i \in 1..9 : Printable(y[i]) /\ ReadAs(y[i]).kind # "malformed"
        /\ \A i \in 2..9 : ReadAs(y[i]).kind # "m"
    BY ONLY <1>7 DEF SectionReturns, Returns
  <2>3. /\ \A i \in 1..8 : Printable(z[i]) /\ ReadAs(z[i]).kind # "malformed"
        /\ \A i \in 2..8 : ReadAs(z[i]).kind # "m"
    BY ONLY <1>8 DEF SectionReturns, Returns
  <2> QED
    BY ONLY <1>14, <2>1, <2>2, <2>3
<1>16. /\ \A i \in 1..4 : rx[i].kind = <<"v", "o", "s", "t">>[i]
       /\ rx[1].value = <<Num(0)>> /\ rx[1].kind # "m"
       /\ ry[1].kind = "m" /\ ry[1].media_type = "audio"
       /\ rz[1].kind = "m" /\ rz[1].media_type = "video"
  BY ONLY <1>6, <1>7, <1>8, <1>14
<1>17. Sectioned(rx, ry, rz)
  BY ONLY <1>14, <1>15, <1>16 DEF Sectioned
<1>18. IsSdp(lines)
  <2>1. /\ Len(rx) >= 4 /\ Len(ry) >= 1 /\ Len(rz) >= 1
        /\ \A i \in 1..Len(rx) : rx[i].kind # "malformed"
        /\ \A i \in 1..Len(ry) : ry[i].kind # "malformed"
        /\ \A i \in 1..Len(rz) : rz[i].kind # "malformed"
    BY ONLY <1>14, <1>15
  <2> QED
    BY ONLY <1>12, <1>13, <1>16, <1>17, <2>1, TogetherIsSdp, Zenon
<1>19. get_sdp(lines) = [session |-> rx, audio |-> ry, video |-> rz]
  BY ONLY <1>12, <1>13, <1>17, <1>18, SectionsFound, Zenon
<1>20. \A media \in {"session", "audio", "video"} :
         \A i \in DOMAIN answer[media] : Printable(answer[media][i])
  BY ONLY <1>5, <1>6, <1>7, <1>8, <1>15
<1> QED
  BY ONLY <1>5, <1>10, <1>11, <1>18, <1>19, <1>20, Zenon DEF Readable

\* AnswersReadable: whatever was offered and agreed, an answer that is written reads
\* back as what was meant, line by line, for any media ids, credentials and
\* capabilities.
THEOREM AnswersAreReadable == PathSpec => []AnswersReadable
<1>1. PathInv => AnswersReadable
  <2> SUFFICES ASSUME PathInv, NEW session \in {streamer, viewer} \ {None}
               PROVE  Readable(session.sdp_answer)
    BY DEF AnswersReadable, Readable
  <2>1. PICK offer : WellFormed(offer) /\ SessionFits(offer, session)
    BY StreamerAgreed, ViewerAgreed
  <2>2. /\ session.audio_session.codec = "opus" /\ session.video_session.codec = "h264"
        /\ IsFiniteSet(session.video_session.capabilities)
    <3>1. MediaFormed(offer.video)
      BY <2>1 DEF WellFormed, Sections
    <3>2. CapabilitiesOf(offer.video, session.video_session.payload_number)
            = {session.video_session.capabilities}
      BY <2>1 DEF SessionFits
    <3> QED
      BY <2>1, <3>1, <3>2, CapabilitiesFinite DEF SessionFits
  <2>3. \E ids, credentials : \E direction \in Directions :
          session.sdp_answer = Answer(Resolver, ids, credentials, session.audio_session,
                                      session.video_session, direction)
    <3>1. CASE session = streamer
      BY <3>1 DEF PathInv, accept_stream_offer, Negotiated, Directions
    <3>2. CASE session = viewer
      BY <3>2 DEF PathInv, accept_viewer_offer, Negotiated, Directions
    <3> QED
      BY <3>1, <3>2
  <2> QED
    BY <2>2, <2>3, AnswerReads
<1> QED
  BY <1>1, PathInvHolds, PTL

==============================================================================
