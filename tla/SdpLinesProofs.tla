---------------------------- MODULE SdpLinesProofs ---------------------------
(***************************************************************************)
(* The lines of a session description, for any text: what they are read    *)
(* as, and that they are read back as they are printed.                    *)
(***************************************************************************)
EXTENDS SdpLines, SequenceTheorems, FiniteSetTheorems, TLAPS

------------------------------------------------------------------------------
\* Lines.

\* What is read of a line is of the kind its type or key says, if it can be read.
LEMMA AttributeKind ==
  ASSUME NEW key, NEW words
  PROVE  ParseAttribute(key, words).kind \in {key, "malformed", "other"}
<1>1. CASE key \in {"ice-ufrag", "ice-pwd", "mid"}
  <2>1. ParseAttribute(key, words) = ParseValue(key, words)
    BY <1>1 DEF ParseAttribute, Flags
  <2> QED
    BY <2>1 DEF ParseValue, Malformed
<1>2. CASE key = "fingerprint"
  BY <1>2 DEF ParseAttribute, ParseFingerprint, Malformed
<1>3. CASE key = "candidate"
  BY <1>3 DEF ParseAttribute, ParseCandidate, Malformed
<1>4. CASE key = "ssrc"
  BY <1>4 DEF ParseAttribute, ParseSsrc, Malformed
<1>5. CASE key \in Flags
  BY <1>5 DEF ParseAttribute, Flags
<1>6. CASE key = "group"
  BY <1>6 DEF ParseAttribute, ParseGroup, Malformed, Flags
<1>7. CASE key = "rtpmap"
  BY <1>7 DEF ParseAttribute, ParseRtpMap, Malformed, Flags
<1>8. CASE key = "fmtp"
  BY <1>8 DEF ParseAttribute, ParseFmtp, Malformed, Flags
<1>9. CASE key = "ice-options"
  BY <1>9 DEF ParseAttribute, ParseIceOptions, Malformed, Flags
<1>10. CASE key = "setup"
  BY <1>10 DEF ParseAttribute, ParseSetup, Malformed, Flags
<1>11. CASE key \notin {"ice-ufrag", "ice-pwd", "mid", "fingerprint", "candidate", "ssrc", "group",
                        "rtpmap", "fmtp", "ice-options", "setup"} \cup Flags
  BY <1>11 DEF ParseAttribute, Unrecognized
<1> QED
  BY <1>1, <1>2, <1>3, <1>4, <1>5, <1>6, <1>7, <1>8, <1>9, <1>10, <1>11

LEMMA LineKind ==
  ASSUME NEW line
  PROVE  IF line.type = "a" THEN ParseLine(line) = ParseAttribute(line.key, line.words)
         ELSE ParseLine(line).kind \in {"v", "s", "o", "t", "c", "m", "malformed", "other"}
<1>1. CASE line.type = "a"
  BY <1>1 DEF ParseLine
<1>2. CASE line.type = ""
  BY <1>2, Zenon DEF ParseLine, Malformed
<1>3. CASE line.type \in {"v", "s"}
  BY <1>3 DEF ParseLine
<1>4. CASE line.type = "o"
  BY <1>4 DEF ParseLine, ParseOriginator, Malformed
<1>5. CASE line.type = "t"
  BY <1>5 DEF ParseLine, ParseTime, Malformed
<1>6. CASE line.type = "c"
  BY <1>6 DEF ParseLine, ParseConnection, Malformed
<1>7. CASE line.type = "m"
  BY <1>7 DEF ParseLine, ParseMedia, Malformed
<1>8. CASE line.type \notin {"a", "", "v", "s", "o", "t", "c", "m"}
  BY <1>8, Zenon DEF ParseLine, Unrecognized
<1> QED
  BY <1>1, <1>2, <1>3, <1>4, <1>5, <1>6, <1>7, <1>8, Zenon

\* The attributes the resolver goes by, apart from those of the session.
AttributeKinds == {"rtpmap", "fmtp", "mid", "sendonly", "recvonly"}

LEMMA AttributeRead ==
  ASSUME NEW line, NEW kind \in AttributeKinds, ParseLine(line).kind = kind
  PROVE  line.key = kind /\ ParseLine(line) = ParseAttribute(kind, line.words)
<1>1. kind \notin {"v", "s", "o", "t", "c", "m", "malformed", "other"}
  BY DEF AttributeKinds
<1>2. line.type = "a" /\ ParseLine(line) = ParseAttribute(line.key, line.words)
  BY <1>1, LineKind
<1>3. ParseAttribute(line.key, line.words).kind \in {line.key, "malformed", "other"}
  BY AttributeKind
<1> QED
  BY <1>1, <1>2, <1>3

------------------------------------------------------------------------------
\* Sequences of words and lines.

LEMMA SeqEqualOne ==
  ASSUME NEW W, NEW s \in Seq(W), NEW t \in Seq(W), Len(s) = 1, Len(t) = 1, s[1] = t[1]
  PROVE  s = t
<1>1. \A i \in 1..Len(s) : s[i] = t[i]
  OBVIOUS
<1> QED
  BY ONLY <1>1, Len(s) = Len(t), s \in Seq(W), t \in Seq(W), SeqEqual

LEMMA TailOfTwo ==
  ASSUME NEW W, NEW words \in Seq(W), Len(words) = 2
  PROVE  words[2] \in W /\ Tail(words) = <<words[2]>>
<1>1. words[2] \in W
  OBVIOUS
<1>2. Tail(words) \in Seq(W) /\ Len(Tail(words)) = 1 /\ Tail(words)[1] = words[2]
  <2>1. words # <<>>
    OBVIOUS
  <2>2. /\ Tail(words) \in Seq(W) /\ Len(Tail(words)) = Len(words) - 1
        /\ \A i \in 1..Len(Tail(words)) : Tail(words)[i] = words[i + 1]
    BY <2>1, HeadTailProperties, Zenon
  <2>3. PICK tail : tail = Tail(words)
    BY Zenon
  <2>4. tail \in Seq(W) /\ Len(tail) = 1 /\ tail[1] = words[2]
    <3>1. /\ tail \in Seq(W) /\ Len(tail) = Len(words) - 1
          /\ \A i \in 1..Len(tail) : tail[i] = words[i + 1]
      BY <2>2, <2>3, Zenon
    <3> QED
      BY ONLY <3>1, Len(words) = 2
  <2> QED
    BY ONLY <2>3, <2>4, Zenon
<1>3. <<words[2]>> \in Seq(W) /\ Len(<<words[2]>>) = 1 /\ <<words[2]>>[1] = words[2]
  BY <1>1
<1> QED
  BY ONLY <1>1, <1>2, <1>3, SeqEqualOne, Zenon

\* t is x, y and z after each other.
Whole(W, t, x, y, z) ==
  /\ t \in Seq(W) /\ Len(t) = Len(x) + Len(y) + Len(z)
  /\ \A i \in 1..Len(x) : t[i] = x[i]
  /\ \A i \in 1..Len(y) : t[Len(x) + i] = y[i]
  /\ \A i \in 1..Len(z) : t[Len(x) + Len(y) + i] = z[i]

LEMMA Join ==
  ASSUME NEW W, NEW x \in Seq(W), NEW y \in Seq(W), NEW z \in Seq(W)
  PROVE  Whole(W, x \o y \o z, x, y, z)
<1> DEFINE u == x \o y
<1>1. /\ u \in Seq(W) /\ Len(u) = Len(x) + Len(y)
      /\ \A i \in 1..(Len(x) + Len(y)) : u[i] = IF i <= Len(x) THEN x[i] ELSE y[i - Len(x)]
  BY ConcatProperties
<1> HIDE DEF u
<1>2. /\ u \o z \in Seq(W) /\ Len(u \o z) = Len(u) + Len(z)
      /\ \A i \in 1..(Len(u) + Len(z)) : (u \o z)[i] = IF i <= Len(u) THEN u[i] ELSE z[i - Len(u)]
  <2>1. \A s, t \in Seq(W) :
          /\ s \o t \in Seq(W) /\ Len(s \o t) = Len(s) + Len(t)
          /\ \A i \in 1..(Len(s) + Len(t)) : (s \o t)[i] = IF i <= Len(s) THEN s[i] ELSE t[i - Len(s)]
    BY ONLY ConcatProperties
  <2> QED
    BY ONLY <1>1, <2>1, z \in Seq(W), Zenon
<1>3. Len(x) \in Nat /\ Len(y) \in Nat /\ Len(z) \in Nat
  OBVIOUS
<1> DEFINE t == u \o z
<1> HIDE DEF t
<1>4. /\ t \in Seq(W) /\ Len(t) = Len(x) + Len(y) + Len(z)
      /\ \A i \in 1..(Len(x) + Len(y) + Len(z)) :
           t[i] = IF i <= Len(x) + Len(y) THEN u[i] ELSE z[i - (Len(x) + Len(y))]
  BY <1>1, <1>2 DEF t
<1>5. \A i \in 1..Len(x) : t[i] = x[i]
  <2> SUFFICES ASSUME NEW i \in 1..Len(x) PROVE t[i] = x[i]
    OBVIOUS
  <2>1. i \in 1..(Len(x) + Len(y)) /\ i \in 1..(Len(x) + Len(y) + Len(z)) /\ i <= Len(x) + Len(y) /\ i <= Len(x)
    BY ONLY <1>3, i \in 1..Len(x)
  <2> QED
    BY ONLY <1>1, <1>4, <2>1
<1>6. \A i \in 1..Len(y) : t[Len(x) + i] = y[i]
  <2> SUFFICES ASSUME NEW i \in 1..Len(y) PROVE t[Len(x) + i] = y[i]
    OBVIOUS
  <2> DEFINE k == Len(x) + i
  <2>1. k \in 1..(Len(x) + Len(y)) /\ k \in 1..(Len(x) + Len(y) + Len(z)) /\ k <= Len(x) + Len(y)
        /\ ~ (k <= Len(x)) /\ k - Len(x) = i
    BY ONLY <1>3, i \in 1..Len(y)
  <2> HIDE DEF k
  <2>2. t[k] = y[i]
    BY ONLY <1>1, <1>4, <2>1
  <2> QED
    BY <2>2 DEF k
<1>7. \A i \in 1..Len(z) : t[Len(x) + Len(y) + i] = z[i]
  <2> SUFFICES ASSUME NEW i \in 1..Len(z) PROVE t[Len(x) + Len(y) + i] = z[i]
    OBVIOUS
  <2> DEFINE k == Len(x) + Len(y) + i
  <2>1. k \in 1..(Len(x) + Len(y) + Len(z)) /\ ~ (k <= Len(x) + Len(y)) /\ k - (Len(x) + Len(y)) = i
    BY ONLY <1>3, i \in 1..Len(z)
  <2> HIDE DEF k
  <2>2. t[k] = z[i]
    BY ONLY <1>4, <2>1
  <2> QED
    BY <2>2 DEF k
<1>8. Whole(W, t, x, y, z)
  BY <1>4, <1>5, <1>6, <1>7 DEF Whole
<1> QED
  BY <1>8 DEF t, u

\* Where a place of the whole is.
LEMMA PlaceIn ==
  ASSUME NEW l \in Nat, NEW m \in Nat, NEW n \in Nat, NEW i \in 1..(l + m + n)
  PROVE  \/ i \in 1..l
         \/ \E j \in 1..m : i = l + j
         \/ \E j \in 1..n : i = l + m + j
<1>1. CASE i <= l
  BY <1>1
<1>2. CASE i > l /\ i <= l + m
  <2>1. i - l \in 1..m /\ i = l + (i - l)
    BY <1>2
  <2> QED
    BY <2>1
<1>3. CASE i > l + m
  <2>1. i - (l + m) \in 1..n /\ i = l + m + (i - (l + m))
    BY <1>3
  <2> QED
    BY <2>1
<1> QED
  BY <1>1, <1>2, <1>3

\* A section of the whole.
LEMMA Part ==
  ASSUME NEW W, NEW t \in Seq(W), NEW x \in Seq(W), NEW k \in Nat, k + Len(x) <= Len(t),
         \A i \in 1..Len(x) : t[k + i] = x[i]
  PROVE  SubSeq(t, k + 1, k + Len(x)) = x
<1> DEFINE m == k + 1
           n == k + Len(x)
           u == SubSeq(t, m, n)
<1>1. m \in Int /\ n \in Int /\ Len(x) \in Nat /\ Len(t) \in Nat
  OBVIOUS
<1>2. \A i \in m..n : t[i] \in W
  <2>1. \A i \in m..n : i \in 1..Len(t)
    OBVIOUS
  <2> QED
    BY <2>1, ElementOfSeq
<1>3. /\ u \in Seq(W) /\ Len(u) = IF m <= n THEN n - m + 1 ELSE 0
      /\ \A i \in 1..(n - m + 1) : u[i] = t[m + i - 1]
  BY ONLY <1>1, <1>2, SubSeqProperties
<1>4. n - m + 1 = Len(x) /\ (m <= n \/ Len(x) = 0)
  BY <1>1
<1>5. Len(u) = Len(x)
  BY ONLY <1>1, <1>3, <1>4
<1>6. ASSUME NEW i \in 1..Len(u) PROVE u[i] = x[i]
  <2>1. i \in 1..(n - m + 1) /\ m + i - 1 = k + i /\ i \in 1..Len(x)
    BY <1>1, <1>4, <1>5
  <2> QED
    BY <1>3, <2>1, Zenon
<1> QED
  BY ONLY <1>3, <1>5, <1>6, x \in Seq(W), SeqEqual, Zenon DEF u, m, n

LEMMA JoinTwo ==
  ASSUME NEW W, NEW x \in Seq(W), NEW y \in Seq(W)
  PROVE  Whole(W, x \o y, x, y, <<>>)
<1>1. \A s, t \in Seq(W) :
        /\ s \o t \in Seq(W) /\ Len(s \o t) = Len(s) + Len(t)
        /\ \A i \in 1..(Len(s) + Len(t)) : (s \o t)[i] = IF i <= Len(s) THEN s[i] ELSE t[i - Len(s)]
  BY ONLY ConcatProperties
<1> DEFINE t == x \o y
<1>2. /\ t \in Seq(W) /\ Len(t) = Len(x) + Len(y)
      /\ \A i \in 1..(Len(x) + Len(y)) : t[i] = IF i <= Len(x) THEN x[i] ELSE y[i - Len(x)]
  BY ONLY <1>1, x \in Seq(W), y \in Seq(W)
<1> HIDE DEF t
<1>3. Len(x) \in Nat /\ Len(y) \in Nat /\ <<>> \in Seq(W) /\ Len(<<>>) = 0
  OBVIOUS
<1>4. \A i \in 1..Len(x) : t[i] = x[i]
  BY ONLY <1>2, <1>3
<1>5. \A i \in 1..Len(y) : t[Len(x) + i] = y[i]
  BY ONLY <1>2, <1>3
<1>6. Whole(W, t, x, y, <<>>)
  BY ONLY <1>2, <1>3, <1>4, <1>5 DEF Whole
<1> QED
  BY <1>6 DEF t

\* A word before others.
LEMMA FirstWord ==
  ASSUME NEW W, NEW a \in W, NEW y \in Seq(W)
  PROVE  /\ <<a>> \o y \in Seq(W) /\ Len(<<a>> \o y) = Len(y) + 1
         /\ (<<a>> \o y)[1] = a /\ Tail(<<a>> \o y) = y
<1> DEFINE x == <<a>>
           t == x \o y
<1>1. x \in Seq(W) /\ Len(x) = 1 /\ x[1] = a
  OBVIOUS
<1> HIDE DEF x
<1>2. Whole(W, t, x, y, <<>>)
  BY ONLY <1>1, y \in Seq(W), JoinTwo
<1> HIDE DEF t
<1>3. /\ t \in Seq(W) /\ Len(t) = Len(y) + 1 /\ t[1] = a /\ Len(y) \in Nat
      /\ \A i \in 1..Len(y) : t[1 + i] = y[i]
  BY <1>1, <1>2 DEF Whole
<1> DEFINE u == Tail(t)
<1>4. u \in Seq(W) /\ Len(u) = Len(y) /\ \A i \in 1..Len(y) : u[i] = t[i + 1]
  BY <1>3, HeadTailProperties
<1> HIDE DEF u
<1>5. \A i \in 1..Len(u) : u[i] = y[i]
  BY ONLY <1>3, <1>4
<1>6. u = y
  BY ONLY <1>4, <1>5, y \in Seq(W), SeqEqual
<1> QED
  BY <1>3, <1>6 DEF t, u, x

------------------------------------------------------------------------------
\* Lines that are printed and read again.

\* A line is written and read again.
ReadsBack(line) == Printable(line) /\ ParseLine(PrintLine(line)) = line

\* Lines that are no attributes are written by their type, attributes by their key.
LEMMA ReadText ==
  ASSUME NEW words
  PROVE  /\ ParseLine(Text("v", "", words)) = [kind |-> "v", value |-> words]
         /\ ParseLine(Text("s", "", words)) = [kind |-> "s", value |-> words]
         /\ ParseLine(Text("o", "", words)) = ParseOriginator(words)
         /\ ParseLine(Text("t", "", words)) = ParseTime(words)
         /\ ParseLine(Text("c", "", words)) = ParseConnection(words)
         /\ ParseLine(Text("m", "", words)) = ParseMedia(words)
         /\ \A key : ParseLine(Text("a", key, words)) = ParseAttribute(key, words)
<1>1. \A type, key : /\ Text(type, key, words).type = type
                     /\ Text(type, key, words).key = key
                     /\ Text(type, key, words).words = words
  BY DEF Text
<1> HIDE DEF Text
<1>2. \A key : ParseLine(Text("a", key, words)) = ParseAttribute(key, words)
  BY <1>1, LineKind
<1>3. /\ ParseLine(Text("v", "", words)) = [kind |-> "v", value |-> words]
      /\ ParseLine(Text("s", "", words)) = [kind |-> "s", value |-> words]
  <2>1. ASSUME NEW type \in {"v", "s"}
        PROVE  ParseLine(Text(type, "", words)) = [kind |-> type, value |-> words]
    <3>1. PICK line : line = Text(type, "", words)
      BY Zenon
    <3>2. line.type = type /\ line.words = words
      BY <1>1, <3>1, Zenon
    <3>3. ParseLine(line) = [kind |-> line.type, value |-> line.words]
      BY ONLY <3>2, type \in {"v", "s"} DEF ParseLine
    <3> QED
      BY ONLY <3>1, <3>2, <3>3, Zenon
  <2> QED
    BY <2>1, Zenon
<1>4. ParseLine(Text("o", "", words)) = ParseOriginator(words)
  <2> DEFINE line == Text("o", "", words)
  <2>1. line.type = "o" /\ line.words = words
    BY <1>1, Zenon
  <2> HIDE DEF line
  <2>2. ParseLine(line) = ParseOriginator(line.words)
    BY ONLY <2>1 DEF ParseLine
  <2>3. ParseLine(line) = ParseOriginator(words)
    BY ONLY <2>1, <2>2
  <2> QED
    BY ONLY <2>3, Zenon DEF line
<1>5. ParseLine(Text("t", "", words)) = ParseTime(words)
  <2> DEFINE line == Text("t", "", words)
  <2>1. line.type = "t" /\ line.words = words
    BY <1>1, Zenon
  <2> HIDE DEF line
  <2>2. ParseLine(line) = ParseTime(line.words)
    BY ONLY <2>1 DEF ParseLine
  <2>3. ParseLine(line) = ParseTime(words)
    BY ONLY <2>1, <2>2
  <2> QED
    BY ONLY <2>3, Zenon DEF line
<1>6. ParseLine(Text("c", "", words)) = ParseConnection(words)
  <2> DEFINE line == Text("c", "", words)
  <2>1. line.type = "c" /\ line.words = words
    BY <1>1, Zenon
  <2> HIDE DEF line
  <2>2. ParseLine(line) = ParseConnection(line.words)
    BY ONLY <2>1 DEF ParseLine
  <2>3. ParseLine(line) = ParseConnection(words)
    BY ONLY <2>1, <2>2
  <2> QED
    BY ONLY <2>3, Zenon DEF line
<1>7. ParseLine(Text("m", "", words)) = ParseMedia(words)
  <2> DEFINE line == Text("m", "", words)
  <2>1. line.type = "m" /\ line.words = words
    BY <1>1, Zenon
  <2> HIDE DEF line
  <2>2. ParseLine(line) = ParseMedia(line.words)
    BY ONLY <2>1 DEF ParseLine
  <2>3. ParseLine(line) = ParseMedia(words)
    BY ONLY <2>1, <2>2
  <2> QED
    BY ONLY <2>3, Zenon DEF line
<1> QED
  BY ONLY <1>2, <1>3, <1>4, <1>5, <1>6, <1>7, Zenon

LEMMA ValueReadsBack ==
  ASSUME NEW line, NEW value, NEW kind \in {"v", "s"}, line = [kind |-> kind, value |-> value]
  PROVE  ReadsBack(line)
<1>1. line.kind = kind /\ line.value = value
  OBVIOUS
<1>2. Printable(line)
  BY <1>1 DEF Printable
<1>3. PrintLine(line) = Text(kind, "", value)
  BY <1>1, Zenon DEF PrintLine
<1> QED
  BY <1>2, <1>3, ReadText, Zenon DEF ReadsBack

LEMMA OriginatorReadsBack ==
  ASSUME NEW line, NEW username, NEW a, NEW b, NEW ip, IsIp(ip),
         line = [kind |-> "o", username |-> username, session |-> <<a, b>>, ip |-> ip]
  PROVE  ReadsBack(line)
<1>1. /\ line.kind = "o" /\ line.username = username /\ line.session = <<a, b>> /\ line.ip = ip
      /\ line.session[1] = a /\ line.session[2] = b
  OBVIOUS
<1>2. Printable(line)
  BY <1>1 DEF Printable
<1> DEFINE words == <<username, a, b, Cap("in"), AddressType(ip), ip>>
<1>3. PrintLine(line) = Text("o", "", words)
  BY <1>1 DEF PrintLine
<1>4. ParseOriginator(words) = line
  <2>1. /\ Len(words) = 6 /\ words[1] = username /\ words[2] = a /\ words[3] = b
        /\ words[4] = Cap("in") /\ words[5] = AddressType(ip) /\ words[6] = ip
    OBVIOUS
  <2> HIDE DEF words
  <2>2. IsAddress(words[5], words[6]) /\ Len(words) >= 6
    BY <2>1 DEF IsAddress
  <2> QED
    BY <2>1, <2>2 DEF ParseOriginator
<1> QED
  BY <1>2, <1>3, <1>4, ReadText, Zenon DEF ReadsBack

LEMMA TimeReadsBack ==
  ASSUME NEW line, NEW a, NEW b, line = [kind |-> "t", start_time |-> a, end_time |-> b]
  PROVE  ReadsBack(line)
<1>1. line.kind = "t" /\ line.start_time = a /\ line.end_time = b
  OBVIOUS
<1>2. Printable(line)
  BY <1>1 DEF Printable
<1>3. PrintLine(line) = Text("t", "", <<Num(a), Num(b)>>)
  BY <1>1 DEF PrintLine
<1>4. ParseTime(<<Num(a), Num(b)>>) = line
  <2>1. IsNum(Num(a)) /\ IsNum(Num(b)) /\ Num(a).number = a /\ Num(b).number = b
    BY DEF IsNum, Num
  <2> QED
    BY <2>1 DEF ParseTime
<1> QED
  BY <1>2, <1>3, <1>4, ReadText, Zenon DEF ReadsBack

LEMMA ConnectionReadsBack ==
  ASSUME NEW line, NEW ip, IsIp(ip), line = [kind |-> "c", ip |-> ip]
  PROVE  ReadsBack(line)
<1>1. line.kind = "c" /\ line.ip = ip
  OBVIOUS
<1>2. Printable(line)
  BY <1>1 DEF Printable
<1> DEFINE words == <<Cap("in"), AddressType(ip), ip>>
<1>3. PrintLine(line) = Text("c", "", words)
  BY <1>1 DEF PrintLine
<1>4. ParseConnection(words) = line
  <2>1. Len(words) >= 3 /\ words[1] = Cap("in") /\ words[2] = AddressType(ip) /\ words[3] = ip
    OBVIOUS
  <2>2. to_ascii_lowercase(Cap("in")) = Low("in")
    BY DEF to_ascii_lowercase, Cap, Low, IsText
  <2> HIDE DEF words
  <2>3. IsAddress(words[2], words[3])
    BY <2>1 DEF IsAddress
  <2> QED
    BY <2>1, <2>2, <2>3 DEF ParseConnection
<1> QED
  BY <1>2, <1>3, <1>4, ReadText, Zenon DEF ReadsBack

LEMMA MediaReadsBack ==
  ASSUME NEW line, NEW media \in {"audio", "video"}, NEW port, NEW N, NEW formats \in Seq(N),
         line = [kind |-> "m", media_type |-> media, transport_port |-> port,
                 formats |-> formats]
  PROVE  ReadsBack(line)
<1>1. /\ line.kind = "m" /\ line.media_type = media /\ line.transport_port = port
      /\ line.formats = formats
  OBVIOUS
<1>2. Printable(line)
  BY <1>1 DEF Printable
<1> DEFINE x == <<Low(media), Num(port), Profile>>
           y == [i \in DOMAIN formats |-> Num(formats[i])]
           words == x \o y
<1>3. PrintLine(line) = Text("m", "", words)
  BY <1>1 DEF PrintLine
<1>4. \A n : IsNum(Num(n)) /\ Num(n).number = n
  BY DEF IsNum, Num
<1>5. ParseMedia(words) = line
  <2> DEFINE W == {Low(media), Num(port), Profile} \cup {Num(n) : n \in N}
             l == Len(formats)
  <2>1. x \in Seq(W) /\ Len(x) = 3 /\ x[1] = Low(media) /\ x[2] = Num(port) /\ x[3] = Profile
    OBVIOUS
  <2>2. /\ l \in Nat /\ DOMAIN formats = 1..l /\ formats = [i \in 1..l |-> formats[i]]
        /\ \A i \in 1..l : formats[i] \in N
    OBVIOUS
  <2>3. y \in Seq(W) /\ Len(y) = l /\ \A i \in 1..l : y[i] = Num(formats[i])
    <3>1. y = [i \in 1..l |-> Num(formats[i])]
      BY <2>2, Zenon
    <3>2. \A i \in 1..l : Num(formats[i]) \in W
      BY <2>2
    <3> HIDE DEF W, y, l
    <3> QED
      BY ONLY <2>2, <3>1, <3>2
  <2> HIDE DEF W, x, y
  <2>4. Whole(W, words, x, y, <<>>)
    BY ONLY <2>1, <2>3, JoinTwo
  <2> HIDE DEF words, l
  <2>5. /\ Len(words) = 3 + l
        /\ words[1] = Low(media) /\ words[2] = Num(port) /\ words[3] = Profile
        /\ \A i \in 1..l : words[3 + i] = Num(formats[i])
    BY ONLY <2>1, <2>2, <2>3, <2>4 DEF Whole
  <2>6. \A i \in 4..Len(words) : IsNum(words[i])
    <3> SUFFICES ASSUME NEW i \in 4..Len(words) PROVE IsNum(words[i])
      OBVIOUS
    <3>1. i - 3 \in 1..l /\ i = 3 + (i - 3)
      BY <2>2, <2>5
    <3> QED
      BY <1>4, <2>5, <3>1
  <2>7. [i \in 1..(Len(words) - 3) |-> words[i + 3].number] = formats
    <3>1. Len(words) - 3 = l /\ \A i \in 1..l : words[i + 3].number = formats[i]
      BY <1>4, <2>2, <2>5
    <3> QED
      BY ONLY <2>2, <3>1
  <2>8. Low(media) \in {Low("audio"), Low("video")} /\ Low(media).text = media
    BY Zenon DEF Low
  <2>9. Len(words) >= 3 /\ IsNum(words[2]) /\ words[2].number = port /\ words[1].text = media
    BY <1>4, <2>2, <2>5, <2>8
  <2>10. ParseMedia(words)
           = [kind |-> "m", media_type |-> words[1].text, transport_port |-> words[2].number,
              formats |-> [i \in 1..(Len(words) - 3) |-> words[i + 3].number]]
    BY ONLY <2>5, <2>6, <2>8, <2>9 DEF ParseMedia
  <2> QED
    BY ONLY <2>7, <2>9, <2>10, Zenon,
       line = [kind |-> "m", media_type |-> media, transport_port |-> port, formats |-> formats]
<1> HIDE DEF words
<1> QED
  BY <1>2, <1>3, <1>5, ReadText, Zenon DEF ReadsBack

LEMMA AttributeReads ==
  ASSUME NEW line, line.kind \notin {"v", "s", "o", "t", "c", "m"}
  PROVE  ParseLine(PrintLine(line)) = ParseAttribute(line.kind, PrintAttribute(line))
<1>1. PrintLine(line) = Text("a", line.kind, PrintAttribute(line))
  BY Zenon DEF PrintLine
<1> QED
  BY <1>1, ReadText, Zenon

\* Attributes with a value, and those with none.
LEMMA WordReadsBack ==
  ASSUME NEW line, NEW kind \in {"ice-ufrag", "ice-pwd", "mid"}, NEW value,
         line = [kind |-> kind, value |-> value]
  PROVE  ReadsBack(line)
<1>1. line.kind = kind /\ line.value = value
  OBVIOUS
<1>2. Printable(line)
  BY <1>1 DEF Printable
<1>3. PrintAttribute(line) = <<value>>
  BY <1>1 DEF PrintAttribute
<1>4. ParseAttribute(kind, <<value>>) = ParseValue(kind, <<value>>)
  BY DEF ParseAttribute, Flags
<1>5. ParseValue(kind, <<value>>) = line
  BY DEF ParseValue
<1> QED
  BY <1>1, <1>2, <1>3, <1>4, <1>5, AttributeReads DEF ReadsBack

LEMMA FlagReadsBack ==
  ASSUME NEW line, NEW kind \in Flags, line = [kind |-> kind]
  PROVE  ReadsBack(line)
<1>1. line.kind = kind
  OBVIOUS
<1>2. Printable(line)
  BY <1>1 DEF Printable, Flags
<1>3. \A words : ParseAttribute(kind, words) = line
  BY DEF ParseAttribute, Flags
<1> QED
  BY <1>1, <1>2, <1>3, AttributeReads DEF ReadsBack, Flags

LEMMA GroupReadsBack ==
  ASSUME NEW line, NEW semantics \in {"bundle", "ls"}, NEW N, NEW ids \in Seq(N), Len(ids) >= 1,
         line = [kind |-> "group", semantics |-> semantics, ids |-> ids]
  PROVE  ReadsBack(line)
<1>1. line.kind = "group" /\ line.semantics = semantics /\ line.ids = ids
  OBVIOUS
<1>2. Printable(line)
  BY <1>1 DEF Printable
<1> DEFINE words == <<Cap(semantics)>> \o ids
<1>3. PrintAttribute(line) = words
  BY <1>1 DEF PrintAttribute
<1>4. ParseAttribute("group", words) = ParseGroup(words)
  BY DEF ParseAttribute, Flags
<1>5. ParseGroup(words) = line
  <2> DEFINE W == N \cup {Cap(semantics)}
  <2>1. Cap(semantics) \in W /\ ids \in Seq(W)
    OBVIOUS
  <2> HIDE DEF W
  <2>2. Len(words) = Len(ids) + 1 /\ words[1] = Cap(semantics) /\ Tail(words) = ids
    BY ONLY <2>1, FirstWord
  <2>3. Cap(semantics).text = semantics /\ Cap(semantics) \in {Cap("bundle"), Cap("ls")}
    BY Zenon DEF Cap
  <2> HIDE DEF words
  <2>4. Len(words) >= 2
    BY <2>2
  <2>5. ParseGroup(words) = [kind |-> "group", semantics |-> words[1].text, ids |-> Tail(words)]
    BY ONLY <2>2, <2>3, <2>4 DEF ParseGroup
  <2> QED
    BY <2>2, <2>3, <2>5, Zenon
<1> HIDE DEF words
<1> QED
  BY <1>1, <1>2, <1>3, <1>4, <1>5, AttributeReads DEF ReadsBack

LEMMA OptionsReadsBack ==
  ASSUME NEW line, NEW n \in Nat \ {0}, NEW options \in [1..n -> {"ice2", "trickle"}],
         line = [kind |-> "ice-options", options |-> options]
  PROVE  ReadsBack(line)
<1>1. line.kind = "ice-options" /\ line.options = options
  OBVIOUS
<1>2. Printable(line)
  <2>1. Unsupported \notin Members(options)
    BY DEF Unsupported, Members
  <2> QED
    BY <1>1, <2>1 DEF Printable
<1> DEFINE words == [i \in DOMAIN options |-> Low(options[i])]
<1>3. PrintAttribute(line) = words
  BY <1>1 DEF PrintAttribute
<1>4. ParseAttribute("ice-options", words) = ParseIceOptions(words)
  BY DEF ParseAttribute, Flags
<1>5. ParseIceOptions(words) = line
  <2>1. DOMAIN words = 1..n /\ \A i \in 1..n : words[i] = Low(options[i])
    OBVIOUS
  <2> HIDE DEF words
  <2>2. words # <<>>
    BY <2>1
  <2> DEFINE Read(i) == CASE words[i] = Low("ice2") -> "ice2"
                          [] words[i] = Low("trickle") -> "trickle"
                          [] OTHER -> Unsupported
  <2>3. Low("ice2") # Low("trickle")
    BY DEF Low
  <2>4. \A i \in 1..n : Read(i) = options[i]
    <3> SUFFICES ASSUME NEW i \in 1..n PROVE Read(i) = options[i]
      BY Zenon
    <3>1. CASE options[i] = "ice2"
      BY ONLY <2>1, <2>3, <3>1, i \in 1..n
    <3>2. CASE options[i] = "trickle"
      BY ONLY <2>1, <2>3, <3>2, i \in 1..n
    <3> QED
      BY <3>1, <3>2
  <2>5. ParseIceOptions(words) = [kind |-> "ice-options", options |-> [i \in DOMAIN words |-> Read(i)]]
    BY ONLY <2>2, Zenon DEF ParseIceOptions
  <2> HIDE DEF Read
  <2>6. [i \in DOMAIN words |-> Read(i)] = options
    BY <2>1, <2>4
  <2> QED
    BY <2>5, <2>6
<1> HIDE DEF words
<1> QED
  BY <1>1, <1>2, <1>3, <1>4, <1>5, AttributeReads DEF ReadsBack

LEMMA SetupReadsBack ==
  ASSUME NEW line, NEW value \in {"actpass", "active", "passive"},
         line = [kind |-> "setup", value |-> value]
  PROVE  ReadsBack(line)
<1>1. line.kind = "setup" /\ line.value = value
  OBVIOUS
<1>2. Printable(line)
  BY <1>1 DEF Printable
<1>3. PrintAttribute(line) = <<Low(value)>>
  BY <1>1 DEF PrintAttribute
<1>4. ParseAttribute("setup", <<Low(value)>>) = ParseSetup(<<Low(value)>>)
  BY DEF ParseAttribute, Flags
<1>5. ParseSetup(<<Low(value)>>) = line
  <2>1. Low(value).text = value /\ Low(value) \in {Low("actpass"), Low("active"), Low("passive")}
    BY Zenon DEF Low
  <2> QED
    BY <2>1 DEF ParseSetup
<1> QED
  BY <1>1, <1>2, <1>3, <1>4, <1>5, AttributeReads DEF ReadsBack

LEMMA FingerprintReadsBack ==
  ASSUME NEW line, NEW hash,
         line = [kind |-> "fingerprint", hash_function |-> "sha-256", hash |-> hash]
  PROVE  ReadsBack(line)
<1>1. line.kind = "fingerprint" /\ line.hash_function = "sha-256" /\ line.hash = hash
  OBVIOUS
<1>2. Printable(line)
  BY <1>1 DEF Printable, Unsupported
<1>3. PrintAttribute(line) = <<Low("sha-256"), hash>>
  BY <1>1 DEF PrintAttribute
<1>4. \A words : ParseAttribute("fingerprint", words) = ParseFingerprint(words)
  BY DEF ParseAttribute, Flags
<1>5. ParseFingerprint(<<Low("sha-256"), hash>>) = line
  BY DEF ParseFingerprint
<1> QED
  BY <1>1, <1>2, <1>3, <1>4, <1>5, AttributeReads DEF ReadsBack

LEMMA CandidateReadsBack ==
  ASSUME NEW line, NEW a, NEW b, NEW c, NEW ip, IsIp(ip), NEW port,
         line = [kind |-> "candidate", foundation |-> a, component_id |-> b,
                 priority |-> c, ip |-> ip, port |-> port]
  PROVE  ReadsBack(line)
<1>1. /\ line.kind = "candidate" /\ line.foundation = a /\ line.component_id = b
      /\ line.priority = c /\ line.ip = ip /\ line.port = port
  OBVIOUS
<1>2. Printable(line)
  BY <1>1 DEF Printable
<1> DEFINE words == <<a, Num(b), Cap("udp"), Num(c), ip, Num(port), Low("typ"), Low("host")>>
<1>3. PrintAttribute(line) = words
  BY <1>1 DEF PrintAttribute
<1>4. ParseAttribute("candidate", words) = ParseCandidate(words)
  BY DEF ParseAttribute, Flags
<1>5. ParseCandidate(words) = line
  <2>1. /\ Len(words) = 8 /\ words[1] = a /\ words[2] = Num(b) /\ words[3] = Cap("udp")
        /\ words[4] = Num(c) /\ words[5] = ip /\ words[6] = Num(port)
    OBVIOUS
  <2>2. \A x : IsNum(Num(x)) /\ Num(x).number = x
    BY DEF IsNum, Num
  <2> HIDE DEF words
  <2>3. ParseCandidate(words)
          = [kind |-> "candidate", foundation |-> words[1], component_id |-> words[2].number,
             priority |-> words[4].number, ip |-> words[5], port |-> words[6].number]
    BY <2>1, <2>2 DEF ParseCandidate
  <2> QED
    BY <2>1, <2>2, <2>3
<1> QED
  BY <1>1, <1>2, <1>3, <1>4, <1>5, AttributeReads DEF ReadsBack

\* A codec line, and the other way round: what text is read as a codec.
LEMMA CodecRead ==
  ASSUME NEW w, NEW codec \in {"h264", "opus"}
  PROVE  CodecOf(<<w>>) = codec <=> IsText(w) /\ w.text = PrintCodec(codec).text
<1>1. to_ascii_lowercase(w) = PrintCodec(codec) <=> IsText(w) /\ w.text = PrintCodec(codec).text
  <2>1. PrintCodec(codec) = Low(PrintCodec(codec).text) /\ IsText(PrintCodec(codec))
    BY Zenon DEF PrintCodec, Low, H264, Opus, IsText
  <2>2. \A x, y : Low(x) = Low(y) <=> x = y
    BY Zenon DEF Low
  <2>3. CASE IsText(w)
    BY <2>1, <2>2, <2>3 DEF to_ascii_lowercase
  <2>4. CASE ~ IsText(w)
    BY <2>1, <2>4 DEF to_ascii_lowercase
  <2> QED
    BY <2>3, <2>4
<1>2. [i \in DOMAIN <<w>> |-> to_ascii_lowercase(<<w>>[i])] = <<to_ascii_lowercase(w)>>
  OBVIOUS
<1>3. H264 # Opus
  BY DEF H264, Opus, Low
<1>4. CodecOf(<<w>>) = CASE <<to_ascii_lowercase(w)>> = <<H264>> -> "h264"
                         [] <<to_ascii_lowercase(w)>> = <<Opus>> -> "opus"
                         [] OTHER -> "unsupported"
  BY <1>2 DEF CodecOf, Unsupported
<1>5. \A x, y : <<x>> = <<y>> <=> x = y
  OBVIOUS
<1>6. CodecOf(<<w>>) = codec <=> to_ascii_lowercase(w) = PrintCodec(codec)
  <2>1. CASE codec = "h264"
    BY <1>3, <1>4, <1>5, <2>1 DEF PrintCodec
  <2>2. CASE codec = "opus"
    BY <1>3, <1>4, <1>5, <2>2 DEF PrintCodec
  <2> QED
    BY <2>1, <2>2
<1> QED
  BY <1>1, <1>6

LEMMA RtpMapReadsBack ==
  ASSUME NEW line, NEW number, NEW codec \in {"h264", "opus"},
         line = [kind |-> "rtpmap", payload_number |-> number, codec |-> codec]
  PROVE  ReadsBack(line)
<1>1. line.kind = "rtpmap" /\ line.payload_number = number /\ line.codec = codec
  OBVIOUS
<1>2. Printable(line)
  BY <1>1 DEF Printable, Unsupported
<1> DEFINE w == PrintCodec(codec)
           words == <<Num(number), w>>
<1>3. PrintAttribute(line) = words
  BY <1>1 DEF PrintAttribute
<1>4. ParseAttribute("rtpmap", words) = ParseRtpMap(words)
  BY DEF ParseAttribute, Flags
<1>5. CodecOf(<<w>>) = codec
  <2>1. IsText(w)
    BY DEF PrintCodec, H264, Opus, Low, IsText
  <2> QED
    BY <2>1, CodecRead
<1>6. Tail(words) = <<w>>
  <2> DEFINE W == {Num(number), w}
  <2>1. words \in Seq(W) /\ Len(words) = 2 /\ words[2] = w
    OBVIOUS
  <2> HIDE DEF W, words
  <2> QED
    BY <2>1, TailOfTwo
<1>7. ParseRtpMap(words) = line
  <2>1. Len(words) = 2 /\ words[1] = Num(number) /\ IsNum(Num(number)) /\ Num(number).number = number
    BY DEF IsNum, Num
  <2> HIDE DEF words, w
  <2>2. ParseRtpMap(words) = [kind |-> "rtpmap", payload_number |-> words[1].number,
                              codec |-> CodecOf(Tail(words))]
    BY <2>1 DEF ParseRtpMap
  <2> QED
    BY <1>5, <1>6, <2>1, <2>2, Zenon
<1> QED
  BY <1>1, <1>2, <1>3, <1>4, <1>7, AttributeReads DEF ReadsBack

LEMMA SsrcReadsBack ==
  ASSUME NEW line, NEW ssrc, NEW source, source # Unsupported,
         line = [kind |-> "ssrc", ssrc |-> ssrc, source |-> source]
  PROVE  ReadsBack(line)
<1>1. line.kind = "ssrc" /\ line.ssrc = ssrc /\ line.source = source
  OBVIOUS
<1>2. Printable(line)
  BY <1>1 DEF Printable
<1> DEFINE words == <<Num(ssrc), Pair("cname", source)>>
<1>3. PrintAttribute(line) = words
  BY <1>1 DEF PrintAttribute
<1>4. ParseAttribute("ssrc", words) = ParseSsrc(words)
  BY DEF ParseAttribute, Flags
<1>5. ParseSsrc(words) = line
  <2>1. /\ Len(words) = 2 /\ words[1] = Num(ssrc) /\ IsNum(Num(ssrc)) /\ Num(ssrc).number = ssrc
        /\ words[2] = Pair("cname", source)
    BY DEF IsNum, Num
  <2>2. /\ IsPair(Pair("cname", source)) /\ Pair("cname", source).name = "cname"
        /\ Pair("cname", source).value = source
    BY DEF IsPair, Pair
  <2>3. Pair("cname", source) # Low("cname")
    <3>1. ~ IsPair(Low("cname"))
      BY DEF IsPair, Low
    <3> QED
      BY <2>2, <3>1
  <2> HIDE DEF words
  <2>4. ParseSsrc(words) = [kind |-> "ssrc", ssrc |-> words[1].number,
                            source |-> IF IsPair(words[2]) /\ words[2].name = "cname"
                                         THEN words[2].value ELSE Unsupported]
    BY <2>1, <2>3 DEF ParseSsrc
  <2> QED
    BY <2>1, <2>2, <2>4
<1> QED
  BY <1>1, <1>2, <1>3, <1>4, <1>5, AttributeReads DEF ReadsBack

\* A finite set can be written in some order.
LEMMA OrderedHolds ==
  ASSUME NEW S, IsFiniteSet(S)
  PROVE  Members(Ordered(S)) = S
<1>1. PICK f : f \in Bijection(1..Cardinality(S), S)
  BY FS_CardinalityType DEF ExistsBijection
<1>2. f \in [1..Cardinality(S) -> S] /\ \A e \in S : \E i \in 1..Cardinality(S) : f[i] = e
  BY <1>1 DEF Bijection, Surjection
<1>3. Members(f) = S
  BY <1>2 DEF Members
<1> QED
  BY <1>2, <1>3 DEF Ordered

LEMMA FmtpReadsBack ==
  ASSUME NEW line, NEW number, NEW capabilities, IsFiniteSet(capabilities),
         line = [kind |-> "fmtp", payload_number |-> number, capabilities |-> capabilities]
  PROVE  ReadsBack(line)
<1>1. line.kind = "fmtp" /\ line.payload_number = number /\ line.capabilities = capabilities
  OBVIOUS
<1>2. Printable(line)
  BY <1>1 DEF Printable
<1> DEFINE parts == Ordered(capabilities)
           words == <<Num(number), Joined(parts)>>
<1>3. PrintAttribute(line) = words
  BY <1>1 DEF PrintAttribute
<1>4. ParseAttribute("fmtp", words) = ParseFmtp(words)
  BY DEF ParseAttribute, Flags
<1>5. Members(parts) = capabilities
  BY OrderedHolds
<1>6. ParseFmtp(words) = line
  <2> HIDE DEF parts
  <2>1. /\ Len(words) = 2 /\ words[1] = Num(number) /\ IsNum(Num(number))
        /\ Num(number).number = number /\ words[2] = Joined(parts)
    BY DEF IsNum, Num
  <2>2. IsJoined(Joined(parts)) /\ Joined(parts).parts = parts
    BY DEF IsJoined, Joined
  <2> HIDE DEF words
  <2>3. ParseFmtp(words) = [kind |-> "fmtp", payload_number |-> words[1].number,
                            capabilities |-> Members(words[2].parts)]
    BY <2>1, <2>2 DEF ParseFmtp
  <2> QED
    BY <1>5, <2>1, <2>2, <2>3
<1> QED
  BY <1>1, <1>2, <1>3, <1>4, <1>6, AttributeReads DEF ReadsBack

\* The capabilities of a session are finitely many.
LEMMA MembersFinite ==
  ASSUME NEW W, NEW seq \in Seq(W)
  PROVE  IsFiniteSet(Members(seq))
<1>1. Len(seq) \in Nat /\ DOMAIN seq = 1..Len(seq)
  OBVIOUS
<1>2. seq \in Surjection(1..Len(seq), Members(seq))
  <2>1. seq \in [1..Len(seq) -> Members(seq)]
    <3>1. seq \in [1..Len(seq) -> W]
      OBVIOUS
    <3>2. \A i \in 1..Len(seq) : seq[i] \in Members(seq)
      BY <1>1 DEF Members
    <3> QED
      BY <3>1, <3>2
  <2> QED
    BY <1>1, <2>1 DEF Surjection, Members
<1>3. IsFiniteSet(1..Len(seq))
  BY <1>1, FS_Interval
<1> QED
  BY <1>2, <1>3, FS_Surjection

------------------------------------------------------------------------------
\* Lines of any text.

\* Every parser of line_parsers.rs and its String::from agree: a line of text that
\* was parsed and can be printed is read back as it was parsed, whatever its words
\* are.  (Printed, it need not be the text that it was: capabilities are a set, and
\* every candidate is printed as one of type host.)
THEOREM LinesReadBack ==
  ASSUME NEW line \in Line, Printable(ParseLine(line))
  PROVE  ParseLine(PrintLine(ParseLine(line))) = ParseLine(line)
<1> DEFINE p == ParseLine(line)
           words == line.words
<1> SUFFICES ReadsBack(p)
  BY Zenon DEF ReadsBack
<1>1. p.kind \notin {"malformed", "other"}
  BY Zenon DEF Printable
<1>2. words \in Seq(Word) /\ Len(words) \in Nat /\ DOMAIN words = 1..Len(words)
  BY DEF Line
<1>3. \A q : q = Malformed \/ q = Unrecognized => q.kind \in {"malformed", "other"}
  BY DEF Malformed, Unrecognized
<1>p. Printable(p)
  OBVIOUS
<1>4. CASE line.type \in {"v", "s"}
  <2>1. PICK kind \in {"v", "s"} : kind = line.type
    BY <1>4
  <2>2. p = [kind |-> kind, value |-> words]
    BY <1>4, <2>1 DEF ParseLine
  <2> HIDE DEF p
  <2> QED
    BY ONLY <2>2, ValueReadsBack
<1>5. CASE line.type = "o"
  <2>1. p = ParseOriginator(words)
    BY <1>5 DEF ParseLine
  <2> HIDE DEF p, words
  <2>2. IsIp(words[6]) /\ p = [kind |-> "o", username |-> words[1],
                               session |-> <<words[2], words[3]>>, ip |-> words[6]]
    BY ONLY <1>1, <1>3, <2>1 DEF ParseOriginator, IsAddress
  <2> QED
    BY ONLY <2>2, OriginatorReadsBack
<1>6. CASE line.type = "t"
  <2>1. p = ParseTime(words)
    BY <1>6 DEF ParseLine
  <2> HIDE DEF p, words
  <2>2. p = [kind |-> "t", start_time |-> words[1].number, end_time |-> words[2].number]
    BY ONLY <1>1, <1>3, <2>1 DEF ParseTime
  <2> QED
    BY ONLY <2>2, TimeReadsBack
<1>7. CASE line.type = "c"
  <2>1. p = ParseConnection(words)
    BY <1>7 DEF ParseLine
  <2> HIDE DEF p, words
  <2>2. IsIp(words[3]) /\ p = [kind |-> "c", ip |-> words[3]]
    BY ONLY <1>1, <1>3, <2>1 DEF ParseConnection, IsAddress
  <2> QED
    BY ONLY <2>2, ConnectionReadsBack
<1>8. CASE line.type = "m"
  <2>1. p = ParseMedia(words)
    BY <1>8 DEF ParseLine
  <2> HIDE DEF p, words
  <2> DEFINE formats == [i \in 1..(Len(words) - 3) |-> words[i + 3].number]
  <2>2. /\ Len(words) >= 3 /\ words[1] \in {Low("audio"), Low("video")}
        /\ p = [kind |-> "m", media_type |-> words[1].text, transport_port |-> words[2].number,
                formats |-> formats]
    BY ONLY <1>1, <1>3, <2>1 DEF ParseMedia
  <2>3. words[1].text \in {"audio", "video"}
    BY ONLY <2>2 DEF Low
  <2> DEFINE n == Len(words) - 3
             N == {words[i + 3].number : i \in 1..n}
  <2>4. formats \in Seq(N)
    <3>1. n \in Nat
      BY <1>2, <2>2
    <3>2. formats \in [1..n -> N]
      BY ONLY TRUE
    <3> HIDE DEF n, N, formats
    <3> QED
      BY ONLY <3>1, <3>2
  <2> HIDE DEF formats, n, N
  <2> QED
    BY ONLY <2>2, <2>3, <2>4, MediaReadsBack
<1>9. CASE line.type = "a"
  <2> DEFINE key == line.key
  <2>1. p = ParseAttribute(key, words)
    BY <1>9, LineKind
  <2> HIDE DEF p, words, key
  <2>2. CASE key \in {"ice-ufrag", "ice-pwd", "mid"}
    <3>1. p = ParseValue(key, words)
      BY ONLY <2>1, <2>2 DEF ParseAttribute, Flags
    <3>2. p = [kind |-> key, value |-> words[1]]
      BY ONLY <1>1, <1>3, <3>1 DEF ParseValue
    <3> QED
      BY ONLY <2>2, <3>2, WordReadsBack
  <2>3. CASE key = "fingerprint"
    <3>1. p = ParseFingerprint(words)
      BY ONLY <2>1, <2>3 DEF ParseAttribute, Flags
    <3>2. p = [kind |-> "fingerprint", hash_function |-> p.hash_function, hash |-> words[2]]
          /\ p.hash_function \in {"sha-256", Unsupported}
      BY ONLY <1>1, <1>3, <3>1 DEF ParseFingerprint
    <3>3. p.kind = "fingerprint"
      BY ONLY <3>2
    <3>4. p.hash_function = "sha-256"
      BY ONLY <1>p, <3>2, <3>3, Zenon DEF Printable
    <3> QED
      BY ONLY <3>2, <3>4, FingerprintReadsBack
  <2>4. CASE key = "candidate"
    <3>1. p = ParseCandidate(words)
      BY ONLY <2>1, <2>4 DEF ParseAttribute, Flags
    <3>2. /\ IsIp(words[5])
          /\ p = [kind |-> "candidate", foundation |-> words[1], component_id |-> words[2].number,
                  priority |-> words[4].number, ip |-> words[5], port |-> words[6].number]
      BY ONLY <1>1, <1>3, <3>1 DEF ParseCandidate
    <3> QED
      BY ONLY <3>2, CandidateReadsBack
  <2>5. CASE key = "ssrc"
    <3>1. p = ParseSsrc(words)
      BY ONLY <2>1, <2>5 DEF ParseAttribute, Flags
    <3>2. p = [kind |-> "ssrc", ssrc |-> words[1].number, source |-> p.source]
      BY ONLY <1>1, <1>3, <3>1 DEF ParseSsrc
    <3>3. p.kind = "ssrc"
      BY ONLY <3>2
    <3>4. p.source # Unsupported
      BY ONLY <1>p, <3>3, Zenon DEF Printable
    <3> QED
      BY ONLY <3>2, <3>4, SsrcReadsBack
  <2>6. CASE key \in Flags
    <3>1. p = [kind |-> key]
      BY ONLY <2>1, <2>6 DEF ParseAttribute, Flags
    <3> QED
      BY ONLY <2>6, <3>1, FlagReadsBack
  <2>7. CASE key = "group"
    <3>1. p = ParseGroup(words)
      BY ONLY <2>1, <2>7 DEF ParseAttribute, Flags
    <3>2. /\ Len(words) >= 2 /\ words[1] \in {Cap("bundle"), Cap("ls")}
          /\ p = [kind |-> "group", semantics |-> words[1].text, ids |-> Tail(words)]
      BY ONLY <1>1, <1>3, <3>1 DEF ParseGroup
    <3>3. words[1].text \in {"bundle", "ls"}
      BY ONLY <3>2 DEF Cap
    <3>4. Tail(words) \in Seq(Word) /\ Len(Tail(words)) >= 1
      BY ONLY <1>2, <3>2
    <3> QED
      BY ONLY <3>2, <3>3, <3>4, GroupReadsBack, Zenon
  <2>8. CASE key = "rtpmap"
    <3>1. p = ParseRtpMap(words)
      BY ONLY <2>1, <2>8 DEF ParseAttribute, Flags
    <3>2. p = [kind |-> "rtpmap", payload_number |-> words[1].number, codec |-> CodecOf(Tail(words))]
      BY ONLY <1>1, <1>3, <3>1 DEF ParseRtpMap
    <3>3. \A w : CodecOf(w) \in {"h264", "opus", Unsupported}
      BY ONLY TRUE DEF CodecOf
    <3>4. p.kind = "rtpmap" /\ p.codec = CodecOf(Tail(words))
      BY ONLY <3>2
    <3>5. CodecOf(Tail(words)) \in {"h264", "opus"}
      BY ONLY <1>p, <3>3, <3>4 DEF Printable
    <3> QED
      BY ONLY <3>2, <3>5, RtpMapReadsBack
  <2>9. CASE key = "fmtp"
    <3>1. p = ParseFmtp(words)
      BY ONLY <2>1, <2>9 DEF ParseAttribute, Flags
    <3> DEFINE capabilities == IF IsJoined(words[2]) THEN Members(words[2].parts) ELSE {words[2]}
    <3>2. /\ Len(words) >= 2
          /\ p = [kind |-> "fmtp", payload_number |-> words[1].number,
                  capabilities |-> capabilities]
      BY ONLY <1>1, <1>3, <3>1 DEF ParseFmtp
    <3>3. IsFiniteSet(capabilities)
      <4>1. PICK w \in Word : w = words[2]
        BY ONLY <1>2, <3>2
      <4>2. CASE IsJoined(w)
        <5>1. w.parts \in Seq(STRING)
          <6>1. w \in [parts : Seq(STRING)]
            BY ONLY <4>2, w \in Word DEF Word, IsJoined
          <6> QED
            BY ONLY <6>1
        <5> QED
          BY ONLY <4>1, <4>2, <5>1, MembersFinite
      <4>3. CASE ~ IsJoined(w)
        BY ONLY <4>1, <4>3, FS_Singleton, Zenon
      <4> QED
        BY ONLY <4>2, <4>3
    <3> HIDE DEF capabilities
    <3> QED
      BY ONLY <3>2, <3>3, FmtpReadsBack
  <2>10. CASE key = "ice-options"
    <3>1. p = ParseIceOptions(words)
      BY ONLY <2>1, <2>10 DEF ParseAttribute, Flags
    <3> DEFINE Read(i) == CASE words[i] = Low("ice2") -> "ice2"
                            [] words[i] = Low("trickle") -> "trickle"
                            [] OTHER -> Unsupported
               options == [i \in DOMAIN words |-> Read(i)]
    <3>2. words # <<>> /\ p = [kind |-> "ice-options", options |-> options]
      BY ONLY <1>1, <1>3, <3>1 DEF ParseIceOptions
    <3>3. \A i : Read(i) \in {"ice2", "trickle", Unsupported}
      BY ONLY TRUE
    <3> HIDE DEF Read
    <3>4. p.kind = "ice-options" /\ p.options = options
      BY ONLY <3>2
    <3>5. Unsupported \notin Members(options)
      BY ONLY <1>p, <3>4 DEF Printable
    <3>6. \A i \in DOMAIN words : Read(i) # Unsupported
      BY ONLY <3>5 DEF Members
    <3>7. Len(words) \in Nat \ {0}
      BY ONLY <1>2, <3>2
    <3>8. options \in [1..Len(words) -> {"ice2", "trickle"}]
      BY ONLY <1>2, <3>3, <3>6
    <3> HIDE DEF options
    <3> QED
      BY ONLY <3>2, <3>7, <3>8, OptionsReadsBack
  <2>11. CASE key = "setup"
    <3>1. p = ParseSetup(words)
      BY ONLY <2>1, <2>11 DEF ParseAttribute, Flags
    <3>2. /\ words[1] \in {Low("actpass"), Low("active"), Low("passive")}
          /\ p = [kind |-> "setup", value |-> words[1].text]
      BY ONLY <1>1, <1>3, <3>1 DEF ParseSetup
    <3>3. words[1].text \in {"actpass", "active", "passive"}
      BY ONLY <3>2 DEF Low
    <3> QED
      BY ONLY <3>2, <3>3, SetupReadsBack
  <2>12. CASE key \notin {"ice-ufrag", "ice-pwd", "mid", "fingerprint", "candidate", "ssrc",
                          "group", "rtpmap", "fmtp", "ice-options", "setup"} \cup Flags
    <3>1. p = Unrecognized
      BY ONLY <2>1, <2>12 DEF ParseAttribute
    <3> QED
      BY ONLY <1>1, <1>3, <3>1
  <2> QED
    BY ONLY <2>2, <2>3, <2>4, <2>5, <2>6, <2>7, <2>8, <2>9, <2>10, <2>11, <2>12
<1>10. CASE line.type \notin {"v", "s", "o", "t", "c", "m", "a"}
  <2>1. p = Malformed \/ p = Unrecognized
    BY <1>10, Zenon DEF ParseLine
  <2> HIDE DEF p
  <2> QED
    BY ONLY <1>1, <1>3, <2>1
<1> HIDE DEF p
<1> QED
  BY ONLY <1>4, <1>5, <1>6, <1>7, <1>8, <1>9, <1>10, Zenon

==============================================================================
