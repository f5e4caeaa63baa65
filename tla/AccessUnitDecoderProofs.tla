----------------------- MODULE AccessUnitDecoderProofs -----------------------
(***************************************************************************)
(* Safety of the access unit decoder, for every stream that is well formed, *)
(* of any length, over a network that reorders packets by less than half    *)
(* the sequence numbers there are.                                          *)
(***************************************************************************)
EXTENDS AccessUnitDecoder, InductionLemmas, SequenceTheorems

------------------------------------------------------------------------------
\* Streams.

\* What of well-formedness one packet tells, without the times.
LEMMA Shape ==
  ASSUME NEW w, WellFormed(w)
  PROVE  /\ Len(w) \in Nat /\ DOMAIN w = 1..Len(w)
         /\ \A n \in DOMAIN w :
              /\ w[n].sequence_number \in 0..(SeqModulus - 1)
              /\ n > 1 => w[n].sequence_number = Successor(w[n - 1].sequence_number)
              /\ w[n].marker \in BOOLEAN /\ w[n].timestamp # None /\ w[n].nal \in Nat
              /\ w[n].marker => ~ Opens(w[n])
  BY DEF WellFormed

\* Two packets are of one access unit if no packet from the one to before the
\* other has the marker.
LEMMA Times ==
  ASSUME NEW w, WellFormed(w), NEW n \in DOMAIN w, NEW m \in 1..(n - 1)
  PROVE  w[m].timestamp = w[n].timestamp <=> \A i \in m..(n - 1) : ~ w[i].marker
<1> DEFINE Ends == {i \in DOMAIN w : w[i].marker}
<1>1. w[m].timestamp = w[n].timestamp <=> Ends \cap m..(n - 1) = {}
  BY DEF WellFormed
<1>2. m..(n - 1) \subseteq DOMAIN w
  BY Shape
<1> QED
  BY <1>1, <1>2

\* The NAL units begun before a packet's, and what the packet adds.
Before(w, n) == IF w[n - 1].marker THEN 0 ELSE w[n - 1].nal

LEMMA Numbers ==
  ASSUME NEW w, WellFormed(w), NEW n \in DOMAIN w, n > 1
  PROVE  IF Opens(w[n - 1])
           THEN Readable(w[n]) /\ ~ Begins(w[n]) /\ w[n].nal = Before(w, n)
           ELSE /\ Readable(w[n]) => Begins(w[n])
                /\ w[n].nal = Before(w, n) + IF Begins(w[n]) THEN 1 ELSE 0
<1> DEFINE Ends == {i \in DOMAIN w : w[i].marker}
<1>1. n \in Nat /\ n - 1 \in DOMAIN w /\ n # 1
  BY Shape
<1>2. n - 1 \in Ends <=> w[n - 1].marker
  BY <1>1
<1> QED
  BY <1>1, <1>2 DEF WellFormed, Before

\* Sequence numbers of packets that are less than SeqModulus places apart.
LEMMA Apart ==
  ASSUME NEW w, WellFormed(w), NEW p \in DOMAIN w, NEW d \in Nat, p + d \in DOMAIN w, d < SeqModulus
  PROVE  \/ w[p + d].sequence_number = w[p].sequence_number + d
         \/ w[p + d].sequence_number + SeqModulus = w[p].sequence_number + d
<1> DEFINE seq(n) == w[n].sequence_number
           T == {e \in Nat : p + e \in DOMAIN w /\ e < SeqModulus =>
                               \/ seq(p + e) = seq(p) + e
                               \/ seq(p + e) + SeqModulus = seq(p) + e}
<1>1. SeqModulus \in Nat /\ p \in Nat /\ p > 0 /\ Len(w) \in Nat /\ DOMAIN w = 1..Len(w)
  BY Shape, DecoderAssumption
<1>2. 0 \in T
  <2>1. seq(p) \in Nat
    BY <1>1, Shape
  <2> QED
    BY <1>1, <2>1
<1>3. ASSUME NEW e \in T PROVE e + 1 \in T
  <2>1. e \in Nat
    OBVIOUS
  <2>2. SUFFICES ASSUME p + (e + 1) \in DOMAIN w, e + 1 < SeqModulus
                 PROVE  \/ seq(p + (e + 1)) = seq(p) + (e + 1)
                        \/ seq(p + (e + 1)) + SeqModulus = seq(p) + (e + 1)
    BY <2>1
  <2>3. p + e \in DOMAIN w /\ e < SeqModulus /\ p + (e + 1) > 1 /\ (p + (e + 1)) - 1 = p + e
    BY <1>1, <2>1, <2>2
  <2>4. seq(p + e) = seq(p) + e \/ seq(p + e) + SeqModulus = seq(p) + e
    BY <1>3, <2>3
  <2>5. /\ seq(p) \in 0..(SeqModulus - 1) /\ seq(p + e) \in 0..(SeqModulus - 1)
        /\ seq(p + (e + 1)) = Successor(seq(p + e))
    <3> DEFINE n == p + (e + 1)
    <3>1. n \in DOMAIN w /\ n > 1 /\ n - 1 = p + e
      BY <2>2, <2>3
    <3> HIDE DEF n
    <3>2. w[n].sequence_number = Successor(w[n - 1].sequence_number)
      BY <3>1, Shape
    <3>3. seq(p) \in 0..(SeqModulus - 1) /\ seq(p + e) \in 0..(SeqModulus - 1)
      BY <2>3, Shape
    <3> QED
      BY <3>1, <3>2, <3>3 DEF n
  <2> DEFINE a == seq(p)
             b == seq(p + e)
             c == seq(p + (e + 1))
  <2>6. /\ a \in Nat /\ a <= SeqModulus - 1 /\ b \in Nat /\ b <= SeqModulus - 1
        /\ c = IF b = SeqModulus - 1 THEN 0 ELSE b + 1
        /\ b = a + e \/ b + SeqModulus = a + e
    BY <1>1, <2>4, <2>5 DEF Successor
  <2> HIDE DEF a, b, c
  <2>7. c = a + (e + 1) \/ c + SeqModulus = a + (e + 1)
    BY <1>1, <2>1, <2>2, <2>6
  <2> QED
    BY <2>7 DEF a, c
<1>4. Nat \subseteq T
  <2>1. T \subseteq Nat
    OBVIOUS
  <2> HIDE DEF T
  <2> QED
    BY ONLY <1>2, <1>3, <2>1, Induction
<1> QED
  BY <1>4

\* The arithmetic of the next lemma: the places p and n are near the place x, and
\* sp and sn are the numbers at p and n.
LEMMA NearAfter ==
  ASSUME NEW m \in Nat, NEW k \in Nat, 2 * k < m, NEW p \in Nat, NEW n \in Nat, NEW x \in Nat,
         p < x, x = p + 1 \/ x <= p + k, n <= x + k, x <= n + k,
         NEW sp \in 0..(m - 1), NEW sn \in 0..(m - 1),
         sn = IF sp = m - 1 THEN 0 ELSE sp + 1
  PROVE  /\ n <= p => p - n \in Nat /\ p - n < m
         /\ n <= p => ~ (sp = sn + (p - n) \/ sp + m = sn + (p - n))
         /\ n > p => n - p \in Nat /\ (n - p < m \/ n = p + 1)
         /\ n > p /\ (sn = sp + (n - p) \/ sn + m = sp + (n - p)) /\ n - p < m => n = p + 1
<1>1. CASE n <= p
  <2>1. p - n \in Nat /\ p - n + 1 < m
    BY <1>1
  <2>2. PICK d \in Nat : d = p - n /\ d + 1 < m
    BY <2>1
  <2>3. ~ (sp = sn + d \/ sp + m = sn + d)
    BY ONLY <2>2, m \in Nat, sp \in 0..(m - 1), sn \in 0..(m - 1),
            sn = IF sp = m - 1 THEN 0 ELSE sp + 1
  <2> QED
    BY ONLY <1>1, <2>1, <2>2, <2>3, m \in Nat, p \in Nat, n \in Nat
<1>2. CASE n > p
  <2>1. n - p \in Nat /\ (n - p < m \/ n = p + 1)
    BY <1>2
  <2>2. PICK d \in Nat : d = n - p /\ d > 0
    BY <1>2
  <2>3. (sn = sp + d \/ sn + m = sp + d) /\ d < m => d = 1
    BY ONLY <2>2, m \in Nat, sp \in 0..(m - 1), sn \in 0..(m - 1),
            sn = IF sp = m - 1 THEN 0 ELSE sp + 1
  <2> QED
    BY ONLY <1>2, <2>1, <2>2, <2>3, m \in Nat, p \in Nat, n \in Nat
<1> QED
  BY ONLY <1>1, <1>2, p \in Nat, n \in Nat

\* Within the window of the network, the number after a packet's is that of the
\* packet after it.
LEMMA NextPlace ==
  ASSUME NEW w, WellFormed(w), NEW p \in DOMAIN w, NEW n \in DOMAIN w, NEW next_ \in Nat,
         p < next_, next_ = p + 1 \/ next_ <= p + Window,
         n <= next_ + Window, next_ <= n + Window,
         w[n].sequence_number = Successor(w[p].sequence_number)
  PROVE  n = p + 1
<1> DEFINE sp == w[p].sequence_number
           sn == w[n].sequence_number
<1>1. /\ SeqModulus \in Nat /\ Window \in Nat /\ 2 * Window < SeqModulus
      /\ p \in Nat /\ n \in Nat
  BY Shape, DecoderAssumption
<1>2. /\ sp \in 0..(SeqModulus - 1) /\ sn \in 0..(SeqModulus - 1)
      /\ sn = IF sp = SeqModulus - 1 THEN 0 ELSE sp + 1
  BY Shape DEF Successor
<1>3. /\ \A d \in Nat : p + d = n /\ d < SeqModulus => sn = sp + d \/ sn + SeqModulus = sp + d
      /\ \A d \in Nat : n + d = p /\ d < SeqModulus => sp = sn + d \/ sp + SeqModulus = sn + d
  BY Apart
<1> HIDE DEF sn, sp
<1>4. /\ n <= p => p - n \in Nat /\ p - n < SeqModulus
      /\ n <= p => ~ (sp = sn + (p - n) \/ sp + SeqModulus = sn + (p - n))
      /\ n > p => n - p \in Nat /\ (n - p < SeqModulus \/ n = p + 1)
      /\ n > p /\ (sn = sp + (n - p) \/ sn + SeqModulus = sp + (n - p)) /\ n - p < SeqModulus
           => n = p + 1
  BY <1>1, <1>2, NearAfter
<1>5. p + (n - p) = n /\ n + (p - n) = p /\ (n <= p \/ n > p)
  BY ONLY <1>1
<1> QED
  BY ONLY <1>3, <1>4, <1>5

------------------------------------------------------------------------------
\* Lists of places.

LEMMA ListsOne ==
  ASSUME NEW n \in Nat
  PROVE  Lists(<<n>>, {n})
  BY DEF Lists

LEMMA ListsAppend ==
  ASSUME NEW S \in SUBSET Nat, NEW places, Lists(places, S),
         NEW n \in Nat, \A m \in S : m < n
  PROVE  Lists(Append(places, n), S \cup {n})
<1> DEFINE longer == Append(places, n)
<1>1. /\ places \in Seq(S) /\ Len(places) \in Nat /\ DOMAIN places = 1..Len(places)
      /\ \A i \in 1..Len(places) : places[i] \in S
  BY ElementOfSeq, LenProperties DEF Lists
<1>2. places \in Seq(S \cup {n})
  BY <1>1
<1>3. /\ longer \in Seq(S \cup {n})
      /\ Len(longer) = Len(places) + 1 /\ DOMAIN longer = 1..(Len(places) + 1)
      /\ \A i \in 1..Len(places) : longer[i] = places[i]
      /\ longer[Len(places) + 1] = n
  BY <1>1, <1>2
<1> HIDE DEF longer
<1>4. ASSUME NEW m \in S \cup {n} PROVE \E i \in DOMAIN longer : longer[i] = m
  <2>1. CASE m \in S
    <3>1. PICK i \in DOMAIN places : places[i] = m
      BY <2>1 DEF Lists
    <3>2. i \in DOMAIN longer /\ longer[i] = m
      BY <1>1, <1>3, <3>1
    <3> QED
      BY <3>2
  <2>2. CASE m = n
    <3>1. Len(places) + 1 \in DOMAIN longer
      BY <1>1, <1>3
    <3> QED
      BY <1>3, <2>2, <3>1
  <2> QED
    BY <2>1, <2>2
<1>5. ASSUME NEW i \in DOMAIN longer, NEW j \in DOMAIN longer, i < j
      PROVE  longer[i] < longer[j]
  <2>1. i \in 1..Len(places) /\ longer[i] = places[i] /\ places[i] \in S
    BY <1>1, <1>3, <1>5
  <2>2. CASE j \in 1..Len(places)
    BY <1>1, <1>3, <1>5, <2>1, <2>2 DEF Lists
  <2>3. CASE j = Len(places) + 1
    BY <1>3, <2>1, <2>3, Zenon
  <2> QED
    BY <1>1, <1>3, <2>2, <2>3
<1> QED
  BY <1>3, <1>4, <1>5 DEF Lists, longer

------------------------------------------------------------------------------
\* Access units that are being put together.

\* The places of NAL unit k between two places.
Some(w, s, p, k) == {m \in s..p : Readable(w[m]) /\ w[m].nal = k}

\* From the packets s to p, of which c NAL units began, the decoder has nals, after
\* a zero byte, and what is open.
Collected(w, s, p, c, nals, open) ==
  /\ nals \in Seq(Seq(Nat)) /\ open \in Seq(Nat)
  /\ Len(nals) \in Nat \ {0} /\ nals[1] = Zero
  /\ \A k \in 2..Len(nals) : Some(w, s, p, k - 1) # {} /\ Lists(nals[k], Some(w, s, p, k - 1))
  /\ IF Opens(w[p]) THEN c = Len(nals) /\ Lists(open, Some(w, s, p, c))
                    ELSE c + 1 = Len(nals) /\ open = <<>>
  /\ \A m \in s..p : Readable(w[m]) => w[m].nal \in 1..c

LEMMA SomeGrows ==
  ASSUME NEW w, NEW s \in Nat, NEW p \in Nat, s <= p + 1, NEW k \in Nat
  PROVE  Some(w, s, p + 1, k) = IF Readable(w[p + 1]) /\ w[p + 1].nal = k
                                  THEN Some(w, s, p, k) \cup {p + 1} ELSE Some(w, s, p, k)
<1>1. s..(p + 1) = s..p \cup {p + 1}
  OBVIOUS
<1> QED
  BY <1>1 DEF Some

LEMMA CollectStart ==
  ASSUME NEW w, NEW p \in Nat, ~ Opens(w[p])
  PROVE  Collected(w, p + 1, p, 0, <<Zero>>, <<>>)
<1>1. (p + 1)..p = {} /\ 2..1 = {}
  OBVIOUS
<1>2. <<Zero>> \in Seq(Seq(Nat)) /\ Len(<<Zero>>) = 1 /\ <<Zero>>[1] = Zero /\ <<>> \in Seq(Nat)
  BY DEF Zero
<1> QED
  BY <1>1, <1>2 DEF Collected

\* The new packet, n, is read as decode_nal_unit does.
Read(w, n, open, nal, rest) ==
  /\ Begins(w[n]) /\ ~ Opens(w[n]) => nal = <<n>> /\ rest = open
  /\ Begins(w[n]) /\ Opens(w[n]) => nal = None /\ rest = <<n>>
  /\ Readable(w[n]) /\ ~ Begins(w[n]) /\ Opens(w[n]) => nal = None /\ rest = Append(open, n)
  /\ Readable(w[n]) /\ ~ Begins(w[n]) /\ ~ Opens(w[n]) => nal = Append(open, n) /\ rest = <<>>
  /\ ~ Readable(w[n]) => nal = None /\ rest = open

LEMMA CollectMore ==
  ASSUME NEW w, WellFormed(w), NEW s \in Nat, NEW p \in Nat, 1 < s, s <= p + 1, p + 1 \in DOMAIN w,
         NEW nals, NEW open, Collected(w, s, p, Before(w, p + 1), nals, open),
         NEW nal, NEW rest, Read(w, p + 1, open, nal, rest)
  PROVE  Collected(w, s, p + 1, w[p + 1].nal,
                   IF nal = None THEN nals ELSE Append(nals, nal), rest)
<1> DEFINE n == p + 1
           c == Before(w, n)
           d == w[n].nal
           all == IF nal = None THEN nals ELSE Append(nals, nal)
<1>1. IF Opens(w[p])
        THEN Readable(w[n]) /\ ~ Begins(w[n]) /\ d = c
        ELSE (Readable(w[n]) => Begins(w[n])) /\ d = c + IF Begins(w[n]) THEN 1 ELSE 0
  <2>1. n > 1 /\ n - 1 = p /\ n \in DOMAIN w
    OBVIOUS
  <2> HIDE DEF n
  <2> QED
    BY <2>1, Numbers
<1>2. n \in Nat /\ d \in Nat /\ (Begins(w[n]) => Readable(w[n])) /\ (Opens(w[n]) => Readable(w[n]))
  BY Shape DEF Begins, Opens
<1>3. \A k \in Nat : Some(w, s, n, k) = IF Readable(w[n]) /\ d = k
                       THEN Some(w, s, p, k) \cup {n} ELSE Some(w, s, p, k)
  BY SomeGrows
<1>4. \A k : Some(w, s, p, k) \subseteq Nat /\ \A m \in Some(w, s, p, k) : m < n
  BY DEF Some
<1>5. s..n = s..p \cup {n}
  OBVIOUS
<1>6. /\ nals \in Seq(Seq(Nat)) /\ open \in Seq(Nat)
      /\ Len(nals) \in Nat \ {0} /\ nals[1] = Zero
      /\ \A k \in 2..Len(nals) :
           Some(w, s, p, k - 1) # {} /\ Lists(nals[k], Some(w, s, p, k - 1))
      /\ IF Opens(w[p]) THEN c = Len(nals) /\ Lists(open, Some(w, s, p, c))
                        ELSE c + 1 = Len(nals) /\ open = <<>>
      /\ \A m \in s..p : Readable(w[m]) => w[m].nal \in 1..c
  BY DEF Collected
<1>7. c \in Nat
  <2>1. p \in DOMAIN w /\ n - 1 = p
    BY Shape
  <2> HIDE DEF n
  <2> QED
    BY <2>1, Shape DEF Before
<1>8. None \notin Seq(Nat)
  BY DecoderAssumption
<1> HIDE DEF n, c, d
\* The NAL units that were complete stay so.
<1>9. ASSUME NEW k \in 2..Len(nals), Readable(w[n]) => d = Len(nals)
      PROVE  Some(w, s, n, k - 1) # {} /\ Lists(nals[k], Some(w, s, n, k - 1))
  <2>1. k - 1 \in Nat /\ k - 1 # Len(nals)
    BY <1>6
  <2>2. Some(w, s, n, k - 1) = Some(w, s, p, k - 1)
    BY <1>3, <1>9, <2>1
  <2> QED
    BY <1>6, <2>2
<1>10. \A m \in s..n : Readable(w[m]) => w[m].nal \in 1..d
  <2>1. c <= d /\ (Readable(w[n]) => d >= 1)
    BY <1>1, <1>2, <1>6, <1>7
  <2>2. \A m \in s..p : Readable(w[m]) => w[m].nal \in 1..d
    <3>1. 1..c \subseteq 1..d
      BY <1>2, <1>7, <2>1
    <3> QED
      BY <1>6, <3>1
  <2> QED
    BY <1>2, <1>5, <2>1, <2>2 DEF d
<1>11. CASE ~ Readable(w[n])
  <2>1. ~ Opens(w[p]) /\ d = c /\ nal = None /\ rest = open /\ all = nals /\ ~ Opens(w[n])
    BY <1>1, <1>2, <1>7, <1>11 DEF Read, n
  <2>2. \A k \in 2..Len(nals) :
          Some(w, s, n, k - 1) # {} /\ Lists(nals[k], Some(w, s, n, k - 1))
    BY <1>9, <1>11
  <2> QED
    BY <1>6, <1>10, <2>1, <2>2 DEF Collected, n, d
<1>12. CASE Readable(w[n])
  <2>0. d = Len(nals)
    BY <1>1, <1>6, <1>7, <1>12
  <2>1. \A k \in 2..Len(nals) :
          Some(w, s, n, k - 1) # {} /\ Lists(nals[k], Some(w, s, n, k - 1))
    BY <1>9, <2>0
  <2>2. Some(w, s, n, d) = Some(w, s, p, d) \cup {n}
    BY <1>2, <1>3, <1>12
  <2>3. Begins(w[n]) => Some(w, s, p, d) = {}
    <3>1. Begins(w[n]) => d = c + 1
      BY <1>1
    <3>2. Begins(w[n]) => \A m \in s..p : Readable(w[m]) => w[m].nal # d
      BY <1>6, <1>7, <3>1
    <3> QED
      BY <3>2 DEF Some
  <2>4. ~ Begins(w[n]) => Lists(open, Some(w, s, p, d))
    BY <1>1, <1>6, <1>12
  <2>5. Lists(IF Begins(w[n]) THEN <<n>> ELSE Append(open, n), Some(w, s, n, d))
    <3>1. CASE Begins(w[n])
      BY <1>2, <2>2, <2>3, <3>1, ListsOne
    <3>2. CASE ~ Begins(w[n])
      BY <1>2, <1>4, <2>2, <2>4, <3>2, ListsAppend
    <3> QED
      BY <3>1, <3>2
  <2>6. <<n>> \in Seq(Nat) /\ Append(open, n) \in Seq(Nat)
    BY <1>2, <1>6
  <2>7. CASE Opens(w[n])
    <3>1. nal = None /\ all = nals /\ rest = IF Begins(w[n]) THEN <<n>> ELSE Append(open, n)
      BY <1>12, <2>7 DEF Read, n
    <3> QED
      BY <1>6, <1>10, <2>0, <2>1, <2>5, <2>6, <2>7, <3>1 DEF Collected, n, d
  <2>8. CASE ~ Opens(w[n])
    <3>1. nal = IF Begins(w[n]) THEN <<n>> ELSE Append(open, n)
      BY <1>12, <2>8 DEF Read, n
    <3>2. rest = <<>>
      <4>1. CASE Begins(w[n])
        BY <1>1, <1>6, <2>8, <4>1 DEF Read, n
      <4>2. CASE ~ Begins(w[n])
        BY <1>12, <2>8, <4>2 DEF Read, n
      <4> QED
        BY <4>1, <4>2
    <3>3. nal \in Seq(Nat) /\ nal # None /\ all = Append(nals, nal)
      BY <1>8, <2>6, <3>1, Zenon
    <3>4. /\ all \in Seq(Seq(Nat)) /\ Len(all) = Len(nals) + 1
          /\ \A k \in 1..Len(nals) : all[k] = nals[k]
          /\ all[Len(nals) + 1] = nal
      BY <1>6, <3>3
    <3> HIDE DEF all
    <3>5. ASSUME NEW k \in 2..Len(all)
          PROVE  Some(w, s, n, k - 1) # {} /\ Lists(all[k], Some(w, s, n, k - 1))
      <4>1. CASE k \in 2..Len(nals)
        <5>1. all[k] = nals[k]
          BY <1>6, <3>4, <4>1
        <5> QED
          BY <2>1, <4>1, <5>1
      <4>2. CASE k = Len(nals) + 1
        <5>1. k - 1 = d /\ all[k] = nal
          BY <1>6, <2>0, <3>4, <4>2
        <5> QED
          BY <2>2, <2>5, <3>1, <5>1, Zenon
      <4> QED
        BY <1>6, <3>4, <4>1, <4>2
    <3>6. all[1] = Zero /\ Len(all) \in Nat \ {0} /\ d + 1 = Len(all)
      BY <1>6, <2>0, <3>4
    <3>7. <<>> \in Seq(Nat)
      OBVIOUS
    <3> QED
      BY <1>10, <2>8, <3>2, <3>4, <3>5, <3>6, <3>7, Zenon DEF Collected, n, d, all
  <2> QED
    BY <2>7, <2>8
<1> QED
  BY <1>11, <1>12

------------------------------------------------------------------------------
\* The decoder.

\* The packet at place p was the last one delivered, and the decoder goes on
\* from it.
Last(p) ==
  /\ p \in DOMAIN stream
  /\ last_seq = stream[p].sequence_number
  /\ p < next
  /\ next = p + 1 \/ next <= p + Window

Idle ==
  /\ ~ is_loopback /\ timestamp = None /\ last_seq = None
  /\ internal_buffer = <<>> /\ fragmentation_buffer = <<>>

\* At the end of an access unit.
Synchronised ==
  /\ is_loopback /\ timestamp = None
  /\ internal_buffer = <<Zero>> /\ fragmentation_buffer = <<>>
  /\ \E p \in Nat : Last(p) /\ stream[p].marker

\* In an access unit of which all packets so far, from place s on, are there.
Collecting ==
  /\ ~ is_loopback
  /\ \E p \in Nat, s \in Nat :
       /\ Last(p) /\ timestamp = stream[p].timestamp
       /\ 1 < s /\ s <= p /\ stream[s - 1].marker
       /\ \A i \in s..p : ~ stream[i].marker
       /\ Collected(stream, s, p, stream[p].nal, internal_buffer, fragmentation_buffer)

\* Just after an access unit.
Returned ==
  /\ ~ is_loopback
  /\ internal_buffer = <<>> /\ fragmentation_buffer = <<>>
  /\ \E p \in Nat : Last(p) /\ stream[p].marker /\ timestamp = stream[p].timestamp

DecoderInv ==
  /\ stream \in Streams
  /\ next \in 1..(Len(stream) + 1)
  /\ calm \in BOOLEAN /\ is_loopback \in BOOLEAN
  /\ Idle \/ Synchronised \/ Collecting \/ Returned
  /\ UnitsWhole

\* decode_nal_unit reads a packet by its headers.
LEMMA DecodeReads ==
  ASSUME NEW n, ~ Short(stream[n])
  PROVE  Read(stream, n, fragmentation_buffer, decode_nal_unit(stream[n], n).nal,
              decode_nal_unit(stream[n], n).rest)
<1> DEFINE packet == stream[n]
           out == decode_nal_unit(packet, n)
<1>1. ASSUME ~ Readable(packet) PROVE out = [nal |-> None, rest |-> fragmentation_buffer]
  <2>1. \/ PayloadType(packet) \notin {"NALUnit", "FU_A"}
        \/ PayloadType(packet) = "FU_A" /\ FragmentationRole(packet) = "Malformed"
    BY <1>1 DEF Readable, PayloadType, FragmentationRole
  <2> QED
    BY <2>1 DEF decode_nal_unit
<1>2. ASSUME Readable(packet), packet.type # 28 PROVE out = [nal |-> <<n>>, rest |-> fragmentation_buffer]
  BY <1>2 DEF Readable, decode_nal_unit, PayloadType
<1>3. ASSUME Readable(packet), packet.type = 28
      PROVE  /\ packet.start_bit => out = [nal |-> None, rest |-> <<n>>]
             /\ ~ packet.start_bit /\ ~ packet.end_bit =>
                  out = [nal |-> None, rest |-> Append(fragmentation_buffer, n)]
             /\ ~ packet.start_bit /\ packet.end_bit =>
                  out = [nal |-> Append(fragmentation_buffer, n), rest |-> <<>>]
             /\ packet.start_bit => ~ packet.end_bit
  <2>1. PayloadType(packet) = "FU_A" /\ PayloadType(packet) # "NALUnit"
    BY <1>3 DEF Readable, PayloadType
  <2>2. packet.start_bit => ~ packet.end_bit
    BY <1>3 DEF Readable
  <2>3. FragmentationRole(packet) = IF packet.start_bit THEN "Start"
                                    ELSE IF packet.end_bit THEN "End" ELSE "Continue"
    BY <2>2 DEF FragmentationRole
  <2> QED
    BY <2>1, <2>2, <2>3 DEF decode_nal_unit
<1> HIDE DEF out
<1>4. Read(stream, n, fragmentation_buffer, out.nal, out.rest)
  BY <1>1, <1>2, <1>3 DEF Read, Begins, Opens
<1> QED
  BY <1>4 DEF out

\* The access unit that ends at a marker.
LEMMA UnitEnds ==
  ASSUME NEW w, WellFormed(w), NEW n \in DOMAIN w, NEW s \in Nat, 1 < s, s <= n,
         w[n].marker, w[s - 1].marker, \A i \in s..(n - 1) : ~ w[i].marker
  PROVE  {m \in DOMAIN w : w[m].timestamp = w[n].timestamp} = s..n
<1>1. Len(w) \in Nat /\ DOMAIN w = 1..Len(w) /\ n \in Nat
  BY Shape
<1>2. ASSUME NEW m \in DOMAIN w, m < s PROVE w[m].timestamp # w[n].timestamp
  <2>1. m \in 1..(n - 1) /\ s - 1 \in m..(n - 1)
    BY <1>1, <1>2
  <2> QED
    BY <2>1, Times
<1>3. ASSUME NEW m \in s..n PROVE m \in DOMAIN w /\ w[m].timestamp = w[n].timestamp
  <2>1. CASE m = n
    BY <2>1
  <2>2. CASE m # n
    <3>1. m \in 1..(n - 1) /\ m..(n - 1) \subseteq s..(n - 1) /\ m \in DOMAIN w
      BY <1>1, <2>2
    <3> QED
      BY <3>1, Times
  <2> QED
    BY <2>1, <2>2
<1>4. ASSUME NEW m \in DOMAIN w, m > n PROVE w[m].timestamp # w[n].timestamp
  <2>1. n \in 1..(m - 1) /\ n \in n..(m - 1)
    BY <1>1, <1>4
  <2> QED
    BY <2>1, Times
<1>5. \A m \in DOMAIN w : m < s \/ m \in s..n \/ m > n
  BY <1>1
<1> QED
  BY <1>2, <1>3, <1>4, <1>5

UnitAt(w, s, n) ==
  /\ n \in DOMAIN w /\ 1 < s /\ s <= n
  /\ w[n].marker /\ w[s - 1].marker
  /\ \A i \in s..(n - 1) : ~ w[i].marker

LEMMA CollectedIsSent ==
  ASSUME stream \in Streams, NEW n \in Nat, NEW s \in Nat, UnitAt(stream, s, n),
         NEW nals, NEW open, Collected(stream, s, n, stream[n].nal, nals, open)
  PROVE  IsSent(nal_units(nals), stream[n].timestamp) /\ open = <<>>
<1> DEFINE t == stream[n].timestamp
           K == Len(nals) - 1
<1>1. WellFormed(stream) /\ ~ Opens(stream[n])
  <2>1. WellFormed(stream)
    BY DecoderAssumption
  <2> QED
    BY <2>1, Shape DEF UnitAt
<1>2. {m \in DOMAIN stream : stream[m].timestamp = t} = s..n
  BY <1>1, UnitEnds DEF UnitAt
<1> HIDE DEF t
<1>3. /\ nals \in Seq(Seq(Nat)) /\ Len(nals) \in Nat \ {0} /\ nals[1] = Zero
      /\ \A k \in 2..Len(nals) :
           Some(stream, s, n, k - 1) # {} /\ Lists(nals[k], Some(stream, s, n, k - 1))
      /\ stream[n].nal = K /\ open = <<>>
      /\ \A m \in s..n : Readable(stream[m]) => stream[m].nal \in 1..K
  <2>1. /\ nals \in Seq(Seq(Nat)) /\ Len(nals) \in Nat \ {0} /\ nals[1] = Zero
        /\ \A k \in 2..Len(nals) :
             Some(stream, s, n, k - 1) # {} /\ Lists(nals[k], Some(stream, s, n, k - 1))
        /\ stream[n].nal + 1 = Len(nals) /\ open = <<>>
        /\ \A m \in s..n : Readable(stream[m]) => stream[m].nal \in 1..stream[n].nal
    BY <1>1 DEF Collected
  <2>2. stream[n].nal \in Nat
    BY <1>1, Shape DEF UnitAt
  <2>3. stream[n].nal = K
    BY ONLY <2>1, <2>2
  <2> QED
    BY <2>1, <2>3
<1>4. \A k : PlacesOf(t, k) = Some(stream, s, n, k)
  BY <1>2 DEF PlacesOf, ReadableAt, Some
<1>5. /\ nal_units(nals) = Tail(nals)
      /\ DOMAIN Tail(nals) = 1..K
      /\ \A k \in 1..K : Tail(nals)[k] = nals[k + 1]
  <2>1. nals # <<>> /\ Head(nals) = Zero
    BY <1>3
  <2> QED
    BY <1>3, <2>1 DEF nal_units
<1>6. \A k \in 1..K : PlacesOf(t, k) # {} /\ Lists(nal_units(nals)[k], PlacesOf(t, k))
  <2> SUFFICES ASSUME NEW k \in 1..K
               PROVE PlacesOf(t, k) # {} /\ Lists(nal_units(nals)[k], PlacesOf(t, k))
    OBVIOUS
  <2> DEFINE l == k + 1
  <2>1. l \in 2..Len(nals) /\ l - 1 = k /\ nal_units(nals)[k] = nals[l]
    BY <1>3, <1>5
  <2> HIDE DEF l
  <2> QED
    BY <1>3, <1>4, <2>1
<1>7. {stream[m].nal : m \in ReadableAt(t)} = 1..K
  <2>1. ASSUME NEW m \in ReadableAt(t) PROVE stream[m].nal \in 1..K
    <3>1. m \in s..n /\ Readable(stream[m])
      BY <1>2 DEF ReadableAt
    <3> QED
      BY <1>3, <3>1
  <2>2. ASSUME NEW k \in 1..K PROVE \E m \in ReadableAt(t) : stream[m].nal = k
    BY <1>6, Zenon DEF PlacesOf
  <2> QED
    BY <2>1, <2>2
<1> QED
  BY <1>3, <1>5, <1>6, <1>7, Zenon DEF IsSent, t

LEMMA SentUnit ==
  ASSUME NEW nals, NEW n \in DOMAIN stream, IsSent(nal_units(nals), stream[n].timestamp),
         unit' = nals, stream' = stream
  PROVE  UnitsWhole'
<1>1. PICK t : t = stream[n].timestamp
  OBVIOUS
<1>2. IsSent(nal_units(nals), t)
  BY <1>1
<1>3. \A x : IsSent(x, t)' <=> IsSent(x, t)
  BY DEF IsSent, ReadableAt, PlacesOf
<1>4. PICK x : x = nal_units(nals)
  OBVIOUS
<1>5. IsSent(x, t)'
  BY <1>2, <1>3, <1>4
<1>6. x = nal_units(unit')
  BY <1>4
<1>7. t = stream'[n].timestamp /\ n \in DOMAIN stream'
  BY <1>1
<1> QED
  BY <1>5, <1>6, <1>7 DEF UnitsWhole

\* Where the decoder is after a packet: at place p it was, and n it is now.
LEMMA LastMoves ==
  ASSUME stream \in Streams, next \in 1..(Len(stream) + 1), NEW n \in DOMAIN stream, Deliver(n),
         last_seq' = stream[n].sequence_number
  PROVE  Last(n)' /\ n \in Nat
<1>1. n \in Nat /\ next \in Nat /\ Window \in Nat
  <2>1. WellFormed(stream)
    BY DecoderAssumption
  <2> QED
    BY <2>1, Shape, DecoderAssumption
<1>2. stream' = stream /\ next <= n + Window /\ next' = IF n < next THEN next ELSE n + 1
  BY DEF Deliver, Arrives
<1> QED
  BY <1>1, <1>2 DEF Last

LEMMA DeliverNext ==
  ASSUME stream \in Streams, next \in 1..(Len(stream) + 1), NEW n \in DOMAIN stream, Deliver(n)
  PROVE  next' \in 1..(Len(stream') + 1) /\ stream' = stream /\ calm' = calm
<1>1. WellFormed(stream)
  BY DecoderAssumption
<1>2. Len(stream) \in Nat /\ DOMAIN stream = 1..Len(stream)
  BY <1>1, Shape
<1> QED
  BY <1>2 DEF Deliver, Arrives

\* Packet n comes next in the access unit that starts at place s, of which the
\* decoder has all packets up to p.
Continues(p, s, n) ==
  /\ n = p + 1 /\ 1 < s /\ s <= p + 1 /\ stream[s - 1].marker
  /\ \A i \in s..p : ~ stream[i].marker
  /\ Collected(stream, s, p, Before(stream, p + 1), internal_buffer, fragmentation_buffer)

\* Only such packets are decoded.
LEMMA DecodedContinues ==
  ASSUME DecoderInv, NEW n \in DOMAIN stream, Arrives(n), Decodes(stream[n])
  PROVE  \E p \in Nat, s \in Nat : Continues(p, s, n)
<1> DEFINE w == stream
<1>1. WellFormed(w)
  BY DecoderAssumption DEF DecoderInv
<1>2. ASSUME NEW p \in Nat, Last(p) PROVE n = p + 1
  <2>1. /\ p \in DOMAIN w /\ w[n].sequence_number = Successor(w[p].sequence_number)
        /\ next \in Nat /\ p < next /\ (next = p + 1 \/ next <= p + Window)
        /\ n <= next + Window /\ next <= n + Window
    BY <1>1, <1>2, Shape DEF Last, Decodes, IsNext, Arrives, DecoderInv
  <2> QED
    BY <1>1, <2>1, NextPlace
<1>3. \E p \in Nat, s \in Nat : Continues(p, s, n)
  <2>1. CASE Idle
    BY <2>1 DEF Idle, IsNext, Decodes
  <2>2. CASE Synchronised
    <3>1. PICK p \in Nat : Last(p) /\ w[p].marker
      BY <2>2 DEF Synchronised
    <3>2. p \in DOMAIN w /\ p > 0 /\ ~ Opens(w[p])
      BY <1>1, <3>1, Shape DEF Last
    <3>3. n = p + 1 /\ (p + 1) - 1 = p /\ 1 < p + 1 /\ (p + 1)..p = {}
      BY <1>2, <3>1, <3>2
    <3>4. Before(w, p + 1) = 0
      BY <3>1, <3>3 DEF Before
    <3>5. Collected(w, p + 1, p, 0, <<Zero>>, <<>>)
      BY <3>2, CollectStart
    <3>6. Collected(w, p + 1, p, Before(w, p + 1), internal_buffer, fragmentation_buffer)
      BY <2>2, <3>4, <3>5 DEF Synchronised
    <3> WITNESS p \in Nat, p + 1 \in Nat
    <3> QED
      BY <3>1, <3>3, <3>6 DEF Continues
  <2>3. CASE Collecting
    <3>1. PICK p \in Nat, s \in Nat :
            /\ Last(p) /\ timestamp = w[p].timestamp
            /\ 1 < s /\ s <= p /\ w[s - 1].marker
            /\ \A i \in s..p : ~ w[i].marker
            /\ Collected(w, s, p, w[p].nal, internal_buffer, fragmentation_buffer)
      BY <2>3 DEF Collecting
    <3>2. n = p + 1 /\ (p + 1) - 1 = p /\ p \in s..p
      BY <1>2, <3>1
    <3>3. Before(w, p + 1) = w[p].nal
      BY <3>1, <3>2 DEF Before
    <3> WITNESS p \in Nat, s \in Nat
    <3> QED
      BY <3>1, <3>2, <3>3 DEF Continues
  <2>4. CASE Returned
    <3>1. PICK p \in Nat : Last(p) /\ w[p].marker /\ timestamp = w[p].timestamp
      BY <2>4 DEF Returned
    <3>2. n = p + 1 /\ p > 0
      BY <1>1, <1>2, <3>1, Shape DEF Last
    <3>3. p \in 1..(n - 1) /\ p \in p..(n - 1)
      BY <3>1, <3>2
    <3>4. w[p].timestamp # w[n].timestamp
      BY <1>1, <3>1, <3>3, Times
    <3> QED
      BY <2>4, <3>1, <3>4 DEF Returned, Decodes
  <2> QED
    BY <2>1, <2>2, <2>3, <2>4 DEF DecoderInv
<1> QED
  BY <1>3

\* A packet that continues an access unit.
LEMMA AcceptKeeps ==
  ASSUME DecoderInv, NEW n \in DOMAIN stream, Deliver(n),
         ~ (stream[n].marker /\ timestamp = None),
         NEW ts, ts = IF is_loopback THEN stream[n].timestamp ELSE timestamp,
         IsNext(stream[n]), ts = stream[n].timestamp, timestamp' = ts, is_loopback' = FALSE,
         Accept(stream[n], decode_nal_unit(stream[n], n).nal, decode_nal_unit(stream[n], n).rest)
  PROVE  DecoderInv'
<1> DEFINE w == stream
           nal == decode_nal_unit(stream[n], n).nal
           rest == decode_nal_unit(stream[n], n).rest
           all == IF nal = None THEN internal_buffer ELSE Append(internal_buffer, nal)
<1>1. WellFormed(w)
  BY DecoderAssumption DEF DecoderInv
<1>2. Read(w, n, fragmentation_buffer, nal, rest)
  <2>1. ~ Short(stream[n])
    BY DEF Deliver, Panics, Decodes
  <2> QED
    BY <2>1, DecodeReads
<1>3. /\ last_seq' = w[n].sequence_number /\ fragmentation_buffer' = rest
      /\ unit' = IF w[n].marker THEN all ELSE None
      /\ internal_buffer' = IF w[n].marker THEN <<>> ELSE all
      /\ stream' = w /\ calm' \in BOOLEAN /\ next' \in 1..(Len(stream') + 1)
  BY DeliverNext DEF DecoderInv, Accept
<1>4. Last(n)' /\ n \in Nat
  BY <1>3, LastMoves DEF DecoderInv
<1> HIDE DEF nal, rest, all
<1>6. \E p \in Nat, s \in Nat : Continues(p, s, n)
  <2>1. Arrives(n) /\ Decodes(stream[n])
    BY DEF Deliver, Decodes
  <2> QED
    BY <2>1, DecodedContinues
<1>7. PICK p \in Nat, s \in Nat :
        /\ n = p + 1 /\ 1 < s /\ s <= p + 1 /\ w[s - 1].marker
        /\ \A i \in s..p : ~ w[i].marker
        /\ Collected(w, s, p, Before(w, p + 1), internal_buffer, fragmentation_buffer)
  BY <1>6 DEF Continues
<1>8. Collected(w, s, n, w[n].nal, all, rest)
  BY <1>1, <1>2, <1>7, CollectMore DEF all
<1>9. CASE w[n].marker
  <2>1. \A i \in s..(n - 1) : ~ w[i].marker
    BY <1>7
  <2>2. IsSent(nal_units(all), w[n].timestamp) /\ rest = <<>>
    <3>1. stream \in Streams /\ n \in Nat /\ s \in Nat
      BY <1>4 DEF DecoderInv
    <3>2. UnitAt(stream, s, n)
      BY <1>7, <1>9, <2>1 DEF UnitAt
    <3>3. Collected(stream, s, n, stream[n].nal, all, rest)
      BY <1>8
    <3> QED
      <4>1. \A x, y : Collected(stream, s, n, stream[n].nal, x, y)
                        => IsSent(nal_units(x), stream[n].timestamp) /\ y = <<>>
        BY ONLY <3>1, <3>2, CollectedIsSent, Zenon
      <4> QED
        BY ONLY <3>3, <4>1
  <2>3. Returned'
    BY <1>3, <1>4, <1>9, <2>2 DEF Returned
  <2>4. UnitsWhole'
    <3>1. unit' = all /\ stream' = stream
      BY <1>3, <1>9
    <3> QED
      BY <2>2, <3>1, SentUnit
  <2> QED
    BY <1>3, <2>3, <2>4, Zenon DEF DecoderInv
<1>10. CASE ~ w[n].marker
  <2>1. \A i \in s..n : ~ w[i].marker
    <3>1. s..n = s..p \cup {n}
      BY <1>7
    <3> QED
      BY <1>7, <1>10, <3>1
  <2>2. Collecting'
    BY <1>3, <1>4, <1>7, <1>8, <1>10, <2>1 DEF Collecting
  <2>3. UnitsWhole'
    BY <1>3, <1>10 DEF UnitsWhole
  <2> QED
    BY <1>3, <2>2, <2>3, Zenon DEF DecoderInv
<1> QED
  BY <1>9, <1>10

\* A marker while no timestamp is known.
LEMMA SynchroniseKeeps ==
  ASSUME DecoderInv, NEW n \in DOMAIN stream, Deliver(n),
         stream[n].marker, timestamp = None, Synchronise(stream[n])
  PROVE  DecoderInv'
<1>1. /\ last_seq' = stream[n].sequence_number /\ is_loopback' = TRUE /\ PushZero
      /\ unit' = None /\ timestamp' = None /\ fragmentation_buffer' = fragmentation_buffer
  BY DEF Synchronise
<1>2. stream' = stream /\ calm' \in BOOLEAN /\ next' \in 1..(Len(stream') + 1)
  BY DeliverNext DEF DecoderInv
<1>3. Last(n)' /\ n \in Nat
  BY <1>1, LastMoves DEF DecoderInv
<1>4. Idle \/ Synchronised
  <2>1. WellFormed(stream)
    BY DecoderAssumption DEF DecoderInv
  <2>2. \A p \in DOMAIN stream : stream[p].timestamp # None
    BY <2>1, Shape
  <2> QED
    BY <2>2 DEF DecoderInv, Collecting, Returned, Last
<1>5. fragmentation_buffer = <<>> /\ (internal_buffer = <<>> \/ internal_buffer = <<Zero>>)
  BY <1>4 DEF Idle, Synchronised
<1>6. internal_buffer' = <<Zero>>
  <2>1. CASE internal_buffer = <<>>
    BY <1>1, <2>1 DEF PushZero
  <2>2. CASE internal_buffer = <<Zero>>
    <3>1. internal_buffer # <<>> /\ internal_buffer[Len(internal_buffer)] = Zero
      BY <2>2
    <3> QED
      BY <1>1, <2>2, <3>1 DEF PushZero
  <2> QED
    BY <1>5, <2>1, <2>2
<1>7. Synchronised'
  BY <1>1, <1>2, <1>3, <1>5, <1>6 DEF Synchronised
<1> QED
  BY <1>1, <1>2, <1>7 DEF DecoderInv, UnitsWhole

LEMMA ResetKeeps ==
  ASSUME DecoderInv, NEW n \in DOMAIN stream, Deliver(n), is_loopback' = FALSE, Reset
  PROVE  DecoderInv'
<1>1. stream' = stream /\ calm' \in BOOLEAN /\ next' \in 1..(Len(stream') + 1)
  BY DeliverNext DEF DecoderInv
<1>2. Idle' /\ UnitsWhole'
  BY DEF Reset, Idle, UnitsWhole
<1> QED
  BY <1>1, <1>2, Zenon DEF DecoderInv

\* What process_packet does, one of three things.
LEMMA Outcomes ==
  ASSUME NEW n, process_packet(stream[n], n)
  PROVE  \/ stream[n].marker /\ timestamp = None /\ Synchronise(stream[n])
         \/ /\ ~ (stream[n].marker /\ timestamp = None) /\ is_loopback' = FALSE
            /\ IsNext(stream[n])
            /\ timestamp' = stream[n].timestamp /\ (~ is_loopback => timestamp' = timestamp)
            /\ Accept(stream[n], decode_nal_unit(stream[n], n).nal,
                      decode_nal_unit(stream[n], n).rest)
            /\ stream[n].marker => decode_nal_unit(stream[n], n).nal # None
         \/ /\ ~ (stream[n].marker /\ timestamp = None) /\ is_loopback' = FALSE /\ Reset
            /\ ~ (/\ IsNext(stream[n])
                  /\ is_loopback \/ timestamp = stream[n].timestamp
                  /\ stream[n].marker => decode_nal_unit(stream[n], n).nal # None)
<1>1. CASE stream[n].marker /\ timestamp = None
  BY <1>1 DEF process_packet
<1>2. CASE ~ (stream[n].marker /\ timestamp = None)
  <2>1. CASE is_loopback
    BY <1>2, <2>1 DEF process_packet
  <2>2. CASE ~ is_loopback
    BY <1>2, <2>2 DEF process_packet
  <2> QED
    BY <2>1, <2>2, Zenon
<1> QED
  BY <1>1, <1>2, Zenon

LEMMA DeliverKeeps ==
  ASSUME DecoderInv, NEW n \in DOMAIN stream, Deliver(n)
  PROVE  DecoderInv'
<1>1. process_packet(stream[n], n)
  BY DEF Deliver
<1>2. CASE stream[n].marker /\ timestamp = None /\ Synchronise(stream[n])
  BY <1>2, SynchroniseKeeps
<1>3. CASE /\ ~ (stream[n].marker /\ timestamp = None) /\ is_loopback' = FALSE
           /\ IsNext(stream[n])
           /\ timestamp' = stream[n].timestamp /\ (~ is_loopback => timestamp' = timestamp)
           /\ Accept(stream[n], decode_nal_unit(stream[n], n).nal,
                     decode_nal_unit(stream[n], n).rest)
  BY <1>3, AcceptKeeps, Zenon
<1>4. CASE is_loopback' = FALSE /\ Reset
  BY <1>4, ResetKeeps, Zenon
<1> QED
  BY <1>1, <1>2, <1>3, <1>4, Outcomes, Zenon

LEMMA DecoderInvHolds == DecoderSpec => []DecoderInv
<1>1. DecoderInit => DecoderInv
  <2> SUFFICES ASSUME DecoderInit PROVE DecoderInv
    OBVIOUS
  <2>1. stream \in Streams /\ next = 1 /\ calm \in BOOLEAN
    BY Zenon DEF DecoderInit
  <2>2. WellFormed(stream)
    BY <2>1, DecoderAssumption
  <2>3. next \in 1..(Len(stream) + 1)
    BY <2>1, <2>2, Shape
  <2> QED
    BY <2>1, <2>3, Zenon DEF DecoderInit, DecoderInv, Idle, UnitsWhole
<1>2. DecoderInv /\ [DecoderNext]_au_vars => DecoderInv'
  <2> SUFFICES ASSUME DecoderInv, [DecoderNext]_au_vars PROVE DecoderInv'
    OBVIOUS
  <2>1. ASSUME NEW n \in DOMAIN stream, Deliver(n) PROVE DecoderInv'
    BY <2>1, DeliverKeeps
  <2>2. ASSUME UNCHANGED <<stream, next, decoder_vars, unit>>, calm' \in BOOLEAN PROVE DecoderInv'
    <3>1. /\ stream' = stream /\ next' = next /\ unit' = unit
          /\ last_seq' = last_seq /\ timestamp' = timestamp /\ is_loopback' = is_loopback
          /\ fragmentation_buffer' = fragmentation_buffer /\ internal_buffer' = internal_buffer
      BY <2>2 DEF decoder_vars
    <3>2. /\ Idle => Idle'
          /\ Synchronised => Synchronised'
          /\ Collecting => Collecting'
          /\ Returned => Returned'
      BY <3>1 DEF Idle, Synchronised, Collecting, Returned, Last
    <3>3. UnitsWhole => UnitsWhole'
      <4> SUFFICES ASSUME UnitsWhole, unit # None PROVE UnitsWhole'
        BY <3>1 DEF UnitsWhole
      <4>1. PICK nals : nals = unit
        OBVIOUS
      <4>2. PICK n \in DOMAIN stream : IsSent(nal_units(nals), stream[n].timestamp)
        BY <4>1 DEF UnitsWhole
      <4> QED
        BY <3>1, <4>1, <4>2, SentUnit
    <3> QED
      BY <2>2, <3>1, <3>2, <3>3 DEF DecoderInv
  <2>3. CASE CalmDown
    BY <2>2, <2>3 DEF CalmDown
  <2>4. CASE UNCHANGED au_vars
    BY <2>2, <2>4 DEF au_vars, DecoderInv
  <2>5. ASSUME NEW n \in DOMAIN stream, DeliverFatal(n) PROVE DecoderInv'
    BY <2>2, <2>5 DEF DeliverFatal, DecoderInv
  <2> QED
    BY <2>1, <2>3, <2>4, <2>5 DEF DecoderNext
<1> QED
  BY <1>1, <1>2, PTL DEF DecoderSpec

\* Whatever the network does to the packets of a well-formed stream, an access
\* unit that process_packet returns is one the streamer sent, whole and in order.
THEOREM UnitsAreWhole == DecoderSpec => []UnitsWhole
<1>1. DecoderInv => UnitsWhole
  BY DEF DecoderInv
<1> QED
  BY <1>1, DecoderInvHolds, PTL

\* The decoder's state is of its type.
THEOREM DecoderTypes == DecoderSpec => []DecoderTypeOK
<1>1. DecoderInv => DecoderTypeOK
  <2> SUFFICES ASSUME DecoderInv PROVE DecoderTypeOK
    OBVIOUS
  <2>1. WellFormed(stream)
    BY DecoderAssumption DEF DecoderInv
  <2>2. /\ DOMAIN stream = 1..Len(stream) /\ Len(stream) \in Nat
        /\ \A p \in DOMAIN stream : stream[p].sequence_number \in 0..(SeqModulus - 1)
    BY <2>1, Shape
  <2>3. /\ next \in 1..(Len(stream) + 1)
        /\ last_seq \in {None} \cup 0..(SeqModulus - 1)
        /\ timestamp \in {None} \cup {stream[n].timestamp : n \in DOMAIN stream}
        /\ is_loopback \in BOOLEAN
    <3>1. next \in 1..(Len(stream) + 1) /\ is_loopback \in BOOLEAN
      BY DEF DecoderInv
    <3>2. last_seq = None \/ \E p \in DOMAIN stream : last_seq = stream[p].sequence_number
      BY DEF DecoderInv, Idle, Synchronised, Collecting, Returned, Last
    <3>3. timestamp = None \/ \E p \in DOMAIN stream : timestamp = stream[p].timestamp
      BY DEF DecoderInv, Idle, Synchronised, Collecting, Returned, Last
    <3> QED
      BY <2>2, <3>1, <3>2, <3>3
  <2>4. /\ fragmentation_buffer \in Seq(DOMAIN stream)
        /\ \A i \in DOMAIN internal_buffer : internal_buffer[i] \in Seq(DOMAIN stream)
    <3>1. CASE Idle \/ Returned
      <4>1. fragmentation_buffer = <<>> /\ internal_buffer = <<>>
        BY <3>1 DEF Idle, Returned
      <4>2. DOMAIN internal_buffer = {}
        BY <4>1
      <4> QED
        BY <4>1, <4>2
    <3>2. CASE Synchronised
      <4>1. Zero \in Seq(DOMAIN stream)
        BY DEF Zero
      <4> HIDE DEF Zero
      <4> QED
        BY <3>2, <4>1 DEF Synchronised
    <3>3. CASE Collecting
      <4>1. PICK p \in Nat, s \in Nat :
              /\ Last(p) /\ 1 < s /\ s <= p
              /\ Collected(stream, s, p, stream[p].nal, internal_buffer, fragmentation_buffer)
        BY <3>3 DEF Collecting
      <4>2. \A k : Some(stream, s, p, k) \subseteq DOMAIN stream
        BY <2>2, <4>1 DEF Some, Last
      <4>3. ASSUME NEW S, S \subseteq DOMAIN stream, NEW places \in Seq(S)
            PROVE  places \in Seq(DOMAIN stream)
        BY <4>3
      <4>4. Zero \in Seq(DOMAIN stream)
        BY DEF Zero
      <4>5. ASSUME NEW i \in DOMAIN internal_buffer
            PROVE  internal_buffer[i] \in Seq(DOMAIN stream)
        <5>1. DOMAIN internal_buffer = 1..Len(internal_buffer) /\ Len(internal_buffer) \in Nat
          BY <4>1, LenProperties DEF Collected
        <5>2. CASE i = 1
          BY <4>1, <4>4, <5>2 DEF Collected
        <5>3. CASE i # 1
          <6>1. i \in 2..Len(internal_buffer)
            BY <5>1, <5>3
          <6>2. internal_buffer[i] \in Seq(Some(stream, s, p, i - 1))
            BY <4>1, <6>1 DEF Collected, Lists
          <6> QED
            BY <4>2, <4>3, <6>2
        <5> QED
          BY <5>2, <5>3
      <4>6. fragmentation_buffer \in Seq(DOMAIN stream)
        <5>1. CASE Opens(stream[p])
          <6>1. fragmentation_buffer \in Seq(Some(stream, s, p, stream[p].nal))
            BY <4>1, <5>1 DEF Collected, Lists
          <6> QED
            BY <4>2, <4>3, <6>1
        <5>2. CASE ~ Opens(stream[p])
          BY <4>1, <5>2 DEF Collected
        <5> QED
          BY <5>1, <5>2
      <4> QED
        BY <4>5, <4>6
    <3> QED
      BY <3>1, <3>2, <3>3 DEF DecoderInv
  <2> QED
    BY <2>3, <2>4 DEF DecoderTypeOK
<1> QED
  BY <1>1, DecoderInvHolds, PTL

------------------------------------------------------------------------------
\* Panics.

\* A NAL unit that is open at place p of a unit that begins at s was begun there
\* with a start fragment.
LEMMA Started ==
  ASSUME NEW w, WellFormed(w), NEW s \in Nat, NEW p \in DOMAIN w, 1 < s, s <= p + 1,
         w[s - 1].marker, Opens(w[p])
  PROVE  \E m \in Some(w, s, p, w[p].nal) : w[m].start_bit
<1> DEFINE T == {m \in s..p : \A i \in m..p : Opens(w[i]) /\ w[i].nal = w[p].nal}
<1>1. Len(w) \in Nat /\ DOMAIN w = 1..Len(w) /\ p \in Nat
  BY Shape
<1>2. s <= p
  <2>1. s = p + 1 => s - 1 = p
    BY <1>1
  <2> QED
    BY <1>1, <2>1, Shape
<1>3. T \subseteq Nat /\ T # {}
  <2>1. p \in s..p /\ \A i \in p..p : i = p
    BY <1>1, <1>2
  <2> QED
    BY <2>1
<1>4. PICK m \in T : \A j \in T : m <= j
  <2> HIDE DEF T
  <2> QED
    BY ONLY <1>3, LeastNat
<1>5. /\ m \in s..p /\ m \in m..p /\ m \in DOMAIN w /\ m > 1 /\ m - 1 \in DOMAIN w
      /\ Opens(w[m]) /\ Readable(w[m]) /\ w[m].nal = w[p].nal
  BY <1>1, <1>4 DEF Opens
<1>6. ASSUME ~ Begins(w[m]) PROVE FALSE
  <2>1. Opens(w[m - 1]) /\ w[m].nal = Before(w, m)
    BY <1>1, <1>5, <1>6, Numbers
  <2>2. ~ w[m - 1].marker
    BY <1>5, <2>1, Shape
  <2>3. w[m - 1].nal = w[p].nal
    BY <1>5, <2>1, <2>2 DEF Before
  <2>4. m # s
    BY <2>2
  <2>5. m - 1 \in s..p /\ (m - 1)..p = {m - 1} \cup m..p
    BY <1>1, <1>5, <2>4
  <2>6. m - 1 \in T
    BY <1>4, <2>1, <2>3, <2>5
  <2>7. ~ (m <= m - 1)
    BY <1>5
  <2> QED
    BY <1>4, <2>6, <2>7
<1>7. w[m].start_bit
  BY <1>5, <1>6 DEF Opens, Begins
<1>8. m \in Some(w, s, p, w[p].nal)
  BY <1>5 DEF Some
<1> QED
  BY <1>7, <1>8

\* The packet whose decoding panics has not its headers.
LEMMA OnlyShortPanic ==
  ASSUME DecoderInv, NEW n \in DOMAIN stream, DeliverFatal(n)
  PROVE  Short(stream[n])
<1> SUFFICES ASSUME ~ Short(stream[n]) PROVE FALSE
  OBVIOUS
<1>1. WellFormed(stream)
  BY DecoderAssumption DEF DecoderInv
<1>2. /\ Arrives(n) /\ Decodes(stream[n])
      /\ PayloadType(stream[n]) = "FU_A" /\ FragmentationRole(stream[n]) = "End"
      /\ \A i \in DOMAIN fragmentation_buffer : ~ stream[fragmentation_buffer[i]].start_bit
  BY DEF DeliverFatal, Panics
<1>3. ~ stream[n].forbidden_zero_bit /\ stream[n].type = 28
  BY <1>2 DEF PayloadType
<1>4. ~ stream[n].start_bit
  BY <1>2 DEF FragmentationRole
<1>5. Readable(stream[n]) /\ ~ Begins(stream[n])
  BY <1>3, <1>4 DEF Readable, Begins
<1>6. PICK p \in Nat, s \in Nat : Continues(p, s, n)
  BY <1>2, DecodedContinues
<1>7. /\ n = p + 1 /\ n > 1 /\ n - 1 = p /\ 1 < s /\ s <= p + 1 /\ stream[s - 1].marker
      /\ Collected(stream, s, p, Before(stream, p + 1), internal_buffer, fragmentation_buffer)
  BY <1>6 DEF Continues
<1>8. Opens(stream[p]) /\ p \in DOMAIN stream
  <2>1. Opens(stream[n - 1])
    BY <1>1, <1>5, <1>7, Numbers
  <2>2. p \in DOMAIN stream
    BY <1>1, <1>7, Shape
  <2> QED
    BY <1>7, <2>1, <2>2
<1>9. Before(stream, p + 1) = stream[p].nal
  <2>1. ~ stream[p].marker
    BY <1>1, <1>8, Shape
  <2> QED
    BY <1>7, <2>1 DEF Before
<1>10. Lists(fragmentation_buffer, Some(stream, s, p, stream[p].nal))
  BY <1>7, <1>8, <1>9 DEF Collected
<1>11. PICK m \in Some(stream, s, p, stream[p].nal) : stream[m].start_bit
  BY <1>1, <1>7, <1>8, Started
<1>12. PICK i \in DOMAIN fragmentation_buffer : fragmentation_buffer[i] = m
  BY <1>10, <1>11 DEF Lists
<1> QED
  BY <1>2, <1>11, <1>12

\* A stream whose payloads all have their headers never makes an index of the
\* decoder panic, whatever is lost, repeated or reordered, and although fragments
\* may be empty: the end of a NAL unit is decoded only after its start.
THEOREM HeadersDoSuffice == DecoderSpec => []HeadersSuffice
<1>1. DecoderInit => HeadersSuffice
  BY DEF DecoderInit, HeadersSuffice
<1>2. DecoderInv /\ HeadersSuffice /\ [DecoderNext]_au_vars => HeadersSuffice'
  <2> SUFFICES ASSUME DecoderInv, HeadersSuffice, [DecoderNext]_au_vars PROVE HeadersSuffice'
    OBVIOUS
  <2>1. ASSUME NEW n \in DOMAIN stream, DeliverFatal(n) PROVE HeadersSuffice'
    <3>1. Short(stream[n]) /\ stream' = stream
      BY <2>1, OnlyShortPanic DEF DeliverFatal
    <3> QED
      BY <3>1 DEF HeadersSuffice
  <2>2. ASSUME stream' = stream, ended' = ended PROVE HeadersSuffice'
    BY <2>2 DEF HeadersSuffice
  <2> QED
    BY <2>1, <2>2 DEF DecoderNext, CalmDown, Deliver, au_vars
<1> QED
  BY <1>1, <1>2, DecoderInvHolds, PTL DEF DecoderSpec

------------------------------------------------------------------------------
\* Recovery.

\* What the buffers hold, and that a known timestamp rules out the loopback.
LEMMA Buffers ==
  ASSUME DecoderInv
  PROVE  /\ fragmentation_buffer \in Seq(Nat) /\ internal_buffer \in Seq(Seq(Nat))
         /\ is_loopback => timestamp = None
<1>1. is_loopback => timestamp = None
  BY DEF DecoderInv, Idle, Synchronised, Collecting, Returned
<1>2. <<>> \in Seq(Nat) /\ <<>> \in Seq(Seq(Nat)) /\ <<Zero>> \in Seq(Seq(Nat))
  BY DEF Zero
<1>3. CASE Idle \/ Synchronised \/ Returned
  BY <1>1, <1>2, <1>3, Zenon DEF Idle, Synchronised, Returned
<1>4. CASE Collecting
  BY <1>1, <1>4 DEF Collecting, Collected
<1> QED
  BY <1>3, <1>4 DEF DecoderInv

\* The packet with the marker completes a NAL unit, if it can be read at all.
LEMMA Completes ==
  ASSUME DecoderInv, Decodable, NEW n \in DOMAIN stream, stream[n].marker
  PROVE  /\ decode_nal_unit(stream[n], n).nal \in Seq(Nat)
         /\ decode_nal_unit(stream[n], n).nal # None
<1> DEFINE nal == decode_nal_unit(stream[n], n).nal
           rest == decode_nal_unit(stream[n], n).rest
<1>1. Readable(stream[n]) /\ ~ Opens(stream[n]) /\ n \in Nat
  <2>1. WellFormed(stream)
    BY DecoderAssumption DEF DecoderInv
  <2> QED
    BY <2>1, Shape DEF Decodable
<1>2. Read(stream, n, fragmentation_buffer, nal, rest)
  BY <1>1, DecodeReads DEF Readable
<1> HIDE DEF nal, rest
<1>3. nal = <<n>> \/ nal = Append(fragmentation_buffer, n)
  BY <1>1, <1>2 DEF Read
<1>4. nal \in Seq(Nat)
  <2>1. <<n>> \in Seq(Nat)
    BY <1>1
  <2>2. Append(fragmentation_buffer, n) \in Seq(Nat)
    BY <1>1, Buffers, AppendProperties
  <2> QED
    BY <1>3, <2>1, <2>2, Zenon
<1>5. nal # None
  BY <1>4, DecoderAssumption
<1> QED
  BY <1>4, <1>5 DEF nal

\* At the last packet there was, between two access units or not.
Boundary == next = 1 \/ stream[next - 1].marker

InStep == next > 1 /\ last_seq = stream[next - 1].sequence_number

\* An access unit is missed only while the decoder finds the end of one, and from
\* there on it is in step.
RecoverInv ==
  /\ skipped \in {0, 1}
  /\ ~ calm => skipped = 0
  /\ calm /\ Boundary /\ skipped = 1 => is_loopback /\ InStep
  /\ calm /\ ~ Boundary =>
       /\ ~ is_loopback
       /\ \/ timestamp = None /\ last_seq = None /\ skipped = 0
          \/ timestamp = stream[next - 1].timestamp /\ InStep

\* One packet of a calm network.
LEMMA CalmKeeps ==
  ASSUME DecoderInv, RecoverInv, Decodable, NEW n \in DOMAIN stream, Deliver(n), calm
  PROVE  RecoverInv'
<1>1. WellFormed(stream)
  BY DecoderAssumption DEF DecoderInv
<1>2. /\ n = next /\ n \in Nat /\ n > 0 /\ next' = n + 1 /\ next' > 1 /\ next' - 1 = n /\ next' # 1
      /\ stream' = stream /\ calm' = calm
      /\ skipped' = IF unit' # None THEN 0
                    ELSE IF stream[n].marker /\ ~ Lone(n) THEN skipped + 1 ELSE skipped
  BY <1>1, Shape DEF Deliver, Arrives
<1>3. skipped \in {0, 1} /\ Boundary' = stream[n].marker
  BY <1>1, <1>2, Shape DEF RecoverInv, Boundary
<1>4. last_seq' = stream[n].sequence_number => InStep'
  BY <1>2 DEF InStep
<1>5. InStep => IsNext(stream[n])
  <2> SUFFICES ASSUME InStep PROVE IsNext(stream[n])
    OBVIOUS
  <2>1. n > 1 /\ n - 1 \in DOMAIN stream /\ last_seq = stream[n - 1].sequence_number
    BY <1>1, <1>2, Shape DEF InStep
  <2>2. last_seq \in Nat /\ stream[n].sequence_number = Successor(last_seq)
    BY <1>1, <2>1, Shape, DecoderAssumption
  <2> QED
    BY <2>2, DecoderAssumption DEF IsNext
<1>6. n > 1 => /\ n - 1 \in 1..(n - 1)
               /\ stream[n - 1].timestamp = stream[n].timestamp <=> ~ stream[n - 1].marker
  <2> SUFFICES ASSUME n > 1
               PROVE  /\ n - 1 \in 1..(n - 1)
                      /\ stream[n - 1].timestamp = stream[n].timestamp <=> ~ stream[n - 1].marker
    OBVIOUS
  <2>1. n - 1 \in 1..(n - 1) /\ (n - 1)..(n - 1) = {n - 1}
    BY <1>2
  <2> QED
    BY <1>1, <2>1, Times
<1>7. stream[n].timestamp # None
  BY <1>1, Shape
<1>8. process_packet(stream[n], n)
  BY DEF Deliver
<1>9. CASE stream[n].marker /\ timestamp = None /\ Synchronise(stream[n])
  <2>1. last_seq' = stream[n].sequence_number /\ is_loopback' = TRUE /\ unit' = None
    BY <1>9 DEF Synchronise
  <2>2. CASE Boundary
    <3>1. Lone(n)
      BY <1>2, <1>6, <1>9, <2>2 DEF Boundary, Lone
    <3> QED
      BY <1>2, <1>3, <1>4, <1>9, <2>1, <3>1 DEF RecoverInv
  <2>3. CASE ~ Boundary
    <3>1. skipped = 0
      <4>1. n > 1 /\ ~ stream[n - 1].marker
        BY <1>2, <2>3 DEF Boundary
      <4>2. timestamp # stream[next - 1].timestamp
        BY <1>2, <1>6, <1>7, <1>9, <4>1
      <4> QED
        BY <2>3, <4>2 DEF RecoverInv
    <3> QED
      BY <1>2, <1>3, <1>4, <1>9, <2>1, <3>1 DEF RecoverInv
  <2> QED
    BY <2>2, <2>3
<1>10. CASE /\ ~ (stream[n].marker /\ timestamp = None) /\ is_loopback' = FALSE
            /\ timestamp' = stream[n].timestamp
            /\ Accept(stream[n], decode_nal_unit(stream[n], n).nal,
                      decode_nal_unit(stream[n], n).rest)
  <2>1. last_seq' = stream[n].sequence_number
    BY <1>10 DEF Accept
  <2>2. CASE stream[n].marker
    <3>1. unit' = Append(internal_buffer, decode_nal_unit(stream[n], n).nal)
      BY <1>10, <2>2, Completes DEF Accept
    <3>2. unit' \in Seq(Seq(Nat))
      BY <2>2, <3>1, Completes, Buffers
    <3>3. skipped' = 0
      BY <1>2, <3>2, DecoderAssumption
    <3> QED
      BY <1>2, <1>3, <2>2, <3>3 DEF RecoverInv
  <2>3. CASE ~ stream[n].marker
    BY <1>2, <1>3, <1>4, <1>10, <2>1, <2>3 DEF RecoverInv
  <2> QED
    BY <2>2, <2>3
<1>11. CASE /\ ~ (stream[n].marker /\ timestamp = None) /\ is_loopback' = FALSE /\ Reset
            /\ ~ (/\ IsNext(stream[n])
                  /\ is_loopback \/ timestamp = stream[n].timestamp
                  /\ stream[n].marker => decode_nal_unit(stream[n], n).nal # None)
  <2>1. last_seq' = None /\ timestamp' = None /\ unit' = None
    BY <1>11 DEF Reset
  <2>2. ~ (IsNext(stream[n]) /\ (is_loopback \/ timestamp = stream[n].timestamp))
    BY <1>11, Completes
  <2>3. skipped = 0
    <3>1. CASE Boundary
      BY <1>3, <1>5, <2>2, <3>1 DEF RecoverInv
    <3>2. CASE ~ Boundary
      <4>1. stream[next - 1].timestamp = stream[n].timestamp
        BY <1>2, <1>6, <3>2 DEF Boundary
      <4> QED
        BY <1>5, <2>2, <3>2, <4>1 DEF RecoverInv
    <3> QED
      BY <3>1, <3>2
  <2>4. stream[n].marker => Lone(n)
    <3> SUFFICES ASSUME stream[n].marker, ~ Lone(n) PROVE FALSE
      OBVIOUS
    <3>1. ~ Boundary
      BY <1>2, <1>6 DEF Boundary, Lone
    <3>2. stream[next - 1].timestamp = stream[n].timestamp
      BY <1>2, <1>6, <3>1 DEF Boundary
    <3> QED
      BY <1>5, <1>11, <2>2, <3>1, <3>2 DEF RecoverInv
  <2> QED
    BY <1>2, <1>3, <1>11, <2>1, <2>3, <2>4 DEF RecoverInv
<1> QED
  BY <1>8, <1>9, <1>10, <1>11, Outcomes, Zenon

\* Once packets come in order again, process_packet misses at most one access
\* unit of several packets before it returns one, if every access unit ends with
\* a packet it can read.
THEOREM DecoderRecovers == DecoderSpec => []Recovers
<1> DEFINE Inv == Decodable => RecoverInv
<1>1. DecoderInit => Inv
  BY DEF DecoderInit, RecoverInv, Boundary
<1>2. DecoderInv /\ Inv /\ [DecoderNext]_au_vars => Inv'
  <2> SUFFICES ASSUME DecoderInv, Inv, [DecoderNext]_au_vars, Decodable' PROVE RecoverInv'
    OBVIOUS
  <2>1. stream' = stream
    BY DEF DecoderNext, CalmDown, Deliver, DeliverFatal, au_vars
  <2>2. Decodable /\ RecoverInv
    BY <2>1 DEF Decodable
  <2>3. ASSUME NEW n \in DOMAIN stream, Deliver(n) PROVE RecoverInv'
    <3>1. CASE calm
      BY <2>2, <2>3, <3>1, CalmKeeps
    <3>2. CASE ~ calm
      BY <2>3, <3>2 DEF Deliver, RecoverInv
    <3> QED
      BY <3>1, <3>2
  <2>4. CASE CalmDown
    <3>1. /\ ~ calm /\ Boundary /\ stream' = stream /\ next' = next /\ skipped' = skipped
      <4>1. WellFormed(stream) /\ next \in Nat /\ next > 0
        <5>1. WellFormed(stream)
          BY DecoderAssumption DEF DecoderInv
        <5> QED
          BY <5>1, Shape DEF DecoderInv
      <4> QED
        BY <2>4, <4>1 DEF CalmDown, Boundary
    <3>2. Boundary'
      BY <3>1 DEF Boundary
    <3> QED
      BY <2>2, <3>1, <3>2 DEF RecoverInv
  <2>5. CASE UNCHANGED au_vars
    BY <2>2, <2>5 DEF RecoverInv, Boundary, InStep, au_vars, decoder_vars
  <2>6. ASSUME NEW n \in DOMAIN stream, DeliverFatal(n) PROVE RecoverInv'
    BY <2>2, <2>6 DEF DeliverFatal, RecoverInv, Boundary, InStep, decoder_vars
  <2> QED
    BY <2>3, <2>4, <2>5, <2>6 DEF DecoderNext
<1>3. Inv => Recovers
  BY DEF RecoverInv, Recovers
<1> HIDE DEF Inv
<1> QED
  BY <1>1, <1>2, <1>3, DecoderInvHolds, PTL DEF DecoderSpec

==============================================================================
