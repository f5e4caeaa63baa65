---------------------------- MODULE IceCheckProofs ----------------------------
(***************************************************************************)
(* Facts about the lengths in STUN messages, for user names of every        *)
(* length, and safety of the connectivity checks, for any agents, addresses *)
(* and other traffic.                                                       *)
(***************************************************************************)
EXTENDS IceCheck, InductionLemmas, SequenceTheorems

\* The longest user name whose padded length is a u16 as well.
LongestName == WordSize - 4

LEMMA Bounds == LongestName \in Nat /\ LongestName <= 65532 /\ 96 <= LongestName
  BY DEF LongestName, WordSize

\* A u16 that does not overflow is kept.
LEMMA Kept == \A k \in Nat : k < 65536 => k % WordSize = k
  BY DEF WordSize

LEMMA NameBounds ==
  \A n \in 1..LongestName : n \in Nat /\ n > 0 /\ n \in 0..LongestName
  <1>1. LongestName \in Nat
    BY Bounds
  <1> QED
    BY <1>1

\* pad_to_4bytes rounds up to the next multiple of four.
LEMMA Padding ==
  \A n \in 0..LongestName :
    /\ pad_to_4bytes(n) \in Nat
    /\ pad_to_4bytes(n) % 4 = 0
    /\ n <= pad_to_4bytes(n) /\ pad_to_4bytes(n) < n + 4
    /\ pad_to_4bytes(n) = n <=> n % 4 = 0
  <1> SUFFICES ASSUME NEW n \in 0..LongestName
               PROVE /\ pad_to_4bytes(n) \in Nat
                     /\ pad_to_4bytes(n) % 4 = 0
                     /\ n <= pad_to_4bytes(n) /\ pad_to_4bytes(n) < n + 4
                     /\ pad_to_4bytes(n) = n <=> n % 4 = 0
    OBVIOUS
  <1> n \in Nat /\ n <= 65532
    BY Bounds
  <1>1. n % 4 \in 0..3
    OBVIOUS
  <1>2. CASE n % 4 = 0
    BY <1>2 DEF pad_to_4bytes
  <1>3. CASE n % 4 # 0
    <2>1. n + 4 - (n % 4) \in Nat /\ n + 4 - (n % 4) < 65536
      BY <1>1, <1>3
    <2>2. pad_to_4bytes(n) = n + 4 - (n % 4)
      BY <2>1, <1>3, Kept DEF pad_to_4bytes
    <2>3. (n + 4 - (n % 4)) % 4 = 0
      OBVIOUS
    <2> QED
      BY <1>1, <1>3, <2>1, <2>2, <2>3
  <1> QED
    BY <1>2, <1>3

\* A name that needs padding is written whole, any other not at all.
LEMMA UsernameRoom ==
  \A n \in 1..LongestName :
    /\ write_username_attribute(n).length = n
    /\ write_username_attribute(n).room = IF n % 4 = 0 THEN 0 ELSE pad_to_4bytes(n)
  <1> SUFFICES ASSUME NEW n \in 1..LongestName
               PROVE /\ write_username_attribute(n).length = n
                     /\ write_username_attribute(n).room
                          = IF n % 4 = 0 THEN 0 ELSE pad_to_4bytes(n)
    OBVIOUS
  <1>0. n \in Nat /\ n < 65536 /\ n \in 0..LongestName
    BY Bounds
  <1>1. n % WordSize = n
    BY <1>0, Kept
  <1>2. /\ pad_to_4bytes(n) \in Nat
        /\ n <= pad_to_4bytes(n)
        /\ pad_to_4bytes(n) = n <=> n % 4 = 0
    BY <1>0, Padding
  <1>3. pad_to_4bytes(n) > n <=> n % 4 # 0
    BY <1>2
  <1> QED
    BY <1>1, <1>3 DEF write_username_attribute, Attribute

\* A reader that goes by the stated lengths stays in step over the user name of
\* a response just when the name needs padding, because write_username_attribute
\* writes no other name, and over every other attribute always.
THEOREM ReadersKeepStep ==
  \A n \in 1..LongestName, family \in {4, 6} :
    \A i \in 1..5 :
      InStep(ResponseAttributes(n, family)[i]) <=> (i # 1 \/ n % 4 # 0)
  <1> SUFFICES ASSUME NEW n \in 1..LongestName, NEW family \in {4, 6}
               PROVE \A i \in 1..5 :
                       InStep(ResponseAttributes(n, family)[i]) <=> (i # 1 \/ n % 4 # 0)
    OBVIOUS
  <1>1. InStep(write_username_attribute(n)) <=> n % 4 # 0
    <2>1. pad_to_4bytes(n) \in Nat /\ n <= pad_to_4bytes(n) /\ n \in Nat /\ n > 0
      BY NameBounds, Padding
    <2> QED
      BY <2>1, UsernameRoom DEF InStep
  <1>2. /\ InStep(compute_xor_mapped_address(family))
        /\ InStep(write_mapped_address_attribute(family))
    BY DEF InStep, compute_xor_mapped_address, write_mapped_address_attribute, Attribute,
           AddressLen, pad_to_4bytes
  <1>3. InStep(Attribute("MessageIntegrity", STUN_MESSAGE_INTEGRITY_LEN, STUN_MESSAGE_INTEGRITY_LEN))
    BY DEF InStep, Attribute, pad_to_4bytes, STUN_MESSAGE_INTEGRITY_LEN
  <1>4. InStep(Attribute("Fingerprint", 4, FingerprintLen - 4))
    BY DEF InStep, Attribute, pad_to_4bytes, FingerprintLen
  <1> QED
    BY <1>1, <1>2, <1>3, <1>4 DEF ResponseAttributes

\* The length that create_stun_success puts in the header is a multiple of four,
\* is that of the attributes written, and is what send_to is told to send less
\* the header.
THEOREM LengthsAgree ==
  \A n \in 1..LongestName, family \in {4, 6} :
    LET attributes == ResponseAttributes(n, family) IN
    /\ HeaderLength(n, family) % 4 = 0
    /\ HeaderLength(n, family)
         = Size(attributes[1]) + Size(attributes[2]) + Size(attributes[3])
             + Size(attributes[4]) + Size(attributes[5])
    /\ BytesSent(n, family) = STUN_HEADER_LEN + HeaderLength(n, family)
  <1> SUFFICES ASSUME NEW n \in 1..LongestName, NEW family \in {4, 6}
               PROVE /\ HeaderLength(n, family) % 4 = 0
                     /\ HeaderLength(n, family)
                          = Size(ResponseAttributes(n, family)[1])
                              + Size(ResponseAttributes(n, family)[2])
                              + Size(ResponseAttributes(n, family)[3])
                              + Size(ResponseAttributes(n, family)[4])
                              + Size(ResponseAttributes(n, family)[5])
                     /\ BytesSent(n, family) = STUN_HEADER_LEN + HeaderLength(n, family)
    OBVIOUS
  <1> DEFINE name == write_username_attribute(n)
             address == AddressLen(family)
  <1>1. name.room \in Nat /\ name.room % 4 = 0
    BY NameBounds, UsernameRoom, Padding
  <1>2. address \in {8, 20}
    BY DEF AddressLen
  <1>3. message_length(n, family) = (4 + address) + 24 + (4 + name.room) + (4 + address)
    BY DEF message_length, Size, compute_xor_mapped_address, write_mapped_address_attribute,
           Attribute, STUN_MESSAGE_INTEGRITY_ATTRIBUTE_LEN
  <1>4. /\ Size(ResponseAttributes(n, family)[1]) = 4 + name.room
        /\ Size(ResponseAttributes(n, family)[2]) = 4 + address
        /\ Size(ResponseAttributes(n, family)[3]) = 4 + address
        /\ Size(ResponseAttributes(n, family)[4]) = 24
        /\ Size(ResponseAttributes(n, family)[5]) = 8
    BY DEF ResponseAttributes, Size, compute_xor_mapped_address,
           write_mapped_address_attribute, Attribute, STUN_MESSAGE_INTEGRITY_LEN, FingerprintLen
  <1> HIDE DEF name, address
  <1>5. HeaderLength(n, family) = 44 + 2 * address + name.room
    BY <1>1, <1>2, <1>3 DEF HeaderLength
  <1>6. (44 + 2 * address + name.room) % 4 = 0
    BY <1>1, <1>2
  <1> QED
    BY <1>1, <1>2, <1>3, <1>4, <1>5, <1>6 DEF HeaderLength, BytesSent, STUN_HEADER_LEN

\* The buffers that handle_stun_packet and create_stun_success put a response in
\* hold it just when the user name needs no padding, and so is not written, or has
\* at most 116 bytes, 96 if the address is an IPv6 address.
THEOREM ResponsesFit ==
  \A n \in 1..LongestName, family \in {4, 6} :
    Fits(n, family) <=> n % 4 = 0 \/ n <= IF family = 4 THEN 116 ELSE 96
  <1> SUFFICES ASSUME NEW n \in 1..LongestName, NEW family \in {4, 6}
               PROVE Fits(n, family) <=> n % 4 = 0 \/ n <= IF family = 4 THEN 116 ELSE 96
    OBVIOUS
  <1> DEFINE name == write_username_attribute(n)
             address == AddressLen(family)
             padded == pad_to_4bytes(n)
  <1>1. n \in Nat /\ n > 0
    BY NameBounds
  <1>2. padded \in Nat /\ padded % 4 = 0 /\ n <= padded /\ padded < n + 4
    BY NameBounds, Padding
  <1>3. name.room = IF n % 4 = 0 THEN 0 ELSE padded
    BY UsernameRoom
  <1>4. address = IF family = 4 THEN 8 ELSE 20
    BY DEF AddressLen
  <1>5. message_length(n, family) = (4 + address) + 24 + (4 + name.room) + (4 + address)
    BY DEF message_length, Size, compute_xor_mapped_address, write_mapped_address_attribute,
           Attribute, STUN_MESSAGE_INTEGRITY_ATTRIBUTE_LEN
  <1>6. Size(name) = 4 + name.room
    BY DEF Size
  <1> HIDE DEF name, address, padded
  <1>7. name.room \in Nat
    BY <1>2, <1>3
  <1>8. Fits(n, family) <=> name.room <= IF family = 4 THEN 116 ELSE 96
    BY <1>4, <1>5, <1>6, <1>7 DEF Fits, BytesSent, UsernameBuffer, ResponseBuffer,
       STUN_HEADER_LEN, name
  <1>9. padded <= 116 <=> n <= 116
    BY <1>1, <1>2
  <1>10. padded <= 96 <=> n <= 96
    BY <1>1, <1>2
  <1>11. CASE n % 4 = 0
    <2>1. name.room = 0
      BY <1>3, <1>11
    <2> QED
      BY <1>8, <1>11, <2>1
  <1>12. CASE n % 4 # 0
    <2>1. name.room = padded
      BY <1>3, <1>12
    <2>2. CASE family = 4
      BY <1>8, <1>9, <1>12, <2>1, <2>2
    <2>3. CASE family = 6
      BY <1>8, <1>10, <1>12, <2>1, <2>3
    <2> QED
      BY <2>2, <2>3
  <1> QED
    BY <1>11, <1>12

------------------------------------------------------------------------------
\* The places of attributes.

LEMMA OffsetsAdd ==
  ASSUME NEW a, Len(a) \in Nat, \A i \in 1..Len(a) : Size(a[i]) \in Nat
  PROVE  /\ Offsets(a)[0] = 0
         /\ \A i \in 1..Len(a) : /\ Offsets(a)[i - 1] \in Nat
                                 /\ Offsets(a)[i] = Offsets(a)[i - 1] + Size(a[i])
<1> DEFINE n == Len(a)
           Is(f) == f = [i \in 0..n |-> IF i = 0 THEN 0 ELSE f[i - 1] + Size(a[i])]
           step == [i \in 1..n |-> [x \in Nat |-> x + Size(a[i])]]
<1>1. Steps(Nat, 0, n, step)
  BY DEF Steps
<1>2. PICK f : Follows(f, Nat, 0, n, step)
  BY ONLY <1>1, RecursiveFunction
<1>3. ASSUME NEW i \in 1..n
      PROVE  f[i - 1] \in Nat /\ f[i] = f[i - 1] + Size(a[i])
  <2>1. f[i - 1] \in Nat
    <3>1. f \in [0..n -> Nat]
      BY ONLY <1>2 DEF Follows
    <3>2. i - 1 \in 0..n
      BY ONLY n \in Nat, <1>3
    <3> QED
      BY ONLY <3>1, <3>2
  <2>2. step[i][f[i - 1]] = f[i - 1] + Size(a[i])
    BY <2>1
  <2> QED
    BY <1>2, <2>1, <2>2, Zenon DEF Follows
<1>4. f \in [0..n -> Nat] /\ f[0] = 0 /\ Is(f)
  BY <1>2, <1>3 DEF Follows
<1>5. Offsets(a) = CHOOSE g : Is(g)
  BY DEF Offsets
<1>6. Is(Offsets(a))
  <2> HIDE DEF Is
  <2> QED
    BY <1>4, <1>5
<1>7. \A i \in 0..n : Offsets(a)[i] = f[i]
  <2>1. \A i \in 1..n : Offsets(a)[i - 1] = f[i - 1] => Offsets(a)[i] = f[i]
    BY <1>3, <1>6
  <2>2. n \in Nat /\ Offsets(a)[0] = f[0]
    BY <1>4, <1>6
  <2> HIDE DEF n
  <2> QED
    BY ONLY <2>1, <2>2, SameSteps
<1>8. \A i \in 1..n : i - 1 \in 0..n /\ i \in 0..n
  OBVIOUS
<1> QED
  BY ONLY <1>3, <1>4, <1>7, <1>8, n \in Nat, 0 \in 0..n, Zenon

LEMMA ReaderMoves ==
  ASSUME NEW a, Len(a) \in Nat, \A i \in 1..Len(a) : pad_to_4bytes(a[i].length) \in Nat
  PROVE  /\ ReaderAt(a)[0] = 0
         /\ \A i \in 1..Len(a) :
              /\ ReaderAt(a)[i - 1] \in Nat
              /\ ReaderAt(a)[i] = IF ReaderAt(a)[i - 1] = Offsets(a)[i - 1]
                   THEN ReaderAt(a)[i - 1] + 4 + pad_to_4bytes(a[i].length)
                   ELSE ReaderAt(a)[i - 1]
<1> DEFINE n == Len(a)
           Move(i, x) == IF x = Offsets(a)[i - 1] THEN x + 4 + pad_to_4bytes(a[i].length) ELSE x
           Is(f) == f = [i \in 0..n |-> IF i = 0 THEN 0 ELSE Move(i, f[i - 1])]
           step == [i \in 1..n |-> [x \in Nat |-> Move(i, x)]]
<1>1. Steps(Nat, 0, n, step)
  BY DEF Steps
<1>2. PICK f : Follows(f, Nat, 0, n, step)
  BY ONLY <1>1, RecursiveFunction, Zenon
<1>0. ReaderAt(a) = CHOOSE g : Is(g)
  BY DEF ReaderAt
<1> HIDE DEF Move
<1>3. ASSUME NEW i \in 1..n
      PROVE  f[i - 1] \in Nat /\ f[i] = Move(i, f[i - 1])
  <2>1. f[i - 1] \in Nat
    <3>1. i - 1 \in 0..n
      OBVIOUS
    <3> QED
      BY ONLY <1>2, <3>1 DEF Follows
  <2>2. step[i][f[i - 1]] = Move(i, f[i - 1])
    BY <2>1
  <2> QED
    BY <1>2, <2>1, <2>2 DEF Follows
<1>4. f \in [0..n -> Nat] /\ f[0] = 0 /\ Is(f)
  BY <1>2, <1>3 DEF Follows
<1>6. Is(ReaderAt(a))
  <2> HIDE DEF Is
  <2> QED
    BY <1>4, <1>0
<1>7. \A i \in 0..n : ReaderAt(a)[i] = f[i]
  <2>1. \A i \in 1..n : ReaderAt(a)[i - 1] = f[i - 1] => ReaderAt(a)[i] = f[i]
    BY <1>3, <1>6
  <2>2. n \in Nat /\ ReaderAt(a)[0] = f[0]
    BY <1>4, <1>6
  <2> HIDE DEF n
  <2> QED
    BY ONLY <2>1, <2>2, SameSteps
<1>8. \A i \in 1..n : i - 1 \in 0..n /\ i \in 0..n
  OBVIOUS
<1>9. ReaderAt(a)[0] = 0 /\ \A i \in 1..n : ReaderAt(a)[i - 1] \in Nat
                                             /\ ReaderAt(a)[i] = Move(i, ReaderAt(a)[i - 1])
  BY ONLY <1>3, <1>4, <1>7, <1>8, n \in Nat, 0 \in 0..n, Zenon
<1> QED
  BY ONLY <1>9 DEF Move

------------------------------------------------------------------------------
\* What the server reads from a message of an agent.

LEMMA SixAttributes ==
  ASSUME NEW a, Len(a) = 6, \A i \in 1..6 : Size(a[i]) \in Nat
  PROVE  SizeOf(a) = Size(a[1]) + Size(a[2]) + Size(a[3]) + Size(a[4]) + Size(a[5]) + Size(a[6])
<1>1. /\ Offsets(a)[0] = 0
      /\ \A i \in 1..6 : /\ Offsets(a)[i - 1] \in Nat
                         /\ Offsets(a)[i] = Offsets(a)[i - 1] + Size(a[i])
  <2>1. Len(a) \in Nat /\ \A i \in 1..Len(a) : Size(a[i]) \in Nat
    OBVIOUS
  <2>2. /\ Offsets(a)[0] = 0
        /\ \A i \in 1..Len(a) : /\ Offsets(a)[i - 1] \in Nat
                                /\ Offsets(a)[i] = Offsets(a)[i - 1] + Size(a[i])
    BY ONLY <2>1, OffsetsAdd
  <2> QED
    BY <2>2
<1>2. /\ Offsets(a)[1] = Offsets(a)[0] + Size(a[1])
      /\ Offsets(a)[2] = Offsets(a)[1] + Size(a[2])
      /\ Offsets(a)[3] = Offsets(a)[2] + Size(a[3])
      /\ Offsets(a)[4] = Offsets(a)[3] + Size(a[4])
      /\ Offsets(a)[5] = Offsets(a)[4] + Size(a[5])
      /\ Offsets(a)[6] = Offsets(a)[5] + Size(a[6])
  BY <1>1
<1>3. \A i \in 1..6 : Offsets(a)[i - 1] \in Nat
  BY <1>1
<1> QED
  BY <1>1, <1>2, <1>3 DEF SizeOf

LEMMA FiveAttributes ==
  ASSUME NEW a, Len(a) = 5, \A i \in 1..5 : Size(a[i]) \in Nat
  PROVE  SizeOf(a) = Size(a[1]) + Size(a[2]) + Size(a[3]) + Size(a[4]) + Size(a[5])
<1>1. /\ Offsets(a)[0] = 0
      /\ \A i \in 1..5 : /\ Offsets(a)[i - 1] \in Nat
                         /\ Offsets(a)[i] = Offsets(a)[i - 1] + Size(a[i])
  <2>1. Len(a) \in Nat /\ \A i \in 1..Len(a) : Size(a[i]) \in Nat
    OBVIOUS
  <2>2. /\ Offsets(a)[0] = 0
        /\ \A i \in 1..Len(a) : /\ Offsets(a)[i - 1] \in Nat
                                /\ Offsets(a)[i] = Offsets(a)[i - 1] + Size(a[i])
    BY ONLY <2>1, OffsetsAdd
  <2> QED
    BY <2>2
<1>2. /\ Offsets(a)[1] = Offsets(a)[0] + Size(a[1])
      /\ Offsets(a)[2] = Offsets(a)[1] + Size(a[2])
      /\ Offsets(a)[3] = Offsets(a)[2] + Size(a[3])
      /\ Offsets(a)[4] = Offsets(a)[3] + Size(a[4])
      /\ Offsets(a)[5] = Offsets(a)[4] + Size(a[5])
  BY <1>1
<1>3. \A i \in 1..5 : Offsets(a)[i - 1] \in Nat
  BY <1>1
<1> QED
  BY <1>1, <1>2, <1>3 DEF SizeOf

\* The attributes of a request: the third but last of a nomination is UseCandidate.
LEMMA RequestShape ==
  ASSUME NEW agent, NEW length, NEW nominates \in BOOLEAN
  PROVE  LET a == RequestAttributes(agent, length, nominates) IN
         /\ Len(a) = IF nominates THEN 6 ELSE 5
         /\ DOMAIN a = 1..Len(a)
         /\ a[1] = UsernameAttribute(agent, length)
         /\ a[2] = Plain("IceControlling", 8)
         /\ a[3] = Plain("Priority", 4)
         /\ nominates => /\ a[4] = Plain("UseCandidate", 0)
                         /\ a[5] = Plain("MessageIntegrity", 20)
                         /\ a[6] = Plain("Fingerprint", 4)
         /\ ~ nominates => /\ a[4] = Plain("MessageIntegrity", 20)
                           /\ a[5] = Plain("Fingerprint", 4)
<1> HIDE DEF Plain, UsernameAttribute
<1>1. CASE nominates
  BY <1>1 DEF RequestAttributes, STUN_MESSAGE_INTEGRITY_LEN
<1>2. CASE ~ nominates
  BY <1>2 DEF RequestAttributes, STUN_MESSAGE_INTEGRITY_LEN
<1> QED
  BY <1>1, <1>2

LEMMA RequestSize ==
  ASSUME NEW agent, NEW length \in NameLengths, NEW nominates \in BOOLEAN
  PROVE  LET size == SizeOf(RequestAttributes(agent, length, nominates)) IN
         size \in Nat /\ size % 4 = 0
<1> DEFINE a == RequestAttributes(agent, length, nominates)
           room == pad_to_4bytes(Username(length))
<1>1. Username(length) \in 0..LongestName
  <2>1. length \in Nat /\ Username(length) <= LongestName
    BY IceAssumption DEF LongestName, ReceiveBuffer, WordSize, Username, HostNameLen
  <2> QED
    BY <2>1, Bounds DEF Username, HostNameLen
<1>2. room \in Nat /\ room % 4 = 0
  BY <1>1, Padding
<1>shape. /\ Len(a) = IF nominates THEN 6 ELSE 5
          /\ a[1] = UsernameAttribute(agent, length)
          /\ a[2] = Plain("IceControlling", 8)
          /\ a[3] = Plain("Priority", 4)
          /\ nominates => /\ a[4] = Plain("UseCandidate", 0)
                          /\ a[5] = Plain("MessageIntegrity", 20)
                          /\ a[6] = Plain("Fingerprint", 4)
          /\ ~ nominates => /\ a[4] = Plain("MessageIntegrity", 20)
                            /\ a[5] = Plain("Fingerprint", 4)
  BY RequestShape
<1>sizes. /\ \A type : \A room_ \in Nat : Size(Plain(type, room_)) = 4 + room_
          /\ Size(UsernameAttribute(agent, length)) = 4 + room
  BY DEF Size, Plain, UsernameAttribute
<1> HIDE DEF a, room
<1>3. /\ Size(a[1]) = 4 + room
      /\ Size(a[2]) = 12
      /\ Size(a[3]) = 8
  BY <1>shape, <1>sizes
<1>4. CASE nominates
  <2>1. Size(a[4]) = 4 /\ Size(a[5]) = 24 /\ Size(a[6]) = 8 /\ Len(a) = 6
    BY <1>4, <1>shape, <1>sizes
  <2>2. \A i \in 1..6 : Size(a[i]) \in Nat
    BY <1>2, <1>3, <2>1
  <2>3. SizeOf(a) = 4 + room + 12 + 8 + 4 + 24 + 8
    BY <1>3, <2>1, <2>2, SixAttributes
  <2> QED
    BY <1>2, <2>3 DEF a
<1>5. CASE ~ nominates
  <2>1. Size(a[4]) = 24 /\ Size(a[5]) = 8 /\ Len(a) = 5
    BY <1>5, <1>shape, <1>sizes
  <2>2. \A i \in 1..5 : Size(a[i]) \in Nat
    BY <1>2, <1>3, <2>1
  <2>3. SizeOf(a) = 4 + room + 12 + 8 + 24 + 8
    BY <1>3, <2>1, <2>2, FiveAttributes
  <2> QED
    BY <1>2, <2>3 DEF a
<1> QED
  BY <1>4, <1>5

\* Every message of an agent is understood: as a check or a nomination, as the
\* agent meant it, for the agent's own session.
LEMMA RequestUnderstood ==
  ASSUME NEW check \in Check, NEW length \in NameLengths
  PROVE  LET packet == Requests[check][length] IN
         /\ IsStunRequest(packet) /\ IsReadable(packet)
         /\ IsIceMessage(parse_stun_packet(packet))
         /\ get_stun_packet(packet).nominates = check.nominates
         /\ SessionOf(get_stun_packet(packet).username) = check.agent
         /\ packet.source = check.source
         /\ packet.transaction_id = TransactionId(check)
<1> DEFINE packet == Requests[check][length]
           a == RequestAttributes(check.agent, length, check.nominates)
           parsed == parse_stun_packet(packet)
<1>1. check.agent \in Agent /\ check.nominates \in BOOLEAN
  BY DEF Check
<1>2. /\ packet.type = BindingRequest
      /\ packet.cookie = STUN_COOKIE
      /\ packet.length = SizeOf(a)
      /\ packet.size = STUN_HEADER_LEN + SizeOf(a)
      /\ packet.attributes = a
      /\ packet.transaction_id = TransactionId(check)
      /\ packet.source = check.source
  BY DEF Requests
<1>3. SizeOf(a) \in Nat /\ SizeOf(a) % 4 = 0
  BY <1>1, RequestSize
<1>4. IsStunRequest(packet)
  <2> HIDE DEF packet, a
  <2> QED
    BY <1>2, <1>3 DEF IsStunRequest, STUN_HEADER_LEN
<1>5. /\ DOMAIN parsed = DOMAIN a
      /\ \A i \in DOMAIN a : parsed[i] = parse_attribute(a[i])
  BY <1>2 DEF parse_stun_packet
<1>6. /\ DOMAIN a = IF check.nominates THEN 1..6 ELSE 1..5
      /\ parsed[1] = parse_attribute(UsernameAttribute(check.agent, length))
      /\ parsed[2].type = "IceControlling"
      /\ parsed[3].type = "Unknown"
      /\ check.nominates => /\ parsed[4].type = "UseCandidate"
                            /\ parsed[5].type = "MessageIntegrity"
                            /\ parsed[6].type = "Unknown"
      /\ ~ check.nominates => parsed[4].type = "MessageIntegrity" /\ parsed[5].type = "Unknown"
  <2> HIDE DEF packet, parsed
  <2>1. /\ Len(a) = IF check.nominates THEN 6 ELSE 5
        /\ DOMAIN a = 1..Len(a)
        /\ a[1] = UsernameAttribute(check.agent, length)
        /\ a[2] = Plain("IceControlling", 8)
        /\ a[3] = Plain("Priority", 4)
        /\ check.nominates => /\ a[4] = Plain("UseCandidate", 0)
                              /\ a[5] = Plain("MessageIntegrity", 20)
                              /\ a[6] = Plain("Fingerprint", 4)
        /\ ~ check.nominates => /\ a[4] = Plain("MessageIntegrity", 20)
                                /\ a[5] = Plain("Fingerprint", 4)
    BY <1>1, RequestShape, Zenon
  <2>2. \A type, room : parse_attribute(Plain(type, room)).type =
          IF type \in {"Username", "MessageIntegrity", "IceControlling", "UseCandidate"}
            THEN type ELSE "Unknown"
    BY DEF parse_attribute, Plain
  <2> HIDE DEF a
  <2>3. \A i \in 1..5 : i \in DOMAIN a
    BY <1>1, <2>1
  <2>4. CASE check.nominates
    <3>1. DOMAIN a = 1..6
      BY <2>1, <2>4
    <3> QED
      BY <1>5, <2>1, <2>2, <2>4, <3>1
  <2>5. CASE ~ check.nominates
    <3>1. DOMAIN a = 1..5
      BY <2>1, <2>5
    <3> QED
      BY <1>5, <2>1, <2>2, <2>5, <3>1
  <2> QED
    BY <1>1, <2>4, <2>5
<1>7. /\ parsed[1].type = "Username"
      /\ parsed[1].host = Name(check.agent, 0)
      /\ parsed[1].remote = Name(check.agent, 0)
  BY <1>6 DEF parse_attribute, UsernameAttribute, Name
<1>readable. IsReadable(packet)
  <2>1. \A i \in DOMAIN a :
          /\ a[i].type = "Username" => a[i].host # None
          /\ a[i].type = "MessageIntegrity" => a[i].room >= STUN_MESSAGE_INTEGRITY_LEN
    <3>1. /\ DOMAIN a = 1..Len(a)
          /\ Len(a) = IF check.nominates THEN 6 ELSE 5
          /\ a[1] = UsernameAttribute(check.agent, length)
          /\ a[2] = Plain("IceControlling", 8)
          /\ a[3] = Plain("Priority", 4)
          /\ check.nominates => /\ a[4] = Plain("UseCandidate", 0)
                                /\ a[5] = Plain("MessageIntegrity", 20)
                                /\ a[6] = Plain("Fingerprint", 4)
          /\ ~ check.nominates => /\ a[4] = Plain("MessageIntegrity", 20)
                                  /\ a[5] = Plain("Fingerprint", 4)
      BY <1>1, RequestShape, ZenonT(30)
    <3>2. /\ UsernameAttribute(check.agent, length).type = "Username"
          /\ UsernameAttribute(check.agent, length).host = Name(check.agent, 0)
      BY DEF UsernameAttribute
    <3>3. Name(check.agent, 0) # None
      BY <1>1, IceAssumption
    <3>4. \A type, room : Plain(type, room).type = type /\ Plain(type, room).room = room
      BY DEF Plain
    <3> HIDE DEF a, packet, parsed
    <3>5. /\ \A i \in 1..Len(a) : i = 1 \/ a[i].type # "Username"
          /\ \A i \in 1..Len(a) : a[i].type = "MessageIntegrity" => a[i].room = 20
      BY <1>1, <3>1, <3>2, <3>4
    <3> QED
      BY <3>1, <3>2, <3>3, <3>5 DEF STUN_MESSAGE_INTEGRITY_LEN
  <2> HIDE DEF a, packet, parsed
  <2>2. STUN_HEADER_LEN + SizeOf(packet.attributes) <= packet.size
    BY <1>2, <1>3 DEF STUN_HEADER_LEN
  <2> QED
    BY <1>2, <2>1, <2>2 DEF IsReadable
<1> HIDE DEF parsed, a, packet
<1>8. IsIceMessage(parsed) /\ (Has(parsed, "UseCandidate") <=> check.nominates)
  BY <1>1, <1>5, <1>6, <1>7 DEF IsIceMessage, Has
<1>9. Find(parsed, "Username") = parsed[1]
  <2>1. 1 \in DOMAIN parsed /\ DOMAIN parsed \subseteq 1..6
    BY <1>1, <1>5, <1>6
  <2>2. \A i \in DOMAIN parsed :
          (parsed[i].type = "Username" /\ \A j \in 1..(i - 1) : parsed[j].type # "Username") <=> i = 1
    BY <2>1, <1>7
  <2> QED
    BY <2>1, <2>2 DEF Find
<1>10. SessionOf(parsed[1]) = check.agent
  BY <1>1, <1>7 DEF SessionOf, Name
<1>11. IsIceMessage(parse_stun_packet(packet))
  BY <1>8 DEF parsed
<1>12. /\ get_stun_packet(packet).nominates = check.nominates
       /\ get_stun_packet(packet).username = parsed[1]
  BY <1>1, <1>8, <1>9, Zenon DEF get_stun_packet, parse_binding_request, parsed, Has
<1> QED
  BY <1>2, <1>4, <1>10, <1>readable, <1>11, <1>12 DEF packet

\* A message with a user name that is not an agent's is for no session.
LEMMA ForeignUnknown ==
  ASSUME NEW packet, Foreign(packet.attributes), IsReadable(packet),
         IsIceMessage(parse_stun_packet(packet))
  PROVE  SessionOf(get_stun_packet(packet).username) = None
<1> DEFINE a == packet.attributes
           parsed == parse_stun_packet(packet)
           First(i) == /\ i \in DOMAIN parsed
                       /\ parsed[i].type = "Username"
                       /\ \A j \in 1..(i - 1) : parsed[j].type # "Username"
<1>1. Len(a) \in Nat /\ DOMAIN parsed = 1..Len(a) /\ DOMAIN a = 1..Len(a)
  BY DEF Foreign, parse_stun_packet
<1>2. \A i \in DOMAIN a : parsed[i] = parse_attribute(a[i])
  BY DEF parse_stun_packet
<1>3. \E i \in DOMAIN parsed : parsed[i].type = "Username"
  BY DEF IsIceMessage, Has
<1> HIDE DEF parsed
<1>4. \E i : First(i)
  <2> DEFINE R == {i \in DOMAIN parsed : parsed[i].type = "Username"}
  <2>1. R \subseteq Nat /\ R # {}
    BY <1>1, <1>3
  <2>2. PICK i \in R : \A j \in R : i <= j
    <3> HIDE DEF R
    <3> QED
      BY ONLY <2>1, LeastNat
  <2>3. \A j \in 1..(i - 1) : j \in DOMAIN parsed /\ ~ (i <= j)
    BY <1>1, <2>2
  <2> QED
    BY <2>2, <2>3
<1>5. PICK i : First(i) /\ Find(parsed, "Username") = parsed[i]
  <2>1. Find(parsed, "Username") = parsed[CHOOSE i : First(i)]
    BY DEF Find
  <2> HIDE DEF First
  <2> QED
    BY <1>4, <2>1
<1> DEFINE x == a[i]
<1>6. x.type = "Username" /\ i \in DOMAIN a /\ parsed[i] = parse_attribute(x)
  <2>1. i \in DOMAIN a /\ parsed[i] = parse_attribute(x) /\ parsed[i].type = "Username"
    BY <1>1, <1>2, <1>5
  <2> HIDE DEF x
  <2>2. CASE x.type \in {"MessageIntegrity", "IceControlling", "UseCandidate"}
    <3>1. parse_attribute(x) = [type |-> x.type]
      BY <2>2 DEF parse_attribute
    <3> QED
      BY <2>1, <2>2, <3>1
  <2>3. CASE x.type \notin {"Username", "MessageIntegrity", "IceControlling", "UseCandidate"}
    <3>1. parse_attribute(x) = [type |-> "Unknown"]
      BY <2>3 DEF parse_attribute
    <3> QED
      BY <2>1, <3>1
  <2> QED
    BY <2>1, <2>2, <2>3
<1>7. parsed[i].host = Name(x.host.owner, 0)
  <2> HIDE DEF x
  <2>1. parse_attribute(x) = [type |-> "Username", host |-> Name(x.host.owner, 0),
                              remote |-> Name(x.remote.owner, 0)]
    BY <1>6 DEF parse_attribute
  <2> QED
    BY <1>6, <2>1
<1>8. parsed[i].host.owner \notin Agent
  <2>1. x.host # None
    BY <1>6 DEF IsReadable
  <2> QED
    BY <1>6, <1>7, <2>1 DEF Foreign, Name
<1>9. SessionOf(parsed[i]) = None
  BY <1>8 DEF SessionOf, Name
<1> QED
  BY <1>5, <1>9 DEF get_stun_packet, parse_binding_request, parsed

------------------------------------------------------------------------------
\* Exclusive or, twice with the same mask, is the identity.

LEMMA HalfXor ==
  ASSUME NEW x \in 0..15, NEW y \in 0..15
  PROVE  XorTable[x][y] \in 0..15 /\ XorTable[XorTable[x][y]][y] = x
<1> DEFINE b(k) == (x \div k + y \div k) % 2
           z == b(1) + 2 * b(2) + 4 * b(4) + 8 * b(8)
<1>1. XorTable[x][y] = z
  BY DEF XorTable
<1>2. b(1) \in 0..1 /\ b(2) \in 0..1 /\ b(4) \in 0..1 /\ b(8) \in 0..1
  OBVIOUS
<1>3. z \in 0..15
  BY <1>2
<1>4. /\ (z \div 1 + y \div 1) % 2 = x % 2
      /\ (z \div 2 + y \div 2) % 2 = (x \div 2) % 2
      /\ (z \div 4 + y \div 4) % 2 = (x \div 4) % 2
      /\ (z \div 8 + y \div 8) % 2 = (x \div 8) % 2
  OBVIOUS
<1>5. x = (x % 2) + 2 * ((x \div 2) % 2) + 4 * ((x \div 4) % 2) + 8 * ((x \div 8) % 2)
  OBVIOUS
<1>6. XorTable[z][y] = ((z \div 1 + y \div 1) % 2) + 2 * ((z \div 2 + y \div 2) % 2)
                         + 4 * ((z \div 4 + y \div 4) % 2) + 8 * ((z \div 8 + y \div 8) % 2)
  <2> HIDE DEF z
  <2> QED
    BY <1>3 DEF XorTable
<1> HIDE DEF z
<1> QED
  BY <1>1, <1>3, <1>4, <1>5, <1>6

LEMMA XorTwice ==
  ASSUME NEW x \in Byte, NEW y \in Byte
  PROVE  ByteXor(x, y) \in Byte /\ ByteXor(ByteXor(x, y), y) = x
<1> DEFINE high == XorTable[x \div 16][y \div 16]
           low == XorTable[x % 16][y % 16]
<1>1. /\ x \div 16 \in 0..15 /\ y \div 16 \in 0..15
      /\ x % 16 \in 0..15 /\ y % 16 \in 0..15
      /\ x = 16 * (x \div 16) + (x % 16)
  <2>1. x \in Nat /\ x <= 255 /\ y \in Nat /\ y <= 255
    BY DEF Byte
  <2>2. \A k \in Nat : k <= 255 => k \div 16 \in 0..15 /\ k % 16 \in 0..15
    OBVIOUS
  <2>3. x = 16 * (x \div 16) + (x % 16)
    BY <2>1
  <2> QED
    BY <2>1, <2>2, <2>3
<1>2. /\ high \in 0..15 /\ XorTable[high][y \div 16] = x \div 16
      /\ low \in 0..15 /\ XorTable[low][y % 16] = x % 16
  BY <1>1, HalfXor, Zenon
<1>3. ByteXor(x, y) = 16 * high + low
  BY DEF ByteXor
<1> HIDE DEF high, low
<1>4. /\ 16 * high + low \in 0..255
      /\ (16 * high + low) \div 16 = high
      /\ (16 * high + low) % 16 = low
  BY <1>2
<1>5. ByteXor(16 * high + low, y) = 16 * (x \div 16) + (x % 16)
  <2> DEFINE z == 16 * high + low
  <2>1. ByteXor(z, y) = 16 * XorTable[z \div 16][y \div 16] + XorTable[z % 16][y % 16]
    BY DEF ByteXor
  <2>2. z \div 16 = high /\ z % 16 = low
    BY <1>4
  <2> HIDE DEF z
  <2>3. ByteXor(z, y) = 16 * (x \div 16) + (x % 16)
    BY <1>2, <2>1, <2>2
  <2> QED
    BY <2>3 DEF z
<1> QED
  BY <1>1, <1>3, <1>4, <1>5 DEF Byte

\* The mask that same and xor both give for target's bytes.
Undoes(target, xor, same) ==
  /\ target = [i \in DOMAIN target |-> target[i]]
  /\ \A i \in DOMAIN target : target[i] \in Byte /\ xor[i] \in Byte /\ same[i] = xor[i]

LEMMA RangeXorTwice ==
  ASSUME NEW target, NEW xor, NEW same, Undoes(target, xor, same)
  PROVE  xor_range(xor_range(target, xor), same) = target
<1> DEFINE masked == xor_range(target, xor)
<1>1. /\ DOMAIN masked = DOMAIN target
      /\ \A i \in DOMAIN target : masked[i] = ByteXor(target[i], xor[i])
  BY DEF xor_range
<1> HIDE DEF masked
<1>2. ASSUME NEW i \in DOMAIN target
      PROVE  ByteXor(masked[i], same[i]) = target[i]
  <2>1. target[i] \in Byte /\ xor[i] \in Byte /\ xor[i] = same[i]
    BY DEF Undoes
  <2> QED
    BY <1>1, <2>1, XorTwice
<1>3. xor_range(masked, same) = [i \in DOMAIN target |-> target[i]]
  BY <1>1, <1>2 DEF xor_range
<1> QED
  BY <1>3 DEF masked, Undoes

LEMMA FunctionIsSequence ==
  ASSUME NEW S, NEW n \in Nat, NEW f \in [1..n -> S]
  PROVE  f \in Seq(S) /\ Len(f) = n
  OBVIOUS

\* The server's mask is the one that an agent undoes: of the port two bytes of
\* the cookie, of an IPv4 address the cookie, and of an IPv6 address the cookie
\* and the transaction id.
LEMMA UnmaskedMasked ==
  ASSUME NEW check \in Check, NEW address \in Address
  PROVE  Unmasked(check, Masked(address, TransactionId(check))) = address
<1> DEFINE tid == TransactionId(check)
           cookie == STUN_COOKIE
           long == cookie \o tid
<1>1. tid \in [1..12 -> Byte]
  BY IceAssumption
<1> HIDE DEF tid
<1>2. cookie \in [1..4 -> Byte] /\ cookie \in Seq(Byte) /\ Len(cookie) = 4
  BY DEF STUN_COOKIE, Byte
<1> HIDE DEF cookie
<1>3. \A i \in 1..2 : SubSeq(cookie, 1, 2)[i] = cookie[i]
  BY <1>2
<1>4. /\ \A i \in 1..16 : long[i] \in Byte
      /\ \A i \in 1..4 : long[i] = cookie[i]
  <2>1. tid \in Seq(Byte) /\ Len(tid) = 12
    <3> DEFINE n == 12
    <3>1. tid \in [1..n -> Byte] /\ n \in Nat
      BY <1>1
    <3> HIDE DEF n
    <3>2. tid \in Seq(Byte) /\ Len(tid) = n
      BY ONLY <3>1, FunctionIsSequence
    <3> QED
      BY <3>2 DEF n
  <2>2. /\ long \in Seq(Byte)
        /\ Len(long) = Len(cookie) + Len(tid)
        /\ \A i \in 1..(Len(cookie) + Len(tid)) :
             long[i] = IF i <= Len(cookie) THEN cookie[i] ELSE tid[i - Len(cookie)]
    BY ONLY <1>2, <2>1, ConcatProperties, Zenon
  <2>3. Len(long) = 16 /\ \A i \in 1..4 : long[i] = cookie[i]
    <3> HIDE DEF long
    <3> QED
      BY <1>2, <2>1, <2>2
  <2>4. \A i \in 1..16 : long[i] \in Byte
    <3> HIDE DEF long
    <3> QED
      BY <2>2, <2>3, ElementOfSeq, Zenon
  <2> QED
    BY <2>3, <2>4, Zenon
<1> HIDE DEF long
<1>5. xor_range(xor_range(address.port, SubSeq(cookie, 1, 2)), cookie) = address.port
  <2>1. address.port \in [1..2 -> Byte]
    BY DEF Address
  <2>2. Undoes(address.port, SubSeq(cookie, 1, 2), cookie)
    BY <1>2, <1>3, <2>1 DEF Undoes
  <2> QED
    BY <2>2, RangeXorTwice
<1>6. xor_range(xor_range(address.octets, Mask(address.family, tid)), long) = address.octets
  <2>1. CASE address.family = 4
    <3>1. address.octets \in [1..4 -> Byte]
      BY <2>1 DEF Address
    <3>2. Mask(address.family, tid) = cookie
      BY <2>1 DEF Mask, cookie
    <3>3. Undoes(address.octets, cookie, long)
      BY <1>2, <1>4, <3>1 DEF Undoes
    <3> QED
      BY <3>2, <3>3, RangeXorTwice
  <2>2. CASE address.family # 4
    <3>1. address.octets \in [1..16 -> Byte]
      BY <2>2 DEF Address
    <3>2. Mask(address.family, tid) = long
      BY <2>2 DEF Mask, cookie, long
    <3>3. Undoes(address.octets, long, long)
      BY <1>4, <3>1 DEF Undoes
    <3> QED
      BY <3>2, <3>3, RangeXorTwice
  <2> QED
    BY <2>1, <2>2
<1>7. address = [family |-> address.family, port |-> address.port, octets |-> address.octets]
  BY DEF Address
<1> QED
  BY <1>5, <1>6, <1>7 DEF Unmasked, Masked, tid, cookie, long

------------------------------------------------------------------------------
\* What an agent reads from a response.

\* The header states the length of the attributes, and a reader comes to the
\* masked address and to the integrity just when the user name needs padding.
LEMMA ResponseRead ==
  ASSUME NEW n \in 1..LongestName, NEW family \in {4, 6}
  PROVE  LET a == ResponseAttributes(n, family) IN
         /\ SizeOf(a) = HeaderLength(n, family)
         /\ {"XORMappedAddress", "MessageIntegrity"} \subseteq Reached(a) <=> n % 4 # 0
<1> DEFINE a == ResponseAttributes(n, family)
           O == Offsets(a)
           R == ReaderAt(a)
<1>1. Len(a) = 5 /\ DOMAIN a = 1..5
  BY DEF ResponseAttributes
<1>2. /\ a[1] = write_username_attribute(n)
      /\ a[2].type = "XORMappedAddress" /\ a[4].type = "MessageIntegrity"
      /\ \A i \in {1, 3, 4, 5} : a[i].type # "XORMappedAddress"
  BY DEF ResponseAttributes, write_username_attribute, compute_xor_mapped_address,
         write_mapped_address_attribute, Attribute
<1>3. /\ a[1].length = n /\ a[1].room = IF n % 4 = 0 THEN 0 ELSE pad_to_4bytes(n)
      /\ pad_to_4bytes(n) \in Nat /\ n <= pad_to_4bytes(n) /\ n \in Nat /\ n > 0
  BY <1>2, UsernameRoom, NameBounds, Padding
<1>4. \A i \in 2..5 : a[i].room \in Nat /\ pad_to_4bytes(a[i].length) = a[i].room
  <2>1. \A i \in 2..5 : a[i].room \in Nat
    BY DEF ResponseAttributes, write_username_attribute, compute_xor_mapped_address,
           write_mapped_address_attribute, Attribute, AddressLen,
           STUN_MESSAGE_INTEGRITY_LEN, FingerprintLen
  <2>2. \A i \in 2..5 : InStep(a[i])
    BY ReadersKeepStep
  <2> QED
    BY <2>1, <2>2 DEF InStep
<1>5. HeaderLength(n, family)
        = Size(a[1]) + Size(a[2]) + Size(a[3]) + Size(a[4]) + Size(a[5])
  BY LengthsAgree
<1> HIDE DEF a
<1>6. \A i \in 1..5 : Size(a[i]) \in Nat /\ Size(a[i]) = 4 + a[i].room
  <2>1. \A i \in 1..5 : a[i].room \in Nat
    BY <1>3, <1>4
  <2> QED
    BY <2>1 DEF Size
<1>7. SizeOf(a) = HeaderLength(n, family)
  BY <1>1, <1>5, <1>6, FiveAttributes
<1>8. /\ O[0] = 0
      /\ \A i \in 1..5 : O[i - 1] \in Nat /\ O[i] = O[i - 1] + Size(a[i])
  <2>1. Len(a) \in Nat /\ \A i \in 1..Len(a) : Size(a[i]) \in Nat
    BY <1>1, <1>6
  <2>2. /\ O[0] = 0
        /\ \A i \in 1..Len(a) : O[i - 1] \in Nat /\ O[i] = O[i - 1] + Size(a[i])
    BY ONLY <2>1, OffsetsAdd
  <2> QED
    BY <1>1, <2>2
<1>9. /\ R[0] = 0
      /\ \A i \in 1..5 :
           R[i] = IF R[i - 1] = O[i - 1]
                    THEN R[i - 1] + 4 + pad_to_4bytes(a[i].length) ELSE R[i - 1]
  <2>1. Len(a) \in Nat /\ \A i \in 1..Len(a) : pad_to_4bytes(a[i].length) \in Nat
    BY <1>1, <1>3, <1>4
  <2>2. /\ R[0] = 0
        /\ \A i \in 1..Len(a) :
             R[i] = IF R[i - 1] = O[i - 1]
                      THEN R[i - 1] + 4 + pad_to_4bytes(a[i].length) ELSE R[i - 1]
    BY ONLY <2>1, ReaderMoves
  <2> QED
    BY <1>1, <2>2
<1>10. Reached(a) = {a[i].type : i \in {j \in 1..5 : R[j - 1] = O[j - 1]}}
  BY <1>1 DEF Reached
<1> HIDE DEF O, R
<1>11. CASE n % 4 # 0
  <2>1. \A i \in 1..5 : /\ pad_to_4bytes(a[i].length) = a[i].room
                        /\ R[i - 1] = O[i - 1] => R[i] = O[i]
    BY <1>3, <1>4, <1>6, <1>8, <1>9, <1>11
  <2>2. R[1] = O[1] /\ R[2] = O[2] /\ R[3] = O[3]
    BY <1>8, <1>9, <2>1
  <2>3. /\ 2 \in {j \in 1..5 : R[j - 1] = O[j - 1]}
        /\ 4 \in {j \in 1..5 : R[j - 1] = O[j - 1]}
    BY <2>2
  <2>4. a[2].type \in Reached(a) /\ a[4].type \in Reached(a)
    BY <1>10, <2>3
  <2> QED
    BY <1>2, <1>7, <1>11, <2>4 DEF a
<1>12. CASE n % 4 = 0
  <2>1. O[1] = 4 /\ R[1] = 4 + pad_to_4bytes(n)
    BY <1>3, <1>6, <1>8, <1>9, <1>12
  <2>2. R[1] # O[1]
    BY <1>3, <2>1
  <2>3. ASSUME NEW i \in 1..5, R[i - 1] = O[i - 1]
        PROVE  a[i].type # "XORMappedAddress"
    <3>1. i # 2
      BY <2>2, <2>3
    <3> QED
      BY <1>2, <3>1
  <2>4. "XORMappedAddress" \notin Reached(a)
    BY <1>10, <2>3
  <2> QED
    BY <1>7, <1>12, <2>4 DEF a
<1> QED
  BY <1>11, <1>12

\* The same for the user names of agents.
LEMMA ResponseUsable ==
  ASSUME NEW length \in NameLengths, NEW family \in {4, 6}
  PROVE  /\ Username(length) \in 1..LongestName
         /\ SizeOf(ResponseAttributes(Username(length), family))
              = HeaderLength(Username(length), family)
         /\ UsableTable[length][family] <=> Username(length) % 4 # 0
<1>1. Username(length) \in 1..LongestName
  <2>1. length \in Nat /\ Username(length) <= LongestName
    BY IceAssumption DEF LongestName, ReceiveBuffer, WordSize, Username, HostNameLen
  <2> QED
    BY <2>1, Bounds DEF Username, HostNameLen
<1>2. UsableTable[length][family] <=>
        {"XORMappedAddress", "MessageIntegrity"}
          \subseteq Reached(ResponseAttributes(Username(length), family))
  BY Zenon DEF UsableTable
<1> QED
  BY <1>1, <1>2, ResponseRead

------------------------------------------------------------------------------
\* The connectivity checks.

\* What ends the main thread.
Ended ==
  fatal # None =>
    \/ fatal \in OtherTraffic /\ IsStunRequest(fatal) /\ ~ IsReadable(fatal)
    \/ \E check \in Check :
         /\ fatal = Request(check)
         /\ ~ Fits(UsernameLength(check.agent), check.source.family)

\* A nomination that is on its way, or answered, is of the address that its agent
\* chose.  Every response answers a message of its agent, and the one to a
\* nomination was sent with the client elected.
IceInv ==
  /\ remote_length \in [Agent -> NameLengths]
  /\ client \in [Agent -> Address \cup {None}]
  /\ chosen \in [Agent -> Address \cup {None}]
  /\ selected \in [Agent -> BOOLEAN]
  /\ learned \in [Agent -> SUBSET [source : Address, mapped : Address]]
  /\ other \in OtherTraffic \cup {None}
  /\ \A packet \in inbound :
       \/ packet \in OtherTraffic
       \/ \E check \in Check : /\ packet = Request(check)
                               /\ check.nominates => chosen[check.agent] = check.source
  /\ \A response \in outbound : \E check \in Check :
       /\ response = create_stun_success(check.agent, TransactionId(check), check.source)
       /\ check.nominates => client[check.agent] = check.source
  /\ \A agent \in Agent : client[agent] # None => client[agent] = chosen[agent]
  /\ \A agent \in Agent : selected[agent] => client[agent] # None
  /\ AddressLearned
  /\ Ended

LEMMA CheckTypes ==
  ASSUME NEW check \in Check
  PROVE  /\ check.agent \in Agent /\ check.agent # None
         /\ check.source \in Address /\ check.source # None
         /\ check.source.family \in {4, 6}
         /\ check.nominates \in BOOLEAN
<1>1. PICK agent \in Agent :
        check \in {[agent |-> agent, source |-> source, nominates |-> nominates] :
                     source \in Addresses[agent], nominates \in BOOLEAN}
  BY DEF Check
<1>2. check.agent = agent /\ check.source \in Addresses[agent] /\ check.nominates \in BOOLEAN
  BY <1>1
<1>3. check.source \in Address /\ check.source # None /\ agent # None
  BY <1>2, IceAssumption
<1> QED
  BY <1>2, <1>3 DEF Address

LEMMA EndedKept ==
  ASSUME Ended, UNCHANGED <<remote_length, fatal>>
  PROVE  Ended'
<1>1. \A c : Request(c)' = Request(c) /\ UsernameLength(c.agent)' = UsernameLength(c.agent)
  BY DEF Request, UsernameLength
<1> QED
  BY <1>1 DEF Ended

LEMMA SendCheckKeeps ==
  ASSUME IceInv, NEW check \in Check, SendCheck(check)
  PROVE  IceInv'
<1> USE CheckTypes
<1>0. /\ UNCHANGED <<remote_length, outbound, client, fatal, learned, selected>>
      /\ other' = None
      /\ inbound' = inbound \cup {Request(check)}
  BY DEF SendCheck
<1>1. chosen' \in [Agent -> Address \cup {None}]
  BY DEF IceInv, SendCheck
<1>2. \A agent \in Agent : chosen[agent] # None => chosen'[agent] = chosen[agent]
  BY DEF IceInv, SendCheck, Wanted
<1>3. check.nominates => chosen'[check.agent] = check.source
  BY DEF IceInv, SendCheck
<1>4. \A packet \in inbound' :
        \/ packet \in OtherTraffic
        \/ \E c \in Check : packet = Request(c)' /\ (c.nominates => chosen'[c.agent] = c.source)
  <2>1. \A c : Request(c)' = Request(c)
    BY <1>0 DEF Request
  <2>2. \A packet \in inbound :
          \/ packet \in OtherTraffic
          \/ \E c \in Check : packet = Request(c) /\ (c.nominates => chosen'[c.agent] = c.source)
    BY <1>2 DEF IceInv
  <2> QED
    BY <1>0, <1>3, <2>1, <2>2
<1>5. \A response \in outbound' : \E c \in Check :
        /\ response = create_stun_success(c.agent, TransactionId(c), c.source)'
        /\ c.nominates => client'[c.agent] = c.source
  BY <1>0 DEF IceInv, create_stun_success, UsernameLength
<1>6. \A agent \in Agent : client'[agent] # None => client'[agent] = chosen'[agent]
  BY <1>0, <1>2 DEF IceInv
<1>7. AddressLearned' /\ Ended'
  BY <1>0, EndedKept DEF IceInv, AddressLearned
<1> QED
  BY <1>0, <1>1, <1>4, <1>5, <1>6, <1>7 DEF IceInv

\* A step that adds no datagram and leaves the agents alone.
LEMMA LossKeeps ==
  ASSUME IceInv, inbound' \subseteq inbound, outbound' \subseteq outbound,
         other' \in OtherTraffic \cup {None},
         UNCHANGED <<remote_length, client, learned, chosen, selected>>, Ended'
  PROVE  IceInv'
<1>1. \A c : Request(c)' = Request(c)
  BY DEF Request
<1>2. \A c : create_stun_success(c.agent, TransactionId(c), c.source)'
               = create_stun_success(c.agent, TransactionId(c), c.source)
  BY DEF create_stun_success, UsernameLength
<1>3. AddressLearned'
  BY DEF IceInv, AddressLearned
<1>4. \A packet \in inbound' :
        \/ packet \in OtherTraffic
        \/ \E c \in Check : packet = Request(c)' /\ (c.nominates => chosen'[c.agent] = c.source)
  BY <1>1 DEF IceInv
<1>5. \A response \in outbound' : \E c \in Check :
        /\ response = create_stun_success(c.agent, TransactionId(c), c.source)'
        /\ c.nominates => client'[c.agent] = c.source
  BY <1>2 DEF IceInv
<1> QED
  BY <1>3, <1>4, <1>5 DEF IceInv

LEMMA SendOtherKeeps ==
  ASSUME IceInv, NEW datagram \in OtherTraffic, SendOther(datagram)
  PROVE  IceInv'
<1>1. \A c : Request(c)' = Request(c)
  BY DEF Request, SendOther
<1>2. \A c : create_stun_success(c.agent, TransactionId(c), c.source)'
               = create_stun_success(c.agent, TransactionId(c), c.source)
  BY DEF create_stun_success, UsernameLength, SendOther
<1>3. AddressLearned' /\ Ended'
  BY EndedKept DEF IceInv, AddressLearned, SendOther
<1>4. \A packet \in inbound' :
        \/ packet \in OtherTraffic
        \/ \E c \in Check : packet = Request(c)' /\ (c.nominates => chosen'[c.agent] = c.source)
  BY <1>1 DEF IceInv, SendOther
<1>5. \A response \in outbound' : \E c \in Check :
        /\ response = create_stun_success(c.agent, TransactionId(c), c.source)'
        /\ c.nominates => client'[c.agent] = c.source
  BY <1>2, SMTT(20) DEF IceInv, SendOther
<1> QED
  BY <1>3, <1>4, <1>5 DEF IceInv, SendOther

\* The server's step with a message of an agent.
LEMMA CheckProcessed ==
  ASSUME IceInv, NEW check \in Check, process_packet(Request(check)),
         check.nominates => chosen[check.agent] = check.source
  PROVE  IceInv'
<1> DEFINE packet == Request(check)
           message == get_stun_packet(packet)
           answer == create_stun_success(check.agent, TransactionId(check), check.source)
<1> USE CheckTypes
<1>1. /\ IsStunRequest(packet) /\ IsReadable(packet)
      /\ IsIceMessage(parse_stun_packet(packet))
      /\ message.nominates = check.nominates
      /\ SessionOf(message.username) = check.agent
      /\ packet.source = check.source
      /\ packet.transaction_id = TransactionId(check)
  <2>1. remote_length[check.agent] \in NameLengths
    BY SMTT(20) DEF IceInv
  <2> QED
    BY <2>1, RequestUnderstood DEF Request
<1> HIDE DEF packet, message
<1>2. /\ UNCHANGED <<remote_length, learned, chosen, selected>>
      /\ other' = None
      /\ inbound' \subseteq inbound
      /\ client' = IF check.nominates /\ client[check.agent] = None
                     THEN [client EXCEPT ![check.agent] = check.source] ELSE client
      /\ \/ outbound' = outbound \cup {answer} /\ UNCHANGED fatal
         \/ /\ UNCHANGED outbound /\ fatal' = packet
            /\ ~ Fits(UsernameLength(check.agent), check.source.family)
  BY <1>1 DEF process_packet, Received, handle_stun_packet, Nominated, packet, message
<1>ended. Ended'
  <2>1. CASE UNCHANGED fatal
    BY <1>2, <2>1, EndedKept DEF IceInv
  <2>2. CASE /\ fatal' = packet
             /\ ~ Fits(UsernameLength(check.agent), check.source.family)
    <3>1. /\ Request(check)' = Request(check)
          /\ UsernameLength(check.agent)' = UsernameLength(check.agent)
      BY <1>2 DEF Request, UsernameLength
    <3> QED
      BY <2>2, <3>1 DEF Ended, packet
  <2> QED
    BY <1>2, <2>1, <2>2
<1> HIDE DEF answer
<1>3. client' \in [Agent -> Address \cup {None}]
  BY <1>2 DEF IceInv
<1>4. /\ \A agent \in Agent : client[agent] # None => client'[agent] = client[agent]
      /\ \A agent \in Agent : client'[agent] # None => client'[agent] = chosen'[agent]
      /\ check.nominates => client'[check.agent] = check.source
  BY <1>2 DEF IceInv
<1>5. \A agent \in Agent : selected'[agent] => client'[agent] # None
  BY <1>2, <1>4 DEF IceInv
<1>6. \A p \in inbound' :
        \/ p \in OtherTraffic
        \/ \E c \in Check : p = Request(c)' /\ (c.nominates => chosen'[c.agent] = c.source)
  <2>1. \A c : Request(c)' = Request(c)
    BY <1>2 DEF Request
  <2> QED
    BY <1>2, <2>1 DEF IceInv
<1>7. \A response \in outbound' : \E c \in Check :
        /\ response = create_stun_success(c.agent, TransactionId(c), c.source)'
        /\ c.nominates => client'[c.agent] = c.source
  <2>1. \A c : create_stun_success(c.agent, TransactionId(c), c.source)'
                 = create_stun_success(c.agent, TransactionId(c), c.source)
    BY <1>2 DEF create_stun_success, UsernameLength
  <2>2. ASSUME NEW response \in outbound
        PROVE  \E c \in Check :
                 /\ response = create_stun_success(c.agent, TransactionId(c), c.source)
                 /\ c.nominates => client'[c.agent] = c.source
    <3>1. PICK c \in Check :
            /\ response = create_stun_success(c.agent, TransactionId(c), c.source)
            /\ c.nominates => client[c.agent] = c.source
      BY <2>2 DEF IceInv
    <3>2. c.nominates => client'[c.agent] = c.source
      BY <1>4, <3>1
    <3> QED
      BY <3>1, <3>2
  <2> QED
    BY <1>2, <1>4, <2>1, <2>2 DEF answer
<1>8. AddressLearned'
  BY <1>2 DEF IceInv, AddressLearned
<1> QED
  BY <1>2, <1>3, <1>4, <1>5, <1>6, <1>7, <1>8, <1>ended, SMTT(20) DEF IceInv

LEMMA ProcessKeeps ==
  ASSUME IceInv, NEW packet \in inbound, process_packet(packet)
  PROVE  IceInv'
<1>1. CASE packet \in OtherTraffic
  <2>1. UNCHANGED <<remote_length, learned, chosen, selected>> /\ inbound' \subseteq inbound
    BY DEF process_packet, Received
  <2>2. /\ UNCHANGED <<client, outbound>> /\ other' \in OtherTraffic \cup {None}
        /\ \/ UNCHANGED fatal
           \/ fatal' = packet /\ IsStunRequest(packet) /\ ~ IsReadable(packet)
    <3>1. CASE IsReadable(packet) /\ IsIceMessage(parse_stun_packet(packet))
      <4>1. SessionOf(get_stun_packet(packet).username) = None
        BY <1>1, <3>1, IceAssumption, ForeignUnknown
      <4> QED
        BY <1>1, <3>1, <4>1 DEF process_packet, handle_stun_packet
    <3>2. CASE ~ (IsReadable(packet) /\ IsIceMessage(parse_stun_packet(packet)))
      BY <1>1, <3>2 DEF process_packet
    <3> QED
      BY <3>1, <3>2
  <2>3. Ended'
    <3>1. CASE UNCHANGED fatal
      BY <2>1, <3>1, EndedKept DEF IceInv
    <3>2. CASE fatal' = packet /\ IsStunRequest(packet) /\ ~ IsReadable(packet)
      BY <1>1, <3>2 DEF Ended
    <3> QED
      BY <2>2, <3>1, <3>2
  <2> QED
    BY <2>1, <2>2, <2>3, LossKeeps
<1>2. CASE packet \notin OtherTraffic
  <2>1. PICK check \in Check : /\ packet = Request(check)
                               /\ check.nominates => chosen[check.agent] = check.source
    BY <1>2 DEF IceInv
  <2> QED
    BY <2>1, CheckProcessed
<1> QED
  BY <1>1, <1>2

LEMMA ReceiveKeeps ==
  ASSUME IceInv, NEW check \in Check, ReceiveResponse(check)
  PROVE  IceInv'
<1> USE CheckTypes
<1>1. PICK response \in outbound :
        /\ response.to = check.source
        /\ response.transaction_id = TransactionId(check)
        /\ outbound' = outbound \ {response}
        /\ IF Usable(response)
             THEN /\ learned' = [learned EXCEPT ![check.agent] = @ \cup
                       {[source |-> check.source,
                         mapped |-> Unmasked(check, response.xor_mapped)]}]
                  /\ selected' = [selected EXCEPT ![check.agent] = @ \/ check.nominates]
             ELSE UNCHANGED <<learned, selected>>
        /\ other' = None
        /\ UNCHANGED <<remote_length, inbound, client, fatal, chosen>>
  BY DEF ReceiveResponse
<1>ended. Ended'
  BY <1>1, EndedKept DEF IceInv
<1>2. CASE ~ Usable(response)
  BY <1>1, <1>2, <1>ended, LossKeeps, SMTT(20)
<1>3. CASE Usable(response)
  <2>1. PICK c \in Check :
          /\ response = create_stun_success(c.agent, TransactionId(c), c.source)
          /\ c.nominates => client[c.agent] = c.source
    BY <1>1 DEF IceInv
  <2>2. /\ response.transaction_id = TransactionId(c)
        /\ response.xor_mapped = Masked(c.source, TransactionId(c))
    BY <2>1, Zenon DEF create_stun_success
  <2>3. c = check
    BY <1>1, <2>2, IceAssumption, Zenon
  <2>4. Unmasked(check, response.xor_mapped) = check.source
    BY <2>2, <2>3, UnmaskedMasked, Zenon
  <2> DEFINE l == [source |-> check.source, mapped |-> check.source]
  <2>5. /\ learned' = [learned EXCEPT ![check.agent] = @ \cup {l}]
        /\ selected' = [selected EXCEPT ![check.agent] = @ \/ check.nominates]
    BY <1>1, <1>3, <2>4, Zenon
  <2>6. /\ learned' \in [Agent -> SUBSET [source : Address, mapped : Address]]
        /\ AddressLearned'
    <3>1. l \in [source : Address, mapped : Address] /\ l.mapped = l.source
      OBVIOUS
    <3> HIDE DEF l
    <3>2. learned' \in [Agent -> SUBSET [source : Address, mapped : Address]]
      BY <2>5, <3>1 DEF IceInv
    <3>3. AddressLearned'
      BY <2>5, <3>1 DEF IceInv, AddressLearned
    <3> QED
      BY <3>2, <3>3
  <2>7. /\ selected' \in [Agent -> BOOLEAN]
        /\ \A agent \in Agent : selected'[agent] => client'[agent] # None
    <3>1. /\ selected \in [Agent -> BOOLEAN]
          /\ \A agent \in Agent : selected[agent] => client[agent] # None
          /\ client' = client
      BY <1>1 DEF IceInv
    <3>2. check.nominates => client[check.agent] # None
      BY <2>1, <2>3
    <3> QED
      BY <2>5, <3>1, <3>2
  <2>8. \A p \in inbound' :
          \/ p \in OtherTraffic
          \/ \E d \in Check : p = Request(d)' /\ (d.nominates => chosen'[d.agent] = d.source)
    BY <1>1 DEF IceInv, Request
  <2>9. \A r \in outbound' : \E d \in Check :
          /\ r = create_stun_success(d.agent, TransactionId(d), d.source)'
          /\ d.nominates => client'[d.agent] = d.source
    <3>1. \A r \in outbound : \E d \in Check :
            /\ r = create_stun_success(d.agent, TransactionId(d), d.source)
            /\ d.nominates => client[d.agent] = d.source
      BY SMTT(20) DEF IceInv
    <3>2. \A d : create_stun_success(d.agent, TransactionId(d), d.source)'
                   = create_stun_success(d.agent, TransactionId(d), d.source)
      BY <1>1 DEF create_stun_success, UsernameLength
    <3>3. outbound' \subseteq outbound /\ client' = client
      BY <1>1
    <3> QED
      BY ONLY <3>1, <3>2, <3>3
  <2> QED
    BY <1>1, <1>ended, <2>6, <2>7, <2>8, <2>9, SMTT(20) DEF IceInv
<1> QED
  BY <1>2, <1>3

LEMMA IceInvHolds == IceSpec => []IceInv
<1>1. IceInit => IceInv
  BY DEF IceInit, IceInv, AddressLearned, Ended
<1>2. IceInv /\ [IceNext]_ice_vars => IceInv'
  <2> SUFFICES ASSUME IceInv, [IceNext]_ice_vars PROVE IceInv'
    OBVIOUS
  <2>1. ASSUME NEW check \in Check, SendCheck(check) PROVE IceInv'
    BY <2>1, SendCheckKeeps
  <2>2. ASSUME NEW check \in Check, ReceiveResponse(check) PROVE IceInv'
    BY <2>2, ReceiveKeeps
  <2>3. ASSUME NEW datagram \in OtherTraffic, SendOther(datagram) PROVE IceInv'
    BY <2>3, SendOtherKeeps
  <2>4. ASSUME NEW packet \in inbound, process_packet(packet) PROVE IceInv'
    BY <2>4, ProcessKeeps, SMTT(20)
  <2>5. CASE LoseRequest
    BY <2>5, LossKeeps, EndedKept, SMTT(20) DEF LoseRequest, IceInv
  <2>6. CASE LoseResponse
    BY <2>6, LossKeeps, EndedKept DEF LoseResponse, IceInv
  <2>7. CASE UNCHANGED ice_vars
    <3>1. UNCHANGED <<remote_length, inbound, outbound, client, other, fatal, learned, chosen, selected>>
      BY <2>7 DEF ice_vars
    <3>2. other' \in OtherTraffic \cup {None} /\ Ended'
      BY <3>1, EndedKept DEF IceInv
    <3> QED
      BY <3>1, <3>2, LossKeeps
  <2> QED
    BY <2>1, <2>2, <2>3, <2>4, <2>5, <2>6, <2>7 DEF IceNext
<1> QED
  BY <1>1, <1>2, PTL DEF IceSpec

\* An agent learns how the server really sees the address it asked from: what it
\* unmasks with its own transaction id is the source address that
\* compute_xor_mapped_address masked, whatever the addresses and the ids.
THEOREM AddressesAreLearned == IceSpec => []AddressLearned
<1>1. IceInv => AddressLearned
  BY DEF IceInv
<1> QED
  BY <1>1, IceInvHolds, PTL

\* When an agent has its nomination answered, the session's client has the
\* address that the agent nominated.
THEOREM PairsAreAgreed == IceSpec => []PairAgreed
<1>1. IceInv => PairAgreed
  BY DEF IceInv, PairAgreed
<1> QED
  BY <1>1, IceInvHolds, PTL

\* Other traffic that can be read goes to handle_other_packets and is all that
\* does, nothing but a check is answered, only its own agent's nomination elects a
\* client, and what ends the main thread is a request from elsewhere that
\* parse_stun_packet cannot read, or a check whose response does not fit.
THEOREM OthersAreIgnored == IceSpec => []OthersIgnored
<1>1. IceInv => OthersIgnored
  BY DEF IceInv, OthersIgnored, Ended, create_stun_success
<1> QED
  BY <1>1, IceInvHolds, PTL

\* The names of remote peers that can be answered, among those of any length that
\* the socket receives whole.
LEMMA FitsAnswerable ==
  ASSUME NEW length \in NameLengths, NEW family \in {4, 6}
  PROVE  Fits(Username(length), family) <=> Answerable(length, family)
<1>1. Username(length) \in 1..LongestName
  BY ResponseUsable
<1>2. length \in Nat /\ Username(length) = length + 5
  BY IceAssumption DEF Username, HostNameLen
<1>3. Fits(Username(length), family) <=>
        Username(length) % 4 = 0 \/ Username(length) <= IF family = 4 THEN 116 ELSE 96
  BY <1>1, ResponsesFit
<1>4. Username(length) <= (IF family = 4 THEN 116 ELSE 96) <=>
        length <= IF family = 4 THEN 111 ELSE 91
  BY <1>2
<1> QED
  BY <1>3, <1>4, SMTT(20) DEF Answerable

\* Only responses that fit are sent.
AnswersFit ==
  \A response \in outbound : Fits(UsernameLength(response.agent), response.to.family)

LEMMA AnswersFitHolds == IceSpec => []AnswersFit
<1>1. IceInit => AnswersFit
  BY DEF IceInit, AnswersFit
<1>2. AnswersFit /\ [IceNext]_ice_vars => AnswersFit'
  <2> SUFFICES ASSUME AnswersFit, [IceNext]_ice_vars PROVE AnswersFit'
    OBVIOUS
  <2>1. remote_length' = remote_length
    BY DEF IceNext, ice_vars, SendCheck, ReceiveResponse, SendOther, process_packet,
           LoseRequest, LoseResponse
  <2>2. \A agent : UsernameLength(agent)' = UsernameLength(agent)
    BY <2>1 DEF UsernameLength
  <2>3. CASE \E packet \in inbound : process_packet(packet)
    <3>1. PICK packet \in inbound : process_packet(packet)
      BY <2>3
    <3> DEFINE agent == SessionOf(get_stun_packet(packet).username)
               answer == create_stun_success(agent, packet.transaction_id, packet.source)
    <3>2. \/ outbound' = outbound
          \/ /\ outbound' = outbound \cup {answer}
             /\ Fits(UsernameLength(agent), packet.source.family)
      BY <3>1, Zenon DEF process_packet, handle_stun_packet
    <3>3. answer.agent = agent /\ answer.to = packet.source
      BY DEF create_stun_success
    <3> HIDE DEF answer, agent
    <3> QED
      BY <2>2, <3>2, <3>3 DEF AnswersFit
  <2>4. CASE ~ \E packet \in inbound : process_packet(packet)
    <3>1. outbound' \subseteq outbound
      BY <2>4 DEF IceNext, ice_vars, SendCheck, ReceiveResponse, SendOther,
                  LoseRequest, LoseResponse
    <3> QED
      BY <2>2, <3>1 DEF AnswersFit
  <2> QED
    BY <2>3, <2>4, SMTT(20)
<1> QED
  BY <1>1, <1>2, PTL DEF IceSpec

\* Whatever the lengths of the names, the server answers the checks of the agents
\* whose names fit its buffers and ends on no other agent's check, and every
\* response is as long as its header states and is usable just when the user name
\* needs padding.
THEOREM ResponsesUsableWhenPadded == IceSpec => []UsableWhenPadded
<1>1. ASSUME IceInv, AnswersFit, NEW response \in outbound
      PROVE /\ Answerable(remote_length[response.agent], response.to.family)
            /\ response.length = SizeOf(response.attributes)
            /\ Usable(response) <=> UsernameLength(response.agent) % 4 # 0
  <2>1. PICK check \in Check :
          response = create_stun_success(check.agent, TransactionId(check), check.source)
    BY <1>1 DEF IceInv
  <2> DEFINE length == remote_length[check.agent]
             family == check.source.family
  <2>2. length \in NameLengths /\ family \in {4, 6}
    BY <1>1, CheckTypes DEF IceInv
  <2>3. /\ response.agent = check.agent /\ response.to.family = family
        /\ remote_length[response.agent] = length
        /\ response.length = HeaderLength(Username(length), family)
        /\ response.attributes = ResponseAttributes(Username(length), family)
        /\ UsernameLength(response.agent) = Username(length)
        /\ Usable(response) <=> UsableTable[length][family]
    BY <2>1 DEF create_stun_success, UsernameLength, Usable
  <2>4. Fits(Username(length), family)
    BY <1>1, <2>3 DEF AnswersFit
  <2> HIDE DEF length, family
  <2> QED
    BY <2>2, <2>3, <2>4, FitsAnswerable, ResponseUsable
<1>2. ASSUME IceInv, NEW check \in Check, fatal # None, fatal = Request(check)
      PROVE ~ Answerable(remote_length[check.agent], check.source.family)
  <2>1. /\ \A c \in Check : /\ remote_length[c.agent] \in NameLengths
                            /\ IsReadable(Request(c))
                            /\ Request(c).transaction_id = TransactionId(c)
    <3>1. \A c \in Check : remote_length[c.agent] \in NameLengths
      BY <1>2, CheckTypes DEF IceInv
    <3> QED
      BY <3>1, RequestUnderstood DEF Request
  <2>2. PICK c \in Check : /\ fatal = Request(c)
                           /\ ~ Fits(UsernameLength(c.agent), c.source.family)
    BY <1>2, <2>1, SMTT(20) DEF IceInv, Ended
  <2>3. c = check
    BY <1>2, <2>1, <2>2, IceAssumption, ZenonT(20)
  <2> QED
    BY <2>1, <2>2, <2>3, CheckTypes, FitsAnswerable DEF UsernameLength
<1>3. IceInv /\ AnswersFit => UsableWhenPadded
  BY <1>1, <1>2 DEF UsableWhenPadded
<1> QED
  BY <1>3, IceInvHolds, AnswersFitHolds, PTL

------------------------------------------------------------------------------
\* Round trips.

\* Every round trip counts: when the server takes a check from the socket it has
\* the client elected if it was a nomination, and then answers it if the agent's
\* name fits the buffers; otherwise the main thread ends with it.  When the agent
\* takes the answer from the network, and its user name is one that needs padding,
\* the address works for it from then on, and the pair is selected if it had
\* nominated.  Nothing but loss and the end of the main thread can hold up
\* ChecksSucceed.
RoundTrip(check) ==
  /\ process_packet(Request(check)) =>
       /\ check.nominates => client'[check.agent] = check.source
       /\ IF Answerable(remote_length[check.agent], check.source.family)
            THEN /\ create_stun_success(check.agent, TransactionId(check), check.source)
                      \in outbound'
                 /\ UNCHANGED fatal
            ELSE fatal' = Request(check) /\ UNCHANGED outbound
  /\ ReceiveResponse(check) /\ UsernameLength(check.agent) % 4 # 0 =>
       /\ Works(check.agent, check.source)'
       /\ check.nominates => selected'[check.agent]

RoundTripsCount == [][\A check \in Check : RoundTrip(check)]_ice_vars

LEMMA CheckAnswered ==
  ASSUME IceInv, NEW check \in Check, process_packet(Request(check))
  PROVE  /\ check.nominates => client'[check.agent] = check.source
         /\ IF Answerable(remote_length[check.agent], check.source.family)
              THEN /\ create_stun_success(check.agent, TransactionId(check), check.source)
                        \in outbound'
                   /\ UNCHANGED fatal
              ELSE fatal' = Request(check) /\ UNCHANGED outbound
<1> DEFINE packet == Request(check)
           message == get_stun_packet(packet)
           answer == create_stun_success(check.agent, TransactionId(check), check.source)
<1> USE CheckTypes
<1>1. /\ IsStunRequest(packet) /\ IsReadable(packet)
      /\ IsIceMessage(parse_stun_packet(packet))
      /\ message.nominates = check.nominates
      /\ SessionOf(message.username) = check.agent
      /\ packet.source = check.source
      /\ packet.transaction_id = TransactionId(check)
  <2>1. remote_length[check.agent] \in NameLengths
    BY DEF IceInv
  <2> QED
    BY <2>1, RequestUnderstood DEF Request
<1>2. packet \in inbound
  BY DEF process_packet, Received
<1> HIDE DEF message
<1>3. check.nominates => chosen[check.agent] = check.source
  <2>1. CASE packet \in OtherTraffic
    BY <1>1, <2>1, IceAssumption, ForeignUnknown DEF message
  <2>2. CASE packet \notin OtherTraffic
    <3>1. PICK c \in Check : /\ packet = Request(c)
                             /\ c.nominates => chosen[c.agent] = c.source
      BY <1>2, <2>2, SMTT(20) DEF IceInv
    <3>2. Request(c).transaction_id = TransactionId(c)
      <4>1. remote_length[c.agent] \in NameLengths
        BY DEF IceInv
      <4> QED
        BY <4>1, RequestUnderstood DEF Request
    <3>3. c = check
      BY <1>1, <3>1, <3>2, IceAssumption, SMTT(20)
    <3> QED
      BY <3>1, <3>3
  <2> QED
    BY <2>1, <2>2
<1> HIDE DEF packet
<1>4. /\ client' = IF check.nominates /\ client[check.agent] = None
                     THEN [client EXCEPT ![check.agent] = check.source] ELSE client
      /\ IF Fits(UsernameLength(check.agent), check.source.family)
           THEN outbound' = outbound \cup {answer} /\ UNCHANGED fatal
           ELSE fatal' = packet /\ UNCHANGED outbound
  BY <1>1, ZenonT(20) DEF process_packet, Received, handle_stun_packet, Nominated, packet, message
<1>5. check.nominates => client'[check.agent] = check.source
  BY <1>3, <1>4 DEF IceInv
<1>6. Fits(UsernameLength(check.agent), check.source.family) <=>
        Answerable(remote_length[check.agent], check.source.family)
  BY FitsAnswerable DEF IceInv, UsernameLength
<1> HIDE DEF answer
<1>7. answer \in outbound \cup {answer}
  OBVIOUS
<1> QED
  BY <1>4, <1>5, <1>6, <1>7 DEF answer, packet

LEMMA AnswerCounts ==
  ASSUME IceInv, NEW check \in Check, ReceiveResponse(check), UsernameLength(check.agent) % 4 # 0
  PROVE  /\ Works(check.agent, check.source)'
         /\ check.nominates => selected'[check.agent]
<1> USE CheckTypes
<1>1. PICK response \in outbound :
        /\ response.transaction_id = TransactionId(check)
        /\ Usable(response) =>
             /\ learned' = [learned EXCEPT ![check.agent] = @ \cup
                  {[source |-> check.source, mapped |-> Unmasked(check, response.xor_mapped)]}]
             /\ selected' = [selected EXCEPT ![check.agent] = @ \/ check.nominates]
  BY DEF ReceiveResponse
<1>2. PICK c \in Check : response = create_stun_success(c.agent, TransactionId(c), c.source)
  BY <1>1 DEF IceInv
<1>3. /\ response.transaction_id = TransactionId(c)
      /\ response.agent = c.agent /\ response.to = c.source
  BY <1>2, Zenon DEF create_stun_success
<1>4. c = check
  BY <1>1, <1>3, IceAssumption, Zenon
<1>5. Usable(response)
  <2>1. remote_length[check.agent] \in NameLengths
    BY DEF IceInv
  <2> QED
    BY <1>3, <1>4, <2>1, ResponseUsable DEF Usable, UsernameLength
<1> DEFINE l == [source |-> check.source, mapped |-> Unmasked(check, response.xor_mapped)]
<1>6. /\ learned' = [learned EXCEPT ![check.agent] = @ \cup {l}]
      /\ selected' = [selected EXCEPT ![check.agent] = @ \/ check.nominates]
  BY <1>1, <1>5, Zenon
<1>7. l.source = check.source
  BY Zenon
<1> HIDE DEF l
<1>8. l \in learned'[check.agent] /\ (check.nominates => selected'[check.agent])
  BY <1>6 DEF IceInv
<1> QED
  BY <1>7, <1>8 DEF Works

\* However many messages are lost, repeated or late, and for names of every
\* length, no check that the server gets is in vain, or it is the last, and no
\* response that the agent gets.
THEOREM RoundTripsDoCount == IceSpec => RoundTripsCount
<1>1. ASSUME IceInv PROVE \A check \in Check : RoundTrip(check)
  BY <1>1, CheckAnswered, AnswerCounts DEF RoundTrip
<1> QED
  BY <1>1, IceInvHolds, PTL DEF RoundTripsCount

==============================================================================
