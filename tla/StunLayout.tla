------------------------------ MODULE StunLayout ------------------------------
(***************************************************************************)
(* How long the parts of a STUN success response are (stun.rs).  An         *)
(* attribute has a type, the length its header states and the number of     *)
(* bytes that really follow its header, its room.                           *)
(***************************************************************************)
EXTENDS Naturals, Sequences

STUN_HEADER_LEN == 20
STUN_MESSAGE_INTEGRITY_LEN == 20
STUN_MESSAGE_INTEGRITY_ATTRIBUTE_LEN == 24
FingerprintLen == 8
UsernameBuffer == 120    \* create_stun_success: username_attribute
ResponseBuffer == 200    \* handle_stun_packet: buffer
WordSize == 65536        \* u16

pad_to_4bytes(value) ==
  IF value % 4 = 0 THEN value ELSE (value + 4 - (value % 4)) % WordSize

Attribute(type, length, room) == [type |-> type, length |-> length, room |-> room]

Size(attribute) == 4 + attribute.room

\* Mutant of write_username_attribute: the name is written without padding.
write_username_attribute_unpadded(length) == Attribute("Username", length, length)

\* The name is written only if it needs padding.
write_username_attribute(length) ==
  Attribute("Username", length % WordSize,
            IF pad_to_4bytes(length % WordSize) > length
              THEN pad_to_4bytes(length % WordSize) ELSE 0)

AddressLen(family) == IF family = 4 THEN 8 ELSE 20

write_mapped_address_attribute(family) ==
  Attribute("MappedAddress", AddressLen(family), AddressLen(family))

compute_xor_mapped_address(family) ==
  Attribute("XORMappedAddress", AddressLen(family), AddressLen(family))

\* The attributes of a response in their order, for a user name of some length
\* and a remote address of some family.
ResponseAttributes(length, family) ==
  <<write_username_attribute(length),
    compute_xor_mapped_address(family),
    write_mapped_address_attribute(family),
    Attribute("MessageIntegrity", STUN_MESSAGE_INTEGRITY_LEN, STUN_MESSAGE_INTEGRITY_LEN),
    Attribute("Fingerprint", 4, FingerprintLen - 4)>>

\* Without the fingerprint, which is added to the header's length last.
message_length(length, family) ==
  Size(compute_xor_mapped_address(family))
    + STUN_MESSAGE_INTEGRITY_ATTRIBUTE_LEN
    + Size(write_username_attribute(length))
    + Size(write_mapped_address_attribute(family))

HeaderLength(length, family) == message_length(length, family) + 8

BytesSent(length, family) == STUN_HEADER_LEN + message_length(length, family) + 8

\* The buffers the response is put together in are large enough; otherwise
\* a write or a slice panics.
Fits(length, family) ==
  /\ Size(write_username_attribute(length)) <= UsernameBuffer
  /\ BytesSent(length, family) <= ResponseBuffer

------------------------------------------------------------------------------
\* A reader that goes from header to header by the stated lengths, as
\* parse_stun_packet does.

\* After this attribute the reader is at the start of the next.
InStep(attribute) == pad_to_4bytes(attribute.length) = attribute.room

\* Where the attributes of a message start, one after the other.
Offsets(attributes) ==
  LET at[i \in 0..Len(attributes)] == IF i = 0 THEN 0 ELSE at[i - 1] + Size(attributes[i])
  IN at

SizeOf(attributes) == Offsets(attributes)[Len(attributes)]

\* Where the reader looks for its next attribute while it passes them.  One that
\* it takes for the value of another is passed over.
ReaderAt(attributes) ==
  LET at[i \in 0..Len(attributes)] ==
        IF i = 0 THEN 0
        ELSE IF at[i - 1] = Offsets(attributes)[i - 1]
          THEN at[i - 1] + 4 + pad_to_4bytes(attributes[i].length) ELSE at[i - 1]
  IN at

\* The types of the attributes it comes to.
Reached(attributes) ==
  {attributes[i].type : i \in {j \in DOMAIN attributes :
     ReaderAt(attributes)[j - 1] = Offsets(attributes)[j - 1]}}

==============================================================================
