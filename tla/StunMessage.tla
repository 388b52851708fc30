----------------------------- MODULE StunMessage -----------------------------
(***************************************************************************)
(* The STUN messages of the demo (demo/stun/lib/rstream/stun/message.cpp   *)
(* and attribute.cpp): how a message is laid out, signed, read back and    *)
(* verified.  A byte is <<v, i>>, the i-th byte of a value v in network    *)
(* order; a value is a tuple that starts with its kind.  A digest is the   *)
(* tuple of what it covers, so that two digests are equal only if these    *)
(* are.  The machine is little-endian: a value that is written in host     *)
(* order is reversed.                                                      *)
(***************************************************************************)
EXTENDS Naturals, Sequences, SequencesExt

CONSTANTS
  Messages,    \* the attributes of the messages that are built
  LengthLimit  \* the largest value of the 16-bit length fields

VARIABLES stun

stunVars == <<stun>>

HeaderSize == 20

Bytes(v, n) == [i \in 1..n |-> <<v, i>>]
ValueOf(bytes) == IF bytes = Bytes(bytes[1][1], Len(bytes)) THEN bytes[1][1] ELSE <<"garbled">>

(* the bits of two bytes, exclusive or *)
Xor(a, mask) == IF Len(a) = 3 /\ a[3] = mask THEN <<a[1], a[2]>> ELSE <<a[1], a[2], mask>>

AddressKinds == {"mapped_address", "alternate_server", "response_origin", "other_address"}
TextKinds    == {"username", "realm", "nonce", "software", "padding"}
RawSize      == [priority |-> 4, ice_controlled |-> 8, ice_controlling |-> 8, change_request |-> 4]
EmptyKinds   == {"use_candidate", "cache_timeout"}

AddressLength(family) == IF family = 1 THEN 4 ELSE 16

(* byte_size_long_value of an attribute's value *)
ValueSize(a) ==
  CASE a.kind \in AddressKinds \union {"xor_mapped_address"} -> 4 + AddressLength(a.value[2])
    [] a.kind \in TextKinds        -> Len(a.value)
    [] a.kind \in DOMAIN RawSize   -> RawSize[a.kind]
    [] a.kind = "response_port"    -> 2
    [] a.kind = "message_integrity" -> 20
    [] a.kind = "fingerprint"      -> 4
    [] a.kind \in EmptyKinds       -> 0
    [] a.kind = "error_code"       -> 2 + Len(a.value.reason)
    [] a.kind = "unknown_attributes" -> 2 * Len(a.value)

Align(n) == ((n + 3) \div 4) * 4

AttributeSize(a) == 4 + Align(ValueSize(a))

AttributesSize(attributes) == FoldLeft(LAMBDA n, a : n + AttributeSize(a), 0, attributes)

-----------------------------------------------------------------------------
(* Serialization *)

(* the payload length is bytes 3 and 4 of the header *)
set_message_header_payload_length(bytes, n) ==
  [i \in DOMAIN bytes |-> IF i \in {3, 4} THEN <<<<"length", n>>, i - 2>> ELSE bytes[i]]

SerializedHeader(m) ==
  Bytes(<<"type", m.type>>, 2) \o Bytes(<<"length", m.length>>, 2) \o Bytes(<<"magic">>, 4) \o Bytes(<<"id", m.id>>, 12)

(* padding byte, family, port and address; value = <<"address", family, port, host>> *)
AddressBytes(v) ==
  <<<<<<"padding">>, 1>>, <<<<"family", v[2]>>, 1>>>> \o Bytes(<<"port", v[3]>>, 2)
  \o Bytes(<<"host", v[4]>>, AddressLength(v[2]))

(* apply_mask: the port and the address with the bytes 5 to 20 of the message *)
Masked(bytes, message) ==
  [i \in DOMAIN bytes |->
    CASE i <= 2      -> bytes[i]
      [] i \in {3, 4} -> Xor(bytes[i], message[i + 2])
      [] OTHER       -> Xor(bytes[i], message[i])]

(* Mutant: the digest covers the header of the message only. *)
MutSignature(kind, secret, message) == <<kind, secret, SubSeq(message, 1, HeaderSize)>>

(* hmac_sha1 and crc32 cover what precedes the header of the attribute *)
Signature(kind, secret, message) == <<kind, secret, message>>

(* serialize_value of an attribute's value, after the bytes of the message so far *)
ValueBytes(a, message) ==
  CASE a.kind \in AddressKinds        -> AddressBytes(a.value)
    [] a.kind = "xor_mapped_address"  -> Masked(AddressBytes(a.value), message)
    [] a.kind \in TextKinds           -> a.value
    [] a.kind \in DOMAIN RawSize      -> Reverse(Bytes(a.value, RawSize[a.kind]))
    [] a.kind = "response_port"       -> Bytes(a.value, 2)
    [] a.kind = "message_integrity"   -> Bytes(Signature("hmac", a.value, message), 20)
    [] a.kind = "fingerprint"         -> Bytes(Signature("crc", "", message), 4)
    [] a.kind \in EmptyKinds          -> <<>>
    [] a.kind = "error_code"          -> <<a.value.class, a.value.number>> \o a.value.reason
    [] a.kind = "unknown_attributes"  -> FlattenSeq([i \in DOMAIN a.value |-> Reverse(Bytes(a.value[i], 2))])

Zero == <<<<"zero">>, 1>>

(* the first padding byte keeps what the memory held, the others are cleared, and so
   is the byte that follows them *)
Padding(n) == [i \in 1..n |-> IF i = 1 THEN <<<<"undefined">>, 1>> ELSE Zero]

(* serialize_value<attributes>: the length of the header grows with each attribute *)
AppendAttribute(state, a) ==
  LET length  == state.length + AttributeSize(a)
      message == set_message_header_payload_length(state.bytes, length)
      header  == Bytes(<<"attribute", a.kind>>, 2) \o Bytes(<<"length", ValueSize(a)>>, 2)
      value   == ValueBytes(a, message)
      pad     == Align(Len(value)) - Len(value) IN
  [length |-> length, bytes |-> message \o header \o value \o Padding(pad), beyond |-> pad > 0]

(* beyond: the byte that follows the message was written *)
Serialize(m) == FoldLeft(AppendAttribute, [length |-> 0, bytes |-> SerializedHeader(m), beyond |-> FALSE], m.attributes)

(* message_builder: checked_length refuses what the 16-bit fields do not hold *)
Build(type, id, attributes) ==
  [ok |-> AttributesSize(attributes) <= LengthLimit /\ \A i \in DOMAIN attributes : ValueSize(attributes[i]) <= LengthLimit,
   type |-> type, id |-> id, length |-> AttributesSize(attributes), attributes |-> attributes]

-----------------------------------------------------------------------------
(* Parsing *)

LengthAt(bytes, i) == ValueOf(SubSeq(bytes, i, i + 1))

(* make_attribute, at an offset: the attribute and where the next one starts; an
   attribute is kept as its bytes and decoded when it is asked for *)
AttributeAt(bytes, offset) ==
  LET length == LengthAt(bytes, offset + 3) IN
  IF Len(bytes) - offset < 4 \/ length[1] # "length" \/ Len(bytes) - offset < 4 + length[2]
  THEN [ok |-> FALSE]
  ELSE [ok |-> TRUE, kind |-> ValueOf(SubSeq(bytes, offset + 1, offset + 2)), offset |-> offset + 4,
        size |-> length[2], next |-> offset + 4 + Align(length[2])]

RECURSIVE ParseAttributes(_, _, _)
ParseAttributes(bytes, offset, found) ==
  IF offset >= Len(bytes) THEN [ok |-> offset = Len(bytes), attributes |-> found]
  ELSE LET a == AttributeAt(bytes, offset) IN
       IF a.ok THEN ParseAttributes(bytes, a.next, Append(found, a)) ELSE [ok |-> FALSE, attributes |-> <<>>]

(* A byte that was damaged holds another value, which in the type of the message is that
   of another type or, with its upper bits set, of none. *)
High == <<<<"high">>, 1>>
Other == <<<<"other">>, 1>>

(* parse_value<header> and parse_value<attributes>: the size, the start byte, the magic,
   the payload length, and that the class and the method exist *)
Parse(bytes) ==
  LET length == LengthAt(bytes, 3) IN
  IF \/ Len(bytes) < HeaderSize
     \/ bytes[1] = High
     \/ ValueOf(SubSeq(bytes, 5, 8)) # <<"magic">>
     \/ length[1] # "length" \/ length[2] % 4 # 0 \/ Len(bytes) # HeaderSize + length[2]
     \/ bytes[2] = High
  THEN [ok |-> FALSE, attributes |-> <<>>]
  ELSE ParseAttributes(bytes, HeaderSize, <<>>)

Content(bytes, a) == SubSeq(bytes, a.offset + 1, a.offset + a.size)

AddressOf(b) ==
  LET family == b[2][1] IN
  IF family[1] = "family" /\ Len(b) = 4 + AddressLength(family[2])
  THEN <<"address", family[2], ValueOf(SubSeq(b, 3, 4))[2], ValueOf(SubSeq(b, 5, Len(b)))[2]>>
  ELSE <<"garbled">>

NotRead == <<"refused">>

(* the error code is preceded by two bytes of padding, which the serialization of
   an error code does not write *)
ErrorCodeOf(b) ==
  IF Len(b) < 4 \/ b[1] # Zero \/ b[2] # Zero THEN NotRead
  ELSE [class |-> b[3], number |-> b[4], reason |-> SubSeq(b, 5, Len(b))]

(* a list of types is taken only if it has an even number of them *)
TypesOf(b) ==
  IF Len(b) % 4 # 0 THEN NotRead ELSE [i \in 1..Len(b) \div 2 |-> ValueOf(Reverse(SubSeq(b, 2 * i - 1, 2 * i)))]

(* attribute::get: the value of a kind *)
Get(bytes, a) ==
  LET b == Content(bytes, a)
      kind == a.kind[2] IN
  CASE kind \in AddressKinds        -> AddressOf(b)
    [] kind = "xor_mapped_address"  -> AddressOf(Masked(b, bytes))
    [] kind \in TextKinds           -> b
    [] kind \in DOMAIN RawSize      -> ValueOf(Reverse(b))
    [] kind \in EmptyKinds          -> <<>>
    [] kind = "error_code"          -> ErrorCodeOf(b)
    [] kind = "unknown_attributes"  -> TypesOf(b)
    [] OTHER                        -> ValueOf(b)

(* find_attribute *)
Find(parsed, kind) == {i \in DOMAIN parsed.attributes : parsed.attributes[i].kind = <<"attribute", kind>>}
First(s) == CHOOSE i \in s : \A j \in s : i <= j

(* check_fingerprint *)
check_fingerprint(bytes, parsed) ==
  LET a == parsed.attributes[First(Find(parsed, "fingerprint"))] IN
  Get(bytes, a) = Signature("crc", "", SubSeq(bytes, 1, a.offset - 4))

(* check_message_integrity: the length is set as if the message ended there *)
check_message_integrity(bytes, parsed, password) ==
  LET i      == First(Find(parsed, "message_integrity"))
      a      == parsed.attributes[i]
      length == FoldLeft(LAMBDA n, b : n + 4 + Align(b.size), 0, SubSeq(parsed.attributes, 1, i))
      upTo   == set_message_header_payload_length(bytes, length) IN
  Get(bytes, a) = Signature("hmac", password, SubSeq(upTo, 1, a.offset - 4))

-----------------------------------------------------------------------------
(* A message is built, sent, perhaps damaged on its way, and read. *)
Init == stun = [pc |-> "build", message |-> <<>>, sent |-> <<>>, bytes |-> <<>>, beyond |-> FALSE]

BuildMessage ==
  /\ stun.pc = "build"
  /\ \E attributes \in Messages :
       LET m == Build("binding", "id", attributes)
           wire == IF m.ok THEN Serialize(m) ELSE [bytes |-> <<>>, beyond |-> FALSE] IN
       stun' = [pc |-> IF m.ok THEN "sent" ELSE "refused", message |-> m, sent |-> wire.bytes, bytes |-> wire.bytes,
                beyond |-> wire.beyond]

(* one byte, other than those of the lengths, or the size *)
Damage ==
  /\ stun.pc = "sent"
  /\ stun' \in {[stun EXCEPT !.pc = "received", !.bytes[i] = b] :
                  <<i, b>> \in {<<j, Other>> : j \in {k \in DOMAIN stun.bytes : stun.bytes[k][1][1] # "length"}}
                             \union {<<1, High>>, <<2, High>>}}
          \union {[stun EXCEPT !.pc = "received", !.bytes = SubSeq(stun.bytes, 1, n)] : n \in {0, 19, Len(stun.bytes) - 1}}
          \union {[stun EXCEPT !.pc = "received", !.bytes = Append(@, Zero)]}

Deliver ==
  /\ stun.pc = "sent"
  /\ stun' = [stun EXCEPT !.pc = "received"]

Next == BuildMessage \/ Damage \/ Deliver

Spec == Init /\ [][Next]_stunVars

-----------------------------------------------------------------------------
Received == IF stun.pc = "received" THEN Parse(stun.bytes) ELSE [ok |-> FALSE, attributes |-> <<>>]

(* An error code, and a list of an odd number of types, are written in a form that
   their own parser refuses. *)
Unreadable(a) == a.kind = "error_code" \/ (a.kind = "unknown_attributes" /\ Len(a.value) % 2 = 1)

(* What was built is what is read, attribute by attribute: a value decodes to the one
   that was encoded, whatever the sizes and the padding around it, and the two digests
   verify, the first one with its password only.  The two exceptions are refused when
   they are asked for, never misread. *)
RoundTrip ==
  (stun.pc = "received" /\ stun.bytes = stun.sent) =>
    /\ Received.ok
    /\ Len(Received.attributes) = Len(stun.message.attributes)
    /\ \A i \in DOMAIN Received.attributes :
         LET a == stun.message.attributes[i] IN
         /\ Received.attributes[i].kind = <<"attribute", a.kind>>
         /\ Received.attributes[i].size = ValueSize(a)
         /\ a.kind \notin {"message_integrity", "fingerprint"} => 
              Get(stun.bytes, Received.attributes[i]) = IF Unreadable(a) THEN NotRead ELSE a.value
         /\ a.kind = "message_integrity" =>
              \A p \in {"right", "wrong"} : check_message_integrity(stun.bytes, Received, p) = (p = a.value)
         /\ a.kind = "fingerprint" => check_fingerprint(stun.bytes, Received)

(* A message that ends with a fingerprint, as those of the demo do, is written within
   its size: the byte that follows the padding is then one of the next attribute. *)
WithinSize ==
  LET attributes == stun.message.attributes IN
  (stun.pc \in {"sent", "received"} /\ attributes # <<>> /\ Last(attributes).kind = "fingerprint") => ~stun.beyond

(* A message that arrives damaged is refused, or its fingerprint does not verify,
   or its fingerprint is what was damaged and is not found. *)
DamageIsSeen ==
  (stun.pc = "received" /\ stun.bytes # stun.sent) =>
    \/ ~Received.ok
    \/ Find(Received, "fingerprint") = {}
    \/ ~check_fingerprint(stun.bytes, Received)
=============================================================================
