----------------------------- MODULE CodecMessages -----------------------------
(***************************************************************************)
(* Values that are encoded on one side and decoded on the other by the     *)
(* name of their codec (encodeCodec and decodeCodec of                     *)
(* src/app/src/shared/utilities/codecs/codecs.ts), at the limits of what   *)
(* the codecs can hold: the longest text, the most fields, the numbers     *)
(* that stand for null.                                                    *)
(***************************************************************************)
EXTENDS Codecs

CONSTANT ValuesOf(_)   \* the values some codec is tried with

VARIABLES
  sent,     \* the codec and the value, or Null
  packet,   \* what encodeCodec made of it
  received  \* what decodeCodec made of that

vars == <<sent, packet, received>>

Context == [entities |-> <<>>, storage |-> EmptyStorage]

Init == sent = Null /\ packet = Null /\ received = Null

\* The codecs keep no state: one message says as much as many.
Encode(name, value) ==
  /\ sent = Null
  /\ sent' = <<name, value>>
  /\ packet' = EncodeCodec(name, value, Context)
  /\ UNCHANGED received

Decode ==
  /\ packet # Null
  /\ packet.ok
  /\ received = Null
  /\ received' = DecodeCodec(sent[1], packet.data, Context)
  /\ UNCHANGED <<sent, packet>>

Tried == DOMAIN CODEC_DEFINITIONS \ {"snapshot v1.0", "delta v1.0"}

Next ==
  \/ \E name \in Tried : \E value \in ValuesOf(name) : Encode(name, value)
  \/ Decode

Spec == Init /\ [][Next]_vars

-----------------------------------------------------------------------------

TypeOK ==
  /\ packet # Null /\ packet.ok =>
       Len(packet.data) = CodecSize(sent[1], sent[2], Context)
  /\ received # Null /\ Definition(sent[1]).dataKind \in FixedSizeKinds =>
       received.ok /\ Holds(sent[1], received.value)

\* What the other side may expect: a number is rounded or cut to the width of
\* its codec, all else arrives as it is.
Expected(name, value) ==
  IF Definition(name).dataKind \in FixedSizeKinds
    THEN WriteItem(name, 0, Zeros(SizeOf(name)), value).value
    ELSE value

\* What was encoded can be decoded, and is what write said it stored: no
\* count, length or number of a packet is cut or taken for null.
Arrives ==
  received # Null =>
    /\ received.ok
    /\ received.value = Expected(sent[1], sent[2])

\* The limits of the codecs.
WithinLimits(name, value) ==
  LET definition == Definition(name)
      TextFits(text) == StringBytes[text] < Range2(UINT16_SIZE)
  IN  CASE definition.dataKind = "primitive" ->
             definition.type = "uint" =>
               value >= 0 /\ value < Range2(definition.size)
        [] definition.dataKind = "varCountArray" ->
             Len(value) < Range2(UINT16_SIZE)
        [] name = STRING_CODEC -> TextFits(value)
        [] definition.dataKind = "nullableTypedObject" ->
             value # Null =>
               /\ Cardinality(DOMAIN value) < Range2(UINT16_SIZE) - 1
               /\ \A f \in DOMAIN value : TextFits(f) /\ TextFits(value[f])
        [] name = "frontend ws v1.0" ->
             /\ value.serverId < Range2(UINT32_SIZE)
             /\ value.clientId < Range2(UINT32_SIZE)
        [] OTHER -> TRUE

\* A codec refuses just the values it could not hold.
RefusesJustTheRest ==
  packet # Null => (packet.ok <=> WithinLimits(sent[1], sent[2]))
=============================================================================
