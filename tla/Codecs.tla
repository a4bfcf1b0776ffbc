-------------------------------- MODULE Codecs --------------------------------
(***************************************************************************)
(* All codecs of src/app/src/shared/utilities/codecs: their sizes, writing *)
(* and reading at an offset, the standalone encode and decode of           *)
(* codecs.ts, and the outer format of entire-binary-codec.ts, which names  *)
(* the codec of its payload.                                               *)
(*                                                                         *)
(* What a codec needs besides the value is its context: the registered     *)
(* entities and, for a delta, the storage its accumulator belongs to.      *)
(***************************************************************************)
EXTENDS SnapshotCodec, DeltaCodec

NULL_FIELD_COUNT == MaxUint(UINT16_SIZE)

\* The one type of value a typed object may have so far, by its number.
valueTypes == << "string" >>

BINARY_KINDS == {"snapshot", "delta"}

STRING_CODEC == "string (2^16) v1.0"
PAYLOAD_SIZE_CODEC == "uint32 v1.0"

IsText(value) == value \in DOMAIN StringBytes

-----------------------------------------------------------------------------
(* "typed object (nullable) v1.0": null, or fields whose values are texts. *)

TypedObjectSize(value) ==
  IF value = Null
    THEN UINT16_SIZE
    ELSE UINT16_SIZE
           + MapThenSumSet(LAMBDA fieldName : StringSize(fieldName) + UINT8_SIZE
                                                + StringSize(value[fieldName]),
                           DOMAIN value)

\* Faulty variant: one field too many is let through and reads as null.
TypedObjectOneMore(value) ==
  value # Null => Cardinality(DOMAIN value) <= NULL_FIELD_COUNT

TypedObjectWritable(value) ==
  value # Null =>
    /\ Cardinality(DOMAIN value) < NULL_FIELD_COUNT
    /\ \A fieldName \in DOMAIN value : IsText(value[fieldName])

PutTypedObject(written, value) ==
  IF ~ TypedObjectWritable(value)
    THEN Thrown
    ELSE IF value = Null
      THEN Put(written, Digits(UINT16_SIZE, NULL_FIELD_COUNT))
      ELSE FoldSet(LAMBDA fieldName, w :
                     PutString(Put(PutString(w, fieldName),
                                   Digits(UINT8_SIZE, 0)),
                               value[fieldName]),
                   Put(written, Digits(UINT16_SIZE, Cardinality(DOMAIN value))),
                   DOMAIN value)

ReadTypedField(view, read) ==
  AndThen(ReadString(view, read.nextOffset), LAMBDA name :
  AndThen(ReadString(view, name.nextOffset + UINT8_SIZE), LAMBDA value :
    IF UintAt(view, name.nextOffset, UINT8_SIZE) < Len(valueTypes)
      THEN ReadResult(name.value :> value.value @@ read.value, value.nextOffset)
      ELSE Thrown))

ReadTypedObject(view, offset) ==
  LET count == UintAt(view, offset, UINT16_SIZE)
      ReadOne(read) == ReadTypedField(view, read)
  IN  IF ~ Available(view, offset, UINT16_SIZE)
        THEN Thrown
        ELSE IF count = NULL_FIELD_COUNT
          THEN ReadResult(Null, offset + UINT16_SIZE)
          ELSE Repeat(count, ReadOne, ReadResult(<<>>, offset + UINT16_SIZE))

-----------------------------------------------------------------------------
(* "frontend ws v1.0": the ids of a subscription before the data.          *)

TransportSize(value) == 2 * UINT32_SIZE + Len(value.data)

PutTransport(written, value) ==
  LET id == Definition(PAYLOAD_SIZE_CODEC)
  IN  IF Writable(id, value.serverId) /\ Writable(id, value.clientId)
        THEN Put(written, Digits(UINT32_SIZE, value.serverId)
                            \o Digits(UINT32_SIZE, value.clientId)
                            \o value.data)
        ELSE Thrown

\* The data is all that follows.
ReadTransport(view, offset) ==
  LET data == offset + 2 * UINT32_SIZE
  IN  IF Available(view, offset, 2 * UINT32_SIZE)
        THEN ReadResult(
               [ serverId |-> UintAt(view, offset, UINT32_SIZE),
                 clientId |-> UintAt(view, offset + UINT32_SIZE, UINT32_SIZE),
                 data     |-> BytesAt(view, data, Len(view) - data) ],
               Len(view))
        ELSE Thrown

-----------------------------------------------------------------------------
(* All codecs.                                                             *)

RECURSIVE CodecSize(_, _, _), PutCodec(_, _, _, _), ReadCodec(_, _, _, _)

\* Objects of fields one after the other; no field twice.
ObjectResolves(definition) ==
  \A i, j \in DOMAIN definition.fieldSet :
    /\ isCodecName(definition.fieldSet[i].codec)
    /\ definition.fieldSet[i].fieldName = definition.fieldSet[j].fieldName => i = j

ObjectSize(definition, value, context) ==
  SumOver(definition.fieldSet,
          LAMBDA f : CodecSize(f.codec, value[f.fieldName], context))

PutObject(written, definition, value, context) ==
  IF /\ ObjectResolves(definition)
     /\ DOMAIN value =
          {definition.fieldSet[i].fieldName : i \in DOMAIN definition.fieldSet}
    THEN PutAll(written,
                LAMBDA w, f : PutCodec(w, f.codec, value[f.fieldName], context),
                definition.fieldSet)
    ELSE Thrown

ReadObject(definition, view, offset, context) ==
  LET ReadObjectField(read, f) ==
        LET one == ReadCodec(f.codec, view, read.nextOffset, context)
        IN  IF read.ok /\ one.ok
              THEN ReadResult(read.value @@ f.fieldName :> one.value,
                              one.nextOffset)
              ELSE Thrown
  IN  IF ObjectResolves(definition)
        THEN FoldLeft(ReadObjectField, ReadResult(<<>>, offset),
                      definition.fieldSet)
        ELSE Thrown

\* Arrays: a count and as many items.
ArrayResolves(definition) ==
  /\ isCodecName(definition.itemCodec)
  /\ isCodecName(definition.countCodec)
  /\ Definition(definition.countCodec).dataKind = "primitive"

ArraySize(definition, value, context) ==
  SizeOf(definition.countCodec)
    + SumOver(value, LAMBDA item : CodecSize(definition.itemCodec, item, context))

PutFixed(written, name, value) ==
  LET one == WriteFixed(name, written.nextOffset, written.view, value)
  IN  IF written.ok /\ one.ok
        THEN [ ok |-> TRUE, view |-> one.view,
               nextOffset |-> written.nextOffset + SizeOf(name) ]
        ELSE Thrown

\* The count must come back from its codec as it was.
PutArray(written, definition, value, context) ==
  IF /\ ArrayResolves(definition)
     /\ Stored(Definition(definition.countCodec), Len(value)) = Len(value)
    THEN PutAll(PutFixed(written, definition.countCodec, Len(value)),
                LAMBDA w, item : PutCodec(w, definition.itemCodec, item, context),
                value)
    ELSE Thrown

ReadArray(definition, view, offset, context) ==
  LET countCodec  == definition.countCodec
      ReadOne(at) == ReadCodec(definition.itemCodec, view, at, context)
  IN  IF /\ ArrayResolves(definition)
         /\ Available(view, offset, SizeOf(countCodec))
         /\ ReadFixed(countCodec, offset, view) \in Nat
        THEN ReadAll(offset + SizeOf(countCodec),
                     ReadFixed(countCodec, offset, view), ReadOne)
        ELSE Thrown

CodecSize(name, value, context) ==
  LET definition == Definition(name)
      kind       == definition.dataKind
  IN  CASE kind \in FixedSizeKinds -> SizeOf(name)
        [] kind = "singleObject" -> ObjectSize(definition, value, context)
        [] kind = "varCountArray" -> ArraySize(definition, value, context)
        [] kind = "nullableTypedObject" -> TypedObjectSize(value)
        [] name = STRING_CODEC -> StringSize(value)
        [] name = "snapshot v1.0" ->
             SnapshotSize(value.chunkSets, context.entities)
        [] name = "delta v1.0" -> DeltaSize(value, context.entities)
        [] name = "frontend ws v1.0" -> TransportSize(value)

PutCodec(written, name, value, context) ==
  LET definition == Definition(name)
      kind       == definition.dataKind
  IN  IF ~ written.ok
        THEN Thrown
        ELSE CASE kind \in FixedSizeKinds -> PutFixed(written, name, value)
               [] kind = "singleObject" ->
                    PutObject(written, definition, value, context)
               [] kind = "varCountArray" ->
                    PutArray(written, definition, value, context)
               [] kind = "nullableTypedObject" -> PutTypedObject(written, value)
               [] name = STRING_CODEC -> PutString(written, value)
               [] name = "snapshot v1.0" ->
                    PutSnapshot(written, value.chunkSets, context.entities)
               [] name = "delta v1.0" ->
                    PutDelta(written, value,
                             AllWithChunks(context.storage.chunkSets,
                                           context.entities),
                             context.entities)
               [] name = "frontend ws v1.0" -> PutTransport(written, value)

ReadCodec(name, view, offset, context) ==
  LET definition == Definition(name)
      kind       == definition.dataKind
  IN  CASE kind \in FixedSizeKinds ->
             IF Available(view, offset, SizeOf(name))
               THEN ReadResult(ReadFixed(name, offset, view),
                               offset + SizeOf(name))
               ELSE Thrown
        [] kind = "singleObject" -> ReadObject(definition, view, offset, context)
        [] kind = "varCountArray" -> ReadArray(definition, view, offset, context)
        [] kind = "nullableTypedObject" -> ReadTypedObject(view, offset)
        [] name = STRING_CODEC -> ReadString(view, offset)
        [] name = "snapshot v1.0" -> ReadSnapshot(view, offset, context.entities)
        [] name = "delta v1.0" ->
             ReadDelta(view, offset, context.storage, context.entities)
        [] name = "frontend ws v1.0" -> ReadTransport(view, offset)

\* encodeCodec and decodeCodec: the binary is just as long as the codec says.
EncodeCodec(name, value, context) ==
  LET size == CodecSize(name, value, context)
  IN  AndThen(PutCodec(StartWriting(0, Zeros(size)), name, value, context),
              LAMBDA written : IF written.nextOffset = size
                                 THEN [ok |-> TRUE, data |-> written.view]
                                 ELSE Thrown)

DecodeCodec(name, data, context) ==
  AndThen(ReadCodec(name, data, 0, context), LAMBDA read :
    IF read.nextOffset = Len(data) THEN read ELSE Thrown)

-----------------------------------------------------------------------------
(* Entire binaries.                                                        *)

\* The codec of the payload writes just the bytes it said.
PutEntireBinary(binary, payloadSize, size, context) ==
  LET texts == PutString(PutString(StartWriting(0, Zeros(size)),
                                   binary.codecName),
                         binary.binaryKind)
      head == PutFixed(PutTypedObject(texts, binary.parameters),
                       PAYLOAD_SIZE_CODEC, payloadSize)
  IN  AndThen(PutCodec(head, binary.codecName, binary.data, context),
              LAMBDA all : IF all.nextOffset = size
                             THEN [ok |-> TRUE, data |-> all.view]
                             ELSE Thrown)

EncodeEntireBinary(binary, context) ==
  LET payloadSize == CodecSize(binary.codecName, binary.data, context)
  IN  PutEntireBinary(binary, payloadSize,
                      StringSize(binary.codecName)
                        + StringSize(binary.binaryKind)
                        + TypedObjectSize(binary.parameters)
                        + SizeOf(PAYLOAD_SIZE_CODEC) + payloadSize,
                      context)

\* The payload is not decoded, only cut out.
PayloadOf(data, codecName, binaryKind, parameters) ==
  LET payloadSize == UintAt(data, parameters.nextOffset, UINT32_SIZE)
      payload     == parameters.nextOffset + UINT32_SIZE
  IN  IF /\ isCodecName(codecName.value)
         /\ binaryKind.value \in BINARY_KINDS
         /\ Available(data, parameters.nextOffset, UINT32_SIZE)
         /\ payload + payloadSize = Len(data)
        THEN [ ok         |-> TRUE,
               codecName  |-> codecName.value,
               binaryKind |-> binaryKind.value,
               parameters |-> parameters.value,
               data       |-> BytesAt(data, payload, payloadSize) ]
        ELSE Thrown

DecodeEntireBinary(data) ==
  AndThen(ReadString(data, 0), LAMBDA codecName :
  AndThen(ReadString(data, codecName.nextOffset), LAMBDA binaryKind :
  AndThen(ReadTypedObject(data, binaryKind.nextOffset), LAMBDA parameters :
    PayloadOf(data, codecName, binaryKind, parameters))))
=============================================================================
