----------------------------- MODULE EntityCodecs -----------------------------
(***************************************************************************)
(* The codecs of a fixed size, which the chunks of a storage are made of:  *)
(* primitive codecs and fixedCountArray codecs, whose fields are codecs of *)
(* a fixed size themselves (buildPrimitiveCodec and                        *)
(* buildFixedCountArrayCodec of                                            *)
(* src/app/src/shared/utilities/codecs/codecs.ts), and the definitions of  *)
(* the primitive codecs in codecs/definitions.                             *)
(***************************************************************************)
EXTENDS StructuralChanges, Binary

CONSTANT CODEC_DEFINITIONS   \* the definition of every codec by its name

isCodecName(name) == name \in DOMAIN CODEC_DEFINITIONS
Definition(name) == CODEC_DEFINITIONS[name]

-----------------------------------------------------------------------------
(* Definitions of primitive codecs.                                        *)

Primitive(type, size) == [dataKind |-> "primitive", type |-> type, size |-> size]

uint16_V1_0 == Primitive("uint", UINT16_SIZE)
uint32_V1_0 == Primitive("uint", UINT32_SIZE)
uint16Nullable_V1_0 == Primitive("uint or null", UINT16_SIZE)
int16Nullable_V1_0 == Primitive("int or null", UINT16_SIZE)
float16Nullable_V1_0 == Primitive("float or null", 2)
float32Nullable_V1_0 == Primitive("float or null", 4)
float64Nullable_V1_0 == Primitive("float or null", FLOAT64_SIZE)

\* A float of fewer bytes tells fewer numbers apart: f16round and fround.
Rounded(size, value) ==
  LET step == CASE size = 2 -> 4 [] size = 4 -> 2 [] OTHER -> 1
  IN  IF value = NaN THEN NaN
                     ELSE ((value + step \div 2) \div step) * step

Signed(size, number) ==
  IF number >= Range2(size) \div 2 THEN number - Range2(size) ELSE number

\* The integer that stands for null.
NullNumber(definition) ==
  IF definition.type = "int or null" THEN Range2(definition.size) \div 2 - 1
                                     ELSE MaxUint(definition.size)

\* Only the codecs that are not nullable refuse a value; the others warn.
Writable(definition, value) ==
  definition.type = "uint" => value \in 0 .. MaxUint(definition.size)

BytesOf(definition, value) ==
  IF definition.type = "float or null"
    THEN Parts("float",
               IF value = Null THEN NaN ELSE Rounded(definition.size, value),
               definition.size)
    ELSE Digits(definition.size,
                IF value = Null THEN NullNumber(definition) ELSE value)

\* Faulty variant: write returns the value it was given.
StoredAsGiven(definition, value) == value

\* What write returns.
Stored(definition, value) ==
  IF value = Null
    THEN Null
    ELSE CASE definition.type = "uint" -> value
           [] definition.type = "uint or null" ->
                value % Range2(definition.size)
           [] definition.type = "int or null" ->
                Signed(definition.size, value % Range2(definition.size))
           [] OTHER -> Rounded(definition.size, value)

\* What read returns.
ValueIn(definition, bytes) ==
  LET number == IF definition.type = "int or null"
                  THEN Signed(definition.size, NumberIn(bytes))
                  ELSE NumberIn(bytes)
      float  == WholeIn("float", bytes)
  IN  CASE definition.type = "uint" -> number
        [] definition.type \in {"uint or null", "int or null"} ->
             IF number = NullNumber(definition) THEN Null ELSE number
        [] OTHER -> IF float = NaN THEN Null ELSE float

-----------------------------------------------------------------------------
(* The codecs released so far.                                             *)

FixedCountArray(fieldNames, codec) ==
  [ dataKind |-> "fixedCountArray",
    fieldSet |-> [i \in DOMAIN fieldNames |->
                    [fieldName |-> fieldNames[i], codec |-> codec]] ]

candle_V1_0 ==
  FixedCountArray(<<"receivedAt", "price", "speed", "acceleration", "startedAt",
                    "endedAt", "open", "close", "high", "low">>,
                  "float64 (nullable) v1.0")

marketPhase_V1_0 ==
  FixedCountArray(<<"position", "speed", "acceleration">>,
                  "float64 (nullable) v1.0")

SingleValue == [dataKind |-> "singleValue"]

ReleasedCodecs ==
     "string (2^16) v1.0"           :> SingleValue
  @@ "typed object (nullable) v1.0" :> [dataKind |-> "nullableTypedObject"]
  @@ "uint16 v1.0"                  :> uint16_V1_0
  @@ "uint16 (nullable) v1.0"       :> uint16Nullable_V1_0
  @@ "int16 (nullable) v1.0"        :> int16Nullable_V1_0
  @@ "float16 (nullable) v1.0"      :> float16Nullable_V1_0
  @@ "uint32 v1.0"                  :> uint32_V1_0
  @@ "float32 (nullable) v1.0"      :> float32Nullable_V1_0
  @@ "float64 (nullable) v1.0"      :> float64Nullable_V1_0
  @@ "candle v1.0"                  :> candle_V1_0
  @@ "market phase v1.0"            :> marketPhase_V1_0
  @@ "snapshot v1.0"                :> SingleValue
  @@ "delta v1.0"                   :> SingleValue
  @@ "frontend ws v1.0"             :> SingleValue

-----------------------------------------------------------------------------
(* Codecs of a fixed size.                                                 *)

FixedSizeKinds == {"primitive", "fixedCountArray"}

\* What the first use of a codec checks: names that are known, fields of a
\* fixed size, no field twice and no codec inside itself.
RECURSIVE Resolves(_, _)
Resolves(name, resolving) ==
  /\ isCodecName(name)
  /\ Definition(name).dataKind \in FixedSizeKinds
  /\ Definition(name).dataKind = "fixedCountArray" =>
       LET fieldSet == Definition(name).fieldSet
       IN  /\ name \notin resolving
           /\ \A i, j \in DOMAIN fieldSet :
                fieldSet[i].fieldName = fieldSet[j].fieldName => i = j
           /\ \A i \in DOMAIN fieldSet :
                Resolves(fieldSet[i].codec, resolving \cup {name})

IsFixedSize(name) == Resolves(name, {})

\* The first use of a codec also lays its fields out, once for all.
CodecsOfKind(kinds) ==
  {name \in DOMAIN CODEC_DEFINITIONS : Definition(name).dataKind \in kinds}

sizes[name \in CodecsOfKind(FixedSizeKinds)] ==
  IF Definition(name).dataKind = "primitive"
    THEN Definition(name).size
    ELSE SumOver(Definition(name).fieldSet, LAMBDA field : sizes[field.codec])

SizeOf(name) == sizes[name]

\* Where the fields of an item start.
fieldOffsets ==
  [name \in CodecsOfKind({"fixedCountArray"}) |->
     [i \in DOMAIN Definition(name).fieldSet |->
        SumOver(SubSeq(Definition(name).fieldSet, 1, i - 1),
                LAMBDA field : SizeOf(field.codec))]]

FieldOffset(name, i) == fieldOffsets[name][i]

FieldNames(name) ==
  {Definition(name).fieldSet[i].fieldName : i \in DOMAIN Definition(name).fieldSet}

FieldIndex(name, fieldName) ==
  CHOOSE i \in DOMAIN Definition(name).fieldSet :
    Definition(name).fieldSet[i].fieldName = fieldName

RECURSIVE ReadFixed(_, _, _)
ReadFixed(name, offset, view) ==
  IF Definition(name).dataKind = "primitive"
    THEN ValueIn(Definition(name), BytesAt(view, offset, SizeOf(name)))
    ELSE [fieldName \in FieldNames(name) |->
            LET i == FieldIndex(name, fieldName)
            IN  ReadFixed(Definition(name).fieldSet[i].codec,
                          offset + FieldOffset(name, i), view)]

\* writeByOffset: the view after it and the value it returns.
RECURSIVE WriteFixed(_, _, _, _)
WriteFixed(name, offset, view, value) ==
  IF Definition(name).dataKind = "primitive"
    THEN IF /\ Writable(Definition(name), value)
            /\ Available(view, offset, SizeOf(name))
           THEN [ ok    |-> TRUE,
                  view  |-> WithBytes(view, offset,
                                      BytesOf(Definition(name), value)),
                  value |-> Stored(Definition(name), value) ]
           ELSE Thrown
    ELSE IF DOMAIN value # FieldNames(name)
           THEN Thrown
           ELSE FoldLeft(
                  LAMBDA written, i :
                    IF ~ written.ok
                      THEN written
                      ELSE LET field == Definition(name).fieldSet[i]
                               one   == WriteFixed(
                                          field.codec,
                                          offset + FieldOffset(name, i),
                                          written.view, value[field.fieldName])
                           IN  IF one.ok
                                 THEN [one EXCEPT !.value =
                                         written.value @@ field.fieldName :> @]
                                 ELSE Thrown,
                  [ok |-> TRUE, view |-> view, value |-> <<>>],
                  [i \in DOMAIN Definition(name).fieldSet |-> i])

\* A value a codec of a fixed size can hold.
RECURSIVE Holds(_, _)
Holds(name, value) ==
  LET definition == Definition(name)
  IN  CASE definition.dataKind = "fixedCountArray" ->
             /\ DOMAIN value = FieldNames(name)
             /\ \A i \in DOMAIN definition.fieldSet :
                  Holds(definition.fieldSet[i].codec,
                        value[definition.fieldSet[i].fieldName])
        [] definition.type = "uint" -> value \in 0 .. MaxUint(definition.size)
        [] definition.type = "uint or null" ->
             value \in {Null} \cup 0 .. MaxUint(definition.size) - 1
        [] definition.type = "int or null" ->
             value \in {Null} \cup -(Range2(definition.size) \div 2)
                                  .. Range2(definition.size) \div 2 - 2
        [] OTHER -> value \in {Null} \cup Int

\* An item of a chunk, and a field of an item.
ReadItem(name, itemIndex, view) ==
  ReadFixed(name, itemIndex * SizeOf(name), view)

WriteItem(name, itemIndex, view, value) ==
  WriteFixed(name, itemIndex * SizeOf(name), view, value)

ReadField(name, fieldName, itemIndex, view) ==
  LET i == FieldIndex(name, fieldName)
  IN  ReadFixed(Definition(name).fieldSet[i].codec,
                itemIndex * SizeOf(name) + FieldOffset(name, i), view)

WriteField(name, fieldName, itemIndex, view, value) ==
  LET i == FieldIndex(name, fieldName)
  IN  WriteFixed(Definition(name).fieldSet[i].codec,
                 itemIndex * SizeOf(name) + FieldOffset(name, i), view, value)

-----------------------------------------------------------------------------
(* The chunks of a storage.  The models keep the items of a chunk set as   *)
(* values, [Slots -> item], an item having a value per entity; these are   *)
(* the bytes they stand for and back.                                      *)

Key(entity) == <<entity.kind, entity.name>>
Keys(entities) == {Key(entities[i]) : i \in DOMAIN entities}
EntityOf(key, entities) == SelectSeq(entities, LAMBDA e : Key(e) = key)[1]

\* A slot never written holds zeros.
ItemBytesOf(item, entity) ==
  IF item = EmptyItem
    THEN Zeros(SizeOf(entity.codec))
    ELSE WriteItem(entity.codec, 0, Zeros(SizeOf(entity.codec)),
                   item[Key(entity)]).view

ChunkOf(chunkSet, entity) ==
  FoldLeft(LAMBDA data, s : data \o ItemBytesOf(chunkSet.items[s], entity),
           <<>>, [k \in 1 .. STORAGE_CHUNK_CAPACITY |-> k - 1])

WithChunks(chunkSet, entities) ==
  [ level |-> chunkSet.level, start |-> chunkSet.start, end |-> chunkSet.end,
    size |-> chunkSet.size, startedAt |-> chunkSet.startedAt,
    endedAt |-> chunkSet.endedAt,
    chunks |-> [key \in Keys(entities) |->
                  ChunkOf(chunkSet, EntityOf(key, entities))] ]

WithItems(chunkSet, entities) ==
  [ level |-> chunkSet.level, start |-> chunkSet.start, end |-> chunkSet.end,
    size |-> chunkSet.size, startedAt |-> chunkSet.startedAt,
    endedAt |-> chunkSet.endedAt,
    items |-> [s \in Slots |->
                 [key \in Keys(entities) |->
                    ReadItem(EntityOf(key, entities).codec, s,
                             chunkSet.chunks[key])]] ]

AllWithChunks(chunkSets, entities) ==
  [i \in DOMAIN chunkSets |-> WithChunks(chunkSets[i], entities)]

AllWithItems(chunkSets, entities) ==
  [i \in DOMAIN chunkSets |-> WithItems(chunkSets[i], entities)]
=============================================================================
