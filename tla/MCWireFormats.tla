---------------------------- MODULE MCWireFormats ----------------------------
(***************************************************************************)
(* Model checking the users of the codecs with bytes of four values, so    *)
(* that the limits of 255 and 65535 are met: an entity's chunk, messages   *)
(* of single values, snapshots over several releases, and the deltas of a  *)
(* storage.  A behaviour is one of one of the four.                        *)
(***************************************************************************)
EXTENDS Codecs

VARIABLES
  user,                                           \* the user of the codecs
  chunk, returned,                                \* of EntityChunk
  sent, packet, received,                         \* of CodecMessages
  entities, upgraded, saved, started, releases,
  expected, expectedSaved,                        \* of SnapshotUpgrades
  storage, startParams, structural, changed,
  replica, flags, refused, thrown                 \* of DeltaWire

chunkVars == <<chunk, returned>>
messageVars == <<sent, packet, received>>
upgradeVars == <<entities, upgraded, saved, started, releases, expected,
                 expectedSaved>>
deltaVars == <<storage, startParams, structural, changed, replica, flags,
               refused, thrown>>
vars == <<user, chunkVars, messageVars, upgradeVars, deltaVars>>

Names == << "a", "b", "c", "d", "e", "f", "g", "h", "i", "j", "k", "l", "m",
            "n", "o" >>

\* Of texts only the lengths matter: empty, the longest that fits, too long.
MCByteLength ==
  [s \in Range(Names) \cup DOMAIN CODEC_DEFINITIONS
           \cup {"candles", "indicators", "candle", "phase", "marketName",
                 "snapshot", "delta"} |-> 1]
    @@ ("" :> 0 @@ "ema" :> 2 @@ "BTC" :> 2 @@ "longest" :> 15
          @@ "too long" :> 16)

\* The released codecs, an item of three fields, one of them of two fields
\* itself, codecs of the two kinds nothing is built from yet, a codec of a new
\* version, and two entities of the size of a candle.
MCDefinitions ==
  LET FixedCount(fields) == [dataKind |-> "fixedCountArray", fieldSet |-> fields]
      Field(name, fieldCodec) == [fieldName |-> name, codec |-> fieldCodec]
  IN ReleasedCodecs
      @@ "phase v1.0" :> FixedCount(<< Field("speed", "float32 (nullable) v1.0"),
                                       Field("at", "uint16 (nullable) v1.0") >>)
      @@ "item v1.0" :> FixedCount(<< Field("phase", "phase v1.0"),
                                      Field("price", "float16 (nullable) v1.0"),
                                      Field("count", "int16 (nullable) v1.0") >>)
      @@ "message v1.0" :> [ dataKind |-> "singleObject",
           fieldSet |-> << Field("name", "string (2^16) v1.0"),
                           Field("at", "uint32 v1.0") >> ]
      @@ "texts v1.0" :> [ dataKind |-> "varCountArray",
                           countCodec |-> "uint16 v1.0",
                           itemCodec |-> "string (2^16) v1.0" ]
      @@ "uint16 v2.0" :> uint32_V1_0
      @@ "pair v1.0" :> FixedCount(<< Field("count", "uint16 (nullable) v1.0"),
                                      Field("price", "float16 (nullable) v1.0") >>)
      @@ "tick v1.0" :> FixedCount(<< Field("startedAt", "float64 (nullable) v1.0"),
                                      Field("phase", "uint16 (nullable) v1.0") >>)

MCMigratable(codec, from) == codec = "uint16 v2.0" /\ from = "uint16 v1.0"
MCMigrated(codec, value, from) == value + 16

-----------------------------------------------------------------------------
(* An entity's chunk.                                                      *)

\* 14 is the largest number that is not read as null, 20 and 9 do not fit,
\* and 5 is not a number of float16.
Chunk == INSTANCE EntityChunk WITH
  codec <- "item v1.0",
  Samples <- {1, 2},
  Values <- "phase v1.0" :> << [speed |-> Null, at |-> 14],
                               [speed |-> 5, at |-> 20] >>
              @@ "float16 (nullable) v1.0" :> << 5, Null >>
              @@ "int16 (nullable) v1.0" :> << -8, 9 >>

-----------------------------------------------------------------------------
(* Messages: the values around the limits of every codec.                  *)

Numbers == -9 .. 20
Texts == {"", "a", "BTC", "longest", "too long"}

Candle(name, price) ==
  [f \in FieldNames(name) |-> IF f = "price" THEN price ELSE Null]

\* The object with the first n names as fields.
Fields(n, text) == [f \in {Names[k] : k \in 1 .. n} |-> text]

\* The numbers whose bytes stand for null.
ReadAsNull(name) ==
  {n \in Numbers : \/ name = "uint16 (nullable) v1.0" /\ n % 16 = 15
                   \/ name = "int16 (nullable) v1.0" /\ n % 16 = 7}

MCValuesOf(name) ==
  LET definition == CODEC_DEFINITIONS[name]
  IN  CASE definition.dataKind = "primitive" ->
             IF definition.type = "uint"
               THEN Numbers \cup {255, 256}
               ELSE (Numbers \ ReadAsNull(name)) \cup {Null}
        [] definition.dataKind = "fixedCountArray" ->
             IF name = "item v1.0" THEN {}
               ELSE {Candle(name, price) : price \in {0, 3, Null}}
        [] definition.dataKind = "nullableTypedObject" ->
             {Null} \cup {Fields(n, text) : n \in 0 .. 15, text \in {"", "BTC"}}
               \cup {"marketName" :> text : text \in Texts}
               \cup {text :> "a" : text \in Texts}
        [] definition.dataKind = "varCountArray" ->
             {[k \in 1 .. n |-> "a"] : n \in 0 .. 16}
        [] definition.dataKind = "singleObject" ->
             {[name |-> text, at |-> n] : text \in Texts \ {"too long"},
                                          n \in {0, 255}}
        [] name = STRING_CODEC -> Texts
        [] OTHER ->
             {[serverId |-> s, clientId |-> c, data |-> Zeros(n)] :
                s \in {1, 255, 256}, c \in {1, 255, 256}, n \in 0 .. 1}

Messages == INSTANCE CodecMessages WITH ValuesOf <- MCValuesOf

-----------------------------------------------------------------------------
(* Releases with other entities, in another order, with a codec of a new   *)
(* version that migrates from the old one, and with one that does not.     *)

Ema(codec, empty) ==
  [kind |-> "indicators", name |-> "ema", codec |-> codec, empty |-> empty]
Pair == [ kind |-> "candles", name |-> "candle", codec |-> "pair v1.0",
          empty |-> [count |-> Null, price |-> 4] ]
Phase == [ kind |-> "indicators", name |-> "phase",
           codec |-> "int16 (nullable) v1.0", empty |-> Null ]

MCReleases ==
  { <<Pair, Ema("uint16 v1.0", 0)>>,
    <<Ema("uint16 v1.0", 0), Phase>>,
    <<Pair, Phase, Ema("uint16 v2.0", 3)>> }

Upgrades == INSTANCE SnapshotUpgrades WITH
  storage <- upgraded,
  marketName <- "BTC",
  Releases <- MCReleases,
  Samples <- {1, 2},
  Values <- "uint16 v1.0" :> <<7, 7>> @@ "uint16 v2.0" :> <<9, 9>>
              @@ "int16 (nullable) v1.0" :> <<-3, Null>>
              @@ "pair v1.0" :> << [count |-> 5, price |-> 8],
                                   [count |-> Null, price |-> Null] >>,
  MaxItems <- 2,
  MaxTime <- 3,
  MaxReleases <- 3

-----------------------------------------------------------------------------
(* Deltas of two levels and two entities; a delta can name three chunk     *)
(* sets.                                                                   *)

MCEntities ==
  << [kind |-> "candles", name |-> "candle", codec |-> "tick v1.0"],
     [kind |-> "indicators", name |-> "ema", codec |-> "uint16 (nullable) v1.0"] >>

MCValueAt(codec, time) ==
  IF codec = "tick v1.0" THEN [startedAt |-> time, phase |-> 3 + time]
                         ELSE 9 - time

MCSetAgain(codec, value) ==
  IF codec = "tick v1.0" THEN [startedAt |-> value.startedAt, phase |-> Null]
                         ELSE Null

Deltas == INSTANCE DeltaWire WITH
  Entities <- MCEntities,
  ValueAt <- MCValueAt,
  SetAgain <- MCSetAgain,
  marketName <- "BTC",
  clientId <- 6,
  MaxItems <- 4,
  MaxChanges <- 3,
  MaxDeleted <- 2,
  MaxSet <- 1,
  MaxTime <- 4

-----------------------------------------------------------------------------

Init ==
  /\ user \in {"chunk", "messages", "upgrades", "deltas"}
  /\ IF user = "chunk" THEN Chunk!Init ELSE chunk = Null /\ returned = Null
  /\ sent = Null /\ packet = Null /\ received = Null
  /\ IF user = "upgrades"
       THEN Upgrades!Init
       ELSE /\ entities = Null /\ upgraded = Null /\ saved = Null
            /\ started = Null /\ releases = Null /\ expected = Null
            /\ expectedSaved = Null
  /\ IF user = "deltas"
       THEN Deltas!Init
       ELSE /\ storage = Null /\ startParams = Null /\ structural = Null
            /\ changed = Null /\ replica = Null /\ flags = Null
            /\ refused = Null /\ thrown = Null

Next ==
  /\ UNCHANGED user
  /\ \/ user = "chunk" /\ Chunk!Next
        /\ UNCHANGED <<messageVars, upgradeVars, deltaVars>>
     \/ user = "messages" /\ Messages!Next
        /\ UNCHANGED <<chunkVars, upgradeVars, deltaVars>>
     \/ user = "upgrades" /\ Upgrades!Next
        /\ UNCHANGED <<chunkVars, messageVars, deltaVars>>
     \/ user = "deltas" /\ Deltas!Next
        /\ UNCHANGED <<chunkVars, messageVars, upgradeVars>>

Spec == Init /\ [][Next]_vars

-----------------------------------------------------------------------------

\* An entity's chunk reads as what the writes returned, by item and by field,
\* and no write changes bytes behind an equal value (writeByItemIndex).
ChunkFaithful ==
  /\ [](user = "chunk" => Chunk!TypeOK /\ Chunk!ReadsBack)
  /\ [][user = "chunk" /\ chunk' # chunk => returned' # returned]_vars

\* What a codec accepts arrives, and it refuses just what it could not hold
\* (encodeCodec, decodeCodec).
MessagesArrive ==
  user = "messages" =>
    Messages!TypeOK /\ Messages!Arrives /\ Messages!RefusesJustTheRest

\* Values survive snapshots and releases with other entities, and a release
\* starts on every snapshot it still understands and on no other
\* (prepareStoragesFromDatabase).
SnapshotsRestored ==
  /\ [](user = "upgrades" => Upgrades!TypeOK /\ Upgrades!ItemsSurvive)
  /\ [][user = "upgrades" /\ releases' > releases /\ saved # Null =>
          (started' <=> Upgrades!Compatible(entities'))]_vars

\* The replica has the server's items after every delta, throws on none, and
\* the server refuses none it could build (getBinaryDelta, applyDelta).
ReplicaEqual ==
  user = "deltas" =>
    /\ Deltas!TypeOK
    /\ Deltas!ReplicaEqual
    /\ Deltas!NeverThrows
    /\ Deltas!RefusesOnlyTooMany
=============================================================================
