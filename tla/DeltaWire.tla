------------------------------- MODULE DeltaWire -------------------------------
(***************************************************************************)
(* The storage of a market and its replica in a browser, with what passes  *)
(* between them as bytes: the server packs the delta of a tick in an       *)
(* entire binary and that in a packet of the frontend WebSocket            *)
(* (getBinaryDelta and applyDelta of                                       *)
(* src/app/src/shared/services/storage.ts, sendBinary of                   *)
(* server/services/frontend-ws.ts, handleBinaryMessage of                  *)
(* client/src/controllers/FrontendWsController.ts).                        *)
(*                                                                         *)
(* A tick adds its item, then aggregates, trims and sets values as it      *)
(* likes: the codec has to carry whatever aggregation makes of it.         *)
(***************************************************************************)
EXTENDS Codecs

CONSTANTS
  Entities,     \* the sequence of registered entities
  ValueAt(_, _),   \* the value of a codec an item of some time is added with
  SetAgain(_, _),  \* what a value may be set to later
  marketName,
  clientId,     \* the client's id of its subscription
  MaxItems,     \* bound on the items in the storage
  MaxChanges,   \* bound on the structural changes of one delta
  MaxDeleted,   \* bound on the items one structural change deletes
  MaxSet,       \* bound on the values in the storage set after their addition
  MaxTime       \* bound on the clock, which ticks once per addition

VARIABLES
  storage,      \* the server's storage
  startParams,  \* deltaStartParams
  structural,   \* structuralChanges
  changed,      \* cumulativeChanges of every entity: flat indexes
  replica,      \* the storage of the client
  flags,        \* the flags of the last delta
  refused,      \* the server refused to build the last delta
  thrown        \* the client threw

vars == <<storage, startParams, structural, changed, replica, flags, refused,
          thrown>>

NoChanges == [key \in Keys(Entities) |-> {}]

Init ==
  /\ storage = EmptyStorage
  /\ startParams = Params(EmptyStorage)
  /\ structural = <<>>
  /\ changed = NoChanges
  /\ replica = EmptyStorage
  /\ flags = Null
  /\ refused = FALSE
  /\ thrown = FALSE

Running == ~ refused /\ ~ thrown

CodecOf(key) == EntityOf(key, Entities).codec

Written(key, value) ==
  WriteItem(CodecOf(key), 0, Zeros(SizeOf(CodecOf(key))), value).value

ItemOf(time) ==
  [key \in Keys(Entities) |-> Written(key, ValueAt(CodecOf(key), time))]

SetTo(key, f) ==
  Written(key, SetAgain(CodecOf(key), GetItem(storage, f)[key]))

SetLater == {<<key, f>> \in Keys(Entities) \X (0 .. Size(storage) - 1) :
               GetItem(storage, f)[key] = SetTo(key, f)}

\* The candles are the first entity.
At(f) == GetItem(storage, f)[Key(Entities[1])].startedAt

ShiftUp(s, at) == {IF f < at THEN f ELSE f + 1 : f \in s} \cup {at}

ShiftDown(s, from, count) ==
  {IF f < from THEN f ELSE f - count :
     f \in {g \in s : g < from \/ g >= from + count}}

Structural(changes, st, moved) ==
  /\ Running
  /\ Len(structural) + Len(changes) <= MaxChanges
  /\ storage' = st
  /\ structural' = structural \o changes
  /\ changed' = moved
  /\ UNCHANGED <<startParams, replica, flags, refused, thrown>>

\* A tick begins: its item is added to level 0.
AddTick ==
  LET time == IF EndedAt(storage) = Null THEN 1 ELSE EndedAt(storage) + 1
  IN  /\ structural = <<>>
      /\ Size(storage) < MaxItems
      /\ time <= MaxTime
      /\ Structural(<<AddChange(0, time, time)>>,
                    AddItem(storage, 0, time, time, ItemOf(time)),
                    [key \in Keys(Entities) |->
                       ShiftUp(changed[key], Size(storage))])

\* A tick ends with the trimming.
InTick == structural # <<>> /\ Last(structural).type = "addItem"

NewStart(l, count) ==
  IF count < LevelSize(storage, l)
    THEN At(storage.boundaries[l] + count) ELSE Null

\* The first items of level 0 become one item of level 1.
Aggregate(count) ==
  LET start     == storage.boundaries[0]
      from      == At(start)
      to        == At(start + count - 1)
      remaining == DeleteNItems(storage, 0, count, NewStart(0, count))
  IN  /\ InTick
      /\ count <= LevelSize(storage, 0)
      /\ Structural(<<DeleteChange(0, count, NewStart(0, count)),
                      AddChange(1, from, to)>>,
                    AddItem(remaining, 1, from, to, ItemOf(from)),
                    [key \in Keys(Entities) |->
                       ShiftUp(ShiftDown(changed[key], start, count), start)])

\* The oldest items leave the storage.
Trim(count) ==
  /\ InTick
  /\ count <= LevelSize(storage, 1)
  /\ Structural(<<DeleteChange(1, count, NewStart(1, count))>>,
                DeleteNItems(storage, 1, count, NewStart(1, count)),
                [key \in Keys(Entities) |-> ShiftDown(changed[key], 0, count)])

\* A value is calculated anew; one that is equal changes nothing.
SetValue(key, f) ==
  /\ GetItem(storage, f)[key] # SetTo(key, f)
  /\ storage' = SetItem(storage, f, [GetItem(storage, f) EXCEPT
                                       ![key] = SetTo(key, f)])
  /\ changed' = [changed EXCEPT ![key] = @ \cup {f}]
  /\ UNCHANGED <<startParams, structural, replica, flags, refused, thrown>>

SetValues ==
  /\ Running
  /\ InTick
  /\ Cardinality(SetLater) < MaxSet
  /\ \E key \in Keys(Entities), f \in 0 .. Size(storage) - 1 : SetValue(key, f)

\* isStructuralDeltaAppendOnly and the check of every interval.
AppendOnly ==
  /\ Size(storage) = startParams.size + 1
  /\ Len(structural) = 1
  /\ structural[1].type = "addItem"
  /\ structural[1].level = 0
  /\ \A key \in Keys(Entities) : changed[key] \subseteq {Size(storage) - 1}

Delta ==
  [ flags             |-> IF AppendOnly THEN 1 ELSE 0,
    startParams       |-> startParams,
    endParams         |-> Params(storage),
    structuralChanges |-> structural,
    entityChanges     |-> EntityChanges(storage, changed, Entities) ]

BinaryDelta ==
  EncodeEntireBinary(
    [ codecName  |-> "delta v1.0",
      binaryKind |-> "delta",
      parameters |-> "marketName" :> marketName,
      data       |-> Delta ],
    [entities |-> Entities, storage |-> storage])

\* sendBinary wraps a binary for one client.
Packet(data) ==
  LET value == [serverId |-> 1, clientId |-> clientId, data |-> data]
  IN  PutTransport(StartWriting(0, Zeros(TransportSize(value))), value).view

\* The controller finds the subscription by the client's id, and the market
\* by the parameters.
Received(packet) ==
  LET here == [entities |-> Entities, storage |-> replica]
      OfMarket(outer) ==
        IF /\ outer.binaryKind = "delta"
           /\ outer.parameters = "marketName" :> marketName
          THEN DecodeCodec(outer.codecName, outer.data, here)
          ELSE Thrown
      OfClient(transport) ==
        IF transport.value.clientId = clientId
          THEN AndThen(DecodeEntireBinary(transport.value.data), OfMarket)
          ELSE Thrown
  IN  AndThen(ReadTransport(packet, 0), OfClient)

Apply(result) ==
  IF result.ok
    THEN /\ replica' = result.value.storage
         /\ flags' = result.value.flags
         /\ UNCHANGED <<refused, thrown>>
    ELSE /\ thrown' = TRUE
         /\ UNCHANGED <<replica, flags, refused>>

Deliver(binary) ==
  IF binary.ok
    THEN Apply(Received(Packet(binary.data)))
    ELSE /\ refused' = TRUE
         /\ UNCHANGED <<replica, flags, thrown>>

\* The end of a tick: the delta is built, sent and applied.
SendDelta ==
  /\ Running
  /\ structural # <<>>
  /\ startParams' = Params(storage)
  /\ structural' = <<>>
  /\ changed' = NoChanges
  /\ UNCHANGED storage
  /\ Deliver(BinaryDelta)

Next ==
  \/ AddTick
  \/ \E count \in 1 .. MaxDeleted : Aggregate(count) \/ Trim(count)
  \/ SetValues
  \/ SendDelta

Spec == Init /\ [][Next]_vars

-----------------------------------------------------------------------------

TypeOK ==
  /\ \A i \in DOMAIN storage.chunkSets : GeometryOK(storage.chunkSets[i])
  /\ \A i \in DOMAIN replica.chunkSets : GeometryOK(replica.chunkSets[i])
  /\ flags \in {Null, 0, 1}
  /\ \A key \in Keys(Entities) : changed[key] \subseteq 0 .. Size(storage) - 1

\* After every delta the replica has the server's items, level by level:
\* none of the entities' bytes ends up in another slot, chunk set or entity,
\* and no header field of the format has lost digits.
ReplicaEqual ==
  structural = <<>> /\ Running
    => /\ Items(replica) = Items(storage)
       /\ replica.boundaries = storage.boundaries

\* The client can always read what the server was willing to write.
NeverThrows == ~ thrown

\* The server refuses just the deltas of storages with more chunk sets than
\* an address in a delta can name.
RefusesOnlyTooMany ==
  refused => Len(storage.chunkSets) > MaxUint(UINT8_SIZE)
=============================================================================
