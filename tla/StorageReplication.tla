-------------------------- MODULE StorageReplication --------------------------
(***************************************************************************)
(* The replica of a market's storage in a browser.  The server answers a   *)
(* subscription with a snapshot, taken between ticks, and from then on     *)
(* sends the delta of every tick over the same socket; the client builds a *)
(* Storage from the snapshot and applies the deltas to it in order         *)
(* (applyDelta of src/app/src/shared/services/storage.ts, the read side of *)
(* codecs/definitions/delta-v1_0.ts, handleSnapshot and handleDelta of     *)
(* MarketStatisticsController.ts).                                         *)
(***************************************************************************)
EXTENDS TickAggregation

CONSTANT MaxChannel   \* bound on the messages on their way to the client

\* No replica and no exception are not numbers, as null is not.
ASSUME NullAssumption == Null \notin Nat

VARIABLES
  subscribed,   \* the server sends this client the market's deltas
  channel,      \* messages on their way to the client, in order
  replica,      \* the client's Storage, or Null
  thrown        \* what applying a message threw, or Null

clientVars == <<subscribed, channel, replica, thrown>>
vars == <<storage, phase, level, aggregated, deltaStart, structural, changed,
          now, accepted, subscribed, channel, replica, thrown>>

InitReplication ==
  /\ Init
  /\ subscribed = FALSE
  /\ channel = <<>>
  /\ replica = Null
  /\ thrown = Null

-----------------------------------------------------------------------------
(* Server.                                                                 *)

\* handleFullSyncRequest: the storage is not being processed, its snapshot is
\* sent and the deltas that follow will be.
Subscribe ==
  /\ ~ subscribed
  /\ phase = "idle"
  /\ subscribed' = TRUE
  /\ channel' = << [ type |-> "snapshot",
                     chunkSets |-> Snapshot(storage.chunkSets) ] >>
  /\ UNCHANGED <<aggregationVars, replica, thrown>>

\* The client unsubscribes: its controller forgets the storage and no longer
\* listens to what is still on its way.
Unsubscribe ==
  /\ subscribed
  /\ subscribed' = FALSE
  /\ channel' = <<>>
  /\ replica' = Null
  /\ thrown' = Null
  /\ UNCHANGED aggregationVars

SendDelta ==
  /\ EmitDelta
  /\ channel' = IF subscribed THEN Append(channel, BinaryDelta) ELSE channel
  /\ UNCHANGED <<subscribed, replica, thrown>>

\* A restarted server has no clients, and a client that reconnects starts
\* again from a snapshot.
RestartServer ==
  /\ Restart
  /\ subscribed' = FALSE
  /\ channel' = <<>>
  /\ replica' = Null
  /\ thrown' = Null

-----------------------------------------------------------------------------
(* Client.                                                                 *)

\* The places a delta writes to exist in the replica.
AddressesOK(st, entityChanges) ==
  \A c \in entityChanges :
    /\ c.chunkSetIndex \in DOMAIN st.chunkSets
    /\ c.startItemIndex < st.chunkSets[c.chunkSetIndex].size

\* The item a delta puts in a slot of a chunk set, or the one already there.
WrittenItem(st, entityChanges, i, slot) ==
  LET here == {c \in entityChanges :
                 /\ c.chunkSetIndex = i
                 /\ st.chunkSets[i].start + c.startItemIndex = slot}
  IN  IF here = {} THEN st.chunkSets[i].items[slot]
                   ELSE (CHOOSE c \in here : TRUE).item

WriteItems(st, entityChanges) ==
  [i \in DOMAIN st.chunkSets |->
     [st.chunkSets[i] EXCEPT !.items =
        [slot \in Slots |-> WrittenItem(st, entityChanges, i, slot)]]]

\* The first check of a delta that fails, in the order the decoder makes
\* them, or Null.
DeltaError(st, delta) ==
  LET after == Structures(st, delta.structuralChanges)
                 [Len(delta.structuralChanges)]
  IN  CASE Params(st) # delta.startParams -> "start params mismatch"
        [] /\ Params(st) = delta.startParams
           /\ ~ StructuralChangesOK(st, delta.structuralChanges)
             -> "structural change"
        [] /\ Params(st) = delta.startParams
           /\ StructuralChangesOK(st, delta.structuralChanges)
           /\ Params(after) # delta.endParams
             -> "end params mismatch"
        [] /\ Params(st) = delta.startParams
           /\ StructuralChangesOK(st, delta.structuralChanges)
           /\ Params(after) = delta.endParams
           /\ ~ AddressesOK(after, delta.entityChanges)
             -> "out of range"
        [] OTHER -> Null

ApplyDelta(st, delta) ==
  LET after == Structures(st, delta.structuralChanges)
                 [Len(delta.structuralChanges)]
  IN  RebuildIndexMetadata(WriteItems(after, delta.entityChanges))

\* applySnapshot into a new Storage; what it throws leaves the controller
\* with the storage it had, which is none.
ReceiveSnapshot ==
  /\ channel # <<>>
  /\ thrown = Null
  /\ Head(channel).type = "snapshot"
  /\ channel' = Tail(channel)
  /\ IF SnapshotOK(Head(channel).chunkSets)
       THEN /\ replica' = FromSnapshot(Head(channel).chunkSets)
            /\ UNCHANGED thrown
       ELSE /\ thrown' = "invalid snapshot"
            /\ UNCHANGED replica
  /\ UNCHANGED <<aggregationVars, subscribed>>

\* applyDelta; after an exception the replica is of no use.
ReceiveDelta ==
  /\ channel # <<>>
  /\ thrown = Null
  /\ Head(channel).type = "delta"
  /\ channel' = Tail(channel)
  /\ LET error == DeltaError(replica, Head(channel))
     IN  IF error = Null
           THEN /\ replica' = ApplyDelta(replica, Head(channel))
                /\ UNCHANGED thrown
           ELSE /\ thrown' = error
                /\ UNCHANGED replica
  /\ UNCHANGED <<aggregationVars, subscribed>>

-----------------------------------------------------------------------------

ServerTick ==
  \/ Len(channel) < MaxChannel /\ \E gap \in Gaps : ReceiveTick(gap)
  \/ RecalculateNothing
  \/ \E i \in 0 .. Size(storage) - 1 : RecalculateItem(i)
  \/ AggregateBucket
  \/ NextLevel
  \/ TrimMaxLevel

NextReplication ==
  \/ ServerTick /\ UNCHANGED clientVars
  \/ SendDelta
  \/ RestartServer
  \/ Subscribe
  \/ Unsubscribe
  \/ ReceiveSnapshot
  \/ ReceiveDelta

SpecReplication == InitReplication /\ [][NextReplication]_vars

-----------------------------------------------------------------------------

\* What a reader of a storage sees: the items in order and where the levels
\* start.
View(st) == [items |-> Items(st), boundaries |-> st.boundaries]

\* No snapshot or delta the server sends makes the client throw: the params
\* match and every address a delta writes to exists in the replica.
NeverThrows == thrown = Null

\* A client that has applied all it was sent sees what the server has after
\* its last tick, however chunk sets, deletions, aggregation and the moment
\* of the snapshot have fallen together.
ReplicaFollows ==
  /\ NeverThrows
  /\ (replica # Null /\ channel = <<>> /\ phase = "idle")
       => View(replica) = View(storage)

\* A delta flagged append-only changes nothing the client has already drawn:
\* it adds one item after the others.
AppendOnlyAppends ==
  [][(ReceiveDelta /\ Head(channel).appendOnly /\ thrown' = Null) =>
        /\ Front(Items(replica')) = Items(replica)
        /\ replica'.boundaries = replica.boundaries]_vars

\* What ReplicaFollows asks of a configuration: full levels hold enough to make
\* an item of the level above and to keep a chunk set full of items.  Ticks come
\* g apart or more, and as many of them, or as many items of a higher level, as
\* a full level can spare last as long as an item of the level above should.
BucketsFit(g) ==
  /\ g \in Nat \ {0}
  /\ \A gap \in Gaps : gap = 0 \/ g <= gap
  /\ STORAGE_CHUNK_CAPACITY <= MaxCount[MaxLevel]
  /\ \A l \in Levels \ {MaxLevel} :
       LET n == MaxCount[l] - STORAGE_CHUNK_CAPACITY
       IN  /\ n >= 1
           /\ Duration[l + 1] <= IF l = 0 THEN (n - 1) * g
                                          ELSE ((n - 1) \div 2) * Duration[l]
=============================================================================
