------------------------------ MODULE EntityChunk ------------------------------
(***************************************************************************)
(* One chunk of an entity: STORAGE_CHUNK_CAPACITY items of a codec of a    *)
(* fixed size in one array buffer, which the entity's LazyArray reads and  *)
(* writes by item and by field (readByItemIndex and writeByItemIndex of    *)
(* buildFixedCountArrayCodec and of its fields,                            *)
(* src/app/src/shared/utilities/codecs/codecs.ts).  LazyArray caches what  *)
(* a write returns and never reads that value back, while the replica and  *)
(* the snapshot have only the bytes: the two must tell the same story.     *)
(***************************************************************************)
EXTENDS EntityCodecs

CONSTANTS
  codec,    \* the codec of the entity
  Samples,  \* the numbers of the values a field may get
  Values    \* those values, per codec of a field

VARIABLES
  chunk,    \* the bytes
  returned  \* per item: its value as the writes so far returned it

vars == <<chunk, returned>>

FieldCodec(fieldName) ==
  Definition(codec).fieldSet[FieldIndex(codec, fieldName)].codec

Sample(fieldName, n) == Values[FieldCodec(fieldName)][n]

Init ==
  /\ chunk = Zeros(STORAGE_CHUNK_CAPACITY * SizeOf(codec))
  /\ returned = [i \in Slots |-> ReadItem(codec, i, chunk)]

\* writeByItemIndex of the codec.
SetWholeItem(i, n) ==
  LET written == WriteItem(codec, i, chunk,
                           [f \in FieldNames(codec) |-> Sample(f, n)])
  IN  /\ chunk' = written.view
      /\ returned' = [returned EXCEPT ![i] = written.value]

\* writeByItemIndex of a field; the cached item gets what it returns.
SetField(i, fieldName, n) ==
  LET written == WriteField(codec, fieldName, i, chunk, Sample(fieldName, n))
  IN  /\ chunk' = written.view
      /\ returned' = [returned EXCEPT ![i][fieldName] = written.value]

Next ==
  \E i \in Slots, n \in Samples :
    \/ SetWholeItem(i, n)
    \/ \E fieldName \in FieldNames(codec) : SetField(i, fieldName, n)

Spec == Init /\ [][Next]_vars

-----------------------------------------------------------------------------

TypeOK ==
  /\ Len(chunk) = STORAGE_CHUNK_CAPACITY * SizeOf(codec)
  /\ \A i \in Slots : Holds(codec, returned[i])

\* Whatever was written by item and by field, in whatever order, the bytes of
\* every item and of every field read as what the last write of it returned:
\* no write reaches the bytes of another field or item.
ReadsBack ==
  \A i \in Slots :
    /\ ReadItem(codec, i, chunk) = returned[i]
    /\ \A f \in FieldNames(codec) :
         ReadField(codec, f, i, chunk) = returned[i][f]
===============================================================================
