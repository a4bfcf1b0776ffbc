--------------------------- MODULE StructuralChanges ---------------------------
(***************************************************************************)
(* What a delta says about the structure of a storage                      *)
(* (src/app/src/shared/types/storage-delta.ts): the params before and      *)
(* after, and the additions and deletions between them, which              *)
(* applyStructuralChanges of services/storage.ts repeats in a replica.     *)
(***************************************************************************)
EXTENDS StorageStructure

Params(st) ==
  [size |-> Size(st), startedAt |-> StartedAt(st), endedAt |-> EndedAt(st)]

AddChange(l, startedAt, endedAt) ==
  [ type |-> "addItem", level |-> l, startedAt |-> startedAt,
    endedAt |-> endedAt ]

DeleteChange(l, count, newStartedAt) ==
  [ type |-> "deleteItems", level |-> l, count |-> count,
    newStartedAt |-> newStartedAt ]

ApplyStructuralChange(st, change) ==
  IF change.type = "addItem"
    THEN AddItemStructure(st, change.level, change.startedAt, change.endedAt)
    ELSE DeleteNItems(st, change.level, change.count, change.newStartedAt)

\* The storages after 0, 1, ... structural changes.
Structures(st, changes) ==
  LET after[n \in 0 .. Len(changes)] ==
        IF n = 0 THEN st ELSE ApplyStructuralChange(after[n - 1], changes[n])
  IN  after

StructuralChangesOK(st, changes) ==
  LET after == Structures(st, changes)
  IN  \A n \in 1 .. Len(changes) :
        changes[n].type = "deleteItems" =>
          CanDelete(after[n - 1], changes[n].level, changes[n].count,
                    changes[n].newStartedAt)
=============================================================================
