----------------------------- MODULE LevelQueues -----------------------------
(***************************************************************************)
(* What a Storage promises its callers: a queue of items per level, that   *)
(* grows at its end, is consumed from its front and whose items can be     *)
(* rewritten in place.  Chunk sets, flat indexes, snapshots and their      *)
(* caches are not visible here.                                            *)
(***************************************************************************)
EXTENDS Integers, Sequences

CONSTANTS Levels, Item

VARIABLE queues

Init == queues = [l \in Levels |-> <<>>]

Add(level, item) ==
  queues' = [queues EXCEPT ![level] = Append(@, item)]

\* The first count items of a level go.
Consume(level, count) ==
  /\ count <= Len(queues[level])
  /\ queues' = [queues EXCEPT ![level] = SubSeq(@, count + 1, Len(@))]

Rewrite(level, i, item) ==
  queues' = [queues EXCEPT ![level][i] = item]

Next ==
  \/ \E level \in Levels, item \in Item : Add(level, item)
  \/ \E level \in Levels :
       \E count \in 1 .. Len(queues[level]) : Consume(level, count)
  \/ \E level \in Levels :
       \E i \in 1 .. Len(queues[level]), item \in Item : Rewrite(level, i, item)

Spec == Init /\ [][Next]_queues
=============================================================================
