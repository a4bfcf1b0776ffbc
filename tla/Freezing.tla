------------------------------ MODULE Freezing ------------------------------
(***************************************************************************)
(* src/app/src/server/utilities/freezing.ts for one key.  A status is Null *)
(* as long as the key has never been cooled.  Everyone who needs a market  *)
(* at rest lowers its temperature for as long as that takes; who processes *)
(* a tick ices it too.  When the temperature is back at zero the owner is  *)
(* told, so the operators below only give the status and say when the code *)
(* would throw.                                                            *)
(***************************************************************************)
EXTENDS Integers

CONSTANT Null

ASSUME NullAssumption ==
  Null \notin [temperature : Int, isFrozen : BOOLEAN]

AtRest == [temperature |-> 0, isFrozen |-> FALSE]

Seen(status) == IF status = Null THEN AtRest ELSE status

Cool(status) ==
  [ temperature |-> Seen(status).temperature - 1,
    isFrozen    |-> Seen(status).isFrozen ]

CoolAndIce(status) ==
  [temperature |-> Seen(status).temperature - 1, isFrozen |-> TRUE]

Warm(status) ==
  [temperature |-> status.temperature + 1, isFrozen |-> status.isFrozen]

WarmAndMeltIce(status) ==
  [temperature |-> status.temperature + 1, isFrozen |-> FALSE]

\* Both answers are null for an unseen key, which callers take for no.
IsCold(status) == status # Null /\ status.temperature < 0

IsIcy(status) == status # Null /\ status.isFrozen

\* validateWarming throws: the key is unknown or warm already.
CannotWarm(status) == status = Null \/ status.temperature >= 0

\* warm throws: it would bring the key to zero with the ice still on it.
WarmsThroughIce(status) == ~ IsCold(Warm(status)) /\ status.isFrozen
=============================================================================
