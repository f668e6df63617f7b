----------------------------- MODULE MCChatTurn -----------------------------
(* Small instances of ChatTurn for TLC. *)
EXTENDS ChatTurn, FiniteSets

CONSTANTS
  MaxTrouble,   \* bound: dropped connections, Stops and crashes together
  MaxMissed     \* bound: frames the mirror never got

Missed == Cardinality({n \in 1..(Len(frames) - 1) : Mirrored /\ n \notin mirror})

MCNext ==
  /\ Next
  /\ drops' + stops' + (IF Alive' THEN 0 ELSE 1) <= MaxTrouble
  /\ Missed' <= MaxMissed

MCSpec == Init /\ [][MCNext]_vars

MCFairSpec == MCSpec /\ Fairness
=============================================================================
