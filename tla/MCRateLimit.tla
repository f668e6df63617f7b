---------------------------- MODULE MCRateLimit ----------------------------
(***************************************************************************)
(* Small instances of RateLimit and TurnRegistry, the two structures of a  *)
(* worker's memory that a restart empties, for TLC.  They share no state:  *)
(* a behaviour of this module is one of either, with the other at rest.    *)
(***************************************************************************)
EXTENDS RateLimit

CONSTANTS Turns, TTL, MaxTurns, MaxTime

ASSUME RegistryAssumption ==
  TTL \in Nat /\ MaxTurns \in Nat /\ MaxTime \in Nat \ {0}

VARIABLES limitPart, now, registered, running, finished

Registry == INSTANCE TurnRegistry WITH held <- registered

registryVars == <<now, registered, running, finished>>

LimitsInit ==
  /\ limitPart \in {"limit", "registry"}
  /\ LimitInit /\ Registry!Init

LimitsNext ==
  /\ limitPart' = limitPart
  /\ \/ limitPart = "limit" /\ LimitNext /\ UNCHANGED registryVars
     \/ limitPart = "registry" /\ Registry!Next /\ UNCHANGED limitVars

LimitsSpec == LimitsInit /\ [][LimitsNext]_<<limitPart, limitVars, registryVars>>

\* TypeOK of both.
TypesKept == LimitTypeOK /\ Registry!TypeOK

\* RunningHeld, OldestFirst and CeilingKept of the registry: a turn at work can be found,
\* the finished ones go when they must, the oldest first, and no more is left than must be.
RegistryKept == [](Registry!RunningHeld) /\ Registry!OldestFirst /\ Registry!CeilingKept
=============================================================================
