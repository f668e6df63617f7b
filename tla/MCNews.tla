------------------------------- MODULE MCNews -------------------------------
(***************************************************************************)
(* Small instances of NewsRefresh and OutboundGate for TLC.  The two share *)
(* no state: a behaviour of this module is a behaviour of one of them,     *)
(* with the other at rest.                                                 *)
(***************************************************************************)
EXTENDS NewsRefresh, TLC

CONSTANTS
  t1, t2, s1, s2, c1, c2, p1,
  Callers, Processes, ProcessOf, Spacing, Penalty, MaxWait, Attempts

\* A penalty shorter than the interval would shorten a live gate: the repository ships
\* 60 s and 20 s, and checks neither against the other.
ASSUME GateAssumption ==
  /\ ProcessOf \in [Callers -> Processes] /\ Nobody \notin Callers
  /\ Spacing \in Nat /\ Penalty \in Nat /\ Spacing <= Penalty
  /\ MaxWait \in Nat /\ Attempts \in Nat \ {0}

VARIABLES part, backend, gatePc, tries, budget, gate, allowed, holder, quiet, barred

TwoScopes == <<s1, s2>>
TwoTopics == <<t1, t2>>
OneEach == t1 :> s1 @@ t2 :> s2
TwoOnOne == c1 :> p1 @@ c2 :> p1

Gate == INSTANCE OutboundGate WITH
  pc <- gatePc, Interval <- Spacing

gateVars == <<backend, gatePc, tries, budget, gate, allowed, holder, quiet, barred>>

MCInit ==
  /\ part \in {"refresh", "gate"}
  /\ Init /\ Gate!Init
  /\ part = "refresh" => backend = "redis"

MCNext ==
  /\ part' = part
  /\ \/ part = "refresh" /\ Next /\ UNCHANGED gateVars
     \/ part = "gate" /\ Gate!Next /\ UNCHANGED vars

\* At rest the gate has no step that fairness could ask for; the refresher has.
MCSpec ==
  /\ MCInit /\ [][MCNext]_<<part, vars, gateVars>>
  /\ WF_vars(Tick) /\ \A w \in Workers : WF_vars(part = "refresh" /\ Step(w))
  /\ Gate!Fair

\* TypeOK of both, OneRefresher and HonestPanel of the refresher: who refreshes while the
\* lease is kept, and that a panel which lost topics says so.
PanelsKept == TypeOK /\ Gate!TypeOK /\ OneRefresher /\ HonestPanel
\* Spaced and PenaltyHeld of the gate: one slot per interval, and none while a recorded
\* penalty lasts.
GateKept == Gate!Spaced /\ Gate!PenaltyHeld
\* EveryRequestEnds of the gate: a request is answered or given up.
EveryRequestEnds == Gate!EveryRequestEnds
\* Refreshed of the refresher, in the behaviours that are its own.
PanelsRefreshed ==
  \A s \in Elems(Scopes) :
    part = "refresh" /\ panel[s].age >= Interval ~> panel[s].age = 0
=============================================================================
