---------------------------- MODULE TurnRegistry ----------------------------
(***************************************************************************)
(* LocalTurnRegistry of src/ceynex/api/turn_log.py: which turns a worker   *)
(* still holds, so that a reader can resume them and Stop can find them.   *)
(* A turn here is running until its log is closed (ChatTurn models what it *)
(* does until then); time is time.monotonic() in some unit.                *)
(***************************************************************************)
EXTENDS Integers, FiniteSets

CONSTANTS
  Turns,     \* request ids
  TTL,       \* TURN_TTL_S
  MaxTurns,  \* MAX_LOCAL_TURNS
  MaxTime    \* bound: time that passes

VARIABLES
  now,       \* time.monotonic(), from 1
  held,      \* the turns in the registry
  running,   \* the turns whose log is open
  finished   \* turn -> finished_at; 0 until then

vars == <<now, held, running, finished>>

Init ==
  /\ now = 1
  /\ held = {}
  /\ running = {}
  /\ finished = [t \in Turns |-> 0]

Expired == {t \in held \ running : now - finished[t] > TTL}

\* The n that finished first; turns that finished at once are in no known order.
Oldest(ts, n) ==
  {D \in SUBSET ts :
     /\ Cardinality(D) = IF n <= Cardinality(ts) THEN n ELSE Cardinality(ts)
     /\ \A d \in D, t \in ts \ D : finished[d] <= finished[t]}

Overflow(ts) == IF Cardinality(ts) > MaxTurns THEN Cardinality(ts) - MaxTurns ELSE 0

\* Mutant: the last to finish goes first.
Evict_Newest(kept) ==
  LET fresh == held \ Expired
  IN  \E D \in Oldest(fresh \ running, Cardinality(fresh \ running) - Overflow(fresh)) :
        kept = (fresh \cap running) \cup D

\* _evict leaves `kept': what finished too long ago goes, then, over the
\* ceiling, what finished first.  A running turn stays.
Evict(kept) ==
  LET fresh == held \ Expired
  IN  \E D \in Oldest(fresh \ running, Overflow(fresh)) : kept = fresh \ D

\* A request starts a turn: what is there is evicted before it is added.
Start(t) ==
  /\ t \notin held /\ t \notin running /\ finished[t] = 0
  /\ \E kept \in SUBSET held : Evict(kept) /\ held' = kept \cup {t}
  /\ running' = running \cup {t}
  /\ UNCHANGED <<now, finished>>

\* LocalTurn.append of `done', or LocalTurn.finish.
Finish(t) ==
  /\ t \in running
  /\ running' = running \ {t}
  /\ finished' = [finished EXCEPT ![t] = now]
  /\ UNCHANGED <<now, held>>

\* A resume or a Stop looks a turn up.
Get ==
  /\ \E kept \in SUBSET held : Evict(kept) /\ held' = kept
  /\ UNCHANGED <<now, running, finished>>

Tick ==
  /\ now < MaxTime
  /\ now' = now + 1
  /\ UNCHANGED <<held, running, finished>>

Next == Tick \/ Get \/ \E t \in Turns : Start(t) \/ Finish(t)

Spec == Init /\ [][Next]_vars

-----------------------------------------------------------------------------
\* Every variable has its type.
TypeOK ==
  /\ now \in 1..MaxTime
  /\ held \subseteq Turns
  /\ running \subseteq Turns
  /\ finished \in [Turns -> 0..MaxTime]

\* A turn whose task is at work can always be found: by the client that lost
\* its connection, and by Stop (turn_log.py:173-174).
RunningHeld == running \subseteq held

\* A finished turn that is still young is dropped only when the ceiling is
\* reached, and never before one that finished earlier: resuming a turn fails
\* for the oldest first (turn_log.py:173-182).
OldestFirst ==
  [][\A t \in held \ held' :
       now - finished[t] <= TTL =>
         /\ Cardinality(held) > MaxTurns
         /\ \A u \in held' \ running' : finished[t] <= finished[u]]_vars

\* What a call leaves behind: no more than the ceiling, or than what runs, and
\* the turn it started.
CeilingKept ==
  [][held' # held =>
       Cardinality(held') <=
         (IF Cardinality(running) > MaxTurns THEN Cardinality(running) ELSE MaxTurns)
           + Cardinality(held' \ held)]_vars
=============================================================================
