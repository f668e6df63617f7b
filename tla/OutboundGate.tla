---------------------------- MODULE OutboundGate ----------------------------
(***************************************************************************)
(* The gate in front of GDELT (src/ceynex/news/throttle.py) and the client *)
(* that passes it before every attempt (src/ceynex/news/gdelt.py).  With   *)
(* Redis the gate is one key for all the workers, set NX with a lifetime;  *)
(* without it each process keeps a lock and the time of the next call.     *)
(* A caller is one request of GdeltClient; times are countdowns in ticks.  *)
(***************************************************************************)
EXTENDS Integers, FiniteSets

CONSTANTS
  Callers,     \* requests for data
  Processes,
  ProcessOf,   \* caller -> the process that makes it
  Interval,    \* min_interval_s
  Penalty,     \* RATE_LIMIT_PENALTY_S
  MaxWait,     \* DEFAULT_MAX_WAIT_S
  Attempts     \* attempts of one request

Nobody == "nobody"

VARIABLES
  backend,   \* "redis" or "process": what build_throttle chose
  pc,        \* caller -> where it is
  tries,     \* caller -> attempts left
  budget,    \* caller -> what is left of max_wait_s for this acquire
  gate,      \* what the Redis key has left to live
  allowed,   \* process -> InProcessThrottle._next_allowed, from now
  holder,    \* process -> who holds InProcessThrottle._lock
  quiet,     \* history, process -> ticks until a slot may follow the last one
  barred     \* history, process -> ticks left of a penalty that was recorded

vars == <<backend, pc, tries, budget, gate, allowed, holder, quiet, barred>>

PCs == {"idle", "wait", "sleep", "granted", "open", "penalise", "backoff", "done", "failed"}
Resting == {"idle", "done", "failed"}
Longest == IF Penalty > Interval THEN Penalty ELSE Interval

TypeOK ==
  /\ backend \in {"redis", "process"}
  /\ pc \in [Callers -> PCs] /\ tries \in [Callers -> 0..Attempts]
  /\ budget \in [Callers -> 0..MaxWait]
  /\ gate \in 0..Longest /\ allowed \in [Processes -> 0..Longest]
  /\ holder \in [Processes -> Callers \cup {Nobody}]
  /\ \A p \in Processes : holder[p] # Nobody => pc[holder[p]] = "sleep"
  /\ quiet \in [Processes -> 0..Interval] /\ barred \in [Processes -> 0..Penalty]

Init ==
  /\ backend \in {"redis", "process"}
  /\ pc = [c \in Callers |-> "idle"] /\ tries = [c \in Callers |-> 0]
  /\ budget = [c \in Callers |-> 0]
  /\ gate = 0 /\ allowed = [p \in Processes |-> 0]
  /\ holder = [p \in Processes |-> Nobody]
  /\ quiet = [p \in Processes |-> 0] /\ barred = [p \in Processes |-> 0]

Goto(c, next) == pc' = [pc EXCEPT ![c] = next]
Mine(c) == ProcessOf[c]
\* The processes one gate is shared by.
Shares(c) == IF backend = "redis" THEN Processes ELSE {Mine(c)}
Slot(c) == quiet' = [p \in Processes |-> IF p \in Shares(c) THEN Interval ELSE quiet[p]]
gates == <<gate, allowed, holder>>
history == <<quiet, barred>>

\* A response in the cache needs no slot.
Request(c) ==
  /\ pc[c] \in Resting
  /\ tries' = [tries EXCEPT ![c] = Attempts]
  /\ \/ Goto(c, "done") /\ UNCHANGED budget
     \/ Goto(c, "wait") /\ budget' = [budget EXCEPT ![c] = MaxWait]
  /\ UNCHANGED <<backend, gates, history>>

\* Mutant: each poll starts the budget again.
SetNX_Patient(c) ==
  /\ backend = "redis" /\ pc[c] = "wait"
  /\ gate = 0 /\ gate' = Interval /\ Goto(c, "granted") /\ Slot(c)
  /\ UNCHANGED <<backend, tries, budget, allowed, holder, barred>>

\* SET gate token NX PX interval, polled until the budget is spent.
SetNX(c) ==
  /\ backend = "redis" /\ pc[c] = "wait"
  /\ \/ gate = 0 /\ gate' = Interval /\ Goto(c, "granted") /\ Slot(c)
     \/ gate > 0 /\ budget[c] = 0 /\ Goto(c, "failed") /\ UNCHANGED <<gate, quiet>>
  /\ UNCHANGED <<backend, tries, budget, allowed, holder, barred>>

\* Redis is away: the call is let through.
FailOpen(c) ==
  /\ backend = "redis" /\ pc[c] = "wait"
  /\ Goto(c, "open")
  /\ UNCHANGED <<backend, tries, budget, gates, history>>

\* The process's lock: taken, or not within the budget.
TakeLock(c) ==
  /\ backend = "process" /\ pc[c] = "wait"
  /\ \/ /\ holder[Mine(c)] = Nobody /\ allowed[Mine(c)] <= budget[c]
        /\ holder' = [holder EXCEPT ![Mine(c)] = c] /\ Goto(c, "sleep")
     \/ /\ holder[Mine(c)] = Nobody /\ allowed[Mine(c)] > budget[c]
        /\ Goto(c, "failed") /\ UNCHANGED holder
     \/ budget[c] = 0 /\ Goto(c, "failed") /\ UNCHANGED holder
  /\ UNCHANGED <<backend, tries, budget, gate, allowed, history>>

\* The sleep under the lock is over; the next slot is counted from here.
Granted(c) ==
  /\ backend = "process" /\ pc[c] = "sleep" /\ allowed[Mine(c)] = 0
  /\ allowed' = [allowed EXCEPT ![Mine(c)] = Interval]
  /\ holder' = [holder EXCEPT ![Mine(c)] = Nobody]
  /\ Goto(c, "granted") /\ Slot(c)
  /\ UNCHANGED <<backend, tries, budget, gate, barred>>

\* The GET: an answer (whose body may not be JSON), a 429, or an error.
Call(c) ==
  /\ pc[c] \in {"granted", "open"}
  /\ \/ \E end \in {"done", "failed", "penalise"} : Goto(c, end) /\ UNCHANGED tries
     \/ /\ tries' = [tries EXCEPT ![c] = @ - 1]
        /\ Goto(c, IF tries[c] = 1 THEN "failed" ELSE "backoff")
  /\ UNCHANGED <<backend, budget, gates, history>>

Retry(c) ==
  /\ pc[c] = "backoff" /\ Goto(c, "wait")
  /\ budget' = [budget EXCEPT ![c] = MaxWait]
  /\ UNCHANGED <<backend, tries, gates, history>>

Barred(c) == barred' = [p \in Processes |-> IF p \in Shares(c) THEN Penalty ELSE barred[p]]
Later(a, b) == IF a > b THEN a ELSE b

\* Mutant: the penalty does not replace a live gate.
PenaliseRedis_NX(c) ==
  /\ backend = "redis" /\ pc[c] = "penalise" /\ Goto(c, "failed")
  /\ gate' = IF gate = 0 THEN Penalty ELSE gate
  /\ Barred(c) /\ UNCHANGED <<backend, tries, budget, allowed, holder, quiet>>

\* RedisThrottle.penalise: SET without NX, over whatever gate is there.
PenaliseRedis(c) ==
  /\ backend = "redis" /\ pc[c] = "penalise"
  /\ Goto(c, "failed")
  /\ \/ gate' = Penalty /\ Barred(c)
     \/ UNCHANGED <<gate, barred>>
  /\ UNCHANGED <<backend, tries, budget, allowed, holder, quiet>>

\* InProcessThrottle.penalise: under the lock, and never shortening a wait.
PenaliseLocal(c) ==
  /\ backend = "process" /\ pc[c] = "penalise" /\ holder[Mine(c)] = Nobody
  /\ allowed' = [allowed EXCEPT ![Mine(c)] = Later(@, Penalty)]
  /\ Goto(c, "failed") /\ Barred(c)
  /\ UNCHANGED <<backend, tries, budget, gate, holder, quiet>>

Down(n) == IF n = 0 THEN 0 ELSE n - 1
DownAll(f) == [x \in DOMAIN f |-> Down(f[x])]

Tick ==
  /\ gate' = Down(gate) /\ allowed' = DownAll(allowed) /\ budget' = DownAll(budget)
  /\ quiet' = DownAll(quiet) /\ barred' = DownAll(barred)
  /\ UNCHANGED <<backend, pc, tries, holder>>

Wait(c) == SetNX(c) \/ FailOpen(c) \/ TakeLock(c) \/ Granted(c)
Work(c) == Wait(c) \/ Call(c) \/ Retry(c) \/ PenaliseRedis(c) \/ PenaliseLocal(c)

Next == Tick \/ \E c \in Callers : Request(c) \/ Work(c)

\* Redis may be away for ever or never: only what the code does by itself is fair.
Fair == WF_vars(Tick) /\ \A c \in Callers :
          /\ WF_vars(SetNX(c)) /\ WF_vars(TakeLock(c)) /\ WF_vars(Granted(c))
          /\ WF_vars(Call(c)) /\ WF_vars(Retry(c))
          /\ WF_vars(PenaliseRedis(c)) /\ SF_vars(PenaliseLocal(c))

Spec == Init /\ [][Next]_vars /\ Fair

-----------------------------------------------------------------------------
Passes(c) == pc[c] # "granted" /\ pc'[c] = "granted"

\* Slots of one gate are an interval apart, whatever callers, retries and penalties
\* there are.
Spaced == [][\A c \in Callers : Passes(c) => quiet[Mine(c)] = 0]_vars

\* A recorded penalty bars every caller of the gate, also those already polling for
\* the slot it overwrote or asleep under the lock.
PenaltyHeld == [][\A c \in Callers : Passes(c) => barred[Mine(c)] = 0]_vars

\* Every request is answered or given up.
EveryRequestEnds == \A c \in Callers : pc[c] \notin Resting ~> pc[c] \in Resting
=============================================================================
