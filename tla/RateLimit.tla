----------------------------- MODULE RateLimit -----------------------------
(***************************************************************************)
(* The fixed-window request limit of src/ceynex/api/rate_limit.py, for one *)
(* identity (a key never mixes two): RedisWindow, shared by the workers,   *)
(* with an InProcessWindow in each of them that counts while Redis does    *)
(* not answer.  A restart of a worker loses its window, and a Redis that   *)
(* comes back empty loses the shared one.                                  *)
(*                                                                         *)
(* A counter is one life of Redis's data or of a worker's dict; a window   *)
(* is its index; a request is the coroutine running `check'.               *)
(***************************************************************************)
EXTENDS Integers, FiniteSets

CONSTANTS
  Requests,   \* the calls of `check' for this identity
  Hosts,
  Counters,   \* identities of counters, one per life of a store
  Limit,      \* requests allowed per window
  MaxWindow   \* bound: windows that pass

ASSUME RateLimitAssumption ==
  /\ Limit \in Nat \ {0}
  /\ MaxWindow \in Nat
  /\ IsFiniteSet(Requests)
  /\ IsFiniteSet(Counters)

VARIABLES
  window,  \* _window_index of the present moment
  count,   \* counter -> window index -> its value
  redis,   \* the counter Redis holds
  own,     \* worker -> the counter of its InProcessWindow
  used,    \* the counters that have existed
  stage,      \* request -> where its `check' is
  at,      \* request -> the worker serving it
  index,   \* request -> the window index in its Redis key
  ticket   \* request -> the counter, the index and the value it was given

limitVars == <<window, count, redis, own, used, stage, at, index, ticket>>

Windows == 0..MaxWindow
Tickets == [by : Counters, in : Windows, n : Nat]

LimitInit ==
  /\ window = 0
  /\ count = [s \in Counters |-> [k \in Windows |-> 0]]
  /\ redis \in Counters
  /\ own \in [Hosts -> Counters \ {redis}]
  /\ \A v, w \in Hosts : own[v] = own[w] => v = w
  /\ used = {redis} \cup {own[w] : w \in Hosts}
  /\ stage = [r \in Requests |-> "new"]
  /\ at \in [Requests -> Hosts]
  /\ index = [r \in Requests |-> 0]
  /\ ticket = [r \in Requests |-> [by |-> redis, in |-> 0, n |-> 0]]

\* Mutant: the key names the window the clock is about to enter.
Arrive_Next(r) ==
  /\ stage[r] = "new"
  /\ stage' = [stage EXCEPT ![r] = "incr"]
  /\ index' = [index EXCEPT ![r] = window + 1]
  /\ UNCHANGED <<window, count, redis, own, used, at, ticket>>

\* `now = time.time()', and the key it names.
Arrive(r) ==
  /\ stage[r] = "new"
  /\ stage' = [stage EXCEPT ![r] = "incr"]
  /\ index' = [index EXCEPT ![r] = window]
  /\ UNCHANGED <<window, count, redis, own, used, at, ticket>>

\* Add one to a counter: what the request gets is its new value.
Take(r, s, k) ==
  /\ count' = [count EXCEPT ![s][k] = @ + 1]
  /\ ticket' = [ticket EXCEPT ![r] = [by |-> s, in |-> k, n |-> count[s][k] + 1]]

\* Mutant: the refusal is one request late.
Verdict_Late(n) == IF n > Limit + 1 THEN "refused" ELSE "allowed"

\* Mutant: the refusal is one request early.
Verdict_Early(n) == IF n >= Limit THEN "refused" ELSE "allowed"

\* _decide: a count past the limit is refused.
Verdict(n) == IF n > Limit THEN "refused" ELSE "allowed"

\* INCR answered; the first hit of a window goes on to set the key's EXPIRE.
Incr(r) ==
  /\ stage[r] = "incr"
  /\ Take(r, redis, index[r])
  /\ LET n == count[redis][index[r]] + 1
     IN  stage' = [stage EXCEPT ![r] = IF n = 1 THEN "expire" ELSE Verdict(n)]
  /\ UNCHANGED <<window, redis, own, used, at, index>>

Expire(r) ==
  /\ stage[r] = "expire"
  /\ stage' = [stage EXCEPT ![r] = Verdict(1)]
  /\ UNCHANGED <<window, count, redis, own, used, at, index, ticket>>

\* Redis failed: before the INCR, with its reply lost, or at the EXPIRE.
RedisFails(r) ==
  /\ \/ stage[r] \in {"incr", "expire"} /\ count' = count
     \/ stage[r] = "incr" /\ count' = [count EXCEPT ![redis][index[r]] = @ + 1]
  /\ stage' = [stage EXCEPT ![r] = "local"]
  /\ UNCHANGED <<window, redis, own, used, at, index, ticket>>

\* InProcessWindow.check, which reads the clock again.  It does not await, so
\* reading, counting and deciding are one step.
CheckLocally(r) ==
  /\ stage[r] = "local"
  /\ LET s == own[at[r]]
     IN  /\ Take(r, s, window)
         /\ stage' = [stage EXCEPT ![r] = Verdict(count[s][window] + 1)]
  /\ UNCHANGED <<window, redis, own, used, at, index>>

\* The clock enters the next window.
Roll ==
  /\ window < MaxWindow
  /\ window' = window + 1
  /\ UNCHANGED <<count, redis, own, used, stage, at, index, ticket>>

\* Redis comes back without its data.
RedisComesBack ==
  /\ \E c \in Counters \ used :
       /\ redis' = c
       /\ used' = used \cup {c}
  /\ UNCHANGED <<window, count, own, stage, at, index, ticket>>

\* A worker restarts: its requests are lost with it, its window starts at zero.
WorkerRestarts(w) ==
  /\ \E c \in Counters \ used :
       /\ own' = [own EXCEPT ![w] = c]
       /\ used' = used \cup {c}
  /\ stage' = [r \in Requests |->
              IF at[r] = w /\ stage[r] \in {"incr", "expire", "local"} THEN "lost" ELSE stage[r]]
  /\ UNCHANGED <<window, count, redis, at, index, ticket>>

LimitNext ==
  \/ Roll
  \/ RedisComesBack
  \/ \E w \in Hosts : WorkerRestarts(w)
  \/ \E r \in Requests :
       Arrive(r) \/ Incr(r) \/ Expire(r) \/ RedisFails(r) \/ CheckLocally(r)

LimitSpec == LimitInit /\ [][LimitNext]_limitVars

-----------------------------------------------------------------------------
Decided(r) == stage[r] \in {"allowed", "refused"}

Allowed(k) == {r \in Requests : stage[r] = "allowed" /\ ticket[r].in = k}

\* The requests that were in the limiter in a window.
Seen(k) ==
  {r \in Requests : stage[r] # "new" /\ (index[r] = k \/ (Decided(r) /\ ticket[r].in = k))}

\* Every variable has its type.
LimitTypeOK ==
  /\ window \in Windows
  /\ count \in [Counters -> [Windows -> Nat]]
  /\ redis \in Counters
  /\ own \in [Hosts -> Counters]
  /\ used \subseteq Counters
  /\ stage \in [Requests -> {"new", "incr", "expire", "local", "allowed", "refused", "lost"}]
  /\ at \in [Requests -> Hosts]
  /\ index \in [Requests -> Windows]
  /\ ticket \in [Requests -> Tickets]

\* However Redis comes and goes in the middle of a window, and however the
\* requests of the workers interleave, each counter lets at most Limit requests
\* into a window: together, Limit times the counters there have been.  No
\* tighter bound holds: Redis's counter counts too, before and after an outage
\* that the workers' counters covered (rate_limit.py:36-44).
Bounded ==
  \A k \in Windows : Cardinality(Allowed(k)) <= Limit * Cardinality(used)

\* A caller is refused only in a window it made more than Limit requests in,
\* even when a failing Redis has counted some of them and the worker counts
\* them again ("never refused for the outage itself", rate_limit.py:36-39).
NeverRefusedEarly ==
  \A r \in Requests :
    stage[r] = "refused" => Cardinality(Seen(ticket[r].in)) > Limit
=============================================================================
