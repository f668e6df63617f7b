------------------------------ MODULE SpendCap ------------------------------
(***************************************************************************)
(* The daily model-spend limits: LLMClient.generate of                     *)
(* src/ceynex/llm/client.py with the RedisSpendCounter and its in-process  *)
(* shadow of src/ceynex/observability/spend.py.                            *)
(*                                                                         *)
(* A slot is a generate() coroutine of one worker, which may run call      *)
(* after call.  The limits are checked before a call and its cost is added *)
(* after it, both across awaits, so the slots of the workers interleave    *)
(* inside the check and inside the count.  A mishap is a failed Redis      *)
(* command, a Redis that lost its data, a cancelled coroutine or a         *)
(* restarted worker.                                                       *)
(***************************************************************************)
EXTENDS Integers, FiniteSets, FiniteSetsExt

CONSTANTS
  Slots,      \* generate() coroutines
  Workers,
  WorkerOf,   \* slot -> the worker it runs in
  Users,
  TotalCap,   \* daily_spend_cap_usd, in cents; 0 is no limit
  UserCap,    \* per_user_daily_cap_usd
  MaxCost,    \* the most one call costs
  Attempts,   \* max_retries + 1
  MaxDay,     \* bound: UTC days that pass
  MaxMishaps  \* bound: mishaps that happen

Total   == "total"     \* the deployment-wide scope; the others are the users
NoUser  == "no_user"   \* the eval harness and the demo have no reader

ASSUME SpendCapAssumption ==
  /\ IsFiniteSet(Slots) /\ IsFiniteSet(Workers) /\ WorkerOf \in [Slots -> Workers]
  /\ Total \notin Users /\ NoUser \notin Users
  /\ TotalCap \in Nat /\ UserCap \in Nat /\ MaxCost \in Nat
  /\ TotalCap > 0 \/ UserCap > 0   \* otherwise the counter is not asked
  /\ Attempts \in Nat \ {0} /\ MaxDay \in Nat /\ MaxMishaps \in Nat

VARIABLES
  day,      \* today()
  shared,   \* day -> scope -> what Redis counts
  shadow,   \* worker -> day -> scope -> what the worker itself counts
  pc,       \* slot -> where its generate() is
  user,     \* slot -> the reader it spends for
  on,       \* slot -> the day in the Redis keys it uses
  seen,     \* slot -> scope -> its worker's own count when it asked Redis
  tries,    \* slot -> attempts left
  cost,     \* slot -> the cost it is adding
  mishaps,
  weak      \* a command of Redis failed, or its data were lost

calls == <<pc, user, on, seen, tries, cost>>
vars  == <<day, shared, shadow, calls, mishaps, weak>>

Scopes == Users \cup {Total}
Days   == 0..MaxDay
Counts == [Scopes -> Nat]
Zero   == [s \in Scopes |-> 0]

CapOf(s) == IF s = Total THEN TotalCap ELSE UserCap

Charged(c) == {Total} \cup ({user[c]} \cap Users)

Plus(counts, scopes, n) ==
  [s \in Scopes |-> IF s \in scopes THEN counts[s] + n ELSE counts[s]]

Init ==
  /\ day = 0
  /\ shared = [d \in Days |-> Zero]
  /\ shadow = [w \in Workers |-> [d \in Days |-> Zero]]
  /\ pc = [c \in Slots |-> "idle"]
  /\ user = [c \in Slots |-> NoUser]
  /\ on = [c \in Slots |-> 0]
  /\ seen = [c \in Slots |-> Zero]
  /\ tries = [c \in Slots |-> 0]
  /\ cost = [c \in Slots |-> 0]
  /\ mishaps = 0
  /\ weak = FALSE

Mishap == mishaps < MaxMishaps /\ mishaps' = mishaps + 1

\* generate() returns, or is cancelled.
Leave(c) ==
  /\ pc' = [pc EXCEPT ![c] = "idle"]
  /\ user' = [user EXCEPT ![c] = NoUser]
  /\ on' = [on EXCEPT ![c] = 0]
  /\ seen' = [seen EXCEPT ![c] = Zero]
  /\ tries' = [tries EXCEPT ![c] = 0]
  /\ cost' = [cost EXCEPT ![c] = 0]

\* generate() finds no cached answer and asks for the day's spend: the keys
\* and the worker's own count are read before Redis is awaited.
Ask(c) ==
  /\ pc[c] = "idle"
  /\ pc' = [pc EXCEPT ![c] = "asking"]
  /\ \E u \in Users \cup {NoUser} : user' = [user EXCEPT ![c] = u]
  /\ on' = [on EXCEPT ![c] = day]
  /\ seen' = [seen EXCEPT ![c] = shadow[WorkerOf[c]][day]]
  /\ UNCHANGED <<day, shared, shadow, tries, cost, mishaps, weak>>

\* _over_budget: a limit that is set is spent.
Over(c, spent) == \E s \in Charged(c) : CapOf(s) > 0 /\ spent[s] >= CapOf(s)

\* With a limit spent only the free failsafe is left.
Proceed(c, spent) ==
  /\ pc' = [pc EXCEPT ![c] = IF Over(c, spent) THEN "failsafe" ELSE "calling"]
  /\ tries' = [tries EXCEPT ![c] = Attempts]
  /\ UNCHANGED <<day, shared, shadow, user, on, seen, cost>>

\* Never weaker than the worker's own count when it asked.
AtLeast(a, b) == [s \in Scopes |-> IF a[s] >= b[s] THEN a[s] ELSE b[s]]

\* Mutant: Redis is believed when it answers.
Answered_Redis(c) ==
  /\ pc[c] = "asking"
  /\ Proceed(c, shared[on[c]])
  /\ UNCHANGED <<mishaps, weak>>

\* Mutant: Redis is not asked.
Answered_Shadow(c) ==
  /\ pc[c] = "asking"
  /\ Proceed(c, seen[c])
  /\ UNCHANGED <<mishaps, weak>>

\* MGET answered.
Answered(c) ==
  /\ pc[c] = "asking"
  /\ Proceed(c, AtLeast(shared[on[c]], seen[c]))
  /\ UNCHANGED <<mishaps, weak>>

\* MGET failed: the worker's own count decides.
Unanswered(c) ==
  /\ pc[c] = "asking"
  /\ Mishap /\ weak' = TRUE
  /\ Proceed(c, seen[c])

\* A paid call returned: the worker's own count has it before Redis is
\* awaited, and drops the days before today.
Succeed(c) ==
  /\ pc[c] = "calling"
  /\ \E n \in 1..MaxCost :
       /\ cost' = [cost EXCEPT ![c] = n]
       /\ shadow' = [shadow EXCEPT ![WorkerOf[c]] =
            [d \in Days |-> IF d = day THEN Plus(@[d], Charged(c), n) ELSE Zero]]
  /\ pc' = [pc EXCEPT ![c] = "total"]
  /\ on' = [on EXCEPT ![c] = day]
  /\ UNCHANGED <<day, shared, user, seen, tries, mishaps, weak>>

\* It cost nothing: there is nothing to count.
SucceedFree(c) ==
  /\ pc[c] = "calling"
  /\ Leave(c)
  /\ UNCHANGED <<day, shared, shadow, mishaps, weak>>

\* Mutant: one attempt too many.
Fail_Again(c) ==
  /\ pc[c] = "calling"
  /\ tries' = [tries EXCEPT ![c] = @ - 1]
  /\ pc' = [pc EXCEPT ![c] = IF tries[c] = 0 THEN "failsafe" ELSE "calling"]
  /\ UNCHANGED <<day, shared, shadow, user, on, seen, cost, mishaps, weak>>

\* The call timed out or failed.  Its cost, if it had one, is not known and
\* not counted; the limits are not checked again before the next attempt.
Fail(c) ==
  /\ pc[c] = "calling"
  /\ tries' = [tries EXCEPT ![c] = @ - 1]
  /\ pc' = [pc EXCEPT ![c] = IF tries[c] = 1 THEN "failsafe" ELSE "calling"]
  /\ UNCHANGED <<day, shared, shadow, user, on, seen, cost, mishaps, weak>>

\* The failsafe model answers, or does not: it costs nothing.
Failsafe(c) ==
  /\ pc[c] = "failsafe"
  /\ Leave(c)
  /\ UNCHANGED <<day, shared, shadow, mishaps, weak>>

\* INCRBYFLOAT of one scope.
Increase(c, s) == shared' = [shared EXCEPT ![on[c]] = Plus(@, {s}, cost[c])]

CountTotal(c) ==
  /\ pc[c] = "total"
  /\ Increase(c, Total)
  /\ IF user[c] \in Users
       THEN /\ pc' = [pc EXCEPT ![c] = "user"]
            /\ UNCHANGED <<user, on, seen, tries, cost>>
       ELSE Leave(c)
  /\ UNCHANGED <<day, shadow, mishaps, weak>>

CountUser(c) ==
  /\ pc[c] = "user"
  /\ Increase(c, user[c])
  /\ Leave(c)
  /\ UNCHANGED <<day, shadow, mishaps, weak>>

\* A command of `add' did not return, with or without its effect on Redis;
\* what is left of `add' is skipped.
Skip(c) ==
  /\ \/ pc[c] \in {"total", "user"} /\ shared' = shared
     \/ pc[c] = "total" /\ Increase(c, Total)
     \/ pc[c] = "user" /\ Increase(c, user[c])
  /\ Mishap
  /\ Leave(c)
  /\ UNCHANGED <<day, shadow>>

\* It failed.
Uncounted(c) == Skip(c) /\ weak' = TRUE

\* The turn was cancelled at it, or while it waited for Redis or for a model.
Cancel(c) ==
  \/ Skip(c) /\ weak' = weak
  \/ /\ pc[c] \in {"asking", "calling", "failsafe"}
     /\ Mishap
     /\ Leave(c)
     /\ UNCHANGED <<day, shared, shadow, weak>>

\* 00:00 UTC.
Midnight ==
  /\ day < MaxDay
  /\ day' = day + 1
  /\ UNCHANGED <<shared, shadow, calls, mishaps, weak>>

\* Redis comes back without its data.
RedisRestarts ==
  /\ Mishap /\ weak' = TRUE
  /\ shared' = [d \in Days |-> Zero]
  /\ UNCHANGED <<day, shadow, calls>>

\* A worker restarts: its calls and its own count are gone.
Restart(w) ==
  /\ Mishap
  /\ shadow' = [shadow EXCEPT ![w] = [d \in Days |-> Zero]]
  /\ pc' = [c \in Slots |-> IF WorkerOf[c] = w THEN "idle" ELSE pc[c]]
  /\ UNCHANGED <<day, shared, user, on, seen, tries, cost, weak>>

Next ==
  \/ Midnight
  \/ RedisRestarts
  \/ \E w \in Workers : Restart(w)
  \/ \E c \in Slots :
       \/ Ask(c) \/ Answered(c) \/ Unanswered(c)
       \/ Succeed(c) \/ SucceedFree(c) \/ Fail(c) \/ Failsafe(c)
       \/ CountTotal(c) \/ CountUser(c)
       \/ Uncounted(c) \/ Cancel(c)

Spec == Init /\ [][Next]_vars

-----------------------------------------------------------------------------
SlotsOf(w) == {c \in Slots : WorkerOf[c] = w}

\* Every variable has its type.
TypeOK ==
  /\ day \in Days
  /\ shared \in [Days -> Counts]
  /\ shadow \in [Workers -> [Days -> Counts]]
  /\ pc \in [Slots -> {"idle", "asking", "calling", "failsafe", "total", "user"}]
  /\ user \in [Slots -> Users \cup {NoUser}]
  /\ on \in [Slots -> Days]
  /\ seen \in [Slots -> Counts]
  /\ tries \in [Slots -> 0..Attempts]
  /\ cost \in [Slots -> 0..MaxCost]
  /\ mishaps \in 0..MaxMishaps
  /\ weak \in BOOLEAN

\* Whatever Redis does - fails, forgets, answers late - what one worker counts
\* in a day, for the deployment and for each reader, passes the limit by no
\* more than the calls it can have in flight ("an outage degrades the guard to
\* exactly the per-worker cap it used to be, never to no cap at all",
\* spend.py:27-30).
NeverWeaker ==
  \A w \in Workers, d \in Days, s \in Scopes :
    CapOf(s) > 0 =>
      shadow[w][d][s] <= CapOf(s) - 1 + MaxCost * Cardinality(SlotsOf(w))

\* While Redis answers, the limit is one number across the workers: together
\* they pass it by the calls in flight and by the counts that were cancelled,
\* not by a limit per worker (spend.py:15-17).
OneCap ==
  \A d \in Days, s \in Scopes :
    (CapOf(s) > 0 /\ ~weak) =>
      MapThenSumSet(LAMBDA w : shadow[w][d][s], Workers)
        <= CapOf(s) - 1 + MaxCost * (Cardinality(Slots) + mishaps)

=============================================================================
