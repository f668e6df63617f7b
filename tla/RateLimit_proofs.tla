-------------------------- MODULE RateLimit_proofs --------------------------
(***************************************************************************)
(* What a worker keeps in memory, for any number of requests, workers,     *)
(* turns and restarts.                                                     *)
(*                                                                         *)
(* The bound of the failover: the requests a counter was taken by hold     *)
(* different values of it, and an allowed one holds a value up to Limit.   *)
(* Numbering the counters in use from 1, a request allowed in a window by  *)
(* counter i with value n is sent to (i-1)*Limit + n: an injection of the  *)
(* allowed requests into 1..Limit*Cardinality(used).                       *)
(*                                                                         *)
(* No early refusal: one life of Redis counts a request at most once,      *)
(* before the request is past Redis, and one life of a worker at most      *)
(* once, as it decides it; so no counter is ahead of the requests of its   *)
(* window (CountInv), though two counters may have counted the same one.   *)
(*                                                                         *)
(* The registry: an eviction never drops a turn that runs (EvictDrops).    *)
(***************************************************************************)
EXTENDS MCRateLimit, FiniteSetTheorems, TLAPS

-----------------------------------------------------------------------------
(* The limiter.                                                            *)

\* The requests that took a value of a counter and may still be allowed on it.
Holds(r) == stage[r] \in {"expire", "allowed", "refused"}

\* The counters being taken from are in use.
InUse == redis \in used /\ \A w \in Hosts : own[w] \in used

\* What a request holds is a value its counter has had, at most Limit if it
\* was allowed.
Held ==
  \A r \in Requests :
    /\ Holds(r) => /\ ticket[r].by \in used
                   /\ 1 <= ticket[r].n
                   /\ ticket[r].n <= count[ticket[r].by][ticket[r].in]
    /\ stage[r] = "expire" => ticket[r].n = 1
    /\ stage[r] = "allowed" => ticket[r].n <= Limit

\* No two requests hold the same value of the same counter.
OwnTicket ==
  \A q, r \in Requests :
    (q # r /\ Holds(q) /\ Holds(r) /\ ticket[q].by = ticket[r].by
           /\ ticket[q].in = ticket[r].in) => ticket[q].n # ticket[r].n

RateInv == LimitTypeOK /\ InUse /\ Held /\ OwnTicket

-----------------------------------------------------------------------------
\* No request holds anything in the initial states.
LEMMA RateInit == LimitInit => RateInv
<1> USE RateLimitAssumption DEF LimitInit, Windows, Tickets
<1> SUFFICES ASSUME LimitInit PROVE RateInv
  OBVIOUS
<1>1. LimitTypeOK
  BY DEF LimitTypeOK
<1>2. InUse /\ Held /\ OwnTicket
  BY DEF InUse, Held, OwnTicket, Holds
<1> QED
  BY <1>1, <1>2 DEF RateInv

\* A verdict on a value that was just taken keeps the invariant: the value is
\* larger than every value of that counter held so far.
LEMMA TakeKeeps ==
  ASSUME RateInv, NEW r \in Requests, NEW s \in used, NEW k \in Windows,
         Take(r, s, k), ~Holds(r),
         NEW p \in {"expire", "allowed", "refused"}, stage' = [stage EXCEPT ![r] = p],
         p = "expire" => count[s][k] = 0,
         p = "allowed" => count[s][k] + 1 <= Limit,
         UNCHANGED <<window, redis, own, used, at, index>>
  PROVE  RateInv'
<1> USE RateLimitAssumption DEF RateInv, LimitTypeOK, Tickets
<1>1. s \in Counters /\ count[s][k] \in Nat
  OBVIOUS
<1>2. ticket'[r] = [by |-> s, in |-> k, n |-> count[s][k] + 1]
  BY DEF Take
<1>3. count'[s][k] = count[s][k] + 1
  BY <1>1 DEF Take
<1>4. \A t \in Counters, j \in Windows : count[t][j] <= count'[t][j]
  BY <1>1 DEF Take
<1>5. LimitTypeOK'
  <2>1. count' \in [Counters -> [Windows -> Nat]]
    BY <1>1 DEF Take
  <2>2. ticket' \in [Requests -> [by : Counters, in : Windows, n : Nat]]
    BY <1>1 DEF Take
  <2>3. /\ stage' \in [Requests -> {"new", "incr", "expire", "local", "allowed",
                                 "refused", "lost"}]
        /\ window' \in Windows /\ redis' \in Counters
        /\ own' \in [Hosts -> Counters] /\ used' \subseteq Counters
        /\ at' \in [Requests -> Hosts] /\ index' \in [Requests -> Windows]
    OBVIOUS
  <2> QED
    BY <2>1, <2>2, <2>3
<1>6. InUse'
  BY DEF InUse
<1>7. \A q \in Requests \ {r} : ticket'[q] = ticket[q] /\ stage'[q] = stage[q]
  BY DEF Take
<1>8. Held'
  <2>1. ASSUME NEW q \in Requests, q # r
        PROVE  /\ Holds(q)' => /\ ticket'[q].by \in used
                               /\ 1 <= ticket'[q].n
                               /\ ticket'[q].n <= count'[ticket'[q].by][ticket'[q].in]
               /\ stage'[q] = "expire" => ticket'[q].n = 1
               /\ stage'[q] = "allowed" => ticket'[q].n <= Limit
    BY <2>1, <1>1, <1>4, <1>7, <1>5 DEF Held, Holds
  <2>2. /\ ticket'[r].by \in used /\ 1 <= ticket'[r].n
        /\ ticket'[r].n <= count'[ticket'[r].by][ticket'[r].in]
        /\ stage'[r] = "expire" => ticket'[r].n = 1
        /\ stage'[r] = "allowed" => ticket'[r].n <= Limit
    BY <1>1, <1>2, <1>3
  <2> QED
    BY <2>1, <2>2 DEF Held, Holds
<1>9. OwnTicket'
  <2>1. ASSUME NEW q \in Requests, q # r, Holds(q),
               ticket[q].by = s, ticket[q].in = k
        PROVE  ticket[q].n # ticket'[r].n
    BY <2>1, <1>1, <1>2 DEF Held
  <2>2. ASSUME NEW p1 \in Requests, NEW q1 \in Requests, p1 # q1,
               p1 # r, q1 # r, Holds(p1)', Holds(q1)',
               ticket'[p1].by = ticket'[q1].by, ticket'[p1].in = ticket'[q1].in
        PROVE  ticket'[p1].n # ticket'[q1].n
    <3>1. Holds(p1) /\ Holds(q1) /\ ticket'[p1] = ticket[p1] /\ ticket'[q1] = ticket[q1]
      BY <2>2, <1>7 DEF Holds
    <3>2. ticket[p1].by = ticket[q1].by /\ ticket[p1].in = ticket[q1].in
      BY <2>2, <3>1
    <3>3. ticket[p1].n # ticket[q1].n
      BY <2>2, <3>1, <3>2, Zenon DEF OwnTicket
    <3> QED
      BY <3>1, <3>3
  <2>3. ASSUME NEW q \in Requests, q # r, Holds(q)',
               ticket'[q].by = ticket'[r].by, ticket'[q].in = ticket'[r].in
        PROVE  ticket'[q].n # ticket'[r].n
    <3>1. Holds(q) /\ ticket[q].by = s /\ ticket[q].in = k
      BY <2>3, <1>2, <1>7 DEF Holds
    <3> QED
      BY <3>1, <2>1, <2>3, <1>7
  <2> QED
    BY <2>2, <2>3 DEF OwnTicket
<1> QED
  BY <1>5, <1>6, <1>8, <1>9

\* A request that turns from Redis to its worker holds nothing any more,
\* whether Redis had counted it or not.
LEMMA FailKeeps ==
  ASSUME RateInv, NEW r \in Requests, RedisFails(r),
         count' \in [Counters -> [Windows -> Nat]],
         \A s \in Counters, k \in Windows : count[s][k] <= count'[s][k]
  PROVE  RateInv'
<1> USE DEF RateInv, LimitTypeOK
<1>1. LimitTypeOK'
  BY DEF RedisFails
<1>2. Held'
  <2>1. ASSUME NEW q \in Requests, Holds(q)'
        PROVE  Holds(q) /\ stage'[q] = stage[q] /\ ticket'[q] = ticket[q] /\ used' = used
    BY <2>1 DEF RedisFails, Holds
  <2>2. ASSUME NEW q \in Requests, Holds(q)
        PROVE  ticket[q].n <= count'[ticket[q].by][ticket[q].in]
    <3>1. /\ ticket[q].by \in Counters /\ ticket[q].in \in Windows
          /\ ticket[q].n \in Nat
      BY DEF Tickets
    <3>2. /\ count[ticket[q].by][ticket[q].in] \in Nat
          /\ count'[ticket[q].by][ticket[q].in] \in Nat
          /\ count[ticket[q].by][ticket[q].in] <= count'[ticket[q].by][ticket[q].in]
      BY <3>1
    <3> QED
      BY <2>2, <3>1, <3>2 DEF Held
  <2>3. \A q \in Requests : /\ stage'[q] = "expire" => stage[q] = "expire"
                            /\ stage'[q] = "allowed" => stage[q] = "allowed"
    BY DEF RedisFails
  <2> QED
    BY <2>1, <2>2, <2>3 DEF Held, RedisFails
<1>3. InUse' /\ OwnTicket'
  BY DEF RedisFails, InUse, OwnTicket, Holds
<1> QED
  BY <1>1, <1>2, <1>3

\* Every step keeps the invariant.
LEMMA RateNext == RateInv /\ [LimitNext]_limitVars => RateInv'
<1> SUFFICES ASSUME RateInv, [LimitNext]_limitVars PROVE RateInv'
  OBVIOUS
<1> USE RateLimitAssumption DEF RateInv, LimitTypeOK, Windows
<1>1. ASSUME NEW r \in Requests, Arrive(r) PROVE RateInv'
  BY <1>1 DEF Arrive, InUse, Held, OwnTicket, Holds
<1>2. ASSUME NEW r \in Requests, Incr(r) PROVE RateInv'
  <2> DEFINE n == count[redis][index[r]] + 1
             p == IF n = 1 THEN "expire" ELSE Verdict(n)
  <2>1. /\ redis \in used /\ index[r] \in Windows /\ count[redis][index[r]] \in Nat
        /\ ~Holds(r)
    BY <1>2 DEF InUse, Incr, Holds
  <2>2. /\ p \in {"expire", "allowed", "refused"}
        /\ p = "expire" => count[redis][index[r]] = 0
        /\ p = "allowed" => count[redis][index[r]] + 1 <= Limit
    BY <2>1 DEF Verdict
  <2>3. /\ Take(r, redis, index[r]) /\ stage' = [stage EXCEPT ![r] = p]
        /\ UNCHANGED <<window, redis, own, used, at, index>>
    BY <1>2 DEF Incr
  <2> HIDE DEF p, RateInv, LimitTypeOK, Windows
  <2> QED
    BY <2>1, <2>2, <2>3, TakeKeeps
<1>3. ASSUME NEW r \in Requests, Expire(r) PROVE RateInv'
  <2>1. LimitTypeOK'
    BY <1>3 DEF Expire, Verdict
  <2>2. Held'
    BY <1>3 DEF Expire, Verdict, Held, Holds
  <2>3. \A q \in Requests : Holds(q)' => Holds(q)
    BY <1>3 DEF Expire, Holds
  <2>4. InUse' /\ OwnTicket'
    BY <1>3, <2>3 DEF Expire, InUse, OwnTicket
  <2> QED
    BY <2>1, <2>2, <2>4
<1>4. ASSUME NEW r \in Requests, RedisFails(r) PROVE RateInv'
  <2>1. CASE count' = count
    <3>1. \A s \in Counters, k \in Windows : count[s][k] <= count'[s][k]
      <4>1. \A s \in Counters, k \in Windows : count[s][k] \in Nat
        OBVIOUS
      <4> QED
        BY <2>1, <4>1
    <3> QED
      BY <2>1, <3>1, <1>4, FailKeeps
  <2>2. CASE count' = [count EXCEPT ![redis][index[r]] = @ + 1]
    <3>1. redis \in Counters /\ index[r] \in Windows
      OBVIOUS
    <3> HIDE DEF Windows
    <3>2. count' \in [Counters -> [Windows -> Nat]]
      BY <2>2, <3>1
    <3>3. \A s \in Counters, k \in Windows : count[s][k] <= count'[s][k]
      BY <2>2, <3>1
    <3> QED
      BY <3>2, <3>3, <1>4, FailKeeps
  <2> QED
    BY <2>1, <2>2, <1>4 DEF RedisFails
<1>5. ASSUME NEW r \in Requests, CheckLocally(r) PROVE RateInv'
  <2> DEFINE s == own[at[r]]
             p == Verdict(count[s][window] + 1)
  <2>1. s \in used /\ window \in Windows /\ count[s][window] \in Nat /\ ~Holds(r)
    BY <1>5 DEF InUse, CheckLocally, Holds
  <2>2. /\ p \in {"allowed", "refused"}
        /\ p = "allowed" => count[s][window] + 1 <= Limit
    BY <2>1 DEF Verdict
  <2>3. /\ Take(r, s, window) /\ stage' = [stage EXCEPT ![r] = p]
        /\ UNCHANGED <<window, redis, own, used, at, index>>
    BY <1>5 DEF CheckLocally
  <2> HIDE DEF s, p, RateInv, LimitTypeOK, Windows
  <2> QED
    BY <2>1, <2>2, <2>3, TakeKeeps
<1>6. CASE Roll
  BY <1>6 DEF Roll, InUse, Held, OwnTicket, Holds
<1>7. CASE RedisComesBack
  BY <1>7 DEF RedisComesBack, InUse, Held, OwnTicket, Holds
<1>8. ASSUME NEW w \in Hosts, WorkerRestarts(w) PROVE RateInv'
  <2>1. LimitTypeOK'
    <3>1. stage' \in [Requests -> {"new", "incr", "expire", "local", "allowed",
                                "refused", "lost"}]
      BY <1>8 DEF WorkerRestarts
    <3>2. own' \in [Hosts -> Counters] /\ used' \subseteq Counters
      BY <1>8 DEF WorkerRestarts
    <3> QED
      BY <1>8, <3>1, <3>2 DEF WorkerRestarts
  <2>2. \A r \in Requests : Holds(r)' => Holds(r) /\ stage'[r] = stage[r]
    BY <1>8 DEF WorkerRestarts, Holds
  <2>3. InUse' /\ Held' /\ OwnTicket'
    BY <1>8, <2>2 DEF WorkerRestarts, InUse, Held, OwnTicket
  <2> QED
    BY <2>1, <2>3
<1>9. CASE UNCHANGED limitVars
  BY <1>9 DEF limitVars, InUse, Held, OwnTicket, Holds
<1> QED
  BY <1>1, <1>2, <1>3, <1>4, <1>5, <1>6, <1>7, <1>8, <1>9 DEF LimitNext

-----------------------------------------------------------------------------
\* Blocks of Limit numbers do not overlap.
LEMMA Blocks ==
  ASSUME NEW L \in Nat, NEW i \in Nat, NEW j \in Nat,
         NEW m \in 1..L, NEW n \in 1..L, i < j
  PROVE  i * L + m < j * L + n
<1>1. PICK d \in Nat : j = i + 1 + d
  <2>1. j - i - 1 \in Nat /\ j = i + 1 + (j - i - 1)
    OBVIOUS
  <2> QED
    BY <2>1
<1>2. j * L = i * L + L + d * L
  BY <1>1
<1>3. d * L \in Nat /\ i * L \in Nat
  OBVIOUS
<1> QED
  BY <1>2, <1>3

\* The invariant bounds the requests a window lets in.
LEMMA RateBound == RateInv => Bounded
<1> SUFFICES ASSUME RateInv, NEW k \in Windows
             PROVE  Cardinality(Allowed(k)) <= Limit * Cardinality(used)
  BY DEF Bounded
<1> USE RateLimitAssumption
<1> DEFINE m == Cardinality(used)
           A == Allowed(k)
<1>1. IsFiniteSet(used)
  BY FS_Subset DEF RateInv, LimitTypeOK
<1>2. m \in Nat /\ ExistsBijection(1..m, used)
  BY <1>1, FS_CardinalityType
<1>3. PICK f \in [1..m -> used] : \A s \in used : \E i \in 1..m : f[i] = s
  BY <1>2 DEF ExistsBijection, Bijection, Surjection
<1> DEFINE no(s) == CHOOSE i \in 1..m : f[i] = s
           g == [r \in A |-> (no(ticket[r].by) - 1) * Limit + ticket[r].n]
<1>4. \A s \in used : no(s) \in 1..m /\ f[no(s)] = s
  BY <1>3
<1>5. ASSUME NEW r \in A
      PROVE  /\ r \in Requests /\ Holds(r) /\ ticket[r].in = k
             /\ ticket[r].by \in used /\ ticket[r].n \in 1..Limit
  BY <1>5 DEF Allowed, Holds, RateInv, Held, LimitTypeOK, Tickets
<1> HIDE DEF no, m, A
<1>6. ASSUME NEW r \in A PROVE g[r] \in 1 .. Limit * m
  <2> DEFINE i == no(ticket[r].by)
  <2>1. i \in 1..m /\ ticket[r].n \in 1..Limit
    BY <1>4, <1>5
  <2> HIDE DEF i
  <2>2. (i - 1) * Limit \in Nat
    BY <2>1, <1>2
  <2>3. (i - 1) * Limit + ticket[r].n <= Limit * m
    <3>1. i * Limit = (i - 1) * Limit + Limit
      BY <2>1, <1>2
    <3>2. i * Limit <= Limit * m
      BY <2>1, <1>2
    <3> QED
      BY <3>1, <3>2, <2>1, <2>2, <1>2
  <2> QED
    BY <2>1, <2>2, <2>3 DEF i
<1>7. ASSUME NEW q \in A, NEW r \in A, g[q] = g[r] PROVE q = r
  <2> DEFINE i == no(ticket[q].by) - 1
             j == no(ticket[r].by) - 1
  <2>1. i \in Nat /\ j \in Nat
    BY <1>2, <1>4, <1>5
  <2>2. i * Limit + ticket[q].n = j * Limit + ticket[r].n
    BY <1>7
  <2> HIDE DEF i, j
  <2>3. ~(i < j) /\ ~(j < i)
    BY <2>1, <2>2, <1>5, Blocks
  <2>4. i = j /\ ticket[q].n = ticket[r].n
    <3>1. i = j
      BY <2>1, <2>3
    <3>2. i * Limit \in Nat
      BY <2>1
    <3> QED
      BY <3>1, <3>2, <2>2, <1>5
  <2>5. ticket[q].by = ticket[r].by
    <3>1. no(ticket[q].by) = no(ticket[r].by)
      BY <2>4, <1>2, <1>4, <1>5 DEF i, j
    <3> QED
      BY <3>1, <1>4, <1>5
  <2> QED
    BY <2>4, <2>5, <1>5 DEF RateInv, OwnTicket
<1>8. g \in Injection(A, 1 .. Limit * m)
  BY <1>6, <1>7 DEF Injection, IsInjective
<1>9. Limit * m \in Nat
  BY <1>2
<1>10. Cardinality(1 .. Limit * m) = Limit * m /\ IsFiniteSet(1 .. Limit * m)
  BY <1>9, FS_Interval
<1>11. Cardinality(A) <= Limit * m
  BY <1>8, <1>10, FS_Injection
<1> QED
  BY <1>11 DEF A, m

\* However Redis fails and the workers restart, a window lets in at most Limit
\* requests for each counter there has been.
THEOREM FailoverBounded == LimitSpec => []Bounded
  BY RateInit, RateNext, RateBound, PTL DEF LimitSpec

-----------------------------------------------------------------------------
\* The requests of a window that Redis may have counted, and those that were decided
\* in it: each is counted at most once by one life of Redis, or of a worker.
PastRedis(k) == {r \in Requests : stage[r] \notin {"new", "incr"} /\ index[r] = k}
DecidedIn(k) == {r \in Requests : Decided(r) /\ ticket[r].in = k}

OfRedis(s)  == \A k \in Windows : count[s][k] <= Cardinality(PastRedis(k))
OfWorker(s) == \A k \in Windows : count[s][k] <= Cardinality(DecidedIn(k))

\* No counter is ahead of the requests it may have counted, and a refused request was
\* given a number past the limit.
CountInv ==
  /\ \A w \in Hosts : own[w] # redis
  /\ OfRedis(redis) /\ \A w \in Hosts : OfWorker(own[w])
  /\ \A s \in Counters : OfRedis(s) \/ OfWorker(s)
  /\ \A s \in Counters \ used : \A k \in Windows : count[s][k] = 0
  /\ \A r \in Requests : stage[r] = "refused" => ticket[r].n > Limit

\* Sets of requests are finite.
LEMMA RequestCount ==
  ASSUME NEW T \in SUBSET Requests, NEW S \in SUBSET T
  PROVE  /\ IsFiniteSet(T) /\ Cardinality(T) \in Nat
         /\ Cardinality(S) \in Nat /\ Cardinality(S) <= Cardinality(T)
         /\ \A r \in T \ S : Cardinality(S) + 1 <= Cardinality(T)
<1>1. IsFiniteSet(T) /\ IsFiniteSet(S)
  BY RateLimitAssumption, FS_Subset
<1>2. Cardinality(T) \in Nat /\ Cardinality(S) \in Nat /\ Cardinality(S) <= Cardinality(T)
  BY <1>1, FS_Subset, FS_CardinalityType
<1>3. ASSUME NEW r \in T \ S
      PROVE  Cardinality(S) + 1 <= Cardinality(T)
  <2>1. Cardinality(S \cup {r}) = Cardinality(S) + 1 /\ S \cup {r} \subseteq T
    BY <1>1, FS_AddElement
  <2>2. Cardinality(S \cup {r}) <= Cardinality(T)
    BY <1>1, <2>1, FS_Subset
  <2> QED
    BY <2>1, <2>2
<1> QED
  BY <1>1, <1>2, <1>3

\* The requests of a window only become more, and so a counter that is not touched
\* stays behind them.
LEMMA StaysBehind ==
  ASSUME RateInv, CountInv, NEW s \in Counters, NEW k \in Windows, count'[s][k] = count[s][k],
         PastRedis(k) \subseteq PastRedis(k)', DecidedIn(k) \subseteq DecidedIn(k)'
  PROVE  /\ count[s][k] <= Cardinality(PastRedis(k)) =>
              count'[s][k] <= Cardinality(PastRedis(k))'
         /\ count[s][k] <= Cardinality(DecidedIn(k)) =>
              count'[s][k] <= Cardinality(DecidedIn(k))'
<1>1. PastRedis(k)' \in SUBSET Requests /\ DecidedIn(k)' \in SUBSET Requests
  BY DEF PastRedis, DecidedIn
<1>2. /\ Cardinality(PastRedis(k)) \in Nat /\ Cardinality(PastRedis(k)') \in Nat
      /\ Cardinality(PastRedis(k)) <= Cardinality(PastRedis(k)')
  BY <1>1, RequestCount
<1>3. /\ Cardinality(DecidedIn(k)) \in Nat /\ Cardinality(DecidedIn(k)') \in Nat
      /\ Cardinality(DecidedIn(k)) <= Cardinality(DecidedIn(k)')
  BY <1>1, RequestCount
<1>4. count[s][k] \in Nat
  BY DEF RateInv, LimitTypeOK
<1> QED
  BY <1>2, <1>3, <1>4

\* Nothing was counted in the initial states.
LEMMA CountInit == LimitInit => CountInv
<1> SUFFICES ASSUME LimitInit PROVE CountInv
  OBVIOUS
<1>1. \A s \in Counters : OfRedis(s) /\ OfWorker(s)
  <2>1. \A k \in Windows : Cardinality(PastRedis(k)) \in Nat /\ Cardinality(DecidedIn(k)) \in Nat
    <3>1. \A k \in Windows : PastRedis(k) \in SUBSET Requests /\ DecidedIn(k) \in SUBSET Requests
      BY DEF PastRedis, DecidedIn
    <3> QED
      BY <3>1, RequestCount
  <2> QED
    BY <2>1 DEF LimitInit, OfRedis, OfWorker
<1> QED
  BY <1>1 DEF LimitInit, CountInv

\* A step that counts nothing keeps what was counted behind the requests.
LEMMA UncountedKeeps ==
  ASSUME RateInv, CountInv, UNCHANGED <<count, redis, own>>, used \subseteq used',
         \A k \in Windows : PastRedis(k) \subseteq PastRedis(k)'
                              /\ DecidedIn(k) \subseteq DecidedIn(k)',
         \A r \in Requests : stage'[r] = "refused" => ticket'[r].n > Limit
  PROVE  CountInv'
<1>1. \A s \in Counters : (OfRedis(s) => OfRedis(s)') /\ (OfWorker(s) => OfWorker(s)')
  BY StaysBehind DEF OfRedis, OfWorker
<1> QED
  BY <1>1 DEF CountInv, RateInv, LimitTypeOK

\* A request is counted: by Redis, which it is past then, or by its worker, which
\* decides it.
LEMMA CountedKeeps ==
  ASSUME RateInv, RateInv', CountInv, UNCHANGED <<redis, own, used>>, NEW r \in Requests,
         NEW s \in used, NEW k \in Windows, count' = [count EXCEPT ![s][k] = @ + 1],
         \A j \in Windows : PastRedis(j) \subseteq PastRedis(j)'
                              /\ DecidedIn(j) \subseteq DecidedIn(j)',
         \/ s = redis /\ r \in PastRedis(k)' \ PastRedis(k)
         \/ (\E w \in Hosts : s = own[w]) /\ r \in DecidedIn(k)' \ DecidedIn(k),
         \A q \in Requests : stage'[q] = "refused" => ticket'[q].n > Limit
  PROVE  CountInv'
<1>1. /\ s \in Counters /\ count[s][k] \in Nat /\ count'[s][k] = count[s][k] + 1
      /\ \A t \in Counters, j \in Windows : t # s \/ j # k => count'[t][j] = count[t][j]
  BY DEF RateInv, LimitTypeOK
<1>2. \A t \in Counters \ {s} : (OfRedis(t) => OfRedis(t)') /\ (OfWorker(t) => OfWorker(t)')
  BY <1>1, StaysBehind DEF OfRedis, OfWorker
<1>3. PastRedis(k)' \in SUBSET Requests /\ DecidedIn(k)' \in SUBSET Requests
  BY DEF PastRedis, DecidedIn
<1>4. CASE s = redis /\ r \in PastRedis(k)' \ PastRedis(k)
  <2>1. /\ Cardinality(PastRedis(k)) \in Nat /\ Cardinality(PastRedis(k)') \in Nat
        /\ Cardinality(PastRedis(k)) + 1 <= Cardinality(PastRedis(k)')
    BY <1>3, <1>4, RequestCount
  <2>2. count'[s][k] <= Cardinality(PastRedis(k)')
    BY <1>1, <1>4, <2>1 DEF CountInv, OfRedis
  <2>3. OfRedis(s)'
    BY <1>1, <1>4, <2>2, StaysBehind DEF CountInv, OfRedis
  <2> QED
    BY <1>1, <1>2, <1>4, <2>3 DEF CountInv, RateInv, LimitTypeOK
<1>5. CASE (\E w \in Hosts : s = own[w]) /\ r \in DecidedIn(k)' \ DecidedIn(k)
  <2>1. /\ Cardinality(DecidedIn(k)) \in Nat /\ Cardinality(DecidedIn(k)') \in Nat
        /\ Cardinality(DecidedIn(k)) + 1 <= Cardinality(DecidedIn(k)')
    BY <1>3, <1>5, RequestCount
  <2>2. OfWorker(s) /\ s # redis
    BY <1>5 DEF CountInv
  <2>3. count'[s][k] <= Cardinality(DecidedIn(k)')
    BY <1>1, <2>1, <2>2 DEF OfWorker
  <2>4. OfWorker(s)'
    BY <1>1, <2>2, <2>3, StaysBehind DEF OfWorker
  <2> QED
    BY <1>1, <1>2, <2>2, <2>4 DEF CountInv, RateInv, LimitTypeOK
<1> QED
  BY <1>4, <1>5

\* A store that starts over is fresh: nothing was counted by it.
LEMMA FreshKeeps ==
  ASSUME RateInv, CountInv, NEW c \in Counters \ used, UNCHANGED count,
         used' = used \cup {c},
         \/ redis' = c /\ own' = own
         \/ redis' = redis /\ \E w \in Hosts : own' = [own EXCEPT ![w] = c],
         \A k \in Windows : PastRedis(k) \subseteq PastRedis(k)'
                              /\ DecidedIn(k) \subseteq DecidedIn(k)',
         \A r \in Requests : stage'[r] = "refused" => ticket'[r].n > Limit
  PROVE  CountInv'
<1>1. \A s \in Counters : (OfRedis(s) => OfRedis(s)') /\ (OfWorker(s) => OfWorker(s)')
  BY StaysBehind DEF OfRedis, OfWorker
<1>2. OfRedis(c)' /\ OfWorker(c)'
  <2>1. \A k \in Windows : PastRedis(k)' \in SUBSET Requests /\ DecidedIn(k)' \in SUBSET Requests
    BY DEF PastRedis, DecidedIn
  <2>2. \A k \in Windows : Cardinality(PastRedis(k)') \in Nat /\ Cardinality(DecidedIn(k)') \in Nat
    BY <2>1, RequestCount
  <2> QED
    BY <2>2 DEF CountInv, OfRedis, OfWorker
<1>3. c # redis /\ \A w \in Hosts : c # own[w]
  BY DEF RateInv, InUse
<1> QED
  BY <1>1, <1>2, <1>3 DEF CountInv, RateInv, LimitTypeOK

\* Every step keeps the counters behind the requests.
LEMMA CountNext == RateInv /\ RateInv' /\ CountInv /\ [LimitNext]_limitVars => CountInv'
<1> SUFFICES ASSUME RateInv, RateInv', CountInv, [LimitNext]_limitVars PROVE CountInv'
  OBVIOUS
<1> USE RateLimitAssumption
<1>0. /\ LimitTypeOK /\ Held /\ InUse
      /\ \A r \in Requests : stage[r] = "refused" => ticket[r].n > Limit
  BY DEF RateInv, CountInv
<1>1. ASSUME NEW r \in Requests, Arrive(r) PROVE CountInv'
  <2>1. \A k \in Windows : PastRedis(k) \subseteq PastRedis(k)'
                             /\ DecidedIn(k) \subseteq DecidedIn(k)'
    BY <1>0, <1>1 DEF Arrive, PastRedis, DecidedIn, Decided, LimitTypeOK
  <2> QED
    BY <1>0, <1>1, <2>1, UncountedKeeps DEF Arrive, LimitTypeOK
<1>2. ASSUME NEW r \in Requests, Incr(r) PROVE CountInv'
  <2> DEFINE n == count[redis][index[r]] + 1
  <2>0. PICK k \in Windows : k = index[r]
    BY <1>0 DEF LimitTypeOK
  <2>1. /\ redis \in used /\ n \in Nat /\ stage[r] = "incr"
        /\ count' = [count EXCEPT ![redis][k] = @ + 1]
        /\ ticket' = [ticket EXCEPT ![r] = [by |-> redis, in |-> k, n |-> n]]
        /\ stage' = [stage EXCEPT ![r] = IF n = 1 THEN "expire" ELSE Verdict(n)]
        /\ UNCHANGED <<redis, own, used, index>>
    BY <1>0, <1>2, <2>0 DEF Incr, Take, InUse, LimitTypeOK
  <2>2. (IF n = 1 THEN "expire" ELSE Verdict(n)) \in {"expire", "allowed", "refused"}
        /\ ((IF n = 1 THEN "expire" ELSE Verdict(n)) = "refused" => n > Limit)
    BY DEF Verdict
  <2> HIDE DEF n
  <2>3. \A j \in Windows : PastRedis(j) \subseteq PastRedis(j)'
                             /\ DecidedIn(j) \subseteq DecidedIn(j)'
    BY <1>0, <2>1, <2>2 DEF PastRedis, DecidedIn, Decided, LimitTypeOK
  <2>4. r \in PastRedis(k)' \ PastRedis(k)
    BY <1>0, <2>0, <2>1, <2>2 DEF PastRedis, LimitTypeOK
  <2>5. \A q \in Requests : stage'[q] = "refused" => ticket'[q].n > Limit
    BY <1>0, <2>1, <2>2 DEF LimitTypeOK
  <2> QED
    BY <2>1, <2>3, <2>4, <2>5, CountedKeeps
<1>3. ASSUME NEW r \in Requests, Expire(r) PROVE CountInv'
  <2>1. \A k \in Windows : PastRedis(k) \subseteq PastRedis(k)'
                             /\ DecidedIn(k) \subseteq DecidedIn(k)'
    BY <1>0, <1>3 DEF Expire, Verdict, PastRedis, DecidedIn, Decided, LimitTypeOK
  <2>2. \A q \in Requests : stage'[q] = "refused" => ticket'[q].n > Limit
    BY <1>0, <1>3 DEF Expire, Verdict, Held, LimitTypeOK
  <2> QED
    BY <1>3, <2>1, <2>2, UncountedKeeps DEF Expire
<1>4. ASSUME NEW r \in Requests, RedisFails(r) PROVE CountInv'
  <2>1. /\ stage[r] \in {"incr", "expire"} /\ stage' = [stage EXCEPT ![r] = "local"]
        /\ UNCHANGED <<redis, own, used, index, ticket>>
    BY <1>4 DEF RedisFails
  <2>2. \A k \in Windows : PastRedis(k) \subseteq PastRedis(k)'
                             /\ DecidedIn(k) \subseteq DecidedIn(k)'
    BY <1>0, <2>1 DEF PastRedis, DecidedIn, Decided, LimitTypeOK
  <2>3. \A q \in Requests : stage'[q] = "refused" => ticket'[q].n > Limit
    BY <1>0, <2>1 DEF LimitTypeOK
  <2>4. CASE count' = count
    BY <2>1, <2>2, <2>3, <2>4, UncountedKeeps
  <2>5. CASE stage[r] = "incr" /\ count' = [count EXCEPT ![redis][index[r]] = @ + 1]
    <3>0. PICK k \in Windows : k = index[r]
      BY <1>0 DEF LimitTypeOK
    <3>1. r \in PastRedis(k)' \ PastRedis(k)
      BY <1>0, <2>1, <2>5, <3>0 DEF PastRedis, LimitTypeOK
    <3>2. redis \in used /\ count' = [count EXCEPT ![redis][k] = @ + 1]
      BY <1>0, <2>5, <3>0 DEF InUse
    <3> QED
      BY <2>1, <2>2, <2>3, <3>1, <3>2, CountedKeeps
  <2> QED
    BY <1>4, <2>4, <2>5 DEF RedisFails
<1>5. ASSUME NEW r \in Requests, CheckLocally(r) PROVE CountInv'
  <2> DEFINE s == own[at[r]]
             n == count[s][window] + 1
  <2>0. PICK k \in Windows : k = window
    BY <1>0 DEF LimitTypeOK
  <2>1. /\ at[r] \in Hosts /\ s \in used /\ n \in Nat
        /\ stage[r] = "local"
        /\ count' = [count EXCEPT ![s][k] = @ + 1]
        /\ ticket' = [ticket EXCEPT ![r] = [by |-> s, in |-> k, n |-> n]]
        /\ stage' = [stage EXCEPT ![r] = Verdict(n)]
        /\ UNCHANGED <<redis, own, used, index>>
    BY <1>0, <1>5, <2>0 DEF CheckLocally, Take, InUse, LimitTypeOK
  <2>2. Verdict(n) \in {"allowed", "refused"} /\ (Verdict(n) = "refused" => n > Limit)
    BY DEF Verdict
  <2>3. \E w \in Hosts : s = own[w]
    BY <2>1
  <2> HIDE DEF n, s
  <2>4. \A j \in Windows : PastRedis(j) \subseteq PastRedis(j)'
                             /\ DecidedIn(j) \subseteq DecidedIn(j)'
    BY <1>0, <2>1, <2>2 DEF PastRedis, DecidedIn, Decided, LimitTypeOK
  <2>5. r \in DecidedIn(k)' \ DecidedIn(k)
    BY <1>0, <2>1, <2>2 DEF DecidedIn, Decided, LimitTypeOK
  <2>6. \A q \in Requests : stage'[q] = "refused" => ticket'[q].n > Limit
    BY <1>0, <2>1, <2>2 DEF LimitTypeOK
  <2> QED
    BY <2>1, <2>3, <2>4, <2>5, <2>6, CountedKeeps
<1>6. CASE Roll \/ UNCHANGED limitVars
  <2>1. UNCHANGED <<count, redis, own, used, stage, index, ticket>>
    BY <1>6 DEF Roll, limitVars
  <2>2. \A k \in Windows : PastRedis(k) \subseteq PastRedis(k)'
                             /\ DecidedIn(k) \subseteq DecidedIn(k)'
    BY <2>1 DEF PastRedis, DecidedIn, Decided
  <2> QED
    BY <1>0, <2>1, <2>2, UncountedKeeps
<1>7. CASE RedisComesBack
  <2>1. PICK c \in Counters \ used : redis' = c /\ used' = used \cup {c}
    BY <1>7 DEF RedisComesBack
  <2>2. UNCHANGED <<count, own, stage, index, ticket>>
    BY <1>7 DEF RedisComesBack
  <2>3. \A k \in Windows : PastRedis(k) \subseteq PastRedis(k)'
                             /\ DecidedIn(k) \subseteq DecidedIn(k)'
    BY <2>2 DEF PastRedis, DecidedIn, Decided
  <2> QED
    BY <1>0, <2>1, <2>2, <2>3, FreshKeeps
<1>8. ASSUME NEW w \in Hosts, WorkerRestarts(w) PROVE CountInv'
  <2>1. PICK c \in Counters \ used : own' = [own EXCEPT ![w] = c] /\ used' = used \cup {c}
    BY <1>8 DEF WorkerRestarts
  <2>2. /\ UNCHANGED <<count, redis, index, ticket>>
        /\ \A r \in Requests : stage'[r] \in {stage[r], "lost"}
        /\ \A r \in Requests : Decided(r) => stage'[r] = stage[r]
        /\ \A r \in Requests : stage[r] = "new" => stage'[r] = "new"
    BY <1>8 DEF WorkerRestarts, Decided
  <2>3. \A k \in Windows : PastRedis(k) \subseteq PastRedis(k)'
                             /\ DecidedIn(k) \subseteq DecidedIn(k)'
    BY <2>2 DEF PastRedis, DecidedIn, Decided
  <2>4. \A r \in Requests : stage'[r] = "refused" => ticket'[r].n > Limit
    BY <1>0, <2>2
  <2> QED
    BY <2>1, <2>2, <2>3, <2>4, FreshKeeps
<1> QED
  BY <1>1, <1>2, <1>3, <1>4, <1>5, <1>6, <1>7, <1>8 DEF LimitNext

\* A request is refused only for a number past the limit, and a counter that gave it out
\* had counted that many requests of the window.
LEMMA RefusalEarned == RateInv /\ CountInv => NeverRefusedEarly
<1> SUFFICES ASSUME RateInv, CountInv, NEW r \in Requests, stage[r] = "refused"
             PROVE  Cardinality(Seen(ticket[r].in)) > Limit
  BY DEF NeverRefusedEarly
<1> USE RateLimitAssumption
<1> DEFINE s == ticket[r].by
           k == ticket[r].in
<1>1. /\ s \in Counters /\ k \in Windows /\ ticket[r].n \in Nat /\ ticket[r].n > Limit
      /\ ticket[r].n <= count[s][k] /\ count[s][k] \in Nat
  BY DEF RateInv, LimitTypeOK, Tickets, Held, Holds, CountInv
<1>2. PICK T \in SUBSET Seen(k) : count[s][k] <= Cardinality(T)
  <2>1. PastRedis(k) \subseteq Seen(k) /\ DecidedIn(k) \subseteq Seen(k)
    BY DEF PastRedis, DecidedIn, Seen, Decided
  <2> HIDE DEF k, s
  <2> QED
    BY <1>1, <2>1 DEF CountInv, OfRedis, OfWorker
<1>3. Seen(k) \in SUBSET Requests
  BY DEF Seen
<1>4. Cardinality(T) \in Nat /\ Cardinality(Seen(k)) \in Nat
      /\ Cardinality(T) <= Cardinality(Seen(k))
  BY <1>2, <1>3, RequestCount
<1> QED
  BY <1>1, <1>2, <1>4

\* "Never refused for the outage itself" (rate_limit.py:36-39): a caller is refused only in
\* a window it made more than Limit requests in, though a failing Redis and then the worker
\* may count one of them twice.
THEOREM RefusedOnlyAboveLimit == LimitSpec => []NeverRefusedEarly
<1>1. LimitInit => RateInv /\ CountInv
  BY RateInit, CountInit
<1>2. RateInv /\ CountInv /\ [LimitNext]_limitVars => (RateInv /\ CountInv)'
  BY RateNext, CountNext
<1> QED
  BY <1>1, <1>2, RefusalEarned, PTL DEF LimitSpec

-----------------------------------------------------------------------------
(* The registry of turns.                                                  *)

\* Counting is the same inside the instance.
LEMMA RegistryCounts ==
  ASSUME NEW S PROVE Registry!Cardinality(S) = Cardinality(S)
  BY DEF Registry!Cardinality, Cardinality

RegistryInv == Registry!TypeOK /\ IsFiniteSet(registered) /\ Registry!RunningHeld

\* A registry starts empty.
LEMMA RegistryInit == Registry!Init => RegistryInv
  BY RegistryAssumption, FS_EmptySet
     DEF Registry!Init, RegistryInv, Registry!TypeOK, Registry!RunningHeld

\* What an eviction leaves: what it drops had finished, and is too old or, over the
\* ceiling, among the first to finish.
LEMMA EvictDrops ==
  ASSUME RegistryInv, NEW kept, Registry!Evict(kept)
  PROVE  /\ kept \subseteq registered /\ running \subseteq kept
         /\ IsFiniteSet(kept) /\ Cardinality(kept) \in Nat
         /\ Cardinality(running) \in Nat
         /\ Cardinality(kept) <= MaxTurns \/ Cardinality(kept) <= Cardinality(running)
         /\ \A t \in registered \ kept : now - finished[t] <= TTL =>
              /\ Cardinality(registered) > MaxTurns
              /\ \A u \in kept \ running : finished[t] <= finished[u]
<1> DEFINE fresh == registered \ Registry!Expired
           over == Registry!Overflow(fresh)
<1> USE RegistryAssumption
<1>1. PICK D \in Registry!Oldest(fresh \ running, over) : kept = fresh \ D
  BY DEF Registry!Evict
<1>2. /\ D \subseteq fresh \ running
      /\ Cardinality(D) = IF over <= Cardinality(fresh \ running) THEN over
                          ELSE Cardinality(fresh \ running)
      /\ \A d \in D, t \in (fresh \ running) \ D : finished[d] <= finished[t]
  BY RegistryCounts DEF Registry!Oldest
<1>3. /\ fresh \subseteq registered /\ running \subseteq fresh
      /\ \A t \in registered \ fresh : ~(now - finished[t] <= TTL)
  <2>1. \A t \in registered : now - finished[t] \in Int
    BY DEF RegistryInv, Registry!TypeOK
  <2> QED
    BY <2>1 DEF Registry!Expired, RegistryInv, Registry!RunningHeld
<1>4. over = IF Cardinality(fresh) > MaxTurns THEN Cardinality(fresh) - MaxTurns ELSE 0
  BY RegistryCounts DEF Registry!Overflow
<1> HIDE DEF fresh, over
<1>5. /\ IsFiniteSet(registered) /\ IsFiniteSet(fresh) /\ IsFiniteSet(running)
      /\ IsFiniteSet(fresh \ running) /\ IsFiniteSet(D) /\ IsFiniteSet(kept)
  BY <1>1, <1>2, <1>3, FS_Subset DEF RegistryInv
<1>6. /\ Cardinality(registered) \in Nat /\ Cardinality(fresh) \in Nat /\ Cardinality(running) \in Nat
      /\ Cardinality(fresh \ running) \in Nat /\ Cardinality(D) \in Nat
      /\ Cardinality(kept) \in Nat /\ Cardinality(fresh) <= Cardinality(registered)
  BY <1>3, <1>5, FS_CardinalityType, FS_Subset
<1>7. Cardinality(kept) = Cardinality(fresh) - Cardinality(D)
  <2>1. fresh \cap D = D
    BY <1>2
  <2>2. Cardinality(fresh \ D) = Cardinality(fresh) - Cardinality(fresh \cap D)
    BY <1>5, FS_Difference
  <2> QED
    BY <1>1, <2>1, <2>2
<1>8. Cardinality(kept) <= MaxTurns \/ Cardinality(kept) <= Cardinality(running)
  <2>1. CASE over <= Cardinality(fresh \ running)
    BY <1>2, <1>4, <1>6, <1>7, <2>1
  <2>2. CASE ~(over <= Cardinality(fresh \ running))
    <3>1. Cardinality(fresh \ running) = Cardinality(fresh) - Cardinality(running)
      <4>1. fresh \cap running = running
        BY <1>3
      <4> QED
        BY <1>5, <4>1, FS_Difference
    <3> QED
      BY <1>2, <1>6, <1>7, <2>2, <3>1
  <2> QED
    BY <2>1, <2>2
<1>9. ASSUME NEW t \in registered \ kept, now - finished[t] <= TTL
      PROVE  /\ Cardinality(registered) > MaxTurns
             /\ \A u \in kept \ running : finished[t] <= finished[u]
  <2>1. t \in D
    BY <1>1, <1>3, <1>9
  <2>2. Cardinality(D) # 0
    BY <1>5, <2>1, FS_EmptySet
  <2>3. Cardinality(fresh) > MaxTurns
    BY <1>2, <1>4, <1>6, <2>2
  <2> QED
    BY <1>1, <1>2, <1>6, <2>1, <2>3
<1> QED
  BY <1>1, <1>2, <1>3, <1>5, <1>6, <1>8, <1>9

\* Every step keeps the turns at work in the registry.
LEMMA RegistryNext == RegistryInv /\ [Registry!Next]_Registry!vars => RegistryInv'
<1> SUFFICES ASSUME RegistryInv, [Registry!Next]_Registry!vars PROVE RegistryInv'
  OBVIOUS
<1> USE RegistryAssumption DEF RegistryInv, Registry!TypeOK, Registry!RunningHeld
<1>1. ASSUME NEW t \in Turns, Registry!Start(t) PROVE RegistryInv'
  <2>1. PICK kept : Registry!Evict(kept) /\ registered' = kept \cup {t}
    BY <1>1 DEF Registry!Start
  <2>2. kept \subseteq registered /\ running \subseteq kept /\ IsFiniteSet(kept)
    BY <2>1, EvictDrops
  <2>3. IsFiniteSet(registered')
    BY <2>1, <2>2, FS_AddElement
  <2> QED
    BY <1>1, <2>1, <2>2, <2>3 DEF Registry!Start
<1>2. ASSUME NEW t \in Turns, Registry!Finish(t) PROVE RegistryInv'
  BY <1>2 DEF Registry!Finish
<1>3. CASE Registry!Get
  <2>1. Registry!Evict(registered')
    BY <1>3 DEF Registry!Get
  <2>2. registered' \subseteq registered /\ running \subseteq registered' /\ IsFiniteSet(registered')
    BY <2>1, EvictDrops
  <2> QED
    BY <1>3, <2>2 DEF Registry!Get
<1>4. CASE Registry!Tick
  BY <1>4 DEF Registry!Tick
<1>5. CASE UNCHANGED Registry!vars
  BY <1>5 DEF Registry!vars
<1> QED
  BY <1>1, <1>2, <1>3, <1>4, <1>5 DEF Registry!Next

\* A step drops a young turn only over the ceiling and the oldest first.
OldestStep ==
  \A t \in registered \ registered' :
    now - finished[t] <= TTL =>
      /\ Registry!Cardinality(registered) > MaxTurns
      /\ \A u \in registered' \ running' : finished[t] <= finished[u]

\* A step leaves no more than the ceiling, or than what runs, and what it started.
CeilingStep ==
  registered' # registered =>
    Registry!Cardinality(registered') <=
      (IF Registry!Cardinality(running) > MaxTurns THEN Registry!Cardinality(running) ELSE MaxTurns)
        + Registry!Cardinality(registered' \ registered)

\* Both hold of every step, since only an eviction drops a turn.
LEMMA RegistryStep ==
  ASSUME RegistryInv, [Registry!Next]_Registry!vars
  PROVE  OldestStep /\ CeilingStep
<1> USE RegistryAssumption
<1>1. CASE registered' = registered
  BY <1>1 DEF OldestStep, CeilingStep
<1>2. ASSUME NEW t \in Turns, Registry!Start(t)
      PROVE  OldestStep /\ CeilingStep
  <2>1. PICK kept \in SUBSET registered : Registry!Evict(kept) /\ registered' = kept \cup {t}
    BY <1>2 DEF Registry!Start
  <2>2. t \notin registered /\ running' = running \cup {t}
    BY <1>2 DEF Registry!Start
  <2>3. OldestStep
    BY <2>1, <2>2, EvictDrops, RegistryCounts DEF OldestStep
  <2>4. /\ IsFiniteSet(kept) /\ Cardinality(kept) \in Nat /\ Cardinality(running) \in Nat
        /\ Cardinality(kept) <= MaxTurns \/ Cardinality(kept) <= Cardinality(running)
    BY <2>1, EvictDrops
  <2>5. Cardinality(registered') = Cardinality(kept) + 1
    BY <2>1, <2>2, <2>4, FS_AddElement
  <2>6. Cardinality(registered' \ registered) = 1
    <3>1. registered' \ registered = {t}
      BY <2>1, <2>2
    <3> QED
      BY <3>1, FS_Singleton
  <2> QED
    BY <2>3, <2>4, <2>5, <2>6, RegistryCounts DEF CeilingStep
<1>3. CASE Registry!Get
  <2>1. Registry!Evict(registered') /\ registered' \subseteq registered /\ running' = running
    BY <1>3 DEF Registry!Get
  <2>2. OldestStep
    BY <2>1, EvictDrops, RegistryCounts DEF OldestStep
  <2>3. /\ Cardinality(registered') \in Nat /\ Cardinality(running) \in Nat
        /\ Cardinality(registered') <= MaxTurns \/ Cardinality(registered') <= Cardinality(running)
    BY <2>1, EvictDrops
  <2>4. Cardinality(registered' \ registered) = 0
    <3>1. registered' \ registered = {}
      BY <2>1
    <3> QED
      BY <3>1, FS_EmptySet
  <2> QED
    BY <2>2, <2>3, <2>4, RegistryCounts DEF CeilingStep
<1>4. (\E t \in Turns : Registry!Finish(t)) \/ Registry!Tick \/ UNCHANGED Registry!vars
        => registered' = registered
  BY DEF Registry!Finish, Registry!Tick, Registry!vars
<1> QED
  BY <1>1, <1>2, <1>3, <1>4 DEF Registry!Next

\* A turn at work can be found by the reader that lost it and by Stop; a finished one that
\* is young goes only over the ceiling, the oldest first, and a call leaves no more than
\* the ceiling or what runs (LocalTurnRegistry of turn_log.py).
THEOREM RegistryHolds == Registry!Spec => RegistryKept
<1>1. RegistryInv => Registry!RunningHeld
  BY DEF RegistryInv
<1>2. RegistryInv /\ [Registry!Next]_Registry!vars =>
        [OldestStep]_Registry!vars /\ [CeilingStep]_Registry!vars
  BY RegistryStep
<1>3. [][OldestStep]_Registry!vars => Registry!OldestFirst
  BY DEF OldestStep, Registry!OldestFirst
<1>4. [][CeilingStep]_Registry!vars => Registry!CeilingKept
  BY DEF CeilingStep, Registry!CeilingKept
<1> QED
  BY RegistryInit, RegistryNext, <1>1, <1>2, <1>3, <1>4, PTL DEF Registry!Spec, RegistryKept

\* The types of the limiter and of the registry.
THEOREM LimitsTyped == LimitsSpec => []TypesKept
<1>1. LimitsInit => RateInv /\ RegistryInv
  BY RateInit, RegistryInit DEF LimitsInit
<1>2. [LimitsNext]_<<limitPart, limitVars, registryVars>> => [LimitNext]_limitVars /\ [Registry!Next]_Registry!vars
  BY DEF LimitsNext, registryVars, Registry!vars
<1>3. RateInv /\ RegistryInv /\ [LimitsNext]_<<limitPart, limitVars, registryVars>> =>
        RateInv' /\ RegistryInv'
  BY <1>2, RateNext, RegistryNext
<1>4. RateInv /\ RegistryInv => TypesKept
  BY DEF RateInv, RegistryInv, TypesKept
<1> QED
  BY <1>1, <1>3, <1>4, PTL DEF LimitsSpec
=============================================================================
