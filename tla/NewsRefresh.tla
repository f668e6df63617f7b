---------------------------- MODULE NewsRefresh ----------------------------
(***************************************************************************)
(* The background task that refreshes the trending-news panels             *)
(* (src/ceynex/news/refresh.py).  Every worker process runs it; a lock in  *)
(* Redis with a lease is meant to let one of them refresh per cycle, and   *)
(* the panels live in Postgres (src/ceynex/news/snapshot.py).              *)
(*                                                                         *)
(* `pc' names the await or the synchronous database call a worker is about *)
(* to make.  Time is a set of countdowns, moved by Tick at any moment: the *)
(* code bounds none of the awaits inside a cycle by the lease.             *)
(***************************************************************************)
EXTENDS Integers, Sequences, SequencesExt, FiniteSets

CONSTANTS
  Workers,
  Scopes,      \* the panels, as the sequence SCOPES
  Topics,      \* the watchlist, in order
  ScopeOf,     \* topic -> its scope
  Lease,       \* lock_ttl_seconds, in ticks
  Interval,    \* interval_minutes, in ticks
  Jitter,      \* jitter_seconds, in ticks
  MaxMishaps   \* bound: topics, reads, writes and Redis calls that fail, and crashes

Nobody == "nobody"
Gone == "gone"
Elems(s) == {s[i] : i \in DOMAIN s}

ASSUME NewsAssumption ==
  /\ Scopes \in Seq(Elems(Scopes)) /\ Topics \in Seq(Elems(Topics))
  /\ Nobody \notin Workers /\ Gone \notin Workers
  /\ Lease \in Nat \ {0} /\ Interval \in Nat /\ Jitter \in Nat /\ MaxMishaps \in Nat

VARIABLES
  pc,      \* worker -> where its task is
  nap,     \* worker -> ticks left to sleep
  todo,    \* worker -> the scopes or topics its loop has still to visit
  good,    \* worker -> topics computed in this cycle, until it is over
  failed,  \* worker -> topics that failed in this cycle, until it is over
  lock,    \* whose token is in Redis: a worker, Nobody, or Gone (a dead process's)
  lease,   \* ticks the lock has left
  panel,   \* scope -> the latest snapshot
  lapsed,  \* the workers whose lock was lost while they refreshed, or between their GET
           \* and their DEL: it expired, or it was deleted by another of these
  mishaps

vars == <<pc, nap, todo, good, failed, lock, lease, panel, lapsed, mishaps>>

PCs == {"asleep", "check", "acquire", "topics", "beat", "extend", "write", "release", "delete"}
Refreshing == {w \in Workers : pc[w] \in {"topics", "beat", "extend", "write"}}

\* A panel shows the busy topics of its scope; `age' stops at Interval.  `lost' are
\* the scope's topics that failed in the cycle that wrote it.
NoPanel == [age |-> Interval, shows |-> {}, partial |-> FALSE, lost |-> {}]

TypeOK ==
  /\ pc \in [Workers -> PCs]
  /\ nap \in [Workers -> 0..(Interval + Jitter)]
  /\ \A w \in Workers : IsSuffix(todo[w], Scopes) \/ IsSuffix(todo[w], Topics)
  /\ \A w \in Workers : good[w] \subseteq Elems(Topics) /\ failed[w] \subseteq Elems(Topics)
  /\ lock \in Workers \cup {Nobody, Gone} /\ lease \in 0..Lease
  /\ (lock = Nobody) <=> (lease = 0)
  /\ panel \in [Elems(Scopes) -> [age : 0..Interval, shows : SUBSET Elems(Topics),
                                  partial : BOOLEAN, lost : SUBSET Elems(Topics)]]
  /\ lapsed \subseteq Workers /\ mishaps \in 0..MaxMishaps

Init ==
  /\ pc = [w \in Workers |-> "asleep"] /\ nap = [w \in Workers |-> 0]
  /\ todo = [w \in Workers |-> <<>>]
  /\ good = [w \in Workers |-> {}] /\ failed = [w \in Workers |-> {}]
  /\ lock = Nobody /\ lease = 0
  /\ panel = [s \in Elems(Scopes) |-> NoPanel]
  /\ lapsed = {} /\ mishaps = 0

Goto(w, next) == pc' = [pc EXCEPT ![w] = next]
Mishap == mishaps < MaxMishaps /\ mishaps' = mishaps + 1
Well == mishaps' = mishaps
redis == <<lock, lease>>
cycle == <<good, failed>>
\* What a cycle has found is its own: report and computed are locals of refresh_once.
Forget(w) == good' = [good EXCEPT ![w] = {}] /\ failed' = [failed EXCEPT ![w] = {}]

Sleep(w) ==
  /\ Goto(w, "asleep")
  /\ \E j \in {0, Jitter} : nap' = [nap EXCEPT ![w] = Interval + j]
  /\ todo' = [todo EXCEPT ![w] = <<>>]

\* The loop's sleep is over (also the startup delay).
Wake(w) ==
  /\ pc[w] = "asleep" /\ nap[w] = 0
  /\ Goto(w, "check")
  /\ todo' = [todo EXCEPT ![w] = Scopes]
  /\ Well /\ UNCHANGED <<nap, redis, cycle, panel, lapsed>>

\* _should_refresh looks at one panel after the other; a read that fails is a
\* panel that is not there.
Check(w) ==
  /\ pc[w] = "check" /\ todo[w] # <<>>
  /\ \/ /\ panel[Head(todo[w])].age >= Interval
        /\ Goto(w, "acquire") /\ Well /\ UNCHANGED <<todo, nap>>
     \/ /\ panel[Head(todo[w])].age < Interval
        /\ todo' = [todo EXCEPT ![w] = Tail(@)]
        /\ Well /\ UNCHANGED <<pc, nap>>
     \/ Mishap /\ Goto(w, "acquire") /\ UNCHANGED <<todo, nap>>
  /\ UNCHANGED <<redis, cycle, panel, lapsed>>

Fresh(w) ==
  /\ pc[w] = "check" /\ todo[w] = <<>>
  /\ Sleep(w) /\ Well /\ UNCHANGED <<redis, cycle, panel, lapsed>>

\* SET key token NX EX ttl.
Acquire(w) ==
  /\ pc[w] = "acquire" /\ lock = Nobody
  /\ lock' = w /\ lease' = Lease
  /\ Goto(w, "topics")
  /\ todo' = [todo EXCEPT ![w] = Topics]
  /\ lapsed' = lapsed \ {w}
  /\ Well /\ UNCHANGED <<nap, cycle, panel>>

\* Not the refresher of this cycle: another holds the lock, or Redis is away.
Skip(w) ==
  /\ pc[w] = "acquire"
  /\ (lock # Nobody /\ Well) \/ Mishap
  /\ Sleep(w) /\ UNCHANGED <<redis, cycle, panel, lapsed>>

\* One topic of refresh_once.  A topic that fails skips the heartbeat.
Topic(w) ==
  /\ pc[w] = "topics" /\ todo[w] # <<>>
  /\ \/ /\ good' = [good EXCEPT ![w] = @ \cup {Head(todo[w])}]
        /\ Goto(w, "beat") /\ Well /\ UNCHANGED failed
     \/ /\ failed' = [failed EXCEPT ![w] = @ \cup {Head(todo[w])}]
        /\ Mishap /\ UNCHANGED <<pc, good>>
  /\ todo' = [todo EXCEPT ![w] = Tail(@)]
  /\ UNCHANGED <<nap, redis, panel, lapsed>>

\* After the last topic: nothing computed keeps the previous panels.
Computed(w) ==
  /\ pc[w] = "topics" /\ todo[w] = <<>>
  /\ IF good[w] = {} THEN Goto(w, "release") /\ todo' = todo
     ELSE Goto(w, "write") /\ todo' = [todo EXCEPT ![w] = Scopes]
  /\ Well /\ UNCHANGED <<nap, cycle, redis, panel, lapsed>>

\* heartbeat: a GET that compares the token ...
Beat(w) ==
  /\ pc[w] = "beat"
  /\ \/ lock = w /\ Goto(w, "extend") /\ Well
     \/ lock # w /\ Goto(w, "topics") /\ Well
     \/ Mishap /\ Goto(w, "topics")
  /\ UNCHANGED <<nap, todo, cycle, redis, panel, lapsed>>

\* ... and a PEXPIRE of whatever lock is there by then.
Extend(w) ==
  /\ pc[w] = "extend"
  /\ \/ lease' = (IF lock = Nobody THEN 0 ELSE Lease) /\ Well
     \/ Mishap /\ UNCHANGED lease
  /\ Goto(w, "topics")
  /\ UNCHANGED <<nap, todo, cycle, lock, panel, lapsed>>

Partial(w) == failed[w] # {} /\ good[w] # {}

\* One panel: rank keeps the topics of the scope with enough articles, and an
\* INSERT that fails leaves the previous row the latest.
WritePanel(w) ==
  /\ pc[w] = "write" /\ todo[w] # <<>>
  /\ LET s == Head(todo[w])
         mine == {t \in good[w] : ScopeOf[t] = s}
     IN \/ \E busy \in SUBSET mine :
             panel' = [panel EXCEPT ![s] =
               [age |-> 0, shows |-> busy, partial |-> Partial(w),
                lost |-> {t \in failed[w] : ScopeOf[t] = s}]]
           /\ Well
        \/ Mishap /\ UNCHANGED panel
  /\ todo' = [todo EXCEPT ![w] = Tail(@)]
  /\ UNCHANGED <<pc, nap, cycle, redis, lapsed>>

Written(w) ==
  /\ pc[w] = "write" /\ todo[w] = <<>>
  /\ Goto(w, "release")
  /\ Well /\ UNCHANGED <<nap, todo, cycle, redis, panel, lapsed>>

\* An exception nobody foresaw, or the cancellation of the task: the finally
\* clause still releases.
CycleFails(w) ==
  /\ w \in Refreshing /\ Mishap
  /\ Goto(w, "release")
  /\ UNCHANGED <<nap, todo, cycle, redis, panel, lapsed>>

\* Mutant: a bare DEL.
Release_Bare(w) ==
  /\ pc[w] = "release"
  /\ Goto(w, "delete") /\ lapsed' = lapsed \ {w} /\ Forget(w) /\ Well
  /\ UNCHANGED <<nap, todo, redis, panel>>

\* release: a GET that compares the token, the refresh being over ...
Release(w) ==
  /\ pc[w] = "release" /\ lapsed' = lapsed \ {w} /\ Forget(w)
  /\ \/ lock = w /\ Goto(w, "delete") /\ Well /\ UNCHANGED <<nap, todo>>
     \/ lock # w /\ Sleep(w) /\ Well
     \/ Mishap /\ Sleep(w)
  /\ UNCHANGED <<redis, panel>>

\* ... and a DEL of whatever lock is there by then.
Delete(w) ==
  /\ pc[w] = "delete"
  /\ \/ /\ lock' = Nobody /\ lease' = 0 /\ Well
        /\ lapsed' = IF w \in lapsed THEN lapsed \cup ({lock} \cap Workers) ELSE lapsed
     \/ Mishap /\ UNCHANGED <<redis, lapsed>>
  /\ Sleep(w) /\ UNCHANGED <<cycle, panel>>

\* The process dies and comes back with a new token.
Crash(w) ==
  /\ Mishap
  /\ pc' = [pc EXCEPT ![w] = "asleep"] /\ nap' = [nap EXCEPT ![w] = 0]
  /\ todo' = [todo EXCEPT ![w] = <<>>]
  /\ lock' = IF lock = w THEN Gone ELSE lock
  /\ Forget(w) /\ UNCHANGED <<lease, panel, lapsed>>

\* Mutant: no expiry on the key.
Left_Forever == lease

\* What the `ex' of the SET leaves after a tick.
Left == IF lease = 0 THEN 0 ELSE lease - 1

Down(n) == IF n = 0 THEN 0 ELSE n - 1

Tick ==
  /\ lease' = Left
  /\ lock' = IF Left = 0 THEN Nobody ELSE lock
  /\ lapsed' = IF Left = 0 /\ lock \in Workers /\ pc[lock] \notin {"asleep", "check", "acquire"}
               THEN lapsed \cup {lock} ELSE lapsed
  /\ nap' = [w \in Workers |-> Down(nap[w])]
  /\ panel' = [s \in DOMAIN panel |->
                 [panel[s] EXCEPT !.age = IF @ < Interval THEN @ + 1 ELSE @]]
  /\ Well /\ UNCHANGED <<pc, todo, cycle>>

Step(w) ==
  \/ Wake(w) \/ Check(w) \/ Fresh(w) \/ Acquire(w) \/ Skip(w)
  \/ Topic(w) \/ Computed(w) \/ Beat(w) \/ Extend(w)
  \/ WritePanel(w) \/ Written(w) \/ CycleFails(w) \/ Release(w) \/ Delete(w)

Next == Tick \/ \E w \in Workers : Step(w) \/ Crash(w)

Spec == Init /\ [][Next]_vars

\* The event loops run their tasks and time passes.
FairSpec == Spec /\ WF_vars(Tick) /\ \A w \in Workers : WF_vars(Step(w))

-----------------------------------------------------------------------------
\* Two workers refresh at once only when one of them has lost its lock: to the
\* lease, or to a release whose own lease ran out between its GET and its DEL.
OneRefresher ==
  \A v, w \in Refreshing : v # w => v \in lapsed \/ w \in lapsed

\* A panel that lacks a topic because its fetch failed says so, also when every
\* topic of its scope failed and the panel comes out empty.
HonestPanel == \A s \in DOMAIN panel : panel[s].lost # {} => panel[s].partial

\* A panel as old as the interval is written again, whoever crashed holding the lock.
Refreshed == \A s \in Elems(Scopes) : panel[s].age >= Interval ~> panel[s].age = 0
=============================================================================
