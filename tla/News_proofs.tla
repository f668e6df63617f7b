---------------------------- MODULE News_proofs ----------------------------
(***************************************************************************)
(* The news refresher and the gate in front of its data source, for any    *)
(* number of workers, panels, topics, callers and processes.               *)
(*                                                                         *)
(* The refresher: a worker that refreshes, or is about to delete the lock  *)
(* it saw as its own, holds the lock or has lost it and is known to have   *)
(* (LockInv); the lock has one owner, so of two refreshing workers one has *)
(* lapsed.  A worker that writes panels computed a topic (WritingInv), so  *)
(* a topic that failed makes what it writes partial.                       *)
(*                                                                         *)
(* The gate: what a slot or a penalty still forbids has not run out before *)
(* the gate itself (Shut), so a caller that passes finds neither.          *)
(***************************************************************************)
EXTENDS MCNews, SequenceTheorems, TLAPS

-----------------------------------------------------------------------------
(* What a loop has still to visit.                                         *)

Rest(s, t) == s \in Seq(Elems(t)) /\ IsSuffix(s, t)

\* A loop starts with everything, and ends with nothing.
LEMMA RestWhole ==
  ASSUME NEW t, t \in Seq(Elems(t)) PROVE Rest(t, t) /\ Rest(<<>>, t)
  BY DEF Rest, IsSuffix, IsPrefix, Reverse

\* What is left of a loop after its first element is a rest of it again.
LEMMA RestTail ==
  ASSUME NEW t, t \in Seq(Elems(t)), NEW s, Rest(s, t), s # <<>>
  PROVE  Rest(Tail(s), t) /\ Head(s) \in Elems(t)
<1> DEFINE m == Len(s)
           n == Len(t)
<1>1. s \in Seq(Elems(t)) /\ m \in Nat \ {0} /\ n \in Nat /\ m <= n
  BY DEF Rest, IsSuffix, IsPrefix, Reverse
<1>2. \A i \in 1..m : s[i] = t[n - m + i]
  <2>1. ASSUME NEW i \in 1..m PROVE s[i] = t[n - m + i]
    <3>0. m - i + 1 \in 1..m
      BY <1>1
    <3>1. PICK j \in 1..m : j = m - i + 1
      BY <3>0
    <3>2. /\ Len(Reverse(s)) = m /\ Reverse(s)[j] = s[m - j + 1]
          /\ Len(Reverse(t)) = n /\ Reverse(t)[j] = t[n - j + 1]
      BY <1>1 DEF Reverse
    <3>3. SubSeq(Reverse(s), 1, m) = SubSeq(Reverse(t), 1, m)
      BY <3>2 DEF Rest, IsSuffix, IsPrefix
    <3>4. /\ SubSeq(Reverse(s), 1, m)[j] = Reverse(s)[j]
          /\ SubSeq(Reverse(t), 1, m)[j] = Reverse(t)[j]
      BY <1>1, <3>2
    <3>5. m - j + 1 = i /\ n - j + 1 = n - m + i
      BY <1>1, <3>1
    <3> QED
      BY <3>2, <3>3, <3>4, <3>5
  <2> QED
    BY <2>1
<1>3. /\ Tail(s) \in Seq(Elems(t)) /\ Len(Tail(s)) = m - 1 /\ Head(s) \in Elems(t)
      /\ \A i \in 1..(m - 1) : Tail(s)[i] = s[i + 1]
  BY <1>1, HeadTailProperties
<1>4. IsSuffix(Tail(s), t)
  <2>1. \A j \in 1..(m - 1) : Reverse(Tail(s))[j] = Reverse(t)[j]
    <3>1. ASSUME NEW j \in 1..(m - 1) PROVE Reverse(Tail(s))[j] = Reverse(t)[j]
      <4>1. /\ Reverse(Tail(s))[j] = Tail(s)[m - 1 - j + 1]
            /\ Reverse(t)[j] = t[n - j + 1]
        BY <1>1, <1>3 DEF Reverse
      <4>2. m - 1 - j + 1 \in 1..(m - 1) /\ m - 1 - j + 1 + 1 \in 1..m
        BY <1>1
      <4>3. Tail(s)[m - 1 - j + 1] = t[n - m + (m - 1 - j + 1 + 1)]
        BY <1>2, <1>3, <4>2
      <4>4. n - m + (m - 1 - j + 1 + 1) = n - j + 1
        BY <1>1
      <4> QED
        BY <4>1, <4>3, <4>4
    <3> QED
      BY <3>1
  <2>2. Len(Reverse(Tail(s))) = m - 1 /\ Len(Reverse(t)) = n /\ m - 1 <= n
    BY <1>1, <1>3 DEF Reverse
  <2>3. SubSeq(Reverse(Tail(s)), 1, m - 1) = SubSeq(Reverse(t), 1, m - 1)
    BY <1>1, <2>1, <2>2
  <2> QED
    BY <2>2, <2>3 DEF IsSuffix, IsPrefix
<1> QED
  BY <1>3, <1>4 DEF Rest

-----------------------------------------------------------------------------
(* The refresher.                                                          *)

\* What a worker has still to visit is what is left of the loop it is in.
TodoInv ==
  \A w \in Workers :
    /\ Rest(todo[w], Scopes) \/ Rest(todo[w], Topics)
    /\ pc[w] \in {"check", "write"} => Rest(todo[w], Scopes)
    /\ pc[w] \in {"topics", "beat", "extend"} => Rest(todo[w], Topics)

\* A worker that refreshes, or deletes the lock it saw as its own, has it or lost it.
LockInv ==
  \A w \in Workers :
    pc[w] \in {"topics", "beat", "extend", "write", "delete"} => lock = w \/ w \in lapsed

\* Panels are written by a worker that computed a topic.
WritingInv == \A w \in Workers : pc[w] = "write" => good[w] # {}

Values ==
  /\ pc \in [Workers -> PCs]
  /\ nap \in [Workers -> 0..(Interval + Jitter)]
  /\ todo \in [Workers -> Seq(Elems(Scopes)) \cup Seq(Elems(Topics))]
  /\ good \in [Workers -> SUBSET Elems(Topics)]
  /\ failed \in [Workers -> SUBSET Elems(Topics)]
  /\ lock \in Workers \cup {Nobody, Gone} /\ lease \in 0..Lease
  /\ (lock = Nobody) <=> (lease = 0)
  /\ panel \in [Elems(Scopes) -> [age : 0..Interval, shows : SUBSET Elems(Topics),
                                  partial : BOOLEAN, lost : SUBSET Elems(Topics)]]
  /\ lapsed \subseteq Workers /\ mishaps \in 0..MaxMishaps

RefreshInv == Values /\ TodoInv /\ LockInv /\ WritingInv /\ HonestPanel

\* The refresher starts asleep, with nothing to visit and no panel.
LEMMA RefreshInit == Init => RefreshInv
<1> SUFFICES ASSUME Init PROVE RefreshInv
  OBVIOUS
<1> USE NewsAssumption
<1>1. Values
  <2>1. <<>> \in Seq(Elems(Scopes))
    OBVIOUS
  <2>2. NoPanel \in [age : 0..Interval, shows : SUBSET Elems(Topics),
                     partial : BOOLEAN, lost : SUBSET Elems(Topics)]
    BY DEF NoPanel
  <2> QED
    BY <2>1, <2>2 DEF Init, Values, PCs
<1>2. TodoInv
  BY RestWhole DEF Init, TodoInv
<1>3. LockInv /\ WritingInv /\ HonestPanel
  BY DEF Init, LockInv, WritingInv, HonestPanel, NoPanel
<1> QED
  BY <1>1, <1>2, <1>3 DEF RefreshInv

\* A step of a worker keeps the rests of the loops when what it leaves itself is one.
LEMMA LoopKeeps ==
  ASSUME RefreshInv, NEW w \in Workers, NEW s, NEW next \in PCs,
         pc' = [pc EXCEPT ![w] = next], todo' = [todo EXCEPT ![w] = s],
         Rest(s, Scopes) \/ Rest(s, Topics),
         next \in {"check", "write"} => Rest(s, Scopes),
         next \in {"topics", "beat", "extend"} => Rest(s, Topics)
  PROVE  /\ TodoInv' /\ pc' \in [Workers -> PCs]
         /\ todo' \in [Workers -> Seq(Elems(Scopes)) \cup Seq(Elems(Topics))]
<1>1. /\ pc'[w] = next /\ todo'[w] = s
      /\ \A v \in Workers \ {w} : pc'[v] = pc[v] /\ todo'[v] = todo[v]
      /\ pc' \in [Workers -> PCs]
  BY DEF RefreshInv, Values
<1>2. s \in Seq(Elems(Scopes)) \cup Seq(Elems(Topics))
  BY DEF Rest
<1>3. TodoInv'
  BY <1>1 DEF TodoInv, RefreshInv
<1> QED
  BY <1>1, <1>2, <1>3 DEF RefreshInv, Values

\* What a worker goes on with, when it goes to sleep.
LEMMA SleepKeeps ==
  ASSUME RefreshInv, NEW w \in Workers, Sleep(w)
  PROVE  /\ TodoInv' /\ pc' = [pc EXCEPT ![w] = "asleep"] /\ pc' \in [Workers -> PCs]
         /\ todo' \in [Workers -> Seq(Elems(Scopes)) \cup Seq(Elems(Topics))]
         /\ nap' \in [Workers -> 0..(Interval + Jitter)]
<1> USE NewsAssumption
<1>1. pc' = [pc EXCEPT ![w] = "asleep"] /\ todo' = [todo EXCEPT ![w] = <<>>]
  BY DEF Sleep, Goto
<1>2. Rest(<<>>, Scopes)
  BY RestWhole
<1>3. nap' \in [Workers -> 0..(Interval + Jitter)]
  <2>1. PICK j \in {0, Jitter} : nap' = [nap EXCEPT ![w] = Interval + j]
    BY DEF Sleep
  <2>2. Interval + j \in 0..(Interval + Jitter)
    OBVIOUS
  <2> QED
    BY <2>1, <2>2 DEF RefreshInv, Values
<1>4. "asleep" \in PCs
  BY DEF PCs
<1> QED
  BY <1>1, <1>2, <1>3, <1>4, LoopKeeps

\* A mishap is counted.
LEMMA MishapKeeps ==
  ASSUME RefreshInv, Mishap \/ Well
  PROVE  mishaps' \in 0..MaxMishaps
  BY NewsAssumption DEF RefreshInv, Values, Mishap, Well

\* The steps of a worker that touch neither the lock nor a panel, nor lose a lock.
Quietly == UNCHANGED <<lock, lease, panel, lapsed>>

\* Such a step keeps the invariant when it leaves the worker in a loop of its own, and
\* where it stands only with what it takes to stand there.
LEMMA QuietKeeps ==
  ASSUME RefreshInv, Quietly, Mishap \/ Well, NEW w \in Workers, NEW next \in PCs,
         pc' = [pc EXCEPT ![w] = next], TodoInv',
         todo' \in [Workers -> Seq(Elems(Scopes)) \cup Seq(Elems(Topics))],
         nap' \in [Workers -> 0..(Interval + Jitter)], UNCHANGED <<good, failed>>,
         next \in {"topics", "beat", "extend", "write", "delete"} =>
           lock = w \/ w \in lapsed,
         next = "write" => good[w] # {}
  PROVE  RefreshInv'
<1>1. /\ pc'[w] = next /\ \A v \in Workers \ {w} : pc'[v] = pc[v]
      /\ pc' \in [Workers -> PCs]
  BY DEF RefreshInv, Values
<1>2. Values'
  BY <1>1, MishapKeeps DEF RefreshInv, Values, Quietly
<1>3. LockInv'
  BY <1>1 DEF RefreshInv, LockInv, Quietly
<1>4. WritingInv' /\ HonestPanel'
  BY <1>1 DEF RefreshInv, WritingInv, HonestPanel, Quietly
<1> QED
  BY <1>2, <1>3, <1>4 DEF RefreshInv

\* Waking, looking at the panels, and going back to sleep.
LEMMA WatchKeeps ==
  ASSUME RefreshInv, NEW w \in Workers, Wake(w) \/ Check(w) \/ Fresh(w) \/ Skip(w)
  PROVE  RefreshInv'
<1> USE NewsAssumption
<1>0. pc \in [Workers -> PCs] /\ nap \in [Workers -> 0..(Interval + Jitter)]
  BY DEF RefreshInv, Values
<1>a. "check" \in PCs /\ "acquire" \in PCs /\ "asleep" \in PCs
  BY DEF PCs
<1>1. CASE Wake(w)
  <2>1. /\ pc' = [pc EXCEPT ![w] = "check"] /\ todo' = [todo EXCEPT ![w] = Scopes]
        /\ Quietly /\ Well /\ UNCHANGED <<nap, good, failed>>
    BY <1>1 DEF Wake, Goto, redis, cycle, Quietly
  <2>2. Rest(Scopes, Scopes)
    BY RestWhole
  <2>3. /\ TodoInv' /\ todo' \in [Workers -> Seq(Elems(Scopes)) \cup Seq(Elems(Topics))]
    BY <1>a, <2>1, <2>2, LoopKeeps
  <2> QED
    BY <1>0, <1>a, <2>1, <2>3, QuietKeeps
<1>2. CASE Check(w)
  <2>1. Quietly /\ UNCHANGED <<nap, good, failed>> /\ pc[w] = "check" /\ todo[w] # <<>>
    BY <1>2 DEF Check, redis, cycle, Quietly
  <2>2. Rest(todo[w], Scopes) /\ Rest(Tail(todo[w]), Scopes)
    BY <2>1, RestTail DEF RefreshInv, TodoInv
  <2>3. PICK next \in {"check", "acquire"}, s \in {todo[w], Tail(todo[w])} :
          /\ pc' = [pc EXCEPT ![w] = next] /\ todo' = [todo EXCEPT ![w] = s]
          /\ Mishap \/ Well
    <3>1. CASE UNCHANGED todo /\ Goto(w, "acquire") /\ (Mishap \/ Well)
      <4>1. todo' = [todo EXCEPT ![w] = todo[w]]
        BY <3>1 DEF RefreshInv, Values
      <4> QED
        BY <3>1, <4>1 DEF Goto
    <3>2. CASE todo' = [todo EXCEPT ![w] = Tail(@)] /\ UNCHANGED pc /\ Well
      <4>1. pc' = [pc EXCEPT ![w] = "check"]
        BY <2>1, <3>2 DEF RefreshInv, Values
      <4> QED
        BY <3>2, <4>1
    <3> QED
      BY <1>2, <3>1, <3>2 DEF Check
  <2>4. /\ TodoInv' /\ todo' \in [Workers -> Seq(Elems(Scopes)) \cup Seq(Elems(Topics))]
    BY <1>a, <2>2, <2>3, LoopKeeps
  <2> QED
    BY <1>0, <1>a, <2>1, <2>3, <2>4, QuietKeeps
<1>3. CASE Fresh(w)
  <2>1. Sleep(w) /\ Quietly /\ Well /\ UNCHANGED <<good, failed>>
    BY <1>3 DEF Fresh, redis, cycle, Quietly
  <2> QED
    BY <1>a, <2>1, SleepKeeps, QuietKeeps
<1>4. CASE Skip(w)
  <2>1. Sleep(w) /\ Quietly /\ (Mishap \/ Well) /\ UNCHANGED <<good, failed>>
    BY <1>4 DEF Skip, redis, cycle, Quietly
  <2> QED
    BY <1>a, <2>1, SleepKeeps, QuietKeeps
<1> QED
  BY <1>1, <1>2, <1>3, <1>4

\* The steps of a cycle that move the worker on and leave its findings alone.
LEMMA CycleKeeps ==
  ASSUME RefreshInv, NEW w \in Workers,
         Computed(w) \/ Beat(w) \/ Written(w) \/ CycleFails(w)
  PROVE  RefreshInv'
<1> USE NewsAssumption
<1>0. pc \in [Workers -> PCs] /\ nap \in [Workers -> 0..(Interval + Jitter)]
      /\ todo \in [Workers -> Seq(Elems(Scopes)) \cup Seq(Elems(Topics))]
  BY DEF RefreshInv, Values
<1>1. todo = [todo EXCEPT ![w] = todo[w]]
  BY <1>0
<1>2. Rest(todo[w], Scopes) \/ Rest(todo[w], Topics)
  BY DEF RefreshInv, TodoInv
<1>3. /\ Quietly /\ (Mishap \/ Well)
      /\ UNCHANGED <<nap, good, failed>>
  BY DEF Computed, Beat, Written, CycleFails, redis, cycle, Quietly
<1>4. CASE Goto(w, "release") /\ UNCHANGED todo
  <2>1. pc' = [pc EXCEPT ![w] = "release"] /\ todo' = [todo EXCEPT ![w] = todo[w]]
        /\ "release" \in PCs
    BY <1>1, <1>4 DEF Goto, PCs
  <2>2. /\ TodoInv' /\ todo' \in [Workers -> Seq(Elems(Scopes)) \cup Seq(Elems(Topics))]
    BY <1>2, <2>1, LoopKeeps
  <2> QED
    BY <1>0, <1>3, <2>1, <2>2, QuietKeeps
<1>5. CASE Computed(w) /\ good[w] # {}
  <2>1. pc' = [pc EXCEPT ![w] = "write"] /\ todo' = [todo EXCEPT ![w] = Scopes]
        /\ "write" \in PCs
    BY <1>5 DEF Computed, Goto, PCs
  <2>2. Rest(Scopes, Scopes)
    BY RestWhole
  <2>3. /\ TodoInv' /\ todo' \in [Workers -> Seq(Elems(Scopes)) \cup Seq(Elems(Topics))]
    BY <2>1, <2>2, LoopKeeps
  <2>4. lock = w \/ w \in lapsed
    BY <1>5 DEF Computed, RefreshInv, LockInv
  <2> QED
    BY <1>0, <1>3, <1>5, <2>1, <2>3, <2>4, QuietKeeps
<1>6. CASE Beat(w)
  <2>1. PICK next \in {"topics", "extend"} : pc' = [pc EXCEPT ![w] = next]
    BY <1>6 DEF Beat, Goto
  <2>2. next \in PCs /\ todo' = [todo EXCEPT ![w] = todo[w]] /\ pc[w] = "beat"
    BY <1>1, <1>6 DEF Beat, PCs
  <2>3. Rest(todo[w], Topics) /\ (lock = w \/ w \in lapsed)
    BY <2>2 DEF RefreshInv, TodoInv, LockInv
  <2>4. /\ TodoInv' /\ todo' \in [Workers -> Seq(Elems(Scopes)) \cup Seq(Elems(Topics))]
    BY <2>1, <2>2, <2>3, LoopKeeps
  <2> QED
    BY <1>0, <1>3, <2>1, <2>2, <2>3, <2>4, QuietKeeps
<1> QED
  BY <1>4, <1>5, <1>6 DEF Computed, Written, CycleFails

\* One topic, computed or failed.
LEMMA TopicKeeps ==
  ASSUME RefreshInv, NEW w \in Workers, Topic(w)
  PROVE  RefreshInv'
<1> USE NewsAssumption
<1>0. /\ pc \in [Workers -> PCs] /\ good \in [Workers -> SUBSET Elems(Topics)]
      /\ failed \in [Workers -> SUBSET Elems(Topics)]
  BY DEF RefreshInv, Values
<1>1. /\ pc[w] = "topics" /\ todo[w] # <<>> /\ todo' = [todo EXCEPT ![w] = Tail(todo[w])]
      /\ Quietly /\ UNCHANGED nap
  BY DEF Topic, redis, Quietly
<1>2. Rest(Tail(todo[w]), Topics) /\ Head(todo[w]) \in Elems(Topics)
  BY <1>1, RestTail DEF RefreshInv, TodoInv
<1>3. PICK next \in {"beat", "topics"} : pc' = [pc EXCEPT ![w] = next]
  BY <1>0, <1>1 DEF Topic, Goto
<1>4. next \in PCs
  BY DEF PCs
<1>5. /\ TodoInv' /\ pc' \in [Workers -> PCs]
      /\ todo' \in [Workers -> Seq(Elems(Scopes)) \cup Seq(Elems(Topics))]
  BY <1>1, <1>2, <1>3, <1>4, LoopKeeps
<1>6. /\ Mishap \/ Well
      /\ good' \in [Workers -> SUBSET Elems(Topics)]
      /\ failed' \in [Workers -> SUBSET Elems(Topics)]
      /\ \A v \in Workers \ {w} : good'[v] = good[v]
  BY <1>0, <1>2 DEF Topic
<1>7. Values'
  BY <1>1, <1>5, <1>6, MishapKeeps DEF RefreshInv, Values, Quietly
<1>8. \A v \in Workers : pc'[v] = IF v = w THEN next ELSE pc[v]
  BY <1>0, <1>3
<1>9. LockInv' /\ WritingInv' /\ HonestPanel'
  BY <1>1, <1>6, <1>8 DEF RefreshInv, LockInv, WritingInv, HonestPanel, Quietly
<1> QED
  BY <1>5, <1>7, <1>9 DEF RefreshInv

\* One panel: what is lost was a failed topic, and a panel is written when one was good.
LEMMA WritePanelKeeps ==
  ASSUME RefreshInv, NEW w \in Workers, WritePanel(w)
  PROVE  RefreshInv'
<1> USE NewsAssumption
<1> DEFINE s == Head(todo[w])
           lost == {t \in failed[w] : ScopeOf[t] = s}
<1>0. /\ pc \in [Workers -> PCs] /\ good \in [Workers -> SUBSET Elems(Topics)]
      /\ failed \in [Workers -> SUBSET Elems(Topics)]
      /\ panel \in [Elems(Scopes) -> [age : 0..Interval, shows : SUBSET Elems(Topics),
                                      partial : BOOLEAN, lost : SUBSET Elems(Topics)]]
  BY DEF RefreshInv, Values
<1>1. /\ pc[w] = "write" /\ todo[w] # <<>> /\ todo' = [todo EXCEPT ![w] = Tail(todo[w])]
      /\ UNCHANGED <<pc, nap, good, failed, lock, lease, lapsed>>
      /\ Mishap \/ Well
  BY DEF WritePanel, redis, cycle
<1>2. Rest(Tail(todo[w]), Scopes) /\ s \in Elems(Scopes)
  BY <1>1, RestTail DEF RefreshInv, TodoInv
<1>3. pc' = [pc EXCEPT ![w] = "write"] /\ "write" \in PCs
  BY <1>0, <1>1 DEF PCs
<1>4. /\ TodoInv' /\ pc' \in [Workers -> PCs]
      /\ todo' \in [Workers -> Seq(Elems(Scopes)) \cup Seq(Elems(Topics))]
  BY <1>1, <1>2, <1>3, LoopKeeps
<1>5. /\ panel' \in [Elems(Scopes) -> [age : 0..Interval, shows : SUBSET Elems(Topics),
                                      partial : BOOLEAN, lost : SUBSET Elems(Topics)]]
      /\ HonestPanel'
  <2>1. CASE UNCHANGED panel
    BY <1>0, <2>1 DEF RefreshInv, HonestPanel
  <2>2. ASSUME NEW busy \in SUBSET {t \in good[w] : ScopeOf[t] = s},
               panel' = [panel EXCEPT ![s] =
                 [age |-> 0, shows |-> busy, partial |-> Partial(w), lost |-> lost]]
        PROVE  /\ panel' \in [Elems(Scopes) -> [age : 0..Interval,
                                shows : SUBSET Elems(Topics), partial : BOOLEAN,
                                lost : SUBSET Elems(Topics)]]
               /\ HonestPanel'
    <3> DEFINE new == [age |-> 0, shows |-> busy, partial |-> Partial(w), lost |-> lost]
    <3>1. /\ busy \in SUBSET Elems(Topics) /\ lost \in SUBSET Elems(Topics)
          /\ Partial(w) \in BOOLEAN /\ 0 \in 0..Interval
      BY <1>0, <2>2 DEF Partial
    <3>2. new \in [age : 0..Interval, shows : SUBSET Elems(Topics),
                   partial : BOOLEAN, lost : SUBSET Elems(Topics)]
      BY <3>1
    <3>3. good[w] # {} /\ (lost # {} => Partial(w))
      BY <1>1 DEF RefreshInv, WritingInv, Partial
    <3>4. new.lost # {} => new.partial
      BY <3>3
    <3>5. panel' = [panel EXCEPT ![s] = new]
      BY <2>2
    <3> HIDE DEF new
    <3> QED
      BY <1>0, <1>2, <3>2, <3>4, <3>5 DEF RefreshInv, HonestPanel
  <2> QED
    BY <2>1, <2>2 DEF WritePanel
<1>6. Values'
  BY <1>1, <1>4, <1>5, MishapKeeps DEF RefreshInv, Values
<1>7. LockInv' /\ WritingInv'
  BY <1>1 DEF RefreshInv, LockInv, WritingInv
<1> QED
  BY <1>4, <1>5, <1>6, <1>7 DEF RefreshInv

\* The steps that take, keep or give back the lock, and the ones that lose it.
LEMMA AcquireKeeps ==
  ASSUME RefreshInv, NEW w \in Workers, Acquire(w)
  PROVE  RefreshInv'
<1> USE NewsAssumption
<1>0. pc \in [Workers -> PCs]
  BY DEF RefreshInv, Values
<1>1. /\ pc' = [pc EXCEPT ![w] = "topics"] /\ todo' = [todo EXCEPT ![w] = Topics]
      /\ lock = Nobody /\ lock' = w /\ lease' = Lease /\ lapsed' = lapsed \ {w}
      /\ Well /\ UNCHANGED <<nap, good, failed, panel>> /\ "topics" \in PCs
  BY DEF Acquire, Goto, cycle, PCs
<1>2. Rest(Topics, Topics)
  BY RestWhole
<1>3. /\ TodoInv' /\ pc' \in [Workers -> PCs]
      /\ todo' \in [Workers -> Seq(Elems(Scopes)) \cup Seq(Elems(Topics))]
  BY <1>1, <1>2, LoopKeeps
<1>4. Values'
  BY <1>1, <1>3, MishapKeeps DEF RefreshInv, Values
<1>5. LockInv' /\ WritingInv' /\ HonestPanel'
  BY <1>0, <1>1 DEF RefreshInv, LockInv, WritingInv, HonestPanel
<1> QED
  BY <1>3, <1>4, <1>5 DEF RefreshInv

LEMMA ExtendKeeps ==
  ASSUME RefreshInv, NEW w \in Workers, Extend(w)
  PROVE  RefreshInv'
<1> USE NewsAssumption
<1>0. pc \in [Workers -> PCs] /\ todo = [todo EXCEPT ![w] = todo[w]]
  BY DEF RefreshInv, Values
<1>1. /\ pc[w] = "extend" /\ pc' = [pc EXCEPT ![w] = "topics"] /\ "topics" \in PCs
      /\ todo' = [todo EXCEPT ![w] = todo[w]]
      /\ UNCHANGED <<nap, good, failed, lock, panel, lapsed>>
      /\ Mishap \/ Well
  BY <1>0 DEF Extend, Goto, cycle, PCs
<1>2. Rest(todo[w], Topics)
  BY <1>1 DEF RefreshInv, TodoInv
<1>3. /\ TodoInv' /\ pc' \in [Workers -> PCs]
      /\ todo' \in [Workers -> Seq(Elems(Scopes)) \cup Seq(Elems(Topics))]
  BY <1>1, <1>2, LoopKeeps
<1>4. lease' \in 0..Lease /\ (lock' = Nobody <=> lease' = 0)
  BY <1>1 DEF Extend, RefreshInv, Values
<1>5. Values'
  BY <1>1, <1>3, <1>4, MishapKeeps DEF RefreshInv, Values
<1>6. LockInv' /\ WritingInv' /\ HonestPanel'
  BY <1>0, <1>1 DEF RefreshInv, LockInv, WritingInv, HonestPanel
<1> QED
  BY <1>3, <1>5, <1>6 DEF RefreshInv

\* What a worker found in a cycle is forgotten when the cycle is over.
LEMMA ForgetKeeps ==
  ASSUME RefreshInv, NEW w \in Workers, Forget(w)
  PROVE  /\ good' \in [Workers -> SUBSET Elems(Topics)]
         /\ failed' \in [Workers -> SUBSET Elems(Topics)]
         /\ \A v \in Workers \ {w} : good'[v] = good[v]
  BY DEF RefreshInv, Values, Forget

LEMMA ReleaseKeeps ==
  ASSUME RefreshInv, NEW w \in Workers, Release(w)
  PROVE  RefreshInv'
<1> USE NewsAssumption
<1>0. pc \in [Workers -> PCs] /\ todo = [todo EXCEPT ![w] = todo[w]]
      /\ nap \in [Workers -> 0..(Interval + Jitter)]
  BY DEF RefreshInv, Values
<1>1. /\ lapsed' = lapsed \ {w} /\ Forget(w) /\ UNCHANGED <<lock, lease, panel>>
      /\ Mishap \/ Well
  BY DEF Release, redis
<1>2. /\ TodoInv' /\ pc' \in [Workers -> PCs]
      /\ todo' \in [Workers -> Seq(Elems(Scopes)) \cup Seq(Elems(Topics))]
      /\ nap' \in [Workers -> 0..(Interval + Jitter)]
      /\ pc'[w] \in {"asleep", "delete"} /\ (pc'[w] = "delete" => lock = w)
      /\ \A v \in Workers \ {w} : pc'[v] = pc[v]
  <2>1. CASE Sleep(w)
    BY <1>0, <2>1, SleepKeeps
  <2>2. CASE lock = w /\ Goto(w, "delete") /\ UNCHANGED <<nap, todo>>
    <3>1. /\ pc' = [pc EXCEPT ![w] = "delete"] /\ "delete" \in PCs
          /\ todo' = [todo EXCEPT ![w] = todo[w]]
      BY <1>0, <2>2 DEF Goto, PCs
    <3>2. Rest(todo[w], Scopes) \/ Rest(todo[w], Topics)
      BY DEF RefreshInv, TodoInv
    <3> QED
      BY <1>0, <2>2, <3>1, <3>2, LoopKeeps
  <2> QED
    BY <2>1, <2>2 DEF Release
<1>3. Values'
  BY <1>1, <1>2, MishapKeeps, ForgetKeeps DEF RefreshInv, Values
<1>4. LockInv' /\ WritingInv' /\ HonestPanel'
  BY <1>1, <1>2, ForgetKeeps DEF RefreshInv, LockInv, WritingInv, HonestPanel
<1> QED
  BY <1>2, <1>3, <1>4 DEF RefreshInv

LEMMA DeleteKeeps ==
  ASSUME RefreshInv, NEW w \in Workers, Delete(w)
  PROVE  RefreshInv'
<1> USE NewsAssumption
<1>0. /\ pc \in [Workers -> PCs] /\ lock \in Workers \cup {Nobody, Gone}
      /\ lapsed \subseteq Workers
  BY DEF RefreshInv, Values
<1>1. /\ pc[w] = "delete" /\ Sleep(w) /\ UNCHANGED <<good, failed, panel>>
      /\ Mishap \/ Well
  BY DEF Delete, cycle
<1>2. /\ TodoInv' /\ pc' \in [Workers -> PCs]
      /\ todo' \in [Workers -> Seq(Elems(Scopes)) \cup Seq(Elems(Topics))]
      /\ nap' \in [Workers -> 0..(Interval + Jitter)]
      /\ pc'[w] = "asleep" /\ \A v \in Workers \ {w} : pc'[v] = pc[v]
  BY <1>0, <1>1, SleepKeeps
<1>3. lock = w \/ w \in lapsed
  BY <1>1 DEF RefreshInv, LockInv
<1>4. CASE UNCHANGED <<lock, lease, lapsed>>
  <2>1. Values'
    BY <1>1, <1>2, <1>4, MishapKeeps DEF RefreshInv, Values
  <2>2. LockInv' /\ WritingInv' /\ HonestPanel'
    BY <1>1, <1>2, <1>4 DEF RefreshInv, LockInv, WritingInv, HonestPanel
  <2> QED
    BY <1>2, <2>1, <2>2 DEF RefreshInv
<1>5. CASE /\ lock' = Nobody /\ lease' = 0
           /\ lapsed' = IF w \in lapsed THEN lapsed \cup ({lock} \cap Workers) ELSE lapsed
  <2>1. lapsed' \subseteq Workers
    BY <1>0, <1>5
  <2>2. Values'
    BY <1>1, <1>2, <1>5, <2>1, MishapKeeps DEF RefreshInv, Values
  <2>3. \A v \in Workers \ {w} : lock = v \/ v \in lapsed => v \in lapsed'
    BY <1>3, <1>5
  <2>4. LockInv' /\ WritingInv' /\ HonestPanel'
    BY <1>1, <1>2, <2>3 DEF RefreshInv, LockInv, WritingInv, HonestPanel
  <2> QED
    BY <1>2, <2>2, <2>4 DEF RefreshInv
<1> QED
  BY <1>4, <1>5 DEF Delete, redis

LEMMA CrashKeeps ==
  ASSUME RefreshInv, NEW w \in Workers, Crash(w)
  PROVE  RefreshInv'
<1> USE NewsAssumption
<1>0. /\ pc \in [Workers -> PCs] /\ nap \in [Workers -> 0..(Interval + Jitter)]
  BY DEF RefreshInv, Values
<1>1. /\ Forget(w) /\ UNCHANGED <<lease, panel, lapsed>> /\ Mishap
      /\ pc' = [pc EXCEPT ![w] = "asleep"] /\ nap' = [nap EXCEPT ![w] = 0]
      /\ todo' = [todo EXCEPT ![w] = <<>>] /\ "asleep" \in PCs
      /\ lock' = IF lock = w THEN Gone ELSE lock
  BY DEF Crash, PCs
<1>2. Rest(<<>>, Scopes)
  BY RestWhole
<1>3. /\ TodoInv' /\ pc' \in [Workers -> PCs]
      /\ todo' \in [Workers -> Seq(Elems(Scopes)) \cup Seq(Elems(Topics))]
  BY <1>1, <1>2, LoopKeeps
<1>4. nap' \in [Workers -> 0..(Interval + Jitter)]
  BY <1>0, <1>1
<1>5. lock' \in Workers \cup {Nobody, Gone} /\ (lock' = Nobody <=> lease' = 0)
  BY <1>1 DEF RefreshInv, Values, Nobody, Gone
<1>6. Values'
  BY <1>1, <1>3, <1>4, <1>5, MishapKeeps, ForgetKeeps DEF RefreshInv, Values
<1>7. LockInv' /\ WritingInv' /\ HonestPanel'
  BY <1>0, <1>1, ForgetKeeps DEF RefreshInv, LockInv, WritingInv, HonestPanel
<1> QED
  BY <1>3, <1>6, <1>7 DEF RefreshInv

\* Time: a lease that runs out under a worker makes it lapse.
LEMMA TickKeeps ==
  ASSUME RefreshInv, Tick
  PROVE  RefreshInv'
<1> USE NewsAssumption
<1>0. /\ pc \in [Workers -> PCs] /\ nap \in [Workers -> 0..(Interval + Jitter)]
      /\ lock \in Workers \cup {Nobody, Gone} /\ lease \in 0..Lease
      /\ panel \in [Elems(Scopes) -> [age : 0..Interval, shows : SUBSET Elems(Topics),
                                      partial : BOOLEAN, lost : SUBSET Elems(Topics)]]
  BY DEF RefreshInv, Values
<1>1. /\ UNCHANGED <<pc, todo, good, failed>> /\ Well
      /\ lease' = Left /\ lock' = IF Left = 0 THEN Nobody ELSE lock
  BY DEF Tick, cycle
<1>2. nap' \in [Workers -> 0..(Interval + Jitter)]
  <2>1. \A w \in Workers : Down(nap[w]) \in 0..(Interval + Jitter)
    BY <1>0 DEF Down
  <2> QED
    BY <2>1 DEF Tick
<1>3. /\ panel' \in [Elems(Scopes) -> [age : 0..Interval, shows : SUBSET Elems(Topics),
                                       partial : BOOLEAN, lost : SUBSET Elems(Topics)]]
      /\ DOMAIN panel' = DOMAIN panel
      /\ \A s \in DOMAIN panel :
           panel'[s].lost = panel[s].lost /\ panel'[s].partial = panel[s].partial
  <2> DEFINE older(s) ==
               [panel[s] EXCEPT !.age = IF panel[s].age < Interval THEN panel[s].age + 1
                                        ELSE panel[s].age]
  <2>1. panel' = [s \in DOMAIN panel |-> older(s)]
    BY DEF Tick
  <2>2. ASSUME NEW s \in Elems(Scopes)
        PROVE  /\ older(s) \in [age : 0..Interval, shows : SUBSET Elems(Topics),
                                partial : BOOLEAN, lost : SUBSET Elems(Topics)]
               /\ older(s).lost = panel[s].lost /\ older(s).partial = panel[s].partial
    <3>1. PICK p \in [age : 0..Interval, shows : SUBSET Elems(Topics),
                      partial : BOOLEAN, lost : SUBSET Elems(Topics)] : p = panel[s]
      BY <1>0, <2>2
    <3>2. PICK n \in 0..Interval : n = IF p.age < Interval THEN p.age + 1 ELSE p.age
      BY <3>1
    <3>3. older(s) = [p EXCEPT !.age = n]
      BY <3>1, <3>2
    <3> HIDE DEF older
    <3> QED
      BY <3>1, <3>2, <3>3
  <2> HIDE DEF older
  <2> QED
    BY <1>0, <2>1, <2>2
<1>4. /\ lock' \in Workers \cup {Nobody, Gone} /\ lease' \in 0..Lease
      /\ (lock' = Nobody <=> lease' = 0) /\ lapsed' \subseteq Workers
  BY <1>0, <1>1 DEF Tick, Left, RefreshInv, Values, Nobody, Gone
<1>5. Values'
  BY <1>1, <1>2, <1>3, <1>4, MishapKeeps DEF RefreshInv, Values
<1>6. LockInv'
  <2>1. ASSUME NEW w \in Workers,
               pc[w] \in {"topics", "beat", "extend", "write", "delete"}
        PROVE  lock' = w \/ w \in lapsed'
    BY <1>0, <1>1, <2>1 DEF RefreshInv, LockInv, Tick
  <2> QED
    BY <1>1, <2>1 DEF LockInv
<1>7. TodoInv' /\ WritingInv' /\ HonestPanel'
  BY <1>1, <1>3 DEF RefreshInv, TodoInv, WritingInv, HonestPanel
<1> QED
  BY <1>5, <1>6, <1>7 DEF RefreshInv

LEMMA RefreshNext == RefreshInv /\ [Next]_vars => RefreshInv'
<1> SUFFICES ASSUME RefreshInv, [Next]_vars PROVE RefreshInv'
  OBVIOUS
<1>1. CASE UNCHANGED vars
  BY <1>1 DEF vars, RefreshInv, Values, TodoInv, LockInv, WritingInv, HonestPanel
<1>2. CASE Tick
  BY <1>2, TickKeeps
<1>3. ASSUME NEW w \in Workers, Step(w) PROVE RefreshInv'
  BY <1>3, WatchKeeps, AcquireKeeps, TopicKeeps, CycleKeeps, ExtendKeeps,
     WritePanelKeeps, ReleaseKeeps, DeleteKeeps DEF Step
<1>4. ASSUME NEW w \in Workers, Crash(w) PROVE RefreshInv'
  BY <1>4, CrashKeeps
<1> QED
  BY <1>1, <1>2, <1>3, <1>4 DEF Next

\* What the invariant says of the panels and of who refreshes.
LEMMA RefreshHolds == RefreshInv => TypeOK /\ OneRefresher /\ HonestPanel
<1> SUFFICES ASSUME RefreshInv PROVE TypeOK /\ OneRefresher /\ HonestPanel
  OBVIOUS
<1>1. TypeOK
  BY DEF RefreshInv, Values, TodoInv, Rest, TypeOK
<1>2. OneRefresher
  BY DEF RefreshInv, LockInv, OneRefresher, Refreshing
<1> QED
  BY <1>1, <1>2 DEF RefreshInv

-----------------------------------------------------------------------------
(* The gate in front of the data source.                                   *)

GateValues ==
  /\ backend \in {"redis", "process"}
  /\ gatePc \in [Callers -> Gate!PCs] /\ tries \in [Callers -> 0..Attempts]
  /\ budget \in [Callers -> 0..MaxWait]
  /\ gate \in 0..Penalty /\ allowed \in [Processes -> 0..Penalty]
  /\ holder \in [Processes -> Callers \cup {Nobody}]
  /\ quiet \in [Processes -> 0..Spacing] /\ barred \in [Processes -> 0..Penalty]

\* The process's lock is held by a caller of that process, asleep under it.
HolderInv ==
  \A p \in Processes :
    holder[p] # Nobody => gatePc[holder[p]] = "sleep" /\ ProcessOf[holder[p]] = p

\* A caller on its way to the source has an attempt left.
TriesInv ==
  \A c \in Callers :
    gatePc[c] \in {"wait", "sleep", "granted", "open", "backoff"} => tries[c] >= 1

\* The gate is not open before the slot and the penalty it stands for have run out.
Shut ==
  \A p \in Processes :
    /\ backend = "redis" => quiet[p] <= gate /\ barred[p] <= gate
    /\ backend = "process" => quiet[p] <= allowed[p] /\ barred[p] <= allowed[p]

GateInv == GateValues /\ HolderInv /\ TriesInv /\ Shut

\* The gate starts open, with nobody at it.
LEMMA GateStarts == Gate!Init => GateInv
  BY GateAssumption
  DEF Gate!Init, GateInv, GateValues, HolderInv, TriesInv, Shut, Gate!PCs, Gate!Nobody, Nobody

\* A countdown goes down with time, and never past a later one.
LEMMA DownKeeps ==
  ASSUME NEW n \in Nat, NEW m \in Nat
  PROVE  Gate!Down(n) \in 0..n /\ (n <= m => Gate!Down(n) <= Gate!Down(m))
  BY DEF Gate!Down

LEMMA GateTickKeeps ==
  ASSUME GateInv, Gate!Tick
  PROVE  GateInv'
<1> USE GateAssumption
<1>1. /\ UNCHANGED <<backend, gatePc, tries, holder>>
      /\ gate' = Gate!Down(gate) /\ allowed' = Gate!DownAll(allowed)
      /\ budget' = Gate!DownAll(budget) /\ quiet' = Gate!DownAll(quiet)
      /\ barred' = Gate!DownAll(barred)
  BY DEF Gate!Tick
<1>0. /\ allowed \in [Processes -> 0..Penalty] /\ budget \in [Callers -> 0..MaxWait]
      /\ quiet \in [Processes -> 0..Spacing] /\ barred \in [Processes -> 0..Penalty]
      /\ gate \in 0..Penalty
  BY DEF GateInv, GateValues
<1>a. /\ allowed' \in [Processes -> 0..Penalty]
      /\ \A p \in Processes : allowed'[p] = Gate!Down(allowed[p])
  BY <1>0, <1>1, GateAssumption DEF Gate!DownAll, Gate!Down
<1>b. budget' \in [Callers -> 0..MaxWait]
  BY <1>0, <1>1, GateAssumption DEF Gate!DownAll, Gate!Down
<1>c. /\ quiet' \in [Processes -> 0..Spacing]
      /\ \A p \in Processes : quiet'[p] = Gate!Down(quiet[p])
  BY <1>0, <1>1, GateAssumption DEF Gate!DownAll, Gate!Down
<1>d. /\ barred' \in [Processes -> 0..Penalty]
      /\ \A p \in Processes : barred'[p] = Gate!Down(barred[p])
  BY <1>0, <1>1, GateAssumption DEF Gate!DownAll, Gate!Down
<1>e. gate' \in 0..Penalty
  BY <1>0, <1>1 DEF Gate!Down
<1>2. GateValues'
  BY <1>1, <1>a, <1>b, <1>c, <1>d, <1>e DEF GateInv, GateValues
<1>3. Shut'
  <2>1. ASSUME NEW p \in Processes
        PROVE  /\ quiet'[p] = Gate!Down(quiet[p]) /\ barred'[p] = Gate!Down(barred[p])
               /\ allowed'[p] = Gate!Down(allowed[p])
               /\ quiet[p] \in Nat /\ barred[p] \in Nat /\ allowed[p] \in Nat /\ gate \in Nat
    BY <1>0, <1>a, <1>c, <1>d
  <2>2. ASSUME NEW p \in Processes
        PROVE  /\ backend = "redis" => quiet'[p] <= gate' /\ barred'[p] <= gate'
               /\ backend = "process" => quiet'[p] <= allowed'[p] /\ barred'[p] <= allowed'[p]
    BY <1>1, <2>1, DownKeeps DEF GateInv, Shut
  <2> QED
    BY <1>1, <2>2 DEF Shut
<1>4. HolderInv' /\ TriesInv'
  BY <1>1 DEF GateInv, HolderInv, TriesInv
<1> QED
  BY <1>2, <1>3, <1>4 DEF GateInv

\* A caller that moves, the gates left alone.
LEMMA CallerKeeps ==
  ASSUME GateInv, NEW c \in Callers,
         Gate!Request(c) \/ Gate!FailOpen(c) \/ Gate!Call(c) \/ Gate!Retry(c)
  PROVE  GateInv'
<1> USE GateAssumption
<1>0. /\ gatePc \in [Callers -> Gate!PCs] /\ tries \in [Callers -> 0..Attempts]
      /\ budget \in [Callers -> 0..MaxWait]
  BY DEF GateInv, GateValues
<1>1. UNCHANGED <<backend, gate, allowed, holder, quiet, barred>>
  BY DEF Gate!Request, Gate!FailOpen, Gate!Call, Gate!Retry, Gate!gates, Gate!history
<1>2. PICK next \in {"done", "wait", "open", "failed", "penalise", "backoff"} :
        gatePc' = [gatePc EXCEPT ![c] = next]
  BY DEF Gate!Request, Gate!FailOpen, Gate!Call, Gate!Retry, Gate!Goto
<1>3. next \in Gate!PCs /\ gatePc[c] # "sleep"
  BY DEF Gate!Request, Gate!FailOpen, Gate!Call, Gate!Retry, Gate!Resting, Gate!PCs
<1>4. \A d \in Callers : gatePc'[d] = IF d = c THEN next ELSE gatePc[d]
  BY <1>0, <1>2
<1>5. tries' \in [Callers -> 0..Attempts] /\ TriesInv'
  <2>1. CASE Gate!Request(c)
    BY <1>0, <1>4, <2>1 DEF Gate!Request, GateInv, TriesInv
  <2>2. CASE Gate!FailOpen(c)
    BY <1>0, <1>4, <2>2 DEF Gate!FailOpen, GateInv, TriesInv
  <2>3. CASE Gate!Retry(c)
    BY <1>0, <1>4, <2>3 DEF Gate!Retry, GateInv, TriesInv
  <2>4. CASE Gate!Call(c)
    <3>1. tries[c] >= 1 /\ tries[c] \in 0..Attempts
      BY <1>0, <2>4 DEF Gate!Call, GateInv, TriesInv
    <3>2. CASE UNCHANGED tries /\ next \in {"done", "failed", "penalise"}
      BY <1>0, <1>4, <3>2 DEF GateInv, TriesInv
    <3>3. CASE /\ tries' = [tries EXCEPT ![c] = tries[c] - 1]
               /\ next = (IF tries[c] = 1 THEN "failed" ELSE "backoff")
      <4>1. tries[c] - 1 \in 0..Attempts /\ (next = "backoff" => tries[c] - 1 >= 1)
        BY <3>1, <3>3
      <4> QED
        BY <1>0, <1>4, <3>3, <4>1 DEF GateInv, TriesInv
    <3>4. \/ UNCHANGED tries /\ next \in {"done", "failed", "penalise"}
          \/ /\ tries' = [tries EXCEPT ![c] = tries[c] - 1]
             /\ next = (IF tries[c] = 1 THEN "failed" ELSE "backoff")
      <4>1. CASE \E end \in {"done", "failed", "penalise"} :
                   Gate!Goto(c, end) /\ UNCHANGED tries
        BY <1>0, <1>4, <4>1 DEF Gate!Goto
      <4>2. CASE /\ tries' = [tries EXCEPT ![c] = tries[c] - 1]
                 /\ Gate!Goto(c, IF tries[c] = 1 THEN "failed" ELSE "backoff")
        BY <1>0, <1>4, <4>2 DEF Gate!Goto
      <4> QED
        BY <2>4, <4>1, <4>2 DEF Gate!Call
    <3> QED
      BY <3>2, <3>3, <3>4
  <2> QED
    BY <2>1, <2>2, <2>3, <2>4
<1>6. budget' \in [Callers -> 0..MaxWait]
  BY <1>0 DEF Gate!Request, Gate!FailOpen, Gate!Call, Gate!Retry
<1>7. GateValues'
  BY <1>0, <1>1, <1>2, <1>3, <1>5, <1>6 DEF GateInv, GateValues
<1>8. HolderInv' /\ Shut'
  BY <1>1, <1>3, <1>4 DEF GateInv, GateValues, HolderInv, Shut
<1> QED
  BY <1>5, <1>7, <1>8 DEF GateInv

\* A caller that leaves the way to the source, or goes on it as it was.
LEMMA MovedKeeps ==
  ASSUME GateInv, NEW c \in Callers, NEW next \in Gate!PCs,
         gatePc' = [gatePc EXCEPT ![c] = next], UNCHANGED tries,
         gatePc[c] \in {"wait", "sleep"} \/ next = "failed"
  PROVE  /\ TriesInv' /\ gatePc' \in [Callers -> Gate!PCs]
         /\ \A d \in Callers : gatePc'[d] = IF d = c THEN next ELSE gatePc[d]
<1>1. /\ gatePc' \in [Callers -> Gate!PCs]
      /\ \A d \in Callers : gatePc'[d] = IF d = c THEN next ELSE gatePc[d]
  BY DEF GateInv, GateValues
<1> QED
  BY <1>1 DEF GateInv, TriesInv

\* The Redis key: taken when it has run out, and set again by a penalty.
LEMMA SetNXKeeps ==
  ASSUME GateInv, NEW c \in Callers, Gate!SetNX(c)
  PROVE  GateInv' /\ (Gate!Passes(c) => quiet[ProcessOf[c]] = 0 /\ barred[ProcessOf[c]] = 0)
<1> USE GateAssumption
<1>0. /\ backend = "redis" /\ gatePc[c] = "wait" /\ ProcessOf[c] \in Processes
      /\ UNCHANGED <<backend, tries, budget, allowed, holder, barred>>
      /\ gatePc \in [Callers -> Gate!PCs] /\ "granted" \in Gate!PCs /\ "failed" \in Gate!PCs
  BY DEF Gate!SetNX, GateInv, GateValues, Gate!PCs
<1>1. CASE gate = 0 /\ gate' = Spacing /\ Gate!Goto(c, "granted") /\ Gate!Slot(c)
  <2>1. /\ TriesInv' /\ gatePc' \in [Callers -> Gate!PCs]
        /\ \A d \in Callers : gatePc'[d] = IF d = c THEN "granted" ELSE gatePc[d]
    BY <1>0, <1>1, MovedKeeps DEF Gate!Goto
  <2>2. \A p \in Processes : quiet[p] = 0 /\ barred[p] = 0
    BY <1>0, <1>1 DEF GateInv, GateValues, Shut
  <2>3. quiet' = [p \in Processes |-> Spacing]
    BY <1>0, <1>1 DEF Gate!Slot, Gate!Shares
  <2>4. GateValues'
    BY <1>0, <1>1, <2>1, <2>3 DEF GateInv, GateValues
  <2>5. HolderInv' /\ Shut'
    BY <1>0, <1>1, <2>1, <2>2, <2>3 DEF GateInv, GateValues, HolderInv, Shut
  <2> QED
    BY <1>0, <2>1, <2>2, <2>4, <2>5 DEF GateInv
<1>2. CASE Gate!Goto(c, "failed") /\ UNCHANGED <<gate, quiet>>
  <2>1. /\ TriesInv' /\ gatePc' \in [Callers -> Gate!PCs]
        /\ \A d \in Callers : gatePc'[d] = IF d = c THEN "failed" ELSE gatePc[d]
    BY <1>0, <1>2, MovedKeeps DEF Gate!Goto
  <2>2. GateValues' /\ HolderInv' /\ Shut'
    BY <1>0, <1>2, <2>1 DEF GateInv, GateValues, HolderInv, Shut
  <2> QED
    BY <2>1, <2>2 DEF GateInv, Gate!Passes
<1> QED
  BY <1>1, <1>2 DEF Gate!SetNX

LEMMA PenaliseRedisKeeps ==
  ASSUME GateInv, NEW c \in Callers, Gate!PenaliseRedis(c)
  PROVE  GateInv' /\ ~ Gate!Passes(c)
<1> USE GateAssumption
<1>0. /\ backend = "redis" /\ gatePc[c] = "penalise"
      /\ UNCHANGED <<backend, tries, budget, allowed, holder, quiet>>
      /\ Gate!Goto(c, "failed") /\ "failed" \in Gate!PCs
  BY DEF Gate!PenaliseRedis, Gate!PCs
<1>1. /\ TriesInv' /\ gatePc' \in [Callers -> Gate!PCs]
      /\ \A d \in Callers : gatePc'[d] = IF d = c THEN "failed" ELSE gatePc[d]
  BY <1>0, MovedKeeps DEF Gate!Goto
<1>2. HolderInv'
  BY <1>0, <1>1 DEF GateInv, GateValues, HolderInv
<1>3. CASE UNCHANGED <<gate, barred>>
  BY <1>0, <1>1, <1>2, <1>3 DEF GateInv, GateValues, Shut, Gate!Passes
<1>4. CASE gate' = Penalty /\ Gate!Barred(c)
  <2>1. barred' = [p \in Processes |-> Penalty]
    BY <1>0, <1>4 DEF Gate!Barred, Gate!Shares
  <2>2. GateValues'
    BY <1>0, <1>1, <1>4, <2>1 DEF GateInv, GateValues
  <2>3. Shut'
    BY <1>0, <1>4, <2>1 DEF GateInv, GateValues, Shut
  <2> QED
    BY <1>1, <1>2, <2>2, <2>3 DEF GateInv, Gate!Passes
<1> QED
  BY <1>3, <1>4 DEF Gate!PenaliseRedis

\* The process's lock: taken, kept while its holder sleeps, and given back with the slot.
LEMMA TakeLockKeeps ==
  ASSUME GateInv, NEW c \in Callers, Gate!TakeLock(c)
  PROVE  GateInv' /\ ~ Gate!Passes(c)
<1> USE GateAssumption
<1>0. /\ backend = "process" /\ gatePc[c] = "wait" /\ ProcessOf[c] \in Processes
      /\ UNCHANGED <<backend, tries, budget, gate, allowed, quiet, barred>>
      /\ "sleep" \in Gate!PCs /\ "failed" \in Gate!PCs
      /\ holder \in [Processes -> Callers \cup {Nobody}]
  BY DEF Gate!TakeLock, GateInv, GateValues, Gate!PCs, Gate!history
<1>1. CASE /\ holder[ProcessOf[c]] = Nobody
           /\ holder' = [holder EXCEPT ![ProcessOf[c]] = c] /\ Gate!Goto(c, "sleep")
  <2>1. /\ TriesInv' /\ gatePc' \in [Callers -> Gate!PCs]
        /\ \A d \in Callers : gatePc'[d] = IF d = c THEN "sleep" ELSE gatePc[d]
    BY <1>0, <1>1, MovedKeeps DEF Gate!Goto
  <2>2. GateValues'
    BY <1>0, <1>1, <2>1 DEF GateInv, GateValues
  <2>3. HolderInv' /\ Shut'
    BY <1>0, <1>1, <2>1 DEF GateInv, HolderInv, Shut
  <2> QED
    BY <2>1, <2>2, <2>3 DEF GateInv, Gate!Passes
<1>2. CASE Gate!Goto(c, "failed") /\ UNCHANGED holder
  <2>1. /\ TriesInv' /\ gatePc' \in [Callers -> Gate!PCs]
        /\ \A d \in Callers : gatePc'[d] = IF d = c THEN "failed" ELSE gatePc[d]
    BY <1>0, <1>2, MovedKeeps DEF Gate!Goto
  <2>2. GateValues' /\ HolderInv' /\ Shut'
    BY <1>0, <1>2, <2>1 DEF GateInv, GateValues, HolderInv, Shut
  <2> QED
    BY <2>1, <2>2 DEF GateInv, Gate!Passes
<1> QED
  BY <1>1, <1>2 DEF Gate!TakeLock, Gate!Mine, Gate!Nobody, Nobody

LEMMA GrantedKeeps ==
  ASSUME GateInv, NEW c \in Callers, Gate!Granted(c)
  PROVE  GateInv' /\ quiet[ProcessOf[c]] = 0 /\ barred[ProcessOf[c]] = 0
<1> USE GateAssumption
<1> DEFINE p == ProcessOf[c]
<1>0. /\ backend = "process" /\ gatePc[c] = "sleep" /\ allowed[p] = 0 /\ p \in Processes
      /\ allowed' = [allowed EXCEPT ![p] = Spacing]
      /\ holder' = [holder EXCEPT ![p] = Nobody]
      /\ UNCHANGED <<backend, tries, budget, gate, barred>>
      /\ Gate!Goto(c, "granted") /\ "granted" \in Gate!PCs
      /\ quiet' = [quiet EXCEPT ![p] = Spacing]
  BY DEF Gate!Granted, Gate!Mine, Gate!Nobody, Nobody, Gate!PCs, Gate!Slot, Gate!Shares,
         GateInv, GateValues
<1>1. /\ TriesInv' /\ gatePc' \in [Callers -> Gate!PCs]
      /\ \A d \in Callers : gatePc'[d] = IF d = c THEN "granted" ELSE gatePc[d]
  BY <1>0, MovedKeeps DEF Gate!Goto
<1>2. quiet[p] = 0 /\ barred[p] = 0
  BY <1>0 DEF GateInv, GateValues, Shut
<1>3. GateValues'
  BY <1>0, <1>1 DEF GateInv, GateValues
<1>4. HolderInv'
  BY <1>0, <1>1 DEF GateInv, GateValues, HolderInv
<1>5. Shut'
  BY <1>0, <1>2 DEF GateInv, GateValues, Shut
<1> QED
  BY <1>1, <1>2, <1>3, <1>4, <1>5 DEF GateInv

LEMMA PenaliseLocalKeeps ==
  ASSUME GateInv, NEW c \in Callers, Gate!PenaliseLocal(c)
  PROVE  GateInv' /\ ~ Gate!Passes(c)
<1> USE GateAssumption
<1> DEFINE p == ProcessOf[c]
<1>0. /\ backend = "process" /\ gatePc[c] = "penalise" /\ p \in Processes
      /\ allowed' = [allowed EXCEPT ![p] = Gate!Later(allowed[p], Penalty)]
      /\ barred' = [barred EXCEPT ![p] = Penalty]
      /\ UNCHANGED <<backend, tries, budget, gate, holder, quiet>>
      /\ Gate!Goto(c, "failed") /\ "failed" \in Gate!PCs
  BY DEF Gate!PenaliseLocal, Gate!Mine, Gate!PCs, Gate!Barred, Gate!Shares,
         GateInv, GateValues
<1>1. /\ TriesInv' /\ gatePc' \in [Callers -> Gate!PCs]
      /\ \A d \in Callers : gatePc'[d] = IF d = c THEN "failed" ELSE gatePc[d]
  BY <1>0, MovedKeeps DEF Gate!Goto
<1>2. Gate!Later(allowed[p], Penalty) = Penalty
  BY <1>0 DEF Gate!Later, GateInv, GateValues
<1>3. GateValues'
  BY <1>0, <1>1, <1>2 DEF GateInv, GateValues
<1>4. HolderInv'
  BY <1>0, <1>1 DEF GateInv, GateValues, HolderInv
<1>5. Shut'
  BY <1>0, <1>2 DEF GateInv, GateValues, Shut
<1> QED
  BY <1>1, <1>3, <1>4, <1>5 DEF GateInv, Gate!Passes

\* Every step of the gate keeps its invariant, and lets a caller pass only when neither a
\* slot nor a penalty forbids it.
LEMMA GateNext ==
  GateInv /\ [Gate!Next]_(Gate!vars)
    => /\ GateInv'
       /\ \A c \in Callers :
            Gate!Passes(c) => quiet[Gate!Mine(c)] = 0 /\ barred[Gate!Mine(c)] = 0
<1> SUFFICES ASSUME GateInv, [Gate!Next]_(Gate!vars)
             PROVE  /\ GateInv'
                    /\ \A c \in Callers : Gate!Passes(c) =>
                         quiet[ProcessOf[c]] = 0 /\ barred[ProcessOf[c]] = 0
  BY DEF Gate!Mine
<1>1. CASE UNCHANGED Gate!vars
  BY <1>1 DEF Gate!vars, Gate!Passes, GateInv, GateValues, HolderInv, TriesInv, Shut
<1>2. CASE Gate!Tick
  <2>1. UNCHANGED gatePc
    BY <1>2 DEF Gate!Tick
  <2> QED
    BY <1>2, <2>1, GateTickKeeps DEF Gate!Passes
<1>3. ASSUME NEW d \in Callers, Gate!Request(d) \/ Gate!Work(d)
      PROVE  /\ GateInv'
             /\ \A c \in Callers : Gate!Passes(c) =>
                  quiet[ProcessOf[c]] = 0 /\ barred[ProcessOf[c]] = 0
  <2>1. \E next \in Gate!PCs : gatePc' = [gatePc EXCEPT ![d] = next]
    BY <1>3 DEF Gate!Request, Gate!Work, Gate!Wait, Gate!SetNX, Gate!FailOpen, Gate!TakeLock,
                Gate!Granted, Gate!Call, Gate!Retry, Gate!PenaliseRedis, Gate!PenaliseLocal,
                Gate!Goto, Gate!PCs
  <2>2. \A c \in Callers \ {d} : ~ Gate!Passes(c)
    BY <2>1 DEF GateInv, GateValues, Gate!Passes
  <2>3. CASE Gate!Request(d) \/ Gate!FailOpen(d) \/ Gate!Call(d) \/ Gate!Retry(d)
    <3>1. ~ Gate!Passes(d)
      BY <2>3 DEF Gate!Request, Gate!FailOpen, Gate!Call, Gate!Retry, Gate!Goto, Gate!Passes,
                  GateInv, GateValues
    <3> QED
      BY <2>2, <2>3, <3>1, CallerKeeps
  <2>4. CASE Gate!SetNX(d)
    BY <2>2, <2>4, SetNXKeeps
  <2>5. CASE Gate!TakeLock(d)
    BY <2>2, <2>5, TakeLockKeeps
  <2>6. CASE Gate!Granted(d)
    BY <2>2, <2>6, GrantedKeeps
  <2>7. CASE Gate!PenaliseRedis(d)
    BY <2>2, <2>7, PenaliseRedisKeeps
  <2>8. CASE Gate!PenaliseLocal(d)
    BY <2>2, <2>8, PenaliseLocalKeeps
  <2> QED
    BY <1>3, <2>3, <2>4, <2>5, <2>6, <2>7, <2>8 DEF Gate!Work, Gate!Wait
<1> QED
  BY <1>1, <1>2, <1>3 DEF Gate!Next

LEMMA GateTyped == GateInv => Gate!TypeOK
  BY GateAssumption
  DEF GateInv, GateValues, HolderInv, Gate!TypeOK, Gate!Longest, Gate!Nobody, Nobody

-----------------------------------------------------------------------------
(* What the runs check.                                                    *)

\* In every behaviour of the refresher and the gate the two are typed, of two workers that
\* refresh one has lost its lock, and a panel that lacks a failed topic says so.
THEOREM PanelsHold == MCSpec => []PanelsKept
<1> DEFINE I == RefreshInv /\ GateInv
<1>1. MCInit => I
  BY RefreshInit, GateStarts DEF MCInit
<1>2. I /\ [MCNext]_<<part, vars, gateVars>> => I'
  <2> SUFFICES ASSUME I, [MCNext]_<<part, vars, gateVars>> PROVE I'
    OBVIOUS
  <2>1. [Next]_vars
    BY DEF MCNext, vars
  <2>2. [Gate!Next]_(Gate!vars)
    BY DEF MCNext, gateVars, Gate!vars
  <2> QED
    BY <2>1, <2>2, RefreshNext, GateNext
<1>3. I => PanelsKept
  BY RefreshHolds, GateTyped DEF PanelsKept
<1> QED
  BY <1>1, <1>2, <1>3, PTL DEF MCSpec

\* Slots of one gate are an interval apart, and none is given while a recorded penalty
\* lasts, whatever callers, retries and penalties there are.
THEOREM GateHolds == Gate!Spec => GateKept
<1> DEFINE A == \A c \in Callers : Gate!Passes(c) => quiet[Gate!Mine(c)] = 0
           B == \A c \in Callers : Gate!Passes(c) => barred[Gate!Mine(c)] = 0
<1>1. Gate!Init => GateInv
  BY GateStarts
<1>2. GateInv /\ [Gate!Next]_(Gate!vars) => GateInv'
  BY GateNext
<1>3. GateInv /\ [Gate!Next]_(Gate!vars) => [A]_(Gate!vars) /\ [B]_(Gate!vars)
  BY GateNext
<1>4. Gate!Spec => [][A]_(Gate!vars) /\ [][B]_(Gate!vars)
  BY <1>1, <1>2, <1>3, PTL DEF Gate!Spec
<1>5. Gate!Spaced <=> [][A]_(Gate!vars)
  BY DEF Gate!Spaced
<1>6. Gate!PenaltyHeld <=> [][B]_(Gate!vars)
  BY DEF Gate!PenaltyHeld
<1> QED
  BY <1>4, <1>5, <1>6 DEF GateKept
=============================================================================
