--------------------------- MODULE Stores_proofs ---------------------------
(***************************************************************************)
(* What processes that do not know of each other keep in the shared        *)
(* stores, for any number of slots, workers, readers, saves, ingests and   *)
(* loads, and whatever Redis does.                                         *)
(*                                                                         *)
(* Spend: a call that may still be charged to a scope (Pending) was let    *)
(* through by a count of its own worker below the limit, so what the       *)
(* worker has counted and what its pending calls may add stay together     *)
(* below limit - 1 + MaxCost for each of its slots (Committed).  While     *)
(* Redis answers, what the workers count together is what Redis counts,    *)
(* and what calls owe it or lost on the way (Accounted), so a call let     *)
(* through below the limit leaves what all the calls due may add within    *)
(* what is allowed (LetThrough).                                           *)
(* Models: a version is one save's, unless two raced for it (Owned), so    *)
(* what is on the disk of it is what that save has written so far          *)
(* (Written), and its metadata, written last, vouch for the model.         *)
(* Facts: a run ends once, by the job that has it (RunsKept, JobsKept),    *)
(* so the rows and the success come together, and the end that is shown    *)
(* is the greatest (ShownKept).                                            *)
(* Graph: what a load has written by the time it is at a write             *)
(* (NodesBuilt, EdgesBuilt, FlowsBuilt) is what the next one's MATCH       *)
(* looks for; nothing is removed, by other loads neither.  An item of one  *)
(* code has one observation, hence one row behind its edge (RowsRead).     *)
(***************************************************************************)
EXTENDS MCStores, Sums

-----------------------------------------------------------------------------
(* The spend.                                                              *)

PCs == {"idle", "asking", "calling", "failsafe", "total", "user"}

\* A call in progress has an attempt left.
Trying == \A c \in Slots : pc[c] = "calling" => tries[c] >= 1

\* The calls of a worker that may still be charged to a scope.
Pending(w, s) ==
  {c \in SlotsOf(w) :
     /\ s \in Charged(c)
     /\ \/ pc[c] = "calling"
        \/ pc[c] = "asking" /\ seen[c][s] < CapOf(s)}

Bound(w, s) == CapOf(s) - 1 + MaxCost * Cardinality(SlotsOf(w))

\* What a worker counted today and what its pending calls may add.
Committed ==
  \A w \in Workers, s \in Scopes :
    CapOf(s) > 0 =>
      shadow[w][day][s] + MaxCost * Cardinality(Pending(w, s)) <= Bound(w, s)

\* Nothing is counted for the days to come.
NoFuture ==
  \A w \in Workers, d \in Days, s \in Scopes : d > day => shadow[w][d][s] = 0

SpendInv == TypeOK /\ Trying /\ Committed /\ NeverWeaker /\ NoFuture

-----------------------------------------------------------------------------
\* A limit is a number.
LEMMA CapType == \A s \in Scopes : CapOf(s) \in Nat
  BY SpendCapAssumption DEF CapOf, Scopes

\* Sets of slots are finite, and counted by the bound of their worker.
LEMMA SlotCount ==
  ASSUME NEW w \in Workers, NEW T \in SUBSET SlotsOf(w)
  PROVE  /\ IsFiniteSet(T) /\ Cardinality(T) \in Nat
         /\ Cardinality(SlotsOf(w)) \in Nat
         /\ Cardinality(T) <= Cardinality(SlotsOf(w))
<1>1. IsFiniteSet(SlotsOf(w))
  BY SpendCapAssumption, FS_Subset DEF SlotsOf
<1> QED
  BY <1>1, FS_Subset, FS_CardinalityType

\* Multiplying by a cost keeps the order.
LEMMA CostMonotone ==
  ASSUME NEW a \in Nat, NEW b \in Nat, a <= b
  PROVE  /\ MaxCost * a \in Nat /\ MaxCost * b \in Nat
         /\ MaxCost * a <= MaxCost * b
  BY SpendCapAssumption

\* Adding to some scopes gives counts again.
LEMMA PlusType ==
  ASSUME NEW f \in Counts, NEW S, NEW n \in Nat
  PROVE  /\ Plus(f, S, n) \in Counts
         /\ \A s \in Scopes : /\ s \in S => Plus(f, S, n)[s] = f[s] + n
                              /\ s \notin S => Plus(f, S, n)[s] = f[s]
  BY DEF Plus, Counts

\* The initial states satisfy the invariant.
LEMMA SpendInit == Init => SpendInv
<1> SUFFICES ASSUME Init PROVE SpendInv
  OBVIOUS
<1> USE SpendCapAssumption DEF Init, Days, Zero
<1>1. TypeOK
  <2>1. Zero \in Counts
    BY DEF Counts
  <2> HIDE DEF Zero
  <2>2. /\ shared \in [Days -> Counts]
        /\ shadow \in [Workers -> [Days -> Counts]]
        /\ seen \in [Slots -> Counts]
    BY <2>1
  <2>3. /\ 0 \in Days /\ 0 \in 0..Attempts /\ 0 \in 0..MaxCost
        /\ 0 \in 0..MaxMishaps
    OBVIOUS
  <2>4. /\ day \in Days /\ on \in [Slots -> Days] /\ tries \in [Slots -> 0..Attempts]
        /\ cost \in [Slots -> 0..MaxCost] /\ mishaps \in 0..MaxMishaps
        /\ user \in [Slots -> Users \cup {NoUser}] /\ weak \in BOOLEAN
    BY <2>3
  <2> QED
    BY <2>2, <2>4 DEF TypeOK
<1>2. Trying
  BY DEF Trying
<1>3. NoFuture
  BY DEF NoFuture
<1>4. ASSUME NEW w \in Workers, NEW s \in Scopes, CapOf(s) > 0
      PROVE  /\ shadow[w][day][s] + MaxCost * Cardinality(Pending(w, s)) <= Bound(w, s)
             /\ \A d \in Days : shadow[w][d][s] <= Bound(w, s)
  <2>1. Pending(w, s) = {}
    BY DEF Pending, SlotsOf
  <2>2. Cardinality(Pending(w, s)) = 0
    BY <2>1, FS_EmptySet
  <2>3. MaxCost * Cardinality(SlotsOf(w)) \in Nat /\ MaxCost * 0 = 0
    BY SlotCount, CostMonotone
  <2>4. CapOf(s) \in Nat
    BY CapType
  <2> QED
    BY <1>4, <2>2, <2>3, <2>4 DEF Bound
<1> QED
  BY <1>1, <1>2, <1>3, <1>4 DEF SpendInv, Committed, NeverWeaker, Bound

-----------------------------------------------------------------------------
\* Nothing more is counted and no call becomes pending: the bound is kept.
LEMMA Shrink ==
  ASSUME SpendInv, TypeOK', Trying', shadow' = shadow, day' = day,
         \A w \in Workers, s \in Scopes :
           CapOf(s) > 0 => Pending(w, s)' \subseteq Pending(w, s)
  PROVE  SpendInv'
<1>1. NeverWeaker' /\ NoFuture'
  BY DEF SpendInv, NeverWeaker, NoFuture
<1>2. ASSUME NEW w \in Workers, NEW s \in Scopes, CapOf(s) > 0
      PROVE  shadow'[w][day'][s] + MaxCost * Cardinality(Pending(w, s)')
               <= Bound(w, s)
  <2> DEFINE P == Pending(w, s)
             Q == Pending(w, s)'
  <2>1. P \subseteq SlotsOf(w) /\ Q \subseteq P
    BY <1>2 DEF Pending
  <2>2. IsFiniteSet(P) /\ Cardinality(P) \in Nat
    BY <2>1, SlotCount
  <2> HIDE DEF P, Q
  <2>3. Cardinality(Q) \in Nat /\ Cardinality(Q) <= Cardinality(P)
    BY <2>1, <2>2, FS_Subset, FS_CardinalityType
  <2>4. /\ MaxCost * Cardinality(Q) <= MaxCost * Cardinality(P)
        /\ MaxCost * Cardinality(Q) \in Nat /\ MaxCost * Cardinality(P) \in Nat
    BY <2>2, <2>3, CostMonotone
  <2>5. shadow[w][day][s] + MaxCost * Cardinality(P) <= Bound(w, s)
    BY <1>2 DEF SpendInv, Committed, P
  <2>6. shadow[w][day][s] \in Nat
    BY DEF SpendInv, TypeOK, Counts
  <2>7. Bound(w, s) \in Int
    <3>1. MaxCost * Cardinality(SlotsOf(w)) \in Nat
      BY SlotCount, CostMonotone
    <3> QED
      BY <3>1, CapType DEF Bound
  <2>8. shadow[w][day][s] + MaxCost * Cardinality(Q) <= Bound(w, s)
    BY <2>4, <2>5, <2>6, <2>7
  <2> QED
    BY <2>8 DEF Q
<1>3. Committed'
  BY <1>2 DEF Committed, Bound, CapOf, SlotsOf
<1> QED
  BY <1>1, <1>3 DEF SpendInv

\* A slot that leaves keeps the types and is no longer pending.
LEMMA LeaveKeeps ==
  ASSUME SpendInv, NEW c \in Slots, Leave(c),
         shared' \in [Days -> Counts], shadow' = shadow, day' = day,
         mishaps' \in 0..MaxMishaps, weak' \in BOOLEAN
  PROVE  SpendInv'
<1>1. Zero \in Counts
  BY DEF Zero, Counts
<1>2. TypeOK'
  BY <1>1, SpendCapAssumption DEF SpendInv, TypeOK, Leave, Days
<1>3. Trying'
  BY DEF SpendInv, Trying, TypeOK, Leave
<1>4. \A w \in Workers, s \in Scopes : Pending(w, s)' \subseteq Pending(w, s)
  BY DEF SpendInv, TypeOK, Leave, Pending, Charged, SlotsOf, CapOf
<1> QED
  BY <1>2, <1>3, <1>4, Shrink

\* A call goes on only if what it was told, which is at least what its worker
\* counted, is below every limit.
LEMMA ProceedKeeps ==
  ASSUME SpendInv, NEW c \in Slots, pc[c] = "asking", NEW spent \in Counts,
         \A s \in Scopes : seen[c][s] <= spent[s],
         Proceed(c, spent), mishaps' \in 0..MaxMishaps, weak' \in BOOLEAN
  PROVE  SpendInv'
<1>1. TypeOK'
  BY SpendCapAssumption DEF SpendInv, TypeOK, Proceed
<1>2. Trying'
  BY SpendCapAssumption DEF SpendInv, Trying, TypeOK, Proceed
<1>3. ASSUME NEW w \in Workers, NEW s \in Scopes, CapOf(s) > 0,
             NEW b \in Pending(w, s)'
      PROVE  b \in Pending(w, s)
  <2>1. b \in SlotsOf(w) /\ b \in Slots /\ s \in Charged(b)
    BY <1>3 DEF Pending, SlotsOf, Charged, Proceed
  <2>2. CASE b # c
    BY <1>3, <2>1, <2>2 DEF Pending, Proceed, SpendInv, TypeOK, CapOf
  <2>3. CASE b = c
    <3>1. pc'[c] = "calling"
      BY <1>3, <2>3 DEF Pending, Proceed, SpendInv, TypeOK
    <3>2. ~(spent[s] >= CapOf(s))
      BY <1>3, <2>1, <2>3, <3>1 DEF Proceed, Over, SpendInv, TypeOK
    <3>3. seen[c][s] \in Nat /\ spent[s] \in Nat /\ CapOf(s) \in Nat
      BY CapType DEF SpendInv, TypeOK, Counts
    <3>4. seen[c][s] < CapOf(s)
      BY <3>2, <3>3
    <3> QED
      BY <2>1, <2>3, <3>4 DEF Pending
  <2> QED
    BY <2>2, <2>3
<1> QED
  BY <1>1, <1>2, <1>3, Shrink DEF Proceed

\* A slot that asks is pending only if its worker is below the limit.
LEMMA AskKeeps ==
  ASSUME SpendInv, NEW c \in Slots, Ask(c)
  PROVE  SpendInv'
<1> USE DEF calls
<1>1. PICK u \in Users \cup {NoUser} : user' = [user EXCEPT ![c] = u]
  BY DEF Ask
<1>2. WorkerOf[c] \in Workers /\ shadow[WorkerOf[c]][day] \in Counts
  BY SpendCapAssumption DEF SpendInv, TypeOK
<1>3. TypeOK'
  BY <1>1, <1>2 DEF SpendInv, TypeOK, Ask
<1>4. Trying' /\ NeverWeaker' /\ NoFuture'
  BY DEF SpendInv, TypeOK, Trying, NeverWeaker, NoFuture, Ask
<1>5. ASSUME NEW w \in Workers, NEW s \in Scopes, CapOf(s) > 0
      PROVE  shadow'[w][day'][s] + MaxCost * Cardinality(Pending(w, s)') <= Bound(w, s)
  <2> DEFINE Q == Pending(w, s)'
  <2>1. Q \subseteq SlotsOf(w)
    BY DEF Pending, SlotsOf
  <2>2. shadow' = shadow /\ day' = day /\ shadow[w][day][s] \in Nat /\ CapOf(s) \in Nat
    BY CapType DEF Ask, SpendInv, TypeOK, Counts
  <2>3. CASE c \in Q
    <3>1. w = WorkerOf[c] /\ shadow[w][day][s] < CapOf(s)
      BY <2>3, <1>2 DEF Pending, SlotsOf, Ask, SpendInv, TypeOK, CapOf
    <3> HIDE DEF Q
    <3>2. /\ MaxCost * Cardinality(Q) <= MaxCost * Cardinality(SlotsOf(w))
          /\ MaxCost * Cardinality(Q) \in Nat
          /\ MaxCost * Cardinality(SlotsOf(w)) \in Nat
      BY <2>1, SlotCount, CostMonotone
    <3>3. shadow[w][day][s] + MaxCost * Cardinality(Q) <= Bound(w, s)
      BY <3>1, <3>2, <2>2 DEF Bound
    <3> QED
      BY <3>3, <2>2 DEF Q
  <2>4. CASE c \notin Q
    <3>1. c \notin Pending(w, s)
      BY DEF Ask, Pending
    <3>2. \A b \in Slots : b # c =>
             /\ pc'[b] = pc[b] /\ seen'[b] = seen[b] /\ user'[b] = user[b]
      BY <1>1 DEF Ask, SpendInv, TypeOK
    <3>3. Q = Pending(w, s)
      BY <2>4, <3>1, <3>2 DEF Pending, SlotsOf, Charged, CapOf
    <3> QED
      BY <3>3, <2>2, <1>5 DEF SpendInv, Committed
  <2> QED
    BY <2>3, <2>4
<1>6. Committed'
  BY <1>5 DEF Committed, Bound, CapOf, SlotsOf
<1> QED
  BY <1>3, <1>4, <1>6 DEF SpendInv

\* A paid call is counted by its worker, and is no longer pending: what it
\* costs is at most what was kept for it.
LEMMA SucceedKeeps ==
  ASSUME SpendInv, NEW c \in Slots, Succeed(c)
  PROVE  SpendInv'
<1> DEFINE v == WorkerOf[c]
           new == Plus(shadow[v][day], Charged(c), cost'[c])
<1>1. PICK n \in 1..MaxCost :
        /\ cost' = [cost EXCEPT ![c] = n]
        /\ shadow' = [shadow EXCEPT ![v] =
             [d \in Days |-> IF d = day THEN Plus(shadow[v][d], Charged(c), n) ELSE Zero]]
  BY DEF Succeed
<1>2. /\ v \in Workers /\ day \in Days /\ shadow[v][day] \in Counts /\ n \in Nat
      /\ n <= MaxCost
  BY SpendCapAssumption DEF SpendInv, TypeOK
<1>3. Zero \in Counts
  BY DEF Zero, Counts
<1>4. Plus(shadow[v][day], Charged(c), n) \in Counts
  BY <1>2, PlusType
<1>5. /\ \A w \in Workers : w # v => shadow'[w] = shadow[w]
      /\ shadow'[v][day] = Plus(shadow[v][day], Charged(c), n)
      /\ \A d \in Days : d # day => shadow'[v][d] = Zero
  BY <1>1, <1>2 DEF SpendInv, TypeOK
<1>6. TypeOK'
  <2>1. shadow' \in [Workers -> [Days -> Counts]]
    BY <1>1, <1>2, <1>3, <1>4 DEF SpendInv, TypeOK
  <2>2. cost' \in [Slots -> 0..MaxCost]
    BY <1>1, <1>2, SpendCapAssumption DEF SpendInv, TypeOK
  <2> QED
    BY <1>2, <2>1, <2>2 DEF SpendInv, TypeOK, Succeed
<1>7. Trying'
  BY DEF SpendInv, TypeOK, Trying, Succeed
<1>8. day' = day
  BY DEF Succeed
<1>9. NoFuture'
  <2> SUFFICES ASSUME NEW w \in Workers, NEW d \in Days, NEW s \in Scopes, d > day
               PROVE  shadow'[w][d][s] = 0
    BY <1>8 DEF NoFuture
  <2>1. d # day
    BY <1>2 DEF Days
  <2>2. CASE w = v
    BY <2>1, <2>2, <1>5 DEF Zero
  <2>3. CASE w # v
    BY <2>3, <1>5 DEF SpendInv, NoFuture
  <2> QED
    BY <2>2, <2>3
<1>10. ASSUME NEW w \in Workers, NEW s \in Scopes
       PROVE  Pending(w, s)' = Pending(w, s) \ {c}
  <2>1. \A b \in Slots : b # c => pc'[b] = pc[b]
    BY DEF SpendInv, TypeOK, Succeed
  <2>2. pc'[c] = "total"
    BY DEF SpendInv, TypeOK, Succeed
  <2> QED
    BY <2>1, <2>2 DEF Pending, SlotsOf, Charged, CapOf, Succeed
<1>11. ASSUME NEW w \in Workers, NEW s \in Scopes, CapOf(s) > 0
       PROVE  shadow'[w][day][s] + MaxCost * Cardinality(Pending(w, s)') <= Bound(w, s)
  <2> DEFINE P == Pending(w, s)
  <2>1. P \subseteq SlotsOf(w) /\ IsFiniteSet(P) /\ Cardinality(P) \in Nat
    BY SlotCount DEF Pending
  <2>2. shadow[w][day][s] + MaxCost * Cardinality(P) <= Bound(w, s)
    BY <1>11 DEF SpendInv, Committed
  <2>3. shadow[w][day][s] \in Nat
    BY <1>2 DEF SpendInv, TypeOK, Counts
  <2>4. Bound(w, s) \in Int
    <3>1. MaxCost * Cardinality(SlotsOf(w)) \in Nat
      BY SlotCount, CostMonotone
    <3> QED
      BY <3>1, CapType DEF Bound
  <2>5. CASE c \in P
    <3>1. Cardinality(P \ {c}) = Cardinality(P) - 1
      BY <2>1, <2>5, FS_RemoveElement
    <3>2. Cardinality(P \ {c}) \in Nat
      BY <2>1, FS_RemoveElement, FS_CardinalityType
    <3>3. shadow'[w][day][s] <= shadow[w][day][s] + n /\ shadow'[w][day][s] \in Nat
      BY <1>2, <1>5, <2>3, PlusType DEF Counts
    <3> HIDE DEF P
    <3>4. MaxCost * Cardinality(P) = MaxCost * Cardinality(P \ {c}) + MaxCost
      BY <3>1, <3>2, <2>1, SpendCapAssumption
    <3>5. MaxCost * Cardinality(P \ {c}) \in Nat
      BY <3>2, SpendCapAssumption
    <3>6. shadow'[w][day][s] + MaxCost * Cardinality(P \ {c}) <= Bound(w, s)
      BY <3>3, <3>4, <3>5, <2>2, <2>3, <2>4, <1>2, SpendCapAssumption
    <3> QED
      BY <3>6, <1>10 DEF P
  <2>6. CASE c \notin P
    <3>1. P \ {c} = P
      BY <2>6
    <3>2. w # v \/ s \notin Charged(c)
      BY <2>6 DEF Succeed, Pending, SlotsOf
    <3>3. shadow'[w][day][s] = shadow[w][day][s]
      BY <3>2, <1>2, <1>5, PlusType
    <3> QED
      BY <3>1, <3>3, <2>2, <1>10
  <2> QED
    BY <2>5, <2>6
<1>12. Committed'
  BY <1>8, <1>11 DEF Committed, Bound, CapOf, SlotsOf
<1>13. NeverWeaker'
  <2> SUFFICES ASSUME NEW w \in Workers, NEW d \in Days, NEW s \in Scopes, CapOf(s) > 0
               PROVE  shadow'[w][d][s] <= Bound(w, s)
    BY DEF NeverWeaker, Bound, CapOf, SlotsOf
  <2>1. CASE d = day
    <3>1. MaxCost * Cardinality(Pending(w, s)') \in Nat
      BY SlotCount, CostMonotone, <1>10 DEF Pending
    <3>2. shadow'[w][day][s] \in Nat
      BY <1>2, <1>6 DEF TypeOK, Counts
    <3>3. Bound(w, s) \in Int
      <4>1. MaxCost * Cardinality(SlotsOf(w)) \in Nat
        BY SlotCount, CostMonotone
      <4> QED
        BY <4>1, CapType DEF Bound
    <3> QED
      BY <2>1, <1>11, <3>1, <3>2, <3>3
  <2>2. CASE d # day /\ w = v
    <3>1. shadow'[w][d][s] = 0
      BY <2>2, <1>5 DEF Zero
    <3>2. MaxCost * Cardinality(SlotsOf(w)) \in Nat
      BY SlotCount, CostMonotone
    <3> QED
      BY <3>1, <3>2, CapType DEF Bound
  <2>3. CASE w # v
    BY <2>3, <1>5 DEF SpendInv, NeverWeaker, Bound
  <2> QED
    BY <2>1, <2>2, <2>3
<1> QED
  BY <1>6, <1>7, <1>9, <1>12, <1>13 DEF SpendInv

\* A worker that counts nothing yet may have all its slots pending.
LEMMA Fresh ==
  ASSUME NEW w \in Workers, NEW s \in Scopes, CapOf(s) > 0,
         NEW T \in SUBSET SlotsOf(w)
  PROVE  0 + MaxCost * Cardinality(T) <= Bound(w, s) /\ 0 <= Bound(w, s)
<1>1. /\ MaxCost * Cardinality(T) <= MaxCost * Cardinality(SlotsOf(w))
      /\ MaxCost * Cardinality(T) \in Nat
      /\ MaxCost * Cardinality(SlotsOf(w)) \in Nat
  BY SlotCount, CostMonotone
<1> QED
  BY <1>1, CapType DEF Bound

\* At midnight the pending calls stay, and the new day's count is empty.
LEMMA MidnightKeeps ==
  ASSUME SpendInv, Midnight
  PROVE  SpendInv'
<1> USE DEF calls
<1>1. day \in Nat /\ day' = day + 1 /\ day' \in Days /\ shadow' = shadow
  BY SpendCapAssumption DEF Midnight, SpendInv, TypeOK, Days
<1>2. TypeOK' /\ Trying' /\ NeverWeaker'
  BY <1>1 DEF Midnight, SpendInv, TypeOK, Trying, NeverWeaker
<1>3. NoFuture'
  BY <1>1, SpendCapAssumption DEF SpendInv, NoFuture, Days
<1>4. ASSUME NEW w \in Workers, NEW s \in Scopes, CapOf(s) > 0
      PROVE  shadow'[w][day'][s] + MaxCost * Cardinality(Pending(w, s)') <= Bound(w, s)
  <2>1. shadow'[w][day'][s] = 0
    BY <1>1, SpendCapAssumption DEF SpendInv, NoFuture, Days
  <2>2. Pending(w, s)' \subseteq SlotsOf(w)
    BY DEF Pending, SlotsOf
  <2> QED
    BY <1>4, <2>1, <2>2, Fresh
<1>5. Committed'
  BY <1>4 DEF Committed, Bound, CapOf, SlotsOf
<1> QED
  BY <1>2, <1>3, <1>5 DEF SpendInv

\* A worker that restarts has counted nothing.
LEMMA RestartKeeps ==
  ASSUME SpendInv, NEW v \in Workers, Restart(v)
  PROVE  SpendInv'
<1>1. Zero \in Counts
  BY DEF Zero, Counts
<1>2. /\ \A w \in Workers : w # v => shadow'[w] = shadow[w]
      /\ \A d \in Days, s \in Scopes : shadow'[v][d][s] = 0
      /\ day' = day
  BY DEF Restart, SpendInv, TypeOK, Zero
<1>3. TypeOK'
  BY <1>1, SpendCapAssumption DEF SpendInv, TypeOK, Restart, Mishap
<1>4. Trying' /\ NoFuture'
  BY <1>2 DEF SpendInv, Trying, NoFuture, Restart
<1>5. ASSUME NEW w \in Workers, NEW s \in Scopes, CapOf(s) > 0
      PROVE  /\ shadow'[w][day'][s] + MaxCost * Cardinality(Pending(w, s)') <= Bound(w, s)
             /\ \A d \in Days : shadow'[w][d][s] <= Bound(w, s)
  <2>1. CASE w = v
    <3>1. Pending(w, s)' \subseteq SlotsOf(w)
      BY DEF Pending, SlotsOf
    <3>2. day \in Days
      BY DEF SpendInv, TypeOK
    <3> QED
      BY <2>1, <3>1, <3>2, <1>2, <1>5, Fresh
  <2>2. CASE w # v
    <3>1. Pending(w, s)' = Pending(w, s)
      BY <2>2 DEF Pending, SlotsOf, Charged, Restart, CapOf
    <3> QED
      BY <2>2, <3>1, <1>2, <1>5 DEF SpendInv, Committed, NeverWeaker, Bound
  <2> QED
    BY <2>1, <2>2
<1>6. Committed' /\ NeverWeaker'
  BY <1>5 DEF Committed, NeverWeaker, Bound, CapOf, SlotsOf
<1> QED
  BY <1>3, <1>4, <1>6 DEF SpendInv

\* Every step keeps the invariant.
LEMMA SpendNext == SpendInv /\ [Next]_vars => SpendInv'
<1> SUFFICES ASSUME SpendInv, [Next]_vars PROVE SpendInv'
  OBVIOUS
<1>1. CASE Midnight
  BY <1>1, MidnightKeeps
<1>2. CASE RedisRestarts
  <2>1. TypeOK' /\ Trying'
    BY <1>2, SpendCapAssumption
       DEF RedisRestarts, Mishap, SpendInv, TypeOK, Trying, calls, Zero, Counts
  <2>2. shadow' = shadow /\ day' = day
    BY <1>2 DEF RedisRestarts
  <2>3. \A w \in Workers, s \in Scopes : Pending(w, s)' \subseteq Pending(w, s)
    BY <1>2 DEF RedisRestarts, calls, Pending, SlotsOf, Charged, CapOf
  <2> QED
    BY <2>1, <2>2, <2>3, Shrink
<1>3. ASSUME NEW w \in Workers, Restart(w) PROVE SpendInv'
  BY <1>3, RestartKeeps
<1>4. ASSUME NEW c \in Slots, Ask(c) PROVE SpendInv'
  BY <1>4, AskKeeps
<1>5. ASSUME NEW c \in Slots, Answered(c) PROVE SpendInv'
  <2> DEFINE spent == AtLeast(shared[on[c]], seen[c])
  <2>1. /\ shared[on[c]] \in Counts /\ seen[c] \in Counts
        /\ mishaps' \in 0..MaxMishaps /\ weak' \in BOOLEAN
    BY <1>5 DEF SpendInv, TypeOK, Answered
  <2>2. spent \in Counts /\ \A s \in Scopes : seen[c][s] <= spent[s]
    BY <2>1 DEF AtLeast, Counts
  <2>3. pc[c] = "asking" /\ Proceed(c, spent)
    BY <1>5 DEF Answered
  <2> HIDE DEF spent
  <2> QED
    BY <2>1, <2>2, <2>3, ProceedKeeps
<1>6. ASSUME NEW c \in Slots, Unanswered(c) PROVE SpendInv'
  <2>1. /\ seen[c] \in Counts
        /\ mishaps' \in 0..MaxMishaps /\ weak' \in BOOLEAN
    BY <1>6, SpendCapAssumption DEF SpendInv, TypeOK, Unanswered, Mishap
  <2>2. \A s \in Scopes : seen[c][s] <= seen[c][s]
    BY <2>1 DEF Counts
  <2>3. pc[c] = "asking" /\ Proceed(c, seen[c])
    BY <1>6 DEF Unanswered
  <2> QED
    BY <2>1, <2>2, <2>3, ProceedKeeps
<1>7. ASSUME NEW c \in Slots, Succeed(c) PROVE SpendInv'
  BY <1>7, SucceedKeeps
<1>8. ASSUME NEW c \in Slots, SucceedFree(c) \/ Failsafe(c) PROVE SpendInv'
  <2>1. /\ Leave(c) /\ shared' \in [Days -> Counts] /\ shadow' = shadow
        /\ day' = day /\ mishaps' \in 0..MaxMishaps /\ weak' \in BOOLEAN
    BY <1>8 DEF SucceedFree, Failsafe, SpendInv, TypeOK
  <2> QED
    BY <2>1, LeaveKeeps
<1>9. ASSUME NEW c \in Slots, Fail(c) PROVE SpendInv'
  <2>1. TypeOK'
    <3>1. tries[c] >= 1 /\ tries[c] \in 0..Attempts
      BY <1>9 DEF Fail, SpendInv, TypeOK, Trying
    <3>2. tries' \in [Slots -> 0..Attempts]
      BY <1>9, <3>1, SpendCapAssumption DEF Fail, SpendInv, TypeOK
    <3> QED
      BY <1>9, <3>2 DEF Fail, SpendInv, TypeOK
  <2>2. Trying'
    BY <1>9, SpendCapAssumption DEF Fail, SpendInv, TypeOK, Trying
  <2>3. \A w \in Workers, s \in Scopes : Pending(w, s)' \subseteq Pending(w, s)
    BY <1>9 DEF Fail, SpendInv, TypeOK, Pending, SlotsOf, Charged, CapOf
  <2> QED
    BY <1>9, <2>1, <2>2, <2>3, Shrink DEF Fail
<1>10. ASSUME NEW c \in Slots, NEW s, Increase(c, s)
       PROVE  shared' \in [Days -> Counts]
  <2>1. on[c] \in Days /\ shared[on[c]] \in Counts /\ cost[c] \in Nat
    BY SpendCapAssumption DEF SpendInv, TypeOK
  <2>2. Plus(shared[on[c]], {s}, cost[c]) \in Counts
    BY <2>1, PlusType
  <2> QED
    BY <1>10, <2>1, <2>2 DEF Increase, SpendInv, TypeOK
<1>11. ASSUME NEW c \in Slots, CountTotal(c) PROVE SpendInv'
  <2>1. shared' \in [Days -> Counts]
    BY <1>11, <1>10 DEF CountTotal
  <2>2. /\ shadow' = shadow /\ day' = day
        /\ mishaps' \in 0..MaxMishaps /\ weak' \in BOOLEAN
    BY <1>11 DEF CountTotal, SpendInv, TypeOK
  <2>3. CASE Leave(c)
    BY <2>1, <2>2, <2>3, LeaveKeeps
  <2>4. CASE pc' = [pc EXCEPT ![c] = "user"] /\ UNCHANGED <<user, on, seen, tries, cost>>
    <3>1. TypeOK' /\ Trying'
      BY <2>1, <2>2, <2>4 DEF SpendInv, TypeOK, Trying
    <3>2. \A w \in Workers, s \in Scopes : Pending(w, s)' \subseteq Pending(w, s)
      BY <2>4 DEF SpendInv, TypeOK, Pending, SlotsOf, Charged, CapOf
    <3> QED
      BY <2>2, <3>1, <3>2, Shrink
  <2> QED
    BY <1>11, <2>3, <2>4 DEF CountTotal
<1>12. ASSUME NEW c \in Slots, CountUser(c) PROVE SpendInv'
  <2>1. shared' \in [Days -> Counts]
    BY <1>12, <1>10 DEF CountUser
  <2>2. /\ Leave(c) /\ shadow' = shadow /\ day' = day
        /\ mishaps' \in 0..MaxMishaps /\ weak' \in BOOLEAN
    BY <1>12 DEF CountUser, SpendInv, TypeOK
  <2> QED
    BY <2>1, <2>2, LeaveKeeps
<1>13. ASSUME NEW c \in Slots, Skip(c), weak' \in BOOLEAN PROVE SpendInv'
  <2>1. shared' \in [Days -> Counts]
    <3>1. CASE shared' = shared
      BY <3>1 DEF SpendInv, TypeOK
    <3>2. CASE Increase(c, Total)
      BY <3>2, <1>10
    <3>3. CASE pc[c] = "user" /\ Increase(c, user[c])
      BY <3>3, <1>10
    <3> QED
      BY <1>13, <3>1, <3>2, <3>3 DEF Skip
  <2>2. /\ Leave(c) /\ shadow' = shadow /\ day' = day /\ mishaps' \in 0..MaxMishaps
    BY <1>13, SpendCapAssumption DEF Skip, Mishap, SpendInv, TypeOK
  <2> QED
    BY <1>13, <2>1, <2>2, LeaveKeeps
<1>14. ASSUME NEW c \in Slots, Uncounted(c) PROVE SpendInv'
  BY <1>13, <1>14 DEF Uncounted
<1>15. ASSUME NEW c \in Slots, Cancel(c) PROVE SpendInv'
  <2>1. CASE Skip(c) /\ weak' = weak
    BY <2>1, <1>13 DEF SpendInv, TypeOK
  <2>2. CASE Mishap /\ Leave(c) /\ UNCHANGED <<day, shared, shadow, weak>>
    <3>1. shared' \in [Days -> Counts] /\ mishaps' \in 0..MaxMishaps /\ weak' \in BOOLEAN
      BY <2>2, SpendCapAssumption DEF Mishap, SpendInv, TypeOK
    <3> QED
      BY <2>2, <3>1, LeaveKeeps
  <2> QED
    BY <1>15, <2>1, <2>2 DEF Cancel
<1>16. CASE UNCHANGED vars
  <2>1. TypeOK' /\ Trying'
    BY <1>16 DEF vars, calls, SpendInv, TypeOK, Trying
  <2>2. \A w \in Workers, s \in Scopes : Pending(w, s)' \subseteq Pending(w, s)
    BY <1>16 DEF vars, calls, Pending, SlotsOf, Charged, CapOf
  <2> QED
    BY <1>16, <2>1, <2>2, Shrink DEF vars
<1> QED
  BY <1>1, <1>2, <1>3, <1>4, <1>5, <1>6, <1>7, <1>8, <1>9, <1>11, <1>12,
     <1>14, <1>15, <1>16 DEF Next

-----------------------------------------------------------------------------
\* Every reachable state is well typed.
THEOREM SpendTypes == Spec => []TypeOK
<1>1. SpendInv => TypeOK
  BY DEF SpendInv
<1> QED
  BY SpendInit, SpendNext, <1>1, PTL DEF Spec

\* Whatever happens to Redis, the guard is never weaker than a limit per worker.
THEOREM NeverWeakerThanPerWorker == Spec => []NeverWeaker
<1>1. SpendInv => NeverWeaker
  BY DEF SpendInv
<1> QED
  BY SpendInit, SpendNext, <1>1, PTL DEF Spec

-----------------------------------------------------------------------------
(* The limit across the workers, while Redis answers.  What the workers    *)
(* count together is what Redis counts, what they owe it (counts between   *)
(* the worker's own and Redis's) and what was cancelled on the way.  A     *)
(* call let through by Redis's count below the limit is not one that owes, *)
(* so calls due and calls that owe share the slots.                        *)

Counted(d, s) == [w \in Workers |-> shadow[w][d][s]]

\* The calls counted by their worker today and not by Redis yet.
Owing(s) ==
  {c \in Slots : /\ on[c] = day
                 /\ \/ pc[c] = "total" /\ s \in Charged(c)
                    \/ pc[c] = "user" /\ s = user[c]}
Owed(s) == [c \in Slots |-> IF c \in Owing(s) THEN cost[c] ELSE 0]
OwedBy(w, s) == [c \in Slots |-> IF c \in Owing(s) /\ WorkerOf[c] = w THEN cost[c] ELSE 0]

\* The calls that may be charged to a scope without another look at today's count.
Due(s) ==
  {c \in Slots : /\ s \in Charged(c)
                 /\ \/ pc[c] = "calling"
                    \/ pc[c] = "asking" /\ on[c] # day}

Allowed(s) == CapOf(s) - 1 + MaxCost * (Cardinality(Slots) + mishaps)

NotAhead == \A c \in Slots : on[c] <= day
OwnFirst ==
  \A w \in Workers, s \in Scopes : Sum(OwedBy(w, s), Slots) <= shadow[w][day][s]
Accounted ==
  ~weak => \A s \in Scopes :
    Sum(Counted(day, s), Workers) <= shared[day][s] + Sum(Owed(s), Slots) + MaxCost * mishaps
LetThrough ==
  ~weak => \A s \in Scopes : CapOf(s) > 0 =>
    Sum(Counted(day, s), Workers) + MaxCost * Cardinality(Due(s)) <= Allowed(s)
CapKept ==
  ~weak => \A d \in Days, s \in Scopes : CapOf(s) > 0 =>
    Sum(Counted(d, s), Workers) <= Allowed(s)

\* The strengthening of OneCap that every step keeps.
CapInv == SpendInv /\ NotAhead /\ OwnFirst /\ Accounted /\ LetThrough /\ CapKept

-----------------------------------------------------------------------------
Numbers ==
  /\ IsFiniteSet(Slots) /\ IsFiniteSet(Workers) /\ day \in Days /\ mishaps \in Nat
  /\ MaxCost \in Nat /\ Cardinality(Slots) \in Nat
  /\ \A d \in Days, s \in Scopes :
       /\ Counted(d, s) \in [Workers -> Int] /\ Sum(Counted(d, s), Workers) \in Int
       /\ \A w \in Workers : Counted(d, s)[w] = shadow[w][d][s]
       /\ \A w \in Workers : shadow[w][d][s] \in Nat
       /\ shared[d][s] \in Nat
  /\ \A c \in Slots : cost[c] \in 0..MaxCost
  /\ \A s : Owed(s) \in [Slots -> Int] /\ Sum(Owed(s), Slots) \in Int
  /\ \A w, s : OwedBy(w, s) \in [Slots -> Int] /\ Sum(OwedBy(w, s), Slots) \in Int
  /\ \A s \in Scopes : CapOf(s) \in Nat /\ Allowed(s) \in Int

LEMMA SpendNumbers == SpendInv => Numbers
<1> SUFFICES ASSUME SpendInv PROVE Numbers
  OBVIOUS
<1> USE SpendCapAssumption DEF SpendInv, TypeOK
<1>1. /\ IsFiniteSet(Slots) /\ IsFiniteSet(Workers) /\ day \in Days /\ mishaps \in Nat
      /\ MaxCost \in Nat /\ Cardinality(Slots) \in Nat
  BY FS_CardinalityType
<1>2. \A d \in Days, s \in Scopes :
        /\ Counted(d, s) \in [Workers -> Int]
        /\ \A w \in Workers : Counted(d, s)[w] = shadow[w][d][s]
        /\ \A w \in Workers : shadow[w][d][s] \in Nat
        /\ shared[d][s] \in Nat
  BY DEF Counts, Counted
<1>3. \A c \in Slots : cost[c] \in 0..MaxCost /\ cost[c] \in Int
  OBVIOUS
<1>4. /\ \A s : Owed(s) \in [Slots -> Int]
      /\ \A w, s : OwedBy(w, s) \in [Slots -> Int]
  BY <1>3 DEF Owed, OwedBy
<1>5. \A s \in Scopes : CapOf(s) \in Nat /\ Allowed(s) \in Int
  BY <1>1, CapType DEF Allowed
<1>6. \A d \in Days, s \in Scopes : Sum(Counted(d, s), Workers) \in Int
  BY <1>1, <1>2, SumType
<1>7. /\ \A s : Sum(Owed(s), Slots) \in Int
      /\ \A w, s : Sum(OwedBy(w, s), Slots) \in Int
  BY <1>1, <1>4, SumType
<1> QED
  BY <1>1, <1>2, <1>3, <1>4, <1>5, <1>6, <1>7 DEF Numbers

LEMMA SpendNumbersNext == SpendInv' => Numbers'
  BY SpendNumbers, PTL

LEMMA CapInit == Init => CapInv
<1> SUFFICES ASSUME Init PROVE CapInv
  OBVIOUS
<1>1. SpendInv
  BY SpendInit
<1> USE DEF Numbers
<1>2. /\ \A d \in Days, s \in Scopes : \A w \in Workers : shadow[w][d][s] = 0
      /\ \A c \in Slots : pc[c] = "idle" /\ on[c] = 0
      /\ day = 0 /\ mishaps = 0
  BY DEF Init, Zero
<1>3. \A s : /\ \A c \in Slots : Owed(s)[c] = 0
             /\ \A w : \A c \in Slots : OwedBy(w, s)[c] = 0
             /\ Due(s) = {}
  BY <1>2 DEF Owed, OwedBy, Owing, Due
<1>4. /\ \A s : Sum(Owed(s), Slots) = 0
      /\ \A w, s : Sum(OwedBy(w, s), Slots) = 0
      /\ \A d \in Days, s \in Scopes : Sum(Counted(d, s), Workers) = 0
  BY <1>1, <1>2, <1>3, SpendNumbers, SumOfNone
<1>5. /\ \A s : MaxCost * Cardinality(Due(s)) = 0
      /\ MaxCost * mishaps = 0
      /\ \A s \in Scopes : CapOf(s) > 0 => 0 <= Allowed(s)
  <2>1. Cardinality({}) = 0 /\ MaxCost * 0 = 0
    BY <1>1, FS_EmptySet, SpendNumbers
  <2>2. MaxCost * (Cardinality(Slots) + mishaps) \in Nat
    BY <1>1, SpendNumbers
  <2>3. ASSUME NEW s \in Scopes, CapOf(s) > 0 PROVE 0 <= Allowed(s)
    <3>1. CapOf(s) \in Nat
      BY CapType
    <3> QED
      BY <2>2, <2>3, <3>1 DEF Allowed
  <2> QED
    BY <1>2, <1>3, <2>1, <2>3
<1>6. \A d \in Days, s \in Scopes : shared[d][s] \in Nat
  BY <1>1, SpendNumbers
<1>7. day \in Days /\ \A w \in Workers, s \in Scopes : shadow[w][day][s] = 0
  BY <1>1, <1>2, SpendNumbers
<1> QED
  BY <1>1, <1>2, <1>4, <1>5, <1>6, <1>7
     DEF CapInv, NotAhead, OwnFirst, Accounted, LetThrough, CapKept

\* Multiplying by a cost, of a sum.
LEMMA CostTimes ==
  ASSUME NEW a \in Int, NEW b \in Int
  PROVE  /\ MaxCost * (a + b) = MaxCost * a + MaxCost * b
         /\ MaxCost * a \in Int /\ MaxCost * b \in Int
         /\ a <= b => MaxCost * a <= MaxCost * b
  BY SpendCapAssumption

\* A step in which no worker counts anything, and one slot goes on.
LEMMA SlotKeeps ==
  ASSUME CapInv, SpendInv', UNCHANGED <<day, shadow>>, mishaps' >= mishaps, ~weak' => ~weak,
         NEW c \in Slots, on'[c] <= day,
         \A b \in Slots \ {c} :
           pc'[b] = pc[b] /\ on'[b] = on[b] /\ user'[b] = user[b] /\ cost'[b] = cost[b],
         \A s \in Scopes : c \in Owing(s)' => c \in Owing(s) /\ cost'[c] = cost[c],
         ~weak' => \A s \in Scopes :
           shared[day][s] + Owed(s)[c] + MaxCost * mishaps
             <= shared'[day][s] + Owed(s)'[c] + MaxCost * mishaps',
         ~weak' => \A s \in Scopes : CapOf(s) > 0 => \/ Due(s)' \subseteq Due(s)
           \/ Sum(Counted(day, s), Workers) + MaxCost * Cardinality(Due(s)') <= Allowed(s)
  PROVE  CapInv'
<1> USE DEF CapInv, Numbers
<1>1. /\ \A s \in Scopes : \A b \in Slots \ {c} : Owed(s)'[b] = Owed(s)[b]
      /\ \A w \in Workers, s \in Scopes : \A b \in Slots : OwedBy(w, s)'[b] <= OwedBy(w, s)[b]
  <2>1. \A s \in Scopes : \A b \in Slots \ {c} : b \in Owing(s)' <=> b \in Owing(s)
    BY DEF Owing, Charged
  <2>2. \A b \in Slots : cost[b] \in Nat
    BY SpendNumbers
  <2> QED
    BY <2>1, <2>2 DEF Owed, OwedBy
<1>2. \A d, s : Counted(d, s)' = Counted(d, s)
  BY DEF Counted
<1>3. \A s \in Scopes : CapOf(s) > 0 => Allowed(s) <= Allowed(s)'
  <2>1. MaxCost * (Cardinality(Slots) + mishaps) <= MaxCost * (Cardinality(Slots) + mishaps')
    <3>1. /\ Cardinality(Slots) + mishaps \in Int /\ Cardinality(Slots) + mishaps' \in Int
          /\ Cardinality(Slots) + mishaps <= Cardinality(Slots) + mishaps'
      BY SpendNumbers, SpendCapAssumption DEF SpendInv, TypeOK
    <3> QED
      BY <3>1, CostTimes
  <2>2. /\ MaxCost * (Cardinality(Slots) + mishaps) \in Int
        /\ MaxCost * (Cardinality(Slots) + mishaps') \in Int
    BY SpendNumbers, SpendCapAssumption DEF SpendInv, TypeOK
  <2>3. \A s \in Scopes : CapOf(s) \in Nat /\ CapOf(s)' = CapOf(s)
    BY CapType DEF CapOf
  <2> QED
    BY <2>1, <2>2, <2>3 DEF Allowed
<1>4. NotAhead'
  BY DEF NotAhead
<1>5. OwnFirst'
  <2>1. \A w \in Workers, s \in Scopes : Sum(OwedBy(w, s)', Slots) <= Sum(OwedBy(w, s), Slots)
    <3> SUFFICES ASSUME NEW w \in Workers, NEW s \in Scopes
                 PROVE  Sum(OwedBy(w, s)', Slots) <= Sum(OwedBy(w, s), Slots)
      OBVIOUS
    <3>1. /\ OwedBy(w, s) \in [Slots -> Int] /\ OwedBy(w, s)' \in [Slots -> Int]
          /\ \A b \in Slots : OwedBy(w, s)'[b] <= OwedBy(w, s)[b] /\ IsFiniteSet(Slots)
      BY <1>1, SpendNumbers, SpendNumbersNext
    <3> QED
      BY <3>1, SumMonotone
  <2> QED
    BY <2>1, SpendNumbers, SpendNumbersNext DEF OwnFirst
<1>6. ASSUME ~weak', NEW s \in Scopes
      PROVE  Sum(Counted(day, s)', Workers)
               <= shared'[day'][s] + Sum(Owed(s)', Slots) + MaxCost * mishaps'
  <2>1. Sum(Owed(s)', Slots) = Sum(Owed(s), Slots) + (Owed(s)'[c] - Owed(s)[c])
    <3>1. /\ Owed(s) \in [Slots -> Int] /\ Owed(s)' \in [Slots -> Int] /\ IsFiniteSet(Slots)
          /\ \A b \in Slots \ {c} : Owed(s)'[b] = Owed(s)[b]
      BY <1>1, SpendNumbers, SpendNumbersNext
    <3> QED
      BY <3>1, SumChange
  <2>2. /\ shared[day][s] + Owed(s)[c] + MaxCost * mishaps
             <= shared'[day][s] + Owed(s)'[c] + MaxCost * mishaps'
        /\ Sum(Counted(day, s), Workers)
             <= shared[day][s] + Sum(Owed(s), Slots) + MaxCost * mishaps
    BY <1>6 DEF Accounted
  <2>3. Counted(day, s)' = Counted(day, s)
    BY <1>2
  <2>4. /\ shared[day][s] \in Int /\ Owed(s)[c] \in Int /\ MaxCost * mishaps \in Int
        /\ Sum(Owed(s), Slots) \in Int /\ Sum(Counted(day, s), Workers) \in Int
    BY SpendNumbers
  <2>5. /\ shared'[day][s] \in Int /\ Owed(s)'[c] \in Int /\ MaxCost * mishaps' \in Int
    BY SpendNumbersNext
  <2>6. Sum(Counted(day, s), Workers)
          <= shared'[day][s] + (Sum(Owed(s), Slots) + (Owed(s)'[c] - Owed(s)[c])) + MaxCost * mishaps'
    <3> HIDE DEF Numbers
    <3> QED
      BY ONLY <2>2, <2>4, <2>5
  <2> QED
    BY <2>1, <2>3, <2>6
<1>7. Accounted'
  <2>1. \A s \in Scopes : Counted(day, s)' = [w \in Workers |-> shadow'[w][day'][s]]
    BY DEF Counted
  <2> QED
    BY <1>6 DEF Accounted
<1>8. ASSUME ~weak', NEW s \in Scopes, CapOf(s) > 0
      PROVE  Sum(Counted(day, s), Workers) + MaxCost * Cardinality(Due(s)') <= Allowed(s)'
  <2>1. /\ IsFiniteSet(Due(s)) /\ Cardinality(Due(s)) \in Int /\ Cardinality(Due(s)') \in Int
        /\ Due(s)' \subseteq Due(s) => Cardinality(Due(s)') <= Cardinality(Due(s))
    BY SpendNumbers, FS_Subset, FS_CardinalityType DEF Due
  <2>2. Due(s)' \subseteq Due(s) =>
          MaxCost * Cardinality(Due(s)') <= MaxCost * Cardinality(Due(s))
    BY <2>1, CostTimes
  <2>3. Sum(Counted(day, s), Workers) + MaxCost * Cardinality(Due(s)) <= Allowed(s)
    BY <1>8 DEF LetThrough
  <2>4. /\ MaxCost * Cardinality(Due(s)) \in Int /\ MaxCost * Cardinality(Due(s)') \in Int
        /\ Sum(Counted(day, s), Workers) \in Int /\ Allowed(s) \in Int /\ Allowed(s)' \in Int
    BY <2>1, CostTimes, SpendNumbers, SpendNumbersNext
  <2>5. Allowed(s) <= Allowed(s)'
    BY <1>3, <1>8
  <2>6. \/ Due(s)' \subseteq Due(s)
        \/ Sum(Counted(day, s), Workers) + MaxCost * Cardinality(Due(s)') <= Allowed(s)
    BY <1>8
  <2> HIDE DEF Numbers
  <2> QED
    BY ONLY <2>2, <2>3, <2>4, <2>5, <2>6
<1>9. LetThrough'
  BY <1>2, <1>8 DEF LetThrough, CapOf
<1>10. CapKept'
  <2> SUFFICES ASSUME ~weak', NEW d \in Days, NEW s \in Scopes, CapOf(s) > 0
               PROVE  Sum(Counted(d, s), Workers) <= Allowed(s)'
    BY <1>2 DEF CapKept, CapOf
  <2>1. Sum(Counted(d, s), Workers) <= Allowed(s) /\ Allowed(s) <= Allowed(s)'
    BY <1>3 DEF CapKept
  <2> QED
    BY <2>1, SpendNumbers, SpendNumbersNext
<1> QED
  BY <1>4, <1>5, <1>7, <1>9, <1>10

\* A step that changes nothing of what is counted.
LEMMA Uncharged ==
  ASSUME CapInv, SpendInv', UNCHANGED <<day, shadow, shared>>, mishaps' >= mishaps, ~weak' => ~weak,
         NEW c \in Slots, on'[c] <= day, pc[c] \notin {"total", "user"} \/ mishaps' >= mishaps + 1,
         pc'[c] \notin {"total", "user"},
         \A b \in Slots \ {c} :
           pc'[b] = pc[b] /\ on'[b] = on[b] /\ user'[b] = user[b] /\ cost'[b] = cost[b],
         ~weak' => \A s \in Scopes : CapOf(s) > 0 => \/ Due(s)' \subseteq Due(s)
           \/ Sum(Counted(day, s), Workers) + MaxCost * Cardinality(Due(s)') <= Allowed(s)
  PROVE  CapInv'
<1> USE DEF Numbers
<1>1. \A s : c \notin Owing(s)' /\ Owed(s)'[c] = 0
  BY DEF Owing, Owed
<1>2. ASSUME NEW s \in Scopes
      PROVE  shared[day][s] + Owed(s)[c] + MaxCost * mishaps
               <= shared'[day][s] + Owed(s)'[c] + MaxCost * mishaps'
  <2>1. /\ shared[day][s] \in Int /\ mishaps \in Int /\ mishaps' \in Int /\ MaxCost \in Int
        /\ Owed(s)[c] \in 0..MaxCost
    BY SpendNumbers, SpendNumbersNext DEF CapInv, Owed
  <2>2. /\ MaxCost * mishaps <= MaxCost * mishaps' /\ MaxCost * mishaps \in Int
        /\ MaxCost * mishaps' \in Int
    BY <2>1, CostTimes
  <2>3. CASE pc[c] \notin {"total", "user"}
    <3>1. Owed(s)[c] = 0
      BY <2>3 DEF Owed, Owing
    <3> QED
      BY <1>1, <2>1, <2>2, <3>1
  <2>4. CASE mishaps' >= mishaps + 1
    <3>1. MaxCost * (mishaps + 1) <= MaxCost * mishaps'
      <4>1. mishaps + 1 \in Int /\ mishaps + 1 <= mishaps'
        BY <2>1, <2>4
      <4> QED
        BY ONLY <2>1, <4>1, CostTimes
    <3>2. MaxCost * (mishaps + 1) = MaxCost * mishaps + MaxCost
      <4>1. MaxCost * (mishaps + 1) = MaxCost * mishaps + MaxCost * 1
        BY ONLY <2>1, CostTimes
      <4>2. MaxCost * 1 = MaxCost
        BY ONLY <2>1
      <4> QED
        BY ONLY <4>1, <4>2
    <3>3. MaxCost * mishaps + MaxCost <= MaxCost * mishaps'
      BY ONLY <3>1, <3>2
    <3>4. shared'[day][s] = shared[day][s] /\ Owed(s)'[c] = 0
      BY <1>1
    <3> SUFFICES shared[day][s] + Owed(s)[c] + MaxCost * mishaps
                   <= shared[day][s] + 0 + MaxCost * mishaps'
      BY <3>4
    <3>5. \A a, b, x, y, m \in Int : b <= m /\ x + m <= y => a + b + x <= a + 0 + y
      OBVIOUS
    <3>6. Owed(s)[c] \in Int /\ Owed(s)[c] <= MaxCost
      BY ONLY <2>1
    <3> QED
      BY ONLY <2>1, <2>2, <3>3, <3>5, <3>6
  <2> QED
    BY <2>3, <2>4
<1> QED
  BY <1>1, <1>2, SlotKeeps

\* Redis answers below the limit: the calls that owe it are others than those that are due.
LEMMA LetIn ==
  ASSUME CapInv, NEW s \in Scopes, CapOf(s) > 0, ~weak, shared[day][s] < CapOf(s),
         NEW T \in SUBSET Slots, T \cap Owing(s) = {}
  PROVE  Sum(Counted(day, s), Workers) + MaxCost * Cardinality(T) <= Allowed(s)
<1> USE DEF CapInv, Numbers
<1> DEFINE o == Cardinality(Owing(s))
           k == Cardinality(T)
           all == Cardinality(Slots)
<1>1. /\ IsFiniteSet(Owing(s)) /\ IsFiniteSet(T) /\ o \in Nat /\ k \in Nat /\ all \in Nat
      /\ mishaps \in Nat /\ IsFiniteSet(Slots)
  BY SpendNumbers, FS_Subset, FS_CardinalityType DEF Owing
<1>2. k + o <= all
  <2>1. T \cup Owing(s) \in SUBSET Slots
    BY DEF Owing
  <2>2. Cardinality(T \cup Owing(s)) = k + o - Cardinality(T \cap Owing(s))
    BY <1>1, FS_Union
  <2>3. Cardinality(T \cap Owing(s)) = 0
    BY FS_EmptySet
  <2>4. Cardinality(T \cup Owing(s)) <= all
    BY <1>1, <2>1, FS_Subset
  <2> QED
    BY <1>1, <2>2, <2>3, <2>4
<1>3. Sum(Owed(s), Slots) <= MaxCost * o
  <2>1. /\ Owed(s) \in [Slots -> Int] /\ Owing(s) \in SUBSET Slots /\ MaxCost \in Nat
        /\ \A x \in Slots : Owed(s)[x] <= IF x \in Owing(s) THEN MaxCost ELSE 0
    BY SpendNumbers DEF Owing, Owed
  <2> QED
    BY <1>1, <2>1, SumAtMost
<1>4. Sum(Counted(day, s), Workers) <= shared[day][s] + Sum(Owed(s), Slots) + MaxCost * mishaps
  BY DEF Accounted
<1>5. /\ shared[day][s] \in Int /\ Sum(Owed(s), Slots) \in Int /\ CapOf(s) \in Int
      /\ Sum(Counted(day, s), Workers) \in Int
  BY SpendNumbers
<1> HIDE DEF o, k, all
<1>6. /\ MaxCost * (k + o) = MaxCost * k + MaxCost * o
      /\ MaxCost * (all + mishaps) = MaxCost * all + MaxCost * mishaps
      /\ MaxCost * (k + o) <= MaxCost * all
      /\ MaxCost * k \in Int /\ MaxCost * o \in Int /\ MaxCost * all \in Int
      /\ MaxCost * mishaps \in Int
  <2>1. k \in Int /\ o \in Int /\ all \in Int /\ mishaps \in Int /\ k + o \in Int
    BY <1>1
  <2> QED
    BY <1>2, <2>1, CostTimes
<1>7. Sum(Counted(day, s), Workers) + MaxCost * k <= CapOf(s) - 1 + MaxCost * (all + mishaps)
  BY ONLY <1>3, <1>4, <1>5, <1>6, shared[day][s] < CapOf(s)
<1> QED
  BY <1>7 DEF Allowed, k, all

\* The limits are looked at and a call let through, or not.
LEMMA AnsweredKeeps ==
  ASSUME CapInv, SpendInv', NEW c \in Slots, Answered(c)
  PROVE  CapInv'
<1> USE DEF CapInv
<1> DEFINE spent == AtLeast(shared[on[c]], seen[c])
<1>1. /\ pc[c] = "asking" /\ UNCHANGED <<day, shadow, shared, mishaps, weak, on, user, cost, seen>>
      /\ pc' = [pc EXCEPT ![c] = IF Over(c, spent) THEN "failsafe" ELSE "calling"]
  BY DEF Answered, Proceed
<1> HIDE DEF spent
<1>2. /\ on[c] <= day /\ mishaps' >= mishaps
      /\ pc'[c] = (IF Over(c, spent) THEN "failsafe" ELSE "calling")
      /\ \A b \in Slots \ {c} : pc'[b] = pc[b]
  BY <1>1, SpendNumbers DEF NotAhead, Numbers, SpendInv, TypeOK
<1>3. ASSUME ~weak', NEW s \in Scopes, CapOf(s) > 0, ~(Due(s)' \subseteq Due(s))
      PROVE  Sum(Counted(day, s), Workers) + MaxCost * Cardinality(Due(s)') <= Allowed(s)
  <2>1. /\ c \in Due(s)' /\ c \notin Due(s) /\ s \in Charged(c) /\ on[c] = day
        /\ ~Over(c, spent)
    BY <1>1, <1>2, <1>3 DEF Due, Charged
  <2>2. spent[s] < CapOf(s)
    <3>1. spent[s] \in Nat /\ CapOf(s) \in Nat
      BY <2>1, CapType DEF spent, AtLeast, SpendInv, TypeOK, Counts
    <3> QED
      BY <1>3, <2>1, <3>1 DEF Over
  <2>3. shared[day][s] <= spent[s] /\ spent[s] \in Nat /\ shared[day][s] \in Nat
    BY <2>1 DEF spent, AtLeast, SpendInv, TypeOK, Counts
  <2>4. shared[day][s] < CapOf(s)
    BY <2>2, <2>3, CapType
  <2>5. Due(s)' \in SUBSET Slots /\ Due(s)' \cap Owing(s) = {}
    BY <1>1, <1>2 DEF Due, Owing
  <2> QED
    BY <1>1, <1>3, <2>4, <2>5, LetIn
<1> QED
  BY <1>1, <1>2, <1>3, Uncharged

\* The steps of a call that counts nothing and is not looked at.
LEMMA QuietKeeps ==
  ASSUME CapInv, SpendInv', NEW c \in Slots,
         \/ Ask(c) \/ Unanswered(c) \/ SucceedFree(c) \/ Fail(c) \/ Failsafe(c)
         \/ Leave(c) /\ Mishap /\ UNCHANGED <<day, shared, shadow, weak>>
  PROVE  CapInv'
<1> USE DEF CapInv
<1> DEFINE Rest == \A b \in Slots \ {c} :
             pc'[b] = pc[b] /\ on'[b] = on[b] /\ user'[b] = user[b] /\ cost'[b] = cost[b]
<1>0. /\ day \in Nat /\ on[c] <= day /\ mishaps \in Nat /\ mishaps >= mishaps /\ 0 <= day
      /\ DOMAIN pc = Slots /\ DOMAIN on = Slots /\ DOMAIN user = Slots /\ DOMAIN cost = Slots
  BY SpendNumbers DEF NotAhead, Numbers, SpendInv, TypeOK, Days
<1>1. CASE Ask(c)
  <2>1. /\ UNCHANGED <<day, shadow, shared, mishaps, weak>> /\ pc[c] = "idle"
        /\ pc'[c] = "asking" /\ on'[c] = day /\ Rest
    BY <1>0, <1>1 DEF Ask
  <2>2. \A s \in Scopes : Due(s)' \subseteq Due(s)
    BY <2>1 DEF Due, Charged
  <2> QED
    BY <1>0, <2>1, <2>2, Uncharged
<1>2. CASE Unanswered(c)
  <2>1. /\ UNCHANGED <<day, shadow, shared, on>> /\ weak' /\ pc[c] = "asking"
        /\ pc'[c] \in {"calling", "failsafe"} /\ Rest /\ mishaps' >= mishaps
    BY <1>0, <1>2 DEF Unanswered, Proceed, Mishap
  <2> QED
    BY <1>0, <2>1, Uncharged
<1>3. CASE Fail(c)
  <2>1. /\ UNCHANGED <<day, shadow, shared, on, user, mishaps, weak>> /\ pc[c] = "calling"
        /\ pc'[c] \in {"calling", "failsafe"} /\ Rest
    BY <1>0, <1>3 DEF Fail
  <2>2. \A s \in Scopes : Due(s)' \subseteq Due(s)
    BY <2>1 DEF Due, Charged
  <2> QED
    BY <1>0, <2>1, <2>2, Uncharged
<1>4. CASE Leave(c) /\ (Mishap \/ (pc[c] \in {"calling", "failsafe"} /\ UNCHANGED mishaps))
           /\ UNCHANGED <<day, shared, shadow, weak>>
  <2>1. /\ pc'[c] = "idle" /\ on'[c] = 0 /\ Rest /\ mishaps' >= mishaps
        /\ pc[c] \notin {"total", "user"} \/ mishaps' >= mishaps + 1
    BY <1>0, <1>4 DEF Leave, Mishap
  <2>2. \A s \in Scopes : Due(s)' \subseteq Due(s)
    BY <1>4, <2>1 DEF Due, Charged
  <2> QED
    BY <1>0, <1>4, <2>1, <2>2, Uncharged
<1>5. SucceedFree(c) \/ Failsafe(c) =>
        /\ Leave(c) /\ pc[c] \in {"calling", "failsafe"} /\ UNCHANGED mishaps
        /\ UNCHANGED <<day, shared, shadow, weak>>
  BY DEF SucceedFree, Failsafe
<1> QED
  BY <1>1, <1>2, <1>3, <1>4, <1>5

\* Redis counts for a slot what it owes, or the count is cancelled.
LEMMA CountKeeps ==
  ASSUME CapInv, SpendInv', NEW c \in Slots,
         \/ CountTotal(c) \/ CountUser(c)
         \/ Skip(c) /\ (weak' = weak \/ weak' = TRUE)
  PROVE  CapInv'
<1> USE DEF CapInv, Numbers
<1> DEFINE Rest == \A b \in Slots \ {c} :
             pc'[b] = pc[b] /\ on'[b] = on[b] /\ user'[b] = user[b] /\ cost'[b] = cost[b]
           Moves == /\ pc[c] = "total" /\ pc'[c] = "user" /\ UNCHANGED <<user, on, cost>>
                    /\ Increase(c, Total) /\ user[c] \in Users /\ UNCHANGED mishaps
           Goes == pc'[c] = "idle" /\ on'[c] = 0
           Adds == \/ pc[c] = "total" /\ Increase(c, Total) /\ user[c] \notin Users
                   \/ pc[c] = "user" /\ Increase(c, user[c])
           Loses == /\ mishaps' = mishaps + 1
                    /\ shared' = shared \/ Increase(c, Total) \/ Increase(c, user[c])
<1>0. /\ day \in Nat /\ on[c] \in Days /\ on[c] <= day /\ mishaps \in Nat /\ 0 <= day
      /\ DOMAIN pc = Slots /\ DOMAIN on = Slots /\ DOMAIN user = Slots /\ DOMAIN cost = Slots
      /\ day \in Days /\ user[c] \in Users \cup {NoUser} /\ cost[c] \in 0..MaxCost
      /\ MaxCost \in Nat /\ mishaps' \in Nat
      /\ shared \in [Days -> Counts]
  <2>1. /\ day \in Days /\ on[c] \in Days /\ user[c] \in Users \cup {NoUser}
        /\ shared \in [Days -> Counts]
        /\ DOMAIN pc = Slots /\ DOMAIN on = Slots /\ DOMAIN user = Slots /\ DOMAIN cost = Slots
    BY DEF SpendInv, TypeOK
  <2>2. /\ cost[c] \in 0..MaxCost /\ MaxCost \in Nat /\ mishaps \in Nat /\ mishaps' \in Nat
        /\ on[c] <= day
    BY SpendNumbers, SpendNumbersNext DEF NotAhead
  <2>3. day \in Nat /\ 0 <= day
    BY <2>1 DEF Days
  <2> QED
    BY <2>1, <2>2, <2>3
<1>1. /\ UNCHANGED <<day, shadow>> /\ mishaps' >= mishaps /\ (~weak' => ~weak) /\ Rest
      /\ Moves \/ (Goes /\ ((UNCHANGED mishaps /\ Adds) \/ Loses))
  <2>1. CASE CountTotal(c)
    <3>1. CASE user[c] \in Users
      <4>1. Moves /\ UNCHANGED <<day, shadow, weak>>
        BY <1>0, <2>1, <3>1 DEF CountTotal
      <4>2. Rest
        BY <1>0, <2>1, <3>1 DEF CountTotal
      <4> QED
        BY <1>0, <4>1, <4>2
    <3>2. CASE user[c] \notin Users
      BY <1>0, <2>1, <3>2 DEF CountTotal, Leave
    <3> QED
      BY <3>1, <3>2
  <2>2. CASE CountUser(c)
    BY <1>0, <2>2 DEF CountUser, Leave
  <2>3. CASE Skip(c) /\ (weak' = weak \/ weak' = TRUE)
    BY <1>0, <2>3 DEF Skip, Leave, Mishap
  <2> QED
    BY <2>1, <2>2, <2>3
<1>2. ASSUME NEW s \in Scopes, NEW u, Increase(c, u)
      PROVE  /\ shared'[day][s] = shared[day][s] + (IF on[c] = day /\ s = u THEN cost[c] ELSE 0)
  BY <1>0, <1>2 DEF Increase, Plus, Counts
<1>3. ASSUME NEW s \in Scopes
      PROVE  /\ c \in Owing(s)' => c \in Owing(s) /\ cost'[c] = cost[c]
             /\ shared[day][s] + Owed(s)[c] + MaxCost * mishaps
                  <= shared'[day][s] + Owed(s)'[c] + MaxCost * mishaps'
  <2>1. shared[day][s] \in Int /\ MaxCost * mishaps \in Int
    BY SpendNumbers
  <2>2. CASE Moves
    <3>1. c \in Owing(s)' <=> on[c] = day /\ s = user[c]
      BY <1>1, <2>2 DEF Owing
    <3>2. c \in Owing(s) <=> on[c] = day /\ (s = Total \/ s = user[c])
      BY <2>2 DEF Owing, Charged
    <3>3. Total # user[c] /\ mishaps' = mishaps
      BY <1>1, <2>2, SpendCapAssumption
    <3>4. Owed(s)[c] = (IF c \in Owing(s) THEN cost[c] ELSE 0)
      BY DEF Owed
    <3>5. Owed(s)'[c] = (IF c \in Owing(s)' THEN cost[c] ELSE 0)
      BY <2>2 DEF Owed
    <3>6. shared'[day][s] = shared[day][s] + (IF on[c] = day /\ s = Total THEN cost[c] ELSE 0)
      BY <1>2, <2>2
    <3> QED
      BY <1>0, <2>1, <2>2, <3>1, <3>2, <3>3, <3>4, <3>5, <3>6
  <2>3. ASSUME Goes PROVE c \notin Owing(s)' /\ Owed(s)'[c] = 0
    BY <2>3 DEF Owing, Owed
  <2>4. CASE Goes /\ Adds /\ UNCHANGED mishaps
    <3>1. PICK u : Increase(c, u) /\ (c \in Owing(s) => s = u /\ on[c] = day)
      <4>1. NoUser # Total
        BY DEF NoUser, Total
      <4> QED
        BY <1>0, <2>4, <4>1, SpendCapAssumption DEF Owing, Charged
    <3>2. shared'[day][s] = shared[day][s] + (IF on[c] = day /\ s = u THEN cost[c] ELSE 0)
      BY <1>2, <3>1
    <3>3. Owed(s)[c] = (IF c \in Owing(s) THEN cost[c] ELSE 0)
      BY DEF Owed
    <3> QED
      BY <1>0, <2>1, <2>3, <2>4, <3>1, <3>2, <3>3
  <2>5. CASE Goes /\ Loses
    <3>1. shared'[day][s] >= shared[day][s] /\ shared'[day][s] \in Int
      BY <1>0, <1>2, <2>1, <2>5
    <3>2. MaxCost * mishaps' = MaxCost * mishaps + MaxCost
      <4>0. mishaps \in Int /\ MaxCost \in Int
        BY <1>0
      <4>1. MaxCost * (mishaps + 1) = MaxCost * mishaps + MaxCost * 1 /\ MaxCost * 1 = MaxCost
        <5>1. MaxCost * (mishaps + 1) = MaxCost * mishaps + MaxCost * 1
          BY ONLY <4>0, CostTimes
        <5>2. MaxCost * 1 = MaxCost
          BY ONLY <4>0
        <5> QED
          BY <5>1, <5>2
      <4> QED
        BY <2>5, <4>1
    <3>3. Owed(s)[c] <= MaxCost /\ Owed(s)[c] \in Int
      BY <1>0 DEF Owed
    <3> QED
      BY <1>0, <2>1, <2>3, <2>5, <3>1, <3>2, <3>3
  <2> QED
    BY <1>1, <2>2, <2>4, <2>5
<1>4. ASSUME NEW s \in Scopes PROVE Due(s)' \subseteq Due(s)
  BY <1>0, <1>1 DEF Due, Charged
<1>5. on'[c] <= day
  BY <1>0, <1>1
<1> QED
  BY <1>1, <1>3, <1>4, <1>5, SlotKeeps

\* A paid call is counted by its worker, which owes it to Redis from then on.
LEMMA PaidKeeps ==
  ASSUME CapInv, SpendInv', NEW c \in Slots, Succeed(c)
  PROVE  CapInv'
<1> USE DEF CapInv, Numbers
<1> DEFINE v == WorkerOf[c]
<1>1. PICK n \in 1..MaxCost :
        /\ cost' = [cost EXCEPT ![c] = n]
        /\ shadow' = [shadow EXCEPT ![v] =
             [d \in Days |-> IF d = day THEN Plus(shadow[v][d], Charged(c), n) ELSE Zero]]
  BY DEF Succeed
<1>2. /\ v \in Workers /\ day \in Days /\ n \in Nat /\ n <= MaxCost /\ MaxCost \in Nat
      /\ shadow \in [Workers -> [Days -> Counts]] /\ shadow[v][day] \in Counts
      /\ IsFiniteSet(Slots) /\ IsFiniteSet(Workers)
  BY SpendNumbers, SpendCapAssumption DEF SpendInv, TypeOK
<1>3. /\ UNCHANGED <<day, shared, user, mishaps, weak>> /\ pc[c] = "calling"
      /\ pc'[c] = "total" /\ on'[c] = day /\ cost'[c] = n
      /\ \A b \in Slots \ {c} : pc'[b] = pc[b] /\ on'[b] = on[b] /\ cost'[b] = cost[b]
  BY <1>1 DEF Succeed, SpendInv, TypeOK
<1>4. /\ \A w \in Workers \ {v} : shadow'[w] = shadow[w]
      /\ \A s \in Scopes : shadow'[v][day][s] =
           shadow[v][day][s] + (IF s \in Charged(c) THEN n ELSE 0)
      /\ \A d \in Days \ {day}, s \in Scopes : shadow'[v][d][s] = 0
  <2>1. /\ \A w \in Workers \ {v} : shadow'[w] = shadow[w]
        /\ shadow'[v][day] = Plus(shadow[v][day], Charged(c), n)
        /\ \A d \in Days \ {day} : shadow'[v][d] = Zero
    BY <1>1, <1>2
  <2>2. \A s \in Scopes : shadow[v][day][s] \in Nat
    BY <1>2 DEF Counts
  <2> QED
    BY <1>2, <2>1, <2>2 DEF Plus, Zero
<1> HIDE DEF v
<1>5. ASSUME NEW s \in Scopes
      PROVE  /\ \A b \in Slots \ {c} : Owed(s)'[b] = Owed(s)[b]
             /\ \A w \in Workers : \A b \in Slots \ {c} : OwedBy(w, s)'[b] = OwedBy(w, s)[b]
             /\ Owed(s)[c] = 0 /\ Owed(s)'[c] = (IF s \in Charged(c) THEN n ELSE 0)
             /\ \A w \in Workers : OwedBy(w, s)[c] = 0
             /\ \A w \in Workers :
                  OwedBy(w, s)'[c] = (IF w = v /\ s \in Charged(c) THEN n ELSE 0)
             /\ Due(s)' = Due(s) \ {c} /\ (c \in Due(s) <=> s \in Charged(c))
  <2>1. \A b \in Slots \ {c} : b \in Owing(s)' <=> b \in Owing(s)
    BY <1>3 DEF Owing, Charged
  <2>2. /\ c \notin Owing(s)
        /\ c \in Owing(s)' <=> s \in Charged(c)
    BY <1>3 DEF Owing, Charged
  <2>3. Due(s)' = Due(s) \ {c} /\ (c \in Due(s) <=> s \in Charged(c))
    BY <1>3 DEF Due, Charged
  <2> QED
    BY <1>3, <2>1, <2>2, <2>3 DEF Owed, OwedBy, v
<1>6. NotAhead'
  BY <1>2, <1>3 DEF NotAhead, Days
<1>7. OwnFirst'
  <2> SUFFICES ASSUME NEW w \in Workers, NEW s \in Scopes
               PROVE  Sum(OwedBy(w, s)', Slots) <= shadow'[w][day][s]
    BY <1>3 DEF OwnFirst
  <2>1. Sum(OwedBy(w, s)', Slots) = Sum(OwedBy(w, s), Slots) + (OwedBy(w, s)'[c] - OwedBy(w, s)[c])
    <3>1. /\ OwedBy(w, s) \in [Slots -> Int] /\ OwedBy(w, s)' \in [Slots -> Int]
          /\ IsFiniteSet(Slots) /\ \A b \in Slots \ {c} : OwedBy(w, s)'[b] = OwedBy(w, s)[b]
      BY <1>5, SpendNumbers, SpendNumbersNext
    <3> QED
      BY <3>1, SumChange
  <2>2. /\ Sum(OwedBy(w, s), Slots) <= shadow[w][day][s]
        /\ Sum(OwedBy(w, s), Slots) \in Int /\ shadow[w][day][s] \in Int
    BY SpendNumbers DEF OwnFirst
  <2>3. shadow'[w][day][s] = shadow[w][day][s] + (IF w = v /\ s \in Charged(c) THEN n ELSE 0)
    BY <1>2, <1>4, <2>2
  <2>4. OwedBy(w, s)'[c] - OwedBy(w, s)[c] = (IF w = v /\ s \in Charged(c) THEN n ELSE 0)
    BY <1>2, <1>5
  <2> QED
    BY <1>2, <2>1, <2>2, <2>3, <2>4
<1>8. ASSUME NEW s \in Scopes
      PROVE  /\ Sum(Counted(day, s)', Workers) =
                  Sum(Counted(day, s), Workers) + (IF s \in Charged(c) THEN n ELSE 0)
             /\ Sum(Owed(s)', Slots) =
                  Sum(Owed(s), Slots) + (IF s \in Charged(c) THEN n ELSE 0)
             /\ \A d \in Days \ {day} :
                  Sum(Counted(d, s)', Workers) <= Sum(Counted(d, s), Workers)
  <2>1. \A d \in Days : /\ Counted(d, s) \in [Workers -> Int] /\ Counted(d, s)' \in [Workers -> Int]
                       /\ \A w \in Workers : /\ Counted(d, s)[w] = shadow[w][d][s]
                                             /\ Counted(d, s)'[w] = shadow'[w][d][s]
                                             /\ shadow[w][d][s] \in Nat
    BY SpendNumbers, SpendNumbersNext
  <2>a. PICK d \in Days : d = day
    BY <1>2
  <2>2. Sum(Counted(d, s)', Workers) =
          Sum(Counted(d, s), Workers) + (Counted(d, s)'[v] - Counted(d, s)[v])
    <3>1. /\ Counted(d, s) \in [Workers -> Int] /\ Counted(d, s)' \in [Workers -> Int]
          /\ IsFiniteSet(Workers) /\ \A w \in Workers \ {v} : Counted(d, s)'[w] = Counted(d, s)[w]
      <4>1. \A w \in Workers : /\ Counted(d, s)[w] = shadow[w][d][s]
                               /\ Counted(d, s)'[w] = shadow'[w][d][s]
        BY <2>1
      <4>2. \A w \in Workers \ {v} : Counted(d, s)'[w] = Counted(d, s)[w]
        BY <1>4, <4>1
      <4> QED
        BY <1>2, <2>1, <4>2
    <3> QED
      BY <1>2, <3>1, SumChange
  <2>3. Counted(d, s)'[v] - Counted(d, s)[v] = (IF s \in Charged(c) THEN n ELSE 0)
    BY <1>2, <1>4, <2>1, <2>a
  <2>4. Sum(Owed(s)', Slots) = Sum(Owed(s), Slots) + (Owed(s)'[c] - Owed(s)[c])
    <3>1. /\ Owed(s) \in [Slots -> Int] /\ Owed(s)' \in [Slots -> Int]
          /\ IsFiniteSet(Slots) /\ \A b \in Slots \ {c} : Owed(s)'[b] = Owed(s)[b]
      BY <1>5, SpendNumbers, SpendNumbersNext
    <3> QED
      BY <3>1, SumChange
  <2>5. ASSUME NEW e \in Days \ {day}
        PROVE  Sum(Counted(e, s)', Workers) <= Sum(Counted(e, s), Workers)
    <3>1. /\ Counted(e, s) \in [Workers -> Int] /\ Counted(e, s)' \in [Workers -> Int]
          /\ IsFiniteSet(Workers) /\ \A w \in Workers : Counted(e, s)'[w] <= Counted(e, s)[w]
      <4>1. \A w \in Workers : /\ Counted(e, s)[w] = shadow[w][e][s]
                               /\ Counted(e, s)'[w] = shadow'[w][e][s]
                               /\ shadow[w][e][s] \in Nat
        BY <2>1
      <4>2. \A w \in Workers : shadow'[w][e][s] <= shadow[w][e][s]
        BY <1>4, <4>1
      <4>3. \A w \in Workers : Counted(e, s)'[w] <= Counted(e, s)[w]
        BY <4>1, <4>2
      <4> QED
        BY <1>2, <2>1, <4>3
    <3> QED
      BY <3>1, SumMonotone
  <2>6. Counted(d, s)' = Counted(day, s)' /\ Counted(d, s) = Counted(day, s)
    BY <1>3, <2>a DEF Counted
  <2>7. Sum(Owed(s)', Slots) = Sum(Owed(s), Slots) + (IF s \in Charged(c) THEN n ELSE 0)
    BY <1>2, <1>5, <2>4
  <2> QED
    BY <2>2, <2>3, <2>5, <2>6, <2>7
<1>9. Accounted'
  <2> SUFFICES ASSUME ~weak, NEW s \in Scopes
               PROVE  Sum(Counted(day, s)', Workers)
                        <= shared[day][s] + Sum(Owed(s)', Slots) + MaxCost * mishaps
    BY <1>3 DEF Accounted
  <2>1. Sum(Counted(day, s), Workers) <= shared[day][s] + Sum(Owed(s), Slots) + MaxCost * mishaps
    BY DEF Accounted
  <2>2. /\ shared[day][s] \in Int /\ Sum(Owed(s), Slots) \in Int /\ MaxCost * mishaps \in Int
        /\ Sum(Counted(day, s), Workers) \in Int
    BY SpendNumbers
  <2> QED
    BY <1>2, <1>8, <2>1, <2>2
<1>10. ASSUME ~weak, NEW s \in Scopes, CapOf(s) > 0
       PROVE  /\ Sum(Counted(day, s)', Workers) + MaxCost * Cardinality(Due(s)') <= Allowed(s)
              /\ Sum(Counted(day, s)', Workers) <= Allowed(s)
  <2>1. Sum(Counted(day, s), Workers) + MaxCost * Cardinality(Due(s)) <= Allowed(s)
    BY <1>10 DEF LetThrough
  <2>2. /\ IsFiniteSet(Due(s)) /\ Cardinality(Due(s)) \in Nat
        /\ Cardinality(Due(s)') \in Nat
        /\ IF c \in Due(s) THEN Cardinality(Due(s)') = Cardinality(Due(s)) - 1
                           ELSE Cardinality(Due(s)') = Cardinality(Due(s))
    <3>1. IsFiniteSet(Due(s)) /\ Due(s)' = Due(s) \ {c}
      BY <1>2, <1>5, FS_Subset DEF Due
    <3>2. IsFiniteSet(Due(s) \ {c})
      BY <3>1, FS_Subset
    <3>3. c \notin Due(s) => Due(s)' = Due(s)
      BY <3>1
    <3> QED
      BY <3>1, <3>2, <3>3, FS_RemoveElement, FS_CardinalityType
  <2>3. MaxCost * Cardinality(Due(s)') \in Nat /\ MaxCost * Cardinality(Due(s)) \in Nat
    BY <1>2, <2>2
  <2>4. c \in Due(s) =>
          MaxCost * Cardinality(Due(s)) = MaxCost * Cardinality(Due(s)') + MaxCost
    <3>1. MaxCost * (Cardinality(Due(s)') + 1) = MaxCost * Cardinality(Due(s)') + MaxCost * 1
      BY <2>2, CostTimes
    <3>2. MaxCost * 1 = MaxCost
      BY <1>2
    <3> QED
      BY <2>2, <3>1, <3>2
  <2>5. Sum(Counted(day, s), Workers) \in Int /\ Allowed(s) \in Int
    BY SpendNumbers
  <2>6. Sum(Counted(day, s)', Workers) =
          Sum(Counted(day, s), Workers) + (IF c \in Due(s) THEN n ELSE 0)
    BY <1>5, <1>8
  <2>7. c \notin Due(s) => MaxCost * Cardinality(Due(s)') = MaxCost * Cardinality(Due(s))
    BY <2>2
  <2> HIDE DEF CapInv, Numbers
  <2> QED
    BY <1>2, <2>1, <2>3, <2>4, <2>5, <2>6, <2>7
<1>11. \A s : Allowed(s)' = Allowed(s) /\ CapOf(s)' = CapOf(s)
  BY <1>3 DEF Allowed, CapOf
<1>12. LetThrough'
  BY <1>3, <1>10, <1>11 DEF LetThrough
<1>13. CapKept'
  <2> SUFFICES ASSUME ~weak, NEW d \in Days, NEW s \in Scopes, CapOf(s) > 0
               PROVE  Sum(Counted(d, s)', Workers) <= Allowed(s)
    BY <1>3, <1>11 DEF CapKept
  <2>1. CASE d = day
    BY <1>3, <1>10, <2>1 DEF Counted
  <2>2. CASE d # day
    <3>1. Sum(Counted(d, s), Workers) <= Allowed(s)
      BY DEF CapKept
    <3>2. Sum(Counted(d, s)', Workers) <= Sum(Counted(d, s), Workers)
      BY <1>8, <2>2
    <3> QED
      BY <3>1, <3>2, SpendNumbers, SpendNumbersNext
  <2> QED
    BY <2>1, <2>2
<1> QED
  BY <1>6, <1>7, <1>9, <1>12, <1>13

\* At midnight nobody has counted anything of the new day, or owes it.
LEMMA NewDayKeeps ==
  ASSUME CapInv, SpendInv', Midnight
  PROVE  CapInv'
<1> USE DEF CapInv, Numbers
<1>1. /\ day \in Nat /\ day' = day + 1 /\ day' \in Days
      /\ UNCHANGED <<shared, shadow, pc, user, on, cost, mishaps, weak>>
  <2>1. day \in Nat
    BY DEF SpendInv, TypeOK, Days
  <2> QED
    BY <2>1, SpendNumbersNext DEF Midnight, calls
<1>2. \A c \in Slots : on[c] <= day /\ on[c] \in Nat
  BY DEF NotAhead, SpendInv, TypeOK, Days
<1>3. NotAhead' /\ \A c \in Slots : on'[c] # day'
  BY <1>1, <1>2 DEF NotAhead
<1>4. ASSUME NEW s \in Scopes
      PROVE  /\ Sum(Owed(s)', Slots) = 0 /\ \A w \in Workers : Sum(OwedBy(w, s)', Slots) = 0
             /\ Sum(Counted(day, s)', Workers) = 0
             /\ \A w \in Workers : shadow'[w][day'][s] = 0
  <2>1. /\ \A c \in Slots : Owed(s)'[c] = 0
        /\ \A w \in Workers : \A c \in Slots : OwedBy(w, s)'[c] = 0
    BY <1>3 DEF Owing, Owed, OwedBy
  <2>2. \A w \in Workers : shadow'[w][day'][s] = 0
    BY <1>1 DEF SpendInv, NoFuture
  <2>3. PICK d \in Days : d = day'
    BY <1>1
  <2>4. Counted(d, s)' = Counted(day, s)'
    BY <2>3 DEF Counted
  <2>5. Counted(d, s)' \in [Workers -> Int] /\ \A w \in Workers : Counted(d, s)'[w] = 0
    BY <2>2, <2>3, SpendNumbersNext
  <2>6. Sum(Counted(d, s)', Workers) = 0
    BY <2>5, SumOfNone, SpendNumbers
  <2> QED
    BY <2>1, <2>2, <2>4, <2>6, SumOfNone, SpendNumbers, SpendNumbersNext
<1>5. OwnFirst'
  BY <1>4 DEF OwnFirst
<1>6. Accounted'
  <2> SUFFICES ASSUME NEW s \in Scopes
               PROVE  Sum(Counted(day, s)', Workers)
                        <= shared'[day'][s] + Sum(Owed(s)', Slots) + MaxCost * mishaps'
    BY DEF Accounted
  <2>1. shared'[day'][s] \in Nat /\ MaxCost * mishaps' \in Nat
    BY <1>1, SpendNumbersNext
  <2> QED
    BY <1>4, <2>1
<1>7. \A s : Allowed(s)' = Allowed(s) /\ CapOf(s)' = CapOf(s)
  BY <1>1 DEF Allowed, CapOf
<1>8. LetThrough'
  <2> SUFFICES ASSUME NEW s \in Scopes, CapOf(s) > 0
               PROVE  Sum(Counted(day, s)', Workers) + MaxCost * Cardinality(Due(s)') <= Allowed(s)
    BY <1>7 DEF LetThrough
  <2>1. /\ IsFiniteSet(Slots) /\ Due(s)' \subseteq Slots /\ mishaps \in Nat
        /\ Cardinality(Slots) \in Nat
    BY SpendNumbers DEF Due
  <2>2. Cardinality(Due(s)') \in Nat /\ Cardinality(Due(s)') <= Cardinality(Slots) + mishaps
    BY <2>1, FS_Subset, FS_CardinalityType
  <2>3. /\ MaxCost * Cardinality(Due(s)') <= MaxCost * (Cardinality(Slots) + mishaps)
        /\ MaxCost * Cardinality(Due(s)') \in Int /\ MaxCost * (Cardinality(Slots) + mishaps) \in Int
    BY <2>1, <2>2, CostTimes
  <2>4. CapOf(s) \in Nat
    BY CapType
  <2> QED
    BY <1>4, <2>3, <2>4 DEF Allowed
<1>9. CapKept'
  <2>1. \A d \in Days, s \in Scopes : Counted(d, s)' = Counted(d, s)
    BY <1>1 DEF Counted
  <2> QED
    BY <1>1, <1>7, <2>1 DEF CapKept
<1> QED
  BY <1>3, <1>5, <1>6, <1>8, <1>9

\* A worker that restarts takes with it what it counted and what it owed of that.
LEMMA WorkerRestartKeeps ==
  ASSUME CapInv, SpendInv', NEW v \in Workers, Restart(v)
  PROVE  CapInv'
<1> USE DEF CapInv, Numbers
<1>1. /\ UNCHANGED <<day, shared, user, on, cost, weak>> /\ mishaps' = mishaps + 1
      /\ mishaps \in Nat /\ day \in Days /\ IsFiniteSet(Slots) /\ IsFiniteSet(Workers)
      /\ pc' = [b \in Slots |-> IF WorkerOf[b] = v THEN "idle" ELSE pc[b]]
  BY SpendNumbers DEF Restart, Mishap
<1>2. /\ \A w \in Workers \ {v} : shadow'[w] = shadow[w]
      /\ \A d \in Days, s \in Scopes : shadow'[v][d][s] = 0
      /\ \A w \in Workers, d \in Days, s \in Scopes : shadow[w][d][s] \in Nat
  BY SpendNumbers DEF Restart, SpendInv, TypeOK, Zero
<1>3. NotAhead'
  BY <1>1 DEF NotAhead
<1>4. ASSUME NEW s \in Scopes, NEW b \in Slots
      PROVE  /\ b \in Owing(s)' <=> b \in Owing(s) /\ WorkerOf[b] # v
             /\ b \in Due(s)' => b \in Due(s)
  BY <1>1 DEF Owing, Due, Charged
<1>5. ASSUME NEW s \in Scopes
      PROVE  /\ Sum(Owed(s), Slots) = Sum(Owed(s)', Slots) + Sum(OwedBy(v, s), Slots)
             /\ Sum(OwedBy(v, s)', Slots) = 0
             /\ \A w \in Workers \ {v} : OwedBy(w, s)' = OwedBy(w, s)
  <2>1. /\ Owed(s) \in [Slots -> Int] /\ Owed(s)' \in [Slots -> Int]
        /\ OwedBy(v, s) \in [Slots -> Int] /\ OwedBy(v, s)' \in [Slots -> Int]
        /\ \A b \in Slots : cost[b] \in Int
    BY SpendNumbers, SpendNumbersNext
  <2>2. /\ \A b \in Slots : Owed(s)[b] = Owed(s)'[b] + OwedBy(v, s)[b]
        /\ \A b \in Slots : OwedBy(v, s)'[b] = 0
    BY <1>1, <1>4, <2>1 DEF Owed, OwedBy
  <2>3. ASSUME NEW w \in Workers \ {v} PROVE OwedBy(w, s)' = OwedBy(w, s)
    BY <1>1, <1>4 DEF OwedBy
  <2>4. Sum(Owed(s), Slots) = Sum(Owed(s)', Slots) + Sum(OwedBy(v, s), Slots)
    <3>1. IsFiniteSet(Slots) /\ \A b \in Slots : Owed(s)[b] = Owed(s)'[b] + OwedBy(v, s)[b]
      BY <1>1, <2>2
    <3> HIDE DEF CapInv, Numbers
    <3> QED
      BY ONLY <2>1, <3>1, SumAdd
  <2>5. Sum(OwedBy(v, s)', Slots) = 0
    BY <1>1, <2>1, <2>2, SumOfNone
  <2> QED
    BY <2>3, <2>4, <2>5
<1>6. ASSUME NEW d \in Days, NEW s \in Scopes
      PROVE  Sum(Counted(d, s)', Workers) = Sum(Counted(d, s), Workers) - shadow[v][d][s]
  <2>1. /\ Counted(d, s) \in [Workers -> Int] /\ Counted(d, s)' \in [Workers -> Int]
        /\ \A w \in Workers : /\ Counted(d, s)[w] = shadow[w][d][s]
                              /\ Counted(d, s)'[w] = shadow'[w][d][s]
    BY SpendNumbers, SpendNumbersNext
  <2>2. \A w \in Workers \ {v} : Counted(d, s)'[w] = Counted(d, s)[w]
    BY <1>2, <2>1
  <2>3. Sum(Counted(d, s)', Workers) =
          Sum(Counted(d, s), Workers) + (Counted(d, s)'[v] - Counted(d, s)[v])
    BY <1>1, <2>1, <2>2, SumChange
  <2>4. Counted(d, s)'[v] = 0 /\ Counted(d, s)[v] = shadow[v][d][s] /\ shadow[v][d][s] \in Nat
    BY <1>2, <2>1
  <2> QED
    BY <2>3, <2>4, SpendNumbers
<1>7. ASSUME NEW s \in Scopes
      PROVE  Sum(Counted(day, s)', Workers) = Sum(Counted(day, s), Workers) - shadow[v][day][s]
  <2>1. PICK d \in Days : d = day
    BY <1>1
  <2>2. Counted(d, s)' = Counted(day, s)' /\ Counted(d, s) = Counted(day, s)
    BY <1>1, <2>1 DEF Counted
  <2> QED
    BY <1>6, <2>1, <2>2
<1>8. OwnFirst'
  <2> SUFFICES ASSUME NEW w \in Workers, NEW s \in Scopes
               PROVE  Sum(OwedBy(w, s)', Slots) <= shadow'[w][day][s]
    BY <1>1 DEF OwnFirst
  <2>1. CASE w = v
    BY <1>1, <1>2, <1>5, <2>1
  <2>2. CASE w # v
    BY <1>1, <1>2, <1>5, <2>2 DEF OwnFirst
  <2> QED
    BY <2>1, <2>2
<1>9. \A s \in Scopes : CapOf(s) > 0 =>
        Allowed(s) <= Allowed(s)' /\ Allowed(s)' \in Int /\ CapOf(s)' = CapOf(s)
  <2>1. /\ Cardinality(Slots) \in Int /\ mishaps \in Int
        /\ MaxCost * (Cardinality(Slots) + mishaps) <= MaxCost * (Cardinality(Slots) + mishaps')
        /\ MaxCost * (Cardinality(Slots) + mishaps) \in Int
        /\ MaxCost * (Cardinality(Slots) + mishaps') \in Int
    <3>1. Cardinality(Slots) \in Int /\ mishaps \in Int /\ mishaps' \in Int
      BY <1>1, SpendNumbers
    <3>2. Cardinality(Slots) + mishaps <= Cardinality(Slots) + mishaps'
      BY <1>1, <3>1
    <3> QED
      BY <3>1, <3>2, CostTimes
  <2> QED
    BY <2>1, CapType DEF Allowed, CapOf
<1>10. Accounted'
  <2> SUFFICES ASSUME ~weak, NEW s \in Scopes
               PROVE  Sum(Counted(day, s)', Workers)
                        <= shared[day][s] + Sum(Owed(s)', Slots) + MaxCost * mishaps'
    BY <1>1 DEF Accounted
  <2>1. /\ Sum(Counted(day, s), Workers) <= shared[day][s] + Sum(Owed(s), Slots) + MaxCost * mishaps
        /\ Sum(OwedBy(v, s), Slots) <= shadow[v][day][s]
    BY DEF Accounted, OwnFirst
  <2>2. /\ shared[day][s] \in Int /\ Sum(Owed(s), Slots) \in Int /\ Sum(Owed(s)', Slots) \in Int
        /\ Sum(OwedBy(v, s), Slots) \in Int /\ Sum(Counted(day, s), Workers) \in Int
        /\ shadow[v][day][s] \in Int
    BY SpendNumbers, SpendNumbersNext
  <2>3. /\ MaxCost * mishaps <= MaxCost * mishaps' /\ MaxCost * mishaps \in Int
        /\ MaxCost * mishaps' \in Int
    BY <1>1, CostTimes
  <2> HIDE DEF CapInv, Numbers
  <2> QED
    BY <1>5, <1>7, <2>1, <2>2, <2>3
<1>11. LetThrough'
  <2> SUFFICES ASSUME ~weak, NEW s \in Scopes, CapOf(s) > 0
               PROVE  Sum(Counted(day, s)', Workers) + MaxCost * Cardinality(Due(s)') <= Allowed(s)'
    BY <1>1, <1>9 DEF LetThrough, CapOf
  <2>1. Sum(Counted(day, s), Workers) + MaxCost * Cardinality(Due(s)) <= Allowed(s)
    BY DEF LetThrough
  <2>2. /\ Cardinality(Due(s)') <= Cardinality(Due(s)) /\ Cardinality(Due(s)') \in Nat
        /\ Cardinality(Due(s)) \in Nat
    <3>1. Due(s)' \subseteq Due(s) /\ IsFiniteSet(Due(s))
      BY <1>1, <1>4, FS_Subset DEF Due
    <3> QED
      BY <3>1, FS_Subset, FS_CardinalityType
  <2>3. /\ MaxCost * Cardinality(Due(s)') <= MaxCost * Cardinality(Due(s))
        /\ MaxCost * Cardinality(Due(s)') \in Int /\ MaxCost * Cardinality(Due(s)) \in Int
    BY <2>2, CostTimes
  <2>4. /\ Sum(Counted(day, s), Workers) \in Int /\ shadow[v][day][s] \in Nat
        /\ Allowed(s) \in Int
    BY SpendNumbers
  <2> HIDE DEF CapInv, Numbers
  <2> QED
    BY <1>7, <1>9, <2>1, <2>3, <2>4
<1>12. CapKept'
  <2> SUFFICES ASSUME ~weak, NEW d \in Days, NEW s \in Scopes, CapOf(s) > 0
               PROVE  Sum(Counted(d, s)', Workers) <= Allowed(s)'
    BY <1>1, <1>9 DEF CapKept, CapOf
  <2>1. Sum(Counted(d, s), Workers) <= Allowed(s) /\ Allowed(s) \in Int
    BY SpendNumbers DEF CapKept
  <2>2. Sum(Counted(d, s), Workers) \in Int /\ shadow[v][d][s] \in Nat
    BY SpendNumbers
  <2> HIDE DEF CapInv, Numbers
  <2> QED
    BY <1>6, <1>9, <2>1, <2>2
<1> QED
  BY <1>3, <1>8, <1>10, <1>11, <1>12

\* Redis loses its data, or nothing happens.
LEMMA NobodyKeeps ==
  ASSUME CapInv, SpendInv', RedisRestarts \/ UNCHANGED vars
  PROVE  CapInv'
<1> USE DEF CapInv, calls
<1>1. CASE RedisRestarts
  <2>1. weak' /\ UNCHANGED <<day, shadow, pc, user, on, cost>>
    BY <1>1 DEF RedisRestarts
  <2>2. NotAhead' /\ OwnFirst'
    BY <2>1 DEF NotAhead, OwnFirst, OwedBy, Owing, Charged
  <2> QED
    BY <2>1, <2>2 DEF Accounted, LetThrough, CapKept
<1>2. CASE UNCHANGED vars
  <2>1. UNCHANGED <<day, shared, shadow, pc, user, on, cost, mishaps, weak>>
    BY <1>2 DEF vars
  <2>2. NotAhead' /\ OwnFirst'
    BY <2>1 DEF NotAhead, OwnFirst, OwedBy, Owing, Charged
  <2>3. \A d, s : /\ Counted(d, s)' = Counted(d, s) /\ Owed(s)' = Owed(s) /\ Due(s)' = Due(s)
                  /\ Allowed(s)' = Allowed(s) /\ CapOf(s)' = CapOf(s)
    BY <2>1 DEF Counted, Owed, Owing, Due, Charged, Allowed, CapOf
  <2>4. \A s : Counted(day, s)' = Counted(day, s)
    BY <2>1 DEF Counted
  <2> QED
    BY <2>1, <2>2, <2>3, <2>4 DEF Accounted, LetThrough, CapKept
<1> QED
  BY <1>1, <1>2

LEMMA CapNext == CapInv /\ [Next]_vars => CapInv'
<1> SUFFICES ASSUME CapInv, [Next]_vars PROVE CapInv'
  OBVIOUS
<1>1. SpendInv'
  BY SpendNext DEF CapInv
<1>2. CASE RedisRestarts \/ UNCHANGED vars
  BY <1>1, <1>2, NobodyKeeps
<1>3. CASE Midnight
  BY <1>1, <1>3, NewDayKeeps
<1>4. ASSUME NEW w \in Workers, Restart(w) PROVE CapInv'
  BY <1>1, <1>4, WorkerRestartKeeps
<1>5. ASSUME NEW c \in Slots,
             \/ Ask(c) \/ Unanswered(c) \/ SucceedFree(c) \/ Fail(c) \/ Failsafe(c)
      PROVE  CapInv'
  BY <1>1, <1>5, QuietKeeps
<1>6. ASSUME NEW c \in Slots, Answered(c) PROVE CapInv'
  BY <1>1, <1>6, AnsweredKeeps
<1>7. ASSUME NEW c \in Slots, Succeed(c) PROVE CapInv'
  BY <1>1, <1>7, PaidKeeps
<1>8. ASSUME NEW c \in Slots, CountTotal(c) \/ CountUser(c) \/ Uncounted(c) PROVE CapInv'
  BY <1>1, <1>8, CountKeeps DEF Uncounted
<1>9. ASSUME NEW c \in Slots, Cancel(c) PROVE CapInv'
  <2>1. CASE Skip(c) /\ weak' = weak
    BY <1>1, <2>1, CountKeeps
  <2>2. CASE Leave(c) /\ Mishap /\ UNCHANGED <<day, shared, shadow, weak>>
    BY <1>1, <2>2, QuietKeeps
  <2> QED
    BY <1>9, <2>1, <2>2 DEF Cancel
<1> QED
  BY <1>2, <1>3, <1>4, <1>5, <1>6, <1>7, <1>8, <1>9 DEF Next

\* MapThenSumSet over the workers is the sum of what each of them counted.
LEMMA TogetherIsSum ==
  ASSUME SpendInv, NEW d \in Days, NEW s \in Scopes
  PROVE  MapThenSumSet(LAMBDA w : shadow[w][d][s], Workers) = Sum(Counted(d, s), Workers)
<1> DEFINE Rec(g) == g = [t \in SUBSET Workers |->
             IF t = {} THEN 0
             ELSE shadow[Chosen(t)][d][s] + g[t \ {Chosen(t)}]]
<1>1. \A g : SumsOf(g, Counted(d, s), Workers) <=> Rec(g)
  <2>1. \A t \in SUBSET Workers : t # {} =>
          Counted(d, s)[Chosen(t)] = shadow[Chosen(t)][d][s]
    BY ChosenOne DEF Counted
  <2>2. ASSUME NEW g
        PROVE  [t \in SUBSET Workers |->
                  IF t = {} THEN 0 ELSE Counted(d, s)[Chosen(t)] + g[t \ {Chosen(t)}]]
               = [t \in SUBSET Workers |->
                    IF t = {} THEN 0 ELSE shadow[Chosen(t)][d][s] + g[t \ {Chosen(t)}]]
    BY <2>1
  <2> QED
    BY <2>2 DEF SumsOf
<1>2. IsFiniteSet(Workers)
  BY SpendCapAssumption
<1>3. \E g : Rec(g)
  BY <1>1, <1>2, SumsExist
<1>4. Rec(CHOOSE g : Rec(g))
  BY <1>3
<1>5. Sum(Counted(d, s), Workers) = (CHOOSE g : Rec(g))[Workers]
  BY <1>1, <1>2, <1>4, SumIs
<1>6. MapThenSumSet(LAMBDA w : shadow[w][d][s], Workers) = (CHOOSE g : Rec(g))[Workers]
  BY DEF MapThenSumSet, MapThenFoldSet, Chosen
<1> QED
  BY <1>5, <1>6

\* While Redis answers, the limit is one across the workers: whatever is cancelled or
\* restarted and however their calls interleave, they pass it together by the calls in
\* flight and the counts that were lost (src/ceynex/observability/spend.py).
THEOREM OneCapForAll == Spec => []OneCap
<1>1. CapInv => OneCap
  BY TogetherIsSum DEF CapInv, CapKept, OneCap, Allowed
<1> QED
  BY CapInit, CapNext, <1>1, PTL DEF Spec

-----------------------------------------------------------------------------
(* Numbers.                                                                *)

\* A set of numbers that is not empty and bounded has a greatest.
LEMMA GreatestNumber ==
  ASSUME NEW S, S \subseteq Nat, S # {}, NEW n \in Nat, \A i \in S : i <= n
  PROVE  \E i \in S : \A j \in S : j <= i
<1> DEFINE U == {m \in Nat : \A i \in S : i <= m}
<1>1. U \subseteq Nat /\ U # {}
  OBVIOUS
<1>2. PICK m \in U : \A k \in U : m <= k
  BY <1>1, LeastOf
<1>3. m \in S
  <2> SUFFICES ASSUME m \notin S PROVE FALSE
    OBVIOUS
  <2>1. PICK i \in S : TRUE
    OBVIOUS
  <2>2. \A j \in S : j < m
    BY <1>2
  <2>3. m - 1 \in Nat /\ \A j \in S : j <= m - 1
    BY <1>2, <2>1, <2>2
  <2>4. m - 1 \in U
    BY <2>3
  <2> QED
    BY <1>2, <2>4
<1> QED
  BY <1>2, <1>3

-----------------------------------------------------------------------------
(* The registered models.                                                  *)

Moments == 0..Models!MaxSecond
ModelFile == {Models!Absent, Models!Torn} \cup {Models!Model(s) : s \in Saves \cup {Models!Seeded}}
MetaFile ==
  {Models!Absent, Models!Torn} \cup
  [is : {"whole"}, of : Saves \cup {Models!Seeded},
   mape : Errors \cup {Models!NoError, Models!Max(Errors)}, at : Moments]

\* A save that still goes on or has gone through, and one that has its directory.
Active == {"chosen", "model", "model open", "meta", "meta open", "saved"}
Made   == Active \ {"chosen"}

Retrain ==
  [pc : Active \cup {"wait", "fitted", "failed", "killed"}, version : Moments \X Nat,
   mape : Errors \cup {Models!NoError}, at : Moments]

\* What a retrain that is at r has written of its version.
Content(s, r) ==
  [model |-> CASE r.pc = "model" -> Models!Absent
               [] r.pc = "model open" -> Models!Torn
               [] OTHER -> Models!Model(s),
   meta  |-> CASE r.pc \in {"model", "model open", "meta"} -> Models!Absent
               [] r.pc = "meta open" -> Models!Torn
               [] OTHER -> Models!Meta(s, r.mape, r.at)]

DiskKept ==
  /\ disk \in [DOMAIN disk -> [model : ModelFile, meta : MetaFile]]
  /\ IsFiniteSet(DOMAIN disk)
  /\ Models!Base(0) \in DOMAIN disk
  /\ disk[Models!Base(0)].model = Models!Model(Models!Seeded)
  /\ disk[Models!Base(0)].meta.is = "whole" /\ disk[Models!Base(0)].meta.of = Models!Seeded

SaveTypes ==
  /\ second \in 1..Models!MaxSecond
  /\ save \in [Saves -> Retrain]
  /\ \A s \in Saves : save[s].pc \in Active => save[s].version[1] > 0

\* A version is one save's, unless two raced for it.
Owned ==
  \A s, o \in Saves : s # o /\ {save[s].pc, save[o].pc} \subseteq Active
                        /\ save[s].version = save[o].version => save[s].version \in raced

\* What is on the disk of a save's version is what that save has written so far.
Written ==
  \A s \in Saves : LET v == save[s].version IN
    /\ save[s].pc = "chosen" /\ Models!Alone(v) => v \notin DOMAIN disk
    /\ save[s].pc \in Made => v \in DOMAIN disk
    /\ save[s].pc \in Made /\ Models!Alone(v) => disk[v] = Content(s, save[s])

\* A version with its metadata has the model they are of.
Loadable ==
  \A v \in DOMAIN disk : Models!Alone(v) /\ disk[v].meta.is = "whole" =>
    disk[v].model = Models!Model(disk[v].meta.of)

\* What the agent listed is still there, and what it loaded is what it listed.
ReadKept ==
  /\ reading.pc \in {"idle", "listed"}
  /\ reading.pc = "listed" =>
       /\ reading.got = Models!Absent /\ reading.version \in DOMAIN disk
       /\ Models!Alone(reading.version) =>
            disk[reading.version].meta.is = "whole" /\ disk[reading.version].meta = reading.meta
  /\ reading.pc = "idle" => Models!ServedIsChosen

ModelInv == DiskKept /\ SaveTypes /\ Owned /\ Written /\ Loadable /\ ReadKept

LEMMA ModelsStart == Models!RegistryInit => ModelInv
<1> SUFFICES ASSUME Models!RegistryInit PROVE ModelInv
  OBVIOUS
<1> USE DEF Models!RegistryInit
<1>1. /\ DOMAIN disk = {Models!Base(0)}
      /\ disk[Models!Base(0)] = [model |-> Models!Model(Models!Seeded),
                                 meta |-> Models!Meta(Models!Seeded, Models!Max(Errors), 0)]
  OBVIOUS
<1>2. DiskKept
  <2>1. Models!Meta(Models!Seeded, Models!Max(Errors), 0) \in MetaFile
    BY DEF Models!Meta, MetaFile, Moments, Models!MaxSecond
  <2>2. IsFiniteSet({Models!Base(0)})
    BY FS_Singleton
  <2>3. disk \in [DOMAIN disk -> [model : ModelFile, meta : MetaFile]]
    BY <1>1, <2>1 DEF ModelFile
  <2> QED
    BY <1>1, <2>2, <2>3 DEF DiskKept, Models!Meta
<1>3. SaveTypes
  <2>1. Models!Waiting \in Retrain
    <3>1. <<0, 0>> \in Moments \X Nat /\ 0 \in Moments
      BY DEF Moments, Models!MaxSecond
    <3> QED
      BY <3>1 DEF Models!Waiting, Models!NoVersion, Retrain
  <2>2. save \in [Saves -> Retrain]
    BY <2>1
  <2>3. \A s \in Saves : save[s].pc = "wait"
    BY DEF Models!Waiting
  <2>4. second \in 1..Models!MaxSecond
    BY DEF Models!MaxSecond
  <2>5. \A s \in Saves : save[s].pc \notin Active
    BY <2>3 DEF Active
  <2> QED
    BY <2>2, <2>4, <2>5 DEF SaveTypes
<1>4. Owned /\ Written
  BY DEF Owned, Written, Models!Waiting, Active, Made
<1>5. Loadable
  BY <1>1 DEF Loadable, Models!Meta
<1>6. ReadKept
  BY DEF ReadKept, Models!NotReading, Models!ServedIsChosen
<1> QED
  BY <1>2, <1>3, <1>4, <1>5, <1>6 DEF ModelInv

\* What a retrain at r writes has its type, and is of it once the metadata are there.
LEMMA ContentFacts ==
  ASSUME NEW s \in Saves, NEW r \in Retrain, r.pc \in Made
  PROVE  /\ Content(s, r) \in [model : ModelFile, meta : MetaFile]
         /\ Content(s, r).meta.is = "whole" <=> r.pc = "saved"
         /\ r.pc = "saved" => Content(s, r).model = Models!Model(Content(s, r).meta.of)
<1> USE DEF Made, Active
<1>1. /\ Models!Model(s) \in ModelFile /\ Models!Absent \in ModelFile
      /\ Models!Torn \in ModelFile /\ Models!Absent \in MetaFile /\ Models!Torn \in MetaFile
  BY DEF ModelFile, MetaFile
<1>2. /\ Models!Meta(s, r.mape, r.at) \in MetaFile
      /\ Models!Meta(s, r.mape, r.at).is = "whole" /\ Models!Meta(s, r.mape, r.at).of = s
  BY DEF MetaFile, Retrain, Models!Meta
<1>3. Models!Absent.is # "whole" /\ Models!Torn.is # "whole"
  BY DEF Models!Absent, Models!Torn
<1> QED
  BY <1>1, <1>2, <1>3 DEF Content

\* A retrain goes on by writing its own version.
LEMMA SaveKeeps ==
  ASSUME ModelInv, NEW s \in Saves, NEW new \in Retrain,
         NEW files \in [model : ModelFile, meta : MetaFile],
         save[s].pc \in Active \ {"saved"}, new.pc \in Made, new.version = save[s].version,
         save' = [save EXCEPT ![s] = new],
         disk' = [o \in DOMAIN disk \cup {new.version} |->
                    IF o = new.version THEN files ELSE disk[o]],
         Models!Alone(new.version) => files = Content(s, new),
         UNCHANGED <<reading, second, raced>>
  PROVE  ModelInv'
<1> DEFINE v == new.version
<1> USE DEF ModelInv
<1>1. /\ save' \in [Saves -> Retrain] /\ save'[s] = new
      /\ \A o \in Saves \ {s} : save'[o] = save[o]
      /\ save \in [Saves -> Retrain]
  BY DEF SaveTypes
<1>2. /\ DOMAIN disk' = DOMAIN disk \cup {v} /\ disk'[v] = files
      /\ \A o \in DOMAIN disk \ {v} : disk'[o] = disk[o]
  OBVIOUS
<1>3. v # Models!Base(0)
  BY <1>1 DEF SaveTypes, Models!Base, Moments, Retrain, Made
<1>4. \A o \in Saves \ {s} : save[o].pc \in Active /\ save[o].version = v => ~Models!Alone(v)
  BY DEF Owned, Models!Alone
<1>5. v \in DOMAIN disk /\ Models!Alone(v) => disk[v].meta.is # "whole"
  <2>1. ASSUME v \in DOMAIN disk, Models!Alone(v) PROVE disk[v].meta.is # "whole"
    <3>1. save[s].pc \in Made /\ save[s] \in Retrain
      BY <1>1, <2>1 DEF Written, Made
    <3>2. disk[v] = Content(s, save[s])
      BY <2>1, <3>1 DEF Written
    <3> QED
      BY <3>1, <3>2, ContentFacts
  <2> QED
    BY <2>1
<1>6. \A o : Models!Alone(o)' <=> Models!Alone(o)
  BY DEF Models!Alone
<1>7. DiskKept'
  <2>1. IsFiniteSet(DOMAIN disk')
    BY <1>2, FS_AddElement DEF DiskKept
  <2>2. disk' \in [DOMAIN disk' -> [model : ModelFile, meta : MetaFile]]
    BY DEF DiskKept
  <2> QED
    BY <1>2, <1>3, <2>1, <2>2 DEF DiskKept
<1>8. SaveTypes'
  BY <1>1 DEF SaveTypes, Made
<1>9. Owned'
  BY <1>1 DEF Owned, Made
<1>10. Written'
  <2>1. ASSUME NEW o \in Saves
        PROVE  LET w == save'[o].version IN
               /\ save'[o].pc = "chosen" /\ Models!Alone(w) => w \notin DOMAIN disk'
               /\ save'[o].pc \in Made => w \in DOMAIN disk'
               /\ save'[o].pc \in Made /\ Models!Alone(w) => disk'[w] = Content(o, save'[o])
    <3>1. CASE o = s
      BY <1>1, <1>2, <3>1 DEF Made
    <3>2. CASE o # s
      <4>1. save'[o] = save[o]
        BY <1>1, <3>2
      <4>2. save[o].pc \in Active /\ Models!Alone(save[o].version) => save[o].version # v
        BY <1>4, <3>2
      <4> QED
        BY <1>2, <4>1, <4>2 DEF Written, Made, Active
    <3> QED
      BY <3>1, <3>2
  <2> QED
    BY <1>6, <2>1 DEF Written, Models!Alone
<1>11. Loadable'
  <2>1. ASSUME NEW o \in DOMAIN disk', Models!Alone(o), disk'[o].meta.is = "whole"
        PROVE  disk'[o].model = Models!Model(disk'[o].meta.of)
    <3>1. CASE o = v
      BY <1>2, <2>1, <3>1, ContentFacts
    <3>2. CASE o # v
      BY <1>2, <2>1, <3>2 DEF Loadable
    <3> QED
      BY <3>1, <3>2
  <2> QED
    BY <1>6, <2>1 DEF Loadable, Models!Alone
<1>12. ReadKept'
  <2>1. reading.pc = "listed" /\ Models!Alone(reading.version) => reading.version # v
    BY <1>5 DEF ReadKept
  <2>2. reading.pc = "idle" => Models!ServedIsChosen'
    BY DEF ReadKept, Models!ServedIsChosen, Models!Alone
  <2> QED
    BY <1>2, <2>1, <2>2 DEF ReadKept, Models!Alone
<1> QED
  BY <1>7, <1>8, <1>9, <1>10, <1>11, <1>12

LEMMA WritesKeep ==
  ASSUME ModelInv, NEW s \in Saves,
         \/ Models!MakeDirectory(s) \/ Models!OpenModel(s) \/ Models!WriteModel(s)
         \/ Models!OpenMeta(s) \/ Models!WriteMeta(s)
  PROVE  ModelInv'
<1> DEFINE r == save[s]
           v == r.version
<1> USE DEF ModelInv, Models!At, Models!Go
<1>1. r \in Retrain /\ second \in Moments /\ save \in [Saves -> Retrain]
  BY DEF SaveTypes, Moments, Models!MaxSecond
<1>2. /\ v \in DOMAIN disk => disk[v] \in [model : ModelFile, meta : MetaFile]
      /\ r.pc \in Made => v \in DOMAIN disk
      /\ r.pc \in Made /\ Models!Alone(v) => disk[v] = Content(s, r)
      /\ r.pc = "chosen" /\ Models!Alone(v) => v \notin DOMAIN disk
  BY DEF DiskKept, Written
<1>3. CASE Models!MakeDirectory(s)
  <2> DEFINE new == [r EXCEPT !.pc = "model"]
             files == IF v \in DOMAIN disk THEN disk[v]
                      ELSE [model |-> Models!Absent, meta |-> Models!Absent]
  <2>1. /\ new \in Retrain /\ new.pc = "model" /\ new.version = v
        /\ save' = [save EXCEPT ![s] = new] /\ r.pc = "chosen"
        /\ UNCHANGED <<reading, second, raced>>
    BY <1>1, <1>3 DEF Models!MakeDirectory, Retrain, Active
  <2>2. files \in [model : ModelFile, meta : MetaFile]
    BY <1>2 DEF ModelFile, MetaFile
  <2>3. disk' = [o \in DOMAIN disk \cup {v} |-> IF o = v THEN files ELSE disk[o]]
    <3>1. CASE v \in DOMAIN disk
      <4>1. disk' = disk
        BY <1>3, <3>1 DEF Models!MakeDirectory, Models!Exists
      <4>2. disk = [o \in DOMAIN disk |-> disk[o]]
        BY DEF DiskKept
      <4> QED
        BY <3>1, <4>1, <4>2
    <3>2. CASE v \notin DOMAIN disk
      BY <1>3, <3>2 DEF Models!MakeDirectory, Models!Exists, Models!Put
    <3> QED
      BY <3>1, <3>2
  <2>4. Models!Alone(v) => files = Content(s, new)
    BY <1>2, <2>1 DEF Content
  <2> HIDE DEF new, files, r
  <2> QED
    BY <2>1, <2>2, <2>3, <2>4, SaveKeeps DEF r, Made, Active
<1>4. CASE Models!OpenModel(s)
  <2> DEFINE new == [r EXCEPT !.pc = "model open", !.at = second]
             files == [disk[v] EXCEPT !.model = Models!Torn]
  <2>1. /\ new \in Retrain /\ new.version = v /\ r.pc = "model"
        /\ save' = [save EXCEPT ![s] = new] /\ UNCHANGED <<reading, second, raced>>
    BY <1>1, <1>4 DEF Models!OpenModel, Retrain, Active
  <2>2. new.pc \in Made
    BY <1>1 DEF Retrain, Made, Active
  <2>3. files \in [model : ModelFile, meta : MetaFile]
    BY <1>1, <1>2, <2>1 DEF Made, Active, ModelFile, MetaFile, Retrain, Moments, Models!Meta
  <2>4. disk' = [o \in DOMAIN disk \cup {v} |-> IF o = v THEN files ELSE disk[o]]
    BY <1>4 DEF Models!OpenModel, Models!Put
  <2>5. ASSUME Models!Alone(v) PROVE files = Content(s, new)
    <3>1. Content(s, r) = [model |-> Models!Absent, meta |-> Models!Absent]
      BY <2>1 DEF Content
    <3>2. disk[v] = Content(s, r)
      BY <1>2, <2>1, <2>5 DEF Made, Active
    <3>3. new.pc = "model open"
      BY <1>1 DEF Retrain
    <3> HIDE DEF new
    <3>4. Content(s, new) = [model |-> Models!Torn, meta |-> Models!Absent]
      BY <3>3 DEF Content
    <3> QED
      BY <3>1, <3>2, <3>4
  <2> HIDE DEF new, files, r
  <2> QED
    BY <2>1, <2>2, <2>3, <2>4, <2>5, SaveKeeps DEF r, Made, Active
<1>5. CASE Models!WriteModel(s)
  <2> DEFINE new == [r EXCEPT !.pc = "meta"]
             files == [disk[v] EXCEPT !.model = Models!Model(s)]
  <2>1. /\ new \in Retrain /\ new.version = v /\ r.pc = "model open"
        /\ save' = [save EXCEPT ![s] = new] /\ UNCHANGED <<reading, second, raced>>
    BY <1>1, <1>5 DEF Models!WriteModel, Retrain, Active
  <2>2. new.pc \in Made
    BY <1>1 DEF Retrain, Made, Active
  <2>3. files \in [model : ModelFile, meta : MetaFile]
    BY <1>1, <1>2, <2>1 DEF Made, Active, ModelFile, MetaFile, Retrain, Moments, Models!Meta
  <2>4. disk' = [o \in DOMAIN disk \cup {v} |-> IF o = v THEN files ELSE disk[o]]
    BY <1>5 DEF Models!WriteModel, Models!Put
  <2>5. ASSUME Models!Alone(v) PROVE files = Content(s, new)
    <3>1. Content(s, r) = [model |-> Models!Torn, meta |-> Models!Absent]
      BY <2>1 DEF Content
    <3>2. disk[v] = Content(s, r)
      BY <1>2, <2>1, <2>5 DEF Made, Active
    <3>3. new.pc = "meta"
      BY <1>1 DEF Retrain
    <3> HIDE DEF new
    <3>4. Content(s, new) = [model |-> Models!Model(s), meta |-> Models!Absent]
      BY <3>3 DEF Content
    <3> QED
      BY <3>1, <3>2, <3>4
  <2> HIDE DEF new, files, r
  <2> QED
    BY <2>1, <2>2, <2>3, <2>4, <2>5, SaveKeeps DEF r, Made, Active
<1>6. CASE Models!OpenMeta(s)
  <2> DEFINE new == [r EXCEPT !.pc = "meta open"]
             files == [disk[v] EXCEPT !.meta = Models!Torn]
  <2>1. /\ new \in Retrain /\ new.version = v /\ r.pc = "meta"
        /\ save' = [save EXCEPT ![s] = new] /\ UNCHANGED <<reading, second, raced>>
    BY <1>1, <1>6 DEF Models!OpenMeta, Retrain, Active
  <2>2. new.pc \in Made
    BY <1>1 DEF Retrain, Made, Active
  <2>3. files \in [model : ModelFile, meta : MetaFile]
    BY <1>1, <1>2, <2>1 DEF Made, Active, ModelFile, MetaFile, Retrain, Moments, Models!Meta
  <2>4. disk' = [o \in DOMAIN disk \cup {v} |-> IF o = v THEN files ELSE disk[o]]
    BY <1>6 DEF Models!OpenMeta, Models!Put
  <2>5. ASSUME Models!Alone(v) PROVE files = Content(s, new)
    <3>1. Content(s, r) = [model |-> Models!Model(s), meta |-> Models!Absent]
      BY <2>1 DEF Content
    <3>2. disk[v] = Content(s, r)
      BY <1>2, <2>1, <2>5 DEF Made, Active
    <3>3. new.pc = "meta open"
      BY <1>1 DEF Retrain
    <3> HIDE DEF new
    <3>4. Content(s, new) = [model |-> Models!Model(s), meta |-> Models!Torn]
      BY <3>3 DEF Content
    <3> QED
      BY <3>1, <3>2, <3>4
  <2> HIDE DEF new, files, r
  <2> QED
    BY <2>1, <2>2, <2>3, <2>4, <2>5, SaveKeeps DEF r, Made, Active
<1>7. CASE Models!WriteMeta(s)
  <2> DEFINE new == [r EXCEPT !.pc = "saved"]
             files == [disk[v] EXCEPT !.meta = Models!Meta(s, r.mape, r.at)]
  <2>1. /\ new \in Retrain /\ new.version = v /\ r.pc = "meta open"
        /\ save' = [save EXCEPT ![s] = new] /\ UNCHANGED <<reading, second, raced>>
    BY <1>1, <1>7 DEF Models!WriteMeta, Retrain, Active
  <2>2. new.pc \in Made
    BY <1>1 DEF Retrain, Made, Active
  <2>3. files \in [model : ModelFile, meta : MetaFile]
    BY <1>1, <1>2, <2>1 DEF Made, Active, ModelFile, MetaFile, Retrain, Moments, Models!Meta
  <2>4. disk' = [o \in DOMAIN disk \cup {v} |-> IF o = v THEN files ELSE disk[o]]
    BY <1>7 DEF Models!WriteMeta, Models!Put
  <2>5. ASSUME Models!Alone(v) PROVE files = Content(s, new)
    <3>1. Content(s, r) = [model |-> Models!Model(s), meta |-> Models!Torn]
      BY <2>1 DEF Content
    <3>2. disk[v] = Content(s, r)
      BY <1>2, <2>1, <2>5 DEF Made, Active
    <3>3. new.pc = "saved" /\ new.mape = r.mape /\ new.at = r.at
      BY <1>1 DEF Retrain
    <3> HIDE DEF new
    <3>4. Content(s, new) = [model |-> Models!Model(s), meta |-> Models!Meta(s, r.mape, r.at)]
      BY <3>3 DEF Content
    <3> QED
      BY <3>1, <3>2, <3>4
  <2> HIDE DEF new, files, r
  <2> QED
    BY <2>1, <2>2, <2>3, <2>4, <2>5, SaveKeeps DEF r, Made, Active
<1> QED
  BY <1>3, <1>4, <1>5, <1>6, <1>7

\* A retrain that is at nothing of the disk goes on, fails or is killed.
LEMMA IdleKeeps ==
  ASSUME ModelInv, NEW s \in Saves, Models!Refit(s) \/ Models!Kill(s)
  PROVE  ModelInv'
<1> DEFINE new == save'[s]
<1> USE DEF ModelInv
<1>1. /\ save \in [Saves -> Retrain] /\ UNCHANGED <<disk, reading, second, raced>>
      /\ \A v : Models!Alone(v)' <=> Models!Alone(v)
  BY DEF SaveTypes, Models!Refit, Models!Kill, Models!Alone
<1>2. /\ save' \in [Saves -> Retrain] /\ new.pc \notin Active
      /\ \A o \in Saves \ {s} : save'[o] = save[o]
  <2>1. CASE Models!Kill(s)
    BY <1>1, <2>1 DEF Models!Kill, Models!Go, Retrain, Active
  <2>2. CASE Models!Refit(s)
    <3>1. PICK mape \in Errors \cup {Models!NoError}, step \in {"fitted", "failed"} :
            save' = [save EXCEPT ![s] = [save[s] EXCEPT !.pc = step, !.mape = mape]]
      BY <1>1, <2>2 DEF Models!Refit
    <3> QED
      BY <1>1, <3>1 DEF Retrain, Active
  <2> QED
    BY <2>1, <2>2
<1> HIDE DEF new
<1>3. DiskKept' /\ Loadable'
  BY <1>1 DEF DiskKept, Loadable, Models!Alone
<1>4. \A o \in Saves : save'[o].pc \in Active => o # s /\ save'[o] = save[o]
  BY <1>2 DEF new
<1>5. SaveTypes'
  BY <1>1, <1>2, <1>4 DEF SaveTypes
<1>6. Owned'
  BY <1>1, <1>4 DEF Owned
<1>7. Written'
  BY <1>1, <1>4 DEF Written, Made, Active, Models!Alone
<1>8. ReadKept'
  BY <1>1 DEF ReadKept, Models!ServedIsChosen, Models!Alone
<1> QED
  BY <1>3, <1>5, <1>6, <1>7, <1>8

\* The first suffix no directory has: there is one.
LEMMA ChooseKeeps ==
  ASSUME ModelInv, NEW s \in Saves, Models!ChooseVersion(s)
  PROVE  ModelInv'
<1> DEFINE free == {n \in 1..(Models!Cardinality(DOMAIN disk) + 1) :
                      ~Models!Exists(<<second, n>>)}
           v == <<second, Models!Min(free)>>
           new == [save[s] EXCEPT !.pc = "chosen", !.version = v]
<1> USE DEF ModelInv
<1>1. /\ save \in [Saves -> Retrain] /\ UNCHANGED <<disk, reading, second>>
      /\ save' = [save EXCEPT ![s] = new] /\ save[s].pc = "fitted"
      /\ raced' = raced \cup Models!Race(s, v) /\ second \in 1..Models!MaxSecond
  BY DEF SaveTypes, Models!ChooseVersion, Models!At
<1>2. free # {}
  <2> SUFFICES ASSUME free = {} PROVE FALSE
    OBVIOUS
  <2> DEFINE k == Cardinality(DOMAIN disk)
  <2>1. k \in Nat /\ Models!Cardinality(DOMAIN disk) = k
    BY FS_CardinalityType DEF DiskKept, Models!Cardinality, Cardinality
  <2>2. \A n \in 1..(k + 1) : <<second, n>> \in DOMAIN disk
    BY <2>1 DEF Models!Exists
  <2> DEFINE f == [n \in 1..(k + 1) |-> <<second, n>>]
  <2>3. f \in [1..(k + 1) -> DOMAIN disk]
    BY <2>2
  <2>4. IsFiniteSet(1..(k + 1)) /\ Cardinality(1..(k + 1)) = k + 1
    BY <2>1, FS_Interval
  <2>5. Cardinality(DOMAIN disk) < Cardinality(1..(k + 1)) /\ IsFiniteSet(DOMAIN disk)
    BY <2>1, <2>4 DEF DiskKept
  <2> HIDE DEF f, k
  <2>6. \E x, y \in 1..(k + 1) : x # y /\ f[x] = f[y]
    BY ONLY <2>3, <2>4, <2>5, FS_PigeonHole
  <2> QED
    BY <2>6 DEF f
<1>3. Models!Min(free) \in free
  <2>1. free \subseteq Nat
    OBVIOUS
  <2>2. \E i \in free : \A j \in free : i <= j
    BY <1>2, <2>1, LeastOf
  <2> HIDE DEF free
  <2> QED
    BY <2>2 DEF Models!Min
<1>4. v \notin DOMAIN disk /\ v \in Moments \X Nat /\ v[1] > 0
  <2>1. Models!Min(free) \in Nat /\ ~Models!Exists(v)
    BY <1>3
  <2> HIDE DEF free
  <2> QED
    BY <1>1, <2>1 DEF Models!Exists, Moments, Models!MaxSecond
<1> HIDE DEF v
<1>5. /\ new \in Retrain /\ new.pc = "chosen" /\ new.version = v
      /\ save' \in [Saves -> Retrain] /\ save'[s] = new
      /\ \A o \in Saves \ {s} : save'[o] = save[o]
  BY <1>1, <1>4 DEF Retrain, Active
<1> HIDE DEF new
<1>6. /\ \A o \in Saves \ {s} : save[o].pc \in Active /\ save[o].version = v => v \in raced'
      /\ raced \subseteq raced'
  <2>1. \A o \in Saves : save[o].pc \in Made => save[o].version # v
    BY <1>4 DEF Written
  <2>2. ASSUME NEW o \in Saves \ {s}, save[o].pc \in Active, save[o].version = v
        PROVE  v \in raced'
    <3>1. save[o].pc = "chosen"
      BY <2>1, <2>2 DEF Made
    <3> QED
      BY <1>1, <2>2, <3>1 DEF Models!Race, Models!At
  <2> QED
    BY <1>1, <2>2
<1>7. \A w : Models!Alone(w)' => Models!Alone(w)
  BY <1>6 DEF Models!Alone
<1>8. DiskKept' /\ SaveTypes' /\ Loadable'
  BY <1>1, <1>4, <1>5, <1>7 DEF DiskKept, SaveTypes, Loadable, Models!Alone
<1>9. Owned'
  BY <1>5, <1>6 DEF Owned
<1>10. Written'
  BY <1>1, <1>4, <1>5, <1>7 DEF Written, Made, Models!Alone
<1>11. ReadKept'
  BY <1>1, <1>7 DEF ReadKept, Models!ServedIsChosen, Models!Alone
<1> QED
  BY <1>8, <1>9, <1>10, <1>11

\* There is always a version that can be read, and a newest one.
LEMMA NewestReadable ==
  ASSUME ModelInv
  PROVE  /\ Models!Readable \subseteq DOMAIN disk /\ Models!Base(0) \in Models!Readable
         /\ Models!Newest \in Models!Readable
         /\ \A v \in Models!Readable : disk[v].meta.is = "whole"
<1> USE DEF ModelInv
<1>1. /\ Models!Readable \subseteq DOMAIN disk /\ Models!Base(0) \in Models!Readable
      /\ \A v \in Models!Readable : disk[v].meta.is = "whole"
  BY DEF DiskKept, Models!Readable
<1>2. \A v \in Models!Readable : disk[v].meta.at \in 0..2
  <2>1. ASSUME NEW v \in Models!Readable PROVE disk[v].meta.at \in 0..2
    <3>1. disk[v].meta \in MetaFile /\ disk[v].meta.is = "whole"
      BY <1>1 DEF DiskKept
    <3>2. Models!Absent.is # "whole" /\ Models!Torn.is # "whole"
      BY DEF Models!Absent, Models!Torn
    <3> QED
      BY <3>1, <3>2 DEF MetaFile, Moments, Models!MaxSecond
  <2> QED
    BY <2>1
<1> DEFINE S == {disk[v].meta.at : v \in Models!Readable}
<1>3. S \subseteq Nat /\ S # {} /\ \A n \in S : n <= 2
  BY <1>1, <1>2
<1>4. PICK n \in S : \A m \in S : m <= n
  BY <1>3, GreatestNumber
<1>5. \E v \in Models!Readable : \A o \in Models!Readable : disk[v].meta.at >= disk[o].meta.at
  <2>1. PICK v \in Models!Readable : n = disk[v].meta.at
    BY <1>4
  <2> QED
    BY <1>2, <1>4, <2>1
<1>6. Models!Newest \in Models!Readable
  BY <1>5 DEF Models!Newest
<1> QED
  BY <1>1, <1>6

\* The agent lists what it can read, and loads what it listed.
LEMMA ReadsKeep ==
  ASSUME ModelInv, Models!List \/ Models!Load \/ Models!Tick
  PROVE  ModelInv'
<1> USE DEF ModelInv
<1>1. UNCHANGED <<disk, save, raced>> /\ \A v : Models!Alone(v)' <=> Models!Alone(v)
  BY DEF Models!List, Models!Load, Models!Tick, Models!Alone
<1>2. DiskKept' /\ Owned' /\ Written' /\ Loadable'
  BY <1>1 DEF DiskKept, Owned, Written, Loadable, Models!Alone
<1>3. SaveTypes'
  <2>1. second' \in 1..Models!MaxSecond
    <3>1. UNCHANGED second \/ (second < Models!MaxSecond /\ second' = second + 1)
      BY DEF Models!List, Models!Load, Models!Tick
    <3> QED
      BY <3>1 DEF SaveTypes, Models!MaxSecond
  <2> QED
    BY <1>1, <2>1 DEF SaveTypes
<1>4. CASE Models!List
  <2>1. PICK v \in Models!Readable :
          reading' = [Models!NotReading EXCEPT !.pc = "listed", !.version = v,
                                               !.meta = disk[v].meta]
    BY <1>4, NewestReadable DEF Models!List, Models!Least
  <2>2. /\ reading'.pc = "listed" /\ reading'.version = v /\ reading'.meta = disk[v].meta
        /\ reading'.got = Models!Absent
    BY <2>1 DEF Models!NotReading
  <2>3. ReadKept'
    BY <1>1, <2>2, NewestReadable DEF ReadKept
  <2> QED
    BY <1>2, <1>3, <2>3
<1>5. CASE Models!Load
  <2>1. /\ reading.pc = "listed" /\ reading'.pc = "idle" /\ reading'.version = reading.version
        /\ reading'.meta = reading.meta /\ reading'.got = disk[reading.version].model
    BY <1>5 DEF Models!Load
  <2>2. Models!Alone(reading.version) =>
          disk[reading.version].model = Models!Model(reading.meta.of)
    BY <2>1 DEF ReadKept, Loadable
  <2>3. ReadKept'
    BY <1>1, <2>1, <2>2 DEF ReadKept, Models!ServedIsChosen, Models!Alone
  <2> QED
    BY <1>2, <1>3, <2>3
<1>6. CASE Models!Tick
  BY <1>1, <1>2, <1>3, <1>6 DEF Models!Tick, ReadKept, Models!ServedIsChosen, Models!Alone
<1> QED
  BY <1>4, <1>5, <1>6

LEMMA ModelsNext == ModelInv /\ [Models!RegistryNext]_modelVars => ModelInv'
<1> SUFFICES ASSUME ModelInv, [Models!RegistryNext]_modelVars PROVE ModelInv'
  OBVIOUS
<1>1. CASE UNCHANGED modelVars
  BY <1>1 DEF ModelInv, DiskKept, SaveTypes, Owned, Written, Loadable, ReadKept,
    Models!ServedIsChosen, Models!Alone, modelVars
<1>2. CASE Models!RegistryNext
  BY <1>2, WritesKeep, IdleKeeps, ChooseKeeps, ReadsKeep DEF Models!RegistryNext
<1> QED
  BY <1>1, <1>2

LEMMA ModelsHold == ModelInv => ModelsWhole
<1> SUFFICES ASSUME ModelInv PROVE ModelsWhole
  OBVIOUS
<1> USE DEF ModelInv
<1>1. Models!ServedIsChosen
  BY DEF ReadKept, Models!ServedIsChosen
<1>2. Models!SavedStays
  BY DEF Written, Content, Made, Active, Models!SavedStays, Models!At
<1>3. Models!ListedIsLoadable
  BY NewestReadable DEF Loadable, Models!ListedIsLoadable
<1> QED
  BY <1>1, <1>2, <1>3 DEF ModelsWhole
-----------------------------------------------------------------------------
(* The facts.                                                              *)

Batch ==
  [source : Sources, rows : UNION {[back -> Amounts] : back \in SUBSET Observations},
   book : Data!BookKinds]
FactRow == [source : Sources, obs : Observations, amount : Amounts, copy : {1}]
JobRow ==
  [pc : {"idle", "prepare", "write", "close", "mirror"}, batch : Batch \cup {Data!NoBatch},
   run : Nat]
RunRow == [source : Sources, status : {"running", "success", "failed"}, at : Nat]

\* A run has its end once it is over, and ends come one by one.
RunsKept ==
  /\ runs \in Seq(RunRow)
  /\ \A i \in DOMAIN runs : runs[i].status = "running" <=> runs[i].at = 0
  /\ \E n \in Nat : \A i \in DOMAIN runs : runs[i].at <= n

\* A job has a batch of a source, and a run of its own while it may end it.
JobsKept ==
  /\ job \in [Jobs -> JobRow]
  /\ \A j \in Jobs : job[j].pc # "idle" => job[j].batch \in Batch
  /\ \A j \in Jobs : job[j].pc \in {"write", "close"} =>
       /\ job[j].run \in DOMAIN runs
       /\ runs[job[j].run].status = "running" /\ runs[job[j].run].source = job[j].batch.source
  /\ \A j, k \in Jobs : j # k /\ {job[j].pc, job[k].pc} \subseteq {"write", "close"} =>
       job[j].run # job[k].run

RowsKept ==
  fact \subseteq FactRow /\ Data!OneRowPerIdentity /\ Data!RowsHaveARun

ShownKept == DOMAIN reported = Sources /\ Data!FailureIsShown

FactInv == RunsKept /\ JobsKept /\ RowsKept /\ ShownKept /\ DOMAIN mirror = Sources

-----------------------------------------------------------------------------
\* The ends of the runs of a source with a status.
Ends(s, status) ==
  {runs[i].at : i \in {k \in DOMAIN runs : runs[k].source = s /\ runs[k].status = status}}

LEMMA MaxFacts ==
  ASSUME NEW S, S \subseteq Nat, NEW n \in Nat, \A i \in S : i <= n
  PROVE  /\ Data!Max({0} \cup S) \in {0} \cup S /\ Data!Max({0} \cup S) \in Nat
         /\ \A i \in S : i <= Data!Max({0} \cup S)
<1> DEFINE T == {0} \cup S
<1>1. T \subseteq Nat /\ T # {} /\ \A i \in T : i <= n
  OBVIOUS
<1>2. \E i \in T : \A j \in T : j <= i
  BY <1>1, GreatestNumber
<1> HIDE DEF T
<1>3. \E i \in T : \A j \in T : i >= j
  BY <1>1, <1>2
<1>4. Data!Max(T) \in T /\ \A j \in T : Data!Max(T) >= j
  BY <1>3 DEF Data!Max
<1>5. /\ Data!Max(T) \in T /\ Data!Max(T) \in Nat
      /\ \A j \in T : j <= Data!Max(T)
  BY <1>1, <1>4
<1> QED
  BY <1>5 DEF T

\* The latest end is a number no other passes, and a source's last end is one of its own.
LastIsLast ==
  /\ Data!Latest \in Nat
  /\ \A i \in DOMAIN runs : runs[i].at <= Data!Latest
  /\ \A s, status :
       /\ Data!LastOf(s, status) \in Nat /\ Data!LastOf(s, status) <= Data!Latest
       /\ Data!LastOf(s, status) \in {0} \cup Ends(s, status)
       /\ \A n \in Ends(s, status) : n <= Data!LastOf(s, status)

LEMMA LastFacts == RunsKept => LastIsLast
<1> SUFFICES ASSUME RunsKept PROVE LastIsLast
  OBVIOUS
<1> USE DEF RunsKept
<1>1. PICK n \in Nat : \A i \in DOMAIN runs : runs[i].at <= n
  OBVIOUS
<1>2. \A i \in DOMAIN runs : runs[i].at \in Nat
  <2>1. runs \in Seq(RunRow)
    OBVIOUS
  <2>2. \A i \in DOMAIN runs : runs[i] \in RunRow
    BY ONLY <2>1
  <2> QED
    BY <2>2 DEF RunRow
<1> DEFINE S == {runs[i].at : i \in DOMAIN runs}
<1>3. S \subseteq Nat /\ \A i \in S : i <= n
  BY <1>1, <1>2
<1>4. Data!Latest = Data!Max({0} \cup S)
  BY DEF Data!Latest
<1>5. Data!Latest \in Nat /\ \A i \in S : i <= Data!Latest
  BY <1>3, <1>4, MaxFacts
<1>6. ASSUME NEW s, NEW status
      PROVE  /\ Data!LastOf(s, status) \in Nat /\ Data!LastOf(s, status) <= Data!Latest
             /\ Data!LastOf(s, status) \in {0} \cup Ends(s, status)
             /\ \A m \in Ends(s, status) : m <= Data!LastOf(s, status)
  <2>1. Ends(s, status) \subseteq S
    BY DEF Ends
  <2>2. Data!LastOf(s, status) = Data!Max({0} \cup Ends(s, status))
    BY DEF Data!LastOf, Ends
  <2> HIDE DEF S
  <2>3. /\ Data!LastOf(s, status) \in {0} \cup Ends(s, status) /\ Data!LastOf(s, status) \in Nat
        /\ \A m \in Ends(s, status) : m <= Data!LastOf(s, status)
    BY <1>3, <2>1, <2>2, MaxFacts
  <2>4. Data!LastOf(s, status) <= Data!Latest
    BY <1>5, <2>1, <2>3
  <2> QED
    BY <2>3, <2>4
<1> QED
  BY <1>5, <1>6 DEF LastIsLast

LEMMA LastFactsNext == RunsKept' => LastIsLast'
  BY LastFacts, PTL

\* A run ends, and no other does: the freshness view shows it.
LEMMA EndShows ==
  ASSUME RunsKept, RunsKept', ShownKept, NEW s \in Sources, NEW status \in {"success", "failed"},
         NEW n \in DOMAIN runs', runs'[n].source = s, runs'[n].status = status,
         runs'[n].at = Data!Latest + 1,
         \A t, o : o \in {"success", "failed"} /\ <<t, o>> # <<s, status>> =>
                     Ends(t, o)' = Ends(t, o),
         reported' = [reported EXCEPT ![s] = IF status = "failed" THEN "failed" ELSE "ok"]
  PROVE  ShownKept' /\ \A t \in Sources : Data!LastSuccess(t) > 0 => Data!LastSuccess(t)' > 0
<1> DEFINE other == IF status = "failed" THEN "success" ELSE "failed"
<1>1. \A t, o : o \in {"success", "failed"} /\ <<t, o>> # <<s, status>> =>
        Data!LastOf(t, o)' = Data!LastOf(t, o)
  <2>1. \A t, o : /\ Data!LastOf(t, o) = Data!Max({0} \cup Ends(t, o))
                 /\ Data!LastOf(t, o)' = Data!Max({0} \cup Ends(t, o)')
    BY DEF Data!LastOf, Ends
  <2> QED
    BY <2>1
<1>2. Data!LastOf(s, status)' > Data!Latest
  <2>1. Data!Latest + 1 \in Ends(s, status)'
    BY DEF Ends
  <2>2. /\ Data!LastOf(s, status)' \in Nat
        /\ \A m \in Ends(s, status)' : m <= Data!LastOf(s, status)'
    BY LastFactsNext DEF LastIsLast
  <2>3. Data!Latest \in Nat
    BY LastFacts DEF LastIsLast
  <2> QED
    BY <2>1, <2>2, <2>3
<1>3. /\ Data!LastOf(s, other)' = Data!LastOf(s, other)
      /\ Data!LastOf(s, other) \in Nat /\ Data!LastOf(s, other) <= Data!Latest
      /\ Data!Latest \in Nat
  BY <1>1, LastFacts DEF LastIsLast
<1>4. Data!LastOf(s, status)' \in Nat
  BY LastFactsNext DEF LastIsLast
<1>5. /\ DOMAIN reported' = Sources
      /\ reported'[s] = (IF status = "failed" THEN "failed" ELSE "ok")
      /\ \A t \in Sources \ {s} : reported'[t] = reported[t]
  BY DEF ShownKept
<1>6. ASSUME NEW t \in Sources
      PROVE  /\ reported'[t] = "failed" => Data!LastFailure(t)' > Data!LastSuccess(t)'
             /\ reported'[t] = "ok" => Data!LastSuccess(t)' > Data!LastFailure(t)'
             /\ Data!LastSuccess(t) > 0 => Data!LastSuccess(t)' > 0
  <2>1. CASE t = s
    BY <1>2, <1>3, <1>4, <1>5, <2>1 DEF Data!LastSuccess, Data!LastFailure
  <2>2. CASE t # s
    BY <1>1, <1>5, <2>2 DEF Data!LastSuccess, Data!LastFailure, ShownKept, Data!FailureIsShown
  <2> QED
    BY <2>1, <2>2
<1>7. Data!FailureIsShown'
  BY <1>6 DEF Data!FailureIsShown
<1> QED
  BY <1>5, <1>6, <1>7 DEF ShownKept

\* A row is put behind the others ...
LEMMA RunAdded ==
  ASSUME RunsKept, NEW row \in RunRow, row.status = "running" <=> row.at = 0,
         row.at <= Data!Latest + 1, runs' = Append(runs, row)
  PROVE  /\ RunsKept' /\ Len(runs) + 1 \in DOMAIN runs' /\ runs'[Len(runs) + 1] = row
         /\ \A i \in DOMAIN runs : i # Len(runs) + 1 /\ i \in DOMAIN runs' /\ runs'[i] = runs[i]
         /\ \A t, o : <<t, o>> # <<row.source, row.status>> => Ends(t, o)' = Ends(t, o)
<1>1. /\ runs \in Seq(RunRow) /\ runs' \in Seq(RunRow) /\ Len(runs) \in Nat
      /\ DOMAIN runs = 1..Len(runs) /\ DOMAIN runs' = 1..(Len(runs) + 1)
      /\ runs'[Len(runs) + 1] = row /\ \A i \in 1..Len(runs) : runs'[i] = runs[i]
  BY DEF RunsKept
<1>2. RunsKept'
  <2>1. \A i \in DOMAIN runs' : i \in 1..Len(runs) \/ i = Len(runs) + 1
    BY <1>1
  <2>2. \A i \in DOMAIN runs' : runs'[i].status = "running" <=> runs'[i].at = 0
    BY <1>1, <2>1 DEF RunsKept
  <2>3. Data!Latest + 1 \in Nat /\ \A i \in 1..Len(runs) : runs[i].at <= Data!Latest + 1
    <3>1. \A i \in 1..Len(runs) : runs[i].at \in Nat
      <4>1. \A i \in 1..Len(runs) : runs[i] \in RunRow
        BY ONLY <1>1
      <4> QED
        BY <4>1 DEF RunRow
    <3> QED
      BY <1>1, <3>1, LastFacts DEF LastIsLast
  <2>4. \A i \in DOMAIN runs' : runs'[i].at <= Data!Latest + 1
    BY <1>1, <2>1, <2>3
  <2> QED
    BY <1>1, <2>2, <2>3, <2>4 DEF RunsKept
<1>3. ASSUME NEW t, NEW o, <<t, o>> # <<row.source, row.status>>
      PROVE  Ends(t, o)' = Ends(t, o)
  <2>1. \A i \in DOMAIN runs' :
          runs'[i].source = t /\ runs'[i].status = o => i \in DOMAIN runs
    BY <1>1, <1>3
  <2> QED
    BY <1>1, <2>1 DEF Ends
<1> QED
  BY <1>1, <1>2, <1>3

\* ... or the row of a run that goes on gets its end.
LEMMA RunEnded ==
  ASSUME RunsKept, NEW n \in DOMAIN runs, runs[n].status = "running",
         NEW status \in {"success", "failed"},
         runs' = [runs EXCEPT ![n] = Data!Closed(@, status)]
  PROVE  /\ RunsKept' /\ DOMAIN runs' = DOMAIN runs
         /\ runs'[n].source = runs[n].source /\ runs'[n].status = status
         /\ runs'[n].at = Data!Latest + 1
         /\ \A i \in DOMAIN runs \ {n} : runs'[i] = runs[i]
         /\ \A t, o : o \in {"success", "failed"} /\ <<t, o>> # <<runs[n].source, status>> =>
              Ends(t, o)' = Ends(t, o)
<1> DEFINE row == Data!Closed(runs[n], status)
<1>1. /\ runs \in Seq(RunRow) /\ Len(runs) \in Nat /\ DOMAIN runs = 1..Len(runs)
      /\ runs[n] \in RunRow /\ Data!Latest + 1 \in Nat \ {0}
  BY LastFacts DEF RunsKept, LastIsLast
<1>2. /\ row \in RunRow /\ row.source = runs[n].source /\ row.status = status
      /\ row.at = Data!Latest + 1
  BY <1>1 DEF Data!Closed, RunRow
<1>3. runs' = [runs EXCEPT ![n] = row]
  OBVIOUS
<1> HIDE DEF row
<1>4. /\ runs' \in Seq(RunRow) /\ DOMAIN runs' = DOMAIN runs /\ runs'[n] = row
      /\ \A i \in DOMAIN runs \ {n} : runs'[i] = runs[i]
  BY <1>1, <1>2, <1>3
<1>5. RunsKept'
  <2>1. \A i \in DOMAIN runs' : runs'[i].status = "running" <=> runs'[i].at = 0
    BY <1>1, <1>2, <1>4 DEF RunsKept
  <2>2. \A i \in DOMAIN runs' : runs'[i].at <= Data!Latest + 1
    <3>1. \A i \in DOMAIN runs : runs[i].at \in Nat
      <4>1. \A i \in DOMAIN runs : runs[i] \in RunRow
        BY ONLY <1>1
      <4> QED
        BY <4>1 DEF RunRow
    <3>2. \A i \in DOMAIN runs : runs[i].at <= Data!Latest + 1
      BY <1>1, <3>1, LastFacts DEF LastIsLast
    <3> QED
      BY <1>1, <1>2, <1>4, <3>2
  <2> QED
    BY <1>1, <1>4, <2>1, <2>2 DEF RunsKept
<1>6. ASSUME NEW t, NEW o, o \in {"success", "failed"}, <<t, o>> # <<runs[n].source, status>>
      PROVE  Ends(t, o)' = Ends(t, o)
  <2>1. \A i \in DOMAIN runs : (runs'[i].source = t /\ runs'[i].status = o) \/
          (runs[i].source = t /\ runs[i].status = o) => i # n
    BY <1>2, <1>4, <1>6
  <2> QED
    BY <1>4, <2>1 DEF Ends
<1> QED
  BY <1>2, <1>4, <1>5, <1>6

\* A job goes on with a run that is its own, if any, and leaves the others theirs.
LEMMA JobGoesOn ==
  ASSUME JobsKept, NEW j \in Jobs, NEW new \in JobRow, job' = [job EXCEPT ![j] = new],
         new.pc # "idle" => new.batch \in Batch,
         new.pc \in {"write", "close"} =>
           /\ new.run \in DOMAIN runs'
           /\ runs'[new.run].status = "running" /\ runs'[new.run].source = new.batch.source
           /\ \A k \in Jobs \ {j} : job[k].pc \in {"write", "close"} => job[k].run # new.run,
         \A k \in Jobs \ {j} : job[k].pc \in {"write", "close"} =>
           job[k].run \in DOMAIN runs' /\ runs'[job[k].run] = runs[job[k].run]
  PROVE  JobsKept'
<1>1. /\ job' \in [Jobs -> JobRow] /\ job'[j] = new
      /\ \A k \in Jobs \ {j} : job'[k] = job[k]
  BY DEF JobsKept, JobRow
<1>2. \A k \in Jobs : job'[k].pc # "idle" => job'[k].batch \in Batch
  BY <1>1 DEF JobsKept
<1>3. \A k \in Jobs : job'[k].pc \in {"write", "close"} =>
        /\ job'[k].run \in DOMAIN runs'
        /\ runs'[job'[k].run].status = "running"
        /\ runs'[job'[k].run].source = job'[k].batch.source
  BY <1>1 DEF JobsKept
<1>4. \A k, m \in Jobs : k # m /\ {job'[k].pc, job'[m].pc} \subseteq {"write", "close"} =>
        job'[k].run # job'[m].run
  BY <1>1 DEF JobsKept
<1> QED
  BY <1>1, <1>2, <1>3, <1>4 DEF JobsKept, JobRow

LEMMA IdleJob == Data!Idle \in JobRow /\ Data!Idle.pc = "idle"
  BY DEF Data!Idle, JobRow

\* What is in the tables stays as long as a source with a success keeps one.
LEMMA RowsStay ==
  ASSUME RowsKept, UNCHANGED <<fact, cited>>,
         \A t \in Sources : Data!LastSuccess(t) > 0 => Data!LastSuccess(t)' > 0
  PROVE  RowsKept'
  BY DEF RowsKept, FactRow, Data!OneRowPerIdentity, Data!RowsHaveARun

LEMMA SameEnds ==
  ASSUME \A t, o : o \in {"success", "failed"} => Ends(t, o)' = Ends(t, o)
  PROVE  \A t : /\ Data!LastSuccess(t)' = Data!LastSuccess(t)
                /\ Data!LastFailure(t)' = Data!LastFailure(t)
<1>1. \A t, o : /\ Data!LastOf(t, o) = Data!Max({0} \cup Ends(t, o))
                /\ Data!LastOf(t, o)' = Data!Max({0} \cup Ends(t, o)')
  BY DEF Data!LastOf, Ends
<1>2. \A t, o : o \in {"success", "failed"} => Data!LastOf(t, o)' = Data!LastOf(t, o)
  BY <1>1
<1> QED
  BY <1>2 DEF Data!LastSuccess, Data!LastFailure

\* Nothing ends, and at most the report is withdrawn.
LEMMA NothingEnds ==
  ASSUME FactInv, NEW s \in Sources, RunsKept', JobsKept', UNCHANGED <<fact, cited>>,
         \A t, o : o \in {"success", "failed"} => Ends(t, o)' = Ends(t, o),
         reported' \in {reported, [reported EXCEPT ![s] = "unrecorded"]}, DOMAIN mirror' = Sources
  PROVE  FactInv'
<1> USE DEF FactInv
<1>1. RowsKept'
  BY SameEnds, RowsStay
<1>2. ShownKept'
  <2>1. \A t \in Sources : reported'[t] \in {reported[t], "unrecorded"}
    BY DEF ShownKept
  <2> QED
    BY <2>1, SameEnds DEF ShownKept, Data!FailureIsShown
<1> QED
  BY <1>1, <1>2

\* A failure is recorded, or not even that.
LEMMA FailureKeeps ==
  ASSUME FactInv, NEW s \in Sources, Data!RecordFailedRun(s), UNCHANGED <<fact, cited, mirror>>,
         UNCHANGED job \/ \E j \in Jobs : job' = [job EXCEPT ![j] = Data!Idle]
  PROVE  FactInv'
<1> USE DEF FactInv
<1>1. /\ \A k \in Jobs : job[k].pc \in {"write", "close"} =>
           job[k].run \in DOMAIN runs' /\ runs'[job[k].run] = runs[job[k].run]
      => JobsKept'
  <2> SUFFICES ASSUME \A k \in Jobs : job[k].pc \in {"write", "close"} =>
                        job[k].run \in DOMAIN runs' /\ runs'[job[k].run] = runs[job[k].run]
               PROVE  JobsKept'
    OBVIOUS
  <2>1. CASE UNCHANGED job
    BY <2>1 DEF JobsKept
  <2>2. ASSUME NEW j \in Jobs, job' = [job EXCEPT ![j] = Data!Idle] PROVE JobsKept'
    BY <2>2, IdleJob, JobGoesOn
  <2> QED
    BY <2>1, <2>2
<1>2. CASE UNCHANGED runs /\ reported' = [reported EXCEPT ![s] = "unrecorded"]
  <2>1. JobsKept' /\ RunsKept' /\ \A t, o : Ends(t, o)' = Ends(t, o)
    BY <1>1, <1>2 DEF JobsKept, RunsKept, Ends
  <2> QED
    BY <1>2, <2>1, NothingEnds
<1>3. CASE /\ runs' = Append(runs, [source |-> s, status |-> "failed", at |-> Data!Latest + 1])
           /\ reported' = [reported EXCEPT ![s] = "failed"]
  <2> DEFINE row == [source |-> s, status |-> "failed", at |-> Data!Latest + 1]
  <2>1. Data!Latest \in Nat
    BY LastFacts DEF LastIsLast
  <2>2. /\ row \in RunRow /\ row.source = s /\ row.status = "failed"
        /\ row.at = Data!Latest + 1 /\ row.at # 0 /\ row.at <= Data!Latest + 1
        /\ runs' = Append(runs, row)
    BY <1>3, <2>1 DEF RunRow
  <2> HIDE DEF row
  <2>3. /\ RunsKept' /\ Len(runs) + 1 \in DOMAIN runs' /\ runs'[Len(runs) + 1] = row
        /\ \A i \in DOMAIN runs : i # Len(runs) + 1 /\ i \in DOMAIN runs' /\ runs'[i] = runs[i]
        /\ \A t, o : <<t, o>> # <<s, "failed">> => Ends(t, o)' = Ends(t, o)
    BY <2>2, RunAdded
  <2>a. PICK n \in DOMAIN runs' : n = Len(runs) + 1 /\ runs'[n] = row
    BY <2>3
  <2>b. PICK status \in {"success", "failed"} : status = "failed"
    OBVIOUS
  <2>c. reported' = [reported EXCEPT ![s] = IF status = "failed" THEN "failed" ELSE "ok"]
    BY <1>3, <2>b
  <2>4. ShownKept' /\ \A t \in Sources : Data!LastSuccess(t) > 0 => Data!LastSuccess(t)' > 0
    <3>1. \A t, o : o \in {"success", "failed"} /\ <<t, o>> # <<s, status>> =>
            Ends(t, o)' = Ends(t, o)
      BY <2>3, <2>b
    <3>2. /\ runs'[n].source = s /\ runs'[n].status = status
          /\ runs'[n].at = Data!Latest + 1 /\ RunsKept /\ RunsKept' /\ ShownKept
      BY <2>2, <2>3, <2>a, <2>b
    <3> QED
      BY ONLY <2>c, <3>1, <3>2, EndShows, s \in Sources, status \in {"success", "failed"},
        n \in DOMAIN runs'
  <2>5. RowsKept'
    BY <2>4, RowsStay
  <2>6. JobsKept'
    BY <1>1, <2>3 DEF JobsKept
  <2> QED
    BY <2>3, <2>4, <2>5, <2>6
<1> QED
  BY <1>2, <1>3 DEF Data!RecordFailedRun

-----------------------------------------------------------------------------
(* The operations of an ingest.                                            *)

\* The job of an operation that ends no run goes on.
LEMMA JobStepKeeps ==
  ASSUME FactInv, NEW j \in Jobs, NEW new \in JobRow, job' = [job EXCEPT ![j] = new],
         new.pc # "idle" => new.batch \in Batch,
         new.pc \in {"write", "close"} =>
           job[j].pc \in {"write", "close"} /\ new.run = job[j].run /\ new.batch = job[j].batch,
         UNCHANGED <<fact, cited, runs>>, NEW s \in Sources,
         reported' \in {reported, [reported EXCEPT ![s] = "unrecorded"]}, DOMAIN mirror' = Sources
  PROVE  FactInv'
<1> USE DEF FactInv
<1>1. RunsKept' /\ \A t, o : Ends(t, o)' = Ends(t, o)
  BY DEF RunsKept, Ends
<1>2. JobsKept'
  <2>1. new.pc \in {"write", "close"} =>
           /\ new.run \in DOMAIN runs'
           /\ runs'[new.run].status = "running" /\ runs'[new.run].source = new.batch.source
           /\ \A k \in Jobs \ {j} : job[k].pc \in {"write", "close"} => job[k].run # new.run
    BY DEF JobsKept
  <2>2. \A k \in Jobs \ {j} : job[k].pc \in {"write", "close"} =>
           job[k].run \in DOMAIN runs' /\ runs'[job[k].run] = runs[job[k].run]
    BY DEF JobsKept
  <2> QED
    BY <2>1, <2>2, JobGoesOn
<1> QED
  BY <1>1, <1>2, NothingEnds

LEMMA JobTypes ==
  ASSUME FactInv, NEW j \in Jobs
  PROVE  /\ job \in [Jobs -> JobRow] /\ job[j] \in JobRow
         /\ job[j].pc # "idle" => job[j].batch \in Batch /\ job[j].batch.source \in Sources
         /\ DOMAIN mirror = Sources
  BY DEF FactInv, JobsKept, Batch

LEMMA FetchKeeps ==
  ASSUME FactInv, NEW j \in Jobs, NEW s \in Sources, Data!Fetch(j, s) \/ Data!FetchFails(j, s)
  PROVE  FactInv'
<1>1. CASE Data!Fetch(j, s)
  <2>1. PICK b \in Data!Batches(s) :
          job' = [job EXCEPT ![j] = [Data!Idle EXCEPT !.pc = "prepare", !.batch = b]]
    BY <1>1 DEF Data!Fetch
  <2>2. b \in Batch
    BY DataAssumption DEF Data!Batches, Batch
  <2> DEFINE new == [Data!Idle EXCEPT !.pc = "prepare", !.batch = b]
  <2>3. new \in JobRow /\ new.pc = "prepare" /\ new.batch = b
    BY <2>2 DEF Data!Idle, JobRow
  <2> HIDE DEF new
  <2>4. UNCHANGED <<fact, cited, runs, reported, mirror>>
    BY <1>1 DEF Data!Fetch
  <2> QED
    BY <2>1, <2>2, <2>3, <2>4, JobTypes, JobStepKeeps DEF new
<1>2. CASE Data!FetchFails(j, s)
  BY <1>2, FailureKeeps DEF Data!FetchFails
<1> QED
  BY <1>1, <1>2

\* What ends without a word in the tables: refused, copied, died.
LEMMA LeavesKeep ==
  ASSUME FactInv, NEW j \in Jobs, Data!Refuse(j) \/ Data!Mirror(j) \/ Data!Crash(j)
  PROVE  FactInv'
<1>1. /\ job[j].pc # "idle" /\ job' = [job EXCEPT ![j] = Data!Idle]
      /\ UNCHANGED <<fact, cited, runs>>
      /\ reported' \in {reported, [reported EXCEPT ![job[j].batch.source] = "unrecorded"]}
  BY DEF Data!Refuse, Data!Mirror, Data!Crash
<1>2. DOMAIN mirror' = Sources
  BY JobTypes DEF Data!Refuse, Data!Mirror, Data!Crash
<1> QED
  BY <1>1, <1>2, JobTypes, IdleJob, JobStepKeeps

LEMMA WriteFailsKeeps ==
  ASSUME FactInv, NEW j \in Jobs, Data!WriteFails(j)
  PROVE  FactInv'
<1> DEFINE new == [job[j] EXCEPT !.pc = "close"]
<1>1. /\ new \in JobRow /\ new.pc = "close" /\ new.run = job[j].run /\ new.batch = job[j].batch
      /\ job' = [job EXCEPT ![j] = new] /\ job[j].pc = "write" /\ new.batch \in Batch
      /\ new.batch.source \in Sources /\ UNCHANGED <<fact, cited, runs, reported, mirror>>
      /\ DOMAIN mirror = Sources
  BY JobTypes DEF JobRow, Data!WriteFails
<1> HIDE DEF new
<1> QED
  BY <1>1, JobStepKeeps

LEMMA LocatorKeeps ==
  ASSUME FactInv, NEW j \in Jobs, Data!LocatorRaises(j)
  PROVE  FactInv'
  BY JobTypes, FailureKeeps DEF Data!LocatorRaises

LEMMA StartKeeps ==
  ASSUME FactInv, NEW j \in Jobs, Data!StartRun(j)
  PROVE  FactInv'
<1> DEFINE b == job[j].batch
<1>1. /\ job[j].pc = "prepare" /\ b \in Batch /\ b.source \in Sources
      /\ UNCHANGED <<fact, cited, mirror>> /\ DOMAIN mirror = Sources /\ job[j] \in JobRow
  BY JobTypes DEF Data!StartRun
<1>2. CASE job' = [job EXCEPT ![j] = Data!Idle] /\ UNCHANGED runs
            /\ reported' = [reported EXCEPT ![b.source] = "unrecorded"]
  BY <1>1, <1>2, IdleJob, JobStepKeeps
<1>3. CASE /\ runs' = Append(runs, [source |-> b.source, status |-> "running", at |-> 0])
           /\ job' = [job EXCEPT ![j].pc = "write", ![j].run = Len(runs) + 1]
           /\ UNCHANGED reported
  <2> DEFINE row == [source |-> b.source, status |-> "running", at |-> 0]
             new == [job[j] EXCEPT !.pc = "write", !.run = Len(runs) + 1]
  <2>0. RunsKept /\ JobsKept /\ Data!Latest \in Nat
    BY LastFacts DEF FactInv, LastIsLast
  <2>1. /\ row \in RunRow /\ row.source = b.source /\ row.status = "running" /\ row.at = 0
        /\ row.at <= Data!Latest + 1 /\ runs' = Append(runs, row)
    BY <1>1, <1>3, <2>0 DEF RunRow
  <2>2. /\ new \in JobRow /\ new.pc = "write" /\ new.run = Len(runs) + 1 /\ new.batch = b
        /\ job' = [job EXCEPT ![j] = new]
    <3>1. Len(runs) + 1 \in Nat
      BY <2>0 DEF RunsKept
    <3> QED
      BY <1>1, <1>3, <3>1 DEF JobRow
  <2> HIDE DEF row, new, b
  <2>3. /\ RunsKept' /\ Len(runs) + 1 \in DOMAIN runs' /\ runs'[Len(runs) + 1] = row
        /\ \A i \in DOMAIN runs : i # Len(runs) + 1 /\ i \in DOMAIN runs' /\ runs'[i] = runs[i]
        /\ \A t, o : <<t, o>> # <<row.source, row.status>> => Ends(t, o)' = Ends(t, o)
    BY <2>0, <2>1, RunAdded
  <2>4. \A k \in Jobs \ {j} : job[k].pc \in {"write", "close"} =>
          /\ job[k].run # Len(runs) + 1
          /\ job[k].run \in DOMAIN runs' /\ runs'[job[k].run] = runs[job[k].run]
    BY <2>0, <2>3 DEF JobsKept
  <2>5. JobsKept'
    <3>1. JobsKept /\ (new.pc # "idle" => new.batch \in Batch)
      BY <1>1, <2>0, <2>2
    <3>2. new.pc \in {"write", "close"} =>
            /\ new.run \in DOMAIN runs'
            /\ runs'[new.run].status = "running" /\ runs'[new.run].source = new.batch.source
            /\ \A k \in Jobs \ {j} : job[k].pc \in {"write", "close"} => job[k].run # new.run
      BY <2>1, <2>2, <2>3, <2>4
    <3>3. \A k \in Jobs \ {j} : job[k].pc \in {"write", "close"} =>
            job[k].run \in DOMAIN runs' /\ runs'[job[k].run] = runs[job[k].run]
      BY <2>4
    <3>4. new \in JobRow /\ job' = [job EXCEPT ![j] = new]
      BY <2>2
    <3> QED
      BY ONLY <3>1, <3>2, <3>3, <3>4, JobGoesOn, j \in Jobs
  <2>6. \A t, o : o \in {"success", "failed"} => Ends(t, o)' = Ends(t, o)
    BY <2>1, <2>3
  <2> QED
    BY <1>1, <1>3, <2>3, <2>5, <2>6, NothingEnds
<1> QED
  BY <1>1, <1>2, <1>3 DEF Data!StartRun

\* The run of a job that commits or was left to be closed gets its end.
LEMMA RunOver ==
  ASSUME FactInv, NEW j \in Jobs, job[j].pc \in {"write", "close"},
         NEW status \in {"success", "failed"},
         runs' = [runs EXCEPT ![job[j].run] = Data!Closed(@, status)],
         reported' = [reported EXCEPT ![job[j].batch.source] =
                        IF status = "failed" THEN "failed" ELSE "ok"],
         NEW new \in JobRow, new.pc \in {"idle", "mirror"}, new.pc = "mirror" => new.batch \in Batch,
         job' = [job EXCEPT ![j] = new]
  PROVE  /\ RunsKept' /\ ShownKept' /\ JobsKept'
         /\ \A t \in Sources : Data!LastSuccess(t) > 0 => Data!LastSuccess(t)' > 0
<1> DEFINE s == job[j].batch.source
<1> USE DEF FactInv
<1>1. /\ s \in Sources /\ job[j].run \in DOMAIN runs
      /\ runs[job[j].run].status = "running" /\ runs[job[j].run].source = s
  BY JobTypes DEF JobsKept
<1>2. PICK n \in DOMAIN runs : n = job[j].run
  BY <1>1
<1>3. /\ RunsKept' /\ DOMAIN runs' = DOMAIN runs
      /\ runs'[n].source = s /\ runs'[n].status = status /\ runs'[n].at = Data!Latest + 1
      /\ \A i \in DOMAIN runs \ {n} : runs'[i] = runs[i]
      /\ \A t, o : o \in {"success", "failed"} /\ <<t, o>> # <<s, status>> =>
           Ends(t, o)' = Ends(t, o)
  <2>1. /\ RunsKept /\ runs[n].status = "running" /\ runs[n].source = s
        /\ runs' = [runs EXCEPT ![n] = Data!Closed(@, status)]
    BY <1>1, <1>2
  <2> HIDE DEF s
  <2>2. /\ RunsKept' /\ DOMAIN runs' = DOMAIN runs
        /\ runs'[n].source = runs[n].source /\ runs'[n].status = status
        /\ runs'[n].at = Data!Latest + 1
        /\ \A i \in DOMAIN runs \ {n} : runs'[i] = runs[i]
        /\ \A t, o : o \in {"success", "failed"} /\ <<t, o>> # <<runs[n].source, status>> =>
             Ends(t, o)' = Ends(t, o)
    BY ONLY <2>1, RunEnded, n \in DOMAIN runs, status \in {"success", "failed"}
  <2> QED
    BY <2>1, <2>2
<1> HIDE DEF s
<1>4. PICK m \in DOMAIN runs' : m = n
  BY <1>3
<1>5. ShownKept' /\ \A t \in Sources : Data!LastSuccess(t) > 0 => Data!LastSuccess(t)' > 0
  <2>1. /\ runs'[m].source = s /\ runs'[m].status = status /\ runs'[m].at = Data!Latest + 1
        /\ RunsKept /\ RunsKept' /\ ShownKept /\ s \in Sources
        /\ \A t, o : o \in {"success", "failed"} /\ <<t, o>> # <<s, status>> =>
             Ends(t, o)' = Ends(t, o)
        /\ reported' = [reported EXCEPT ![s] = IF status = "failed" THEN "failed" ELSE "ok"]
    BY <1>1, <1>3, <1>4 DEF s
  <2> QED
    BY ONLY <2>1, EndShows, status \in {"success", "failed"}, m \in DOMAIN runs'
<1>6. JobsKept'
  <2>1. \A k \in Jobs \ {j} : job[k].pc \in {"write", "close"} =>
          job[k].run \in DOMAIN runs' /\ runs'[job[k].run] = runs[job[k].run]
    BY <1>2, <1>3 DEF JobsKept
  <2> QED
    BY <2>1, JobGoesOn
<1> QED
  BY <1>3, <1>5, <1>6

LEMMA CloseFactsKeeps ==
  ASSUME FactInv, NEW j \in Jobs, Data!Close(j)
  PROVE  FactInv'
<1> DEFINE s == job[j].batch.source
<1>1. /\ job[j].pc = "close" /\ job' = [job EXCEPT ![j] = Data!Idle]
      /\ UNCHANGED <<fact, cited, mirror>> /\ s \in Sources /\ DOMAIN mirror = Sources
  BY JobTypes DEF Data!Close
<1>2. CASE UNCHANGED runs /\ reported' = [reported EXCEPT ![s] = "unrecorded"]
  BY <1>1, <1>2, IdleJob, JobStepKeeps
<1>3. CASE /\ runs' = [runs EXCEPT ![job[j].run] = Data!Closed(@, "failed")]
           /\ reported' = [reported EXCEPT ![s] = "failed"]
  <2>1. PICK status \in {"success", "failed"} : status = "failed"
    OBVIOUS
  <2>2. /\ RunsKept' /\ ShownKept' /\ JobsKept'
        /\ \A t \in Sources : Data!LastSuccess(t) > 0 => Data!LastSuccess(t)' > 0
    BY <1>1, <1>3, <2>1, IdleJob, RunOver
  <2>3. RowsKept'
    BY <1>1, <2>2, RowsStay DEF FactInv
  <2> QED
    BY <1>1, <2>2, <2>3 DEF FactInv
<1> QED
  BY <1>2, <1>3 DEF Data!Close

\* The transaction commits: the batch's rows, their citations and the run's success.
LEMMA CommitRows ==
  ASSUME FactInv, NEW j \in Jobs, Data!Commit(j),
         \A t \in Sources : Data!LastSuccess(t) > 0 => Data!LastSuccess(t)' > 0,
         NEW s \in Sources, s = job[j].batch.source, Data!LastSuccess(s)' > 0
  PROVE  RowsKept'
<1>0. PICK b \in Batch : b = job[j].batch
  BY JobTypes DEF Data!Commit
<1>1. /\ b.source = s /\ DOMAIN b.rows \subseteq Observations
      /\ \A o \in DOMAIN b.rows : b.rows[o] \in Amounts
  BY <1>0 DEF Batch
<1>2. /\ fact' = Data!Upsert(b)
      /\ cited' = IF b.book = "none" THEN cited ELSE Data!Cite(b)
      /\ fact \subseteq FactRow
  BY <1>0 DEF Data!Commit, FactInv, RowsKept
<1> DEFINE row(o) == [source |-> s, obs |-> o, amount |-> b.rows[o], copy |-> 1]
<1>3. ASSUME NEW o \in DOMAIN b.rows
      PROVE  [Data!Row(b, o) EXCEPT !.copy = 1] = row(o) /\ row(o) \in FactRow
  <2>1. [Data!Row(b, o) EXCEPT !.copy = 1] = row(o)
    <3>1. PICK n : Data!Row(b, o) = [source |-> s, obs |-> o, amount |-> b.rows[o], copy |-> n]
      BY <1>1 DEF Data!Row
    <3> QED
      BY <3>1
  <2>2. row(o) \in FactRow
    BY <1>1 DEF FactRow
  <2> QED
    BY <2>1, <2>2
<1> DEFINE kept == {r \in fact : \A o \in DOMAIN b.rows : ~(r.source = s /\ r.obs = o)}
           new == {row(o) : o \in DOMAIN b.rows}
<1>4. fact' = kept \cup new
  <2>1. {r \in fact : \A o \in DOMAIN b.rows : ~Data!Same(r, b, o)} = kept
    BY <1>1 DEF Data!Same
  <2>2. {[Data!Row(b, o) EXCEPT !.copy = 1] : o \in DOMAIN b.rows} = new
    <3> HIDE DEF row
    <3>1. \A o \in DOMAIN b.rows : [Data!Row(b, o) EXCEPT !.copy = 1] = row(o)
      BY <1>3
    <3> QED
      BY <3>1
  <2> QED
    BY <1>2, <2>1, <2>2 DEF Data!Upsert
<1>5. fact' \subseteq FactRow
  BY <1>2, <1>3, <1>4
<1>6. Data!OneRowPerIdentity'
  <2>1. \A q, r \in kept : q.source = r.source /\ q.obs = r.obs => q = r
    BY DEF FactInv, RowsKept, Data!OneRowPerIdentity
  <2>2. \A q, r \in new : q.source = r.source /\ q.obs = r.obs => q = r
    OBVIOUS
  <2>3. \A q \in kept, r \in new : ~(q.source = r.source /\ q.obs = r.obs)
    OBVIOUS
  <2> QED
    BY <1>4, <2>1, <2>2, <2>3 DEF Data!OneRowPerIdentity
<1>7. \A r \in fact' : Data!LastSuccess(r.source)' > 0
  <2>1. \A r \in kept : Data!LastSuccess(r.source) > 0 /\ r.source \in Sources
    BY <1>2 DEF FactInv, RowsKept, Data!RowsHaveARun, FactRow
  <2>2. \A r \in new : r.source = s
    OBVIOUS
  <2> HIDE DEF kept, new
  <2> QED
    BY <1>4, <2>1, <2>2
<1>8. \A c \in cited' : \E r \in fact' : r.source = c.source /\ r.obs = c.obs
  <2>1. \A r \in fact : \E q \in fact' : q.source = r.source /\ q.obs = r.obs
    <3>1. \A r \in fact : r \in kept \/ \E o \in DOMAIN b.rows : r.source = s /\ r.obs = o
      OBVIOUS
    <3>2. \A o \in DOMAIN b.rows :
            row(o) \in fact' /\ row(o).source = s /\ row(o).obs = o
      BY <1>4
    <3> QED
      BY <1>4, <3>1, <3>2
  <2>2. \A c \in cited : \E r \in fact : r.source = c.source /\ r.obs = c.obs
    BY DEF FactInv, RowsKept, Data!RowsHaveARun
  <2>3. \A c \in cited' : c \in cited \/ \E o \in DOMAIN b.rows :
          c = [source |-> s, obs |-> o, book |-> b.book]
    BY <1>1, <1>2 DEF Data!Cite
  <2>4. \A o \in DOMAIN b.rows : \E q \in fact' : q.source = s /\ q.obs = o
    <3>1. \A o \in DOMAIN b.rows : row(o) \in fact' /\ row(o).source = s /\ row(o).obs = o
      BY <1>4
    <3> QED
      BY <3>1
  <2> QED
    BY <2>1, <2>2, <2>3, <2>4
<1> QED
  BY <1>5, <1>6, <1>7, <1>8 DEF RowsKept, FactRow, Data!RowsHaveARun

LEMMA CommitKeeps ==
  ASSUME FactInv, NEW j \in Jobs, Data!Commit(j)
  PROVE  FactInv'
<1> DEFINE new == [job[j] EXCEPT !.pc = "mirror"]
<1>1. PICK status \in {"success", "failed"} : status = "success"
  OBVIOUS
<1>2. /\ new \in JobRow /\ new.pc = "mirror" /\ new.batch = job[j].batch /\ new.batch \in Batch
      /\ job' = [job EXCEPT ![j] = new] /\ job[j].pc = "write" /\ job[j].batch.source \in Sources
      /\ UNCHANGED mirror /\ DOMAIN mirror = Sources
  BY JobTypes DEF Data!Commit, JobRow
<1>3. /\ runs' = [runs EXCEPT ![job[j].run] = Data!Closed(@, status)]
      /\ reported' = [reported EXCEPT ![job[j].batch.source] =
                        IF status = "failed" THEN "failed" ELSE "ok"]
  BY <1>1 DEF Data!Commit
<1> HIDE DEF new
<1>4. /\ RunsKept' /\ ShownKept' /\ JobsKept'
      /\ \A t \in Sources : Data!LastSuccess(t) > 0 => Data!LastSuccess(t)' > 0
  BY ONLY <1>2, <1>3, RunOver, FactInv, j \in Jobs, status \in {"success", "failed"}
<1>a. PICK s \in Sources : s = job[j].batch.source
  BY <1>2
<1>5. Data!LastSuccess(s)' > 0
  <2>1. reported'[s] = "ok"
    BY <1>a DEF Data!Commit, FactInv, ShownKept
  <2>2. Data!LastSuccess(s)' > Data!LastFailure(s)'
    BY <1>4, <2>1 DEF ShownKept, Data!FailureIsShown
  <2>3. Data!LastSuccess(s)' \in Nat /\ Data!LastFailure(s)' \in Nat
    BY <1>4, LastFactsNext DEF LastIsLast, Data!LastSuccess, Data!LastFailure
  <2> QED
    BY <2>2, <2>3
<1>6. RowsKept'
  BY <1>4, <1>a, <1>5, CommitRows
<1> QED
  BY <1>2, <1>4, <1>6 DEF FactInv

-----------------------------------------------------------------------------
LEMMA FactsStart == Data!DataInit => FactInv
<1> SUFFICES ASSUME Data!DataInit PROVE FactInv
  OBVIOUS
<1>1. /\ fact = {} /\ cited = {} /\ runs = <<>> /\ job = [j \in Jobs |-> Data!Idle]
      /\ DOMAIN mirror = Sources /\ reported = [s \in Sources |-> "none"]
  BY DEF Data!DataInit, Data!Init
<1>2. RunsKept
  BY <1>1 DEF RunsKept
<1>3. JobsKept
  BY <1>1, IdleJob DEF JobsKept
<1>4. RowsKept
  BY <1>1 DEF RowsKept, Data!OneRowPerIdentity, Data!RowsHaveARun
<1>5. ShownKept
  BY <1>1 DEF ShownKept, Data!FailureIsShown
<1> QED
  BY <1>1, <1>2, <1>3, <1>4, <1>5 DEF FactInv

LEMMA FactsStay == FactInv /\ UNCHANGED Data!vars => FactInv'
<1> SUFFICES ASSUME FactInv, UNCHANGED Data!vars PROVE FactInv'
  OBVIOUS
<1>1. UNCHANGED <<fact, cited, runs, job, reported, mirror>>
  BY DEF Data!vars
<1> QED
  BY <1>1 DEF FactInv, RunsKept, JobsKept, RowsKept, ShownKept, Data!OneRowPerIdentity,
    Data!RowsHaveARun, Data!FailureIsShown, Data!LastSuccess, Data!LastFailure, Data!LastOf

LEMMA FactsNext == FactInv /\ Data!Next => FactInv'
<1> SUFFICES ASSUME FactInv, Data!Next PROVE FactInv'
  OBVIOUS
<1>1. PICK j \in Jobs :
        \/ \E s \in Sources : Data!Fetch(j, s) \/ Data!FetchFails(j, s)
        \/ Data!Refuse(j) \/ Data!StartRun(j) \/ Data!Commit(j) \/ Data!WriteFails(j)
        \/ Data!Close(j) \/ Data!LocatorRaises(j) \/ Data!Mirror(j) \/ Data!Crash(j)
  BY DEF Data!Next
<1>2. CASE \E s \in Sources : Data!Fetch(j, s) \/ Data!FetchFails(j, s)
  BY <1>2, FetchKeeps
<1>3. CASE Data!Refuse(j) \/ Data!Mirror(j) \/ Data!Crash(j)
  BY <1>3, LeavesKeep
<1>4. CASE Data!StartRun(j)
  BY <1>4, StartKeeps
<1>5. CASE Data!Commit(j)
  BY <1>5, CommitKeeps
<1>6. CASE Data!WriteFails(j)
  BY <1>6, WriteFailsKeeps
<1>7. CASE Data!Close(j)
  BY <1>7, CloseFactsKeeps
<1>8. CASE Data!LocatorRaises(j)
  BY <1>8, LocatorKeeps
<1> QED
  BY <1>1, <1>2, <1>3, <1>4, <1>5, <1>6, <1>7, <1>8

LEMMA FactsHold ==
  FactInv => /\ Data!TypeOK /\ Data!OneRowPerIdentity
             /\ Data!RowsHaveARun /\ Data!FailureIsShown
<1> SUFFICES ASSUME FactInv
             PROVE  /\ Data!TypeOK /\ Data!OneRowPerIdentity
                    /\ Data!RowsHaveARun /\ Data!FailureIsShown
  OBVIOUS
<1>1. fact \subseteq [source : Sources, obs : Observations, amount : Amounts,
                      copy : 1..(MaxAttempts + 1)]
  BY DataAssumption DEF FactInv, RowsKept, FactRow
<1>2. \A i \in DOMAIN runs :
        /\ runs[i].status \in {"running", "success", "failed"}
        /\ runs[i].status = "running" <=> runs[i].at = 0
  <2>1. runs \in Seq(RunRow)
    BY DEF FactInv, RunsKept
  <2>2. \A i \in DOMAIN runs : runs[i] \in RunRow
    BY ONLY <2>1
  <2> QED
    BY <2>2 DEF FactInv, RunsKept, RunRow
<1>3. Data!TypeOK
  BY <1>1, <1>2 DEF FactInv, JobsKept, Data!TypeOK
<1> QED
  BY <1>3 DEF FactInv, RowsKept, ShownKept

\* Only the job that copies a batch writes a file, and it is of the batch's source.
LEMMA OthersKept ==
  ASSUME FactInv, Data!Next
  PROVE  \A s \in Sources : mirror'[s] # mirror[s] =>
           \E j \in Jobs : job[j].pc = "mirror" /\ job[j].batch.source = s /\ job'[j] = Data!Idle
<1> SUFFICES ASSUME NEW s \in Sources, mirror'[s] # mirror[s]
             PROVE  \E j \in Jobs : /\ job[j].pc = "mirror" /\ job[j].batch.source = s
                                    /\ job'[j] = Data!Idle
  OBVIOUS
<1>1. PICK j \in Jobs : Data!Mirror(j)
  BY DEF Data!Next, Data!Fetch, Data!FetchFails, Data!Refuse, Data!StartRun, Data!Commit,
    Data!WriteFails, Data!Close, Data!LocatorRaises, Data!Crash
<1>2. job[j].pc = "mirror" /\ job' = [job EXCEPT ![j] = Data!Idle] /\ j \in DOMAIN job
  BY <1>1, JobTypes DEF Data!Mirror
<1>3. job[j].batch.source = s
  BY <1>1, JobTypes DEF Data!Mirror
<1> QED
  BY <1>2, <1>3

\* A load reads the facts and writes the graph only.
LEMMA LoadLeavesFacts == FactInv /\ Data!Load => FactInv'
<1> SUFFICES ASSUME FactInv, Data!Load PROVE FactInv'
  OBVIOUS
<1>1. UNCHANGED <<fact, cited, runs, job, reported, mirror>>
  BY DEF Data!Load, Data!vars
<1> QED
  BY <1>1 DEF FactInv, RunsKept, JobsKept, RowsKept, ShownKept, Data!OneRowPerIdentity,
    Data!RowsHaveARun, Data!FailureIsShown, Data!LastSuccess, Data!LastFailure, Data!LastOf

-----------------------------------------------------------------------------
(* The graph.                                                              *)

FlowRec == [obs : Observations, amount : Amounts]
LoadRow ==
  [pc : {"idle", "writing", "done"}, at : 1..11, parts : SUBSET Data!Parts,
   rows : SUBSET FlowRec, left : SUBSET FlowRec]
Edge(r) == <<ItemOf[r.obs], PartnerOf[r.obs]>>
Supported == <<"COVERED_BY", Data!Heading, Data!Agreement>>
Describes == <<"DESCRIBES", Data!Document, Data!Agreement>>
Issued == <<"ISSUED_BY", Data!Document, Data!Country(Data!IssuedBy)>>
OneCode(i) == Cardinality({o \in Observations : ItemOf[o] = i}) = 1

\* An observation in the facts that the graph is built from.
Projected(o) == \E r \in fact : r.source = FlowSource /\ r.obs = o /\ PartnerOf[o] # Data!World

\* What a load has read has a row, and an edge came of one.
RowsRead ==
  /\ load \in LoadRow /\ load.left \subseteq load.rows
  /\ \A q, r \in load.rows : q.obs = r.obs => q = r
  /\ \A r \in load.rows : Projected(r.obs)
  /\ \A k \in DOMAIN flows : \E o \in Observations : Projected(o) /\ k = <<ItemOf[o], PartnerOf[o]>>

\* What a load has written by the time it is at a write.
NodesBuilt ==
  /\ load.at > 1 /\ "agreements" \in load.parts => Data!Agreement \in nodes
  /\ load.at > 3 /\ "agriculture" \in load.parts => Data!Heading \in nodes
  /\ load.at > 5 /\ "flows" \in load.parts =>
       \A r \in load.rows : Data!Country(PartnerOf[r.obs]) \in nodes
  /\ load.at > 6 /\ "flows" \in load.parts =>
       \A r \in load.rows : Data!Item(ItemOf[r.obs]) \in nodes
  /\ load.at > 8 /\ "policy" \in load.parts => Data!Document \in nodes
EdgesBuilt ==
  /\ load.at > 4 /\ {"agreements", "agriculture"} \subseteq load.parts => Supported \in edges
  /\ load.at > 9 /\ {"policy", "flows"} \subseteq load.parts =>
       ((\E r \in load.rows : PartnerOf[r.obs] = Data!IssuedBy) => Issued \in edges)
  /\ load.at > 10 /\ {"policy", "agreements"} \subseteq load.parts => Describes \in edges
FlowsBuilt ==
  /\ load.at <= 6 => load.left = load.rows
  /\ load.at > 7 /\ "flows" \in load.parts => load.left = {}
  /\ load.at >= 7 /\ "flows" \in load.parts => \A r \in load.rows \ load.left :
       /\ Edge(r) \in DOMAIN flows
       /\ OneCode(ItemOf[r.obs]) => flows[Edge(r)] = r.amount
  /\ load.pc = "done" => load.at = 11

GraphInv == RowsRead /\ NodesBuilt /\ EdgesBuilt /\ FlowsBuilt

-----------------------------------------------------------------------------
\* The writes, in their order.
LEMMA WritesAre ==
  /\ Len(Data!Writes) = 10
  /\ Data!Writes[1] = "agreements" /\ Data!Writes[2] = "coverage"
  /\ Data!Writes[3] = "commodities" /\ Data!Writes[4] = "supported"
  /\ Data!Writes[5] = "countries" /\ Data!Writes[6] = "items" /\ Data!Writes[7] = "flows"
  /\ Data!Writes[8] = "documents" /\ Data!Writes[9] = "issued" /\ Data!Writes[10] = "describes"
  BY DEF Data!Writes

\* What each is part of.
PartAt(n) ==
  CASE n \in {1, 2} -> "agreements" [] n \in {3, 4} -> "agriculture" [] n \in {5, 6, 7} -> "flows"
    [] OTHER -> "policy"

LEMMA PartsAre == \A n \in 1..10 : Data!PartOf[Data!Writes[n]] = PartAt(n)
<1> SUFFICES ASSUME NEW n \in 1..10 PROVE Data!PartOf[Data!Writes[n]] = PartAt(n)
  OBVIOUS
<1>1. n \in {1, 2, 3, 4, 5, 6, 7, 8, 9, 10}
  OBVIOUS
<1> QED
  BY <1>1, WritesAre DEF Data!PartOf, PartAt

\* One code for an item: one observation.
LEMMA OneObservation ==
  ASSUME NEW o \in Observations, NEW p \in Observations, ItemOf[o] = ItemOf[p], OneCode(ItemOf[o])
  PROVE  o = p
<1> DEFINE S == {q \in Observations : ItemOf[q] = ItemOf[o]}
<1>1. IsFiniteSet(S) /\ Cardinality(S) = 1
  BY DataAssumption, FS_Subset DEF OneCode
<1>2. \E x : S = {x}
  BY ONLY <1>1, FS_Singleton
<1> QED
  BY <1>2

LEMMA GraphStart == Data!DataInit => GraphInv
<1> SUFFICES ASSUME Data!DataInit PROVE GraphInv
  OBVIOUS
<1>1. load = Data!NotLoading /\ flows = <<>>
  BY DEF Data!DataInit, Data!GraphInit
<1>2. Data!NotLoading \in LoadRow
  BY DEF Data!NotLoading, LoadRow
<1> QED
  BY <1>1, <1>2
     DEF GraphInv, RowsRead, NodesBuilt, EdgesBuilt, FlowsBuilt, Data!NotLoading

\* A load begins again, having read nothing.
LEMMA NewLoadKeeps ==
  ASSUME GraphInv, UNCHANGED <<fact, flows>>, NEW parts \in SUBSET Data!Parts,
         NEW step \in {"idle", "writing"},
         load' = [pc |-> step, at |-> 1, parts |-> parts, rows |-> {}, left |-> {}]
  PROVE  GraphInv'
<1>1. /\ load' \in LoadRow /\ load'.at = 1 /\ load'.rows = {} /\ load'.left = {}
      /\ load'.pc = step
  BY DEF LoadRow
<1>2. RowsRead'
  BY <1>1 DEF GraphInv, RowsRead, Projected
<1> QED
  BY <1>1, <1>2 DEF GraphInv, NodesBuilt, EdgesBuilt, FlowsBuilt

\* Rows come to the facts, and the graph rests.
LEMMA GraphRests ==
  ASSUME GraphInv, UNCHANGED <<nodes, edges, flows, load>>,
         \A r \in fact : \E q \in fact' : q.source = r.source /\ q.obs = r.obs
  PROVE  GraphInv'
<1>1. \A o : Projected(o) => Projected(o)'
  BY DEF Projected
<1>2. RowsRead'
  BY <1>1 DEF GraphInv, RowsRead
<1> QED
  BY <1>2 DEF GraphInv, NodesBuilt, EdgesBuilt, FlowsBuilt, Edge, OneCode

\* A write is done, or is not asked for.
LEMMA NextWriteKeeps ==
  ASSUME GraphInv, UNCHANGED <<fact, flows>>, load.at \in 1..10, load.pc = "writing",
         load' = [load EXCEPT !.at = @ + 1], nodes \subseteq nodes', edges \subseteq edges',
         PartAt(load.at) \in load.parts =>
           /\ load.at = 1 => Data!Agreement \in nodes'
           /\ load.at = 3 => Data!Heading \in nodes'
           /\ load.at = 4 => ({Data!Heading, Data!Agreement} \subseteq nodes => Supported \in edges')
           /\ load.at = 5 => \A r \in load.rows : Data!Country(PartnerOf[r.obs]) \in nodes'
           /\ load.at = 6 => \A r \in load.rows : Data!Item(ItemOf[r.obs]) \in nodes'
           /\ load.at = 7 => load.left = {}
           /\ load.at = 8 => Data!Document \in nodes'
           /\ load.at = 9 => ({Data!Document, Data!Country(Data!IssuedBy)} \subseteq nodes =>
                                Issued \in edges')
           /\ load.at = 10 => ({Data!Document, Data!Agreement} \subseteq nodes =>
                                 Describes \in edges')
  PROVE  GraphInv'
<1> USE DEF GraphInv
<1>1. /\ load \in LoadRow /\ load' \in LoadRow /\ load'.at = load.at + 1 /\ load.at \in Int
      /\ load'.pc = "writing" /\ load'.parts = load.parts /\ load'.rows = load.rows
      /\ load'.left = load.left
  BY DEF RowsRead, LoadRow
<1>2. \A o : Projected(o)' <=> Projected(o)
  BY DEF Projected
<1>3. RowsRead'
  BY <1>1, <1>2 DEF RowsRead
<1>4. /\ load.at \in {1, 2} => PartAt(load.at) = "agreements"
      /\ load.at \in {3, 4} => PartAt(load.at) = "agriculture"
      /\ load.at \in {5, 6, 7} => PartAt(load.at) = "flows"
      /\ load.at \in {8, 9, 10} => PartAt(load.at) = "policy"
  BY DEF PartAt
<1>5. NodesBuilt'
  <2>1. load'.at > 1 /\ "agreements" \in load'.parts => Data!Agreement \in nodes'
    BY <1>1, <1>4 DEF NodesBuilt
  <2>2. load'.at > 3 /\ "agriculture" \in load'.parts => Data!Heading \in nodes'
    BY <1>1, <1>4 DEF NodesBuilt
  <2>3. load'.at > 5 /\ "flows" \in load'.parts =>
          \A r \in load'.rows : Data!Country(PartnerOf[r.obs]) \in nodes'
    BY <1>1, <1>4 DEF NodesBuilt
  <2>4. load'.at > 6 /\ "flows" \in load'.parts =>
          \A r \in load'.rows : Data!Item(ItemOf[r.obs]) \in nodes'
    BY <1>1, <1>4 DEF NodesBuilt
  <2>5. load'.at > 8 /\ "policy" \in load'.parts => Data!Document \in nodes'
    BY <1>1, <1>4 DEF NodesBuilt
  <2> QED
    BY <2>1, <2>2, <2>3, <2>4, <2>5 DEF NodesBuilt
<1>6. EdgesBuilt'
  <2>1. load'.at > 4 /\ {"agreements", "agriculture"} \subseteq load'.parts => Supported \in edges'
    BY <1>1, <1>4 DEF NodesBuilt, EdgesBuilt
  <2>2. load'.at > 9 /\ {"policy", "flows"} \subseteq load'.parts =>
          ((\E r \in load'.rows : PartnerOf[r.obs] = Data!IssuedBy) => Issued \in edges')
    BY <1>1, <1>4 DEF NodesBuilt, EdgesBuilt
  <2>3. load'.at > 10 /\ {"policy", "agreements"} \subseteq load'.parts => Describes \in edges'
    BY <1>1, <1>4 DEF NodesBuilt, EdgesBuilt
  <2> QED
    BY <2>1, <2>2, <2>3 DEF EdgesBuilt, Supported, Describes, Issued
<1>7. FlowsBuilt'
  <2>1. load'.at <= 6 => load'.left = load'.rows
    BY <1>1 DEF FlowsBuilt
  <2>2. load'.at > 7 /\ "flows" \in load'.parts => load'.left = {}
    BY <1>1, <1>4 DEF FlowsBuilt
  <2>3. load'.at >= 7 /\ "flows" \in load'.parts => \A r \in load'.rows \ load'.left :
          /\ Edge(r) \in DOMAIN flows
          /\ OneCode(ItemOf[r.obs]) => flows[Edge(r)] = r.amount
    <3>1. CASE load.at = 6
      BY <1>1, <3>1 DEF FlowsBuilt
    <3>2. CASE load.at # 6
      BY <1>1, <3>2 DEF FlowsBuilt
    <3> QED
      BY <3>1, <3>2
  <2> QED
    BY <1>1, <2>1, <2>2, <2>3 DEF FlowsBuilt, Edge, OneCode
<1> QED
  BY <1>3, <1>5, <1>6, <1>7

LEMMA Position ==
  ASSUME GraphInv, Data!Loading
  PROVE  /\ load.at \in 1..10 /\ load.pc = "writing" /\ load \in LoadRow
         /\ Data!PartOf[Data!Current] = PartAt(load.at)
         /\ Data!Current = Data!Writes[load.at]
  BY WritesAre, PartsAre DEF GraphInv, RowsRead, LoadRow, Data!Loading, Data!Current

LEMMA SkipKeeps ==
  ASSUME GraphInv, Data!Skip, UNCHANGED fact
  PROVE  GraphInv'
<1>1. /\ Data!Loading /\ Data!PartOf[Data!Current] \notin load.parts
      /\ load' = [load EXCEPT !.at = @ + 1] /\ UNCHANGED <<nodes, edges, flows>>
  BY DEF Data!Skip
<1>2. /\ load.at \in 1..10 /\ load.pc = "writing" /\ PartAt(load.at) \notin load.parts
  BY <1>1, Position
<1> QED
  BY <1>1, <1>2, NextWriteKeeps

LEMMA WriteStepKeeps ==
  ASSUME GraphInv, Data!WriteStep, UNCHANGED fact
  PROVE  GraphInv'
<1>1. /\ Data!Loading /\ Data!Current # "flows" /\ Data!Write(Data!Current)
      /\ load' = [load EXCEPT !.at = @ + 1] /\ UNCHANGED flows
  BY DEF Data!WriteStep
<1>2. /\ load.at \in 1..10 /\ load.pc = "writing" /\ Data!Current = Data!Writes[load.at]
  BY <1>1, Position
<1> USE DEF Data!Write, Data!MergeNodes, Data!MergeEdge, Data!MatchEdge, Data!Present
<1>3. nodes \subseteq nodes' /\ edges \subseteq edges'
  BY <1>1
<1>4. load.at = 1 => Data!Agreement \in nodes'
  BY <1>1, <1>2, WritesAre
<1>5. load.at = 3 => Data!Heading \in nodes'
  BY <1>1, <1>2, WritesAre
<1>6. load.at = 4 => ({Data!Heading, Data!Agreement} \subseteq nodes => Supported \in edges')
  BY <1>1, <1>2, WritesAre DEF Supported
<1>7. load.at = 5 => \A r \in load.rows : Data!Country(PartnerOf[r.obs]) \in nodes'
  BY <1>1, <1>2, WritesAre
<1>8. load.at = 6 => \A r \in load.rows : Data!Item(ItemOf[r.obs]) \in nodes'
  BY <1>1, <1>2, WritesAre
<1>9. load.at # 7
  BY <1>1, <1>2, WritesAre
<1>10. load.at = 8 => Data!Document \in nodes'
  BY <1>1, <1>2, WritesAre
<1>11. load.at = 9 => ({Data!Document, Data!Country(Data!IssuedBy)} \subseteq nodes =>
                        Issued \in edges')
  BY <1>1, <1>2, WritesAre DEF Issued
<1>12. load.at = 10 => ({Data!Document, Data!Agreement} \subseteq nodes => Describes \in edges')
  BY <1>1, <1>2, WritesAre DEF Describes
<1> QED
  BY <1>1, <1>2, <1>3, <1>4, <1>5, <1>6, <1>7, <1>8, <1>9, <1>10, <1>11, <1>12, NextWriteKeeps

\* The facts are read: one row of each observation, as they are now.
LEMMA ReadFlowsKeeps ==
  ASSUME GraphInv, FactInv, Data!ReadFlows, UNCHANGED fact
  PROVE  GraphInv'
<1> USE DEF GraphInv
<1>1. /\ Data!Loading /\ Data!Current = "countries" /\ "flows" \in load.parts /\ load.rows = {}
      /\ load' = IF Data!FlowRows = {} THEN [load EXCEPT !.at = @ + 3]
                 ELSE [load EXCEPT !.rows = Data!FlowRows, !.left = Data!FlowRows]
      /\ UNCHANGED <<nodes, edges, flows>>
  BY DEF Data!ReadFlows
<1>2. load.at = 5 /\ load.pc = "writing" /\ load \in LoadRow
  <2>1. load.at \in 1..10 /\ load.pc = "writing" /\ load \in LoadRow
        /\ Data!Writes[load.at] = "countries"
    BY <1>1, Position
  <2>2. load.at \in {1, 2, 3, 4, 5, 6, 7, 8, 9, 10}
    BY <2>1
  <2> QED
    BY <2>1, <2>2, WritesAre
<1>3. /\ Data!FlowRows \subseteq FlowRec
      /\ \A q, r \in Data!FlowRows : q.obs = r.obs => q = r
      /\ \A r \in Data!FlowRows : Projected(r.obs)
  <2>1. /\ fact \subseteq FactRow
        /\ \A q, r \in fact : q.source = r.source /\ q.obs = r.obs => q = r
    BY DEF FactInv, RowsKept, Data!OneRowPerIdentity
  <2>2. ASSUME NEW r \in Data!FlowRows
        PROVE  \E q \in fact : /\ q.source = FlowSource /\ PartnerOf[q.obs] # Data!World
                               /\ r = [obs |-> q.obs, amount |-> q.amount]
    BY DEF Data!FlowRows
  <2>3. Data!FlowRows \subseteq FlowRec
    BY <2>1, <2>2 DEF FlowRec, FactRow
  <2>4. \A r \in Data!FlowRows : Projected(r.obs)
    BY <2>2 DEF Projected
  <2>5. ASSUME NEW q \in Data!FlowRows, NEW r \in Data!FlowRows, q.obs = r.obs PROVE q = r
    <3>1. PICK a \in fact : a.source = FlowSource /\ q = [obs |-> a.obs, amount |-> a.amount]
      BY <2>2
    <3>2. PICK b \in fact : b.source = FlowSource /\ r = [obs |-> b.obs, amount |-> b.amount]
      BY <2>2
    <3>3. a.obs = b.obs
      BY <2>5, <3>1, <3>2
    <3>4. a = b
      BY <2>1, <3>1, <3>2, <3>3
    <3> QED
      BY <3>1, <3>2, <3>4
  <2> QED
    BY <2>3, <2>4, <2>5
<1>4. \A o : Projected(o)' <=> Projected(o)
  BY DEF Projected
<1>5. CASE Data!FlowRows = {}
  <2>1. /\ load' \in LoadRow /\ load'.at = 8 /\ load'.rows = {} /\ load'.left = {}
        /\ load'.pc = "writing" /\ load'.parts = load.parts
    BY <1>1, <1>2, <1>5 DEF RowsRead, LoadRow
  <2>2. RowsRead'
    BY <1>1, <1>4, <2>1 DEF RowsRead
  <2>3. NodesBuilt' /\ EdgesBuilt' /\ FlowsBuilt'
    BY <1>1, <1>2, <2>1 DEF NodesBuilt, EdgesBuilt, FlowsBuilt, Supported, Describes, Issued
  <2> QED
    BY <2>2, <2>3
<1>6. CASE Data!FlowRows # {}
  <2>1. /\ load' \in LoadRow /\ load'.at = 5 /\ load'.rows = Data!FlowRows
        /\ load'.left = Data!FlowRows /\ load'.pc = "writing" /\ load'.parts = load.parts
    BY <1>1, <1>2, <1>3, <1>6 DEF LoadRow
  <2> HIDE DEF GraphInv
  <2>2. RowsRead'
    BY <1>1, <1>3, <1>4, <2>1 DEF GraphInv, RowsRead
  <2>3. NodesBuilt' /\ EdgesBuilt' /\ FlowsBuilt'
    BY <1>1, <1>2, <2>1
       DEF GraphInv, NodesBuilt, EdgesBuilt, FlowsBuilt, Supported, Describes, Issued
  <2> QED
    BY <2>2, <2>3 DEF GraphInv
<1> QED
  BY <1>5, <1>6

\* A batch of edges is written, over the ends that are there: the row's value is the edge's,
\* and no other row of an item of one code has that edge.
LEMMA FlowKeeps ==
  ASSUME GraphInv, UNCHANGED <<fact, nodes, edges>>, load.at = 7, load.pc = "writing",
         "flows" \in load.parts, NEW r \in load.left, flows' = Data!FlowWritten(r),
         load' = [load EXCEPT !.left = @ \ {r}]
  PROVE  GraphInv'
<1> USE DEF GraphInv
<1>1. /\ load \in LoadRow /\ load' \in LoadRow /\ load'.at = 7 /\ load'.pc = "writing"
      /\ load'.parts = load.parts /\ load'.rows = load.rows /\ load'.left = load.left \ {r}
      /\ r \in load.rows /\ load.rows \subseteq FlowRec
  BY DEF RowsRead, LoadRow
<1>2. {Data!Item(ItemOf[r.obs]), Data!Country(PartnerOf[r.obs])} \subseteq nodes
  BY <1>1 DEF NodesBuilt
<1>3. flows' = [k \in DOMAIN flows \cup {Edge(r)} |-> IF k = Edge(r) THEN r.amount ELSE flows[k]]
  BY <1>2 DEF Data!FlowWritten, Edge
<1>4. /\ DOMAIN flows' = DOMAIN flows \cup {Edge(r)} /\ flows'[Edge(r)] = r.amount
      /\ \A k \in DOMAIN flows \ {Edge(r)} : flows'[k] = flows[k]
  BY <1>3
<1>5. \A o : Projected(o)' <=> Projected(o)
  BY DEF Projected
<1>6. RowsRead'
  <2>1. r.obs \in Observations /\ Projected(r.obs) /\ Edge(r) = <<ItemOf[r.obs], PartnerOf[r.obs]>>
    BY <1>1 DEF RowsRead, FlowRec, Edge
  <2>2. \A k \in DOMAIN flows' : \E o \in Observations :
          Projected(o)' /\ k = <<ItemOf[o], PartnerOf[o]>>
    BY <1>4, <1>5, <2>1 DEF RowsRead
  <2> QED
    BY <1>1, <1>5, <2>2 DEF RowsRead
<1>7. NodesBuilt' /\ EdgesBuilt'
  BY <1>1 DEF NodesBuilt, EdgesBuilt, Supported, Describes, Issued
<1>8. \A q \in load'.rows \ load'.left :
        /\ Edge(q) \in DOMAIN flows'
        /\ OneCode(ItemOf[q.obs]) => flows'[Edge(q)] = q.amount
  <2> SUFFICES ASSUME NEW q \in load.rows, q \notin load.left \/ q = r
               PROVE  /\ Edge(q) \in DOMAIN flows'
                      /\ OneCode(ItemOf[q.obs]) => flows'[Edge(q)] = q.amount
    BY <1>1
  <2>1. CASE q = r
    BY <1>4, <2>1
  <2>2. CASE q # r
    <3>1. /\ Edge(q) \in DOMAIN flows
          /\ OneCode(ItemOf[q.obs]) => flows[Edge(q)] = q.amount
      BY <1>1, <2>2 DEF FlowsBuilt
    <3>2. OneCode(ItemOf[q.obs]) => Edge(q) # Edge(r)
      <4> SUFFICES ASSUME OneCode(ItemOf[q.obs]), Edge(q) = Edge(r) PROVE FALSE
        OBVIOUS
      <4>1. ItemOf[q.obs] = ItemOf[r.obs] /\ q.obs \in Observations /\ r.obs \in Observations
        BY <1>1 DEF Edge, FlowRec
      <4>2. q.obs = r.obs
        BY <4>1, OneObservation
      <4> QED
        BY <1>1, <2>2, <4>2 DEF RowsRead
    <3> QED
      BY <1>4, <3>1, <3>2
  <2> QED
    BY <2>1, <2>2
<1>9. FlowsBuilt'
  BY <1>1, <1>8 DEF FlowsBuilt, Edge, OneCode
<1> QED
  BY <1>6, <1>7, <1>9

LEMMA WriteFlowsKeeps ==
  ASSUME GraphInv, Data!WriteFlows, UNCHANGED fact
  PROVE  GraphInv'
<1>1. /\ Data!Loading /\ Data!Current = "flows" /\ "flows" \in load.parts
      /\ UNCHANGED <<nodes, edges>>
  BY DEF Data!WriteFlows
<1>2. load.at = 7 /\ load.pc = "writing"
  <2>1. load.at \in 1..10 /\ load.pc = "writing" /\ Data!Writes[load.at] = "flows"
    BY <1>1, Position
  <2>2. load.at \in {1, 2, 3, 4, 5, 6, 7, 8, 9, 10}
    BY <2>1
  <2> QED
    BY <2>1, <2>2, WritesAre
<1>3. ASSUME NEW r \in load.left, flows' = Data!FlowWritten(r),
             load' = [load EXCEPT !.left = @ \ {r}]
      PROVE  GraphInv'
  BY <1>1, <1>2, <1>3, FlowKeeps
<1>4. CASE load.left = {} /\ load' = [load EXCEPT !.at = @ + 1] /\ UNCHANGED flows
  BY <1>1, <1>2, <1>4, NextWriteKeeps
<1> QED
  BY <1>3, <1>4 DEF Data!WriteFlows

LEMMA LoadEndsKeeps ==
  ASSUME GraphInv, Data!LoadEnds, UNCHANGED fact
  PROVE  GraphInv'
<1> USE DEF GraphInv
<1>1. /\ load.pc = "writing" /\ load.at = 11 /\ load' = [load EXCEPT !.pc = "done"]
      /\ UNCHANGED <<nodes, edges, flows>>
  BY WritesAre DEF Data!LoadEnds
<1>2. /\ load' \in LoadRow /\ load'.at = 11 /\ load'.pc = "done" /\ load'.parts = load.parts
      /\ load'.rows = load.rows /\ load'.left = load.left
  BY <1>1 DEF RowsRead, LoadRow
<1>3. RowsRead'
  BY <1>1, <1>2 DEF RowsRead, Projected
<1> QED
  BY <1>1, <1>2, <1>3
     DEF NodesBuilt, EdgesBuilt, FlowsBuilt, Supported, Describes, Issued, Edge, OneCode

LEMMA LoadKeeps ==
  ASSUME GraphInv, FactInv, Data!Load
  PROVE  GraphInv'
<1>1. UNCHANGED fact
  BY DEF Data!Load, Data!vars
<1>2. CASE Data!StartLoad
  <2>1. PICK parts \in LoadOptions :
          load' = [Data!NotLoading EXCEPT !.pc = "writing", !.parts = parts]
    BY <1>2 DEF Data!StartLoad
  <2>2. PICK step \in {"idle", "writing"} : step = "writing"
    OBVIOUS
  <2>3. /\ load' = [pc |-> step, at |-> 1, parts |-> parts, rows |-> {}, left |-> {}]
        /\ parts \in SUBSET Data!Parts /\ UNCHANGED flows
    BY <1>2, <2>1, <2>2, DataAssumption DEF Data!NotLoading, Data!StartLoad
  <2> QED
    BY <1>1, <2>3, NewLoadKeeps
<1>3. CASE Data!LoadFails
  <2>1. PICK step \in {"idle", "writing"} : step = "idle"
    OBVIOUS
  <2>2. PICK parts \in SUBSET Data!Parts : parts = {}
    OBVIOUS
  <2>3. /\ load' = [pc |-> step, at |-> 1, parts |-> parts, rows |-> {}, left |-> {}]
        /\ UNCHANGED flows
    BY <1>3, <2>1, <2>2 DEF Data!NotLoading, Data!LoadFails
  <2> QED
    BY <1>1, <2>3, NewLoadKeeps
<1> QED
  BY <1>1, <1>2, <1>3, SkipKeeps, ReadFlowsKeeps, WriteStepKeeps, WriteFlowsKeeps, LoadEndsKeeps
     DEF Data!Load

\* An ingest replaces rows, and takes none away.
LEMMA RowsRemain ==
  ASSUME Data!Next
  PROVE  \A r \in fact : \E q \in fact' : q.source = r.source /\ q.obs = r.obs
<1>1. CASE \E j \in Jobs : Data!Commit(j)
  <2>1. PICK j \in Jobs : Data!Commit(j)
    BY <1>1
  <2> DEFINE b == job[j].batch
  <2>2. fact' = Data!Upsert(b)
    BY <2>1 DEF Data!Commit
  <2> HIDE DEF b
  <2>3. ASSUME NEW r \in fact, NEW o \in DOMAIN b.rows, Data!Same(r, b, o)
        PROVE  \E q \in fact' : q.source = r.source /\ q.obs = r.obs
    <3>1. [Data!Row(b, o) EXCEPT !.copy = 1] \in fact'
      BY <2>2 DEF Data!Upsert
    <3>2. /\ [Data!Row(b, o) EXCEPT !.copy = 1].source = b.source
          /\ [Data!Row(b, o) EXCEPT !.copy = 1].obs = o
      BY DEF Data!Row
    <3> QED
      BY <2>3, <3>1, <3>2 DEF Data!Same
  <2>4. ASSUME NEW r \in fact, \A o \in DOMAIN b.rows : ~Data!Same(r, b, o)
        PROVE  r \in fact'
    BY <2>2, <2>4 DEF Data!Upsert
  <2> QED
    BY <2>3, <2>4
<1>2. CASE ~\E j \in Jobs : Data!Commit(j)
  <2>1. fact' = fact
    BY <1>2 DEF Data!Next, Data!Fetch, Data!FetchFails, Data!Refuse, Data!StartRun, Data!WriteFails,
      Data!Close, Data!LocatorRaises, Data!Mirror, Data!Crash
  <2> QED
    BY <2>1
<1> QED
  BY <1>1, <1>2

-----------------------------------------------------------------------------
\* The total of one row is its amount.
LEMMA TotalOfOne ==
  ASSUME NEW r \in FlowRec
  PROVE  MapThenSumSet(LAMBDA q : q.amount, {r}) = r.amount
<1> DEFINE S == {r}
           f == [q \in S |-> q.amount]
           Rec(g) == g = [t \in SUBSET S |->
             IF t = {} THEN 0 ELSE Chosen(t).amount + g[t \ {Chosen(t)}]]
<1>1. IsFiniteSet(S) /\ f \in [S -> Int] /\ f[r] = r.amount
  <2>1. r.amount \in Nat
    <3>1. r.amount \in Amounts
      BY DEF FlowRec
    <3>2. Amounts \subseteq Nat
      BY DataAssumption
    <3> QED
      BY <3>1, <3>2
  <2>2. IsFiniteSet(S)
    BY FS_Singleton
  <2>3. f \in [S -> Int]
    BY <2>1
  <2>4. f[r] = r.amount
    OBVIOUS
  <2> QED
    BY <2>2, <2>3, <2>4
<1>2. \A g : SumsOf(g, f, S) <=> Rec(g)
  <2>1. \A t \in SUBSET S : t # {} => f[Chosen(t)] = Chosen(t).amount
    BY ChosenOne
  <2> HIDE DEF f, S
  <2>2. ASSUME NEW g
        PROVE  [t \in SUBSET S |-> IF t = {} THEN 0 ELSE f[Chosen(t)] + g[t \ {Chosen(t)}]]
               = [t \in SUBSET S |-> IF t = {} THEN 0 ELSE Chosen(t).amount + g[t \ {Chosen(t)}]]
    BY <2>1
  <2> QED
    BY <2>2 DEF SumsOf
<1>3. \E g : Rec(g)
  BY <1>1, <1>2, SumsExist
<1>4. Rec(CHOOSE g : Rec(g))
  BY <1>3
<1>5. Sum(f, S) = (CHOOSE g : Rec(g))[S]
  BY <1>1, <1>2, <1>4, SumIs
<1>6. MapThenSumSet(LAMBDA q : q.amount, S) = (CHOOSE g : Rec(g))[S]
  BY DEF MapThenSumSet, MapThenFoldSet, Chosen
<1>7. Sum(f, S) = f[r]
  BY <1>1, SumOfOne
<1> QED
  BY <1>1, <1>5, <1>6, <1>7

LEMMA GraphHolds == GraphInv /\ FactInv => Data!FullLoadComplete /\ Data!OneCodeAgrees
<1> SUFFICES ASSUME GraphInv, FactInv PROVE Data!FullLoadComplete /\ Data!OneCodeAgrees
  OBVIOUS
<1> USE DEF GraphInv
<1>1. Data!FullLoadComplete
  <2> SUFFICES ASSUME load.pc = "done", load.parts = Data!Parts
               PROVE  /\ {Supported, Describes} \subseteq edges
                      /\ (\E r \in load.rows : PartnerOf[r.obs] = Data!IssuedBy) => Issued \in edges
                      /\ \A r \in load.rows : Edge(r) \in DOMAIN flows
    BY DEF Data!FullLoadComplete, Data!Loaded, Supported, Describes, Issued, Edge
  <2>1. load.at = 11 /\ load.left = {}
    BY DEF FlowsBuilt, Data!Parts
  <2> QED
    BY <2>1 DEF EdgesBuilt, FlowsBuilt, Data!Parts
<1>2. Data!OneCodeAgrees
  <2> SUFFICES ASSUME load.pc = "done", "flows" \in load.parts, load.rows = Data!FlowRows,
                      NEW k \in DOMAIN flows, OneCode(k[1])
               PROVE  flows[k] = Data!Total(Data!FlowRows, k[1], k[2])
    BY DEF Data!OneCodeAgrees, OneCode, Data!Cardinality, Cardinality
  <2>1. PICK o \in Observations : Projected(o) /\ k = <<ItemOf[o], PartnerOf[o]>>
    BY DEF RowsRead
  <2>2. PICK r \in Data!FlowRows : r.obs = o
    <3>1. PICK q \in fact : q.source = FlowSource /\ q.obs = o /\ PartnerOf[o] # Data!World
      BY <2>1 DEF Projected
    <3>2. [obs |-> q.obs, amount |-> q.amount] \in Data!FlowRows
      BY <3>1 DEF Data!FlowRows
    <3> QED
      BY <3>1, <3>2
  <2>3. /\ load.rows \subseteq FlowRec
        /\ \A p, q \in load.rows : p.obs = q.obs => p = q
        /\ load.left = {}
    BY DEF RowsRead, LoadRow, FlowsBuilt
  <2>4. Edge(r) = k /\ flows[k] = r.amount
    BY <2>1, <2>2, <2>3 DEF Edge, FlowsBuilt
  <2>5. {q \in Data!FlowRows : ItemOf[q.obs] = k[1] /\ PartnerOf[q.obs] = k[2]} = {r}
    <3>1. ASSUME NEW q \in Data!FlowRows, ItemOf[q.obs] = k[1] PROVE q = r
      <4>1. q.obs \in Observations /\ ItemOf[q.obs] = ItemOf[o] /\ OneCode(ItemOf[q.obs])
        BY <2>1, <2>3, <3>1 DEF FlowRec
      <4>2. q.obs = o
        BY <4>1, OneObservation
      <4> QED
        BY <2>2, <2>3, <4>2
    <3>2. ItemOf[r.obs] = k[1] /\ PartnerOf[r.obs] = k[2]
      BY <2>1, <2>2
    <3> QED
      BY <3>1, <3>2
  <2>6. Data!Total(Data!FlowRows, k[1], k[2]) = MapThenSumSet(LAMBDA q : q.amount, {r})
    BY <2>5 DEF Data!Total, Data!MapThenSumSet, Data!MapThenFoldSet, MapThenSumSet, MapThenFoldSet
  <2> QED
    BY <2>2, <2>3, <2>4, <2>6, TotalOfOne
<1> QED
  BY <1>1, <1>2


-----------------------------------------------------------------------------
(* The stores of the whole project, side by side.                          *)

LEMMA StoresInv == MCSpec => []ModelInv /\ []FactInv /\ []GraphInv
<1>1. MCInit => ModelInv /\ FactInv /\ GraphInv
  BY ModelsStart, FactsStart, GraphStart DEF MCInit
<1>2. ModelInv /\ [MCNext]_<<part, vars, factVars, graphVars, modelVars>> => ModelInv'
  <2> SUFFICES ASSUME ModelInv, [MCNext]_<<part, vars, factVars, graphVars, modelVars>>
               PROVE  ModelInv'
    OBVIOUS
  <2>1. [Models!RegistryNext]_modelVars
    BY DEF MCNext
  <2> QED
    BY <2>1, ModelsNext
<1>3. FactInv /\ [MCNext]_<<part, vars, factVars, graphVars, modelVars>> => FactInv'
  <2> SUFFICES ASSUME FactInv, [MCNext]_<<part, vars, factVars, graphVars, modelVars>>
               PROVE  FactInv'
    OBVIOUS
  <2>1. CASE UNCHANGED factVars
    <3>1. UNCHANGED Data!vars
      BY <2>1 DEF factVars, Data!vars
    <3> QED
      BY <3>1, FactsStay
  <2>2. CASE Data!Next
    BY <2>2, FactsNext
  <2>3. CASE Data!Load
    BY <2>3, LoadLeavesFacts
  <2> QED
    BY <2>1, <2>2, <2>3 DEF MCNext, Data!DataNext
<1>4. /\ FactInv /\ GraphInv /\ [MCNext]_<<part, vars, factVars, graphVars, modelVars>>
      => GraphInv'
  <2> SUFFICES ASSUME FactInv, GraphInv, [MCNext]_<<part, vars, factVars, graphVars, modelVars>>
               PROVE  GraphInv'
    OBVIOUS
  <2>1. CASE UNCHANGED <<factVars, graphVars>>
    <3>1. fact' = fact /\ UNCHANGED <<nodes, edges, flows, load>>
      BY <2>1 DEF factVars, graphVars
    <3> QED
      BY <3>1, GraphRests
  <2>2. CASE Data!Next /\ UNCHANGED graphVars
    <3>1. UNCHANGED <<nodes, edges, flows, load>>
      BY <2>2 DEF graphVars
    <3> QED
      BY <2>2, <3>1, RowsRemain, GraphRests
  <2>3. CASE Data!Load
    BY <2>3, LoadKeeps
  <2> QED
    BY <2>1, <2>2, <2>3 DEF MCNext, Data!DataNext, graphVars, Data!graphVars
<1> QED
  BY <1>1, <1>2, <1>3, <1>4, PTL DEF MCSpec

\* Whatever saves race and fail, what is served is the newest version that can be read, a
\* version once saved stays what it is, and what is listed can be loaded
\* (src/ceynex/forecasting/registry.py).
THEOREM ModelsStayWhole == MCSpec => []ModelsWhole
<1>1. ModelInv => ModelsWhole
  BY ModelsHold
<1> QED
  BY <1>1, StoresInv, PTL

\* However ingests race, fail, die and come again, there is one row of each identity, with
\* the success of a run behind it, a failure is shown as long as it is the latest, and no
\* ingest touches another source's copy (src/ceynex/data/pipeline.py, writer.py).
THEOREM FactsStayTrue == MCSpec => FactsKept
<1>1. FactInv => (part = "ingest" => /\ Data!TypeOK /\ Data!OneRowPerIdentity
                                     /\ Data!RowsHaveARun /\ Data!FailureIsShown)
  BY FactsHold
<1>2. FactInv /\ [MCNext]_<<part, vars, factVars, graphVars, modelVars>> =>
        [\A s \in Sources : mirror'[s] # mirror[s] =>
           \E j \in Jobs : job[j].pc = "mirror" /\ job[j].batch.source = s /\ job'[j] = Data!Idle
        ]_(Data!vars)
  <2> SUFFICES ASSUME FactInv, MCNext, ~UNCHANGED Data!vars,
                      NEW s \in Sources, mirror'[s] # mirror[s]
               PROVE  \E j \in Jobs : /\ job[j].pc = "mirror" /\ job[j].batch.source = s
                                      /\ job'[j] = Data!Idle
    BY DEF factVars, Data!vars
  <2>1. CASE Data!Next
    BY <2>1, OthersKept
  <2>2. UNCHANGED mirror \/ Data!Next
    BY DEF MCNext, factVars, Data!DataNext, Data!Load, Data!vars
  <2> QED
    BY <2>1, <2>2
<1> QED
  BY <1>1, <1>2, StoresInv, PTL DEF FactsKept, Data!OthersMirrorKept, MCSpec

\* However often a load is begun, left out in part or fails, and whatever is ingested in the
\* meantime: a full load that ends has written every edge it means to write, and one that
\* read what the facts are now has the edges of the items of one code carry their exports
\* (src/ceynex/kg/load.py, src/ceynex/kg/loaders/trade.py).
THEOREM GraphFollows == MCSpec => []GraphFollowsFacts
<1>1. FactInv /\ GraphInv => GraphFollowsFacts
  BY GraphHolds DEF GraphFollowsFacts
<1> QED
  BY <1>1, StoresInv, PTL
=============================================================================
