--------------------------- MODULE Answer_proofs ---------------------------
(***************************************************************************)
(* The run of a question and the stream of its answer, for any number of   *)
(* agents, attempts, sentences and places in the queue.                    *)
(*                                                                         *)
(* The run: RunInv says who may be at work in each phase and that what an  *)
(* agent could not give is marked.                                         *)
(*                                                                         *)
(* The stream: a text t is read, the gate lets a beginning of it through   *)
(* (Fills), events take it to the reader in order (Screen).  The heart of  *)
(* the argument is Heading: the draft, continued by what the queue holds   *)
(* behind its last reset, is what the gate released.  Feeding, replacing   *)
(* and restarting keep both; Close is where the two meet, for a text with  *)
(* no ungrounded sentence leaves nothing held back.  Events that a full    *)
(* queue drops end only the part of Screen that depends on them: nothing   *)
(* ungrounded is shown even then.                                          *)
(***************************************************************************)
EXTENDS MCAnswer, WellFoundedInduction, TLAPS

-----------------------------------------------------------------------------
(* The run.                                                                *)

\* An agent works only while the run waits for the agents, and a search only while the run
\* may still take what it finds.
AtWork ==
  /\ phase \in {"idle", "routing"} => \A a \in Agents : status[a] = "idle"
  /\ phase \notin {"idle", "routing", "running"} => \A a \in Agents : status[a] # "running"
  /\ phase \in {"assembling", "saving", "charging", "answered", "failed"} => web # "running"

\* What an agent could not give is marked, and what is served has the mark and the agents.
Marked ==
  /\ (\E a \in route : status[a] \in {"timeout", "raised", "partial"}) => degraded
  /\ phase \in {"searching", "assembling", "saving", "charging", "answered"} =>
       served.degraded = degraded /\ served.agents = Run!Succeeded

RunInv == Run!TypeOK /\ AtWork /\ Marked

LEMMA RunStarts == Run!Init => RunInv
<1> SUFFICES ASSUME Run!Init PROVE RunInv
  OBVIOUS
<1>1. \A a \in Agents : status[a] = "idle"
  BY DEF Run!Init
<1>2. Run!TypeOK
  <2>1. /\ status \in [Agents -> {"idle", "running", "cancelled"} \cup Run!Answers \cup Run!Losses]
        /\ {a \in Agents : status[a] # "idle"} = {}
    BY <1>1 DEF Run!Init
  <2>2. served = Run!Nothing /\ phase = "idle" /\ runs \in 0..MaxRuns
    BY RunAssumption DEF Run!Init
  <2> QED
    BY <2>1, <2>2 DEF Run!Init, Run!TypeOK
<1>3. AtWork /\ Marked
  BY <1>1 DEF Run!Init, AtWork, Marked
<1> QED
  BY <1>2, <1>3 DEF RunInv

\* The question is asked, routed, and given to the agents.
LEMMA RouteKeeps ==
  ASSUME RunInv, Run!Ask \/ Run!Route
  PROVE  RunInv'
<1> USE RunAssumption
<1>1. CASE Run!Ask
  <2>1. \A a \in Agents : status'[a] = "idle"
    BY <1>1 DEF Run!Ask
  <2>2. Run!TypeOK'
    <3>1. /\ status' \in [Agents -> {"idle", "running", "cancelled"} \cup Run!Answers
                                     \cup Run!Losses]
          /\ {a \in Agents : status'[a] # "idle"} = {}
      BY <1>1, <2>1 DEF Run!Ask
    <3>2. /\ served' = Run!Nothing /\ phase' = "routing" /\ runs' \in 0..MaxRuns
          /\ reply' \in BOOLEAN
      BY <1>1 DEF Run!Ask, RunInv, Run!TypeOK
    <3> QED
      BY <1>1, <3>1, <3>2 DEF Run!Ask, Run!TypeOK, Run!Working, Run!InGraph, Run!Over
  <2>3. AtWork' /\ Marked'
    BY <1>1, <2>1 DEF Run!Ask, AtWork, Marked
  <2> QED
    BY <2>2, <2>3 DEF RunInv
<1>2. CASE Run!Route
  <2>1. Run!TypeOK'
    BY <1>2 DEF Run!Route, RunInv, Run!TypeOK, Run!Working, Run!InGraph, Run!Over, Run!written
  <2>2. AtWork' /\ Marked'
    BY <1>2 DEF Run!Route, RunInv, AtWork, Marked, Run!TypeOK, Run!written
  <2> QED
    BY <2>1, <2>2 DEF RunInv
<1> QED
  BY <1>1, <1>2

\* An agent is lost to its slice, raises, or comes back with what it has.
LEMMA AgentKeeps ==
  ASSUME RunInv, NEW a \in Agents, Run!AgentLost(a) \/ Run!AgentReports(a)
  PROVE  RunInv'
<1>1. PICK end \in Run!Answers \cup Run!Losses :
        /\ status' = [status EXCEPT ![a] = end]
        /\ end \in {"timeout", "raised", "partial"} => degraded'
  BY DEF Run!AgentLost, Run!AgentReports, Run!Answers, Run!Losses
<1>2. /\ phase = "running" /\ status[a] = "running"
      /\ UNCHANGED <<phase, runs, method, scope, plan, route, web, served, reply, history, ledger>>
      /\ calls' \in {calls, calls \cup {a}}
  BY DEF Run!AgentLost, Run!AgentReports, Run!decision, Run!written
<1>a. degraded' \in BOOLEAN /\ (degraded => degraded')
  <2>1. degraded \in BOOLEAN
    BY DEF RunInv, Run!TypeOK
  <2>2. CASE Run!AgentLost(a)
    BY <2>2 DEF Run!AgentLost
  <2>3. CASE Run!AgentReports(a)
    <3>1. degraded' \in {TRUE} \/ degraded' \in {degraded, TRUE} \/ degraded' \in {degraded}
      BY <2>3 DEF Run!AgentReports, Run!Answers
    <3> QED
      BY <2>1, <3>1
  <2> QED
    BY <2>2, <2>3
<1>3. \A b \in Agents : status'[b] = IF b = a THEN end ELSE status[b]
  BY <1>1 DEF RunInv, Run!TypeOK
<1>4. a \in route
  BY <1>2 DEF RunInv, Run!TypeOK
<1>5. Run!TypeOK'
  <2>1. status' \in [Agents -> {"idle", "running", "cancelled"} \cup Run!Answers \cup Run!Losses]
    BY <1>1 DEF RunInv, Run!TypeOK
  <2>2. {b \in Agents : status'[b] # "idle"} \subseteq route'
    BY <1>2, <1>3, <1>4 DEF RunInv, Run!TypeOK
  <2> QED
    BY <1>2, <1>a, <2>1, <2>2 DEF RunInv, Run!TypeOK
<1>6. AtWork' /\ Marked'
  BY <1>1, <1>2, <1>a, <1>3 DEF RunInv, AtWork, Marked, Run!TypeOK
<1> QED
  BY <1>5, <1>6 DEF RunInv

\* The merge takes what the agents gave.
LEMMA MergeKeeps ==
  ASSUME RunInv, Run!MergeDone
  PROVE  RunInv'
<1>1. PICK prose_ \in BOOLEAN :
        served' = [answer |-> CASE Run!Succeeded = {} -> "nothing"
                                [] Run!Succeeded # {} /\ prose_ -> "prose"
                                [] OTHER -> "rules",
                   agents |-> Run!Succeeded,
                   evidence |-> \E a \in Run!Succeeded : status[a] # "bare",
                   web |-> FALSE, graph |-> FALSE, degraded |-> degraded,
                   mergeFailed |-> Run!Succeeded # {} /\ ~prose_]
  BY DEF Run!MergeDone
<1>2. /\ phase = "merging" /\ phase' = IF web = "none" THEN "assembling" ELSE "searching"
      /\ UNCHANGED <<runs, method, scope, plan, route, status, degraded, web, reply, history, ledger>>
      /\ calls' \in {calls, calls \cup {"merge"}}
  BY DEF Run!MergeDone, Run!decision, Run!agents, Run!written
<1>3. Run!Succeeded \subseteq Agents
  BY DEF Run!Succeeded, RunInv, Run!TypeOK
<1>4. served' \in Run!Responses /\ served'.agents = Run!Succeeded /\ served'.degraded = degraded
  BY <1>1, <1>3 DEF RunInv, Run!TypeOK, Run!Responses
<1>5. served' # Run!Nothing
  BY <1>1 DEF Run!Nothing
<1>6. Run!TypeOK'
  BY <1>2, <1>4, <1>5 DEF RunInv, Run!TypeOK, Run!Working, Run!InGraph, Run!Over
<1>7. AtWork' /\ Marked'
  BY <1>2, <1>4 DEF RunInv, AtWork, Marked, Run!Succeeded
<1> QED
  BY <1>6, <1>7 DEF RunInv

\* The response goes through the search, the assembly and the two writes.
LEMMA ResponseKeeps ==
  ASSUME RunInv,
         Run!AllBack \/ Run!WebEnds \/ Run!WebTaken \/ Run!Assemble \/ Run!Save \/ Run!Charge
  PROVE  RunInv'
<1>1. CASE UNCHANGED served
  <2>0. UNCHANGED <<runs, method, scope, plan, route, status, degraded>>
    BY DEF Run!AllBack, Run!WebEnds, Run!WebTaken, Run!Assemble, Run!Save, Run!Charge,
      Run!decision, Run!agents
  <2>a. /\ web' \in {web, "results", "failed"} /\ reply' \in BOOLEAN /\ calls' = calls
        /\ history' \in BOOLEAN /\ ledger' \in {ledger, calls}
    BY <1>1 DEF RunInv, Run!TypeOK, Run!AllBack, Run!WebEnds, Run!WebTaken, Run!Assemble,
      Run!Save,
      Run!Charge, Run!written, Run!Responses, Run!Nothing
  <2>b. \/ phase' = phase
        \/ phase = "running" /\ phase' = "merging"
        \/ phase = "searching" /\ phase' = "assembling"
        \/ phase = "assembling" /\ phase' = "saving"
        \/ phase = "saving" /\ phase' = "charging"
        \/ phase = "charging" /\ phase' = "answered"
    BY DEF Run!AllBack, Run!WebEnds, Run!WebTaken, Run!Assemble, Run!Save, Run!Charge
  <2>1. Run!TypeOK'
    BY <1>1, <2>0, <2>a, <2>b DEF RunInv, Run!TypeOK, Run!Working, Run!InGraph, Run!Over
  <2>2. AtWork' /\ Marked'
    BY <1>1 DEF RunInv, AtWork, Marked, Run!Succeeded, Run!TypeOK, Run!AllBack, Run!WebEnds,
      Run!WebTaken, Run!Assemble, Run!Save, Run!Charge, Run!decision, Run!agents, Run!written
  <2> QED
    BY <2>1, <2>2 DEF RunInv
<1>2. CASE Run!WebTaken \/ Run!Assemble
  <2>1. /\ served \in Run!Responses
        /\ served' \in Run!Responses /\ served' # Run!Nothing
        /\ served'.agents = served.agents /\ served'.degraded = served.degraded
    <3>1. served \in Run!Responses
      BY <1>2 DEF Run!WebTaken, Run!Assemble, RunInv, Run!TypeOK
    <3>2. PICK b \in BOOLEAN : \/ served' = [served EXCEPT !.web = b]
                               \/ served' = [served EXCEPT !.graph = b]
      BY <1>2, <3>1 DEF Run!WebTaken, Run!Assemble, Run!Responses
    <3> QED
      BY <3>1, <3>2 DEF Run!Responses, Run!Nothing
  <2>2. /\ UNCHANGED <<runs, method, scope, plan, route, status, degraded, web, calls, history, ledger>>
        /\ reply' \in BOOLEAN
        /\ phase' \in {"assembling", "saving"} /\ phase \in {"searching", "assembling"}
        /\ web # "running"
    BY <1>2, <2>1 DEF Run!WebTaken, Run!Assemble, Run!decision, Run!agents, Run!written, RunInv,
      Run!TypeOK, Run!Responses, AtWork
  <2>3. Run!TypeOK'
    BY <2>1, <2>2 DEF RunInv, Run!TypeOK, Run!Working, Run!InGraph, Run!Over
  <2>4. AtWork' /\ Marked'
    BY <2>1, <2>2 DEF RunInv, AtWork, Marked, Run!Succeeded
  <2> QED
    BY <2>3, <2>4 DEF RunInv
<1> QED
  BY <1>1, <1>2 DEF Run!AllBack, Run!WebEnds, Run!Save, Run!Charge

\* The deadline, an exception or Stop cuts the agents off.
LEMMA CutKeeps ==
  ASSUME RunInv, Run!Fail \/ Run!Stop
  PROVE  RunInv'
<1>1. /\ status' = [a \in Agents |-> IF status[a] = "running" THEN "cancelled" ELSE status[a]]
      /\ phase \in Run!Working /\ phase' \in {"failed", "stopped"}
      /\ UNCHANGED <<runs, method, scope, plan, route, degraded, reply, calls>>
      /\ web' \in {web, "cancelled"} /\ (phase' = "failed" => web' # "running")
      /\ served' = Run!Nothing
      /\ ledger' \in {ledger, calls} /\ history' \in BOOLEAN
  BY DEF Run!Fail, Run!Stop, Run!Cut, Run!decision, Run!written, RunInv, Run!TypeOK, Run!InGraph,
    Run!Working, Run!Over
<1>2. Run!TypeOK'
  <2>1. status' \in [Agents -> {"idle", "running", "cancelled"} \cup Run!Answers \cup Run!Losses]
    BY <1>1 DEF RunInv, Run!TypeOK
  <2>2. {a \in Agents : status'[a] # "idle"} \subseteq route'
    BY <1>1 DEF RunInv, Run!TypeOK
  <2> QED
    BY <1>1, <2>1, <2>2 DEF RunInv, Run!TypeOK, Run!Working, Run!InGraph, Run!Over
<1>3. AtWork' /\ Marked'
  BY <1>1 DEF RunInv, AtWork, Marked, Run!TypeOK
<1> QED
  BY <1>2, <1>3 DEF RunInv

LEMMA RunNext == RunInv /\ [Run!Next]_(Run!vars) => RunInv'
<1> SUFFICES ASSUME RunInv, [Run!Next]_(Run!vars) PROVE RunInv'
  OBVIOUS
<1>1. CASE UNCHANGED Run!vars
  BY <1>1 DEF Run!vars, Run!decision, Run!agents, Run!written, RunInv, AtWork, Marked, Run!TypeOK,
    Run!Succeeded
<1>2. CASE Run!Next
  BY <1>2, RouteKeeps, AgentKeeps, MergeKeeps, ResponseKeeps, CutKeeps DEF Run!Next, Run!RunStep
<1> QED
  BY <1>1, <1>2

\* Nothing is left at work behind an answer or a failure, and a lost agent shows.
LEMMA RunHolds == RunInv => RunSettled
  BY DEF RunInv, AtWork, Marked, Run!TypeOK, RunSettled, Run!NothingLeftRunning, Run!LossIsMarked,
    Run!Succeeded

-----------------------------------------------------------------------------
(* What is checked of a text before it is shown.                           *)

\* A set of numbers that is not empty has a least one.
LEMMA LeastNumber ==
  ASSUME NEW S, S \subseteq Nat, S # {}
  PROVE  \E i \in S : \A j \in S : i <= j
<1> DEFINE R == {p \in Nat \X Nat : p[1] < p[2]}
<1>1. IsWellFoundedOn(R, Nat)
  BY NatLessThanWellFounded DEF OpToRel
<1>2. PICK x \in S : \A y \in S : ~(<<y, x>> \in R)
  BY <1>1, WFMin
<1>3. ASSUME NEW y \in S PROVE x <= y
  <2>1. x \in Nat /\ y \in Nat
    OBVIOUS
  <2>2. <<y, x>> \in R <=> y < x
    BY <2>1
  <2>3. ~(y < x)
    BY <1>2, <2>2
  <2> QED
    BY <2>1, <2>3
<1> QED
  BY <1>2, <1>3

\* The sentences of a text up to the first that fails its check, as Release and Replace
\* take them.
Good(t) == IF FirstBad(t) = {} THEN t ELSE SubSeq(t, 1, (CHOOSE i \in FirstBad(t) : TRUE) - 1)

\* They are the longest beginning of the text whose sentences all pass.
LEMMA GoodBeginning ==
  ASSUME NEW t \in Seq(Sentence)
  PROVE  \E n \in 0..Len(t) :
           /\ Good(t) = SubSeq(t, 1, n) /\ \A i \in 1..n : Grounded(t[i])
           /\ FirstBad(t) # {} <=> n < Len(t)
           /\ n < Len(t) => ~Grounded(t[n + 1])
<1>1. CASE FirstBad(t) = {}
  <2>1. \A i \in 1..Len(t) : Grounded(t[i])
    <3> SUFFICES ASSUME ~(\A i \in 1..Len(t) : Grounded(t[i])) PROVE FALSE
      OBVIOUS
    <3> DEFINE S == {i \in 1..Len(t) : ~Grounded(t[i])}
    <3>1. S \subseteq Nat /\ S # {}
      OBVIOUS
    <3>2. PICK i \in S : \A j \in S : i <= j
      BY <3>1, LeastNumber
    <3>3. \A j \in 1..(i - 1) : Grounded(t[j])
      BY <3>2
    <3>4. i \in FirstBad(t)
      BY <3>2, <3>3 DEF FirstBad
    <3> QED
      BY <1>1, <3>4
  <2>2. Good(t) = SubSeq(t, 1, Len(t)) /\ Len(t) \in 0..Len(t)
    BY <1>1 DEF Good
  <2> QED
    BY <1>1, <2>1, <2>2
<1>2. CASE FirstBad(t) # {}
  <2> DEFINE i == CHOOSE i \in FirstBad(t) : TRUE
  <2>1. i \in FirstBad(t)
    BY <1>2
  <2>2. /\ i \in 1..Len(t) /\ ~Grounded(t[i]) /\ \A j \in 1..(i - 1) : Grounded(t[j])
    BY <2>1 DEF FirstBad
  <2>3. Good(t) = SubSeq(t, 1, i - 1)
    BY <1>2 DEF Good
  <2> HIDE DEF i
  <2>4. i - 1 \in 0..Len(t) /\ i - 1 < Len(t) /\ (i - 1) + 1 = i
    BY <2>2
  <2> QED
    BY <1>2, <2>2, <2>3, <2>4
<1> QED
  BY <1>1, <1>2

\* The verdict lines a text begins with are taken off it: what is left is a text.
LEMMA WithoutVerdictType ==
  ASSUME NEW t \in Seq(Sentence)
  PROVE  /\ WithoutVerdict(t) \in Seq(Sentence) /\ Len(WithoutVerdict(t)) <= Len(t)
         /\ \A i \in 1..Len(WithoutVerdict(t)) : \E j \in 1..Len(t) : WithoutVerdict(t)[i] = t[j]
<1> DEFINE kept == {i \in DOMAIN t : t[i].kind # "verdict"}
<1>1. CASE kept = {}
  BY <1>1 DEF WithoutVerdict
<1>2. CASE kept # {}
  <2> DEFINE k == CHOOSE i \in kept : \A j \in kept : i <= j
  <2>1. k \in kept
    <3>0. kept \subseteq Nat
      OBVIOUS
    <3>1. \E i \in kept : \A j \in kept : i <= j
      BY <1>2, <3>0, LeastNumber
    <3> QED
      BY <3>1
  <2>a. WithoutVerdict(t) = SubSeq(t, k, Len(t))
    BY <1>2, Zenon DEF WithoutVerdict
  <2>2. k \in 1..Len(t) /\ WithoutVerdict(t) = SubSeq(t, k, Len(t))
    BY <2>1, <2>a
  <2> HIDE DEF k
  <2>3. /\ SubSeq(t, k, Len(t)) \in Seq(Sentence) /\ Len(SubSeq(t, k, Len(t))) = Len(t) - k + 1
        /\ \A i \in 1..(Len(t) - k + 1) : SubSeq(t, k, Len(t))[i] = t[k + i - 1]
    BY <2>2
  <2>4. \A i \in 1..(Len(t) - k + 1) : k + i - 1 \in 1..Len(t)
    BY <2>2
  <2> QED
    BY <2>2, <2>3, <2>4
<1> QED
  BY <1>1, <1>2

-----------------------------------------------------------------------------
(* What the reader will see.                                               *)

Events == {Reset} \cup {Delta(s) : s \in Sentence}

\* After its place k, which is its last reset or the start, q has what t has after b.
Seam(q, d, k, b) == IF k = 0 THEN b = d ELSE q[k] = Reset /\ b = <<>>
Follows(q, t, k, b) ==
  /\ Len(t) = Len(b) + Len(q) - k
  /\ \A i \in 1..Len(b) : t[i] = b[i]
  /\ \A i \in 1..(Len(q) - k) : q[k + i] = Delta(t[Len(b) + i])

\* Once the queue q is drained, a draft d will be t.
Heading(q, d, t) ==
  \E k \in 0..Len(q), b \in {d, <<>>} : Seam(q, d, k, b) /\ Follows(q, t, k, b)

\* Between two resets the reader sees one attempt.
Unmixed(q, d) ==
  /\ \A i, j \in 1..Len(d) : d[i].from = d[j].from
  /\ \A i, j \in 1..Len(q) :
       i <= j /\ (\A k \in i..j : q[k] # Reset) => q[i].text.from = q[j].text.from
  /\ \A j \in 1..Len(q) : (\A k \in 1..j : q[k] # Reset) =>
       \A i \in 1..Len(d) : d[i].from = q[j].text.from

Clean(q) == \A i \in 1..Len(q) : q[i] # Reset => Grounded(q[i].text)

\* One event is no other's.
LEMMA EventFacts ==
  /\ Reset \in Events /\ \A s \in Sentence : Delta(s) \in Events /\ Delta(s) # Reset
  /\ \A s : Delta(s).text = s
  /\ \A e \in Events : e # Reset => e.text \in Sentence /\ e = Delta(e.text)
<1>1. \A s : Delta(s).text = s /\ Delta(s).event = "delta"
  BY DEF Delta
<1>2. Reset.event = "reset"
  BY DEF Reset
<1> QED
  BY <1>1, <1>2 DEF Events

\* Sentences of the same attempt are put behind what is on its way.
LEMMA ShowKeepsOrder ==
  ASSUME NEW q \in Seq(Events), NEW d \in Seq(Sentence), NEW t \in Seq(Sentence),
         NEW g \in Seq(Sentence), NEW from,
         Heading(q, d, t), Unmixed(q, d),
         \A i \in 1..Len(t) : t[i].from = from, \A i \in 1..Len(g) : g[i].from = from
  PROVE  Heading(q \o Shown(g), d, t \o g) /\ Unmixed(q \o Shown(g), d)
<1> DEFINE r == q \o Shown(g)
           u == t \o g
<1>1. /\ Shown(g) \in Seq(Events) /\ Len(Shown(g)) = Len(g)
      /\ \A i \in 1..Len(g) : Shown(g)[i] = Delta(g[i])
  <2>1. \A i \in 1..Len(g) : Delta(g[i]) \in Events
    BY EventFacts
  <2> QED
    BY <2>1 DEF Shown
<1>2. /\ r \in Seq(Events) /\ Len(r) = Len(q) + Len(g)
      /\ \A i \in 1..Len(q) : r[i] = q[i]
      /\ \A i \in 1..Len(g) : r[Len(q) + i] = Delta(g[i])
  <2>1. PICK e \in Seq(Events) : e = Shown(g)
    BY <1>1
  <2>2. /\ q \o e \in Seq(Events) /\ Len(q \o e) = Len(q) + Len(e)
        /\ \A i \in 1..Len(q) : (q \o e)[i] = q[i]
        /\ \A i \in 1..Len(e) : (q \o e)[Len(q) + i] = e[i]
    OBVIOUS
  <2> QED
    BY <1>1, <2>1, <2>2
<1>3. /\ Len(u) = Len(t) + Len(g)
      /\ \A i \in 1..Len(t) : u[i] = t[i]
      /\ \A i \in 1..Len(g) : u[Len(t) + i] = g[i]
  OBVIOUS
<1>4. PICK k \in 0..Len(q), base \in {d, <<>>} : Seam(q, d, k, base) /\ Follows(q, t, k, base)
  BY DEF Heading
<1>5. /\ base \in Seq(Sentence) /\ Len(t) = Len(base) + Len(q) - k
      /\ \A i \in 1..Len(base) : t[i] = base[i]
      /\ \A i \in 1..(Len(q) - k) : q[k + i] = Delta(t[Len(base) + i])
  <2>a. <<>> \in Seq(Sentence)
    OBVIOUS
  <2>1. base \in Seq(Sentence)
    BY <2>a, Zenon
  <2>2. Follows(q, t, k, base)
    BY <1>4
  <2> QED
    BY <2>1, <2>2, Zenon DEF Follows
<1>b. /\ k > 0 => q[k] = Reset
      /\ k = 0 => base = d
  BY <1>4 DEF Seam
<1>a. /\ Len(q) \in Nat /\ Len(d) \in Nat /\ Len(t) \in Nat /\ Len(g) \in Nat
      /\ Len(base) \in Nat
  BY <1>5
<1> HIDE DEF r, u
<1>6. Heading(r, d, u)
  <2>1. k \in 0..Len(r) /\ Seam(r, d, k, base)
    BY <1>2, <1>4, <1>a DEF Seam
  <2>2. Len(u) = Len(base) + Len(r) - k
    BY <1>2, <1>3, <1>5, <1>a
  <2>3. \A i \in 1..Len(base) : u[i] = base[i]
    BY <1>3, <1>5, <1>a
  <2>4. ASSUME NEW i \in 1..(Len(r) - k) PROVE r[k + i] = Delta(u[Len(base) + i])
    <3>1. CASE i <= Len(q) - k
      <4>1. i \in 1..(Len(q) - k) /\ k + i \in 1..Len(q) /\ Len(base) + i \in 1..Len(t)
        BY <1>2, <1>5, <1>a, <3>1
      <4> QED
        BY <1>2, <1>3, <1>5, <4>1
    <3>2. CASE i > Len(q) - k
      <4>0. i - (Len(q) - k) \in 1..Len(g)
        BY <1>2, <1>a, <3>2
      <4>1. PICK j \in 1..Len(g) : j = i - (Len(q) - k)
        BY <4>0
      <4>2. k + i = Len(q) + j /\ Len(base) + i = Len(t) + j
        BY <1>5, <1>a, <4>1
      <4>3. r[Len(q) + j] = Delta(g[j]) /\ u[Len(t) + j] = g[j]
        BY <1>2, <1>3, <4>1
      <4> QED
        BY <4>2, <4>3
    <3> QED
      BY <3>1, <3>2
  <2>5. Follows(r, u, k, base)
    BY <2>2, <2>3, <2>4 DEF Follows
  <2> QED
    BY <2>1, <2>5 DEF Heading
<1>7. \A j \in (k + 1)..Len(r) : r[j] # Reset /\ r[j].text.from = from
  <2>1. ASSUME NEW j \in (k + 1)..Len(r) PROVE r[j] # Reset /\ r[j].text.from = from
    <3>1. CASE j <= Len(q)
      <4>1. PICK i \in 1..(Len(q) - k) : j = k + i
        <5>1. j - k \in 1..(Len(q) - k) /\ j = k + (j - k)
          BY <3>1
        <5> QED
          BY <5>1
      <4>2. Len(base) + i \in 1..Len(t)
        BY <1>5, <4>1
      <4>3. r[j] = Delta(t[Len(base) + i]) /\ t[Len(base) + i] \in Sentence
        BY <1>2, <1>5, <3>1, <4>1, <4>2
      <4> QED
        BY <4>2, <4>3, EventFacts
    <3>2. CASE j > Len(q)
      <4>1. PICK i \in 1..Len(g) : j = Len(q) + i
        <5>1. j - Len(q) \in 1..Len(g) /\ j = Len(q) + (j - Len(q))
          BY <1>2, <3>2
        <5> QED
          BY <5>1
      <4>2. r[j] = Delta(g[i]) /\ g[i] \in Sentence
        BY <1>2, <4>1
      <4> QED
        BY <4>2, EventFacts
    <3> QED
      BY <3>1, <3>2
  <2> QED
    BY <2>1
<1>8. \A i, j \in 1..Len(r) :
        i <= j /\ (\A n \in i..j : r[n] # Reset) => r[i].text.from = r[j].text.from
  <2>1. ASSUME NEW i \in 1..Len(r), NEW j \in 1..Len(r), i <= j, \A n \in i..j : r[n] # Reset
        PROVE  r[i].text.from = r[j].text.from
    <3>1. CASE i > k
      BY <1>7, <2>1, <3>1
    <3>2. CASE i <= k
      <4>1. j < k
        BY <1>2, <1>b, <2>1, <3>2
      <4>2. /\ i \in 1..Len(q) /\ j \in 1..Len(q) /\ q[i] = r[i] /\ q[j] = r[j]
            /\ \A n \in i..j : q[n] # Reset
        <5>1. j \in 1..Len(q) /\ i \in 1..Len(q) /\ \A n \in i..j : n \in 1..Len(q)
          BY <1>a, <1>4, <2>1, <4>1
        <5> QED
          BY <1>2, <2>1, <5>1
      <4> QED
        BY <2>1, <4>2 DEF Unmixed
    <3> QED
      BY <3>1, <3>2
  <2> QED
    BY <2>1
<1>9. ASSUME NEW j \in 1..Len(r), \A n \in 1..j : r[n] # Reset, NEW i \in 1..Len(d)
      PROVE  d[i].from = r[j].text.from
  <2>1. CASE j <= Len(q)
    <3>1. j \in 1..Len(q) /\ q[j] = r[j] /\ \A n \in 1..j : q[n] # Reset
      <4>1. j \in 1..Len(q) /\ \A n \in 1..j : n \in 1..Len(q)
        BY <1>a, <1>9, <2>1
      <4> QED
        BY <1>2, <1>9, <4>1
    <3> QED
      BY <1>9, <3>1 DEF Unmixed
  <2>2. CASE j > Len(q)
    <3>1. k = 0
      BY <1>2, <1>b, <1>9, <2>2
    <3>2. i \in 1..Len(base) /\ base[i] = d[i] /\ t[i] = base[i] /\ i \in 1..Len(t)
      <4>1. base = d
        BY <1>b, <3>1
      <4>2. i \in 1..Len(base) /\ base[i] = d[i]
        BY <4>1
      <4>3. Len(t) >= Len(base)
        BY <1>5, <1>a
      <4> QED
        BY <1>5, <1>a, <4>2, <4>3
    <3>3. j \in (k + 1)..Len(r)
      BY <3>1
    <3> QED
      BY <1>7, <3>2, <3>3
  <2> QED
    BY <2>1, <2>2
<1>10. Unmixed(r, d)
  <2>1. \A i, j \in 1..Len(d) : d[i].from = d[j].from
    BY DEF Unmixed
  <2> QED
    BY <1>8, <1>9, <2>1 DEF Unmixed
<1> QED
  BY <1>6, <1>10 DEF r, u

\* A reset takes back what is on its way.
LEMMA ResetKeepsOrder ==
  ASSUME NEW q \in Seq(Events), NEW d \in Seq(Sentence), Unmixed(q, d)
  PROVE  Heading(q \o <<Reset>>, d, <<>>) /\ Unmixed(q \o <<Reset>>, d)
<1> DEFINE r == q \o <<Reset>>
           k == Len(q) + 1
<1>1. /\ Len(r) = k /\ r[k] = Reset /\ \A i \in 1..Len(q) : r[i] = q[i]
  OBVIOUS
<1> HIDE DEF r
<1>2. Heading(r, d, <<>>)
  <2>1. k \in 0..Len(r) /\ Seam(r, d, k, <<>>)
    BY <1>1 DEF Seam
  <2>2. Len(r) - k = 0 /\ Len(<<>>) = 0
    BY <1>1
  <2>3. Follows(r, <<>>, k, <<>>)
    BY <1>1, <2>2 DEF Follows
  <2> QED
    BY <2>1, <2>3 DEF Heading
<1>3. Unmixed(r, d)
  <2>1. \A i, j \in 1..Len(r) :
          i <= j /\ (\A n \in i..j : r[n] # Reset) => r[i].text.from = r[j].text.from
    <3>1. ASSUME NEW i \in 1..Len(r), NEW j \in 1..Len(r), i <= j, \A n \in i..j : r[n] # Reset
          PROVE  r[i].text.from = r[j].text.from
      <4>1. j < k
        BY <1>1, <3>1
      <4>2. /\ i \in 1..Len(q) /\ j \in 1..Len(q) /\ q[i] = r[i] /\ q[j] = r[j]
            /\ \A n \in i..j : q[n] # Reset
        BY <1>1, <3>1, <4>1
      <4> QED
        BY <3>1, <4>2 DEF Unmixed
    <3> QED
      BY <3>1
  <2>2. ASSUME NEW j \in 1..Len(r), \A n \in 1..j : r[n] # Reset
        PROVE  \A i \in 1..Len(d) : d[i].from = r[j].text.from
    <3>1. j < k
      BY <1>1, <2>2
    <3>2. j \in 1..Len(q) /\ q[j] = r[j] /\ \A n \in 1..j : q[n] # Reset
      BY <1>1, <2>2, <3>1
    <3> QED
      BY <2>2, <3>2 DEF Unmixed
  <2> QED
    BY <2>1, <2>2 DEF Unmixed
<1> QED
  BY <1>2, <1>3 DEF r

\* The reader takes the first event.
LEMMA ReadKeepsOrder ==
  ASSUME NEW q \in Seq(Events), NEW d \in Seq(Sentence), NEW t \in Seq(Sentence), q # <<>>,
         NEW e \in Seq(Sentence),
         Head(q) = Reset => e = <<>>, Head(q) # Reset => e = Append(d, Head(q).text),
         Heading(q, d, t), Unmixed(q, d)
  PROVE  Heading(Tail(q), e, t) /\ Unmixed(Tail(q), e)
<1> DEFINE r == Tail(q)
           m == Len(q)
<1>1. /\ r \in Seq(Events) /\ Len(r) = m - 1 /\ m \in Nat \ {0} /\ Head(q) = q[1]
      /\ \A i \in 1..(m - 1) : r[i] = q[i + 1] /\ i + 1 \in 1..m
      /\ q[1] \in Events /\ Len(d) \in Nat /\ Len(t) \in Nat
  OBVIOUS
<1> HIDE DEF r
<1>2. PICK k \in 0..m, b \in {d, <<>>} : Seam(q, d, k, b) /\ Follows(q, t, k, b)
  BY DEF Heading
<1>a. /\ b \in Seq(Sentence) /\ Len(b) \in Nat /\ Len(t) = Len(b) + m - k
      /\ \A i \in 1..Len(b) : t[i] = b[i]
      /\ \A i \in 1..(m - k) : q[k + i] = Delta(t[Len(b) + i])
  <2>a. <<>> \in Seq(Sentence)
    OBVIOUS
  <2>b. b \in Seq(Sentence)
    BY <2>a, Zenon
  <2>1. b \in Seq(Sentence) /\ Len(b) \in Nat
    BY <2>b
  <2>2. Follows(q, t, k, b)
    BY <1>2
  <2> QED
    BY <2>1, <2>2, Zenon DEF Follows
<1>3. ASSUME k > 1 PROVE Heading(r, e, t)
  <2>1. PICK n \in 1..(m - 1) : k = n + 1
    <3>1. k - 1 \in 1..(m - 1) /\ k = (k - 1) + 1
      BY <1>1, <1>3
    <3> QED
      BY <3>1
  <2>2. q[k] = Reset /\ b = <<>>
    BY <1>2, <1>3 DEF Seam
  <2>3. n \in 0..Len(r) /\ Seam(r, e, n, b)
    BY <1>1, <2>1, <2>2 DEF Seam
  <2>4. Follows(r, t, n, b)
    <3>1. Len(t) = Len(b) + Len(r) - n
      BY <1>1, <1>a, <2>1
    <3>2. ASSUME NEW i \in 1..(Len(r) - n) PROVE r[n + i] = Delta(t[Len(b) + i])
      <4>1. n + i \in 1..(m - 1) /\ i \in 1..(m - k) /\ n + i + 1 = k + i
        BY <1>1, <2>1
      <4>2. r[n + i] = q[n + i + 1]
        BY <1>1, <4>1
      <4> QED
        BY <1>a, <4>1, <4>2
    <3> QED
      BY <1>a, <3>1, <3>2 DEF Follows
  <2> QED
    BY <2>2, <2>3, <2>4 DEF Heading
<1>4. ASSUME k = 1 PROVE Heading(r, e, t)
  <2>1. b = <<>> /\ e = <<>>
    BY <1>1, <1>2, <1>4 DEF Seam
  <2>2. Seam(r, e, 0, b) /\ 0 \in 0..Len(r)
    BY <1>1, <2>1 DEF Seam
  <2>3. Follows(r, t, 0, b)
    <3>1. Len(t) = Len(b) + Len(r) - 0
      BY <1>1, <1>a, <1>4
    <3>2. ASSUME NEW i \in 1..(Len(r) - 0) PROVE r[0 + i] = Delta(t[Len(b) + i])
      <4>1. 0 + i \in 1..(m - 1) /\ i \in 1..(m - k) /\ 0 + i + 1 = k + i
        BY <1>1, <1>4
      <4>2. r[0 + i] = q[0 + i + 1]
        BY <1>1, <4>1
      <4> QED
        BY <1>a, <4>1, <4>2
    <3> QED
      BY <1>a, <3>1, <3>2 DEF Follows
  <2> QED
    BY <2>1, <2>2, <2>3 DEF Heading
<1>5. ASSUME k = 0 PROVE Heading(r, e, t)
  <2>1. b = d
    BY <1>2, <1>5 DEF Seam
  <2>2. /\ Len(t) = Len(d) + m /\ \A i \in 1..Len(d) : t[i] = d[i]
        /\ \A i \in 1..m : q[i] = Delta(t[Len(d) + i])
    <3>1. \A i \in 1..m : 0 + i = i
      OBVIOUS
    <3> QED
      BY <1>1, <1>a, <1>5, <2>1, <3>1
  <2>3. q[1] = Delta(t[Len(d) + 1]) /\ q[1] # Reset /\ q[1].text = t[Len(d) + 1]
    <3>1. q[1] = Delta(t[Len(d) + 1]) /\ t[Len(d) + 1] \in Sentence
      BY <1>1, <2>2
    <3> QED
      BY <3>1, EventFacts
  <2>4. /\ Len(e) = Len(d) + 1
        /\ \A i \in 1..Len(d) : e[i] = d[i]
        /\ e[Len(d) + 1] = t[Len(d) + 1]
    <3>1. PICK s \in Sentence : s = t[Len(d) + 1]
      BY <1>1, <2>2
    <3>2. e = Append(d, s)
      BY <1>1, <2>3, <3>1
    <3> QED
      BY <3>1, <3>2
  <2>5. Follows(r, t, 0, e)
    <3>1. Len(t) = Len(e) + Len(r) - 0
      BY <1>1, <2>2, <2>4
    <3>2. ASSUME NEW i \in 1..Len(e) PROVE t[i] = e[i]
      <4>1. i \in 1..Len(d) \/ i = Len(d) + 1
        BY <1>1, <2>4
      <4> QED
        BY <2>2, <2>4, <4>1
    <3>3. ASSUME NEW i \in 1..(Len(r) - 0) PROVE r[0 + i] = Delta(t[Len(e) + i])
      <4>1. 0 + i \in 1..(m - 1) /\ 0 + i + 1 \in 1..m /\ Len(d) + (0 + i + 1) = Len(e) + i
        BY <1>1, <2>4
      <4>2. r[0 + i] = q[0 + i + 1]
        BY <1>1, <4>1
      <4> QED
        BY <2>2, <4>1, <4>2
    <3> QED
      BY <3>1, <3>2, <3>3 DEF Follows
  <2>6. Seam(r, e, 0, e) /\ 0 \in 0..Len(r)
    BY <1>1 DEF Seam
  <2> QED
    BY <2>5, <2>6 DEF Heading
<1>6. Heading(r, e, t)
  <2>1. k > 1 \/ k = 1 \/ k = 0
    BY <1>1
  <2> QED
    BY <1>3, <1>4, <1>5, <2>1
<1>7. \A i, j \in 1..Len(r) :
        i <= j /\ (\A n \in i..j : r[n] # Reset) => r[i].text.from = r[j].text.from
  <2>1. ASSUME NEW i \in 1..Len(r), NEW j \in 1..Len(r), i <= j, \A n \in i..j : r[n] # Reset
        PROVE  r[i].text.from = r[j].text.from
    <3>1. \A n \in (i + 1)..(j + 1) : q[n] # Reset
      <4>1. ASSUME NEW n \in (i + 1)..(j + 1) PROVE q[n] # Reset
        <5>1. n - 1 \in i..j /\ n - 1 \in 1..(m - 1) /\ (n - 1) + 1 = n
          BY <1>1, <2>1
        <5> QED
          BY <1>1, <2>1, <5>1
      <4> QED
        BY <4>1
    <3>2. i + 1 \in 1..m /\ j + 1 \in 1..m /\ i + 1 <= j + 1
      BY <1>1, <2>1
    <3>3. q[i + 1].text.from = q[j + 1].text.from
      BY <3>1, <3>2 DEF Unmixed
    <3> QED
      BY <1>1, <2>1, <3>3
  <2> QED
    BY <2>1
<1>8. CASE Head(q) = Reset
  <2>1. e = <<>>
    BY <1>8
  <2>2. Unmixed(r, e)
    BY <1>7, <2>1 DEF Unmixed
  <2> QED
    BY <1>6, <2>2 DEF r
<1>9. CASE Head(q) # Reset
  <2>1. /\ Len(e) = Len(d) + 1 /\ e[Len(d) + 1] = q[1].text
        /\ \A i \in 1..Len(d) : e[i] = d[i]
    <3>1. q[1].text \in Sentence /\ e = Append(d, q[1].text)
      BY <1>1, <1>9, EventFacts
    <3> QED
      BY <3>1
  <2>2. \A i \in 1..Len(d) : d[i].from = q[1].text.from
    <3>1. 1 \in 1..m /\ \A n \in 1..1 : q[n] # Reset
      BY <1>1, <1>9
    <3> QED
      BY <3>1 DEF Unmixed
  <2>3. ASSUME NEW i \in 1..Len(e) PROVE e[i].from = q[1].text.from
    <3>1. i \in 1..Len(d) \/ i = Len(d) + 1
      BY <1>1, <2>1
    <3> QED
      BY <2>1, <2>2, <3>1
  <2>4. ASSUME NEW j \in 1..Len(r), \A n \in 1..j : r[n] # Reset
        PROVE  q[1].text.from = r[j].text.from
    <3>1. \A n \in 1..(j + 1) : q[n] # Reset
      <4>1. ASSUME NEW n \in 1..(j + 1) PROVE q[n] # Reset
        <5>1. CASE n = 1
          BY <1>1, <1>9, <5>1
        <5>2. CASE n # 1
          <6>1. n - 1 \in 1..j /\ n - 1 \in 1..(m - 1) /\ (n - 1) + 1 = n
            BY <1>1, <5>2
          <6> QED
            BY <1>1, <2>4, <6>1
        <5> QED
          BY <5>1, <5>2
      <4> QED
        BY <4>1
    <3>2. 1 \in 1..m /\ j + 1 \in 1..m /\ 1 <= j + 1
      BY <1>1
    <3>3. q[1].text.from = q[j + 1].text.from
      BY <3>1, <3>2 DEF Unmixed
    <3> QED
      BY <1>1, <3>3
  <2>5. Unmixed(r, e)
    BY <1>7, <2>3, <2>4 DEF Unmixed
  <2> QED
    BY <1>6, <2>5 DEF r
<1> QED
  BY <1>8, <1>9

-----------------------------------------------------------------------------
(* The queue and the screen behind it.                                     *)

OneFrom(t, from) == \A i \in 1..Len(t) : t[i].from = from
AllGood(t) == \A i \in 1..Len(t) : Grounded(t[i])

\* Nothing ungrounded is on the screen or on its way, and when nothing was lost the screen
\* shows one attempt at a time and will come to show t.
Screen(q, lost, d, t) ==
  /\ q \in Seq(Events) /\ Len(q) <= QueueLimit /\ lost \in BOOLEAN /\ d \in Seq(Sentence)
  /\ Clean(q) /\ AllGood(d)
  /\ ~lost => Heading(q, d, t) /\ Unmixed(q, d)

\* Emit puts the events behind the queue, or some of them and the loss is known.
LEMMA EmitFacts ==
  ASSUME queue \in Seq(Events), Len(queue) <= QueueLimit, dropped \in BOOLEAN,
         NEW e \in Seq(Events), Emit(e), Clean(queue), Clean(e)
  PROVE  /\ queue' \in Seq(Events) /\ Len(queue') <= QueueLimit /\ dropped' \in BOOLEAN
         /\ Clean(queue')
         /\ ~dropped' => ~dropped /\ queue' = queue \o e
<1> USE StreamAssumption
<1> DEFINE fits == QueueLimit - Len(queue)
           n == IF fits < Len(e) THEN fits ELSE Len(e)
           f == SubSeq(e, 1, n)
<1>1. /\ queue' = queue \o f /\ dropped' = (dropped \/ Len(e) > fits)
  BY DEF Emit
<1>2. /\ n \in 0..Len(e) /\ fits \in Nat /\ n <= fits /\ Len(queue) \in Nat /\ Len(e) \in Nat
  OBVIOUS
<1>3. /\ f \in Seq(Events) /\ Len(f) = n /\ \A i \in 1..n : f[i] = e[i]
  BY <1>2
<1>4. Len(e) <= fits => f = e
  <2>1. Len(e) <= fits => n = Len(e)
    BY <1>2
  <2> QED
    BY <1>3, <2>1
<1> HIDE DEF n, f, fits
<1>5. /\ queue' \in Seq(Events) /\ Len(queue') = Len(queue) + n
      /\ \A i \in 1..Len(queue) : queue'[i] = queue[i]
      /\ \A i \in 1..n : queue'[Len(queue) + i] = f[i]
  <2>1. PICK g \in Seq(Events) : g = f
    BY <1>3
  <2>2. PICK q \in Seq(Events) : q = queue
    OBVIOUS
  <2>3. /\ q \o g \in Seq(Events) /\ Len(q \o g) = Len(q) + Len(g)
        /\ \A i \in 1..Len(q) : (q \o g)[i] = q[i]
        /\ \A i \in 1..Len(g) : (q \o g)[Len(q) + i] = g[i]
    OBVIOUS
  <2> QED
    BY <1>1, <1>3, <2>1, <2>2, <2>3
<1>6. Len(queue') <= QueueLimit
  BY <1>2, <1>5 DEF fits
<1>7. Clean(queue')
  <2>1. ASSUME NEW i \in 1..Len(queue'), queue'[i] # Reset PROVE Grounded(queue'[i].text)
    <3>1. CASE i <= Len(queue)
      BY <1>2, <1>5, <2>1, <3>1 DEF Clean
    <3>2. CASE i > Len(queue)
      <4>1. i - Len(queue) \in 1..n
        BY <1>2, <1>5, <3>2
      <4>2. PICK j \in 1..n : i = Len(queue) + j
        BY <1>2, <4>1
      <4>3. queue'[i] = e[j] /\ j \in 1..Len(e)
        BY <1>2, <1>3, <1>5, <4>2
      <4> QED
        BY <2>1, <4>3 DEF Clean
    <3> QED
      BY <3>1, <3>2
  <2> QED
    BY <2>1 DEF Clean
<1>8. dropped' \in BOOLEAN /\ (~dropped' => ~dropped /\ Len(e) <= fits)
  <2>1. Len(e) > fits <=> ~(Len(e) <= fits)
    BY <1>2
  <2>2. dropped' \in BOOLEAN
    BY <1>1, <2>1, Zenon
  <2>3. ~dropped' => ~dropped /\ ~(Len(e) > fits)
    BY <1>1, Zenon
  <2> QED
    BY <2>1, <2>2, <2>3
<1> QED
  BY <1>1, <1>4, <1>5, <1>6, <1>7, <1>8

\* What is shown is an event for each sentence.
LEMMA ShownFacts ==
  ASSUME NEW g \in Seq(Sentence), AllGood(g)
  PROVE  Shown(g) \in Seq(Events) /\ Clean(Shown(g))
<1>1. /\ Shown(g) \in Seq(Events) /\ Len(Shown(g)) = Len(g)
      /\ \A i \in 1..Len(g) : Shown(g)[i] = Delta(g[i])
  <2>1. \A i \in 1..Len(g) : Delta(g[i]) \in Events
    BY EventFacts
  <2> QED
    BY <2>1 DEF Shown
<1> QED
  BY <1>1, EventFacts DEF Clean, AllGood

\* Grounded sentences of one attempt are shown ...
LEMMA ScreenShows ==
  ASSUME NEW t \in Seq(Sentence), NEW g \in Seq(Sentence), NEW from,
         Screen(queue, dropped, draft, t), AllGood(g), OneFrom(t, from), OneFrom(g, from),
         Emit(Shown(g)), UNCHANGED draft
  PROVE  Screen(queue', dropped', draft', t \o g)
<1>1. Shown(g) \in Seq(Events) /\ Clean(Shown(g))
  BY ShownFacts
<1>2. /\ queue' \in Seq(Events) /\ Len(queue') <= QueueLimit /\ dropped' \in BOOLEAN
      /\ Clean(queue')
      /\ ~dropped' => ~dropped /\ queue' = queue \o Shown(g)
  BY <1>1, EmitFacts DEF Screen
<1>3. ASSUME ~dropped' PROVE Heading(queue', draft', t \o g) /\ Unmixed(queue', draft')
  <2>1. Heading(queue, draft, t) /\ Unmixed(queue, draft) /\ queue \in Seq(Events)
        /\ draft \in Seq(Sentence)
    BY <1>2, <1>3 DEF Screen
  <2>2. Heading(queue \o Shown(g), draft, t \o g) /\ Unmixed(queue \o Shown(g), draft)
    BY <2>1, ShowKeepsOrder DEF OneFrom
  <2> QED
    BY <1>2, <1>3, <2>2
<1> QED
  BY <1>2, <1>3 DEF Screen

\* ... what was shown is withdrawn, if there was any ...
LEMMA ScreenResets ==
  ASSUME NEW t \in Seq(Sentence), Screen(queue, dropped, draft, t),
         Emit(IF t = <<>> THEN <<>> ELSE <<Reset>>), UNCHANGED draft
  PROVE  Screen(queue', dropped', draft', <<>>)
<1>1. <<>> \in Seq(Events) /\ Clean(<<>>) /\ <<Reset>> \in Seq(Events) /\ Clean(<<Reset>>)
  BY EventFacts DEF Clean
<1>2. CASE t = <<>>
  <2>1. /\ queue' \in Seq(Events) /\ Len(queue') <= QueueLimit /\ dropped' \in BOOLEAN
        /\ Clean(queue')
        /\ ~dropped' => ~dropped /\ queue' = queue \o <<>>
    BY <1>1, <1>2, EmitFacts DEF Screen
  <2>2. queue \o <<>> = queue
    BY DEF Screen
  <2> QED
    BY <1>2, <2>1, <2>2 DEF Screen
<1>3. CASE t # <<>>
  <2>1. /\ queue' \in Seq(Events) /\ Len(queue') <= QueueLimit /\ dropped' \in BOOLEAN
        /\ Clean(queue')
        /\ ~dropped' => ~dropped /\ queue' = queue \o <<Reset>>
    BY <1>1, <1>3, EmitFacts DEF Screen
  <2>2. ~dropped' => Heading(queue', draft', <<>>) /\ Unmixed(queue', draft')
    BY <2>1, ResetKeepsOrder DEF Screen
  <2> QED
    BY <2>1, <2>2 DEF Screen
<1> QED
  BY <1>2, <1>3

\* ... or both at once.
LEMMA ScreenReplaces ==
  ASSUME NEW t \in Seq(Sentence), NEW g \in Seq(Sentence), NEW from,
         Screen(queue, dropped, draft, t), AllGood(g), OneFrom(g, from),
         Emit((IF t = <<>> THEN <<>> ELSE <<Reset>>) \o Shown(g)), UNCHANGED draft
  PROVE  Screen(queue', dropped', draft', g)
<1>0. Shown(g) \in Seq(Events) /\ Clean(Shown(g)) /\ <<>> \o g = g /\ <<>> \in Seq(Sentence)
      /\ OneFrom(<<>>, from)
  BY ShownFacts DEF OneFrom
<1>1. CASE t = <<>>
  <2>1. (IF t = <<>> THEN <<>> ELSE <<Reset>>) \o Shown(g) = Shown(g)
    BY <1>0, <1>1
  <2>2. Screen(queue', dropped', draft', <<>> \o g)
    BY <1>0, <1>1, <2>1, ScreenShows
  <2> QED
    BY <1>0, <2>2
<1>2. CASE t # <<>>
  <2> DEFINE e == <<Reset>> \o Shown(g)
  <2>1. e \in Seq(Events) /\ Clean(e) /\ Emit(e)
    <3>1. /\ e \in Seq(Events) /\ Len(e) = 1 + Len(Shown(g)) /\ e[1] = Reset
          /\ \A i \in 1..Len(Shown(g)) : e[1 + i] = Shown(g)[i]
      BY <1>0, EventFacts
    <3>2. ASSUME NEW i \in 1..Len(e), e[i] # Reset PROVE Grounded(e[i].text)
      <4>1. i - 1 \in 1..Len(Shown(g)) /\ i = 1 + (i - 1)
        BY <1>0, <3>1, <3>2
      <4>2. e[i] = Shown(g)[i - 1]
        BY <3>1, <4>1
      <4> QED
        BY <1>0, <3>2, <4>1, <4>2 DEF Clean
    <3> QED
      BY <1>2, <3>1, <3>2 DEF Clean
  <2> HIDE DEF e
  <2>2. /\ queue' \in Seq(Events) /\ Len(queue') <= QueueLimit /\ dropped' \in BOOLEAN
        /\ Clean(queue')
        /\ ~dropped' => ~dropped /\ queue' = queue \o e
    BY <2>1, EmitFacts DEF Screen
  <2>3. ASSUME ~dropped' PROVE Heading(queue', draft', g) /\ Unmixed(queue', draft')
    <3>1. Unmixed(queue, draft) /\ queue \in Seq(Events) /\ draft \in Seq(Sentence)
      BY <2>2, <2>3 DEF Screen
    <3> DEFINE r == queue \o <<Reset>>
    <3>2. Heading(r, draft, <<>>) /\ Unmixed(r, draft) /\ r \in Seq(Events)
      BY <3>1, ResetKeepsOrder, EventFacts
    <3>3. r \o Shown(g) = queue \o e
      BY <1>0, <3>1, EventFacts DEF e
    <3> HIDE DEF r
    <3>4. Heading(r \o Shown(g), draft, <<>> \o g) /\ Unmixed(r \o Shown(g), draft)
      BY <1>0, <3>1, <3>2, ShowKeepsOrder DEF OneFrom
    <3> QED
      BY <1>0, <2>2, <2>3, <3>3, <3>4
  <2> QED
    BY <2>2, <2>3 DEF Screen
<1> QED
  BY <1>1, <1>2

\* The reader takes an event, and sees it.
LEMMA ScreenReads ==
  ASSUME NEW t \in Seq(Sentence), Screen(queue, dropped, draft, t), Read
  PROVE  Screen(queue', dropped', draft', t)
<1>1. /\ queue \in Seq(Events) /\ draft \in Seq(Sentence) /\ queue # <<>>
      /\ queue' = Tail(queue) /\ UNCHANGED dropped
      /\ Head(queue) = Reset => draft' = <<>>
      /\ Head(queue) # Reset => draft' = Append(draft, Head(queue).text)
  BY DEF Screen, Read
<1>2. /\ queue' \in Seq(Events) /\ Len(queue') = Len(queue) - 1 /\ Len(queue) \in Nat \ {0}
      /\ \A i \in 1..Len(queue') : queue'[i] = queue[i + 1] /\ i + 1 \in 1..Len(queue)
      /\ Head(queue) = queue[1] /\ queue[1] \in Events
  BY <1>1
<1>3. draft' \in Seq(Sentence) /\ AllGood(draft')
  <2>1. CASE Head(queue) = Reset
    <3>1. draft' = <<>> /\ Len(<<>>) = 0 /\ <<>> \in Seq(Sentence)
      BY <1>1, <2>1
    <3> QED
      BY <3>1 DEF AllGood
  <2>2. CASE Head(queue) # Reset
    <3>1. PICK s \in Sentence : s = queue[1].text
      BY <1>2, <2>2, EventFacts
    <3>2. Grounded(s) /\ draft' = Append(draft, s)
      BY <1>1, <1>2, <2>2, <3>1 DEF Screen, Clean
    <3>3. /\ draft' \in Seq(Sentence) /\ Len(draft') = Len(draft) + 1
          /\ \A i \in 1..Len(draft) : draft'[i] = draft[i]
          /\ draft'[Len(draft) + 1] = s
      BY <1>1, <3>2
    <3>4. ASSUME NEW i \in 1..Len(draft') PROVE Grounded(draft'[i])
      <4>1. i \in 1..Len(draft) \/ i = Len(draft) + 1
        BY <1>1, <3>3
      <4> QED
        BY <3>2, <3>3, <4>1 DEF Screen, AllGood
    <3> QED
      BY <3>3, <3>4 DEF AllGood
  <2> QED
    BY <2>1, <2>2
<1>4. ~dropped => Heading(queue', draft', t) /\ Unmixed(queue', draft')
  BY <1>1, <1>3, ReadKeepsOrder DEF Screen
<1>5. Clean(queue')
  BY <1>2 DEF Screen, Clean
<1>6. Len(queue') <= QueueLimit
  BY <1>2, StreamAssumption DEF Screen
<1> QED
  BY <1>1, <1>2, <1>3, <1>4, <1>5, <1>6 DEF Screen

-----------------------------------------------------------------------------
(* The gate.                                                               *)

\* What the gate released and keeps is the text t it was fed; or, once it holds back, the
\* beginning of t up to what it holds back for.
Fills(rel, buf, holds, t) ==
  /\ rel \in Seq(Sentence) /\ buf \in Seq(Sentence) /\ holds \in BOOLEAN /\ AllGood(rel)
  /\ Len(rel) + Len(buf) <= Len(t)
  /\ \A i \in 1..Len(rel) : rel[i] = t[i]
  /\ \A i \in 1..Len(buf) : buf[i] = t[Len(rel) + i]
  /\ holds => Len(buf) > 0 /\ ~Grounded(buf[1])
  /\ ~holds => Len(rel) + Len(buf) = Len(t)

LEMMA FillsFrom ==
  ASSUME NEW t \in Seq(Sentence), NEW from, OneFrom(t, from),
         NEW rel, NEW buf, NEW holds, Fills(rel, buf, holds, t)
  PROVE  OneFrom(rel, from)
<1>1. \A i \in 1..Len(rel) : i \in 1..Len(t)
  BY DEF Fills
<1> QED
  BY <1>1 DEF Fills, OneFrom

\* The split of a text into what passes, n sentences, and the rest of it, is a state of
\* the gate.
LEMMA SplitFills ==
  ASSUME NEW rel \in Seq(Sentence), AllGood(rel), NEW all \in Seq(Sentence),
         NEW n \in 0..Len(all), \A i \in 1..n : Grounded(all[i]), NEW holds \in BOOLEAN,
         holds => n < Len(all) /\ ~Grounded(all[n + 1])
  PROVE  /\ Fills(rel \o SubSeq(all, 1, n), SubSeq(all, n + 1, Len(all)), holds, rel \o all)
         /\ AllGood(SubSeq(all, 1, n))
<1> DEFINE g == SubSeq(all, 1, n)
           buf == SubSeq(all, n + 1, Len(all))
           out == rel \o g
           t == rel \o all
           m == Len(rel)
<1>1. /\ m \in Nat /\ Len(all) \in Nat /\ n \in Nat /\ n <= Len(all)
  OBVIOUS
<1>2. /\ g \in Seq(Sentence) /\ Len(g) = n /\ \A i \in 1..n : g[i] = all[i]
  BY <1>1
<1>3. /\ buf \in Seq(Sentence) /\ Len(buf) = Len(all) - n
      /\ \A i \in 1..(Len(all) - n) : buf[i] = all[n + i]
  <2>1. CASE n = Len(all)
    BY <1>1, <2>1
  <2>2. CASE n < Len(all)
    <3>1. n + 1 \in 1..Len(all)
      BY <1>1, <2>2
    <3>2. /\ SubSeq(all, n + 1, Len(all)) \in Seq(Sentence)
          /\ Len(SubSeq(all, n + 1, Len(all))) = Len(all) - (n + 1) + 1
          /\ \A i \in 1..(Len(all) - (n + 1) + 1) :
               SubSeq(all, n + 1, Len(all))[i] = all[n + 1 + i - 1]
      BY <1>1, <3>1
    <3>3. /\ Len(all) - (n + 1) + 1 = Len(all) - n
          /\ \A i \in 1..(Len(all) - n) : n + 1 + i - 1 = n + i
      BY <1>1
    <3> QED
      BY <3>2, <3>3
  <2> QED
    BY <1>1, <2>1, <2>2
<1> HIDE DEF g, buf
<1>4. /\ out \in Seq(Sentence) /\ Len(out) = m + n
      /\ \A i \in 1..m : out[i] = rel[i]
      /\ \A i \in 1..n : out[m + i] = g[i]
  BY <1>1, <1>2
<1>5. /\ t \in Seq(Sentence) /\ Len(t) = m + Len(all)
      /\ \A i \in 1..m : t[i] = rel[i]
      /\ \A i \in 1..Len(all) : t[m + i] = all[i]
  BY <1>1
<1> HIDE DEF out, t
<1>6. ASSUME NEW i \in 1..Len(out) PROVE out[i] = t[i] /\ Grounded(out[i])
  <2>1. CASE i \in 1..m
    BY <1>4, <1>5, <2>1 DEF AllGood
  <2>2. CASE i \notin 1..m
    <3>1. i - m \in 1..n /\ m + (i - m) = i
      BY <1>1, <1>4, <2>2
    <3>2. PICK j \in 1..n : i = m + j
      BY <3>1
    <3>3. j \in 1..Len(all)
      BY <1>1
    <3>4. out[m + j] = g[j] /\ g[j] = all[j] /\ Grounded(all[j])
      BY <1>2, <1>4
    <3>5. t[m + j] = all[j]
      BY <1>5, <3>3
    <3> QED
      BY <3>2, <3>4, <3>5
  <2> QED
    BY <2>1, <2>2
<1>7. ASSUME NEW i \in 1..Len(buf) PROVE buf[i] = t[Len(out) + i]
  <2>1. n + i \in 1..Len(all) /\ m + (n + i) = Len(out) + i
    BY <1>1, <1>3, <1>4
  <2>2. PICK j \in 1..Len(all) : j = n + i
    BY <2>1
  <2>3. t[m + j] = all[j]
    BY <1>5
  <2>4. buf[i] = all[n + i]
    BY <1>3
  <2> QED
    BY <2>1, <2>2, <2>3, <2>4
<1>8. holds => Len(buf) > 0 /\ ~Grounded(buf[1])
  <2>1. ASSUME holds PROVE Len(buf) > 0 /\ ~Grounded(buf[1])
    <3>1. 1 \in 1..(Len(all) - n)
      BY <1>1, <2>1
    <3> QED
      BY <1>3, <2>1, <3>1
  <2> QED
    BY <2>1
<1>9. Len(out) + Len(buf) = Len(t)
  BY <1>1, <1>3, <1>4, <1>5
<1>10. AllGood(g)
  BY <1>2 DEF AllGood
<1>11. Fills(out, buf, holds, t)
  BY <1>3, <1>4, <1>6, <1>7, <1>8, <1>9 DEF Fills, AllGood
<1> QED
  BY <1>10, <1>11 DEF g, buf, out, t

\* Release lets the sentences that pass through, and shows them.
LEMMA ReleaseKeeps ==
  ASSUME NEW whole \in Seq(Sentence), NEW rest \in Seq(Sentence), NEW from,
         released \in Seq(Sentence), AllGood(released), OneFrom(released, from),
         OneFrom(whole, from), Screen(queue, dropped, draft, released),
         Release(whole, rest), UNCHANGED draft
  PROVE  /\ Fills(released', buffer', held', released \o (whole \o rest))
         /\ Screen(queue', dropped', draft', released')
         /\ ~held' => buffer' = rest
<1> DEFINE all == whole \o rest
<1>1. /\ all \in Seq(Sentence) /\ Len(all) = Len(whole) + Len(rest)
      /\ \A i \in 1..Len(whole) : all[i] = whole[i]
      /\ \A i \in 1..Len(rest) : all[Len(whole) + i] = rest[i]
      /\ Len(whole) \in Nat /\ Len(rest) \in Nat
  OBVIOUS
<1>2. PICK n \in 0..Len(whole) :
        /\ Good(whole) = SubSeq(whole, 1, n) /\ \A i \in 1..n : Grounded(whole[i])
        /\ FirstBad(whole) # {} <=> n < Len(whole)
        /\ n < Len(whole) => ~Grounded(whole[n + 1])
  BY GoodBeginning
<1> DEFINE holds == FirstBad(whole) # {}
<1>3. /\ released' = released \o Good(whole) /\ held' = holds
      /\ buffer' = IF FirstBad(whole) = {} THEN rest
                   ELSE SubSeq(all, Len(Good(whole)) + 1, Len(all))
      /\ Emit(Shown(Good(whole)))
  BY DEF Release, Good
<1>4. /\ SubSeq(all, 1, n) = SubSeq(whole, 1, n) /\ Len(Good(whole)) = n
      /\ Good(whole) \in Seq(Sentence) /\ \A i \in 1..n : Good(whole)[i] = whole[i]
  <2>1. /\ SubSeq(whole, 1, n) \in Seq(Sentence) /\ Len(SubSeq(whole, 1, n)) = n
        /\ \A i \in 1..n : SubSeq(whole, 1, n)[i] = whole[i]
    BY <1>1
  <2>2. /\ SubSeq(all, 1, n) \in Seq(Sentence) /\ Len(SubSeq(all, 1, n)) = n
        /\ \A i \in 1..n : SubSeq(all, 1, n)[i] = whole[i]
    BY <1>1
  <2>3. SubSeq(all, 1, n) = SubSeq(whole, 1, n)
    BY <2>1, <2>2
  <2> QED
    BY <1>2, <2>1, <2>3
<1>5. buffer' = SubSeq(all, n + 1, Len(all))
  <2>1. CASE FirstBad(whole) # {}
    BY <1>3, <1>4, <2>1
  <2>2. CASE FirstBad(whole) = {}
    <3>1. n = Len(whole)
      BY <1>1, <1>2, <2>2
    <3>2. SubSeq(all, n + 1, Len(all)) = rest
      <4>1. CASE Len(rest) = 0
        BY <1>1, <3>1, <4>1
      <4>2. CASE Len(rest) > 0
        <5>1. /\ SubSeq(all, n + 1, Len(all)) \in Seq(Sentence)
              /\ Len(SubSeq(all, n + 1, Len(all))) = Len(rest)
              /\ \A i \in 1..Len(rest) : SubSeq(all, n + 1, Len(all))[i] = all[n + i]
          BY <1>1, <3>1, <4>2
        <5> QED
          BY <1>1, <3>1, <5>1
      <4> QED
        BY <1>1, <4>1, <4>2
    <3> QED
      BY <1>3, <2>2, <3>2
  <2> QED
    BY <2>1, <2>2
<1>6. /\ n \in 0..Len(all) /\ \A i \in 1..n : Grounded(all[i])
      /\ holds \in BOOLEAN /\ (holds => n < Len(all) /\ ~Grounded(all[n + 1]))
  <2>1. n \in 0..Len(all) /\ \A i \in 1..n : all[i] = whole[i]
    BY <1>1
  <2>2. holds => n < Len(all) /\ all[n + 1] = whole[n + 1]
    BY <1>1, <1>2
  <2> QED
    BY <1>2, <2>1, <2>2
<1> HIDE DEF all, holds
<1>7. /\ Fills(released \o SubSeq(all, 1, n), SubSeq(all, n + 1, Len(all)), holds, released \o all)
      /\ AllGood(SubSeq(all, 1, n))
  BY <1>1, <1>6, SplitFills
<1>8. Good(whole) = SubSeq(all, 1, n)
  BY <1>2, <1>4
<1>9. Fills(released', buffer', held', released \o all)
  BY <1>3, <1>5, <1>7, <1>8
<1>10. OneFrom(Good(whole), from)
  <2>1. \A i \in 1..n : i \in 1..Len(whole)
    BY <1>1
  <2> QED
    BY <1>4, <2>1 DEF OneFrom
<1>11. Screen(queue', dropped', draft', released')
  BY <1>3, <1>4, <1>7, <1>8, <1>10, ScreenShows
<1>12. ~held' => buffer' = rest
  BY <1>3 DEF holds
<1> QED
  BY <1>9, <1>11, <1>12 DEF all

\* A text that goes on is fed: the gate is as it would be of the whole text.
LEMMA FeedKeeps ==
  ASSUME NEW t \in Seq(Sentence), NEW more \in Seq(Sentence), more # <<>>, NEW from,
         Fills(released, buffer, held, t), OneFrom(t, from), OneFrom(more, from),
         Screen(queue, dropped, draft, released), Feed(more), UNCHANGED draft
  PROVE  /\ Fills(released', buffer', held', t \o more)
         /\ Screen(queue', dropped', draft', released')
<1>0. /\ t \o more \in Seq(Sentence) /\ Len(t \o more) = Len(t) + Len(more)
      /\ \A i \in 1..Len(t) : (t \o more)[i] = t[i]
      /\ \A i \in 1..Len(more) : (t \o more)[Len(t) + i] = more[i]
      /\ Len(t) \in Nat /\ Len(more) \in Nat \ {0}
  OBVIOUS
<1>1. CASE held
  <2>1. UNCHANGED <<buffer, released, held, queue, dropped>>
    BY <1>1 DEF Feed, gate, live
  <2>2. /\ \A i \in 1..Len(released) : i \in 1..Len(t)
        /\ \A i \in 1..Len(buffer) : Len(released) + i \in 1..Len(t)
        /\ Len(released) + Len(buffer) <= Len(t \o more)
    BY <1>0 DEF Fills
  <2> QED
    BY <1>0, <1>1, <2>1, <2>2 DEF Fills
<1>2. CASE ~held
  <2> DEFINE all == buffer \o more
  <2>1. /\ released \in Seq(Sentence) /\ buffer \in Seq(Sentence) /\ AllGood(released)
        /\ Len(released) + Len(buffer) = Len(t) /\ held \in BOOLEAN
        /\ \A i \in 1..Len(released) : released[i] = t[i]
        /\ \A i \in 1..Len(buffer) : buffer[i] = t[Len(released) + i]
    BY <1>2 DEF Fills
  <2>2. /\ all \in Seq(Sentence) /\ all # <<>> /\ Len(all) = Len(buffer) + Len(more)
        /\ \A i \in 1..Len(buffer) : all[i] = buffer[i]
        /\ \A i \in 1..Len(more) : all[Len(buffer) + i] = more[i]
    BY <1>0, <2>1
  <2>3. Release(Front(all), <<Last(all)>>)
    BY <1>2 DEF Feed
  <2>4. /\ Front(all) \in Seq(Sentence) /\ Len(Front(all)) = Len(all) - 1
        /\ \A i \in 1..(Len(all) - 1) : Front(all)[i] = all[i]
        /\ <<Last(all)>> \in Seq(Sentence) /\ Last(all) = all[Len(all)]
        /\ Len(all) \in Nat \ {0}
    <3>1. Len(all) \in Nat \ {0}
      BY <2>2
    <3> QED
      BY <2>2, <3>1 DEF Front, Last
  <2> HIDE DEF all
  <2>5. OneFrom(all, from)
    <3>1. ASSUME NEW i \in 1..Len(all) PROVE all[i].from = from
      <4>1. CASE i \in 1..Len(buffer)
        <5>1. PICK j \in 1..Len(t) : j = Len(released) + i
          BY <1>0, <2>1, <4>1
        <5>2. buffer[i] = t[j] /\ t[j].from = from
          BY <2>1, <4>1, <5>1 DEF OneFrom
        <5> QED
          BY <2>2, <4>1, <5>2
      <4>2. CASE i \notin 1..Len(buffer)
        <5>1. i - Len(buffer) \in 1..Len(more) /\ i = Len(buffer) + (i - Len(buffer))
          BY <2>1, <2>2, <4>2
        <5> QED
          BY <2>2, <5>1 DEF OneFrom
      <4> QED
        BY <4>1, <4>2
    <3> QED
      BY <3>1 DEF OneFrom
  <2>6. OneFrom(Front(all), from) /\ OneFrom(released, from)
    BY <2>1, <2>4, <2>5, FillsFrom DEF OneFrom
  <2>7. /\ Fills(released', buffer', held', released \o (Front(all) \o <<Last(all)>>))
        /\ Screen(queue', dropped', draft', released')
    BY <2>1, <2>3, <2>4, <2>6, ReleaseKeeps
  <2>8. Front(all) \o <<Last(all)>> = all
    BY <2>2, <2>4
  <2>9. released \o all = t \o more
    <3>1. released \o buffer = t
      <4>1. /\ released \o buffer \in Seq(Sentence) /\ Len(released \o buffer) = Len(t)
            /\ \A i \in 1..Len(released) : (released \o buffer)[i] = released[i]
            /\ \A i \in 1..Len(buffer) : (released \o buffer)[Len(released) + i] = buffer[i]
        BY <2>1
      <4>2. ASSUME NEW i \in 1..Len(t) PROVE (released \o buffer)[i] = t[i]
        <5>1. CASE i \in 1..Len(released)
          BY <2>1, <4>1, <5>1
        <5>2. CASE i \notin 1..Len(released)
          <6>1. i - Len(released) \in 1..Len(buffer) /\ i = Len(released) + (i - Len(released))
            BY <1>0, <2>1, <5>2
          <6>2. PICK j \in 1..Len(buffer) : i = Len(released) + j
            BY <6>1
          <6> QED
            BY <2>1, <4>1, <6>2
        <5> QED
          BY <5>1, <5>2
      <4>3. PICK u \in Seq(Sentence) : u = released \o buffer
        BY <4>1
      <4>4. Len(u) = Len(t) /\ \A i \in 1..Len(t) : u[i] = t[i]
        BY <4>1, <4>2, <4>3
      <4>5. u = t
        BY <4>4
      <4> QED
        BY <4>3, <4>5
    <3>2. released \o (buffer \o more) = (released \o buffer) \o more
      BY <2>1
    <3> QED
      BY <3>1, <3>2 DEF all
  <2> QED
    BY <2>7, <2>8, <2>9
<1> QED
  BY <1>1, <1>2

\* A text that replaces what was shown.
LEMMA ReplaceKeeps ==
  ASSUME NEW t \in Seq(Sentence), NEW from, OneFrom(t, from),
         released \in Seq(Sentence), Screen(queue, dropped, draft, released),
         Replace(t), UNCHANGED draft
  PROVE  /\ Fills(released', buffer', held', t)
         /\ Screen(queue', dropped', draft', released')
<1> DEFINE whole == IF t = <<>> THEN <<>> ELSE Front(t)
<1>1. /\ whole \in Seq(Sentence) /\ Len(whole) <= Len(t) /\ Len(whole) \in Nat /\ Len(t) \in Nat
      /\ \A i \in 1..Len(whole) : whole[i] = t[i]
  <2>1. CASE t = <<>>
    BY <2>1
  <2>2. CASE t # <<>>
    <3>1. Len(t) \in Nat \ {0}
      BY <2>2
    <3> QED
      BY <2>2, <3>1 DEF Front
  <2> QED
    BY <2>1, <2>2
<1> HIDE DEF whole
<1>2. PICK n \in 0..Len(whole) :
        /\ Good(whole) = SubSeq(whole, 1, n) /\ \A i \in 1..n : Grounded(whole[i])
        /\ FirstBad(whole) # {} <=> n < Len(whole)
        /\ n < Len(whole) => ~Grounded(whole[n + 1])
  BY <1>1, GoodBeginning
<1> DEFINE holds == FirstBad(whole) # {}
<1>3. /\ released' = Good(whole) /\ held' = holds
      /\ buffer' = SubSeq(t, Len(Good(whole)) + 1, Len(t))
      /\ Emit((IF released = <<>> THEN <<>> ELSE <<Reset>>) \o Shown(Good(whole)))
  BY DEF Replace, Good, whole
<1>4. /\ SubSeq(t, 1, n) = SubSeq(whole, 1, n) /\ Len(Good(whole)) = n
      /\ Good(whole) \in Seq(Sentence) /\ \A i \in 1..n : Good(whole)[i] = t[i]
  <2>1. /\ SubSeq(whole, 1, n) \in Seq(Sentence) /\ Len(SubSeq(whole, 1, n)) = n
        /\ \A i \in 1..n : SubSeq(whole, 1, n)[i] = t[i]
    BY <1>1
  <2>2. /\ SubSeq(t, 1, n) \in Seq(Sentence) /\ Len(SubSeq(t, 1, n)) = n
        /\ \A i \in 1..n : SubSeq(t, 1, n)[i] = t[i]
    BY <1>1
  <2>3. SubSeq(t, 1, n) = SubSeq(whole, 1, n)
    BY <2>1, <2>2
  <2> QED
    BY <1>2, <2>1, <2>3
<1>5. /\ n \in 0..Len(t) /\ \A i \in 1..n : Grounded(t[i])
      /\ holds \in BOOLEAN /\ (holds => n < Len(t) /\ ~Grounded(t[n + 1]))
  <2>1. n \in 0..Len(t) /\ \A i \in 1..n : t[i] = whole[i]
    BY <1>1
  <2>2. ASSUME holds PROVE n < Len(t) /\ t[n + 1] = whole[n + 1]
    <3>1. n < Len(whole) /\ n \in Nat
      BY <1>1, <1>2, <2>2
    <3>2. PICK j \in 1..Len(whole) : j = n + 1
      BY <1>1, <3>1
    <3> QED
      BY <1>1, <3>1, <3>2
  <2> QED
    BY <1>2, <2>1, <2>2
<1>6. <<>> \in Seq(Sentence) /\ AllGood(<<>>) /\ <<>> \o t = t
      /\ <<>> \o SubSeq(t, 1, n) = SubSeq(t, 1, n)
  BY <1>2, <1>4 DEF AllGood
<1> HIDE DEF holds
<1>7. /\ Fills(SubSeq(t, 1, n), SubSeq(t, n + 1, Len(t)), holds, t)
      /\ AllGood(SubSeq(t, 1, n))
  BY <1>5, <1>6, SplitFills
<1>8. Good(whole) = SubSeq(t, 1, n)
  BY <1>2, <1>4
<1>9. Fills(released', buffer', held', t)
  BY <1>3, <1>4, <1>7, <1>8
<1>10. OneFrom(Good(whole), from)
  BY <1>4, <1>5 DEF OneFrom
<1>11. Screen(queue', dropped', draft', released')
  BY <1>3, <1>4, <1>7, <1>8, <1>10, ScreenReplaces
<1> QED
  BY <1>9, <1>11

-----------------------------------------------------------------------------
(* The stream.                                                             *)

\* What the reader is to have on screen once the queue is drained.
Target ==
  IF step = "closed" THEN (IF Accepted THEN prose ELSE <<>>) ELSE released

Types ==
  /\ step \in {"start", "primary", "failsafe", "merge", "closed", "stopped", "done"}
  /\ keys \subseteq {"primary", "failsafe"} /\ source \in Sources
  /\ parts \in Seq(Sentence) /\ Len(parts) <= MaxPieces
  /\ cached \in Seq(Sentence) /\ Len(cached) <= MaxPieces
  /\ buffer \in Seq(Sentence) /\ released \in Seq(Sentence) /\ held \in BOOLEAN
  /\ Len(buffer) + Len(released) <= MaxPieces
  /\ prose \in Seq(Sentence)

\* Whatever was shown or is to be served is of the source that is being read.
OneSource == AllGood(released) /\ OneFrom(released, source) /\ OneFrom(prose, source)

\* Nothing happened before the cache is asked.
Fresh ==
  step = "start" =>
    /\ source = 0 /\ parts = <<>> /\ released = <<>> /\ buffer = <<>> /\ held = FALSE
    /\ prose = <<>> /\ OneFrom(cached, 0)

\* While a model writes, the gate has what was read from it; in the end, what generate returned.
Reading ==
  step \in {"primary", "failsafe"} =>
    Fills(released, buffer, held, parts) /\ OneFrom(parts, source) /\ prose = <<>>
Merged == step = "merge" => prose = <<>> \/ Fills(released, buffer, held, prose)

View ==
  IF step = "done"
  THEN queue = <<>> /\ dropped \in BOOLEAN /\ draft \in Seq(Sentence) /\ OneFrom(draft, source)
  ELSE Screen(queue, dropped, draft, Target)

StreamInv == Types /\ OneSource /\ Fresh /\ Reading /\ Merged /\ View

LEMMA EmptyFacts ==
  /\ <<>> \in Seq(Sentence) /\ <<>> \in Seq(Events) /\ Len(<<>>) = 0
  /\ Fills(<<>>, <<>>, FALSE, <<>>) /\ AllGood(<<>>) /\ \A from : OneFrom(<<>>, from)
  /\ \A t \in Seq(Sentence) : <<>> \o t = t /\ t \o <<>> = t
<1>1. <<>> \in Seq(Sentence) /\ <<>> \in Seq(Events) /\ Len(<<>>) = 0
  OBVIOUS
<1> QED
  BY <1>1 DEF Fills, AllGood, OneFrom

LEMMA StreamStarts == Init => StreamInv
<1> SUFFICES ASSUME Init PROVE StreamInv
  OBVIOUS
<1> USE StreamAssumption, EmptyFacts
<1>1. cached \in Seq(Sentence) /\ Len(cached) <= MaxPieces /\ OneFrom(cached, 0)
  <2>1. CASE cached = <<>>
    BY <2>1
  <2>2. CASE cached \in [1..1 -> [from : {0}, kind : Kinds]]
    <3>1. cached \in [1..1 -> Sentence]
      BY <2>2 DEF Sentence, Sources, Failsafe
    <3>2. PICK s \in Sentence : s = cached[1]
      BY <3>1
    <3>3. cached = <<s>>
      BY <3>1, <3>2
    <3>4. cached \in Seq(Sentence) /\ Len(cached) = 1
      BY <3>2, <3>3
    <3> QED
      BY <2>2, <3>4 DEF OneFrom
  <2> QED
    BY <2>1, <2>2 DEF Init
<1>2. Types
  <2>1. source \in Sources /\ keys \subseteq {"primary", "failsafe"}
    BY DEF Init, Sources, Failsafe
  <2>2. Len(parts) <= MaxPieces /\ Len(buffer) + Len(released) <= MaxPieces
    BY DEF Init
  <2> QED
    BY <1>1, <2>1, <2>2 DEF Init, Types
<1>3. OneSource /\ Fresh /\ Reading /\ Merged
  BY <1>1 DEF Init, OneSource, Fresh, Reading, Merged
<1>4. Screen(<<>>, FALSE, <<>>, <<>>)
  <2>1. Heading(<<>>, <<>>, <<>>)
    <3>1. 0 \in 0..Len(<<>>) /\ Seam(<<>>, <<>>, 0, <<>>)
      BY DEF Seam
    <3>2. Follows(<<>>, <<>>, 0, <<>>)
      BY DEF Follows
    <3> QED
      BY <3>1, <3>2 DEF Heading
  <2>2. Unmixed(<<>>, <<>>) /\ Clean(<<>>)
    BY DEF Unmixed, Clean
  <2> QED
    BY <2>1, <2>2 DEF Screen
<1>5. View
  BY <1>4 DEF Init, View, Target
<1> QED
  BY <1>2, <1>3, <1>5 DEF StreamInv

\* What the gate has of a text is as small as the text.
LEMMA FillsTypes ==
  ASSUME NEW t \in Seq(Sentence), Len(t) <= MaxPieces, NEW from, OneFrom(t, from),
         NEW rel, NEW buf, NEW holds, Fills(rel, buf, holds, t)
  PROVE  /\ rel \in Seq(Sentence) /\ buf \in Seq(Sentence) /\ holds \in BOOLEAN
         /\ Len(buf) + Len(rel) <= MaxPieces /\ AllGood(rel) /\ OneFrom(rel, from)
<1>1. rel \in Seq(Sentence) /\ buf \in Seq(Sentence) /\ Len(rel) + Len(buf) <= Len(t)
  BY DEF Fills
<1>2. Len(buf) + Len(rel) <= MaxPieces
  BY <1>1, StreamAssumption
<1> QED
  BY <1>1, <1>2, FillsFrom DEF Fills

LEMMA HitKeeps == StreamInv /\ Hit => StreamInv'
<1> SUFFICES ASSUME StreamInv, Hit PROVE StreamInv'
  OBVIOUS
<1> USE DEF StreamInv
<1>1. /\ step = "start" /\ cached # <<>> /\ Feed(cached) /\ prose' = cached /\ step' = "merge"
      /\ UNCHANGED <<keys, source, parts, cached, draft>>
  BY DEF Hit, call
<1>2. /\ source = 0 /\ OneFrom(cached, 0) /\ cached \in Seq(Sentence) /\ Len(cached) <= MaxPieces
      /\ Fills(released, buffer, held, <<>>) /\ Screen(queue, dropped, draft, released)
  BY <1>1, EmptyFacts DEF Fresh, Types, View, Target
<1>3. /\ Fills(released', buffer', held', <<>> \o cached)
      /\ Screen(queue', dropped', draft', released')
  BY <1>1, <1>2, EmptyFacts, FeedKeeps
<1>4. Fills(released', buffer', held', cached)
  BY <1>2, <1>3, EmptyFacts
<1>5. /\ released' \in Seq(Sentence) /\ buffer' \in Seq(Sentence) /\ held' \in BOOLEAN
      /\ Len(buffer') + Len(released') <= MaxPieces /\ AllGood(released') /\ OneFrom(released', 0)
  BY <1>2, <1>4, FillsTypes
<1>6. Types'
  BY <1>1, <1>2, <1>5 DEF Types
<1>7. OneSource' /\ Fresh' /\ Reading' /\ Merged'
  BY <1>1, <1>2, <1>4, <1>5 DEF OneSource, Fresh, Reading, Merged, OneFrom, AllGood
<1>8. View'
  BY <1>1, <1>3 DEF View, Target
<1> QED
  BY <1>6, <1>7, <1>8

\* A new source is read from its beginning.
LEMMA RestartKeeps ==
  ASSUME StreamInv, step # "done", step # "closed", Restart, step' \in {"primary", "failsafe"},
         source' \in Sources, parts' = <<>>, prose = <<>>, UNCHANGED <<keys, prose, draft>>,
         cached' \in Seq(Sentence), Len(cached') <= MaxPieces
  PROVE  StreamInv'
<1> USE EmptyFacts, StreamAssumption DEF StreamInv
<1>1. /\ released' = <<>> /\ buffer' = <<>> /\ held' = FALSE
      /\ Emit(IF released = <<>> THEN <<>> ELSE <<Reset>>)
  BY DEF Restart, Empty
<1>2. released \in Seq(Sentence) /\ Screen(queue, dropped, draft, released)
  BY DEF Types, View, Target
<1>3. Screen(queue', dropped', draft', <<>>)
  BY <1>1, <1>2, ScreenResets
<1>4. Types'
  <2>1. Len(parts') <= MaxPieces /\ Len(buffer') + Len(released') <= MaxPieces
    BY <1>1
  <2>2. prose' \in Seq(Sentence) /\ keys' \subseteq {"primary", "failsafe"}
    BY DEF Types
  <2> QED
    BY <1>1, <2>1, <2>2 DEF Types
<1>5. OneSource' /\ Fresh' /\ Reading' /\ Merged'
  <2>1. released' = <<>> /\ buffer' = <<>> /\ held' = FALSE /\ parts' = <<>> /\ prose' = <<>>
    BY <1>1
  <2>2. OneFrom(released', source') /\ OneFrom(prose', source') /\ OneFrom(parts', source')
    BY <2>1
  <2>3. AllGood(released') /\ Fills(released', buffer', held', parts')
    BY <2>1
  <2>4. OneSource'
    BY <2>2, <2>3 DEF OneSource, OneFrom, AllGood
  <2>5. Reading'
    BY <2>1, <2>2, <2>3 DEF Reading, OneFrom, Fills, AllGood
  <2> QED
    BY <2>4, <2>5 DEF Fresh, Merged
<1>6. View'
  BY <1>1, <1>3 DEF View, Target
<1> QED
  BY <1>4, <1>5, <1>6

\* No text comes of it: what was shown waits to be withdrawn.
LEMMA GivesUpKeeps ==
  ASSUME StreamInv, step # "done", step # "closed", step' \in {"merge", "stopped"},
         step' = "merge" => prose = <<>>,
         UNCHANGED <<keys, source, gate, prose, live, draft>>,
         parts' \in Seq(Sentence), Len(parts') <= MaxPieces,
         cached' \in Seq(Sentence), Len(cached') <= MaxPieces
  PROVE  StreamInv'
<1> USE DEF StreamInv
<1>1. UNCHANGED <<keys, source, buffer, released, held, prose, queue, dropped, draft>>
  BY DEF gate, live
<1>2. Types'
  BY <1>1 DEF Types
<1>3. OneSource' /\ Fresh' /\ Reading' /\ Merged'
  BY <1>1 DEF OneSource, Fresh, Reading, Merged, OneFrom, AllGood
<1>4. Screen(queue, dropped, draft, released)
  BY DEF View, Target
<1>5. View'
  BY <1>1, <1>4 DEF View, Target
<1> QED
  BY <1>2, <1>3, <1>5

LEMMA MissKeeps == StreamInv /\ Miss => StreamInv'
<1> SUFFICES ASSUME StreamInv, Miss PROVE StreamInv'
  OBVIOUS
<1>1. /\ step = "start" /\ parts = <<>> /\ prose = <<>>
      /\ UNCHANGED <<keys, parts, prose, draft>>
      /\ cached' \in {<<>>, cached}
      /\ cached \in Seq(Sentence) /\ Len(cached) <= MaxPieces
  BY DEF Miss, StreamInv, Fresh, Types
<1>2. cached' \in Seq(Sentence) /\ Len(cached') <= MaxPieces
  <2>1. CASE cached' = <<>>
    BY <2>1, EmptyFacts, StreamAssumption
  <2>2. CASE cached' = cached
    BY <1>1, <2>2
  <2> QED
    BY <1>1, <2>1, <2>2
<1>3. parts' = <<>> /\ parts' \in Seq(Sentence) /\ Len(parts') <= MaxPieces
  BY <1>1, EmptyFacts, StreamAssumption
<1>4. CASE step' = "merge" /\ UNCHANGED <<source, gate, live>>
  BY <1>1, <1>2, <1>3, <1>4, GivesUpKeeps
<1>5. CASE step' = "primary" /\ source' = 1 /\ Restart
  <2>1. source' \in Sources
    BY <1>5, StreamAssumption DEF Sources, Failsafe
  <2> QED
    BY <1>1, <1>2, <1>3, <1>5, <2>1, RestartKeeps
<1>6. CASE step' = "failsafe" /\ source' = Failsafe /\ Restart
  <2>1. source' \in Sources
    BY <1>6, StreamAssumption DEF Sources, Failsafe
  <2> QED
    BY <1>1, <1>2, <1>3, <1>6, <2>1, RestartKeeps
<1> QED
  BY <1>4, <1>5, <1>6 DEF Miss

LEMMA PieceKeeps == StreamInv /\ Piece => StreamInv'
<1> SUFFICES ASSUME StreamInv, Piece PROVE StreamInv'
  OBVIOUS
<1> USE DEF StreamInv
<1>1. /\ step \in {"primary", "failsafe"} /\ Len(parts) < MaxPieces
      /\ UNCHANGED <<step, keys, source, cached, prose, draft>>
  BY DEF Piece
<1>2. PICK kind \in Kinds :
        LET s == [from |-> source, kind |-> kind]
        IN parts' = Append(parts, s) /\ Feed(<<s>>)
  BY DEF Piece
<1>3. PICK s \in Sentence : s.from = source /\ parts' = Append(parts, s) /\ Feed(<<s>>)
  BY <1>2 DEF Sentence, Types
<1>4. /\ parts \in Seq(Sentence) /\ OneFrom(parts, source) /\ prose = <<>>
      /\ Fills(released, buffer, held, parts) /\ Screen(queue, dropped, draft, released)
  BY <1>1 DEF Types, Reading, View, Target
<1>5. /\ <<s>> \in Seq(Sentence) /\ <<s>> # <<>> /\ OneFrom(<<s>>, source)
      /\ parts \o <<s>> = parts' /\ parts' \in Seq(Sentence) /\ Len(parts') = Len(parts) + 1
      /\ \A i \in 1..Len(parts) : parts'[i] = parts[i]
      /\ parts'[Len(parts) + 1] = s
  BY <1>3, <1>4 DEF OneFrom
<1>6. OneFrom(parts', source) /\ Len(parts') <= MaxPieces
  <2>1. ASSUME NEW i \in 1..Len(parts') PROVE parts'[i].from = source
    <3>1. i \in 1..Len(parts) \/ i = Len(parts) + 1
      BY <1>4, <1>5
    <3> QED
      BY <1>3, <1>4, <1>5, <3>1 DEF OneFrom
  <2>2. Len(parts) + 1 <= MaxPieces
    BY <1>1, <1>4, StreamAssumption
  <2> QED
    BY <1>5, <2>1, <2>2 DEF OneFrom
<1>7. /\ Fills(released', buffer', held', parts \o <<s>>)
      /\ Screen(queue', dropped', draft', released')
  BY <1>1, <1>3, <1>4, <1>5, FeedKeeps
<1>8. Fills(released', buffer', held', parts')
  BY <1>5, <1>7
<1>9. /\ released' \in Seq(Sentence) /\ buffer' \in Seq(Sentence) /\ held' \in BOOLEAN
      /\ Len(buffer') + Len(released') <= MaxPieces
      /\ AllGood(released') /\ OneFrom(released', source)
  BY <1>5, <1>6, <1>8, FillsTypes
<1>10. Types'
  BY <1>1, <1>5, <1>6, <1>9 DEF Types
<1>11. OneSource' /\ Fresh' /\ Reading' /\ Merged'
  <2>1. OneFrom(prose, source)
    BY DEF OneSource
  <2> QED
    BY <1>1, <1>4, <1>6, <1>8, <1>9, <2>1
    DEF OneSource, Fresh, Reading, Merged, OneFrom, AllGood
<1>12. View'
  BY <1>1, <1>7 DEF View, Target
<1> QED
  BY <1>10, <1>11, <1>12

LEMMA AnsweredKeeps == StreamInv /\ Answered => StreamInv'
<1> SUFFICES ASSUME StreamInv, Answered PROVE StreamInv'
  OBVIOUS
<1> USE DEF StreamInv
<1>1. /\ step = "primary" /\ step' = "merge" /\ prose' = parts
      /\ cached' = (IF parts = <<>> THEN cached ELSE parts)
      /\ UNCHANGED <<keys, source, parts, buffer, released, held, queue, dropped, draft>>
  BY DEF Answered, gate, live
<1>2. /\ Fills(released, buffer, held, parts) /\ OneFrom(parts, source)
      /\ Screen(queue, dropped, draft, released)
  BY <1>1 DEF Reading, View, Target
<1>3. Types'
  BY <1>1 DEF Types
<1>4. OneSource' /\ Fresh' /\ Reading' /\ Merged'
  BY <1>1, <1>2 DEF OneSource, Fresh, Reading, Merged, OneFrom, AllGood
<1>5. View'
  BY <1>1, <1>2 DEF View, Target
<1> QED
  BY <1>3, <1>4, <1>5

LEMMA BrokenKeeps == StreamInv /\ Broken => StreamInv'
<1> SUFFICES ASSUME StreamInv, Broken PROVE StreamInv'
  OBVIOUS
<1>1. /\ step = "primary" /\ parts' = <<>> /\ prose = <<>>
      /\ UNCHANGED <<keys, cached, prose, draft>>
      /\ cached' \in Seq(Sentence) /\ Len(cached') <= MaxPieces
      /\ parts' \in Seq(Sentence) /\ Len(parts') <= MaxPieces /\ source \in Sources
  BY EmptyFacts, StreamAssumption DEF Broken, StreamInv, Types, Reading
<1>2. CASE source < Attempts /\ source' = source + 1 /\ step' = step /\ Restart
  <2>1. source' \in Sources
    BY <1>1, <1>2, StreamAssumption DEF Sources, Failsafe
  <2> QED
    BY <1>1, <1>2, <2>1, RestartKeeps
<1>3. CASE source' = Failsafe /\ step' = "failsafe" /\ Restart
  <2>1. source' \in Sources
    BY <1>3, StreamAssumption DEF Sources, Failsafe
  <2> QED
    BY <1>1, <1>3, <2>1, RestartKeeps
<1>4. CASE step' = "merge" /\ UNCHANGED <<source, gate, live>>
  BY <1>1, <1>4, GivesUpKeeps
<1> QED
  BY <1>2, <1>3, <1>4 DEF Broken

LEMMA FailsafeBrokenKeeps == StreamInv /\ FailsafeBroken => StreamInv'
<1> SUFFICES ASSUME StreamInv, FailsafeBroken PROVE StreamInv'
  OBVIOUS
<1>1. /\ step = "failsafe" /\ step' = "merge" /\ prose = <<>>
      /\ UNCHANGED <<keys, source, parts, cached, gate, prose, live, draft>>
  BY DEF FailsafeBroken, call, StreamInv, Reading
<1>2. /\ parts' \in Seq(Sentence) /\ Len(parts') <= MaxPieces
      /\ cached' \in Seq(Sentence) /\ Len(cached') <= MaxPieces
  BY <1>1 DEF StreamInv, Types
<1> QED
  BY <1>1, <1>2, GivesUpKeeps

LEMMA CancelKeeps == StreamInv /\ Cancel => StreamInv'
<1> SUFFICES ASSUME StreamInv, Cancel PROVE StreamInv'
  OBVIOUS
<1>1. /\ step \in {"start", "primary", "failsafe"} /\ step' = "stopped"
      /\ UNCHANGED <<keys, source, parts, cached, gate, prose, live, draft>>
  BY DEF Cancel, call
<1>2. /\ parts' \in Seq(Sentence) /\ Len(parts') <= MaxPieces
      /\ cached' \in Seq(Sentence) /\ Len(cached') <= MaxPieces
  BY <1>1 DEF StreamInv, Types
<1> QED
  BY <1>1, <1>2, GivesUpKeeps

LEMMA FailsafeAnsweredKeeps == StreamInv /\ FailsafeAnswered => StreamInv'
<1> SUFFICES ASSUME StreamInv, FailsafeAnswered PROVE StreamInv'
  OBVIOUS
<1> USE DEF StreamInv
<1> DEFINE text == WithoutVerdict(parts)
<1>1. /\ step = "failsafe" /\ step' = "merge" /\ prose' = text
      /\ cached' = (IF text = <<>> THEN cached ELSE text)
      /\ text # parts => Replace(text)
      /\ text = parts => UNCHANGED <<buffer, released, held, queue, dropped>>
      /\ UNCHANGED <<keys, source, parts, draft>>
  BY DEF FailsafeAnswered, gate, live
<1>2. /\ Fills(released, buffer, held, parts) /\ OneFrom(parts, source)
      /\ Screen(queue, dropped, draft, released) /\ parts \in Seq(Sentence)
      /\ Len(parts) <= MaxPieces /\ released \in Seq(Sentence)
  BY <1>1 DEF Reading, View, Target, Types
<1>3. /\ text \in Seq(Sentence) /\ Len(text) <= MaxPieces /\ OneFrom(text, source)
  <2>1. text \in Seq(Sentence) /\ Len(text) <= Len(parts)
    BY <1>2, WithoutVerdictType
  <2>2. \A i \in 1..Len(text) : \E j \in 1..Len(parts) : text[i] = parts[j]
    BY <1>2, WithoutVerdictType
  <2>3. Len(text) <= MaxPieces
    BY <1>2, <2>1, StreamAssumption
  <2> QED
    BY <1>2, <2>1, <2>2, <2>3 DEF OneFrom
<1> HIDE DEF text
<1>4. Fills(released', buffer', held', text) /\ Screen(queue', dropped', draft', released')
  <2>1. CASE text = parts
    BY <1>1, <1>2, <2>1
  <2>2. CASE text # parts
    BY <1>1, <1>2, <1>3, <2>2, ReplaceKeeps
  <2> QED
    BY <2>1, <2>2
<1>5. /\ released' \in Seq(Sentence) /\ buffer' \in Seq(Sentence) /\ held' \in BOOLEAN
      /\ Len(buffer') + Len(released') <= MaxPieces
      /\ AllGood(released') /\ OneFrom(released', source)
  BY <1>3, <1>4, FillsTypes
<1>6. Types'
  BY <1>1, <1>3, <1>5 DEF Types
<1>7. OneSource' /\ Fresh' /\ Reading' /\ Merged'
  BY <1>1, <1>3, <1>4, <1>5 DEF OneSource, Fresh, Reading, Merged, OneFrom, AllGood
<1>8. View'
  BY <1>1, <1>4 DEF View, Target
<1> QED
  BY <1>6, <1>7, <1>8

\* The gate is closed on the text as a whole: what was shown is all of it, or nothing is.
LEMMA CloseKeeps == StreamInv /\ Close => StreamInv'
<1> SUFFICES ASSUME StreamInv, Close PROVE StreamInv'
  OBVIOUS
<1> USE DEF StreamInv
<1>1. /\ step = "merge" /\ step' = "closed"
      /\ UNCHANGED <<keys, source, parts, cached, prose, draft>>
  BY DEF Close, call
<1>2. /\ Screen(queue, dropped, draft, released) /\ released \in Seq(Sentence)
      /\ buffer \in Seq(Sentence) /\ prose \in Seq(Sentence)
      /\ AllGood(released) /\ OneFrom(released, source) /\ OneFrom(prose, source)
  BY <1>1 DEF View, Target, Types, OneSource
<1>3. Accepted' = Accepted
  BY <1>1 DEF Accepted, FirstBad, Grounded
<1>4. CASE ~Accepted
  <2>1. /\ Emit(IF released = <<>> THEN <<>> ELSE <<Reset>>)
        /\ buffer' = <<>> /\ UNCHANGED <<released, held>>
    BY <1>4 DEF Close
  <2>2. Screen(queue', dropped', draft', <<>>)
    BY <1>1, <1>2, <2>1, ScreenResets
  <2>3. Len(buffer') + Len(released') <= MaxPieces
    BY <1>2, <2>1, StreamAssumption DEF Types
  <2>4. Types'
    BY <1>1, <2>1, <2>3, EmptyFacts DEF Types
  <2>5. OneSource' /\ Fresh' /\ Reading' /\ Merged'
    BY <1>1, <2>1 DEF OneSource, Fresh, Reading, Merged, OneFrom, AllGood
  <2>6. View'
    BY <1>1, <1>3, <1>4, <2>2 DEF View, Target
  <2> QED
    BY <2>4, <2>5, <2>6
<1>5. CASE Accepted
  <2>1. prose # <<>> /\ FirstBad(prose) = {} /\ Fills(released, buffer, held, prose)
    BY <1>1, <1>5 DEF Accepted, Merged
  <2>2. \A i \in 1..Len(prose) : Grounded(prose[i])
    <3>1. PICK n \in 0..Len(prose) :
            (\A i \in 1..n : Grounded(prose[i])) /\ (FirstBad(prose) # {} <=> n < Len(prose))
      BY <1>2, GoodBeginning
    <3>2. n = Len(prose)
      BY <1>2, <2>1, <3>1
    <3> QED
      BY <3>1, <3>2
  <2>3. \A rel, buf, holds : Fills(rel, buf, holds, prose) => ~holds
    <3>1. ASSUME NEW rel, NEW buf, NEW holds, Fills(rel, buf, holds, prose), holds PROVE FALSE
      <4>1. /\ rel \in Seq(Sentence) /\ buf \in Seq(Sentence) /\ Len(buf) > 0
            /\ ~Grounded(buf[1]) /\ Len(rel) + Len(buf) <= Len(prose)
            /\ \A i \in 1..Len(buf) : buf[i] = prose[Len(rel) + i]
        BY <3>1 DEF Fills
      <4>2. 1 \in 1..Len(buf) /\ Len(rel) + 1 \in 1..Len(prose)
        BY <1>2, <4>1
      <4> QED
        BY <2>2, <4>1, <4>2
    <3> QED
      BY <3>1
  <2>4. ~held /\ Release(buffer, <<>>)
    BY <1>5, <2>1, <2>3 DEF Close
  <2>5. /\ Len(released) + Len(buffer) = Len(prose)
        /\ \A i \in 1..Len(released) : released[i] = prose[i]
        /\ \A i \in 1..Len(buffer) : buffer[i] = prose[Len(released) + i]
    BY <2>1, <2>4 DEF Fills
  <2>6. OneFrom(buffer, source)
    <3>1. ASSUME NEW i \in 1..Len(buffer) PROVE buffer[i].from = source
      <4>1. PICK j \in 1..Len(prose) : j = Len(released) + i
        BY <1>2, <2>5
      <4> QED
        BY <1>2, <2>5, <4>1 DEF OneFrom
    <3> QED
      BY <3>1 DEF OneFrom
  <2>7. /\ Fills(released', buffer', held', released \o (buffer \o <<>>))
        /\ Screen(queue', dropped', draft', released')
        /\ ~held' => buffer' = <<>>
    BY <1>1, <1>2, <2>4, <2>6, EmptyFacts, ReleaseKeeps
  <2>8. released \o (buffer \o <<>>) = prose
    <3>1. /\ released \o buffer \in Seq(Sentence) /\ Len(released \o buffer) = Len(prose)
          /\ \A i \in 1..Len(released) : (released \o buffer)[i] = released[i]
          /\ \A i \in 1..Len(buffer) : (released \o buffer)[Len(released) + i] = buffer[i]
      BY <1>2, <2>5
    <3>2. ASSUME NEW i \in 1..Len(prose) PROVE (released \o buffer)[i] = prose[i]
      <4>1. CASE i \in 1..Len(released)
        BY <2>5, <3>1, <4>1
      <4>2. CASE i \notin 1..Len(released)
        <5>1. i - Len(released) \in 1..Len(buffer) /\ i = Len(released) + (i - Len(released))
          BY <1>2, <2>5, <4>2
        <5>2. PICK j \in 1..Len(buffer) : i = Len(released) + j
          BY <5>1
        <5> QED
          BY <2>5, <3>1, <5>2
      <4> QED
        BY <4>1, <4>2
    <3>3. PICK u \in Seq(Sentence) : u = released \o buffer
      BY <3>1
    <3>4. Len(u) = Len(prose) /\ \A i \in 1..Len(prose) : u[i] = prose[i]
      BY <3>1, <3>2, <3>3
    <3>5. u = prose
      BY <1>2, <3>4
    <3>6. buffer \o <<>> = buffer
      BY <1>2
    <3> QED
      BY <3>3, <3>5, <3>6
  <2>9. /\ Fills(released', buffer', held', prose) /\ ~held' /\ buffer' = <<>>
    BY <2>3, <2>7, <2>8
  <2>10. released' = prose
    <3>1. /\ released' \in Seq(Sentence) /\ Len(released') = Len(prose)
          /\ \A i \in 1..Len(released') : released'[i] = prose[i]
      BY <2>9 DEF Fills
    <3> QED
      BY <1>2, <3>1
  <2>11. /\ released' \in Seq(Sentence) /\ buffer' \in Seq(Sentence) /\ held' \in BOOLEAN
         /\ AllGood(released') /\ OneFrom(released', source)
    BY <1>2, <2>9, <2>10, EmptyFacts DEF Fills
  <2>12. Len(buffer') + Len(released') <= MaxPieces
    <3>1. Len(released) + Len(buffer) <= MaxPieces
      BY <1>2, StreamAssumption DEF Types
    <3> QED
      BY <1>2, <2>5, <2>9, <2>10, <3>1, EmptyFacts
  <2>13. Types'
    BY <1>1, <2>11, <2>12 DEF Types
  <2>14. OneSource' /\ Fresh' /\ Reading' /\ Merged'
    BY <1>1, <1>2, <2>11 DEF OneSource, Fresh, Reading, Merged, OneFrom, AllGood
  <2>15. View'
    BY <1>1, <1>3, <1>5, <2>7, <2>10 DEF View, Target
  <2> QED
    BY <2>13, <2>14, <2>15
<1> QED
  BY <1>4, <1>5

LEMMA ReaderKeeps == StreamInv /\ Read => StreamInv'
<1> SUFFICES ASSUME StreamInv, Read PROVE StreamInv'
  OBVIOUS
<1> USE DEF StreamInv
<1>1. /\ step # "done"
      /\ UNCHANGED <<step, keys, source, parts, cached, buffer, released, held, prose>>
  BY DEF Read, call, gate
<1>2. Target \in Seq(Sentence) /\ Target' = Target
  BY <1>1, EmptyFacts DEF Target, Types, Accepted, FirstBad, Grounded
<1>3. Screen(queue', dropped', draft', Target)
  BY <1>1, <1>2, ScreenReads DEF View
<1>4. Types' /\ OneSource' /\ Fresh' /\ Reading' /\ Merged'
  BY <1>1 DEF Types, OneSource, Fresh, Reading, Merged, OneFrom, AllGood
<1>5. View'
  BY <1>1, <1>2, <1>3 DEF View
<1> QED
  BY <1>4, <1>5

LEMMA ServedKeeps == StreamInv /\ Served => StreamInv'
<1> SUFFICES ASSUME StreamInv, Served PROVE StreamInv'
  OBVIOUS
<1> USE DEF StreamInv
<1>1. /\ step = "closed" /\ step' = "done" /\ queue = <<>>
      /\ draft' = (IF Accepted THEN prose ELSE <<>>)
      /\ UNCHANGED <<keys, source, parts, cached, buffer, released, held, prose, queue, dropped>>
  BY DEF Served, call, gate, live
<1>2. prose \in Seq(Sentence) /\ OneFrom(prose, source) /\ dropped \in BOOLEAN
  BY <1>1 DEF Types, OneSource, View, Screen
<1>3. Types' /\ OneSource' /\ Fresh' /\ Reading' /\ Merged'
  BY <1>1 DEF Types, OneSource, Fresh, Reading, Merged, OneFrom, AllGood
<1>4. draft' \in Seq(Sentence) /\ OneFrom(draft', source)
  BY <1>1, <1>2, EmptyFacts
<1>5. View'
  BY <1>1, <1>2, <1>4 DEF View, OneFrom
<1> QED
  BY <1>3, <1>5

LEMMA StreamNext == StreamInv /\ [Next]_vars => StreamInv'
<1> SUFFICES ASSUME StreamInv, [Next]_vars PROVE StreamInv'
  OBVIOUS
<1>1. CASE UNCHANGED vars
  <2>1. UNCHANGED <<step, keys, source, parts, cached, buffer, released, held, prose, queue,
                    dropped, draft>>
    BY <1>1 DEF vars, call, gate, live
  <2>2. Target' = Target
    BY <2>1 DEF Target, Accepted, FirstBad, Grounded
  <2> QED
    BY <2>1, <2>2 DEF StreamInv, Types, OneSource, Fresh, Reading, Merged, View, OneFrom, AllGood
<1>2. CASE Call
  BY <1>2, HitKeeps, MissKeeps, PieceKeeps, AnsweredKeeps, BrokenKeeps, FailsafeAnsweredKeeps,
     FailsafeBrokenKeeps, CloseKeeps DEF Call
<1> QED
  BY <1>1, <1>2, ReaderKeeps, ServedKeeps, CancelKeeps DEF Next

\* What the reader sees follows.
LEMMA StreamHolds ==
  StreamInv => TypeOK /\ NothingUngroundedShown /\ OneAttemptShown /\ DraftIsTheAnswer
<1> SUFFICES ASSUME StreamInv
             PROVE  TypeOK /\ NothingUngroundedShown /\ OneAttemptShown /\ DraftIsTheAnswer
  OBVIOUS
<1> USE DEF StreamInv
<1>1. TypeOK
  <2>1. /\ queue \in Seq(Events) /\ Len(queue) <= QueueLimit /\ dropped \in BOOLEAN
        /\ draft \in Seq(Sentence)
    <3>1. CASE step = "done"
      BY <3>1, EmptyFacts, StreamAssumption DEF View
    <3>2. CASE step # "done"
      BY <3>2 DEF View, Screen
    <3> QED
      BY <3>1, <3>2
  <2>2. \A i \in DOMAIN queue : queue[i] = Reset \/ \E s \in Sentence : queue[i] = Delta(s)
    BY <2>1 DEF Events
  <2> QED
    BY <2>1, <2>2 DEF Types, TypeOK
<1>2. NothingUngroundedShown
  <2>1. ASSUME step # "done", NEW s \in OnTheWay \cup ToSet(draft) PROVE Grounded(s)
    <3>1. /\ queue \in Seq(Events) /\ draft \in Seq(Sentence) /\ Clean(queue) /\ AllGood(draft)
      BY <2>1 DEF View, Screen
    <3>2. CASE s \in OnTheWay
      BY <3>1, <3>2 DEF OnTheWay, Clean
    <3>3. CASE s \in ToSet(draft)
      BY <3>1, <3>3 DEF ToSet, AllGood
    <3> QED
      BY <2>1, <3>2, <3>3
  <2> QED
    BY <2>1 DEF NothingUngroundedShown
<1>3. OneAttemptShown
  <2>1. ASSUME ~dropped PROVE \A i, j \in 1..Len(draft) : draft[i].from = draft[j].from
    <3>1. CASE step = "done"
      BY <3>1 DEF View, OneFrom
    <3>2. CASE step # "done"
      BY <2>1, <3>2 DEF View, Screen, Unmixed
    <3> QED
      BY <3>1, <3>2
  <2>2. draft \in Seq(Sentence)
    BY DEF View, Screen
  <2> QED
    BY <2>1, <2>2 DEF OneAttemptShown, ToSet
<1>4. DraftIsTheAnswer
  <2>1. ASSUME step = "closed", queue = <<>>, ~dropped
        PROVE  draft = (IF Accepted THEN prose ELSE <<>>)
    <3> DEFINE t == IF Accepted THEN prose ELSE <<>>
    <3>1. /\ draft \in Seq(Sentence) /\ Heading(queue, draft, t) /\ t \in Seq(Sentence)
      BY <2>1, EmptyFacts DEF View, Target, Screen, Types
    <3> HIDE DEF t
    <3>2. PICK k \in 0..Len(queue), b \in {draft, <<>>} :
            Seam(queue, draft, k, b) /\ Follows(queue, t, k, b)
      BY <3>1 DEF Heading
    <3>3. k = 0 /\ Len(queue) = 0
      BY <2>1
    <3>4. b = draft
      BY <3>2, <3>3 DEF Seam
    <3>5. Len(t) = Len(draft) /\ \A i \in 1..Len(draft) : t[i] = draft[i]
      BY <3>1, <3>2, <3>3, <3>4 DEF Follows
    <3>6. draft = t
      BY <3>1, <3>5
    <3> QED
      BY <3>6 DEF t
  <2> QED
    BY <2>1 DEF DraftIsTheAnswer
<1> QED
  BY <1>1, <1>2, <1>3, <1>4

-----------------------------------------------------------------------------
(* The theorems.                                                           *)

\* Each part takes its own steps or none.
LEMMA EachAlone ==
  ASSUME [MCNext]_<<part, vars, runVars>>
  PROVE  [Next]_vars /\ [Run!Next]_(Run!vars)
<1>1. UNCHANGED runVars => UNCHANGED Run!vars
  BY DEF runVars, Run!vars, Run!decision, Run!agents, Run!written
<1> QED
  BY <1>1 DEF MCNext

\* OneAnswerShown for any number of attempts, sentences and places in the queue: whatever is
\* retried, replaced or dropped, the reader never sees a sentence that failed its check
\* (SentenceGate), and unless events were dropped sees one attempt of the model, which is in
\* the end the text that is served or nothing.
THEOREM AnswerIsOne == MCSpec => []OneAnswerShown
<1>1. MCInit => StreamInv /\ RunInv
  BY StreamStarts, RunStarts DEF MCInit
<1>2. StreamInv /\ RunInv /\ [MCNext]_<<part, vars, runVars>> => (StreamInv /\ RunInv)'
  BY EachAlone, StreamNext, RunNext
<1>3. StreamInv /\ RunInv => OneAnswerShown
  BY StreamHolds DEF OneAnswerShown, RunInv
<1> QED
  BY <1>1, <1>2, <1>3, PTL DEF MCSpec

\* RunSettled for any set of agents: an answer or a failure of run_query leaves no agent and
\* no search at work, and an agent that was lost shows and costs the others nothing.
THEOREM RunIsSettled == MCSpec => []RunSettled
<1>1. MCInit => RunInv
  BY RunStarts DEF MCInit
<1>2. RunInv /\ [MCNext]_<<part, vars, runVars>> => RunInv'
  BY EachAlone, RunNext
<1>3. RunInv => RunSettled
  BY RunHolds
<1> QED
  BY <1>1, <1>2, <1>3, PTL DEF MCSpec
=============================================================================
