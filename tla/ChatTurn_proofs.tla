-------------------------- MODULE ChatTurn_proofs --------------------------
(***************************************************************************)
(* What holds of a turn for any number of clients, events, drops, Stops    *)
(* and crashes, with or without a mirror.                                  *)
(*                                                                         *)
(* The argument: a pending Stop is always delivered at an await            *)
(* (StopParked), so a task that has left its handlers never writes again;  *)
(* hence a log without a `done' frame that is closed stays without one,    *)
(* and a client of this worker, which has exactly the first frames of the  *)
(* log, cannot have missed one.  The publishing order of the handlers      *)
(* (AfterPublish, OneAnswering, FailedLate) is what keeps the transcript   *)
(* (RowInv) and the last frame (DoneInv) true to the answer, and each      *)
(* step of the turn is then one of TurnPromise's, or none of them.         *)
(***************************************************************************)
EXTENDS ChatTurn, TLAPS

\* A Stop is only ever pending while the task is parked.
StopParked == stop => Parked

\* The sink never holds more events than were emitted.
SinkInv == events <= emitted

\* A frame is in the log before it is mirrored.
LogFirst == pc = "mirrored" => frames # <<>>

\* The types, and the three facts about the control they depend on.
TaskInv == TypeOK /\ StopParked /\ SinkInv /\ LogFirst

-----------------------------------------------------------------------------
\* The initial states are well typed and no Stop is pending in them.
LEMMA TaskInit == Init => TaskInv
<1> SUFFICES ASSUME Init PROVE TaskInv
  OBVIOUS
<1> USE ChatTurnAssumption DEF Init, Modes
<1>1. TypeOK
  <2>1. pc \in PCs /\ after \in PCs /\ then \in FlushThen
    BY DEF PCs, FlushThen, Awaits, Handlers
  <2>2. /\ inner \in {"none", "running", "recording"} \cup InnerDone
        /\ frames \in Seq(Events) /\ mirror \subseteq 1..Len(frames)
    BY DEF InnerDone
  <2>3. /\ conn \in [Clients -> {"away", "local", "remote", "done", "synthetic"}]
        /\ got \in [Clients -> Seq(Nat)]
    OBVIOUS
  <2>4. /\ exit \in {"normal", "failed", "cancelled"}
        /\ innerStop \in BOOLEAN /\ stop \in BOOLEAN /\ done \in BOOLEAN
        /\ opened \in BOOLEAN /\ flag \in BOOLEAN
    OBVIOUS
  <2>5. /\ events \in 0..MaxEvents /\ emitted \in 0..MaxEvents
        /\ drops \in 0..MaxDrops /\ stops \in 0..MaxStops
        /\ writing \subseteq Rows /\ saved \subseteq Rows /\ lost \subseteq Rows
        /\ via \subseteq Clients
    OBVIOUS
  <2> QED
    BY <2>1, <2>2, <2>3, <2>4, <2>5 DEF TypeOK
<1>2. StopParked /\ SinkInv /\ LogFirst
  BY DEF StopParked, SinkInv, LogFirst
<1> QED
  BY <1>1, <1>2 DEF TaskInv

\* Publishing a frame keeps the log, the mirror and the control well typed.
LEMMA PublishType ==
  ASSUME TypeOK, NEW f \in Events, NEW next \in PCs, Publish(f, next),
         mirror' = mirror
  PROVE  /\ frames' \in Seq(Events) /\ Len(frames') = Len(frames) + 1
         /\ done' \in BOOLEAN
         /\ pc' \in PCs /\ after' \in PCs
         /\ mirror' \subseteq 1..Len(frames')
<1>1. frames' = Append(frames, f) /\ frames' \in Seq(Events) /\ Len(frames') = Len(frames) + 1
  BY DEF TypeOK, Publish, LogAppend
<1>2. mirror' \subseteq 1..Len(frames')
  BY <1>1 DEF TypeOK
<1>3. pc' \in PCs /\ after' \in PCs
  BY ChatTurnAssumption DEF TypeOK, Publish, PCs, Awaits
<1>4. done' \in BOOLEAN
  BY DEF TypeOK, Publish, LogAppend
<1> QED
  BY <1>1, <1>2, <1>3, <1>4

\* No step of the task, the answering task, a thread or a client breaks a type
\* or leaves a Stop pending at code that does not await.
LEMMA TaskNext == TaskInv /\ [Next]_vars => TaskInv'
<1> SUFFICES ASSUME TaskInv, [Next]_vars PROVE TaskInv'
  OBVIOUS
<1> USE ChatTurnAssumption DEF TaskInv, SinkInv, StopParked, LogFirst, Parked
<1> USE DEF task, pumped, rows, turn, redis, tabs
<1> DEFINE LogType == /\ frames' \in Seq(Events) /\ Len(frames') = Len(frames) + 1
                      /\ done' \in BOOLEAN
                      /\ pc' \in PCs /\ after' \in PCs
                      /\ mirror' \subseteq 1..Len(frames')
<1>0. \A f \in Events, next \in PCs : Publish(f, next) /\ mirror' = mirror => LogType
  BY PublishType
<1>1. CASE MirrorOpen
  BY <1>1 DEF MirrorOpen, TypeOK, PCs, Awaits
<1>2. CASE Instructions
  BY <1>2 DEF Instructions, TypeOK, PCs, Awaits
<1>3. CASE Resolve
  <2>1. /\ pc' \in PCs /\ after' \in PCs /\ then' \in FlushThen
        /\ exit' \in {"normal", "failed", "cancelled"}
        /\ request' \in [regenerate : BOOLEAN, conversation : BOOLEAN,
                         skipClarify : BOOLEAN]
        /\ mode' \in Modes
    BY <1>3 DEF Resolve, TypeOK, PCs, FlushThen, Awaits, Handlers,
             Modes, MayEmit
  <2>2. /\ inner' \in {"none", "running", "recording"} \cup InnerDone
        /\ innerStop' \in BOOLEAN /\ stop' \in BOOLEAN
        /\ events' \in 0..MaxEvents /\ emitted' \in 0..MaxEvents
        /\ writing' \subseteq Rows /\ saved' \subseteq Rows /\ lost' \subseteq Rows
    BY <1>3 DEF Resolve, TypeOK, InnerDone, Rows, Modes, MayEmit
  <2>3. /\ frames' \in Seq(Events) /\ done' \in BOOLEAN
        /\ opened' \in BOOLEAN /\ flag' \in BOOLEAN
        /\ mirror' \subseteq 1..Len(frames')
    BY <1>3 DEF Resolve, TypeOK, Modes, MayEmit
  <2>4. /\ conn' \in [Clients -> {"away", "local", "remote", "done", "synthetic"}]
        /\ got' \in [Clients -> Seq(Nat)]
        /\ via' \subseteq Clients
        /\ drops' \in 0..MaxDrops /\ stops' \in 0..MaxStops
    BY <1>3 DEF Resolve, TypeOK, Modes, MayEmit
  <2>5. StopParked' /\ SinkInv' /\ LogFirst'
    BY <1>3 DEF Resolve, TypeOK, Awaits, Handlers, Modes, MayEmit
  <2> QED
    BY <2>1, <2>2, <2>3, <2>4, <2>5 DEF TypeOK
<1>4. CASE Gate
  BY <1>4 DEF Gate, MayEmit, TypeOK, PCs, FlushThen, Awaits
<1>5. CASE Flush
  BY <1>5 DEF Flush, TypeOK, PCs, Awaits
<1>6. CASE Launch
  BY <1>6 DEF Launch, TypeOK, PCs, Awaits
<1>7. CASE PumpHead
  BY <1>7 DEF PumpHead, LoopHead, TypeOK, PCs, FlushThen, Awaits
<1>8. CASE PumpTimeout
  BY <1>8 DEF PumpTimeout, LoopHead, TypeOK, PCs, FlushThen, Awaits
<1>9. CASE PumpAsk
  BY <1>9 DEF PumpAsk, LoopHead, TypeOK, PCs, FlushThen, Awaits
<1>10. CASE Result
  <2>1. /\ pc' \in PCs /\ after' \in PCs /\ then' \in FlushThen
        /\ exit' \in {"normal", "failed", "cancelled"}
        /\ request' \in [regenerate : BOOLEAN, conversation : BOOLEAN,
                         skipClarify : BOOLEAN]
        /\ mode' \in Modes
    BY <1>10 DEF Result, TypeOK, PCs, FlushThen, Awaits, Handlers
  <2>2. /\ inner' \in {"none", "running", "recording"} \cup InnerDone
        /\ innerStop' \in BOOLEAN /\ stop' \in BOOLEAN
        /\ events' \in 0..MaxEvents /\ emitted' \in 0..MaxEvents
        /\ writing' \subseteq Rows /\ saved' \subseteq Rows /\ lost' \subseteq Rows
    BY <1>10 DEF Result, TypeOK, InnerDone, Rows
  <2>3. /\ frames' \in Seq(Events) /\ done' \in BOOLEAN
        /\ opened' \in BOOLEAN /\ flag' \in BOOLEAN
        /\ mirror' \subseteq 1..Len(frames')
    BY <1>10 DEF Result, TypeOK
  <2>4. /\ conn' \in [Clients -> {"away", "local", "remote", "done", "synthetic"}]
        /\ got' \in [Clients -> Seq(Nat)]
        /\ via' \subseteq Clients
        /\ drops' \in 0..MaxDrops /\ stops' \in 0..MaxStops
    BY <1>10 DEF Result, TypeOK
  <2>5. StopParked' /\ SinkInv' /\ LogFirst'
    BY <1>10 DEF Result, TypeOK, Awaits, Handlers
  <2> QED
    BY <2>1, <2>2, <2>3, <2>4, <2>5 DEF TypeOK
<1>11. CASE Reap
  <2>1. /\ pc' \in PCs /\ after' \in PCs /\ then' \in FlushThen
        /\ exit' \in {"normal", "failed", "cancelled"}
        /\ request' \in [regenerate : BOOLEAN, conversation : BOOLEAN,
                         skipClarify : BOOLEAN]
        /\ mode' \in Modes
    BY <1>11 DEF Reap, TypeOK, PCs, FlushThen, Awaits, Handlers
  <2>2. /\ inner' \in {"none", "running", "recording"} \cup InnerDone
        /\ innerStop' \in BOOLEAN /\ stop' \in BOOLEAN
        /\ events' \in 0..MaxEvents /\ emitted' \in 0..MaxEvents
        /\ writing' \subseteq Rows /\ saved' \subseteq Rows /\ lost' \subseteq Rows
    BY <1>11 DEF Reap, TypeOK, InnerDone, Rows
  <2>3. /\ frames' \in Seq(Events) /\ done' \in BOOLEAN
        /\ opened' \in BOOLEAN /\ flag' \in BOOLEAN
        /\ mirror' \subseteq 1..Len(frames')
    BY <1>11 DEF Reap, TypeOK
  <2>4. /\ conn' \in [Clients -> {"away", "local", "remote", "done", "synthetic"}]
        /\ got' \in [Clients -> Seq(Nat)]
        /\ via' \subseteq Clients
        /\ drops' \in 0..MaxDrops /\ stops' \in 0..MaxStops
    BY <1>11 DEF Reap, TypeOK
  <2>5. StopParked' /\ SinkInv' /\ LogFirst'
    BY <1>11 DEF Reap, TypeOK, Awaits, Handlers
  <2> QED
    BY <2>1, <2>2, <2>3, <2>4, <2>5 DEF TypeOK
<1>12. CASE Persisted
  BY <1>12 DEF Persisted, TypeOK, PCs, Awaits
<1>13. CASE Extras
  BY <1>13 DEF Extras, TypeOK, PCs, Awaits
<1>14. CASE Ledger
  BY <1>14 DEF Ledger, TypeOK, PCs, Awaits, Handlers
<1>15. CASE Finish
  BY <1>15 DEF Finish, TypeOK, PCs, Awaits, Handlers
<1>16. CASE Close
  <2>1. /\ pc' \in PCs /\ after' \in PCs /\ then' \in FlushThen
        /\ exit' \in {"normal", "failed", "cancelled"}
        /\ request' \in [regenerate : BOOLEAN, conversation : BOOLEAN,
                         skipClarify : BOOLEAN]
        /\ mode' \in Modes
    BY <1>16 DEF Close, TypeOK, PCs, FlushThen, Awaits, Handlers
  <2>2. /\ inner' \in {"none", "running", "recording"} \cup InnerDone
        /\ innerStop' \in BOOLEAN /\ stop' \in BOOLEAN
        /\ events' \in 0..MaxEvents /\ emitted' \in 0..MaxEvents
        /\ writing' \subseteq Rows /\ saved' \subseteq Rows /\ lost' \subseteq Rows
    BY <1>16 DEF Close, TypeOK, InnerDone, Rows
  <2>3. /\ frames' \in Seq(Events) /\ done' \in BOOLEAN
        /\ opened' \in BOOLEAN /\ flag' \in BOOLEAN
        /\ mirror' \subseteq 1..Len(frames')
    BY <1>16 DEF Close, TypeOK
  <2>4. /\ conn' \in [Clients -> {"away", "local", "remote", "done", "synthetic"}]
        /\ got' \in [Clients -> Seq(Nat)]
        /\ via' \subseteq Clients
        /\ drops' \in 0..MaxDrops /\ stops' \in 0..MaxStops
    BY <1>16 DEF Close, TypeOK
  <2>5. StopParked' /\ SinkInv' /\ LogFirst'
    BY <1>16 DEF Close, TypeOK, Awaits, Handlers
  <2> QED
    BY <2>1, <2>2, <2>3, <2>4, <2>5 DEF TypeOK
<1>17. CASE InnerEmit
  BY <1>17 DEF InnerEmit, TypeOK
<1>18. CASE InnerEnds
  <2>1. /\ pc' \in PCs /\ after' \in PCs /\ then' \in FlushThen
        /\ exit' \in {"normal", "failed", "cancelled"}
        /\ request' \in [regenerate : BOOLEAN, conversation : BOOLEAN,
                         skipClarify : BOOLEAN]
        /\ mode' \in Modes
    BY <1>18 DEF InnerEnds, TypeOK, PCs, FlushThen, Awaits, Handlers
  <2>2. /\ inner' \in {"none", "running", "recording"} \cup InnerDone
        /\ innerStop' \in BOOLEAN /\ stop' \in BOOLEAN
        /\ events' \in 0..MaxEvents /\ emitted' \in 0..MaxEvents
        /\ writing' \subseteq Rows /\ saved' \subseteq Rows /\ lost' \subseteq Rows
    <3>1. /\ inner' \in {"answer", "raised", "refused", "recording"}
          /\ writing' = writing \/ writing' = writing \cup {"history"}
      BY <1>18 DEF InnerEnds
    <3> QED
      BY <1>18, <3>1 DEF InnerEnds, TypeOK, InnerDone, Rows
  <2>3. /\ frames' \in Seq(Events) /\ done' \in BOOLEAN
        /\ opened' \in BOOLEAN /\ flag' \in BOOLEAN
        /\ mirror' \subseteq 1..Len(frames')
    BY <1>18 DEF InnerEnds, TypeOK
  <2>4. /\ conn' \in [Clients -> {"away", "local", "remote", "done", "synthetic"}]
        /\ got' \in [Clients -> Seq(Nat)]
        /\ via' \subseteq Clients
        /\ drops' \in 0..MaxDrops /\ stops' \in 0..MaxStops
    BY <1>18 DEF InnerEnds, TypeOK
  <2>5. StopParked' /\ SinkInv' /\ LogFirst'
    BY <1>18 DEF InnerEnds, TypeOK, Awaits, Handlers
  <2> QED
    BY <2>1, <2>2, <2>3, <2>4, <2>5 DEF TypeOK
<1>19. CASE InnerRecorded
  BY <1>19 DEF InnerRecorded, TypeOK, InnerDone
<1>20. CASE InnerCancelled
  <2>1. /\ pc' \in PCs /\ after' \in PCs /\ then' \in FlushThen
        /\ exit' \in {"normal", "failed", "cancelled"}
        /\ request' \in [regenerate : BOOLEAN, conversation : BOOLEAN,
                         skipClarify : BOOLEAN]
        /\ mode' \in Modes
    BY <1>20 DEF InnerCancelled, TypeOK, PCs, FlushThen, Awaits, Handlers
  <2>2. /\ inner' \in {"none", "running", "recording"} \cup InnerDone
        /\ innerStop' \in BOOLEAN /\ stop' \in BOOLEAN
        /\ events' \in 0..MaxEvents /\ emitted' \in 0..MaxEvents
        /\ writing' \subseteq Rows /\ saved' \subseteq Rows /\ lost' \subseteq Rows
    BY <1>20 DEF InnerCancelled, TypeOK, InnerDone, Rows
  <2>3. /\ frames' \in Seq(Events) /\ done' \in BOOLEAN
        /\ opened' \in BOOLEAN /\ flag' \in BOOLEAN
        /\ mirror' \subseteq 1..Len(frames')
    BY <1>20 DEF InnerCancelled, TypeOK
  <2>4. /\ conn' \in [Clients -> {"away", "local", "remote", "done", "synthetic"}]
        /\ got' \in [Clients -> Seq(Nat)]
        /\ via' \subseteq Clients
        /\ drops' \in 0..MaxDrops /\ stops' \in 0..MaxStops
    BY <1>20 DEF InnerCancelled, TypeOK
  <2>5. StopParked' /\ SinkInv' /\ LogFirst'
    BY <1>20 DEF InnerCancelled, TypeOK, Awaits, Handlers
  <2> QED
    BY <2>1, <2>2, <2>3, <2>4, <2>5 DEF TypeOK
<1>21. CASE ThreadEnds
  <2>1. /\ pc' \in PCs /\ after' \in PCs /\ then' \in FlushThen
        /\ exit' \in {"normal", "failed", "cancelled"}
        /\ request' \in [regenerate : BOOLEAN, conversation : BOOLEAN,
                         skipClarify : BOOLEAN]
        /\ mode' \in Modes
    BY <1>21 DEF ThreadEnds, TypeOK, PCs, FlushThen, Awaits, Handlers
  <2>2. /\ inner' \in {"none", "running", "recording"} \cup InnerDone
        /\ innerStop' \in BOOLEAN /\ stop' \in BOOLEAN
        /\ events' \in 0..MaxEvents /\ emitted' \in 0..MaxEvents
        /\ writing' \subseteq Rows /\ saved' \subseteq Rows /\ lost' \subseteq Rows
    BY <1>21 DEF ThreadEnds, TypeOK, InnerDone, Rows
  <2>3. /\ frames' \in Seq(Events) /\ done' \in BOOLEAN
        /\ opened' \in BOOLEAN /\ flag' \in BOOLEAN
        /\ mirror' \subseteq 1..Len(frames')
    BY <1>21 DEF ThreadEnds, TypeOK
  <2>4. /\ conn' \in [Clients -> {"away", "local", "remote", "done", "synthetic"}]
        /\ got' \in [Clients -> Seq(Nat)]
        /\ via' \subseteq Clients
        /\ drops' \in 0..MaxDrops /\ stops' \in 0..MaxStops
    BY <1>21 DEF ThreadEnds, TypeOK
  <2>5. StopParked' /\ SinkInv' /\ LogFirst'
    BY <1>21 DEF ThreadEnds, TypeOK, Awaits, Handlers
  <2> QED
    BY <2>1, <2>2, <2>3, <2>4, <2>5 DEF TypeOK
<1>22. CASE CancelDelivered
  <2>1. /\ pc' \in PCs /\ after' \in PCs /\ then' \in FlushThen
        /\ exit' \in {"normal", "failed", "cancelled"}
        /\ request' \in [regenerate : BOOLEAN, conversation : BOOLEAN,
                         skipClarify : BOOLEAN]
        /\ mode' \in Modes
    BY <1>22 DEF CancelDelivered, TypeOK, PCs, FlushThen, Awaits, Handlers,
       Doing, InPump
  <2>2. /\ inner' \in {"none", "running", "recording"} \cup InnerDone
        /\ innerStop' \in BOOLEAN /\ stop' \in BOOLEAN
        /\ events' \in 0..MaxEvents /\ emitted' \in 0..MaxEvents
        /\ writing' \subseteq Rows /\ saved' \subseteq Rows /\ lost' \subseteq Rows
    BY <1>22 DEF CancelDelivered, TypeOK, InnerDone, Rows, Doing, InPump
  <2>3. /\ frames' \in Seq(Events) /\ done' \in BOOLEAN
        /\ opened' \in BOOLEAN /\ flag' \in BOOLEAN
        /\ mirror' \subseteq 1..Len(frames')
    BY <1>22 DEF CancelDelivered, TypeOK, Doing, InPump
  <2>4. /\ conn' \in [Clients -> {"away", "local", "remote", "done", "synthetic"}]
        /\ got' \in [Clients -> Seq(Nat)]
        /\ via' \subseteq Clients
        /\ drops' \in 0..MaxDrops /\ stops' \in 0..MaxStops
    BY <1>22 DEF CancelDelivered, TypeOK, Doing, InPump
  <2>5. StopParked' /\ SinkInv' /\ LogFirst'
    BY <1>22 DEF CancelDelivered, TypeOK, Awaits, Handlers, Doing, InPump
  <2> QED
    BY <2>1, <2>2, <2>3, <2>4, <2>5 DEF TypeOK
<1>23. CASE Crash
  <2>1. /\ pc' \in PCs /\ after' \in PCs /\ then' \in FlushThen
        /\ exit' \in {"normal", "failed", "cancelled"}
        /\ request' \in [regenerate : BOOLEAN, conversation : BOOLEAN,
                         skipClarify : BOOLEAN]
        /\ mode' \in Modes
    BY <1>23 DEF Crash, TypeOK, PCs, FlushThen, Awaits, Handlers
  <2>2. /\ inner' \in {"none", "running", "recording"} \cup InnerDone
        /\ innerStop' \in BOOLEAN /\ stop' \in BOOLEAN
        /\ events' \in 0..MaxEvents /\ emitted' \in 0..MaxEvents
        /\ writing' \subseteq Rows /\ saved' \subseteq Rows /\ lost' \subseteq Rows
    BY <1>23 DEF Crash, TypeOK, InnerDone, Rows
  <2>3. /\ frames' \in Seq(Events) /\ done' \in BOOLEAN
        /\ opened' \in BOOLEAN /\ flag' \in BOOLEAN
        /\ mirror' \subseteq 1..Len(frames')
    BY <1>23 DEF Crash, TypeOK
  <2>4. /\ conn' \in [Clients -> {"away", "local", "remote", "done", "synthetic"}]
        /\ got' \in [Clients -> Seq(Nat)]
        /\ via' \subseteq Clients
        /\ drops' \in 0..MaxDrops /\ stops' \in 0..MaxStops
    BY <1>23 DEF Crash, TypeOK
  <2>5. StopParked' /\ SinkInv' /\ LogFirst'
    BY <1>23 DEF Crash, TypeOK, Awaits, Handlers
  <2> QED
    BY <2>1, <2>2, <2>3, <2>4, <2>5 DEF TypeOK
<1>24. CASE PublishStart
  <2>1. LogType
    BY <1>0, <1>24 DEF PublishStart, Events, Dones, PCs, FlushThen, Awaits, Handlers
  <2>2. ~stop /\ frames' # <<>>
    BY <2>1, <1>24 DEF PublishStart, TypeOK, Awaits
  <2> QED
    BY <2>1, <2>2, <1>24 DEF PublishStart, TypeOK
<1>25. CASE PublishPlan
  <2>1. LogType
    BY <1>0, <1>25 DEF PublishPlan, Events, Dones, PCs, FlushThen, Awaits, Handlers
  <2>2. ~stop /\ frames' # <<>>
    BY <2>1, <1>25 DEF PublishPlan, TypeOK, Awaits
  <2> QED
    BY <2>1, <2>2, <1>25 DEF PublishPlan, TypeOK
<1>26. CASE PublishTurn
  <2>1. LogType
    BY <1>0, <1>26 DEF PublishTurn, Events, Dones, PCs, FlushThen, Awaits, Handlers
  <2>2. ~stop /\ frames' # <<>>
    BY <2>1, <1>26 DEF PublishTurn, TypeOK, Awaits
  <2> QED
    BY <2>1, <2>2, <1>26 DEF PublishTurn, TypeOK
<1>27. CASE PublishClarify
  <2>1. LogType
    BY <1>0, <1>27 DEF PublishClarify, Events, Dones, PCs, FlushThen, Awaits,
       Handlers
  <2>2. ~stop /\ frames' # <<>>
    BY <2>1, <1>27 DEF PublishClarify, TypeOK, Awaits
  <2> QED
    BY <2>1, <2>2, <1>27 DEF PublishClarify, TypeOK
<1>28. CASE PublishOutcome
  <2>1. LogType
    BY <1>0, <1>28 DEF PublishOutcome, Events, Dones, PCs, FlushThen, Awaits,
       Handlers
  <2>2. ~stop /\ frames' # <<>>
    BY <2>1, <1>28 DEF PublishOutcome, TypeOK, Awaits
  <2> QED
    BY <2>1, <2>2, <1>28 DEF PublishOutcome, TypeOK
<1>29. CASE PublishStopped
  <2>1. LogType
    BY <1>0, <1>29 DEF PublishStopped, Events, Dones, PCs, FlushThen, Awaits,
       Handlers
  <2>2. ~stop /\ frames' # <<>>
    BY <2>1, <1>29 DEF PublishStopped, TypeOK, Awaits
  <2> QED
    BY <2>1, <2>2, <1>29 DEF PublishStopped, TypeOK
<1>30. CASE PublishCrashed
  <2>1. LogType
    BY <1>0, <1>30 DEF PublishCrashed, Events, Dones, PCs, FlushThen, Awaits,
       Handlers
  <2>2. ~stop /\ frames' # <<>>
    BY <2>1, <1>30 DEF PublishCrashed, TypeOK, Awaits
  <2> QED
    BY <2>1, <2>2, <1>30 DEF PublishCrashed, TypeOK
<1>31. CASE MirrorAppend
  BY <1>31 DEF MirrorAppend, TypeOK
<1>32. CASE PumpEvent
  <2>1. LogType
    BY <1>0, <1>32 DEF PumpEvent, Events, PCs
  <2>2. ~stop' /\ frames' # <<>> /\ events' \in 0..MaxEvents /\ SinkInv'
    BY <2>1, <1>32 DEF PumpEvent, TypeOK
  <2> QED
    BY <2>1, <2>2, <1>32 DEF PumpEvent, TypeOK
<1>33. CASE Drain
  <2>1. CASE events > 0
    <3>1. Publish("step", "drain") /\ mirror' = mirror /\ events' = events - 1
      BY <1>33, <2>1 DEF Drain
    <3>2. LogType
      BY <1>0, <3>1 DEF Events, PCs
    <3>3. ~stop' /\ frames' # <<>> /\ events' \in 0..MaxEvents /\ SinkInv'
      BY <3>1, <3>2, <1>33 DEF Drain, TypeOK, Awaits
    <3> QED
      BY <3>2, <3>3, <1>33 DEF Drain, TypeOK
  <2>2. CASE ~(events > 0)
    BY <1>33, <2>2 DEF Drain, TypeOK, PCs, FlushThen, Awaits
  <2> QED
    BY <2>1, <2>2
<1>34. ASSUME NEW c \in Clients, StopLocal(c) PROVE TaskInv'
  BY <1>34 DEF StopLocal, TypeOK, Receive, Unread, LastId
<1>35. ASSUME NEW c \in Clients, StopRemote(c) PROVE TaskInv'
  BY <1>35 DEF StopRemote, TypeOK, Receive, Unread, LastId
<1>36. ASSUME NEW c \in Clients, FollowLocal(c) PROVE TaskInv'
  BY <1>36 DEF FollowLocal, TypeOK, Receive, Unread, LastId
<1>37. ASSUME NEW c \in Clients, SynthesiseLocal(c) PROVE TaskInv'
  BY <1>37 DEF SynthesiseLocal, TypeOK, Receive, Unread, LastId
<1>38. ASSUME NEW c \in Clients, FollowRemote(c) PROVE TaskInv'
  BY <1>38 DEF FollowRemote, TypeOK, Receive, Unread, LastId
<1>39. ASSUME NEW c \in Clients, GiveUpRemote(c) PROVE TaskInv'
  BY <1>39 DEF GiveUpRemote, TypeOK, Receive, Unread, LastId
<1>40. ASSUME NEW c \in Clients, Drop(c) PROVE TaskInv'
  BY <1>40 DEF Drop, TypeOK, Receive, Unread, LastId
<1>41. ASSUME NEW c \in Clients, Resume(c) PROVE TaskInv'
  <2>1. /\ pc' \in PCs /\ after' \in PCs /\ then' \in FlushThen
        /\ exit' \in {"normal", "failed", "cancelled"}
        /\ request' \in [regenerate : BOOLEAN, conversation : BOOLEAN,
                         skipClarify : BOOLEAN]
        /\ mode' \in Modes
    BY <1>41 DEF Resume, TypeOK, PCs, FlushThen, Awaits, Handlers, Knows
  <2>2. /\ inner' \in {"none", "running", "recording"} \cup InnerDone
        /\ innerStop' \in BOOLEAN /\ stop' \in BOOLEAN
        /\ events' \in 0..MaxEvents /\ emitted' \in 0..MaxEvents
        /\ writing' \subseteq Rows /\ saved' \subseteq Rows /\ lost' \subseteq Rows
    BY <1>41 DEF Resume, TypeOK, InnerDone, Rows, Knows
  <2>3. /\ frames' \in Seq(Events) /\ done' \in BOOLEAN
        /\ opened' \in BOOLEAN /\ flag' \in BOOLEAN
        /\ mirror' \subseteq 1..Len(frames')
    BY <1>41 DEF Resume, TypeOK, Knows
  <2>4. /\ conn' \in [Clients -> {"away", "local", "remote", "done", "synthetic"}]
        /\ got' \in [Clients -> Seq(Nat)]
        /\ via' \subseteq Clients
        /\ drops' \in 0..MaxDrops /\ stops' \in 0..MaxStops
    BY <1>41 DEF Resume, TypeOK, Knows
  <2>5. StopParked' /\ SinkInv' /\ LogFirst'
    BY <1>41 DEF Resume, TypeOK, Awaits, Handlers, Knows
  <2> QED
    BY <2>1, <2>2, <2>3, <2>4, <2>5 DEF TypeOK
<1>42. CASE UNCHANGED vars
  BY <1>42 DEF vars, TypeOK
<1> QED
  BY <1>1, <1>2, <1>3, <1>4, <1>5, <1>6, <1>7, <1>8, <1>9, <1>10, <1>11, <1>12,
     <1>13, <1>14, <1>15, <1>16, <1>17, <1>18, <1>19, <1>20, <1>21, <1>22,
     <1>23, <1>24, <1>25, <1>26, <1>27, <1>28, <1>29, <1>30, <1>31, <1>32,
     <1>33, <1>34, <1>35, <1>36, <1>37, <1>38, <1>39, <1>40, <1>41, <1>42
     DEF Next, Produce, Answer, Follow, Press
-----------------------------------------------------------------------------
HasDone == \E i \in 1..Len(frames) : frames[i] \in Dones

\* A log is closed by a `done' frame, or by the task on its way out.
ClosedLog == done => (Sealed \/ HasDone)

\* What a client that was only ever served by this worker has seen and become.
LocalReader(c) ==
  /\ conn[c] # "remote"
  /\ (\E i \in 1..Len(got[c]) : frames[i] \in Dones) => conn[c] = "done"
  /\ conn[c] = "synthetic" => (Sealed /\ ~HasDone)

\* The inductive invariant of the readers.
ReadInv ==
  /\ NeverTwice /\ ExactlyOnce /\ ClosedLog
  /\ \A c \in Clients \ via : LocalReader(c)

\* No client has received anything in the initial states.
LEMMA ReadInit == Init => ReadInv
  BY DEF Init, ReadInv, NeverTwice, ExactlyOnce, ClosedLog, LocalReader, HasDone

\* A step that touches neither the log nor a reader, and unseals nothing.
LEMMA ReadQuiet ==
  ASSUME ReadInv, UNCHANGED <<frames, done, got, conn, via>>, Sealed => Sealed'
  PROVE  ReadInv'
  BY DEF ReadInv, NeverTwice, ExactlyOnce, ClosedLog, LocalReader, HasDone

\* A frame appended to a log that is not sealed.
LEMMA ReadPublish ==
  ASSUME TypeOK, ReadInv, UNCHANGED <<got, conn, via>>, ~Sealed,
         NEW f \in Events, LogAppend(f)
  PROVE  ReadInv'
<1>1. /\ frames' = Append(frames, f) /\ frames' \in Seq(Events)
      /\ Len(frames') = Len(frames) + 1 /\ Len(frames) \in Nat
      /\ \A i \in 1..Len(frames) : frames'[i] = frames[i]
      /\ frames'[Len(frames) + 1] = f
  BY DEF TypeOK, LogAppend
<1>2. NeverTwice'
  BY <1>1 DEF ReadInv, NeverTwice
<1>3. ExactlyOnce'
  <2>1. \A c \in Clients : Len(got[c]) \in Nat
    BY DEF TypeOK
  <2> QED
    BY <1>1, <2>1 DEF ReadInv, ExactlyOnce
<1>4. ClosedLog'
  <2>1. CASE f \in Dones
    BY <1>1, <2>1 DEF ClosedLog, HasDone
  <2>2. CASE f \notin Dones /\ done
    <3>1. HasDone
      BY <2>2 DEF ReadInv, ClosedLog
    <3>2. PICK i \in 1..Len(frames) : frames[i] \in Dones
      BY <3>1 DEF HasDone
    <3>3. i \in 1..Len(frames') /\ frames'[i] \in Dones
      BY <1>1, <3>2
    <3> QED
      BY <3>3 DEF ClosedLog, HasDone
  <2>3. CASE f \notin Dones /\ ~done
    BY <2>3 DEF LogAppend, ClosedLog
  <2> QED
    BY <2>1, <2>2, <2>3
<1>5. ASSUME NEW c \in Clients \ via PROVE LocalReader(c)'
  <2>1. Len(got[c]) <= Len(frames) /\ Len(got[c]) \in Nat
    BY DEF TypeOK, ReadInv, ExactlyOnce
  <2> QED
    BY <1>1, <2>1 DEF ReadInv, LocalReader
<1> QED
  BY <1>2, <1>3, <1>4, <1>5 DEF ReadInv

\* A frame past the last one a client received may be added to what it has.
LEMMA ReceiveInOrder ==
  ASSUME TypeOK, NeverTwice, NEW c \in Clients, NEW n \in 1..Len(frames),
         LastId(c) < n, Receive(c, n), UNCHANGED frames
  PROVE  NeverTwice'
<1>1. /\ got[c] \in Seq(Nat) /\ Len(got[c]) \in Nat /\ n \in Nat
      /\ got' = [got EXCEPT ![c] = Append(got[c], n)]
  BY DEF TypeOK, Receive
<1>2. \A b \in Clients : b # c => got'[b] = got[b]
  BY <1>1 DEF TypeOK
<1>3. /\ Len(got'[c]) = Len(got[c]) + 1
      /\ \A i \in 1..Len(got[c]) : got'[c][i] = got[c][i]
      /\ got'[c][Len(got[c]) + 1] = n
  BY <1>1 DEF TypeOK
<1>4. \A i \in 1..Len(got[c]) : got[c][i] \in Nat /\ got[c][i] < n
  <2> SUFFICES ASSUME NEW i \in 1..Len(got[c]) PROVE got[c][i] \in Nat /\ got[c][i] < n
    OBVIOUS
  <2>1. /\ got[c] # <<>> /\ LastId(c) = got[c][Len(got[c])]
        /\ got[c][i] \in Nat /\ got[c][Len(got[c])] \in Nat
    BY <1>1 DEF LastId
  <2>2. CASE i = Len(got[c])
    BY <2>1, <2>2
  <2>3. CASE i # Len(got[c])
    <3>1. got[c][i] < got[c][Len(got[c])]
      BY <1>1, <2>3 DEF NeverTwice
    <3> QED
      BY <3>1, <2>1, <1>1
  <2> QED
    BY <2>2, <2>3
<1>5. ASSUME NEW b \in Clients, NEW i \in 1..Len(got'[b])
      PROVE  /\ got'[b][i] \in 1..Len(frames)
             /\ \A j \in 1..(i - 1) : got'[b][j] < got'[b][i]
  <2>1. CASE b # c
    BY <1>2, <2>1 DEF NeverTwice
  <2>2. CASE b = c /\ i \in 1..Len(got[c])
    BY <1>1, <1>3, <2>2 DEF NeverTwice
  <2>3. CASE b = c /\ i = Len(got[c]) + 1
    BY <1>1, <1>3, <1>4, <2>3
  <2> QED
    BY <2>1, <2>2, <2>3, <1>1, <1>3
<1> QED
  BY <1>5 DEF NeverTwice

\* No step of the system disturbs what the readers have seen.
LEMMA ReadNext == TaskInv /\ ReadInv /\ [Next]_vars => ReadInv'
<1> SUFFICES ASSUME TaskInv, ReadInv, [Next]_vars PROVE ReadInv'
  OBVIOUS
<1> USE ChatTurnAssumption DEF TaskInv
<1> USE DEF task, pumped, rows, turn, redis, tabs
<1>1. ASSUME UNCHANGED <<frames, done, got, conn, via>>, Sealed => Sealed' PROVE ReadInv'
  BY <1>1, ReadQuiet
<1>2. ASSUME UNCHANGED <<got, conn, via>>, ~Sealed, NEW f \in Events, LogAppend(f)
      PROVE ReadInv'
  BY <1>2, ReadPublish
<1>3. CASE MirrorOpen
  BY <1>1, <1>3 DEF MirrorOpen, Sealed
<1>4. CASE Instructions
  BY <1>1, <1>4 DEF Instructions, Sealed
<1>5. CASE Resolve
  BY <1>1, <1>5 DEF Resolve, Sealed
<1>6. CASE Gate
  BY <1>1, <1>6 DEF Gate, Sealed
<1>7. CASE Flush
  BY <1>1, <1>7 DEF Flush, Sealed
<1>8. CASE Launch
  BY <1>1, <1>8 DEF Launch, Sealed
<1>9. CASE PumpHead
  BY <1>1, <1>9 DEF PumpHead, Sealed, LoopHead
<1>10. CASE PumpTimeout
  BY <1>1, <1>10 DEF PumpTimeout, Sealed, LoopHead
<1>11. CASE PumpAsk
  BY <1>1, <1>11 DEF PumpAsk, Sealed, LoopHead
<1>12. CASE Result
  BY <1>1, <1>12 DEF Result, Sealed
<1>13. CASE Reap
  BY <1>1, <1>13 DEF Reap, Sealed
<1>14. CASE Persisted
  BY <1>1, <1>14 DEF Persisted, Sealed
<1>15. CASE Extras
  BY <1>1, <1>15 DEF Extras, Sealed
<1>16. CASE Ledger
  BY <1>1, <1>16 DEF Ledger, Sealed, TypeOK
<1>17. CASE Close
  BY <1>1, <1>17 DEF Close, Sealed
<1>18. CASE InnerEmit
  BY <1>1, <1>18 DEF InnerEmit, Sealed
<1>19. CASE InnerEnds
  BY <1>1, <1>19 DEF InnerEnds, Sealed
<1>20. CASE InnerRecorded
  BY <1>1, <1>20 DEF InnerRecorded, Sealed
<1>21. CASE InnerCancelled
  BY <1>1, <1>21 DEF InnerCancelled, Sealed
<1>22. CASE ThreadEnds
  BY <1>1, <1>22 DEF ThreadEnds, Sealed
<1>23. CASE CancelDelivered
  BY <1>1, <1>23 DEF CancelDelivered, Sealed, StopParked, Parked, Awaits
<1>24. CASE MirrorAppend
  BY <1>1, <1>24 DEF MirrorAppend, Sealed
<1>25. ASSUME NEW c \in Clients, StopLocal(c) PROVE ReadInv'
  BY <1>1, <1>25 DEF StopLocal, Sealed
<1>26. ASSUME NEW c \in Clients, StopRemote(c) PROVE ReadInv'
  BY <1>1, <1>26 DEF StopRemote, Sealed
<1>27. CASE PublishStart
  BY <1>2, <1>27 DEF PublishStart, Publish, Events, Dones, Sealed
<1>28. CASE PublishPlan
  BY <1>2, <1>28 DEF PublishPlan, Publish, Events, Dones, Sealed
<1>29. CASE PublishTurn
  BY <1>2, <1>29 DEF PublishTurn, Publish, Events, Dones, Sealed
<1>30. CASE PublishClarify
  BY <1>2, <1>30 DEF PublishClarify, Publish, Events, Dones, Sealed
<1>31. CASE PublishOutcome
  BY <1>2, <1>31 DEF PublishOutcome, Publish, Events, Dones, Sealed
<1>32. CASE PublishStopped
  BY <1>2, <1>32 DEF PublishStopped, Publish, Events, Dones, Sealed
<1>33. CASE PublishCrashed
  BY <1>2, <1>33 DEF PublishCrashed, Publish, Events, Dones, Sealed
<1>34. CASE PumpEvent
  BY <1>2, <1>34 DEF PumpEvent, Publish, Events, Dones, Sealed
<1>35. CASE Drain
  <2>1. CASE events > 0
    BY <1>2, <1>35, <2>1 DEF Drain, Publish, Events, Sealed
  <2>2. CASE ~(events > 0)
    BY <1>1, <1>35, <2>2 DEF Drain, Sealed
  <2> QED
    BY <2>1, <2>2
<1>36. CASE Finish
  BY <1>36 DEF Finish, ReadInv, NeverTwice, ExactlyOnce, ClosedLog, LocalReader,
     HasDone, Sealed
<1>37. CASE Crash
  BY <1>37 DEF Crash, TypeOK, ReadInv, NeverTwice, ExactlyOnce, ClosedLog,
     LocalReader, HasDone, Sealed
<1>38. ASSUME NEW c \in Clients, FollowLocal(c) PROVE ReadInv'
  <2>1. NeverTwice'
    <3>1. LastId(c) \in Nat /\ Len(frames) \in Nat
      BY DEF LastId, TypeOK
    <3> QED
      BY <1>38, <3>1, ReceiveInOrder DEF FollowLocal, ReadInv
  <2>2. ExactlyOnce'
    BY <1>38 DEF FollowLocal, Receive, LastId, TypeOK, ReadInv, ExactlyOnce,
       LocalReader
  <2>3. ClosedLog'
    BY <1>38 DEF FollowLocal, ReadInv, ClosedLog, Sealed, HasDone
  <2>4. ASSUME NEW b \in Clients \ via' PROVE LocalReader(b)'
    BY <1>38 DEF FollowLocal, Receive, LastId, TypeOK, ReadInv, ExactlyOnce,
       ClosedLog, LocalReader, Sealed, HasDone
  <2> QED
    BY <2>1, <2>2, <2>3, <2>4 DEF ReadInv
<1>39. ASSUME NEW c \in Clients, SynthesiseLocal(c) PROVE ReadInv'
  <2>1. NeverTwice'
    BY <1>39 DEF SynthesiseLocal, ReadInv, NeverTwice
  <2>2. ExactlyOnce'
    BY <1>39 DEF SynthesiseLocal, ReadInv, ExactlyOnce
  <2>3. ClosedLog'
    BY <1>39 DEF SynthesiseLocal, ReadInv, ClosedLog, Sealed, HasDone
  <2>4. ASSUME NEW b \in Clients \ via' PROVE LocalReader(b)'
    BY <1>39 DEF SynthesiseLocal, LastId, TypeOK, ReadInv, ExactlyOnce, ClosedLog,
             LocalReader, Sealed, HasDone
  <2> QED
    BY <2>1, <2>2, <2>3, <2>4 DEF ReadInv
<1>40. ASSUME NEW c \in Clients, FollowRemote(c) PROVE ReadInv'
  <2>1. NeverTwice'
    BY <1>40, ReceiveInOrder DEF FollowRemote, Unread, TypeOK, ReadInv
  <2>2. ExactlyOnce'
    BY <1>40 DEF FollowRemote, Receive, LastId, TypeOK, ReadInv, ExactlyOnce,
       LocalReader
  <2>3. ClosedLog'
    BY <1>40 DEF FollowRemote, ReadInv, ClosedLog, Sealed, HasDone
  <2>4. ASSUME NEW b \in Clients \ via' PROVE LocalReader(b)'
    BY <1>40 DEF FollowRemote, Receive, LastId, TypeOK, ReadInv, ExactlyOnce,
       ClosedLog, LocalReader, Sealed, HasDone
  <2> QED
    BY <2>1, <2>2, <2>3, <2>4 DEF ReadInv
<1>41. ASSUME NEW c \in Clients, GiveUpRemote(c) PROVE ReadInv'
  <2>1. NeverTwice'
    BY <1>41 DEF GiveUpRemote, ReadInv, NeverTwice
  <2>2. ExactlyOnce'
    BY <1>41 DEF GiveUpRemote, ReadInv, ExactlyOnce
  <2>3. ClosedLog'
    BY <1>41 DEF GiveUpRemote, ReadInv, ClosedLog, Sealed, HasDone
  <2>4. ASSUME NEW b \in Clients \ via' PROVE LocalReader(b)'
    BY <1>41 DEF GiveUpRemote, TypeOK, ReadInv, LocalReader, Sealed, HasDone
  <2> QED
    BY <2>1, <2>2, <2>3, <2>4 DEF ReadInv
<1>42. ASSUME NEW c \in Clients, Drop(c) PROVE ReadInv'
  <2>1. NeverTwice'
    BY <1>42 DEF Drop, ReadInv, NeverTwice
  <2>2. ExactlyOnce'
    BY <1>42 DEF Drop, ReadInv, ExactlyOnce
  <2>3. ClosedLog'
    BY <1>42 DEF Drop, ReadInv, ClosedLog, Sealed, HasDone
  <2>4. ASSUME NEW b \in Clients \ via' PROVE LocalReader(b)'
    BY <1>42 DEF Drop, TypeOK, ReadInv, LocalReader, Sealed, HasDone
  <2> QED
    BY <2>1, <2>2, <2>3, <2>4 DEF ReadInv
<1>43. ASSUME NEW c \in Clients, Resume(c) PROVE ReadInv'
  <2>1. NeverTwice'
    BY <1>43 DEF Resume, ReadInv, NeverTwice
  <2>2. ExactlyOnce'
    BY <1>43 DEF Resume, ReadInv, ExactlyOnce
  <2>3. ClosedLog'
    BY <1>43 DEF Resume, ReadInv, ClosedLog, Sealed, HasDone
  <2>4. ASSUME NEW b \in Clients \ via' PROVE LocalReader(b)'
    BY <1>43 DEF Resume, TypeOK, ReadInv, LocalReader, Sealed, HasDone
  <2> QED
    BY <2>1, <2>2, <2>3, <2>4 DEF ReadInv
<1>44. CASE UNCHANGED vars
  BY <1>1, <1>44 DEF vars, Sealed
<1> QED
  BY <1>3, <1>4, <1>5, <1>6, <1>7, <1>8, <1>9, <1>10, <1>11, <1>12, <1>13,
     <1>14, <1>15, <1>16, <1>17, <1>18, <1>19, <1>20, <1>21, <1>22, <1>23,
     <1>24, <1>25, <1>26, <1>27, <1>28, <1>29, <1>30, <1>31, <1>32, <1>33,
     <1>34, <1>35, <1>36, <1>37, <1>38, <1>39, <1>40, <1>41, <1>42, <1>43, <1>44
     DEF Next, Produce, Answer, Follow, Press

-----------------------------------------------------------------------------
(* The task's control flow.                                                *)

\* Where a mirrored publish may lead.
AfterPublish ==
  pc = "mirrored" =>
    after \in {"instructions", "launch", "gate", "clarifyDone", "drain", "head",
               "erroredDone", "crashedDone", "ledger", "finish"}

\* The code that runs before the answering task is created.
BeforeLaunch ==
  \/ Doing \in {"open", "start", "instructions", "planned", "resolve", "turn", "gate",
                "clarify", "clarifyDone", "launch"}
  \/ Doing \in {"flush", "drain"} /\ then # "result"

\* The answering task is created once, and never outlives _pump.
OneAnswering ==
  /\ BeforeLaunch => inner = "none"
  /\ inner \in {"running", "recording"} => Doing \in {"pump", "ask", "head", "reap", "dead"}

\* The handlers, from the `finally' of _produce on.
Leaving == {"ledger", "stopped", "finish", "close", "exit", "dead"}

\* An exception on its way out of _produce reaches a handler, and no other code.
FailedLate == exit = "failed" => Doing \in Leaving \cup {"crashed", "crashedDone"}

\* A Stop is delivered to an answering task that runs, and leaves _produce for the
\* handlers or waits for that task.
StopFlow ==
  /\ InPump => inner # "none"
  /\ innerStop => inner \in {"running", "recording"}
  /\ pc = "reap" => innerStop \/ inner = "cancelled"
  /\ exit = "cancelled" => Doing \in Leaving

FlowInv == AfterPublish /\ OneAnswering /\ FailedLate /\ StopFlow

\* The rows of the transcript follow the answer and precede its `done', and nothing
\* that fails or asks back runs once they are begun.
RowInv ==
  /\ TranscriptTrue
  /\ Doing = "persisting" => "transcript" \in writing \cup saved \cup lost
  /\ (Doing = "extras" \/ (Doing = "answerDone" /\ request.conversation)) =>
        "transcript" \in saved \cup lost
  /\ "transcript" \in writing \cup saved \cup lost =>
       Doing \in {"persisting", "extras", "answerDone"} \cup Leaving /\ exit # "failed"

\* Once a `done' is written only the handlers run, a failure excepted, and until the
\* log is left it is the last frame; after `cancelled' there is nothing to do but leave.
DoneInv ==
  /\ LastWord
  /\ HasDone => Doing \in Leaving /\ (Doing = "ledger" => exit # "failed")
  /\ Doing \in {"ledger", "stopped"} =>
       \A i \in 1..Len(frames) : frames[i] \in Dones => i = Len(frames)
  /\ Published("cancelled") => Doing \in {"finish", "close", "exit", "dead"}

\* What a client does leaves the task, the answering task, the rows and the log alone.
LEMMA ClientsApart ==
  ASSUME NEW c \in Clients, Follow(c) \/ Press(c) \/ Drop(c) \/ Resume(c)
  PROVE  UNCHANGED <<task, inner, innerStop, rows, turn>>
<1> USE DEF task, pumped, rows, turn, redis, tabs
<1>1. CASE FollowLocal(c) \/ SynthesiseLocal(c) \/ FollowRemote(c) \/ GiveUpRemote(c)
  BY <1>1 DEF FollowLocal, SynthesiseLocal, FollowRemote, GiveUpRemote
<1>2. CASE StopLocal(c) \/ StopRemote(c) \/ Drop(c) \/ Resume(c)
  BY <1>2 DEF StopLocal, StopRemote, Drop, Resume
<1> QED
  BY <1>1, <1>2 DEF Follow, Press

\* A task starts before the answering task is created.
LEMMA FlowInit == Init => FlowInv
  BY DEF Init, FlowInv, AfterPublish, OneAnswering, FailedLate, StopFlow, InPump,
         BeforeLaunch, Doing

\* Every step of the task goes where the code says, and none goes back.
LEMMA FlowNext == TaskInv /\ FlowInv /\ [Next]_vars => FlowInv'
<1> SUFFICES ASSUME TaskInv, FlowInv, [Next]_vars PROVE FlowInv'
  OBVIOUS
<1> USE DEF task, pumped, rows, turn, redis, tabs
<1> USE DEF TaskInv, FlowInv, AfterPublish, OneAnswering, FailedLate, StopFlow, InPump,
            BeforeLaunch, Doing, Leaving
<1>1. CASE MirrorOpen
  BY <1>1 DEF MirrorOpen
<1>2. CASE MirrorAppend
  BY <1>2 DEF MirrorAppend
<1>3. CASE Instructions
  BY <1>3 DEF Instructions
<1>4. CASE Resolve
  BY <1>4 DEF Resolve, MayEmit
<1>5. CASE Gate
  BY <1>5 DEF Gate, MayEmit
<1>6. CASE Flush
  BY <1>6 DEF Flush
<1>7. CASE Launch
  BY <1>7 DEF Launch, InnerDone
<1>8. CASE PumpHead
  BY <1>8 DEF PumpHead, LoopHead, InnerDone
<1>9. CASE PumpTimeout
  BY <1>9 DEF PumpTimeout, LoopHead, InnerDone
<1>10. CASE PumpAsk
  <2>1. inner \in {"none", "running", "recording"} \cup InnerDone /\ inner # "none"
    BY <1>10 DEF PumpAsk, TypeOK
  <2>2. innerStop' => inner \in {"running", "recording"}
    BY <1>10, <2>1 DEF PumpAsk
  <2> QED
    BY <1>10, <2>1, <2>2 DEF PumpAsk, LoopHead, InnerDone
<1>11. CASE Result
  BY <1>11 DEF Result
<1>12. CASE Reap
  BY <1>12 DEF Reap, InnerDone
<1>13. CASE Persisted
  BY <1>13 DEF Persisted
<1>14. CASE Extras
  BY <1>14 DEF Extras
<1>15. CASE Ledger
  BY <1>15 DEF Ledger, TypeOK
<1>16. CASE Finish
  BY <1>16 DEF Finish
<1>17. CASE Close
  BY <1>17 DEF Close
<1>18. CASE InnerEmit
  BY <1>18 DEF InnerEmit
<1>19. CASE InnerEnds
  BY <1>19 DEF InnerEnds, Parked, Awaits
<1>20. CASE InnerRecorded
  BY <1>20 DEF InnerRecorded, Parked, Awaits
<1>21. CASE InnerCancelled
  BY <1>21 DEF InnerCancelled, Parked, Awaits, InnerDone
<1>22. CASE ThreadEnds
  BY <1>22 DEF ThreadEnds
<1>23. CASE CancelDelivered
  <2>1. inner \in {"none", "running", "recording"} \cup InnerDone
    BY DEF TypeOK
  <2>2. CASE InPump
    BY <1>23, <2>1, <2>2 DEF CancelDelivered, InnerDone
  <2>3. CASE ~InPump
    BY <1>23, <2>1, <2>3 DEF CancelDelivered, StopParked, Parked, Awaits, InnerDone
  <2> QED
    BY <2>2, <2>3
<1>24. CASE Crash
  BY <1>24 DEF Crash
<1>25. CASE PublishStart
  BY <1>25 DEF PublishStart, Publish
<1>26. CASE PublishPlan
  BY <1>26 DEF PublishPlan, Publish
<1>27. CASE PublishTurn
  BY <1>27 DEF PublishTurn, Publish
<1>28. CASE PublishClarify
  BY <1>28 DEF PublishClarify, Publish
<1>29. CASE PublishOutcome
  BY <1>29 DEF PublishOutcome, Publish
<1>30. CASE PublishStopped
  BY <1>30 DEF PublishStopped, Publish
<1>31. CASE PublishCrashed
  BY <1>31 DEF PublishCrashed, Publish
<1>32. CASE PumpEvent
  BY <1>32 DEF PumpEvent, Publish
<1>33. CASE Drain
  BY <1>33 DEF Drain, Publish, TypeOK, FlushThen
<1>34. ASSUME NEW c \in Clients, Follow(c) \/ Press(c) \/ Drop(c) \/ Resume(c)
      PROVE FlowInv'
  BY <1>34, ClientsApart
<1>35. CASE UNCHANGED vars
  BY <1>35 DEF vars
<1> QED
  BY <1>1, <1>2, <1>3, <1>4, <1>5, <1>6, <1>7, <1>8, <1>9, <1>10, <1>11, <1>12, <1>13,
     <1>14, <1>15, <1>16, <1>17, <1>18, <1>19, <1>20, <1>21, <1>22, <1>23, <1>24, <1>25,
     <1>26, <1>27, <1>28, <1>29, <1>30, <1>31, <1>32, <1>33, <1>34, <1>35
     DEF Next, Produce, Answer

\* What publishing a frame does to the log, to what was published and to where the
\* task is.
LEMMA PublishedBy ==
  ASSUME TypeOK, NEW f \in Events, NEW next \in PCs, next # "mirrored", Publish(f, next)
  PROVE  /\ Len(frames') = Len(frames) + 1 /\ Len(frames) \in Nat
         /\ \A i \in 1..Len(frames) : frames'[i] = frames[i]
         /\ frames'[Len(frames) + 1] = f
         /\ \A g \in Events : Published(g)' <=> (Published(g) \/ g = f)
         /\ Doing' = next
<1>1. /\ frames \in Seq(Events) /\ frames' = Append(frames, f)
  BY DEF TypeOK, Publish, LogAppend
<1>2. /\ Len(frames') = Len(frames) + 1 /\ Len(frames) \in Nat
      /\ \A i \in 1..Len(frames) : frames'[i] = frames[i]
      /\ frames'[Len(frames) + 1] = f
  BY <1>1
<1>3. \A g \in Events : Published(g)' <=> (Published(g) \/ g = f)
  BY <1>2 DEF Published
<1>4. Doing' = next
  BY ChatTurnAssumption DEF Publish, Doing
<1> QED
  BY <1>2, <1>3, <1>4

\* Nothing is stored or announced in the initial states.
LEMMA RowInit == Init => RowInv
  BY DEF Init, RowInv, TranscriptTrue, AnswerIsStored, NoHalfTurn, NoFalseFailure, Published,
         Doing

\* A row is begun once there is an answer, and `answered' waits for it.
LEMMA RowNext == TaskInv /\ FlowInv /\ DoneInv /\ RowInv /\ [Next]_vars => RowInv'
<1> SUFFICES ASSUME TaskInv, FlowInv, DoneInv, RowInv, [Next]_vars PROVE RowInv'
  OBVIOUS
<1> USE DEF task, pumped, rows, turn, redis, tabs
<1> USE DEF TaskInv, FlowInv, RowInv, TranscriptTrue, AnswerIsStored, NoHalfTurn,
            NoFalseFailure, FailedLate
<1>1. CASE MirrorOpen
  BY <1>1 DEF MirrorOpen, Published, Doing, BeforeLaunch, OneAnswering, Rows, Leaving
<1>2. CASE MirrorAppend
  BY <1>2 DEF MirrorAppend, Published, Doing, BeforeLaunch, OneAnswering, Rows, Leaving
<1>3. CASE Instructions
  BY <1>3 DEF Instructions, Published, Doing, BeforeLaunch, OneAnswering, Rows, Leaving
<1>4. CASE Resolve
  BY <1>4 DEF Resolve, MayEmit, Published, Doing, BeforeLaunch, OneAnswering, Rows,
     Leaving
<1>5. CASE Gate
  BY <1>5 DEF Gate, MayEmit, Published, Doing, BeforeLaunch, OneAnswering, Rows, Leaving
<1>6. CASE Flush
  BY <1>6 DEF Flush, Published, Doing, BeforeLaunch, OneAnswering, Rows, Leaving
<1>7. CASE Launch
  BY <1>7 DEF Launch, Published, Doing, BeforeLaunch, OneAnswering, Rows, Leaving
<1>8. CASE PumpHead
  BY <1>8 DEF PumpHead, LoopHead, Published, Doing, BeforeLaunch, OneAnswering, Rows,
     Leaving
<1>9. CASE PumpTimeout
  BY <1>9 DEF PumpTimeout, LoopHead, Published, Doing, BeforeLaunch, OneAnswering,
     Rows, Leaving
<1>10. CASE PumpAsk
  BY <1>10 DEF PumpAsk, LoopHead, Published, Doing, BeforeLaunch, OneAnswering, Rows,
     Leaving
<1>11. CASE Result
  <2>1. ~Published("failed") /\ ~Published("clarified")
    BY <1>11 DEF Result, DoneInv, HasDone, Published, Doing, Leaving, Dones
  <2> QED
    BY <1>11, <2>1 DEF Result, Published, Doing, BeforeLaunch, OneAnswering, Rows, Leaving
<1>12. CASE Reap
  BY <1>12 DEF Reap, Published, Doing, BeforeLaunch, OneAnswering, Rows, Leaving
<1>13. CASE Persisted
  BY <1>13 DEF Persisted, Published, Doing, BeforeLaunch, OneAnswering, Rows, Leaving
<1>14. CASE Extras
  BY <1>14 DEF Extras, Published, Doing, BeforeLaunch, OneAnswering, Rows, Leaving
<1>15. CASE Ledger
  BY <1>15 DEF Ledger, TypeOK, Published, Doing, BeforeLaunch, OneAnswering, Rows,
     Leaving
<1>16. CASE Finish
  BY <1>16 DEF Finish, Published, Doing, BeforeLaunch, OneAnswering, Rows, Leaving
<1>17. CASE Close
  BY <1>17 DEF Close, Published, Doing, BeforeLaunch, OneAnswering, Rows, Leaving
<1>18. CASE InnerEmit
  BY <1>18 DEF InnerEmit, Published, Doing, BeforeLaunch, OneAnswering, Rows, Leaving
<1>19. CASE InnerEnds
  BY <1>19 DEF InnerEnds, Parked, Awaits, Published, Doing, BeforeLaunch,
     OneAnswering, Rows, Leaving
<1>20. CASE InnerRecorded
  BY <1>20 DEF InnerRecorded, Parked, Awaits, Published, Doing, BeforeLaunch,
     OneAnswering, Rows, Leaving
<1>21. CASE InnerCancelled
  BY <1>21 DEF InnerCancelled, Parked, Awaits, Published, Doing, BeforeLaunch,
     OneAnswering, Rows, Leaving
<1>22. CASE ThreadEnds
  BY <1>22 DEF ThreadEnds, Published, Doing, BeforeLaunch, OneAnswering, Rows, Leaving
<1>23. CASE CancelDelivered
  BY <1>23 DEF CancelDelivered, InPump, StopParked, Parked, Awaits, Published, Doing,
     BeforeLaunch, OneAnswering, Rows, Leaving
<1>24. CASE Crash
  BY <1>24 DEF Crash, Published, Doing, BeforeLaunch, OneAnswering, Rows, Leaving
<1>25. CASE PublishStart
  BY <1>25, PublishedBy DEF PublishStart, Events, Dones, PCs, Awaits, Handlers, Doing, Leaving
<1>26. CASE PublishPlan
  BY <1>26, PublishedBy DEF PublishPlan, Events, Dones, PCs, Awaits, Handlers, Doing, Leaving
<1>27. CASE PublishTurn
  BY <1>27, PublishedBy DEF PublishTurn, Events, Dones, PCs, Awaits, Handlers, Doing, Leaving
<1>28. CASE PublishClarify
  BY <1>28, PublishedBy DEF PublishClarify, Events, Dones, PCs, Awaits, Handlers, Doing, Leaving
<1>29. CASE PublishOutcome
  BY <1>29, PublishedBy DEF PublishOutcome, Events, Dones, PCs, Awaits, Handlers, Doing, Leaving
<1>30. CASE PublishStopped
  BY <1>30, PublishedBy DEF PublishStopped, Events, Dones, PCs, Awaits, Handlers, Doing, Leaving
<1>31. CASE PublishCrashed
  BY <1>31, PublishedBy DEF PublishCrashed, Events, Dones, PCs, Awaits, Handlers, Doing, Leaving
<1>32. CASE PumpEvent
  BY <1>32, PublishedBy DEF PumpEvent, Events, Dones, PCs, Awaits, Handlers, Doing, Leaving
<1>33. CASE Drain
  <2>1. CASE events > 0
    <3>1. \A f \in {"answered", "failed", "clarified"} : Published(f)' <=> Published(f)
      BY <1>33, <2>1, PublishedBy DEF Drain, Events, Dones, PCs, TypeOK
    <3>2. Doing' = "drain"
      BY <1>33, <2>1, PublishedBy DEF Drain, Events, PCs
    <3> QED
      BY <3>1, <3>2, <1>33 DEF Drain, Doing, Leaving
  <2>2. CASE ~(events > 0)
    BY <1>33, <2>2 DEF Drain, Published, Doing, FlushThen, TypeOK, Leaving
  <2> QED
    BY <2>1, <2>2
<1>34. ASSUME NEW c \in Clients, Follow(c) \/ Press(c) \/ Drop(c) \/ Resume(c)
      PROVE RowInv'
  BY <1>34, ClientsApart DEF Published, Doing, BeforeLaunch, OneAnswering, Rows, Leaving
<1>35. CASE UNCHANGED vars
  BY <1>35 DEF vars, Published, Doing, BeforeLaunch, OneAnswering, Rows, Leaving
<1> QED
  BY <1>1, <1>2, <1>3, <1>4, <1>5, <1>6, <1>7, <1>8, <1>9, <1>10, <1>11, <1>12, <1>13,
     <1>14, <1>15, <1>16, <1>17, <1>18, <1>19, <1>20, <1>21, <1>22, <1>23, <1>24, <1>25,
     <1>26, <1>27, <1>28, <1>29, <1>30, <1>31, <1>32, <1>33, <1>34, <1>35
     DEF Next, Produce, Answer

\* Nothing is published in the initial states.
LEMMA DoneInit == Init => DoneInv
  BY DEF Init, DoneInv, LastWord, HasDone, Published, Doing

\* A step that publishes nothing keeps DoneInv if it leaves the handlers to the
\* handlers.
LEMMA DoneQuiet ==
  ASSUME DoneInv, UNCHANGED frames,
         HasDone => Doing' \in Leaving /\ (Doing' = "ledger" => exit' # "failed"),
         Doing' \in {"ledger", "stopped"} =>
           (~HasDone \/ Doing \in {"ledger", "stopped"}),
         Published("cancelled") => Doing' \in {"finish", "close", "exit", "dead"}
  PROVE  DoneInv'
  BY DEF DoneInv, LastWord, HasDone, Published

\* A frame that reports no end, published by code that is not a handler.
LEMMA DonePublish ==
  ASSUME TypeOK, DoneInv, NEW f \in Events \ Dones, NEW next \in PCs \ Leaving,
         next # "mirrored", Publish(f, next), Doing \notin Leaving
  PROVE  DoneInv'
<1> USE PublishedBy
<1>1. ~HasDone /\ ~Published("cancelled") /\ "cancelled" \in Events
  BY DEF DoneInv, Leaving, Events, Dones
<1>2. \A i \in 1..Len(frames') : frames'[i] \notin Dones
  BY <1>1 DEF HasDone
<1>3. ~HasDone' /\ ~Published("cancelled")' /\ Doing' = next
  BY <1>1, <1>2 DEF HasDone, Dones
<1> QED
  BY <1>2, <1>3 DEF DoneInv, LastWord, Leaving

\* The first `done', after which only the `finally' or the closing of the log runs.
LEMMA DoneFirst ==
  ASSUME TypeOK, DoneInv, NEW f \in Dones, NEW next \in {"ledger", "finish"},
         Publish(f, next), Doing \notin Leaving, exit' # "failed" \/ next = "finish",
         f = "cancelled" => next = "finish"
  PROVE  DoneInv'
<1>0. next \in PCs /\ next # "mirrored" /\ f \in Events
  BY DEF PCs, Awaits, Handlers, Events
<1> USE <1>0, PublishedBy
<1>1. ~HasDone /\ ~Published("cancelled") /\ "cancelled" \in Events
  BY DEF DoneInv, Leaving, Events, Dones
<1>2. \A i \in 1..Len(frames') : frames'[i] \in Dones => i = Len(frames')
  BY <1>1 DEF HasDone
<1>3. LastWord'
  BY <1>2 DEF LastWord
<1>4. Doing' = next /\ (Published("cancelled")' => next = "finish")
  BY <1>1
<1> QED
  BY <1>2, <1>3, <1>4 DEF DoneInv, Leaving

\* `cancelled', which may follow one other `done'.
LEMMA DoneCancelled ==
  ASSUME TypeOK, DoneInv, Publish("cancelled", "finish"), Doing = "stopped"
  PROVE  DoneInv'
<1>0. /\ "finish" \in PCs /\ "finish" # "mirrored" /\ "cancelled" \in Events
  BY DEF PCs, Awaits, Handlers, Events, Dones
<1> USE <1>0, PublishedBy
<1>1. \A i \in 1..Len(frames) : frames[i] \in Dones => i = Len(frames)
  BY DEF DoneInv
<1>2. LastWord'
  BY <1>1 DEF LastWord
<1> QED
  BY <1>2 DEF DoneInv, Leaving

\* No error, cancel or success path writes past the last word of another.
LEMMA DoneNext == TaskInv /\ FlowInv /\ DoneInv /\ [Next]_vars => DoneInv'
<1> SUFFICES ASSUME TaskInv, FlowInv, DoneInv, [Next]_vars PROVE DoneInv'
  OBVIOUS
<1> USE DEF task, pumped, rows, turn, redis, tabs
<1> USE DEF TaskInv, FlowInv
<1>0. /\ HasDone => Doing \in Leaving /\ (Doing = "ledger" => exit # "failed")
      /\ Published("cancelled") => Doing \in {"finish", "close", "exit", "dead"}
  BY DEF DoneInv
<1>1. CASE MirrorOpen
  BY <1>0, <1>1, DoneQuiet DEF MirrorOpen, Doing, Leaving
<1>2. CASE MirrorAppend
  BY <1>0, <1>2, DoneQuiet DEF MirrorAppend, Doing, Leaving, AfterPublish
<1>3. CASE Instructions
  BY <1>0, <1>3, DoneQuiet DEF Instructions, Doing, Leaving
<1>4. CASE Resolve
  BY <1>0, <1>4, DoneQuiet DEF Resolve, MayEmit, Doing, Leaving
<1>5. CASE Gate
  BY <1>0, <1>5, DoneQuiet DEF Gate, MayEmit, Doing, Leaving
<1>6. CASE Flush
  BY <1>0, <1>6, DoneQuiet DEF Flush, Doing, Leaving
<1>7. CASE Launch
  BY <1>0, <1>7, DoneQuiet DEF Launch, Doing, Leaving
<1>8. CASE PumpHead
  BY <1>0, <1>8, DoneQuiet DEF PumpHead, LoopHead, Doing, Leaving
<1>9. CASE PumpTimeout
  BY <1>0, <1>9, DoneQuiet DEF PumpTimeout, LoopHead, Doing, Leaving
<1>10. CASE PumpAsk
  BY <1>0, <1>10, DoneQuiet DEF PumpAsk, LoopHead, Doing, Leaving
<1>11. CASE Result
  BY <1>0, <1>11, DoneQuiet DEF Result, Doing, Leaving
<1>12. CASE Reap
  BY <1>0, <1>12, DoneQuiet DEF Reap, Doing, Leaving
<1>13. CASE Persisted
  BY <1>0, <1>13, DoneQuiet DEF Persisted, Doing, Leaving
<1>14. CASE Extras
  BY <1>0, <1>14, DoneQuiet DEF Extras, Doing, Leaving
<1>15. CASE Ledger
  BY <1>0, <1>15, DoneQuiet DEF Ledger, TypeOK, Doing, Leaving
<1>16. CASE Finish
  BY <1>0, <1>16, DoneQuiet DEF Finish, Doing, Leaving
<1>17. CASE Close
  BY <1>0, <1>17, DoneQuiet DEF Close, Doing, Leaving
<1>18. CASE InnerEmit
  BY <1>0, <1>18, DoneQuiet DEF InnerEmit, Doing, Leaving
<1>19. CASE InnerEnds
  BY <1>0, <1>19, DoneQuiet DEF InnerEnds, Parked, Awaits, Doing, Leaving
<1>20. CASE InnerRecorded
  BY <1>0, <1>20, DoneQuiet DEF InnerRecorded, Parked, Awaits, Doing, Leaving
<1>21. CASE InnerCancelled
  BY <1>0, <1>21, DoneQuiet DEF InnerCancelled, Parked, Awaits, Doing, Leaving
<1>22. CASE ThreadEnds
  BY <1>0, <1>22, DoneQuiet DEF ThreadEnds, Doing, Leaving
<1>23. CASE CancelDelivered
  BY <1>0, <1>23, DoneQuiet DEF CancelDelivered, InPump, StopParked, Parked, Awaits,
     Doing, Leaving, AfterPublish
<1>24. CASE Crash
  BY <1>0, <1>24, DoneQuiet DEF Crash, Doing, Leaving
<1>25. CASE PublishStart
  BY <1>25, DonePublish DEF PublishStart, Events, Dones, PCs, Awaits, Leaving, Doing
<1>26. CASE PublishPlan
  BY <1>26, DonePublish DEF PublishPlan, Events, Dones, PCs, Awaits, Leaving, Doing
<1>27. CASE PublishTurn
  BY <1>27, DonePublish DEF PublishTurn, Events, Dones, PCs, Awaits, Leaving, Doing
<1>28. CASE PublishClarify
  BY <1>28, DonePublish, DoneFirst DEF PublishClarify, Events, Dones, PCs, Awaits,
     Handlers,
     Leaving, Doing, FailedLate
<1>29. CASE PublishOutcome
  BY <1>29, DonePublish, DoneFirst DEF PublishOutcome, Events, Dones, PCs, Awaits,
     Handlers,
     Leaving, Doing, FailedLate
<1>30. CASE PublishStopped
  BY <1>30, DoneCancelled DEF PublishStopped, Doing
<1>31. CASE PublishCrashed
  BY <1>31, DonePublish, DoneFirst DEF PublishCrashed, Events, Dones, PCs, Awaits,
     Handlers,
     Leaving, Doing, FailedLate
<1>32. CASE PumpEvent
  BY <1>32, DonePublish DEF PumpEvent, Events, Dones, PCs, Awaits, Leaving, Doing
<1>33. CASE Drain
  <2>1. CASE events > 0
    BY <1>33, <2>1, DonePublish DEF Drain, Events, Dones, PCs, Awaits, Leaving, Doing
  <2>2. CASE ~(events > 0)
    BY <1>0, <1>33, <2>2, DoneQuiet DEF Drain, Doing, Leaving, FlushThen, TypeOK
  <2> QED
    BY <2>1, <2>2
<1>34. ASSUME NEW c \in Clients, Follow(c) \/ Press(c) \/ Drop(c) \/ Resume(c)
      PROVE DoneInv'
  BY <1>0, <1>34, ClientsApart, DoneQuiet DEF Doing
<1>35. CASE UNCHANGED vars
  BY <1>0, <1>35, DoneQuiet DEF vars, Doing
<1> QED
  BY <1>1, <1>2, <1>3, <1>4, <1>5, <1>6, <1>7, <1>8, <1>9, <1>10, <1>11, <1>12, <1>13,
     <1>14, <1>15, <1>16, <1>17, <1>18, <1>19, <1>20, <1>21, <1>22, <1>23, <1>24,
     <1>25, <1>26, <1>27, <1>28, <1>29, <1>30, <1>31, <1>32, <1>33, <1>34, <1>35
     DEF Next, Produce, Answer

\* Where a turn is whose Stop was delivered: past all that asks or writes, or in _pump
\* with an answering task that has only its cancellation to come.
LEMMA WhereStopped ==
  ASSUME TaskInv, FlowInv, RowInv, DoneInv, Stopping
  PROVE  \/ Doing \in Leaving
         \/ ~BeforeLaunch /\ Doing \notin {"persisting", "extras"}
            /\ (innerStop \/ inner = "cancelled")
<1> USE DEF TaskInv, FlowInv
<1>1. CASE innerStop \/ inner = "cancelled"
  <2>1. ~BeforeLaunch
    BY <1>1 DEF OneAnswering, StopFlow
  <2>2. inner # "answer"
    BY <1>1 DEF StopFlow
  <2>3. "transcript" \notin writing \cup saved \cup lost
    BY <2>2 DEF RowInv, TranscriptTrue, NoHalfTurn
  <2>4. Doing # "persisting"
    BY <2>3 DEF RowInv
  <2>5. Doing # "extras"
    BY <2>3 DEF RowInv
  <2> QED
    BY <1>1, <2>1, <2>4, <2>5
<1>2. CASE exit = "cancelled" \/ pc = "stopped" \/ Published("cancelled")
  BY <1>2 DEF StopFlow, DoneInv, Doing, Leaving
<1>3. CASE pc = "reap"
  BY <1>1, <1>3 DEF StopFlow
<1> QED
  BY <1>1, <1>2, <1>3 DEF Stopping

\* Once a Stop was delivered no step begins a write, asks the model or lets the answering
\* task go on.
LEMMA NothingBegins ==
  TaskInv /\ FlowInv /\ RowInv /\ DoneInv /\ [Next]_vars =>
    [Stopping => /\ writing' \subseteq writing
                 /\ Doing' \notin Asks
                 /\ inner' \in {inner, "cancelled"}]_vars
<1> SUFFICES ASSUME TaskInv, FlowInv, RowInv, DoneInv, Next, Stopping
             PROVE  /\ writing' \subseteq writing
                    /\ Doing' \notin Asks
                    /\ inner' \in {inner, "cancelled"}
  OBVIOUS
<1> USE DEF task, pumped, rows, turn, redis, tabs
<1>0. \/ Doing \in Leaving
      \/ ~BeforeLaunch /\ Doing \notin {"persisting", "extras"} /\ (innerStop \/ inner = "cancelled")
  BY WhereStopped
<1>1. Doing \notin {"resolve", "gate", "launch", "extras", "persisting", "instructions", "planned",
                   "start", "turn", "clarify", "clarifyDone", "open"}
  BY <1>0 DEF BeforeLaunch, Leaving
<1>2. Doing \in {"flush", "drain"} => then = "result"
  BY <1>0 DEF BeforeLaunch, Leaving
<1>3. CASE Result
  <2>1. Doing = "result" /\ (innerStop \/ inner = "cancelled")
    BY <1>0, <1>3 DEF Result, Doing, Leaving
  <2>2. inner # "answer"
    BY <2>1 DEF FlowInv, StopFlow
  <2> QED
    BY <1>3, <2>2 DEF Result, Doing, Asks
<1>4. CASE Answer
  <2>1. Parked /\ Doing # "dead"
    BY <1>4 DEF Answer, InnerEmit, InnerEnds, InnerRecorded, InnerCancelled, Doing, Parked, Awaits,
       FlowInv, AfterPublish
  <2>2. ~InnerEnds /\ ~InnerRecorded
    <3>1. inner \in {"running", "recording"} => Doing \notin Leaving
      BY <2>1 DEF FlowInv, OneAnswering, Leaving
    <3> QED
      BY <1>0, <3>1 DEF InnerEnds, InnerRecorded, FlowInv, StopFlow
  <2>3. UNCHANGED <<pc, after, writing>> /\ inner' \in {inner, "cancelled"}
    BY <1>4, <2>2 DEF Answer, InnerEmit, InnerCancelled
  <2> QED
    BY <1>1, <2>3 DEF Doing, Asks
<1>5. CASE ThreadEnds \/ Crash
  BY <1>1, <1>5 DEF ThreadEnds, Crash, Doing, Asks
<1>6. CASE Produce /\ ~Result
  <2>1. ~Launch
    BY <1>1 DEF Launch, Doing
  <2>2. writing' = writing /\ inner' = inner
    BY <1>6, <2>1 DEF Produce, MirrorOpen, MirrorAppend, PublishStart, Instructions, PublishPlan,
       Resolve, PublishTurn, Gate, PublishClarify, Flush, Drain, PumpHead, PumpEvent, PumpTimeout,
       PumpAsk, Reap, Persisted, Extras, PublishOutcome, Ledger, PublishStopped, PublishCrashed,
       Finish, Close, CancelDelivered
  <2>3. Doing' \notin Asks
    <3>1. CASE MirrorAppend
      BY <1>1, <3>1 DEF MirrorAppend, Doing, Asks, FlowInv, AfterPublish
    <3>2. CASE Flush \/ PumpHead \/ PumpTimeout \/ PumpAsk \/ Reap \/ Finish \/ Close
      BY <3>2 DEF Flush, PumpHead, PumpTimeout, PumpAsk, Reap, Finish, Close, LoopHead, Doing, Asks
    <3>3. CASE Ledger
      BY <3>3 DEF Ledger, Doing, Asks, TaskInv, TypeOK
    <3>4. CASE CancelDelivered
      BY <3>4 DEF CancelDelivered, Doing, Asks
    <3>5. CASE PublishOutcome \/ PublishStopped \/ PublishCrashed \/ PumpEvent
      BY <3>5, ChatTurnAssumption
         DEF PublishOutcome, PublishStopped, PublishCrashed, PumpEvent, Publish, Doing, Asks
    <3>6. CASE Drain
      BY <1>2, <3>6, ChatTurnAssumption DEF Drain, Publish, Doing, Asks
    <3>7. CASE MirrorOpen \/ PublishStart \/ Instructions \/ PublishPlan \/ Resolve \/ PublishTurn
                 \/ Gate \/ PublishClarify \/ Persisted \/ Extras
      BY <1>1, <3>7 DEF MirrorOpen, PublishStart, Instructions, PublishPlan, Resolve, PublishTurn,
         Gate, PublishClarify, Persisted, Extras, Doing
    <3> QED
      BY <1>6, <2>1, <3>1, <3>2, <3>3, <3>4, <3>5, <3>6, <3>7 DEF Produce
  <2> QED
    BY <2>2, <2>3
<1>7. ASSUME NEW c \in Clients, Follow(c) \/ Press(c) \/ Drop(c) \/ Resume(c)
      PROVE  /\ writing' \subseteq writing
             /\ Doing' \notin Asks
             /\ inner' \in {inner, "cancelled"}
  BY <1>1, <1>7, ClientsApart DEF Doing, Asks
<1> QED
  BY <1>3, <1>4, <1>5, <1>6, <1>7 DEF Next

-----------------------------------------------------------------------------
(* The refinement: what the readers of a turn were promised is kept.       *)

\* How a client has left, as the promise sees it.
Departed(c) ==
  CASE conn[c] = "done" -> "finished"
    [] conn[c] = "synthetic" -> "told"
    [] OTHER -> IF c \in via THEN "elsewhere" ELSE "no"

Seen == [c \in Clients |-> LastId(c)]
Gone == [c \in Clients |-> Departed(c)]

\* A turn that begins has promised nothing yet.
LEMMA PromiseInit == Init => Promise!Init
<1> SUFFICES ASSUME Init PROVE Promise!Init
  OBVIOUS
<1>1. frames = <<>> /\ Sealed = FALSE
  BY DEF Init, Sealed
<1>2. Seen = [c \in Clients |-> 0]
  BY DEF Init, Seen, LastId
<1>3. Gone = [c \in Clients |-> "no"]
  BY DEF Init, Gone, Departed
<1> QED
  BY <1>1, <1>2, <1>3 DEF Promise!Init, Seen, Gone, Departed

\* A step that shows nobody anything, moves nobody on and writes nothing.
LEMMA PromiseStutter ==
  ASSUME UNCHANGED <<frames, got>>, Sealed' = Sealed,
         \A c \in Clients : Departed(c)' = Departed(c)
  PROVE  UNCHANGED Promise!vars
<1>1. Seen' = Seen
  BY DEF Seen, LastId
<1>2. Gone' = Gone
  BY DEF Gone
<1> QED
  BY <1>1, <1>2 DEF Promise!vars, Seen, Gone, Departed

\* A step that publishes is a Write of the promise.
LEMMA PromiseWrite ==
  ASSUME UNCHANGED <<got, conn, via>>, ~Sealed, ~Sealed', NEW f \in Events, LogAppend(f)
  PROVE  Promise!Next
<1>1. Seen' = Seen
  BY DEF Seen, LastId
<1>2. Gone' = Gone
  BY DEF Gone, Departed
<1>3. Sealed' = Sealed
  BY DEF Sealed
<1>4. Promise!Write(f)
  BY <1>1, <1>2, <1>3 DEF Promise!Write, LogAppend, Seen, Gone, Departed
<1> QED
  BY <1>4 DEF Promise!Next

\* The turn leaves its log behind: a Seal of the promise.
LEMMA PromiseSeal ==
  ASSUME UNCHANGED <<frames, got>>, ~Sealed, Sealed',
         \A c \in Clients : Departed(c)' = Departed(c)
  PROVE  Promise!Next
<1>1. Seen' = Seen
  BY DEF Seen, LastId
<1>2. Gone' = Gone
  BY DEF Gone
<1>3. Promise!Seal
  BY <1>1, <1>2 DEF Promise!Seal, Seen, Gone, Departed
<1> QED
  BY <1>3 DEF Promise!Next

\* What a client is shown changes nobody else's view.
LEMMA SeenReceive ==
  ASSUME TypeOK, NEW c \in Clients, NEW n \in 1..Len(frames), Receive(c, n)
  PROVE  Seen' = [Seen EXCEPT ![c] = n]
<1>1. /\ got[c] \in Seq(Nat) /\ Len(got[c]) \in Nat /\ n \in Nat
      /\ got' = [got EXCEPT ![c] = Append(got[c], n)]
  BY DEF TypeOK, Receive
<1>2. \A b \in Clients : b # c => got'[b] = got[b]
  BY <1>1 DEF TypeOK
<1>3. Len(got'[c]) = Len(got[c]) + 1 /\ got'[c][Len(got[c]) + 1] = n
  BY <1>1 DEF TypeOK
<1>4. got'[c] # <<>>
  <2>1. Len(got'[c]) # 0
    BY <1>1, <1>3
  <2> QED
    BY <2>1
<1>5. got'[c][Len(got'[c])] = n
  BY <1>3
<1> QED
  BY <1>2, <1>4, <1>5 DEF Seen, LastId

\* A frame further on, shown to a client that has been elsewhere.
LEMMA ShownElsewhere ==
  ASSUME NEW c \in Clients, NEW n \in 1..Len(frames), LastId(c) \in Nat, LastId(c) < n,
         TypeOK, UNCHANGED <<frames, Sealed>>, Seen[c] = LastId(c), Gone[c] = "elsewhere",
         Seen' = [Seen EXCEPT ![c] = n],
         Gone' = [Gone EXCEPT ![c] = IF frames[n] \in Dones THEN "finished" ELSE Gone[c]]
  PROVE  Promise!ShowElsewhere(c)
<1>1. n \in (Seen[c] + 1)..Len(frames)
  BY DEF TypeOK
<1>2. \E m \in (Seen[c] + 1)..Len(frames) :
        /\ Seen' = [Seen EXCEPT ![c] = m]
        /\ Gone' = [Gone EXCEPT ![c] = IF frames[m] \in Dones THEN "finished" ELSE @]
  BY <1>1
<1> QED
  BY <1>2 DEF Promise!ShowElsewhere, Seen, Gone, Departed

\* Every step of the turn, its threads and its clients is allowed by the promise.
LEMMA PromiseNext == TaskInv /\ FlowInv /\ ReadInv /\ [Next]_vars => [Promise!Next]_(Promise!vars)
<1> SUFFICES ASSUME TaskInv, FlowInv, ReadInv, [Next]_vars
             PROVE  Promise!Next \/ UNCHANGED Promise!vars
  OBVIOUS
<1> USE DEF task, pumped, rows, turn, redis, tabs, TaskInv
<1>0. ASSUME UNCHANGED <<frames, got, conn, via>>, Sealed' = Sealed
      PROVE  UNCHANGED Promise!vars
  BY <1>0, PromiseStutter DEF Departed
<1>50. ASSUME UNCHANGED <<got, conn, via>>, ~Sealed, ~Sealed',
              NEW f \in Events, LogAppend(f)
       PROVE  Promise!Next
  BY <1>50, PromiseWrite
<1>1. CASE MirrorOpen
  BY <1>0, <1>1 DEF MirrorOpen, Sealed
<1>2. CASE MirrorAppend
  BY <1>0, <1>2 DEF MirrorAppend, Sealed, FlowInv, AfterPublish
<1>3. CASE Instructions
  BY <1>0, <1>3 DEF Instructions, Sealed
<1>4. CASE Resolve
  BY <1>0, <1>4 DEF Resolve, Sealed
<1>5. CASE Gate
  BY <1>0, <1>5 DEF Gate, Sealed
<1>6. CASE Flush
  BY <1>0, <1>6 DEF Flush, Sealed
<1>7. CASE Launch
  BY <1>0, <1>7 DEF Launch, Sealed
<1>8. CASE PumpHead
  BY <1>0, <1>8 DEF PumpHead, Sealed, LoopHead
<1>9. CASE PumpTimeout
  BY <1>0, <1>9 DEF PumpTimeout, Sealed, LoopHead
<1>10. CASE PumpAsk
  BY <1>0, <1>10 DEF PumpAsk, Sealed, LoopHead
<1>11. CASE Result
  BY <1>0, <1>11 DEF Result, Sealed
<1>12. CASE Reap
  BY <1>0, <1>12 DEF Reap, Sealed
<1>13. CASE Persisted
  BY <1>0, <1>13 DEF Persisted, Sealed
<1>14. CASE Extras
  BY <1>0, <1>14 DEF Extras, Sealed
<1>15. CASE Ledger
  BY <1>0, <1>15 DEF Ledger, Sealed, TypeOK
<1>16. CASE InnerEmit
  BY <1>0, <1>16 DEF InnerEmit, Sealed
<1>17. CASE InnerEnds
  BY <1>0, <1>17 DEF InnerEnds, Sealed
<1>18. CASE InnerRecorded
  BY <1>0, <1>18 DEF InnerRecorded, Sealed
<1>19. CASE InnerCancelled
  BY <1>0, <1>19 DEF InnerCancelled, Sealed
<1>20. CASE ThreadEnds
  BY <1>0, <1>20 DEF ThreadEnds, Sealed
<1>21. CASE CancelDelivered
  BY <1>0, <1>21 DEF CancelDelivered, Sealed, FlowInv, AfterPublish, StopParked,
     Parked, Awaits
<1>22. CASE PublishStart
  BY <1>50, <1>22 DEF PublishStart, Publish, Events, Dones, Sealed
<1>23. CASE PublishPlan
  BY <1>50, <1>23 DEF PublishPlan, Publish, Events, Dones, Sealed
<1>24. CASE PublishTurn
  BY <1>50, <1>24 DEF PublishTurn, Publish, Events, Dones, Sealed
<1>25. CASE PublishClarify
  BY <1>50, <1>25 DEF PublishClarify, Publish, Events, Dones, Sealed
<1>26. CASE PublishOutcome
  BY <1>50, <1>26 DEF PublishOutcome, Publish, Events, Dones, Sealed
<1>27. CASE PublishStopped
  BY <1>50, <1>27 DEF PublishStopped, Publish, Events, Dones, Sealed
<1>28. CASE PublishCrashed
  BY <1>50, <1>28 DEF PublishCrashed, Publish, Events, Dones, Sealed
<1>29. CASE PumpEvent
  BY <1>50, <1>29 DEF PumpEvent, Publish, Events, Dones, Sealed
<1>30. CASE Drain
  <2>1. CASE events > 0
    BY <1>50, <1>30, <2>1 DEF Drain, Publish, Events, Sealed
  <2>2. CASE ~(events > 0)
    BY <1>0, <1>30, <2>2 DEF Drain, Sealed, TypeOK, FlushThen
  <2> QED
    BY <2>1, <2>2
<1>31. CASE Close
  BY <1>0, <1>31 DEF Close, Sealed
<1>32. CASE Finish
  BY <1>32, PromiseSeal DEF Finish, Sealed, Departed
<1>33. CASE Crash
  <2>1. \A c \in Clients : Departed(c)' = Departed(c)
    BY <1>33 DEF Crash, Departed, TypeOK
  <2>2. Sealed' /\ UNCHANGED <<frames, got>>
    BY <1>33 DEF Crash, Sealed
  <2> QED
    BY <2>1, <2>2, PromiseSeal, PromiseStutter DEF Sealed
<1>34. ASSUME NEW c \in Clients, Press(c)
      PROVE UNCHANGED Promise!vars
  BY <1>0, <1>34 DEF Press, StopLocal, StopRemote, Sealed
<1>35. ASSUME NEW c \in Clients, Drop(c)
      PROVE UNCHANGED Promise!vars
  <2>1. \A b \in Clients : Departed(b)' = Departed(b)
    BY <1>35 DEF Drop, Departed, TypeOK
  <2> QED
    BY <1>35, <2>1, PromiseStutter DEF Drop, Sealed
<1>36. ASSUME NEW c \in Clients, Resume(c)
      PROVE Promise!Next \/ UNCHANGED Promise!vars
  <2>1. UNCHANGED <<frames, got>> /\ Sealed' = Sealed /\ Seen' = Seen
    BY <1>36 DEF Resume, Sealed, Seen, LastId
  <2>2. \A b \in Clients : b # c => Departed(b)' = Departed(b)
    BY <1>36 DEF Resume, Departed, TypeOK
  <2>3. CASE Departed(c)' = Departed(c)
    BY <2>1, <2>2, <2>3, PromiseStutter
  <2>4. CASE Departed(c)' # Departed(c)
    <3>1. Departed(c) = "no" /\ Departed(c)' = "elsewhere"
      BY <1>36, <2>4 DEF Resume, Departed, TypeOK
    <3>2. Gone' = [Gone EXCEPT ![c] = "elsewhere"] /\ Gone[c] = "no"
      BY <2>2, <3>1 DEF Gone
    <3>3. Promise!Depart(c)
      BY <2>1, <3>2 DEF Promise!Depart, Seen, Gone, Departed
    <3> QED
      BY <3>3 DEF Promise!Next
  <2> QED
    BY <2>3, <2>4
<1>37. ASSUME NEW c \in Clients, FollowLocal(c)
      PROVE Promise!Next
  <2> DEFINE n == LastId(c) + 1
  <2>1. LastId(c) \in Nat /\ n \in 1..Len(frames) /\ Receive(c, n)
    BY <1>37 DEF FollowLocal, LastId, TypeOK
  <2>2. Seen' = [Seen EXCEPT ![c] = n]
    BY <2>1, SeenReceive
  <2>3. Gone' = [Gone EXCEPT ![c] = IF frames[n] \in Dones THEN "finished" ELSE Gone[c]]
    BY <1>37, <2>1 DEF FollowLocal, Receive, Gone, Departed, TypeOK
  <2>4. Seen[c] = LastId(c) /\ Gone[c] \in {"no", "elsewhere"}
    BY <1>37 DEF FollowLocal, Seen, Gone, Departed
  <2>5. UNCHANGED <<frames, Sealed>>
    BY <1>37 DEF FollowLocal, Sealed
  <2>6. CASE Gone[c] = "no"
    <3>1. Promise!Show(c)
      BY <2>1, <2>2, <2>3, <2>4, <2>5, <2>6 DEF Promise!Show, Seen, Gone, Departed
    <3> QED
      BY <3>1 DEF Promise!Next
  <2>7. CASE Gone[c] = "elsewhere"
    <3>1. LastId(c) < n
      BY <2>1
    <3>2. Promise!ShowElsewhere(c)
      BY <2>1, <2>2, <2>3, <2>4, <2>5, <2>7, <3>1, ShownElsewhere
    <3> QED
      BY <3>2 DEF Promise!Next
  <2> QED
    BY <2>4, <2>6, <2>7
<1>38. ASSUME NEW c \in Clients, FollowRemote(c)
      PROVE Promise!Next
  <2>1. PICK n \in Unread(c) : Receive(c, n)
    BY <1>38 DEF FollowRemote
  <2>2. LastId(c) \in Nat /\ n \in 1..Len(frames) /\ LastId(c) < n
    BY <2>1 DEF Unread, LastId, TypeOK
  <2>3. Seen' = [Seen EXCEPT ![c] = n]
    BY <2>1, <2>2, SeenReceive
  <2>4. Gone' = [Gone EXCEPT ![c] = IF frames[n] \in Dones THEN "finished" ELSE Gone[c]]
    BY <1>38, <2>1 DEF FollowRemote, Receive, Gone, Departed, TypeOK, ReadInv,
       LocalReader
  <2>5. Seen[c] = LastId(c) /\ Gone[c] = "elsewhere"
    BY <1>38 DEF FollowRemote, Seen, Gone, Departed, ReadInv, LocalReader
  <2>6. UNCHANGED <<frames, Sealed>>
    BY <1>38 DEF FollowRemote, Sealed
  <2>7. Promise!ShowElsewhere(c)
    BY <2>2, <2>3, <2>4, <2>5, <2>6, ShownElsewhere
  <2> QED
    BY <2>7 DEF Promise!Next
<1>39. ASSUME NEW c \in Clients, SynthesiseLocal(c)
      PROVE Promise!Next
  <2>1. UNCHANGED <<frames, got, Sealed>> /\ Seen' = Seen
    BY <1>39 DEF SynthesiseLocal, Sealed, Seen, LastId
  <2>2. Gone' = [Gone EXCEPT ![c] = "told"]
    BY <1>39 DEF SynthesiseLocal, Gone, Departed, TypeOK
  <2>3. CASE c \in via
    <3>1. Gone[c] = "elsewhere"
      BY <1>39, <2>3 DEF SynthesiseLocal, Gone, Departed
    <3>2. Promise!TellElsewhere(c)
      BY <2>1, <2>2, <3>1 DEF Promise!TellElsewhere, Seen, Gone, Departed
    <3> QED
      BY <3>2 DEF Promise!Next
  <2>4. CASE c \notin via
    <3>1. Gone[c] = "no"
      BY <1>39, <2>4 DEF SynthesiseLocal, Gone, Departed
    <3>2. Len(got[c]) = Len(frames) /\ LastId(c) = Len(frames)
      BY <1>39, <2>4 DEF SynthesiseLocal, LastId, TypeOK, ReadInv, ExactlyOnce
    <3>3. Sealed
      BY <1>39, <2>4, <3>2 DEF SynthesiseLocal, ReadInv, LocalReader, ClosedLog, HasDone
    <3>4. Promise!Tell(c)
      BY <2>1, <2>2, <3>1, <3>2, <3>3 DEF Promise!Tell, Seen, Gone, Departed
    <3> QED
      BY <3>4 DEF Promise!Next
  <2> QED
    BY <2>3, <2>4
<1>40. ASSUME NEW c \in Clients, GiveUpRemote(c)
      PROVE Promise!Next
  <2>1. UNCHANGED <<frames, got, Sealed>> /\ Seen' = Seen
    BY <1>40 DEF GiveUpRemote, Sealed, Seen, LastId
  <2>2. Gone' = [Gone EXCEPT ![c] = "told"]
    BY <1>40 DEF GiveUpRemote, Gone, Departed, TypeOK
  <2>3. Gone[c] = "elsewhere"
    BY <1>40 DEF GiveUpRemote, Gone, Departed, ReadInv, LocalReader
  <2>4. Promise!TellElsewhere(c)
    BY <2>1, <2>2, <2>3 DEF Promise!TellElsewhere, Seen, Gone, Departed
  <2> QED
    BY <2>4 DEF Promise!Next
<1>41. CASE UNCHANGED vars
  BY <1>0, <1>41 DEF vars, Sealed
<1> QED
  BY <1>1, <1>2, <1>3, <1>4, <1>5, <1>6, <1>7, <1>8, <1>9, <1>10, <1>11, <1>12, <1>13,
     <1>14, <1>15, <1>16, <1>17, <1>18, <1>19, <1>20, <1>21, <1>22, <1>23, <1>24,
     <1>25, <1>26, <1>27, <1>28, <1>29, <1>30, <1>31, <1>32, <1>33, <1>34, <1>35,
     <1>36, <1>37, <1>38, <1>39, <1>40, <1>41
     DEF Next, Produce, Answer, Follow

-----------------------------------------------------------------------------
\* Every reachable state of every instance is well typed.
THEOREM TypeCorrect == Spec => []TypeOK
<1>1. TaskInv => TypeOK
  BY DEF TaskInv
<1> QED
  BY TaskInit, TaskNext, <1>1, PTL DEF Spec

\* The readers' invariant holds of every reachable state.
LEMMA ReadersInvariant == Spec => [](TaskInv /\ ReadInv)
  BY TaskInit, TaskNext, ReadInit, ReadNext, PTL DEF Spec

\* A client of the worker that runs the turn receives the log from its first
\* frame on, every frame once, however often its connection is lost.
THEOREM LocalReadersExactlyOnce == Spec => []ExactlyOnce
<1>1. ReadInv => ExactlyOnce
  BY DEF ReadInv
<1> QED
  BY ReadersInvariant, <1>1, PTL

\* No client, also of the other worker, sees a frame twice or out of order.
THEOREM ReadersNeverTwice == Spec => []NeverTwice
<1>1. ReadInv => NeverTwice
  BY DEF ReadInv
<1> QED
  BY ReadersInvariant, <1>1, PTL

\* No client of this worker is told that a turn with a `done' did not finish.
THEOREM ReadersToldTheTruth == Spec => []ToldTheTruth
<1>1. ReadInv => ToldTheTruth
  BY DEF ReadInv, LocalReader, ToldTheTruth, HasDone
<1> QED
  BY ReadersInvariant, <1>1, PTL

\* The invariant of the task: its control flow, its rows and the end of its log.
LEMMA TaskInvariant == Spec => [](TaskInv /\ FlowInv /\ RowInv /\ DoneInv)
  BY TaskInit, TaskNext, FlowInit, FlowNext, RowInit, RowNext, DoneInit, DoneNext, PTL
     DEF Spec

\* Whichever of the answer, the failures, the clarifying question and any number of
\* Stops come together, a turn's log ends in one `done', or in one and a `cancelled'.
THEOREM DoneIsTheLastWord == Spec => []LastWord
<1>1. DoneInv => LastWord
  BY DEF DoneInv
<1> QED
  BY TaskInvariant, <1>1, PTL

\* A client that sees `answered' finds the turn in the transcript, or the database
\* refused it; a transcript has finished answers only; and no stored turn is reported
\* as failed or as a question back.
THEOREM TranscriptIsTrue == Spec => []TranscriptTrue
<1>1. RowInv => TranscriptTrue
  BY DEF RowInv
<1> QED
  BY TaskInvariant, <1>1, PTL

\* From the delivery of a Stop on, wherever it lands, the turn begins no write, asks the
\* model nothing outside its answering task, and that task is only cancelled.
THEOREM CancelledBeginsNothing == Spec => NothingBegunAfterStop
  BY TaskInvariant, NothingBegins, PTL DEF Spec, NothingBegunAfterStop

\* Every behaviour of a turn is one its promise to the readers allows: one log, sealed
\* once; each reader shown it in order; nobody told it is over while a `done' is left.
THEOREM PromiseIsKept == Spec => KeepsPromise
  BY PromiseInit, PromiseNext, ReadersInvariant, TaskInvariant, PTL
     DEF Spec, KeepsPromise, Promise!Spec
=============================================================================
