---------------------------- MODULE TurnPromise ----------------------------
(***************************************************************************)
(* What a conversational turn promises its readers, whatever produces it:  *)
(* there is one log of frames that only grows until it is sealed; a reader *)
(* is shown the frames of that log in order, each exactly once, however    *)
(* often it loses its connection; a reader that is shown a `done' frame    *)
(* leaves, and only a reader of a sealed log that has no `done' left to    *)
(* show may be told that the turn ended without finishing.  A reader that  *)
(* went on elsewhere, to a worker that has a copy of the log, may miss     *)
(* frames of it and the end, but is shown none twice or out of order.      *)
(* (src/ceynex/api/turn_log.py:11-15, src/ceynex/api/turn_runner.py:12-19) *)
(***************************************************************************)
EXTENDS Naturals, Sequences

CONSTANTS Readers, Frames, Finals

VARIABLES
  log,     \* the frames of the turn
  sealed,  \* nothing more will be written
  shown,   \* reader -> how much of the log it has been shown
  left     \* reader -> "no", "elsewhere", "finished" or "told" (nothing finished)

vars == <<log, sealed, shown, left>>

Init ==
  /\ log = <<>> /\ sealed = FALSE
  /\ shown = [r \in Readers |-> 0]
  /\ left = [r \in Readers |-> "no"]

Write(f) ==
  /\ ~sealed
  /\ log' = Append(log, f)
  /\ UNCHANGED <<sealed, shown, left>>

Seal == ~sealed /\ sealed' = TRUE /\ UNCHANGED <<log, shown, left>>

Show(r) ==
  /\ left[r] = "no"
  /\ shown[r] < Len(log)
  /\ shown' = [shown EXCEPT ![r] = @ + 1]
  /\ left' = [left EXCEPT ![r] = IF log[shown[r] + 1] \in Finals THEN "finished" ELSE @]
  /\ UNCHANGED <<log, sealed>>

Tell(r) ==
  /\ left[r] = "no"
  /\ sealed /\ shown[r] = Len(log)
  /\ left' = [left EXCEPT ![r] = "told"]
  /\ UNCHANGED <<log, sealed, shown>>

Depart(r) ==
  /\ left[r] = "no"
  /\ left' = [left EXCEPT ![r] = "elsewhere"]
  /\ UNCHANGED <<log, sealed, shown>>

ShowElsewhere(r) ==
  /\ left[r] = "elsewhere"
  /\ \E n \in (shown[r] + 1)..Len(log) :
       /\ shown' = [shown EXCEPT ![r] = n]
       /\ left' = [left EXCEPT ![r] = IF log[n] \in Finals THEN "finished" ELSE @]
  /\ UNCHANGED <<log, sealed>>

TellElsewhere(r) ==
  /\ left[r] = "elsewhere"
  /\ left' = [left EXCEPT ![r] = "told"]
  /\ UNCHANGED <<log, sealed, shown>>

Next ==
  \/ \E f \in Frames : Write(f)
  \/ Seal
  \/ \E r \in Readers :
       Show(r) \/ Tell(r) \/ Depart(r) \/ ShowElsewhere(r) \/ TellElsewhere(r)

Spec == Init /\ [][Next]_vars
=============================================================================
