---------------------------- MODULE ModelRegistry ----------------------------
(***************************************************************************)
(* The registered versions of one sector, item and target                  *)
(* (src/ceynex/models/registry.py): a directory per version with model.pkl *)
(* and metadata.json.  Retrains run in the threads of the admin route      *)
(* (src/ceynex/api/routes/admin.py) of any worker and save by several      *)
(* writes to the disk without a lock; the forecast agent reads meanwhile,  *)
(* and the process may be killed between any two writes.                   *)
(***************************************************************************)
EXTENDS Integers, Sequences, FiniteSets, FiniteSetsExt

CONSTANTS Saves,        \* the retrains; what each fits is told by its name
          Errors        \* the errors a backtest may report (a MAPE)

VARIABLES disk,         \* version -> [model, meta]: nothing, torn, or of one save
          save,         \* where each retrain is
          reading,      \* what the agent chose and was given
          second,       \* of the clock: the base of a version's name
          raced         \* the versions a second retrain chose before the first made its directory
registryVars == <<disk, save, reading, second, raced>>

Seeded == "seeded"
MaxSecond == 2
Absent == [is |-> "absent"]
Torn == [is |-> "torn"]
\* What a whole file holds; a save leaves its error out when the backtest failed.
Model(s) == [is |-> "whole", of |-> s]
Meta(s, mape, at) == [is |-> "whole", of |-> s, mape |-> mape, at |-> at]
NoError == -1
Base(t) == <<t, 1>>
NoVersion == <<0, 0>>
Waiting == [pc |-> "wait", version |-> NoVersion, mape |-> NoError, at |-> 0]
NotReading == [pc |-> "idle", meta |-> Absent, version |-> NoVersion, got |-> Absent]

RegistryInit ==
  /\ disk = [v \in {Base(0)} |->
              [model |-> Model(Seeded), meta |-> Meta(Seeded, Max(Errors), 0)]]
  /\ save = [s \in Saves |-> Waiting]
  /\ reading = NotReading /\ second = 1 /\ raced = {}

-----------------------------------------------------------------------------
(* A retrain.                                                              *)

Exists(v) == v \in DOMAIN disk
Readable == {v \in DOMAIN disk : disk[v].meta.is = "whole"}
Newest == CHOOSE v \in Readable : \A o \in Readable : disk[v].meta.at >= disk[o].meta.at
At(s, step) == save[s].pc = step
Go(s, step) == save' = [save EXCEPT ![s].pc = step]
Race(s, v) == {w \in {v} : \E o \in Saves \ {s} : At(o, "chosen") /\ save[o].version = w}
Put(v, files) == disk' = [o \in DOMAIN disk \cup {v} |-> IF o = v THEN files ELSE disk[o]]

\* retrain: the newest version's model is loaded, refitted and backtested, or the retrain fails.
Refit(s) ==
  /\ At(s, "wait")
  /\ \E mape \in Errors \cup {NoError} :
       save' = [save EXCEPT ![s].pc = IF disk[Newest].model.is = "whole" THEN "fitted" ELSE "failed",
                            ![s].mape = mape]
  /\ UNCHANGED <<disk, reading, second, raced>>

\* Mutant: the timestamp alone, taken or not.
ChooseVersion_Base(s) ==
  /\ At(s, "fitted")
  /\ save' = [save EXCEPT ![s].pc = "chosen", ![s].version = Base(second)]
  /\ raced' = raced \cup Race(s, Base(second))
  /\ UNCHANGED <<disk, reading, second>>
\* _free_version: the second, with the first suffix no directory has.
ChooseVersion(s) ==
  /\ At(s, "fitted")
  /\ LET free == {n \in 1..(Cardinality(DOMAIN disk) + 1) : ~Exists(<<second, n>>)}
         v == <<second, Min(free)>>
     IN /\ save' = [save EXCEPT ![s].pc = "chosen", ![s].version = v]
        /\ raced' = raced \cup Race(s, v)
  /\ UNCHANGED <<disk, reading, second>>

\* mkdir, with exist_ok: one that is there is taken as it is.
MakeDirectory(s) ==
  /\ At(s, "chosen") /\ Go(s, "model")
  /\ IF Exists(save[s].version) THEN UNCHANGED disk
     ELSE Put(save[s].version, [model |-> Absent, meta |-> Absent])
  /\ UNCHANGED <<reading, second, raced>>

\* save: saved_at is taken, then the artifact is opened and written.
OpenModel(s) ==
  /\ At(s, "model")
  /\ save' = [save EXCEPT ![s].pc = "model open", ![s].at = second]
  /\ Put(save[s].version, [disk[save[s].version] EXCEPT !.model = Torn])
  /\ UNCHANGED <<reading, second, raced>>
WriteModel(s) ==
  /\ At(s, "model open") /\ Go(s, "meta")
  /\ Put(save[s].version, [disk[save[s].version] EXCEPT !.model = Model(s)])
  /\ UNCHANGED <<reading, second, raced>>

\* _write_metadata, after the artifact.
OpenMeta(s) ==
  /\ At(s, "meta") /\ Go(s, "meta open")
  /\ Put(save[s].version, [disk[save[s].version] EXCEPT !.meta = Torn])
  /\ UNCHANGED <<reading, second, raced>>
WriteMeta(s) ==
  /\ At(s, "meta open") /\ Go(s, "saved")
  /\ Put(save[s].version, [disk[save[s].version] EXCEPT !.meta = Meta(s, save[s].mape, save[s].at)])
  /\ UNCHANGED <<reading, second, raced>>

\* The process is killed between two writes: what is on the disk stays.
Kill(s) ==
  /\ save[s].pc \in {"fitted", "chosen", "model", "model open", "meta", "meta open"}
  /\ Go(s, "killed") /\ UNCHANGED <<disk, reading, second, raced>>

-----------------------------------------------------------------------------
(* The agent: list_models skips what it cannot read, load_best the unscored, *)
(* or load_latest where nothing is scored; then the artifact is read.        *)

Least(of) == {v \in of : \A o \in of : disk[v].meta.mape <= disk[o].meta.mape}
List ==
  /\ reading.pc = "idle"
  /\ LET scored == {v \in Readable : disk[v].meta.mape # NoError}
     IN \E v \in IF scored = {} THEN {Newest} ELSE Least(scored) :
          reading' = [NotReading EXCEPT !.pc = "listed", !.version = v, !.meta = disk[v].meta]
  /\ UNCHANGED <<disk, save, second, raced>>
Load ==
  /\ reading.pc = "listed"
  /\ reading' = [reading EXCEPT !.pc = "idle", !.got = disk[reading.version].model]
  /\ UNCHANGED <<disk, save, second, raced>>

Tick == second < MaxSecond /\ second' = second + 1 /\ UNCHANGED <<disk, save, reading, raced>>

RegistryNext ==
  \/ \E s \in Saves :
       \/ Refit(s) \/ ChooseVersion(s) \/ MakeDirectory(s)
       \/ OpenModel(s) \/ WriteModel(s) \/ OpenMeta(s) \/ WriteMeta(s) \/ Kill(s)
  \/ List \/ Load \/ Tick

-----------------------------------------------------------------------------
(* Properties.                                                             *)

\* Two retrains that looked for a free version in one second, the second before the first had
\* made its directory, have one version between them: what _free_version is to prevent.
Alone(v) == v \notin raced

\* The model that is served is the one whose error and name were chosen, and whole, while
\* other versions are half written or were left so by a killed process.
ServedIsChosen ==
  reading.got # Absent /\ Alone(reading.version) => reading.got = Model(reading.meta.of)

\* A version once saved stays as it was saved: a later retrain takes another.
SavedStays ==
  \A s \in Saves : At(s, "saved") /\ Alone(save[s].version) =>
    disk[save[s].version] = [model |-> Model(s), meta |-> Meta(s, save[s].mape, save[s].at)]

\* There is always something to serve, and whatever is listed can be loaded.
ListedIsLoadable ==
  Readable # {} /\ \A v \in Readable : Alone(v) => disk[v].model = Model(disk[v].meta.of)
=============================================================================
