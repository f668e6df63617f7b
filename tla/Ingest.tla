------------------------------- MODULE Ingest -------------------------------
(***************************************************************************)
(* The ingest of external sources into fact_trade                          *)
(* (src/ceynex/data/pipeline.py) by the only writer into it                *)
(* (src/ceynex/data/writer.py): the run's row, the transaction, the copy   *)
(* in Parquet and what the freshness view reads of it                      *)
(* (src/ceynex/data/freshness.py).  Jobs are ingests that run at once: the *)
(* monthly refresh and those an administrator starts.  An observation is   *)
(* an (item, HS code, partner, period); partner "world" is SQL's NULL.     *)
(***************************************************************************)
EXTENDS Integers, Sequences, FiniteSets, FiniteSetsExt

CONSTANTS Jobs, Sources, Observations,
          Publishes,    \* Sources -> SUBSET Observations
          ItemOf, PartnerOf,
          Books,        \* Sources -> the ways its rows state their workbook
          Amounts,
          MaxAttempts, MaxTrouble

VARIABLES fact,     \* rows [source, obs, amount, copy]
          cited,    \* fact_provenance: [source, obs, book]
          runs,     \* ingest_run: Seq([source, status, at])
          flags,    \* dq_flag: [obs, sources]
          mirror,   \* Sources -> item -> rows [obs, amount] of its file in that partition
          job, reported, attempts, trouble
vars == <<fact, cited, runs, flags, mirror, job, reported, attempts, trouble>>

World == "world"
NoBatch == [source |-> "none", rows |-> <<>>, book |-> "none"]
Idle == [pc |-> "idle", batch |-> NoBatch, run |-> 0]
\* A workbook, none, one without its row, one with a blank name.
BookKinds == {"none", "book", "incomplete", "blank"}
Batches(s) ==
  {[source |-> s, rows |-> r, book |-> b] :
     r \in UNION {[back -> Amounts] : back \in SUBSET Publishes[s]},
     b \in Books[s]}
Items == {ItemOf[o] : o \in Observations}

Init ==
  /\ fact = {} /\ cited = {} /\ runs = <<>> /\ flags = {}
  /\ mirror = [s \in Sources |-> [i \in Items |-> {}]]
  /\ job = [j \in Jobs |-> Idle]
  /\ reported = [s \in Sources |-> "none"]
  /\ attempts = 0 /\ trouble = 0

Trouble == trouble < MaxTrouble /\ trouble' = trouble + 1

-----------------------------------------------------------------------------
(* ingest_run and the views of it.                                         *)

Latest == Max({0} \cup {runs[i].at : i \in DOMAIN runs})
Closed(r, status) == [r EXCEPT !.status = status, !.at = Latest + 1]
LastOf(s, status) ==
  Max({0} \cup {runs[i].at : i \in {k \in DOMAIN runs : runs[k].source = s /\ runs[k].status = status}})
LastSuccess(s) == LastOf(s, "success")
LastFailure(s) == LastOf(s, "failed")

\* record_failed_run: a row of its own; when the database is away the failure is logged only.
RecordFailedRun(s) ==
  \/ /\ runs' = Append(runs, [source |-> s, status |-> "failed", at |-> Latest + 1])
     /\ reported' = [reported EXCEPT ![s] = "failed"]
     /\ UNCHANGED trouble
  \/ Trouble /\ reported' = [reported EXCEPT ![s] = "unrecorded"] /\ UNCHANGED runs

-----------------------------------------------------------------------------
(* run_source.                                                             *)

\* The connector's rows go to the writer.
Fetch(j, s) ==
  /\ job[j].pc = "idle" /\ attempts < MaxAttempts
  /\ attempts' = attempts + 1
  /\ \E b \in Batches(s) : job' = [job EXCEPT ![j] = [Idle EXCEPT !.pc = "prepare", !.batch = b]]
  /\ UNCHANGED <<fact, cited, runs, flags, mirror, reported, trouble>>

\* The connector raises; the other sources go on, and its failure is a run.
FetchFails(j, s) ==
  /\ job[j].pc = "idle" /\ attempts < MaxAttempts
  /\ attempts' = attempts + 1
  /\ RecordFailedRun(s)
  /\ UNCHANGED <<fact, cited, flags, mirror, job>>

-----------------------------------------------------------------------------
(* UnifiedDatasetWriter.write.                                             *)

\* prepare: a row that states where it comes from states all of it.
Valid(b) == b.rows # <<>> /\ b.book # "incomplete"

\* Nothing to write, or a batch that is not valid: no ingest_run row either way.
Refuse(j) ==
  LET b == job[j].batch IN
  /\ job[j].pc = "prepare" /\ ~Valid(b)
  /\ reported' = [reported EXCEPT ![b.source] = "unrecorded"]
  /\ job' = [job EXCEPT ![j] = Idle]
  /\ UNCHANGED <<fact, cited, runs, flags, mirror, attempts, trouble>>

\* cross_validate: every two sources that state one observation in the batch, of which
\* there is one.
SourcesOf(b, o) == IF o \in DOMAIN b.rows THEN {b.source} ELSE {}
Flags(b) ==
  UNION {{[obs |-> o, sources |-> pair] : pair \in {p \in SUBSET SourcesOf(b, o) : Cardinality(p) = 2}} :
           o \in Observations}

StartRun(j) ==
  LET b == job[j].batch IN
  /\ job[j].pc = "prepare" /\ Valid(b)
  /\ \/ /\ runs' = Append(runs, [source |-> b.source, status |-> "running", at |-> 0])
        /\ job' = [job EXCEPT ![j].pc = "write", ![j].run = Len(runs) + 1]
        /\ UNCHANGED <<reported, trouble>>
     \/ /\ Trouble /\ job' = [job EXCEPT ![j] = Idle]
        /\ reported' = [reported EXCEPT ![b.source] = "unrecorded"]
        /\ UNCHANGED runs
  /\ UNCHANGED <<fact, cited, flags, mirror, attempts>>

Same(r, b, o) == r.source = b.source /\ r.obs = o
Row(b, o) ==
  [source |-> b.source, obs |-> o, amount |-> b.rows[o],
   copy |-> 1 + Cardinality({r \in fact : Same(r, b, o)})]

\* _upsert: a row of that identity is replaced, one with the same hash left alone.
Upsert(b) ==
  {r \in fact : \A o \in DOMAIN b.rows : ~Same(r, b, o)}
    \cup {[Row(b, o) EXCEPT !.copy = 1] : o \in DOMAIN b.rows}

\* _write_provenance: one locator for each workbook that stated the row.
Cite(b) == cited \cup {[source |-> b.source, obs |-> o, book |-> b.book] : o \in DOMAIN b.rows}

\* Rows, provenance, flags and the run's success in one transaction.
Commit(j) ==
  LET b == job[j].batch IN
  /\ job[j].pc = "write" /\ b.book # "blank"
  /\ fact' = Upsert(b)
  /\ cited' = IF b.book = "none" THEN cited ELSE Cite(b)
  /\ flags' = flags \cup Flags(b)
  /\ runs' = [runs EXCEPT ![job[j].run] = Closed(@, "success")]
  /\ reported' = [reported EXCEPT ![b.source] = "ok"]
  /\ job' = [job EXCEPT ![j].pc = "mirror"]
  /\ UNCHANGED <<mirror, attempts, trouble>>

\* The database refuses or is lost: nothing of the batch is kept.
WriteFails(j) ==
  /\ job[j].pc = "write" /\ Trouble
  /\ job' = [job EXCEPT ![j].pc = "close"]
  /\ UNCHANGED <<fact, cited, runs, flags, mirror, reported, attempts>>

\* _record_failure: the run is closed over a connection of its own, if there is one.
Close(j) ==
  LET s == job[j].batch.source IN
  /\ job[j].pc = "close"
  /\ \/ /\ runs' = [runs EXCEPT ![job[j].run] = Closed(@, "failed")]
        /\ reported' = [reported EXCEPT ![s] = "failed"]
        /\ UNCHANGED trouble
     \/ Trouble /\ reported' = [reported EXCEPT ![s] = "unrecorded"] /\ UNCHANGED runs
  /\ job' = [job EXCEPT ![j] = Idle]
  /\ UNCHANGED <<fact, cited, flags, mirror, attempts>>

\* A blank locator passes prepare and raises inside the transaction, which no one closes.
LocatorRaises(j) ==
  /\ job[j].pc = "write" /\ job[j].batch.book = "blank"
  /\ RecordFailedRun(job[j].batch.source)
  /\ job' = [job EXCEPT ![j] = Idle]
  /\ UNCHANGED <<fact, cited, flags, mirror, attempts>>

\* Mutant: the partition is cleared first, as until 2026-10.
Mirror_DeleteMatching(j) ==
  LET b == job[j].batch
      touched == {ItemOf[o] : o \in DOMAIN b.rows} IN
  /\ job[j].pc = "mirror"
  /\ mirror' = [s \in Sources |-> [i \in Items |->
       IF i \notin touched THEN mirror[s][i]
       ELSE IF s = b.source THEN {[obs |-> o, amount |-> b.rows[o]] : o \in {p \in DOMAIN b.rows : ItemOf[p] = i}}
       ELSE {}]]
  /\ job' = [job EXCEPT ![j] = Idle]
  /\ UNCHANGED <<fact, cited, runs, flags, reported, attempts, trouble>>

\* _mirror_to_parquet: this source's file of each partition it writes; a failure is a warning.
Mirror(j) ==
  LET b == job[j].batch
      in(i) == {p \in DOMAIN b.rows : ItemOf[p] = i} IN
  /\ job[j].pc = "mirror"
  /\ \/ /\ mirror' = [mirror EXCEPT ![b.source] = [i \in Items |->
             IF in(i) = {} THEN @[i] ELSE {[obs |-> o, amount |-> b.rows[o]] : o \in in(i)}]]
        /\ UNCHANGED trouble
     \/ Trouble /\ UNCHANGED mirror
  /\ job' = [job EXCEPT ![j] = Idle]
  /\ UNCHANGED <<fact, cited, runs, flags, reported, attempts>>

\* The process dies: a transaction under way is rolled back, its run stays `running'.
Crash(j) ==
  /\ job[j].pc # "idle" /\ Trouble
  /\ reported' = IF job[j].pc = "mirror" THEN reported
                 ELSE [reported EXCEPT ![job[j].batch.source] = "unrecorded"]
  /\ job' = [job EXCEPT ![j] = Idle]
  /\ UNCHANGED <<fact, cited, runs, flags, mirror, attempts>>

Next ==
  \E j \in Jobs :
    \/ \E s \in Sources : Fetch(j, s) \/ FetchFails(j, s)
    \/ Refuse(j) \/ StartRun(j) \/ Commit(j) \/ WriteFails(j) \/ Close(j) \/ LocatorRaises(j)
    \/ Mirror(j) \/ Crash(j)
Spec == Init /\ [][Next]_vars

-----------------------------------------------------------------------------
(* Properties.                                                             *)

TypeOK ==
  /\ fact \subseteq [source : Sources, obs : Observations, amount : Amounts, copy : 1..(MaxAttempts + 1)]
  /\ \A i \in DOMAIN runs :
       /\ runs[i].status \in {"running", "success", "failed"}
       /\ runs[i].status = "running" <=> runs[i].at = 0
  /\ \A j \in Jobs : job[j].pc \in {"write", "close"} =>
       /\ runs[job[j].run].status = "running" /\ runs[job[j].run].source = job[j].batch.source
  /\ \A j, k \in Jobs : j # k /\ {job[j].pc, job[k].pc} \subseteq {"write", "close"} => job[j].run # job[k].run

\* However often a source is ingested, by however many jobs, fact_trade holds one row of
\* each identity, also of the world rows whose partner is NULL.
OneRowPerIdentity == \A q, r \in fact : q.source = r.source /\ q.obs = r.obs => q = r

\* A source whose only runs failed, were refused or died has no rows, and what a failed
\* run tried to write is not in the table: rows and citations come with a success.
RowsHaveARun ==
  /\ \A r \in fact : LastSuccess(r.source) > 0
  /\ \A c \in cited : \E r \in fact : r.source = c.source /\ r.obs = c.obs

\* When the last attempt to reach ingest_run failed, the freshness view shows a failure
\* newer than the last success; when it succeeded, it shows that.
FailureIsShown ==
  \A s \in Sources :
    /\ reported[s] = "failed" => LastFailure(s) > LastSuccess(s)
    /\ reported[s] = "ok" => LastSuccess(s) > LastFailure(s)

\* A source's ingest leaves every other source's copy in Parquet alone.
OthersMirrorKept ==
  [][\A s \in Sources : mirror'[s] # mirror[s] =>
       \E j \in Jobs : job[j].pc = "mirror" /\ job[j].batch.source = s /\ job'[j] = Idle]_vars
=============================================================================
