------------------------------ MODULE MCStores ------------------------------
(***************************************************************************)
(* Small instances of SpendCap, of Ingest with GraphLoad and of            *)
(* ModelRegistry for TLC: what processes that do not know of each other    *)
(* keep in the shared stores.  They share no state: a behaviour of this    *)
(* module is a behaviour of one of them, with the others at rest.          *)
(***************************************************************************)
EXTENDS SpendCap, Sequences, TLC

CONSTANTS
  w1, w2, s1, s2,
  j1, j2, Jobs, Sources, Observations, Publishes, ItemOf, PartnerOf, Books, Amounts,
  MaxAttempts, MaxTrouble, FlowSource, LoadOptions, MaxLoads,
  m1, m2, Saves, Errors

VARIABLES
  part, fact, cited, runs, flags, mirror, job, reported, attempts, trouble,
  nodes, edges, flows, load, loads,
  disk, save, reading, second, raced

\* One call at a time in each worker.
OneOnEach == s1 :> w1 @@ s2 :> w2

Symmetric == Permutations({j1, j2})
MCOptions == {{"agreements", "agriculture", "flows", "policy"}, {"agriculture", "policy", "flows"}}
\* One code for each item; both sources state something of tea.
MCObservations == {"tea c1", "rubber c2", "tea world"}
MCSources == {"UN_COMTRADE", "TEA_BOARD"}
MCPublishes == [UN_COMTRADE |-> {"tea c1", "rubber c2"}, TEA_BOARD |-> {"tea world"}]
MCItemOf == [o \in MCObservations |-> IF o = "rubber c2" THEN "rubber" ELSE "tea"]
MCPartnerOf == [o \in MCObservations |->
  CASE o = "tea c1" -> "c1" [] o = "rubber c2" -> "c2" [] OTHER -> "world"]
MCBooks == [UN_COMTRADE |-> {"none"}, TEA_BOARD |-> {"none", "book", "incomplete", "blank"}]
\* Coconut has two codes.
CoconutObservations == {"0801 c1", "1513 c1"}
CoconutSources == {"UN_COMTRADE"}
CoconutPublishes == [UN_COMTRADE |-> CoconutObservations]
CoconutItemOf == [o \in CoconutObservations |-> "coconut"]
CoconutPartnerOf == [o \in CoconutObservations |-> "c1"]
CoconutBooks == [UN_COMTRADE |-> {"none"}]

Data == INSTANCE GraphLoad
Models == INSTANCE ModelRegistry

ASSUME DataAssumption ==
  /\ Publishes \in [Sources -> SUBSET Observations]
  /\ Books \in [Sources -> SUBSET Data!BookKinds]
  /\ IsFiniteSet(Observations) /\ Amounts \subseteq Nat /\ MaxAttempts \in Nat
  /\ LoadOptions \subseteq SUBSET Data!Parts

factVars == <<fact, cited, runs, flags, mirror, job, reported, attempts, trouble>>
graphVars == <<nodes, edges, flows, load, loads>>
modelVars == <<disk, save, reading, second, raced>>

MCInit ==
  /\ part \in {"spend", "ingest", "graph", "models"}
  /\ Init /\ Data!DataInit /\ Models!RegistryInit

\* Two ingests race; or one of the rows the graph is built from goes on between the loads,
\* its source answers, and only a load may fail: an ingest that does leaves the facts alone.
MCNext ==
  /\ part' = part
  /\ \/ part = "spend" /\ Next /\ UNCHANGED <<factVars, graphVars, modelVars>>
     \/ part = "models" /\ Models!RegistryNext /\ UNCHANGED <<vars, factVars, graphVars>>
     \/ part = "ingest" /\ Data!Next /\ UNCHANGED <<vars, graphVars, modelVars>>
     \/ /\ part = "graph" /\ Data!DataNext /\ UNCHANGED <<vars, modelVars>>
        /\ attempts' < MaxAttempts /\ <<job', load'>> # <<job, load>>
        /\ trouble' # trouble => load' # load
        /\ Cardinality({j \in Jobs : job'[j] # Data!Idle}) <= 1
        /\ \A j \in Jobs :
             job'[j] # Data!Idle => job'[j].batch.book = "none" /\ job'[j].batch.source = FlowSource

MCSpec == MCInit /\ [][MCNext]_<<part, vars, factVars, graphVars, modelVars>>

\* TypeOK, OneRowPerIdentity, RowsHaveARun, FailureIsShown and OthersMirrorKept of the
\* ingest: what is in the tables and in the files, whoever else ingests.
FactsKept ==
  /\ [](part = "ingest" => /\ Data!TypeOK /\ Data!OneRowPerIdentity
                           /\ Data!RowsHaveARun /\ Data!FailureIsShown)
  /\ Data!OthersMirrorKept
\* FullLoadComplete and OneCodeAgrees of the graph: it has what the facts and the files
\* have.  GraphAgrees asks it also of an item of two codes.
GraphFollowsFacts == part = "graph" => Data!FullLoadComplete /\ Data!OneCodeAgrees
GraphAgrees == Data!GraphAgrees
\* ServedIsChosen, SavedStays and ListedIsLoadable of the registered models.
ModelsWhole ==
  part = "models" => Models!ServedIsChosen /\ Models!SavedStays /\ Models!ListedIsLoadable
=============================================================================
